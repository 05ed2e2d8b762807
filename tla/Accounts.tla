------------------------------ MODULE Accounts ------------------------------
(***************************************************************************)
(* AccountService, the OAuth routes and the authentication in front of     *)
(* them, as concurrent requests over the account tables.  As in            *)
(* MediaLifecycle every await is a step boundary; here a request slot is   *)
(* free again when its request ends, so that short histories of many       *)
(* requests fit into few slots.                                            *)
(*                                                                         *)
(* The point of the module is what a request carries across an await: the  *)
(* users row it was authenticated with, or read, and writes back whole.    *)
(* The browser is outside: it may present any session, key, OAuth state    *)
(* or reauthentication cookie it ever got.                                 *)
(***************************************************************************)
EXTENDS AccountStore

CONSTANTS
  Requests,   \* handler invocations at a time (bound)
  MaxBegun,   \* handler invocations in all (bound)
  NoIdentity, \* "no identity yet"
  NoJti       \* "no OAuth state"

ASSUME AccountsAssumption ==
  NoIdentity \notin Identities /\ NoJti \notin Jtis /\ MaxBegun \in Nat

VARIABLES
  pc,          \* where each request is
  loc,         \* what it carries
  begun,       \* requests so far
  minted,      \* user ids, keys and nonces handed out
  flow,        \* the signed state of each nonce: mode and user
  tickets,     \* reauthentication cookies handed out
  exchanged,   \* history: codes exchanged per nonce
  issued,      \* history: the last key each user was given
  told,        \* history: UserDeleted events
  able,        \* history: users that have had a way to log in
  barred,      \* history: users whose last PATCH suspended them
  overwritten  \* history: users whose row was written over a newer one

vars == <<accounts, pc, loc, begun, minted, flow, tickets, exchanged, issued, told, able,
          barred, overwritten>>

SelfOps == {"password", "key", "disconnect", "deleteMe", "link", "reauth"}
AdminOps == {"patch", "edit", "deleteUser"}
OpenOps == {"register", "signIn"}

Points == {"idle", "loadUser", "touchKey", "authorised", "writeUser", "issueKey",
           "unlink", "confirm", "selectUser", "dropUser", "insertUser", "insertNonce",
           "whoAmI", "exchange", "findLink", "checkMail", "insertLink", "ticket"}

Locals == [op   : SelfOps \cup AdminOps \cup OpenOps \cup {"none", "callback"},
           usr  : Users \cup {NoOne},            \* the account it is about
           snap : Row,                           \* its row, as it was read
           next : Row,                           \* its row, as it will be written
           key  : Keys \cup {NoKey},             \* the API key it came with
           jti  : Jtis \cup {NoJti},             \* callback: the OAuth state
           idn  : Identities \cup {NoIdentity},  \* callback: the provider's answer
           made : BOOLEAN]                       \* callback: created the account

Blank == [op |-> "none", usr |-> NoOne, snap |-> AnyRow, next |-> AnyRow, key |-> NoKey,
          jti |-> NoJti, idn |-> NoIdentity, made |-> FALSE]

\* One account with a password, a link or both; others are yet to come.
Init ==
  /\ \E u \in Users : exists = {u}
  /\ row \in {f \in [Users -> Row] : \A u \in Users :
                f[u] = [AnyRow EXCEPT !.pw = IF u \in exists THEN f[u].pw ELSE NoPw]}
  /\ link \in [Identities -> exists \cup {NoOne}]
  /\ gone = {} /\ key = [u \in Users |-> NoKey] /\ nonces = {}
  /\ \A u \in exists : HasLogin(u)
  /\ pc = [r \in Requests |-> "idle"]
  /\ loc = [r \in Requests |-> Blank]
  /\ begun = 0
  /\ minted = exists
  /\ flow = [j \in Jtis |-> [mode |-> "login", usr |-> NoOne]]
  /\ tickets = {}
  /\ exchanged = [j \in Jtis |-> 0]
  /\ issued = key
  /\ told = {}
  /\ able = exists
  /\ barred = {}
  /\ overwritten = {}

-----------------------------------------------------------------------------
(* Shorthand.                                                              *)

\* On to the next await, with what is carried there.
Go(r, p, l) ==
  /\ pc' = [pc EXCEPT ![r] = p]
  /\ loc' = [loc EXCEPT ![r] = l]
  /\ begun' = IF pc[r] = "idle" THEN begun + 1 ELSE begun

Free(r) == pc[r] = "idle" /\ begun < MaxBegun

\* Answer, whatever it is.
Done(r) == Go(r, "idle", Blank)

Proceed(r, ok, p, l) == IF ok THEN Go(r, p, l) ELSE Done(r)

history == <<tickets, exchanged, issued, told, able, barred, overwritten>>

\* A step that only reads.
Read == UNCHANGED <<accounts, minted, flow, history>>

Active(u) == u \in exists /\ ~row[u].sus

-----------------------------------------------------------------------------
(* authenticated_principal and require_admin_user                          *)

\* The handler's first await after authentication, with the row in hand.
Handler(op) ==
  CASE op = "password" -> "writeUser"
    [] op = "key" -> "issueKey"
    [] op = "disconnect" -> "authorised"
    [] op = "deleteMe" -> "confirm"
    [] op \in {"link", "reauth"} -> "insertNonce"

\* What an authenticated request for op will write: change_password wants the
\* current password, if the row in hand has one, and sets a new one.
Wants(op, rw) == IF op = "password" THEN {[rw EXCEPT !.pw = p] : p \in Passwords} ELSE {AnyRow}

\* What the handler still looks at of the row in hand.
Holds(op, rw) == IF op \in {"password", "disconnect", "deleteMe"} THEN rw ELSE AnyRow

\* A session cookie: its user is read, and must exist and not be suspended.
BySession(r) ==
  /\ Free(r)
  /\ \E op \in SelfOps, u \in minted \cap Users :
       /\ Active(u)
       /\ \E n \in Wants(op, row[u]) :
            Go(r, Handler(op), [Blank EXCEPT !.op = op, !.usr = u, !.snap = Holds(op, row[u]), !.next = n])
  /\ Read

\* A Bearer header: get_api_key_by_hash, get_user, update_api_key.
FindKey(r) ==
  /\ Free(r)
  /\ \E op \in {"password", "key"}, u \in Users :
       /\ key[u] # NoKey
       /\ Go(r, "loadUser", [Blank EXCEPT !.op = op, !.usr = u, !.key = key[u]])
  /\ Read

LoadUser(r) ==
  /\ pc[r] = "loadUser"
  /\ LET u == loc[r].usr IN
       IF Active(u)
       THEN \E n \in Wants(loc[r].op, row[u]) :
              Go(r, "touchKey", [loc[r] EXCEPT !.snap = Holds(loc[r].op, row[u]), !.next = n])
       ELSE Done(r)
  /\ Read

StampKey(r) ==
  /\ pc[r] = "touchKey"
  /\ \E ok \in BOOLEAN :
       /\ TouchKey(loc[r].usr, loc[r].key, ok)
       /\ Proceed(r, ok, Handler(loc[r].op), [loc[r] EXCEPT !.key = NoKey])
  /\ UNCHANGED <<minted, flow, history>>

-----------------------------------------------------------------------------
(* Whole-row writes.                                                       *)

\* Mutant: a PATCH that does not name suspended lifts the suspension.
EditedLiftsSuspension(op, rw) ==
  IF op = "patch" THEN {[rw EXCEPT !.sus = b] : b \in BOOLEAN} ELSE {[rw EXCEPT !.sus = FALSE]}

\* Mutant: what the PATCH leaves out is copied as NULL.
EditedCopiesAbsent(op, rw) ==
  IF op = "patch" THEN {[rw EXCEPT !.sus = b] : b \in BOOLEAN} ELSE {[rw EXCEPT !.sus = NoPw]}

\* admin_patch_user: `suspended` may be in the PATCH or not.
Edited(op, rw) ==
  IF op = "patch" THEN {[rw EXCEPT !.sus = b] : b \in BOOLEAN} ELSE {rw}

\* update_user.  The administrator is another account; suspending also
\* revokes ShareX links (in ShareX).
ReadUser(r) ==
  /\ Free(r)
  /\ \E op \in {"patch", "edit"}, u \in exists : \E n \in Edited(op, row[u]) :
       Go(r, "writeUser", [Blank EXCEPT !.op = op, !.usr = u, !.snap = row[u], !.next = n])
  /\ Read

\* reset_user_password
ResetPassword(r) ==
  /\ Free(r)
  /\ \E u \in exists, p \in Passwords :
       Go(r, "writeUser", [Blank EXCEPT !.op = "edit", !.usr = u, !.snap = row[u],
                                        !.next = [row[u] EXCEPT !.pw = p]])
  /\ Read

\* set_user_admin_status (promote-user) and the bootstrap promotion of every
\* process start write the whole row, too.
Promote(r) ==
  /\ Free(r)
  /\ \E u \in exists :
       Go(r, "writeUser", [Blank EXCEPT !.op = "edit", !.usr = u, !.snap = row[u], !.next = row[u]])
  /\ Read

WriteUser(r) ==
  /\ pc[r] = "writeUser"
  /\ LET l == loc[r]
         u == l.usr IN
       /\ \E ok \in BOOLEAN : UpdateUser(u, l.next, ok)
       /\ overwritten' = IF u \in exists /\ row[u] # l.snap THEN overwritten \cup {u} ELSE overwritten
       /\ able' = IF u \in exists /\ l.next.pw # NoPw THEN able \cup {u} ELSE able
       /\ barred' = IF l.op # "patch" \/ u \notin exists THEN barred
                    ELSE IF l.next.sus THEN barred \cup {u} ELSE barred \ {u}
  /\ Done(r)
  /\ UNCHANGED <<minted, flow, tickets, exchanged, issued, told>>

\* issue_api_key
IssueKey(r) ==
  /\ pc[r] = "issueKey"
  /\ \E k \in Keys \ minted, ok \in BOOLEAN :
       /\ UpsertKey(loc[r].usr, k, ok)
       /\ minted' = minted \cup {k}
       /\ issued' = IF ok THEN [issued EXCEPT ![loc[r].usr] = k] ELSE issued
  /\ Done(r)
  /\ UNCHANGED <<flow, tickets, exchanged, told, able, barred, overwritten>>

-----------------------------------------------------------------------------
(* create_user: registration, the administrator, create-user and OAuth.    *)

Register(r) ==
  /\ Free(r)
  /\ \E e \in Mails, p \in Passwords \cup {NoPw} :
       /\ ~Taken(e)
       /\ Go(r, "insertUser", [Blank EXCEPT !.op = "register",
                                            !.next = [AnyRow EXCEPT !.mail = e, !.pw = p]])
  /\ Read

AddUser(r) ==
  /\ pc[r] = "insertUser"
  /\ \E u \in Users \ minted, ok \in BOOLEAN :
       /\ InsertUser(u, loc[r].next, ok)
       /\ minted' = minted \cup {u}
       /\ able' = IF ok /\ loc[r].next.pw # NoPw THEN able \cup {u} ELSE able
       /\ Proceed(r, ok /\ loc[r].op = "callback", "insertLink",
                  [loc[r] EXCEPT !.usr = u, !.next = AnyRow, !.made = TRUE])
  /\ UNCHANGED <<flow, tickets, exchanged, issued, told, barred, overwritten>>

-----------------------------------------------------------------------------
(* disconnect_oauth_provider                                               *)

\* Mutant: the password is not looked at.
ListLinksOnly(r) ==
  /\ pc[r] = "authorised"
  /\ Proceed(r, LinksOf(loc[r].usr) # {}, "unlink", [loc[r] EXCEPT !.snap = AnyRow])
  /\ Read

\* Google is the only provider, so no other link remains: the password of the
\* row in hand decides.
ListLinks(r) ==
  /\ pc[r] = "authorised"
  /\ Proceed(r, LinksOf(loc[r].usr) # {} /\ loc[r].snap.pw # NoPw, "unlink",
             [loc[r] EXCEPT !.snap = AnyRow])
  /\ Read

Unlink(r) ==
  /\ pc[r] = "unlink"
  /\ DeleteLinks(loc[r].usr)
  /\ Done(r)
  /\ UNCHANGED <<minted, flow, history>>

-----------------------------------------------------------------------------
(* Account deletion                                                        *)

\* validate_account_deletion_confirmation: a password the row in hand has, or
\* a reauthentication cookie for an identity still linked.
Confirm(r) ==
  /\ pc[r] = "confirm"
  /\ LET u == loc[r].usr IN
       Proceed(r, loc[r].snap.pw # NoPw \/ \E i \in LinksOf(u) : <<u, i>> \in tickets,
               "selectUser", [loc[r] EXCEPT !.op = "deleteUser", !.snap = AnyRow])
  /\ Read

\* delete_user_by_id for an administrator; its objects are in MediaLifecycle.
FindUser(r) ==
  /\ Free(r)
  /\ \E u \in exists : Go(r, "selectUser", [Blank EXCEPT !.op = "deleteUser", !.usr = u])
  /\ Read

\* repository.delete_user: SELECT, then DELETE at READ COMMITTED; the row of
\* the SELECT is returned whether or not the DELETE found one.
SelectUser(r) ==
  /\ pc[r] = "selectUser"
  /\ Proceed(r, loc[r].usr \in exists, "dropUser", loc[r])
  /\ Read

DropUser(r) ==
  /\ pc[r] = "dropUser"
  /\ DeleteUser(loc[r].usr, {j \in nonces : flow[j].usr = loc[r].usr})
  /\ told' = told \cup {loc[r].usr}
  /\ issued' = [issued EXCEPT ![loc[r].usr] = NoKey]
  /\ able' = able \ {loc[r].usr}
  /\ barred' = barred \ {loc[r].usr}
  /\ overwritten' = overwritten \ {loc[r].usr}
  /\ Done(r)
  /\ UNCHANGED <<minted, flow, tickets, exchanged>>

-----------------------------------------------------------------------------
(* OAuth: start                                                            *)

StartSignIn(r) ==
  /\ Free(r)
  /\ Go(r, "insertNonce", [Blank EXCEPT !.op = "signIn"])
  /\ Read

Mode(op) == CASE op = "link" -> "link" [] op = "reauth" -> "delete_account" [] OTHER -> "login"

AddNonce(r) ==
  /\ pc[r] = "insertNonce"
  /\ \E j \in Jtis \ minted, ok \in BOOLEAN :
       /\ InsertNonce(j, loc[r].usr, ok)
       /\ minted' = minted \cup {j}
       /\ flow' = [flow EXCEPT ![j] = [mode |-> Mode(loc[r].op), usr |-> loc[r].usr]]
  /\ Done(r)
  /\ UNCHANGED history

-----------------------------------------------------------------------------
(* OAuth: callback                                                         *)

Callback(r) ==
  /\ Free(r)
  /\ \E j \in minted \cap Jtis, ok \in BOOLEAN :
       /\ ConsumeNonce(j, ok)
       /\ Proceed(r, ok, "whoAmI", [Blank EXCEPT !.op = "callback", !.jti = j])
  /\ UNCHANGED <<minted, flow, history>>

\* Mutant: link mode only asks that somebody is signed in.
WhoAmIAnybody(r) ==
  /\ pc[r] = "whoAmI"
  /\ LET f == flow[loc[r].jti] IN
       IF f.mode = "login" THEN Go(r, "exchange", loc[r])
       ELSE \/ \E u \in minted \cap Users :
                 Active(u) /\ Go(r, "exchange", [loc[r] EXCEPT !.usr = u])
            \/ Done(r)
  /\ Read

\* Outside login mode the browser must be signed in as the user who started;
\* a suspended session is refused in any mode.
WhoAmI(r) ==
  /\ pc[r] = "whoAmI"
  /\ LET f == flow[loc[r].jti] IN
       \/ f.mode = "login" /\ Go(r, "exchange", loc[r])
       \/ /\ f.mode # "login" /\ Active(f.usr)
          /\ Go(r, "exchange", [loc[r] EXCEPT !.usr = f.usr])
       \/ Done(r)
  /\ Read

\* exchange_code: the provider answers with an identity and its e-mail
\* address, or nothing comes of it.
Exchange(r) ==
  /\ pc[r] = "exchange"
  /\ exchanged' = [exchanged EXCEPT ![loc[r].jti] = @ + 1]
  /\ \/ Done(r)
     \/ \E i \in Identities, e \in Mails :
          Go(r, IF flow[loc[r].jti].mode = "delete_account" THEN "ticket" ELSE "findLink",
             [loc[r] EXCEPT !.idn = i, !.next = [AnyRow EXCEPT !.mail = e]])
  /\ UNCHANGED <<accounts, minted, flow, tickets, issued, told, able, barred, overwritten>>

\* issue_account_delete_reauth_token
Ticket(r) ==
  /\ pc[r] = "ticket"
  /\ LET u == loc[r].usr
         i == loc[r].idn IN
       tickets' = IF link[i] = u THEN tickets \cup {<<u, i>>} ELSE tickets
  /\ Done(r)
  /\ UNCHANGED <<accounts, minted, flow, exchanged, issued, told, able, barred, overwritten>>

\* complete_oauth_login: a linked identity signs in or is refused; another
\* one is linked to the signed-in user, or registers a new account.
FindLink(r) ==
  /\ pc[r] = "findLink"
  /\ CASE link[loc[r].idn] # NoOne -> Done(r)
       [] link[loc[r].idn] = NoOne /\ loc[r].usr # NoOne ->
            Go(r, "insertLink", [loc[r] EXCEPT !.next = AnyRow])
       [] OTHER -> Done(r) \/ Go(r, "checkMail", loc[r])
  /\ Read

CheckMail(r) ==
  /\ pc[r] = "checkMail"
  /\ Proceed(r, ~Taken(loc[r].next.mail), "insertUser", loc[r])
  /\ Read

AddLink(r) ==
  /\ pc[r] = "insertLink"
  /\ \E ok \in BOOLEAN :
       /\ InsertLink(loc[r].idn, loc[r].usr, ok)
       /\ able' = IF ok THEN able \cup {loc[r].usr} ELSE able
  /\ Done(r)
  /\ UNCHANGED <<minted, flow, tickets, exchanged, issued, told, barred, overwritten>>

-----------------------------------------------------------------------------
\* The client goes away or the process dies.
Abandon(r) == pc[r] # "idle" /\ Done(r) /\ Read

Expire == \E j \in nonces : ExpireNonce(j) /\ UNCHANGED <<pc, loc, begun, minted, flow, history>>

Authenticating(r) == BySession(r) \/ FindKey(r) \/ LoadUser(r) \/ StampKey(r)

Writing(r) ==
  \/ ReadUser(r) \/ ResetPassword(r) \/ Promote(r) \/ WriteUser(r)
  \/ IssueKey(r) \/ Register(r) \/ AddUser(r)

Leaving(r) ==
  \/ ListLinks(r) \/ Unlink(r)
  \/ Confirm(r) \/ FindUser(r) \/ SelectUser(r) \/ DropUser(r)

OAuth(r) ==
  \/ StartSignIn(r) \/ AddNonce(r) \/ Callback(r) \/ WhoAmI(r) \/ Exchange(r)
  \/ Ticket(r) \/ FindLink(r) \/ CheckMail(r) \/ AddLink(r)

Next ==
  \/ \E r \in Requests : Authenticating(r) \/ Writing(r) \/ Leaving(r) \/ OAuth(r) \/ Abandon(r)
  \/ Expire

Spec == Init /\ [][Next]_vars
-----------------------------------------------------------------------------
(* Properties.                                                             *)

TypeOK ==
  /\ StoreTypeOK
  /\ pc \in [Requests -> Points]
  /\ loc \in [Requests -> Locals]
  /\ begun \in 0 .. MaxBegun
  /\ minted \subseteq Users \cup Keys \cup Jtis
  /\ flow \in [Jtis -> [mode : {"login", "link", "delete_account"}, usr : Users \cup {NoOne}]]
  /\ tickets \subseteq Users \X Identities
  /\ exchanged \in [Jtis -> Nat]
  /\ issued \in [Users -> Keys \cup {NoKey}]
  /\ told \subseteq Users
  /\ able \subseteq Users
  /\ barred \subseteq Users
  /\ overwritten \subseteq Users

\* An account that has had a password or a linked identity keeps one,
\* whatever disconnects, password changes, deletions and registrations
\* overlap - unless a whole-row write put back a row from before its password
\* was set (the disconnect that ran in between had seen the password).
LoginMethodRemains ==
  \A u \in exists : HasLogin(u) \/ u \notin able \/ u \in overwritten

\* An identity comes to an account in two ways only: the account's user
\* started the linking and was still signed in at the callback, or the
\* callback created the account for it.  Knowing its address is not enough.
LinksOnlyByConsent ==
  [][\A i \in Identities :
       link'[i] \notin {link[i], NoOne} =>
         \E r \in Requests :
           /\ pc[r] = "insertLink" /\ loc[r].idn = i
           /\ LET f == flow[loc[r].jti] IN
                \/ f.mode = "link" /\ f.usr = link'[i]
                \/ f.mode = "login" /\ loc[r].made]_vars

\* However often and in whatever overlap a callback URL is opened, one code
\* exchange comes of one start.
NonceOnce == \A j \in Jtis : exchanged[j] <= 1

\* A deleted account stays deleted: no request that still holds its row, its
\* key or its identity brings any of it back, and nobody is told of a
\* deletion that did not happen.
GoneStaysGone ==
  /\ exists \cap gone = {}
  /\ told \subseteq gone
  /\ \A u \in gone : key[u] = NoKey /\ LinksOf(u) = {}
  /\ \A j \in nonces : flow[j].usr \notin gone

\* The key that works is the one last handed out: the time stamp a request
\* writes for its key does not bring back a key replaced meanwhile.
KeyIsLatest == \A u \in exists : key[u] = issued[u]

\* A suspended account stays suspended until an administrator says otherwise,
\* whoever else writes its row - unless they overlapped the suspension.
SuspensionStands ==
  \A u \in exists \cap barred : row[u].sus \/ u \in overwritten
=============================================================================
