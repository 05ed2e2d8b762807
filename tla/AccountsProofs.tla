--------------------------- MODULE AccountsProofs ---------------------------
(***************************************************************************)
(* Theorems about Accounts: its invariants and the consent of OAuth links, *)
(* for any number of users, identities, nonces, keys and overlapping       *)
(* requests.  One inductive invariant carries them all: what the tables    *)
(* say of each account (StateInv), and what every request knows about the  *)
(* values it carries to its next statement (Sound).                        *)
(***************************************************************************)
EXTENDS Accounts, TLAPS

-----------------------------------------------------------------------------
(* What a request at point p may rely on of the values l it carries.       *)

\* Between the redemption of a nonce and the exchange of the code.
Pending == {"whoAmI", "exchange"}

\* The provider has answered.
Answered == {"findLink", "checkMail", "insertLink", "ticket"}

\* The password was seen: it is still there, or a stale row was written.
KeepsPw(u) == u \in exists => row[u].pw # NoPw \/ u \in overwritten

\* OAuth: whose flow it is, and in which mode.
FlowSound(p, l) ==
  /\ p \in Pending \cup Answered => l.op = "callback"
  /\ l.op = "callback" => l.jti \in minted \cap Jtis
  /\ p \in Pending => l.jti \notin nonces /\ exchanged[l.jti] = 0
  /\ p = "whoAmI" => l.usr = NoOne
  /\ p \in {"exchange", "findLink"} =>
       \/ flow[l.jti].mode = "login" /\ l.usr = NoOne
       \/ flow[l.jti].mode # "login" /\ l.usr = flow[l.jti].usr /\ l.usr \in Users
  /\ p = "findLink" => flow[l.jti].mode # "delete_account"
  /\ p = "checkMail" \/ (p = "insertUser" /\ l.op = "callback") =>
       flow[l.jti].mode = "login" /\ l.idn \in Identities
  /\ p = "insertLink" =>
       \/ flow[l.jti].mode = "link" /\ flow[l.jti].usr = l.usr
       \/ flow[l.jti].mode = "login" /\ l.made
  /\ p \in Answered => l.idn \in Identities
  /\ p = "ticket" => l.usr \in Users

\* What it will write to a users row, and what it has seen of one.
RowSound(p, l) ==
  /\ p \in {"loadUser", "touchKey"} => l.op \in {"password", "key"}
  /\ p \in {"touchKey", "writeUser"} =>
       /\ l.next.pw = l.snap.pw \/ l.next.pw \in Passwords
       /\ l.op # "patch" => l.next.sus = l.snap.sus
  /\ p \in {"authorised", "unlink"} => l.usr \in minted
  /\ p = "authorised" /\ l.snap.pw # NoPw => KeepsPw(l.usr)
  /\ p = "unlink" => KeepsPw(l.usr)
  /\ p = "dropUser" => l.usr \in exists \cup gone

Sound(p, l) == FlowSound(p, l) /\ RowSound(p, l)

-----------------------------------------------------------------------------
(* The inductive invariant.                                                *)

\* Ids are handed out once, and nothing is remembered of those that are not.
IdInv ==
  /\ exists \cup gone \subseteq minted
  /\ nonces \subseteq minted
  /\ able \cup barred \subseteq exists
  /\ \A u \in Users : key[u] = issued[u]

\* A nonce that can still be redeemed was not exchanged yet.
NonceInv ==
  /\ NonceOnce
  /\ \A j \in Jtis : j \in nonces \/ j \notin minted => exchanged[j] = 0

StateInv == IdInv /\ NonceInv /\ GoneStaysGone /\ LoginMethodRemains /\ SuspensionStands

\* No two requests are about to exchange the code of one nonce.
OnePending ==
  \A r, s \in Requests :
    r # s /\ pc[r] \in Pending /\ pc[s] \in Pending => loc[r].jti # loc[s].jti

RequestInv == OnePending /\ \A r \in Requests : Sound(pc[r], loc[r])

Inv == TypeOK /\ StateInv /\ RequestInv

-----------------------------------------------------------------------------
(* Locals.                                                                 *)

LEMMA AnyRowType == AnyRow \in Row /\ AnyRow.pw = NoPw /\ AnyRow.sus = FALSE
BY AccountStoreAssumption DEF AnyRow, Row

LEMMA BlankType == Blank \in Locals /\ Sound("idle", Blank)
<1>1. Blank \in Locals
  BY AnyRowType DEF Blank, Locals
<1>2. Sound("idle", Blank)
  BY DEF Sound, FlowSound, RowSound, Blank, Pending, Answered
<1> QED BY <1>1, <1>2

\* A request ends or goes on; nothing else changes.
LEMMA ReadInv ==
  ASSUME Inv, NEW r \in Requests, NEW p \in Points, NEW l \in Locals,
         Sound(p, l), Go(r, p, l), Read,
         pc[r] = "idle" => begun < MaxBegun,
         p \in Pending => pc[r] \in Pending /\ l.jti = loc[r].jti
  PROVE  Inv'
<1>1. TypeOK'
  <2>1. StoreTypeOK'
    BY DEF Inv, TypeOK, Read, StoreTypeOK, accounts
  <2>2. pc' \in [Requests -> Points] /\ loc' \in [Requests -> Locals]
    BY DEF Inv, TypeOK, Go
  <2>3. begun' \in 0 .. MaxBegun
    BY AccountsAssumption DEF Inv, TypeOK, Go
  <2> QED BY <2>1, <2>2, <2>3 DEF Inv, TypeOK, Read, history
<1>2. StateInv'
  BY DEF Inv, StateInv, IdInv, NonceInv, NonceOnce, GoneStaysGone, LoginMethodRemains,
         SuspensionStands, HasLogin, LinksOf, Read, accounts, history
<1>3. OnePending'
  BY DEF Inv, TypeOK, RequestInv, OnePending, Go
<1>4. ASSUME NEW s \in Requests PROVE Sound(pc[s], loc[s])'
  <2>1. ASSUME NEW q, NEW k, Sound(q, k) PROVE Sound(q, k)'
    BY <2>1 DEF Sound, FlowSound, RowSound, KeepsPw, Read, accounts, history
  <2>2. CASE s = r
    BY <2>1, <2>2 DEF Inv, TypeOK, Go
  <2>3. CASE s # r
    BY <2>1, <2>3 DEF Inv, TypeOK, RequestInv, Go
  <2> QED BY <2>2, <2>3
<1> QED BY <1>1, <1>2, <1>3, <1>4 DEF Inv, RequestInv

\* The request answers.
LEMMA AnswerInv ==
  ASSUME Inv, NEW r \in Requests, Done(r), Read, pc[r] = "idle" => begun < MaxBegun
  PROVE  Inv'
BY ReadInv, BlankType DEF Done, Points, Pending

\* A request goes on while the tables change: what it and the others rely on
\* must be seen to hold afterwards.
LEMMA MoveInv ==
  ASSUME Inv, NEW r \in Requests, NEW p \in Points, NEW l \in Locals, Go(r, p, l),
         TypeOK', StateInv', Sound(p, l)',
         \A s \in Requests \ {r} : \A q, k : q = pc[s] /\ k = loc[s] => Sound(q, k)',
         p \in Pending => l.jti \in nonces \/ (pc[r] \in Pending /\ l.jti = loc[r].jti)
  PROVE  Inv'
<1>1. OnePending'
  <2>1. \A s \in Requests \ {r} : pc[s] \in Pending => loc[s].jti \notin nonces
    BY DEF Inv, RequestInv, Sound, FlowSound
  <2> QED BY <2>1 DEF Inv, TypeOK, RequestInv, OnePending, Go
<1>2. ASSUME NEW s \in Requests PROVE Sound(pc[s], loc[s])'
  <2>1. CASE s = r
    BY <2>1 DEF Inv, TypeOK, Go
  <2>2. CASE s # r
    <3>1. pc[s]' = pc[s] /\ loc[s]' = loc[s]
      BY <2>2 DEF Inv, TypeOK, Go
    <3> QED BY <2>2, <3>1
  <2> QED BY <2>1, <2>2
<1> QED BY <1>1, <1>2 DEF Inv, RequestInv

-----------------------------------------------------------------------------
(* Requests that only read.                                                *)

LEMMA HandlerPoint ==
  ASSUME NEW op \in SelfOps
  PROVE  Handler(op) \in {"writeUser", "issueKey", "authorised", "confirm", "insertNonce"}
BY DEF Handler, SelfOps

\* A request with a session or a key has a row in hand that it may rely on.
LEMMA WantsType ==
  ASSUME NEW op, NEW w \in Row, NEW n \in Wants(op, w)
  PROVE  /\ n \in Row /\ Holds(op, w) \in Row
         /\ op \in {"password", "key"} =>
              /\ n.pw = Holds(op, w).pw \/ n.pw \in Passwords
              /\ n.sus = Holds(op, w).sus
<1>1. CASE op = "password"
  <2>1. PICK q \in Passwords : n = [w EXCEPT !.pw = q]
    BY <1>1 DEF Wants
  <2>2. n = [mail |-> w.mail, pw |-> q, sus |-> w.sus]
    BY <2>1 DEF Row
  <2> QED BY <1>1, <2>2 DEF Row, Holds
<1>2. CASE op # "password"
  BY <1>2, AnyRowType DEF Wants, Holds
<1> QED BY <1>1, <1>2

LEMMA BySessionInv ==
  ASSUME Inv, NEW r \in Requests, BySession(r)
  PROVE  Inv'
<1>1. PICK op \in SelfOps, u \in minted \cap Users :
        /\ Active(u)
        /\ \E n \in Wants(op, row[u]) :
             Go(r, Handler(op), [Blank EXCEPT !.op = op, !.usr = u, !.snap = Holds(op, row[u]), !.next = n])
  BY DEF BySession
<1>2. PICK n \in Wants(op, row[u]) :
        Go(r, Handler(op), [Blank EXCEPT !.op = op, !.usr = u, !.snap = Holds(op, row[u]), !.next = n])
  BY <1>1
<1> DEFINE l == [Blank EXCEPT !.op = op, !.usr = u, !.snap = Holds(op, row[u]), !.next = n]
<1>3. u \in exists /\ row[u] \in Row
  BY <1>1 DEF Active, Inv, TypeOK, StoreTypeOK
<1>4. l \in Locals
  BY <1>3, WantsType, BlankType DEF Locals
<1>5. l.op = op /\ l.usr = u /\ l.snap = Holds(op, row[u]) /\ l.next = n
  BY BlankType DEF Locals
<1>6. Handler(op) = "writeUser" => op = "password"
  BY DEF Handler, SelfOps
<1>7. Handler(op) = "authorised" => op = "disconnect"
  BY DEF Handler, SelfOps
<1>8. RowSound(Handler(op), l)
  <2>1. op = "disconnect" => l.snap = row[u]
    BY <1>5 DEF Holds
  <2>2. op = "password" => /\ l.next.pw = l.snap.pw \/ l.next.pw \in Passwords
                           /\ l.next.sus = l.snap.sus
    BY <1>3, <1>5, WantsType
  <2> QED BY <1>3, <1>5, <1>6, <1>7, <2>1, <2>2, HandlerPoint DEF RowSound, KeepsPw
<1>9. FlowSound(Handler(op), l)
  BY <1>5, HandlerPoint DEF FlowSound, Pending, Answered, SelfOps
<1>10. Handler(op) \in Points /\ Handler(op) \notin Pending
  BY HandlerPoint DEF Points, Pending
<1> QED BY <1>2, <1>4, <1>8, <1>9, <1>10, ReadInv DEF Sound, BySession, Free

LEMMA FindKeyInv ==
  ASSUME Inv, NEW r \in Requests, FindKey(r)
  PROVE  Inv'
<1>1. PICK op \in {"password", "key"}, u \in Users :
        /\ key[u] # NoKey
        /\ Go(r, "loadUser", [Blank EXCEPT !.op = op, !.usr = u, !.key = key[u]])
  BY DEF FindKey
<1> DEFINE l == [Blank EXCEPT !.op = op, !.usr = u, !.key = key[u]]
<1>2. l \in Locals /\ l.op = op
  BY BlankType DEF Locals, SelfOps, Inv, TypeOK, StoreTypeOK
<1>3. Sound("loadUser", l)
  BY <1>2 DEF Sound, FlowSound, RowSound, Pending, Answered
<1> QED BY <1>1, <1>2, <1>3, ReadInv DEF FindKey, Free, Points, Pending

LEMMA LoadUserInv ==
  ASSUME Inv, NEW r \in Requests, LoadUser(r)
  PROVE  Inv'
<1> DEFINE u == loc[r].usr
<1>1. CASE Active(u)
  <2>1. PICK n \in Wants(loc[r].op, row[u]) :
          Go(r, "touchKey", [loc[r] EXCEPT !.snap = Holds(loc[r].op, row[u]), !.next = n])
    BY <1>1 DEF LoadUser
  <2> DEFINE l == [loc[r] EXCEPT !.snap = Holds(loc[r].op, row[u]), !.next = n]
  <2>2. loc[r] \in Locals /\ row[u] \in Row /\ loc[r].op \in {"password", "key"}
    BY <1>1 DEF Active, Inv, TypeOK, StoreTypeOK, RequestInv, Sound, RowSound, LoadUser
  <2>3. l \in Locals /\ l.op = loc[r].op /\ l.snap = Holds(loc[r].op, row[u]) /\ l.next = n
    BY <2>2, WantsType DEF Locals
  <2>4. Sound("touchKey", l)
    BY <2>2, <2>3, WantsType DEF Sound, FlowSound, RowSound, Pending, Answered
  <2> QED BY <2>1, <2>3, <2>4, ReadInv DEF LoadUser, Points, Pending
<1>2. CASE ~Active(u)
  BY <1>2, AnswerInv DEF LoadUser
<1> QED BY <1>1, <1>2

LEMMA StampKeyInv ==
  ASSUME Inv, NEW r \in Requests, StampKey(r)
  PROVE  Inv'
<1>1. PICK ok \in BOOLEAN : Proceed(r, ok, Handler(loc[r].op), [loc[r] EXCEPT !.key = NoKey])
  BY DEF StampKey
<1>2. Read
  BY DEF StampKey, TouchKey, Read
<1> DEFINE l == [loc[r] EXCEPT !.key = NoKey]
<1>3. /\ loc[r] \in Locals /\ loc[r].op \in {"password", "key"}
      /\ l \in Locals /\ l.op = loc[r].op /\ l.snap = loc[r].snap /\ l.next = loc[r].next
  BY DEF Inv, TypeOK, RequestInv, Sound, RowSound, StampKey, Locals
<1>4. Handler(loc[r].op) \in {"writeUser", "issueKey"}
  BY <1>3 DEF Handler
<1>5. Sound(Handler(loc[r].op), l)
  <2>1. RowSound("touchKey", loc[r])
    BY DEF Inv, RequestInv, Sound, StampKey
  <2> QED BY <1>3, <1>4, <2>1 DEF Sound, FlowSound, RowSound, Pending, Answered
<1>6. CASE ok
  BY <1>1, <1>2, <1>3, <1>4, <1>5, <1>6, ReadInv DEF Proceed, StampKey, Points, Pending
<1>7. CASE ~ok
  BY <1>1, <1>2, <1>7, AnswerInv DEF Proceed, StampKey
<1> QED BY <1>6, <1>7

\* An administrator's request reads a row and will write it, changed or not.
LEMMA WriterInv ==
  ASSUME Inv, NEW r \in Requests, NEW op \in {"patch", "edit"}, NEW u \in exists, NEW n \in Row,
         n.pw = row[u].pw \/ n.pw \in Passwords,
         op = "edit" => n.sus = row[u].sus,
         Go(r, "writeUser", [Blank EXCEPT !.op = op, !.usr = u, !.snap = row[u], !.next = n]),
         Read, begun < MaxBegun
  PROVE  Inv'
<1> DEFINE l == [Blank EXCEPT !.op = op, !.usr = u, !.snap = row[u], !.next = n]
<1>1. l \in Locals /\ l.op = op /\ l.snap = row[u] /\ l.next = n
  BY BlankType DEF Locals, AdminOps, Inv, TypeOK, StoreTypeOK
<1>2. Sound("writeUser", l)
  BY <1>1 DEF Sound, FlowSound, RowSound, Pending, Answered
<1> QED BY <1>1, <1>2, ReadInv DEF Points, Pending

LEMMA ReadersInv ==
  ASSUME Inv, NEW r \in Requests, ReadUser(r) \/ ResetPassword(r) \/ Promote(r)
  PROVE  Inv'
<1>1. ASSUME NEW u \in exists
      PROVE  /\ row[u] \in Row
             /\ \A q \in Passwords : LET n == [row[u] EXCEPT !.pw = q] IN
                  n \in Row /\ n.pw = q /\ n.sus = row[u].sus
             /\ \A b \in BOOLEAN : LET n == [row[u] EXCEPT !.sus = b] IN
                  n \in Row /\ n.pw = row[u].pw
  <2>1. row[u] \in Row
    BY DEF Inv, TypeOK, StoreTypeOK
  <2>2. ASSUME NEW q \in Passwords
        PROVE  LET n == [row[u] EXCEPT !.pw = q] IN n \in Row /\ n.pw = q /\ n.sus = row[u].sus
    BY <2>1 DEF Row
  <2>3. ASSUME NEW b \in BOOLEAN
        PROVE  LET n == [row[u] EXCEPT !.sus = b] IN n \in Row /\ n.pw = row[u].pw
    BY <2>1 DEF Row
  <2> QED BY <2>1, <2>2, <2>3
<1>2. CASE ReadUser(r)
  <2>1. PICK op \in {"patch", "edit"}, u \in exists : \E n \in Edited(op, row[u]) :
          Go(r, "writeUser", [Blank EXCEPT !.op = op, !.usr = u, !.snap = row[u], !.next = n])
    BY <1>2 DEF ReadUser
  <2>2. PICK n \in Edited(op, row[u]) :
          Go(r, "writeUser", [Blank EXCEPT !.op = op, !.usr = u, !.snap = row[u], !.next = n])
    BY <2>1
  <2>3. n \in Row /\ n.pw = row[u].pw /\ (op = "edit" => n.sus = row[u].sus)
    <3>1. CASE op = "patch"
      <4>1. PICK b \in BOOLEAN : n = [row[u] EXCEPT !.sus = b]
        BY <3>1 DEF Edited
      <4> QED BY <1>1, <3>1, <4>1
    <3>2. CASE op = "edit"
      BY <1>1, <3>2 DEF Edited
    <3> QED BY <3>1, <3>2
  <2> QED BY <1>2, <2>2, <2>3, WriterInv DEF ReadUser, Free
<1>3. CASE ResetPassword(r)
  <2>1. PICK u \in exists, q \in Passwords :
          Go(r, "writeUser", [Blank EXCEPT !.op = "edit", !.usr = u, !.snap = row[u],
                                           !.next = [row[u] EXCEPT !.pw = q]])
    BY <1>3 DEF ResetPassword
  <2> DEFINE n == [row[u] EXCEPT !.pw = q]
  <2>2. n \in Row /\ n.pw \in Passwords /\ n.sus = row[u].sus
    BY <1>1
  <2>3. Go(r, "writeUser", [Blank EXCEPT !.op = "edit", !.usr = u, !.snap = row[u], !.next = n])
    BY <2>1
  <2> HIDE DEF n
  <2> QED BY <1>3, <2>2, <2>3, WriterInv DEF ResetPassword, Free
<1>4. CASE Promote(r)
  <2>1. PICK u \in exists :
          Go(r, "writeUser", [Blank EXCEPT !.op = "edit", !.usr = u, !.snap = row[u], !.next = row[u]])
    BY <1>4 DEF Promote
  <2>2. row[u] \in Row
    BY <1>1
  <2> QED BY <1>4, <2>1, <2>2, WriterInv DEF Promote, Free
<1> QED BY <1>2, <1>3, <1>4

LEMMA RegisterInv ==
  ASSUME Inv, NEW r \in Requests, Register(r)
  PROVE  Inv'
<1>1. PICK e \in Mails, q \in Passwords \cup {NoPw} :
        Go(r, "insertUser", [Blank EXCEPT !.op = "register", !.next = [AnyRow EXCEPT !.mail = e, !.pw = q]])
  BY DEF Register
<1> DEFINE n == [AnyRow EXCEPT !.mail = e, !.pw = q]
           l == [Blank EXCEPT !.op = "register", !.next = n]
<1>2. n \in Row
  BY AnyRowType DEF Row
<1>3. l \in Locals /\ l.op = "register"
  BY <1>2, BlankType DEF Locals, OpenOps
<1>4. Sound("insertUser", l)
  BY <1>3 DEF Sound, FlowSound, RowSound, Pending, Answered
<1> QED BY <1>1, <1>3, <1>4, ReadInv DEF Register, Free, Points, Pending

\* delete_user and disconnect_oauth_provider, up to their statements.
LEMMA LeaversInv ==
  ASSUME Inv, NEW r \in Requests, ListLinks(r) \/ Confirm(r) \/ FindUser(r) \/ SelectUser(r)
  PROVE  Inv'
<1>1. CASE ListLinks(r)
  <2> DEFINE l == [loc[r] EXCEPT !.snap = AnyRow]
             ok == LinksOf(loc[r].usr) # {} /\ loc[r].snap.pw # NoPw
  <2>1. loc[r] \in Locals /\ l \in Locals /\ l.usr = loc[r].usr /\ l.op = loc[r].op /\ l.jti = loc[r].jti
    BY AnyRowType DEF Locals, Inv, TypeOK
  <2>2. CASE ok
    <3>1. Sound(pc[r], loc[r]) /\ pc[r] = "authorised"
      BY <1>1 DEF Inv, RequestInv, ListLinks
    <3>2. Sound("unlink", l)
      BY <2>1, <2>2, <3>1 DEF Sound, FlowSound, RowSound, Pending, Answered
    <3> QED BY <1>1, <2>1, <2>2, <3>2, ReadInv DEF ListLinks, Proceed, Points, Pending
  <2>3. CASE ~ok
    BY <1>1, <2>3, AnswerInv DEF ListLinks, Proceed
  <2> QED BY <2>2, <2>3
<1>2. CASE Confirm(r)
  <2> DEFINE l == [loc[r] EXCEPT !.op = "deleteUser", !.snap = AnyRow]
             ok == loc[r].snap.pw # NoPw \/ \E i \in LinksOf(loc[r].usr) : <<loc[r].usr, i>> \in tickets
  <2>1. l \in Locals /\ l.op = "deleteUser"
    BY AnyRowType DEF Locals, AdminOps, Inv, TypeOK
  <2>2. Sound("selectUser", l)
    BY <2>1 DEF Sound, FlowSound, RowSound, Pending, Answered
  <2>3. CASE ok
    BY <1>2, <2>1, <2>2, <2>3, ReadInv DEF Confirm, Proceed, Points, Pending
  <2>4. CASE ~ok
    BY <1>2, <2>4, AnswerInv DEF Confirm, Proceed
  <2> QED BY <2>3, <2>4
<1>3. CASE FindUser(r)
  <2>1. PICK u \in exists : Go(r, "selectUser", [Blank EXCEPT !.op = "deleteUser", !.usr = u])
    BY <1>3 DEF FindUser
  <2> DEFINE l == [Blank EXCEPT !.op = "deleteUser", !.usr = u]
  <2>2. l \in Locals /\ l.op = "deleteUser"
    BY BlankType DEF Locals, AdminOps, Inv, TypeOK, StoreTypeOK
  <2>3. Sound("selectUser", l)
    BY <2>2 DEF Sound, FlowSound, RowSound, Pending, Answered
  <2> QED BY <1>3, <2>1, <2>2, <2>3, ReadInv DEF FindUser, Free, Points, Pending
<1>4. CASE SelectUser(r)
  <2>1. CASE loc[r].usr \in exists
    <3>1. Sound(pc[r], loc[r]) /\ pc[r] = "selectUser" /\ loc[r] \in Locals
      BY <1>4 DEF Inv, TypeOK, RequestInv, SelectUser
    <3>2. Sound("dropUser", loc[r])
      BY <2>1, <3>1 DEF Sound, FlowSound, RowSound, Pending, Answered
    <3> QED BY <1>4, <2>1, <3>1, <3>2, ReadInv DEF SelectUser, Proceed, Points, Pending
  <2>2. CASE loc[r].usr \notin exists
    BY <1>4, <2>2, AnswerInv DEF SelectUser, Proceed
  <2> QED BY <2>1, <2>2
<1> QED BY <1>1, <1>2, <1>3, <1>4

\* OAuth requests, up to their statements.
LEMMA FlowsInv ==
  ASSUME Inv, NEW r \in Requests, StartSignIn(r) \/ WhoAmI(r) \/ FindLink(r) \/ CheckMail(r)
  PROVE  Inv'
<1>1. loc[r] \in Locals /\ Sound(pc[r], loc[r])
  BY DEF Inv, TypeOK, RequestInv
<1>2. CASE StartSignIn(r)
  <2> DEFINE l == [Blank EXCEPT !.op = "signIn"]
  <2>1. l \in Locals /\ l.op = "signIn"
    BY BlankType DEF Locals, OpenOps
  <2>2. Sound("insertNonce", l)
    BY <2>1 DEF Sound, FlowSound, RowSound, Pending, Answered
  <2> QED BY <1>2, <2>1, <2>2, ReadInv DEF StartSignIn, Free, Points, Pending
<1>3. CASE WhoAmI(r)
  <2> DEFINE f == flow[loc[r].jti]
             l == [loc[r] EXCEPT !.usr = f.usr]
  <2>1. CASE f.mode = "login" /\ Go(r, "exchange", loc[r])
    <3>1. Sound("exchange", loc[r])
      BY <1>1, <1>3, <2>1 DEF WhoAmI, Sound, FlowSound, RowSound, Pending, Answered
    <3> QED BY <1>1, <1>3, <2>1, <3>1, ReadInv DEF WhoAmI, Points, Pending
  <2>2. CASE f.mode # "login" /\ Active(f.usr) /\ Go(r, "exchange", l)
    <3>1. f.usr \in Users
      BY <2>2 DEF Active, Inv, TypeOK, StoreTypeOK
    <3>2. l \in Locals /\ l.usr = f.usr /\ l.jti = loc[r].jti /\ l.op = loc[r].op
      BY <1>1, <3>1 DEF Locals
    <3>3. Sound("exchange", l)
      BY <1>1, <1>3, <2>2, <3>1, <3>2 DEF WhoAmI, Sound, FlowSound, RowSound, Pending, Answered
    <3> QED BY <1>1, <1>3, <2>2, <3>2, <3>3, ReadInv DEF WhoAmI, Points, Pending
  <2>3. CASE Done(r)
    BY <1>3, <2>3, AnswerInv DEF WhoAmI
  <2> QED BY <1>3, <2>1, <2>2, <2>3 DEF WhoAmI
<1>4. CASE FindLink(r)
  <2> DEFINE l == [loc[r] EXCEPT !.next = AnyRow]
  <2>1. \/ Done(r)
        \/ loc[r].usr # NoOne /\ Go(r, "insertLink", l)
        \/ loc[r].usr = NoOne /\ Go(r, "checkMail", loc[r])
    BY <1>4, Zenon DEF FindLink
  <2>2. CASE Done(r)
    BY <1>4, <2>2, AnswerInv DEF FindLink
  <2>3. CASE loc[r].usr # NoOne /\ Go(r, "insertLink", l)
    <3>1. l \in Locals /\ l.usr = loc[r].usr /\ l.jti = loc[r].jti /\ l.op = loc[r].op
          /\ l.made = loc[r].made /\ l.idn = loc[r].idn
      BY <1>1, AnyRowType DEF Locals
    <3>2. flow[loc[r].jti].mode \in {"login", "link", "delete_account"}
      BY <1>1, <1>4 DEF FindLink, Sound, FlowSound, Answered, Inv, TypeOK
    <3>3. Sound("insertLink", l)
      BY <1>1, <1>4, <2>3, <3>1, <3>2 DEF FindLink, Sound, FlowSound, RowSound, Pending, Answered
    <3> QED BY <1>4, <2>3, <3>1, <3>3, ReadInv DEF FindLink, Points, Pending
  <2>4. CASE loc[r].usr = NoOne /\ Go(r, "checkMail", loc[r])
    <3>1. Sound("checkMail", loc[r])
      BY <1>1, <1>4, <2>4, AccountStoreAssumption
      DEF FindLink, Sound, FlowSound, RowSound, Pending, Answered
    <3> QED BY <1>1, <1>4, <2>4, <3>1, ReadInv DEF FindLink, Points, Pending
  <2> QED BY <2>1, <2>2, <2>3, <2>4
<1>5. CASE CheckMail(r)
  <2>1. CASE Taken(loc[r].next.mail)
    BY <1>5, <2>1, AnswerInv DEF CheckMail, Proceed
  <2>2. CASE ~Taken(loc[r].next.mail)
    <3>1. Sound("insertUser", loc[r])
      BY <1>1, <1>5 DEF CheckMail, Sound, FlowSound, RowSound, Pending, Answered
    <3> QED BY <1>1, <1>5, <2>2, <3>1, ReadInv DEF CheckMail, Proceed, Points, Pending
  <2> QED BY <2>1, <2>2
<1> QED BY <1>2, <1>3, <1>4, <1>5

-----------------------------------------------------------------------------
(* Requests that write.                                                    *)

\* What keeps the values of every other request good.
Kept ==
  /\ minted \subseteq minted'
  /\ \A j \in minted \cap Jtis : flow'[j] = flow[j]
  /\ exists \cup gone \subseteq exists' \cup gone'
  /\ \A u \in minted : KeepsPw(u) => KeepsPw(u)'

LEMMA WriteInv ==
  ASSUME Inv, NEW r \in Requests, NEW p \in Points, NEW l \in Locals, Go(r, p, l),
         TypeOK', StateInv', Kept, Sound(p, l)',
         \A s \in Requests \ {r} :
           pc[s] \in Pending => loc[s].jti \notin nonces' /\ exchanged'[loc[s].jti] = 0,
         p \in Pending => l.jti \in nonces \/ (pc[r] \in Pending /\ l.jti = loc[r].jti)
  PROVE  Inv'
<1>1. ASSUME NEW s \in Requests \ {r}, NEW q, NEW k, q = pc[s], k = loc[s]
      PROVE  Sound(q, k)'
  <2>1. Sound(q, k)
    BY <1>1 DEF Inv, RequestInv
  <2>2. FlowSound(q, k)'
    <3>1. k.op = "callback" => k.jti \in minted \cap Jtis /\ k.jti \in minted' /\ flow'[k.jti] = flow[k.jti]
      BY <2>1 DEF Sound, FlowSound, Kept
    <3> QED BY <1>1, <2>1, <3>1 DEF Sound, FlowSound, Pending, Answered
  <2>3. RowSound(q, k)'
    <3>1. k.usr \in minted => k.usr \in minted' /\ (KeepsPw(k.usr) => KeepsPw(k.usr)')
      BY DEF Kept
    <3>2. k.usr \in exists \cup gone => k.usr \in exists' \cup gone'
      BY DEF Kept
    <3> QED BY <2>1, <3>1, <3>2 DEF Sound, RowSound
  <2> QED BY <2>2, <2>3 DEF Sound
<1> QED BY <1>1, MoveInv

\* The request writes and answers.
LEMMA LastInv ==
  ASSUME Inv, NEW r \in Requests, Done(r), TypeOK', StateInv', Kept,
         \A s \in Requests \ {r} :
           pc[s] \in Pending => loc[s].jti \notin nonces' /\ exchanged'[loc[s].jti] = 0
  PROVE  Inv'
<1>1. Sound("idle", Blank)'
  BY DEF Sound, FlowSound, RowSound, Blank, Pending, Answered
<1>2. Blank \in Locals /\ "idle" \in Points /\ "idle" \notin Pending
  BY BlankType DEF Points, Pending
<1> QED BY <1>1, <1>2, WriteInv DEF Done

\* Requests that wait to exchange a code go on doing so when no nonce or code
\* is touched.
LEMMA PendingStays ==
  ASSUME Inv, nonces' \subseteq nonces, UNCHANGED exchanged
  PROVE  \A s \in Requests : pc[s] \in Pending => loc[s].jti \notin nonces' /\ exchanged'[loc[s].jti] = 0
BY DEF Inv, RequestInv, Sound, FlowSound

LEMMA GoTypes ==
  ASSUME Inv, NEW r \in Requests, NEW p \in Points, NEW l \in Locals, Go(r, p, l),
         pc[r] = "idle" => begun < MaxBegun
  PROVE  pc' \in [Requests -> Points] /\ loc' \in [Requests -> Locals] /\ begun' \in 0 .. MaxBegun
BY AccountsAssumption DEF Inv, TypeOK, Go

\* update_user.  The password and the suspension change only as the request
\* says, or the account is overwritten.
LEMMA WriteUserInv ==
  ASSUME Inv, NEW r \in Requests, WriteUser(r)
  PROVE  Inv'
<1> DEFINE l == loc[r]
           u == l.usr
<1>1. /\ l \in Locals /\ l.next \in Row /\ l.snap \in Row /\ pc[r] = "writeUser" /\ RowSound("writeUser", l)
  BY DEF Inv, TypeOK, RequestInv, Sound, WriteUser, Locals
<1>2. /\ row' = IF u \in exists THEN [row EXCEPT ![u] = l.next] ELSE row
      /\ UNCHANGED <<exists, gone, key, link, nonces, minted, flow, tickets, exchanged, issued, told>>
  BY DEF WriteUser, UpdateUser
<1>3. /\ overwritten' = IF u \in exists /\ row[u] # l.snap THEN overwritten \cup {u} ELSE overwritten
      /\ able' = IF u \in exists /\ l.next.pw # NoPw THEN able \cup {u} ELSE able
      /\ barred' = IF l.op # "patch" \/ u \notin exists THEN barred
                   ELSE IF l.next.sus THEN barred \cup {u} ELSE barred \ {u}
  BY DEF WriteUser
<1>4. StoreTypeOK'
  BY <1>1, <1>2 DEF Inv, TypeOK, StoreTypeOK
<1>5. TypeOK'
  <2>1. pc' \in [Requests -> Points] /\ loc' \in [Requests -> Locals] /\ begun' \in 0 .. MaxBegun
    BY <1>1, GoTypes, BlankType DEF WriteUser, Done, Points
  <2>2. overwritten' \subseteq Users /\ able' \subseteq Users /\ barred' \subseteq Users
    BY <1>3 DEF Inv, TypeOK, StoreTypeOK
  <2> QED BY <1>2, <1>4, <2>1, <2>2 DEF Inv, TypeOK
<1>6. \A v \in exists : v # u => row'[v] = row[v]
  BY <1>2 DEF Inv, TypeOK, StoreTypeOK
<1>7. u \in exists => row'[u] = l.next
  BY <1>2 DEF Inv, TypeOK, StoreTypeOK
<1>8. \A v \in exists : row[v].pw # NoPw => row'[v].pw # NoPw \/ v \in overwritten'
  BY <1>1, <1>3, <1>6, <1>7, AccountStoreAssumption DEF RowSound
<1>9. StateInv'
  <2>1. IdInv' /\ NonceInv' /\ GoneStaysGone'
    BY <1>2, <1>3 DEF Inv, StateInv, IdInv, NonceInv, NonceOnce, GoneStaysGone, LinksOf
  <2>2. LoginMethodRemains'
    <3>1. ASSUME NEW v \in exists PROVE HasLogin(v)' \/ v \notin able' \/ v \in overwritten'
      <4>1. LinksOf(v)' = LinksOf(v)
        BY <1>2 DEF LinksOf
      <4>2. v \in able' /\ v \notin able => row'[v].pw # NoPw
        BY <1>3, <1>7
      <4>3. overwritten \subseteq overwritten'
        BY <1>3
      <4> QED BY <1>8, <4>1, <4>2, <4>3 DEF Inv, StateInv, LoginMethodRemains, HasLogin
    <3> QED BY <1>2, <3>1 DEF LoginMethodRemains
  <2>3. SuspensionStands'
    <3>1. ASSUME NEW v \in exists, v \in barred' PROVE row'[v].sus \/ v \in overwritten'
      <4>1. CASE v # u
        BY <1>3, <1>6, <3>1, <4>1 DEF Inv, StateInv, SuspensionStands
      <4>2. CASE v = u /\ l.op = "patch"
        BY <1>3, <1>7, <3>1, <4>2
      <4>3. CASE v = u /\ l.op # "patch"
        BY <1>1, <1>3, <1>7, <3>1, <4>3 DEF Inv, StateInv, SuspensionStands, RowSound
      <4> QED BY <4>1, <4>2, <4>3
    <3> QED BY <1>2, <3>1 DEF SuspensionStands
  <2> QED BY <2>1, <2>2, <2>3 DEF StateInv
<1>10. Kept
  BY <1>2, <1>3, <1>8 DEF Kept, KeepsPw
<1> QED BY <1>2, <1>5, <1>9, <1>10, PendingStays, LastInv DEF WriteUser

\* issue_api_key
LEMMA IssueKeyInv ==
  ASSUME Inv, NEW r \in Requests, IssueKey(r)
  PROVE  Inv'
<1> DEFINE u == loc[r].usr
<1>1. PICK k \in Keys \ minted, ok \in BOOLEAN :
        /\ UpsertKey(u, k, ok)
        /\ minted' = minted \cup {k}
        /\ issued' = IF ok THEN [issued EXCEPT ![u] = k] ELSE issued
  BY DEF IssueKey
<1>2. /\ ok = (u \in exists)
      /\ key' = IF ok THEN [key EXCEPT ![u] = k] ELSE key
      /\ UNCHANGED <<exists, row, gone, link, nonces, flow, tickets, exchanged, told, able,
                     barred, overwritten>>
  BY <1>1 DEF IssueKey, UpsertKey
<1>3. exists \subseteq Users
  BY DEF Inv, TypeOK, StoreTypeOK
<1>4. TypeOK'
  <2>1. pc' \in [Requests -> Points] /\ loc' \in [Requests -> Locals] /\ begun' \in 0 .. MaxBegun
    BY GoTypes, BlankType DEF IssueKey, Done, Points
  <2>2. key' \in [Users -> Keys \cup {NoKey}] /\ issued' \in [Users -> Keys \cup {NoKey}]
    BY <1>1, <1>2, <1>3 DEF Inv, TypeOK, StoreTypeOK
  <2> QED BY <1>1, <1>2, <2>1, <2>2 DEF Inv, TypeOK, StoreTypeOK
<1>5. \A v \in Users : key'[v] = issued'[v]
  BY <1>1, <1>2, <1>3 DEF Inv, TypeOK, StoreTypeOK, StateInv, IdInv
<1>6. \A v \in gone : key'[v] = key[v]
  BY <1>2 DEF Inv, TypeOK, StoreTypeOK, StateInv, GoneStaysGone
<1>7. StateInv'
  BY <1>1, <1>2, <1>5, <1>6 DEF Inv, StateInv, IdInv, NonceInv, NonceOnce, GoneStaysGone,
     LoginMethodRemains, SuspensionStands, HasLogin, LinksOf
<1>8. Kept
  BY <1>1, <1>2 DEF Kept, KeepsPw
<1> QED BY <1>2, <1>4, <1>7, <1>8, PendingStays, LastInv DEF IssueKey

\* create_user: the id is new, so that no request holds it yet.
LEMMA AddUserInv ==
  ASSUME Inv, NEW r \in Requests, AddUser(r)
  PROVE  Inv'
<1> DEFINE l == loc[r]
<1>1. PICK u \in Users \ minted, ok \in BOOLEAN :
        /\ InsertUser(u, l.next, ok)
        /\ minted' = minted \cup {u}
        /\ able' = IF ok /\ l.next.pw # NoPw THEN able \cup {u} ELSE able
        /\ Proceed(r, ok /\ l.op = "callback", "insertLink",
                   [l EXCEPT !.usr = u, !.next = AnyRow, !.made = TRUE])
  BY DEF AddUser
<1>2. /\ exists' = IF ok THEN exists \cup {u} ELSE exists
      /\ row' = IF ok THEN [row EXCEPT ![u] = l.next] ELSE row
      /\ UNCHANGED <<gone, key, link, nonces, flow, tickets, exchanged, issued, told, barred,
                     overwritten>>
  BY <1>1 DEF AddUser, InsertUser
<1>3. l \in Locals /\ l.next \in Row /\ FlowSound("insertUser", l)
  BY DEF AddUser, Inv, TypeOK, RequestInv, Sound, Locals
<1>4. PICK m : m = [l EXCEPT !.usr = u, !.next = AnyRow, !.made = TRUE]
  OBVIOUS
<1>5. m \in Locals /\ m.made = TRUE /\ m.op = l.op /\ m.jti = l.jti /\ m.idn = l.idn
  BY <1>3, <1>4, AnyRowType DEF Locals
<1>6. u \notin exists /\ u \notin gone /\ u \notin able /\ u \notin barred
  BY DEF Inv, StateInv, IdInv
<1>7. /\ \A v \in Users : v # u => row'[v] = row[v]
      /\ ok => row'[u] = l.next
  BY <1>2 DEF Inv, TypeOK, StoreTypeOK
<1>8. (ok /\ l.op = "callback") \/ Done(r)
  BY <1>1, Zenon DEF Proceed
<1>9. ok /\ l.op = "callback" => Go(r, "insertLink", m)
  BY <1>1, <1>4 DEF Proceed
<1>10. TypeOK'
  <2>1. StoreTypeOK'
    BY <1>2, <1>3 DEF Inv, TypeOK, StoreTypeOK
  <2>2. pc' \in [Requests -> Points] /\ loc' \in [Requests -> Locals] /\ begun' \in 0 .. MaxBegun
    BY <1>5, <1>8, <1>9, GoTypes, BlankType DEF AddUser, Done, Points
  <2>3. able' \subseteq Users
    BY <1>1 DEF Inv, TypeOK
  <2> QED BY <1>1, <1>2, <2>1, <2>2, <2>3 DEF Inv, TypeOK
<1>11. StateInv'
  <2>1. IdInv' /\ NonceInv'
    BY <1>1, <1>2 DEF Inv, StateInv, IdInv, NonceInv, NonceOnce
  <2>2. GoneStaysGone'
    BY <1>2, <1>6 DEF Inv, StateInv, GoneStaysGone, LinksOf
  <2>3. LoginMethodRemains'
    <3>1. ASSUME NEW v \in exists PROVE HasLogin(v)' \/ v \notin able' \/ v \in overwritten'
      <4>1. v # u /\ v \in Users
        BY <1>6 DEF Inv, TypeOK, StoreTypeOK
      <4>2. HasLogin(v)' <=> HasLogin(v)
        BY <1>2, <1>7, <4>1 DEF HasLogin, LinksOf
      <4>3. v \in able' <=> v \in able
        BY <1>1, <4>1
      <4> QED BY <1>2, <4>2, <4>3 DEF Inv, StateInv, LoginMethodRemains
    <3>2. ok => HasLogin(u)' \/ u \notin able'
      BY <1>1, <1>6, <1>7 DEF HasLogin
    <3> QED BY <1>2, <3>1, <3>2 DEF LoginMethodRemains
  <2>4. SuspensionStands'
    <3>1. \A v \in exists : v # u /\ v \in Users
      BY <1>6 DEF Inv, TypeOK, StoreTypeOK
    <3> QED BY <1>2, <1>6, <1>7, <3>1 DEF Inv, StateInv, SuspensionStands
  <2> QED BY <2>1, <2>2, <2>3, <2>4 DEF StateInv
<1>12. Kept
  <2>1. ASSUME NEW v \in minted, KeepsPw(v) PROVE KeepsPw(v)'
    <3>1. v \in exists' => v \in exists /\ v \in Users /\ v # u
      BY <1>2 DEF Inv, TypeOK, StoreTypeOK
    <3> QED BY <1>2, <1>7, <2>1, <3>1 DEF KeepsPw
  <2> QED BY <1>1, <1>2, <2>1 DEF Kept
<1>13. \A s \in Requests : pc[s] \in Pending => loc[s].jti \notin nonces' /\ exchanged'[loc[s].jti] = 0
  BY <1>2, PendingStays
<1>14. CASE ok /\ l.op = "callback"
  <2>1. m.op = "callback" /\ m.jti \in minted' \cap Jtis /\ m.idn \in Identities
    BY <1>1, <1>3, <1>14, <1>5 DEF FlowSound
  <2>2. flow'[m.jti].mode = "login"
    BY <1>2, <1>3, <1>14, <1>5 DEF FlowSound
  <2>3. m.made
    BY <1>5
  <2>4. FlowSound("insertLink", m)'
    BY <2>1, <2>2, <2>3, Zenon DEF FlowSound, Pending, Answered
  <2>5. RowSound("insertLink", m)'
    BY DEF RowSound
  <2>6. "insertLink" \in Points /\ "insertLink" \notin Pending
    BY DEF Points, Pending
  <2> QED BY <1>5, <1>9, <1>10, <1>11, <1>12, <1>13, <1>14, <2>4, <2>5, <2>6, WriteInv DEF Sound
<1>15. CASE Done(r)
  BY <1>10, <1>11, <1>12, <1>13, <1>15, LastInv
<1> QED BY <1>8, <1>14, <1>15

\* disconnect_oauth_provider: the password that was seen is still there.
LEMMA UnlinkInv ==
  ASSUME Inv, NEW r \in Requests, Unlink(r)
  PROVE  Inv'
<1> DEFINE u == loc[r].usr
<1>1. /\ link' = [i \in Identities |-> IF link[i] = u THEN NoOne ELSE link[i]]
      /\ UNCHANGED <<exists, row, gone, key, nonces, minted, flow, history>>
  BY DEF Unlink, DeleteLinks
<1>2. KeepsPw(u)
  BY DEF Unlink, Inv, RequestInv, Sound, RowSound
<1>3. TypeOK'
  <2>1. pc' \in [Requests -> Points] /\ loc' \in [Requests -> Locals] /\ begun' \in 0 .. MaxBegun
    BY GoTypes, BlankType DEF Unlink, Done, Points
  <2> QED BY <1>1, <2>1 DEF Inv, TypeOK, StoreTypeOK, history
<1>4. \A v \in Users : LinksOf(v)' = IF v = u THEN {} ELSE LinksOf(v)
  BY <1>1, AccountStoreAssumption DEF LinksOf
<1>5. exists \subseteq Users /\ gone \subseteq Users
  BY DEF Inv, TypeOK, StoreTypeOK
<1>6. StateInv'
  <2>1. IdInv' /\ NonceInv' /\ SuspensionStands'
    BY <1>1 DEF Inv, StateInv, IdInv, NonceInv, NonceOnce, SuspensionStands, history
  <2>2. GoneStaysGone'
    BY <1>1, <1>4, <1>5 DEF Inv, StateInv, GoneStaysGone, history
  <2>3. LoginMethodRemains'
    <3>1. ASSUME NEW v \in exists PROVE HasLogin(v)' \/ v \notin able \/ v \in overwritten
      BY <1>1, <1>2, <1>4, <1>5 DEF Inv, StateInv, LoginMethodRemains, HasLogin, KeepsPw
    <3> QED BY <1>1, <3>1 DEF LoginMethodRemains, history
  <2> QED BY <2>1, <2>2, <2>3 DEF StateInv
<1>7. Kept
  BY <1>1 DEF Kept, KeepsPw, history
<1> QED BY <1>1, <1>3, <1>6, <1>7, PendingStays, LastInv DEF Unlink, history

\* repository.delete_user, after its SELECT.
LEMMA DropUserInv ==
  ASSUME Inv, NEW r \in Requests, DropUser(r)
  PROVE  Inv'
<1> DEFINE u == loc[r].usr
<1>1. /\ exists' = exists \ {u}
      /\ gone' = IF u \in exists THEN gone \cup {u} ELSE gone
      /\ key' = [key EXCEPT ![u] = NoKey]
      /\ link' = [i \in Identities |-> IF link[i] = u THEN NoOne ELSE link[i]]
      /\ nonces' = nonces \ {j \in nonces : flow[j].usr = u}
      /\ row' = [row EXCEPT ![u] = AnyRow]
  BY DEF DropUser, DeleteUser
<1>2. /\ told' = told \cup {u}
      /\ issued' = [issued EXCEPT ![u] = NoKey]
      /\ able' = able \ {u} /\ barred' = barred \ {u} /\ overwritten' = overwritten \ {u}
      /\ UNCHANGED <<minted, flow, tickets, exchanged>>
  BY DEF DropUser
<1>3. u \in exists \cup gone /\ u \in Users /\ exists \subseteq Users /\ gone \subseteq Users
  BY DEF DropUser, Inv, TypeOK, StoreTypeOK, RequestInv, Sound, RowSound
<1>4. \A v \in Users : LinksOf(v)' = IF v = u THEN {} ELSE LinksOf(v)
  BY <1>1, AccountStoreAssumption DEF LinksOf
<1>5. \A v \in Users \ {u} : row'[v] = row[v] /\ key'[v] = key[v] /\ issued'[v] = issued[v]
  BY <1>1, <1>2 DEF Inv, TypeOK, StoreTypeOK
<1>6. key'[u] = NoKey /\ issued'[u] = NoKey /\ u \in gone'
  BY <1>1, <1>2, <1>3 DEF Inv, TypeOK, StoreTypeOK
<1>7. TypeOK'
  <2>1. StoreTypeOK'
    BY <1>1, <1>3, AnyRowType DEF Inv, TypeOK, StoreTypeOK
  <2>2. pc' \in [Requests -> Points] /\ loc' \in [Requests -> Locals] /\ begun' \in 0 .. MaxBegun
    BY GoTypes, BlankType DEF DropUser, Done, Points
  <2>3. issued' \in [Users -> Keys \cup {NoKey}]
    BY <1>2 DEF Inv, TypeOK
  <2> QED BY <1>2, <1>3, <2>1, <2>2, <2>3 DEF Inv, TypeOK
<1>8. IdInv'
  BY <1>1, <1>2, <1>3, <1>5, <1>6 DEF Inv, StateInv, IdInv
<1>9. NonceInv'
  BY <1>1, <1>2 DEF Inv, StateInv, NonceInv, NonceOnce
<1>10. GoneStaysGone'
  <2>1. exists' \cap gone' = {} /\ told' \subseteq gone'
    BY <1>1, <1>2, <1>3 DEF Inv, StateInv, GoneStaysGone
  <2>2. \A v \in gone' : v = u \/ v \in gone
    BY <1>1
  <2>3. \A v \in gone' : key'[v] = NoKey /\ LinksOf(v)' = {}
    BY <1>3, <1>4, <1>5, <1>6, <2>2 DEF Inv, StateInv, GoneStaysGone
  <2>4. \A j \in nonces' : flow'[j].usr \notin gone'
    BY <1>1, <1>2, <2>2 DEF Inv, StateInv, GoneStaysGone
  <2> QED BY <2>1, <2>3, <2>4 DEF GoneStaysGone
<1>11. LoginMethodRemains' /\ SuspensionStands'
  <2>1. ASSUME NEW v \in exists' PROVE v \in exists \ {u} /\ v \in Users \ {u}
    BY <1>1, <1>3
  <2>2. ASSUME NEW v \in exists' PROVE HasLogin(v)' \/ v \notin able' \/ v \in overwritten'
    <3>1. HasLogin(v)' <=> HasLogin(v)
      BY <1>4, <1>5, <2>1 DEF HasLogin
    <3> QED BY <1>2, <2>1, <3>1 DEF Inv, StateInv, LoginMethodRemains
  <2>3. ASSUME NEW v \in exists' \cap barred' PROVE row'[v].sus \/ v \in overwritten'
    BY <1>2, <1>5, <2>1 DEF Inv, StateInv, SuspensionStands
  <2> QED BY <2>2, <2>3 DEF LoginMethodRemains, SuspensionStands
<1>12. Kept
  <2>1. ASSUME NEW v \in minted, KeepsPw(v) PROVE KeepsPw(v)'
    BY <1>1, <1>2, <1>3, <1>5, <2>1 DEF KeepsPw
  <2> QED BY <1>1, <1>2, <2>1 DEF Kept
<1>13. nonces' \subseteq nonces
  BY <1>1
<1> QED BY <1>2, <1>7, <1>8, <1>9, <1>10, <1>11, <1>12, <1>13, PendingStays, LastInv
        DEF DropUser, StateInv

\* create_oauth_state_nonce: a new nonce, that no flow and no request has.
LEMMA AddNonceInv ==
  ASSUME Inv, NEW r \in Requests, AddNonce(r)
  PROVE  Inv'
<1> DEFINE l == loc[r]
<1>1. PICK j \in Jtis \ minted, ok \in BOOLEAN :
        /\ InsertNonce(j, l.usr, ok)
        /\ minted' = minted \cup {j}
        /\ flow' = [flow EXCEPT ![j] = [mode |-> Mode(l.op), usr |-> l.usr]]
  BY DEF AddNonce
<1>2. /\ ok = (l.usr \in exists \cup {NoOne})
      /\ nonces' = IF ok THEN nonces \cup {j} ELSE nonces
      /\ UNCHANGED <<exists, row, gone, key, link, history>>
  BY <1>1 DEF AddNonce, InsertNonce
<1>3. j \notin nonces /\ exchanged[j] = 0 /\ exists \subseteq Users /\ gone \subseteq Users
  BY DEF Inv, TypeOK, StoreTypeOK, StateInv, IdInv, NonceInv
<1>4. /\ flow'[j].usr = l.usr
      /\ \A k \in Jtis : k # j => flow'[k] = flow[k]
  BY <1>1 DEF Inv, TypeOK
<1>5. TypeOK'
  <2>1. Mode(l.op) \in {"login", "link", "delete_account"}
    BY DEF Mode
  <2>2. l.usr \in Users \cup {NoOne}
    BY DEF Inv, TypeOK, Locals
  <2>3. flow' \in [Jtis -> [mode : {"login", "link", "delete_account"}, usr : Users \cup {NoOne}]]
    BY <1>1, <2>1, <2>2 DEF Inv, TypeOK
  <2>4. pc' \in [Requests -> Points] /\ loc' \in [Requests -> Locals] /\ begun' \in 0 .. MaxBegun
    BY GoTypes, BlankType DEF AddNonce, Done, Points
  <2>5. StoreTypeOK'
    BY <1>1, <1>2 DEF Inv, TypeOK, StoreTypeOK
  <2> QED BY <1>1, <1>2, <2>3, <2>4, <2>5 DEF Inv, TypeOK, history
<1>6. StateInv'
  <2>1. IdInv' /\ NonceInv' /\ LoginMethodRemains' /\ SuspensionStands'
    BY <1>1, <1>2, <1>3 DEF Inv, StateInv, IdInv, NonceInv, NonceOnce, LoginMethodRemains,
       SuspensionStands, HasLogin, LinksOf, history
  <2>2. \A k \in nonces' : flow'[k].usr \notin gone'
    <3>1. \A k \in nonces : k \in Jtis /\ k # j
      BY <1>3 DEF Inv, TypeOK, StoreTypeOK
    <3>2. ok => l.usr \notin gone
      BY <1>2, <1>3, AccountStoreAssumption DEF Inv, StateInv, GoneStaysGone
    <3> QED BY <1>2, <1>4, <3>1, <3>2 DEF Inv, StateInv, GoneStaysGone
  <2>3. GoneStaysGone'
    BY <1>2, <2>2 DEF Inv, StateInv, GoneStaysGone, LinksOf, history
  <2> QED BY <2>1, <2>3 DEF StateInv
<1>7. Kept
  BY <1>1, <1>2, <1>4 DEF Kept, KeepsPw, history
<1>8. ASSUME NEW s \in Requests, pc[s] \in Pending
      PROVE  loc[s].jti \notin nonces' /\ exchanged'[loc[s].jti] = 0
  <2>1. FlowSound(pc[s], loc[s])
    BY DEF Inv, RequestInv, Sound
  <2> QED BY <1>2, <1>8, <2>1 DEF FlowSound, history
<1> QED BY <1>5, <1>6, <1>7, <1>8, LastInv DEF AddNonce

\* consume_oauth_state_nonce: whoever deletes the nonce goes on alone.
LEMMA CallbackInv ==
  ASSUME Inv, NEW r \in Requests, Callback(r)
  PROVE  Inv'
<1>1. PICK j \in minted \cap Jtis, ok \in BOOLEAN :
        /\ ConsumeNonce(j, ok)
        /\ Proceed(r, ok, "whoAmI", [Blank EXCEPT !.op = "callback", !.jti = j])
  BY DEF Callback
<1>2. PICK l : l = [Blank EXCEPT !.op = "callback", !.jti = j]
  OBVIOUS
<1>3. l \in Locals /\ l.op = "callback" /\ l.jti = j /\ l.usr = NoOne
  BY <1>2, BlankType DEF Blank, Locals
<1>4. /\ ok = (j \in nonces) /\ nonces' = nonces \ {j}
      /\ UNCHANGED <<exists, row, gone, key, link, minted, flow, history>>
  BY <1>1 DEF Callback, ConsumeNonce
<1>5. (ok /\ Go(r, "whoAmI", l)) \/ Done(r)
  BY <1>1, <1>2, Zenon DEF Proceed
<1>6. TypeOK'
  <2>1. pc' \in [Requests -> Points] /\ loc' \in [Requests -> Locals] /\ begun' \in 0 .. MaxBegun
    BY <1>3, <1>5, GoTypes, BlankType DEF Callback, Free, Done, Points
  <2> QED BY <1>4, <2>1 DEF Inv, TypeOK, StoreTypeOK, history
<1>7. StateInv'
  BY <1>4 DEF Inv, StateInv, IdInv, NonceInv, NonceOnce, GoneStaysGone, LoginMethodRemains,
     SuspensionStands, HasLogin, LinksOf, history
<1>8. Kept
  BY <1>4 DEF Kept, KeepsPw, history
<1>9. \A s \in Requests : pc[s] \in Pending => loc[s].jti \notin nonces' /\ exchanged'[loc[s].jti] = 0
  BY <1>4, PendingStays DEF history
<1>10. CASE ok /\ Go(r, "whoAmI", l)
  <2>1. j \notin nonces' /\ exchanged'[j] = 0
    BY <1>4, <1>10 DEF history, Inv, StateInv, NonceInv
  <2>2. FlowSound("whoAmI", l)'
    BY <1>3, <1>4, <2>1 DEF FlowSound, Pending, Answered
  <2>3. RowSound("whoAmI", l)'
    BY DEF RowSound
  <2> QED BY <1>3, <1>4, <1>6, <1>7, <1>8, <1>9, <1>10, <2>2, <2>3, WriteInv DEF Points, Sound
<1>11. CASE Done(r)
  BY <1>6, <1>7, <1>8, <1>9, <1>11, LastInv
<1> QED BY <1>5, <1>10, <1>11

\* exchange_code: nobody else holds the nonce, and it was not exchanged.
LEMMA ExchangeInv ==
  ASSUME Inv, NEW r \in Requests, Exchange(r)
  PROVE  Inv'
<1> DEFINE l == loc[r]
           j == l.jti
           p == IF flow[j].mode = "delete_account" THEN "ticket" ELSE "findLink"
<1>1. /\ exchanged' = [exchanged EXCEPT ![j] = @ + 1]
      /\ UNCHANGED <<accounts, minted, flow, tickets, issued, told, able, barred, overwritten>>
  BY DEF Exchange
<1>2. l \in Locals /\ pc[r] = "exchange" /\ FlowSound("exchange", l)
  BY DEF Exchange, Inv, TypeOK, RequestInv, Sound
<1>3. j \in minted /\ j \in Jtis /\ j \notin nonces /\ exchanged[j] = 0
  BY <1>2 DEF FlowSound, Pending
<1>4. exchanged'[j] = 1 /\ \A k \in Jtis : k # j => exchanged'[k] = exchanged[k]
  BY <1>1, <1>3 DEF Inv, TypeOK
<1>5. \/ Done(r)
      \/ \E i \in Identities, e \in Mails : Go(r, p, [l EXCEPT !.idn = i, !.next = [AnyRow EXCEPT !.mail = e]])
  BY DEF Exchange
<1>6. ASSUME NEW m \in Locals, NEW q \in Points, Go(r, q, m) PROVE TypeOK'
  <2>1. exchanged' \in [Jtis -> Nat]
    <3>1. exchanged \in [Jtis -> Nat] /\ exchanged' = [exchanged EXCEPT ![j] = 1]
      BY <1>1, <1>3 DEF Inv, TypeOK
    <3> QED BY <3>1
  <2>2. pc' \in [Requests -> Points] /\ loc' \in [Requests -> Locals] /\ begun' \in 0 .. MaxBegun
    BY <1>2, <1>6, GoTypes
  <2> QED BY <1>1, <2>1, <2>2 DEF Inv, TypeOK, StoreTypeOK, accounts
<1>7. StateInv'
  <2>1. NonceInv'
    BY <1>1, <1>3, <1>4 DEF Inv, StateInv, NonceInv, NonceOnce, accounts
  <2> QED BY <1>1, <2>1 DEF Inv, StateInv, IdInv, GoneStaysGone, LoginMethodRemains,
          SuspensionStands, HasLogin, LinksOf, accounts
<1>8. Kept
  BY <1>1 DEF Kept, KeepsPw, accounts
<1>9. ASSUME NEW s \in Requests \ {r}, pc[s] \in Pending
      PROVE  loc[s].jti \notin nonces' /\ exchanged'[loc[s].jti] = 0
  <2>1. FlowSound(pc[s], loc[s])
    BY DEF Inv, RequestInv, Sound
  <2>2. loc[s].jti # j
    BY <1>2, <1>9 DEF Inv, RequestInv, OnePending, Pending
  <2> QED BY <1>1, <1>4, <1>9, <2>1, <2>2 DEF FlowSound, Pending, accounts
<1>10. CASE Done(r)
  <2>1. TypeOK'
    BY <1>6, <1>10, BlankType DEF Done, Points
  <2> QED BY <1>7, <1>8, <1>9, <1>10, <2>1, LastInv
<1>11. ASSUME NEW i \in Identities, NEW e \in Mails,
              Go(r, p, [l EXCEPT !.idn = i, !.next = [AnyRow EXCEPT !.mail = e]])
       PROVE  Inv'
  <2>1. PICK m : m = [l EXCEPT !.idn = i, !.next = [AnyRow EXCEPT !.mail = e]]
    OBVIOUS
  <2>2. [AnyRow EXCEPT !.mail = e] \in Row
    BY AnyRowType DEF Row
  <2>3. m \in Locals /\ m.op = l.op /\ m.jti = j /\ m.usr = l.usr /\ m.idn = i
    BY <1>2, <2>1, <2>2 DEF Locals
  <2>4. PICK q : q = p
    OBVIOUS
  <2> HIDE DEF l, j, p
  <2>5. Go(r, q, m)
    BY <1>11, <2>1, <2>4
  <2> USE DEF l, j, p
  <2>6. \/ q = "ticket" /\ flow[j].mode = "delete_account"
        \/ q = "findLink" /\ flow[j].mode # "delete_account"
    BY <2>4
  <2>7. /\ l.op = "callback" /\ j \in minted /\ j \in Jtis
        /\ \/ flow[j].mode = "login" /\ l.usr = NoOne
           \/ flow[j].mode # "login" /\ l.usr = flow[j].usr /\ l.usr \in Users
    BY <1>2, <1>3 DEF FlowSound, Pending
  <2>8. minted' = minted /\ flow' = flow
    BY <1>1
  <2> HIDE DEF l, j, p
  <2>9. FlowSound(q, m)'
    BY <2>3, <2>6, <2>7, <2>8 DEF FlowSound, Pending, Answered
  <2>10. RowSound(q, m)'
    BY <2>6 DEF RowSound
  <2>11. q \in Points /\ q \notin Pending
    BY <2>6 DEF Points, Pending
  <2> QED BY <1>6, <1>7, <1>8, <1>9, <2>3, <2>5, <2>9, <2>10, <2>11, WriteInv DEF Sound
<1> QED BY <1>5, <1>10, <1>11

\* issue_account_delete_reauth_token
LEMMA TicketInv ==
  ASSUME Inv, NEW r \in Requests, Ticket(r)
  PROVE  Inv'
<1> DEFINE l == loc[r]
<1>1. /\ tickets' = IF link[l.idn] = l.usr THEN tickets \cup {<<l.usr, l.idn>>} ELSE tickets
      /\ UNCHANGED <<accounts, minted, flow, exchanged, issued, told, able, barred, overwritten>>
  BY DEF Ticket
<1>2. l.usr \in Users /\ l.idn \in Identities
  BY DEF Ticket, Inv, RequestInv, Sound, FlowSound, Answered
<1>3. TypeOK'
  <2>1. pc' \in [Requests -> Points] /\ loc' \in [Requests -> Locals] /\ begun' \in 0 .. MaxBegun
    BY GoTypes, BlankType DEF Ticket, Done, Points
  <2>2. tickets' \subseteq Users \X Identities
    BY <1>1, <1>2 DEF Inv, TypeOK
  <2> QED BY <1>1, <2>1, <2>2 DEF Inv, TypeOK, StoreTypeOK, accounts
<1>4. StateInv'
  BY <1>1 DEF Inv, StateInv, IdInv, NonceInv, NonceOnce, GoneStaysGone, LoginMethodRemains,
     SuspensionStands, HasLogin, LinksOf, accounts
<1>5. Kept
  BY <1>1 DEF Kept, KeepsPw, accounts
<1> QED BY <1>1, <1>3, <1>4, <1>5, PendingStays, LastInv DEF Ticket, accounts

\* create_user_sso_link
LEMMA AddLinkInv ==
  ASSUME Inv, NEW r \in Requests, AddLink(r)
  PROVE  Inv'
<1>1. PICK u, i : u = loc[r].usr /\ i = loc[r].idn
  OBVIOUS
<1>2. PICK ok \in BOOLEAN :
        /\ InsertLink(i, u, ok)
        /\ able' = IF ok THEN able \cup {u} ELSE able
  BY <1>1 DEF AddLink
<1>3. /\ ok = (link[i] = NoOne /\ u \in exists)
      /\ link' = IF ok THEN [link EXCEPT ![i] = u] ELSE link
      /\ UNCHANGED <<exists, row, gone, key, nonces, minted, flow, tickets, exchanged, issued, told,
                     barred, overwritten>>
  BY <1>2 DEF AddLink, InsertLink
<1>4. i \in Identities /\ exists \subseteq Users /\ gone \subseteq Users
  BY <1>1 DEF AddLink, Inv, TypeOK, StoreTypeOK, RequestInv, Sound, FlowSound, Answered
<1>5. TypeOK'
  <2>1. pc' \in [Requests -> Points] /\ loc' \in [Requests -> Locals] /\ begun' \in 0 .. MaxBegun
    BY GoTypes, BlankType DEF AddLink, Done, Points
  <2> QED BY <1>2, <1>3, <1>4, <2>1 DEF Inv, TypeOK, StoreTypeOK
<1>6. /\ \A v \in Users : LinksOf(v) \subseteq LinksOf(v)'
      /\ \A v \in Users : ~ok \/ v # u => LinksOf(v)' = LinksOf(v)
      /\ ok => LinksOf(u)' # {}
  <2>1. link' \in [Identities -> Users \cup {NoOne}] /\ link \in [Identities -> Users \cup {NoOne}]
    BY <1>5 DEF Inv, TypeOK, StoreTypeOK
  <2>2. CASE ok
    <3>1. link[i] = NoOne /\ link'[i] = u /\ \A k \in Identities : k # i => link'[k] = link[k]
      BY <1>3, <1>4, <2>1, <2>2
    <3>2. u \in Users /\ NoOne \notin Users
      BY <1>3, <1>4, <2>2, AccountStoreAssumption
    <3>3. i \in LinksOf(u)'
      BY <1>4, <3>1 DEF LinksOf
    <3>4. ASSUME NEW v \in Users PROVE LinksOf(v) \subseteq LinksOf(v)'
      BY <3>1, <3>2 DEF LinksOf
    <3>5. ASSUME NEW v \in Users, v # u PROVE LinksOf(v)' \subseteq LinksOf(v)
      BY <3>1, <3>5 DEF LinksOf
    <3> QED BY <2>2, <3>3, <3>4, <3>5
  <2>3. CASE ~ok
    BY <1>3, <2>3 DEF LinksOf
  <2> QED BY <2>2, <2>3
<1>7. StateInv'
  <2>1. IdInv' /\ NonceInv' /\ SuspensionStands'
    BY <1>2, <1>3 DEF Inv, StateInv, IdInv, NonceInv, NonceOnce, SuspensionStands
  <2>2. GoneStaysGone'
    BY <1>3, <1>4, <1>6 DEF Inv, StateInv, GoneStaysGone
  <2>3. ASSUME NEW v \in exists PROVE HasLogin(v)' \/ v \notin able' \/ v \in overwritten
    <3>1. v \in Users /\ row'[v] = row[v] /\ (v \in able' => v \in able \/ (ok /\ v = u))
      BY <1>2, <1>3, <1>4
    <3>2. HasLogin(v) => HasLogin(v)'
      BY <1>6, <3>1 DEF HasLogin
    <3>3. ok /\ v = u => HasLogin(v)'
      BY <1>6 DEF HasLogin
    <3> QED BY <3>1, <3>2, <3>3 DEF Inv, StateInv, LoginMethodRemains
  <2>4. LoginMethodRemains'
    BY <1>3, <2>3 DEF LoginMethodRemains
  <2> QED BY <2>1, <2>2, <2>4 DEF StateInv
<1>8. Kept
  BY <1>3 DEF Kept, KeepsPw
<1> QED BY <1>3, <1>5, <1>7, <1>8, PendingStays, LastInv DEF AddLink

\* delete_expired_oauth_state_nonces
LEMMA ExpireInv ==
  ASSUME Inv, Expire
  PROVE  Inv'
<1>1. PICK j \in nonces : nonces' = nonces \ {j}
  BY DEF Expire, ExpireNonce
<1>2. UNCHANGED <<exists, row, gone, key, link, pc, loc, begun, minted, flow, history>>
  BY DEF Expire, ExpireNonce
<1>3. TypeOK'
  BY <1>1, <1>2 DEF Inv, TypeOK, StoreTypeOK, history
<1>4. StateInv'
  BY <1>1, <1>2 DEF Inv, StateInv, IdInv, NonceInv, NonceOnce, GoneStaysGone, LoginMethodRemains,
     SuspensionStands, HasLogin, LinksOf, history
<1>5. ASSUME NEW s \in Requests PROVE Sound(pc[s], loc[s])'
  <2>1. Sound(pc[s], loc[s])
    BY DEF Inv, RequestInv
  <2> QED BY <1>1, <1>2, <2>1 DEF Sound, FlowSound, RowSound, KeepsPw, history
<1>6. OnePending'
  BY <1>2 DEF Inv, RequestInv, OnePending
<1> QED BY <1>3, <1>4, <1>5, <1>6 DEF Inv, RequestInv

-----------------------------------------------------------------------------
(* The whole system.                                                       *)

LEMMA InitInv == Init => Inv
<1> SUFFICES ASSUME Init PROVE Inv
  OBVIOUS
<1>1. exists \subseteq Users /\ exists # {}
  BY DEF Init
<1>2. StoreTypeOK
  BY <1>1 DEF Init, StoreTypeOK
<1>3. TypeOK
  <2>1. loc \in [Requests -> Locals] /\ pc \in [Requests -> Points]
    BY BlankType DEF Init, Points
  <2>2. flow \in [Jtis -> [mode : {"login", "link", "delete_account"}, usr : Users \cup {NoOne}]]
    BY DEF Init
  <2>3. begun \in 0 .. MaxBegun /\ exchanged \in [Jtis -> Nat]
    BY AccountsAssumption DEF Init
  <2> QED BY <1>1, <1>2, <2>1, <2>2, <2>3 DEF Init, TypeOK, StoreTypeOK
<1>4. StateInv
  BY <1>1 DEF Init, StateInv, IdInv, NonceInv, NonceOnce, GoneStaysGone, LoginMethodRemains,
     SuspensionStands
<1>5. OnePending
  BY DEF Init, OnePending, Pending
<1>6. \A r \in Requests : Sound(pc[r], loc[r])
  BY BlankType DEF Init
<1> QED BY <1>3, <1>4, <1>5, <1>6 DEF Inv, RequestInv

LEMMA StepInv == Inv /\ [Next]_vars => Inv'
<1> SUFFICES ASSUME Inv, [Next]_vars PROVE Inv'
  OBVIOUS
<1>1. ASSUME NEW r \in Requests, Authenticating(r) PROVE Inv'
  BY <1>1, BySessionInv, FindKeyInv, LoadUserInv, StampKeyInv DEF Authenticating
<1>2. ASSUME NEW r \in Requests, Writing(r) PROVE Inv'
  BY <1>2, ReadersInv, WriteUserInv, IssueKeyInv, RegisterInv, AddUserInv DEF Writing
<1>3. ASSUME NEW r \in Requests, Leaving(r) PROVE Inv'
  BY <1>3, LeaversInv, UnlinkInv, DropUserInv DEF Leaving
<1>4. ASSUME NEW r \in Requests, OAuth(r) PROVE Inv'
  BY <1>4, FlowsInv, AddNonceInv, CallbackInv, ExchangeInv, TicketInv, AddLinkInv DEF OAuth
<1>5. ASSUME NEW r \in Requests, Abandon(r) PROVE Inv'
  BY <1>5, AnswerInv DEF Abandon
<1>6. CASE Expire
  BY <1>6, ExpireInv
<1>7. CASE UNCHANGED vars
  <2>1. TypeOK'
    BY <1>7 DEF Inv, TypeOK, StoreTypeOK, vars, accounts
  <2>2. StateInv'
    BY <1>7 DEF Inv, StateInv, IdInv, NonceInv, NonceOnce, GoneStaysGone, LoginMethodRemains,
       SuspensionStands, HasLogin, LinksOf, vars, accounts
  <2>3. RequestInv'
    BY <1>7 DEF Inv, RequestInv, OnePending, Sound, FlowSound, RowSound, KeepsPw, vars, accounts
  <2> QED BY <2>1, <2>2, <2>3 DEF Inv
<1> QED BY <1>1, <1>2, <1>3, <1>4, <1>5, <1>6, <1>7 DEF Next

\* Inv holds of every state of every behaviour, for any number of users and
\* overlapping requests.
LEMMA Invariance == Spec => []Inv
BY InitInv, StepInv, PTL DEF Spec

\* Every variable keeps its type.
THEOREM TypeCorrect == Spec => []TypeOK
<1>1. Inv => TypeOK
  BY DEF Inv
<1> QED BY <1>1, Invariance, PTL

\* One start of an OAuth flow leads to at most one code exchange, however many
\* callbacks present its state (consume_oauth_state_nonce).
THEOREM ExchangedOnce == Spec => []NonceOnce
<1>1. Inv => NonceOnce
  BY DEF Inv, StateInv, NonceInv
<1> QED BY <1>1, Invariance, PTL

\* A deleted account has no row, key, link or nonce and never gets one again;
\* UserDeleted is only published of it (delete_user).
THEOREM DeletionStands == Spec => []GoneStaysGone
<1>1. Inv => GoneStaysGone
  BY DEF Inv, StateInv
<1> QED BY <1>1, Invariance, PTL

\* An account's API key is the one issued last (update_api_key writes a hash
\* back only where the id still matches).
THEOREM KeyLatest == Spec => []KeyIsLatest
<1>1. Inv => KeyIsLatest
  BY DEF Inv, TypeOK, StoreTypeOK, StateInv, IdInv, KeyIsLatest
<1> QED BY <1>1, Invariance, PTL

\* A suspension is only lifted by a PATCH or by a whole-row write of a row read
\* before it (update_user).
THEOREM SuspensionHolds == Spec => []SuspensionStands
<1>1. Inv => SuspensionStands
  BY DEF Inv, StateInv
<1> QED BY <1>1, Invariance, PTL

\* Nobody is left without a way to log in by disconnecting a provider, unless
\* a stale row was written over the password (disconnect_oauth_provider).
THEOREM LoginKept == Spec => []LoginMethodRemains
<1>1. Inv => LoginMethodRemains
  BY DEF Inv, StateInv
<1> QED BY <1>1, Invariance, PTL

\* A new link belongs to the signed-in user who asked for it or to the account
\* the callback created, in any interleaving (complete_oauth_login).
THEOREM Consent == Spec => LinksOnlyByConsent
<1> DEFINE Linked(i) ==
      \E r \in Requests :
        /\ pc[r] = "insertLink" /\ loc[r].idn = i
        /\ LET f == flow[loc[r].jti] IN
             \/ f.mode = "link" /\ f.usr = link'[i]
             \/ f.mode = "login" /\ loc[r].made
<1>1. ASSUME Inv, Next, NEW i \in Identities, link'[i] \notin {link[i], NoOne}
      PROVE  Linked(i)
  <2>1. PICK r \in Requests : AddLink(r)
    <3>1. ASSUME NEW r \in Requests, Authenticating(r) \/ Abandon(r) PROVE link' = link
      BY <3>1 DEF Authenticating, BySession, FindKey, LoadUser, StampKey, TouchKey, Abandon,
         Read, accounts
    <3>2. ASSUME NEW r \in Requests, Writing(r) PROVE link' = link
      BY <3>2 DEF Writing, ReadUser, ResetPassword, Promote, WriteUser, UpdateUser, IssueKey,
         UpsertKey, Register, AddUser, InsertUser, Read, accounts
    <3>3. ASSUME NEW r \in Requests, Leaving(r) PROVE link' = link \/ link'[i] \in {link[i], NoOne}
      BY <3>3 DEF Leaving, ListLinks, Unlink, DeleteLinks, Confirm, FindUser, SelectUser,
         DropUser, DeleteUser, Read, accounts
    <3>4. ASSUME NEW r \in Requests, OAuth(r) PROVE link' = link \/ AddLink(r)
      BY <3>4 DEF OAuth, StartSignIn, AddNonce, InsertNonce, Callback, ConsumeNonce, WhoAmI,
         Exchange, Ticket, FindLink, CheckMail, Read, accounts
    <3>5. ASSUME Expire PROVE link' = link
      BY <3>5 DEF Expire, ExpireNonce
    <3> QED BY <1>1, <3>1, <3>2, <3>3, <3>4, <3>5 DEF Next
  <2>2. pc[r] = "insertLink" /\ link'[i] = loc[r].usr /\ loc[r].idn = i
    <3>1. pc[r] = "insertLink" /\ (link' = link \/ link' = [link EXCEPT ![loc[r].idn] = loc[r].usr])
      BY <2>1 DEF AddLink, InsertLink
    <3>2. link \in [Identities -> Users \cup {NoOne}]
      BY <1>1 DEF Inv, TypeOK, StoreTypeOK
    <3> QED BY <1>1, <3>1, <3>2
  <2>3. \/ flow[loc[r].jti].mode = "link" /\ flow[loc[r].jti].usr = loc[r].usr
        \/ flow[loc[r].jti].mode = "login" /\ loc[r].made
    BY <1>1, <2>2 DEF Inv, RequestInv, Sound, FlowSound
  <2> QED BY <2>2, <2>3
<1>2. Inv /\ [Next]_vars => [\A i \in Identities : link'[i] \notin {link[i], NoOne} => Linked(i)]_vars
  BY <1>1
<1>3. Spec => [][\A i \in Identities : link'[i] \notin {link[i], NoOne} => Linked(i)]_vars
  BY <1>2, Invariance, PTL DEF Spec
<1> QED BY <1>3 DEF LinksOnlyByConsent
=============================================================================
