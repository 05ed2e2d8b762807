---------------------------- MODULE AccountStore ----------------------------
(***************************************************************************)
(* The account tables: users, api_keys, user_sso_links, oauth_state_nonces *)
(* and the statements of repository_users.py on them, each atomic.  A      *)
(* statement is an operator that says whether it succeeds (`ok`) as well   *)
(* as what it writes; one that fails writes nothing.                       *)
(*                                                                         *)
(* A users row is what the properties tell apart: the e-mail address       *)
(* (which stands for the user name too: both are UNIQUE), the password and *)
(* is_suspended.  is_admin, quota and limits travel along unseen.          *)
(***************************************************************************)
EXTENDS Integers, FiniteSets

CONSTANTS
  Users,       \* user ids that may be handed out
  Mails,       \* e-mail addresses
  Passwords,   \* local passwords
  NoPw,        \* password_hash IS NULL
  Identities,  \* accounts at the OAuth provider
  NoOne,       \* no user
  Keys,        \* API keys that may be handed out
  NoKey,       \* no API key
  Jtis         \* OAuth nonces that may be handed out

ASSUME AccountStoreAssumption ==
  /\ NoPw \notin Passwords
  /\ NoOne \notin Users
  /\ NoKey \notin Keys
  /\ Users # {} /\ Mails # {}

VARIABLES
  exists,   \* users with a row
  row,      \* the row; AnyRow where there is none
  gone,     \* history: users whose row was deleted
  key,      \* api_keys: one row per user
  link,     \* user_sso_links: UNIQUE (provider, provider_uid)
  nonces    \* oauth_state_nonces not yet consumed or expired

accounts == <<exists, row, gone, key, link, nonces>>

Row == [mail : Mails, pw : Passwords \cup {NoPw}, sus : BOOLEAN]

AnyRow == [mail |-> CHOOSE e \in Mails : TRUE, pw |-> NoPw, sus |-> FALSE]

StoreTypeOK ==
  /\ exists \subseteq Users
  /\ row \in [Users -> Row]
  /\ gone \subseteq Users
  /\ key \in [Users -> Keys \cup {NoKey}]
  /\ link \in [Identities -> Users \cup {NoOne}]
  /\ nonces \subseteq Jtis

-----------------------------------------------------------------------------
(* Reads.                                                                  *)

\* list_user_sso_links
LinksOf(u) == {i \in Identities : link[i] = u}

\* get_user_by_email, get_user_by_username
Taken(mail) == \E u \in exists : row[u].mail = mail

HasLogin(u) == row[u].pw # NoPw \/ LinksOf(u) # {}

-----------------------------------------------------------------------------
(* Statements.                                                             *)

\* create_user
InsertUser(u, rw, ok) ==
  /\ ok = ~Taken(rw.mail)
  /\ exists' = IF ok THEN exists \cup {u} ELSE exists
  /\ row' = IF ok THEN [row EXCEPT ![u] = rw] ELSE row
  /\ UNCHANGED <<gone, key, link, nonces>>

\* Mutant: the row is inserted again when the UPDATE finds none.
UpsertUser(u, rw, ok) ==
  /\ ok = TRUE
  /\ exists' = exists \cup {u}
  /\ row' = [row EXCEPT ![u] = rw]
  /\ UNCHANGED <<gone, key, link, nonces>>

\* update_user: the whole row, by id; for a user that is gone row_to_user(None) raises.
UpdateUser(u, rw, ok) ==
  /\ ok = (u \in exists)
  /\ row' = IF ok THEN [row EXCEPT ![u] = rw] ELSE row
  /\ UNCHANGED <<exists, gone, key, link, nonces>>

\* DELETE FROM users; keys, links and nonces are ON DELETE CASCADE.
DeleteUser(u, owned) ==
  /\ exists' = exists \ {u}
  /\ gone' = IF u \in exists THEN gone \cup {u} ELSE gone
  /\ key' = [key EXCEPT ![u] = NoKey]
  /\ link' = [i \in Identities |-> IF link[i] = u THEN NoOne ELSE link[i]]
  /\ nonces' = nonces \ owned
  /\ row' = [row EXCEPT ![u] = AnyRow]

\* upsert_api_key: INSERT ... ON CONFLICT (user_id) DO UPDATE
UpsertKey(u, k, ok) ==
  /\ ok = (u \in exists)
  /\ key' = IF ok THEN [key EXCEPT ![u] = k] ELSE key
  /\ UNCHANGED <<exists, row, gone, link, nonces>>

\* Mutant: the UPDATE selects the row by user_id instead of id.
TouchKeyOfUser(u, k, ok) ==
  /\ ok = (u \in exists)
  /\ key' = IF ok THEN [key EXCEPT ![u] = k] ELSE key
  /\ UNCHANGED <<exists, row, gone, link, nonces>>

\* update_api_key: hash and id are written back where the id still matches;
\* without a match row_to_api_key(None) raises.
TouchKey(u, k, ok) ==
  /\ ok = (key[u] = k)
  /\ UNCHANGED accounts

\* create_user_sso_link
InsertLink(i, u, ok) ==
  /\ ok = (link[i] = NoOne /\ u \in exists)
  /\ link' = IF ok THEN [link EXCEPT ![i] = u] ELSE link
  /\ UNCHANGED <<exists, row, gone, key, nonces>>

\* delete_user_sso_link: every link of the user with the one provider there is.
DeleteLinks(u) ==
  /\ link' = [i \in Identities |-> IF link[i] = u THEN NoOne ELSE link[i]]
  /\ UNCHANGED <<exists, row, gone, key, nonces>>

\* create_oauth_state_nonce: user_id, where there is one, references users.
InsertNonce(j, u, ok) ==
  /\ ok = (u \in exists \cup {NoOne})
  /\ nonces' = IF ok THEN nonces \cup {j} ELSE nonces
  /\ UNCHANGED <<exists, row, gone, key, link>>

\* Mutant: the nonce is looked up but not deleted.
ConsumeNonceKeep(j, ok) ==
  /\ ok = (j \in nonces)
  /\ UNCHANGED accounts

\* consume_oauth_state_nonce: DELETE ... RETURNING
ConsumeNonce(j, ok) ==
  /\ ok = (j \in nonces)
  /\ nonces' = nonces \ {j}
  /\ UNCHANGED <<exists, row, gone, key, link>>

\* The ten minutes are over: delete_expired_oauth_state_nonces, or the
\* expires_at > now() of the DELETE.
ExpireNonce(j) ==
  /\ j \in nonces
  /\ nonces' = nonces \ {j}
  /\ UNCHANGED <<exists, row, gone, key, link>>
=============================================================================
