------------------------------ MODULE AlbumRows ------------------------------
(***************************************************************************)
(* What Postgres keeps of one album and its owner: the positions of its    *)
(* items, its ShareX deletion links, the owner's suspension, and the       *)
(* runtime settings.  A transaction is the rows it has locked with what it *)
(* has written to them; nobody else sees that before it commits (READ      *)
(* COMMITTED).                                                             *)
(***************************************************************************)
EXTENDS Integers, FiniteSets, Sequences, SequencesExt, FiniteSetsExt

CONSTANTS
  Requests,   \* requests at a time, each with at most one transaction (bound)
  Items, Links,
  Keys,       \* settings
  Values,     \* their values
  Album,      \* the row of the album, as something to lock
  Unset,      \* a setting without a row
  Gap         \* 1000, the distance at which positions are given out

ASSUME RowsAssumption ==
  /\ IsFiniteSet(Items) /\ IsFiniteSet(Links) /\ IsFiniteSet(Keys)
  /\ IsFiniteSet(Requests) /\ Requests # {}
  /\ Gap \in Nat \ {0, 1}
  /\ Unset \notin Values
  /\ Album \notin Items \cup Keys /\ Items \cap Keys = {}

VARIABLES
  album,      \* open, expired or gone
  pos,        \* the items of the album and their positions
  links,      \* sharex_delete_capabilities: their state and how old they are
  suspended,  \* the owner is suspended
  config,     \* the config table
  tx          \* per request: rows locked by its transaction, and their new values

rowVars == <<album, pos, links, suspended, config, tx>>

NoRows == [x \in {} |-> 0]

\* Rows f, in which x now has the value v.
With(f, x, v) == [y \in DOMAIN f \cup {x} |-> IF y = x THEN v ELSE f[y]]

RowsTypeOK ==
  /\ album \in {"open", "expired", "gone"}
  /\ DOMAIN pos \subseteq Items /\ \A i \in DOMAIN pos : pos[i] \in Int
  /\ links \in [Links -> [state : {"unused", "live", "consumed", "revoked", "deleted"},
                          expired : BOOLEAN, old : BOOLEAN]]
  /\ suspended \in BOOLEAN
  /\ config \in [Keys -> Values \cup {Unset}]
  /\ DOMAIN tx = Requests /\ \A r \in Requests : DOMAIN tx[r] \subseteq Items \cup Keys \cup {Album}
  /\ \A r, s \in Requests : r # s => DOMAIN tx[r] \cap DOMAIN tx[s] = {}
  /\ album = "gone" => pos = NoRows /\ \A l \in Links : links[l].state \in {"unused", "deleted"}

-----------------------------------------------------------------------------
(* Locks and transactions                                                  *)

\* Nobody else holds row x.
Free(r, x) == \A s \in Requests \ {r} : x \notin DOMAIN tx[s]

Write(r, x, v) ==
  /\ Free(r, x)
  /\ tx' = [tx EXCEPT ![r] = With(@, x, v)]

Rollback(r) == tx' = [tx EXCEPT ![r] = NoRows]

\* The rows of table t as transaction r sees them.
Seen(r, t) == [x \in DOMAIN t |-> IF x \in DOMAIN tx[r] THEN tx[r][x] ELSE t[x]]

Commit(r) ==
  /\ pos' = Seen(r, pos)
  /\ config' = Seen(r, config)
  /\ Rollback(r)

-----------------------------------------------------------------------------
(* Positions                                                               *)

\* ORDER BY position: equal positions come in any order.
Ordered(p) == {s \in SetToSeqs(DOMAIN p) : \A i, j \in 1 .. Len(s) : i < j => p[s[i]] <= p[s[j]]}

\* create_media_with_next_position
NextPosition == IF DOMAIN pos = {} THEN Gap ELSE Max({pos[i] : i \in DOMAIN pos}) + Gap

InsertItem(r, i) ==
  /\ pos' = With(pos, i, tx[r][Album])
  /\ Rollback(r)

\* Mutant: the links of a deleted album stay behind.
DropAlbumOnly(r) ==
  /\ \A x \in DOMAIN pos \cup {Album} : Free(r, x)
  /\ album' = "gone"
  /\ pos' = NoRows
  /\ UNCHANGED links

\* DELETE FROM albums, which takes the items and the links with it; it waits
\* for every transaction that holds one of its rows.
DropAlbum(r) ==
  /\ \A x \in DOMAIN pos \cup {Album} : Free(r, x)
  /\ album' = "gone"
  /\ pos' = NoRows
  /\ links' = [l \in Links |-> IF links[l].state = "unused" THEN links[l]
                               ELSE [links[l] EXCEPT !.state = "deleted"]]

-----------------------------------------------------------------------------
(* Links                                                                   *)

Live(l) == links[l].state = "live" /\ ~links[l].expired

\* Mutant: the UPDATE does not look at consumed_at and revoked_at.
ConsumableAnyway(l) == links[l].state \in {"live", "consumed", "revoked"} /\ ~links[l].expired

\* The WHERE of consume_sharex_delete_capability.
Consumable(l) == Live(l)

Consume(l) == links' = [links EXCEPT ![l].state = "consumed"]

IssueLink(l) == links' = [links EXCEPT ![l].state = "live"]

RevokeLinks == links' = [l \in Links |-> IF links[l].state = "live" THEN [links[l] EXCEPT !.state = "revoked"]
                                         ELSE links[l]]

\* Rows a statement of the nightly clean-up takes.
Outdated(what, l) ==
  CASE what = "expired" -> links[l].state \in {"live", "consumed", "revoked"} /\ links[l].expired
    [] OTHER -> links[l].state = what /\ links[l].old

ForgetLinks(what) == links' = [l \in Links |-> IF Outdated(what, l) THEN [links[l] EXCEPT !.state = "deleted"]
                                               ELSE links[l]]
=============================================================================
