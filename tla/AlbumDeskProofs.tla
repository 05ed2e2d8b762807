-------------------------- MODULE AlbumDeskProofs --------------------------
(***************************************************************************)
(* What AlbumDesk promises, proved: a link that was used is used up, every *)
(* listener is told, an album is never much too full, settings change by   *)
(* whole patches, an archive that ends well is whole, no two uploads get   *)
(* one place, and rows, archive and requests keep their shape.             *)
(***************************************************************************)
EXTENDS AlbumDesk, FiniteSetTheorems, TLAPS

-----------------------------------------------------------------------------
(* Where requests stand and what they carry.                               *)

\* A request's variables are a record with the fields of Blank.
Record(l) ==
  l \in [item : {l.item}, link : {l.link}, key : {l.key}, files : {l.files}, todo : {l.todo},
         list : {l.list}, again : {l.again}, seen : {l.seen}, events : {l.events},
         heard : {l.heard}, next : {l.next}]

\* Where a request goes on after an announcement.
Nexts == {"idle", "up_touch", "sp_write", "sp_lift"}

PlaceInv ==
  /\ pc \in [Requests -> {pc[r] : r \in Requests}]
  /\ loc \in [Requests -> {loc[r] : r \in Requests}]
  /\ \A r \in Requests : Record(loc[r]) /\ (pc[r] = "emit" => loc[r].next \in Nexts)

\* Request r moves, the others stand still.
Others(r) == \A s \in Requests \ {r} : pc'[s] = pc[s] /\ loc'[s] = loc[s]

Legal(label, l) == Record(l) /\ (label = "emit" => l.next \in Nexts)

LEMMA GoFacts ==
  ASSUME PlaceInv, NEW r \in Requests, NEW label, NEW l, Go(r, label, l)
  PROVE  /\ pc'[r] = label /\ loc'[r] = l /\ Others(r)
         /\ Legal(label, l) => PlaceInv'
<1>1. pc'[r] = label /\ loc'[r] = l /\ Others(r)
  BY DEF PlaceInv, Go, Others
<1>2. /\ pc' \in [Requests -> {pc'[s] : s \in Requests}]
      /\ loc' \in [Requests -> {loc'[s] : s \in Requests}]
  BY DEF PlaceInv, Go
<1> QED BY <1>1, <1>2 DEF PlaceInv, Others, Legal

LEMMA BlankRecord == Record(Blank)
BY DEF Record, Blank

LEMMA RecordFacts ==
  ASSUME NEW l, Record(l), NEW v, NEW w
  PROVE  /\ Record([l EXCEPT !.item = v]) /\ Record([l EXCEPT !.link = v])
         /\ Record([l EXCEPT !.todo = v]) /\ Record([l EXCEPT !.list = v])
         /\ Record([l EXCEPT !.heard = v])
         /\ Record([l EXCEPT !.events = v, !.heard = w])
         /\ Record([l EXCEPT !.key = v, !.files = w])
         /\ Record([l EXCEPT !.again = v, !.todo = w])
         /\ Record([l EXCEPT !.list = v, !.seen = w])
         /\ Record([l EXCEPT !.todo = v, !.events = w])
BY DEF Record

\* r takes a legal step.
Steps(r) == \E label, l : Legal(label, l) /\ Go(r, label, l)

LEMMA DoneLegal == ASSUME NEW r, Done(r) PROVE Steps(r)
BY BlankRecord DEF Done, Steps, Legal, Blank

LEMMA ToLegal ==
  ASSUME PlaceInv, NEW r \in Requests, NEW label, To(r, label), label = "emit" => loc[r].next \in Nexts
  PROVE  Steps(r)
BY DEF To, Steps, Legal, PlaceInv

LEMMA AnnounceLegal ==
  ASSUME PlaceInv, NEW r \in Requests, NEW n, NEW label \in Nexts, Announce(r, n, label)
  PROVE  Steps(r)
<1> DEFINE l == [loc[r] EXCEPT !.events = n, !.heard = 0, !.next = label]
<1>1. Record(l) /\ l.next = label
  BY DEF PlaceInv, Record
<1> QED BY <1>1 DEF Announce, Steps, Legal

LEMMA NextFileLegal == ASSUME PlaceInv, NEW r \in Requests, NextFile(r) PROVE Steps(r)
<1>1. CASE Done(r)
  BY <1>1, DoneLegal
<1>2. CASE Go(r, "up_find", [Blank EXCEPT !.key = loc[r].key, !.files = loc[r].files - 1])
  BY <1>2, BlankRecord, RecordFacts DEF Steps, Legal
<1> QED BY <1>1, <1>2 DEF NextFile

LEMMA BeginLegal == ASSUME NEW r \in Requests, BeginAny(r) PROVE Steps(r)
<1>1. ASSUME NEW label, NEW l, Record(l), Begin(r, label, l), label # "emit" PROVE Steps(r)
  BY <1>1 DEF Begin, Steps, Legal
<1>2. CASE \E key \in BOOLEAN, files \in 1 .. MaxFiles : BeginUpload(r, key, files)
  BY <1>1, <1>2, BlankRecord, RecordFacts DEF BeginUpload
<1>3. CASE Begin(r, "ro_find", Blank) \/ Begin(r, "del_find", Blank) \/ Begin(r, "sp_read", Blank)
  BY <1>1, <1>3, BlankRecord
<1>4. CASE \/ Begin(r, "pr_links", [Blank EXCEPT !.todo = <<"expired", "revoked", "consumed">>])
           \/ \E p \in Patches : Begin(r, "cf_read", [Blank EXCEPT !.todo = p])
  BY <1>1, <1>4, BlankRecord, RecordFacts
<1>5. CASE \E l \in Links : Begin(r, "vi_link", [Blank EXCEPT !.link = l]) \/ BeginSubmit(r, l)
  BY <1>1, <1>5, BlankRecord, RecordFacts DEF BeginSubmit
<1> QED BY <1>2, <1>3, <1>4, <1>5 DEF BeginAny

LEMMA StepLegal == ASSUME PlaceInv, NEW r \in Requests, Step(r) PROVE Steps(r)
<1>1. ASSUME NEW label, NEW l, Record(l), Go(r, label, l), label # "emit" PROVE Steps(r)
  BY <1>1 DEF Steps, Legal
<1>2. Record(loc[r]) /\ (pc[r] = "emit" => loc[r].next \in Nexts)
  BY DEF PlaceInv
<1>3. CASE FindToUpload(r) \/ CountItems(r) \/ Place(r) \/ UndoObject(r)
  BY <1>3, DoneLegal, ToLegal DEF FindToUpload, CountItems, Place, UndoObject
<1>4. CASE PutObject(r)
  BY <1>1, <1>2, <1>4, RecordFacts DEF PutObject
<1>5. CASE Insert(r) \/ TouchAlbum(r) \/ GiveLink(r)
  BY <1>5, DoneLegal, ToLegal, AnnounceLegal, NextFileLegal DEF Insert, TouchAlbum, GiveLink, Nexts
<1>6. CASE FindToReorder(r) \/ SaveAlbum(r) \/ FindToDelete(r)
  BY <1>6, DoneLegal, ToLegal, AnnounceLegal DEF FindToReorder, SaveAlbum, FindToDelete, Nexts
<1>7. CASE ListToReorder(r)
  BY <1>1, <1>2, <1>7, DoneLegal, RecordFacts DEF ListToReorder
<1>8. CASE Move(r)
  BY <1>1, <1>2, <1>8, RecordFacts DEF Move
<1>9. CASE ReadBack(r)
  BY <1>1, <1>2, <1>9, RecordFacts DEF ReadBack
<1>10. CASE CommitMoves(r)
  <2> DEFINE l == [loc[r] EXCEPT !.again = TRUE,
                     !.todo = [k \in DOMAIN loc[r].list |-> <<loc[r].list[k][1], k * Gap>>]]
  <2>1. Record(l)
    BY <1>2, RecordFacts
  <2>2. Go(r, "ro_write", l) \/ To(r, "ro_save")
    BY <1>10 DEF CommitMoves
  <2> QED BY <1>1, <2>1, <2>2, ToLegal
<1>11. CASE ListToDelete(r)
  BY <1>1, <1>2, <1>11, RecordFacts DEF ListToDelete
<1>12. CASE DeleteRows(r) \/ CheckLink(r) \/ SetCookie(r) \/ ConsumeLink(r) \/ WriteUser(r) \/ Deadlock(r)
  BY <1>12, DoneLegal, ToLegal DEF DeleteRows, CheckLink, SetCookie, ConsumeLink, WriteUser, Deadlock
<1>13. CASE DeleteKey(r)
  BY <1>1, <1>2, <1>13, AnnounceLegal, RecordFacts DEF DeleteKey, Nexts
<1>14. CASE ReadUser(r) \/ Revoke(r) \/ CommitSettings(r)
  BY <1>14, ToLegal, AnnounceLegal DEF ReadUser, Revoke, CommitSettings, Nexts
<1>15. CASE ReadSettings(r)
  <2> DEFINE l == [loc[r] EXCEPT !.list = loc[r].todo, !.seen = [k \in Keys |-> Effective(k)]]
  <2>1. Record(l)
    BY <1>2, RecordFacts
  <2>2. Go(r, "cf_set", l)
    BY <1>15 DEF ReadSettings
  <2> QED BY <1>1, <2>1, <2>2
<1>16. CASE SetOne(r)
  <2> DEFINE next == [loc[r] EXCEPT !.todo = Tail(@)]
  <2>1. Record(next) /\ Record([next EXCEPT !.events = @ + 1])
    BY <1>2 DEF Record
  <2> QED BY <1>1, <1>16, <2>1, DoneLegal DEF SetOne
<1>17. CASE PruneLinks(r)
  BY <1>1, <1>2, <1>17, DoneLegal, RecordFacts DEF PruneLinks
<1>18. CASE \E raised \in BOOLEAN : Hear(r, raised)
  <2>1. Record([loc[r] EXCEPT !.heard = @ + 1]) /\ [loc[r] EXCEPT !.heard = @ + 1].next = loc[r].next
    BY <1>2 DEF Record
  <2> QED BY <1>2, <1>18, <2>1 DEF Hear, Steps, Legal
<1>19. CASE Heard(r)
  <2> DEFINE l == [loc[r] EXCEPT !.events = @ - 1, !.heard = 0]
  <2>1. Record(l) /\ l.next = loc[r].next
    BY <1>2 DEF Record
  <2> QED BY <1>2, <1>19, <2>1 DEF Heard, Steps, Legal
<1>20. CASE Announced(r)
  BY <1>2, <1>20, DoneLegal, ToLegal DEF Announced, Nexts
<1> QED BY <1>3, <1>4, <1>5, <1>6, <1>7, <1>8, <1>9, <1>10, <1>11, <1>12, <1>13, <1>14, <1>15,
           <1>16, <1>17, <1>18, <1>19, <1>20 DEF Step

LEMMA PlaceInit == Init => PlaceInv
<1> SUFFICES ASSUME Init PROVE PlaceInv
  OBVIOUS
<1>1. pc = [r \in Requests |-> "idle"] /\ loc = [r \in Requests |-> Blank]
  BY DEF Init
<1> QED BY <1>1, BlankRecord DEF PlaceInv

\* What is not a request's own step leaves all requests where they are.
LEMMA Outside ==
  ASSUME [Next]_vars, ~(\E r \in Requests : BeginAny(r) \/ Step(r))
  PROVE  /\ UNCHANGED <<pc, loc, tx, told, pos, config, spent>>
         /\ links' = links \/ \E l \in Links : LinkExpires(l) \/ LinkAges(l)
<1>1. CASE StartZip
  BY <1>1 DEF StartZip, sameRows, rowVars
<1>2. CASE sameRows /\ UNCHANGED deskVars
  BY <1>2 DEF sameRows, rowVars, deskVars
<1>3. CASE \E l \in Links : LinkExpires(l) \/ LinkAges(l) \/ CookieExpires(l)
  BY <1>3 DEF LinkExpires, LinkAges, CookieExpires, rowVars, deskVars
<1>4. CASE AlbumExpires
  BY <1>4 DEF AlbumExpires, deskVars
<1>5. CASE UNCHANGED vars
  BY <1>5 DEF vars, rowVars, deskVars
<1> QED BY <1>1, <1>2, <1>3, <1>4, <1>5 DEF Next

LEMMA PlaceStep == PlaceInv /\ [Next]_vars => PlaceInv'
<1> SUFFICES ASSUME PlaceInv, [Next]_vars PROVE PlaceInv'
  OBVIOUS
<1>1. CASE \E r \in Requests : BeginAny(r) \/ Step(r)
  BY <1>1, BeginLegal, StepLegal, GoFacts DEF Steps
<1>2. CASE ~(\E r \in Requests : BeginAny(r) \/ Step(r))
  BY <1>2, Outside DEF PlaceInv
<1> QED BY <1>1, <1>2

-----------------------------------------------------------------------------
(* Links.                                                                  *)

LinkInv ==
  /\ links \in [Links -> [state : {"unused", "live", "consumed", "revoked", "deleted"},
                          expired : BOOLEAN, old : BOOLEAN]]
  /\ spent \in [Links -> Nat]

\* What a step may do to a link.
LinkKept(l) ==
  links[l].state \in {"consumed", "revoked", "deleted"} =>
    spent'[l] = spent[l] /\ links'[l].state \in {links[l].state, "deleted"}

LEMMA StepLinks ==
  ASSUME NEW r \in Requests, BeginAny(r) \/ Step(r)
  PROVE  \/ UNCHANGED <<links, spent>>
         \/ DropAlbum(r) /\ UNCHANGED spent
         \/ RevokeLinks /\ UNCHANGED spent
         \/ (\E l \in Links : links[l].state = "unused" /\ IssueLink(l)) /\ album # "gone" /\ UNCHANGED spent
         \/ (\E what : ForgetLinks(what)) /\ UNCHANGED spent
         \/ \E l : Consumable(l) /\ Consume(l) /\ spent' = [spent EXCEPT ![l] = @ + 1]
<1> USE DEF sameRows, sameDesk, rowVars, Reads
<1>1. CASE BeginAny(r)
  BY <1>1 DEF BeginAny, BeginUpload, BeginSubmit, Begin
<1>2. CASE FindToUpload(r) \/ CountItems(r) \/ PutObject(r) \/ Place(r) \/ UndoObject(r)
  BY <1>2 DEF FindToUpload, CountItems, PutObject, Place, UndoObject
<1>3. CASE Insert(r) \/ TouchAlbum(r) \/ GiveLink(r)
  BY <1>3 DEF Insert, TouchAlbum, GiveLink
<1>4. CASE FindToReorder(r) \/ ListToReorder(r) \/ Move(r) \/ ReadBack(r) \/ CommitMoves(r) \/ SaveAlbum(r)
  BY <1>4 DEF FindToReorder, ListToReorder, Move, ReadBack, CommitMoves, SaveAlbum
<1>5. CASE FindToDelete(r) \/ ListToDelete(r) \/ DeleteRows(r) \/ DeleteKey(r)
  BY <1>5 DEF FindToDelete, ListToDelete, DeleteRows, DeleteKey
<1>6. CASE CheckLink(r) \/ SetCookie(r) \/ ConsumeLink(r)
  BY <1>6 DEF CheckLink, SetCookie, ConsumeLink
<1>7. CASE ReadUser(r) \/ Revoke(r) \/ WriteUser(r)
  BY <1>7 DEF ReadUser, Revoke, WriteUser
<1>8. CASE ReadSettings(r) \/ SetOne(r) \/ CommitSettings(r) \/ PruneLinks(r)
  BY <1>8 DEF ReadSettings, SetOne, CommitSettings, PruneLinks
<1>9. CASE (\E raised \in BOOLEAN : Hear(r, raised)) \/ Heard(r) \/ Announced(r) \/ Deadlock(r)
  BY <1>9 DEF Hear, Heard, Announced, Deadlock
<1> QED BY <1>1, <1>2, <1>3, <1>4, <1>5, <1>6, <1>7, <1>8, <1>9 DEF Step

LEMMA LinkStep ==
  ASSUME LinkInv, [Next]_vars
  PROVE  LinkInv' /\ \A l \in Links : LinkKept(l)
<1> USE DEF LinkInv, LinkKept
<1>1. CASE \E r \in Requests : BeginAny(r) \/ Step(r)
  <2>1. PICK r \in Requests : BeginAny(r) \/ Step(r)
    BY <1>1
  <2>2. CASE UNCHANGED <<links, spent>>
    BY <2>2
  <2>3. CASE DropAlbum(r) /\ UNCHANGED spent
    BY <2>3 DEF DropAlbum
  <2>4. CASE RevokeLinks /\ UNCHANGED spent
    BY <2>4 DEF RevokeLinks
  <2>5. CASE (\E l \in Links : links[l].state = "unused" /\ IssueLink(l)) /\ UNCHANGED spent
    BY <2>5 DEF IssueLink
  <2>6. CASE (\E what : ForgetLinks(what)) /\ UNCHANGED spent
    BY <2>6 DEF ForgetLinks
  <2>7. CASE \E l : Consumable(l) /\ Consume(l) /\ spent' = [spent EXCEPT ![l] = @ + 1]
    <3>1. PICK l : /\ links[l].state = "live" /\ links' = [links EXCEPT ![l].state = "consumed"]
                   /\ spent' = [spent EXCEPT ![l] = @ + 1]
      BY <2>7 DEF Consumable, Live, Consume
    <3>2. CASE l \in Links
      BY <3>1, <3>2
    <3>3. CASE l \notin Links
      BY <3>1, <3>3
    <3> QED BY <3>2, <3>3
  <2> QED BY <2>1, <2>2, <2>3, <2>4, <2>5, <2>6, <2>7, StepLinks
<1>2. CASE ~(\E r \in Requests : BeginAny(r) \/ Step(r))
  <2>1. UNCHANGED spent /\ (links' = links \/ \E l \in Links : LinkExpires(l) \/ LinkAges(l))
    BY <1>2, Outside
  <2>2. CASE links' = links
    BY <2>1, <2>2
  <2>3. CASE \E l \in Links : LinkExpires(l) \/ LinkAges(l)
    <3>1. PICK l \in Links : \/ links' = [links EXCEPT ![l].expired = TRUE]
                             \/ links' = [links EXCEPT ![l].old = TRUE]
      BY <2>3 DEF LinkExpires, LinkAges
    <3>2. CASE links' = [links EXCEPT ![l].expired = TRUE]
      BY <2>1, <3>2
    <3>3. CASE links' = [links EXCEPT ![l].old = TRUE]
      BY <2>1, <3>3
    <3> QED BY <3>1, <3>2, <3>3
  <2> QED BY <2>1, <2>2, <2>3
<1> QED BY <1>1, <1>2

LEMMA LinkInit == Init => LinkInv
BY DEF Init, LinkInv

\* A link that was used, revoked or cleaned away never deletes anything again,
\* whichever cookies still confirm it and whoever submits them together.
THEOREM LinksSpentOnce == Spec => SpentOnce
<1>1. LinkInv /\ [Next]_vars =>
        LinkInv' /\ [\A l \in Links : links[l].state \in {"consumed", "revoked", "deleted"} =>
                       spent'[l] = spent[l] /\ links'[l].state \in {links[l].state, "deleted"}]_vars
  BY LinkStep DEF LinkKept
<1> QED BY <1>1, LinkInit, PTL DEF Spec, SpentOnce

-----------------------------------------------------------------------------
(* Listeners.                                                              *)

\* An upload that announces its item has offered it to those it went through.
Telling(r) ==
  pc[r] = "emit" /\ loc[r].next = "up_touch" =>
    /\ loc[r].heard \in 0 .. 3 /\ loc[r].events \in {0, 1}
    /\ \A k \in {1, 2, 3} : k <= loc[r].heard \/ loc[r].events = 0 => <<k, loc[r].item>> \in told

AllTold(i) == \A k \in {1, 2, 3} : <<k, i>> \in told

TellInv ==
  /\ \A r \in Requests : Telling(r)
  /\ \A i \in DOMAIN pos : AllTold(i) \/ \E r \in Requests : /\ pc[r] = "emit" /\ loc[r].item = i
                                                          /\ loc[r].next = "up_touch"

LEMMA StepItems ==
  ASSUME NEW r \in Requests, BeginAny(r) \/ Step(r)
  PROVE  DOMAIN pos' \subseteq DOMAIN pos \/ Insert(r)
<1> USE DEF sameRows, rowVars, Reads
<1>1. CASE BeginAny(r)
  BY <1>1 DEF BeginAny, BeginUpload, BeginSubmit, Begin
<1>2. CASE FindToUpload(r) \/ CountItems(r) \/ PutObject(r) \/ Place(r) \/ UndoObject(r)
  BY <1>2 DEF FindToUpload, CountItems, PutObject, Place, UndoObject
<1>3. CASE TouchAlbum(r) \/ GiveLink(r)
  BY <1>3 DEF TouchAlbum, GiveLink
<1>4. CASE FindToReorder(r) \/ ListToReorder(r) \/ Move(r) \/ ReadBack(r) \/ SaveAlbum(r)
  BY <1>4 DEF FindToReorder, ListToReorder, Move, ReadBack, SaveAlbum
<1>5. CASE CommitMoves(r) \/ CommitSettings(r)
  BY <1>5 DEF CommitMoves, CommitSettings, Commit, Seen
<1>6. CASE FindToDelete(r) \/ ListToDelete(r) \/ DeleteRows(r) \/ DeleteKey(r)
  BY <1>6 DEF FindToDelete, ListToDelete, DeleteRows, DeleteKey, DropAlbum, NoRows
<1>7. CASE CheckLink(r) \/ SetCookie(r) \/ ConsumeLink(r) \/ ReadUser(r) \/ Revoke(r) \/ WriteUser(r)
  BY <1>7 DEF CheckLink, SetCookie, ConsumeLink, ReadUser, Revoke, WriteUser
<1>8. CASE ReadSettings(r) \/ SetOne(r) \/ PruneLinks(r)
  BY <1>8 DEF ReadSettings, SetOne, PruneLinks
<1>9. CASE (\E raised \in BOOLEAN : Hear(r, raised)) \/ Heard(r) \/ Announced(r) \/ Deadlock(r)
  BY <1>9 DEF Hear, Heard, Announced, Deadlock
<1> QED BY <1>1, <1>2, <1>3, <1>4, <1>5, <1>6, <1>7, <1>8, <1>9 DEF Step

\* Only Hear tells anybody; only Insert begins to tell of an upload.
LEMMA StepTold ==
  ASSUME PlaceInv, NEW r \in Requests, BeginAny(r) \/ Step(r)
  PROVE  \/ Insert(r) /\ UNCHANGED told
         \/ \E raised \in BOOLEAN : Hear(r, raised)
         \/ Heard(r) /\ UNCHANGED told
         \/ /\ UNCHANGED told
            /\ pc[r] = "emit" => loc[r].events = 0
            /\ pc'[r] = "emit" => loc'[r].next # "up_touch"
<1> USE DEF sameDesk, Reads
<1> DEFINE Other == /\ UNCHANGED told
                    /\ pc[r] = "emit" => loc[r].events = 0
                    /\ pc'[r] = "emit" => loc'[r].next # "up_touch"
<1>1. ASSUME NEW label, NEW l, Go(r, label, l), label # "emit" PROVE pc'[r] # "emit"
  BY <1>1, GoFacts
<1>2. ASSUME NEW label, To(r, label), label # "emit" PROVE pc'[r] # "emit"
  BY <1>1, <1>2 DEF To
<1>3. ASSUME Done(r) PROVE pc'[r] # "emit"
  BY <1>1, <1>3 DEF Done
<1>4. ASSUME NEW n, NEW label, label # "up_touch", Announce(r, n, label) PROVE loc'[r].next # "up_touch"
  <2> DEFINE l == [loc[r] EXCEPT !.events = n, !.heard = 0, !.next = label]
  <2>1. l.next = label
    BY DEF PlaceInv, Record
  <2>2. loc'[r] = l
    BY <1>4, GoFacts DEF Announce
  <2> QED BY <1>4, <2>1, <2>2
<1>5. ASSUME NextFile(r) PROVE pc'[r] # "emit"
  BY <1>1, <1>3, <1>5 DEF NextFile
<1>6. CASE BeginAny(r)
  <2>1. pc[r] = "idle" /\ UNCHANGED told /\ \E label, l : label # "emit" /\ Go(r, label, l)
    BY <1>6 DEF BeginAny, BeginUpload, BeginSubmit, Begin
  <2> QED BY <1>1, <2>1
<1>7. CASE FindToUpload(r) \/ CountItems(r) \/ PutObject(r) \/ Place(r) \/ UndoObject(r)
  BY <1>1, <1>2, <1>3, <1>7 DEF FindToUpload, CountItems, PutObject, Place, UndoObject
<1>8. CASE TouchAlbum(r) \/ GiveLink(r)
  BY <1>2, <1>3, <1>5, <1>8 DEF TouchAlbum, GiveLink
<1>9. CASE FindToReorder(r) \/ ListToReorder(r) \/ Move(r) \/ ReadBack(r)
  BY <1>1, <1>2, <1>3, <1>9 DEF FindToReorder, ListToReorder, Move, ReadBack
<1>10. CASE CommitMoves(r) \/ SaveAlbum(r)
  BY <1>1, <1>2, <1>3, <1>4, <1>10 DEF CommitMoves, SaveAlbum
<1>11. CASE FindToDelete(r) \/ ListToDelete(r) \/ DeleteRows(r) \/ DeleteKey(r)
  BY <1>1, <1>2, <1>3, <1>4, <1>11 DEF FindToDelete, ListToDelete, DeleteRows, DeleteKey
<1>12. CASE CheckLink(r) \/ SetCookie(r) \/ ConsumeLink(r)
  BY <1>2, <1>3, <1>12 DEF CheckLink, SetCookie, ConsumeLink
<1>13. CASE ReadUser(r) \/ Revoke(r) \/ WriteUser(r)
  BY <1>2, <1>3, <1>4, <1>13 DEF ReadUser, Revoke, WriteUser
<1>14. CASE ReadSettings(r) \/ SetOne(r) \/ PruneLinks(r)
  BY <1>1, <1>3, <1>14 DEF ReadSettings, SetOne, PruneLinks
<1>15. CASE CommitSettings(r)
  BY <1>4, <1>15 DEF CommitSettings
<1>16. CASE Announced(r)
  BY <1>2, <1>3, <1>16 DEF Announced, PlaceInv, Nexts
<1>17. CASE Deadlock(r)
  BY <1>3, <1>17 DEF Deadlock, Wants
<1>18. CASE Heard(r)
  BY <1>18 DEF Heard
<1>19. CASE Insert(r)
  BY <1>19 DEF Insert
<1> QED BY <1>6, <1>7, <1>8, <1>9, <1>10, <1>11, <1>12, <1>13, <1>14, <1>15, <1>16, <1>17, <1>18,
           <1>19 DEF Step

\* r's own step; the others keep what they told.
LEMMA TellKept ==
  ASSUME PlaceInv, TellInv, NEW r \in Requests, Others(r), told \subseteq told',
         Telling(r)',
         \A i \in DOMAIN pos' : \/ i \in DOMAIN pos
                                \/ pc'[r] = "emit" /\ loc'[r].item = i /\ loc'[r].next = "up_touch",
         pc[r] = "emit" /\ loc[r].next = "up_touch" =>
           \/ \A k \in {1, 2, 3} : <<k, loc[r].item>> \in told'
           \/ pc'[r] = "emit" /\ loc'[r].item = loc[r].item /\ loc'[r].next = "up_touch"
  PROVE  TellInv'
<1>1. ASSUME NEW s \in Requests PROVE Telling(s)'
  <2>1. CASE s = r
    BY <2>1
  <2>2. CASE s # r
    BY <2>2 DEF Others, TellInv, Telling
  <2> QED BY <2>1, <2>2
<1>2. ASSUME NEW i \in DOMAIN pos'
      PROVE  AllTold(i)' \/ \E s \in Requests : /\ pc'[s] = "emit" /\ loc'[s].item = i
                                                /\ loc'[s].next = "up_touch"
  <2>1. CASE i \notin DOMAIN pos
    BY <1>2, <2>1
  <2>2. CASE i \in DOMAIN pos /\ AllTold(i)
    BY <2>2 DEF AllTold
  <2>3. CASE \E s \in Requests : pc[s] = "emit" /\ loc[s].item = i /\ loc[s].next = "up_touch"
    <3>1. PICK s \in Requests : pc[s] = "emit" /\ loc[s].item = i /\ loc[s].next = "up_touch"
      BY <2>3
    <3>2. CASE s = r
      BY <3>1, <3>2 DEF AllTold
    <3>3. CASE s # r
      BY <3>1, <3>3 DEF Others
    <3> QED BY <3>2, <3>3
  <2> QED BY <2>1, <2>2, <2>3 DEF TellInv
<1> QED BY <1>1, <1>2 DEF TellInv

LEMMA TellStep == PlaceInv /\ TellInv /\ [Next]_vars => TellInv'
<1> SUFFICES ASSUME PlaceInv, TellInv, [Next]_vars PROVE TellInv'
  OBVIOUS
<1>1. CASE \E r \in Requests : BeginAny(r) \/ Step(r)
  <2>1. PICK r \in Requests : BeginAny(r) \/ Step(r)
    BY <1>1
  <2>2. Others(r) /\ (DOMAIN pos' \subseteq DOMAIN pos \/ Insert(r))
    BY <2>1, BeginLegal, StepLegal, StepItems, GoFacts DEF Steps
  <2>3. Telling(r) /\ Record(loc[r])
    BY DEF TellInv, PlaceInv
  <2>4. CASE Insert(r) /\ UNCHANGED told
    <3> DEFINE l == [loc[r] EXCEPT !.events = 1, !.heard = 0, !.next = "up_touch"]
    <3>1. l.events = 1 /\ l.heard = 0 /\ l.next = "up_touch" /\ l.item = loc[r].item
      BY <2>3 DEF Record
    <3>2. pc'[r] = "emit" /\ loc'[r] = l /\ pc[r] = "up_insert"
      BY <2>4, GoFacts DEF Insert, Announce
    <3>3. DOMAIN pos' = DOMAIN pos \cup {loc[r].item}
      BY <2>4 DEF Insert, InsertItem, With
    <3>4. Telling(r)'
      BY <3>1, <3>2 DEF Telling
    <3> QED BY <2>2, <2>4, <3>1, <3>2, <3>3, <3>4, TellKept
  <2>5. CASE \E raised \in BOOLEAN : Hear(r, raised)
    <3> DEFINE l == [loc[r] EXCEPT !.heard = @ + 1]
    <3>1. /\ l.events = loc[r].events /\ l.heard = loc[r].heard + 1 /\ l.next = loc[r].next
          /\ l.item = loc[r].item
      BY <2>3 DEF Record
    <3>2. /\ pc[r] = "emit" /\ pc'[r] = "emit" /\ loc'[r] = l /\ UNCHANGED pos
          /\ loc[r].events > 0 /\ loc[r].heard < Listeners(r) /\ Offer(r)
      BY <2>5, GoFacts DEF Hear, rowVars
    <3>3. told \subseteq told'
      BY <3>2 DEF Offer
    <3>4. Telling(r)'
      <4>1. SUFFICES ASSUME loc[r].next = "up_touch"
                     PROVE  /\ l.heard \in 0 .. 3 /\ l.events \in {0, 1}
                            /\ \A k \in {1, 2, 3} : k <= l.heard \/ l.events = 0 => <<k, l.item>> \in told'
        BY <3>1, <3>2 DEF Telling
      <4>2. told' = told \cup {<<loc[r].heard + 1, loc[r].item>>} /\ loc[r].heard < 3
        BY <3>2, <4>1 DEF Offer, Listeners
      <4> QED BY <2>3, <3>1, <3>2, <4>1, <4>2 DEF Telling
    <3> QED BY <2>2, <3>1, <3>2, <3>3, <3>4, TellKept
  <2>6. CASE Heard(r) /\ UNCHANGED told
    <3> DEFINE l == [loc[r] EXCEPT !.events = @ - 1, !.heard = 0]
    <3>1. /\ l.events = loc[r].events - 1 /\ l.heard = 0 /\ l.next = loc[r].next
          /\ l.item = loc[r].item
      BY <2>3 DEF Record
    <3>2. /\ pc[r] = "emit" /\ pc'[r] = "emit" /\ loc'[r] = l /\ UNCHANGED pos
          /\ loc[r].events > 0 /\ loc[r].heard = Listeners(r)
      BY <2>6, GoFacts DEF Heard, Reads, sameRows, rowVars
    <3>3. Telling(r)'
      BY <2>3, <2>6, <3>1, <3>2 DEF Telling, Listeners
    <3> QED BY <2>2, <2>6, <3>1, <3>2, <3>3, TellKept
  <2>7. CASE /\ UNCHANGED told
             /\ pc[r] = "emit" => loc[r].events = 0
             /\ pc'[r] = "emit" => loc'[r].next # "up_touch"
    <3>1. Telling(r)'
      BY <2>7 DEF Telling
    <3>2. pc[r] = "emit" /\ loc[r].next = "up_touch" =>
                 \A k \in {1, 2, 3} : <<k, loc[r].item>> \in told'
      BY <2>3, <2>7 DEF Telling
    <3>3. CASE DOMAIN pos' \subseteq DOMAIN pos
      BY <2>2, <2>7, <3>1, <3>2, <3>3, TellKept
    <3>4. CASE Insert(r)
      BY <2>4, <2>7, <3>4
    <3> QED BY <2>2, <3>3, <3>4
  <2> QED BY <2>1, <2>4, <2>5, <2>6, <2>7, StepTold
<1>2. CASE ~(\E r \in Requests : BeginAny(r) \/ Step(r))
  BY <1>2, Outside DEF TellInv, Telling, AllTold
<1> QED BY <1>1, <1>2

LEMMA TellInit == Init => TellInv
BY DEF Init, TellInv, Telling, AllTold

\* An item of the album was offered to both audit trails and to the thumbnail
\* queue, or its upload is still at it: a listener that fails stops no other.
THEOREM ListenersTold == Spec => []EveryListenerTold
<1>1. TellInv => EveryListenerTold
  <2>1. ASSUME NEW i, AllTold(i) PROVE {1, 2, 3} \X {i} \subseteq told
    BY <2>1 DEF AllTold
  <2> QED BY <2>1 DEF TellInv, EveryListenerTold
<1> QED BY <1>1, PlaceInit, PlaceStep, TellInit, TellStep, PTL DEF Spec

-----------------------------------------------------------------------------
(* Room in the album.                                                      *)

\* Past the comparison with the limit, and not yet in the album.
Underway == {"up_put", "up_lock", "up_insert"}
Uploading == {r \in Requests : pc[r] \in Underway}

RoomInv ==
  /\ IsFiniteSet(DOMAIN pos)
  /\ Cardinality(DOMAIN pos) + Cardinality(Uploading) <= MaxItems + Cardinality(Requests) - 1

LEMMA StepUnderway ==
  ASSUME PlaceInv, NEW r \in Requests, BeginAny(r) \/ Step(r), pc'[r] \in Underway,
         Cardinality(DOMAIN pos) \in Nat
  PROVE  pc[r] \in Underway \/ (Cardinality(DOMAIN pos) < MaxItems /\ UNCHANGED pos)
<1> USE DEF Underway
<1>1. ASSUME NEW label, NEW l, Go(r, label, l), label \notin Underway PROVE FALSE
  BY <1>1, GoFacts
<1>2. ASSUME NEW label, To(r, label), label \notin Underway PROVE FALSE
  BY <1>1, <1>2 DEF To
<1>3. ASSUME Done(r) PROVE FALSE
  BY <1>1, <1>3 DEF Done
<1>4. ASSUME NEW n, NEW label, Announce(r, n, label) PROVE FALSE
  BY <1>1, <1>4 DEF Announce
<1>5. ASSUME NextFile(r) PROVE FALSE
  BY <1>1, <1>3, <1>5 DEF NextFile
<1>6. CASE BeginAny(r)
  <2>1. \E label, l : label \notin Underway /\ Go(r, label, l)
    BY <1>6 DEF BeginAny, BeginUpload, BeginSubmit, Begin
  <2> QED BY <1>1, <2>1
<1>7. CASE CountItems(r)
  <2>1. ~(Cardinality(DOMAIN pos) >= MaxItems)
    BY <1>3, <1>7 DEF CountItems
  <2>2. UNCHANGED pos
    BY <1>7 DEF CountItems, Reads, sameRows, rowVars
  <2>3. Cardinality(DOMAIN pos) < MaxItems
    BY <2>1, DeskAssumption
  <2> QED BY <2>2, <2>3
<1>8. CASE FindToUpload(r) \/ PutObject(r) \/ Place(r) \/ UndoObject(r)
  BY <1>2, <1>3, <1>8 DEF FindToUpload, PutObject, Place, UndoObject
<1>9. CASE Insert(r) \/ TouchAlbum(r) \/ GiveLink(r)
  BY <1>2, <1>3, <1>4, <1>5, <1>9 DEF Insert, TouchAlbum, GiveLink
<1>10. CASE FindToReorder(r) \/ ListToReorder(r) \/ Move(r) \/ ReadBack(r) \/ CommitMoves(r) \/ SaveAlbum(r)
  <2>1. CASE FindToReorder(r) \/ SaveAlbum(r)
    BY <1>2, <1>3, <1>4, <2>1 DEF FindToReorder, SaveAlbum
  <2>2. CASE ListToReorder(r)
    <3>1. Done(r) \/ \E l : Go(r, "ro_write", l)
      BY <2>2 DEF ListToReorder
    <3> QED BY <1>1, <1>3, <3>1
  <2>3. CASE Move(r) \/ ReadBack(r)
    <3>1. \E l : Go(r, "ro_write", l) \/ Go(r, "ro_commit", l)
      BY <2>3 DEF Move, ReadBack
    <3> QED BY <1>1, <3>1
  <2>4. CASE CommitMoves(r)
    BY <1>1, <1>2, <2>4 DEF CommitMoves
  <2> QED BY <1>10, <2>1, <2>2, <2>3, <2>4
<1>11. CASE FindToDelete(r) \/ ListToDelete(r) \/ DeleteRows(r) \/ DeleteKey(r)
  BY <1>1, <1>2, <1>3, <1>4, <1>11 DEF FindToDelete, ListToDelete, DeleteRows, DeleteKey
<1>12. CASE CheckLink(r) \/ SetCookie(r) \/ ConsumeLink(r) \/ ReadUser(r) \/ Revoke(r) \/ WriteUser(r)
  BY <1>2, <1>3, <1>4, <1>12 DEF CheckLink, SetCookie, ConsumeLink, ReadUser, Revoke, WriteUser
<1>13. CASE ReadSettings(r) \/ SetOne(r) \/ CommitSettings(r) \/ PruneLinks(r)
  <2>1. CASE ReadSettings(r) \/ SetOne(r)
    <3>1. Done(r) \/ \E l : Go(r, "cf_set", l)
      BY <2>1 DEF ReadSettings, SetOne
    <3> QED BY <1>1, <1>3, <3>1
  <2>2. CASE CommitSettings(r)
    BY <1>4, <2>2 DEF CommitSettings
  <2>3. CASE PruneLinks(r)
    BY <1>1, <1>3, <2>3 DEF PruneLinks
  <2> QED BY <1>13, <2>1, <2>2, <2>3
<1>14. CASE (\E raised \in BOOLEAN : Hear(r, raised)) \/ Heard(r) \/ Announced(r) \/ Deadlock(r)
  BY <1>1, <1>2, <1>3, <1>14 DEF Hear, Heard, Announced, Deadlock, PlaceInv, Nexts
<1> QED BY <1>6, <1>7, <1>8, <1>9, <1>10, <1>11, <1>12, <1>13, <1>14 DEF Step

LEMMA RoomStep == PlaceInv /\ RoomInv /\ [Next]_vars => RoomInv'
<1> SUFFICES ASSUME PlaceInv, RoomInv, [Next]_vars PROVE RoomInv'
  OBVIOUS
<1>1. /\ IsFiniteSet(DOMAIN pos) /\ IsFiniteSet(Uploading) /\ IsFiniteSet(Requests)
      /\ Cardinality(DOMAIN pos) \in Nat /\ Cardinality(Uploading) \in Nat
      /\ Cardinality(Requests) \in Nat /\ MaxItems \in Nat
  BY RowsAssumption, DeskAssumption, FS_Subset, FS_CardinalityType DEF RoomInv, Uploading
<1>2. CASE \E r \in Requests : BeginAny(r) \/ Step(r)
  <2>1. PICK r \in Requests : BeginAny(r) \/ Step(r)
    BY <1>2
  <2>2. Others(r)
    BY <2>1, BeginLegal, StepLegal, GoFacts DEF Steps
  <2>3. CASE Insert(r)
    <3>1. DOMAIN pos' = DOMAIN pos \cup {loc[r].item} /\ pc[r] = "up_insert" /\ pc'[r] = "emit"
      BY <2>3, GoFacts DEF Insert, InsertItem, With, Announce
    <3>2. Uploading' = Uploading \ {r} /\ r \in Uploading
      BY <2>2, <3>1 DEF Uploading, Underway, Others
    <3>3. IsFiniteSet(DOMAIN pos') /\ Cardinality(DOMAIN pos') <= Cardinality(DOMAIN pos) + 1
      <4>1. PICK x : x = loc[r].item
        OBVIOUS
      <4>2. /\ IsFiniteSet(DOMAIN pos \cup {x})
            /\ Cardinality(DOMAIN pos \cup {x}) =
                 IF x \in DOMAIN pos THEN Cardinality(DOMAIN pos) ELSE Cardinality(DOMAIN pos) + 1
        BY <1>1, FS_AddElement
      <4>3. DOMAIN pos' = DOMAIN pos \cup {x}
        BY <3>1, <4>1
      <4> QED BY <1>1, <4>2, <4>3
    <3>4. Cardinality(Uploading') = Cardinality(Uploading) - 1
      BY <1>1, <3>2, FS_RemoveElement
    <3>5. Cardinality(DOMAIN pos') \in Nat
      BY <3>3, FS_CardinalityType
    <3> QED BY <1>1, <3>3, <3>4, <3>5 DEF RoomInv
  <2>4. CASE Cardinality(DOMAIN pos) < MaxItems /\ UNCHANGED pos
    <3>1. Uploading' \in SUBSET Requests
      BY DEF Uploading
    <3>2. Cardinality(Uploading') <= Cardinality(Requests) /\ Cardinality(Uploading') \in Nat
      BY <1>1, <3>1, FS_Subset, FS_CardinalityType
    <3> QED BY <1>1, <2>4, <3>2 DEF RoomInv
  <2>5. CASE DOMAIN pos' \subseteq DOMAIN pos /\ (pc'[r] \in Underway => pc[r] \in Underway)
    <3>1. Uploading' \in SUBSET Uploading
      BY <2>2, <2>5 DEF Uploading, Others
    <3>2. /\ IsFiniteSet(DOMAIN pos') /\ Cardinality(DOMAIN pos') <= Cardinality(DOMAIN pos)
          /\ Cardinality(DOMAIN pos') \in Nat
      BY <1>1, <2>5, FS_Subset, FS_CardinalityType
    <3>3. Cardinality(Uploading') <= Cardinality(Uploading) /\ Cardinality(Uploading') \in Nat
      BY <1>1, <3>1, FS_Subset, FS_CardinalityType
    <3> QED BY <1>1, <3>2, <3>3 DEF RoomInv
  <2> QED BY <1>1, <2>1, <2>3, <2>4, <2>5, StepItems, StepUnderway
<1>3. CASE ~(\E r \in Requests : BeginAny(r) \/ Step(r))
  BY <1>3, Outside DEF RoomInv, Uploading
<1> QED BY <1>2, <1>3

LEMMA RoomInit == Init => RoomInv
<1> SUFFICES ASSUME Init PROVE RoomInv
  OBVIOUS
<1>1. Uploading = {} /\ DOMAIN pos = {first[k] : k \in 1 .. Begins}
  BY DEF Init, Uploading, Underway
<1>2. Begins \in Nat /\ Begins <= MaxItems /\ MaxItems \in Nat
  <2>1. Cardinality(Items) \in Nat
    BY RowsAssumption, FS_CardinalityType
  <2> QED BY <2>1, DeskAssumption
<1>3. IsFiniteSet(1 .. Begins) /\ Cardinality(1 .. Begins) = Begins
  BY <1>2, FS_Interval
<1>4. [k \in 1 .. Begins |-> first[k]] \in Surjection(1 .. Begins, DOMAIN pos)
  BY <1>1 DEF Surjection
<1>5. IsFiniteSet(DOMAIN pos) /\ Cardinality(DOMAIN pos) <= Begins
  BY <1>3, <1>4, FS_Surjection
<1>6. Cardinality(Uploading) = 0 /\ Cardinality(Requests) >= 1 /\ Cardinality(Requests) \in Nat
  <2>1. Cardinality(Requests) \in Nat /\ Cardinality(Requests) # 0
    BY RowsAssumption, FS_CardinalityType, FS_EmptySet
  <2> QED BY <1>1, <2>1, FS_EmptySet
<1>7. Cardinality(DOMAIN pos) \in Nat
  BY <1>5, FS_CardinalityType
<1> QED BY <1>2, <1>5, <1>6, <1>7 DEF RoomInv

\* The item limit is checked against a count that other uploads make stale,
\* but only those running at the same time can pass it together.
THEOREM RoomKept == Spec => []ItemsBounded
<1>1. PlaceInv /\ RoomInv => ItemsBounded
  <2>1. SUFFICES ASSUME RoomInv PROVE Cardinality(DOMAIN pos) <= MaxItems + Cardinality(Requests) - 1
    BY DEF ItemsBounded
  <2>2. Uploading \in SUBSET Requests
    BY DEF Uploading
  <2>3. Cardinality(Uploading) \in Nat /\ Cardinality(DOMAIN pos) \in Nat /\ Cardinality(Requests) \in Nat
    BY <2>1, <2>2, RowsAssumption, FS_Subset, FS_CardinalityType DEF RoomInv
  <2> QED BY <2>1, <2>3, DeskAssumption DEF RoomInv
<1> QED BY <1>1, PlaceInit, PlaceStep, RoomInit, RoomStep, PTL DEF Spec

-----------------------------------------------------------------------------
(* Settings.                                                               *)

\* Where a transaction may hold rows.
Holding == {"ro_write", "ro_commit", "cf_set", "up_insert"}

\* Setting c[1] has c[2] once request r commits, or had it when r began.
Settled(r, c) ==
  /\ ~Specs[c[1]].locked
  /\ \/ loc[r].seen[c[1]] = <<c[2], TRUE>>
     \/ c[1] \in DOMAIN tx[r] /\ tx[r][c[1]] = c[2]

\* n settings of its patch are settled, the others are to do, and the
\* transaction holds nothing that is not of the patch.
Patched(r, n) ==
  /\ loc[r].list \in Patches /\ n \in 0 .. Len(loc[r].list)
  /\ loc[r].todo \in Seq(Keys \X Values) /\ Len(loc[r].todo) = Len(loc[r].list) - n
  /\ \A k \in 1 .. Len(loc[r].list) - n : loc[r].todo[k] = loc[r].list[n + k]
  /\ \A k \in 1 .. n : Settled(r, loc[r].list[k])
  /\ \A x \in DOMAIN tx[r] : \E k \in 1 .. n : loc[r].list[k] = <<x, tx[r][x]>>

HoldInv(r) ==
  /\ pc[r] \notin Holding => DOMAIN tx[r] = {}
  /\ pc[r] \in {"ro_write", "ro_commit"} => DOMAIN tx[r] \subseteq Items
  /\ pc[r] \in {"up_lock", "up_insert"} => loc[r].item \in Items
  /\ pc[r] = "cf_read" => loc[r].todo \in Patches
  /\ pc[r] = "cf_set" => \E n \in Nat : Patched(r, n)

ConfInv ==
  /\ config \in [Keys -> {config[k] : k \in Keys}]
  /\ tx \in [Requests -> {tx[r] : r \in Requests}]
  /\ DOMAIN pos \subseteq Items
  /\ \A r \in Requests : HoldInv(r)

LEMMA ConfKept ==
  ASSUME ConfInv, NEW r \in Requests, Others(r),
         tx' \in [Requests -> {tx'[s] : s \in Requests}],
         \A s \in Requests \ {r} : tx'[s] = tx[s],
         config' \in [Keys -> {config'[k] : k \in Keys}],
         DOMAIN pos' \subseteq Items, HoldInv(r)'
  PROVE  ConfInv'
<1>1. ASSUME NEW s \in Requests, s # r PROVE HoldInv(s)'
  <2>1. pc'[s] = pc[s] /\ loc'[s] = loc[s] /\ tx'[s] = tx[s] /\ HoldInv(s)
    BY <1>1 DEF Others, ConfInv
  <2>2. \A n : Patched(s, n) => Patched(s, n)'
    BY <2>1 DEF Patched, Settled
  <2> QED BY <2>1, <2>2 DEF HoldInv
<1> QED BY <1>1 DEF ConfInv

\* Steps that neither hold rows nor come to.
LEMMA StepPlain ==
  ASSUME PlaceInv, NEW r \in Requests,
         \/ FindToUpload(r) \/ CountItems(r) \/ UndoObject(r) \/ TouchAlbum(r) \/ GiveLink(r)
         \/ FindToReorder(r) \/ SaveAlbum(r)
         \/ FindToDelete(r) \/ ListToDelete(r) \/ DeleteRows(r) \/ DeleteKey(r)
         \/ CheckLink(r) \/ SetCookie(r) \/ ConsumeLink(r)
         \/ ReadUser(r) \/ Revoke(r) \/ WriteUser(r) \/ PruneLinks(r)
         \/ (\E raised \in BOOLEAN : Hear(r, raised)) \/ Heard(r) \/ Announced(r)
  PROVE  /\ pc[r] \notin Holding
         /\ pc'[r] \notin Holding \cup {"cf_read", "up_lock"}
         /\ UNCHANGED <<tx, config>>
<1> DEFINE Away == pc'[r] \notin Holding \cup {"cf_read", "up_lock"}
<1> USE DEF Holding, Reads, sameRows, rowVars
<1>1. ASSUME NEW label, NEW l, Go(r, label, l), label \notin Holding \cup {"cf_read", "up_lock"} PROVE Away
  BY <1>1, GoFacts
<1>2. ASSUME NEW label, To(r, label), label \notin Holding \cup {"cf_read", "up_lock"} PROVE Away
  BY <1>1, <1>2 DEF To
<1>3. ASSUME Done(r) PROVE Away
  BY <1>1, <1>3 DEF Done
<1>4. ASSUME NEW n, NEW label, Announce(r, n, label) PROVE Away
  BY <1>1, <1>4 DEF Announce
<1>5. ASSUME NextFile(r) PROVE Away
  BY <1>1, <1>3, <1>5 DEF NextFile
<1> HIDE DEF Away
<1>6. CASE FindToUpload(r) \/ CountItems(r) \/ UndoObject(r)
  <2>1. Away
    BY <1>2, <1>3, <1>6 DEF FindToUpload, CountItems, UndoObject
  <2> QED BY <1>6, <2>1 DEF FindToUpload, CountItems, UndoObject, Away
<1>7. CASE TouchAlbum(r) \/ GiveLink(r)
  <2>1. Away
    BY <1>2, <1>3, <1>5, <1>7 DEF TouchAlbum, GiveLink
  <2> QED BY <1>7, <2>1 DEF TouchAlbum, GiveLink, Away
<1>8. CASE FindToReorder(r) \/ SaveAlbum(r)
  <2>1. Away
    BY <1>2, <1>3, <1>4, <1>8 DEF FindToReorder, SaveAlbum
  <2> QED BY <1>8, <2>1 DEF FindToReorder, SaveAlbum, Away
<1>9. CASE FindToDelete(r) \/ DeleteRows(r)
  <2>1. Away
    BY <1>2, <1>3, <1>9 DEF FindToDelete, DeleteRows
  <2> QED BY <1>9, <2>1 DEF FindToDelete, DeleteRows, Away
<1>10. CASE ListToDelete(r) \/ DeleteKey(r)
  <2>1. (\E l : Go(r, "del_row", l) \/ Go(r, "del_keys", l)) \/ Announce(r, 1, "idle")
    BY <1>10 DEF ListToDelete, DeleteKey
  <2>2. Away
    BY <1>1, <1>4, <2>1
  <2> QED BY <1>10, <2>2 DEF ListToDelete, DeleteKey, Away
<1>11. CASE CheckLink(r) \/ SetCookie(r) \/ ConsumeLink(r)
  <2>1. Away
    BY <1>2, <1>3, <1>11 DEF CheckLink, SetCookie, ConsumeLink
  <2> QED BY <1>11, <2>1 DEF CheckLink, SetCookie, ConsumeLink, Away
<1>12. CASE ReadUser(r) \/ Revoke(r) \/ WriteUser(r)
  <2>1. Away
    BY <1>2, <1>3, <1>4, <1>12 DEF ReadUser, Revoke, WriteUser
  <2> QED BY <1>12, <2>1 DEF ReadUser, Revoke, WriteUser, Away
<1>13. CASE PruneLinks(r)
  <2>1. Done(r) \/ \E l : Go(r, "pr_links", l)
    BY <1>13 DEF PruneLinks
  <2>2. Away
    BY <1>1, <1>3, <2>1
  <2> QED BY <1>13, <2>2 DEF PruneLinks, Away
<1>14. CASE (\E raised \in BOOLEAN : Hear(r, raised)) \/ Heard(r)
  <2>1. \E l : Go(r, "emit", l)
    BY <1>14 DEF Hear, Heard
  <2>2. Away
    BY <1>1, <2>1
  <2> QED BY <1>14, <2>2 DEF Hear, Heard, Away
<1>15. CASE Announced(r)
  <2>1. Away
    BY <1>2, <1>3, <1>15 DEF Announced, PlaceInv, Nexts
  <2> QED BY <1>15, <2>1 DEF Announced, Away
<1> QED BY <1>6, <1>7, <1>8, <1>9, <1>10, <1>11, <1>12, <1>13, <1>14, <1>15

\* The transaction of r is t after the step, the others are what they were.
TxOf(r, t) ==
  /\ tx' \in [Requests -> {tx'[s] : s \in Requests}]
  /\ tx'[r] = t
  /\ \A s \in Requests \ {r} : tx'[s] = tx[s]

LEMMA TxFacts ==
  ASSUME ConfInv, NEW r \in Requests
  PROVE  /\ UNCHANGED tx => TxOf(r, tx[r])
         /\ Rollback(r) => TxOf(r, NoRows)
         /\ \A x, v : Write(r, x, v) => TxOf(r, With(tx[r], x, v))
<1>1. ASSUME NEW t, tx' = [tx EXCEPT ![r] = t] PROVE TxOf(r, t)
  <2>1. /\ \A s \in Requests : tx'[s] = IF s = r THEN t ELSE tx[s]
        /\ tx' = [s \in Requests |-> IF s = r THEN t ELSE tx[s]]
    BY <1>1 DEF ConfInv
  <2> QED BY <2>1 DEF TxOf
<1>2. UNCHANGED tx => TxOf(r, tx[r])
  BY DEF TxOf, ConfInv
<1>3. Rollback(r) => TxOf(r, NoRows)
  BY <1>1 DEF Rollback
<1>4. \A x, v : Write(r, x, v) => TxOf(r, With(tx[r], x, v))
  <2> TAKE x, v
  <2>1. Write(r, x, v) => tx' = [tx EXCEPT ![r] = With(tx[r], x, v)]
    BY DEF Write
  <2> QED BY <1>1, <2>1
<1> QED BY <1>2, <1>3, <1>4

\* A step of r that leaves the settings alone, and what it owes.
Tidy(r) ==
  /\ UNCHANGED config
  /\ \E t : TxOf(r, t)
  /\ HoldInv(r)'

LEMMA NoRowsEmpty == DOMAIN NoRows = {}
BY DEF NoRows

LEMMA TidyPlain ==
  ASSUME PlaceInv, ConfInv, NEW r \in Requests, pc[r] \notin Holding,
         pc'[r] \notin Holding \cup {"cf_read", "up_lock"}, UNCHANGED <<tx, config>>
  PROVE  Tidy(r)
<1>1. TxOf(r, tx[r])
  BY TxFacts
<1>2. DOMAIN tx'[r] = {}
  BY DEF ConfInv, HoldInv
<1> QED BY <1>1, <1>2 DEF Tidy, HoldInv, Holding

LEMMA TidyBegin ==
  ASSUME PlaceInv, ConfInv, NEW r \in Requests, BeginAny(r)
  PROVE  Tidy(r)
<1> DEFINE Off(label, l) == Begin(r, label, l) /\ label \notin Holding \cup {"up_lock"}
                            /\ (label = "cf_read" => l.todo \in Patches)
<1>1. ASSUME NEW label, NEW l, Off(label, l) PROVE Tidy(r)
  <2>1. pc[r] \notin Holding /\ pc'[r] = label /\ loc'[r] = l /\ UNCHANGED <<tx, config>>
    BY <1>1, GoFacts DEF Begin, rowVars, Holding
  <2>2. TxOf(r, tx[r]) /\ DOMAIN tx'[r] = {}
    BY <2>1, TxFacts DEF ConfInv, HoldInv
  <2> QED BY <1>1, <2>1, <2>2 DEF Tidy, HoldInv, Holding
<1>2. ASSUME NEW label, NEW l, Begin(r, label, l),
             label \notin Holding \cup {"up_lock"}, label # "cf_read"
      PROVE  Tidy(r)
  BY <1>1, <1>2
<1> HIDE DEF Off
<1>3. ASSUME NEW p \in Patches, Begin(r, "cf_read", [Blank EXCEPT !.todo = p]) PROVE Tidy(r)
  <2>1. [Blank EXCEPT !.todo = p].todo = p
    BY DEF Blank
  <2>2. Off("cf_read", [Blank EXCEPT !.todo = p])
    BY <1>3, <2>1 DEF Off, Holding
  <2> QED BY <1>1, <2>2
<1>4. \/ \E p \in Patches : Begin(r, "cf_read", [Blank EXCEPT !.todo = p])
      \/ \E label \in {"up_find", "ro_find", "del_find", "sp_read", "pr_links", "vi_link", "su_consume"} :
           \E l : Begin(r, label, l)
  BY DEF BeginAny, BeginUpload, BeginSubmit
<1> QED BY <1>2, <1>3, <1>4 DEF Holding

LEMMA TidyUpload ==
  ASSUME PlaceInv, ConfInv, NEW r \in Requests, PutObject(r) \/ Place(r) \/ Insert(r)
  PROVE  Tidy(r)
<1> USE DEF sameRows, rowVars
<1>1. CASE PutObject(r)
  <2>1. PICK i : i \in Items /\ Go(r, "up_lock", [loc[r] EXCEPT !.item = i])
    BY <1>1 DEF PutObject
  <2>2. pc'[r] = "up_lock" /\ loc'[r] = [loc[r] EXCEPT !.item = i]
    BY <2>1, GoFacts
  <2>3. loc'[r].item \in Items
    BY <2>1, <2>2 DEF PlaceInv, Record
  <2>4. TxOf(r, tx[r]) /\ DOMAIN tx'[r] = {} /\ UNCHANGED config
    BY <1>1, TxFacts DEF PutObject, ConfInv, HoldInv, Holding
  <2> QED BY <2>2, <2>3, <2>4 DEF Tidy, HoldInv, Holding
<1>2. CASE Place(r)
  <2>1. loc[r].item \in Items /\ DOMAIN tx[r] = {} /\ UNCHANGED config
    BY <1>2 DEF Place, ConfInv, HoldInv, Holding
  <2>2. CASE album = "gone"
    <3>1. pc'[r] = "up_undo" /\ UNCHANGED tx
      BY <1>2, <2>2, GoFacts DEF Place, To
    <3>2. TxOf(r, tx[r])
      BY <3>1, TxFacts
    <3> QED BY <2>1, <3>1, <3>2 DEF Tidy, HoldInv, Holding
  <2>3. CASE album # "gone"
    <3>1. pc'[r] = "up_insert" /\ loc'[r] = loc[r] /\ Write(r, Album, NextPosition)
      BY <1>2, <2>3, GoFacts DEF Place, To
    <3>2. TxOf(r, With(tx[r], Album, NextPosition))
      BY <3>1, TxFacts
    <3> QED BY <2>1, <3>1, <3>2 DEF Tidy, HoldInv, Holding
  <2> QED BY <2>2, <2>3
<1>3. CASE Insert(r)
  <2>1. pc'[r] = "emit" /\ Rollback(r) /\ UNCHANGED config
    BY <1>3, GoFacts DEF Insert, InsertItem, Announce
  <2>2. TxOf(r, NoRows)
    BY <2>1, TxFacts
  <2>3. DOMAIN tx'[r] = {}
    BY <2>2, NoRowsEmpty DEF TxOf
  <2> QED BY <2>1, <2>2, <2>3 DEF Tidy, HoldInv, Holding
<1> QED BY <1>1, <1>2, <1>3

LEMMA TidyReorder ==
  ASSUME PlaceInv, ConfInv, NEW r \in Requests, ListToReorder(r) \/ Move(r) \/ ReadBack(r)
  PROVE  Tidy(r)
<1> USE DEF Reads, sameRows, rowVars
<1>1. CASE ListToReorder(r)
  <2>1. TxOf(r, tx[r]) /\ DOMAIN tx'[r] = {} /\ UNCHANGED config
    BY <1>1, TxFacts DEF ListToReorder, ConfInv, HoldInv, Holding
  <2>2. Done(r) \/ \E l : Go(r, "ro_write", l)
    BY <1>1 DEF ListToReorder
  <2>3. pc'[r] \in {"idle", "ro_write"}
    BY <2>2, GoFacts DEF Done
  <2> QED BY <2>1, <2>3 DEF Tidy, HoldInv, Holding
<1>2. CASE Move(r)
  <2>1. pc'[r] = "ro_write" /\ DOMAIN tx[r] \subseteq Items /\ UNCHANGED config
    BY <1>2, GoFacts DEF Move, ConfInv, HoldInv
  <2>2. PICK i, v : (i \in DOMAIN pos /\ Write(r, i, v)) \/ UNCHANGED tx
    BY <1>2 DEF Move
  <2>3. TxOf(r, tx[r]) \/ (i \in Items /\ TxOf(r, With(tx[r], i, v)))
    BY <2>2, TxFacts DEF ConfInv
  <2>4. (\E t : TxOf(r, t)) /\ DOMAIN tx'[r] \subseteq Items
    <3>1. CASE TxOf(r, tx[r])
      BY <2>1, <3>1 DEF TxOf
    <3>2. CASE i \in Items /\ TxOf(r, With(tx[r], i, v))
      <4>1. tx'[r] = With(tx[r], i, v)
        BY <3>2 DEF TxOf
      <4>2. DOMAIN tx'[r] = DOMAIN tx[r] \cup {i}
        BY <4>1 DEF With
      <4> QED BY <2>1, <3>2, <4>2
    <3> QED BY <2>3, <3>1, <3>2
  <2> QED BY <2>1, <2>4 DEF Tidy, HoldInv, Holding
<1>3. CASE ReadBack(r)
  <2>1. \E l : Go(r, "ro_commit", l)
    BY <1>3 DEF ReadBack
  <2>2. pc'[r] = "ro_commit" /\ DOMAIN tx[r] \subseteq Items /\ UNCHANGED <<tx, config>>
    BY <1>3, <2>1, GoFacts DEF ReadBack, ConfInv, HoldInv
  <2>3. TxOf(r, tx[r])
    BY <2>2, TxFacts
  <2> QED BY <2>2, <2>3 DEF Tidy, HoldInv, Holding
<1> QED BY <1>1, <1>2, <1>3

LEMMA TidyCommit ==
  ASSUME PlaceInv, ConfInv, NEW r \in Requests, CommitMoves(r)
  PROVE  Tidy(r)
<1>1. DOMAIN tx[r] \subseteq Items /\ Commit(r)
  BY DEF CommitMoves, ConfInv, HoldInv
<1>2. config' = config
  <2>1. DOMAIN config = Keys /\ \A k \in Keys : k \notin DOMAIN tx[r]
    BY <1>1, RowsAssumption DEF ConfInv
  <2>2. config' = [k \in Keys |-> config[k]]
    BY <1>1, <2>1 DEF Commit, Seen
  <2> QED BY <2>2 DEF ConfInv
<1>3. TxOf(r, NoRows)
  BY <1>1, TxFacts DEF Commit
<1>4. DOMAIN tx'[r] = {}
  BY <1>3, NoRowsEmpty DEF TxOf
<1>5. (\E l : Go(r, "ro_write", l)) \/ To(r, "ro_save")
  BY DEF CommitMoves
<1>6. pc'[r] \in {"ro_write", "ro_save"}
  BY <1>5, GoFacts DEF To
<1> QED BY <1>2, <1>3, <1>4, <1>6 DEF Tidy, HoldInv, Holding

LEMMA TidyDeadlock ==
  ASSUME PlaceInv, ConfInv, NEW r \in Requests, Deadlock(r)
  PROVE  Tidy(r)
<1>1. TxOf(r, NoRows) /\ pc'[r] = "idle" /\ UNCHANGED config
  BY TxFacts, GoFacts DEF Deadlock, Done
<1>2. DOMAIN tx'[r] = {}
  BY <1>1, NoRowsEmpty DEF TxOf
<1> QED BY <1>1, <1>2 DEF Tidy, HoldInv, Holding

LEMMA TidyRead ==
  ASSUME PlaceInv, ConfInv, NEW r \in Requests, ReadSettings(r)
  PROVE  Tidy(r)
<1>1. PICK p : p = loc[r].todo
  OBVIOUS
<1>2. p \in Patches /\ p \in Seq(Keys \X Values) /\ DOMAIN tx[r] = {} /\ UNCHANGED <<tx, config>>
  BY <1>1, DeskAssumption DEF ReadSettings, ConfInv, HoldInv, Holding, Reads, sameRows, rowVars
<1>3. PICK l : /\ l = [loc[r] EXCEPT !.list = p, !.seen = [k \in Keys |-> Effective(k)]]
               /\ Go(r, "cf_set", l)
  BY <1>1 DEF ReadSettings
<1>4. l.list = p /\ l.todo = p
  BY <1>1, <1>3 DEF PlaceInv, Record
<1>5. pc'[r] = "cf_set" /\ loc'[r].list = p /\ loc'[r].todo = p
  <2>1. pc'[r] = "cf_set" /\ loc'[r] = l
    BY <1>3, GoFacts
  <2> QED BY <1>4, <2>1
<1>6. TxOf(r, tx[r])
  BY <1>2, TxFacts
<1>7. Patched(r, 0)'
  <2>1. Len(p) \in Nat /\ tx'[r] = tx[r]
    BY <1>2
  <2> QED BY <1>2, <1>5, <2>1 DEF Patched
<1>8. HoldInv(r)'
  BY <1>5, <1>7 DEF HoldInv, Holding
<1> QED BY <1>2, <1>6, <1>8 DEF Tidy

\* The next setting of a patch.
LEMMA Upcoming ==
  ASSUME NEW r \in Requests, NEW n \in Nat, Patched(r, n), loc[r].todo # <<>>
  PROVE  LET c == Head(loc[r].todo) rest == Tail(loc[r].todo) list == loc[r].list IN
         /\ n + 1 \in 1 .. Len(list) /\ c = list[n + 1] /\ c \in Keys \X Values
         /\ rest \in Seq(Keys \X Values) /\ Len(rest) = Len(list) - (n + 1)
         /\ \A k \in 1 .. Len(list) - (n + 1) : rest[k] = list[n + 1 + k]
         /\ \A m \in 1 .. n : list[m] \in Keys \X Values /\ list[m][1] # c[1]
<1> DEFINE todo == loc[r].todo
           list == loc[r].list
<1>1. list \in Seq(Keys \X Values) /\ \A i, j \in DOMAIN list : i # j => list[i][1] # list[j][1]
  BY DeskAssumption DEF Patched
<1>2. todo \in Seq(Keys \X Values) /\ Len(todo) = Len(list) - n /\ todo # <<>>
  BY DEF Patched
<1>3. Len(todo) \in Nat \ {0} /\ Len(list) \in Nat /\ DOMAIN list = 1 .. Len(list)
  BY <1>1, <1>2
<1>4. Head(todo) = todo[1] /\ Tail(todo) \in Seq(Keys \X Values) /\ Len(Tail(todo)) = Len(todo) - 1
      /\ \A k \in 1 .. Len(todo) - 1 : Tail(todo)[k] = todo[k + 1]
  BY <1>2, <1>3
<1>5. \A k \in 1 .. Len(list) - n : todo[k] = list[n + k]
  BY DEF Patched
<1>6. Head(todo) = list[n + 1] /\ n + 1 \in 1 .. Len(list)
  BY <1>2, <1>3, <1>4, <1>5
<1>7. \A k \in 1 .. Len(list) - (n + 1) : Tail(todo)[k] = list[n + 1 + k]
  <2> SUFFICES ASSUME NEW k \in 1 .. Len(list) - (n + 1) PROVE Tail(todo)[k] = list[n + 1 + k]
    OBVIOUS
  <2>1. k \in 1 .. Len(todo) - 1 /\ k + 1 \in 1 .. Len(list) - n /\ n + (k + 1) = n + 1 + k
    BY <1>2, <1>3
  <2>2. todo[k + 1] = list[n + (k + 1)]
    BY <1>5, <2>1
  <2> QED BY <1>4, <2>1, <2>2
<1>8. \A m \in 1 .. n : list[m] \in Keys \X Values /\ list[m][1] # Head(todo)[1]
  <2> SUFFICES ASSUME NEW m \in 1 .. n PROVE list[m] \in Keys \X Values /\ list[m][1] # list[n + 1][1]
    BY <1>6
  <2>1. m \in DOMAIN list /\ n + 1 \in DOMAIN list /\ m # n + 1
    BY <1>3, <1>6
  <2> QED BY <1>1, <2>1
<1>9. Head(todo) \in Keys \X Values
  BY <1>1, <1>3, <1>6
<1> HIDE DEF todo, list
<1>10. Len(Tail(todo)) = Len(list) - (n + 1)
  BY <1>2, <1>3, <1>4
<1> QED BY <1>4, <1>6, <1>7, <1>8, <1>9, <1>10 DEF todo, list

\* With the next setting in hand, one more is settled.
LEMMA OneMore ==
  ASSUME NEW r \in Requests, NEW n \in Nat, Patched(r, n), loc[r].todo # <<>>,
         loc'[r].list = loc[r].list, loc'[r].seen = loc[r].seen, loc'[r].todo = Tail(loc[r].todo),
         NEW c, c = Head(loc[r].todo), ~Specs[c[1]].locked,
         \/ tx'[r] = tx[r] /\ loc[r].seen[c[1]] = <<c[2], TRUE>>
         \/ tx'[r] = With(tx[r], c[1], c[2])
  PROVE  Patched(r, n + 1)'
<1> DEFINE list == loc[r].list
<1>1. /\ n + 1 \in 1 .. Len(list) /\ c = list[n + 1] /\ c \in Keys \X Values
      /\ Tail(loc[r].todo) \in Seq(Keys \X Values) /\ Len(Tail(loc[r].todo)) = Len(list) - (n + 1)
      /\ \A k \in 1 .. Len(list) - (n + 1) : Tail(loc[r].todo)[k] = list[n + 1 + k]
      /\ \A m \in 1 .. n : list[m] \in Keys \X Values /\ list[m][1] # c[1]
  BY Upcoming
<1>2. list \in Patches /\ Len(list) \in Nat
  BY <1>1, DeskAssumption DEF Patched
<1>3. /\ \A y \in DOMAIN tx[r] : y # c[1] => y \in DOMAIN tx'[r] /\ tx'[r][y] = tx[r][y]
      /\ \A y \in DOMAIN tx'[r] : (y \in DOMAIN tx[r] /\ tx'[r][y] = tx[r][y]) \/ (y = c[1] /\ tx'[r][y] = c[2])
  <2>1. CASE tx'[r] = tx[r]
    BY <2>1
  <2>2. CASE tx'[r] = With(tx[r], c[1], c[2])
    BY <2>2 DEF With
  <2> QED BY <2>1, <2>2
<1>4. Settled(r, c)'
  <2>1. tx'[r] = With(tx[r], c[1], c[2]) => c[1] \in DOMAIN tx'[r] /\ tx'[r][c[1]] = c[2]
    BY DEF With
  <2> QED BY <2>1 DEF Settled, Specs
<1>5. ASSUME NEW m \in 1 .. n PROVE Settled(r, list[m])'
  <2>1. Settled(r, list[m]) /\ list[m][1] # c[1]
    BY <1>1 DEF Patched
  <2> QED BY <1>3, <2>1 DEF Settled
<1>6. \A x \in DOMAIN tx'[r] : \E k \in 1 .. n + 1 : list[k] = <<x, tx'[r][x]>>
  <2> SUFFICES ASSUME NEW x \in DOMAIN tx'[r] PROVE \E k \in 1 .. n + 1 : list[k] = <<x, tx'[r][x]>>
    OBVIOUS
  <2>1. CASE x \in DOMAIN tx[r] /\ tx'[r][x] = tx[r][x]
    <3>1. PICK k \in 1 .. n : list[k] = <<x, tx[r][x]>>
      BY <2>1 DEF Patched
    <3> QED BY <2>1, <3>1
  <2>2. CASE x = c[1] /\ tx'[r][x] = c[2]
    <3>1. c = <<x, tx'[r][x]>>
      BY <1>1, <2>2
    <3>2. n + 1 \in 1 .. n + 1
      OBVIOUS
    <3> QED BY <1>1, <3>1, <3>2
  <2>3. (x \in DOMAIN tx[r] /\ tx'[r][x] = tx[r][x]) \/ (x = c[1] /\ tx'[r][x] = c[2])
    BY <1>3
  <2> QED BY <2>1, <2>2, <2>3
<1>7. \A k \in 1 .. n + 1 : Settled(r, loc[r].list[k])'
  <2> SUFFICES ASSUME NEW k \in 1 .. n + 1 PROVE Settled(r, loc[r].list[k])'
    OBVIOUS
  <2>1. CASE k = n + 1
    BY <1>1, <1>4, <2>1 DEF Settled
  <2>2. CASE k \in 1 .. n
    BY <1>5, <2>2 DEF Settled
  <2> QED BY <2>1, <2>2
<1>8. /\ (loc[r].list)' = list /\ (loc[r].todo)' = Tail(loc[r].todo)
      /\ n + 1 \in 0 .. Len(list)
  BY <1>1
<1> QED BY <1>1, <1>2, <1>6, <1>7, <1>8 DEF Patched

LEMMA TidySet ==
  ASSUME PlaceInv, ConfInv, NEW r \in Requests, SetOne(r)
  PROVE  Tidy(r)
<1>1. PICK c : c = Head(loc[r].todo)
  OBVIOUS
<1>2. PICK n \in Nat : Patched(r, n)
  BY DEF SetOne, ConfInv, HoldInv
<1>3. UNCHANGED config /\ loc[r].todo # <<>>
  BY DEF SetOne
<1>4. CASE Specs[c[1]].locked
  <2>1. Rollback(r) /\ Done(r)
    BY <1>1, <1>4 DEF SetOne
  <2>2. TxOf(r, NoRows) /\ pc'[r] = "idle"
    BY <2>1, TxFacts, GoFacts DEF Done
  <2>3. DOMAIN tx'[r] = {}
    BY <2>2, NoRowsEmpty DEF TxOf
  <2> QED BY <1>3, <2>2, <2>3 DEF Tidy, HoldInv, Holding
<1>5. CASE ~Specs[c[1]].locked
  <2>1. PICK l : /\ \/ l = [loc[r] EXCEPT !.todo = Tail(@)]
                    \/ l = [[loc[r] EXCEPT !.todo = Tail(@)] EXCEPT !.events = @ + 1]
                 /\ Go(r, "cf_set", l)
                 /\ \/ loc[r].seen[c[1]] = <<c[2], TRUE>> /\ UNCHANGED tx
                    \/ Write(r, c[1], c[2])
    BY <1>1, <1>5 DEF SetOne
  <2>2. l.list = loc[r].list /\ l.seen = loc[r].seen /\ l.todo = Tail(loc[r].todo)
    BY <2>1 DEF PlaceInv, Record
  <2>3. pc'[r] = "cf_set" /\ loc'[r] = l
    BY <2>1, GoFacts
  <2>4. \/ TxOf(r, tx[r]) /\ loc[r].seen[c[1]] = <<c[2], TRUE>>
        \/ TxOf(r, With(tx[r], c[1], c[2]))
    BY <2>1, TxFacts
  <2>5. \/ tx'[r] = tx[r] /\ loc[r].seen[c[1]] = <<c[2], TRUE>>
        \/ tx'[r] = With(tx[r], c[1], c[2])
    BY <2>4 DEF TxOf
  <2>6. loc'[r].list = loc[r].list /\ loc'[r].seen = loc[r].seen /\ loc'[r].todo = Tail(loc[r].todo)
    BY <2>2, <2>3
  <2>7. Patched(r, n + 1)'
    BY <1>1, <1>2, <1>3, <1>5, <2>5, <2>6, OneMore
  <2>8. HoldInv(r)'
    <3>1. n + 1 \in Nat
      OBVIOUS
    <3> QED BY <2>3, <2>7, <3>1 DEF HoldInv, Holding
  <2> QED BY <1>3, <2>4, <2>8 DEF Tidy
<1> QED BY <1>4, <1>5

\* Request r brings in the whole of its patch.
Whole(r) ==
  LET patch == loc[r].list IN
    /\ \A n \in DOMAIN patch : LET k == patch[n][1] IN
         ~Specs[k].locked /\ (config'[k] = patch[n][2] \/ loc[r].seen[k] = <<patch[n][2], TRUE>>)
    /\ \A k \in Keys : config'[k] # config[k] => \E n \in DOMAIN patch : patch[n] = <<k, config'[k]>>

LEMMA CommitWhole ==
  ASSUME PlaceInv, ConfInv, NEW r \in Requests, CommitSettings(r)
  PROVE  /\ Whole(r)
         /\ config' \in [Keys -> {config'[k] : k \in Keys}]
         /\ \E t : TxOf(r, t)
         /\ HoldInv(r)'
<1>1. Commit(r) /\ loc[r].todo = <<>> /\ pc[r] = "cf_set" /\ pc'[r] = "emit"
  BY GoFacts DEF CommitSettings, Announce
<1>2. TxOf(r, NoRows) /\ HoldInv(r)'
  <2>1. TxOf(r, NoRows)
    BY <1>1, TxFacts DEF Commit
  <2>2. DOMAIN tx'[r] = {}
    BY <2>1, NoRowsEmpty DEF TxOf
  <2> QED BY <1>1, <2>1, <2>2 DEF HoldInv, Holding
<1>3. /\ DOMAIN config = Keys
      /\ config' = [k \in Keys |-> IF k \in DOMAIN tx[r] THEN tx[r][k] ELSE config[k]]
  BY <1>1 DEF ConfInv, Commit, Seen
<1>4. PICK n \in Nat : Patched(r, n)
  BY <1>1 DEF ConfInv, HoldInv
<1>5. PICK patch : patch = loc[r].list
  OBVIOUS
<1>6. patch \in Seq(Keys \X Values) /\ n = Len(patch) /\ DOMAIN patch = 1 .. n
  <2>1. patch \in Seq(Keys \X Values) /\ 0 = Len(patch) - n
    BY <1>1, <1>4, <1>5, DeskAssumption DEF Patched
  <2> QED BY <2>1
<1>7. ASSUME NEW m \in DOMAIN patch
      PROVE  /\ ~Specs[patch[m][1]].locked
             /\ config'[patch[m][1]] = patch[m][2] \/ loc[r].seen[patch[m][1]] = <<patch[m][2], TRUE>>
  <2>1. Settled(r, patch[m])
    BY <1>4, <1>5, <1>6 DEF Patched
  <2>2. patch[m][1] \in Keys
    BY <1>6
  <2> QED BY <1>3, <2>1, <2>2 DEF Settled
<1>8. ASSUME NEW k \in Keys, config'[k] # config[k]
      PROVE  \E m \in DOMAIN patch : patch[m] = <<k, config'[k]>>
  <2>1. k \in DOMAIN tx[r] /\ config'[k] = tx[r][k]
    BY <1>3, <1>8
  <2> QED BY <1>4, <1>5, <1>6, <2>1 DEF Patched
<1>9. Whole(r)
  BY <1>5, <1>7, <1>8 DEF Whole
<1>10. config' \in [Keys -> {config'[k] : k \in Keys}]
  BY <1>3
<1> QED BY <1>2, <1>9, <1>10

LEMMA StepTidy ==
  ASSUME PlaceInv, ConfInv, NEW r \in Requests, BeginAny(r) \/ Step(r)
  PROVE  Tidy(r) \/ CommitSettings(r)
<1>1. CASE BeginAny(r)
  BY <1>1, TidyBegin
<1>2. CASE \/ PutObject(r) \/ Place(r) \/ Insert(r) \/ ListToReorder(r) \/ Move(r) \/ ReadBack(r)
           \/ CommitMoves(r) \/ ReadSettings(r) \/ SetOne(r) \/ CommitSettings(r) \/ Deadlock(r)
  BY <1>2, TidyUpload, TidyReorder, TidyCommit, TidyRead, TidySet, TidyDeadlock
<1>3. CASE \/ FindToUpload(r) \/ CountItems(r) \/ UndoObject(r) \/ TouchAlbum(r) \/ GiveLink(r)
           \/ FindToReorder(r) \/ SaveAlbum(r)
           \/ FindToDelete(r) \/ ListToDelete(r) \/ DeleteRows(r) \/ DeleteKey(r)
           \/ CheckLink(r) \/ SetCookie(r) \/ ConsumeLink(r)
           \/ ReadUser(r) \/ Revoke(r) \/ WriteUser(r) \/ PruneLinks(r)
           \/ (\E raised \in BOOLEAN : Hear(r, raised)) \/ Heard(r) \/ Announced(r)
  BY <1>3, StepPlain, TidyPlain
<1> QED BY <1>1, <1>2, <1>3 DEF Step

LEMMA ConfStep == PlaceInv /\ ConfInv /\ [Next]_vars => ConfInv'
<1> SUFFICES ASSUME PlaceInv, ConfInv, [Next]_vars PROVE ConfInv'
  OBVIOUS
<1>1. CASE \E r \in Requests : BeginAny(r) \/ Step(r)
  <2>1. PICK r \in Requests : BeginAny(r) \/ Step(r)
    BY <1>1
  <2>2. Others(r)
    BY <2>1, BeginLegal, StepLegal, GoFacts DEF Steps
  <2>3. /\ config' \in [Keys -> {config'[k] : k \in Keys}]
        /\ \E t : TxOf(r, t)
        /\ HoldInv(r)'
    <3>1. CASE Tidy(r)
      BY <3>1 DEF Tidy, ConfInv
    <3>2. CASE CommitSettings(r)
      BY <3>2, CommitWhole
    <3> QED BY <2>1, <3>1, <3>2, StepTidy
  <2>4. DOMAIN pos' \subseteq Items
    <3>1. CASE Insert(r)
      <4>1. loc[r].item \in Items
        BY <3>1 DEF Insert, ConfInv, HoldInv
      <4>2. DOMAIN pos' = DOMAIN pos \cup {loc[r].item}
        BY <3>1 DEF Insert, InsertItem, With
      <4> QED BY <4>1, <4>2 DEF ConfInv
    <3> QED BY <2>1, <3>1, StepItems DEF ConfInv
  <2> QED BY <2>2, <2>3, <2>4, ConfKept DEF TxOf
<1>2. CASE ~(\E r \in Requests : BeginAny(r) \/ Step(r))
  <2>1. UNCHANGED <<pc, loc, tx, pos, config>>
    BY <1>2, Outside
  <2>2. ASSUME NEW s \in Requests PROVE HoldInv(s)'
    <3>1. \A n : Patched(s, n) => Patched(s, n)'
      BY <2>1 DEF Patched, Settled
    <3> QED BY <2>1, <3>1 DEF ConfInv, HoldInv
  <2> QED BY <2>1, <2>2 DEF ConfInv
<1> QED BY <1>1, <1>2

LEMMA FirstFacts == first \in SetToSeqs(Items)
<1>1. PICK f : f \in Bijection(1 .. Cardinality(Items), Items)
  BY RowsAssumption, FS_CardinalityType DEF ExistsBijection
<1>2. f \in SetToSeqs(Items)
  BY <1>1 DEF SetToSeqs, Bijection, Injection, Surjection, IsInjective
<1> QED BY <1>2 DEF first

LEMMA ConfInit == Init => ConfInv
<1> SUFFICES ASSUME Init PROVE ConfInv
  OBVIOUS
<1>1. first \in SetToSeqs(Items)
  BY FirstFacts
<1>2. \A k \in 1 .. Cardinality(Items) : first[k] \in Items
  BY <1>1 DEF SetToSeqs
<1>3. Begins \in Nat /\ Begins <= Cardinality(Items) /\ Cardinality(Items) \in Nat
  BY RowsAssumption, DeskAssumption, FS_CardinalityType
<1>4. DOMAIN pos \subseteq Items
  BY <1>2, <1>3 DEF Init
<1>5. tx \in [Requests -> {tx[r] : r \in Requests}] /\ config \in [Keys -> {config[k] : k \in Keys}]
  BY DEF Init
<1>6. ASSUME NEW r \in Requests PROVE HoldInv(r)
  <2>1. pc[r] = "idle" /\ tx[r] = NoRows
    BY DEF Init
  <2> QED BY <2>1, NoRowsEmpty DEF HoldInv, Holding
<1> QED BY <1>4, <1>5, <1>6 DEF ConfInv

\* Settings change only by a whole patch: every key of it has its new value or
\* had it when the patch began, no key of it is locked, and no other changes.
THEOREM PatchesWhole == Spec => SettingsWhole
<1>1. PlaceInv /\ ConfInv /\ [Next]_vars =>
        [config' # config =>
           \E r \in {r \in Requests : pc[r] = "cf_set"} :
             LET patch == loc[r].list IN
               /\ \A n \in DOMAIN patch : LET k == patch[n][1] IN
                    ~Specs[k].locked /\ (config'[k] = patch[n][2] \/ loc[r].seen[k] = <<patch[n][2], TRUE>>)
               /\ \A k \in Keys : config'[k] # config[k] => \E n \in DOMAIN patch : patch[n] = <<k, config'[k]>>]_vars
  <2> SUFFICES ASSUME PlaceInv, ConfInv, Next, config' # config
               PROVE  \E r \in {r \in Requests : pc[r] = "cf_set"} : Whole(r)
    BY DEF Whole
  <2>1. PICK r \in Requests : BeginAny(r) \/ Step(r)
    BY Outside
  <2>2. CommitSettings(r)
    BY <2>1, StepTidy DEF Tidy
  <2>3. pc[r] = "cf_set"
    BY <2>2 DEF CommitSettings
  <2> QED BY <2>2, <2>3, CommitWhole
<1> QED BY <1>1, PlaceInit, PlaceStep, ConfInit, ConfStep, PTL DEF Spec, SettingsWhole

-----------------------------------------------------------------------------
(* The archive.                                                            *)

streamVars == <<listing, at, client, thread, reads, last, fifo, stopped, got>>

\* The n-th chunk of a whole archive.
Nth(n) == <<((n - 1) \div Chunks) + 1, ((n - 1) % Chunks) + 1>>

Received(g, n) == /\ g \in Seq(Nat \X Nat) /\ Len(g) = n
                /\ \A k \in 1 .. n : g[k] = Nth(k)

\* Chunks of the current object that the thread has put in the queue.
Sent == IF thread = "put" THEN reads - 1 ELSE reads

\* The client has c chunks of the current object; those after them are in the
\* queue, in order, and behind them what the thread said at its end.
Flowing(c) ==
  /\ Len(listing) \in Nat /\ at \in 1 .. Len(listing) /\ ~stopped
  /\ thread \in {"open", "read", "put", "closing", "last", "over"}
  /\ reads \in 0 .. Chunks /\ last \in {END, ERROR} /\ (thread = "put" => reads >= 1)
  /\ c \in 0 .. Sent
  /\ Received(got, (at - 1) * Chunks + c)
  /\ fifo \in Seq({"chunk", "end", "error"} \X Nat)
  /\ Len(fifo) = Sent - c + (IF thread = "over" THEN 1 ELSE 0)
  /\ \A j \in 1 .. Sent - c : fifo[j] = <<"chunk", c + j>>
  /\ thread = "over" => fifo[Sent - c + 1] = last
  /\ thread \in {"closing", "last", "over"} /\ last = END => reads = Chunks

StreamInv ==
  /\ client = "none" => got = <<>>
  /\ client = "waiting" => \E c \in Nat : Flowing(c)
  /\ client = "done" => Len(listing) \in Nat /\ Received(got, Len(listing) * Chunks)

LEMMA NthOf ==
  ASSUME NEW q \in Nat, NEW c \in Nat, c < Chunks
  PROVE  Nth(q * Chunks + c + 1) = <<q + 1, c + 1>>
<1>1. Chunks \in Nat /\ Chunks > 0
  BY BridgeAssumption
<1>2. PICK a \in Nat : a = q * Chunks + c
  BY <1>1
<1>3. (a \div Chunks) \in Int /\ Chunks * (a \div Chunks) <= a /\ a < Chunks * (a \div Chunks) + Chunks
  BY <1>1
<1>4. a \div Chunks = q
  BY <1>1, <1>2, <1>3
<1>5. a % Chunks = c
  BY <1>1, <1>2, <1>4
<1> QED BY <1>1, <1>2, <1>4, <1>5 DEF Nth

\* A bridge begins with nothing in it, behind all objects before its own.
LEMMA BridgeBegins ==
  ASSUME NEW n \in Nat, NEW list, Len(list) \in Nat, n <= Len(list),
         Bridge(n + 1, list), listing' = list, got' = got, Received(got, n * Chunks)
  PROVE  StreamInv'
<1>1. Chunks \in Nat /\ n * Chunks \in Nat /\ n * Chunks + 0 = n * Chunks
  BY BridgeAssumption
<1>2. CASE n + 1 > Len(list)
  <2>1. n = Len(list) /\ client' = "done"
    BY <1>2 DEF Bridge
  <2> QED BY <2>1 DEF StreamInv, Received
<1>3. CASE ~(n + 1 > Len(list))
  <2>1. /\ at' = n + 1 /\ client' = "waiting" /\ thread' = "open"
        /\ reads' = 0 /\ last' = END /\ fifo' = <<>> /\ stopped' = FALSE
    BY <1>3 DEF Bridge
  <2>2. (at - 1)' = n /\ at' \in 1 .. Len(list)
    BY <1>3, <2>1
  <2>3. Received(got, (at - 1) * Chunks + 0)'
    BY <1>1, <2>2 DEF Received
  <2>4. Flowing(0)'
    BY <1>1, <2>1, <2>2, <2>3 DEF Flowing, Sent
  <2> QED BY <2>1, <2>4 DEF StreamInv
<1> QED BY <1>2, <1>3

LEMMA StreamBegins ==
  ASSUME RoomInv, DOMAIN pos \subseteq Items, StreamInv, StartZip
  PROVE  StreamInv'
<1>1. PICK s \in Ordered(pos) : StartArchive(s)
  BY DEF StartZip
<1>2. Len(s) \in Nat
  <2>1. Cardinality(DOMAIN pos) \in Nat
    BY FS_CardinalityType DEF RoomInv
  <2>2. s \in [1 .. Cardinality(DOMAIN pos) -> DOMAIN pos]
    BY DEF Ordered, SetToSeqs
  <2>3. s \in Seq(DOMAIN pos)
    BY <2>1, <2>2
  <2> QED BY <2>3
<1>3. got = <<>> /\ Bridge(1, s) /\ listing' = s /\ got' = got
  BY <1>1 DEF StartArchive, StreamInv
<1>4. 0 * Chunks = 0
  BY BridgeAssumption
<1>5. Received(got, 0 * Chunks)
  BY <1>3, <1>4 DEF Received
<1>6. Bridge(0 + 1, s)
  BY <1>3
<1> QED BY <1>2, <1>3, <1>5, <1>6, BridgeBegins

\* What the thread does, for a client that waits.
LEMMA ThreadKeeps ==
  ASSUME NEW c \in Nat, Flowing(c),
         OpenStream \/ ReadChunk \/ PutChunk \/ CloseStream \/ PutLast \/ Break
  PROVE  Flowing(c)' /\ UNCHANGED <<listing, client, got>>
<1>1. Chunks \in Nat \ {0} /\ Cap \in Nat \ {0}
  BY BridgeAssumption
<1>2. /\ UNCHANGED <<listing, at, client, stopped, got>>
      /\ Received(got, (at - 1) * Chunks + c)'
  BY DEF OpenStream, ReadChunk, PutChunk, CloseStream, PutLast, Break, Thread, Flowing, Received
<1> USE DEF Thread
<1>3. CASE OpenStream
  <2>1. /\ thread = "open" /\ UNCHANGED <<reads, fifo>>
        /\ (thread' = "read" /\ UNCHANGED last) \/ (thread' = "last" /\ last' = ERROR)
    BY <1>3 DEF OpenStream
  <2>2. Sent' = Sent /\ last' \in {END, ERROR} /\ (thread' = "read" \/ last' # END)
    BY <2>1 DEF Sent, END, ERROR, Flowing
  <2> QED BY <1>2, <2>1, <2>2 DEF Flowing
<1>4. CASE ReadChunk
  BY <1>1, <1>2, <1>4 DEF ReadChunk, Flowing, Sent
<1>5. CASE PutChunk
  <2>1. /\ reads >= 1 /\ fifo' = Append(fifo, <<"chunk", reads>>) /\ thread' = "read"
        /\ UNCHANGED <<last, reads>> /\ thread = "put"
    BY <1>5 DEF PutChunk, Flowing
  <2>2. Sent' = Sent + 1 /\ Sent = reads - 1 /\ Len(fifo) = Sent - c /\ reads \in Nat
    BY <1>1, <2>1 DEF Sent, Flowing
  <2>3. /\ fifo' \in Seq({"chunk", "end", "error"} \X Nat)
        /\ Len(fifo') = Len(fifo) + 1 /\ fifo'[Len(fifo) + 1] = <<"chunk", reads>>
        /\ \A j \in 1 .. Len(fifo) : fifo'[j] = fifo[j]
    BY <2>1, <2>2 DEF Flowing
  <2>4. ASSUME NEW j \in 1 .. Sent' - c PROVE fifo'[j] = <<"chunk", c + j>>
    <3>1. CASE j \in 1 .. Len(fifo)
      BY <2>2, <2>3, <3>1 DEF Flowing
    <3>2. CASE j = Len(fifo) + 1
      <4>1. c + j = reads
        BY <2>2, <3>2
      <4> QED BY <2>3, <3>2, <4>1
    <3>3. j \in 1 .. Len(fifo) \/ j = Len(fifo) + 1
      BY <2>2
    <3> QED BY <3>1, <3>2, <3>3
  <2>5. Len(fifo') = Sent' - c /\ c \in 0 .. Sent'
    <3>1. c \in 0 .. reads - 1 /\ Len(fifo) = reads - 1 - c
      BY <2>2 DEF Flowing
    <3>2. Sent' = reads /\ Len(fifo') = Len(fifo) + 1
      BY <2>2, <2>3
    <3> QED BY <2>2, <3>1, <3>2
  <2> QED BY <1>2, <2>1, <2>3, <2>4, <2>5 DEF Flowing
<1>6. CASE CloseStream
  BY <1>1, <1>2, <1>6 DEF CloseStream, Flowing, Sent
<1>7. CASE PutLast
  <2>1. /\ thread = "last" /\ thread' = "over" /\ fifo' = Append(fifo, last)
        /\ UNCHANGED <<last, reads>>
    BY <1>7 DEF PutLast, Flowing
  <2>2. Sent' = Sent /\ Sent = reads /\ Len(fifo) = Sent - c /\ reads \in Nat
    BY <1>1, <2>1 DEF Sent, Flowing
  <2>3. last \in {"chunk", "end", "error"} \X Nat
    BY DEF Flowing, END, ERROR
  <2>4. /\ fifo' \in Seq({"chunk", "end", "error"} \X Nat)
        /\ Len(fifo') = Len(fifo) + 1 /\ fifo'[Len(fifo) + 1] = last
        /\ \A j \in 1 .. Len(fifo) : fifo'[j] = fifo[j]
    BY <2>1, <2>2, <2>3 DEF Flowing
  <2>5. \A j \in 1 .. Sent' - c : fifo'[j] = <<"chunk", c + j>>
    BY <2>2, <2>4 DEF Flowing
  <2>6. Len(fifo') = Sent' - c + 1 /\ c \in 0 .. Sent' /\ fifo'[Sent' - c + 1] = last'
    BY <2>1, <2>2, <2>4 DEF Flowing
  <2> QED BY <1>2, <2>1, <2>4, <2>5, <2>6 DEF Flowing
<1>8. CASE Break
  <2>1. thread = "read" /\ UNCHANGED <<reads, fifo>> /\ thread' = "closing" /\ last' = ERROR
    BY <1>8 DEF Break
  <2>2. Sent' = Sent /\ last' # END
    BY <2>1 DEF Sent, END, ERROR
  <2> QED BY <1>2, <2>1, <2>2 DEF Flowing
<1> QED BY <1>2, <1>3, <1>4, <1>5, <1>6, <1>7, <1>8

LEMMA ClientKeeps ==
  ASSUME StreamInv, GetChunk \/ NextObject \/ Raise \/ Leave
  PROVE  StreamInv'
<1>1. Chunks \in Nat \ {0} /\ client = "waiting"
  BY BridgeAssumption DEF GetChunk, NextObject, Raise, Leave
<1>2. PICK c \in Nat : Flowing(c)
  BY <1>1 DEF StreamInv
<1>3. CASE Raise \/ Leave
  BY <1>3 DEF Raise, Leave, StreamInv
<1>4. /\ Len(listing) \in Nat /\ at \in 1 .. Len(listing) /\ at - 1 \in Nat
      /\ (at - 1) * Chunks \in Nat /\ Sent - c \in Nat /\ Sent \in 0 .. Chunks
      /\ Len(fifo) = Sent - c + (IF thread = "over" THEN 1 ELSE 0)
      /\ fifo \in Seq({"chunk", "end", "error"} \X Nat)
  BY <1>1, <1>2 DEF Flowing, Sent
<1>5. CASE GetChunk
  <2>1. fifo # <<>> /\ Head(fifo) = fifo[1] /\ Head(fifo) \notin {END, ERROR}
    BY <1>4, <1>5 DEF GetChunk
  <2>2. Sent - c >= 1
    <3>1. Len(fifo) >= 1
      BY <1>4, <2>1
    <3>2. Sent - c = 0 => thread = "over" /\ fifo[1] \in {END, ERROR}
      BY <1>2, <1>4, <3>1 DEF Flowing
    <3> QED BY <1>4, <2>1, <3>2
  <2>3. Head(fifo) = <<"chunk", c + 1>> /\ c < Chunks
    <3>1. 1 \in 1 .. Sent - c
      BY <1>4, <2>2
    <3>2. fifo[1] = <<"chunk", c + 1>>
      BY <1>2, <3>1 DEF Flowing
    <3> QED BY <1>1, <1>4, <2>1, <2>2, <3>2
  <2>4. /\ got' = Append(got, <<at, c + 1>>) /\ fifo' = Tail(fifo)
        /\ UNCHANGED <<listing, at, client, thread, reads, last, stopped>>
    BY <1>5, <2>3 DEF GetChunk
  <2>5. /\ Tail(fifo) \in Seq({"chunk", "end", "error"} \X Nat) /\ Len(Tail(fifo)) = Len(fifo) - 1
        /\ \A j \in 1 .. Len(fifo) - 1 : Tail(fifo)[j] = fifo[j + 1]
    BY <1>4, <2>1
  <2>6. Sent' = Sent
    BY <2>4 DEF Sent
  <2>7. ASSUME NEW j \in 1 .. Sent - (c + 1) PROVE fifo'[j] = <<"chunk", (c + 1) + j>>
    <3>1. j + 1 \in 1 .. Sent - c /\ j \in 1 .. Len(fifo) - 1 /\ c + (j + 1) = (c + 1) + j
      BY <1>4
    <3>2. fifo[j + 1] = <<"chunk", c + (j + 1)>>
      BY <1>2, <3>1 DEF Flowing
    <3> QED BY <2>4, <2>5, <3>1, <3>2
  <2>8. thread = "over" => fifo'[Sent - (c + 1) + 1] = last
    <3>1. ASSUME thread = "over" PROVE Sent - c \in 1 .. Len(fifo) - 1 /\ fifo[Sent - c + 1] = last
      BY <1>2, <1>4, <2>2, <3>1 DEF Flowing
    <3>2. Sent - (c + 1) + 1 = Sent - c
      BY <1>4
    <3> QED BY <2>4, <2>5, <3>1, <3>2
  <2>9. Received(got', (at - 1) * Chunks + (c + 1))
    <3>1. PICK n \in Nat : n = (at - 1) * Chunks + c
      BY <1>4
    <3>2. Received(got, n)
      BY <1>2, <3>1 DEF Flowing
    <3>3. Nth(n + 1) = <<at, c + 1>>
      BY <1>4, <2>3, <3>1, NthOf
    <3>4. <<at, c + 1>> \in Nat \X Nat
      BY <1>4
    <3>5. /\ got' \in Seq(Nat \X Nat) /\ Len(got') = n + 1 /\ got'[n + 1] = <<at, c + 1>>
          /\ \A k \in 1 .. n : got'[k] = got[k]
      BY <2>4, <3>2, <3>4 DEF Received
    <3>6. \A k \in 1 .. n + 1 : k \in 1 .. n \/ k = n + 1
      OBVIOUS
    <3>7. Received(got', n + 1)
      BY <3>2, <3>3, <3>5, <3>6 DEF Received
    <3>8. (at - 1) * Chunks + (c + 1) = n + 1
      BY <1>4, <3>1
    <3> QED BY <3>7, <3>8
  <2>10. Received(got, (at - 1) * Chunks + (c + 1))'
    BY <2>4, <2>9 DEF Received
  <2>11. c + 1 \in 0 .. Sent /\ Len(fifo') = Sent - (c + 1) + (IF thread = "over" THEN 1 ELSE 0)
    BY <1>4, <2>2, <2>4, <2>5
  <2>12. Flowing(c + 1)'
    BY <1>2, <2>4, <2>5, <2>6, <2>7, <2>8, <2>10, <2>11 DEF Flowing
  <2>13. client' = "waiting" /\ c + 1 \in Nat
    BY <1>1, <2>4
  <2> QED BY <2>12, <2>13 DEF StreamInv
<1>6. CASE NextObject
  <2>1. fifo # <<>> /\ Head(fifo) = fifo[1] /\ fifo[1] = END /\ thread = "over"
    BY <1>4, <1>6 DEF NextObject
  <2>2. Sent - c = 0
    <3>1. Sent - c >= 1 => fifo[1] = <<"chunk", c + 1>>
      BY <1>2, <1>4 DEF Flowing
    <3> QED BY <1>4, <2>1, <3>1 DEF END
  <2>3. c = Chunks
    <3>1. Sent - c + 1 = 1
      BY <1>4, <2>2
    <3>2. last = END
      BY <1>2, <2>1, <3>1 DEF Flowing
    <3> QED BY <1>2, <1>4, <2>1, <2>2, <3>2 DEF Flowing, Sent
  <2>4. Received(got, at * Chunks)
    <3>1. (at - 1) * Chunks + c = at * Chunks
      BY <1>1, <1>4, <2>3
    <3> QED BY <1>2, <3>1 DEF Flowing
  <2>5. Bridge(at + 1, listing) /\ listing' = listing /\ got' = got
    BY <1>6 DEF NextObject
  <2>6. at \in Nat /\ at <= Len(listing)
    BY <1>4
  <2> QED BY <1>4, <2>4, <2>5, <2>6, BridgeBegins
<1> QED BY <1>3, <1>5, <1>6

\* Nothing else touches the stream.
LEMMA StreamStep ==
  RoomInv /\ ConfInv /\ StreamInv /\ [Next]_vars => StreamInv'
<1> SUFFICES ASSUME RoomInv, ConfInv, StreamInv, [Next]_vars PROVE StreamInv'
  OBVIOUS
<1>1. CASE StartZip
  BY <1>1, StreamBegins DEF ConfInv
<1>2. CASE GetChunk \/ NextObject \/ Raise \/ Leave
  BY <1>2, ClientKeeps
<1>3. CASE OpenStream \/ ReadChunk \/ PutChunk \/ CloseStream \/ PutLast \/ Break
  <2>1. UNCHANGED <<listing, client, got>>
    BY <1>3 DEF OpenStream, ReadChunk, PutChunk, CloseStream, PutLast, Break, Thread
  <2>2. client = "waiting" => \E c \in Nat : Flowing(c)'
    BY <1>3, ThreadKeeps DEF StreamInv
  <2> QED BY <2>1, <2>2 DEF StreamInv, Received
<1>4. CASE UNCHANGED streamVars
  <2>1. \A c : Flowing(c) => Flowing(c)'
    BY <1>4 DEF streamVars, Flowing, Received, Sent
  <2> QED BY <1>4, <2>1 DEF streamVars, StreamInv, Received
<1>5. ASSUME NEW r \in Requests, BeginAny(r) PROVE UNCHANGED streamVars
  BY <1>5 DEF BeginAny, BeginUpload, BeginSubmit, Begin, zipVars, streamVars
<1>6. ASSUME NEW r \in Requests, Step(r) PROVE UNCHANGED streamVars
  <2> USE DEF Reads, sameZip, zipVars, streamVars
  <2>1. CASE FindToUpload(r) \/ CountItems(r) \/ PutObject(r) \/ Place(r) \/ UndoObject(r)
    BY <2>1 DEF FindToUpload, CountItems, PutObject, Place, UndoObject
  <2>2. CASE Insert(r) \/ TouchAlbum(r) \/ GiveLink(r)
    BY <2>2 DEF Insert, TouchAlbum, GiveLink
  <2>3. CASE FindToReorder(r) \/ ListToReorder(r) \/ Move(r) \/ ReadBack(r) \/ CommitMoves(r) \/ SaveAlbum(r)
    BY <2>3 DEF FindToReorder, ListToReorder, Move, ReadBack, CommitMoves, SaveAlbum
  <2>4. CASE FindToDelete(r) \/ ListToDelete(r) \/ DeleteRows(r) \/ DeleteKey(r)
    BY <2>4 DEF FindToDelete, ListToDelete, DeleteRows, DeleteKey
  <2>5. CASE CheckLink(r) \/ SetCookie(r) \/ ConsumeLink(r) \/ ReadUser(r) \/ Revoke(r) \/ WriteUser(r)
    BY <2>5 DEF CheckLink, SetCookie, ConsumeLink, ReadUser, Revoke, WriteUser
  <2>6. CASE ReadSettings(r) \/ SetOne(r) \/ CommitSettings(r) \/ PruneLinks(r)
    BY <2>6 DEF ReadSettings, SetOne, CommitSettings, PruneLinks
  <2>7. CASE (\E raised \in BOOLEAN : Hear(r, raised)) \/ Heard(r) \/ Announced(r) \/ Deadlock(r)
    BY <2>7 DEF Hear, Heard, Announced, Deadlock
  <2> QED BY <1>6, <2>1, <2>2, <2>3, <2>4, <2>5, <2>6, <2>7 DEF Step
<1>7. ASSUME \/ \E l \in Links : LinkExpires(l) \/ LinkAges(l) \/ CookieExpires(l)
             \/ AlbumExpires \/ UNCHANGED vars
      PROVE  UNCHANGED streamVars
  BY <1>7 DEF LinkExpires, LinkAges, CookieExpires, AlbumExpires, vars, zipVars, streamVars
<1> QED BY <1>1, <1>2, <1>3, <1>4, <1>5, <1>6, <1>7 DEF Next, ZipStep

LEMMA StreamInit == Init => StreamInv
BY DEF Init, ZipInit, StreamInv

\* A download that ends as an archive holds every chunk of every listed item
\* in order, whatever was deleted or failed while it ran.
THEOREM ArchiveWhole == Spec => []ArchiveHonest
<1>1. StreamInv => ArchiveHonest
  <2> SUFFICES ASSUME StreamInv, client = "done"
               PROVE  got = [n \in 1 .. Len(listing) * Chunks |-> Nth(n)]
    BY DEF ArchiveHonest, Nth
  <2>1. Len(listing) * Chunks \in Nat
    BY BridgeAssumption DEF StreamInv
  <2> QED BY <2>1 DEF StreamInv, Received
<1> QED BY <1>1, PlaceInit, PlaceStep, RoomInit, RoomStep, ConfInit, ConfStep,
           StreamInit, StreamStep, PTL DEF Spec

-----------------------------------------------------------------------------
(* Positions.                                                              *)

\* A finite set of integers has a greatest member: a smallest subset without
\* one would have one that is smaller still.
LEMMA MaxFacts ==
  ASSUME NEW S \in SUBSET Int, IsFiniteSet(S), S # {}
  PROVE  Max(S) \in S /\ \A y \in S : Max(S) >= y
<1> DEFINE Topless == {U \in SUBSET S : U # {} /\ \A x \in U : \E y \in U : ~(x >= y)}
<1>1. Topless = {}
  <2> SUFFICES ASSUME Topless # {} PROVE FALSE
    OBVIOUS
  <2>1. Topless \subseteq FiniteSubsetsOf(S)
    BY FS_Subset DEF FiniteSubsetsOf
  <2>2. IsWellFoundedOn(StrictSubsetOrdering(S), FiniteSubsetsOf(S))
    BY FS_StrictSubsetOrderingWellFounded
  <2> HIDE DEF Topless
  <2>3. \E U \in Topless : \A V \in Topless : <<V, U>> \notin StrictSubsetOrdering(S)
    BY <2>1, <2>2, WFMin
  <2> USE DEF Topless
  <2>4. PICK U \in Topless : \A V \in Topless : <<V, U>> \notin StrictSubsetOrdering(S)
    BY <2>3
  <2>5. PICK x \in U : TRUE
    OBVIOUS
  <2>6. U \ {x} \in SUBSET S /\ U \ {x} # U
    BY <2>4, <2>5
  <2>7. U \ {x} \notin Topless
    BY <2>4, <2>6 DEF StrictSubsetOrdering
  <2>8. PICK y \in U : ~(x >= y)
    BY <2>4, <2>5
  <2>9. x \in Int /\ y \in Int /\ y # x /\ U \ {x} # {}
    BY <2>4, <2>5, <2>8
  <2>10. PICK m \in U \ {x} : \A z \in U \ {x} : m >= z
    BY <2>6, <2>7, <2>9
  <2>11. m \in Int /\ m >= x
    BY <2>4, <2>8, <2>9, <2>10
  <2>12. \A z \in U : m >= z
    BY <2>10, <2>11
  <2> QED BY <2>4, <2>10, <2>12
<1>2. \E x \in S : \A y \in S : x >= y
  BY <1>1
<1> QED BY <1>2 DEF Max

\* v is a whole gap behind every item that nobody reordered.
Ahead(v) == v \in Int /\ \A i \in DOMAIN pos \ moved : v - pos[i] >= Gap

\* What a request relies on that writes positions.
Carries(r) ==
  /\ pc[r] = "up_insert" => Ahead(tx[r][Album])
  /\ pc[r] = "ro_write" => loc[r].todo \in Seq(Items \X Int)
  /\ pc[r] = "ro_commit" => loc[r].list \in Seq(Items \X Int)
  /\ pc[r] \in {"ro_write", "ro_commit"} => \A x \in DOMAIN tx[r] : tx[r][x] \in Int

SpreadInv ==
  /\ \A i \in DOMAIN pos : pos[i] \in Int
  /\ UploadsSpread
  /\ \A r \in Requests : pc[r] = "up_insert" => Album \in DOMAIN tx[r]
  /\ \A r, s \in Requests : pc[r] = "up_insert" /\ pc[s] = "up_insert" => r = s
  /\ \A r \in Requests : Carries(r)

\* A step that puts no item that counts anywhere.
LEMMA SpreadKept ==
  ASSUME SpreadInv, NEW r \in Requests, Others(r), \A s \in Requests \ {r} : tx'[s] = tx[s],
         \A i \in DOMAIN pos' \ moved' : i \in DOMAIN pos \ moved /\ pos'[i] = pos[i],
         \A i \in DOMAIN pos' : pos'[i] \in Int,
         Carries(r)',
         pc'[r] = "up_insert" => /\ Album \in DOMAIN tx'[r]
                                 /\ \A s \in Requests \ {r} : pc[s] # "up_insert"
  PROVE  SpreadInv'
<1>1. UploadsSpread'
  BY DEF SpreadInv, UploadsSpread
<1>2. \A v : Ahead(v) => Ahead(v)'
  BY DEF Ahead
<1>3. ASSUME NEW s \in Requests, s # r PROVE Carries(s)'
  <2>1. pc'[s] = pc[s] /\ loc'[s] = loc[s] /\ tx'[s] = tx[s] /\ Carries(s)
    BY <1>3 DEF Others, SpreadInv
  <2>2. pc[s] = "up_insert" => Ahead(tx[s][Album])'
    BY <1>2, <2>1 DEF Carries
  <2> QED BY <2>1, <2>2 DEF Carries
<1>4. \A s \in Requests : pc'[s] = "up_insert" => Album \in DOMAIN tx'[s]
  BY DEF SpreadInv, Others
<1>5. \A s, t \in Requests : pc'[s] = "up_insert" /\ pc'[t] = "up_insert" => s = t
  BY DEF SpreadInv, Others
<1> QED BY <1>1, <1>3, <1>4, <1>5 DEF SpreadInv

\* Most steps neither write positions nor come to where it is done.
LEMMA StepStays ==
  ASSUME PlaceInv, ConfInv, NEW r \in Requests, BeginAny(r) \/ Step(r)
  PROVE  \/ UNCHANGED <<pos, moved>> /\ pc'[r] \notin {"up_insert", "ro_write", "ro_commit"}
         \/ Place(r) \/ Insert(r) \/ ListToReorder(r) \/ Move(r) \/ ReadBack(r)
         \/ CommitMoves(r) \/ CommitSettings(r) \/ DeleteRows(r)
<1> DEFINE Stays == pc'[r] \notin {"up_insert", "ro_write", "ro_commit"}
<1> USE DEF Reads, sameRows, sameDesk, rowVars
<1>1. CASE BeginAny(r)
  <2>1. \E label \in {"up_find", "ro_find", "del_find", "sp_read", "pr_links", "vi_link", "su_consume", "cf_read"} :
           \E l : Begin(r, label, l)
    BY <1>1 DEF BeginAny, BeginUpload, BeginSubmit
  <2> QED BY <2>1, GoFacts DEF Begin
<1>2. CASE PutObject(r) \/ Deadlock(r) \/ ReadSettings(r) \/ SetOne(r)
  <2>1. (\E l : Go(r, "up_lock", l) \/ Go(r, "cf_set", l)) \/ Done(r)
    BY <1>2 DEF PutObject, Deadlock, ReadSettings, SetOne
  <2>2. Stays
    BY <2>1, GoFacts DEF Done
  <2> QED BY <1>2, <2>2 DEF PutObject, Deadlock, ReadSettings, SetOne
<1>3. CASE \/ FindToUpload(r) \/ CountItems(r) \/ UndoObject(r) \/ TouchAlbum(r) \/ GiveLink(r)
           \/ FindToReorder(r) \/ SaveAlbum(r)
           \/ FindToDelete(r) \/ ListToDelete(r) \/ DeleteKey(r)
           \/ CheckLink(r) \/ SetCookie(r) \/ ConsumeLink(r)
           \/ ReadUser(r) \/ Revoke(r) \/ WriteUser(r) \/ PruneLinks(r)
           \/ (\E raised \in BOOLEAN : Hear(r, raised)) \/ Heard(r) \/ Announced(r)
  <2>1. Stays
    BY <1>3, StepPlain DEF Holding
  <2>2. CASE FindToUpload(r) \/ CountItems(r) \/ UndoObject(r) \/ TouchAlbum(r) \/ GiveLink(r)
    BY <2>1, <2>2 DEF FindToUpload, CountItems, UndoObject, TouchAlbum, GiveLink
  <2>3. CASE FindToReorder(r) \/ SaveAlbum(r) \/ FindToDelete(r) \/ ListToDelete(r) \/ DeleteKey(r)
    BY <2>1, <2>3 DEF FindToReorder, SaveAlbum, FindToDelete, ListToDelete, DeleteKey
  <2>4. CASE CheckLink(r) \/ SetCookie(r) \/ ConsumeLink(r) \/ ReadUser(r) \/ Revoke(r) \/ WriteUser(r)
    BY <2>1, <2>4 DEF CheckLink, SetCookie, ConsumeLink, ReadUser, Revoke, WriteUser
  <2>5. CASE PruneLinks(r) \/ (\E raised \in BOOLEAN : Hear(r, raised)) \/ Heard(r) \/ Announced(r)
    BY <2>1, <2>5 DEF PruneLinks, Hear, Heard, Announced
  <2> QED BY <1>3, <2>2, <2>3, <2>4, <2>5
<1> QED BY <1>1, <1>2, <1>3 DEF Step

LEMMA NextAhead ==
  ASSUME ConfInv, RoomInv, \A i \in DOMAIN pos : pos[i] \in Int
  PROVE  Ahead(NextPosition)
<1>1. CASE DOMAIN pos = {}
  BY <1>1, RowsAssumption DEF Ahead, NextPosition
<1>2. CASE DOMAIN pos # {}
  <2> DEFINE places == {pos[i] : i \in DOMAIN pos}
  <2>1. IsFiniteSet(places)
    <3>1. [i \in DOMAIN pos |-> pos[i]] \in Surjection(DOMAIN pos, places)
      BY DEF Surjection
    <3> QED BY <3>1, FS_Surjection DEF RoomInv
  <2>2. places \in SUBSET Int /\ places # {}
    BY <1>2
  <2>3. Max(places) \in Int /\ \A i \in DOMAIN pos : Max(places) >= pos[i]
    <3> HIDE DEF places
    <3>1. Max(places) \in places /\ \A y \in places : Max(places) >= y
      BY <2>1, <2>2, MaxFacts
    <3> QED BY <2>2, <3>1 DEF places
  <2>4. NextPosition = Max(places) + Gap
    BY <1>2 DEF NextPosition
  <2>5. PICK m \in Int : m = Max(places)
    BY <2>3
  <2>6. \A i \in DOMAIN pos : (m + Gap) - pos[i] >= Gap
    BY <2>3, <2>5, RowsAssumption
  <2> QED BY <2>4, <2>5, <2>6, RowsAssumption DEF Ahead
<1> QED BY <1>1, <1>2

LEMMA SpreadPlace ==
  ASSUME PlaceInv, ConfInv, RoomInv, SpreadInv, NEW r \in Requests, Place(r)
  PROVE  SpreadInv'
<1>1. Others(r) /\ UNCHANGED <<pos, moved>> /\ Free(r, Album)
  BY StepLegal, GoFacts DEF Step, Steps, Place, sameDesk
<1>2. \A s \in Requests \ {r} : pc[s] # "up_insert"
  BY <1>1 DEF Free, SpreadInv
<1>3. CASE album = "gone"
  <2>1. pc'[r] = "up_undo" /\ UNCHANGED tx
    BY <1>3, GoFacts DEF Place, To
  <2> QED BY <1>1, <2>1, SpreadKept DEF Carries, SpreadInv
<1>4. CASE album # "gone"
  <2>1. pc'[r] = "up_insert" /\ Write(r, Album, NextPosition)
    BY <1>4, GoFacts DEF Place, To
  <2>2. TxOf(r, With(tx[r], Album, NextPosition))
    BY <2>1, TxFacts
  <2>3. tx'[r] = With(tx[r], Album, NextPosition) /\ \A s \in Requests \ {r} : tx'[s] = tx[s]
    BY <2>2 DEF TxOf
  <2>4. Album \in DOMAIN tx'[r] /\ tx'[r][Album] = NextPosition
    BY <2>3 DEF With
  <2>5. Ahead(NextPosition)
    BY NextAhead DEF SpreadInv
  <2>6. Ahead(tx[r][Album])'
    BY <1>1, <2>4, <2>5 DEF Ahead
  <2>7. Carries(r)'
    BY <2>1, <2>6 DEF Carries
  <2> QED BY <1>1, <1>2, <2>3, <2>4, <2>7, SpreadKept DEF SpreadInv
<1> QED BY <1>3, <1>4

LEMMA SpreadInsert ==
  ASSUME PlaceInv, ConfInv, SpreadInv, NEW r \in Requests, Insert(r)
  PROVE  SpreadInv'
<1>1. Others(r) /\ UNCHANGED moved /\ pc[r] = "up_insert" /\ pc'[r] = "emit"
  BY StepLegal, GoFacts DEF Step, Steps, Insert, sameDesk, Announce
<1>2. PICK i, v : i = loc[r].item /\ v = tx[r][Album]
  OBVIOUS
<1>3. pos' = With(pos, i, v) /\ Rollback(r) /\ Ahead(v)
  BY <1>1, <1>2 DEF Insert, InsertItem, SpreadInv, Carries
<1>4. /\ DOMAIN pos' = DOMAIN pos \cup {i} /\ pos'[i] = v
      /\ \A j \in DOMAIN pos \ {i} : pos'[j] = pos[j]
  BY <1>3 DEF With
<1>5. \A j \in DOMAIN pos' : pos'[j] \in Int
  BY <1>3, <1>4 DEF Ahead, SpreadInv
<1>6. ASSUME NEW j \in DOMAIN pos' \ moved, j # i
      PROVE  v - pos'[j] >= Gap /\ ~(v <= pos'[j])
  <2>1. pos'[j] = pos[j] /\ pos[j] \in Int /\ v \in Int /\ v - pos[j] >= Gap
    BY <1>3, <1>4, <1>6 DEF Ahead, SpreadInv
  <2> QED BY <2>1, RowsAssumption
<1>7. UploadsSpread'
  <2> SUFFICES ASSUME NEW j \in DOMAIN pos' \ moved, NEW k \in DOMAIN pos' \ moved, j # k, pos'[j] <= pos'[k]
               PROVE  pos'[k] - pos'[j] >= Gap
    BY <1>1 DEF UploadsSpread
  <2>1. CASE j = i
    BY <1>4, <1>6, <2>1
  <2>2. CASE k = i
    BY <1>4, <1>6, <2>2
  <2>3. CASE j # i /\ k # i
    BY <1>4, <2>3 DEF SpreadInv, UploadsSpread
  <2> QED BY <2>1, <2>2, <2>3
<1>8. \A s \in Requests \ {r} : pc'[s] # "up_insert" /\ tx'[s] = tx[s]
  BY <1>1, <1>3, TxFacts DEF SpreadInv, Others, TxOf
<1>9. ASSUME NEW s \in Requests PROVE Carries(s)'
  BY <1>1, <1>8 DEF Carries, SpreadInv, Others
<1> QED BY <1>1, <1>5, <1>7, <1>8, <1>9 DEF SpreadInv

LEMMA SpreadReorder ==
  ASSUME PlaceInv, ConfInv, RoomInv, SpreadInv, NEW r \in Requests,
         ListToReorder(r) \/ Move(r) \/ ReadBack(r)
  PROVE  SpreadInv'
<1>1. Others(r) /\ UNCHANGED <<pos, moved>>
  BY StepLegal, GoFacts DEF Step, Steps, ListToReorder, Move, ReadBack, Reads, sameRows, rowVars, sameDesk
<1>2. (\E t : TxOf(r, t))
  BY TidyReorder DEF Tidy
<1>3. Carries(r)' /\ pc'[r] # "up_insert" => SpreadInv'
  BY <1>1, <1>2, SpreadKept DEF TxOf, SpreadInv
<1> USE DEF Reads, sameRows, rowVars
<1>4. CASE ListToReorder(r)
  <2>1. DOMAIN tx'[r] = {}
    BY <1>4 DEF ListToReorder, ConfInv, HoldInv, Holding
  <2>2. CASE Done(r)
    <3>1. pc'[r] = "idle"
      BY <2>2, GoFacts DEF Done
    <3> QED BY <1>3, <3>1 DEF Carries
  <2>3. CASE ~Done(r)
    <3> DEFINE Asks(s, f) == Go(r, "ro_write", [loc[r] EXCEPT !.todo = [k \in DOMAIN s |-> <<s[k], f[s[k]]>>]])
    <3>0. PICK some \in SUBSET DOMAIN pos \ {{}} :
            \E f \in [some -> Places] : \E s \in SetToSeqs(some) : Asks(s, f)
      BY <1>4, <2>3 DEF ListToReorder
    <3>1. PICK f \in [some -> Places], s \in SetToSeqs(some) : Asks(s, f)
      BY <3>0
    <3>2. Cardinality(some) \in Nat
      BY <3>1, FS_Subset, FS_CardinalityType DEF RoomInv
    <3>3. [k \in DOMAIN s |-> <<s[k], f[s[k]]>>] \in Seq(Items \X Int)
      <4>1. s \in [1 .. Cardinality(some) -> some] /\ f \in [some -> Places]
        BY <3>1 DEF SetToSeqs
      <4>2. \A k \in 1 .. Cardinality(some) : <<s[k], f[s[k]]>> \in Items \X Int
        BY <4>1, DeskAssumption DEF ConfInv
      <4>3. DOMAIN s = 1 .. Cardinality(some)
        BY <4>1
      <4>4. [k \in DOMAIN s |-> <<s[k], f[s[k]]>>] \in [1 .. Cardinality(some) -> Items \X Int]
        BY <4>2, <4>3
      <4> QED BY <3>2, <4>4
    <3>4. PICK todo : todo = [k \in DOMAIN s |-> <<s[k], f[s[k]]>>]
      OBVIOUS
    <3>5. pc'[r] = "ro_write" /\ loc'[r] = [loc[r] EXCEPT !.todo = todo]
      BY <3>1, <3>4, GoFacts
    <3>6. loc'[r].todo = todo
      BY <3>5 DEF PlaceInv, Record
    <3> QED BY <1>3, <2>1, <3>3, <3>4, <3>5, <3>6 DEF Carries
  <2> QED BY <2>2, <2>3
<1>5. CASE Move(r)
  <2>1. pc'[r] = "ro_write" /\ loc'[r] = [loc[r] EXCEPT !.todo = Tail(@)] /\ pc[r] = "ro_write"
    BY <1>5, GoFacts DEF Move
  <2>2. PICK todo : todo = loc[r].todo
    OBVIOUS
  <2>3. todo \in Seq(Items \X Int) /\ todo # <<>> /\ \A x \in DOMAIN tx[r] : tx[r][x] \in Int
    BY <1>5, <2>1, <2>2 DEF Move, SpreadInv, Carries
  <2>4. Head(todo) \in Items \X Int /\ Tail(todo) \in Seq(Items \X Int)
    BY <2>3
  <2>5. loc'[r].todo = Tail(todo)
    BY <2>1, <2>2 DEF PlaceInv, Record
  <2>6. PICK i, v : i = Head(todo)[1] /\ v = Head(todo)[2]
    OBVIOUS
  <2>7. Write(r, i, v) \/ UNCHANGED tx
    BY <1>5, <2>2, <2>6 DEF Move
  <2>8. tx'[r] = tx[r] \/ tx'[r] = With(tx[r], i, v)
    BY <2>7, TxFacts DEF TxOf
  <2>9. v \in Int
    BY <2>4, <2>6
  <2>10. \A x \in DOMAIN tx'[r] : tx'[r][x] \in Int
    <3>1. CASE tx'[r] = tx[r]
      BY <2>3, <3>1
    <3>2. CASE tx'[r] = With(tx[r], i, v)
      BY <2>3, <2>9, <3>2 DEF With
    <3> QED BY <2>8, <3>1, <3>2
  <2> QED BY <1>3, <2>1, <2>4, <2>5, <2>10 DEF Carries
<1>6. CASE ReadBack(r)
  <2>1. PICK s \in Ordered(Seen(r, pos)) :
          Go(r, "ro_commit", [loc[r] EXCEPT !.list = [k \in DOMAIN s |-> <<s[k], Seen(r, pos)[s[k]]>>]])
    BY <1>6 DEF ReadBack
  <2>2. \A x \in DOMAIN tx[r] : tx[r][x] \in Int
    BY <1>6 DEF ReadBack, SpreadInv, Carries
  <2>3. DOMAIN Seen(r, pos) = DOMAIN pos /\ \A i \in DOMAIN pos : Seen(r, pos)[i] \in Int
    BY <2>2 DEF Seen, SpreadInv
  <2>4. Cardinality(DOMAIN pos) \in Nat /\ s \in [1 .. Cardinality(DOMAIN pos) -> DOMAIN pos]
    BY <2>3, FS_CardinalityType DEF RoomInv, Ordered, SetToSeqs
  <2>5. [k \in DOMAIN s |-> <<s[k], Seen(r, pos)[s[k]]>>] \in [1 .. Cardinality(DOMAIN pos) -> Items \X Int]
    BY <2>3, <2>4 DEF ConfInv
  <2>6. PICK list : list = [k \in DOMAIN s |-> <<s[k], Seen(r, pos)[s[k]]>>]
    OBVIOUS
  <2>7. list \in Seq(Items \X Int)
    <3>1. PICK n \in Nat : n = Cardinality(DOMAIN pos)
      BY <2>4
    <3>2. list \in [1 .. n -> Items \X Int]
      BY <2>5, <2>6, <3>1
    <3> QED BY <3>2
  <2>8. pc'[r] = "ro_commit" /\ loc'[r] = [loc[r] EXCEPT !.list = list] /\ UNCHANGED tx
    BY <1>6, <2>1, <2>6, GoFacts DEF ReadBack
  <2>9. loc'[r].list = list
    BY <2>8 DEF PlaceInv, Record
  <2> QED BY <1>3, <2>2, <2>7, <2>8, <2>9 DEF Carries
<1> QED BY <1>4, <1>5, <1>6

LEMMA SpreadCommit ==
  ASSUME PlaceInv, ConfInv, SpreadInv, NEW r \in Requests, CommitMoves(r)
  PROVE  SpreadInv'
<1>1. Others(r) /\ moved' = moved \cup DOMAIN tx[r] /\ Commit(r) /\ pc[r] = "ro_commit"
  BY StepLegal, GoFacts DEF Step, Steps, CommitMoves
<1>2. \A x \in DOMAIN tx[r] : tx[r][x] \in Int
  BY <1>1 DEF SpreadInv, Carries
<1>3. pos' = [i \in DOMAIN pos |-> IF i \in DOMAIN tx[r] THEN tx[r][i] ELSE pos[i]]
  BY <1>1 DEF Commit, Seen
<1>4. /\ \A i \in DOMAIN pos' \ moved' : i \in DOMAIN pos \ moved /\ pos'[i] = pos[i]
      /\ \A i \in DOMAIN pos' : pos'[i] \in Int
  BY <1>1, <1>2, <1>3 DEF SpreadInv
<1>5. TxOf(r, NoRows)
  BY <1>1, TxFacts DEF Commit
<1>6. DOMAIN tx'[r] = {}
  BY <1>5, NoRowsEmpty DEF TxOf
<1>7. PICK list : list = loc[r].list
  OBVIOUS
<1>8. list \in Seq(Items \X Int)
  BY <1>1, <1>7 DEF SpreadInv, Carries
<1>9. PICK todo : todo = [k \in DOMAIN list |-> <<list[k][1], k * Gap>>]
  OBVIOUS
<1>10. todo \in Seq(Items \X Int)
  <2>1. Len(list) \in Nat /\ DOMAIN list = 1 .. Len(list) /\ \A k \in 1 .. Len(list) : list[k][1] \in Items
    BY <1>8
  <2>2. \A k \in 1 .. Len(list) : k * Gap \in Int
    BY <2>1, RowsAssumption
  <2>3. todo \in [1 .. Len(list) -> Items \X Int]
    BY <1>9, <2>1, <2>2
  <2> QED BY <2>1, <2>3
<1>11. To(r, "ro_save") \/ Go(r, "ro_write", [loc[r] EXCEPT !.again = TRUE, !.todo = todo])
  BY <1>7, <1>9 DEF CommitMoves
<1>12. pc'[r] = "ro_save" \/ (pc'[r] = "ro_write" /\ loc'[r].todo = todo)
  <2>1. PICK l : l = [loc[r] EXCEPT !.again = TRUE, !.todo = todo]
    OBVIOUS
  <2>2. l.todo = todo
    BY <2>1 DEF PlaceInv, Record
  <2>3. To(r, "ro_save") \/ Go(r, "ro_write", l)
    BY <1>11, <2>1
  <2>4. CASE To(r, "ro_save")
    BY <2>4, GoFacts DEF To
  <2>5. CASE Go(r, "ro_write", l)
    <3>1. pc'[r] = "ro_write" /\ loc'[r] = l
      BY <2>5, GoFacts
    <3> QED BY <2>2, <3>1
  <2> QED BY <2>3, <2>4, <2>5
<1>13. Carries(r)'
  BY <1>6, <1>10, <1>12 DEF Carries
<1> QED BY <1>1, <1>4, <1>5, <1>12, <1>13, SpreadKept DEF TxOf

LEMMA SpreadSettings ==
  ASSUME PlaceInv, ConfInv, SpreadInv, NEW r \in Requests, CommitSettings(r)
  PROVE  SpreadInv'
<1>1. Others(r) /\ UNCHANGED moved /\ Commit(r) /\ pc[r] = "cf_set" /\ pc'[r] = "emit"
  BY StepLegal, GoFacts DEF Step, Steps, CommitSettings, sameDesk, Announce
<1>2. PICK n \in Nat : Patched(r, n)
  BY <1>1 DEF ConfInv, HoldInv
<1>3. DOMAIN tx[r] \subseteq Keys
  <2>1. PICK list : list = loc[r].list
    OBVIOUS
  <2>2. list \in Seq(Keys \X Values) /\ n <= Len(list) /\ Len(list) \in Nat
    BY <1>2, <2>1, DeskAssumption DEF Patched
  <2>3. \A x \in DOMAIN tx[r] : \E k \in 1 .. n : list[k] = <<x, tx[r][x]>>
    BY <1>2, <2>1 DEF Patched
  <2>4. \A k \in 1 .. n : list[k] \in Keys \X Values
    BY <2>2
  <2> QED BY <2>3, <2>4
<1>4. /\ DOMAIN pos' = DOMAIN pos
      /\ \A i \in DOMAIN pos : pos'[i] = pos[i]
  <2>1. \A i \in DOMAIN pos : i \notin DOMAIN tx[r]
    BY <1>3, RowsAssumption DEF ConfInv
  <2> QED BY <1>1, <2>1 DEF Commit, Seen
<1>5. TxOf(r, NoRows)
  BY <1>1, TxFacts DEF Commit
<1>6. Carries(r)'
  BY <1>1 DEF Carries
<1> QED BY <1>1, <1>4, <1>5, <1>6, SpreadKept DEF TxOf, SpreadInv

LEMMA SpreadStep ==
  PlaceInv /\ ConfInv /\ RoomInv /\ SpreadInv /\ [Next]_vars => SpreadInv'
<1> SUFFICES ASSUME PlaceInv, ConfInv, RoomInv, SpreadInv, [Next]_vars PROVE SpreadInv'
  OBVIOUS
<1>1. CASE \E r \in Requests : BeginAny(r) \/ Step(r)
  <2>1. PICK r \in Requests : BeginAny(r) \/ Step(r)
    BY <1>1
  <2>2. Others(r)
    BY <2>1, BeginLegal, StepLegal, GoFacts DEF Steps
  <2>3. \A s \in Requests \ {r} : tx'[s] = tx[s]
    BY <2>1, StepTidy, CommitWhole DEF Tidy, TxOf
  <2>4. CASE UNCHANGED <<pos, moved>> /\ pc'[r] \notin {"up_insert", "ro_write", "ro_commit"}
    BY <2>2, <2>3, <2>4, SpreadKept DEF Carries, SpreadInv
  <2>5. CASE DeleteRows(r)
    <3>1. /\ UNCHANGED moved /\ pc'[r] \in {"idle", "del_keys"}
          /\ pos' = pos \/ pos' = NoRows
      BY <2>5, GoFacts DEF DeleteRows, DropAlbum, Done, To, sameDesk
    <3>2. \A i \in DOMAIN pos' : i \in DOMAIN pos /\ pos'[i] = pos[i]
      BY <3>1, NoRowsEmpty
    <3> QED BY <2>2, <2>3, <3>1, <3>2, SpreadKept DEF Carries, SpreadInv
  <2> QED BY <2>1, <2>4, <2>5, StepStays, SpreadPlace, SpreadInsert, SpreadReorder, SpreadCommit, SpreadSettings
<1>2. CASE ~(\E r \in Requests : BeginAny(r) \/ Step(r))
  <2>1. UNCHANGED <<pc, loc, tx, pos, moved>>
    <3>1. UNCHANGED moved
      BY <1>2 DEF Next, StartZip, LinkExpires, LinkAges, CookieExpires, AlbumExpires, vars, deskVars
    <3> QED BY <1>2, <3>1, Outside
  <2>2. \A v : Ahead(v) => Ahead(v)'
    BY <2>1 DEF Ahead
  <2>3. ASSUME NEW r \in Requests PROVE Carries(r)'
    BY <2>1, <2>2 DEF SpreadInv, Carries
  <2> QED BY <2>1, <2>3 DEF SpreadInv, UploadsSpread
<1> QED BY <1>1, <1>2

LEMMA SpreadInit == Init => SpreadInv
<1> SUFFICES ASSUME Init PROVE SpreadInv
  OBVIOUS
<1>1. first \in SetToSeqs(Items)
  BY FirstFacts
<1>2. Begins \in Nat /\ Begins <= Cardinality(Items) /\ Cardinality(Items) \in Nat
  BY RowsAssumption, DeskAssumption, FS_CardinalityType
<1>3. \A k, l \in 1 .. Begins : first[k] = first[l] => k = l
  BY <1>1, <1>2 DEF SetToSeqs, IsInjective
<1>4. ASSUME NEW i \in DOMAIN pos PROVE \E k \in 1 .. Begins : i = first[k] /\ pos[i] = Gap * k
  <2>1. PICK k \in 1 .. Begins : i = first[k]
    BY <1>4 DEF Init
  <2>2. (CHOOSE l \in 1 .. Begins : first[l] = i) = k
    BY <1>3, <2>1
  <2> QED BY <2>1, <2>2 DEF Init
<1>5. \A i \in DOMAIN pos : pos[i] \in Int
  BY <1>2, <1>4, RowsAssumption
<1>6. UploadsSpread
  <2> SUFFICES ASSUME NEW i \in DOMAIN pos, NEW j \in DOMAIN pos, i # j, pos[i] <= pos[j]
               PROVE  pos[j] - pos[i] >= Gap
    BY DEF UploadsSpread
  <2>1. PICK k \in 1 .. Begins : i = first[k] /\ pos[i] = Gap * k
    BY <1>4
  <2>2. PICK l \in 1 .. Begins : j = first[l] /\ pos[j] = Gap * l
    BY <1>4
  <2>3. k # l /\ k \in Nat /\ l \in Nat /\ Gap \in Nat /\ Gap > 0
    BY <1>2, <2>1, <2>2, RowsAssumption
  <2>4. k < l
    BY <2>1, <2>2, <2>3
  <2>5. Gap * l - Gap * k >= Gap
    BY <2>3, <2>4
  <2> QED BY <2>1, <2>2, <2>5
<1>7. \A r \in Requests : pc[r] = "idle"
  BY DEF Init
<1> QED BY <1>5, <1>6, <1>7 DEF SpreadInv, Carries

\* However uploads, reorderings and deletions interleave, items that nobody
\* reordered stay a whole gap apart: two uploads never get the same place.
THEOREM Spread == Spec => []UploadsSpread
<1>1. SpreadInv => UploadsSpread
  BY DEF SpreadInv
<1> QED BY <1>1, PlaceInit, PlaceStep, RoomInit, RoomStep, ConfInit, ConfStep,
           SpreadInit, SpreadStep, PTL DEF Spec

-----------------------------------------------------------------------------
(* Types.                                                                  *)

ZipTyped ==
  /\ ZipTypeOK
  /\ fifo \in Seq({"chunk", "end", "error"} \X Int) /\ Len(listing) \in Nat

LEMMA BridgeTyped ==
  ASSUME ZipTyped, NEW n \in Nat, NEW list, Len(list) \in Nat, n <= Len(list),
         Bridge(n + 1, list), listing' = list, UNCHANGED stored
  PROVE  ZipTyped'
<1>1. /\ at' = n + 1 /\ reads' = 0 /\ last' = END /\ fifo' = <<>> /\ stopped' = FALSE
      /\ client' \in {"done", "waiting"} /\ thread' \in {"over", "open"}
  BY DEF Bridge
<1>2. at' \in 0 .. Len(list) + 1 /\ 0 \in 0 .. Chunks /\ Cap \in Nat
  BY <1>1, BridgeAssumption
<1>3. fifo' \in Seq({"chunk", "end", "error"} \X Int) /\ Len(fifo') <= Cap
  BY <1>1, <1>2
<1> QED BY <1>1, <1>2, <1>3 DEF ZipTyped, ZipTypeOK

LEMMA ZipTypedStep ==
  RoomInv /\ ConfInv /\ StreamInv /\ ZipTyped /\ [Next]_vars => ZipTyped'
<1> SUFFICES ASSUME RoomInv, ConfInv, StreamInv, ZipTyped, [Next]_vars PROVE ZipTyped'
  OBVIOUS
<1>1. CASE StartZip
  <2>1. PICK s \in Ordered(pos) : StartArchive(s)
    BY <1>1 DEF StartZip
  <2>2. s \in [1 .. Cardinality(DOMAIN pos) -> DOMAIN pos] /\ Cardinality(DOMAIN pos) \in Nat
    BY FS_CardinalityType DEF RoomInv, Ordered, SetToSeqs
  <2>3. s \in Seq(DOMAIN pos)
    BY <2>2
  <2>4. Len(s) \in Nat
    BY <2>3
  <2>5. Bridge(0 + 1, s) /\ listing' = s /\ UNCHANGED stored
    BY <2>1 DEF StartArchive
  <2> QED BY <2>4, <2>5, BridgeTyped
<1>2. CASE NextObject
  <2>1. at \in 1 .. Len(listing) /\ Len(listing) \in Nat
    BY <1>2 DEF NextObject, StreamInv, Flowing
  <2>2. Bridge(at + 1, listing) /\ listing' = listing /\ UNCHANGED stored /\ at \in Nat /\ at <= Len(listing)
    BY <1>2, <2>1 DEF NextObject
  <2> QED BY <2>1, <2>2, BridgeTyped
<1>3. CASE GetChunk \/ Raise \/ Leave
  <2>1. fifo # <<>> => /\ Tail(fifo) \in Seq({"chunk", "end", "error"} \X Int)
                       /\ Len(Tail(fifo)) = Len(fifo) - 1 /\ Len(fifo) \in Nat /\ Cap \in Nat
    BY BridgeAssumption DEF ZipTyped
  <2>2. fifo' \in Seq({"chunk", "end", "error"} \X Int) /\ Len(fifo') <= Cap
    <3>1. (fifo # <<>> /\ fifo' = Tail(fifo)) \/ UNCHANGED fifo
      BY <1>3 DEF GetChunk, Raise, Leave
    <3>2. fifo \in Seq({"chunk", "end", "error"} \X Int) /\ Len(fifo) <= Cap
      BY DEF ZipTyped, ZipTypeOK
    <3>3. CASE fifo # <<>> /\ fifo' = Tail(fifo)
      <4>1. Len(fifo') <= Len(fifo) /\ Len(fifo') \in Int
        BY <2>1, <3>3
      <4> QED BY <2>1, <3>2, <3>3, <4>1
    <3> QED BY <3>1, <3>2, <3>3
  <2>3. UNCHANGED <<stored, listing, at, thread, reads, last>> /\ client' \in {"waiting", "broken", "left"}
        /\ stopped' \in BOOLEAN
    BY <1>3 DEF GetChunk, Raise, Leave, ZipTyped, ZipTypeOK
  <2> QED BY <2>2, <2>3 DEF ZipTyped, ZipTypeOK
<1>4. CASE OpenStream \/ ReadChunk \/ CloseStream \/ Break
  BY <1>4, BridgeAssumption DEF OpenStream, ReadChunk, CloseStream, Break, Thread, ZipTyped, ZipTypeOK
<1>5. CASE PutChunk \/ PutLast
  <2>1. ASSUME NEW x \in {"chunk", "end", "error"} \X Int, Len(fifo) < Cap, fifo' = Append(fifo, x)
        PROVE  fifo' \in Seq({"chunk", "end", "error"} \X Int) /\ Len(fifo') <= Cap
    <3>1. fifo' \in Seq({"chunk", "end", "error"} \X Int) /\ Len(fifo') = Len(fifo) + 1 /\ Len(fifo) \in Nat
      BY <2>1 DEF ZipTyped
    <3> QED BY <2>1, <3>1, BridgeAssumption
  <2>2. <<"chunk", reads>> \in {"chunk", "end", "error"} \X Int /\ last \in {"chunk", "end", "error"} \X Int
    BY BridgeAssumption DEF ZipTyped, ZipTypeOK, END, ERROR
  <2>3. fifo' \in Seq({"chunk", "end", "error"} \X Int) /\ Len(fifo') <= Cap
    BY <1>5, <2>1, <2>2 DEF PutChunk, PutLast, ZipTyped, ZipTypeOK
  <2> QED BY <1>5, <2>3 DEF PutChunk, PutLast, Thread, ZipTyped, ZipTypeOK
<1>6. CASE UNCHANGED streamVars /\ stored' \subseteq Objects
  BY <1>6 DEF streamVars, ZipTyped, ZipTypeOK
<1>7. stored \subseteq Items /\ Objects = Items
  BY DeskAssumption DEF ZipTyped, ZipTypeOK
<1>8. ASSUME NEW r \in Requests, BeginAny(r) PROVE UNCHANGED zipVars
  BY <1>8 DEF BeginAny, BeginUpload, BeginSubmit, Begin
<1>9. ASSUME NEW r \in Requests, Step(r) PROVE UNCHANGED streamVars /\ stored' \subseteq Items
  <2> USE <1>7 DEF Reads, sameZip, zipVars, streamVars
  <2>1. CASE FindToUpload(r) \/ CountItems(r) \/ PutObject(r) \/ Place(r) \/ UndoObject(r)
    BY <2>1 DEF FindToUpload, CountItems, PutObject, Place, UndoObject
  <2>2. CASE Insert(r) \/ TouchAlbum(r) \/ GiveLink(r)
    BY <2>2 DEF Insert, TouchAlbum, GiveLink
  <2>3. CASE FindToReorder(r) \/ ListToReorder(r) \/ Move(r) \/ ReadBack(r) \/ CommitMoves(r) \/ SaveAlbum(r)
    BY <2>3 DEF FindToReorder, ListToReorder, Move, ReadBack, CommitMoves, SaveAlbum
  <2>4. CASE FindToDelete(r) \/ ListToDelete(r) \/ DeleteRows(r) \/ DeleteKey(r)
    BY <2>4 DEF FindToDelete, ListToDelete, DeleteRows, DeleteKey
  <2>5. CASE CheckLink(r) \/ SetCookie(r) \/ ConsumeLink(r) \/ ReadUser(r) \/ Revoke(r) \/ WriteUser(r)
    BY <2>5 DEF CheckLink, SetCookie, ConsumeLink, ReadUser, Revoke, WriteUser
  <2>6. CASE ReadSettings(r) \/ SetOne(r) \/ CommitSettings(r) \/ PruneLinks(r)
    BY <2>6 DEF ReadSettings, SetOne, CommitSettings, PruneLinks
  <2>7. CASE (\E raised \in BOOLEAN : Hear(r, raised)) \/ Heard(r) \/ Announced(r) \/ Deadlock(r)
    BY <2>7 DEF Hear, Heard, Announced, Deadlock
  <2> QED BY <1>9, <2>1, <2>2, <2>3, <2>4, <2>5, <2>6, <2>7 DEF Step
<1>10. CASE \/ \E r \in Requests : BeginAny(r) \/ Step(r)
            \/ \E l \in Links : LinkExpires(l) \/ LinkAges(l) \/ CookieExpires(l)
            \/ AlbumExpires \/ UNCHANGED vars
  <2>1. UNCHANGED zipVars => UNCHANGED streamVars /\ UNCHANGED stored
    BY DEF zipVars, streamVars
  <2>2. UNCHANGED zipVars \/ \E r \in Requests : Step(r)
    BY <1>8, <1>10 DEF LinkExpires, LinkAges, CookieExpires, AlbumExpires, vars
  <2> QED BY <1>6, <1>7, <1>9, <2>1, <2>2
<1> QED BY <1>1, <1>2, <1>3, <1>4, <1>5, <1>10 DEF Next, ZipStep

\* The locks that transactions hold.
Rows == Items \cup Keys \cup {Album}

LockInv ==
  /\ \A r \in Requests : tx[r] = [x \in DOMAIN tx[r] |-> tx[r][x]] /\ DOMAIN tx[r] \subseteq Rows
  /\ \A r, s \in Requests : r # s => DOMAIN tx[r] \cap DOMAIN tx[s] = {}

LEMMA StepLocks ==
  ASSUME PlaceInv, ConfInv, NEW r \in Requests, BeginAny(r) \/ Step(r)
  PROVE  UNCHANGED tx \/ Rollback(r) \/ \E x \in Rows : \E v : Write(r, x, v)
<1> USE DEF Reads, sameRows, rowVars
<1>1. CASE BeginAny(r)
  BY <1>1 DEF BeginAny, BeginUpload, BeginSubmit, Begin
<1>2. CASE PutObject(r) \/ ListToReorder(r) \/ ReadBack(r) \/ ReadSettings(r)
  BY <1>2 DEF PutObject, ListToReorder, ReadBack, ReadSettings
<1>3. CASE Place(r)
  BY <1>3 DEF Place, Rows
<1>4. CASE Insert(r) \/ Deadlock(r) \/ CommitMoves(r) \/ CommitSettings(r)
  BY <1>4 DEF Insert, InsertItem, Deadlock, CommitMoves, CommitSettings, Commit
<1>5. CASE Move(r)
  <2>1. UNCHANGED tx \/ \E i \in DOMAIN pos : \E v : Write(r, i, v)
    BY <1>5 DEF Move
  <2> QED BY <2>1 DEF ConfInv, Rows
<1>6. CASE SetOne(r)
  <2>1. PICK n \in Nat : Patched(r, n)
    BY <1>6 DEF SetOne, ConfInv, HoldInv
  <2>2. PICK c : c = Head(loc[r].todo)
    OBVIOUS
  <2>3. c \in Keys \X Values
    BY <1>6, <2>1, <2>2, Upcoming DEF SetOne
  <2>4. UNCHANGED tx \/ Rollback(r) \/ Write(r, c[1], c[2])
    BY <1>6, <2>2 DEF SetOne
  <2> QED BY <2>3, <2>4 DEF Rows
<1>7. CASE \/ FindToUpload(r) \/ CountItems(r) \/ UndoObject(r) \/ TouchAlbum(r) \/ GiveLink(r)
           \/ FindToReorder(r) \/ SaveAlbum(r)
           \/ FindToDelete(r) \/ ListToDelete(r) \/ DeleteRows(r) \/ DeleteKey(r)
           \/ CheckLink(r) \/ SetCookie(r) \/ ConsumeLink(r)
           \/ ReadUser(r) \/ Revoke(r) \/ WriteUser(r) \/ PruneLinks(r)
           \/ (\E raised \in BOOLEAN : Hear(r, raised)) \/ Heard(r) \/ Announced(r)
  BY <1>7, StepPlain
<1> QED BY <1>1, <1>2, <1>3, <1>4, <1>5, <1>6, <1>7 DEF Step

LEMMA LockStep == PlaceInv /\ ConfInv /\ LockInv /\ [Next]_vars => LockInv'
<1> SUFFICES ASSUME PlaceInv, ConfInv, LockInv, [Next]_vars PROVE LockInv'
  OBVIOUS
<1>1. CASE \E r \in Requests : BeginAny(r) \/ Step(r)
  <2>1. PICK r \in Requests : BeginAny(r) \/ Step(r)
    BY <1>1
  <2>2. ASSUME NEW t, TxOf(r, t), t = [x \in DOMAIN t |-> t[x]], DOMAIN t \subseteq Rows,
               \A s \in Requests \ {r} : DOMAIN t \cap DOMAIN tx[s] = {}
        PROVE  LockInv'
    <3>1. tx'[r] = t /\ \A s \in Requests \ {r} : tx'[s] = tx[s]
      BY <2>2 DEF TxOf
    <3>2. \A s \in Requests : tx'[s] = [x \in DOMAIN tx'[s] |-> tx'[s][x]] /\ DOMAIN tx'[s] \subseteq Rows
      <4>1. ASSUME NEW s \in Requests PROVE tx'[s] = [x \in DOMAIN tx'[s] |-> tx'[s][x]]
        BY <2>2, <3>1 DEF LockInv
      <4>2. ASSUME NEW s \in Requests PROVE DOMAIN tx'[s] \subseteq Rows
        BY <2>2, <3>1 DEF LockInv
      <4> QED BY <4>1, <4>2
    <3>3. \A q, s \in Requests : q # s => DOMAIN tx'[q] \cap DOMAIN tx'[s] = {}
      BY <2>2, <3>1 DEF LockInv
    <3> QED BY <3>2, <3>3 DEF LockInv, Rows
  <2>3. CASE UNCHANGED tx
    BY <2>3 DEF LockInv, Rows
  <2>4. CASE Rollback(r)
    <3>1. TxOf(r, NoRows) /\ NoRows = [x \in DOMAIN NoRows |-> NoRows[x]]
      BY <2>4, TxFacts DEF NoRows
    <3> QED BY <2>2, <3>1, NoRowsEmpty
  <2>5. ASSUME NEW x \in Rows, NEW v, Write(r, x, v) PROVE LockInv'
    <3>1. PICK t : t = With(tx[r], x, v)
      OBVIOUS
    <3>2. TxOf(r, t) /\ Free(r, x)
      BY <2>5, <3>1, TxFacts DEF Write
    <3>3. t = [y \in DOMAIN t |-> t[y]] /\ DOMAIN t = DOMAIN tx[r] \cup {x}
      BY <3>1 DEF With
    <3>4. DOMAIN t \subseteq Rows
      BY <2>5, <3>3 DEF LockInv
    <3>5. ASSUME NEW s \in Requests \ {r} PROVE DOMAIN t \cap DOMAIN tx[s] = {}
      <4>1. DOMAIN tx[r] \cap DOMAIN tx[s] = {} /\ x \notin DOMAIN tx[s]
        BY <3>2 DEF LockInv, Free
      <4> QED BY <3>3, <4>1
    <3> QED BY <2>2, <3>2, <3>3, <3>4, <3>5
  <2> QED BY <2>1, <2>3, <2>4, <2>5, StepLocks
<1>2. CASE ~(\E r \in Requests : BeginAny(r) \/ Step(r))
  <2>1. UNCHANGED tx
    BY <1>2, Outside
  <2> QED BY <2>1 DEF LockInv, Rows
<1> QED BY <1>1, <1>2

\* A deleted album has nothing, and nobody is about to give it anything.
GoneInv ==
  album = "gone" => /\ DOMAIN pos = {}
                    /\ \A l \in Links : links[l].state \in {"unused", "deleted"}
                    /\ \A r \in Requests : pc[r] # "up_insert"

RowInv ==
  /\ album \in {"open", "expired", "gone"} /\ suspended \in BOOLEAN
  /\ config \in [Keys -> Values \cup {Unset}]
  /\ pos = [i \in DOMAIN pos |-> pos[i]]
  /\ GoneInv

\* Only DeleteRows takes the album away.
LEMMA StepAlbum ==
  ASSUME NEW r \in Requests, BeginAny(r) \/ Step(r)
  PROVE  /\ album' = album \/ DeleteRows(r)
         /\ suspended' = suspended \/ WriteUser(r)
<1> USE DEF Reads, sameRows, rowVars
<1>1. CASE BeginAny(r)
  BY <1>1 DEF BeginAny, BeginUpload, BeginSubmit, Begin
<1>2. CASE FindToUpload(r) \/ CountItems(r) \/ PutObject(r) \/ Place(r) \/ UndoObject(r)
  BY <1>2 DEF FindToUpload, CountItems, PutObject, Place, UndoObject
<1>3. CASE Insert(r) \/ TouchAlbum(r) \/ GiveLink(r)
  BY <1>3 DEF Insert, TouchAlbum, GiveLink
<1>4. CASE FindToReorder(r) \/ ListToReorder(r) \/ Move(r) \/ ReadBack(r) \/ CommitMoves(r) \/ SaveAlbum(r)
  BY <1>4 DEF FindToReorder, ListToReorder, Move, ReadBack, CommitMoves, SaveAlbum
<1>5. CASE FindToDelete(r) \/ ListToDelete(r) \/ DeleteRows(r) \/ DeleteKey(r)
  BY <1>5 DEF FindToDelete, ListToDelete, DeleteRows, DeleteKey
<1>6. CASE CheckLink(r) \/ SetCookie(r) \/ ConsumeLink(r) \/ ReadUser(r) \/ Revoke(r) \/ WriteUser(r)
  BY <1>6 DEF CheckLink, SetCookie, ConsumeLink, ReadUser, Revoke, WriteUser
<1>7. CASE ReadSettings(r) \/ SetOne(r) \/ CommitSettings(r) \/ PruneLinks(r)
  BY <1>7 DEF ReadSettings, SetOne, CommitSettings, PruneLinks
<1>8. CASE (\E raised \in BOOLEAN : Hear(r, raised)) \/ Heard(r) \/ Announced(r) \/ Deadlock(r)
  BY <1>8 DEF Hear, Heard, Announced, Deadlock
<1> QED BY <1>1, <1>2, <1>3, <1>4, <1>5, <1>6, <1>7, <1>8 DEF Step

\* No link comes back to life once the album is gone.
LEMMA LinksOfGone ==
  ASSUME LinkInv, [Next]_vars, album = "gone",
         \A l \in Links : links[l].state \in {"unused", "deleted"}
  PROVE  \A l \in Links : links'[l].state \in {"unused", "deleted"}
<1>1. CASE \E r \in Requests : BeginAny(r) \/ Step(r)
  <2>1. PICK r \in Requests : BeginAny(r) \/ Step(r)
    BY <1>1
  <2>2. CASE UNCHANGED links
    BY <2>2
  <2>3. CASE DropAlbum(r) \/ RevokeLinks
    <3>1. ASSUME NEW l \in Links PROVE links'[l] = links[l] \/ links'[l] = [links[l] EXCEPT !.state = "deleted"]
      BY <2>3 DEF DropAlbum, RevokeLinks
    <3>2. ASSUME NEW l \in Links PROVE links'[l].state \in {links[l].state, "deleted"}
      BY <3>1 DEF LinkInv
    <3> QED BY <3>2
  <2>4. ASSUME NEW what, ForgetLinks(what), NEW l \in Links PROVE links'[l].state \in {"unused", "deleted"}
    <3>1. links'[l] = links[l] \/ links'[l] = [links[l] EXCEPT !.state = "deleted"]
      BY <2>4 DEF ForgetLinks
    <3> QED BY <3>1 DEF LinkInv
  <2>5. ASSUME NEW l, Consumable(l), Consume(l) PROVE UNCHANGED links
    <3>1. l \notin Links
      BY <2>5 DEF Consumable, Live
    <3> QED BY <2>5, <3>1 DEF Consume, LinkInv
  <2> QED BY <2>1, <2>2, <2>3, <2>4, <2>5, StepLinks
<1>2. CASE ~(\E r \in Requests : BeginAny(r) \/ Step(r))
  <2>1. UNCHANGED links \/ \E l \in Links : LinkExpires(l) \/ LinkAges(l)
    BY <1>2, Outside
  <2> QED BY <2>1 DEF LinkExpires, LinkAges, LinkInv
<1> QED BY <1>1, <1>2

LEMMA RowStep ==
  PlaceInv /\ ConfInv /\ LinkInv /\ SpreadInv /\ RowInv /\ [Next]_vars => RowInv'
<1> SUFFICES ASSUME PlaceInv, ConfInv, LinkInv, SpreadInv, RowInv, [Next]_vars PROVE RowInv'
  OBVIOUS
<1>1. CASE \E r \in Requests : BeginAny(r) \/ Step(r)
  <2>1. PICK r \in Requests : BeginAny(r) \/ Step(r)
    BY <1>1
  <2>2. Others(r)
    BY <2>1, BeginLegal, StepLegal, GoFacts DEF Steps
  <2>3. album' \in {"open", "expired", "gone"} /\ suspended' \in BOOLEAN
    BY <2>1, StepAlbum DEF RowInv, DeleteRows, DropAlbum, WriteUser
  <2>4. config' \in [Keys -> Values \cup {Unset}]
    <3>1. CASE UNCHANGED config
      BY <3>1 DEF RowInv
    <3>2. CASE CommitSettings(r)
      <4>1. PICK patch : patch = loc[r].list
        OBVIOUS
      <4>2. patch \in Seq(Keys \X Values)
        BY <3>2, <4>1, DeskAssumption DEF CommitSettings, ConfInv, HoldInv, Patched
      <4>3. /\ config' \in [Keys -> {config'[k] : k \in Keys}]
            /\ \A k \in Keys : config'[k] # config[k] => \E n \in DOMAIN patch : patch[n] = <<k, config'[k]>>
        BY <3>2, <4>1, CommitWhole DEF Whole
      <4>4. \A n \in DOMAIN patch : patch[n] \in Keys \X Values
        BY <4>2
      <4>5. \A k \in Keys : config'[k] \in Values \cup {Unset}
        <5> TAKE k \in Keys
        <5>1. CASE config'[k] = config[k]
          BY <5>1 DEF RowInv
        <5>2. CASE config'[k] # config[k]
          <6>1. <<k, config'[k]>> \in Keys \X Values
            BY <4>3, <4>4, <5>2
          <6> QED BY <6>1
        <5> QED BY <5>1, <5>2
      <4> QED BY <4>3, <4>5
    <3> QED BY <2>1, <3>1, <3>2, StepTidy DEF Tidy
  <2>5. pos' = [i \in DOMAIN pos' |-> pos'[i]]
    <3>1. CASE UNCHANGED pos
      BY <3>1 DEF RowInv
    <3>2. CASE Insert(r) \/ CommitMoves(r) \/ CommitSettings(r) \/ DeleteRows(r)
      BY <3>2 DEF RowInv, Insert, InsertItem, With, CommitMoves, CommitSettings, Commit, Seen,
                  DeleteRows, DropAlbum, NoRows
    <3>3. Place(r) \/ ListToReorder(r) \/ Move(r) \/ ReadBack(r) => UNCHANGED pos
      BY DEF Place, ListToReorder, Move, ReadBack, Reads, sameRows, rowVars
    <3> QED BY <2>1, <3>1, <3>2, <3>3, StepStays
  <2>6. GoneInv'
    <3>1. CASE DeleteRows(r) /\ album # "gone"
      <4>1. /\ DOMAIN pos' = {} /\ Free(r, Album) /\ pc'[r] = "del_keys"
            /\ links' = [l \in Links |-> IF links[l].state = "unused" THEN links[l]
                                         ELSE [links[l] EXCEPT !.state = "deleted"]]
        BY <3>1, NoRowsEmpty, GoFacts DEF DeleteRows, DropAlbum, To
      <4>2. \A l \in Links : links'[l].state \in {"unused", "deleted"}
        BY <4>1 DEF LinkInv
      <4>3. \A s \in Requests : pc'[s] # "up_insert"
        BY <2>2, <4>1 DEF Others, Free, SpreadInv
      <4> QED BY <4>1, <4>2, <4>3 DEF GoneInv
    <3>2. CASE album = "gone"
      <4>1. pc'[r] # "up_insert"
        <5>1. ASSUME Place(r) PROVE pc'[r] = "up_undo"
          BY <3>2, <5>1, GoFacts DEF Place, To
        <5>2. ASSUME \/ ListToReorder(r) \/ Move(r) \/ ReadBack(r) \/ CommitMoves(r)
                     \/ CommitSettings(r) \/ DeleteRows(r) \/ Insert(r)
              PROVE  pc'[r] # "up_insert"
          <6>1. \E label \in {"idle", "ro_write", "ro_commit", "ro_save", "emit", "del_keys"} : \E l : Go(r, label, l)
            <7>1. CASE ListToReorder(r) \/ Move(r) \/ ReadBack(r)
              BY <7>1 DEF ListToReorder, Move, ReadBack, Done
            <7>2. CASE CommitMoves(r) \/ CommitSettings(r) \/ DeleteRows(r) \/ Insert(r)
              BY <7>2 DEF CommitMoves, CommitSettings, DeleteRows, Insert, Done, To, Announce
            <7> QED BY <5>2, <7>1, <7>2
          <6> QED BY <6>1, GoFacts
        <5> QED BY <2>1, <5>1, <5>2, StepStays
      <4>2. DOMAIN pos' = {}
        BY <2>1, <3>2, StepItems DEF GoneInv, RowInv, Insert
      <4>3. \A l \in Links : links'[l].state \in {"unused", "deleted"}
        BY <3>2, LinksOfGone DEF GoneInv, RowInv
      <4> QED BY <2>2, <3>2, <4>1, <4>2, <4>3 DEF GoneInv, RowInv, Others
    <3>3. CASE album' # "gone"
      BY <3>3 DEF GoneInv
    <3> QED BY <2>1, <3>1, <3>2, <3>3, StepAlbum
  <2> QED BY <2>3, <2>4, <2>5, <2>6 DEF RowInv
<1>2. CASE ~(\E r \in Requests : BeginAny(r) \/ Step(r))
  <2>1. UNCHANGED <<pc, pos, config>>
    BY <1>2, Outside
  <2>2. (album' = album \/ (album = "open" /\ album' = "expired")) /\ suspended' = suspended
    BY <1>2 DEF Next, StartZip, LinkExpires, LinkAges, CookieExpires, AlbumExpires, vars, deskVars, rowVars, sameRows
  <2>3. album = "gone" => \A l \in Links : links'[l].state \in {"unused", "deleted"}
    BY LinksOfGone DEF RowInv, GoneInv
  <2> QED BY <2>1, <2>2, <2>3 DEF RowInv, GoneInv
<1> QED BY <1>1, <1>2

\* What a request relies on of ids and links, and how it looks at rest.
Held(r) ==
  /\ pc[r] = "idle" => loc[r] = Blank
  /\ pc[r] \in {"up_lock", "up_insert"} => loc[r].item \in used
  /\ pc[r] \in {"vi_link", "vi_album"} => loc[r].link \in Links

DeskInv ==
  /\ used \subseteq Items /\ DOMAIN pos \subseteq used /\ cookies \subseteq Links
  /\ begun \in 0 .. MaxBegun /\ raises \in 0 .. MaxRaises
  /\ \A r \in Requests : Held(r)

\* Nothing is relied on where the request goes.
Calm(r) ==
  Done(r) \/ \E label, l : Go(r, label, l) /\ label \notin {"idle", "up_lock", "up_insert", "vi_link", "vi_album"}

LEMMA StepCalm ==
  ASSUME PlaceInv, NEW r \in Requests, Step(r)
  PROVE  Calm(r) \/ PutObject(r) \/ Place(r) \/ CheckLink(r)
<1>1. \A label : To(r, label) /\ label \notin {"idle", "up_lock", "up_insert", "vi_link", "vi_album"} => Calm(r)
  BY DEF To, Calm
<1>2. \A n, label : Announce(r, n, label) => Calm(r)
  BY DEF Announce, Calm
<1>3. NextFile(r) => Calm(r)
  BY DEF NextFile, Calm
<1>4. Done(r) => Calm(r)
  BY DEF Calm
<1>5. CASE FindToUpload(r) \/ CountItems(r) \/ UndoObject(r) \/ Insert(r) \/ TouchAlbum(r) \/ GiveLink(r)
  BY <1>1, <1>2, <1>3, <1>4, <1>5 DEF FindToUpload, CountItems, UndoObject, Insert, TouchAlbum, GiveLink
<1>6. CASE ListToReorder(r) \/ Move(r) \/ ReadBack(r) \/ CommitMoves(r)
  <2>1. Done(r) \/ To(r, "ro_save") \/ \E l : Go(r, "ro_write", l) \/ Go(r, "ro_commit", l)
    BY <1>6 DEF ListToReorder, Move, ReadBack, CommitMoves
  <2> QED BY <1>1, <2>1 DEF Calm
<1>7. CASE FindToReorder(r) \/ SaveAlbum(r) \/ FindToDelete(r) \/ DeleteRows(r)
  BY <1>1, <1>2, <1>4, <1>7 DEF FindToReorder, SaveAlbum, FindToDelete, DeleteRows
<1>8. CASE ListToDelete(r) \/ DeleteKey(r)
  <2>1. Announce(r, 1, "idle") \/ \E l : Go(r, "del_row", l) \/ Go(r, "del_keys", l)
    BY <1>8 DEF ListToDelete, DeleteKey
  <2> QED BY <1>2, <2>1 DEF Calm
<1>9. CASE SetCookie(r) \/ ConsumeLink(r) \/ ReadUser(r) \/ Revoke(r) \/ WriteUser(r)
  BY <1>1, <1>2, <1>4, <1>9 DEF SetCookie, ConsumeLink, ReadUser, Revoke, WriteUser
<1>10. CASE ReadSettings(r) \/ SetOne(r) \/ CommitSettings(r) \/ PruneLinks(r) \/ Deadlock(r)
  <2>1. Done(r) \/ Announce(r, loc[r].events, "idle") \/ \E l : Go(r, "cf_set", l) \/ Go(r, "pr_links", l)
    BY <1>10 DEF ReadSettings, SetOne, CommitSettings, PruneLinks, Deadlock
  <2> QED BY <1>2, <2>1 DEF Calm
<1>11. CASE (\E raised \in BOOLEAN : Hear(r, raised)) \/ Heard(r)
  <2>1. \E l : Go(r, "emit", l)
    BY <1>11 DEF Hear, Heard
  <2> QED BY <2>1 DEF Calm
<1>12. CASE Announced(r)
  BY <1>1, <1>4, <1>12 DEF Announced, PlaceInv, Nexts
<1> QED BY <1>5, <1>6, <1>7, <1>8, <1>9, <1>10, <1>11, <1>12 DEF Step

\* Who hands out ids, sets cookies, begins and raises.
LEMMA StepDesk ==
  ASSUME NEW r \in Requests, Step(r)
  PROVE  /\ UNCHANGED used \/ PutObject(r)
         /\ UNCHANGED cookies \/ SetCookie(r)
         /\ UNCHANGED begun
         /\ UNCHANGED raises \/ (raises < MaxRaises /\ raises' = raises + 1)
<1> USE DEF Reads, sameDesk
<1>1. CASE FindToUpload(r) \/ CountItems(r) \/ PutObject(r) \/ Place(r) \/ UndoObject(r)
  BY <1>1 DEF FindToUpload, CountItems, PutObject, Place, UndoObject
<1>2. CASE Insert(r) \/ TouchAlbum(r) \/ GiveLink(r)
  BY <1>2 DEF Insert, TouchAlbum, GiveLink
<1>3. CASE FindToReorder(r) \/ ListToReorder(r) \/ Move(r) \/ ReadBack(r) \/ CommitMoves(r) \/ SaveAlbum(r)
  BY <1>3 DEF FindToReorder, ListToReorder, Move, ReadBack, CommitMoves, SaveAlbum
<1>4. CASE FindToDelete(r) \/ ListToDelete(r) \/ DeleteRows(r) \/ DeleteKey(r)
  BY <1>4 DEF FindToDelete, ListToDelete, DeleteRows, DeleteKey
<1>5. CASE CheckLink(r) \/ SetCookie(r) \/ ConsumeLink(r) \/ ReadUser(r) \/ Revoke(r) \/ WriteUser(r)
  BY <1>5 DEF CheckLink, SetCookie, ConsumeLink, ReadUser, Revoke, WriteUser
<1>6. CASE ReadSettings(r) \/ SetOne(r) \/ CommitSettings(r) \/ PruneLinks(r)
  BY <1>6 DEF ReadSettings, SetOne, CommitSettings, PruneLinks
<1>7. CASE (\E raised \in BOOLEAN : Hear(r, raised)) \/ Heard(r) \/ Announced(r) \/ Deadlock(r)
  BY <1>7 DEF Hear, Heard, Announced, Deadlock
<1> QED BY <1>1, <1>2, <1>3, <1>4, <1>5, <1>6, <1>7 DEF Step

LEMMA HeldStep ==
  ASSUME PlaceInv, DeskInv, NEW r \in Requests, BeginAny(r) \/ Step(r)
  PROVE  Held(r)'
<1>1. CASE BeginAny(r)
  <2> DEFINE Away(label) == label \notin {"idle", "up_lock", "up_insert", "vi_link", "vi_album"}
  <2>1. \/ \E label \in {"up_find", "ro_find", "del_find", "sp_read", "pr_links", "su_consume", "cf_read"} :
             \E l : Begin(r, label, l)
        \/ \E l \in Links : Begin(r, "vi_link", [Blank EXCEPT !.link = l])
    BY <1>1 DEF BeginAny, BeginUpload, BeginSubmit
  <2>2. \A l : [Blank EXCEPT !.link = l].link = l
    BY DEF Blank
  <2>3. ASSUME NEW label, NEW l, Go(r, label, l), Away(label) PROVE Held(r)'
    BY <2>3, GoFacts DEF Held
  <2>4. ASSUME NEW l \in Links, Go(r, "vi_link", [Blank EXCEPT !.link = l]) PROVE Held(r)'
    <3>1. pc'[r] = "vi_link" /\ loc'[r] = [Blank EXCEPT !.link = l]
      BY <2>4, GoFacts
    <3> QED BY <2>2, <3>1 DEF Held
  <2> QED BY <2>1, <2>3, <2>4 DEF Begin
<1>2. CASE Calm(r)
  <2>1. CASE Done(r)
    BY <2>1, GoFacts DEF Done, Held
  <2>2. ASSUME NEW label, NEW l, Go(r, label, l), label \notin {"idle", "up_lock", "up_insert", "vi_link", "vi_album"}
        PROVE  Held(r)'
    BY <2>2, GoFacts DEF Held
  <2> QED BY <1>2, <2>1, <2>2 DEF Calm
<1>3. CASE PutObject(r)
  <2>1. PICK i : i \in used' /\ Go(r, "up_lock", [loc[r] EXCEPT !.item = i])
    BY <1>3 DEF PutObject
  <2>2. pc'[r] = "up_lock" /\ loc'[r] = [loc[r] EXCEPT !.item = i]
    BY <2>1, GoFacts
  <2>3. loc'[r].item = i
    BY <2>2 DEF PlaceInv, Record
  <2> QED BY <2>1, <2>2, <2>3 DEF Held
<1>4. CASE Place(r)
  <2>1. loc[r].item \in used /\ UNCHANGED used /\ (To(r, "up_undo") \/ To(r, "up_insert"))
    BY <1>4 DEF Place, sameDesk, DeskInv, Held
  <2>2. pc'[r] \in {"up_undo", "up_insert"} /\ loc'[r] = loc[r]
    BY <2>1, GoFacts DEF To
  <2> QED BY <2>1, <2>2 DEF Held
<1>5. CASE CheckLink(r)
  <2>1. loc[r].link \in Links /\ (To(r, "vi_album") \/ Done(r))
    BY <1>5 DEF CheckLink, DeskInv, Held
  <2>2. CASE To(r, "vi_album")
    <3>1. pc'[r] = "vi_album" /\ loc'[r] = loc[r]
      BY <2>2, GoFacts DEF To
    <3> QED BY <2>1, <3>1 DEF Held
  <2>3. CASE Done(r)
    BY <2>3, GoFacts DEF Done, Held
  <2> QED BY <2>1, <2>2, <2>3
<1> QED BY <1>1, <1>2, <1>3, <1>4, <1>5, StepCalm

LEMMA DeskStep == PlaceInv /\ ConfInv /\ DeskInv /\ [Next]_vars => DeskInv'
<1> SUFFICES ASSUME PlaceInv, ConfInv, DeskInv, [Next]_vars PROVE DeskInv'
  OBVIOUS
<1>1. MaxBegun \in Nat /\ MaxRaises \in Nat
  BY DeskAssumption
<1>2. CASE \E r \in Requests : BeginAny(r) \/ Step(r)
  <2>1. PICK r \in Requests : BeginAny(r) \/ Step(r)
    BY <1>2
  <2>2. Others(r)
    BY <2>1, BeginLegal, StepLegal, GoFacts DEF Steps
  <2>3. used' \subseteq Items /\ used \subseteq used'
    <3>1. BeginAny(r) => UNCHANGED used
      BY DEF BeginAny, BeginUpload, BeginSubmit, Begin
    <3>2. PutObject(r) => \E i \in Items : used' = used \cup {i}
      BY DEF PutObject
    <3> QED BY <2>1, <3>1, <3>2, StepDesk DEF DeskInv
  <2>4. cookies' \subseteq Links
    <3>1. BeginAny(r) => UNCHANGED cookies
      BY DEF BeginAny, BeginUpload, BeginSubmit, Begin
    <3>2. SetCookie(r) => cookies' \subseteq cookies \cup {loc[r].link} /\ loc[r].link \in Links
      BY DEF SetCookie, DeskInv, Held
    <3> QED BY <2>1, <3>1, <3>2, StepDesk DEF DeskInv
  <2>5. begun' \in 0 .. MaxBegun /\ raises' \in 0 .. MaxRaises
    <3>1. BeginAny(r) => begun < MaxBegun /\ begun' = begun + 1 /\ UNCHANGED raises
      BY DEF BeginAny, BeginUpload, BeginSubmit, Begin
    <3> QED BY <1>1, <2>1, <3>1, StepDesk DEF DeskInv
  <2>6. ASSUME NEW s \in Requests PROVE Held(s)'
    <3>1. CASE s = r
      BY <2>1, <3>1, HeldStep
    <3>2. CASE s # r
      BY <2>2, <2>3, <3>2 DEF DeskInv, Held, Others
    <3> QED BY <3>1, <3>2
  <2>7. DOMAIN pos' \subseteq used'
    <3>1. Insert(r) => DOMAIN pos' = DOMAIN pos \cup {loc[r].item} /\ loc[r].item \in used
      BY DEF Insert, InsertItem, With, DeskInv, Held
    <3> QED BY <2>1, <2>3, <3>1, StepItems DEF DeskInv
  <2> QED BY <2>3, <2>4, <2>5, <2>6, <2>7 DEF DeskInv
<1>3. CASE ~(\E r \in Requests : BeginAny(r) \/ Step(r))
  <2>1. UNCHANGED <<pc, loc, pos>>
    BY <1>3, Outside
  <2>2. /\ UNCHANGED <<used, raises>> /\ cookies' \subseteq cookies
        /\ begun' = begun \/ (begun < MaxBegun /\ begun' = begun + 1)
    <3>1. CASE StartZip
      BY <3>1 DEF StartZip
    <3>2. CASE UNCHANGED deskVars
      BY <3>2 DEF deskVars
    <3>3. CASE \E l \in Links : LinkExpires(l) \/ LinkAges(l) \/ CookieExpires(l)
      BY <3>3 DEF LinkExpires, LinkAges, CookieExpires, deskVars
    <3> QED BY <1>3, <3>1, <3>2, <3>3 DEF Next, AlbumExpires, vars
  <2>3. ASSUME NEW s \in Requests PROVE Held(s)'
    BY <2>1, <2>2 DEF DeskInv, Held
  <2> QED BY <1>1, <2>1, <2>2, <2>3 DEF DeskInv
<1> QED BY <1>2, <1>3

LEMMA TypeInit == Init => ZipTyped /\ LockInv /\ RowInv /\ DeskInv
<1> SUFFICES ASSUME Init PROVE ZipTyped /\ LockInv /\ RowInv /\ DeskInv
  OBVIOUS
<1>1. DOMAIN pos \subseteq Items
  BY ConfInit DEF ConfInv
<1>2. ZipTyped
  <2>1. 0 \in 0 .. Chunks /\ 0 <= Cap /\ Len(<<>>) = 0 /\ 0 \in 0 .. 0 + 1
    BY BridgeAssumption
  <2>2. /\ stored = DOMAIN pos /\ listing = <<>> /\ at = 0 /\ client = "none" /\ thread = "off"
        /\ reads = 0 /\ last = END /\ fifo = <<>> /\ stopped = FALSE
    BY DEF Init, ZipInit
  <2>3. ZipTypeOK
    BY <1>1, <2>1, <2>2, DeskAssumption DEF ZipTypeOK
  <2> QED BY <2>1, <2>2, <2>3 DEF ZipTyped
<1>3. LockInv
  <2>1. \A r \in Requests : tx[r] = NoRows
    BY DEF Init
  <2>2. NoRows = [x \in DOMAIN NoRows |-> NoRows[x]]
    BY DEF NoRows
  <2> QED BY <2>1, <2>2, NoRowsEmpty DEF LockInv
<1>4. RowInv
  <2>1. /\ album = "open" /\ suspended = FALSE /\ config = [k \in Keys |-> Unset]
        /\ pos = [i \in {first[k] : k \in 1 .. Begins} |-> Gap * (CHOOSE k \in 1 .. Begins : first[k] = i)]
    BY DEF Init
  <2>2. pos = [i \in DOMAIN pos |-> pos[i]]
    BY <2>1
  <2>3. config \in [Keys -> Values \cup {Unset}]
    BY <2>1
  <2> QED BY <2>1, <2>2, <2>3 DEF RowInv, GoneInv
<1>5. DeskInv
  BY <1>1, DeskAssumption DEF Init, DeskInv, Held
<1> QED BY <1>2, <1>3, <1>4, <1>5

\* The rows, the archive and every request keep their shape, no row is locked
\* twice, a deleted album has no items and no links left, and a request that
\* has ended has left nothing behind.
THEOREM TypeCorrect == Spec => []TypeOK
<1>1. PlaceInv /\ ConfInv /\ LinkInv /\ SpreadInv /\ ZipTyped /\ LockInv /\ RowInv /\ DeskInv => TypeOK
  <2> SUFFICES ASSUME ConfInv, LinkInv, SpreadInv, ZipTyped, LockInv, RowInv, DeskInv PROVE TypeOK
    OBVIOUS
  <2>1. RowsTypeOK
    <3>1. DOMAIN tx = Requests
      BY DEF ConfInv
    <3>2. album = "gone" => pos = NoRows /\ \A l \in Links : links[l].state \in {"unused", "deleted"}
      BY DEF RowInv, GoneInv, NoRows
    <3> QED BY <3>1, <3>2 DEF RowsTypeOK, ConfInv, SpreadInv, LinkInv, RowInv, LockInv, Rows
  <2>2. ASSUME NEW r \in Requests, pc[r] = "idle" PROVE loc[r] = Blank /\ tx[r] = NoRows
    <3>1. DOMAIN tx[r] = {} /\ tx[r] = [x \in DOMAIN tx[r] |-> tx[r][x]]
      BY <2>2 DEF ConfInv, HoldInv, Holding, LockInv
    <3> QED BY <2>2, <3>1 DEF DeskInv, Held, NoRows
  <2> QED BY <2>1, <2>2 DEF TypeOK, ZipTyped, DeskInv
<1> QED BY <1>1, PlaceInit, PlaceStep, RoomInit, RoomStep, ConfInit, ConfStep, LinkInit, LinkStep,
           SpreadInit, SpreadStep, StreamInit, StreamStep, TypeInit, ZipTypedStep, LockStep, RowStep,
           DeskStep, PTL DEF Spec
=============================================================================
