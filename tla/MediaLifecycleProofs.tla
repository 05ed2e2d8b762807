------------------------ MODULE MediaLifecycleProofs ------------------------
(***************************************************************************)
(* Theorems about MediaLifecycle for every number of albums, media,        *)
(* requests and faults.                                                    *)
(***************************************************************************)
EXTENDS MediaLifecycle, TLAPS

\* An upload that is about to insert has chosen its media id.
ChosenMedia == \A r \in Requests : pc[r] = "insertRow" => loc[r].med \in Media

TypeInv == TypeOK /\ ChosenMedia

-----------------------------------------------------------------------------
(* The statements of the store keep its types.                             *)

LEMMA StatementsTypeOK ==
  ASSUME StoreTypeOK
  PROVE  /\ \A a \in Albums : CreateAlbum(a) => StoreTypeOK' /\ expires'[a] \in Expiry
         /\ \A a, e : a \in albums /\ e \in Expiry /\ WriteAlbum(a, e) => StoreTypeOK'
         /\ \A m \in Media : \A a \in Albums : InsertMedia(m, a) => StoreTypeOK'
         /\ \A m : DropMedia(m) => StoreTypeOK'
         /\ \A a : DropAlbum(a) => StoreTypeOK'
         /\ DropAccount => StoreTypeOK'
         /\ \A m \in Media : PutOriginal(m) => StoreTypeOK'
         /\ \A m : DropOriginal(m) => StoreTypeOK'
         /\ Tick => StoreTypeOK'
         /\ UNCHANGED store => StoreTypeOK'
<1> USE StoreAssumption DEF StoreTypeOK, Expiry
<1>1. \A a \in Albums : CreateAlbum(a) => StoreTypeOK' /\ expires'[a] \in Expiry
  BY DEF CreateAlbum
<1>2. \A a, e : a \in albums /\ e \in Expiry /\ WriteAlbum(a, e) => StoreTypeOK'
  BY DEF WriteAlbum
<1>3. \A m \in Media : \A a \in Albums : InsertMedia(m, a) => StoreTypeOK'
  BY DEF InsertMedia
<1>4. \A m : DropMedia(m) => StoreTypeOK'
  BY DEF DropMedia
<1>5. \A a : DropAlbum(a) => StoreTypeOK'
  BY DEF DropAlbum
<1>6. DropAccount => StoreTypeOK'
  BY DEF DropAccount
<1>7. \A m \in Media : PutOriginal(m) => StoreTypeOK'
  BY DEF PutOriginal
<1>8. \A m : DropOriginal(m) => StoreTypeOK'
  BY DEF DropOriginal
<1>9. Tick => StoreTypeOK'
  BY DEF Tick
<1>10. UNCHANGED store => StoreTypeOK'
  BY DEF store
<1> QED BY <1>1, <1>2, <1>3, <1>4, <1>5, <1>6, <1>7, <1>8, <1>9, <1>10

-----------------------------------------------------------------------------
(* A step moves one request: these lemmas leave each action with its new   *)
(* locals to type.                                                         *)

LEMMA BlankType == Blank \in Locals
BY DEF Blank, Locals, Ops, Expiry

LEMMA UpdateType ==
  ASSUME NEW l \in Locals, NEW a \in Albums \cup {NoAlbum}, NEW e \in Expiry,
         NEW K \in SUBSET Media, NEW T \in SUBSET Albums
  PROVE  /\ [l EXCEPT !.alb = a, !.snap = e] \in Locals
         /\ [l EXCEPT !.alb = a, !.keys = K, !.todo = T] \in Locals
BY DEF Locals

LEMMA MoveType ==
  ASSUME TypeInv, NEW r \in Requests, NEW p \in Points, NEW l \in Locals,
         p = "insertRow" => l.med \in Media,
         Go(r, p), Keep(r, l)
  PROVE  /\ pc' \in [Requests -> Points]
         /\ loc' \in [Requests -> Locals]
         /\ ChosenMedia'
BY DEF TypeInv, TypeOK, ChosenMedia, Go, Keep

LEMMA RefuseType ==
  ASSUME TypeInv, NEW r \in Requests, Refuse(r)
  PROVE  TypeInv'
<1>1. StoreTypeOK'
  BY StatementsTypeOK DEF TypeInv, TypeOK, Refuse, Read
<1> QED
  BY <1>1 DEF TypeInv, TypeOK, ChosenMedia, Refuse, Read, Quiet, Go, Points, Ended

LEMMA TypeInit == Init => TypeInv
BY StoreAssumption, LifecycleAssumption
   DEF Init, StoreInit, TypeInv, TypeOK, StoreTypeOK, ChosenMedia, Expiry, OverdueBy,
       Blank, Locals, Ops, Points, Ended

LEMMA TypeStep == TypeInv /\ [Next]_vars => TypeInv'
<1> SUFFICES ASSUME TypeInv, [Next]_vars PROVE TypeInv'
  OBVIOUS
<1> USE LifecycleAssumption, StoreAssumption, StatementsTypeOK
    DEF TypeInv, TypeOK, ChosenMedia, Locals, Ops, Points, Ended, Go, Keep
<1>1. ASSUME NEW r \in Requests, Admit(r) PROVE TypeInv'
  <2>1. CASE QuotaLeft
    <3>1. PICK a \in Albums \cup {NoAlbum} :
            /\ Go(r, "openAlbum")
            /\ Keep(r, [Blank EXCEPT !.op = "upload", !.alb = a, !.made = (a = NoAlbum)])
            /\ Read
      BY <1>1, <2>1 DEF Admit
    <3>2. [Blank EXCEPT !.op = "upload", !.alb = a, !.made = (a = NoAlbum)] \in Locals
      BY BlankType
    <3> HIDE DEF Go, Keep, Locals
    <3> QED BY <3>1, <3>2, MoveType DEF Read, Quiet
  <2> QED BY <1>1, <2>1, RefuseType DEF Admit
<1>2. ASSUME NEW r \in Requests, OpenAlbum(r) PROVE TypeInv'
  BY <1>2 DEF OpenAlbum, Refuse, Read, Quiet, StoreTypeOK, Expiry
<1>3. ASSUME NEW r \in Requests, MakeAlbum(r) PROVE TypeInv'
  <2>1. PICK a \in Albums \ minted :
          IF a \in Owned => account
          THEN /\ Go(r, "countItems")
               /\ CreateAlbum(a)
               /\ Keep(r, [loc[r] EXCEPT !.alb = a, !.snap = expires'[a]])
               /\ Quiet
          ELSE Refuse(r)
    BY <1>3 DEF MakeAlbum
  <2>2. CASE a \in Owned => account
    <3>1. StoreTypeOK' /\ expires'[a] \in Expiry
      BY <2>1, <2>2
    <3>2. loc[r] \in Locals
      OBVIOUS
    <3>3. [loc[r] EXCEPT !.alb = a, !.snap = expires'[a]] \in Locals
      BY <3>1, <3>2, UpdateType
    <3> HIDE DEF Go, Keep, Locals
    <3> QED BY <2>1, <2>2, <3>1, <3>3, MoveType DEF Quiet
  <2> QED BY <2>1, <2>2, RefuseType
<1>4. ASSUME NEW r \in Requests, CountItems(r) PROVE TypeInv'
  BY <1>4 DEF CountItems, Failed, Read, Quiet
<1>5. ASSUME NEW r \in Requests, RejectFile(r) PROVE TypeInv'
  BY <1>5 DEF RejectFile, Failed, Read, Quiet
<1>6. ASSUME NEW r \in Requests, StoreFile(r) PROVE TypeInv'
  BY <1>6 DEF StoreFile, Quiet, StoreTypeOK, Expiry
<1>7. ASSUME NEW r \in Requests, InsertRow(r) PROVE TypeInv'
  <2>1. loc[r].med \in Media
    BY <1>7 DEF InsertRow
  <2>2. StoreTypeOK'
    BY <1>7, <2>1 DEF InsertRow, StoreTypeOK
  <2> QED BY <1>7, <2>1, <2>2 DEF InsertRow, Quiet
<1>8. ASSUME NEW r \in Requests, LoseCommit(r) PROVE TypeInv'
  <2>1. loc[r].med \in Media
    BY <1>8 DEF LoseCommit
  <2>2. StoreTypeOK'
    BY <1>8, <2>1 DEF LoseCommit, StoreTypeOK
  <2> QED BY <1>8, <2>1, <2>2 DEF LoseCommit, Fault
<1>9. ASSUME NEW r \in Requests, Rollback(r) PROVE TypeInv'
  BY <1>9 DEF Rollback, Fault, Failed
<1>10. ASSUME NEW r \in Requests, UnwindList(r) PROVE TypeInv'
  BY <1>10 DEF UnwindList, Read, Quiet
<1>11. ASSUME NEW r \in Requests, UnwindDelete(r) PROVE TypeInv'
  BY <1>11 DEF UnwindDelete, Quiet
<1>12. ASSUME NEW r \in Requests, TouchAlbum(r) PROVE TypeInv'
  BY <1>12 DEF TouchAlbum, Quiet
<1>13. ASSUME NEW r \in Requests, Edit(r) PROVE TypeInv'
  <2>1. PICK a \in Albums :
          IF a \in albums /\ ~Expired(a)
          THEN /\ Go(r, "touchAlbum")
               /\ Keep(r, [Blank EXCEPT !.op = "edit", !.alb = a, !.snap = expires[a]])
               /\ Read
          ELSE Refuse(r)
    BY <1>13 DEF Edit
  <2>2. CASE a \in albums /\ ~Expired(a)
    <3>1. [Blank EXCEPT !.op = "edit", !.alb = a, !.snap = expires[a]] \in Locals
      BY <2>2, BlankType DEF StoreTypeOK
    <3> HIDE DEF Go, Keep, Locals
    <3> QED BY <2>1, <2>2, <3>1, MoveType DEF Read, Quiet
  <2> QED BY <2>1, <2>2, RefuseType
<1>14. ASSUME NEW r \in Requests, SetExpiry(r) PROVE TypeInv'
  <2>1. PICK a \in Albums, e \in (0 .. MaxTime) \cup {Never} :
          IF a \in albums
          THEN /\ Go(r, IF expires[a] = e THEN "ok" ELSE "writeExpiry")
               /\ Keep(r, [Blank EXCEPT !.op = "setExpiry", !.alb = a, !.snap = e])
               /\ Read
          ELSE Refuse(r)
    BY <1>14 DEF SetExpiry
  <2>2. CASE a \in albums
    <3>1. e \in Expiry
      BY DEF Expiry
    <3>2. [Blank EXCEPT !.op = "setExpiry", !.alb = a, !.snap = e] \in Locals
      BY <3>1, BlankType
    <3> HIDE DEF Go, Keep, Locals
    <3> QED BY <2>1, <2>2, <3>2, MoveType DEF Read, Quiet
  <2> QED BY <2>1, <2>2, RefuseType
<1>15. ASSUME NEW r \in Requests, WriteExpiry(r) PROVE TypeInv'
  BY <1>15 DEF WriteExpiry, Quiet
<1>16. ASSUME NEW r \in Requests, FindMedia(r) PROVE TypeInv'
  <2>1. PICK m \in Media :
          IF m \in rows
          THEN /\ Go(r, "checkAlbum")
               /\ Keep(r, [Blank EXCEPT !.op = "deleteMedia", !.med = m, !.alb = home[m]])
               /\ Read
          ELSE Refuse(r)
    BY <1>16 DEF FindMedia
  <2>2. CASE m \in rows
    <3>1. [Blank EXCEPT !.op = "deleteMedia", !.med = m, !.alb = home[m]] \in Locals
      BY <2>2, BlankType DEF StoreTypeOK
    <3> HIDE DEF Go, Keep, Locals
    <3> QED BY <2>1, <2>2, <3>1, MoveType DEF Read, Quiet
  <2> QED BY <2>1, <2>2, RefuseType
<1>17. ASSUME NEW r \in Requests, CheckAlbum(r) PROVE TypeInv'
  <2>1. CASE loc[r].alb \in albums /\ ~Expired(loc[r].alb)
    <3>1. [loc[r] EXCEPT !.snap = expires[loc[r].alb]] \in Locals
      BY <2>1, BlankType DEF StoreTypeOK
    <3> HIDE DEF Go, Keep, Locals
    <3> QED BY <1>17, <2>1, <3>1, MoveType DEF CheckAlbum, Read, Quiet
  <2> QED BY <1>17, <2>1, RefuseType DEF CheckAlbum
<1>18. ASSUME NEW r \in Requests, DeleteRow(r) PROVE TypeInv'
  <2>1. CASE loc[r].med \in rows
    <3>1. [loc[r] EXCEPT !.keys = {loc[r].med}] \in Locals
      BY <2>1 DEF StoreTypeOK
    <3>2. StoreTypeOK'
      BY <1>18, <2>1 DEF DeleteRow
    <3> HIDE DEF Go, Keep, Locals
    <3> QED BY <1>18, <2>1, <3>1, <3>2, MoveType DEF DeleteRow, Quiet
  <2> QED BY <1>18, <2>1, RefuseType DEF DeleteRow
<1>19. ASSUME NEW r \in Requests, CleanKey(r) PROVE TypeInv'
  BY <1>19 DEF CleanKey, Fault
<1>20. ASSUME NEW r \in Requests, Cleaned(r) PROVE TypeInv'
  BY <1>20 DEF Cleaned, Announce, Quiet
<1>21. ASSUME NEW r \in Requests, CountLeft(r) PROVE TypeInv'
  BY <1>21 DEF CountLeft, Read, Quiet
<1>22. ASSUME NEW r \in Requests, DeleteEmpty(r) PROVE TypeInv'
  BY <1>22 DEF DeleteEmpty, Announce, Quiet
<1>23. ASSUME NEW r \in Requests, FindAlbum(r) PROVE TypeInv'
  <2>1. PICK a \in Albums :
          \/ /\ Go(r, "selectRows")
             /\ Keep(r, [Blank EXCEPT !.op = "deleteAlbum", !.alb = a])
             /\ Read
          \/ Refuse(r)
    BY <1>23 DEF FindAlbum
  <2>2. [Blank EXCEPT !.op = "deleteAlbum", !.alb = a] \in Locals
    BY BlankType
  <2> HIDE DEF Go, Keep, Locals
  <2> QED BY <2>1, <2>2, MoveType, RefuseType DEF Read, Quiet
<1>24. ASSUME NEW r \in Requests, SelectRows(r) PROVE TypeInv'
  BY <1>24 DEF SelectRows, Read, Quiet, Items, StoreTypeOK, Expiry
<1>25. ASSUME NEW r \in Requests, DeleteAlbumRow(r) PROVE TypeInv'
  BY <1>25 DEF DeleteAlbumRow, Refuse, Read, Quiet
<1>26. ASSUME NEW r \in Requests, ListExpired(r) PROVE TypeInv'
  BY <1>26 DEF ListExpired, Read, Quiet, Blank, StoreTypeOK, Expiry
<1>27. ASSUME NEW r \in Requests, PruneNext(r) PROVE TypeInv'
  <2>1. PICK a \in loc[r].todo :
          Keep(r, [loc[r] EXCEPT !.alb = a, !.keys = Items(a), !.todo = @ \ {a}])
    BY <1>27 DEF PruneNext
  <2>2. [loc[r] EXCEPT !.alb = a, !.keys = Items(a), !.todo = @ \ {a}] \in Locals
    <3>1. loc[r] \in Locals /\ a \in Albums
      OBVIOUS
    <3>2. Items(a) \in SUBSET Media
      BY DEF Items, StoreTypeOK
    <3>3. loc[r].todo \ {a} \in SUBSET Albums
      BY <3>1
    <3>4. [loc[r] EXCEPT !.alb = a, !.keys = Items(a), !.todo = loc[r].todo \ {a}] \in Locals
      BY <3>1, <3>2, <3>3, UpdateType
    <3> QED BY <3>4
  <2> HIDE DEF Go, Keep, Locals
  <2> QED BY <1>27, <2>1, <2>2, MoveType DEF PruneNext, Read, Quiet
<1>28. ASSUME NEW r \in Requests, PruneKey(r) PROVE TypeInv'
  BY <1>28 DEF PruneKey, Fault
<1>29. ASSUME NEW r \in Requests, PruneAlbum(r) PROVE TypeInv'
  BY <1>29 DEF PruneAlbum, Announce, Quiet
<1>30. ASSUME NEW r \in Requests, PruneDone(r) PROVE TypeInv'
  BY <1>30 DEF PruneDone, Read, Quiet
<1>31. ASSUME NEW r \in Requests, FindUser(r) PROVE TypeInv'
  <2>1. CASE account
    <3>1. [Blank EXCEPT !.op = "deleteUser", !.keys = OwnedItems] \in Locals
      BY <2>1, BlankType DEF StoreTypeOK, OwnedItems
    <3> HIDE DEF Go, Keep, Locals
    <3> QED BY <1>31, <2>1, <3>1, MoveType DEF FindUser, Read, Quiet
  <2> QED BY <1>31, <2>1, RefuseType DEF FindUser
<1>32. ASSUME NEW r \in Requests, UserKey(r) PROVE TypeInv'
  BY <1>32 DEF UserKey, Fault
<1>33. ASSUME NEW r \in Requests, DropUser(r) PROVE TypeInv'
  BY <1>33 DEF DropUser, Refuse, Read, Quiet
<1>34. CASE Crash
  BY <1>34 DEF Crash, Fault
<1>35. CASE Pass
  BY <1>35 DEF Pass
<1>36. CASE UNCHANGED vars
  BY <1>36 DEF vars
<1> QED
  BY <1>1, <1>2, <1>3, <1>4, <1>5, <1>6, <1>7, <1>8, <1>9, <1>10, <1>11, <1>12, <1>13, <1>14, <1>15, <1>16, <1>17, <1>18, <1>19, <1>20, <1>21, <1>22, <1>23, <1>24, <1>25, <1>26, <1>27, <1>28, <1>29, <1>30, <1>31, <1>32, <1>33, <1>34, <1>35, <1>36
     DEF Next, Uploading, Editing, Deleting, Pruning, Closing

\* Types: every variable keeps its type in every reachable state.
THEOREM TypeCorrect == Spec => []TypeOK
<1>1. TypeInv => TypeOK
  BY DEF TypeInv
<1> QED BY <1>1, TypeInit, TypeStep, PTL DEF Spec

-----------------------------------------------------------------------------
(* AlbumDeleted is emitted once.  A request owes the event between its     *)
(* DELETE and its emit; nobody else can owe it, because only one DELETE    *)
(* of an album finds a row, and ids are never handed out twice.            *)

Owes(r, a) == pc[r] = "cleanKeys" /\ loc[r].op = "deleteAlbum" /\ loc[r].alb = a

EventInv ==
  /\ albums \subseteq minted
  /\ \A r \in Requests : pc[r] \in {"checkAlbum", "deleteRow"} => loc[r].op = "deleteMedia"
  /\ \A a \in Albums : announced[a] <= 1 /\ (announced[a] = 1 => a \in minted \ albums)
  /\ \A r \in Requests, a \in Albums :
       Owes(r, a) => a \in minted \ albums /\ announced[a] = 0
  /\ \A r, s \in Requests, a \in Albums : Owes(r, a) /\ Owes(s, a) => r = s

LEMMA EventInit == Init => EventInv
BY StoreAssumption DEF Init, StoreInit, EventInv, Owes

\* A step that announces nothing and drops nothing only has to say where the
\* request went.
LEMMA EventFrame ==
  ASSUME TypeInv, EventInv, NEW r \in Requests, NEW p \in Points \ {"cleanKeys"},
         Go(r, p), UNCHANGED <<albums, minted, announced>>,
         \A s \in Requests : s # r => loc'[s] = loc[s],
         p \in {"checkAlbum", "deleteRow"} => loc'[r].op = "deleteMedia"
  PROVE  EventInv'
BY DEF TypeInv, TypeOK, EventInv, Owes, Go

LEMMA EventStep == TypeInv /\ EventInv /\ [Next]_vars => EventInv'
<1> SUFFICES ASSUME TypeInv, EventInv, [Next]_vars PROVE EventInv'
  OBVIOUS
<1> USE StoreAssumption DEF TypeInv, TypeOK, StoreTypeOK, Locals, EventInv, Owes, Go, Keep
<1>1. ASSUME NEW r \in Requests, Admit(r) PROVE EventInv'
  <2>1. \A s \in Requests : s # r => loc'[s] = loc[s]
    BY <1>1 DEF Admit, Refuse, Read, Quiet, store
  <2>3. PICK p \in {"openAlbum", "refused"} : Go(r, p)
    BY <1>1 DEF Admit, Refuse, Read, Quiet, store
  <2>4. UNCHANGED <<albums, minted, announced>>
    BY <1>1 DEF Admit, Refuse, Read, Quiet, store
  <2> HIDE DEF EventInv, TypeInv, Go
  <2> QED BY <2>1, <2>3, <2>4, EventFrame DEF Points, Ended
<1>2. ASSUME NEW r \in Requests, OpenAlbum(r) PROVE EventInv'
  <2>1. \A s \in Requests : s # r => loc'[s] = loc[s]
    BY <1>2 DEF OpenAlbum, Refuse, Read, Quiet, store
  <2>3. PICK p \in {"countItems", "refused"} : Go(r, p)
    BY <1>2 DEF OpenAlbum, Refuse, Read, Quiet, store
  <2>4. UNCHANGED <<albums, minted, announced>>
    BY <1>2 DEF OpenAlbum, Refuse, Read, Quiet, store
  <2> HIDE DEF EventInv, TypeInv, Go
  <2> QED BY <2>1, <2>3, <2>4, EventFrame DEF Points, Ended
<1>3. ASSUME NEW r \in Requests, MakeAlbum(r) PROVE EventInv'
  BY <1>3 DEF MakeAlbum, Refuse, Read, Quiet, store, CreateAlbum
<1>4. ASSUME NEW r \in Requests, CountItems(r) PROVE EventInv'
  BY <1>4 DEF CountItems, Failed, Read, Quiet, store
<1>5. ASSUME NEW r \in Requests, RejectFile(r) PROVE EventInv'
  BY <1>5 DEF RejectFile, Failed, Read, Quiet, store
<1>6. ASSUME NEW r \in Requests, StoreFile(r) PROVE EventInv'
  BY <1>6 DEF StoreFile, Quiet, PutOriginal
<1>7. ASSUME NEW r \in Requests, InsertRow(r) PROVE EventInv'
  BY <1>7 DEF InsertRow, Quiet, InsertMedia, store
<1>8. ASSUME NEW r \in Requests, LoseCommit(r) PROVE EventInv'
  BY <1>8 DEF LoseCommit, InsertMedia
<1>9. ASSUME NEW r \in Requests, Rollback(r) PROVE EventInv'
  BY <1>9 DEF Rollback, Failed, DropOriginal, store
<1>10. ASSUME NEW r \in Requests, UnwindList(r) PROVE EventInv'
  BY <1>10 DEF UnwindList, Read, Quiet, store
<1>11. ASSUME NEW r \in Requests, UnwindDelete(r) PROVE EventInv'
  BY <1>11 DEF UnwindDelete, Quiet, DropAlbum, Items
<1>12. ASSUME NEW r \in Requests, TouchAlbum(r) PROVE EventInv'
  BY <1>12 DEF TouchAlbum, Quiet, WriteAlbum, store
<1>13. ASSUME NEW r \in Requests, Edit(r) PROVE EventInv'
  BY <1>13 DEF Edit, Refuse, Read, Quiet, Blank, store
<1>14. ASSUME NEW r \in Requests, SetExpiry(r) PROVE EventInv'
  BY <1>14 DEF SetExpiry, Refuse, Read, Quiet, Blank, store
<1>15. ASSUME NEW r \in Requests, WriteExpiry(r) PROVE EventInv'
  <2>1. \A s \in Requests : s # r => loc'[s] = loc[s]
    BY <1>15 DEF WriteExpiry, Quiet, WriteAlbum, store
  <2>3. PICK p \in {"ok", "refused"} : Go(r, p)
    BY <1>15 DEF WriteExpiry, Quiet, WriteAlbum, store
  <2>4. UNCHANGED <<albums, minted, announced>>
    BY <1>15 DEF WriteExpiry, Quiet, WriteAlbum, store
  <2> HIDE DEF EventInv, TypeInv, Go
  <2> QED BY <2>1, <2>3, <2>4, EventFrame DEF Points, Ended
<1>16. ASSUME NEW r \in Requests, FindMedia(r) PROVE EventInv'
  <2>1. \A s \in Requests : s # r => loc'[s] = loc[s]
    BY <1>16 DEF FindMedia, Refuse, Read, Quiet, Blank, store
  <2>2. UNCHANGED <<albums, minted, announced>>
    BY <1>16 DEF FindMedia, Refuse, Read, Quiet, Blank, store
  <2>3. CASE Go(r, "refused")
    <3> HIDE DEF EventInv, TypeInv, Go
    <3> QED BY <2>1, <2>2, <2>3, EventFrame DEF Points, Ended
  <2>4. CASE Go(r, "checkAlbum") /\ loc'[r].op = "deleteMedia"
    <3> HIDE DEF EventInv, TypeInv, Go
    <3> QED BY <2>1, <2>2, <2>4, EventFrame DEF Points, Ended
  <2>5. PICK m \in Media :
          IF m \in rows
          THEN /\ Go(r, "checkAlbum")
               /\ Keep(r, [Blank EXCEPT !.op = "deleteMedia", !.med = m, !.alb = home[m]])
          ELSE Go(r, "refused")
    BY <1>16 DEF FindMedia, Refuse
  <2>6. Keep(r, [Blank EXCEPT !.op = "deleteMedia", !.med = m, !.alb = home[m]])
          => loc'[r].op = "deleteMedia"
    BY DEF Blank
  <2> HIDE DEF Go, Keep
  <2> QED BY <2>3, <2>4, <2>5, <2>6
<1>17. ASSUME NEW r \in Requests, CheckAlbum(r) PROVE EventInv'
  <2>1. \A s \in Requests : s # r => loc'[s] = loc[s]
    BY <1>17 DEF CheckAlbum, Refuse, Read, Quiet, store
  <2>2. UNCHANGED <<albums, minted, announced>>
    BY <1>17 DEF CheckAlbum, Refuse, Read, Quiet, store
  <2>3. CASE Go(r, "refused")
    <3> HIDE DEF EventInv, TypeInv, Go
    <3> QED BY <2>1, <2>2, <2>3, EventFrame DEF Points, Ended
  <2>4. CASE Go(r, "deleteRow") /\ loc'[r].op = "deleteMedia"
    <3> HIDE DEF EventInv, TypeInv, Go
    <3> QED BY <2>1, <2>2, <2>4, EventFrame DEF Points, Ended
  <2> QED BY <1>17, <2>3, <2>4 DEF CheckAlbum, Refuse, Read, Quiet, store
<1>18. ASSUME NEW r \in Requests, DeleteRow(r) PROVE EventInv'
  BY <1>18 DEF DeleteRow, Refuse, Read, Quiet, DropMedia, store
<1>19. ASSUME NEW r \in Requests, CleanKey(r) PROVE EventInv'
  BY <1>19 DEF CleanKey, DropOriginal, store
<1>20. ASSUME NEW r \in Requests, Cleaned(r) PROVE EventInv'
  BY <1>20 DEF Cleaned, Announce, Quiet, store
<1>21. ASSUME NEW r \in Requests, CountLeft(r) PROVE EventInv'
  BY <1>21 DEF CountLeft, Read, Quiet, store
<1>22. ASSUME NEW r \in Requests, DeleteEmpty(r) PROVE EventInv'
  <2>1. albums' = albums \ {loc[r].alb} /\ minted' = minted
    BY <1>22 DEF DeleteEmpty, DropAlbum
  <2>2. announced' = IF loc[r].alb \in albums
                     THEN [announced EXCEPT ![loc[r].alb] = @ + 1] ELSE announced
    BY <1>22 DEF DeleteEmpty, Announce, Quiet
  <2>3. \A s \in Requests, a \in Albums : Owes(s, a)' => Owes(s, a)
    BY <1>22 DEF DeleteEmpty
  <2>4. \A s \in Requests : pc'[s] \in {"checkAlbum", "deleteRow"} => loc'[s].op = "deleteMedia"
    BY <1>22 DEF DeleteEmpty
  <2> HIDE DEF Owes, Locals
  <2> QED BY <2>1, <2>2, <2>3, <2>4
<1>23. ASSUME NEW r \in Requests, FindAlbum(r) PROVE EventInv'
  BY <1>23 DEF FindAlbum, Refuse, Read, Quiet, Blank, store
<1>24. ASSUME NEW r \in Requests, SelectRows(r) PROVE EventInv'
  BY <1>24 DEF SelectRows, Read, Quiet, store
<1>25. ASSUME NEW r \in Requests, DeleteAlbumRow(r) PROVE EventInv'
  <2>1. CASE loc[r].alb \in albums
    <3>1. /\ albums' = albums \ {loc[r].alb}
          /\ UNCHANGED <<minted, announced, loc>>
          /\ Go(r, "cleanKeys")
      BY <1>25, <2>1 DEF DeleteAlbumRow, DropAlbum, Quiet
    <3>2. \A s \in Requests, a \in Albums :
            Owes(s, a)' => Owes(s, a) \/ (s = r /\ a = loc[r].alb)
      <4> SUFFICES ASSUME NEW s \in Requests, NEW a \in Albums, Owes(s, a)'
                   PROVE  Owes(s, a) \/ (s = r /\ a = loc[r].alb)
        OBVIOUS
      <4> HIDE DEF Locals, EventInv
      <4>1. CASE s = r
        BY <3>1, <4>1
      <4>2. CASE s # r
        <5>1. pc'[s] = pc[s] /\ loc'[s] = loc[s]
          BY <3>1, <4>2
        <5> HIDE DEF TypeInv, Go
        <5> QED BY <5>1
      <4> QED BY <4>1, <4>2
    <3>3. loc[r].alb \in Albums /\ \A s \in Requests : ~Owes(s, loc[r].alb)
      <4> HIDE DEF Locals, Owes
      <4> QED BY <2>1
    <3>4. announced[loc[r].alb] = 0
      <4> HIDE DEF Locals, Owes
      <4> QED BY <2>1
    <3>5. \A s \in Requests : pc'[s] \in {"checkAlbum", "deleteRow"} => loc'[s].op = "deleteMedia"
      BY <3>1
    <3> HIDE DEF Owes, Locals, Go
    <3> QED BY <2>1, <3>1, <3>2, <3>3, <3>4, <3>5
  <2> QED BY <1>25, <2>1 DEF DeleteAlbumRow, Refuse, Read, Quiet, store
<1>26. ASSUME NEW r \in Requests, ListExpired(r) PROVE EventInv'
  BY <1>26 DEF ListExpired, Read, Quiet, Blank, store
<1>27. ASSUME NEW r \in Requests, PruneNext(r) PROVE EventInv'
  BY <1>27 DEF PruneNext, Read, Quiet, store
<1>28. ASSUME NEW r \in Requests, PruneKey(r) PROVE EventInv'
  BY <1>28 DEF PruneKey, DropOriginal, store
<1>29. ASSUME NEW r \in Requests, PruneAlbum(r) PROVE EventInv'
  <2>1. albums' = albums \ {loc[r].alb} /\ minted' = minted
    BY <1>29 DEF PruneAlbum, DropAlbum
  <2>2. announced' = IF loc[r].alb \in albums
                     THEN [announced EXCEPT ![loc[r].alb] = @ + 1] ELSE announced
    BY <1>29 DEF PruneAlbum, Announce, Quiet
  <2>3. \A s \in Requests, a \in Albums : Owes(s, a)' => Owes(s, a)
    BY <1>29 DEF PruneAlbum
  <2>4. \A s \in Requests : pc'[s] \in {"checkAlbum", "deleteRow"} => loc'[s].op = "deleteMedia"
    BY <1>29 DEF PruneAlbum
  <2> HIDE DEF Owes, Locals
  <2> QED BY <2>1, <2>2, <2>3, <2>4
<1>30. ASSUME NEW r \in Requests, PruneDone(r) PROVE EventInv'
  BY <1>30 DEF PruneDone, Read, Quiet, store
<1>31. ASSUME NEW r \in Requests, FindUser(r) PROVE EventInv'
  BY <1>31 DEF FindUser, Refuse, Read, Quiet, Blank, store
<1>32. ASSUME NEW r \in Requests, UserKey(r) PROVE EventInv'
  BY <1>32 DEF UserKey, DropOriginal, store
<1>33. ASSUME NEW r \in Requests, DropUser(r) PROVE EventInv'
  BY <1>33 DEF DropUser, Refuse, Read, Quiet, DropAccount, OwnedItems, store
<1>34. CASE Crash
  BY <1>34 DEF Crash, store, Ended
<1>35. CASE Pass
  BY <1>35 DEF Pass, Tick
<1>36. CASE UNCHANGED vars
  BY <1>36 DEF vars, store
<1> QED
  BY <1>1, <1>2, <1>3, <1>4, <1>5, <1>6, <1>7, <1>8, <1>9, <1>10, <1>11, <1>12, <1>13, <1>14, <1>15, <1>16, <1>17, <1>18, <1>19, <1>20, <1>21, <1>22, <1>23, <1>24, <1>25, <1>26, <1>27, <1>28, <1>29, <1>30, <1>31, <1>32, <1>33, <1>34, <1>35, <1>36
     DEF Next, Uploading, Editing, Deleting, Pruning, Closing

\* However many requests and prunes race for an album, AlbumDeleted is emitted
\* for it at most once, and never while its row stands.
THEOREM DeletedOnce == Spec => []AlbumDeletedOnce
<1>1. TypeInv /\ EventInv => AlbumDeletedOnce
  BY DEF TypeInv, TypeOK, EventInv, AlbumDeletedOnce
<1> QED BY <1>1, TypeInit, TypeStep, EventInit, EventStep, PTL DEF Spec

-----------------------------------------------------------------------------
(* The catalogue.  A media id that waits for its INSERT has never been in  *)
(* a row, so no item is listed twice; every row has its album, so closing  *)
(* an album takes all its items.                                           *)

ShelfInv ==
  /\ \A m \in rows : home[m] \in albums
  /\ \A m \in Media \ minted : home[m] = NoAlbum
  /\ \A r \in Requests :
       pc[r] = "insertRow" => loc[r].med \in minted /\ home[loc[r].med] = NoAlbum
  /\ \A r, s \in Requests :
       pc[r] = "insertRow" /\ pc[s] = "insertRow" /\ loc[r].med = loc[s].med => r = s

LEMMA ShelfInit == Init => ShelfInv
BY StoreAssumption DEF Init, StoreInit, ShelfInv

\* A step that lists nothing only has to keep the rows in their albums.
LEMMA ShelfFrame ==
  ASSUME TypeInv, ShelfInv, NEW r \in Requests, NEW p \in Points \ {"insertRow"},
         Go(r, p), UNCHANGED home, minted \subseteq minted',
         \A s \in Requests : s # r => loc'[s] = loc[s],
         \A m \in rows' : home[m] \in albums'
  PROVE  ShelfInv'
<1>1. \A s \in Requests : pc'[s] = "insertRow" => pc[s] = "insertRow" /\ loc'[s] = loc[s]
  BY DEF TypeInv, TypeOK, Go
<1> QED BY <1>1 DEF ShelfInv

LEMMA ShelfStep == TypeInv /\ ShelfInv /\ [Next]_vars => ShelfInv'
<1> SUFFICES ASSUME TypeInv, ShelfInv, [Next]_vars PROVE ShelfInv'
  OBVIOUS
<1> USE StoreAssumption DEF Keep
<1>1. ASSUME NEW r \in Requests, Admit(r) PROVE ShelfInv'
  <2>1. PICK p \in {"openAlbum", "refused"} : Go(r, p)
    BY <1>1 DEF Admit, Refuse, Read, Quiet, Blank, store
  <2>2. UNCHANGED home /\ minted \subseteq minted'
    BY <1>1 DEF Admit, Refuse, Read, Quiet, Blank, store
  <2>3. \A s \in Requests : s # r => loc'[s] = loc[s]
    BY <1>1 DEF Admit, Refuse, Read, Quiet, Blank, store, TypeInv, TypeOK
  <2>4. \A m \in rows' : home[m] \in albums'
    <3>1. UNCHANGED store
      BY <1>1 DEF Admit, Refuse, Read
    <3> QED BY <3>1 DEF store, ShelfInv
  <2> QED BY <2>1, <2>2, <2>3, <2>4, ShelfFrame DEF Points, Ended
<1>2. ASSUME NEW r \in Requests, OpenAlbum(r) PROVE ShelfInv'
  <2>1. PICK p \in {"countItems", "refused"} : Go(r, p)
    BY <1>2 DEF OpenAlbum, Refuse, Read, Quiet, store
  <2>2. UNCHANGED home /\ minted \subseteq minted'
    BY <1>2 DEF OpenAlbum, Refuse, Read, Quiet, store
  <2>3. \A s \in Requests : s # r => loc'[s] = loc[s]
    BY <1>2 DEF OpenAlbum, Refuse, Read, Quiet, store, TypeInv, TypeOK
  <2>4. \A m \in rows' : home[m] \in albums'
    BY <1>2 DEF OpenAlbum, Refuse, Read, Quiet, store, ShelfInv
  <2> QED BY <2>1, <2>2, <2>3, <2>4, ShelfFrame DEF Points, Ended
<1>3. ASSUME NEW r \in Requests, MakeAlbum(r) PROVE ShelfInv'
  <2>1. PICK p \in {"countItems", "refused"} : Go(r, p)
    BY <1>3 DEF MakeAlbum, Refuse, Read, Quiet, store, CreateAlbum
  <2>2. UNCHANGED home /\ minted \subseteq minted'
    BY <1>3 DEF MakeAlbum, Refuse, Read, Quiet, store, CreateAlbum
  <2>3. \A s \in Requests : s # r => loc'[s] = loc[s]
    BY <1>3 DEF MakeAlbum, Refuse, Read, Quiet, store, CreateAlbum, TypeInv, TypeOK
  <2>4. \A m \in rows' : home[m] \in albums'
    BY <1>3 DEF MakeAlbum, Refuse, Read, Quiet, store, CreateAlbum, ShelfInv
  <2> QED BY <2>1, <2>2, <2>3, <2>4, ShelfFrame DEF Points, Ended
<1>4. ASSUME NEW r \in Requests, CountItems(r) PROVE ShelfInv'
  <2>1. PICK p \in {"putOriginal", "unwindList", "refused"} : Go(r, p)
    BY <1>4 DEF CountItems, Failed, Read, Quiet, store
  <2>2. UNCHANGED home /\ minted \subseteq minted'
    BY <1>4 DEF CountItems, Failed, Read, Quiet, store
  <2>3. \A s \in Requests : s # r => loc'[s] = loc[s]
    BY <1>4 DEF CountItems, Failed, Read, Quiet, store, TypeInv, TypeOK
  <2>4. \A m \in rows' : home[m] \in albums'
    BY <1>4 DEF CountItems, Failed, Read, Quiet, store, ShelfInv
  <2> QED BY <2>1, <2>2, <2>3, <2>4, ShelfFrame DEF Points, Ended
<1>5. ASSUME NEW r \in Requests, RejectFile(r) PROVE ShelfInv'
  <2>1. PICK p \in {"unwindList", "refused"} : Go(r, p)
    BY <1>5 DEF RejectFile, Failed, Read, Quiet, store
  <2>2. UNCHANGED home /\ minted \subseteq minted'
    BY <1>5 DEF RejectFile, Failed, Read, Quiet, store
  <2>3. \A s \in Requests : s # r => loc'[s] = loc[s]
    BY <1>5 DEF RejectFile, Failed, Read, Quiet, store, TypeInv, TypeOK
  <2>4. \A m \in rows' : home[m] \in albums'
    BY <1>5 DEF RejectFile, Failed, Read, Quiet, store, ShelfInv
  <2> QED BY <2>1, <2>2, <2>3, <2>4, ShelfFrame DEF Points, Ended
<1>6. ASSUME NEW r \in Requests, StoreFile(r) PROVE ShelfInv'
  BY <1>6 DEF StoreFile, Quiet, PutOriginal, TypeInv, TypeOK, StoreTypeOK, ChosenMedia, Locals, ShelfInv, Go
<1>7. ASSUME NEW r \in Requests, InsertRow(r) PROVE ShelfInv'
  BY <1>7 DEF InsertRow, Quiet, InsertMedia, store, TypeInv, TypeOK, StoreTypeOK, ChosenMedia, Locals, ShelfInv, Go
<1>8. ASSUME NEW r \in Requests, LoseCommit(r) PROVE ShelfInv'
  BY <1>8 DEF LoseCommit, InsertMedia, TypeInv, TypeOK, StoreTypeOK, ChosenMedia, Locals, ShelfInv, Go
<1>9. ASSUME NEW r \in Requests, Rollback(r) PROVE ShelfInv'
  <2>1. PICK p \in {"unwindList", "refused"} : Go(r, p)
    BY <1>9 DEF Rollback, Failed, DropOriginal, store
  <2>2. UNCHANGED home /\ minted \subseteq minted'
    BY <1>9 DEF Rollback, Failed, DropOriginal, store
  <2>3. \A s \in Requests : s # r => loc'[s] = loc[s]
    BY <1>9 DEF Rollback, Failed, DropOriginal, store, TypeInv, TypeOK
  <2>4. \A m \in rows' : home[m] \in albums'
    BY <1>9 DEF Rollback, Failed, DropOriginal, store, ShelfInv
  <2> QED BY <2>1, <2>2, <2>3, <2>4, ShelfFrame DEF Points, Ended
<1>10. ASSUME NEW r \in Requests, UnwindList(r) PROVE ShelfInv'
  <2>1. PICK p \in {"unwindDelete", "refused"} : Go(r, p)
    BY <1>10 DEF UnwindList, Read, Quiet, store
  <2>2. UNCHANGED home /\ minted \subseteq minted'
    BY <1>10 DEF UnwindList, Read, Quiet, store
  <2>3. \A s \in Requests : s # r => loc'[s] = loc[s]
    BY <1>10 DEF UnwindList, Read, Quiet, store, TypeInv, TypeOK
  <2>4. \A m \in rows' : home[m] \in albums'
    BY <1>10 DEF UnwindList, Read, Quiet, store, ShelfInv
  <2> QED BY <2>1, <2>2, <2>3, <2>4, ShelfFrame DEF Points, Ended
<1>11. ASSUME NEW r \in Requests, UnwindDelete(r) PROVE ShelfInv'
  <2>1. PICK p \in {"refused"} : Go(r, p)
    BY <1>11 DEF UnwindDelete, Quiet, DropAlbum, Items
  <2>2. UNCHANGED home /\ minted \subseteq minted'
    BY <1>11 DEF UnwindDelete, Quiet, DropAlbum, Items
  <2>3. \A s \in Requests : s # r => loc'[s] = loc[s]
    BY <1>11 DEF UnwindDelete, Quiet, DropAlbum, Items, TypeInv, TypeOK
  <2>4. \A m \in rows' : home[m] \in albums'
    BY <1>11 DEF UnwindDelete, Quiet, DropAlbum, Items, ShelfInv
  <2> QED BY <2>1, <2>2, <2>3, <2>4, ShelfFrame DEF Points, Ended
<1>12. ASSUME NEW r \in Requests, TouchAlbum(r) PROVE ShelfInv'
  <2>1. PICK p \in {"ok", "refused"} : Go(r, p)
    BY <1>12 DEF TouchAlbum, Quiet, WriteAlbum, store
  <2>2. UNCHANGED home /\ minted \subseteq minted'
    BY <1>12 DEF TouchAlbum, Quiet, WriteAlbum, store
  <2>3. \A s \in Requests : s # r => loc'[s] = loc[s]
    BY <1>12 DEF TouchAlbum, Quiet, WriteAlbum, store, TypeInv, TypeOK
  <2>4. \A m \in rows' : home[m] \in albums'
    BY <1>12 DEF TouchAlbum, Quiet, WriteAlbum, store, ShelfInv
  <2> QED BY <2>1, <2>2, <2>3, <2>4, ShelfFrame DEF Points, Ended
<1>13. ASSUME NEW r \in Requests, Edit(r) PROVE ShelfInv'
  <2>1. PICK p \in {"touchAlbum", "refused"} : Go(r, p)
    BY <1>13 DEF Edit, Refuse, Read, Quiet, Blank, store
  <2>2. UNCHANGED home /\ minted \subseteq minted'
    BY <1>13 DEF Edit, Refuse, Read, Quiet, Blank, store
  <2>3. \A s \in Requests : s # r => loc'[s] = loc[s]
    BY <1>13 DEF Edit, Refuse, Read, Quiet, Blank, store, TypeInv, TypeOK
  <2>4. \A m \in rows' : home[m] \in albums'
    BY <1>13 DEF Edit, Refuse, Read, Quiet, Blank, store, ShelfInv
  <2> QED BY <2>1, <2>2, <2>3, <2>4, ShelfFrame DEF Points, Ended
<1>14. ASSUME NEW r \in Requests, SetExpiry(r) PROVE ShelfInv'
  <2>1. PICK p \in {"ok", "writeExpiry", "refused"} : Go(r, p)
    BY <1>14 DEF SetExpiry, Refuse, Read, Quiet, Blank, store
  <2>2. UNCHANGED home /\ minted \subseteq minted'
    BY <1>14 DEF SetExpiry, Refuse, Read, Quiet, Blank, store
  <2>3. \A s \in Requests : s # r => loc'[s] = loc[s]
    BY <1>14 DEF SetExpiry, Refuse, Read, Quiet, Blank, store, TypeInv, TypeOK
  <2>4. \A m \in rows' : home[m] \in albums'
    BY <1>14 DEF SetExpiry, Refuse, Read, Quiet, Blank, store, ShelfInv
  <2> QED BY <2>1, <2>2, <2>3, <2>4, ShelfFrame DEF Points, Ended
<1>15. ASSUME NEW r \in Requests, WriteExpiry(r) PROVE ShelfInv'
  <2>1. PICK p \in {"ok", "refused"} : Go(r, p)
    BY <1>15 DEF WriteExpiry, Quiet, WriteAlbum, store
  <2>2. UNCHANGED home /\ minted \subseteq minted'
    BY <1>15 DEF WriteExpiry, Quiet, WriteAlbum, store
  <2>3. \A s \in Requests : s # r => loc'[s] = loc[s]
    BY <1>15 DEF WriteExpiry, Quiet, WriteAlbum, store, TypeInv, TypeOK
  <2>4. \A m \in rows' : home[m] \in albums'
    BY <1>15 DEF WriteExpiry, Quiet, WriteAlbum, store, ShelfInv
  <2> QED BY <2>1, <2>2, <2>3, <2>4, ShelfFrame DEF Points, Ended
<1>16. ASSUME NEW r \in Requests, FindMedia(r) PROVE ShelfInv'
  <2>1. PICK p \in {"checkAlbum", "refused"} : Go(r, p)
    BY <1>16 DEF FindMedia, Refuse, Read, Quiet, Blank, store
  <2>2. UNCHANGED home /\ minted \subseteq minted'
    BY <1>16 DEF FindMedia, Refuse, Read, Quiet, Blank, store
  <2>3. \A s \in Requests : s # r => loc'[s] = loc[s]
    BY <1>16 DEF FindMedia, Refuse, Read, Quiet, Blank, store, TypeInv, TypeOK
  <2>4. \A m \in rows' : home[m] \in albums'
    BY <1>16 DEF FindMedia, Refuse, Read, Quiet, Blank, store, ShelfInv
  <2> QED BY <2>1, <2>2, <2>3, <2>4, ShelfFrame DEF Points, Ended
<1>17. ASSUME NEW r \in Requests, CheckAlbum(r) PROVE ShelfInv'
  <2>1. PICK p \in {"deleteRow", "refused"} : Go(r, p)
    BY <1>17 DEF CheckAlbum, Refuse, Read, Quiet, store
  <2>2. UNCHANGED home /\ minted \subseteq minted'
    BY <1>17 DEF CheckAlbum, Refuse, Read, Quiet, store
  <2>3. \A s \in Requests : s # r => loc'[s] = loc[s]
    BY <1>17 DEF CheckAlbum, Refuse, Read, Quiet, store, TypeInv, TypeOK
  <2>4. \A m \in rows' : home[m] \in albums'
    BY <1>17 DEF CheckAlbum, Refuse, Read, Quiet, store, ShelfInv
  <2> QED BY <2>1, <2>2, <2>3, <2>4, ShelfFrame DEF Points, Ended
<1>18. ASSUME NEW r \in Requests, DeleteRow(r) PROVE ShelfInv'
  <2>1. PICK p \in {"cleanKeys", "refused"} : Go(r, p)
    BY <1>18 DEF DeleteRow, Refuse, Read, Quiet, DropMedia, store
  <2>2. UNCHANGED home /\ minted \subseteq minted'
    BY <1>18 DEF DeleteRow, Refuse, Read, Quiet, DropMedia, store
  <2>3. \A s \in Requests : s # r => loc'[s] = loc[s]
    BY <1>18 DEF DeleteRow, Refuse, Read, Quiet, DropMedia, store, TypeInv, TypeOK
  <2>4. \A m \in rows' : home[m] \in albums'
    BY <1>18 DEF DeleteRow, Refuse, Read, Quiet, DropMedia, store, ShelfInv
  <2> QED BY <2>1, <2>2, <2>3, <2>4, ShelfFrame DEF Points, Ended
<1>19. ASSUME NEW r \in Requests, CleanKey(r) PROVE ShelfInv'
  <2>1. PICK p \in {"cleanKeys"} : Go(r, p)
    BY <1>19 DEF CleanKey, DropOriginal, store, TypeInv, TypeOK, Go
  <2>2. UNCHANGED home /\ minted \subseteq minted'
    BY <1>19 DEF CleanKey, DropOriginal, store
  <2>3. \A s \in Requests : s # r => loc'[s] = loc[s]
    BY <1>19 DEF CleanKey, DropOriginal, store, TypeInv, TypeOK
  <2>4. \A m \in rows' : home[m] \in albums'
    BY <1>19 DEF CleanKey, DropOriginal, store, ShelfInv
  <2> QED BY <2>1, <2>2, <2>3, <2>4, ShelfFrame DEF Points, Ended
<1>20. ASSUME NEW r \in Requests, Cleaned(r) PROVE ShelfInv'
  <2>1. PICK p \in {"ok", "countLeft"} : Go(r, p)
    BY <1>20 DEF Cleaned, Announce, Quiet, store
  <2>2. UNCHANGED home /\ minted \subseteq minted'
    BY <1>20 DEF Cleaned, Announce, Quiet, store
  <2>3. \A s \in Requests : s # r => loc'[s] = loc[s]
    BY <1>20 DEF Cleaned, Announce, Quiet, store, TypeInv, TypeOK
  <2>4. \A m \in rows' : home[m] \in albums'
    BY <1>20 DEF Cleaned, Announce, Quiet, store, ShelfInv
  <2> QED BY <2>1, <2>2, <2>3, <2>4, ShelfFrame DEF Points, Ended
<1>21. ASSUME NEW r \in Requests, CountLeft(r) PROVE ShelfInv'
  <2>1. PICK p \in {"deleteEmpty", "touchAlbum"} : Go(r, p)
    BY <1>21 DEF CountLeft, Read, Quiet, store
  <2>2. UNCHANGED home /\ minted \subseteq minted'
    BY <1>21 DEF CountLeft, Read, Quiet, store
  <2>3. \A s \in Requests : s # r => loc'[s] = loc[s]
    BY <1>21 DEF CountLeft, Read, Quiet, store, TypeInv, TypeOK
  <2>4. \A m \in rows' : home[m] \in albums'
    BY <1>21 DEF CountLeft, Read, Quiet, store, ShelfInv
  <2> QED BY <2>1, <2>2, <2>3, <2>4, ShelfFrame DEF Points, Ended
<1>22. ASSUME NEW r \in Requests, DeleteEmpty(r) PROVE ShelfInv'
  <2>1. PICK p \in {"ok"} : Go(r, p)
    BY <1>22 DEF DeleteEmpty, Announce, Quiet, DropAlbum, Items
  <2>2. UNCHANGED home /\ minted \subseteq minted'
    BY <1>22 DEF DeleteEmpty, Announce, Quiet, DropAlbum, Items
  <2>3. \A s \in Requests : s # r => loc'[s] = loc[s]
    BY <1>22 DEF DeleteEmpty, Announce, Quiet, DropAlbum, Items, TypeInv, TypeOK
  <2>4. \A m \in rows' : home[m] \in albums'
    BY <1>22 DEF DeleteEmpty, Announce, Quiet, DropAlbum, Items, ShelfInv
  <2> QED BY <2>1, <2>2, <2>3, <2>4, ShelfFrame DEF Points, Ended
<1>23. ASSUME NEW r \in Requests, FindAlbum(r) PROVE ShelfInv'
  <2>1. PICK p \in {"selectRows", "refused"} : Go(r, p)
    BY <1>23 DEF FindAlbum, Refuse, Read, Quiet, Blank, store
  <2>2. UNCHANGED home /\ minted \subseteq minted'
    BY <1>23 DEF FindAlbum, Refuse, Read, Quiet, Blank, store
  <2>3. \A s \in Requests : s # r => loc'[s] = loc[s]
    BY <1>23 DEF FindAlbum, Refuse, Read, Quiet, Blank, store, TypeInv, TypeOK
  <2>4. \A m \in rows' : home[m] \in albums'
    BY <1>23 DEF FindAlbum, Refuse, Read, Quiet, Blank, store, ShelfInv
  <2> QED BY <2>1, <2>2, <2>3, <2>4, ShelfFrame DEF Points, Ended
<1>24. ASSUME NEW r \in Requests, SelectRows(r) PROVE ShelfInv'
  <2>1. PICK p \in {"deleteAlbumRow"} : Go(r, p)
    BY <1>24 DEF SelectRows, Read, Quiet, store
  <2>2. UNCHANGED home /\ minted \subseteq minted'
    BY <1>24 DEF SelectRows, Read, Quiet, store
  <2>3. \A s \in Requests : s # r => loc'[s] = loc[s]
    BY <1>24 DEF SelectRows, Read, Quiet, store, TypeInv, TypeOK
  <2>4. \A m \in rows' : home[m] \in albums'
    BY <1>24 DEF SelectRows, Read, Quiet, store, ShelfInv
  <2> QED BY <2>1, <2>2, <2>3, <2>4, ShelfFrame DEF Points, Ended
<1>25. ASSUME NEW r \in Requests, DeleteAlbumRow(r) PROVE ShelfInv'
  <2>1. PICK p \in {"cleanKeys", "refused"} : Go(r, p)
    BY <1>25 DEF DeleteAlbumRow, Refuse, Read, Quiet, DropAlbum, Items, store
  <2>2. UNCHANGED home /\ minted \subseteq minted'
    BY <1>25 DEF DeleteAlbumRow, Refuse, Read, Quiet, DropAlbum, Items, store
  <2>3. \A s \in Requests : s # r => loc'[s] = loc[s]
    BY <1>25 DEF DeleteAlbumRow, Refuse, Read, Quiet, DropAlbum, Items, store, TypeInv, TypeOK
  <2>4. \A m \in rows' : home[m] \in albums'
    BY <1>25 DEF DeleteAlbumRow, Refuse, Read, Quiet, DropAlbum, Items, store, ShelfInv
  <2> QED BY <2>1, <2>2, <2>3, <2>4, ShelfFrame DEF Points, Ended
<1>26. ASSUME NEW r \in Requests, ListExpired(r) PROVE ShelfInv'
  <2>1. PICK p \in {"pruneNext"} : Go(r, p)
    BY <1>26 DEF ListExpired, Read, Quiet, Blank, store
  <2>2. UNCHANGED home /\ minted \subseteq minted'
    BY <1>26 DEF ListExpired, Read, Quiet, Blank, store
  <2>3. \A s \in Requests : s # r => loc'[s] = loc[s]
    BY <1>26 DEF ListExpired, Read, Quiet, Blank, store, TypeInv, TypeOK
  <2>4. \A m \in rows' : home[m] \in albums'
    BY <1>26 DEF ListExpired, Read, Quiet, Blank, store, ShelfInv
  <2> QED BY <2>1, <2>2, <2>3, <2>4, ShelfFrame DEF Points, Ended
<1>27. ASSUME NEW r \in Requests, PruneNext(r) PROVE ShelfInv'
  <2>1. PICK p \in {"pruneKeys"} : Go(r, p)
    BY <1>27 DEF PruneNext, Read, Quiet, store
  <2>2. UNCHANGED home /\ minted \subseteq minted'
    BY <1>27 DEF PruneNext, Read, Quiet, store
  <2>3. \A s \in Requests : s # r => loc'[s] = loc[s]
    BY <1>27 DEF PruneNext, Read, Quiet, store, TypeInv, TypeOK
  <2>4. \A m \in rows' : home[m] \in albums'
    BY <1>27 DEF PruneNext, Read, Quiet, store, ShelfInv
  <2> QED BY <2>1, <2>2, <2>3, <2>4, ShelfFrame DEF Points, Ended
<1>28. ASSUME NEW r \in Requests, PruneKey(r) PROVE ShelfInv'
  <2>1. PICK p \in {"pruneKeys", "pruneNext"} : Go(r, p)
    BY <1>28 DEF PruneKey, DropOriginal, store, TypeInv, TypeOK, Go
  <2>2. UNCHANGED home /\ minted \subseteq minted'
    BY <1>28 DEF PruneKey, DropOriginal, store
  <2>3. \A s \in Requests : s # r => loc'[s] = loc[s]
    BY <1>28 DEF PruneKey, DropOriginal, store, TypeInv, TypeOK
  <2>4. \A m \in rows' : home[m] \in albums'
    BY <1>28 DEF PruneKey, DropOriginal, store, ShelfInv
  <2> QED BY <2>1, <2>2, <2>3, <2>4, ShelfFrame DEF Points, Ended
<1>29. ASSUME NEW r \in Requests, PruneAlbum(r) PROVE ShelfInv'
  <2>1. PICK p \in {"pruneNext"} : Go(r, p)
    BY <1>29 DEF PruneAlbum, Announce, Quiet, DropAlbum, Items
  <2>2. UNCHANGED home /\ minted \subseteq minted'
    BY <1>29 DEF PruneAlbum, Announce, Quiet, DropAlbum, Items
  <2>3. \A s \in Requests : s # r => loc'[s] = loc[s]
    BY <1>29 DEF PruneAlbum, Announce, Quiet, DropAlbum, Items, TypeInv, TypeOK
  <2>4. \A m \in rows' : home[m] \in albums'
    BY <1>29 DEF PruneAlbum, Announce, Quiet, DropAlbum, Items, ShelfInv
  <2> QED BY <2>1, <2>2, <2>3, <2>4, ShelfFrame DEF Points, Ended
<1>30. ASSUME NEW r \in Requests, PruneDone(r) PROVE ShelfInv'
  <2>1. PICK p \in {"ok"} : Go(r, p)
    BY <1>30 DEF PruneDone, Read, Quiet, store
  <2>2. UNCHANGED home /\ minted \subseteq minted'
    BY <1>30 DEF PruneDone, Read, Quiet, store
  <2>3. \A s \in Requests : s # r => loc'[s] = loc[s]
    BY <1>30 DEF PruneDone, Read, Quiet, store, TypeInv, TypeOK
  <2>4. \A m \in rows' : home[m] \in albums'
    BY <1>30 DEF PruneDone, Read, Quiet, store, ShelfInv
  <2> QED BY <2>1, <2>2, <2>3, <2>4, ShelfFrame DEF Points, Ended
<1>31. ASSUME NEW r \in Requests, FindUser(r) PROVE ShelfInv'
  <2>1. PICK p \in {"userKeys", "refused"} : Go(r, p)
    BY <1>31 DEF FindUser, Refuse, Read, Quiet, Blank, store
  <2>2. UNCHANGED home /\ minted \subseteq minted'
    BY <1>31 DEF FindUser, Refuse, Read, Quiet, Blank, store
  <2>3. \A s \in Requests : s # r => loc'[s] = loc[s]
    BY <1>31 DEF FindUser, Refuse, Read, Quiet, Blank, store, TypeInv, TypeOK
  <2>4. \A m \in rows' : home[m] \in albums'
    BY <1>31 DEF FindUser, Refuse, Read, Quiet, Blank, store, ShelfInv
  <2> QED BY <2>1, <2>2, <2>3, <2>4, ShelfFrame DEF Points, Ended
<1>32. ASSUME NEW r \in Requests, UserKey(r) PROVE ShelfInv'
  <2>1. PICK p \in {"userKeys", "refused"} : Go(r, p)
    BY <1>32 DEF UserKey, DropOriginal, store, TypeInv, TypeOK, Go
  <2>2. UNCHANGED home /\ minted \subseteq minted'
    BY <1>32 DEF UserKey, DropOriginal, store
  <2>3. \A s \in Requests : s # r => loc'[s] = loc[s]
    BY <1>32 DEF UserKey, DropOriginal, store, TypeInv, TypeOK
  <2>4. \A m \in rows' : home[m] \in albums'
    BY <1>32 DEF UserKey, DropOriginal, store, ShelfInv
  <2> QED BY <2>1, <2>2, <2>3, <2>4, ShelfFrame DEF Points, Ended
<1>33. ASSUME NEW r \in Requests, DropUser(r) PROVE ShelfInv'
  <2>1. PICK p \in {"ok", "refused"} : Go(r, p)
    BY <1>33 DEF DropUser, Refuse, Read, Quiet, DropAccount, OwnedItems, store
  <2>2. UNCHANGED home /\ minted \subseteq minted'
    BY <1>33 DEF DropUser, Refuse, Read, Quiet, DropAccount, OwnedItems, store
  <2>3. \A s \in Requests : s # r => loc'[s] = loc[s]
    BY <1>33 DEF DropUser, Refuse, Read, Quiet, DropAccount, OwnedItems, store, TypeInv, TypeOK
  <2>4. \A m \in rows' : home[m] \in albums'
    BY <1>33 DEF DropUser, Refuse, Read, Quiet, DropAccount, OwnedItems, store, ShelfInv
  <2> QED BY <2>1, <2>2, <2>3, <2>4, ShelfFrame DEF Points, Ended
<1>34. CASE Crash
  BY <1>34 DEF Crash, store, Ended, TypeInv, TypeOK, ShelfInv
<1>35. CASE Pass
  BY <1>35 DEF Pass, Tick, ShelfInv
<1>36. CASE UNCHANGED vars
  BY <1>36 DEF vars, store, ShelfInv
<1> QED
  BY <1>1, <1>2, <1>3, <1>4, <1>5, <1>6, <1>7, <1>8, <1>9, <1>10, <1>11, <1>12, <1>13, <1>14, <1>15, <1>16, <1>17, <1>18, <1>19, <1>20, <1>21, <1>22, <1>23, <1>24, <1>25, <1>26, <1>27, <1>28, <1>29, <1>30, <1>31, <1>32, <1>33, <1>34, <1>35, <1>36
     DEF Next, Uploading, Editing, Deleting, Pruning, Closing

-----------------------------------------------------------------------------
(* Each statement of the store is one step of the catalogue, or none.      *)

LEMMA StatementsVisible ==
  ASSUME TypeInv, ShelfInv, EventInv
  PROVE  /\ \A a \in Albums \ minted : CreateAlbum(a) => Visible!Open(a)
         /\ \A m \in Media, a \in albums :
              m \in minted /\ home[m] = NoAlbum /\ InsertMedia(m, a) => Visible!List(m, a)
         /\ \A m \in rows : DropMedia(m) => Visible!Remove(m)
         /\ \A a \in albums : DropAlbum(a) => Visible!Close({a})
         /\ \A a : a \notin albums /\ DropAlbum(a) => UNCHANGED Visible!catalogue
         /\ DropAccount => Visible!Close(Owned \cap albums)
         /\ UNCHANGED <<albums, rows, home, minted \cap Albums>> => UNCHANGED Visible!catalogue
<1> USE StoreAssumption DEF TypeInv, TypeOK, StoreTypeOK, ShelfInv, EventInv, Shelf, Item
<1>1. \A a \in Albums \ minted : CreateAlbum(a) => Visible!Open(a)
  <2> SUFFICES ASSUME NEW a \in Albums \ minted, CreateAlbum(a) PROVE Visible!Open(a)
    OBVIOUS
  <2>1. albums' = albums \cup {a} /\ minted' = minted \cup {a} /\ UNCHANGED <<rows, home>>
    BY DEF CreateAlbum
  <2>2. Shelf[a] = "none"
    OBVIOUS
  <2>3. Shelf' = [Shelf EXCEPT ![a] = "open"]
    BY <2>1
  <2>4. UNCHANGED <<Item, home>>
    BY <2>1
  <2> QED BY <2>2, <2>3, <2>4 DEF Visible!Open
<1>2. \A m \in Media, a \in albums :
         m \in minted /\ home[m] = NoAlbum /\ InsertMedia(m, a) => Visible!List(m, a)
  <2> SUFFICES ASSUME NEW m \in Media, NEW a \in albums, m \in minted, home[m] = NoAlbum,
                      InsertMedia(m, a)
               PROVE  Visible!List(m, a)
    OBVIOUS
  <2>1. rows' = rows \cup {m} /\ home' = [home EXCEPT ![m] = a] /\ UNCHANGED <<albums, minted>>
    BY DEF InsertMedia
  <2>2. a \in Albums /\ a # NoAlbum /\ m \notin rows
    OBVIOUS
  <2>3. Shelf[a] = "open" /\ Item[m] = "none" /\ UNCHANGED Shelf
    BY <2>1, <2>2
  <2>4. Item' = [Item EXCEPT ![m] = "listed"]
    BY <2>1, <2>2
  <2> QED BY <2>1, <2>3, <2>4 DEF Visible!List
<1>3. \A m \in rows : DropMedia(m) => Visible!Remove(m)
  BY DEF DropMedia, Visible!Remove
<1>4. \A a \in albums : DropAlbum(a) => Visible!Close({a})
  BY DEF DropAlbum, Visible!Close, Items
<1>5. \A a : a \notin albums /\ DropAlbum(a) => UNCHANGED Visible!catalogue
  BY DEF DropAlbum, Visible!catalogue, Items
<1>6. DropAccount => Visible!Close(Owned \cap albums)
  BY DEF DropAccount, Visible!Close, OwnedItems
<1>7. UNCHANGED <<albums, rows, home, minted \cap Albums>> => UNCHANGED Visible!catalogue
  BY DEF Visible!catalogue
<1> QED BY <1>1, <1>2, <1>3, <1>4, <1>5, <1>6, <1>7

LEMMA CatalogueInit == Init => Visible!Init
BY StoreAssumption DEF Init, StoreInit, Visible!Init, Shelf, Item

LEMMA CatalogueStep ==
  TypeInv /\ EventInv /\ ShelfInv /\ [Next]_vars => [Visible!Next]_(Visible!catalogue)
<1> SUFFICES ASSUME TypeInv, EventInv, ShelfInv, [Next]_vars
             PROVE  Visible!Next \/ UNCHANGED Visible!catalogue
  OBVIOUS
<1> DEFINE Same == UNCHANGED <<albums, rows, home, minted \cap Albums>>
           Moves == Visible!Next \/ UNCHANGED Visible!catalogue
<1>a. Same => Moves
  BY StatementsVisible
<1>b. ASSUME NEW a, DropAlbum(a) PROVE Moves
  <2>1. a \in albums => a \in Albums
    BY DEF TypeInv, TypeOK, StoreTypeOK
  <2>2. CASE a \in albums
    <3>1. Visible!Close({a}) /\ {a} \in SUBSET Albums
      BY <1>b, <2>1, <2>2, StatementsVisible
    <3> QED BY <3>1 DEF Visible!Next
  <2> QED BY <1>b, <2>2, StatementsVisible
<1>1. ASSUME NEW r \in Requests, Admit(r) PROVE Moves
  BY <1>1, <1>a DEF Admit, Refuse, Read, store
<1>2. ASSUME NEW r \in Requests, OpenAlbum(r) PROVE Moves
  BY <1>2, <1>a DEF OpenAlbum, Refuse, Read, store
<1>3. ASSUME NEW r \in Requests, MakeAlbum(r) PROVE Moves
  <2>1. PICK a \in Albums \ minted : CreateAlbum(a) \/ UNCHANGED store
    BY <1>3 DEF MakeAlbum, Refuse, Read
  <2>2. CASE CreateAlbum(a)
    BY <2>2, StatementsVisible DEF Visible!Next
  <2>3. CASE UNCHANGED store
    BY <2>3, <1>a DEF store
  <2> QED BY <2>1, <2>2, <2>3
<1>4. ASSUME NEW r \in Requests, CountItems(r) PROVE Moves
  BY <1>4, <1>a DEF CountItems, Read, store
<1>5. ASSUME NEW r \in Requests, RejectFile(r) PROVE Moves
  BY <1>5, <1>a DEF RejectFile, Read, store
<1>6. ASSUME NEW r \in Requests, StoreFile(r) PROVE Moves
  BY <1>6, <1>a, StoreAssumption DEF StoreFile, PutOriginal
<1>7. ASSUME NEW r \in Requests, InsertRow(r) PROVE Moves
  <2>1. \/ loc[r].alb \in albums /\ InsertMedia(loc[r].med, loc[r].alb)
        \/ UNCHANGED store
    BY <1>7 DEF InsertRow
  <2>2. CASE loc[r].alb \in albums /\ InsertMedia(loc[r].med, loc[r].alb)
    <3>1. loc[r].med \in Media /\ loc[r].med \in minted /\ home[loc[r].med] = NoAlbum
      BY <1>7 DEF InsertRow, TypeInv, ChosenMedia, ShelfInv
    <3>2. loc[r].alb \in Albums
      BY <2>2 DEF TypeInv, TypeOK, StoreTypeOK
    <3>3. Visible!List(loc[r].med, loc[r].alb)
      BY <2>2, <3>1, StatementsVisible
    <3> QED BY <3>1, <3>2, <3>3 DEF Visible!Next
  <2>3. CASE UNCHANGED store
    BY <2>3, <1>a DEF store
  <2> QED BY <2>1, <2>2, <2>3
<1>8. ASSUME NEW r \in Requests, LoseCommit(r) PROVE Moves
  <2>1. \/ loc[r].alb \in albums /\ InsertMedia(loc[r].med, loc[r].alb)
        \/ UNCHANGED store
    BY <1>8 DEF LoseCommit
  <2>2. CASE loc[r].alb \in albums /\ InsertMedia(loc[r].med, loc[r].alb)
    <3>1. loc[r].med \in Media /\ loc[r].med \in minted /\ home[loc[r].med] = NoAlbum
      BY <1>8 DEF LoseCommit, TypeInv, ChosenMedia, ShelfInv
    <3>2. loc[r].alb \in Albums
      BY <2>2 DEF TypeInv, TypeOK, StoreTypeOK
    <3>3. Visible!List(loc[r].med, loc[r].alb)
      BY <2>2, <3>1, StatementsVisible
    <3> QED BY <3>1, <3>2, <3>3 DEF Visible!Next
  <2>3. CASE UNCHANGED store
    BY <2>3, <1>a DEF store
  <2> QED BY <2>1, <2>2, <2>3
<1>9. ASSUME NEW r \in Requests, Rollback(r) PROVE Moves
  BY <1>9, <1>a DEF Rollback, DropOriginal, store
<1>10. ASSUME NEW r \in Requests, UnwindList(r) PROVE Moves
  BY <1>10, <1>a DEF UnwindList, Read, store
<1>11. ASSUME NEW r \in Requests, UnwindDelete(r) PROVE Moves
  BY <1>11, <1>b DEF UnwindDelete
<1>12. ASSUME NEW r \in Requests, TouchAlbum(r) PROVE Moves
  BY <1>12, <1>a DEF TouchAlbum, WriteAlbum, store
<1>13. ASSUME NEW r \in Requests, Edit(r) PROVE Moves
  BY <1>13, <1>a DEF Edit, Refuse, Read, store
<1>14. ASSUME NEW r \in Requests, SetExpiry(r) PROVE Moves
  BY <1>14, <1>a DEF SetExpiry, Refuse, Read, store
<1>15. ASSUME NEW r \in Requests, WriteExpiry(r) PROVE Moves
  BY <1>15, <1>a DEF WriteExpiry, WriteAlbum, store
<1>16. ASSUME NEW r \in Requests, FindMedia(r) PROVE Moves
  BY <1>16, <1>a DEF FindMedia, Refuse, Read, store
<1>17. ASSUME NEW r \in Requests, CheckAlbum(r) PROVE Moves
  BY <1>17, <1>a DEF CheckAlbum, Refuse, Read, store
<1>18. ASSUME NEW r \in Requests, DeleteRow(r) PROVE Moves
  <2>1. \/ loc[r].med \in rows /\ DropMedia(loc[r].med)
        \/ UNCHANGED store
    BY <1>18 DEF DeleteRow, Refuse, Read
  <2>2. CASE loc[r].med \in rows /\ DropMedia(loc[r].med)
    <3>1. loc[r].med \in Media /\ Visible!Remove(loc[r].med)
      BY <2>2, StatementsVisible DEF TypeInv, TypeOK, StoreTypeOK
    <3> QED BY <3>1 DEF Visible!Next
  <2>3. CASE UNCHANGED store
    BY <2>3, <1>a DEF store
  <2> QED BY <2>1, <2>2, <2>3
<1>19. ASSUME NEW r \in Requests, CleanKey(r) PROVE Moves
  BY <1>19, <1>a DEF CleanKey, DropOriginal, store
<1>20. ASSUME NEW r \in Requests, Cleaned(r) PROVE Moves
  BY <1>20, <1>a DEF Cleaned, store
<1>21. ASSUME NEW r \in Requests, CountLeft(r) PROVE Moves
  BY <1>21, <1>a DEF CountLeft, Read, store
<1>22. ASSUME NEW r \in Requests, DeleteEmpty(r) PROVE Moves
  BY <1>22, <1>b DEF DeleteEmpty
<1>23. ASSUME NEW r \in Requests, FindAlbum(r) PROVE Moves
  BY <1>23, <1>a DEF FindAlbum, Refuse, Read, store
<1>24. ASSUME NEW r \in Requests, SelectRows(r) PROVE Moves
  BY <1>24, <1>a DEF SelectRows, Read, store
<1>25. ASSUME NEW r \in Requests, DeleteAlbumRow(r) PROVE Moves
  <2>1. DropAlbum(loc[r].alb) \/ UNCHANGED store
    BY <1>25 DEF DeleteAlbumRow, Refuse, Read
  <2>2. CASE UNCHANGED store
    BY <2>2, <1>a DEF store
  <2> QED BY <2>1, <2>2, <1>b
<1>26. ASSUME NEW r \in Requests, ListExpired(r) PROVE Moves
  BY <1>26, <1>a DEF ListExpired, Read, store
<1>27. ASSUME NEW r \in Requests, PruneNext(r) PROVE Moves
  BY <1>27, <1>a DEF PruneNext, Read, store
<1>28. ASSUME NEW r \in Requests, PruneKey(r) PROVE Moves
  BY <1>28, <1>a DEF PruneKey, DropOriginal, store
<1>29. ASSUME NEW r \in Requests, PruneAlbum(r) PROVE Moves
  BY <1>29, <1>b DEF PruneAlbum
<1>30. ASSUME NEW r \in Requests, PruneDone(r) PROVE Moves
  BY <1>30, <1>a DEF PruneDone, Read, store
<1>31. ASSUME NEW r \in Requests, FindUser(r) PROVE Moves
  BY <1>31, <1>a DEF FindUser, Refuse, Read, store
<1>32. ASSUME NEW r \in Requests, UserKey(r) PROVE Moves
  BY <1>32, <1>a DEF UserKey, DropOriginal, store
<1>33. ASSUME NEW r \in Requests, DropUser(r) PROVE Moves
  <2>1. DropAccount \/ UNCHANGED store
    BY <1>33 DEF DropUser, Refuse, Read
  <2>2. CASE DropAccount
    <3>1. Visible!Close(Owned \cap albums) /\ Owned \cap albums \in SUBSET Albums
      BY <2>2, StatementsVisible, StoreAssumption
    <3> QED BY <3>1 DEF Visible!Next
  <2>3. CASE UNCHANGED store
    BY <2>3, <1>a DEF store
  <2> QED BY <2>1, <2>2, <2>3
<1>34. CASE Crash
  BY <1>34, <1>a DEF Crash, store
<1>35. CASE Pass
  BY <1>35, <1>a DEF Pass, Tick
<1>36. CASE UNCHANGED vars
  BY <1>36, <1>a DEF vars, store
<1> QED
  BY <1>1, <1>2, <1>3, <1>4, <1>5, <1>6, <1>7, <1>8, <1>9, <1>10, <1>11, <1>12, <1>13, <1>14, <1>15, <1>16, <1>17, <1>18, <1>19, <1>20, <1>21, <1>22, <1>23, <1>24, <1>25, <1>26, <1>27, <1>28, <1>29, <1>30, <1>31, <1>32, <1>33, <1>34, <1>35, <1>36
     DEF Next, Uploading, Editing, Deleting, Pruning, Closing

\* Every step of every handler is a step of the catalogue: visitors never see
\* an item outside a standing album, an album that closes and leaves items
\* behind, or anything that was taken down come back.
THEOREM Implementation == Spec => ImplementsCatalogue
<1> DEFINE Inv == TypeInv /\ EventInv /\ ShelfInv
<1>1. Init => Inv
  BY TypeInit, EventInit, ShelfInit
<1>2. Inv /\ [Next]_vars => Inv'
  BY TypeStep, EventStep, ShelfStep
<1>3. Inv /\ [Next]_vars => [Visible!Next]_(Visible!catalogue)
  BY CatalogueStep
<1> HIDE DEF Inv
<1> QED BY <1>1, <1>2, <1>3, CatalogueInit, PTL DEF Spec, ImplementsCatalogue, Visible!Spec

=============================================================================
