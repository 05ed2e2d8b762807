--------------------------- MODULE MediaLifecycle ---------------------------
(***************************************************************************)
(* UploadService and AccountService.delete_user_by_id as concurrent        *)
(* requests over the store.  Each handler is a coroutine (or, for prune, a *)
(* job in another process); every await is a step boundary, so a request   *)
(* is a program counter and the few values it carries from one await to    *)
(* the next.  A request is used once and keeps its values when it ends:    *)
(* the properties read what happened from them.                            *)
(***************************************************************************)
EXTENDS LibraryStore

CONSTANTS
  Requests,    \* handler invocations (bound)
  NoMedia,     \* "no media chosen yet"
  MaxItems,    \* MAX_ALBUM_ITEMS
  QuotaItems,  \* SERVER_QUOTA_BYTES with every item one unit; 0 = disabled
  MaxFaults    \* crashes, failed storage calls and lost commits (bound)

ASSUME LifecycleAssumption ==
  /\ NoMedia \notin Media
  /\ MaxItems \in Nat \ {0}
  /\ QuotaItems \in Nat
  /\ MaxFaults \in Nat

VARIABLES
  pc,         \* where each request is
  loc,        \* what it carries
  announced,  \* AlbumDeleted events emitted, per album
  faults      \* faults so far

vars == <<store, pc, loc, announced, faults>>

Ops == {"none", "upload", "edit", "setExpiry", "deleteMedia", "deleteAlbum",
        "prune", "deleteUser"}

Ended == {"ok", "refused", "crashed"}

Points == Ended \cup
  {"idle", "openAlbum", "countItems", "putOriginal", "insertRow", "rollback",
   "unwindList", "unwindDelete", "touchAlbum", "writeExpiry", "checkAlbum",
   "deleteRow", "cleanKeys", "countLeft", "deleteEmpty", "selectRows",
   "deleteAlbumRow", "pruneNext", "pruneKeys", "userKeys"}

Locals == [op   : Ops,
           alb  : Albums \cup {NoAlbum},   \* the album
           med  : Media \cup {NoMedia},    \* the media
           made : BOOLEAN,                 \* upload: created its own album
           snap : Expiry,                  \* expires_at to write back
           keys : SUBSET Media,            \* media whose objects are to go
           todo : SUBSET Albums]           \* prune: expired albums to do

Blank == [op |-> "none", alb |-> NoAlbum, med |-> NoMedia, made |-> FALSE,
          snap |-> Never, keys |-> {}, todo |-> {}]

Init ==
  /\ StoreInit
  /\ pc = [r \in Requests |-> "idle"]
  /\ loc = [r \in Requests |-> Blank]
  /\ announced = [a \in Albums |-> 0]
  /\ faults = 0

-----------------------------------------------------------------------------
(* Shorthand.                                                              *)

Go(r, p) == pc' = [pc EXCEPT ![r] = p]
Keep(r, l) == loc' = [loc EXCEPT ![r] = l]

Quiet == UNCHANGED <<announced, faults>>

\* A step that only reads the store (or computes).
Read == UNCHANGED store /\ Quiet

Fault == faults < MaxFaults /\ faults' = faults + 1

\* event_bus.emit(AlbumDeleted(...))
Announce(a) == announced' = [announced EXCEPT ![a] = @ + 1] /\ UNCHANGED faults

\* Answer without having done anything.
Refuse(r) == Go(r, "refused") /\ UNCHANGED loc /\ Read

-----------------------------------------------------------------------------
(* upload                                                                  *)

\* An item of size one is offered; list_all_media is summed against the quota.
QuotaLeft == QuotaItems = 0 \/ Cardinality(rows) + 1 <= QuotaItems

Admit(r) ==
  /\ pc[r] = "idle"
  /\ IF QuotaLeft
     THEN \E a \in (minted \cap Albums) \cup {NoAlbum} :
            /\ Go(r, "openAlbum")
            /\ Keep(r, [Blank EXCEPT !.op = "upload", !.alb = a,
                                     !.made = (a = NoAlbum)])
            /\ Read
     ELSE Refuse(r)

OpenAlbum(r) ==
  /\ pc[r] = "openAlbum" /\ ~loc[r].made
  /\ LET a == loc[r].alb IN
       IF a \in albums /\ ~Expired(a)
       THEN Go(r, "countItems") /\ Keep(r, [loc[r] EXCEPT !.snap = expires[a]]) /\ Read
       ELSE Refuse(r)

\* generate_album_id and create_album; the account may be gone by now.
MakeAlbum(r) ==
  /\ pc[r] = "openAlbum" /\ loc[r].made
  /\ \E a \in Albums \ minted :
       IF a \in Owned => account
       THEN /\ Go(r, "countItems")
            /\ CreateAlbum(a)
            /\ Keep(r, [loc[r] EXCEPT !.alb = a, !.snap = expires'[a]])
            /\ Quiet
       ELSE Refuse(r)

\* Mutant: created_album is not looked at.
FailedAlwaysUnwinds(r) == "unwindList"

\* The except clauses of upload: an album made for it is taken down if empty.
Failed(r) == IF loc[r].made THEN "unwindList" ELSE "refused"

CountItems(r) ==
  /\ pc[r] = "countItems"
  /\ Go(r, IF Cardinality(Items(loc[r].alb)) >= MaxItems THEN Failed(r) ELSE "putOriginal")
  /\ UNCHANGED loc /\ Read

\* Validation rejects the file, or storage.put raises and stores nothing.
RejectFile(r) ==
  /\ pc[r] = "putOriginal"
  /\ Go(r, Failed(r)) /\ UNCHANGED loc /\ Read

StoreFile(r) ==
  /\ pc[r] = "putOriginal"
  /\ \E m \in Media \ minted :
       /\ PutOriginal(m)
       /\ Keep(r, [loc[r] EXCEPT !.med = m])
  /\ Go(r, "insertRow")
  /\ Quiet

\* Mutant: the rollback of the stored object is forgotten.
InsertRowNoRollback(r) ==
  /\ pc[r] = "insertRow"
  /\ IF loc[r].alb \in albums
     THEN Go(r, "touchAlbum") /\ InsertMedia(loc[r].med, loc[r].alb)
     ELSE Go(r, Failed(r)) /\ UNCHANGED store
  /\ UNCHANGED loc /\ Quiet

\* Inserting into an album that is gone violates the foreign key.
InsertRow(r) ==
  /\ pc[r] = "insertRow"
  /\ IF loc[r].alb \in albums
     THEN Go(r, "touchAlbum") /\ InsertMedia(loc[r].med, loc[r].alb)
     ELSE Go(r, "rollback") /\ UNCHANGED store
  /\ UNCHANGED loc /\ Quiet

\* The INSERT commits, but the connection breaks before the reply.
LoseCommit(r) ==
  /\ pc[r] = "insertRow"
  /\ loc[r].alb \in albums
  /\ InsertMedia(loc[r].med, loc[r].alb)
  /\ Go(r, "rollback")
  /\ Fault
  /\ UNCHANGED <<loc, announced>>

\* _delete_storage_key_best_effort swallows a failure.
Rollback(r) ==
  /\ pc[r] = "rollback"
  /\ \/ DropOriginal(loc[r].med) /\ UNCHANGED faults
     \/ Fault /\ UNCHANGED store
  /\ Go(r, Failed(r))
  /\ UNCHANGED <<loc, announced>>

UnwindList(r) ==
  /\ pc[r] = "unwindList"
  /\ Go(r, IF Items(loc[r].alb) = {} THEN "unwindDelete" ELSE "refused")
  /\ UNCHANGED loc /\ Read

\* repository.delete_album: the rows it cascades to are not cleaned up.
UnwindDelete(r) ==
  /\ pc[r] = "unwindDelete"
  /\ DropAlbum(loc[r].alb)
  /\ Go(r, "refused")
  /\ UNCHANGED loc /\ Quiet

-----------------------------------------------------------------------------
(* The closing update_album(album) of upload, update_album, reorder_album  *)
(* and delete_media: the whole row is written back as it was read.         *)

TouchAlbum(r) ==
  /\ pc[r] = "touchAlbum"
  /\ IF loc[r].alb \in albums
     THEN WriteAlbum(loc[r].alb, loc[r].snap) /\ Go(r, "ok")
     ELSE /\ UNCHANGED store
          /\ Go(r, IF loc[r].op = "deleteMedia" THEN "ok" ELSE "refused")
  /\ UNCHANGED loc /\ Quiet

\* update_album (title, cover) and reorder_album, as far as the album row goes.
Edit(r) ==
  /\ pc[r] = "idle"
  /\ \E a \in minted \cap Albums :
       IF a \in albums /\ ~Expired(a)
       THEN /\ Go(r, "touchAlbum")
            /\ Keep(r, [Blank EXCEPT !.op = "edit", !.alb = a, !.snap = expires[a]])
            /\ Read
       ELSE Refuse(r)

\* admin_update_album
SetExpiry(r) ==
  /\ pc[r] = "idle"
  /\ \E a \in minted \cap Albums, e \in (0 .. MaxTime) \cup {Never} :
       IF a \in albums
       THEN /\ Go(r, IF expires[a] = e THEN "ok" ELSE "writeExpiry")
            /\ Keep(r, [Blank EXCEPT !.op = "setExpiry", !.alb = a, !.snap = e])
            /\ Read
       ELSE Refuse(r)

WriteExpiry(r) ==
  /\ pc[r] = "writeExpiry"
  /\ IF loc[r].alb \in albums
     THEN WriteAlbum(loc[r].alb, loc[r].snap) /\ Go(r, "ok")
     ELSE UNCHANGED store /\ Go(r, "refused")
  /\ UNCHANGED loc /\ Quiet

-----------------------------------------------------------------------------
(* delete_media and delete_album                                           *)

FindMedia(r) ==
  /\ pc[r] = "idle"
  /\ \E m \in minted \cap Media :
       IF m \in rows
       THEN /\ Go(r, "checkAlbum")
            /\ Keep(r, [Blank EXCEPT !.op = "deleteMedia", !.med = m, !.alb = home[m]])
            /\ Read
       ELSE Refuse(r)

CheckAlbum(r) ==
  /\ pc[r] = "checkAlbum"
  /\ LET a == loc[r].alb IN
       IF a \in albums /\ ~Expired(a)
       THEN Go(r, "deleteRow") /\ Keep(r, [loc[r] EXCEPT !.snap = expires[a]]) /\ Read
       ELSE Refuse(r)

\* Mutant: the deleted row is not handed to the storage cleanup.
DeleteRowKeepObject(r) ==
  /\ pc[r] = "deleteRow"
  /\ IF loc[r].med \in rows
     THEN DropMedia(loc[r].med) /\ Go(r, "cleanKeys") /\ UNCHANGED loc /\ Quiet
     ELSE Refuse(r)

DeleteRow(r) ==
  /\ pc[r] = "deleteRow"
  /\ IF loc[r].med \in rows
     THEN /\ DropMedia(loc[r].med)
          /\ Keep(r, [loc[r] EXCEPT !.keys = {loc[r].med}])
          /\ Go(r, "cleanKeys")
          /\ Quiet
     ELSE Refuse(r)

\* _delete_media_storage_keys: rows are gone, objects go one by one.
CleanKey(r) ==
  /\ pc[r] = "cleanKeys"
  /\ \E k \in loc[r].keys :
       /\ \/ DropOriginal(k) /\ UNCHANGED faults
          \/ Fault /\ UNCHANGED store
       /\ Keep(r, [loc[r] EXCEPT !.keys = @ \ {k}])
  /\ UNCHANGED <<pc, announced>>

Cleaned(r) ==
  /\ pc[r] = "cleanKeys" /\ loc[r].keys = {}
  /\ IF loc[r].op = "deleteAlbum"
     THEN Go(r, "ok") /\ Announce(loc[r].alb)
     ELSE Go(r, "countLeft") /\ Quiet
  /\ UNCHANGED <<store, loc>>

CountLeft(r) ==
  /\ pc[r] = "countLeft"
  /\ Go(r, IF Items(loc[r].alb) = {} THEN "deleteEmpty" ELSE "touchAlbum")
  /\ UNCHANGED loc /\ Read

\* Mutant: the event is emitted whether or not there was a row to delete.
DeleteEmptyAnnounceAlways(r) ==
  /\ pc[r] = "deleteEmpty"
  /\ DropAlbum(loc[r].alb)
  /\ Announce(loc[r].alb)
  /\ Go(r, "ok")
  /\ UNCHANGED loc

\* The album is dropped on the strength of the earlier count.
DeleteEmpty(r) ==
  /\ pc[r] = "deleteEmpty"
  /\ DropAlbum(loc[r].alb)
  /\ IF loc[r].alb \in albums THEN Announce(loc[r].alb) ELSE Quiet
  /\ Go(r, "ok")
  /\ UNCHANGED loc

\* An admin may delete an expired album, so expiry refuses only some callers.
FindAlbum(r) ==
  /\ pc[r] = "idle"
  /\ \E a \in minted \cap Albums :
       \/ /\ a \in albums
          /\ Go(r, "selectRows")
          /\ Keep(r, [Blank EXCEPT !.op = "deleteAlbum", !.alb = a])
          /\ Read
       \/ (a \notin albums \/ Expired(a)) /\ Refuse(r)

\* repository.delete_album: SELECT the media, then DELETE the album.
SelectRows(r) ==
  /\ pc[r] = "selectRows"
  /\ Go(r, "deleteAlbumRow")
  /\ Keep(r, [loc[r] EXCEPT !.keys = Items(loc[r].alb)])
  /\ Read

DeleteAlbumRow(r) ==
  /\ pc[r] = "deleteAlbumRow"
  /\ IF loc[r].alb \in albums
     THEN DropAlbum(loc[r].alb) /\ Go(r, "cleanKeys") /\ UNCHANGED loc /\ Quiet
     ELSE Refuse(r)

-----------------------------------------------------------------------------
(* prune_expired_albums: objects first, then the album, one album at a     *)
(* time; expiry is not looked at again after the list is made.             *)

\* Mutant: albums with an expiry date are listed whether or not it has come.
ListExpiredEarly(r) ==
  /\ pc[r] = "idle"
  /\ Go(r, "pruneNext")
  /\ Keep(r, [Blank EXCEPT !.op = "prune", !.todo = {a \in albums : expires[a] # Never}])
  /\ Read

ListExpired(r) ==
  /\ pc[r] = "idle"
  /\ Go(r, "pruneNext")
  /\ Keep(r, [Blank EXCEPT !.op = "prune", !.todo = albums \cap OverdueBy(expires, now)])
  /\ Read

PruneNext(r) ==
  /\ pc[r] = "pruneNext"
  /\ \E a \in loc[r].todo :
       Keep(r, [loc[r] EXCEPT !.alb = a, !.keys = Items(a), !.todo = @ \ {a}])
  /\ Go(r, "pruneKeys")
  /\ Read

\* A failed delete leaves the album for the next prune.
PruneKey(r) ==
  /\ pc[r] = "pruneKeys"
  /\ \E k \in loc[r].keys :
       \/ /\ DropOriginal(k)
          /\ Keep(r, [loc[r] EXCEPT !.keys = @ \ {k}])
          /\ UNCHANGED <<pc, faults>>
       \/ Fault /\ Go(r, "pruneNext") /\ UNCHANGED <<store, loc>>
  /\ UNCHANGED announced

PruneAlbum(r) ==
  /\ pc[r] = "pruneKeys" /\ loc[r].keys = {}
  /\ DropAlbum(loc[r].alb)
  /\ IF loc[r].alb \in albums THEN Announce(loc[r].alb) ELSE Quiet
  /\ Go(r, "pruneNext")
  /\ UNCHANGED loc

PruneDone(r) ==
  /\ pc[r] = "pruneNext" /\ loc[r].todo = {}
  /\ Go(r, "ok") /\ UNCHANGED loc /\ Read

-----------------------------------------------------------------------------
(* delete_user_by_id: objects first; a failed delete aborts the request.   *)

FindUser(r) ==
  /\ pc[r] = "idle"
  /\ IF account
     THEN /\ Go(r, "userKeys")
          /\ Keep(r, [Blank EXCEPT !.op = "deleteUser", !.keys = OwnedItems])
          /\ Read
     ELSE Refuse(r)

UserKey(r) ==
  /\ pc[r] = "userKeys"
  /\ \E k \in loc[r].keys :
       \/ /\ DropOriginal(k)
          /\ Keep(r, [loc[r] EXCEPT !.keys = @ \ {k}])
          /\ UNCHANGED <<pc, faults>>
       \/ Fault /\ Go(r, "refused") /\ UNCHANGED <<store, loc>>
  /\ UNCHANGED announced

DropUser(r) ==
  /\ pc[r] = "userKeys" /\ loc[r].keys = {}
  /\ IF account
     THEN DropAccount /\ Go(r, "ok") /\ UNCHANGED loc /\ Quiet
     ELSE Refuse(r)

-----------------------------------------------------------------------------
\* A process dies, or clients disconnect: some requests stop where they are.
Crash ==
  /\ \E S \in SUBSET {r \in Requests : pc[r] \notin Ended \cup {"idle"}} :
       /\ S # {}
       /\ pc' = [r \in Requests |-> IF r \in S THEN "crashed" ELSE pc[r]]
  /\ Fault
  /\ UNCHANGED <<store, loc, announced>>

Pass == Tick /\ UNCHANGED <<pc, loc, announced, faults>>

Uploading(r) ==
  \/ Admit(r) \/ OpenAlbum(r) \/ MakeAlbum(r) \/ CountItems(r) \/ RejectFile(r)
  \/ StoreFile(r) \/ InsertRow(r) \/ LoseCommit(r) \/ Rollback(r)
  \/ UnwindList(r) \/ UnwindDelete(r)

Editing(r) == TouchAlbum(r) \/ Edit(r) \/ SetExpiry(r) \/ WriteExpiry(r)

Deleting(r) ==
  \/ FindMedia(r) \/ CheckAlbum(r) \/ DeleteRow(r) \/ CleanKey(r) \/ Cleaned(r)
  \/ CountLeft(r) \/ DeleteEmpty(r) \/ FindAlbum(r) \/ SelectRows(r)
  \/ DeleteAlbumRow(r)

Pruning(r) == ListExpired(r) \/ PruneNext(r) \/ PruneKey(r) \/ PruneAlbum(r) \/ PruneDone(r)

Closing(r) == FindUser(r) \/ UserKey(r) \/ DropUser(r)

Next ==
  \/ \E r \in Requests : Uploading(r) \/ Editing(r) \/ Deleting(r) \/ Pruning(r) \/ Closing(r)
  \/ Crash
  \/ Pass

Spec == Init /\ [][Next]_vars
-----------------------------------------------------------------------------
(* Properties.                                                             *)

TypeOK ==
  /\ StoreTypeOK
  /\ pc \in [Requests -> Points]
  /\ loc \in [Requests -> Locals]
  /\ announced \in [Albums -> Nat]
  /\ faults \in 0 .. MaxFaults

\* The handlers of kind o that did not refuse at the door.
Did(o) == {r \in Requests : loc[r].op = o}

\* A visible item can be served: its row has its object.  Only the two jobs
\* that delete objects before rows can break that (prune, for an album that
\* was expired; account deletion, for the account's items), and an upload
\* whose INSERT committed behind a broken connection.
RowsKeepOriginals ==
  \A m \in rows \ blobs :
    \/ home[m] \in lapsed
    \/ home[m] \in Owned /\ Did("deleteUser") # {}
    \/ \E r \in Did("upload") :
         /\ loc[r].med = m
         /\ pc[r] \in {"unwindList", "unwindDelete", "refused", "crashed"}

\* Without a fault, an object with no row is either in the hands of a request
\* still at work or belonged to an album that is gone: no interleaving of
\* uploads, deletions and prunes leaks storage of a living album.
NoOrphanInLiveAlbum ==
  faults = 0 =>
    \A m \in blobs \ rows :
      \/ \E r \in Did("upload") : loc[r].med = m /\ pc[r] \in {"insertRow", "rollback"}
      \/ \E r \in Requests : pc[r] = "cleanKeys" /\ m \in loc[r].keys
      \/ home[m] \in Albums \ albums

\* An upload that answers with an error has left no row, and no object unless
\* its album was taken away with the row: the client may simply try again.
RefusedUploadLeavesNothing ==
  faults = 0 =>
    \A r \in Did("upload") :
      pc[r] = "refused" =>
        /\ loc[r].med \notin rows
        /\ loc[r].med \in blobs => home[loc[r].med] \in Albums \ albums

\* What an upload answered 201 for stays, row and object, until somebody
\* deletes it, its album, or its account, the album expires - or, the two
\* surprises, a sibling is deleted or the album's own creator fails, and the
\* album is dropped because it looked empty a moment before.
AckedUploadSurvives ==
  \A r \in Did("upload") :
    pc[r] = "ok" =>
      LET m == loc[r].med IN
        \/ m \in rows \cap blobs
        \/ home[m] \in lapsed
        \/ home[m] \in Owned /\ Did("deleteUser") # {}
        \/ \E s \in Did("deleteAlbum") : loc[s].alb = home[m]
        \/ \E s \in Did("deleteMedia") : loc[s].alb = home[m]
        \/ \E s \in Did("upload") :
             loc[s].made /\ loc[s].alb = home[m] /\ pc[s] \in {"refused", "crashed"}

\* However many requests and prunes race for one album, its deletion is
\* announced at most once, and only when it is really gone.
AlbumDeletedOnce ==
  \A a \in Albums : announced[a] <= IF a \in albums THEN 0 ELSE 1

\* The store as its visitors see it.
Shelf == [a \in Albums |-> CASE a \in albums -> "open"
                              [] a \in minted \ albums -> "closed"
                              [] OTHER -> "none"]
Item == [m \in Media |-> CASE m \in rows -> "listed"
                            [] m \notin rows /\ home[m] # NoAlbum -> "removed"
                            [] OTHER -> "none"]

Visible == INSTANCE Catalogue WITH shelf <- Shelf, item <- Item, place <- home

\* Every step of every handler is one step of the catalogue, or none.
ImplementsCatalogue == Visible!Spec

-----------------------------------------------------------------------------
(* What the design document says and the code does not do.                 *)

\* plan/DESIGN.md, pruning job: objects go before rows, which "prevents
\* orphaned DB rows pointing to missing objects".  Read generously: once all
\* requests have ended, an album that once expired and can be opened again
\* shows no such row.
NoDanglingRows ==
  (\A r \in Requests : pc[r] \in Ended \cup {"idle"}) =>
    \A m \in rows \ blobs : home[m] \in lapsed => Expired(home[m])

\* plan/DESIGN.md, expiry: an admin sets or clears it (to rescue an upload);
\* so the date of a standing album changes only in the admin's own write.
AdminExpiryStands ==
  [][\A a \in albums \cap albums' :
       expires'[a] # expires[a] =>
         \E r \in Requests : pc[r] = "writeExpiry" /\ pc'[r] = "ok" /\ loc[r].alb = a]_vars

=============================================================================
