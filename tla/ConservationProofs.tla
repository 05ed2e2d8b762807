------------------------- MODULE ConservationProofs -------------------------
(***************************************************************************)
(* What MediaLifecycle says of rows and originals: none is lost and none   *)
(* is left behind, for every number of albums, media, requests and faults. *)
(***************************************************************************)
EXTENDS MediaLifecycleProofs

-----------------------------------------------------------------------------
(* The inductive invariant.                                                *)

\* The store by itself: ids in use were handed out, a row has its album, and
\* an album that is expired is known to have been.
StoreInv ==
  /\ albums \subseteq minted /\ rows \subseteq minted /\ blobs \subseteq minted
  /\ \A m \in Media : home[m] # NoAlbum => m \in minted /\ home[m] \in minted
  /\ \A m \in rows : home[m] \in albums
  /\ albums \cap OverdueBy(expires, now) \subseteq lapsed

Starting == {"openAlbum", "countItems", "putOriginal"}
Unwinding == {"unwindList", "unwindDelete"}

\* Which handler stands at q.
RightOp(q, l) ==
  /\ q = "idle" => l = Blank
  /\ q \in Starting \cup Unwinding \cup {"insertRow", "rollback"} => l.op = "upload"
  /\ q \in {"checkAlbum", "deleteRow", "countLeft", "deleteEmpty"} => l.op = "deleteMedia"
  /\ q \in {"selectRows", "deleteAlbumRow"} => l.op = "deleteAlbum"
  /\ q = "cleanKeys" => l.op \in {"deleteMedia", "deleteAlbum"}
  /\ q \in {"pruneNext", "pruneKeys"} => l.op = "prune"
  /\ q = "userKeys" => l.op = "deleteUser"
  /\ q = "writeExpiry" => l.op = "setExpiry"

\* A request deletes only objects that had a row: of its album, or of the
\* account; what prune works on was expired.
RightKeys(q, l) ==
  /\ l.op \in {"none", "upload", "edit", "setExpiry"} => l.keys = {}
  /\ l.op \in {"deleteMedia", "deleteAlbum", "prune"} =>
       \A k \in l.keys : l.alb \in Albums /\ home[k] = l.alb
  /\ l.op = "deleteMedia" => l.med \in Media /\ l.alb \in Albums /\ home[l.med] = l.alb
  /\ l.op = "deleteAlbum" => l.alb \in Albums
  /\ l.op = "prune" => l.todo \subseteq lapsed /\ l.alb \in lapsed \cup {NoAlbum}
  /\ q = "pruneKeys" => l.alb \in Albums
  /\ l.op = "deleteUser" => \A k \in l.keys : home[k] \in Owned
  /\ q = "cleanKeys" => l.keys \cap rows = {}

\* What an upload has and has not left behind.
RightUpload(q, l) ==
  /\ l.med \in Media => l.med \in minted
  /\ q \in Starting => l.med = NoMedia
  /\ q \notin {"openAlbum", "refused", "crashed"} => l.alb \in Albums
  /\ q = "insertRow" => l.med \in blobs \ rows /\ home[l.med] = NoAlbum
  /\ q = "rollback" => l.med \in Media /\ (faults = 0 => l.med \notin rows)
  /\ q \in {"touchAlbum", "ok"} => l.med \in Media /\ home[l.med] = l.alb
  /\ q \in Unwinding => l.made /\ (faults = 0 => l.med \notin rows \cup blobs)
  /\ q = "refused" /\ faults = 0 =>
       l.med \notin rows /\ (l.med \in blobs => home[l.med] \in Albums \ albums)

Sound(q, l) == RightOp(q, l) /\ RightKeys(q, l) /\ (l.op = "upload" => RightUpload(q, l))

\* No two uploads have the same media id.
OwnMedia ==
  \A r, s \in Did("upload") : loc[r].med \in Media /\ loc[r].med = loc[s].med => r = s

\* Why an acknowledged media may not be there any more.
Excused(m) ==
  \/ home[m] \in lapsed
  \/ home[m] \in Owned /\ Did("deleteUser") # {}
  \/ \E s \in Did("deleteAlbum") \cup Did("deleteMedia") : loc[s].alb = home[m]
  \/ \E s \in Did("upload") :
       loc[s].made /\ loc[s].alb = home[m] /\ pc[s] \in {"refused", "crashed"}

\* AckedUploadSurvives, from the INSERT on.
Survives ==
  \A r \in Did("upload") :
    pc[r] \in {"touchAlbum", "ok"} => loc[r].med \in rows \cap blobs \/ Excused(loc[r].med)

SoundInv == \A r \in Requests : Sound(pc[r], loc[r])

MediaInv ==
  /\ StoreInv /\ SoundInv /\ OwnMedia
  /\ RowsKeepOriginals /\ NoOrphanInLiveAlbum /\ Survives

-----------------------------------------------------------------------------
(* What a step of request r does, as far as the others rely on it.         *)

\* Where r goes, and what it takes along.
Path(r) ==
  /\ pc[r] \notin Ended
  /\ \A s \in Requests : s # r => pc'[s] = pc[s] /\ loc'[s] = loc[s]
  /\ loc[r].op # "none" => loc'[r].op = loc[r].op
  /\ loc[r].op \in {"deleteMedia", "deleteAlbum"} => loc'[r].alb = loc[r].alb
  /\ pc[r] \in Unwinding \cup {"rollback"} =>
       pc'[r] \in Unwinding \cup {"refused"} /\ loc'[r] = loc[r]
  /\ pc[r] = "insertRow" =>
       /\ loc'[r] = loc[r]
       /\ pc'[r] = "rollback" \/ (pc'[r] = "touchAlbum" /\ loc[r].med \in rows')
  /\ faults' = faults /\ pc[r] = "rollback" => loc[r].med \notin blobs'
  /\ faults' = faults /\ pc[r] = "cleanKeys" =>
       \A k \in loc[r].keys : k \notin blobs' \/ (pc'[r] = "cleanKeys" /\ k \in loc'[r].keys)
  /\ pc'[r] \in {"touchAlbum", "ok"} /\ loc'[r].op = "upload" =>
       loc'[r] = loc[r] /\ (pc[r] = "touchAlbum" \/ (pc[r] = "insertRow" /\ loc[r].med \in rows'))
  /\ loc'[r].op = "upload" /\ loc'[r].med \in Media =>
       (loc[r].op = "upload" /\ loc'[r].med = loc[r].med) \/ loc'[r].med \notin minted

\* Why r may take down rows of album a.
Blame(r, a) ==
  \/ a \in lapsed
  \/ a \in Owned /\ loc[r].op = "deleteUser"
  \/ loc[r].op \in {"deleteMedia", "deleteAlbum"} /\ loc[r].alb = a
  \/ /\ loc[r].op = "upload" /\ loc[r].made /\ loc[r].alb = a
     /\ pc'[r] = "refused" /\ loc'[r] = loc[r]

\* What r does to the store.
Writes(r) ==
  /\ \A m \in Media : home'[m] = home[m] \/ (home[m] = NoAlbum /\ pc[r] = "insertRow" /\ m = loc[r].med)
  /\ minted \subseteq minted' /\ lapsed \subseteq lapsed' /\ faults <= faults'
  /\ albums' \cap minted \subseteq albums
  /\ \A m \in rows' \ rows : pc[r] = "insertRow" /\ m = loc[r].med
  /\ \A m \in blobs' \ blobs :
       m \notin minted /\ pc'[r] = "insertRow" /\ loc'[r].op = "upload" /\ loc'[r].med = m
  /\ \A m \in blobs \ blobs' :
       \/ pc[r] = "rollback" /\ m = loc[r].med
       \/ pc[r] \in {"cleanKeys", "pruneKeys", "userKeys"} /\ m \in loc[r].keys
  /\ \A m \in rows \ rows' :
       /\ home[m] \notin albums' \/ (pc'[r] = "cleanKeys" /\ m \in loc'[r].keys)
       /\ Blame(r, home[m])

Step(r) == TypeInv /\ TypeInv' /\ MediaInv /\ Path(r) /\ Writes(r)

\* What the lemmas below start from.
LEMMA StepFacts ==
  ASSUME NEW r \in Requests, Step(r)
  PROVE  /\ rows \subseteq Media /\ blobs \subseteq Media /\ albums \subseteq Albums
         /\ home \in [Media -> Albums \cup {NoAlbum}]
         /\ NoAlbum \notin Albums /\ NoMedia \notin Media /\ Owned \subseteq Albums
         /\ rows' \subseteq Media /\ blobs' \subseteq Media
         /\ faults \in Nat /\ faults' \in Nat /\ \A m \in rows : home[m] \in albums
         /\ \A s \in Requests : Sound(pc[s], loc[s]) /\ loc[s] \in Locals
         /\ \A m \in rows : home'[m] = home[m] /\ m \in minted
         /\ \A m \in Media : home[m] \in Albums => home'[m] = home[m] /\ home[m] \in minted
BY StoreAssumption, LifecycleAssumption
   DEF Step, TypeInv, TypeOK, StoreTypeOK, MediaInv, StoreInv, SoundInv, Writes

\* What the other requests carry stays right.
LEMMA OthersSound ==
  ASSUME NEW r \in Requests, Step(r), NEW s \in Requests, s # r
  PROVE  Sound(pc[s], loc[s])'
<1>0. PICK q, l : q = pc[s] /\ l = loc[s]
  OBVIOUS
<1>1. q = pc[s] /\ l = loc[s] /\ q = pc'[s] /\ l = loc'[s]
  BY <1>0 DEF Step, Path
<1>2. Sound(q, l) /\ l \in Locals
  BY <1>1, StepFacts
<1>3. l.keys \subseteq Media /\ l.med \in Media \cup {NoMedia} /\ l.alb \in Albums \cup {NoAlbum}
  BY <1>2 DEF Locals
<1>4. RightOp(q, l)'
  BY <1>1, <1>2 DEF Sound, RightOp, Blank
<1>5. \A k \in l.keys : home[k] \in Albums /\ home'[k] = home[k]
  <2>1. \A k \in l.keys : home[k] \in Albums
    BY <1>2, StepFacts DEF Sound, RightKeys, Locals, Ops
  <2> QED BY <1>3, <2>1, StepFacts
<1>6. pc[r] = "insertRow" => loc[r].op = "upload" /\ loc[r].med \in Media /\ home[loc[r].med] = NoAlbum
  BY StepFacts DEF Sound, RightOp, RightUpload, Step, TypeInv, ChosenMedia
<1>7. RightKeys(q, l)'
  <2>1. \A k \in l.keys : k \in rows' => k \in rows
    BY <1>5, <1>6, StepFacts DEF Step, Writes
  <2>2. l.op = "deleteMedia" => home'[l.med] = home[l.med]
    BY <1>2, StepFacts DEF Sound, RightKeys
  <2>3. lapsed \subseteq lapsed'
    BY DEF Step, Writes
  <2> QED BY <1>1, <1>2, <1>5, <2>1, <2>2, <2>3 DEF Sound, RightKeys
<1>8. ASSUME l.op = "upload" PROVE RightUpload(q, l)'
  <2>1. RightUpload(q, l)
    BY <1>2, <1>8 DEF Sound
  <2>2. loc[r].op = "upload" /\ l.med \in Media => loc[r].med # l.med
    BY <1>1, <1>8 DEF Step, MediaInv, OwnMedia, Did
  <2>3. l.med \in Media => l.med \in minted /\ l.med \in minted'
    BY <2>1 DEF RightUpload, Step, Writes
  <2>4. l.med \in rows' => l.med \in rows
    BY <1>6, <2>2 DEF Step, Writes
  <2>5. l.med \in blobs' => l.med \in blobs
    <3>1. SUFFICES ASSUME l.med \in blobs' \ blobs PROVE FALSE
      OBVIOUS
    <3>2. l.med \notin minted /\ loc'[r].med = l.med /\ pc'[r] = "insertRow" /\ loc'[r].op = "upload"
      BY <3>1 DEF Step, Writes
    <3> QED BY <1>3, <2>3, <3>1, <3>2, StepFacts
  <2>6. l.med \in Media => home'[l.med] = home[l.med]
    BY <1>6, <2>2 DEF Step, Writes
  <2>7. ASSUME q = "insertRow" PROVE l.med \in blobs'
    <3>1. l.med \in blobs /\ home[l.med] = NoAlbum /\ l.med \in Media
      BY <2>1, <2>7, StepFacts DEF RightUpload
    <3>2. pc[r] = "rollback" => loc[r].op = "upload"
      BY StepFacts DEF Sound, RightOp
    <3>3. pc[r] \in {"cleanKeys", "pruneKeys", "userKeys"} => \A k \in loc[r].keys : home[k] \in Albums
      BY StepFacts DEF Sound, RightOp, RightKeys
    <3> QED BY <2>2, <3>1, <3>2, <3>3, StepFacts DEF Step, Writes
  <2>8. faults' = 0 => faults = 0
    BY StepFacts DEF Step, Writes
  <2>9. l.med \in Media /\ home[l.med] \in Albums \ albums => home'[l.med] \in Albums \ albums'
    BY <2>6, StepFacts DEF Step, Writes
  <2>10. l.med \in blobs => l.med \in Media
    BY StepFacts
  <2>11. RightUpload(q, l)'
    BY <2>1, <2>3, <2>4, <2>5, <2>6, <2>7, <2>8, <2>9, <2>10 DEF RightUpload
  <2> QED BY <2>11
<1>9. Sound(q, l)'
  BY <1>4, <1>7, <1>8 DEF Sound
<1> QED BY <1>1, <1>9

LEMMA OwnMediaKept == ASSUME NEW r \in Requests, Step(r) PROVE OwnMedia'
<1> SUFFICES ASSUME NEW s \in Requests, NEW t \in Requests, loc'[s].op = "upload", loc'[t].op = "upload",
                    loc'[s].med \in Media, loc'[s].med = loc'[t].med, s # t
             PROVE  FALSE
  BY DEF OwnMedia, Did
<1>1. ASSUME NEW u \in Requests, loc'[u].op = "upload", loc'[u].med \in Media,
             NEW v \in Requests, loc'[v].op = "upload", loc'[v].med = loc'[u].med,
             u = r, v # r
      PROVE  FALSE
  <2>1. loc[v] = loc'[v]
    BY <1>1 DEF Step, Path
  <2>2. loc[v].med \in minted
    BY <1>1, <2>1, StepFacts DEF Sound, RightUpload
  <2>3. loc[u].op = "upload" /\ loc[u].med = loc[v].med
    BY <1>1, <2>1, <2>2 DEF Step, Path
  <2> QED BY <1>1, <2>1, <2>3 DEF Step, MediaInv, OwnMedia, Did
<1>2. CASE s # r /\ t # r
  <2>1. loc[s] = loc'[s] /\ loc[t] = loc'[t]
    BY <1>2 DEF Step, Path
  <2> QED BY <2>1 DEF Step, MediaInv, OwnMedia, Did
<1> QED BY <1>1, <1>2

\* The mover's own object is not taken away from it.
LEMMA InsertKeepsObject ==
  ASSUME NEW r \in Requests, Step(r), pc[r] = "insertRow"
  PROVE  loc[r].op = "upload" /\ loc[r].med \in blobs' \ rows /\ loc[r].med \in Media
<1>1. loc[r].op = "upload" /\ loc[r].med \in blobs \ rows
  BY StepFacts DEF Sound, RightOp, RightUpload
<1> QED BY <1>1, StepFacts DEF Step, Writes

LEMMA RowsKept == ASSUME NEW r \in Requests, Step(r) PROVE RowsKeepOriginals'
<1> DEFINE Reason(m) ==
      \/ home[m] \in lapsed
      \/ home[m] \in Owned /\ \E s \in Requests : loc[s].op = "deleteUser"
      \/ \E s \in Requests : /\ loc[s].op = "upload" /\ loc[s].med = m
                             /\ pc[s] \in {"unwindList", "unwindDelete", "refused", "crashed"}
<1>1. SUFFICES ASSUME NEW m \in rows' \ blobs' PROVE Reason(m)'
  BY DEF RowsKeepOriginals, Did
<1>2. m \in rows /\ home'[m] = home[m]
  BY <1>1, InsertKeepsObject, StepFacts DEF Step, Writes
<1>3. CASE m \in blobs
  <2>1. \/ pc[r] = "rollback" /\ m = loc[r].med
        \/ pc[r] \in {"cleanKeys", "pruneKeys", "userKeys"} /\ m \in loc[r].keys
    BY <1>1, <1>3 DEF Step, Writes
  <2>2. Sound(pc[r], loc[r])
    BY StepFacts
  <2>3. CASE pc[r] = "rollback" /\ m = loc[r].med
    <3>1. pc'[r] \in {"unwindList", "unwindDelete", "refused"} /\ loc'[r] = loc[r]
      BY <2>3 DEF Step, Path, Unwinding
    <3>2. loc[r].op = "upload"
      BY <2>2, <2>3 DEF Sound, RightOp
    <3> QED BY <2>3, <3>1, <3>2
  <2>4. CASE pc[r] = "cleanKeys" /\ m \in loc[r].keys
    BY <1>2, <2>2, <2>4 DEF Sound, RightKeys
  <2>5. CASE pc[r] = "pruneKeys" /\ m \in loc[r].keys
    <3>1. home[m] \in lapsed
      BY <2>2, <2>5, StepFacts DEF Sound, RightOp, RightKeys
    <3> QED BY <1>2, <3>1 DEF Step, Writes
  <2>6. CASE pc[r] = "userKeys" /\ m \in loc[r].keys
    <3>1. loc[r].op = "deleteUser" /\ home[m] \in Owned
      BY <2>2, <2>6 DEF Sound, RightOp, RightKeys
    <3>2. loc'[r].op = "deleteUser"
      BY <3>1 DEF Step, Path
    <3> QED BY <1>2, <3>1, <3>2
  <2> QED BY <2>1, <2>3, <2>4, <2>5, <2>6
<1>4. CASE m \notin blobs
  <2>1. Reason(m)
    BY <1>2, <1>4 DEF Step, MediaInv, RowsKeepOriginals, Did
  <2>2. CASE home[m] \in lapsed
    BY <1>2, <2>2 DEF Step, Writes
  <2>3. CASE home[m] \in Owned /\ \E s \in Requests : loc[s].op = "deleteUser"
    <3>1. PICK s \in Requests : loc[s].op = "deleteUser"
      BY <2>3
    <3>2. loc'[s].op = "deleteUser"
      BY <3>1 DEF Step, Path
    <3> QED BY <1>2, <2>3, <3>2
  <2>4. ASSUME NEW s \in Requests, loc[s].op = "upload", loc[s].med = m,
               pc[s] \in {"unwindList", "unwindDelete", "refused", "crashed"}
        PROVE  Reason(m)'
    <3>1. loc'[s] = loc[s] /\ pc'[s] \in {"unwindList", "unwindDelete", "refused", "crashed"}
      BY <2>4 DEF Step, Path, Unwinding, Ended
    <3> QED BY <2>4, <3>1
  <2> QED BY <2>1, <2>2, <2>3, <2>4
<1> QED BY <1>3, <1>4

LEMMA NoOrphanKept == ASSUME NEW r \in Requests, Step(r) PROVE NoOrphanInLiveAlbum'
<1> DEFINE Reason(m) ==
      \/ \E s \in Requests :
           loc[s].op = "upload" /\ loc[s].med = m /\ pc[s] \in {"insertRow", "rollback"}
      \/ \E s \in Requests : pc[s] = "cleanKeys" /\ m \in loc[s].keys
      \/ home[m] \in Albums \ albums
<1>1. SUFFICES ASSUME faults' = 0, NEW m \in blobs' \ rows' PROVE Reason(m)'
  BY DEF NoOrphanInLiveAlbum, Did
<1>2. faults = 0 /\ faults' = faults /\ m \in Media
  BY <1>1, StepFacts DEF Step, Writes
<1>3. CASE m \notin blobs
  BY <1>1, <1>3 DEF Step, Writes
<1>4. CASE m \in rows
  <2>1. home[m] \notin albums' \/ (pc'[r] = "cleanKeys" /\ m \in loc'[r].keys)
    BY <1>1, <1>4 DEF Step, Writes
  <2>2. home'[m] = home[m] /\ home[m] \in Albums
    BY <1>4, StepFacts
  <2> QED BY <2>1, <2>2
<1>5. CASE m \in blobs \ rows
  <2>1. Reason(m)
    BY <1>2, <1>5 DEF Step, MediaInv, NoOrphanInLiveAlbum, Did
  <2>2. ASSUME NEW s \in Requests, loc[s].op = "upload", loc[s].med = m,
               pc[s] \in {"insertRow", "rollback"}
        PROVE  Reason(m)'
    <3>1. CASE s # r
      <4>1. loc'[s] = loc[s] /\ pc'[s] = pc[s]
        BY <3>1 DEF Step, Path
      <4> QED BY <2>2, <4>1
    <3>2. CASE s = r
      <4>1. pc[r] = "insertRow"
        BY <1>1, <1>2, <2>2, <3>2 DEF Step, Path
      <4>2. loc'[r] = loc[r] /\ pc'[r] = "rollback"
        BY <1>1, <2>2, <3>2, <4>1 DEF Step, Path
      <4> QED BY <2>2, <3>2, <4>2
    <3> QED BY <3>1, <3>2
  <2>3. ASSUME NEW s \in Requests, pc[s] = "cleanKeys", m \in loc[s].keys
        PROVE  Reason(m)'
    <3>1. pc'[s] = "cleanKeys" /\ m \in loc'[s].keys
      BY <1>1, <1>2, <2>3 DEF Step, Path
    <3> QED BY <3>1
  <2>4. ASSUME home[m] \in Albums \ albums PROVE Reason(m)'
    <3>1. home'[m] = home[m] /\ home[m] \in minted
      BY <1>2, <2>4, StepFacts
    <3> QED BY <2>4, <3>1 DEF Step, Writes
  <2> QED BY <2>1, <2>2, <2>3, <2>4
<1> QED BY <1>3, <1>4, <1>5

\* An excuse stands.
LEMMA ExcuseKept ==
  ASSUME NEW r \in Requests, Step(r), NEW m \in Media, home[m] \in Albums, Excused(m)
  PROVE  Excused(m)'
<1>1. home'[m] = home[m]
  BY StepFacts
<1>2. CASE home[m] \in lapsed
  BY <1>1, <1>2 DEF Step, Writes, Excused
<1>3. CASE home[m] \in Owned /\ Did("deleteUser") # {}
  <2>1. PICK s \in Requests : loc[s].op = "deleteUser"
    BY <1>3 DEF Did
  <2>2. loc'[s].op = "deleteUser"
    BY <2>1 DEF Step, Path
  <2> QED BY <1>1, <1>3, <2>2 DEF Excused, Did
<1>4. ASSUME NEW s \in Did("deleteAlbum") \cup Did("deleteMedia"), loc[s].alb = home[m]
      PROVE  Excused(m)'
  <2>1. s \in Requests /\ loc[s].op \in {"deleteMedia", "deleteAlbum"}
    BY <1>4 DEF Did
  <2>2. loc'[s].op = loc[s].op /\ loc'[s].alb = loc[s].alb
    BY <2>1 DEF Step, Path
  <2> QED BY <1>1, <1>4, <2>1, <2>2 DEF Excused, Did
<1>5. ASSUME NEW s \in Did("upload"), loc[s].made, loc[s].alb = home[m],
             pc[s] \in {"refused", "crashed"}
      PROVE  Excused(m)'
  <2>1. s \in Requests /\ loc'[s] = loc[s] /\ pc'[s] = pc[s]
    BY <1>5 DEF Did, Step, Path, Ended
  <2> QED BY <1>1, <1>5, <2>1 DEF Excused, Did
<1> QED BY <1>2, <1>3, <1>4, <1>5 DEF Excused

LEMMA BlameExcuses ==
  ASSUME NEW r \in Requests, Step(r), NEW m \in Media, home'[m] = home[m], Blame(r, home[m])
  PROVE  Excused(m)'
<1>1. CASE home[m] \in lapsed
  BY <1>1 DEF Step, Writes, Excused
<1>2. CASE home[m] \in Owned /\ loc[r].op = "deleteUser"
  <2>1. loc'[r].op = "deleteUser"
    BY <1>2 DEF Step, Path
  <2> QED BY <1>2, <2>1 DEF Excused, Did
<1>3. CASE loc[r].op \in {"deleteMedia", "deleteAlbum"} /\ loc[r].alb = home[m]
  <2>1. loc'[r].op = loc[r].op /\ loc'[r].alb = loc[r].alb
    BY <1>3 DEF Step, Path
  <2> QED BY <1>3, <2>1 DEF Excused, Did
<1>4. CASE /\ loc[r].op = "upload" /\ loc[r].made /\ loc[r].alb = home[m]
           /\ pc'[r] = "refused" /\ loc'[r] = loc[r]
  BY <1>4 DEF Excused, Did
<1> QED BY <1>1, <1>2, <1>3, <1>4 DEF Blame

LEMMA SurvivesKept == ASSUME NEW r \in Requests, Step(r) PROVE Survives'
<1> SUFFICES ASSUME NEW s \in Requests, loc'[s].op = "upload", pc'[s] \in {"touchAlbum", "ok"}
             PROVE  loc'[s].med \in rows' \cap blobs' \/ Excused(loc[s].med)'
  BY DEF Survives, Did
<1>1. loc'[s] = loc[s]
  BY DEF Step, Path
<1>2. PICK m : m = loc[s].med /\ m = loc'[s].med
  BY <1>1
<1>3. CASE pc[s] \notin {"touchAlbum", "ok"}
  <2>1. s = r /\ pc[r] = "insertRow" /\ m \in rows'
    BY <1>2, <1>3 DEF Step, Path
  <2> QED BY <1>2, <2>1, InsertKeepsObject
<1>4. CASE pc[s] \in {"touchAlbum", "ok"}
  <2>1. m \in Media /\ home[m] \in Albums
    BY <1>1, <1>2, <1>4, StepFacts DEF Sound, RightUpload
  <2>2. m \in rows \cap blobs \/ Excused(m)
    BY <1>1, <1>2, <1>4 DEF Step, MediaInv, Survives, Did
  <2>3. CASE Excused(m)
    <3>1. Excused(m)'
      BY <2>1, <2>3, ExcuseKept
    <3> QED BY <1>2, <3>1
  <2>4. CASE m \in rows \cap blobs /\ m \notin rows'
    <3>1. Blame(r, home[m]) /\ home'[m] = home[m]
      BY <2>4, StepFacts DEF Step, Writes
    <3>2. Excused(m)'
      BY <2>1, <3>1, BlameExcuses
    <3> QED BY <1>2, <3>2
  <2>5. CASE m \in rows \cap blobs /\ m \in rows' /\ m \notin blobs'
    <3>1. \/ pc[r] = "rollback" /\ m = loc[r].med
          \/ pc[r] \in {"cleanKeys", "pruneKeys", "userKeys"} /\ m \in loc[r].keys
      BY <2>5 DEF Step, Writes
    <3>2. Sound(pc[r], loc[r])
      BY StepFacts
    <3>3. ~(pc[r] = "rollback" /\ m = loc[r].med)
      <4>1. SUFFICES ASSUME pc[r] = "rollback", m = loc[r].med PROVE FALSE
        OBVIOUS
      <4>2. loc[r].op = "upload" /\ r # s
        BY <1>4, <3>2, <4>1 DEF Sound, RightOp
      <4> QED BY <1>1, <1>2, <2>1, <4>1, <4>2 DEF Step, MediaInv, OwnMedia, Did
    <3>4. CASE pc[r] = "cleanKeys" /\ m \in loc[r].keys
      BY <2>5, <3>2, <3>4 DEF Sound, RightKeys
    <3>5. CASE pc[r] = "pruneKeys" /\ m \in loc[r].keys
      <4>1. Blame(r, home[m])
        BY <2>1, <3>2, <3>5, StepFacts DEF Sound, RightOp, RightKeys, Blame
      <4>2. Excused(m)'
        BY <2>1, <4>1, BlameExcuses, StepFacts
      <4> QED BY <1>2, <4>2
    <3>6. CASE pc[r] = "userKeys" /\ m \in loc[r].keys
      <4>1. Blame(r, home[m])
        BY <3>2, <3>6 DEF Sound, RightOp, RightKeys, Blame
      <4>2. Excused(m)'
        BY <2>1, <4>1, BlameExcuses, StepFacts
      <4> QED BY <1>2, <4>2
    <3> QED BY <3>1, <3>3, <3>4, <3>5, <3>6
  <2> QED BY <1>2, <2>2, <2>3, <2>4, <2>5
<1> QED BY <1>3, <1>4

\* So all that is left to show of a step is what it does and where it leads.
LEMMA StepKeeps ==
  ASSUME NEW r \in Requests, Step(r), StoreInv', Sound(pc[r], loc[r])'
  PROVE  MediaInv'
<1>1. SoundInv'
  BY OthersSound DEF SoundInv
<1> QED BY <1>1, OwnMediaKept, RowsKept, NoOrphanKept, SurvivesKept DEF MediaInv

-----------------------------------------------------------------------------
(* The statements of the store.                                            *)

LEMMA StatementsStoreInv ==
  ASSUME StoreTypeOK, StoreInv
  PROVE  /\ UNCHANGED store => StoreInv'
         /\ \A a \in Albums \ minted : CreateAlbum(a) => StoreInv'
         /\ \A a, e : a \in albums /\ e \in Expiry /\ WriteAlbum(a, e) => StoreInv'
         /\ \A m \in Media \cap minted, a \in albums : InsertMedia(m, a) => StoreInv'
         /\ \A m : DropMedia(m) => StoreInv'
         /\ \A a : DropAlbum(a) => StoreInv'
         /\ DropAccount => StoreInv'
         /\ \A m \in Media : PutOriginal(m) => StoreInv'
         /\ \A m : DropOriginal(m) => StoreInv'
         /\ Tick => StoreInv'
<1> USE StoreAssumption DEF StoreTypeOK, StoreInv, OverdueBy
<1>1. UNCHANGED store => StoreInv'
  BY DEF store
<1>2. ASSUME NEW a \in Albums \ minted, CreateAlbum(a) PROVE StoreInv'
  <2>1. /\ albums' = albums \cup {a} /\ minted' = minted \cup {a}
        /\ expires' = [expires EXCEPT ![a] = IF a \in Owned THEN Never ELSE now + Ttl]
        /\ UNCHANGED <<rows, home, blobs, account, now, lapsed>>
    BY <1>2 DEF CreateAlbum
  <2>2. ~(expires'[a] # Never /\ expires'[a] <= now)
    BY <2>1
  <2>3. \A b \in albums : b # a /\ expires'[b] = expires[b]
    BY <2>1
  <2>4. albums' \cap OverdueBy(expires', now') \subseteq lapsed'
    BY <2>1, <2>2, <2>3
  <2> QED BY <2>1, <2>4
<1>3. ASSUME NEW a \in albums, NEW e \in Expiry, WriteAlbum(a, e) PROVE StoreInv'
  BY <1>3 DEF WriteAlbum
<1>4. ASSUME NEW m \in Media \cap minted, NEW a \in albums, InsertMedia(m, a) PROVE StoreInv'
  BY <1>4 DEF InsertMedia
<1>5. ASSUME NEW m, DropMedia(m) PROVE StoreInv'
  BY <1>5 DEF DropMedia
<1>6. ASSUME NEW a, DropAlbum(a) PROVE StoreInv'
  BY <1>6 DEF DropAlbum, Items
<1>7. ASSUME DropAccount PROVE StoreInv'
  BY <1>7 DEF DropAccount, OwnedItems
<1>8. ASSUME NEW m \in Media, PutOriginal(m) PROVE StoreInv'
  BY <1>8 DEF PutOriginal
<1>9. ASSUME NEW m, DropOriginal(m) PROVE StoreInv'
  BY <1>9 DEF DropOriginal
<1>10. ASSUME Tick PROVE StoreInv'
  BY <1>10 DEF Tick
<1> QED BY <1>1, <1>2, <1>3, <1>4, <1>5, <1>6, <1>7, <1>8, <1>9, <1>10

LEMMA StatementsWrites ==
  ASSUME TypeInv, MediaInv, NEW r \in Requests, faults <= faults'
  PROVE  /\ UNCHANGED store => Writes(r)
         /\ \A a \in Albums \ minted : CreateAlbum(a) => Writes(r)
         /\ \A a, e : WriteAlbum(a, e) => Writes(r)
         /\ \A a : pc[r] = "insertRow" /\ InsertMedia(loc[r].med, a) => Writes(r)
         /\ \A m : DropMedia(m) /\ Blame(r, home[m]) /\ pc'[r] = "cleanKeys" /\ m \in loc'[r].keys
                     => Writes(r)
         /\ \A a : DropAlbum(a) /\ Blame(r, a) => Writes(r)
         /\ DropAccount /\ loc[r].op = "deleteUser" => Writes(r)
         /\ \A m \in Media \ minted :
              PutOriginal(m) /\ pc'[r] = "insertRow" /\ loc'[r].op = "upload" /\ loc'[r].med = m
                => Writes(r)
         /\ DropOriginal(loc[r].med) /\ pc[r] = "rollback" => Writes(r)
         /\ \A k \in loc[r].keys :
              DropOriginal(k) /\ pc[r] \in {"cleanKeys", "pruneKeys", "userKeys"} => Writes(r)
<1> USE StoreAssumption DEF TypeInv, TypeOK, StoreTypeOK, MediaInv, StoreInv, Writes
<1>1. UNCHANGED store => Writes(r)
  BY DEF store
<1>2. ASSUME NEW a \in Albums \ minted, CreateAlbum(a) PROVE Writes(r)
  BY <1>2 DEF CreateAlbum
<1>3. ASSUME NEW a, NEW e, WriteAlbum(a, e) PROVE Writes(r)
  BY <1>3 DEF WriteAlbum
<1>4. ASSUME NEW a, pc[r] = "insertRow", InsertMedia(loc[r].med, a) PROVE Writes(r)
  <2>1. home[loc[r].med] = NoAlbum
    BY <1>4 DEF SoundInv, Sound, RightOp, RightUpload
  <2> QED BY <1>4, <2>1 DEF InsertMedia
<1>5. ASSUME NEW m, DropMedia(m), Blame(r, home[m]), pc'[r] = "cleanKeys", m \in loc'[r].keys
      PROVE  Writes(r)
  BY <1>5 DEF DropMedia
<1>6. ASSUME NEW a, DropAlbum(a), Blame(r, a) PROVE Writes(r)
  BY <1>6 DEF DropAlbum, Items
<1>7. ASSUME DropAccount, loc[r].op = "deleteUser" PROVE Writes(r)
  BY <1>7 DEF DropAccount, OwnedItems, Blame
<1>8. ASSUME NEW m \in Media \ minted, PutOriginal(m), pc'[r] = "insertRow",
             loc'[r].op = "upload", loc'[r].med = m
      PROVE  Writes(r)
  BY <1>8 DEF PutOriginal
<1>9. ASSUME DropOriginal(loc[r].med), pc[r] = "rollback" PROVE Writes(r)
  BY <1>9 DEF DropOriginal
<1>10. ASSUME NEW k \in loc[r].keys, DropOriginal(k), pc[r] \in {"cleanKeys", "pruneKeys", "userKeys"}
       PROVE  Writes(r)
  BY <1>10 DEF DropOriginal
<1> HIDE DEF TypeInv, TypeOK, StoreTypeOK, MediaInv, StoreInv, Writes
<1> QED BY <1>1, <1>2, <1>3, <1>4, <1>5, <1>6, <1>7, <1>8, <1>9, <1>10

-----------------------------------------------------------------------------
(* Steps that only read.                                                   *)

LEMMA Moved ==
  ASSUME TypeInv, NEW r \in Requests, NEW q, NEW l, Go(r, q), Keep(r, l) \/ (l = loc[r] /\ UNCHANGED loc)
  PROVE  /\ pc'[r] = q /\ loc'[r] = l
         /\ \A s \in Requests : s # r => pc'[s] = pc[s] /\ loc'[s] = loc[s]
BY DEF TypeInv, TypeOK, Go, Keep

\* A request arrives.
LEMMA ArrivalKeeps ==
  ASSUME TypeInv, TypeInv', MediaInv, NEW r \in Requests, pc[r] = "idle", NEW q, NEW l,
         Go(r, q), Keep(r, l) \/ (l = loc[r] /\ UNCHANGED loc), Read,
         l.op = "upload" => q \notin {"touchAlbum", "ok"} /\ l.med = NoMedia,
         Sound(q, l)
  PROVE  MediaInv'
<1>1. /\ pc'[r] = q /\ loc'[r] = l
      /\ \A s \in Requests : s # r => pc'[s] = pc[s] /\ loc'[s] = loc[s]
  BY Moved
<1>2. loc[r] = Blank
  BY DEF MediaInv, SoundInv, Sound, RightOp
<1>3. Path(r)
  BY <1>1, <1>2, LifecycleAssumption DEF Path, Ended, Unwinding, Blank
<1>4. faults' = faults /\ faults <= faults'
  BY LifecycleAssumption DEF Read, Quiet, TypeInv, TypeOK
<1>5. Writes(r) /\ StoreInv'
  BY <1>4, StatementsWrites, StatementsStoreInv DEF Read, MediaInv, TypeInv, TypeOK
<1>6. Sound(q, l)'
  BY <1>4 DEF Sound, RightOp, RightKeys, RightUpload, Read, store
<1> QED BY <1>1, <1>3, <1>5, <1>6, StepKeeps DEF Step

\* A request goes on.
LEMMA OnwardKeeps ==
  ASSUME TypeInv, TypeInv', MediaInv, NEW r \in Requests, NEW q, NEW l,
         pc[r] \notin Ended \cup {"idle", "insertRow", "rollback", "cleanKeys"},
         Go(r, q), Keep(r, l) \/ (l = loc[r] /\ UNCHANGED loc), UNCHANGED store, faults <= faults',
         l.op = loc[r].op, l.op \in {"upload", "deleteMedia", "deleteAlbum"} => l.alb = loc[r].alb,
         l.med = loc[r].med,
         pc[r] \in Unwinding => q \in Unwinding \cup {"refused"} /\ l = loc[r],
         q \in {"touchAlbum", "ok"} /\ l.op = "upload" => pc[r] = "touchAlbum" /\ l = loc[r],
         Sound(q, l)'
  PROVE  MediaInv'
<1>1. /\ pc'[r] = q /\ loc'[r] = l
      /\ \A s \in Requests : s # r => pc'[s] = pc[s] /\ loc'[s] = loc[s]
  BY Moved
<1>2. Path(r)
  BY <1>1 DEF Path, Ended
<1>3. Writes(r) /\ StoreInv'
  BY StatementsWrites, StatementsStoreInv DEF MediaInv, TypeInv, TypeOK
<1> QED BY <1>1, <1>2, <1>3, StepKeeps DEF Step

\* Nothing has happened to the store that could make it wrong.
LEMMA SoundStays ==
  ASSUME NEW q, NEW l, Sound(q, l), UNCHANGED <<store, faults>>
  PROVE  Sound(q, l)'
BY DEF Sound, RightOp, RightKeys, RightUpload, store

\* A refusal leaves nothing: whoever is refused there has stored nothing.
LEMMA RefuseKeeps ==
  ASSUME TypeInv, TypeInv', MediaInv, NEW r \in Requests, Refuse(r),
         pc[r] \in {"idle", "openAlbum", "checkAlbum", "deleteRow", "deleteAlbumRow", "userKeys"}
  PROVE  MediaInv'
<1>1. PICK l : l = loc[r]
  OBVIOUS
<1>2. Sound(pc[r], l)
  BY <1>1 DEF MediaInv, SoundInv
<1>3. Go(r, "refused") /\ UNCHANGED loc /\ Read
  BY DEF Refuse
<1>4. Sound("refused", l)
  <2>1. l.op = "upload" => pc[r] = "openAlbum"
    BY <1>2 DEF Sound, RightOp, Blank
  <2>2. pc[r] = "openAlbum" => l.med = NoMedia
    BY <1>2 DEF Sound, RightOp, RightUpload, Starting
  <2>3. NoMedia \notin rows \cup blobs
    BY LifecycleAssumption DEF TypeInv, TypeOK, StoreTypeOK
  <2> QED BY <1>2, <2>1, <2>2, <2>3 DEF Sound, RightOp, RightKeys, RightUpload, Starting, Unwinding
<1>5. CASE pc[r] = "idle"
  <2>1. l.op # "upload"
    BY <1>2, <1>5 DEF Sound, RightOp, Blank
  <2> QED BY <1>1, <1>3, <1>4, <1>5, <2>1, ArrivalKeeps
<1>6. CASE pc[r] # "idle"
  <2>1. Sound("refused", l)'
    BY <1>3, <1>4, SoundStays DEF Read, Quiet
  <2>2. faults <= faults'
    BY LifecycleAssumption, <1>3 DEF Read, Quiet, TypeInv, TypeOK
  <2> QED BY <1>1, <1>3, <1>6, <2>1, <2>2, OnwardKeeps DEF Read, Ended, Unwinding
<1> QED BY <1>5, <1>6

-----------------------------------------------------------------------------
(* The steps of an upload.                                                 *)

LEMMA RequestFacts ==
  ASSUME TypeInv, MediaInv, NEW r \in Requests
  PROVE  /\ Sound(pc[r], loc[r]) /\ loc[r] \in Locals
         /\ faults \in Nat /\ NoMedia \notin rows \cup blobs /\ NoMedia \notin Media
         /\ rows \subseteq Media /\ blobs \subseteq Media /\ albums \subseteq Albums
BY LifecycleAssumption DEF TypeInv, TypeOK, StoreTypeOK, MediaInv, SoundInv

LEMMA AdmitKeeps ==
  ASSUME TypeInv, TypeInv', MediaInv, NEW r \in Requests, Admit(r) PROVE MediaInv'
<1>1. CASE QuotaLeft
  <2>0. PICK a \in Albums \cup {NoAlbum} :
          /\ Go(r, "openAlbum") /\ Read
          /\ Keep(r, [Blank EXCEPT !.op = "upload", !.alb = a, !.made = (a = NoAlbum)])
    BY <1>1 DEF Admit
  <2>1. PICK l : /\ l = [Blank EXCEPT !.op = "upload", !.alb = a, !.made = (a = NoAlbum)]
                 /\ Go(r, "openAlbum") /\ Keep(r, l) /\ Read
    BY <2>0
  <2>2. l.op = "upload" /\ l.med = NoMedia /\ l.keys = {}
    BY <2>1 DEF Blank
  <2>3. Sound("openAlbum", l)
    BY <2>2, LifecycleAssumption
       DEF Sound, RightOp, RightKeys, RightUpload, Starting, Unwinding
  <2> QED BY <2>1, <2>2, <2>3, ArrivalKeeps DEF Admit
<1> QED BY <1>1, RefuseKeeps DEF Admit

LEMMA OpenAlbumKeeps ==
  ASSUME TypeInv, TypeInv', MediaInv, NEW r \in Requests, OpenAlbum(r) PROVE MediaInv'
<1>1. CASE loc[r].alb \in albums /\ ~Expired(loc[r].alb)
  <2>1. PICK l : l = [loc[r] EXCEPT !.snap = expires[loc[r].alb]]
    OBVIOUS
  <2>2. Go(r, "countItems") /\ Keep(r, l) /\ Read /\ pc[r] = "openAlbum"
    BY <1>1, <2>1 DEF OpenAlbum
  <2>3. /\ l.op = loc[r].op /\ l.alb = loc[r].alb /\ l.med = loc[r].med
        /\ l.keys = loc[r].keys /\ l.made = loc[r].made /\ l.todo = loc[r].todo
    BY <2>1, RequestFacts DEF Locals
  <2>4. Sound("openAlbum", loc[r]) /\ l.alb \in Albums
    BY <1>1, <2>2, <2>3, RequestFacts
  <2>5. Sound("countItems", l)
    BY <2>3, <2>4 DEF Sound, RightOp, RightKeys, RightUpload, Starting, Unwinding
  <2>6. Sound("countItems", l)' /\ faults <= faults'
    BY <2>2, <2>5, SoundStays, RequestFacts DEF Read, Quiet
  <2> QED BY <2>2, <2>3, <2>6, OnwardKeeps DEF Read, Ended, Unwinding
<1> QED BY <1>1, RefuseKeeps DEF OpenAlbum

LEMMA MakeAlbumKeeps ==
  ASSUME TypeInv, TypeInv', MediaInv, NEW r \in Requests, MakeAlbum(r) PROVE MediaInv'
<1>1. PICK a \in Albums \ minted :
        IF a \in Owned => account
        THEN /\ Go(r, "countItems")
             /\ CreateAlbum(a)
             /\ Keep(r, [loc[r] EXCEPT !.alb = a, !.snap = expires'[a]])
             /\ Quiet
        ELSE Refuse(r)
  BY DEF MakeAlbum
<1>2. CASE a \in Owned => account
  <2>1. PICK l : l = [loc[r] EXCEPT !.alb = a, !.snap = expires'[a]]
    OBVIOUS
  <2>2. Go(r, "countItems") /\ Keep(r, l) /\ CreateAlbum(a) /\ Quiet /\ pc[r] = "openAlbum"
    BY <1>1, <1>2, <2>1 DEF MakeAlbum
  <2>3. /\ l.op = loc[r].op /\ l.alb = a /\ l.med = loc[r].med
        /\ l.keys = loc[r].keys /\ l.made = loc[r].made
    BY <2>1, RequestFacts DEF Locals
  <2>4. l.op = "upload" /\ l.med = NoMedia /\ l.keys = {} /\ NoMedia \notin Media
    BY <2>2, <2>3, RequestFacts DEF Sound, RightOp, RightUpload, RightKeys, Starting
  <2>5. Sound("countItems", l)'
    BY <2>3, <2>4 DEF Sound, RightOp, RightKeys, RightUpload, Starting, Unwinding
  <2>6. /\ pc'[r] = "countItems" /\ loc'[r] = l
        /\ \A s \in Requests : s # r => pc'[s] = pc[s] /\ loc'[s] = loc[s]
    BY <2>2, Moved
  <2>7. faults <= faults' /\ faults' = faults
    BY <2>2, RequestFacts DEF Quiet
  <2>8. Writes(r) /\ StoreInv'
    BY <2>2, <2>7, StatementsWrites, StatementsStoreInv DEF MediaInv, TypeInv, TypeOK
  <2>9. Path(r)
    BY <2>2, <2>3, <2>4, <2>6 DEF Path, Ended, Unwinding
  <2> QED BY <2>5, <2>6, <2>8, <2>9, StepKeeps DEF Step
<1> QED BY <1>1, <1>2, RefuseKeeps DEF MakeAlbum

LEMMA FailedKeeps ==
  ASSUME TypeInv, TypeInv', MediaInv, NEW r \in Requests, pc[r] \in {"countItems", "putOriginal"},
         NEW q \in {"putOriginal", Failed(r)}, Go(r, q), UNCHANGED loc, Read
  PROVE  MediaInv'
<1>1. PICK l : l = loc[r]
  OBVIOUS
<1>2. Sound(pc[r], l) /\ NoMedia \notin Media \cup rows \cup blobs
  BY <1>1, RequestFacts
<1>3. /\ l.op = "upload" /\ l.med = NoMedia /\ l.keys = {} /\ l.alb \in Albums
      /\ q \in {"putOriginal", "unwindList", "refused"} /\ (q = "unwindList" => l.made)
  BY <1>1, <1>2 DEF Sound, RightOp, RightUpload, RightKeys, Starting, Failed
<1>4. Sound(q, l)
  BY <1>2, <1>3 DEF Sound, RightOp, RightKeys, RightUpload, Starting, Unwinding
<1>5. Sound(q, l)' /\ faults <= faults'
  BY <1>4, SoundStays, RequestFacts DEF Read, Quiet
<1> QED BY <1>1, <1>3, <1>5, OnwardKeeps DEF Read, Ended, Unwinding

LEMMA StoreFileKeeps ==
  ASSUME TypeInv, TypeInv', MediaInv, NEW r \in Requests, StoreFile(r) PROVE MediaInv'
<1>0. PICK m \in Media \ minted : PutOriginal(m) /\ Keep(r, [loc[r] EXCEPT !.med = m])
  BY DEF StoreFile
<1>1. PICK l :
        /\ l = [loc[r] EXCEPT !.med = m]
        /\ PutOriginal(m) /\ Keep(r, l) /\ Go(r, "insertRow") /\ Quiet /\ pc[r] = "putOriginal"
  BY <1>0 DEF StoreFile
<1>2. /\ l.op = loc[r].op /\ l.alb = loc[r].alb /\ l.med = m
      /\ l.keys = loc[r].keys /\ l.made = loc[r].made
  BY <1>1, RequestFacts DEF Locals
<1>3. l.op = "upload" /\ l.keys = {} /\ l.alb \in Albums
  BY <1>1, <1>2, RequestFacts DEF Sound, RightOp, RightUpload, RightKeys, Starting
<1>4. home[m] = NoAlbum /\ m \notin rows
  BY <1>1 DEF MediaInv, StoreInv
<1>5. Sound("insertRow", l)'
  BY <1>1, <1>2, <1>3, <1>4
     DEF Sound, RightOp, RightKeys, RightUpload, Starting, Unwinding, PutOriginal
<1>6. /\ pc'[r] = "insertRow" /\ loc'[r] = l
      /\ \A s \in Requests : s # r => pc'[s] = pc[s] /\ loc'[s] = loc[s]
  BY <1>1, Moved
<1>7. faults <= faults'
  BY <1>1, RequestFacts DEF Quiet
<1>8. Writes(r) /\ StoreInv'
  BY <1>1, <1>2, <1>3, <1>6, <1>7, StatementsWrites, StatementsStoreInv
     DEF MediaInv, TypeInv, TypeOK
<1>9. Path(r)
  BY <1>1, <1>2, <1>3, <1>6 DEF Path, Ended, Unwinding
<1> QED BY <1>5, <1>6, <1>8, <1>9, StepKeeps DEF Step

\* The INSERT commits, with or without a reply.
LEMMA InsertKeeps ==
  ASSUME TypeInv, TypeInv', MediaInv, NEW r \in Requests, pc[r] = "insertRow",
         loc[r].alb \in albums, InsertMedia(loc[r].med, loc[r].alb), UNCHANGED loc,
         NEW q, Go(r, q), \/ q = "touchAlbum" /\ faults' = faults
                          \/ q = "rollback" /\ faults' = faults + 1
  PROVE  MediaInv'
<1>1. PICK l : l = loc[r]
  OBVIOUS
<1>2. Sound("insertRow", l) /\ l \in Locals /\ faults \in Nat
  BY <1>1, RequestFacts
<1>3. /\ l.op = "upload" /\ l.keys = {} /\ l.alb \in Albums /\ l.med \in Media \cap minted
      /\ home[l.med] = NoAlbum
  BY <1>2, RequestFacts DEF Sound, RightOp, RightUpload, RightKeys, Starting
<1>4. home'[l.med] = l.alb /\ l.med \in rows' /\ minted' = minted
  BY <1>1, <1>3 DEF InsertMedia, TypeInv, TypeOK, StoreTypeOK
<1>5. Sound(q, l)'
  BY <1>2, <1>3, <1>4 DEF Sound, RightOp, RightKeys, RightUpload, Starting, Unwinding
<1>6. /\ pc'[r] = q /\ loc'[r] = l
      /\ \A s \in Requests : s # r => pc'[s] = pc[s] /\ loc'[s] = loc[s]
  BY <1>1, Moved
<1>7. faults <= faults'
  BY <1>2
<1>8. Writes(r) /\ StoreInv'
  BY <1>1, <1>3, <1>7, StatementsWrites, StatementsStoreInv DEF MediaInv, TypeInv, TypeOK
<1>9. Path(r)
  BY <1>1, <1>3, <1>4, <1>6 DEF Path, Ended, Unwinding
<1> QED BY <1>5, <1>6, <1>8, <1>9, StepKeeps DEF Step

LEMMA InsertRowKeeps ==
  ASSUME TypeInv, TypeInv', MediaInv, NEW r \in Requests, InsertRow(r) PROVE MediaInv'
<1>1. CASE loc[r].alb \in albums
  BY <1>1, InsertKeeps DEF InsertRow, Quiet
<1>2. CASE loc[r].alb \notin albums
  <2>1. PICK l : l = loc[r]
    OBVIOUS
  <2>2. Sound("insertRow", l) /\ pc[r] = "insertRow"
    BY <2>1, RequestFacts DEF InsertRow
  <2>3. Sound("rollback", l)
    BY <2>2, RequestFacts DEF Sound, RightOp, RightKeys, RightUpload, Starting, Unwinding
  <2>4. Go(r, "rollback") /\ UNCHANGED loc /\ UNCHANGED store /\ faults' = faults
    BY <1>2 DEF InsertRow, Quiet
  <2>5. /\ pc'[r] = "rollback" /\ loc'[r] = l
        /\ \A s \in Requests : s # r => pc'[s] = pc[s] /\ loc'[s] = loc[s]
    BY <2>1, <2>4, Moved
  <2>6. faults <= faults'
    BY <2>4, RequestFacts
  <2>7. Writes(r) /\ StoreInv' /\ Sound("rollback", l)'
    BY <2>3, <2>4, <2>6, SoundStays, StatementsWrites, StatementsStoreInv
       DEF MediaInv, TypeInv, TypeOK
  <2>8. Path(r)
    BY <2>1, <2>2, <2>5 DEF Path, Ended, Unwinding
  <2> QED BY <2>5, <2>7, <2>8, StepKeeps DEF Step
<1> QED BY <1>1, <1>2

LEMMA LoseCommitKeeps ==
  ASSUME TypeInv, TypeInv', MediaInv, NEW r \in Requests, LoseCommit(r) PROVE MediaInv'
BY InsertKeeps DEF LoseCommit, Fault

LEMMA RollbackKeeps ==
  ASSUME TypeInv, TypeInv', MediaInv, NEW r \in Requests, Rollback(r) PROVE MediaInv'
<1>1. PICK l : l = loc[r]
  OBVIOUS
<1>2. Sound("rollback", l) /\ l \in Locals /\ faults \in Nat /\ pc[r] = "rollback"
  BY <1>1, RequestFacts DEF Rollback
<1>3. l.op = "upload" /\ l.keys = {} /\ l.alb \in Albums /\ l.med \in Media \cap minted
  BY <1>2 DEF Sound, RightOp, RightUpload, RightKeys, Starting
<1>4. PICK q : q = Failed(r)
  OBVIOUS
<1>5. q \in {"unwindList", "refused"} /\ (q = "unwindList" => l.made)
  BY <1>1, <1>4 DEF Failed
<1>6. /\ \/ DropOriginal(l.med) /\ faults' = faults
         \/ UNCHANGED store /\ faults' = faults + 1
      /\ Go(r, q) /\ UNCHANGED loc
  BY <1>1, <1>4 DEF Rollback, Fault
<1>7. /\ pc'[r] = q /\ loc'[r] = l
      /\ \A s \in Requests : s # r => pc'[s] = pc[s] /\ loc'[s] = loc[s]
  BY <1>1, <1>6, Moved
<1>8. faults <= faults' /\ minted' = minted /\ rows' = rows
  BY <1>2, <1>6 DEF DropOriginal, store
<1>9. faults' = faults => l.med \notin blobs'
  BY <1>2, <1>6 DEF DropOriginal
<1>10. faults' = 0 => faults' = faults /\ l.med \notin rows'
  <2>1. faults' = 0 => faults = 0
    BY <1>2, <1>8
  <2> QED BY <1>2, <1>3, <1>8, <2>1 DEF Sound, RightUpload
<1>11. Sound(q, l)'
  BY <1>3, <1>5, <1>8, <1>9, <1>10
     DEF Sound, RightOp, RightKeys, RightUpload, Starting, Unwinding
<1>12. Writes(r) /\ StoreInv'
  BY <1>1, <1>2, <1>6, <1>8, StatementsWrites, StatementsStoreInv DEF MediaInv, TypeInv, TypeOK
<1>13. Path(r)
  BY <1>1, <1>2, <1>5, <1>7, <1>9, <1>3 DEF Path, Ended, Unwinding
<1> QED BY <1>7, <1>11, <1>12, <1>13, StepKeeps DEF Step

LEMMA UnwindListKeeps ==
  ASSUME TypeInv, TypeInv', MediaInv, NEW r \in Requests, UnwindList(r) PROVE MediaInv'
<1>0. PICK q \in {"unwindDelete", "refused"} : Go(r, q)
  BY DEF UnwindList
<1>1. PICK l : l = loc[r] /\ Go(r, q)
  BY <1>0
<1>2. Sound("unwindList", l) /\ pc[r] = "unwindList" /\ UNCHANGED loc /\ Read
  BY <1>1, RequestFacts DEF UnwindList
<1>3. Sound(q, l)
  BY <1>2 DEF Sound, RightOp, RightKeys, RightUpload, Starting, Unwinding
<1>4. Sound(q, l)' /\ faults <= faults'
  BY <1>2, <1>3, SoundStays, RequestFacts DEF Read, Quiet
<1> QED BY <1>1, <1>2, <1>4, OnwardKeeps DEF Read, Ended, Unwinding

LEMMA UnwindDeleteKeeps ==
  ASSUME TypeInv, TypeInv', MediaInv, NEW r \in Requests, UnwindDelete(r) PROVE MediaInv'
<1>1. PICK l : l = loc[r]
  OBVIOUS
<1>2. Sound("unwindDelete", l) /\ pc[r] = "unwindDelete" /\ faults \in Nat
  BY <1>1, RequestFacts DEF UnwindDelete
<1>3. l.op = "upload" /\ l.made /\ l.keys = {}
  BY <1>2 DEF Sound, RightOp, RightKeys, RightUpload, Unwinding
<1>4. DropAlbum(l.alb) /\ Go(r, "refused") /\ UNCHANGED loc /\ faults' = faults
  BY <1>1 DEF UnwindDelete, Quiet
<1>5. /\ pc'[r] = "refused" /\ loc'[r] = l
      /\ \A s \in Requests : s # r => pc'[s] = pc[s] /\ loc'[s] = loc[s]
  BY <1>1, <1>4, Moved
<1>6. Sound("refused", l)'
  BY <1>2, <1>3, <1>4
     DEF Sound, RightOp, RightKeys, RightUpload, Starting, Unwinding, DropAlbum
<1>7. faults <= faults' /\ Blame(r, l.alb)
  BY <1>1, <1>2, <1>3, <1>4, <1>5 DEF Blame
<1>8. Writes(r) /\ StoreInv'
  BY <1>4, <1>7, StatementsWrites, StatementsStoreInv DEF MediaInv, TypeInv, TypeOK
<1>9. Path(r)
  BY <1>1, <1>2, <1>5 DEF Path, Ended, Unwinding
<1> QED BY <1>5, <1>6, <1>8, <1>9, StepKeeps DEF Step

-----------------------------------------------------------------------------
(* The other handlers.                                                     *)

\* A request goes on and writes.
LEMMA WriteKeeps ==
  ASSUME TypeInv, TypeInv', MediaInv, NEW r \in Requests, NEW q, NEW l,
         pc[r] \notin Ended \cup Unwinding \cup {"idle", "insertRow", "rollback", "cleanKeys"},
         Go(r, q) \/ (q = pc[r] /\ UNCHANGED pc), Keep(r, l) \/ (l = loc[r] /\ UNCHANGED loc),
         Writes(r), StoreInv',
         l.op = loc[r].op, l.op \in {"upload", "deleteMedia", "deleteAlbum"} => l.alb = loc[r].alb,
         l.med = loc[r].med,
         q \in {"touchAlbum", "ok"} /\ l.op = "upload" => pc[r] = "touchAlbum" /\ l = loc[r],
         Sound(q, l)'
  PROVE  MediaInv'
<1>1. Go(r, q)
  BY DEF Go, TypeInv, TypeOK
<1>2. /\ pc'[r] = q /\ loc'[r] = l
      /\ \A s \in Requests : s # r => pc'[s] = pc[s] /\ loc'[s] = loc[s]
  BY <1>1, Moved
<1>3. Path(r)
  BY <1>2 DEF Path, Ended
<1> QED BY <1>2, <1>3, StepKeeps DEF Step

LEMMA TouchAlbumKeeps ==
  ASSUME TypeInv, TypeInv', MediaInv, NEW r \in Requests, TouchAlbum(r) PROVE MediaInv'
<1>1. PICK l : l = loc[r]
  OBVIOUS
<1>2. Sound("touchAlbum", l) /\ l \in Locals /\ pc[r] = "touchAlbum" /\ UNCHANGED loc
  BY <1>1, RequestFacts DEF TouchAlbum
<1>3. faults' = faults /\ faults <= faults'
  BY RequestFacts DEF TouchAlbum, Quiet
<1>4. CASE l.alb \in albums
  <2>1. WriteAlbum(l.alb, l.snap) /\ Go(r, "ok") /\ l.snap \in Expiry
    BY <1>1, <1>2, <1>4 DEF TouchAlbum, Locals
  <2>2. UNCHANGED <<rows, home, blobs, minted>> /\ lapsed \subseteq lapsed'
    BY <2>1 DEF WriteAlbum
  <2>3. Sound("ok", l)'
    BY <1>2, <2>2 DEF Sound, RightOp, RightKeys, RightUpload, Starting, Unwinding
  <2>4. Writes(r) /\ StoreInv'
    BY <1>3, <1>4, <2>1, StatementsWrites, StatementsStoreInv DEF MediaInv, TypeInv, TypeOK
  <2> QED BY <1>1, <1>2, <2>1, <2>3, <2>4, WriteKeeps DEF Ended, Unwinding
<1>5. CASE l.alb \notin albums
  <2>1. PICK q : /\ UNCHANGED store /\ Go(r, q)
                 /\ q = IF l.op = "deleteMedia" THEN "ok" ELSE "refused"
    BY <1>1, <1>5 DEF TouchAlbum
  <2>2. l.op = "upload" => /\ l.med \in Media /\ home[l.med] = l.alb /\ l.alb \in Albums
                           /\ l.med \notin rows
    BY <1>2, <1>5 DEF Sound, RightUpload, MediaInv, StoreInv, Starting
  <2>3. Sound(q, l)
    BY <1>2, <1>5, <2>1, <2>2 DEF Sound, RightOp, RightKeys, RightUpload, Starting, Unwinding
  <2>4. Sound(q, l)'
    BY <1>3, <2>1, <2>3, SoundStays
  <2> QED BY <1>1, <1>2, <1>3, <2>1, <2>4, OnwardKeeps DEF Ended, Unwinding
<1> QED BY <1>4, <1>5

LEMMA EditKeeps ==
  ASSUME TypeInv, TypeInv', MediaInv, NEW r \in Requests, Edit(r) PROVE MediaInv'
<1>1. PICK a \in Albums :
        IF a \in albums /\ ~Expired(a)
        THEN /\ Go(r, "touchAlbum")
             /\ Keep(r, [Blank EXCEPT !.op = "edit", !.alb = a, !.snap = expires[a]])
             /\ Read
        ELSE Refuse(r)
  BY DEF Edit
<1>2. CASE a \in albums /\ ~Expired(a)
  <2>1. PICK l : l = [Blank EXCEPT !.op = "edit", !.alb = a, !.snap = expires[a]]
    OBVIOUS
  <2>2. l.op = "edit" /\ l.keys = {}
    BY <2>1 DEF Blank
  <2>3. Sound("touchAlbum", l)
    BY <2>2 DEF Sound, RightOp, RightKeys, Starting, Unwinding
  <2> QED BY <1>1, <1>2, <2>1, <2>2, <2>3, ArrivalKeeps DEF Edit
<1> QED BY <1>1, <1>2, RefuseKeeps DEF Edit

LEMMA SetExpiryKeeps ==
  ASSUME TypeInv, TypeInv', MediaInv, NEW r \in Requests, SetExpiry(r) PROVE MediaInv'
<1>1. PICK a \in Albums, e \in (0 .. MaxTime) \cup {Never} :
        IF a \in albums
        THEN /\ Go(r, IF expires[a] = e THEN "ok" ELSE "writeExpiry")
             /\ Keep(r, [Blank EXCEPT !.op = "setExpiry", !.alb = a, !.snap = e])
             /\ Read
        ELSE Refuse(r)
  BY DEF SetExpiry
<1>2. CASE a \in albums
  <2>1. PICK l : l = [Blank EXCEPT !.op = "setExpiry", !.alb = a, !.snap = e]
    OBVIOUS
  <2>2. PICK q \in {"ok", "writeExpiry"} : Go(r, q)
    BY <1>1, <1>2
  <2>3. l.op = "setExpiry" /\ l.keys = {}
    BY <2>1 DEF Blank
  <2>4. Sound(q, l)
    BY <2>3 DEF Sound, RightOp, RightKeys, Starting, Unwinding
  <2> QED BY <1>1, <1>2, <2>1, <2>2, <2>3, <2>4, ArrivalKeeps DEF SetExpiry
<1> QED BY <1>1, <1>2, RefuseKeeps DEF SetExpiry

LEMMA WriteExpiryKeeps ==
  ASSUME TypeInv, TypeInv', MediaInv, NEW r \in Requests, WriteExpiry(r) PROVE MediaInv'
<1>1. PICK l : l = loc[r]
  OBVIOUS
<1>2. PICK q \in {"ok", "refused"} : Go(r, q)
  BY DEF WriteExpiry
<1>3. Sound("writeExpiry", l) /\ l \in Locals /\ pc[r] = "writeExpiry" /\ UNCHANGED loc
  BY <1>1, RequestFacts DEF WriteExpiry
<1>4. faults' = faults /\ faults <= faults'
  BY RequestFacts DEF WriteExpiry, Quiet
<1>5. (l.alb \in albums /\ WriteAlbum(l.alb, l.snap)) \/ UNCHANGED store
  BY <1>1 DEF WriteExpiry
<1>6. Writes(r) /\ StoreInv'
  BY <1>3, <1>4, <1>5, StatementsWrites, StatementsStoreInv DEF MediaInv, TypeInv, TypeOK, Locals
<1>7. UNCHANGED <<rows, home, blobs, minted>> /\ lapsed \subseteq lapsed'
  BY <1>5 DEF WriteAlbum, store
<1>8. l.op # "upload"
  BY <1>3 DEF Sound, RightOp
<1>9. Sound(q, l)'
  BY <1>3, <1>7, <1>8 DEF Sound, RightOp, RightKeys, Starting, Unwinding
<1> QED BY <1>1, <1>2, <1>3, <1>6, <1>8, <1>9, WriteKeeps DEF Ended, Unwinding

LEMMA FindMediaKeeps ==
  ASSUME TypeInv, TypeInv', MediaInv, NEW r \in Requests, FindMedia(r) PROVE MediaInv'
<1>1. PICK m \in Media :
        IF m \in rows
        THEN /\ Go(r, "checkAlbum")
             /\ Keep(r, [Blank EXCEPT !.op = "deleteMedia", !.med = m, !.alb = home[m]])
             /\ Read
        ELSE Refuse(r)
  BY DEF FindMedia
<1>2. CASE m \in rows
  <2>1. PICK l : l = [Blank EXCEPT !.op = "deleteMedia", !.med = m, !.alb = home[m]]
    OBVIOUS
  <2>2. l.op = "deleteMedia" /\ l.keys = {} /\ l.med = m /\ l.alb = home[m]
    BY <2>1 DEF Blank
  <2>3. home[m] \in Albums
    BY <1>2, RequestFacts DEF MediaInv, StoreInv
  <2>4. Sound("checkAlbum", l)
    BY <2>2, <2>3 DEF Sound, RightOp, RightKeys, Starting, Unwinding
  <2> QED BY <1>1, <1>2, <2>1, <2>2, <2>4, ArrivalKeeps DEF FindMedia
<1> QED BY <1>1, <1>2, RefuseKeeps DEF FindMedia

LEMMA CheckAlbumKeeps ==
  ASSUME TypeInv, TypeInv', MediaInv, NEW r \in Requests, CheckAlbum(r) PROVE MediaInv'
<1>1. CASE loc[r].alb \in albums /\ ~Expired(loc[r].alb)
  <2>1. PICK l : l = [loc[r] EXCEPT !.snap = expires[loc[r].alb]]
    OBVIOUS
  <2>2. Go(r, "deleteRow") /\ Keep(r, l) /\ Read /\ pc[r] = "checkAlbum"
    BY <1>1, <2>1 DEF CheckAlbum
  <2>3. /\ l.op = loc[r].op /\ l.alb = loc[r].alb /\ l.med = loc[r].med
        /\ l.keys = loc[r].keys /\ l.made = loc[r].made /\ l.todo = loc[r].todo
    BY <2>1, RequestFacts DEF Locals
  <2>4. Sound("checkAlbum", loc[r]) /\ l.op = "deleteMedia"
    BY <2>2, <2>3, RequestFacts DEF Sound, RightOp
  <2>5. Sound("deleteRow", l)
    BY <2>3, <2>4 DEF Sound, RightOp, RightKeys, Starting, Unwinding
  <2>6. Sound("deleteRow", l)' /\ faults <= faults'
    BY <2>2, <2>5, SoundStays, RequestFacts DEF Read, Quiet
  <2> QED BY <2>2, <2>3, <2>6, OnwardKeeps DEF Read, Ended, Unwinding
<1> QED BY <1>1, RefuseKeeps DEF CheckAlbum

LEMMA DeleteRowKeeps ==
  ASSUME TypeInv, TypeInv', MediaInv, NEW r \in Requests, DeleteRow(r) PROVE MediaInv'
<1>1. CASE loc[r].med \in rows
  <2>1. PICK l : l = [loc[r] EXCEPT !.keys = {loc[r].med}]
    OBVIOUS
  <2>2. /\ Go(r, "cleanKeys") /\ Keep(r, l) /\ DropMedia(l.med) /\ faults' = faults
        /\ pc[r] = "deleteRow" /\ loc[r] \in Locals
    BY <1>1, <2>1, RequestFacts DEF DeleteRow, Quiet, Locals
  <2>3. /\ l.op = loc[r].op /\ l.alb = loc[r].alb /\ l.med = loc[r].med /\ l.keys = {l.med}
    BY <2>1, <2>2 DEF Locals
  <2>4. Sound("deleteRow", loc[r]) /\ l.op = "deleteMedia"
    BY <2>2, <2>3, RequestFacts DEF Sound, RightOp
  <2>5. l.alb \in Albums /\ home[l.med] = l.alb /\ l.med \in Media
    BY <2>3, <2>4 DEF Sound, RightKeys
  <2>6. Sound("cleanKeys", l)'
    BY <2>2, <2>3, <2>4, <2>5 DEF Sound, RightOp, RightKeys, Starting, Unwinding, DropMedia
  <2>7. /\ pc'[r] = "cleanKeys" /\ loc'[r] = l
        /\ \A s \in Requests : s # r => pc'[s] = pc[s] /\ loc'[s] = loc[s]
    BY <2>2, Moved
  <2>8. faults <= faults' /\ Blame(r, home[l.med])
    BY <2>2, <2>3, <2>4, <2>5, RequestFacts DEF Blame
  <2>9. Writes(r) /\ StoreInv'
    BY <2>2, <2>3, <2>7, <2>8, StatementsWrites, StatementsStoreInv DEF MediaInv, TypeInv, TypeOK
  <2> QED BY <2>2, <2>3, <2>4, <2>6, <2>9, WriteKeeps DEF Ended, Unwinding
<1> QED BY <1>1, RefuseKeeps DEF DeleteRow

LEMMA CleanKeyKeeps ==
  ASSUME TypeInv, TypeInv', MediaInv, NEW r \in Requests, CleanKey(r) PROVE MediaInv'
<1>0. PICK k \in loc[r].keys :
        /\ \/ DropOriginal(k) /\ UNCHANGED faults
           \/ Fault /\ UNCHANGED store
        /\ Keep(r, [loc[r] EXCEPT !.keys = @ \ {k}])
  BY DEF CleanKey
<1>1. PICK l : l = [loc[r] EXCEPT !.keys = @ \ {k}]
  OBVIOUS
<1>2. Keep(r, l) /\ pc[r] = "cleanKeys" /\ UNCHANGED pc /\ loc[r] \in Locals /\ faults \in Nat
  BY <1>0, <1>1, RequestFacts DEF CleanKey
<1>3. /\ l.op = loc[r].op /\ l.alb = loc[r].alb /\ l.med = loc[r].med /\ l.keys = loc[r].keys \ {k}
  BY <1>1, <1>2 DEF Locals
<1>4. Sound("cleanKeys", loc[r]) /\ l.op \in {"deleteMedia", "deleteAlbum"}
  BY <1>2, <1>3, RequestFacts DEF Sound, RightOp
<1>5. UNCHANGED <<home, rows, albums>>
  BY <1>0 DEF DropOriginal, store
<1>6. Sound("cleanKeys", l)'
  BY <1>3, <1>4, <1>5 DEF Sound, RightOp, RightKeys, Starting, Unwinding
<1>7. /\ pc'[r] = "cleanKeys" /\ loc'[r] = l
      /\ \A s \in Requests : s # r => pc'[s] = pc[s] /\ loc'[s] = loc[s]
  BY <1>2 DEF Keep, TypeInv, TypeOK
<1>8. faults <= faults' /\ (faults' = faults => k \notin blobs')
  BY <1>0, <1>2 DEF Fault, DropOriginal
<1>9. Writes(r) /\ StoreInv'
  BY <1>0, <1>2, <1>8, StatementsWrites, StatementsStoreInv DEF MediaInv, TypeInv, TypeOK, Fault
<1>10. Path(r)
  BY <1>2, <1>3, <1>4, <1>7, <1>8 DEF Path, Ended, Unwinding
<1> QED BY <1>6, <1>7, <1>9, <1>10, StepKeeps DEF Step

LEMMA CleanedKeeps ==
  ASSUME TypeInv, TypeInv', MediaInv, NEW r \in Requests, Cleaned(r) PROVE MediaInv'
<1>1. PICK l : l = loc[r]
  OBVIOUS
<1>2. PICK q : q = (IF l.op = "deleteAlbum" THEN "ok" ELSE "countLeft") /\ Go(r, q)
  BY <1>1 DEF Cleaned
<1>3. /\ pc[r] = "cleanKeys" /\ l.keys = {} /\ UNCHANGED <<store, loc>> /\ faults' = faults
      /\ faults \in Nat /\ Sound("cleanKeys", l)
  BY <1>1, RequestFacts DEF Cleaned, Announce, Quiet
<1>4. Sound(q, l)
  BY <1>2, <1>3 DEF Sound, RightOp, RightKeys, Starting, Unwinding
<1>5. Sound(q, l)'
  BY <1>3, <1>4, SoundStays
<1>6. /\ pc'[r] = q /\ loc'[r] = l
      /\ \A s \in Requests : s # r => pc'[s] = pc[s] /\ loc'[s] = loc[s]
  BY <1>1, <1>2, <1>3, Moved
<1>7. Writes(r) /\ StoreInv'
  BY <1>3, StatementsWrites, StatementsStoreInv DEF MediaInv, TypeInv, TypeOK
<1>8. Path(r)
  BY <1>1, <1>2, <1>3, <1>6 DEF Path, Ended, Unwinding, Sound, RightOp
<1> QED BY <1>5, <1>6, <1>7, <1>8, StepKeeps DEF Step

LEMMA CountLeftKeeps ==
  ASSUME TypeInv, TypeInv', MediaInv, NEW r \in Requests, CountLeft(r) PROVE MediaInv'
<1>1. PICK l : l = loc[r]
  OBVIOUS
<1>2. PICK q \in {"deleteEmpty", "touchAlbum"} : Go(r, q)
  BY DEF CountLeft
<1>3. Sound("countLeft", l) /\ pc[r] = "countLeft" /\ UNCHANGED loc /\ Read
  BY <1>1, RequestFacts DEF CountLeft
<1>4. Sound(q, l) /\ l.op = "deleteMedia"
  BY <1>3 DEF Sound, RightOp, RightKeys, Starting, Unwinding
<1>5. Sound(q, l)' /\ faults <= faults'
  BY <1>3, <1>4, SoundStays, RequestFacts DEF Read, Quiet
<1> QED BY <1>1, <1>2, <1>3, <1>4, <1>5, OnwardKeeps DEF Read, Ended, Unwinding

\* An album goes, by a handler that works on it.
LEMMA DropAlbumKeeps ==
  ASSUME TypeInv, TypeInv', MediaInv, NEW r \in Requests,
         pc[r] \in {"deleteEmpty", "deleteAlbumRow", "pruneKeys"}, pc[r] = "pruneKeys" => loc[r].keys = {},
         NEW q \in {"ok", "cleanKeys", "pruneNext"}, Go(r, q), UNCHANGED loc,
         q = CASE pc[r] = "deleteEmpty" -> "ok" [] pc[r] = "deleteAlbumRow" -> "cleanKeys"
               [] pc[r] = "pruneKeys" -> "pruneNext",
         DropAlbum(loc[r].alb), faults' = faults
  PROVE  MediaInv'
<1>1. PICK l : l = loc[r]
  OBVIOUS
<1>2. Sound(pc[r], l) /\ l \in Locals /\ faults \in Nat
  BY <1>1, RequestFacts
<1>3. \/ pc[r] = "deleteEmpty" /\ q = "ok"
      \/ pc[r] = "deleteAlbumRow" /\ q = "cleanKeys"
      \/ pc[r] = "pruneKeys" /\ q = "pruneNext"
  <2>1. CASE pc[r] = "deleteEmpty"
    BY <2>1
  <2>2. CASE pc[r] = "deleteAlbumRow"
    BY <2>2
  <2>3. CASE pc[r] = "pruneKeys"
    BY <2>3
  <2> QED BY <2>1, <2>2, <2>3
<1>4. Blame(r, l.alb) /\ l.op # "upload"
  BY <1>1, <1>2, StoreAssumption DEF Sound, RightOp, RightKeys, Blame
<1>5. /\ UNCHANGED <<home, lapsed>> /\ rows' = {m \in rows : home[m] # l.alb}
  BY <1>1 DEF DropAlbum, Items
<1>6. q = "cleanKeys" => l.keys \cap rows' = {}
  BY <1>2, <1>3, <1>5 DEF Sound, RightOp, RightKeys
<1>7. Sound(q, l)'
  BY <1>2, <1>3, <1>4, <1>5, <1>6 DEF Sound, RightOp, RightKeys, Starting, Unwinding
<1>8. Writes(r) /\ StoreInv'
  BY <1>1, <1>2, <1>4, StatementsWrites, StatementsStoreInv DEF MediaInv, TypeInv, TypeOK
<1> QED BY <1>1, <1>4, <1>7, <1>8, WriteKeeps DEF Ended, Unwinding

LEMMA DeleteEmptyKeeps ==
  ASSUME TypeInv, TypeInv', MediaInv, NEW r \in Requests, DeleteEmpty(r) PROVE MediaInv'
<1>1. Go(r, "ok") /\ UNCHANGED loc /\ DropAlbum(loc[r].alb) /\ faults' = faults
  BY DEF DeleteEmpty, Announce, Quiet
<1> QED BY <1>1, DropAlbumKeeps DEF DeleteEmpty

LEMMA DeleteAlbumRowKeeps ==
  ASSUME TypeInv, TypeInv', MediaInv, NEW r \in Requests, DeleteAlbumRow(r) PROVE MediaInv'
<1>1. CASE loc[r].alb \in albums
  <2>1. /\ pc[r] = "deleteAlbumRow" /\ Go(r, "cleanKeys") /\ UNCHANGED loc
        /\ DropAlbum(loc[r].alb) /\ faults' = faults
    BY <1>1 DEF DeleteAlbumRow, Quiet
  <2> QED BY <2>1, DropAlbumKeeps
<1> QED BY <1>1, RefuseKeeps DEF DeleteAlbumRow

LEMMA PruneAlbumKeeps ==
  ASSUME TypeInv, TypeInv', MediaInv, NEW r \in Requests, PruneAlbum(r) PROVE MediaInv'
<1>1. /\ pc[r] = "pruneKeys" /\ loc[r].keys = {} /\ Go(r, "pruneNext") /\ UNCHANGED loc
      /\ DropAlbum(loc[r].alb) /\ faults' = faults
  BY DEF PruneAlbum, Announce, Quiet
<1> QED BY <1>1, DropAlbumKeeps

LEMMA FindAlbumKeeps ==
  ASSUME TypeInv, TypeInv', MediaInv, NEW r \in Requests, FindAlbum(r) PROVE MediaInv'
<1>1. PICK a \in Albums :
        \/ /\ a \in albums /\ Go(r, "selectRows") /\ Read
           /\ Keep(r, [Blank EXCEPT !.op = "deleteAlbum", !.alb = a])
        \/ Refuse(r)
  BY DEF FindAlbum
<1>2. CASE Refuse(r)
  BY <1>2, RefuseKeeps DEF FindAlbum
<1>3. CASE ~Refuse(r)
  <2>1. PICK l : l = [Blank EXCEPT !.op = "deleteAlbum", !.alb = a]
    OBVIOUS
  <2>2. l.op = "deleteAlbum" /\ l.keys = {} /\ l.alb = a
    BY <2>1 DEF Blank
  <2>3. Sound("selectRows", l)
    BY <2>2 DEF Sound, RightOp, RightKeys, Starting, Unwinding
  <2> QED BY <1>1, <1>3, <2>1, <2>2, <2>3, ArrivalKeeps DEF FindAlbum
<1> QED BY <1>2, <1>3

LEMMA SelectRowsKeeps ==
  ASSUME TypeInv, TypeInv', MediaInv, NEW r \in Requests, SelectRows(r) PROVE MediaInv'
<1>1. PICK l : l = [loc[r] EXCEPT !.keys = Items(loc[r].alb)]
  OBVIOUS
<1>2. Go(r, "deleteAlbumRow") /\ Keep(r, l) /\ Read /\ pc[r] = "selectRows"
  BY <1>1 DEF SelectRows
<1>3. /\ l.op = loc[r].op /\ l.alb = loc[r].alb /\ l.med = loc[r].med
      /\ l.keys = Items(l.alb) /\ l.todo = loc[r].todo
  BY <1>1, RequestFacts DEF Locals
<1>4. Sound("selectRows", loc[r]) /\ l.op = "deleteAlbum"
  BY <1>2, <1>3, RequestFacts DEF Sound, RightOp
<1>5. Sound("deleteAlbumRow", l)
  BY <1>3, <1>4 DEF Sound, RightOp, RightKeys, Starting, Unwinding, Items
<1>6. Sound("deleteAlbumRow", l)' /\ faults <= faults'
  BY <1>2, <1>5, SoundStays, RequestFacts DEF Read, Quiet
<1> QED BY <1>2, <1>3, <1>4, <1>6, OnwardKeeps DEF Read, Ended, Unwinding

-----------------------------------------------------------------------------
(* Prune and account deletion: objects first.                              *)

LEMMA ListExpiredKeeps ==
  ASSUME TypeInv, TypeInv', MediaInv, NEW r \in Requests, ListExpired(r) PROVE MediaInv'
<1>1. PICK l : l = [Blank EXCEPT !.op = "prune", !.todo = albums \cap OverdueBy(expires, now)]
  OBVIOUS
<1>2. pc[r] = "idle" /\ Go(r, "pruneNext") /\ Keep(r, l) /\ Read
  BY <1>1 DEF ListExpired
<1>3. l.op = "prune" /\ l.keys = {} /\ l.alb = NoAlbum /\ l.todo \subseteq lapsed
  BY <1>1 DEF Blank, MediaInv, StoreInv
<1>4. Sound("pruneNext", l)
  BY <1>3 DEF Sound, RightOp, RightKeys, Starting, Unwinding
<1> QED BY <1>2, <1>3, <1>4, ArrivalKeeps

LEMMA PruneNextKeeps ==
  ASSUME TypeInv, TypeInv', MediaInv, NEW r \in Requests, PruneNext(r) PROVE MediaInv'
<1>0. PICK a \in loc[r].todo :
        Keep(r, [loc[r] EXCEPT !.alb = a, !.keys = Items(a), !.todo = @ \ {a}])
  BY DEF PruneNext
<1>1. PICK l : l = [loc[r] EXCEPT !.alb = a, !.keys = Items(a), !.todo = @ \ {a}]
  OBVIOUS
<1>2. Go(r, "pruneKeys") /\ Keep(r, l) /\ Read /\ pc[r] = "pruneNext" /\ loc[r] \in Locals
  BY <1>0, <1>1, RequestFacts DEF PruneNext
<1>3. /\ l.op = loc[r].op /\ l.alb = a /\ l.med = loc[r].med
      /\ l.keys = Items(a) /\ l.todo = loc[r].todo \ {a} /\ a \in Albums
  BY <1>1, <1>2 DEF Locals
<1>4. Sound("pruneNext", loc[r]) /\ l.op = "prune"
  BY <1>2, <1>3, RequestFacts DEF Sound, RightOp
<1>5. a \in lapsed
  BY <1>3, <1>4 DEF Sound, RightKeys
<1>6. Sound("pruneKeys", l)
  BY <1>3, <1>4, <1>5 DEF Sound, RightOp, RightKeys, Starting, Unwinding, Items
<1>7. Sound("pruneKeys", l)' /\ faults <= faults'
  BY <1>2, <1>6, SoundStays, RequestFacts DEF Read, Quiet
<1> QED BY <1>2, <1>3, <1>4, <1>7, OnwardKeeps DEF Read, Ended, Unwinding

\* One object goes before its row, or the delete fails and the rest is left.
LEMMA KeyFirstKeeps ==
  ASSUME TypeInv, TypeInv', MediaInv, NEW r \in Requests, pc[r] \in {"pruneKeys", "userKeys"},
         NEW q, q = IF pc[r] = "pruneKeys" THEN "pruneNext" ELSE "refused",
         NEW k \in loc[r].keys,
         \/ /\ DropOriginal(k) /\ Keep(r, [loc[r] EXCEPT !.keys = @ \ {k}])
            /\ UNCHANGED <<pc, faults>>
         \/ Fault /\ Go(r, q) /\ UNCHANGED <<store, loc>>
  PROVE  MediaInv'
<1>1. /\ Sound(pc[r], loc[r]) /\ loc[r] \in Locals /\ faults \in Nat
      /\ loc[r].op = IF pc[r] = "pruneKeys" THEN "prune" ELSE "deleteUser"
  BY RequestFacts DEF Sound, RightOp
<1>2. CASE DropOriginal(k) /\ Keep(r, [loc[r] EXCEPT !.keys = @ \ {k}]) /\ UNCHANGED <<pc, faults>>
  <2>1. PICK l : l = [loc[r] EXCEPT !.keys = @ \ {k}] /\ Keep(r, l)
    BY <1>2
  <2>2. /\ l.op = loc[r].op /\ l.alb = loc[r].alb /\ l.med = loc[r].med /\ l.todo = loc[r].todo
        /\ l.keys = loc[r].keys \ {k}
    BY <1>1, <2>1 DEF Locals
  <2>3. Sound(pc[r], l)
    BY <1>1, <2>2 DEF Sound, RightOp, RightKeys, Starting, Unwinding
  <2>4. PICK p : p = pc[r] /\ p = pc'[r] /\ UNCHANGED pc
    BY <1>2
  <2>5. Sound(p, l)'
    BY <1>1, <1>2, <2>2, <2>3, <2>4 DEF Sound, RightOp, RightKeys, DropOriginal
  <2>6. Writes(r) /\ StoreInv'
    BY <1>1, <1>2, StatementsWrites, StatementsStoreInv DEF MediaInv, TypeInv, TypeOK
  <2> QED BY <1>1, <2>1, <2>2, <2>4, <2>5, <2>6, WriteKeeps DEF Ended, Unwinding
<1>3. CASE Fault /\ Go(r, q) /\ UNCHANGED <<store, loc>>
  <2>1. PICK l : l = loc[r]
    OBVIOUS
  <2>2. q \in {"pruneNext", "refused"} /\ (q = "pruneNext" => l.op = "prune") /\ l.op # "upload"
    BY <1>1, <2>1
  <2>3. Sound(q, l)'
    BY <1>1, <1>3, <2>1, <2>2 DEF Sound, RightOp, RightKeys, Starting, Unwinding, store
  <2>4. faults <= faults'
    BY <1>1, <1>3 DEF Fault
  <2> QED BY <1>1, <1>3, <2>1, <2>2, <2>3, <2>4, OnwardKeeps DEF Ended, Unwinding
<1> QED BY <1>2, <1>3

LEMMA PruneKeyKeeps ==
  ASSUME TypeInv, TypeInv', MediaInv, NEW r \in Requests, PruneKey(r) PROVE MediaInv'
BY KeyFirstKeeps DEF PruneKey

LEMMA UserKeyKeeps ==
  ASSUME TypeInv, TypeInv', MediaInv, NEW r \in Requests, UserKey(r) PROVE MediaInv'
BY KeyFirstKeeps DEF UserKey

LEMMA PruneDoneKeeps ==
  ASSUME TypeInv, TypeInv', MediaInv, NEW r \in Requests, PruneDone(r) PROVE MediaInv'
<1>1. PICK l : l = loc[r]
  OBVIOUS
<1>2. Go(r, "ok") /\ UNCHANGED loc /\ Read /\ pc[r] = "pruneNext" /\ Sound("pruneNext", l)
  BY <1>1, RequestFacts DEF PruneDone
<1>3. l.op = "prune"
  BY <1>2 DEF Sound, RightOp
<1>4. Sound("ok", l)
  BY <1>2, <1>3 DEF Sound, RightOp, RightKeys, Starting, Unwinding
<1>5. Sound("ok", l)' /\ faults <= faults'
  BY <1>2, <1>4, SoundStays, RequestFacts DEF Read, Quiet
<1> QED BY <1>1, <1>2, <1>3, <1>5, OnwardKeeps DEF Read, Ended, Unwinding

LEMMA FindUserKeeps ==
  ASSUME TypeInv, TypeInv', MediaInv, NEW r \in Requests, FindUser(r) PROVE MediaInv'
<1>1. CASE account
  <2>1. PICK l : l = [Blank EXCEPT !.op = "deleteUser", !.keys = OwnedItems]
    OBVIOUS
  <2>2. pc[r] = "idle" /\ Go(r, "userKeys") /\ Keep(r, l) /\ Read
    BY <1>1, <2>1 DEF FindUser
  <2>3. l.op = "deleteUser" /\ l.keys = OwnedItems
    BY <2>1 DEF Blank
  <2>4. Sound("userKeys", l)
    BY <2>3 DEF Sound, RightOp, RightKeys, Starting, Unwinding, OwnedItems
  <2> QED BY <2>2, <2>3, <2>4, ArrivalKeeps
<1> QED BY <1>1, RefuseKeeps DEF FindUser

LEMMA DropUserKeeps ==
  ASSUME TypeInv, TypeInv', MediaInv, NEW r \in Requests, DropUser(r) PROVE MediaInv'
<1>1. CASE account
  <2>1. PICK l : l = loc[r]
    OBVIOUS
  <2>2. /\ DropAccount /\ Go(r, "ok") /\ UNCHANGED loc /\ faults' = faults
        /\ pc[r] = "userKeys" /\ l.keys = {} /\ Sound("userKeys", l) /\ faults \in Nat
    BY <1>1, <2>1, RequestFacts DEF DropUser, Quiet
  <2>3. l.op = "deleteUser"
    BY <2>2 DEF Sound, RightOp
  <2>4. Sound("ok", l)'
    BY <2>2, <2>3 DEF Sound, RightOp, RightKeys, Starting, Unwinding
  <2>5. Writes(r) /\ StoreInv'
    BY <2>1, <2>2, <2>3, StatementsWrites, StatementsStoreInv DEF MediaInv, TypeInv, TypeOK
  <2> QED BY <2>1, <2>2, <2>3, <2>4, <2>5, WriteKeeps DEF Ended, Unwinding
<1> QED BY <1>1, RefuseKeeps DEF DropUser

-----------------------------------------------------------------------------
(* The steps that are nobody's.                                            *)

LEMMA CrashKeeps == ASSUME TypeInv, MediaInv, Crash PROVE MediaInv'
<1>1. PICK S \in SUBSET Requests :
        /\ \A r \in S : pc[r] \notin Ended \cup {"idle"}
        /\ pc' = [r \in Requests |-> IF r \in S THEN "crashed" ELSE pc[r]]
  BY DEF Crash
<1>2. UNCHANGED <<store, loc>> /\ faults' # 0 /\ faults \in Nat
  BY LifecycleAssumption DEF Crash, Fault, TypeInv, TypeOK
<1>3. StoreInv'
  BY <1>2, StatementsStoreInv DEF MediaInv, TypeInv, TypeOK
<1>4. ASSUME NEW r \in Requests PROVE Sound(pc[r], loc[r])'
  <2>1. PICK q, l : q = pc'[r] /\ l = loc[r] /\ l = loc'[r] /\ (q = pc[r] \/ q = "crashed")
    BY <1>1, <1>2
  <2>2. Sound(pc[r], l)
    BY <2>1, RequestFacts
  <2>3. Sound(q, l)'
    BY <1>2, <2>1, <2>2 DEF Sound, RightOp, RightKeys, RightUpload, Starting, Unwinding, store
  <2> QED BY <2>1, <2>3
<1>5. OwnMedia'
  BY <1>2 DEF MediaInv, OwnMedia, Did
<1>6. \A r \in Requests : pc[r] \in {"unwindList", "unwindDelete", "refused", "crashed"} =>
        pc'[r] \in {"unwindList", "unwindDelete", "refused", "crashed"}
  BY <1>1
<1>7. RowsKeepOriginals'
  BY <1>2, <1>6 DEF MediaInv, RowsKeepOriginals, Did, store
<1>8. NoOrphanInLiveAlbum'
  BY <1>2 DEF NoOrphanInLiveAlbum
<1>9. Survives'
  <2>1. \A r \in Requests :
          /\ pc'[r] \in {"touchAlbum", "ok"} => pc[r] = pc'[r]
          /\ pc[r] \in {"refused", "crashed"} => pc'[r] = pc[r]
    BY <1>1 DEF Ended
  <2> QED BY <1>2, <2>1 DEF MediaInv, Survives, Excused, Did, store
<1> QED BY <1>3, <1>4, <1>5, <1>7, <1>8, <1>9 DEF MediaInv, SoundInv

\* Time passes, or nothing happens.
LEMMA PassKeeps ==
  ASSUME TypeInv, MediaInv, UNCHANGED <<pc, loc, faults>>, Tick \/ UNCHANGED store PROVE MediaInv'
<1>1. UNCHANGED <<albums, rows, home, blobs, minted>> /\ lapsed \subseteq lapsed'
  BY DEF Tick, store
<1>2. StoreInv'
  BY StatementsStoreInv DEF MediaInv, TypeInv, TypeOK
<1>3. ASSUME NEW r \in Requests PROVE Sound(pc[r], loc[r])'
  <2>1. PICK q, l : q = pc[r] /\ l = loc[r] /\ q = pc'[r] /\ l = loc'[r]
    OBVIOUS
  <2>2. Sound(q, l)
    BY <2>1, RequestFacts
  <2>3. Sound(q, l)'
    BY <1>1, <2>2 DEF Sound, RightOp, RightKeys, RightUpload
  <2> QED BY <2>1, <2>3
<1>4. OwnMedia' /\ NoOrphanInLiveAlbum'
  BY <1>1 DEF MediaInv, OwnMedia, NoOrphanInLiveAlbum, Did
<1>5. RowsKeepOriginals'
  BY <1>1 DEF MediaInv, RowsKeepOriginals, Did
<1>6. Survives'
  BY <1>1 DEF MediaInv, Survives, Excused, Did
<1> QED BY <1>2, <1>3, <1>4, <1>5, <1>6 DEF MediaInv, SoundInv

LEMMA MediaInit == Init => MediaInv
<1> SUFFICES ASSUME Init PROVE MediaInv
  OBVIOUS
<1>1. /\ StoreInit /\ faults = 0
      /\ \A r \in Requests : pc[r] = "idle" /\ loc[r] = Blank /\ loc[r].op = "none" /\ loc[r].keys = {}
  BY DEF Init, Blank
<1>2. blobs = rows /\ rows \subseteq Media /\ albums \subseteq Albums
  BY <1>1, TypeInit DEF StoreInit, TypeInv, TypeOK, StoreTypeOK
<1>3. StoreInv
  BY <1>1, <1>2, StoreAssumption DEF StoreInit, StoreInv
<1>4. SoundInv
  BY <1>1 DEF SoundInv, Sound, RightOp, RightKeys, Starting, Unwinding
<1>5. OwnMedia /\ Survives
  BY <1>1 DEF OwnMedia, Survives, Did
<1>6. RowsKeepOriginals /\ NoOrphanInLiveAlbum
  BY <1>2 DEF RowsKeepOriginals, NoOrphanInLiveAlbum
<1> QED BY <1>3, <1>4, <1>5, <1>6 DEF MediaInv

LEMMA MediaStep == TypeInv /\ MediaInv /\ [Next]_vars => MediaInv'
<1> SUFFICES ASSUME TypeInv, MediaInv, [Next]_vars PROVE MediaInv'
  OBVIOUS
<1>1. TypeInv'
  BY TypeStep
<1>2. ASSUME NEW r \in Requests, Uploading(r) PROVE MediaInv'
  <2>1. CASE CountItems(r)
    BY <1>1, <2>1, FailedKeeps DEF CountItems
  <2>2. CASE RejectFile(r)
    BY <1>1, <2>2, FailedKeeps DEF RejectFile
  <2> QED BY <1>1, <1>2, <2>1, <2>2, AdmitKeeps, OpenAlbumKeeps, MakeAlbumKeeps, StoreFileKeeps,
             InsertRowKeeps, LoseCommitKeeps, RollbackKeeps, UnwindListKeeps, UnwindDeleteKeeps
          DEF Uploading
<1>3. ASSUME NEW r \in Requests, Editing(r) PROVE MediaInv'
  BY <1>1, <1>3, TouchAlbumKeeps, EditKeeps, SetExpiryKeeps, WriteExpiryKeeps DEF Editing
<1>4. ASSUME NEW r \in Requests, Deleting(r) PROVE MediaInv'
  BY <1>1, <1>4, FindMediaKeeps, CheckAlbumKeeps, DeleteRowKeeps, CleanKeyKeeps, CleanedKeeps,
     CountLeftKeeps, DeleteEmptyKeeps, FindAlbumKeeps, SelectRowsKeeps, DeleteAlbumRowKeeps
  DEF Deleting
<1>5. ASSUME NEW r \in Requests, Pruning(r) PROVE MediaInv'
  BY <1>1, <1>5, ListExpiredKeeps, PruneNextKeeps, PruneKeyKeeps, PruneAlbumKeeps, PruneDoneKeeps
  DEF Pruning
<1>6. ASSUME NEW r \in Requests, Closing(r) PROVE MediaInv'
  BY <1>1, <1>6, FindUserKeeps, UserKeyKeeps, DropUserKeeps DEF Closing
<1>7. CASE Crash
  BY <1>7, CrashKeeps
<1>8. CASE Pass
  BY <1>8, PassKeeps DEF Pass
<1>9. CASE UNCHANGED vars
  BY <1>9, PassKeeps DEF vars
<1> QED BY <1>2, <1>3, <1>4, <1>5, <1>6, <1>7, <1>8, <1>9 DEF Next

-----------------------------------------------------------------------------
(* What follows for every execution.                                       *)

\* A visible row has its object, but for prune, account deletion and a lost
\* commit: delete_media, delete_album and upload never break a shown item.
THEOREM RowsServed == Spec => []RowsKeepOriginals
<1>1. MediaInv => RowsKeepOriginals
  BY DEF MediaInv
<1> QED BY <1>1, TypeInit, TypeStep, MediaInit, MediaStep, PTL DEF Spec

\* Without a fault, no interleaving of the handlers of service.py leaks the
\* object of an album that still stands.
THEOREM NothingLeaked == Spec => []NoOrphanInLiveAlbum
<1>1. MediaInv => NoOrphanInLiveAlbum
  BY DEF MediaInv
<1> QED BY <1>1, TypeInit, TypeStep, MediaInit, MediaStep, PTL DEF Spec

\* Without a fault, an upload that is refused has undone what it did.
THEOREM RefusalLeavesNothing == Spec => []RefusedUploadLeavesNothing
<1>1. MediaInv => RefusedUploadLeavesNothing
  BY DEF MediaInv, SoundInv, Sound, RightUpload, RefusedUploadLeavesNothing, Did
<1> QED BY <1>1, TypeInit, TypeStep, MediaInit, MediaStep, PTL DEF Spec

\* What upload answered 201 for is there until one of the listed deletions,
\* whatever else crashes, fails or runs in between.
THEOREM AckedSurvives == Spec => []AckedUploadSurvives
<1>1. MediaInv => AckedUploadSurvives
  BY DEF MediaInv, Survives, Excused, AckedUploadSurvives, Did
<1> QED BY <1>1, TypeInit, TypeStep, MediaInit, MediaStep, PTL DEF Spec
=============================================================================
