----------------------------- MODULE Catalogue ------------------------------
(***************************************************************************)
(* What the library promises its visitors, with no requests, storage or    *)
(* failures in sight: an album opens once and closes once, an item is      *)
(* listed once, in an album that is open, and a closed album takes all its *)
(* items with it in the same instant.  Nothing that was taken down comes   *)
(* back.                                                                   *)
(***************************************************************************)
CONSTANTS Albums, Media, NoAlbum

VARIABLES
  shelf,   \* each album: "none", then "open", then "closed"
  item,    \* each item: "none", then "listed", then "removed"
  place    \* the album each item was listed in

catalogue == <<shelf, item, place>>

Init ==
  /\ shelf \in [Albums -> {"none", "open"}]
  /\ item \in [Media -> {"none", "listed"}]
  /\ place \in [Media -> Albums \cup {NoAlbum}]
  /\ \A m \in Media :
       IF item[m] = "listed" THEN place[m] \in Albums /\ shelf[place[m]] = "open"
                             ELSE place[m] = NoAlbum

Open(a) ==
  /\ shelf[a] = "none"
  /\ shelf' = [shelf EXCEPT ![a] = "open"]
  /\ UNCHANGED <<item, place>>

List(m, a) ==
  /\ shelf[a] = "open"
  /\ item[m] = "none"
  /\ item' = [item EXCEPT ![m] = "listed"]
  /\ place' = [place EXCEPT ![m] = a]
  /\ UNCHANGED shelf

Remove(m) ==
  /\ item[m] = "listed"
  /\ item' = [item EXCEPT ![m] = "removed"]
  /\ UNCHANGED <<shelf, place>>

\* One album, or all the albums of a deleted account.
Close(S) ==
  /\ \A a \in S : shelf[a] = "open"
  /\ shelf' = [a \in Albums |-> IF a \in S THEN "closed" ELSE shelf[a]]
  /\ item' = [m \in Media |->
       IF item[m] = "listed" /\ place[m] \in S THEN "removed" ELSE item[m]]
  /\ UNCHANGED place

Next ==
  \/ \E a \in Albums : Open(a)
  \/ \E m \in Media, a \in Albums : List(m, a)
  \/ \E m \in Media : Remove(m)
  \/ \E S \in SUBSET Albums : Close(S)

Spec == Init /\ [][Next]_catalogue
=============================================================================
