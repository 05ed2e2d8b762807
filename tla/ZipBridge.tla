------------------------------ MODULE ZipBridge ------------------------------
(***************************************************************************)
(* An archive download: zipstream pulls the items of a listing one after   *)
(* the other, each through an AsyncIterableBridge, that is a thread of its *)
(* own that reads the object and a bounded queue to hand chunks over.  The *)
(* client may leave at any time.                                           *)
(***************************************************************************)
EXTENDS Integers, Sequences, SequencesExt, FiniteSets

CONSTANTS
  Objects,    \* storage keys
  Chunks,     \* chunks of an object (bound)
  Cap         \* max_queue_size

ASSUME BridgeAssumption == Chunks \in Nat \ {0} /\ Cap \in Nat \ {0}

VARIABLES
  stored,     \* objects in storage
  listing,    \* objects of the archive
  at,         \* the one the archive is at
  client,     \* none, waiting (queue.get), done, broken or left
  thread,     \* the producer: off, open, read, put, closing, last, over
  reads,      \* chunks it has read
  last,       \* what it will say at the end: END or an error
  fifo,       \* the queue
  stopped,    \* the event of that name
  got         \* history: chunks the client received, as <<place, chunk>>

zipVars == <<stored, listing, at, client, thread, reads, last, fifo, stopped, got>>

END == <<"end", 0>>
ERROR == <<"error", 0>>

ZipTypeOK ==
  /\ stored \subseteq Objects
  /\ client \in {"none", "waiting", "done", "broken", "left"}
  /\ thread \in {"off", "open", "read", "put", "closing", "last", "over"}
  /\ reads \in 0 .. Chunks
  /\ last \in {END, ERROR}
  /\ Len(fifo) <= Cap
  /\ stopped \in BOOLEAN
  /\ at \in 0 .. Len(listing) + 1

ZipInit ==
  /\ listing = <<>> /\ at = 0
  /\ client = "none" /\ thread = "off"
  /\ reads = 0 /\ last = END /\ fifo = <<>> /\ stopped = FALSE
  /\ got = <<>>

\* The bridge of place n: a fresh queue and a fresh thread, or the end.
Bridge(n, list) ==
  /\ at' = n
  /\ client' = IF n > Len(list) THEN "done" ELSE "waiting"
  /\ thread' = IF n > Len(list) THEN "over" ELSE "open"
  /\ reads' = 0 /\ last' = END /\ fifo' = <<>> /\ stopped' = FALSE

StartArchive(list) ==
  /\ client = "none"
  /\ listing' = list
  /\ Bridge(1, list)
  /\ UNCHANGED <<stored, got>>

-----------------------------------------------------------------------------
(* The producer                                                            *)

Thread(t) == thread' = t /\ UNCHANGED <<stored, listing, at, client, stopped, got>>

\* factory(): get_stream fails for an object that is not there, and is
\* cancelled when the consumer has stopped.
OpenStream ==
  /\ thread = "open"
  /\ \/ listing[at] \in stored /\ Thread("read") /\ UNCHANGED last
     \/ (listing[at] \notin stored \/ stopped) /\ Thread("last") /\ last' = ERROR
  /\ UNCHANGED <<reads, fifo>>

\* The next chunk, the end of the object, or a cancellation that arrived.
ReadChunk ==
  /\ thread = "read"
  /\ \/ reads < Chunks /\ reads' = reads + 1 /\ Thread("put") /\ UNCHANGED last
     \/ reads = Chunks /\ Thread("closing") /\ UNCHANGED <<reads, last>>
     \/ stopped /\ Thread("closing") /\ last' = ERROR /\ UNCHANGED reads
  /\ UNCHANGED fifo

\* Mutant: a failing read ends the object as if it were complete.
BreakQuietly ==
  /\ thread = "read" /\ reads < Chunks
  /\ Thread("closing")
  /\ UNCHANGED <<reads, last, fifo>>

\* The storage fails in the middle of an object.
Break ==
  /\ thread = "read" /\ reads < Chunks
  /\ Thread("closing")
  /\ last' = ERROR
  /\ UNCHANGED <<reads, fifo>>

\* enqueue(chunk), which gives up once the consumer has stopped.
PutChunk ==
  /\ thread = "put"
  /\ \/ Len(fifo) < Cap /\ fifo' = Append(fifo, <<"chunk", reads>>) /\ Thread("read") /\ UNCHANGED last
     \/ stopped /\ Thread("closing") /\ last' = ERROR /\ UNCHANGED fifo
  /\ UNCHANGED reads

\* aclose() is shielded and always finishes.
CloseStream ==
  /\ thread = "closing"
  /\ Thread("last")
  /\ UNCHANGED <<reads, last, fifo>>

PutLast ==
  /\ thread = "last"
  /\ \/ Len(fifo) < Cap /\ fifo' = Append(fifo, last)
     \/ stopped /\ UNCHANGED fifo
  /\ Thread("over")
  /\ UNCHANGED <<reads, last>>

-----------------------------------------------------------------------------
(* The consumer, inside the response                                       *)

GetChunk ==
  /\ client = "waiting" /\ fifo # <<>> /\ Head(fifo) \notin {END, ERROR}
  /\ got' = Append(got, <<at, Head(fifo)[2]>>)
  /\ fifo' = Tail(fifo)
  /\ UNCHANGED <<stored, listing, at, client, thread, reads, last, stopped>>

NextObject ==
  /\ client = "waiting" /\ fifo # <<>> /\ Head(fifo) = END /\ thread = "over"
  /\ Bridge(at + 1, listing)
  /\ UNCHANGED <<stored, listing, got>>

\* The exception of the producer breaks the download off.
Raise ==
  /\ client = "waiting" /\ fifo # <<>> /\ Head(fifo) = ERROR
  /\ client' = "broken" /\ stopped' = TRUE
  /\ fifo' = Tail(fifo)
  /\ UNCHANGED <<stored, listing, at, thread, reads, last, got>>

Leave ==
  /\ client = "waiting"
  /\ client' = "left" /\ stopped' = TRUE
  /\ UNCHANGED <<stored, listing, at, thread, reads, last, fifo, got>>

ZipStep ==
  \/ OpenStream \/ ReadChunk \/ PutChunk \/ CloseStream \/ PutLast
  \/ GetChunk \/ NextObject \/ Raise

-----------------------------------------------------------------------------

\* A download that ends as an archive holds every chunk of every listed item
\* in order, whatever was deleted or failed while it ran; anything else the
\* client sees as a broken transfer.
ArchiveHonest ==
  client = "done" =>
    got = [n \in 1 .. Len(listing) * Chunks |-> <<((n - 1) \div Chunks) + 1, ((n - 1) % Chunks) + 1>>]
=============================================================================
