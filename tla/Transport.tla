----------------------------- MODULE Transport -----------------------------
(***************************************************************************)
(* The benchmark's own listeners (transport.cpp) and the loop that         *)
(* measures them (benchSnapshot of firebase_ffi.dart): a snapshot is built *)
(* and posted by a detached thread, the isolate reads it and goes on with  *)
(* the next, and the listener is dropped at the end.                       *)
(***************************************************************************)
EXTENDS Integers, FiniteSets

CONSTANTS
  Iterations   \* the snapshots of one run, the warm-up included

ASSUME TransportAssumption == Iterations \in Nat

Copying == {TRUE, FALSE}

VARIABLES
  copying,   \* which way the run posts: a copy, or the buffer itself
  handle,    \* the entry of the run in g_listeners: none, listed, erased
  benchPort, \* the port of the run: none, open, closed
  emitted,   \* the snapshots asked for
  threads,   \* the detached threads, by snapshot, that have not posted
  message,   \* the snapshot on the port, or 0
  samples,   \* the snapshots measured
  buffer     \* per snapshot, its allocation: none, native, vm, freed, leaked

trVars == <<copying, handle, benchPort, emitted, threads, message, samples, buffer>>

TrInit ==
  /\ copying \in Copying
  /\ handle = "none" /\ benchPort = "none"
  /\ emitted = 0 /\ threads = {} /\ message = 0 /\ samples = {}
  /\ buffer = [i \in 1..Iterations |-> "none"]

\* Caller holds nothing: the map has a lock of its own.
PortFor == handle = "listed"

BenchListen ==
  /\ handle = "none"
  /\ handle' = "listed" /\ benchPort' = "open"
  /\ UNCHANGED <<copying, emitted, threads, message, samples, buffer>>

\* Mutated form: the next snapshot does not wait for the last.
GoesOn == TRUE

\* "Each emission is awaited before the next."
Awaited == Cardinality(samples) = emitted

\* A thread is started with the port of the listener; with no listener nothing
\* happens.
fdb_emit_snapshot ==
  /\ benchPort = "open" /\ emitted < Iterations /\ Awaited
  /\ emitted' = emitted + 1
  /\ threads' = IF PortFor THEN threads \cup {emitted + 1} ELSE threads
  /\ UNCHANGED <<copying, handle, benchPort, message, samples, buffer>>

\* BuildSnapshot: one allocation, a header and the payload.
BuildSnapshot(i) == buffer[i] = "none"

\* Mutated form: the buffer that was copied stays.
OwnerAfterCopyAndKeep == "native"

\* "The VM copied; this side still owns it."
OwnerAfterCopy == "freed"

\* On the thread: the copy is the VM's and the buffer is freed here; or the
\* buffer itself is the VM's, if the port is still open.
Post(i) ==
  /\ i \in threads /\ BuildSnapshot(i) /\ message = 0
  /\ threads' = threads \ {i}
  /\ message' = IF benchPort = "open" THEN i ELSE 0
  /\ buffer' = [buffer EXCEPT ![i] =
       IF copying THEN OwnerAfterCopy
       ELSE IF benchPort = "open" THEN "vm" ELSE "leaked"]
  /\ UNCHANGED <<copying, handle, benchPort, emitted, samples>>

\* The latency is taken from the header, and the wait is over.
Sample ==
  /\ message # 0 /\ benchPort = "open"
  /\ samples' = samples \cup {message}
  /\ buffer' = [buffer EXCEPT ![message] = IF @ = "vm" THEN "freed" ELSE @]
  /\ message' = 0
  /\ UNCHANGED <<copying, handle, benchPort, emitted, threads>>

\* The end of the run: the port is closed and the listener dropped.
fdb_unlisten ==
  /\ benchPort = "open" /\ emitted = Iterations /\ Awaited
  /\ benchPort' = "closed" /\ handle' = "erased"
  /\ UNCHANGED <<copying, emitted, threads, message, samples, buffer>>

TrNext ==
  \/ BenchListen \/ fdb_emit_snapshot \/ Sample \/ fdb_unlisten
  \/ \E i \in 1..Iterations : Post(i)

-----------------------------------------------------------------------------
TrTypeOK ==
  /\ copying \in BOOLEAN /\ emitted \in 0..Iterations /\ message \in 0..Iterations
  /\ threads \subseteq 1..Iterations /\ samples \subseteq 1..Iterations
  /\ handle \in {"none", "listed", "erased"}
  /\ benchPort \in {"none", "open", "closed"}

\* The run measures the delivery of one snapshot at a time: never two under way,
\* and when it is over every one was measured and every buffer is freed.
MeasuresDelivery ==
  /\ Cardinality(threads \cup ({message} \ {0})) <= 1
  /\ benchPort = "closed" => /\ samples = 1..Iterations
                             /\ \A i \in 1..Iterations : buffer[i] = "freed"
=============================================================================
