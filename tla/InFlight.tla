------------------------------ MODULE InFlight ------------------------------
(***************************************************************************)
(* The references that Storage and Functions keep alive while the SDK      *)
(* works on them: g_inflight in storage_impl.cpp, g_calls in               *)
(* functions_impl.cpp.                                                     *)
(*                                                                         *)
(* "The SDK runs the request on a std::thread bound to that reference's    *)
(* internal, so a reference destroyed while its request is in flight       *)
(* leaves that thread locking a mutex in freed memory".  The reference is  *)
(* therefore kept in a list; the completion sets `done`, and the next call *)
(* destroys the references of the operations that are done.                *)
(***************************************************************************)
EXTENDS Integers, FiniteSets

CONSTANTS
  Ops,          \* the operations that are started, each once
  Kinds         \* which of the kinds below they are

\* put copies its bytes; simple is delete, metadata and download URL.
StorageKinds == {"put", "get", "simple"}

ASSUME InFlightAssumption ==
  /\ IsFiniteSet(Ops) /\ Ops # {}
  /\ Kinds \subseteq StorageKinds \cup {"call"}

\* Where the SDK's thread is with an operation: on the request ("running"), in
\* the completion callback ("completing", then "answered" once it has posted),
\* on its way out of it ("unwinding"), or finished with it ("gone"); or the
\* operation was never started ("refused").
Stages == {"none", "running", "completing", "answered", "unwinding", "gone",
           "refused"}
InSdk  == {"running", "completing", "answered", "unwinding"}

VARIABLES
  kind,     \* per operation, what it is
  stage,    \* per operation, where the SDK's thread is
  failed,   \* per operation, the SDK completed it with an error
  list,     \* the operations in g_inflight and g_calls
  done,     \* per operation, its atomic flag
  freed     \* the operations whose reference has been destroyed

vars == <<kind, stage, failed, list, done, freed>>

Init ==
  /\ kind \in [Ops -> Kinds]
  /\ stage = [o \in Ops |-> "none"]
  /\ failed = [o \in Ops |-> FALSE]
  /\ list = {}
  /\ done = [o \in Ops |-> FALSE]
  /\ freed = {}

Move(o, from, to) == stage[o] = from /\ stage' = [stage EXCEPT ![o] = to]

\* Storage and Functions each have a list of their own.
SameList(o) == {q \in list : (kind[q] = "call") <=> (kind[o] = "call")}

-----------------------------------------------------------------------------
(* Mutated forms, each a slip the code could have. *)

\* The list is cleared, done or not.
RetainAndClear(o) ==
  LET over == SameList(o) IN
  /\ list' = (list \ over) \cup {o}
  /\ freed' = freed \cup over

\* Nothing is pruned.
RetainAll(o) ==
  /\ list' = list \cup {o}
  /\ UNCHANGED freed

-----------------------------------------------------------------------------
(* The calls, each under the file's g_mutex. *)

\* Retain, and the same lines in fdb_functions_call: the references of the
\* operations that are done are destroyed, and the new one is kept.
Retain(o) ==
  LET over == {q \in SameList(o) : done[q]} IN
  /\ list' = (list \ over) \cup {o}
  /\ freed' = freed \cup over

\* fdb_storage_put, _get, _delete, _metadata and _download_url.
StartStorage(o) ==
  /\ kind[o] \in StorageKinds
  /\ Move(o, "none", "running")
  /\ Retain(o)
  /\ UNCHANGED <<kind, failed, done>>

\* fdb_storage_put has no memory for the copy: -3, and the reference it has
\* retained stays in the list.
PutRefused(o) ==
  /\ kind[o] = "put"
  /\ Move(o, "none", "refused")
  /\ Retain(o)
  /\ UNCHANGED <<kind, failed, done>>

\* fdb_functions_call.
StartCall(o) ==
  /\ kind[o] = "call"
  /\ Move(o, "none", "running")
  /\ Retain(o)
  /\ UNCHANGED <<kind, failed, done>>

-----------------------------------------------------------------------------
(* The SDK's thread. *)

\* The SDK completes the operation, one way or the other.
Complete(o) ==
  /\ Move(o, "running", "completing")
  /\ failed' \in {failed, [failed EXCEPT ![o] = TRUE]}
  /\ UNCHANGED <<kind, list, done, freed>>

\* The callback posts the answer, or the reason.
Answer(o) ==
  /\ Move(o, "completing", "answered")
  /\ UNCHANGED <<kind, failed, list, done, freed>>

\* done->store(true), the callback's last step: but a download that succeeds
\* does not get to it.
SetDone(o) ==
  /\ Move(o, "answered", "unwinding")
  /\ done' = [done EXCEPT ![o] = kind[o] # "get" \/ failed[o]]
  /\ UNCHANGED <<kind, failed, list, freed>>

\* The thread leaves the callback, and the reference's internals.
Unwind(o) ==
  /\ Move(o, "unwinding", "gone")
  /\ UNCHANGED <<kind, failed, list, done, freed>>

-----------------------------------------------------------------------------

Quiet ==
  /\ \A o \in Ops : stage[o] \in {"gone", "refused"}
  /\ UNCHANGED vars

Completion(o) == Complete(o) \/ Answer(o) \/ SetDone(o) \/ Unwind(o)

Next ==
  \/ \E o \in Ops : \/ StartStorage(o) \/ PutRefused(o) \/ StartCall(o)
                    \/ Completion(o)
  \/ Quiet

Spec == Init /\ [][Next]_vars

-----------------------------------------------------------------------------
(* Properties. *)

TypeOK ==
  /\ kind \in [Ops -> Kinds]
  /\ stage \in [Ops -> Stages]
  /\ failed \in [Ops -> BOOLEAN] /\ done \in [Ops -> BOOLEAN]
  /\ list \subseteq Ops /\ freed \subseteq Ops /\ list \cap freed = {}

\* "The StorageReference that starts an operation has to outlive it": until
\* the callback has answered, whatever else is called, it is kept.
RefOutlivesRequest ==
  \A o \in Ops : stage[o] \in {"running", "completing", "answered"} =>
                    o \in list /\ o \notin freed

\* "destroying the reference inside its own completion would free the internal
\* the completing thread is still unwinding through", so it is not destroyed
\* before that thread has left it.
RefOutlivesUnwinding == \A o \in Ops : stage[o] = "unwinding" => o \notin freed

\* "each operation gets a heap-allocated reference that lives until it
\* finishes": a call keeps no reference of an operation that finished before.
FinishedIsReleased ==
  [][\A o \in Ops :
       (stage[o] = "none" /\ stage'[o] # "none") =>
          \A q \in SameList(o) : stage[q] = "gone" => q \in freed']_vars

\* So it is for every operation but a download that succeeded.
OthersAreReleased ==
  [][\A o \in Ops :
       (stage[o] = "none" /\ stage'[o] # "none") =>
          \A q \in SameList(o) :
             (stage[q] = "gone" /\ (kind[q] = "get" => failed[q]))
                => q \in freed']_vars

-----------------------------------------------------------------------------
(* The inductive invariant. *)

\* An operation that was not started is in no list; one the SDK is at work on
\* is kept and not done, and only a download that succeeded ends undone.
KeptInv ==
  \A o \in Ops :
    /\ stage[o] = "none" => o \notin list /\ o \notin freed
    /\ stage[o] \in {"running", "completing", "answered"} =>
          o \in list /\ o \notin freed
    /\ stage[o] \in {"none", "running", "completing", "answered"} => ~done[o]
    /\ (stage[o] \in {"unwinding", "gone"} /\ (kind[o] = "get" => failed[o]))
          => done[o]

IInv == TypeOK /\ KeptInv
=============================================================================
