--------------------------- MODULE InFlightProofs ---------------------------
(***************************************************************************)
(* Proofs about InFlight, for every set of operations: no call destroys a  *)
(* reference the SDK is still at work on, and every call destroys those it *)
(* is done with, but for the downloads that succeeded.                     *)
(***************************************************************************)
EXTENDS InFlight, TLAPS

USE InFlightAssumption DEF StorageKinds, Stages, SameList, Move

\* The invariant holds when nothing has been started.
LEMMA InitInv == Init => IInv
  BY DEF Init, IInv, TypeOK, KeptInv

\* A call prunes its list of what is done, and adds an operation that was not
\* started before: nothing it prunes is one the SDK is at work on.
LEMMA RetainStep ==
  ASSUME IInv, NEW o \in Ops, NEW to \in {"running", "refused"},
         Move(o, "none", to), Retain(o), UNCHANGED <<kind, failed, done>>
  PROVE  IInv'
<1> DEFINE over == {q \in SameList(o) : done[q]}
<1>1. list' = (list \ over) \cup {o} /\ freed' = freed \cup over
  BY DEF Retain
<1>2. stage[o] = "none" /\ o \notin list /\ o \notin freed /\ o \notin over
  BY DEF IInv, KeptInv
<1>3. over \subseteq list /\ \A q \in over : done[q]
  OBVIOUS
<1>. HIDE DEF over
<1>4. TypeOK'
  BY <1>1, <1>2, <1>3 DEF IInv, TypeOK
<1>5. KeptInv'
  <2>. SUFFICES ASSUME NEW q \in Ops PROVE
          /\ stage'[q] = "none" => q \notin list' /\ q \notin freed'
          /\ stage'[q] \in {"running", "completing", "answered"} =>
                q \in list' /\ q \notin freed'
          /\ stage'[q] \in {"none", "running", "completing", "answered"} =>
                ~done'[q]
          /\ (stage'[q] \in {"unwinding", "gone"}
                /\ (kind'[q] = "get" => failed'[q])) => done'[q]
    BY DEF KeptInv
  <2>1. CASE q = o
    BY <2>1, <1>1, <1>2 DEF IInv, TypeOK, KeptInv
  <2>2. CASE q # o
    <3>1. stage'[q] = stage[q] /\ (q \in list' <=> q \in list /\ q \notin over)
          /\ (q \in freed' <=> q \in freed \/ q \in over)
      BY <2>2, <1>1 DEF IInv, TypeOK
    <3>. QED
      BY <3>1, <1>3 DEF IInv, KeptInv
  <2>. QED
    BY <2>1, <2>2
<1>. QED
  BY <1>4, <1>5 DEF IInv

\* A step of the SDK's thread moves its own operation on and no list.
LEMMA CompletionStep ==
  ASSUME IInv, NEW o \in Ops, Completion(o)
  PROVE  IInv'
<1>1. CASE Complete(o)
  BY <1>1 DEF Complete, IInv, TypeOK, KeptInv
<1>2. CASE Answer(o)
  BY <1>2 DEF Answer, IInv, TypeOK, KeptInv
<1>3. CASE SetDone(o)
  BY <1>3 DEF SetDone, IInv, TypeOK, KeptInv
<1>4. CASE Unwind(o)
  BY <1>4 DEF Unwind, IInv, TypeOK, KeptInv
<1>. QED
  BY <1>1, <1>2, <1>3, <1>4 DEF Completion

\* Every step preserves the invariant.
LEMMA StepInv == IInv /\ [Next]_vars => IInv'
<1>. SUFFICES ASSUME IInv, [Next]_vars PROVE IInv'
  OBVIOUS
<1>1. ASSUME NEW o \in Ops, StartStorage(o) \/ PutRefused(o) \/ StartCall(o)
      PROVE  IInv'
  BY <1>1, RetainStep DEF StartStorage, PutRefused, StartCall
<1>2. ASSUME NEW o \in Ops, Completion(o) PROVE IInv'
  BY <1>2, CompletionStep
<1>3. CASE Quiet \/ UNCHANGED vars
  BY <1>3 DEF Quiet, vars, IInv, TypeOK, KeptInv
<1>. QED
  BY <1>1, <1>2, <1>3 DEF Next

\* The inductive invariant of the lists, the flags and the SDK's threads
\* (Retain and the completion callbacks of storage_impl.cpp and
\* functions_impl.cpp) holds in every state.
THEOREM Invariance == Spec => []IInv
<1>. QED
  BY InitInv, StepInv, PTL DEF Spec

\* "The StorageReference that starts an operation has to outlive it": no call,
\* whatever it sweeps, destroys a reference whose callback has not answered.
THEOREM ReferencesOutliveRequests == Spec => []RefOutlivesRequest
<1>1. IInv => RefOutlivesRequest
  BY DEF IInv, KeptInv, RefOutlivesRequest
<1>. QED
  BY <1>1, Invariance, PTL

\* Every call releases the references of the operations in its list that are
\* over, but for a download that succeeded: fdb_storage_get's callback does
\* not set `done` then.
THEOREM FinishedReferencesAreReleased == Spec => OthersAreReleased
<1> DEFINE Released ==
      \A o \in Ops :
        (stage[o] = "none" /\ stage'[o] # "none") =>
           \A q \in SameList(o) :
              (stage[q] = "gone" /\ (kind[q] = "get" => failed[q]))
                 => q \in freed'
<1>1. IInv /\ [Next]_vars => [Released]_vars
  <2>. SUFFICES ASSUME IInv, Next PROVE Released
    BY DEF vars
  <2>. SUFFICES ASSUME NEW o \in Ops, stage[o] = "none", stage'[o] # "none",
                       NEW q \in SameList(o), stage[q] = "gone",
                       kind[q] = "get" => failed[q]
                PROVE  q \in freed'
    OBVIOUS
  <2>1. q \in Ops /\ done[q]
    BY DEF IInv, TypeOK, KeptInv
  <2>2. Retain(o)
    <3>1. ASSUME NEW r \in Ops, Completion(r) PROVE stage'[o] = stage[o]
      BY <3>1 DEF Completion, Complete, Answer, SetDone, Unwind, IInv, TypeOK
    <3>2. ASSUME NEW r \in Ops,
                 StartStorage(r) \/ PutRefused(r) \/ StartCall(r)
          PROVE  r = o /\ Retain(r)
      BY <3>2 DEF StartStorage, PutRefused, StartCall, IInv, TypeOK
    <3>3. ~Quiet
      BY DEF Quiet, vars
    <3>. QED
      BY <3>1, <3>2, <3>3 DEF Next
  <2>. QED
    BY <2>1, <2>2 DEF Retain
<1>. QED
  BY <1>1, Invariance, PTL DEF Spec, OthersAreReleased
=============================================================================
