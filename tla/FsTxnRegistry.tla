--------------------------- MODULE FsTxnRegistry ---------------------------
(***************************************************************************)
(* g_txns, where the calls of firestore_impl.cpp's transactions find the   *)
(* TxnState they are for.  Several transactions are under way at once:     *)
(* each isolate begins, commits and aborts its own, and the SDK completes  *)
(* each on a thread of its own.  What one transaction does between begin   *)
(* and completion is FsTransaction; here it is one request, the one that   *)
(* releases the SDK's thread.                                              *)
(***************************************************************************)
EXTENDS Integers, FiniteSets

CONSTANTS
  Isolates,    \* the isolates that call the library
  Txns,        \* the transactions they begin, each once
  NoTxn        \* no transaction: a null state, an isolate in no begin

ASSUME FsTxnRegistryAssumption ==
  /\ IsFiniteSet(Txns) /\ Txns # {} /\ NoTxn \notin Txns
  /\ IsFiniteSet(Isolates) /\ Isolates # {}

\* Where a transaction is: inside fdb_fs_txn_begin ("emplaced", "counting"),
\* "parked" in the update function, "released" from it, or "over".
Stages == {"idle", "emplaced", "counting", "parked", "released", "over"}

\* More keys than g_next_txn can reach.
Keys == 1..(Cardinality(Txns) + 1)

VARIABLES
  g_txns,      \* per key, the transaction whose state is registered under it
  g_next_txn,
  begins,      \* per isolate, the transaction fdb_fs_txn_begin is starting
  stage,       \* per transaction, where it is
  id,          \* per transaction, what fdb_fs_txn_begin returned
  asked        \* per transaction, its isolate has sent its commit or abort

vars == <<g_txns, g_next_txn, begins, stage, id, asked>>

Init ==
  /\ g_txns = [k \in Keys |-> NoTxn]
  /\ g_next_txn = 1
  /\ begins = [i \in Isolates |-> NoTxn]
  /\ stage = [t \in Txns |-> "idle"]
  /\ id = [t \in Txns |-> 0]
  /\ asked = [t \in Txns |-> FALSE]

\* std::unordered_map::emplace: an entry that is there stays.
Emplace(key, t) == IF g_txns[key] = NoTxn THEN [g_txns EXCEPT ![key] = t]
                                          ELSE g_txns

-----------------------------------------------------------------------------
(* Mutated forms, each a slip the code could have. *)

\* The counter is read and never advanced.
WriteNextIdUnchanged(i) ==
  LET t == begins[i] IN
  /\ t # NoTxn /\ stage[t] = "counting"
  /\ stage' = [stage EXCEPT ![t] = "parked"]
  /\ begins' = [begins EXCEPT ![i] = NoTxn]
  /\ UNCHANGED <<g_txns, g_next_txn, id, asked>>

\* The request is recorded and the parked thread is not notified.
AskWithoutNotify(t) ==
  /\ stage[t] = "parked" /\ ~asked[t]
  /\ asked' = [asked EXCEPT ![t] = TRUE]
  /\ UNCHANGED <<g_txns, g_next_txn, begins, id, stage>>

-----------------------------------------------------------------------------
(* fdb_fs_txn_begin.  Only its first step holds g_mutex. *)

\* Locked: the new state is registered under the counter's value.
BeginEmplace(i, t) ==
  /\ begins[i] = NoTxn /\ stage[t] = "idle"
  /\ begins' = [begins EXCEPT ![i] = t]
  /\ g_txns' = Emplace(g_next_txn, t)
  /\ stage' = [stage EXCEPT ![t] = "emplaced"]
  /\ UNCHANGED <<g_next_txn, id, asked>>

\* Unlocked, id = g_next_txn++: the read,
ReadNextId(i) ==
  LET t == begins[i] IN
  /\ t # NoTxn /\ stage[t] = "emplaced"
  /\ id' = [id EXCEPT ![t] = g_next_txn]
  /\ stage' = [stage EXCEPT ![t] = "counting"]
  /\ UNCHANGED <<g_txns, g_next_txn, begins, asked>>

\* and the write.  The SDK parks its thread in the transaction's update
\* function, and the isolate has its id.
WriteNextId(i) ==
  LET t == begins[i] IN
  /\ t # NoTxn /\ stage[t] = "counting"
  /\ g_next_txn' = id[t] + 1
  /\ stage' = [stage EXCEPT ![t] = "parked"]
  /\ begins' = [begins EXCEPT ![i] = NoTxn]
  /\ UNCHANGED <<g_txns, id, asked>>

-----------------------------------------------------------------------------

\* fdb_fs_txn_commit or _abort, through TxnFor: the transaction found under
\* the id is released, whichever it is; when none is found the call returns
\* -1, which its caller ignores.
Ask(t) ==
  LET found == g_txns[id[t]] IN
  /\ stage[t] = "parked" /\ ~asked[t]
  /\ asked' = [asked EXCEPT ![t] = TRUE]
  /\ stage' = IF found # NoTxn /\ stage[found] = "parked"
              THEN [stage EXCEPT ![found] = "released"]
              ELSE stage
  /\ UNCHANGED <<g_txns, g_next_txn, begins, id>>

\* OnCompletion, on the SDK's thread: g_txns.erase(id).
Complete(t) ==
  /\ stage[t] = "released"
  /\ g_txns' = [g_txns EXCEPT ![id[t]] = NoTxn]
  /\ stage' = [stage EXCEPT ![t] = "over"]
  /\ UNCHANGED <<g_next_txn, begins, id, asked>>

\* Every isolate has made its calls, and no thread can move.
Quiet ==
  /\ \A t \in Txns : stage[t] \in {"parked", "over"} /\ asked[t]
  /\ UNCHANGED vars

Begin(i) == (\E t \in Txns : BeginEmplace(i, t)) \/ ReadNextId(i) \/ WriteNextId(i)

Next ==
  \/ \E i \in Isolates : Begin(i)
  \/ \E t \in Txns : Ask(t) \/ Complete(t)
  \/ Quiet

Spec == Init /\ [][Next]_vars

\* A thread inside a call goes on, a handler comes to an end, and the SDK
\* completes what was released.
Fairness ==
  /\ \A i \in Isolates : WF_vars(ReadNextId(i) \/ WriteNextId(i))
  /\ \A t \in Txns : WF_vars(Ask(t)) /\ WF_vars(Complete(t))

FairSpec == Spec /\ Fairness

-----------------------------------------------------------------------------
(* Properties. *)

TypeOK ==
  /\ g_txns \in [Keys -> Txns \cup {NoTxn}]
  /\ g_next_txn \in Keys
  /\ begins \in [Isolates -> Txns \cup {NoTxn}]
  /\ stage \in [Txns -> Stages]
  /\ id \in [Txns -> Keys \cup {0}]
  /\ asked \in [Txns -> BOOLEAN]

\* "fdb_fs_txn_begin starts one and returns its id": while the SDK's thread is
\* parked for a transaction, the id its isolate holds finds that transaction.
IdFindsItsTransaction ==
  \A t \in Txns : stage[t] \in {"parked", "released"} => g_txns[id[t]] = t

\* Nobody releases a transaction but its own isolate.
ReleasedByItsOwn ==
  \A t \in Txns : stage[t] \in {"released", "over"} => asked[t]

\* The transactions whose begin has moved the counter.
Counted == {t \in Txns : stage[t] \notin {"idle", "emplaced", "counting"}}

\* The counter, and what a begin has read of it, are not ahead of the begins.
CountInv ==
  /\ g_next_txn <= Cardinality(Counted) + 1
  /\ \A t \in Txns : stage[t] = "counting" => id[t] <= Cardinality(Counted) + 1

\* What one isolate's begins leave in g_txns: nothing from the counter on, but
\* for the transaction that is being begun.
BeginInv ==
  /\ \A i \in Isolates : begins[i] # NoTxn =>
       /\ stage[begins[i]] \in {"emplaced", "counting"}
       /\ g_txns[g_next_txn] = begins[i]
       /\ stage[begins[i]] = "counting" => id[begins[i]] = g_next_txn
  /\ \A t \in Txns : stage[t] \in {"emplaced", "counting"} =>
       \E i \in Isolates : begins[i] = t
  /\ \A k \in Keys : k > g_next_txn => g_txns[k] = NoTxn
  /\ (\A i \in Isolates : begins[i] = NoTxn) => g_txns[g_next_txn] = NoTxn

\* A transaction that has its id holds it below the counter, finds itself under
\* it, and is released when its isolate asks, not before.
HeldInv ==
  /\ \A t \in Txns : stage[t] \in {"parked", "released"} =>
       id[t] \in 1..(g_next_txn - 1) /\ g_txns[id[t]] = t
  /\ \A t \in Txns : asked[t] <=> stage[t] \in {"released", "over"}

\* The inductive invariant, with one isolate.
IInv == TypeOK /\ CountInv /\ BeginInv /\ HeldInv

\* A transaction that was begun ends: the SDK's thread does not stay parked.
EveryThreadReleased ==
  \A t \in Txns : (stage[t] = "emplaced") ~> (stage[t] = "over")
=============================================================================
