------------------------ MODULE FsTxnRegistryProofs ------------------------
(***************************************************************************)
(* Proofs about FsTxnRegistry, for any finite set of transactions: the     *)
(* counter stays within the keys whoever begins, and where one isolate     *)
(* begins them all every id finds its own transaction.  With a second      *)
(* isolate that is false: g_next_txn moves outside the lock.               *)
(***************************************************************************)
EXTENDS FsTxnRegistry, FiniteSetTheorems, TLAPS

\* The library is used from one isolate.
OneIsolate == \A i, j \in Isolates : i = j

\* The number of transactions is a number, and bounds that of the counted ones.
LEMMA CountedBound ==
  /\ Cardinality(Txns) \in Nat
  /\ IsFiniteSet(Counted) /\ Cardinality(Counted) \in Nat
  /\ Cardinality(Counted) <= Cardinality(Txns)
<1>1. Counted \in SUBSET Txns /\ IsFiniteSet(Txns)
  BY FsTxnRegistryAssumption DEF Counted
<1>2. IsFiniteSet(Counted) /\ Cardinality(Counted) <= Cardinality(Txns)
  BY <1>1, FS_Subset
<1>. QED
  BY <1>1, <1>2, FS_CardinalityType

\* One more transaction is counted, and there are still enough keys.
LEMMA CountOne ==
  ASSUME NEW t \in Txns, t \notin Counted, Counted' = Counted \cup {t}
  PROVE  /\ Cardinality(Counted') = Cardinality(Counted) + 1
         /\ Cardinality(Counted) + 1 <= Cardinality(Txns)
<1>1. IsFiniteSet(Counted)
  BY CountedBound
<1>2. Cardinality(Counted \cup {t}) = Cardinality(Counted) + 1
  BY <1>1, FS_AddElement
<1>3. (Counted \cup {t}) \in SUBSET Txns /\ IsFiniteSet(Txns)
  BY FsTxnRegistryAssumption DEF Counted
<1>4. Cardinality(Counted \cup {t}) <= Cardinality(Txns)
  BY <1>3, FS_Subset
<1>. QED
  BY <1>2, <1>4

USE FsTxnRegistryAssumption DEF Stages

\* What the counter and the ids may be.
LEMMA KeysAreNumbers ==
  ASSUME TypeOK
  PROVE  /\ g_next_txn \in Nat \ {0} /\ \A t \in Txns : id[t] \in Nat
         /\ Keys = 1..(Cardinality(Txns) + 1) /\ Cardinality(Txns) \in Nat
BY CountedBound DEF TypeOK, Keys

-----------------------------------------------------------------------------
(* The types, with any number of isolates. *)

LEMMA InitType == Init => TypeOK /\ CountInv
<1>. SUFFICES ASSUME Init PROVE TypeOK /\ CountInv
  OBVIOUS
<1>1. 1 \in Keys
  BY CountedBound DEF Keys
<1>2. TypeOK
  BY <1>1 DEF Init, TypeOK
<1>3. CountInv
  BY CountedBound DEF Init, CountInv
<1>. QED
  BY <1>2, <1>3

LEMMA BeginType ==
  ASSUME TypeOK, CountInv, NEW i \in Isolates, Begin(i)
  PROVE  TypeOK' /\ CountInv'
<1>1. ASSUME NEW t \in Txns, BeginEmplace(i, t) PROVE TypeOK' /\ CountInv'
  <2>1. Counted' = Counted
    BY <1>1 DEF BeginEmplace, TypeOK, Counted
  <2>2. TypeOK'
    BY <1>1 DEF BeginEmplace, Emplace, TypeOK
  <2>3. CountInv'
    BY <1>1, <2>1 DEF BeginEmplace, TypeOK, CountInv
  <2>. QED
    BY <2>2, <2>3
<1>2. CASE ReadNextId(i)
  <2> DEFINE t == begins[i]
  <2>1. t \in Txns /\ stage[t] = "emplaced" /\ id' = [id EXCEPT ![t] = g_next_txn]
        /\ stage' = [stage EXCEPT ![t] = "counting"]
    BY <1>2 DEF ReadNextId, TypeOK
  <2>2. Counted' = Counted
    BY <2>1 DEF TypeOK, Counted
  <2>3. TypeOK'
    BY <1>2, <2>1 DEF ReadNextId, TypeOK
  <2>4. CountInv'
    BY <1>2, <2>1, <2>2 DEF ReadNextId, TypeOK, CountInv
  <2>. QED
    BY <2>3, <2>4
<1>3. CASE WriteNextId(i)
  <2> DEFINE t == begins[i]
  <2>1. t \in Txns /\ stage[t] = "counting" /\ g_next_txn' = id[t] + 1
        /\ stage' = [stage EXCEPT ![t] = "parked"]
    BY <1>3 DEF WriteNextId, TypeOK
  <2>2. t \notin Counted /\ Counted' = Counted \cup {t}
    BY <2>1 DEF TypeOK, Counted
  <2>3. Cardinality(Counted') = Cardinality(Counted) + 1
        /\ Cardinality(Counted) + 1 <= Cardinality(Txns)
    BY <2>1, <2>2, CountOne
  <2>4. id[t] <= Cardinality(Counted) + 1 /\ id[t] \in Nat
    BY <2>1, KeysAreNumbers DEF CountInv
  <2>5. g_next_txn' <= Cardinality(Counted') + 1 /\ g_next_txn' \in Keys
    BY <2>1, <2>3, <2>4, CountedBound DEF Keys
  <2>6. TypeOK'
    BY <1>3, <2>1, <2>5 DEF WriteNextId, TypeOK
  <2>7. \A u \in Txns : stage'[u] = "counting" => id'[u] <= Cardinality(Counted') + 1
    <3>. SUFFICES ASSUME NEW u \in Txns, stage'[u] = "counting"
                  PROVE  id'[u] <= Cardinality(Counted') + 1
      OBVIOUS
    <3>1. stage[u] = "counting" /\ id'[u] = id[u]
      BY <1>3, <2>1 DEF WriteNextId, TypeOK
    <3>2. id[u] <= Cardinality(Counted) + 1 /\ id[u] \in Nat
      BY <3>1, KeysAreNumbers DEF CountInv
    <3>. QED
      BY <2>3, <3>1, <3>2, CountedBound
  <2>. QED
    BY <2>5, <2>6, <2>7 DEF CountInv
<1>. QED
  BY <1>1, <1>2, <1>3 DEF Begin

LEMMA EndType ==
  ASSUME TypeOK, CountInv, NEW t \in Txns, Ask(t) \/ Complete(t)
  PROVE  TypeOK' /\ CountInv'
<1>1. TypeOK'
  BY DEF Ask, Complete, TypeOK
<1>2. Counted' = Counted
  BY DEF Ask, Complete, TypeOK, Counted
<1>3. \A u \in Txns : stage'[u] = "counting" => stage[u] = "counting"
  BY DEF Ask, Complete, TypeOK
<1>4. CountInv'
  BY <1>2, <1>3 DEF Ask, Complete, CountInv
<1>. QED
  BY <1>1, <1>4

LEMMA StutterType == TypeOK /\ CountInv /\ UNCHANGED vars => TypeOK' /\ CountInv'
BY DEF TypeOK, CountInv, Counted, vars

LEMMA NextType == TypeOK /\ CountInv /\ [Next]_vars => TypeOK' /\ CountInv'
BY BeginType, EndType, StutterType DEF Next, Quiet

-----------------------------------------------------------------------------
(* One isolate. *)

LEMMA InitInv == Init => IInv
<1>. SUFFICES ASSUME Init PROVE IInv
  OBVIOUS
<1>1. TypeOK /\ CountInv
  BY InitType
<1>2. BeginInv
  BY <1>1, KeysAreNumbers DEF Init, BeginInv
<1>3. HeldInv
  BY DEF Init, HeldInv
<1>. QED
  BY <1>1, <1>2, <1>3 DEF IInv

\* The one isolate begins nothing else while it begins t.
LEMMA BeginsOne ==
  ASSUME OneIsolate, IInv, NEW i \in Isolates
  PROVE  /\ \A j \in Isolates : begins[j] = begins[i]
         /\ \A t \in Txns : stage[t] \in {"emplaced", "counting"} => begins[i] = t
BY DEF OneIsolate, IInv, BeginInv

\* Locked: the key the new state is registered under was free.
LEMMA BeginEmplacePreserves ==
  ASSUME OneIsolate, IInv, NEW i \in Isolates, NEW t \in Txns, BeginEmplace(i, t)
  PROVE  BeginInv' /\ HeldInv'
<1>1. \A j \in Isolates : j = i /\ begins[j] = NoTxn
  BY DEF OneIsolate, BeginEmplace
<1>2. g_txns[g_next_txn] = NoTxn
  BY <1>1 DEF IInv, BeginInv
<1>3. g_txns' = [g_txns EXCEPT ![g_next_txn] = t]
  BY <1>2 DEF BeginEmplace, Emplace
<1>4. /\ g_txns'[g_next_txn] = t
      /\ \A k \in Keys : k # g_next_txn => g_txns'[k] = g_txns[k]
  BY <1>3 DEF IInv, TypeOK
<1>5. /\ begins'[i] = t /\ stage'[t] = "emplaced" /\ stage[t] = "idle"
      /\ \A u \in Txns \ {t} : stage'[u] = stage[u]
      /\ UNCHANGED <<g_next_txn, id, asked>>
  BY DEF BeginEmplace, IInv, TypeOK
<1>6. \A u \in Txns : stage[u] \notin {"emplaced", "counting"}
  BY <1>1 DEF IInv, BeginInv
<1>7. BeginInv'
  <2>1. \A k \in Keys : k > g_next_txn => g_txns'[k] = NoTxn
    BY <1>4, KeysAreNumbers DEF IInv, BeginInv
  <2>. QED
    BY <1>1, <1>4, <1>5, <1>6, <2>1 DEF BeginInv
<1>8. HeldInv'
  <2>1. ASSUME NEW u \in Txns, stage'[u] \in {"parked", "released"}
        PROVE  id'[u] \in 1..(g_next_txn' - 1) /\ g_txns'[id'[u]] = u
    <3>1. id[u] \in 1..(g_next_txn - 1) /\ g_txns[id[u]] = u
      BY <1>5, <2>1 DEF IInv, HeldInv
    <3>2. id[u] \in Keys /\ id[u] # g_next_txn
      BY <3>1, KeysAreNumbers DEF IInv, TypeOK, Keys
    <3>. QED
      BY <1>4, <1>5, <3>1, <3>2
  <2>2. \A u \in Txns : asked'[u] <=> stage'[u] \in {"released", "over"}
    BY <1>5 DEF IInv, HeldInv
  <2>. QED
    BY <2>1, <2>2 DEF HeldInv
<1>. QED
  BY <1>7, <1>8

\* Unlocked: nobody else moves the counter between the read
LEMMA ReadNextIdPreserves ==
  ASSUME OneIsolate, IInv, NEW i \in Isolates, ReadNextId(i)
  PROVE  BeginInv' /\ HeldInv'
<1> DEFINE t == begins[i]
<1>1. /\ t \in Txns /\ stage[t] = "emplaced" /\ t # NoTxn
      /\ stage'[t] = "counting" /\ id'[t] = g_next_txn
      /\ \A u \in Txns \ {t} : stage'[u] = stage[u] /\ id'[u] = id[u]
      /\ UNCHANGED <<g_txns, g_next_txn, begins, asked>>
  BY DEF ReadNextId, IInv, TypeOK
<1>2. \A j \in Isolates : begins[j] = t
  BY BeginsOne
<1>3. BeginInv'
  BY <1>1, <1>2 DEF IInv, BeginInv
<1>4. HeldInv'
  BY <1>1 DEF IInv, HeldInv
<1>. QED
  BY <1>3, <1>4

\* and the write, so the transaction has the key it was registered under.
LEMMA WriteNextIdPreserves ==
  ASSUME OneIsolate, IInv, NEW i \in Isolates, WriteNextId(i)
  PROVE  BeginInv' /\ HeldInv'
<1> DEFINE t == begins[i]
<1>1. /\ t \in Txns /\ stage[t] = "counting" /\ t # NoTxn
      /\ stage'[t] = "parked" /\ g_next_txn' = id[t] + 1
      /\ begins' = [begins EXCEPT ![i] = NoTxn]
      /\ \A u \in Txns \ {t} : stage'[u] = stage[u]
      /\ UNCHANGED <<g_txns, id, asked>>
  BY DEF WriteNextId, IInv, TypeOK
<1>2. id[t] = g_next_txn /\ g_txns[g_next_txn] = t
  BY <1>1 DEF IInv, BeginInv
<1>3. \A u \in Txns : stage'[u] \notin {"emplaced", "counting"}
  BY <1>1, BeginsOne
<1>4. \A j \in Isolates : begins'[j] = NoTxn
  BY <1>1 DEF OneIsolate, IInv, TypeOK
<1>5. g_next_txn' = g_next_txn + 1 /\ g_next_txn' \in Keys
  BY <1>1, <1>2, BeginType DEF IInv, Begin, TypeOK
<1>6. \A k \in Keys : k >= g_next_txn' => g_txns'[k] = NoTxn
  BY <1>1, <1>5, KeysAreNumbers DEF IInv, BeginInv
<1>7. BeginInv'
  BY <1>3, <1>4, <1>5, <1>6, KeysAreNumbers DEF BeginInv, IInv
<1>8. HeldInv'
  <2>1. ASSUME NEW u \in Txns, stage'[u] \in {"parked", "released"}
        PROVE  id'[u] \in 1..(g_next_txn' - 1) /\ g_txns'[id'[u]] = u
    <3>1. CASE u = t
      BY <1>1, <1>2, <1>5, <3>1, KeysAreNumbers DEF IInv
    <3>2. CASE u # t
      <4>1. id[u] \in 1..(g_next_txn - 1) /\ g_txns[id[u]] = u
        BY <1>1, <2>1, <3>2 DEF IInv, HeldInv
      <4>. QED
        BY <1>1, <1>5, <4>1, KeysAreNumbers DEF IInv
    <3>. QED
      BY <3>1, <3>2
  <2>2. \A u \in Txns : asked'[u] <=> stage'[u] \in {"released", "over"}
    BY <1>1 DEF IInv, HeldInv
  <2>. QED
    BY <2>1, <2>2 DEF HeldInv
<1>. QED
  BY <1>7, <1>8

\* An isolate's commit or abort finds the transaction it is for.
LEMMA AskPreserves ==
  ASSUME IInv, NEW t \in Txns, Ask(t)
  PROVE  BeginInv' /\ HeldInv'
<1>1. g_txns[id[t]] = t /\ stage[t] = "parked"
  BY DEF Ask, IInv, HeldInv
<1>2. /\ stage' = [stage EXCEPT ![t] = "released"]
      /\ asked' = [asked EXCEPT ![t] = TRUE]
      /\ UNCHANGED <<g_txns, g_next_txn, begins, id>>
  BY <1>1 DEF Ask
<1>3. stage'[t] = "released" /\ asked'[t]
      /\ \A u \in Txns \ {t} : stage'[u] = stage[u] /\ (asked'[u] <=> asked[u])
  BY <1>2 DEF IInv, TypeOK
<1>4. BeginInv'
  <2>1. \A i \in Isolates : begins[i] # NoTxn => begins[i] \in Txns \ {t}
    BY <1>1 DEF IInv, TypeOK, BeginInv
  <2>. QED
    BY <1>1, <1>2, <1>3, <2>1 DEF IInv, BeginInv
<1>5. HeldInv'
  BY <1>1, <1>2, <1>3 DEF IInv, HeldInv
<1>. QED
  BY <1>4, <1>5

\* What a completion erases is its own entry.
LEMMA CompletePreserves ==
  ASSUME IInv, NEW t \in Txns, Complete(t)
  PROVE  BeginInv' /\ HeldInv'
<1>1. stage[t] = "released" /\ id[t] \in 1..(g_next_txn - 1) /\ g_txns[id[t]] = t
  BY DEF Complete, IInv, HeldInv
<1>2. id[t] \in Keys /\ id[t] < g_next_txn
  BY <1>1, KeysAreNumbers DEF IInv, TypeOK, Keys
<1>3. /\ g_txns'[id[t]] = NoTxn
      /\ \A k \in Keys : k # id[t] => g_txns'[k] = g_txns[k]
      /\ stage'[t] = "over" /\ \A u \in Txns \ {t} : stage'[u] = stage[u]
      /\ UNCHANGED <<g_next_txn, begins, id, asked>>
  BY <1>2 DEF Complete, IInv, TypeOK
<1>4. BeginInv'
  <2>1. \A i \in Isolates : begins[i] # NoTxn => begins[i] \in Txns \ {t}
    BY <1>1 DEF IInv, TypeOK, BeginInv
  <2>2. g_txns'[g_next_txn] = g_txns[g_next_txn]
    BY <1>2, <1>3, KeysAreNumbers DEF IInv, TypeOK
  <2>3. \A k \in Keys : k > g_next_txn => g_txns'[k] = NoTxn
    BY <1>3 DEF IInv, BeginInv
  <2>. QED
    BY <1>1, <1>3, <2>1, <2>2, <2>3 DEF IInv, BeginInv
<1>5. HeldInv'
  <2>1. ASSUME NEW u \in Txns, stage'[u] \in {"parked", "released"}
        PROVE  id'[u] \in 1..(g_next_txn' - 1) /\ g_txns'[id'[u]] = u
    <3>1. u # t /\ id[u] \in 1..(g_next_txn - 1) /\ g_txns[id[u]] = u
      BY <1>3, <2>1 DEF IInv, HeldInv
    <3>2. id[u] \in Keys /\ id[u] # id[t]
      BY <1>1, <3>1, KeysAreNumbers DEF IInv, TypeOK, Keys
    <3>. QED
      BY <1>3, <3>1, <3>2
  <2>2. \A u \in Txns : asked'[u] <=> stage'[u] \in {"released", "over"}
    BY <1>1, <1>3 DEF IInv, HeldInv
  <2>. QED
    BY <2>1, <2>2 DEF HeldInv
<1>. QED
  BY <1>4, <1>5

LEMMA NextPreserves ==
  ASSUME OneIsolate, IInv, [Next]_vars
  PROVE  IInv'
<1>1. TypeOK' /\ CountInv'
  BY NextType DEF IInv
<1>2. CASE UNCHANGED vars
  BY <1>1, <1>2 DEF IInv, BeginInv, HeldInv, vars
<1>3. ASSUME NEW i \in Isolates, Begin(i) PROVE BeginInv' /\ HeldInv'
  BY <1>3, BeginEmplacePreserves, ReadNextIdPreserves, WriteNextIdPreserves DEF Begin
<1>4. ASSUME NEW t \in Txns, Ask(t) \/ Complete(t) PROVE BeginInv' /\ HeldInv'
  BY <1>4, AskPreserves, CompletePreserves
<1>. QED
  BY <1>1, <1>2, <1>3, <1>4 DEF IInv, Next, Quiet

-----------------------------------------------------------------------------

\* The counter never outruns the transactions, nor an id the counter: with any
\* number of isolates, although they race on it.
THEOREM TypeCorrect == Spec => [](TypeOK /\ CountInv)
BY InitType, NextType, PTL DEF Spec

\* The inductive invariant of one isolate's transactions.
THEOREM Invariance ==
  ASSUME OneIsolate PROVE Spec => []IInv
BY InitInv, NextPreserves, PTL DEF Spec

\* While a thread is parked for a transaction, the id that fdb_fs_txn_begin
\* returned finds that transaction.
THEOREM IdsFindTheirTransactions ==
  ASSUME OneIsolate PROVE Spec => []IdFindsItsTransaction
<1>1. IInv => IdFindsItsTransaction
  BY DEF IInv, HeldInv, IdFindsItsTransaction
<1>. QED
  BY <1>1, Invariance, PTL

\* Nobody's commit or abort releases another's thread.
THEOREM ReleasesAreOwn ==
  ASSUME OneIsolate PROVE Spec => []ReleasedByItsOwn
<1>1. IInv => ReleasedByItsOwn
  BY DEF IInv, HeldInv, ReleasedByItsOwn
<1>. QED
  BY <1>1, Invariance, PTL
=============================================================================
