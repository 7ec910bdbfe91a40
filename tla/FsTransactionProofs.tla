------------------------ MODULE FsTransactionProofs ------------------------
(***************************************************************************)
(* Proofs about FsTransaction, for every value of its constants: its       *)
(* inductive invariant, the safety properties that follow from it, and     *)
(* that it implements AtomicTransaction.                                   *)
(***************************************************************************)
EXTENDS FsTransaction, SequenceTheorems, TLAPS

-----------------------------------------------------------------------------
(* The transaction's port holds at most one event. *)

\* What Append leaves of an empty port.
LEMMA EmptyAppend == ASSUME NEW S, NEW s \in Seq(S), Len(s) = 0, NEW e \in S
  PROVE Append(s, e) \in Seq(S) /\ Len(Append(s, e)) = 1 /\ Append(s, e)[1] = e
OBVIOUS

\* What is left of a port that holds one event.
LEMMA SingleTail == ASSUME NEW S, NEW s \in Seq(S), Len(s) <= 1, s # <<>>
  PROVE /\ Len(s) = 1 /\ Head(s) = s[1] /\ s[1] \in S
        /\ Tail(s) \in Seq(S) /\ Len(Tail(s)) = 0
<1>1. Len(s) \in Nat \ {0}
  BY EmptySeq
<1>2. Len(s) = 1
  BY <1>1
<1>3. Head(s) = s[1] /\ s[1] \in S
  BY <1>2
<1>4. Tail(s) \in Seq(S) /\ Len(Tail(s)) = 0
  BY <1>2, HeadTailProperties
<1>. QED
  BY <1>2, <1>3, <1>4

\* The only natural number up to 1 that is not 1.
LEMMA NoOne == ASSUME NEW k \in Nat, k <= 1, k # 1 PROVE k = 0
OBVIOUS

USE FsTransactionAssumption
    DEF Attempts, NotAsked, Asked, Abandoned, Failed, Unread, NoWrites, NoReads,
        Outcomes, RunStates, Requests, SdkStates, InUpdate, InAttempt,
        Post, Settle, Retried, Awaiting,
        dartVars, sharedVars, sdkVars, serverVars

\* The port holds numbers from -1 to MaxAttempts.
LEMMA PortType == ASSUME IInv
  PROVE /\ inbox \in Seq(-1..MaxAttempts) /\ Len(inbox) \in Nat
        /\ Len(inbox) = 1 => inbox[1] \in -1..MaxAttempts
<1>1. inbox \in Seq(-1..MaxAttempts)
  BY DEF IInv, TypeOK
<1>. QED
  BY <1>1

\* An event on the port is the only one.
LEMMA PortHead ==
  ASSUME IInv, inbox # <<>>
  PROVE  /\ Len(inbox) = 1 /\ Head(inbox) = inbox[1]
         /\ inbox[1] \in -1..MaxAttempts
         /\ Tail(inbox) \in Seq(-1..MaxAttempts) /\ Len(Tail(inbox)) = 0
<1>1. Len(inbox) <= 1
  BY DEF IInv, PortInv
<1>. QED
  BY <1>1, PortType, SingleTail

\* Nothing is on the port unless the SDK's thread is parked, or is done with
\* the transaction.
LEMMA EmptyPort == ASSUME IInv, sdk \notin {"parked", "over"}
  PROVE  Len(inbox) = 0
<1>1. Len(inbox) # 1
  BY PortType DEF IInv, PortInv
<1>2. Len(inbox) <= 1
  BY DEF IInv, PortInv
<1>3. Len(inbox) \in Nat
  BY PortType
<1>. QED
  BY <1>1, <1>2, <1>3, NoOne, Zenon

\* What holds while the handler runs: the run is of the current attempt, the
\* SDK's thread waits for it, and it has not ended in the mailbox.
LEMMA Runs ==
  ASSUME IInv, NEW n \in Attempts, run[n] = "running"
  PROVE  /\ n = attempt /\ sdk \in {"parked", "reading"} /\ registered
         /\ req \in {"none", "get"} /\ tookRun = 0
         /\ ~(Len(inbox) = 1)
<1>1. run[n] \notin {"idle", "returned", "threw"}
  OBVIOUS
<1>2. n = attempt
  <2>1. n > attempt \/ n = attempt \/ n < attempt
    BY DEF IInv, TypeOK, Attempts
  <2>. QED
    BY <1>1, <2>1 DEF IInv, RunInv
<1>3. sdk \in InAttempt
  BY <1>1, <1>2 DEF IInv, RunInv, TypeOK
<1>4. sdk \in {"parked", "reading"}
  BY <1>1, <1>2, <1>3 DEF IInv, RunInv
<1>5. registered /\ req \in {"none", "get"}
  BY <1>1, <1>2, <1>4 DEF IInv, MailboxInv, TypeOK
<1>6. tookRun = 0
  BY <1>1, <1>2 DEF IInv, OutcomeInv
<1>7. ~(Len(inbox) = 1)
  <2>1. Len(inbox) = 1 => inbox[1] \in -1..MaxAttempts
    BY PortType
  <2>. QED
  BY <2>1, <1>1, <1>2, <1>4 DEF IInv, PortInv
<1>. QED
  BY <1>2, <1>4, <1>5, <1>6, <1>7

-----------------------------------------------------------------------------
(* Every action preserves the inductive invariant. *)

\* fdb_fs_txn_begin.
LEMMA BeginPreserves ==
  ASSUME IInv, Begin
  PROVE  IInv'
<1>1. TypeOK'
  BY DEF IInv, TypeOK, Begin
<1>2. PortInv'
  BY DEF IInv, PortInv, Begin
<1>3. RunInv'
  BY DEF IInv, RunInv, Begin
<1>4. ReadInv'
  BY DEF IInv, ReadInv, Begin
<1>5. RouteInv'
  BY DEF IInv, RouteInv, Begin
<1>6. MailboxInv'
  BY DEF IInv, MailboxInv, Begin
<1>7. WritesInv'
  BY DEF IInv, WritesInv, Begin
<1>8. ReadsAreGuarded'
  BY DEF IInv, ReadsAreGuarded, Begin
<1>9. OutcomeInv'
  BY DEF IInv, OutcomeInv, Begin
<1>10. AbortInv'
  BY DEF IInv, AbortInv, Begin
<1>. QED
  BY <1>1, <1>2, <1>3, <1>4, <1>5, <1>6, <1>7, <1>8, <1>9, <1>10 DEF IInv

\* fdb_fs_txn_begin without Firestore.
LEMMA BeginRefusedPreserves ==
  ASSUME IInv, BeginRefused
  PROVE  IInv'
<1>1. TypeOK'
  BY DEF IInv, TypeOK, BeginRefused
<1>2. PortInv'
  BY DEF IInv, PortInv, BeginRefused
<1>3. RunInv'
  BY DEF IInv, RunInv, BeginRefused
<1>4. ReadInv'
  BY DEF IInv, ReadInv, BeginRefused
<1>5. RouteInv'
  BY DEF IInv, RouteInv, BeginRefused
<1>6. MailboxInv'
  BY DEF IInv, MailboxInv, BeginRefused
<1>7. WritesInv'
  BY DEF IInv, WritesInv, BeginRefused
<1>8. ReadsAreGuarded'
  BY DEF IInv, ReadsAreGuarded, BeginRefused
<1>9. OutcomeInv'
  BY DEF IInv, OutcomeInv, BeginRefused
<1>10. AbortInv'
  BY DEF IInv, TypeOK, RunInv, AbortInv, BeginRefused
<1>. QED
  BY <1>1, <1>2, <1>3, <1>4, <1>5, <1>6, <1>7, <1>8, <1>9, <1>10 DEF IInv

\* The SDK calls the update function: the port is empty, so the attempt is the
\* only event on it, and no request is left over.
LEMMA EnterUpdatePreserves ==
  ASSUME IInv, EnterUpdate
  PROVE  IInv'
<1>1. /\ sdk = "queued" /\ portOpen /\ registered /\ req = "none"
      /\ attempt \in 0..MaxAttempts /\ attempt + 1 \in Attempts
  <2>1. sdk = "queued"
    BY DEF EnterUpdate
  <2>2. attempt \in 0..MaxAttempts /\ attempt < MaxAttempts
    BY <2>1 DEF IInv, TypeOK, RunInv
  <2>3. portOpen /\ registered /\ req = "none"
    BY <2>1 DEF IInv, PortInv, MailboxInv
  <2>. QED
    BY <2>1, <2>2, <2>3
<1>2. /\ inbox' \in Seq(-1..MaxAttempts) /\ Len(inbox') = 1
      /\ inbox'[1] = attempt + 1 /\ attempt' = attempt + 1
  <2>1. Len(inbox) = 0
    BY <1>1, EmptyPort
  <2>2. inbox' = Append(inbox, attempt + 1) /\ attempt' = attempt + 1
    BY <1>1 DEF EnterUpdate
  <2>3. attempt + 1 \in -1..MaxAttempts
    BY <1>1
  <2>. QED
    BY <2>1, <2>2, <2>3, PortType, EmptyAppend
<1>3. run[attempt + 1] = "idle" /\ run' = run
  BY <1>1 DEF IInv, RunInv, EnterUpdate
<1>4. TypeOK'
  <2>1. staged' \in [Paths -> 0..MaxAttempts] /\ sdkReads' \in [Paths -> Int]
    BY DEF EnterUpdate
  <2>2. attempt' \in 0..MaxAttempts /\ sdk' \in SdkStates
    BY <1>1, <1>2 DEF EnterUpdate
  <2>. QED
    BY <1>2, <2>1, <2>2 DEF IInv, TypeOK, EnterUpdate
<1>5. PortInv'
  BY <1>1, <1>2, <1>3 DEF PortInv, EnterUpdate
<1>6. RunInv'
  BY <1>1, <1>2, <1>3 DEF IInv, RunInv, EnterUpdate
<1>7. MailboxInv'
  BY <1>1, <1>2, <1>3 DEF IInv, MailboxInv, EnterUpdate
<1>8. ReadsAreGuarded'
  BY <1>1, <1>2, <1>3 DEF IInv, ReadInv, ReadsAreGuarded, EnterUpdate
<1>9. ReadInv'
  BY DEF IInv, ReadInv, EnterUpdate
<1>10. RouteInv'
  BY DEF IInv, TypeOK, PortInv, RunInv, MailboxInv, RouteInv, EnterUpdate
<1>11. WritesInv'
  BY DEF IInv, TypeOK, RunInv, WritesInv, EnterUpdate
<1>12. OutcomeInv'
  BY DEF IInv, OutcomeInv, EnterUpdate
<1>13. AbortInv'
  BY DEF IInv, AbortInv, EnterUpdate
<1>. QED
  BY <1>4, <1>5, <1>6, <1>7, <1>8, <1>9, <1>10, <1>11, <1>12, <1>13 DEF IInv

\* The SDK's thread takes a read out of the mailbox.
LEMMA TakeReadPreserves ==
  ASSUME IInv, TakeRead
  PROVE  IInv'
<1>1. TypeOK'
  BY DEF IInv, TypeOK, TakeRead
<1>2. PortInv'
  BY DEF IInv, PortInv, TakeRead
<1>3. RunInv'
  BY DEF IInv, RunInv, TakeRead
<1>4. ReadInv'
  BY DEF IInv, ReadInv, TakeRead
<1>5. RouteInv'
  BY DEF IInv, RouteInv, TakeRead
<1>6. MailboxInv'
  BY DEF IInv, MailboxInv, TakeRead
<1>7. WritesInv'
  BY DEF IInv, WritesInv, TakeRead
<1>8. ReadsAreGuarded'
  BY DEF IInv, ReadsAreGuarded, TakeRead
<1>9. OutcomeInv'
  BY DEF IInv, OutcomeInv, TakeRead
<1>10. AbortInv'
  BY DEF IInv, AbortInv, TakeRead
<1>. QED
  BY <1>1, <1>2, <1>3, <1>4, <1>5, <1>6, <1>7, <1>8, <1>9, <1>10 DEF IInv

\* It answers: only that run's reply to that document changes, and what it
\* says is what this attempt's Transaction read.
LEMMA AnswerReadPreserves ==
  ASSUME IInv, AnswerRead
  PROVE  IInv'
<1>. DEFINE p == serving.path
<1>0. /\ reply \in [Attempts -> [Paths -> Int]]
      /\ sdkReads \in [Paths -> Int]
      /\ docs \in [Paths -> Nat]
  BY DEF IInv, TypeOK
<1>1. /\ sdk = "reading" /\ sdk' = "parked" /\ serving.run = attempt
      /\ attempt \in Attempts /\ p \in Paths
      /\ read' = read /\ run' = run /\ attempt' = attempt
      /\ read[attempt][p] \in {Asked, Abandoned}
      /\ reply[attempt][p] = NotAsked
  BY DEF IInv, TypeOK, RunInv, RouteInv, AnswerRead
<1>2. PICK v \in {Failed} \cup Nat :
         /\ reply' = [reply EXCEPT ![attempt][p] = v]
         /\ v >= 0 => sdkReads' = [sdkReads EXCEPT ![p] = v]
         /\ v < 0 => sdkReads' = sdkReads
  <2>1. CASE /\ sdkReads' = [sdkReads EXCEPT ![p] = docs[p]]
             /\ reply' = [reply EXCEPT ![attempt][p] = docs[p]]
    <3>1. docs[p] \in Nat /\ docs[p] \in {Failed} \cup Nat
      BY <1>0, <1>1
    <3>. USE <3>1
    <3>2. WITNESS docs[p] \in {Failed} \cup Nat
    <3>. QED
      BY <2>1, <3>1
  <2>2. CASE /\ sdkReads' = sdkReads
             /\ reply' = [reply EXCEPT ![attempt][p] = Failed]
    <3>1. WITNESS Failed \in {Failed} \cup Nat
    <3>. QED
      BY <2>2
  <2>. QED
    BY <1>1, <2>1, <2>2 DEF AnswerRead
<1>3. \A n \in Attempts, q \in Paths :
         reply'[n][q] = IF n = attempt /\ q = p THEN v ELSE reply[n][q]
  <2>. HIDE DEF p
  <2>. QED
    BY <1>0, <1>1, <1>2
<1>4. \A q \in Paths : q # p => sdkReads'[q] = sdkReads[q]
  BY <1>0, <1>2
<1>5. v >= 0 => sdkReads'[p] = v
  <2>. HIDE DEF p
  <2>. QED
    BY <1>0, <1>1, <1>2
<1>6. TypeOK'
  <2>. HIDE DEF p
  <2>0. v \in Int
    BY <1>2
  <2>1. reply' \in [Attempts -> [Paths -> Int]]
    <3>1. [reply[attempt] EXCEPT ![p] = v] \in [Paths -> Int]
      BY <1>0, <1>1, <2>0
    <3>. QED
      BY <1>0, <1>1, <1>2, <3>1
  <2>2. sdkReads' = sdkReads \/ sdkReads' = [sdkReads EXCEPT ![p] = v]
    BY <1>2, <2>0
  <2>3. sdkReads' \in [Paths -> Int]
    BY <1>0, <2>0, <2>2
  <2>. QED
    BY <2>1, <2>3 DEF IInv, TypeOK, AnswerRead
<1>7. ReadInv'
  BY <1>1, <1>2, <1>3 DEF IInv, ReadInv
<1>8. RouteInv'
  <2>1. /\ req' = req /\ slot' = slot
        /\ req = "get" => slot.path \in Paths /\ slot.path # p
    BY <1>1 DEF IInv, TypeOK, RouteInv, AnswerRead
  <2>. QED
    BY <1>1, <1>3, <2>1 DEF IInv, RouteInv
<1>9. ReadsAreGuarded'
  BY <1>1, <1>3, <1>4, <1>5 DEF IInv, ReadsAreGuarded
<1>10. PortInv'
  BY DEF IInv, PortInv, AnswerRead
<1>11. RunInv'
  BY DEF IInv, RunInv, AnswerRead
<1>12. MailboxInv'
  BY DEF IInv, MailboxInv, AnswerRead
<1>13. WritesInv'
  BY DEF IInv, WritesInv, AnswerRead
<1>14. OutcomeInv'
  BY DEF IInv, OutcomeInv, AnswerRead
<1>15. AbortInv'
  BY DEF IInv, AbortInv, AnswerRead
<1>. QED
  BY <1>6, <1>7, <1>8, <1>9, <1>10, <1>11, <1>12, <1>13, <1>14, <1>15 DEF IInv

\* It takes an abort.
LEMMA TakeAbortPreserves ==
  ASSUME IInv, TakeAbort
  PROVE  IInv'
<1>1. TypeOK'
  BY DEF IInv, TypeOK, TakeAbort
<1>2. PortInv'
  BY DEF IInv, PortInv, TakeAbort
<1>3. RunInv'
  BY DEF IInv, TypeOK, PortInv, RunInv, MailboxInv, TakeAbort
<1>4. ReadInv'
  BY DEF IInv, ReadInv, TakeAbort
<1>5. RouteInv'
  BY DEF IInv, RouteInv, TakeAbort
<1>6. MailboxInv'
  BY DEF IInv, MailboxInv, TakeAbort
<1>7. WritesInv'
  BY DEF IInv, WritesInv, TakeAbort
<1>8. ReadsAreGuarded'
  BY DEF IInv, ReadsAreGuarded, TakeAbort
<1>9. OutcomeInv'
  BY DEF IInv, OutcomeInv, TakeAbort
<1>10. AbortInv'
  BY DEF IInv, AbortInv, TakeAbort
<1>. QED
  BY <1>1, <1>2, <1>3, <1>4, <1>5, <1>6, <1>7, <1>8, <1>9, <1>10 DEF IInv

\* It takes a commit: the writes move from the mailbox to the Transaction.
LEMMA TakeCommitPreserves ==
  ASSUME IInv, TakeCommit
  PROVE  IInv'
<1>1. TypeOK'
  <2>1. /\ staged' \in [Paths -> 0..MaxAttempts]
        /\ mailbox' \in [Paths -> 0..MaxAttempts]
    BY DEF IInv, TypeOK, TakeCommit
  <2>. QED
    BY <2>1 DEF IInv, TypeOK, TakeCommit
<1>2. PortInv'
  BY DEF IInv, PortInv, TakeCommit
<1>3. RunInv'
  BY DEF IInv, TypeOK, PortInv, RunInv, MailboxInv, TakeCommit
<1>4. ReadInv'
  BY DEF IInv, ReadInv, TakeCommit
<1>5. RouteInv'
  BY DEF IInv, RouteInv, TakeCommit
<1>6. MailboxInv'
  BY DEF IInv, MailboxInv, TakeCommit
<1>7. WritesInv'
  BY DEF IInv, TypeOK, PortInv, RunInv, MailboxInv, WritesInv, TakeCommit
<1>8. ReadsAreGuarded'
  BY DEF IInv, ReadsAreGuarded, TakeCommit
<1>9. OutcomeInv'
  BY DEF IInv, OutcomeInv, TakeCommit
<1>10. AbortInv'
  BY DEF IInv, TypeOK, PortInv, RunInv, MailboxInv, AbortInv, TakeCommit
<1>. QED
  BY <1>1, <1>2, <1>3, <1>4, <1>5, <1>6, <1>7, <1>8, <1>9, <1>10 DEF IInv

\* It applies them.
LEMMA ApplyWritesPreserves ==
  ASSUME IInv, ApplyWrites
  PROVE  IInv'
<1>1. TypeOK'
  BY DEF IInv, TypeOK, ApplyWrites
<1>2. PortInv'
  BY DEF IInv, PortInv, ApplyWrites
<1>3. RunInv'
  BY DEF IInv, RunInv, ApplyWrites
<1>4. ReadInv'
  BY DEF IInv, ReadInv, ApplyWrites
<1>5. RouteInv'
  BY DEF IInv, RouteInv, ApplyWrites
<1>6. MailboxInv'
  BY DEF IInv, MailboxInv, ApplyWrites
<1>7. WritesInv'
  BY DEF IInv, WritesInv, ApplyWrites
<1>8. ReadsAreGuarded'
  BY DEF IInv, ReadsAreGuarded, ApplyWrites
<1>9. OutcomeInv'
  BY DEF IInv, OutcomeInv, ApplyWrites
<1>10. AbortInv'
  BY DEF IInv, AbortInv, ApplyWrites
<1>. QED
  BY <1>1, <1>2, <1>3, <1>4, <1>5, <1>6, <1>7, <1>8, <1>9, <1>10 DEF IInv

\* The commit takes effect.
LEMMA SdkCommitsPreserves ==
  ASSUME IInv, SdkCommits
  PROVE  IInv'
<1>1. /\ sdk = "commit" /\ sdk' = "committed"
      /\ attempt \in Attempts /\ tookRun' = attempt /\ tookRun = 0
      /\ run[attempt] = "returned" /\ staged = buffer
      /\ registered
  BY DEF IInv, TypeOK, RunInv, MailboxInv, WritesInv, OutcomeInv, SdkCommits
<1>2. TypeOK'
  <2>0. docs \in [Paths -> Nat] /\ staged \in [Paths -> 0..MaxAttempts]
    BY DEF IInv, TypeOK
  <2>1. docs' \in [Paths -> Nat]
    BY <2>0 DEF SdkCommits
  <2>2. took' \in [Paths -> 0..MaxAttempts] /\ tookRun' \in 0..MaxAttempts
    BY <2>0, <1>1 DEF SdkCommits
  <2>3. sdk' \in SdkStates
    BY DEF SdkCommits
  <2>. QED
    BY <2>1, <2>2, <2>3 DEF IInv, TypeOK, SdkCommits
<1>3. PortInv'
  BY <1>1, EmptyPort DEF IInv, PortInv, SdkCommits
<1>4. RunInv'
  BY DEF IInv, RunInv, SdkCommits
<1>5. ReadInv'
  BY DEF IInv, ReadInv, SdkCommits
<1>6. RouteInv'
  BY DEF IInv, RouteInv, SdkCommits
<1>7. MailboxInv'
  BY DEF IInv, MailboxInv, SdkCommits
<1>8. WritesInv'
  BY DEF IInv, WritesInv, SdkCommits
<1>9. ReadsAreGuarded'
  BY DEF IInv, ReadsAreGuarded, SdkCommits
<1>10. OutcomeInv'
  BY DEF IInv, TypeOK, RunInv, MailboxInv, WritesInv, OutcomeInv, SdkCommits
<1>11. AbortInv'
  BY DEF IInv, AbortInv, SdkCommits
<1>. QED
  BY <1>2, <1>3, <1>4, <1>5, <1>6, <1>7, <1>8, <1>9, <1>10, <1>11 DEF IInv

\* The commit meets contention.
LEMMA SdkConflictPreserves ==
  ASSUME IInv, SdkConflict
  PROVE  IInv'
<1>1. TypeOK'
  BY DEF IInv, TypeOK, SdkConflict
<1>2. PortInv'
  BY DEF IInv, PortInv, SdkConflict
<1>3. RunInv'
  BY DEF IInv, RunInv, SdkConflict
<1>4. ReadInv'
  BY DEF IInv, ReadInv, SdkConflict
<1>5. RouteInv'
  BY DEF IInv, RouteInv, SdkConflict
<1>6. MailboxInv'
  BY DEF IInv, MailboxInv, SdkConflict
<1>7. WritesInv'
  BY DEF IInv, WritesInv, SdkConflict
<1>8. ReadsAreGuarded'
  BY DEF IInv, ReadsAreGuarded, SdkConflict
<1>9. OutcomeInv'
  BY DEF IInv, OutcomeInv, SdkConflict
<1>10. AbortInv'
  BY DEF IInv, AbortInv, SdkConflict
<1>. QED
  BY <1>1, <1>2, <1>3, <1>4, <1>5, <1>6, <1>7, <1>8, <1>9, <1>10 DEF IInv

\* The server refuses the commit.
LEMMA SdkRejectsPreserves ==
  ASSUME IInv, SdkRejects
  PROVE  IInv'
<1>1. TypeOK'
  BY DEF IInv, TypeOK, SdkRejects
<1>2. PortInv'
  BY DEF IInv, PortInv, SdkRejects
<1>3. RunInv'
  BY DEF IInv, RunInv, SdkRejects
<1>4. ReadInv'
  BY DEF IInv, ReadInv, SdkRejects
<1>5. RouteInv'
  BY DEF IInv, RouteInv, SdkRejects
<1>6. MailboxInv'
  BY DEF IInv, MailboxInv, SdkRejects
<1>7. WritesInv'
  BY DEF IInv, WritesInv, SdkRejects
<1>8. ReadsAreGuarded'
  BY DEF IInv, ReadsAreGuarded, SdkRejects
<1>9. OutcomeInv'
  BY DEF IInv, OutcomeInv, SdkRejects
<1>10. AbortInv'
  BY DEF IInv, AbortInv, SdkRejects
<1>. QED
  BY <1>1, <1>2, <1>3, <1>4, <1>5, <1>6, <1>7, <1>8, <1>9, <1>10 DEF IInv

\* The SDK handles an error of the update function.
LEMMA SdkHandlesErrorPreserves ==
  ASSUME IInv, SdkHandlesError
  PROVE  IInv'
<1>1. TypeOK'
  BY DEF IInv, TypeOK, SdkHandlesError
<1>2. PortInv'
  BY DEF IInv, PortInv, SdkHandlesError
<1>3. RunInv'
  BY DEF IInv, RunInv, SdkHandlesError
<1>4. ReadInv'
  BY DEF IInv, ReadInv, SdkHandlesError
<1>5. RouteInv'
  BY DEF IInv, RouteInv, SdkHandlesError
<1>6. MailboxInv'
  BY DEF IInv, MailboxInv, SdkHandlesError
<1>7. WritesInv'
  BY DEF IInv, WritesInv, SdkHandlesError
<1>8. ReadsAreGuarded'
  BY DEF IInv, ReadsAreGuarded, SdkHandlesError
<1>9. OutcomeInv'
  BY DEF IInv, OutcomeInv, SdkHandlesError
<1>10. AbortInv'
  BY DEF IInv, AbortInv, SdkHandlesError
<1>. QED
  BY <1>1, <1>2, <1>3, <1>4, <1>5, <1>6, <1>7, <1>8, <1>9, <1>10 DEF IInv

\* OnCompletion erases the entry,
LEMMA EraseEntryPreserves ==
  ASSUME IInv, EraseEntry
  PROVE  IInv'
<1>1. TypeOK'
  BY DEF IInv, TypeOK, EraseEntry
<1>2. PortInv'
  BY DEF IInv, PortInv, EraseEntry
<1>3. RunInv'
  BY DEF IInv, RunInv, EraseEntry
<1>4. ReadInv'
  BY DEF IInv, ReadInv, EraseEntry
<1>5. RouteInv'
  BY DEF IInv, RouteInv, EraseEntry
<1>6. MailboxInv'
  BY DEF IInv, MailboxInv, EraseEntry
<1>7. WritesInv'
  BY DEF IInv, WritesInv, EraseEntry
<1>8. ReadsAreGuarded'
  BY DEF IInv, ReadsAreGuarded, EraseEntry
<1>9. OutcomeInv'
  BY DEF IInv, OutcomeInv, EraseEntry
<1>10. AbortInv'
  BY DEF IInv, AbortInv, EraseEntry
<1>. QED
  BY <1>1, <1>2, <1>3, <1>4, <1>5, <1>6, <1>7, <1>8, <1>9, <1>10 DEF IInv

\* and posts the terminal event, the only one on the port.
LEMMA PostTerminalPreserves ==
  ASSUME IInv, PostTerminal
  PROVE  IInv'
<1>. DEFINE seq == IF sdk = "committed" THEN 0 ELSE -1
<1>1. /\ sdk \in {"committed", "failed"} /\ sdk' = "over" /\ portOpen
      /\ inbox' = Append(inbox, seq)
  BY DEF IInv, PortInv, PostTerminal
<1>2. inbox' \in Seq(-1..MaxAttempts) /\ Len(inbox') = 1 /\ inbox'[1] = seq
  <2>1. seq \in -1..MaxAttempts
    OBVIOUS
  <2>2. Len(inbox) = 0
    BY <1>1, EmptyPort
  <2>. QED
    BY <1>1, <2>1, <2>2, PortType, EmptyAppend
<1>3. seq = 0 => tookRun # 0
  BY <1>1 DEF IInv, OutcomeInv
<1>4. seq = -1 => tookRun = 0
  BY <1>1 DEF IInv, OutcomeInv
<1>5. TypeOK'
  BY <1>1, <1>2 DEF IInv, TypeOK, PostTerminal
<1>6. PortInv'
  BY <1>1, <1>2, <1>3, <1>4 DEF PortInv, PostTerminal
<1>7. RunInv'
  BY DEF IInv, RunInv, PostTerminal
<1>8. ReadInv'
  BY DEF IInv, ReadInv, PostTerminal
<1>9. RouteInv'
  BY DEF IInv, RouteInv, PostTerminal
<1>10. MailboxInv'
  BY DEF IInv, MailboxInv, PostTerminal
<1>11. WritesInv'
  BY DEF IInv, WritesInv, PostTerminal
<1>12. ReadsAreGuarded'
  BY DEF IInv, ReadsAreGuarded, PostTerminal
<1>13. OutcomeInv'
  BY DEF IInv, OutcomeInv, PostTerminal
<1>14. AbortInv'
  BY DEF IInv, AbortInv, PostTerminal
<1>. QED
  BY <1>5, <1>6, <1>7, <1>8, <1>9, <1>10, <1>11, <1>12, <1>13, <1>14 DEF IInv

\* The port handler starts the run of the current attempt, whose thread is
\* parked with an empty mailbox.
LEMMA StartRunPreserves ==
  ASSUME IInv, StartRun
  PROVE  IInv'
<1>1. /\ Head(inbox) = attempt /\ attempt \in Attempts
      /\ sdk = "parked" /\ req = "none" /\ run[attempt] = "idle"
  <2>1. Len(inbox) = 1 /\ inbox[1] = Head(inbox) /\ inbox[1] > 0
        /\ inbox[1] \in -1..MaxAttempts
    BY PortHead DEF StartRun
  <2>. QED
    BY <2>1 DEF IInv, PortInv
<1>2. /\ run' = [run EXCEPT ![attempt] = "running"]
      /\ inbox' \in Seq(-1..MaxAttempts) /\ Len(inbox') = 0
      /\ attempt' = attempt
  BY <1>1, PortHead DEF StartRun
<1>3. run \in [Attempts -> RunStates]
  BY DEF IInv, TypeOK
<1>4. /\ run'[attempt] = "running"
      /\ \A n \in Attempts : n # attempt => run'[n] = run[n]
  BY <1>1, <1>2, <1>3
<1>5. TypeOK'
  <2>1. run' \in [Attempts -> RunStates]
    BY <1>2, <1>3
  <2>2. buffer' \in [Paths -> 0..MaxAttempts]
    BY DEF StartRun
  <2>. QED
    BY <1>2, <2>1, <2>2 DEF IInv, TypeOK, StartRun
<1>6. RunInv'
  BY <1>1, <1>2, <1>4 DEF IInv, RunInv, StartRun
<1>7. ReadInv'
  BY <1>1, <1>2, <1>4 DEF IInv, ReadInv, StartRun
<1>8. MailboxInv'
  BY <1>1, <1>2, <1>4 DEF IInv, MailboxInv, StartRun
<1>9. WritesInv'
  <2>1. \A p \in Paths : buffer'[p] = 0
    BY DEF StartRun
  <2>. QED
    BY <1>1, <1>2, <2>1 DEF WritesInv, StartRun
<1>10. OutcomeInv'
  BY <1>1, <1>2, <1>4 DEF IInv, OutcomeInv, StartRun
<1>11. AbortInv'
  BY <1>1, <1>2, <1>4 DEF IInv, AbortInv, StartRun
<1>12. PortInv'
  <2>1. Len(inbox') = 0 /\ portOpen'
    BY <1>2 DEF StartRun
  <2>. QED
    BY <2>1 DEF PortInv
<1>13. RouteInv'
  BY <1>1 DEF IInv, RouteInv, StartRun
<1>14. ReadsAreGuarded'
  BY DEF IInv, ReadsAreGuarded, StartRun
<1>. QED
  BY <1>5, <1>6, <1>7, <1>8, <1>9, <1>10, <1>11, <1>12, <1>13, <1>14 DEF IInv

\* The port handler completes the future.
LEMMA FinishPreserves ==
  ASSUME IInv, Finish
  PROVE  IInv'
<1>1. /\ sdk = "over" /\ Head(inbox) \in {0, -1} /\ inbox' = <<>>
      /\ Head(inbox) = 0 => tookRun # 0
      /\ Head(inbox) # 0 => tookRun = 0
  <2>1. Len(inbox) = 1 /\ inbox[1] = Head(inbox) /\ inbox[1] <= 0
        /\ inbox[1] \in -1..MaxAttempts
    BY PortHead DEF Finish
  <2>2. inbox[1] \in {0, -1}
    BY <2>1
  <2>. QED
    BY <2>1, <2>2 DEF IInv, PortInv, Finish
<1>2. TypeOK'
  <2>1. inbox' \in Seq(-1..MaxAttempts)
    BY <1>1
  <2>2. done' \in Outcomes
    BY DEF IInv, TypeOK, Finish
  <2>. QED
    BY <2>1, <2>2 DEF IInv, TypeOK, Finish
<1>3. PortInv'
  <2>1. Len(inbox') = 0
    BY <1>1
  <2>. QED
    BY <1>1, <2>1 DEF PortInv, Finish
<1>4. OutcomeInv'
  BY <1>1 DEF IInv, OutcomeInv, Finish
<1>5. AbortInv'
  BY <1>1 DEF IInv, AbortInv, Finish
<1>6. RunInv'
  BY DEF IInv, RunInv, Finish
<1>7. ReadInv'
  BY DEF IInv, ReadInv, Finish
<1>8. RouteInv'
  BY DEF IInv, RouteInv, Finish
<1>9. MailboxInv'
  BY DEF IInv, MailboxInv, Finish
<1>10. WritesInv'
  BY DEF IInv, WritesInv, Finish
<1>11. ReadsAreGuarded'
  BY DEF IInv, ReadsAreGuarded, Finish
<1>. QED
  BY <1>2, <1>3, <1>4, <1>5, <1>6, <1>7, <1>8, <1>9, <1>10, <1>11 DEF IInv

\* The handler returns: no read is awaited, so the request it overwrites is a
\* read it gave up.
LEMMA ReturnPreserves ==
  ASSUME IInv, NEW n \in Attempts, Return(n)
  PROVE  IInv'
<1>1. /\ n = attempt /\ sdk \in {"parked", "reading"} /\ registered
      /\ Len(inbox) # 1 /\ run[n] = "running"
  BY Runs DEF Return
<1>2. run \in [Attempts -> RunStates]
  BY DEF IInv, TypeOK
<1>3. /\ run' = [run EXCEPT ![attempt] = "returned"]
      /\ run'[attempt] = "returned"
      /\ \A m \in Attempts : m # attempt => run'[m] = run[m]
      /\ attempt' = attempt /\ attempt \in Attempts
      /\ req' = "commit" /\ mailbox' = buffer /\ result' = attempt
  BY <1>1, <1>2 DEF Return
<1>4. TypeOK'
  <2>1. run' \in [Attempts -> RunStates]
    BY <1>2, <1>3
  <2>2. result' \in 0..MaxAttempts
    BY <1>3
  <2>3. mailbox' \in [Paths -> 0..MaxAttempts] /\ req' \in Requests
    BY <1>3 DEF IInv, TypeOK
  <2>. QED
    BY <2>1, <2>2, <2>3 DEF IInv, TypeOK, Return
<1>5. PortInv'
  BY <1>1, <1>3 DEF IInv, PortInv, Return
<1>6. RunInv'
  BY <1>1, <1>3 DEF IInv, RunInv, Return
<1>7. RouteInv'
  BY <1>1, <1>3 DEF IInv, RouteInv, Return
<1>8. MailboxInv'
  BY <1>1, <1>3 DEF IInv, MailboxInv, Return
<1>9. ReadInv'
  BY DEF IInv, ReadInv, Return
<1>10. WritesInv'
  BY DEF IInv, WritesInv, Return
<1>11. ReadsAreGuarded'
  BY DEF IInv, ReadsAreGuarded, Return
<1>12. OutcomeInv'
  BY DEF IInv, OutcomeInv, Return
<1>13. AbortInv'
  BY DEF IInv, AbortInv, Return
<1>. QED
  BY <1>4, <1>5, <1>6, <1>7, <1>8, <1>9, <1>10, <1>11, <1>12, <1>13 DEF IInv

\* The handler returns and its writes cannot be encoded: the request is as it
\* was, none or a read it gave up.
LEMMA ReturnUnencodablePreserves ==
  ASSUME IInv, NEW n \in Attempts, ReturnUnencodable(n)
  PROVE  IInv'
<1>1. /\ n = attempt /\ sdk \in {"parked", "reading"} /\ registered
      /\ req \in {"none", "get"} /\ tookRun = 0
      /\ Len(inbox) # 1 /\ run[n] = "running"
  BY Runs DEF ReturnUnencodable
<1>2. run \in [Attempts -> RunStates]
  BY DEF IInv, TypeOK
<1>3. /\ run' = [run EXCEPT ![attempt] = "unsent"]
      /\ run'[attempt] = "unsent"
      /\ \A m \in Attempts : m # attempt => run'[m] = run[m]
      /\ attempt' = attempt /\ attempt \in Attempts
      /\ req' = req /\ result' = attempt
  BY <1>1, <1>2 DEF ReturnUnencodable
<1>4. TypeOK'
  <2>1. run' \in [Attempts -> RunStates]
    BY <1>2, <1>3
  <2>2. result' \in 0..MaxAttempts
    BY <1>3
  <2>. QED
    BY <2>1, <2>2 DEF IInv, TypeOK, ReturnUnencodable
<1>5. PortInv'
  BY <1>1, <1>3 DEF IInv, PortInv, ReturnUnencodable
<1>6. RunInv'
  BY <1>1, <1>3 DEF IInv, RunInv, ReturnUnencodable
<1>7. RouteInv'
  BY <1>1, <1>3 DEF IInv, RouteInv, ReturnUnencodable
<1>8. MailboxInv'
  BY <1>1, <1>3 DEF IInv, MailboxInv, ReturnUnencodable
<1>9. ReadInv'
  BY DEF IInv, ReadInv, ReturnUnencodable
<1>10. WritesInv'
  BY <1>1, <1>3 DEF IInv, WritesInv, ReturnUnencodable
<1>11. ReadsAreGuarded'
  BY DEF IInv, ReadsAreGuarded, ReturnUnencodable
<1>12. OutcomeInv'
  BY <1>1, <1>3 DEF IInv, OutcomeInv, ReturnUnencodable
<1>13. AbortInv'
  BY <1>1, <1>3 DEF IInv, AbortInv, ReturnUnencodable
<1>. QED
  BY <1>4, <1>5, <1>6, <1>7, <1>8, <1>9, <1>10, <1>11, <1>12, <1>13 DEF IInv

\* The handler throws.
LEMMA ThrowPreserves ==
  ASSUME IInv, NEW n \in Attempts, Throw(n)
  PROVE  IInv'
<1>1. /\ n = attempt /\ sdk \in {"parked", "reading"} /\ registered
      /\ Len(inbox) # 1 /\ run[n] = "running" /\ tookRun = 0
  BY Runs DEF Throw
<1>2. run \in [Attempts -> RunStates]
  BY DEF IInv, TypeOK
<1>3. /\ run' = [run EXCEPT ![attempt] = "threw"]
      /\ run'[attempt] = "threw"
      /\ \A m \in Attempts : m # attempt => run'[m] = run[m]
      /\ attempt' = attempt /\ attempt \in Attempts
      /\ req' = "abort"
  BY <1>1, <1>2 DEF Throw
<1>4. TypeOK'
  <2>1. run' \in [Attempts -> RunStates]
    BY <1>2, <1>3
  <2>2. done' \in Outcomes /\ req' \in Requests
    BY <1>3 DEF IInv, TypeOK, Throw
  <2>. QED
    BY <2>1, <2>2 DEF IInv, TypeOK, Throw
<1>5. PortInv'
  BY <1>1, <1>3 DEF IInv, PortInv, Throw
<1>6. MailboxInv'
  BY <1>1, <1>3 DEF IInv, MailboxInv, Throw
<1>7. AbortInv'
  BY <1>1, <1>3 DEF AbortInv, Throw
<1>8. RouteInv'
  BY <1>1, <1>3 DEF IInv, RouteInv, Throw
<1>9. RunInv'
  BY DEF IInv, RunInv, Throw
<1>10. ReadInv'
  BY DEF IInv, ReadInv, Throw
<1>11. WritesInv'
  BY DEF IInv, WritesInv, Throw
<1>12. ReadsAreGuarded'
  BY DEF IInv, ReadsAreGuarded, Throw
<1>13. OutcomeInv'
  BY DEF IInv, OutcomeInv, Throw
<1>. QED
  BY <1>4, <1>5, <1>6, <1>7, <1>8, <1>9, <1>10, <1>11, <1>12, <1>13 DEF IInv

\* The handler reads: a read the SDK's thread is on is of another document,
\* since each is asked for once.
LEMMA GetPreserves ==
  ASSUME IInv, NEW n \in Attempts, NEW p \in Paths, Get(n, p)
  PROVE  IInv'
<1>1. /\ n = attempt /\ sdk \in {"parked", "reading"} /\ registered
      /\ Len(inbox) # 1 /\ run[n] = "running" /\ attempt \in Attempts
      /\ read[attempt][p] = NotAsked
  BY Runs DEF Get
<1>2. read \in [Attempts -> [Paths -> Int]]
  BY DEF IInv, TypeOK
<1>3. /\ req' = "get" /\ attempt' = attempt
      /\ slot'.run = attempt /\ slot'.path = p
      /\ slot' \in [run : 0..MaxAttempts, path : Paths]
  BY <1>1 DEF Get
<1>4. /\ read' = [read EXCEPT ![attempt][p] = Asked]
      /\ read'[attempt][p] = Asked
      /\ \A m \in Attempts, q \in Paths :
            ~(m = attempt /\ q = p) => read'[m][q] = read[m][q]
  BY <1>1, <1>2 DEF Get
<1>5. reply[attempt][p] = NotAsked
  BY <1>1 DEF IInv, ReadInv
<1>6. TypeOK'
  <2>1. read' \in [Attempts -> [Paths -> Int]]
    <3>1. [read[attempt] EXCEPT ![p] = Asked] \in [Paths -> Int]
      BY <1>1, <1>2
    <3>. QED
      BY <1>1, <1>2, <1>4, <3>1
  <2>2. req' \in Requests
    BY <1>3
  <2>. QED
    BY <1>3, <2>1, <2>2 DEF IInv, TypeOK, Get
<1>7. PortInv'
  BY <1>1, <1>3 DEF IInv, PortInv, Get
<1>8. RouteInv'
  <2>1. sdk = "reading" =>
           serving.path # p /\ serving.run = attempt /\ serving.path \in Paths
    <3>1. serving.path \in Paths
      BY DEF IInv, TypeOK
    <3>. QED
      BY <1>1, <3>1 DEF IInv, RouteInv
  <2>. QED
    BY <1>1, <1>3, <1>4, <1>5, <2>1 DEF IInv, RouteInv, Get
<1>9. MailboxInv'
  BY <1>1, <1>3 DEF IInv, MailboxInv, Get
<1>10. RunInv'
  BY DEF IInv, RunInv, Get
<1>11. ReadInv'
  BY DEF IInv, ReadInv, Get
<1>12. WritesInv'
  BY DEF IInv, WritesInv, Get
<1>13. ReadsAreGuarded'
  BY DEF IInv, ReadsAreGuarded, Get
<1>14. OutcomeInv'
  BY DEF IInv, OutcomeInv, Get
<1>15. AbortInv'
  BY DEF IInv, AbortInv, Get
<1>. QED
  BY <1>6, <1>7, <1>8, <1>9, <1>10, <1>11, <1>12, <1>13, <1>14, <1>15 DEF IInv

\* A read's answer arrives.
LEMMA ReceiveReplyPreserves ==
  ASSUME IInv, NEW n \in Attempts, NEW p \in Paths, ReceiveReply(n, p)
  PROVE  IInv'
<1>1. /\ read \in [Attempts -> [Paths -> Int]]
      /\ reply \in [Attempts -> [Paths -> Int]]
  BY DEF IInv, TypeOK
<1>2. /\ reply' = [reply EXCEPT ![n][p] = NotAsked]
      /\ read' = [read EXCEPT ![n][p] = IF @ = Asked THEN reply[n][p] ELSE @]
      /\ run' = run
  BY DEF ReceiveReply
<1>3. /\ reply'[n][p] = NotAsked
      /\ \A m \in Attempts, q \in Paths :
            ~(m = n /\ q = p) => reply'[m][q] = reply[m][q]
  BY <1>1, <1>2
<1>4. /\ read'[n][p] = IF read[n][p] = Asked THEN reply[n][p] ELSE read[n][p]
      /\ \A m \in Attempts, q \in Paths :
            ~(m = n /\ q = p) => read'[m][q] = read[m][q]
  BY <1>1, <1>2
<1>5. TypeOK'
  <2>1. /\ [reply[n] EXCEPT ![p] = NotAsked] \in [Paths -> Int]
        /\ [read[n] EXCEPT ![p] = IF @ = Asked THEN reply[n][p] ELSE @]
              \in [Paths -> Int]
    BY <1>1
  <2>2. reply' \in [Attempts -> [Paths -> Int]]
    BY <1>1, <1>2, <2>1
  <2>3. read' \in [Attempts -> [Paths -> Int]]
    BY <1>1, <1>2, <2>1
  <2>. QED
    BY <2>2, <2>3 DEF IInv, TypeOK, ReceiveReply
<1>6. ReadInv'
  <2>1. reply[n][p] \in {Failed} \cup Nat
    BY DEF IInv, ReadInv, ReceiveReply
  <2>. QED
    BY <1>2, <1>3, <1>4, <2>1 DEF IInv, ReadInv
<1>7. PortInv'
  BY DEF IInv, PortInv, ReceiveReply
<1>8. RunInv'
  BY DEF IInv, RunInv, ReceiveReply
<1>9. RouteInv'
  BY DEF IInv, RouteInv, ReceiveReply
<1>10. MailboxInv'
  BY DEF IInv, MailboxInv, ReceiveReply
<1>11. WritesInv'
  BY DEF IInv, WritesInv, ReceiveReply
<1>12. ReadsAreGuarded'
  BY DEF IInv, ReadsAreGuarded, ReceiveReply
<1>13. OutcomeInv'
  BY DEF IInv, OutcomeInv, ReceiveReply
<1>14. AbortInv'
  BY DEF IInv, AbortInv, ReceiveReply
<1>. QED
  BY <1>5, <1>6, <1>7, <1>8, <1>9, <1>10, <1>11, <1>12, <1>13, <1>14 DEF IInv

\* The handler gives a read up.
LEMMA GiveUpPreserves ==
  ASSUME IInv, NEW n \in Attempts, NEW p \in Paths, GiveUp(n, p)
  PROVE  IInv'
<1>1. TypeOK'
  <2>1. read \in [Attempts -> [Paths -> Int]]
    BY DEF IInv, TypeOK
  <2>2. [read[n] EXCEPT ![p] = Abandoned] \in [Paths -> Int]
    BY <2>1
  <2>3. read' \in [Attempts -> [Paths -> Int]]
    BY <2>1, <2>2 DEF GiveUp
  <2>. QED
    BY <2>3 DEF IInv, TypeOK, GiveUp
<1>2. PortInv'
  BY DEF IInv, PortInv, GiveUp
<1>3. RunInv'
  BY DEF IInv, RunInv, GiveUp
<1>4. ReadInv'
  BY DEF IInv, ReadInv, GiveUp
<1>5. RouteInv'
  BY DEF IInv, RouteInv, GiveUp
<1>6. MailboxInv'
  BY DEF IInv, MailboxInv, GiveUp
<1>7. WritesInv'
  BY DEF IInv, WritesInv, GiveUp
<1>8. ReadsAreGuarded'
  BY DEF IInv, ReadsAreGuarded, GiveUp
<1>9. OutcomeInv'
  BY DEF IInv, OutcomeInv, GiveUp
<1>10. AbortInv'
  BY DEF IInv, AbortInv, GiveUp
<1>. QED
  BY <1>1, <1>2, <1>3, <1>4, <1>5, <1>6, <1>7, <1>8, <1>9, <1>10 DEF IInv

\* The handler records a write, which no request has carried off yet.
LEMMA RecordPreserves ==
  ASSUME IInv, NEW n \in Attempts, NEW p \in Paths, Record(n, p)
  PROVE  IInv'
<1>1. /\ n = attempt /\ sdk \in {"parked", "reading"} /\ req \in {"none", "get"}
      /\ run[n] = "running" /\ tookRun = 0
  BY Runs DEF Record
<1>2. buffer \in [Paths -> 0..MaxAttempts]
  BY DEF IInv, TypeOK
<1>3. /\ buffer' = [buffer EXCEPT ![p] = attempt]
      /\ \A q \in Paths : buffer'[q] = IF q = p THEN attempt ELSE buffer[q]
  BY <1>1, <1>2 DEF Record
<1>4. TypeOK'
  <2>1. buffer' \in [Paths -> 0..MaxAttempts]
    BY <1>1, <1>2, <1>3
  <2>. QED
    BY <2>1 DEF IInv, TypeOK, Record
<1>5. MailboxInv'
  BY <1>1 DEF IInv, MailboxInv, Record
<1>6. WritesInv'
  BY <1>1, <1>3 DEF IInv, WritesInv, Record
<1>7. OutcomeInv'
  BY <1>1 DEF IInv, OutcomeInv, Record
<1>8. PortInv'
  BY DEF IInv, PortInv, Record
<1>9. RunInv'
  BY DEF IInv, RunInv, Record
<1>10. ReadInv'
  BY DEF IInv, ReadInv, Record
<1>11. RouteInv'
  BY DEF IInv, RouteInv, Record
<1>12. ReadsAreGuarded'
  BY DEF IInv, ReadsAreGuarded, Record
<1>13. AbortInv'
  BY DEF IInv, AbortInv, Record
<1>. QED
  BY <1>4, <1>5, <1>6, <1>7, <1>8, <1>9, <1>10, <1>11, <1>12, <1>13 DEF IInv

\* Another client writes.
LEMMA OtherWritesPreserves ==
  ASSUME IInv, NEW p \in Paths, OtherWrites(p)
  PROVE  IInv'
<1>1. TypeOK'
  <2>1. docs' \in [Paths -> Nat]
    <3>1. docs \in [Paths -> Nat]
      BY DEF IInv, TypeOK
    <3>. QED
      BY <3>1 DEF OtherWrites
  <2>. QED
    BY <2>1 DEF IInv, TypeOK, OtherWrites
<1>2. PortInv'
  BY DEF IInv, PortInv, OtherWrites
<1>3. RunInv'
  BY DEF IInv, RunInv, OtherWrites
<1>4. ReadInv'
  BY DEF IInv, ReadInv, OtherWrites
<1>5. RouteInv'
  BY DEF IInv, RouteInv, OtherWrites
<1>6. MailboxInv'
  BY DEF IInv, MailboxInv, OtherWrites
<1>7. WritesInv'
  BY DEF IInv, WritesInv, OtherWrites
<1>8. ReadsAreGuarded'
  BY DEF IInv, ReadsAreGuarded, OtherWrites
<1>9. OutcomeInv'
  BY DEF IInv, OutcomeInv, OtherWrites
<1>10. AbortInv'
  BY DEF IInv, AbortInv, OtherWrites
<1>. QED
  BY <1>1, <1>2, <1>3, <1>4, <1>5, <1>6, <1>7, <1>8, <1>9, <1>10 DEF IInv

-----------------------------------------------------------------------------
(* The invariant, and the properties it implies. *)

\* The invariant holds before fdb_fs_txn_begin,
LEMMA InitEstablishes == Init => IInv
<1>. SUFFICES ASSUME Init PROVE IInv
  OBVIOUS
<1>1. inbox = <<>> /\ Len(inbox) = 0 /\ inbox \in Seq(-1..MaxAttempts)
  BY DEF Init
<1>2. TypeOK
  <2>1. /\ run \in [Attempts -> RunStates]
        /\ read \in [Attempts -> [Paths -> Int]]
        /\ reply \in [Attempts -> [Paths -> Int]]
    BY DEF Init
  <2>2. /\ buffer \in [Paths -> 0..MaxAttempts]
        /\ mailbox \in [Paths -> 0..MaxAttempts]
        /\ staged \in [Paths -> 0..MaxAttempts]
        /\ took \in [Paths -> 0..MaxAttempts]
        /\ sdkReads \in [Paths -> Int]
        /\ docs \in [Paths -> Nat]
    BY DEF Init
  <2>3. /\ slot \in [run : 0..MaxAttempts, path : Paths]
        /\ serving \in [run : 0..MaxAttempts, path : Paths]
    BY DEF Init
  <2>4. /\ result \in 0..MaxAttempts /\ attempt \in 0..MaxAttempts
        /\ tookRun \in 0..MaxAttempts
    BY DEF Init
  <2>5. /\ portOpen \in BOOLEAN /\ registered \in BOOLEAN
        /\ done \in Outcomes /\ req \in Requests /\ sdk \in SdkStates
    BY DEF Init
  <2>. QED
    BY <1>1, <2>1, <2>2, <2>3, <2>4, <2>5 DEF TypeOK
<1>3. PortInv
  BY <1>1 DEF Init, PortInv
<1>4. RunInv
  BY DEF Init, RunInv
<1>5. ReadInv
  BY DEF Init, ReadInv
<1>6. RouteInv /\ MailboxInv
  BY DEF Init, RouteInv, MailboxInv
<1>7. WritesInv /\ ReadsAreGuarded
  BY DEF Init, WritesInv, ReadsAreGuarded
<1>8. OutcomeInv /\ AbortInv
  BY DEF Init, OutcomeInv, AbortInv
<1>. QED
  BY <1>2, <1>3, <1>4, <1>5, <1>6, <1>7, <1>8 DEF IInv

\* in a step that changes nothing,
LEMMA StutterPreserves == IInv /\ UNCHANGED vars => IInv'
<1>. SUFFICES ASSUME IInv, UNCHANGED vars PROVE IInv'
  OBVIOUS
<1>1. TypeOK' /\ PortInv'
  BY DEF IInv, TypeOK, PortInv, vars
<1>2. RunInv' /\ ReadInv' /\ RouteInv' /\ MailboxInv'
  BY DEF IInv, RunInv, ReadInv, RouteInv, MailboxInv, vars
<1>3. WritesInv' /\ ReadsAreGuarded' /\ OutcomeInv' /\ AbortInv'
  BY DEF IInv, WritesInv, ReadsAreGuarded, OutcomeInv, AbortInv, vars
<1>. QED
  BY <1>1, <1>2, <1>3 DEF IInv

\* and across every step.
LEMMA NextPreserves == IInv /\ [Next]_vars => IInv'
<1>. SUFFICES ASSUME IInv, [Next]_vars PROVE IInv'
  OBVIOUS
<1>1. CASE Begin
  BY <1>1, BeginPreserves
<1>2. CASE BeginRefused
  BY <1>2, BeginRefusedPreserves
<1>3. CASE UpdateFunction
  BY <1>3, EnterUpdatePreserves, TakeReadPreserves, AnswerReadPreserves,
     TakeAbortPreserves, TakeCommitPreserves, ApplyWritesPreserves
  DEF UpdateFunction
<1>4. CASE SdkDecides
  BY <1>4, SdkCommitsPreserves, SdkConflictPreserves, SdkRejectsPreserves,
     SdkHandlesErrorPreserves DEF SdkDecides
<1>5. CASE EraseEntry \/ PostTerminal
  BY <1>5, EraseEntryPreserves, PostTerminalPreserves
<1>6. CASE StartRun \/ Finish
  BY <1>6, StartRunPreserves, FinishPreserves
<1>7. ASSUME NEW n \in Attempts, EndRun(n) PROVE IInv'
  BY <1>7, ReturnPreserves, ReturnUnencodablePreserves, ThrowPreserves
  DEF EndRun
<1>8. ASSUME NEW n \in Attempts, NEW p \in Paths,
             Get(n, p) \/ ReceiveReply(n, p) \/ GiveUp(n, p) \/ Record(n, p)
      PROVE  IInv'
  BY <1>8, GetPreserves, ReceiveReplyPreserves, GiveUpPreserves,
     RecordPreserves
<1>9. ASSUME NEW p \in Paths, OtherWrites(p) PROVE IInv'
  BY <1>9, OtherWritesPreserves
<1>10. CASE Quiet \/ UNCHANGED vars
  BY <1>10, StutterPreserves DEF Quiet
<1>. QED
  BY <1>1, <1>2, <1>3, <1>4, <1>5, <1>6, <1>7, <1>8, <1>9, <1>10 DEF Next

\* THE invariant: it holds in every reachable state, for every set of
\* documents, any number of attempts and reads, and either reading of an abort.
THEOREM Invariance == Spec => []IInv
BY InitEstablishes, NextPreserves, PTL DEF Spec

\* Every variable keeps its type: nothing but -1, 0 and attempt numbers is
\* ever posted to the transaction's port.
THEOREM TypeCorrect == Spec => []TypeOK
<1>1. IInv => TypeOK
  BY DEF IInv
<1>. QED
  BY <1>1, Invariance, PTL

\* No run of the handler is in progress once the SDK's thread has left the
\* update function of its attempt (the condition variable of
\* fdb_fs_txn_begin's lambda holds it there).
THEOREM RunsAreCurrent == Spec => []RunIsCurrent
<1>1. IInv => RunIsCurrent
  BY Runs DEF RunIsCurrent
<1>. QED
  BY <1>1, Invariance, PTL

\* What the SDK's thread takes out of the mailbox was put there by the run of
\* its own attempt, though the mailbox is never cleared between attempts.
THEOREM RequestsAreOfThisAttempt == Spec => []RequestIsOfThisAttempt
<1>1. ASSUME IInv PROVE RequestIsOfThisAttempt
  <2>1. sdk = "reading" => serving.run = attempt
    BY <1>1 DEF IInv, RouteInv
  <2>2. ASSUME sdk \in {"applying", "commit"}
        PROVE  \A p \in Paths : staged[p] \in {0, attempt}
    <3>1. attempt # 0
      BY <1>1, <2>2 DEF IInv, RunInv
    <3>2. run[attempt] = "returned"
      BY <1>1, <2>2, <3>1 DEF IInv, RunInv
    <3>. QED
      BY <1>1, <2>2, <3>1, <3>2 DEF IInv, WritesInv
  <2>. QED
    BY <2>1, <2>2 DEF RequestIsOfThisAttempt
<1>. QED
  BY <1>1, Invariance, PTL

\* Every version the handler was given in this attempt is one the commit
\* checks (Transaction::Get on the SDK's thread, not a read of the document).
THEOREM GuardedReads == Spec => []ReadsAreGuarded
<1>1. IInv => ReadsAreGuarded
  BY DEF IInv
<1>. QED
  BY <1>1, Invariance, PTL

\* What takes effect is what one run recorded, and that run returned (_reset
\* in the port handler, TxnState.writes moved out by kCommit).
THEOREM OneRun == Spec => []OneRunTakesEffect
<1>1. ASSUME IInv PROVE OneRunTakesEffect
  <2>1. ASSUME tookRun # 0
        PROVE  /\ tookRun = attempt /\ run[attempt] = "returned"
               /\ took = buffer
    BY <1>1, <2>1 DEF IInv, OutcomeInv
  <2>2. ASSUME tookRun # 0
        PROVE  \A p \in Paths : buffer[p] \in {0, attempt}
    BY <1>1, <2>1, <2>2 DEF IInv, WritesInv
  <2>. QED
    BY <2>1, <2>2 DEF OneRunTakesEffect
<1>. QED
  BY <1>1, Invariance, PTL

\* A completed future stands for a commit, and the result kept by the facade
\* is that of the run that was committed.
THEOREM Completed == Spec => []CompletedIsCommitted
<1>1. ASSUME IInv PROVE CompletedIsCommitted
  <2>1. ASSUME done = "completed"
        PROVE  tookRun # 0 /\ tookRun = attempt /\ run[attempt] = "returned"
    BY <1>1, <2>1 DEF IInv, OutcomeInv
  <2>2. ASSUME done = "completed" PROVE result = attempt
    BY <1>1, <2>1, <2>2 DEF IInv, RunInv
  <2>. QED
    BY <2>1, <2>2 DEF CompletedIsCommitted
<1>. QED
  BY <1>1, Invariance, PTL

\* If an abort is final for the SDK, a failed future means that nothing of
\* the transaction was written, or will be.
THEOREM FailureIsFinal ==
  ASSUME AbortIsFinal PROVE Spec => []FailureWritesNothing
<1>1. IInv => FailureWritesNothing
  BY DEF IInv, AbortInv, FailureWritesNothing
<1>. QED
  BY <1>1, Invariance, PTL

-----------------------------------------------------------------------------
(* FsTransaction implements AtomicTransaction. *)

\* A step that leaves the documents, the future, the effect and what the
\* effective run read alone is a stutter of AtomicTransaction.
LEMMA AtomicStutter ==
  ASSUME UNCHANGED <<docs, done, tookRun, took>>,
         tookRun # 0 => read'[tookRun] = read[tookRun]
  PROVE  UNCHANGED Atomic!vars
BY DEF Atomic!vars, SeenBy

\* Completing the future with what happened is a step of AtomicTransaction,
\* or a stutter if it had an outcome.
LEMMA AtomicTells ==
  ASSUME UNCHANGED <<docs, tookRun, took, read>>, NEW outcome,
         Settle(outcome),
         outcome \in {"completed", "failed"},
         outcome = "completed" <=> tookRun # 0
  PROVE  [Atomic!Next]_(Atomic!vars)
<1>1. CASE done # "pending"
  BY <1>1, AtomicStutter
<1>2. CASE done = "pending" /\ outcome = "completed"
  <2>1. Atomic!TellCompleted
    BY <1>2 DEF Atomic!TellCompleted, SeenBy
  <2>. QED
    BY <2>1 DEF Atomic!Next
<1>3. CASE done = "pending" /\ outcome = "failed"
  <2>1. Atomic!TellFailed
    BY <1>3 DEF Atomic!TellFailed, SeenBy
  <2>. QED
    BY <2>1 DEF Atomic!Next
<1>. QED
  BY <1>1, <1>2, <1>3

\* The commit is the instant the transaction takes effect at: what the
\* handler read is what the server still holds.
LEMMA AtomicTakesEffect ==
  ASSUME IInv, SdkCommits, AbortIsFinal
  PROVE  Atomic!Next
<1>. DEFINE R == {p \in Paths : read[attempt][p] >= 0}
            W == {p \in Paths : staged[p] # 0}
<1>1. /\ sdk = "commit" /\ tookRun = 0 /\ attempt \in Attempts
      /\ tookRun' = attempt /\ took' = staged /\ read' = read /\ done' = done
  BY DEF IInv, TypeOK, RunInv, OutcomeInv, SdkCommits
<1>2. done = "pending"
  <2>1. done # "failed"
    BY <1>1 DEF IInv, AbortInv
  <2>2. done # "completed"
    BY <1>1 DEF IInv, OutcomeInv
  <2>3. done \in Outcomes
    BY DEF IInv, TypeOK
  <2>. QED
    BY <2>1, <2>2, <2>3
<1>3. \A p \in R : read[attempt][p] = docs[p]
  <2>. SUFFICES ASSUME NEW p \in R PROVE read[attempt][p] = docs[p]
    OBVIOUS
  <2>1. read[attempt][p] = sdkReads[p] /\ read[attempt][p] >= 0
    BY <1>1 DEF IInv, ReadsAreGuarded
  <2>. QED
    BY <2>1 DEF SdkCommits
<1>4. SeenBy(attempt) = [p \in Paths |-> IF p \in R THEN docs[p] ELSE Unread]
  BY <1>3 DEF SeenBy
<1>5. docs' = [p \in Paths |-> IF p \in W THEN docs[p] + 1 ELSE docs[p]]
  BY DEF SdkCommits
<1>6. {p \in Paths : took'[p] # 0} = W
  BY <1>1
<1>7. PICK A \in SUBSET Paths, B \in SUBSET Paths : A = R /\ B = W
  OBVIOUS
<1>8. Atomic!TakeEffect(A, B)
  BY <1>1, <1>2, <1>4, <1>5, <1>6, <1>7 DEF Atomic!TakeEffect, SeenBy
<1>. QED
  BY <1>8 DEF Atomic!Next

\* Every step is a step of AtomicTransaction or a stutter.
LEMMA AtomicStep ==
  ASSUME AbortIsFinal, IInv, [Next]_vars
  PROVE  [Atomic!Next]_(Atomic!vars)
<1>1. CASE Begin
  BY <1>1, AtomicStutter DEF Begin
<1>2. CASE BeginRefused
  <2>1. tookRun = 0
    BY <1>2 DEF IInv, RunInv, BeginRefused
  <2>. QED
    BY <1>2, <2>1, AtomicTells DEF BeginRefused
<1>3. CASE UpdateFunction
  BY <1>3, AtomicStutter
  DEF UpdateFunction, EnterUpdate, TakeRead, AnswerRead, TakeAbort,
      TakeCommit, ApplyWrites
<1>4. CASE SdkDecides
  <2>1. CASE SdkCommits
    BY <2>1, AtomicTakesEffect
  <2>2. CASE SdkConflict \/ SdkRejects \/ SdkHandlesError
    BY <2>2, AtomicStutter DEF SdkConflict, SdkRejects, SdkHandlesError
  <2>. QED
    BY <1>4, <2>1, <2>2 DEF SdkDecides
<1>5. CASE EraseEntry \/ PostTerminal
  BY <1>5, AtomicStutter DEF EraseEntry, PostTerminal
<1>6. CASE StartRun
  BY <1>6, AtomicStutter DEF StartRun
<1>7. CASE Finish
  <2>1. /\ Head(inbox) = inbox[1] /\ Len(inbox) = 1
        /\ inbox[1] \in -1..MaxAttempts /\ inbox[1] <= 0
    BY <1>7, PortHead DEF Finish
  <2>2. Head(inbox) = 0 <=> tookRun # 0
    BY <2>1 DEF IInv, PortInv
  <2>. QED
    BY <1>7, <2>2, AtomicTells DEF Finish
<1>8. ASSUME NEW n \in Attempts, EndRun(n)
      PROVE  [Atomic!Next]_(Atomic!vars)
  <2>1. CASE Return(n) \/ ReturnUnencodable(n)
    BY <2>1, AtomicStutter DEF Return, ReturnUnencodable
  <2>2. CASE Throw(n)
    <3>1. tookRun = 0
      BY <2>2, Runs DEF Throw
    <3>. QED
      BY <2>2, <3>1, AtomicTells DEF Throw
  <2>. QED
    BY <1>8, <2>1, <2>2 DEF EndRun
<1>9. ASSUME NEW n \in Attempts, NEW p \in Paths,
             Get(n, p) \/ GiveUp(n, p) \/ Record(n, p)
      PROVE  [Atomic!Next]_(Atomic!vars)
  <2>1. run[n] = "running"
    BY <1>9 DEF Get, GiveUp, Record
  <2>2. tookRun = 0
    BY <2>1, Runs
  <2>. QED
    BY <1>9, <2>2, AtomicStutter DEF Get, GiveUp, Record
<1>10. ASSUME NEW n \in Attempts, NEW p \in Paths, ReceiveReply(n, p)
       PROVE  [Atomic!Next]_(Atomic!vars)
  <2>1. ASSUME tookRun # 0 PROVE read'[tookRun] = read[tookRun]
    <3>1. run[tookRun] = "returned"
      BY <2>1 DEF IInv, OutcomeInv
    <3>2. read \in [Attempts -> [Paths -> Int]] /\ tookRun \in Attempts
      <4>1. read \in [Attempts -> [Paths -> Int]] /\ tookRun \in 0..MaxAttempts
        BY DEF IInv, TypeOK
      <4>. QED
        BY <2>1, <4>1
    <3>3. read[tookRun][p] # Asked
      BY <3>1, <3>2 DEF IInv, ReadInv
    <3>4. [read[tookRun] EXCEPT ![p] = read[tookRun][p]] = read[tookRun]
      BY <3>2
    <3>. QED
      BY <1>10, <3>2, <3>3, <3>4 DEF ReceiveReply
  <2>. QED
    BY <1>10, <2>1, AtomicStutter DEF ReceiveReply
<1>11. ASSUME NEW p \in Paths, OtherWrites(p)
       PROVE  [Atomic!Next]_(Atomic!vars)
  <2>1. Atomic!OtherWrites(p)
    BY <1>11 DEF OtherWrites, Atomic!OtherWrites, SeenBy
  <2>. QED
    BY <2>1 DEF Atomic!Next
<1>12. CASE Quiet \/ UNCHANGED vars
  BY <1>12, AtomicStutter DEF Quiet, vars
<1>. QED
  BY <1>1, <1>2, <1>3, <1>4, <1>5, <1>6, <1>7, <1>8, <1>9, <1>10, <1>11, <1>12
  DEF Next

\* The rendezvous of the isolate, the mailbox and the SDK's thread implements
\* an atomic transaction, whatever is interleaved, retried or given up.
THEOREM ImplementsAtomicTransaction ==
  ASSUME AbortIsFinal PROVE Spec => AtomicSpec
<1>1. Init => Atomic!Init
  BY DEF Init, Atomic!Init
<1>2. IInv /\ [Next]_vars => [Atomic!Next]_(Atomic!vars)
  BY AtomicStep
<1>. QED
  BY <1>1, <1>2, Invariance, PTL DEF Spec, AtomicSpec, Atomic!Spec
=============================================================================
