--------------------------- MODULE FsTransaction ---------------------------
(***************************************************************************)
(* One Firestore transaction, from runTransaction in firestore.dart to the *)
(* SDK's worker thread and back.                                           *)
(*                                                                         *)
(* Three parties share it.  The Dart isolate runs the user's handler once  *)
(* per attempt, records its writes in the handle's buffer, and talks to    *)
(* the SDK's thread through a mailbox that holds ONE request.  The SDK's   *)
(* thread is parked on a condition variable inside the update function     *)
(* and serves that mailbox.  The SDK (not in this repository) calls the    *)
(* update function again when the commit met contention.  Other clients    *)
(* write the same documents meanwhile.                                     *)
(*                                                                         *)
(* A document is a version number: two reads are told apart by whether     *)
(* somebody wrote in between, and by nothing else.                         *)
(***************************************************************************)
EXTENDS Integers, Sequences, FiniteSets

CONSTANTS
  Paths,         \* the documents the handler reads and writes
  MaxAttempts,   \* how often the SDK calls the update function, at most
  MaxReads,      \* how many reads the handler keeps in flight at once
  MaxVersion,    \* bound: other clients stop writing at this version
  AbortIsFinal,  \* whether the SDK gives up when the update function
                 \* returns kErrorCancelled, or retries that too
  AllEncodable   \* whether every value a handler records is of a type
                 \* encodeFirestoreValue has a mapping for

ASSUME FsTransactionAssumption ==
  /\ Paths # {}
  /\ MaxAttempts \in Nat \ {0}
  /\ MaxReads \in Nat \ {0}
  /\ MaxVersion \in Nat
  /\ AbortIsFinal \in BOOLEAN
  /\ AllEncodable \in BOOLEAN

Attempts == 1..MaxAttempts

\* What the handler knows of a document, when it is not a version it read.
NotAsked  == -4     \* no get() for it yet; also "no message" on a reply port
Asked     == -3     \* the handler awaits a get() of it
Abandoned == -2     \* the handler stopped awaiting it (Future.timeout)
Failed    == -1     \* the read failed
Unread    == -4     \* not read through the SDK's Transaction

\* What runTransaction's future says, and where one run of the handler is.
Outcomes  == {"pending", "completed", "failed"}
\* ("unsent": it returned, and what it recorded could not be encoded).
RunStates == {"idle", "running", "returned", "threw", "unsent"}
Requests  == {"none", "get", "commit", "abort"}

\* Where the SDK's side is: "parked", "reading" and "applying" are inside the
\* update function, "commit", "cancelled" and "invalid" are what it returned.
SdkStates == {"idle", "queued", "parked", "reading", "applying", "commit",
              "cancelled", "invalid", "committed", "failed", "over"}

NoWrites == [p \in Paths |-> 0]
NoReads  == [p \in Paths |-> NotAsked]

VARIABLES
  \* the Dart isolate
  inbox,       \* the seq numbers queued on the transaction's port
  portOpen,    \* the port has not been closed
  done,        \* the Completer behind the future
  run,         \* per attempt, its run of the handler
  buffer,      \* FirestoreTransaction._writes: per document, the run whose
               \* write to it is recorded, 0 for none
  read,        \* per run and document, what the handler knows of it
  reply,       \* per run and document, the message on that get()'s own port
  result,      \* the facade's `result`: the last run that returned, 0 for none
  \* TxnState, shared under its mutex
  req,         \* the mailbox
  slot,        \* get_port and get_path
  mailbox,     \* the writes handed over by fdb_fs_txn_commit
  attempt,     \* attempts so far
  registered,  \* g_txns holds this transaction
  \* the SDK's worker thread
  sdk,         \* where it is
  serving,     \* its copy of get_port and get_path
  staged,      \* the writes applied to this attempt's Transaction
  sdkReads,    \* the versions read through this attempt's Transaction
  \* the server
  docs,        \* the version of every document
  tookRun,     \* the attempt whose commit took effect, 0 for none
  took         \* the writes that took effect

dartVars   == <<inbox, portOpen, done, run, buffer, read, reply, result>>
sharedVars == <<req, slot, mailbox, attempt, registered>>
sdkVars    == <<sdk, serving, staged, sdkReads>>
serverVars == <<docs, tookRun, took>>
vars       == <<dartVars, sharedVars, sdkVars, serverVars>>

Init ==
  /\ inbox = <<>> /\ portOpen = TRUE /\ done = "pending"
  /\ run = [n \in Attempts |-> "idle"]
  /\ buffer = NoWrites
  /\ read = [n \in Attempts |-> NoReads]
  /\ reply = [n \in Attempts |-> NoReads]
  /\ result = 0
  /\ req = "none" /\ mailbox = NoWrites /\ attempt = 0 /\ registered = FALSE
  /\ slot \in [run : {0}, path : Paths]   \* no port: the path does not matter
  /\ sdk = "idle" /\ serving = slot
  /\ staged = NoWrites /\ sdkReads = NoReads
  /\ docs = [p \in Paths |-> 0] /\ tookRun = 0 /\ took = NoWrites

-----------------------------------------------------------------------------
(* Ports. *)

\* Dart_PostCObject_DL to the transaction's port: a closed port drops it.
Post(seq) ==
  inbox' = IF portOpen THEN Append(inbox, seq) ELSE inbox

\* The future is completed once; later outcomes find it completed.
Settle(outcome) ==
  done' = IF done = "pending" THEN outcome ELSE done

-----------------------------------------------------------------------------
(* Mutated forms of the actions below, each a slip the code could have; no  *)
(* behaviour of Spec takes them.  The runs' properties tell them apart.     *)

\* The update function forgets to wait again after a read.
AnswerReadThenReturn ==
  /\ sdk = "reading"
  /\ sdk' = "commit"
  /\ reply' = [reply EXCEPT ![serving.run][serving.path] = docs[serving.path]]
  /\ UNCHANGED <<inbox, portOpen, done, run, buffer, read, result, sharedVars,
                 serving, staged, sdkReads, serverVars>>

\* get_port is read again after the lock was dropped.
AnswerReadToTheSlot ==
  /\ sdk = "reading"
  /\ sdk' = "parked"
  /\ sdkReads' = [sdkReads EXCEPT ![serving.path] = docs[serving.path]]
  /\ reply' = [reply EXCEPT ![slot.run][slot.path] = docs[serving.path]]
  /\ UNCHANGED <<inbox, portOpen, done, run, buffer, read, result, sharedVars,
                 serving, staged, serverVars>>

\* The document is read directly, not through the SDK's Transaction.
AnswerReadOutside ==
  /\ sdk = "reading"
  /\ sdk' = "parked"
  /\ reply' = [reply EXCEPT ![serving.run][serving.path] = docs[serving.path]]
  /\ UNCHANGED <<inbox, portOpen, done, run, buffer, read, result, sharedVars,
                 serving, staged, sdkReads, serverVars>>

\* A read that fails posts nothing.
AnswerReadOnSuccess ==
  /\ sdk = "reading"
  /\ sdk' = "parked"
  /\ \/ /\ sdkReads' = [sdkReads EXCEPT ![serving.path] = docs[serving.path]]
        /\ reply' = [reply EXCEPT ![serving.run][serving.path] =
                                                        docs[serving.path]]
     \/ UNCHANGED <<reply, sdkReads>>
  /\ UNCHANGED <<inbox, portOpen, done, run, buffer, read, result, sharedVars,
                 serving, staged, serverVars>>

\* An aborted update function returns kErrorOk.
TakeAbortAsSuccess ==
  /\ sdk = "parked" /\ req = "abort"
  /\ req' = "none"
  /\ sdk' = "commit"
  /\ UNCHANGED <<dartVars, slot, mailbox, attempt, registered, serving,
                 staged, sdkReads, serverVars>>

\* The request and the writes stay in the mailbox.
TakeCommitKept ==
  /\ sdk = "parked" /\ req = "commit"
  /\ staged' = mailbox
  /\ sdk' = "applying"
  /\ UNCHANGED <<dartVars, sharedVars, serving, sdkReads, serverVars>>

\* The terminal event ignores f.error().
PostSuccess ==
  /\ sdk \in {"committed", "failed"} /\ ~registered
  /\ Post(0)
  /\ sdk' = "over"
  /\ UNCHANGED <<portOpen, done, run, buffer, read, reply, result, sharedVars,
                 serving, staged, sdkReads, serverVars>>

\* A retry does not reset the handle.
StartRunWithoutReset ==
  /\ portOpen /\ inbox # <<>> /\ Head(inbox) > 0
  /\ inbox' = Tail(inbox)
  /\ run' = [run EXCEPT ![Head(inbox)] = "running"]
  /\ UNCHANGED <<portOpen, done, buffer, read, reply, result, sharedVars,
                 sdkVars, serverVars>>

\* A handler that throws fails the future and tells the SDK nothing.
ThrowWithoutAbort(n) ==
  /\ run[n] = "running" /\ \A p \in Paths : read[n][p] # Asked
  /\ run' = [run EXCEPT ![n] = "threw"]
  /\ Settle("failed")
  /\ UNCHANGED <<inbox, portOpen, buffer, read, reply, result, sharedVars,
                 sdkVars, serverVars>>

-----------------------------------------------------------------------------
(* fdb_fs_txn_begin, called by runTransaction. *)

Begin ==
  /\ sdk = "idle"
  /\ registered' = TRUE
  /\ sdk' = "queued"
  /\ UNCHANGED <<dartVars, req, slot, mailbox, attempt, serving, staged,
                 sdkReads, serverVars>>

\* Firestore is not initialized: no transaction, and the port is closed.
BeginRefused ==
  /\ sdk = "idle"
  /\ sdk' = "over"
  /\ portOpen' = FALSE
  /\ Settle("failed")
  /\ UNCHANGED <<inbox, run, buffer, read, reply, result, sharedVars, serving,
                 staged, sdkReads, serverVars>>

-----------------------------------------------------------------------------
(* The update function, on the SDK's worker thread. *)

\* The SDK calls it, with a Transaction that has read nothing yet.  Nothing
\* here clears a request that is still in the mailbox.
EnterUpdate ==
  /\ sdk = "queued"
  /\ attempt' = attempt + 1
  /\ Post(attempt + 1)
  /\ sdk' = "parked"
  /\ staged' = NoWrites
  /\ sdkReads' = NoReads
  /\ UNCHANGED <<portOpen, done, run, buffer, read, reply, result, req, slot,
                 mailbox, registered, serving, serverVars>>

\* Woken by kGet: the request is copied out and the lock is dropped.
TakeRead ==
  /\ sdk = "parked" /\ req = "get"
  /\ serving' = slot
  /\ req' = "none"
  /\ sdk' = "reading"
  /\ UNCHANGED <<dartVars, slot, mailbox, attempt, registered, staged,
                 sdkReads, serverVars>>

\* Transaction::Get returns, unlocked; the answer goes to that get()'s port.
AnswerRead ==
  /\ sdk = "reading"
  /\ sdk' = "parked"
  /\ \/ /\ sdkReads' = [sdkReads EXCEPT ![serving.path] = docs[serving.path]]
        /\ reply' = [reply EXCEPT ![serving.run][serving.path] =
                                                        docs[serving.path]]
     \/ /\ reply' = [reply EXCEPT ![serving.run][serving.path] = Failed]
        /\ UNCHANGED sdkReads
  /\ UNCHANGED <<inbox, portOpen, done, run, buffer, read, result, sharedVars,
                 serving, staged, serverVars>>

\* Woken by kAbort: the update function returns kErrorCancelled.
TakeAbort ==
  /\ sdk = "parked" /\ req = "abort"
  /\ req' = "none"
  /\ sdk' = "cancelled"
  /\ UNCHANGED <<dartVars, slot, mailbox, attempt, registered, serving,
                 staged, sdkReads, serverVars>>

\* Woken by kCommit: the writes are moved out and the lock is dropped.
TakeCommit ==
  /\ sdk = "parked" /\ req = "commit"
  /\ staged' = mailbox
  /\ mailbox' = NoWrites
  /\ req' = "none"
  /\ sdk' = "applying"
  /\ UNCHANGED <<dartVars, slot, attempt, registered, serving, sdkReads,
                 serverVars>>

\* ApplyWrites, unlocked.  A write that cannot be decoded makes the update
\* function return kErrorInvalidArgument, whatever was applied before it.
ApplyWrites ==
  /\ sdk = "applying"
  /\ sdk' \in {"commit", "invalid"}
  /\ UNCHANGED <<dartVars, sharedVars, serving, staged, sdkReads, serverVars>>

-----------------------------------------------------------------------------
(* The SDK and the server: not in this repository, modelled from how the   *)
(* update function, its comments and the tests rely on them.               *)

\* The commit takes effect only if what this attempt read is still current.
SdkCommits ==
  /\ sdk = "commit"
  /\ \A p \in Paths : sdkReads[p] # Unread => sdkReads[p] = docs[p]
  /\ docs' = [p \in Paths |-> IF staged[p] # 0 THEN docs[p] + 1 ELSE docs[p]]
  /\ tookRun' = attempt
  /\ took' = staged
  /\ sdk' = "committed"
  /\ UNCHANGED <<dartVars, sharedVars, serving, staged, sdkReads>>

Retried == IF attempt < MaxAttempts THEN "queued" ELSE "failed"

\* The server reports contention: the SDK runs the update function again.
SdkConflict ==
  /\ sdk = "commit"
  /\ sdk' = Retried
  /\ UNCHANGED <<dartVars, sharedVars, serving, staged, sdkReads, serverVars>>

\* The server refuses the writes for good (rules, a missing document).
SdkRejects ==
  /\ sdk = "commit"
  /\ sdk' = "failed"
  /\ UNCHANGED <<dartVars, sharedVars, serving, staged, sdkReads, serverVars>>

\* The update function returned an error.
SdkHandlesError ==
  /\ \/ /\ sdk = "cancelled"
        /\ sdk' = IF AbortIsFinal THEN "failed" ELSE Retried
     \/ /\ sdk = "invalid"
        /\ sdk' = "failed"
  /\ UNCHANGED <<dartVars, sharedVars, serving, staged, sdkReads, serverVars>>

OtherWrites(p) ==
  /\ docs[p] < MaxVersion
  /\ docs' = [docs EXCEPT ![p] = @ + 1]
  /\ UNCHANGED <<dartVars, sharedVars, sdkVars, tookRun, took>>

-----------------------------------------------------------------------------
(* OnCompletion of the SDK's future: erase under g_mutex, then post. *)

EraseEntry ==
  /\ sdk \in {"committed", "failed"} /\ registered
  /\ registered' = FALSE
  /\ UNCHANGED <<dartVars, req, slot, mailbox, attempt, sdkVars, serverVars>>

PostTerminal ==
  /\ sdk \in {"committed", "failed"} /\ ~registered
  /\ Post(IF sdk = "committed" THEN 0 ELSE -1)
  /\ sdk' = "over"
  /\ UNCHANGED <<portOpen, done, run, buffer, read, reply, result, sharedVars,
                 serving, staged, sdkReads, serverVars>>

-----------------------------------------------------------------------------
(* The port handler of runTransaction. *)

\* seq > 0, an attempt: the buffer is reset and the handler runs.  Nothing
\* makes this wait for an earlier run, and nothing looks at the future.
StartRun ==
  /\ portOpen /\ inbox # <<>> /\ Head(inbox) > 0
  /\ inbox' = Tail(inbox)
  /\ run' = [run EXCEPT ![Head(inbox)] = "running"]
  /\ buffer' = NoWrites
  /\ UNCHANGED <<portOpen, done, read, reply, result, sharedVars, sdkVars,
                 serverVars>>

\* seq 0 or less, the terminal event: the port is closed, which drops
\* whatever is still queued on it.
Finish ==
  /\ portOpen /\ inbox # <<>> /\ Head(inbox) <= 0
  /\ inbox' = <<>>
  /\ portOpen' = FALSE
  /\ Settle(IF Head(inbox) = 0 THEN "completed" ELSE "failed")
  /\ UNCHANGED <<run, buffer, read, reply, result, sharedVars, sdkVars,
                 serverVars>>

-----------------------------------------------------------------------------
(* The user's handler, during run n. *)

Awaiting(n) == {p \in Paths : read[n][p] = Asked}

\* FirestoreTransaction.get and fdb_fs_txn_get: refused after a write, and
\* refused (the future is an error, nothing changes) once the registry has
\* no such transaction; otherwise the mailbox is set, whatever it holds.
Get(n, p) ==
  /\ run[n] = "running" /\ buffer = NoWrites
  /\ read[n][p] = NotAsked /\ Cardinality(Awaiting(n)) < MaxReads
  /\ registered
  /\ read' = [read EXCEPT ![n][p] = Asked]
  /\ slot' = [run |-> n, path |-> p]
  /\ req' = "get"
  /\ UNCHANGED <<inbox, portOpen, done, run, buffer, reply, result, mailbox,
                 attempt, registered, sdkVars, serverVars>>

\* The reply port's handler: the awaited future completes, one that was given
\* up ignores the late answer.
ReceiveReply(n, p) ==
  /\ reply[n][p] # NotAsked
  /\ reply' = [reply EXCEPT ![n][p] = NotAsked]
  /\ read' = [read EXCEPT ![n][p] = IF @ = Asked THEN reply[n][p] ELSE @]
  /\ UNCHANGED <<inbox, portOpen, done, run, buffer, result, sharedVars,
                 sdkVars, serverVars>>

\* The handler stops waiting for a read, as Future.timeout does.
GiveUp(n, p) ==
  /\ run[n] = "running" /\ read[n][p] = Asked
  /\ read' = [read EXCEPT ![n][p] = Abandoned]
  /\ UNCHANGED <<inbox, portOpen, done, run, buffer, reply, result,
                 sharedVars, sdkVars, serverVars>>

\* FirestoreTransaction.set, update or delete.
Record(n, p) ==
  /\ run[n] = "running"
  /\ buffer' = [buffer EXCEPT ![p] = n]
  /\ UNCHANGED <<inbox, portOpen, done, run, read, reply, result, sharedVars,
                 sdkVars, serverVars>>

\* The handler returns: fdb_fs_txn_commit hands its writes over.  A return
\* code other than 0 (the transaction is no longer registered) is ignored.
Return(n) ==
  /\ run[n] = "running" /\ Awaiting(n) = {}
  /\ run' = [run EXCEPT ![n] = "returned"]
  /\ result' = n
  /\ IF registered
     THEN mailbox' = buffer /\ req' = "commit"
     ELSE UNCHANGED <<mailbox, req>>
  /\ UNCHANGED <<inbox, portOpen, done, buffer, read, reply, slot, attempt,
                 registered, sdkVars, serverVars>>

\* The handler returns and _encodeWrites throws, outside the try: neither a
\* commit nor an abort is sent, and the future is not completed.
ReturnUnencodable(n) ==
  /\ ~AllEncodable
  /\ run[n] = "running" /\ Awaiting(n) = {} /\ buffer # NoWrites
  /\ run' = [run EXCEPT ![n] = "unsent"]
  /\ result' = n
  /\ UNCHANGED <<inbox, portOpen, done, buffer, read, reply, sharedVars,
                 sdkVars, serverVars>>

\* The handler throws: fdb_fs_txn_abort, and the error is the caller's.
Throw(n) ==
  /\ run[n] = "running" /\ Awaiting(n) = {}
  /\ run' = [run EXCEPT ![n] = "threw"]
  /\ req' = IF registered THEN "abort" ELSE req
  /\ Settle("failed")
  /\ UNCHANGED <<inbox, portOpen, buffer, read, reply, result, slot, mailbox,
                 attempt, registered, sdkVars, serverVars>>

-----------------------------------------------------------------------------

\* Everything has been said and every late answer has arrived, or the SDK's
\* thread waits for a request that will not come.
Quiet ==
  /\ \/ /\ sdk = "over" /\ ~portOpen
        /\ \A n \in Attempts : run[n] # "running" /\ reply[n] = NoReads
     \/ \E n \in Attempts : run[n] = "unsent" /\ sdk = "parked" /\ req = "none"
  /\ UNCHANGED vars

UpdateFunction ==
  EnterUpdate \/ TakeRead \/ AnswerRead \/ TakeAbort \/ TakeCommit \/ ApplyWrites

SdkDecides == SdkCommits \/ SdkConflict \/ SdkRejects \/ SdkHandlesError

EndRun(n) == Return(n) \/ ReturnUnencodable(n) \/ Throw(n)

Next ==
  \/ Begin \/ BeginRefused
  \/ UpdateFunction
  \/ SdkDecides
  \/ EraseEntry \/ PostTerminal
  \/ StartRun \/ Finish
  \/ \E n \in Attempts : EndRun(n)
  \/ \E n \in Attempts, p \in Paths :
        Get(n, p) \/ ReceiveReply(n, p) \/ GiveUp(n, p) \/ Record(n, p)
  \/ \E p \in Paths : OtherWrites(p)
  \/ Quiet

Spec == Init /\ [][Next]_vars

\* Both threads are scheduled, the event loop delivers what is queued, the
\* network answers or fails, and a handler that awaits no read comes to an
\* end.  No fairness on begin, on other clients, or on giving up a read.
Fairness ==
  /\ WF_vars(UpdateFunction)
  /\ WF_vars(SdkDecides)
  /\ WF_vars(EraseEntry) /\ WF_vars(PostTerminal)
  /\ WF_vars(StartRun) /\ WF_vars(Finish)
  /\ \A n \in Attempts : WF_vars(EndRun(n))
  /\ \A n \in Attempts, p \in Paths : WF_vars(ReceiveReply(n, p))

FairSpec == Spec /\ Fairness

-----------------------------------------------------------------------------
(* Properties. *)

InUpdate == {"parked", "reading", "applying"}

\* The variables hold what the fields of the code can hold.
TypeOK ==
  /\ inbox \in Seq(-1..MaxAttempts)
  /\ portOpen \in BOOLEAN /\ registered \in BOOLEAN
  /\ done \in Outcomes
  /\ run \in [Attempts -> RunStates]
  /\ buffer \in [Paths -> 0..MaxAttempts]
  /\ read \in [Attempts -> [Paths -> Int]]
  /\ reply \in [Attempts -> [Paths -> Int]]
  /\ result \in 0..MaxAttempts
  /\ req \in Requests
  /\ slot \in [run : 0..MaxAttempts, path : Paths]
  /\ serving \in [run : 0..MaxAttempts, path : Paths]
  /\ mailbox \in [Paths -> 0..MaxAttempts]
  /\ attempt \in 0..MaxAttempts
  /\ sdk \in SdkStates
  /\ staged \in [Paths -> 0..MaxAttempts]
  /\ sdkReads \in [Paths -> Int]
  /\ docs \in [Paths -> Nat]
  /\ tookRun \in 0..MaxAttempts
  /\ took \in [Paths -> 0..MaxAttempts]

\* While a run of the handler is in progress the SDK's thread is inside the
\* update function of that very attempt: a retry never starts beside a run
\* that shares its buffer (the SDK's thread "parks on a condition variable
\* and serves requests from Dart until told to commit").
RunIsCurrent ==
  \A n \in Attempts :
    run[n] = "running" => n = attempt /\ sdk \in {"parked", "reading"}

\* The SDK's thread only ever acts on a request made by the run of its own
\* attempt, although nothing clears the mailbox between attempts.
RequestIsOfThisAttempt ==
  /\ sdk = "reading" => serving.run = attempt
  /\ sdk \in {"applying", "commit"} =>
        \A p \in Paths : staged[p] \in {0, attempt}

\* Every version the current run has seen, or is about to receive, is one the
\* commit will check: it was read through this attempt's Transaction.
ReadsAreGuarded ==
  sdk \in InUpdate \cup {"commit"} =>
    \A p \in Paths :
      /\ read[attempt][p] >= 0 => read[attempt][p] = sdkReads[p]
      /\ reply[attempt][p] >= 0 => reply[attempt][p] = sdkReads[p]

\* What takes effect is exactly what one run recorded, and that run returned:
\* nothing left over from an earlier attempt, nothing of a run that threw.
OneRunTakesEffect ==
  tookRun # 0 =>
    /\ run[tookRun] = "returned"
    /\ took = buffer
    /\ \A p \in Paths : took[p] \in {0, tookRun}

\* "A handler that throws aborts: nothing it recorded is written", and no
\* failed future stands for a transaction that took, or takes, effect.
FailureWritesNothing == done = "failed" => tookRun = 0

\* A completed future stands for a commit, and the value the facade returns is
\* that of the run whose writes were committed, however many runs there were.
CompletedIsCommitted ==
  done = "completed" => tookRun # 0 /\ result = tookRun

\* Refinement: the rendezvous implements the promise.
SeenBy(n) == [p \in Paths |-> IF read[n][p] >= 0 THEN read[n][p] ELSE Unread]

Atomic == INSTANCE AtomicTransaction WITH
  told <- done,
  took <- tookRun # 0,
  basis <- IF tookRun = 0 THEN NoReads ELSE SeenBy(tookRun),
  written <- {p \in Paths : took[p] # 0}

AtomicSpec == Atomic!Spec

\* "Reads go to the backend immediately": a read the handler awaits is
\* answered, unless the handler stops awaiting it.
EveryReadAnswered ==
  \A n \in Attempts, p \in Paths : (read[n][p] = Asked) ~> (read[n][p] # Asked)

\* A transaction that was begun ends: the SDK's thread is released, the future
\* has its outcome, and the port is closed.
EveryTransactionEnds ==
  (sdk = "queued") ~> (sdk = "over" /\ done # "pending" /\ ~portOpen)

-----------------------------------------------------------------------------
(* The inductive invariant.  The safety properties follow from it; none of  *)
(* them is inductive, because none says what is in flight between the two   *)
(* threads.                                                                 *)

\* The attempt has entered the update function and is not decided yet.
InAttempt == InUpdate \cup {"commit", "cancelled", "invalid"}

\* The port carries one event at a time: the attempt whose run has not
\* started, with the SDK's thread parked and nothing asked of it, or the
\* terminal event.
PortInv ==
  /\ Len(inbox) <= 1
  /\ sdk # "over" => portOpen
  /\ (Len(inbox) = 1 /\ inbox[1] > 0) =>
        /\ inbox[1] = attempt
        /\ sdk = "parked" /\ req = "none" /\ run[attempt] = "idle"
  /\ (Len(inbox) = 1 /\ inbox[1] <= 0) => sdk = "over"
  /\ (Len(inbox) = 1 /\ inbox[1] = 0) => tookRun # 0
  /\ (Len(inbox) = 1 /\ inbox[1] < 0) => tookRun = 0

\* Runs of earlier attempts are over, those of later ones have not begun, and
\* the current one is over before the SDK decides what becomes of its attempt.
RunInv ==
  /\ \A n \in Attempts :
        /\ n > attempt => run[n] = "idle"
        /\ n < attempt => run[n] \in {"returned", "threw"}
  /\ sdk = "idle" => attempt = 0 /\ tookRun = 0
  /\ sdk \in InAttempt => attempt # 0
  /\ sdk = "queued" => attempt < MaxAttempts
  /\ attempt # 0 =>
        /\ sdk \notin InAttempt => run[attempt] \in {"returned", "threw"}
        /\ sdk \in {"applying", "commit", "invalid", "committed"} =>
              run[attempt] = "returned"
        /\ sdk = "cancelled" => run[attempt] = "threw"
        /\ run[attempt] = "returned" => result = attempt

\* A read the handler awaits is in flight in a run in progress; one whose
\* answer is queued or has arrived was asked for, once.
ReadInv ==
  \A n \in Attempts, p \in Paths :
     /\ reply[n][p] \in {NotAsked, Failed} \cup Nat
     /\ run[n] # "running" => read[n][p] # Asked
     /\ run[n] = "idle" => read[n][p] = NotAsked
     /\ read[n][p] \notin {Asked, Abandoned} => reply[n][p] = NotAsked

\* A read on its way to the SDK's thread, or on it, is unanswered and of this
\* attempt, and the two are not the same.
RouteInv ==
  /\ req = "get" =>
        /\ run[attempt] \in {"running", "unsent"} /\ slot.run = attempt
        /\ read[attempt][slot.path] \in {Asked, Abandoned}
        /\ reply[attempt][slot.path] = NotAsked
  /\ sdk = "reading" =>
        /\ serving.run = attempt
        /\ read[attempt][serving.path] \in {Asked, Abandoned}
        /\ reply[attempt][serving.path] = NotAsked
  /\ (req = "get" /\ sdk = "reading") => slot.path # serving.path

\* The other requests say how the current run ended.
MailboxInv ==
  /\ req # "none" => sdk \in {"parked", "reading"}
  /\ req = "commit" => run[attempt] = "returned" /\ mailbox = buffer
  /\ req = "abort" => run[attempt] = "threw"
  /\ sdk \in {"parked", "reading"} =>
        /\ run[attempt] = "returned" => req = "commit"
        /\ run[attempt] = "threw" => req = "abort"
  /\ (attempt # 0 /\ run[attempt] = "unsent") => req \in {"none", "get"}
  /\ sdk \in {"queued"} \cup InAttempt => registered

\* The buffer holds the current run's writes, and they are what is applied.
WritesInv ==
  /\ (attempt # 0 /\ run[attempt] # "idle") =>
        \A p \in Paths : buffer[p] \in {0, attempt}
  /\ sdk \in {"applying", "commit"} => staged = buffer

\* Nothing takes effect before the SDK's commit, and nothing changes after it.
OutcomeInv ==
  /\ sdk = "committed" => tookRun # 0
  /\ tookRun # 0 =>
        /\ tookRun = attempt /\ sdk \in {"committed", "over"}
        /\ run[attempt] = "returned"
        /\ took = buffer
  /\ tookRun = 0 => took = NoWrites
  /\ done = "completed" => tookRun # 0 /\ ~portOpen

\* Once an abort is final, a failed future means that the attempt the handler
\* threw in is the last.
AbortInv ==
  (AbortIsFinal /\ done = "failed") =>
     /\ tookRun = 0
     /\ \/ sdk \in {"failed", "over"}
        \/ sdk \in {"parked", "reading", "cancelled"} /\ run[attempt] = "threw"

IInv ==
  /\ TypeOK
  /\ PortInv
  /\ RunInv
  /\ ReadInv
  /\ RouteInv
  /\ MailboxInv
  /\ WritesInv
  /\ ReadsAreGuarded
  /\ OutcomeInv
  /\ AbortInv
=============================================================================
