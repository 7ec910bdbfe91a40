--------------------------- MODULE DbTransaction ---------------------------
(***************************************************************************)
(* Realtime Database transactions at one path, from runDbTransaction in    *)
(* database.dart to the database's scheduler thread and back.              *)
(*                                                                         *)
(* The SDK calls the transaction function on its one scheduler thread,     *)
(* which parks until the isolate has answered the value it posted; the     *)
(* handler is synchronous, so the port's handler decides and answers in    *)
(* one go.  The SDK commits if the value is still what the handler saw,    *)
(* and calls the function again if it is not.                              *)
(*                                                                         *)
(* A value is a version number: who wrote it, and from which version, is   *)
(* all that is told apart.                                                 *)
(***************************************************************************)
EXTENDS Integers, Sequences

CONSTANTS
  Txns,           \* the transactions one isolate runs at the path
  NoTxn,          \* the scheduler thread is in no transaction function
  MaxAttempts,    \* how often the SDK calls the function, at most
  MaxVersion      \* bound: other clients stop writing at this version

ASSUME DbTransactionAssumption ==
  /\ NoTxn \notin Txns
  /\ MaxAttempts \in Nat \ {0}
  /\ MaxVersion \in Nat

Attempts == 1..MaxAttempts
NoValue  == -1

\* What runDbTransaction's future says: a committed value, null for an abort,
\* a DatabaseException.
Outcomes  == {"pending", "committed", "null", "failed"}
\* "posting" and "parked" are inside the transaction function; "sent" and
\* "aborted" are what it returned.
SdkStates == {"idle", "queued", "posting", "parked", "sent", "aborted",
              "committed", "failed", "posted", "over"}

VARIABLES
  \* the isolate, per transaction
  inbox,       \* the events on the transaction's port
  portOpen,    \* the port has not been closed
  done,        \* the Completer behind the future
  aborted,     \* runDbTransaction's flag: an abort was asked for
  userAborted, \* the facade's flag: the user's handler returned an abort
  uncaught,    \* the transactions whose port handler threw, past its try
  \* DbTxnState
  answered, abort,
  value,       \* the version the answer was decided from
  attempt, registered,
  \* the SDK
  sdk,
  thread,      \* the transaction whose function holds the scheduler thread
  seen,        \* the version given to the function in this attempt
  \* the server
  server,      \* the version of the value
  took         \* per transaction, the version its commit wrote, 0 for none

dartVars   == <<inbox, portOpen, done, aborted, userAborted, uncaught>>
stateVars  == <<answered, abort, value, attempt, registered>>
sdkVars    == <<sdk, thread, seen>>
serverVars == <<server, took>>
vars       == <<dartVars, stateVars, sdkVars, serverVars>>

Init ==
  /\ inbox = [t \in Txns |-> <<>>]
  /\ portOpen = [t \in Txns |-> TRUE]
  /\ done = [t \in Txns |-> "pending"]
  /\ aborted = [t \in Txns |-> FALSE]
  /\ userAborted = [t \in Txns |-> FALSE]
  /\ uncaught = {}
  /\ answered = [t \in Txns |-> FALSE]
  /\ abort = [t \in Txns |-> FALSE]
  /\ value = [t \in Txns |-> NoValue]
  /\ attempt = [t \in Txns |-> 0]
  /\ registered = [t \in Txns |-> FALSE]
  /\ sdk = [t \in Txns |-> "idle"]
  /\ thread = NoTxn
  /\ seen = [t \in Txns |-> NoValue]
  /\ server = 0
  /\ took = [t \in Txns |-> 0]

Step(t, from, to) == sdk[t] = from /\ sdk' = [sdk EXCEPT ![t] = to]

Post(t, event) ==
  inbox' = IF portOpen[t] THEN [inbox EXCEPT ![t] = Append(@, event)] ELSE inbox

-----------------------------------------------------------------------------
(* Mutated forms, each a slip the code could have. *)

\* `answered` is not reset for a new attempt.
EnterFunctionKeepingAnswer(t) ==
  /\ thread = NoTxn
  /\ thread' = t
  /\ seen' \in {[seen EXCEPT ![t] = v] : v \in 0..server}
  /\ Step(t, "queued", "posting")
  /\ attempt' = [attempt EXCEPT ![t] = @ + 1]
  /\ UNCHANGED <<dartVars, answered, abort, value, registered, serverVars>>

\* The thread is not notified of an abort.
AnswerWithoutAbort(t, isAbort) ==
  IF registered[t] /\ ~isAbort
  THEN /\ answered' = [answered EXCEPT ![t] = TRUE]
       /\ abort' = [abort EXCEPT ![t] = FALSE]
       /\ value' = [value EXCEPT ![t] = Head(inbox[t]).seen]
  ELSE UNCHANGED <<answered, abort, value>>

\* The terminal event does not look at f.error().
PostTerminalAsSuccess(t) ==
  /\ sdk[t] \in {"committed", "failed"}
  /\ Post(t, [seq |-> 0, seen |-> NoValue])
  /\ sdk' = [sdk EXCEPT ![t] = "posted"]
  /\ UNCHANGED <<portOpen, done, aborted, userAborted, uncaught, stateVars,
                 thread, seen, serverVars>>

\* The terminal event's handler does not ask whether an attempt was aborted.
HandleTerminalWithoutFlag(t) ==
  /\ portOpen[t] /\ inbox[t] # <<>> /\ Head(inbox[t]).seq <= 0
  /\ inbox' = [inbox EXCEPT ![t] = <<>>]
  /\ portOpen' = [portOpen EXCEPT ![t] = FALSE]
  /\ done' = [done EXCEPT ![t] = IF Head(inbox[t]).seq = 0 THEN "committed" ELSE "failed"]
  /\ UNCHANGED <<aborted, userAborted, uncaught, stateVars, sdkVars, serverVars>>

-----------------------------------------------------------------------------
(* fdb_db_txn_run. *)

Run(t) ==
  /\ Step(t, "idle", "queued")
  /\ registered' = [registered EXCEPT ![t] = TRUE]
  /\ UNCHANGED <<dartVars, answered, abort, value, attempt, thread, seen,
                 serverVars>>

\* No database: the port is closed and the future is an error.
RunRefused(t) ==
  /\ Step(t, "idle", "over")
  /\ portOpen' = [portOpen EXCEPT ![t] = FALSE]
  /\ done' = [done EXCEPT ![t] = "failed"]
  /\ UNCHANGED <<inbox, aborted, userAborted, uncaught, stateVars, thread, seen,
                 serverVars>>

-----------------------------------------------------------------------------
(* The transaction function, on the scheduler thread. *)

\* The SDK calls it with the value it knows of, which may be older than the
\* server's.
EnterFunction(t) ==
  /\ thread = NoTxn
  /\ thread' = t
  /\ seen' \in {[seen EXCEPT ![t] = v] : v \in 0..server}
  /\ Step(t, "queued", "posting")
  /\ answered' = [answered EXCEPT ![t] = FALSE]
  /\ attempt' = [attempt EXCEPT ![t] = @ + 1]
  /\ UNCHANGED <<dartVars, abort, value, registered, serverVars>>

\* The value could not be serialized: the function returns an abort.
EnterFunctionUnserializable(t) ==
  /\ thread = NoTxn
  /\ Step(t, "queued", "aborted")
  /\ UNCHANGED <<dartVars, stateVars, thread, seen, serverVars>>

\* Unlocked: "Dart can answer before this thread reaches the wait".
PostAttempt(t) ==
  /\ Step(t, "posting", "parked")
  /\ Post(t, [seq |-> attempt[t], seen |-> seen[t]])
  /\ UNCHANGED <<portOpen, done, aborted, userAborted, uncaught, stateVars,
                 thread, seen, serverVars>>

\* Answered: an abort, a value, or one that cannot be parsed.
Wake(t) ==
  /\ answered[t]
  /\ \/ Step(t, "parked", "aborted")
     \/ ~abort[t] /\ Step(t, "parked", "sent")
  /\ thread' = NoTxn
  /\ UNCHANGED <<dartVars, stateVars, seen, serverVars>>

-----------------------------------------------------------------------------
(* The SDK and the server: not in this repository, modelled from how the   *)
(* function, its comments and the tests rely on them.                      *)

\* The value is still what the handler decided from.
Commit(t) ==
  /\ Step(t, "sent", "committed")
  /\ seen[t] = server
  /\ server' = server + 1
  /\ took' = [took EXCEPT ![t] = server + 1]
  /\ UNCHANGED <<dartVars, stateVars, thread, seen>>

\* It is not: the function is called again, so many times.
Rerun(t) ==
  /\ seen[t] # server
  /\ Step(t, "sent", IF attempt[t] < MaxAttempts THEN "queued" ELSE "failed")
  /\ UNCHANGED <<dartVars, stateVars, thread, seen, serverVars>>

\* The server refuses the write, or the function aborted.
Fail(t) ==
  /\ \/ Step(t, "sent", "failed")
     \/ Step(t, "aborted", "failed")
  /\ UNCHANGED <<dartVars, stateVars, thread, seen, serverVars>>

OtherWrites ==
  /\ server < MaxVersion
  /\ server' = server + 1
  /\ UNCHANGED <<dartVars, stateVars, sdkVars, took>>

-----------------------------------------------------------------------------
(* OnCompletion of the SDK's future: post, then erase under g_mutex. *)

PostTerminal(t) ==
  /\ sdk[t] \in {"committed", "failed"}
  /\ Post(t, [seq |-> IF sdk[t] = "committed" THEN 0 ELSE -1, seen |-> NoValue])
  /\ sdk' = [sdk EXCEPT ![t] = "posted"]
  /\ UNCHANGED <<portOpen, done, aborted, userAborted, uncaught, stateVars,
                 thread, seen, serverVars>>

EraseEntry(t) ==
  /\ Step(t, "posted", "over")
  /\ registered' = [registered EXCEPT ![t] = FALSE]
  /\ UNCHANGED <<dartVars, answered, abort, value, attempt, thread, seen,
                 serverVars>>

-----------------------------------------------------------------------------
(* The port handler of runDbTransaction. *)

\* fdb_db_txn_apply, -1 (ignored) when the transaction is not registered.
Answer(t, isAbort) ==
  IF registered[t]
  THEN /\ answered' = [answered EXCEPT ![t] = TRUE]
       /\ abort' = [abort EXCEPT ![t] = isAbort]
       /\ value' = [value EXCEPT ![t] = Head(inbox[t]).seen]
  ELSE UNCHANGED <<answered, abort, value>>

Receives(t) == portOpen[t] /\ inbox[t] # <<>>

\* An attempt.  "anything that throws here has to still answer": a handler
\* that throws is answered as an abort, which the facade does not hear of.
HandleAttempt(t, decision) ==
  /\ Receives(t) /\ Head(inbox[t]).seq > 0
  /\ inbox' = [inbox EXCEPT ![t] = Tail(@)]
  /\ aborted' = [aborted EXCEPT ![t] = @ \/ decision # "commit"]
  /\ userAborted' = [userAborted EXCEPT ![t] = @ \/ decision = "abort"]
  /\ Answer(t, decision # "commit")
  /\ UNCHANGED <<portOpen, done, uncaught, attempt, registered, sdkVars,
                 serverVars>>

\* The decision is a value encodeVariant has no mapping for.  It throws, past
\* the try, and nothing is answered.
HandleAttemptUnencodable(t) ==
  /\ Receives(t) /\ Head(inbox[t]).seq > 0
  /\ inbox' = [inbox EXCEPT ![t] = Tail(@)]
  /\ uncaught' = uncaught \cup {t}
  /\ UNCHANGED <<portOpen, done, aborted, userAborted, stateVars, sdkVars,
                 serverVars>>

\* The terminal event.  A reason that does not read as CBOR makes the port
\* handler throw after it closed the port, before it completes the future.
HandleTerminal(t) ==
  /\ Receives(t) /\ Head(inbox[t]).seq <= 0
  /\ inbox' = [inbox EXCEPT ![t] = <<>>]
  /\ portOpen' = [portOpen EXCEPT ![t] = FALSE]
  /\ \/ /\ Head(inbox[t]).seq = 0
        /\ done' = [done EXCEPT ![t] = "committed"]
        /\ UNCHANGED uncaught
     \/ /\ Head(inbox[t]).seq < 0 /\ aborted[t]
        /\ done' = [done EXCEPT ![t] = "null"]
        /\ UNCHANGED uncaught
     \/ /\ Head(inbox[t]).seq < 0 /\ ~aborted[t]
        /\ \/ done' = [done EXCEPT ![t] = "failed"] /\ UNCHANGED uncaught
           \/ uncaught' = uncaught \cup {t} /\ UNCHANGED done
  /\ UNCHANGED <<aborted, userAborted, stateVars, sdkVars, serverVars>>

-----------------------------------------------------------------------------

\* Every transaction is over, or the scheduler thread is parked for good.
Quiet ==
  /\ \/ \A t \in Txns : sdk[t] = "over" /\ ~portOpen[t]
     \/ \E t \in uncaught : thread = t
  /\ UNCHANGED vars

Function(t)  == EnterFunction(t) \/ EnterFunctionUnserializable(t)
                \/ PostAttempt(t) \/ Wake(t)
Decided(t)   == Commit(t) \/ Rerun(t) \/ Fail(t)
Completed(t) == PostTerminal(t) \/ EraseEntry(t)
HandleEvent(t) == \/ \E decision \in {"commit", "abort", "throw"} :
                        HandleAttempt(t, decision)
                  \/ HandleAttemptUnencodable(t)
                  \/ HandleTerminal(t)

Next ==
  \/ \E t \in Txns : \/ Run(t) \/ RunRefused(t)
                     \/ Function(t) \/ Decided(t) \/ Completed(t)
                     \/ HandleEvent(t)
  \/ OtherWrites
  \/ Quiet

Spec == Init /\ [][Next]_vars

\* The scheduler thread runs what is queued and wakes when notified, the
\* server answers or the connection fails, the event loop delivers.
Fairness ==
  \A t \in Txns : /\ WF_vars(Function(t)) /\ WF_vars(Decided(t))
                  /\ WF_vars(Completed(t)) /\ WF_vars(HandleEvent(t))

FairSpec == Spec /\ Fairness

-----------------------------------------------------------------------------
(* Properties. *)

TypeOK ==
  /\ inbox \in [Txns -> Seq([seq : -1..MaxAttempts, seen : Int])]
  /\ portOpen \in [Txns -> BOOLEAN]
  /\ done \in [Txns -> Outcomes]
  /\ aborted \in [Txns -> BOOLEAN] /\ userAborted \in [Txns -> BOOLEAN]
  /\ uncaught \subseteq Txns
  /\ answered \in [Txns -> BOOLEAN] /\ abort \in [Txns -> BOOLEAN]
  /\ value \in [Txns -> Int] /\ seen \in [Txns -> Int]
  /\ attempt \in [Txns -> 0..MaxAttempts]
  /\ registered \in [Txns -> BOOLEAN]
  /\ sdk \in [Txns -> SdkStates]
  /\ thread \in Txns \cup {NoTxn}
  /\ server \in Nat /\ took \in [Txns -> Nat]

\* What goes to the server was decided from the value it will be compared
\* with: the answer is this attempt's, never one left from an earlier attempt.
DecidedFromThisAttempt ==
  \A t \in Txns : sdk[t] = "sent" => value[t] = seen[t]

\* "The SDK re-runs it when the value changed underneath": a committed value
\* was computed from the one it replaced, and nobody else's write in between
\* is lost ("or the commit could not be 8").
NoLostUpdate ==
  \A t \in Txns : took[t] # 0 =>
    /\ value[t] = took[t] - 1
    /\ \A u \in Txns \ {t} : took[u] # took[t]

\* "A handler that aborts completes with null" and leaves the value alone, and
\* a DatabaseException means nothing was written; a value is returned only by
\* a transaction that committed.
OutcomeIsTrue ==
  \A t \in Txns :
    /\ done[t] \in {"null", "failed"} => took[t] = 0
    /\ done[t] = "committed" => took[t] # 0

\* Refinement: the transactions of an isolate, with the scheduler thread and the
\* port between them and the server, are atomic updates.
Atomic == INSTANCE AtomicUpdates WITH
  None  <- NoValue,
  asked <- aborted,
  told  <- done,
  from  <- [t \in Txns |-> IF took[t] # 0 THEN value[t] ELSE NoValue]

UpdatesSpec == Atomic!Spec

-----------------------------------------------------------------------------
(* The inductive invariant.  The safety properties say what an answer and an *)
(* outcome are worth; it adds what is under way between the scheduler       *)
(* thread, the port and the server.                                         *)

\* One event of a transaction is on its way at a time: the attempt its parked
\* thread waits for an answer to, or how it ended.  Only that last one finds the
\* port closed behind it.
PortInv(t) ==
  /\ Len(inbox[t]) <= 1
  /\ Len(inbox[t]) = 1 =>
       \/ sdk[t] = "parked" /\ ~answered[t]
          /\ inbox[t][1].seq = attempt[t] /\ inbox[t][1].seen = seen[t]
       \/ sdk[t] \in {"posted", "over"} /\ portOpen[t]
          /\ inbox[t][1].seq = IF took[t] # 0 THEN 0 ELSE -1
  /\ ~portOpen[t] => sdk[t] \in {"posted", "over"}
  /\ done[t] # "pending" => ~portOpen[t]

\* Where a transaction is: who holds the thread, what is registered, how many
\* attempts there were, which answer it goes on with, whether it has written.
StageInv(t) ==
  /\ thread = t <=> sdk[t] \in {"posting", "parked"}
  /\ registered[t] <=> sdk[t] \notin {"idle", "over"}
  /\ sdk[t] = "idle" => attempt[t] = 0
  /\ sdk[t] = "queued" => attempt[t] < MaxAttempts
  /\ sdk[t] \in {"posting", "parked"} => attempt[t] > 0
  /\ sdk[t] = "posting" => ~answered[t]
  /\ sdk[t] = "parked" /\ answered[t] => value[t] = seen[t]
  /\ sdk[t] \in {"sent", "committed"} => value[t] = seen[t]
  /\ sdk[t] = "committed" => took[t] # 0
  /\ took[t] # 0 => sdk[t] \in {"committed", "posted", "over"}
  /\ aborted[t] => sdk[t] # "idle"

\* A commit replaced the version it was decided from, and versions only grow.
TookInv(t) ==
  /\ took[t] <= server
  /\ took[t] # 0 => /\ value[t] = took[t] - 1
                    /\ \A u \in Txns \ {t} : took[u] # took[t]

IInv ==
  /\ TypeOK
  /\ \A t \in Txns : PortInv(t) /\ StageInv(t) /\ TookInv(t)
  /\ OutcomeIsTrue

\* The facade reports `committed: !aborted`: it reports a commit exactly for a
\* transaction that committed.
FacadeReportsCommits ==
  \A t \in Txns :
    done[t] \in {"committed", "null"} => (~userAborted[t] <=> took[t] # 0)

\* The scheduler thread, which every database call needs, is released by every
\* attempt whose answer could be encoded, whatever the handler decided and
\* however often it threw.
SchedulerReleased ==
  \A t \in Txns : (thread = t) ~> (thread # t \/ t \in uncaught)

\* A transaction that was begun answers: "the committed value, or throws
\* DatabaseException if the transaction failed", or null for an abort; unless
\* some port handler threw, which can hold the one thread all of them need.
EveryTransactionAnswers ==
  \A t \in Txns : (sdk[t] = "queued") ~> (done[t] # "pending" \/ uncaught # {})

\* "The SDK's thread is parked until this answers, so anything that throws here
\* has to still answer, or the transaction never ends": a port handler that
\* throws leaves no transaction without an outcome.
ThrowsAreAnswered ==
  \A t \in Txns : (t \in uncaught) ~> (done[t] # "pending")
=============================================================================
