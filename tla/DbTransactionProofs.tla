------------------------ MODULE DbTransactionProofs ------------------------
(***************************************************************************)
(* Proofs about DbTransaction, for any transactions, number of attempts    *)
(* and foreign writes: an answer goes with the attempt it was given for,   *)
(* no update is lost, and what the future says is what became of the       *)
(* transaction.                                                            *)
(***************************************************************************)
EXTENDS DbTransaction, SequenceTheorems, TLAPS

Events == [seq : -1..MaxAttempts, seen : Int]

\* What Append leaves of an empty port.
LEMMA EmptyAppend == ASSUME NEW S, NEW s \in Seq(S), Len(s) = 0, NEW e \in S
  PROVE Append(s, e) \in Seq(S) /\ Len(Append(s, e)) = 1 /\ Append(s, e)[1] = e
OBVIOUS

\* What is left of a port that holds one event.
LEMMA SingleTail == ASSUME NEW S, NEW s \in Seq(S), Len(s) <= 1, s # <<>>
  PROVE /\ Len(s) = 1 /\ Head(s) = s[1] /\ s[1] \in S
        /\ Tail(s) \in Seq(S) /\ Len(Tail(s)) = 0
<1>1. Len(s) \in Nat \ {0}
  BY EmptySeq
<1>2. Len(s) = 1
  BY <1>1
<1>3. Head(s) = s[1] /\ s[1] \in S
  BY <1>2
<1>4. Tail(s) \in Seq(S) /\ Len(Tail(s)) = 0
  BY <1>2, HeadTailProperties
<1>. QED
  BY <1>2, <1>3, <1>4

\* A port is empty or holds one event.
LEMMA NoneOrOne == ASSUME NEW S, NEW s \in Seq(S), Len(s) <= 1
  PROVE Len(s) = 0 \/ Len(s) = 1
<1>1. Len(s) \in Nat
  BY LenProperties
<1>2. \A k \in Nat : k <= 1 => k = 0 \/ k = 1
  OBVIOUS
<1>. QED
  BY <1>1, <1>2, Zenon

USE DbTransactionAssumption
    DEF Attempts, NoValue, Outcomes, SdkStates, Step, Post, Answer, Receives,
        dartVars, stateVars, sdkVars, serverVars

\* The invariant holds before anything has happened.
LEMMA InitInv == Init => IInv
<1>. SUFFICES ASSUME Init PROVE IInv
  OBVIOUS
<1>1. Len(<<>>) <= 1 /\ Len(<<>>) # 1
  OBVIOUS
<1>2. TypeOK
  <2>1. inbox \in [Txns -> Seq([seq : -1..MaxAttempts, seen : Int])]
    BY EmptySeq DEF Init
  <2>. QED
    BY <2>1 DEF Init, TypeOK
<1>3. \A t \in Txns : inbox[t] = <<>> /\ portOpen[t] /\ done[t] = "pending"
  BY DEF Init
<1>4. \A t \in Txns : PortInv(t)
  BY <1>1, <1>3, Zenon DEF PortInv
<1>5. \A t \in Txns : StageInv(t)
  <2>. SUFFICES ASSUME NEW t \in Txns PROVE StageInv(t)
    OBVIOUS
  <2>1. sdk[t] = "idle" /\ thread # t /\ ~registered[t] /\ attempt[t] = 0
        /\ took[t] = 0 /\ ~aborted[t]
    BY DEF Init
  <2>. QED
    BY <2>1 DEF StageInv
<1>6. \A t \in Txns : TookInv(t)
  <2>1. server = 0 /\ \A t \in Txns : took[t] = 0
    BY DEF Init
  <2>2. 0 <= 0
    OBVIOUS
  <2>. QED
    BY <2>1, <2>2, Zenon DEF TookInv
<1>. QED
  BY <1>2, <1>4, <1>5, <1>6 DEF Init, IInv, OutcomeIsTrue

\* The port of a transaction that is neither parked nor done with its SDK is
\* empty and open.
LEMMA QuietPort ==
  ASSUME IInv, NEW t \in Txns, sdk[t] \notin {"parked", "posted", "over"}
  PROVE  portOpen[t] /\ inbox[t] \in Seq(Events) /\ Len(inbox[t]) = 0
<1>1. inbox[t] \in Seq(Events) /\ Len(inbox[t]) <= 1
  BY DEF IInv, TypeOK, PortInv, Events
<1>2. Len(inbox[t]) # 1
  BY DEF IInv, PortInv
<1>3. Len(inbox[t]) = 0
  BY <1>1, <1>2, NoneOrOne
<1>. QED
  BY <1>1, <1>3 DEF IInv, TypeOK, PortInv

\* An event at the head of a port is the only one there.
LEMMA PortHead ==
  ASSUME IInv, NEW t \in Txns, inbox[t] # <<>>
  PROVE  /\ Len(inbox[t]) = 1 /\ Head(inbox[t]) = inbox[t][1]
         /\ inbox[t][1] \in Events
         /\ Tail(inbox[t]) \in Seq(Events) /\ Len(Tail(inbox[t])) = 0
<1>1. inbox[t] \in Seq(Events) /\ Len(inbox[t]) <= 1
  BY DEF IInv, TypeOK, PortInv, Events
<1>. QED
  BY <1>1, SingleTail

\* An attempt at the head of a port is the one the parked thread waits for.
LEMMA AttemptHead ==
  ASSUME IInv, NEW t \in Txns, Receives(t), Head(inbox[t]).seq > 0
  PROVE  /\ sdk[t] = "parked" /\ ~answered[t] /\ registered[t]
         /\ Head(inbox[t]).seen = seen[t]
<1>1. Len(inbox[t]) = 1 /\ Head(inbox[t]) = inbox[t][1]
  BY PortHead
<1>2. sdk[t] = "parked" /\ ~answered[t] /\ inbox[t][1].seen = seen[t]
  BY <1>1 DEF IInv, PortInv
<1>. QED
  BY <1>1, <1>2 DEF IInv, StageInv

\* A terminal event at the head of a port says whether the SDK has committed.
LEMMA TerminalHead ==
  ASSUME IInv, NEW t \in Txns, Receives(t), Head(inbox[t]).seq <= 0
  PROVE  /\ sdk[t] \in {"posted", "over"} /\ done[t] = "pending"
         /\ Head(inbox[t]).seq = 0 <=> took[t] # 0
<1>1. Len(inbox[t]) = 1 /\ Head(inbox[t]) = inbox[t][1]
  BY PortHead
<1>2. sdk[t] # "parked"
  <2>. SUFFICES ASSUME sdk[t] = "parked" PROVE FALSE
    OBVIOUS
  <2>1. inbox[t][1].seq = attempt[t]
    BY <1>1 DEF IInv, PortInv
  <2>2. attempt[t] > 0 /\ attempt[t] \in Nat
    BY DEF IInv, TypeOK, StageInv
  <2>. QED
    BY <1>1, <2>1, <2>2
<1>. QED
  BY <1>1, <1>2 DEF IInv, PortInv

-----------------------------------------------------------------------------
(* What becomes of one transaction leaves the others' parts as they are.   *)

\* The variables of another transaction, none of which a step of t changes.
Same(u) ==
  /\ inbox'[u] = inbox[u] /\ portOpen'[u] = portOpen[u] /\ done'[u] = done[u]
  /\ answered'[u] = answered[u] /\ value'[u] = value[u]
  /\ attempt'[u] = attempt[u] /\ registered'[u] = registered[u]
  /\ aborted'[u] = aborted[u]
  /\ sdk'[u] = sdk[u] /\ seen'[u] = seen[u] /\ took'[u] = took[u]
  /\ thread' = u <=> thread = u

\* The invariant after a step of t, from what the step did to t's own part.
LEMMA OwnStep ==
  ASSUME IInv, TypeOK', NEW t \in Txns, \A u \in Txns \ {t} : Same(u),
         took' = took, server' = server, value'[t] = value[t] \/ took[t] = 0,
         PortInv(t)', StageInv(t)',
         done'[t] \in {"null", "failed"} => took[t] = 0,
         done'[t] = "committed" => took[t] # 0
  PROVE  IInv'
<1>1. ASSUME NEW u \in Txns \ {t} PROVE PortInv(u)' /\ StageInv(u)'
  BY <1>1 DEF IInv, PortInv, StageInv, Same
<1>2. ASSUME NEW u \in Txns PROVE TookInv(u)'
  BY <1>2 DEF IInv, TookInv, Same
<1>3. OutcomeIsTrue'
  BY DEF IInv, OutcomeIsTrue, Same
<1>. QED
  BY <1>1, <1>2, <1>3 DEF IInv

-----------------------------------------------------------------------------
(* Every action preserves the inductive invariant. *)

\* fdb_db_txn_run, with and without a database.
LEMMA RunPreserves ==
  ASSUME IInv, NEW t \in Txns, Run(t) \/ RunRefused(t)
  PROVE  IInv'
<1>1. TypeOK'
  BY DEF IInv, TypeOK, Run, RunRefused
<1>2. \A u \in Txns \ {t} : Same(u)
  BY DEF IInv, TypeOK, Run, RunRefused, Same
<1>3. Len(inbox[t]) = 0 /\ took[t] = 0 /\ portOpen[t] /\ done[t] = "pending"
  <2>1. sdk[t] = "idle"
    BY DEF Run, RunRefused
  <2>2. portOpen[t] /\ Len(inbox[t]) = 0
    BY <2>1, QuietPort
  <2>. QED
    BY <2>1, <2>2 DEF IInv, StageInv, PortInv
<1>4. PortInv(t)'
  <2>1. inbox' = inbox /\ Len(inbox[t]) <= 1 /\ Len(inbox[t]) # 1
    BY <1>3 DEF Run, RunRefused
  <2>2. CASE Run(t)
    BY <1>3, <2>1, <2>2 DEF IInv, TypeOK, PortInv, Run
  <2>3. CASE RunRefused(t)
    BY <1>3, <2>1, <2>3 DEF IInv, TypeOK, PortInv, RunRefused
  <2>. QED
    BY <2>2, <2>3
<1>5. StageInv(t)'
  BY <1>3 DEF IInv, TypeOK, StageInv, Run, RunRefused
<1>6. took' = took /\ server' = server /\ value'[t] = value[t]
  BY DEF Run, RunRefused
<1>7. done'[t] # "committed"
  BY <1>3 DEF IInv, TypeOK, Run, RunRefused
<1>. QED
  BY <1>1, <1>2, <1>3, <1>4, <1>5, <1>6, <1>7, OwnStep

\* The transaction function, up to its post.
LEMMA EnterPreserves ==
  ASSUME IInv, NEW t \in Txns, EnterFunction(t) \/ EnterFunctionUnserializable(t)
  PROVE  IInv'
<1>1. TypeOK'
  <2>1. CASE EnterFunction(t)
    <3>1. seen' \in [Txns -> Int]
      BY <2>1 DEF IInv, TypeOK, EnterFunction
    <3>2. attempt' \in [Txns -> 0..MaxAttempts]
      BY <2>1 DEF IInv, TypeOK, EnterFunction, StageInv
    <3>. QED
      BY <2>1, <3>1, <3>2 DEF IInv, TypeOK, EnterFunction
  <2>2. CASE EnterFunctionUnserializable(t)
    BY <2>2 DEF IInv, TypeOK, EnterFunctionUnserializable
  <2>. QED
    BY <2>1, <2>2
<1>2. \A u \in Txns \ {t} : Same(u)
  BY DEF IInv, TypeOK, EnterFunction, EnterFunctionUnserializable, Same
<1>3. Len(inbox[t]) = 0 /\ portOpen[t] /\ took[t] = 0 /\ done[t] = "pending"
  BY QuietPort DEF EnterFunction, EnterFunctionUnserializable, IInv, StageInv, PortInv
<1>4. PortInv(t)'
  BY <1>3 DEF IInv, TypeOK, PortInv, EnterFunction, EnterFunctionUnserializable
<1>5. StageInv(t)'
  BY <1>3 DEF IInv, TypeOK, StageInv, EnterFunction, EnterFunctionUnserializable
<1>6. took' = took /\ server' = server /\ value' = value /\ done' = done
  BY DEF EnterFunction, EnterFunctionUnserializable
<1>. QED
  BY <1>1, <1>2, <1>3, <1>4, <1>5, <1>6, OwnStep

\* The post of an attempt: the port was empty.
LEMMA PostAttemptPreserves ==
  ASSUME IInv, NEW t \in Txns, PostAttempt(t)
  PROVE  IInv'
<1> DEFINE event == [seq |-> attempt[t], seen |-> seen[t]]
<1>1. event \in Events
  BY DEF IInv, TypeOK, Events
<1>2. Len(inbox[t]) = 0 /\ portOpen[t] /\ inbox[t] \in Seq(Events)
  BY QuietPort DEF PostAttempt
<1>3. /\ inbox' = [inbox EXCEPT ![t] = Append(@, event)]
      /\ Append(inbox[t], event) \in Seq(Events)
      /\ Len(Append(inbox[t], event)) = 1 /\ Append(inbox[t], event)[1] = event
  BY <1>1, <1>2, EmptyAppend DEF PostAttempt
<1>4. inbox'[t] = Append(inbox[t], event)
      /\ inbox' \in [Txns -> Seq(Events)]
  BY <1>3 DEF IInv, TypeOK, Events
<1>5. TypeOK'
  BY <1>4 DEF IInv, TypeOK, PostAttempt, Events
<1>6. \A u \in Txns \ {t} : Same(u)
  BY DEF IInv, TypeOK, PostAttempt, Same
<1>7. took[t] = 0 /\ done[t] = "pending" /\ ~answered[t]
  BY <1>2 DEF PostAttempt, IInv, StageInv, PortInv
<1>8. PortInv(t)'
  <2>1. Len(inbox'[t]) = 1 /\ inbox'[t][1] = event
    BY <1>3, <1>4
  <2>. QED
    BY <1>2, <1>7, <2>1 DEF IInv, TypeOK, PortInv, PostAttempt
<1>9. StageInv(t)'
  BY <1>7 DEF IInv, TypeOK, StageInv, PostAttempt
<1>10. took' = took /\ server' = server /\ value' = value /\ done' = done
  BY DEF PostAttempt
<1>. QED
  BY <1>5, <1>6, <1>7, <1>8, <1>9, <1>10, OwnStep

\* The thread goes on with the answer.
LEMMA WakePreserves ==
  ASSUME IInv, NEW t \in Txns, Wake(t)
  PROVE  IInv'
<1>1. TypeOK'
  BY DEF IInv, TypeOK, Wake
<1>2. /\ sdk[t] = "parked" /\ sdk'[t] \in {"aborted", "sent"} /\ thread = t
      /\ answered[t] /\ value[t] = seen[t] /\ took[t] = 0 /\ registered[t]
  BY DEF Wake, IInv, TypeOK, StageInv
<1>3. \A u \in Txns \ {t} : Same(u)
  BY <1>2 DEF IInv, TypeOK, Wake, Same
<1>4. Len(inbox[t]) # 1 /\ Len(inbox[t]) <= 1 /\ portOpen[t] /\ done[t] = "pending"
  BY <1>2 DEF IInv, TypeOK, PortInv
<1>5. PortInv(t)'
  BY <1>4 DEF PortInv, Wake
<1>6. thread' # t
  BY DEF Wake
<1>7. StageInv(t)'
  BY <1>2, <1>6 DEF StageInv, Wake
<1>8. took' = took /\ server' = server /\ value' = value /\ done' = done
  BY DEF Wake
<1>. QED
  BY <1>1, <1>3, <1>4, <1>5, <1>7, <1>8, OwnStep

\* The SDK calls the function again, or gives the transaction up.
LEMMA GiveUpPreserves ==
  ASSUME IInv, NEW t \in Txns, Rerun(t) \/ Fail(t)
  PROVE  IInv'
<1>1. TypeOK'
  BY DEF IInv, TypeOK, Rerun, Fail
<1>2. /\ sdk[t] \in {"sent", "aborted"} /\ sdk'[t] \in {"queued", "failed"}
      /\ sdk'[t] = "queued" => attempt[t] < MaxAttempts
  BY DEF Rerun, Fail, IInv, TypeOK
<1>3. \A u \in Txns \ {t} : Same(u)
  BY DEF IInv, TypeOK, Rerun, Fail, Same
<1>4. Len(inbox[t]) = 0 /\ portOpen[t]
  BY <1>2, QuietPort
<1>5. /\ took[t] = 0 /\ done[t] = "pending" /\ thread # t /\ registered[t]
  BY <1>2, <1>4 DEF IInv, StageInv, PortInv
<1>6. UNCHANGED <<inbox, portOpen, done, answered, value, attempt, registered,
                  thread, seen, took, server>>
  BY DEF Rerun, Fail
<1>7. PortInv(t)'
  BY <1>4, <1>5, <1>6 DEF PortInv
<1>8. StageInv(t)'
  BY <1>2, <1>5, <1>6 DEF StageInv
<1>. QED
  BY <1>1, <1>3, <1>5, <1>6, <1>7, <1>8, OwnStep

\* The end is posted: the port was empty.
LEMMA PostTerminalPreserves ==
  ASSUME IInv, NEW t \in Txns, PostTerminal(t)
  PROVE  IInv'
<1> DEFINE event == [seq |-> IF sdk[t] = "committed" THEN 0 ELSE -1,
                     seen |-> NoValue]
<1>1. event \in Events
  BY DEF Events
<1>2. sdk[t] \in {"committed", "failed"} /\ sdk'[t] = "posted"
  BY DEF PostTerminal, IInv, TypeOK
<1>3. Len(inbox[t]) = 0 /\ portOpen[t] /\ inbox[t] \in Seq(Events)
  BY <1>2, QuietPort
<1>4. /\ done[t] = "pending" /\ thread # t /\ registered[t]
      /\ took[t] # 0 <=> sdk[t] = "committed"
  BY <1>2, <1>3 DEF IInv, StageInv, PortInv
<1>5. /\ inbox' = [inbox EXCEPT ![t] = Append(@, event)]
      /\ Append(inbox[t], event) \in Seq(Events)
      /\ Len(Append(inbox[t], event)) = 1 /\ Append(inbox[t], event)[1] = event
  BY <1>1, <1>3, EmptyAppend DEF PostTerminal
<1>6. inbox'[t] = Append(inbox[t], event) /\ inbox' \in [Txns -> Seq(Events)]
  BY <1>5 DEF IInv, TypeOK, Events
<1>7. TypeOK'
  BY <1>6 DEF IInv, TypeOK, PostTerminal, Events
<1>8. \A u \in Txns \ {t} : Same(u)
  BY DEF IInv, TypeOK, PostTerminal, Same
<1>9. PortInv(t)'
  <2>1. Len(inbox'[t]) = 1
        /\ inbox'[t][1].seq = IF sdk[t] = "committed" THEN 0 ELSE -1
    BY <1>5, <1>6
  <2>2. portOpen'[t] /\ done'[t] = "pending" /\ took' = took
    BY <1>3, <1>4 DEF PostTerminal
  <2>. QED
    BY <1>2, <1>4, <2>1, <2>2 DEF PortInv
<1>10. took' = took /\ server' = server /\ value' = value /\ done' = done
  BY DEF PostTerminal
<1>11. StageInv(t)'
  BY <1>2, <1>4 DEF StageInv, PostTerminal
<1>. QED
  BY <1>4, <1>7, <1>8, <1>9, <1>10, <1>11, OwnStep

\* g_txns.erase: what is on the port stays true.
LEMMA EraseEntryPreserves ==
  ASSUME IInv, NEW t \in Txns, EraseEntry(t)
  PROVE  IInv'
<1>1. TypeOK'
  BY DEF IInv, TypeOK, EraseEntry
<1>2. sdk[t] = "posted" /\ sdk'[t] = "over" /\ ~registered'[t]
  BY DEF EraseEntry, IInv, TypeOK
<1>3. \A u \in Txns \ {t} : Same(u)
  BY DEF IInv, TypeOK, EraseEntry, Same
<1>4. UNCHANGED <<inbox, portOpen, done, answered, value, attempt, thread, seen,
                  took, server>>
  BY DEF EraseEntry
<1>5. PortInv(t)'
  BY <1>2, <1>4 DEF IInv, PortInv
<1>6. StageInv(t)'
  BY <1>2, <1>4 DEF IInv, StageInv
<1>7. /\ done'[t] \in {"null", "failed"} => took[t] = 0
      /\ done'[t] = "committed" => took[t] # 0
  BY <1>4 DEF IInv, OutcomeIsTrue
<1>. QED
  BY <1>1, <1>3, <1>4, <1>5, <1>6, <1>7, OwnStep

\* An answer is given to the attempt it was asked for, and makes its value the
\* one to be compared with.
LEMMA HandleAttemptPreserves ==
  ASSUME IInv, NEW t \in Txns,
         \/ \E decision \in {"commit", "abort", "throw"} : HandleAttempt(t, decision)
         \/ HandleAttemptUnencodable(t)
  PROVE  IInv'
<1>1. Receives(t) /\ Head(inbox[t]).seq > 0 /\ inbox[t] # <<>>
  BY DEF HandleAttempt, HandleAttemptUnencodable
<1>2. /\ sdk[t] = "parked" /\ ~answered[t] /\ registered[t]
      /\ Head(inbox[t]).seen = seen[t]
  BY <1>1, AttemptHead
<1>3. Tail(inbox[t]) \in Seq(Events) /\ Len(Tail(inbox[t])) = 0
  BY <1>1, PortHead
<1>4. inbox'[t] = Tail(inbox[t]) /\ inbox' \in [Txns -> Seq(Events)]
  <2>1. inbox' = [inbox EXCEPT ![t] = Tail(@)]
    BY DEF HandleAttempt, HandleAttemptUnencodable
  <2>2. inbox \in [Txns -> Seq(Events)]
    BY DEF IInv, TypeOK, Events
  <2>. QED
    BY <1>3, <2>1, <2>2
<1>5. \/ answered' = [answered EXCEPT ![t] = TRUE]
         /\ value' = [value EXCEPT ![t] = seen[t]]
      \/ UNCHANGED <<answered, value>>
  BY <1>2 DEF HandleAttempt, HandleAttemptUnencodable
<1>6. TypeOK'
  <2>1. answered' \in [Txns -> BOOLEAN] /\ value' \in [Txns -> Int]
    BY <1>5 DEF IInv, TypeOK
  <2>2. /\ aborted' \in [Txns -> BOOLEAN] /\ userAborted' \in [Txns -> BOOLEAN]
        /\ uncaught' \subseteq Txns
    BY DEF IInv, TypeOK, HandleAttempt, HandleAttemptUnencodable
  <2>3. abort' \in [Txns -> BOOLEAN]
    <3>1. \/ abort' = abort
          \/ abort' = [abort EXCEPT ![t] = TRUE]
          \/ abort' = [abort EXCEPT ![t] = FALSE]
      <4>1. ASSUME NEW decision \in {"commit", "abort", "throw"},
                   HandleAttempt(t, decision)
            PROVE  abort' = [abort EXCEPT ![t] = (decision # "commit")]
        BY <1>2, <4>1 DEF HandleAttempt
      <4>2. \A d : (d # "commit") = TRUE \/ (d # "commit") = FALSE
        OBVIOUS
      <4>. QED
        BY <4>1, <4>2, Zenon DEF HandleAttemptUnencodable, stateVars
    <3>. QED
      BY <3>1 DEF IInv, TypeOK
  <2>4. UNCHANGED <<portOpen, done, attempt, registered, sdk, thread, seen, server,
                    took>>
    BY DEF HandleAttempt, HandleAttemptUnencodable
  <2>. QED
    BY <1>4, <2>1, <2>2, <2>3, <2>4 DEF IInv, TypeOK, Events
<1>7. UNCHANGED <<portOpen, done, attempt, registered, sdk, thread, seen, server,
                  took>>
  BY DEF HandleAttempt, HandleAttemptUnencodable
<1>8. \A u \in Txns \ {t} : Same(u)
  <2>1. \A u \in Txns \ {t} : inbox'[u] = inbox[u]
    BY DEF IInv, TypeOK, HandleAttempt, HandleAttemptUnencodable
  <2>2. \A u \in Txns \ {t} : answered'[u] = answered[u] /\ value'[u] = value[u]
    BY <1>5 DEF IInv, TypeOK
  <2>3. \A u \in Txns \ {t} : aborted'[u] = aborted[u]
    BY DEF IInv, TypeOK, HandleAttempt, HandleAttemptUnencodable
  <2>. QED
    BY <1>7, <2>1, <2>2, <2>3 DEF Same
<1>9. took[t] = 0 /\ portOpen[t] /\ done[t] = "pending"
  BY <1>2 DEF IInv, StageInv, PortInv
<1>10. PortInv(t)'
  <2>1. Len(inbox'[t]) # 1 /\ Len(inbox'[t]) <= 1
    <3>1. 0 # 1 /\ 0 <= 1
      OBVIOUS
    <3>. QED
      BY <1>3, <1>4, <3>1, Zenon
  <2>. QED
    BY <1>7, <1>9, <2>1 DEF PortInv
<1>11. StageInv(t)'
  <2>1. answered'[t] => value'[t] = seen[t]
    BY <1>2, <1>5 DEF IInv, TypeOK
  <2>. QED
    BY <1>2, <1>7, <2>1 DEF IInv, StageInv
<1>. QED
  BY <1>6, <1>7, <1>8, <1>9, <1>10, <1>11, OwnStep

\* The future completes, with what the event says of the commit.
LEMMA HandleTerminalPreserves ==
  ASSUME IInv, NEW t \in Txns, HandleTerminal(t)
  PROVE  IInv'
<1>1. Receives(t) /\ Head(inbox[t]).seq <= 0 /\ inbox[t] # <<>>
  BY DEF HandleTerminal
<1>2. /\ sdk[t] \in {"posted", "over"} /\ done[t] = "pending"
      /\ Head(inbox[t]).seq = 0 <=> took[t] # 0
  BY <1>1, TerminalHead
<1>3. Head(inbox[t]) \in Events
  BY <1>1, PortHead
<1>4. inbox'[t] = <<>> /\ inbox' \in [Txns -> Seq(Events)]
  BY EmptySeq DEF IInv, TypeOK, Events, HandleTerminal
<1>5. \/ took[t] # 0 /\ done' = [done EXCEPT ![t] = "committed"]
      \/ took[t] = 0 /\ done' = [done EXCEPT ![t] = "null"]
      \/ took[t] = 0 /\ done' = [done EXCEPT ![t] = "failed"]
      \/ done' = done
  BY <1>2, <1>3 DEF HandleTerminal, Events
<1>6. TypeOK'
  <2>1. done' \in [Txns -> Outcomes]
    BY <1>5 DEF IInv, TypeOK
  <2>2. uncaught' \subseteq Txns
    BY DEF IInv, TypeOK, HandleTerminal
  <2>. QED
    BY <1>4, <2>1, <2>2 DEF IInv, TypeOK, Events, HandleTerminal
<1>7. UNCHANGED <<aborted, answered, value, attempt, registered, sdk, thread, seen,
                  server, took>>
      /\ portOpen' = [portOpen EXCEPT ![t] = FALSE]
  BY DEF HandleTerminal
<1>8. \A u \in Txns \ {t} : Same(u)
  <2>1. \A u \in Txns \ {t} : inbox'[u] = inbox[u]
    BY DEF IInv, TypeOK, HandleTerminal
  <2>2. \A u \in Txns \ {t} : done'[u] = done[u] /\ portOpen'[u] = portOpen[u]
    BY <1>5, <1>7 DEF IInv, TypeOK
  <2>. QED
    BY <1>7, <2>1, <2>2 DEF Same
<1>9. PortInv(t)'
  <2>1. Len(inbox'[t]) # 1 /\ Len(inbox'[t]) <= 1 /\ ~portOpen'[t]
    BY <1>4, <1>7 DEF IInv, TypeOK
  <2>. QED
    BY <1>2, <1>7, <2>1 DEF PortInv
<1>10. StageInv(t)'
  BY <1>7 DEF IInv, StageInv
<1>11. /\ done'[t] \in {"null", "failed"} => took[t] = 0
       /\ done'[t] = "committed" => took[t] # 0
  BY <1>2, <1>5 DEF IInv, TypeOK
<1>. QED
  BY <1>6, <1>7, <1>8, <1>9, <1>10, <1>11, OwnStep

\* The server takes a value that was decided from the version it holds, and
\* gives it a version nobody took before.
LEMMA CommitPreserves ==
  ASSUME IInv, NEW t \in Txns, Commit(t)
  PROVE  IInv'
<1>1. TypeOK'
  <2>1. server' \in Nat /\ took' \in [Txns -> Nat]
    BY DEF IInv, TypeOK, Commit
  <2>2. sdk' \in [Txns -> SdkStates]
    BY DEF IInv, TypeOK, Commit
  <2>3. UNCHANGED <<dartVars, stateVars, thread, seen>>
    BY DEF Commit
  <2>. QED
    BY <2>1, <2>2, <2>3 DEF IInv, TypeOK
<1>2. /\ sdk[t] = "sent" /\ sdk' = [sdk EXCEPT ![t] = "committed"]
      /\ seen[t] = server /\ value[t] = server
  BY DEF Commit, IInv, StageInv
<1>3. server' = server + 1 /\ took' = [took EXCEPT ![t] = server + 1]
  BY DEF Commit
<1>4. UNCHANGED <<inbox, portOpen, done, aborted, answered, value, attempt,
                  registered, thread, seen>>
  BY DEF Commit
<1>5. Len(inbox[t]) = 0 /\ portOpen[t]
  BY <1>2, QuietPort
<1>6. done[t] = "pending" /\ thread # t /\ registered[t]
  BY <1>2, <1>5 DEF IInv, PortInv, StageInv
<1>7. server \in Nat /\ \A u \in Txns : took[u] \in Nat /\ took[u] <= server
  BY DEF IInv, TypeOK, TookInv
<1>8. sdk'[t] = "committed" /\ took'[t] = server + 1
      /\ \A u \in Txns \ {t} : sdk'[u] = sdk[u] /\ took'[u] = took[u]
  BY <1>2, <1>3 DEF IInv, TypeOK
<1>9. ASSUME NEW u \in Txns PROVE PortInv(u)' /\ StageInv(u)'
  <2>1. CASE u = t
    <3>1. PortInv(t)'
      BY <1>4, <1>5, <1>6 DEF PortInv
    <3>2. took'[t] # 0
      BY <1>7, <1>8
    <3>. QED
      BY <1>2, <1>4, <1>6, <1>8, <2>1, <3>1, <3>2 DEF StageInv
  <2>2. CASE u # t
    BY <1>4, <1>8, <2>2 DEF IInv, PortInv, StageInv
  <2>. QED
    BY <2>1, <2>2
<1>10. ASSUME NEW u \in Txns PROVE TookInv(u)'
  <2>1. CASE u = t
    BY <1>2, <1>3, <1>4, <1>7, <1>8, <2>1 DEF TookInv
  <2>2. CASE u # t
    <3>1. took'[u] <= server' /\ took'[u] # took'[t]
      BY <1>3, <1>7, <1>8, <2>2
    <3>2. took[u] # 0 => value[u] = took[u] - 1
                         /\ \A w \in Txns \ {u} : took[w] # took[u]
      BY DEF IInv, TookInv
    <3>. QED
      BY <1>4, <1>8, <2>2, <3>1, <3>2 DEF TookInv
  <2>. QED
    BY <2>1, <2>2
<1>11. OutcomeIsTrue'
  BY <1>4, <1>6, <1>8 DEF IInv, OutcomeIsTrue
<1>. QED
  BY <1>1, <1>9, <1>10, <1>11 DEF IInv

\* Another client writes.
LEMMA OtherWritesPreserves == IInv /\ OtherWrites => IInv'
<1>. SUFFICES ASSUME IInv, OtherWrites PROVE IInv'
  OBVIOUS
<1>1. TypeOK'
  <2>1. server' \in Nat
    BY DEF IInv, TypeOK, OtherWrites
  <2>2. UNCHANGED <<dartVars, stateVars, sdkVars, took>>
    BY DEF OtherWrites
  <2>. QED
    BY <2>1, <2>2 DEF IInv, TypeOK
<1>2. \A t \in Txns : PortInv(t)' /\ StageInv(t)'
  BY DEF IInv, PortInv, StageInv, OtherWrites
<1>3. \A t \in Txns : TookInv(t)'
  BY DEF IInv, TypeOK, TookInv, OtherWrites
<1>. QED
  BY <1>1, <1>2, <1>3 DEF IInv, OutcomeIsTrue, OtherWrites

LEMMA StutterPreserves == IInv /\ UNCHANGED vars => IInv'
<1>. SUFFICES ASSUME IInv, UNCHANGED vars PROVE IInv'
  OBVIOUS
<1>1. TypeOK'
  BY DEF IInv, TypeOK, vars
<1>2. \A t \in Txns : PortInv(t)'
  BY DEF IInv, PortInv, vars
<1>3. \A t \in Txns : StageInv(t)'
  BY DEF IInv, StageInv, vars
<1>4. \A t \in Txns : TookInv(t)'
  BY DEF IInv, TookInv, vars
<1>5. OutcomeIsTrue'
  BY DEF IInv, OutcomeIsTrue, vars
<1>. QED
  BY <1>1, <1>2, <1>3, <1>4, <1>5 DEF IInv

LEMMA NextPreserves == IInv /\ [Next]_vars => IInv'
<1>. SUFFICES ASSUME IInv, [Next]_vars PROVE IInv'
  OBVIOUS
<1>1. CASE UNCHANGED vars
  BY <1>1, StutterPreserves
<1>2. ASSUME NEW t \in Txns, Run(t) \/ RunRefused(t) PROVE IInv'
  BY <1>2, RunPreserves
<1>3. ASSUME NEW t \in Txns, Function(t) PROVE IInv'
  BY <1>3, EnterPreserves, PostAttemptPreserves, WakePreserves DEF Function
<1>4. ASSUME NEW t \in Txns, Decided(t) PROVE IInv'
  BY <1>4, CommitPreserves, GiveUpPreserves DEF Decided
<1>5. ASSUME NEW t \in Txns, Completed(t) PROVE IInv'
  BY <1>5, PostTerminalPreserves, EraseEntryPreserves DEF Completed
<1>6. ASSUME NEW t \in Txns, HandleEvent(t) PROVE IInv'
  BY <1>6, HandleAttemptPreserves, HandleTerminalPreserves DEF HandleEvent
<1>7. CASE OtherWrites
  BY <1>7, OtherWritesPreserves
<1>8. CASE Quiet
  BY <1>8, StutterPreserves DEF Quiet
<1>. QED
  BY <1>1, <1>2, <1>3, <1>4, <1>5, <1>6, <1>7, <1>8 DEF Next

-----------------------------------------------------------------------------

\* The inductive invariant: what is on the port and whose answer it is.
THEOREM Invariance == Spec => []IInv
BY InitInv, NextPreserves, PTL DEF Spec

\* Every variable keeps its type.
THEOREM TypeCorrect == Spec => []TypeOK
<1>1. IInv => TypeOK
  BY DEF IInv
<1>. QED
  BY <1>1, Invariance, PTL

\* What a transaction function returns was decided from the value the function
\* was called with, never from that of an earlier attempt.
THEOREM AnswersAreCurrent == Spec => []DecidedFromThisAttempt
<1>1. IInv => DecidedFromThisAttempt
  BY DEF IInv, StageInv, DecidedFromThisAttempt
<1>. QED
  BY <1>1, Invariance, PTL

\* A commit replaces the very version it was computed from, and no two commits
\* the same one, whoever else writes.
THEOREM NoUpdateIsLost == Spec => []NoLostUpdate
<1>1. IInv => NoLostUpdate
  BY DEF IInv, TookInv, NoLostUpdate
<1>. QED
  BY <1>1, Invariance, PTL

\* A null or an exception means that nothing was written, a value that it was.
THEOREM OutcomesAreTrue == Spec => []OutcomeIsTrue
<1>1. IInv => OutcomeIsTrue
  BY DEF IInv
<1>. QED
  BY <1>1, Invariance, PTL

-----------------------------------------------------------------------------
(* DbTransaction implements AtomicUpdates. *)

\* What changes none of the abstract variables is a stutter of AtomicUpdates.
LEMMA AtomicStutter ==
  ASSUME UNCHANGED <<server, aborted, done, took>>,
         \A t \in Txns : took[t] # 0 => value'[t] = value[t]
  PROVE  UNCHANGED Atomic!vars
<1>1. [t \in Txns |-> IF took'[t] # 0 THEN value'[t] ELSE NoValue]
      = [t \in Txns |-> IF took[t] # 0 THEN value[t] ELSE NoValue]
  OBVIOUS
<1>. QED
  BY <1>1 DEF Atomic!vars

\* An answer changes the value of a transaction that has written nothing, and
\* the handler that asked for an abort did so before anything was told.
LEMMA AtomicAttempt ==
  ASSUME IInv, NEW t \in Txns,
         \/ \E decision \in {"commit", "abort", "throw"} : HandleAttempt(t, decision)
         \/ HandleAttemptUnencodable(t)
  PROVE  [Atomic!Next]_(Atomic!vars)
<1>1. Receives(t) /\ Head(inbox[t]).seq > 0
  BY DEF HandleAttempt, HandleAttemptUnencodable
<1>2. sdk[t] = "parked"
  BY <1>1, AttemptHead
<1>3. portOpen[t] /\ took[t] = 0
  BY <1>1, <1>2 DEF IInv, StageInv
<1>4. done[t] = "pending"
  BY <1>3 DEF IInv, PortInv
<1>5. UNCHANGED <<server, done, took>> /\ \A u \in Txns \ {t} : value'[u] = value[u]
  <2>1. UNCHANGED <<server, done, took>>
    BY DEF HandleAttempt, HandleAttemptUnencodable
  <2>2. value' = value \/ \E v : value' = [value EXCEPT ![t] = v]
    <3>1. CASE HandleAttemptUnencodable(t)
      BY <3>1 DEF HandleAttemptUnencodable
    <3>2. ASSUME NEW decision \in {"commit", "abort", "throw"},
                 HandleAttempt(t, decision)
          PROVE  value' = value \/ \E v : value' = [value EXCEPT ![t] = v]
      BY <3>2, Zenon DEF HandleAttempt, Answer
    <3>. QED
      BY <3>1, <3>2
  <2>. QED
    BY <2>1, <2>2 DEF IInv, TypeOK
<1>6. aborted' = aborted \/ aborted' = [aborted EXCEPT ![t] = TRUE]
  <2>1. CASE HandleAttemptUnencodable(t)
    BY <2>1 DEF HandleAttemptUnencodable
  <2>2. ASSUME NEW decision \in {"commit", "abort", "throw"}, HandleAttempt(t, decision)
        PROVE  aborted' = aborted \/ aborted' = [aborted EXCEPT ![t] = TRUE]
    <3>1. aborted' = [aborted EXCEPT ![t] = aborted[t] \/ decision # "commit"]
          /\ aborted \in [Txns -> BOOLEAN]
      BY <2>2 DEF HandleAttempt, IInv, TypeOK
    <3>. QED
      BY <3>1
  <2>. QED
    BY <2>1, <2>2
<1>7. CASE aborted' = aborted
  <2>1. UNCHANGED Atomic!vars
    BY <1>3, <1>5, <1>7, AtomicStutter
  <2>. QED
    BY <2>1
<1>8. CASE aborted' = [aborted EXCEPT ![t] = TRUE]
  <2>1. [u \in Txns |-> IF took'[u] # 0 THEN value'[u] ELSE NoValue]
        = [u \in Txns |-> IF took[u] # 0 THEN value[u] ELSE NoValue]
    BY <1>3, <1>5
  <2>2. Atomic!AskAbort(t)
    BY <1>3, <1>4, <1>5, <1>8, <2>1 DEF Atomic!AskAbort, Atomic!Open
  <2>. QED
    BY <2>2 DEF Atomic!Next
<1>. QED
  BY <1>6, <1>7, <1>8

\* What the future is told is what has happened.
LEMMA AtomicTerminal ==
  ASSUME IInv, NEW t \in Txns, HandleTerminal(t)
  PROVE  [Atomic!Next]_(Atomic!vars)
<1>1. Receives(t) /\ Head(inbox[t]).seq <= 0
  BY DEF HandleTerminal
<1>2. done[t] = "pending" /\ (Head(inbox[t]).seq = 0 <=> took[t] # 0)
  BY <1>1, TerminalHead
<1>3. UNCHANGED <<aborted, value, server, took>>
  BY DEF HandleTerminal
<1>4. [u \in Txns |-> IF took'[u] # 0 THEN value'[u] ELSE NoValue]
      = [u \in Txns |-> IF took[u] # 0 THEN value[u] ELSE NoValue]
  BY <1>3
<1>5. CASE done' = [done EXCEPT ![t] = "committed"] /\ took[t] # 0
  <2>1. Atomic!TellCommitted(t)
    BY <1>2, <1>3, <1>4, <1>5 DEF Atomic!TellCommitted
  <2>. QED
    BY <2>1 DEF Atomic!Next
<1>6. CASE done' = [done EXCEPT ![t] = IF aborted[t] THEN "null" ELSE "failed"]
           /\ took[t] = 0
  <2>1. Atomic!TellNothing(t)
    BY <1>2, <1>3, <1>4, <1>6 DEF Atomic!TellNothing, Atomic!Open
  <2>. QED
    BY <2>1 DEF Atomic!Next
<1>7. CASE done' = done
  BY <1>3, <1>7, AtomicStutter
<1>8. \/ done' = [done EXCEPT ![t] = "committed"] /\ took[t] # 0
      \/ done' = [done EXCEPT ![t] = IF aborted[t] THEN "null" ELSE "failed"]
         /\ took[t] = 0
      \/ done' = done
  <2>1. Head(inbox[t]) \in Events
    BY <1>1, PortHead
  <2>2. Head(inbox[t]).seq \in Int
    BY <2>1 DEF Events
  <2>. QED
    BY <1>2, <2>2 DEF HandleTerminal
<1>. QED
  BY <1>5, <1>6, <1>7, <1>8

\* The commit is the instant at which the update happens.
LEMMA AtomicCommit ==
  ASSUME IInv, NEW t \in Txns, Commit(t)
  PROVE  Atomic!Next
<1>1. sdk[t] = "sent" /\ seen[t] = server /\ server' = server + 1
      /\ took' = [took EXCEPT ![t] = server + 1] /\ UNCHANGED <<aborted, done, value>>
  BY DEF Commit
<1>2. portOpen[t] /\ took[t] = 0 /\ value[t] = server
  BY <1>1 DEF IInv, PortInv, StageInv
<1>3. done[t] = "pending"
  BY <1>2 DEF IInv, PortInv
<1>4. server \in Nat /\ server + 1 # 0 /\ took \in [Txns -> Nat]
  BY DEF IInv, TypeOK
<1>5. [u \in Txns |-> IF took'[u] # 0 THEN value'[u] ELSE NoValue]
      = [[u \in Txns |-> IF took[u] # 0 THEN value[u] ELSE NoValue]
            EXCEPT ![t] = server]
  BY <1>1, <1>2, <1>4
<1>6. Atomic!TakeEffect(t)
  BY <1>1, <1>2, <1>3, <1>5 DEF Atomic!TakeEffect, Atomic!Open
<1>. QED
  BY <1>6 DEF Atomic!Next

\* A call that is refused is told so before anything could have happened.
LEMMA AtomicRefused ==
  ASSUME IInv, NEW t \in Txns, RunRefused(t)
  PROVE  Atomic!Next
<1>1. sdk[t] = "idle" /\ done' = [done EXCEPT ![t] = "failed"]
      /\ UNCHANGED <<aborted, value, server, took>>
  BY DEF RunRefused
<1>2. portOpen[t] /\ took[t] = 0 /\ ~aborted[t]
  BY <1>1 DEF IInv, PortInv, StageInv
<1>3. done[t] = "pending"
  BY <1>2 DEF IInv, PortInv
<1>4. [u \in Txns |-> IF took'[u] # 0 THEN value'[u] ELSE NoValue]
      = [u \in Txns |-> IF took[u] # 0 THEN value[u] ELSE NoValue]
  BY <1>1
<1>5. Atomic!TellNothing(t)
  BY <1>1, <1>2, <1>3, <1>4 DEF Atomic!TellNothing, Atomic!Open
<1>. QED
  BY <1>5 DEF Atomic!Next

\* Every step is a step of AtomicUpdates or a stutter.
LEMMA AtomicStep == IInv /\ [Next]_vars => [Atomic!Next]_(Atomic!vars)
<1>. SUFFICES ASSUME IInv, [Next]_vars PROVE [Atomic!Next]_(Atomic!vars)
  OBVIOUS
<1>1. ASSUME NEW t \in Txns,
             Run(t) \/ Function(t) \/ Rerun(t) \/ Fail(t) \/ Completed(t)
      PROVE  [Atomic!Next]_(Atomic!vars)
  <2>1. UNCHANGED <<server, aborted, done, took, value>>
    BY <1>1
    DEF Run, Function, EnterFunction, EnterFunctionUnserializable, PostAttempt, Wake,
        Rerun, Fail, Completed, PostTerminal, EraseEntry
  <2>2. UNCHANGED Atomic!vars
    BY <2>1, AtomicStutter
  <2>. QED
    BY <2>2
<1>2. ASSUME NEW t \in Txns, RunRefused(t) \/ Commit(t)
      PROVE  [Atomic!Next]_(Atomic!vars)
  BY <1>2, AtomicRefused, AtomicCommit
<1>3. ASSUME NEW t \in Txns, HandleEvent(t) PROVE [Atomic!Next]_(Atomic!vars)
  BY <1>3, AtomicAttempt, AtomicTerminal DEF HandleEvent
<1>4. CASE OtherWrites
  <2>1. server' = server + 1 /\ UNCHANGED <<aborted, done, took, value>>
    BY <1>4 DEF OtherWrites
  <2>2. [u \in Txns |-> IF took'[u] # 0 THEN value'[u] ELSE NoValue]
        = [u \in Txns |-> IF took[u] # 0 THEN value[u] ELSE NoValue]
    BY <2>1
  <2>3. Atomic!OtherWrites
    BY <2>1, <2>2 DEF Atomic!OtherWrites
  <2>. QED
    BY <2>3 DEF Atomic!Next
<1>5. CASE Quiet \/ UNCHANGED vars
  <2>1. UNCHANGED <<server, aborted, done, took, value>>
    BY <1>5 DEF Quiet, vars
  <2>2. UNCHANGED Atomic!vars
    BY <2>1, AtomicStutter
  <2>. QED
    BY <2>2
<1>. QED
  BY <1>1, <1>2, <1>3, <1>4, <1>5 DEF Next, Decided

\* The rendezvous of the scheduler thread and the isolate implements atomic
\* updates: each happens to the version its handler decided from, and the
\* caller is told what happened.
THEOREM ImplementsAtomicUpdates == Spec => UpdatesSpec
<1>1. Init => Atomic!Init
  BY DEF Init, Atomic!Init
<1>2. IInv /\ [Next]_vars => [Atomic!Next]_(Atomic!vars)
  BY AtomicStep
<1>. QED
  BY <1>1, <1>2, Invariance, PTL DEF Spec, UpdatesSpec, Atomic!Spec
=============================================================================
