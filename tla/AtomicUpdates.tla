--------------------------- MODULE AtomicUpdates ---------------------------
(***************************************************************************)
(* What runDbTransaction promises the callers that update one value, with  *)
(* no ports, threads or attempts in it: each update happens at most once   *)
(* and at one instant, to the very version its handler decided from; its   *)
(* caller is told a value only after that instant, and null or an          *)
(* exception only if it never comes, null if and only if the handler asked *)
(* for an abort.                                                           *)
(***************************************************************************)
EXTENDS Integers

CONSTANTS Txns,     \* the transactions
          None      \* in place of a version: it has not happened

VARIABLES server,   \* the version of the value
          asked,    \* per transaction, its handler asked for an abort
          told,     \* per transaction, what the caller's future says
          took,     \* per transaction, the version it wrote, 0 for none
          from      \* per transaction, the version that was decided from

vars == <<server, asked, told, took, from>>

Init ==
  /\ server = 0
  /\ asked = [t \in Txns |-> FALSE]
  /\ told = [t \in Txns |-> "pending"]
  /\ took = [t \in Txns |-> 0]
  /\ from = [t \in Txns |-> None]

\* Any other client writes the value.
OtherWrites ==
  /\ server' = server + 1
  /\ UNCHANGED <<asked, told, took, from>>

Open(t) == told[t] = "pending" /\ took[t] = 0

\* A run of the handler aborts.  A later one may not.
AskAbort(t) ==
  /\ Open(t)
  /\ asked' = [asked EXCEPT ![t] = TRUE]
  /\ UNCHANGED <<server, told, took, from>>

\* The update happens, to what is there right now.
TakeEffect(t) ==
  /\ Open(t)
  /\ server' = server + 1
  /\ took' = [took EXCEPT ![t] = server + 1]
  /\ from' = [from EXCEPT ![t] = server]
  /\ UNCHANGED <<asked, told>>

TellCommitted(t) ==
  /\ told[t] = "pending" /\ took[t] # 0
  /\ told' = [told EXCEPT ![t] = "committed"]
  /\ UNCHANGED <<server, asked, took, from>>

TellNothing(t) ==
  /\ Open(t)
  /\ told' = [told EXCEPT ![t] = IF asked[t] THEN "null" ELSE "failed"]
  /\ UNCHANGED <<server, asked, took, from>>

Next ==
  \/ OtherWrites
  \/ \E t \in Txns : AskAbort(t) \/ TakeEffect(t) \/ TellCommitted(t) \/ TellNothing(t)

Spec == Init /\ [][Next]_vars
=============================================================================
