------------------------- MODULE AtomicTransaction -------------------------
(***************************************************************************)
(* What runTransaction promises its caller, with no ports, threads,        *)
(* mailbox or retries in it: at most once, and at one instant, the         *)
(* documents the handler based its decision on are still what it read and  *)
(* everything it recorded is written; the caller is told "completed" only  *)
(* after that instant, and "failed" only if that instant never comes.      *)
(***************************************************************************)
EXTENDS Integers

CONSTANTS Paths,   \* the documents
          Unread   \* in place of a version: the decision is not based on it

VARIABLES docs,     \* the server's version of every document
          told,     \* what the caller's future says
          took,     \* whether the transaction has taken effect
          basis,    \* the versions the effect was decided from
          written   \* the documents it wrote

vars == <<docs, told, took, basis, written>>

Init ==
  /\ docs = [p \in Paths |-> 0]
  /\ told = "pending"
  /\ took = FALSE
  /\ basis = [p \in Paths |-> Unread]
  /\ written = {}

\* Any other client writes a document.
OtherWrites(p) ==
  /\ docs' = [docs EXCEPT ![p] = @ + 1]
  /\ UNCHANGED <<told, took, basis, written>>

\* The transaction takes effect: W is written, from what R holds right now.
TakeEffect(R, W) ==
  /\ told = "pending"
  /\ ~took
  /\ took' = TRUE
  /\ basis' = [p \in Paths |-> IF p \in R THEN docs[p] ELSE Unread]
  /\ written' = W
  /\ docs' = [p \in Paths |-> IF p \in W THEN docs[p] + 1 ELSE docs[p]]
  /\ UNCHANGED told

TellCompleted ==
  /\ told = "pending" /\ took
  /\ told' = "completed"
  /\ UNCHANGED <<docs, took, basis, written>>

TellFailed ==
  /\ told = "pending" /\ ~took
  /\ told' = "failed"
  /\ UNCHANGED <<docs, took, basis, written>>

Next ==
  \/ \E p \in Paths : OtherWrites(p)
  \/ \E R, W \in SUBSET Paths : TakeEffect(R, W)
  \/ TellCompleted
  \/ TellFailed

Spec == Init /\ [][Next]_vars
=============================================================================
