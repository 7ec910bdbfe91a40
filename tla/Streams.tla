------------------------------ MODULE Streams ------------------------------
(***************************************************************************)
(* The ports that take more than one message: the streams of Firestore and *)
(* the listener of the benchmark, in one isolate.                          *)
(***************************************************************************)
EXTENDS FsListeners, Transport

vars == <<fsVars, trVars>>

Init == FsInit /\ TrInit

Next ==
  \/ FsNext /\ UNCHANGED trVars
  \/ TrNext /\ UNCHANGED fsVars

Spec == Init /\ [][Next]_vars
FairSpec == Spec /\ FsFairness
=============================================================================
