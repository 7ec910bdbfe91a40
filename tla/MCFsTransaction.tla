-------------------------- MODULE MCFsTransaction --------------------------
(***************************************************************************)
(* Two documents let a handler read one and write the other, keep two      *)
(* reads in flight, and meet an interloper between the two; two attempts   *)
(* let anything left over from the first reach the second.                 *)
(***************************************************************************)
EXTENDS FsTransaction, TLC

\* Documents are told apart by nothing but their name.
PathSymmetry == Permutations(Paths)
=============================================================================
