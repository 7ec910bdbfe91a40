----------------------------- MODULE MCStreams -----------------------------
(***************************************************************************)
(* Streams with one document and one query.                                *)
(***************************************************************************)
EXTENDS Streams

MCKind == [s \in Streams |-> IF s = "document" THEN "document" ELSE "query"]
=============================================================================
