-------------------------------- MODULE Cbor --------------------------------
(***************************************************************************)
(* The values that cross the boundary, and the two CBOR libraries that     *)
(* carry them: tinycbor on the native side, package:cbor on Dart's.        *)
(*                                                                         *)
(* A Dart value, a CBOR item and an SDK value are all trees of nodes.  A   *)
(* node has a kind, a tag (CBOR items of Firestore only), an atom (what a  *)
(* scalar says) and kids: the items of a list, or the keys and values of a *)
(* map, alternating.                                                       *)
(***************************************************************************)
EXTENDS Integers, Sequences, SequencesExt

CONSTANTS
  AtomBytes,   \* per atom, the bytes its text or its blob takes, where that is not 1
  Width        \* per number that is not whole, its narrowest float

Untagged == "untagged"

Node(kind, atom, kids) ==
  [kind |-> kind, tag |-> Untagged, atom |-> atom, kids |-> kids]
Scalar(kind, atom) == Node(kind, atom, <<>>)
Tree(kind, kids) == Node(kind, "", kids)
Tagged(tag, item) == [item EXCEPT !.tag = tag]

\* What a decoder that gives up returns, and what a caller is refused with.
Bad == Scalar("bad", "")
Good(nodes) == \A i \in DOMAIN nodes : nodes[i] # Bad

MapKeys(m) == {m.kids[i].atom : i \in {j \in DOMAIN m.kids : j % 2 = 1}}
MapGet(m, key) ==
  LET i == CHOOSE j \in DOMAIN m.kids : j % 2 = 1 /\ m.kids[j].atom = key
  IN m.kids[i + 1]

Sum(ns) == FoldLeft(LAMBDA a, b : a + b, 0, ns)

\* CborFloat: package:cbor writes the narrowest float that holds the value.
CborFloat(atom) == Scalar(Width[atom], atom)
\* tinycbor's cbor_encode_double.
CborDouble(atom) == Scalar("double", atom)
Floats == {"half", "float", "double"}

\* The head of an item: its kind and a number.
HeadBytes(n) == IF n < 24 THEN 1 ELSE IF n < 256 THEN 2 ELSE 3

\* The bytes of a text or a blob.
LengthOf(atom) == IF atom \in DOMAIN AtomBytes THEN AtomBytes[atom] ELSE 1

\* The bytes of an item that tinycbor writes.
RECURSIVE Bytes(_)
Bytes(item) ==
  LET n == Len(item.kids)
      kids == Sum([i \in 1..n |-> Bytes(item.kids[i])])
      own == CASE item.kind \in {"null", "boolean"} -> 1
               [] item.kind \in {"integer", "double"} -> 9
               [] item.kind = "half" -> 3
               [] item.kind = "float" -> 5
               [] item.kind \in {"text", "bytes"} ->
                    HeadBytes(LengthOf(item.atom)) + LengthOf(item.atom)
               [] item.kind = "array" -> HeadBytes(n)
               [] item.kind = "map" -> HeadBytes(n \div 2)
  IN (IF item.tag = Untagged THEN 0 ELSE 3) + own + kids

\* tinycbor's append_to_buffer, on an encoder that goes on past its end.
Put(enc, bytes) ==
  IF enc.over THEN [enc EXCEPT !.needed = @ + bytes]
  ELSE IF enc.at + bytes <= enc.end THEN [enc EXCEPT !.at = @ + bytes]
  ELSE [enc EXCEPT !.over = TRUE, !.needed = bytes - (enc.end - enc.at)]

Encoder(capacity) ==
  [at |-> 0, end |-> capacity, over |-> FALSE, needed |-> 0, out |-> <<>>]

\* An encoder that stops at the first error, tried on buffers that double.
GrowAndRetry(item, cap, attempts) ==
  IF \E a \in 0..attempts-1 : Bytes(item) <= cap * 2^a THEN item ELSE Bad
=============================================================================
