-------------------------- MODULE StorageMetadata --------------------------
(***************************************************************************)
(* The metadata of a Storage object, as SerializeMetadata writes it and    *)
(* StorageMetadata.fromMap reads it: fields by name, text ones and numbers,*)
(* and the custom ones under a key of their own.                           *)
(***************************************************************************)
EXTENDS Cbor

CONSTANT MetadataCapacity   \* the buffer it starts from: 512 in the code

\* An absent text is written as an empty one.
EncodeTextFieldAlways(key, value) == <<Scalar("text", key), Scalar("text", value)>>

\* "a null or empty string is absence".
EncodeTextField(key, value) ==
  IF value = "" THEN <<>> ELSE <<Scalar("text", key), Scalar("text", value)>>

EncodeIntField(key, value) == <<Scalar("text", key), Scalar("integer", value)>>

\* m.text, m.number, m.custom: per name, what the SDK says of it.
EncodeMetadata(m) ==
  Tree("map",
       FlattenSeq([i \in DOMAIN m.text |-> EncodeTextField(m.text[i][1], m.text[i][2])])
       \o FlattenSeq([i \in DOMAIN m.number |->
                       EncodeIntField(m.number[i][1], m.number[i][2])])
       \o (IF m.custom = <<>> THEN <<>>
           ELSE <<Scalar("text", "custom"),
                  Tree("map", FlattenSeq([i \in DOMAIN m.custom |->
                    <<Scalar("text", m.custom[i][1]), Scalar("text", m.custom[i][2])>>]))>>))

\* The walk goes on past the end of the buffer, through containers that close.
RECURSIVE MetadataIn(_, _, _)
MetadataIn(item, capacity, attempts) ==
  LET enc == Put(Encoder(capacity), Bytes(item))
  IN CASE ~ enc.over -> item
       [] attempts = 1 -> Bad
       [] OTHER -> MetadataIn(item, (capacity + enc.needed) * 2, attempts - 1)

SerializeMetadata(m) == MetadataIn(EncodeMetadata(m), MetadataCapacity, 8)

\* StorageMetadata.fromMap: a text that is not there is null, and a time that
\* is 0 "as an epoch would be 1970 rather than absent".
Times == {"creationTime", "updatedTime"}
FromMap(item) ==
  LET custom == IF "custom" \in MapKeys(item) THEN MapGet(item, "custom")
                ELSE Tree("map", <<>>)
      set == {key \in MapKeys(item) \ {"custom"} :
                ~ (key \in Times /\ MapGet(item, key).atom = "0")}
  IN [field |-> [key \in set |-> MapGet(item, key).atom],
      custom |-> [key \in MapKeys(custom) |-> MapGet(custom, key).atom]]
=============================================================================
