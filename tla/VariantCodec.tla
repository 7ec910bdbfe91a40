---------------------------- MODULE VariantCodec ----------------------------
(***************************************************************************)
(* The codec of the products that speak firebase::Variant, and the query   *)
(* specification of the Realtime Database: the fdb:: functions and         *)
(* ApplyQuerySpec of firebase_impl.cpp, and variant_codec.dart.            *)
(***************************************************************************)
EXTENDS Cbor

CONSTANTS
  KeyOrder     \* the keys of maps, in the order std::map<Variant> keeps them

-----------------------------------------------------------------------------
(* Dart, out: encodeVariantValue. *)

RECURSIVE EncodeVariantValue(_)
EncodeVariantValue(v) ==
  LET kids == [i \in DOMAIN v.kids |-> EncodeVariantValue(v.kids[i])]
      To(kind) == Node(kind, v.atom, kids)
  IN CASE v.kind = "null" -> To("null")
       [] v.kind = "bool" -> To("boolean")
       [] v.kind = "int" -> To("integer")
       [] v.kind = "double" -> CborFloat(v.atom)
       [] v.kind = "String" -> To("text")
       [] v.kind = "Uint8List" -> To("bytes")
       [] v.kind = "List" -> To("array")
       [] v.kind = "Map" -> To("map")

-----------------------------------------------------------------------------
(* C++, in: ParseVariant. *)

VariantKind ==
  [null |-> "null", undefined |-> "null", boolean |-> "bool",
   integer |-> "int64", half |-> "double", float |-> "double",
   double |-> "double", text |-> "string", bytes |-> "blob",
   array |-> "vector", map |-> "map"]

\* map.emplace: of two equal keys, the first stays.
FirstOfEachKey(kids) ==
  FoldLeft(LAMBDA m, i :
             IF \E j \in 1..Len(m) : j % 2 = 1 /\ m[j] = kids[2 * i - 1]
             THEN m ELSE m \o <<kids[2 * i - 1], kids[2 * i]>>,
           <<>>, [i \in 1..(Len(kids) \div 2) |-> i])

DecodeVariantMap(kids) ==
  IF Good(kids) THEN Tree("map", FirstOfEachKey(kids)) ELSE Bad

DecodeVariantArray(kids) == IF Good(kids) THEN Tree("vector", kids) ELSE Bad

\* cbor_value_get_double on a half is not a widening read: "1.5 arrives as a
\* half and came back 0.0".
DecodeScalarAsDouble(item) ==
  Scalar(VariantKind[item.kind],
         IF item.kind \in {"half", "float"} THEN "0.0" ELSE item.atom)

DecodeScalar(item) == Scalar(VariantKind[item.kind], item.atom)

RECURSIVE DecodeVariant(_)
DecodeVariant(item) ==
  LET kids == [i \in DOMAIN item.kids |-> DecodeVariant(item.kids[i])] IN
  CASE item.tag # Untagged \/ item.kind \notin DOMAIN VariantKind -> Bad
    [] item.kind = "array" -> DecodeVariantArray(kids)
    [] item.kind = "map" -> DecodeVariantMap(kids)
    [] OTHER -> DecodeScalar(item)

\* A string-keyed map, or nothing: "silently stringifying a non-string key
\* would invent a key nobody wrote".
ParseVariantMap(item) ==
  LET v == DecodeVariant(item)
      keys == {v.kids[i].kind : i \in {j \in DOMAIN v.kids : j % 2 = 1}}
  IN IF v.kind = "map" /\ keys \subseteq {"string"} THEN v ELSE Bad

-----------------------------------------------------------------------------
(* C++, out: SerializeVariant, SerializeOrder, SerializeVariantMap. *)

CborKind ==
  [null |-> "null", bool |-> "boolean", int64 |-> "integer",
   double |-> "double", string |-> "text", blob |-> "bytes",
   vector |-> "array", map |-> "map"]

\* A key that is not a string goes out as null, which keeps the pair count.
RECURSIVE EncodeVariant(_)
EncodeVariant(v) ==
  LET IsKey(i) == v.kind = "map" /\ i % 2 = 1 IN
  Node(CborKind[v.kind], v.atom,
       [i \in DOMAIN v.kids |->
          IF IsKey(i) /\ v.kids[i].kind # "string" THEN Scalar("null", "")
          ELSE EncodeVariant(v.kids[i])])

kHeader == 9

\* The keys of a map are left out of the sum.
RECURSIVE EstimateOfValues(_)
EstimateOfValues(v) ==
  (IF v.kind \in {"string", "blob"} THEN kHeader + LengthOf(v.atom)
   ELSE IF v.kind \in {"vector", "map"} THEN 1 ELSE kHeader)
  + Sum([i \in DOMAIN v.kids |-> IF v.kind = "map" /\ i % 2 = 1 THEN 0
                                 ELSE EstimateOfValues(v.kids[i])])

RECURSIVE EstimateVariantBytes(_)
EstimateVariantBytes(v) ==
  kHeader + (IF v.kind \in {"string", "blob"} THEN LengthOf(v.atom) ELSE 0)
  + Sum([i \in DOMAIN v.kids |-> EstimateVariantBytes(v.kids[i])])

SerializeVariant(v) ==
  GrowAndRetry(EncodeVariant(v), EstimateVariantBytes(v), 16)

\* std::map<std::string, Variant> as a Variant.
SerializeVariantMap(m) ==
  SerializeVariant(Tree("map", FirstOfEachKey(m.kids)))

HasChildren(v) == v.kind = "map" /\ v.kids # <<>>
Children(v) == [i \in 1..(IF v.kind = "map" THEN Len(v.kids) \div 2 ELSE 0) |->
                  [key |-> v.kids[2 * i - 1].atom, snap |-> v.kids[2 * i]]]

\* A DataSnapshot is a Variant whose maps have their children in the order of
\* the query: nested [key, sub | null] pairs.
RECURSIVE EncodeOrder(_)
EncodeOrder(snap) ==
  LET Entry(c) == Tree("array", <<Scalar("text", c.key),
                                  IF HasChildren(c.snap) THEN EncodeOrder(c.snap)
                                  ELSE Scalar("null", "")>>)
  IN Tree("array", [i \in DOMAIN Children(snap) |-> Entry(Children(snap)[i])])

RECURSIVE EstimateOrderBytes(_)
EstimateOrderBytes(snap) ==
  LET Of(c) == kHeader + LengthOf(c.key) + kHeader
               + (IF HasChildren(c.snap) THEN EstimateOrderBytes(c.snap) ELSE 0)
  IN kHeader + Sum([i \in DOMAIN Children(snap) |-> Of(Children(snap)[i])])

SerializeOrder(snap) ==
  GrowAndRetry(EncodeOrder(snap), EstimateOrderBytes(snap), 16)

\* DataSnapshot::value() (external): a Variant map, "which the SDK sorts by
\* key".
RECURSIVE InKeyOrder(_)
InKeyOrder(v) ==
  IF v.kind \notin {"map", "Map"}
  THEN [v EXCEPT !.kids = [i \in DOMAIN v.kids |-> InKeyOrder(v.kids[i])]]
  ELSE [v EXCEPT !.kids =
          FoldLeft(LAMBDA kids, k :
                     IF k \in MapKeys(v)
                     THEN kids \o <<[v.kids[1] EXCEPT !.atom = k],
                                    InKeyOrder(MapGet(v, k))>>
                     ELSE kids, <<>>, KeyOrder)]

\* PostSnapshot: the value and the order, one after the other; the header has
\* the length of each.
PostSnapshot(seq, payload, order) ==
  [seq |-> seq, value |-> payload, order |-> order]

\* PortValueListener::OnValueChanged.
OnValueChanged(seq, snap) ==
  LET order == SerializeOrder(snap) IN
  PostSnapshot(seq, <<SerializeVariant(InKeyOrder(snap))>>,
               IF order = Bad THEN <<>> ELSE <<order>>)

\* PortChildListener::Post: "the SDK says no predecessor with an empty string".
OnChildEvent(seq, type, key, previous, snap) ==
  LET Text(s) == Scalar("string", s)
      event == Tree("map",
        <<Text("key"), Text(key),
          Text("prev"), IF previous = "" THEN Scalar("null", "") ELSE Text(previous),
          Text("type"), Scalar("int64", type),
          Text("value"), InKeyOrder(snap)>>)
  IN PostSnapshot(seq, <<SerializeVariantMap(event)>>, <<>>)

-----------------------------------------------------------------------------
(* Dart, in: decodeSnapshotValue and decodeSnapshotOrder. *)

\* package:cbor's toObject; a byte string becomes a plain List<int>.
DartKind ==
  [null |-> "null", boolean |-> "bool", integer |-> "int", half |-> "double",
   float |-> "double", double |-> "double", text |-> "String",
   bytes |-> "List<int>", array |-> "List", map |-> "Map"]

RECURSIVE ToObject(_)
ToObject(item) ==
  Node(DartKind[item.kind], item.atom,
       [i \in DOMAIN item.kids |-> ToObject(item.kids[i])])

\* A value_len of 0 reads to the end of the buffer.
DecodeSnapshotValue(buffer) ==
  LET payload == IF buffer.value = <<>> THEN buffer.order ELSE buffer.value
  IN IF payload = <<>> THEN Scalar("null", "") ELSE ToObject(payload[1])

RECURSIVE DbChildOrder(_)
DbChildOrder(list) ==
  Tree("DbChildOrder",
       [i \in DOMAIN list.kids |->
          LET entry == list.kids[i].kids
          IN Node("child", entry[1].atom,
                  IF entry[2].kind = "List" THEN <<DbChildOrder(entry[2])>>
                  ELSE <<>>)])

DecodeSnapshotOrder(buffer) ==
  IF buffer.order = <<>> THEN Scalar("null", "")
  ELSE DbChildOrder(ToObject(buffer.order[1]))

-----------------------------------------------------------------------------
(* ApplyQuerySpec.  A query is the set of the constraints it has been given. *)

Refused == {<<"refused", "", "">>}

KnownKeys == {"orderBy", "orderByPath", "startAt", "startAtKey", "endAt",
              "endAtKey", "equalTo", "equalToKey", "limitToFirst", "limitToLast"}

Has(spec, key) == key \in MapKeys(spec)
Atom(spec, key) == IF Has(spec, key) THEN MapGet(spec, key).atom ELSE ""
TextAt(spec, key) == Has(spec, key) /\ MapGet(spec, key).kind = "string"
\* Limits are the atoms "1", "2", ...
IsLimit(spec, key) ==
  MapGet(spec, key).kind = "int64" /\ Atom(spec, key) \notin {"0", "-1"}

\* equalTo with startAt or endAt is let through.
RefusesNoContradiction(spec) ==
  \/ ~ MapKeys(spec) \subseteq KnownKeys
  \/ Has(spec, "limitToFirst") /\ Has(spec, "limitToLast")

RefusesSpec(spec) ==
  \/ ~ MapKeys(spec) \subseteq KnownKeys
  \/ /\ Has(spec, "orderBy")
     /\ \/ ~ TextAt(spec, "orderBy")
        \/ Atom(spec, "orderBy") \notin {"child", "key", "value", "priority"}
        \/ Atom(spec, "orderBy") = "child" /\ ~ TextAt(spec, "orderByPath")
  \/ ~ Has(spec, "orderBy") /\ Has(spec, "orderByPath")
  \/ Has(spec, "equalTo") /\ (Has(spec, "startAt") \/ Has(spec, "endAt"))
  \/ \E b \in {<<"equalTo", "equalToKey">>, <<"startAt", "startAtKey">>,
               <<"endAt", "endAtKey">>} :
       Has(spec, b[1]) /\ Has(spec, b[2]) /\ ~ TextAt(spec, b[2])
  \/ Has(spec, "limitToFirst") /\ Has(spec, "limitToLast")
  \/ \E key \in {"limitToFirst", "limitToLast"} :
       Has(spec, key) /\ ~ IsLimit(spec, key)

\* What is applied, in the SDK's order: an ordering, the bounds, a limit.
ApplyQuerySpec(spec) ==
  IF RefusesSpec(spec) THEN Refused
  ELSE LET by == Atom(spec, "orderBy") IN
    {<<"orderBy", by, IF by = "child" THEN Atom(spec, "orderByPath") ELSE "">> :
       k \in {"orderBy"} \cap MapKeys(spec)}
    \cup {<<b[1], Atom(spec, b[1]), Atom(spec, b[2])>> :
            b \in {p \in {<<"equalTo", "equalToKey">>,
                          <<"startAt", "startAtKey">>, <<"endAt", "endAtKey">>} :
                     Has(spec, p[1])}}
    \cup {<<k, Atom(spec, k), "">> :
            k \in {"limitToFirst", "limitToLast"} \cap MapKeys(spec)}

\* fdb_db_query_listen and its kin: an empty spec is the whole node.
DbQueryOf(bytes) ==
  IF bytes = <<>> THEN {}
  ELSE LET spec == ParseVariantMap(bytes[1]) IN
       IF spec = Bad THEN Refused ELSE ApplyQuerySpec(spec)
=============================================================================
