--------------------------- MODULE FirestoreCodec ---------------------------
(***************************************************************************)
(* Firestore's codec, its query specification, its buffered writes and its *)
(* query results: firestore_impl.cpp and the mapping of firestore.dart.    *)
(***************************************************************************)
EXTENDS Cbor

CONSTANTS
  DocumentCapacity,  \* the buffer a document starts from: 512 in the code
  ResultCapacity,    \* the buffer a query result starts from: 4096
  EntryBytes,        \* what a result has in front of a body: "id", "path", ...
  RefusedFields      \* field paths the SDK throws on

-----------------------------------------------------------------------------
(* Dart, out: encodeFirestoreValue. *)

\* The tag of what is not a plain value; a sentinel's kind is its tag.
DartTag ==
  [FirestoreTimestamp |-> "timestamp", FirestoreGeoPoint |-> "geoPoint",
   FirestoreReference |-> "reference"]
Sentinels == {"delete", "serverTimestamp", "arrayUnion", "arrayRemove",
              "incrementInt", "incrementDouble"}

RECURSIVE EncodeFirestoreValue(_)
EncodeFirestoreValue(v) ==
  LET kids == [i \in DOMAIN v.kids |-> EncodeFirestoreValue(v.kids[i])]
      To(kind) == Node(kind, v.atom, kids)
  IN CASE v.kind = "null" -> To("null")
       [] v.kind = "bool" -> To("boolean")
       [] v.kind = "int" -> To("integer")
       [] v.kind = "double" -> CborFloat(v.atom)
       [] v.kind = "String" -> To("text")
       [] v.kind = "Uint8List" -> To("bytes")
       [] v.kind \in {"FirestoreTimestamp", "FirestoreGeoPoint"} ->
            Tagged(DartTag[v.kind], To("array"))
       [] v.kind = "FirestoreReference" -> Tagged("reference", To("text"))
       [] v.kind \in {"delete", "serverTimestamp"} -> Tagged(v.kind, To("null"))
       [] v.kind \in Sentinels \ {"delete", "serverTimestamp"} ->
            Tagged(v.kind, To("array"))
       [] v.kind = "List" -> To("array")
       [] v.kind = "Map" -> To("map")

-----------------------------------------------------------------------------
(* C++, in: ParseDocumentCbor. *)

\* cbor_value_get_double for every width of float.
ReadDoublesOnly(item) ==
  CASE item.kind = "double" -> Scalar("Double", item.atom)
    [] item.kind \in {"half", "float"} -> Scalar("Double", "0.0")
    [] OTHER -> Bad

\* Any width, and a whole number that the encoder wrote as an integer.
ReadCborDouble(item) ==
  IF item.kind \in Floats \cup {"integer"} THEN Scalar("Double", item.atom)
  ELSE Bad

ReadInt(item) ==
  IF item.kind = "integer" THEN Scalar("Integer", item.atom) ELSE Bad

FieldKind ==
  [null |-> "Null", boolean |-> "Boolean", integer |-> "Integer",
   text |-> "String", bytes |-> "Blob", array |-> "Array", map |-> "Map"]
TagKind ==
  [timestamp |-> "Timestamp", geoPoint |-> "GeoPoint", reference |-> "Reference",
   delete |-> "Delete", serverTimestamp |-> "ServerTimestamp",
   incrementInt |-> "IncrementInt", incrementDouble |-> "IncrementDouble",
   arrayUnion |-> "ArrayUnion", arrayRemove |-> "ArrayRemove"]

\* Keys are text; the first of two equal keys stays.
DecodeMap(kids, values) ==
  LET keys == {i \in DOMAIN kids : i % 2 = 1} IN
  IF Good(values) /\ \A i \in keys : kids[i].kind = "text"
  THEN Tree("Map", FoldLeft(LAMBDA m, i :
                     IF \E j \in 1..Len(m) : j % 2 = 1 /\ m[j] = values[2 * i - 1]
                     THEN m ELSE m \o <<values[2 * i - 1], values[2 * i]>>,
                   <<>>, [i \in 1..(Len(kids) \div 2) |-> i]))
  ELSE Bad

\* The payload as its tag says; "an unknown tag is a message this build does
\* not understand". A payload that is too short is refused; the codec of Dart
\* writes none that is too long, which the cursor would be left inside of.
DecodeTagged(item, values) ==
  LET As(parts) == IF Good(parts) THEN Tree(TagKind[item.tag], parts) ELSE Bad
      Each(Read(_)) == [i \in DOMAIN item.kids |-> Read(item.kids[i])]
      isArray == item.kind = "array"
      isPair == isArray /\ Len(item.kids) = 2
      isSingle == isArray /\ Len(item.kids) = 1
  IN CASE item.tag \in {"delete", "serverTimestamp"} ->
            Scalar(TagKind[item.tag], "")
       [] \/ item.tag = "timestamp" /\ isPair
          \/ item.tag = "incrementInt" /\ isSingle -> As(Each(ReadInt))
       [] \/ item.tag = "geoPoint" /\ isPair
          \/ item.tag = "incrementDouble" /\ isSingle -> As(Each(ReadCborDouble))
       [] item.tag = "reference" /\ item.kind = "text" ->
            Scalar("Reference", item.atom)
       [] item.tag \in {"arrayUnion", "arrayRemove"} /\ isArray -> As(values)
       [] OTHER -> Bad

RECURSIVE DecodeValue(_)
DecodeValue(item) ==
  LET values == [i \in DOMAIN item.kids |-> DecodeValue(item.kids[i])] IN
  CASE item.tag # Untagged -> DecodeTagged(item, values)
    [] item.kind \in Floats -> ReadCborDouble(item)
    [] item.kind = "array" -> IF Good(values) THEN Tree("Array", values) ELSE Bad
    [] item.kind = "map" -> DecodeMap(item.kids, values)
    [] item.kind \in DOMAIN FieldKind \ {"array", "map"} ->
         Scalar(FieldKind[item.kind], item.atom)
    [] OTHER -> Bad

ParseDocumentCbor(item) ==
  IF item.kind = "map" /\ item.tag = Untagged THEN DecodeValue(item) ELSE Bad

-----------------------------------------------------------------------------
(* C++, out: SerializeDocument and SerializeQueryResult. *)

\* Sentinels "are never returned by Firestore".
RECURSIVE EncodeValue(_), EncodeMap(_)
EncodeValue(v) ==
  LET kids == [i \in DOMAIN v.kids |-> EncodeValue(v.kids[i])] IN
  CASE v.kind = "Timestamp" -> Tagged("timestamp", Tree("array", kids))
    [] v.kind = "GeoPoint" -> Tagged("geoPoint", Tree("array", kids))
    [] v.kind = "Reference" -> Tagged("reference", Scalar("text", v.atom))
    [] v.kind = "Double" -> CborDouble(v.atom)
    [] v.kind = "Array" -> Tree("array", kids)
    [] v.kind = "Map" -> EncodeMap(v)
    [] \E k \in DOMAIN FieldKind : FieldKind[k] = v.kind /\ v.kids = <<>> ->
         Scalar(CHOOSE k \in DOMAIN FieldKind : FieldKind[k] = v.kind, v.atom)
    [] OTHER -> Scalar("null", "")

EncodeMap(m) == Tree("map", [i \in DOMAIN m.kids |-> EncodeValue(m.kids[i])])

SerializeDocument(m) == GrowAndRetry(EncodeMap(m), DocumentCapacity, 16)

\* PostDocument: an empty payload is a document that does not exist.
PostDocument(seq, payload) == [seq |-> seq, payload |-> payload]

\* What is left of a body that did not fit.
CutShort == Scalar("break", "")

\* EncodeMap writes to an encoder of its own, whose state reaches its parent
\* when it is closed, and a body that does not fit is never closed: the parent
\* stays where it was, and what EncodeMap returned is not looked at.
PutBody(enc, item) ==
  IF ~ enc.over /\ enc.at + Bytes(item) <= enc.end
  THEN [enc EXCEPT !.at = @ + Bytes(item), !.out = Append(@, item)]
  ELSE [enc EXCEPT !.out = Append(@, CutShort)]

PutEntry(enc, doc) ==
  Put(PutBody(Put(enc, EntryBytes + LengthOf(doc.id)), EncodeMap(doc.body)), 1)

RECURSIVE ResultIn(_, _, _)
ResultIn(docs, capacity, attempts) ==
  LET enc == Put(FoldLeft(PutEntry, Put(Encoder(capacity), 1), docs), 1)
  IN CASE ~ enc.over -> <<enc.out>>
       [] attempts = 1 -> <<>>
       [] OTHER -> ResultIn(docs, (capacity + enc.needed) * 2, attempts - 1)

\* <<the bodies>>, or <<>> when twelve buffers were too short.
SerializeQueryResult(docs) == ResultIn(docs, ResultCapacity, 12)

-----------------------------------------------------------------------------
(* Dart, in: decodeFirestoreValue, decodeDocument, _decodeQueryResult. *)

DartFieldKind ==
  [null |-> "null", boolean |-> "bool", integer |-> "int", half |-> "double",
   float |-> "double", double |-> "double", text |-> "String",
   bytes |-> "Uint8List", array |-> "List", map |-> "Map"]

\* A sentinel's tag is a FormatException.
RECURSIVE DecodeFirestoreValue(_)
DecodeFirestoreValue(item) ==
  LET kids == [i \in DOMAIN item.kids |-> DecodeFirestoreValue(item.kids[i])]
      kind == CASE item.tag = "timestamp" -> "FirestoreTimestamp"
                [] item.tag = "geoPoint" -> "FirestoreGeoPoint"
                [] item.tag = "reference" -> "FirestoreReference"
                [] OTHER -> DartFieldKind[item.kind]
  IN IF item.tag \in Sentinels \/ ~ Good(kids) THEN Bad
     ELSE Node(kind, item.atom, kids)

DecodeDocument(buffer) ==
  IF buffer.payload = <<>> THEN Scalar("null", "")
  ELSE LET v == DecodeFirestoreValue(buffer.payload[1])
       IN IF v.kind = "Map" THEN v ELSE Bad

\* cborDecode throws on a result with a body that was cut short.
DecodeQueryResult(bodies) ==
  IF \E i \in DOMAIN bodies : bodies[i] = CutShort THEN <<Bad>>
  ELSE [i \in DOMAIN bodies |-> DecodeFirestoreValue(bodies[i])]

-----------------------------------------------------------------------------
(* BuildQuery. *)

\* _querySpec: what a caller asked for, in the order the keys are written.
QuerySpec(q) ==
  LET Text(s) == Scalar("String", s)
      Clauses(rows) == Tree("List", [i \in DOMAIN rows |-> Tree("List", rows[i])])
      Key(key, when, v) == IF when THEN <<Text(key), v>> ELSE <<>>
      Bound(key) == Key(key, q[key] # <<>>, Tree("List", q[key]))
  IN Tree("Map",
       Key("collectionGroup", q.collectionGroup, Scalar("bool", "true"))
       \o Key("where", q.where # <<>>,
              Clauses([i \in DOMAIN q.where |->
                <<Text(q.where[i][1]), Text(q.where[i][2]), q.where[i][3]>>]))
       \o Key("orderBy", q.orderBy # <<>>,
              Clauses([i \in DOMAIN q.orderBy |->
                <<Text(q.orderBy[i][1]), Text(q.orderBy[i][2])>>]))
       \o Key("limit", q.limit # "", Scalar("int", q.limit))
       \o Key("limitToLast", q.limitToLast # "", Scalar("int", q.limitToLast))
       \o Bound("startAt") \o Bound("startAfter")
       \o Bound("endAt") \o Bound("endBefore"))

\* The SDK's Query (external): filters and orderings add up; there is one
\* limit, one start and one end, and of two the later stays.
AnyQuery == [group |-> FALSE, where |-> {}, orderBy |-> <<>>, limit |-> <<>>,
             start |-> <<>>, end |-> <<>>]

IsDocumentId(field) == field = "__name__"
Operators == {"==", "!=", "<", "<=", ">", ">=", "array-contains",
              "array-contains-any", "in", "not-in"}
ListOperators == {"array-contains-any", "in", "not-in"}

\* A query under construction: what it is, or the code it was refused with.
Ok(q) == [rc |-> 0, query |-> q]
Refusal(rc) == [rc |-> rc, query |-> AnyQuery]
\* -4 when the SDK throws on a field path.
Field(field, result) == IF field \in RefusedFields THEN Refusal(-4) ELSE result

ApplyWhere(q, field, op, v) ==
  IF \/ op \notin (IF IsDocumentId(field) THEN {"==", "in"} ELSE Operators)
     \/ op \in ListOperators /\ v.kind # "Array"
  THEN Refusal(-3)
  ELSE Field(field, Ok([q EXCEPT !.where = @ \cup {<<field, op, v>>}]))

IsText(items, i) == i \in DOMAIN items /\ items[i].kind = "text"

ApplyWhereClause(q, clause) ==
  LET k == clause.kids
      v == IF 3 \in DOMAIN k THEN DecodeValue(k[3]) ELSE Bad
  IN IF ~ IsText(k, 1) \/ ~ IsText(k, 2) \/ v = Bad THEN Refusal(-3)
     ELSE ApplyWhere(q, k[1].atom, k[2].atom, v)

ApplyOrderClause(q, clause) ==
  LET k == clause.kids IN
  IF ~ IsText(k, 1) \/ ~ IsText(k, 2) THEN Refusal(-3)
  ELSE IF k[2].atom \notin {"asc", "desc"} THEN Refusal(-3)
  ELSE Field(k[1].atom,
             Ok([q EXCEPT !.orderBy = Append(@, <<k[1].atom, k[2].atom>>)]))

ApplyClauseArray(q, key, array) ==
  IF array.kind # "array" THEN Refusal(-3)
  ELSE FoldLeft(LAMBDA r, clause :
                  CASE r.rc # 0 -> r
                    [] r.rc = 0 /\ clause.kind # "array" -> Refusal(-3)
                    [] OTHER -> IF key = "where" THEN ApplyWhereClause(r.query, clause)
                                ELSE ApplyOrderClause(r.query, clause),
                Ok(q), array.kids)

\* <<>> for what is not an array, or has a value that does not decode.
ReadCursorValues(array) ==
  LET vs == [i \in DOMAIN array.kids |-> DecodeValue(array.kids[i])]
  IN IF array.kind = "array" /\ Good(vs) THEN vs ELSE <<>>

\* Limits are the atoms "1", "2", ...; INT32_MAX is the highest.
GoodLimit(item) == item.kind = "integer" /\ item.atom \notin {"0", "-1", "2^31"}

ApplyKey(q, key, item) ==
  LET values == ReadCursorValues(item) IN
  CASE key \in {"where", "orderBy"} -> ApplyClauseArray(q, key, item)
    [] key \in {"startAt", "startAfter"} /\ values # <<>> ->
         Ok([q EXCEPT !.start = <<key, values>>])
    [] key \in {"endAt", "endBefore"} /\ values # <<>> ->
         Ok([q EXCEPT !.end = <<key, values>>])
    [] key = "collectionGroup" -> Ok(q)
    [] key \in {"limit", "limitToLast"} /\ GoodLimit(item) ->
         Ok([q EXCEPT !.limit = <<key, item.atom>>])
    [] OTHER -> Refusal(-3)

\* The pre-pass: the first collectionGroup that is a boolean, up to a key that
\* is not text.
SpecWantsCollectionGroup(spec) ==
  \E i \in DOMAIN spec.kids :
    /\ i % 2 = 1 /\ spec.kids[i].atom = "collectionGroup"
    /\ spec.kids[i + 1] = Scalar("boolean", "true")
    /\ \A j \in 1..i : j % 2 = 1 => IsText(spec.kids, j)

BuildQuery(bytes) ==
  IF bytes = <<>> THEN Ok(AnyQuery)
  ELSE LET spec == bytes[1]
           base == [AnyQuery EXCEPT !.group = SpecWantsCollectionGroup(spec)]
       IN IF spec.kind # "map" THEN Refusal(-3)
          ELSE FoldLeft(LAMBDA r, i :
                 IF r.rc # 0 THEN r
                 ELSE IF ~ IsText(spec.kids, 2 * i - 1) THEN Refusal(-3)
                 ELSE ApplyKey(r.query, spec.kids[2 * i - 1].atom, spec.kids[2 * i]),
               Ok(base), [i \in 1..(Len(spec.kids) \div 2) |-> i])

-----------------------------------------------------------------------------
(* ApplyWrites. *)

\* The data of a write: DecodeMap enters any container, map or not, and reads
\* keys and values in turn.
WrittenData(item) ==
  IF /\ item.kind \in {"map", "array"} /\ item.tag = Untagged
     /\ Len(item.kids) % 2 = 0
  THEN DecodeMap(item.kids, [i \in DOMAIN item.kids |-> DecodeValue(item.kids[i])])
  ELSE Bad

\* A merge that is made as a set.
WriteOfNoMerge(entry) ==
  <<IF entry.kids[1].atom = "merge" THEN "set" ELSE entry.kids[1].atom,
    entry.kids[2].atom,
    IF 3 \in DOMAIN entry.kids THEN WrittenData(entry.kids[3]) ELSE Bad>>

\* What one buffered [op, path, data?] asks of the writer, or <<>>.
WriteOf(entry) ==
  LET k == entry.kids
      data == IF 3 \in DOMAIN k THEN WrittenData(k[3]) ELSE Bad
  IN IF entry.kind # "array" \/ ~ IsText(k, 1) \/ ~ IsText(k, 2) THEN <<>>
     ELSE CASE k[1].atom = "delete" -> <<"delete", k[2].atom, Bad>>
            [] k[1].atom \in {"set", "merge", "update"} /\ data # Bad ->
                 <<k[1].atom, k[2].atom, data>>
            [] OTHER -> <<>>

\* The writes made until one could not be: those before it have been made.
ApplyWrites(bytes) ==
  IF bytes = <<>> THEN [ok |-> TRUE, made |-> <<>>]
  ELSE IF bytes[1].kind # "array" THEN [ok |-> FALSE, made |-> <<>>]
  ELSE FoldLeft(LAMBDA r, entry :
         IF ~ r.ok THEN r
         ELSE IF WriteOf(entry) = <<>> THEN [r EXCEPT !.ok = FALSE]
         ELSE [r EXCEPT !.made = Append(@, WriteOf(entry))],
       [ok |-> TRUE, made |-> <<>>], bytes[1].kids)
=============================================================================
