---------------------------- MODULE Marshalling ----------------------------
(***************************************************************************)
(* What a call says is what the other side hears: values, documents,       *)
(* metadata, queries, batches and query results, from the Dart value a     *)
(* caller passes to what the SDK is given, and from what the SDK answers   *)
(* to the Dart value the caller gets.                                      *)
(*                                                                         *)
(* The server is external: it holds what it was given, with Firestore's    *)
(* sentinels carried out.                                                  *)
(***************************************************************************)
EXTENDS VariantCodec, FirestoreCodec, StorageMetadata, FiniteSets

CONSTANTS
  DbValues,       \* what is written to the Realtime Database
  Documents,      \* what is written to Firestore
  MetadataSet,    \* what Storage knows of an object
  QueryCalls,     \* the calls of DbQuery's builder: <<name, argument, key>>
  MaxCalls,       \* the most of them in a query
  FsQueries,      \* what is asked of a collection
  Batches,        \* what a batch is made of: sequences of <<op, path, data>>
  Results,        \* what a query finds: sequences of [id, body]
  AllCombinations \* TRUE: also a limit, a start or an end given twice

VARIABLES
  op,      \* what goes on
  asked,   \* what the caller passed
  held,    \* what the SDK, and with it the server, was given
  got      \* what the caller got

vars == <<op, asked, held, got>>

Nothing == Scalar("nothing", "")

Init == op = "idle" /\ asked = Nothing /\ held = Nothing /\ got = Nothing

Step(from, to, a, h, g) ==
  /\ op = from
  /\ op' = to /\ asked' = a /\ held' = h /\ got' = g

-----------------------------------------------------------------------------
(* The Realtime Database. *)

\* setValue: encodeVariant, then fdb_db_set.  updateChildren refuses what is
\* not a map.
DbSet(v) ==
  LET value == DecodeVariant(EncodeVariantValue(v))
  IN Step("idle", IF value = Bad THEN "refused" ELSE "dbHeld", v, value, Nothing)

\* The children as the query orders them: by key, or the other way round.
RECURSIVE Backwards(_)
Backwards(v) ==
  LET n == Len(v.kids) IN
  [v EXCEPT !.kids =
     IF v.kind # "map" THEN [i \in 1..n |-> Backwards(v.kids[i])]
     ELSE [i \in 1..n |-> Backwards(v.kids[IF i % 2 = 1 THEN n - i ELSE n - i + 2])]]

\* A snapshot arrives, is posted and decoded.
DbSnapshot(snap) ==
  LET buffer == OnValueChanged(1, snap)
  IN Step("dbHeld", "dbValue", asked, snap,
          [value |-> DecodeSnapshotValue(buffer),
           order |-> DecodeSnapshotOrder(buffer)])

\* A child event of onChildEvent arrives for the value at a key.
DbChild(previous) ==
  LET m == ToObject(OnChildEvent(1, "0", "a", previous, held).value[1])
  IN Step("dbHeld", "dbChild", asked, [held |-> held, previous |-> previous],
          [key |-> MapGet(m, "key"), prev |-> MapGet(m, "prev"),
           value |-> MapGet(m, "value")])

-----------------------------------------------------------------------------
(* DbQuery: a spec that its calls merge into, then ApplyQuerySpec. *)

StartQuery == Step("idle", "building", <<>>, Nothing, Nothing)

BuildQueryCall(call) ==
  /\ op = "building" /\ Len(asked) < MaxCalls
  /\ AllCombinations \/ \A i \in DOMAIN asked : asked[i][1] # call[1]
  /\ asked' = Append(asked, call)
  /\ UNCHANGED <<op, held, got>>

\* {..._spec, ...changes}: a key given again is replaced where it is.
Merge(spec, key, v) ==
  IF key \in MapKeys(spec)
  THEN [spec EXCEPT !.kids = [i \in DOMAIN @ |->
          IF i % 2 = 0 /\ @[i - 1].atom = key THEN v ELSE @[i]]]
  ELSE [spec EXCEPT !.kids = @ \o <<Scalar("String", key), v>>]

\* orderByChild and its kin, startAt, endAt, equalTo and the limits.
With(spec, call) ==
  LET Text(s) == Scalar("String", s) IN
  CASE call[1] = "orderBy" /\ call[2] = "child" ->
         Merge(Merge(spec, "orderBy", Text("child")), "orderByPath", Text(call[3]))
    [] call[1] = "orderBy" -> Merge(spec, "orderBy", Text(call[2]))
    [] call[1] \in {"limitToFirst", "limitToLast"} ->
         Merge(spec, call[1], Scalar("int", call[2]))
    [] OTHER ->
         LET bound == Merge(spec, call[1], Text(call[2]))
             keyed == [startAt |-> "startAtKey", endAt |-> "endAtKey",
                       equalTo |-> "equalToKey"]
         IN IF call[3] = "" THEN bound ELSE Merge(bound, keyed[call[1]], Text(call[3]))

RunDbQuery ==
  LET spec == FoldLeft(With, Tree("Map", <<>>), asked)
      bytes == IF spec.kids = <<>> THEN <<>> ELSE <<EncodeVariantValue(spec)>>
  IN Step("building", "dbQuery", asked, DbQueryOf(bytes), Nothing)

-----------------------------------------------------------------------------
(* Firestore and Storage. *)

\* What the server makes of a document that was not there (external).
Stored(doc) ==
  LET ValueOf(v) ==
        CASE v.kind = "ServerTimestamp" ->
               Tree("Timestamp", <<Scalar("Integer", "1"), Scalar("Integer", "0")>>)
          [] v.kind \in {"IncrementInt", "IncrementDouble"} -> v.kids[1]
          [] v.kind = "ArrayUnion" -> Tree("Array", v.kids)
          [] v.kind = "ArrayRemove" -> Tree("Array", <<>>)
          [] OTHER -> v
  IN Tree("Map", FlattenSeq([i \in 1..(Len(doc.kids) \div 2) |->
       IF doc.kids[2 * i].kind = "Delete" THEN <<>>
       ELSE <<doc.kids[2 * i - 1], ValueOf(doc.kids[2 * i])>>]))

FsSet(doc) ==
  LET data == ParseDocumentCbor(EncodeFirestoreValue(doc))
  IN Step("idle", IF data = Bad THEN "refused" ELSE "fsHeld", doc,
          IF data = Bad THEN Bad ELSE Stored(data), Nothing)

\* getDocument: seq -2 for a document that could not be encoded.
FsGet ==
  LET payload == SerializeDocument(held)
      buffer == IF payload = Bad THEN PostDocument(-2, <<>>)
                ELSE PostDocument(1, <<payload>>)
  IN Step("fsHeld", "fsValue", asked, held,
          IF buffer.seq < 0 THEN Bad ELSE DecodeDocument(buffer))

\* queryCollection and onQuery: an empty spec is sent as no bytes.
FsQuery(q) ==
  LET spec == QuerySpec(q)
      bytes == IF spec.kids = <<>> THEN <<>> ELSE <<EncodeFirestoreValue(spec)>>
  IN Step("idle", "fsQuery", q, BuildQuery(bytes), Nothing)

\* What the query found, and its way back.
FsResult(docs) ==
  LET payload == SerializeQueryResult(docs)
  IN Step("idle", "fsResult", docs, Nothing,
          IF payload = <<>> THEN <<Bad, Bad>> ELSE DecodeQueryResult(payload[1]))

\* FirestoreBatch.commit and fdb_fs_batch_commit: the batch is committed when
\* every write was made on it, and dropped otherwise.
BatchCommit(writes) ==
  LET Entry(w) == Tree("List", <<Scalar("String", w[1]), Scalar("String", w[2])>>
                               \o (IF w[1] = "delete" THEN <<>> ELSE <<w[3]>>))
      r == ApplyWrites(<<EncodeFirestoreValue(
             Tree("List", [i \in DOMAIN writes |-> Entry(writes[i])]))>>)
  IN Step("idle", "batch", writes, IF r.ok THEN r.made ELSE <<>>,
          Scalar("rc", IF r.ok THEN "0" ELSE "-3"))

GetMetadata(m) ==
  LET item == SerializeMetadata(m)
  IN Step("idle", "metadata", m, Nothing, IF item = Bad THEN Bad ELSE FromMap(item))

Finish ==
  /\ op \in {"refused", "dbValue", "dbChild", "dbQuery", "fsValue", "fsQuery",
             "fsResult", "batch", "metadata"}
  /\ op' = "idle" /\ asked' = Nothing /\ held' = Nothing /\ got' = Nothing

Next ==
  \/ \E v \in DbValues : DbSet(v)
  \/ op = "dbHeld" /\ \E snap \in {InKeyOrder(held), Backwards(InKeyOrder(held))} :
       DbSnapshot(snap)
  \/ op = "dbHeld" /\ \E previous \in {"", "b"} : DbChild(previous)
  \/ StartQuery
  \/ \E call \in QueryCalls : BuildQueryCall(call)
  \/ op = "building" /\ RunDbQuery
  \/ \E doc \in Documents : FsSet(doc)
  \/ op = "fsHeld" /\ FsGet
  \/ \E q \in FsQueries : FsQuery(q)
  \/ \E docs \in Results : FsResult(docs)
  \/ \E writes \in Batches : BatchCommit(writes)
  \/ \E m \in MetadataSet : GetMetadata(m)
  \/ Finish

Spec == Init /\ [][Next]_vars

-----------------------------------------------------------------------------
(* Properties. *)

\* What a Dart value is read back as.  A blob comes back as a plain list.
RECURSIVE ReadBack(_)
ReadBack(v) ==
  [v EXCEPT !.kind = IF @ = "Uint8List" THEN "List<int>" ELSE @,
            !.kids = [i \in DOMAIN @ |-> ReadBack(@[i])]]

RECURSIVE KeysOf(_)
KeysOf(snap) ==
  Tree("DbChildOrder", [i \in DOMAIN Children(snap) |->
    Node("child", Children(snap)[i].key,
         IF HasChildren(Children(snap)[i].snap)
         THEN <<KeysOf(Children(snap)[i].snap)>> ELSE <<>>)])

\* A value that was set is read back as itself, every width of number
\* included ("1.5 arrives as a half and came back 0.0"), its children in the
\* order the query produced them at every level, and a child event names its
\* key and the sibling before it ("one that is first" has none).
ValueSurvives ==
  /\ op = "dbValue" =>
       /\ got.value = InKeyOrder(ReadBack(asked))
       /\ got.order = KeysOf(held)
  /\ op = "dbChild" =>
       /\ got.value = InKeyOrder(ReadBack(asked))
       /\ got.key = Scalar("String", "a")
       /\ got.prev = IF held.previous = "" THEN Scalar("null", "")
                     ELSE Scalar("String", held.previous)

\* "The estimate cannot under-count, so the loop below is a safety net rather
\* than the mechanism": a snapshot is encoded once.
EncodedOnce ==
  op \in {"dbHeld", "dbValue"} =>
    /\ Bytes(EncodeVariant(held)) <= EstimateVariantBytes(held)
    /\ Bytes(EncodeOrder(held)) <= EstimateOrderBytes(held)

\* What the caller meant by a document: the values, and what the sentinels do.
Meant(doc) ==
  LET ValueOf(v) ==
        CASE v.kind = "serverTimestamp" ->
               Tree("FirestoreTimestamp", <<Scalar("int", "1"), Scalar("int", "0")>>)
          [] v.kind \in {"incrementInt", "incrementDouble"} -> v.kids[1]
          [] v.kind = "arrayUnion" -> Tree("List", v.kids)
          [] v.kind = "arrayRemove" -> Tree("List", <<>>)
          [] OTHER -> v
  IN Tree("Map", FlattenSeq([i \in 1..(Len(doc.kids) \div 2) |->
       IF doc.kids[2 * i].kind = "delete" THEN <<>>
       ELSE <<doc.kids[2 * i - 1], ValueOf(doc.kids[2 * i])>>]))

Present(rows) == {i \in DOMAIN rows : rows[i][2] # ""}

\* A document is read back as it was meant, whatever its size and its types,
\* "the one Firestore type that then cannot be told from an array of small
\* integers" included; an object's metadata has the fields the backend set and
\* no others ("'no content type' and 'the content type is the empty string'
\* are different answers").
AnswerSurvives ==
  /\ op = "fsValue" => got = Meant(asked)
  /\ op = "metadata" =>
       /\ got # Bad
       /\ got.field =
            [k \in {asked.text[i][1] : i \in Present(asked.text)}
                   \cup {asked.number[i][1] : i \in
                           {j \in DOMAIN asked.number :
                              asked.number[j] \notin Times \X {"0"}}} |->
               LET row == CHOOSE r \in {asked.text[i] : i \in DOMAIN asked.text}
                                  \cup {asked.number[i] : i \in DOMAIN asked.number} :
                            r[1] = k
               IN row[2]]
       /\ DOMAIN got.custom = {asked.custom[i][1] : i \in DOMAIN asked.custom}
       /\ \A i \in DOMAIN asked.custom :
            got.custom[asked.custom[i][1]] = asked.custom[i][2]

\* A query of the Realtime Database runs with every constraint that was asked
\* for and no other, or is refused, and it is refused only for asking a
\* contradiction: "Ignoring one runs a weaker query that returns more than was
\* asked for and reports no error, which is the failure that is hardest to
\* notice."
DbQueryIsWhole ==
  op = "dbQuery" =>
    LET calls == {asked[i] : i \in DOMAIN asked}
        names == {c[1] : c \in calls}
        contradicts == \/ "equalTo" \in names /\ {"startAt", "endAt"} \cap names # {}
                       \/ {"limitToFirst", "limitToLast"} \subseteq names
                       \/ \E c \in calls : c[1] \in {"limitToFirst", "limitToLast"}
                                           /\ c[2] = "0"
    IN held = IF contradicts THEN Refused ELSE calls

\* The same of Firestore: "a spec that does not parse must not run as a weaker
\* query, because the caller would get more documents and no error".
FsQueryIsWhole ==
  op = "fsQuery" /\ held.rc = 0 =>
    LET Value(v) == DecodeValue(EncodeFirestoreValue(v))
        q == held.query
        Bounds(names) ==
          {<<k, [i \in DOMAIN asked[k] |-> Value(asked[k][i])]>> :
             k \in {n \in names : asked[n] # <<>>}}
        Limits == {<<k, asked[k]>> : k \in {n \in {"limit", "limitToLast"} :
                                              asked[n] # ""}}
        Kept(x) == IF x = <<>> THEN {} ELSE {x}
    IN /\ q.group = asked.collectionGroup
       /\ q.where = {<<asked.where[i][1], asked.where[i][2], Value(asked.where[i][3])>> :
                       i \in DOMAIN asked.where}
       /\ q.orderBy = asked.orderBy
       /\ Kept(q.limit) = Limits
       /\ Kept(q.start) = Bounds({"startAt", "startAfter"})
       /\ Kept(q.end) = Bounds({"endAt", "endBefore"})

\* "a write that reached the SDK before the handler finished could not be taken
\* back": a batch is all that was asked of it, in that order, each write what
\* it was called, or nothing.
BatchIsWhole ==
  op = "batch" =>
    held = IF got.atom = "0"
           THEN [i \in DOMAIN asked |->
                   <<asked[i][1], asked[i][2],
                     IF asked[i][1] = "delete" THEN Bad
                     ELSE DecodeValue(EncodeFirestoreValue(asked[i][3]))>>]
           ELSE <<>>

\* What is asked is done whole or refused, for both kinds of query and batches.
NothingIsDropped == DbQueryIsWhole /\ FsQueryIsWhole /\ BatchIsWhole

\* "The documents of a result, each with the id a caller needs to address it
\* again": a query that found documents answers with them, or with the code
\* that says it could not.
ResultIsWhole ==
  op = "fsResult" =>
    \/ got = <<Bad, Bad>>
    \/ got = [i \in DOMAIN asked |-> DecodeFirestoreValue(EncodeMap(asked[i].body))]
=============================================================================
