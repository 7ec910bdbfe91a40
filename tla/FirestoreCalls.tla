--------------------------- MODULE FirestoreCalls ---------------------------
(***************************************************************************)
(* The Firestore operations of firestore_impl.cpp, but for the listeners   *)
(* and the transactions.                                                   *)
(***************************************************************************)
EXTENDS Boundary

\* The Dart callers: FirestoreBatch.commit, queryCollection, countCollection
\* and _aggregate each name what they can of a refusal.
SaysBatch == [SaysCode EXCEPT ![-3] = "value"]
SaysQuery == [SaysCode EXCEPT ![-3] = "spec", ![-4] = "field"]
SaysCount == [SaysCode EXCEPT ![-3] = "spec", ![-4] = "spec"]
SaysAggregate == [SaysCount EXCEPT ![-2] = "path"]

Fs(op, refuses, results, answer, handler, says) ==
  Async("firestore", refuses, op, results, answer, handler, says)

NoPath  == <<"path", -2>>
BadBody == <<"value", -3>>
\* BuildQuery: a spec the ABI cannot apply, or one that the SDK throws on.
BadSpec == << <<"spec", -3>>, <<"field", -4>> >>

fdb_fs_use_emulator == UseEmulator("firestore")

fdb_fs_set == Fs("Set", <<NoPath, BadBody>>, {"done"}, Outcome, "AwaitOutcome",
                 SaysCode)
fdb_fs_delete == Fs("Delete", <<NoPath>>, {"done"}, Outcome, "AwaitOutcome",
                    SaysCode)
fdb_fs_batch_commit == Fs("Commit", <<BadBody>>, {"done"}, Outcome,
                          "AwaitOutcome", SaysBatch)

\* Mutated form: what cannot be encoded is posted as nothing at all.
DocumentOrNothing ==
  [f \in Futures |-> IF f.error # 0 THEN PostDocument(-1, "")
                     ELSE PostDocument(1, IF f.result \in {"absent", "big"}
                                          THEN "" ELSE f.result)]

\* A failed encoding is "distinct from absence": an empty payload is a document
\* that does not exist, and the caller "would be told missing about a document
\* that exists".  The code and the reason of a failed read are not passed on.
Document ==
  [f \in Futures |-> CASE f.error # 0 -> PostDocument(-1, "")
                       [] f.error = 0 /\ f.result = "big" -> PostDocument(-2, "")
                       [] f.error = 0 /\ f.result = "absent" -> PostDocument(1, "")
                       [] OTHER -> PostDocument(1, f.result)]

fdb_fs_get == Fs("Get", <<NoPath>>, {"v", "absent", "big"}, Document,
                 "GetDocument", SaysCode)

\* The same for a query; one that matched nothing is an empty array.
QueryResult ==
  [f \in Futures |-> CASE f.error # 0 -> PostDocument(-1, "")
                       [] f.error = 0 /\ f.result = "big" -> PostDocument(-2, "")
                       [] OTHER -> PostDocument(1, f.result)]
fdb_fs_query == Fs("Query.Get", <<NoPath>> \o BadSpec, {"v", "big"}, QueryResult,
                   "QueryCollection", SaysQuery)

\* A number, encoded as every other answer is.
Aggregate ==
  [f \in Futures |-> IF f.error # 0 THEN PostDocument(-1, "")
                     ELSE PostDocument(1, f.result)]
fdb_fs_count == Fs("Count.Get", <<NoPath>> \o BadSpec, {"v"}, Aggregate,
                   "CountCollection", SaysCount)

AggregateOne(op) ==
  Fs(op, <<NoPath>> \o BadSpec, {"v"}, Aggregate, "CountCollection", SaysAggregate)
fdb_fs_sum     == AggregateOne("Sum.Get")
fdb_fs_average == AggregateOne("Average.Get")

FirestoreFunctions ==
  [fdb_fs_use_emulator |-> fdb_fs_use_emulator, fdb_fs_set |-> fdb_fs_set,
   fdb_fs_delete |-> fdb_fs_delete, fdb_fs_batch_commit |-> fdb_fs_batch_commit,
   fdb_fs_get |-> fdb_fs_get, fdb_fs_query |-> fdb_fs_query,
   fdb_fs_count |-> fdb_fs_count, fdb_fs_sum |-> fdb_fs_sum,
   fdb_fs_average |-> fdb_fs_average]
=============================================================================
