--------------------------- MODULE DatabaseCalls ---------------------------
(***************************************************************************)
(* The Realtime Database operations of firebase_impl.cpp, but for the      *)
(* listeners and the transactions.  Every one first asks EnsureDatabase,   *)
(* which is what the product "database" stands for.                        *)
(***************************************************************************)
EXTENDS Boundary

\* database.dart names the cause of each code.
SaysDb == [rc \in Codes |-> CASE rc = -1 -> "app"
                              [] rc = -2 -> "path"
                              [] rc = -3 -> "value"
                              [] rc = -4 -> "map"]
\* _refuse, for a query.
SaysRefuse == [SaysDb EXCEPT ![-3] = "query", ![-4] = "code"]
\* pushChild: a code for a key that does not fit.
SaysPush == [SaysDb EXCEPT ![-3] = "code", ![-4] = "code"]
SaysApp == [rc \in Codes |-> "app"]

NoPath  == <<"path", -2>>
BadValue == <<"value", -3>>

DbWrite(op, refuses) ==
  Async("database", refuses, op, {"done"}, Outcome, "AwaitOutcome", SaysDb)

fdb_db_set               == DbWrite("SetValue", <<NoPath, BadValue>>)
fdb_db_set_with_priority == DbWrite("SetValueAndPriority", <<NoPath, BadValue>>)
fdb_db_set_priority      == DbWrite("SetPriority", <<NoPath, BadValue>>)
fdb_db_remove            == DbWrite("RemoveValue", <<NoPath>>)

\* Mutated form: the value goes to the SDK whatever it is.
UpdateOfAnything == DbWrite("UpdateChildren", <<NoPath, BadValue>>)

\* "The SDK asserts on a non-map here rather than returning an error."
fdb_db_update ==
  DbWrite("UpdateChildren", <<NoPath, BadValue, <<"map", -4>> >>)

\* What the server does when this client goes away: the registration is what
\* completes.
fdb_db_on_disconnect_set == DbWrite("OnDisconnect.SetValue", <<NoPath, BadValue>>)
fdb_db_on_disconnect_update ==
  DbWrite("OnDisconnect.UpdateChildren",
          <<NoPath, BadValue, <<"map", -4>> >>)
fdb_db_on_disconnect_set_with_priority ==
  DbWrite("OnDisconnect.SetValueAndPriority", <<NoPath, BadValue>>)
fdb_db_on_disconnect_remove == DbWrite("OnDisconnect.RemoveValue", <<NoPath>>)
fdb_db_on_disconnect_cancel == DbWrite("OnDisconnect.Cancel", <<NoPath>>)

-----------------------------------------------------------------------------
(* Synchronous: the benchmark's write, which is fire and forget, and those  *)
(* that have nothing to wait for.                                           *)

DbSync(op, refuses, says) ==
  Sync("database", refuses, op, {"done"}, ReturnsZero, "Returned", says)

fdb_db_set_string  == DbSync("SetValue", <<>>, SaysCode)
fdb_db_keep_synced ==
  DbSync("SetKeepSynchronized", <<NoPath, <<"query", -3>> >>, SaysRefuse)
fdb_db_purge_outstanding_writes == DbSync("PurgeOutstandingWrites", <<>>, SaysApp)
fdb_db_go_offline == DbSync("GoOffline", <<>>, SaysApp)
fdb_db_go_online  == DbSync("GoOnline", <<>>, SaysApp)

\* The key is generated locally, and the return value is its length.
fdb_db_push ==
  Sync("database",
       <<NoPath, <<"key", -3>>, <<"room", -4>> >>,
       "PushChild", {"v"}, [f \in Futures |-> Returns(<<20>>)], "PushChild",
       SaysPush)

DatabaseFunctions ==
  [fdb_db_set |-> fdb_db_set, fdb_db_update |-> fdb_db_update,
   fdb_db_set_with_priority |-> fdb_db_set_with_priority,
   fdb_db_set_priority |-> fdb_db_set_priority, fdb_db_remove |-> fdb_db_remove,
   fdb_db_on_disconnect_set |-> fdb_db_on_disconnect_set,
   fdb_db_on_disconnect_update |-> fdb_db_on_disconnect_update,
   fdb_db_on_disconnect_set_with_priority |-> fdb_db_on_disconnect_set_with_priority,
   fdb_db_on_disconnect_remove |-> fdb_db_on_disconnect_remove,
   fdb_db_on_disconnect_cancel |-> fdb_db_on_disconnect_cancel,
   fdb_db_set_string |-> fdb_db_set_string,
   fdb_db_keep_synced |-> fdb_db_keep_synced,
   fdb_db_purge_outstanding_writes |-> fdb_db_purge_outstanding_writes,
   fdb_db_go_offline |-> fdb_db_go_offline, fdb_db_go_online |-> fdb_db_go_online,
   fdb_db_push |-> fdb_db_push]
=============================================================================
