------------------------- MODULE RemoteConfigCalls -------------------------
(***************************************************************************)
(* The operations of remote_config_impl.cpp.                               *)
(***************************************************************************)
EXTENDS Boundary

\* _awaitOutcome of remote_config.dart.
SaysConfig ==
  [rc \in Codes |-> CASE rc = -1 -> "app"
                      [] rc = -2 -> "instance"
                      [] rc = -3 -> "value"
                      [] rc = -4 -> "code"]
SaysInts == [SaysCode EXCEPT ![-1] = "product"]
SaysKey == [rc \in Codes |-> IF rc = -1 THEN "product" ELSE "key"]

Config(op, refuses, results, answer, handler, says) ==
  Async("remote_config", refuses, op, results, answer, handler, says)

\* The instance is made here if there is none, and then initialized.
fdb_rc_init ==
  [Config("EnsureInitialized", <<>>, {"done"}, Outcome, "AwaitOutcome", SaysConfig)
     EXCEPT !.mode = "creates"]

fdb_rc_set_defaults ==
  Config("SetDefaults", << <<"value", -3>> >>, {"done"}, Outcome, "AwaitOutcome",
         SaysConfig)

\* Posted before the function returns: the values are in memory.
AllValues ==
  [f \in Futures |-> IF f.result = "big" THEN fdb_post_buffer(-2, "")
                                         ELSE fdb_post_buffer(1, f.result)]
fdb_rc_get_all ==
  [Config("GetAll", <<>>, {"v", "big"}, AllValues, "ConfigValues", SaysCode)
     EXCEPT !.mode = "posts"]

fdb_rc_fetch ==
  Config("Fetch", <<>>, {"done"}, Outcome, "AwaitOutcome", SaysConfig)
fdb_rc_activate ==
  Config("Activate", <<>>, {"yes", "no"}, Activated, "AwaitActivated", SaysCode)
fdb_rc_fetch_and_activate ==
  Config("FetchAndActivate", <<>>, {"yes", "no"}, Activated, "AwaitActivated",
         SaysCode)
fdb_rc_set_settings ==
  Config("SetConfigSettings", << <<"negative", -2>> >>, {"done"}, Outcome,
         "AwaitOutcome", SaysConfig)

\* The time of the last fetch and how it ended; before any, 0 and success.
Info ==
  [f \in Futures |-> CASE f.result = "never" -> Returns(<<0, 0>>)
                       [] f.result = "failure" -> Returns(<<1, 1>>)
                       [] f.result = "pending" -> Returns(<<1, 2>>)
                       [] OTHER -> Returns(<<1, 0>>)]
fdb_rc_info ==
  Sync("remote_config", << <<"room", -2>> >>, "GetInfo",
       {"never", "success", "failure", "pending"}, Info, "ConfigInfo", SaysInts)
fdb_rc_get_settings ==
  Sync("remote_config", << <<"room", -2>> >>, "GetConfigSettings", {"done"},
       ReturnsZero, "Returned", SaysInts)

\* The SDK's own enum value.
Source ==
  [f \in Futures |-> Returns(<<CASE f.result = "remote" -> 1
                                 [] f.result = "default" -> 2
                                 [] OTHER -> 0>>)]
fdb_rc_value_source ==
  Sync("remote_config", << <<"key", -2>> >>, "GetString",
       {"static", "remote", "default"}, Source, "ConfigValueSource", SaysKey)

RemoteConfigFunctions ==
  [fdb_rc_init |-> fdb_rc_init, fdb_rc_set_defaults |-> fdb_rc_set_defaults,
   fdb_rc_get_all |-> fdb_rc_get_all, fdb_rc_fetch |-> fdb_rc_fetch,
   fdb_rc_activate |-> fdb_rc_activate,
   fdb_rc_fetch_and_activate |-> fdb_rc_fetch_and_activate,
   fdb_rc_set_settings |-> fdb_rc_set_settings, fdb_rc_info |-> fdb_rc_info,
   fdb_rc_get_settings |-> fdb_rc_get_settings,
   fdb_rc_value_source |-> fdb_rc_value_source]
=============================================================================
