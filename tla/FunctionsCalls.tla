--------------------------- MODULE FunctionsCalls ---------------------------
(***************************************************************************)
(* The operations of functions_impl.cpp and the ones of app_check_impl.cpp *)
(* that ask for a token: both answer a failure with a buffer, whose seq is *)
(* negative and whose payload is the reason.                               *)
(***************************************************************************)
EXTENDS Boundary

SaysCall == [SaysCode EXCEPT ![-3] = "value"]

fdb_functions_use_emulator == UseEmulator("functions")

\* The code of the failure is -1 whatever the SDK's was.
CallResult ==
  [f \in Futures |-> CASE f.error # 0 -> fdb_post_buffer(-1, Message(f))
                       [] f.error = 0 /\ f.result = "big" -> fdb_post_buffer(-2, "")
                       [] OTHER -> fdb_post_buffer(1, f.result)]
fdb_functions_call ==
  Async("functions", << <<"name", -2>>, <<"value", -3>> >>, "Call", {"v", "big"},
        CallResult, "CallFunction", SaysCall)

-----------------------------------------------------------------------------
\* A token that came without an expiry has 0: "an already-expired token rather
\* than a token good until 1970".
ExpireTimeMillis(result) == IF result = "expired" THEN 0 ELSE 100

\* The expiry in seq, or the code of the failure negated.
AppCheckToken ==
  [f \in Futures |-> IF f.error # 0 THEN fdb_post_buffer(-f.error, Message(f))
                     ELSE fdb_post_buffer(ExpireTimeMillis(f.result), "token")]

Token(op) == Async("app_check", <<>>, op, {"token", "expired"}, AppCheckToken,
                   "ReadToken",
                   [rc \in Codes |-> "product"])
fdb_ac_get_token == Token("GetAppCheckToken")
fdb_ac_limited_use_token == Token("GetLimitedUseAppCheckToken")
fdb_ac_set_auto_refresh ==
  Sync("app_check", <<>>, "SetTokenAutoRefreshEnabled", {"done"}, ReturnsZero,
       "Returned", [rc \in Codes |-> "product"])

FunctionsFunctions ==
  [fdb_functions_use_emulator |-> fdb_functions_use_emulator,
   fdb_functions_call |-> fdb_functions_call,
   fdb_ac_get_token |-> fdb_ac_get_token,
   fdb_ac_limited_use_token |-> fdb_ac_limited_use_token,
   fdb_ac_set_auto_refresh |-> fdb_ac_set_auto_refresh]
=============================================================================
