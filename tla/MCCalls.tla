------------------------------ MODULE MCCalls ------------------------------
(***************************************************************************)
(* Calls with the functions of the library.                                *)
(***************************************************************************)
EXTENDS Calls, TLC

Database     == INSTANCE DatabaseCalls
Firestore    == INSTANCE FirestoreCalls
Auth         == INSTANCE AuthCalls
Storage      == INSTANCE StorageCalls
RemoteConfig == INSTANCE RemoteConfigCalls
Functions    == INSTANCE FunctionsCalls

MCApi ==
  Database!DatabaseFunctions @@ Firestore!FirestoreFunctions
  @@ Auth!AuthFunctions @@ Storage!StorageFunctions
  @@ RemoteConfig!RemoteConfigFunctions @@ Functions!FunctionsFunctions
=============================================================================
