----------------------------- MODULE AuthCalls -----------------------------
(***************************************************************************)
(* The operations of auth_impl.cpp.                                        *)
(***************************************************************************)
EXTENDS Boundary

SaysSignIn  == [SaysCode EXCEPT ![-1] = "product"]
SaysIdToken == [rc \in Codes |-> IF rc = -2 THEN "user" ELSE "product"]

\* Four parts: the uid rides beside the message.
PostAuthResult(ok, code, text, uid) ==
  [shape |-> "list", items |-> <<ok, code, text, uid>>]
OnSignInComplete ==
  [f \in Futures |-> IF f.error # 0
                     THEN PostAuthResult(FALSE, f.error, Message(f), "")
                     ELSE PostAuthResult(TRUE, 0, "", f.result)]

Auth(op, refuses, results, answer, handler, says) ==
  Async("auth", refuses, op, results, answer, handler, says)

fdb_auth_use_emulator == UseEmulator("auth")
fdb_auth_sign_in_anonymously ==
  Auth("SignIn", <<>>, {"uid"}, OnSignInComplete, "AwaitSignIn", SaysSignIn)
fdb_auth_sign_in_with_custom_token ==
  Auth("SignIn", << <<"token", -2>> >>, {"uid"}, OnSignInComplete,
       "AwaitSignIn", SaysSignIn)

\* "The token rides in the message field."  Refused when nobody is signed in.
IdToken ==
  [f \in Futures |-> IF f.error # 0
                     THEN fdb_post_outcome(FALSE, f.error, Message(f))
                     ELSE fdb_post_outcome(TRUE, 0, f.result)]
fdb_auth_id_token ==
  Auth("GetToken", << <<"user", -2>> >>, {"token"}, IdToken, "AwaitText",
       SaysIdToken)

\* signOut throws the code away.
fdb_auth_sign_out ==
  Sync("auth", <<>>, "SignOut", {"done"}, ReturnsZero, "Returned",
       [rc \in Codes |-> "nothing"])

\* The length of the uid, which is 0 when nobody is signed in.  currentUid
\* answers null for that, and for a refusal.
CurrentUser == [f \in Futures |-> Returns(<<IF f.result = "uid" THEN 28 ELSE 0>>)]
fdb_auth_current_uid ==
  Sync("auth", <<>>, "current_user", {"uid", "absent"}, CurrentUser, "CurrentUid",
       [rc \in Codes |-> "nothing"])

AuthFunctions ==
  [fdb_auth_use_emulator |-> fdb_auth_use_emulator,
   fdb_auth_sign_in_anonymously |-> fdb_auth_sign_in_anonymously,
   fdb_auth_sign_in_with_custom_token |-> fdb_auth_sign_in_with_custom_token,
   fdb_auth_id_token |-> fdb_auth_id_token,
   fdb_auth_sign_out |-> fdb_auth_sign_out,
   fdb_auth_current_uid |-> fdb_auth_current_uid]
=============================================================================
