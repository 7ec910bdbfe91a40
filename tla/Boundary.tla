------------------------------ MODULE Boundary ------------------------------
(***************************************************************************)
(* What crosses between the C library and Dart: the two kinds of message   *)
(* that a native port carries, the answers that the C functions post with  *)
(* them, and the Dart handlers that turn an answer into what the caller's  *)
(* Future is given.                                                        *)
(*                                                                         *)
(* An answer is a function of the SDK's completed Future; a handler is a   *)
(* function of the message.  Neither side checks the other: a handler that *)
(* expects the other kind of message throws inside the port's callback,    *)
(* and the caller's Future is never completed ("stuck").                   *)
(***************************************************************************)
EXTENDS Integers, Sequences

\* A completed firebase::Future<T>: an error code and, where that is 0, the
\* result.  "absent" is a document that does not exist (or no user), "big" a
\* result that cannot be encoded; the rest stand for what the call returns.
SdkError == 7
Results == {"done", "v", "big", "absent", "yes", "no", "uid", "token",
            "expired", "static", "remote", "default", "never", "success",
            "failure", "pending"}
Failed    == [error |-> SdkError, result |-> "absent"]
Done(r)   == [error |-> 0, result |-> r]
Futures   == {Failed} \cup {Done(r) : r \in Results}

\* What a Future (or the caller of a synchronous function) is told.
Value(x)        == [kind |-> "value", code |-> 0, what |-> x]
Error(code, x)  == [kind |-> "error", code |-> code, what |-> x]
Refused(cause)  == [kind |-> "refused", code |-> 0, what |-> cause]
Stuck           == [kind |-> "stuck", code |-> 0, what |-> ""]
Nothing         == [kind |-> "nothing", code |-> 0, what |-> ""]

-----------------------------------------------------------------------------
(* The messages.  The text of a failed future is its error message. *)

fdb_post_outcome(ok, code, text) ==
  [shape |-> "list", items |-> <<ok, code, text>>]
fdb_post_buffer(seq, payload) ==
  [shape |-> "buffer", seq |-> seq, payload |-> payload]
\* What a synchronous function returns or writes into the caller's array.
Returns(items) == [shape |-> "ints", items |-> items]

Message(f) == IF f.error = 0 THEN "" ELSE "message"

PostOutcome(f) == fdb_post_outcome(f.error = 0, f.error, Message(f))
PostDocument(seq, payload) == fdb_post_buffer(seq, payload)

-----------------------------------------------------------------------------
(* The answers that several functions share. *)

Outcome == [f \in Futures |-> PostOutcome(f)]

\* true or false travels as the code of a success: false means there was
\* nothing new to activate, "which is not a failure".
Activated ==
  [f \in Futures |-> IF f.error # 0
                     THEN fdb_post_outcome(FALSE, f.error, Message(f))
                     ELSE fdb_post_outcome(TRUE, IF f.result = "yes" THEN 1 ELSE 0, "")]

\* The answer of a function that has nothing to post: its return value.
ReturnsZero == [f \in Futures |-> Returns(<<0>>)]

-----------------------------------------------------------------------------
(* The Dart handlers. *)

\* parts[0] == true, or an exception with the code and the message.  A buffer
\* is a List<int>: its first byte is not true and its third is no String.
AwaitOutcome(m) ==
  CASE m.shape # "list" -> Stuck
    [] m.shape = "list" /\ m.items[1] -> Value("done")
    [] OTHER -> Error(m.items[2], m.items[3])

\* The same for an operation whose answer rides in the message.
AwaitText(m) ==
  IF m.shape = "list" /\ m.items[1] THEN Value(m.items[3]) ELSE AwaitOutcome(m)

\* A sign-in has a fourth part.
AwaitSignIn(m) ==
  CASE m.shape # "list" \/ Len(m.items) < 4 -> Stuck
    [] m.shape = "list" /\ m.items[1] -> Value(m.items[4])
    [] OTHER -> Error(m.items[2], m.items[3])

\* activateConfig and fetchAndActivateConfig.
AwaitActivated(m) ==
  IF m.shape = "list" /\ m.items[1]
  THEN Value(IF m.items[2] = 1 THEN "yes" ELSE "no")
  ELSE AwaitOutcome(m)

\* "Uint8List first, and not `is List<Object?>`": with the outcome first, a
\* payload goes down the error branch and its third byte is read as a String.
AwaitBuffer(m) ==
  IF m.shape = "buffer" THEN Value(m.payload) ELSE AwaitOutcome(m)

\* getDocument: an empty payload is a document that does not exist.
GetDocument(m) ==
  CASE m.shape # "buffer" -> Stuck
    [] m.seq < 0 -> Error(m.seq, IF m.seq = -2 THEN "cannot be encoded"
                                               ELSE "read failed")
    [] OTHER -> Value(IF m.payload = "" THEN "absent" ELSE m.payload)

\* queryCollection, countCollection and _aggregate.
QueryCollection(m) == GetDocument(m)
CountCollection(m) ==
  CASE m.shape # "buffer" -> Stuck
    [] m.seq < 0 -> Error(m.seq, "count failed")
    [] OTHER -> Value(m.payload)

\* callFunction: the reason of a failure is the payload.
CallFunction(m) ==
  CASE m.shape # "buffer" -> Stuck
    [] m.seq < 0 -> Error(m.seq, IF m.seq = -2 THEN "cannot be encoded"
                                               ELSE m.payload)
    [] OTHER -> Value(m.payload)

\* configValues: one reason for every failure.
ConfigValues(m) ==
  CASE m.shape # "buffer" -> Stuck
    [] m.seq < 0 -> Error(-2, "cannot be encoded")
    [] OTHER -> Value(m.payload)

\* _readToken: the code negated in seq, the message in the payload; or the token
\* with its expiry, which is 0 when it has none.
ReadToken(m) ==
  CASE m.shape # "buffer" -> Stuck
    [] m.seq < 0 -> Error(-m.seq, m.payload)
    [] OTHER -> Value(IF m.seq = 0 THEN "expired" ELSE m.payload)

\* The synchronous readers: nothing to say, the first number, by name.
Returned(m) == Value("done")
CurrentUid(m) == Value(IF m.items[1] <= 0 THEN "absent" ELSE "uid")
PushChild(m)  == Value("v")

\* "Mapped by name, not by index": the SDK orders static, remote, default,
\* the Dart enum static, default, remote.
ConfigValueSource(m) ==
  Value(CASE m.items[1] = 1 -> "remote"
          [] m.items[1] = 2 -> "default"
          [] OTHER -> "static")

\* The SDK reports success before anything has been fetched.
ConfigInfo(m) ==
  Value(CASE m.items[1] = 0 -> "never"
          [] m.items[1] # 0 /\ m.items[2] = 0 -> "success"
          [] m.items[1] # 0 /\ m.items[2] = 1 -> "failure"
          [] OTHER -> "pending")

Read(handler, m) ==
  CASE handler = "AwaitOutcome"      -> AwaitOutcome(m)
    [] handler = "AwaitText"         -> AwaitText(m)
    [] handler = "AwaitSignIn"       -> AwaitSignIn(m)
    [] handler = "AwaitActivated"    -> AwaitActivated(m)
    [] handler = "AwaitBuffer"       -> AwaitBuffer(m)
    [] handler = "GetDocument"       -> GetDocument(m)
    [] handler = "QueryCollection"   -> QueryCollection(m)
    [] handler = "CountCollection"   -> CountCollection(m)
    [] handler = "CallFunction"      -> CallFunction(m)
    [] handler = "ConfigValues"      -> ConfigValues(m)
    [] handler = "ReadToken"         -> ReadToken(m)
    [] handler = "CurrentUid"        -> CurrentUid(m)
    [] handler = "PushChild"         -> PushChild(m)
    [] handler = "ConfigValueSource" -> ConfigValueSource(m)
    [] handler = "ConfigInfo"        -> ConfigInfo(m)
    [] OTHER                         -> Returned(m)

-----------------------------------------------------------------------------
(* A function of the library, as Dart calls it: the product it belongs to,  *)
(* what it refuses and with which code (in the order of its guards), the    *)
(* operation of the SDK it starts and what that may end with, the answer it *)
(* posts, and the Dart handler of the answer.  `says` is what the Dart      *)
(* caller makes of a refusal: the cause it names, or only the code.         *)

Codes == -4 .. -1
SaysCode == [rc \in Codes |-> "code"]

Async(product, refuses, op, results, answer, handler, says) ==
  [product |-> product, mode |-> "port", refuses |-> refuses, op |-> op,
   results |-> results, answer |-> answer, handler |-> handler, says |-> says,
   buffer |-> "none"]

\* A function that answers by what it returns.
Sync(product, refuses, op, results, answer, handler, says) ==
  [Async(product, refuses, op, results, answer, handler, says)
     EXCEPT !.mode = "returns"]

\* Host and port (or origin) of an emulator, set before the first operation.
UseEmulator(product) ==
  Sync(product, << <<"host", -2>> >>, "UseEmulator", {"done"}, ReturnsZero,
       "Returned", SaysCode)
=============================================================================
