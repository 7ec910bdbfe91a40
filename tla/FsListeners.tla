---------------------------- MODULE FsListeners ----------------------------
(***************************************************************************)
(* Watching a Firestore document or a query: onDocument and onQuery of     *)
(* firestore.dart, fdb_fs_listen, fdb_fs_query_listen and fdb_fs_unlisten  *)
(* of firestore_impl.cpp, and the SDK's thread that calls the listeners.   *)
(*                                                                         *)
(* A stream has a port of its own and is listened to once.  The SDK may    *)
(* have begun a listener's callback when the listener is removed: the      *)
(* event is then posted to a port that is closed.                          *)
(***************************************************************************)
EXTENDS Integers, Sequences, FiniteSets

CONSTANTS
  Streams,    \* the streams an app makes
  Kind,       \* per stream, "document" or "query"
  MaxEvents   \* bound: the events of a stream

ASSUME FsListenersAssumption ==
  /\ IsFiniteSet(Streams)
  /\ Kind \in [Streams -> {"document", "query"}]
  /\ MaxEvents \in Nat

\* What the SDK raises: data, a document that is not there (or a query that
\* matches nothing), data that cannot be encoded, or the end of the listener.
Events == {"v", "absent", "big", "error"}
NoEvent == [stream |-> "none", event |-> "none"]

VARIABLES
  stream,      \* per stream: new, listening, or over
  port,        \* per stream, its receive port: none, open, closed
  listenerId,  \* per stream, Dart's variable: 0 before it is set
  g_listeners, \* the registrations, [id, stream]
  g_next_listener,
  raising,     \* the callback that the SDK's thread is in
  seq,         \* per stream, the counter its callback owns
  inbox,       \* per stream, the messages on its port
  said,        \* history: per stream, what the SDK raised
  heard        \* history: per stream, what the app was given

fsVars == <<stream, port, listenerId, g_listeners, g_next_listener, raising, seq,
            inbox, said, heard>>

\* Mutated form: Dart takes 0 for no listener.
FirstListenerFromZero == 0

\* Ids begin above the 0 that Dart starts with and the codes of a refusal.
FirstListener == 1

FsInit ==
  /\ stream = [s \in Streams |-> "new"]
  /\ port = [s \in Streams |-> "none"]
  /\ listenerId = [s \in Streams |-> 0]
  /\ g_listeners = {} /\ g_next_listener = FirstListener
  /\ raising = NoEvent
  /\ seq = [s \in Streams |-> 0]
  /\ inbox = [s \in Streams |-> <<>>]
  /\ said = [s \in Streams |-> <<>>] /\ heard = [s \in Streams |-> <<>>]

-----------------------------------------------------------------------------
(* The isolate. *)

\* Not initialized, no path; for a query also a spec that cannot be applied.
Refusals(s) == IF Kind[s] = "query" THEN -4 .. -1 ELSE -2 .. -1

\* fdb_fs_listen and fdb_fs_query_listen: the registration, under g_mutex.
fdb_fs_listen(s) ==
  /\ Kind[s] = "document"
  /\ g_listeners' = g_listeners \cup {[id |-> g_next_listener, stream |-> s]}
  /\ g_next_listener' = g_next_listener + 1
fdb_fs_query_listen(s) ==
  /\ Kind[s] = "query"
  /\ g_listeners' = g_listeners \cup {[id |-> g_next_listener, stream |-> s]}
  /\ g_next_listener' = g_next_listener + 1

Listen(s) ==
  /\ stream[s] = "new"
  /\ stream' = [stream EXCEPT ![s] = "listening"]
  /\ port' = [port EXCEPT ![s] = "open"]
  /\ listenerId' = [listenerId EXCEPT ![s] = g_next_listener]
  /\ fdb_fs_listen(s) \/ fdb_fs_query_listen(s)
  /\ UNCHANGED <<raising, seq, inbox, said, heard>>

\* A refusal is an error of the stream, and closes its port.
ListenRefused(s) ==
  /\ stream[s] = "new"
  /\ \E rc \in Refusals(s) : listenerId' = [listenerId EXCEPT ![s] = rc]
  /\ stream' = [stream EXCEPT ![s] = "over"]
  /\ port' = [port EXCEPT ![s] = "closed"]
  /\ heard' = [heard EXCEPT ![s] = Append(@, "refused")]
  /\ UNCHANGED <<g_listeners, g_next_listener, raising, seq, inbox, said>>

\* Mutated form: the registration stays in the map and with the SDK.
UnlistenNothing(id) == g_listeners' = g_listeners

\* The registration is removed and erased, under g_mutex.
fdb_fs_unlisten(id) == g_listeners' = {l \in g_listeners : l.id # id}

\* stop(), when the subscription is canceled.
Cancel(s) ==
  /\ stream[s] = "listening"
  /\ IF listenerId[s] > 0 THEN fdb_fs_unlisten(listenerId[s])
                          ELSE UNCHANGED g_listeners
  /\ stream' = [stream EXCEPT ![s] = "over"]
  /\ port' = [port EXCEPT ![s] = "closed"]
  /\ inbox' = [inbox EXCEPT ![s] = <<>>]
  /\ UNCHANGED <<listenerId, g_next_listener, raising, seq, said, heard>>

\* The handler of the port: a negative seq is an error of the stream, an empty
\* payload a document that does not exist.
Hear(s) ==
  /\ inbox[s] # <<>>
  /\ LET m == Head(inbox[s]) IN
     heard' = [heard EXCEPT ![s] =
                 Append(@, IF m.seq < 0 THEN "error"
                           ELSE IF m.payload = "empty" THEN "absent" ELSE m.payload)]
  /\ inbox' = [inbox EXCEPT ![s] = Tail(@)]
  /\ UNCHANGED <<stream, port, listenerId, g_listeners, g_next_listener, raising,
                 seq, said>>

-----------------------------------------------------------------------------
(* The SDK's thread. *)

\* A listener that has ended raises nothing more.
Raise(s, event) ==
  /\ raising = NoEvent /\ Len(said[s]) < MaxEvents
  /\ \E l \in g_listeners : l.stream = s
  /\ \A i \in 1..Len(said[s]) : said[s][i] # "error"
  /\ raising' = [stream |-> s, event |-> event]
  /\ said' = [said EXCEPT ![s] = Append(@, event)]
  /\ UNCHANGED <<stream, port, listenerId, g_listeners, g_next_listener, seq,
                 inbox, heard>>

\* Mutated form: an end is posted as data, with nothing in it.
PostedWithoutReason(s, event) ==
  [seq |-> seq[s] + 1, payload |-> IF event \in {"absent", "error"} THEN "empty" ELSE event]

\* The message of an event.  A query that cannot be encoded is a failure; a
\* document that cannot be encoded is posted empty, which is one that does not
\* exist.
Posted(s, event) ==
  CASE event = "error" -> [seq |-> -1, payload |-> "reason"]
    [] event = "big" /\ Kind[s] = "query" -> [seq |-> -2, payload |-> "empty"]
    [] event = "absent" \/ (event = "big" /\ Kind[s] = "document") ->
         [seq |-> seq[s] + 1, payload |-> "empty"]
    [] OTHER -> [seq |-> seq[s] + 1, payload |-> event]

\* Mutated form: an empty message is not posted.
ArrivesWithPayload(s, m) == port[s] = "open" /\ m.payload # "empty"

\* A message that is posted to a closed port is lost.
Arrives(s, m) == port[s] = "open"

\* The callback posts to the port it captured, open or not.
Callback ==
  LET s == raising.stream
      m == Posted(s, raising.event)
  IN
  /\ raising # NoEvent
  /\ raising' = NoEvent
  /\ seq' = [seq EXCEPT ![s] = IF m.seq > 0 THEN m.seq ELSE @]
  /\ inbox' = IF Arrives(s, m) THEN [inbox EXCEPT ![s] = Append(@, m)] ELSE inbox
  /\ UNCHANGED <<stream, port, listenerId, g_listeners, g_next_listener, said, heard>>

FsNext ==
  \/ \E s \in Streams :
       \/ Listen(s) \/ ListenRefused(s) \/ Cancel(s) \/ Hear(s)
       \/ \E event \in Events : Raise(s, event)
  \/ Callback

FsFairness == WF_fsVars(Callback) /\ \A s \in Streams : WF_fsVars(Hear(s))

-----------------------------------------------------------------------------
FsTypeOK ==
  /\ stream \in [Streams -> {"new", "listening", "over"}]
  /\ port \in [Streams -> {"none", "open", "closed"}]
  /\ listenerId \in [Streams -> Int]
  /\ g_listeners \subseteq [id : Nat, stream : Streams]
  /\ g_next_listener \in Nat \ {0}
  /\ seq \in [Streams -> Nat]

\* The SDK holds a listener for each stream that is listened to, under the id
\* that the stream will remove it by, and no other: not for one that was
\* canceled or refused, and not the same id for two.
SdkHoldsListenedStreams ==
  /\ \A l \in g_listeners :
       /\ stream[l.stream] = "listening" /\ port[l.stream] = "open"
       /\ listenerId[l.stream] = l.id
       /\ \A k \in g_listeners : k.id = l.id => k = l
  /\ \A s \in Streams : stream[s] = "listening" => \E l \in g_listeners : l.stream = s

\* What the app was given is what the SDK raised, in its order and nothing left
\* out; a document that cannot be encoded is the one event told as another.
StreamTellsTheTruth ==
  \A s \in Streams : \A i \in 1..Len(heard[s]) :
    \/ heard[s][i] = "refused" /\ said[s] = <<>>
    \/ /\ i <= Len(said[s])
       /\ \/ heard[s][i] = said[s][i]
          \/ said[s][i] = "big" /\ heard[s][i] = "error"
          \/ said[s][i] = "big" /\ heard[s][i] = "absent" /\ Kind[s] = "document"

\* The same with no exception.
NothingIsToldAbsent ==
  \A s \in Streams : \A i \in 1..Len(heard[s]) :
    heard[s][i] = "absent" => said[s][i] = "absent"

\* Whatever the SDK raises is heard, or the stream is over.
EveryEventIsHeard ==
  \A s \in Streams :
    []<>(Len(heard[s]) >= Len(said[s]) \/ stream[s] = "over")
=============================================================================
