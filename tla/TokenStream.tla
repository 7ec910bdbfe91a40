---------------------------- MODULE TokenStream ----------------------------
(***************************************************************************)
(* appCheckTokenChanges: streams of App Check tokens over the one native   *)
(* listener that app_check_impl.cpp keeps in g_listener.                   *)
(*                                                                         *)
(* fdb_ac_add_listener and fdb_ac_remove_listener hold g_mutex for their   *)
(* own state and let go of it before they call the SDK, so that calls of   *)
(* different isolates interleave there.                                    *)
(***************************************************************************)
EXTENDS Integers, FiniteSets

CONSTANTS
  Streams,     \* the streams that appCheckTokenChanges has returned
  Isolates,    \* the isolates that listen to them
  NoStream     \* a null g_listener

ASSUME TokenStreamAssumption == NoStream \notin Streams

\* What a stream's subscriber sees; over: it cancelled, or went with its isolate.
Subscriptions == {"new", "listening", "refused", "over"}
NotBusy == [call |-> "none", listener |-> NoStream]

VARIABLES
  g_listener,  \* the stream whose PortListener it is
  sdkList,     \* the listeners the SDK holds a pointer to
  deleted,     \* the listeners that have been deleted
  home,        \* per stream, the isolate it is listened to in
  sub,         \* per stream, its subscription
  busy,        \* per isolate, the call it is in, past the lock
  robbed       \* history: the streams whose listener another's cancel took

tsVars == <<g_listener, sdkList, deleted, home, sub, busy, robbed>>

TsInit ==
  /\ g_listener = NoStream
  /\ sdkList = {} /\ deleted = {}
  /\ home \in [Streams -> Isolates]
  /\ sub = [s \in Streams |-> "new"]
  /\ busy = [i \in Isolates |-> NotBusy]
  /\ robbed = {}

\* Subscribed to and not cancelled: one that was refused is, and its cancel
\* still calls fdb_ac_remove_listener.
Open(s) == sub[s] \in {"listening", "refused"}

Calls(i, call) == busy[i].call = call
Finish(i) == busy' = [busy EXCEPT ![i] = NotBusy]
Enter(i, call, listener) ==
  /\ busy[i] = NotBusy
  /\ busy' = [busy EXCEPT ![i] = [call |-> call, listener |-> listener]]

-----------------------------------------------------------------------------
(* Mutated forms, each a slip the code could have. *)

\* The listener is deleted and the SDK not told.
RemoveFromSdkSkipped(i) ==
  /\ Calls(i, "removing")
  /\ deleted' = deleted \cup {busy[i].listener}
  /\ Finish(i)
  /\ UNCHANGED <<g_listener, sdkList, home, sub, robbed>>

\* g_listener is cleared last instead of first.
DeleteListenerAndClear(i) ==
  /\ Calls(i, "deleting")
  /\ deleted' = deleted \cup {busy[i].listener}
  /\ g_listener' = NoStream
  /\ Finish(i)
  /\ UNCHANGED <<sdkList, home, sub, robbed>>

-----------------------------------------------------------------------------
(* onListen: fdb_ac_add_listener. *)

\* Locked: -3 when a listener is registered, and the subscriber gets an error.
AddListener(i, s) ==
  /\ home[s] = i /\ sub[s] = "new"
  /\ IF g_listener = NoStream
     THEN /\ g_listener' = s
          /\ sub' = [sub EXCEPT ![s] = "listening"]
          /\ Enter(i, "adding", s)
     ELSE /\ busy[i] = NotBusy
          /\ sub' = [sub EXCEPT ![s] = "refused"]
          /\ UNCHANGED <<g_listener, busy>>
  /\ UNCHANGED <<sdkList, deleted, home, robbed>>

\* Unlocked.
AddToSdk(i) ==
  /\ Calls(i, "adding")
  /\ sdkList' = sdkList \cup {busy[i].listener}
  /\ Finish(i)
  /\ UNCHANGED <<g_listener, deleted, home, sub, robbed>>

(* onCancel: fdb_ac_remove_listener. *)

\* Locked: the listener that is registered is taken out, whoever's it is; -1,
\* ignored, when there is none.
RemoveListener(i, s) ==
  /\ home[s] = i /\ Open(s)
  /\ sub' = [sub EXCEPT ![s] = "over"]
  /\ IF g_listener = NoStream
     THEN busy[i] = NotBusy /\ UNCHANGED busy
     ELSE Enter(i, "removing", g_listener)
  /\ g_listener' = NoStream
  /\ robbed' = robbed \cup
       ({g_listener} \cap {r \in Streams \ {s} : sub[r] = "listening"})
  /\ UNCHANGED <<sdkList, deleted, home>>

\* Unlocked: the SDK lets go of it, and it is deleted.
RemoveFromSdk(i) ==
  /\ Calls(i, "removing")
  /\ sdkList' = sdkList \ {busy[i].listener}
  /\ busy' = [busy EXCEPT ![i].call = "deleting"]
  /\ UNCHANGED <<g_listener, deleted, home, sub, robbed>>

DeleteListener(i) ==
  /\ Calls(i, "deleting")
  /\ deleted' = deleted \cup {busy[i].listener}
  /\ Finish(i)
  /\ UNCHANGED <<g_listener, sdkList, home, sub, robbed>>

\* The isolate exits: what it listened to is gone, and nothing here is told.
StreamsExit(i) ==
  /\ busy[i] = NotBusy
  /\ sub' = [s \in Streams |->
       IF home[s] = i /\ Open(s) THEN "over" ELSE sub[s]]
  /\ UNCHANGED <<g_listener, sdkList, deleted, home, busy, robbed>>

-----------------------------------------------------------------------------
LockedNext(i) == \E s \in Streams : AddListener(i, s) \/ RemoveListener(i, s)

UnlockedNext(i) == AddToSdk(i) \/ RemoveFromSdk(i) \/ DeleteListener(i)

-----------------------------------------------------------------------------
(* Properties. *)

TsTypeOK ==
  /\ g_listener \in Streams \cup {NoStream}
  /\ home \in [Streams -> Isolates]
  /\ sub \in [Streams -> Subscriptions]
  /\ robbed \subseteq Streams
  /\ busy \in [Isolates -> [call : {"none", "adding", "removing", "deleting"},
                            listener : Streams \cup {NoStream}]]

\* "Tokens as they are issued, including the refreshes the SDK makes on its
\* own": a stream that is listened to, and was not refused, is the one the
\* native listener feeds, and the SDK knows that listener.
StreamIsFed ==
  \A s \in Streams : sub[s] = "listening" =>
    /\ g_listener = s
    /\ s \in sdkList \/ \E i \in Isolates :
                          busy[i] = [call |-> "adding", listener |-> s]

\* So it is until another stream's cancel has taken its listener: however many
\* streams are opened, refused and cancelled beside it, in whichever isolates.
StreamIsFedUntilRobbed ==
  \A s \in Streams \ robbed : sub[s] = "listening" =>
    /\ g_listener = s
    /\ s \in sdkList \/ \E i \in Isolates :
                          busy[i] = [call |-> "adding", listener |-> s]

\* The SDK holds a raw pointer to the listener: it is never left with one that
\* has been deleted, but for one that another stream's cancel took, whose
\* isolate may still have been about to give it to the SDK.
SdkHoldsLiveListeners == sdkList \cap deleted \subseteq robbed

\* A stream is refused for another that is listened to at the time.
RefusedForAnother ==
  [][\A s \in Streams : sub[s] = "new" /\ sub'[s] = "refused" =>
       \E r \in Streams : sub[r] = "listening"]_tsVars
=============================================================================
