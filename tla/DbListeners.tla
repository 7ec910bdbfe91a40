---------------------------- MODULE DbListeners ----------------------------
(***************************************************************************)
(* Realtime Database listeners: the streams of onValue, onQueryValue and   *)
(* onChildEvent, and the native listeners in g_listeners and               *)
(* g_child_listeners that feed them.                                       *)
(*                                                                         *)
(* One number says everything between the two sides: a positive handle is  *)
(* a value listener, one at or below -1000 a child listener, and what is   *)
(* in between is an error code.  The SDK holds a raw pointer to a listener *)
(* from AddValueListener to RemoveValueListener.                           *)
(***************************************************************************)
EXTENDS Integers, FiniteSets, Functions

CONSTANTS
  Streams,       \* the streams, each made and listened to once
  FirstChild     \* what g_next_child_handle starts from: 1000 in the code

ASSUME DbListenersAssumption ==
  /\ IsFiniteSet(Streams) /\ Streams # {}
  /\ FirstChild \in Nat /\ FirstChild >= 1000   \* "below the failure codes"

Kinds == {"onValue", "onQueryValue", "onChildEvent"}
\* "made" is onValue's stream before anybody listens to it.
Subscriptions == {"new", "made", "listening", "refused", "cancelled"}

VARIABLES
  kind,                \* per stream, which function made it
  sub,                 \* per stream, its subscription
  handle,              \* per stream, what the native call returned
  g_listeners,         \* per handle, the stream its listener posts to
  g_child_listeners,
  g_next_value_handle, g_next_child_handle,
  sdkHolds,            \* the streams whose listener the SDK has a pointer to
  destroyed            \* the streams whose listener has been destroyed

maps == <<g_listeners, g_child_listeners>>
vars == <<kind, sub, handle, maps, g_next_value_handle, g_next_child_handle,
          sdkHolds, destroyed>>

NoEntries == [h \in {} |-> CHOOSE s \in Streams : TRUE]

Init ==
  /\ kind \in [Streams -> Kinds]
  /\ sub = [s \in Streams |-> "new"]
  /\ handle = [s \in Streams |-> 0]
  /\ g_listeners = NoEntries /\ g_child_listeners = NoEntries
  /\ g_next_value_handle = 1 /\ g_next_child_handle = FirstChild
  /\ sdkHolds = {} /\ destroyed = {}

\* std::map::emplace: an entry that is there stays, and the listener that was
\* to be put there is destroyed.
Emplace(map, h, s) ==
  IF h \in DOMAIN map THEN map
  ELSE [k \in DOMAIN map \cup {h} |-> IF k = h THEN s ELSE map[k]]
Lost(map, h, s) == IF h \in DOMAIN map THEN {s} ELSE {}

-----------------------------------------------------------------------------
(* Mutated forms, each a slip the code could have. *)

\* fdb_db_query_listen has a counter of its own.
ValueHandleOfItsOwn(s) ==
  IF kind[s] = "onQueryValue"
  THEN Cardinality({r \in Streams : kind[r] = "onQueryValue" /\ handle[r] > 0}) + 1
  ELSE g_next_value_handle

\* Child handles are -1, -2, -3.
ChildHandleFromOne == -(g_next_child_handle - FirstChild + 1)

\* The entry is erased and the SDK keeps its pointer.
UnlistenErased(h) ==
  /\ IF h < 0
     THEN /\ g_child_listeners' = Restrict(g_child_listeners,
                                           DOMAIN g_child_listeners \ {h})
          /\ destroyed' = destroyed \cup {g_child_listeners[k] :
                                k \in DOMAIN g_child_listeners \cap {h}}
          /\ UNCHANGED g_listeners
     ELSE /\ g_listeners' = Restrict(g_listeners, DOMAIN g_listeners \ {h})
          /\ destroyed' = destroyed \cup {g_listeners[k] :
                                k \in DOMAIN g_listeners \cap {h}}
          /\ UNCHANGED g_child_listeners
  /\ UNCHANGED sdkHolds

\* A negative handle is taken for an error code.
CancelPositive(s) ==
  /\ sub[s] \in {"listening", "refused"}
  /\ sub' = [sub EXCEPT ![s] = "cancelled"]
  /\ UNCHANGED <<kind, handle, maps, g_next_value_handle, g_next_child_handle,
                 sdkHolds, destroyed>>

-----------------------------------------------------------------------------
(* The native calls, each under g_mutex. *)

ValueHandle(s) == g_next_value_handle

ChildHandle == -g_next_child_handle

\* fdb_db_listen and fdb_db_query_listen: registered with the SDK, then put
\* into the map.
ListenValue(s) ==
  LET h == ValueHandle(s) IN
  /\ handle' = [handle EXCEPT ![s] = h]
  /\ g_next_value_handle' = g_next_value_handle + 1
  /\ sdkHolds' = sdkHolds \cup {s}
  /\ g_listeners' = Emplace(g_listeners, h, s)
  /\ destroyed' = destroyed \cup Lost(g_listeners, h, s)
  /\ UNCHANGED <<kind, g_child_listeners, g_next_child_handle>>

\* fdb_db_child_listen.
ListenChild(s) ==
  LET h == ChildHandle IN
  /\ handle' = [handle EXCEPT ![s] = h]
  /\ g_next_child_handle' = g_next_child_handle + 1
  /\ sdkHolds' = sdkHolds \cup {s}
  /\ g_child_listeners' = Emplace(g_child_listeners, h, s)
  /\ destroyed' = destroyed \cup Lost(g_child_listeners, h, s)
  /\ UNCHANGED <<kind, g_listeners, g_next_value_handle>>

\* No database, no path, or a query spec that cannot be applied.
Refuse(s, codes) ==
  /\ handle' \in {[handle EXCEPT ![s] = c] : c \in codes}
  /\ UNCHANGED <<kind, maps, g_next_value_handle, g_next_child_handle,
                 sdkHolds, destroyed>>

\* fdb_db_unlisten: the sign says which map, and the SDK lets go before the
\* listener is destroyed.
Unlisten(h) ==
  LET map  == IF h < 0 THEN g_child_listeners ELSE g_listeners
      gone == {map[k] : k \in DOMAIN map \cap {h}}
      left == Restrict(map, DOMAIN map \ {h})
  IN /\ IF h < 0
        THEN g_child_listeners' = left /\ UNCHANGED g_listeners
        ELSE g_listeners' = left /\ UNCHANGED g_child_listeners
     /\ sdkHolds' = sdkHolds \ gone
     /\ destroyed' = destroyed \cup gone

-----------------------------------------------------------------------------
(* The streams. *)

\* onValue registers when it is called, not when it is listened to.
OnValue(s) ==
  /\ kind[s] = "onValue" /\ sub[s] = "new"
  /\ ListenValue(s)
  /\ sub' = [sub EXCEPT ![s] = "made"]

OnValueRefused(s) ==
  /\ kind[s] = "onValue" /\ sub[s] = "new"
  /\ Refuse(s, {-1})
  /\ sub' = [sub EXCEPT ![s] = "refused"]

OnValueListen(s) ==
  /\ sub[s] = "made"
  /\ sub' = [sub EXCEPT ![s] = "listening"]
  /\ UNCHANGED <<kind, handle, maps, g_next_value_handle, g_next_child_handle,
                 sdkHolds, destroyed>>

\* _listenWith: "the only values in between are the failure codes".
OnListen(s) ==
  /\ kind[s] # "onValue" /\ sub[s] = "new"
  /\ \/ kind[s] = "onQueryValue" /\ ListenValue(s)
     \/ kind[s] = "onChildEvent" /\ ListenChild(s)
     \/ Refuse(s, {-1, -2, -3})
  /\ sub' = [sub EXCEPT ![s] = IF handle'[s] > -1000 /\ handle'[s] <= 0
                               THEN "refused" ELSE "listening"]

\* onCancel: _listenWith passes on no error code, and onValue's stream is only
\* there to be cancelled when its listener is.
OnCancel(s) ==
  /\ sub[s] \in {"listening", "refused"}
  /\ IF handle[s] > 0 \/ handle[s] <= -1000
     THEN Unlisten(handle[s])
     ELSE UNCHANGED <<maps, sdkHolds, destroyed>>
  /\ sub' = [sub EXCEPT ![s] = "cancelled"]
  /\ UNCHANGED <<kind, handle, g_next_value_handle, g_next_child_handle>>

Quiet ==
  /\ \A s \in Streams : sub[s] = "cancelled"
  /\ UNCHANGED vars

Next ==
  \/ \E s \in Streams : OnValue(s) \/ OnValueRefused(s) \/ OnValueListen(s)
                        \/ OnListen(s) \/ OnCancel(s)
  \/ Quiet

Spec == Init /\ [][Next]_vars

-----------------------------------------------------------------------------
(* Properties. *)

TypeOK ==
  /\ kind \in [Streams -> Kinds] /\ sub \in [Streams -> Subscriptions]
  /\ handle \in [Streams -> Int]
  /\ g_next_value_handle \in Nat \ {0}
  /\ g_next_child_handle \in Nat /\ g_next_child_handle >= FirstChild
  /\ sdkHolds \subseteq Streams /\ destroyed \subseteq Streams

\* "Remove before destroying: the SDK holds a raw pointer to the listener", on
\* every way a listener can be destroyed, an emplace that drops it included.
SdkHoldsLiveListeners == sdkHolds \cap destroyed = {}

\* "a listener would go quiet with nothing to say it had": a stream that is
\* listened to is fed, by a listener that its handle finds.
ListenedIsFed ==
  \A s \in Streams : sub[s] \in {"made", "listening"} =>
    /\ s \in sdkHolds
    /\ LET map == IF handle[s] < 0 THEN g_child_listeners ELSE g_listeners
       IN handle[s] \in DOMAIN map /\ map[handle[s]] = s

\* "the caller would treat a working listener as a refusal": what the caller
\* was refused, and what it cancelled, is not running, which nobody could stop.
NothingRunsUnseen ==
  \A s \in Streams : sub[s] \in {"refused", "cancelled"} => s \notin sdkHolds
=============================================================================
