--------------------------- MODULE DbReadsProofs ---------------------------
(***************************************************************************)
(* Proofs about how the Realtime Database is listened to and read.  About  *)
(* DbListeners, for every set of streams: the SDK never holds a listener   *)
(* that was destroyed, a stream that is listened to is fed, and a stream   *)
(* that was refused or cancelled is not.  About ReadValue, for every       *)
(* settle time, timeout and latency: a read settles when it says it does,  *)
(* and on what the server had, if the server is in time.                   *)
(***************************************************************************)
EXTENDS DbListeners, ReadValue, SequenceTheorems, TLAPS

-----------------------------------------------------------------------------
(* The listeners. *)

Fed == {"made", "listening"}

\* The handles that were given out are the ones behind the counters, and the
\* two maps share none of them.
Given ==
  /\ \A h \in DOMAIN g_listeners : h \in Nat \ {0} /\ h < g_next_value_handle
  /\ \A h \in DOMAIN g_child_listeners :
       h \in Int /\ h <= -1000 /\ -g_next_child_handle < h

\* An entry of a map is the listener of a stream that has its handle.
Owned(map) ==
  \A h \in DOMAIN map :
    map[h] \in Streams /\ handle[map[h]] = h /\ sub[map[h]] \in Fed

\* What becomes of a stream.
Kept(s) ==
  /\ s \in sdkHolds <=> sub[s] \in Fed
  /\ s \in destroyed => sub[s] = "cancelled"
  /\ sub[s] = "refused" => -1000 < handle[s] /\ handle[s] <= 0
  /\ sub[s] \in Fed =>
       \/ /\ handle[s] > 0
          /\ handle[s] \in DOMAIN g_listeners /\ g_listeners[handle[s]] = s
       \/ /\ handle[s] <= -1000
          /\ handle[s] \in DOMAIN g_child_listeners
          /\ g_child_listeners[handle[s]] = s

IInv ==
  /\ TypeOK /\ Given
  /\ Owned(g_listeners) /\ Owned(g_child_listeners)
  /\ \A s \in Streams : Kept(s)

USE DbListenersAssumption DEF Kinds, Subscriptions, Fed

LEMMA InitInv == Init => IInv
  BY DEF Init, NoEntries, IInv, TypeOK, Given, Owned, Kept

\* A new listener is put under a handle that no map has, and the SDK holds it.
LEMMA ListenValueStep ==
  ASSUME IInv, NEW s \in Streams, sub[s] = "new", ListenValue(s),
         NEW to \in Fed, sub' = [sub EXCEPT ![s] = to]
  PROVE  IInv'
<1> DEFINE h == g_next_value_handle
<1>1. h \notin DOMAIN g_listeners /\ h \in Nat \ {0}
  BY DEF IInv, TypeOK, Given
<1>2. /\ g_listeners' = [k \in DOMAIN g_listeners \cup {h} |->
                           IF k = h THEN s ELSE g_listeners[k]]
      /\ destroyed' = destroyed /\ sdkHolds' = sdkHolds \cup {s}
      /\ handle' = [handle EXCEPT ![s] = h] /\ g_next_value_handle' = h + 1
      /\ UNCHANGED <<kind, g_child_listeners, g_next_child_handle>>
  BY <1>1 DEF ListenValue, ValueHandle, Emplace, Lost
<1>3. \A k \in DOMAIN g_listeners : g_listeners[k] # s
  BY DEF IInv, Owned
<1>4. \A k \in DOMAIN g_child_listeners : g_child_listeners[k] # s
  BY DEF IInv, Owned
<1>5. TypeOK'
  BY <1>1, <1>2 DEF IInv, TypeOK
<1>6. Given'
  BY <1>1, <1>2 DEF IInv, Given, TypeOK
<1>7. Owned(g_listeners)'
  BY <1>1, <1>2, <1>3 DEF IInv, Owned, TypeOK
<1>8. Owned(g_child_listeners)'
  BY <1>2, <1>4 DEF IInv, Owned, TypeOK
<1>9. ASSUME NEW r \in Streams PROVE Kept(r)'
  <2>1. CASE r = s
    BY <2>1, <1>1, <1>2 DEF IInv, TypeOK, Kept
  <2>2. CASE r # s
    <3>1. handle'[r] = handle[r] /\ sub'[r] = sub[r]
          /\ (r \in sdkHolds' <=> r \in sdkHolds)
      BY <2>2, <1>2 DEF IInv, TypeOK
    <3>2. Kept(r)
      BY DEF IInv
    <3>. QED
      BY <3>1, <3>2, <1>1, <1>2 DEF Kept
  <2>. QED
    BY <2>1, <2>2
<1>. QED
  BY <1>5, <1>6, <1>7, <1>8, <1>9 DEF IInv

LEMMA ListenChildStep ==
  ASSUME IInv, NEW s \in Streams, sub[s] = "new", ListenChild(s),
         NEW to \in Fed, sub' = [sub EXCEPT ![s] = to]
  PROVE  IInv'
<1> DEFINE h == -g_next_child_handle
<1>1. h \notin DOMAIN g_child_listeners /\ h \in Int /\ h <= -1000
  BY DEF IInv, TypeOK, Given
<1>2. /\ g_child_listeners' = [k \in DOMAIN g_child_listeners \cup {h} |->
                                 IF k = h THEN s ELSE g_child_listeners[k]]
      /\ destroyed' = destroyed /\ sdkHolds' = sdkHolds \cup {s}
      /\ handle' = [handle EXCEPT ![s] = h]
      /\ g_next_child_handle' = g_next_child_handle + 1
      /\ UNCHANGED <<kind, g_listeners, g_next_value_handle>>
  BY <1>1 DEF ListenChild, ChildHandle, Emplace, Lost
<1>3. \A k \in DOMAIN g_listeners : g_listeners[k] # s
  BY DEF IInv, Owned
<1>4. \A k \in DOMAIN g_child_listeners : g_child_listeners[k] # s
  BY DEF IInv, Owned
<1>5. TypeOK'
  BY <1>1, <1>2 DEF IInv, TypeOK
<1>6. Given'
  BY <1>1, <1>2 DEF IInv, Given, TypeOK
<1>7. Owned(g_listeners)'
  BY <1>2, <1>3 DEF IInv, Owned, TypeOK
<1>8. Owned(g_child_listeners)'
  BY <1>1, <1>2, <1>4 DEF IInv, Owned, TypeOK
<1>9. ASSUME NEW r \in Streams PROVE Kept(r)'
  <2>1. CASE r = s
    BY <2>1, <1>1, <1>2 DEF IInv, TypeOK, Kept
  <2>2. CASE r # s
    <3>1. handle'[r] = handle[r] /\ sub'[r] = sub[r]
          /\ (r \in sdkHolds' <=> r \in sdkHolds)
      BY <2>2, <1>2 DEF IInv, TypeOK
    <3>2. Kept(r)
      BY DEF IInv
    <3>. QED
      BY <3>1, <3>2, <1>1, <1>2 DEF Kept
  <2>. QED
    BY <2>1, <2>2
<1>. QED
  BY <1>5, <1>6, <1>7, <1>8, <1>9 DEF IInv

\* A refusal registers nothing.
LEMMA RefuseStep ==
  ASSUME IInv, NEW s \in Streams, sub[s] = "new",
         NEW code \in {-1, -2, -3}, handle' = [handle EXCEPT ![s] = code],
         UNCHANGED <<kind, maps, g_next_value_handle, g_next_child_handle,
                     sdkHolds, destroyed>>,
         sub' = [sub EXCEPT ![s] = "refused"]
  PROVE  IInv'
<1>1. TypeOK' /\ Given'
  BY DEF IInv, TypeOK, Given, maps
<1>2. Owned(g_listeners)' /\ Owned(g_child_listeners)'
  BY DEF IInv, TypeOK, Owned, maps
<1>3. ASSUME NEW r \in Streams PROVE Kept(r)'
  <2>1. CASE r = s
    BY <2>1 DEF IInv, TypeOK, Kept, maps
  <2>2. CASE r # s
    BY <2>2 DEF IInv, TypeOK, Kept, maps
  <2>. QED
    BY <2>1, <2>2
<1>. QED
  BY <1>1, <1>2, <1>3 DEF IInv

\* What a stream cancels is its own listener: its handle finds it in one map,
\* and the handle of no other stream does.
LEMMA CancelStep ==
  ASSUME IInv, NEW s \in Streams, OnCancel(s)
  PROVE  IInv'
<1> DEFINE map == IF handle[s] < 0 THEN g_child_listeners ELSE g_listeners
           left == Restrict(map, DOMAIN map \ {handle[s]})
<1>1. /\ sub' = [sub EXCEPT ![s] = "cancelled"] /\ sub[s] \in {"listening", "refused"}
      /\ UNCHANGED <<kind, handle, g_next_value_handle, g_next_child_handle>>
  BY DEF OnCancel
<1>2. handle[s] \in Int /\ Kept(s)
  BY DEF IInv, TypeOK
<1>3. CASE sub[s] = "listening"
  <2>1. handle[s] > 0 \/ handle[s] <= -1000
    BY <1>2, <1>3 DEF Kept
  <2>2. handle[s] \in DOMAIN map /\ map[handle[s]] = s
    BY <1>2, <1>3 DEF Kept
  <2>3. {map[k] : k \in DOMAIN map \cap {handle[s]}} = {s}
    BY <2>2
  <2>4. /\ g_child_listeners' = IF handle[s] < 0 THEN left ELSE g_child_listeners
        /\ g_listeners' = IF handle[s] < 0 THEN g_listeners ELSE left
        /\ sdkHolds' = sdkHolds \ {s} /\ destroyed' = destroyed \cup {s}
    BY <2>1, <2>3 DEF OnCancel, Unlisten
  <2>5. left = [k \in DOMAIN map \ {handle[s]} |-> map[k]]
    BY DEF Restrict
  <2>6. TypeOK' /\ Given'
    <3>1. TypeOK'
      BY <1>1, <2>4 DEF IInv, TypeOK
    <3>2. DOMAIN left \subseteq DOMAIN map
      BY <2>5
    <3>3. /\ DOMAIN g_listeners' \subseteq DOMAIN g_listeners
          /\ DOMAIN g_child_listeners' \subseteq DOMAIN g_child_listeners
      BY <1>2, <2>4, <3>2
    <3>. QED
      BY <1>1, <3>1, <3>3 DEF IInv, Given
  <2>7. \A k \in DOMAIN map \ {handle[s]} : map[k] # s
    BY DEF IInv, Owned
  <2>8. \A k \in DOMAIN g_listeners' :
           g_listeners'[k] = g_listeners[k] /\ k \in DOMAIN g_listeners
           /\ g_listeners[k] # s
    BY <1>2, <2>4, <2>5, <2>7 DEF IInv, Owned, Given
  <2>9. \A k \in DOMAIN g_child_listeners' :
           g_child_listeners'[k] = g_child_listeners[k]
           /\ k \in DOMAIN g_child_listeners /\ g_child_listeners[k] # s
    BY <1>2, <2>4, <2>5, <2>7 DEF IInv, Owned, Given
  <2>10. Owned(g_listeners)' /\ Owned(g_child_listeners)'
    BY <1>1, <2>8, <2>9 DEF IInv, TypeOK, Owned
  <2>11. ASSUME NEW r \in Streams PROVE Kept(r)'
    <3>1. CASE r = s
      BY <3>1, <1>1, <2>4 DEF IInv, TypeOK, Kept
    <3>2. CASE r # s
      <4>1. sub'[r] = sub[r] /\ handle'[r] = handle[r]
            /\ (r \in sdkHolds' <=> r \in sdkHolds)
            /\ (r \in destroyed' <=> r \in destroyed)
        BY <3>2, <1>1, <2>4 DEF IInv, TypeOK
      <4>2. Kept(r) /\ handle[r] \in Int
        BY DEF IInv, TypeOK
      <4>3. ASSUME sub[r] \in Fed, handle[r] > 0
            PROVE  handle[r] \in DOMAIN g_listeners'
                   /\ g_listeners'[handle[r]] = r
        BY <4>2, <4>3, <3>2, <2>2, <2>4, <2>5 DEF Kept
      <4>4. ASSUME sub[r] \in Fed, handle[r] <= -1000
            PROVE  handle[r] \in DOMAIN g_child_listeners'
                   /\ g_child_listeners'[handle[r]] = r
        BY <4>2, <4>4, <3>2, <2>2, <2>4, <2>5 DEF Kept
      <4>. QED
        BY <4>1, <4>2, <4>3, <4>4 DEF Kept
    <3>. QED
      BY <3>1, <3>2
  <2>. QED
    BY <2>6, <2>10, <2>11 DEF IInv
<1>4. CASE sub[s] = "refused"
  <2>1. UNCHANGED <<maps, sdkHolds, destroyed>>
    BY <1>2, <1>4 DEF OnCancel, Kept
  <2>2. TypeOK' /\ Given'
    BY <1>1, <2>1 DEF IInv, TypeOK, Given, maps
  <2>3. Owned(g_listeners)' /\ Owned(g_child_listeners)'
    BY <1>1, <1>4, <2>1 DEF IInv, TypeOK, Owned, maps
  <2>4. ASSUME NEW r \in Streams PROVE Kept(r)'
    BY <1>1, <1>4, <2>1 DEF IInv, TypeOK, Kept, maps
  <2>. QED
    BY <2>2, <2>3, <2>4 DEF IInv
<1>. QED
  BY <1>1, <1>3, <1>4

LEMMA StepInv == IInv /\ [Next]_vars => IInv'
<1>. SUFFICES ASSUME IInv, [Next]_vars PROVE IInv'
  OBVIOUS
<1>1. ASSUME NEW s \in Streams, OnValue(s) PROVE IInv'
  BY <1>1, ListenValueStep DEF OnValue
<1>2. ASSUME NEW s \in Streams, OnValueRefused(s) PROVE IInv'
  BY <1>2, RefuseStep DEF OnValueRefused, Refuse
<1>3. ASSUME NEW s \in Streams, OnValueListen(s) PROVE IInv'
  <2>1. TypeOK' /\ Given'
    BY <1>3 DEF OnValueListen, IInv, TypeOK, Given, maps
  <2>2. Owned(g_listeners)' /\ Owned(g_child_listeners)'
    BY <1>3 DEF OnValueListen, IInv, TypeOK, Owned, maps
  <2>3. ASSUME NEW r \in Streams PROVE Kept(r)'
    BY <1>3 DEF OnValueListen, IInv, TypeOK, Kept, maps
  <2>. QED
    BY <2>1, <2>2, <2>3 DEF IInv
<1>4. ASSUME NEW s \in Streams, OnListen(s) PROVE IInv'
  <2>1. sub[s] = "new" /\ s \in DOMAIN handle
    BY <1>4 DEF OnListen, IInv, TypeOK
  <2>5. sub' = [sub EXCEPT ![s] = IF handle'[s] > -1000 /\ handle'[s] <= 0
                                  THEN "refused" ELSE "listening"]
    BY <1>4 DEF OnListen
  <2>2. CASE ListenValue(s)
    <3>1. handle'[s] \in Nat \ {0}
      BY <2>1, <2>2 DEF ListenValue, ValueHandle, IInv, TypeOK
    <3>2. ~(handle'[s] > -1000 /\ handle'[s] <= 0)
      BY <3>1
    <3>3. sub' = [sub EXCEPT ![s] = "listening"]
      BY <2>5, <3>2
    <3>. QED
      BY <2>1, <2>2, <3>3, ListenValueStep
  <2>3. CASE ListenChild(s)
    <3>1. handle'[s] <= -1000 /\ handle'[s] \in Int
      BY <2>1, <2>3 DEF ListenChild, ChildHandle, IInv, TypeOK
    <3>2. ~(handle'[s] > -1000 /\ handle'[s] <= 0)
      BY <3>1
    <3>3. sub' = [sub EXCEPT ![s] = "listening"]
      BY <2>5, <3>2
    <3>. QED
      BY <2>1, <2>3, <3>3, ListenChildStep
  <2>4. CASE Refuse(s, {-1, -2, -3})
    <3>1. PICK code \in {-1, -2, -3} : handle' = [handle EXCEPT ![s] = code]
      BY <2>4 DEF Refuse
    <3>2. handle'[s] > -1000 /\ handle'[s] <= 0
      BY <2>1, <3>1
    <3>3. sub' = [sub EXCEPT ![s] = "refused"]
      BY <1>4, <3>2 DEF OnListen
    <3>. QED
      BY <2>1, <2>4, <3>1, <3>3, RefuseStep DEF Refuse
  <2>. QED
    BY <1>4, <2>2, <2>3, <2>4 DEF OnListen
<1>5. ASSUME NEW s \in Streams, OnCancel(s) PROVE IInv'
  BY <1>5, CancelStep
<1>6. CASE Quiet \/ UNCHANGED vars
  BY <1>6 DEF Quiet, vars, maps, IInv, TypeOK, Given, Owned, Kept
<1>. QED
  BY <1>1, <1>2, <1>3, <1>4, <1>5, <1>6 DEF Next

\* The maps of firebase_impl.cpp, their counters and what the streams hold
\* agree in every state.
THEOREM Invariance == Spec => []IInv
<1>. QED
  BY InitInv, StepInv, PTL DEF Spec

\* "Remove before destroying: the SDK holds a raw pointer to the listener": on
\* every path, fdb_db_unlisten's and that of an emplace that finds its key
\* taken, which no handle of the two counters ever does.
THEOREM SdkHoldsLive == Spec => []SdkHoldsLiveListeners
<1>1. IInv => SdkHoldsLiveListeners
  BY DEF IInv, TypeOK, Kept, SdkHoldsLiveListeners
<1>. QED
  BY <1>1, Invariance, PTL

\* "a listener would go quiet with nothing to say it had": the stream's handle
\* finds the listener that feeds it, in the map that its sign names.
THEOREM ListenedStreamsAreFed == Spec => []ListenedIsFed
<1>1. IInv => ListenedIsFed
  BY DEF IInv, TypeOK, Kept, ListenedIsFed
<1>. QED
  BY <1>1, Invariance, PTL

\* Nothing runs for a stream that _listenWith took for refused, or whose
\* subscriber has cancelled.
THEOREM NothingUnseen == Spec => []NothingRunsUnseen
<1>1. IInv => NothingRunsUnseen
  BY DEF IInv, Kept, NothingRunsUnseen
<1>. QED
  BY <1>1, Invariance, PTL
-----------------------------------------------------------------------------
(* A read, through readValue's timers. *)

USE ReadValueAssumption DEF Versions, Never, Refused, Outcomes, Links, Reading,
                            sdkVars, readVars

\* What is sent goes to the end of the port.
LEMMA SendEnds ==
  ASSUME NEW S, NEW s \in Seq(S), NEW v \in S
  PROVE  /\ Append(s, v) \in Seq(S) /\ Append(s, v) # <<>>
         /\ Len(Append(s, v)) = Len(s) + 1 /\ Append(s, v)[Len(s) + 1] = v
         /\ \A i \in 1..Len(s) : Append(s, v)[i] = s[i]
<1>1. Len(Append(s, v)) = Len(s) + 1 /\ Len(s) \in Nat
  BY AppendProperties, LenProperties
<1>. QED
  BY <1>1, AppendProperties

\* An event is taken from the front: the end is the same, if there is one left.
LEMMA HeadLeaves ==
  ASSUME NEW S, NEW s \in Seq(S), s # <<>>
  PROVE  /\ Head(s) = s[1] /\ s[1] \in S
         /\ Tail(s) \in Seq(S)
         /\ Len(s) \in Nat \ {0} /\ Len(Tail(s)) = Len(s) - 1
         /\ \A i \in 1..Len(Tail(s)) : Tail(s)[i] = s[i + 1]
         /\ Tail(s) = <<>> => Len(s) = 1
         /\ Tail(s) # <<>> => Tail(s)[Len(Tail(s))] = s[Len(s)]
<1>1. Len(s) \in Nat \ {0}
  BY EmptySeq, LenProperties
<1>2. Tail(s) \in Seq(S) /\ Len(Tail(s)) = Len(s) - 1
  BY HeadTailProperties
<1>3. \A i \in 1..Len(Tail(s)) : Tail(s)[i] = s[i + 1]
  BY HeadTailProperties
<1>4. Tail(s) = <<>> => Len(s) = 1
  BY <1>1, <1>2
<1>5. Tail(s) # <<>> => Len(Tail(s)) \in Nat \ {0}
  BY <1>2, EmptySeq, LenProperties
<1>6. Tail(s) # <<>> => Tail(s)[Len(Tail(s))] = s[Len(s)]
  BY <1>1, <1>2, <1>3, <1>5
<1>7. Head(s) = s[1] /\ s[1] \in S
  BY <1>1
<1>. QED
  BY <1>1, <1>2, <1>3, <1>4, <1>6, <1>7

LEMMA RvInitInv == RvInit => RvInv
<1>. SUFFICES ASSUME RvInit PROVE RvInv
  OBVIOUS
<1>1. RvTypeOK
  <2>1. port \in Seq(Versions \cup {Refused})
    BY EmptySeq DEF RvInit
  <2>2. server \in Versions /\ cached \in Versions
    BY DEF RvInit
  <2>. QED
    <3>1. /\ now = 0 /\ link = "off" /\ last = 0 /\ seen = FALSE /\ quiet = Never
          /\ outcome = "none" /\ value = 0 /\ startedAt = 0
          /\ startedFrom = server /\ lastEventAt = 0
      BY DEF RvInit
    <3>2. last \in Versions /\ value \in Versions /\ startedFrom \in Versions
      BY <2>2, <3>1
    <3>3. now \in Nat /\ startedAt \in Nat /\ lastEventAt \in Nat
          /\ quiet \in Nat \cup {Never}
      BY <3>1
    <3>. QED
      BY <2>1, <2>2, <3>1, <3>2, <3>3 DEF RvTypeOK
<1>2. PortInv /\ TimerInv /\ LatencyInv /\ SettledInv
  BY DEF RvInit, PortInv, TimerInv, LatencyInv, SettledInv
<1>. QED
  BY <1>1, <1>2 DEF RvInv

\* The listener is attached, and nothing has come of it.
LEMMA StartStep == RvInv /\ Start => RvInv'
<1>. SUFFICES ASSUME RvInv, Start PROVE RvInv'
  OBVIOUS
<1>1. RvTypeOK'
  BY DEF Start, RvInv, RvTypeOK
<1>2. PortInv'
  BY DEF Start, RvInv, PortInv
<1>3. TimerInv' /\ SettledInv'
  BY DEF Start, RvInv, TimerInv, SettledInv
<1>4. LatencyInv'
  BY DEF Start, RvInv, RvTypeOK, LatencyInv
<1>. QED
  BY <1>1, <1>2, <1>3, <1>4 DEF RvInv

\* What the SDK sends is the end of the port.
LEMMA SentIsLast ==
  ASSUME RvInv, NEW v \in Versions \cup {Refused}, Send(v)
  PROVE  /\ port' \in Seq(Versions \cup {Refused}) /\ port' # <<>> /\ LastSent' = v
         /\ Len(port') = Len(port) + 1 /\ Len(port) \in Nat
         /\ port'[Len(port) + 1] = v /\ \A i \in 1..Len(port) : port'[i] = port[i]
<1> DEFINE E == Versions \cup {Refused}
<1>1. port \in Seq(E) /\ port' = Append(port, v) /\ v \in E
  BY DEF RvInv, RvTypeOK, Send
<1>2. Len(port) \in Nat
  BY <1>1, LenProperties
<1>3. /\ port' \in Seq(E) /\ port' # <<>> /\ Len(port') = Len(port) + 1
      /\ port'[Len(port) + 1] = v /\ \A i \in 1..Len(port) : port'[i] = port[i]
  <2>. HIDE DEF E
  <2>. QED
    BY <1>1, SendEnds
<1>4. LastSent' = v
  BY <1>3 DEF LastSent
<1>. QED
  BY <1>2, <1>3, <1>4

LEMMA SendLocalStep == RvInv /\ SendLocal => RvInv'
<1>. SUFFICES ASSUME RvInv, SendLocal PROVE RvInv'
  OBVIOUS
<1>1. /\ link = "local" /\ link' = "asked" /\ Send(cached)
      /\ UNCHANGED <<now, server, cached, last, seen, quiet, outcome, value,
                     startedAt, startedFrom, lastEventAt>>
  BY DEF SendLocal
<1>2. port' \in Seq(Versions \cup {Refused}) /\ port' # <<>> /\ LastSent' = cached
  BY <1>1, SentIsLast DEF RvInv, RvTypeOK
<1>3. RvTypeOK'
  BY <1>1, <1>2 DEF RvInv, RvTypeOK
<1>4. PortInv'
  BY <1>1, <1>2 DEF PortInv
<1>5. TimerInv' /\ LatencyInv' /\ SettledInv'
  BY <1>1 DEF RvInv, TimerInv, LatencyInv, SettledInv
<1>. QED
  BY <1>3, <1>4, <1>5 DEF RvInv

\* The server's answer is not older than the read.
LEMMA HearStep == RvInv /\ Hear => RvInv'
<1>. SUFFICES ASSUME RvInv, Hear PROVE RvInv'
  OBVIOUS
<1>1. /\ link \in {"asked", "live"} /\ link' = "live" /\ cached' = server
      /\ UNCHANGED <<now, server, last, seen, quiet, outcome, value,
                     startedAt, startedFrom, lastEventAt>>
  BY DEF Hear
<1>2. cached \in Versions /\ server \in Versions /\ startedFrom \in Versions
      /\ startedFrom <= server /\ port \in Seq(Versions \cup {Refused})
  BY DEF RvInv, RvTypeOK, LatencyInv
<1>3. /\ port' \in Seq(Versions \cup {Refused}) /\ LastSent' = server
      /\ (\A i \in 1..Len(port) : port[i] >= startedFrom) =>
            \A i \in 1..Len(port') : port'[i] >= startedFrom
  <2>1. CASE cached # server
    <3>1. Send(server)
      BY <2>1 DEF Hear
    <3>2. /\ port' \in Seq(Versions \cup {Refused}) /\ LastSent' = server
          /\ Len(port') = Len(port) + 1 /\ Len(port) \in Nat
          /\ port'[Len(port) + 1] = server
          /\ \A i \in 1..Len(port) : port'[i] = port[i]
      BY <3>1, <1>2, SentIsLast
    <3>3. \A i \in 1..Len(port') : i \in 1..Len(port) \/ i = Len(port) + 1
      BY <3>2
    <3>. QED
      BY <3>2, <3>3, <1>2
  <2>2. CASE cached = server
    <3>1. port' = port
      BY <2>2 DEF Hear
    <3>. QED
      BY <3>1, <2>2, <1>1, <1>2 DEF RvInv, PortInv, LastSent
  <2>. QED
    BY <2>1, <2>2
<1>4. RvTypeOK'
  BY <1>1, <1>2, <1>3 DEF RvInv, RvTypeOK
<1>5. PortInv'
  BY <1>1, <1>3 DEF PortInv
<1>6. TimerInv' /\ SettledInv'
  BY <1>1 DEF RvInv, TimerInv, SettledInv
<1>7. LatencyInv'
  BY <1>1, <1>2, <1>3 DEF RvInv, LatencyInv
<1>. QED
  BY <1>4, <1>5, <1>6, <1>7 DEF RvInv

LEMMA DenyStep == RvInv /\ Deny => RvInv'
<1>. SUFFICES ASSUME RvInv, Deny PROVE RvInv'
  OBVIOUS
<1>1. /\ link = "asked" /\ link' = "cancelled" /\ Send(Refused)
      /\ UNCHANGED <<now, server, cached, last, seen, quiet, outcome, value,
                     startedAt, startedFrom, lastEventAt>>
  BY DEF Deny
<1>2. port' \in Seq(Versions \cup {Refused}) /\ port' # <<>> /\ LastSent' = Refused
  BY <1>1, SentIsLast
<1>3. RvTypeOK'
  BY <1>1, <1>2 DEF RvInv, RvTypeOK
<1>4. PortInv'
  BY <1>1, <1>2 DEF PortInv
<1>5. TimerInv' /\ LatencyInv' /\ SettledInv'
  BY <1>1 DEF RvInv, TimerInv, LatencyInv, SettledInv
<1>. QED
  BY <1>3, <1>4, <1>5 DEF RvInv

\* Others write: the server moves on, and what was sent does not.
LEMMA OtherWritesStep == RvInv /\ OtherWrites => RvInv'
<1>. SUFFICES ASSUME RvInv, OtherWrites PROVE RvInv'
  OBVIOUS
<1>1. /\ server' = server + 1 /\ server \in Versions /\ server' \in Versions
      /\ UNCHANGED <<now, cached, link, port, last, seen, quiet, outcome, value,
                     startedAt, startedFrom, lastEventAt>>
  BY DEF OtherWrites, RvInv, RvTypeOK
<1>2. RvTypeOK'
  BY <1>1 DEF RvInv, RvTypeOK
<1>3. PortInv' /\ TimerInv' /\ SettledInv'
  BY <1>1 DEF RvInv, PortInv, LastSent, TimerInv, SettledInv
<1>4. LatencyInv'
  BY <1>1 DEF RvInv, RvTypeOK, LatencyInv
<1>. QED
  BY <1>2, <1>3, <1>4 DEF RvInv

\* An event restarts the timer, and the ones behind it stay in their order.
LEMMA DeliverStep == RvInv /\ Deliver => RvInv'
<1>. SUFFICES ASSUME RvInv, Deliver PROVE RvInv'
  OBVIOUS
<1> DEFINE E == Versions \cup {Refused}
<1>1. /\ link # "off" /\ outcome = "none" /\ port # <<>> /\ Head(port) # Refused
      /\ port' = Tail(port) /\ last' = Head(port) /\ seen' = TRUE
      /\ quiet' = now + Settle /\ lastEventAt' = now
      /\ UNCHANGED <<now, server, cached, link, outcome, value, startedAt, startedFrom>>
  BY DEF Deliver
<1>2. port \in Seq(E)
  BY DEF RvInv, RvTypeOK
<1>3. /\ Head(port) = port[1] /\ port[1] \in E /\ Tail(port) \in Seq(E)
      /\ Len(port) \in Nat \ {0} /\ Len(Tail(port)) = Len(port) - 1
      /\ \A i \in 1..Len(Tail(port)) : Tail(port)[i] = port[i + 1]
      /\ Tail(port) = <<>> => Len(port) = 1
      /\ Tail(port) # <<>> => Tail(port)[Len(Tail(port))] = port[Len(port)]
  <2>. HIDE DEF E
  <2>. QED
    BY <1>1, <1>2, HeadLeaves
<1>4. LastSent = port[Len(port)] /\ LastSent' = LastSent
  BY <1>1, <1>3 DEF LastSent
<1>5. RvTypeOK'
  <2>1. last' \in Versions
    BY <1>1, <1>3
  <2>2. quiet' \in Nat \cup {Never} /\ lastEventAt' \in Nat
    BY <1>1 DEF RvInv, RvTypeOK
  <2>. QED
    BY <1>1, <1>3, <2>1, <2>2 DEF RvInv, RvTypeOK
<1>6. PortInv'
  <2>1. link \notin {"off", "local"}
    BY <1>1 DEF RvInv, PortInv
  <2>2. link = "cancelled" => Tail(port) # <<>>
    BY <1>1, <1>3, <1>4 DEF RvInv, PortInv
  <2>. QED
    BY <1>1, <1>4, <2>1, <2>2 DEF RvInv, PortInv
<1>7. TimerInv'
  <2>1. link \in {"asked", "live", "cancelled"} /\ startedAt <= now
    BY <1>1 DEF RvInv, RvTypeOK, PortInv, LatencyInv
  <2>. QED
    BY <1>1, <2>1 DEF TimerInv
<1>8. LatencyInv'
  <2>1. (\A i \in 1..Len(port) : port[i] >= startedFrom) =>
           last' >= startedFrom /\ \A i \in 1..Len(port') : port'[i] >= startedFrom
    BY <1>1, <1>3
  <2>. QED
    BY <1>1, <2>1 DEF RvInv, LatencyInv
<1>9. SettledInv'
  BY <1>1 DEF SettledInv
<1>. QED
  BY <1>5, <1>6, <1>7, <1>8, <1>9 DEF RvInv

\* An end of the read other than the quiet timer.
LEMMA OtherEndStep ==
  ASSUME RvInv, NEW how \in {"timeout", "error"}, NEW v \in Versions,
         Complete(how, v),
         UNCHANGED <<now, server, cached, last, seen, startedAt, startedFrom, lastEventAt>>
  PROVE  RvInv'
<1>1. RvTypeOK'
  BY EmptySeq DEF Complete, RvInv, RvTypeOK
<1>2. PortInv' /\ TimerInv' /\ LatencyInv' /\ SettledInv'
  BY DEF Complete, RvInv, PortInv, TimerInv, LatencyInv, SettledInv
<1>. QED
  BY <1>1, <1>2 DEF RvInv

\* The quiet timer fires a settle time after the last event.  The SDK has told
\* the server's answer by then, or the answer may still be on its way.
LEMMA FireQuietStep == RvInv /\ FireQuiet => RvInv'
<1>. SUFFICES ASSUME RvInv, FireQuiet PROVE RvInv'
  OBVIOUS
<1>1. /\ quiet = now /\ outcome' = "settled" /\ value' = last
      /\ quiet' = Never /\ link' = "off" /\ port' = <<>>
      /\ UNCHANGED <<now, server, cached, last, seen, startedAt, startedFrom, lastEventAt>>
  BY DEF FireQuiet, Complete
<1>2. quiet # Never
  BY <1>1 DEF RvInv, RvTypeOK
<1>3. RvTypeOK'
  BY <1>1, EmptySeq DEF RvInv, RvTypeOK
<1>4. PortInv' /\ TimerInv' /\ LatencyInv'
  BY <1>1 DEF RvInv, PortInv, TimerInv, LatencyInv
<1>5. SettledInv'
  <2>1. now = lastEventAt + Settle /\ startedAt <= lastEventAt
    BY <1>1, <1>2 DEF RvInv, TimerInv
  <2>2. last >= startedFrom \/ now <= startedAt + MaxLatency
    BY <1>2 DEF RvInv, TimerInv, LatencyInv
  <2>. QED
    BY <1>1, <2>1, <2>2 DEF SettledInv
<1>. QED
  BY <1>3, <1>4, <1>5 DEF RvInv

\* The clock moves on when everything that is due is done.
LEMMA TickStep == RvInv /\ Tick => RvInv'
<1>. SUFFICES ASSUME RvInv, Tick PROVE RvInv'
  OBVIOUS
<1>1. /\ link # "off" /\ outcome = "none" /\ port = <<>> /\ link # "local"
      /\ link = "asked" => now < startedAt + MaxLatency
      /\ now' = now + 1 /\ now \in Nat /\ startedAt \in Nat
      /\ UNCHANGED <<server, cached, link, port, last, seen, quiet, outcome, value,
                     startedAt, startedFrom, lastEventAt>>
  BY DEF Tick, RvInv, RvTypeOK
<1>2. RvTypeOK'
  BY <1>1 DEF RvInv, RvTypeOK
<1>3. PortInv' /\ TimerInv' /\ SettledInv'
  BY <1>1 DEF RvInv, PortInv, LastSent, TimerInv, SettledInv
<1>4. LatencyInv'
  <2>1. link \in {"asked", "live"}
    BY <1>1 DEF RvInv, RvTypeOK, PortInv
  <2>2. last = cached /\ Len(port) = 0
    BY <1>1, <2>1 DEF RvInv, PortInv, LastSent
  <2>3. last \in Nat /\ cached \in Nat /\ startedFrom \in Nat
    BY DEF RvInv, RvTypeOK
  <2>. QED
    BY <1>1, <2>1, <2>2, <2>3 DEF RvInv, LatencyInv
<1>. QED
  BY <1>2, <1>3, <1>4 DEF RvInv

LEMMA RvStepInv == RvInv /\ [RvNext]_rvVars => RvInv'
<1>. SUFFICES ASSUME RvInv, [RvNext]_rvVars PROVE RvInv'
  OBVIOUS
<1>1. CASE Environment \/ Start
  BY <1>1, StartStep, SendLocalStep, HearStep, DenyStep DEF Environment
<1>2. CASE OtherWrites
  BY <1>2, OtherWritesStep
<1>3. CASE Callbacks
  <2>1. CASE DeliverError
    BY <2>1, OtherEndStep DEF DeliverError
  <2>2. CASE TimeOut
    <3>1. (IF seen THEN last ELSE 0) \in Versions
      BY DEF RvInv, RvTypeOK
    <3>. QED
      BY <2>2, <3>1, OtherEndStep DEF TimeOut
  <2>. QED
    BY <1>3, <2>1, <2>2, DeliverStep, FireQuietStep DEF Callbacks
<1>4. CASE Tick
  BY <1>4, TickStep
<1>5. CASE Ended \/ UNCHANGED rvVars
  <2>1. UNCHANGED <<now, server, cached, link, port, last, seen, quiet, outcome, value,
                    startedAt, startedFrom, lastEventAt>>
    BY <1>5 DEF Ended, rvVars
  <2>. QED
    BY <2>1 DEF RvInv, RvTypeOK, PortInv, LastSent, TimerInv, LatencyInv, SettledInv
<1>. QED
  BY <1>1, <1>2, <1>3, <1>4, <1>5 DEF RvNext

\* Listener, port, timer and clock of a read agree in every state, however long
\* the server takes and whoever else writes.
THEOREM ReadInvariance == RvSpec => []RvInv
BY RvInitInv, RvStepInv, PTL DEF RvSpec

\* "returns the value once it has stopped changing for [settle]": a settle time
\* has passed since the last event, which is what is returned.
THEOREM ReadsSettleWhenQuiet == RvSpec => []SettledIsQuiet
<1>1. RvInv => SettledIsQuiet
  BY DEF RvInv, SettledInv, SettledIsQuiet
<1>. QED
  BY <1>1, ReadInvariance, PTL

\* "it answers null for data that is on the server": a read does not, if the
\* server answers a new listener within the settle time.
THEOREM ReadsSettleOnTheServers ==
  ASSUME MaxLatency < Settle
  PROVE  RvSpec => []SettledIsCurrent
<1>1. RvInv => SettledIsCurrent
  <2>. SUFFICES ASSUME RvInv, outcome = "settled" PROVE value >= startedFrom
    BY DEF SettledIsCurrent
  <2>1. /\ now \in Nat /\ startedAt \in Nat /\ lastEventAt \in Nat
        /\ now = lastEventAt + Settle /\ startedAt <= lastEventAt
        /\ value >= startedFrom \/ now <= startedAt + MaxLatency
    BY DEF RvInv, RvTypeOK, SettledInv
  <2>. QED
    BY <2>1
<1>. QED
  BY <1>1, ReadInvariance, PTL
=============================================================================
