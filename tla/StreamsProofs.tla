---------------------------- MODULE StreamsProofs ----------------------------
(***************************************************************************)
(* Proofs about Streams, for every number of streams, events and snapshots:*)
(* which registrations the SDK holds, what a subscriber is told, and what  *)
(* a benchmark run measures.                                               *)
(***************************************************************************)
EXTENDS Streams, FiniteSetTheorems, TLAPS

Words == Events \cup {"empty", "reason", "refused"}
Messages == [seq : Int, payload : Words]

Typed ==
  /\ FsTypeOK
  /\ raising # NoEvent => raising.stream \in Streams /\ raising.event \in Events
  /\ inbox \in [Streams -> Seq(Messages)]
  /\ said \in [Streams -> Seq(Words)] /\ heard \in [Streams -> Seq(Words)]

\* Every registration is one that its stream will remove, and ids are not used
\* twice.
Registered ==
  /\ \A l \in g_listeners :
       /\ l.id \in 1..(g_next_listener - 1)
       /\ stream[l.stream] = "listening" /\ listenerId[l.stream] = l.id
       /\ \A k \in g_listeners : k.id = l.id => k = l
  /\ \A s \in Streams : stream[s] = "listening" =>
       \E l \in g_listeners : l.stream = s
  /\ \A s \in Streams : stream[s] = "listening" <=> port[s] = "open"

\* What a handler makes of a message, and which event may be told as which.
Told(m) == IF m.seq < 0 THEN "error" ELSE IF m.payload = "empty" THEN "absent" ELSE m.payload

Fits(s, event, h) ==
  \/ h = event
  \/ event = "big" /\ h = "error"
  \/ event = "big" /\ h = "absent" /\ Kind[s] = "document"

Raising(s) == IF raising # NoEvent /\ raising.stream = s THEN 1 ELSE 0

\* On an open port everything that was said is heard, on the way, or being
\* raised, in that order.
InOrder(s) ==
  /\ Len(said[s]) = Len(heard[s]) + Len(inbox[s]) + Raising(s)
  /\ \A j \in 1..Len(inbox[s]) : Fits(s, said[s][Len(heard[s]) + j], Told(inbox[s][j]))

Truthful(s) ==
  /\ raising # NoEvent /\ raising.stream = s =>
       said[s] # <<>> /\ said[s][Len(said[s])] = raising.event
  /\ port[s] = "open" => InOrder(s)
  /\ port[s] # "open" => inbox[s] = <<>>
  /\ stream[s] = "new" => said[s] = <<>> /\ heard[s] = <<>> /\ Raising(s) = 0
  /\ \/ said[s] = <<>> /\ heard[s] = <<"refused">> /\ stream[s] = "over"
     \/ \A i \in 1..Len(heard[s]) :
          i <= Len(said[s]) /\ Fits(s, said[s][i], heard[s][i])

FsInv == Typed /\ Registered /\ \A s \in Streams : Truthful(s)

\* Between two snapshots of a run, or with one of them under way: on its thread
\* or on the port.
Quiet == samples = 1..emitted /\ threads = {} /\ message = 0

UnderWay ==
  /\ benchPort = "open" /\ emitted # 0 /\ samples = 1..(emitted - 1)
  /\ \/ threads = {emitted} /\ message = 0
     \/ threads = {} /\ message = emitted /\ buffer[emitted] \in {"freed", "vm"}

\* Every snapshot that was measured has had its buffer freed.
TrInv ==
  /\ TrTypeOK
  /\ handle = "listed" <=> benchPort = "open"
  /\ benchPort = "closed" => emitted = Iterations
  /\ Quiet \/ UnderWay
  /\ buffer \in [1..Iterations -> {"none", "freed", "vm"}]
  /\ \A i \in samples : buffer[i] = "freed"

IInv == FsInv /\ TrInv

-----------------------------------------------------------------------------
(* The listeners of Firestore. *)

LEMMA WordsHas ==
  /\ Events \subseteq Words
  /\ "v" \in Words /\ "absent" \in Words /\ "error" \in Words /\ "empty" \in Words
  /\ "reason" \in Words /\ "refused" \in Words
  BY DEF Words, Events

\* One more element at the end, one less at the front.
LEMMA Queue ==
  ASSUME NEW S, NEW x \in Seq(S), NEW y \in S
  PROVE  /\ Append(x, y) \in Seq(S) /\ Len(x) \in Nat
         /\ Len(Append(x, y)) = Len(x) + 1 /\ Append(x, y)[Len(x) + 1] = y
         /\ Append(x, y) # <<>>
         /\ \A i \in 1..Len(x) : Append(x, y)[i] = x[i]
         /\ x # <<>> =>
              /\ Tail(x) \in Seq(S) /\ Head(x) = x[1] /\ Head(x) \in S
              /\ Len(x) > 0 /\ Len(Tail(x)) = Len(x) - 1
              /\ \A j \in 1..Len(Tail(x)) : Tail(x)[j] = x[j + 1]
  OBVIOUS

LEMMA FsInitInv == FsInit => FsInv
<1>. SUFFICES ASSUME FsInit PROVE FsInv
  OBVIOUS
<1>1. Typed
  BY DEF FsInit, FirstListener, Typed, FsTypeOK
<1>2. Registered
  BY DEF FsInit, Registered
<1>3. ASSUME NEW s \in Streams PROVE Truthful(s)
  BY DEF FsInit, Truthful, Raising
<1>. QED
  BY <1>1, <1>2, <1>3 DEF FsInv

LEMMA ListenStep ==
  ASSUME FsInv, NEW s \in Streams, Listen(s)
  PROVE  FsInv'
<1>1. /\ stream[s] = "new" /\ stream' = [stream EXCEPT ![s] = "listening"]
      /\ port' = [port EXCEPT ![s] = "open"]
      /\ listenerId' = [listenerId EXCEPT ![s] = g_next_listener]
      /\ g_listeners' = g_listeners \cup {[id |-> g_next_listener, stream |-> s]}
      /\ g_next_listener' = g_next_listener + 1
      /\ UNCHANGED <<raising, seq, inbox, said, heard>>
  BY DEF Listen, fdb_fs_listen, fdb_fs_query_listen
<1>2. Typed'
  BY <1>1 DEF FsInv, Typed, FsTypeOK
<1>3. Registered'
  <2>1. ASSUME NEW l \in g_listeners'
        PROVE  /\ l.id \in 1..(g_next_listener' - 1)
               /\ stream'[l.stream] = "listening" /\ listenerId'[l.stream] = l.id
               /\ \A k \in g_listeners' : k.id = l.id => k = l
    <3>1. CASE l \in g_listeners
      BY <1>1, <3>1 DEF FsInv, Typed, FsTypeOK, Registered
    <3>2. CASE l = [id |-> g_next_listener, stream |-> s]
      BY <1>1, <3>2 DEF FsInv, Typed, FsTypeOK, Registered
    <3>. QED
      BY <1>1, <3>1, <3>2
  <2>2. ASSUME NEW r \in Streams, stream'[r] = "listening"
        PROVE  \E l \in g_listeners' : l.stream = r
    <3>1. CASE r = s
      <4>1. [id |-> g_next_listener, stream |-> s] \in g_listeners'
        BY <1>1
      <4>. QED
        BY <3>1, <4>1
    <3>2. CASE r # s
      <4>1. stream[r] = "listening"
        BY <1>1, <2>2, <3>2 DEF FsInv, Typed, FsTypeOK
      <4>. QED
        BY <1>1, <4>1 DEF FsInv, Registered
    <3>. QED
      BY <3>1, <3>2
  <2>3. \A r \in Streams : stream'[r] = "listening" <=> port'[r] = "open"
    BY <1>1 DEF FsInv, Typed, FsTypeOK, Registered
  <2>. QED
    BY <2>1, <2>2, <2>3 DEF Registered
<1>4. ASSUME NEW r \in Streams PROVE Truthful(r)'
  <2>1. Truthful(r) /\ (r # s => port'[r] = port[r] /\ stream'[r] = stream[r])
    BY <1>1 DEF FsInv, Typed, FsTypeOK
  <2>2. CASE r = s
    BY <1>1, <2>1, <2>2 DEF Truthful, InOrder, Raising, FsInv, Typed, FsTypeOK, Registered
  <2>3. CASE r # s
    BY <1>1, <2>1, <2>3 DEF Truthful, InOrder, Raising
  <2>. QED
    BY <2>2, <2>3
<1>. QED
  BY <1>2, <1>3, <1>4 DEF FsInv

LEMMA ListenRefusedStep ==
  ASSUME FsInv, NEW s \in Streams, ListenRefused(s)
  PROVE  FsInv'
<1>1. /\ stream[s] = "new" /\ stream' = [stream EXCEPT ![s] = "over"]
      /\ port' = [port EXCEPT ![s] = "closed"]
      /\ heard' = [heard EXCEPT ![s] = Append(heard[s], "refused")]
      /\ UNCHANGED <<g_listeners, g_next_listener, raising, seq, inbox, said>>
  BY DEF ListenRefused
<1>2. PICK rc \in Int : listenerId' = [listenerId EXCEPT ![s] = rc]
  <2>1. PICK rc \in Refusals(s) : listenerId' = [listenerId EXCEPT ![s] = rc]
    BY DEF ListenRefused
  <2>2. rc \in Int
    BY <2>1 DEF Refusals
  <2>. QED
    BY <2>1, <2>2
<1>3. Typed'
  <2>1. Append(heard[s], "refused") \in Seq(Words)
    BY WordsHas, Queue DEF FsInv, Typed, FsTypeOK
  <2>2. heard' \in [Streams -> Seq(Words)]
    BY <1>1, <2>1 DEF FsInv, Typed, FsTypeOK
  <2>. QED
    BY <1>1, <1>2, <2>2 DEF FsInv, Typed, FsTypeOK
<1>4. Registered'
  BY <1>1, <1>2 DEF FsInv, Typed, FsTypeOK, Registered
<1>5. ASSUME NEW r \in Streams PROVE Truthful(r)'
  <2>1. Truthful(r)
    BY DEF FsInv
  <2>2. CASE r = s
    <3>1. said'[s] = <<>> /\ heard'[s] = <<"refused">> /\ inbox'[s] = <<>>
          /\ stream'[s] = "over" /\ port'[s] = "closed"
      BY <1>1, <2>1, <2>2 DEF Truthful, FsInv, Typed, FsTypeOK, Registered
    <3>. QED
      BY <1>1, <2>1, <2>2, <3>1 DEF Truthful, Raising
  <2>3. CASE r # s
    <3>1. /\ heard'[r] = heard[r] /\ port'[r] = port[r] /\ stream'[r] = stream[r]
          /\ inbox'[r] = inbox[r] /\ said'[r] = said[r]
      BY <1>1, <2>3 DEF FsInv, Typed, FsTypeOK
    <3>. QED
      BY <1>1, <2>1, <3>1 DEF Truthful, InOrder, Raising
  <2>. QED
    BY <2>2, <2>3
<1>. QED
  BY <1>3, <1>4, <1>5 DEF FsInv

LEMMA CancelStep ==
  ASSUME FsInv, NEW s \in Streams, Cancel(s)
  PROVE  FsInv'
<1>1. /\ stream[s] = "listening" /\ stream' = [stream EXCEPT ![s] = "over"]
      /\ port' = [port EXCEPT ![s] = "closed"]
      /\ inbox' = [inbox EXCEPT ![s] = <<>>]
      /\ UNCHANGED <<listenerId, g_next_listener, raising, seq, said, heard>>
  BY DEF Cancel
<1>2. PICK mine \in g_listeners : mine.stream = s
  BY <1>1 DEF FsInv, Registered
<1>3. listenerId[s] = mine.id /\ listenerId[s] > 0
  BY <1>2 DEF FsInv, Typed, FsTypeOK, Registered
<1>4. g_listeners' = {l \in g_listeners : l.id # mine.id}
  BY <1>3 DEF Cancel, fdb_fs_unlisten
<1>5. \A l \in g_listeners' : l \in g_listeners /\ l.stream # s
  BY <1>3, <1>4 DEF FsInv, Typed, FsTypeOK, Registered
<1>6. Typed'
  <2>1. <<>> \in Seq(Messages)
    OBVIOUS
  <2>2. inbox' \in [Streams -> Seq(Messages)]
    BY <1>1, <2>1 DEF FsInv, Typed, FsTypeOK
  <2>. QED
    BY <1>1, <1>4, <2>2 DEF FsInv, Typed, FsTypeOK
<1>7. Registered'
  <2>1. ASSUME NEW r \in Streams, stream'[r] = "listening"
        PROVE  \E l \in g_listeners' : l.stream = r
    <3>1. r # s /\ stream[r] = "listening"
      BY <1>1, <2>1 DEF FsInv, Typed, FsTypeOK
    <3>2. PICK l \in g_listeners : l.stream = r
      BY <3>1 DEF FsInv, Registered
    <3>3. l.id # mine.id
      BY <1>2, <3>1, <3>2 DEF FsInv, Registered
    <3>. QED
      BY <1>4, <3>2, <3>3
  <2>2. ASSUME NEW l \in g_listeners'
        PROVE  /\ l.id \in 1..(g_next_listener' - 1)
               /\ stream'[l.stream] = "listening" /\ listenerId'[l.stream] = l.id
               /\ \A k \in g_listeners' : k.id = l.id => k = l
    BY <1>1, <1>5 DEF FsInv, Typed, FsTypeOK, Registered
  <2>3. \A r \in Streams : stream'[r] = "listening" <=> port'[r] = "open"
    BY <1>1 DEF FsInv, Typed, FsTypeOK, Registered
  <2>. QED
    BY <2>1, <2>2, <2>3 DEF Registered
<1>8. ASSUME NEW r \in Streams PROVE Truthful(r)'
  <2>1. Truthful(r)
    BY DEF FsInv
  <2>2. CASE r = s
    BY <1>1, <2>1, <2>2 DEF Truthful, Raising, FsInv, Typed, FsTypeOK
  <2>3. CASE r # s
    <3>1. port'[r] = port[r] /\ stream'[r] = stream[r] /\ inbox'[r] = inbox[r]
      BY <1>1, <2>3 DEF FsInv, Typed, FsTypeOK
    <3>. QED
      BY <1>1, <2>1, <3>1 DEF Truthful, InOrder, Raising
  <2>. QED
    BY <2>2, <2>3
<1>. QED
  BY <1>6, <1>7, <1>8 DEF FsInv

\* A port that has a message is open, so what is heard next is what was said
\* next.
LEMMA HearStep ==
  ASSUME FsInv, NEW s \in Streams, Hear(s)
  PROVE  FsInv'
<1> DEFINE q == inbox[s]
           h == Told(Head(q))
<1>1. /\ q # <<>> /\ heard' = [heard EXCEPT ![s] = Append(heard[s], h)]
      /\ inbox' = [inbox EXCEPT ![s] = Tail(q)]
      /\ UNCHANGED <<stream, port, listenerId, g_listeners, g_next_listener,
                     raising, seq, said>>
  BY DEF Hear, Told
<1>2. /\ q \in Seq(Messages)
      /\ heard[s] \in Seq(Words) /\ said[s] \in Seq(Words)
  BY DEF FsInv, Typed, FsTypeOK
<1>3. Head(q) \in Messages /\ Head(q) = q[1]
      /\ Len(q) > 0
  BY <1>1, <1>2
<1>4. h \in Words
  <2>1. Head(q).payload \in Words
    BY <1>3 DEF Messages
  <2>. QED
    BY <2>1, WordsHas DEF Told
<1>5. Typed'
  <2>1. heard' \in [Streams -> Seq(Words)]
    BY <1>1, <1>2, <1>4 DEF FsInv, Typed, FsTypeOK
  <2>2. inbox' \in [Streams -> Seq(Messages)]
    BY <1>1, <1>2 DEF FsInv, Typed, FsTypeOK
  <2>. QED
    BY <1>1, <2>1, <2>2 DEF FsInv, Typed, FsTypeOK
<1>6. Registered'
  BY <1>1 DEF FsInv, Registered
<1>7. Truthful(s) /\ port[s] = "open" /\ InOrder(s) /\ stream[s] = "listening"
  BY <1>1 DEF FsInv, Truthful, Registered
<1>8. heard'[s] = Append(heard[s], h) /\ inbox'[s] = Tail(q)
  BY <1>1 DEF FsInv, Typed, FsTypeOK
<1>9. PICK a \in Nat, b \in Nat, more \in Nat :
        /\ a = Len(heard[s]) /\ b = Len(q) /\ b > 0 /\ more = Raising(s)
        /\ Len(said[s]) = a + b + more
  <2>1. Len(heard[s]) \in Nat /\ Len(q) \in Nat /\ Raising(s) \in Nat
    BY <1>2 DEF Raising
  <2>. QED
    BY <1>3, <1>7, <2>1 DEF InOrder
<1>10. /\ Len(heard'[s]) = a + 1 /\ heard'[s][a + 1] = h
       /\ \A i \in 1..a : heard'[s][i] = heard[s][i]
  BY <1>2, <1>4, <1>8, <1>9, Queue
<1>11. /\ Len(inbox'[s]) = b - 1
       /\ \A j \in 1..(b - 1) : inbox'[s][j] = q[j + 1]
  <2>1. /\ Len(Tail(q)) = Len(q) - 1
        /\ \A j \in 1..Len(Tail(q)) : Tail(q)[j] = q[j + 1]
    BY <1>1, <1>2, <1>3, Queue
  <2>. QED
    BY <1>8, <1>9, <2>1
<1>12. \A j \in 1..b : Fits(s, said[s][a + j], Told(q[j]))
  BY <1>7, <1>9 DEF InOrder
<1>13. InOrder(s)'
  <2>1. Len(said'[s]) = Len(heard'[s]) + Len(inbox'[s]) + Raising(s)'
    <3>1. a + b + more = (a + 1) + (b - 1) + more
      OBVIOUS
    <3>. QED
      BY <1>1, <1>9, <1>10, <1>11, <3>1 DEF Raising
  <2>2. ASSUME NEW j \in 1..Len(inbox'[s])
        PROVE  Fits(s, said'[s][Len(heard'[s]) + j], Told(inbox'[s][j]))
    <3>1. j \in 1..(b - 1) /\ j + 1 \in 1..b /\ Len(heard'[s]) + j = a + (j + 1)
      BY <1>10, <1>11
    <3>2. Fits(s, said[s][a + (j + 1)], Told(q[j + 1]))
      BY <1>12, <3>1
    <3>. QED
      BY <1>1, <1>11, <3>1, <3>2
  <2>. QED
    BY <2>1, <2>2 DEF InOrder, Fits
<1>14. ASSUME NEW i \in 1..Len(heard'[s])
       PROVE  i <= Len(said'[s]) /\ Fits(s, said'[s][i], heard'[s][i])
  <2>1. CASE i = a + 1
    <3>1. Fits(s, said[s][a + 1], h)
      BY <1>3, <1>9, <1>12
    <3>2. a + 1 <= a + b + more
      <4>1. b > 0
        BY <1>9
      <4>. QED
        BY <4>1
    <3>. QED
      BY <1>1, <1>9, <1>10, <2>1, <3>1, <3>2
  <2>2. CASE i # a + 1
    <3>1. i \in 1..a
      BY <1>10, <2>2
    <3>2. i <= Len(said[s]) /\ Fits(s, said[s][i], heard[s][i])
      BY <1>7, <1>9, <3>1 DEF Truthful
    <3>. QED
      BY <1>1, <1>10, <3>1, <3>2
  <2>. QED
    BY <2>1, <2>2
<1>15. ASSUME NEW r \in Streams PROVE Truthful(r)'
  <2>1. CASE r = s
    BY <1>1, <1>7, <1>13, <1>14, <2>1 DEF Truthful, Fits, Raising
  <2>2. CASE r # s
    <3>1. Truthful(r) /\ heard'[r] = heard[r] /\ inbox'[r] = inbox[r]
      BY <1>1, <2>2 DEF FsInv, Typed, FsTypeOK
    <3>. QED
      BY <1>1, <3>1 DEF Truthful, InOrder, Raising
  <2>. QED
    BY <2>1, <2>2
<1>. QED
  BY <1>5, <1>6, <1>15 DEF FsInv

\* Only a stream that is registered, and so listened to, is called back.
LEMMA RaiseStep ==
  ASSUME FsInv, NEW s \in Streams, NEW event \in Events, Raise(s, event)
  PROVE  FsInv'
<1>1. /\ raising = NoEvent /\ raising' = [stream |-> s, event |-> event]
      /\ said' = [said EXCEPT ![s] = Append(said[s], event)]
      /\ UNCHANGED <<stream, port, listenerId, g_listeners, g_next_listener, seq,
                     inbox, heard>>
  BY DEF Raise
<1>2. stream[s] = "listening" /\ port[s] = "open" /\ Truthful(s)
  BY DEF Raise, FsInv, Typed, FsTypeOK, Registered
<1>3. raising' # NoEvent /\ raising'.stream = s /\ raising'.event = event
  BY <1>1 DEF Events, NoEvent
<1>4. said[s] \in Seq(Words) /\ event \in Words
  BY WordsHas DEF FsInv, Typed, FsTypeOK
<1>5. /\ said'[s] = Append(said[s], event) /\ said'[s] \in Seq(Words)
      /\ Len(said'[s]) = Len(said[s]) + 1 /\ said'[s][Len(said[s]) + 1] = event
      /\ \A i \in 1..Len(said[s]) : said'[s][i] = said[s][i]
  BY <1>1, <1>4, Queue DEF FsInv, Typed, FsTypeOK
<1>6. Typed'
  <2>1. said' \in [Streams -> Seq(Words)]
    BY <1>1, <1>5 DEF FsInv, Typed, FsTypeOK
  <2>. QED
    BY <1>1, <1>3, <2>1 DEF FsInv, Typed, FsTypeOK
<1>7. Registered'
  BY <1>1 DEF FsInv, Registered
<1>8. PICK a \in Nat, b \in Nat :
        /\ a = Len(heard[s]) /\ b = Len(inbox[s]) /\ Len(said[s]) = a + b
  <2>1. Len(heard[s]) \in Nat /\ Len(inbox[s]) \in Nat /\ Raising(s) \in Nat
    BY DEF FsInv, Typed, FsTypeOK, Raising
  <2>2. PICK a \in Nat, b \in Nat, more \in Nat :
          /\ a = Len(heard[s]) /\ b = Len(inbox[s]) /\ more = Raising(s)
          /\ Len(said[s]) = a + b + more
    BY <1>2, <2>1 DEF Truthful, InOrder
  <2>3. more = 0 /\ a + b + 0 = a + b
    BY <1>1, <2>2 DEF Raising
  <2>. QED
    BY <2>2, <2>3
<1>9. InOrder(s)'
  <2>1. Len(said'[s]) = Len(heard'[s]) + Len(inbox'[s]) + Raising(s)'
    <3>1. a + b + 1 = Len(heard'[s]) + Len(inbox'[s]) + 1
      BY <1>1, <1>8
    <3>. QED
      BY <1>3, <1>5, <1>8, <3>1 DEF Raising
  <2>2. ASSUME NEW j \in 1..Len(inbox'[s])
        PROVE  Fits(s, said'[s][Len(heard'[s]) + j], Told(inbox'[s][j]))
    <3>1. j \in 1..b /\ a + j \in 1..(a + b)
      <4>1. j \in 1..b
        BY <1>1, <1>8
      <4>. QED
        BY <4>1
    <3>2. Fits(s, said[s][a + j], Told(inbox[s][j]))
      BY <1>2, <1>8, <3>1 DEF Truthful, InOrder
    <3>. QED
      BY <1>1, <1>5, <1>8, <3>1, <3>2
  <2>. QED
    BY <2>1, <2>2 DEF InOrder, Fits
<1>10. ASSUME NEW i \in 1..Len(heard'[s])
       PROVE  i <= Len(said'[s]) /\ Fits(s, said'[s][i], heard'[s][i])
  <2>1. i \in 1..a
    BY <1>1, <1>8
  <2>2. stream[s] # "over"
    BY <1>2
  <2>3. Fits(s, said[s][i], heard[s][i])
    BY <1>2, <1>8, <2>1, <2>2 DEF Truthful
  <2>4. i \in 1..(a + b) /\ i <= a + b + 1
    BY <2>1
  <2>. QED
    BY <1>1, <1>5, <1>8, <2>3, <2>4
<1>11. ASSUME NEW r \in Streams PROVE Truthful(r)'
  <2>1. CASE r = s
    <3>1. said'[s] # <<>>
      BY <1>4, <1>5, Queue
    <3>2. said'[s][Len(said'[s])] = event
      BY <1>5
    <3>. QED
      BY <1>1, <1>2, <1>3, <1>9, <1>10, <2>1, <3>1, <3>2 DEF Truthful, Fits, Raising
  <2>2. CASE r # s
    <3>1. Truthful(r) /\ said'[r] = said[r]
      BY <1>1, <2>2 DEF FsInv, Typed, FsTypeOK
    <3>. QED
      BY <1>1, <1>3, <2>2, <3>1 DEF Truthful, InOrder, Raising
  <2>. QED
    BY <2>1, <2>2
<1>. QED
  BY <1>6, <1>7, <1>11 DEF FsInv

\* What is posted tells the event, or that it could not be told.
PostedForms(s, event, n, m) ==
  \/ event = "error" /\ m = [seq |-> -1, payload |-> "reason"]
  \/ event = "big" /\ m = [seq |-> -2, payload |-> "empty"]
  \/ /\ event = "absent" \/ (event = "big" /\ Kind[s] = "document")
     /\ m = [seq |-> n + 1, payload |-> "empty"]
  \/ event = "v" /\ m = [seq |-> n + 1, payload |-> "v"]

LEMMA PostedIs ==
  ASSUME NEW s \in Streams, NEW event \in Events
  PROVE  \E m : m = Posted(s, event) /\ PostedForms(s, event, seq[s], m)
<1>1. Kind[s] \in {"document", "query"}
  BY FsListenersAssumption
<1>. QED
  BY <1>1 DEF PostedForms, Posted, Events

LEMMA PostedFits ==
  ASSUME NEW s \in Streams, NEW event \in Events, NEW n \in Nat, NEW m
  PROVE  PostedForms(s, event, n, m) => m \in Messages /\ Fits(s, event, Told(m))
<1>1. ASSUME event = "error", m = [seq |-> -1, payload |-> "reason"]
      PROVE  m \in Messages /\ Fits(s, event, Told(m))
  <2>1. Told(m) = "error"
    BY <1>1 DEF Told
  <2>2. "reason" \in Words /\ -1 \in Int
    BY WordsHas
  <2>3. m \in Messages
    BY <1>1, <2>2 DEF Messages
  <2>. QED
    BY <1>1, <2>1, <2>3 DEF Fits
<1>2. ASSUME event = "big", m = [seq |-> -2, payload |-> "empty"]
      PROVE  m \in Messages /\ Fits(s, event, Told(m))
  <2>1. Told(m) = "error"
    BY <1>2 DEF Told
  <2>2. "empty" \in Words /\ -2 \in Int
    BY WordsHas
  <2>3. m \in Messages
    BY <1>2, <2>2 DEF Messages
  <2>. QED
    BY <1>2, <2>1, <2>3 DEF Fits
<1>3. ASSUME event = "absent" \/ (event = "big" /\ Kind[s] = "document"),
             m = [seq |-> n + 1, payload |-> "empty"]
      PROVE  m \in Messages /\ Fits(s, event, Told(m))
  <2>1. Told(m) = "absent"
    BY <1>3 DEF Told
  <2>2. "empty" \in Words /\ n + 1 \in Int
    BY WordsHas
  <2>3. m \in Messages
    BY <1>3, <2>2 DEF Messages
  <2>. QED
    BY <1>3, <2>1, <2>3 DEF Fits
<1>4. ASSUME event = "v", m = [seq |-> n + 1, payload |-> "v"]
      PROVE  m \in Messages /\ Fits(s, event, Told(m))
  <2>1. Told(m) = "v"
    BY <1>4 DEF Told
  <2>2. "v" \in Words /\ n + 1 \in Int
    BY WordsHas
  <2>3. m \in Messages
    BY <1>4, <2>2 DEF Messages
  <2>. QED
    BY <1>4, <2>1, <2>3 DEF Fits
<1>. QED
  BY <1>1, <1>2, <1>3, <1>4 DEF PostedForms

LEMMA CallbackStep ==
  ASSUME FsInv, Callback
  PROVE  FsInv'
<1>1. PICK s \in Streams, event \in Events :
        raising # NoEvent /\ raising.stream = s /\ raising.event = event
  BY DEF Callback, FsInv, Typed, FsTypeOK
<1>2. PICK m : m = Posted(s, event) /\ PostedForms(s, event, seq[s], m)
  BY PostedIs
<1>3. m \in Messages /\ Fits(s, event, Told(m))
  BY <1>2, PostedFits DEF FsInv, Typed, FsTypeOK
<1>4. /\ raising' = NoEvent
      /\ seq' = [seq EXCEPT ![s] = IF m.seq > 0 THEN m.seq ELSE seq[s]]
      /\ inbox' = IF port[s] = "open"
                  THEN [inbox EXCEPT ![s] = Append(inbox[s], m)] ELSE inbox
      /\ UNCHANGED <<stream, port, listenerId, g_listeners, g_next_listener, said,
                     heard>>
  BY <1>1, <1>2 DEF Callback, Arrives
<1>5. Truthful(s) /\ inbox[s] \in Seq(Messages)
  BY DEF FsInv, Typed, FsTypeOK
<1>6. Typed'
  <2>1. seq' \in [Streams -> Nat]
    <3>1. m.seq \in Int
      BY <1>3 DEF Messages
    <3>. QED
      BY <1>4, <3>1 DEF FsInv, Typed, FsTypeOK
  <2>2. inbox' \in [Streams -> Seq(Messages)]
    <3>1. Append(inbox[s], m) \in Seq(Messages)
      BY <1>3, <1>5, Queue
    <3>. QED
      BY <1>4, <3>1 DEF FsInv, Typed, FsTypeOK
  <2>. QED
    BY <1>4, <2>1, <2>2 DEF FsInv, Typed, FsTypeOK
<1>7. Registered'
  BY <1>4 DEF FsInv, Registered
<1>8. ASSUME port[s] = "open" PROVE InOrder(s)'
  <2>1. /\ inbox'[s] = Append(inbox[s], m) /\ Len(inbox'[s]) = Len(inbox[s]) + 1
        /\ inbox'[s][Len(inbox[s]) + 1] = m
        /\ \A j \in 1..Len(inbox[s]) : inbox'[s][j] = inbox[s][j]
    BY <1>3, <1>4, <1>5, <1>8, Queue DEF FsInv, Typed, FsTypeOK
  <2>2. PICK a \in Nat, b \in Nat :
          a = Len(heard[s]) /\ b = Len(inbox[s]) /\ Len(said[s]) = a + b + 1
    <3>1. Len(heard[s]) \in Nat /\ Len(inbox[s]) \in Nat /\ Raising(s) = 1
      BY <1>1 DEF FsInv, Typed, FsTypeOK, Raising
    <3>2. Len(said[s]) = Len(heard[s]) + Len(inbox[s]) + 1
      BY <1>5, <1>8, <3>1 DEF Truthful, InOrder
    <3>. QED
      BY <3>1, <3>2
  <2>3. Len(said'[s]) = Len(heard'[s]) + Len(inbox'[s]) + Raising(s)'
    <3>1. a + b + 1 = a + (b + 1) + 0
      OBVIOUS
    <3>. QED
      BY <1>4, <2>1, <2>2, <3>1 DEF Raising
  <2>4. ASSUME NEW j \in 1..Len(inbox'[s])
        PROVE  Fits(s, said'[s][Len(heard'[s]) + j], Told(inbox'[s][j]))
    <3>1. CASE j = b + 1
      <4>1. said[s][a + b + 1] = event
        BY <1>1, <1>5, <2>2 DEF Truthful
      <4>2. a + (b + 1) = a + b + 1
        OBVIOUS
      <4>. QED
        BY <1>3, <1>4, <2>1, <2>2, <3>1, <4>1, <4>2
    <3>2. CASE j # b + 1
      <4>1. j \in 1..b
        BY <2>1, <2>2, <3>2
      <4>2. Fits(s, said[s][a + j], Told(inbox[s][j]))
        BY <1>5, <1>8, <2>2, <4>1 DEF Truthful, InOrder
      <4>. QED
        BY <1>4, <2>1, <2>2, <4>1, <4>2
    <3>. QED
      BY <3>1, <3>2
  <2>. QED
    BY <2>3, <2>4 DEF InOrder, Fits
<1>9. ASSUME NEW r \in Streams PROVE Truthful(r)'
  <2>1. CASE r = s
    BY <1>4, <1>5, <1>8, <2>1 DEF Truthful, Fits, Raising
  <2>2. CASE r # s
    <3>1. Truthful(r) /\ inbox'[r] = inbox[r]
      BY <1>4, <2>2 DEF FsInv, Typed, FsTypeOK
    <3>. QED
      BY <1>1, <1>4, <2>2, <3>1 DEF Truthful, InOrder, Raising
  <2>. QED
    BY <2>1, <2>2
<1>. QED
  BY <1>6, <1>7, <1>9 DEF FsInv

LEMMA FsUnchanged == ASSUME FsInv, UNCHANGED fsVars PROVE FsInv'
<1>1. Typed' /\ Registered'
  BY DEF fsVars, FsInv, Typed, FsTypeOK, Registered
<1>2. ASSUME NEW s \in Streams PROVE Truthful(s)'
  <2>1. Truthful(s)
    BY DEF FsInv
  <2>. QED
    BY <2>1 DEF fsVars, Truthful, InOrder, Raising
<1>. QED
  BY <1>1, <1>2 DEF FsInv

LEMMA FsStepInv == FsInv /\ (FsNext \/ UNCHANGED fsVars) => FsInv'
  BY ListenStep, ListenRefusedStep, CancelStep, HearStep, RaiseStep, CallbackStep,
     FsUnchanged DEF FsNext

-----------------------------------------------------------------------------
(* The benchmark. *)

LEMMA Count == \A n \in Nat : Cardinality(1..n) = n
  BY FS_Interval

LEMMA TrInitInv == TrInit => TrInv
<1>. SUFFICES ASSUME TrInit PROVE TrInv
  OBVIOUS
<1>1. copying \in BOOLEAN
  BY DEF TrInit, Copying
<1>2. TrTypeOK
  BY <1>1, TransportAssumption DEF TrInit, TrTypeOK
<1>3. Quiet
  BY DEF TrInit, Quiet
<1>4. buffer \in [1..Iterations -> {"none", "freed", "vm"}]
  BY DEF TrInit
<1>. QED
  BY <1>2, <1>3, <1>4 DEF TrInit, TrInv

LEMMA BenchListenStep == TrInv /\ BenchListen => TrInv'
  BY DEF BenchListen, TrInv, TrTypeOK, Quiet, UnderWay

\* The next snapshot is asked for when the last one has been measured.
LEMMA AwaitedIsQuiet == TrInv /\ Awaited => Quiet
<1>. SUFFICES ASSUME TrInv, Awaited, UnderWay PROVE FALSE
  BY DEF TrInv
<1>1. emitted - 1 \in Nat /\ emitted \in Nat
  BY TransportAssumption DEF TrInv, TrTypeOK, UnderWay
<1>2. Cardinality(samples) = emitted - 1
  BY <1>1, Count DEF UnderWay
<1>. QED
  BY <1>1, <1>2 DEF Awaited

LEMMA EmitStep == TrInv /\ fdb_emit_snapshot => TrInv'
<1>. SUFFICES ASSUME TrInv, fdb_emit_snapshot PROVE TrInv'
  OBVIOUS
<1>1. Quiet /\ handle = "listed"
  BY AwaitedIsQuiet DEF fdb_emit_snapshot, TrInv
<1>2. /\ emitted' = emitted + 1 /\ threads' = {emitted'}
      /\ benchPort = "open" /\ emitted < Iterations
      /\ UNCHANGED <<copying, handle, benchPort, message, samples, buffer>>
  BY <1>1 DEF fdb_emit_snapshot, PortFor, Quiet
<1>3. UnderWay'
  BY <1>1, <1>2, TransportAssumption DEF TrInv, TrTypeOK, Quiet, UnderWay
<1>4. TrTypeOK'
  BY <1>2, TransportAssumption DEF TrInv, TrTypeOK
<1>. QED
  BY <1>2, <1>3, <1>4 DEF TrInv

LEMMA PostStep == ASSUME NEW i \in 1..Iterations, TrInv, Post(i) PROVE TrInv'
<1>1. /\ UnderWay /\ i = emitted /\ benchPort = "open"
      /\ samples = 1..(emitted - 1)
  BY DEF Post, TrInv, Quiet, UnderWay
<1>2. /\ threads' = {} /\ message' = emitted
      /\ buffer' = [buffer EXCEPT ![emitted] = IF copying THEN "freed" ELSE "vm"]
      /\ UNCHANGED <<copying, handle, benchPort, emitted, samples>>
  BY <1>1 DEF Post, OwnerAfterCopy, UnderWay
<1>3. UnderWay'
  BY <1>1, <1>2 DEF TrInv, UnderWay
<1>4. TrTypeOK'
  BY <1>2 DEF TrInv, TrTypeOK
<1>. QED
  BY <1>1, <1>2, <1>3, <1>4, TransportAssumption DEF TrInv, TrTypeOK

LEMMA SampleStep == TrInv /\ Sample => TrInv'
<1>. SUFFICES ASSUME TrInv, Sample PROVE TrInv'
  OBVIOUS
<1>1. /\ UnderWay /\ message = emitted /\ threads = {}
      /\ buffer[emitted] \in {"freed", "vm"} /\ emitted \in 1..Iterations
  BY TransportAssumption DEF Sample, TrInv, TrTypeOK, Quiet, UnderWay
<1>2. /\ samples' = samples \cup {emitted} /\ message' = 0
      /\ buffer' = [buffer EXCEPT ![emitted] = "freed"]
      /\ UNCHANGED <<copying, handle, benchPort, emitted, threads>>
  BY <1>1 DEF Sample, TrInv
<1>3. samples' = 1..emitted'
  BY <1>1, <1>2, TransportAssumption DEF UnderWay
<1>4. TrTypeOK'
  BY <1>1, <1>2, TransportAssumption DEF TrInv, TrTypeOK
<1>. QED
  BY <1>1, <1>2, <1>3, <1>4 DEF TrInv, Quiet

LEMMA UnlistenStep == TrInv /\ fdb_unlisten => TrInv'
<1>. SUFFICES ASSUME TrInv, fdb_unlisten PROVE TrInv'
  OBVIOUS
<1>1. Quiet
  BY AwaitedIsQuiet DEF fdb_unlisten
<1>. QED
  BY <1>1 DEF fdb_unlisten, TrInv, TrTypeOK, Quiet

LEMMA TrStepInv == TrInv /\ (TrNext \/ UNCHANGED trVars) => TrInv'
<1>1. ASSUME TrInv, UNCHANGED trVars PROVE TrInv'
  BY <1>1 DEF trVars, TrInv, TrTypeOK, Quiet, UnderWay
<1>. QED
  BY <1>1, BenchListenStep, EmitStep, PostStep, SampleStep, UnlistenStep DEF TrNext

-----------------------------------------------------------------------------
LEMMA InitInv == Init => IInv
  BY FsInitInv, TrInitInv DEF Init, IInv

LEMMA StepInv == IInv /\ [Next]_vars => IInv'
<1>. SUFFICES ASSUME IInv, [Next]_vars PROVE IInv'
  OBVIOUS
<1>1. FsNext \/ UNCHANGED fsVars
  BY DEF Next, vars
<1>2. TrNext \/ UNCHANGED trVars
  BY DEF Next, vars
<1>. QED
  BY <1>1, <1>2, FsStepInv, TrStepInv DEF IInv

\* The inductive invariant of the streams and of the benchmark: registrations and
\* streams correspond, what was said is heard, on its way or being raised, and
\* one snapshot of a run is under way at a time.
THEOREM Invariance == Spec => []IInv
<1>. QED
  BY InitInv, StepInv, PTL DEF Spec

\* The SDK holds one listener for each stream that is listened to, under the id
\* that the stream removes it by, whatever was refused, canceled or is being
\* raised meanwhile (fdb_fs_listen, fdb_fs_query_listen, fdb_fs_unlisten).
THEOREM RegistrationsMatchStreams == Spec => []SdkHoldsListenedStreams
<1>1. IInv => SdkHoldsListenedStreams
  BY DEF IInv, FsInv, Registered, Typed, FsTypeOK, SdkHoldsListenedStreams
<1>. QED
  BY <1>1, Invariance, PTL

\* What the app is given is what the SDK raised, in its order: a callback that was
\* begun before a cancel is lost and never takes the place of another event.
THEOREM StreamsTellTheTruth == Spec => []StreamTellsTheTruth
<1>1. ASSUME IInv, NEW s \in Streams, NEW i \in 1..Len(heard[s])
      PROVE  \/ heard[s][i] = "refused" /\ said[s] = <<>>
             \/ i <= Len(said[s]) /\ Fits(s, said[s][i], heard[s][i])
  <2>1. Truthful(s)
    BY <1>1 DEF IInv, FsInv
  <2>2. CASE said[s] = <<>> /\ heard[s] = <<"refused">>
    BY <1>1, <2>2
  <2>. QED
    BY <2>1, <2>2 DEF Truthful
<1>2. IInv => StreamTellsTheTruth
  BY <1>1 DEF StreamTellsTheTruth, Fits
<1>. QED
  BY <1>2, Invariance, PTL

\* However many snapshots a run asks for, it measures the delivery of one at a
\* time, and leaves no buffer behind (benchSnapshot, fdb_emit_snapshot).
THEOREM MeasuresOneDelivery == Spec => []MeasuresDelivery
<1>1. ASSUME TrInv PROVE MeasuresDelivery
  <2>1. \E x : threads \cup ({message} \ {0}) \subseteq {x}
    BY <1>1 DEF TrInv, Quiet, UnderWay
  <2>2. Cardinality(threads \cup ({message} \ {0})) <= 1
    <3>1. PICK x : threads \cup ({message} \ {0}) \subseteq {x}
      BY <2>1
    <3>2. Cardinality({x}) = 1 /\ IsFiniteSet({x}) /\ Cardinality({}) = 0
      BY FS_Singleton, FS_EmptySet
    <3>3. \/ threads \cup ({message} \ {0}) = {}
          \/ threads \cup ({message} \ {0}) = {x}
      BY <3>1
    <3>. QED
      BY <3>2, <3>3
  <2>3. benchPort = "closed" => /\ samples = 1..Iterations
                                /\ \A i \in 1..Iterations : buffer[i] = "freed"
    BY <1>1 DEF TrInv, Quiet, UnderWay
  <2>. QED
    BY <2>2, <2>3 DEF MeasuresDelivery
<1>. QED
  BY <1>1, Invariance, PTL DEF IInv
=============================================================================
