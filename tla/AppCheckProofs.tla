--------------------------- MODULE AppCheckProofs ---------------------------
(***************************************************************************)
(* Proofs about AppCheck, for every number of threads, requests, installs, *)
(* isolates and streams: the provider's registry and its lock, and the one *)
(* token listener with the pointer the SDK has to it.                      *)
(*                                                                         *)
(* Each half has an invariant of its own, kept by the steps that change    *)
(* its variables; a step of the other half leaves it as it is.             *)
(***************************************************************************)
EXTENDS AppCheck, TLAPS

\* GetToken is the only place that keeps g_mutex over a step, and it does not
\* call the SDK there.
LockIsShort == \A t \in lock : t \in Threads /\ pc[t] = "registering"

\* A thread posts only to a port it has read.
PostsSomewhere == \A t \in Threads : pc[t] = "posting" => asking[t].port # 0

RegistryInv ==
  AcTypeOK /\ LockIsShort /\ PostsSomewhere /\ SomeoneWillAnswer

\* The SDK asks this provider only once the factory is installed, and the factory
\* is installed only once the port is known.
Wired ==
  /\ installed \/ pc[Isolate] = "installing" => g_provider_port # 0
  /\ pc[Isolate] = "wiring" => providerPort # 0
  /\ \A t \in Threads : pc[t] \in {"entering", "registering"} => g_provider_port # 0

ProviderInv == RegistryInv /\ Wired

\* A listener that was taken out, for good: a stream is listened to once.
Out(l) == l \in Streams /\ l # g_listener /\ sub[l] # "new"

\* A call past the lock has the listener it was entered with.  One that is being
\* added is registered, unless another stream's cancel took it; one that is being
\* removed was taken out, and the SDK lets go of it before it is deleted.
Calling(i) ==
  LET l == busy[i].listener IN
  /\ Calls(i, "adding") =>
       /\ l \in Streams /\ home[l] = i /\ sub[l] = "listening"
       /\ l \in robbed \/ g_listener = l
  /\ Calls(i, "removing") \/ Calls(i, "deleting") => Out(l)
  /\ Calls(i, "deleting") /\ l \notin robbed => l \notin sdkList

PointersInv ==
  /\ g_listener \in Streams => sub[g_listener] # "new"
  /\ \A i \in Isolates : Calling(i)
  /\ \A l \in deleted : Out(l) /\ (l \notin robbed => l \notin sdkList)

ListenersInv == TsTypeOK /\ PointersInv /\ StreamIsFedUntilRobbed

IInv == ProviderInv /\ ListenersInv

USE AppCheckProviderAssumption, TokenStreamAssumption, AppCheckAssumption

-----------------------------------------------------------------------------
(* The provider. *)

\* What a queue holds after one more request was posted, or one was taken.
LEMMA QueueElements ==
  ASSUME NEW q \in Seq(Nat), NEW x \in Nat
  PROVE  /\ Append(q, x) \in Seq(Nat)
         /\ x \in {Append(q, x)[i] : i \in DOMAIN Append(q, x)}
         /\ \A i \in DOMAIN q :
              q[i] \in {Append(q, x)[j] : j \in DOMAIN Append(q, x)}
         /\ q # <<>> =>
              /\ Head(q) \in Nat /\ Tail(q) \in Seq(Nat)
              /\ \A i \in DOMAIN q : \/ q[i] = Head(q)
                                     \/ q[i] \in {Tail(q)[j] : j \in DOMAIN Tail(q)}
<1>1. /\ Append(q, x) \in Seq(Nat) /\ Append(q, x)[Len(q) + 1] = x
      /\ Len(q) + 1 \in DOMAIN Append(q, x)
      /\ \A i \in DOMAIN q : i \in DOMAIN Append(q, x) /\ Append(q, x)[i] = q[i]
  OBVIOUS
<1>2. ASSUME q # <<>>, NEW i \in DOMAIN q
      PROVE  \/ q[i] = Head(q)
             \/ q[i] \in {Tail(q)[j] : j \in DOMAIN Tail(q)}
  <2>1. CASE i = 1
    BY <2>1
  <2>2. CASE i # 1
    <3>1. i - 1 \in DOMAIN Tail(q) /\ Tail(q)[i - 1] = q[i]
      BY <1>2, <2>2
    <3>. QED
      BY <3>1
  <2>. QED
    BY <2>1, <2>2
<1>3. q # <<>> => Head(q) \in Nat /\ Tail(q) \in Seq(Nat)
  OBVIOUS
<1>. QED
  BY <1>1, <1>2, <1>3

\* A thread changes its place and what it asks; nothing else of the provider.
LEMMA MoveStep ==
  ASSUME RegistryInv, NEW t \in Threads, NEW to \in Places,
         pc' = [pc EXCEPT ![t] = to], to # "posting", pc[t] # "registering",
         pc[t] # "posting",
         UNCHANGED <<lock, g_next_request, g_pending, asking, dropped, supplying,
                     queue, providerPort>>,
         g_provider_port' \in 0..MaxInstalls
  PROVE  RegistryInv'
<1>1. AcTypeOK'
  BY DEF RegistryInv, AcTypeOK
<1>2. LockIsShort' /\ PostsSomewhere'
  BY DEF RegistryInv, AcTypeOK, LockIsShort, PostsSomewhere
<1>3. SomeoneWillAnswer'
  BY DEF RegistryInv, AcTypeOK, SomeoneWillAnswer, Queued
<1>. QED
  BY <1>1, <1>2, <1>3 DEF RegistryInv

LEMMA LockRegistryStep ==
  ASSUME RegistryInv, NEW t \in Threads, LockRegistry(t)
  PROVE  RegistryInv'
<1>1. AcTypeOK'
  BY DEF LockRegistry, Goto, Places, RegistryInv, AcTypeOK
<1>2. LockIsShort' /\ PostsSomewhere'
  BY DEF LockRegistry, Goto, RegistryInv, AcTypeOK, LockIsShort, PostsSomewhere
<1>3. SomeoneWillAnswer'
  BY DEF LockRegistry, Goto, RegistryInv, AcTypeOK, SomeoneWillAnswer, Queued
<1>. QED
  BY <1>1, <1>2, <1>3 DEF RegistryInv

LEMMA RegisterRequestStep ==
  ASSUME RegistryInv, NEW t \in Threads, RegisterRequest(t)
  PROVE  RegistryInv'
<1>1. AcTypeOK'
  BY DEF RegisterRequest, Goto, Home, Places, RegistryInv, AcTypeOK
<1>2. LockIsShort' /\ PostsSomewhere'
  BY DEF RegisterRequest, Goto, Home, RegistryInv, AcTypeOK, LockIsShort,
         PostsSomewhere
<1>3. ASSUME NEW r \in g_pending'
      PROVE  \/ r \in supplying' \cup dropped'
             \/ providerPort' # 0 /\ r \in Queued(providerPort)'
             \/ \E u \in Threads : pc'[u] = "posting" /\ asking'[u].id = r
  <2>1. CASE r \in g_pending
    <3>1. \/ r \in supplying \cup dropped
          \/ providerPort # 0 /\ r \in Queued(providerPort)
          \/ \E u \in Threads : pc[u] = "posting" /\ asking[u].id = r
      BY <2>1 DEF RegistryInv, SomeoneWillAnswer
    <3>2. UNCHANGED <<supplying, dropped, providerPort, queue>>
      BY DEF RegisterRequest
    <3>3. ASSUME NEW u \in Threads, pc[u] = "posting", asking[u].id = r
          PROVE  pc'[u] = "posting" /\ asking'[u].id = r
      BY <3>3 DEF RegisterRequest, Goto, RegistryInv, AcTypeOK
    <3>. QED
      BY <3>1, <3>2, <3>3 DEF Queued
  <2>2. CASE r \notin g_pending
    <3>1. r = g_next_request /\ g_provider_port # 0
      BY <1>3, <2>2 DEF RegisterRequest
    <3>2. pc'[t] = "posting" /\ asking'[t].id = r
      BY <3>1 DEF RegisterRequest, Goto, RegistryInv, AcTypeOK
    <3>. QED
      BY <3>2
  <2>. QED
    BY <2>1, <2>2
<1>. QED
  BY <1>1, <1>2, <1>3 DEF RegistryInv, SomeoneWillAnswer

\* The id goes to the port that is open, or with the one that was closed.
LEMMA PostRequestStep ==
  ASSUME RegistryInv, NEW t \in Threads, PostRequest(t)
  PROVE  RegistryInv'
<1> DEFINE id == asking[t].id
           p  == asking[t].port
<1>1. pc[t] = "posting" /\ p \in Ports /\ id \in Nat /\ queue[p] \in Seq(Nat)
  BY DEF PostRequest, Goto, RegistryInv, AcTypeOK, PostsSomewhere, Ports
<1>2. /\ Append(queue[p], id) \in Seq(Nat)
      /\ id \in {Append(queue[p], id)[i] : i \in DOMAIN Append(queue[p], id)}
      /\ \A i \in DOMAIN queue[p] : queue[p][i] \in
           {Append(queue[p], id)[j] : j \in DOMAIN Append(queue[p], id)}
  BY <1>1, QueueElements
<1>3. AcTypeOK'
  <2>1. queue' \in [Ports -> Seq(Nat)]
    BY <1>1, <1>2 DEF PostRequest, RegistryInv, AcTypeOK
  <2>2. pc' \in [Threads -> Places]
    BY DEF PostRequest, Goto, Home, Places, RegistryInv, AcTypeOK
  <2>. QED
    BY <2>1, <2>2 DEF PostRequest, RegistryInv, AcTypeOK
<1>4. LockIsShort' /\ PostsSomewhere'
  BY <1>1 DEF PostRequest, Goto, Home, RegistryInv, AcTypeOK, LockIsShort,
              PostsSomewhere
<1>5. ASSUME NEW r \in g_pending'
      PROVE  \/ r \in supplying' \cup dropped'
             \/ providerPort' # 0 /\ r \in Queued(providerPort)'
             \/ \E u \in Threads : pc'[u] = "posting" /\ asking'[u].id = r
  <2>1. \/ r \in supplying \cup dropped
        \/ providerPort # 0 /\ r \in Queued(providerPort)
        \/ \E u \in Threads : pc[u] = "posting" /\ asking[u].id = r
    BY <1>5 DEF PostRequest, RegistryInv, SomeoneWillAnswer
  <2>2. CASE p = providerPort
    <3>1. queue'[providerPort] = Append(queue[p], id)
      BY <1>1, <2>2 DEF PostRequest, RegistryInv, AcTypeOK
    <3>2. providerPort' = providerPort /\ providerPort # 0
      BY <1>1, <2>2 DEF PostRequest, Ports
    <3>3. Queued(providerPort)' =
            {Append(queue[p], id)[j] : j \in DOMAIN Append(queue[p], id)}
      BY <3>1, <3>2 DEF Queued
    <3>4. id \in Queued(providerPort)'
          /\ Queued(providerPort) \subseteq Queued(providerPort)'
      BY <1>2, <2>2, <3>3 DEF Queued
    <3>5. ASSUME NEW u \in Threads, pc[u] = "posting", asking[u].id = r, u # t
          PROVE  pc'[u] = "posting" /\ asking'[u].id = r
      BY <3>5 DEF PostRequest, Goto, RegistryInv, AcTypeOK
    <3>. QED
      BY <2>1, <3>2, <3>4, <3>5 DEF PostRequest
  <2>3. CASE p # providerPort
    <3>1. dropped' = dropped \cup {id} /\ queue' = queue
      BY <2>3 DEF PostRequest
    <3>2. ASSUME NEW u \in Threads, pc[u] = "posting", asking[u].id = r, u # t
          PROVE  pc'[u] = "posting" /\ asking'[u].id = r
      BY <3>2 DEF PostRequest, Goto, RegistryInv, AcTypeOK
    <3>. QED
      BY <2>1, <3>1, <3>2 DEF PostRequest, Queued
  <2>. QED
    BY <2>2, <2>3
<1>. QED
  BY <1>3, <1>4, <1>5 DEF RegistryInv, SomeoneWillAnswer

LEMMA StartSupplyStep ==
  ASSUME RegistryInv, NEW p \in Ports, StartSupply(p)
  PROVE  RegistryInv'
<1>1. queue[p] \in Seq(Nat) /\ queue[p] # <<>> /\ p = providerPort
  BY DEF StartSupply, RegistryInv, AcTypeOK
<1>2. /\ Tail(queue[p]) \in Seq(Nat)
      /\ \A i \in DOMAIN queue[p] :
           \/ queue[p][i] = Head(queue[p])
           \/ queue[p][i] \in {Tail(queue[p])[j] : j \in DOMAIN Tail(queue[p])}
  BY <1>1, QueueElements
<1>3. AcTypeOK'
  BY <1>1, <1>2 DEF StartSupply, Goto, Places, RegistryInv, AcTypeOK
<1>4. LockIsShort' /\ PostsSomewhere'
  BY DEF StartSupply, Goto, RegistryInv, AcTypeOK, LockIsShort, PostsSomewhere
<1>5. queue'[p] = Tail(queue[p])
  BY DEF StartSupply, RegistryInv, AcTypeOK
<1>6. SomeoneWillAnswer'
  BY <1>1, <1>2, <1>5
     DEF StartSupply, Goto, RegistryInv, AcTypeOK, SomeoneWillAnswer, Queued
<1>. QED
  BY <1>3, <1>4, <1>6 DEF RegistryInv

LEMMA SupplyTokenStep ==
  ASSUME RegistryInv, NEW r \in Requests, NEW result, SupplyToken(r, result)
  PROVE  RegistryInv'
<1>1. AcTypeOK'
  BY DEF SupplyToken, Goto, Places, RegistryInv, AcTypeOK
<1>2. LockIsShort' /\ PostsSomewhere'
  BY DEF SupplyToken, Goto, RegistryInv, AcTypeOK, LockIsShort, PostsSomewhere
<1>3. SomeoneWillAnswer'
  BY DEF SupplyToken, Goto, RegistryInv, AcTypeOK, SomeoneWillAnswer, Queued
<1>. QED
  BY <1>1, <1>2, <1>3 DEF RegistryInv

\* What was on the ports, and with an exit what `supply` had, is dropped.
LEMMA PortsCloseStep ==
  ASSUME RegistryInv, NEW to \in {"idle", "wiring"},
         pc[Isolate] = "idle", pc' = [pc EXCEPT ![Isolate] = to],
         providerPort' \in 0..MaxInstalls, queue' = [p \in Ports |-> <<>>],
         dropped' \cup supplying' =
           dropped \cup supplying \cup UNION {Queued(p) : p \in Ports},
         UNCHANGED <<lock, g_next_request, g_pending, g_provider_port, asking>>
  PROVE  RegistryInv'
<1>1. AcTypeOK'
  <2>1. <<>> \in Seq(Nat)
    OBVIOUS
  <2>2. queue' \in [Ports -> Seq(Nat)]
    BY <2>1
  <2>3. to \in Places
    BY DEF Places
  <2>. QED
    BY <2>2, <2>3 DEF RegistryInv, AcTypeOK
<1>2. LockIsShort' /\ PostsSomewhere'
  BY DEF RegistryInv, AcTypeOK, LockIsShort, PostsSomewhere
<1>3. ASSUME NEW r \in g_pending
      PROVE  \/ r \in supplying' \cup dropped'
             \/ \E u \in Threads : pc'[u] = "posting" /\ asking'[u].id = r
  <2>1. providerPort # 0 /\ r \in Queued(providerPort) =>
          r \in supplying' \cup dropped'
    BY DEF RegistryInv, AcTypeOK, Ports
  <2>2. ASSUME NEW u \in Threads, pc[u] = "posting", asking[u].id = r
        PROVE  pc'[u] = "posting" /\ asking'[u].id = r
    BY <2>2 DEF RegistryInv, AcTypeOK
  <2>3. \/ r \in supplying \cup dropped
        \/ providerPort # 0 /\ r \in Queued(providerPort)
        \/ \E u \in Threads : pc[u] = "posting" /\ asking[u].id = r
    BY <1>3 DEF RegistryInv, SomeoneWillAnswer
  <2>. QED
    BY <2>1, <2>2, <2>3
<1>. QED
  BY <1>1, <1>2, <1>3 DEF RegistryInv, SomeoneWillAnswer

LEMMA RegistryStepInv ==
  ASSUME RegistryInv,
         SdkThreadNext \/ IsolateNext \/ ProviderExits \/ UNCHANGED acVars
  PROVE  RegistryInv'
<1>1. Isolate \in Threads /\ SdkThreads \subseteq Threads
  BY DEF Threads
<1>2. ASSUME NEW t \in Threads, AskProvider(t) PROVE RegistryInv'
  BY <1>2, MoveStep DEF AskProvider, Goto, Places, RegistryInv, AcTypeOK
<1>3. ASSUME NEW t \in Threads, GetToken(t) PROVE RegistryInv'
  BY <1>3, LockRegistryStep, RegisterRequestStep, PostRequestStep DEF GetToken
<1>4. ASSUME GetAppCheckToken \/ SdkReturns PROVE RegistryInv'
  BY <1>1, <1>4, MoveStep
     DEF GetAppCheckToken, SdkReturns, Goto, Places, RegistryInv, AcTypeOK
<1>5. CASE OpenPort
  <2>1. g_provider_port + 1 \in 0..MaxInstalls
    BY <1>5 DEF OpenPort, RegistryInv, AcTypeOK
  <2>. QED
    BY <1>5, <2>1, PortsCloseStep DEF OpenPort, Goto
<1>6. CASE WirePort
  <2>1. UNCHANGED <<g_next_request, g_pending, asking, dropped, supplying, queue,
                    providerPort, lock>>
    BY <1>6 DEF WirePort
  <2>. QED
    BY <1>1, <1>6, <2>1, MoveStep
       DEF WirePort, Goto, Places, RegistryInv, AcTypeOK
<1>7. CASE InstallFactory
  BY <1>1, <1>7, MoveStep DEF InstallFactory, Goto, Places, RegistryInv, AcTypeOK
<1>8. ASSUME NEW p \in Ports, StartSupply(p) PROVE RegistryInv'
  BY <1>8, StartSupplyStep
<1>9. ASSUME NEW r \in Requests, Answer(r) PROVE RegistryInv'
  BY <1>9, SupplyTokenStep DEF Answer, SupplyReturns, SupplyThrows
<1>10. CASE ProviderExits
  BY <1>10, PortsCloseStep DEF ProviderExits, Goto
<1>11. CASE UseDebugProvider
  BY <1>1, <1>11, MoveStep DEF UseDebugProvider, Goto, Places, RegistryInv, AcTypeOK
<1>12. CASE UNCHANGED acVars
  BY <1>12 DEF acVars, RegistryInv, AcTypeOK, LockIsShort, PostsSomewhere,
               SomeoneWillAnswer, Queued
<1>. QED
  BY <1>1, <1>2, <1>3, <1>4, <1>5, <1>6, <1>7, <1>8, <1>9, <1>10, <1>11, <1>12
     DEF SdkThreadNext, IsolateNext, Install

\* Only useCustomAppCheckProvider moves what the wiring depends on; a thread is
\* let into GetToken by the factory.
LEMMA WiredStep ==
  ASSUME RegistryInv, Wired,
         SdkThreadNext \/ IsolateNext \/ ProviderExits \/ UNCHANGED acVars
  PROVE  Wired'
<1>1. Isolate \in Threads /\ SdkThreads \subseteq Threads /\ Isolate \notin SdkThreads
  BY DEF Threads
<1>2. pc \in [Threads -> Places]
  BY DEF RegistryInv, AcTypeOK
<1>3. ASSUME NEW t \in Threads, AskProvider(t) \/ GetToken(t) PROVE Wired'
  BY <1>1, <1>2, <1>3 DEF AskProvider, GetToken, LockRegistry, RegisterRequest,
     PostRequest, Goto, Home, Wired
<1>4. ASSUME GetAppCheckToken \/ SdkReturns PROVE Wired'
  BY <1>1, <1>2, <1>4 DEF GetAppCheckToken, SdkReturns, Goto, Wired
<1>5. CASE OpenPort
  <2>1. providerPort' # 0
    BY <1>5 DEF OpenPort, RegistryInv, AcTypeOK
  <2>. QED
    BY <1>1, <1>2, <1>5, <2>1 DEF OpenPort, Goto, Wired
<1>6. CASE WirePort \/ InstallFactory
  BY <1>1, <1>2, <1>6 DEF WirePort, InstallFactory, Goto, Wired
<1>7. ASSUME NEW p \in Ports, StartSupply(p) PROVE Wired'
  BY <1>1, <1>2, <1>7 DEF StartSupply, Goto, Wired
<1>8. ASSUME NEW r \in Requests, Answer(r) PROVE Wired'
  BY <1>1, <1>2, <1>8 DEF Answer, SupplyReturns, SupplyThrows, SupplyToken, Goto, Wired
<1>9. CASE ProviderExits
  BY <1>1, <1>2, <1>9 DEF ProviderExits, Goto, Wired
<1>10. CASE UseDebugProvider
  BY <1>1, <1>2, <1>10 DEF UseDebugProvider, Goto, Wired
<1>11. CASE UNCHANGED acVars
  BY <1>11 DEF acVars, Wired
<1>. QED
  BY <1>1, <1>3, <1>4, <1>5, <1>6, <1>7, <1>8, <1>9, <1>10, <1>11
     DEF SdkThreadNext, IsolateNext, Install

LEMMA ProviderStepInv ==
  ASSUME ProviderInv,
         SdkThreadNext \/ IsolateNext \/ ProviderExits \/ UNCHANGED acVars
  PROVE  ProviderInv'
  BY RegistryStepInv, WiredStep DEF ProviderInv

-----------------------------------------------------------------------------
(* The listeners. *)

\* What the steps use of the invariant.
LEMMA InvParts ==
  ASSUME ListenersInv
  PROVE  /\ TsTypeOK
         /\ g_listener \in Streams => sub[g_listener] # "new"
         /\ \A j \in Isolates : Calling(j)
         /\ \A l \in deleted : Out(l) /\ (l \notin robbed => l \notin sdkList)
         /\ StreamIsFedUntilRobbed
  BY DEF ListenersInv, PointersInv

\* A stream that was not listened to becomes the registered one; when there is
\* one already, it is refused.
LEMMA AddListenerStep ==
  ASSUME ListenersInv, NEW i \in Isolates, NEW s \in Streams, AddListener(i, s)
  PROVE  ListenersInv'
<1>1. /\ sub[s] = "new" /\ home[s] = i /\ busy[i] = NotBusy
      /\ UNCHANGED <<sdkList, deleted, home, robbed>>
  BY DEF AddListener, Enter
<1>2. \/ /\ g_listener = NoStream /\ g_listener' = s
         /\ sub' = [sub EXCEPT ![s] = "listening"]
         /\ busy' = [busy EXCEPT ![i] = [call |-> "adding", listener |-> s]]
      \/ /\ g_listener # NoStream /\ sub' = [sub EXCEPT ![s] = "refused"]
         /\ UNCHANGED <<g_listener, busy>>
  BY DEF AddListener, Enter
<1>3. TsTypeOK'
  <2>1. robbed' \subseteq Streams /\ home' \in [Streams -> Isolates]
    BY <1>1, InvParts DEF TsTypeOK
  <2>2. /\ g_listener' \in Streams \cup {NoStream}
        /\ sub' \in [Streams -> Subscriptions]
    BY <1>2, InvParts DEF TsTypeOK, Subscriptions
  <2>3. busy' \in [Isolates -> [call : {"none", "adding", "removing", "deleting"},
                               listener : Streams \cup {NoStream}]]
    BY <1>2, InvParts DEF TsTypeOK
  <2>. QED
    BY <2>1, <2>2, <2>3 DEF TsTypeOK
<1>4. ASSUME NEW l, Out(l) PROVE Out(l)'
  BY <1>1, <1>2, <1>4, InvParts DEF Out, TsTypeOK
<1>5. g_listener' \in Streams => sub'[g_listener'] # "new"
  BY <1>2, InvParts DEF TsTypeOK
<1>6. ASSUME NEW j \in Isolates PROVE Calling(j)'
  <2>1. Calling(j)
    BY InvParts
  <2>2. CASE busy'[j] = busy[j]
    <3>1. CASE Calls(j, "adding")
      <4>1. busy[j].listener # s /\ busy[j].listener \in Streams
            /\ sub[busy[j].listener] = "listening"
        BY <1>1, <2>1, <3>1 DEF Calling
      <4>2. sub'[busy[j].listener] = "listening"
        BY <1>2, <4>1, InvParts DEF TsTypeOK
      <4>3. g_listener = busy[j].listener => g_listener' = g_listener
        BY <1>2, <4>1
      <4>. QED
        BY <1>1, <2>1, <2>2, <3>1, <4>1, <4>2, <4>3 DEF Calling, Calls
    <3>2. CASE ~Calls(j, "adding")
      BY <1>1, <1>4, <2>1, <2>2, <3>2 DEF Calling, Calls
    <3>. QED
      BY <3>1, <3>2
  <2>3. CASE j = i /\ g_listener' = s /\ sub' = [sub EXCEPT ![s] = "listening"]
             /\ busy'[j] = [call |-> "adding", listener |-> s]
    <3>1. sub'[s] = "listening"
      BY <2>3, InvParts DEF TsTypeOK
    <3>. QED
      BY <1>1, <2>3, <3>1 DEF Calling, Calls
  <2>. QED
    BY <1>2, <2>2, <2>3, InvParts DEF TsTypeOK
<1>7. \A l \in deleted' : Out(l)' /\ (l \notin robbed' => l \notin sdkList')
  BY <1>1, <1>4, InvParts
<1>8. ASSUME NEW r \in Streams \ robbed', sub'[r] = "listening"
      PROVE  /\ g_listener' = r
             /\ r \in sdkList' \/ \E j \in Isolates :
                  busy'[j] = [call |-> "adding", listener |-> r]
  <2>1. CASE r # s
    <3>1. sub[r] = "listening" /\ r \in Streams \ robbed
      BY <1>1, <1>2, <1>8, <2>1, InvParts DEF TsTypeOK
    <3>2. g_listener = r /\ (r \in sdkList \/ \E j \in Isolates :
            busy[j] = [call |-> "adding", listener |-> r])
      BY <3>1, InvParts DEF StreamIsFedUntilRobbed
    <3>. QED
      BY <1>1, <1>2, <3>2
  <2>2. CASE r = s
    <3>1. g_listener' = s
          /\ busy' = [busy EXCEPT ![i] = [call |-> "adding", listener |-> s]]
      BY <1>2, <1>8, <2>2, InvParts DEF TsTypeOK
    <3>2. busy'[i] = [call |-> "adding", listener |-> s]
      BY <3>1, InvParts DEF TsTypeOK
    <3>. QED
      BY <2>2, <3>1, <3>2
  <2>. QED
    BY <2>1, <2>2
<1>. QED
  BY <1>3, <1>5, <1>6, <1>7, <1>8
     DEF ListenersInv, PointersInv, StreamIsFedUntilRobbed

\* The SDK is given a listener that is registered, or was taken by another
\* stream's cancel in the meantime.
LEMMA AddToSdkStep ==
  ASSUME ListenersInv, NEW i \in Isolates, AddToSdk(i)
  PROVE  ListenersInv'
<1> DEFINE l == busy[i].listener
<1>1. /\ Calls(i, "adding") /\ sdkList' = sdkList \cup {l}
      /\ busy' = [busy EXCEPT ![i] = NotBusy]
      /\ UNCHANGED <<g_listener, deleted, home, sub, robbed>>
  BY DEF AddToSdk, Finish
<1>2. TsTypeOK'
  BY <1>1, InvParts DEF TsTypeOK, NotBusy
<1>3. l \in Streams /\ (l \in robbed \/ g_listener = l)
  BY <1>1, InvParts DEF Calling
<1>4. ASSUME NEW d, Out(d) PROVE Out(d)' /\ (d = l => d \in robbed)
  BY <1>1, <1>3, <1>4 DEF Out
<1>5. ASSUME NEW j \in Isolates PROVE Calling(j)'
  <2>1. CASE j = i
    BY <1>1, <2>1, InvParts DEF TsTypeOK, NotBusy, Calling, Calls
  <2>2. CASE j # i
    <3>1. busy'[j] = busy[j]
      BY <1>1, <2>2, InvParts DEF TsTypeOK
    <3>. QED
      BY <1>1, <1>4, <3>1, InvParts DEF Calling, Calls
  <2>. QED
    BY <2>1, <2>2
<1>6. \A d \in deleted' : Out(d)' /\ (d \notin robbed' => d \notin sdkList')
  BY <1>1, <1>4, InvParts
<1>7. ASSUME NEW s \in Streams \ robbed', sub'[s] = "listening"
      PROVE  /\ g_listener' = s
             /\ s \in sdkList' \/ \E j \in Isolates :
                  busy'[j] = [call |-> "adding", listener |-> s]
  <2>1. /\ g_listener = s
        /\ s \in sdkList \/ \E j \in Isolates :
             busy[j] = [call |-> "adding", listener |-> s]
    BY <1>1, <1>7, InvParts DEF StreamIsFedUntilRobbed
  <2>2. ASSUME NEW j \in Isolates, busy[j] = [call |-> "adding", listener |-> s]
        PROVE  s \in sdkList' \/ busy'[j] = [call |-> "adding", listener |-> s]
    BY <1>1, <2>2, InvParts DEF TsTypeOK
  <2>. QED
    BY <1>1, <2>1, <2>2
<1>. QED
  BY <1>1, <1>2, <1>5, <1>6, <1>7, InvParts
     DEF ListenersInv, PointersInv, StreamIsFedUntilRobbed

\* The listener that is taken out is the cancelled stream's own, or one that is
\* robbed by it, or that of a stream which is over.
LEMMA RemoveListenerStep ==
  ASSUME ListenersInv, NEW i \in Isolates, NEW s \in Streams, RemoveListener(i, s)
  PROVE  ListenersInv'
<1>1. /\ home[s] = i /\ Open(s) /\ sub' = [sub EXCEPT ![s] = "over"]
      /\ busy[i] = NotBusy /\ g_listener' = NoStream
      /\ robbed' = robbed \cup
           ({g_listener} \cap {r \in Streams \ {s} : sub[r] = "listening"})
      /\ UNCHANGED <<sdkList, deleted, home>>
  BY DEF RemoveListener, Enter
<1>2. \/ g_listener = NoStream /\ busy' = busy
      \/ /\ g_listener # NoStream
         /\ busy' = [busy EXCEPT ![i] = [call |-> "removing",
                                         listener |-> g_listener]]
  BY DEF RemoveListener, Enter
<1>3. TsTypeOK'
  <2>1. sub' \in [Streams -> Subscriptions]
    BY <1>1, InvParts DEF TsTypeOK, Subscriptions
  <2>2. busy' \in [Isolates -> [call : {"none", "adding", "removing", "deleting"},
                               listener : Streams \cup {NoStream}]]
    BY <1>2, InvParts DEF TsTypeOK
  <2>. QED
    BY <1>1, <2>1, <2>2, InvParts DEF TsTypeOK
<1>4. \A r \in Streams : sub'[r] = "new" => sub[r] = "new"
  BY <1>1, InvParts DEF TsTypeOK
<1>5. ASSUME NEW l, Out(l) PROVE Out(l)'
  BY <1>1, <1>4, <1>5 DEF Out
<1>6. ASSUME NEW l \in Streams, l = g_listener PROVE Out(l)'
  BY <1>1, <1>4, <1>6, InvParts DEF Out
<1>7. ASSUME NEW r \in Streams, sub[r] = "listening", r # s
      PROVE  sub'[r] = "listening" /\ (r = g_listener => r \in robbed')
  BY <1>1, <1>7, InvParts DEF TsTypeOK
<1>8. ASSUME NEW j \in Isolates PROVE Calling(j)'
  <2>1. CASE busy'[j] = busy[j] /\ Calls(j, "adding")
    <3>1. /\ busy[j].listener \in Streams /\ home[busy[j].listener] = j
          /\ sub[busy[j].listener] = "listening"
          /\ busy[j].listener \in robbed \/ g_listener = busy[j].listener
      BY <2>1, InvParts DEF Calling
    <3>2. busy[j].listener # s
      BY <1>1, <2>1, <3>1 DEF Calls, NotBusy
    <3>3. sub'[busy[j].listener] = "listening" /\ busy[j].listener \in robbed'
      BY <1>1, <1>7, <3>1, <3>2
    <3>. QED
      BY <1>1, <2>1, <3>1, <3>3 DEF Calling, Calls
  <2>2. CASE busy'[j] = busy[j] /\ ~Calls(j, "adding")
    BY <1>1, <1>5, <2>2, InvParts DEF Calling, Calls
  <2>3. CASE busy'[j] = [call |-> "removing", listener |-> g_listener]
             /\ g_listener # NoStream
    BY <1>6, <2>3, InvParts DEF Calling, Calls, TsTypeOK
  <2>. QED
    BY <1>2, <2>1, <2>2, <2>3, InvParts DEF TsTypeOK
<1>9. \A l \in deleted' : Out(l)' /\ (l \notin robbed' => l \notin sdkList')
  BY <1>1, <1>5, InvParts
<1>10. ASSUME NEW r \in Streams \ robbed', sub'[r] = "listening" PROVE FALSE
  <2>1. r # s /\ sub[r] = "listening" /\ r \in Streams \ robbed
    BY <1>1, <1>10, InvParts DEF TsTypeOK
  <2>2. g_listener = r
    BY <2>1, InvParts DEF StreamIsFedUntilRobbed
  <2>. QED
    BY <1>7, <1>10, <2>1, <2>2
<1>. QED
  BY <1>1, <1>3, <1>8, <1>9, <1>10
     DEF ListenersInv, PointersInv, StreamIsFedUntilRobbed

LEMMA RemoveFromSdkStep ==
  ASSUME ListenersInv, NEW i \in Isolates, RemoveFromSdk(i)
  PROVE  ListenersInv'
<1> DEFINE l == busy[i].listener
<1>1. /\ Calls(i, "removing") /\ sdkList' = sdkList \ {l}
      /\ busy' = [busy EXCEPT ![i].call = "deleting"]
      /\ UNCHANGED <<g_listener, deleted, home, sub, robbed>>
  BY DEF RemoveFromSdk
<1>2. /\ busy'[i].call = "deleting" /\ busy'[i].listener = l
      /\ \A j \in Isolates \ {i} : busy'[j] = busy[j]
  BY <1>1, InvParts DEF TsTypeOK
<1>3. TsTypeOK'
  BY <1>1, InvParts DEF TsTypeOK
<1>4. l \in Streams /\ l # g_listener /\ Out(l)'
  BY <1>1, InvParts DEF Calling, Out
<1>5. ASSUME NEW j \in Isolates PROVE Calling(j)'
  <2>1. CASE j = i
    BY <1>1, <1>2, <1>4, <2>1 DEF Calling, Calls
  <2>2. CASE j # i
    BY <1>1, <1>2, <2>2, InvParts DEF Calling, Calls, Out
  <2>. QED
    BY <2>1, <2>2
<1>6. \A d \in deleted' : Out(d)' /\ (d \notin robbed' => d \notin sdkList')
  BY <1>1, InvParts DEF Out
<1>7. ASSUME NEW s \in Streams \ robbed', sub'[s] = "listening"
      PROVE  /\ g_listener' = s
             /\ s \in sdkList' \/ \E j \in Isolates :
                  busy'[j] = [call |-> "adding", listener |-> s]
  <2>1. /\ g_listener = s /\ s # l
        /\ s \in sdkList \/ \E j \in Isolates :
             busy[j] = [call |-> "adding", listener |-> s]
    BY <1>1, <1>4, <1>7, InvParts DEF StreamIsFedUntilRobbed
  <2>2. ASSUME NEW j \in Isolates, busy[j] = [call |-> "adding", listener |-> s]
        PROVE  busy'[j] = [call |-> "adding", listener |-> s]
    BY <1>1, <1>2, <2>2 DEF Calls
  <2>. QED
    BY <1>1, <2>1, <2>2
<1>. QED
  BY <1>1, <1>3, <1>5, <1>6, <1>7, InvParts
     DEF ListenersInv, PointersInv, StreamIsFedUntilRobbed

LEMMA DeleteListenerStep ==
  ASSUME ListenersInv, NEW i \in Isolates, DeleteListener(i)
  PROVE  ListenersInv'
<1> DEFINE l == busy[i].listener
<1>1. /\ Calls(i, "deleting") /\ deleted' = deleted \cup {l}
      /\ busy' = [busy EXCEPT ![i] = NotBusy]
      /\ UNCHANGED <<g_listener, sdkList, home, sub, robbed>>
  BY DEF DeleteListener, Finish
<1>2. TsTypeOK'
  BY <1>1, InvParts DEF TsTypeOK, NotBusy
<1>3. ASSUME NEW j \in Isolates PROVE Calling(j)'
  <2>1. CASE j = i
    BY <1>1, <2>1, InvParts DEF TsTypeOK, NotBusy, Calling, Calls
  <2>2. CASE j # i
    <3>1. busy'[j] = busy[j]
      BY <1>1, <2>2, InvParts DEF TsTypeOK
    <3>. QED
      BY <1>1, <3>1, InvParts DEF Calling, Calls, Out
  <2>. QED
    BY <2>1, <2>2
<1>4. \A d \in deleted' : Out(d)' /\ (d \notin robbed' => d \notin sdkList')
  <2>1. Out(l) /\ (l \notin robbed => l \notin sdkList)
    BY <1>1, InvParts DEF Calling
  <2>. QED
    BY <1>1, <2>1, InvParts DEF Out
<1>5. ASSUME NEW j \in Isolates, NEW s \in Streams,
             busy[j] = [call |-> "adding", listener |-> s]
      PROVE  busy'[j] = [call |-> "adding", listener |-> s]
  BY <1>1, <1>5, InvParts DEF Calls, TsTypeOK
<1>6. ASSUME NEW s \in Streams \ robbed', sub'[s] = "listening"
      PROVE  /\ g_listener' = s
             /\ s \in sdkList' \/ \E j \in Isolates :
                  busy'[j] = [call |-> "adding", listener |-> s]
  <2>1. /\ g_listener = s
        /\ s \in sdkList \/ \E j \in Isolates :
             busy[j] = [call |-> "adding", listener |-> s]
    BY <1>1, <1>6, InvParts DEF StreamIsFedUntilRobbed
  <2>. QED
    BY <1>1, <1>5, <2>1
<1>7. StreamIsFedUntilRobbed'
  BY <1>6 DEF StreamIsFedUntilRobbed
<1>. QED
  BY <1>1, <1>2, <1>3, <1>4, <1>7, InvParts DEF ListenersInv, PointersInv

\* An isolate exits between two calls: it is not adding anything.
LEMMA StreamsExitStep ==
  ASSUME ListenersInv, NEW i \in Isolates, StreamsExit(i)
  PROVE  ListenersInv'
<1>1. /\ busy[i] = NotBusy
      /\ sub' = [s \in Streams |->
           IF home[s] = i /\ Open(s) THEN "over" ELSE sub[s]]
      /\ UNCHANGED <<g_listener, sdkList, deleted, home, busy, robbed>>
  BY DEF StreamsExit
<1>2. TsTypeOK'
  BY <1>1, InvParts DEF TsTypeOK, Subscriptions
<1>3. \A s \in Streams : /\ sub'[s] # "new" <=> sub[s] # "new"
                         /\ home[s] # i => sub'[s] = sub[s]
                         /\ sub'[s] = "listening" => sub[s] = "listening"
  BY <1>1 DEF Open
<1>4. ASSUME NEW j \in Isolates PROVE Calling(j)'
  <2>1. Calls(j, "adding") => j # i
    BY <1>1 DEF Calls, NotBusy
  <2>. QED
    BY <1>1, <1>3, <2>1, InvParts DEF Calling, Calls, Out
<1>5. \A d \in deleted' : Out(d)' /\ (d \notin robbed' => d \notin sdkList')
  BY <1>1, <1>3, InvParts DEF Out
<1>6. StreamIsFedUntilRobbed'
  BY <1>1, <1>3, InvParts DEF StreamIsFedUntilRobbed
<1>. QED
  BY <1>1, <1>2, <1>3, <1>4, <1>5, <1>6, InvParts DEF ListenersInv, PointersInv

LEMMA ListenersUnchanged ==
  ASSUME ListenersInv, UNCHANGED tsVars PROVE ListenersInv'
  BY DEF tsVars, ListenersInv, TsTypeOK, PointersInv, Calling, Calls, Out,
         StreamIsFedUntilRobbed

-----------------------------------------------------------------------------
(* Together. *)

LEMMA InitInv == Init => IInv
<1>. SUFFICES ASSUME Init PROVE IInv
  OBVIOUS
<1>1. AcTypeOK
  <2>1. <<>> \in Seq(Nat)
    OBVIOUS
  <2>. QED
    BY <2>1 DEF Init, AcInit, AcTypeOK, Places
<1>2. LockIsShort /\ PostsSomewhere /\ SomeoneWillAnswer
  BY DEF Init, AcInit, LockIsShort, PostsSomewhere, SomeoneWillAnswer
<1>3. TsTypeOK
  BY DEF Init, TsInit, TsTypeOK, NotBusy, Subscriptions
<1>4. PointersInv /\ StreamIsFedUntilRobbed
  BY DEF Init, TsInit, PointersInv, Calling, Calls, NotBusy, StreamIsFedUntilRobbed
<1>5. Wired
  BY DEF Init, AcInit, Wired, Threads
<1>. QED
  BY <1>1, <1>2, <1>3, <1>4, <1>5 DEF IInv, ProviderInv, RegistryInv, ListenersInv

LEMMA StepInv == IInv /\ [Next]_vars => IInv'
<1>. SUFFICES ASSUME IInv, [Next]_vars PROVE IInv'
  OBVIOUS
<1>1. CASE SdkThreadNext /\ UNCHANGED tsVars
  BY <1>1, ProviderStepInv, ListenersUnchanged DEF IInv
<1>2. CASE ProviderStep
  BY <1>2, ProviderStepInv, ListenersUnchanged DEF IInv, ProviderStep
<1>3. ASSUME NEW i \in Isolates, ListenerStep(i) PROVE IInv'
  <2>1. ListenersInv'
    BY <1>3, AddListenerStep, RemoveListenerStep, AddToSdkStep, RemoveFromSdkStep,
       DeleteListenerStep DEF ListenerStep, LockedNext, UnlockedNext, IInv
  <2>. QED
    BY <1>3, <2>1, ProviderStepInv DEF ListenerStep, IInv
<1>4. ASSUME NEW i \in Isolates, IsolateExits(i) PROVE IInv'
  <2>1. ProviderInv'
    BY <1>4, ProviderStepInv DEF IsolateExits, IInv
  <2>. QED
    BY <1>4, <2>1, StreamsExitStep DEF IsolateExits, IInv
<1>5. CASE Quiet \/ UNCHANGED vars
  <2>1. UNCHANGED acVars /\ UNCHANGED tsVars
    BY <1>5 DEF Quiet, vars
  <2>. QED
    BY <2>1, ProviderStepInv, ListenersUnchanged DEF IInv
<1>. QED
  BY <1>1, <1>2, <1>3, <1>4, <1>5 DEF Next

\* The registry of app_check_impl.cpp, its lock, its ports and its listener
\* agree in every state.
THEOREM Invariance == Spec => []IInv
<1>. QED
  BY InitInv, StepInv, PTL DEF Spec

\* "The request is Dart's to fail": nothing is parked in g_pending that no
\* port, no `supply` and no thread has, but for what went with a closed port.
THEOREM RequestsAreInHand == Spec => []SomeoneWillAnswer
<1>1. IInv => SomeoneWillAnswer
  BY DEF IInv, ProviderInv, RegistryInv
<1>. QED
  BY <1>1, Invariance, PTL

\* "holding it across the call deadlocks against ourselves": however the SDK
\* comes back into GetToken, it is not with g_mutex in hand, and the one refusal
\* that calls a completion with it in hand is never taken.
THEOREM NoDeadlockAgainstOurselves == Spec => []NoSelfDeadlock
<1>1. IInv => NoSelfDeadlock
  BY DEF IInv, ProviderInv, RegistryInv, LockIsShort, Wired, NoSelfDeadlock
<1>. QED
  BY <1>1, Invariance, PTL

\* The SDK is never left with a pointer to a token listener that was deleted,
\* but for one that another stream's cancel took.
THEOREM SdkPointersAreLive == Spec => []SdkHoldsLiveListeners
<1>1. IInv => SdkHoldsLiveListeners
  BY DEF IInv, ListenersInv, PointersInv, SdkHoldsLiveListeners
<1>. QED
  BY <1>1, Invariance, PTL

\* appCheckTokenChanges: a stream that is listened to is the one that the native
\* listener feeds, until another stream's cancel takes it.
THEOREM StreamsAreFed == Spec => []StreamIsFedUntilRobbed
<1>1. IInv => StreamIsFedUntilRobbed
  BY DEF IInv, ListenersInv
<1>. QED
  BY <1>1, Invariance, PTL
=============================================================================
