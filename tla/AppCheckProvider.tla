-------------------------- MODULE AppCheckProvider --------------------------
(***************************************************************************)
(* A custom App Check provider: the SDK asks for tokens on its own threads *)
(* and on the isolate's, the request is parked in g_pending while its id   *)
(* travels to a Dart port, and fdb_ac_supply_token finishes it with what   *)
(* the isolate's `supply` returned or threw.                               *)
(*                                                                         *)
(* g_mutex guards the registry, and is modelled: the SDK calls the         *)
(* provider synchronously, from inside calls this library makes into it.   *)
(***************************************************************************)
EXTENDS Integers, Sequences, FiniteSets

CONSTANTS
  Isolate,      \* the isolate's thread
  SdkThreads,   \* the threads other products ask for tokens on
  MaxRequests,  \* bound: how many tokens are asked for
  MaxInstalls   \* bound: how often useCustomAppCheckProvider is called, and before
                \* which of these calls useDebugAppCheckProvider is

ASSUME AppCheckProviderAssumption ==
  /\ Isolate \notin SdkThreads
  /\ MaxRequests \in Nat \ {0}
  /\ MaxInstalls \in Nat \ {0}

Threads  == SdkThreads \cup {Isolate}
Requests == 1..MaxRequests
Ports    == 1..MaxInstalls     \* one per call of useCustomAppCheckProvider

\* "idle" is the isolate's event loop and "sdk" is inside the SDK; "entering",
\* "registering" and "posting" are inside GetToken; "wiring" and "installing"
\* are inside useCustomAppCheckProvider.
Places   == {"idle", "sdk", "entering", "registering", "posting", "wiring",
             "installing"}
Outcomes == {"none", "token", "error", "unwired"}

VARIABLES
  pc,              \* per thread, where it is
  lock,            \* who holds g_mutex, a set of at most one thread
  g_next_request, g_pending, g_provider_port,
  asking,          \* per thread, the id and port its GetToken has read
  installed,       \* the SDK asks this library's provider for tokens
  providerPort,    \* Dart's _providerPort, 0 for null
  queue,           \* per port, the ids on it
  dropped,         \* the ids a closed port had on it or was sent
  supplying,       \* the ids whose `supply` is running
  outcome          \* per request, what its completion was called with

acVars == <<pc, lock, g_next_request, g_pending, g_provider_port, asking,
          installed, providerPort, queue, dropped, supplying, outcome>>

AcInit ==
  /\ pc = [t \in Threads |-> IF t = Isolate THEN "idle" ELSE "sdk"]
  /\ lock = {}
  /\ g_next_request = 1 /\ g_pending = {} /\ g_provider_port = 0
  /\ asking = [t \in Threads |-> [id |-> 0, port |-> 0]]
  /\ installed = FALSE
  /\ providerPort = 0
  /\ queue = [p \in Ports |-> <<>>]
  /\ dropped = {} /\ supplying = {}
  /\ outcome = [r \in Requests |-> "none"]

Goto(t, from, to) == pc[t] = from /\ pc' = [pc EXCEPT ![t] = to]

Queued(p) == {queue[p][i] : i \in DOMAIN queue[p]}

\* Where a thread is once the call it was making into the SDK is over.
Home(t) == IF t = Isolate THEN "idle" ELSE "sdk"

-----------------------------------------------------------------------------
(* Mutated forms, each a slip the code could have. *)

\* fdb_ac_supply_token calls the completion with the lock held.
SupplyTokenLocked(r, result) ==
  /\ r \in supplying
  /\ lock = {}
  /\ lock' = {Isolate}
  /\ Goto(Isolate, "idle", "sdk")
  /\ supplying' = supplying \ {r}
  /\ g_pending' = g_pending \ {r}
  /\ outcome' = [outcome EXCEPT ![r] = result]
  /\ UNCHANGED <<g_next_request, g_provider_port, asking, installed,
                 providerPort, queue, dropped>>

\* The factory is installed before the port is known.
OpenPortFactoryFirst ==
  /\ Goto(Isolate, "idle", "wiring")
  /\ g_provider_port < MaxInstalls
  /\ providerPort' = g_provider_port + 1
  /\ queue' = [p \in Ports |-> <<>>]
  /\ dropped' = dropped \cup UNION {Queued(p) : p \in Ports}
  /\ installed' = TRUE
  /\ UNCHANGED <<lock, g_next_request, g_pending, g_provider_port, asking,
                 supplying, outcome>>

\* A `supply` that throws is not answered.
SupplyThrowUnanswered(r) ==
  /\ r \in supplying
  /\ Goto(Isolate, "idle", "idle")
  /\ supplying' = supplying \ {r}
  /\ UNCHANGED <<lock, g_next_request, g_pending, g_provider_port, asking,
                 installed, providerPort, queue, dropped, outcome>>

\* The id read under the lock is the next one.
RegisterWithNextId(t) ==
  /\ pc[t] = "registering"
  /\ lock' = {}
  /\ g_next_request' = g_next_request + 1
  /\ asking' = [asking EXCEPT ![t] = [id |-> g_next_request + 1,
                                      port |-> g_provider_port]]
  /\ g_pending' = g_pending \cup {g_next_request}
  /\ Goto(t, "registering", "posting")
  /\ UNCHANGED <<g_provider_port, installed, providerPort, queue, dropped,
                 supplying, outcome>>

-----------------------------------------------------------------------------
(* DartAppCheckProvider::GetToken, on whichever thread the SDK asks. *)

\* The SDK asks the provider it was given.
AskProvider(t) ==
  /\ installed
  /\ g_next_request + Cardinality({u \in Threads :
        pc[u] \in {"entering", "registering"}}) <= MaxRequests
  /\ Goto(t, "sdk", "entering")
  /\ UNCHANGED <<lock, g_next_request, g_pending, g_provider_port, asking,
                 installed, providerPort, queue, dropped, supplying, outcome>>

LockRegistry(t) ==
  /\ lock = {}
  /\ lock' = {t}
  /\ Goto(t, "entering", "registering")
  /\ UNCHANGED <<g_next_request, g_pending, g_provider_port, asking, installed,
                 providerPort, queue, dropped, supplying, outcome>>

\* The request is parked under its id.  With no port it fails instead, its
\* completion called with the lock held.
RegisterRequest(t) ==
  LET wired == g_provider_port # 0 IN
  /\ Goto(t, "registering", IF wired THEN "posting" ELSE Home(t))
  /\ lock' = {}
  /\ g_next_request' = g_next_request + 1
  /\ asking' = [asking EXCEPT ![t] = [id |-> g_next_request,
                                      port |-> g_provider_port]]
  /\ g_pending' = IF wired THEN g_pending \cup {g_next_request} ELSE g_pending
  /\ outcome' = [outcome EXCEPT ![g_next_request] =
                                   IF wired THEN @ ELSE "unwired"]
  /\ UNCHANGED <<g_provider_port, installed, providerPort, queue, dropped,
                 supplying>>

\* Unlocked: the id goes to the port read before, and nowhere if that port has
\* been closed since.
PostRequest(t) ==
  /\ Goto(t, "posting", Home(t))
  /\ IF asking[t].port = providerPort
     THEN /\ queue' = [queue EXCEPT ![providerPort] = Append(@, asking[t].id)]
          /\ UNCHANGED dropped
     ELSE /\ dropped' = dropped \cup {asking[t].id}
          /\ UNCHANGED queue
  /\ UNCHANGED <<lock, g_next_request, g_pending, g_provider_port, asking,
                 installed, providerPort, supplying, outcome>>

-----------------------------------------------------------------------------
(* The isolate. *)

\* fdb_ac_get_token, once initAppCheck has been called: Instance() takes the
\* lock and lets go of it before the SDK is called.
GetAppCheckToken ==
  /\ lock = {}
  /\ Goto(Isolate, "idle", "sdk")
  /\ UNCHANGED <<lock, g_next_request, g_pending, g_provider_port, asking,
                 installed, providerPort, queue, dropped, supplying, outcome>>

\* The SDK answers from its cache, or has nothing more to do here.
SdkReturns ==
  /\ Goto(Isolate, "sdk", "idle")
  /\ UNCHANGED <<lock, g_next_request, g_pending, g_provider_port, asking,
                 installed, providerPort, queue, dropped, supplying, outcome>>

\* useCustomAppCheckProvider closes the port of the provider it replaces, with
\* the ids still on it, and opens its own.
OpenPort ==
  /\ Goto(Isolate, "idle", "wiring")
  /\ g_provider_port < MaxInstalls
  /\ providerPort' = g_provider_port + 1
  /\ queue' = [p \in Ports |-> <<>>]
  /\ dropped' = dropped \cup UNION {Queued(p) : p \in Ports}
  /\ UNCHANGED <<lock, g_next_request, g_pending, g_provider_port, asking,
                 installed, supplying, outcome>>

\* fdb_ac_use_custom_provider: first the port, under the lock,
WirePort ==
  /\ lock = {}
  /\ g_provider_port' = providerPort
  /\ Goto(Isolate, "wiring", "installing")
  /\ UNCHANGED <<lock, g_next_request, g_pending, asking, installed,
                 providerPort, queue, dropped, supplying, outcome>>

\* then the factory, outside it.
InstallFactory ==
  /\ installed' = TRUE
  /\ Goto(Isolate, "installing", "idle")
  /\ UNCHANGED <<lock, g_next_request, g_pending, g_provider_port, asking,
                 providerPort, queue, dropped, supplying, outcome>>

\* useDebugAppCheckProvider: the SDK's own factory takes the place of this one.
\* The SDK may go on with the provider that it has from this one.  MaxInstalls
\* bounds this too: there is still an install to come.
UseDebugProvider ==
  /\ Goto(Isolate, "idle", "idle")
  /\ g_provider_port < MaxInstalls
  /\ installed' = FALSE \/ installed' = installed
  /\ UNCHANGED <<lock, g_next_request, g_pending, g_provider_port, asking,
                 providerPort, queue, dropped, supplying, outcome>>

\* The isolate exits, between two turns of its event loop.  Its port is closed
\* with what was on it, no `supply` returns, and g_provider_port stays.  Another
\* isolate may install a provider of its own.
ProviderExits ==
  /\ Goto(Isolate, "idle", "idle")
  /\ dropped' = dropped \cup supplying \cup UNION {Queued(p) : p \in Ports}
  /\ providerPort' = 0
  /\ queue' = [p \in Ports |-> <<>>]
  /\ supplying' = {}
  /\ UNCHANGED <<lock, g_next_request, g_pending, g_provider_port, asking,
                 installed, outcome>>

\* The port's handler starts _answer.
StartSupply(p) ==
  /\ p = providerPort /\ queue[p] # <<>>
  /\ Goto(Isolate, "idle", "idle")
  /\ supplying' = supplying \cup {Head(queue[p])}
  /\ queue' = [queue EXCEPT ![p] = Tail(@)]
  /\ UNCHANGED <<lock, g_next_request, g_pending, g_provider_port, asking,
                 installed, providerPort, dropped, outcome>>

\* fdb_ac_supply_token: the request leaves the registry, and its completion
\* is called outside the lock, because "that work can reach back in here".
SupplyToken(r, result) ==
  /\ r \in supplying
  /\ lock = {}
  /\ supplying' = supplying \ {r}
  /\ g_pending' = g_pending \ {r}
  /\ outcome' = [outcome EXCEPT ![r] = IF r \in g_pending THEN result ELSE @]
  /\ Goto(Isolate, "idle", IF r \in g_pending THEN "sdk" ELSE "idle")
  /\ UNCHANGED <<lock, g_next_request, g_provider_port, asking, installed,
                 providerPort, queue, dropped>>

SupplyReturns(r) == SupplyToken(r, "token")

\* "the request has to be failed rather than left parked"
SupplyThrows(r) == SupplyToken(r, "error")

-----------------------------------------------------------------------------

GetToken(t) == LockRegistry(t) \/ RegisterRequest(t) \/ PostRequest(t)

Install == OpenPort \/ WirePort \/ InstallFactory

Answer(r) == SupplyReturns(r) \/ SupplyThrows(r)

SdkThreadNext == \E t \in SdkThreads : AskProvider(t) \/ GetToken(t)

IsolateNext ==
  \/ AskProvider(Isolate) \/ GetToken(Isolate)
  \/ GetAppCheckToken \/ SdkReturns
  \/ Install \/ UseDebugProvider
  \/ \E p \in Ports : StartSupply(p)
  \/ \E r \in Requests : Answer(r)

-----------------------------------------------------------------------------
(* Properties. *)

AcTypeOK ==
  /\ pc \in [Threads -> Places]
  /\ asking \in [Threads -> [id : Nat, port : 0..MaxInstalls]]
  /\ g_next_request \in Nat
  /\ g_provider_port \in 0..MaxInstalls /\ providerPort \in 0..MaxInstalls
  /\ queue \in [Ports -> Seq(Nat)]

\* "The request is Dart's to fail": whatever is parked in g_pending is on its
\* way to an open port, on it, or in the hands of `supply`, or went with a port
\* that was replaced or whose isolate exited.
SomeoneWillAnswer ==
  \A r \in g_pending :
    \/ r \in supplying \cup dropped
    \/ providerPort # 0 /\ r \in Queued(providerPort)
    \/ \E t \in Threads : pc[t] = "posting" /\ asking[t].id = r

\* "holding it across the call deadlocks against ourselves": no thread waits
\* for the lock it holds, however the SDK comes back into the provider; and no
\* request is registered while there is no port, the refusal of which calls the
\* SDK's completion with the lock held.
NoSelfDeadlock ==
  /\ \A t \in Threads : pc[t] = "entering" => t \notin lock
  /\ \A t \in lock : pc[t] = "registering" => g_provider_port # 0

\* "a caller waiting on a token it will never get is worse than one told the
\* provider is not wired up": a request that went with no port is completed, with a
\* token or an error.
EveryRequestAnswered ==
  \A r \in Requests :
    (r \in g_pending) ~> (outcome[r] # "none" \/ r \in dropped)

\* "the request has to be failed rather than left parked": a request whose
\* port was replaced, or whose isolate exited, is failed too.
NoRequestLeftParked == g_pending \cap dropped = {}
=============================================================================
