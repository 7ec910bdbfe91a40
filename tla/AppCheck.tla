------------------------------ MODULE AppCheck ------------------------------
(***************************************************************************)
(* The App Check provider and the token stream together.  They share       *)
(* g_mutex of app_check_impl.cpp, and the thread of the isolate that       *)
(* answers the SDK's requests and may itself listen to tokens; the SDK     *)
(* asks for a token on that thread too.                                    *)
(***************************************************************************)
EXTENDS AppCheckProvider, TokenStream

ASSUME AppCheckAssumption == Isolate \in Isolates

vars == <<acVars, tsVars>>

Init == AcInit /\ TsInit

-----------------------------------------------------------------------------
\* A thread is inside one native call at a time.
ProviderStep == busy[Isolate] = NotBusy /\ IsolateNext /\ UNCHANGED tsVars

ListenerStep(i) ==
  /\ i = Isolate => pc[i] = "idle"
  /\ \/ lock = {} /\ LockedNext(i)
     \/ UnlockedNext(i)
  /\ UNCHANGED acVars

\* An isolate takes its provider and its streams along.
IsolateExits(i) ==
  /\ StreamsExit(i)
  /\ IF i = Isolate THEN ProviderExits ELSE UNCHANGED acVars
  /\ vars' # vars

\* Everything that was asked has been answered, or nobody is left to answer.
Quiet ==
  /\ \A t \in Threads : pc[t] = Home(t)
  /\ supplying = {} /\ \A p \in Ports : queue[p] = <<>>
  /\ \A i \in Isolates : busy[i] = NotBusy
  /\ UNCHANGED vars

Next ==
  \/ SdkThreadNext /\ UNCHANGED tsVars
  \/ ProviderStep
  \/ \E i \in Isolates : ListenerStep(i) \/ IsolateExits(i)
  \/ Quiet

Spec == Init /\ [][Next]_vars

-----------------------------------------------------------------------------
Alone(A) == busy[Isolate] = NotBusy /\ A /\ UNCHANGED tsVars

\* Every thread goes on inside a call, the event loop delivers, and `supply`
\* returns or throws ("supply must return or throw").  The isolate comes back
\* to its event loop: SF, because it may make other calls in between.
Fairness ==
  /\ \A t \in SdkThreads : WF_vars(GetToken(t) /\ UNCHANGED tsVars)
  /\ WF_vars(Alone(GetToken(Isolate)))
  /\ WF_vars(Alone(SdkReturns)) /\ WF_vars(Alone(WirePort))
  /\ WF_vars(Alone(InstallFactory))
  /\ \A i \in Isolates : WF_vars(UnlockedNext(i) /\ UNCHANGED acVars)
  /\ SF_vars(Alone(\E p \in Ports : StartSupply(p)))
  /\ \A r \in Requests : SF_vars(Alone(Answer(r)))

FairSpec == Spec /\ Fairness
=============================================================================
