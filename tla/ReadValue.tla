----------------------------- MODULE ReadValue -----------------------------
(***************************************************************************)
(* readValue and readSnapshot of database.dart: one read, through a        *)
(* listener, answered when the value "has stopped changing for [settle]",  *)
(* or by a timeout.                                                        *)
(*                                                                         *)
(* Time is discrete, and the event loop keeps up: what is due is done      *)
(* before the clock moves on, in any order.  A value is a version number;  *)
(* 0 is null, what a path holds that was never written.                    *)
(***************************************************************************)
EXTENDS Integers, Sequences

CONSTANTS
  Settle,      \* the settle parameter
  Timeout,     \* the timeout parameter
  MaxLatency,  \* how long the server's answer to a new listener may take
  MaxVersion   \* bound: other clients stop writing at this version

ASSUME ReadValueAssumption ==
  /\ Settle \in Nat \ {0} /\ Timeout \in Nat \ {0}
  /\ MaxLatency \in Nat /\ MaxVersion \in Nat

Versions == 0..MaxVersion
Never    == -1           \* a timer that is not running
Refused  == -1           \* on the port: the listener was cancelled
Outcomes == {"none", "settled", "timeout", "error"}
Links    == {"off", "local", "asked", "live", "cancelled"}

VARIABLES
  now,
  server,      \* the version the server holds
  cached,      \* the version the SDK holds
  link,        \* the SDK's listener: what it has sent
  port,        \* the events on the listener's port
  last, seen,  \* readValue's variables
  quiet,       \* when the quiet timer fires
  outcome, value,
  \* history, for the properties
  startedAt,   \* when the read began
  startedFrom, \* the version the server held then
  lastEventAt  \* when the last event was delivered

sdkVars  == <<server, cached, link>>
readVars == <<last, seen, quiet, outcome, value>>
rvVars   == <<now, sdkVars, port, readVars, startedAt, startedFrom, lastEventAt>>

RvInit ==
  /\ now = 0
  /\ server \in Versions /\ cached \in 0..server
  /\ link = "off" /\ port = <<>>
  /\ last = 0 /\ seen = FALSE /\ quiet = Never
  /\ outcome = "none" /\ value = 0
  /\ startedAt = 0 /\ startedFrom = server /\ lastEventAt = 0

Reading == link # "off" /\ outcome = "none"

\* The future completes; the timer is cancelled and the listener removed.
Complete(how, v) ==
  /\ outcome' = how /\ value' = v
  /\ quiet' = Never
  /\ link' = "off" /\ port' = <<>>

-----------------------------------------------------------------------------
(* Mutated forms, each a slip the code could have. *)

\* The quiet timer is not restarted by an event.
DeliverOnce ==
  /\ Reading /\ port # <<>> /\ Head(port) # Refused
  /\ port' = Tail(port)
  /\ last' = Head(port) /\ seen' = TRUE
  /\ quiet' = IF quiet = Never THEN now + Settle ELSE quiet
  /\ lastEventAt' = now
  /\ UNCHANGED <<now, sdkVars, outcome, value, startedAt, startedFrom>>

\* The first event answers the read, as GetValue does.
DeliverFirst ==
  /\ Reading /\ port # <<>> /\ Head(port) # Refused
  /\ last' = Head(port) /\ seen' = TRUE
  /\ lastEventAt' = now
  /\ Complete("settled", Head(port))
  /\ UNCHANGED <<now, server, cached, startedAt, startedFrom>>

\* A timeout is only for a read that has seen nothing.
TimeOutUnseen ==
  /\ Reading /\ now = startedAt + Timeout /\ ~seen
  /\ Complete("timeout", 0)
  /\ UNCHANGED <<now, server, cached, last, seen, startedAt, startedFrom,
                 lastEventAt>>

-----------------------------------------------------------------------------
(* The call. *)

Start ==
  /\ link = "off" /\ outcome = "none"
  /\ link' = "local"
  /\ startedAt' = now /\ startedFrom' = server
  /\ UNCHANGED <<now, server, cached, port, readVars, lastEventAt>>

-----------------------------------------------------------------------------
(* The SDK and the server, as readValue's comment describes them: "The SDK *)
(* sends local state first and the server's answer second, but only when   *)
(* the two differ".                                                        *)

Send(v) == port' = Append(port, v)

SendLocal ==
  /\ link = "local"
  /\ Send(cached)
  /\ link' = "asked"
  /\ UNCHANGED <<now, server, cached, readVars, startedAt, startedFrom,
                 lastEventAt>>

\* The server answers, or an update of it arrives.
Hear ==
  /\ link \in {"asked", "live"}
  /\ link = "live" => cached # server
  /\ IF cached # server THEN Send(server) ELSE UNCHANGED port
  /\ cached' = server
  /\ link' = "live"
  /\ UNCHANGED <<now, server, readVars, startedAt, startedFrom, lastEventAt>>

\* The rules deny the read: OnCancelled.
Deny ==
  /\ link = "asked"
  /\ Send(Refused)
  /\ link' = "cancelled"
  /\ UNCHANGED <<now, server, cached, readVars, startedAt, startedFrom,
                 lastEventAt>>

OtherWrites ==
  /\ server < MaxVersion
  /\ server' = server + 1
  /\ UNCHANGED <<now, cached, link, port, readVars, startedAt, startedFrom,
                 lastEventAt>>

-----------------------------------------------------------------------------
(* The subscription's callbacks. *)

\* An event: it is the last so far, and the quiet timer starts again.
Deliver ==
  /\ Reading /\ port # <<>> /\ Head(port) # Refused
  /\ port' = Tail(port)
  /\ last' = Head(port) /\ seen' = TRUE
  /\ quiet' = now + Settle
  /\ lastEventAt' = now
  /\ UNCHANGED <<now, sdkVars, outcome, value, startedAt, startedFrom>>

DeliverError ==
  /\ Reading /\ port # <<>> /\ Head(port) = Refused
  /\ Complete("error", 0)
  /\ UNCHANGED <<now, server, cached, last, seen, startedAt, startedFrom,
                 lastEventAt>>

\* The quiet timer.
FireQuiet ==
  /\ Reading /\ quiet = now
  /\ Complete("settled", last)
  /\ UNCHANGED <<now, server, cached, last, seen, startedAt, startedFrom,
                 lastEventAt>>

\* "onTimeout: () => seen ? last : null"
TimeOut ==
  /\ Reading /\ now = startedAt + Timeout
  /\ Complete("timeout", IF seen THEN last ELSE 0)
  /\ UNCHANGED <<now, server, cached, last, seen, startedAt, startedFrom,
                 lastEventAt>>

-----------------------------------------------------------------------------

\* Nothing is due.
Tick ==
  /\ Reading
  /\ port = <<>> /\ link # "local"
  /\ quiet # now /\ now # startedAt + Timeout
  /\ link = "asked" => now < startedAt + MaxLatency
  /\ now' = now + 1
  /\ UNCHANGED <<sdkVars, port, readVars, startedAt, startedFrom, lastEventAt>>

Ended == outcome # "none" /\ UNCHANGED rvVars

Environment == SendLocal \/ Hear \/ Deny
Callbacks   == Deliver \/ DeliverError \/ FireQuiet \/ TimeOut

RvNext == Start \/ Environment \/ OtherWrites \/ Callbacks \/ Tick \/ Ended

RvSpec == RvInit /\ [][RvNext]_rvVars

\* Time passes and callbacks run; the server owes nothing beyond its latency.
RvFairness == WF_rvVars(Environment) /\ WF_rvVars(Callbacks) /\ WF_rvVars(Tick)

RvFairSpec == RvSpec /\ RvFairness

-----------------------------------------------------------------------------
(* Properties. *)

RvTypeOK ==
  /\ now \in Nat
  /\ server \in Versions /\ cached \in Versions
  /\ link \in Links
  /\ port \in Seq(Versions \cup {Refused})
  /\ last \in Versions /\ seen \in BOOLEAN /\ quiet \in Nat \cup {Never}
  /\ outcome \in Outcomes /\ value \in Versions
  /\ startedAt \in Nat /\ startedFrom \in Versions /\ lastEventAt \in Nat

\* A read that settles answers with something the server held during the read,
\* not with what the SDK happened to have: "it answers null for data that is
\* on the server.  So this attaches a listener ..."
SettledIsCurrent == outcome = "settled" => value >= startedFrom

\* "returns the value once it has stopped changing for [settle]": when it
\* settles, no event has arrived for that long, and the value is the last.
SettledIsQuiet ==
  outcome = "settled" => now = lastEventAt + Settle /\ value = last

\* A read ends, however fast the node is written: the timeout is not restarted.
EveryReadEnds == Reading ~> (outcome # "none")

-----------------------------------------------------------------------------
(* The inductive invariant: how far the SDK is, and what the timer waits for. *)

LastSent == IF port = <<>> THEN last ELSE port[Len(port)]

\* The port ends with what the SDK has, or with the refusal.
PortInv ==
  /\ link \in {"off", "local"} => port = <<>>
  /\ link \in {"asked", "live"} => LastSent = cached
  /\ link = "cancelled" => port # <<>> /\ LastSent = Refused

\* The timer runs from the last event, which was of this read.
TimerInv ==
  quiet # Never =>
    /\ link \in {"asked", "live", "cancelled"}
    /\ quiet = lastEventAt + Settle /\ startedAt <= lastEventAt

\* What was sent before the server's answer is all handled by the time that
\* may take; what is still to be told after it is the server's.
LatencyInv ==
  /\ link # "off" => startedAt <= now
  /\ link \in {"local", "asked", "cancelled"} => now <= startedAt + MaxLatency
  /\ cached <= server /\ startedFrom <= server
  /\ link = "live" =>
       /\ cached >= startedFrom
       /\ \/ now <= startedAt + MaxLatency
          \/ last >= startedFrom /\ \A i \in 1..Len(port) : port[i] >= startedFrom

\* A read that has settled stays what it was when it did.
SettledInv ==
  outcome = "settled" =>
    /\ now = lastEventAt + Settle /\ value = last
    /\ startedAt <= lastEventAt
    /\ value >= startedFrom \/ now <= startedAt + MaxLatency

RvInv == RvTypeOK /\ PortInv /\ TimerInv /\ LatencyInv /\ SettledInv
=============================================================================
