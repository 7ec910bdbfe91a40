---------------------------- MODULE CallsProofs ----------------------------
(***************************************************************************)
(* Proofs about Calls: what a call holds and whose message its caller is   *)
(* told of, for any table of functions; that the future tells the truth    *)
(* and a refusal names its cause, for the functions of the library.        *)
(***************************************************************************)
EXTENDS Calls, SequenceTheorems, TLAPS

CallFields == {"fn", "stage", "faults", "cause", "sdk", "message", "told",
               "port", "held", "posted"}

Modes == {"port", "returns", "posts", "creates"}

USE ApiAssumption DEF Products, state

-----------------------------------------------------------------------------
(* The guards of a function. *)

\* A guard is a cause and a code, and the causes of `refuses` are guarded.
LEMMA GuardsAreGuards ==
  ASSUME NEW n \in DOMAIN Api
  PROVE  LET e == Api[n] IN
         /\ Len(Guards(e)) \in Nat
         /\ \A k \in 1..Len(Guards(e)) :
              /\ Guards(e)[k] \in Reasons \X Codes
              /\ Guards(e)[k][1] # "none"
         /\ \A c \in Causes(e) : \E k \in 1..Len(Guards(e)) : Guards(e)[k][1] = c
<1> DEFINE e == Api[n]
           G == Reasons \X Codes
           first == IF e.mode = "creates"
                    THEN << <<"app", -1>>, <<"instance", -2>> >>
                    ELSE << <<"product", -1>> >>
<1>1. e.refuses \in Seq(G)
  OBVIOUS
<1>2. first \in Seq(G)
  <2>1. <<"app", -1>> \in G /\ <<"instance", -2>> \in G /\ <<"product", -1>> \in G
    BY DEF Codes, Reasons
  <2>. HIDE DEF G
  <2>2. \A a, b \in G : <<a, b>> \in Seq(G) /\ <<a>> \in Seq(G)
    OBVIOUS
  <2>. QED
    BY <2>1, <2>2, Zenon
<1>3. Guards(e) = first \o e.refuses
  BY DEF Guards
<1>. HIDE DEF first, G, e
<1>4. /\ Guards(e) \in Seq(G) /\ Len(Guards(e)) = Len(first) + Len(e.refuses)
      /\ \A i \in 1..Len(e.refuses) : Guards(e)[Len(first) + i] = e.refuses[i]
      /\ Len(first) \in Nat /\ Len(e.refuses) \in Nat
  BY <1>1, <1>2, <1>3, ConcatProperties, LenProperties
<1>5. \A k \in 1..Len(Guards(e)) : Guards(e)[k] \in G
  BY <1>4
<1>6. \A g \in G : g[1] # "none"
  BY DEF G, Reasons
<1>7. ASSUME NEW c \in Causes(e) PROVE \E k \in 1..Len(Guards(e)) : Guards(e)[k][1] = c
  <2>1. PICK i \in 1..Len(e.refuses) : c = e.refuses[i][1]
    BY DEF Causes
  <2>2. Len(first) + i \in 1..Len(Guards(e))
    BY <1>4
  <2>. QED
    BY <1>4, <2>1, <2>2
<1>8. Len(Guards(e)) \in Nat
  BY <1>4
<1>. QED
  BY <1>5, <1>6, <1>7, <1>8 DEF G, e

-----------------------------------------------------------------------------
(* The invariant, for any table. *)

\* No call.
LEMMA NoCall ==
  ASSUME TypeOK', call' = IdleCall
  PROVE  IInv'
<1>1. StageInv'
  BY DEF StageInv, IdleCall
<1>2. RefusedInv' /\ GuardedInv' /\ MemoryInv'
  BY DEF RefusedInv, GuardedInv, MemoryInv, IdleCall
<1>. QED
  BY <1>1, <1>2 DEF IInv

\* What goes on beside the call.
LEMMA SameCall ==
  ASSUME IInv, TypeOK', UNCHANGED <<call, exited>>
  PROVE  IInv'
<1>1. StageInv'
  BY DEF IInv, StageInv, Entry
<1>2. RefusedInv' /\ GuardedInv'
  BY DEF IInv, RefusedInv, GuardedInv, Entry
<1>3. MemoryInv'
  BY DEF IInv, MemoryInv, Entry
<1>. QED
  BY <1>1, <1>2, <1>3 DEF IInv

LEMMA InitInv == Init => IInv
<1>. SUFFICES ASSUME Init PROVE IInv
  OBVIOUS
<1>1. TypeOK
  BY DEF Init, TypeOK, IdleCall
<1>2. StageInv
  BY DEF Init, StageInv, IdleCall
<1>3. RefusedInv /\ GuardedInv /\ MemoryInv
  BY DEF Init, RefusedInv, GuardedInv, MemoryInv, IdleCall
<1>. QED
  BY <1>1, <1>2, <1>3 DEF IInv

\* fdb_app_init and the init functions.
LEMMA InitializePreserves ==
  ASSUME IInv,
         \/ \E url, created \in BOOLEAN : fdb_app_init(url, created)
         \/ \E got \in {"good", "failed", "none"} :
              \/ fdb_fs_init(got) \/ fdb_auth_init(got) \/ fdb_storage_init(got)
              \/ fdb_functions_init(got) \/ fdb_ac_init(got)
  PROVE  IInv'
<1>1. CASE \E url, created \in BOOLEAN : fdb_app_init(url, created)
  <2>1. TypeOK' /\ UNCHANGED <<call, exited>>
    BY <1>1 DEF IInv, TypeOK, fdb_app_init
  <2>. QED
    BY <2>1, SameCall
<1>2. CASE \E p \in Products, kept \in {"good", "bad", "none"} : GetInstance(p, kept)
  <2>0. PICK p \in Products, kept \in {"good", "bad", "none"} : GetInstance(p, kept)
    BY <1>2
  <2>1. UNCHANGED <<call, exited, state, online, user>>
        /\ instance' = [instance EXCEPT ![p] = kept]
    BY <2>0 DEF GetInstance
  <2>2. instance' \in [Products -> {"none", "good", "bad", "mute"}]
    BY <2>1 DEF IInv, TypeOK
  <2>3. TypeOK'
    BY <2>1, <2>2 DEF IInv, TypeOK
  <2>. QED
    BY <2>1, <2>3, SameCall
<1>3. ASSUME NEW got \in {"good", "failed", "none"},
             \/ fdb_fs_init(got) \/ fdb_auth_init(got) \/ fdb_storage_init(got)
             \/ fdb_functions_init(got) \/ fdb_ac_init(got)
      PROVE  \E p \in Products, kept \in {"good", "bad", "none"} : GetInstance(p, kept)
  <2>1. {Kept(got), Reset(got)} \subseteq {"good", "bad", "none"}
    BY DEF Kept, Reset
  <2>. QED
    BY <1>3, <2>1
    DEF fdb_fs_init, fdb_auth_init, fdb_storage_init, fdb_functions_init, fdb_ac_init
<1>. QED
  BY <1>1, <1>2, <1>3

\* The other callers of the isolate.
LEMMA MeanwhilePreserves ==
  ASSUME IInv, NEW op, NEW p, Meanwhile(op, p)
  PROVE  IInv'
<1>1. {online', user'} \subseteq BOOLEAN
  BY DEF Meanwhile, TakesEffect
<1>2. TypeOK' /\ UNCHANGED <<call, exited>>
  BY <1>1 DEF IInv, TypeOK, Meanwhile
<1>. QED
  BY <1>2, SameCall

\* The completion, with a result or without.
LEMMA CompletePreserves ==
  ASSUME IInv, call.stage = "working", NEW f \in Endings(Entry),
         NEW enough \in BOOLEAN, Complete(f, enough), user' \in BOOLEAN,
         UNCHANGED <<state, instance, online, exited>>
  PROVE  IInv'
<1> DEFINE m == Entry.answer[f]
           fresh == m.shape = "buffer" /\ Entry.buffer # "posted"
           posted == IF fresh /\ enough THEN PostedTo ELSE "none"
           stage == IF exited THEN "gone" ELSE IF fresh /\ ~enough THEN "lost"
                    ELSE "posted"
<1>1. DOMAIN call = CallFields
  BY DEF IInv, StageInv, IdleCall, CallFields
<1>2. /\ DOMAIN call' = CallFields
      /\ call'.fn = call.fn /\ call'.faults = call.faults /\ call'.cause = call.cause
      /\ call'.told = call.told /\ call'.port = call.port
      /\ call'.sdk = f /\ call'.message = m /\ call'.held = HeldAfter(Entry, f)
      /\ call'.posted = posted /\ call'.stage = stage
  BY <1>1 DEF Complete, CallFields
<1>3. call.fn \in DOMAIN Api /\ Entry' = Entry /\ call.cause = "none"
  BY <1>2 DEF IInv, StageInv, Entry
<1>4. stage \in {"posted", "gone", "lost"} /\ (stage # "gone" <=> ~exited)
  OBVIOUS
<1>5. posted \in {"none", "vm", "leaked"} /\ (posted = "leaked" => exited)
  BY DEF PostedTo
<1>6. /\ HeldAfter(Entry, f) \in {"none", "vm", "freed", "leaked"}
      /\ HeldAfter(Entry, f) = "leaked" => exited
  <2>1. Entry.buffer \in {"none", "copy", "posted"}
    BY <1>3 DEF Entry
  <2>2. call.held = IF Entry.buffer = "none" THEN "none" ELSE "native"
    BY DEF IInv, MemoryInv
  <2>. QED
    BY <2>1, <2>2 DEF HeldAfter, Freed, PostedTo
<1>. HIDE DEF posted, stage, fresh, m
<1>7. TypeOK'
  BY <1>2, <1>4, <1>5, <1>6 DEF IInv, TypeOK
<1>8. StageInv'
  BY <1>2, <1>3, <1>4 DEF StageInv, CallFields, IdleCall, m
<1>9. RefusedInv' /\ GuardedInv'
  BY <1>2, <1>3, <1>4 DEF IInv, RefusedInv, GuardedInv
<1>10. MemoryInv'
  BY <1>2, <1>4, <1>5, <1>6 DEF MemoryInv
<1>. QED
  BY <1>7, <1>8, <1>9, <1>10 DEF IInv

LEMMA CompletionPreserves ==
  ASSUME IInv, Purge \/ \E f \in Futures : SdkCompletes(f)
  PROVE  IInv'
<1>1. Entry.mode \in {"port", "creates"} \/ call.stage # "working"
  BY DEF IInv, StageInv
<1>2. CASE Purge
  <2>1. Failed \in Endings(Entry) /\ user' \in BOOLEAN
    BY <1>1, <1>2 DEF Purge, Endings, IInv, TypeOK
  <2>. QED
    BY <1>2, <2>1, CompletePreserves DEF Purge
<1>3. ASSUME NEW f \in Futures, SdkCompletes(f) PROVE IInv'
  <2>1. f \in Endings(Entry)
    BY <1>1, <1>3 DEF SdkCompletes, Endings
  <2>2. PICK enough \in Enough : Complete(f, enough)
    BY <1>3 DEF SdkCompletes
  <2>3. enough \in BOOLEAN
    BY DEF Enough
  <2>4. user' \in BOOLEAN
    BY <1>3 DEF SdkCompletes
  <2>. QED
    BY <1>3, <2>1, <2>2, <2>3, <2>4, CompletePreserves DEF SdkCompletes
<1>. QED
  BY <1>2, <1>3

\* The message is read by the handler of its own function.
LEMMA DeliverPreserves ==
  ASSUME IInv, Deliver
  PROVE  IInv'
<1>1. DOMAIN call = CallFields
  BY DEF IInv, StageInv, IdleCall, CallFields
<1>2. /\ DOMAIN call' = CallFields /\ call'.stage = "told" /\ call'.port = "closed"
      /\ call'.told = Read(Entry.handler, call.message)
      /\ call'.fn = call.fn /\ call'.faults = call.faults /\ call'.cause = call.cause
      /\ call'.sdk = call.sdk /\ call'.message = call.message
      /\ call'.held = call.held /\ call'.posted = call.posted
  BY <1>1 DEF Deliver, CallFields
<1>3. call.fn \in DOMAIN Api /\ Entry' = Entry /\ call.cause = "none"
      /\ call.stage = "posted" /\ call.sdk \in Endings(Entry)
      /\ call.message = Entry.answer[call.sdk]
  BY <1>2 DEF IInv, StageInv, Entry, Deliver
<1>4. UNCHANGED <<state, instance, online, user, exited>>
  BY DEF Deliver
<1>5. TypeOK'
  BY <1>2, <1>4 DEF IInv, TypeOK
<1>6. StageInv'
  BY <1>2, <1>3 DEF StageInv, CallFields, IdleCall, Endings
<1>7. RefusedInv' /\ GuardedInv'
  BY <1>2, <1>3 DEF IInv, RefusedInv, GuardedInv
<1>8. MemoryInv'
  BY <1>2, <1>3, <1>4 DEF IInv, MemoryInv
<1>. QED
  BY <1>5, <1>6, <1>7, <1>8 DEF IInv

\* The isolate exits, is started again, or goes on to another call.
LEMMA IsolatePreserves ==
  ASSUME IInv, Collect \/ IsolateExits \/ IsolateStarts
  PROVE  IInv'
<1>1. CASE call' = IdleCall
  <2>1. TypeOK'
    BY <1>1 DEF IInv, TypeOK, Collect, IsolateExits, IsolateStarts, IdleCall
  <2>. QED
    BY <1>1, <2>1, NoCall
<1>2. CASE call' # IdleCall
  <2>1. /\ call.stage = "working" /\ exited' /\ call' = [call EXCEPT !.port = "closed"]
        /\ UNCHANGED <<state, instance, online, user>>
    BY <1>2 DEF Collect, IsolateExits, IsolateStarts
  <2>2. DOMAIN call = CallFields
    BY DEF IInv, StageInv, IdleCall, CallFields
  <2>3. /\ DOMAIN call' = CallFields /\ call'.port = "closed"
        /\ call'.stage = call.stage /\ call'.told = call.told
        /\ call'.fn = call.fn /\ call'.faults = call.faults
        /\ call'.cause = call.cause /\ call'.sdk = call.sdk
        /\ call'.message = call.message
        /\ call'.held = call.held /\ call'.posted = call.posted
    BY <2>1, <2>2 DEF CallFields
  <2>4. exited' = TRUE
    BY <1>2 DEF Collect, IsolateExits, IsolateStarts
  <2>5. TypeOK'
    <3>1. {g_has_database_url', online', user', exited', urlLost'} \subseteq BOOLEAN
      BY <2>1, <2>4 DEF IInv, TypeOK
    <3>2. app' = app /\ instance' = instance
      BY <2>1
    <3>. QED
      BY <2>3, <3>1, <3>2 DEF IInv, TypeOK
  <2>6. StageInv'
    BY <2>1, <2>3 DEF IInv, StageInv, CallFields, IdleCall, Entry
  <2>7. RefusedInv' /\ GuardedInv'
    BY <2>1, <2>3 DEF IInv, StageInv, RefusedInv, GuardedInv, Entry
  <2>8. MemoryInv'
    BY <2>1, <2>3 DEF IInv, MemoryInv, Entry
  <2>. QED
    BY <2>5, <2>6, <2>7, <2>8 DEF IInv
<1>. QED
  BY <1>1, <1>2

\* A refused call is told of the first guard that failed, and holds nothing.
LEMMA RefusePreserves ==
  ASSUME IInv, NEW n \in DOMAIN Api, NEW wrong,
         NEW k \in 1..Len(Guards(Api[n])), TypeOK',
         call' = Refuse([IdleCall EXCEPT !.fn = n, !.faults = wrong], Api[n],
                        Guards(Api[n])[k])
  PROVE  IInv'
<1> DEFINE e == Api[n]
           guard == Guards(e)[k]
           text == IF e.says[guard[2]] = "nothing"
                   THEN Value(IF e.handler = "CurrentUid" THEN "absent" ELSE "done")
                   ELSE Refused(e.says[guard[2]])
<1>1. guard[1] # "none"
  BY GuardsAreGuards
<1>2. IF e.says[guard[2]] = "nothing" THEN text.kind = "value"
                                    ELSE text = Refused(e.says[guard[2]])
  BY DEF Value, Refused
<1>3. /\ DOMAIN call' = CallFields /\ call'.fn = n /\ call'.stage = "told"
      /\ call'.cause = guard[1] /\ call'.port = "closed" /\ call'.told = text
      /\ call'.message = NoMessage /\ call'.held = "none" /\ call'.posted = "none"
  BY DEF Refuse, IdleCall, CallFields
<1>4. Entry' = e
  BY <1>3 DEF Entry
<1>. HIDE DEF text, guard, e
<1>5. StageInv'
  BY <1>1, <1>3 DEF StageInv, IdleCall, CallFields
<1>6. RefusedInv'
  BY <1>2, <1>3, <1>4 DEF RefusedInv, guard, e
<1>7. GuardedInv' /\ MemoryInv'
  BY <1>1, <1>3 DEF GuardedInv, MemoryInv
<1>. QED
  BY <1>5, <1>6, <1>7 DEF IInv

\* An accepted call is the call that was made, in no stage but these.
LEMMA AcceptedCall ==
  ASSUME NEW e, e.mode \in Modes, NEW c, DOMAIN c = CallFields, NEW d \in Accept(c, e)
  PROVE  /\ DOMAIN d = CallFields /\ d.fn = c.fn /\ d.faults = c.faults
         /\ d.cause = c.cause /\ d.stage \in {"working", "told", "posted", "lost"}
         /\ d.port \in {c.port, "open"} /\ d.held \in {c.held, "none", "native"}
         /\ d.posted \in {c.posted, "none", "vm"}
<1>1. CASE d = [c EXCEPT !.stage = "working", !.port = "open",
                         !.held = IF e.buffer = "none" THEN "none" ELSE "native"]
  BY <1>1 DEF CallFields
<1>2. ASSUME NEW r, d = [c EXCEPT !.stage = "told", !.sdk = Done(r),
                                  !.told = Read(e.handler, e.answer[Done(r)])]
      PROVE  /\ DOMAIN d = CallFields /\ d.fn = c.fn /\ d.faults = c.faults
             /\ d.cause = c.cause /\ d.stage = "told"
             /\ d.port = c.port /\ d.held = c.held /\ d.posted = c.posted
  BY <1>2 DEF CallFields
<1>3. ASSUME NEW r, NEW enough \in BOOLEAN,
             d = [c EXCEPT !.stage = IF enough THEN "posted" ELSE "lost",
                           !.sdk = Done(r), !.port = "open",
                           !.message = e.answer[Done(r)],
                           !.posted = IF enough THEN "vm" ELSE "none"]
      PROVE  /\ DOMAIN d = CallFields /\ d.fn = c.fn /\ d.faults = c.faults
             /\ d.cause = c.cause /\ d.stage \in {"posted", "lost"}
             /\ d.port = "open" /\ d.held = c.held /\ d.posted \in {"none", "vm"}
  BY <1>3 DEF CallFields
<1>4. CASE e.mode \in {"port", "creates"}
  <2>1. d = [c EXCEPT !.stage = "working", !.port = "open",
                      !.held = IF e.buffer = "none" THEN "none" ELSE "native"]
    BY <1>4 DEF Accept
  <2>. QED
    BY <1>1, <2>1
<1>5. CASE e.mode = "returns"
  <2>1. PICK r \in ResultsNow(e) :
          d = [c EXCEPT !.stage = "told", !.sdk = Done(r),
                        !.told = Read(e.handler, e.answer[Done(r)])]
    BY <1>5 DEF Accept
  <2>. QED
    BY <1>2, <2>1
<1>6. CASE e.mode = "posts"
  <2>1. PICK r \in e.results, enough \in BOOLEAN :
          d = [c EXCEPT !.stage = IF enough THEN "posted" ELSE "lost",
                        !.sdk = Done(r), !.port = "open",
                        !.message = e.answer[Done(r)],
                        !.posted = IF enough THEN "vm" ELSE "none"]
    <3>1. PICK enough \in BOOLEAN : d \in PostNow(c, e, enough)
      BY <1>6 DEF Accept, Enough
    <3>. QED
      BY <3>1 DEF PostNow
  <2>. QED
    BY <1>3, <2>1
<1>. QED
  BY <1>4, <1>5, <1>6 DEF Modes

\* A call that passes its guards holds what the SDK works with, or is answered.
LEMMA AcceptPreserves ==
  ASSUME IInv, NEW n \in DOMAIN Api, NEW wrong, wrong \cap Causes(Api[n]) = {},
         TypeOK',
         call' \in Accept([IdleCall EXCEPT !.fn = n, !.faults = wrong], Api[n])
  PROVE  IInv'
<1> DEFINE e == Api[n]
           c == [IdleCall EXCEPT !.fn = n, !.faults = wrong]
<1>1. /\ DOMAIN c = CallFields /\ c.fn = n /\ c.faults = wrong /\ c.cause = "none"
      /\ c.held = "none" /\ c.posted = "none"
  BY DEF IdleCall, CallFields
<1>. HIDE DEF c
<1>2. /\ DOMAIN call' = CallFields /\ call'.fn = n /\ call'.faults = wrong
      /\ call'.cause = "none" /\ call'.stage \in {"working", "told", "posted", "lost"}
  <2>1. call' \in Accept(c, e)
    BY DEF c
  <2>. QED
    BY <1>1, <2>1, AcceptedCall DEF Modes
<1>3. Entry' = e
  BY <1>2 DEF Entry
<1>4. CASE e.mode \in {"port", "creates"}
  <2>1. /\ call'.stage = "working" /\ call'.posted = "none"
        /\ call'.held = IF e.buffer = "none" THEN "none" ELSE "native"
    BY <1>1, <1>4 DEF Accept, CallFields, c
  <2>2. StageInv'
    BY <1>2, <1>3, <1>4, <2>1 DEF StageInv, IdleCall, CallFields
  <2>3. RefusedInv' /\ GuardedInv' /\ MemoryInv'
    BY <1>2, <1>3, <2>1 DEF RefusedInv, GuardedInv, MemoryInv
  <2>. QED
    BY <2>2, <2>3 DEF IInv
<1>5. CASE e.mode = "returns"
  <2>1. PICK r \in ResultsNow(e) :
          call' = [c EXCEPT !.stage = "told", !.sdk = Done(r),
                            !.told = Read(e.handler, e.answer[Done(r)])]
    BY <1>5 DEF Accept, c
  <2>2. r \in e.results
    BY DEF ResultsNow
  <2>3. /\ call'.stage = "told" /\ call'.posted = "none" /\ call'.held = "none"
        /\ call'.sdk = Done(r) /\ call'.told = Read(e.handler, e.answer[Done(r)])
    BY <1>1, <2>1 DEF CallFields
  <2>4. Done(r) \in Endings(e)
    BY <2>2 DEF Endings
  <2>5. StageInv'
    BY <1>2, <1>3, <2>3, <2>4 DEF StageInv, IdleCall, CallFields
  <2>6. RefusedInv' /\ GuardedInv' /\ MemoryInv'
    BY <1>2, <1>3, <2>3 DEF RefusedInv, GuardedInv, MemoryInv
  <2>. QED
    BY <2>5, <2>6 DEF IInv
<1>6. CASE e.mode = "posts"
  <2>1. PICK r \in e.results, enough \in BOOLEAN :
          call' = [c EXCEPT !.stage = IF enough THEN "posted" ELSE "lost",
                            !.sdk = Done(r), !.port = "open",
                            !.message = e.answer[Done(r)],
                            !.posted = IF enough THEN "vm" ELSE "none"]
    <3>1. PICK enough \in BOOLEAN : call' \in PostNow(c, e, enough)
      BY <1>6 DEF Accept, Enough, c
    <3>. QED
      BY <3>1 DEF PostNow
  <2>2. /\ call'.stage \in {"posted", "lost"} /\ call'.posted \in {"none", "vm"}
        /\ call'.held = "none"
        /\ call'.sdk = Done(r) /\ call'.message = e.answer[Done(r)]
    BY <1>1, <2>1 DEF CallFields
  <2>3. Done(r) \in Endings(e)
    BY DEF Endings
  <2>4. StageInv'
    BY <1>2, <1>3, <2>2, <2>3 DEF StageInv, IdleCall, CallFields
  <2>5. RefusedInv' /\ GuardedInv' /\ MemoryInv'
    BY <1>2, <1>3, <2>2 DEF RefusedInv, GuardedInv, MemoryInv
  <2>. QED
    BY <2>4, <2>5 DEF IInv
<1>. QED
  BY <1>4, <1>5, <1>6

\* What Refuse and Accept make of a call is a call.
LEMMA StartType ==
  ASSUME IInv, NEW n \in DOMAIN Api, NEW faults,
         NEW found \in {"none", "good", "bad", "mute"}, Start(n, faults, found)
  PROVE  TypeOK'
<1> DEFINE e == Api[n]
           c == [IdleCall EXCEPT !.fn = n, !.faults = Wrong(e, faults, found)]
<1>1. /\ DOMAIN c = CallFields /\ c.fn = n /\ c.port = "none"
      /\ c.held = "none" /\ c.posted = "none"
  BY DEF IdleCall, CallFields
<1>. HIDE DEF c
<1>2. call' \in Accept(c, e) \/ \E k \in 1..Len(Guards(e)) : call' = Refuse(c, e, Guards(e)[k])
  BY DEF Start, c
<1>3. /\ call'.fn = n
      /\ call'.stage \in {"working", "posted", "told", "lost"}
      /\ call'.port \in {"none", "open", "closed"}
      /\ {call'.held, call'.posted} \subseteq {"none", "native", "vm"}
  <2>1. CASE call' \in Accept(c, e)
    <3>1. /\ call'.fn = c.fn /\ call'.stage \in {"working", "told", "posted", "lost"}
          /\ call'.port \in {c.port, "open"} /\ call'.held \in {c.held, "none", "native"}
          /\ call'.posted \in {c.posted, "vm"}
      BY <1>1, <2>1, AcceptedCall DEF Modes
    <3>. QED
      BY <1>1, <3>1
  <2>2. CASE \E k \in 1..Len(Guards(e)) : call' = Refuse(c, e, Guards(e)[k])
    BY <1>1, <2>2 DEF Refuse, CallFields
  <2>. QED
    BY <1>2, <2>1, <2>2
<1>4. {online', user'} \subseteq BOOLEAN
  BY DEF Start, TakesEffect, IInv, TypeOK
<1>5. instance' \in [Products -> {"none", "good", "bad", "mute"}]
  BY DEF Start, IInv, TypeOK
<1>6. UNCHANGED <<state, exited>>
  BY DEF Start
<1>. QED
  BY <1>3, <1>4, <1>5, <1>6 DEF IInv, TypeOK

LEMMA StartPreserves ==
  ASSUME IInv, NEW n \in DOMAIN Api, NEW faults,
         NEW found \in {"none", "good", "bad", "mute"}, Start(n, faults, found)
  PROVE  IInv'
<1> DEFINE e == Api[n]
           wrong == Wrong(e, faults, found)
           failing == {k \in 1..Len(Guards(e)) : Guards(e)[k][1] \in wrong}
           c == [IdleCall EXCEPT !.fn = n, !.faults = wrong]
<1>1. TypeOK'
  BY StartType
<1>2. CASE failing # {}
  <2>1. PICK k \in failing : call' = Refuse(c, e, Guards(e)[k])
    BY <1>2 DEF Start
  <2>. QED
    BY <1>1, <2>1, RefusePreserves
<1>3. CASE failing = {}
  <2>1. call' \in Accept(c, e)
    BY <1>3 DEF Start
  <2>2. wrong \cap Causes(e) = {}
    <3>. HIDE DEF wrong
    <3>. QED
      BY <1>3, GuardsAreGuards
  <2>. QED
    BY <1>1, <2>1, <2>2, AcceptPreserves
<1>. QED
  BY <1>2, <1>3

LEMMA NextPreserves == IInv /\ [Next]_vars => IInv'
<1>. SUFFICES ASSUME IInv, [Next]_vars PROVE IInv'
  OBVIOUS
<1>1. CASE UNCHANGED vars
  <2>1. TypeOK' /\ UNCHANGED <<call, exited>>
    BY <1>1 DEF IInv, TypeOK, vars
  <2>. QED
    BY <2>1, SameCall
<1>2. CASE CallNext
  BY <1>2, StartPreserves, CompletionPreserves, DeliverPreserves, IsolatePreserves
  DEF CallNext
<1>3. CASE IsolateExits \/ IsolateStarts
  BY <1>3, IsolatePreserves
<1>. QED
  BY <1>1, <1>2, <1>3, InitializePreserves, MeanwhilePreserves DEF Next

-----------------------------------------------------------------------------

\* The inductive invariant, for every table of functions.
THEOREM Invariance == Spec => []IInv
BY InitInv, NextPreserves, PTL DEF Spec

\* Memory that crosses the boundary is freed once, whenever the SDK completes
\* and the isolate exits, and lost only with the isolate it was for.
THEOREM BuffersAreFreedOnce == Spec => []EveryBufferFreedOnce
<1>1. IInv => EveryBufferFreedOnce
  BY DEF IInv, MemoryInv, EveryBufferFreedOnce
<1>. QED
  BY <1>1, Invariance, PTL

-----------------------------------------------------------------------------
(* What a function owes its callers: its answers and the handler it names  *)
(* understand each other, its refusals are put in words, and it has a      *)
(* guard for what the SDK does not survive.                                *)

AnswersAreRead(n, e) ==
  \A f \in Endings(e) : Tells(n, f, Read(e.handler, e.answer[f]))

RefusalsExplain(n, e) ==
  \A k \in 1..Len(Guards(e)) :
    LET text == e.says[Guards(e)[k][2]] IN
    text = "nothing" \/ Explains(n, text, Guards(e)[k][1])

AssertsAreGuarded(e) == SdkAsserts(e.op) \subseteq Causes(e)

Sound(n, e) == AnswersAreRead(n, e) /\ RefusalsExplain(n, e) /\ AssertsAreGuarded(e)

\* The message a caller is told of is its own call's, and of how that ended.
LEMMA Truth ==
  ASSUME IInv, \A n \in DOMAIN Api : AnswersAreRead(n, Api[n])
  PROVE  FutureTellsTheTruth
<1>. SUFFICES ASSUME Answered PROVE Tells(call.fn, call.sdk, call.told)
  BY DEF FutureTellsTheTruth
<1>1. /\ call.fn \in DOMAIN Api /\ call.sdk \in Endings(Entry)
      /\ call.told = Read(Entry.handler, Entry.answer[call.sdk])
  BY DEF Answered, IInv, StageInv
<1>. QED
  BY <1>1 DEF AnswersAreRead, Entry

\* A refusal is told of the guard that failed, and what is not refused passed.
LEMMA Refusals ==
  ASSUME IInv, \A n \in DOMAIN Api : RefusalsExplain(n, Api[n]) /\ AssertsAreGuarded(Api[n])
  PROVE  RefusalIsTrue
<1>1. ASSUME call.cause # "none"
      PROVE  /\ call.port # "open" /\ call.held = "none" /\ call.message = NoMessage
             /\ call.told.kind = "refused" => Explains(call.fn, call.told.what, call.cause)
  <2>1. /\ call.stage = "told" /\ call.port = "closed" /\ call.message = NoMessage
        /\ call.held = "none"
    BY <1>1 DEF IInv, RefusedInv
  <2>2. call.fn \in DOMAIN Api
    BY <2>1 DEF IInv, StageInv
  <2>3. PICK k \in 1..Len(Guards(Entry)) :
          /\ call.cause = Guards(Entry)[k][1]
          /\ LET text == Entry.says[Guards(Entry)[k][2]] IN
             IF text = "nothing" THEN call.told.kind = "value"
                                 ELSE call.told = Refused(text)
    BY <1>1 DEF IInv, RefusedInv
  <2> DEFINE text == Entry.says[Guards(Entry)[k][2]]
  <2>4. text = "nothing" \/ Explains(call.fn, text, call.cause)
    BY <2>2, <2>3 DEF RefusalsExplain, Entry
  <2>5. ASSUME call.told.kind = "refused" PROVE Explains(call.fn, call.told.what, call.cause)
    <3>1. text # "nothing" /\ call.told = Refused(text)
      BY <2>3, <2>5
    <3>. HIDE DEF text
    <3>2. call.told.what = text
      BY <3>1 DEF Refused
    <3>. QED
      BY <2>4, <3>1, <3>2
  <2>. QED
    BY <2>1, <2>5
<1>2. ASSUME call.stage # "idle", call.cause = "none"
      PROVE  call.faults \cap SdkAsserts(Entry.op) = {}
  <2>1. call.fn \in DOMAIN Api /\ call.faults \cap Causes(Entry) = {}
    BY <1>2 DEF IInv, StageInv, GuardedInv
  <2>2. SdkAsserts(Entry.op) \subseteq Causes(Entry)
    BY <2>1 DEF AssertsAreGuarded, Entry
  <2>. QED
    BY <2>1, <2>2
<1>. QED
  BY <1>1, <1>2 DEF RefusalIsTrue

-----------------------------------------------------------------------------
(* The answers and their handlers: nothing here is about the table.        *)

HIDE ApiAssumption DEF Products, state

\* What a call may end with.
LEMMA EndingsAre ==
  ASSUME NEW e, NEW f \in Endings(e)
  PROVE  \/ e.mode \in {"port", "creates"} /\ f = Failed
         \/ \E r \in e.results : f = Done(r)
BY DEF Endings

\* A failed future and one with a result.
LEMMA FutureParts ==
  /\ Failed.error = SdkError /\ Failed.error # 0 /\ Failed \in Futures
  /\ \A r \in Results : Done(r).error = 0 /\ Done(r).result = r /\ Done(r) \in Futures
<1>1. Failed.error = SdkError /\ Failed.error # 0
  BY DEF Failed, SdkError
<1>2. ASSUME NEW r \in Results PROVE Done(r).error = 0 /\ Done(r).result = r
  BY DEF Done
<1>3. Failed \in Futures /\ \A r \in Results : Done(r) \in Futures
  BY DEF Futures
<1>. QED
  BY <1>1, <1>2, <1>3

\* What a caller may have to be told, of results that are results.
LEMMA EndingIs ==
  ASSUME NEW e, e.results \subseteq Results, NEW f \in Endings(e)
  PROVE  /\ f \in Futures
         /\ \/ e.mode \in {"port", "creates"} /\ f = Failed /\ f.error # 0
            \/ f.error = 0 /\ f.result \in e.results
<1>1. CASE e.mode \in {"port", "creates"} /\ f = Failed
  BY <1>1, FutureParts
<1>2. CASE \E r \in e.results : f = Done(r)
  BY <1>2, FutureParts
<1>. QED
  BY <1>1, <1>2, EndingsAre

\* A handler goes by its name.
LEMMA Handlers ==
  ASSUME NEW m
  PROVE  /\ Read("AwaitOutcome", m) = AwaitOutcome(m)
         /\ Read("AwaitText", m) = AwaitText(m)
         /\ Read("AwaitSignIn", m) = AwaitSignIn(m)
         /\ Read("AwaitActivated", m) = AwaitActivated(m)
         /\ Read("AwaitBuffer", m) = AwaitBuffer(m)
         /\ Read("GetDocument", m) = GetDocument(m)
         /\ Read("QueryCollection", m) = GetDocument(m)
         /\ Read("CountCollection", m) = CountCollection(m)
         /\ Read("CallFunction", m) = CallFunction(m)
         /\ Read("ConfigValues", m) = ConfigValues(m)
         /\ Read("ReadToken", m) = ReadToken(m)
         /\ Read("CurrentUid", m) = CurrentUid(m)
         /\ Read("PushChild", m) = PushChild(m)
         /\ Read("ConfigValueSource", m) = ConfigValueSource(m)
         /\ Read("ConfigInfo", m) = ConfigInfo(m)
         /\ Read("Returned", m) = Returned(m)
<1>1. Read("AwaitOutcome", m) = AwaitOutcome(m)
  BY DEF Read
<1>2. Read("AwaitText", m) = AwaitText(m)
  BY DEF Read
<1>3. Read("AwaitSignIn", m) = AwaitSignIn(m)
  BY DEF Read
<1>4. Read("AwaitActivated", m) = AwaitActivated(m)
  BY DEF Read
<1>5. Read("AwaitBuffer", m) = AwaitBuffer(m)
  BY DEF Read
<1>6. Read("GetDocument", m) = GetDocument(m)
  BY DEF Read
<1>7. Read("QueryCollection", m) = GetDocument(m)
  BY DEF Read, QueryCollection
<1>8. Read("CountCollection", m) = CountCollection(m)
  BY DEF Read
<1>9. Read("CallFunction", m) = CallFunction(m)
  BY DEF Read
<1>10. Read("ConfigValues", m) = ConfigValues(m)
  BY DEF Read
<1>11. Read("ReadToken", m) = ReadToken(m)
  BY DEF Read
<1>12. Read("CurrentUid", m) = CurrentUid(m)
  BY DEF Read
<1>13. Read("PushChild", m) = PushChild(m)
  BY DEF Read
<1>14. Read("ConfigValueSource", m) = ConfigValueSource(m)
  BY DEF Read
<1>15. Read("ConfigInfo", m) = ConfigInfo(m)
  BY DEF Read
<1>16. Read("Returned", m) = Returned(m)
  BY DEF Read
<1>. QED
  BY <1>1, <1>2, <1>3, <1>4, <1>5, <1>6, <1>7, <1>8, <1>9, <1>10, <1>11, <1>12,
     <1>13, <1>14, <1>15, <1>16

\* A failure that comes as three parts is told, by every handler of them.
LEMMA FailureIsTold ==
  ASSUME NEW n, NEW f, f.error # 0,
         NEW m, m = fdb_post_outcome(FALSE, f.error, Message(f))
  PROVE  /\ Tells(n, f, AwaitOutcome(m)) /\ Tells(n, f, AwaitText(m))
         /\ Tells(n, f, AwaitActivated(m)) /\ Tells(n, f, AwaitBuffer(m))
<1>1. m.shape = "list" /\ m.items[1] = FALSE /\ m.items[2] = f.error
  BY DEF fdb_post_outcome
<1>2. AwaitOutcome(m).kind = "error" /\ AwaitOutcome(m).code = f.error
  BY <1>1 DEF AwaitOutcome, Error
<1>3. AwaitText(m) = AwaitOutcome(m) /\ AwaitActivated(m) = AwaitOutcome(m)
      /\ AwaitBuffer(m) = AwaitOutcome(m)
  BY <1>1 DEF AwaitText, AwaitActivated, AwaitBuffer
<1>. QED
  BY <1>2, <1>3 DEF Tells

\* A success that comes as three parts says so, or carries a text or a number.
LEMMA SuccessIsTold ==
  ASSUME NEW n, NEW f, f.error = 0, f.result # "big", NEW c, NEW t,
         NEW m, m = fdb_post_outcome(TRUE, c, t)
  PROVE  /\ f.result = "done" => Tells(n, f, AwaitOutcome(m))
         /\ f.result = t => Tells(n, f, AwaitText(m))
         /\ f.result = "yes" /\ c = 1 => Tells(n, f, AwaitActivated(m))
         /\ f.result = "no" /\ c = 0 => Tells(n, f, AwaitActivated(m))
<1>1. m.shape = "list" /\ m.items[1] = TRUE /\ m.items[2] = c /\ m.items[3] = t
  BY DEF fdb_post_outcome
<1>2. AwaitOutcome(m) = Value("done") /\ AwaitText(m) = Value(t)
      /\ AwaitActivated(m) = Value(IF c = 1 THEN "yes" ELSE "no")
  BY <1>1 DEF AwaitOutcome, AwaitText, AwaitActivated
<1>3. Tells(n, f, Value(f.result))
  BY DEF Tells
<1>4. /\ c = 1 => AwaitActivated(m) = Value("yes")
      /\ c = 0 => AwaitActivated(m) = Value("no")
  <2>1. /\ c = 1 => (IF c = 1 THEN "yes" ELSE "no") = "yes"
        /\ c = 0 => (IF c = 1 THEN "yes" ELSE "no") = "no"
    OBVIOUS
  <2>. QED
    BY <1>2, <2>1
<1>. QED
  BY <1>2, <1>3, <1>4

\* What could not be encoded is told as a failure.
LEMMA UnencodedIsTold ==
  ASSUME NEW n, NEW f, f.error = 0, f.result = "big", NEW c, NEW t,
         NEW m, m = fdb_post_outcome(FALSE, c, t)
  PROVE  Tells(n, f, AwaitBuffer(m))
<1>1. m.shape = "list" /\ m.items[1] = FALSE
  BY DEF fdb_post_outcome
<1>2. AwaitBuffer(m).kind = "error"
  BY <1>1 DEF AwaitBuffer, AwaitOutcome, Error
<1>. QED
  BY <1>2 DEF Tells

\* To awaitBuffer a buffer is the payload, whatever its seq.
LEMMA PayloadIsTold ==
  ASSUME NEW n, NEW f, f.error = 0, f.result # "big", NEW seq,
         NEW m, m = fdb_post_buffer(seq, f.result)
  PROVE  Tells(n, f, AwaitBuffer(m))
<1>1. AwaitBuffer(m) = Value(f.result)
  BY DEF AwaitBuffer, fdb_post_buffer
<1>. QED
  BY <1>1 DEF Tells

\* A buffer is the payload, or what its seq says.
LEMMA BufferIsTold ==
  ASSUME NEW n, NEW f, NEW seq \in Int, NEW payload, NEW m, m = fdb_post_buffer(seq, payload)
  PROVE  /\ f.error = 0 /\ f.result # "big" /\ payload = f.result /\ seq >= 0 =>
              /\ Tells(n, f, CountCollection(m)) /\ Tells(n, f, CallFunction(m))
              /\ Tells(n, f, ConfigValues(m))
              /\ payload # "" => Tells(n, f, GetDocument(m))
         /\ f.error = 0 /\ f.result = "absent" /\ payload = "" /\ seq >= 0 =>
              Tells(n, f, GetDocument(m))
         /\ seq < 0 /\ ((f.error # 0 /\ n \in CodeIsLost) \/ (f.error = 0 /\ f.result = "big")) =>
              /\ Tells(n, f, GetDocument(m)) /\ Tells(n, f, CountCollection(m))
              /\ Tells(n, f, CallFunction(m)) /\ Tells(n, f, ConfigValues(m))
<1>1. m.shape = "buffer" /\ m.seq = seq /\ m.payload = payload
  BY DEF fdb_post_buffer
<1>3. ASSUME seq >= 0
      PROVE  /\ GetDocument(m) = Value(IF payload = "" THEN "absent" ELSE payload)
             /\ CountCollection(m) = Value(payload) /\ CallFunction(m) = Value(payload)
             /\ ConfigValues(m) = Value(payload)
  <2>1. ~(m.seq < 0)
    BY <1>1, <1>3
  <2>. QED
    BY <1>1, <2>1 DEF GetDocument, CountCollection, CallFunction, ConfigValues
<1>4. ASSUME seq < 0
      PROVE  /\ GetDocument(m).kind = "error" /\ CountCollection(m).kind = "error"
             /\ CallFunction(m).kind = "error" /\ ConfigValues(m).kind = "error"
  <2>1. m.shape = "buffer" /\ m.seq < 0
    BY <1>1, <1>4
  <2>2. GetDocument(m).kind = "error" /\ CountCollection(m).kind = "error"
    BY <2>1 DEF GetDocument, CountCollection, Error
  <2>3. CallFunction(m).kind = "error" /\ ConfigValues(m).kind = "error"
    BY <2>1 DEF CallFunction, ConfigValues, Error
  <2>. QED
    BY <2>2, <2>3
<1>6. ASSUME f.error = 0, f.result # "big", payload = f.result, seq >= 0
      PROVE  /\ Tells(n, f, CountCollection(m)) /\ Tells(n, f, CallFunction(m))
             /\ Tells(n, f, ConfigValues(m))
             /\ payload # "" => Tells(n, f, GetDocument(m))
  BY <1>3, <1>6 DEF Tells
<1>7. ASSUME f.error = 0, f.result = "absent", payload = "", seq >= 0
      PROVE  Tells(n, f, GetDocument(m))
  BY <1>3, <1>7 DEF Tells
<1>8. ASSUME (f.error # 0 /\ n \in CodeIsLost) \/ (f.error = 0 /\ f.result = "big"), seq < 0
      PROVE  /\ Tells(n, f, GetDocument(m)) /\ Tells(n, f, CountCollection(m))
             /\ Tells(n, f, CallFunction(m)) /\ Tells(n, f, ConfigValues(m))
  BY <1>4, <1>8 DEF Tells
<1>. QED
  BY <1>6, <1>7, <1>8

-----------------------------------------------------------------------------
(* Each answer of three parts, and the handler that is to read it.          *)

\* How it ended, for awaitOutcome.
LEMMA OutcomeIsRead ==
  ASSUME NEW n, NEW e, e.handler = "AwaitOutcome", e.results = {"done"},
         \A f \in Futures : e.answer[f] = PostOutcome(f)
  PROVE  AnswersAreRead(n, e)
<1>. SUFFICES ASSUME NEW f \in Endings(e)
              PROVE  Tells(n, f, AwaitOutcome(e.answer[f]))
  BY Handlers DEF AnswersAreRead
<1>0. e.results \subseteq Results
  BY DEF Results
<1>1. f \in Futures /\ (f.error # 0 \/ (f.error = 0 /\ f.result = "done"))
  BY <1>0, EndingIs
<1>2. CASE f.error # 0
  <2>1. e.answer[f] = fdb_post_outcome(FALSE, f.error, Message(f))
    BY <1>1, <1>2 DEF PostOutcome, fdb_post_outcome
  <2>. QED
    BY <1>1, <1>2, <2>1, FailureIsTold
<1>3. CASE f.error = 0 /\ f.result = "done"
  <2>1. e.answer[f] = fdb_post_outcome(TRUE, f.error, Message(f))
    BY <1>1, <1>3 DEF PostOutcome, fdb_post_outcome
  <2>. QED
    BY <1>1, <1>3, <2>1, SuccessIsTold
<1>. QED
  BY <1>1, <1>2, <1>3

\* A function that answers by returning.
LEMMA ZeroIsRead ==
  ASSUME NEW n, NEW e, e.handler = "Returned", e.results = {"done"}, e.mode = "returns"
  PROVE  AnswersAreRead(n, e)
<1>. SUFFICES ASSUME NEW f \in Endings(e)
              PROVE  Tells(n, f, Returned(e.answer[f]))
  BY Handlers DEF AnswersAreRead
<1>1. e.results \subseteq Results
  BY DEF Results
<1>2. f.error = 0 /\ f.result = "done"
  BY <1>1, EndingIs
<1>. QED
  BY <1>2 DEF Tells, Returned

\* A text that rides in the message, for awaitText.
LEMMA TextIsRead ==
  ASSUME NEW n, NEW e, e.handler = "AwaitText", e.results \subseteq {"v", "token"},
         \A f \in Futures :
           e.answer[f] = IF f.error # 0 THEN fdb_post_outcome(FALSE, f.error, Message(f))
                                        ELSE fdb_post_outcome(TRUE, 0, f.result)
  PROVE  AnswersAreRead(n, e)
<1>. SUFFICES ASSUME NEW f \in Endings(e)
              PROVE  Tells(n, f, AwaitText(e.answer[f]))
  BY Handlers DEF AnswersAreRead
<1>0. e.results \subseteq Results
  BY DEF Results
<1>1. f \in Futures /\ (f.error # 0 \/ (f.error = 0 /\ f.result # "big"))
  BY <1>0, EndingIs
<1>2. CASE f.error # 0
  <2>1. e.answer[f] = fdb_post_outcome(FALSE, f.error, Message(f))
    BY <1>1, <1>2
  <2>. QED
    BY <1>1, <1>2, <2>1, FailureIsTold
<1>3. CASE f.error = 0 /\ f.result # "big"
  <2>1. e.answer[f] = fdb_post_outcome(TRUE, 0, f.result)
    BY <1>1, <1>3
  <2>. QED
    BY <1>1, <1>3, <2>1, SuccessIsTold
<1>. QED
  BY <1>1, <1>2, <1>3

\* True or false as the code of a success.
LEMMA ActivatedIsRead ==
  ASSUME NEW n, NEW e, e.handler = "AwaitActivated", e.results = {"yes", "no"},
         \A f \in Futures :
           /\ f.error # 0 => e.answer[f] = fdb_post_outcome(FALSE, f.error, Message(f))
           /\ f.error = 0 /\ f.result = "yes" => e.answer[f] = fdb_post_outcome(TRUE, 1, "")
           /\ f.error = 0 /\ f.result = "no" => e.answer[f] = fdb_post_outcome(TRUE, 0, "")
  PROVE  AnswersAreRead(n, e)
<1>. SUFFICES ASSUME NEW f \in Endings(e)
              PROVE  Tells(n, f, AwaitActivated(e.answer[f]))
  BY Handlers DEF AnswersAreRead
<1>0. e.results \subseteq Results
  BY DEF Results
<1>1. f \in Futures /\ (f.error # 0 \/ (f.error = 0 /\ f.result \in {"yes", "no"}))
  BY <1>0, EndingIs
<1>2. CASE f.error # 0
  <2>1. e.answer[f] = fdb_post_outcome(FALSE, f.error, Message(f))
    BY <1>1, <1>2
  <2>. QED
    BY <1>1, <1>2, <2>1, FailureIsTold
<1>3. CASE f.error = 0 /\ f.result = "yes"
  <2>1. e.answer[f] = fdb_post_outcome(TRUE, 1, "")
    BY <1>1, <1>3
  <2>. QED
    BY <1>1, <1>3, <2>1, SuccessIsTold
<1>4. CASE f.error = 0 /\ f.result = "no"
  <2>1. e.answer[f] = fdb_post_outcome(TRUE, 0, "")
    BY <1>1, <1>4
  <2>. QED
    BY <1>1, <1>4, <2>1, SuccessIsTold
<1>. QED
  BY <1>1, <1>2, <1>3, <1>4

\* A failure as the three parts, a success as the payload.
LEMMA PayloadIsRead ==
  ASSUME NEW n, NEW e, e.handler = "AwaitBuffer", e.results \subseteq {"v", "big"},
         \A f \in Futures :
           /\ f.error # 0 => e.answer[f] = fdb_post_outcome(FALSE, f.error, Message(f))
           /\ f.error = 0 /\ f.result = "big" /\ "big" \in e.results =>
                e.answer[f] = fdb_post_outcome(FALSE, -2, "cannot be encoded")
           /\ f.error = 0 /\ f.result = "v" => e.answer[f] = fdb_post_buffer(1, f.result)
  PROVE  AnswersAreRead(n, e)
<1>. SUFFICES ASSUME NEW f \in Endings(e)
              PROVE  Tells(n, f, AwaitBuffer(e.answer[f]))
  BY Handlers DEF AnswersAreRead
<1>0. e.results \subseteq Results
  BY DEF Results
<1>1. f \in Futures /\ (f.error # 0 \/ (f.error = 0 /\ f.result \in e.results))
  BY <1>0, EndingIs
<1>2. CASE f.error # 0
  <2>1. e.answer[f] = fdb_post_outcome(FALSE, f.error, Message(f))
    BY <1>1, <1>2
  <2>. QED
    BY <1>1, <1>2, <2>1, FailureIsTold
<1>3. CASE f.error = 0 /\ f.result \in e.results /\ f.result = "big"
  <2>1. e.answer[f] = fdb_post_outcome(FALSE, -2, "cannot be encoded")
    BY <1>1, <1>3
  <2>. QED
    BY <1>1, <1>3, <2>1, UnencodedIsTold
<1>4. CASE f.error = 0 /\ f.result = "v"
  <2>1. e.answer[f] = fdb_post_buffer(1, f.result)
    BY <1>1, <1>4
  <2>2. f.result # "big" /\ f.error = 0
    BY <1>4
  <2>. QED
    BY <2>1, <2>2, PayloadIsTold
<1>. QED
  BY <1>1, <1>2, <1>3, <1>4

\* A buffer as the functions post it, for the handlers that go by its seq.
LEMMA SeqIsTold ==
  ASSUME NEW n, NEW f, NEW m
  PROVE  LET AllTell == /\ Tells(n, f, GetDocument(m)) /\ Tells(n, f, CountCollection(m))
                        /\ Tells(n, f, CallFunction(m)) /\ Tells(n, f, ConfigValues(m))
         IN
         /\ f.error # 0 /\ n \in CodeIsLost =>
              \A payload : m = fdb_post_buffer(-1, payload) => AllTell
         /\ f.error = 0 /\ f.result = "big" =>
              (m = fdb_post_buffer(-2, "") => AllTell)
         /\ f.error = 0 /\ f.result = "v" =>
              (m = fdb_post_buffer(1, "v") => AllTell)
         /\ f.error = 0 /\ f.result = "absent" =>
              (m = fdb_post_buffer(1, "") => Tells(n, f, GetDocument(m)))
<1> DEFINE AllTell == /\ Tells(n, f, GetDocument(m)) /\ Tells(n, f, CountCollection(m))
                      /\ Tells(n, f, CallFunction(m)) /\ Tells(n, f, ConfigValues(m))
<1>1. -1 \in Int /\ -1 < 0 /\ -2 \in Int /\ -2 < 0 /\ 1 \in Int /\ 1 >= 0
  OBVIOUS
<1>2. ASSUME f.error # 0, n \in CodeIsLost, NEW payload, m = fdb_post_buffer(-1, payload)
      PROVE  AllTell
  BY <1>1, <1>2, BufferIsTold
<1>3. ASSUME f.error = 0, f.result = "big", m = fdb_post_buffer(-2, "")
      PROVE  AllTell
  BY <1>1, <1>3, BufferIsTold
<1>4. ASSUME f.error = 0, f.result = "v", m = fdb_post_buffer(1, "v")
      PROVE  AllTell
  <2>1. f.result # "big" /\ f.result # ""
    BY <1>4
  <2>. QED
    BY <1>1, <1>4, <2>1, BufferIsTold
<1>5. ASSUME f.error = 0, f.result = "absent", m = fdb_post_buffer(1, "")
      PROVE  Tells(n, f, GetDocument(m))
  BY <1>1, <1>5, BufferIsTold
<1>. QED
  BY <1>2, <1>3, <1>4, <1>5

\* An answer that is such a buffer.  Only a document may be absent, and only
\* where the SDK's code is not passed on does a failure come without it.
PostsSeq(n, e) ==
  /\ e.results \subseteq {"v", "big", "absent"}
  /\ e.handler \in {"GetDocument", "QueryCollection", "CountCollection",
                    "CallFunction", "ConfigValues"}
  /\ "absent" \in e.results => e.handler = "GetDocument"
  /\ n \in CodeIsLost \/ e.mode \notin {"port", "creates"}
  /\ \A f \in Futures :
       /\ f.error # 0 /\ n \in CodeIsLost =>
            \E payload : e.answer[f] = fdb_post_buffer(-1, payload)
       /\ f.error = 0 /\ f.result = "big" /\ "big" \in e.results =>
            e.answer[f] = fdb_post_buffer(-2, "")
       /\ f.error = 0 /\ f.result = "absent" /\ "absent" \in e.results =>
            e.answer[f] = fdb_post_buffer(1, "")
       /\ f.error = 0 /\ f.result = "v" => e.answer[f] = fdb_post_buffer(1, "v")

LEMMA BufferIsRead ==
  ASSUME NEW n, NEW e, PostsSeq(n, e)
  PROVE  AnswersAreRead(n, e)
<1>. USE DEF PostsSeq
<1>. SUFFICES ASSUME NEW f \in Endings(e)
              PROVE  Tells(n, f, Read(e.handler, e.answer[f]))
  BY DEF AnswersAreRead
<1>0. e.results \subseteq Results
  BY DEF Results
<1>1. /\ f \in Futures
      /\ \/ f.error # 0 /\ n \in CodeIsLost
         \/ f.error = 0 /\ f.result \in e.results
  BY <1>0, EndingIs
<1> DEFINE m == e.answer[f]
           AllTell == /\ Tells(n, f, GetDocument(m)) /\ Tells(n, f, CountCollection(m))
                      /\ Tells(n, f, CallFunction(m)) /\ Tells(n, f, ConfigValues(m))
<1>2. /\ AllTell => Tells(n, f, Read(e.handler, m))
      /\ e.handler = "GetDocument" /\ Tells(n, f, GetDocument(m)) =>
           Tells(n, f, Read(e.handler, m))
  <2>. HIDE DEF m
  <2>. QED
    BY Handlers
<1>3. CASE f.error # 0 /\ n \in CodeIsLost
  <2>1. PICK payload : m = fdb_post_buffer(-1, payload)
    BY <1>1, <1>3
  <2>2. AllTell
    BY <1>3, <2>1, SeqIsTold
  <2>. QED
    BY <1>2, <2>2
<1>4. CASE f.error = 0 /\ f.result = "big" /\ f.result \in e.results
  <2>1. m = fdb_post_buffer(-2, "")
    BY <1>1, <1>4
  <2>2. AllTell
    BY <1>4, <2>1, SeqIsTold
  <2>. QED
    BY <1>2, <2>2
<1>5. CASE f.error = 0 /\ f.result = "v"
  <2>1. m = fdb_post_buffer(1, "v")
    BY <1>1, <1>5
  <2>2. AllTell
    BY <1>5, <2>1, SeqIsTold
  <2>. QED
    BY <1>2, <2>2
<1>6. CASE f.error = 0 /\ f.result = "absent" /\ f.result \in e.results
  <2>1. m = fdb_post_buffer(1, "") /\ e.handler = "GetDocument"
    BY <1>1, <1>6
  <2>2. Tells(n, f, GetDocument(m))
    BY <1>6, <2>1, SeqIsTold
  <2>. QED
    BY <1>2, <2>1, <2>2
<1>. QED
  BY <1>1, <1>3, <1>4, <1>5, <1>6

-----------------------------------------------------------------------------
(* The functions of the library, product by product. *)

Database     == INSTANCE DatabaseCalls
Firestore    == INSTANCE FirestoreCalls
Auth         == INSTANCE AuthCalls
Storage      == INSTANCE StorageCalls
RemoteConfig == INSTANCE RemoteConfigCalls
Functions    == INSTANCE FunctionsCalls

\* Every module of functions means the same by its answers of three parts.
LEMMA SameOutcome ==
  ASSUME NEW f \in Futures
  PROVE  /\ Database!Outcome[f] = PostOutcome(f)
         /\ Firestore!Outcome[f] = PostOutcome(f)
         /\ Storage!Outcome[f] = PostOutcome(f)
         /\ RemoteConfig!Outcome[f] = PostOutcome(f)
<1>1. Database!Outcome[f] = PostOutcome(f)
  BY DEF Database!Outcome, Database!PostOutcome, Database!fdb_post_outcome, Database!Message,
     Database!Futures, Database!Failed, Database!Done, Database!Results, Database!SdkError,
     Futures, Failed, Done, Results, SdkError, PostOutcome, fdb_post_outcome, Message
<1>2. Firestore!Outcome[f] = PostOutcome(f)
  BY DEF Firestore!Outcome, Firestore!PostOutcome, Firestore!fdb_post_outcome,
     Firestore!Message, Firestore!Futures, Firestore!Failed, Firestore!Done,
     Firestore!Results, Firestore!SdkError,
     Futures, Failed, Done, Results, SdkError, PostOutcome, fdb_post_outcome, Message
<1>3. Storage!Outcome[f] = PostOutcome(f)
  BY DEF Storage!Outcome, Storage!PostOutcome, Storage!fdb_post_outcome, Storage!Message,
     Storage!Futures, Storage!Failed, Storage!Done, Storage!Results, Storage!SdkError,
     Futures, Failed, Done, Results, SdkError, PostOutcome, fdb_post_outcome, Message
<1>4. RemoteConfig!Outcome[f] = PostOutcome(f)
  BY DEF RemoteConfig!Outcome, RemoteConfig!PostOutcome, RemoteConfig!fdb_post_outcome,
     RemoteConfig!Message, RemoteConfig!Futures, RemoteConfig!Failed, RemoteConfig!Done,
     RemoteConfig!Results, RemoteConfig!SdkError,
     Futures, Failed, Done, Results, SdkError, PostOutcome, fdb_post_outcome, Message
<1>. QED
  BY <1>1, <1>2, <1>3, <1>4

\* What the writes of the database, and its functions that return, answer.
LEMMA DatabaseAnswers ==
  ASSUME NEW n, NEW op, NEW refuses, NEW says
  PROVE  /\ AnswersAreRead(n, Database!DbWrite(op, refuses))
         /\ AnswersAreRead(n, Database!DbSync(op, refuses, says))
         /\ AnswersAreRead(n, Database!fdb_db_push)
<1>1. AnswersAreRead(n, Database!DbWrite(op, refuses))
  <2> DEFINE e == Database!DbWrite(op, refuses)
  <2>1. e.handler = "AwaitOutcome" /\ e.results = {"done"} /\ e.answer = Database!Outcome
    BY DEF Database!DbWrite, Database!Async
  <2>. HIDE DEF e
  <2>2. AnswersAreRead(n, e)
    BY <2>1, SameOutcome, OutcomeIsRead
  <2>. QED
    BY <2>2 DEF e
<1>2. AnswersAreRead(n, Database!DbSync(op, refuses, says))
  <2> DEFINE e == Database!DbSync(op, refuses, says)
  <2>1. e.handler = "Returned" /\ e.results = {"done"} /\ e.mode = "returns"
    BY DEF Database!DbSync, Database!Sync, Database!Async
  <2>. HIDE DEF e
  <2>2. AnswersAreRead(n, e)
    BY <2>1, ZeroIsRead
  <2>. QED
    BY <2>2 DEF e
<1>3. AnswersAreRead(n, Database!fdb_db_push)
  <2> DEFINE e == Database!fdb_db_push
  <2>1. e.handler = "PushChild" /\ e.results = {"v"} /\ e.mode = "returns"
    BY DEF Database!fdb_db_push, Database!Sync, Database!Async
  <2>. HIDE DEF e
  <2>2. ASSUME NEW f \in Endings(e) PROVE Tells(n, f, Read(e.handler, e.answer[f]))
    <3>1. e.results \subseteq Results
      BY <2>1 DEF Results
    <3>2. f.error = 0 /\ f.result = "v"
      BY <2>1, <3>1, EndingIs
    <3>3. Read(e.handler, e.answer[f]) = Value("v")
      BY <2>1, Handlers DEF PushChild
    <3>. QED
      BY <3>2, <3>3 DEF Tells
  <2>. QED
    BY <2>2 DEF AnswersAreRead, e
<1>. QED
  BY <1>1, <1>2, <1>3

\* What the Dart callers of the database make of a code.
LEMMA DatabaseSays ==
  /\ Database!SaysDb[-1] = "app" /\ Database!SaysDb[-2] = "path"
     /\ Database!SaysDb[-3] = "value" /\ Database!SaysDb[-4] = "map"
  /\ Database!SaysRefuse[-1] = "app" /\ Database!SaysRefuse[-2] = "path"
     /\ Database!SaysRefuse[-3] = "query" /\ Database!SaysRefuse[-4] = "code"
  /\ Database!SaysPush[-1] = "app" /\ Database!SaysPush[-2] = "path"
     /\ Database!SaysPush[-3] = "code" /\ Database!SaysPush[-4] = "code"
  /\ Database!SaysApp[-1] = "app" /\ Database!SaysApp[-2] = "app"
     /\ Database!SaysApp[-3] = "app" /\ Database!SaysApp[-4] = "app"
  /\ Database!SaysCode[-1] = "code" /\ Database!SaysCode[-2] = "code"
     /\ Database!SaysCode[-3] = "code" /\ Database!SaysCode[-4] = "code"
<1>0. /\ DOMAIN Database!SaysDb = {-1, -2, -3, -4}
  BY DEF Database!SaysDb, Database!Codes
<1>1. Database!SaysDb[-1] = "app" /\ Database!SaysDb[-2] = "path"
      /\ Database!SaysDb[-3] = "value" /\ Database!SaysDb[-4] = "map"
  BY DEF Database!SaysDb, Database!Codes
<1>2. Database!SaysRefuse[-1] = "app" /\ Database!SaysRefuse[-2] = "path"
      /\ Database!SaysRefuse[-3] = "query" /\ Database!SaysRefuse[-4] = "code"
  BY <1>0, <1>1 DEF Database!SaysRefuse
<1>3. Database!SaysPush[-1] = "app" /\ Database!SaysPush[-2] = "path"
      /\ Database!SaysPush[-3] = "code" /\ Database!SaysPush[-4] = "code"
  BY <1>0, <1>1 DEF Database!SaysPush
<1>4. Database!SaysApp[-1] = "app" /\ Database!SaysApp[-2] = "app"
      /\ Database!SaysApp[-3] = "app" /\ Database!SaysApp[-4] = "app"
  BY DEF Database!SaysApp, Database!Codes
<1>5. Database!SaysCode[-1] = "code" /\ Database!SaysCode[-2] = "code"
      /\ Database!SaysCode[-3] = "code" /\ Database!SaysCode[-4] = "code"
  BY DEF Database!SaysCode, Database!Codes
<1>. QED
  BY <1>1, <1>2, <1>3, <1>4, <1>5

\* The functions of firebase_impl.cpp.
LEMMA DatabaseIsSound ==
  ASSUME NEW n \in DOMAIN Database!DatabaseFunctions
  PROVE  Sound(n, Database!DatabaseFunctions[n])
<1>. USE DEF Guards, Explains, Names, NotThere, SdkAsserts, Causes,
         Database!DbWrite, Database!DbSync, Database!Async, Database!Sync,
         Database!NoPath, Database!BadValue
<1>1. Sound("fdb_db_set", Database!fdb_db_set)
  <2>1. AnswersAreRead("fdb_db_set", Database!fdb_db_set)
    BY DatabaseAnswers DEF Database!fdb_db_set
  <2>2. /\ RefusalsExplain("fdb_db_set", Database!fdb_db_set)
        /\ AssertsAreGuarded(Database!fdb_db_set)
    BY DatabaseSays DEF RefusalsExplain, AssertsAreGuarded,
        Database!fdb_db_set
  <2>. QED
    BY <2>1, <2>2 DEF Sound
<1>2. Sound("fdb_db_update", Database!fdb_db_update)
  <2>1. AnswersAreRead("fdb_db_update", Database!fdb_db_update)
    BY DatabaseAnswers DEF Database!fdb_db_update
  <2>2. /\ RefusalsExplain("fdb_db_update", Database!fdb_db_update)
        /\ AssertsAreGuarded(Database!fdb_db_update)
    BY DatabaseSays DEF RefusalsExplain, AssertsAreGuarded,
        Database!fdb_db_update
  <2>. QED
    BY <2>1, <2>2 DEF Sound
<1>3. Sound("fdb_db_set_with_priority", Database!fdb_db_set_with_priority)
  <2>1. AnswersAreRead("fdb_db_set_with_priority", Database!fdb_db_set_with_priority)
    BY DatabaseAnswers DEF Database!fdb_db_set_with_priority
  <2>2. /\ RefusalsExplain("fdb_db_set_with_priority", Database!fdb_db_set_with_priority)
        /\ AssertsAreGuarded(Database!fdb_db_set_with_priority)
    BY DatabaseSays DEF RefusalsExplain, AssertsAreGuarded,
        Database!fdb_db_set_with_priority
  <2>. QED
    BY <2>1, <2>2 DEF Sound
<1>4. Sound("fdb_db_set_priority", Database!fdb_db_set_priority)
  <2>1. AnswersAreRead("fdb_db_set_priority", Database!fdb_db_set_priority)
    BY DatabaseAnswers DEF Database!fdb_db_set_priority
  <2>2. /\ RefusalsExplain("fdb_db_set_priority", Database!fdb_db_set_priority)
        /\ AssertsAreGuarded(Database!fdb_db_set_priority)
    BY DatabaseSays DEF RefusalsExplain, AssertsAreGuarded,
        Database!fdb_db_set_priority
  <2>. QED
    BY <2>1, <2>2 DEF Sound
<1>5. Sound("fdb_db_remove", Database!fdb_db_remove)
  <2>1. AnswersAreRead("fdb_db_remove", Database!fdb_db_remove)
    BY DatabaseAnswers DEF Database!fdb_db_remove
  <2>2. /\ RefusalsExplain("fdb_db_remove", Database!fdb_db_remove)
        /\ AssertsAreGuarded(Database!fdb_db_remove)
    BY DatabaseSays DEF RefusalsExplain, AssertsAreGuarded,
        Database!fdb_db_remove
  <2>. QED
    BY <2>1, <2>2 DEF Sound
<1>6. Sound("fdb_db_on_disconnect_set", Database!fdb_db_on_disconnect_set)
  <2>1. AnswersAreRead("fdb_db_on_disconnect_set", Database!fdb_db_on_disconnect_set)
    BY DatabaseAnswers DEF Database!fdb_db_on_disconnect_set
  <2>2. /\ RefusalsExplain("fdb_db_on_disconnect_set", Database!fdb_db_on_disconnect_set)
        /\ AssertsAreGuarded(Database!fdb_db_on_disconnect_set)
    BY DatabaseSays DEF RefusalsExplain, AssertsAreGuarded,
        Database!fdb_db_on_disconnect_set
  <2>. QED
    BY <2>1, <2>2 DEF Sound
<1>7. Sound("fdb_db_on_disconnect_update", Database!fdb_db_on_disconnect_update)
  <2>1. AnswersAreRead("fdb_db_on_disconnect_update", Database!fdb_db_on_disconnect_update)
    BY DatabaseAnswers DEF Database!fdb_db_on_disconnect_update
  <2>2. /\ RefusalsExplain("fdb_db_on_disconnect_update",
                           Database!fdb_db_on_disconnect_update)
        /\ AssertsAreGuarded(Database!fdb_db_on_disconnect_update)
    BY DatabaseSays DEF RefusalsExplain, AssertsAreGuarded,
        Database!fdb_db_on_disconnect_update
  <2>. QED
    BY <2>1, <2>2 DEF Sound
<1>8. Sound("fdb_db_on_disconnect_set_with_priority",
      Database!fdb_db_on_disconnect_set_with_priority)
  <2>1. AnswersAreRead("fdb_db_on_disconnect_set_with_priority",
        Database!fdb_db_on_disconnect_set_with_priority)
    BY DatabaseAnswers DEF Database!fdb_db_on_disconnect_set_with_priority
  <2>2. /\ RefusalsExplain("fdb_db_on_disconnect_set_with_priority",
                           Database!fdb_db_on_disconnect_set_with_priority)
        /\ AssertsAreGuarded(Database!fdb_db_on_disconnect_set_with_priority)
    BY DatabaseSays DEF RefusalsExplain, AssertsAreGuarded,
        Database!fdb_db_on_disconnect_set_with_priority
  <2>. QED
    BY <2>1, <2>2 DEF Sound
<1>9. Sound("fdb_db_on_disconnect_remove", Database!fdb_db_on_disconnect_remove)
  <2>1. AnswersAreRead("fdb_db_on_disconnect_remove", Database!fdb_db_on_disconnect_remove)
    BY DatabaseAnswers DEF Database!fdb_db_on_disconnect_remove
  <2>2. /\ RefusalsExplain("fdb_db_on_disconnect_remove",
                           Database!fdb_db_on_disconnect_remove)
        /\ AssertsAreGuarded(Database!fdb_db_on_disconnect_remove)
    BY DatabaseSays DEF RefusalsExplain, AssertsAreGuarded,
        Database!fdb_db_on_disconnect_remove
  <2>. QED
    BY <2>1, <2>2 DEF Sound
<1>10. Sound("fdb_db_on_disconnect_cancel", Database!fdb_db_on_disconnect_cancel)
  <2>1. AnswersAreRead("fdb_db_on_disconnect_cancel", Database!fdb_db_on_disconnect_cancel)
    BY DatabaseAnswers DEF Database!fdb_db_on_disconnect_cancel
  <2>2. /\ RefusalsExplain("fdb_db_on_disconnect_cancel",
                           Database!fdb_db_on_disconnect_cancel)
        /\ AssertsAreGuarded(Database!fdb_db_on_disconnect_cancel)
    BY DatabaseSays DEF RefusalsExplain, AssertsAreGuarded,
        Database!fdb_db_on_disconnect_cancel
  <2>. QED
    BY <2>1, <2>2 DEF Sound
<1>11. Sound("fdb_db_set_string", Database!fdb_db_set_string)
  <2>1. AnswersAreRead("fdb_db_set_string", Database!fdb_db_set_string)
    BY DatabaseAnswers DEF Database!fdb_db_set_string
  <2>2. /\ RefusalsExplain("fdb_db_set_string", Database!fdb_db_set_string)
        /\ AssertsAreGuarded(Database!fdb_db_set_string)
    BY DatabaseSays DEF RefusalsExplain, AssertsAreGuarded,
        Database!fdb_db_set_string
  <2>. QED
    BY <2>1, <2>2 DEF Sound
<1>12. Sound("fdb_db_keep_synced", Database!fdb_db_keep_synced)
  <2>1. AnswersAreRead("fdb_db_keep_synced", Database!fdb_db_keep_synced)
    BY DatabaseAnswers DEF Database!fdb_db_keep_synced
  <2>2. /\ RefusalsExplain("fdb_db_keep_synced", Database!fdb_db_keep_synced)
        /\ AssertsAreGuarded(Database!fdb_db_keep_synced)
    BY DatabaseSays DEF RefusalsExplain, AssertsAreGuarded,
        Database!fdb_db_keep_synced
  <2>. QED
    BY <2>1, <2>2 DEF Sound
<1>13. Sound("fdb_db_purge_outstanding_writes", Database!fdb_db_purge_outstanding_writes)
  <2>1. AnswersAreRead("fdb_db_purge_outstanding_writes",
        Database!fdb_db_purge_outstanding_writes)
    BY DatabaseAnswers DEF Database!fdb_db_purge_outstanding_writes
  <2>2. /\ RefusalsExplain("fdb_db_purge_outstanding_writes",
                           Database!fdb_db_purge_outstanding_writes)
        /\ AssertsAreGuarded(Database!fdb_db_purge_outstanding_writes)
    BY DatabaseSays DEF RefusalsExplain, AssertsAreGuarded,
        Database!fdb_db_purge_outstanding_writes
  <2>. QED
    BY <2>1, <2>2 DEF Sound
<1>14. Sound("fdb_db_go_offline", Database!fdb_db_go_offline)
  <2>1. AnswersAreRead("fdb_db_go_offline", Database!fdb_db_go_offline)
    BY DatabaseAnswers DEF Database!fdb_db_go_offline
  <2>2. /\ RefusalsExplain("fdb_db_go_offline", Database!fdb_db_go_offline)
        /\ AssertsAreGuarded(Database!fdb_db_go_offline)
    BY DatabaseSays DEF RefusalsExplain, AssertsAreGuarded,
        Database!fdb_db_go_offline
  <2>. QED
    BY <2>1, <2>2 DEF Sound
<1>15. Sound("fdb_db_go_online", Database!fdb_db_go_online)
  <2>1. AnswersAreRead("fdb_db_go_online", Database!fdb_db_go_online)
    BY DatabaseAnswers DEF Database!fdb_db_go_online
  <2>2. /\ RefusalsExplain("fdb_db_go_online", Database!fdb_db_go_online)
        /\ AssertsAreGuarded(Database!fdb_db_go_online)
    BY DatabaseSays DEF RefusalsExplain, AssertsAreGuarded,
        Database!fdb_db_go_online
  <2>. QED
    BY <2>1, <2>2 DEF Sound
<1>16. Sound("fdb_db_push", Database!fdb_db_push)
  <2>1. AnswersAreRead("fdb_db_push", Database!fdb_db_push)
    BY DatabaseAnswers
  <2>2. /\ RefusalsExplain("fdb_db_push", Database!fdb_db_push)
        /\ AssertsAreGuarded(Database!fdb_db_push)
    BY DatabaseSays DEF RefusalsExplain, AssertsAreGuarded,
        Database!fdb_db_push
  <2>. QED
    BY <2>1, <2>2 DEF Sound
<1>. QED
  BY <1>1, <1>2, <1>3, <1>4, <1>5, <1>6, <1>7, <1>8, <1>9, <1>10,
     <1>11, <1>12, <1>13, <1>14, <1>15, <1>16
  DEF Database!DatabaseFunctions

\* What the functions of Firestore answer.
LEMMA FirestoreAnswers ==
  ASSUME NEW n, NEW op, NEW refuses, NEW says
  PROVE  /\ AnswersAreRead(n, Firestore!UseEmulator("firestore"))
         /\ AnswersAreRead(n, Firestore!Fs(op, refuses, {"done"}, Firestore!Outcome,
                                           "AwaitOutcome", says))
         /\ AnswersAreRead("fdb_fs_get", Firestore!fdb_fs_get)
         /\ AnswersAreRead("fdb_fs_query", Firestore!fdb_fs_query)
         /\ n \in CodeIsLost =>
              AnswersAreRead(n, Firestore!Fs(op, refuses, {"v"}, Firestore!Aggregate,
                                             "CountCollection", says))
<1>1. AnswersAreRead(n, Firestore!UseEmulator("firestore"))
  <2> DEFINE e == Firestore!UseEmulator("firestore")
  <2>1. e.handler = "Returned" /\ e.results = {"done"} /\ e.mode = "returns"
    BY DEF Firestore!UseEmulator, Firestore!Sync, Firestore!Async
  <2>. HIDE DEF e
  <2>2. AnswersAreRead(n, e)
    BY <2>1, ZeroIsRead
  <2>. QED
    BY <2>2 DEF e
<1>2. AnswersAreRead(n, Firestore!Fs(op, refuses, {"done"}, Firestore!Outcome,
      "AwaitOutcome", says))
  <2> DEFINE e == Firestore!Fs(op, refuses, {"done"}, Firestore!Outcome, "AwaitOutcome",
      says)
  <2>1. e.handler = "AwaitOutcome" /\ e.results = {"done"} /\ e.answer = Firestore!Outcome
    BY DEF Firestore!Fs, Firestore!Async
  <2>. HIDE DEF e
  <2>2. AnswersAreRead(n, e)
    BY <2>1, SameOutcome, OutcomeIsRead
  <2>. QED
    BY <2>2 DEF e
<1>3. AnswersAreRead("fdb_fs_get", Firestore!fdb_fs_get)
  <2> DEFINE e == Firestore!fdb_fs_get
  <2>1. /\ e.handler = "GetDocument"
        /\ e.results = {"v", "absent", "big"}
        /\ e.answer = Firestore!Document
        /\ e.mode = "port"
    BY DEF Firestore!fdb_fs_get, Firestore!Fs, Firestore!Async
  <2>2. ASSUME NEW f \in Futures
        PROVE  LET a == Firestore!Document[f] IN
               /\ f.error # 0 => \E payload : a = fdb_post_buffer(-1, payload)
               /\ f.error = 0 /\ f.result = "big" => a = fdb_post_buffer(-2, "")
               /\ f.error = 0 /\ f.result = "absent" => a = fdb_post_buffer(1, "")
               /\ f.error = 0 /\ f.result = "v" => a = fdb_post_buffer(1, "v")
    BY DEF Firestore!Document, Firestore!PostDocument, Firestore!fdb_post_buffer,
        fdb_post_buffer,
        Firestore!Futures, Firestore!Failed, Firestore!Done, Firestore!Results,
            Firestore!SdkError,
        Futures, Failed, Done, Results, SdkError
  <2>. HIDE DEF e
  <2>3. PostsSeq("fdb_fs_get", e)
    BY <2>1, <2>2 DEF PostsSeq, CodeIsLost
  <2>4. AnswersAreRead("fdb_fs_get", e)
    BY <2>3, BufferIsRead
  <2>. QED
    BY <2>4 DEF e
<1>4. AnswersAreRead("fdb_fs_query", Firestore!fdb_fs_query)
  <2> DEFINE e == Firestore!fdb_fs_query
  <2>1. /\ e.handler = "QueryCollection"
        /\ e.results = {"v", "big"}
        /\ e.answer = Firestore!QueryResult
        /\ e.mode = "port"
    BY DEF Firestore!fdb_fs_query, Firestore!Fs, Firestore!Async
  <2>2. ASSUME NEW f \in Futures
        PROVE  LET a == Firestore!QueryResult[f] IN
               /\ f.error # 0 => \E payload : a = fdb_post_buffer(-1, payload)
               /\ f.error = 0 /\ f.result = "big" => a = fdb_post_buffer(-2, "")
               /\ f.error = 0 /\ f.result = "v" => a = fdb_post_buffer(1, "v")
    BY DEF Firestore!QueryResult, Firestore!PostDocument, Firestore!fdb_post_buffer,
        fdb_post_buffer,
        Firestore!Futures, Firestore!Failed, Firestore!Done, Firestore!Results,
            Firestore!SdkError,
        Futures, Failed, Done, Results, SdkError
  <2>. HIDE DEF e
  <2>3. PostsSeq("fdb_fs_query", e)
    BY <2>1, <2>2 DEF PostsSeq, CodeIsLost
  <2>4. AnswersAreRead("fdb_fs_query", e)
    BY <2>3, BufferIsRead
  <2>. QED
    BY <2>4 DEF e
<1>5. ASSUME n \in CodeIsLost
      PROVE  AnswersAreRead(n, Firestore!Fs(op, refuses, {"v"}, Firestore!Aggregate,
                                            "CountCollection", says))
  <2> DEFINE e == Firestore!Fs(op, refuses, {"v"}, Firestore!Aggregate, "CountCollection",
      says)
  <2>1. /\ e.handler = "CountCollection"
        /\ e.results = {"v"}
        /\ e.answer = Firestore!Aggregate
        /\ e.mode = "port"
    BY DEF Firestore!Fs, Firestore!Async
  <2>2. ASSUME NEW f \in Futures
        PROVE  LET a == Firestore!Aggregate[f] IN
               /\ f.error # 0 => \E payload : a = fdb_post_buffer(-1, payload)
               /\ f.error = 0 /\ f.result = "v" => a = fdb_post_buffer(1, "v")
    BY DEF Firestore!Aggregate, Firestore!PostDocument, Firestore!fdb_post_buffer,
        fdb_post_buffer,
        Firestore!Futures, Firestore!Failed, Firestore!Done, Firestore!Results,
            Firestore!SdkError,
        Futures, Failed, Done, Results, SdkError
  <2>. HIDE DEF e
  <2>3. PostsSeq(n, e)
    BY <1>5, <2>1, <2>2 DEF PostsSeq
  <2>4. AnswersAreRead(n, e)
    BY <2>3, BufferIsRead
  <2>. QED
    BY <2>4 DEF e
<1>. QED
  BY <1>1, <1>2, <1>3, <1>4, <1>5

\* What the Dart callers of Firestore make of a code.
LEMMA FirestoreSays ==
  /\ Firestore!SaysCode[-1] = "code" /\ Firestore!SaysCode[-2] = "code"
     /\ Firestore!SaysCode[-3] = "code" /\ Firestore!SaysCode[-4] = "code"
  /\ Firestore!SaysBatch[-1] = "code" /\ Firestore!SaysBatch[-2] = "code"
     /\ Firestore!SaysBatch[-3] = "value" /\ Firestore!SaysBatch[-4] = "code"
  /\ Firestore!SaysQuery[-1] = "code" /\ Firestore!SaysQuery[-2] = "code"
     /\ Firestore!SaysQuery[-3] = "spec" /\ Firestore!SaysQuery[-4] = "field"
  /\ Firestore!SaysCount[-1] = "code" /\ Firestore!SaysCount[-2] = "code"
     /\ Firestore!SaysCount[-3] = "spec" /\ Firestore!SaysCount[-4] = "spec"
  /\ Firestore!SaysAggregate[-1] = "code" /\ Firestore!SaysAggregate[-2] = "path"
     /\ Firestore!SaysAggregate[-3] = "spec" /\ Firestore!SaysAggregate[-4] = "spec"
<1>0. /\ DOMAIN Firestore!SaysCode = {-1, -2, -3, -4}
      /\ DOMAIN Firestore!SaysCount = {-1, -2, -3, -4}
  BY DEF Firestore!SaysCode, Firestore!SaysCount, Firestore!Codes
<1>1. Firestore!SaysCode[-1] = "code" /\ Firestore!SaysCode[-2] = "code"
      /\ Firestore!SaysCode[-3] = "code" /\ Firestore!SaysCode[-4] = "code"
  BY DEF Firestore!SaysCode, Firestore!Codes
<1>2. Firestore!SaysBatch[-1] = "code" /\ Firestore!SaysBatch[-2] = "code"
      /\ Firestore!SaysBatch[-3] = "value" /\ Firestore!SaysBatch[-4] = "code"
  BY <1>0, <1>1 DEF Firestore!SaysBatch
<1>3. Firestore!SaysQuery[-1] = "code" /\ Firestore!SaysQuery[-2] = "code"
      /\ Firestore!SaysQuery[-3] = "spec" /\ Firestore!SaysQuery[-4] = "field"
  BY <1>0, <1>1 DEF Firestore!SaysQuery
<1>4. Firestore!SaysCount[-1] = "code" /\ Firestore!SaysCount[-2] = "code"
      /\ Firestore!SaysCount[-3] = "spec" /\ Firestore!SaysCount[-4] = "spec"
  BY <1>0, <1>1 DEF Firestore!SaysCount
<1>5. Firestore!SaysAggregate[-1] = "code" /\ Firestore!SaysAggregate[-2] = "path"
      /\ Firestore!SaysAggregate[-3] = "spec" /\ Firestore!SaysAggregate[-4] = "spec"
  BY <1>0, <1>4 DEF Firestore!SaysAggregate
<1>. QED
  BY <1>1, <1>2, <1>3, <1>4, <1>5

\* The functions of firestore_impl.cpp.
LEMMA FirestoreIsSound ==
  ASSUME NEW n \in DOMAIN Firestore!FirestoreFunctions
  PROVE  Sound(n, Firestore!FirestoreFunctions[n])
<1>. USE DEF Guards, Explains, Names, NotThere, SdkAsserts, Causes,
         Firestore!Fs, Firestore!AggregateOne, Firestore!UseEmulator, Firestore!Async,
         Firestore!Sync, Firestore!NoPath, Firestore!BadBody, Firestore!BadSpec
<1>0. "fdb_fs_count" \in CodeIsLost /\ "fdb_fs_sum" \in CodeIsLost
      /\ "fdb_fs_average" \in CodeIsLost
  BY DEF CodeIsLost
<1>1. Sound("fdb_fs_use_emulator", Firestore!fdb_fs_use_emulator)
  <2>1. AnswersAreRead("fdb_fs_use_emulator", Firestore!fdb_fs_use_emulator)
    BY FirestoreAnswers DEF Firestore!fdb_fs_use_emulator
  <2>2. /\ RefusalsExplain("fdb_fs_use_emulator", Firestore!fdb_fs_use_emulator)
        /\ AssertsAreGuarded(Firestore!fdb_fs_use_emulator)
    BY FirestoreSays DEF RefusalsExplain, AssertsAreGuarded,
        Firestore!fdb_fs_use_emulator
  <2>. QED
    BY <2>1, <2>2 DEF Sound
<1>2. Sound("fdb_fs_set", Firestore!fdb_fs_set)
  <2>1. AnswersAreRead("fdb_fs_set", Firestore!fdb_fs_set)
    BY FirestoreAnswers DEF Firestore!fdb_fs_set
  <2>2. /\ RefusalsExplain("fdb_fs_set", Firestore!fdb_fs_set)
        /\ AssertsAreGuarded(Firestore!fdb_fs_set)
    BY FirestoreSays DEF RefusalsExplain, AssertsAreGuarded,
        Firestore!fdb_fs_set
  <2>. QED
    BY <2>1, <2>2 DEF Sound
<1>3. Sound("fdb_fs_delete", Firestore!fdb_fs_delete)
  <2>1. AnswersAreRead("fdb_fs_delete", Firestore!fdb_fs_delete)
    BY FirestoreAnswers DEF Firestore!fdb_fs_delete
  <2>2. /\ RefusalsExplain("fdb_fs_delete", Firestore!fdb_fs_delete)
        /\ AssertsAreGuarded(Firestore!fdb_fs_delete)
    BY FirestoreSays DEF RefusalsExplain, AssertsAreGuarded,
        Firestore!fdb_fs_delete
  <2>. QED
    BY <2>1, <2>2 DEF Sound
<1>4. Sound("fdb_fs_batch_commit", Firestore!fdb_fs_batch_commit)
  <2>1. AnswersAreRead("fdb_fs_batch_commit", Firestore!fdb_fs_batch_commit)
    BY FirestoreAnswers DEF Firestore!fdb_fs_batch_commit
  <2>2. /\ RefusalsExplain("fdb_fs_batch_commit", Firestore!fdb_fs_batch_commit)
        /\ AssertsAreGuarded(Firestore!fdb_fs_batch_commit)
    BY FirestoreSays DEF RefusalsExplain, AssertsAreGuarded,
        Firestore!fdb_fs_batch_commit
  <2>. QED
    BY <2>1, <2>2 DEF Sound
<1>5. Sound("fdb_fs_get", Firestore!fdb_fs_get)
  <2>1. AnswersAreRead("fdb_fs_get", Firestore!fdb_fs_get)
    BY FirestoreAnswers
  <2>2. /\ RefusalsExplain("fdb_fs_get", Firestore!fdb_fs_get)
        /\ AssertsAreGuarded(Firestore!fdb_fs_get)
    BY FirestoreSays DEF RefusalsExplain, AssertsAreGuarded,
        Firestore!fdb_fs_get
  <2>. QED
    BY <2>1, <2>2 DEF Sound
<1>6. Sound("fdb_fs_query", Firestore!fdb_fs_query)
  <2>1. AnswersAreRead("fdb_fs_query", Firestore!fdb_fs_query)
    BY FirestoreAnswers
  <2>2. /\ RefusalsExplain("fdb_fs_query", Firestore!fdb_fs_query)
        /\ AssertsAreGuarded(Firestore!fdb_fs_query)
    BY FirestoreSays DEF RefusalsExplain, AssertsAreGuarded,
        Firestore!fdb_fs_query
  <2>. QED
    BY <2>1, <2>2 DEF Sound
<1>7. Sound("fdb_fs_count", Firestore!fdb_fs_count)
  <2>1. AnswersAreRead("fdb_fs_count", Firestore!fdb_fs_count)
    BY <1>0, FirestoreAnswers DEF Firestore!fdb_fs_count
  <2>2. /\ RefusalsExplain("fdb_fs_count", Firestore!fdb_fs_count)
        /\ AssertsAreGuarded(Firestore!fdb_fs_count)
    BY FirestoreSays DEF RefusalsExplain, AssertsAreGuarded,
        Firestore!fdb_fs_count
  <2>. QED
    BY <2>1, <2>2 DEF Sound
<1>8. Sound("fdb_fs_sum", Firestore!fdb_fs_sum)
  <2>1. AnswersAreRead("fdb_fs_sum", Firestore!fdb_fs_sum)
    BY <1>0, FirestoreAnswers DEF Firestore!fdb_fs_sum, Firestore!AggregateOne
  <2>2. /\ RefusalsExplain("fdb_fs_sum", Firestore!fdb_fs_sum)
        /\ AssertsAreGuarded(Firestore!fdb_fs_sum)
    BY FirestoreSays DEF RefusalsExplain, AssertsAreGuarded,
        Firestore!fdb_fs_sum
  <2>. QED
    BY <2>1, <2>2 DEF Sound
<1>9. Sound("fdb_fs_average", Firestore!fdb_fs_average)
  <2>1. AnswersAreRead("fdb_fs_average", Firestore!fdb_fs_average)
    BY <1>0, FirestoreAnswers DEF Firestore!fdb_fs_average, Firestore!AggregateOne
  <2>2. /\ RefusalsExplain("fdb_fs_average", Firestore!fdb_fs_average)
        /\ AssertsAreGuarded(Firestore!fdb_fs_average)
    BY FirestoreSays DEF RefusalsExplain, AssertsAreGuarded,
        Firestore!fdb_fs_average
  <2>. QED
    BY <2>1, <2>2 DEF Sound
<1>. QED
  BY <1>1, <1>2, <1>3, <1>4, <1>5, <1>6, <1>7, <1>8, <1>9
  DEF Firestore!FirestoreFunctions

\* The four parts of a sign-in, for awaitSignIn.
LEMMA SignInIsTold ==
  ASSUME NEW n, NEW f, NEW m
  PROVE  /\ f.error # 0 /\ m = Auth!PostAuthResult(FALSE, f.error, Message(f), "") =>
              Tells(n, f, AwaitSignIn(m))
         /\ f.error = 0 /\ f.result # "big" /\ m = Auth!PostAuthResult(TRUE, 0, "", f.result) =>
              Tells(n, f, AwaitSignIn(m))
<1>1. ASSUME f.error # 0, m = Auth!PostAuthResult(FALSE, f.error, Message(f), "")
      PROVE  Tells(n, f, AwaitSignIn(m))
  <2>1. /\ m.shape = "list" /\ Len(m.items) = 4 /\ m.items[1] = FALSE
        /\ m.items[2] = f.error
    BY <1>1 DEF Auth!PostAuthResult
  <2>2. AwaitSignIn(m).kind = "error" /\ AwaitSignIn(m).code = f.error
    BY <2>1 DEF AwaitSignIn, Error
  <2>. QED
    BY <1>1, <2>2 DEF Tells
<1>2. ASSUME f.error = 0, f.result # "big", m = Auth!PostAuthResult(TRUE, 0, "", f.result)
      PROVE  Tells(n, f, AwaitSignIn(m))
  <2>1. /\ m.shape = "list" /\ Len(m.items) = 4 /\ m.items[1] = TRUE
        /\ m.items[4] = f.result
    BY <1>2 DEF Auth!PostAuthResult
  <2>2. AwaitSignIn(m) = Value(f.result)
    BY <2>1 DEF AwaitSignIn
  <2>. QED
    BY <1>2, <2>2 DEF Tells
<1>. QED
  BY <1>1, <1>2

\* What the functions of Auth answer.
LEMMA AuthAnswers ==
  ASSUME NEW n, NEW refuses, NEW says
  PROVE  /\ AnswersAreRead(n, Auth!UseEmulator("auth"))
         /\ AnswersAreRead(n, Auth!Auth("SignIn", refuses, {"uid"}, Auth!OnSignInComplete,
                                        "AwaitSignIn", says))
         /\ AnswersAreRead(n, Auth!fdb_auth_id_token)
         /\ AnswersAreRead(n, Auth!fdb_auth_sign_out)
         /\ AnswersAreRead(n, Auth!fdb_auth_current_uid)
<1>1. AnswersAreRead(n, Auth!UseEmulator("auth"))
  <2> DEFINE e == Auth!UseEmulator("auth")
  <2>1. e.handler = "Returned" /\ e.results = {"done"} /\ e.mode = "returns"
    BY DEF Auth!UseEmulator, Auth!Sync, Auth!Async
  <2>. HIDE DEF e
  <2>2. AnswersAreRead(n, e)
    BY <2>1, ZeroIsRead
  <2>. QED
    BY <2>2 DEF e
<1>2. AnswersAreRead(n, Auth!Auth("SignIn", refuses, {"uid"}, Auth!OnSignInComplete,
                                  "AwaitSignIn", says))
  <2> DEFINE e == Auth!Auth("SignIn", refuses, {"uid"}, Auth!OnSignInComplete,
                            "AwaitSignIn", says)
  <2>1. e.handler = "AwaitSignIn" /\ e.results = {"uid"} /\ e.answer = Auth!OnSignInComplete
    BY DEF Auth!Auth, Auth!Async
  <2>2. ASSUME NEW f \in Futures
        PROVE  Auth!OnSignInComplete[f] =
                 IF f.error # 0 THEN Auth!PostAuthResult(FALSE, f.error, Message(f), "")
                                ELSE Auth!PostAuthResult(TRUE, 0, "", f.result)
    BY DEF Auth!OnSignInComplete, Auth!PostAuthResult, Auth!Message, Message,
        Auth!Futures, Auth!Failed, Auth!Done, Auth!Results, Auth!SdkError,
        Futures, Failed, Done, Results, SdkError
  <2>. HIDE DEF e
  <2>3. ASSUME NEW f \in Endings(e) PROVE Tells(n, f, Read(e.handler, e.answer[f]))
    <3>1. e.results \subseteq Results
      BY <2>1 DEF Results
    <3>2. f \in Futures /\ (f.error # 0 \/ (f.error = 0 /\ f.result = "uid"))
      BY <2>1, <3>1, EndingIs
    <3>3. Read(e.handler, e.answer[f]) = AwaitSignIn(Auth!OnSignInComplete[f])
      BY <2>1, Handlers
    <3>4. CASE f.error # 0
      <4>1. Auth!OnSignInComplete[f] = Auth!PostAuthResult(FALSE, f.error, Message(f), "")
        BY <2>2, <3>2, <3>4
      <4>. QED
        BY <3>3, <3>4, <4>1, SignInIsTold
    <3>5. CASE f.error = 0 /\ f.result = "uid"
      <4>1. Auth!OnSignInComplete[f] = Auth!PostAuthResult(TRUE, 0, "", f.result)
        BY <2>2, <3>2, <3>5
      <4>2. f.result # "big"
        BY <3>5
      <4>. QED
        BY <3>3, <3>5, <4>1, <4>2, SignInIsTold
    <3>. QED
      BY <3>2, <3>4, <3>5
  <2>4. AnswersAreRead(n, e)
    BY <2>3 DEF AnswersAreRead
  <2>. QED
    BY <2>4 DEF e
<1>3. AnswersAreRead(n, Auth!fdb_auth_id_token)
  <2> DEFINE e == Auth!fdb_auth_id_token
  <2>1. e.handler = "AwaitText" /\ e.results = {"token"} /\ e.answer = Auth!IdToken
    BY DEF Auth!fdb_auth_id_token, Auth!Auth, Auth!Async
  <2>2. ASSUME NEW f \in Futures
        PROVE  Auth!IdToken[f] = IF f.error # 0
                           THEN fdb_post_outcome(FALSE, f.error, Message(f))
                           ELSE fdb_post_outcome(TRUE, 0, f.result)
    BY DEF Auth!IdToken, Auth!fdb_post_outcome, Auth!Message, fdb_post_outcome, Message,
        Auth!Futures, Auth!Failed, Auth!Done, Auth!Results, Auth!SdkError,
        Futures, Failed, Done, Results, SdkError
  <2>. HIDE DEF e
  <2>3. AnswersAreRead(n, e)
    BY <2>1, <2>2, TextIsRead
  <2>. QED
    BY <2>3 DEF e
<1>4. AnswersAreRead(n, Auth!fdb_auth_sign_out)
  <2> DEFINE e == Auth!fdb_auth_sign_out
  <2>1. e.handler = "Returned" /\ e.results = {"done"} /\ e.mode = "returns"
    BY DEF Auth!fdb_auth_sign_out, Auth!Sync, Auth!Async
  <2>. HIDE DEF e
  <2>2. AnswersAreRead(n, e)
    BY <2>1, ZeroIsRead
  <2>. QED
    BY <2>2 DEF e
<1>5. AnswersAreRead(n, Auth!fdb_auth_current_uid)
  <2> DEFINE e == Auth!fdb_auth_current_uid
  <2>1. /\ e.handler = "CurrentUid" /\ e.results = {"uid", "absent"}
        /\ e.mode = "returns" /\ e.answer = Auth!CurrentUser
    BY DEF Auth!fdb_auth_current_uid, Auth!Async, Auth!Sync
  <2>2. ASSUME NEW f \in Futures
        PROVE  /\ f.result = "uid" => Auth!CurrentUser[f].items = <<28>>
               /\ f.result = "absent" => Auth!CurrentUser[f].items = <<0>>
    BY DEF Auth!CurrentUser, Auth!Returns, Auth!Futures, Auth!Failed, Auth!Done,
        Auth!Results, Auth!SdkError,
        Futures, Failed, Done, Results, SdkError
  <2>. HIDE DEF e
  <2>3. ASSUME NEW f \in Endings(e) PROVE Tells(n, f, Read(e.handler, e.answer[f]))
    <3>1. e.results \subseteq Results
      BY <2>1 DEF Results
    <3>2. f \in Futures /\ f.error = 0 /\ f.result \in e.results
      BY <2>1, <3>1, EndingIs
    <3>3. Read(e.handler, e.answer[f]) = CurrentUid(e.answer[f])
      BY <2>1, Handlers
    <3>4. CASE f.result = "uid"
      <4>1. e.answer[f].items = <<28>>
        BY <2>1, <2>2, <3>2, <3>4
      <4>2. CurrentUid(e.answer[f]) = Value("uid")
        BY <4>1 DEF CurrentUid
      <4>. QED
        BY <3>2, <3>3, <3>4, <4>2 DEF Tells
    <3>5. CASE f.result = "absent"
      <4>1. e.answer[f].items = <<0>>
        BY <2>1, <2>2, <3>2, <3>5
      <4>2. CurrentUid(e.answer[f]) = Value("absent")
        BY <4>1 DEF CurrentUid
      <4>. QED
        BY <3>2, <3>3, <3>5, <4>2 DEF Tells
    <3>. QED
      BY <2>1, <3>2, <3>4, <3>5
  <2>4. AnswersAreRead(n, e)
    BY <2>3 DEF AnswersAreRead
  <2>. QED
    BY <2>4 DEF e
<1>. QED
  BY <1>1, <1>2, <1>3, <1>4, <1>5

\* What the Dart callers of Auth make of a code.
LEMMA AuthSays ==
  /\ Auth!SaysCode[-1] = "code" /\ Auth!SaysCode[-2] = "code"
     /\ Auth!SaysCode[-3] = "code" /\ Auth!SaysCode[-4] = "code"
  /\ Auth!SaysSignIn[-1] = "product" /\ Auth!SaysSignIn[-2] = "code"
     /\ Auth!SaysSignIn[-3] = "code" /\ Auth!SaysSignIn[-4] = "code"
  /\ Auth!SaysIdToken[-1] = "product" /\ Auth!SaysIdToken[-2] = "user"
     /\ Auth!SaysIdToken[-3] = "product" /\ Auth!SaysIdToken[-4] = "product"
<1>0. /\ DOMAIN Auth!SaysCode = {-1, -2, -3, -4}
  BY DEF Auth!SaysCode, Auth!Codes
<1>1. Auth!SaysCode[-1] = "code" /\ Auth!SaysCode[-2] = "code"
      /\ Auth!SaysCode[-3] = "code" /\ Auth!SaysCode[-4] = "code"
  BY DEF Auth!SaysCode, Auth!Codes
<1>2. Auth!SaysSignIn[-1] = "product" /\ Auth!SaysSignIn[-2] = "code"
      /\ Auth!SaysSignIn[-3] = "code" /\ Auth!SaysSignIn[-4] = "code"
  BY <1>0, <1>1 DEF Auth!SaysSignIn
<1>3. Auth!SaysIdToken[-1] = "product" /\ Auth!SaysIdToken[-2] = "user"
      /\ Auth!SaysIdToken[-3] = "product" /\ Auth!SaysIdToken[-4] = "product"
  BY DEF Auth!SaysIdToken, Auth!Codes
<1>. QED
  BY <1>1, <1>2, <1>3

\* The functions of auth_impl.cpp.
LEMMA AuthIsSound ==
  ASSUME NEW n \in DOMAIN Auth!AuthFunctions
  PROVE  Sound(n, Auth!AuthFunctions[n])
<1>. USE DEF Guards, Explains, Names, NotThere, SdkAsserts, Causes,
         Auth!Auth, Auth!UseEmulator, Auth!Async, Auth!Sync
<1>1. Sound("fdb_auth_use_emulator", Auth!fdb_auth_use_emulator)
  <2>1. AnswersAreRead("fdb_auth_use_emulator", Auth!fdb_auth_use_emulator)
    BY AuthAnswers DEF Auth!fdb_auth_use_emulator
  <2>2. /\ RefusalsExplain("fdb_auth_use_emulator", Auth!fdb_auth_use_emulator)
        /\ AssertsAreGuarded(Auth!fdb_auth_use_emulator)
    BY AuthSays DEF Auth!Codes, RefusalsExplain, AssertsAreGuarded,
        Auth!fdb_auth_use_emulator
  <2>. QED
    BY <2>1, <2>2 DEF Sound
<1>2. Sound("fdb_auth_sign_in_anonymously", Auth!fdb_auth_sign_in_anonymously)
  <2>1. AnswersAreRead("fdb_auth_sign_in_anonymously", Auth!fdb_auth_sign_in_anonymously)
    BY AuthAnswers DEF Auth!fdb_auth_sign_in_anonymously
  <2>2. /\ RefusalsExplain("fdb_auth_sign_in_anonymously",
                           Auth!fdb_auth_sign_in_anonymously)
        /\ AssertsAreGuarded(Auth!fdb_auth_sign_in_anonymously)
    BY AuthSays DEF Auth!Codes, RefusalsExplain, AssertsAreGuarded,
        Auth!fdb_auth_sign_in_anonymously
  <2>. QED
    BY <2>1, <2>2 DEF Sound
<1>3. Sound("fdb_auth_sign_in_with_custom_token", Auth!fdb_auth_sign_in_with_custom_token)
  <2>1. AnswersAreRead("fdb_auth_sign_in_with_custom_token",
        Auth!fdb_auth_sign_in_with_custom_token)
    BY AuthAnswers DEF Auth!fdb_auth_sign_in_with_custom_token
  <2>2. /\ RefusalsExplain("fdb_auth_sign_in_with_custom_token",
                           Auth!fdb_auth_sign_in_with_custom_token)
        /\ AssertsAreGuarded(Auth!fdb_auth_sign_in_with_custom_token)
    BY AuthSays DEF Auth!Codes, RefusalsExplain, AssertsAreGuarded,
        Auth!fdb_auth_sign_in_with_custom_token
  <2>. QED
    BY <2>1, <2>2 DEF Sound
<1>4. Sound("fdb_auth_id_token", Auth!fdb_auth_id_token)
  <2>1. AnswersAreRead("fdb_auth_id_token", Auth!fdb_auth_id_token)
    BY AuthAnswers
  <2>2. /\ RefusalsExplain("fdb_auth_id_token", Auth!fdb_auth_id_token)
        /\ AssertsAreGuarded(Auth!fdb_auth_id_token)
    BY AuthSays DEF Auth!Codes, RefusalsExplain, AssertsAreGuarded,
        Auth!fdb_auth_id_token
  <2>. QED
    BY <2>1, <2>2 DEF Sound
<1>5. Sound("fdb_auth_sign_out", Auth!fdb_auth_sign_out)
  <2>1. AnswersAreRead("fdb_auth_sign_out", Auth!fdb_auth_sign_out)
    BY AuthAnswers
  <2>2. /\ RefusalsExplain("fdb_auth_sign_out", Auth!fdb_auth_sign_out)
        /\ AssertsAreGuarded(Auth!fdb_auth_sign_out)
    BY AuthSays DEF Auth!Codes, RefusalsExplain, AssertsAreGuarded,
        Auth!fdb_auth_sign_out
  <2>. QED
    BY <2>1, <2>2 DEF Sound
<1>6. Sound("fdb_auth_current_uid", Auth!fdb_auth_current_uid)
  <2>1. AnswersAreRead("fdb_auth_current_uid", Auth!fdb_auth_current_uid)
    BY AuthAnswers
  <2>2. /\ RefusalsExplain("fdb_auth_current_uid", Auth!fdb_auth_current_uid)
        /\ AssertsAreGuarded(Auth!fdb_auth_current_uid)
    BY AuthSays DEF Auth!Codes, RefusalsExplain, AssertsAreGuarded,
        Auth!fdb_auth_current_uid
  <2>. QED
    BY <2>1, <2>2 DEF Sound
<1>. QED
  BY <1>1, <1>2, <1>3, <1>4, <1>5, <1>6
  DEF Auth!AuthFunctions

\* What the functions of Storage answer.
LEMMA StorageAnswers ==
  ASSUME NEW n
  PROVE  /\ AnswersAreRead(n, Storage!UseEmulator("storage"))
         /\ AnswersAreRead(n, Storage!fdb_storage_metadata)
         /\ AnswersAreRead(n, Storage!fdb_storage_put)
         /\ AnswersAreRead(n, Storage!fdb_storage_get)
         /\ AnswersAreRead(n, Storage!fdb_storage_delete)
         /\ AnswersAreRead(n, Storage!fdb_storage_download_url)
<1>1. AnswersAreRead(n, Storage!UseEmulator("storage"))
  <2> DEFINE e == Storage!UseEmulator("storage")
  <2>1. e.handler = "Returned" /\ e.results = {"done"} /\ e.mode = "returns"
    BY DEF Storage!UseEmulator, Storage!Sync, Storage!Async
  <2>. HIDE DEF e
  <2>2. AnswersAreRead(n, e)
    BY <2>1, ZeroIsRead
  <2>. QED
    BY <2>2 DEF e
<1>2. AnswersAreRead(n, Storage!fdb_storage_metadata)
  <2> DEFINE e == Storage!fdb_storage_metadata
  <2>1. /\ e.handler = "AwaitBuffer"
        /\ e.results = {"v", "big"}
        /\ e.answer = Storage!PostMetadataResult
    BY DEF Storage!fdb_storage_metadata, Storage!Storage, Storage!Async
  <2>2. ASSUME NEW f \in Futures
        PROVE  LET a == Storage!PostMetadataResult[f] IN
               /\ f.error # 0 => a = fdb_post_outcome(FALSE, f.error, Message(f))
               /\ f.error = 0 /\ f.result = "big" =>
                    a = fdb_post_outcome(FALSE, -2, "cannot be encoded")
               /\ f.error = 0 /\ f.result = "v" => a = fdb_post_buffer(1, f.result)
    BY DEF Storage!PostMetadataResult, Storage!fdb_post_outcome, Storage!fdb_post_buffer,
        Storage!Message,
        fdb_post_outcome, fdb_post_buffer, Message,
        Storage!Futures, Storage!Failed, Storage!Done, Storage!Results, Storage!SdkError,
        Futures, Failed, Done, Results, SdkError
  <2>. HIDE DEF e
  <2>3. AnswersAreRead(n, e)
    BY <2>1, <2>2, PayloadIsRead
  <2>. QED
    BY <2>3 DEF e
<1>3. AnswersAreRead(n, Storage!fdb_storage_put)
  <2> DEFINE e == Storage!fdb_storage_put
  <2>1. /\ e.handler = "AwaitBuffer"
        /\ e.results = {"v", "big"}
        /\ e.answer = Storage!PostMetadataResult
    BY DEF Storage!fdb_storage_put, Storage!Storage, Storage!Async
  <2>2. ASSUME NEW f \in Futures
        PROVE  LET a == Storage!PostMetadataResult[f] IN
               /\ f.error # 0 => a = fdb_post_outcome(FALSE, f.error, Message(f))
               /\ f.error = 0 /\ f.result = "big" =>
                    a = fdb_post_outcome(FALSE, -2, "cannot be encoded")
               /\ f.error = 0 /\ f.result = "v" => a = fdb_post_buffer(1, f.result)
    BY DEF Storage!PostMetadataResult, Storage!fdb_post_outcome, Storage!fdb_post_buffer,
        Storage!Message,
        fdb_post_outcome, fdb_post_buffer, Message,
        Storage!Futures, Storage!Failed, Storage!Done, Storage!Results, Storage!SdkError,
        Futures, Failed, Done, Results, SdkError
  <2>. HIDE DEF e
  <2>3. AnswersAreRead(n, e)
    BY <2>1, <2>2, PayloadIsRead
  <2>. QED
    BY <2>3 DEF e
<1>4. AnswersAreRead(n, Storage!fdb_storage_get)
  <2> DEFINE e == Storage!fdb_storage_get
  <2>1. e.handler = "AwaitBuffer" /\ e.results = {"v"} /\ e.answer = Storage!Download
    BY DEF Storage!fdb_storage_get, Storage!Storage, Storage!Async
  <2>2. ASSUME NEW f \in Futures
        PROVE  LET a == Storage!Download[f] IN
               /\ f.error # 0 => a = fdb_post_outcome(FALSE, f.error, Message(f))
               /\ f.error = 0 /\ f.result = "v" => a = fdb_post_buffer(1, f.result)
    BY DEF Storage!Download, Storage!fdb_post_outcome, Storage!fdb_post_buffer,
        Storage!Message,
        fdb_post_outcome, fdb_post_buffer, Message,
        Storage!Futures, Storage!Failed, Storage!Done, Storage!Results, Storage!SdkError,
        Futures, Failed, Done, Results, SdkError
  <2>. HIDE DEF e
  <2>3. AnswersAreRead(n, e)
    BY <2>1, <2>2, PayloadIsRead
  <2>. QED
    BY <2>3 DEF e
<1>5. AnswersAreRead(n, Storage!fdb_storage_delete)
  <2> DEFINE e == Storage!fdb_storage_delete
  <2>1. e.handler = "AwaitOutcome" /\ e.results = {"done"} /\ e.answer = Storage!Outcome
    BY DEF Storage!fdb_storage_delete, Storage!Storage, Storage!Async
  <2>. HIDE DEF e
  <2>2. AnswersAreRead(n, e)
    BY <2>1, SameOutcome, OutcomeIsRead
  <2>. QED
    BY <2>2 DEF e
<1>6. AnswersAreRead(n, Storage!fdb_storage_download_url)
  <2> DEFINE e == Storage!fdb_storage_download_url
  <2>1. e.handler = "AwaitText" /\ e.results = {"v"} /\ e.answer = Storage!DownloadUrl
    BY DEF Storage!fdb_storage_download_url, Storage!Storage, Storage!Async
  <2>2. ASSUME NEW f \in Futures
        PROVE  Storage!DownloadUrl[f] = IF f.error # 0
                           THEN fdb_post_outcome(FALSE, f.error, Message(f))
                           ELSE fdb_post_outcome(TRUE, 0, f.result)
    BY DEF Storage!DownloadUrl, Storage!fdb_post_outcome, Storage!Message,
        fdb_post_outcome, Message,
        Storage!Futures, Storage!Failed, Storage!Done, Storage!Results, Storage!SdkError,
        Futures, Failed, Done, Results, SdkError
  <2>. HIDE DEF e
  <2>3. AnswersAreRead(n, e)
    BY <2>1, <2>2, TextIsRead
  <2>. QED
    BY <2>3 DEF e
<1>. QED
  BY <1>1, <1>2, <1>3, <1>4, <1>5, <1>6

\* What the Dart callers of Storage make of a code.
LEMMA StorageSays ==
  /\ Storage!SaysCode[-1] = "code" /\ Storage!SaysCode[-2] = "code"
     /\ Storage!SaysCode[-3] = "code" /\ Storage!SaysCode[-4] = "code"
<1>1. Storage!SaysCode[-1] = "code" /\ Storage!SaysCode[-2] = "code"
      /\ Storage!SaysCode[-3] = "code" /\ Storage!SaysCode[-4] = "code"
  BY DEF Storage!SaysCode, Storage!Codes
<1>. QED
  BY <1>1

\* The functions of storage_impl.cpp.
LEMMA StorageIsSound ==
  ASSUME NEW n \in DOMAIN Storage!StorageFunctions
  PROVE  Sound(n, Storage!StorageFunctions[n])
<1>. USE DEF Guards, Explains, Names, NotThere, SdkAsserts, Causes,
         Storage!Storage, Storage!UseEmulator, Storage!Async, Storage!Sync,
         Storage!NoPath, Storage!NoMemory
<1>1. Sound("fdb_storage_use_emulator", Storage!fdb_storage_use_emulator)
  <2>1. AnswersAreRead("fdb_storage_use_emulator", Storage!fdb_storage_use_emulator)
    BY StorageAnswers DEF Storage!fdb_storage_use_emulator
  <2>2. /\ RefusalsExplain("fdb_storage_use_emulator", Storage!fdb_storage_use_emulator)
        /\ AssertsAreGuarded(Storage!fdb_storage_use_emulator)
    BY StorageSays DEF RefusalsExplain, AssertsAreGuarded,
        Storage!fdb_storage_use_emulator
  <2>. QED
    BY <2>1, <2>2 DEF Sound
<1>2. Sound("fdb_storage_metadata", Storage!fdb_storage_metadata)
  <2>1. AnswersAreRead("fdb_storage_metadata", Storage!fdb_storage_metadata)
    BY StorageAnswers
  <2>2. /\ RefusalsExplain("fdb_storage_metadata", Storage!fdb_storage_metadata)
        /\ AssertsAreGuarded(Storage!fdb_storage_metadata)
    BY StorageSays DEF RefusalsExplain, AssertsAreGuarded,
        Storage!fdb_storage_metadata
  <2>. QED
    BY <2>1, <2>2 DEF Sound
<1>3. Sound("fdb_storage_put", Storage!fdb_storage_put)
  <2>1. AnswersAreRead("fdb_storage_put", Storage!fdb_storage_put)
    BY StorageAnswers
  <2>2. /\ RefusalsExplain("fdb_storage_put", Storage!fdb_storage_put)
        /\ AssertsAreGuarded(Storage!fdb_storage_put)
    BY StorageSays DEF RefusalsExplain, AssertsAreGuarded,
        Storage!fdb_storage_put
  <2>. QED
    BY <2>1, <2>2 DEF Sound
<1>4. Sound("fdb_storage_get", Storage!fdb_storage_get)
  <2>1. AnswersAreRead("fdb_storage_get", Storage!fdb_storage_get)
    BY StorageAnswers
  <2>2. /\ RefusalsExplain("fdb_storage_get", Storage!fdb_storage_get)
        /\ AssertsAreGuarded(Storage!fdb_storage_get)
    BY StorageSays DEF RefusalsExplain, AssertsAreGuarded,
        Storage!fdb_storage_get
  <2>. QED
    BY <2>1, <2>2 DEF Sound
<1>5. Sound("fdb_storage_delete", Storage!fdb_storage_delete)
  <2>1. AnswersAreRead("fdb_storage_delete", Storage!fdb_storage_delete)
    BY StorageAnswers
  <2>2. /\ RefusalsExplain("fdb_storage_delete", Storage!fdb_storage_delete)
        /\ AssertsAreGuarded(Storage!fdb_storage_delete)
    BY StorageSays DEF RefusalsExplain, AssertsAreGuarded,
        Storage!fdb_storage_delete
  <2>. QED
    BY <2>1, <2>2 DEF Sound
<1>6. Sound("fdb_storage_download_url", Storage!fdb_storage_download_url)
  <2>1. AnswersAreRead("fdb_storage_download_url", Storage!fdb_storage_download_url)
    BY StorageAnswers
  <2>2. /\ RefusalsExplain("fdb_storage_download_url", Storage!fdb_storage_download_url)
        /\ AssertsAreGuarded(Storage!fdb_storage_download_url)
    BY StorageSays DEF RefusalsExplain, AssertsAreGuarded,
        Storage!fdb_storage_download_url
  <2>. QED
    BY <2>1, <2>2 DEF Sound
<1>. QED
  BY <1>1, <1>2, <1>3, <1>4, <1>5, <1>6
  DEF Storage!StorageFunctions

\* A token, or the code of the failure negated, for _readToken.
LEMMA TokenIsTold ==
  ASSUME NEW n, NEW f, NEW m
  PROVE  /\ f.error # 0 /\ f.error = SdkError /\ m = fdb_post_buffer(-SdkError, Message(f)) =>
              Tells(n, f, ReadToken(m))
         /\ f.error = 0 /\ f.result = "token" /\ m = fdb_post_buffer(100, "token") =>
              Tells(n, f, ReadToken(m))
         /\ f.error = 0 /\ f.result = "expired" /\ m = fdb_post_buffer(0, "token") =>
              Tells(n, f, ReadToken(m))
<1>1. ASSUME f.error # 0, f.error = SdkError, m = fdb_post_buffer(-SdkError, Message(f))
      PROVE  Tells(n, f, ReadToken(m))
  <2>1. m.shape = "buffer" /\ m.seq = -7
    BY <1>1 DEF fdb_post_buffer, SdkError
  <2>2. ReadToken(m).kind = "error" /\ ReadToken(m).code = 7
    BY <2>1 DEF ReadToken, Error
  <2>. QED
    BY <1>1, <2>2 DEF Tells, SdkError
<1>2. ASSUME f.error = 0,
             \/ f.result = "token" /\ m = fdb_post_buffer(100, "token")
             \/ f.result = "expired" /\ m = fdb_post_buffer(0, "token")
      PROVE  Tells(n, f, ReadToken(m))
  <2>1. /\ m.shape = "buffer" /\ m.payload = "token" /\ m.seq \in {0, 100}
        /\ m.seq = 0 <=> f.result = "expired"
        /\ m.seq = 100 <=> f.result = "token"
    BY <1>2 DEF fdb_post_buffer
  <2>2. ReadToken(m) = Value(f.result)
    BY <2>1 DEF ReadToken
  <2>. QED
    BY <1>2, <2>2 DEF Tells
<1>. QED
  BY <1>1, <1>2

\* What the functions of Functions and of App Check answer.
LEMMA FunctionsAnswers ==
  ASSUME NEW n, NEW op
  PROVE  /\ AnswersAreRead(n, Functions!UseEmulator("functions"))
         /\ AnswersAreRead("fdb_functions_call", Functions!fdb_functions_call)
         /\ AnswersAreRead(n, Functions!Token(op))
         /\ AnswersAreRead(n, Functions!fdb_ac_set_auto_refresh)
<1>1. AnswersAreRead(n, Functions!UseEmulator("functions"))
  <2> DEFINE e == Functions!UseEmulator("functions")
  <2>1. e.handler = "Returned" /\ e.results = {"done"} /\ e.mode = "returns"
    BY DEF Functions!UseEmulator, Functions!Sync, Functions!Async
  <2>. HIDE DEF e
  <2>2. AnswersAreRead(n, e)
    BY <2>1, ZeroIsRead
  <2>. QED
    BY <2>2 DEF e
<1>2. AnswersAreRead("fdb_functions_call", Functions!fdb_functions_call)
  <2> DEFINE e == Functions!fdb_functions_call
  <2>1. /\ e.handler = "CallFunction"
        /\ e.results = {"v", "big"}
        /\ e.answer = Functions!CallResult
        /\ e.mode = "port"
    BY DEF Functions!fdb_functions_call, Functions!Async
  <2>2. ASSUME NEW f \in Futures
        PROVE  LET a == Functions!CallResult[f] IN
               /\ f.error # 0 => \E payload : a = fdb_post_buffer(-1, payload)
               /\ f.error = 0 /\ f.result = "big" => a = fdb_post_buffer(-2, "")
               /\ f.error = 0 /\ f.result = "v" => a = fdb_post_buffer(1, "v")
    BY DEF Functions!CallResult, Functions!fdb_post_buffer, fdb_post_buffer,
        Functions!Futures, Functions!Failed, Functions!Done, Functions!Results,
            Functions!SdkError,
        Futures, Failed, Done, Results, SdkError
  <2>. HIDE DEF e
  <2>3. PostsSeq("fdb_functions_call", e)
    BY <2>1, <2>2 DEF PostsSeq, CodeIsLost
  <2>4. AnswersAreRead("fdb_functions_call", e)
    BY <2>3, BufferIsRead
  <2>. QED
    BY <2>4 DEF e
<1>3. AnswersAreRead(n, Functions!Token(op))
  <2> DEFINE e == Functions!Token(op)
  <2>1. /\ e.handler = "ReadToken"
        /\ e.results = {"token", "expired"}
        /\ e.answer = Functions!AppCheckToken
    BY DEF Functions!Token, Functions!Async
  <2>2. ASSUME NEW f \in Futures
        PROVE  LET a == Functions!AppCheckToken[f] IN
               /\ f.error # 0 => f.error = SdkError /\ a = fdb_post_buffer(-SdkError, Message(f))
               /\ f.error = 0 /\ f.result = "token" => a = fdb_post_buffer(100, "token")
               /\ f.error = 0 /\ f.result = "expired" => a = fdb_post_buffer(0, "token")
    <3>1. f.error = SdkError \/ f.error = 0
      BY DEF Futures, Failed, Done
    <3>2. f \in Functions!Futures
      BY DEF Functions!Futures, Functions!Failed, Functions!Done, Functions!Results,
          Functions!SdkError,
        Futures, Failed, Done, Results, SdkError
    <3>3. /\ f.error # 0 => Functions!AppCheckToken[f] = fdb_post_buffer(-f.error,
                             Message(f))
          /\ f.error = 0 => Functions!AppCheckToken[f] =
               fdb_post_buffer(IF f.result = "expired" THEN 0 ELSE 100, "token")
      BY <3>2 DEF Functions!AppCheckToken, Functions!ExpireTimeMillis,
          Functions!fdb_post_buffer,
          Functions!Message, fdb_post_buffer, Message
    <3>. QED
      BY <3>1, <3>3
  <2>. HIDE DEF e
  <2>3. ASSUME NEW f \in Endings(e) PROVE Tells(n, f, Read(e.handler, e.answer[f]))
    <3>1. e.results \subseteq Results
      BY <2>1 DEF Results
    <3>2. f \in Futures /\ (f.error # 0 \/ (f.error = 0 /\ f.result \in {"token", "expired"}))
      BY <2>1, <3>1, EndingIs
    <3>3. Read(e.handler, e.answer[f]) = ReadToken(Functions!AppCheckToken[f])
      BY <2>1, Handlers
    <3>4. Tells(n, f, ReadToken(Functions!AppCheckToken[f]))
      BY <2>2, <3>2, TokenIsTold
    <3>. QED
      BY <3>3, <3>4
  <2>4. AnswersAreRead(n, e)
    BY <2>3 DEF AnswersAreRead
  <2>. QED
    BY <2>4 DEF e
<1>4. AnswersAreRead(n, Functions!fdb_ac_set_auto_refresh)
  <2> DEFINE e == Functions!fdb_ac_set_auto_refresh
  <2>1. e.handler = "Returned" /\ e.results = {"done"} /\ e.mode = "returns"
    BY DEF Functions!fdb_ac_set_auto_refresh, Functions!Sync, Functions!Async
  <2>. HIDE DEF e
  <2>2. AnswersAreRead(n, e)
    BY <2>1, ZeroIsRead
  <2>. QED
    BY <2>2 DEF e
<1>. QED
  BY <1>1, <1>2, <1>3, <1>4

\* What the Dart callers of callFunction make of a code.
LEMMA FunctionsSays ==
  /\ Functions!SaysCode[-1] = "code" /\ Functions!SaysCode[-2] = "code"
     /\ Functions!SaysCode[-3] = "code" /\ Functions!SaysCode[-4] = "code"
  /\ Functions!SaysCall[-1] = "code" /\ Functions!SaysCall[-2] = "code"
     /\ Functions!SaysCall[-3] = "value" /\ Functions!SaysCall[-4] = "code"
<1>0. /\ DOMAIN Functions!SaysCode = {-1, -2, -3, -4}
  BY DEF Functions!SaysCode, Functions!Codes
<1>1. Functions!SaysCode[-1] = "code" /\ Functions!SaysCode[-2] = "code"
      /\ Functions!SaysCode[-3] = "code" /\ Functions!SaysCode[-4] = "code"
  BY DEF Functions!SaysCode, Functions!Codes
<1>2. Functions!SaysCall[-1] = "code" /\ Functions!SaysCall[-2] = "code"
      /\ Functions!SaysCall[-3] = "value" /\ Functions!SaysCall[-4] = "code"
  BY <1>0, <1>1 DEF Functions!SaysCall
<1>. QED
  BY <1>1, <1>2

\* The functions of functions_impl.cpp and app_check_impl.cpp.
LEMMA FunctionsIsSound ==
  ASSUME NEW n \in DOMAIN Functions!FunctionsFunctions
  PROVE  Sound(n, Functions!FunctionsFunctions[n])
<1>. USE DEF Guards, Explains, Names, NotThere, SdkAsserts, Causes,
         Functions!Token, Functions!UseEmulator, Functions!Async, Functions!Sync
<1>1. Sound("fdb_functions_use_emulator", Functions!fdb_functions_use_emulator)
  <2>1. AnswersAreRead("fdb_functions_use_emulator", Functions!fdb_functions_use_emulator)
    BY FunctionsAnswers DEF Functions!fdb_functions_use_emulator
  <2>2. /\ RefusalsExplain("fdb_functions_use_emulator",
                           Functions!fdb_functions_use_emulator)
        /\ AssertsAreGuarded(Functions!fdb_functions_use_emulator)
    BY FunctionsSays DEF Functions!Codes, RefusalsExplain, AssertsAreGuarded,
        Functions!fdb_functions_use_emulator
  <2>. QED
    BY <2>1, <2>2 DEF Sound
<1>2. Sound("fdb_functions_call", Functions!fdb_functions_call)
  <2>1. AnswersAreRead("fdb_functions_call", Functions!fdb_functions_call)
    BY FunctionsAnswers
  <2>2. /\ RefusalsExplain("fdb_functions_call", Functions!fdb_functions_call)
        /\ AssertsAreGuarded(Functions!fdb_functions_call)
    BY FunctionsSays DEF Functions!Codes, RefusalsExplain, AssertsAreGuarded,
        Functions!fdb_functions_call
  <2>. QED
    BY <2>1, <2>2 DEF Sound
<1>3. Sound("fdb_ac_get_token", Functions!fdb_ac_get_token)
  <2>1. AnswersAreRead("fdb_ac_get_token", Functions!fdb_ac_get_token)
    BY FunctionsAnswers DEF Functions!fdb_ac_get_token
  <2>2. /\ RefusalsExplain("fdb_ac_get_token", Functions!fdb_ac_get_token)
        /\ AssertsAreGuarded(Functions!fdb_ac_get_token)
    BY FunctionsSays DEF Functions!Codes, RefusalsExplain, AssertsAreGuarded,
        Functions!fdb_ac_get_token
  <2>. QED
    BY <2>1, <2>2 DEF Sound
<1>4. Sound("fdb_ac_limited_use_token", Functions!fdb_ac_limited_use_token)
  <2>1. AnswersAreRead("fdb_ac_limited_use_token", Functions!fdb_ac_limited_use_token)
    BY FunctionsAnswers DEF Functions!fdb_ac_limited_use_token
  <2>2. /\ RefusalsExplain("fdb_ac_limited_use_token", Functions!fdb_ac_limited_use_token)
        /\ AssertsAreGuarded(Functions!fdb_ac_limited_use_token)
    BY FunctionsSays DEF Functions!Codes, RefusalsExplain, AssertsAreGuarded,
        Functions!fdb_ac_limited_use_token
  <2>. QED
    BY <2>1, <2>2 DEF Sound
<1>5. Sound("fdb_ac_set_auto_refresh", Functions!fdb_ac_set_auto_refresh)
  <2>1. AnswersAreRead("fdb_ac_set_auto_refresh", Functions!fdb_ac_set_auto_refresh)
    BY FunctionsAnswers
  <2>2. /\ RefusalsExplain("fdb_ac_set_auto_refresh", Functions!fdb_ac_set_auto_refresh)
        /\ AssertsAreGuarded(Functions!fdb_ac_set_auto_refresh)
    BY FunctionsSays DEF Functions!Codes, RefusalsExplain, AssertsAreGuarded,
        Functions!fdb_ac_set_auto_refresh
  <2>. QED
    BY <2>1, <2>2 DEF Sound
<1>. QED
  BY <1>1, <1>2, <1>3, <1>4, <1>5
  DEF Functions!FunctionsFunctions

\* The same of true and false.
LEMMA SameActivated ==
  ASSUME NEW f \in Futures
  PROVE  LET a == RemoteConfig!Activated[f] IN
         /\ f.error # 0 => a = fdb_post_outcome(FALSE, f.error, Message(f))
         /\ f.error = 0 /\ f.result = "yes" => a = fdb_post_outcome(TRUE, 1, "")
         /\ f.error = 0 /\ f.result = "no" => a = fdb_post_outcome(TRUE, 0, "")
BY DEF RemoteConfig!Activated, RemoteConfig!fdb_post_outcome, RemoteConfig!Message,
   fdb_post_outcome, Message, RemoteConfig!Futures, RemoteConfig!Failed,
   RemoteConfig!Done, RemoteConfig!Results, RemoteConfig!SdkError,
        Futures, Failed, Done, Results, SdkError

\* What the functions of Remote Config answer.
LEMMA RemoteConfigAnswers ==
  ASSUME NEW n
  PROVE  /\ AnswersAreRead(n, RemoteConfig!fdb_rc_init)
         /\ AnswersAreRead(n, RemoteConfig!fdb_rc_set_defaults)
         /\ AnswersAreRead("fdb_rc_get_all", RemoteConfig!fdb_rc_get_all)
         /\ AnswersAreRead(n, RemoteConfig!fdb_rc_fetch)
         /\ AnswersAreRead(n, RemoteConfig!fdb_rc_activate)
         /\ AnswersAreRead(n, RemoteConfig!fdb_rc_fetch_and_activate)
         /\ AnswersAreRead(n, RemoteConfig!fdb_rc_set_settings)
         /\ AnswersAreRead(n, RemoteConfig!fdb_rc_info)
         /\ AnswersAreRead(n, RemoteConfig!fdb_rc_get_settings)
         /\ AnswersAreRead(n, RemoteConfig!fdb_rc_value_source)
<1>1. AnswersAreRead(n, RemoteConfig!fdb_rc_init)
  <2> DEFINE e == RemoteConfig!fdb_rc_init
  <2>1. /\ e.handler = "AwaitOutcome"
        /\ e.results = {"done"}
        /\ e.answer = RemoteConfig!Outcome
    BY DEF RemoteConfig!fdb_rc_init, RemoteConfig!Config, RemoteConfig!Async
  <2>. HIDE DEF e
  <2>2. AnswersAreRead(n, e)
    BY <2>1, SameOutcome, OutcomeIsRead
  <2>. QED
    BY <2>2 DEF e
<1>2. AnswersAreRead(n, RemoteConfig!fdb_rc_set_defaults)
  <2> DEFINE e == RemoteConfig!fdb_rc_set_defaults
  <2>1. /\ e.handler = "AwaitOutcome"
        /\ e.results = {"done"}
        /\ e.answer = RemoteConfig!Outcome
    BY DEF RemoteConfig!fdb_rc_set_defaults, RemoteConfig!Config, RemoteConfig!Async
  <2>. HIDE DEF e
  <2>2. AnswersAreRead(n, e)
    BY <2>1, SameOutcome, OutcomeIsRead
  <2>. QED
    BY <2>2 DEF e
<1>3. AnswersAreRead("fdb_rc_get_all", RemoteConfig!fdb_rc_get_all)
  <2> DEFINE e == RemoteConfig!fdb_rc_get_all
  <2>1. /\ e.handler = "ConfigValues"
        /\ e.results = {"v", "big"}
        /\ e.answer = RemoteConfig!AllValues
        /\ e.mode = "posts"
    BY DEF RemoteConfig!fdb_rc_get_all, RemoteConfig!Config, RemoteConfig!Async
  <2>2. ASSUME NEW f \in Futures
        PROVE  LET a == RemoteConfig!AllValues[f] IN
               /\ f.error = 0 /\ f.result = "big" => a = fdb_post_buffer(-2, "")
               /\ f.error = 0 /\ f.result = "v" => a = fdb_post_buffer(1, "v")
    BY DEF RemoteConfig!AllValues, RemoteConfig!fdb_post_buffer, fdb_post_buffer,
        RemoteConfig!Futures, RemoteConfig!Failed, RemoteConfig!Done, RemoteConfig!Results,
            RemoteConfig!SdkError,
        Futures, Failed, Done, Results, SdkError
  <2>. HIDE DEF e
  <2>3. PostsSeq("fdb_rc_get_all", e)
    BY <2>1, <2>2 DEF PostsSeq, CodeIsLost
  <2>4. AnswersAreRead("fdb_rc_get_all", e)
    BY <2>3, BufferIsRead
  <2>. QED
    BY <2>4 DEF e
<1>4. AnswersAreRead(n, RemoteConfig!fdb_rc_fetch)
  <2> DEFINE e == RemoteConfig!fdb_rc_fetch
  <2>1. /\ e.handler = "AwaitOutcome"
        /\ e.results = {"done"}
        /\ e.answer = RemoteConfig!Outcome
    BY DEF RemoteConfig!fdb_rc_fetch, RemoteConfig!Config, RemoteConfig!Async
  <2>. HIDE DEF e
  <2>2. AnswersAreRead(n, e)
    BY <2>1, SameOutcome, OutcomeIsRead
  <2>. QED
    BY <2>2 DEF e
<1>5. AnswersAreRead(n, RemoteConfig!fdb_rc_activate)
  <2> DEFINE e == RemoteConfig!fdb_rc_activate
  <2>1. /\ e.handler = "AwaitActivated"
        /\ e.results = {"yes", "no"}
        /\ e.answer = RemoteConfig!Activated
    BY DEF RemoteConfig!fdb_rc_activate, RemoteConfig!Config, RemoteConfig!Async
  <2>. HIDE DEF e
  <2>2. AnswersAreRead(n, e)
    BY <2>1, SameActivated, ActivatedIsRead
  <2>. QED
    BY <2>2 DEF e
<1>6. AnswersAreRead(n, RemoteConfig!fdb_rc_fetch_and_activate)
  <2> DEFINE e == RemoteConfig!fdb_rc_fetch_and_activate
  <2>1. /\ e.handler = "AwaitActivated"
        /\ e.results = {"yes", "no"}
        /\ e.answer = RemoteConfig!Activated
    BY DEF RemoteConfig!fdb_rc_fetch_and_activate, RemoteConfig!Config, RemoteConfig!Async
  <2>. HIDE DEF e
  <2>2. AnswersAreRead(n, e)
    BY <2>1, SameActivated, ActivatedIsRead
  <2>. QED
    BY <2>2 DEF e
<1>7. AnswersAreRead(n, RemoteConfig!fdb_rc_set_settings)
  <2> DEFINE e == RemoteConfig!fdb_rc_set_settings
  <2>1. /\ e.handler = "AwaitOutcome"
        /\ e.results = {"done"}
        /\ e.answer = RemoteConfig!Outcome
    BY DEF RemoteConfig!fdb_rc_set_settings, RemoteConfig!Config, RemoteConfig!Async
  <2>. HIDE DEF e
  <2>2. AnswersAreRead(n, e)
    BY <2>1, SameOutcome, OutcomeIsRead
  <2>. QED
    BY <2>2 DEF e
<1>8. AnswersAreRead(n, RemoteConfig!fdb_rc_info)
  <2> DEFINE e == RemoteConfig!fdb_rc_info
  <2>1. /\ e.handler = "ConfigInfo" /\ e.results = {"never", "success", "failure", "pending"}
        /\ e.mode = "returns" /\ e.answer = RemoteConfig!Info
    BY DEF RemoteConfig!fdb_rc_info, RemoteConfig!Async, RemoteConfig!Sync,
        RemoteConfig!Config
  <2>2. ASSUME NEW f \in Futures
        PROVE  /\ f.result = "never" => RemoteConfig!Info[f].items = <<0, 0>>
               /\ f.result = "success" => RemoteConfig!Info[f].items = <<1, 0>>
               /\ f.result = "failure" => RemoteConfig!Info[f].items = <<1, 1>>
               /\ f.result = "pending" => RemoteConfig!Info[f].items = <<1, 2>>
    BY DEF RemoteConfig!Info, RemoteConfig!Returns, RemoteConfig!Futures,
        RemoteConfig!Failed, RemoteConfig!Done, RemoteConfig!Results, RemoteConfig!SdkError,
        Futures, Failed, Done, Results, SdkError
  <2>. HIDE DEF e
  <2>3. ASSUME NEW f \in Endings(e) PROVE Tells(n, f, Read(e.handler, e.answer[f]))
    <3>1. e.results \subseteq Results
      BY <2>1 DEF Results
    <3>2. f \in Futures /\ f.error = 0 /\ f.result \in e.results
      BY <2>1, <3>1, EndingIs
    <3>3. Read(e.handler, e.answer[f]) = ConfigInfo(e.answer[f])
      BY <2>1, Handlers
    <3>4. CASE f.result = "never"
      <4>1. e.answer[f].items = <<0, 0>>
        BY <2>1, <2>2, <3>2, <3>4
      <4>2. ConfigInfo(e.answer[f]) = Value("never")
        BY <4>1 DEF ConfigInfo
      <4>. QED
        BY <3>2, <3>3, <3>4, <4>2 DEF Tells
    <3>5. CASE f.result = "success"
      <4>1. e.answer[f].items = <<1, 0>>
        BY <2>1, <2>2, <3>2, <3>5
      <4>2. ConfigInfo(e.answer[f]) = Value("success")
        BY <4>1 DEF ConfigInfo
      <4>. QED
        BY <3>2, <3>3, <3>5, <4>2 DEF Tells
    <3>6. CASE f.result = "failure"
      <4>1. e.answer[f].items = <<1, 1>>
        BY <2>1, <2>2, <3>2, <3>6
      <4>2. ConfigInfo(e.answer[f]) = Value("failure")
        BY <4>1 DEF ConfigInfo
      <4>. QED
        BY <3>2, <3>3, <3>6, <4>2 DEF Tells
    <3>7. CASE f.result = "pending"
      <4>1. e.answer[f].items = <<1, 2>>
        BY <2>1, <2>2, <3>2, <3>7
      <4>2. ConfigInfo(e.answer[f]) = Value("pending")
        BY <4>1 DEF ConfigInfo
      <4>. QED
        BY <3>2, <3>3, <3>7, <4>2 DEF Tells
    <3>. QED
      BY <2>1, <3>2, <3>4, <3>5, <3>6, <3>7
  <2>4. AnswersAreRead(n, e)
    BY <2>3 DEF AnswersAreRead
  <2>. QED
    BY <2>4 DEF e
<1>9. AnswersAreRead(n, RemoteConfig!fdb_rc_get_settings)
  <2> DEFINE e == RemoteConfig!fdb_rc_get_settings
  <2>1. e.handler = "Returned" /\ e.results = {"done"} /\ e.mode = "returns"
    BY DEF RemoteConfig!fdb_rc_get_settings, RemoteConfig!Sync, RemoteConfig!Async
  <2>. HIDE DEF e
  <2>2. AnswersAreRead(n, e)
    BY <2>1, ZeroIsRead
  <2>. QED
    BY <2>2 DEF e
<1>10. AnswersAreRead(n, RemoteConfig!fdb_rc_value_source)
  <2> DEFINE e == RemoteConfig!fdb_rc_value_source
  <2>1. /\ e.handler = "ConfigValueSource" /\ e.results = {"static", "remote", "default"}
        /\ e.mode = "returns" /\ e.answer = RemoteConfig!Source
    BY DEF RemoteConfig!fdb_rc_value_source, RemoteConfig!Async, RemoteConfig!Sync,
        RemoteConfig!Config
  <2>2. ASSUME NEW f \in Futures
        PROVE  /\ f.result = "static" => RemoteConfig!Source[f].items = <<0>>
               /\ f.result = "remote" => RemoteConfig!Source[f].items = <<1>>
               /\ f.result = "default" => RemoteConfig!Source[f].items = <<2>>
    BY DEF RemoteConfig!Source, RemoteConfig!Returns, RemoteConfig!Futures,
        RemoteConfig!Failed, RemoteConfig!Done, RemoteConfig!Results, RemoteConfig!SdkError,
        Futures, Failed, Done, Results, SdkError
  <2>. HIDE DEF e
  <2>3. ASSUME NEW f \in Endings(e) PROVE Tells(n, f, Read(e.handler, e.answer[f]))
    <3>1. e.results \subseteq Results
      BY <2>1 DEF Results
    <3>2. f \in Futures /\ f.error = 0 /\ f.result \in e.results
      BY <2>1, <3>1, EndingIs
    <3>3. Read(e.handler, e.answer[f]) = ConfigValueSource(e.answer[f])
      BY <2>1, Handlers
    <3>4. CASE f.result = "static"
      <4>1. e.answer[f].items = <<0>>
        BY <2>1, <2>2, <3>2, <3>4
      <4>2. ConfigValueSource(e.answer[f]) = Value("static")
        BY <4>1 DEF ConfigValueSource
      <4>. QED
        BY <3>2, <3>3, <3>4, <4>2 DEF Tells
    <3>5. CASE f.result = "remote"
      <4>1. e.answer[f].items = <<1>>
        BY <2>1, <2>2, <3>2, <3>5
      <4>2. ConfigValueSource(e.answer[f]) = Value("remote")
        BY <4>1 DEF ConfigValueSource
      <4>. QED
        BY <3>2, <3>3, <3>5, <4>2 DEF Tells
    <3>6. CASE f.result = "default"
      <4>1. e.answer[f].items = <<2>>
        BY <2>1, <2>2, <3>2, <3>6
      <4>2. ConfigValueSource(e.answer[f]) = Value("default")
        BY <4>1 DEF ConfigValueSource
      <4>. QED
        BY <3>2, <3>3, <3>6, <4>2 DEF Tells
    <3>. QED
      BY <2>1, <3>2, <3>4, <3>5, <3>6
  <2>4. AnswersAreRead(n, e)
    BY <2>3 DEF AnswersAreRead
  <2>. QED
    BY <2>4 DEF e
<1>. QED
  BY <1>1, <1>2, <1>3, <1>4, <1>5, <1>6, <1>7, <1>8, <1>9, <1>10

\* What the Dart callers of Remote Config make of a code.
LEMMA RemoteConfigSays ==
  /\ RemoteConfig!SaysCode[-1] = "code" /\ RemoteConfig!SaysCode[-2] = "code"
     /\ RemoteConfig!SaysCode[-3] = "code" /\ RemoteConfig!SaysCode[-4] = "code"
  /\ RemoteConfig!SaysConfig[-1] = "app" /\ RemoteConfig!SaysConfig[-2] = "instance"
     /\ RemoteConfig!SaysConfig[-3] = "value" /\ RemoteConfig!SaysConfig[-4] = "code"
  /\ RemoteConfig!SaysInts[-1] = "product" /\ RemoteConfig!SaysInts[-2] = "code"
     /\ RemoteConfig!SaysInts[-3] = "code" /\ RemoteConfig!SaysInts[-4] = "code"
  /\ RemoteConfig!SaysKey[-1] = "product" /\ RemoteConfig!SaysKey[-2] = "key"
     /\ RemoteConfig!SaysKey[-3] = "key" /\ RemoteConfig!SaysKey[-4] = "key"
<1>0. /\ DOMAIN RemoteConfig!SaysCode = {-1, -2, -3, -4}
  BY DEF RemoteConfig!SaysCode, RemoteConfig!Codes
<1>1. RemoteConfig!SaysCode[-1] = "code" /\ RemoteConfig!SaysCode[-2] = "code"
      /\ RemoteConfig!SaysCode[-3] = "code" /\ RemoteConfig!SaysCode[-4] = "code"
  BY DEF RemoteConfig!SaysCode, RemoteConfig!Codes
<1>2. RemoteConfig!SaysConfig[-1] = "app" /\ RemoteConfig!SaysConfig[-2] = "instance"
      /\ RemoteConfig!SaysConfig[-3] = "value" /\ RemoteConfig!SaysConfig[-4] = "code"
  BY DEF RemoteConfig!SaysConfig, RemoteConfig!Codes
<1>3. RemoteConfig!SaysInts[-1] = "product" /\ RemoteConfig!SaysInts[-2] = "code"
      /\ RemoteConfig!SaysInts[-3] = "code" /\ RemoteConfig!SaysInts[-4] = "code"
  BY <1>0, <1>1 DEF RemoteConfig!SaysInts
<1>4. RemoteConfig!SaysKey[-1] = "product" /\ RemoteConfig!SaysKey[-2] = "key"
      /\ RemoteConfig!SaysKey[-3] = "key" /\ RemoteConfig!SaysKey[-4] = "key"
  BY DEF RemoteConfig!SaysKey, RemoteConfig!Codes
<1>. QED
  BY <1>1, <1>2, <1>3, <1>4

\* The functions of remote_config_impl.cpp.
LEMMA RemoteConfigIsSound ==
  ASSUME NEW n \in DOMAIN RemoteConfig!RemoteConfigFunctions
  PROVE  Sound(n, RemoteConfig!RemoteConfigFunctions[n])
<1>. USE DEF Guards, Explains, Names, NotThere, SdkAsserts, Causes,
         RemoteConfig!Config, RemoteConfig!Async, RemoteConfig!Sync
<1>1. Sound("fdb_rc_init", RemoteConfig!fdb_rc_init)
  <2>1. AnswersAreRead("fdb_rc_init", RemoteConfig!fdb_rc_init)
    BY RemoteConfigAnswers
  <2>2. /\ RefusalsExplain("fdb_rc_init", RemoteConfig!fdb_rc_init)
        /\ AssertsAreGuarded(RemoteConfig!fdb_rc_init)
    BY RemoteConfigSays DEF RefusalsExplain, AssertsAreGuarded,
        RemoteConfig!fdb_rc_init
  <2>. QED
    BY <2>1, <2>2 DEF Sound
<1>2. Sound("fdb_rc_set_defaults", RemoteConfig!fdb_rc_set_defaults)
  <2>1. AnswersAreRead("fdb_rc_set_defaults", RemoteConfig!fdb_rc_set_defaults)
    BY RemoteConfigAnswers
  <2>2. /\ RefusalsExplain("fdb_rc_set_defaults", RemoteConfig!fdb_rc_set_defaults)
        /\ AssertsAreGuarded(RemoteConfig!fdb_rc_set_defaults)
    BY RemoteConfigSays DEF RefusalsExplain, AssertsAreGuarded,
        RemoteConfig!fdb_rc_set_defaults
  <2>. QED
    BY <2>1, <2>2 DEF Sound
<1>3. Sound("fdb_rc_get_all", RemoteConfig!fdb_rc_get_all)
  <2>1. AnswersAreRead("fdb_rc_get_all", RemoteConfig!fdb_rc_get_all)
    BY RemoteConfigAnswers
  <2>2. /\ RefusalsExplain("fdb_rc_get_all", RemoteConfig!fdb_rc_get_all)
        /\ AssertsAreGuarded(RemoteConfig!fdb_rc_get_all)
    BY RemoteConfigSays DEF RefusalsExplain, AssertsAreGuarded,
        RemoteConfig!fdb_rc_get_all
  <2>. QED
    BY <2>1, <2>2 DEF Sound
<1>4. Sound("fdb_rc_fetch", RemoteConfig!fdb_rc_fetch)
  <2>1. AnswersAreRead("fdb_rc_fetch", RemoteConfig!fdb_rc_fetch)
    BY RemoteConfigAnswers
  <2>2. /\ RefusalsExplain("fdb_rc_fetch", RemoteConfig!fdb_rc_fetch)
        /\ AssertsAreGuarded(RemoteConfig!fdb_rc_fetch)
    BY RemoteConfigSays DEF RefusalsExplain, AssertsAreGuarded,
        RemoteConfig!fdb_rc_fetch
  <2>. QED
    BY <2>1, <2>2 DEF Sound
<1>5. Sound("fdb_rc_activate", RemoteConfig!fdb_rc_activate)
  <2>1. AnswersAreRead("fdb_rc_activate", RemoteConfig!fdb_rc_activate)
    BY RemoteConfigAnswers
  <2>2. /\ RefusalsExplain("fdb_rc_activate", RemoteConfig!fdb_rc_activate)
        /\ AssertsAreGuarded(RemoteConfig!fdb_rc_activate)
    BY RemoteConfigSays DEF RefusalsExplain, AssertsAreGuarded,
        RemoteConfig!fdb_rc_activate
  <2>. QED
    BY <2>1, <2>2 DEF Sound
<1>6. Sound("fdb_rc_fetch_and_activate", RemoteConfig!fdb_rc_fetch_and_activate)
  <2>1. AnswersAreRead("fdb_rc_fetch_and_activate", RemoteConfig!fdb_rc_fetch_and_activate)
    BY RemoteConfigAnswers
  <2>2. /\ RefusalsExplain("fdb_rc_fetch_and_activate",
                           RemoteConfig!fdb_rc_fetch_and_activate)
        /\ AssertsAreGuarded(RemoteConfig!fdb_rc_fetch_and_activate)
    BY RemoteConfigSays DEF RefusalsExplain, AssertsAreGuarded,
        RemoteConfig!fdb_rc_fetch_and_activate
  <2>. QED
    BY <2>1, <2>2 DEF Sound
<1>7. Sound("fdb_rc_set_settings", RemoteConfig!fdb_rc_set_settings)
  <2>1. AnswersAreRead("fdb_rc_set_settings", RemoteConfig!fdb_rc_set_settings)
    BY RemoteConfigAnswers
  <2>2. /\ RefusalsExplain("fdb_rc_set_settings", RemoteConfig!fdb_rc_set_settings)
        /\ AssertsAreGuarded(RemoteConfig!fdb_rc_set_settings)
    BY RemoteConfigSays DEF RefusalsExplain, AssertsAreGuarded,
        RemoteConfig!fdb_rc_set_settings
  <2>. QED
    BY <2>1, <2>2 DEF Sound
<1>8. Sound("fdb_rc_info", RemoteConfig!fdb_rc_info)
  <2>1. AnswersAreRead("fdb_rc_info", RemoteConfig!fdb_rc_info)
    BY RemoteConfigAnswers
  <2>2. /\ RefusalsExplain("fdb_rc_info", RemoteConfig!fdb_rc_info)
        /\ AssertsAreGuarded(RemoteConfig!fdb_rc_info)
    BY RemoteConfigSays DEF RefusalsExplain, AssertsAreGuarded,
        RemoteConfig!fdb_rc_info
  <2>. QED
    BY <2>1, <2>2 DEF Sound
<1>9. Sound("fdb_rc_get_settings", RemoteConfig!fdb_rc_get_settings)
  <2>1. AnswersAreRead("fdb_rc_get_settings", RemoteConfig!fdb_rc_get_settings)
    BY RemoteConfigAnswers
  <2>2. /\ RefusalsExplain("fdb_rc_get_settings", RemoteConfig!fdb_rc_get_settings)
        /\ AssertsAreGuarded(RemoteConfig!fdb_rc_get_settings)
    BY RemoteConfigSays DEF RefusalsExplain, AssertsAreGuarded,
        RemoteConfig!fdb_rc_get_settings
  <2>. QED
    BY <2>1, <2>2 DEF Sound
<1>10. Sound("fdb_rc_value_source", RemoteConfig!fdb_rc_value_source)
  <2>1. AnswersAreRead("fdb_rc_value_source", RemoteConfig!fdb_rc_value_source)
    BY RemoteConfigAnswers
  <2>2. /\ RefusalsExplain("fdb_rc_value_source", RemoteConfig!fdb_rc_value_source)
        /\ AssertsAreGuarded(RemoteConfig!fdb_rc_value_source)
    BY RemoteConfigSays DEF RefusalsExplain, AssertsAreGuarded,
        RemoteConfig!fdb_rc_value_source
  <2>. QED
    BY <2>1, <2>2 DEF Sound
<1>. QED
  BY <1>1, <1>2, <1>3, <1>4, <1>5, <1>6, <1>7, <1>8, <1>9, <1>10
  DEF RemoteConfig!RemoteConfigFunctions

-----------------------------------------------------------------------------
\* Every function is one of the library's.
ApiIsTheLibrary ==
  \A n \in DOMAIN Api :
    \/ n \in DOMAIN Database!DatabaseFunctions /\ Api[n] = Database!DatabaseFunctions[n]
    \/ n \in DOMAIN Firestore!FirestoreFunctions /\ Api[n] = Firestore!FirestoreFunctions[n]
    \/ n \in DOMAIN Auth!AuthFunctions /\ Api[n] = Auth!AuthFunctions[n]
    \/ n \in DOMAIN Storage!StorageFunctions /\ Api[n] = Storage!StorageFunctions[n]
    \/ n \in DOMAIN RemoteConfig!RemoteConfigFunctions
       /\ Api[n] = RemoteConfig!RemoteConfigFunctions[n]
    \/ n \in DOMAIN Functions!FunctionsFunctions /\ Api[n] = Functions!FunctionsFunctions[n]

LEMMA LibraryIsSound ==
  ASSUME ApiIsTheLibrary
  PROVE  \A n \in DOMAIN Api :
           AnswersAreRead(n, Api[n]) /\ RefusalsExplain(n, Api[n]) /\ AssertsAreGuarded(Api[n])
<1>. SUFFICES ASSUME NEW n \in DOMAIN Api PROVE Sound(n, Api[n])
  BY DEF Sound
<1>. QED
  BY DatabaseIsSound, FirestoreIsSound, AuthIsSound, StorageIsSound, RemoteConfigIsSound,
     FunctionsIsSound
  DEF ApiIsTheLibrary

\* Whatever the SDK makes of a call, its caller is told that: its error and its
\* code, its result, and what could not be encoded as a failure.
THEOREM FuturesTellTheTruth ==
  ASSUME ApiIsTheLibrary
  PROVE  Spec => []FutureTellsTheTruth
<1>1. IInv => FutureTellsTheTruth
  BY LibraryIsSound, Truth
<1>. QED
  BY <1>1, Invariance, PTL

\* A refused call has left nothing behind and is told its cause, and the SDK is
\* given nothing that it does not survive.
THEOREM RefusalsAreTrue ==
  ASSUME ApiIsTheLibrary
  PROVE  Spec => []RefusalIsTrue
<1>1. IInv => RefusalIsTrue
  BY LibraryIsSound, Refusals
<1>. QED
  BY <1>1, Invariance, PTL

=============================================================================
