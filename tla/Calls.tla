------------------------------- MODULE Calls -------------------------------
(***************************************************************************)
(* A call from Dart through the library and back: the App, the instances   *)
(* of the products, the guards of a C function, the SDK's Future, the      *)
(* message on the call's own port and the Dart handler, with the memory    *)
(* that changes hands on the way.                                          *)
(*                                                                         *)
(* One call is followed from its start to what its caller is told.  Other  *)
(* callers of the isolate sign out, drop the connection, restore it and    *)
(* purge the outstanding writes meanwhile, and the isolate may exit and be *)
(* started again, which leaves the library's state as it is.               *)
(*                                                                         *)
(* The functions are a parameter: every one of the library is a record of  *)
(* Boundary's Async or Sync, in the module of its product.                 *)
(***************************************************************************)
EXTENDS Boundary, FiniteSets

CONSTANTS
  Api,             \* the functions of the library, by name
  MemoryRunsOut,   \* whether malloc may fail when an answer is posted
  IsolateMayExit,  \* whether the isolate may exit and be started again
  MaxProducts      \* bound: the products that are in use

Products == {"database", "firestore", "auth", "storage", "functions",
             "app_check", "remote_config"}

\* What a guard may find wrong.
Reasons == {"app", "instance", "product", "host", "path", "value", "map", "query",
            "key", "room", "token", "user", "spec", "field", "memory", "name",
            "negative"}

ASSUME ApiAssumption ==
  /\ MemoryRunsOut \in BOOLEAN /\ IsolateMayExit \in BOOLEAN
  /\ MaxProducts \in Nat
  /\ \A n \in DOMAIN Api :
       /\ Api[n].product \in Products
       /\ Api[n].mode \in {"port", "returns", "posts", "creates"}
       /\ Api[n].results \subseteq Results /\ Api[n].results # {}
       /\ Api[n].buffer \in {"none", "copy", "posted"}
       /\ Api[n].refuses \in Seq(Reasons \X Codes)
       /\ Api[n].op = "current_user" => {"uid", "absent"} \subseteq Api[n].results

\* What the SDK does not survive, and the library has to refuse: it asserts on
\* children that are no map, throws on a malformed field path, and takes a
\* negative interval for an enormous one.
SdkAsserts(op) ==
  CASE op \in {"UpdateChildren", "OnDisconnect.UpdateChildren"} -> {"map"}
    [] op \in {"Query.Get", "Count.Get", "Sum.Get", "Average.Get"} -> {"field"}
    [] op = "SetConfigSettings" -> {"negative"}
    [] op = "GetToken" -> {"user"}
    [] OTHER -> {}

VARIABLES
  app,                  \* g_app: none, or whether its options name a database
  g_has_database_url,   \* what EnsureDatabase goes by
  instance,             \* per product, none, good, or one that never answers
  online,               \* GoOffline and GoOnline
  user,                 \* whether somebody is signed in
  exited,               \* the isolate has exited
  call,                 \* the call that is followed
  urlLost               \* history: an app with a url could not be created

vars == <<app, g_has_database_url, instance, online, user, exited, call, urlLost>>
state == <<app, g_has_database_url, urlLost>>

NoMessage == [shape |-> "none"]

\* `held` is memory the function took, `posted` the buffer of the message: in
\* native hands, the VM's, freed, freed twice, or leaked.
IdleCall ==
  [fn |-> "none", stage |-> "idle", faults |-> {}, cause |-> "none",
   sdk |-> Failed, message |-> NoMessage, told |-> Nothing, port |-> "none",
   held |-> "none", posted |-> "none"]

Entry == Api[call.fn]

Init ==
  /\ app = "none" /\ g_has_database_url = FALSE /\ urlLost = FALSE
  /\ instance = [p \in Products |-> "none"]
  /\ online = TRUE /\ user = FALSE /\ exited = FALSE
  /\ call = IdleCall

\* The bound on the products: it says nothing of the one at hand.
MayUse(p) == Cardinality({q \in Products \ {p} : instance[q] # "none"}) < MaxProducts

-----------------------------------------------------------------------------
(* The App and the instances. *)

\* The flag is set before the App is created, and never taken back.
fdb_app_init(url, created) ==
  /\ app = "none" /\ ~exited
  /\ g_has_database_url' = (g_has_database_url \/ url)
  /\ app' = IF ~created THEN "none" ELSE IF url THEN "url" ELSE "no url"
  /\ urlLost' = (urlLost \/ (url /\ ~created))
  /\ UNCHANGED <<instance, online, user, exited, call>>

\* What GetInstance gives: a good instance, a pointer with a failed init result
\* ("failed"), or none.  `kept` is what the library goes on with; once there is
\* an instance the function returns 0 and asks for no other.
GetInstance(p, kept) ==
  /\ app # "none" /\ instance[p] = "none" /\ ~exited /\ call.stage = "idle"
  /\ MayUse(p)
  /\ instance' = [instance EXCEPT ![p] = kept]
  /\ UNCHANGED <<state, online, user, exited, call>>

\* Firestore and Auth report a failed init and keep the pointer.
Kept(got)  == IF got = "failed" THEN "bad" ELSE got
Reset(got) == IF got = "failed" THEN "none" ELSE got

fdb_fs_init(got)        == GetInstance("firestore", Kept(got))
fdb_auth_init(got)      == GetInstance("auth", Kept(got))
fdb_storage_init(got)   == GetInstance("storage", Reset(got))
fdb_functions_init(got) == GetInstance("functions", Reset(got))
\* GetInstance of App Check has no init result.
fdb_ac_init(got)        == got # "failed" /\ GetInstance("app_check", got)

\* Mutated form: an instance for every app.
EnsureDatabaseAnyway ==
  IF instance["database"] # "none" THEN {instance["database"]}
  ELSE IF app = "none" THEN {"none"}
  ELSE {IF app = "url" THEN "good" ELSE "mute", "none"}

\* "Refused here rather than a few frames deeper": without a url the SDK gives
\* an instance "that accepts calls and never completes them".
EnsureDatabase ==
  IF instance["database"] # "none" THEN {instance["database"]}
  ELSE IF app = "none" \/ ~g_has_database_url THEN {"none"}
  ELSE {IF app = "url" THEN "good" ELSE "mute", "none"}

\* The instance a function finds, or makes.
Obtain(e) ==
  CASE e.product = "database" -> EnsureDatabase
    [] e.mode = "creates" /\ app # "none" /\ instance[e.product] = "none" ->
         {"good", "none"}
    [] OTHER -> {instance[e.product]}

-----------------------------------------------------------------------------
(* The start of a call, on the isolate. *)

\* The guards of a function in their order, each with the code it returns.
Guards(e) ==
  (IF e.mode = "creates" THEN << <<"app", -1>>, <<"instance", -2>> >>
                         ELSE << <<"product", -1>> >>) \o e.refuses

Causes(e) == {e.refuses[i][1] : i \in 1..Len(e.refuses)}

\* What is wrong with a call: its arguments, and what it finds.
Wrong(e, faults, found) ==
  faults \cup (IF found = "none" THEN {"product", "instance"} ELSE {})
         \cup (IF app = "none" THEN {"app"} ELSE {})
         \cup (IF user THEN {} ELSE {"user"})

\* Mutated form: the Dart caller does not close its port on a refusal.
RefuseAndListen(c, e, guard) ==
  [c EXCEPT !.stage = "told", !.cause = guard[1],
            !.told = Refused(e.says[guard[2]]), !.port = "open"]

\* The Dart caller closes the port and says what the code stands for; signOut
\* and currentUid make nothing of it.
Refuse(c, e, guard) ==
  [c EXCEPT !.stage = "told", !.cause = guard[1], !.port = "closed",
            !.told = IF e.says[guard[2]] = "nothing"
                     THEN Value(IF e.handler = "CurrentUid" THEN "absent" ELSE "done")
                     ELSE Refused(e.says[guard[2]])]

\* What a synchronous call may answer: currentUid goes by who is signed in.
ResultsNow(e) ==
  IF e.op = "current_user" THEN {IF user THEN "uid" ELSE "absent"} ELSE e.results

\* Whether malloc finds room for the buffer of an answer.
Enough == IF MemoryRunsOut THEN BOOLEAN ELSE {TRUE}

\* Posted before the function returns, to a port that is open.
PostNow(c, e, enough) ==
  {[c EXCEPT !.stage = IF enough THEN "posted" ELSE "lost", !.sdk = Done(r),
             !.port = "open", !.message = e.answer[Done(r)],
             !.posted = IF enough THEN "vm" ELSE "none"] : r \in e.results}

\* The SDK is given the work; or it has answered from memory.
Accept(c, e) ==
  CASE e.mode \in {"port", "creates"} ->
         {[c EXCEPT !.stage = "working", !.port = "open",
                    !.held = IF e.buffer = "none" THEN "none" ELSE "native"]}
    [] e.mode = "returns" ->
         {[c EXCEPT !.stage = "told", !.sdk = Done(r),
                    !.told = Read(e.handler, e.answer[Done(r)])] : r \in ResultsNow(e)}
    [] e.mode = "posts" ->
         UNION {PostNow(c, e, enough) : enough \in Enough}

\* SignOut, GoOffline and GoOnline take effect at once.
TakesEffect(op) ==
  /\ user' = (user /\ op # "SignOut")
  /\ online' = (op = "GoOnline" \/ (online /\ op # "GoOffline"))

Start(n, faults, found) ==
  LET e == Api[n]
      wrong == Wrong(e, faults, found)
      failing == {k \in 1..Len(Guards(e)) : Guards(e)[k][1] \in wrong}
      c == [IdleCall EXCEPT !.fn = n, !.faults = wrong]
  IN
  /\ call.stage = "idle" /\ ~exited /\ MayUse(e.product)
  /\ found \in Obtain(e)
  /\ instance' = [instance EXCEPT ![e.product] = found]
  /\ IF failing # {}
     THEN /\ \E k \in failing : /\ \A j \in failing : k <= j
                               /\ call' = Refuse(c, e, Guards(e)[k])
          /\ UNCHANGED <<online, user>>
     ELSE /\ call' \in Accept(c, e)
          /\ TakesEffect(IF e.mode = "returns" THEN e.op ELSE "none")
  /\ UNCHANGED <<state, exited>>

-----------------------------------------------------------------------------
(* The completion, on the SDK's thread. *)

Freed(owner) == IF owner = "native" THEN "freed" ELSE "twice"

\* Dart_PostCObject_DL: the VM owns what it takes, and takes nothing for a port
\* that is closed ("ownership of external typed data remains with the caller").
PostedTo == IF exited THEN "leaked" ELSE "vm"

\* Mutated form: a download that fails keeps its buffer.
HeldAfterSuccess(e, f) ==
  CASE e.buffer = "copy" -> Freed(call.held)
    [] e.buffer = "posted" /\ f.error = 0 -> PostedTo
    [] OTHER -> call.held

\* The copy of an upload is freed by its completion; the buffer of a download
\* is posted, or freed if it failed.
HeldAfter(e, f) ==
  CASE e.buffer = "copy" -> Freed(call.held)
    [] e.buffer = "posted" -> IF f.error = 0 THEN PostedTo ELSE Freed(call.held)
    [] OTHER -> call.held

\* Every other buffer is allocated to be posted; with no memory for it nothing
\* is posted at all.
Complete(f, enough) ==
  LET m == Entry.answer[f]
      fresh == m.shape = "buffer" /\ Entry.buffer # "posted"
  IN
  call' = [call EXCEPT
    !.sdk = f, !.message = m, !.held = HeldAfter(Entry, f),
    !.posted = IF fresh /\ enough THEN PostedTo ELSE "none",
    !.stage = IF exited THEN "gone" ELSE IF fresh /\ ~enough THEN "lost"
              ELSE "posted"]

\* An instance that is not good completes nothing, nor does the database while
\* it is offline.
SdkCompletes(f) ==
  /\ call.stage = "working"
  /\ instance[Entry.product] = "good"
  /\ Entry.product = "database" => online
  /\ f = Failed \/ f \in {Done(r) : r \in Entry.results}
  /\ \E enough \in Enough : Complete(f, enough)
  /\ user' = (user \/ (Entry.op = "SignIn" /\ f.error = 0))
  /\ UNCHANGED <<state, instance, online, exited>>

\* The other callers.  Purged writes fail, which is the point: "an app that
\* gave up on a write needs to hear that it will not land".
Meanwhile(op, p) ==
  /\ call.stage = "working" /\ ~exited /\ instance[p] = "good"
  /\ <<op, p>> \in {<<"SignOut", "auth">>, <<"GoOffline", "database">>,
                    <<"GoOnline", "database">>}
  /\ TakesEffect(op)
  /\ UNCHANGED <<state, instance, exited, call>>

Purge ==
  /\ call.stage = "working" /\ ~exited
  /\ Entry.product = "database" /\ instance["database"] = "good"
  /\ Complete(Failed, TRUE)
  /\ UNCHANGED <<state, instance, online, user, exited>>

-----------------------------------------------------------------------------
(* The message, on the isolate. *)

Deliver ==
  /\ call.stage = "posted" /\ ~exited
  /\ call' = [call EXCEPT !.stage = "told", !.port = "closed",
                          !.told = Read(Entry.handler, call.message)]
  /\ UNCHANGED <<state, instance, online, user, exited>>

\* The caller goes on, and the collector frees what the VM owns.
Collect ==
  /\ call.stage = "told" /\ ~exited
  /\ call' = IdleCall
  /\ UNCHANGED <<state, instance, online, user, exited>>

IsolateExits ==
  /\ IsolateMayExit /\ ~exited
  /\ exited' = TRUE
  /\ call' = IF call.stage = "working" THEN [call EXCEPT !.port = "closed"]
             ELSE IdleCall
  /\ UNCHANGED <<state, instance, online, user>>

\* A hot restart finds the App and the instances of before.
IsolateStarts ==
  /\ exited /\ call.stage # "working"
  /\ exited' = FALSE /\ call' = IdleCall
  /\ UNCHANGED <<state, instance, online, user>>

-----------------------------------------------------------------------------
CallNext ==
  \/ \E n \in DOMAIN Api : \E faults \in SUBSET (Causes(Api[n]) \cup SdkAsserts(Api[n].op)),
        found \in {"none", "good", "bad", "mute"} :
       "user" \notin faults /\ Start(n, faults, found)
  \/ \E f \in Futures : SdkCompletes(f)
  \/ Purge
  \/ Deliver
  \/ Collect

Next ==
  \/ \E url, created \in BOOLEAN : fdb_app_init(url, created)
  \/ \E got \in {"good", "failed", "none"} :
       \/ fdb_fs_init(got) \/ fdb_auth_init(got) \/ fdb_storage_init(got)
       \/ fdb_functions_init(got) \/ fdb_ac_init(got)
  \/ \E op \in {"SignOut", "GoOffline", "GoOnline"}, p \in {"auth", "database"} :
       Meanwhile(op, p)
  \/ CallNext
  \/ IsolateExits
  \/ IsolateStarts

\* The SDK completes what it can, and the isolate runs its event loop.
Fairness == WF_vars(\E f \in Futures : SdkCompletes(f)) /\ WF_vars(Deliver)

Spec == Init /\ [][Next]_vars
FairSpec == Spec /\ Fairness

-----------------------------------------------------------------------------
TypeOK ==
  /\ app \in {"none", "url", "no url"}
  /\ {g_has_database_url, online, user, exited, urlLost} \subseteq BOOLEAN
  /\ instance \in [Products -> {"none", "good", "bad", "mute"}]
  /\ call.fn \in DOMAIN Api \cup {"none"}
  /\ call.stage \in {"idle", "working", "posted", "told", "gone", "lost"}
  /\ call.port \in {"none", "open", "closed"}
  /\ {call.held, call.posted} \subseteq {"none", "native", "vm", "freed", "twice", "leaked"}

Answered == call.stage = "told" /\ call.cause = "none"

\* The functions that do not pass the SDK's code on.
CodeIsLost == {"fdb_fs_get", "fdb_fs_query", "fdb_fs_count", "fdb_fs_sum",
               "fdb_fs_average", "fdb_functions_call"}

\* What a caller is told says how the SDK ended.
Tells(n, f, told) ==
  IF f.error # 0
  THEN told.kind = "error" /\ (told.code = f.error \/ n \in CodeIsLost)
  ELSE IF f.result = "big" THEN told.kind = "error"
                           ELSE told = Value(f.result)

\* The caller is told what the SDK ended with: its error and the code of it, the
\* result, "nothing new" and "does not exist" as the values they are, and a
\* result that could not be encoded as a failure, never as one of those.  The
\* C answer and the Dart handler agree about this without checking each other.
FutureTellsTheTruth == Answered => Tells(call.fn, call.sdk, call.told)

\* The same without the exceptions: an exception carries "the SDK's own code".
ErrorKeepsItsCode ==
  Answered /\ call.sdk.error # 0 => call.told.code = call.sdk.error

\* A field path is part of the spec that "cannot be counted as expressed".
Names(text, cause) ==
  text \in {"code", cause} \/ (text = "spec" /\ cause = "field")

NotThere == {"app", "product", "instance"}

\* What the caller of a refused function is told, and the guard that failed.
Explains(n, text, cause) ==
  \/ Names(text, cause)
  \/ {text, cause} \subseteq NotThere
  \/ n = "fdb_rc_set_settings" /\ cause = "negative"

\* A refused call has started nothing, holds no memory and listens on no port,
\* and where the Dart caller names a cause it is the guard that failed (which
\* of the App and the instance is missing is not told apart).  A call that is
\* not refused gives the SDK nothing that it does not survive.
RefusalIsTrue ==
  /\ call.cause # "none" =>
       /\ call.port # "open" /\ call.held = "none" /\ call.message = NoMessage
       /\ call.told.kind = "refused" => Explains(call.fn, call.told.what, call.cause)
  /\ call.stage # "idle" /\ call.cause = "none" =>
       call.faults \cap SdkAsserts(Entry.op) = {}

\* What the SDK may have ended a call with.
Endings(e) == {Done(r) : r \in e.results}
              \cup (IF e.mode \in {"port", "creates"} THEN {Failed} ELSE {})

\* A call by its stage: what it holds, and whose message its caller is told of.
StageInv ==
  /\ DOMAIN call = DOMAIN IdleCall
  /\ call.stage = "idle" => call = IdleCall
  /\ call.stage # "idle" => call.fn \in DOMAIN Api
  /\ call.stage = "working" => Entry.mode \in {"port", "creates"}
  /\ call.stage \notin {"idle", "told"} => call.cause = "none"
  /\ call.stage = "posted" =>
       /\ call.sdk \in Endings(Entry) /\ call.message = Entry.answer[call.sdk]
  /\ call.stage = "told" /\ call.cause = "none" =>
       /\ call.sdk \in Endings(Entry)
       /\ call.told = Read(Entry.handler, Entry.answer[call.sdk])

\* A refused call names a guard of its function.
RefusedInv ==
  call.cause # "none" =>
    /\ call.stage = "told" /\ call.port = "closed" /\ call.message = NoMessage
    /\ call.held = "none" /\ call.posted = "none"
    /\ \E k \in 1..Len(Guards(Entry)) :
         /\ call.cause = Guards(Entry)[k][1]
         /\ LET text == Entry.says[Guards(Entry)[k][2]] IN
            IF text = "nothing" THEN call.told.kind = "value"
                                ELSE call.told = Refused(text)

\* A call that is not has none of the faults a guard of its function is for.
GuardedInv ==
  call.stage # "idle" /\ call.cause = "none" => call.faults \cap Causes(Entry) = {}

\* Memory is in native hands exactly while the SDK is at work with it.
MemoryInv ==
  /\ {call.held, call.posted} \subseteq {"none", "native", "vm", "freed", "leaked"}
  /\ call.posted # "native"
  /\ call.stage = "working" =>
       /\ call.posted = "none"
       /\ call.held = IF Entry.buffer = "none" THEN "none" ELSE "native"
  /\ call.stage # "working" => call.held # "native"
  /\ "leaked" \in {call.held, call.posted} => exited

IInv == TypeOK /\ StageInv /\ RefusedInv /\ GuardedInv /\ MemoryInv

\* The same without the exceptions: the cause that is named is the one.
RefusalNamesItsCause ==
  call.told.kind = "refused" =>
    \/ Names(call.told.what, call.cause)
    \/ call.told.what = "app" /\ app = "none"

\* Memory that crosses is freed once: the copy of an upload by its completion,
\* a posted buffer by the collector, a failed download's by the failure.  It is
\* lost only with the isolate that it was for.
EveryBufferFreedOnce ==
  /\ "twice" \notin {call.held, call.posted}
  /\ call.stage \in {"posted", "told", "gone", "lost"} => call.held # "native"
  /\ "leaked" \in {call.held, call.posted} => exited

\* The same, whatever becomes of the isolate.
NothingLeaks == "leaked" \notin {call.held, call.posted}

BadInstance == "bad" \in {instance[p] : p \in {"firestore", "auth"}}

\* A call that was accepted is answered, while there is an isolate to answer and
\* a connection to answer from.  Nothing is promised of an instance that came
\* with a failed init result, nor of an App whose predecessor had a url and
\* could not be created.
EveryCallAnswered ==
  call.stage \in {"working", "posted", "lost"} ~>
    call.stage = "told" \/ exited \/ ~online \/ urlLost \/ BadInstance

\* The same for every App.
EveryAppAnswers ==
  call.stage \in {"working", "posted"} ~>
    call.stage = "told" \/ exited \/ ~online \/ BadInstance
=============================================================================
