------------------------------- MODULE Agent --------------------------------
(***************************************************************************)
(* The life of the agent: starting and stopping it, its task, and the      *)
(* queue through which everything else asks the task for work.             *)
(*                                                                         *)
(* An application starts and stops the agent (cloud_agent_ota_start(),     *)
(* cloud_agent_ota_stop()), registers diagnostics handlers, adds           *)
(* diagnostics data and passes on a request to associate a user; the timer *)
(* service queues a call of each handler at its period; the task connects, *)
(* registers, then serves the queue and waits for messages until it is     *)
(* told to stop.  All of them share one handle: the flag cloud_stop, the   *)
(* queue and what the platform allocated.  A start creates a task whether  *)
(* or not an earlier one has ended.  A behaviour is the life of the device *)
(* from a boot to a panic, if there is one.                                *)
(***************************************************************************)
EXTENDS Naturals, Sequences

CONSTANTS
  Handlers,    \* diagnostics handlers of the application
  None,        \* work without an entry
  QueueSize,   \* ESP_CLOUD_TASK_QUEUE_SIZE
  MaxStarts,   \* bound: calls of cloud_agent_ota_start()
  MaxStops,    \* bound: calls of cloud_agent_ota_stop()
  MaxTicks,    \* bound: ticks of the diagnostics timers
  MaxReports,  \* bound: data added, requests to associate a user
  MaxOutages,  \* bound: losses of the network
  MaxFaults    \* bound: calls that fail though the network is there

Tasks == 1 .. MaxStarts

ASSUME SizeAssumption == QueueSize \in Nat \ {0}
ASSUME NoneAssumption == None \notin Handlers
ASSUME BoundsAssumption ==
  /\ MaxStarts \in Nat /\ MaxStops \in Nat /\ MaxTicks \in Nat
  /\ MaxReports \in Nat /\ MaxOutages \in Nat /\ MaxFaults \in Nat

VARIABLES
  init_done,       \* of cloud_agent.c
  handle,          \* g_cloud_handle is not NULL
  panicked,        \* the device used a table of parameters that is not there
  cloud_stop,
  pc, work,        \* the tasks: where each is, the work it runs
  work_queue,
  timer,           \* xTimerStart() of a handler's entry
  subscriptions,   \* topics subscribed to
  dynamic_params,  \* the platform's table is allocated
  unregistered,    \* history: the last registration of the parameters failed
  shadowUpdateInProgress,  \* for good: of an update that failed, which none answers
  online,          \* the network
  asked,           \* history: what the application asked for last
  untaken,         \* history: a stop that no task has ended for
  doubtful,        \* history: the last start met a task, a stop or a fault
  linked,          \* history: the agent has connected
  told,            \* history: CLOUD_AGENT_INIT_DONE was sent
  accepted,        \* history: handlers whose registration returned ESP_OK
  refused,         \* history: handlers whose last call found the queue full
  called,          \* history: handlers that have been called
  assoc,           \* history: what became of the request to associate a user
  starts, stops, ticks, reports, outages, faults

agent   == <<init_done, handle, panicked>>
flag    == <<cloud_stop, untaken>>
task    == <<pc, work>>
table   == <<dynamic_params, unregistered>>
cloud   == <<subscriptions, table, shadowUpdateInProgress>>
intent  == <<asked, doubtful>>
outcome == <<linked, told, called>>
offers  == <<accepted, refused, assoc>>
calls   == <<starts, stops, ticks, reports>>
counts  == <<calls, faults>>
network == <<online, outages>>
vars == <<agent, flag, task, work_queue, timer, cloud, intent, outcome, offers, counts, network>>

Work == [fn : {"initdone", "otacheck", "data", "assoc"}, entry : {None}]
        \cup [fn : {"first", "call"}, entry : Handlers]
Do(fn) == [fn |-> fn, entry |-> None]
For(fn, h) == [fn |-> fn, entry |-> h]
Idle == Do("data")

\* esp_cloud_queue_work(): a full queue refuses at once.
\* (Unlimited: a mutant.)
Room == Len(work_queue) < QueueSize
Unlimited(q, w) == Append(q, w)
Queued(q, w) == IF Len(q) < QueueSize THEN Append(q, w) ELSE q

Living == {"connect", "register", "report", "reporting", "alexa", "loop", "receive", "run", "wait", "scan",
           "disconnect", "clear"}
Alive == \E t \in Tasks : pc[t] \in Living

(***************************************************************************)
(* The application.                                                        *)
(***************************************************************************)
\* What the first start makes of the handle and the queue.  The agent counts as
\* initialised whatever esp_cloud_init() returned.  (Recreated: a mutant.)
FirstWork == Queued(Queued(<<>>, Do("initdone")), Do("otacheck"))
Recreated(h) ==
  init_done' = TRUE /\ handle' = h /\ work_queue' = IF h THEN FirstWork ELSE work_queue
Initialised(h) ==
  /\ init_done' = TRUE
  /\ handle' = h
  /\ work_queue' = IF h /\ ~init_done THEN FirstWork ELSE work_queue

cloud_agent_ota_start ==
  /\ starts < MaxStarts /\ starts' = starts + 1
  /\ Initialised(handle \/ ~init_done)
  /\ asked' = "start"
  /\ pc' = IF handle' THEN [pc EXCEPT ![starts'] = "connect"] ELSE pc
  /\ doubtful' = (Alive \/ untaken \/ ~handle')
  /\ UNCHANGED <<panicked, flag, work, timer, cloud, outcome, offers, stops, ticks, reports,
                 faults, network>>

\* A call fails; over the network, any call may fail while there is none.
Fault == faults < MaxFaults /\ faults' = faults + 1
Failing == (~online /\ UNCHANGED faults) \/ Fault

\* esp_cloud_init() or xTaskCreate() fails.
StartFails ==
  /\ starts < MaxStarts /\ starts' = starts + 1
  /\ Fault
  /\ \/ Initialised(handle \/ ~init_done)
     \/ ~init_done /\ Initialised(FALSE)
  /\ asked' = "start" /\ doubtful' = TRUE
  /\ UNCHANGED <<panicked, flag, task, timer, cloud, outcome, offers, stops, ticks, reports, network>>

cloud_agent_ota_stop ==
  /\ stops < MaxStops /\ stops' = stops + 1
  /\ handle /\ cloud_stop' = TRUE /\ untaken' = TRUE
  /\ asked' = "stop"
  /\ UNCHANGED <<agent, task, work_queue, timer, cloud, doubtful, outcome, offers,
                 starts, ticks, reports, faults, network>>

\* The timer of a new entry is not started.  (Impatient: a mutant.)
Impatient == "running"
Created == "stopped"

\* The entry stays in the list when its first call is refused.
AddEntry(h) ==
  /\ work_queue' = Queued(work_queue, For("first", h))
  /\ accepted' = IF Room THEN accepted \cup {h} ELSE accepted

register_periodic_handler(h) ==
  /\ handle /\ timer[h] = "none"
  /\ timer' = [timer EXCEPT ![h] = Created]
  /\ AddEntry(h)
  /\ UNCHANGED <<agent, flag, task, cloud, intent, outcome, refused, assoc, counts, network>>

add_data ==
  /\ handle /\ reports < MaxReports /\ reports' = reports + 1
  /\ work_queue' = Queued(work_queue, Do("data"))
  /\ UNCHANGED <<agent, flag, task, timer, cloud, intent, outcome, offers,
                 starts, stops, ticks, faults, network>>

\* SUCCESS is answered whether or not the work was queued.
user_assoc_handler ==
  /\ handle /\ assoc = "none"
  /\ reports < MaxReports /\ reports' = reports + 1
  /\ work_queue' = Queued(work_queue, Do("assoc"))
  /\ assoc' = IF Room THEN "accepted" ELSE "refused"
  /\ UNCHANGED <<agent, flag, task, timer, cloud, intent, outcome, accepted, refused,
                 starts, stops, ticks, faults, network>>

(***************************************************************************)
(* The timer service: esp_cloud_diagnostics_common_cb().                   *)
(***************************************************************************)
diagnostics_common_cb(h) ==
  /\ timer[h] = "running"
  /\ ticks < MaxTicks /\ ticks' = ticks + 1
  /\ work_queue' = Queued(work_queue, For("call", h))
  /\ refused' = IF Room THEN refused \ {h} ELSE refused \cup {h}
  /\ UNCHANGED <<agent, flag, task, timer, cloud, intent, outcome, accepted, assoc,
                 starts, stops, reports, faults, network>>

(***************************************************************************)
(* The task: esp_cloud_task().                                             *)
(***************************************************************************)
Goto(t, label) == pc' = [pc EXCEPT ![t] = label]

\* The task tries to connect until it succeeds.  (GivesUp: a mutant.)
GivesUp == TRUE
Connected == online

Connect(t) ==
  /\ pc[t] = "connect" /\ Connected
  /\ Goto(t, "register")
  /\ linked' = (linked \/ online)
  /\ UNCHANGED <<agent, flag, work, work_queue, timer, cloud, intent, told, called, offers, counts, network>>

\* aws_iot_shadow_init() fails: the task deletes itself.
ConnectAborts(t) ==
  /\ pc[t] = "connect"
  /\ Fault
  /\ Goto(t, "ended") /\ doubtful' = TRUE
  /\ UNCHANGED <<agent, flag, work, work_queue, timer, cloud, asked, outcome, offers,
                 calls, network>>

\* The table is allocated anew by each task.  (FirstOnly: a mutant.)
FirstOnly == ~told \/ dynamic_params
Allocated == TRUE

RegisterParams(t) ==
  /\ pc[t] = "register" /\ Goto(t, "report")
  /\ dynamic_params' = Allocated /\ unregistered' = FALSE
  /\ UNCHANGED <<agent, flag, work, work_queue, timer, subscriptions, shadowUpdateInProgress,
                 intent, outcome, offers, counts, network>>

\* aws_iot_shadow_register_delta() or an allocation fails: the new table is given up, and
\* the task goes on all the same.
RegisterFails(t) ==
  /\ pc[t] = "register" /\ Goto(t, "report")
  /\ Failing
  /\ unregistered' = TRUE
  /\ UNCHANGED <<agent, flag, work, work_queue, timer, subscriptions, dynamic_params,
                 shadowUpdateInProgress, intent, outcome, offers, calls, network>>

\* shadow_update() says that an update is in progress whatever the client returned.  One
\* that was sent is answered or times out while its caller goes on yielding; one that
\* failed at once is neither.
ShadowUpdate ==
  \/ shadowUpdateInProgress' = FALSE /\ UNCHANGED faults
  \/ Failing /\ shadowUpdateInProgress' = TRUE

\* esp_cloud_platform_report_state(): the first update, and the loop after it
Report(t) ==
  /\ pc[t] = "report" /\ dynamic_params
  /\ Goto(t, "reporting")
  /\ ShadowUpdate
  /\ UNCHANGED <<agent, flag, work, work_queue, timer, subscriptions, table, intent, outcome,
                 offers, calls, network>>

Reported(t) ==
  /\ pc[t] = "reporting" /\ ~shadowUpdateInProgress
  /\ Goto(t, "alexa")
  /\ UNCHANGED <<agent, flag, work, work_queue, timer, cloud, intent, outcome, offers, counts, network>>

\* A topic is unsubscribed from, which frees its slot in any case, and subscribed to.
\* There are more slots than topics.
Resubscribed(topic) == IF online THEN subscriptions \cup {topic} ELSE subscriptions \ {topic}

\* esp_cloud_alexa_sign_in_topic(), on a device that has the topic stored
SubscribeAlexa(t) ==
  /\ pc[t] = "alexa" /\ Goto(t, "loop")
  /\ subscriptions' = Resubscribed("alexa")
  /\ UNCHANGED <<agent, flag, work, work_queue, timer, table, shadowUpdateInProgress,
                 intent, outcome, offers, counts, network>>

\* (Unstoppable: a mutant.)
Unstoppable == FALSE
Stopping == cloud_stop

LoopTop(t) ==
  /\ pc[t] = "loop"
  /\ Goto(t, IF Stopping THEN "disconnect" ELSE "receive")
  /\ UNCHANGED <<agent, flag, work, work_queue, timer, cloud, intent, outcome, offers, counts, network>>

\* esp_cloud_handle_work_queue() takes work until there is none.
Receive(t) ==
  /\ pc[t] = "receive" /\ work_queue # <<>>
  /\ Goto(t, "run")
  /\ work' = [work EXCEPT ![t] = Head(work_queue)]
  /\ work_queue' = Tail(work_queue)
  /\ UNCHANGED <<agent, flag, timer, cloud, intent, outcome, offers, counts, network>>

Drained(t) ==
  /\ pc[t] = "receive" /\ work_queue = <<>>
  /\ Goto(t, "wait")
  /\ UNCHANGED <<agent, flag, work, work_queue, timer, cloud, intent, outcome, offers, counts, network>>

Runs(t, fn) ==
  /\ pc[t] = "run" /\ work[t].fn = fn
  /\ Goto(t, "receive") /\ work' = [work EXCEPT ![t] = Idle]

RunInitDone(t) ==
  /\ Runs(t, "initdone")
  /\ told' = TRUE
  /\ UNCHANGED <<agent, flag, work_queue, timer, cloud, intent, linked, called, offers, counts, network>>

\* esp_cloud_ota_check() subscribes to the offers; a failure is only logged.
RunOtaCheck(t) ==
  /\ Runs(t, "otacheck")
  /\ subscriptions' = Resubscribed("otaurl")
  /\ UNCHANGED <<agent, flag, work_queue, timer, table, shadowUpdateInProgress,
                 intent, outcome, offers, counts, network>>

\* esp_cloud_diagnostics_first_call(): a call now, and one at each period, unless the
\* timer's queue is full.
\* (TimerOnly: a mutant.)
TimerOnly(q, h) == q
FirstCall(q, h) == Queued(q, For("call", h))

RunFirst(t) ==
  /\ Runs(t, "first")
  /\ LET h == work[t].entry
     IN /\ work_queue' = FirstCall(work_queue, h)
        /\ refused' = IF Room THEN refused ELSE refused \cup {h}
        /\ \/ timer' = [timer EXCEPT ![h] = "running"] /\ UNCHANGED faults
           \/ Fault /\ UNCHANGED timer
  /\ UNCHANGED <<agent, flag, cloud, intent, outcome, accepted, assoc, calls, network>>

RunCall(t) ==
  /\ Runs(t, "call")
  /\ called' = called \cup {work[t].entry}
  /\ UNCHANGED <<agent, flag, work_queue, timer, cloud, intent, linked, told, offers, counts, network>>

RunData(t) ==
  /\ Runs(t, "data")
  /\ UNCHANGED <<agent, flag, work_queue, timer, cloud, intent, outcome, offers, counts, network>>

\* esp_cloud_report_user_assoc(): a publication that fails is only logged.
RunAssoc(t) ==
  /\ Runs(t, "assoc")
  /\ \/ online /\ assoc' = "published" /\ UNCHANGED faults
     \/ Failing /\ assoc' = "lost"
  /\ UNCHANGED <<agent, flag, work_queue, timer, cloud, intent, outcome, accepted, refused, calls, network>>

\* esp_cloud_platform_wait() goes on as long as the client tries to reconnect or an update
\* is in progress.
WaitOver == online /\ ~shadowUpdateInProgress

Wait(t) ==
  /\ pc[t] = "wait" /\ WaitOver
  /\ Goto(t, "scan")
  /\ UNCHANGED <<agent, flag, work, work_queue, timer, cloud, intent, outcome, offers, counts, network>>

\* Then it looks for parameters that changed, and makes an update if there are any.
Scan(t) ==
  /\ pc[t] = "scan" /\ Goto(t, "loop")
  /\ ShadowUpdate
  /\ UNCHANGED <<agent, flag, work, work_queue, timer, subscriptions, table, intent, outcome,
                 offers, calls, network>>

\* esp_cloud_platform_disconnect()
Disconnect(t) ==
  /\ pc[t] = "disconnect" /\ dynamic_params
  /\ Goto(t, "clear")
  /\ subscriptions' = {} /\ dynamic_params' = FALSE
  /\ UNCHANGED <<agent, flag, work, work_queue, timer, unregistered, shadowUpdateInProgress,
                 intent, outcome, offers, counts, network>>

\* The first report writes through the table and disconnecting reads it, whether it is there
\* or not; the scan uses it for a parameter that changed, if one did.
UsesTable(t) == pc[t] \in {"report", "scan", "disconnect"}

Panic(t) ==
  /\ UsesTable(t) /\ ~dynamic_params
  /\ panicked' = TRUE
  /\ UNCHANGED <<init_done, handle, flag, task, work_queue, timer, cloud, intent, outcome, offers, counts, network>>

\* (KeepStop: a mutant.)
KeepStop == cloud_stop
Cleared == FALSE

End(t) ==
  /\ pc[t] = "clear" /\ Goto(t, "ended")
  /\ cloud_stop' = Cleared /\ untaken' = FALSE
  /\ UNCHANGED <<agent, work, work_queue, timer, cloud, intent, outcome, offers, counts, network>>

(***************************************************************************)
(* The network (external).                                                 *)
(***************************************************************************)
Outage ==
  /\ online /\ outages < MaxOutages
  /\ online' = FALSE /\ outages' = outages + 1
  /\ UNCHANGED <<agent, flag, task, work_queue, timer, cloud, intent, outcome, offers, counts>>

Recover ==
  /\ ~online /\ online' = TRUE
  /\ UNCHANGED <<agent, flag, task, work_queue, timer, cloud, intent, outcome, offers, counts, outages>>

-----------------------------------------------------------------------------
Init ==
  /\ init_done = FALSE /\ handle = FALSE /\ panicked = FALSE
  /\ cloud_stop = FALSE /\ untaken = FALSE
  /\ pc = [t \in Tasks |-> "none"] /\ work = [t \in Tasks |-> Idle]
  /\ work_queue = <<>>
  /\ timer = [h \in Handlers |-> "none"]
  /\ subscriptions = {} /\ dynamic_params = FALSE /\ unregistered = FALSE
  /\ shadowUpdateInProgress = FALSE
  /\ online \in BOOLEAN
  /\ asked = "none" /\ doubtful = FALSE
  /\ linked = FALSE /\ told = FALSE
  /\ accepted = {} /\ refused = {} /\ called = {} /\ assoc = "none"
  /\ starts = 0 /\ stops = 0 /\ ticks = 0 /\ reports = 0 /\ outages = 0 /\ faults = 0

Application ==
  \/ cloud_agent_ota_start \/ StartFails \/ cloud_agent_ota_stop
  \/ \E h \in Handlers : register_periodic_handler(h)
  \/ add_data \/ user_assoc_handler

RunWork(t) ==
  \/ RunInitDone(t) \/ RunOtaCheck(t) \/ RunFirst(t)
  \/ RunCall(t) \/ RunData(t) \/ RunAssoc(t)

esp_cloud_task(t) ==
  \/ Connect(t) \/ RegisterParams(t) \/ RegisterFails(t) \/ Report(t) \/ Reported(t)
  \/ SubscribeAlexa(t) \/ LoopTop(t) \/ Receive(t) \/ Drained(t) \/ RunWork(t) \/ Wait(t)
  \/ Scan(t) \/ Disconnect(t) \/ End(t) \/ Panic(t)

Next ==
  /\ ~panicked
  /\ \/ Application
     \/ \E h \in Handlers : diagnostics_common_cb(h)
     \/ \E t \in Tasks : esp_cloud_task(t) \/ ConnectAborts(t)
     \/ Outage \/ Recover

Spec == Init /\ [][Next]_vars

\* FreeRTOS runs a task that is ready; the application, the timers' periods and the
\* network promise nothing.
FairSpec == Spec /\ \A t \in Tasks : WF_vars(~panicked /\ esp_cloud_task(t))

-----------------------------------------------------------------------------
\* The variables keep their types and the queue its size.
TypeOK ==
  /\ init_done \in BOOLEAN /\ handle \in BOOLEAN /\ panicked \in BOOLEAN
  /\ cloud_stop \in BOOLEAN /\ untaken \in BOOLEAN
  /\ pc \in [Tasks -> Living \cup {"none", "ended"}]
  /\ work \in [Tasks -> Work]
  /\ work_queue \in Seq(Work) /\ Len(work_queue) <= QueueSize
  /\ timer \in [Handlers -> {"none", "stopped", "running"}]
  /\ subscriptions \subseteq {"alexa", "otaurl"}
  /\ dynamic_params \in BOOLEAN /\ unregistered \in BOOLEAN /\ shadowUpdateInProgress \in BOOLEAN
  /\ online \in BOOLEAN
  /\ asked \in {"none", "start", "stop"} /\ doubtful \in BOOLEAN
  /\ linked \in BOOLEAN /\ told \in BOOLEAN
  /\ accepted \subseteq Handlers /\ refused \subseteq Handlers /\ called \subseteq Handlers
  /\ assoc \in {"none", "accepted", "refused", "published", "lost"}
  /\ starts \in 0 .. MaxStarts /\ stops \in 0 .. MaxStops /\ ticks \in 0 .. MaxTicks
  /\ reports \in 0 .. MaxReports /\ outages \in 0 .. MaxOutages /\ faults \in 0 .. MaxFaults

\* Until the agent has connected, however long that takes, the application is not told
\* that it is initialised, no diagnostics handler is called, and no timer has ticked,
\* each tick taking a place in the queue or finding it full (the first call starts the timer,
\* esp_cloud_diagnostics.c:55-56).
CallQueued == \E i \in 1 .. Len(work_queue) : work_queue[i].fn = "call"
NothingBeforeConnection == ~linked => ~told /\ called = {} /\ ticks = 0 /\ ~CallQueued

\* Unless the last start met a task that had not ended, a stop that no task had taken,
\* or a fault: an agent that was started and not stopped has a task, which no stop of an
\* earlier task can end (esp_cloud_task() resets cloud_stop when it ends).
StartedStays == asked = "start" /\ ~doubtful => Alive

\* The device never uses a table of parameters that is not there, over any restart, stop or
\* loss of the network; except that the registration of the task may itself have failed,
\* which esp_cloud_task() ignores (esp_cloud.c:797), or that two tasks lived at once.
ParamsAlive == panicked => doubtful \/ unregistered

\* With a lasting connection and no failed update, a stop ends the task, unless the
\* application starts the agent again meanwhile: also during a drain of the queue, or before
\* it has connected.  (After a failed update esp_cloud_platform_wait() never returns,
\* aws_cloud.c:532, nor does the first report, 507, and cloud_stop is not looked at again.)
Connection == online /\ ~shadowUpdateInProgress
StopEnds ==
  <>[]Connection =>
    [](asked = "stop" /\ ~doubtful => <>(~Alive \/ panicked \/ asked = "start"))

\* A handler whose registration was accepted is called once the agent runs undisturbed, by
\* a failed update too, unless its last call found the queue full (the next tick of its
\* timer is the retry).
Serving == Connection /\ ~panicked /\ asked = "start" /\ ~doubtful
HandlerCalled ==
  \A h \in Handlers :
    <>[]Serving => (h \in accepted ~> h \in called \cup refused)

\* The same of a request to associate a user that was queued: it is published, or the one
\* publication that esp_cloud_report_user_assoc() tries fails.
AssociationReported ==
  <>[]Serving => (assoc = "accepted" ~> assoc \in {"published", "lost"})

\* cloud_agent.h:41: `the device can check for an update again by calling this API':
\* a task that has drained the queue and waits is subscribed to the offers.
\* (Violated after a stop and a start: the check is queued by the first start only, and
\* disconnecting gives up the subscription.)
StartChecks == \A t \in Tasks : pc[t] = "wait" /\ ~doubtful => "otaurl" \in subscriptions
=============================================================================
