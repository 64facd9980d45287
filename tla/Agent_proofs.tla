---------------------------- MODULE Agent_proofs ----------------------------
(***************************************************************************)
(* Proofs about Agent, for any handlers, any size of the queue and any     *)
(* number of starts, stops, ticks, outages and faults.                     *)
(***************************************************************************)
EXTENDS Agent, TLAPS

-----------------------------------------------------------------------------
(* Types.                                                                  *)

\* Queueing work keeps the queue a sequence of work no longer than its size.
LEMMA QueuedType ==
  ASSUME NEW q \in Seq(Work), Len(q) <= QueueSize, NEW w \in Work
  PROVE  Queued(q, w) \in Seq(Work) /\ Len(Queued(q, w)) <= QueueSize
BY SizeAssumption DEF Queued

\* The kinds of work are work.
LEMMA WorkType ==
  /\ \A fn \in {"initdone", "otacheck", "data", "assoc"} : Do(fn) \in Work
  /\ \A fn \in {"first", "call"}, h \in Handlers : For(fn, h) \in Work
  /\ Idle \in Work
BY DEF Work, Do, For, Idle

\* Making the handle and the queue keeps their types.
LEMMA InitialisedType ==
  ASSUME TypeOK, NEW h \in BOOLEAN, Initialised(h)
  PROVE  /\ init_done' \in BOOLEAN /\ handle' \in BOOLEAN
         /\ work_queue' \in Seq(Work) /\ Len(work_queue') <= QueueSize
<1>1. <<>> \in Seq(Work) /\ Len(<<>>) <= QueueSize
  BY SizeAssumption
<1>2. LET q == Queued(<<>>, Do("initdone"))
      IN  q \in Seq(Work) /\ Len(q) <= QueueSize
  BY <1>1, WorkType, QueuedType
<1>3. LET q == Queued(Queued(<<>>, Do("initdone")), Do("otacheck"))
      IN  q \in Seq(Work) /\ Len(q) <= QueueSize
  BY <1>2, WorkType, QueuedType
<1> QED BY <1>3 DEF TypeOK, Initialised, FirstWork

LEMMA TypeNext == TypeOK /\ [Next]_vars => TypeOK'
<1> SUFFICES ASSUME TypeOK, [Next]_vars PROVE TypeOK'
  OBVIOUS
<1> USE BoundsAssumption, SizeAssumption DEF agent, flag, task, table, cloud, intent, outcome,
        offers, calls, counts, network
<1>1. CASE cloud_agent_ota_start
  <2>1. init_done' \in BOOLEAN /\ handle' \in BOOLEAN
        /\ work_queue' \in Seq(Work) /\ Len(work_queue') <= QueueSize
    BY <1>1, InitialisedType DEF cloud_agent_ota_start, TypeOK
  <2>2. starts' \in 0 .. MaxStarts /\ starts' \in Tasks
    BY <1>1 DEF cloud_agent_ota_start, TypeOK, Tasks
  <2>3. pc' \in [Tasks -> Living \cup {"none", "ended"}]
    BY <1>1, <2>1, <2>2 DEF cloud_agent_ota_start, TypeOK, Living
  <2>4. doubtful' \in BOOLEAN
    BY <1>1 DEF cloud_agent_ota_start
  <2> QED BY <1>1, <2>1, <2>2, <2>3, <2>4 DEF cloud_agent_ota_start, TypeOK
<1>2. CASE StartFails
  <2>1. init_done' \in BOOLEAN /\ handle' \in BOOLEAN
        /\ work_queue' \in Seq(Work) /\ Len(work_queue') <= QueueSize
    BY <1>2, InitialisedType DEF StartFails, TypeOK
  <2> QED BY <1>2, <2>1 DEF StartFails, Fault, TypeOK
<1>3. CASE cloud_agent_ota_stop
  BY <1>3 DEF cloud_agent_ota_stop, TypeOK
<1>4. ASSUME NEW h \in Handlers, register_periodic_handler(h) PROVE TypeOK'
  <2>1. work_queue' \in Seq(Work) /\ Len(work_queue') <= QueueSize
    BY <1>4, QueuedType, WorkType DEF register_periodic_handler, AddEntry, TypeOK
  <2> QED BY <1>4, <2>1 DEF register_periodic_handler, AddEntry, TypeOK, Created
<1>5. CASE add_data
  <2>1. work_queue' \in Seq(Work) /\ Len(work_queue') <= QueueSize
    BY <1>5, QueuedType, WorkType DEF add_data, TypeOK
  <2> QED BY <1>5, <2>1 DEF add_data, TypeOK
<1>6. CASE user_assoc_handler
  <2>1. work_queue' \in Seq(Work) /\ Len(work_queue') <= QueueSize
    BY <1>6, QueuedType, WorkType DEF user_assoc_handler, TypeOK
  <2> QED BY <1>6, <2>1 DEF user_assoc_handler, TypeOK
<1>7. ASSUME NEW h \in Handlers, diagnostics_common_cb(h) PROVE TypeOK'
  <2>1. work_queue' \in Seq(Work) /\ Len(work_queue') <= QueueSize
    BY <1>7, QueuedType, WorkType DEF diagnostics_common_cb, TypeOK
  <2> QED BY <1>7, <2>1 DEF diagnostics_common_cb, TypeOK
<1>8. ASSUME NEW t \in Tasks, esp_cloud_task(t) PROVE TypeOK'
  <2> USE DEF Goto, Living
  <2>1. CASE Connect(t) BY <2>1 DEF Connect, TypeOK
  <2>0. ASSUME Failing PROVE faults' \in 0 .. MaxFaults
    BY <2>0 DEF Failing, Fault, TypeOK
  <2>2. CASE RegisterParams(t) \/ RegisterFails(t)
    <3>1. pc' \in [Tasks -> Living \cup {"none", "ended"}]
      BY <2>2 DEF RegisterParams, RegisterFails, TypeOK
    <3>2. dynamic_params' \in BOOLEAN /\ unregistered' \in BOOLEAN /\ faults' \in 0 .. MaxFaults
      BY <2>0, <2>2 DEF RegisterParams, RegisterFails, TypeOK, Allocated
    <3>3. UNCHANGED <<init_done, handle, panicked, cloud_stop, untaken, work, work_queue,
                      timer, subscriptions, shadowUpdateInProgress, online, asked,
                      doubtful, linked, told>>
      BY <2>2 DEF RegisterParams, RegisterFails
    <3>4. UNCHANGED <<accepted, refused, called, assoc, starts, stops, ticks, reports, outages>>
      BY <2>2 DEF RegisterParams, RegisterFails
    <3> QED BY <3>1, <3>2, <3>3, <3>4 DEF TypeOK
  <2>16. CASE Report(t) \/ Scan(t)
    <3>1. faults' \in 0 .. MaxFaults /\ shadowUpdateInProgress' \in BOOLEAN
      BY <2>0, <2>16 DEF Report, Scan, ShadowUpdate, TypeOK
    <3>2. pc' \in [Tasks -> Living \cup {"none", "ended"}]
      BY <2>16 DEF Report, Scan, TypeOK
    <3>3. UNCHANGED <<init_done, handle, panicked, cloud_stop, untaken, work, work_queue,
                      timer, subscriptions, dynamic_params, unregistered, online, asked,
                      doubtful, linked, told>>
      BY <2>16 DEF Report, Scan
    <3>4. UNCHANGED <<accepted, refused, called, assoc, starts, stops, ticks, reports, outages>>
      BY <2>16 DEF Report, Scan
    <3> QED BY <3>1, <3>2, <3>3, <3>4 DEF TypeOK
  <2>17. CASE Reported(t) BY <2>17 DEF Reported, TypeOK
  <2>18. CASE Panic(t) BY <2>18 DEF Panic, TypeOK
  <2>3. CASE SubscribeAlexa(t) BY <2>3 DEF SubscribeAlexa, Resubscribed, TypeOK
  <2>4. CASE LoopTop(t) BY <2>4 DEF LoopTop, TypeOK
  <2>5. CASE Receive(t)
    <3>1. Head(work_queue) \in Work /\ Tail(work_queue) \in Seq(Work)
          /\ Len(Tail(work_queue)) <= QueueSize
      BY <2>5 DEF Receive, TypeOK
    <3> QED BY <2>5, <3>1 DEF Receive, TypeOK
  <2>6. CASE Drained(t) BY <2>6 DEF Drained, TypeOK
  <2>7. CASE RunInitDone(t) BY <2>7, WorkType DEF RunInitDone, Runs, TypeOK
  <2>8. CASE RunOtaCheck(t) BY <2>8, WorkType DEF RunOtaCheck, Resubscribed, Runs, TypeOK
  <2>9. CASE RunFirst(t)
    <3>1. work[t].entry \in Handlers
      BY <2>9 DEF RunFirst, Runs, TypeOK, Work
    <3>2. work_queue' \in Seq(Work) /\ Len(work_queue') <= QueueSize
      BY <2>9, <3>1, QueuedType, WorkType DEF RunFirst, FirstCall, TypeOK
    <3>3. faults' \in 0 .. MaxFaults
      BY <2>9 DEF RunFirst, Fault, TypeOK
    <3>4. timer' \in [Handlers -> {"none", "stopped", "running"}] /\ refused' \subseteq Handlers
      BY <2>9, <3>1 DEF RunFirst, TypeOK
    <3> QED BY <2>9, <3>2, <3>3, <3>4, WorkType DEF RunFirst, Runs, TypeOK
  <2>10. CASE RunCall(t)
    <3>1. work[t].entry \in Handlers
      BY <2>10 DEF RunCall, Runs, TypeOK, Work
    <3> QED BY <2>10, <3>1, WorkType DEF RunCall, Runs, TypeOK
  <2>11. CASE RunData(t) BY <2>11, WorkType DEF RunData, Runs, TypeOK
  <2>12. CASE RunAssoc(t)
    <3>1. faults' \in 0 .. MaxFaults
      BY <2>0, <2>12 DEF RunAssoc, TypeOK
    <3> QED BY <2>12, <3>1, WorkType DEF RunAssoc, Runs, TypeOK
  <2>13. CASE Wait(t) BY <2>13 DEF Wait, TypeOK
  <2>14. CASE Disconnect(t)
    <3>1. pc' \in [Tasks -> Living \cup {"none", "ended"}]
      BY <2>14 DEF Disconnect, TypeOK
    <3>2. subscriptions' \subseteq {"alexa", "otaurl"} /\ dynamic_params' \in BOOLEAN
      BY <2>14 DEF Disconnect
    <3> QED BY <2>14, <3>1, <3>2 DEF Disconnect, TypeOK
  <2>15. CASE End(t)
    <3>1. pc' \in [Tasks -> Living \cup {"none", "ended"}]
      BY <2>15 DEF End, TypeOK
    <3>2. cloud_stop' \in BOOLEAN /\ untaken' \in BOOLEAN
      BY <2>15 DEF End, Cleared
    <3>3. UNCHANGED <<init_done, handle, panicked, work, work_queue, timer, subscriptions,
                      dynamic_params, unregistered, shadowUpdateInProgress, online, asked,
                      doubtful, linked, told>>
      BY <2>15 DEF End
    <3>4. UNCHANGED <<accepted, refused, called, assoc, starts, stops, ticks, reports,
                      outages, faults>>
      BY <2>15 DEF End
    <3> QED BY <3>1, <3>2, <3>3, <3>4 DEF TypeOK
  <2> QED BY <1>8, <2>1, <2>2, <2>3, <2>4, <2>5, <2>6, <2>7, <2>8, <2>9, <2>10, <2>11,
             <2>12, <2>13, <2>14, <2>15, <2>16, <2>17, <2>18 DEF esp_cloud_task, RunWork
<1>9. ASSUME NEW t \in Tasks, ConnectAborts(t) PROVE TypeOK'
  BY <1>9 DEF ConnectAborts, Fault, Goto, Living, TypeOK
<1>10. CASE Outage
  <2>1. outages < MaxOutages /\ outages' = outages + 1
    BY <1>10 DEF Outage
  <2>2. outages \in 0 .. MaxOutages
    BY DEF TypeOK
  <2>3. outages' \in 0 .. MaxOutages
    BY <2>1, <2>2
  <2>4. online' \in BOOLEAN
    BY <1>10 DEF Outage
  <2> QED BY <1>10, <2>3, <2>4 DEF Outage, TypeOK
<1>11. CASE Recover BY <1>11 DEF Recover, TypeOK
<1>12. CASE UNCHANGED vars BY <1>12 DEF vars, TypeOK
<1> QED BY <1>1, <1>2, <1>3, <1>4, <1>5, <1>6, <1>7, <1>8, <1>9, <1>10, <1>11, <1>12
        DEF Next, Application

LEMMA TypeInit == Init => TypeOK
<1> SUFFICES ASSUME Init PROVE TypeOK
  OBVIOUS
<1>1. work_queue \in Seq(Work) /\ Len(work_queue) <= QueueSize
  BY SizeAssumption DEF Init
<1>2. work \in [Tasks -> Work] /\ pc \in [Tasks -> Living \cup {"none", "ended"}]
  BY WorkType DEF Init
<1>3. /\ starts \in 0 .. MaxStarts /\ stops \in 0 .. MaxStops /\ ticks \in 0 .. MaxTicks
      /\ reports \in 0 .. MaxReports /\ outages \in 0 .. MaxOutages
      /\ faults \in 0 .. MaxFaults
  BY BoundsAssumption DEF Init
<1> QED BY <1>1, <1>2, <1>3 DEF Init, TypeOK

\* The state keeps its types and the queue its size.
THEOREM TypeCorrect == Spec => []TypeOK
BY TypeInit, TypeNext, PTL DEF Spec

-----------------------------------------------------------------------------
(* One task.                                                               *)

Leaving == {"disconnect", "clear"}

\* Where a task relies on its registration
UsingParams == {"report", "reporting", "alexa", "loop", "receive", "run", "wait", "scan",
                "disconnect"}

\* The flag is what the stops made it; tasks are created in order; the device panicked for
\* no other reason than a start that was doubtful or a registration that failed; and unless
\* the last start was doubtful, no two tasks live, an agent that was started and not stopped
\* has one that is not on its way out, and a task whose registration did not fail finds the
\* table of parameters.
SoleInv ==
  /\ cloud_stop <=> untaken
  /\ \A t \in Tasks : t > starts => pc[t] = "none"
  /\ ParamsAlive
  /\ ~doubtful =>
       /\ \A t, u \in Tasks : pc[t] \in Living /\ pc[u] \in Living => t = u
       /\ asked = "start" =>
            ~cloud_stop /\ \E t \in Tasks : pc[t] \in Living \ Leaving
       /\ \A t \in Tasks : pc[t] \in UsingParams => dynamic_params \/ unregistered

\* What a step of a task does to the shared state, unless it panics: it leaves its loop only
\* for a stop, clears the flag only at its end, and comes to rely on the table only when it
\* has registered it, or failed to.
LEMMA TaskStep ==
  ASSUME TypeOK, NEW t \in Tasks, esp_cloud_task(t), ~Panic(t)
  PROVE  /\ pc[t] \in Living
         /\ UNCHANGED <<asked, doubtful, starts, panicked>>
         /\ \E l \in Living \cup {"ended"} :
              /\ pc' = [pc EXCEPT ![t] = l]
              /\ l \in Leaving => pc[t] \in Leaving \/ cloud_stop
              /\ l = "ended" => pc[t] = "clear"
              /\ l \in UsingParams =>
                   \/ dynamic_params' \/ unregistered'
                   \/ pc[t] \in UsingParams /\ UNCHANGED table
         /\ \/ UNCHANGED <<cloud_stop, untaken>>
            \/ pc[t] = "clear" /\ ~cloud_stop' /\ ~untaken'
<1> USE DEF agent, flag, task, table, cloud, intent, outcome, offers, calls, counts, network,
            Goto, Living, Leaving, UsingParams
<1>1. CASE Connect(t) BY <1>1 DEF Connect
<1>2. CASE RegisterParams(t) \/ RegisterFails(t)
  BY <1>2 DEF RegisterParams, RegisterFails, Allocated
<1>16. CASE Report(t) BY <1>16 DEF Report
<1>17. CASE Reported(t) BY <1>17 DEF Reported
<1>18. CASE Scan(t) BY <1>18 DEF Scan
<1>3. CASE SubscribeAlexa(t) BY <1>3 DEF SubscribeAlexa
<1>4. CASE LoopTop(t) BY <1>4 DEF LoopTop, Stopping
<1>5. CASE Receive(t) BY <1>5 DEF Receive
<1>6. CASE Drained(t) BY <1>6 DEF Drained
<1>7. CASE RunInitDone(t) BY <1>7 DEF RunInitDone, Runs
<1>8. CASE RunOtaCheck(t) BY <1>8 DEF RunOtaCheck, Runs
<1>9. CASE RunFirst(t) BY <1>9 DEF RunFirst, Runs
<1>10. CASE RunCall(t) BY <1>10 DEF RunCall, Runs
<1>11. CASE RunData(t) BY <1>11 DEF RunData, Runs
<1>12. CASE RunAssoc(t) BY <1>12 DEF RunAssoc, Runs
<1>13. CASE Wait(t) BY <1>13 DEF Wait
<1>14. CASE Disconnect(t) BY <1>14 DEF Disconnect
<1>15. CASE End(t) BY <1>15 DEF End, Cleared
<1> QED BY <1>1, <1>2, <1>3, <1>4, <1>5, <1>6, <1>7, <1>8, <1>9, <1>10, <1>11, <1>12,
           <1>13, <1>14, <1>15, <1>16, <1>17, <1>18 DEF esp_cloud_task, RunWork

\* The steps that touch neither the tasks nor what SoleInv says of them.
Untouched ==
  UNCHANGED <<cloud_stop, untaken, pc, starts, doubtful, asked, table, panicked>>

LEMMA SoleUntouched == SoleInv /\ Untouched => SoleInv'
BY DEF SoleInv, ParamsAlive, Untouched, table

LEMMA OthersUntouched ==
  (\/ \E h \in Handlers : register_periodic_handler(h) \/ diagnostics_common_cb(h)
   \/ add_data \/ user_assoc_handler \/ Outage \/ Recover \/ UNCHANGED vars) => Untouched
BY DEF register_periodic_handler, diagnostics_common_cb, add_data, user_assoc_handler,
       Outage, Recover, vars, Untouched, agent, flag, task, table, cloud, intent, outcome, offers,
       calls, counts, network

LEMMA SoleStart == TypeOK /\ SoleInv /\ ~panicked /\ cloud_agent_ota_start => SoleInv'
<1> SUFFICES ASSUME TypeOK, SoleInv, ~panicked, cloud_agent_ota_start PROVE SoleInv'
  OBVIOUS
<1> USE DEF flag, table, cloud, agent, intent
<1>1. starts' = starts + 1 /\ starts' \in Tasks /\ starts \in Nat
  BY BoundsAssumption DEF cloud_agent_ota_start, TypeOK, Tasks
<1>2. UNCHANGED <<cloud_stop, untaken, dynamic_params, unregistered, panicked>>
  BY DEF cloud_agent_ota_start
<1>3. pc' = pc \/ pc' = [pc EXCEPT ![starts'] = "connect"]
  BY DEF cloud_agent_ota_start
<1>4. \A t \in Tasks : t > starts' => pc'[t] = "none"
  <2>1. ASSUME NEW t \in Tasks, t > starts' PROVE pc'[t] = pc[t] /\ t > starts
    <3>1. t # starts' /\ t > starts
      BY <1>1, <2>1 DEF Tasks
    <3>2. pc \in [Tasks -> Living \cup {"none", "ended"}]
      BY DEF TypeOK
    <3> QED BY <1>1, <1>3, <3>1, <3>2
  <2> QED BY <2>1 DEF SoleInv
<1>5. ASSUME ~doubtful'
      PROVE  /\ \A t, u \in Tasks : pc'[t] \in Living /\ pc'[u] \in Living => t = u
             /\ ~cloud_stop' /\ \E t \in Tasks : pc'[t] \in Living \ Leaving
             /\ \A t \in Tasks : pc'[t] \in UsingParams => dynamic_params' \/ unregistered'
  <2>1. ~Alive /\ ~untaken /\ handle'
    BY <1>5 DEF cloud_agent_ota_start
  <2>2. pc' = [pc EXCEPT ![starts'] = "connect"]
    BY <2>1 DEF cloud_agent_ota_start
  <2>3. \A t \in Tasks : t # starts' => pc'[t] \notin Living
    BY <1>1, <2>1, <2>2 DEF Alive, TypeOK
  <2>4. pc'[starts'] = "connect"
    BY <1>1, <2>2 DEF TypeOK
  <2> QED BY <1>1, <1>2, <2>1, <2>3, <2>4 DEF SoleInv, Living, Leaving, UsingParams
<1> QED BY <1>2, <1>4, <1>5 DEF SoleInv, ParamsAlive

\* A panic comes to a task that relies on the table.
LEMMA SolePanic ==
  ASSUME SoleInv, NEW t \in Tasks, Panic(t)
  PROVE  SoleInv'
<1> USE DEF agent, flag, task, table, cloud, intent, outcome, offers, calls, counts, network
<1>1. doubtful \/ unregistered
  BY DEF SoleInv, Panic, UsesTable, UsingParams
<1> QED BY <1>1 DEF SoleInv, ParamsAlive, Panic

LEMMA SoleTask ==
  ASSUME TypeOK, SoleInv, ~panicked, NEW t \in Tasks, esp_cloud_task(t), ~Panic(t)
  PROVE  SoleInv'
<1>1. PICK l \in Living \cup {"ended"} :
        /\ pc' = [pc EXCEPT ![t] = l]
        /\ l \in Leaving => pc[t] \in Leaving \/ cloud_stop
        /\ l = "ended" => pc[t] = "clear"
        /\ l \in UsingParams =>
             \/ dynamic_params' \/ unregistered'
             \/ pc[t] \in UsingParams /\ UNCHANGED table
  BY TaskStep
<1>2. /\ pc[t] \in Living
      /\ UNCHANGED <<asked, doubtful, starts, panicked>>
      /\ \/ UNCHANGED <<cloud_stop, untaken>>
         \/ pc[t] = "clear" /\ ~cloud_stop' /\ ~untaken'
  BY TaskStep
<1>3. pc'[t] = l /\ \A u \in Tasks \ {t} : pc'[u] = pc[u]
  BY <1>1 DEF TypeOK
<1>4. cloud_stop' <=> untaken'
  BY <1>2 DEF SoleInv
<1>5. \A u \in Tasks : u > starts' => pc'[u] = "none"
  BY <1>2, <1>3 DEF SoleInv, Living
<1>6. ASSUME ~doubtful'
      PROVE  /\ \A u, v \in Tasks : pc'[u] \in Living /\ pc'[v] \in Living => u = v
             /\ asked' = "start" =>
                  ~cloud_stop' /\ \E u \in Tasks : pc'[u] \in Living \ Leaving
             /\ \A u \in Tasks : pc'[u] \in UsingParams => dynamic_params' \/ unregistered'
  <2>1. \A u \in Tasks \ {t} : pc'[u] \notin Living
    BY <1>2, <1>3, <1>6 DEF SoleInv
  <2>2. ASSUME asked' = "start"
        PROVE  ~cloud_stop' /\ pc'[t] \in Living \ Leaving
    <3>1. ~cloud_stop /\ pc[t] \notin Leaving
      BY <1>2, <1>6, <2>2 DEF SoleInv
    <3> QED BY <1>1, <1>2, <1>3, <3>1 DEF Leaving
  <2>3. pc'[t] \in UsingParams => dynamic_params' \/ unregistered'
    BY <1>1, <1>2, <1>3, <1>6 DEF SoleInv, table
  <2> QED BY <2>1, <2>2, <2>3 DEF UsingParams, Living
<1> QED BY <1>2, <1>4, <1>5, <1>6 DEF SoleInv, ParamsAlive

LEMMA SoleNext == TypeOK /\ SoleInv /\ [Next]_vars => SoleInv'
<1> SUFFICES ASSUME TypeOK, SoleInv, [Next]_vars PROVE SoleInv'
  OBVIOUS
<1> USE DEF agent, flag, task, table, cloud, intent, outcome, offers, calls, counts, network
<1>0. ~panicked \/ UNCHANGED vars
  BY DEF Next
<1>1. CASE cloud_agent_ota_start /\ ~panicked BY <1>1, SoleStart
<1>2. CASE StartFails
  <2>1. /\ doubtful' /\ starts' = starts + 1 /\ starts \in Nat
        /\ UNCHANGED <<cloud_stop, untaken, pc>>
    BY <1>2 DEF StartFails, TypeOK
  <2>2. \A t \in Tasks : t > starts' => pc'[t] = "none"
    BY <2>1 DEF SoleInv, Tasks
  <2> QED BY <2>1, <2>2 DEF SoleInv, ParamsAlive
<1>3. CASE cloud_agent_ota_stop
  BY <1>3 DEF cloud_agent_ota_stop, SoleInv, ParamsAlive
<1>4. ASSUME NEW t \in Tasks, esp_cloud_task(t), ~panicked PROVE SoleInv'
  BY <1>4, SoleTask, SolePanic
<1>5. ASSUME NEW t \in Tasks, ConnectAborts(t) PROVE SoleInv'
  <2>1. /\ doubtful' /\ UNCHANGED <<cloud_stop, untaken, starts>>
        /\ pc[t] = "connect" /\ pc' = [pc EXCEPT ![t] = "ended"]
    BY <1>5 DEF ConnectAborts, Goto
  <2>2. \A u \in Tasks : u > starts' => pc'[u] = "none"
    BY <2>1 DEF SoleInv, TypeOK
  <2> QED BY <2>1, <2>2 DEF SoleInv, ParamsAlive
<1> QED BY <1>0, <1>1, <1>2, <1>3, <1>4, <1>5, SoleUntouched, OthersUntouched DEF Next, Application

THEOREM Sole == Spec => [](TypeOK /\ SoleInv)
<1>1. Init => SoleInv
  BY DEF Init, SoleInv, ParamsAlive, Living, UsingParams
<1> QED BY <1>1, TypeInit, TypeNext, SoleNext, PTL DEF Spec

\* An agent that was started and not stopped has a task: no stop of an earlier task ends
\* it, provided that the last start was not doubtful.
THEOREM StaysStarted == Spec => []StartedStays
<1>1. SoleInv => StartedStays
  BY DEF SoleInv, StartedStays, Alive
<1> QED BY <1>1, Sole, PTL

\* No restart, stop or loss of the network, and no failure but that of the registration
\* itself, brings the device to use a table of parameters that is not there.
THEOREM TableAlive == Spec => []ParamsAlive
<1>1. SoleInv => ParamsAlive
  BY DEF SoleInv
<1> QED BY <1>1, Sole, PTL

-----------------------------------------------------------------------------
(* Nothing before the connection.                                          *)

\* Until it has connected, no task is past the connection, so no work has run: no timer
\* runs, and none has ticked.
QuietInv ==
  ~linked => /\ ~told /\ called = {} /\ ticks = 0 /\ ~CallQueued
             /\ \A h \in Handlers : timer[h] # "running"
             /\ \A t \in Tasks : pc[t] \in {"none", "connect", "ended"}

\* Queueing other work adds no call.
LEMMA NoCallQueued ==
  ASSUME NEW q \in Seq(Work), NEW w \in Work, w.fn # "call",
         \A i \in 1 .. Len(q) : q[i].fn # "call"
  PROVE  \A i \in 1 .. Len(Queued(q, w)) : Queued(q, w)[i].fn # "call"
BY DEF Queued

LEMMA QuietNext == TypeOK /\ QuietInv /\ [Next]_vars => QuietInv'
<1> SUFFICES ASSUME TypeOK, QuietInv, [Next]_vars, ~linked' PROVE QuietInv'
  BY DEF QuietInv
<1> USE DEF agent, flag, task, table, cloud, intent, outcome, offers, calls, counts, network
<1>1. ~linked
  BY DEF Next, Application, cloud_agent_ota_start, StartFails, cloud_agent_ota_stop,
         register_periodic_handler, add_data, user_assoc_handler, diagnostics_common_cb,
         ConnectAborts, Outage, Recover, vars, esp_cloud_task, RunWork, Connect,
         RegisterParams, RegisterFails, Report, Reported, SubscribeAlexa, LoopTop, Receive,
         Drained, RunInitDone, RunOtaCheck, RunFirst, RunCall, RunData, RunAssoc, Wait, Scan,
         Disconnect, End, Panic
<1>2. /\ ~told /\ called = {} /\ ticks = 0
      /\ \A h \in Handlers : timer[h] # "running"
      /\ \A t \in Tasks : pc[t] \in {"none", "connect", "ended"}
      /\ \A i \in 1 .. Len(work_queue) : work_queue[i].fn # "call"
  BY <1>1 DEF QuietInv, CallQueued
<1>3. work_queue \in Seq(Work)
  BY DEF TypeOK
<1>4. ASSUME NEW h \in BOOLEAN, Initialised(h)
      PROVE  \A i \in 1 .. Len(work_queue') : work_queue'[i].fn # "call"
  <2> DEFINE q == Queued(<<>>, Do("initdone"))
  <2>0. <<>> \in Seq(Work) /\ Len(<<>>) = 0 /\ 0 <= QueueSize
    BY SizeAssumption
  <2>1. \A i \in 1 .. Len(q) : q[i].fn # "call"
    <3>1. \A i \in 1 .. Len(<<>>) : <<>>[i].fn # "call"
      BY <2>0
    <3>2. Do("initdone") \in Work /\ Do("initdone").fn # "call"
      BY WorkType DEF Do
    <3> QED BY <2>0, <3>1, <3>2, NoCallQueued
  <2>2. q \in Seq(Work)
    BY <2>0, QueuedType, WorkType
  <2>3. \A i \in 1 .. Len(Queued(q, Do("otacheck"))) : Queued(q, Do("otacheck"))[i].fn # "call"
    BY <2>1, <2>2, NoCallQueued, WorkType DEF Do
  <2> QED BY <1>2, <1>4, <2>3 DEF Initialised, FirstWork
<1>5. CASE cloud_agent_ota_start
  <2>1. \A i \in 1 .. Len(work_queue') : work_queue'[i].fn # "call"
    BY <1>4, <1>5 DEF cloud_agent_ota_start, TypeOK
  <2>2. \A t \in Tasks : pc'[t] \in {"none", "connect", "ended"}
    BY <1>2, <1>5 DEF cloud_agent_ota_start, TypeOK
  <2> QED BY <1>2, <1>5, <2>1, <2>2 DEF cloud_agent_ota_start, QuietInv, CallQueued
<1>6. CASE StartFails
  <2>1. \A i \in 1 .. Len(work_queue') : work_queue'[i].fn # "call"
    BY <1>4, <1>6 DEF StartFails, TypeOK
  <2> QED BY <1>2, <1>6, <2>1 DEF StartFails, QuietInv, CallQueued
<1>7. CASE cloud_agent_ota_stop
  BY <1>2, <1>7 DEF cloud_agent_ota_stop, QuietInv, CallQueued
<1>8. ASSUME NEW h \in Handlers, register_periodic_handler(h) PROVE QuietInv'
  <2>1. \A i \in 1 .. Len(work_queue') : work_queue'[i].fn # "call"
    BY <1>2, <1>3, <1>8, NoCallQueued, WorkType DEF register_periodic_handler, AddEntry, For
  <2>2. \A g \in Handlers : timer'[g] # "running"
    BY <1>2, <1>8 DEF register_periodic_handler, Created, TypeOK
  <2> QED BY <1>2, <1>8, <2>1, <2>2 DEF register_periodic_handler, QuietInv, CallQueued
<1>9. CASE add_data
  <2>1. \A i \in 1 .. Len(work_queue') : work_queue'[i].fn # "call"
    BY <1>2, <1>3, <1>9, NoCallQueued, WorkType DEF add_data, Do
  <2> QED BY <1>2, <1>9, <2>1 DEF add_data, QuietInv, CallQueued
<1>10. CASE user_assoc_handler
  <2>1. \A i \in 1 .. Len(work_queue') : work_queue'[i].fn # "call"
    BY <1>2, <1>3, <1>10, NoCallQueued, WorkType DEF user_assoc_handler, Do
  <2> QED BY <1>2, <1>10, <2>1 DEF user_assoc_handler, QuietInv, CallQueued
<1>11. ASSUME NEW h \in Handlers, diagnostics_common_cb(h) PROVE FALSE
  BY <1>2, <1>11 DEF diagnostics_common_cb
<1>12. ASSUME NEW t \in Tasks, esp_cloud_task(t) PROVE FALSE
  \* A task at "connect" can only connect.
  <2>1. Connect(t)
    BY <1>2, <1>12 DEF esp_cloud_task, RunWork, RegisterParams, RegisterFails, Report,
       Reported, SubscribeAlexa, LoopTop, Receive, Drained, RunInitDone, RunOtaCheck, RunFirst,
       RunCall, RunData, RunAssoc, Runs, Wait, Scan, Disconnect, End, Panic, UsesTable
  <2> QED BY <2>1 DEF Connect, Connected
<1>13. ASSUME NEW t \in Tasks, ConnectAborts(t) PROVE QuietInv'
  <2>1. \A u \in Tasks : pc'[u] \in {"none", "connect", "ended"}
    BY <1>2, <1>13 DEF ConnectAborts, Goto, TypeOK
  <2> QED BY <1>2, <1>13, <2>1 DEF ConnectAborts, QuietInv, CallQueued
<1>14. CASE Outage \/ Recover \/ UNCHANGED vars
  BY <1>2, <1>14 DEF Outage, Recover, vars, QuietInv, CallQueued
<1> QED BY <1>5, <1>6, <1>7, <1>8, <1>9, <1>10, <1>11, <1>12, <1>13, <1>14
        DEF Next, Application

\* Before the connection nothing is announced, no handler is called, no timer ticks and
\* no call is queued.
THEOREM QuietUntilConnected == Spec => []NothingBeforeConnection
<1>1. Init => QuietInv
  BY DEF Init, QuietInv, CallQueued
<1>2. QuietInv => NothingBeforeConnection
  BY DEF QuietInv, NothingBeforeConnection
<1> QED BY <1>1, <1>2, TypeInit, TypeNext, QuietNext, PTL DEF Spec
=============================================================================
