---------------------------- MODULE AlexaSession ----------------------------
(***************************************************************************)
(* The table of subscriptions of the platform, and the session with the    *)
(* Alexa account that is driven by messages to one of them.                *)
(*                                                                         *)
(* The cloud task subscribes to the application's topic when it has        *)
(* connected, and to the topic of upgrades when the work queue asks for    *)
(* it; the platform keeps three slots and hands a message to the handlers  *)
(* of the slots it belongs to.  On a message to sign in or out the handler *)
(* asks the Alexa library, which answers later, in a task of its own: it   *)
(* raises Wait_for_alexa_in.  The loop of the cloud task turns the two     *)
(* flags Wait_for_alexa_in and Wait_for_alexa_out into the parameter       *)
(* "alexa".  Nothing locks the flags.                                      *)
(*                                                                         *)
(* The library and the definition of the flags are not in the repository.  *)
(* A message may arrive whenever some task reads the network; any message  *)
(* may come, twice or never, so none is kept in flight.                    *)
(***************************************************************************)
EXTENDS Naturals, Sequences, SequencesExt

CONSTANTS
  AppTopic,     \* app_topic, where the application's commands come from
  OtaTopic,     \* "<device_id>/otaurl"
  MaxStarts,    \* bound: starts of the agent
  MaxStops,     \* bound: stops of the agent
  MaxMessages,  \* bound: messages to the application's topic
  MaxChecks,    \* bound: checks for an upgrade, which subscribe to OtaTopic again
  MaxReports,   \* bound: reports of the session to the application
  MaxFaults     \* bound: failures to subscribe, to unsubscribe or to update

Topics  == {AppTopic, OtaTopic}
NoTopic == <<>>
Slots   == 1 .. 3

\* The table compares topics by their beginnings.
ASSUME TopicAssumption ==
  /\ Topics \subseteq Seq(STRING) \ {NoTopic}
  /\ ~IsPrefix(AppTopic, OtaTopic) /\ ~IsPrefix(OtaTopic, AppTopic)
ASSUME BoundsAssumption ==
  /\ MaxStarts \in Nat /\ MaxStops \in Nat /\ MaxMessages \in Nat
  /\ MaxChecks \in Nat /\ MaxReports \in Nat /\ MaxFaults \in Nat

VARIABLES
  slots,                 \* subscriptions[]: the topic of a slot, or NoTopic
  broker,                \* topics the broker sends to this device
  app_topic,             \* the topic is in the storage
  pc, target,            \* the cloud task, the topic it subscribes to
  cloud_stop,
  reporting,             \* another task waits for the acknowledgement of a report
  shadowUpdateInProgress,  \* for good: of an update that failed, which none answers
  Wait_for_alexa_in, Wait_for_alexa_out,
  alexa,                 \* the parameter "alexa"
  requests,              \* what the library was asked for and has not answered
  account,               \* the library's session
  crossed,               \* history: a sign-in and a sign-out have met
  starts, stops, messages, checks, reports, faults

table   == <<slots, broker>>
task    == <<pc, target, cloud_stop, app_topic>>
flags   == <<Wait_for_alexa_in, Wait_for_alexa_out>>
busy    == <<reporting, shadowUpdateInProgress>>
library == <<requests, account>>
counts  == <<starts, stops, messages, checks, reports, faults>>
vars == <<table, task, busy, flags, alexa, library, crossed, counts>>

(***************************************************************************)
(* The table of subscriptions.                                             *)
(***************************************************************************)
Lowest(S) == CHOOSE i \in S : \A j \in S : i <= j
Empty(s) == {i \in Slots : s[i] = NoTopic}

\* The slots esp_cloud_platform_unsubscribe() would clear for the topic t, and
\* those a message to t is handed to.
Matching(s, t) == {i \in Slots : s[i] # NoTopic /\ IsPrefix(t, s[i])}

\* The table without t, and with t in the first slot that is free.
\* (Stays: a mutant.)
Stays(s, t) == s
Without(s, t) == IF Matching(s, t) = {} THEN s
                 ELSE [s EXCEPT ![Lowest(Matching(s, t))] = NoTopic]
With(s, t) == [s EXCEPT ![Lowest(Empty(s))] = t]

\* aws_unsubscribe_all()
Emptied(s, i) == IF s[i] = NoTopic THEN s ELSE Without(s, s[i])
AllEmptied(s) == Emptied(Emptied(Emptied(s, 1), 2), 3)

\* Where the task goes on when it has subscribed, or could not.
Onwards == IF target = AppTopic THEN "top" ELSE "queue"

\* The result of the broker is only logged; the slot goes in any case.
esp_cloud_platform_unsubscribe ==
  /\ pc = "unsubscribe"
  /\ pc' = "subscribe" /\ slots' = Without(slots, target)
  /\ \/ broker' = broker \ {target} /\ UNCHANGED faults
     \/ faults < MaxFaults /\ faults' = faults + 1 /\ UNCHANGED broker
  /\ UNCHANGED <<target, cloud_stop, app_topic, busy, flags, alexa, library, crossed,
                 starts, stops, messages, checks, reports>>

esp_cloud_platform_subscribe ==
  /\ pc = "subscribe" /\ Empty(slots) # {}
  /\ pc' = Onwards
  /\ slots' = With(slots, target) /\ broker' = broker \cup {target}
  /\ UNCHANGED <<target, cloud_stop, app_topic, busy, flags, alexa, library, crossed, counts>>

\* There is no slot, no memory or no acknowledgement; then the broker may have
\* subscribed the device all the same.
SubscribeFails ==
  /\ pc = "subscribe"
  /\ pc' = Onwards
  /\ IF Empty(slots) = {} THEN UNCHANGED <<broker, faults>>
     ELSE /\ faults < MaxFaults /\ faults' = faults + 1
          /\ broker' \in {broker, broker \cup {target}}
  /\ UNCHANGED <<slots, target, cloud_stop, app_topic, busy, flags, alexa, library, crossed,
                 starts, stops, messages, checks, reports>>

(***************************************************************************)
(* Starting and stopping the agent, the loop of its task.                  *)
(***************************************************************************)
\* Connected, the task subscribes to the application's topic if it knows it.
esp_cloud_start ==
  /\ starts < MaxStarts /\ starts' = starts + 1
  /\ pc = "none" /\ target' = AppTopic
  /\ pc' = IF app_topic THEN "unsubscribe" ELSE "top"
  /\ UNCHANGED <<table, cloud_stop, app_topic, busy, flags, alexa, library, crossed,
                 stops, messages, checks, reports, faults>>

esp_cloud_stop ==
  /\ stops < MaxStops /\ stops' = stops + 1
  /\ cloud_stop' = TRUE
  /\ UNCHANGED <<table, pc, target, app_topic, busy, flags, alexa, library, crossed,
                 starts, messages, checks, reports, faults>>

\* A session with the broker ends with its subscriptions.
Disconnect ==
  /\ pc = "top" /\ cloud_stop
  /\ pc' = "none" /\ cloud_stop' = FALSE
  /\ slots' = AllEmptied(slots) /\ broker' = {}
  /\ UNCHANGED <<target, app_topic, busy, flags, alexa, library, crossed, counts>>

Goto(from, to) ==
  /\ pc = from /\ pc' = to
  /\ UNCHANGED <<target, cloud_stop, app_topic>>

LoopTop ==
  /\ ~cloud_stop /\ Goto("top", "queue")
  /\ UNCHANGED <<table, busy, flags, alexa, library, crossed, counts>>

\* A check for an upgrade is in the work queue, or the queue is empty.
esp_cloud_ota_check ==
  /\ checks < MaxChecks /\ checks' = checks + 1
  /\ pc = "queue" /\ pc' = "unsubscribe" /\ target' = OtaTopic
  /\ UNCHANGED <<table, cloud_stop, app_topic, busy, flags, alexa, library, crossed,
                 starts, stops, messages, reports, faults>>

QueueEmpty ==
  /\ Goto("queue", "wait")
  /\ UNCHANGED <<table, busy, flags, alexa, library, crossed, counts>>

\* The wait goes on while an update is in progress, and makes one if parameters changed.
\* shadow_update() says that one is in progress even if it failed, and then none answers.
esp_cloud_platform_wait ==
  /\ ~shadowUpdateInProgress
  /\ Goto("wait", "testIn")
  /\ \/ UNCHANGED <<shadowUpdateInProgress, faults>>
     \/ faults < MaxFaults /\ faults' = faults + 1 /\ shadowUpdateInProgress' = TRUE
  /\ UNCHANGED <<table, reporting, flags, alexa, library, crossed,
                 starts, stops, messages, checks, reports>>

(***************************************************************************)
(* The flags, and what the loop makes of them after each wait.             *)
(***************************************************************************)
\* The tests of the loop at once with the update of the parameter that follows;
\* every assignment of a flag is a step of its own.
\* (OtherFlag, KeepsNotive, OtherName: mutants.)
OtherFlag == Wait_for_alexa_in = "NOT_LOG_OUT"
SignOutPending == Wait_for_alexa_out = "NOT_LOG_OUT"
SigningOut == SignOutPending \/ pc \in {"noteOut", "noteSignedOut"}

TestIn ==
  /\ IF Wait_for_alexa_in = "LOGED_IN"
     THEN Goto("testIn", "noteIn") /\ alexa' = TRUE
     ELSE Goto("testIn", "testOut") /\ UNCHANGED alexa
  /\ UNCHANGED <<table, busy, flags, library, crossed, counts>>

NoteIn ==
  /\ Goto("noteIn", "testOut") /\ Wait_for_alexa_in' = "LOGED_IN_NOTIVE"
  /\ UNCHANGED <<table, busy, Wait_for_alexa_out, alexa, library, crossed, counts>>

TestOut ==
  /\ IF SignOutPending
     THEN Goto("testOut", "noteOut") /\ alexa' = FALSE
     ELSE Goto("testOut", "top") /\ UNCHANGED alexa
  /\ UNCHANGED <<table, busy, flags, library, crossed, counts>>

NoteOut ==
  /\ Goto("noteOut", "noteSignedOut") /\ Wait_for_alexa_out' = "LOGED__OUT"
  /\ UNCHANGED <<table, busy, Wait_for_alexa_in, alexa, library, crossed, counts>>

KeepsNotive  == Wait_for_alexa_in
OtherName    == "LOGED__OUT"
AfterSignOut == "NOT_LOG_IN"

NoteSignedOut ==
  /\ Goto("noteSignedOut", "top") /\ Wait_for_alexa_in' = AfterSignOut
  /\ UNCHANGED <<table, busy, Wait_for_alexa_out, alexa, library, crossed, counts>>

esp_cloud_task ==
  \/ esp_cloud_platform_unsubscribe \/ esp_cloud_platform_subscribe \/ SubscribeFails
  \/ Disconnect \/ LoopTop \/ esp_cloud_ota_check \/ QueueEmpty \/ esp_cloud_platform_wait
  \/ TestIn \/ NoteIn \/ TestOut \/ NoteOut \/ NoteSignedOut

(***************************************************************************)
(* Messages of the application, the library and the reports.               *)
(***************************************************************************)
\* A message as far as the handler reads it: whether it can be parsed and names
\* this device, its command, and whether it carries all the command needs.
Messages == [ours : BOOLEAN, complete : BOOLEAN,
             cmd : {"alexa_req", "alexa_unbind_req", "ota_upgrade", "none"}]

\* What the library was asked for and has not done yet.
Asked(which) == \E i \in 1 .. Len(requests) : requests[i] = which

\* The flag at once with the request that follows it; the loop that comes between them, when
\* the message was read by a reporting task, only tells the sign-out before it is asked for.
SignOut(m) ==
  /\ m.ours /\ m.cmd = "alexa_unbind_req"
  /\ Wait_for_alexa_out' = "NOT_LOG_OUT"
  /\ requests' = Append(requests, "out")
  /\ crossed' = (crossed \/ Asked("in"))
  /\ UNCHANGED Wait_for_alexa_in

\* (Eager: a mutant.)
Eager == TRUE
MaySignIn == Wait_for_alexa_in = "NOT_LOG_IN"

SignIn(m) ==
  /\ m.ours /\ m.cmd = "alexa_req" /\ m.complete
  /\ MaySignIn
  /\ requests' = Append(requests, "in")
  /\ UNCHANGED <<flags, crossed>>

\* Everything else returns early or, an upgrade of the application, publishes an
\* offer for the handler of OtaTopic.
Ignored(m) ==
  /\ \/ ~m.ours \/ m.cmd \in {"ota_upgrade", "none"}
     \/ m.cmd = "alexa_req" /\ ~(m.complete /\ MaySignIn)
  /\ UNCHANGED <<flags, requests, crossed>>

alexa_sign_in_handler(m) == SignOut(m) \/ SignIn(m) \/ Ignored(m)

\* A task reads the network while it waits, for an acknowledgement or for
\* messages, and the callback runs there.
Reading == pc \in {"unsubscribe", "subscribe", "queue", "wait"} \/ (reporting /\ pc # "none")

aws_common_subscribe_callback ==
  /\ messages < MaxMessages /\ messages' = messages + 1
  /\ Reading /\ AppTopic \in broker
  /\ \E i \in Matching(slots, AppTopic) : slots[i] = AppTopic
  /\ \E m \in Messages : alexa_sign_in_handler(m)
  /\ UNCHANGED <<table, task, busy, alexa, account, starts, stops, checks, reports, faults>>

\* esp_cloud_report_alexa_sign_in_status(), esp_cloud_report_alexa_sign_out_status()
esp_cloud_report_alexa_status ==
  /\ reports < MaxReports /\ reports' = reports + 1
  /\ app_topic /\ pc # "none" /\ ~reporting /\ reporting' = TRUE
  /\ UNCHANGED <<shadowUpdateInProgress, table, task, flags, alexa, library, crossed,
                 starts, stops, messages, checks, faults>>

ReportEnds ==
  /\ reporting /\ reporting' = FALSE
  /\ UNCHANGED <<shadowUpdateInProgress, table, task, flags, alexa, library, crossed, counts>>

\* The library answers requests in their order.  A sign-in during a sign-out, asked
\* for or not yet noted, has crossed it; one with no sign-out left starts anew.
Served(which) == /\ requests # <<>> /\ Head(requests) = which
                 /\ requests' = Tail(requests)

SignedIn ==
  /\ Served("in") /\ account' = "in"
  /\ Wait_for_alexa_in' = "LOGED_IN"
  /\ crossed' = (SigningOut \/ (crossed /\ Asked("out")))
  /\ UNCHANGED <<table, task, busy, Wait_for_alexa_out, alexa, counts>>

SignInFails ==
  /\ Served("in")
  /\ UNCHANGED <<table, task, busy, flags, alexa, account, crossed, counts>>

SignedOut ==
  /\ Served("out") /\ account' = "out"
  /\ UNCHANGED <<table, task, busy, flags, alexa, crossed, counts>>

Library == SignedIn \/ SignInFails \/ SignedOut

-----------------------------------------------------------------------------
\* The library may have a session from before and then says so at once.
Init ==
  /\ slots = [i \in Slots |-> NoTopic] /\ broker = {}
  /\ app_topic \in BOOLEAN /\ pc = "none" /\ target = AppTopic /\ cloud_stop = FALSE
  /\ reporting = FALSE /\ shadowUpdateInProgress = FALSE
  /\ alexa = FALSE /\ requests = <<>> /\ crossed = FALSE
  /\ \/ account = "out" /\ Wait_for_alexa_in = "NOT_LOG_IN"
     \/ account = "in" /\ Wait_for_alexa_in = "LOGED_IN"
  /\ Wait_for_alexa_out = "LOGED__OUT"
  /\ starts = 0 /\ stops = 0 /\ messages = 0 /\ checks = 0 /\ reports = 0 /\ faults = 0

Next ==
  \/ esp_cloud_start \/ esp_cloud_stop \/ esp_cloud_task
  \/ aws_common_subscribe_callback \/ esp_cloud_report_alexa_status \/ ReportEnds
  \/ Library

Spec == Init /\ [][Next]_vars

\* FreeRTOS runs the task, and the library answers; no message need come.
FairSpec == Spec /\ WF_vars(esp_cloud_task) /\ WF_vars(Library)

-----------------------------------------------------------------------------
\* The variables keep their types.
TypeOK ==
  /\ slots \in [Slots -> Topics \cup {NoTopic}] /\ broker \subseteq Topics
  /\ app_topic \in BOOLEAN /\ target \in Topics /\ cloud_stop \in BOOLEAN
  /\ pc \in {"none", "unsubscribe", "subscribe", "top", "queue", "wait",
             "testIn", "noteIn", "testOut", "noteOut", "noteSignedOut"}
  /\ reporting \in BOOLEAN /\ shadowUpdateInProgress \in BOOLEAN
  /\ alexa \in BOOLEAN /\ crossed \in BOOLEAN
  /\ Wait_for_alexa_in \in {"NOT_LOG_IN", "LOGED_IN", "LOGED_IN_NOTIVE"}
  /\ Wait_for_alexa_out \in {"NOT_LOG_OUT", "LOGED__OUT"}
  /\ requests \in Seq({"in", "out"}) /\ account \in {"in", "out"}

\* However often the task subscribes again, with failures and restarts between, no
\* topic has two slots, so that no message is handled twice; every topic in the
\* table is one the broker sends; and one that is about to be subscribed to is not
\* in the table and finds a free slot (aws_cloud.c:82-140).
TableSound ==
  /\ \A i, j \in Slots : slots[i] = slots[j] /\ slots[i] # NoTopic => i = j
  /\ \A i \in Slots : slots[i] # NoTopic => slots[i] \in broker
  /\ pc = "subscribe" => Empty(slots) # {} /\ \A i \in Slots : slots[i] # target

\* When nothing is asked of the library and neither flag waits for the loop, the
\* parameter and the flag that admits a sign-in say what the session is, unless a
\* sign-in and a sign-out have crossed (esp_cloud.c:811-820).
AtRest ==
  /\ requests = <<>> /\ Wait_for_alexa_in # "LOGED_IN" /\ ~SigningOut /\ pc # "noteIn"
StateTold ==
  AtRest /\ ~crossed => /\ alexa = (account = "in")
                        /\ (Wait_for_alexa_in = "NOT_LOG_IN") = (account = "out")

\* The library is asked to sign in only while there is no session, or after it was
\* asked to end it: a code is not spent on a session that exists
\* (esp_cloud.c:635).
SignInWhenOut ==
  [][ requests' = Append(requests, "in") /\ ~crossed
        => account = "out" \/ Asked("out") ]_vars

\* As long as the agent runs and none of its updates has failed, the parameter in the end
\* says how the session stands, and no later step undoes it, unless a sign-in and a sign-out
\* have crossed.  (After a failed update esp_cloud_platform_wait() never returns,
\* aws_cloud.c:530-539, and the loop looks at the flags no more.)
Told == crossed \/ alexa = (account = "in")
EventuallyTold ==
  <>[](pc # "none") /\ []~shadowUpdateInProgress => <>[]Told
=============================================================================
