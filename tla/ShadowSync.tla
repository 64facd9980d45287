----------------------------- MODULE ShadowSync -----------------------------
(***************************************************************************)
(* How a dynamic parameter of the agent is kept equal to its AWS shadow.   *)
(*                                                                         *)
(* Two tasks of the device share, without any lock, the parameter table    *)
(* (val and flags of every parameter) and the state the application drives *)
(* (output):                                                               *)
(*   - an application task (the button callback, run by the FreeRTOS timer *)
(*     service) changes the output and calls                               *)
(*     esp_cloud_update_<type>_param();                                    *)
(*   - the cloud task registers the parameters, reports them once, then    *)
(*     loops: work queue, yield to MQTT until no shadow update is in       *)
(*     progress, scan the table, send one shadow update.  Delta and answer *)
(*     callbacks run inside its yields.                                    *)
(* Every access of one task to what the other may change is a step of its  *)
(* own: `flags |= x' is a load and a store.                                *)
(*                                                                         *)
(* The MQTT client and the shadow service are external: two ordered        *)
(* channels that may lose messages, and a document {desired, reported}.    *)
(***************************************************************************)
EXTENDS Naturals, Sequences, FiniteSets

CONSTANTS
  NumParams,     \* cur_dynamic_params_count
  BoolParams,    \* the parameters whose type is CLOUD_PARAM_TYPE_BOOLEAN
  Controllable,  \* the parameters with a callback for remote changes
  Values,        \* what a parameter can be set to
  Refused,       \* the values for which the callback does not return ESP_OK
  NoVal,         \* a key absent from a JSON document
  DocCapacity,   \* entries that fit MAX_LENGTH_OF_UPDATE_JSON_BUFFER
  MaxPresses,    \* bound: changes made by the application
  MaxRequests,   \* bound: changes of the desired state by users
  MaxNetFaults,  \* bound: lost, rejected or late messages
  MaxPubFails    \* bound: aws_iot_shadow_update() calls that fail

Params == 1 .. NumParams

ASSUME ParamsAssumption == NumParams \in Nat \ {0}
ASSUME TypesAssumption == BoolParams \subseteq Params /\ Controllable \subseteq Params
ASSUME ValuesAssumption == Refused \subseteq Values /\ NoVal \notin Values
ASSUME BoundsAssumption ==
  /\ DocCapacity \in Nat
  /\ MaxPresses \in Nat /\ MaxRequests \in Nat
  /\ MaxNetFaults \in Nat /\ MaxPubFails \in Nat

VARIABLES
  output,          \* what the application drives (g_output_state)
  val, flags,      \* esp_cloud_dynamic_param_t
  pData,           \* jsonStruct_t: what the next shadow update would say
  app,             \* application task: pc, parameter, new_state, loaded flags
  pc,              \* cloud task
  idx,             \* its loop index i over the table
  booting,         \* it has not yet left esp_cloud_report_device_state()
  delta, reg,      \* delta being applied: keys left; parameter and loaded flags
  reported_handles, desired_handles,
  shadowUpdateInProgress,
  awaiting,        \* ids of the updates the MQTT client has a callback for
  nextId,
  toCloud, toDevice,
  shadow,          \* the service's document
  presses, requests, netFaults, pubFails,
  missed           \* history: parameters whose last change is known to be lost

appVars   == <<app, presses>>
paramVars == <<output, val, flags, pData>>
loopVars  == <<idx, booting, reported_handles, desired_handles>>
deltaVars == <<delta, reg>>
ackVars   == <<shadowUpdateInProgress, awaiting, nextId>>
netVars   == <<toCloud, toDevice, shadow, requests, netFaults>>
vars == <<appVars, paramVars, pc, loopVars, deltaVars, ackVars, netVars, pubFails, missed>>

LOCAL_CHANGE  == "LOCAL"
REMOTE_CHANGE == "REMOTE"
Flags == SUBSET {LOCAL_CHANGE, REMOTE_CHANGE}
Doc   == [Params -> Values \cup {NoVal}]
Nothing == [p \in Params |-> NoVal]

\* What `flags |= x' stores after loading `loaded'.  (ForgetFlag: a mutant.)
ForgetFlag(loaded, x) == loaded
SetFlag(loaded, x) == loaded \cup {x}

(***************************************************************************)
(* The application's task: esp_cloud_update_<type>_param() as push_btn_cb  *)
(* calls it.                                                               *)
(***************************************************************************)

\* new_state is computed from the output the button callback reads.
AppPress(p) ==
  /\ app.pc = "idle"
  /\ presses < MaxPresses
  /\ presses' = presses + 1
  /\ \E v \in Values \ {output[p]} :
       app' = [pc |-> "set", p |-> p, new_state |-> v, flags |-> {}]
  /\ UNCHANGED <<paramVars, pc, loopVars, deltaVars, ackVars, netVars, pubFails, missed>>

\* app_driver_set_state(new_state)
AppSetOutput ==
  /\ app.pc = "set"
  /\ output' = [output EXCEPT ![app.p] = app.new_state]
  /\ app' = [app EXCEPT !.pc = "val"]
  /\ UNCHANGED <<presses, val, flags, pData, pc, loopVars, deltaVars, ackVars, netVars,
                 pubFails, missed>>

\* param->val.val.b = val
AppSetVal ==
  /\ app.pc = "val"
  /\ val' = [val EXCEPT ![app.p] = app.new_state]
  /\ app' = [app EXCEPT !.pc = "load"]
  /\ UNCHANGED <<presses, output, flags, pData, pc, loopVars, deltaVars, ackVars, netVars,
                 pubFails, missed>>

\* param->flags |= CLOUD_PARAM_FLAG_LOCAL_CHANGE, the load
AppLoadFlags ==
  /\ app.pc = "load"
  /\ app' = [app EXCEPT !.pc = "store", !.flags = flags[app.p]]
  /\ UNCHANGED <<presses, paramVars, pc, loopVars, deltaVars, ackVars, netVars, pubFails,
                 missed>>

\* ... and the store: the change is due again when val is still what is driven.
AppStoreFlags ==
  /\ app.pc = "store"
  /\ flags' = [flags EXCEPT ![app.p] = SetFlag(app.flags, LOCAL_CHANGE)]
  /\ app' = [app EXCEPT !.pc = "idle", !.flags = {}]
  /\ missed' = IF val[app.p] = output[app.p] THEN missed \ {app.p} ELSE missed
  /\ UNCHANGED <<presses, output, val, pData, pc, loopVars, deltaVars, ackVars, netVars,
                 pubFails>>

App == \/ \E p \in Params : AppPress(p)
       \/ AppSetOutput \/ AppSetVal \/ AppLoadFlags \/ AppStoreFlags

(***************************************************************************)
(* The cloud task.                                                         *)
(***************************************************************************)

\* The loops over the table have more parameters to visit.  (OneTooMany: a mutant.)
OneTooMany == idx <= NumParams
MoreParams == idx < NumParams

\* esp_cloud_platform_register_dynamic_params(), one parameter of its loop
Register ==
  /\ pc = "register"
  /\ pData' = [pData EXCEPT ![idx] = val[idx]]
  /\ IF MoreParams THEN idx' = idx + 1 /\ pc' = pc
                   ELSE idx' = idx     /\ pc' = "report"
  /\ UNCHANGED <<appVars, output, val, flags, booting, reported_handles, desired_handles,
                 deltaVars, ackVars, netVars, pubFails, missed>>

\* esp_cloud_platform_report_state(): every parameter is reported once
ReportState ==
  /\ pc = "report"
  /\ reported_handles' = Params
  /\ pc' = "update"
  /\ UNCHANGED <<appVars, paramVars, idx, booting, desired_handles, deltaVars, ackVars,
                 netVars, pubFails, missed>>

\* esp_cloud_handle_work_queue(), then esp_cloud_platform_wait()
LoopTop ==
  /\ pc = "loop"
  /\ pc' = "yield"
  /\ UNCHANGED <<appVars, paramVars, loopVars, deltaVars, ackVars, netVars, pubFails, missed>>

\* The waits end when no update is in progress.  (They also go on while the client
\* reconnects, without touching anything: a longer stay in the yield.  Impatient: a mutant.)
Impatient == TRUE
NoneInProgress == ~shadowUpdateInProgress

\* The wait of report_state ...
LeaveBootWait ==
  /\ pc = "yield" /\ booting
  /\ NoneInProgress
  /\ booting' = FALSE
  /\ pc' = "loop"
  /\ UNCHANGED <<appVars, paramVars, idx, reported_handles, desired_handles, deltaVars,
                 ackVars, netVars, pubFails, missed>>

\* ... and that of platform_wait, after which the scan of the table begins
LeaveWait ==
  /\ pc = "yield" /\ ~booting
  /\ NoneInProgress
  /\ reported_handles' = {} /\ desired_handles' = {}
  /\ idx' = 1
  /\ pc' = "scan"
  /\ UNCHANGED <<appVars, paramVars, booting, deltaVars, ackVars, netVars, pubFails, missed>>

LocalDue == LOCAL_CHANGE \in flags[idx]

\* A local change wins over a remote one.  (NeverDue: a mutant.)
NeverDue  == FALSE
RemoteDue == ~LocalDue /\ REMOTE_CHANGE \in flags[idx]

\* Reads the flags of parameter idx
ScanFlags ==
  /\ pc = "scan"
  /\ pc' = IF LocalDue THEN "copy" ELSE "clear"
  /\ LET due == IF RemoteDue THEN {idx} ELSE {}
     IN /\ reported_handles' = reported_handles \cup due
        /\ desired_handles'  = desired_handles \cup due
  /\ UNCHANGED <<appVars, paramVars, idx, booting, deltaVars, ackVars, netVars, pubFails,
                 missed>>

\* get_new_value() copies booleans only
NewValue(p) == IF p \in BoolParams THEN val[p] ELSE pData[p]

ScanCopy ==
  /\ pc = "copy"
  /\ pData' = [pData EXCEPT ![idx] = NewValue(idx)]
  /\ reported_handles' = reported_handles \cup {idx}
  /\ desired_handles'  = desired_handles \cup {idx}
  /\ pc' = "clear"
  /\ missed' = IF NewValue(idx) = val[idx] THEN missed ELSE missed \cup {idx}
  /\ UNCHANGED <<appVars, output, val, flags, idx, booting, deltaVars, ackVars, netVars,
                 pubFails>>

\* flags = 0, whatever was set since they were read
ScanClear ==
  /\ pc = "clear"
  /\ flags' = [flags EXCEPT ![idx] = {}]
  /\ LET captured == idx \in reported_handles /\ pData[idx] = val[idx]
     IN missed' = IF LOCAL_CHANGE \in flags[idx] /\ ~captured
                  THEN missed \cup {idx} ELSE missed
  /\ IF MoreParams
     THEN idx' = idx + 1 /\ pc' = "scan"
     ELSE idx' = idx /\ pc' = IF reported_handles = {} THEN "loop" ELSE "update"
  /\ UNCHANGED <<appVars, output, val, pData, booting, reported_handles, desired_handles,
                 deltaVars, ackVars, netVars, pubFails>>

(***************************************************************************)
(* shadow_update(): its three outcomes.  The caller ignores the result.    *)
(***************************************************************************)
DocFits == Cardinality(reported_handles) + Cardinality(desired_handles) <= DocCapacity

AfterUpdate == pc' = IF booting THEN "yield" ELSE "loop"

\* The document is longer than the buffer: return before anything is sent, and as
\* nothing is in progress, report_state does not wait.
UpdateTooLong ==
  /\ pc = "update"
  /\ ~DocFits
  /\ pc' = "loop" /\ booting' = FALSE
  /\ missed' = missed \cup reported_handles
  /\ UNCHANGED <<appVars, paramVars, idx, reported_handles, desired_handles, deltaVars,
                 ackVars, netVars, pubFails>>

Section(handles) == [p \in Params |-> IF p \in handles THEN pData[p] ELSE NoVal]

UpdateSent ==
  /\ pc = "update"
  /\ DocFits
  /\ toCloud' = Append(toCloud, [id |-> nextId, reported |-> Section(reported_handles),
                                 desired |-> Section(desired_handles)])
  /\ awaiting' = awaiting \cup {nextId}
  /\ nextId' = nextId + 1
  /\ shadowUpdateInProgress' = TRUE
  /\ AfterUpdate
  /\ UNCHANGED <<appVars, paramVars, loopVars, deltaVars, toDevice, shadow, requests,
                 netFaults, pubFails, missed>>

\* aws_iot_shadow_update() fails: no callback is registered, but the flag is set.
UpdateFails ==
  /\ pc = "update"
  /\ DocFits
  /\ pubFails < MaxPubFails
  /\ pubFails' = pubFails + 1
  /\ shadowUpdateInProgress' = TRUE
  /\ AfterUpdate
  /\ missed' = missed \cup reported_handles
  /\ UNCHANGED <<appVars, paramVars, loopVars, deltaVars, awaiting, nextId, netVars>>

(***************************************************************************)
(* Callbacks inside a yield.                                               *)
(***************************************************************************)

\* update_status_callback(): shadowUpdateInProgress after an answer; any answer ends
\* the update.  (FlagAfterSuccess: a mutant.)
FlagAfterSuccess(status) == status # "accepted"
FlagAfter(status) == FALSE

RecvAnswer ==
  /\ pc = "yield"
  /\ toDevice # <<>> /\ Head(toDevice).kind = "answer"
  /\ toDevice' = Tail(toDevice)
  /\ LET answer == Head(toDevice)
     IN /\ awaiting' = awaiting \ {answer.id}
        /\ shadowUpdateInProgress' =
             IF answer.id \in awaiting THEN FlagAfter(answer.status)
                                       ELSE shadowUpdateInProgress
  /\ UNCHANGED <<appVars, paramVars, pc, loopVars, deltaVars, nextId, toCloud, shadow,
                 requests, netFaults, pubFails, missed>>

InFlight(id) ==
  \/ \E k \in 1 .. Len(toCloud) : toCloud[k].id = id
  \/ \E k \in 1 .. Len(toDevice) : toDevice[k].kind = "answer" /\ toDevice[k].id = id

\* The same callback with SHADOW_ACK_TIMEOUT, 4 s after the update
AnswerTimeout(id) ==
  /\ pc = "yield"
  /\ id \in awaiting
  /\ IF InFlight(id) THEN netFaults < MaxNetFaults /\ netFaults' = netFaults + 1
                     ELSE netFaults' = netFaults
  /\ awaiting' = awaiting \ {id}
  /\ shadowUpdateInProgress' = FlagAfter("timeout")
  /\ UNCHANGED <<appVars, paramVars, pc, loopVars, deltaVars, nextId, toCloud, toDevice,
                 shadow, requests, pubFails, missed>>

RecvDelta ==
  /\ pc = "yield"
  /\ toDevice # <<>> /\ Head(toDevice).kind = "delta"
  /\ toDevice' = Tail(toDevice)
  /\ delta' = Head(toDevice).doc
  /\ pc' = "delta"
  /\ UNCHANGED <<appVars, paramVars, loopVars, reg, ackVars, toCloud, shadow, requests,
                 netFaults, pubFails, missed>>

\* The value the callback makes the application drive.  (KeepOutput: a mutant.)
KeepOutput(p) == output[p]
Applied(p) == delta[p]

\* aws_common_delta_callback(): the client has stored the value in pData; the
\* callback applies it.  A local change still to be reported will win over it.
DeltaApply(p) ==
  /\ pc = "delta" /\ delta[p] # NoVal
  /\ p \in Controllable /\ delta[p] \notin Refused
  /\ pData' = [pData EXCEPT ![p] = delta[p]]
  /\ output' = [output EXCEPT ![p] = Applied(p)]
  /\ delta' = [delta EXCEPT ![p] = NoVal]
  /\ reg' = [p |-> p, flags |-> {}]
  /\ pc' = "load"
  /\ LET stale == \/ LOCAL_CHANGE \in flags[p] /\ val[p] # delta[p]
                  \/ app.pc \in {"val", "load", "store"} /\ app.p = p
                     /\ app.new_state # delta[p]
     IN missed' = IF stale THEN missed \cup {p} ELSE missed \ {p}
  /\ UNCHANGED <<appVars, val, flags, loopVars, ackVars, netVars, pubFails>>

\* No callback, or it returned an error: pData keeps the value all the same.
DeltaRefused(p) ==
  /\ pc = "delta" /\ delta[p] # NoVal
  /\ p \notin Controllable \/ delta[p] \in Refused
  /\ pData' = [pData EXCEPT ![p] = delta[p]]
  /\ delta' = [delta EXCEPT ![p] = NoVal]
  /\ missed' = IF REMOTE_CHANGE \in flags[p] /\ delta[p] # output[p]
               THEN missed \cup {p} ELSE missed
  /\ UNCHANGED <<appVars, output, val, flags, pc, loopVars, reg, ackVars, netVars, pubFails>>

\* param->flags |= CLOUD_PARAM_FLAG_REMOTE_CHANGE
DeltaLoadFlags ==
  /\ pc = "load"
  /\ reg' = [reg EXCEPT !.flags = flags[reg.p]]
  /\ pc' = "store"
  /\ UNCHANGED <<appVars, paramVars, loopVars, delta, ackVars, netVars, pubFails, missed>>

DeltaStoreFlags ==
  /\ pc = "store"
  /\ flags' = [flags EXCEPT ![reg.p] = SetFlag(reg.flags, REMOTE_CHANGE)]
  /\ pc' = "delta"
  /\ LET dropped == LOCAL_CHANGE \in flags[reg.p] \ reg.flags
     IN missed' = IF dropped /\ val[reg.p] # pData[reg.p]
                  THEN missed \cup {reg.p} ELSE missed
  /\ UNCHANGED <<appVars, output, val, pData, loopVars, deltaVars, ackVars, netVars, pubFails>>

DeltaDone ==
  /\ pc = "delta" /\ delta = Nothing
  /\ pc' = "yield"
  /\ UNCHANGED <<appVars, paramVars, loopVars, deltaVars, ackVars, netVars, pubFails, missed>>

CloudLoop == \/ Register \/ ReportState \/ LoopTop \/ LeaveBootWait \/ LeaveWait
             \/ ScanFlags \/ ScanCopy \/ ScanClear
             \/ UpdateTooLong \/ UpdateSent

Callbacks == \/ RecvAnswer \/ RecvDelta
             \/ \E id \in awaiting : AnswerTimeout(id)
             \/ \E p \in Params : DeltaApply(p) \/ DeltaRefused(p)
             \/ DeltaLoadFlags \/ DeltaStoreFlags \/ DeltaDone

(***************************************************************************)
(* The shadow service, its users and the network (external).               *)
(***************************************************************************)
Merge(old, new) == [p \in Params |-> IF new[p] = NoVal THEN old[p] ELSE new[p]]

Difference(s) == [p \in Params |->
                    IF s.desired[p] # s.reported[p] THEN s.desired[p] ELSE NoVal]

DeltaOf(s) == IF Difference(s) = Nothing
              THEN <<>> ELSE <<[kind |-> "delta", doc |-> Difference(s)]>>

Answer(id, status) == [kind |-> "answer", id |-> id, status |-> status]

ServiceAccepts ==
  /\ toCloud # <<>>
  /\ LET doc == Head(toCloud)
         new == [desired  |-> Merge(shadow.desired, doc.desired),
                 reported |-> Merge(shadow.reported, doc.reported)]
     IN /\ shadow' = new
        /\ toDevice' = Append(toDevice, Answer(doc.id, "accepted")) \o DeltaOf(new)
  /\ toCloud' = Tail(toCloud)
  /\ UNCHANGED <<appVars, paramVars, pc, loopVars, deltaVars, ackVars, requests, netFaults,
                 pubFails, missed>>

Mentioned(doc) == {p \in Params : doc.reported[p] # NoVal}

ServiceRejects ==
  /\ toCloud # <<>>
  /\ netFaults < MaxNetFaults /\ netFaults' = netFaults + 1
  /\ toDevice' = Append(toDevice, Answer(Head(toCloud).id, "rejected"))
  /\ toCloud' = Tail(toCloud)
  /\ missed' = missed \cup Mentioned(Head(toCloud))
  /\ UNCHANGED <<appVars, paramVars, pc, loopVars, deltaVars, ackVars, shadow, requests,
                 pubFails>>

LoseUpdate ==
  /\ toCloud # <<>>
  /\ netFaults < MaxNetFaults /\ netFaults' = netFaults + 1
  /\ toCloud' = Tail(toCloud)
  /\ missed' = missed \cup Mentioned(Head(toCloud))
  /\ UNCHANGED <<appVars, paramVars, pc, loopVars, deltaVars, ackVars, toDevice, shadow,
                 requests, pubFails>>

LoseToDevice ==
  /\ toDevice # <<>>
  /\ netFaults < MaxNetFaults /\ netFaults' = netFaults + 1
  /\ toDevice' = Tail(toDevice)
  /\ UNCHANGED <<appVars, paramVars, pc, loopVars, deltaVars, ackVars, toCloud, shadow,
                 requests, pubFails, missed>>

UserRequest(p, v) ==
  /\ requests < MaxRequests /\ requests' = requests + 1
  /\ LET new == [shadow EXCEPT !.desired[p] = v]
     IN shadow' = new /\ toDevice' = toDevice \o DeltaOf(new)
  /\ UNCHANGED <<appVars, paramVars, pc, loopVars, deltaVars, ackVars, toCloud, netFaults,
                 pubFails, missed>>

Network == \/ ServiceAccepts \/ ServiceRejects \/ LoseUpdate \/ LoseToDevice
           \/ \E p \in Params, v \in Values : UserRequest(p, v)

(***************************************************************************)
(* The shadow may hold anything from before the boot.                      *)
(***************************************************************************)
Init ==
  /\ output \in [Params -> Values]
  /\ val = output /\ pData = output
  /\ flags = [p \in Params |-> {}]
  /\ app = [pc |-> "idle", p |-> 1, new_state |-> output[1], flags |-> {}]
  /\ pc = "register" /\ idx = 1 /\ booting = TRUE
  /\ delta = Nothing /\ reg = [p |-> 1, flags |-> {}]
  /\ reported_handles = {} /\ desired_handles = {}
  /\ shadowUpdateInProgress = FALSE /\ awaiting = {} /\ nextId = 1
  /\ toCloud = <<>> /\ toDevice = <<>>
  /\ \E d, r \in Doc : shadow = [desired |-> d, reported |-> r]
  /\ presses = 0 /\ requests = 0 /\ netFaults = 0 /\ pubFails = 0
  /\ missed = {}

Next == App \/ CloudLoop \/ UpdateFails \/ Callbacks \/ Network

Spec == Init /\ [][Next]_vars

(***************************************************************************)
(* Fairness: the tasks are scheduled, the service answers, and TCP         *)
(* delivers what is not lost.                                              *)
(***************************************************************************)
Fairness == /\ WF_vars(AppSetOutput \/ AppSetVal \/ AppLoadFlags \/ AppStoreFlags)
            /\ WF_vars(CloudLoop)
            /\ WF_vars(Callbacks)
            /\ SF_vars(RecvAnswer) /\ SF_vars(RecvDelta)
            /\ WF_vars(ServiceAccepts)

FairSpec == Spec /\ Fairness

-----------------------------------------------------------------------------
(***************************************************************************)
(* Properties                                                              *)
(***************************************************************************)
Message == [kind : {"answer"}, id : Nat, status : {"accepted", "rejected"}]
           \cup [kind : {"delta"}, doc : Doc]
Update  == [id : Nat, reported : Doc, desired : Doc]

\* Types of the state.
TypeOK ==
  /\ output \in [Params -> Values]
  /\ val \in [Params -> Values]
  /\ flags \in [Params -> Flags]
  /\ pData \in [Params -> Values]
  /\ app \in [pc : {"idle", "set", "val", "load", "store"}, p : Params,
              new_state : Values, flags : Flags]
  /\ pc \in {"register", "report", "update", "loop", "yield", "scan", "copy", "clear",
             "delta", "load", "store"}
  /\ idx \in Params /\ booting \in BOOLEAN
  /\ delta \in Doc
  /\ reg \in [p : Params, flags : Flags]
  /\ reported_handles \in SUBSET Params /\ desired_handles \in SUBSET Params
  /\ shadowUpdateInProgress \in BOOLEAN
  /\ awaiting \in SUBSET Nat /\ nextId \in Nat
  /\ toCloud \in Seq(Update) /\ toDevice \in Seq(Message)
  /\ shadow \in [desired : Doc, reported : Doc]
  /\ presses \in Nat /\ requests \in Nat /\ netFaults \in Nat /\ pubFails \in Nat
  /\ missed \in SUBSET Params

\* The flag shadowUpdateInProgress does its work: an update is sent only when the
\* MQTT client has no unanswered one, whatever is lost or late, and outside a failed
\* aws_iot_shadow_update() the flag is set exactly while an answer is awaited, so
\* that some callback will clear it.
OneUpdateAtATime ==
  /\ pc = "update" => awaiting = {}
  /\ \A a, b \in awaiting : a = b
  /\ awaiting # {} => shadowUpdateInProgress
  /\ shadowUpdateInProgress /\ awaiting = {} => pubFails > 0

\* The device is at rest: nothing is being changed, pending, sent or applied.
Quiet ==
  /\ app.pc = "idle" /\ pc \in {"loop", "yield"} /\ ~booting
  /\ toCloud = <<>>
  /\ \A p \in Params : flags[p] = {}

\* At rest, the shadow reports what the device drives for every parameter, unless the
\* last change of it was lost in one of the ways `missed' records: flags cleared over
\* a change, a flag lost between load and store, a stale val sent over a remote value,
\* a value refused or not copied, an update not sent, lost or rejected.  There is no
\* other way to diverge, and the next change of the parameter ends each of them.
QuietMeansReported ==
  Quiet => \A p \in Params \ missed : shadow.reported[p] = output[p]

\* The same without exception: what esp_cloud.h says of a local update.
LocalChangeReported == Quiet => \A p \in Params : shadow.reported[p] = output[p]

\* Local and remote changes are reported eventually, unless known to be lost.
Reported(p) == p \in missed \/ shadow.reported[p] = output[p]
EventuallyReported == <>[](\A p \in Params : Reported(p))

\* What users ask for and the device does end up equal when no message is lost.
Honoured(p) ==
  \/ netFaults > 0 \/ p \in missed \/ p \notin Controllable
  \/ shadow.desired[p] \in Refused \cup {NoVal, output[p]}
EventuallyHonoured == <>[](\A p \in Params : Honoured(p))

\* The cloud task always comes back to its work queue.
WorkQueueServed == []<>(pc = "loop")
=============================================================================
