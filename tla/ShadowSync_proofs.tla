-------------------------- MODULE ShadowSync_proofs --------------------------
(***************************************************************************)
(* Theorems about ShadowSync, for every number of parameters, every set of *)
(* values and every bound.                                                 *)
(***************************************************************************)
EXTENDS ShadowSync, TLAPS

\* The table's indices.
LEMMA Indices ==
  /\ 1 \in Params
  /\ \A i \in Params : i < NumParams => i + 1 \in Params
BY ParamsAssumption DEF Params

\* A document's operators give documents.
LEMMA DocOps ==
  /\ Nothing \in Doc
  /\ \A handles \in SUBSET Params :
       pData \in [Params -> Values] => Section(handles) \in Doc
  /\ \A old, new \in Doc : Merge(old, new) \in Doc
  /\ \A s \in [desired : Doc, reported : Doc] :
       /\ Difference(s) \in Doc
       /\ DeltaOf(s) \in Seq(Message)
<1>1. Nothing \in Doc
  BY DEF Nothing, Doc
<1>2. ASSUME NEW handles \in SUBSET Params, pData \in [Params -> Values]
      PROVE  Section(handles) \in Doc
  BY <1>2 DEF Section, Doc
<1>3. ASSUME NEW old \in Doc, NEW new \in Doc
      PROVE  Merge(old, new) \in Doc
  BY DEF Merge, Doc
<1>4. ASSUME NEW s \in [desired : Doc, reported : Doc]
      PROVE  Difference(s) \in Doc /\ DeltaOf(s) \in Seq(Message)
  <2>1. Difference(s) \in Doc
    BY DEF Difference, Doc
  <2>2. [kind |-> "delta", doc |-> Difference(s)] \in Message
    BY <2>1 DEF Message
  <2>3. QED
    BY <2>1, <2>2 DEF DeltaOf
<1>5. QED
  BY <1>1, <1>2, <1>3, <1>4
\* Sequences stay sequences of the same elements.
LEMMA Channels ==
  ASSUME NEW S, NEW s \in Seq(S), NEW t \in Seq(S), NEW e \in S
  PROVE  /\ Append(s, e) \in Seq(S)
         /\ s \o t \in Seq(S)
         /\ s # <<>> => Head(s) \in S /\ Tail(s) \in Seq(S)
OBVIOUS

\* Every answer is a message.
LEMMA Answers ==
  \A id \in Nat, status \in {"accepted", "rejected"} : Answer(id, status) \in Message
BY DEF Answer, Message

\* What a nonempty channel holds next.
LEMMA HeadTypes ==
  ASSUME TypeOK
  PROVE  /\ toCloud # <<>> => /\ Head(toCloud) \in Update
                              /\ Head(toCloud).id \in Nat
                              /\ Head(toCloud).desired \in Doc
                              /\ Head(toCloud).reported \in Doc
                              /\ Tail(toCloud) \in Seq(Update)
         /\ toDevice # <<>> => /\ Head(toDevice) \in Message
                               /\ Tail(toDevice) \in Seq(Message)
<1>1. toCloud \in Seq(Update) /\ toDevice \in Seq(Message)
  BY DEF TypeOK
<1>2. \A u \in Update : u.id \in Nat /\ u.desired \in Doc /\ u.reported \in Doc
  BY DEF Update
<1>3. QED
  BY <1>1, <1>2

\* Every step preserves the types.
LEMMA TypeStep == TypeOK /\ [Next]_vars => TypeOK'
<1> SUFFICES ASSUME TypeOK, [Next]_vars
             PROVE  TypeOK'
  OBVIOUS
<1> USE DEF TypeOK, Flags, LOCAL_CHANGE, REMOTE_CHANGE
<1>1. ASSUME NEW p \in Params, AppPress(p)
      PROVE  TypeOK'
  BY <1>1 DEF AppPress, paramVars, loopVars, deltaVars, ackVars, netVars
<1>2. CASE AppSetOutput
  BY <1>2 DEF AppSetOutput, loopVars, deltaVars, ackVars, netVars
<1>3. CASE AppSetVal
  BY <1>3 DEF AppSetVal, loopVars, deltaVars, ackVars, netVars
<1>4. CASE AppLoadFlags
  BY <1>4 DEF AppLoadFlags, paramVars, loopVars, deltaVars, ackVars, netVars
<1>5. CASE AppStoreFlags
  BY <1>5 DEF AppStoreFlags, SetFlag, loopVars, deltaVars, ackVars, netVars
<1>6. CASE Register
  BY <1>6, Indices DEF Register, MoreParams, appVars, deltaVars, ackVars, netVars
<1>7. CASE ReportState
  BY <1>7 DEF ReportState, appVars, paramVars, deltaVars, ackVars, netVars
<1>8. CASE LoopTop
  BY <1>8 DEF LoopTop, appVars, paramVars, loopVars, deltaVars, ackVars, netVars
<1>9. CASE LeaveBootWait
  BY <1>9 DEF LeaveBootWait, NoneInProgress, appVars, paramVars, deltaVars, ackVars, netVars
<1>10. CASE LeaveWait
  BY <1>10, Indices DEF LeaveWait, NoneInProgress, appVars, paramVars, deltaVars, ackVars, netVars
<1>11. CASE ScanFlags
  BY <1>11 DEF ScanFlags, LocalDue, RemoteDue, appVars, paramVars, deltaVars, ackVars, netVars
<1>12. CASE ScanCopy
  BY <1>12 DEF ScanCopy, NewValue, appVars, deltaVars, ackVars, netVars
<1>13. CASE ScanClear
  BY <1>13, Indices DEF ScanClear, MoreParams, appVars, deltaVars, ackVars, netVars
<1>14. CASE UpdateTooLong
  BY <1>14 DEF UpdateTooLong, appVars, paramVars, deltaVars, ackVars, netVars
<1>15. CASE UpdateSent
  <2>1. /\ Section(reported_handles) \in Doc
        /\ Section(desired_handles) \in Doc
    BY DocOps
  <2>2. [id |-> nextId, reported |-> Section(reported_handles),
         desired |-> Section(desired_handles)] \in Update
    BY <2>1 DEF Update
  <2>3. toCloud' \in Seq(Update)
    BY <1>15, <2>2 DEF UpdateSent
  <2>4. QED
    BY <1>15, <2>3 DEF UpdateSent, AfterUpdate, appVars, paramVars, loopVars, deltaVars
<1>16. CASE UpdateFails
  BY <1>16 DEF UpdateFails, AfterUpdate, appVars, paramVars, loopVars, deltaVars, netVars
<1>17. CASE RecvAnswer
  <2>1. toDevice' \in Seq(Message)
    BY <1>17, HeadTypes DEF RecvAnswer
  <2>2. shadowUpdateInProgress' \in BOOLEAN /\ awaiting' \in SUBSET Nat
    BY <1>17 DEF RecvAnswer, FlagAfter
  <2>3. QED
    BY <1>17, <2>1, <2>2 DEF RecvAnswer, appVars, paramVars, loopVars, deltaVars
<1>18. CASE RecvDelta
  <2>1. toDevice' \in Seq(Message)
    BY <1>18, HeadTypes DEF RecvDelta
  <2>2. delta' \in Doc
    BY <1>18, HeadTypes DEF RecvDelta, Message
  <2>3. QED
    BY <1>18, <2>1, <2>2 DEF RecvDelta, appVars, paramVars, loopVars, ackVars
<1>19. CASE DeltaLoadFlags
  BY <1>19 DEF DeltaLoadFlags, appVars, paramVars, loopVars, ackVars, netVars
<1>20. CASE DeltaStoreFlags
  BY <1>20 DEF DeltaStoreFlags, SetFlag, appVars, loopVars, deltaVars, ackVars, netVars
<1>21. CASE DeltaDone
  BY <1>21 DEF DeltaDone, appVars, paramVars, loopVars, deltaVars, ackVars, netVars
<1>22. CASE ServiceAccepts
  <2> DEFINE doc == Head(toCloud)
             new == [desired  |-> Merge(shadow.desired, doc.desired),
                     reported |-> Merge(shadow.reported, doc.reported)]
  <2>1. /\ doc.id \in Nat /\ doc.desired \in Doc /\ doc.reported \in Doc
        /\ toCloud' \in Seq(Update)
    BY <1>22, HeadTypes DEF ServiceAccepts
  <2>2. new \in [desired : Doc, reported : Doc]
    BY <2>1, DocOps
  <2>3. Answer(doc.id, "accepted") \in Message /\ DeltaOf(new) \in Seq(Message)
    BY <2>1, <2>2, DocOps, Answers
  <2>4. Append(toDevice, Answer(doc.id, "accepted")) \in Seq(Message)
    BY <2>3, Channels
  <2>5. Append(toDevice, Answer(doc.id, "accepted")) \o DeltaOf(new) \in Seq(Message)
    BY <2>3, <2>4, Channels
  <2>6. shadow' = new
        /\ toDevice' = Append(toDevice, Answer(doc.id, "accepted")) \o DeltaOf(new)
    BY <1>22 DEF ServiceAccepts
  <2> HIDE DEF new, doc
  <2>7. QED
    BY <1>22, <2>1, <2>2, <2>5, <2>6
       DEF ServiceAccepts, appVars, paramVars, loopVars, deltaVars, ackVars
<1>23. CASE ServiceRejects
  BY <1>23, HeadTypes, Answers
     DEF ServiceRejects, Mentioned, appVars, paramVars, loopVars, deltaVars, ackVars
<1>24. CASE LoseUpdate
  BY <1>24, HeadTypes
     DEF LoseUpdate, Mentioned, appVars, paramVars, loopVars, deltaVars, ackVars
<1>25. CASE LoseToDevice
  BY <1>25 DEF LoseToDevice, appVars, paramVars, loopVars, deltaVars, ackVars
<1>26. ASSUME NEW p \in Params, DeltaApply(p)
      PROVE  TypeOK'
  BY <1>26 DEF DeltaApply, appVars, loopVars, ackVars, netVars, Applied, Doc
<1>27. ASSUME NEW p \in Params, DeltaRefused(p)
      PROVE  TypeOK'
  BY <1>27 DEF DeltaRefused, appVars, loopVars, ackVars, netVars, Doc
<1>28. ASSUME NEW id \in awaiting, AnswerTimeout(id)
      PROVE  TypeOK'
  <2>1. netFaults' \in Nat
    BY <1>28 DEF AnswerTimeout
  <2>2. QED
    BY <1>28, <2>1 DEF AnswerTimeout, FlagAfter, appVars, paramVars, loopVars, deltaVars
<1>29. ASSUME NEW p \in Params, NEW v \in Values, UserRequest(p, v)
      PROVE  TypeOK'
  <2> DEFINE new == [shadow EXCEPT !.desired[p] = v]
  <2>1. new \in [desired : Doc, reported : Doc]
    BY DEF Doc
  <2>2. DeltaOf(new) \in Seq(Message)
    BY <2>1, DocOps
  <2>3. shadow' = new /\ toDevice' = toDevice \o DeltaOf(new)
    BY <1>29 DEF UserRequest
  <2>4. toDevice' \in Seq(Message)
    BY <2>2, <2>3, Channels
  <2> HIDE DEF new
  <2>5. /\ requests' \in Nat
        /\ UNCHANGED <<appVars, paramVars, pc, loopVars, deltaVars, ackVars, toCloud,
                       netFaults, pubFails, missed>>
    BY <1>29 DEF UserRequest
  <2>6. QED
    BY <2>1, <2>3, <2>4, <2>5 DEF appVars, paramVars, loopVars, deltaVars, ackVars
<1>30. CASE UNCHANGED vars
  BY <1>30 DEF vars, appVars, paramVars, loopVars, deltaVars, ackVars, netVars
<1>31. QED
  BY <1>1, <1>2, <1>3, <1>4, <1>5, <1>6, <1>7, <1>8, <1>9, <1>10, <1>11, <1>12, <1>13, <1>14, <1>15, <1>16, <1>17, <1>18, <1>19, <1>20, <1>21, <1>22, <1>23, <1>24, <1>25, <1>26, <1>27, <1>28, <1>29, <1>30
     DEF Next, App, CloudLoop, Callbacks, Network

\* The state always has the types of TypeOK.
THEOREM TypeCorrect == Spec => []TypeOK
<1>1. Init => TypeOK
  <2> SUFFICES ASSUME Init
               PROVE  TypeOK
    OBVIOUS
  <2>1. /\ output \in [Params -> Values] /\ val = output /\ pData = output
        /\ flags \in [Params -> Flags]
        /\ app \in [pc : {"idle"}, p : Params, new_state : Values, flags : Flags]
        /\ reg \in [p : Params, flags : Flags]
    BY Indices DEF Init, Flags
  <2>2. delta \in Doc /\ shadow \in [desired : Doc, reported : Doc]
    BY DocOps DEF Init
  <2>3. toCloud \in Seq(Update) /\ toDevice \in Seq(Message)
    BY DEF Init
  <2>4. QED
    BY <2>1, <2>2, <2>3, Indices DEF Init, TypeOK
<1>2. QED
  BY <1>1, TypeStep, PTL DEF Spec

-----------------------------------------------------------------------------
(***************************************************************************)
(* One update at a time.                                                   *)
(***************************************************************************)

\* While the table is registered, scanned or sent, no answer is awaited.
AwaitInv ==
  /\ OneUpdateAtATime
  /\ pc \in {"register", "report", "scan", "copy", "clear", "update"} => awaiting = {}

\* Steps that leave alone what AwaitInv reads, but for the program counter.
LEMMA AwaitFrame ==
  ASSUME AwaitInv, UNCHANGED <<shadowUpdateInProgress, awaiting, pubFails>>,
         \/ pc' = pc
         \/ pc \in {"register", "report", "scan", "copy", "clear"}
         \/ pc' \in {"loop", "yield", "delta", "load", "store"}
         \/ ~shadowUpdateInProgress
  PROVE  AwaitInv'
BY DEF AwaitInv, OneUpdateAtATime

\* Every step preserves AwaitInv: an update is sent only after a wait that ended with
\* shadowUpdateInProgress false, hence with no answer awaited.
LEMMA AwaitStep == TypeOK /\ AwaitInv /\ [Next]_vars => AwaitInv'
<1> SUFFICES ASSUME TypeOK, AwaitInv, [Next]_vars
             PROVE  AwaitInv'
  OBVIOUS
<1> USE DEF ackVars
<1>1. CASE App
  <2>1. UNCHANGED <<pc, ackVars, pubFails>>
    BY <1>1 DEF App, AppPress, AppSetOutput, AppSetVal, AppLoadFlags, AppStoreFlags
  <2>2. QED
    BY <2>1, AwaitFrame
<1>2. CASE Register \/ ReportState \/ LoopTop \/ UpdateTooLong
  BY <1>2, AwaitFrame DEF Register, ReportState, LoopTop, UpdateTooLong
<1>3. CASE LeaveBootWait \/ LeaveWait
  BY <1>3, AwaitFrame DEF LeaveBootWait, LeaveWait, NoneInProgress
<1>4. CASE ScanFlags \/ ScanCopy \/ ScanClear
  BY <1>4, AwaitFrame DEF ScanFlags, ScanCopy, ScanClear
<1>5. CASE UpdateSent
  <2>1. awaiting' = {nextId} /\ shadowUpdateInProgress' = TRUE /\ pc' \in {"yield", "loop"}
    BY <1>5 DEF UpdateSent, AfterUpdate, AwaitInv, OneUpdateAtATime
  <2>2. QED
    BY <2>1 DEF AwaitInv, OneUpdateAtATime
<1>6. CASE UpdateFails
  <2>1. /\ awaiting' = awaiting /\ shadowUpdateInProgress' = TRUE
        /\ pubFails' = pubFails + 1 /\ pc' \in {"yield", "loop"}
    BY <1>6 DEF UpdateFails, AfterUpdate
  <2>2. pubFails' > 0
    BY <2>1 DEF TypeOK
  <2>3. QED
    BY <2>1, <2>2 DEF AwaitInv, OneUpdateAtATime
<1>7. CASE RecvAnswer
  <2>1. pc' = "yield" /\ pubFails' = pubFails
    BY <1>7 DEF RecvAnswer
  <2>2. CASE Head(toDevice).id \in awaiting
    <3>1. awaiting' = {} /\ shadowUpdateInProgress' = FALSE
      BY <1>7, <2>2 DEF RecvAnswer, FlagAfter, AwaitInv, OneUpdateAtATime
    <3>2. QED
      BY <2>1, <3>1 DEF AwaitInv, OneUpdateAtATime
  <2>3. CASE Head(toDevice).id \notin awaiting
    <3>1. UNCHANGED <<awaiting, shadowUpdateInProgress>>
      BY <1>7, <2>3 DEF RecvAnswer
    <3>2. QED
      BY <2>1, <3>1, AwaitFrame
  <2>4. QED
    BY <2>2, <2>3
<1>8. ASSUME NEW id \in awaiting, AnswerTimeout(id)
      PROVE  AwaitInv'
  <2>1. /\ pc' = "yield" /\ pubFails' = pubFails
        /\ awaiting' = {} /\ shadowUpdateInProgress' = FALSE
    BY <1>8 DEF AnswerTimeout, FlagAfter, AwaitInv, OneUpdateAtATime
  <2>2. QED
    BY <2>1 DEF AwaitInv, OneUpdateAtATime
<1>9. CASE RecvDelta \/ DeltaLoadFlags \/ DeltaStoreFlags \/ DeltaDone
  BY <1>9, AwaitFrame DEF RecvDelta, DeltaLoadFlags, DeltaStoreFlags, DeltaDone
<1>10. ASSUME NEW p \in Params, DeltaApply(p) \/ DeltaRefused(p)
       PROVE  AwaitInv'
  BY <1>10, AwaitFrame DEF DeltaApply, DeltaRefused
<1>11. CASE Network
  <2>1. UNCHANGED <<pc, ackVars, pubFails>>
    BY <1>11 DEF Network, ServiceAccepts, ServiceRejects, LoseUpdate, LoseToDevice, UserRequest
  <2>2. QED
    BY <2>1, AwaitFrame
<1>12. CASE UNCHANGED vars
  BY <1>12, AwaitFrame DEF vars
<1>13. QED
  BY <1>1, <1>2, <1>3, <1>4, <1>5, <1>6, <1>7, <1>8, <1>9, <1>10, <1>11, <1>12
     DEF Next, CloudLoop, Callbacks

\* At most one update of the shadow is unanswered, none is sent while it is, and
\* shadowUpdateInProgress is set without an answer to wait for only after a failed
\* aws_iot_shadow_update().
THEOREM OneUpdate == Spec => []OneUpdateAtATime
<1>1. Init => AwaitInv
  BY DEF Init, AwaitInv, OneUpdateAtATime
<1>2. AwaitInv => OneUpdateAtATime
  BY DEF AwaitInv
<1>3. QED
  BY <1>1, <1>2, AwaitStep, TypeCorrect, PTL DEF Spec

-----------------------------------------------------------------------------
(***************************************************************************)
(* What is driven will be reported.                                        *)
(*                                                                         *)
(* The value the service will hold of p once everything under way has      *)
(* arrived waits in one place, the most recent of: the application task    *)
(* about to set the flag; val, under a local change; pData, under a remote *)
(* one or taken for the next update; the updates in flight; the service.   *)
(***************************************************************************)

\* The application task has changed the output of p and not yet set the flag.
Changing(p) == app.p = p /\ app.pc \in {"val", "load", "store"}

\* pData of p goes into the next update even with no flag set (any more).
Taken(p) == \/ p \in reported_handles /\ pc \in {"scan", "copy", "clear", "update"}
            \/ pc = "report"
            \/ pc = "register" /\ p < idx

\* Once the updates in flight have arrived, the service reports what p drives.
Mentions(k, p) == toCloud[k].reported[p] # NoVal
Arriving(p) ==
  \/ \E k \in 1 .. Len(toCloud) :
       /\ toCloud[k].reported[p] = output[p]
       /\ \A j \in k + 1 .. Len(toCloud) : ~Mentions(j, p)
  \/ /\ shadow.reported[p] = output[p]
     /\ \A j \in 1 .. Len(toCloud) : ~Mentions(j, p)

\* A delta for p is applied; its flag is about to be set.
Applying(p) == pc \in {"load", "store"} /\ reg.p = p

WillReport(p) ==
  IF Changing(p) THEN app.new_state = output[p] /\ (app.pc # "val" => val[p] = output[p])
  ELSE IF LOCAL_CHANGE \in flags[p] THEN val[p] = output[p]
  ELSE IF REMOTE_CHANGE \in flags[p] \/ Applying(p) THEN pData[p] = output[p]
  ELSE IF Taken(p) THEN pData[p] = output[p]
  ELSE IF pc = "register" THEN val[p] = output[p]
  ELSE Arriving(p)

ReportInv == \A p \in Params \ missed : WillReport(p)

\* A flag the cloud task has seen stays until the cloud task clears it.
FlagInv ==
  /\ pc = "copy" => LOCAL_CHANGE \in flags[idx]
  /\ pc = "clear" /\ idx \notin reported_handles /\ REMOTE_CHANGE \in flags[idx]
       => LOCAL_CHANGE \in flags[idx]
  /\ pc = "store" /\ LOCAL_CHANGE \in reg.flags => LOCAL_CHANGE \in flags[reg.p]

\* Every step preserves FlagInv.
LEMMA FlagStep == TypeOK /\ FlagInv /\ [Next]_vars => FlagInv'
<1> SUFFICES ASSUME TypeOK, FlagInv, [Next]_vars
             PROVE  FlagInv'
  OBVIOUS
<1> USE DEF FlagInv, paramVars, loopVars, deltaVars
<1>1. CASE AppStoreFlags
  BY <1>1 DEF AppStoreFlags, SetFlag, TypeOK
<1>2. CASE App /\ ~AppStoreFlags
  BY <1>2 DEF App, AppPress, AppSetOutput, AppSetVal, AppLoadFlags
<1>3. CASE Register \/ ReportState \/ LoopTop \/ LeaveBootWait \/ LeaveWait
  BY <1>3 DEF Register, ReportState, LoopTop, LeaveBootWait, LeaveWait
<1>4. CASE ScanFlags
  BY <1>4 DEF ScanFlags, LocalDue, RemoteDue
<1>5. CASE ScanCopy
  BY <1>5 DEF ScanCopy
<1>6. CASE ScanClear
  BY <1>6 DEF ScanClear
<1>7. CASE UpdateTooLong \/ UpdateSent \/ UpdateFails
  BY <1>7 DEF UpdateTooLong, UpdateSent, UpdateFails, AfterUpdate
<1>8. CASE Callbacks
  BY <1>8 DEF Callbacks, RecvAnswer, AnswerTimeout, RecvDelta, DeltaApply, DeltaRefused,
     DeltaLoadFlags, DeltaStoreFlags, DeltaDone, TypeOK
<1>9. CASE Network
  BY <1>9 DEF Network, ServiceAccepts, ServiceRejects, LoseUpdate, LoseToDevice, UserRequest
<1>10. CASE UNCHANGED vars
  BY <1>10 DEF vars
<1>11. QED
  BY <1>1, <1>2, <1>3, <1>4, <1>5, <1>6, <1>7, <1>8, <1>9, <1>10 DEF Next, CloudLoop

\* No remote change is made before the table is registered, and val keeps what the
\* application stored until the flag is set.
AppInv ==
  /\ pc = "register" => \A p \in Params : REMOTE_CHANGE \notin flags[p] \cup app.flags
  /\ app.pc \in {"load", "store"} => val[app.p] = app.new_state

\* Every step preserves AppInv.
LEMMA AppStep == TypeOK /\ AppInv /\ [Next]_vars => AppInv'
<1> SUFFICES ASSUME TypeOK, AppInv, [Next]_vars
             PROVE  AppInv'
  OBVIOUS
<1> USE DEF AppInv, appVars, paramVars
<1>1. CASE AppStoreFlags
  BY <1>1 DEF AppStoreFlags, SetFlag, TypeOK, LOCAL_CHANGE, REMOTE_CHANGE
<1>2. ASSUME NEW p \in Params, AppPress(p)
      PROVE  AppInv'
  BY <1>2 DEF AppPress
<1>3. CASE AppSetOutput \/ AppLoadFlags
  BY <1>3 DEF AppSetOutput, AppLoadFlags, TypeOK
<1>4. CASE AppSetVal
  BY <1>4 DEF AppSetVal, TypeOK
<1>5. CASE Register \/ ReportState \/ LoopTop \/ LeaveBootWait \/ LeaveWait
  BY <1>5 DEF Register, ReportState, LoopTop, LeaveBootWait, LeaveWait
<1>6. CASE ScanFlags \/ ScanCopy
  BY <1>6 DEF ScanFlags, ScanCopy
<1>7. CASE ScanClear
  <2>1. pc' # "register" /\ UNCHANGED <<app, val>>
    BY <1>7 DEF ScanClear
  <2>2. QED
    BY <2>1
<1>8. CASE UpdateTooLong \/ UpdateSent \/ UpdateFails
  BY <1>8 DEF UpdateTooLong, UpdateSent, UpdateFails, AfterUpdate
<1>9. CASE Callbacks
  BY <1>9 DEF Callbacks, RecvAnswer, AnswerTimeout, RecvDelta, DeltaApply, DeltaRefused,
     DeltaLoadFlags, DeltaStoreFlags, DeltaDone
<1>10. CASE Network
  BY <1>10 DEF Network, ServiceAccepts, ServiceRejects, LoseUpdate, LoseToDevice, UserRequest
<1>11. CASE UNCHANGED vars
  BY <1>11 DEF vars
<1>12. QED
  BY <1>1, <1>2, <1>3, <1>4, <1>5, <1>6, <1>7, <1>8, <1>9, <1>10, <1>11
     DEF Next, App, CloudLoop

\* What arrives is decided by the channel, the service and what is driven.
LEMMA ArrivingFrame ==
  ASSUME NEW p \in Params, Arriving(p), toCloud' = toCloud,
         shadow'.reported = shadow.reported, output'[p] = output[p]
  PROVE  Arriving(p)'
BY DEF Arriving, Mentions

\* The update sent last decides for the parameters it mentions, and only for them.
LEMMA ArrivingSent ==
  ASSUME TypeOK, UpdateSent, NEW p \in Params,
         IF p \in reported_handles THEN pData[p] = output[p] ELSE Arriving(p)
  PROVE  Arriving(p)'
<1> DEFINE new == [id |-> nextId, reported |-> Section(reported_handles),
                   desired |-> Section(desired_handles)]
           n == Len(toCloud)
<1>1. /\ toCloud' = Append(toCloud, new) /\ UNCHANGED <<shadow, output>>
  BY DEF UpdateSent, paramVars
<1>2. toCloud \in Seq(Update) /\ n \in Nat
  BY DEF TypeOK
<1>3. /\ Len(toCloud') = n + 1
      /\ toCloud'[n + 1] = new
      /\ \A k \in 1 .. n : toCloud'[k] = toCloud[k]
  BY <1>1, <1>2
<1>4. new.reported[p] = IF p \in reported_handles THEN pData[p] ELSE NoVal
  BY DEF Section
<1> HIDE DEF new
<1>5. CASE p \in reported_handles
  BY <1>1, <1>2, <1>3, <1>4, <1>5 DEF Arriving, Mentions
<1>6. CASE p \notin reported_handles
  BY <1>1, <1>2, <1>3, <1>4, <1>6 DEF Arriving, Mentions
<1>7. QED
  BY <1>5, <1>6

\* What the channel holds behind its head.
LEMMA TailFacts ==
  ASSUME NEW S, NEW s \in Seq(S), s # <<>>
  PROVE  /\ Len(s) \in Nat \ {0}
         /\ Head(s) = s[1]
         /\ Len(Tail(s)) = Len(s) - 1
         /\ \A k \in 1 .. Len(s) - 1 : Tail(s)[k] = s[k + 1]
OBVIOUS

\* An update that leaves the channel decides nothing unless it is the last mention.
LEMMA ArrivingTail ==
  ASSUME TypeOK, toCloud # <<>>, NEW p \in Params, Arriving(p),
         toCloud' = Tail(toCloud), output'[p] = output[p],
         shadow'.reported[p] = IF Mentions(1, p) THEN toCloud[1].reported[p]
                                                 ELSE shadow.reported[p]
  PROVE  Arriving(p)'
<1> DEFINE n == Len(toCloud)
<1>1. toCloud \in Seq(Update)
  BY DEF TypeOK
<1>2. /\ n \in Nat \ {0} /\ Len(toCloud') = n - 1
      /\ \A k \in 1 .. n - 1 : toCloud'[k] = toCloud[k + 1]
  BY <1>1, TailFacts
<1> HIDE DEF n
<1>3. CASE \E k \in 2 .. n : /\ toCloud[k].reported[p] = output[p]
                             /\ \A j \in k + 1 .. n : ~Mentions(j, p)
  <2>1. PICK k \in 2 .. n : /\ toCloud[k].reported[p] = output[p]
                            /\ \A j \in k + 1 .. n : ~Mentions(j, p)
    BY <1>3
  <2>2. k - 1 \in 1 .. n - 1 /\ toCloud'[k - 1] = toCloud[k]
    BY <1>2, <2>1
  <2>3. ASSUME NEW j \in (k - 1) + 1 .. n - 1
        PROVE  ~Mentions(j, p)'
    BY <1>2, <2>1 DEF Mentions
  <2>4. QED
    BY <1>2, <2>1, <2>2, <2>3 DEF Arriving
<1>4. CASE ~ \E k \in 2 .. n : /\ toCloud[k].reported[p] = output[p]
                               /\ \A j \in k + 1 .. n : ~Mentions(j, p)
  <2>0. output[p] # NoVal /\ n = Len(toCloud)
    BY ValuesAssumption DEF TypeOK, n
  <2>1. shadow'.reported[p] = output[p] /\ \A j \in 2 .. n : ~Mentions(j, p)
    <3>1. CASE \E k \in 1 .. n : /\ toCloud[k].reported[p] = output[p]
                                 /\ \A j \in k + 1 .. n : ~Mentions(j, p)
      <4>1. PICK k \in 1 .. n : /\ toCloud[k].reported[p] = output[p]
                               /\ \A j \in k + 1 .. n : ~Mentions(j, p)
        BY <3>1
      <4>2. k = 1
        BY <1>2, <1>4, <4>1
      <4>3. Mentions(1, p)
        BY <2>0, <4>1, <4>2 DEF Mentions
      <4>4. QED
        BY <4>1, <4>2, <4>3
    <3>2. CASE /\ shadow.reported[p] = output[p]
               /\ \A j \in 1 .. n : ~Mentions(j, p)
      BY <1>2, <3>2
    <3>3. QED
      BY <2>0, <3>1, <3>2 DEF Arriving
  <2>2. \A j \in 1 .. n - 1 : ~Mentions(j, p)'
    BY <1>2, <2>1 DEF Mentions
  <2>3. QED
    BY <1>2, <2>1, <2>2 DEF Arriving
<1>5. QED
  BY <1>3, <1>4

\* A step that moves nothing of p on its way to the service.
LEMMA ReportFrame ==
  ASSUME NEW p \in Params, WillReport(p),
         UNCHANGED <<output[p], val[p], pData[p], flags[p]>>,
         Changing(p)' <=> Changing(p),
         Changing(p) => app'.new_state = app.new_state /\ (app.pc = "val" => app'.pc = "val"),
         Taken(p)' <=> Taken(p), Applying(p)' <=> Applying(p),
         (pc' = "register") <=> (pc = "register"),
         Arriving(p) => Arriving(p)'
  PROVE  WillReport(p)'
BY DEF WillReport

\* Steps of the application leave the cloud task and the channels alone.
LEMMA AppReport ==
  ASSUME TypeOK, AppInv, ReportInv, App
  PROVE  ReportInv'
<1> USE DEF appVars, paramVars, loopVars, deltaVars, netVars
<1>1. UNCHANGED <<pData, pc, idx, reported_handles, reg, toCloud, shadow>>
  BY DEF App, AppPress, AppSetOutput, AppSetVal, AppLoadFlags, AppStoreFlags
<1>2. ASSUME NEW p \in Params
      PROVE  /\ Taken(p)' <=> Taken(p)
             /\ Applying(p)' <=> Applying(p)
             /\ output'[p] = output[p] /\ Arriving(p) => Arriving(p)'
  BY <1>1, ArrivingFrame DEF Taken, Applying
<1>3. ASSUME NEW q \in Params, AppPress(q), NEW p \in Params \ missed'
      PROVE  WillReport(p)'
  <2>1. WillReport(p) /\ UNCHANGED <<output, val, flags>>
    BY <1>3 DEF ReportInv, AppPress
  <2>2. ~Changing(p) /\ ~Changing(p)'
    BY <1>3 DEF AppPress, Changing
  <2>3. QED
    BY <1>1, <1>2, <2>1, <2>2, ReportFrame
<1>4. ASSUME AppSetOutput, NEW p \in Params \ missed'
      PROVE  WillReport(p)'
  <2>1. WillReport(p) /\ UNCHANGED <<val, flags>>
    BY <1>4 DEF ReportInv, AppSetOutput
  <2>2. app.pc = "set" /\ app' = [app EXCEPT !.pc = "val"]
        /\ output' = [output EXCEPT ![app.p] = app.new_state]
    BY <1>4 DEF AppSetOutput
  <2>3. CASE p = app.p
    BY <2>2, <2>3 DEF TypeOK, WillReport, Changing
  <2>4. CASE p # app.p
    <3>1. ~Changing(p) /\ ~Changing(p)' /\ output'[p] = output[p]
      BY <2>2, <2>4 DEF TypeOK, Changing
    <3>2. QED
      BY <1>1, <1>2, <2>1, <3>1, ReportFrame
  <2>5. QED
    BY <2>3, <2>4
<1>5. ASSUME AppSetVal, NEW p \in Params \ missed'
      PROVE  WillReport(p)'
  <2>1. WillReport(p) /\ UNCHANGED <<output, flags>>
    BY <1>5 DEF ReportInv, AppSetVal
  <2>2. app.pc = "val" /\ app' = [app EXCEPT !.pc = "load"]
        /\ val' = [val EXCEPT ![app.p] = app.new_state]
    BY <1>5 DEF AppSetVal
  <2>3. CASE p = app.p
    BY <2>1, <2>2, <2>3 DEF TypeOK, WillReport, Changing
  <2>4. CASE p # app.p
    <3>1. ~Changing(p) /\ ~Changing(p)' /\ val'[p] = val[p]
      BY <2>2, <2>4 DEF TypeOK, Changing
    <3>2. QED
      BY <1>1, <1>2, <2>1, <3>1, ReportFrame
  <2>5. QED
    BY <2>3, <2>4
<1>6. ASSUME AppLoadFlags, NEW p \in Params \ missed'
      PROVE  WillReport(p)'
  <2>1. WillReport(p) /\ UNCHANGED <<output, val, flags>>
    BY <1>6 DEF ReportInv, AppLoadFlags
  <2>2. app.pc = "load" /\ app' = [app EXCEPT !.pc = "store", !.flags = flags[app.p]]
    BY <1>6 DEF AppLoadFlags
  <2>3. (Changing(p)' <=> Changing(p)) /\ app'.new_state = app.new_state
    BY <2>2 DEF TypeOK, Changing
  <2>4. QED
    BY <1>1, <1>2, <2>1, <2>2, <2>3, ReportFrame
<1>7. ASSUME AppStoreFlags, NEW p \in Params \ missed'
      PROVE  WillReport(p)'
  <2>1. /\ app.pc = "store" /\ ~Changing(p)' /\ UNCHANGED <<output, val>>
        /\ flags' = [flags EXCEPT ![app.p] = app.flags \cup {LOCAL_CHANGE}]
        /\ missed' = IF val[app.p] = output[app.p] THEN missed \ {app.p} ELSE missed
    BY <1>7 DEF AppStoreFlags, SetFlag, TypeOK, Changing
  <2>2. CASE p = app.p
    <3>1. LOCAL_CHANGE \in flags'[p]
      BY <2>1, <2>2 DEF TypeOK
    <3>2. val[p] = output[p]
      BY <2>1, <2>2 DEF ReportInv, WillReport, Changing
    <3>3. QED
      BY <2>1, <3>1, <3>2 DEF WillReport
  <2>3. CASE p # app.p
    <3>1. WillReport(p) /\ flags'[p] = flags[p] /\ ~Changing(p)
      BY <2>1, <2>3 DEF ReportInv, TypeOK, Changing
    <3>2. QED
      BY <1>1, <1>2, <2>1, <3>1, ReportFrame
  <2>4. QED
    BY <2>2, <2>3
<1>8. QED
  BY <1>3, <1>4, <1>5, <1>6, <1>7 DEF App, ReportInv

\* Steps of the cloud task up to its scan of the table.
LEMMA BootReport ==
  ASSUME TypeOK, AppInv, ReportInv,
         Register \/ ReportState \/ LoopTop \/ LeaveBootWait \/ LeaveWait
  PROVE  ReportInv'
<1> USE DEF appVars, paramVars, loopVars, deltaVars, netVars
<1>1. UNCHANGED <<output, val, flags, app, reg, toCloud, shadow, missed>>
  BY DEF Register, ReportState, LoopTop, LeaveBootWait, LeaveWait
<1>2. ASSUME NEW p \in Params
      PROVE  /\ Changing(p)' <=> Changing(p)
             /\ Arriving(p) => Arriving(p)'
  BY <1>1, ArrivingFrame DEF Changing
<1>3. ASSUME Register, NEW p \in Params \ missed'
      PROVE  WillReport(p)'
  <2>1. /\ pc = "register" /\ pData' = [pData EXCEPT ![idx] = val[idx]]
        /\ \/ idx < NumParams /\ idx' = idx + 1 /\ pc' = "register"
           \/ ~(idx < NumParams) /\ idx' = idx /\ pc' = "report"
    BY <1>3 DEF Register, MoreParams
  <2>2. WillReport(p) /\ p \in Params /\ REMOTE_CHANGE \notin flags[p]
    BY <1>1, <1>3, <2>1 DEF ReportInv, AppInv
  <2>3. ~Applying(p) /\ ~Applying(p)'
    BY <2>1 DEF Applying
  <2>4. CASE p = idx
    <3>1. pData'[p] = val[p] /\ Taken(p)' /\ ~Taken(p)
      BY <2>1, <2>4, ParamsAssumption DEF TypeOK, Taken, Params
    <3>2. QED
      BY <1>1, <1>2, <2>1, <2>2, <2>3, <3>1 DEF WillReport
  <2>5. CASE p # idx
    <3>1. pData'[p] = pData[p]
      BY <2>1, <2>5 DEF TypeOK
    <3>2. Taken(p)' <=> Taken(p)
      BY <2>1, <2>5, ParamsAssumption DEF TypeOK, Taken, Params
    <3>3. pc' = "register" \/ Taken(p)
      BY <2>1, <2>5, ParamsAssumption DEF TypeOK, Taken, Params
    <3>4. QED
      BY <1>1, <1>2, <2>1, <2>2, <2>3, <3>1, <3>2, <3>3 DEF WillReport
  <2>6. QED
    BY <2>4, <2>5
<1>4. ASSUME ReportState \/ LoopTop \/ LeaveBootWait \/ LeaveWait, NEW p \in Params \ missed'
      PROVE  WillReport(p)'
  <2>1. WillReport(p) /\ pData' = pData /\ pc # "register" /\ pc' # "register"
    BY <1>1, <1>4 DEF ReportInv, ReportState, LoopTop, LeaveBootWait, LeaveWait
  <2>2. Taken(p)' <=> Taken(p)
    BY <1>4 DEF Taken, ReportState, LoopTop, LeaveBootWait, LeaveWait
  <2>3. Applying(p)' <=> Applying(p)
    BY <1>1, <1>4 DEF Applying, ReportState, LoopTop, LeaveBootWait, LeaveWait
  <2>4. QED
    BY <1>1, <1>2, <2>1, <2>2, <2>3, ReportFrame
<1>5. QED
  BY <1>3, <1>4 DEF ReportInv

\* Steps of the scan: a flag is cleared only when pData is taken for the next update.
LEMMA ScanReport ==
  ASSUME TypeOK, FlagInv, ReportInv, ScanFlags \/ ScanCopy \/ ScanClear
  PROVE  ReportInv'
<1> USE DEF appVars, paramVars, loopVars, deltaVars, netVars
<1>1. UNCHANGED <<output, val, app, reg, toCloud, shadow>> /\ missed \subseteq missed'
  BY DEF ScanFlags, ScanCopy, ScanClear
<1>2. ASSUME NEW p \in Params
      PROVE  /\ Changing(p)' <=> Changing(p)
             /\ ~Applying(p) /\ ~Applying(p)'
             /\ Arriving(p) => Arriving(p)'
  BY <1>1, ArrivingFrame DEF Changing, Applying, ScanFlags, ScanCopy, ScanClear
<1>3. pc # "register" /\ pc' # "register"
  BY DEF ScanFlags, ScanCopy, ScanClear
<1>4. ASSUME ScanFlags, NEW p \in Params \ missed'
      PROVE  WillReport(p)'
  <2>1. WillReport(p) /\ UNCHANGED <<pData, flags>>
    BY <1>1, <1>4 DEF ReportInv, ScanFlags
  <2>2. REMOTE_CHANGE \notin flags[p] => (Taken(p)' <=> Taken(p))
    BY <1>4 DEF Taken, ScanFlags, RemoteDue, TypeOK
  <2>3. QED
    BY <1>1, <1>2, <1>3, <2>1, <2>2 DEF WillReport
<1>5. ASSUME ScanCopy, NEW p \in Params \ missed'
      PROVE  WillReport(p)'
  <2>1. /\ WillReport(p) /\ flags' = flags
        /\ pData' = [pData EXCEPT ![idx] = NewValue(idx)]
        /\ reported_handles' = reported_handles \cup {idx}
        /\ pc = "copy" /\ pc' = "clear" /\ LOCAL_CHANGE \in flags[idx]
    BY <1>1, <1>5 DEF ReportInv, ScanCopy, FlagInv
  <2>2. CASE p = idx
    BY <1>1, <1>2, <2>1, <2>2 DEF WillReport
  <2>3. CASE p # idx
    <3>1. pData'[p] = pData[p] /\ (Taken(p)' <=> Taken(p))
      BY <2>1, <2>3 DEF TypeOK, Taken
    <3>2. QED
      BY <1>1, <1>2, <1>3, <2>1, <3>1, ReportFrame
  <2>4. QED
    BY <2>2, <2>3
<1>6. ASSUME ScanClear, NEW p \in Params \ missed'
      PROVE  WillReport(p)'
  <2>1. /\ WillReport(p) /\ UNCHANGED <<pData, reported_handles>>
        /\ flags' = [flags EXCEPT ![idx] = {}]
        /\ pc = "clear" /\ pc' \in {"scan", "loop", "update"}
        /\ pc' = "loop" => reported_handles = {}
    BY <1>1, <1>6 DEF ReportInv, ScanClear
  <2>2. Taken(p)' <=> Taken(p)
    BY <2>1 DEF Taken
  <2>3. CASE p = idx
    <3>1. flags'[p] = {}
      BY <2>1, <2>3 DEF TypeOK
    <3>2. LOCAL_CHANGE \in flags[p] => p \in reported_handles /\ pData[p] = val[p]
      BY <1>6, <2>3 DEF ScanClear
    <3>3. REMOTE_CHANGE \in flags[p] => p \in reported_handles
      BY <2>1, <2>3, <3>2 DEF FlagInv
    <3>4. p \in reported_handles => Taken(p)
      BY <2>1 DEF Taken
    <3>5. QED
      BY <1>1, <1>2, <1>3, <2>1, <2>2, <3>1, <3>2, <3>3, <3>4 DEF WillReport
  <2>4. CASE p # idx
    <3>1. flags'[p] = flags[p]
      BY <2>1, <2>4 DEF TypeOK
    <3>2. QED
      BY <1>1, <1>2, <1>3, <2>1, <2>2, <3>1, ReportFrame
  <2>5. QED
    BY <2>3, <2>4
<1>7. QED
  BY <1>4, <1>5, <1>6 DEF ReportInv

\* An update carries what was taken for it, or what was taken is recorded as missed.
LEMMA UpdateReport ==
  ASSUME TypeOK, ReportInv, UpdateTooLong \/ UpdateSent \/ UpdateFails
  PROVE  ReportInv'
<1> USE DEF appVars, paramVars, loopVars, deltaVars, netVars
<1>1. /\ UNCHANGED <<output, val, flags, pData, app, reg>>
      /\ missed \subseteq missed' /\ pc = "update" /\ pc' \in {"yield", "loop"}
  BY DEF UpdateTooLong, UpdateSent, UpdateFails, AfterUpdate
<1>2. SUFFICES ASSUME NEW p \in Params \ missed'
               PROVE  WillReport(p)'
  BY DEF ReportInv
<1>3. /\ Changing(p)' <=> Changing(p)
      /\ ~Applying(p) /\ ~Applying(p)' /\ ~Taken(p)'
      /\ Taken(p) <=> p \in reported_handles
      /\ WillReport(p)
  BY <1>1 DEF Changing, Applying, Taken, ReportInv
<1>4. (IF p \in reported_handles THEN pData[p] = output[p] ELSE Arriving(p)) => Arriving(p)'
  <2>1. CASE UpdateSent
    BY <2>1, ArrivingSent
  <2>2. CASE UpdateTooLong \/ UpdateFails
    <3>1. p \notin reported_handles /\ UNCHANGED <<toCloud, shadow>>
      BY <2>2 DEF UpdateTooLong, UpdateFails
    <3>2. QED
      BY <1>1, <3>1, ArrivingFrame
  <2>3. QED
    BY <2>1, <2>2
<1>5. QED
  BY <1>1, <1>3, <1>4 DEF WillReport

\* Callbacks: a delta is driven and reported, unless it is recorded as missed.
LEMMA CallbackReport ==
  ASSUME TypeOK, FlagInv, AppInv, ReportInv, Callbacks
  PROVE  ReportInv'
<1> USE DEF appVars, paramVars, loopVars, deltaVars, netVars
<1>1. /\ UNCHANGED <<val, app, idx, reported_handles, toCloud, shadow>>
      /\ pc \in {"yield", "delta", "load", "store"}
      /\ pc' \in {"yield", "delta", "load", "store"}
  BY DEF Callbacks, RecvAnswer, AnswerTimeout, RecvDelta, DeltaApply, DeltaRefused,
     DeltaLoadFlags, DeltaStoreFlags, DeltaDone
<1>2. ASSUME NEW p \in Params
      PROVE  /\ Changing(p)' <=> Changing(p)
             /\ ~Taken(p) /\ ~Taken(p)'
             /\ output'[p] = output[p] /\ Arriving(p) => Arriving(p)'
  BY <1>1, ArrivingFrame DEF Changing, Taken
<1>3. ASSUME RecvAnswer \/ RecvDelta \/ (\E id \in awaiting : AnswerTimeout(id))
             \/ DeltaLoadFlags \/ DeltaDone, NEW p \in Params \ missed'
      PROVE  WillReport(p)'
  <2>1. UNCHANGED <<output, pData, flags, missed>>
    BY <1>3 DEF RecvAnswer, RecvDelta, AnswerTimeout, DeltaLoadFlags, DeltaDone
  <2>2. Applying(p)' <=> Applying(p)
    BY <1>3 DEF Applying, RecvAnswer, RecvDelta, AnswerTimeout, DeltaLoadFlags, DeltaDone,
       TypeOK
  <2>3. WillReport(p)
    BY <2>1 DEF ReportInv
  <2>4. QED
    BY <1>1, <1>2, <2>1, <2>2, <2>3, ReportFrame
<1>4. ASSUME NEW q \in Params, DeltaApply(q), NEW p \in Params \ missed'
      PROVE  WillReport(p)'
  <2>1. /\ pc = "delta" /\ pc' = "load" /\ reg' = [p |-> q, flags |-> {}] /\ flags' = flags
        /\ delta[q] \in Values
        /\ pData' = [pData EXCEPT ![q] = delta[q]]
        /\ output' = [output EXCEPT ![q] = delta[q]]
    BY <1>4 DEF DeltaApply, Applied, TypeOK, Doc
  <2>2. CASE p = q
    <3>1. pData'[p] = delta[p] /\ output'[p] = delta[p] /\ Applying(p)'
      BY <2>1, <2>2 DEF TypeOK, Applying
    <3>2. LOCAL_CHANGE \in flags[p] => val[p] = delta[p]
      BY <1>4, <2>2 DEF DeltaApply
    <3>3. Changing(p) => app.new_state = delta[p]
      BY <1>4, <2>2 DEF DeltaApply, Changing
    <3>4. Changing(p) /\ app.pc # "val" => val[p] = delta[p]
      BY <3>3 DEF AppInv, Changing
    <3>5. QED
      BY <1>1, <1>2, <2>1, <3>1, <3>2, <3>3, <3>4 DEF WillReport
  <2>3. CASE p # q
    <3>1. /\ WillReport(p) /\ UNCHANGED <<pData[p], output[p]>>
          /\ ~Applying(p) /\ ~Applying(p)'
      BY <1>4, <2>1, <2>3 DEF DeltaApply, ReportInv, TypeOK, Applying
    <3>2. QED
      BY <1>1, <1>2, <2>1, <3>1, ReportFrame
  <2>4. QED
    BY <2>2, <2>3
<1>5. ASSUME NEW q \in Params, DeltaRefused(q), NEW p \in Params \ missed'
      PROVE  WillReport(p)'
  <2>1. /\ UNCHANGED <<flags, output>> /\ pData' = [pData EXCEPT ![q] = delta[q]]
        /\ ~Applying(p) /\ ~Applying(p)' /\ WillReport(p)
    BY <1>5 DEF DeltaRefused, Applying, ReportInv
  <2>2. CASE p = q
    <3>1. REMOTE_CHANGE \in flags[p] => pData'[p] = output[p]
      BY <1>5, <2>1, <2>2 DEF DeltaRefused, TypeOK
    <3>2. QED
      BY <1>1, <1>2, <2>1, <3>1 DEF WillReport
  <2>3. CASE p # q
    <3>1. pData'[p] = pData[p]
      BY <2>1, <2>3 DEF TypeOK
    <3>2. QED
      BY <1>1, <1>2, <2>1, <3>1, ReportFrame
  <2>4. QED
    BY <2>2, <2>3
<1>6. ASSUME DeltaStoreFlags, NEW p \in Params \ missed'
      PROVE  WillReport(p)'
  <2>1. /\ pc = "store" /\ pc' = "delta" /\ UNCHANGED <<output, pData, reg>>
        /\ flags' = [flags EXCEPT ![reg.p] = reg.flags \cup {REMOTE_CHANGE}]
        /\ WillReport(p) /\ ~Applying(p)'
    BY <1>6 DEF DeltaStoreFlags, SetFlag, ReportInv, Applying
  <2>2. CASE p = reg.p
    <3>1. /\ flags'[p] = reg.flags \cup {REMOTE_CHANGE} /\ Applying(p)
          /\ LOCAL_CHANGE \in reg.flags => LOCAL_CHANGE \in flags[p]
      BY <2>1, <2>2 DEF TypeOK, Applying, FlagInv
    <3>2. LOCAL_CHANGE \in flags[p] \ reg.flags => val[p] = pData[p]
      BY <1>6, <2>2 DEF DeltaStoreFlags
    <3>3. QED
      BY <1>1, <1>2, <2>1, <3>1, <3>2 DEF WillReport, LOCAL_CHANGE, REMOTE_CHANGE
  <2>3. CASE p # reg.p
    <3>1. flags'[p] = flags[p] /\ ~Applying(p)
      BY <2>1, <2>3 DEF TypeOK, Applying
    <3>2. QED
      BY <1>1, <1>2, <2>1, <3>1, ReportFrame
  <2>4. QED
    BY <2>2, <2>3
<1>7. QED
  BY <1>3, <1>4, <1>5, <1>6 DEF Callbacks, ReportInv

\* The service takes an update in, or what it mentions is recorded as missed.
LEMMA NetworkReport ==
  ASSUME TypeOK, ReportInv, Network
  PROVE  ReportInv'
<1> USE DEF appVars, paramVars, loopVars, deltaVars, netVars
<1>1. /\ UNCHANGED <<output, val, flags, pData, app, pc, idx, reported_handles, reg>>
      /\ missed \subseteq missed'
  BY DEF Network, ServiceAccepts, ServiceRejects, LoseUpdate, LoseToDevice, UserRequest
<1>2. SUFFICES ASSUME NEW p \in Params \ missed'
               PROVE  WillReport(p)'
  BY DEF ReportInv
<1>3. /\ Changing(p)' <=> Changing(p)
      /\ Taken(p)' <=> Taken(p)
      /\ Applying(p)' <=> Applying(p)
      /\ WillReport(p)
  BY <1>1 DEF Changing, Taken, Applying, ReportInv
<1>4. Arriving(p) => Arriving(p)'
  <2>1. CASE ServiceAccepts
    <3>1. /\ toCloud # <<>> /\ toCloud' = Tail(toCloud)
          /\ shadow'.reported = Merge(shadow.reported, Head(toCloud).reported)
      BY <2>1 DEF ServiceAccepts
    <3>2. Head(toCloud) = toCloud[1]
      BY <3>1, TailFacts DEF TypeOK
    <3>3. shadow'.reported[p] = IF Mentions(1, p) THEN toCloud[1].reported[p]
                                                  ELSE shadow.reported[p]
      BY <3>1, <3>2 DEF Merge, Mentions
    <3>4. QED
      BY <1>1, <3>1, <3>3, ArrivingTail
  <2>2. CASE ServiceRejects \/ LoseUpdate
    <3>1. /\ toCloud # <<>> /\ toCloud' = Tail(toCloud) /\ shadow' = shadow
          /\ Head(toCloud).reported[p] = NoVal
      BY <2>2 DEF ServiceRejects, LoseUpdate, Mentioned
    <3>2. ~Mentions(1, p)
      BY <3>1, TailFacts DEF TypeOK, Mentions
    <3>3. QED
      BY <1>1, <3>1, <3>2, ArrivingTail
  <2>3. CASE LoseToDevice
    BY <1>1, <2>3, ArrivingFrame DEF LoseToDevice
  <2>4. ASSUME NEW q \in Params, NEW v \in Values, UserRequest(q, v)
        PROVE  Arriving(p) => Arriving(p)'
    BY <1>1, <2>4, ArrivingFrame DEF UserRequest, TypeOK
  <2>5. QED
    BY <2>1, <2>2, <2>3, <2>4 DEF Network
<1>5. QED
  BY <1>1, <1>3, <1>4, ReportFrame

\* Every step preserves ReportInv.
LEMMA ReportStep == TypeOK /\ FlagInv /\ AppInv /\ ReportInv /\ [Next]_vars => ReportInv'
<1> SUFFICES ASSUME TypeOK, FlagInv, AppInv, ReportInv, [Next]_vars
             PROVE  ReportInv'
  OBVIOUS
<1>1. CASE UNCHANGED vars
  BY <1>1 DEF vars, appVars, paramVars, loopVars, deltaVars, netVars, ReportInv, WillReport,
     Changing, Taken, Applying, Arriving, Mentions
<1>2. CASE Next
  BY <1>2, AppReport, BootReport, ScanReport, UpdateReport, CallbackReport, NetworkReport
     DEF Next, CloudLoop
<1>3. QED
  BY <1>1, <1>2

\* At rest the shadow reports what the device drives, for every parameter whose last
\* change was not lost in one of the recorded ways.
THEOREM QuietReported == Spec => []QuietMeansReported
<1>1. Init => FlagInv /\ AppInv /\ ReportInv
  BY DEF Init, FlagInv, AppInv, ReportInv, WillReport, Changing, Taken, Applying
<1>2. TypeOK /\ ReportInv => QuietMeansReported
  <2> SUFFICES ASSUME TypeOK, ReportInv, Quiet, NEW p \in Params \ missed
               PROVE  shadow.reported[p] = output[p]
    BY DEF QuietMeansReported
  <2>1. ~Changing(p) /\ ~Taken(p) /\ ~Applying(p) /\ flags[p] = {} /\ pc # "register"
    BY DEF Quiet, Changing, Taken, Applying
  <2>2. Arriving(p)
    BY <2>1 DEF ReportInv, WillReport
  <2>3. toCloud = <<>> /\ Len(toCloud) = 0
    BY DEF Quiet
  <2>4. QED
    BY <2>2, <2>3 DEF Arriving
<1>3. QED
  BY <1>1, <1>2, TypeCorrect, FlagStep, AppStep, ReportStep, PTL DEF Spec
==============================================================================
