--------------------------- MODULE OtaAgent_proofs ---------------------------
(***************************************************************************)
(* Theorems about OtaAgent, for every set of versions and offers and every *)
(* bound.                                                                  *)
(***************************************************************************)
EXTENDS OtaAgent, TLAPS

\* The comparison of the handler is the order of version numbers.
LEMMA NewerIsOrder ==
  ASSUME NEW r \in Nat \X Nat \X Nat, NEW c \in Nat \X Nat \X Nat
  PROVE  Newer(r, c) <=> Older(c, r)
<1>1. /\ r[1] \in Nat /\ r[2] \in Nat /\ r[3] \in Nat
      /\ c[1] \in Nat /\ c[2] \in Nat /\ c[3] \in Nat
  OBVIOUS
<1>2. Older(c, r) <=> \/ c[1] < r[1]
                      \/ c[2] < r[2] /\ c[1] = r[1]
                      \/ c[3] < r[3] /\ c[1] = r[1] /\ c[2] = r[2]
  <2>1. 1 .. 3 = {1, 2, 3} /\ 1 .. 1 - 1 = {} /\ 1 .. 2 - 1 = {1} /\ 1 .. 3 - 1 = {1, 2}
    OBVIOUS
  <2>2. Older(c, r) <=> \/ c[1] < r[1] /\ \A j \in 1 .. 1 - 1 : c[j] = r[j]
                        \/ c[2] < r[2] /\ \A j \in 1 .. 2 - 1 : c[j] = r[j]
                        \/ c[3] < r[3] /\ \A j \in 1 .. 3 - 1 : c[j] = r[j]
    BY <2>1 DEF Older
  <2>3. QED
    BY <2>1, <2>2
<1>3. QED
  BY <1>1, <1>2 DEF Newer

(***************************************************************************)
(* The inductive invariant: where the handler stands, what it has decided  *)
(* and said, and what is installed.                                        *)
(***************************************************************************)
HandlerInv ==
  /\ handler \in {"compare", "equal", "download", "succeeded", "failed"} =>
       ota.ota_version \in Versions
  /\ handler \in {"compare", "download", "succeeded", "failed"} => said = {}
  /\ handler = "download" =>
       /\ WellFormed(ota.ota_version) /\ WellFormed(fw)
       /\ Newer(ota.ota_version.nums, fw.nums)
  /\ handler = "equal" => said = {"success"} /\ ota.ota_version = fw
  /\ handler = "succeeded" => bootVer = ota.ota_version
  /\ handler = "fail" => said \subseteq {"failure"}
  /\ handler = "restart" => TruthfulResult
  /\ handler \notin {"succeeded", "restart"} /\ task # "off" => bootVer = fw
  /\ handler # "restart" => ota.last_reported_status # "OTA_STATUS_SUCCESS"

\* What the flash holds while the check reads, reports and clears it, and after: no
\* recorded result is left once the check is past it.
TellInv ==
  /\ task = "report" => ota_flag = OTA_F /\ OTA_F \in DOMAIN ResultOf
  /\ task = "reporting" /\ handler # "restart" => told \in {OTA_F, "failed"}
  /\ task = "clear" /\ OTA_F \in DOMAIN ResultOf => told \in {OTA_F, "failed"}
  /\ task \in {"fetch", "ready", "force_store", "force_publish"} /\ handler # "restart"
       => OTA_F \notin Results \/ ~subscribed
  /\ handler # "idle" \/ otaurl # <<>> => subscribed
  /\ task \in {"off", "subscribe"} => ~subscribed

\* What a type-correct state becomes when power goes.
LEMMA PowerOffInv ==
  ASSUME TypeOK, PowerOff, UNCHANGED <<offers, forces, faults>>, crashes' \in Nat
  PROVE  TypeOK' /\ HandlerInv'
<1>1. /\ ota' = NoOta /\ handler' = "idle" /\ task' = "off" /\ ota_flag' = "CUSTOM_INVALID"
      /\ subscribed' = FALSE /\ told' = "nothing"
      /\ url' = FALSE /\ type' = "NONE" /\ otaurl' = <<>>
      /\ UNCHANGED <<bootVer, OTA_F, fw, said>>
  BY DEF PowerOff, flash
<1>2. TypeOK'
  <2>1. NoOta \in [ota_in_progress : BOOLEAN, ota_version : Versions \cup {NoVersion},
                   last_reported_status : {"NONE", "OTA_STATUS_SUCCESS", "OTA_STATUS_FAILED"}]
    BY DEF NoOta
  <2>2. <<>> \in Seq(Offers \cup {Garbage})
    OBVIOUS
  <2>3. QED
    BY <1>1, <2>1, <2>2 DEF TypeOK, OtaFlags, Types
<1>3. HandlerInv'
  BY <1>1 DEF HandlerInv, NoOta
<1>4. QED
  BY <1>2, <1>3

\* The types that matter to a step of the handler.
OtaType == [ota_in_progress : BOOLEAN, ota_version : Versions \cup {NoVersion},
            last_reported_status : {"NONE", "OTA_STATUS_SUCCESS", "OTA_STATUS_FAILED"}]

\* Setting one field of the record leaves the others.
LEMMA OtaUpdates ==
  ASSUME ota \in OtaType
  PROVE  /\ Marked \in OtaType /\ Marked.ota_in_progress
         /\ Marked.ota_version = ota.ota_version
         /\ Marked.last_reported_status = ota.last_reported_status
         /\ Released \in OtaType
         /\ Released.ota_version = ota.ota_version
         /\ Released.last_reported_status = ota.last_reported_status
         /\ \A v \in Versions : /\ [Marked EXCEPT !.ota_version = v] \in OtaType
                                /\ [Marked EXCEPT !.ota_version = v].ota_in_progress
                                /\ [Marked EXCEPT !.ota_version = v].ota_version = v
                                /\ [Marked EXCEPT !.ota_version = v].last_reported_status
                                     = ota.last_reported_status
BY DEF OtaType, Marked, Released

Inv == TypeOK /\ HandlerInv

\* Steps of the check and of the forced upgrade run with the handler idle.
Tasks == {"subscribe", "read", "report", "reporting", "clear", "fetch", "ready",
          "force_store", "force_publish"}

LEMMA CheckFrame ==
  ASSUME Inv, handler = "idle", UNCHANGED <<bootVer, fw, handlerVars>>,
         task # "off", task' \in Tasks,
         OTA_F' \in OtaFlags, ota_flag' \in OtaFlags, type' \in Types,
         said' \in SUBSET {"success", "failure"}, subscribed' \in BOOLEAN,
         told' \in {"nothing", "failed"} \cup DOMAIN ResultOf,
         otaurl' \in Seq(Offers \cup {Garbage}),
         offers' \in Nat, forces' \in Nat, crashes' \in Nat, faults' \in Nat
  PROVE  Inv'
<1>1. TypeOK'
  BY DEF Inv, TypeOK, Tasks, handlerVars
<1>2. HandlerInv'
  BY DEF Inv, HandlerInv, Tasks, handlerVars
<1>3. QED
  BY <1>1, <1>2 DEF Inv

LEMMA CheckStep ==
  ASSUME Inv, TellInv, Check \/ SubscribeFails \/ ReportFails \/ ForcedUpgrade \/ ForcePublishFails
  PROVE  Inv'
<1> USE DEF flash, checkVars, handlerVars, counters, Tasks
<1>1. TypeOK
  BY DEF Inv
<1>2. CASE Subscribe
  BY <1>1, <1>2, CheckFrame DEF Subscribe, TypeOK
<1>3. CASE SubscribeFails
  BY <1>1, <1>3, CheckFrame DEF SubscribeFails, Fault, TypeOK
<1>4. CASE ReadFlag
  BY <1>1, <1>4, CheckFrame DEF ReadFlag, TypeOK
<1>5. CASE ReportDone
  BY <1>1, <1>5, CheckFrame DEF ReportDone, TypeOK
<1>6. CASE ClearFlag
  BY <1>1, <1>6, CheckFrame DEF ClearFlag, Cleared, OtaFlags, Types, TypeOK
<1>7. CASE Fetch
  BY <1>1, <1>7, CheckFrame DEF Fetch, TypeOK
<1>8. CASE ForceMark
  BY <1>1, <1>8, CheckFrame DEF ForceMark, Types, TypeOK
<1>9. CASE ForceStore
  BY <1>1, <1>9, CheckFrame DEF ForceStore, OtaFlags, TypeOK
<1>10. CASE ForcePublishFails
  BY <1>1, <1>10, CheckFrame DEF ForcePublishFails, Fault, TypeOK
<1>11. CASE ForcePublish
  <2>1. otaurl' \in Seq(Offers \cup {Garbage})
    BY <1>1, <1>11 DEF ForcePublish, TypeOK
  <2>2. QED
    BY <1>1, <1>11, <2>1, CheckFrame DEF ForcePublish, TypeOK
<1>12. CASE Report
  <2>1. handler = "idle" /\ UNCHANGED <<bootVer, fw, handlerVars>>
    BY <1>1, <1>12 DEF Report, AfterReport, TypeOK
  <2>2. ota_flag \in DOMAIN ResultOf
    BY <1>12 DEF TellInv, Report
  <2>3. told' \in DOMAIN ResultOf /\ said' \in SUBSET {"success", "failure"}
    BY <1>1, <1>12, <2>2 DEF Report, AfterReport, Say, ResultOf, TypeOK
  <2>4. QED
    BY <1>1, <1>12, <2>1, <2>3, CheckFrame DEF Report, AfterReport, TypeOK
<1>13. CASE ReportFails
  BY <1>1, <1>13, CheckFrame DEF ReportFails, AfterReport, Fault, TypeOK
<1>14. QED
  BY <1>2, <1>3, <1>4, <1>5, <1>6, <1>7, <1>8, <1>9, <1>10, <1>11, <1>12, <1>13 DEF Check, ForcedUpgrade

\* An offer is taken only by an idle handler.
LEMMA OfferStep ==
  ASSUME Inv, OfferIgnored \/ OfferTaken
  PROVE  Inv'
<1> USE DEF Inv, flash, checkVars, handlerVars, counters
<1>1. /\ Head(otaurl) \in Offers \cup {Garbage}
      /\ otaurl' = Tail(otaurl) /\ otaurl' \in Seq(Offers \cup {Garbage})
  <2>1. otaurl \in Seq(Offers \cup {Garbage}) /\ otaurl # <<>> /\ otaurl' = Tail(otaurl)
    BY DEF TypeOK, OfferIgnored, OfferTaken
  <2>2. QED
    BY <2>1
<1>2. CASE OfferIgnored
  BY <1>1, <1>2 DEF OfferIgnored, TypeOK, HandlerInv, TruthfulResult, BothResults
<1>3. CASE OfferTaken
  <2>1. /\ handler = "idle" /\ task \in {"reporting", "fetch", "ready", "force_publish"}
        /\ ota \in OtaType
    BY <1>3 DEF OfferTaken, Ignored, Reading, TypeOK, OtaType
  <2>2. /\ UNCHANGED <<flash, fw, type, checkVars, counters>>
        /\ ota' \in OtaType /\ ota'.ota_in_progress
        /\ ota'.last_reported_status = ota.last_reported_status
        /\ url' \in BOOLEAN
        /\ \/ handler' \in {"garbage", "fail"} /\ said' = {"failure"}
           \/ handler' = "compare" /\ said' = {} /\ ota'.ota_version \in Versions
    <3>1. Head(otaurl) # Garbage => /\ Head(otaurl).version \in Versions \cup {NoVersion}
                                    /\ Head(otaurl).url \in BOOLEAN
      BY <1>1, OffersAssumption
    <3>2. QED
      BY <1>3, <2>1, <3>1, OtaUpdates DEF OfferTaken
  <2>3. TypeOK'
    <3>1. UNCHANGED <<bootVer, OTA_F, fw, type, task, subscribed, ota_flag, told, offers,
                      forces, crashes, faults>>
      BY <1>3 DEF OfferTaken
    <3>2. QED
      BY <1>1, <2>1, <2>2, <3>1 DEF TypeOK, OtaType
  <2>4. HandlerInv'
    BY <2>1, <2>2 DEF HandlerInv
  <2>5. QED
    BY <2>3, <2>4
<1>4. QED
  BY <1>2, <1>3

\* The handler's own steps.
LEMMA HandlerStepInv ==
  ASSUME Inv, HandlerStep \/ DownloadFails \/ ReportSuccessFails
  PROVE  Inv'
<1> USE DEF Inv, flash, checkVars, handlerVars, counters
<1>1. ota \in OtaType
  BY DEF TypeOK, OtaType
<1>2. CASE GarbageReturn
  BY <1>1, <1>2, OtaUpdates DEF GarbageReturn, TypeOK, OtaType, HandlerInv
<1>3. CASE VersionError
  BY <1>3 DEF VersionError, TypeOK, HandlerInv
<1>4. CASE AlreadyRunning
  <2>1. ota.ota_version = fw
    BY <1>4, VersionsAssumption DEF AlreadyRunning, SameText, HandlerInv, TypeOK
  <2>2. QED
    BY <1>4, <2>1 DEF AlreadyRunning, Say, TypeOK, HandlerInv
<1>5. CASE Decide
  BY <1>5 DEF Decide, Say, Parsed, TypeOK, HandlerInv
<1>6. CASE StoreResult
  <2>1. /\ ota' \in OtaType /\ ota'.ota_version = ota.ota_version
        /\ ota'.last_reported_status = ota.last_reported_status
    BY <1>1, <1>6, OtaUpdates DEF StoreResult
  <2>2. TypeOK'
    BY <1>6, <2>1 DEF StoreResult, TypeOK, OtaType, OtaFlags
  <2>3. HandlerInv'
    <3>1. said = {"success"} /\ ota.ota_version = fw /\ bootVer = fw
      BY <1>6 DEF StoreResult, HandlerInv, TypeOK
    <3>2. /\ UNCHANGED <<said, bootVer, fw>> /\ handler' = "restart"
      BY <1>6 DEF StoreResult
    <3>3. TruthfulResult'
      BY <2>1, <3>1, <3>2 DEF TruthfulResult, BothResults
    <3>4. QED
      BY <2>1, <3>2, <3>3 DEF HandlerInv
  <2>4. QED
    BY <2>2, <2>3
<1>7. CASE Download
  BY <1>7 DEF Download, TypeOK, HandlerInv
<1>8. CASE DownloadFails
  BY <1>8 DEF DownloadFails, Fault, TypeOK, HandlerInv
<1>9. CASE ReportSuccess
  <2>1. ota' \in OtaType /\ ota'.ota_version = ota.ota_version
    BY <1>1, <1>9 DEF ReportSuccess, SetStatus, OtaType
  <2>2. handler' = "restart" /\ said' = {"success"} /\ handler = "succeeded"
    BY <1>9 DEF ReportSuccess, AfterSuccess, Say, HandlerInv
  <2>3. TypeOK'
    BY <1>9, <2>1, <2>2 DEF ReportSuccess, TypeOK, OtaType
  <2>4. HandlerInv'
    BY <1>9, <2>1, <2>2 DEF ReportSuccess, HandlerInv, TruthfulResult, BothResults, TypeOK
  <2>5. QED
    BY <2>3, <2>4
<1>10. CASE ReportSuccessFails
  <2>1. handler' = "restart" /\ said' = {"success"} /\ handler = "succeeded" /\ ota' = ota
    BY <1>10 DEF ReportSuccessFails, AfterSuccess, Say, HandlerInv
  <2>2. TypeOK'
    BY <1>10, <2>1 DEF ReportSuccessFails, Fault, TypeOK
  <2>3. HandlerInv'
    BY <1>10, <2>1 DEF ReportSuccessFails, HandlerInv, TruthfulResult, BothResults, TypeOK
  <2>4. QED
    BY <2>2, <2>3
<1>11. CASE ReportFailure
  <2>1. /\ ota' \in OtaType /\ ota'.ota_in_progress = ota.ota_in_progress
        /\ ota'.last_reported_status = "OTA_STATUS_FAILED"
    BY <1>1, <1>11 DEF ReportFailure, SetStatus, OtaType
  <2>2. said' = {"failure"} /\ handler' = "fail" /\ handler = "failed"
    BY <1>11 DEF ReportFailure, Say, HandlerInv
  <2>3. TypeOK'
    BY <1>11, <2>1, <2>2 DEF ReportFailure, TypeOK, OtaType
  <2>4. HandlerInv'
    BY <1>11, <2>1, <2>2 DEF ReportFailure, HandlerInv, TypeOK
  <2>5. QED
    BY <2>3, <2>4
<1>12. CASE Fail
  <2>1. /\ ota' \in OtaType /\ ota'.ota_version = ota.ota_version
        /\ ota'.last_reported_status = ota.last_reported_status
    BY <1>1, <1>12, OtaUpdates DEF Fail
  <2>2. said' = {"failure"} /\ handler' = "restart" /\ handler = "fail"
    BY <1>12 DEF Fail, Say, HandlerInv
  <2>3. TypeOK'
    BY <1>12, <2>1, <2>2 DEF Fail, TypeOK, OtaType
  <2>4. HandlerInv'
    BY <1>12, <2>1, <2>2 DEF Fail, HandlerInv, TruthfulResult, BothResults, TypeOK
  <2>5. QED
    BY <2>3, <2>4
<1>13. QED
  BY <1>2, <1>3, <1>4, <1>5, <1>6, <1>7, <1>8, <1>9, <1>10, <1>11, <1>12 DEF HandlerStep

\* Restarts and the world.
LEMMA WorldStep ==
  ASSUME Inv, Restart \/ Boot \/ World
  PROVE  Inv'
<1> USE DEF Inv, flash, checkVars, handlerVars, counters
<1>1. CASE Restart \/ Crash
  BY <1>1, PowerOffInv DEF Restart, Crash, TypeOK
<1>2. CASE Boot
  <2>1. handler = "idle"
    BY <1>2 DEF Boot, TypeOK
  <2>2. QED
    BY <1>2, <2>1 DEF Boot, TypeOK, HandlerInv
<1>3. ASSUME NEW o \in Offers \cup {Garbage}, PushOffer(o)
      PROVE  Inv'
  <2>1. otaurl' \in Seq(Offers \cup {Garbage}) /\ offers' \in Nat
    BY <1>3 DEF PushOffer, TypeOK
  <2>2. QED
    BY <1>3, <2>1 DEF PushOffer, TypeOK, HandlerInv, TruthfulResult, BothResults
<1>4. CASE LoseOffer
  <2>1. otaurl' \in Seq(Offers \cup {Garbage}) /\ faults' \in Nat
    BY <1>4 DEF LoseOffer, Fault, TypeOK
  <2>2. QED
    BY <1>4, <2>1 DEF LoseOffer, Fault, TypeOK, HandlerInv, TruthfulResult, BothResults
<1>5. CASE ForceRequest
  BY <1>5 DEF ForceRequest, Types, TypeOK, HandlerInv, TruthfulResult, BothResults
<1>6. QED
  BY <1>1, <1>2, <1>3, <1>4, <1>5 DEF World

\* Every step preserves the invariant.
LEMMA InvStep == Inv /\ TellInv /\ [Next]_vars => Inv'
<1> SUFFICES ASSUME Inv, TellInv, [Next]_vars
             PROVE  Inv'
  OBVIOUS
<1>1. CASE UNCHANGED vars
  BY <1>1 DEF Inv, TypeOK, HandlerInv, TruthfulResult, BothResults, vars, flash, checkVars,
     handlerVars, counters
<1>2. QED
  BY <1>1, CheckStep, OfferStep, HandlerStepInv, WorldStep DEF Next, Device, Faulty

\* A step that leaves the check, the flash and what was told alone, in the middle of a
\* subscribed boot or not, leaves TellInv.
LEMMA TellFrame ==
  ASSUME TellInv, UNCHANGED <<OTA_F, checkVars, told>>,
         handler = "restart" => handler' = "restart",
         handler' # "idle" \/ otaurl' # <<>> => subscribed
  PROVE  TellInv'
BY DEF TellInv, checkVars

\* The steps of the check keep it.
LEMMA TellCheck ==
  ASSUME Inv, TellInv, Check \/ SubscribeFails \/ ReportFails
  PROVE  TellInv'
<1> USE DEF flash, checkVars, handlerVars
<1>1. TypeOK
  BY DEF Inv
<1>2. CASE Subscribe \/ SubscribeFails
  BY <1>1, <1>2 DEF Subscribe, SubscribeFails, TellInv, TypeOK
<1>3. CASE ReadFlag
  BY <1>3 DEF ReadFlag, Reported, TellInv, Results
<1>4. CASE Report
  BY <1>1, <1>4 DEF Report, AfterReport, TellInv, TypeOK
<1>5. CASE ReportFails
  BY <1>5 DEF ReportFails, AfterReport, TellInv
<1>6. CASE ReportDone
  BY <1>6 DEF ReportDone, TellInv
<1>7. CASE ClearFlag
  BY <1>7 DEF ClearFlag, Cleared, TellInv, Results, ResultOf
<1>8. CASE Fetch
  BY <1>8 DEF Fetch, TellInv
<1>9. QED
  BY <1>2, <1>3, <1>4, <1>5, <1>6, <1>7, <1>8 DEF Check

\* So do the forced upgrade, the offers and the steps of the handler.
LEMMA TellHandler ==
  ASSUME Inv, TellInv, \/ ForcedUpgrade \/ ForcePublishFails \/ OfferIgnored \/ OfferTaken
                       \/ HandlerStep \/ DownloadFails \/ ReportSuccessFails
  PROVE  TellInv'
<1> USE DEF flash, checkVars, handlerVars
<1>1. CASE ForceMark \/ ForceStore \/ ForcePublishFails
  BY <1>1 DEF ForceMark, ForceStore, ForcePublishFails, TellInv, Results
<1>2. CASE ForcePublish
  BY <1>2 DEF ForcePublish, TellInv
<1>3. CASE StoreResult
  <2>1. /\ UNCHANGED <<bootVer, fw, type, task, subscribed, ota_flag, url, otaurl, told>>
        /\ handler = "equal" /\ handler' = "restart"
        /\ task \in {"reporting", "fetch", "ready", "force_publish"}
    BY <1>3 DEF StoreResult, Inv, TypeOK
  <2>2. QED
    BY <2>1 DEF TellInv
<1>4. CASE OfferIgnored \/ OfferTaken
  <2>1. subscribed /\ UNCHANGED <<OTA_F, checkVars, told>> /\ handler # "restart"
    BY <1>4 DEF OfferIgnored, OfferTaken, Reading, TellInv
  <2>2. QED
    BY <2>1, TellFrame
<1>5. CASE (HandlerStep /\ ~StoreResult) \/ DownloadFails \/ ReportSuccessFails
  <2>1. handler \notin {"idle", "restart"} /\ UNCHANGED <<OTA_F, checkVars, told>>
    BY <1>5 DEF HandlerStep, GarbageReturn, VersionError, AlreadyRunning, Decide, Download,
       DownloadFails, ReportSuccess, ReportSuccessFails, ReportFailure, Fail
  <2>2. QED
    BY <2>1, TellFrame DEF TellInv
<1>6. QED
  BY <1>1, <1>2, <1>3, <1>4, <1>5 DEF ForcedUpgrade

\* Every step keeps it.
LEMMA TellStep == Inv /\ TellInv /\ [Next]_vars => TellInv'
<1> SUFFICES ASSUME Inv, TellInv, [Next]_vars
             PROVE  TellInv'
  OBVIOUS
<1>1. CASE UNCHANGED vars
  BY <1>1 DEF TellInv, vars, flash, checkVars, handlerVars
<1>2. CASE Restart \/ Crash \/ Boot
  <2>1. /\ task' \in {"off", "subscribe"} /\ handler' = "idle" /\ otaurl' = <<>>
        /\ ~subscribed'
    BY <1>2 DEF Restart, Crash, PowerOff, Boot, handlerVars, Inv, TypeOK, TellInv
  <2>2. QED
    BY <2>1 DEF TellInv
<1>3. CASE World /\ ~Crash
  <2>1. /\ UNCHANGED <<OTA_F, checkVars, told, handler>>
        /\ otaurl' # <<>> => subscribed
    BY <1>3 DEF World, PushOffer, LoseOffer, ForceRequest, flash, handlerVars, TellInv
  <2>2. QED
    BY <2>1, TellFrame DEF TellInv
<1>4. QED
  BY <1>1, <1>2, <1>3, TellCheck, TellHandler DEF Next, Device, Faulty, World

\* In every reachable state the handler has done, and said, what its position means, and
\* the flash holds what the check's position means.
LEMMA Invariant == Spec => [](Inv /\ TellInv)
<1>1. Init => TypeOK
  <2> SUFFICES ASSUME Init
               PROVE  TypeOK
    OBVIOUS
  <2>1. NoOta \in OtaType /\ <<>> \in Seq(Offers \cup {Garbage})
    BY DEF NoOta, OtaType
  <2>2. QED
    BY <2>1 DEF Init, TypeOK, OtaType, OtaFlags, Types
<1>2. Init => HandlerInv
  BY DEF Init, HandlerInv, NoOta
<1>3. Init => TellInv
  BY DEF Init, TellInv
<1>4. QED
  BY <1>1, <1>2, <1>3, InvStep, TellStep, PTL DEF Spec, Inv

\* The state always has the types of TypeOK, and the handler is marked while it works.
THEOREM TypeCorrect == Spec => []TypeOK
BY Invariant, PTL DEF Inv

\* The handler restarts the device after one result, and a true one.
THEOREM ResultIsTrue == Spec => []TruthfulResult
<1>1. Inv => TruthfulResult
  BY DEF Inv, HandlerInv, TruthfulResult
<1>2. QED
  BY <1>1, Invariant, PTL

\* The firmware to boot is only replaced by a newer one.
THEOREM NoDowngrade == Spec => NeverDowngrade
<1>1. Inv /\ [Next]_vars => [bootVer' # bootVer => Older(bootVer.nums, bootVer'.nums)]_vars
  <2> SUFFICES ASSUME Inv, Next, bootVer' # bootVer
               PROVE  Older(bootVer.nums, bootVer'.nums)
    BY DEF vars
  <2>1. Download
    BY DEF Next, Device, Faulty, World, Check, Subscribe, SubscribeFails, ReadFlag, Report,
       ReportFails, ReportDone, ClearFlag, Fetch, ForcedUpgrade, ForceMark, ForceStore, ForcePublish, ForcePublishFails,
       OfferIgnored, OfferTaken, HandlerStep, GarbageReturn, VersionError, AlreadyRunning,
       Decide, StoreResult, DownloadFails, ReportSuccess, ReportSuccessFails, ReportFailure,
       Fail, Restart, Crash, PowerOff, Boot, PushOffer, LoseOffer, ForceRequest, flash
  <2>2. /\ handler = "download" /\ bootVer' = ota.ota_version
        /\ task # "off"
    BY <2>1 DEF Download, Inv, TypeOK
  <2>3. /\ WellFormed(ota.ota_version) /\ WellFormed(fw) /\ bootVer = fw
        /\ Newer(ota.ota_version.nums, fw.nums)
    BY <2>2 DEF Inv, HandlerInv
  <2>4. QED
    BY <2>2, <2>3, NewerIsOrder DEF WellFormed
<1>2. QED
  BY <1>1, Invariant, PTL DEF Spec, NeverDowngrade

\* The version the handler works on is not replaced before the handler is idle again.
THEOREM JobKept == Spec => JobNotReplaced
<1> DEFINE Kept1 == handler \notin {"idle", "restart"} /\ handler' # "idle"
                     => ota'.ota_version = ota.ota_version
<1>1. Inv /\ [Next]_vars => [Kept1]_vars
  <2> SUFFICES ASSUME Inv, Next, handler \notin {"idle", "restart"}, handler' # "idle"
               PROVE  ota'.ota_version = ota.ota_version
    OBVIOUS
  <2>1. ota \in OtaType /\ ota.ota_in_progress
    BY DEF Inv, TypeOK, OtaType
  <2>2. ~OfferTaken /\ ~Restart /\ ~Crash
    BY <2>1 DEF OfferTaken, Ignored, Restart, Crash, PowerOff
  <2>3. CASE StoreResult \/ Fail
    BY <2>1, <2>3, OtaUpdates DEF StoreResult, Fail
  <2>4. CASE ReportSuccess \/ ReportFailure
    BY <2>1, <2>4 DEF ReportSuccess, ReportFailure, SetStatus, OtaType
  <2>5. CASE GarbageReturn \/ VersionError \/ Boot
    BY <2>5 DEF GarbageReturn, VersionError, Boot, Inv, TypeOK
  <2>6. CASE UNCHANGED ota
    BY <2>6
  <2>7. QED
    BY <2>2, <2>3, <2>4, <2>5, <2>6
       DEF Next, Device, Faulty, World, Check, Subscribe, SubscribeFails, ReadFlag, Report,
       ReportFails, ReportDone, ClearFlag, Fetch, ForcedUpgrade, ForceMark, ForceStore, ForcePublish, ForcePublishFails,
       OfferIgnored, HandlerStep, AlreadyRunning, Decide, Download, DownloadFails,
       ReportSuccessFails, PushOffer, LoseOffer, ForceRequest, handlerVars
<1>2. QED
  BY <1>1, Invariant, PTL DEF Spec, JobNotReplaced

\* A recorded result leaves the flash only after its report, or where the check could not
\* subscribe.
THEOREM ReportedFirst == Spec => ReportedBeforeCleared
<1> DEFINE Leaves == \/ OTA_F \in Results /\ OTA_F' # OTA_F
                     \/ OTA_F = "FORCE_OTA_START" /\ OTA_F' = "CUSTOM_INIT"
<1>1. Inv /\ TellInv /\ [Next]_vars
        => [Leaves => told \in {OTA_F, "failed"} \/ Unsubscribed]_vars
  <2> SUFFICES ASSUME Inv, TellInv, Next, Leaves
               PROVE  told \in {OTA_F, "failed"} \/ Unsubscribed
    OBVIOUS
  <2>1. OTA_F \in DOMAIN ResultOf
    BY DEF Results, ResultOf
  <2>2. ClearFlag \/ ForceStore \/ StoreResult
    BY DEF Next, Device, Faulty, World, Check, Subscribe, SubscribeFails, ReadFlag, Report,
       ReportFails, ReportDone, Fetch, ForcedUpgrade, ForceMark, ForcePublish,
       ForcePublishFails, OfferIgnored, OfferTaken, HandlerStep, GarbageReturn, VersionError,
       AlreadyRunning, Decide, Download, DownloadFails, ReportSuccess, ReportSuccessFails,
       ReportFailure, Fail, Restart, Crash, PowerOff, Boot, PushOffer, LoseOffer,
       ForceRequest, flash
  <2>3. CASE ClearFlag
    BY <2>1, <2>3 DEF ClearFlag, TellInv
  <2>4. CASE ForceStore
    BY <2>4 DEF ForceStore, TellInv, Inv, TypeOK, Unsubscribed
  <2>5. CASE StoreResult
    <3>1. /\ handler = "equal" /\ subscribed
          /\ task \in {"reporting", "fetch", "ready", "force_publish"}
          /\ OTA_F' # "CUSTOM_INIT"
      BY <2>5 DEF StoreResult, TellInv, Inv, TypeOK
    <3>2. QED
      BY <3>1 DEF TellInv
  <2>6. QED
    BY <2>2, <2>3, <2>4, <2>5
<1>2. QED
  BY <1>1, Invariant, PTL DEF Spec, ReportedBeforeCleared
==============================================================================
