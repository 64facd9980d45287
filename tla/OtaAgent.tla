------------------------------ MODULE OtaAgent ------------------------------
(***************************************************************************)
(* Over-the-air upgrades, across restarts of the device.                   *)
(*                                                                         *)
(* The cloud task runs esp_cloud_ota_check() once after it connects: it    *)
(* subscribes to <device_id>/device/otaurl, reports the result recorded in *)
(* flash (OTA_F) by an earlier run, clears it and asks for an upgrade      *)
(* (otafetch).  Offers are given to ota_url_handler() whenever the MQTT    *)
(* client reads the network: when the task yields, but also inside every   *)
(* publish, hence inside the check and inside the handler itself.          *)
(*                                                                         *)
(* What survives a restart: OTA_F and the firmware to boot.  The publisher *)
(* of offers, the download and the requests of forced upgrades are         *)
(* external.                                                               *)
(***************************************************************************)
EXTENDS Naturals, Sequences, FiniteSets

CONSTANTS
  Versions,     \* version strings: their numbers as sscanf reads them, their text
  Offers,       \* JSON offers: version, and whether a url is present
  Garbage,      \* a payload that does not parse
  NoVersion,    \* an offer without ota_version
  MaxOffers,    \* bound: offers pushed to the device
  MaxForces,    \* bound: requests of a forced upgrade
  MaxCrashes,   \* bound: losses of power
  MaxFaults     \* bound: failed subscriptions, publishes and downloads, lost offers

WellFormed(v) == v.nums \in Nat \X Nat \X Nat

ASSUME VersionsAssumption ==
  /\ \A v \in Versions : v.nums \in (Nat \X Nat \X Nat) \cup {<<>>}
  /\ \A v, w \in Versions : v.text = w.text => v = w
  /\ NoVersion \notin Versions
ASSUME OffersAssumption ==
  /\ Offers \subseteq [version : Versions \cup {NoVersion}, url : BOOLEAN]
  /\ Garbage \notin Offers
ASSUME BoundsAssumption ==
  MaxOffers \in Nat /\ MaxForces \in Nat /\ MaxCrashes \in Nat /\ MaxFaults \in Nat

VARIABLES
  bootVer,   \* flash: the firmware the next boot runs
  OTA_F,     \* flash: custom_config_storage "OTA_F"
  fw,        \* int_handle->fw_version
  type,      \* ota_update_handle.type
  task,      \* the cloud task, outside the handler
  subscribed,\* to <device_id>/device/otaurl
  ota_flag,  \* esp_cloud_ota_check(): the OTA_F it has read
  handler,   \* ota_url_handler(), which runs inside the task
  ota,       \* esp_cloud_ota_t: ota_in_progress, ota_version, last_reported_status
  url,       \* the offer being handled has a url
  otaurl,    \* offers on their way to the device
  said,      \* history: results reported of the upgrade in hand
  told,      \* history: the OTA_F the check of this boot has reported
  offers, forces, crashes, faults

flash    == <<bootVer, OTA_F>>
checkVars == <<task, subscribed, ota_flag>>
handlerVars == <<handler, ota, url>>
counters == <<offers, forces, crashes, faults>>
vars == <<flash, fw, type, checkVars, handlerVars, otaurl, said, told, counters>>

OtaFlags == {"CUSTOM_INVALID", "CUSTOM_INIT", "APP_OTA_OK", "APP_OTA_FAIL",
             "FORCE_OTA_START", "FORCE_OTA_FINISH"}
Types == {"NONE", "FORCE_OTA_INIT", "FORCE_OTA_START", "FORCE_OTA_UPDATE"}

NoOta == [ota_in_progress |-> FALSE, ota_version |-> NoVersion,
          last_reported_status |-> "NONE"]

Say(result) == said' = said \cup {result}

\* ota_in_progress is set at the head of the handler and reset at most of its ends.
\* (NotMarked, StillMarked: mutants.)
NotMarked == ota
Marked == [ota EXCEPT !.ota_in_progress = TRUE]
StillMarked == ota
Released == [ota EXCEPT !.ota_in_progress = FALSE]

\* A call that may fail does.
Fault == faults < MaxFaults /\ faults' = faults + 1 /\ UNCHANGED <<offers, forces, crashes>>

-----------------------------------------------------------------------------
(***************************************************************************)
(* esp_cloud_ota_check(), from the work queue, once per boot.              *)
(***************************************************************************)
Subscribe ==
  /\ task = "subscribe"
  /\ task' = "read" /\ subscribed' = TRUE
  /\ UNCHANGED <<flash, fw, type, ota_flag, handlerVars, otaurl, said, told, counters>>

\* The check returns, and nothing runs it again before the next boot.
SubscribeFails ==
  /\ task = "subscribe" /\ Fault
  /\ task' = "ready"
  /\ UNCHANGED <<flash, fw, type, subscribed, ota_flag, handlerVars, otaurl, said, told>>

\* What the check reports for the flag it reads: APP_* results by MQTT, FORCE_* ones
\* to the server.
ResultOf == [APP_OTA_OK |-> "success", APP_OTA_FAIL |-> "failure",
             FORCE_OTA_START |-> "failure", FORCE_OTA_FINISH |-> "success"]

\* The flags whose branch begins with a report.  (AllButFinish: a mutant.)
AllButFinish == DOMAIN ResultOf \ {"FORCE_OTA_FINISH"}
Reported == DOMAIN ResultOf

ReadFlag ==
  /\ task = "read"
  /\ ota_flag' = OTA_F
  /\ task' = CASE OTA_F = "CUSTOM_INIT" -> "fetch"
               [] OTA_F \in Reported -> "report"
               [] OTHER -> "clear"
  /\ UNCHANGED <<flash, fw, type, subscribed, handlerVars, otaurl, said, told, counters>>

\* The publish of OTA_FINISH_2 or OTA_FAIT_2 reads the network.
AfterReport == IF ota_flag \in {"APP_OTA_OK", "APP_OTA_FAIL"} THEN "reporting" ELSE "clear"

Report ==
  /\ task = "report"
  /\ Say(ResultOf[ota_flag]) /\ told' = ota_flag
  /\ task' = AfterReport
  /\ UNCHANGED <<flash, fw, type, subscribed, ota_flag, handlerVars, otaurl, counters>>

\* A report that fails, or has no app_topic to go to, is logged and not repeated.
ReportFails ==
  /\ task = "report" /\ Fault
  /\ told' = "failed"
  /\ task' = AfterReport
  /\ UNCHANGED <<flash, fw, type, subscribed, ota_flag, handlerVars, otaurl, said>>

\* The publish ends.
ReportDone ==
  /\ task = "reporting" /\ handler = "idle"
  /\ task' = "clear"
  /\ UNCHANGED <<flash, fw, type, subscribed, ota_flag, handlerVars, otaurl, said, told,
                 counters>>

\* A result is reported in one boot only, unless power is lost.  (Kept: a mutant.)
Kept == OTA_F
Cleared == "CUSTOM_INIT"

ClearFlag ==
  /\ task = "clear"
  /\ OTA_F' = Cleared
  /\ type' = IF ota_flag = "FORCE_OTA_FINISH" THEN "FORCE_OTA_UPDATE" ELSE type
  /\ task' = "fetch"
  /\ UNCHANGED <<bootVer, fw, subscribed, ota_flag, handlerVars, otaurl, said, told, counters>>

\* otafetch is published; whether it arrives shows in the offers that follow.
Fetch ==
  /\ task = "fetch" /\ handler = "idle"
  /\ task' = "ready"
  /\ UNCHANGED <<flash, fw, type, subscribed, ota_flag, handlerVars, otaurl, said, told,
                 counters>>

Check == \/ Subscribe \/ ReadFlag \/ Report \/ ReportDone \/ ClearFlag \/ Fetch

(***************************************************************************)
(* The forced upgrade in the loop of esp_cloud_task().                     *)
(***************************************************************************)
ForceMark ==
  /\ task = "ready" /\ handler = "idle"
  /\ type = "FORCE_OTA_INIT"
  /\ type' = "FORCE_OTA_START"
  /\ task' = "force_store"
  /\ UNCHANGED <<flash, fw, subscribed, ota_flag, handlerVars, otaurl, said, told, counters>>

ForceStore ==
  /\ task = "force_store"
  /\ OTA_F' = "FORCE_OTA_START"
  /\ said' = {}
  /\ task' = "force_publish"
  /\ UNCHANGED <<bootVer, fw, type, subscribed, ota_flag, handlerVars, otaurl, told, counters>>

\* app_publish_ota(): to the topic the device itself listens to.  A long url is cut at
\* the end of a buffer of 200 bytes.
ForcePublish ==
  /\ task = "force_publish" /\ handler = "idle"
  /\ \E o \in Offers \cup {Garbage} :
       otaurl' = IF subscribed THEN Append(otaurl, o) ELSE otaurl
  /\ task' = "ready"
  /\ UNCHANGED <<flash, fw, type, subscribed, ota_flag, handlerVars, said, told, counters>>

ForcePublishFails ==
  /\ task = "force_publish" /\ handler = "idle" /\ Fault
  /\ task' = "ready"
  /\ UNCHANGED <<flash, fw, type, subscribed, ota_flag, handlerVars, otaurl, said, told>>

ForcedUpgrade == ForceMark \/ ForceStore \/ ForcePublish

(***************************************************************************)
(* ota_url_handler()                                                       *)
(***************************************************************************)

\* The MQTT client reads the network: in a yield of the task, in a publish of the
\* check, in a publish of the handler.
Reading == \/ handler = "idle" /\ task \in {"reporting", "fetch", "ready", "force_publish"}
           \/ handler \in {"garbage", "compare", "equal", "succeeded", "failed", "fail"}

\* One upgrade at a time.  (Reentrant: a mutant.)
Reentrant == FALSE
Ignored == ota.ota_in_progress

OfferIgnored ==
  /\ Reading /\ otaurl # <<>>
  /\ Ignored
  /\ otaurl' = Tail(otaurl)
  /\ UNCHANGED <<flash, fw, type, checkVars, handlerVars, said, told, counters>>

\* The head of the handler: an offer that does not parse, one without a version, and
\* the others.  Each case is followed by a publish.
OfferTaken ==
  /\ Reading /\ otaurl # <<>>
  /\ ~Ignored
  /\ otaurl' = Tail(otaurl)
  /\ LET offer == Head(otaurl)
     IN \/ /\ offer = Garbage
           /\ handler' = "garbage"
           /\ ota' = Marked
           /\ said' = {"failure"}
           /\ url' = FALSE
        \/ /\ offer # Garbage /\ offer.version = NoVersion
           /\ handler' = "fail"
           /\ ota' = Marked
           /\ said' = {"failure"}
           /\ url' = FALSE
        \/ /\ offer # Garbage /\ offer.version # NoVersion
           /\ handler' = "compare"
           /\ ota' = [Marked EXCEPT !.ota_version = offer.version]
           /\ said' = {}
           /\ url' = offer.url
  /\ UNCHANGED <<flash, fw, type, checkVars, told, counters>>

\* json_parse_start() failed: the handler returns.
GarbageReturn ==
  /\ handler = "garbage"
  /\ handler' = "idle"
  /\ ota' = Released
  /\ UNCHANGED <<flash, fw, type, checkVars, url, otaurl, said, told, counters>>

\* The comparison of the handler.  (NewerFix: a mutant.)
NewerFix(r, c) ==
  \/ r[1] > c[1]
  \/ r[1] = c[1] /\ r[2] > c[2]
  \/ r[1] = c[1] /\ r[3] > c[3]
Newer(r, c) ==
  \/ r[1] > c[1]
  \/ r[1] = c[1] /\ r[2] > c[2]
  \/ r[1] = c[1] /\ r[2] = c[2] /\ r[3] > c[3]

Parsed == WellFormed(ota.ota_version) /\ WellFormed(fw)
SameText == ota.ota_version.text = fw.text

\* sscanf() did not read three numbers: the handler returns as it is.
VersionError ==
  /\ handler = "compare" /\ ~Parsed
  /\ handler' = "idle"
  /\ UNCHANGED <<flash, fw, type, checkVars, ota, url, otaurl, said, told, counters>>

\* The version that runs: OTA_FINISH_1 is published.
AlreadyRunning ==
  /\ handler = "compare" /\ Parsed
  /\ SameText
  /\ handler' = "equal"
  /\ Say("success")
  /\ UNCHANGED <<flash, fw, type, checkVars, ota, url, otaurl, told, counters>>

\* An older version (fail), a newer one without a url (OTA_FAIL_1, then fail), a newer one
Decide ==
  /\ handler = "compare" /\ Parsed
  /\ ~SameText
  /\ LET upgrade == Newer(ota.ota_version.nums, fw.nums)
     IN \/ ~upgrade /\ handler' = "fail" /\ said' = said
        \/ upgrade /\ ~url /\ handler' = "fail" /\ Say("failure")
        \/ upgrade /\ url /\ handler' = "download" /\ said' = said
  /\ UNCHANGED <<flash, fw, type, checkVars, ota, url, otaurl, told, counters>>

\* What is recorded for the check of the next boot
StoreResult ==
  /\ handler = "equal"
  /\ OTA_F' = IF type = "FORCE_OTA_START" THEN "FORCE_OTA_FINISH" ELSE "APP_OTA_OK"
  /\ ota' = Released
  /\ handler' = "restart"
  /\ UNCHANGED <<bootVer, fw, type, checkVars, url, otaurl, said, told, counters>>

\* cloud_agent_ota_perform(): esp_https_ota() writes the image and selects it.
Download ==
  /\ handler = "download"
  /\ bootVer' = ota.ota_version
  /\ handler' = "succeeded"
  /\ UNCHANGED <<OTA_F, fw, type, checkVars, ota, url, otaurl, said, told, counters>>

DownloadFails ==
  /\ handler = "download" /\ Fault
  /\ handler' = "failed"
  /\ UNCHANGED <<flash, fw, type, checkVars, ota, url, otaurl, said, told>>

\* esp_cloud_report_ota_status(), for a publish that succeeds
SetStatus(status) == ota' = [ota EXCEPT !.last_reported_status = status]

\* OTA_STATUS_SUCCESS is published; the handler restarts the device.
\* (FallThrough: a mutant.)
FallThrough == "fail"
AfterSuccess == "restart"

ReportSuccess ==
  /\ handler = "succeeded"
  /\ SetStatus("OTA_STATUS_SUCCESS")
  /\ Say("success")
  /\ handler' = AfterSuccess
  /\ UNCHANGED <<flash, fw, type, checkVars, url, otaurl, told, counters>>

\* The publish failed: OTA_FINISH_1 is published instead, unless a success was reported
\* before.
ReportSuccessFails ==
  /\ handler = "succeeded" /\ Fault
  /\ IF ota.last_reported_status # "OTA_STATUS_SUCCESS" THEN Say("success") ELSE said' = said
  /\ handler' = AfterSuccess
  /\ UNCHANGED <<flash, fw, type, checkVars, ota, url, otaurl, told>>

\* OTA_STATUS_FAILED
ReportFailure ==
  /\ handler = "failed"
  /\ SetStatus("OTA_STATUS_FAILED")
  /\ Say("failure")
  /\ handler' = "fail"
  /\ UNCHANGED <<flash, fw, type, checkVars, url, otaurl, told, counters>>

\* end: OTA_FAIL_1, then the restart
Fail ==
  /\ handler = "fail"
  /\ Say("failure")
  /\ ota' = Released
  /\ handler' = "restart"
  /\ UNCHANGED <<flash, fw, type, checkVars, url, otaurl, told, counters>>

HandlerStep == \/ GarbageReturn \/ VersionError \/ AlreadyRunning \/ Decide \/ StoreResult
               \/ Download \/ ReportSuccess \/ ReportFailure \/ Fail

(***************************************************************************)
(* Restarts: everything but the flash is lost, the MQTT session with it.   *)
(***************************************************************************)
PowerOff ==
  /\ task' = "off" /\ subscribed' = FALSE /\ ota_flag' = "CUSTOM_INVALID"
  /\ handler' = "idle" /\ ota' = NoOta /\ url' = FALSE
  /\ type' = "NONE"
  /\ otaurl' = <<>>
  /\ told' = "nothing"
  /\ UNCHANGED <<flash, fw, said>>

\* esp_restart()
Restart == handler = "restart" /\ PowerOff /\ UNCHANGED counters

Crash ==
  /\ task # "off"
  /\ crashes < MaxCrashes /\ crashes' = crashes + 1
  /\ PowerOff
  /\ UNCHANGED <<offers, forces, faults>>

Boot ==
  /\ task = "off"
  /\ fw' = bootVer
  /\ task' = "subscribe"
  /\ UNCHANGED <<flash, type, subscribed, ota_flag, handlerVars, otaurl, said, told, counters>>

(***************************************************************************)
(* Outside the device (external)                                           *)
(***************************************************************************)
\* By the cloud, in answer to otafetch or not, or by the phone's application
PushOffer(o) ==
  /\ subscribed
  /\ offers < MaxOffers /\ offers' = offers + 1
  /\ otaurl' = Append(otaurl, o)
  /\ UNCHANGED <<flash, fw, type, checkVars, handlerVars, said, told, forces, crashes, faults>>

LoseOffer ==
  /\ otaurl # <<>> /\ Fault
  /\ otaurl' = Tail(otaurl)
  /\ UNCHANGED <<flash, fw, type, checkVars, handlerVars, said, told>>

\* ota_update_handle.type is set by code outside the repository.
ForceRequest ==
  /\ task # "off"
  /\ forces < MaxForces /\ forces' = forces + 1
  /\ type' = "FORCE_OTA_INIT"
  /\ UNCHANGED <<flash, fw, checkVars, handlerVars, otaurl, said, told, offers, crashes, faults>>

-----------------------------------------------------------------------------
Init ==
  /\ bootVer \in Versions
  /\ OTA_F \in {"CUSTOM_INVALID", "CUSTOM_INIT"}
  /\ fw = bootVer /\ type = "NONE"
  /\ task = "off" /\ subscribed = FALSE /\ ota_flag = "CUSTOM_INVALID"
  /\ handler = "idle" /\ ota = NoOta /\ url = FALSE
  /\ otaurl = <<>>
  /\ said = {} /\ told = "nothing"
  /\ offers = 0 /\ forces = 0 /\ crashes = 0 /\ faults = 0

Device == Check \/ ForcedUpgrade \/ OfferIgnored \/ OfferTaken \/ HandlerStep \/ Restart \/ Boot

Faulty == SubscribeFails \/ ReportFails \/ ForcePublishFails \/ DownloadFails \/ ReportSuccessFails

World == (\E o \in Offers \cup {Garbage} : PushOffer(o)) \/ LoseOffer \/ ForceRequest \/ Crash

Next == Device \/ Faulty \/ World

Spec == Init /\ [][Next]_vars

\* The cloud task is scheduled and the network read.
FairSpec == Spec /\ WF_vars(Device)

-----------------------------------------------------------------------------
(***************************************************************************)
(* Properties                                                              *)
(***************************************************************************)
\* Types of the state; while the handler works it is marked, and it works inside a call
\* of the cloud task that reads the network.
TypeOK ==
  /\ bootVer \in Versions /\ fw \in Versions
  /\ OTA_F \in OtaFlags /\ ota_flag \in OtaFlags
  /\ type \in Types
  /\ task \in {"off", "subscribe", "read", "report", "reporting", "clear", "fetch",
               "ready", "force_store", "force_publish"}
  /\ handler \in {"idle", "garbage", "compare", "equal", "download", "succeeded", "failed",
                  "fail", "restart"}
  /\ ota \in [ota_in_progress : BOOLEAN, ota_version : Versions \cup {NoVersion},
              last_reported_status : {"NONE", "OTA_STATUS_SUCCESS", "OTA_STATUS_FAILED"}]
  /\ url \in BOOLEAN
  /\ otaurl \in Seq(Offers \cup {Garbage})
  /\ said \in SUBSET {"success", "failure"}
  /\ subscribed \in BOOLEAN
  /\ told \in {"nothing", "failed"} \cup DOMAIN ResultOf
  /\ offers \in Nat /\ forces \in Nat /\ crashes \in Nat /\ faults \in Nat
  /\ handler \notin {"idle", "restart"} => ota.ota_in_progress
  /\ handler # "idle" => task \in {"reporting", "fetch", "ready", "force_publish"}

\* Whatever is offered, interrupted or nested, the firmware to boot is only ever replaced
\* by a newer one, number by number, never a second time before the restart.
Older(c, r) == \E i \in 1 .. 3 : c[i] < r[i] /\ \A j \in 1 .. i - 1 : c[j] = r[j]
NeverDowngrade == [][bootVer' # bootVer => Older(bootVer.nums, bootVer'.nums)]_vars

\* While the handler works on an offer, no other one replaces the version it works on,
\* though its own publishes read the network.
JobNotReplaced ==
  [][handler \notin {"idle", "restart"} /\ handler' # "idle"
     => ota'.ota_version = ota.ota_version]_vars

\* At the restart the handler ends with, one result has been reported of the offer: a
\* success, of exactly the version the device will boot, or a failure, and then nothing
\* was installed.
BothResults == said = {"success", "failure"}
TruthfulResult ==
  handler = "restart" =>
    /\ said # {} /\ ~BothResults
    /\ "success" \in said => bootVer = ota.ota_version
    /\ "failure" \in said => bootVer = fw

\* Again and again the device is ready for an offer, but for a version that is no version
\* and a subscription that failed: then only a restart helps.
Ready == task = "ready" /\ subscribed /\ handler = "idle" /\ ~ota.ota_in_progress
Wedged == ota.ota_in_progress /\ handler = "idle" /\ ota.ota_version # NoVersion /\ ~Parsed
Unsubscribed == task \in {"ready", "force_store", "force_publish"} /\ ~subscribed
AvailableAgain == []<>(Ready \/ Unsubscribed \/ Wedged)

\* The same, as esp_cloud_ota.h promises it: "whenever an OTA is available".
AlwaysAvailableAgain == []<>(Ready \/ Unsubscribed)

\* The results an upgrade leaves in flash.  FORCE_OTA_START is none yet: it becomes one,
\* a failure, when a later boot finds it.
Results == DOMAIN ResultOf \ {"FORCE_OTA_START"}

\* A recorded result leaves the flash only after the check of the same boot has reported
\* it, whatever the offers delivered inside that report do to the flag: it is neither
\* cleared nor overwritten before, unless the check could not subscribe.  A report that
\* failed is the one way to lose it.
ReportedBeforeCleared ==
  [][\/ OTA_F \in Results /\ OTA_F' # OTA_F
     \/ OTA_F = "FORCE_OTA_START" /\ OTA_F' = "CUSTOM_INIT"
     => \/ told \in {OTA_F, "failed"}
        \/ Unsubscribed]_vars

\* A recorded result is reported and then cleared eventually, whatever is interrupted,
\* unless the check could not subscribe.
ResultCleared ==
  \A f \in Results :
    OTA_F = f ~> (OTA_F = "CUSTOM_INIT" /\ told \in {f, "failed"}) \/ Unsubscribed
=============================================================================
