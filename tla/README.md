# Models of the ESP Cloud agent

TLA+ modules, TLC configurations and TLAPS proofs for the agent under
`src/esp-cloud-agent-feature-cuco/`: a C library for ESP32 devices that keeps
device parameters in an AWS IoT device shadow, upgrades the firmware over the air,
reports diagnostics and binds the device to a user and to Alexa.
File names below are relative to that directory's `components/`.

## 1. The system

### Who runs

| actor | what it does |
|---|---|
| cloud task (`esp_cloud_task`) | connects, registers and reports, then loops: work queue, `esp_cloud_platform_wait`, Alexa flags, forced upgrade. MQTT callbacks run inside its yields **and inside every QoS1 publish**, so also inside other callbacks |
| application tasks | call `esp_cloud_update_*_param`, `esp_cloud_queue_work`, start and stop |
| FreeRTOS timer service | the callbacks of the push button, hence the application's reaction to a press; the periodic diagnostics, which queue work |
| GPIO interrupt | restarts the timers of the button |
| broker, shadow service, users, phone application | outside the device: deltas, answers, upgrade offers, requests |

The tasks share the parameter table, the agent's handle and a few global flags
without a lock; the only synchronised object is the work queue.

### Components

| component | state | operations | hard behaviour | what makes it correct |
|---|---|---|---|---|
| dynamic parameters and shadow (`esp_cloud.c`, `aws_cloud.c`, `aws_custom_utils.c`) | per parameter `val`, `flags`, `pData`; `shadowUpdateInProgress`; the handles to report | update a parameter, register, report all, scan and report, apply a delta, take an answer | two tasks on `val` and `flags`; answers lost, late, rejected; a stale copy | at rest the shadow reports what the device drives; one update at a time; the task always returns to its queue |
| upgrades (`esp_cloud_ota.c`, `cloud_agent.c`, loop of `esp_cloud.c`) | `ota_in_progress`, `ota_version`, `last_reported_status`; `OTA_F` and the boot image in flash | check after boot, handle an offer, download, report, forced upgrade | restarts between any two steps; offers nested in the handler's publishes | never a downgrade; one true result; a recorded result is reported, then cleared; the device listens again |
| work queue (`esp_cloud.c`) | 8 entries | queue work, drain | full queue; entries queued while draining | accepted work runs once, in order; refused work is known to be refused |
| diagnostics (`esp_cloud_diagnostics.c`) | list of entries, timers | register, tick, add data, report | tick while the task is busy; full queue | registered handlers go on being called; no data leaks |
| user association (`esp_cloud_user_assoc.c`) | one request | handle, report | answer sent before the work is queued | what is confirmed is reported |
| life cycle (`esp_cloud.c`, `aws_cloud.c`, `cloud_agent.c`) | `cloud_stop`, connection, `init_done` | start, stop, connect, disconnect | stop and start race with the end of the task | one task; a stop stops |
| subscriptions and publish (`aws_cloud.c`) | 3 slots | subscribe, unsubscribe, dispatch, publish | prefix match; stale subscriptions; failures of the broker | no topic has two slots, and none without the broker's |
| Alexa session (`esp_cloud.c`) | `Wait_for_alexa_in`, `Wait_for_alexa_out`, parameter `alexa` | sign in, sign out, report | two writers without a lock; requests answered later | the reported session is the real one |
| push button (`button/button.c`) | state, timers | edge, push, release, tap, long press, serial | bounce; interrupt between a callback's steps | a tap or a long press, not both; a release after every push |
| JSON generator and parser (`json_generator`, `json_parser`, `jsmn`) | buffer; tokens | add, flush; tokenize, search, walk | flush at the edge of the buffer; two passes that must agree; sizes of nested tokens | what comes out is what was asked for; what was put in is found |
| time sync, storage, memory, device information, generated protobuf, examples | - | wrappers and wiring | - | - |

`PROJECT.json` lists every component with its status, and under `hazards` every
place where the code is hard to test, with the property that watches it.

## 2. Modules

| module | models | status |
|---|---|---|
| `ShadowSync` (+ `MCShadowSync`, `ShadowSync_proofs`) | parameters and shadow | checked, proved |
| `OtaAgent` (+ `MCOtaAgent`, `OtaAgent_proofs`) | upgrades across restarts | checked, proved |
| `Button` (+ `MCButton`, `Button_proofs`) | interrupt, timers, callbacks of the push button | checked, proved |
| `Agent` (+ `MCAgent`, `Agent_proofs`) | start, stop, connect; the work queue, diagnostics, user association | checked, proved |
| `AlexaSession` (+ `MCAlexaSession`, `AlexaSession_proofs`) | the table of subscriptions, the Alexa session | checked, proved |
| `JsonText` | what the generator promises, without a buffer | abstract specification |
| `JsonGen` (+ `JsonGen_proofs`) | the generator: calls, buffer, flush callback | proved to implement `JsonText` |
| `JsonParse` (+ `JsonParse_proofs`) | tokenizer and lookups | proved for any text; checked, and the lookups proved, with `JsonDoc` |
| `JsonDoc` (+ `MCJsonDoc`, `JsonDoc_proofs`) | a client that builds a document and a reader that looks things up in it | checked, proved |

The order is that of the damage a mistake does: first what the device tells the
cloud it is doing, then what replaces its firmware, then the press everything starts
with, then starting, stopping and the queue every other part goes through, then the
documents every message is made of and read from, then who gets the messages.

How they compose: `ShadowSync` is the time a task of `Agent` spends in its steps
`RegisterParams` (the first report) and `Wait`, `OtaAgent` its step `RunOtaCheck` and
the forced upgrade of the loop, `AlexaSession` its step `SubscribeAlexa` and the flags
after `Wait`; a press of `Button` is `ShadowSync`'s `AppPress`; a document in any of them
is what `JsonDoc` builds and reads. Each module takes what it needs of the other as a step.
`JsonDoc` composes `JsonGen` and `JsonParse` in one state space.

Left to do: the wait of `ShadowSync` as a refinement of `Wait` in `Agent`, which holds only
where no update has failed; *idle, pushed, pressed* as an abstract specification of
`Button`, which it implements only as long as no command is lost; *at most one agent, which
a stop ends* for `Agent`, which it implements only as long as no start is doubtful.

## 3. ShadowSync

**State.** `val`, `flags`, `pData` are the table; `output` is what the application
drives (`g_output_state` of the example); `app` is the position of the application
task inside `push_btn_cb` → `app_driver_set_state` → `esp_cloud_update_bool_param`;
`pc`, `idx`, `booting` are the position of the cloud task; `delta`, `reg` that of a
delta callback. `toCloud`, `toDevice` and `shadow` are the MQTT session and the
service's document.

**Steps.** Every access of one task to memory the other may change is one action:
`flags |= x` is a load (`AppLoadFlags`, `DeltaLoadFlags`) and a store
(`AppStoreFlags`, `DeltaStoreFlags`); the scan is read (`ScanFlags`), copy
(`ScanCopy`) and clear (`ScanClear`) for each parameter. `shadow_update` ends in one of
`UpdateTooLong`, `UpdateSent`, `UpdateFails`. Callbacks (`RecvAnswer`,
`AnswerTimeout`, `RecvDelta`, `DeltaApply`, `DeltaRefused`) run while `pc = "yield"`.

**History variable.** `missed` has no counterpart in the code. It holds the
parameters whose last change is lost in a way the model names at the step where it
happens. `QuietMeansReported` then says there is no *other* way, and each later
change of the parameter takes it out of `missed` again.

**Abstractions.** Values are members of a set; a document is a function from
parameters to values; its length is counted in entries (`DocCapacity`). The MQTT
client's callback slots are the set `awaiting`. The device's own deltas while it
publishes from the work queue, and updates of the parameter `alexa` by the cloud task
itself, are left out. Registration of deltas is taken to succeed here; `Agent` has the one that
fails. A client that tries to reconnect keeps the wait going, which is a longer stay in
`pc = "yield"`. `ScanFlags` reads `flags` once where the code reads it twice in a row: a change
between the two is one right after the first.

| run | bounds | question |
|---|---|---|
| `shadow_safety` | 2 parameters, 2 values of which the application refuses one, 3 entries per document, 1 press, 1 request, 1 network fault, 1 failed update | types; one update at a time; at rest, reported = driven |
| `shadow_live` | 1 parameter, 1 press, 2 requests, 1 network fault, fair | reported and honoured in the end; queue served |
| `shadow_lost` | 1 press, no fault | shows a change erased by `flags = 0` |
| `shadow_stuck` | 1 failed update, fair | shows the wait that never ends |

Bounds: two parameters are needed for a document that holds one and not the other and
for a scan that is in the middle of the table. The shadow starts with any content, so the
first report may produce deltas without a user, and a press and a request meet the
consequences of those. What more changes on each side do is covered by the proofs.

**Fairness.** Weak fairness of the application's steps after a press, of the cloud
task's loop and of its callbacks: both tasks are scheduled by FreeRTOS, and a yield
returns. Strong fairness of `RecvAnswer` and `RecvDelta`: a yield reads the socket
each time it is called, and the task comes back to a yield in every turn of its
loop, so a message that waits is read even though the wait may be left for a scan in
between. Weak fairness of `ServiceAccepts`: the service answers what reaches it.
Presses, requests and faults are not fair. `shadow_stuck` uses the same fairness.

**Deadlock.** The check is off where nothing need happen: a device without presses,
requests and messages still turns its loop, but after a failed update it can only
yield, which is a stutter in the model. `shadow_live`, where no update fails, keeps it on.

**Proofs** (`ShadowSync_proofs`, for every number of parameters, every set of values
and every bound, from the assumptions in `ShadowSync`):

- `TypeCorrect`: `TypeOK` is inductive.
- `OneUpdate`: `OneUpdateAtATime`, by `AwaitInv`, which adds that ids in flight are
  old and that the flag is set exactly while an answer is awaited.
- `QuietReported`: `QuietMeansReported`. By itself it says nothing of the many states
  that are not at rest. `ReportInv` says that each parameter not in `missed` *will* be
  reported: it is being set by the application, flagged, collected by the scan, in a
  document on its way, or the document already holds what is driven, and in each case
  the value carried is the one driven. `FlagInv` and `AppInv` say which flags are
  local to a callback in progress. Each actor's steps have a lemma of their own
  (`AppReport`, `BootReport`, `ScanReport`, `UpdateReport`, `CallbackReport`,
  `NetworkReport`).

## 4. OtaAgent

**State.** `bootVer` and `OTA_F` survive a restart; `fw` is the version that runs;
`type` is `ota_update_handle.type`; `task`, `ota_flag` the position of the cloud task in
`esp_cloud_ota_check`, its loop or `app_publish_ota`; `subscribed` whether the check got its
subscription; `handler`, `ota`, `url` are those of `ota_url_handler`; `otaurl` the offers on
their way.

**Steps.** The check: `Subscribe` or `SubscribeFails`, which ends it; `ReadFlag`, `Report` or
`ReportFails`, `ReportDone`, `ClearFlag`, `Fetch`. The loop, after a failed subscription too:
`ForceMark`, `ForceStore`, `ForcePublish`. The handler: `OfferIgnored`,
`OfferTaken`, then one action between each two of its publishes, because
`esp_cloud_platform_publish` waits for a QoS1 acknowledgement and so reads the network:
`Reading` says where an offer can be delivered. `Restart` is `esp_restart`, `Crash` a loss
of power at any step, `Boot` the next start; offers, lost offers and requests of forced
upgrades come from outside.

**Data.** A version is the numbers `sscanf("%d.%d.%d")` reads and a text: `strcmp`
compares the texts, the order compares the numbers. `said` is the set of results the
device has handed to its reporting functions for the upgrade in hand; whether they
arrive is not modelled, as the code does not look. `told` is a history variable, too: the
recorded result that the check of this boot has reported, or that its report failed. The
firmware a device starts with may have any version, also one that is none.

| run | bounds | question |
|---|---|---|
| `ota_agent` | 5 versions (`1.0.0`, `1.0.0-a`, `1.0.1`, `1.1.0`, `latest`), 7 offers and a payload that does not parse; 2 offers, 1 forced upgrade, 1 loss of power, 1 fault | everything below |
| `ota_wedged` | 1 offer | shows `ota_in_progress` left set by a version that is no version |

Two offers are needed for one inside the handling of the other; one loss of power
falls between every two steps. The versions cover each branch of the comparison,
including an equal number with another text.

Properties: `NeverDowngrade` (the boot image is only replaced by a newer one),
`JobNotReplaced` (a nested delivery does not change the version being worked on),
`TruthfulResult` (at the restart exactly one result was reported, and it is true of the
boot image), `AvailableAgain` (again and again the device can take an offer, except
after an unreadable version or a failed subscription), `ReportedBeforeCleared` (a recorded
result leaves flash only after the check of the same boot has reported that result, although
offers are handled inside the report; or after that report has failed, which the code does not
look at, or in a boot that could not subscribe, where a forced upgrade overwrites it) and
`ResultCleared` (a recorded result is reported, and then cleared, in the end, whatever is
interrupted, with the same two exceptions).

**Fairness.** Weak fairness of the device's steps: the cloud task runs, and its
publishes return. Nothing outside the device is fair. **Deadlock** checking is off: a
device that is ready and gets no more offers, within the bounds, stops.

**Proofs** (`OtaAgent_proofs`): `TypeCorrect`, `ResultIsTrue` (`TruthfulResult`),
`NoDowngrade` (`NeverDowngrade`), `JobKept` (`JobNotReplaced`), `ReportedFirst`
(`ReportedBeforeCleared`), for all versions, offers and bounds. The invariant is `TypeOK` and
`HandlerInv`: at each position of the handler what has been said, what has been compared and
what is installed (for instance, while it downloads, nothing has been said, both versions are
readable and the offer is newer). `NewerIsOrder` shows the nested comparisons of the handler to
be the order of version numbers. `ReportedFirst` needs `TellInv` besides: while the check reports
and clears, the result in flash is the one it told; after it, a device that is subscribed and
not about to restart has no result in flash, so that a forced upgrade overwrites none.

## 5. Button

**State.** `state` is `button_dev.state`; `timer` the ticks left of each FreeRTOS timer
(`psh`, `rls`, `serial` and one for each long-press callback in `cb_head`); `queue` the
commands sent to the timer service and not carried out; `pc`, `send` where that task
is and what the callback it runs has still to send; `level`, `irq` the contact and its
pending interrupt.

**Steps.** `button_gpio_isr_handler` is one action, since nothing interrupts it. A
callback is cut where the interrupt can matter: each command it sends is a step
(`Enqueue`), and so is its read of the level. `Command`, `Drained`, `Wake` and `Fire`
are the loop of the timer service: a callback, then every command in the queue.
`Registered` stands for the registrations, which start the timers they configure.

**Time.** `Tick` lets time pass only when the timer service has nothing to do: its work
takes microseconds against a filter time of tens of milliseconds. `Edge` is free: the
contact may change any number of times within one tick.

**History variables.** `held` counts the ticks in a row the button was down at, `moved`
says that the contact changed since the last tick, `pressed` that a long press was
called, `settled` that a release was handled, `overrun` that an interrupt lost commands
to a full queue.

| run | bounds | question |
|---|---|---|
| `button_bounce` | 5 edges, 1 long press of 3 filter times, queue of 10 | everything below |
| `button_tap` | the same | shows a long press followed by a tap |

Five edges are two presses with a bounce; 10 is FreeRTOS' default length, and with one
long-press timer three edges can fill it, so that lost commands and a blocked service
are among the states checked. The long press must outlast the filter of a release, or a
callback would always come before it.

Properties: `PressIsLong` (a long press is called only if the button was down at each
of its ticks), `SerialWhilePushed` (after the first release, no serial callback outside
a push; before it, registration itself starts the timer), `ReleaseSeen` and `PushSeen`
(what the contact settles at is seen, unless commands were lost or the service is
blocked).

**Fairness.** Weak fairness of the interrupt, the timer service and the tick together:
they run as long as there is something to do. The contact is not fair. **Deadlock**
checking is off: a button at rest with no timer running stutters, and a blocked service
stops.

**Proofs** (`Button_proofs`, for any long-press timers, times, queue length and number
of edges): `TypeCorrect`; `SerialOnlyWhilePushed` (`SerialWhilePushed`) by `SerialInv`,
which says what the queue will have done to the serial timer once it is empty and who
may put commands of it there; `LongPressIsLong` (`PressIsLong`) by `LongInv`, which
relates the ticks a timer has left to the ticks the button was held. Neither property
mentions the queue, and neither is inductive without it.

## 6. Agent

**State.** `init_done`, `handle` and `cloud_stop` are the flags of the code; `pc[t]` is
where the task created by the `t`-th start is in `esp_cloud_task`, `work[t]` the queue
entry it runs; `work_queue` the entries; `timer[h]` whether the timer of a diagnostics
entry was started; `subscriptions` and `dynamic_params` what the platform holds;
`shadowUpdateInProgress` is that flag where nothing will clear it, after an update that failed at
once (`ShadowSync` has the answers to the others); `online` the network; `panicked` ends a
behaviour: the device has used a table of parameters that is not there. The memory of two tasks
that overlap is shared, as in the code; what they do to each other's MQTT client is not modelled.

**Steps.** `cloud_agent_ota_start` is one action: until the task is created nothing of the
agent but the queue can change (the wait for SNTP falls into the time the task needs to
connect). `StartFails` and `ConnectAborts` are its failures; `esp_cloud_init` may fail and
`init_done` is set all the same, so that no later start repairs it. `Connect`,
`RegisterParams`, `Report`, `Reported`, `SubscribeAlexa` come before the loop `LoopTop`,
`Receive`, one `Run...` for each kind of work, `Drained`, `Wait`, `Scan`; `Disconnect` and `End`
after it. What uses the network fails while there is none, and by a fault otherwise:
`RegisterFails` leaves the table as it was and the task goes on, to `Panic` at the next step that
uses it; `Report` and `Scan` may make an update that fails, after which the loops in `Reported`
and `Wait` never end; an association that cannot be published is lost, and the timer of
a diagnostics entry may not be started.
`register_periodic_handler`, `add_data`, `user_assoc_handler` are calls of application
tasks, `diagnostics_common_cb` a tick of a timer: each queues one entry or is refused.

**History variables.** `asked` is what the application wants. `untaken` is a stop for which
no task has ended yet; the last start was `doubtful` if it met a living task, an untaken
stop, or a fault. Two quick calls do produce that: after a stop and an early start there
are two tasks, one of which takes the stop, perhaps the wrong one; a stop with no task
waits for the next start. The properties say what is promised otherwise. `unregistered` says that
the last registration failed. Every agent is taken to have a dynamic parameter.

| run | bounds | question |
|---|---|---|
| `agent` | 1 handler, 3 entries; 2 starts, 1 stop, 1 tick, 1 report, 1 outage, 1 fault, fair | everything below |
| `agent_again` | 2 starts, 1 stop | shows a second start that checks for no update |

Two starts and a stop are the least with which a start, a stop and the end of the first
task meet in every order. The queue of 3 holds what a start and a handler put there, so that
the first call, a tick and a request find it full or not.

Properties: `NothingBeforeConnection` (until it has connected, nothing is announced or
called, no timer has ticked, and no call is queued), `StartedStays` (an agent started and not stopped
has a task), `ParamsAlive` (the device uses a table that is not there only if its registration
failed or a start was doubtful: no order of stops, starts, disconnections and outages
frees it under a task), `StopEnds` (with a lasting connection and no failed update a stop ends
the task), `HandlerCalled` and `AssociationReported` (what the queue accepted is done once the
agent runs undisturbed, also by failed updates; a call that was refused waits for the next
tick, and a publication that fails is not tried again).

**Fairness.** Weak fairness of each task: FreeRTOS runs it. The steps `Reported` and `Wait` are
enabled only when their loops may end. The application, the timers and the network are not fair;
the liveness properties name the lasting connection and the absence of a failed update they
need. **Deadlock** checking is off: an agent without network, or not started, rests.

**Proofs** (`Agent_proofs`, for any handlers, any queue and any number of starts, stops,
ticks, outages and faults): `TypeCorrect`; `StaysStarted` and `TableAlive` by `SoleInv`, which
says that `cloud_stop` is what the stops made it, that without doubt at most one task lives
and is not on its way out unless a stop is pending, and that the table of a task past its
registration is there unless the registration failed (`TaskStep` is all it needs to know of
most steps of a task; `SolePanic` is the panic); `QuietUntilConnected` by `QuietInv`: before
the connection no timer runs and no task is past `Connect`, so no work has run.

## 7. JSON documents

**Specification.** `JsonText` is the promise, with no buffer: calls add text, text comes
out in order, and at the end all of it has come out, or, for a caller that gives no flush
callback, as much as its buffer holds. `Delivers` in `JsonGen` is `JsonText` under the
mapping *what is out is `sent \o buf`*; the detailed module has to get there in pieces that
are split anywhere.

**State.** `JsonGen`: `flush_cb`, `buf_size`, `buf`, `comma_req` are `json_str_t`; `head`,
`last` the strings a running function has still to add, `ret` its result; `sent` what the
callback was given; `asked` and `cut` are history variables: the text of all calls, and
that some of it was dropped. `JsonParse`: `pos`, `toksuper`, `tokens`, `count`,
`num_tokens`, `cur` are those of the code, `pass` tells which of the two passes of
`json_parse_start` runs. `JsonDoc`: `doc`, `nest`, `long` are the tree the client has
built, `at` the element of it the reader believes to be at.

**Steps.** Each call of the interface is an action that says what it adds; each turn of the
loop of `json_add_to_str` is one (`AddRest`, `AddAndFlush`, `AddAndDrop`); the tokenizer
takes one character or token a step, in both passes, as built by its `component.mk`
(`JSMN_STRICT`, `JSMN_PARENT_LINKS`); a lookup does not change the state and is an
operator, entering and leaving objects and arrays are actions.

**Abstractions.** A word or a number is one character (the code never looks inside it);
floats are not negative, in millionths, so that the rounding of `%.*f` happens; strings
hold no quotes, backslashes or control characters, because the generator does not escape
any; a buffer has two bytes or more (with one byte and a callback the loop would never end).
`Spaced` is the text as another writer prints it, with a blank after each comma and colon that
stands in no name and no string (`Outside`).

| run | bounds | question |
|---|---|---|
| `json` | up to 4 elements, 2 levels, 2 names of which one begins the other, values of 4 types, long strings, a buffer of 8 bytes, with and without a callback, texts with and without blanks | everything below |

Four elements and two levels are the least with an element after a nested object that is
not empty; 8 bytes are fewer than most documents need, so that texts are flushed several
times, and cut in every place, between the quotes of a name included. A part of a long string
may be a comma, which neither the tokenizer nor another writer takes for a separator.

Properties: `Delivers`; `FullChunks` (the callback gets a full buffer each time but the
last); `DropsAreTold` (a call returns -1 exactly if text has been
dropped, unless its last string is empty); `RoundTrip` (wherever the reader has gone,
each lookup finds what the client put there, and nothing where it put nothing);
`CutIsRefused` (a cut document is never read as another one); `WholeIsAccepted`;
`PassesAgree` (the second pass fills exactly the tokens the first has counted);
`CallReturns`, `ParseReturns`.

**Fairness.** Weak fairness of the loops of `json_add_to_str` and of the tokenizer; client
and reader may stop anywhere. **Deadlock** checking is off: a document once read is done.

**Proofs** (`JsonGen_proofs`, for any alphabet, names, values and buffers): `TypeCorrect`,
`Refinement` (`Delivers`), `ChunksAreFull`, `DropsReported`. The invariant is `Quiet` (what
is left between calls), `Whole` (while nothing was dropped, what is out, in the buffer and
still to be added make up the text asked for) and `Dropped` (text is dropped only without a
callback, and then the buffer is full of the beginning of the text). `DocIsText` carries them
over to documents (`DocDelivers`).

**Proofs** (`JsonParse_proofs` for the tokenizer, `JsonDoc_proofs` for a whole document on its
way; any names, values and parts, any buffer, documents of any size and depth). They assume what
the code leaves to its caller and to the C library: `DocAssumption` (no quotation mark inside a
name or a string, and words that begin as a primitive may and hold no punctuation, so not `inf`),
`WordAssumption` (`strtoul` and `strtof` read the numbers that `%d` and `%.*f` print, and no other
word the generator writes; so no integer beyond `long`) and what the `switch` of `__jsmn_parse`
says (`ParseAssumption`). TLC evaluates all of them on the values of the run.

- `ParserCorrect` (`TokensInText`: tokens lie in what has been read and after their superior one,
  and those of an accepted text are closed), `Agreement` (`PassesAgree`) and `NeverOutOfTokens`
  (`AllocationHolds`: the second pass never asks for more tokens than there are) are theorems of
  `ParserSpec(Texts)`, the parser by itself, for every set of texts, documents or not: finite
  sequences of characters, where the tokenizer of the model is that of the code, that is,
  without backslashes, control characters and a NUL inside.
  `ParserInvariant` is the invariant: `ParserOK` (positions and tokens in their bounds) and
  `PassInv`, which is about `Visited`, the positions the loop comes to: the
  least set that holds 0 and, with a position, the one its turn leads to. It depends on the text
  only, not on the pass, so `count` is in both passes the number of tokens that start at
  visited positions before `pos`. `DocIsParsed` shows that the reader of `JsonDoc` uses
  this parser: `DocSpec => ParserSpec(Seq(TextChar))`.
- `CutRefused` (`CutIsRefused`) and `WholeAccepted` (`WholeIsAccepted`), in three parts.
  *The grammar*: `Reads` is an automaton with a stack that reads documents a character at a
  time; `Path` a run of it. *The client*: `Written` says that the text asked for so far leads
  the automaton to where the client is in its document (`ClientAt`): inside the objects and
  arrays it has open, before or after an element, in a long string, or at the end. Blanks
  change nothing (`WritesSpaced`), and a text that was cut is shorter than what was asked for
  (`OverLong`), hence a proper beginning, which leads nowhere near the end (`WritesFrontOf`).
  *The tokenizer*: `Along` says that it follows a run. In the second pass the open tokens
  are the stack of the automaton, each within the one below it or within a key of it, and
  `toksuper` is what the next token belongs to (`Stacked`); so a closing bracket meets the token
  it closes (`InnermostIsTop`), a key is never taken for a value, and at the end of the text
  a token is open exactly if the document is not complete. `Fate` ties the parts together.

- `LookUpsCorrect` and `DocTypeCorrect` (`DocTypeOK`): what the reader finds in an accepted text.
  `TreeOK` says what the tokens are: the size of each is the number of tokens that name it as
  their superior (`Sized`), and they lie in preorder (`Preorder`; `OnPath` is what makes it
  inductive: the superior of the next token is the last token or one of those above it).
  `Keyed` adds, along the grammar, that a token right under an object is a string, a key, and
  that its value has come with the next token. From that `Skips`: `json_skip_elem`, which only counts sizes, ends at the last token
  of the element it is given; so `Elements` are the elements of the array, in order and all of them
  (`ElementsAre`), and the walks of `json_obj_search` and `json_arr_get_val_tok` stop where they
  should (`KeyIs`, `ItemIs`, `ValueIs`). `Placed` and `Standing` keep the reader at an object or an
  array of the tokens (`cur`) and at an element of the document (`at`).

- `ReaderGetsWhatClientPut` (`RoundTrip`): what the reader finds is what the client put there. The
  argument goes through a *tale* that neither side knows: `Tell` reads a text a character at a
  time, along a run of the automaton, and adds a thing (kind, superior, text) for each bracket,
  name, string and word that begins (`Tale`). *The parser*: the tokens of the second pass, each
  shown with the characters between its `start` and `end`, are the things told so far (`Telling`,
  `TurnTold`), so at the end of the text they are all of them. *The client*: what the calls have
  asked for tells the things of the client's document (`Written`, `Holds`). `Mirror` says what
  that means: element `n` has the thing `p[n]`, of its kind, with its text, under the
  thing of the element it is in, or under its key, which comes right before it; the things are in
  the order of the elements; and there is no other. It is kept by a new element (`MirrorPut`) and by
  a string that grows (`MirrorLonger`). A blank outside the strings tells nothing. `Fate` joins both
  sides, hence `TokensOfDocument`: the tokens of an accepted text are the elements of the document.
  *The reader*: by `Followed` the parser is at the token `p[at]` of the reader's element;
  the tokens under it are the keys, or the elements, of the children of that element (`KidsOf`), so the
  first key of a name and the element at an index are those of the document (`NamedIs`,
  `IndexedIs`); and the text of a token read as a truth value, number or string is the value put
  there (`AnswersAgree`).

A recursive function such as `Innermost` and the induction over positions are handled by
`SetInduction`: the set of numbers up to which a fact holds contains 0 and with each number the
next.

## 8. AlexaSession

**State.** `slots` is the table of `aws_cloud.c`, `broker` what the service sends to this
session; `pc`, `target`, `cloud_stop` the cloud task; `reporting` another task that waits
for the acknowledgement of a report and reads the network meanwhile; the two flags; `alexa`
the parameter. `requests` and `account` are the Alexa library, which is not in the
repository, nor is the definition of the flags: taken from their use in `esp_cloud.c`, the
library answers requests in their order, in a task of its own, and sets
`Wait_for_alexa_in` to `LOGED_IN` after a sign-in. That it sets nothing after a sign-out is
the loop's reading too: `alexa` is set to false when a sign-out is *asked for*.

**Steps.** Each call of the broker, each test with the update of the parameter that
follows it, and each assignment of a flag is one. The handler is one: it runs in the task
that reads the network, and asks the library last. `esp_cloud_platform_wait` is one step that ends
when no update is in progress for good: it may make an update that fails, and then the loop
never gets past it (`shadowUpdateInProgress`). A message is what the handler reads of
it; any may arrive at any time, so loss, delay and duplicates need no steps of their own.

**History variable.** `crossed` becomes true when a sign-in is answered during a sign-out,
or a sign-out is asked for with a sign-in under way, and false with the next sign-in that
meets no sign-out. It is needed because the code does go wrong then: with
`alexa_unbind_req`, `alexa_req`, and the answer to the latter between the assignments of
lines 818 and 819, `Wait_for_alexa_in = NOT_LOG_IN` overwrites `LOGED_IN`; the account is
signed in, and the cloud is told it is not, until someone signs in again. The properties
say that this is the only way.

| run | bounds | question |
|---|---|---|
| `alexa` | 4 messages, 2 starts, 1 stop, 2 checks, 1 report, 1 fault | everything below |

Four messages are sign-in, sign-out, sign-in and one more that finds the flags changed; the
second check subscribes to a topic that is subscribed to, after a fault or not. The fault may be
a subscription or an update.

Properties: `TableSound` (no topic has two slots, none is in the table that the broker does
not send, and a slot is free when one is needed), `StateTold` (at rest the parameter and
the flag that admits a sign-in agree with the account), `SignInWhenOut` (no sign-in over a
session that was not asked to end), `EventuallyTold` (while the agent runs and
none of its updates has failed, the parameter settles at what the account is).

**Assumption.** Neither topic begins with the other (`TopicAssumption`). The table and the
dispatch compare beginnings: were the application's topic the beginning of
`<device_id>/otaurl`, its commands would reach the handler of upgrades as well.

**Fairness.** Weak fairness of the cloud task, as in `Agent`, whose wait is enabled only when it may
end, and of the library's answers.
Messages, reports, starts and stops are not fair. **Deadlock** checking is off: an agent
that was stopped rests.

**Proofs** (`AlexaSession_proofs`, for any two such topics and any bounds): `TypeCorrect`
and `TableStaysSound` by `TableInv`, which adds that the topic to be subscribed to is out
of the table; `SessionIsTold` and `NoSecondSignIn` by `SessionInv`: without a crossing the
library has sign-outs to do before sign-ins, a sign-out on its way through the loop has
been asked for or done, and otherwise the flags agree with the account, or with the
sign-out that is still to be answered.

## 9. Where the code and its documentation disagree

Each has a run that shows it (`findings` in `PROJECT.json`):
a local change erased between the test and the clearing of `flags`; the wait after a failed
`aws_iot_shadow_update`; the handler that stays marked after an unreadable version; a tap
reported after a long press; a second start that never checks for an upgrade.

Seen while modelling and not shown by a run: an accepted remote value is overwritten by an
older local one (the scan copies `val`); a forced upgrade that succeeds is reported as a
success before the restart and as a failure after it (`OTA_F` keeps `FORCE_OTA_START`),
against `esp_cloud_ota.h:66-67`; `esp_cloud_update_string_param` looks for a
parameter of type integer, so a string is never updated; a press during the release
callback loses its long press; registering the serial callback starts it; button callbacks
wait in the timer service for room in the queue it empties itself; `esp_cloud_stop`, when a
start follows at once, may stop the later instance and not the earlier; the phone is told
SUCCESS of an association request that the full queue refused, or whose publication fails later;
diagnostics data that is refused is never freed; a registration of the parameters that fails is
ignored, and the first report then uses a table that is not there; a recorded result of an
upgrade is cleared although its report failed.

In the JSON components: `json_obj_start_long_string` with an empty first part returns 0 when
its name was dropped, since only the last string's result counts; all callers in the agent
ignore the results and give no callback, so a document that is too long is published cut;
strings are not escaped; `json_tok_to_int` takes a value beyond `long` as its limit; a bracket
too many after the root and a name without a value are tolerated. In the Alexa handler: most
early returns keep the tokens of the parser; a sign-in right after a sign-out is ignored as
long as the loop has not noted the latter; the warning of `esp_cloud_platform_unsubscribe` is
given when it succeeds.

## 10. Only model-checked, not modelled

Only model-checked: all liveness properties (`EventuallyReported`, `EventuallyHonoured`,
`WorkQueueServed`, `AvailableAgain`, `ResultCleared`, `ReleaseSeen`, `PushSeen`, `StopEnds`,
`HandlerCalled`, `AssociationReported`, `CallReturns`, `ParseReturns`, `EventuallyTold`), which
are out of the prover's reach, and the violated properties. Every invariant and every action
property of a passing run is proved. `TokensInText` and `AllocationHolds` of `JsonParse` are only
proved.

Not to be modelled: the time synchronisation (one polling call), storage and memory wrappers
(no state of their own), device information (published once), generated protobuf code, the
examples' wiring, and which names and values each document of the agent carries. The modules
marked *partly* in `PROJECT.json` leave out failures of memory and what two overlapping tasks
do to the MQTT client, which is not part of the repository. So is the buffer of the
client: `ota_url_handler` parses the payload where it was received, and a message read
inside one of the handler's publishes may overwrite it.

## 11. Running

    tlc -config MCShadowSync_safety.cfg MCShadowSync
    tlapm ShadowSync_proofs.tla

and likewise for the other configurations and modules. The longest run, `agent`, takes about
three minutes.
