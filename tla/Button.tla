------------------------------- MODULE Button -------------------------------
(***************************************************************************)
(* The push button: an interrupt handler, one-shot timers and their        *)
(* callbacks, over a contact that bounces.                                 *)
(*                                                                         *)
(* The component's Kconfig does not offer the esp_timer option, so the     *)
(* timers are FreeRTOS software timers: the interrupt handler and the      *)
(* callbacks only queue commands (stop, start) to the timer service task,  *)
(* which runs the callbacks and, after each, the commands.  The handler    *)
(* runs on the core of that task: it interrupts a callback between two     *)
(* steps and is not interrupted itself.                                    *)
(***************************************************************************)
EXTENDS Naturals, Sequences

CONSTANTS
  Off,          \* a timer that does not run
  cb_head,      \* the long-press timers, in the order of the list
  Time,         \* ticks of the timers "psh" and "rls" and of the long-press ones
  SerialAfter,  \* ticks: serial_thres_sec
  SerialEvery,  \* ticks: press_serial_cb.interval
  QueueLength,  \* of the timer service's command queue
  MaxEdges      \* bound: changes of the level

Custom == {cb_head[i] : i \in 1 .. Len(cb_head)}
Timers == {"psh", "rls", "serial"} \cup Custom

ASSUME CustomAssumption ==
  /\ cb_head \in Seq(STRING)
  /\ Custom \cap {"psh", "rls", "serial", "drain", "select", "call"} = {}
ASSUME TimeAssumption ==
  /\ Time \in [{"psh", "rls"} \cup Custom -> Nat \ {0}]
  /\ SerialAfter \in Nat \ {0} /\ SerialEvery \in Nat \ {0}
ASSUME BoundsAssumption == Off \notin Nat /\ QueueLength \in Nat \ {0} /\ MaxEdges \in Nat

VARIABLES
  level,    \* gpio_get_level() is the active level
  irq,      \* an edge is pending
  timer,    \* ticks left of a running timer
  queue,    \* commands to the timer service
  pc, send, \* timer service task: where it is, commands its callback has still to queue
  state,    \* button_dev.state
  held,     \* history: ticks in a row the level was active at
  moved,    \* history: the level changed since the last tick
  pressed,  \* history: a long-press callback was called since the last release
  settled,  \* history: a release was handled since the configuration
  overrun,  \* history: an interrupt found the queue full
  edges

inputs == <<level, irq, edges, moved>>
task == <<pc, send>>
history == <<held, pressed, settled, overrun>>
vars == <<inputs, timer, queue, task, state, history>>

Stop(t) == [timer |-> t, left |-> Off]
Start(t, ticks) == [timer |-> t, left |-> ticks]

\* A stop and a reset of each timer of a sequence
Restart(ts) == [k \in 1 .. 2 * Len(ts) |->
                  IF k % 2 = 1 THEN Stop(ts[(k + 1) \div 2])
                               ELSE Start(ts[k \div 2], Time[ts[k \div 2]])]

\* xTimerChangePeriod(), which starts the timer, then xTimerReset()
StartSerial(ticks) == <<Start("serial", ticks), Start("serial", ticks)>>

(***************************************************************************)
(* The contact (external) and the interrupt.                               *)
(***************************************************************************)
Edge ==
  /\ edges < MaxEdges /\ edges' = edges + 1
  /\ level' = ~level /\ irq' = TRUE /\ moved' = TRUE
  /\ UNCHANGED <<timer, queue, task, state, history>>

\* The timers a press restarts.  (Forgetful: a mutant.)
Forgetful == IF \E t \in Custom : timer[t] # Off THEN <<"psh">> ELSE <<"psh">> \o cb_head
Restarted == <<"psh">> \o cb_head

\* (MoreRoom: a mutant.)
MoreRoom == QueueLength - Len(queue) + 1
Room == QueueLength - Len(queue)

\* Commands that find the queue full are lost.
button_gpio_isr_handler ==
  /\ irq /\ irq' = FALSE
  /\ LET cmds == IF level THEN Restart(Restarted) ELSE Restart(<<"rls">>)
     IN IF Len(cmds) <= Room
        THEN queue' = queue \o cmds /\ overrun' = overrun
        ELSE queue' = queue \o SubSeq(cmds, 1, Room) /\ overrun' = TRUE
  /\ UNCHANGED <<level, edges, moved, timer, task, state, held, pressed, settled>>

(***************************************************************************)
(* The timer service task (external): a callback, then all the commands.   *)
(***************************************************************************)
Command ==
  /\ pc = "drain" /\ send = <<>> /\ queue # <<>>
  /\ timer' = [timer EXCEPT ![Head(queue).timer] = Head(queue).left]
  /\ queue' = Tail(queue)
  /\ UNCHANGED <<inputs, task, state, history>>

Drained ==
  /\ pc = "drain" /\ send = <<>> /\ queue = <<>>
  /\ pc' = "select"
  /\ UNCHANGED <<inputs, timer, queue, send, state, history>>

Wake ==
  /\ pc = "select" /\ queue # <<>>
  /\ pc' = "drain"
  /\ UNCHANGED <<inputs, timer, queue, send, state, history>>

\* The callbacks of "psh" and "rls" begin by stopping "rls".
Fire(t) ==
  /\ pc = "select" /\ timer[t] = 0
  /\ timer' = [timer EXCEPT ![t] = Off]
  /\ pc' = t
  /\ send' = IF t \in {"psh", "rls"} THEN <<Stop("rls")>> ELSE <<>>
  /\ UNCHANGED <<inputs, queue, state, history>>

\* A callback waits (portMAX_DELAY) until its command fits.
Enqueue ==
  /\ send # <<>> /\ Room > 0
  /\ queue' = Append(queue, Head(send))
  /\ send' = Tail(send)
  /\ UNCHANGED <<inputs, timer, pc, state, history>>

\* Time passes when the task has nothing to do: it keeps up with the filter time.
Tick ==
  /\ pc = "select" /\ queue = <<>> /\ ~irq
  /\ \A t \in Timers : timer[t] # 0
  /\ timer' = [t \in Timers |-> IF timer[t] = Off THEN Off ELSE timer[t] - 1]
  /\ held' = IF ~level THEN 0
             ELSE IF \E t \in Custom : held < Time[t] THEN held + 1 ELSE held
  /\ moved' = FALSE
  /\ UNCHANGED <<level, irq, edges, queue, task, state, pressed, settled, overrun>>

(***************************************************************************)
(* The callbacks.                                                          *)
(***************************************************************************)
Returns(cmds) == pc' = "drain" /\ send' = cmds

\* Looks again a filter time later when the level is not active.  (NoLook: a mutant.)
NoLook == <<>>
LookAgain == Restart(<<"rls">>)

button_tap_psh_cb ==
  /\ pc = "psh" /\ send = <<>>
  /\ \/ level /\ state' = "PUSH" /\ Returns(StartSerial(SerialAfter))
     \/ ~level /\ state' = state /\ Returns(LookAgain)
  /\ UNCHANGED <<inputs, timer, queue, history>>

\* The level is read, then every timer of the list and the serial one are stopped.
\* (SerialLeft, StopPushToo: mutants.)
StopList == [i \in 1 .. Len(cb_head) |-> Stop(cb_head[i])]
SerialLeft == StopList
StopPushToo == StopList \o <<Stop("serial"), Stop("psh")>>
StopAll == StopList \o <<Stop("serial")>>

ReleaseLevel ==
  /\ pc = "rls" /\ send = <<>>
  /\ \/ level /\ Returns(<<>>)
     \/ ~level /\ pc' = "call" /\ send' = StopAll
  /\ UNCHANGED <<inputs, timer, queue, state, history>>

\* The tap callback is called for PUSH, that of a release unless IDLE.
Tap == pc = "call" /\ send = <<>> /\ state = "PUSH"

ReleaseCall ==
  /\ pc = "call" /\ send = <<>>
  /\ state' = "IDLE" /\ Returns(<<>>)
  /\ pressed' = FALSE /\ settled' = TRUE
  /\ UNCHANGED <<inputs, timer, queue, held, overrun>>

button_press_cb ==
  /\ pc \in Custom
  /\ Returns(<<>>)
  /\ \/ level /\ state' = "PRESSED" /\ pressed' = TRUE
     \/ ~level /\ UNCHANGED <<state, pressed>>
  /\ UNCHANGED <<inputs, timer, queue, held, settled, overrun>>

button_press_serial_cb ==
  /\ pc = "serial"
  /\ Returns(StartSerial(SerialEvery))
  /\ UNCHANGED <<inputs, timer, queue, state, history>>

-----------------------------------------------------------------------------
\* Registering a callback changes the period of its timer and so starts it, whether
\* or not the button is pressed; a long-press timer is only created.
Registered == {"psh", "rls", "serial"}

\* The button is configured, with any of the callbacks, and may be held meanwhile.
Init ==
  /\ level \in BOOLEAN /\ irq = FALSE /\ edges = 0 /\ moved = FALSE
  /\ \E started \in SUBSET Registered :
       timer = [t \in Timers |->
                  IF t \notin started THEN Off
                  ELSE IF t = "serial" THEN SerialAfter ELSE Time[t]]
  /\ queue = <<>> /\ pc = "select" /\ send = <<>>
  /\ state = "IDLE"
  /\ held = 0 /\ pressed = FALSE /\ settled = FALSE /\ overrun = FALSE

Service == \/ Command \/ Drained \/ Wake \/ Enqueue \/ \E t \in Timers : Fire(t)

Callbacks == \/ button_tap_psh_cb \/ ReleaseLevel \/ ReleaseCall
             \/ button_press_cb \/ button_press_serial_cb

Device == button_gpio_isr_handler \/ Service \/ Tick \/ Callbacks

Next == Edge \/ Device

Spec == Init /\ [][Next]_vars

\* Interrupts are served, the timer service is scheduled, time passes.
FairSpec == Spec /\ WF_vars(Device)

-----------------------------------------------------------------------------
(***************************************************************************)
(* Properties                                                              *)
(***************************************************************************)
Commands == [timer : Timers, left : Nat \cup {Off}]

\* Types of the state; the queue does not exceed its length.
TypeOK ==
  /\ level \in BOOLEAN /\ irq \in BOOLEAN /\ edges \in Nat
  /\ timer \in [Timers -> Nat \cup {Off}]
  /\ queue \in Seq(Commands) /\ Len(queue) <= QueueLength
  /\ pc \in {"drain", "select", "call"} \cup Timers
  /\ send \in Seq(Commands)
  /\ state \in {"IDLE", "PUSH", "PRESSED"}
  /\ held \in Nat /\ moved \in BOOLEAN
  /\ pressed \in BOOLEAN /\ settled \in BOOLEAN /\ overrun \in BOOLEAN

\* The task waits for room in a queue which only it empties: it waits for ever.
Blocked == send # <<>> /\ Room = 0

\* A long-press callback is called only when the button was down at every tick of the
\* time asked for, however it bounced in between; a change in the very tick in which
\* the timer ends comes too late to stop it.
PressIsLong ==
  [][\A t \in Custom : pc = t /\ button_press_cb /\ level
       => held >= Time[t] \/ moved \/ overrun]_vars

\* Once a release was handled, the serial callback is called only between a push and
\* the release that follows it.
SerialWhilePushed == [][button_press_serial_cb /\ settled => state # "IDLE"]_vars

\* A button let go is seen as released, and one held is seen as pushed, however the
\* contact bounced, unless commands were lost or the timer service is blocked; a
\* button held since before the configuration makes no edge.
Failed == overrun \/ Blocked
ReleaseSeen == (state # "IDLE" /\ ~level) ~> (state = "IDLE" \/ level \/ Failed)
PushSeen == (level /\ edges > 0) ~> (state # "IDLE" \/ ~level \/ Failed)

\* README.md: once a long-press callback was called, there is no tap.
TapOrPress == [][Tap /\ ReleaseCall => ~pressed]_vars

=============================================================================
