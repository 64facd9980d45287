---------------------------- MODULE Button_proofs ----------------------------
(***************************************************************************)
(* Theorems about Button, for any number of long-press timers, any times,  *)
(* any length of the command queue and any bouncing.                       *)
(***************************************************************************)
EXTENDS Button, SequenceTheorems, TLAPS

Ready == {"psh", "rls"} \cup Custom

\* Names of timers and positions of the task do not collide.
LEMMA Names ==
  /\ cb_head \in Seq(STRING) /\ cb_head \in Seq(Custom)
  /\ "psh" \notin Custom /\ "rls" \notin Custom /\ "serial" \notin Custom
  /\ "drain" \notin Timers /\ "select" \notin Timers /\ "call" \notin Timers
  /\ Ready \subseteq Timers /\ Custom \subseteq Ready
  /\ \A t \in Ready : Time[t] \in Nat \ {0} /\ Time[t] # Off
<1>1. cb_head \in Seq(STRING)
  BY CustomAssumption
<1>2. cb_head \in Seq(Custom)
  BY <1>1 DEF Custom
<1>3. \A t \in Ready : Time[t] \in Nat \ {0}
  BY TimeAssumption DEF Ready
<1>4. Off \notin Nat
  BY BoundsAssumption
<1>5. QED
  BY <1>1, <1>2, <1>3, <1>4, CustomAssumption DEF Ready, Timers

\* The commands of a restart: only stops and full starts of the timers given, at
\* least one of each.
LEMMA RestartCommands ==
  ASSUME NEW ts \in Seq(Ready)
  PROVE  /\ Restart(ts) \in Seq(Commands)
         /\ Len(Restart(ts)) = 2 * Len(ts)
         /\ \A k \in 1 .. Len(Restart(ts)) : \E i \in 1 .. Len(ts) :
              /\ Restart(ts)[k].timer = ts[i]
              /\ Restart(ts)[k].left \in {Off, Time[ts[i]]}
         /\ \A i \in 1 .. Len(ts) : Restart(ts)[2 * i].timer = ts[i]
<1> DEFINE n == Len(ts)
           e(k) == IF k % 2 = 1 THEN Stop(ts[(k + 1) \div 2])
                                ELSE Start(ts[k \div 2], Time[ts[k \div 2]])
<1>1. n \in Nat /\ 2 * n \in Nat
  OBVIOUS
<1>2. \A k \in 1 .. 2 * n : IF k % 2 = 1 THEN (k + 1) \div 2 \in 1 .. n ELSE k \div 2 \in 1 .. n
  BY <1>1
<1>3. \A i \in 1 .. n : ts[i] \in Ready
  OBVIOUS
<1>4. \A k \in 1 .. 2 * n : /\ e(k) \in Commands
                            /\ \E i \in 1 .. n : /\ e(k).timer = ts[i]
                                                 /\ e(k).left \in {Off, Time[ts[i]]}
  <2> TAKE k \in 1 .. 2 * n
  <2>1. CASE k % 2 = 1
    <3>1. e(k) = [timer |-> ts[(k + 1) \div 2], left |-> Off] /\ (k + 1) \div 2 \in 1 .. n
      BY <2>1, <1>2 DEF Stop
    <3>2. QED
      BY <3>1, <1>3, Names DEF Commands
  <2>2. CASE k % 2 # 1
    <3>1. e(k) = [timer |-> ts[k \div 2], left |-> Time[ts[k \div 2]]] /\ k \div 2 \in 1 .. n
      BY <2>2, <1>2 DEF Start
    <3>2. ts[k \div 2] \in Timers /\ Time[ts[k \div 2]] \in Nat
      BY <3>1, <1>3, Names
    <3> HIDE DEF e
    <3>3. QED
      BY <3>1, <3>2 DEF Commands
  <2>3. QED
    BY <2>1, <2>2
<1>5. Restart(ts) = [k \in 1 .. 2 * n |-> e(k)]
  BY DEF Restart
<1> HIDE DEF e
<1>6. [k \in 1 .. 2 * n |-> e(k)] \in Seq(Commands)
  BY <1>1, <1>4, IsASeq
<1>7. Len(Restart(ts)) = 2 * n /\ \A k \in 1 .. 2 * n : Restart(ts)[k] = e(k)
  BY <1>5, <1>1
<1>8. \A i \in 1 .. n : 2 * i \in 1 .. 2 * n /\ e(2 * i).timer = ts[i]
  <2> TAKE i \in 1 .. n
  <2>1. (2 * i) % 2 = 0 /\ (2 * i) \div 2 = i /\ 2 * i \in 1 .. 2 * n
    BY <1>1
  <2>2. e(2 * i) = Start(ts[i], Time[ts[i]])
    BY <2>1 DEF e
  <2>3. QED
    BY <2>1, <2>2 DEF Start
<1>9. QED
  BY <1>4, <1>5, <1>6, <1>7, <1>8

\* The other sequences a callback queues.
LEMMA OtherCommands ==
  /\ StopAll \in Seq(Commands)
  /\ \A k \in 1 .. Len(StopAll) : StopAll[k].left = Off
  /\ \E k \in 1 .. Len(StopAll) : StopAll[k] = Stop("serial")
  /\ \A ticks \in Nat : /\ StartSerial(ticks) \in Seq(Commands)
                        /\ \A k \in 1 .. Len(StartSerial(ticks)) :
                             StartSerial(ticks)[k].timer = "serial"
  /\ <<Stop("rls")>> \in Seq(Commands) /\ <<>> \in Seq(Commands)
<1>1. /\ StopList \in Seq(Commands)
      /\ \A k \in 1 .. Len(StopList) : StopList[k].left = Off
  <2>1. \A i \in 1 .. Len(cb_head) : Stop(cb_head[i]) \in Commands /\ Stop(cb_head[i]).left = Off
    BY Names DEF Stop, Commands
  <2>2. QED
    BY <2>1, Names DEF StopList
<1>2. Stop("serial") \in Commands /\ Stop("serial").left = Off /\ Stop("rls") \in Commands
  BY DEF Stop, Commands, Timers
<1>3. <<Stop("serial")>> \in Seq(Commands) /\ Len(<<Stop("serial")>>) = 1
  BY <1>2
<1>4. /\ StopAll \in Seq(Commands) /\ Len(StopAll) = Len(StopList) + 1
      /\ \A i \in 1 .. Len(StopList) + 1 :
           StopAll[i] = IF i <= Len(StopList) THEN StopList[i] ELSE Stop("serial")
  BY <1>1, <1>3, ConcatProperties DEF StopAll
<1>5. Len(StopList) \in Nat
  BY <1>1
<1>6. /\ \A k \in 1 .. Len(StopAll) : StopAll[k].left = Off
      /\ StopAll[Len(StopAll)] = Stop("serial") /\ Len(StopAll) \in 1 .. Len(StopAll)
  BY <1>1, <1>2, <1>4, <1>5
<1>7. ASSUME NEW ticks \in Nat
      PROVE  /\ StartSerial(ticks) \in Seq(Commands)
             /\ \A k \in 1 .. Len(StartSerial(ticks)) : StartSerial(ticks)[k].timer = "serial"
  BY DEF StartSerial, Start, Commands, Timers
<1>8. <<Stop("rls")>> \in Seq(Commands) /\ <<>> \in Seq(Commands)
  BY <1>2
<1>9. \E k \in 1 .. Len(StopAll) : StopAll[k] = Stop("serial")
  BY <1>6
<1>10. QED
  BY <1>4, <1>6, <1>7, <1>8, <1>9, Zenon

\* What an interrupt does to the queue of a type-correct state.
LEMMA HandlerQueue ==
  ASSUME TypeOK, button_gpio_isr_handler
  PROVE  /\ queue' \in Seq(Commands) /\ Len(queue') <= QueueLength /\ overrun' \in BOOLEAN
         /\ Len(queue) <= Len(queue')
         /\ \A i \in 1 .. Len(queue) : queue'[i] = queue[i]
         /\ \A i \in Len(queue) + 1 .. Len(queue') :
              /\ queue'[i].timer \in Ready
              /\ queue'[i].left \in {Off, Time[queue'[i].timer]}
         /\ overrun => overrun'
         /\ level /\ ~overrun' => \A t \in Custom : \E i \in 1 .. Len(queue') : queue'[i].timer = t
<1> DEFINE ts == IF level THEN Restarted ELSE <<"rls">>
           cmds == Restart(ts)
           room == QueueLength - Len(queue)
           sent == IF Len(cmds) <= room THEN cmds ELSE SubSeq(cmds, 1, room)
<1>1. queue \in Seq(Commands) /\ Len(queue) <= QueueLength /\ Len(queue) \in Nat /\ QueueLength \in Nat
  BY BoundsAssumption DEF TypeOK
<1>2. Restarted \in Seq(Ready)
  <2>1. cb_head \in Seq(Ready) /\ <<"psh">> \in Seq(Ready)
    BY Names DEF Ready
  <2>2. QED
    BY <2>1, ConcatProperties DEF Restarted
<1>3. ts \in Seq(Ready)
  BY <1>2 DEF Ready
<1>4. /\ cmds \in Seq(Commands) /\ Len(cmds) = 2 * Len(ts)
      /\ \A k \in 1 .. Len(cmds) : cmds[k].timer \in Ready /\ cmds[k].left \in {Off, Time[cmds[k].timer]}
      /\ \A i \in 1 .. Len(ts) : cmds[2 * i].timer = ts[i]
  <2>1. \A i \in 1 .. Len(ts) : ts[i] \in Ready
    BY <1>3
  <2> HIDE DEF ts
  <2>2. QED
    BY <1>3, <2>1, RestartCommands
<1>5. level => \A t \in Custom : \E k \in 1 .. Len(cmds) : cmds[k].timer = t
  <2> SUFFICES ASSUME level, NEW t \in Custom PROVE \E k \in 1 .. Len(cmds) : cmds[k].timer = t
    OBVIOUS
  <2>1. PICK i \in 1 .. Len(cb_head) : cb_head[i] = t
    BY DEF Custom
  <2>2. /\ Len(Restarted) = Len(cb_head) + 1 /\ Restarted[i + 1] = cb_head[i]
        /\ Len(cb_head) \in Nat
    BY Names DEF Restarted
  <2>3. ts = Restarted /\ i + 1 \in 1 .. Len(ts) /\ ts[i + 1] = t
    BY <2>1, <2>2
  <2>4. 2 * (i + 1) \in 1 .. Len(cmds) /\ cmds[2 * (i + 1)].timer = t
    <3> HIDE DEF ts, cmds
    <3>1. Len(ts) \in Nat /\ cmds[2 * (i + 1)].timer = ts[i + 1]
      BY <1>3, <1>4, <2>3
    <3>2. QED
      BY <1>4, <2>3, <3>1
  <2>5. QED
    BY <2>4
<1>6. /\ queue' = queue \o sent
      /\ overrun' = IF Len(cmds) <= room THEN overrun ELSE TRUE
  <2>1. cmds = IF level THEN Restart(Restarted) ELSE Restart(<<"rls">>)
    OBVIOUS
  <2>2. /\ queue' = IF Len(cmds) <= room THEN queue \o cmds ELSE queue \o SubSeq(cmds, 1, room)
        /\ overrun' = IF Len(cmds) <= room THEN overrun ELSE TRUE
    BY <2>1 DEF button_gpio_isr_handler, Room
  <2>3. QED
    BY <2>2
<1> HIDE DEF cmds
<1>7. /\ sent \in Seq(Commands) /\ Len(sent) <= room /\ Len(sent) \in Nat
      /\ Len(sent) <= Len(cmds) /\ \A k \in 1 .. Len(sent) : sent[k] = cmds[k]
  <2>1. CASE Len(cmds) <= room
    <3>1. sent = cmds /\ cmds \in Seq(Commands)
      BY <2>1, <1>4
    <3> HIDE DEF sent, room
    <3>2. Len(cmds) \in Nat
      BY <3>1
    <3>3. QED
      BY <2>1, <3>1, <3>2
  <2>2. CASE ~(Len(cmds) <= room)
    <3>1. Len(cmds) \in Nat /\ room \in Nat /\ room < Len(cmds)
      BY <1>1, <1>4, <2>2
    <3>2. \A k \in 1 .. room : cmds[k] \in Commands
      BY <1>4, <3>1
    <3>3. /\ SubSeq(cmds, 1, room) \in Seq(Commands)
          /\ Len(SubSeq(cmds, 1, room)) = room
          /\ \A k \in 1 .. room : SubSeq(cmds, 1, room)[k] = cmds[k]
      BY <1>4, <3>1, <3>2, SubSeqProperties
    <3>4. QED
      BY <2>2, <3>1, <3>3
  <2>3. QED
    BY <2>1, <2>2
<1> HIDE DEF sent
<1>8. /\ queue' \in Seq(Commands) /\ Len(queue') = Len(queue) + Len(sent)
      /\ \A i \in 1 .. Len(queue) + Len(sent) :
           queue'[i] = IF i <= Len(queue) THEN queue[i] ELSE sent[i - Len(queue)]
  BY <1>1, <1>6, <1>7, ConcatProperties
<1>9. \A i \in Len(queue) + 1 .. Len(queue') :
        queue'[i].timer \in Ready /\ queue'[i].left \in {Off, Time[queue'[i].timer]}
  <2> TAKE i \in Len(queue) + 1 .. Len(queue')
  <2>1. i - Len(queue) \in 1 .. Len(sent) /\ queue'[i] = sent[i - Len(queue)]
    BY <1>1, <1>7, <1>8
  <2>2. i - Len(queue) \in 1 .. Len(cmds) /\ queue'[i] = cmds[i - Len(queue)]
    BY <1>4, <1>7, <2>1
  <2>3. QED
    BY <1>4, <2>2
<1>10. level /\ ~overrun' => \A t \in Custom : \E i \in 1 .. Len(queue') : queue'[i].timer = t
  <2> SUFFICES ASSUME level, ~overrun', NEW t \in Custom
               PROVE  \E i \in 1 .. Len(queue') : queue'[i].timer = t
    OBVIOUS
  <2>1. sent = cmds
    BY <1>6 DEF sent
  <2>2. PICK k \in 1 .. Len(cmds) : cmds[k].timer = t
    BY <1>5
  <2>3. /\ Len(queue) + k \in 1 .. Len(queue') /\ ~(Len(queue) + k <= Len(queue))
        /\ (Len(queue) + k) - Len(queue) = k
    BY <1>1, <1>4, <1>7, <1>8, <2>1, <2>2
  <2>4. queue'[Len(queue) + k] = cmds[k]
    BY <1>8, <2>1, <2>3
  <2>5. QED
    BY <2>2, <2>3, <2>4
<1>11. Len(queue') <= QueueLength /\ Len(queue) <= Len(queue')
  BY <1>1, <1>7, <1>8
<1>12. overrun' \in BOOLEAN /\ (overrun => overrun')
  BY <1>6 DEF TypeOK
<1>13. \A i \in 1 .. Len(queue) : queue'[i] = queue[i]
  BY <1>1, <1>7, <1>8
<1>14. QED
  BY <1>8, <1>9, <1>10, <1>11, <1>12, <1>13

(***************************************************************************)
(* The inductive invariant.                                                *)
(***************************************************************************)
SerialStop(s, i) == s[i].timer = "serial" /\ s[i].left = Off
NoSerial(s) == \A i \in 1 .. Len(s) : s[i].timer # "serial"
NoSerialStart(s) == \A i \in 1 .. Len(s) : s[i].timer = "serial" => s[i].left = Off

\* Once the commands are carried out the serial timer does not run.
Ended(s) ==
  /\ timer["serial"] # Off => \E i \in 1 .. Len(s) : SerialStop(s, i)
  /\ \A i \in 1 .. Len(s) : s[i].timer = "serial" /\ s[i].left # Off =>
       \E j \in 1 .. Len(s) : j > i /\ SerialStop(s, j)

\* A timer which is not the serial one is only ever started in full.
Clean(s) == \A i \in 1 .. Len(s) : s[i].timer \in Ready => s[i].left \in {Off, Time[s[i].timer]}
CommandInv == Clean(queue) /\ Clean(send)

\* Who queues commands of the serial timer, and what is left of them after a release.
SerialInv ==
  /\ pc # "drain" => NoSerialStart(queue) /\ NoSerialStart(send)
  /\ pc \notin {"drain", "call"} => NoSerial(queue) /\ NoSerial(send)
  /\ pc = "call" => \/ \E i \in 1 .. Len(queue) : SerialStop(queue, i)
                    \/ \E i \in 1 .. Len(send) : SerialStop(send, i)
  /\ settled /\ state = "IDLE" => pc # "serial" /\ NoSerialStart(send) /\ Ended(queue)

\* A long-press timer that runs was started when the button had been down for the
\* ticks it counted, or is about to be started again.
LongInv ==
  \A t \in Custom :
    /\ level /\ ~overrun => \/ irq \/ \E i \in 1 .. Len(queue) : queue[i].timer = t
                            \/ timer[t] = Off \/ held + timer[t] >= Time[t]
    /\ level /\ ~moved /\ ~overrun =>
         /\ timer[t] = Off \/ held + timer[t] >= Time[t]
         /\ pc = t => held >= Time[t]

IInv == TypeOK /\ CommandInv /\ SerialInv /\ LongInv

\* The commands a callback returns with, and what they may hold.
LEMMA ReturnedCommands ==
  /\ LookAgain \in Seq(Commands) /\ Clean(LookAgain) /\ NoSerial(LookAgain)
  /\ StopAll \in Seq(Commands) /\ Clean(StopAll) /\ NoSerialStart(StopAll)
  /\ \E i \in 1 .. Len(StopAll) : SerialStop(StopAll, i)
  /\ \A ticks \in Nat : StartSerial(ticks) \in Seq(Commands) /\ Clean(StartSerial(ticks))
  /\ <<>> \in Seq(Commands) /\ Clean(<<>>) /\ NoSerial(<<>>)
  /\ <<Stop("rls")>> \in Seq(Commands) /\ Clean(<<Stop("rls")>>) /\ NoSerial(<<Stop("rls")>>)
<1>1. LookAgain \in Seq(Commands) /\ Clean(LookAgain) /\ NoSerial(LookAgain)
  <2>1. <<"rls">> \in Seq(Ready) /\ \A i \in 1 .. Len(<<"rls">>) : <<"rls">>[i] = "rls"
    BY DEF Ready
  <2>2. /\ LookAgain \in Seq(Commands)
        /\ \A k \in 1 .. Len(LookAgain) : \E i \in 1 .. Len(<<"rls">>) :
             LookAgain[k].timer = <<"rls">>[i] /\ LookAgain[k].left \in {Off, Time[<<"rls">>[i]]}
    BY <2>1, RestartCommands DEF LookAgain
  <2>3. \A k \in 1 .. Len(LookAgain) : LookAgain[k].timer = "rls" /\ LookAgain[k].left \in {Off, Time["rls"]}
    BY <2>1, <2>2
  <2>4. QED
    BY <2>2, <2>3 DEF Clean, NoSerial
<1>2. /\ StopAll \in Seq(Commands) /\ Clean(StopAll) /\ NoSerialStart(StopAll)
      /\ \E i \in 1 .. Len(StopAll) : SerialStop(StopAll, i)
  <2>1. /\ StopAll \in Seq(Commands)
        /\ \A k \in 1 .. Len(StopAll) : StopAll[k].left = Off
        /\ \E k \in 1 .. Len(StopAll) : StopAll[k] = Stop("serial")
    BY OtherCommands
  <2>2. Clean(StopAll) /\ NoSerialStart(StopAll)
    BY <2>1 DEF Clean, NoSerialStart
  <2>3. Stop("serial").timer = "serial" /\ Stop("serial").left = Off
    BY DEF Stop
  <2>4. \E i \in 1 .. Len(StopAll) : SerialStop(StopAll, i)
    BY <2>1, <2>3 DEF SerialStop
  <2>5. QED
    BY <2>1, <2>2, <2>4
<1>3. ASSUME NEW ticks \in Nat
      PROVE  StartSerial(ticks) \in Seq(Commands) /\ Clean(StartSerial(ticks))
  BY OtherCommands, Names DEF Clean, Ready
<1>4. <<>> \in Seq(Commands) /\ Clean(<<>>) /\ NoSerial(<<>>)
  BY DEF Clean, NoSerial
<1>5. <<Stop("rls")>> \in Seq(Commands) /\ Clean(<<Stop("rls")>>) /\ NoSerial(<<Stop("rls")>>)
  BY OtherCommands DEF Clean, NoSerial, Stop
<1>6. QED
  BY <1>1, <1>2, <1>3, <1>4, <1>5

\* What a callback puts into its command list and its position.
LEMMA CallbackSends ==
  ASSUME TypeOK, Callbacks
  PROVE  /\ send' \in Seq(Commands) /\ Clean(send')
         /\ pc' \in {"drain", "call"} /\ state' \in {"IDLE", "PUSH", "PRESSED"}
         /\ UNCHANGED <<level, irq, edges, moved, timer, queue, held, overrun>>
         /\ pressed' \in BOOLEAN /\ settled' \in BOOLEAN
<1> USE ReturnedCommands
<1>1. SerialAfter \in Nat /\ SerialEvery \in Nat
  BY TimeAssumption
<1>2. CASE button_tap_psh_cb
  BY <1>1, <1>2 DEF button_tap_psh_cb, Returns, TypeOK, inputs, history
<1>3. CASE ReleaseLevel
  BY <1>3 DEF ReleaseLevel, Returns, TypeOK, inputs, history
<1>4. CASE ReleaseCall
  BY <1>4 DEF ReleaseCall, Returns, TypeOK, inputs
<1>5. CASE button_press_cb
  BY <1>5 DEF button_press_cb, Returns, TypeOK, inputs
<1>6. CASE button_press_serial_cb
  BY <1>1, <1>6 DEF button_press_serial_cb, Returns, TypeOK, inputs, history
<1>7. QED
  BY <1>2, <1>3, <1>4, <1>5, <1>6 DEF Callbacks

(***************************************************************************)
(* Types.                                                                  *)
(***************************************************************************)
\* The configured button has the right types.
LEMMA TypeInit == Init => TypeOK
<1> SUFFICES ASSUME Init PROVE TypeOK
  OBVIOUS
<1>1. timer \in [Timers -> Nat \cup {Off}]
  <2>1. PICK started \in SUBSET Registered :
          timer = [t \in Timers |-> IF t \notin started THEN Off
                                    ELSE IF t = "serial" THEN SerialAfter ELSE Time[t]]
    BY DEF Init
  <2>2. Time["psh"] \in Nat /\ Time["rls"] \in Nat /\ SerialAfter \in Nat
    BY TimeAssumption
  <2>3. QED
    BY <2>1, <2>2 DEF Registered
<1>2. QED
  <2>1. queue \in Seq(Commands) /\ Len(queue) <= QueueLength /\ send \in Seq(Commands)
    <3>1. <<>> \in Seq(Commands) /\ Len(<<>>) = 0 /\ QueueLength \in Nat
      BY BoundsAssumption
    <3>2. queue = <<>> /\ send = <<>>
      BY DEF Init
    <3>3. QED
      BY <3>1, <3>2
  <2>2. QED
    BY <1>1, <2>1 DEF Init, TypeOK

\* Every step of the contact, the interrupt and the timer service keeps the types.
LEMMA TypeStep == TypeOK /\ [Next]_vars => TypeOK'
<1> SUFFICES ASSUME TypeOK, [Next]_vars PROVE TypeOK'
  OBVIOUS
<1>1. CASE Edge
  BY <1>1 DEF Edge, TypeOK, task, history
<1>2. CASE button_gpio_isr_handler
  BY <1>2, HandlerQueue DEF button_gpio_isr_handler, TypeOK, task
<1>3. CASE Command
  <2>1. Head(queue) \in Commands /\ Tail(queue) \in Seq(Commands) /\ Len(Tail(queue)) = Len(queue) - 1
    BY <1>3, HeadTailProperties DEF Command, TypeOK
  <2>2. timer' \in [Timers -> Nat \cup {Off}]
    BY <1>3, <2>1 DEF Command, TypeOK, Commands
  <2>3. Len(queue) \in Nat /\ QueueLength \in Nat
    BY BoundsAssumption DEF TypeOK
  <2>4. Len(queue') <= QueueLength
    BY <1>3, <2>1, <2>3 DEF Command, TypeOK
  <2>5. QED
    BY <1>3, <2>1, <2>2, <2>4 DEF Command, TypeOK, inputs, task, history
<1>4. CASE Drained
  BY <1>4 DEF Drained, TypeOK, inputs, history
<1>5. CASE Wake
  BY <1>5 DEF Wake, TypeOK, inputs, history
<1>6. CASE Enqueue
  <2>1. Head(send) \in Commands /\ Tail(send) \in Seq(Commands)
    BY <1>6, HeadTailProperties DEF Enqueue, TypeOK
  <2>2. queue' \in Seq(Commands) /\ Len(queue') = Len(queue) + 1
    BY <1>6, <2>1 DEF Enqueue, TypeOK
  <2>3. Len(queue) \in Nat /\ QueueLength \in Nat
    BY BoundsAssumption DEF TypeOK
  <2>4. Len(queue') <= QueueLength
    BY <1>6, <2>2, <2>3 DEF Enqueue, Room
  <2>5. QED
    BY <1>6, <2>1, <2>2, <2>4 DEF Enqueue, TypeOK, inputs, history
<1>7. ASSUME NEW t \in Timers, Fire(t) PROVE TypeOK'
  <2>1. send' \in Seq(Commands)
    BY <1>7, ReturnedCommands DEF Fire
  <2>2. QED
    BY <1>7, <2>1 DEF Fire, TypeOK, inputs, history
<1>8. CASE Tick
  <2>1. timer' \in [Timers -> Nat \cup {Off}]
    <3>1. \A t \in Timers : timer[t] = Off \/ timer[t] \in Nat \ {0}
      BY <1>8 DEF Tick, TypeOK
    <3>2. \A t \in Timers : (IF timer[t] = Off THEN Off ELSE timer[t] - 1) \in Nat \cup {Off}
      BY <3>1
    <3>3. QED
      BY <1>8, <3>2 DEF Tick
  <2>2. held' \in Nat
    BY <1>8 DEF Tick, TypeOK
  <2>3. QED
    BY <1>8, <2>1, <2>2 DEF Tick, TypeOK, task
<1>9. CASE Callbacks
  BY <1>9, CallbackSends DEF TypeOK
<1>10. CASE UNCHANGED vars
  BY <1>10 DEF vars, inputs, task, history, TypeOK
<1>11. QED
  BY <1>1, <1>2, <1>3, <1>4, <1>5, <1>6, <1>7, <1>8, <1>9, <1>10 DEF Next, Device, Service

\* The state keeps its types and the queue its length.
THEOREM TypeCorrect == Spec => []TypeOK
BY TypeInit, TypeStep, PTL DEF Spec

(***************************************************************************)
(* The commands.                                                           *)
(***************************************************************************)
\* Taking a command off the queue.
LEMMA TakenCommand ==
  ASSUME TypeOK, Command
  PROVE  /\ Len(queue) \in Nat \ {0} /\ Len(queue') = Len(queue) - 1
         /\ \A i \in 1 .. Len(queue') : queue'[i] = queue[i + 1] /\ i + 1 \in 1 .. Len(queue)
         /\ \A i \in 1 .. Len(queue) : i = 1 \/ i - 1 \in 1 .. Len(queue')
         /\ queue[1] \in Commands
         /\ \A t \in Timers : timer'[t] = IF t = queue[1].timer THEN queue[1].left ELSE timer[t]
<1>1. queue \in Seq(Commands) /\ queue # <<>> /\ queue' = Tail(queue)
  BY DEF TypeOK, Command
<1>2. /\ Len(queue) \in Nat \ {0} /\ Len(queue') = Len(queue) - 1
      /\ \A i \in 1 .. Len(queue') : queue'[i] = queue[i + 1]
  BY <1>1, HeadTailProperties
<1>3. queue[1] \in Commands /\ Head(queue) = queue[1]
  BY <1>1, <1>2
<1>4. timer' = [timer EXCEPT ![queue[1].timer] = queue[1].left]
  BY <1>3 DEF Command
<1>5. \A t \in Timers : timer'[t] = IF t = queue[1].timer THEN queue[1].left ELSE timer[t]
  BY <1>4 DEF TypeOK
<1>6. QED
  BY <1>2, <1>3, <1>5

\* Queueing a command.
LEMMA QueuedCommand ==
  ASSUME TypeOK, Enqueue
  PROVE  /\ Len(queue) \in Nat /\ Len(queue') = Len(queue) + 1
         /\ \A i \in 1 .. Len(queue) : queue'[i] = queue[i]
         /\ queue'[Len(queue) + 1] = send[1]
         /\ Len(send) \in Nat \ {0} /\ Len(send') = Len(send) - 1
         /\ \A i \in 1 .. Len(send') : send'[i] = send[i + 1] /\ i + 1 \in 1 .. Len(send)
         /\ \A i \in 1 .. Len(send) : i = 1 \/ i - 1 \in 1 .. Len(send')
<1>1. /\ queue \in Seq(Commands) /\ send \in Seq(Commands) /\ send # <<>>
      /\ queue' = Append(queue, Head(send)) /\ send' = Tail(send)
  BY DEF TypeOK, Enqueue
<1>2. /\ Len(send) \in Nat \ {0} /\ Len(send') = Len(send) - 1
      /\ \A i \in 1 .. Len(send') : send'[i] = send[i + 1]
  BY <1>1, HeadTailProperties
<1>3. send[1] \in Commands /\ Head(send) = send[1]
  BY <1>1, <1>2
<1>4. QED
  BY <1>1, <1>2, <1>3

\* Every step queues only stops and full starts of the timers but the serial one.
LEMMA CommandStep ==
  ASSUME TypeOK, CommandInv, [Next]_vars
  PROVE  CommandInv'
<1>1. ASSUME UNCHANGED <<queue, send>> PROVE CommandInv'
  BY <1>1 DEF CommandInv, Clean
<1>2. CASE Edge
  BY <1>1, <1>2 DEF Edge, task
<1>3. CASE button_gpio_isr_handler
  <2>1. send' = send
    BY <1>3 DEF button_gpio_isr_handler, task
  <2>2. Len(queue) \in Nat
    BY DEF TypeOK
  <2>3. \A i \in 1 .. Len(queue') : i \in 1 .. Len(queue) \/ i \in Len(queue) + 1 .. Len(queue')
    BY <2>2
  <2>4. QED
    BY <1>3, <2>1, <2>3, HandlerQueue DEF CommandInv, Clean
<1>4. CASE Command
  BY <1>4, TakenCommand DEF CommandInv, Clean, Command, task
<1>5. CASE Drained \/ Wake
  BY <1>1, <1>5 DEF Drained, Wake
<1>6. CASE Enqueue
  <2>1. \A i \in 1 .. Len(queue') : i \in 1 .. Len(queue) \/ i = Len(queue) + 1
    BY <1>6, QueuedCommand
  <2>2. 1 \in 1 .. Len(send)
    BY <1>6, QueuedCommand
  <2>3. QED
    BY <1>6, <2>1, <2>2, QueuedCommand DEF CommandInv, Clean
<1>7. ASSUME NEW t \in Timers, Fire(t) PROVE CommandInv'
  <2>1. Clean(send') /\ queue' = queue
    BY <1>7, ReturnedCommands DEF Fire
  <2>2. QED
    BY <2>1 DEF CommandInv, Clean
<1>8. CASE Tick
  BY <1>1, <1>8 DEF Tick, task
<1>9. CASE Callbacks
  BY <1>9, CallbackSends DEF CommandInv, Clean
<1>10. CASE UNCHANGED vars
  BY <1>1, <1>10 DEF vars, task
<1>11. QED
  BY <1>2, <1>3, <1>4, <1>5, <1>6, <1>7, <1>8, <1>9, <1>10 DEF Next, Device, Service

(***************************************************************************)
(* The long presses.                                                       *)
(***************************************************************************)
\* No step lets a long-press timer run that did not start with a press.
LEMMA LongStep ==
  ASSUME TypeOK, CommandInv, LongInv, [Next]_vars
  PROVE  LongInv'
<1>1. SUFFICES ASSUME NEW t \in Custom
               PROVE  (/\ level /\ ~overrun => \/ irq \/ \E i \in 1 .. Len(queue) : queue[i].timer = t
                                               \/ timer[t] = Off \/ held + timer[t] >= Time[t]
                       /\ level /\ ~moved /\ ~overrun =>
                            /\ timer[t] = Off \/ held + timer[t] >= Time[t]
                            /\ pc = t => held >= Time[t])'
  BY DEF LongInv
<1>2. /\ t \in Timers /\ t \in Ready /\ t \notin {"drain", "select", "call", "psh", "rls", "serial"}
      /\ Time[t] \in Nat \ {0} /\ timer[t] \in Nat \cup {Off} /\ Off \notin Nat /\ held \in Nat
      /\ Len(queue) \in Nat
  <2>1. t \in Ready /\ t \in Timers /\ Time[t] \in Nat \ {0}
    BY Names
  <2>2. t \notin {"drain", "select", "call", "psh", "rls", "serial"}
    BY CustomAssumption
  <2>3. timer[t] \in Nat \cup {Off} /\ held \in Nat /\ Len(queue) \in Nat
    BY <2>1 DEF TypeOK
  <2>4. QED
    BY <2>1, <2>2, <2>3, BoundsAssumption
<1>3. /\ level /\ ~overrun => \/ irq \/ \E i \in 1 .. Len(queue) : queue[i].timer = t
                              \/ timer[t] = Off \/ held + timer[t] >= Time[t]
      /\ level /\ ~moved /\ ~overrun => /\ timer[t] = Off \/ held + timer[t] >= Time[t]
                                        /\ pc = t => held >= Time[t]
  BY DEF LongInv
<1>4. CASE Edge
  BY <1>4 DEF Edge
<1>5. CASE button_gpio_isr_handler
  <2>1. UNCHANGED <<level, moved, timer, pc, held>>
    BY <1>5 DEF button_gpio_isr_handler, task
  <2>2. (overrun => overrun') /\ (level /\ ~overrun' => \E i \in 1 .. Len(queue') : queue'[i].timer = t)
    BY <1>5, HandlerQueue
  <2>3. QED
    BY <1>3, <2>1, <2>2
<1>6. CASE Command
  <2>1. UNCHANGED <<level, irq, moved, pc, held, overrun>> /\ pc = "drain"
    BY <1>6 DEF Command, inputs, task, history
  <2>2. CASE queue[1].timer = t
    <3>1. timer'[t] \in {Off, Time[t]}
      BY <1>2, <1>6, <2>2, TakenCommand DEF CommandInv, Clean
    <3>2. timer'[t] = Off \/ held + timer'[t] >= Time[t]
      BY <1>2, <3>1
    <3>3. QED
      BY <1>2, <2>1, <3>2
  <2>3. CASE queue[1].timer # t
    <3>1. timer'[t] = timer[t]
      BY <1>2, <1>6, <2>3, TakenCommand
    <3>2. ASSUME NEW i \in 1 .. Len(queue), queue[i].timer = t
          PROVE  \E j \in 1 .. Len(queue') : queue'[j].timer = t
      <4>1. i - 1 \in 1 .. Len(queue')
        BY <1>6, <2>3, <3>2, TakenCommand
      <4>2. queue'[i - 1] = queue[i]
        <5>1. (i - 1) + 1 = i
          BY <1>2
        <5>2. QED
          BY <1>6, <4>1, <5>1, TakenCommand
      <4>3. QED
        BY <3>2, <4>1, <4>2
    <3>3. QED
      BY <1>3, <2>1, <3>1, <3>2
  <2>4. QED
    BY <2>2, <2>3
<1>7. CASE Drained \/ Wake
  BY <1>2, <1>3, <1>7 DEF Drained, Wake, inputs, history
<1>8. CASE Enqueue
  <2>1. UNCHANGED <<level, irq, moved, timer, pc, held, overrun>>
    BY <1>8 DEF Enqueue, inputs, history
  <2>2. \A i \in 1 .. Len(queue) : i \in 1 .. Len(queue') /\ queue'[i] = queue[i]
    BY <1>8, QueuedCommand
  <2>3. QED
    BY <1>3, <2>1, <2>2
<1>9. ASSUME NEW u \in Timers, Fire(u)
      PROVE  (/\ level /\ ~overrun => \/ irq \/ \E i \in 1 .. Len(queue) : queue[i].timer = t
                                      \/ timer[t] = Off \/ held + timer[t] >= Time[t]
              /\ level /\ ~moved /\ ~overrun =>
                   /\ timer[t] = Off \/ held + timer[t] >= Time[t]
                   /\ pc = t => held >= Time[t])'
  <2>1. UNCHANGED <<level, irq, moved, queue, held, overrun>> /\ pc' = u /\ timer[u] = 0
    BY <1>9 DEF Fire, inputs, history
  <2>2. timer'[t] = IF t = u THEN Off ELSE timer[t]
    BY <1>2, <1>9 DEF Fire, TypeOK
  <2>3. CASE t = u
    <3>1. level /\ ~moved /\ ~overrun => held >= Time[t]
      BY <1>2, <1>3, <2>1, <2>3
    <3>2. QED
      BY <2>1, <2>2, <2>3, <3>1
  <2>4. CASE t # u
    BY <1>3, <2>1, <2>2, <2>4
  <2>5. QED
    BY <2>3, <2>4
<1>10. CASE Tick
  <2>1. /\ ~irq /\ queue = <<>> /\ pc = "select" /\ timer[t] # 0
        /\ UNCHANGED <<level, irq, queue, pc, overrun>>
        /\ timer'[t] = IF timer[t] = Off THEN Off ELSE timer[t] - 1
    BY <1>2, <1>10 DEF Tick, task
  <2>2. level => held' = held + 1 \/ (held' = held /\ held >= Time[t])
    <3>1. \A u \in Custom : Time[u] \in Nat
      BY Names
    <3>2. QED
      BY <1>2, <1>10, <3>1 DEF Tick
  <2>3. level /\ ~overrun => timer[t] = Off \/ held + timer[t] >= Time[t]
    BY <1>3, <2>1
  <2>4. level /\ ~overrun => timer'[t] = Off \/ held' + timer'[t] >= Time[t]
    BY <1>2, <2>1, <2>2, <2>3
  <2>5. QED
    BY <1>2, <2>1, <2>4
<1>11. CASE Callbacks
  BY <1>2, <1>3, <1>11, CallbackSends
<1>12. CASE UNCHANGED vars
  BY <1>3, <1>12 DEF vars, inputs, task, history
<1>13. QED
  BY <1>4, <1>5, <1>6, <1>7, <1>8, <1>9, <1>10, <1>11, <1>12 DEF Next, Device, Service

(***************************************************************************)
(* The serial callback.                                                    *)
(***************************************************************************)
\* No step leaves a start of the serial timer behind the stop of a release.
LEMMA SerialStep ==
  ASSUME TypeOK, SerialInv, [Next]_vars
  PROVE  SerialInv'
<1> USE DEF SerialStop, NoSerial, NoSerialStart, Ended
<1>1. ASSUME UNCHANGED <<timer, queue, send, pc, state, settled>> PROVE SerialInv'
  BY <1>1 DEF SerialInv
<1>2. Len(queue) \in Nat /\ Len(send) \in Nat
  BY DEF TypeOK
<1>3. CASE Edge
  BY <1>1, <1>3 DEF Edge, task, history
<1>4. CASE button_gpio_isr_handler
  <2>1. UNCHANGED <<timer, send, pc, state, settled>>
    BY <1>4 DEF button_gpio_isr_handler, task
  <2>2. Len(queue') \in Nat /\ Len(queue) <= Len(queue')
    BY <1>4, HandlerQueue
  <2>3. \A i \in 1 .. Len(queue) : i \in 1 .. Len(queue') /\ queue'[i] = queue[i]
    BY <1>2, <1>4, <2>2, HandlerQueue
  <2>4. \A i \in 1 .. Len(queue') : queue'[i].timer = "serial" => i \in 1 .. Len(queue)
    <3>1. \A i \in 1 .. Len(queue') : i \in 1 .. Len(queue) \/ i \in Len(queue) + 1 .. Len(queue')
      BY <1>2, <2>2
    <3>2. "serial" \notin Ready
      BY Names DEF Ready
    <3>3. QED
      BY <1>4, <3>1, <3>2, HandlerQueue
  <2>5. pc # "drain" => NoSerialStart(queue')
    BY <2>3, <2>4 DEF SerialInv
  <2>6. pc \notin {"drain", "call"} => NoSerial(queue')
    BY <2>3, <2>4 DEF SerialInv
  <2>7. pc = "call" => \/ \E i \in 1 .. Len(queue') : SerialStop(queue', i)
                       \/ \E i \in 1 .. Len(send) : SerialStop(send, i)
    BY <2>3 DEF SerialInv
  <2>8. Ended(queue) => Ended(queue)'
    BY <2>1, <2>3, <2>4
  <2>9. QED
    BY <2>1, <2>5, <2>6, <2>7, <2>8 DEF SerialInv
<1>5. CASE Command
  <2>1. UNCHANGED <<send, pc, state, settled>> /\ pc = "drain"
    BY <1>5 DEF Command, task, history
  <2>2. Ended(queue) => Ended(queue)'
    <3> SUFFICES ASSUME Ended(queue) PROVE Ended(queue)'
      OBVIOUS
    <3>1. ASSUME NEW i \in 1 .. Len(queue), i # 1
          PROVE  i - 1 \in 1 .. Len(queue') /\ queue'[i - 1] = queue[i]
      <4>1. i - 1 \in 1 .. Len(queue') /\ (i - 1) + 1 = i
        BY <1>5, <3>1, TakenCommand
      <4>2. QED
        BY <1>5, <4>1, TakenCommand
    <3>2. timer'["serial"] # Off => \E j \in 1 .. Len(queue') : SerialStop(queue', j)
      <4> SUFFICES ASSUME timer'["serial"] # Off PROVE \E j \in 1 .. Len(queue') : SerialStop(queue', j)
        OBVIOUS
      <4>1. /\ 1 \in 1 .. Len(queue)
            /\ timer'["serial"] = IF queue[1].timer = "serial" THEN queue[1].left ELSE timer["serial"]
        BY <1>5, TakenCommand DEF Timers
      <4>2. \E j \in 1 .. Len(queue) : j # 1 /\ SerialStop(queue, j)
        <5>1. CASE queue[1].timer = "serial"
          BY <4>1, <5>1
        <5>2. CASE queue[1].timer # "serial"
          BY <4>1, <5>2
        <5>3. QED
          BY <5>1, <5>2
      <4>3. QED
        BY <3>1, <4>2
    <3>3. ASSUME NEW i \in 1 .. Len(queue'), queue'[i].timer = "serial", queue'[i].left # Off
          PROVE  \E j \in 1 .. Len(queue') : j > i /\ SerialStop(queue', j)
      <4>1. i + 1 \in 1 .. Len(queue) /\ queue'[i] = queue[i + 1]
        BY <1>5, TakenCommand
      <4>2. PICK j \in 1 .. Len(queue) : j > i + 1 /\ SerialStop(queue, j)
        BY <3>3, <4>1
      <4>3. j # 1 /\ j - 1 > i
        BY <4>1, <4>2
      <4>4. QED
        BY <3>1, <4>2, <4>3
    <3>4. QED
      BY <3>2, <3>3
  <2>3. QED
    BY <2>1, <2>2 DEF SerialInv
<1>6. CASE Drained
  <2>1. /\ pc = "drain" /\ pc' = "select" /\ send = <<>> /\ queue = <<>>
        /\ UNCHANGED <<timer, queue, send, state, settled>>
    BY <1>6 DEF Drained, history
  <2>2. Len(<<>>) = 0
    OBVIOUS
  <2>3. QED
    BY <2>1, <2>2 DEF SerialInv
<1>7. CASE Wake
  BY <1>7 DEF Wake, history, SerialInv
<1>8. CASE Enqueue
  <2>1. UNCHANGED <<timer, pc, state, settled>>
    BY <1>8 DEF Enqueue, history
  <2>2. \A i \in 1 .. Len(queue) : i \in 1 .. Len(queue') /\ queue'[i] = queue[i]
    BY <1>8, QueuedCommand
  <2>3. /\ \A i \in 1 .. Len(queue') : i \in 1 .. Len(queue) \/ (i = Len(queue) + 1 /\ queue'[i] = send[1])
        /\ 1 \in 1 .. Len(send) /\ Len(queue) + 1 \in 1 .. Len(queue')
        /\ queue'[Len(queue) + 1] = send[1]
    BY <1>2, <1>8, QueuedCommand
  <2>4. \A i \in 1 .. Len(send') : i + 1 \in 1 .. Len(send) /\ send'[i] = send[i + 1]
    BY <1>8, QueuedCommand
  <2>5. ASSUME NEW i \in 1 .. Len(send), i # 1
        PROVE  i - 1 \in 1 .. Len(send') /\ send'[i - 1] = send[i]
    <3>1. i - 1 \in 1 .. Len(send') /\ (i - 1) + 1 = i
      BY <1>8, <2>5, QueuedCommand
    <3>2. QED
      BY <1>8, <3>1, QueuedCommand
  <2>6. pc # "drain" => NoSerialStart(queue') /\ NoSerialStart(send')
    <3>1. SUFFICES ASSUME NoSerialStart(queue), NoSerialStart(send)
                   PROVE  NoSerialStart(queue') /\ NoSerialStart(send')
      BY DEF SerialInv
    <3>2. NoSerialStart(queue')
      BY <2>2, <2>3, <3>1
    <3>3. NoSerialStart(send')
      BY <2>4, <3>1
    <3>4. QED
      BY <3>2, <3>3
  <2>7. pc \notin {"drain", "call"} => NoSerial(queue') /\ NoSerial(send')
    <3>1. SUFFICES ASSUME NoSerial(queue), NoSerial(send)
                   PROVE  NoSerial(queue') /\ NoSerial(send')
      BY DEF SerialInv
    <3>2. NoSerial(queue')
      BY <2>2, <2>3, <3>1
    <3>3. NoSerial(send')
      BY <2>4, <3>1
    <3>4. QED
      BY <3>2, <3>3
  <2>8. pc = "call" => \/ \E i \in 1 .. Len(queue') : SerialStop(queue', i)
                       \/ \E i \in 1 .. Len(send') : SerialStop(send', i)
    <3>1. CASE \E i \in 1 .. Len(queue) : SerialStop(queue, i)
      BY <2>2, <3>1
    <3>2. CASE \E i \in 1 .. Len(send) : SerialStop(send, i)
      <4>1. PICK i \in 1 .. Len(send) : SerialStop(send, i)
        BY <3>2
      <4>2. CASE i = 1
        BY <2>3, <4>1, <4>2
      <4>3. CASE i # 1
        BY <2>5, <4>1, <4>3
      <4>4. QED
        BY <4>2, <4>3
    <3>3. QED
      BY <3>1, <3>2 DEF SerialInv
  <2>9. ASSUME NoSerialStart(send), Ended(queue) PROVE NoSerialStart(send') /\ Ended(queue)'
    <3>1. NoSerialStart(send')
      BY <2>4, <2>9
    <3>2. \A i \in 1 .. Len(queue') : queue'[i].timer = "serial" /\ queue'[i].left # Off => i \in 1 .. Len(queue)
      BY <2>3, <2>9
    <3>3. QED
      BY <2>1, <2>2, <2>9, <3>1, <3>2
  <2>10. QED
    BY <2>1, <2>6, <2>7, <2>8, <2>9 DEF SerialInv
<1>9. ASSUME NEW t \in Timers, Fire(t) PROVE SerialInv'
  <2>1. /\ pc = "select" /\ timer[t] = 0 /\ pc' = t
        /\ UNCHANGED <<queue, state, settled>>
    BY <1>9 DEF Fire, history
  <2>2. t \notin {"drain", "select", "call"} /\ Off # 0
    BY Names, BoundsAssumption
  <2>3. NoSerial(send')
    BY <1>9, ReturnedCommands DEF Fire
  <2>4. NoSerial(queue) /\ NoSerialStart(queue)
    BY <2>1 DEF SerialInv
  <2>5. settled /\ state = "IDLE" => t # "serial" /\ timer["serial"] = Off
    BY <2>1, <2>2, <2>4 DEF SerialInv
  <2>6. t # "serial" => timer'["serial"] = timer["serial"]
    BY <1>9 DEF Fire, TypeOK, Timers
  <2>7. settled /\ state = "IDLE" => Ended(queue)'
    BY <2>1, <2>4, <2>5, <2>6
  <2>8. QED
    BY <2>1, <2>2, <2>3, <2>4, <2>5, <2>7 DEF SerialInv
<1>10. CASE Tick
  <2>1. UNCHANGED <<queue, send, pc, state, settled>>
    BY <1>10 DEF Tick, task
  <2>2. timer'["serial"] = IF timer["serial"] = Off THEN Off ELSE timer["serial"] - 1
    BY <1>10 DEF Tick, Timers
  <2>3. QED
    BY <2>1, <2>2 DEF SerialInv
<1>11. CASE Callbacks
  <2>1. UNCHANGED <<timer, queue>>
    BY <1>11, CallbackSends
  <2>2. Len(<<>>) = 0
    OBVIOUS
  <2>3. CASE button_tap_psh_cb
    <3>1. pc = "psh" /\ pc' = "drain" /\ settled' = settled
      BY <2>3 DEF button_tap_psh_cb, Returns, history
    <3>2. CASE level /\ state' = "PUSH"
      BY <2>1, <3>1, <3>2 DEF SerialInv
    <3>3. CASE state' = state /\ send' = LookAgain
      <4>1. NoSerialStart(send')
        BY <3>3, ReturnedCommands
      <4>2. QED
        BY <2>1, <3>1, <3>3, <4>1 DEF SerialInv
    <3>4. QED
      BY <2>3, <3>2, <3>3 DEF button_tap_psh_cb, Returns
  <2>4. CASE ReleaseLevel
    <3>1. pc = "rls" /\ UNCHANGED <<state, settled>>
      BY <2>4 DEF ReleaseLevel, history
    <3>2. CASE pc' = "drain" /\ send' = <<>>
      BY <2>1, <2>2, <3>1, <3>2 DEF SerialInv
    <3>3. CASE pc' = "call" /\ send' = StopAll
      <4>1. NoSerialStart(send') /\ \E i \in 1 .. Len(send') : SerialStop(send', i)
        BY <3>3, ReturnedCommands
      <4>2. QED
        BY <2>1, <3>1, <3>3, <4>1 DEF SerialInv
    <3>4. QED
      BY <2>4, <3>2, <3>3 DEF ReleaseLevel, Returns
  <2>5. CASE ReleaseCall
    <3>1. pc = "call" /\ send = <<>> /\ pc' = "drain" /\ send' = <<>>
      BY <2>5 DEF ReleaseCall, Returns
    <3>2. NoSerialStart(queue) /\ \E i \in 1 .. Len(queue) : SerialStop(queue, i)
      BY <2>2, <3>1 DEF SerialInv
    <3>3. Ended(queue)'
      BY <2>1, <3>2
    <3>4. QED
      BY <2>2, <3>1, <3>3 DEF SerialInv
  <2>6. CASE button_press_cb
    <3>1. pc \in Custom /\ pc' = "drain" /\ send' = <<>> /\ settled' = settled
          /\ (state' = "PRESSED" \/ state' = state)
      BY <2>6 DEF button_press_cb, Returns
    <3>2. QED
      BY <2>1, <2>2, <3>1 DEF SerialInv
  <2>7. CASE button_press_serial_cb
    <3>1. pc = "serial" /\ pc' = "drain" /\ UNCHANGED <<state, settled>>
      BY <2>7 DEF button_press_serial_cb, Returns, history
    <3>2. QED
      BY <2>1, <3>1 DEF SerialInv
  <2>8. QED
    BY <1>11, <2>3, <2>4, <2>5, <2>6, <2>7 DEF Callbacks
<1>12. CASE UNCHANGED vars
  BY <1>1, <1>12 DEF vars, task, history
<1>13. QED
  BY <1>3, <1>4, <1>5, <1>6, <1>7, <1>8, <1>9, <1>10, <1>11, <1>12 DEF Next, Device, Service

\* The invariant holds once the button is configured.
LEMMA InvInit == Init => IInv
<1> SUFFICES ASSUME Init PROVE IInv
  OBVIOUS
<1>1. TypeOK
  BY TypeInit
<1>2. queue = <<>> /\ send = <<>> /\ pc = "select" /\ ~settled /\ Len(<<>>) = 0
  BY DEF Init
<1>3. CommandInv /\ SerialInv
  BY <1>2 DEF CommandInv, Clean, SerialInv, NoSerial, NoSerialStart
<1>4. \A t \in Custom : timer[t] = Off /\ t # "select"
  BY Names DEF Init, Timers, Registered
<1>5. LongInv
  BY <1>2, <1>4 DEF LongInv
<1>6. QED
  BY <1>1, <1>3, <1>5 DEF IInv

\* The invariant holds in every reachable state.
THEOREM Invariance == Spec => []IInv
<1>1. IInv /\ [Next]_vars => IInv'
  BY TypeStep, CommandStep, SerialStep, LongStep DEF IInv
<1>2. QED
  BY InvInit, <1>1, PTL DEF Spec

\* The serial callback is called only between a push and its release.
THEOREM SerialOnlyWhilePushed == Spec => SerialWhilePushed
<1>1. IInv => (button_press_serial_cb /\ settled => state # "IDLE")
  BY DEF IInv, SerialInv, button_press_serial_cb
<1>2. QED
  BY Invariance, <1>1, PTL DEF SerialWhilePushed

\* No long-press callback is called for a shorter press, whatever bounced.
THEOREM LongPressIsLong == Spec => PressIsLong
<1>1. IInv => \A t \in Custom : pc = t /\ button_press_cb /\ level => held >= Time[t] \/ moved \/ overrun
  BY DEF IInv, LongInv, TypeOK
<1>2. QED
  BY Invariance, <1>1, PTL DEF PressIsLong
=============================================================================
