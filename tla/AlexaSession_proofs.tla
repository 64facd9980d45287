------------------------ MODULE AlexaSession_proofs ------------------------
(***************************************************************************)
(* Proofs about AlexaSession, for any two topics neither of which begins   *)
(* with the other, and any bounds.                                         *)
(*                                                                         *)
(* The table is sound because whoever subscribes has unsubscribed from the *)
(* same topic first, and two topics leave one of three slots free          *)
(* (TableInv).  That the session is told rests on SessionInv: while no     *)
(* sign-in has crossed a sign-out, the library is asked for sign-outs      *)
(* first, a sign-out on its way has been asked for or done, and otherwise  *)
(* the flags agree with the account or are about to (Agrees).              *)
(***************************************************************************)
EXTENDS AlexaSession, TLAPS

\* The parameter and the flags in the middle of the loop.
Phase ==
  /\ pc = "noteIn" => alexa /\ Wait_for_alexa_in = "LOGED_IN"
  /\ pc = "noteOut" => ~alexa /\ SignOutPending
  /\ pc = "noteSignedOut" => ~alexa

\* Sign-outs come before sign-ins.
OutsFirst == \A i, j \in 1 .. Len(requests) :
                i < j /\ requests[i] = "in" => requests[j] = "in"

\* With no sign-out on its way, the flags and the parameter follow the account, or
\* the sign-out that is still asked for.
Agrees ==
  IF Asked("out") \/ account = "out"
  THEN ~alexa /\ Wait_for_alexa_in = "NOT_LOG_IN"
  ELSE Wait_for_alexa_in = "LOGED_IN" \/ (alexa /\ Wait_for_alexa_in = "LOGED_IN_NOTIVE")

SessionInv ==
  /\ Phase
  /\ ~crossed => /\ OutsFirst
                 /\ SigningOut => account = "out" \/ Asked("out")
                 /\ ~SigningOut => Agrees

\* The topic to be subscribed to is out of the table.
TableInv ==
  /\ \A i, j \in Slots : slots[i] = slots[j] /\ slots[i] # NoTopic => i = j
  /\ \A i \in Slots : slots[i] # NoTopic => slots[i] \in broker
  /\ pc = "subscribe" => \A i \in Slots : slots[i] # target

(***************************************************************************)
(* The table.                                                              *)
(***************************************************************************)
Tables == [Slots -> Topics \cup {NoTopic}]
Single(s) == \A i, j \in Slots : s[i] = s[j] /\ s[i] # NoTopic => i = j

LEMMA TopicsDiffer ==
  /\ NoTopic \notin Topics
  /\ \A t, u \in Topics : IsPrefix(t, u) <=> t = u
<1>1. NoTopic \notin Topics
  BY TopicAssumption
<1>2. \A t \in Topics : IsPrefix(t, t)
  <2>1. \A t \in Topics : Len(t) \in Nat
    BY TopicAssumption
  <2>2. QED BY <2>1 DEF IsPrefix
<1>3. ~IsPrefix(AppTopic, OtaTopic) /\ ~IsPrefix(OtaTopic, AppTopic)
  BY TopicAssumption
<1>4. QED BY <1>1, <1>2, <1>3, Zenon DEF Topics

LEMMA LowestIsIn ==
  \A S \in SUBSET Slots : S # {} => Lowest(S) \in S
<1> SUFFICES ASSUME NEW S \in SUBSET Slots, S # {} PROVE Lowest(S) \in S
  OBVIOUS
<1>1. \E i \in S : \A j \in S : i <= j
  <2>1. CASE 1 \in S
    BY <2>1 DEF Slots
  <2>2. CASE 1 \notin S /\ 2 \in S
    BY <2>2 DEF Slots
  <2>3. CASE 1 \notin S /\ 2 \notin S
    <3>1. S = {3}
      <4>1. \A i \in S : i = 3
        BY <2>3 DEF Slots
      <4>2. QED BY <4>1
    <3>2. QED BY <3>1
  <2>4. QED BY <2>1, <2>2, <2>3
<1>2. QED BY <1>1, Zenon DEF Lowest

\* Unsubscribing takes out the topic, and nothing else.
LEMMA WithoutTakesOut ==
  ASSUME NEW s \in Tables, Single(s), NEW t \in Topics
  PROVE  /\ Without(s, t) \in Tables
         /\ \A i \in Slots : Without(s, t)[i] = IF s[i] = t THEN NoTopic ELSE s[i]
<1>1. Matching(s, t) = {i \in Slots : s[i] = t}
  BY TopicsDiffer DEF Matching, Tables
<1>2. CASE Matching(s, t) = {}
  BY <1>1, <1>2 DEF Without
<1>3. CASE Matching(s, t) # {}
  <2>1. PICK i \in Slots : i = Lowest(Matching(s, t)) /\ s[i] = t
    BY <1>1, <1>3, LowestIsIn
  <2>2. Without(s, t) = [s EXCEPT ![i] = NoTopic]
    BY <1>3, <2>1 DEF Without
  <2>3. \A j \in Slots : s[j] = t => j = i
    BY <2>1, TopicsDiffer DEF Single
  <2>4. QED BY <2>1, <2>2, <2>3 DEF Tables
<1>4. QED BY <1>2, <1>3

\* Clearing one slot keeps the table single and what was cleared.
LEMMA EmptiedClears ==
  ASSUME NEW s \in Tables, Single(s), NEW i \in Slots
  PROVE  /\ Emptied(s, i) \in Tables /\ Single(Emptied(s, i))
         /\ Emptied(s, i)[i] = NoTopic
         /\ \A j \in Slots : s[j] = NoTopic => Emptied(s, i)[j] = NoTopic
<1>1. CASE s[i] = NoTopic
  BY <1>1 DEF Emptied
<1>2. CASE s[i] # NoTopic
  <2>1. s[i] \in Topics
    BY <1>2 DEF Tables
  <2>2. Emptied(s, i) = Without(s, s[i])
    BY <1>2 DEF Emptied
  <2>3. QED BY <2>1, <2>2, WithoutTakesOut DEF Single
<1>3. QED BY <1>1, <1>2

LEMMA AllEmptiedClears ==
  ASSUME NEW s \in Tables, Single(s)
  PROVE  /\ AllEmptied(s) \in Tables
         /\ \A i \in Slots : AllEmptied(s)[i] = NoTopic
<1>0. 1 \in Slots /\ 2 \in Slots /\ 3 \in Slots /\ Slots = {1, 2, 3}
  BY DEF Slots
<1> DEFINE a == Emptied(s, 1)
<1> DEFINE b == Emptied(a, 2)
<1>1. a \in Tables /\ Single(a) /\ a[1] = NoTopic
  BY <1>0, EmptiedClears
<1> HIDE DEF a
<1>2. b \in Tables /\ Single(b) /\ b[1] = NoTopic /\ b[2] = NoTopic
  BY <1>0, <1>1, EmptiedClears
<1> HIDE DEF b
<1>3. /\ Emptied(b, 3) \in Tables /\ Emptied(b, 3)[1] = NoTopic
      /\ Emptied(b, 3)[2] = NoTopic /\ Emptied(b, 3)[3] = NoTopic
  BY <1>0, <1>2, EmptiedClears
<1>4. AllEmptied(s) = Emptied(b, 3)
  BY DEF AllEmptied, a, b
<1>5. QED BY <1>0, <1>3, <1>4

\* A topic out of the table finds a slot: the other topic has one at most.
LEMMA SlotIsFree ==
  ASSUME NEW s \in Tables, Single(s), NEW t \in Topics, \A i \in Slots : s[i] # t
  PROVE  Empty(s) # {}
<1>1. SUFFICES ASSUME Empty(s) = {} PROVE FALSE
  OBVIOUS
<1>2. 1 \in Slots /\ 2 \in Slots /\ 1 # 2
  BY DEF Slots
<1>3. \A i \in Slots : s[i] \in Topics \ {t}
  BY <1>1 DEF Empty, Tables
<1>4. s[1] = s[2] /\ s[1] # NoTopic
  BY <1>2, <1>3, TopicsDiffer DEF Topics
<1>5. QED BY <1>2, <1>4 DEF Single

\* Subscribing fills a slot that was free.
LEMMA WithPutsIn ==
  ASSUME NEW s \in Tables, Empty(s) # {}, NEW t \in Topics
  PROVE  /\ With(s, t) \in Tables
         /\ \E i \in Slots : s[i] = NoTopic /\ With(s, t) = [s EXCEPT ![i] = t]
<1>1. Empty(s) \subseteq Slots
  BY DEF Empty
<1>2. PICK i \in Slots : i = Lowest(Empty(s)) /\ s[i] = NoTopic
  BY <1>1, LowestIsIn DEF Empty
<1>3. With(s, t) = [s EXCEPT ![i] = t]
  BY <1>2 DEF With
<1>4. QED BY <1>2, <1>3 DEF Tables

(***************************************************************************)
(* The steps and the table.                                                *)
(***************************************************************************)
LEMMA TypesInit == Init => TypeOK /\ TableInv
<1> SUFFICES ASSUME Init PROVE TypeOK /\ TableInv
  OBVIOUS
<1>1. requests \in Seq({"in", "out"})
  BY DEF Init
<1>2. slots \in [Slots -> Topics \cup {NoTopic}] /\ target \in Topics
  BY DEF Init, Topics
<1>3. TypeOK
  BY <1>1, <1>2 DEF Init, TypeOK
<1>4. TableInv
  BY DEF Init, TableInv
<1>5. QED BY <1>3, <1>4

\* The flags, the account and the program counter.
LEMMA SessionTypes ==
  ASSUME TypeOK, TestIn \/ NoteIn \/ TestOut \/ NoteOut \/ NoteSignedOut
  PROVE  TypeOK'
BY DEF TypeOK, TestIn, NoteIn, TestOut, NoteOut, NoteSignedOut, AfterSignOut, Goto,
       table, busy, flags, library, counts

LEMMA LibraryTypes ==
  ASSUME TypeOK, Library
  PROVE  TypeOK'
<1>1. requests # <<>> => Tail(requests) \in Seq({"in", "out"})
  BY DEF TypeOK
<1>2. /\ requests' \in Seq({"in", "out"}) /\ account' \in {"in", "out"} /\ crossed' \in BOOLEAN
      /\ Wait_for_alexa_in' \in {"NOT_LOG_IN", "LOGED_IN", "LOGED_IN_NOTIVE"}
      /\ UNCHANGED <<table, task, busy, Wait_for_alexa_out, alexa>>
  BY <1>1 DEF TypeOK, Library, SignedIn, SignInFails, SignedOut, Served, SigningOut,
       SignOutPending, Asked, flags
<1>3. QED
  BY <1>2 DEF TypeOK, table, busy, task

LEMMA MessageTypes ==
  ASSUME TypeOK, aws_common_subscribe_callback
  PROVE  TypeOK'
<1>1. /\ Append(requests, "in") \in Seq({"in", "out"})
      /\ Append(requests, "out") \in Seq({"in", "out"})
  BY DEF TypeOK
<1>2. PICK m \in Messages : alexa_sign_in_handler(m)
  BY DEF aws_common_subscribe_callback
<1>3. /\ requests' \in Seq({"in", "out"}) /\ crossed' \in BOOLEAN
      /\ Wait_for_alexa_in' = Wait_for_alexa_in
      /\ Wait_for_alexa_out' \in {"NOT_LOG_OUT", "LOGED__OUT"}
  BY <1>1, <1>2 DEF alexa_sign_in_handler, SignOut, SignIn, Ignored, flags, Asked, TypeOK
<1>4. QED
  BY <1>3 DEF aws_common_subscribe_callback, TypeOK, table, busy, task

LEMMA OtherTypes ==
  ASSUME TypeOK,
         \/ esp_cloud_start \/ esp_cloud_stop \/ LoopTop \/ esp_cloud_ota_check
         \/ QueueEmpty \/ esp_cloud_platform_wait
         \/ esp_cloud_report_alexa_status \/ ReportEnds
  PROVE  TypeOK'
<1>1. AppTopic \in Topics /\ OtaTopic \in Topics
  BY DEF Topics
<1>2. CASE esp_cloud_start \/ esp_cloud_stop \/ esp_cloud_ota_check
  <2>1. /\ UNCHANGED <<table, app_topic, busy, flags, alexa, library, crossed>>
        /\ target' \in Topics /\ cloud_stop' \in BOOLEAN
    BY <1>1, <1>2 DEF TypeOK, esp_cloud_start, esp_cloud_stop, esp_cloud_ota_check
  <2>2. pc' \in {pc, "unsubscribe", "top"}
    BY <1>2 DEF esp_cloud_start, esp_cloud_stop, esp_cloud_ota_check
  <2>3. QED BY <2>1, <2>2 DEF TypeOK, table, busy, flags, library
<1>3. CASE LoopTop \/ QueueEmpty \/ esp_cloud_platform_wait
  BY <1>3 DEF TypeOK, LoopTop, QueueEmpty, esp_cloud_platform_wait, Goto, table, busy, flags,
     library
<1>4. CASE esp_cloud_report_alexa_status \/ ReportEnds
  BY <1>4 DEF TypeOK, esp_cloud_report_alexa_status, ReportEnds, table, busy, task, flags, library
<1>5. QED BY <1>2, <1>3, <1>4

\* What these four leave alone.
LEMMA TableStepsKeep ==
  ASSUME TypeOK,
         \/ esp_cloud_platform_unsubscribe \/ esp_cloud_platform_subscribe
         \/ SubscribeFails \/ Disconnect
  PROVE  /\ UNCHANGED <<target, app_topic, busy, flags, alexa, library, crossed>>
         /\ cloud_stop' \in BOOLEAN /\ broker' \subseteq Topics
         /\ pc' \in {"none", "subscribe", "top", "queue"}
         /\ pc \in {"unsubscribe", "subscribe", "top"}
BY DEF TypeOK, esp_cloud_platform_unsubscribe, esp_cloud_platform_subscribe, SubscribeFails,
       Disconnect, Onwards

LEMMA TableStepsInv ==
  ASSUME TypeOK, TableInv,
         \/ esp_cloud_platform_unsubscribe \/ esp_cloud_platform_subscribe
         \/ SubscribeFails \/ Disconnect
  PROVE  slots' \in Tables /\ TableInv'
<1>1. /\ slots \in Tables /\ Single(slots) /\ target \in Topics /\ target' = target
      /\ \A i \in Slots : slots[i] # NoTopic => slots[i] \in broker
      /\ NoTopic \notin Topics
  BY TableStepsKeep, TopicsDiffer DEF TypeOK, TableInv, Tables, Single
<1>2. CASE esp_cloud_platform_unsubscribe
  <2>1. /\ slots' = Without(slots, target) /\ broker \ {target} \subseteq broker'
        /\ pc' = "subscribe"
    BY <1>2 DEF esp_cloud_platform_unsubscribe
  <2>2. /\ slots' \in Tables
        /\ \A i \in Slots : slots'[i] = IF slots[i] = target THEN NoTopic ELSE slots[i]
    BY <1>1, <2>1, WithoutTakesOut
  <2>3. QED BY <1>1, <2>1, <2>2 DEF TableInv, Single
<1>3. CASE esp_cloud_platform_subscribe
  <2>1. /\ slots' = With(slots, target) /\ broker' = broker \cup {target}
        /\ pc = "subscribe" /\ pc' # "subscribe" /\ Empty(slots) # {}
    BY <1>3 DEF esp_cloud_platform_subscribe, Onwards
  <2>2. slots' \in Tables
    BY <1>1, <2>1, WithPutsIn
  <2>3. PICK i \in Slots : slots[i] = NoTopic /\ slots' = [slots EXCEPT ![i] = target]
    BY <1>1, <2>1, WithPutsIn
  <2>4. \A j \in Slots : slots[j] # target
    BY <2>1 DEF TableInv
  <2>5. \A j \in Slots : slots'[j] = IF j = i THEN target ELSE slots[j]
    BY <1>1, <2>3 DEF Tables
  <2>6. QED BY <1>1, <2>1, <2>2, <2>4, <2>5 DEF TableInv, Single
<1>4. CASE SubscribeFails
  <2>1. slots' = slots /\ broker \subseteq broker' /\ pc' # "subscribe"
    BY <1>4 DEF SubscribeFails, Onwards
  <2>2. QED BY <1>1, <2>1 DEF TableInv, Single
<1>5. CASE Disconnect
  <2>1. slots' = AllEmptied(slots) /\ pc' = "none"
    BY <1>5 DEF Disconnect
  <2>2. slots' \in Tables /\ \A i \in Slots : slots'[i] = NoTopic
    BY <1>1, <2>1, AllEmptiedClears
  <2>3. QED BY <2>1, <2>2 DEF TableInv
<1>6. QED BY <1>2, <1>3, <1>4, <1>5

LEMMA TableStepsTypes ==
  ASSUME TypeOK, TableInv,
         \/ esp_cloud_platform_unsubscribe \/ esp_cloud_platform_subscribe
         \/ SubscribeFails \/ Disconnect
  PROVE  TypeOK'
BY TableStepsKeep, TableStepsInv DEF TypeOK, Tables, busy, flags, library

\* Every other step leaves the table, and does not enter "subscribe".
LEMMA TableKept ==
  ASSUME TableInv, UNCHANGED table, pc' = "subscribe" => pc = "subscribe" /\ target' = target
  PROVE  TableInv'
BY DEF TableInv, table

LEMMA NextTable ==
  ASSUME TypeOK, TableInv, [Next]_vars
  PROVE  TypeOK' /\ TableInv'
<1>1. CASE \/ esp_cloud_platform_unsubscribe \/ esp_cloud_platform_subscribe
           \/ SubscribeFails \/ Disconnect
  BY <1>1, TableStepsInv, TableStepsTypes
<1>2. CASE \/ esp_cloud_start \/ esp_cloud_stop \/ LoopTop \/ esp_cloud_ota_check
           \/ QueueEmpty \/ esp_cloud_platform_wait
           \/ esp_cloud_report_alexa_status \/ ReportEnds
  <2>1. UNCHANGED table /\ (pc' = "subscribe" => pc = "subscribe" /\ target' = target)
    BY <1>2 DEF esp_cloud_start, esp_cloud_stop, LoopTop, esp_cloud_ota_check, QueueEmpty,
       esp_cloud_platform_wait, esp_cloud_report_alexa_status, ReportEnds, Goto, table, task
  <2>2. QED BY <1>2, <2>1, OtherTypes, TableKept
<1>3. CASE TestIn \/ NoteIn \/ TestOut \/ NoteOut \/ NoteSignedOut
  <2>1. UNCHANGED table /\ pc' # "subscribe"
    BY <1>3 DEF TestIn, NoteIn, TestOut, NoteOut, NoteSignedOut, Goto, table
  <2>2. QED BY <1>3, <2>1, SessionTypes, TableKept
<1>4. CASE Library
  <2>1. UNCHANGED <<table, task>>
    BY <1>4 DEF Library, SignedIn, SignInFails, SignedOut, table, task
  <2>2. QED BY <1>4, <2>1, LibraryTypes, TableKept DEF task
<1>5. CASE aws_common_subscribe_callback
  <2>1. UNCHANGED <<table, task>>
    BY <1>5 DEF aws_common_subscribe_callback, table, task
  <2>2. QED BY <1>5, <2>1, MessageTypes, TableKept DEF task
<1>6. CASE UNCHANGED vars
  BY <1>6 DEF vars, table, busy, task, flags, library, TypeOK, TableInv
<1>7. QED BY <1>1, <1>2, <1>3, <1>4, <1>5, <1>6 DEF Next, esp_cloud_task

\* The variables keep their types and the table of subscriptions stays as TableInv
\* says, for any topics and bounds.
THEOREM TypeCorrect == Spec => [](TypeOK /\ TableInv)
<1>1. TypeOK /\ TableInv /\ [Next]_vars => TypeOK' /\ TableInv'
  BY NextTable
<1>2. QED BY <1>1, TypesInit, PTL DEF Spec

\* No topic has two slots, none is in the table that the broker does not send, and
\* one about to be subscribed to is out of it and finds a slot (aws_cloud.c:82-140).
THEOREM TableStaysSound == Spec => []TableSound
<1>1. TypeOK /\ TableInv => TableSound
  <2> SUFFICES ASSUME TypeOK, TableInv PROVE TableSound
    OBVIOUS
  <2>1. slots \in Tables /\ Single(slots) /\ target \in Topics
    BY DEF TypeOK, TableInv, Tables, Single
  <2>2. pc = "subscribe" => Empty(slots) # {}
    BY <2>1, SlotIsFree DEF TableInv
  <2>3. QED BY <2>2 DEF TableInv, TableSound
<1>2. QED BY <1>1, TypeCorrect, PTL

(***************************************************************************)
(* The session.                                                            *)
(***************************************************************************)
Session == <<flags, alexa, library, crossed>>
Noted == {"noteIn", "noteOut", "noteSignedOut"}

\* What a longer and a shorter queue of requests ask for.
LEMMA AskedMore ==
  ASSUME requests \in Seq({"in", "out"}), NEW w \in {"in", "out"},
         requests' = Append(requests, w)
  PROVE  /\ \A v \in {"in", "out"} : Asked(v)' <=> Asked(v) \/ v = w
         /\ OutsFirst /\ (w = "out" => ~Asked("in")) => OutsFirst'
<1>1. /\ Len(requests') = Len(requests) + 1 /\ Len(requests) \in Nat
      /\ \A i \in 1 .. Len(requests) : requests'[i] = requests[i]
      /\ requests'[Len(requests) + 1] = w
  OBVIOUS
<1>2. ASSUME NEW v \in {"in", "out"} PROVE Asked(v)' <=> Asked(v) \/ v = w
  BY <1>1 DEF Asked
<1>3. ASSUME OutsFirst, w = "out" => ~Asked("in") PROVE OutsFirst'
  BY <1>1, <1>3 DEF OutsFirst, Asked
<1>4. QED BY <1>2, <1>3

LEMMA AskedLess ==
  ASSUME requests \in Seq({"in", "out"}), requests # <<>>, requests' = Tail(requests)
  PROVE  /\ Asked(Head(requests))
         /\ \A v \in {"in", "out"} : Asked(v)' => Asked(v)
         /\ \A v \in {"in", "out"} : v # Head(requests) /\ Asked(v) => Asked(v)'
         /\ OutsFirst => OutsFirst'
         /\ OutsFirst /\ Head(requests) = "in" => ~Asked("out")
         /\ ~Asked("out") => OutsFirst'
<1>1. /\ Len(requests) \in Nat \ {0} /\ Len(requests') = Len(requests) - 1
      /\ \A i \in 1 .. Len(requests') : requests'[i] = requests[i + 1]
      /\ Head(requests) = requests[1]
      /\ \A i \in 1 .. Len(requests) : requests[i] \in {"in", "out"}
  OBVIOUS
<1>2. Asked(Head(requests))
  BY <1>1 DEF Asked
<1>3. ASSUME NEW v \in {"in", "out"}, Asked(v)' PROVE Asked(v)
  <2>1. PICK i \in 1 .. Len(requests') : requests'[i] = v
    BY <1>3 DEF Asked
  <2>2. i + 1 \in 1 .. Len(requests) /\ requests[i + 1] = v
    BY <1>1, <2>1
  <2>3. QED BY <2>2 DEF Asked
<1>4. ASSUME NEW v \in {"in", "out"}, v # Head(requests), Asked(v) PROVE Asked(v)'
  <2>1. PICK i \in 1 .. Len(requests) : requests[i] = v
    BY <1>4 DEF Asked
  <2>2. i - 1 \in 1 .. Len(requests') /\ requests'[i - 1] = v
    BY <1>1, <1>4, <2>1
  <2>3. QED BY <2>2 DEF Asked
<1>5. OutsFirst => OutsFirst'
  BY <1>1 DEF OutsFirst
<1>6. OutsFirst /\ Head(requests) = "in" => ~Asked("out")
  BY <1>1 DEF OutsFirst, Asked
<1>7. ~Asked("out") => OutsFirst'
  BY <1>1 DEF OutsFirst, Asked
<1>8. QED BY <1>2, <1>3, <1>4, <1>5, <1>6, <1>7

\* A step that touches neither the flags nor the account, and notes nothing.
LEMMA SessionKept ==
  ASSUME SessionInv, UNCHANGED Session, pc' = pc \/ {pc, pc'} \cap Noted = {}
  PROVE  SessionInv'
<1>1. /\ UNCHANGED <<Wait_for_alexa_in, Wait_for_alexa_out, alexa, requests, account, crossed>>
      /\ OutsFirst' = OutsFirst /\ Asked("out")' = Asked("out")
  BY DEF Session, flags, library, OutsFirst, Asked
<1>2. QED
  BY <1>1 DEF SessionInv, Phase, Agrees, SigningOut, SignOutPending, Noted

\* The loop.
LEMMA LoopInv ==
  ASSUME TypeOK, SessionInv, TestIn \/ NoteIn \/ TestOut \/ NoteOut \/ NoteSignedOut
  PROVE  SessionInv'
<1>1. UNCHANGED <<requests, account, crossed>>
  BY DEF TestIn, NoteIn, TestOut, NoteOut, NoteSignedOut, library
<1>2. OutsFirst' = OutsFirst /\ Asked("out")' = Asked("out")
  BY <1>1 DEF OutsFirst, Asked
<1>3. CASE TestIn
  BY <1>1, <1>2, <1>3 DEF TestIn, Goto, flags, SessionInv, Phase, Agrees, SigningOut, SignOutPending
<1>4. CASE NoteIn
  BY <1>1, <1>2, <1>4 DEF NoteIn, Goto, SessionInv, Phase, Agrees, SigningOut, SignOutPending
<1>5. CASE TestOut
  BY <1>1, <1>2, <1>5 DEF TestOut, Goto, flags, SessionInv, Phase, Agrees, SigningOut, SignOutPending
<1>6. CASE NoteOut
  BY <1>1, <1>2, <1>6 DEF NoteOut, Goto, SessionInv, Phase, Agrees, SigningOut, SignOutPending
<1>7. CASE NoteSignedOut
  BY <1>1, <1>2, <1>7 DEF NoteSignedOut, AfterSignOut, Goto, SessionInv, Phase, Agrees, SigningOut,
     SignOutPending, TypeOK
<1>8. QED BY <1>3, <1>4, <1>5, <1>6, <1>7

\* A message.
LEMMA MessageInv ==
  ASSUME TypeOK, SessionInv, aws_common_subscribe_callback
  PROVE  SessionInv'
<1>1. UNCHANGED <<pc, alexa, account>>
  BY DEF aws_common_subscribe_callback, task
<1>2. PICK m \in Messages : alexa_sign_in_handler(m)
  BY DEF aws_common_subscribe_callback
<1>3. requests \in Seq({"in", "out"})
  BY DEF TypeOK
<1>4. CASE SignOut(m)
  <2>1. Asked("out")' /\ (OutsFirst /\ ~Asked("in") => OutsFirst')
    BY <1>3, <1>4, AskedMore DEF SignOut
  <2>2. QED BY <1>1, <1>4, <2>1 DEF SignOut, SessionInv, Phase, SigningOut, SignOutPending
<1>5. CASE SignIn(m)
  <2>1. (Asked("out")' <=> Asked("out")) /\ (OutsFirst => OutsFirst')
    <3>1. requests' = Append(requests, "in")
      BY <1>5 DEF SignIn
    <3>2. QED BY <1>3, <3>1, AskedMore
  <2>2. QED
    BY <1>1, <1>5, <2>1 DEF SignIn, flags, SessionInv, Phase, Agrees, SigningOut, SignOutPending
<1>6. CASE Ignored(m)
  <2>1. UNCHANGED Session
    BY <1>1, <1>6 DEF Ignored, Session, flags, library
  <2>2. QED BY <1>1, <2>1, SessionKept
<1>7. QED BY <1>2, <1>4, <1>5, <1>6 DEF alexa_sign_in_handler

\* The library.
LEMMA LibraryInv ==
  ASSUME TypeOK, SessionInv, Library
  PROVE  SessionInv'
<1>1. /\ UNCHANGED <<pc, alexa, Wait_for_alexa_out>>
      /\ requests # <<>> /\ requests' = Tail(requests) /\ requests \in Seq({"in", "out"})
  BY DEF Library, SignedIn, SignInFails, SignedOut, Served, task, flags, TypeOK
<1>2. CASE SignedIn
  <2>1. /\ Head(requests) = "in" /\ account' = "in" /\ Wait_for_alexa_in' = "LOGED_IN"
        /\ crossed' = (SigningOut \/ (crossed /\ Asked("out")))
    BY <1>2 DEF SignedIn, Served
  <2>2. ASSUME ~crossed' PROVE ~SigningOut /\ ~Asked("out")' /\ OutsFirst'
    <3>1. ~SigningOut
      BY <2>1, <2>2
    <3>2. ~Asked("out")
      BY <1>1, <2>1, <2>2, AskedLess DEF SessionInv
    <3>3. QED BY <1>1, <3>1, <3>2, AskedLess
  <2>3. QED
    BY <1>1, <2>1, <2>2 DEF SessionInv, Phase, Agrees, SigningOut, SignOutPending
<1>3. CASE SignInFails
  <2>1. /\ Head(requests) = "in"
        /\ UNCHANGED <<Wait_for_alexa_in, account, crossed>>
    BY <1>3 DEF SignInFails, Served, flags
  <2>2. Asked("out")' = Asked("out") /\ (OutsFirst => OutsFirst')
    BY <1>1, <2>1, AskedLess DEF Asked
  <2>3. QED
    BY <1>1, <2>1, <2>2 DEF SessionInv, Phase, Agrees, SigningOut, SignOutPending
<1>4. CASE SignedOut
  <2>1. /\ Head(requests) = "out" /\ account' = "out"
        /\ UNCHANGED <<Wait_for_alexa_in, crossed>>
    BY <1>4 DEF SignedOut, Served, flags
  <2>2. Asked("out") /\ (OutsFirst => OutsFirst')
    BY <1>1, <2>1, AskedLess
  <2>3. QED
    BY <1>1, <2>1, <2>2 DEF SessionInv, Phase, Agrees, SigningOut, SignOutPending
<1>5. QED BY <1>2, <1>3, <1>4 DEF Library

LEMMA NextSession ==
  ASSUME TypeOK, SessionInv, [Next]_vars
  PROVE  SessionInv'
<1>1. CASE \/ esp_cloud_platform_unsubscribe \/ esp_cloud_platform_subscribe
           \/ SubscribeFails \/ Disconnect
  <2>1. UNCHANGED Session /\ {pc, pc'} \cap Noted = {}
    BY <1>1, TableStepsKeep DEF Session, Noted
  <2>2. QED BY <2>1, SessionKept
<1>2. CASE \/ esp_cloud_start \/ esp_cloud_stop \/ LoopTop \/ esp_cloud_ota_check
           \/ QueueEmpty \/ esp_cloud_platform_wait
           \/ esp_cloud_report_alexa_status \/ ReportEnds
  <2>1. UNCHANGED Session /\ (pc' = pc \/ {pc, pc'} \cap Noted = {})
    BY <1>2 DEF esp_cloud_start, esp_cloud_stop, LoopTop, esp_cloud_ota_check, QueueEmpty,
       esp_cloud_platform_wait, esp_cloud_report_alexa_status, ReportEnds, Goto, task,
       Session, Noted
  <2>2. QED BY <2>1, SessionKept
<1>3. CASE TestIn \/ NoteIn \/ TestOut \/ NoteOut \/ NoteSignedOut
  BY <1>3, LoopInv
<1>4. CASE Library
  BY <1>4, LibraryInv
<1>5. CASE aws_common_subscribe_callback
  BY <1>5, MessageInv
<1>6. CASE UNCHANGED vars
  BY <1>6, SessionKept DEF vars, task, Session
<1>7. QED BY <1>1, <1>2, <1>3, <1>4, <1>5, <1>6 DEF Next, esp_cloud_task

LEMMA SessionInvariant == Spec => [](TypeOK /\ SessionInv)
<1>1. Init => SessionInv
  BY DEF Init, SessionInv, Phase, OutsFirst, Agrees, Asked, SigningOut, SignOutPending
<1>2. TypeOK /\ SessionInv /\ [Next]_vars => SessionInv'
  BY NextSession
<1>3. QED BY <1>1, <1>2, TypeCorrect, PTL DEF Spec

\* When the library has answered and the loop has noted it, the parameter and the
\* flag that admits a sign-in say what the session is, however messages, answers
\* and the loop have interleaved, unless a sign-in and a sign-out have crossed
\* (esp_cloud.c:811-820).
THEOREM SessionIsTold == Spec => []StateTold
<1>1. TypeOK /\ SessionInv => StateTold
  BY DEF TypeOK, SessionInv, StateTold, AtRest, Agrees, Asked
<1>2. QED BY <1>1, SessionInvariant, PTL

\* A sign-in is asked for only without a session or after the end of the session
\* was asked for (esp_cloud.c:635).
THEOREM NoSecondSignIn == Spec => SignInWhenOut
<1> DEFINE Second == requests' = Append(requests, "in") /\ ~crossed
                       => account = "out" \/ Asked("out")
<1>1. TypeOK /\ SessionInv /\ [Next]_vars => [Second]_vars
  <2> SUFFICES ASSUME TypeOK, SessionInv, [Next]_vars,
                      requests' = Append(requests, "in"), ~crossed
               PROVE  account = "out" \/ Asked("out")
    BY DEF Second
  <2>1. requests \in Seq({"in", "out"}) /\ Len(requests') = Len(requests) + 1
    BY DEF TypeOK
  <2>2. requests'[Len(requests) + 1] = "in" /\ Len(requests) \in Nat
    BY <2>1
  <2>3. ~Library /\ requests' # requests
    BY <2>1, <2>2 DEF Library, SignedIn, SignInFails, SignedOut, Served
  <2>4. aws_common_subscribe_callback
    BY <2>3, TableStepsKeep DEF Next, esp_cloud_task, esp_cloud_start, esp_cloud_stop, LoopTop,
       esp_cloud_ota_check, QueueEmpty, esp_cloud_platform_wait, TestIn, NoteIn, TestOut, NoteOut,
       NoteSignedOut, esp_cloud_report_alexa_status, ReportEnds, vars, library
  <2>5. PICK m \in Messages : alexa_sign_in_handler(m)
    BY <2>4 DEF aws_common_subscribe_callback
  <2>6. ~SignOut(m)
    <3>1. Append(requests, "out")[Len(requests) + 1] = "out"
      BY <2>1, <2>2
    <3>2. QED BY <2>2, <3>1 DEF SignOut
  <2>7. MaySignIn
    BY <2>3, <2>5, <2>6 DEF alexa_sign_in_handler, SignIn, Ignored
  <2>8. QED BY <2>7 DEF MaySignIn, SessionInv, Agrees, TypeOK
<1>2. QED BY <1>1, SessionInvariant, PTL DEF Spec, SignInWhenOut
=============================================================================
