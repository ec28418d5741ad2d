---------------------------- MODULE E2SetupProofs ----------------------------
(***************************************************************************)
(* Theorems about E2Setup: whatever the RIC answers and whenever the        *)
(* association is lost, its flags, tasks and coroutines agree.              *)
(***************************************************************************)
EXTENDS E2Setup, TLAPS

-----------------------------------------------------------------------------
(* The inductive invariant *)

Queued(task) == \E i \in DOMAIN executor : executor[i] = task

\* The receive path goes down once.
OneLoss ==
  \A i, j \in DOMAIN executor : executor[i] = "loss" /\ executor[j] = "loss" => i = j

\* Before start() nothing has happened; a refused association leaves nothing.
NotStarted == app = "off" => executor = << >> /\ link = "none" /\ ~crashed
Unlinked ==
  link = "none" =>
    ~tx /\ ~channel /\ ~connected /\ told = 0 /\ app \in {"off", "schedule", "started", "stopped"}

\* While the receive path is up its loss is not queued; once it is down its
\* loss is queued or was handled.
LossFollows ==
  /\ Receiving => ~Queued("loss") /\ told = 0
  /\ link = "down" /\ ~Queued("loss") => rx_down

\* The agent is told by the handler of the one loss, which takes the send path.
ToldOnce ==
  /\ told <= 1
  /\ told = 1 => link = "down" /\ ~tx /\ ~Queued("loss") /\ app \notin {"off", "sender", "assign"}
  /\ tx => app \notin {"off", "sender", "assign"}

\* The setup procedure is scheduled when connect_to_ric is over.
SetupHasChannel ==
  /\ app \in {"schedule", "started", "stopped"} => channel \/ link = "none"
  /\ Queued("setup") => app \in {"started", "stopped"}
  /\ crashed => (link = "none" \/ orphan) /\ app \notin {"off", "sender"}

IInv ==
  /\ TypeOK /\ OneLoss /\ NotStarted /\ Unlinked /\ LossFollows /\ ToldOnce /\ SetupHasChannel
  /\ NoLostWakeup

-----------------------------------------------------------------------------
(* The executor's queue and the control loop *)

Tasks == {"setup", "stop", "loss"}

LEMMA Pushed ==
  ASSUME executor \in Seq(Tasks), NEW task \in Tasks, executor' = Append(executor, task)
  PROVE  /\ executor' \in Seq(Tasks)
         /\ \A t \in Tasks : Queued(t)' <=> Queued(t) \/ t = task
         /\ OneLoss /\ (task # "loss" \/ ~Queued("loss")) => OneLoss'
<1>1. PICK n \in Nat : n = Len(executor)
  OBVIOUS
<1>2. /\ executor' \in Seq(Tasks) /\ DOMAIN executor = 1..n /\ DOMAIN executor' = 1..(n + 1)
      /\ executor'[n + 1] = task /\ \A i \in 1..n : executor'[i] = executor[i]
  BY <1>1
<1>3. \A i \in 1..(n + 1) : i \in 1..n \/ i = n + 1
  OBVIOUS
<1>4. \A i \in 1..n : i \in 1..(n + 1)
  OBVIOUS
<1>5. \A t \in Tasks : Queued(t)' <=> Queued(t) \/ t = task
  BY <1>2, <1>3, <1>4 DEF Queued
<1>6. OneLoss /\ (task # "loss" \/ ~Queued("loss")) => OneLoss'
  BY <1>2, <1>3 DEF OneLoss, Queued
<1> QED
  BY <1>2, <1>5, <1>6

LEMMA Popped ==
  ASSUME executor \in Seq(Tasks), NEW task \in Tasks, RunsTask(task)
  PROVE  /\ executor' \in Seq(Tasks) /\ Queued(task) /\ ~crashed
         /\ \A t \in Tasks : (Queued(t)' => Queued(t)) /\ (Queued(t) => Queued(t)' \/ t = task)
         /\ OneLoss => OneLoss' /\ (task = "loss" => ~Queued("loss")')
<1>1. executor # << >> /\ Head(executor) = task /\ executor' = Tail(executor) /\ ~crashed
  BY DEF RunsTask
<1>2. PICK n \in Nat : n + 1 = Len(executor)
  BY <1>1
<1>3. /\ executor' \in Seq(Tasks) /\ DOMAIN executor = 1..(n + 1) /\ DOMAIN executor' = 1..n
      /\ executor[1] = task /\ \A i \in 1..n : executor'[i] = executor[i + 1]
  BY <1>1, <1>2
<1>4. /\ \A i \in 1..n : i + 1 \in 1..(n + 1) /\ i + 1 # 1
      /\ \A i, j \in 1..n : i + 1 = j + 1 => i = j
      /\ 1 \in 1..(n + 1)
  OBVIOUS
<1>5. \A i \in 1..(n + 1) : i = 1 \/ (i - 1 \in 1..n /\ (i - 1) + 1 = i)
  OBVIOUS
<1>6. Queued(task)
  BY <1>3, <1>4 DEF Queued
<1>7. \A t \in Tasks : Queued(t)' => Queued(t)
  BY <1>3, <1>4 DEF Queued
<1>8. ASSUME NEW t \in Tasks, Queued(t), t # task
      PROVE  Queued(t)'
  <2>1. PICK i \in 1..(n + 1) : executor[i] = t
    BY <1>3, <1>8 DEF Queued
  <2>2. i # 1
    BY <1>3, <1>8, <2>1
  <2>3. executor'[i - 1] = t /\ i - 1 \in 1..n
    BY <1>3, <1>5, <2>1, <2>2
  <2> QED
    BY <1>3, <2>3 DEF Queued
<1>9. OneLoss => OneLoss'
  BY <1>3, <1>4 DEF OneLoss
<1>10. OneLoss /\ task = "loss" => ~Queued("loss")'
  BY <1>3, <1>4 DEF OneLoss, Queued
<1> QED
  BY <1>1, <1>3, <1>6, <1>7, <1>8, <1>9, <1>10

\* What the end of a coroutine may do: it takes the send path, and waits only
\* for a receive path whose loss was not handled yet.
LEMMA EndFacts ==
  ASSUME TypeOK, Removal \/ EndSetup
  PROVE  /\ loop' \in Seq({"setup", "stop"}) /\ awaits' \in {"nothing", "disconnection"}
         /\ tx' \in BOOLEAN /\ (tx' => tx)
         /\ link' = link \/ (link = "up" /\ link' = "closing")
         /\ awaits' = "disconnection" => connected /\ ~rx_down
         /\ crashed' \in BOOLEAN /\ (crashed' => crashed \/ (tx /\ orphan))
<1>0. {orphan, crashed, connected} \subseteq BOOLEAN
  BY DEF TypeOK, conn
<1>1. tx \in BOOLEAN /\ <<"stop">> \in Seq({"setup", "stop"}) /\ << >> \in Seq({"setup", "stop"})
  BY DEF TypeOK, conn
<1>2. CASE Removal
  BY <1>0, <1>1, <1>2 DEF Removal, MeetsNull
<1>3. CASE EndSetup /\ ~Removal
  BY <1>0, <1>1, <1>3 DEF EndSetup
<1> QED
  BY <1>2, <1>3

\* Steps at the end of which the executor's queue is what it was.
LEMMA QueueKept ==
  ASSUME UNCHANGED executor
  PROVE  (\A t : Queued(t)' = Queued(t)) /\ (OneLoss => OneLoss')
BY DEF Queued, OneLoss

-----------------------------------------------------------------------------
(* The steps *)

LEMMA InitSound ==
  ASSUME Init
  PROVE  IInv
<1>1. /\ app = "off" /\ link = "none" /\ executor = << >> /\ loop = << >> /\ awaits = "nothing"
      /\ tx = FALSE /\ channel = FALSE /\ connected = FALSE /\ rx_down = FALSE
      /\ request = "unsent" /\ told = 0 /\ allowed = FALSE /\ crashed = FALSE /\ orphan = FALSE
  BY DEF Init
<1>2. DOMAIN executor = {}
  BY <1>1
<1>3. TypeOK
  <2>1. conn \in BOOLEAN \X BOOLEAN \X BOOLEAN \X BOOLEAN
    BY <1>1 DEF conn
  <2>2. executor \in Seq({"setup", "stop", "loss"}) /\ loop \in Seq({"setup", "stop"})
    BY <1>1
  <2>3. told \in Nat /\ {orphan, allowed, crashed} \subseteq BOOLEAN
    BY <1>1
  <2> QED
    BY <1>1, <2>1, <2>2, <2>3 DEF TypeOK
<1>4. OneLoss /\ (\A t : ~Queued(t)) /\ NoLostWakeup
  BY <1>1, <1>2 DEF OneLoss, Queued, NoLostWakeup
<1>5. NotStarted /\ Unlinked /\ LossFollows /\ ToldOnce /\ SetupHasChannel
  BY <1>1, <1>4 DEF NotStarted, Unlinked, LossFollows, ToldOnce, SetupHasChannel, Receiving
<1> QED
  BY <1>3, <1>4, <1>5 DEF IInv

\* start() and stop()
LEMMA ConnectKeeps ==
  ASSUME IInv, NEW accepted \in Reachable, Connect(accepted)
  PROVE  IInv'
<1>1. /\ app = "off" /\ rx_down' = FALSE /\ executor = << >> /\ link = "none"
      /\ UNCHANGED <<orphan, tx, channel, connected, loop, awaits, request, told, allowed, crashed>>
  BY DEF Connect, IInv, NotStarted, proc
<1>2. ~tx /\ ~channel /\ ~connected /\ told = 0 /\ ~crashed /\ ~Queued("loss") /\ ~Queued("setup")
  BY <1>1 DEF IInv, NotStarted, Unlinked, Queued
<1>3. CASE accepted
  <2>1. link' = "up" /\ app' = "sender" /\ UNCHANGED executor
    BY <1>3 DEF Connect
  <2>2. ~Queued("loss")' /\ ~Queued("setup")' /\ OneLoss'
    BY <1>2, <2>1, QueueKept DEF IInv
  <2>3. TypeOK'
    BY <1>1, <2>1 DEF IInv, TypeOK, conn
  <2>4. NotStarted' /\ Unlinked' /\ LossFollows' /\ ToldOnce' /\ SetupHasChannel'
    BY <1>1, <1>2, <2>1, <2>2 DEF NotStarted, Unlinked, LossFollows, ToldOnce, SetupHasChannel
  <2>5. NoLostWakeup'
    BY <1>1, <2>1 DEF NoLostWakeup, Receiving
  <2> QED
    BY <2>2, <2>3, <2>4, <2>5 DEF IInv
<1>4. CASE ~accepted
  <2>1. link' = "none" /\ app' = "schedule" /\ executor' = Append(executor, "loss")
    BY <1>1, <1>4 DEF Connect
  <2>2. /\ executor' \in Seq(Tasks) /\ OneLoss' /\ Queued("loss")' /\ ~Queued("setup")'
    BY <1>1, <1>2, <2>1, Pushed DEF IInv, TypeOK, Tasks
  <2>3. TypeOK'
    BY <1>1, <2>1, <2>2 DEF IInv, TypeOK, conn, Tasks
  <2>4. NotStarted' /\ Unlinked' /\ LossFollows' /\ ToldOnce' /\ SetupHasChannel'
    BY <1>1, <1>2, <2>1, <2>2 DEF NotStarted, Unlinked, LossFollows, ToldOnce, SetupHasChannel, Receiving
  <2>5. NoLostWakeup'
    BY <1>1, <2>1, <2>2 DEF NoLostWakeup, Receiving, IInv, Queued
  <2> QED
    BY <2>2, <2>3, <2>4, <2>5 DEF IInv
<1> QED
  BY <1>3, <1>4

LEMMA CreateKeeps ==
  ASSUME IInv, CreateSender
  PROVE  IInv'
<1>1. /\ app = "sender" /\ app' = "assign" /\ orphan' \in BOOLEAN
      /\ UNCHANGED <<executor, link, tx, channel, connected, rx_down, loop, awaits, request, told, allowed, crashed>>
  BY DEF CreateSender, conn, proc
<1>2. link # "none" /\ ~crashed /\ ~tx /\ told # 1
  BY <1>1 DEF IInv, Unlinked, SetupHasChannel, ToldOnce
<1>3. (\A t : Queued(t)' = Queued(t)) /\ OneLoss'
  BY <1>1, QueueKept DEF IInv
<1>4. TypeOK'
  BY <1>1 DEF IInv, TypeOK, conn
<1>5. NotStarted' /\ Unlinked' /\ LossFollows'
  BY <1>1, <1>2, <1>3 DEF IInv, NotStarted, Unlinked, LossFollows, Receiving
<1>6. ToldOnce' /\ SetupHasChannel'
  BY <1>1, <1>2, <1>3 DEF IInv, ToldOnce, SetupHasChannel
<1>7. NoLostWakeup'
  BY <1>1 DEF IInv, NoLostWakeup, Receiving
<1> QED
  BY <1>3, <1>4, <1>5, <1>6, <1>7 DEF IInv

LEMMA StartsKeep ==
  ASSUME IInv, AssignNotifier \/ MarkConnected \/ KeepChannel
  PROVE  IInv'
<1>1. /\ UNCHANGED <<executor, link, orphan, rx_down, loop, awaits, request, told, allowed, crashed>>
      /\ \/ app = "assign" /\ app' = "flag" /\ tx' = TRUE /\ UNCHANGED <<connected, channel>>
         \/ app = "flag" /\ app' = "channel" /\ connected' = TRUE /\ UNCHANGED <<tx, channel>>
         \/ app = "channel" /\ app' = "schedule" /\ channel' = TRUE /\ UNCHANGED <<tx, connected>>
  BY DEF AssignNotifier, MarkConnected, KeepChannel, proc
<1>2. link # "none"
  BY <1>1 DEF IInv, Unlinked
<1>3. (\A t : Queued(t)' = Queued(t)) /\ OneLoss'
  BY <1>1, QueueKept DEF IInv
<1>4. TypeOK'
  BY <1>1 DEF IInv, TypeOK, conn
<1>5. NotStarted' /\ Unlinked' /\ LossFollows'
  BY <1>1, <1>2, <1>3 DEF IInv, NotStarted, Unlinked, LossFollows, Receiving
<1>6. ToldOnce' /\ SetupHasChannel'
  BY <1>1, <1>2, <1>3 DEF IInv, ToldOnce, SetupHasChannel
<1>7. NoLostWakeup'
  BY <1>1 DEF IInv, NoLostWakeup, Receiving
<1> QED
  BY <1>3, <1>4, <1>5, <1>6, <1>7 DEF IInv

\* What waits for the loss does not mind a further task.
LEMMA WakeupKept ==
  ASSUME NoLostWakeup, UNCHANGED <<awaits, rx_down>>, Receiving \/ Queued("loss") => (Receiving \/ Queued("loss"))'
  PROVE  NoLostWakeup'
BY DEF NoLostWakeup, Queued

LEMMA CallsKeep ==
  ASSUME IInv, ScheduleSetup \/ Stop
  PROVE  IInv'
<1>1. /\ UNCHANGED <<link, orphan, tx, channel, connected, rx_down, loop, awaits, request, told, allowed, crashed>>
      /\ \/ app = "schedule" /\ app' = "started" /\ executor' = Append(executor, "setup")
         \/ app = "started" /\ app' = "stopped" /\ executor' = Append(executor, "stop")
  BY DEF ScheduleSetup, Stop, conn, proc
<1>2. PICK task \in {"setup", "stop"} : executor' = Append(executor, task)
  BY <1>1
<1>3. /\ executor' \in Seq(Tasks) /\ OneLoss' /\ (Queued("loss")' <=> Queued("loss"))
      /\ (Queued("setup")' => Queued("setup") \/ task = "setup")
  BY <1>2, Pushed DEF IInv, TypeOK, Tasks
<1>4. TypeOK'
  BY <1>1, <1>3 DEF IInv, TypeOK, conn, Tasks
<1>5. NotStarted' /\ Unlinked' /\ LossFollows'
  BY <1>1, <1>3 DEF IInv, NotStarted, Unlinked, LossFollows, Receiving
<1>6. ToldOnce' /\ SetupHasChannel'
  BY <1>1, <1>3 DEF IInv, ToldOnce, SetupHasChannel
<1>7. NoLostWakeup'
  BY <1>1, <1>3, WakeupKept DEF IInv, Receiving
<1> QED
  BY <1>3, <1>4, <1>5, <1>6, <1>7 DEF IInv

\* The end of a coroutine, on any thread.
LEMMA EndKeeps ==
  ASSUME IInv, Removal \/ EndSetup,
         UNCHANGED <<app, orphan, channel, connected, rx_down, told, allowed>>,
         request' \in {"unsent", "sent", "response", "answered"},
         executor' \in Seq(Tasks), executor = << >> => executor' = << >>,
         OneLoss', Queued("loss")' <=> Queued("loss"), Queued("setup")' => Queued("setup")
  PROVE  IInv'
<1>1. /\ loop' \in Seq({"setup", "stop"}) /\ awaits' \in {"nothing", "disconnection"}
      /\ tx' \in BOOLEAN /\ (tx' => tx)
      /\ link' = link \/ (link = "up" /\ link' = "closing")
      /\ awaits' = "disconnection" => connected /\ ~rx_down
      /\ crashed' \in BOOLEAN /\ (crashed' => crashed \/ (tx /\ orphan))
  BY EndFacts DEF IInv
<1>2. TypeOK'
  BY <1>1 DEF IInv, TypeOK, conn, Tasks
<1>3. NotStarted' /\ Unlinked' /\ LossFollows'
  BY <1>1 DEF IInv, NotStarted, Unlinked, LossFollows, Receiving
<1>4. ToldOnce' /\ SetupHasChannel'
  BY <1>1 DEF IInv, ToldOnce, SetupHasChannel
<1>5. NoLostWakeup'
  <2>1. SUFFICES ASSUME awaits' = "disconnection"
                 PROVE  ~rx_down' /\ (Receiving \/ Queued("loss"))'
    BY DEF NoLostWakeup, Queued
  <2>2. connected /\ ~rx_down /\ link # "none"
    BY <1>1, <2>1 DEF IInv, Unlinked
  <2>3. CASE link = "down"
    BY <2>2, <2>3 DEF IInv, LossFollows
  <2>4. CASE link # "down"
    BY <1>1, <2>2, <2>4 DEF IInv, TypeOK, Receiving
  <2> QED
    BY <2>2, <2>3, <2>4
<1> QED
  BY <1>2, <1>3, <1>4, <1>5 DEF IInv

\* The E2 executor
LEMMA RunSetupKeeps ==
  ASSUME IInv, RunSetup
  PROVE  IInv'
<1>1. /\ UNCHANGED <<app, link, orphan, tx, channel, connected, rx_down, told, allowed>>
      /\ crashed' \in BOOLEAN /\ (crashed' => ~channel \/ orphan) /\ loop' = <<"setup">> /\ awaits' = "response"
      /\ request' \in {request, "sent"} /\ RunsTask("setup")
  <2>1. {tx, channel, orphan} \subseteq BOOLEAN
    BY DEF IInv, TypeOK, conn
  <2> QED
    BY <2>1 DEF RunSetup, BeginSetup, MeetsNull
<1>2. /\ executor' \in Seq(Tasks) /\ Queued("setup") /\ OneLoss' /\ (Queued("loss")' <=> Queued("loss"))
      /\ (Queued("setup")' => Queued("setup"))
  BY <1>1, Popped DEF IInv, TypeOK, Tasks
<1>3. app \in {"started", "stopped"} /\ (channel \/ link = "none")
  BY <1>2 DEF IInv, SetupHasChannel
<1>4. TypeOK'
  BY <1>1, <1>2 DEF IInv, TypeOK, conn, Tasks
<1>5. NotStarted' /\ Unlinked' /\ LossFollows' /\ ToldOnce'
  BY <1>1, <1>2, <1>3 DEF IInv, NotStarted, Unlinked, LossFollows, ToldOnce, Receiving
<1>6. SetupHasChannel'
  BY <1>1, <1>2, <1>3 DEF IInv, SetupHasChannel
<1>7. NoLostWakeup'
  BY <1>1 DEF NoLostWakeup
<1> QED
  BY <1>2, <1>4, <1>5, <1>6, <1>7 DEF IInv

LEMMA RunStopKeeps ==
  ASSUME IInv, RunStop
  PROVE  IInv'
<1>1. /\ UNCHANGED <<app, orphan, channel, connected, rx_down, request, told, allowed>>
      /\ RunsTask("stop") /\ executor # << >>
  BY DEF RunStop, RunsTask
<1>2. /\ executor' \in Seq(Tasks) /\ OneLoss' /\ (Queued("loss")' <=> Queued("loss"))
      /\ (Queued("setup")' => Queued("setup"))
  BY <1>1, Popped DEF IInv, TypeOK, Tasks
<1>3. CASE loop = << >>
  <2>1. Removal
    BY <1>3 DEF RunStop
  <2>2. request' \in {"unsent", "sent", "response", "answered"}
    BY <1>1 DEF IInv, TypeOK
  <2> QED
    BY <1>1, <1>2, <2>1, <2>2, EndKeeps
<1>4. CASE loop # << >>
  <2>1. loop' = Append(loop, "stop") /\ UNCHANGED <<awaits, tx, link, crashed>>
    BY <1>4 DEF RunStop
  <2>2. TypeOK'
    BY <1>1, <1>2, <2>1 DEF IInv, TypeOK, conn, Tasks
  <2>3. NotStarted' /\ Unlinked' /\ LossFollows'
    BY <1>1, <1>2, <2>1 DEF IInv, NotStarted, Unlinked, LossFollows, Receiving
  <2>4. ToldOnce' /\ SetupHasChannel'
    BY <1>1, <1>2, <2>1 DEF IInv, ToldOnce, SetupHasChannel
  <2>5. NoLostWakeup'
    BY <1>1, <1>2, <2>1, WakeupKept DEF IInv, Receiving
  <2> QED
    BY <1>2, <2>2, <2>3, <2>4, <2>5 DEF IInv
<1> QED
  BY <1>3, <1>4

LEMMA HandleLossKeeps ==
  ASSUME IInv, HandleLoss
  PROVE  IInv'
<1>1. /\ UNCHANGED <<app, link, orphan, channel, request, allowed>>
      /\ crashed' \in BOOLEAN /\ (crashed' => tx /\ orphan)
      /\ RunsTask("loss") /\ executor # << >>
      /\ connected' = FALSE /\ tx' = FALSE /\ told' = told + (IF tx THEN 1 ELSE 0) /\ rx_down' = TRUE
      /\ IF awaits = "disconnection" THEN loop' = << >> /\ awaits' = "nothing" ELSE UNCHANGED <<loop, awaits>>
  <2>1. {rx_down, tx, orphan} \subseteq BOOLEAN
    BY DEF IInv, TypeOK, conn
  <2> QED
    BY <2>1 DEF HandleLoss, MeetsNull, Wakes, proc, RunsTask
<1>2. /\ executor' \in Seq(Tasks) /\ OneLoss' /\ Queued("loss") /\ ~Queued("loss")'
      /\ (Queued("setup")' => Queued("setup"))
  BY <1>1, Popped DEF IInv, TypeOK, Tasks
<1>3. ~Receiving /\ told \in Nat /\ link \in {"none", "down"} /\ app # "off"
  BY <1>1, <1>2 DEF IInv, LossFollows, NotStarted, TypeOK, Receiving
<1>4. told' \in Nat /\ (tx => told = 0 /\ link = "down" /\ app \notin {"sender", "assign"}) /\ (~tx => told' = told)
  <2>1. tx => told = 0
    BY <1>3 DEF IInv, ToldOnce
  <2>2. tx => link = "down" /\ app \notin {"sender", "assign"}
    BY <1>3 DEF IInv, ToldOnce, Unlinked
  <2>3. told' \in Nat /\ (~tx => told' = told)
    BY <1>1, <1>3
  <2> QED
    BY <2>1, <2>2, <2>3
<1>5. TypeOK'
  <2>1. conn' \in BOOLEAN \X BOOLEAN \X BOOLEAN \X BOOLEAN
    BY <1>1 DEF IInv, TypeOK, conn
  <2>2. loop' \in Seq({"setup", "stop"}) /\ awaits' \in {"nothing", "response", "disconnection"}
    <3>1. CASE awaits = "disconnection"
      BY <1>1, <3>1
    <3>2. CASE awaits # "disconnection"
      BY <1>1, <3>2 DEF IInv, TypeOK
    <3> QED
      BY <3>1, <3>2
  <2> QED
    BY <1>1, <1>2, <1>4, <2>1, <2>2 DEF IInv, TypeOK, Tasks
<1>6. NotStarted' /\ Unlinked' /\ LossFollows'
  BY <1>1, <1>2, <1>3, <1>4 DEF IInv, NotStarted, Unlinked, LossFollows, Receiving
<1>7. ToldOnce' /\ SetupHasChannel'
  BY <1>1, <1>2, <1>3, <1>4 DEF IInv, ToldOnce, SetupHasChannel
<1>8. NoLostWakeup'
  BY <1>1 DEF NoLostWakeup
<1> QED
  BY <1>2, <1>5, <1>6, <1>7, <1>8 DEF IInv

\* The timer of the transaction, and the answer of the RIC
LEMMA OutcomeKeeps ==
  ASSUME IInv, TransactionTimesOut \/ \E success \in BOOLEAN : Answer(success)
  PROVE  IInv'
<1>1. /\ UNCHANGED <<app, orphan, channel, connected, rx_down, executor, told, allowed>>
      /\ request' \in {request, "response", "answered"}
      /\ EndSetup \/ UNCHANGED <<loop, awaits, tx, link, crashed>>
  BY DEF TransactionTimesOut, Answer, proc
<1>2. (\A t : Queued(t)' = Queued(t)) /\ OneLoss' /\ executor' \in Seq(Tasks)
      /\ request' \in {"unsent", "sent", "response", "answered"}
  BY <1>1, QueueKept DEF IInv, TypeOK, Tasks
<1>3. CASE EndSetup
  BY <1>1, <1>2, <1>3, EndKeeps
<1>4. CASE UNCHANGED <<loop, awaits, tx, link, crashed>>
  <2>1. TypeOK'
    BY <1>1, <1>2, <1>4 DEF IInv, TypeOK, conn
  <2>2. NotStarted' /\ Unlinked' /\ LossFollows'
    BY <1>1, <1>2, <1>4 DEF IInv, NotStarted, Unlinked, LossFollows, Receiving
  <2>3. ToldOnce' /\ SetupHasChannel'
    BY <1>1, <1>2, <1>4 DEF IInv, ToldOnce, SetupHasChannel
  <2>4. NoLostWakeup'
    BY <1>1, <1>2, <1>4, WakeupKept DEF IInv, Receiving
  <2> QED
    BY <1>2, <2>1, <2>2, <2>3, <2>4 DEF IInv
<1> QED
  BY <1>1, <1>3, <1>4

LEMMA ReceivePathDownKeeps ==
  ASSUME IInv, ReceivePathDown
  PROVE  IInv'
<1>1. /\ UNCHANGED <<app, orphan, tx, channel, connected, rx_down, loop, awaits, request, told, allowed, crashed>>
      /\ Receiving /\ link' = "down" /\ executor' = Append(executor, "loss")
  BY DEF ReceivePathDown, conn, proc
<1>2. ~Queued("loss") /\ told = 0 /\ link # "none"
  BY <1>1 DEF IInv, LossFollows, Receiving
<1>3. /\ executor' \in Seq(Tasks) /\ OneLoss' /\ Queued("loss")' /\ (Queued("setup")' => Queued("setup"))
  BY <1>1, <1>2, Pushed DEF IInv, TypeOK, Tasks
<1>4. TypeOK'
  BY <1>1, <1>3 DEF IInv, TypeOK, conn, Tasks
<1>5. NotStarted' /\ Unlinked' /\ LossFollows'
  BY <1>1, <1>2, <1>3 DEF IInv, NotStarted, Unlinked, LossFollows, Receiving
<1>6. ToldOnce' /\ SetupHasChannel'
  BY <1>1, <1>2, <1>3 DEF IInv, ToldOnce, SetupHasChannel
<1>7. NoLostWakeup'
  BY <1>1, <1>3, WakeupKept DEF IInv
<1> QED
  BY <1>3, <1>4, <1>5, <1>6, <1>7 DEF IInv

\* Steps that touch neither the association nor the executor.
LEMMA OthersKeep ==
  ASSUME IInv, AllowFunctions \/ UNCHANGED vars
  PROVE  IInv'
<1>1. /\ UNCHANGED <<app, link, orphan, tx, channel, connected, rx_down, executor, loop, awaits, told, crashed>>
      /\ request' \in {request, "answered"} /\ allowed' \in {allowed, TRUE}
  BY DEF AllowFunctions, vars, conn, proc
<1>2. (\A t : Queued(t)' = Queued(t)) /\ OneLoss'
  BY <1>1, QueueKept DEF IInv
<1>3. TypeOK'
  BY <1>1 DEF IInv, TypeOK, conn
<1>4. NotStarted' /\ Unlinked' /\ LossFollows'
  BY <1>1, <1>2 DEF IInv, NotStarted, Unlinked, LossFollows, Receiving
<1>5. ToldOnce' /\ SetupHasChannel'
  BY <1>1, <1>2 DEF IInv, ToldOnce, SetupHasChannel
<1>6. NoLostWakeup'
  BY <1>1, <1>2, WakeupKept DEF IInv, Receiving
<1> QED
  BY <1>2, <1>3, <1>4, <1>5, <1>6 DEF IInv

LEMMA StepKeeps ==
  ASSUME IInv, [Next]_vars
  PROVE  IInv'
<1>1. CASE \E accepted \in Reachable : Connect(accepted)
  BY <1>1, ConnectKeeps
<1>2. CASE Starts \/ Stop
  BY <1>2, CreateKeeps, StartsKeep, CallsKeep DEF Starts
<1>3. CASE Executes
  BY <1>3, RunSetupKeeps, RunStopKeeps, HandleLossKeeps DEF Executes
<1>4. CASE TransactionTimesOut \/ \E success \in BOOLEAN : Answer(success)
  BY <1>4, OutcomeKeeps
<1>5. CASE ReceivePathDown
  BY <1>5, ReceivePathDownKeeps
<1>6. CASE AllowFunctions \/ UNCHANGED vars
  BY <1>6, OthersKeep
<1> QED
  BY <1>1, <1>2, <1>3, <1>4, <1>5, <1>6 DEF Next

-----------------------------------------------------------------------------

\* Whoever waits for the receive path to go down will be resumed, the agent is
\* told of a loss once and only when it did not ask for it, and a null pointer is
\* followed only if the RIC refused the association or it was lost before its sender
\* was made.
THEOREM AssociationAlwaysSound == Spec => []AssociationIsSound
<1>1. IInv => AssociationIsSound
  BY DEF IInv, ToldOnce, SetupHasChannel, AssociationIsSound, ToldOfLossOnly, NullOnlyIfLost
<1>2. IInv /\ [Next]_vars => IInv'
  BY StepKeeps
<1> QED
  BY <1>1, <1>2, InitSound, PTL DEF Spec
=============================================================================
