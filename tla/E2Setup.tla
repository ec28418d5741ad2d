------------------------------- MODULE E2Setup -------------------------------
(***************************************************************************)
(* The life of the E2 agent's association: e2_entity::start and stop         *)
(* (lib/e2/common/e2_entity.cpp), the connection handler                     *)
(* (e2_connection_handler.cpp) and the E2 setup procedure                    *)
(* (procedures/e2_setup_procedure.cpp) on the transaction manager.  Three     *)
(* threads: the application calls start and stop, the gateway delivers the    *)
(* RIC's answer and the loss of the association, the E2 executor runs the     *)
(* control loop, the transaction's timer and the loss handler.               *)
(***************************************************************************)
EXTENDS Naturals, Sequences

CONSTANT Reachable  \* whether the RIC may or may not accept the association

ASSUME ReachableAssumption == Reachable \subseteq BOOLEAN

VARIABLES
  app,        \* how far start() is, or that stop() was called
  link,       \* the association at the gateway: its receive path
  orphan,     \* its sender was made when it was lost already, and has no flag
              \* to look whether it is closed (shutdown_received was null)
  tx,         \* e2_connection_handler::tx_pdu_notifier is set
  channel,    \* e2_impl::tx_pdu_notifier is set
  connected,  \* connected_flag
  rx_down,    \* rx_path_disconnected
  executor,   \* the tasks of the E2 executor
  loop,       \* main_ctrl_loop: the coroutines scheduled and not finished
  awaits,     \* what the first of them is suspended on
  request,    \* the setup request: not sent, sent, its response in
              \* handle_successful_outcome, or answered
  told,       \* how often the agent was told of a disconnection
  allowed,    \* set_allowed_ran_functions was called
  crashed     \* a null pointer was followed: the notifier or the sender's flag

conn == <<tx, channel, connected, rx_down>>
proc == <<loop, awaits>>
vars == <<app, link, orphan, conn, executor, proc, request, told, allowed, crashed>>

Init ==
  /\ app = "off" /\ link = "none" /\ orphan = FALSE /\ executor = << >> /\ loop = << >> /\ awaits = "nothing"
  /\ tx = FALSE /\ channel = FALSE /\ connected = FALSE /\ rx_down = FALSE
  /\ request = "unsent" /\ told = 0 /\ allowed = FALSE /\ crashed = FALSE

-----------------------------------------------------------------------------
(* The application's thread *)

\* connect_to_ric, in the steps between which the receive path can go down.
\* The receive channel of a refused association is destroyed, which counts as
\* its loss.
Connect(accepted) ==
  /\ app = "off" /\ rx_down' = FALSE
  /\ IF accepted THEN link' = "up" /\ app' = "sender" /\ UNCHANGED executor
     ELSE executor' = Append(executor, "loss") /\ app' = "schedule" /\ UNCHANGED link
  /\ UNCHANGED <<orphan, tx, channel, connected, proc, request, told, allowed, crashed>>

\* The socket is registered, so the association can be lost from here on; only now
\* the sender copies the pointer to the association's shutdown flag.
CreateSender ==
  /\ app = "sender" /\ app' = "assign" /\ orphan' = (link = "down")
  /\ UNCHANGED <<link, conn, executor, proc, request, told, allowed, crashed>>

AssignNotifier ==
  /\ app = "assign" /\ app' = "flag" /\ tx' = TRUE
  /\ UNCHANGED <<link, orphan, channel, connected, rx_down, executor, proc, request, told, allowed, crashed>>

MarkConnected ==
  /\ app = "flag" /\ app' = "channel" /\ connected' = TRUE
  /\ UNCHANGED <<link, orphan, tx, channel, rx_down, executor, proc, request, told, allowed, crashed>>

KeepChannel ==
  /\ app = "channel" /\ app' = "schedule" /\ channel' = TRUE
  /\ UNCHANGED <<link, orphan, tx, connected, rx_down, executor, proc, request, told, allowed, crashed>>

\* The result of the connection request is not looked at.
ScheduleSetup ==
  /\ app = "schedule" /\ app' = "started" /\ executor' = Append(executor, "setup")
  /\ UNCHANGED <<link, orphan, conn, proc, request, told, allowed, crashed>>

Stop ==
  /\ app = "started" /\ app' = "stopped" /\ executor' = Append(executor, "stop")
  /\ UNCHANGED <<link, orphan, conn, proc, request, told, allowed, crashed>>

-----------------------------------------------------------------------------
(* The control loop, on whichever thread resumes it *)

\* Whoever sends through the sender or destroys it looks at its flag.
MeetsNull == tx /\ orphan

\* handle_tnl_association_removal: the send path is reset, so that the
\* gateway takes the receive path down, and that is waited for.
Removal ==
  /\ crashed' = (connected /\ MeetsNull)
  /\ IF ~connected THEN loop' = << >> /\ awaits' = "nothing" /\ UNCHANGED <<tx, link>>
     ELSE /\ tx' = FALSE /\ link' = IF link = "up" THEN "closing" ELSE link
          /\ IF rx_down THEN loop' = << >> /\ awaits' = "nothing"
             ELSE loop' = <<"stop">> /\ awaits' = "disconnection"

\* The setup procedure sends its request and waits for the transaction.
BeginSetup ==
  /\ crashed' = (~channel \/ MeetsNull)
  /\ request' = IF channel /\ tx THEN "sent" ELSE request
  /\ loop' = <<"setup">> /\ awaits' = "response"
  /\ UNCHANGED <<tx, link>>

\* It ends with the first outcome: no outcome makes retry_required() true.
EndSetup ==
  IF Len(loop) > 1 THEN Removal
  ELSE loop' = << >> /\ awaits' = "nothing" /\ UNCHANGED <<tx, link, crashed>>

-----------------------------------------------------------------------------
(* The E2 executor *)

RunsTask(task) ==
  ~crashed /\ executor # << >> /\ Head(executor) = task /\ executor' = Tail(executor)

RunSetup ==
  /\ RunsTask("setup") /\ BeginSetup
  /\ UNCHANGED <<app, orphan, channel, connected, rx_down, told, allowed>>

RunStop ==
  /\ RunsTask("stop")
  /\ IF loop = << >> THEN Removal
     ELSE loop' = Append(loop, "stop") /\ UNCHANGED <<awaits, tx, link, crashed>>
  /\ UNCHANGED <<app, orphan, channel, connected, rx_down, request, told, allowed>>

\* handle_connection_loss_impl: the agent is told only when the send path is
\* still up; whoever waits for the disconnection goes on.
WakesIfTold == tx
Wakes == TRUE

HandleLoss ==
  /\ RunsTask("loss")
  /\ connected' = FALSE /\ tx' = FALSE /\ told' = told + (IF tx THEN 1 ELSE 0)
  /\ crashed' = MeetsNull
  /\ rx_down' = (rx_down \/ Wakes)
  /\ IF awaits = "disconnection" /\ Wakes THEN loop' = << >> /\ awaits' = "nothing"
     ELSE UNCHANGED proc
  /\ UNCHANGED <<app, link, orphan, channel, request, allowed>>

\* The transaction's timer: ten minutes.
HasNoTimeLimit == FALSE
HasTimeLimit == TRUE

TransactionTimesOut ==
  /\ ~crashed /\ awaits = "response" /\ HasTimeLimit /\ EndSetup
  /\ UNCHANGED <<app, orphan, channel, connected, rx_down, executor, request, told, allowed>>

-----------------------------------------------------------------------------
(* The gateway's thread *)

\* The receive path goes down: the peer or the network drops it, or the send
\* path was reset.
Receiving == link \in {"up", "closing"}

ReceivePathDown ==
  /\ Receiving /\ request # "response" /\ link' = "down" /\ executor' = Append(executor, "loss")
  /\ UNCHANGED <<app, orphan, conn, proc, request, told, allowed, crashed>>

\* A setup response or failure: the transaction that waits for it gets it,
\* which resumes the control loop, and then the functions of a response are
\* allowed, even if no transaction waited.
Answer(success) ==
  /\ ~crashed /\ Receiving /\ request = "sent"
  /\ request' = IF success THEN "response" ELSE "answered"
  /\ IF awaits = "response" THEN EndSetup ELSE UNCHANGED <<proc, tx, link, crashed>>
  /\ UNCHANGED <<app, orphan, channel, connected, rx_down, executor, told, allowed>>

AllowFunctions ==
  /\ ~crashed /\ request = "response" /\ request' = "answered" /\ allowed' = TRUE
  /\ UNCHANGED <<app, link, orphan, conn, executor, proc, told, crashed>>

-----------------------------------------------------------------------------

Executes == RunSetup \/ RunStop \/ HandleLoss
Starts == CreateSender \/ AssignNotifier \/ MarkConnected \/ KeepChannel \/ ScheduleSetup

Next ==
  \/ \E accepted \in Reachable : Connect(accepted)
  \/ Starts \/ Stop
  \/ Executes \/ TransactionTimesOut
  \/ ReceivePathDown \/ AllowFunctions \/ \E success \in BOOLEAN : Answer(success)

\* The executor and the application's thread run, the transaction's timer
\* expires, and the gateway takes down a receive path whose send path is gone.
Fairness ==
  /\ WF_vars(Starts) /\ WF_vars(Executes) /\ WF_vars(TransactionTimesOut)
  /\ WF_vars(AllowFunctions) /\ WF_vars(link = "closing" /\ ReceivePathDown)

Spec == Init /\ [][Next]_vars /\ Fairness

-----------------------------------------------------------------------------
(* Properties *)

\* The variables have their types.
TypeOK ==
  /\ app \in {"off", "sender", "assign", "flag", "channel", "schedule", "started", "stopped"}
  /\ link \in {"none", "up", "closing", "down"} /\ conn \in BOOLEAN \X BOOLEAN \X BOOLEAN \X BOOLEAN
  /\ executor \in Seq({"setup", "stop", "loss"}) /\ loop \in Seq({"setup", "stop"})
  /\ awaits \in {"nothing", "response", "disconnection"}
  /\ request \in {"unsent", "sent", "response", "answered"} /\ told \in Nat /\ {orphan, allowed, crashed} \subseteq BOOLEAN

\* Whoever waits for the receive path to go down will be resumed: it is still
\* up, or the handler of its loss is queued.
NoLostWakeup ==
  awaits = "disconnection" =>
    ~rx_down /\ (Receiving \/ \E i \in DOMAIN executor : executor[i] = "loss")

\* The agent is told at most once, and only when it did not ask for it.
ToldOfLossOnly == told <= 1 /\ (told = 1 => link = "down" /\ ~tx)

\* A null pointer is followed only when the RIC refused the association, whose
\* result start() does not look at, or when it was lost before its sender was made.
NullOnlyIfLost == crashed => link = "none" \/ orphan

\* The flags of the two directions, the tasks and the coroutines agree,
\* whenever the association is lost.
AssociationIsSound == TypeOK /\ NoLostWakeup /\ ToldOfLossOnly /\ NullOnlyIfLost

\* stop() is answered in the end: also while the setup procedure waits for a
\* RIC that never answers, when the association is lost before, during or
\* after, and when start() found it lost between two of its steps.
StopCompletes ==
  app = "stopped" ~> (crashed \/ (loop = << >> /\ \A i \in DOMAIN executor : executor[i] # "stop"))
=============================================================================
