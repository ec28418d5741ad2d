------------------------------- MODULE E2Agent -------------------------------
(***************************************************************************)
(* The subscription side of the gNB's E2 agent                             *)
(* (srsRAN_Project/lib/e2): the subscription manager, the subscription     *)
(* setup and delete procedures, the indication procedure (one eager        *)
(* coroutine per subscription), the table of delete events the coroutines  *)
(* wait on, the FIFO task scheduler the procedures run in and the TNL      *)
(* connection to the near-RT RIC.                                          *)
(*                                                                         *)
(* Two executors enter this code: the SCTP receive callback, which hands a *)
(* PDU to e2_impl without a change of executor, and the E2 executor, with  *)
(* timers, connection loss, stop and the end of a RIC control action.      *)
(* Both draw on the non-real-time pool.  This is the agent on a pool of    *)
(* one worker (nof_non_rt_threads = 1), where callbacks of the two follow  *)
(* each other in any order and none runs inside another.  With more        *)
(* workers the two overlap in code that has no lock.                       *)
(*                                                                         *)
(* An operator introduced as a "Variant" is no part of the specification:  *)
(* it is its neighbour with a plausible bug, and a property of the run     *)
(* that checks it fails when the variant takes the neighbour's place.      *)
(***************************************************************************)
EXTENDS Integers, Sequences

CONSTANTS
    Keys,         \* RIC request ids <<requestor, instance>> the RIC uses
    ZeroKey,      \* <<0, 0>>: what a request id field holds when nothing set it
    ActionIds,    \* RIC action ids
    Unset,        \* the action id of an admitted-list slot nothing wrote
    Requests,     \* the action lists a subscription request may carry
    QueueCap,     \* capacity of the FIFO of procedures (10 in e2_impl)
    MaxActions    \* bound: the RIC stops adding actions to a list this long

Action == [id : ActionIds, kind : {"report", "insert"}]

ASSUME KeysAssumption == ZeroKey \notin Keys
ASSUME RequestsAssumption == Requests \subseteq Seq(Action)
ASSUME QueueCapAssumption == QueueCap \in Nat \ {0}
ASSUME MaxActionsAssumption == MaxActions \in Nat

VARIABLES
    alive,    \* the gNB process has not crashed
    conn,     \* TNL association: which of its two directions is still up
    allowed,  \* the E2 setup response allowed the KPM function
    subs,     \* keys of e2_subscription_manager_impl::subscriptions
    acts,     \* action_list of every key
    task,     \* where the indication coroutine of every key is
    src,      \* e2_event_manager::sub_del_reqs: delete event of every key
    rnd,      \* the indication round being executed
    loop,     \* the FIFO scheduler's loop: idle, running, or waiting for a control action
    fifo,     \* procedures waiting in the scheduler's queue
    out,      \* the PDU this step hands to the SCTP association
    reused    \* history: ids the RIC used again while they were in use

vars == <<alive, conn, allowed, subs, acts, task, src, rnd, loop, fifo, out, reused>>

AllKeys == Keys \cup {ZeroKey}

\* An entry of action_list; svc: its report_service is not null.
Entry == [id : ActionIds, kind : {"report", "insert"}, svc : BOOLEAN]

\* A pass over action_list, and what the coroutine's owner does at its end.
Round == [key : AllKeys, idx : Nat \ {0}, end : {"none", "period", "delete", "restart"},
          ids : Seq(ActionIds)]
NoRound == [key |-> ZeroKey, idx |-> 1, end |-> "none", ids |-> <<>>]

Pdu == [type : {"SubReq"}, key : Keys, func : {"kpm", "other"}, items : Requests]
         \cup [type : {"SubDel"}, key : Keys]
         \cup [type : {"Ctrl", "ConnUpd"}]

Message == [type : {"None", "Ind", "SubResp", "SubFail", "DelResp", "DelFail",
                    "CtrlAck", "CtrlFail", "ConnUpdFail"},
            key : AllKeys, ids : Seq(ActionIds \cup {Unset})]
Msg(type, k, ids) == [type |-> type, key |-> k, ids |-> ids]
NoMsg == Msg("None", ZeroKey, <<>>)

TypeOK ==
    /\ alive \in BOOLEAN
    /\ conn \in {"up", "lost", "closing", "closed", "down"}
    /\ allowed \in BOOLEAN
    /\ subs \subseteq AllKeys
    /\ acts \in [AllKeys -> Seq(Entry)]
    /\ task \in [AllKeys -> {"none", "waiting", "round", "done"}]
    /\ src \in [AllKeys -> {"absent", "free", "armed"}]
    /\ rnd \in Round
    /\ loop \in {"idle", "run", "ctrl"}
    /\ fifo \in Seq(Pdu)
    /\ out \in Message
    /\ reused \subseteq Keys

Init ==
    /\ alive = TRUE
    /\ conn = "up"
    /\ allowed = FALSE
    /\ subs = {}
    /\ acts = [k \in AllKeys |-> <<>>]
    /\ task = [k \in AllKeys |-> "none"]
    /\ src = [k \in AllKeys |-> "absent"]
    /\ rnd = NoRound
    /\ loop = "idle"
    /\ fifo = <<>>
    /\ out = NoMsg
    /\ reused = {}

-----------------------------------------------------------------------------
(* Building blocks                                                          *)

InRound == rnd.end # "none"

\* The worker is free to take its next callback.
CanStart == alive /\ ~InRound /\ loop # "run"

\* e2_tx_channel and the SCTP sender drop a PDU once the association is down.
Emit(m) == out' = IF conn = "up" THEN m ELSE NoMsg

\* subscriptions.erase(k): the coroutine frame goes, and with it the observer.
Erase(k) ==
    /\ subs' = subs \ {k}
    /\ acts' = [acts EXCEPT ![k] = <<>>]
    /\ task' = [task EXCEPT ![k] = "none"]
    /\ src' = [src EXCEPT ![k] = IF @ = "armed" THEN "free" ELSE @]

\* Variant: the copy loses the action id.
UnattachedWithoutId(item) == [id |-> Unset, kind |-> item.kind, svc |-> FALSE]

\* action_supported() copies an admitted action without its report service ...
Unattached(item) == [id |-> item.id, kind |-> item.kind, svc |-> FALSE]

\* Variant: the first action of the list is left without its service.
AttachedFromSecond(list) ==
    [i \in DOMAIN list |-> IF i > 1 THEN [list[i] EXCEPT !.svc = TRUE] ELSE list[i]]

\* ... and start_subscription() fetches one for every report action.  (The null
\* result it checks for cannot occur: KPM has a service for each style it
\* admits, and RC admits no action.)
Attached(list) ==
    [i \in DOMAIN list |-> IF list[i].kind = "report"
                           THEN [list[i] EXCEPT !.svc = TRUE] ELSE list[i]]

\* Which items of a request the E2SM admits: a choice, since the answer depends
\* on the UEs and cells the measurement provider knows at that moment.
Admissions(items) ==
    {f \in UNION {[1..n -> 1..Len(items)] : n \in 1..Len(items)} :
        \A i, j \in DOMAIN f : i < j => f[i] < f[j]}

\* The response loop writes every admitted id into slot 0 of the list.
EncodedIds(ids) ==
    [i \in DOMAIN ids |-> IF i = 1 THEN ids[Len(ids)] ELSE Unset]

\* Variant: the coroutine is launched before the services are fetched.
LaunchUnattached(k, list) ==
    /\ subs' = subs \cup {k}
    /\ acts' = [acts EXCEPT ![k] = list]
    /\ task' = [task EXCEPT ![k] = "waiting"]
    /\ src' = [src EXCEPT ![k] = "armed"]

\* launch_async<e2_indication_procedure>: the coroutine starts at once, finds
\* the delete event of its key and waits on it with the report period.
Launch(k, list) ==
    /\ subs' = subs \cup {k}
    /\ acts' = [acts EXCEPT ![k] = Attached(list)]
    /\ task' = [task EXCEPT ![k] = "waiting"]
    /\ src' = [src EXCEPT ![k] = "armed"]

\* Variant: the event stays registered while the coroutine runs.
ResumeKeepsObserver(k, end, ids) ==
    /\ UNCHANGED <<src, task>>
    /\ rnd' = [key |-> k, idx |-> 1, end |-> end, ids |-> ids]

\* The coroutine of k is resumed and starts a pass over its actions.
Resume(k, end, ids) ==
    /\ src' = [src EXCEPT ![k] = "free"]
    /\ task' = [task EXCEPT ![k] = "round"]
    /\ rnd' = [key |-> k, idx |-> 1, end |-> end, ids |-> ids]

-----------------------------------------------------------------------------
(* PDUs from the RIC                                                        *)

\* The id of a subscription, or of a request for one that is still queued.
InUse(k) ==
    \/ k \in subs
    \/ \E i \in DOMAIN fifo : fifo[i].type = "SubReq" /\ fifo[i].key = k

\* A PDU joins the queue of procedures.  Nothing keeps the RIC from subscribing
\* before it allows the function, or from using an id again.
Push(pdu) ==
    /\ pdu.type = "SubReq" => Len(acts[pdu.key]) < MaxActions
    /\ fifo' = Append(fifo, pdu)
    /\ reused' = IF pdu.type = "SubReq" /\ InUse(pdu.key)
                 THEN reused \cup {pdu.key} ELSE reused

\* The loop is waiting on the empty queue: the push resumes it right here.
ReceiveIdle ==
    /\ CanStart /\ conn \in {"up", "closing"} /\ loop = "idle"
    /\ \E pdu \in Pdu : Push(pdu)
    /\ loop' = "run" /\ out' = NoMsg
    /\ UNCHANGED <<alive, conn, allowed, subs, acts, task, src, rnd>>

\* A procedure is suspended: the new one waits behind it.
ReceiveQueued ==
    /\ CanStart /\ conn \in {"up", "closing"} /\ loop # "idle"
    /\ Len(fifo) < QueueCap
    /\ \E pdu \in Pdu : Push(pdu)
    /\ out' = NoMsg
    /\ UNCHANGED <<alive, conn, allowed, subs, acts, task, src, rnd, loop>>

\* try_push() fails and nobody looks at its result: the RIC gets no answer.
ReceiveDropped ==
    /\ CanStart /\ conn \in {"up", "closing"} /\ loop # "idle"
    /\ Len(fifo) >= QueueCap
    /\ out' = NoMsg
    /\ UNCHANGED <<alive, conn, allowed, subs, acts, task, src, rnd, loop, fifo>>

\* E2 setup response: set_allowed_ran_functions().
SetupResponse ==
    /\ CanStart /\ conn \in {"up", "closing"}
    /\ ~allowed /\ allowed' = TRUE
    /\ out' = NoMsg
    /\ UNCHANGED <<alive, conn, subs, acts, task, src, rnd, loop, fifo>>

-----------------------------------------------------------------------------
(* Procedures, run in the scheduler's loop                                  *)

\* The loop pops the procedure of a PDU of this type.
Pops(type) ==
    /\ alive /\ loop = "run" /\ ~InRound
    /\ fifo # <<>> /\ Head(fifo).type = type
    /\ fifo' = Tail(fifo)

\* RAN function ID not supported.
SetupUnknownFunction ==
    /\ Pops("SubReq") /\ Head(fifo).func = "other"
    /\ Emit(Msg("SubFail", Head(fifo).key, <<>>))
    /\ UNCHANGED <<alive, conn, allowed, subs, acts, task, src, rnd, loop>>

\* Variant: the coroutine is registered before its event is looked up.
SetupNotAllowedStarts ==
    /\ Pops("SubReq") /\ Head(fifo).func = "kpm" /\ ~allowed
    /\ src' = [src EXCEPT ![Head(fifo).key] = "armed"]
    /\ subs' = subs \cup {ZeroKey, Head(fifo).key}
    /\ task' = [task EXCEPT ![Head(fifo).key] = "waiting"]
    /\ Emit(Msg("SubResp", ZeroKey, <<>>))
    /\ UNCHANGED <<alive, conn, allowed, acts, rnd, loop>>

\* A supported function the RIC has not allowed yet: the outcome is returned
\* before any of its fields is set, success included.
SetupNotAllowed ==
    /\ Pops("SubReq") /\ Head(fifo).func = "kpm" /\ ~allowed
    /\ \/ /\ Emit(Msg("SubFail", ZeroKey, <<>>))
          /\ UNCHANGED <<subs, task, src>>
       \/ /\ src' = [src EXCEPT ![Head(fifo).key] = "free"]
          /\ subs' = subs \cup {ZeroKey}
          /\ task' = [task EXCEPT ![ZeroKey] = "done"]
          /\ Emit(Msg("SubResp", ZeroKey, <<>>))
    /\ UNCHANGED <<alive, conn, allowed, acts, rnd, loop>>

\* No action admitted: the entry of this key is erased, new or not.
SetupRejected ==
    /\ Pops("SubReq") /\ Head(fifo).func = "kpm" /\ allowed
    /\ Erase(Head(fifo).key)
    /\ Emit(Msg("SubFail", Head(fifo).key, <<>>))
    /\ UNCHANGED <<alive, conn, allowed, rnd, loop>>

\* Admitted actions are appended to the entry of the key, which insert() keeps
\* if there is one.  Replacing a delete event somebody waits on cancels the
\* wait: the old coroutine makes its last pass before the new one starts.
SetupAccepted ==
    /\ Pops("SubReq") /\ Head(fifo).func = "kpm" /\ allowed
    /\ \E f \in Admissions(Head(fifo).items) :
         LET k    == Head(fifo).key
             new  == [i \in DOMAIN f |-> Unattached(Head(fifo).items[f[i]])]
             ids  == [i \in DOMAIN f |-> Head(fifo).items[f[i]].id]
             list == acts[k] \o new
         IN  \/ /\ src[k] # "armed"
                /\ Launch(k, list)
                /\ UNCHANGED rnd
                /\ Emit(Msg("SubResp", k, EncodedIds(ids)))
             \/ /\ src[k] = "armed"
                /\ acts' = [acts EXCEPT ![k] = list]
                /\ Resume(k, "restart", ids)
                /\ out' = NoMsg
                /\ UNCHANGED subs
    /\ UNCHANGED <<alive, conn, allowed, loop>>

\* The failure carries a cause and no request id.
DeleteUnknown ==
    /\ Pops("SubDel") /\ Head(fifo).key \notin subs
    /\ Emit(Msg("DelFail", ZeroKey, <<>>))
    /\ UNCHANGED <<alive, conn, allowed, subs, acts, task, src, rnd, loop>>

\* Variant: the RIC is answered before the coroutine has ended.
DeleteAnswersFirst ==
    /\ Pops("SubDel") /\ Head(fifo).key \in subs
    /\ src[Head(fifo).key] = "armed"
    /\ Resume(Head(fifo).key, "delete", <<>>)
    /\ Emit(Msg("DelResp", Head(fifo).key, <<>>))
    /\ UNCHANGED <<alive, conn, allowed, subs, acts, loop>>

\* The delete event resumes the coroutine inside stop_subscription().
DeleteWaiting ==
    /\ Pops("SubDel") /\ Head(fifo).key \in subs
    /\ src[Head(fifo).key] = "armed"
    /\ Resume(Head(fifo).key, "delete", <<>>)
    /\ out' = NoMsg
    /\ UNCHANGED <<alive, conn, allowed, subs, acts, loop>>

\* Nobody waits on the event: set() does nothing and the entry is erased.
DeleteUnobserved ==
    /\ Pops("SubDel") /\ Head(fifo).key \in subs
    /\ src[Head(fifo).key] # "armed"
    /\ Erase(Head(fifo).key)
    /\ Emit(Msg("DelResp", Head(fifo).key, <<>>))
    /\ UNCHANGED <<alive, conn, allowed, rnd, loop>>

\* RIC control: not supported (no answer), failed at once, or awaited.
Control ==
    /\ Pops("Ctrl")
    /\ \/ out' = NoMsg /\ UNCHANGED loop
       \/ Emit(Msg("CtrlFail", ZeroKey, <<>>)) /\ UNCHANGED loop
       \/ out' = NoMsg /\ loop' = "ctrl"
    /\ UNCHANGED <<alive, conn, allowed, subs, acts, task, src, rnd>>

\* E2 connection update is not implemented: always a failure.
ConnectionUpdate ==
    /\ Pops("ConnUpd")
    /\ Emit(Msg("ConnUpdFail", ZeroKey, <<>>))
    /\ UNCHANGED <<alive, conn, allowed, subs, acts, task, src, rnd, loop>>

\* The loop finds its queue empty and waits.
LoopAwait ==
    /\ alive /\ loop = "run" /\ ~InRound /\ fifo = <<>>
    /\ loop' = "idle" /\ out' = NoMsg
    /\ UNCHANGED <<alive, conn, allowed, subs, acts, task, src, rnd, fifo>>

-----------------------------------------------------------------------------
(* The indication procedure                                                 *)

\* The report period of k is over.
Expire(k) ==
    /\ CanStart
    /\ src[k] = "armed"
    /\ Resume(k, "period", <<>>)
    /\ out' = NoMsg
    /\ UNCHANGED <<alive, conn, allowed, subs, acts, loop, fifo>>

\* The action the coroutine has come to in its pass over the list.
AtAction ==
    /\ alive /\ InRound
    /\ rnd.idx <= Len(acts[rnd.key])
Current == acts[rnd.key][rnd.idx]

RoundSend ==
    /\ AtAction
    /\ Current.kind = "report" => Current.svc
    /\ Emit(Msg("Ind", rnd.key, <<Current.id>>))
    /\ rnd' = [rnd EXCEPT !.idx = @ + 1]
    /\ UNCHANGED <<alive, conn, allowed, subs, acts, task, src, loop, fifo>>

\* No measurement is ready for this report action.
RoundSkip ==
    /\ AtAction
    /\ Current.kind = "report" /\ Current.svc
    /\ rnd' = [rnd EXCEPT !.idx = @ + 1]
    /\ out' = NoMsg
    /\ UNCHANGED <<alive, conn, allowed, subs, acts, task, src, loop, fifo>>

\* report_service is null: collect_measurements() is called through it.
RoundCrash ==
    /\ AtAction
    /\ Current.kind = "report" /\ ~Current.svc
    /\ alive' = FALSE /\ out' = NoMsg
    /\ UNCHANGED <<conn, allowed, subs, acts, task, src, rnd, loop, fifo>>

\* The pass is over; its owner goes on.
AtEnd(end) ==
    /\ alive /\ rnd.end = end
    /\ rnd.idx > Len(acts[rnd.key])

\* Variant: the coroutine reports once.
RoundEndsReporting ==
    /\ AtEnd("period")
    /\ rnd' = NoRound
    /\ task' = [task EXCEPT ![rnd.key] = "done"]
    /\ out' = NoMsg
    /\ UNCHANGED <<alive, conn, allowed, subs, acts, src, loop, fifo>>

\* Variant: the coroutine waits again without subscribing to its event.
RoundForgetsTimer ==
    /\ AtEnd("period")
    /\ rnd' = NoRound
    /\ task' = [task EXCEPT ![rnd.key] = "waiting"]
    /\ out' = NoMsg
    /\ UNCHANGED <<alive, conn, allowed, subs, acts, src, loop, fifo>>

\* Wait for the next period, if the key still has a delete event.
RoundNextPeriod ==
    LET k == rnd.key IN
    /\ AtEnd("period")
    /\ rnd' = NoRound
    /\ IF src[k] = "absent"
       THEN task' = [task EXCEPT ![k] = "done"] /\ UNCHANGED src
       ELSE task' = [task EXCEPT ![k] = "waiting"] /\ src' = [src EXCEPT ![k] = "armed"]
    /\ out' = NoMsg
    /\ UNCHANGED <<alive, conn, allowed, subs, acts, loop, fifo>>

\* Variant: the answer goes out and the entry stays.
RoundDeletedKeepsEntry ==
    LET k == rnd.key IN
    /\ AtEnd("delete")
    /\ task' = [task EXCEPT ![k] = "done"]
    /\ rnd' = NoRound
    /\ Emit(Msg("DelResp", k, <<>>))
    /\ UNCHANGED <<alive, conn, allowed, subs, acts, src, loop, fifo>>

\* stop_subscription() erases the entry and the delete procedure answers.
RoundDeleted ==
    LET k == rnd.key IN
    /\ AtEnd("delete")
    /\ Erase(k)
    /\ rnd' = NoRound
    /\ Emit(Msg("DelResp", k, <<>>))
    /\ UNCHANGED <<alive, conn, allowed, loop, fifo>>

\* start_subscription() replaces the old coroutine and the setup is answered.
RoundRestarted ==
    LET k == rnd.key IN
    /\ AtEnd("restart")
    /\ Launch(k, acts[k])
    /\ rnd' = NoRound
    /\ Emit(Msg("SubResp", k, EncodedIds(rnd.ids)))
    /\ UNCHANGED <<alive, conn, allowed, loop, fifo>>

\* Variant: the control procedure answers and its caller is not resumed.
ControlDoneKeepsCaller ==
    /\ CanStart /\ loop = "ctrl"
    /\ \E type \in {"CtrlAck", "CtrlFail"} : Emit(Msg(type, ZeroKey, <<>>))
    /\ UNCHANGED <<alive, conn, allowed, subs, acts, task, src, rnd, loop, fifo>>

\* The awaited control action completes on the E2 executor, which answers (if
\* asked to) and keeps the loop.
ControlDone ==
    /\ CanStart /\ loop = "ctrl"
    /\ loop' = "run"
    /\ \/ out' = NoMsg
       \/ \E type \in {"CtrlAck", "CtrlFail"} : Emit(Msg(type, ZeroKey, <<>>))
    /\ UNCHANGED <<alive, conn, allowed, subs, acts, task, src, rnd, fifo>>

-----------------------------------------------------------------------------
(* The TNL association: "lost" has lost its receive side, "closing" its      *)
(* send side, "closed" both; "down" once the E2 executor has handled it.     *)

\* The SCTP client drops the receive handler and defers the news.
ReceivePathLost ==
    /\ CanStart /\ conn \in {"up", "closing"}
    /\ conn' = IF conn = "up" THEN "lost" ELSE "closed"
    /\ out' = NoMsg
    /\ UNCHANGED <<alive, allowed, subs, acts, task, src, rnd, loop, fifo>>

\* e2_entity::stop(): only the send side is reset.
Stop ==
    /\ CanStart /\ conn \in {"up", "lost"}
    /\ conn' = IF conn = "up" THEN "closing" ELSE "closed"
    /\ out' = NoMsg
    /\ UNCHANGED <<alive, allowed, subs, acts, task, src, rnd, loop, fifo>>

\* Variant: the cleared coroutines leave their observers behind.
LossKeepsObservers ==
    /\ CanStart /\ conn = "lost"
    /\ conn' = "down"
    /\ subs' = {}
    /\ acts' = [k \in AllKeys |-> <<>>]
    /\ task' = [k \in AllKeys |-> "none"]
    /\ out' = NoMsg
    /\ UNCHANGED <<alive, allowed, src, rnd, loop, fifo>>

\* Unexpected loss: the agent is told and clears its subscriptions.
LossHandled ==
    /\ CanStart /\ conn = "lost"
    /\ conn' = "down"
    /\ subs' = {}
    /\ acts' = [k \in AllKeys |-> <<>>]
    /\ task' = [k \in AllKeys |-> "none"]
    /\ src' = [k \in AllKeys |-> IF src[k] = "armed" THEN "free" ELSE src[k]]
    /\ out' = NoMsg
    /\ UNCHANGED <<alive, allowed, rnd, loop, fifo>>

\* Requested shutdown: the send side is already gone, so nobody is told.
CloseHandled ==
    /\ CanStart /\ conn = "closed"
    /\ conn' = "down"
    /\ out' = NoMsg
    /\ UNCHANGED <<alive, allowed, subs, acts, task, src, rnd, loop, fifo>>

-----------------------------------------------------------------------------
Procedure ==
    \/ SetupUnknownFunction \/ SetupNotAllowed \/ SetupRejected \/ SetupAccepted
    \/ DeleteUnknown \/ DeleteWaiting \/ DeleteUnobserved
    \/ Control \/ ConnectionUpdate
    \/ LoopAwait

RoundStep ==
    \/ RoundSend \/ RoundSkip \/ RoundCrash
    \/ RoundNextPeriod \/ RoundDeleted \/ RoundRestarted

Association == ReceivePathLost \/ Stop \/ LossHandled \/ CloseHandled

\* Everything but a PDU that joins the queue.
Inside ==
    \/ ReceiveDropped \/ SetupResponse
    \/ Procedure \/ RoundStep
    \/ \E k \in AllKeys : Expire(k)
    \/ ControlDone
    \/ Association

Next ==
    \/ ReceiveIdle \/ ReceiveQueued
    \/ Inside /\ UNCHANGED reused

Spec == Init /\ [][Next]_vars

\* A callback that has begun is finished.  What waits in an executor's queue (an
\* expired timer, the end of a control action, the news of a lost association)
\* may be overtaken by other callbacks, but not for ever: the queues are first
\* in, first out.
Fairness ==
    /\ WF_vars(Procedure /\ UNCHANGED reused)
    /\ WF_vars(RoundStep /\ UNCHANGED reused)
    /\ \A k \in AllKeys : SF_vars(Expire(k) /\ UNCHANGED reused)
    /\ SF_vars(ControlDone /\ UNCHANGED reused)
    /\ SF_vars(LossHandled /\ UNCHANGED reused)
    /\ SF_vars(CloseHandled /\ UNCHANGED reused)

FairSpec == Spec /\ Fairness

-----------------------------------------------------------------------------
(* Properties                                                               *)

\* The delete event of a key has an observer exactly while the coroutine of a
\* subscription with that key waits, and an entry has a coroutine: a delete
\* request reaches the coroutine it names and no observer outlives its entry
\* (e2_event_manager::sub_del_reqs against e2_subscription_manager_impl).
ObserverMatchesTask ==
    \A k \in AllKeys :
        /\ src[k] = "armed" <=> task[k] = "waiting"
        /\ task[k] # "none" <=> k \in subs
        /\ k \notin subs => acts[k] = <<>>

\* A coroutine that waits, and one that is in the round of a period or of its
\* delete request, has a list whose report actions all have their service: only
\* the last round of a coroutine that is being replaced can meet a null one
\* (action_supported() copies none, start_subscription() fetches them).
Serviced(k) ==
    \A i \in DOMAIN acts[k] : acts[k][i].kind = "report" => acts[k][i].svc
ServicesInPlace ==
    /\ \A k \in AllKeys : task[k] = "waiting" => Serviced(k)
    /\ InRound /\ rnd.end # "restart" => Serviced(rnd.key)

\* The coroutine of a key is between two suspension points exactly while its
\* round runs: no procedure that resumes, replaces or erases one leaves another
\* half way (e2_indication_procedure's suspension points).
RoundsOwnTask ==
    \A k \in AllKeys : task[k] = "round" <=> InRound /\ rnd.key = k

\* No coroutine runs before the RIC has allowed the function, nor ever under the
\* id of an outcome whose fields nobody set (the early return of
\* handle_subscription_setup).
OnlyAllowedRun ==
    /\ task[ZeroKey] \in {"none", "done"}
    /\ ~allowed => \A k \in Keys : task[k] = "none"

\* The process crashes only in the last round of a subscription whose id the RIC
\* used again while it was in use: no first subscription, delete, loss or period
\* leads there (the null report_service of e2_indication_procedure).
CrashOnlyOnReuse ==
    ~alive => rnd.end = "restart" /\ rnd.key \in reused

\* Once a positive delete response is out, nothing of that subscription is left
\* that could still send: no entry, no waiting coroutine, no round.
DeleteIsFinal ==
    [][out'.type = "DelResp" =>
          /\ out'.key \notin subs'
          /\ src'[out'.key] # "armed"
          /\ ~(InRound /\ rnd.key = out.key)']_vars

\* "it will execute periodically until the E2 SUBSCRIPTION DELETE REQUEST is
\* received" (e2_indication_procedure.h): while the association is up, the
\* coroutine of a subscription ends in the step that answers the RIC's delete
\* request for it, or in the one that refuses a request that used its id again.
PeriodicUntilDelete ==
    [][\A k \in Keys :
          conn = "up" /\ task[k] # "none" /\ task'[k] \in {"none", "done"}
              => /\ out'.key = k
                 /\ \/ out'.type = "DelResp"
                    \/ out'.type = "SubFail" /\ k \in reused]_vars

\* A running subscription keeps reporting: its coroutine starts a round again
\* and again for as long as it exists (async_event_source's timer against the
\* procedures that share its thread).
KeepsReporting ==
    \A k \in Keys : task[k] = "waiting" ~> (task[k] # "waiting" \/ ~alive)

\* A delete request that was queued is answered, however long the control
\* action before it takes, unless the association or the process ends first.
DeletesAnswered ==
    \A k \in Keys :
        (\E i \in DOMAIN fifo : fifo[i].type = "SubDel" /\ fifo[i].key = k)
            ~> \/ out.type = "DelResp" /\ out.key = k
               \/ out.type = "DelFail" \/ conn # "up" \/ ~alive

Promise == INSTANCE SubscriptionService WITH
    NoKey <- ZeroKey,
    active <- {k \in Keys : task[k] # "none"},
    linked <- conn = "up",
    said <- [type |-> out.type, key |-> out.key]

\* The agent keeps the promise: no indication for a subscription that is not
\* active, none that vanishes without an answer while the association is up
\* (e2_impl and its subscription manager against SubscriptionService).
KeepsPromise == Promise!Spec
=============================================================================
