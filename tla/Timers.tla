------------------------------- MODULE Timers -------------------------------
(***************************************************************************)
(* One timer of the timer manager (lib/support/timers.cpp).  Its front-end   *)
(* belongs to the thread of its owner, its back-end to the thread that calls  *)
(* tick().  Commands go down through three buffers that the two threads       *)
(* exchange without a lock, with a signal in a queue only where the back-end  *)
(* has none left to handle; expiries go up as tasks of the owner's executor.  *)
(* A released timer is taken over by another owner.                           *)
(***************************************************************************)
EXTENDS Integers, Sequences, FiniteSets

CONSTANTS
  Durations,  \* the durations of runs, in ticks
  MaxCmd,     \* bound: commands of the front-end
  MaxFailed   \* bound: dispatches that the executor's full queue refuses

ASSUME BoundsAssumption ==
  Durations \subseteq Nat /\ MaxCmd \in Nat /\ MaxFailed \in Nat

VARIABLES
  state,    \* frontend_state::state
  place,    \* where the handle is: "none", "pending" (to be created) or "made"
  owned,    \* whether a unique_timer has it; a made one is free otherwise
  push,     \* the front-end inside backend_channel::push; "stale" where it is the
            \* last owner that is still inside, and a new one has the timer
  cmd_id,   \* the number of the last command
  bufs,     \* the commands in the write, the middle and the read buffer
  signals,  \* how often the timer is in timers_with_pending_events
  batch,    \* signals popped in this tick and not handled yet
  phase,    \* the back-end inside tick()
  back,     \* timer_backend_context, with the ticks left before its timeout
  failed,   \* failed_to_trigger_timers, and how many there have been
  refused,
  tasks,    \* the expiry tasks in the owner's executor, by their epochs
  left,     \* history: the ticks for which a run must not expire yet
  torn      \* two owners have been inside push() at once: a race for write_buffer

front == <<state, place, owned, push, cmd_id>>
vars  == <<front, bufs, signals, batch, phase, back, failed, refused, tasks, left, torn>>

NoCmd == [cmd |-> "none", cmd_id |-> 0, duration |-> 0]

Init ==
  /\ state = "stopped" /\ owned = FALSE /\ push = "idle"
  /\ place \in {"none", "made"}
  /\ cmd_id = 0 /\ bufs = [write |-> NoCmd, middle |-> NoCmd, read |-> NoCmd]
  /\ signals = 0 /\ batch = 0 /\ phase = "idle"
  /\ back = [cmd_id |-> 0, state |-> "stopped", left |-> 0]
  /\ failed = << >> /\ refused = 0 /\ tasks = {} /\ left = 0 /\ torn = FALSE

Larger(a, b) == IF a >= b THEN a ELSE b

-----------------------------------------------------------------------------
\* push(): the epoch goes up, which outdates every earlier event, ...
SameEpoch(cmd) == cmd_id
NextEpoch(cmd) == cmd_id + 1

Prepare(cmd, duration) ==
  /\ push = "idle" /\ cmd_id < MaxCmd
  /\ push' = "exchange"
  /\ cmd_id' = NextEpoch(cmd)
  /\ bufs' = [bufs EXCEPT !.write = [cmd |-> cmd, cmd_id |-> cmd_id', duration |-> duration]]
  /\ UNCHANGED <<signals, batch, phase, back, failed, refused, tasks>>

\* ... the command becomes visible, in place of the one before, ...
Exchange ==
  /\ push = "exchange"
  /\ bufs' = [bufs EXCEPT !.write = bufs.middle, !.middle = bufs.write]
  /\ push' = "store"
  /\ UNCHANGED <<state, place, owned, cmd_id, signals, batch, phase, back, failed, refused, tasks, left>>

\* ... the buffer of the one before becomes the write buffer, ...
NotifiesIfPending(previous) == previous # NoCmd
Notifies(previous) == previous = NoCmd

Store ==
  /\ push = "store"
  /\ push' = IF Notifies(bufs.write) THEN "notify" ELSE "idle"
  /\ UNCHANGED <<state, place, owned, cmd_id, bufs, signals, batch, phase, back, failed, refused, tasks, left>>

\* ... and the command is signalled if the one before had been taken.
Notify ==
  /\ push = "notify"
  /\ push' = "idle" /\ signals' = signals + 1
  /\ UNCHANGED <<state, place, owned, cmd_id, bufs, batch, phase, back, failed, refused, tasks, left>>

\* create_frontend_timer takes a free timer or makes one.  The signal of an
\* earlier command may have brought the destroy to the back-end, and the timer to
\* the pool, before the last owner has stored its write buffer.
CreateFromPool ==
  /\ place = "made" /\ ~owned
  /\ owned' = TRUE
  /\ push' = IF push = "store" THEN "stale" ELSE push
  /\ UNCHANGED <<state, place, cmd_id, bufs, signals, batch, phase, back, failed, refused, tasks, left>>

StoreLate ==
  /\ push = "stale"
  /\ push' = "idle"
  /\ UNCHANGED <<state, place, owned, cmd_id, bufs, signals, batch, phase, back, failed, refused, tasks, left>>

\* The new owner pushes a command of its own before: both threads use one write
\* buffer, which is then the back-end's too.  Nothing is claimed from then on.
Tear ==
  /\ push = "stale" /\ ~torn /\ torn' = TRUE
  /\ UNCHANGED <<front, bufs, signals, batch, phase, back, failed, refused, tasks, left>>

Create ==
  /\ place = "none"
  /\ owned' = TRUE /\ place' = "pending"
  /\ Prepare("create", 0)
  /\ UNCHANGED <<state, left>>

\* run(), or set() of a timer that runs.
Run(duration) ==
  /\ owned
  /\ state' = "running" /\ left' = Larger(duration, 1)
  /\ Prepare("start", duration)
  /\ UNCHANGED <<place, owned>>

Stop ==
  /\ owned /\ state = "running"
  /\ state' = "stopped"
  /\ Prepare("stop", 0)
  /\ UNCHANGED <<place, owned, left>>

\* reset() and the destructor: the owner lets go of it at once.
Release ==
  /\ owned /\ state' = "stopped" /\ owned' = FALSE
  /\ place' = "released"
  /\ Prepare("destroy", 0)
  /\ UNCHANGED left

\* The expiry task, in the executor of the owner it was made for.
RunTask(epoch) ==
  /\ push = "idle" \/ epoch # cmd_id
  /\ tasks' = tasks \ {epoch}
  /\ state' = IF epoch = cmd_id THEN "expired" ELSE state
  /\ UNCHANGED <<place, owned, push, cmd_id, bufs, signals, batch, phase, back, failed, refused, left>>

-----------------------------------------------------------------------------
\* tick(): the signals of the moment are popped.
TickBegin ==
  /\ phase = "idle"
  /\ batch' = signals /\ signals' = 0 /\ phase' = "commands"
  /\ UNCHANGED <<front, bufs, back, failed, refused, tasks, left>>

\* The command leaves the back-end stopped or running anew.
TicksOneEarly(duration) == Larger(duration - 1, 1)
Ticks(duration) == Larger(duration, 1)

After(cmd) ==
  [cmd_id |-> cmd.cmd_id,
   state |-> IF cmd.cmd = "start" THEN "running"
             ELSE IF back.state = "running" \/ cmd.cmd = "destroy" THEN "stopped"
             ELSE back.state,
   left |-> IF cmd.cmd = "start" THEN Ticks(cmd.duration) ELSE 0]

\* pop() and handle_timer_updates: the read buffer is given for the middle
\* one, and its command is marked as taken.
HandleUpdate ==
  /\ phase = "commands" /\ batch > 0
  /\ batch' = batch - 1
  /\ bufs' = [bufs EXCEPT !.middle = bufs.read, !.read = NoCmd]
  /\ back' = IF bufs.middle = NoCmd THEN back ELSE After(bufs.middle)
  /\ place' = IF place = "pending" \/ bufs.middle.cmd = "destroy" THEN "made" ELSE place
  /\ UNCHANGED <<state, owned, push, cmd_id, signals, phase, failed, refused, tasks, left>>

\* trigger_timeout_handling: the executor takes the task, or refuses it.
Dispatch(epoch) == tasks' = tasks \cup {epoch} /\ UNCHANGED refused
Refuse == refused < MaxFailed /\ refused' = refused + 1 /\ UNCHANGED tasks

\* handle_postponed_timeouts, one round of its loop.
Outdated(epoch) == epoch # back.cmd_id \/ epoch # cmd_id

Rest == Tail(failed)

HandlePostponed ==
  /\ phase = "commands" /\ batch = 0 /\ failed # << >>
  /\ \/ /\ Outdated(Head(failed))
        /\ failed' = Rest
        /\ UNCHANGED <<refused, tasks, phase>>
     \/ /\ ~Outdated(Head(failed))
        /\ Dispatch(Head(failed))
        /\ failed' = Rest
        /\ UNCHANGED phase
     \/ /\ ~Outdated(Head(failed))
        /\ Refuse
        /\ phase' = "advance"
        /\ UNCHANGED failed
  /\ UNCHANGED <<front, bufs, signals, batch, back, left>>

\* The time advances, and with it what is left of the run.
Advance ==
  /\ phase = "advance" \/ (phase = "commands" /\ batch = 0 /\ failed = << >>)
  /\ back' = IF back.state = "running" THEN [back EXCEPT !.left = @ - 1] ELSE back
  /\ phase' = IF back.state = "running" /\ back.left = 1 THEN "expire" ELSE "idle"
  /\ left' = Larger(left - 1, 0)
  /\ UNCHANGED <<front, bufs, signals, batch, failed, refused, tasks>>

\* stop_timer_backend at the expiry; the epoch it compares with is an estimate.
Expire ==
  /\ phase = "expire"
  /\ back' = [back EXCEPT !.state = "expired"]
  /\ phase' = "idle"
  /\ \/ /\ back.cmd_id # cmd_id
        /\ UNCHANGED <<failed, refused, tasks>>
     \/ /\ back.cmd_id = cmd_id
        /\ Dispatch(back.cmd_id)
        /\ UNCHANGED failed
     \/ /\ back.cmd_id = cmd_id
        /\ Refuse
        /\ failed' = Append(failed, back.cmd_id)
  /\ UNCHANGED <<front, bufs, signals, batch, left>>

Owner ==
  \/ Create \/ CreateFromPool \/ Stop \/ Release
  \/ \E duration \in Durations : Run(duration)

Push == Exchange \/ Store \/ Notify \/ StoreLate

Ticker ==
  TickBegin \/ HandleUpdate \/ HandlePostponed \/ Advance \/ Expire

Sound == ~torn /\ UNCHANGED torn

Next ==
  \/ Sound /\ (Owner \/ Push \/ Ticker \/ \E epoch \in tasks : RunTask(epoch))
  \/ Tear

\* The clock ticks on, a push ends, and the executor runs what it has.
Fairness ==
  /\ WF_vars(Sound /\ Ticker)
  /\ WF_vars(Sound /\ Push)
  /\ \A epoch \in 1..MaxCmd : WF_vars(Sound /\ epoch \in tasks /\ RunTask(epoch))

Spec == Init /\ [][Next]_vars /\ Fairness
-----------------------------------------------------------------------------
(* Properties *)

Cmds ==
  [cmd : {"none", "create", "start", "stop", "destroy"},
   cmd_id : 0..MaxCmd, duration : Durations \cup {0}]

\* Types.
TypeOK ==
  /\ state \in {"stopped", "running", "expired"}
  /\ place \in {"none", "pending", "made", "released"} /\ owned \in BOOLEAN
  /\ push \in {"idle", "exchange", "store", "notify", "stale"} /\ cmd_id \in 0..MaxCmd
  /\ bufs \in [write : Cmds, middle : Cmds, read : {NoCmd}]
  /\ signals \in 0..1 /\ batch \in 0..1
  /\ phase \in {"idle", "commands", "advance", "expire"}
  /\ back \in [cmd_id : 0..MaxCmd, state : {"stopped", "running", "expired"}, left : Nat]
  /\ failed \in Seq(1..MaxCmd) /\ refused \in 0..MaxFailed
  /\ tasks \subseteq 1..MaxCmd /\ left \in Nat /\ torn \in BOOLEAN

\* No command is lost: while there is one that the back-end has not taken,
\* a signal is in the queue, popped or about to be sent, and only one is.
NoLostCommand ==
  (IF bufs.middle # NoCmd THEN 1 ELSE 0) =
     signals + batch
       + (IF push = "notify" \/ (push = "store" /\ bufs.write = NoCmd) THEN 1 ELSE 0)

\* The assertion of the expiry task: it finds its timer running.
ExpiryFindsRunning ==
  cmd_id \in tasks /\ push = "idle" => owned /\ state = "running"

\* A timer is not taken over before the back-end is done with the last owner;
\* the last owner may still have its write buffer to store, and no more.
PoolIsClean ==
  place = "made" /\ ~owned =>
    /\ bufs.middle = NoCmd /\ back.state # "running" /\ state = "stopped"
    /\ push \in {"idle", "store"}

\* Commands reach the back-end, each with one signal, before the timer can
\* change hands, until a new owner pushes while the last one is inside push().
CommandsArrive == TypeOK /\ NoLostCommand /\ PoolIsClean

\* An expired run is announced to the owner once, unless it is outdated.
AnnouncedOnce ==
  /\ \A i, j \in DOMAIN failed : failed[i] = failed[j] => i = j
  /\ \A i \in DOMAIN failed : failed[i] \notin tasks

\* A timer that runs for its owner, and whose last command was taken, runs in
\* the back-end, or its expiry is on its way to the owner.
RunIsServed ==
  state = "running" /\ push = "idle" /\ bufs.middle = NoCmd =>
    /\ back.cmd_id = cmd_id
    /\ \/ back.state = "running"
       \/ cmd_id \in tasks
       \/ \E i \in DOMAIN failed : failed[i] = cmd_id

\* A run ends by one announcement, which finds the timer running.
RunsEndOnce == ExpiryFindsRunning /\ AnnouncedOnce /\ RunIsServed

\* To its owner, the timer is the one of TimerPromise, until the buffers are torn.
Promise == INSTANCE TimerPromise
KeepsPromise == Promise!Spec
=============================================================================
