# A verification development for ORCSec

TLA+ models, TLC configurations and TLAPS proofs for the parts of ORCSec that
carry its own logic: the path of a KPM measurement from the gNB's E2 agent
through the near-RT RIC to the Python xApps, the runner that produces a
campaign of experiments with it, and the protocol entities of the gNB whose
counters those measurements are (PDCP, RLC) with the timers all of them use. Paths below are relative to `src/`;
`srs/` stands for `openran/srsRAN_Project/`.

## 1. The system

ORCSec is a testbed: a 5G core (Open5GS), an srsRAN gNB, three srsRAN-4G UEs
over a simulated channel (GNU Radio), a near-RT RIC (O-RAN SC containers) and
Python xApps that collect KPM reports or classify UEs from them. A Bash script
runs the experiments a generator wrote.

| component | code | state | operations |
|---|---|---|---|
| E2 subscription manager | `srs/lib/e2/common/e2_subscription_manager_impl.cpp` | map of subscriptions, each with an action list and an indication coroutine | set up, start, delete, stop one, stop all |
| E2AP procedures | `srs/lib/e2/procedures/` | coroutine frames; the table of delete events | subscription setup and delete, indication rounds, RIC control, connection update, E2 setup |
| coroutine support | `srs/include/srsran/support/async/` | event sources with one observer and a timer; a bounded queue | set, subscribe, time out, push, pop |
| E2 agent | `srs/lib/e2/common/e2_impl.cpp` | allowed RAN functions, FIFO of procedures | dispatch of E2AP messages |
| E2 connection handler and entity | `srs/lib/e2/common/e2_connection_handler.cpp`, `e2_entity.cpp` | notifiers of the two directions, connected flag | connect, stop, handle a loss |
| SCTP client | `srs/lib/gateways/sctp_network_client_impl.cpp` | receive handler, flags shared with the sender | receive, terminate, send |
| E2SM-KPM, E2SM-RC | `srs/lib/e2/e2sm/` | measurements collected per report service; control services | admit an action, collect, report, control |
| xApp base class | `openran/oran-sc-ric/xApps/python/lib/xAppBase.py` | the dict of subscriptions, a running flag | subscribe, HTTP callback, RMR loop, unsubscribe, stop |
| KPM collector | `kpm5_xapp.py` | the metrics CSV | write header, append rows |
| detector | `detector_xapp.py` | buffer of rows, three models | buffer, build features, classify in two stages |
| experiment runner | `run_enhanced.sh` | loop counters, retry counts, pids, tmux sessions, containers | run, retry, validate, clean up, trap |
| PDCP entities | `srs/lib/pdcp/pdcp_entity_{rx,tx}.cpp` | state variables and windows by COUNT, t-Reordering, one discard timer | receive, reorder, deliver; store, discard, handle notifications and status reports; re-establish, stop |
| RLC AM entities | `srs/lib/rlc/rlc_{tx,rx}_am_entity.cpp` | windows by sequence number, retransmission queue, polling state, four timers | build PDUs, retransmit, handle and build status reports, reassemble |
| timers | `srs/lib/support/timers.cpp` | front-ends and back-ends of timers, a triple buffer of commands each, a pool | create, run, stop, release, tick, announce an expiry |
| generators | `generate_*.py`, `mmap_generator.py` | state of a chaotic map | assign profiles, write folders |
| metrics server | `metrics_server.py` | a log file | receive and append |
| rest of the gNB, srsRAN 4G, RIC images, GNU Radio flow graph, notebook | `srs/lib/{cu_cp,mac,...}`, `openran/` | | upstream or generated |

How they interact. An xApp posts a subscription to the RIC's subscription
manager over REST; the manager sends a RIC subscription request over SCTP to the
E2 agent and later posts the outcome to the xApp's HTTP server, with the id that
indications carry. In the agent the SCTP receive callback calls `e2_impl`
directly, which queues a procedure in a FIFO scheduler; a procedure that starts a
subscription launches a coroutine that waits on a delete event with the report
period as its timeout and sends an indication for each action of its list when
it is resumed. Timers, the loss of the association, `stop()` and the end of a RIC
control action run on the E2 executor. Indications go through the RIC to the
xApp's RMR loop, which looks up the subscription and calls the xApp's callback;
the collector appends a row per UE to a CSV in a directory mounted from the
host, which the runner removes before the traffic and validates after it.

Below the agent the gNB's user plane is a chain of entities that call each
other: PDCP numbers and stores an SDU and hands it to RLC, RLC sends it over a
radio that loses, tells PDCP what was transmitted and delivered, and the peer's
PDCP puts it back in order. Each has timers of the timer manager, whose ticks
come on a thread of their own and whose expiries arrive as tasks of the entity's
executor; PDCP's integrity and ciphering run on a pool of workers.

What is hard: two threads enter the agent's code (receive callback and executor);
coroutines are resumed in the middle of the handler that signals them and can be
destroyed while they are registered somewhere; requests outlive the association
they came from; ids can be used again while live; three threads of an xApp and a
signal handler share one dict; the runner must not take over processes, ports,
files or lines of log from an earlier attempt, whatever dies at whatever moment;
PDCP and RLC infer full numbers from a few low bits, keep windows that wrap
around, and have one timer serve many SDUs, under reports that are late or
stale; the timer manager passes commands between two threads without a lock and
announces expiries it must estimate to be current.

What makes each component correct:

* agent: indications only for active subscriptions; a positive delete response is
  final; a running subscription ends only by its delete or with the association;
  no coroutine frame in two hands, no observer without its coroutine, no report
  action without its service; queued requests answered; no crash but for what the
  RIC does with its ids.
* xApp base class: the indications of an active subscription reach the callback;
  a signal ends the xApp and leaves nothing active.
* runner: an experiment passes only with the results of its own run, over its
  own processes; every experiment is tried; the summary names what failed; nothing is
  started after a signal; the script comes to an end.
* E2 setup and connection: nobody waits for what cannot come, the agent hears of
  a loss at most once, `stop()` completes.
* PDCP: the COUNT of every PDU is the peer's, nothing is delivered twice or out of
  order, no hole or full window lasts for ever, no SDU outlives its discard timer.
* RLC AM: an acknowledged SDU has been delivered, once and whole, or counted as
  lost; the two windows overlap; every SDU is settled (it is not: `rlc_lost_poll`).
* timers: one announcement per run, not early, not after a stop, and in the end one.
* detector, generators, KPM report services: in the plan (section 7).

`PROJECT.json` lists every component, with those not modelled and why, and the
hazards found while reading, each at its line.

## 2. Modules

| module | what it is |
|---|---|
| `SubscriptionService` | abstract: what the agent promises the RIC about subscriptions |
| `E2Agent` | the agent: subscription manager, procedures, event table, FIFO, association |
| `E2AgentProofs` | inductive invariants and theorems about `E2Agent`, that it implements `SubscriptionService`, and that a subscription ends only by its delete |
| `ExperimentRunner` | `run_enhanced.sh` beside the processes it starts and the collector |
| `ExperimentRunnerProofs` | types, own results over the own stack, the exact list, signals are final, for any number of sets, experiments and attempts |
| `XAppBase` | the xApp base class, its three threads and the manager as it uses it |
| `XAppBaseProofs` | types and routing for any finite set of subscriptions |
| `E2Setup` | `e2_entity`, the connection handler and the setup procedure on three threads |
| `E2SetupProofs` | flags, tasks and coroutines of the association agree, whatever is lost when |
| `PdcpRx` | the receiving PDCP entity with its crypto workers and the peer |
| `PdcpRxProofs` | the receiver in step, exact and in order, for any number space |
| `PdcpTx` | the transmitting PDCP entity of a DRB with what RLC reports to it |
| `PdcpTxProofs` | window, edges and timer of the transmitter, and which causes break them |
| `RlcAm` | both RLC AM entities of one direction and the radio between them |
| `RlcAmProofs` | the numbers behind the sequence numbers; sound windows and a reliable transfer |
| `TimerPromise` | abstract: what a timer promises its owner |
| `Timers` | the timer manager: front-end, triple buffer, back-end, expiry tasks |
| `TimersProofs` | inductive invariant of `Timers`, and that it keeps `TimerPromise` |
| `MC...` | small instances for TLC |

An operator introduced as a *Variant* is not part of a specification: it is its
neighbour with a plausible bug, and a property is known to fail when the variant
takes the neighbour's place (`PROJECT.json`, `mutants`).

### E2Agent

| variable | in the code |
|---|---|
| `alive` | the process; it ends at a call through a null `report_service` or by undefined behaviour |
| `conn` | the association's two directions: `tx_pdu_notifier` and the SCTP client's `recv_handler` |
| `allowed` | `supported_ran_functions` of `e2sm_manager` has the KPM function |
| `subs`, `acts` | `subscriptions` and each one's `action_list` |
| `task` | where the coroutine `indication_task` is: waiting, in a round, done |
| `src` | `e2_event_manager::sub_del_reqs`: no event, an event nobody waits for, an event with an observer |
| `rnd` | the round being executed, and what its owner does at its end |
| `loop`, `fifo` | the FIFO scheduler's loop and its queue of procedures |
| `out` | the PDU handed to the association in this step |
| `reused` | history: the ids the RIC used again while they were in use |

Two executors enter this code: the gateway's receive executor, which calls `e2_impl`
without a change of executor, and the E2 executor (timers, the end of a RIC control
action, the news of a loss, `stop()`). Both draw on the non-real-time pool, which has
`nof_non_rt_threads` workers. `E2Agent` is the agent on a pool of one worker: callbacks
of the two follow each other in any order, and none runs inside another. What the
default of four workers adds is not a set of orders but a data race (section 6).

One action is one piece of a callback: a procedure up to the point where it resumes
a coroutine, one action of a round, the end of a round with what its owner does next
(`RoundNextPeriod`, `RoundDeleted`, `RoundRestarted`). In one callback a setup appends
the admitted actions without their services, replaces the delete event and starts the
coroutine; the step is split only where the replaced event wakes the old coroutine,
which then makes a last round over the actions that have no service yet
(`SetupAccepted`). A push into the empty queue resumes the scheduler's loop on the spot
(`ReceiveIdle`), one behind a suspended procedure waits (`ReceiveQueued`), and a full
queue drops the request without anybody looking (`ReceiveDropped`).

Choices: what the E2SM admits of a request (it depends on the UEs and cells known
at that moment), whether a report is ready, how a control request ends, and the
uninitialised outcome of a request for a function not yet allowed
(`SetupNotAllowed`). The RIC may do what the code lets it: subscribe before the setup
response, use an id again while it is in use (`reused` remembers it).

`SubscriptionService`, what this implements, lets the agent add a subscription only in
the step that accepts it and, while the association is up in both directions, end one
only in the step that says so; `Lose` is possible only after the association went.

### ExperimentRunner

`pc` is the script's step; `proc` says for each part of the stack, and for the iPerf
jobs, whether it is off, from this attempt, or from an earlier one (or an earlier
script: `Init` allows all of it to be running); `xapp` is the xApp container with the
metrics directory of this experiment and the collector the operator starts in it, which
`docker compose up` keeps in a retry; `csv` its file, with the moments of its creation
and of its first and last row. The validation's duration of 480 +- 10 s is: first row
from the first seconds of the traffic or just before it, last row from its end. Steps
succeed or fail by choice where they depend on Docker, tmux or the network, and look at
no more than the code does: the gNB is connected when its log says so, whatever runs.
Anything may die at any moment (`Dies`). `cleanup` ends every process, but the fallback
of `compose down` leaves the xApp container with its collector, and an iPerf job of an
earlier script may refuse the user's signal (`CleanUp`). `tried` and `outcome` are
history variables of the properties.

### XAppBase

`dict` says under which key each subscription is stored (the manager's id, the
event id, or 0 of a refused one); `popped` is the entry the HTTP thread holds
between `pop` and insertion; `left` and `size` are the dict iterator in
`unsubscribe_all` and `due` how many entries it still expects: Python raises when the
number of entries differs from the one the iterator was made with, and when it meets
one more than it expected. A REST call of `unsubscribe()` may succeed, return another
status, which is printed (`unheard`), or raise, which ends the iteration: the exception
is swallowed in the wait of `_run` and ends the thread elsewhere (`Raises`). The manager is external and appears as what the class
sees of it: it answers every subscription once, before or after the entry is
stored.

### E2Setup

Three threads take steps: the application (`Connect` ... `ScheduleSetup`, `Stop`),
the E2 executor (`RunSetup`, `RunStop`, `HandleLoss`, `TransactionTimesOut`) and the
gateway's receive thread (`Answer`, `AllowFunctions`, `ReceivePathDown`).
`connect_to_ric` is split where the receive path can go down in between; a loss before
`CreateSender` leaves a sender whose copy of the shutdown flag is null (`orphan`), which
whoever sends through it or destroys it follows (`MeetsNull`). `loop`
holds the coroutines of `main_ctrl_loop`, `awaits` what its first one is suspended
on; `tx`, `channel`, `connected`, `rx_down` are the notifiers and flags by name.
A refused association (`Connect(FALSE)`) destroys its receive channel, which
counts as a loss.

### PdcpRx and PdcpTx

State variables have the code's names (`rx_next`, `rx_deliv`, `rx_reord`, `tx_next`,
`tx_trans`, `tx_next_ack`). A window is a function on the COUNTs stored; the code's
circular map by COUNT modulo its size is kept in `StoreIn`, which drops whatever
else has the index. In `PdcpRx` a PDU is `[was, count]`, the COUNT of the peer and
the one inferred; `inflight` are PDUs with the crypto workers or queued behind
them, which come back in any order (`ApplyReordering`) or not at all
(`DropInFlight`). In `PdcpTx` the stored SDU is its age in ticks: it stands for the
time of arrival, which is all the discard timer uses; `submitted` is what the lower
layers hold, from which late and repeated reports come (`Reportable`); `failed`
says that an assertion has ended the program (the models have assertions enabled).
`HandleSdu` has the code's exits: no copy for the window, or stored and then without a
header or not ciphered, which leaves the SDU under `TX_NEXT` for the next one to meet
(`Occupied`). `Reestablish(end)` goes through the stored SDUs up to one for which
`retransmit_all_pdus` returns. `odd` (history) names what happened out of the ordinary,
and the properties say which of it a failed assertion, an ignored report, an SDU kept
too long or one unknown to the lower layers needs.

### RlcAm

One action per entry of the two entities: `PullPdu` is the MAC's grant with so many
bytes of room, and takes a retransmission, the rest of an SDU or a new one in the
code's order; `HandleStatus` is one status report with all that the code does for
it; `PollExpires`, `ReassemblyExpires`, `ProhibitExpires` the timers;
`HandleDataPdu` the receiver's whole handling of one PDU. Bytes are the smallest
segments a grant allows; `rx_window[sn].got` is the set of bytes received and `of`
(history) the SDUs they are from. `sent` (history) lists the SDUs in the order in
which they got their sequence numbers, so that its length is the number which the
next sequence number stands for. The radio (`data`, `status`) loses PDUs, and lets
a data PDU overtake the one before it, if their numbers are less than a window apart;
reports arrive in any order. A pull resets `do_status` (`TakeStatus`) before it
exchanges the report (`SendStatus`), so that a refresh in between makes the next pull
send the report before (`spare`, which is INVALID at first); a report is trimmed to the
grant. A complete SDU of `NoBuffer` is counted as lost in place of being handed up, and
the state goes on, as in the code; the retransmission queue holds a window of entries
and drops the rest (`Fitting`).

### Timers

The owner's calls are `Create`, `Run`, `Stop` and `Release`; `Exchange`, `Store` and
`Notify` are the steps of `backend_channel::push`, so that `tick()` (`TickBegin`,
`HandleUpdate`, `HandlePostponed`, `Advance`, `Expire`) can come between any of
them. `bufs` are the three buffers, `signals` the entries of the queue. An expiry
goes to the executor as an epoch (`RunTask`), or is refused and tried again in a
later tick. When the destroy of the last owner reaches the back-end by the signal of an
earlier command, the timer can have a new owner before the last one has stored its write
buffer (`stale`). The new owner's push is then a race for that buffer (`Tear`), whose
outcome is undefined: the model ends there.

## 3. Properties and runs

Bounds. `E2Agent`: two ids, so that a request of one meets the round of another;
requests with a report and an insert action, of which either may be refused, in lists
that repeated ids let grow to three; a queue of one, which is full behind a suspended
procedure. `ExperimentRunner`: three sets of one experiment with the start in the
second, so that a set is skipped, two experiments follow each other and `CURRENT_RUN` is
above 0 (the state in which the script can pass more than one experiment, see
`runner_first_success`); two attempts. `XAppBase`: three subscriptions, so that two
refused ones share a key beside an active one.

`CHECK_DEADLOCK FALSE` is set everywhere because each system stops: a crashed or
disconnected gNB, a script that has ended, an xApp that has exited.

| run | shows |
|---|---|
| `agent` | event table, coroutines and entries agree (`ObserverMatchesTask`, `RoundsOwnTask`), report actions have their service wherever a coroutine can run but in the round of one being replaced (`ServicesInPlace`), which alone can crash the process (`CrashOnlyOnReuse`), no coroutine runs before the function is allowed (`OnlyAllowedRun`), a positive delete response is final (`DeleteIsFinal`), a subscription ends only by its delete or by a refused repetition while the association is up (`PeriodicUntilDelete`), the agent implements `SubscriptionService` (`KeepsPromise`); under fairness a waiting coroutine reports again (`KeepsReporting`) and a queued delete is answered (`DeletesAnswered`) |
| `runner` | with and without the third argument: an experiment passes only with its own results over its own stack (`ResultsAreOwn`, `StackIsOwn`), the list of failed experiments names those given up (`FailedListExact`), nothing is started once a signal is handled (`InterruptIsFinal`), the script ends whatever dies or fails (`Ends`) |
| `xapp` | an active subscription whose callback found its entry is stored under the id its indications carry (`Routed`), and its indications reach the callback (`Delivered`); a signal in a quiet moment ends the xApp with everything unsubscribed or reported as not, unless a REST call raises (`QuietStop`) |
| `e2_setup` | association refused, lost between any two steps, late or missing answers: whoever waits is woken, the agent hears of a loss at most once, a null notifier or flag is followed only after a refusal or a loss before the sender was made (`AssociationIsSound`); `stop()` completes (`StopCompletes`) |
| `pdcp_rx` | loss, copies, reordering by the radio and by the workers, timeouts: COUNTs, window bounds and timers (`StaysInStep`), delivery (`DeliveryIsExact`, `InOrder`), reports to RRC (`MaxCountIsReal`); with a finite t-Reordering every hole closes (`HolesClose`) |
| `pdcp_tx` | late and repeated reports, discards, status reports with bitmaps, failed SDUs, callbacks that wait: window, edges and timer agree and an assertion fails only for one of three named causes (`WindowIsSound`), every SDU is looked after (`EverySduIsLookedAfter`), a full window opens (`WindowOpens`) |
| `rlc` | `TransmitterIsSound`, `TransferIsReliable` and `ReceiverIsSound` over a lossy, reordering radio, with discards, old and trimmed reports, SDUs without a buffer and sequence numbers used again |
| `timers` | commands arrive (`CommandsArrive`), a run ends by one announcement (`RunsEndOnce`), the owner sees `TimerPromise` with its liveness (`KeepsPromise`), up to a `Tear` |

Bounds of the protocol entities. `PdcpRx`: eight sequence numbers in a window of
four, ten COUNTs, so that the sequence number wraps around with an HFN below and
above and the window passes over the wrap; two PDUs with the workers, enough to
swap any two and to fill the executor's queue; `Notify` and `Hard` reached by the
peer. `PdcpTx`: six sequence numbers in a window of three, nine COUNTs of which the
last is the maximum, discard after two ticks, callbacks one tick late, reports with
and without a hole; every cause in `odd` occurs. `RlcAm`: four sequence
numbers, window of two; five SDUs of one byte, so that numbers are used again, or two
SDUs of which one has two bytes and may go in segments; one
retransmission before the bearer gives up; two data PDUs and one report on the radio,
one queued SDU. Two reports on the radio at once are beyond TLC's time with these;
a retransmission queue that overflows and a `MaxWindow` are not met. There the theorems
of `RlcAmProofs`, which leave `Statuses`, `Submits` and `MaxWindow` open, are what holds.
`Timers`: six commands, so that a timer is created, runs, is released, is taken over
and runs again; two refused dispatches. `E2Setup` is bounded by itself.

States found by the passing runs: `agent` 53 thousand, `runner` 1.2 million, `xapp`
387 thousand, `pdcp_tx` 616 thousand, `timers` 134 thousand, `rlc` 2.8 million,
`e2_setup` 129.

Several invariants are conjunctions of parts that are named and commented
in the module; a part that fails is named by TLC's trace.

Runs that end in a violation, each of a statement found in the repository (quoted
in `PROJECT.json`, `findings`):

| run | statement | what happens |
|---|---|---|
| `runner_first_success` | every training set is run | `(( CURRENT_RUN++ ))` ends the script when the counter was 0 |
| `xapp_early_reply` | indications are displayed | the callback came before the entry and was dropped; the README's open issue |
| `pdcp_tx_hole` | TX_NEXT_ACK is the oldest SDU stored | a report takes an SDU from the middle, and TX_NEXT_ACK comes to rest on its COUNT |
| `rlc_lost_poll` | the expiry of t-PollRetransmit polls | a report empties the retransmission queue before a PDU can carry the poll |

Disagreements the models show without a run of their own are in section 6.

## 4. Fairness

* `E2Agent!FairSpec`: weak fairness of a callback that has begun (it runs to its
  end), strong fairness of what waits in an executor's queue (timers, the end of a
  control action, the news of a loss): the queues are first in, first out, so
  other callbacks may overtake it, but not for ever. The RIC is not fair, and a
  control action is assumed to end.
* `ExperimentRunner!FairSpec`: weak fairness of the script as a whole. Its own waits
  have timeouts and its retries limits. The `wait` of the cleanup
  (`run_enhanced.sh:272`), which is also for jobs of the traffic, and Docker's commands
  outside `timeout` have none: that they end is an assumption. The world is not fair.
* `XAppBase!FairSpec`: weak fairness of the three threads, of the manager's answer
  and of the indications of an active subscription, which the E2 node repeats.
* `E2Setup!Spec`: weak fairness of the application's thread inside `start()`, of the
  executor, of the transaction's timer and of the gateway taking down a receive
  path whose send path is gone. The RIC need not answer.
* `PdcpRx!Spec`: the crypto workers finish what they have; t-Reordering expires.
  `PdcpTx!Spec`: time passes and a due callback is run; lower layers and the peer
  may stay silent. `Timers!Spec`: the ticker ticks, a push ends, an executor runs
  its tasks.
* `RlcAm!Spec`: grants come and timers expire; strong fairness of arrivals, which
  says that the radio does not lose everything for ever (`rlc_lost_poll` fails in spite of it). A bearer that told its
  upper layer of `MaxRetx` ends there (`Patience`).

## 5. Proofs

The theorems are checked by TLAPS for every value of the constants. Assumptions of
`E2AgentProofs`: `ZeroKey` is not an id the RIC uses, `Requests` is a
set of action lists, capacity and bound are naturals.

The invariants a reader wants are not inductive one by one: that an observer has a
waiting coroutine is preserved by the end of a round only if the round's key has
its coroutine in that round, and the end of a delete can erase the entry only because of
the same; that a round of a period meets no null service needs to know that it began
with a waiting coroutine. So the theorems rest on the conjunction of `TypeOK`,
`ObserverMatchesTask`, `RoundsOwnTask`, `ServicesInPlace` and `OnlyAllowedRun`, which is
inductive with a RIC that repeats ids and subscribes before it allows the function, and
from which follow `TypeCorrect`, `ObserversMatch`, `FramesAreOwned`, `ServicesAttached`,
`OnlyAllowed` and `DeletesAreFinal`. `CrashNeedsReuse` adds to it what is on record of
ids: a queued request whose id is taken or queued twice (`RepeatsKnown`), and so the key
of a restart (`RestartKnown`), is in `reused`. `HasEvent` (a key with a coroutine has its
delete event, which is never removed, so that the loop over the periods never ends by
itself) gives `RunsUntilDelete`; and action by action `PromiseKept`: each step of the
agent is a step of `SubscriptionService` on `active = {k : task[k] # "none"}` or a
stutter. None of these theorems speaks of more than one worker.

`ExperimentRunnerProofs` proves `OwnResults` and
`SignalIsFinal`. What an experiment passes with is its own because of `FreshCsv`:
from the removal of the old file on, no row of before the traffic can be in the
new one, and a first row of the first seconds lies in a file made then, so the
validation's duration, which alone would also accept an old pair of rows, cannot
be met otherwise. `SignalledIsOut` keeps status 130 to the way out, where only
`Cleanup` and the world take steps.

The types, the stack and the list rest on `CountInv`: where the script is in its two
loops (`Position`), that what lies ahead of it has not been tried (`AheadUntried`),
what has been recorded of each experiment it is past (`Accounts`), and which
processes can be left from an earlier attempt at each step (`OwnStack`). It is
inductive and gives `TypeCorrect`, `OwnStackOnly` and `ListIsExact`.

`XAppBaseProofs` proves `TypeCorrect` and `RoutesHold` for finitely many
subscriptions. `Routed` needs `FreshTraceless` (nothing is left of what nobody has
asked for) and `CallIsOwn`: what `subscribe` is about is not in the dict, not in
the HTTP thread's hands and not yet mapped, so storing it cannot undo a mapping.

`TimersProofs` needs to know who holds a command, and what that means for
everybody else: `Phases` (where in a tick the back-end can be), `Epochs` (no epoch in
the buffers, tasks or the list of failed ones is above `cmd_id`, and none is equal to
it before the last command was taken), `Owners` (a timer that changes hands has no
command left in its buffers, and its last owner at most its write buffer to store) and
`Served`. With `NoLostCommand`, the count of signals, they
make the inductive `IInv`, from which follow `CommandsAlwaysArrive`,
`RunsAlwaysEndOnce` and `PromiseKept`: every step of the manager is a step of
`TimerPromise` or a stutter. All three hold up to a `Tear`, after which nothing is
claimed and the model takes no step.

`PdcpRxProofs` takes the number space, the window, the limits and the configurations
as they are assumed in the module, and shows that the COUNT inferred is the peer's:
with `sent <= rx_deliv + Window` and a PDU of the last `Window` ones, the PDU lies
within half the number space of `RX_DELIV`, where its number decides the HFN
(arithmetic lemmas on SN and HFN, stated once). `IInv` adds to `StaysInStep` and
`DeliveryIsExact` only that what is in flight was sent and is below the maximum
COUNT (`InFlightKnown`), and that only a finite t-Reordering runs. From it
follow `AlwaysInStep`, `AlwaysExact`, `AlwaysInOrder` and `MaxCountAlwaysReal`.

`PdcpTxProofs` has two layers. Whatever the peer and the lower layers report, whatever
fails and however late callbacks run, `IInv` is inductive: the types, the order of the
edges (`Edges`), ages that fall along the window and stop at `Off` (`AgesFall`), no timer
without a discardTimer, that the lower layers have only what was numbered and, of an AM
bearer, all that was sent and is stored unless a retransmission was cut short
(`NothingStranded`). It gives `EdgesKeepOrder`, `EstimateAlwaysExact` and `NeverStranded`.
The second layer, `WInv`, says what each cause in `odd` is needed for: without a hole the
window is `Contiguous` from TX_NEXT_ACK to TX_NEXT; with a finite discardTimer an entity
that has not failed has TX_NEXT_ACK stored even after a hole (`EdgeStored`), hence
`NextAckAlwaysStored`; while no callback came late, the one timer ends no later than the
discardTimer of every SDU that was sent (`TimerCovers`), so that the time left to the
next one is never negative. From it follow `WindowAlwaysSound` and `SdusLookedAfter`,
which restrict neither reports, failures nor delays.

`RlcAmProofs` meets the difficulty that a sequence number says which SDU it is only
for those who know how often numbers have wrapped around. Its invariant therefore
speaks of the numbers behind them: `IInv` says that there are numbers

    ack <= next <= missing <= highest <= Begun <= ack + Window

whose sequence numbers are TX_NEXT_ACK, RX_NEXT, RX_HIGHEST_STATUS and
RX_NEXT_HIGHEST, `Begun` being how many SDUs have been given one. About them it says
which slots the two windows have and of which SDU (`TxWindow`, `RxWindow`), that the
retransmission queue asks only for what went out (`RetxQueue`), that t-Reassembly
watches a number of which something came (`Trigger`, `GapIsWatched`), that a report,
trimmed or old, acknowledges only what the receiver has and misses only what it missed
when the report was made (`Reports`), that a PDU is never so far
behind that its number is taken for another (`Radio`, from the order on the radio
and the window), and that the numbers below RX_NEXT and the complete ones were
put together, each once and of one SDU (`History`). Three arithmetic lemmas on the
modulus (a number is known from its SN within a span of the number space; what is
ahead of an edge; what is behind it) carry every comparison the code makes on
sequence numbers. A window of at least
two and a number space of twice the window (`window_size` of `rlc_config.h`) are all that is
assumed: lengths, grants, limits, `MaxWindow`, and the PDUs and reports on the radio
are arbitrary. From `NumbersBehindTheSns` follow
`TransmitterAlwaysSound`, `TransferAlwaysReliable` and `ReceiverAlwaysSound`.

`E2SetupProofs` counts on an association being lost once (`OneLoss`): the loss is
queued or handled as soon as the receive path is down (`LossFollows`), its handler
alone tells the agent (`ToldOnce`), and the setup procedure is scheduled only after
`connect_to_ric`, so that it finds a null notifier only after a refusal
(`SetupHasChannel`), and a null flag only with an `orphan`. With `NoLostWakeup` these are inductive and give
`AssociationAlwaysSound`.

Each proof of an invariant has one lemma or step per action and under it one step
per conjunct the action can disturb; lemmas about the operators (`Attached`,
`EncodedIds`, admissions) are stated once and cited.

Every safety invariant and every action property that a passing run checks is the
conclusion of a theorem. Only model-checked is what needs fairness or ENABLED,
which are outside the prover's reach: `KeepsReporting` and `DeletesAnswered` of
`E2Agent`, `Ends` of `ExperimentRunner`, `Delivered` and `QuietStop` of `XAppBase`,
`StopCompletes` of `E2Setup`, `HolesClose` of `PdcpRx`, `WindowOpens` of `PdcpTx`,
and of the promise of `Timers` that an announcement
comes in the end (its safety is `TimersProofs!PromiseKept`).

## 6. Limits, abstractions, disagreements

### Not modelled, and abstractions to know of

* Contents of messages, ASN.1, ciphers, logging, metrics, pcap. Report periods:
  every period may end at any moment, in any order. Memory exhaustion of
  `byte_buffer`, but for the copy that PDCP keeps of an AM bearer's SDU.
* More than one worker in the non-real-time pool (4 by default,
  `srs/apps/services/worker_manager/worker_manager_appconfig.h:42`). The receive executor
  and the E2 executor then run at the same time in code that has no lock: the event
  source is a check and then an act (`async_event_source.h:52-62` and `90-95`), so that a
  delete and an expiry can both resume one coroutine; an expiry between the steps of a
  setup (`e2_subscription_manager_impl.cpp:161-163`) runs over actions without a service.
  These are data races, whose outcomes are not orders of the source's steps: `E2Agent`
  claims nothing of them, and its theorems are about one worker.
* A second RAN function: RC admits no action, so a request for it is one that is
  refused (`SetupRejected`).
* `MaxActions` bounds how often a RIC repeats an id; it bounds the input only.
* In the runner: the state file (written, never read), pids, log contents but for the
  lines that are waited for, the time between retries. In the xApp: a dict resize that
  makes an iteration skip entries without an exception; one signal, not several.
* The SCTP client: an IO event on a socket whose `io_sub` was reset before `connect`
  assigned it (`sctp_network_client_impl.cpp:267`).
* PDCP: `PdcpTx` is a DRB; an SRB has no timer and takes the same path without
  notifications that matter to it. A stored SDU is found by its exact COUNT. `Late`
  bounds by how much a callback is overtaken; the theorems leave it open.
* RLC: `pollPDU` and `pollByte` off; NACK ranges expanded to single NACKs; the limit
  on NACKs per report (`max_nof_sn_per_status`) never reached; a report is computed
  when it is sent, the code keeps it up to date for that moment; a PDU is never so late that its number is used again when it
  arrives (`Near`), and a report never so old that the transmitter has moved on by a
  window since (`Timely`; a report exactly a window old would pass the check of ACK_SN at
  678): the lower layers' HARQ guarantees both in practice, and no code here checks. The transmitter's executors are one thread. UM and TM are left out.
* Timers: one timer; the identity of timers in the pool has no effect on it. A timer's
  callback that is replaced or cleared while it executes (`timers.cpp:529`) is not
  modelled. What a `Tear` does to the buffers is undefined; the only guard of the code
  is the check at `timers.cpp:173`, which a release build leaves out.
* E2 setup: retry never happens in the code (below); `request_stop` and several
  transactions at once do not occur in the agent.
* The upstream gNB beside these (CU-CP, F1AP, MAC, PHY), the srsRAN-4G UE, the images
  of the RIC, the flow graph, the ML models, the notebook: each is upstream or
  numerical code, for the most part generated (ASN.1), and not the measurement path.

### Disagreements shown by the models

Those without a run of their own are an action or a guard of the module named, and the
properties of section 3 are stated so that they hold beside it.

E2 agent and its association (`E2Agent`, `E2Setup`)

* A request with a live subscription's id adds actions without a service to the list
  that the coroutine which is being replaced goes through once more: the process ends
  (`RoundCrash`). If it is refused, it erases the subscription, whose indication procedure
  does not then run until its delete request. Requests behind a suspended procedure are
  not answered when the association is lost.
* `start()` does not look at the result of the connection request (`e2_entity.cpp:57`)
  and the setup procedure sends through a null notifier (`e2_impl.cpp:104`). A loss
  between the registration of the socket and the making of the sender (`CreateSender`)
  leaves the sender a null flag.
* An E2 setup failure is never retried, though the log line speaks of a time to wait.
* A loss between two steps of `connect_to_ric` leaves `connected_flag` set and the
  agent is not told. A setup response after the transaction's time still allows
  functions, beside the warning about an unrecognised transaction. A requested
  shutdown does not tell the agent, because it resets the send side first.

xApp and runner (`XAppBase`, `ExperimentRunner`)

* An exception in the signal handler, of the dict's iteration or of the REST call, is
  swallowed and the xApp goes on with its subscriptions active; an xApp stopped while a subscription is in flight leaves it active.
* A running collector's file, with its header, can be the one just removed. The
  messages "failed after $((MAX_RETRIES + 1)) attempts" (`run_enhanced.sh:1131`) and
  "(... retries)" (1208) count one too many: the script gives up after `MAX_RETRIES`
  attempts (`AttemptFailed`), with a count of one more. A single
  requested experiment ends with status 0 after a permanent failure.

PDCP (`PdcpTx`, `PdcpRx`)

* Hole (`pdcp_tx_hole`). SDUs 0 and 1 are stored; a status report (FMC 0, bitmap with 1)
  discards 1; the delivery notification of 0 makes `TX_NEXT_ACK` 1, which is not
  stored. With a finite timer the assertion of the window fails; without one every
  later report is ignored (`has_sn` is false) until the SDU before it is discarded by
  other means.
* Late. The callback of the expired timer waits in its queue for a tick while a
  notification of the lower layers is handled: the time that is left to the next SDU is
  an unsigned difference (line 888), huge when it is past, and the assertion on a timer's
  maximum (`timers.cpp:236`) fails. Delays add up: an SDU that a late callback left behind
  is late by both.
* Unsent. `handle_sdu` returns after the SDU was stored (230-235, 240-245): the next SDU
  is added under the same COUNT, and the window's assertion fails. Cut.
  `retransmit_all_pdus` returns at the first SDU it cannot send (556-589) and leaves the
  rest to nobody.
  `AssertFailsForCause`, `NextAckIsStored`, `NobodyOverstays` and `NothingStranded` say
  which of these causes each of them needs, and hold otherwise.
* `discard_pdu` and a UM re-establishment leave the timer running, so it may expire
  early for the SDU it now serves; the callback looks at the SDU at `TX_NEXT_ACK`
  and discards it, before its time. `NobodyOverstays` bounds the other side only.
* The receiver never writes `sdu_info.count`: the comparison at
  `pdcp_entity_rx.cpp:368` holds only by the window's own key. The maximum-COUNT flags
  survive a re-establishment, and PDUs in flight over `stop()` may start t-Reordering
  again (its expiry then does nothing).

RLC AM (`RlcAm`)

* Lost poll (`rlc_lost_poll`). t-PollRetransmit expires with nothing else to send: the SDU
  at `TX_NEXT_ACK` is queued again and the next PDU shall poll. Before the next grant a
  status report that was under way acknowledges this SDU and empties the
  retransmission queue (`rlc_tx_am_entity.cpp:779`). No PDU is left to carry the poll and
  no timer runs: an SDU behind it that was lost is not sent again until a new SDU comes,
  against the comment at 1207. PDCP can bring this about too, by taking back the only
  SDU queued; and without any timer, where the last PDU of SDU A goes out without a poll
  because B is queued and PDCP then discards B, A stays with no timer and no poll owed.
* A dropped SDU is acknowledged (`rlc_rx_am_entity.cpp:218-222`): `AckedIsDelivered`
  counts it as dropped, as the code's metric of lost PDUs does. A full retransmission
  queue drops a NACK or the retransmission of an expiry with no more than a log line.
* `StopsReassembly`: TS 38.322 also asks that the trigger be not equal to
  RX_Next + AM_Window_Size; the code (`rlc_rx_am_entity.cpp:285-312`) quotes that and
  leaves it out. The timer is then started again in the same call: time is lost, and
  nothing else (`ReceiverIsSound` holds).
* Outside the model: the results of `ue_executor.defer` at 917, 924 and 932 are taken
  the wrong way around (an error is logged when the task was accepted), and a refused
  defer leaves t-StatusProhibit's flag set (`rlc_rx_am_entity.cpp:650`) or a buffer
  state unreported (988).

## 7. Plan

Done: 1. `E2Agent` with `SubscriptionService`, refinement and safety proofs.
2. `ExperimentRunner`. 3. `XAppBase`. 4. `E2Setup`. 5. `PdcpRx` with proofs, `PdcpTx`.
6. `RlcAm`. 7. `Timers` with `TimerPromise`, refinement and proofs. 8. Safety proofs
of `PdcpTx`, `RlcAm` and `E2Setup`.

What is left, in order:

* `KpmReports`: report services of the five styles over the measurement provider,
  readiness against collection; an abstract `ReportService` it implements.
* `RicControl`: control services and the aggregation of style 255.
* `Detector`: buffer and cascade aggregation as operators against a reference.
* `KpmLoop`: `E2Agent`, the manager and `XAppBase` composed, end to end from
  `subscribe()` to the callback, with losses and restarts.
* `Campaign`: abstract specification of a run of experiments, refined by
  `ExperimentRunner`; the generators' assignment of profiles.
* RLC in unacknowledged mode; PDCP and RLC composed over `Timers`.
