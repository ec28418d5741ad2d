-------------------------- MODULE ExperimentRunner --------------------------
(***************************************************************************)
(* The experiment runner (run_enhanced.sh): it brings up the near-RT RIC,  *)
(* the 5G core, the gNB, the UEs and the GNU Radio channel, runs traffic,  *)
(* validates the metrics file and tears everything down, with retries      *)
(* inside an attempt, several attempts per experiment and a trap for       *)
(* signals.  Beside it run the processes it started, which may die at any  *)
(* time, and the metrics collector (kpm5_xapp.py), which the operator      *)
(* starts in the xApp container: that has the metrics directory of the     *)
(* experiment it was created for.                                          *)
(*                                                                         *)
(* Time is a few moments: the file of a collector counts as an experiment  *)
(* of 480 +- 10 s when its first row is from the first seconds of the      *)
(* traffic and its last row from the last ones.                            *)
(***************************************************************************)
EXTENDS Integers, FiniteSets

CONSTANTS
    TrainingSets,   \* TOTAL_TRAINING_SETS: sets 0 .. TrainingSets - 1
    Experiments,    \* TOTAL_EXPERIMENTS: experiments 1 .. Experiments of a set
    StartSet, StartExp,   \* the first two arguments
    MaxRetries      \* MAX_RETRIES

ASSUME SizesAssumption ==
    /\ TrainingSets \in Nat /\ Experiments \in Nat
    /\ MaxRetries \in Nat \ {0}
ASSUME ArgumentsAssumption ==
    StartSet \in Nat /\ StartExp \in Nat \ {0}

VARIABLES
    onlyOne,    \* a third argument is given
    pc,         \* where the script is
    tr, exp,    \* CURRENT_TR, CURRENT_EXP
    retry,      \* current_retry
    tries,      \* attempts of retry_with_backoff at the gNB
    counts,     \* RETRY_COUNTS: 0 where the array has no key
    runs,       \* CURRENT_RUN
    proc,       \* what runs: not at all, since an earlier attempt, or this one
    xapp,       \* an xApp container with the METRICS_PATH of this experiment:
                \* "none", "idle", or "collects" with the operator's collector
    csv,        \* kpm_style5_metrics.csv of the experiment
    code,       \* exit status, -1 before
    tried,      \* attempts made at every experiment
    outcome     \* how every experiment ended

script == <<onlyOne, pc, tr, exp, retry, tries, counts, runs, code, tried, outcome>>
vars == <<script, proc, xapp, csv>>

Sets == 0..(TrainingSets - 1)
All == {s \in Sets \X (1..Experiments) :
          s[1] > StartSet \/ (s[1] = StartSet /\ s[2] >= StartExp)}
Here == <<tr, exp>>

\* "radio" is the GNU Radio process, "iperf" the jobs that make the traffic.
Stack == {"ric", "core", "metrics", "gnb", "ue", "radio"}
Parts == Stack \cup {"iperf"}

Traffic == {"early", "middle", "end"}
Steps == {"ric", "core", "ports", "gnb", "gnb_wait", "ue", "radio", "connect", "clear"}
Moments == {"none", "old", "before"} \cup Traffic
Moment == IF pc \in Traffic THEN pc ELSE IF pc \in Steps THEN "before" ELSE "end"

\* made: when the file was created; first, last: its oldest and newest row.
Csv == [made : Moments, header : BOOLEAN, first : Moments, last : Moments]
NoCsv == [made |-> "none", header |-> FALSE, first |-> "none", last |-> "none"]
OldCsv == [made |-> "old", header |-> TRUE, first |-> "old", last |-> "old"]

TypeOK ==
    /\ onlyOne \in BOOLEAN
    /\ pc \in Steps \cup Traffic \cup {"loop", "attempt", "passed", "failed",
                "retry", "finish", "trap", "exit", "ended"}
    /\ tr \in Nat /\ exp \in Nat
    /\ retry \in 0..(MaxRetries + 1) /\ tries \in 0..2
    /\ counts \in [All -> 0..(MaxRetries + 1)] /\ tried \in [All -> 0..MaxRetries]
    /\ outcome \in [All -> {"none", "ok", "failed"}]
    /\ runs \in Nat /\ code \in {-1, 0, 1, 130}
    /\ proc \in [Parts -> {"off", "old", "cur"}]
    /\ xapp \in {"none", "idle", "collects"}
    /\ csv \in Csv

\* A script that was killed may have left anything running: all of it, or what has
\* not died since.
Init ==
    /\ onlyOne \in BOOLEAN
    /\ pc = "loop" /\ tr = StartSet /\ exp = StartExp
    /\ retry = 0 /\ tries = 0
    /\ counts = [s \in All |-> 0] /\ tried = counts
    /\ runs = StartSet * Experiments + StartExp - 1
    /\ proc \in {[p \in Parts |-> "off"], [p \in Parts |-> "old"]}
    /\ xapp = "none" /\ csv = NoCsv
    /\ code = -1
    /\ outcome = [s \in All |-> "none"]

Up(p) == proc[p] # "off"

-----------------------------------------------------------------------------
(* main_experiment_loop                                                     *)

\* The two for loops: the next experiment of the set, the next set, the end.  An
\* earlier script may have left a metrics file of the experiment and, before the
\* first one, its container; one of this script's is of another experiment.
NextExperiment ==
    /\ pc = "loop" /\ tr < TrainingSets
    /\ IF exp > Experiments
       THEN /\ tr' = tr + 1 /\ exp' = 1
            /\ UNCHANGED <<pc, retry, xapp, csv>>
       ELSE /\ pc' = "attempt" /\ retry' = counts[Here] + 1
            /\ csv' \in {NoCsv, OldCsv}
            /\ \/ xapp' = "none"
               \/ (\A s \in All : tried[s] = 0) /\ xapp' \in {"idle", "collects"}
            /\ UNCHANGED <<tr, exp>>
    /\ UNCHANGED <<onlyOne, tries, counts, runs, proc, code, tried, outcome>>

Summary ==
    /\ pc = "loop" /\ tr >= TrainingSets
    /\ pc' = "exit" /\ code' = 0
    /\ UNCHANGED <<onlyOne, tr, exp, retry, tries, counts, runs, proc, xapp, csv, tried, outcome>>

\* run_single_experiment begins; what still runs is from an earlier attempt.
Attempt ==
    /\ pc = "attempt"
    /\ pc' = "ric"
    /\ tried' = [tried EXCEPT ![Here] = @ + 1]
    /\ proc' = [p \in Parts |-> IF Up(p) THEN "old" ELSE "off"]
    /\ csv' = IF csv.made = "none" THEN csv
              ELSE [csv EXCEPT !.made = "old",
                               !.first = IF @ = "none" THEN @ ELSE "old",
                               !.last = IF @ = "none" THEN @ ELSE "old"]
    /\ UNCHANGED <<onlyOne, tr, exp, retry, tries, counts, runs, xapp, code, outcome>>

\* Variant: one attempt too many.
AttemptFailedOffByOne ==
    /\ pc = "failed"
    /\ retry' = retry + 1
    /\ counts' = [counts EXCEPT ![Here] = retry + 1]
    /\ IF retry <= MaxRetries
       THEN pc' = "retry" /\ UNCHANGED outcome
       ELSE pc' = "finish" /\ outcome' = [outcome EXCEPT ![Here] = "failed"]
    /\ UNCHANGED <<onlyOne, tr, exp, tries, runs, proc, xapp, csv, code, tried>>

\* Variant: no cleanup between two attempts.
AttemptFailedNoCleanup ==
    /\ pc = "failed"
    /\ retry' = retry + 1
    /\ counts' = [counts EXCEPT ![Here] = retry + 1]
    /\ IF retry + 1 <= MaxRetries
       THEN pc' = "attempt" /\ UNCHANGED outcome
       ELSE pc' = "finish" /\ outcome' = [outcome EXCEPT ![Here] = "failed"]
    /\ UNCHANGED <<onlyOne, tr, exp, tries, runs, proc, xapp, csv, code, tried>>

AttemptFailed ==
    /\ pc = "failed"
    /\ retry' = retry + 1
    /\ counts' = [counts EXCEPT ![Here] = retry + 1]
    /\ IF retry + 1 <= MaxRetries
       THEN pc' = "retry" /\ UNCHANGED outcome
       ELSE pc' = "finish" /\ outcome' = [outcome EXCEPT ![Here] = "failed"]
    /\ UNCHANGED <<onlyOne, tr, exp, tries, runs, proc, xapp, csv, code, tried>>

\* Variant: the key of an experiment that passed stays in RETRY_COUNTS.
PassedKeepsCount ==
    /\ pc = "passed"
    /\ outcome' = [outcome EXCEPT ![Here] = "ok"]
    /\ runs' = runs + 1
    /\ IF runs = 0 THEN pc' = "exit" /\ code' = 1 ELSE pc' = "finish" /\ code' = code
    /\ UNCHANGED <<onlyOne, tr, exp, retry, tries, counts, proc, xapp, csv, tried>>

\* (( CURRENT_RUN++ )) has status 1 when the old value is 0, and set -e is on.
Passed ==
    /\ pc = "passed"
    /\ outcome' = [outcome EXCEPT ![Here] = "ok"]
    /\ runs' = runs + 1
    /\ IF runs = 0
       THEN pc' = "exit" /\ code' = 1 /\ UNCHANGED counts
       ELSE pc' = "finish" /\ counts' = [counts EXCEPT ![Here] = 0] /\ UNCHANGED code
    /\ UNCHANGED <<onlyOne, tr, exp, retry, tries, proc, xapp, csv, tried>>

-----------------------------------------------------------------------------
(* run_single_experiment                                                    *)

\* The script goes from one step to the next, or the attempt fails.
Go(step) == pc' = step /\ UNCHANGED <<onlyOne, tr, exp, retry, tries, counts, runs, code, tried, outcome>>
GoOrFail(step) == Go(step) \/ Go("failed")
Started(p) == proc' = [proc EXCEPT ![p] = "cur"]
Kept(p) == proc' = [proc EXCEPT ![p] = IF @ = "off" THEN "cur" ELSE @]

\* "docker compose up -d" keeps a container that runs, in any attempt, but replaces
\* the one of the xApps when its METRICS_PATH is not that of this experiment.
XappUp == xapp' = IF xapp = "none" THEN "idle" ELSE xapp

StartRic ==
    /\ pc = "ric"
    /\ \/ Kept("ric") /\ XappUp /\ GoOrFail("core")
       \/ UNCHANGED proc /\ (XappUp \/ UNCHANGED xapp) /\ Go("failed")
    /\ UNCHANGED csv

StartCore ==
    /\ pc = "core"
    /\ \/ Kept("core") /\ GoOrFail("ports")
       \/ UNCHANGED proc /\ Go("failed")
    /\ UNCHANGED <<xapp, csv>>

\* check_and_free_zmq_ports: who can be seen on a port is killed, unless two
\* processes share it (kill -9 of two lines of pids fails).  Only root sees the
\* gNB and the UEs.
FreePorts ==
    /\ pc = "ports"
    /\ \/ /\ proc' = [proc EXCEPT !["radio"] = "off"]
          /\ Go("gnb")
       \/ /\ Up("radio") => ~Up("gnb")
          /\ proc' = [proc EXCEPT !["radio"] = "off", !["gnb"] = "off", !["ue"] = "off"]
          /\ Go("gnb")
       \/ /\ Up("radio") /\ Up("gnb")
          /\ UNCHANGED proc
          /\ Go("failed")
    /\ UNCHANGED <<xapp, csv>>

\* Variant: the attempts are not counted.
NextTryForever == pc' = "gnb" /\ UNCHANGED tries

\* An attempt of retry_with_backoff at start_gnb is over without success.
NextTry ==
    IF tries < 1
    THEN pc' = "gnb" /\ tries' = tries + 1
    ELSE pc' = "failed" /\ tries' = 0

\* start_gnb up to the new tmux session: the metrics server, then the gNB.  A
\* metrics port two processes share cannot be freed.
StartGnb ==
    /\ pc = "gnb"
    /\ \/ /\ Up("metrics") /\ Up("gnb")
          /\ NextTry /\ UNCHANGED proc
       \/ /\ proc' = [proc EXCEPT !["metrics"] = "off"]
          /\ NextTry
       \/ /\ proc' = [proc EXCEPT !["metrics"] = "cur", !["gnb"] = "cur"]
          /\ pc' = "gnb_wait" /\ UNCHANGED tries
    /\ UNCHANGED <<onlyOne, tr, exp, retry, counts, runs, xapp, csv, code, tried, outcome>>

\* wait_for_gnb_connection finds two lines in the gNB's log; that the gNB, the
\* core and the RIC still run is not looked at.
GnbConnected ==
    /\ pc = "gnb_wait"
    /\ pc' = "ue" /\ tries' = 0
    /\ UNCHANGED <<onlyOne, tr, exp, retry, counts, runs, proc, xapp, csv, code, tried, outcome>>

GnbTimeout ==
    /\ pc = "gnb_wait"
    /\ NextTry
    /\ UNCHANGED <<onlyOne, tr, exp, retry, counts, runs, proc, xapp, csv, code, tried, outcome>>

\* Bridge, namespaces, which are kept where they are there already, and route;
\* start_ue replaces the session of a UE.
StartUes ==
    /\ pc = "ue"
    /\ \/ Started("ue") /\ GoOrFail("radio")
       \/ UNCHANGED proc /\ Go("failed")
    /\ UNCHANGED <<xapp, csv>>

\* The scenario script starts GNU Radio, and the pid it wrote is checked.
StartRadio ==
    /\ pc = "radio"
    /\ \/ Started("radio") /\ GoOrFail("connect")
       \/ UNCHANGED proc /\ Go("failed")
    /\ UNCHANGED <<xapp, csv>>

\* wait_for_ue_connection finds two lines in the log of each UE or its timeout
\* passes; then the routes, whose failures are warnings.
ConnectUes ==
    /\ pc = "connect"
    /\ GoOrFail("clear")
    /\ UNCHANGED <<proc, xapp, csv>>

\* start_and_wait_for_iperf: the jobs run and are waited for; there is no script
\* of any UE; or the first of them cannot be started.
StartTraffic ==
    \/ Started("iperf") /\ Go("early")
    \/ UNCHANGED proc /\ Go("end")
    \/ UNCHANGED proc /\ Go("failed")

\* Variant: the metrics file of an earlier attempt is left in place.
ClearMetricsNot ==
    /\ pc = "clear"
    /\ StartTraffic
    /\ UNCHANGED <<xapp, csv>>

\* The old metrics file is removed, "Metrics collection is healthy" is printed
\* and the traffic starts.
ClearMetrics ==
    /\ pc = "clear"
    /\ csv' = NoCsv
    /\ StartTraffic
    /\ UNCHANGED xapp

TrafficGoesOn ==
    /\ pc \in {"early", "middle"}
    /\ Go(IF pc = "early" THEN "middle" ELSE "end")
    /\ UNCHANGED <<proc, xapp, csv>>

\* The jobs are sent a signal, which sudo's may not take from the user, and then
\* validate_experiment_completion: a header with Timestamp, rows, and a duration
\* that can be 480 +- 10 s.
LooksComplete ==
    /\ csv.made # "none" /\ csv.header
    /\ \/ csv.first \in {"before", "early"} /\ csv.last = "end"
       \/ csv.first = "old" /\ csv.last = "old"

Validate ==
    /\ pc = "end"
    /\ \/ LooksComplete /\ Go("passed")
       \/ Go("failed")
    /\ proc' \in {proc, [proc EXCEPT !["iperf"] = "off"]}
    /\ UNCHANGED <<xapp, csv>>

-----------------------------------------------------------------------------
(* cleanup, the traps and what happens beside the script                    *)

\* Where the script goes on after a cleanup.
AfterCleanup ==
    CASE pc = "retry" -> pc' = "attempt" /\ UNCHANGED <<exp, code>>
      [] pc = "finish" /\ ~onlyOne -> pc' = "loop" /\ exp' = exp + 1 /\ code' = code
      [] pc = "finish" /\ onlyOne -> pc' = "exit" /\ exp' = exp /\ code' = 0
      [] pc = "trap" -> pc' = "exit" /\ exp' = exp /\ code' = 130
      [] pc = "exit" -> pc' = "ended" /\ UNCHANGED <<exp, code>>

Cleaning == pc \in {"retry", "finish", "trap", "exit"}

\* cleanup(): sessions, pids and ports end the processes, "compose down" or its
\* fallback the services.  The fallback, after 30 s, stops the containers whose
\* name has "ric", which the one of the xApps has not.
\* An iPerf job of root may refuse the signal: "wait" then waits for those of this
\* script, and one of an earlier script goes on.
CleanUp ==
    /\ \E iperf \in {"off"} \cup ({proc["iperf"]} \ {"cur"}) :
          proc' = [[p \in Parts |-> "off"] EXCEPT !["iperf"] = iperf]
    /\ xapp' \in {xapp, "none"}
    /\ UNCHANGED <<onlyOne, tr, retry, tries, counts, runs, csv, tried, outcome>>

\* Variant: the signal handler does not end the script.
CleanupForgetsExit ==
    /\ Cleaning
    /\ CleanUp
    /\ IF pc = "trap"
       THEN pc' = "attempt" /\ code' = 130 /\ UNCHANGED exp
       ELSE AfterCleanup

Cleanup ==
    /\ Cleaning
    /\ CleanUp
    /\ AfterCleanup

\* INT or TERM, once: the trap of INT and TERM exits, which runs the one of EXIT.
Interrupt ==
    /\ pc \notin {"trap", "ended"} /\ code # 130
    /\ pc' = "trap"
    /\ UNCHANGED <<onlyOne, tr, exp, retry, tries, counts, runs, proc, xapp, csv, code, tried, outcome>>

\* A process or container the script started goes away by itself.
Dies(p) ==
    /\ Up(p) /\ pc # "ended"
    /\ proc' = [proc EXCEPT ![p] = "off"]
    /\ UNCHANGED <<script, xapp, csv>>

\* KpmStyle5Xapp: _write_csv_header writes the header if there is no file ...
CollectorStarts ==
    /\ xapp = "idle" /\ pc # "ended"
    /\ xapp' = "collects"
    /\ csv' = IF csv.made = "none"
              THEN [csv EXCEPT !.made = Moment, !.header = TRUE] ELSE csv
    /\ UNCHANGED <<script, proc>>

\* ... and subscription_callback opens the file to append to it.
CollectorWrites ==
    /\ xapp = "collects" /\ Up("ric") /\ Up("gnb")
    /\ csv' = [csv EXCEPT !.made = IF @ = "none" THEN Moment ELSE @,
                          !.first = IF @ = "none" THEN Moment ELSE @,
                          !.last = Moment]
    /\ UNCHANGED <<script, proc, xapp>>

\* The operator ends the collector, or the container goes.
CollectorStops ==
    /\ pc # "ended"
    /\ \/ xapp = "collects" /\ xapp' = "idle"
       \/ xapp # "none" /\ xapp' = "none"
    /\ UNCHANGED <<script, proc, csv>>

-----------------------------------------------------------------------------
Loop == NextExperiment \/ Summary \/ Attempt \/ AttemptFailed \/ Passed
Experiment ==
    \/ StartRic \/ StartCore \/ FreePorts \/ StartGnb \/ GnbConnected \/ GnbTimeout
    \/ StartUes \/ StartRadio \/ ConnectUes \/ ClearMetrics \/ TrafficGoesOn \/ Validate
Script == Loop \/ Experiment \/ Cleanup
World ==
    \/ Interrupt
    \/ \E p \in Parts : Dies(p)
    \/ CollectorStarts \/ CollectorWrites \/ CollectorStops

Next == Script \/ World

Spec == Init /\ [][Next]_vars

\* Every command of the script ends: its own waits have timeouts and its retries a
\* limit.  Docker's commands and the "wait" for the jobs of the script have none,
\* and are taken to end.
FairSpec == Spec /\ WF_vars(Script)

-----------------------------------------------------------------------------
(* Properties                                                               *)

\* The results an experiment passes with are its own: the metrics file was
\* created during the traffic of the attempt that passed, and its first row is
\* from the first seconds of it (run_single_experiment's rm and
\* validate_experiment_completion against the collector's file handling).
ResultsAreOwn ==
    pc = "passed" => /\ csv.made = "early" /\ csv.header
                     /\ csv.first = "early" /\ csv.last = "end"

\* The traffic runs over what this attempt started: no gNB, UE, channel or
\* metrics server of an earlier attempt or of a killed script, and a RIC or core
\* from before only in the first attempt of all (cleanup between attempts,
\* start_gnb's and start_ue's replacement of sessions).
StackIsOwn ==
    pc \in {"clear"} \cup Traffic =>
        \A p \in Stack : proc[p] = "old" =>
            p \in {"ric", "core"} /\ \A s \in All : tried[s] = IF s = Here THEN 1 ELSE 0

\* The summary names as failed exactly the experiments that were given up:
\* RETRY_COUNTS has no key for one that passed, on whichever attempt, nor for one
\* that was never tried (main_experiment_loop's counting and unset).
FailedListExact ==
    pc = "exit" /\ code = 0 =>
        \A s \in All : counts[s] # 0 <=> outcome[s] = "failed"

\* Once a signal is being handled nothing is started any more and no experiment
\* is tried: the trap exits.
InterruptIsFinal ==
    [][pc = "trap" \/ code = 130 =>
          /\ tried' = tried
          /\ \A p \in Parts : ~Up(p) => proc'[p] = "off"]_vars

\* Whatever dies and whatever fails, the script comes to its end.
Ends == <>(pc = "ended")

\* A script that is neither interrupted nor asked for a single experiment tries
\* every experiment from its start on ("Training Sets: $START_TR to ...", "All
\* experiments completed!").
AllTried ==
    pc = "ended" /\ code # 130 /\ ~onlyOne => \A s \in All : outcome[s] # "none"
=============================================================================
