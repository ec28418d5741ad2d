----------------------- MODULE ExperimentRunnerProofs -----------------------
(***************************************************************************)
(* Theorems about ExperimentRunner, for any number of sets, experiments    *)
(* and attempts: types, whose results an experiment passes with and over   *)
(* whose stack, which experiments the list of failed ones names and that a *)
(* signal is final.                                                        *)
(***************************************************************************)
EXTENDS ExperimentRunner, TLAPS

CsvTyped == csv \in Csv

ProcTyped == proc \in [Parts -> {"off", "old", "cur"}]

\* Since the old file was removed nothing old can have come into the new one.
\* A first row of the first seconds is in a file of the first seconds, because
\* whoever writes a row finds the file or makes it.
FreshCsv ==
    /\ pc = "early" => csv.made \in {"none", "early"}
    /\ pc \in Traffic =>
          /\ csv.first \notin {"old", "before"}
          /\ csv.last # "old"
          /\ csv.first = "early" => csv.made = "early"

\* Status 130 is set on the way out only.
SignalledIsOut == code = 130 => pc \in {"exit", "ended"}

Inv ==
    /\ CsvTyped /\ ProcTyped /\ FreshCsv /\ SignalledIsOut
    /\ ResultsAreOwn

LEMMA MomentTyped == Moment \in Moments
  BY DEF Moment, Moments, Traffic, Steps

LEMMA InitInv == Init => Inv
  BY DEF Init, Inv, CsvTyped, ProcTyped, FreshCsv, SignalledIsOut, ResultsAreOwn,
         Csv, NoCsv, Moments, Traffic, Parts, Stack

\* main_experiment_loop.
LEMMA LoopInv == Inv /\ Loop => Inv'
<1> SUFFICES ASSUME Inv, Loop PROVE Inv'
  OBVIOUS
<1> USE DEF Inv, FreshCsv, SignalledIsOut, ResultsAreOwn, Traffic
<1>1. CASE NextExperiment
  <2>1. csv' \in {csv, NoCsv, OldCsv} /\ proc' = proc /\ code' = code
    BY <1>1 DEF NextExperiment
  <2>2. NoCsv \in Csv /\ OldCsv \in Csv
    BY DEF NoCsv, OldCsv, Csv, Moments
  <2>3. CsvTyped' /\ ProcTyped'
    BY <2>1, <2>2 DEF CsvTyped, ProcTyped
  <2>4. pc = "loop" /\ pc' \in {"loop", "attempt"}
    BY <1>1 DEF NextExperiment
  <2> QED
    BY <2>1, <2>3, <2>4 DEF Up
<1>2. CASE Summary
  BY <1>2 DEF Summary, CsvTyped, ProcTyped
<1>3. CASE Attempt
  <2>1. CsvTyped'
    <3>1. CASE csv' = csv
      BY <3>1 DEF CsvTyped
    <3>2. CASE csv' = [made |-> "old", header |-> csv.header,
                       first |-> IF csv.first = "none" THEN csv.first ELSE "old",
                       last |-> IF csv.last = "none" THEN csv.last ELSE "old"]
      BY <3>2 DEF CsvTyped, Csv, Moments
    <3> QED
      BY <1>3, <3>1, <3>2 DEF Attempt, CsvTyped, Csv
  <2>2. ProcTyped'
    BY <1>3 DEF Attempt, ProcTyped, Up
  <2> QED
    BY <1>3, <2>1, <2>2 DEF Attempt
<1>4. CASE AttemptFailed
  BY <1>4 DEF AttemptFailed, CsvTyped, ProcTyped
<1>5. CASE Passed
  BY <1>5 DEF Passed, CsvTyped, ProcTyped
<1> QED
  BY <1>1, <1>2, <1>3, <1>4, <1>5 DEF Loop

\* The steps of run_single_experiment before the traffic leave the file alone and
\* start and end processes.
Preparing ==
    \/ StartRic \/ StartCore \/ FreePorts \/ StartGnb \/ GnbConnected \/ GnbTimeout
    \/ StartUes \/ StartRadio \/ ConnectUes

LEMMA PreparingStep ==
    ASSUME ProcTyped, Preparing
    PROVE  /\ csv' = csv /\ code' = code /\ ProcTyped'
           /\ pc \in Steps /\ pc' \in Steps \cup {"failed"}
<1> USE DEF ProcTyped, Parts, Stack, Steps, Go, GoOrFail
<1>1. CASE StartRic
  BY <1>1 DEF StartRic, Kept, XappUp
<1>2. CASE StartCore
  BY <1>2 DEF StartCore, Kept
<1>3. CASE FreePorts
  BY <1>3 DEF FreePorts
<1>4. CASE StartGnb
  BY <1>4 DEF StartGnb, NextTry
<1>5. CASE GnbConnected
  BY <1>5 DEF GnbConnected
<1>6. CASE GnbTimeout
  BY <1>6 DEF GnbTimeout, NextTry
<1>7. CASE StartUes
  BY <1>7 DEF StartUes, Started
<1>8. CASE StartRadio
  BY <1>8 DEF StartRadio, Started
<1>9. CASE ConnectUes
  BY <1>9 DEF ConnectUes
<1> QED
  BY <1>1, <1>2, <1>3, <1>4, <1>5, <1>6, <1>7, <1>8, <1>9 DEF Preparing

\* run_single_experiment.
LEMMA ExperimentInv == Inv /\ Experiment => Inv'
<1> SUFFICES ASSUME Inv, Experiment PROVE Inv'
  OBVIOUS
<1> USE DEF Inv, FreshCsv, SignalledIsOut, ResultsAreOwn, Traffic, CsvTyped
<1>1. CASE Preparing
  BY <1>1, PreparingStep DEF Steps
<1>2. CASE ClearMetrics
  BY <1>2 DEF ClearMetrics, StartTraffic, Started, ProcTyped, Parts, Stack, Go, Csv, NoCsv, Moments
<1>3. CASE TrafficGoesOn
  BY <1>3 DEF TrafficGoesOn, ProcTyped, Go
<1>4. CASE Validate
  BY <1>4 DEF Validate, LooksComplete, ProcTyped, Go
<1> QED
  BY <1>1, <1>2, <1>3, <1>4 DEF Experiment, Preparing

\* cleanup, wherever it is called from.
LEMMA CleanupInv == Inv /\ Cleanup => Inv'
<1> SUFFICES ASSUME Inv, Cleanup PROVE Inv'
  OBVIOUS
<1>1. /\ csv' = csv
      /\ proc' \in [Parts -> {"off", "old", "cur"}]
      /\ \A p \in Stack : proc'[p] = "off"
  BY DEF Cleanup, CleanUp, Inv, ProcTyped, Parts, Stack
<1>2. /\ pc' \in {"attempt", "loop", "exit", "ended"}
      /\ code' = 130 => pc' \in {"exit", "ended"}
  BY DEF Cleanup, CleanUp, Cleaning, AfterCleanup, Inv, SignalledIsOut
<1> QED
  BY <1>1, <1>2 DEF Inv, CsvTyped, ProcTyped, FreshCsv, SignalledIsOut,
                    ResultsAreOwn, Traffic, Up

\* Processes, the collector and signals.
LEMMA WorldInv == Inv /\ World => Inv'
<1> SUFFICES ASSUME Inv, World PROVE Inv'
  OBVIOUS
<1> USE DEF Inv, SignalledIsOut
<1>1. CASE Interrupt
  BY <1>1 DEF Interrupt, CsvTyped, ProcTyped, FreshCsv, ResultsAreOwn, Traffic
<1>2. ASSUME NEW p \in Parts, Dies(p) PROVE Inv'
  BY <1>2 DEF Dies, CsvTyped, ProcTyped, FreshCsv, ResultsAreOwn, Parts, Stack,
              Up, script
<1>3. CASE CollectorStarts
  <2>1. pc' = pc /\ proc' = proc /\ code' = code
    BY <1>3 DEF CollectorStarts, script
  <2>2. CsvTyped'
    BY <1>3, MomentTyped DEF CollectorStarts, CsvTyped, Csv
  <2>3. FreshCsv' /\ ResultsAreOwn'
    BY <1>3, <2>1 DEF CollectorStarts, CsvTyped, Csv, FreshCsv, ResultsAreOwn,
                      Moment, Traffic, Steps
  <2> QED
    BY <2>1, <2>2, <2>3 DEF ProcTyped, Up
<1>4. CASE CollectorWrites
  <2>1. pc' = pc /\ proc' = proc /\ code' = code
    BY <1>4 DEF CollectorWrites, script
  <2>2. CsvTyped'
    BY <1>4, MomentTyped DEF CollectorWrites, CsvTyped, Csv
  <2>3. FreshCsv' /\ ResultsAreOwn'
    BY <1>4, <2>1 DEF CollectorWrites, CsvTyped, Csv, FreshCsv, ResultsAreOwn,
                      Moment, Traffic, Steps
  <2> QED
    BY <2>1, <2>2, <2>3 DEF ProcTyped, Up
<1>5. CASE CollectorStops
  BY <1>5 DEF CollectorStops, CsvTyped, ProcTyped, FreshCsv, ResultsAreOwn, Traffic,
              Up, script
<1> QED
  BY <1>1, <1>2, <1>3, <1>4, <1>5 DEF World

LEMMA Invariance == Spec => []Inv
<1>1. Inv /\ [Next]_vars => Inv'
  <2> SUFFICES ASSUME Inv, [Next]_vars PROVE Inv'
    OBVIOUS
  <2>1. CASE UNCHANGED vars
    BY <2>1 DEF vars, script, Inv, CsvTyped, ProcTyped, FreshCsv, SignalledIsOut,
                ResultsAreOwn, Up
  <2> QED
    BY <2>1, LoopInv, ExperimentInv, CleanupInv, WorldInv DEF Next, Script
<1> QED
  BY InitInv, <1>1, PTL DEF Spec

\* An experiment passes only with results of its own traffic, whatever file or
\* collector an earlier attempt or a killed script has left.
THEOREM OwnResults == Spec => []ResultsAreOwn
  BY Invariance, PTL DEF Inv

\* Once a signal is handled, no step starts anything or tries an experiment.
THEOREM SignalIsFinal == Spec => InterruptIsFinal
<1> DEFINE Final ==
      pc = "trap" \/ code = 130 =>
          tried' = tried /\ \A p \in Parts : ~Up(p) => proc'[p] = "off"
<1>1. Inv /\ [Next]_vars => [Final]_vars
  <2> SUFFICES ASSUME Inv, Next, pc = "trap" \/ code = 130
               PROVE  tried' = tried /\ \A p \in Parts : ~Up(p) => proc'[p] = "off"
    OBVIOUS
  <2>1. pc \in {"trap", "exit", "ended"}
    BY DEF Inv, SignalledIsOut
  <2>2. ~Loop /\ ~Experiment
    BY <2>1 DEF Loop, NextExperiment, Summary, Attempt, AttemptFailed, Passed,
                Experiment, StartRic, StartCore, FreePorts, StartGnb, GnbConnected,
                GnbTimeout, StartUes, StartRadio, ConnectUes, ClearMetrics,
                TrafficGoesOn, Validate
  <2>3. CASE Cleanup
    BY <2>3 DEF Cleanup, CleanUp, Up
  <2>4. CASE World
    BY <2>4 DEF World, Interrupt, Dies, CollectorStarts, CollectorWrites,
                CollectorStops, script, Inv, ProcTyped, Up
  <2> QED
    BY <2>2, <2>3, <2>4 DEF Next, Script
<1> QED
  BY Invariance, <1>1, PTL DEF Spec, InterruptIsFinal

-----------------------------------------------------------------------------
(* The accounts: attempts, retries and what the stack is made of.           *)

\* The states in which the script is about the experiment Here.
Running == Steps \cup Traffic \cup {"passed", "failed"}
Working == Running \cup {"attempt", "retry", "finish"}

ScriptTyped ==
    /\ onlyOne \in BOOLEAN /\ pc \in Working \cup {"loop", "trap", "exit", "ended"}
    /\ tr \in Nat /\ exp \in Nat
    /\ retry \in 0..(MaxRetries + 1) /\ tries \in 0..2
    /\ counts \in [All -> 0..(MaxRetries + 1)] /\ tried \in [All -> 0..MaxRetries]
    /\ outcome \in [All -> {"none", "ok", "failed"}]
    /\ runs \in Nat /\ code \in {-1, 0, 1, 130}
    /\ xapp \in {"none", "idle", "collects"}

\* The loops never leave what was asked for.
Position ==
    /\ tr >= StartSet /\ exp >= 1 /\ (tr = StartSet => exp >= StartExp)
    /\ pc \in Working => tr < TrainingSets /\ exp <= Experiments

\* The experiments whose turn has not come.
Ahead(s) ==
    \/ s[1] > tr \/ (s[1] = tr /\ s[2] > exp)
    \/ pc = "loop" /\ s[1] = tr /\ s[2] = exp
AheadUntried ==
    pc \in Working \cup {"loop"} =>
        \A s \in All : Ahead(s) => counts[s] = 0 /\ tried[s] = 0 /\ outcome[s] = "none"

\* An experiment that is over, or has not begun, is on the list if it failed.
Exact(s) == counts[s] # 0 <=> outcome[s] = "failed"
Accounts ==
    /\ pc \in {"loop", "finish"} \/ (pc = "exit" /\ code = 0) => \A s \in All : Exact(s)
    /\ pc \in Working => \A s \in All : s # Here => Exact(s)
    /\ pc \in Working \ {"finish"} => outcome[Here] = "none"
    /\ pc \in {"attempt", "retry"} => retry = tried[Here] + 1 /\ retry <= MaxRetries
    /\ pc \in Running => retry = tried[Here] /\ retry <= MaxRetries

\* What an attempt finds running is from a killed script, and then it is the
\* first of all; and what it has started itself is its own.
FirstOfAll == \A s \in All : tried[s] = IF s = Here THEN 1 ELSE 0
FromGnb  == Traffic \cup {"gnb_wait", "ue", "radio", "connect", "clear"}
FromUes  == Traffic \cup {"radio", "connect", "clear"}
FromRadio == Traffic \cup {"connect", "clear"}
OwnStack ==
    /\ pc \in {"loop", "attempt"} =>
          (\A s \in All : tried[s] = 0) \/ (\A p \in Stack : ~Up(p))
    /\ pc \in Steps \cup Traffic => FirstOfAll \/ (\A p \in Stack : proc[p] # "old")
    /\ pc \in FromGnb => proc["metrics"] # "old" /\ proc["gnb"] # "old"
    /\ pc \in FromUes => proc["ue"] # "old"
    /\ pc \in FromRadio => proc["radio"] # "old"

CountInv == ProcTyped /\ ScriptTyped /\ Position /\ AheadUntried /\ Accounts /\ OwnStack

LEMMA HereIsAsked == ScriptTyped /\ Position /\ pc \in Working => Here \in All
  BY SizesAssumption, ArgumentsAssumption DEF ScriptTyped, Position, Here, All, Sets

LEMMA SetsAreStates ==
    /\ Running \cap {"loop", "attempt", "retry", "finish", "trap", "exit", "ended"} = {}
    /\ Working \cap {"loop", "trap", "exit", "ended"} = {}
  BY DEF Running, Working, Steps, Traffic

LEMMA InitCounts == Init => CountInv
<1> SUFFICES ASSUME Init PROVE CountInv
  OBVIOUS
<1>1. runs \in Nat
  <2>1. StartSet * Experiments \in Nat
    BY SizesAssumption, ArgumentsAssumption
  <2> QED
    BY <2>1, ArgumentsAssumption DEF Init
<1>2. ProcTyped /\ Position /\ OwnStack
  BY ArgumentsAssumption, SetsAreStates
  DEF Init, ProcTyped, Position, OwnStack, FromGnb, FromUes, FromRadio, Steps, Traffic
<1>3. ScriptTyped
  BY <1>1, SizesAssumption, ArgumentsAssumption DEF Init, ScriptTyped
<1>4. AheadUntried /\ Accounts
  BY SetsAreStates DEF Init, AheadUntried, Accounts, Exact
<1> QED
  BY <1>2, <1>3, <1>4 DEF CountInv

\* A step within run_single_experiment leaves the accounts alone.
LEMMA ExperimentKeeps ==
    ASSUME ScriptTyped, Experiment
    PROVE  /\ UNCHANGED <<onlyOne, tr, exp, retry, counts, runs, code, tried, outcome>>
           /\ tries' \in 0..2 /\ xapp' \in {"none", "idle", "collects"}
           /\ pc \in Steps \cup Traffic /\ pc' \in Running
<1> USE DEF ScriptTyped, Running, Steps, Traffic, Go, GoOrFail
<1>1. CASE StartRic
  BY <1>1 DEF StartRic, XappUp
<1>2. CASE StartCore
  BY <1>2 DEF StartCore
<1>3. CASE FreePorts
  BY <1>3 DEF FreePorts
<1>4. CASE StartGnb
  BY <1>4 DEF StartGnb, NextTry
<1>5. CASE GnbConnected
  BY <1>5 DEF GnbConnected
<1>6. CASE GnbTimeout
  BY <1>6 DEF GnbTimeout, NextTry
<1>7. CASE StartUes
  BY <1>7 DEF StartUes
<1>8. CASE StartRadio
  BY <1>8 DEF StartRadio
<1>9. CASE ConnectUes
  BY <1>9 DEF ConnectUes
<1>10. CASE ClearMetrics
  BY <1>10 DEF ClearMetrics, StartTraffic, Started
<1>11. CASE TrafficGoesOn
  BY <1>11 DEF TrafficGoesOn
<1>12. CASE Validate
  BY <1>12 DEF Validate
<1> QED
  BY <1>1, <1>2, <1>3, <1>4, <1>5, <1>6, <1>7, <1>8, <1>9, <1>10, <1>11, <1>12 DEF Experiment

\* Nothing old is started, and each session is replaced when its step succeeds.
LEMMA ExperimentStack ==
    ASSUME ProcTyped, OwnStack, Experiment,
           UNCHANGED <<tr, exp, tried>>
    PROVE  ProcTyped' /\ OwnStack'
<1> USE DEF ProcTyped, OwnStack, Parts, Stack, FirstOfAll, Here, FromGnb, FromUes, FromRadio,
            Steps, Traffic, Go, GoOrFail
<1>1. CASE StartRic
  BY <1>1 DEF StartRic, Kept, XappUp
<1>2. CASE StartCore
  BY <1>2 DEF StartCore, Kept
<1>3. CASE FreePorts
  BY <1>3 DEF FreePorts
<1>4. CASE StartGnb
  BY <1>4 DEF StartGnb, NextTry
<1>5. CASE GnbConnected
  BY <1>5 DEF GnbConnected
<1>6. CASE GnbTimeout
  BY <1>6 DEF GnbTimeout, NextTry
<1>7. CASE StartUes
  BY <1>7 DEF StartUes, Started
<1>8. CASE StartRadio
  BY <1>8 DEF StartRadio, Started
<1>9. CASE ConnectUes
  BY <1>9 DEF ConnectUes
<1>10. CASE ClearMetrics
  BY <1>10 DEF ClearMetrics, StartTraffic, Started
<1>11. CASE TrafficGoesOn
  BY <1>11 DEF TrafficGoesOn
<1>12. CASE Validate
  BY <1>12 DEF Validate
<1> QED
  BY <1>1, <1>2, <1>3, <1>4, <1>5, <1>6, <1>7, <1>8, <1>9, <1>10, <1>11, <1>12 DEF Experiment

LEMMA ExperimentCounts == CountInv /\ Experiment => CountInv'
<1> SUFFICES ASSUME CountInv, Experiment PROVE CountInv'
  OBVIOUS
<1>1. /\ UNCHANGED <<onlyOne, tr, exp, retry, counts, runs, code, tried, outcome>>
      /\ tries' \in 0..2 /\ xapp' \in {"none", "idle", "collects"}
      /\ pc \in Steps \cup Traffic /\ pc' \in Running
  BY ExperimentKeeps DEF CountInv
<1>2. ProcTyped' /\ OwnStack'
  BY <1>1, ExperimentStack DEF CountInv
<1>3. pc \in Running /\ pc \in Working /\ pc' \in Working /\ pc # "loop" /\ pc' # "loop"
  BY <1>1 DEF Running, Working, Steps, Traffic
<1>4. ScriptTyped' /\ Position'
  BY <1>1, <1>3 DEF CountInv, ScriptTyped, Position
<1>5. AheadUntried'
  BY <1>1, <1>3 DEF CountInv, AheadUntried, Ahead
<1>6. Accounts'
  BY <1>1, <1>3, SetsAreStates DEF CountInv, Accounts, Exact, Here
<1> QED
  BY <1>2, <1>4, <1>5, <1>6 DEF CountInv

\* main_experiment_loop: an experiment begins untried, is given up with a full
\* count or passes without one.
LEMMA LoopCounts == CountInv /\ Loop => CountInv'
<1> SUFFICES ASSUME CountInv, Loop PROVE CountInv'
  OBVIOUS
<1> USE SizesAssumption, ArgumentsAssumption
<1>0. ScriptTyped /\ Position /\ ProcTyped
  BY DEF CountInv
<1>1. CASE NextExperiment
  <2>1. /\ pc = "loop" /\ pc' \in {"loop", "attempt"} /\ proc' = proc
        /\ UNCHANGED <<onlyOne, tries, counts, runs, code, tried, outcome>>
        /\ xapp' \in {"none", "idle", "collects"}
    BY <1>0, <1>1 DEF NextExperiment, ScriptTyped
  <2>2. CASE exp > Experiments
    <3>1. tr' = tr + 1 /\ exp' = 1 /\ pc' = "loop" /\ retry' = retry
      BY <1>1, <2>2 DEF NextExperiment
    <3>2. ScriptTyped' /\ Position'
      BY <1>0, <2>1, <3>1, SetsAreStates DEF ScriptTyped, Position
    <3>3. AheadUntried'
      <4>1. ASSUME NEW s \in All, Ahead(s)' PROVE Ahead(s)
        BY <1>0, <2>1, <3>1, <4>1 DEF Ahead, All, Sets, ScriptTyped
      <4> QED
        BY <2>1, <3>1, <4>1 DEF CountInv, AheadUntried
    <3>4. Accounts' /\ OwnStack' /\ ProcTyped'
      BY <1>0, <2>1, <3>1, SetsAreStates
      DEF CountInv, Accounts, Exact, OwnStack, ProcTyped, Up, FromGnb, FromUes, FromRadio, Steps, Traffic
    <3> QED
      BY <3>2, <3>3, <3>4 DEF CountInv
  <2>3. CASE exp <= Experiments
    <3>1. tr' = tr /\ exp' = exp /\ pc' = "attempt" /\ retry' = counts[Here] + 1 /\ tr < TrainingSets
      BY <1>0, <1>1, <2>3 DEF NextExperiment, ScriptTyped
    <3>2. Here \in All
      BY <1>0, <2>3, <3>1 DEF ScriptTyped, Position, Here, All, Sets
    <3>3. counts[Here] = 0 /\ tried[Here] = 0 /\ outcome[Here] = "none"
      BY <2>1, <3>2 DEF CountInv, AheadUntried, Ahead, Here
    <3>4. ScriptTyped' /\ Position'
      BY <1>0, <2>1, <2>3, <3>1, <3>3 DEF ScriptTyped, Position, Working
    <3>5. AheadUntried'
      BY <2>1, <3>1 DEF CountInv, AheadUntried, Ahead
    <3>6. Accounts' /\ OwnStack' /\ ProcTyped'
      BY <1>0, <2>1, <3>1, <3>3, SetsAreStates
      DEF CountInv, Accounts, Exact, Here, OwnStack, ProcTyped, Up, FromGnb, FromUes, FromRadio, Steps, Traffic
    <3> QED
      BY <3>4, <3>5, <3>6 DEF CountInv
  <2> QED
    BY <1>0, <2>2, <2>3 DEF ScriptTyped
<1>2. CASE Summary
  <2> USE <1>2, <1>0, SetsAreStates DEF Summary
  <2>1. ScriptTyped' /\ Position' /\ AheadUntried'
    BY DEF ScriptTyped, Position, AheadUntried
  <2>2. Accounts' /\ OwnStack' /\ ProcTyped'
    BY DEF CountInv, Accounts, Exact, OwnStack, ProcTyped, Up, FromGnb, FromUes, FromRadio, Steps, Traffic
  <2> QED
    BY <2>1, <2>2 DEF CountInv
<1>3. CASE Attempt
  <2>1. /\ pc = "attempt" /\ pc' = "ric" /\ tried' = [tried EXCEPT ![Here] = @ + 1]
        /\ proc' = [p \in Parts |-> IF Up(p) THEN "old" ELSE "off"]
        /\ UNCHANGED <<onlyOne, tr, exp, retry, tries, counts, runs, xapp, code, outcome>>
    BY <1>3 DEF Attempt
  <2>2. Here \in All
    BY <1>0, <2>1, HereIsAsked DEF Working
  <2>3. retry = tried[Here] + 1 /\ retry <= MaxRetries
    BY <2>1 DEF CountInv, Accounts
  <2>4. /\ tried' \in [All -> 0..MaxRetries] /\ tried'[Here] = retry
        /\ \A s \in All : s # Here => tried'[s] = tried[s]
    BY <1>0, <2>1, <2>2, <2>3 DEF ScriptTyped
  <2>5. ScriptTyped' /\ Position' /\ ProcTyped'
    BY <1>0, <2>1, <2>4 DEF ScriptTyped, Position, ProcTyped, Working, Running, Steps
  <2>6. AheadUntried'
    <3>1. ASSUME NEW s \in All, Ahead(s)' PROVE s # Here /\ Ahead(s)
      BY <1>0, <2>1, <3>1 DEF Ahead, Here, ScriptTyped
    <3> QED
      BY <2>1, <2>4, <3>1 DEF CountInv, AheadUntried, Working
  <2>7. Accounts'
    BY <2>1, <2>3, <2>4, SetsAreStates DEF CountInv, Accounts, Exact, Here, Working, Running, Steps
  <2>8. OwnStack'
    <3>1. FirstOfAll' \/ \A p \in Stack : proc'[p] # "old"
      <4>1. CASE \A s \in All : tried[s] = 0
        BY <2>1, <2>2, <2>3, <2>4, <4>1 DEF FirstOfAll, Here
      <4>2. CASE \A p \in Stack : ~Up(p)
        BY <2>1, <4>2 DEF Parts, Stack
      <4> QED
        BY <2>1, <4>1, <4>2 DEF CountInv, OwnStack
    <3> QED
      BY <2>1, <3>1 DEF OwnStack, FromGnb, FromUes, FromRadio, Traffic
  <2> QED
    BY <2>5, <2>6, <2>7, <2>8 DEF CountInv
<1>4. CASE AttemptFailed
  <2>1. /\ pc = "failed" /\ retry' = retry + 1 /\ counts' = [counts EXCEPT ![Here] = retry + 1]
        /\ UNCHANGED <<onlyOne, tr, exp, tries, runs, proc, xapp, code, tried>>
    BY <1>4 DEF AttemptFailed
  <2>2. Here \in All
    BY <1>0, <2>1, HereIsAsked DEF Working, Running
  <2>3. retry = tried[Here] /\ retry <= MaxRetries
    BY <2>1 DEF CountInv, Accounts, Running
  <2>4. \/ pc' = "retry" /\ outcome' = outcome /\ retry' <= MaxRetries
        \/ pc' = "finish" /\ outcome' = [outcome EXCEPT ![Here] = "failed"]
    BY <1>4 DEF AttemptFailed
  <2>5. /\ counts' \in [All -> 0..(MaxRetries + 1)] /\ counts'[Here] = tried[Here] + 1
        /\ \A s \in All : s # Here => counts'[s] = counts[s] /\ outcome'[s] = outcome[s]
        /\ outcome' \in [All -> {"none", "ok", "failed"}]
    BY <1>0, <2>1, <2>2, <2>3, <2>4 DEF ScriptTyped
  <2>6. ScriptTyped' /\ Position' /\ ProcTyped'
    BY <1>0, <2>1, <2>3, <2>4, <2>5 DEF ScriptTyped, Position, ProcTyped, Working, Running
  <2>7. AheadUntried'
    <3>1. ASSUME NEW s \in All, Ahead(s)' PROVE s # Here /\ Ahead(s)
      BY <1>0, <2>1, <2>4, <3>1 DEF Ahead, Here, ScriptTyped
    <3> QED
      BY <2>1, <2>5, <3>1 DEF CountInv, AheadUntried, Working, Running
  <2>8. tried[Here] + 1 # 0
    BY <1>0, <2>2 DEF ScriptTyped
  <2>9. pc' = "finish" => outcome'[Here] = "failed"
    BY <1>0, <2>2, <2>4 DEF ScriptTyped
  <2>10. Accounts'
    BY <2>1, <2>2, <2>3, <2>4, <2>5, <2>8, <2>9, SetsAreStates
    DEF CountInv, Accounts, Exact, Here, Working, Running
  <2>11. OwnStack'
    BY <2>1, <2>4, SetsAreStates DEF OwnStack, FromGnb, FromUes, FromRadio, Steps, Traffic
  <2> QED
    BY <2>6, <2>7, <2>10, <2>11 DEF CountInv
<1>5. CASE Passed
  <2>1. /\ pc = "passed" /\ outcome' = [outcome EXCEPT ![Here] = "ok"] /\ runs' = runs + 1
        /\ UNCHANGED <<onlyOne, tr, exp, retry, tries, proc, xapp, tried>>
    BY <1>5 DEF Passed
  <2>2. Here \in All
    BY <1>0, <2>1, HereIsAsked DEF Working, Running
  <2>3. \/ pc' = "exit" /\ code' = 1 /\ counts' = counts
        \/ pc' = "finish" /\ counts' = [counts EXCEPT ![Here] = 0] /\ code' = code
    BY <1>5 DEF Passed
  <2>4. /\ counts' \in [All -> 0..(MaxRetries + 1)]
        /\ outcome' \in [All -> {"none", "ok", "failed"}] /\ outcome'[Here] = "ok"
        /\ \A s \in All : s # Here => counts'[s] = counts[s] /\ outcome'[s] = outcome[s]
        /\ pc' = "finish" => counts'[Here] = 0
    BY <1>0, <2>1, <2>2, <2>3 DEF ScriptTyped
  <2>5. ScriptTyped' /\ Position' /\ ProcTyped'
    BY <1>0, <2>1, <2>3, <2>4, SetsAreStates DEF ScriptTyped, Position, ProcTyped, Working, Running
  <2>6. AheadUntried'
    <3>1. ASSUME NEW s \in All, Ahead(s)' PROVE s # Here /\ Ahead(s)
      BY <1>0, <2>1, <2>3, <3>1 DEF Ahead, Here, ScriptTyped
    <3> QED
      BY <2>1, <2>3, <2>4, <3>1, SetsAreStates DEF CountInv, AheadUntried, Working, Running
  <2>7. Accounts'
    BY <2>1, <2>2, <2>3, <2>4, SetsAreStates DEF CountInv, Accounts, Exact, Here, Working, Running
  <2>8. OwnStack'
    BY <2>1, <2>3, SetsAreStates DEF OwnStack, FromGnb, FromUes, FromRadio, Steps, Traffic
  <2> QED
    BY <2>5, <2>6, <2>7, <2>8 DEF CountInv
<1> QED
  BY <1>1, <1>2, <1>3, <1>4, <1>5 DEF Loop

\* cleanup: the processes are ended, and an experiment that is over is left
\* behind exactly.
LEMMA CleanupCounts == CountInv /\ Cleanup => CountInv'
<1> SUFFICES ASSUME CountInv, Cleanup PROVE CountInv'
  OBVIOUS
<1>0. ScriptTyped /\ Position /\ ProcTyped
  BY DEF CountInv
<1>1. /\ ProcTyped' /\ \A p \in Stack : proc'[p] = "off"
  BY <1>0 DEF Cleanup, CleanUp, ProcTyped, Parts, Stack
<1>2. /\ UNCHANGED <<onlyOne, tr, retry, tries, counts, runs, tried, outcome>>
      /\ xapp' \in {"none", "idle", "collects"}
  BY <1>0 DEF Cleanup, CleanUp, ScriptTyped
<1>3. \/ pc = "retry" /\ pc' = "attempt" /\ exp' = exp /\ code' = code
      \/ pc = "finish" /\ pc' = "loop" /\ exp' = exp + 1 /\ code' = code
      \/ pc = "finish" /\ pc' = "exit" /\ exp' = exp /\ code' = 0
      \/ pc = "trap" /\ pc' = "exit" /\ exp' = exp /\ code' = 130
      \/ pc = "exit" /\ pc' = "ended" /\ exp' = exp /\ code' = code
  <2>1. AfterCleanup /\ pc \in {"retry", "finish", "trap", "exit"}
    BY DEF Cleanup, CleanUp, Cleaning
  <2>2. CASE pc = "retry"
    BY <2>1, <2>2 DEF AfterCleanup
  <2>3. CASE pc = "finish" /\ ~onlyOne
    BY <2>1, <2>3 DEF AfterCleanup
  <2>4. CASE pc = "finish" /\ onlyOne
    BY <2>1, <2>4 DEF AfterCleanup
  <2>5. CASE pc = "trap"
    BY <2>1, <2>5 DEF AfterCleanup
  <2>6. CASE pc = "exit"
    BY <2>1, <2>6 DEF AfterCleanup
  <2> QED
    BY <2>1, <2>2, <2>3, <2>4, <2>5, <2>6
<1>4. ScriptTyped' /\ Position'
  BY <1>0, <1>2, <1>3, SetsAreStates, ArgumentsAssumption DEF ScriptTyped, Position, Working
<1>5. AheadUntried'
  <2>1. ASSUME NEW s \in All, Ahead(s)', pc' \in Working \cup {"loop"}
        PROVE  Ahead(s) /\ pc \in Working
    BY <1>0, <1>2, <1>3, <2>1, SetsAreStates DEF Ahead, ScriptTyped, Working, All, Sets
  <2> QED
    BY <1>2, <2>1 DEF CountInv, AheadUntried
<1>6. Accounts'
  BY <1>2, <1>3, SetsAreStates DEF CountInv, Accounts, Exact, Here, Working
<1>7. OwnStack'
  BY <1>1, <1>3 DEF OwnStack, Up, FromGnb, FromUes, FromRadio, Steps, Traffic
<1> QED
  BY <1>1, <1>4, <1>5, <1>6, <1>7 DEF CountInv

\* Signals, deaths and the collector.
LEMMA WorldCounts == CountInv /\ World => CountInv'
<1> SUFFICES ASSUME CountInv, World PROVE CountInv'
  OBVIOUS
<1>1. CASE Interrupt
  <2>1. /\ pc' = "trap" /\ proc' = proc
        /\ UNCHANGED <<onlyOne, tr, exp, retry, tries, counts, runs, xapp, code, tried, outcome>>
    BY <1>1 DEF Interrupt
  <2>2. ScriptTyped' /\ Position' /\ ProcTyped' /\ AheadUntried'
    BY <2>1, SetsAreStates DEF CountInv, ScriptTyped, Position, ProcTyped, AheadUntried
  <2>3. Accounts' /\ OwnStack'
    BY <2>1, SetsAreStates DEF Accounts, OwnStack, FromGnb, FromUes, FromRadio, Steps, Traffic
  <2> QED
    BY <2>2, <2>3 DEF CountInv
<1>2. ASSUME UNCHANGED script, xapp' \in {"none", "idle", "collects"}, ProcTyped',
             \A p \in Parts : proc'[p] \in {proc[p], "off"}
      PROVE  CountInv'
  <2>1. ScriptTyped' /\ Position' /\ AheadUntried' /\ Accounts'
    BY <1>2 DEF CountInv, script, ScriptTyped, Position, AheadUntried, Ahead, Accounts, Exact, Here
  <2>2. OwnStack'
    BY <1>2 DEF CountInv, script, OwnStack, Up, FirstOfAll, Here, Parts, Stack
  <2> QED
    BY <1>2, <2>1, <2>2 DEF CountInv
<1>3. ASSUME NEW p \in Parts, Dies(p) PROVE CountInv'
  BY <1>2, <1>3 DEF CountInv, Dies, ProcTyped, Parts, Stack, ScriptTyped
<1>4. CASE CollectorStarts \/ CollectorWrites \/ CollectorStops
  BY <1>2, <1>4 DEF CountInv, CollectorStarts, CollectorWrites, CollectorStops, ProcTyped, ScriptTyped
<1> QED
  BY <1>1, <1>3, <1>4 DEF World

LEMMA CountInvariance == Spec => []CountInv
<1>1. CountInv /\ [Next]_vars => CountInv'
  <2> SUFFICES ASSUME CountInv, [Next]_vars PROVE CountInv'
    OBVIOUS
  <2>1. CASE UNCHANGED vars
    BY <2>1 DEF vars, script, CountInv, ProcTyped, ScriptTyped, Position, AheadUntried, Ahead,
                Accounts, Exact, OwnStack, FirstOfAll, Here, Up
  <2> QED
    BY <2>1, LoopCounts, ExperimentCounts, CleanupCounts, WorldCounts DEF Next, Script
<1> QED
  BY InitCounts, <1>1, PTL DEF Spec

\* Every variable keeps its type: no experiment is tried more than MaxRetries
\* times, and the loops count within what was asked for.
THEOREM TypeCorrect == Spec => []TypeOK
<1>1. CountInv /\ Inv => TypeOK
  BY DEF CountInv, Inv, ScriptTyped, ProcTyped, CsvTyped, TypeOK, Working, Running
<1> QED
  BY <1>1, Invariance, CountInvariance, PTL

\* The traffic runs over what its own attempt has started, whatever an earlier
\* attempt, experiment or script left running; but for a RIC and a core in the
\* first attempt of all.
THEOREM OwnStackOnly == Spec => []StackIsOwn
<1>1. CountInv => StackIsOwn
  BY DEF CountInv, OwnStack, StackIsOwn, FirstOfAll, FromGnb, FromUes, FromRadio, Parts, Stack,
         Steps, Traffic
<1> QED
  BY <1>1, CountInvariance, PTL

\* The list of failed experiments that the summary prints names those given up and
\* no other.
THEOREM ListIsExact == Spec => []FailedListExact
<1>1. CountInv => FailedListExact
  BY DEF CountInv, Accounts, Exact, FailedListExact
<1> QED
  BY <1>1, CountInvariance, PTL
=============================================================================
