---------------------------- MODULE TimersProofs ----------------------------
(***************************************************************************)
(* Theorems about Timers, for every set of durations and every bound.  The  *)
(* argument follows the last command, the one whose number is cmd_id: it is *)
(* in the write buffer (push is at the exchange), in the middle one, or the *)
(* back-end has taken it; only then can events of its epoch exist.  It may   *)
(* be taken while its push still has the write buffer to store: the owner is *)
(* inside push() then, or was when another one took the timer over.          *)
(***************************************************************************)
EXTENDS Timers, TLAPS

\* The back-end has the last command.
Taken == push # "exchange" /\ bufs.middle = NoCmd

Failed(epoch) == \E i \in DOMAIN failed : failed[i] = epoch

\* Where the back-end is inside tick().
Phases ==
  /\ phase # "commands" => batch = 0
  /\ phase = "expire" => back.state = "running"
  /\ back.state = "running" => (back.left = 0 <=> phase = "expire")

\* Events of the current epoch exist only after its command was taken.
Epochs ==
  /\ back.cmd_id <= cmd_id
  /\ back.state = "running" => back.cmd_id # 0
  /\ \A epoch \in tasks : epoch <= cmd_id
  /\ \A i \in DOMAIN failed : failed[i] <= cmd_id
  /\ Taken => push \in {"idle", "store", "stale"} /\ back.cmd_id = cmd_id
  /\ ~Taken => back.cmd_id < cmd_id /\ cmd_id \notin tasks /\ ~Failed(cmd_id)
  /\ bufs.middle # NoCmd => bufs.middle.cmd_id # 0
  /\ push = "exchange" =>
       bufs.write.cmd # "none" /\ bufs.write.cmd_id = cmd_id /\ bufs.middle.cmd_id < cmd_id
  /\ push # "exchange" /\ bufs.middle # NoCmd => bufs.middle.cmd_id = cmd_id

\* What the last command says of the timer and of who has it.
Says(cmd) ==
  /\ state # "expired"
  /\ state = "running" <=> cmd.cmd = "start"
  /\ place = "released" <=> cmd.cmd = "destroy"
  /\ cmd.cmd = "start" => left <= Ticks(cmd.duration)

Owners ==
  /\ ~owned => state = "stopped"
  /\ place \in {"none", "released"} => ~owned
  /\ place = "pending" => owned
  /\ push = "exchange" => Says(bufs.write) /\ bufs.middle.cmd # "destroy"
  /\ push # "exchange" /\ bufs.middle # NoCmd => Says(bufs.middle)
  /\ Taken => place # "released"
  /\ place = "made" /\ ~owned => Taken /\ back.state # "running" /\ push \in {"idle", "store"}
  /\ push = "stale" => Taken /\ owned /\ place = "made" /\ state = "stopped"

\* Once the last command is taken, its run goes on in the back-end or is on
\* its way to the owner, with no tick left.
Served ==
  Taken =>
    /\ back.state = "running" =>
         /\ state = "running" /\ left <= back.left
         /\ cmd_id \notin tasks /\ ~Failed(cmd_id)
    /\ cmd_id \in tasks \/ Failed(cmd_id) => state = "running" /\ left = 0
    /\ state = "running" => back.state = "running" \/ cmd_id \in tasks \/ Failed(cmd_id)

IInv ==
  TypeOK /\ NoLostCommand /\ Phases /\ Epochs /\ Owners /\ Served /\ AnnouncedOnce

LEMMA CommandTypes ==
  /\ NoCmd \in Cmds
  /\ \A cmd \in Cmds : cmd.duration \in Nat /\ Ticks(cmd.duration) \in Nat
<1>1. \A duration \in Durations \cup {0} : duration \in Nat
  BY BoundsAssumption
<1>2. NoCmd \in Cmds
  BY BoundsAssumption DEF NoCmd, Cmds
<1>3. ASSUME NEW cmd \in Cmds
      PROVE  cmd.duration \in Nat /\ Ticks(cmd.duration) \in Nat
  <2>1. cmd.duration \in Durations \cup {0}
    BY DEF Cmds
  <2> QED
    BY <2>1, <1>1 DEF Ticks, Larger
<1> QED
  BY <1>2, <1>3

LEMMA PreparedTypes ==
  ASSUME TypeOK, NEW cmd \in {"create", "start", "stop", "destroy"},
         NEW duration \in Durations \cup {0}, Prepare(cmd, duration)
  PROVE  cmd_id' \in 0..MaxCmd /\ bufs' \in [write : Cmds, middle : Cmds, read : {NoCmd}]
<1>1. cmd_id' \in 0..MaxCmd
  BY BoundsAssumption DEF TypeOK, Prepare, NextEpoch
<1>2. [cmd |-> cmd, cmd_id |-> cmd_id', duration |-> duration] \in Cmds
  BY <1>1 DEF Cmds
<1> QED
  BY <1>1, <1>2 DEF TypeOK, Prepare

\* The postponed expiries, with one more or without the first.
LEMMA Appended ==
  ASSUME NEW S, NEW s \in Seq(S), NEW e \in S
  PROVE  /\ Append(s, e) \in Seq(S)
         /\ DOMAIN Append(s, e) = DOMAIN s \cup {Len(s) + 1} /\ Len(s) + 1 \notin DOMAIN s
         /\ \A i \in DOMAIN s : Append(s, e)[i] = s[i]
         /\ Append(s, e)[Len(s) + 1] = e
  OBVIOUS

LEMMA Shortened ==
  ASSUME NEW S, NEW s \in Seq(S), s # << >>
  PROVE  /\ Tail(s) \in Seq(S) /\ Head(s) \in S /\ 1 \in DOMAIN s /\ Head(s) = s[1]
         /\ \A i \in DOMAIN Tail(s) : i + 1 \in DOMAIN s /\ Tail(s)[i] = s[i + 1]
         /\ \A i \in DOMAIN s \ {1} : i - 1 \in DOMAIN Tail(s) /\ Tail(s)[i - 1] = s[i]
         /\ \A i \in DOMAIN Tail(s) : i \in Nat
  OBVIOUS

LEMMA CreateKeeps ==
  ASSUME IInv, Create, UNCHANGED torn
  PROVE  IInv'
<1> USE BoundsAssumption DEF IInv
<1>1. TypeOK'
  <2>1. Prepare("create", 0)
    BY DEF Create
  <2>2. cmd_id' \in 0..MaxCmd /\ bufs' \in [write : Cmds, middle : Cmds, read : {NoCmd}]
    BY <2>1, PreparedTypes
  <2> QED
    BY <2>1, <2>2 DEF TypeOK, Create, Prepare
<1>2. NoLostCommand'
  BY DEF TypeOK, NoLostCommand, Phases, Epochs, Owners, Says, Served, AnnouncedOnce, Taken, Failed, NoCmd, Cmds, Create, Prepare, NextEpoch
<1>3. Phases'
  BY DEF TypeOK, NoLostCommand, Phases, Epochs, Owners, Says, Served, AnnouncedOnce, Taken, Failed, NoCmd, Cmds, Create, Prepare, NextEpoch
<1>4. Epochs'
  BY DEF TypeOK, NoLostCommand, Phases, Epochs, Owners, Says, Served, AnnouncedOnce, Taken, Failed, NoCmd, Cmds, Create, Prepare, NextEpoch
<1>5. Owners'
  BY DEF TypeOK, NoLostCommand, Phases, Epochs, Owners, Says, Served, AnnouncedOnce, Taken, Failed, NoCmd, Cmds, Create, Prepare, NextEpoch
<1>6. Served'
  BY DEF TypeOK, NoLostCommand, Phases, Epochs, Owners, Says, Served, AnnouncedOnce, Taken, Failed, NoCmd, Cmds, Create, Prepare, NextEpoch
<1>7. AnnouncedOnce'
  BY DEF TypeOK, NoLostCommand, Phases, Epochs, Owners, Says, Served, AnnouncedOnce, Taken, Failed, NoCmd, Cmds, Create, Prepare, NextEpoch
<1> QED BY <1>1, <1>2, <1>3, <1>4, <1>5, <1>6, <1>7

LEMMA CreateFromPoolKeeps ==
  ASSUME IInv, CreateFromPool, UNCHANGED torn
  PROVE  IInv'
<1> USE BoundsAssumption DEF IInv
<1>1. TypeOK'
  BY DEF TypeOK, NoLostCommand, Phases, Epochs, Owners, Says, Served, AnnouncedOnce, Taken, Failed, NoCmd, Cmds, CreateFromPool
<1>2. NoLostCommand'
  BY DEF TypeOK, NoLostCommand, Phases, Epochs, Owners, Says, Served, AnnouncedOnce, Taken, Failed, NoCmd, Cmds, CreateFromPool
<1>3. Phases'
  BY DEF TypeOK, NoLostCommand, Phases, Epochs, Owners, Says, Served, AnnouncedOnce, Taken, Failed, NoCmd, Cmds, CreateFromPool
<1>4. Epochs'
  BY DEF TypeOK, NoLostCommand, Phases, Epochs, Owners, Says, Served, AnnouncedOnce, Taken, Failed, NoCmd, Cmds, CreateFromPool
<1>5. Owners'
  BY DEF TypeOK, NoLostCommand, Phases, Epochs, Owners, Says, Served, AnnouncedOnce, Taken, Failed, NoCmd, Cmds, CreateFromPool
<1>6. Served'
  BY DEF TypeOK, NoLostCommand, Phases, Epochs, Owners, Says, Served, AnnouncedOnce, Taken, Failed, NoCmd, Cmds, CreateFromPool
<1>7. AnnouncedOnce'
  BY DEF TypeOK, NoLostCommand, Phases, Epochs, Owners, Says, Served, AnnouncedOnce, Taken, Failed, NoCmd, Cmds, CreateFromPool
<1> QED BY <1>1, <1>2, <1>3, <1>4, <1>5, <1>6, <1>7

LEMMA RunKeeps ==
  ASSUME IInv, NEW duration \in Durations, Run(duration), UNCHANGED torn
  PROVE  IInv'
<1> USE BoundsAssumption DEF IInv
<1>1. TypeOK'
  <2>1. Prepare("start", duration)
    BY DEF Run, Larger, Ticks
  <2>2. cmd_id' \in 0..MaxCmd /\ bufs' \in [write : Cmds, middle : Cmds, read : {NoCmd}]
    BY <2>1, PreparedTypes
  <2> QED
    BY <2>1, <2>2 DEF TypeOK, Run, Larger, Ticks, Prepare
<1>2. NoLostCommand'
  BY DEF TypeOK, NoLostCommand, Phases, Epochs, Owners, Says, Served, AnnouncedOnce, Taken, Failed, NoCmd, Cmds, Run, Prepare, NextEpoch, Larger, Ticks
<1>3. Phases'
  BY DEF TypeOK, NoLostCommand, Phases, Epochs, Owners, Says, Served, AnnouncedOnce, Taken, Failed, NoCmd, Cmds, Run, Prepare, NextEpoch, Larger, Ticks
<1>4. Epochs'
  BY DEF TypeOK, NoLostCommand, Phases, Epochs, Owners, Says, Served, AnnouncedOnce, Taken, Failed, NoCmd, Cmds, Run, Prepare, NextEpoch, Larger, Ticks
<1>5. Owners'
  BY DEF TypeOK, NoLostCommand, Phases, Epochs, Owners, Says, Served, AnnouncedOnce, Taken, Failed, NoCmd, Cmds, Run, Prepare, NextEpoch, Larger, Ticks
<1>6. Served'
  BY DEF TypeOK, NoLostCommand, Phases, Epochs, Owners, Says, Served, AnnouncedOnce, Taken, Failed, NoCmd, Cmds, Run, Prepare, NextEpoch, Larger, Ticks
<1>7. AnnouncedOnce'
  BY DEF TypeOK, NoLostCommand, Phases, Epochs, Owners, Says, Served, AnnouncedOnce, Taken, Failed, NoCmd, Cmds, Run, Prepare, NextEpoch, Larger, Ticks
<1> QED BY <1>1, <1>2, <1>3, <1>4, <1>5, <1>6, <1>7

LEMMA StopKeeps ==
  ASSUME IInv, Stop, UNCHANGED torn
  PROVE  IInv'
<1> USE BoundsAssumption DEF IInv
<1>1. TypeOK'
  <2>1. Prepare("stop", 0)
    BY DEF Stop
  <2>2. cmd_id' \in 0..MaxCmd /\ bufs' \in [write : Cmds, middle : Cmds, read : {NoCmd}]
    BY <2>1, PreparedTypes
  <2> QED
    BY <2>1, <2>2 DEF TypeOK, Stop, Prepare
<1>2. NoLostCommand'
  BY DEF TypeOK, NoLostCommand, Phases, Epochs, Owners, Says, Served, AnnouncedOnce, Taken, Failed, NoCmd, Cmds, Stop, Prepare, NextEpoch
<1>3. Phases'
  BY DEF TypeOK, NoLostCommand, Phases, Epochs, Owners, Says, Served, AnnouncedOnce, Taken, Failed, NoCmd, Cmds, Stop, Prepare, NextEpoch
<1>4. Epochs'
  BY DEF TypeOK, NoLostCommand, Phases, Epochs, Owners, Says, Served, AnnouncedOnce, Taken, Failed, NoCmd, Cmds, Stop, Prepare, NextEpoch
<1>5. Owners'
  BY DEF TypeOK, NoLostCommand, Phases, Epochs, Owners, Says, Served, AnnouncedOnce, Taken, Failed, NoCmd, Cmds, Stop, Prepare, NextEpoch
<1>6. Served'
  BY DEF TypeOK, NoLostCommand, Phases, Epochs, Owners, Says, Served, AnnouncedOnce, Taken, Failed, NoCmd, Cmds, Stop, Prepare, NextEpoch
<1>7. AnnouncedOnce'
  BY DEF TypeOK, NoLostCommand, Phases, Epochs, Owners, Says, Served, AnnouncedOnce, Taken, Failed, NoCmd, Cmds, Stop, Prepare, NextEpoch
<1> QED BY <1>1, <1>2, <1>3, <1>4, <1>5, <1>6, <1>7

LEMMA ReleaseKeeps ==
  ASSUME IInv, Release, UNCHANGED torn
  PROVE  IInv'
<1> USE BoundsAssumption DEF IInv
<1>1. TypeOK'
  <2>1. Prepare("destroy", 0)
    BY DEF Release
  <2>2. cmd_id' \in 0..MaxCmd /\ bufs' \in [write : Cmds, middle : Cmds, read : {NoCmd}]
    BY <2>1, PreparedTypes
  <2> QED
    BY <2>1, <2>2 DEF TypeOK, Release, Prepare
<1>2. NoLostCommand'
  BY DEF TypeOK, NoLostCommand, Phases, Epochs, Owners, Says, Served, AnnouncedOnce, Taken, Failed, NoCmd, Cmds, Release, Prepare, NextEpoch
<1>3. Phases'
  BY DEF TypeOK, NoLostCommand, Phases, Epochs, Owners, Says, Served, AnnouncedOnce, Taken, Failed, NoCmd, Cmds, Release, Prepare, NextEpoch
<1>4. Epochs'
  BY DEF TypeOK, NoLostCommand, Phases, Epochs, Owners, Says, Served, AnnouncedOnce, Taken, Failed, NoCmd, Cmds, Release, Prepare, NextEpoch
<1>5. Owners'
  BY DEF TypeOK, NoLostCommand, Phases, Epochs, Owners, Says, Served, AnnouncedOnce, Taken, Failed, NoCmd, Cmds, Release, Prepare, NextEpoch
<1>6. Served'
  BY DEF TypeOK, NoLostCommand, Phases, Epochs, Owners, Says, Served, AnnouncedOnce, Taken, Failed, NoCmd, Cmds, Release, Prepare, NextEpoch
<1>7. AnnouncedOnce'
  BY DEF TypeOK, NoLostCommand, Phases, Epochs, Owners, Says, Served, AnnouncedOnce, Taken, Failed, NoCmd, Cmds, Release, Prepare, NextEpoch
<1> QED BY <1>1, <1>2, <1>3, <1>4, <1>5, <1>6, <1>7

LEMMA ExchangeKeeps ==
  ASSUME IInv, Exchange, UNCHANGED torn
  PROVE  IInv'
<1> USE BoundsAssumption DEF IInv
<1>1. TypeOK'
  BY DEF TypeOK, NoLostCommand, Phases, Epochs, Owners, Says, Served, AnnouncedOnce, Taken, Failed, NoCmd, Cmds, Exchange
<1>2. NoLostCommand'
  BY DEF TypeOK, NoLostCommand, Phases, Epochs, Owners, Says, Served, AnnouncedOnce, Taken, Failed, NoCmd, Cmds, Exchange
<1>3. Phases'
  BY DEF TypeOK, NoLostCommand, Phases, Epochs, Owners, Says, Served, AnnouncedOnce, Taken, Failed, NoCmd, Cmds, Exchange
<1>4. Epochs'
  BY DEF TypeOK, NoLostCommand, Phases, Epochs, Owners, Says, Served, AnnouncedOnce, Taken, Failed, NoCmd, Cmds, Exchange
<1>5. Owners'
  BY DEF TypeOK, NoLostCommand, Phases, Epochs, Owners, Says, Served, AnnouncedOnce, Taken, Failed, NoCmd, Cmds, Exchange
<1>6. Served'
  BY DEF TypeOK, NoLostCommand, Phases, Epochs, Owners, Says, Served, AnnouncedOnce, Taken, Failed, NoCmd, Cmds, Exchange
<1>7. AnnouncedOnce'
  BY DEF TypeOK, NoLostCommand, Phases, Epochs, Owners, Says, Served, AnnouncedOnce, Taken, Failed, NoCmd, Cmds, Exchange
<1> QED BY <1>1, <1>2, <1>3, <1>4, <1>5, <1>6, <1>7

LEMMA StoreKeeps ==
  ASSUME IInv, Store, UNCHANGED torn
  PROVE  IInv'
<1> USE BoundsAssumption DEF IInv
<1>1. TypeOK'
  BY DEF TypeOK, NoLostCommand, Phases, Epochs, Owners, Says, Served, AnnouncedOnce, Taken, Failed, NoCmd, Cmds, Store, Notifies
<1>2. NoLostCommand'
  BY DEF TypeOK, NoLostCommand, Phases, Epochs, Owners, Says, Served, AnnouncedOnce, Taken, Failed, NoCmd, Cmds, Store, Notifies
<1>3. Phases'
  BY DEF TypeOK, NoLostCommand, Phases, Epochs, Owners, Says, Served, AnnouncedOnce, Taken, Failed, NoCmd, Cmds, Store, Notifies
<1>4. Epochs'
  BY DEF TypeOK, NoLostCommand, Phases, Epochs, Owners, Says, Served, AnnouncedOnce, Taken, Failed, NoCmd, Cmds, Store, Notifies
<1>5. Owners'
  BY DEF TypeOK, NoLostCommand, Phases, Epochs, Owners, Says, Served, AnnouncedOnce, Taken, Failed, NoCmd, Cmds, Store, Notifies
<1>6. Served'
  BY DEF TypeOK, NoLostCommand, Phases, Epochs, Owners, Says, Served, AnnouncedOnce, Taken, Failed, NoCmd, Cmds, Store, Notifies
<1>7. AnnouncedOnce'
  BY DEF TypeOK, NoLostCommand, Phases, Epochs, Owners, Says, Served, AnnouncedOnce, Taken, Failed, NoCmd, Cmds, Store, Notifies
<1> QED BY <1>1, <1>2, <1>3, <1>4, <1>5, <1>6, <1>7

LEMMA StoreLateKeeps ==
  ASSUME IInv, StoreLate, UNCHANGED torn
  PROVE  IInv'
<1> USE BoundsAssumption DEF IInv
<1>1. TypeOK'
  BY DEF TypeOK, NoLostCommand, Phases, Epochs, Owners, Says, Served, AnnouncedOnce, Taken, Failed, NoCmd, Cmds, StoreLate
<1>2. NoLostCommand'
  BY DEF TypeOK, NoLostCommand, Phases, Epochs, Owners, Says, Served, AnnouncedOnce, Taken, Failed, NoCmd, Cmds, StoreLate
<1>3. Phases'
  BY DEF TypeOK, NoLostCommand, Phases, Epochs, Owners, Says, Served, AnnouncedOnce, Taken, Failed, NoCmd, Cmds, StoreLate
<1>4. Epochs'
  BY DEF TypeOK, NoLostCommand, Phases, Epochs, Owners, Says, Served, AnnouncedOnce, Taken, Failed, NoCmd, Cmds, StoreLate
<1>5. Owners'
  BY DEF TypeOK, NoLostCommand, Phases, Epochs, Owners, Says, Served, AnnouncedOnce, Taken, Failed, NoCmd, Cmds, StoreLate
<1>6. Served'
  BY DEF TypeOK, NoLostCommand, Phases, Epochs, Owners, Says, Served, AnnouncedOnce, Taken, Failed, NoCmd, Cmds, StoreLate
<1>7. AnnouncedOnce'
  BY DEF TypeOK, NoLostCommand, Phases, Epochs, Owners, Says, Served, AnnouncedOnce, Taken, Failed, NoCmd, Cmds, StoreLate
<1> QED BY <1>1, <1>2, <1>3, <1>4, <1>5, <1>6, <1>7

LEMMA TearKeeps ==
  ASSUME IInv, Tear
  PROVE  IInv'
<1> USE DEF IInv, Tear, front
<1>1. TypeOK' /\ NoLostCommand' /\ Phases' /\ AnnouncedOnce'
  BY DEF TypeOK, NoLostCommand, Phases, AnnouncedOnce
<1>2. Epochs' /\ Owners' /\ Served'
  BY DEF Epochs, Owners, Says, Served, Taken, Failed
<1> QED
  BY <1>1, <1>2

LEMMA NotifyKeeps ==
  ASSUME IInv, Notify, UNCHANGED torn
  PROVE  IInv'
<1> USE BoundsAssumption DEF IInv
<1>1. TypeOK'
  BY DEF TypeOK, NoLostCommand, Phases, Epochs, Owners, Says, Served, AnnouncedOnce, Taken, Failed, NoCmd, Cmds, Notify
<1>2. NoLostCommand'
  BY DEF TypeOK, NoLostCommand, Phases, Epochs, Owners, Says, Served, AnnouncedOnce, Taken, Failed, NoCmd, Cmds, Notify
<1>3. Phases'
  BY DEF TypeOK, NoLostCommand, Phases, Epochs, Owners, Says, Served, AnnouncedOnce, Taken, Failed, NoCmd, Cmds, Notify
<1>4. Epochs'
  BY DEF TypeOK, NoLostCommand, Phases, Epochs, Owners, Says, Served, AnnouncedOnce, Taken, Failed, NoCmd, Cmds, Notify
<1>5. Owners'
  BY DEF TypeOK, NoLostCommand, Phases, Epochs, Owners, Says, Served, AnnouncedOnce, Taken, Failed, NoCmd, Cmds, Notify
<1>6. Served'
  BY DEF TypeOK, NoLostCommand, Phases, Epochs, Owners, Says, Served, AnnouncedOnce, Taken, Failed, NoCmd, Cmds, Notify
<1>7. AnnouncedOnce'
  BY DEF TypeOK, NoLostCommand, Phases, Epochs, Owners, Says, Served, AnnouncedOnce, Taken, Failed, NoCmd, Cmds, Notify
<1> QED BY <1>1, <1>2, <1>3, <1>4, <1>5, <1>6, <1>7

LEMMA TickBeginKeeps ==
  ASSUME IInv, TickBegin, UNCHANGED torn
  PROVE  IInv'
<1> USE BoundsAssumption DEF IInv
<1>1. TypeOK'
  BY DEF TypeOK, NoLostCommand, Phases, Epochs, Owners, Says, Served, AnnouncedOnce, Taken, Failed, NoCmd, Cmds, TickBegin, front
<1>2. NoLostCommand'
  BY DEF TypeOK, NoLostCommand, Phases, Epochs, Owners, Says, Served, AnnouncedOnce, Taken, Failed, NoCmd, Cmds, TickBegin, front
<1>3. Phases'
  BY DEF TypeOK, NoLostCommand, Phases, Epochs, Owners, Says, Served, AnnouncedOnce, Taken, Failed, NoCmd, Cmds, TickBegin, front
<1>4. Epochs'
  BY DEF TypeOK, NoLostCommand, Phases, Epochs, Owners, Says, Served, AnnouncedOnce, Taken, Failed, NoCmd, Cmds, TickBegin, front
<1>5. Owners'
  BY DEF TypeOK, NoLostCommand, Phases, Epochs, Owners, Says, Served, AnnouncedOnce, Taken, Failed, NoCmd, Cmds, TickBegin, front
<1>6. Served'
  BY DEF TypeOK, NoLostCommand, Phases, Epochs, Owners, Says, Served, AnnouncedOnce, Taken, Failed, NoCmd, Cmds, TickBegin, front
<1>7. AnnouncedOnce'
  BY DEF TypeOK, NoLostCommand, Phases, Epochs, Owners, Says, Served, AnnouncedOnce, Taken, Failed, NoCmd, Cmds, TickBegin, front
<1> QED BY <1>1, <1>2, <1>3, <1>4, <1>5, <1>6, <1>7

LEMMA HandleUpdateKeeps ==
  ASSUME IInv, HandleUpdate, UNCHANGED torn
  PROVE  IInv'
<1> USE BoundsAssumption DEF IInv
<1>1. TypeOK'
  <2>1. bufs' \in [write : Cmds, middle : Cmds, read : {NoCmd}]
    BY CommandTypes DEF TypeOK, HandleUpdate
  <2>2. back' \in [cmd_id : 0..MaxCmd, state : {"stopped", "running", "expired"}, left : Nat]
    BY DEF TypeOK, Cmds, HandleUpdate, After, Ticks, Larger
  <2> QED
    BY <2>1, <2>2 DEF TypeOK, HandleUpdate
<1>2. NoLostCommand'
  BY DEF TypeOK, NoLostCommand, Phases, Epochs, Owners, Says, Served, AnnouncedOnce, Taken, Failed, NoCmd, Cmds, HandleUpdate, After, Ticks, Larger
<1>3. Phases'
  BY DEF TypeOK, NoLostCommand, Phases, Epochs, Owners, Says, Served, AnnouncedOnce, Taken, Failed, NoCmd, Cmds, HandleUpdate, After, Ticks, Larger
<1>4. Epochs'
  BY DEF TypeOK, NoLostCommand, Phases, Epochs, Owners, Says, Served, AnnouncedOnce, Taken, Failed, NoCmd, Cmds, HandleUpdate, After, Ticks, Larger
<1>5. Owners'
  BY DEF TypeOK, NoLostCommand, Phases, Epochs, Owners, Says, Served, AnnouncedOnce, Taken, Failed, NoCmd, Cmds, HandleUpdate, After, Ticks, Larger
<1>6. Served'
  BY DEF TypeOK, NoLostCommand, Phases, Epochs, Owners, Says, Served, AnnouncedOnce, Taken, Failed, NoCmd, Cmds, HandleUpdate, After, Ticks, Larger
<1>7. AnnouncedOnce'
  BY DEF TypeOK, NoLostCommand, Phases, Epochs, Owners, Says, Served, AnnouncedOnce, Taken, Failed, NoCmd, Cmds, HandleUpdate, After, Ticks, Larger
<1> QED BY <1>1, <1>2, <1>3, <1>4, <1>5, <1>6, <1>7

LEMMA HandlePostponedKeeps ==
  ASSUME IInv, HandlePostponed, UNCHANGED torn
  PROVE  IInv'
<1> USE BoundsAssumption DEF IInv
<1> DEFINE head == Head(failed)
<1>a. /\ head \in 1..MaxCmd /\ 1 \in DOMAIN failed /\ failed[1] = head
      /\ Rest \in Seq(1..MaxCmd)
      /\ \A i \in DOMAIN Rest : i \in Nat /\ i + 1 \in DOMAIN failed /\ Rest[i] = failed[i + 1]
      /\ \A i \in DOMAIN failed \ {1} : i - 1 \in DOMAIN Rest /\ Rest[i - 1] = failed[i]
  BY Shortened DEF HandlePostponed, Rest, TypeOK
<1>b. \/ failed' = failed /\ tasks' = tasks
      \/ failed' = Rest /\ tasks' = tasks /\ (head # cmd_id \/ head # back.cmd_id)
      \/ failed' = Rest /\ tasks' = tasks \cup {head} /\ head = cmd_id /\ head = back.cmd_id
  BY DEF HandlePostponed, Outdated, Dispatch, Refuse
<1>c. failed' \in Seq(1..MaxCmd) /\ \A i \in DOMAIN failed' : Failed(failed'[i])
  BY <1>a, <1>b DEF TypeOK, Failed
<1>d. \A epoch : Failed(epoch) /\ epoch # head => Failed(epoch)'
  BY <1>a, <1>b DEF Failed
<1>e. AnnouncedOnce'
  <2>1. \A i, j \in DOMAIN Rest : Rest[i] = Rest[j] => i = j
    BY <1>a DEF AnnouncedOnce, TypeOK
  <2>2. \A i \in DOMAIN Rest : Rest[i] # head /\ Rest[i] \notin tasks
    BY <1>a DEF AnnouncedOnce, TypeOK
  <2> QED
    BY <2>1, <2>2, <1>b, <1>c DEF AnnouncedOnce, TypeOK
<1>f. /\ UNCHANGED <<state, place, owned, push, cmd_id, bufs, signals, batch, back, left>>
      /\ phase' \in {"commands", "advance"} /\ refused' \in 0..MaxFailed /\ phase = "commands"
      /\ tasks' \subseteq 1..MaxCmd
  <2>1. phase = "commands" /\ phase' \in {"commands", "advance"} /\ refused' \in 0..MaxFailed
    BY DEF HandlePostponed, Dispatch, Refuse, TypeOK
  <2>2. tasks' \subseteq 1..MaxCmd
    BY <1>a, <1>b DEF TypeOK
  <2> QED
    BY <2>1, <2>2 DEF HandlePostponed, front
<1>g. Failed(cmd_id)' => Failed(cmd_id)
  BY <1>c, <1>f DEF Failed
<1>1. TypeOK'
  BY <1>c, <1>f DEF TypeOK
<1>2. NoLostCommand'
  BY DEF TypeOK, NoLostCommand, Phases, Epochs, Owners, Says, Served, AnnouncedOnce, Taken, Failed, NoCmd, Cmds, HandlePostponed, Outdated, Rest, Dispatch, Refuse, front
<1>3. Phases'
  BY DEF TypeOK, NoLostCommand, Phases, Epochs, Owners, Says, Served, AnnouncedOnce, Taken, Failed, NoCmd, Cmds, HandlePostponed, Outdated, Rest, Dispatch, Refuse, front
<1>4. Epochs'
  <2>1. \A i \in DOMAIN failed' : failed'[i] <= cmd_id'
    BY <1>c, <1>f DEF Epochs, Failed
  <2>2. Taken' <=> Taken
    BY <1>f DEF Taken
  <2>3. cmd_id' \in tasks' => cmd_id \in tasks \/ Failed(cmd_id)
    BY <1>a, <1>b, <1>f DEF Failed
  <2>4. \A epoch \in tasks' : epoch <= cmd_id'
    BY <1>a, <1>b, <1>f DEF Epochs
  <2> QED
    BY <2>1, <2>2, <2>3, <2>4, <1>f, <1>g DEF Epochs
<1>5. Owners'
  BY DEF TypeOK, NoLostCommand, Phases, Epochs, Owners, Says, Served, AnnouncedOnce, Taken, Failed, NoCmd, Cmds, HandlePostponed, Outdated, Rest, Dispatch, Refuse, front
<1>6. Served'
  <2>1. Taken' <=> Taken
    BY <1>f DEF Taken
  <2>2. cmd_id \in tasks \/ Failed(cmd_id) => cmd_id' \in tasks' \/ Failed(cmd_id)'
    <3>1. CASE Failed(cmd_id) /\ cmd_id # head
      BY <3>1, <1>d, <1>f DEF Failed
    <3>2. CASE Taken /\ cmd_id = head
      BY <3>2, <1>b, <1>f DEF Epochs, Failed
    <3>3. CASE cmd_id \in tasks
      BY <3>3, <1>b, <1>f
    <3>4. ~Taken => cmd_id \notin tasks /\ ~Failed(cmd_id)
      BY DEF Epochs
    <3> QED
      BY <3>1, <3>2, <3>3, <3>4
  <2>3. cmd_id' \in tasks' => cmd_id \in tasks \/ Failed(cmd_id)
    BY <1>a, <1>b, <1>f DEF Failed
  <2> QED
    BY <2>1, <2>2, <2>3, <1>f, <1>g DEF Served
<1>7. AnnouncedOnce'
  BY <1>e DEF AnnouncedOnce
<1> QED BY <1>1, <1>2, <1>3, <1>4, <1>5, <1>6, <1>7

LEMMA AdvanceKeeps ==
  ASSUME IInv, Advance, UNCHANGED torn
  PROVE  IInv'
<1> USE BoundsAssumption DEF IInv
<1>a. /\ back' \in [cmd_id : 0..MaxCmd, state : {"stopped", "running", "expired"}, left : Nat]
      /\ back'.cmd_id = back.cmd_id /\ back'.state = back.state
      /\ back.state = "running" => back'.left = back.left - 1
  <2>1. CASE back.state = "running"
    <3>1. phase # "expire"
      BY DEF Advance
    <3>2. back.left - 1 \in Nat
      BY <2>1, <3>1 DEF TypeOK, Phases
    <3> QED
      BY <2>1, <3>2 DEF Advance, TypeOK
  <2>2. CASE back.state # "running"
    BY <2>2 DEF Advance, TypeOK
  <2> QED
    BY <2>1, <2>2
<1>1. TypeOK'
  BY <1>a DEF TypeOK, Advance, Larger, front
<1>2. NoLostCommand'
  BY DEF TypeOK, NoLostCommand, Phases, Epochs, Owners, Says, Served, AnnouncedOnce, Taken, Failed, NoCmd, Cmds, Advance, Larger, front
<1>3. Phases'
  BY DEF TypeOK, NoLostCommand, Phases, Epochs, Owners, Says, Served, AnnouncedOnce, Taken, Failed, NoCmd, Cmds, Advance, Larger, front
<1>4. Epochs'
  BY DEF TypeOK, NoLostCommand, Phases, Epochs, Owners, Says, Served, AnnouncedOnce, Taken, Failed, NoCmd, Cmds, Advance, Larger, front
<1>5. Owners'
  <2>1. UNCHANGED <<state, place, owned, push, bufs>> /\ back'.state = back.state
    BY <1>a DEF Advance, front
  <2>2. left' \in Nat /\ left' <= left
    BY DEF Advance, TypeOK, Larger
  <2>3. ASSUME NEW cmd \in Cmds, Says(cmd)
        PROVE  Says(cmd)'
    <3>1. Ticks(cmd.duration) \in Nat
      BY CommandTypes
    <3> QED
      BY <2>1, <2>2, <2>3, <3>1 DEF Says, TypeOK, Ticks
  <2> QED
    BY <2>1, <2>3 DEF Owners, Taken, TypeOK
<1>6. Served'
  BY DEF TypeOK, NoLostCommand, Phases, Epochs, Owners, Says, Served, AnnouncedOnce, Taken, Failed, NoCmd, Cmds, Advance, Larger, front
<1>7. AnnouncedOnce'
  BY DEF TypeOK, NoLostCommand, Phases, Epochs, Owners, Says, Served, AnnouncedOnce, Taken, Failed, NoCmd, Cmds, Advance, Larger, front
<1> QED BY <1>1, <1>2, <1>3, <1>4, <1>5, <1>6, <1>7

LEMMA ExpireKeeps ==
  ASSUME IInv, Expire, UNCHANGED torn
  PROVE  IInv'
<1> USE BoundsAssumption DEF IInv
<1>a. /\ back' = [back EXCEPT !.state = "expired"] /\ back.cmd_id \in 0..MaxCmd
      /\ back.state = "running" /\ back.cmd_id # 0
  BY DEF Expire, TypeOK, Phases, Epochs
<1>b. /\ Append(failed, back.cmd_id) \in Seq(1..MaxCmd)
      /\ DOMAIN Append(failed, back.cmd_id) = DOMAIN failed \cup {Len(failed) + 1}
      /\ \A i \in DOMAIN failed : Append(failed, back.cmd_id)[i] = failed[i]
      /\ Append(failed, back.cmd_id)[Len(failed) + 1] = back.cmd_id
  BY <1>a, Appended DEF TypeOK
<1>c. \/ failed' = failed /\ tasks' = tasks /\ back.cmd_id # cmd_id
      \/ failed' = failed /\ tasks' = tasks \cup {back.cmd_id} /\ back.cmd_id = cmd_id
      \/ failed' = Append(failed, back.cmd_id) /\ tasks' = tasks /\ back.cmd_id = cmd_id
  BY DEF Expire, Dispatch, Refuse
<1>d. back.cmd_id = cmd_id => Taken /\ cmd_id \notin tasks /\ ~Failed(cmd_id)
  BY <1>a DEF Epochs, Served, TypeOK
<1>1. TypeOK'
  <2>1. UNCHANGED <<state, place, owned, push, cmd_id, bufs, signals, batch, left>> /\ phase' = "idle"
    BY DEF Expire, front
  <2>2. refused' \in 0..MaxFailed
    BY DEF Expire, Dispatch, Refuse, TypeOK
  <2>3. tasks' \subseteq 1..MaxCmd
    <3>1. back.cmd_id \in 1..MaxCmd
      BY <1>a
    <3> QED
      BY <3>1, <1>c DEF TypeOK
  <2>4. failed' \in Seq(1..MaxCmd)
    BY <1>b, <1>c DEF TypeOK
  <2>5. back' \in [cmd_id : 0..MaxCmd, state : {"stopped", "running", "expired"}, left : Nat]
    BY <1>a DEF TypeOK
  <2> QED
    BY <2>1, <2>2, <2>3, <2>4, <2>5 DEF TypeOK
<1>2. NoLostCommand'
  BY DEF TypeOK, NoLostCommand, Phases, Epochs, Owners, Says, Served, AnnouncedOnce, Taken, Failed, NoCmd, Cmds, Expire, Dispatch, Refuse, front
<1>3. Phases'
  BY DEF TypeOK, NoLostCommand, Phases, Epochs, Owners, Says, Served, AnnouncedOnce, Taken, Failed, NoCmd, Cmds, Expire, Dispatch, Refuse, front
<1>4. Epochs'
  BY <1>a, <1>b, <1>c, <1>d DEF TypeOK, Epochs, Taken, Failed, Expire, Refuse, Dispatch, front
<1>5. Owners'
  BY DEF TypeOK, NoLostCommand, Phases, Epochs, Owners, Says, Served, AnnouncedOnce, Taken, Failed, NoCmd, Cmds, Expire, Dispatch, Refuse, front
<1>6. Served'
  BY DEF TypeOK, NoLostCommand, Phases, Epochs, Owners, Says, Served, AnnouncedOnce, Taken, Failed, NoCmd, Cmds, Expire, Dispatch, Refuse, front
<1>7. AnnouncedOnce'
  <2>1. CASE failed' = failed /\ tasks' = tasks
    BY <2>1 DEF AnnouncedOnce
  <2>2. CASE failed' = failed /\ tasks' = tasks \cup {back.cmd_id} /\ back.cmd_id = cmd_id
    BY <2>2, <1>d DEF AnnouncedOnce, Failed
  <2>3. CASE failed' = Append(failed, back.cmd_id) /\ tasks' = tasks /\ back.cmd_id = cmd_id
    BY <2>3, <1>b, <1>d DEF AnnouncedOnce, Failed
  <2> QED
    BY <1>c, <2>1, <2>2, <2>3
<1> QED BY <1>1, <1>2, <1>3, <1>4, <1>5, <1>6, <1>7

LEMMA RunTaskKeeps ==
  ASSUME IInv, NEW epoch \in tasks, RunTask(epoch), UNCHANGED torn
  PROVE  IInv'
<1> USE BoundsAssumption DEF IInv
<1>1. TypeOK'
  BY DEF TypeOK, NoLostCommand, Phases, Epochs, Owners, Says, Served, AnnouncedOnce, Taken, Failed, NoCmd, Cmds, RunTask
<1>2. NoLostCommand'
  BY DEF TypeOK, NoLostCommand, Phases, Epochs, Owners, Says, Served, AnnouncedOnce, Taken, Failed, NoCmd, Cmds, RunTask
<1>3. Phases'
  BY DEF TypeOK, NoLostCommand, Phases, Epochs, Owners, Says, Served, AnnouncedOnce, Taken, Failed, NoCmd, Cmds, RunTask
<1>4. Epochs'
  BY DEF TypeOK, NoLostCommand, Phases, Epochs, Owners, Says, Served, AnnouncedOnce, Taken, Failed, NoCmd, Cmds, RunTask
<1>5. Owners'
  BY DEF TypeOK, NoLostCommand, Phases, Epochs, Owners, Says, Served, AnnouncedOnce, Taken, Failed, NoCmd, Cmds, RunTask
<1>6. Served'
  BY DEF TypeOK, NoLostCommand, Phases, Epochs, Owners, Says, Served, AnnouncedOnce, Taken, Failed, NoCmd, Cmds, RunTask
<1>7. AnnouncedOnce'
  BY DEF TypeOK, NoLostCommand, Phases, Epochs, Owners, Says, Served, AnnouncedOnce, Taken, Failed, NoCmd, Cmds, RunTask
<1> QED BY <1>1, <1>2, <1>3, <1>4, <1>5, <1>6, <1>7

LEMMA InitHolds ==
  ASSUME Init
  PROVE  IInv
<1>1. TypeOK
  <2>1. bufs \in [write : Cmds, middle : Cmds, read : {NoCmd}]
    BY CommandTypes DEF Init
  <2>2. 0 \in 0..MaxCmd /\ 0 \in 0..MaxFailed
    BY BoundsAssumption
  <2>3. back \in [cmd_id : 0..MaxCmd, state : {"stopped", "running", "expired"}, left : Nat]
    BY <2>2 DEF Init
  <2>4. failed \in Seq(1..MaxCmd) /\ tasks \subseteq 1..MaxCmd
    BY DEF Init
  <2>5. /\ state \in {"stopped", "running", "expired"}
        /\ place \in {"none", "pending", "made", "released"} /\ owned \in BOOLEAN
        /\ push \in {"idle", "exchange", "store", "notify", "stale"} /\ torn \in BOOLEAN
        /\ phase \in {"idle", "commands", "advance", "expire"}
    BY DEF Init
  <2>6. signals \in 0..1 /\ batch \in 0..1 /\ left \in Nat /\ cmd_id \in 0..MaxCmd /\ refused \in 0..MaxFailed
    BY <2>2 DEF Init
  <2> QED
    BY <2>1, <2>3, <2>4, <2>5, <2>6 DEF TypeOK
<1>2. NoLostCommand /\ Phases /\ AnnouncedOnce
  BY DEF Init, NoLostCommand, Phases, AnnouncedOnce, NoCmd
<1>3. Taken /\ ~Failed(cmd_id)
  BY DEF Init, Taken, Failed, NoCmd
<1>4. Epochs /\ Owners /\ Served
  BY <1>3 DEF Init, Epochs, Owners, Served, NoCmd, Says
<1> QED
  BY <1>1, <1>2, <1>4 DEF IInv

LEMMA StutterKeeps ==
  ASSUME IInv, UNCHANGED vars
  PROVE  IInv'
<1> USE DEF IInv, vars, front
<1>1. TypeOK' /\ NoLostCommand' /\ Phases' /\ AnnouncedOnce'
  BY DEF TypeOK, NoLostCommand, Phases, AnnouncedOnce
<1>2. Epochs' /\ Owners' /\ Served'
  BY DEF Epochs, Owners, Says, Served, Taken, Failed
<1> QED
  BY <1>1, <1>2

\* The invariant is inductive: it holds first, and every step keeps it.
THEOREM Inductive == Spec => []IInv
<1>1. Init => IInv
  BY InitHolds
<1>2. IInv /\ [Next]_vars => IInv'
  <2> SUFFICES ASSUME IInv, [Next]_vars
               PROVE  IInv'
    OBVIOUS
  <2>1. CASE Sound /\ Owner
    <3>1. ASSUME NEW duration \in Durations, Run(duration)
          PROVE  IInv'
      BY <2>1, <3>1, RunKeeps DEF Sound
    <3> QED
      BY <2>1, <3>1, CreateKeeps, CreateFromPoolKeeps, StopKeeps, ReleaseKeeps DEF Owner, Sound
  <2>2. CASE Sound /\ Push
    BY <2>2, ExchangeKeeps, StoreKeeps, NotifyKeeps, StoreLateKeeps DEF Push, Sound
  <2>3. CASE Sound /\ Ticker
    BY <2>3, TickBeginKeeps, HandleUpdateKeeps, HandlePostponedKeeps, AdvanceKeeps, ExpireKeeps
       DEF Ticker, Sound
  <2>4. ASSUME NEW epoch \in tasks, Sound, RunTask(epoch)
        PROVE  IInv'
    BY <2>4, RunTaskKeeps DEF Sound
  <2>5. CASE UNCHANGED vars
    BY <2>5, StutterKeeps
  <2> QED
    BY <2>1, <2>2, <2>3, <2>4, <2>5, TearKeeps DEF Next
<1> QED
  BY <1>1, <1>2, PTL DEF Spec

\* Every command reaches the back-end, with exactly one signal for as long as
\* it has not, and a timer changes hands when nothing of its last owner is left
\* but the store of the write buffer; until a push overtakes that store.
THEOREM CommandsAlwaysArrive == Spec => []CommandsArrive
<1>1. IInv => CommandsArrive
  BY DEF IInv, CommandsArrive, PoolIsClean, Owners, Taken
<1> QED
  BY <1>1, Inductive, PTL

\* A run that goes on is served by the back-end, ends in one announcement, and
\* the announcement finds the timer running: the assertion of the expiry task.
THEOREM RunsAlwaysEndOnce == Spec => []RunsEndOnce
<1>1. IInv => ExpiryFindsRunning
  BY DEF IInv, ExpiryFindsRunning, Epochs, Served, Owners
<1>2. IInv => RunIsServed
  BY DEF IInv, RunIsServed, Epochs, Served, Taken, Failed
<1>3. IInv => RunsEndOnce
  BY <1>1, <1>2 DEF IInv, RunsEndOnce
<1> QED
  BY <1>3, Inductive, PTL

\* Every step of the timer manager is a step of the promise or leaves the
\* timer as it is: it never expires early, after a stop, or twice.
THEOREM PromiseKept == Spec => Promise!Init /\ [][Promise!Next]_Promise!vars
<1> USE DEF Promise!vars, Promise!Keeps, Promise!Tear, Promise!Next, Promise!Run, Promise!Stop, Promise!Renew, Promise!Pass, Promise!Expire
<1>1. Init => Promise!Init
  BY DEF Init, Promise!Init
<1>2. ASSUME IInv, [Next]_vars
      PROVE  [Promise!Next]_Promise!vars
  <2>1. ASSUME NEW duration \in Durations, Run(duration)
        PROVE  Promise!Run
    <3>1. left' = IF duration = 0 THEN 1 ELSE duration
      BY <2>1, BoundsAssumption DEF Run, Larger
    <3> QED
      BY <2>1, <3>1 DEF Run
  <2>2. CASE Sound /\ (Create \/ CreateFromPool \/ Stop \/ Release)
    BY <2>2 DEF Sound, Create, CreateFromPool, Stop, Release
  <2>3. CASE Sound /\ Advance
    <3>1. left' = IF left > 0 THEN left - 1 ELSE left
      BY <1>2, <2>3 DEF Advance, Larger, IInv, TypeOK
    <3> QED
      BY <2>3, <3>1 DEF Advance, front, Sound
  <2>4. ASSUME NEW epoch \in tasks, Sound, RunTask(epoch)
        PROVE  [Promise!Next]_Promise!vars
    <3>1. epoch = cmd_id => state = "running" /\ left = 0
      BY <1>2, <2>4 DEF IInv, Epochs, Served
    <3> QED
      BY <2>4, <3>1 DEF RunTask, Sound
  <2>5. CASE Sound /\ (TickBegin \/ HandleUpdate \/ HandlePostponed \/ Expire \/ Push)
    BY <2>5 DEF TickBegin, HandleUpdate, HandlePostponed, Expire, Push, Exchange, Store, Notify,
                StoreLate, front, Sound
  <2>6. CASE Tear
    BY <2>6 DEF Tear, front
  <2>7. CASE UNCHANGED vars
    BY <2>7 DEF vars, front
  <2>8. ASSUME Sound, NEW duration \in Durations, Run(duration)
        PROVE  Promise!Next
    BY <2>1, <2>8 DEF Sound
  <2> QED
    BY <1>2, <2>2, <2>3, <2>4, <2>5, <2>6, <2>7, <2>8 DEF Next, Owner, Ticker
<1> QED
  BY <1>1, <1>2, Inductive, PTL DEF Spec

=============================================================================
