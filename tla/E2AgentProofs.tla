---------------------------- MODULE E2AgentProofs ----------------------------
(***************************************************************************)
(* Theorems about E2Agent, for any RIC request ids, actions, requests and  *)
(* queue capacity, and for a RIC that may use its ids again at any time.   *)
(***************************************************************************)
EXTENDS E2Agent, SequenceTheorems, TLAPS

-----------------------------------------------------------------------------
(* Types of the operators the actions are built from                        *)

\* Which fields a PDU has is decided by its type.
LEMMA PduFields ==
    ASSUME NEW pdu \in Pdu
    PROVE  /\ pdu.type = "SubReq" => pdu.key \in Keys /\ pdu.items \in Requests
           /\ pdu.type = "SubDel" => pdu.key \in Keys
BY DEF Pdu

\* A procedure that is popped was queued, and the rest of the queue stays.
LEMMA PopFacts ==
    ASSUME TypeOK, NEW type, Pops(type)
    PROVE  /\ Head(fifo) \in Pdu /\ Head(fifo).type = type
           /\ fifo' \in Seq(Pdu)
           /\ fifo' = Tail(fifo)
           /\ alive = TRUE
           /\ loop = "run"
           /\ ~InRound
<1>1. fifo \in Seq(Pdu) /\ fifo # <<>> /\ fifo' = Tail(fifo)
  BY DEF Pops, TypeOK
<1>2. Head(fifo) \in Pdu /\ Tail(fifo) \in Seq(Pdu)
  BY <1>1, HeadTailProperties
<1>3. QED
  BY <1>1, <1>2 DEF Pops, TypeOK

LEMMA PopKey ==
    ASSUME TypeOK, Pops("SubReq") \/ Pops("SubDel")
    PROVE  /\ Head(fifo).key \in Keys /\ Head(fifo).key \in AllKeys
           /\ fifo' \in Seq(Pdu) /\ ~InRound
<1>1. CASE Pops("SubReq")
  BY <1>1, PopFacts, PduFields DEF AllKeys
<1>2. CASE Pops("SubDel")
  <2>1. /\ Head(fifo) \in Pdu /\ Head(fifo).type = "SubDel"
        /\ fifo' \in Seq(Pdu) /\ ~InRound
    BY <1>2, PopFacts
  <2>2. QED
    BY <2>1, PduFields DEF AllKeys
<1>3. QED
  BY <1>1, <1>2

LEMMA EmitType ==
    ASSUME NEW m \in Message, Emit(m)
    PROVE  out' \in Message
BY DEF Emit, NoMsg, Msg, Message, AllKeys

\* The messages that are about a key, or about none, and carry no list.
LEMMA PlainMessages ==
    ASSUME NEW type \in {"None", "Ind", "SubResp", "SubFail", "DelResp", "DelFail",
                         "CtrlAck", "CtrlFail", "ConnUpdFail"},
           NEW k \in AllKeys
    PROVE  Msg(type, k, <<>>) \in Message
BY DEF Msg, Message

LEMMA NoRoundType == NoRound \in Round
BY DEF NoRound, Round, AllKeys

\* Erase keeps the types of the four variables it assigns.
LEMMA EraseType ==
    ASSUME TypeOK, NEW k \in AllKeys, Erase(k)
    PROVE  /\ subs' \subseteq AllKeys
           /\ acts' \in [AllKeys -> Seq(Entry)]
           /\ task' \in [AllKeys -> {"none", "waiting", "round", "done"}]
           /\ src' \in [AllKeys -> {"absent", "free", "armed"}]
BY DEF Erase, TypeOK

\* start_subscription() changes services only: a list of entries stays one, of
\* the same length, with the same ids and kinds.
LEMMA AttachedType ==
    ASSUME NEW list \in Seq(Entry)
    PROVE  /\ Attached(list) \in Seq(Entry)
           /\ Len(Attached(list)) = Len(list)
           /\ \A i \in 1..Len(list) :
                /\ Attached(list)[i].id = list[i].id
                /\ Attached(list)[i].kind = list[i].kind
                /\ list[i].kind = "report" => Attached(list)[i].svc
<1>1. list \in [1..Len(list) -> Entry] /\ Len(list) \in Nat
  BY LenProperties
<1>2. Attached(list) \in [1..Len(list) -> Entry]
  BY <1>1 DEF Attached, Entry
<1>3. Attached(list) \in Seq(Entry)
  BY <1>1, <1>2, SeqDef
<1>4. Len(Attached(list)) = Len(list)
  BY <1>1, <1>2, <1>3, LenProperties
<1>5. QED
  BY <1>1, <1>3, <1>4 DEF Attached, Entry

\* The action ids of an answer, and the entries of the admitted items.
LEMMA AdmissionType ==
    ASSUME NEW items \in Requests, NEW f \in Admissions(items)
    PROVE  /\ [i \in DOMAIN f |-> Unattached(items[f[i]])] \in Seq(Entry)
           /\ [i \in DOMAIN f |-> items[f[i]].id] \in Seq(ActionIds)
           /\ DOMAIN f # {}
<1>1. items \in Seq(Action)
  BY RequestsAssumption
<1>2. Len(items) \in Nat /\ items \in [1..Len(items) -> Action]
  BY <1>1, LenProperties
<1>3. PICK n \in 1..Len(items) : f \in [1..n -> 1..Len(items)]
  BY DEF Admissions
<1>4. [i \in DOMAIN f |-> Unattached(items[f[i]])] \in [1..n -> Entry]
  BY <1>2, <1>3 DEF Unattached, Action, Entry
<1>5. [i \in DOMAIN f |-> items[f[i]].id] \in [1..n -> ActionIds]
  BY <1>2, <1>3 DEF Action
<1>6. n \in Nat
  BY <1>2
<1>7. /\ [i \in DOMAIN f |-> Unattached(items[f[i]])] \in Seq(Entry)
      /\ [i \in DOMAIN f |-> items[f[i]].id] \in Seq(ActionIds)
  <2>1. [1..n -> Entry] \subseteq Seq(Entry) /\ [1..n -> ActionIds] \subseteq Seq(ActionIds)
    BY <1>6, SeqDef
  <2>2. QED
    BY <1>4, <1>5, <2>1
<1>8. 1 \in DOMAIN f
  BY <1>2, <1>3
<1>9. QED
  BY <1>7, <1>8

LEMMA EncodedType ==
    ASSUME NEW ids \in Seq(ActionIds)
    PROVE  EncodedIds(ids) \in Seq(ActionIds \cup {Unset})
<1>1. Len(ids) \in Nat /\ ids \in [1..Len(ids) -> ActionIds]
  BY LenProperties
<1>2. EncodedIds(ids) \in [1..Len(ids) -> ActionIds \cup {Unset}]
  BY <1>1 DEF EncodedIds
<1>3. QED
  BY <1>1, <1>2, SeqDef

LEMMA LaunchType ==
    ASSUME TypeOK, NEW k \in AllKeys, NEW list \in Seq(Entry), Launch(k, list)
    PROVE  /\ subs' \subseteq AllKeys
           /\ acts' \in [AllKeys -> Seq(Entry)]
           /\ task' \in [AllKeys -> {"none", "waiting", "round", "done"}]
           /\ src' \in [AllKeys -> {"absent", "free", "armed"}]
BY AttachedType DEF Launch, TypeOK

LEMMA ResumeType ==
    ASSUME TypeOK, NEW k \in AllKeys,
           NEW end \in {"period", "delete", "restart"},
           NEW ids \in Seq(ActionIds), Resume(k, end, ids)
    PROVE  /\ task' \in [AllKeys -> {"none", "waiting", "round", "done"}]
           /\ src' \in [AllKeys -> {"absent", "free", "armed"}]
           /\ rnd' \in Round
BY DEF Resume, TypeOK, Round
-----------------------------------------------------------------------------
(* Type correctness                                                         *)

LEMMA TypeInit == Init => TypeOK
<1> SUFFICES ASSUME Init PROVE TypeOK
  OBVIOUS
<1>1. <<>> \in Seq(Entry) /\ <<>> \in Seq(Pdu)
  BY EmptySeq
<1>2. NoMsg \in Message
  BY PlainMessages DEF NoMsg, AllKeys
<1>3. rnd \in Round
  BY NoRoundType DEF Init
<1>4. acts \in [AllKeys -> Seq(Entry)]
  BY <1>1 DEF Init
<1>5. QED
  BY <1>1, <1>2, <1>3, <1>4 DEF Init, TypeOK

\* Every PDU the RIC sends lands in the queue as a PDU, or nowhere.
LEMMA TypeReceive ==
    ASSUME TypeOK, ReceiveIdle \/ ReceiveQueued
    PROVE  TypeOK'
<1>0. NoMsg \in Message
  BY PlainMessages DEF NoMsg, AllKeys
<1>1. PICK pdu \in Pdu : Push(pdu)
  BY DEF ReceiveIdle, ReceiveQueued
<1>2. fifo' \in Seq(Pdu)
  BY <1>1, AppendProperties DEF Push, TypeOK
<1>3. reused' \subseteq Keys
  BY <1>1, PduFields DEF Push, TypeOK
<1>4. QED
  BY <1>0, <1>2, <1>3 DEF ReceiveIdle, ReceiveQueued, TypeOK

LEMMA TypeSetup ==
    ASSUME TypeOK, UNCHANGED reused,
           SetupUnknownFunction \/ SetupNotAllowed
             \/ SetupRejected \/ SetupAccepted
    PROVE  TypeOK'
<1>0. NoMsg \in Message
  BY PlainMessages DEF NoMsg, AllKeys
<1>1. Pops("SubReq")
  BY DEF SetupUnknownFunction, SetupNotAllowed, SetupRejected, SetupAccepted
<1> DEFINE k == Head(fifo).key
<1>2. /\ fifo' \in Seq(Pdu)
      /\ k \in Keys /\ k \in AllKeys /\ ZeroKey \in AllKeys
      /\ Head(fifo).items \in Requests
  BY <1>1, PopFacts, PduFields DEF AllKeys
<1>3. /\ Msg("SubFail", k, <<>>) \in Message
      /\ Msg("SubFail", ZeroKey, <<>>) \in Message
      /\ Msg("SubResp", ZeroKey, <<>>) \in Message
  BY <1>2, PlainMessages
<1>4. CASE SetupUnknownFunction
  <2>1. out' \in Message
    BY <1>3, <1>4, EmitType DEF SetupUnknownFunction
  <2>2. QED
    BY <1>2, <1>4, <2>1 DEF SetupUnknownFunction, TypeOK
<1>5. CASE SetupNotAllowed
  <2>1. out' \in Message
    BY <1>3, <1>5, EmitType DEF SetupNotAllowed
  <2>2. /\ subs' \subseteq AllKeys
        /\ task' \in [AllKeys -> {"none", "waiting", "round", "done"}]
        /\ src' \in [AllKeys -> {"absent", "free", "armed"}]
    BY <1>2, <1>5 DEF SetupNotAllowed, TypeOK
  <2>3. QED
    BY <1>2, <1>5, <2>1, <2>2 DEF SetupNotAllowed, TypeOK
<1>6. CASE SetupRejected
  <2>1. out' \in Message
    BY <1>3, <1>6, EmitType DEF SetupRejected
  <2>2. Erase(k)
    BY <1>6 DEF SetupRejected
  <2>3. QED
    BY <1>2, <1>6, <2>1, <2>2, EraseType DEF SetupRejected, TypeOK
<1>7. CASE SetupAccepted
  <2>1. PICK f \in Admissions(Head(fifo).items) :
          LET new  == [i \in DOMAIN f |-> Unattached(Head(fifo).items[f[i]])]
              ids  == [i \in DOMAIN f |-> Head(fifo).items[f[i]].id]
              list == acts[k] \o new
          IN  \/ /\ src[k] # "armed"
                 /\ Launch(k, list)
                 /\ rnd' = rnd
                 /\ Emit(Msg("SubResp", k, EncodedIds(ids)))
              \/ /\ src[k] = "armed"
                 /\ acts' = [acts EXCEPT ![k] = list]
                 /\ Resume(k, "restart", ids)
                 /\ out' = NoMsg
                 /\ UNCHANGED subs
    BY <1>7 DEF SetupAccepted
  <2> DEFINE new  == [i \in DOMAIN f |-> Unattached(Head(fifo).items[f[i]])]
             ids  == [i \in DOMAIN f |-> Head(fifo).items[f[i]].id]
             list == acts[k] \o new
  <2>2. new \in Seq(Entry) /\ ids \in Seq(ActionIds)
    BY <1>2, AdmissionType
  <2>3. list \in Seq(Entry)
    BY <1>2, <2>2, ConcatProperties DEF TypeOK
  <2>4. Msg("SubResp", k, EncodedIds(ids)) \in Message
    BY <1>2, <2>2, EncodedType DEF Msg, Message
  <2> HIDE DEF new, ids, list, k
  <2>5. alive' = alive /\ conn' = conn /\ allowed' = allowed /\ loop' = loop
    BY <1>7 DEF SetupAccepted
  <2>6. CASE /\ Launch(k, list)
             /\ rnd' = rnd
             /\ Emit(Msg("SubResp", k, EncodedIds(ids)))
    <3>1. out' \in Message
      BY <2>4, <2>6, EmitType
    <3>2. QED
      BY <1>2, <2>3, <2>5, <2>6, <3>1, LaunchType DEF TypeOK
  <2>7. CASE /\ acts' = [acts EXCEPT ![k] = list]
             /\ Resume(k, "restart", ids)
             /\ out' = NoMsg
             /\ UNCHANGED subs
    <3>1. acts' \in [AllKeys -> Seq(Entry)]
      BY <1>2, <2>3, <2>7 DEF TypeOK
    <3>2. QED
      BY <1>0, <1>2, <2>2, <2>5, <2>7, <3>1, ResumeType DEF TypeOK
  <2>8. QED
    BY <2>1, <2>6, <2>7 DEF new, ids, list, k
<1>8. QED
  BY <1>4, <1>5, <1>6, <1>7

LEMMA TypeDelete ==
    ASSUME TypeOK, UNCHANGED reused,
           DeleteUnknown \/ DeleteWaiting \/ DeleteUnobserved
    PROVE  TypeOK'
<1>0. NoMsg \in Message
  BY PlainMessages DEF NoMsg, AllKeys
<1>1. Pops("SubDel")
  BY DEF DeleteUnknown, DeleteWaiting, DeleteUnobserved
<1> DEFINE k == Head(fifo).key
<1>2. fifo' \in Seq(Pdu) /\ k \in AllKeys /\ ZeroKey \in AllKeys
  BY <1>1, PopKey DEF AllKeys
<1>3. Msg("DelResp", k, <<>>) \in Message /\ Msg("DelFail", ZeroKey, <<>>) \in Message
  BY <1>2, PlainMessages
<1>4. CASE DeleteUnknown
  <2>1. out' \in Message
    BY <1>3, <1>4, EmitType DEF DeleteUnknown
  <2>2. QED
    BY <1>2, <1>4, <2>1 DEF DeleteUnknown, TypeOK
<1>5. CASE DeleteWaiting
  <2>1. Resume(k, "delete", <<>>)
    BY <1>5 DEF DeleteWaiting
  <2>2. <<>> \in Seq(ActionIds)
    BY EmptySeq
  <2>3. QED
    BY <1>0, <1>2, <1>5, <2>1, <2>2, ResumeType DEF DeleteWaiting, TypeOK
<1>6. CASE DeleteUnobserved
  <2>1. out' \in Message
    BY <1>3, <1>6, EmitType DEF DeleteUnobserved
  <2>2. Erase(k)
    BY <1>6 DEF DeleteUnobserved
  <2>3. QED
    BY <1>2, <1>6, <2>1, <2>2, EraseType DEF DeleteUnobserved, TypeOK
<1>7. QED
  BY <1>4, <1>5, <1>6

LEMMA TypeOther ==
    ASSUME TypeOK, UNCHANGED reused,
           Control \/ ConnectionUpdate \/ LoopAwait \/ ControlDone
               \/ ReceiveDropped \/ SetupResponse
    PROVE  TypeOK'
<1>0. NoMsg \in Message
  BY PlainMessages DEF NoMsg, AllKeys
<1>1. \A type \in {"CtrlAck", "CtrlFail", "ConnUpdFail"} :
         Msg(type, ZeroKey, <<>>) \in Message
  BY PlainMessages DEF AllKeys
<1>2. CASE Control
  <2>1. fifo' \in Seq(Pdu) /\ loop = "run"
    BY <1>2, PopFacts DEF Control
  <2>2. out' \in Message
    BY <1>0, <1>1, <1>2, EmitType DEF Control
  <2>3. QED
    BY <1>2, <2>1, <2>2 DEF Control, TypeOK
<1>3. CASE ConnectionUpdate
  <2>1. fifo' \in Seq(Pdu)
    BY <1>3, PopFacts DEF ConnectionUpdate
  <2>2. out' \in Message
    BY <1>1, <1>3, EmitType DEF ConnectionUpdate
  <2>3. QED
    BY <1>3, <2>1, <2>2 DEF ConnectionUpdate, TypeOK
<1>4. CASE LoopAwait
  BY <1>0, <1>4 DEF LoopAwait, TypeOK
<1>5. CASE ControlDone
  <2>1. out' \in Message
    BY <1>0, <1>1, <1>5, EmitType DEF ControlDone
  <2>2. QED
    BY <1>5, <2>1 DEF ControlDone, TypeOK
<1>6. CASE ReceiveDropped \/ SetupResponse
  BY <1>0, <1>6 DEF ReceiveDropped, SetupResponse, TypeOK
<1>7. QED
  BY <1>2, <1>3, <1>4, <1>5, <1>6

LEMMA TypeRound ==
    ASSUME TypeOK, UNCHANGED reused, RoundStep
    PROVE  TypeOK'
<1> DEFINE k == rnd.key
<1>0. NoMsg \in Message
  BY PlainMessages DEF NoMsg, AllKeys
<1>1. /\ k \in AllKeys /\ rnd \in Round
      /\ rnd.idx \in Nat \ {0} /\ rnd.ids \in Seq(ActionIds)
      /\ acts[k] \in Seq(Entry)
  BY DEF TypeOK, Round
<1>2. NoRound \in Round
  BY NoRoundType
<1>3. [rnd EXCEPT !.idx = @ + 1] \in Round
  BY <1>1 DEF Round
<1>5. Msg("DelResp", k, <<>>) \in Message
  BY <1>1, PlainMessages
<1> HIDE DEF k
<1>6. CASE RoundSend
  <2>1. Current \in Entry
    <3>1. rnd.idx <= Len(acts[k]) /\ Len(acts[k]) \in Nat
      BY <1>1, <1>6, LenProperties DEF RoundSend, AtAction, k
    <3>2. rnd.idx \in 1..Len(acts[k])
      BY <1>1, <3>1
    <3>3. QED
      BY <1>1, <3>2, ElementOfSeq DEF Current, k
  <2>2. Msg("Ind", k, <<Current.id>>) \in Message
    BY <1>1, <2>1 DEF Msg, Message, Entry
  <2>3. out' \in Message
    BY <1>6, <2>2, EmitType DEF RoundSend, k
  <2>4. QED
    BY <1>3, <1>6, <2>3 DEF RoundSend, TypeOK
<1>7. CASE RoundSkip
  BY <1>0, <1>3, <1>7 DEF RoundSkip, TypeOK
<1>8. CASE RoundCrash
  BY <1>0, <1>8 DEF RoundCrash, TypeOK
<1>9. CASE RoundNextPeriod
  <2>1. /\ task' \in [AllKeys -> {"none", "waiting", "round", "done"}]
        /\ src' \in [AllKeys -> {"absent", "free", "armed"}]
    BY <1>1, <1>9 DEF RoundNextPeriod, TypeOK, k
  <2>2. QED
    BY <1>0, <1>2, <1>9, <2>1 DEF RoundNextPeriod, TypeOK
<1>10. CASE RoundDeleted
  <2>1. out' \in Message
    BY <1>5, <1>10, EmitType DEF RoundDeleted, k
  <2>2. Erase(k) /\ rnd' \in Round
    BY <1>2, <1>10 DEF RoundDeleted, k
  <2>3. QED
    BY <1>1, <1>10, <2>1, <2>2, EraseType DEF RoundDeleted, TypeOK
<1>11. CASE RoundRestarted
  <2>1. Msg("SubResp", k, EncodedIds(rnd.ids)) \in Message
    BY <1>1, EncodedType DEF Msg, Message
  <2>2. out' \in Message
    BY <1>11, <2>1, EmitType DEF RoundRestarted, k
  <2>3. Launch(k, acts[k]) /\ rnd' \in Round
    BY <1>2, <1>11 DEF RoundRestarted, k
  <2>4. QED
    BY <1>1, <1>11, <2>2, <2>3, LaunchType DEF RoundRestarted, TypeOK
<1>12. QED
  BY <1>6, <1>7, <1>8, <1>9, <1>10, <1>11 DEF RoundStep

LEMMA TypeExpire ==
    ASSUME TypeOK, UNCHANGED reused, NEW k \in AllKeys, Expire(k)
    PROVE  TypeOK'
<1>1. Resume(k, "period", <<>>)
  BY DEF Expire
<1>2. <<>> \in Seq(ActionIds) /\ NoMsg \in Message
  BY EmptySeq, PlainMessages DEF NoMsg, AllKeys
<1>3. QED
  BY <1>1, <1>2, ResumeType DEF Expire, TypeOK

LEMMA TypeAssociation ==
    ASSUME TypeOK, UNCHANGED reused, Association
    PROVE  TypeOK'
<1>0. NoMsg \in Message /\ <<>> \in Seq(Entry)
  BY EmptySeq, PlainMessages DEF NoMsg, AllKeys
<1>1. CASE ReceivePathLost
  BY <1>0, <1>1 DEF ReceivePathLost, TypeOK
<1>2. CASE Stop
  BY <1>0, <1>2 DEF Stop, TypeOK
<1>3. CASE LossHandled
  <2>1. acts' \in [AllKeys -> Seq(Entry)]
    BY <1>0, <1>3 DEF LossHandled
  <2>2. QED
    BY <1>0, <1>3, <2>1 DEF LossHandled, TypeOK
<1>4. CASE CloseHandled
  BY <1>0, <1>4 DEF CloseHandled, TypeOK
<1>5. QED
  BY <1>1, <1>2, <1>3, <1>4 DEF Association

LEMMA TypeStep == TypeOK /\ [Next]_vars => TypeOK'
<1> SUFFICES ASSUME TypeOK, [Next]_vars PROVE TypeOK'
  OBVIOUS
<1>1. CASE ReceiveIdle \/ ReceiveQueued
  BY <1>1, TypeReceive
<1>2. CASE Inside /\ UNCHANGED reused
  <2>1. CASE Procedure \/ ControlDone \/ ReceiveDropped \/ SetupResponse
    BY <1>2, <2>1, TypeSetup, TypeDelete, TypeOther DEF Procedure
  <2>2. QED
    BY <1>2, <2>1, TypeRound, TypeExpire, TypeAssociation DEF Inside
<1>3. CASE UNCHANGED vars
  BY <1>3 DEF vars, TypeOK
<1>4. QED
  BY <1>1, <1>2, <1>3 DEF Next

\* Every variable keeps its type, whatever the RIC does.
THEOREM TypeCorrect == Spec => []TypeOK
<1>1. Init => TypeOK
  BY TypeInit
<1>2. TypeOK /\ [Next]_vars => TypeOK'
  BY TypeStep
<1>3. QED
  BY <1>1, <1>2, PTL DEF Spec

-----------------------------------------------------------------------------
(* Events, coroutines and rounds                                             *)

CoreInv ==
    TypeOK /\ ObserverMatchesTask /\ RoundsOwnTask /\ ServicesInPlace /\ OnlyAllowedRun

LEMMA RoundKey ==
    ASSUME TypeOK
    PROVE  rnd.key \in AllKeys /\ rnd.ids \in Seq(ActionIds)
BY DEF TypeOK, Round

\* No round is under way after a step that ends the round of k, or that was taken
\* outside of any.
RoundEnds(k) ==
    \/ ~InRound /\ rnd' = rnd
    \/ InRound /\ rnd.key = k /\ rnd' = NoRound

\* A round that goes on, or is not there, keeps what the invariant says of it.
LEMMA StepKeeps ==
    ASSUME CoreInv, UNCHANGED <<subs, acts, task, src>>,
           rnd'.key = rnd.key, rnd'.end = rnd.end
    PROVE  ObserverMatchesTask' /\ RoundsOwnTask' /\ ServicesInPlace'
<1>1. ObserverMatchesTask'
  BY DEF CoreInv, ObserverMatchesTask
<1>2. RoundsOwnTask'
  BY DEF CoreInv, RoundsOwnTask, InRound
<1>3. ServicesInPlace'
  BY DEF CoreInv, ServicesInPlace, Serviced, InRound
<1>4. QED
  BY <1>1, <1>2, <1>3

LEMMA EraseKeeps ==
    ASSUME CoreInv, NEW k \in AllKeys, Erase(k), RoundEnds(k)
    PROVE  ObserverMatchesTask' /\ RoundsOwnTask' /\ ServicesInPlace'
<1>1. \A j \in AllKeys :
         /\ acts'[j] = IF j = k THEN <<>> ELSE acts[j]
         /\ task'[j] = IF j = k THEN "none" ELSE task[j]
         /\ src'[j] = IF j = k /\ src[j] = "armed" THEN "free" ELSE src[j]
         /\ j \in subs' <=> j \in subs /\ j # k
  BY DEF CoreInv, TypeOK, Erase
<1>2. ~InRound'
  BY DEF RoundEnds, InRound, NoRound
<1>3. ObserverMatchesTask'
  BY <1>1 DEF CoreInv, ObserverMatchesTask
<1>4. RoundsOwnTask'
  BY <1>1, <1>2 DEF CoreInv, RoundsOwnTask, RoundEnds
<1>5. ServicesInPlace'
  BY <1>1, <1>2 DEF CoreInv, ServicesInPlace, Serviced
<1>6. QED
  BY <1>3, <1>4, <1>5

LEMMA LaunchKeeps ==
    ASSUME CoreInv, NEW k \in AllKeys, NEW list \in Seq(Entry),
           Launch(k, list), RoundEnds(k)
    PROVE  ObserverMatchesTask' /\ RoundsOwnTask' /\ ServicesInPlace'
<1>1. \A j \in AllKeys :
         /\ acts'[j] = IF j = k THEN Attached(list) ELSE acts[j]
         /\ task'[j] = IF j = k THEN "waiting" ELSE task[j]
         /\ src'[j] = IF j = k THEN "armed" ELSE src[j]
         /\ j \in subs' <=> j \in subs \/ j = k
  BY DEF CoreInv, TypeOK, Launch
<1>2. Serviced(k)'
  <2>1. Attached(list) \in Seq(Entry) /\ DOMAIN Attached(list) = 1..Len(list)
    BY AttachedType, LenProperties
  <2>2. QED
    BY <1>1, <2>1, AttachedType DEF Serviced
<1>3. ~InRound'
  BY DEF RoundEnds, InRound, NoRound
<1>4. ObserverMatchesTask'
  BY <1>1 DEF CoreInv, ObserverMatchesTask
<1>5. RoundsOwnTask'
  BY <1>1, <1>3 DEF CoreInv, RoundsOwnTask, RoundEnds
<1>6. ServicesInPlace'
  BY <1>1, <1>2, <1>3 DEF CoreInv, ServicesInPlace, Serviced
<1>7. QED
  BY <1>4, <1>5, <1>6

LEMMA ResumeKeeps ==
    ASSUME CoreInv, NEW k \in AllKeys,
           NEW end \in {"period", "delete", "restart"}, NEW ids \in Seq(ActionIds),
           ~InRound, src[k] = "armed", Resume(k, end, ids), UNCHANGED subs,
           \A j \in AllKeys : j # k \/ end # "restart" => acts'[j] = acts[j]
    PROVE  ObserverMatchesTask' /\ RoundsOwnTask' /\ ServicesInPlace'
<1>1. \A j \in AllKeys :
         /\ task'[j] = IF j = k THEN "round" ELSE task[j]
         /\ src'[j] = IF j = k THEN "free" ELSE src[j]
  BY DEF CoreInv, TypeOK, Resume
<1>2. task[k] = "waiting" /\ k \in subs
  BY DEF CoreInv, ObserverMatchesTask
<1>3. rnd'.key = k /\ rnd'.end = end /\ InRound'
  BY DEF Resume, InRound
<1>4. ObserverMatchesTask'
  BY <1>1, <1>2 DEF CoreInv, ObserverMatchesTask
<1>5. RoundsOwnTask'
  BY <1>1, <1>3 DEF CoreInv, RoundsOwnTask
<1>6. ServicesInPlace'
  <2>1. ASSUME NEW j \in AllKeys, task'[j] = "waiting" PROVE Serviced(j)'
    BY <1>1, <2>1 DEF CoreInv, ServicesInPlace, Serviced
  <2>2. end # "restart" => Serviced(k)'
    BY <1>2 DEF CoreInv, ServicesInPlace, Serviced
  <2>3. QED
    BY <1>3, <2>1, <2>2 DEF ServicesInPlace
<1>7. QED
  BY <1>4, <1>5, <1>6

LEMMA CoreInit == Init => CoreInv
<1> SUFFICES ASSUME Init PROVE CoreInv
  OBVIOUS
<1>1. TypeOK
  BY TypeInit
<1>2. ObserverMatchesTask
  BY DEF Init, ObserverMatchesTask
<1>3. RoundsOwnTask /\ ServicesInPlace /\ OnlyAllowedRun
  BY DEF Init, RoundsOwnTask, ServicesInPlace, OnlyAllowedRun, AllKeys,
         InRound, NoRound
<1>4. QED
  BY <1>1, <1>2, <1>3 DEF CoreInv

\* Steps that touch none of the variables the invariant relates.
LEMMA CoreUnchanged ==
    ASSUME CoreInv, UNCHANGED <<subs, acts, task, src, rnd>>
    PROVE  ObserverMatchesTask' /\ RoundsOwnTask' /\ ServicesInPlace'
BY StepKeeps

LEMMA CoreSetup ==
    ASSUME CoreInv,
           SetupNotAllowed \/ SetupRejected \/ SetupAccepted
    PROVE  ObserverMatchesTask' /\ RoundsOwnTask' /\ ServicesInPlace'
<1>0. TypeOK
  BY DEF CoreInv
<1> DEFINE k == Head(fifo).key
<1>1. k \in AllKeys /\ k \in Keys /\ ~InRound /\ Head(fifo).items \in Requests
  BY <1>0, PopFacts, PduFields
     DEF SetupNotAllowed, SetupRejected, SetupAccepted, AllKeys
<1> HIDE DEF k
<1>2. CASE SetupNotAllowed
  <2>1. CASE UNCHANGED <<subs, task, src>>
    BY <1>2, <2>1, CoreUnchanged DEF SetupNotAllowed
  <2>2. CASE /\ src' = [src EXCEPT ![k] = "free"]
             /\ subs' = subs \cup {ZeroKey}
             /\ task' = [task EXCEPT ![ZeroKey] = "done"]
    <3>1. /\ \A j \in AllKeys : task'[j] = IF j = ZeroKey THEN "done" ELSE task[j]
          /\ \A j \in AllKeys : src'[j] = IF j = k THEN "free" ELSE src[j]
          /\ UNCHANGED <<acts, rnd>>
          /\ ZeroKey \in AllKeys
      BY <1>0, <1>2, <2>2 DEF SetupNotAllowed, TypeOK, AllKeys
    <3>2. task[k] = "none" /\ task[ZeroKey] \in {"none", "done"}
      BY <1>1, <1>2 DEF SetupNotAllowed, CoreInv, OnlyAllowedRun
    <3>3. ObserverMatchesTask'
      BY <2>2, <3>1, <3>2 DEF CoreInv, ObserverMatchesTask
    <3>4. RoundsOwnTask'
      BY <1>0, <3>1, <3>2 DEF CoreInv, RoundsOwnTask, InRound
    <3>5. ServicesInPlace'
      BY <3>1 DEF CoreInv, ServicesInPlace, Serviced, InRound
    <3>6. QED
      BY <3>3, <3>4, <3>5
  <2>3. QED
    BY <1>2, <2>1, <2>2 DEF SetupNotAllowed, k
<1>3. CASE SetupRejected
  BY <1>0, <1>1, <1>3, EraseKeeps DEF SetupRejected, RoundEnds, k
<1>4. CASE SetupAccepted
  <2>1. PICK f \in Admissions(Head(fifo).items) :
          LET new  == [i \in DOMAIN f |-> Unattached(Head(fifo).items[f[i]])]
              ids  == [i \in DOMAIN f |-> Head(fifo).items[f[i]].id]
              list == acts[k] \o new
          IN  \/ /\ Launch(k, list)
                 /\ rnd' = rnd
              \/ /\ src[k] = "armed"
                 /\ acts' = [acts EXCEPT ![k] = list]
                 /\ Resume(k, "restart", ids)
                 /\ UNCHANGED subs
    BY <1>4 DEF SetupAccepted, k
  <2> DEFINE new  == [i \in DOMAIN f |-> Unattached(Head(fifo).items[f[i]])]
             ids  == [i \in DOMAIN f |-> Head(fifo).items[f[i]].id]
             list == acts[k] \o new
  <2>2. new \in Seq(Entry) /\ ids \in Seq(ActionIds)
    BY <1>1, AdmissionType
  <2>3. list \in Seq(Entry)
    BY <1>0, <1>1, <2>2, ConcatProperties DEF TypeOK
  <2> HIDE DEF new, ids, list
  <2>4. CASE Launch(k, list) /\ rnd' = rnd
    BY <1>0, <1>1, <2>3, <2>4, LaunchKeeps DEF RoundEnds
  <2>5. CASE /\ src[k] = "armed"
             /\ acts' = [acts EXCEPT ![k] = list]
             /\ Resume(k, "restart", ids)
             /\ UNCHANGED subs
    <3>1. \A j \in AllKeys : j # k => acts'[j] = acts[j]
      BY <1>0, <2>5 DEF TypeOK
    <3>2. QED
      BY <1>1, <2>2, <2>5, <3>1, ResumeKeeps
  <2>6. QED
    BY <2>1, <2>4, <2>5 DEF new, ids, list
<1>5. QED
  BY <1>2, <1>3, <1>4

LEMMA CoreDelete ==
    ASSUME CoreInv, DeleteWaiting \/ DeleteUnobserved
    PROVE  ObserverMatchesTask' /\ RoundsOwnTask' /\ ServicesInPlace'
<1>0. TypeOK
  BY DEF CoreInv
<1> DEFINE k == Head(fifo).key
<1>1. k \in AllKeys /\ ~InRound
  BY <1>0, PopKey DEF DeleteWaiting, DeleteUnobserved
<1> HIDE DEF k
<1>2. CASE DeleteWaiting
  <2>1. <<>> \in Seq(ActionIds)
    BY EmptySeq
  <2>2. QED
    BY <1>1, <1>2, <2>1, ResumeKeeps DEF DeleteWaiting, k
<1>3. CASE DeleteUnobserved
  BY <1>0, <1>1, <1>3, EraseKeeps DEF DeleteUnobserved, RoundEnds, k
<1>4. QED
  BY <1>2, <1>3

LEMMA CoreExpire ==
    ASSUME CoreInv, NEW k \in AllKeys, Expire(k)
    PROVE  ObserverMatchesTask' /\ RoundsOwnTask' /\ ServicesInPlace'
<1>1. <<>> \in Seq(ActionIds)
  BY EmptySeq
<1>2. /\ ~InRound /\ src[k] = "armed" /\ Resume(k, "period", <<>>)
      /\ UNCHANGED <<subs, acts>>
  BY DEF Expire, CanStart
<1>3. QED
  BY <1>1, <1>2, ResumeKeeps

LEMMA CoreRound ==
    ASSUME CoreInv, RoundStep
    PROVE  ObserverMatchesTask' /\ RoundsOwnTask' /\ ServicesInPlace'
<1>0. TypeOK
  BY DEF CoreInv
<1> DEFINE k == rnd.key
<1>1. k \in AllKeys /\ rnd \in Round /\ acts[k] \in Seq(Entry)
  BY <1>0, RoundKey DEF TypeOK
<1>2. CASE RoundSend \/ RoundSkip
  <2>1. rnd' = [rnd EXCEPT !.idx = @ + 1] /\ UNCHANGED <<subs, acts, task, src>>
    BY <1>2 DEF RoundSend, RoundSkip
  <2>2. rnd'.key = rnd.key /\ rnd'.end = rnd.end
    BY <1>1, <2>1 DEF Round
  <2>3. QED
    BY <2>1, <2>2, StepKeeps
<1>3. CASE RoundCrash
  BY <1>3, CoreUnchanged DEF RoundCrash
<1>4. CASE RoundNextPeriod
  <2>1. InRound /\ task[k] = "round" /\ rnd.end = "period"
    BY <1>1, <1>4 DEF RoundNextPeriod, AtEnd, InRound, CoreInv, RoundsOwnTask
  <2>2. ~InRound'
    BY <1>4 DEF RoundNextPeriod, InRound, NoRound
  <2>3. Serviced(k) /\ k \in subs
    BY <1>1, <2>1 DEF CoreInv, ServicesInPlace, ObserverMatchesTask
  <2>4. /\ \A j \in AllKeys : j # k => task'[j] = task[j] /\ src'[j] = src[j]
        /\ task'[k] \in {"waiting", "done"}
        /\ src'[k] = "armed" <=> task'[k] = "waiting"
        /\ UNCHANGED <<subs, acts>>
    BY <1>0, <1>1, <1>4 DEF RoundNextPeriod, TypeOK
  <2>5. ObserverMatchesTask'
    BY <1>1, <2>3, <2>4 DEF CoreInv, ObserverMatchesTask
  <2>6. RoundsOwnTask'
    BY <1>1, <2>2, <2>4 DEF CoreInv, RoundsOwnTask
  <2>7. ServicesInPlace'
    BY <2>2, <2>3, <2>4 DEF CoreInv, ServicesInPlace, Serviced
  <2>8. QED
    BY <2>5, <2>6, <2>7
<1>5. CASE RoundDeleted
  <2>1. Erase(k) /\ RoundEnds(k)
    BY <1>5 DEF RoundDeleted, AtEnd, InRound, RoundEnds
  <2>2. QED
    BY <1>1, <2>1, EraseKeeps
<1>6. CASE RoundRestarted
  <2>1. Launch(k, acts[k]) /\ RoundEnds(k)
    BY <1>6 DEF RoundRestarted, AtEnd, InRound, RoundEnds
  <2>2. QED
    BY <1>1, <2>1, LaunchKeeps
<1>7. QED
  BY <1>2, <1>3, <1>4, <1>5, <1>6 DEF RoundStep

LEMMA CoreLoss ==
    ASSUME CoreInv, LossHandled
    PROVE  ObserverMatchesTask' /\ RoundsOwnTask' /\ ServicesInPlace'
<1>1. \A k \in AllKeys :
         acts'[k] = <<>> /\ task'[k] = "none" /\ src'[k] # "armed" /\ k \notin subs'
  BY DEF LossHandled, CoreInv, TypeOK
<1>2. ~InRound'
  BY DEF LossHandled, CanStart, InRound
<1>3. ObserverMatchesTask'
  BY <1>1 DEF ObserverMatchesTask
<1>4. RoundsOwnTask' /\ ServicesInPlace'
  BY <1>1, <1>2 DEF RoundsOwnTask, ServicesInPlace
<1>5. QED
  BY <1>3, <1>4

\* A coroutine changes its state only if it is one that may run, or to end.
LEMMA AllowedKeeps ==
    ASSUME OnlyAllowedRun, allowed => allowed',
           \A j \in AllKeys : \/ task'[j] = task[j]
                              \/ task'[j] = "none"
                              \/ j \in Keys /\ allowed
                              \/ j = ZeroKey /\ task'[j] = "done"
    PROVE  OnlyAllowedRun'
BY KeysAssumption DEF OnlyAllowedRun, AllKeys

LEMMA MayRun ==
    ASSUME CoreInv, NEW k \in AllKeys, task[k] \in {"waiting", "round"}
    PROVE  k \in Keys /\ allowed
BY DEF CoreInv, OnlyAllowedRun, AllKeys, TypeOK

LEMMA AllowedStep ==
    ASSUME CoreInv, Next
    PROVE  OnlyAllowedRun'
<1>0. TypeOK /\ OnlyAllowedRun /\ (\A k \in AllKeys : src[k] = "armed" => task[k] = "waiting")
  BY DEF CoreInv, ObserverMatchesTask
<1>1. CASE UNCHANGED task /\ (allowed => allowed')
  BY <1>0, <1>1, AllowedKeeps
<1>2. CASE ReceiveIdle \/ ReceiveQueued \/ ReceiveDropped \/ SetupResponse \/ ControlDone
  BY <1>1, <1>2 DEF ReceiveIdle, ReceiveQueued, ReceiveDropped, SetupResponse, ControlDone
<1>3. ASSUME Procedure PROVE OnlyAllowedRun'
  <2> DEFINE k == Head(fifo).key
  <2>1. ASSUME Pops("SubReq") \/ Pops("SubDel")
        PROVE  k \in AllKeys /\ k \in Keys
    BY <1>0, <2>1, PopKey
  <2> HIDE DEF k
  <2>2. CASE SetupUnknownFunction \/ DeleteUnknown \/ Control
              \/ ConnectionUpdate \/ LoopAwait
    BY <1>1, <2>2 DEF SetupUnknownFunction, DeleteUnknown, Control,
                      ConnectionUpdate, LoopAwait
  <2>3. CASE SetupNotAllowed
    <3>1. allowed' = allowed /\ (task' = task \/ task' = [task EXCEPT ![ZeroKey] = "done"])
      BY <2>3 DEF SetupNotAllowed
    <3>2. QED
      BY <1>0, <3>1, AllowedKeeps DEF TypeOK
  <2>4. CASE SetupRejected \/ DeleteUnobserved
    <3>1. allowed' = allowed /\ Erase(k)
      BY <2>4 DEF SetupRejected, DeleteUnobserved, k
    <3>2. QED
      BY <1>0, <3>1, AllowedKeeps DEF TypeOK, Erase
  <2>5. CASE SetupAccepted
    <3>1. /\ allowed /\ allowed' = allowed /\ Pops("SubReq")
          /\ \E x \in {"waiting", "round"} : task' = [task EXCEPT ![k] = x]
      BY <2>5 DEF SetupAccepted, Launch, Resume, k
    <3>2. k \in Keys
      BY <2>1, <3>1
    <3>3. QED
      BY <1>0, <3>1, <3>2, AllowedKeeps DEF TypeOK
  <2>6. CASE DeleteWaiting
    <3>1. /\ allowed' = allowed /\ Pops("SubDel") /\ src[k] = "armed"
          /\ task' = [task EXCEPT ![k] = "round"]
      BY <2>6 DEF DeleteWaiting, Resume, k
    <3>2. k \in Keys /\ allowed
      BY <1>0, <2>1, <3>1, MayRun
    <3>3. QED
      BY <1>0, <3>1, <3>2, AllowedKeeps DEF TypeOK
  <2>7. QED
    BY <1>3, <2>2, <2>3, <2>4, <2>5, <2>6 DEF Procedure
<1>4. ASSUME RoundStep PROVE OnlyAllowedRun'
  <2> DEFINE k == rnd.key
  <2>1. k \in AllKeys
    BY <1>0, RoundKey
  <2>2. ASSUME InRound PROVE k \in Keys /\ allowed
    BY <2>1, <2>2, MayRun DEF CoreInv, RoundsOwnTask
  <2> HIDE DEF k
  <2>3. CASE RoundSend \/ RoundSkip \/ RoundCrash
    BY <1>1, <2>3 DEF RoundSend, RoundSkip, RoundCrash
  <2>4. CASE RoundNextPeriod
    <3>1. /\ InRound /\ allowed' = allowed
          /\ \E x \in {"waiting", "done"} : task' = [task EXCEPT ![k] = x]
      BY <2>4 DEF RoundNextPeriod, AtEnd, InRound, k
    <3>2. QED
      BY <1>0, <2>2, <3>1, AllowedKeeps DEF TypeOK
  <2>5. CASE RoundDeleted
    <3>1. allowed' = allowed /\ Erase(k)
      BY <2>5 DEF RoundDeleted, k
    <3>2. QED
      BY <1>0, <3>1, AllowedKeeps DEF TypeOK, Erase
  <2>6. CASE RoundRestarted
    <3>1. InRound /\ allowed' = allowed /\ task' = [task EXCEPT ![k] = "waiting"]
      BY <2>6 DEF RoundRestarted, AtEnd, InRound, Launch, k
    <3>2. QED
      BY <1>0, <2>2, <3>1, AllowedKeeps DEF TypeOK
  <2>7. QED
    BY <1>4, <2>3, <2>4, <2>5, <2>6 DEF RoundStep
<1>5. ASSUME NEW k \in AllKeys, Expire(k) PROVE OnlyAllowedRun'
  <2>1. src[k] = "armed" /\ allowed' = allowed /\ task' = [task EXCEPT ![k] = "round"]
    BY <1>5 DEF Expire, Resume
  <2>2. k \in Keys /\ allowed
    BY <1>0, <2>1, MayRun
  <2>3. QED
    BY <1>0, <2>1, <2>2, AllowedKeeps DEF TypeOK
<1>6. CASE ReceivePathLost \/ Stop \/ CloseHandled
  BY <1>1, <1>6 DEF ReceivePathLost, Stop, CloseHandled
<1>7. CASE LossHandled
  <2>1. allowed' = allowed /\ \A j \in AllKeys : task'[j] = "none"
    BY <1>7 DEF LossHandled
  <2>2. QED
    BY <1>0, <2>1, AllowedKeeps
<1>8. QED
  BY <1>2, <1>3, <1>4, <1>5, <1>6, <1>7 DEF Next, Inside, Association

LEMMA CoreNext ==
    ASSUME CoreInv, Next
    PROVE  ObserverMatchesTask' /\ RoundsOwnTask' /\ ServicesInPlace'
<1>1. CASE UNCHANGED <<subs, acts, task, src, rnd>>
  BY <1>1, CoreUnchanged
<1>2. CASE ReceiveIdle \/ ReceiveQueued \/ ReceiveDropped \/ SetupResponse \/ ControlDone
  BY <1>1, <1>2 DEF ReceiveIdle, ReceiveQueued, ReceiveDropped, SetupResponse, ControlDone
<1>3. CASE Procedure
  <2>1. CASE SetupUnknownFunction \/ DeleteUnknown \/ Control
              \/ ConnectionUpdate \/ LoopAwait
    BY <1>1, <2>1 DEF SetupUnknownFunction, DeleteUnknown, Control,
                      ConnectionUpdate, LoopAwait
  <2>2. QED
    BY <1>3, <2>1, CoreSetup, CoreDelete DEF Procedure
<1>4. CASE RoundStep
  BY <1>4, CoreRound
<1>5. CASE \E k \in AllKeys : Expire(k)
  BY <1>5, CoreExpire
<1>6. CASE Association
  <2>1. CASE ReceivePathLost \/ Stop \/ CloseHandled
    BY <1>1, <2>1 DEF ReceivePathLost, Stop, CloseHandled
  <2>2. QED
    BY <1>6, <2>1, CoreLoss DEF Association
<1>7. QED
  BY <1>2, <1>3, <1>4, <1>5, <1>6 DEF Next, Inside

LEMMA CoreStep == CoreInv /\ [Next]_vars => CoreInv'
<1> SUFFICES ASSUME CoreInv, [Next]_vars PROVE CoreInv'
  OBVIOUS
<1>1. TypeOK'
  BY TypeStep DEF CoreInv
<1>2. CASE Next
  BY <1>1, <1>2, AllowedStep, CoreNext DEF CoreInv
<1>3. CASE UNCHANGED vars
  <2>1. UNCHANGED <<subs, acts, task, src, rnd, allowed>>
    BY <1>3 DEF vars
  <2>2. OnlyAllowedRun'
    BY <2>1 DEF CoreInv, OnlyAllowedRun
  <2>3. QED
    BY <1>1, <2>1, <2>2, CoreUnchanged DEF CoreInv
<1>4. QED
  BY <1>2, <1>3

LEMMA CoreInvariant == Spec => []CoreInv
<1>1. Init => CoreInv
  BY CoreInit
<1>2. CoreInv /\ [Next]_vars => CoreInv'
  BY CoreStep
<1>3. QED
  BY <1>1, <1>2, PTL DEF Spec

\* The delete event of a key is observed exactly while its coroutine waits, for
\* any order of callbacks and any request ids the RIC sends.
THEOREM ObserversMatch == Spec => []ObserverMatchesTask
BY CoreInvariant, PTL DEF CoreInv

\* A coroutine is between two suspension points exactly while its round runs.
THEOREM FramesAreOwned == Spec => []RoundsOwnTask
BY CoreInvariant, PTL DEF CoreInv

\* A null report service can be met only by a coroutine that is being replaced.
THEOREM ServicesAttached == Spec => []ServicesInPlace
BY CoreInvariant, PTL DEF CoreInv

\* Nothing runs for a function the RIC has not allowed.
THEOREM OnlyAllowed == Spec => []OnlyAllowedRun
BY CoreInvariant, PTL DEF CoreInv

-----------------------------------------------------------------------------
(* Ids the RIC uses again                                                    *)

\* A queued request whose id is taken, or asked for twice, is on record.
RepeatsKnown ==
    \A i \in DOMAIN fifo :
        /\ fifo[i].type = "SubReq"
        /\ \/ fifo[i].key \in subs
           \/ \E j \in DOMAIN fifo :
                 j # i /\ fifo[j].type = "SubReq" /\ fifo[j].key = fifo[i].key
        => fifo[i].key \in reused

RestartKnown == rnd.end = "restart" => rnd.key \in reused

SafeInv == CoreInv /\ RepeatsKnown /\ RestartKnown /\ CrashOnlyOnReuse

\* Taking a procedure off the queue, and adding only its own id to subs.
LEMMA RepeatsPop ==
    ASSUME RepeatsKnown, UNCHANGED reused, NEW type, fifo \in Seq(Pdu), Pops(type),
           \A k \in Keys : k \in subs' =>
                k \in subs \/ (Head(fifo).type = "SubReq" /\ k = Head(fifo).key)
    PROVE  RepeatsKnown'
<1>1. /\ Len(fifo) \in Nat /\ DOMAIN fifo = 1..Len(fifo) /\ Head(fifo) = fifo[1]
      /\ Len(fifo) > 0 /\ fifo' = Tail(fifo)
  BY LenProperties, EmptySeq DEF Pops
<1>2. fifo' \in Seq(Pdu) /\ Len(fifo') = Len(fifo) - 1
      /\ \A i \in 1..Len(fifo') : fifo'[i] = fifo[i + 1]
  BY <1>1, HeadTailProperties
<1>3. DOMAIN fifo' = 1..Len(fifo')
  BY <1>2, LenProperties
<1>4. \A i \in DOMAIN fifo' : i \in Nat /\ i + 1 \in DOMAIN fifo /\ fifo'[i] = fifo[i + 1]
  BY <1>1, <1>2, <1>3
<1>5. 1 \in DOMAIN fifo
  BY <1>1
<1> SUFFICES ASSUME NEW i \in DOMAIN fifo', fifo'[i].type = "SubReq",
                    \/ fifo'[i].key \in subs'
                    \/ \E j \in DOMAIN fifo' :
                          j # i /\ fifo'[j].type = "SubReq" /\ fifo'[j].key = fifo'[i].key
             PROVE  fifo'[i].key \in reused
  BY DEF RepeatsKnown
<1>6. i + 1 # 1 /\ i + 1 \in DOMAIN fifo /\ fifo[i + 1] = fifo'[i]
  BY <1>1, <1>2, <1>3, <1>4
<1>7. fifo'[i].key \in Keys
  BY <1>2, <1>3, PduFields, ElementOfSeq
<1>8. CASE fifo'[i].key \in subs'
  <2>1. CASE fifo'[i].key \in subs
    BY <1>6, <2>1 DEF RepeatsKnown
  <2>2. CASE Head(fifo).type = "SubReq" /\ fifo'[i].key = Head(fifo).key
    BY <1>1, <1>5, <1>6, <2>2 DEF RepeatsKnown
  <2>3. QED
    BY <1>7, <1>8, <2>1, <2>2
<1>9. CASE \E j \in DOMAIN fifo' :
             j # i /\ fifo'[j].type = "SubReq" /\ fifo'[j].key = fifo'[i].key
  <2>1. PICK j \in DOMAIN fifo' :
               j # i /\ fifo'[j].type = "SubReq" /\ fifo'[j].key = fifo'[i].key
    BY <1>9
  <2>2. j + 1 # i + 1 /\ j + 1 \in DOMAIN fifo /\ fifo[j + 1] = fifo'[j]
    BY <1>4, <2>1
  <2>3. QED
    BY <1>6, <2>1, <2>2 DEF RepeatsKnown
<1>10. QED
  BY <1>8, <1>9

\* A PDU that joins the queue puts a repeated id on record.
LEMMA RepeatsPush ==
    ASSUME TypeOK, RepeatsKnown, UNCHANGED subs, NEW pdu \in Pdu, Push(pdu)
    PROVE  RepeatsKnown' /\ reused \subseteq reused'
<1>1. Len(fifo) \in Nat /\ DOMAIN fifo = 1..Len(fifo)
  BY LenProperties DEF TypeOK
<1>2. /\ fifo' \in Seq(Pdu) /\ Len(fifo') = Len(fifo) + 1
      /\ \A i \in 1..Len(fifo) : fifo'[i] = fifo[i]
      /\ fifo'[Len(fifo) + 1] = pdu
  BY AppendProperties DEF TypeOK, Push
<1>3. DOMAIN fifo' = 1..(Len(fifo) + 1)
  BY <1>2, LenProperties
<1>4. \A i \in DOMAIN fifo' : (i \in DOMAIN fifo /\ fifo'[i] = fifo[i])
                               \/ (i = Len(fifo) + 1 /\ fifo'[i] = pdu)
  BY <1>1, <1>2, <1>3
<1>5. /\ reused \subseteq reused'
      /\ pdu.type = "SubReq" /\ InUse(pdu.key) => pdu.key \in reused'
  BY DEF Push
<1> SUFFICES ASSUME NEW i \in DOMAIN fifo', fifo'[i].type = "SubReq",
                    \/ fifo'[i].key \in subs
                    \/ \E j \in DOMAIN fifo' :
                          j # i /\ fifo'[j].type = "SubReq" /\ fifo'[j].key = fifo'[i].key
             PROVE  fifo'[i].key \in reused'
  BY <1>5 DEF RepeatsKnown
<1>6. CASE fifo'[i].key \in subs
  BY <1>4, <1>5, <1>6 DEF RepeatsKnown, InUse
<1>7. CASE \E j \in DOMAIN fifo' :
             j # i /\ fifo'[j].type = "SubReq" /\ fifo'[j].key = fifo'[i].key
  <2>1. PICK j \in DOMAIN fifo' :
               j # i /\ fifo'[j].type = "SubReq" /\ fifo'[j].key = fifo'[i].key
    BY <1>7
  <2>2. CASE i \in DOMAIN fifo /\ fifo'[i] = fifo[i] /\ j \in DOMAIN fifo /\ fifo'[j] = fifo[j]
    BY <1>5, <2>1, <2>2 DEF RepeatsKnown
  <2>3. CASE j \in DOMAIN fifo /\ fifo'[j] = fifo[j] /\ fifo'[i] = pdu
    BY <1>5, <2>1, <2>3 DEF InUse
  <2>4. CASE i \in DOMAIN fifo /\ fifo'[i] = fifo[i] /\ fifo'[j] = pdu
    BY <1>5, <2>1, <2>4 DEF InUse
  <2>5. QED
    BY <1>4, <2>1, <2>2, <2>3, <2>4
<1>8. QED
  BY <1>6, <1>7

\* The request at the head of the queue, if its id is taken.
LEMMA HeadRepeats ==
    ASSUME TypeOK, RepeatsKnown, Pops("SubReq"), Head(fifo).key \in subs
    PROVE  Head(fifo).key \in reused
<1>1. fifo \in Seq(Pdu) /\ fifo # <<>> /\ Head(fifo).type = "SubReq"
  BY DEF Pops, TypeOK
<1>2. 1 \in DOMAIN fifo /\ fifo[1] = Head(fifo)
  BY <1>1, LenProperties, EmptySeq
<1>3. QED
  BY <1>1, <1>2 DEF RepeatsKnown

\* Steps that leave the queue alone and add no id to subs.
LEMMA RepeatsUnchanged ==
    ASSUME RepeatsKnown, UNCHANGED <<fifo, reused>>, subs' \subseteq subs
    PROVE  RepeatsKnown'
BY DEF RepeatsKnown

LEMMA RepeatsProcedure ==
    ASSUME CoreInv, RepeatsKnown, RestartKnown, Procedure, UNCHANGED reused
    PROVE  RepeatsKnown' /\ RestartKnown'
<1> DEFINE k == Head(fifo).key
<1>0. /\ TypeOK /\ fifo \in Seq(Pdu)
      /\ \A j \in AllKeys : src[j] = "armed" => j \in subs
  BY DEF CoreInv, ObserverMatchesTask, TypeOK
<1>1. CASE LoopAwait
  BY <1>1, RepeatsUnchanged DEF LoopAwait, RestartKnown
<1>2. CASE SetupUnknownFunction \/ DeleteUnknown \/ Control \/ ConnectionUpdate
  <2>1. subs' = subs /\ rnd' = rnd /\ \E type : Pops(type)
    BY <1>2 DEF SetupUnknownFunction, DeleteUnknown, Control, ConnectionUpdate
  <2>2. QED
    BY <1>0, <2>1, RepeatsPop DEF RestartKnown
<1>3. CASE SetupNotAllowed
  <2>1. subs' \subseteq subs \cup {ZeroKey} /\ rnd' = rnd /\ Pops("SubReq")
    BY <1>3 DEF SetupNotAllowed
  <2>2. QED
    BY <1>0, <2>1, RepeatsPop, KeysAssumption DEF RestartKnown
<1>4. CASE SetupRejected \/ DeleteUnobserved
  <2>1. subs' \subseteq subs /\ rnd' = rnd /\ \E type : Pops(type)
    BY <1>4 DEF SetupRejected, DeleteUnobserved, Erase
  <2>2. QED
    BY <1>0, <2>1, RepeatsPop DEF RestartKnown
<1>5. CASE DeleteWaiting
  <2>1. Pops("SubDel") /\ Resume(k, "delete", <<>>) /\ subs' = subs
    BY <1>5 DEF DeleteWaiting
  <2>2. QED
    BY <1>0, <2>1, RepeatsPop DEF RestartKnown, Resume
<1>6. CASE SetupAccepted
  <2>1. Pops("SubReq") /\ Head(fifo).type = "SubReq" /\ k \in AllKeys
    BY <1>0, <1>6, PopFacts, PduFields DEF SetupAccepted, Pops, AllKeys
  <2>2. \/ subs' = subs \cup {k} /\ rnd' = rnd
        \/ subs' = subs /\ src[k] = "armed" /\ rnd'.key = k /\ rnd'.end = "restart"
    <3>1. \/ \E list : Launch(k, list) /\ UNCHANGED rnd
          \/ \E ids : src[k] = "armed" /\ Resume(k, "restart", ids) /\ UNCHANGED subs
      BY <1>6 DEF SetupAccepted
    <3>2. CASE \E list : Launch(k, list) /\ UNCHANGED rnd
      BY <3>2 DEF Launch
    <3>3. CASE \E ids : src[k] = "armed" /\ Resume(k, "restart", ids) /\ UNCHANGED subs
      BY <3>3 DEF Resume
    <3>4. QED
      BY <3>1, <3>2, <3>3
  <2>3. RepeatsKnown'
    BY <1>0, <2>1, <2>2, RepeatsPop
  <2>4. RestartKnown'
    BY <1>0, <2>1, <2>2, HeadRepeats DEF RestartKnown
  <2>5. QED
    BY <2>3, <2>4
<1>7. QED
  BY <1>1, <1>2, <1>3, <1>4, <1>5, <1>6 DEF Procedure

LEMMA RepeatsRound ==
    ASSUME CoreInv, RepeatsKnown, RestartKnown, RoundStep, UNCHANGED reused
    PROVE  RepeatsKnown' /\ RestartKnown'
<1>1. rnd \in Round
  BY DEF CoreInv, TypeOK
<1>2. CASE RoundRestarted
  <2>1. /\ subs' = subs \cup {rnd.key} /\ fifo' = fifo /\ rnd' = NoRound
        /\ InRound /\ rnd.key \in AllKeys
    BY <1>1, <1>2 DEF RoundRestarted, AtEnd, InRound, Launch, Round
  <2>2. task[rnd.key] = "round"
    BY <2>1 DEF CoreInv, RoundsOwnTask
  <2>3. rnd.key \in subs
    BY <2>1, <2>2 DEF CoreInv, ObserverMatchesTask
  <2>4. QED
    BY <2>1, <2>3, RepeatsUnchanged DEF RestartKnown, NoRound
<1>3. CASE ~RoundRestarted
  <2>1. fifo' = fifo /\ subs' \subseteq subs
    BY <1>3 DEF RoundStep, RoundSend, RoundSkip, RoundCrash, RoundNextPeriod,
                RoundDeleted, Erase
  <2>2. rnd' = rnd \/ rnd' = NoRound \/ rnd' = [rnd EXCEPT !.idx = @ + 1]
    BY <1>3 DEF RoundStep, RoundSend, RoundSkip, RoundCrash, RoundNextPeriod,
                RoundDeleted
  <2>3. RestartKnown'
    BY <1>1, <2>2 DEF RestartKnown, NoRound, Round
  <2>4. QED
    BY <2>1, <2>3, RepeatsUnchanged
<1>4. QED
  BY <1>2, <1>3

LEMMA RepeatsStep ==
    ASSUME CoreInv, RepeatsKnown, RestartKnown, Next
    PROVE  RepeatsKnown' /\ RestartKnown'
<1>0. TypeOK
  BY DEF CoreInv
<1>1. CASE ReceiveIdle \/ ReceiveQueued
  <2>1. UNCHANGED <<subs, rnd>> /\ \E pdu \in Pdu : Push(pdu)
    BY <1>1 DEF ReceiveIdle, ReceiveQueued
  <2>2. QED
    BY <1>0, <2>1, RepeatsPush DEF RestartKnown
<1>2. CASE Inside /\ UNCHANGED reused
  <2>1. CASE UNCHANGED <<subs, fifo, rnd>>
    BY <1>2, <2>1, RepeatsUnchanged DEF RestartKnown
  <2>2. CASE ReceiveDropped \/ SetupResponse \/ ControlDone
    BY <2>1, <2>2 DEF ReceiveDropped, SetupResponse, ControlDone
  <2>3. CASE Association
    <3>1. fifo' = fifo /\ subs' \subseteq subs /\ rnd' = rnd
      BY <2>3 DEF Association, ReceivePathLost, Stop, LossHandled, CloseHandled
    <3>2. QED
      BY <1>2, <3>1, RepeatsUnchanged DEF RestartKnown
  <2>4. CASE \E k \in AllKeys : Expire(k)
    <3>1. fifo' = fifo /\ subs' = subs /\ rnd'.end = "period"
      BY <2>4 DEF Expire, Resume
    <3>2. QED
      BY <1>2, <3>1, RepeatsUnchanged DEF RestartKnown
  <2>5. QED
    BY <1>2, <2>2, <2>3, <2>4, RepeatsProcedure, RepeatsRound DEF Inside
<1>3. QED
  BY <1>1, <1>2 DEF Next

-----------------------------------------------------------------------------
(* Crashes                                                                   *)

LEMMA DeadStops ==
    ASSUME Next
    PROVE  alive
BY DEF Next, Inside, CanStart, Pops, AtAction, AtEnd, ReceiveIdle, ReceiveQueued,
       ReceiveDropped, SetupResponse, Procedure, SetupUnknownFunction, SetupNotAllowed,
       SetupRejected, SetupAccepted, DeleteUnknown, DeleteWaiting, DeleteUnobserved,
       Control, ConnectionUpdate, LoopAwait, RoundStep, RoundSend, RoundSkip, RoundCrash,
       RoundNextPeriod, RoundDeleted, RoundRestarted, Expire, ControlDone,
       Association, ReceivePathLost, Stop, LossHandled, CloseHandled

LEMMA CrashStep ==
    ASSUME CoreInv, RestartKnown, Next, ~alive'
    PROVE  CrashOnlyOnReuse'
<1>0. alive
  BY DeadStops
<1>1. RoundCrash /\ UNCHANGED reused
  BY <1>0
     DEF Next, Inside, ReceiveIdle, ReceiveQueued, ReceiveDropped, SetupResponse,
         Procedure, SetupUnknownFunction, SetupNotAllowed, SetupRejected,
         SetupAccepted, DeleteUnknown, DeleteWaiting, DeleteUnobserved, Control,
         ConnectionUpdate, LoopAwait, RoundStep, RoundSend, RoundSkip,
         RoundNextPeriod, RoundDeleted, RoundRestarted, Expire, ControlDone,
         Association, ReceivePathLost, Stop, LossHandled, CloseHandled
<1>2. /\ InRound /\ rnd \in Round /\ acts[rnd.key] \in Seq(Entry)
      /\ rnd.idx <= Len(acts[rnd.key])
  BY <1>1, RoundKey DEF RoundCrash, AtAction, CoreInv, TypeOK
<1>3. rnd.idx \in DOMAIN acts[rnd.key]
  BY <1>2, LenProperties DEF Round
<1>4. ~Serviced(rnd.key)
  BY <1>1, <1>3 DEF RoundCrash, Current, Serviced
<1>5. rnd.end = "restart"
  BY <1>2, <1>4 DEF CoreInv, ServicesInPlace
<1>6. QED
  BY <1>1, <1>5 DEF RestartKnown, RoundCrash, CrashOnlyOnReuse

LEMMA SafeInvariant == Spec => []SafeInv
<1>1. Init => SafeInv
  BY CoreInit DEF Init, SafeInv, RepeatsKnown, RestartKnown, CrashOnlyOnReuse, NoRound
<1>2. SafeInv /\ [Next]_vars => SafeInv'
  <2>1. SafeInv /\ Next => SafeInv'
    BY CoreStep, RepeatsStep, CrashStep DEF SafeInv, CrashOnlyOnReuse
  <2>2. SafeInv /\ UNCHANGED vars => SafeInv'
    BY CoreStep DEF vars, SafeInv, RepeatsKnown, RestartKnown, CrashOnlyOnReuse
  <2>3. QED
    BY <2>1, <2>2
<1>3. QED
  BY <1>1, <1>2, PTL DEF Spec

\* Whatever the RIC sends, the process crashes here only in the last round of a
\* subscription whose id was used again while it was in use.
THEOREM CrashNeedsReuse == Spec => []CrashOnlyOnReuse
BY SafeInvariant, PTL DEF SafeInv

-----------------------------------------------------------------------------
(* Deletion                                                                  *)

\* A positive delete answer is given by two actions only.
LEMMA DeleteAnswer ==
    ASSUME Next, out'.type = "DelResp"
    PROVE  RoundDeleted \/ DeleteUnobserved
<1>1. \A type, k, ids : Emit(Msg(type, k, ids)) => type = "DelResp"
  BY DEF Emit, NoMsg, Msg
<1>2. out' # NoMsg
  BY DEF NoMsg, Msg
<1>3. ~(SetupUnknownFunction \/ SetupNotAllowed \/ SetupRejected)
  BY <1>1 DEF SetupUnknownFunction, SetupNotAllowed, SetupRejected
<1>4. ~SetupAccepted
  BY <1>1, <1>2 DEF SetupAccepted
<1>5. ~(DeleteUnknown \/ DeleteWaiting \/ Control \/ ConnectionUpdate \/ LoopAwait)
  BY <1>1, <1>2 DEF DeleteUnknown, DeleteWaiting, Control, ConnectionUpdate, LoopAwait
<1>6. ~(RoundSend \/ RoundSkip \/ RoundCrash \/ RoundNextPeriod \/ RoundRestarted)
  BY <1>1, <1>2 DEF RoundSend, RoundSkip, RoundCrash, RoundNextPeriod, RoundRestarted
<1>7. /\ ~ReceiveIdle /\ ~ReceiveQueued /\ ~ReceiveDropped /\ ~SetupResponse
      /\ ~Association /\ ~ControlDone /\ \A k \in AllKeys : ~Expire(k)
  BY <1>1, <1>2 DEF ReceiveIdle, ReceiveQueued, ReceiveDropped, SetupResponse,
                    Association, ReceivePathLost, Stop, LossHandled, CloseHandled,
                    ControlDone, Expire
<1>8. QED
  BY <1>3, <1>4, <1>5, <1>6, <1>7 DEF Next, Inside, Procedure, RoundStep

\* A positive delete answer leaves no entry, no waiting coroutine and no round of
\* its subscription, whatever ids the RIC sends.
THEOREM DeletesAreFinal == Spec => DeleteIsFinal
<1> DEFINE Final ==
      out'.type = "DelResp" =>
          /\ out'.key \notin subs'
          /\ src'[out'.key] # "armed"
          /\ ~(InRound /\ rnd.key = out.key)'
<1>1. ASSUME CoreInv, Next, out'.type = "DelResp"
      PROVE  Final
  <2>0. TypeOK
    BY <1>1 DEF CoreInv
  <2>1. PICK k \in AllKeys : Erase(k) /\ RoundEnds(k) /\ out'.key = k
    <3>1. CASE RoundDeleted
      <4>1. out' = Msg("DelResp", rnd.key, <<>>)
        BY <1>1, <3>1 DEF RoundDeleted, Emit, NoMsg, Msg
      <4>2. RoundEnds(rnd.key) /\ Erase(rnd.key) /\ rnd.key \in AllKeys
        BY <2>0, <3>1, RoundKey DEF RoundDeleted, RoundEnds, AtEnd, InRound
      <4>3. QED
        BY <4>1, <4>2 DEF Msg
    <3>2. CASE DeleteUnobserved
      <4>1. out' = Msg("DelResp", Head(fifo).key, <<>>)
        BY <1>1, <3>2 DEF DeleteUnobserved, Emit, NoMsg, Msg
      <4>2. ~InRound /\ Head(fifo).key \in AllKeys
        BY <2>0, <3>2, PopKey DEF DeleteUnobserved
      <4>3. RoundEnds(Head(fifo).key) /\ Erase(Head(fifo).key)
        BY <3>2, <4>2 DEF DeleteUnobserved, RoundEnds
      <4>4. QED
        BY <4>1, <4>2, <4>3 DEF Msg
    <3>3. QED
      BY <1>1, DeleteAnswer, <3>1, <3>2
  <2>2. k \notin subs'
    BY <2>1 DEF Erase
  <2>3. src'[k] # "armed"
    BY <2>0, <2>1 DEF Erase, TypeOK
  <2>4. ~InRound'
    BY <2>1 DEF RoundEnds, InRound, NoRound
  <2>5. QED
    BY <2>1, <2>2, <2>3, <2>4
<1>2. CoreInv /\ [Next]_vars => [Final]_vars
  BY <1>1
<1>3. QED
  BY <1>2, CoreInvariant, PTL DEF Spec, DeleteIsFinal

-----------------------------------------------------------------------------
(* E2Agent implements SubscriptionService, for any ids, actions, requests    *)
(* and queue capacity and any RIC.                                           *)

\* Emit sends its message or, without an association, nothing.
LEMMA EmitSays ==
    ASSUME NEW type, NEW k, NEW ids, Emit(Msg(type, k, ids))
    PROVE  Promise!Says(Promise!Said(type, k))
BY DEF Emit, NoMsg, Msg, Promise!Says, Promise!Said, Promise!Nothing

\* A step over which the same subscriptions stay active and nothing is said.
LEMMA SilenceStep ==
    ASSUME \A k \in Keys : task'[k] = "none" <=> task[k] = "none",
           out' = NoMsg, conn' = "up" <=> conn = "up"
    PROVE  Promise!Next
<1>1. {k \in Keys : task'[k] # "none"} = {k \in Keys : task[k] # "none"}
  OBVIOUS
<1>2. Promise!Silence
  BY <1>1 DEF Promise!Silence, Promise!Nothing, Promise!Said, NoMsg, Msg
<1>3. QED
  BY <1>2 DEF Promise!Next

LEMMA AnswerStep ==
    ASSUME \A k \in Keys : task'[k] = "none" <=> task[k] = "none", conn' = conn,
           NEW type, NEW k \in AllKeys, NEW ids, Emit(Msg(type, k, ids)),
           \/ type \in {"SubFail", "DelFail", "CtrlAck", "CtrlFail", "ConnUpdFail"}
           \/ type = "SubResp" /\ k = ZeroKey
    PROVE  Promise!Next
<1>1. {j \in Keys : task'[j] # "none"} = {j \in Keys : task[j] # "none"}
  OBVIOUS
<1>2. Promise!Said(type, k) \in Promise!Answers
  BY DEF Promise!Answers, Promise!Said, AllKeys
<1>3. Promise!Answer
  BY <1>1, <1>2, EmitSays DEF Promise!Answer
<1>4. QED
  BY <1>3 DEF Promise!Next

LEMMA AcceptStep ==
    ASSUME TypeOK, NEW k \in Keys, task' = [task EXCEPT ![k] = "waiting"],
           conn' = conn, NEW ids, Emit(Msg("SubResp", k, ids))
    PROVE  Promise!Next
<1>1. {j \in Keys : task'[j] # "none"} = {j \in Keys : task[j] # "none"} \cup {k}
  BY DEF TypeOK, AllKeys
<1>2. Promise!Accept(k)
  BY <1>1, EmitSays DEF Promise!Accept
<1>3. QED
  BY <1>2 DEF Promise!Next

LEMMA WithdrawStep ==
    ASSUME TypeOK, NEW k \in Keys, task[k] # "none", Erase(k), conn' = conn,
           NEW type \in {"DelResp", "SubFail"}, NEW ids, Emit(Msg(type, k, ids))
    PROVE  Promise!Next
<1>1. {j \in Keys : task'[j] # "none"} = {j \in Keys : task[j] # "none"} \ {k}
  BY DEF TypeOK, AllKeys, Erase
<1>2. Promise!Withdraw(k)
  BY <1>1, EmitSays DEF Promise!Withdraw
<1>3. QED
  BY <1>2 DEF Promise!Next

LEMMA PromiseProcedure ==
    ASSUME CoreInv, Procedure
    PROVE  Promise!Next
<1>0. TypeOK /\ ObserverMatchesTask /\ ZeroKey \in AllKeys
  BY DEF CoreInv, AllKeys
<1> DEFINE k == Head(fifo).key
<1>1. ASSUME Pops("SubReq") \/ Pops("SubDel")
      PROVE  k \in Keys /\ k \in AllKeys
  BY <1>0, <1>1, PopKey
<1>2. CASE SetupUnknownFunction
  BY <1>1, <1>2, AnswerStep DEF SetupUnknownFunction
<1>3. CASE DeleteUnknown \/ ConnectionUpdate
  BY <1>0, <1>3, AnswerStep DEF DeleteUnknown, ConnectionUpdate
<1>4. CASE Control
  <2>1. task' = task /\ conn' = conn
    BY <1>4 DEF Control
  <2>2. CASE out' = NoMsg
    BY <2>1, <2>2, SilenceStep
  <2>3. CASE Emit(Msg("CtrlFail", ZeroKey, <<>>))
    BY <1>0, <2>1, <2>3, AnswerStep
  <2>4. QED
    BY <1>4, <2>2, <2>3 DEF Control
<1>5. CASE LoopAwait
  BY <1>5, SilenceStep DEF LoopAwait
<1>6. CASE SetupNotAllowed
  <2>1. conn' = conn /\ \A j \in Keys : task'[j] = "none" <=> task[j] = "none"
    <3>1. conn' = conn /\ (task' = task \/ task' = [task EXCEPT ![ZeroKey] = "done"])
      BY <1>6 DEF SetupNotAllowed
    <3>2. \A j \in Keys : task'[j] = task[j]
      BY <1>0, <3>1, KeysAssumption DEF TypeOK, AllKeys
    <3>3. QED
      BY <3>1, <3>2
  <2>2. \E type \in {"SubFail", "SubResp"} : Emit(Msg(type, ZeroKey, <<>>))
    BY <1>6 DEF SetupNotAllowed
  <2>3. QED
    BY <1>0, <2>1, <2>2, AnswerStep
<1>7. CASE SetupRejected
  <2>1. k \in Keys /\ k \in AllKeys /\ Erase(k) /\ conn' = conn /\ Emit(Msg("SubFail", k, <<>>))
    BY <1>1, <1>7 DEF SetupRejected
  <2>2. CASE task[k] = "none"
    <3>1. task' = task
      BY <1>0, <2>1, <2>2 DEF TypeOK, Erase
    <3>2. QED
      BY <2>1, <3>1, AnswerStep
  <2>3. CASE task[k] # "none"
    BY <1>0, <2>1, <2>3, WithdrawStep
  <2>4. QED
    BY <2>2, <2>3
<1>8. CASE SetupAccepted
  <2>1. k \in Keys /\ k \in AllKeys /\ conn' = conn
    BY <1>1, <1>8 DEF SetupAccepted
  <2>2. CASE \E ids : Emit(Msg("SubResp", k, ids)) /\ task' = [task EXCEPT ![k] = "waiting"]
    BY <1>0, <2>1, <2>2, AcceptStep
  <2>3. CASE src[k] = "armed" /\ task' = [task EXCEPT ![k] = "round"] /\ out' = NoMsg
    <3>1. task[k] = "waiting"
      BY <1>0, <2>1, <2>3 DEF ObserverMatchesTask
    <3>2. \A j \in Keys : task'[j] = "none" <=> task[j] = "none"
      BY <1>0, <2>1, <2>3, <3>1 DEF TypeOK, AllKeys
    <3>3. QED
      BY <2>1, <2>3, <3>2, SilenceStep
  <2>4. QED
    BY <1>8, <2>2, <2>3 DEF SetupAccepted, Launch, Resume
<1>9. CASE DeleteWaiting
  <2>1. k \in Keys /\ k \in AllKeys /\ src[k] = "armed" /\ conn' = conn
    BY <1>1, <1>9 DEF DeleteWaiting
  <2>2. task[k] = "waiting" /\ task' = [task EXCEPT ![k] = "round"] /\ out' = NoMsg
    BY <1>0, <1>9, <2>1 DEF DeleteWaiting, Resume, ObserverMatchesTask
  <2>3. \A j \in Keys : task'[j] = "none" <=> task[j] = "none"
    BY <1>0, <2>1, <2>2 DEF TypeOK, AllKeys
  <2>4. QED
    BY <2>1, <2>2, <2>3, SilenceStep
<1>10. CASE DeleteUnobserved
  <2>1. k \in Keys /\ k \in AllKeys /\ k \in subs
    BY <1>1, <1>10 DEF DeleteUnobserved
  <2>2. task[k] # "none"
    BY <1>0, <2>1 DEF ObserverMatchesTask
  <2>3. QED
    BY <1>0, <1>10, <2>1, <2>2, WithdrawStep DEF DeleteUnobserved
<1>11. QED
  BY <1>2, <1>3, <1>4, <1>5, <1>6, <1>7, <1>8, <1>9, <1>10 DEF Procedure

LEMMA PromiseRound ==
    ASSUME CoreInv, RoundStep
    PROVE  Promise!Next
<1> DEFINE k == rnd.key
<1>0. TypeOK /\ k \in AllKeys
  BY RoundKey DEF CoreInv
<1>1. InRound
  BY DEF RoundStep, RoundSend, RoundSkip, RoundCrash, RoundNextPeriod, RoundDeleted,
         RoundRestarted, AtAction, AtEnd, InRound
<1>2. task[k] = "round"
  BY <1>0, <1>1 DEF CoreInv, RoundsOwnTask
<1>3. k \in Keys
  BY <1>0, <1>2, MayRun
<1>4. CASE RoundSkip \/ RoundCrash
  BY <1>4, SilenceStep DEF RoundSkip, RoundCrash
<1>5. CASE RoundSend
  <2>1. task' = task /\ conn' = conn /\ \E ids : Emit(Msg("Ind", k, ids))
    BY <1>5 DEF RoundSend
  <2>2. Promise!Report(k)
    BY <1>2, <1>3, <2>1, EmitSays DEF Promise!Report
  <2>3. QED
    BY <1>3, <2>2 DEF Promise!Next
<1>6. CASE RoundNextPeriod
  <2>1. /\ out' = NoMsg /\ conn' = conn
        /\ \E x \in {"waiting", "done"} : task' = [task EXCEPT ![k] = x]
    BY <1>6 DEF RoundNextPeriod
  <2>2. \A j \in Keys : task'[j] = "none" <=> task[j] = "none"
    BY <1>0, <1>2, <2>1 DEF TypeOK, AllKeys
  <2>3. QED
    BY <2>1, <2>2, SilenceStep
<1>7. CASE RoundDeleted
  BY <1>0, <1>2, <1>3, <1>7, WithdrawStep DEF RoundDeleted
<1>8. CASE RoundRestarted
  BY <1>0, <1>3, <1>8, AcceptStep DEF RoundRestarted, Launch
<1>9. QED
  BY <1>4, <1>5, <1>6, <1>7, <1>8 DEF RoundStep

LEMMA PromiseStep ==
    ASSUME CoreInv, Next
    PROVE  Promise!Next
<1>0. TypeOK /\ ObserverMatchesTask /\ ZeroKey \in AllKeys
  BY DEF CoreInv, AllKeys
<1>1. CASE ReceiveIdle \/ ReceiveQueued \/ ReceiveDropped \/ SetupResponse \/ CloseHandled
  BY <1>1, SilenceStep
     DEF ReceiveIdle, ReceiveQueued, ReceiveDropped, SetupResponse, CloseHandled
<1>2. CASE ControlDone
  <2>1. task' = task /\ conn' = conn
    BY <1>2 DEF ControlDone
  <2>2. CASE out' = NoMsg
    BY <2>1, <2>2, SilenceStep
  <2>3. CASE \E type \in {"CtrlAck", "CtrlFail"} : Emit(Msg(type, ZeroKey, <<>>))
    BY <1>0, <2>1, <2>3, AnswerStep
  <2>4. QED
    BY <1>2, <2>2, <2>3 DEF ControlDone
<1>3. CASE ReceivePathLost \/ Stop
  <2>1. out' = NoMsg /\ task' = task /\ conn' # "up"
    BY <1>3 DEF ReceivePathLost, Stop
  <2>2. CASE conn = "up"
    <3>1. Promise!Unlink
      BY <2>1, <2>2 DEF Promise!Unlink, Promise!Nothing, Promise!Said, NoMsg, Msg
    <3>2. QED
      BY <3>1 DEF Promise!Next
  <2>3. CASE conn # "up"
    BY <2>1, <2>3, SilenceStep
  <2>4. QED
    BY <2>2, <2>3
<1>4. CASE LossHandled
  <2>1. {k \in Keys : task'[k] # "none"} = {} /\ out' = NoMsg /\ conn # "up" /\ conn' # "up"
    BY <1>4 DEF LossHandled, AllKeys
  <2>2. Promise!Lose
    BY <2>1 DEF Promise!Lose, Promise!Nothing, Promise!Said, NoMsg, Msg
  <2>3. QED
    BY <2>2 DEF Promise!Next
<1>5. CASE \E k \in AllKeys : Expire(k)
  <2>1. PICK k \in AllKeys : Expire(k)
    BY <1>5
  <2>2. /\ task[k] = "waiting" /\ task' = [task EXCEPT ![k] = "round"]
        /\ out' = NoMsg /\ conn' = conn
    BY <1>0, <2>1 DEF Expire, Resume, ObserverMatchesTask
  <2>3. \A j \in Keys : task'[j] = "none" <=> task[j] = "none"
    BY <1>0, <2>2 DEF TypeOK, AllKeys
  <2>4. QED
    BY <2>2, <2>3, SilenceStep
<1>6. QED
  BY <1>1, <1>2, <1>3, <1>4, <1>5, PromiseProcedure, PromiseRound
     DEF Next, Inside, Association

\* The agent implements the subscription service: no indication for what is not
\* active, and none that ends without saying so while the association is up.
THEOREM PromiseKept == Spec => KeepsPromise
<1>1. Init => Promise!Init
  BY DEF Init, Promise!Init, Promise!Nothing, Promise!Said, NoMsg, Msg, AllKeys
<1>2. CoreInv /\ [Next]_vars => [Promise!Next]_(Promise!svars)
  <2>1. UNCHANGED vars => UNCHANGED Promise!svars
    BY DEF vars, Promise!svars
  <2>2. QED
    BY <2>1, PromiseStep
<1>3. QED
  BY <1>1, <1>2, CoreInvariant, PTL DEF Spec, KeepsPromise, Promise!Spec

-----------------------------------------------------------------------------
(* What ends a subscription                                                  *)

\* A coroutine runs only for a key whose delete event was created, and no event
\* is ever removed: without one the loop over the periods would end by itself.
HasEvent ==
    \A k \in Keys : task[k] # "done" /\ (task[k] # "none" => src[k] # "absent")

LEMMA HasEventProcedure ==
    ASSUME TypeOK, HasEvent, Procedure
    PROVE  HasEvent'
<1>1. CASE UNCHANGED <<task, src>>
  BY <1>1 DEF HasEvent
<1>2. CASE \E k \in AllKeys : Erase(k)
  BY <1>2 DEF HasEvent, Erase, TypeOK, AllKeys
<1>3. CASE SetupNotAllowed
  <2>1. Head(fifo).key \in Keys
    BY <1>3, PopFacts, PduFields DEF SetupNotAllowed
  <2>2. QED
    BY <1>3, <2>1, KeysAssumption DEF SetupNotAllowed, HasEvent, TypeOK, AllKeys
<1>4. CASE \E k \in AllKeys : \E list : Launch(k, list)
  BY <1>4 DEF HasEvent, Launch, TypeOK, AllKeys
<1>5. CASE \E k \in AllKeys : \E end, ids : Resume(k, end, ids)
  BY <1>5 DEF HasEvent, Resume, TypeOK, AllKeys
<1>6. ASSUME Pops("SubReq") \/ Pops("SubDel")
      PROVE  Head(fifo).key \in AllKeys
  BY <1>6, PopKey
<1>7. CASE SetupRejected \/ DeleteUnobserved
  BY <1>2, <1>6, <1>7 DEF SetupRejected, DeleteUnobserved
<1>8. CASE SetupAccepted
  BY <1>4, <1>5, <1>6, <1>8 DEF SetupAccepted
<1>9. CASE DeleteWaiting
  BY <1>5, <1>6, <1>9 DEF DeleteWaiting
<1>10. CASE SetupUnknownFunction \/ DeleteUnknown \/ Control
              \/ ConnectionUpdate \/ LoopAwait
  BY <1>1, <1>10 DEF SetupUnknownFunction, DeleteUnknown, Control,
                     ConnectionUpdate, LoopAwait
<1>11. QED
  BY <1>3, <1>7, <1>8, <1>9, <1>10 DEF Procedure

LEMMA HasEventRound ==
    ASSUME CoreInv, HasEvent, RoundStep
    PROVE  HasEvent'
<1> DEFINE k == rnd.key
<1>0. TypeOK /\ k \in AllKeys
  BY RoundKey DEF CoreInv
<1>1. CASE RoundSend \/ RoundSkip \/ RoundCrash
  BY <1>1 DEF RoundSend, RoundSkip, RoundCrash, HasEvent
<1>2. CASE RoundNextPeriod
  <2>1. task[k] = "round"
    BY <1>0, <1>2 DEF RoundNextPeriod, AtEnd, CoreInv, RoundsOwnTask, InRound
  <2>2. QED
    BY <1>0, <1>2, <2>1 DEF RoundNextPeriod, HasEvent, TypeOK, AllKeys
<1>3. CASE RoundDeleted
  BY <1>0, <1>3 DEF RoundDeleted, Erase, HasEvent, TypeOK, AllKeys
<1>4. CASE RoundRestarted
  BY <1>0, <1>4 DEF RoundRestarted, Launch, HasEvent, TypeOK, AllKeys
<1>5. QED
  BY <1>1, <1>2, <1>3, <1>4 DEF RoundStep

LEMMA HasEventStep == CoreInv /\ HasEvent /\ [Next]_vars => HasEvent'
<1> SUFFICES ASSUME CoreInv, HasEvent, [Next]_vars
             PROVE  HasEvent'
  OBVIOUS
<1>0. TypeOK
  BY DEF CoreInv
<1>1. CASE ReceiveIdle \/ ReceiveQueued \/ ReceiveDropped \/ SetupResponse
             \/ ControlDone \/ UNCHANGED vars
  BY <1>1 DEF ReceiveIdle, ReceiveQueued, ReceiveDropped, SetupResponse, ControlDone,
              vars, HasEvent
<1>2. CASE Association
  BY <1>2 DEF Association, ReceivePathLost, Stop, LossHandled, CloseHandled,
              HasEvent, AllKeys
<1>3. CASE \E k \in AllKeys : Expire(k)
  BY <1>0, <1>3 DEF Expire, Resume, HasEvent, TypeOK, AllKeys
<1>4. QED
  BY <1>0, <1>1, <1>2, <1>3, HasEventProcedure, HasEventRound DEF Next, Inside

\* The answer that ends the subscription of k.
Ends(k) ==
    /\ out'.key = k
    /\ \/ out'.type = "DelResp"
       \/ out'.type = "SubFail" /\ k \in reused

\* While the association is up, Emit is what it says.
LEMMA UpEmits ==
    ASSUME conn = "up", NEW type, NEW k, NEW ids, Emit(Msg(type, k, ids))
    PROVE  out'.type = type /\ out'.key = k
BY DEF Emit, Msg

LEMMA EndsInProcedure ==
    ASSUME TypeOK, ObserverMatchesTask, RepeatsKnown, Procedure,
           conn = "up", NEW k \in Keys, task[k] # "none", task'[k] = "none"
    PROVE  Ends(k)
<1> DEFINE j == Head(fifo).key
<1>0. k \in AllKeys /\ k # ZeroKey
  BY KeysAssumption DEF AllKeys
<1>1. ASSUME Pops("SubReq") \/ Pops("SubDel")
      PROVE  j \in Keys /\ j \in AllKeys
  BY <1>1, PopKey
<1>2. CASE SetupRejected
  <2>1. Pops("SubReq") /\ Erase(j) /\ Emit(Msg("SubFail", j, <<>>))
    BY <1>2 DEF SetupRejected
  <2>2. k = j
    BY <1>0, <2>1 DEF Erase, TypeOK
  <2>3. k \in subs
    BY <1>0 DEF ObserverMatchesTask
  <2>4. k \in reused
    BY <2>1, <2>2, <2>3, HeadRepeats
  <2>5. QED
    BY <2>1, <2>2, <2>4, UpEmits DEF Ends
<1>3. CASE DeleteUnobserved
  <2>1. Erase(j) /\ Emit(Msg("DelResp", j, <<>>))
    BY <1>3 DEF DeleteUnobserved
  <2>2. k = j
    BY <1>0, <2>1 DEF Erase, TypeOK
  <2>3. QED
    BY <2>1, <2>2, UpEmits DEF Ends
<1>4. ASSUME NEW i \in AllKeys, task' = [task EXCEPT ![i] = "waiting"]
                                \/ task' = [task EXCEPT ![i] = "round"]
      PROVE  FALSE
  BY <1>0, <1>4 DEF TypeOK
<1>5. ~SetupAccepted /\ ~DeleteWaiting
  BY <1>1, <1>4 DEF SetupAccepted, DeleteWaiting, Launch, Resume
<1>6. ~SetupNotAllowed
  BY <1>0 DEF SetupNotAllowed, TypeOK
<1>7. task' = task \/ SetupRejected \/ DeleteUnobserved
  BY <1>5, <1>6 DEF Procedure, SetupUnknownFunction, DeleteUnknown, Control,
                    ConnectionUpdate, LoopAwait
<1>8. QED
  BY <1>2, <1>3, <1>7

LEMMA EndsInRound ==
    ASSUME TypeOK, RoundStep,
           conn = "up", NEW k \in Keys, task[k] # "none", task'[k] = "none"
    PROVE  Ends(k)
<1> DEFINE j == rnd.key
<1>0. k \in AllKeys /\ j \in AllKeys
  BY RoundKey DEF AllKeys
<1>1. CASE RoundDeleted
  <2>1. Erase(j) /\ Emit(Msg("DelResp", j, <<>>))
    BY <1>1 DEF RoundDeleted
  <2>2. k = j
    BY <1>0, <2>1 DEF Erase, TypeOK
  <2>3. QED
    BY <2>1, <2>2, UpEmits DEF Ends
<1>2. ~RoundNextPeriod /\ ~RoundRestarted
  BY <1>0 DEF RoundNextPeriod, RoundRestarted, Launch, TypeOK
<1>3. QED
  BY <1>1, <1>2 DEF RoundStep, RoundSend, RoundSkip, RoundCrash

LEMMA EndsByAnswer ==
    ASSUME SafeInv, Next, conn = "up", NEW k \in Keys,
           task[k] # "none", task'[k] = "none"
    PROVE  Ends(k)
<1>0. TypeOK /\ ObserverMatchesTask /\ RepeatsKnown /\ k \in AllKeys
  BY DEF SafeInv, CoreInv, AllKeys
<1>1. /\ ~ReceiveIdle /\ ~ReceiveQueued /\ ~ReceiveDropped /\ ~SetupResponse
      /\ ~ControlDone /\ ~Association
  BY DEF ReceiveIdle, ReceiveQueued, ReceiveDropped, SetupResponse, ControlDone,
         Association, ReceivePathLost, Stop, LossHandled, CloseHandled
<1>2. ASSUME NEW i \in AllKeys, Expire(i)
      PROVE  FALSE
  BY <1>0, <1>2 DEF Expire, Resume, TypeOK
<1>3. QED
  BY <1>0, <1>1, <1>2, EndsInProcedure, EndsInRound DEF Next, Inside

\* While the association is up, the coroutine of a subscription ends only in the
\* step that answers the RIC's delete request for it, or that refuses a request
\* that used its id again.
THEOREM RunsUntilDelete == Spec => PeriodicUntilDelete
<1>1. Init => HasEvent
  BY DEF Init, HasEvent, AllKeys
<1>2. SafeInv => CoreInv
  BY DEF SafeInv
<1>3. SafeInv /\ HasEvent' /\ [Next]_vars
      => [\A k \in Keys :
             conn = "up" /\ task[k] # "none" /\ task'[k] \in {"none", "done"}
                 => /\ out'.key = k
                    /\ \/ out'.type = "DelResp"
                       \/ out'.type = "SubFail" /\ k \in reused]_vars
  BY EndsByAnswer DEF HasEvent, Ends
<1>4. QED
  BY <1>1, <1>2, <1>3, SafeInvariant, HasEventStep, PTL DEF Spec, PeriodicUntilDelete
=============================================================================
