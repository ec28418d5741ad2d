--------------------------- MODULE XAppBaseProofs ---------------------------
(***************************************************************************)
(* Theorems about XAppBase: the types, and that no order of the three      *)
(* threads leaves a mapped subscription under a key its indications do not *)
(* carry.                                                                  *)
(***************************************************************************)
EXTENDS XAppBase, FiniteSetTheorems, TLAPS

\* A subscription nobody has asked for has left no trace.
FreshTraceless ==
    \A s \in Subs :
        mgr[s] = "none" => dict[s] = "absent" /\ reply[s] = "none" /\ popped # s

\* What the REST call of subscribe() is about is not yet the HTTP thread's.
CallIsOwn ==
    current # NoSub =>
        /\ mgr[current] # "none" /\ popped # current
        /\ dict[current] = "absent" /\ reply[current] # "taken"

Inv == TypeOK /\ FreshTraceless /\ CallIsOwn /\ Routed

Fits == Cardinality(Stored) \in Nat

LEMMA StoredIsFinite == Fits
  BY SubsAssumption, FS_Subset, FS_CardinalityType DEF Fits, Stored

LEMMA InitInv == Init => Inv
<1> SUFFICES ASSUME Init PROVE Inv
  OBVIOUS
<1>1. TypeOK
  <2>1. size \in Nat /\ due \in 0..size
    BY DEF Init
  <2> QED
    BY <2>1 DEF Init, TypeOK, Keys
<1>2. FreshTraceless /\ CallIsOwn /\ Routed
  BY SubsAssumption DEF Init, FreshTraceless, CallIsOwn, Routed
<1> QED
  BY <1>1, <1>2 DEF Inv

\* The thread of the start function.
LEMMA WorkerInv == Inv /\ Worker => Inv'
<1> SUFFICES ASSUME Inv, Worker PROVE Inv'
  OBVIOUS
<1> USE SubsAssumption DEF Inv
<1>1. CASE SubscribeCalls
  <2> PICK s \in Subs : /\ mgr[s] = "none" /\ current' = s /\ worker' = "call"
                        /\ mgr' = [mgr EXCEPT ![s] = "pending"]
    BY <1>1 DEF SubscribeCalls
  <2> QED
    BY <1>1 DEF SubscribeCalls, stop, TypeOK, Keys, FreshTraceless, CallIsOwn, Routed
<1>2. CASE SubscribeStores
  BY <1>2 DEF SubscribeStores, TypeOK, Keys, FreshTraceless, CallIsOwn, Routed
<1>3. CASE SubscribeFails
  BY <1>3 DEF SubscribeFails, stop, TypeOK, FreshTraceless, CallIsOwn, Routed
<1>4. CASE StartReturns
  BY <1>4 DEF StartReturns, stop, TypeOK, FreshTraceless, CallIsOwn, Routed
<1> QED
  BY <1>1, <1>2, <1>3, <1>4 DEF Worker

\* The thread of the HTTP server.
LEMMA HttpInv == Inv /\ Http => Inv'
<1> SUFFICES ASSUME Inv, Http PROVE Inv'
  OBVIOUS
<1> USE SubsAssumption DEF Inv
<1>1. CASE ReplyInserts
  BY <1>1 DEF ReplyInserts, TypeOK, Keys, FreshTraceless, CallIsOwn, Routed
<1>2. ASSUME NEW s \in Subs, ReplyTooEarly(s) PROVE Inv'
  BY <1>2 DEF ReplyTooEarly, stop, TypeOK, FreshTraceless, CallIsOwn, Routed
<1>3. ASSUME NEW s \in Subs, ReplyPops(s) PROVE Inv'
  BY <1>3 DEF ReplyPops, stop, TypeOK, Keys, FreshTraceless, CallIsOwn, Routed
<1> QED
  BY <1>1, <1>2, <1>3 DEF Http

\* The main thread, in the RMR loop and in the signal handler.
LEMMA MainInv ==
    Inv /\ (Stop \/ Signal \/ \E s \in Subs : Dispatch(s)) => Inv'
<1> SUFFICES ASSUME Inv, Stop \/ Signal \/ \E s \in Subs : Dispatch(s) PROVE Inv'
  OBVIOUS
<1> USE DEF Inv
<1>1. CASE IterationBreaks
  BY <1>1 DEF IterationBreaks, Raises, TypeOK, FreshTraceless, CallIsOwn, Routed
<1>2. CASE StopsServing
  BY <1>2 DEF StopsServing, TypeOK, FreshTraceless, CallIsOwn, Routed
<1>3. CASE Exits
  BY <1>3 DEF Exits, stop, TypeOK, FreshTraceless, CallIsOwn, Routed
<1>4. ASSUME NEW s \in Subs, Unsubscribes(s) \/ UnsubscribeRaises(s) PROVE Inv'
  <2>1. mgr[s] # "none" /\ NextEntry(s)
    BY <1>4 DEF Unsubscribes, UnsubscribeRaises, NextEntry, Stored, FreshTraceless
  <2>2. left' \subseteq Subs /\ size' \in Nat /\ due' \in 0..size'
    <3>1. due \in 1..size
      BY <2>1 DEF NextEntry, Changed, TypeOK
    <3> QED
      BY <1>4, <3>1 DEF Unsubscribes, UnsubscribeRaises, Raises, TypeOK
  <2>3. /\ mgr' \in {mgr, [mgr EXCEPT ![s] = "deleted"]} /\ unheard' \subseteq Subs
        /\ main' \in {"unsubscribe", "run", "dead"}
        /\ UNCHANGED <<reply, dict, worker, current, popped, signalled, got>>
    BY <1>4, <2>1 DEF Unsubscribes, UnsubscribeRaises, Raises, NextEntry, TypeOK
  <2> QED
    BY <2>1, <2>2, <2>3, SubsAssumption DEF TypeOK, FreshTraceless, CallIsOwn, Routed
<1>5. CASE Signal
  <2>1. left' \subseteq Subs /\ size' \in Nat /\ due' \in 0..size'
    BY <1>5, StoredIsFinite DEF Signal, Fits, Stored
  <2> QED
    BY <1>5, <2>1 DEF Signal, TypeOK, FreshTraceless, CallIsOwn, Routed
<1>6. ASSUME NEW s \in Subs, Dispatch(s) PROVE Inv'
  BY <1>6 DEF Dispatch, stop, TypeOK, FreshTraceless, CallIsOwn, Routed
<1> QED
  BY <1>1, <1>2, <1>3, <1>4, <1>5, <1>6 DEF Stop

\* The outcome the manager posts.
LEMMA AnswerInv == ASSUME NEW s \in Subs PROVE Inv /\ Answer(s) => Inv'
  BY SubsAssumption DEF Inv, Answer, stop, TypeOK, FreshTraceless, CallIsOwn, Routed

LEMMA Invariance == Spec => []Inv
<1>1. Inv /\ [Next]_vars => Inv'
  <2> SUFFICES ASSUME Inv, [Next]_vars PROVE Inv'
    OBVIOUS
  <2>1. CASE UNCHANGED vars
    BY <2>1 DEF vars, Inv, TypeOK, FreshTraceless, CallIsOwn, Routed
  <2> QED
    BY <2>1, WorkerInv, HttpInv, MainInv, AnswerInv DEF Next
<1> QED
  BY InitInv, <1>1, PTL DEF Spec

\* Every variable keeps its type, for every finite set of subscriptions.
THEOREM TypeCorrect == Spec => []TypeOK
  BY Invariance, PTL DEF Inv

\* An active subscription whose callback found its entry is stored under the id
\* its indications carry, in every order of subscribe(), the callback's pop and
\* insertion, the RMR loop and unsubscribe_all.
THEOREM RoutesHold == Spec => []Routed
  BY Invariance, PTL DEF Inv
=============================================================================
