------------------------------ MODULE XAppBase ------------------------------
(***************************************************************************)
(* The base class of the Python xApps (xApps/python/lib/xAppBase.py): how   *)
(* it subscribes through the RIC's subscription manager, learns the         *)
(* E2EventInstanceId of a subscription from an HTTP callback, dispatches    *)
(* RIC indications by that id and unsubscribes when it is stopped.          *)
(*                                                                         *)
(* Three threads share the dict my_subscriptions: the main thread (the RMR *)
(* loop and, on top of it, the signal handler), the thread of the xApp's    *)
(* start function (it subscribes) and the thread of the HTTP server (it     *)
(* gives an entry the key indications are looked up with, by a pop and an   *)
(* insertion).  The subscription manager is modelled by what the class      *)
(* uses of it.                                                              *)
(***************************************************************************)
EXTENDS Integers, FiniteSets

CONSTANTS
    Subs,       \* the subscriptions the start function makes
    NoSub

ASSUME SubsAssumption == IsFiniteSet(Subs) /\ NoSub \notin Subs

VARIABLES
    mgr,        \* the manager's side of every subscription
    reply,      \* its HTTP callback for every subscription
    dict,       \* my_subscriptions: the key an entry is stored under
    worker,     \* the start function's thread: at rest, in the REST call, over
    current,    \* the subscription it is making
    popped,     \* the entry the HTTP thread holds between pop and insertion
    main,       \* the main thread: in _run, in unsubscribe_all, in join, ended
    left,       \* entries unsubscribe_all's iteration has still to visit
    size, due,  \* entries the iterator was created with, and still expects
    unheard,    \* subscriptions whose unsubscribe() was not confirmed
    signalled,  \* the signal has arrived (once)
    got         \* subscriptions an indication was dispatched for

vars == <<mgr, reply, dict, worker, current, popped, main, left, size, due, unheard,
          signalled, got>>
stop == <<left, size, due, unheard>>

\* "zero": under E2EventInstanceId 0, which the callback of a refused
\* subscription carries.
Keys == {"absent", "rest", "event", "zero"}

TypeOK ==
    /\ mgr \in [Subs -> {"none", "pending", "active", "refused", "deleted"}]
    /\ reply \in [Subs -> {"none", "sent", "early", "taken"}]
    /\ dict \in [Subs -> Keys]
    /\ worker \in {"rest", "call", "over"}
    /\ current \in Subs \cup {NoSub}
    /\ worker = "call" <=> current # NoSub
    /\ popped \in Subs \cup {NoSub}
    /\ main \in {"run", "unsubscribe", "join", "over", "dead"}
    /\ left \subseteq Subs
    /\ size \in Nat /\ due \in 0..size
    /\ unheard \subseteq Subs
    /\ signalled \in BOOLEAN
    /\ got \subseteq Subs

Init ==
    /\ mgr = [s \in Subs |-> "none"]
    /\ reply = [s \in Subs |-> "none"]
    /\ dict = [s \in Subs |-> "absent"]
    /\ worker = "rest" /\ current = NoSub
    /\ popped = NoSub
    /\ main = "run" /\ left = {} /\ size = 0 /\ due = 0 /\ unheard = {}
    /\ signalled = FALSE
    /\ got = {}

Stored == {s \in Subs : dict[s] # "absent"}

-----------------------------------------------------------------------------
(* subscribe(), on the thread of the start function                         *)

SubscribeCalls ==
    /\ worker = "rest"
    /\ \E s \in Subs :
          /\ mgr[s] = "none"
          /\ worker' = "call" /\ current' = s
          /\ mgr' = [mgr EXCEPT ![s] = "pending"]
    /\ UNCHANGED <<reply, dict, popped, main, stop, signalled, got>>

\* Variant: the thread forgets that its call is over.
SubscribeStoresAgain ==
    /\ worker = "call"
    /\ dict' = [dict EXCEPT ![current] = "rest"]
    /\ left' = IF main = "unsubscribe" THEN left \cup {current} ELSE left
    /\ worker' = "rest"
    /\ UNCHANGED <<mgr, reply, current, popped, main, size, due, unheard, signalled, got>>

\* The REST call has returned an id and the entry is stored under it, at the end
\* of the dict.
SubscribeStores ==
    /\ worker = "call"
    /\ dict' = [dict EXCEPT ![current] = "rest"]
    /\ left' = IF main = "unsubscribe" THEN left \cup {current} ELSE left
    /\ worker' = "rest" /\ current' = NoSub
    /\ UNCHANGED <<mgr, reply, popped, main, size, due, unheard, signalled, got>>

\* The call fails before the manager has the request: there is no JSON to
\* decode, and the exception ends the thread.
SubscribeFails ==
    /\ worker = "rest"
    /\ \E s \in Subs : mgr[s] = "none"
    /\ worker' = "over"
    /\ UNCHANGED <<mgr, reply, dict, current, popped, main, stop, signalled, got>>

StartReturns ==
    /\ worker = "rest" /\ \A s \in Subs : mgr[s] # "none"
    /\ worker' = "over"
    /\ UNCHANGED <<mgr, reply, dict, current, popped, main, stop, signalled, got>>

-----------------------------------------------------------------------------
(* The subscription manager                                                 *)

\* The E2 procedure is over, and its outcome is posted to the xApp.
Answer(s) ==
    /\ mgr[s] = "pending" /\ reply[s] = "none"
    /\ \E result \in {"active", "refused"} : mgr' = [mgr EXCEPT ![s] = result]
    /\ reply' = [reply EXCEPT ![s] = "sent"]
    /\ UNCHANGED <<dict, worker, current, popped, main, stop, signalled, got>>

-----------------------------------------------------------------------------
(* _subscription_response_callback, on the HTTP thread                      *)

\* stop() closes the server before it joins.
Serving == main \notin {"join", "over"}

\* The manager's id is not in the dict: the callback has no effect.
ReplyTooEarly(s) ==
    /\ Serving /\ popped = NoSub
    /\ reply[s] = "sent" /\ dict[s] # "rest"
    /\ reply' = [reply EXCEPT ![s] = "early"]
    /\ UNCHANGED <<mgr, dict, worker, current, popped, main, stop, signalled, got>>

\* pop(SubscriptionId) ...
ReplyPops(s) ==
    /\ Serving /\ popped = NoSub
    /\ reply[s] = "sent" /\ dict[s] = "rest"
    /\ dict' = [dict EXCEPT ![s] = "absent"]
    /\ popped' = s
    /\ UNCHANGED <<mgr, reply, worker, current, main, stop, signalled, got>>

\* Variant: the entry goes back under the manager's id.
ReplyInsertsSameKey ==
    /\ popped # NoSub
    /\ reply' = [reply EXCEPT ![popped] = "taken"]
    /\ dict' = [dict EXCEPT ![popped] = "rest"]
    /\ left' = IF main = "unsubscribe" THEN left \cup {popped} ELSE left
    /\ popped' = NoSub
    /\ UNCHANGED <<mgr, worker, current, main, size, due, unheard, signalled, got>>

\* Variant: the new entry takes the place of every other.
ReplyInsertsOverAll ==
    /\ popped # NoSub
    /\ reply' = [reply EXCEPT ![popped] = "taken"]
    /\ dict' = [s \in Subs |-> IF s = popped THEN "event"
                               ELSE IF dict[s] = "event" THEN "absent" ELSE dict[s]]
    /\ left' = IF main = "unsubscribe" THEN left \cup {popped} ELSE left
    /\ popped' = NoSub
    /\ UNCHANGED <<mgr, worker, current, main, size, due, unheard, signalled, got>>

\* ... and the insertion under E2EventInstanceId, at the end of the dict, where
\* an iteration meets the entry (again).  Refused subscriptions share the key 0.
ReplyInserts ==
    /\ popped # NoSub
    /\ reply' = [reply EXCEPT ![popped] = "taken"]
    /\ LET key == IF mgr[popped] = "refused" THEN "zero" ELSE "event"
       IN  dict' = [s \in Subs |->
                      IF s = popped THEN key
                      ELSE IF key = "zero" /\ dict[s] = "zero" THEN "absent" ELSE dict[s]]
    /\ left' = IF main = "unsubscribe" THEN left \cup {popped} ELSE left
    /\ popped' = NoSub
    /\ UNCHANGED <<mgr, worker, current, main, size, due, unheard, signalled, got>>

-----------------------------------------------------------------------------
(* The main thread                                                          *)

\* _run: an indication is looked up by its E2EventInstanceId and dispatched ...
Dispatch(s) ==
    /\ main = "run" /\ mgr[s] = "active" /\ dict[s] = "event"
    /\ got' = got \cup {s}
    /\ UNCHANGED <<mgr, reply, dict, worker, current, popped, main, stop, signalled>>

\* The signal handler: stop(), unsubscribe_all().
Signal ==
    /\ main = "run" /\ ~signalled
    /\ signalled' = TRUE
    /\ main' = "unsubscribe" /\ left' = Stored
    /\ size' = Cardinality(Stored) /\ due' = size'
    /\ UNCHANGED <<mgr, reply, dict, worker, current, popped, unheard, got>>

\* An exception in the handler.  In the first try of _run, where the loop waits,
\* "except Exception: continue" takes it; elsewhere it ends the thread.
Raises == main' \in {"run", "dead"} /\ left' = {} /\ size' = 0 /\ due' = 0

\* The iterator finds that the dict has not the size it had, or an entry more
\* than it expected: the keys changed.
Changed == Cardinality(Stored) # size \/ (due = 0 /\ left \cap Stored # {})

IterationBreaks ==
    /\ main = "unsubscribe" /\ Changed
    /\ Raises
    /\ UNCHANGED <<mgr, reply, dict, worker, current, popped, unheard, signalled, got>>

\* unsubscribe() is called for the next entry.
NextEntry(s) ==
    /\ main = "unsubscribe" /\ ~Changed
    /\ s \in left \cap Stored

\* Variant: entries without an E2EventInstanceId are passed over.
UnsubscribesMapped(s) ==
    /\ NextEntry(s)
    /\ left' = left \ {s} /\ due' = due - 1
    /\ mgr' = IF dict[s] = "event" THEN [mgr EXCEPT ![s] = "deleted"] ELSE mgr
    /\ UNCHANGED <<reply, dict, worker, current, popped, main, size, unheard, signalled, got>>

\* The manager confirms, or its status is another one: that is printed, and the
\* iteration goes on.
Unsubscribes(s) ==
    /\ NextEntry(s)
    /\ left' = left \ {s} /\ due' = due - 1
    /\ \/ mgr' = [mgr EXCEPT ![s] = "deleted"] /\ UNCHANGED unheard
       \/ UNCHANGED mgr /\ unheard' = unheard \cup {s}
    /\ UNCHANGED <<reply, dict, worker, current, popped, main, size, signalled, got>>

\* The REST call raises, with the request delivered or not: the entries that are
\* left are not visited.
UnsubscribeRaises(s) ==
    /\ NextEntry(s)
    /\ \/ mgr' = [mgr EXCEPT ![s] = "deleted"]
       \/ UNCHANGED mgr
    /\ unheard' = unheard \cup {s}
    /\ Raises
    /\ UNCHANGED <<reply, dict, worker, current, popped, signalled, got>>

\* The iteration is over: the HTTP server and RMR are closed.
StopsServing ==
    /\ main = "unsubscribe" /\ ~Changed
    /\ left \cap Stored = {}
    /\ main' = "join" /\ left' = {} /\ size' = 0 /\ due' = 0
    /\ UNCHANGED <<mgr, reply, dict, worker, current, popped, unheard, signalled, got>>

\* xapp_thread.join() and sys.exit(0).
Exits ==
    /\ main = "join" /\ worker = "over"
    /\ main' = "over"
    /\ UNCHANGED <<mgr, reply, dict, worker, current, popped, stop, signalled, got>>

-----------------------------------------------------------------------------
Worker == SubscribeCalls \/ SubscribeStores \/ SubscribeFails \/ StartReturns
Http == ReplyInserts \/ \E s \in Subs : ReplyTooEarly(s) \/ ReplyPops(s)
Stop ==
    \/ IterationBreaks \/ StopsServing \/ Exits
    \/ \E s \in Subs : Unsubscribes(s) \/ UnsubscribeRaises(s)

Next ==
    \/ Worker \/ Http \/ Stop \/ Signal
    \/ \E s \in Subs : Answer(s) \/ Dispatch(s)

Spec == Init /\ [][Next]_vars

\* The threads run, the manager answers and the E2 node reports periodically.
FairSpec ==
    /\ Spec
    /\ WF_vars(Worker) /\ WF_vars(Http) /\ WF_vars(Stop)
    /\ \A s \in Subs : WF_vars(Answer(s)) /\ WF_vars(Dispatch(s))

-----------------------------------------------------------------------------
(* Properties                                                               *)

\* An active subscription whose callback found its entry is stored under the id
\* its indications carry, whatever the other threads and other subscriptions do
\* (_subscription_response_callback against _run's lookup).
Routed ==
    \A s \in Subs : mgr[s] = "active" /\ reply[s] = "taken" => dict[s] = "event"

\* Unless its callback came before its entry, an active subscription's indications
\* reach the xApp, whatever is subscribed, refused and dispatched meanwhile, until
\* the xApp is signalled or the subscription deleted (subscribe, the callback's
\* pop and insertion, _run's lookup).
Delivered ==
    \A s \in Subs :
        mgr[s] = "active" ~> \/ s \in got \/ reply[s] = "early"
                             \/ main # "run" \/ mgr[s] # "active"

\* "Callback triggered when RIC Indication is received" (kpm5_xapp.py): the
\* indications of an active subscription reach the xApp, unless it stops.
Reported ==
    \A s \in Subs : mgr[s] = "active" ~> (s \in got \/ main # "run" \/ mgr[s] # "active")

\* A signal that comes when nothing else is going on ends the xApp, and every
\* subscription in its dict is deleted by then, or was reported as not deleted.  Only
\* a call that raises keeps the xApp from its end (stop and unsubscribe_all).
Quiet ==
    /\ main = "unsubscribe" /\ left = Stored /\ size = Cardinality(left) /\ due = size
    /\ worker = "over" /\ popped = NoSub
    /\ \A s \in Subs : mgr[s] # "pending" /\ reply[s] # "sent"
QuietStop ==
    Quiet ~> \/ main = "over" /\ \A s \in Stored : mgr[s] = "deleted" \/ s \in unheard
             \/ main \in {"run", "dead"} /\ unheard # {}
=============================================================================
