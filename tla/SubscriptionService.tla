------------------------- MODULE SubscriptionService -------------------------
(***************************************************************************)
(* What the E2 agent promises the near-RT RIC about RIC subscriptions: an  *)
(* indication carries the id of an active subscription, a subscription     *)
(* becomes active in the step that accepts it and, while the association   *)
(* is up, stops being active only in the step that says so.  Once the      *)
(* association is lost nothing is said, and the subscriptions are dropped. *)
(* The coroutines, events and queues that do this are E2Agent's.           *)
(***************************************************************************)
CONSTANTS Keys,   \* RIC request ids
          NoKey   \* the request id of a message that carries none

VARIABLES active,   \* ids of the active subscriptions
          linked,   \* the association is up in both directions
          said      \* what the agent says in this step

svars == <<active, linked, said>>

Said(type, k) == [type |-> type, key |-> k]
Nothing == Said("None", NoKey)

\* What the agent has to say reaches the RIC if the association is up.
Says(m) == said' = IF linked THEN m ELSE Nothing

\* Answers that are about no active subscription.
Answers ==
    [type : {"SubFail", "DelFail", "CtrlAck", "CtrlFail", "ConnUpdFail"}, key : Keys \cup {NoKey}]
        \cup {Said("SubResp", NoKey)}

Init == active = {} /\ linked = TRUE /\ said = Nothing

\* A subscription is accepted, or one that is active accepted again.
Accept(k) ==
    /\ active' = active \cup {k}
    /\ Says(Said("SubResp", k))
    /\ UNCHANGED linked

Report(k) ==
    /\ k \in active
    /\ Says(Said("Ind", k))
    /\ UNCHANGED <<active, linked>>

\* A subscription ends, deleted on request or with a request that repeats its
\* id and is refused.
Withdraw(k) ==
    /\ k \in active
    /\ active' = active \ {k}
    /\ \E type \in {"DelResp", "SubFail"} : Says(Said(type, k))
    /\ UNCHANGED linked

Answer ==
    /\ \E m \in Answers : Says(m)
    /\ UNCHANGED <<active, linked>>

\* Nothing is said, and no subscription starts or ends.
Silence ==
    /\ said' = Nothing
    /\ UNCHANGED <<active, linked>>

Unlink ==
    /\ linked /\ linked' = FALSE
    /\ said' = Nothing
    /\ UNCHANGED active

\* The loss is noticed, and every subscription dropped.
Lose ==
    /\ ~linked
    /\ active' = {}
    /\ said' = Nothing
    /\ UNCHANGED linked

Next ==
    \/ \E k \in Keys : Accept(k) \/ Report(k) \/ Withdraw(k)
    \/ Answer \/ Silence
    \/ Unlink \/ Lose

Spec == Init /\ [][Next]_svars
=============================================================================
