---------------------------- MODULE TimerPromise ----------------------------
(* What a timer promises to its owner: it expires once per run, not before    *)
(* its duration is over, never after it was stopped or restarted, and in the  *)
(* end.  The promise ends where two owners have torn the timer between them.  *)
EXTENDS Naturals

CONSTANT Durations

VARIABLES
  state,  \* "stopped", "running" or "expired"
  left,   \* the ticks for which it must not expire yet
  torn    \* the promise has ended

vars == <<state, left, torn>>

Init == state = "stopped" /\ left = 0 /\ ~torn

Run    == state' = "running" /\ \E d \in Durations : left' = IF d = 0 THEN 1 ELSE d
Stop   == state = "running" /\ state' = "stopped" /\ UNCHANGED left
Renew  == state # "running" /\ state' = "stopped" /\ UNCHANGED left
Pass   == left > 0 /\ left' = left - 1 /\ UNCHANGED state
Expire == state = "running" /\ left = 0 /\ state' = "expired" /\ UNCHANGED left

Keeps == ~torn /\ UNCHANGED torn
Tear  == torn' = TRUE /\ UNCHANGED <<state, left>>

Next == (Keeps /\ (Run \/ Stop \/ Renew \/ Pass \/ Expire)) \/ Tear

Spec == Init /\ [][Next]_vars /\ WF_vars(Keeps /\ Expire)
=============================================================================
