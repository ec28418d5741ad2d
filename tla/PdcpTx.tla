------------------------------- MODULE PdcpTx -------------------------------
(***************************************************************************)
(* The transmitting PDCP entity of a DRB (lib/pdcp/pdcp_entity_tx.cpp).     *)
(* Every SDU gets the next COUNT, is stored until the lower layers report   *)
(* it transmitted (UM) or delivered (AM), until the peer's status report    *)
(* confirms it or until its discardTimer elapses.  One timer serves all the *)
(* SDUs: it is set for the oldest and moved to the next.                    *)
(***************************************************************************)
EXTENDS Integers, FiniteSets, FiniteSetsExt

CONSTANTS
  SnSpace,     \* number of sequence numbers: 2^12 or 2^18 in the code
  CountSpace,  \* number of COUNT values: 2^32 in the code
  Hard,        \* cfg.custom.max_count.hard
  Discard,     \* cfg.discard_timer in ticks, where it is finite
  Late,        \* bound: ticks for which an expired timer's callback waits in its
               \* queue, behind other tasks of the entity
  Rooms,       \* the desired buffer sizes the lower layers ask for, in SDUs
  Bitmaps,     \* bitmaps of the peer's status reports: sets of offsets from 1
  Configs      \* the configurations of the bearer to start from

\* pdcp_window_size: half of the sequence numbers
Window == SnSpace \div 2

ASSUME SizesAssumption ==
  /\ SnSpace \in Nat /\ Window \in Nat \ {0, 1} /\ SnSpace = 2 * Window
  /\ CountSpace \in Nat /\ CountSpace = (CountSpace \div SnSpace) * SnSpace
  /\ Hard \in 1..(CountSpace - 1) /\ Discard \in Nat \ {0} /\ Late \in Nat
ASSUME InputsAssumption ==
  /\ Configs \subseteq [mode : {"um", "am"}, discard_timer : {"finite", "infinity"}]
  /\ Rooms \subseteq Nat /\ Bitmaps \subseteq SUBSET (Nat \ {0})

VARIABLES
  cfg,         \* the configuration of the entity, never changed
  tx_next, tx_trans, tx_next_ack,
  window,      \* tx_window: the ticks since the arrival of each stored SDU
  timer,       \* the ticks until discard_timer expires, or Off
  room,        \* desired_buffer_size, in SDUs
  stopped, max_count_overflow,
  failed,      \* an assertion has ended the program
  submitted,   \* the COUNTs the lower layers have got and not lost
  odd          \* what has happened out of the ordinary: an SDU was stored but
               \* "unsent", a retransmission was "cut" short, a status report left
               \* a "hole", the callback of an expired timer came "late"

st   == <<tx_next, tx_trans, tx_next_ack>>
vars == <<cfg, st, window, timer, room, stopped, max_count_overflow, failed, submitted, odd>>

\* above every timeout
Off    == 2 * (Discard + Late + 1)
Counts == 0..(Hard - 1)

Init ==
  /\ cfg \in Configs
  /\ tx_next = 0 /\ tx_trans = 0 /\ tx_next_ack = 0
  /\ window = [c \in {} |-> 0] /\ timer = Off
  /\ room \in Rooms
  /\ stopped = FALSE /\ max_count_overflow = FALSE /\ failed = FALSE
  /\ submitted = {} /\ odd = {}

Lives   == ~failed /\ ~stopped
isTimed == cfg.discard_timer = "finite"

-----------------------------------------------------------------------------
\* check_early_drop: no room in the lower layers, or the window is full.
DropsOnlyForRoom == Cardinality(DOMAIN window) + 1 > room
EarlyDrop ==
  Cardinality(DOMAIN window) + 1 > room \/ tx_next - tx_next_ack >= Window - 1

\* A new SDU starts the timer unless it runs, whatever SDU it runs for.
NeverStarted == timer
StartedTimer == IF isTimed /\ timer = Off THEN Discard ELSE timer

CountsUsedUp == tx_next >= Hard

\* The place of the next COUNT is taken by an SDU that was stored and not sent.
Occupied == tx_next \in DOMAIN window

Outcomes == {"sent", "uncopied", "unsent"}

\* The copy that an AM bearer keeps may not fit in the pool of buffers, and a
\* stored SDU may get no header or fail to be ciphered: it then keeps the COUNT
\* that the next SDU gets too, and its place in the window.
HandleSdu(outcome) ==
  /\ Lives /\ ~EarlyDrop /\ (outcome = "uncopied" => cfg.mode = "am")
  /\ IF CountsUsedUp
       THEN /\ max_count_overflow' = TRUE
            /\ UNCHANGED <<st, window, timer, failed, submitted, odd>>
       ELSE /\ timer' = StartedTimer
            /\ IF outcome = "uncopied" \/ Occupied
                 THEN /\ failed' = (outcome # "uncopied")
                      /\ UNCHANGED <<tx_next, window, submitted, odd>>
                 ELSE /\ window' = [c \in DOMAIN window \cup {tx_next} |->
                                      IF c = tx_next THEN 0 ELSE window[c]]
                      /\ IF outcome = "sent"
                           THEN /\ tx_next' = tx_next + 1
                                /\ submitted' = submitted \cup {tx_next}
                                /\ UNCHANGED odd
                           ELSE /\ odd' = odd \cup {"unsent"}
                                /\ UNCHANGED <<tx_next, submitted>>
                      /\ UNCHANGED failed
            /\ UNCHANGED <<tx_trans, tx_next_ack, max_count_overflow>>
  /\ UNCHANGED <<cfg, room, stopped>>

HandleDesiredBufferSize(size) ==
  /\ Lives
  /\ room' = size
  /\ UNCHANGED <<cfg, st, window, timer, stopped, max_count_overflow, failed, submitted, odd>>

-----------------------------------------------------------------------------
SN(count)      == count % SnSpace
HFN(count)     == count \div SnSpace
COUNT(hfn, sn) == (hfn % (CountSpace \div SnSpace)) * SnSpace + sn

\* notification_count_estimation: the COUNT next to the window's lower edge.
Estimate(sn) ==
  IF sn < SN(tx_next_ack) - Window THEN COUNT(HFN(tx_next_ack) + 1, sn)
  ELSE IF sn >= SN(tx_next_ack) + Window THEN COUNT(HFN(tx_next_ack) - 1, sn)
  ELSE COUNT(HFN(tx_next_ack), sn)

\* Whether stop_discard_timer leaves without a change.
NothingToStop(highest) ==
  highest < tx_next_ack \/ highest >= tx_next \/ tx_next_ack \notin DOMAIN window

\* It sets the timer for what is left of the next SDU's time.  There must be
\* such an SDU, and some time left: the difference is unsigned.
RearmFails(ack) ==
  isTimed /\ ack # tx_next /\ (ack \notin DOMAIN window \/ window[ack] > Discard)
Rearmed(ack) ==
  IF isTimed /\ ack # tx_next THEN Max({Discard - window[ack], 1}) ELSE Off

\* A report that comes before the callback of an expired timer overtakes it.
StopDiscardTimer(highest, trans) ==
  IF NothingToStop(highest)
    THEN /\ tx_trans' = trans
         /\ UNCHANGED <<tx_next_ack, window, timer, failed, odd>>
    ELSE LET ack == highest + 1 IN
         /\ tx_next_ack' = ack
         /\ tx_trans' = Max({trans, ack})
         /\ window' = Restrict(window, {c \in DOMAIN window : c > highest})
         /\ failed' = RearmFails(ack)
         /\ timer' = IF RearmFails(ack) THEN Off ELSE Rearmed(ack)
         /\ odd' = IF timer <= 0 THEN odd \cup {"late"} ELSE odd

\* The lower layers may report late, and again, but not a window too late.
Reportable == {c \in submitted : c >= tx_next_ack - Window}

\* A first transmission or a retransmission that the lower layers report.
HandleTransmit(count) ==
  LET notified == Estimate(SN(count)) IN
  /\ Lives
  /\ notified >= tx_trans /\ notified < tx_next
  /\ IF cfg.mode = "um"
       THEN StopDiscardTimer(notified, notified + 1)
       ELSE /\ tx_trans' = notified + 1
            /\ UNCHANGED <<tx_next_ack, window, timer, failed, odd>>
  /\ UNCHANGED <<cfg, tx_next, room, stopped, max_count_overflow, submitted>>

HandleDelivery(count) ==
  LET notified == Estimate(SN(count)) IN
  /\ Lives /\ cfg.mode = "am"
  /\ notified < tx_next
  /\ StopDiscardTimer(notified, tx_trans)
  /\ UNCHANGED <<cfg, tx_next, room, stopped, max_count_overflow, submitted>>

-----------------------------------------------------------------------------
\* discard_pdu, for each of some COUNTs: the lower edge goes up to the oldest
\* SDU that is left.  The timer stays as it is.
EdgeByOne(left) == IF left = {} THEN tx_next ELSE tx_next_ack + 1
EdgeAfter(left) == IF left = {} THEN tx_next ELSE Min(left)

DiscardPdus(gone) ==
  LET left == DOMAIN window \ gone IN
  /\ window' = Restrict(window, left)
  /\ tx_next_ack' = IF gone \cap DOMAIN window = {} THEN tx_next_ack ELSE EdgeAfter(left)
  /\ tx_trans' = Max({tx_trans, tx_next_ack'})

\* The peer has everything below fmc and what the bitmap says.
HandleStatusReport(fmc, bitmap) ==
  LET gone == {c \in DOMAIN window : c < tx_next /\ (c < fmc \/ c - fmc \in bitmap)} IN
  /\ Lives /\ cfg.mode = "am"
  /\ DiscardPdus(gone)
  /\ odd' = IF \E c \in gone, d \in DOMAIN window \ gone : d < c THEN odd \cup {"hole"} ELSE odd
  /\ UNCHANGED <<cfg, tx_next, timer, room, stopped, max_count_overflow, failed, submitted>>

\* discard_callback: the SDUs as old as the oldest go, and the timer is set
\* for the time by which the next one is younger.
CallbackTimer(age, left) ==
  IF left = {} \/ window[Min(left)] = age THEN Off ELSE age - window[Min(left)]

DiscardCallback ==
  /\ ~failed /\ timer <= 0
  /\ IF stopped \/ tx_next_ack \notin DOMAIN window
       THEN /\ timer' = Off
            /\ UNCHANGED <<st, window>>
       ELSE LET age  == window[tx_next_ack]
                gone == {c \in DOMAIN window : c < tx_next /\ window[c] = age} IN
            /\ DiscardPdus(gone)
            /\ timer' = CallbackTimer(age, DOMAIN window \ gone)
            /\ UNCHANGED tx_next
  /\ UNCHANGED <<cfg, room, stopped, max_count_overflow, failed, submitted, odd>>

\* Time passes for the SDUs and the timer; a callback that is due may wait.
\* Ages are counted up to the bound Off.
Tick ==
  /\ ~failed /\ timer > -Late
  /\ timer # Off \/ (isTimed /\ window # << >>)
  /\ timer' = IF timer = Off THEN Off ELSE timer - 1
  /\ window' = [c \in DOMAIN window |-> IF isTimed THEN Min({window[c] + 1, Off}) ELSE 0]
  /\ odd' = IF timer <= 0 THEN odd \cup {"late"} ELSE odd
  /\ UNCHANGED <<cfg, st, room, stopped, max_count_overflow, failed, submitted>>

-----------------------------------------------------------------------------
\* retransmit_all_pdus: what is stored goes to the lower layers again, up to an
\* SDU whose copy, header or ciphering fails.
Retransmit(end) == {c \in DOMAIN window : c < end}

\* The lower layers of an AM bearer have been re-established or have changed.
\* A UM bearer starts over, with a new key; its timer goes on.
Reestablish(end) ==
  /\ Lives
  /\ IF cfg.mode = "am"
       THEN /\ tx_trans' = tx_next_ack
            /\ submitted' = Retransmit(end)
            /\ odd' = IF end < tx_next THEN odd \cup {"cut"} ELSE odd
            /\ UNCHANGED <<tx_next, tx_next_ack, window>>
       ELSE /\ tx_next' = 0 /\ tx_trans' = 0 /\ tx_next_ack' = 0
            /\ window' = [c \in {} |-> 0]
            /\ submitted' = {}
            /\ UNCHANGED odd
  /\ UNCHANGED <<cfg, timer, room, stopped, max_count_overflow, failed>>

Stop ==
  /\ Lives
  /\ stopped' = TRUE /\ timer' = Off
  /\ window' = [c \in {} |-> 0]
  /\ UNCHANGED <<cfg, st, room, max_count_overflow, failed, submitted, odd>>

Next ==
  \/ \E outcome \in Outcomes : HandleSdu(outcome)
  \/ \E size \in Rooms : HandleDesiredBufferSize(size)
  \/ \E count \in Reportable : HandleTransmit(count) \/ HandleDelivery(count)
  \/ \E fmc \in 0..tx_next, bitmap \in Bitmaps : HandleStatusReport(fmc, bitmap)
  \/ DiscardCallback
  \/ Tick
  \/ \E end \in DOMAIN window \cup {tx_next} : Reestablish(end)
  \/ Stop

Fairness == WF_vars(Tick) /\ WF_vars(DiscardCallback)

Spec == Init /\ [][Next]_vars /\ Fairness
-----------------------------------------------------------------------------
(* Properties *)

\* Types.
TypeOK ==
  /\ cfg \in Configs
  /\ tx_next \in 0..Hard /\ tx_trans \in Nat /\ tx_next_ack \in Nat
  /\ DOMAIN window \subseteq Counts /\ submitted \subseteq Counts
  /\ \A c \in DOMAIN window : window[c] \in Nat
  /\ timer \in (-Late)..Off /\ room \in Rooms
  /\ stopped \in BOOLEAN /\ max_count_overflow \in BOOLEAN /\ failed \in BOOLEAN
  /\ odd \subseteq {"unsent", "cut", "hole", "late"}

\* An assertion of the entity, of its window or of its timer fails only after
\* an SDU was stored and not sent, after a status report with a hole, or when
\* the callback of an expired timer came late.
AssertFailsForCause == failed => odd \cap {"unsent", "hole", "late"} # {}

\* The three state variables keep their order, and fewer SDUs than half of
\* the sequence numbers are in flight.  Only an SDU that was stored and not
\* sent is beyond the upper edge.
Edges ==
  /\ tx_next_ack <= tx_trans /\ tx_trans <= tx_next
  /\ tx_next < tx_next_ack + Window
  /\ \A c \in DOMAIN window : tx_next_ack <= c /\ c <= tx_next
  /\ Occupied => "unsent" \in odd

\* TX_NEXT_ACK is the oldest stored SDU ("Update TX_NEXT_ACK to oldest element
\* in tx_window"): while it is a COUNT that is not stored, stop_discard_timer
\* ignores every report.
NextAckIsOldest ==
  tx_next_ack < tx_next /\ ~stopped => tx_next_ack \in DOMAIN window

\* It is, unless a status report left a hole in the window of an entity with an
\* infinite discardTimer; with a finite one an assertion has failed by then.
NextAckIsStored ==
  NextAckIsOldest \/ ("hole" \in odd /\ (failed \/ ~isTimed))

\* The three state variables, the stored SDUs and the one timer agree, so that
\* no assertion fails and no report is ignored for ever, but for the causes
\* named above.
WindowIsSound == TypeOK /\ AssertFailsForCause /\ Edges /\ NextAckIsStored

\* However late a report comes, the COUNT inferred for it is the one meant:
\* no SDU is taken for delivered because another one was.
EstimateIsExact == ~stopped => \A c \in Reportable : Estimate(SN(c)) = c

\* The one timer serves all: as long as its callbacks come in time, no SDU that
\* was sent outlives its discardTimer, over holes, failed SDUs and retransmissions.
NobodyOverstays ==
  isTimed /\ ~failed /\ "late" \notin odd =>
    \A c \in DOMAIN window \ {tx_next} : window[c] <= Discard

\* The lower layers of an AM bearer hold every SDU that was sent and is not
\* acknowledged, also after they have been re-established, unless the
\* retransmission was cut short.
NothingStranded ==
  cfg.mode = "am" /\ "cut" \notin odd => DOMAIN window \ {tx_next} \subseteq submitted

\* What becomes of an SDU: it is not confirmed for another one, not kept longer
\* than its time, and not forgotten by the lower layers.
EverySduIsLookedAfter == EstimateIsExact /\ NobodyOverstays /\ NothingStranded

\* A full window, in which every new SDU is dropped, opens again even when the
\* lower layers and the peer stay silent.
WindowOpens ==
  isTimed /\ tx_next - tx_next_ack >= Window - 1 ~>
    tx_next - tx_next_ack < Window - 1 \/ stopped \/ failed
=============================================================================
