------------------------------- MODULE PdcpRx -------------------------------
(***************************************************************************)
(* The receiving PDCP entity of one bearer (lib/pdcp/pdcp_entity_rx.cpp).   *)
(* A data PDU carries only the low bits of its COUNT; the entity infers the *)
(* rest from RX_DELIV, hands the PDU to the crypto workers, which finish in *)
(* any order, and then stores, reorders and delivers it.  A hole in the     *)
(* sequence is waited for until t-Reordering expires.                       *)
(***************************************************************************)
EXTENDS Integers, FiniteSets

CONSTANTS
  SnSpace,     \* number of sequence numbers: 2^12 or 2^18 in the code
  CountSpace,  \* number of COUNT values: 2^32 in the code
  Notify,      \* cfg.custom.max_count.notify
  Hard,        \* cfg.custom.max_count.hard
  LastCount,   \* bound: the peer uses the COUNTs below it
  MaxInflight, \* bound: tasks in the executors' queues, which refuse more
  Copies,      \* the copies of a PDU that can arrive (retransmissions)
  Configs      \* the configurations of the bearer to start from

\* pdcp_window_size: half of the sequence numbers
Window == SnSpace \div 2

ASSUME SizesAssumption ==
  /\ SnSpace \in Nat /\ Window \in Nat \ {0} /\ SnSpace = 2 * Window
  /\ CountSpace \in Nat /\ CountSpace = (CountSpace \div SnSpace) * SnSpace
  /\ Notify \in Nat /\ Hard \in Nat /\ LastCount \in 0..CountSpace
ASSUME ConfigsAssumption ==
  Configs \subseteq [rb : {"srb", "um", "am"}, t_reordering : {"ms0", "finite", "infinity"}]

VARIABLES
  cfg,         \* the configuration of the entity, never changed
  rx_next, rx_deliv, rx_reord,
  window,      \* rx_window: the stored SDUs by COUNT
  reordering,  \* whether t-Reordering runs
  stopped, max_count_notified, max_count_overflow,
  inflight,    \* PDUs with the crypto workers or queued for apply_reordering
  delivered,   \* history: how often each COUNT went to the upper layers
  sent         \* the next COUNT of the peer that sends to this entity

st   == <<rx_next, rx_deliv, rx_reord>>
vars == <<cfg, st, window, reordering, stopped, max_count_notified,
          max_count_overflow, inflight, delivered, sent>>

Counts == 0..(CountSpace - 1)
Used   == 0..(LastCount - 1)

Init ==
  /\ cfg \in Configs
  /\ rx_next = 0 /\ rx_deliv = 0 /\ rx_reord = 0
  /\ window = [c \in {} |-> 0]
  /\ reordering = FALSE /\ stopped = FALSE
  /\ max_count_notified = FALSE /\ max_count_overflow = FALSE
  /\ inflight = {}
  /\ delivered = [c \in Used |-> 0]
  /\ sent = 0

-----------------------------------------------------------------------------
SN(count)      == count % SnSpace
HFN(count)     == count \div SnSpace
COUNT(hfn, sn) == (hfn % (CountSpace \div SnSpace)) * SnSpace + sn

\* RCVD_HFN, from the number in the header and the lower edge of the window
RcvdHfnOneEarly(sn) ==
  IF sn < SN(rx_deliv) - Window THEN HFN(rx_deliv) + 1
  ELSE IF sn >= SN(rx_deliv) + Window - 1 THEN HFN(rx_deliv) - 1
  ELSE HFN(rx_deliv)
RcvdHfnSame(sn) == HFN(rx_deliv)
RcvdHfn(sn) ==
  IF sn < SN(rx_deliv) - Window THEN HFN(rx_deliv) + 1
  ELSE IF sn >= SN(rx_deliv) + Window THEN HFN(rx_deliv) - 1
  ELSE HFN(rx_deliv)

\* cfg.custom.max_count.hard: such a PDU is not processed.
Refuses(count) == count >= Hard

\* The peer takes the next COUNT.  Its own window and the lower layers see to
\* it that it is never a whole window ahead of what this entity waits for.
PeerSend ==
  /\ sent < LastCount /\ sent < rx_deliv + Window
  /\ sent' = sent + 1
  /\ UNCHANGED <<cfg, st, window, reordering, stopped, max_count_notified,
                 max_count_overflow, inflight, delivered>>

\* A copy of one of the last Window PDUs arrives.
HandleDataPdu(count, copy) ==
  /\ ~stopped /\ Cardinality(inflight) < MaxInflight
  /\ count < sent /\ count >= sent - Window
  /\ LET rcvd == COUNT(RcvdHfn(SN(count)), SN(count)) IN
       /\ max_count_notified' = (max_count_notified \/ rcvd > Notify)
       /\ max_count_overflow' = (max_count_overflow \/ Refuses(rcvd))
       /\ inflight' = inflight \cup
            (IF Refuses(rcvd) THEN {} ELSE {[was |-> count, count |-> rcvd, copy |-> copy]})
  /\ UNCHANGED <<cfg, st, window, reordering, stopped, delivered, sent>>

\* Integrity or deciphering failed, or an executor's queue was full.
DropInFlight(pdu) ==
  /\ inflight' = inflight \ {pdu}
  /\ UNCHANGED <<cfg, st, window, reordering, stopped, max_count_notified,
                 max_count_overflow, delivered, sent>>

-----------------------------------------------------------------------------
Restrict(f, S) == [c \in DOMAIN f \cap S |-> f[c]]

\* The first COUNT from lo on that is not stored, or hi.
FirstMissing(stored, lo, hi) ==
  CHOOSE c \in lo..hi : /\ c = hi \/ c \notin stored
                        /\ (lo..(c - 1)) \subseteq stored

\* RX_DELIV goes up to deliv; what is stored on the way is delivered.
DeliverOneShort(stored, deliv) ==
  /\ rx_deliv' = IF deliv > rx_deliv THEN deliv - 1 ELSE deliv
  /\ window' = Restrict(stored, {c \in DOMAIN stored : c < rx_deliv \/ c >= deliv})
  /\ delivered' = [c \in Used |->
       IF c \in DOMAIN stored /\ rx_deliv <= c /\ c < deliv THEN delivered[c] + 1 ELSE delivered[c]]
DeliverUpTo(stored, deliv) ==
  /\ rx_deliv' = deliv
  /\ window' = Restrict(stored, {c \in DOMAIN stored : c < rx_deliv \/ c >= deliv})
  /\ delivered' = [c \in Used |->
       IF c \in DOMAIN stored /\ rx_deliv <= c /\ c < deliv THEN delivered[c] + 1 ELSE delivered[c]]

\* add_sn(): the SDU takes the place of any other one with the same index.
\* The count field of the new element keeps the value it is created with.
StoreIn(count, copy) ==
  [c \in {count} \cup {d \in DOMAIN window : d % Window # count % Window} |->
     IF c = count THEN [count |-> 0, copy |-> copy] ELSE window[c]]

\* An SDU that is too late, or here already, is dropped.
StoredOnly(count) == count \in DOMAIN window /\ window[count].count = count
LateOrStored(count) == count < rx_deliv \/ StoredOnly(count)

\* t-Reordering is stopped once RX_DELIV has reached RX_REORD, ...
Runs(deliv) == reordering /\ deliv < rx_reord

\* ... and started for a hole that has no timer.
StartsEvenInfinite(deliv, next) == ~Runs(deliv) /\ deliv < next
Starts(deliv, next) == cfg.t_reordering = "finite" /\ ~Runs(deliv) /\ deliv < next

\* At its expiry it is started again for what has come after RX_REORD.
NeverRestarts(deliv) == FALSE
Restarts(deliv) == deliv < rx_next

ApplyReordering(pdu) ==
  /\ inflight' = inflight \ {pdu}
  /\ LET stored == StoreIn(pdu.count, pdu.copy)
         next   == IF pdu.count >= rx_next THEN pdu.count + 1 ELSE rx_next
         deliv  == IF cfg.t_reordering = "ms0" THEN next
                   ELSE IF pdu.count = rx_deliv THEN FirstMissing(DOMAIN stored, rx_deliv, next)
                   ELSE rx_deliv
     IN  IF LateOrStored(pdu.count)
           THEN UNCHANGED <<st, window, reordering, delivered>>
           ELSE /\ rx_next' = next
                /\ DeliverUpTo(stored, deliv)
                /\ reordering' = (Runs(deliv) \/ Starts(deliv, next))
                /\ rx_reord' = IF cfg.t_reordering = "ms0" \/ Starts(deliv, next)
                                 THEN next ELSE rx_reord
  /\ UNCHANGED <<cfg, stopped, max_count_notified, max_count_overflow, sent>>

\* reordering_callback and handle_t_reordering_expire: RX_DELIV goes up one by
\* one until it meets RX_REORD, then on over what is stored from there.
ReorderingExpires ==
  /\ reordering
  /\ IF stopped
       THEN /\ reordering' = FALSE
            /\ UNCHANGED <<st, window, delivered>>
       ELSE LET deliv == FirstMissing(DOMAIN window, rx_reord, rx_next) IN
            /\ DeliverUpTo(window, deliv)
            /\ reordering' = Restarts(deliv)
            /\ rx_reord' = IF Restarts(deliv) THEN rx_next ELSE rx_reord
            /\ UNCHANGED rx_next
  /\ UNCHANGED <<cfg, stopped, max_count_notified, max_count_overflow, inflight, sent>>

\* The caller has awaited the crypto tasks.  SRBs and UM DRBs start over, and
\* so does the peer; an AM DRB keeps its state.
Reestablish ==
  /\ ~stopped /\ inflight = {}
  /\ IF cfg.rb = "am"
       THEN UNCHANGED <<st, window, reordering, delivered, sent>>
       ELSE /\ rx_next' = 0 /\ rx_deliv' = 0 /\ rx_reord' = 0
            /\ window' = Restrict(window, {c \in DOMAIN window : c < rx_deliv \/ c >= rx_next})
            /\ reordering' = FALSE
            /\ delivered' = [c \in Used |-> 0]
            /\ sent' = 0
  /\ UNCHANGED <<cfg, stopped, max_count_notified, max_count_overflow, inflight>>

\* stop(): what is in flight goes on, and may even start the timer again.
Stop ==
  /\ ~stopped
  /\ stopped' = TRUE /\ reordering' = FALSE
  /\ UNCHANGED <<cfg, st, window, max_count_notified, max_count_overflow,
                 inflight, delivered, sent>>

Next ==
  \/ PeerSend
  \/ \E count \in Used, copy \in Copies : HandleDataPdu(count, copy)
  \/ \E pdu \in inflight : DropInFlight(pdu) \/ ApplyReordering(pdu)
  \/ ReorderingExpires
  \/ Reestablish
  \/ Stop

Fairness ==
  /\ WF_vars(\E pdu \in inflight : DropInFlight(pdu) \/ ApplyReordering(pdu))
  /\ WF_vars(ReorderingExpires)

Spec == Init /\ [][Next]_vars /\ Fairness
-----------------------------------------------------------------------------
(* Properties *)

\* Types, and the order of the state variables.
TypeOK ==
  /\ cfg \in Configs
  /\ rx_next \in 0..Hard /\ rx_deliv \in Nat /\ rx_reord \in Nat /\ sent \in 0..LastCount
  /\ DOMAIN window \subseteq Counts
  /\ \A c \in DOMAIN window : window[c] \in [count : {0}, copy : Copies]
  /\ reordering \in BOOLEAN /\ stopped \in BOOLEAN
  /\ max_count_notified \in BOOLEAN /\ max_count_overflow \in BOOLEAN
  /\ inflight \subseteq [was : Counts, count : Counts, copy : Copies]
  /\ delivered \in [Used -> Nat]

\* The hyper frame number never falls out of step with the peer: whatever the
\* losses, the copies, the reordering and the timeouts, the COUNT inferred for
\* a PDU is the one the peer used (and deciphers it with).
CountInferred == \A pdu \in inflight : pdu.count = pdu.was

\* The stored SDUs lie between RX_DELIV, which is missing, and RX_NEXT, at
\* most a window apart: no two of them share an index of the circular map.
WindowBounds ==
  /\ rx_deliv <= rx_next /\ rx_next <= sent /\ sent <= rx_deliv + Window
  /\ \A c \in DOMAIN window : rx_deliv < c /\ c < rx_next

\* When t-Reordering expires RX_DELIV is below RX_REORD: the loop that counts
\* RX_DELIV up until the two are equal ends.
ExpiryLoopEnds == reordering => rx_deliv < rx_reord /\ rx_reord <= rx_next

\* With a finite t-Reordering no hole is left without a running timer.
HoleIsTimed ==
  cfg.t_reordering = "finite" /\ rx_deliv < rx_next => reordering \/ stopped

\* Whatever is lost, copied, reordered or too late, the receiving window stays
\* in step with the peer, and every hole in it is waited for and given up.
StaysInStep ==
  TypeOK /\ CountInferred /\ WindowBounds /\ ExpiryLoopEnds /\ HoleIsTimed

\* An SDU goes to the upper layers at most once, and then RX_DELIV is past it:
\* a copy that comes later is refused.
DeliveredOnce ==
  \A c \in Used : delivered[c] > 0 => delivered[c] = 1 /\ c < rx_deliv

\* A bearer whose t-Reordering is infinite skips nothing.
InfinityIsLossless ==
  cfg.t_reordering = "infinity" => \A c \in Used : c < rx_deliv => delivered[c] = 1

\* What the upper layers get: nothing twice, and with an infinite t-Reordering
\* everything.
DeliveryIsExact == DeliveredOnce /\ InfinityIsLossless

\* SDUs go up in the order of their COUNTs, also over a timeout.
InOrder ==
  [][\A c, d \in Used :
       delivered'[c] > delivered[c] /\ delivered[d] > 0 => d < c]_vars

\* RRC hears of the maximum COUNT only when the peer has got there: no
\* wrongly inferred COUNT, such as HFN -1, raises it.
MaxCountIsReal ==
  [][/\ max_count_notified' /\ ~max_count_notified => sent > Notify + 1
     /\ max_count_overflow' /\ ~max_count_overflow => sent > Hard]_vars

\* With a finite t-Reordering no hole stops the bearer for good: when the peer
\* pauses (here at LastCount), RX_DELIV catches up with RX_NEXT.
HolesClose ==
  cfg.t_reordering = "finite" /\ rx_deliv < rx_next ~> rx_deliv = rx_next \/ stopped
=============================================================================
