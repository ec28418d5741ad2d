---------------------------- MODULE PdcpRxProofs ----------------------------
(***************************************************************************)
(* Theorems about PdcpRx, for every length of sequence numbers, every COUNT *)
(* space, every limit and every configuration.  The peer is never a window  *)
(* ahead of RX_DELIV; so the COUNT inferred from a sequence number is the   *)
(* one that was sent, and all the rest follows from that.                   *)
(***************************************************************************)
EXTENDS PdcpRx, WellFoundedInduction, TLAPS

-----------------------------------------------------------------------------
(* Arithmetic and the operators *)

\* A set of natural numbers that is not empty has a smallest element.
LEMMA SmallestElement ==
  ASSUME NEW T, T \subseteq Nat, T # {}
  PROVE  \E x \in T : \A y \in T : x <= y
<1>1. PICK x \in T : \A y \in T : ~(<<y, x>> \in OpToRel(<, Nat))
  BY NatLessThanWellFounded, WFMin
<1>2. ASSUME NEW y \in T
      PROVE  x <= y
  <2>1. ~(<<y, x>> \in OpToRel(<, Nat))
    BY <1>1
  <2>2. x \in Nat /\ y \in Nat
    OBVIOUS
  <2>3. ~(y < x)
    BY <2>1, <2>2 DEF OpToRel
  <2> QED
    BY <2>2, <2>3
<1> QED
  BY <1>2

\* FirstMissing is where the loop of deliver_all_consecutive_counts stops.
LEMMA FirstMissingStops ==
  ASSUME NEW stored, NEW lo \in Nat, NEW hi \in Nat, lo <= hi
  PROVE  LET c == FirstMissing(stored, lo, hi) IN
         /\ c \in lo..hi
         /\ c = hi \/ c \notin stored
         /\ (lo..(c - 1)) \subseteq stored
<1> DEFINE T == {c \in lo..hi : c = hi \/ c \notin stored}
<1>1. PICK c \in T : \A y \in T : c <= y
  <2>1. hi \in T /\ T \subseteq Nat
    OBVIOUS
  <2> QED
    BY <2>1, SmallestElement
<1>2. c \in lo..hi /\ (c = hi \/ c \notin stored)
  OBVIOUS
<1>3. (lo..(c - 1)) \subseteq stored
  <2>1. ASSUME NEW d \in lo..(c - 1), d \notin stored
        PROVE  FALSE
    BY <1>1, <2>1
  <2> QED
    BY <2>1
<1> QED
  BY <1>2, <1>3 DEF FirstMissing

LEMMA DivMod ==
  ASSUME NEW a \in Int, NEW s \in Nat \ {0}
  PROVE  a \div s \in Int /\ a % s \in 0..(s - 1) /\ a = (a \div s) * s + (a % s)
OBVIOUS

LEMMA Sizes ==
  /\ SnSpace \in Nat \ {0} /\ Window \in Nat \ {0} /\ SnSpace = 2 * Window
  /\ CountSpace \in Nat /\ CountSpace \div SnSpace \in Nat
  /\ CountSpace = (CountSpace \div SnSpace) * SnSpace
<1>1. SnSpace \in Nat \ {0} /\ Window \in Nat \ {0} /\ SnSpace = 2 * Window
  BY SizesAssumption
<1>2. CountSpace \in Nat /\ CountSpace = (CountSpace \div SnSpace) * SnSpace
  BY SizesAssumption
<1>3. CountSpace \div SnSpace \in Int
  BY <1>1, <1>2, DivMod
<1>4. ASSUME CountSpace \div SnSpace <= -1
      PROVE  FALSE
  <2> DEFINE q == CountSpace \div SnSpace
  <2> HIDE DEF q
  <2>1. q \in Int /\ q <= -1 /\ CountSpace = q * SnSpace
    BY <1>2, <1>3, <1>4 DEF q
  <2>2. q * SnSpace <= (-1) * SnSpace
    BY <1>1, <2>1
  <2> QED
    BY <1>1, <1>2, <2>1, <2>2
<1> QED
  BY <1>1, <1>2, <1>3, <1>4

\* The COUNT of a PDU is inferred from its sequence number: it is the one the
\* peer used, if that is less than a window away from RX_DELIV.
LEMMA CountIsInferred ==
  ASSUME rx_deliv \in Nat, NEW count \in 0..(CountSpace - 1),
         rx_deliv - Window <= count, count < rx_deliv + Window
  PROVE  COUNT(RcvdHfn(SN(count)), SN(count)) = count
<1> DEFINE h  == count \div SnSpace
           s  == count % SnSpace
           hd == rx_deliv \div SnSpace
           sd == rx_deliv % SnSpace
<1>1. /\ h \in Int /\ s \in 0..(SnSpace - 1) /\ count = h * SnSpace + s
      /\ hd \in Int /\ sd \in 0..(SnSpace - 1) /\ rx_deliv = hd * SnSpace + sd
  <2>1. SnSpace \in Nat \ {0} /\ count \in Int /\ rx_deliv \in Int
    BY Sizes
  <2>2. h \in Int /\ s \in 0..(SnSpace - 1) /\ count = h * SnSpace + s
    BY <2>1, DivMod
  <2>3. hd \in Int /\ sd \in 0..(SnSpace - 1) /\ rx_deliv = hd * SnSpace + sd
    BY <2>1, DivMod
  <2> QED
    BY <2>2, <2>3
<1>2. RcvdHfn(s) = h
  <2> HIDE DEF h, s, hd, sd
  <2>1. h - hd \in {-1, 0, 1}
    <3>1. ASSUME h >= hd + 2
          PROVE  FALSE
      <4>1. h * SnSpace >= (hd + 2) * SnSpace
        BY <1>1, <3>1, Sizes
      <4>2. (hd + 2) * SnSpace = hd * SnSpace + 2 * SnSpace
        BY <1>1, Sizes
      <4> QED
        BY <1>1, <4>1, <4>2, Sizes
    <3>2. ASSUME h <= hd - 2
          PROVE  FALSE
      <4>1. h * SnSpace <= (hd - 2) * SnSpace
        BY <1>1, <3>2, Sizes
      <4>2. (hd - 2) * SnSpace = hd * SnSpace - 2 * SnSpace
        BY <1>1, Sizes
      <4> QED
        BY <1>1, <4>1, <4>2, Sizes
    <3> QED
      BY <1>1, <3>1, <3>2
  <2>2. CASE h = hd
    <3>1. sd - Window <= s /\ s < sd + Window
      BY <1>1, <2>2, Sizes
    <3> QED
      BY <1>1, <2>2, <3>1, Sizes DEF RcvdHfn, SN, HFN, sd, hd
  <2>3. CASE h = hd + 1
    <3>1. (hd + 1) * SnSpace = hd * SnSpace + SnSpace
      BY <1>1, Sizes
    <3>2. s < sd - Window
      BY <1>1, <2>3, <3>1, Sizes
    <3> QED
      BY <2>3, <3>2 DEF RcvdHfn, SN, HFN, sd, hd
  <2>4. CASE h = hd - 1
    <3>1. (hd - 1) * SnSpace = hd * SnSpace - SnSpace
      BY <1>1, Sizes
    <3>2. s >= sd + Window
      BY <1>1, <2>4, <3>1, Sizes
    <3>3. ~(s < sd - Window)
      BY <1>1, <3>2, Sizes
    <3> QED
      BY <2>4, <3>2, <3>3 DEF RcvdHfn, SN, HFN, sd, hd
  <2> QED
    BY <1>1, <2>1, <2>2, <2>3, <2>4
<1>3. h \in 0..((CountSpace \div SnSpace) - 1)
  <2>1. h >= 0
    <3>1. ASSUME h <= -1
          PROVE  FALSE
      BY <1>1, <3>1, Sizes
    <3> QED
      BY <1>1, <3>1
  <2>2. h < CountSpace \div SnSpace
    <3>1. ASSUME h >= CountSpace \div SnSpace
          PROVE  h * SnSpace >= CountSpace
      BY <1>1, <3>1, Sizes
    <3> QED
      BY <1>1, <3>1, Sizes
  <2> QED
    BY <1>1, <2>1, <2>2, Sizes
<1>4. h % (CountSpace \div SnSpace) = h
  BY <1>3, Sizes
<1> QED
  BY <1>1, <1>2, <1>4 DEF COUNT, SN
-----------------------------------------------------------------------------
(* The inductive invariant *)

\* What the crypto workers have was sent, and is below the limit.
InFlightKnown ==
  \A pdu \in inflight : pdu.count < sent /\ pdu.count < Hard

\* Only a finite t-Reordering is ever started.
TimerIsFinite == reordering => cfg.t_reordering = "finite"

IInv == StaysInStep /\ DeliveryIsExact /\ InFlightKnown /\ TimerIsFinite

\* What the invariant says of the numbers, for the leaves that need no more.
LEMMA Numbers ==
  ASSUME IInv
  PROVE  /\ rx_next \in Nat /\ rx_deliv \in Nat /\ rx_reord \in Nat /\ sent \in Nat
         /\ rx_deliv <= rx_next /\ rx_next <= sent /\ sent <= rx_deliv + Window
         /\ rx_next <= Hard /\ sent <= LastCount
         /\ Hard \in Nat /\ Notify \in Nat /\ LastCount \in Nat /\ LastCount <= CountSpace
         /\ Counts \subseteq Nat /\ Used \subseteq Counts
BY SizesAssumption, Sizes DEF IInv, StaysInStep, TypeOK, WindowBounds, Counts, Used

LEMMA InitEstablishes == Init => IInv
<1> SUFFICES ASSUME Init PROVE IInv
  OBVIOUS
<1>1. TypeOK
  <2>1. rx_next \in 0..Hard /\ rx_deliv \in Nat /\ rx_reord \in Nat /\ sent \in 0..LastCount
    BY SizesAssumption DEF Init
  <2>2. DOMAIN window = {} /\ delivered \in [Used -> Nat]
    BY DEF Init
  <2> QED
    BY <2>1, <2>2 DEF Init, TypeOK
<1>2. WindowBounds
  BY Sizes DEF Init, WindowBounds
<1>3. DeliveryIsExact
  BY SizesAssumption DEF Init, DeliveryIsExact, DeliveredOnce, InfinityIsLossless, Used
<1> QED
  BY <1>1, <1>2, <1>3 DEF Init, IInv, StaysInStep, CountInferred, ExpiryLoopEnds, HoleIsTimed,
     InFlightKnown, TimerIsFinite

LEMMA PeerSendKeeps ==
  ASSUME IInv, PeerSend
  PROVE  IInv'
<1>1. sent' = sent + 1 /\ sent < LastCount /\ sent < rx_deliv + Window
      /\ UNCHANGED <<cfg, rx_next, rx_deliv, rx_reord, window, reordering, stopped,
                     max_count_notified, max_count_overflow, inflight, delivered>>
  BY DEF PeerSend, st
<1>2. TypeOK'
  BY <1>1, Numbers DEF IInv, StaysInStep, TypeOK
<1>3. WindowBounds'
  BY <1>1, Numbers, Sizes DEF IInv, StaysInStep, WindowBounds
<1>4. InFlightKnown'
  <2>1. ASSUME NEW pdu \in inflight
        PROVE  pdu.count < sent + 1 /\ pdu.count < Hard
    <3>1. pdu.count \in Nat /\ pdu.count < sent /\ pdu.count < Hard
      BY Numbers DEF IInv, InFlightKnown, StaysInStep, TypeOK
    <3> QED
      BY <3>1, Numbers
  <2> QED
    BY <1>1, <2>1 DEF InFlightKnown
<1> QED
  BY <1>1, <1>2, <1>3, <1>4 DEF IInv, StaysInStep, CountInferred, ExpiryLoopEnds, HoleIsTimed,
     DeliveryIsExact, DeliveredOnce, InfinityIsLossless, TimerIsFinite

\* The COUNT of a PDU that arrives is inferred rightly.
LEMMA ReceivedAsSent ==
  ASSUME IInv, NEW count \in Used, count < sent, count >= sent - Window
  PROVE  COUNT(RcvdHfn(SN(count)), SN(count)) = count
<1>1. count \in 0..(CountSpace - 1)
  BY Numbers DEF Counts
<1>2. rx_deliv - Window <= count /\ count < rx_deliv + Window
  BY <1>1, Numbers, Sizes
<1> QED
  BY <1>1, <1>2, Numbers, CountIsInferred

LEMMA HandleDataPduKeeps ==
  ASSUME IInv, NEW count \in Used, NEW copy \in Copies, HandleDataPdu(count, copy)
  PROVE  IInv'
<1>1. COUNT(RcvdHfn(SN(count)), SN(count)) = count
  BY ReceivedAsSent DEF HandleDataPdu
<1>2. /\ count < sent
      /\ max_count_notified' = (max_count_notified \/ count > Notify)
      /\ max_count_overflow' = (max_count_overflow \/ Refuses(count))
      /\ inflight' = inflight \cup
           (IF Refuses(count) THEN {} ELSE {[was |-> count, count |-> count, copy |-> copy]})
      /\ UNCHANGED <<cfg, rx_next, rx_deliv, rx_reord, window, reordering, stopped,
                     delivered, sent>>
  BY <1>1 DEF HandleDataPdu, st
<1>3. count \in Counts /\ count \in Nat
  BY Numbers
<1>4. TypeOK'
  <2>1. max_count_notified' \in BOOLEAN /\ max_count_overflow' \in BOOLEAN
    BY <1>2 DEF IInv, StaysInStep, TypeOK
  <2>2. inflight' \subseteq [was : Counts, count : Counts, copy : Copies]
    BY <1>2, <1>3 DEF IInv, StaysInStep, TypeOK
  <2> QED
    BY <1>2, <2>1, <2>2 DEF IInv, StaysInStep, TypeOK
<1>5. CountInferred' /\ InFlightKnown'
  BY <1>2, <1>3, Numbers DEF IInv, StaysInStep, CountInferred, InFlightKnown, Refuses
<1> QED
  BY <1>2, <1>4, <1>5 DEF IInv, StaysInStep, WindowBounds, ExpiryLoopEnds, HoleIsTimed,
     DeliveryIsExact, DeliveredOnce, InfinityIsLossless, TimerIsFinite

LEMMA DropInFlightKeeps ==
  ASSUME IInv, NEW pdu \in inflight, DropInFlight(pdu)
  PROVE  IInv'
<1>1. inflight' = inflight \ {pdu}
      /\ UNCHANGED <<cfg, rx_next, rx_deliv, rx_reord, window, reordering, stopped,
                     max_count_notified, max_count_overflow, delivered, sent>>
  BY DEF DropInFlight, st
<1>2. TypeOK'
  BY <1>1 DEF IInv, StaysInStep, TypeOK
<1> QED
  BY <1>1, <1>2 DEF IInv, StaysInStep, CountInferred, WindowBounds, ExpiryLoopEnds, HoleIsTimed,
     DeliveryIsExact, DeliveredOnce, InfinityIsLossless, InFlightKnown, TimerIsFinite

\* What a delivery does, whatever it was called for: SDUs that were stored at
\* or above RX_DELIV go up, and the new RX_DELIV is not one of those.
LEMMA Delivering ==
  ASSUME IInv, NEW stored, NEW deliv \in Nat, DeliverUpTo(stored, deliv),
         rx_deliv <= deliv, deliv <= rx_next', rx_next' \in 0..Hard, rx_next' <= sent,
         DOMAIN stored \subseteq Counts,
         \A c \in DOMAIN stored : /\ stored[c] \in [count : {0}, copy : Copies]
                                  /\ rx_deliv <= c /\ c < rx_next' /\ c # deliv,
         cfg.t_reordering = "infinity" => rx_deliv..(deliv - 1) \subseteq DOMAIN stored,
         cfg' = cfg, sent' = sent
  PROVE  /\ WindowBounds'
         /\ (DOMAIN window \subseteq Counts)'
         /\ (\A c \in DOMAIN window : window[c] \in [count : {0}, copy : Copies])'
         /\ (delivered \in [Used -> Nat])'
         /\ DeliveryIsExact'
<1>1. /\ rx_deliv' = deliv
      /\ window' = [c \in DOMAIN stored \cap {c \in DOMAIN stored : c < rx_deliv \/ c >= deliv}
                      |-> stored[c]]
      /\ delivered' = [c \in Used |->
           IF c \in DOMAIN stored /\ rx_deliv <= c /\ c < deliv
             THEN delivered[c] + 1 ELSE delivered[c]]
  BY DEF DeliverUpTo, Restrict
<1>2. ASSUME NEW c \in DOMAIN window'
      PROVE  c \in DOMAIN stored /\ window'[c] = stored[c] /\ deliv < c /\ c < rx_next'
  <2>1. c \in DOMAIN stored /\ (c < rx_deliv \/ c >= deliv) /\ window'[c] = stored[c]
    BY <1>1
  <2>2. c \in Nat
    BY <2>1, Numbers
  <2> QED
    BY <2>1, <2>2, Numbers
<1>3. WindowBounds'
  BY <1>1, <1>2, Numbers, Sizes DEF WindowBounds
<1>4. (\A c \in DOMAIN window : window[c] \in [count : {0}, copy : Copies])'
  BY <1>2
<1>5. (DOMAIN window \subseteq Counts)'
  BY <1>2 DEF Counts
<1>6. (delivered \in [Used -> Nat])'
  BY <1>1 DEF IInv, StaysInStep, TypeOK, Used
<1>7. \A c \in Used : /\ delivered[c] \in Nat
                      /\ delivered[c] > 0 => delivered[c] = 1 /\ c < rx_deliv
                      /\ c \in Nat
  BY Numbers DEF IInv, StaysInStep, TypeOK, DeliveryIsExact, DeliveredOnce
<1>8. DeliveredOnce'
  <2>1. ASSUME NEW c \in Used, delivered'[c] > 0
        PROVE  delivered'[c] = 1 /\ c < deliv
    <3>1. CASE c \in DOMAIN stored /\ rx_deliv <= c /\ c < deliv
      BY <1>1, <1>7, <3>1, Numbers
    <3>2. CASE ~(c \in DOMAIN stored /\ rx_deliv <= c /\ c < deliv)
      BY <1>1, <1>7, <2>1, <3>2, Numbers
    <3> QED
      BY <3>1, <3>2
  <2> QED
    BY <1>1, <2>1 DEF DeliveredOnce, Used
<1>9. InfinityIsLossless'
  <2>1. ASSUME cfg.t_reordering = "infinity", NEW c \in Used, c < deliv
        PROVE  delivered'[c] = 1
    <3>1. CASE rx_deliv <= c
      <4>1. c \in DOMAIN stored
        BY <1>7, <2>1, <3>1, Numbers
      <4>2. delivered[c] = 0
        BY <1>7, <3>1, Numbers
      <4> QED
        BY <1>1, <2>1, <3>1, <4>1, <4>2
    <3>2. CASE c < rx_deliv
      <4>1. delivered[c] = 1
        BY <2>1, <3>2 DEF IInv, DeliveryIsExact, InfinityIsLossless
      <4> QED
        BY <1>1, <1>7, <3>2, <4>1, Numbers
    <3> QED
      BY <1>7, <3>1, <3>2, Numbers
  <2> QED
    BY <1>1, <2>1 DEF InfinityIsLossless, Used
<1> QED
  BY <1>3, <1>4, <1>5, <1>6, <1>8, <1>9 DEF DeliveryIsExact

LEMMA ApplyReorderingKeeps ==
  ASSUME IInv, NEW pdu \in inflight, ApplyReordering(pdu)
  PROVE  IInv'
<1> DEFINE n      == pdu.count
           stored == StoreIn(n, pdu.copy)
           next   == IF n >= rx_next THEN n + 1 ELSE rx_next
           deliv  == IF cfg.t_reordering = "ms0" THEN next
                     ELSE IF n = rx_deliv THEN FirstMissing(DOMAIN stored, rx_deliv, next)
                     ELSE rx_deliv
<1>1. inflight' = inflight \ {pdu}
      /\ UNCHANGED <<cfg, stopped, max_count_notified, max_count_overflow, sent>>
  BY DEF ApplyReordering
<1>2. n \in Counts /\ n \in Nat /\ n < sent /\ n < Hard /\ pdu.copy \in Copies
  BY Numbers DEF IInv, StaysInStep, TypeOK, InFlightKnown
<1>3. CountInferred' /\ InFlightKnown'
  BY <1>1 DEF IInv, StaysInStep, CountInferred, InFlightKnown
<1>4. inflight' \subseteq [was : Counts, count : Counts, copy : Copies]
  BY <1>1 DEF IInv, StaysInStep, TypeOK
<1>5. CASE LateOrStored(n)
  <2>1. UNCHANGED <<rx_next, rx_deliv, rx_reord, window, reordering, delivered>>
    BY <1>5 DEF ApplyReordering, st
  <2>2. TypeOK'
    BY <1>1, <1>4, <2>1 DEF IInv, StaysInStep, TypeOK
  <2> QED
    BY <1>1, <1>3, <2>1, <2>2 DEF IInv, StaysInStep, WindowBounds, ExpiryLoopEnds, HoleIsTimed,
       DeliveryIsExact, DeliveredOnce, InfinityIsLossless, TimerIsFinite
<1>6. CASE ~LateOrStored(n)
  <2>1. /\ rx_next' = next
        /\ DeliverUpTo(stored, deliv)
        /\ reordering' = (Runs(deliv) \/ Starts(deliv, next))
        /\ rx_reord' = IF cfg.t_reordering = "ms0" \/ Starts(deliv, next) THEN next ELSE rx_reord
    BY <1>6 DEF ApplyReordering
  <2>2. rx_deliv <= n
    BY <1>2, <1>6, Numbers DEF LateOrStored
  <2>3. next \in Nat /\ rx_next <= next /\ n < next /\ next <= sent /\ next <= Hard
    BY <1>2, Numbers
  <2>4. /\ DOMAIN stored \subseteq DOMAIN window \cup {n} /\ n \in DOMAIN stored
        /\ \A c \in DOMAIN stored : stored[c] \in [count : {0}, copy : Copies]
    BY <1>2 DEF StoreIn, IInv, StaysInStep, TypeOK
  <2>5. DOMAIN stored \subseteq Counts
    BY <1>2, <2>4 DEF IInv, StaysInStep, TypeOK
  <2> HIDE DEF stored, next
  <2>6. /\ FirstMissing(DOMAIN stored, rx_deliv, next) \in rx_deliv..next
        /\ FirstMissing(DOMAIN stored, rx_deliv, next) = next
             \/ FirstMissing(DOMAIN stored, rx_deliv, next) \notin DOMAIN stored
        /\ rx_deliv..(FirstMissing(DOMAIN stored, rx_deliv, next) - 1) \subseteq DOMAIN stored
    <3>1. rx_deliv \in Nat /\ next \in Nat /\ rx_deliv <= next
      BY <2>3, Numbers
    <3> QED
      BY <3>1, FirstMissingStops
  <2>7. deliv \in Nat /\ rx_deliv <= deliv /\ deliv <= next
    BY <2>3, <2>6, Numbers
  <2>8. ASSUME NEW c \in DOMAIN stored
        PROVE  rx_deliv <= c /\ c < next /\ c # deliv
    <3>1. c \in Nat /\ rx_deliv <= c /\ c < next /\ (c = rx_deliv => n = rx_deliv)
      BY <1>2, <2>2, <2>3, <2>4, Numbers DEF IInv, StaysInStep, WindowBounds, TypeOK
    <3>2. c # deliv
      BY <2>3, <2>6, <3>1, Numbers
    <3> QED
      BY <3>1, <3>2
  <2>9. cfg.t_reordering = "infinity" => rx_deliv..(deliv - 1) \subseteq DOMAIN stored
    BY <2>6, Numbers
  <2> HIDE DEF deliv
  <2>10. /\ WindowBounds'
         /\ (DOMAIN window \subseteq Counts)'
         /\ (\A c \in DOMAIN window : window[c] \in [count : {0}, copy : Copies])'
         /\ (delivered \in [Used -> Nat])'
         /\ DeliveryIsExact'
    BY <1>1, <2>1, <2>3, <2>4, <2>5, <2>7, <2>8, <2>9, Numbers, Delivering
  <2>11. rx_deliv' = deliv
    BY <2>1 DEF DeliverUpTo
  <2>12. TypeOK'
    <3>1. rx_next' \in 0..Hard /\ rx_deliv' \in Nat /\ rx_reord' \in Nat
      BY <2>1, <2>3, <2>7, <2>11, Numbers
    <3>2. reordering' \in BOOLEAN
      BY <2>1
    <3> QED
      BY <1>1, <1>4, <2>10, <3>1, <3>2 DEF IInv, StaysInStep, TypeOK
  <2>13. ExpiryLoopEnds'
    <3>1. CASE Starts(deliv, next)
      BY <2>1, <2>3, <2>7, <2>11, <3>1, Numbers DEF Starts, ExpiryLoopEnds
    <3>2. CASE ~Starts(deliv, next)
      <4>1. reordering' => Runs(deliv) /\ cfg.t_reordering = "finite" /\ rx_reord' = rx_reord
        BY <2>1, <3>2 DEF Runs, IInv, TimerIsFinite
      <4> QED
        BY <2>1, <2>3, <2>11, <4>1, Numbers DEF Runs, IInv, StaysInStep, ExpiryLoopEnds
    <3> QED
      BY <3>1, <3>2
  <2>14. HoleIsTimed'
    BY <1>1, <2>1, <2>11 DEF HoleIsTimed, Starts
  <2>15. TimerIsFinite'
    BY <1>1, <2>1 DEF IInv, TimerIsFinite, Starts, Runs
  <2> QED
    BY <1>3, <2>10, <2>12, <2>13, <2>14, <2>15 DEF IInv, StaysInStep
<1> QED
  BY <1>5, <1>6

LEMMA ReorderingExpiresKeeps ==
  ASSUME IInv, ReorderingExpires
  PROVE  IInv'
<1>1. UNCHANGED <<cfg, stopped, max_count_notified, max_count_overflow, inflight, sent>>
  BY DEF ReorderingExpires
<1>2. CountInferred' /\ InFlightKnown'
  BY <1>1 DEF IInv, StaysInStep, CountInferred, InFlightKnown
<1>3. CASE stopped
  <2>1. reordering' = FALSE /\ UNCHANGED <<rx_next, rx_deliv, rx_reord, window, delivered>>
    BY <1>3 DEF ReorderingExpires, st
  <2>2. TypeOK'
    BY <1>1, <2>1 DEF IInv, StaysInStep, TypeOK
  <2> QED
    BY <1>1, <1>2, <1>3, <2>1, <2>2 DEF IInv, StaysInStep, WindowBounds, ExpiryLoopEnds,
       HoleIsTimed, DeliveryIsExact, DeliveredOnce, InfinityIsLossless, TimerIsFinite
<1>4. CASE ~stopped
  <2> DEFINE deliv == FirstMissing(DOMAIN window, rx_reord, rx_next)
  <2>1. /\ DeliverUpTo(window, deliv)
        /\ reordering' = Restarts(deliv)
        /\ rx_reord' = IF Restarts(deliv) THEN rx_next ELSE rx_reord
        /\ rx_next' = rx_next
    BY <1>4 DEF ReorderingExpires
  <2>2. /\ rx_deliv < rx_reord /\ rx_reord <= rx_next /\ cfg.t_reordering = "finite"
    BY DEF ReorderingExpires, IInv, StaysInStep, ExpiryLoopEnds, TimerIsFinite
  <2>3. /\ deliv \in rx_reord..rx_next /\ (deliv = rx_next \/ deliv \notin DOMAIN window)
    BY <2>2, Numbers, FirstMissingStops
  <2> HIDE DEF deliv
  <2>4. deliv \in Nat /\ rx_deliv <= deliv /\ deliv <= rx_next
    BY <2>2, <2>3, Numbers
  <2>5. ASSUME NEW c \in DOMAIN window
        PROVE  /\ c \in Counts /\ window[c] \in [count : {0}, copy : Copies]
               /\ rx_deliv <= c /\ c < rx_next /\ c # deliv
    BY <2>3, Numbers DEF IInv, StaysInStep, TypeOK, WindowBounds
  <2>6. /\ WindowBounds'
        /\ (DOMAIN window \subseteq Counts)'
        /\ (\A c \in DOMAIN window : window[c] \in [count : {0}, copy : Copies])'
        /\ (delivered \in [Used -> Nat])'
        /\ DeliveryIsExact'
    <3>1. rx_next' \in 0..Hard /\ rx_next' <= sent /\ deliv <= rx_next'
      BY <2>1, <2>4, Numbers
    <3> QED
      BY <1>1, <2>1, <2>2, <2>4, <2>5, <3>1, Delivering
  <2>7. rx_deliv' = deliv
    BY <2>1 DEF DeliverUpTo
  <2>8. TypeOK'
    <3>1. rx_next' \in 0..Hard /\ rx_deliv' \in Nat /\ rx_reord' \in Nat
      BY <2>1, <2>4, <2>7, Numbers
    <3>2. reordering' \in BOOLEAN
      BY <2>1 DEF Restarts
    <3> QED
      BY <1>1, <2>6, <3>1, <3>2 DEF IInv, StaysInStep, TypeOK
  <2>9. reordering' <=> deliv < rx_next
    BY <2>1 DEF Restarts
  <2>10. ExpiryLoopEnds'
    BY <2>1, <2>7, <2>9, Numbers DEF ExpiryLoopEnds, Restarts
  <2>11. HoleIsTimed' /\ TimerIsFinite'
    BY <1>1, <2>1, <2>2, <2>7, <2>9 DEF HoleIsTimed, TimerIsFinite
  <2> QED
    BY <1>2, <2>6, <2>8, <2>10, <2>11 DEF IInv, StaysInStep
<1> QED
  BY <1>3, <1>4

LEMMA ReestablishKeeps ==
  ASSUME IInv, Reestablish
  PROVE  IInv'
<1>1. /\ inflight = {}
      /\ UNCHANGED <<cfg, stopped, max_count_notified, max_count_overflow, inflight>>
  BY DEF Reestablish
<1>2. CASE cfg.rb = "am"
  <2>1. UNCHANGED <<rx_next, rx_deliv, rx_reord, window, reordering, delivered, sent>>
    BY <1>2 DEF Reestablish, st
  <2>2. TypeOK'
    BY <1>1, <2>1 DEF IInv, StaysInStep, TypeOK
  <2> QED
    BY <1>1, <2>1, <2>2 DEF IInv, StaysInStep, CountInferred, WindowBounds, ExpiryLoopEnds,
       HoleIsTimed, DeliveryIsExact, DeliveredOnce, InfinityIsLossless, InFlightKnown,
       TimerIsFinite
<1>3. CASE cfg.rb # "am"
  <2>1. /\ rx_next' = 0 /\ rx_deliv' = 0 /\ rx_reord' = 0 /\ sent' = 0
        /\ window' = [c \in DOMAIN window \cap
             {c \in DOMAIN window : c < rx_deliv \/ c >= rx_next} |-> window[c]]
        /\ reordering' = FALSE
        /\ delivered' = [c \in Used |-> 0]
    BY <1>3 DEF Reestablish, Restrict
  <2>2. DOMAIN window' = {}
    <3>1. ASSUME NEW c \in DOMAIN window'
          PROVE  FALSE
      <4>1. c \in DOMAIN window /\ (c < rx_deliv \/ c >= rx_next)
        BY <2>1
      <4>2. c \in Nat /\ rx_deliv < c /\ c < rx_next
        BY <4>1, Numbers DEF IInv, StaysInStep, WindowBounds, TypeOK
      <4> QED
        BY <4>1, <4>2, Numbers
    <3> QED
      BY <3>1
  <2>3. TypeOK'
    <3>1. rx_next' \in 0..Hard /\ rx_deliv' \in Nat /\ rx_reord' \in Nat /\ sent' \in 0..LastCount
      BY <2>1, Numbers
    <3>2. delivered' \in [Used -> Nat] /\ reordering' \in BOOLEAN
      BY <2>1
    <3> QED
      BY <1>1, <2>2, <3>1, <3>2 DEF IInv, StaysInStep, TypeOK
  <2>4. WindowBounds'
    BY <2>1, <2>2, Sizes DEF WindowBounds
  <2>5. DeliveryIsExact'
    BY <2>1, Numbers DEF DeliveryIsExact, DeliveredOnce, InfinityIsLossless
  <2> QED
    BY <1>1, <2>1, <2>3, <2>4, <2>5 DEF IInv, StaysInStep, CountInferred, ExpiryLoopEnds,
       HoleIsTimed, InFlightKnown, TimerIsFinite
<1> QED
  BY <1>2, <1>3

LEMMA StopKeeps ==
  ASSUME IInv, Stop
  PROVE  IInv'
<1>1. stopped' = TRUE /\ reordering' = FALSE
      /\ UNCHANGED <<cfg, rx_next, rx_deliv, rx_reord, window, max_count_notified,
                     max_count_overflow, inflight, delivered, sent>>
  BY DEF Stop, st
<1>2. TypeOK'
  BY <1>1 DEF IInv, StaysInStep, TypeOK
<1> QED
  BY <1>1, <1>2 DEF IInv, StaysInStep, CountInferred, WindowBounds, ExpiryLoopEnds, HoleIsTimed,
     DeliveryIsExact, DeliveredOnce, InfinityIsLossless, InFlightKnown, TimerIsFinite

LEMMA StutterKeeps ==
  ASSUME IInv, UNCHANGED vars
  PROVE  IInv'
<1>1. TypeOK'
  BY DEF vars, st, IInv, StaysInStep, TypeOK
<1> QED
  BY <1>1 DEF vars, st, IInv, StaysInStep, CountInferred, WindowBounds, ExpiryLoopEnds,
     HoleIsTimed, DeliveryIsExact, DeliveredOnce, InfinityIsLossless, InFlightKnown, TimerIsFinite

-----------------------------------------------------------------------------
(* Theorems *)

\* Every step of the entity, of the peer and of what lies between keeps IInv.
THEOREM Inductive == Spec => []IInv
<1>1. Init => IInv
  BY InitEstablishes
<1>2. IInv /\ [Next]_vars => IInv'
  <2> SUFFICES ASSUME IInv, [Next]_vars PROVE IInv'
    OBVIOUS
  <2>1. CASE PeerSend
    BY <2>1, PeerSendKeeps
  <2>2. CASE \E count \in Used, copy \in Copies : HandleDataPdu(count, copy)
    BY <2>2, HandleDataPduKeeps
  <2>3. CASE \E pdu \in inflight : DropInFlight(pdu) \/ ApplyReordering(pdu)
    BY <2>3, DropInFlightKeeps, ApplyReorderingKeeps
  <2>4. CASE ReorderingExpires
    BY <2>4, ReorderingExpiresKeeps
  <2>5. CASE Reestablish
    BY <2>5, ReestablishKeeps
  <2>6. CASE Stop
    BY <2>6, StopKeeps
  <2>7. CASE UNCHANGED vars
    BY <2>7, StutterKeeps
  <2> QED
    BY <2>1, <2>2, <2>3, <2>4, <2>5, <2>6, <2>7 DEF Next
<1> QED
  BY <1>1, <1>2, PTL DEF Spec

\* Whatever is lost, copied, reordered or late, the COUNT that the entity
\* infers is the sender's, its window holds together and every hole is timed.
THEOREM AlwaysInStep == Spec => []StaysInStep
<1>1. IInv => StaysInStep
  BY DEF IInv
<1> QED
  BY <1>1, Inductive, PTL

\* deliver_all_consecutive_counts and the expiry deliver no SDU twice, and
\* with an infinite t-Reordering none is skipped.
THEOREM AlwaysExact == Spec => []DeliveryIsExact
<1>1. IInv => DeliveryIsExact
  BY DEF IInv
<1> QED
  BY <1>1, Inductive, PTL

\* No SDU goes to the upper layers after one with a higher COUNT.
THEOREM AlwaysInOrder == Spec => InOrder
<1>1. ASSUME IInv, [Next]_vars
      PROVE  [\A c, d \in Used :
               delivered'[c] > delivered[c] /\ delivered[d] > 0 => d < c]_vars
  <2> SUFFICES ASSUME NEW c \in Used, NEW d \in Used, Next,
                      delivered'[c] > delivered[c], delivered[d] > 0
               PROVE  d < c
    BY <1>1
  <2>1. /\ delivered \in [Used -> Nat] /\ delivered[c] \in Nat
        /\ d < rx_deliv /\ c \in Nat /\ d \in Nat /\ rx_deliv \in Nat
    BY <1>1, Numbers DEF IInv, StaysInStep, TypeOK, DeliveryIsExact, DeliveredOnce
  <2>2. delivered' # delivered
    BY <2>1
  <2>3. ASSUME NEW stored, NEW deliv, DeliverUpTo(stored, deliv)
        PROVE  d < c
    BY <2>1, <2>3 DEF DeliverUpTo
  <2>4. delivered' # [e \in Used |-> 0]
    BY <2>1
  <2>5. \/ \E pdu \in inflight : ApplyReordering(pdu)
        \/ ReorderingExpires
    BY <2>2, <2>4 DEF Next, PeerSend, HandleDataPdu, DropInFlight, Reestablish, Stop
  <2>6. \E stored, deliv : DeliverUpTo(stored, deliv)
    BY <2>2, <2>5 DEF ApplyReordering, ReorderingExpires
  <2> QED
    BY <2>3, <2>6
<1> QED
  BY <1>1, Inductive, PTL DEF Spec, InOrder

\* The flags of cfg.custom.max_count go up only for a COUNT the peer has used.
THEOREM MaxCountAlwaysReal == Spec => MaxCountIsReal
<1>1. ASSUME IInv, [Next]_vars
      PROVE  [/\ max_count_notified' /\ ~max_count_notified => sent > Notify + 1
              /\ max_count_overflow' /\ ~max_count_overflow => sent > Hard]_vars
  <2> SUFFICES ASSUME Next,
                      \/ max_count_notified' /\ ~max_count_notified
                      \/ max_count_overflow' /\ ~max_count_overflow
               PROVE  /\ max_count_notified' /\ ~max_count_notified => sent > Notify + 1
                      /\ max_count_overflow' /\ ~max_count_overflow => sent > Hard
    BY <1>1
  <2>1. PICK count \in Used, copy \in Copies : HandleDataPdu(count, copy)
    BY DEF Next, PeerSend, DropInFlight, ApplyReordering, ReorderingExpires, Reestablish, Stop
  <2>2. COUNT(RcvdHfn(SN(count)), SN(count)) = count
    BY <1>1, <2>1, ReceivedAsSent DEF HandleDataPdu
  <2>3. /\ count < sent
        /\ max_count_notified' = (max_count_notified \/ count > Notify)
        /\ max_count_overflow' = (max_count_overflow \/ Refuses(count))
    BY <2>1, <2>2 DEF HandleDataPdu
  <2>4. /\ count \in Nat /\ sent \in Nat /\ Notify \in Nat /\ Hard \in Nat
    BY <1>1, Numbers
  <2>5. max_count_notified' /\ ~max_count_notified => count > Notify
    BY <2>3
  <2>6. max_count_overflow' /\ ~max_count_overflow => count >= Hard
    BY <2>3 DEF Refuses
  <2> QED
    BY <2>3, <2>4, <2>5, <2>6
<1> QED
  BY <1>1, Inductive, PTL DEF Spec, MaxCountIsReal
=============================================================================
