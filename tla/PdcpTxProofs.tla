---------------------------- MODULE PdcpTxProofs ----------------------------
(***************************************************************************)
(* Theorems about PdcpTx, for every length of sequence numbers, every COUNT *)
(* space, limit, discardTimer and configuration, for whatever the lower     *)
(* layers and the peer report, however late a callback runs and whichever   *)
(* SDU cannot be copied, ciphered or retransmitted.                         *)
(***************************************************************************)
EXTENDS PdcpTx, WellFoundedInduction, TLAPS

-----------------------------------------------------------------------------
(* Arithmetic and the operators *)

LEMMA MaxOfTwo ==
  ASSUME NEW a \in Int, NEW b \in Int
  PROVE  Max({a, b}) = IF a >= b THEN a ELSE b
BY DEF Max

LEMMA MinOfTwo ==
  ASSUME NEW a \in Int, NEW b \in Int
  PROVE  Min({a, b}) = IF a <= b THEN a ELSE b
BY DEF Min

\* A set of natural numbers that is not empty has a smallest element.
LEMMA MinIsSmallest ==
  ASSUME NEW T, T \subseteq Nat, T # {}
  PROVE  Min(T) \in T /\ \A y \in T : Min(T) <= y
<1>1. PICK x \in T : \A y \in T : ~(<<y, x>> \in OpToRel(<, Nat))
  BY NatLessThanWellFounded, WFMin
<1>2. ASSUME NEW y \in T
      PROVE  x <= y
  <2>1. ~(<<y, x>> \in OpToRel(<, Nat))
    BY <1>1
  <2>2. x \in Nat /\ y \in Nat
    OBVIOUS
  <2>3. ~(y < x)
    BY <2>1, <2>2 DEF OpToRel
  <2> QED
    BY <2>2, <2>3
<1> QED
  BY <1>2 DEF Min

LEMMA DivMod ==
  ASSUME NEW a \in Int, NEW s \in Nat \ {0}
  PROVE  a \div s \in Int /\ a % s \in 0..(s - 1) /\ a = (a \div s) * s + (a % s)
OBVIOUS

LEMMA Sizes ==
  /\ SnSpace \in Nat \ {0} /\ Window \in Nat \ {0, 1} /\ SnSpace = 2 * Window
  /\ CountSpace \in Nat /\ CountSpace \div SnSpace \in Int
  /\ CountSpace = (CountSpace \div SnSpace) * SnSpace
  /\ Hard \in Nat \ {0} /\ Hard < CountSpace
  /\ Discard \in Nat \ {0} /\ Late \in Nat
  /\ Off = 2 * (Discard + Late + 1) /\ Off \in Nat \ {0}
<1>1. SnSpace \in Nat \ {0} /\ Window \in Nat \ {0, 1} /\ SnSpace = 2 * Window
      /\ CountSpace \in Nat /\ CountSpace = (CountSpace \div SnSpace) * SnSpace
      /\ Hard \in Nat \ {0} /\ Hard < CountSpace
      /\ Discard \in Nat \ {0} /\ Late \in Nat
  BY SizesAssumption
<1>2. CountSpace \div SnSpace \in Int
  BY <1>1, DivMod
<1> QED
  BY <1>1, <1>2 DEF Off

\* The COUNT of a report is inferred from its sequence number: it is the one
\* meant, if that is less than a window away from TX_NEXT_ACK.
LEMMA CountIsInferred ==
  ASSUME tx_next_ack \in Nat, NEW count \in 0..(CountSpace - 1),
         tx_next_ack - Window <= count, count < tx_next_ack + Window
  PROVE  Estimate(SN(count)) = count
<1> DEFINE h  == count \div SnSpace
           s  == count % SnSpace
           ha == tx_next_ack \div SnSpace
           sa == tx_next_ack % SnSpace
           hfns == CountSpace \div SnSpace
<1>1. /\ h \in Int /\ s \in 0..(SnSpace - 1) /\ count = h * SnSpace + s
      /\ ha \in Int /\ sa \in 0..(SnSpace - 1) /\ tx_next_ack = ha * SnSpace + sa
      /\ hfns \in Int /\ CountSpace = hfns * SnSpace
  <2>1. SnSpace \in Nat \ {0} /\ count \in Int /\ tx_next_ack \in Int
    BY Sizes
  <2>2. h \in Int /\ s \in 0..(SnSpace - 1) /\ count = h * SnSpace + s
    BY <2>1, DivMod
  <2>3. ha \in Int /\ sa \in 0..(SnSpace - 1) /\ tx_next_ack = ha * SnSpace + sa
    BY <2>1, DivMod
  <2> QED
    BY <2>2, <2>3, Sizes
<1>2. /\ SN(count) = s /\ SN(tx_next_ack) = sa /\ HFN(tx_next_ack) = ha
      /\ \A hfn, sn : COUNT(hfn, sn) = (hfn % hfns) * SnSpace + sn
  BY DEF SN, HFN, COUNT
<1> HIDE DEF h, s, ha, sa, hfns
<1>3. h \in 0..(hfns - 1)
  <2>1. ASSUME h <= -1
        PROVE  FALSE
    BY <1>1, <2>1, Sizes
  <2>2. ASSUME h >= hfns
        PROVE  h * SnSpace >= CountSpace
    BY <1>1, <2>2, Sizes
  <2> QED
    BY <1>1, <2>1, <2>2, Sizes
<1>4. COUNT(h, s) = count
  BY <1>1, <1>2, <1>3
<1>5. h - ha \in {-1, 0, 1}
  <2>1. ASSUME h >= ha + 2
        PROVE  FALSE
    <3>1. h * SnSpace >= (ha + 2) * SnSpace
      BY <1>1, <2>1, Sizes
    <3>2. (ha + 2) * SnSpace = ha * SnSpace + 2 * SnSpace
      BY <1>1, Sizes
    <3> QED
      BY <1>1, <3>1, <3>2, Sizes
  <2>2. ASSUME h <= ha - 2
        PROVE  FALSE
    <3>1. h * SnSpace <= (ha - 2) * SnSpace
      BY <1>1, <2>2, Sizes
    <3>2. (ha - 2) * SnSpace = ha * SnSpace - 2 * SnSpace
      BY <1>1, Sizes
    <3> QED
      BY <1>1, <3>1, <3>2, Sizes
  <2> QED
    BY <1>1, <2>1, <2>2
<1>6. CASE h = ha
  <2>1. sa - Window <= s /\ s < sa + Window
    BY <1>1, <1>6, Sizes
  <2> QED
    BY <1>1, <1>2, <1>4, <1>6, <2>1, Sizes DEF Estimate
<1>7. CASE h = ha + 1
  <2>1. (ha + 1) * SnSpace = ha * SnSpace + SnSpace
    BY <1>1, Sizes
  <2>2. s < sa - Window
    BY <1>1, <1>7, <2>1, Sizes
  <2> QED
    BY <1>2, <1>4, <1>7, <2>2 DEF Estimate
<1>8. CASE h = ha - 1
  <2>1. (ha - 1) * SnSpace = ha * SnSpace - SnSpace
    BY <1>1, Sizes
  <2>2. s >= sa + Window /\ ~(s < sa - Window)
    BY <1>1, <1>8, <2>1, Sizes
  <2> QED
    BY <1>2, <1>4, <1>8, <2>2 DEF Estimate
<1> QED
  BY <1>1, <1>5, <1>6, <1>7, <1>8

-----------------------------------------------------------------------------
(* The inductive invariant: what holds whatever the peer reports *)

\* An SDU is at least as old as the ones behind it, and ages are counted up to
\* Off.
AgesFall ==
  /\ \A c \in DOMAIN window : window[c] <= Off
  /\ \A c, d \in DOMAIN window : c < d => window[d] <= window[c]

\* Without a discardTimer none is started.
Untimed == ~isTimed => timer = Off

\* What the lower layers have was numbered.
SubmittedKnown == \A c \in submitted : c < tx_next

IInv == TypeOK /\ Edges /\ AgesFall /\ Untimed /\ SubmittedKnown /\ NothingStranded

\* What the invariant says of the numbers, for the leaves that need no more.
LEMMA Numbers ==
  ASSUME IInv
  PROVE  /\ tx_next \in Nat /\ tx_trans \in Nat /\ tx_next_ack \in Nat
         /\ tx_next_ack <= tx_trans /\ tx_trans <= tx_next /\ tx_next <= Hard
         /\ tx_next < tx_next_ack + Window
         /\ DOMAIN window \subseteq Nat /\ submitted \subseteq Nat
         /\ timer \in Int /\ -Late <= timer /\ timer <= Off
BY Sizes DEF IInv, TypeOK, Edges, Counts

LEMMA InitEstablishes == Init => IInv
<1> SUFFICES ASSUME Init PROVE IInv
  OBVIOUS
<1>1. DOMAIN window = {}
  BY DEF Init
<1> QED
  <2>1. TypeOK
    <3>1. timer \in (-Late)..Off /\ tx_next \in 0..Hard
      BY Sizes DEF Init
    <3> QED
      BY <1>1, <3>1 DEF Init, TypeOK
  <2>2. Edges
    BY <1>1, Sizes DEF Init, Edges, Occupied
  <2> QED
    BY <1>1, <2>1, <2>2 DEF Init, IInv, AgesFall, Untimed, SubmittedKnown, NothingStranded

\* While the entity lives, the COUNT inferred for a report is the one meant.
LEMMA ReportedAsMeant ==
  ASSUME IInv, NEW count \in Reportable
  PROVE  Estimate(SN(count)) = count
<1>1. count \in submitted /\ count >= tx_next_ack - Window
  BY DEF Reportable
<1>2. count \in 0..(CountSpace - 1) /\ count < tx_next_ack + Window
  BY <1>1, Numbers, Sizes DEF IInv, SubmittedKnown
<1> QED
  BY <1>1, <1>2, Numbers, CountIsInferred

LEMMA HandleSduKeeps ==
  ASSUME IInv, NEW outcome \in Outcomes, HandleSdu(outcome)
  PROVE  IInv'
<1>1. UNCHANGED <<cfg, room, stopped>> /\ tx_next - tx_next_ack < Window - 1
  BY Numbers, Sizes DEF HandleSdu, EarlyDrop
<1>2. CASE CountsUsedUp
  <2>1. max_count_overflow' = TRUE /\ UNCHANGED <<st, window, timer, failed, submitted, odd>>
    BY <1>2 DEF HandleSdu
  <2> QED
    BY <1>1, <2>1 DEF IInv, TypeOK, Edges, Occupied, AgesFall, Untimed, isTimed,
                      SubmittedKnown, NothingStranded, st
<1>3. CASE ~CountsUsedUp
  <2>1. timer' = StartedTimer /\ UNCHANGED <<tx_trans, tx_next_ack, max_count_overflow>>
        /\ tx_next < Hard
    BY <1>3, Numbers, Sizes DEF HandleSdu, CountsUsedUp
  <2>2. timer' \in (-Late)..Off /\ Untimed'
    <3>1. timer' = (IF isTimed /\ timer = Off THEN Discard ELSE timer) /\ isTimed' = isTimed
      BY <1>1, <2>1 DEF StartedTimer, isTimed
    <3>2. timer' \in (-Late)..Off
      <4>1. CASE timer' = timer
        BY <4>1 DEF IInv, TypeOK
      <4>2. CASE timer' = Discard
        BY <4>2, Sizes
      <4> QED
        BY <3>1, <4>1, <4>2
    <3>3. Untimed'
      BY <3>1 DEF IInv, Untimed
    <3> QED
      BY <3>2, <3>3
  <2>3. CASE outcome = "uncopied" \/ Occupied
    <3>1. UNCHANGED <<tx_next, window, submitted, odd>> /\ failed' \in BOOLEAN
      BY <1>3, <2>3 DEF HandleSdu
    <3> QED
      BY <1>1, <2>1, <2>2, <3>1 DEF IInv, TypeOK, Edges, Occupied, AgesFall, SubmittedKnown,
                                    NothingStranded
  <2>4. CASE ~(outcome = "uncopied" \/ Occupied)
    <3>1. /\ window' = [c \in DOMAIN window \cup {tx_next} |->
                          IF c = tx_next THEN 0 ELSE window[c]]
          /\ \/ /\ tx_next' = tx_next + 1 /\ submitted' = submitted \cup {tx_next}
                /\ odd' = odd
             \/ /\ tx_next' = tx_next /\ submitted' = submitted
                /\ odd' = odd \cup {"unsent"}
          /\ failed' = failed
      BY <1>3, <2>4 DEF HandleSdu
    <3>2. \A c \in DOMAIN window : c \in Nat /\ c < tx_next /\ window[c] \in Nat
      <4>1. \A c \in DOMAIN window : c # tx_next
        BY <2>4 DEF Occupied
      <4> QED
        BY <4>1, Numbers DEF IInv, Edges, TypeOK
    <3>3. TypeOK'
      <4>1. tx_next \in Counts /\ tx_next' \in 0..Hard
        BY <2>1, <3>1, Numbers, Sizes DEF Counts
      <4>2. \A c \in DOMAIN window' : window'[c] \in Nat
        BY <3>1 DEF IInv, TypeOK
      <4> QED
        BY <1>1, <2>1, <2>2, <3>1, <4>1, <4>2 DEF IInv, TypeOK
    <3>4. Edges'
      <4>1. tx_next' - tx_next_ack < Window /\ tx_trans <= tx_next'
        BY <1>1, <3>1, Numbers, Sizes
      <4>2. \A c \in DOMAIN window' : tx_next_ack <= c /\ c <= tx_next'
        BY <3>1, <3>2, Numbers DEF IInv, Edges
      <4>3. tx_next' \in DOMAIN window' => "unsent" \in odd'
        BY <3>1, <3>2, Numbers
      <4> QED
        BY <2>1, <3>1, <4>1, <4>2, <4>3, Numbers, Sizes DEF Edges, Occupied
    <3>5. AgesFall'
      <4>1. \A c \in DOMAIN window' : window'[c] <= Off
        BY <3>1, Sizes DEF IInv, AgesFall
      <4>2. ASSUME NEW c \in DOMAIN window', NEW d \in DOMAIN window', c < d
            PROVE  window'[d] <= window'[c]
        <5>1. c # tx_next
          BY <3>1, <3>2, <4>2, Numbers
        <5>2. c \in DOMAIN window /\ window'[c] = window[c]
          BY <3>1, <5>1
        <5>3. CASE d = tx_next
          BY <3>1, <3>2, <5>2, <5>3
        <5>4. CASE d # tx_next
          BY <3>1, <4>2, <5>2, <5>4 DEF IInv, AgesFall
        <5> QED
          BY <5>3, <5>4
      <4> QED
        BY <4>1, <4>2 DEF AgesFall
    <3>6. SubmittedKnown'
      BY <3>1, Numbers DEF IInv, SubmittedKnown
    <3>7. NothingStranded'
      BY <1>1, <3>1, <3>2, Numbers DEF IInv, NothingStranded
    <3> QED
      BY <2>2, <3>3, <3>4, <3>5, <3>6, <3>7 DEF IInv
  <2> QED
    BY <2>3, <2>4
<1> QED
  BY <1>2, <1>3

\* What leaves a part of the window, moves no edge past it and takes nothing
\* from the lower layers, keeps what the invariant says of the window.
LEMMA RestrictKeeps ==
  ASSUME IInv, NEW left, left \subseteq DOMAIN window, window' = Restrict(window, left),
         tx_next_ack' \in Nat, tx_trans' \in Nat,
         tx_next_ack <= tx_next_ack', tx_next_ack' <= tx_trans', tx_trans' <= tx_next,
         \A c \in left : tx_next_ack' <= c,
         timer' \in (-Late)..Off, ~isTimed => timer' = Off, failed' \in BOOLEAN,
         odd \subseteq odd', odd' \subseteq odd \cup {"hole", "late"},
         UNCHANGED <<cfg, tx_next, room, stopped, max_count_overflow, submitted>>
  PROVE  IInv'
<1>1. DOMAIN window' = left /\ \A c \in left : window'[c] = window[c]
  BY DEF Restrict
<1>2. TypeOK'
  BY <1>1 DEF IInv, TypeOK
<1>3. Edges'
  BY <1>1, Numbers, Sizes DEF IInv, Edges, Occupied
<1>4. AgesFall'
  BY <1>1 DEF IInv, AgesFall
<1> QED
  BY <1>1, <1>2, <1>3, <1>4 DEF IInv, Untimed, isTimed, SubmittedKnown, NothingStranded

\* The notifications of the lower layers move the edges to the COUNT reported.
LEMMA StopDiscardTimerKeeps ==
  ASSUME IInv, NEW highest \in Nat, highest < tx_next,
         NEW trans \in Nat, tx_next_ack <= trans, trans <= tx_next,
         StopDiscardTimer(highest, trans),
         UNCHANGED <<cfg, tx_next, room, stopped, max_count_overflow, submitted>>
  PROVE  IInv'
<1>1. CASE NothingToStop(highest)
  <2>1. tx_trans' = trans /\ UNCHANGED <<tx_next_ack, window, timer, failed, odd>>
    BY <1>1 DEF StopDiscardTimer
  <2> QED
    BY <2>1, Numbers DEF IInv, TypeOK, Edges, Occupied, AgesFall, Untimed, isTimed, SubmittedKnown,
                         NothingStranded
<1>2. CASE ~NothingToStop(highest)
  <2> DEFINE ack == highest + 1
             left == {c \in DOMAIN window : c > highest}
  <2>1. /\ tx_next_ack' = ack /\ tx_trans' = Max({trans, ack})
        /\ window' = Restrict(window, left)
        /\ failed' = RearmFails(ack)
        /\ timer' = IF RearmFails(ack) THEN Off ELSE Rearmed(ack)
        /\ odd' = IF timer <= 0 THEN odd \cup {"late"} ELSE odd
    BY <1>2 DEF StopDiscardTimer
  <2>2. tx_next_ack <= highest
    BY <1>2, Numbers DEF NothingToStop
  <2>3. tx_trans' \in Nat /\ ack <= tx_trans' /\ tx_trans' <= tx_next
    BY <2>1, Numbers, MaxOfTwo
  <2>4. timer' \in (-Late)..Off /\ (~isTimed => timer' = Off)
    <3>1. CASE isTimed /\ ack # tx_next /\ ~RearmFails(ack)
      <4>1. window[ack] \in Nat /\ window[ack] <= Discard
        BY <3>1, Sizes DEF RearmFails, IInv, TypeOK
      <4>2. Max({Discard - window[ack], 1}) \in 1..Discard
        BY <4>1, Sizes, MaxOfTwo
      <4> QED
        BY <2>1, <3>1, <4>2, Sizes DEF Rearmed
    <3>2. CASE ~(isTimed /\ ack # tx_next /\ ~RearmFails(ack))
      BY <2>1, <3>2, Sizes DEF Rearmed
    <3> QED
      BY <3>1, <3>2
  <2>5. \A c \in left : ack <= c
    BY Numbers
  <2>6. failed' \in BOOLEAN /\ odd \subseteq odd' /\ odd' \subseteq odd \cup {"hole", "late"}
    BY <2>1 DEF RearmFails
  <2> QED
    BY <2>1, <2>2, <2>3, <2>4, <2>5, <2>6, Numbers, RestrictKeeps
<1> QED
  BY <1>1, <1>2

LEMMA HandleTransmitKeeps ==
  ASSUME IInv, NEW count \in Reportable, HandleTransmit(count)
  PROVE  IInv'
<1>1. Estimate(SN(count)) = count /\ count \in Nat
  BY ReportedAsMeant, Numbers DEF Reportable
<1>2. /\ count >= tx_trans /\ count < tx_next
      /\ UNCHANGED <<cfg, tx_next, room, stopped, max_count_overflow, submitted>>
  BY <1>1 DEF HandleTransmit
<1>3. CASE cfg.mode = "um"
  BY <1>1, <1>2, <1>3, Numbers, StopDiscardTimerKeeps DEF HandleTransmit
<1>4. CASE cfg.mode # "um"
  <2>1. tx_trans' = count + 1 /\ UNCHANGED <<tx_next_ack, window, timer, failed, odd>>
    BY <1>1, <1>4 DEF HandleTransmit
  <2> QED
    BY <1>1, <1>2, <2>1, Numbers DEF IInv, TypeOK, Edges, Occupied, AgesFall, Untimed, isTimed,
                                     SubmittedKnown, NothingStranded
<1> QED
  BY <1>3, <1>4

LEMMA HandleDeliveryKeeps ==
  ASSUME IInv, NEW count \in Reportable, HandleDelivery(count)
  PROVE  IInv'
<1>1. Estimate(SN(count)) = count /\ count \in Nat
  BY ReportedAsMeant, Numbers DEF Reportable
<1>2. /\ count < tx_next /\ StopDiscardTimer(count, tx_trans)
      /\ UNCHANGED <<cfg, tx_next, room, stopped, max_count_overflow, submitted>>
  BY <1>1 DEF HandleDelivery
<1> QED
  BY <1>1, <1>2, Numbers, StopDiscardTimerKeeps

\* discard_pdu leaves the lower edge where it was or at the oldest SDU left.
LEMMA Discarding ==
  ASSUME IInv, NEW gone, gone \subseteq DOMAIN window, DiscardPdus(gone)
  PROVE  LET left == DOMAIN window \ gone IN
         /\ window' = Restrict(window, left)
         /\ tx_next_ack' \in Nat /\ tx_trans' \in Nat
         /\ tx_next_ack <= tx_next_ack' /\ tx_next_ack' <= tx_trans' /\ tx_trans' <= tx_next
         /\ \A c \in left : tx_next_ack' <= c
         /\ gone = {} => tx_next_ack' = tx_next_ack
         /\ gone # {} => tx_next_ack' = IF left = {} THEN tx_next ELSE Min(left)
         /\ left # {} => Min(left) \in left /\ \A c \in left : Min(left) <= c
<1> DEFINE left == DOMAIN window \ gone
<1>1. /\ window' = Restrict(window, left)
      /\ tx_next_ack' = IF gone \cap DOMAIN window = {} THEN tx_next_ack ELSE EdgeAfter(left)
      /\ tx_trans' = Max({tx_trans, tx_next_ack'})
  BY DEF DiscardPdus
<1>2. left # {} => Min(left) \in left /\ \A c \in left : Min(left) <= c
  BY Numbers, MinIsSmallest
<1>3. EdgeAfter(left) \in Nat /\ tx_next_ack <= EdgeAfter(left) /\ EdgeAfter(left) <= tx_next
      /\ \A c \in left : EdgeAfter(left) <= c
  BY <1>2, Numbers DEF EdgeAfter, IInv, Edges
<1>4. \A c \in left : tx_next_ack <= c
  BY DEF IInv, Edges
<1>5. tx_next_ack' \in Nat /\ tx_next_ack <= tx_next_ack' /\ tx_next_ack' <= tx_next
      /\ \A c \in left : tx_next_ack' <= c
  BY <1>1, <1>3, <1>4, Numbers
<1>6. tx_trans' \in Nat /\ tx_next_ack' <= tx_trans' /\ tx_trans' <= tx_next
  BY <1>1, <1>5, Numbers, MaxOfTwo
<1>7. gone = {} => tx_next_ack' = tx_next_ack
  BY <1>1
<1>8. gone # {} => tx_next_ack' = IF left = {} THEN tx_next ELSE Min(left)
  BY <1>1 DEF EdgeAfter
<1> QED
  BY <1>1, <1>2, <1>5, <1>6, <1>7, <1>8

LEMMA HandleStatusReportKeeps ==
  ASSUME IInv, NEW fmc, NEW bitmap, HandleStatusReport(fmc, bitmap)
  PROVE  IInv'
<1> DEFINE gone == {c \in DOMAIN window : c < tx_next /\ (c < fmc \/ c - fmc \in bitmap)}
<1>1. /\ DiscardPdus(gone) /\ odd \subseteq odd' /\ odd' \subseteq odd \cup {"hole", "late"}
      /\ UNCHANGED <<cfg, tx_next, timer, room, stopped, max_count_overflow, failed, submitted>>
  BY DEF HandleStatusReport
<1>2. timer' \in (-Late)..Off /\ (~isTimed => timer' = Off) /\ failed' \in BOOLEAN
  BY <1>1 DEF IInv, TypeOK, Untimed
<1> HIDE DEF gone
<1>3. gone \subseteq DOMAIN window
  BY DEF gone
<1> QED
  BY <1>1, <1>2, <1>3, Discarding, RestrictKeeps

\* The time by which the next SDU is younger is the timer's to be set.
LEMMA CallbackTimerType ==
  ASSUME IInv, tx_next_ack \in DOMAIN window,
         NEW left, left \subseteq DOMAIN window,
         left # {} => Min(left) \in left
  PROVE  CallbackTimer(window[tx_next_ack], left) \in 0..Off
<1>1. CASE left = {}
  BY <1>1, Sizes DEF CallbackTimer
<1>2. CASE left # {}
  <2> DEFINE m == Min(left)
  <2>1. m \in DOMAIN window /\ tx_next_ack <= m /\ m \in Nat
    BY <1>2, Numbers DEF IInv, Edges
  <2>2. window[m] \in Nat /\ window[tx_next_ack] \in Nat /\ window[tx_next_ack] <= Off
    BY <2>1 DEF IInv, TypeOK, AgesFall
  <2>3. window[m] <= window[tx_next_ack]
    <3>1. CASE m = tx_next_ack
      BY <2>2, <3>1
    <3>2. CASE tx_next_ack < m
      BY <2>1, <3>2 DEF IInv, AgesFall
    <3> QED
      BY <2>1, <3>1, <3>2, Numbers
  <2> QED
    BY <1>2, <2>2, <2>3, Sizes DEF CallbackTimer
<1> QED
  BY <1>1, <1>2

LEMMA DiscardCallbackKeeps ==
  ASSUME IInv, DiscardCallback
  PROVE  IInv'
<1>1. UNCHANGED <<cfg, room, stopped, max_count_overflow, failed, submitted, odd>>
      /\ failed' \in BOOLEAN /\ isTimed
  BY Sizes DEF DiscardCallback, IInv, TypeOK, Untimed
<1>2. CASE stopped \/ tx_next_ack \notin DOMAIN window
  <2>1. timer' = Off /\ UNCHANGED <<st, window>>
    BY <1>2 DEF DiscardCallback
  <2> QED
    BY <1>1, <2>1, Sizes DEF IInv, TypeOK, Edges, Occupied, AgesFall, Untimed, isTimed, SubmittedKnown,
                             NothingStranded, st
<1>3. CASE ~stopped /\ tx_next_ack \in DOMAIN window
  <2> DEFINE age  == window[tx_next_ack]
             gone == {c \in DOMAIN window : c < tx_next /\ window[c] = age}
  <2>1. /\ DiscardPdus(gone) /\ timer' = CallbackTimer(age, DOMAIN window \ gone)
        /\ UNCHANGED tx_next
    BY <1>3 DEF DiscardCallback
  <2>2. gone \subseteq DOMAIN window
    OBVIOUS
  <2> HIDE DEF gone
  <2> DEFINE left == DOMAIN window \ gone
  <2>3. /\ window' = Restrict(window, left)
        /\ tx_next_ack' \in Nat /\ tx_trans' \in Nat
        /\ tx_next_ack <= tx_next_ack' /\ tx_next_ack' <= tx_trans' /\ tx_trans' <= tx_next
        /\ \A c \in left : tx_next_ack' <= c
        /\ left # {} => Min(left) \in left
    BY <2>1, <2>2, Discarding
  <2>4. timer' \in 0..Off
    BY <1>3, <2>1, <2>3, CallbackTimerType
  <2>5. timer' \in (-Late)..Off
    BY <2>4, Sizes
  <2> QED
    BY <1>1, <2>1, <2>3, <2>5, RestrictKeeps
<1> QED
  BY <1>2, <1>3

LEMMA TickKeeps ==
  ASSUME IInv, Tick
  PROVE  IInv'
<1>1. /\ timer' = IF timer = Off THEN Off ELSE timer - 1
      /\ window' = [c \in DOMAIN window |-> IF isTimed THEN Min({window[c] + 1, Off}) ELSE 0]
      /\ timer > -Late /\ (odd' = odd \/ odd' = odd \cup {"late"})
      /\ UNCHANGED <<cfg, tx_next, tx_trans, tx_next_ack, room, stopped, max_count_overflow,
                     failed, submitted>>
  BY DEF Tick, st
<1>2. timer' \in (-Late)..Off
  BY <1>1, Numbers, Sizes
<1>3. \A c \in DOMAIN window :
        /\ window'[c] \in Nat /\ window'[c] <= Off
        /\ window'[c] = IF ~isTimed THEN 0
                        ELSE IF window[c] + 1 <= Off THEN window[c] + 1 ELSE Off
  <2>1. ASSUME NEW c \in DOMAIN window
        PROVE  Min({window[c] + 1, Off}) = IF window[c] + 1 <= Off THEN window[c] + 1 ELSE Off
    <3>1. window[c] + 1 \in Int /\ Off \in Int
      BY Sizes DEF IInv, TypeOK
    <3> QED
      BY <3>1, MinOfTwo
  <2> QED
    BY <1>1, <2>1, Sizes DEF IInv, TypeOK
<1>4. DOMAIN window' = DOMAIN window
  BY <1>1
<1>5. AgesFall'
  <2>1. ASSUME NEW c \in DOMAIN window, NEW d \in DOMAIN window, c < d
        PROVE  window'[d] <= window'[c]
    <3>1. window[d] <= window[c] /\ window[c] \in Nat /\ window[d] \in Nat
      BY <2>1 DEF IInv, AgesFall, TypeOK
    <3> QED
      BY <1>3, <3>1, Sizes
  <2> QED
    BY <1>3, <1>4, <2>1, Sizes DEF AgesFall
<1> QED
  BY <1>1, <1>2, <1>3, <1>4, <1>5 DEF IInv, TypeOK, Edges, Occupied, Untimed, isTimed,
                                      SubmittedKnown, NothingStranded

LEMMA ReestablishKeeps ==
  ASSUME IInv, NEW end \in DOMAIN window \cup {tx_next}, Reestablish(end)
  PROVE  IInv'
<1>1. UNCHANGED <<cfg, timer, room, stopped, max_count_overflow, failed>>
  BY DEF Reestablish
<1>2. CASE cfg.mode = "am"
  <2>1. /\ tx_trans' = tx_next_ack /\ submitted' = {c \in DOMAIN window : c < end}
        /\ odd' = (IF end < tx_next THEN odd \cup {"cut"} ELSE odd)
        /\ UNCHANGED <<tx_next, tx_next_ack, window>>
    BY <1>2 DEF Reestablish, Retransmit
  <2>2. end \in Nat /\ end <= tx_next
    BY Numbers DEF IInv, Edges
  <2>3. TypeOK' /\ SubmittedKnown'
    BY <1>1, <2>1, <2>2, Numbers DEF IInv, TypeOK, SubmittedKnown
  <2>4. NothingStranded'
    <3> SUFFICES ASSUME "cut" \notin odd', NEW c \in DOMAIN window', c # tx_next'
                 PROVE  c \in submitted'
      BY DEF NothingStranded
    <3>1. end = tx_next /\ c \in DOMAIN window /\ c # tx_next
      BY <2>1, <2>2, Numbers
    <3>2. c < tx_next
      BY <3>1, Numbers DEF IInv, Edges
    <3> QED
      BY <2>1, <3>1, <3>2
  <2>5. Edges'
    BY <2>1, Numbers DEF IInv, Edges, Occupied
  <2> QED
    BY <1>1, <2>1, <2>3, <2>4, <2>5 DEF IInv, AgesFall, Untimed, isTimed
<1>3. CASE cfg.mode # "am"
  <2>1. /\ tx_next' = 0 /\ tx_trans' = 0 /\ tx_next_ack' = 0
        /\ DOMAIN window' = {} /\ submitted' = {} /\ odd' = odd
    BY <1>3 DEF Reestablish
  <2> QED
    BY <1>1, <2>1, Numbers, Sizes DEF IInv, TypeOK, Edges, Occupied, AgesFall, Untimed, isTimed,
                                      SubmittedKnown, NothingStranded
<1> QED
  BY <1>2, <1>3

LEMMA StopKeeps ==
  ASSUME IInv, Stop
  PROVE  IInv'
<1>1. /\ stopped' = TRUE /\ timer' = Off /\ DOMAIN window' = {}
      /\ UNCHANGED <<cfg, tx_next, tx_trans, tx_next_ack, room, max_count_overflow, failed,
                     submitted, odd>>
  BY DEF Stop, st
<1> QED
  BY <1>1, Sizes DEF IInv, TypeOK, Edges, Occupied, AgesFall, Untimed, SubmittedKnown,
                     NothingStranded

LEMMA StepKeeps == IInv /\ [Next]_vars => IInv'
<1> SUFFICES ASSUME IInv, [Next]_vars
             PROVE  IInv'
  OBVIOUS
<1>1. ASSUME NEW size \in Rooms, HandleDesiredBufferSize(size)
      PROVE  IInv'
  BY <1>1 DEF HandleDesiredBufferSize, IInv, TypeOK, Edges, Occupied, AgesFall, Untimed, isTimed,
              SubmittedKnown, NothingStranded, st
<1>2. CASE UNCHANGED vars
  BY <1>2 DEF vars, IInv, TypeOK, Edges, Occupied, AgesFall, Untimed, isTimed, SubmittedKnown,
              NothingStranded, st
<1> QED
  BY <1>1, <1>2, HandleSduKeeps, HandleTransmitKeeps, HandleDeliveryKeeps,
     HandleStatusReportKeeps, DiscardCallbackKeeps, TickKeeps, ReestablishKeeps, StopKeeps
     DEF Next

LEMMA Invariance == Spec => []IInv
<1>1. Init /\ [][Next]_vars => []IInv
  BY InitEstablishes, StepKeeps, PTL
<1> QED
  BY <1>1, PTL DEF Spec

\* Whatever the peer and the lower layers report, however late a callback runs
\* and whichever SDU is stored but not sent, the state variables keep their
\* types and their order.
THEOREM EdgesKeepOrder == Spec => [](TypeOK /\ Edges)
<1>1. IInv => TypeOK /\ Edges
  BY DEF IInv
<1> QED
  BY <1>1, Invariance, PTL

\* The COUNT inferred for a report is always the one meant.
THEOREM EstimateAlwaysExact == Spec => []EstimateIsExact
<1>1. IInv => EstimateIsExact
  BY ReportedAsMeant DEF EstimateIsExact
<1> QED
  BY <1>1, Invariance, PTL

\* The lower layers of an AM bearer always have what was sent and is not
\* acknowledged, unless an SDU could not be retransmitted.
THEOREM NeverStranded == Spec => []NothingStranded
<1>1. IInv => NothingStranded
  BY DEF IInv
<1> QED
  BY <1>1, Invariance, PTL
-----------------------------------------------------------------------------
(* A window without holes *)

\* As long as no status report leaves a hole, every SDU that was sent since
\* TX_NEXT_ACK is stored.
Contiguous ==
  ~stopped /\ "hole" \notin odd => tx_next_ack..(tx_next - 1) \subseteq DOMAIN window

\* What is discarded from the lower end leaves no hole.
LEMMA DiscardingFromBelow ==
  ASSUME IInv, tx_next_ack..(tx_next - 1) \subseteq DOMAIN window,
         NEW gone, gone \subseteq DOMAIN window,
         \A c \in gone, d \in DOMAIN window : d < c => d \in gone,
         DiscardPdus(gone), UNCHANGED tx_next
  PROVE  tx_next_ack'..(tx_next' - 1) \subseteq DOMAIN window'
<1> DEFINE left == DOMAIN window \ gone
<1>1. /\ window' = Restrict(window, left)
      /\ gone = {} => tx_next_ack' = tx_next_ack
      /\ gone # {} => tx_next_ack' = IF left = {} THEN tx_next ELSE Min(left)
      /\ left # {} => Min(left) \in left
      /\ tx_next_ack' \in Nat /\ tx_next_ack <= tx_next_ack'
  BY Discarding
<1>2. DOMAIN window' = left
  BY <1>1 DEF Restrict
<1>3. CASE gone = {}
  BY <1>1, <1>2, <1>3
<1>4. CASE gone # {} /\ left = {}
  BY <1>1, <1>4, Numbers
<1>5. CASE gone # {} /\ left # {}
  <2> DEFINE m == Min(left)
  <2>1. tx_next_ack' = m /\ m \in left /\ m \in DOMAIN window /\ m \in Nat
    BY <1>1, <1>5, Numbers
  <2>2. ASSUME NEW d \in m..(tx_next - 1)
        PROVE  d \in left
    <3>1. d \in DOMAIN window
      BY <1>1, <2>1, Numbers
    <3>2. ASSUME d \in gone
          PROVE  FALSE
      <4>1. m < d
        BY <2>1, <3>2
      <4> QED
        BY <2>1, <3>2, <4>1
    <3> QED
      BY <3>1, <3>2
  <2> QED
    BY <1>2, <2>1, <2>2
<1> QED
  BY <1>3, <1>4, <1>5

\* The oldest SDUs are the ones of the lower end.
LEMMA OldestAreFirst ==
  ASSUME IInv, tx_next_ack \in DOMAIN window,
         NEW c \in DOMAIN window, window[c] = window[tx_next_ack],
         NEW d \in DOMAIN window, d < c
  PROVE  window[d] = window[tx_next_ack]
<1>1. window[c] <= window[d] /\ window[c] \in Nat /\ window[d] \in Nat
  BY DEF IInv, AgesFall, TypeOK
<1>2. d = tx_next_ack \/ window[d] <= window[tx_next_ack]
  BY Numbers DEF IInv, Edges, AgesFall
<1> QED
  BY <1>1, <1>2

LEMMA ContiguousStep ==
  ASSUME IInv, Contiguous, [Next]_vars
  PROVE  Contiguous'
<1> SUFFICES ASSUME ~stopped', "hole" \notin odd'
             PROVE  tx_next_ack'..(tx_next' - 1) \subseteq DOMAIN window'
  BY DEF Contiguous
<1>1. ASSUME NEW outcome \in Outcomes, HandleSdu(outcome)
      PROVE  tx_next_ack'..(tx_next' - 1) \subseteq DOMAIN window'
  <2>1. UNCHANGED <<tx_next_ack, stopped>> /\ odd \subseteq odd'
    BY <1>1 DEF HandleSdu, st
  <2>2. \/ UNCHANGED <<tx_next, window>>
        \/ /\ DOMAIN window' = DOMAIN window \cup {tx_next}
           /\ tx_next' = tx_next \/ tx_next' = tx_next + 1
    BY <1>1 DEF HandleSdu, st
  <2>3. tx_next_ack..(tx_next - 1) \subseteq DOMAIN window
    BY <2>1 DEF Contiguous
  <2> QED
    BY <2>1, <2>2, <2>3, Numbers
<1>2. ASSUME NEW count \in Reportable, HandleTransmit(count) \/ HandleDelivery(count)
      PROVE  tx_next_ack'..(tx_next' - 1) \subseteq DOMAIN window'
  <2>1. Estimate(SN(count)) = count /\ count \in Nat
    BY ReportedAsMeant, Numbers DEF Reportable
  <2>2. \/ UNCHANGED <<tx_next_ack, window, odd>>
        \/ /\ tx_next_ack' = count + 1 /\ tx_next_ack <= count /\ odd \subseteq odd'
           /\ window' = Restrict(window, {c \in DOMAIN window : c > count})
    BY <1>2, <2>1, Numbers DEF HandleTransmit, HandleDelivery, StopDiscardTimer, NothingToStop
  <2>3. UNCHANGED <<tx_next, stopped>>
    BY <1>2 DEF HandleTransmit, HandleDelivery
  <2>4. tx_next_ack..(tx_next - 1) \subseteq DOMAIN window
    BY <2>2, <2>3 DEF Contiguous
  <2> QED
    BY <2>1, <2>2, <2>3, <2>4, Numbers DEF Restrict
<1>3. ASSUME NEW fmc \in 0..tx_next, NEW bitmap \in Bitmaps, HandleStatusReport(fmc, bitmap)
      PROVE  tx_next_ack'..(tx_next' - 1) \subseteq DOMAIN window'
  <2> DEFINE gone == {c \in DOMAIN window : c < tx_next /\ (c < fmc \/ c - fmc \in bitmap)}
  <2>1. DiscardPdus(gone) /\ UNCHANGED <<tx_next, stopped>>
        /\ odd' = IF \E c \in gone, d \in DOMAIN window \ gone : d < c THEN odd \cup {"hole"} ELSE odd
    BY <1>3 DEF HandleStatusReport
  <2>2. gone \subseteq DOMAIN window
    OBVIOUS
  <2> HIDE DEF gone
  <2>3. \A c \in gone, d \in DOMAIN window : d < c => d \in gone
    BY <2>1
  <2>4. tx_next_ack..(tx_next - 1) \subseteq DOMAIN window
    BY <2>1 DEF Contiguous
  <2> QED
    BY <2>1, <2>2, <2>3, <2>4, DiscardingFromBelow
<1>4. ASSUME DiscardCallback
      PROVE  tx_next_ack'..(tx_next' - 1) \subseteq DOMAIN window'
  <2>1. UNCHANGED <<stopped, odd>>
    BY <1>4 DEF DiscardCallback
  <2>2. tx_next_ack..(tx_next - 1) \subseteq DOMAIN window
    BY <2>1 DEF Contiguous
  <2>3. CASE tx_next_ack \notin DOMAIN window
    BY <1>4, <2>2, <2>3 DEF DiscardCallback, st
  <2>4. CASE tx_next_ack \in DOMAIN window
    <3> DEFINE gone == {c \in DOMAIN window : c < tx_next /\ window[c] = window[tx_next_ack]}
    <3>1. DiscardPdus(gone) /\ UNCHANGED tx_next
      BY <1>4, <2>1, <2>4 DEF DiscardCallback
    <3>2. ASSUME NEW c \in gone, NEW d \in DOMAIN window, d < c
          PROVE  d \in gone
      <4>1. window[d] = window[tx_next_ack]
        BY <2>4, <3>2, OldestAreFirst
      <4>2. d < tx_next
        BY <3>2, Numbers
      <4> QED
        BY <4>1, <4>2
    <3>3. gone \subseteq DOMAIN window
      OBVIOUS
    <3> HIDE DEF gone
    <3> QED
      BY <2>2, <3>1, <3>2, <3>3, DiscardingFromBelow
  <2> QED
    BY <2>3, <2>4
<1>5. ASSUME Tick \/ (\E size \in Rooms : HandleDesiredBufferSize(size)) \/ UNCHANGED vars
      PROVE  tx_next_ack'..(tx_next' - 1) \subseteq DOMAIN window'
  <2>1. UNCHANGED <<st, stopped>> /\ DOMAIN window' = DOMAIN window /\ odd \subseteq odd'
    BY <1>5 DEF Tick, HandleDesiredBufferSize, vars, st
  <2> QED
    BY <2>1 DEF Contiguous, st
<1>6. ASSUME NEW end \in DOMAIN window \cup {tx_next}, Reestablish(end)
      PROVE  tx_next_ack'..(tx_next' - 1) \subseteq DOMAIN window'
  <2>1. \/ UNCHANGED <<tx_next, tx_next_ack, window>>
        \/ tx_next' = 0 /\ tx_next_ack' = 0
    BY <1>6 DEF Reestablish
  <2>2. UNCHANGED stopped /\ odd \subseteq odd'
    BY <1>6 DEF Reestablish
  <2> QED
    BY <2>1, <2>2 DEF Contiguous
<1>7. ASSUME Stop
      PROVE  FALSE
  BY <1>7 DEF Stop
<1> QED
  BY <1>1, <1>2, <1>3, <1>4, <1>5, <1>6, <1>7 DEF Next

\* With a finite discardTimer, an entity whose TX_NEXT_ACK is not stored has
\* failed: stop_discard_timer asks for its age.
EdgeStored ==
  isTimed /\ ~failed /\ ~stopped /\ tx_next_ack < tx_next => tx_next_ack \in DOMAIN window

LEMMA EdgeStoredStep ==
  ASSUME IInv, EdgeStored, [Next]_vars
  PROVE  EdgeStored'
<1> SUFFICES ASSUME isTimed', ~failed', ~stopped', tx_next_ack' < tx_next'
             PROVE  tx_next_ack' \in DOMAIN window'
  BY DEF EdgeStored
<1>0. cfg' = cfg /\ isTimed
  BY DEF Next, vars, HandleSdu, HandleDesiredBufferSize, HandleTransmit, HandleDelivery,
         HandleStatusReport, DiscardCallback, Tick, Reestablish, Stop, isTimed
<1>1. ASSUME NEW outcome \in Outcomes, HandleSdu(outcome)
      PROVE  tx_next_ack' \in DOMAIN window'
  <2>1. UNCHANGED <<tx_next_ack, stopped>> /\ ~failed
    BY <1>1 DEF HandleSdu, st, Lives
  <2>2. \/ UNCHANGED <<tx_next, window>>
        \/ /\ DOMAIN window' = DOMAIN window \cup {tx_next}
           /\ tx_next' = tx_next \/ tx_next' = tx_next + 1
    BY <1>1 DEF HandleSdu, st
  <2> QED
    BY <1>0, <2>1, <2>2, Numbers DEF EdgeStored
<1>2. ASSUME NEW count \in Reportable, HandleTransmit(count) \/ HandleDelivery(count)
      PROVE  tx_next_ack' \in DOMAIN window'
  <2>1. Estimate(SN(count)) = count /\ count \in Nat
    BY ReportedAsMeant, Numbers DEF Reportable
  <2>2. UNCHANGED <<tx_next, stopped>> /\ ~failed
    BY <1>2 DEF HandleTransmit, HandleDelivery, Lives
  <2>3. \/ UNCHANGED <<tx_next_ack, window>>
        \/ /\ tx_next_ack' = count + 1 /\ ~RearmFails(count + 1)
           /\ window' = Restrict(window, {c \in DOMAIN window : c > count})
    BY <1>2, <2>1 DEF HandleTransmit, HandleDelivery, StopDiscardTimer
  <2> QED
    BY <1>0, <2>1, <2>2, <2>3, Numbers DEF EdgeStored, RearmFails, Restrict
<1>3. ASSUME NEW gone, gone \subseteq DOMAIN window, DiscardPdus(gone), ~failed,
             UNCHANGED <<tx_next, stopped>>
      PROVE  tx_next_ack' \in DOMAIN window'
  <2>1. /\ window' = Restrict(window, DOMAIN window \ gone)
        /\ gone = {} => tx_next_ack' = tx_next_ack
        /\ gone # {} => tx_next_ack' = IF DOMAIN window \ gone = {} THEN tx_next
                                       ELSE Min(DOMAIN window \ gone)
        /\ DOMAIN window \ gone # {} => Min(DOMAIN window \ gone) \in DOMAIN window \ gone
    BY <1>3, Discarding
  <2>2. DOMAIN window' = DOMAIN window \ gone
    BY <2>1 DEF Restrict
  <2>3. CASE gone = {}
    BY <1>0, <1>3, <2>1, <2>2, <2>3 DEF EdgeStored
  <2>4. CASE gone # {}
    BY <1>3, <2>1, <2>2, <2>4, Numbers
  <2> QED
    BY <2>3, <2>4
<1>4. ASSUME NEW fmc, NEW bitmap, HandleStatusReport(fmc, bitmap)
      PROVE  tx_next_ack' \in DOMAIN window'
  BY <1>3, <1>4 DEF HandleStatusReport, Lives
<1>5. ASSUME DiscardCallback
      PROVE  tx_next_ack' \in DOMAIN window'
  <2>1. ~failed /\ UNCHANGED <<stopped, tx_next>>
    BY <1>5 DEF DiscardCallback, st
  <2>2. \/ UNCHANGED <<tx_next_ack, window>>
        \/ DiscardPdus({c \in DOMAIN window : c < tx_next /\ window[c] = window[tx_next_ack]})
    BY <1>5 DEF DiscardCallback, st
  <2> QED
    BY <1>0, <1>3, <2>1, <2>2 DEF EdgeStored
<1>6. ASSUME Tick \/ (\E size \in Rooms : HandleDesiredBufferSize(size)) \/ UNCHANGED vars
      PROVE  tx_next_ack' \in DOMAIN window'
  <2>1. UNCHANGED <<st, stopped, failed>> /\ DOMAIN window' = DOMAIN window
    BY <1>6 DEF Tick, HandleDesiredBufferSize, vars, st
  <2> QED
    BY <1>0, <2>1 DEF EdgeStored, st
<1>7. ASSUME NEW end, Reestablish(end)
      PROVE  tx_next_ack' \in DOMAIN window'
  <2>1. \/ UNCHANGED <<tx_next, tx_next_ack, window>>
        \/ tx_next' = 0 /\ tx_next_ack' = 0
    BY <1>7 DEF Reestablish
  <2>2. UNCHANGED <<stopped, failed>>
    BY <1>7 DEF Reestablish
  <2> QED
    BY <1>0, <2>1, <2>2 DEF EdgeStored
<1>8. ASSUME Stop
      PROVE  FALSE
  BY <1>8 DEF Stop
<1> QED
  BY <1>1, <1>2, <1>4, <1>5, <1>6, <1>7, <1>8 DEF Next

-----------------------------------------------------------------------------
(* The one timer serves all *)

\* A stopped entity keeps nothing.
Emptied == stopped => DOMAIN window = {}

LEMMA EmptiedStep ==
  ASSUME Emptied, [Next]_vars
  PROVE  Emptied'
<1>1. CASE Stop
  BY <1>1 DEF Stop, Emptied
<1>2. CASE DiscardCallback
  <2>1. stopped' = stopped /\ (stopped => window' = window)
    BY <1>2 DEF DiscardCallback
  <2> QED
    BY <2>1 DEF Emptied
<1>3. CASE Tick \/ UNCHANGED vars
  BY <1>3 DEF Tick, vars, Emptied
<1>4. ASSUME ~(Stop \/ DiscardCallback \/ Tick \/ UNCHANGED vars)
      PROVE  ~stopped'
  BY <1>4 DEF Next, HandleSdu, HandleDesiredBufferSize, HandleTransmit, HandleDelivery,
              HandleStatusReport, Reestablish, Lives
<1> QED
  BY <1>1, <1>2, <1>3, <1>4 DEF Emptied

\* As long as callbacks come in time, the timer runs while an SDU that was sent
\* is stored, and ends no later than the discardTimer of each.
TimerCovers ==
  isTimed /\ ~failed /\ "late" \notin odd =>
    /\ timer >= 0 /\ (timer = Off \/ timer <= Discard)
    /\ \A c \in DOMAIN window : c < tx_next => timer # Off /\ window[c] + timer <= Discard

Timely == AssertFailsForCause /\ TimerCovers

LEMMA HandleSduTimely ==
  ASSUME IInv, Timely, NEW outcome \in Outcomes, HandleSdu(outcome)
  PROVE  Timely'
<1>1. isTimed' = isTimed /\ odd \subseteq odd' /\ ~failed
      /\ (failed' => Occupied)
  BY DEF HandleSdu, Lives, isTimed
<1>2. AssertFailsForCause'
  BY <1>1 DEF AssertFailsForCause, IInv, Edges
<1>3. ASSUME isTimed, "late" \notin odd, ~failed'
      PROVE  /\ timer' >= 0 /\ (timer' = Off \/ timer' <= Discard)
             /\ \A c \in DOMAIN window' :
                  c < tx_next' => timer' # Off /\ window'[c] + timer' <= Discard
  <2>1. /\ timer >= 0 /\ (timer = Off \/ timer <= Discard)
        /\ \A c \in DOMAIN window : c < tx_next => timer # Off /\ window[c] + timer <= Discard
    BY <1>1, <1>3 DEF Timely, TimerCovers
  <2>2. CASE CountsUsedUp
    BY <2>1, <2>2 DEF HandleSdu, st
  <2>3. CASE ~CountsUsedUp
    <3>1. timer' = IF timer = Off THEN Discard ELSE timer
      BY <1>3, <2>3 DEF HandleSdu, StartedTimer
    <3>2. timer' \in Int /\ timer' >= 0 /\ timer' <= Discard /\ timer' # Off
      <4>1. CASE timer = Off
        BY <3>1, <4>1, Sizes
      <4>2. CASE timer # Off
        BY <2>1, <3>1, <4>2, Numbers, Sizes
      <4> QED
        BY <4>1, <4>2
    <3>3. \A c \in DOMAIN window : c < tx_next => window[c] + timer' <= Discard
      BY <2>1, <3>1
    <3>4. \/ UNCHANGED <<tx_next, window>>
          \/ /\ window' = [c \in DOMAIN window \cup {tx_next} |->
                             IF c = tx_next THEN 0 ELSE window[c]]
             /\ tx_next' = tx_next \/ tx_next' = tx_next + 1
      BY <2>3 DEF HandleSdu
    <3>5. ASSUME NEW c \in DOMAIN window', c < tx_next'
          PROVE  window'[c] + timer' <= Discard
      <4>1. CASE window' = window /\ tx_next' = tx_next
        BY <3>3, <3>5, <4>1
      <4>2. CASE /\ window' = [e \in DOMAIN window \cup {tx_next} |->
                                 IF e = tx_next THEN 0 ELSE window[e]]
                 /\ tx_next' = tx_next \/ tx_next' = tx_next + 1
        <5>1. CASE c = tx_next
          <6>1. window'[c] = 0
            BY <3>5, <4>2, <5>1
          <6> QED
            BY <3>2, <6>1
        <5>2. CASE c # tx_next
          <6>1. c \in DOMAIN window /\ window'[c] = window[c] /\ c \in Nat
            BY <3>5, <4>2, <5>2, Numbers
          <6>2. c < tx_next
            BY <3>5, <4>2, <5>2, <6>1, Numbers
          <6> QED
            BY <3>3, <6>1, <6>2
        <5> QED
          BY <5>1, <5>2
      <4> QED
        BY <3>4, <4>1, <4>2
    <3> QED
      BY <3>2, <3>5
  <2> QED
    BY <2>2, <2>3
<1> QED
  BY <1>1, <1>2, <1>3 DEF Timely, TimerCovers

LEMMA StopDiscardTimerTimely ==
  ASSUME IInv, Contiguous, Timely, Lives,
         NEW highest \in Nat, highest < tx_next,
         NEW trans, StopDiscardTimer(highest, trans), UNCHANGED <<cfg, tx_next>>
  PROVE  Timely'
<1>0. isTimed' = isTimed /\ ~failed /\ ~stopped
  BY DEF isTimed, Lives
<1>1. CASE NothingToStop(highest)
  BY <1>0, <1>1 DEF StopDiscardTimer, Timely, AssertFailsForCause, TimerCovers
<1>2. CASE ~NothingToStop(highest)
  <2> DEFINE ack == highest + 1
  <2>1. /\ window' = Restrict(window, {c \in DOMAIN window : c > highest})
        /\ failed' = RearmFails(ack)
        /\ timer' = IF RearmFails(ack) THEN Off ELSE Rearmed(ack)
        /\ tx_next_ack <= highest /\ tx_next_ack \in DOMAIN window
        /\ odd' = IF timer <= 0 THEN odd \cup {"late"} ELSE odd
    BY <1>2, Numbers DEF StopDiscardTimer, NothingToStop
  <2>2. \A c \in DOMAIN window' : c \in DOMAIN window /\ c > highest /\ window'[c] = window[c]
    BY <2>1 DEF Restrict
  <2>3. CASE ~isTimed
    BY <1>0, <2>1, <2>3 DEF RearmFails, Timely, AssertFailsForCause, TimerCovers
  <2>4. CASE isTimed /\ ack = tx_next
    <3>1. ~failed' /\ timer' = Off
      BY <2>1, <2>4 DEF RearmFails, Rearmed
    <3>2. \A c \in DOMAIN window' : ~(c < tx_next')
      BY <2>2, <2>4, Numbers
    <3> QED
      BY <3>1, <3>2, Sizes DEF Timely, AssertFailsForCause, TimerCovers
  <2>5. CASE isTimed /\ ack # tx_next /\ "late" \in odd'
    BY <2>5 DEF Timely, AssertFailsForCause, TimerCovers
  <2>6. CASE isTimed /\ ack # tx_next /\ "late" \notin odd'
    <3>1. timer \in Int /\ timer > 0 /\ "late" \notin odd
      BY <2>1, <2>6, Numbers
    <3>2. /\ window[tx_next_ack] + timer <= Discard
          /\ \A c \in DOMAIN window : window[c] \in Nat
      BY <1>0, <2>1, <2>6, <3>1, Numbers DEF Timely, TimerCovers, IInv, TypeOK
    <3>3. ack \in DOMAIN window => window[ack] <= window[tx_next_ack]
      BY <2>1, Numbers DEF IInv, AgesFall
    <3>4. CASE RearmFails(ack)
      <4>1. ack \notin DOMAIN window
        BY <2>1, <3>1, <3>2, <3>3, <3>4, Sizes DEF RearmFails
      <4>2. "hole" \in odd
        BY <1>0, <2>1, <2>6, <4>1, Numbers DEF Contiguous
      <4> QED
        BY <2>1, <3>4, <4>2 DEF Timely, AssertFailsForCause, TimerCovers
    <3>5. CASE ~RearmFails(ack)
      <4>1. ack \in DOMAIN window /\ window[ack] < Discard
        BY <2>1, <2>6, <3>1, <3>2, <3>3, <3>5, Sizes DEF RearmFails
      <4>2. timer' = Discard - window[ack]
        <5>1. timer' = Max({Discard - window[ack], 1})
          BY <2>1, <2>6, <3>5 DEF Rearmed
        <5> QED
          BY <3>2, <4>1, <5>1, Sizes, MaxOfTwo
      <4>3. timer' >= 0 /\ timer' <= Discard /\ timer' # Off
        BY <3>2, <4>1, <4>2, Sizes
      <4>4. ASSUME NEW c \in DOMAIN window'
            PROVE  window'[c] + timer' <= Discard
        <5>1. c \in DOMAIN window /\ c >= ack /\ window'[c] = window[c] /\ c \in Nat
          BY <2>2, Numbers
        <5>2. window[c] <= window[ack]
          BY <3>2, <4>1, <5>1 DEF IInv, AgesFall
        <5> QED
          BY <3>2, <4>1, <4>2, <5>1, <5>2, Sizes
      <4> QED
        BY <2>1, <3>5, <4>3, <4>4 DEF Timely, AssertFailsForCause, TimerCovers
    <3> QED
      BY <3>4, <3>5
  <2> QED
    BY <2>3, <2>4, <2>5, <2>6
<1> QED
  BY <1>1, <1>2

LEMMA DiscardCallbackTimely ==
  ASSUME IInv, EdgeStored, Emptied, Timely, DiscardCallback
  PROVE  Timely'
<1>0. isTimed' = isTimed /\ ~failed /\ ~failed' /\ odd' = odd /\ timer <= 0 /\ timer \in Int
      /\ tx_next' = tx_next
  BY Numbers DEF DiscardCallback, isTimed, st
<1> SUFFICES ASSUME isTimed, "late" \notin odd
             PROVE  /\ timer' >= 0 /\ (timer' = Off \/ timer' <= Discard)
                    /\ \A c \in DOMAIN window' :
                         c < tx_next => timer' # Off /\ window'[c] + timer' <= Discard
  BY <1>0 DEF Timely, AssertFailsForCause, TimerCovers
<1>1. timer = 0 /\ \A c \in DOMAIN window : c < tx_next => window[c] <= Discard
  BY <1>0 DEF Timely, TimerCovers, IInv, TypeOK
<1>2. CASE stopped \/ tx_next_ack \notin DOMAIN window
  <2>1. timer' = Off /\ window' = window
    BY <1>2 DEF DiscardCallback
  <2>2. \A c \in DOMAIN window : ~(c < tx_next)
    <3>1. CASE stopped
      BY <3>1 DEF Emptied
    <3>2. CASE ~stopped /\ tx_next_ack \notin DOMAIN window
      <4>1. tx_next_ack = tx_next
        BY <1>0, <3>2, Numbers DEF EdgeStored
      <4> QED
        BY <4>1, Numbers DEF IInv, Edges
    <3> QED
      BY <1>2, <3>1, <3>2
  <2> QED
    BY <2>1, <2>2, Sizes
<1>3. CASE ~stopped /\ tx_next_ack \in DOMAIN window
  <2> DEFINE age  == window[tx_next_ack]
             gone == {c \in DOMAIN window : c < tx_next /\ window[c] = age}
             left == DOMAIN window \ gone
  <2>1. DiscardPdus(gone) /\ timer' = CallbackTimer(age, left)
    BY <1>3 DEF DiscardCallback
  <2>2. gone \subseteq DOMAIN window
    OBVIOUS
  <2>3. window' = Restrict(window, left)
        /\ (left # {} => Min(left) \in left /\ \A c \in left : Min(left) <= c)
    <3> HIDE DEF gone
    <3> QED
      BY <2>1, <2>2, Discarding
  <2>4. \A c \in DOMAIN window' : c \in left /\ window'[c] = window[c]
    BY <2>3 DEF Restrict
  <2>5. CASE left = {}
    BY <2>1, <2>4, <2>5, Sizes DEF CallbackTimer
  <2>6. CASE left # {}
    <3> DEFINE m == Min(left)
    <3>1. m \in DOMAIN window /\ m \in Nat /\ (m < tx_next => window[m] # age)
      BY <2>3, <2>6, Numbers
    <3>2. age \in Nat /\ window[m] \in Nat /\ window[m] <= age
      BY <1>3, <3>1, Numbers DEF IInv, TypeOK, Edges, AgesFall
    <3>3. CASE window[m] = age
      <4>1. timer' = Off
        BY <2>1, <3>3 DEF CallbackTimer
      <4>2. ~(m < tx_next) /\ \A c \in left : m <= c /\ c \in Nat
        BY <2>3, <2>6, <3>1, <3>3, Numbers
      <4> HIDE DEF m, left
      <4>3. \A c \in left : ~(c < tx_next)
        BY <3>1, <4>2, Numbers
      <4> QED
        BY <2>4, <4>1, <4>3, Sizes
    <3>4. CASE window[m] # age
      <4>1. timer' = age - window[m]
        BY <2>1, <2>6, <3>4 DEF CallbackTimer
      <4>2. age <= Discard
        <5>1. m # tx_next_ack /\ tx_next_ack < tx_next
          BY <3>1, <3>4, Numbers DEF IInv, Edges
        <5> QED
          BY <1>1, <1>3, <5>1
      <4>3. timer' >= 0 /\ timer' <= Discard /\ timer' # Off
        BY <3>2, <4>1, <4>2, Sizes
      <4>4. ASSUME NEW c \in left
            PROVE  window[c] + timer' <= Discard
        <5>1. c \in DOMAIN window /\ c \in Nat /\ m <= c
          BY <2>3, <2>6, Numbers
        <5>2. window[c] \in Nat /\ window[c] <= window[m]
          BY <3>1, <3>2, <5>1 DEF IInv, AgesFall, TypeOK
        <5> QED
          BY <3>2, <4>1, <4>2, <5>2, Sizes
      <4> QED
        BY <2>4, <4>3, <4>4
    <3> QED
      BY <3>3, <3>4
  <2> QED
    BY <2>5, <2>6
<1> QED
  BY <1>2, <1>3

LEMMA TickTimely ==
  ASSUME IInv, Timely, Tick
  PROVE  Timely'
<1>1. /\ ~failed /\ ~failed' /\ isTimed' = isTimed /\ timer \in Int
      /\ timer' = IF timer = Off THEN Off ELSE timer - 1
      /\ window' = [c \in DOMAIN window |-> IF isTimed THEN Min({window[c] + 1, Off}) ELSE 0]
      /\ odd' = IF timer <= 0 THEN odd \cup {"late"} ELSE odd
      /\ tx_next' = tx_next
  BY Numbers DEF Tick, isTimed, st
<1> SUFFICES ASSUME isTimed, "late" \notin odd'
             PROVE  /\ timer' >= 0 /\ (timer' = Off \/ timer' <= Discard)
                    /\ \A c \in DOMAIN window' :
                         c < tx_next => timer' # Off /\ window'[c] + timer' <= Discard
  BY <1>1 DEF Timely, AssertFailsForCause, TimerCovers
<1>2. timer > 0 /\ "late" \notin odd
  BY <1>1
<1>3. /\ timer = Off \/ timer <= Discard
      /\ \A c \in DOMAIN window : c < tx_next => timer # Off /\ window[c] + timer <= Discard
  BY <1>1, <1>2 DEF Timely, TimerCovers
<1>4. timer' >= 0 /\ (timer' = Off \/ timer' <= Discard)
  BY <1>1, <1>2, <1>3, Sizes
<1>5. ASSUME NEW c \in DOMAIN window, c < tx_next
      PROVE  timer' # Off /\ window'[c] + timer' <= Discard
  <2>1. timer # Off /\ window[c] + timer <= Discard /\ window[c] \in Nat
    BY <1>3, <1>5 DEF IInv, TypeOK
  <2>2. timer' = timer - 1 /\ window[c] + 1 <= Off /\ timer' # Off
    BY <1>1, <1>2, <1>3, <2>1, Sizes
  <2>3. Min({window[c] + 1, Off}) = window[c] + 1
    BY <2>1, <2>2, Sizes, MinOfTwo
  <2> QED
    BY <1>1, <2>1, <2>2, <2>3
<1> QED
  BY <1>1, <1>4, <1>5

LEMMA TimelyStep ==
  ASSUME IInv, Contiguous, EdgeStored, Emptied, Timely, [Next]_vars
  PROVE  Timely'
<1>1. ASSUME NEW count \in Reportable, HandleTransmit(count) \/ HandleDelivery(count)
      PROVE  Timely'
  <2>1. Estimate(SN(count)) = count /\ count \in Nat /\ count < tx_next
    BY ReportedAsMeant, Numbers DEF Reportable, IInv, SubmittedKnown
  <2>2. UNCHANGED <<cfg, tx_next>> /\ Lives
    BY <1>1 DEF HandleTransmit, HandleDelivery
  <2>3. \/ UNCHANGED <<window, timer, failed, odd>>
        \/ \E trans : StopDiscardTimer(count, trans)
    BY <1>1, <2>1 DEF HandleTransmit, HandleDelivery
  <2>4. CASE UNCHANGED <<window, timer, failed, odd>>
    BY <2>2, <2>4 DEF Timely, AssertFailsForCause, TimerCovers, isTimed
  <2> QED
    BY <2>1, <2>2, <2>3, <2>4, StopDiscardTimerTimely
<1>2. ASSUME NEW fmc, NEW bitmap, HandleStatusReport(fmc, bitmap)
      PROVE  Timely'
  <2> DEFINE gone == {c \in DOMAIN window : c < tx_next /\ (c < fmc \/ c - fmc \in bitmap)}
  <2>1. DiscardPdus(gone) /\ UNCHANGED <<cfg, tx_next, timer, failed>> /\ odd \subseteq odd'
    BY <1>2 DEF HandleStatusReport
  <2>2. \A c \in DOMAIN window' : c \in DOMAIN window /\ window'[c] = window[c]
    BY <2>1 DEF DiscardPdus, Restrict
  <2> QED
    BY <2>1, <2>2 DEF Timely, AssertFailsForCause, TimerCovers, isTimed
<1>3. ASSUME (\E size \in Rooms : HandleDesiredBufferSize(size)) \/ UNCHANGED vars
      PROVE  Timely'
  BY <1>3 DEF HandleDesiredBufferSize, vars, st, Timely, AssertFailsForCause, TimerCovers, isTimed
<1>4. ASSUME NEW end, Reestablish(end)
      PROVE  Timely'
  <2>1. /\ UNCHANGED <<cfg, timer, failed>> /\ odd \subseteq odd'
        /\ (window' = window /\ tx_next' = tx_next) \/ DOMAIN window' = {}
    BY <1>4 DEF Reestablish
  <2> QED
    BY <2>1 DEF Timely, AssertFailsForCause, TimerCovers, isTimed
<1>5. ASSUME Stop
      PROVE  Timely'
  <2>1. UNCHANGED <<failed, odd>> /\ timer' = Off /\ DOMAIN window' = {}
    BY <1>5 DEF Stop
  <2> QED
    BY <2>1, Sizes DEF Timely, AssertFailsForCause, TimerCovers
<1> QED
  BY <1>1, <1>2, <1>3, <1>4, <1>5, HandleSduTimely, DiscardCallbackTimely, TickTimely DEF Next

WInv == IInv /\ Contiguous /\ EdgeStored /\ Emptied /\ Timely

LEMMA WindowInvariance == Spec => []WInv
<1>1. Init => WInv
  <2> SUFFICES ASSUME Init PROVE WInv
    OBVIOUS
  <2>1. Contiguous /\ EdgeStored /\ Emptied
    BY DEF Init, Contiguous, EdgeStored, Emptied
  <2>2. Timely
    BY Sizes DEF Init, Timely, AssertFailsForCause, TimerCovers
  <2> QED
    BY <2>1, <2>2, InitEstablishes DEF WInv
<1>2. WInv /\ [Next]_vars => WInv'
  BY StepKeeps, ContiguousStep, EdgeStoredStep, EmptiedStep, TimelyStep DEF WInv
<1> QED
  BY <1>1, <1>2, PTL DEF Spec

\* TX_NEXT_ACK is the oldest stored SDU, so that no report is ignored for ever,
\* unless a status report left a hole in the window of an entity without a
\* finite discardTimer; with a finite one an assertion has failed by then.
THEOREM NextAckAlwaysStored == Spec => []NextAckIsStored
<1>1. WInv => NextAckIsStored
  BY Numbers DEF WInv, Contiguous, EdgeStored, NextAckIsStored, NextAckIsOldest
<1> QED
  BY <1>1, WindowInvariance, PTL

\* The state variables, the stored SDUs and the timer agree; an assertion of
\* the entity fails only after an SDU was stored and not sent, after a status
\* report that left a hole, or when the callback of an expired timer came late.
THEOREM WindowAlwaysSound == Spec => []WindowIsSound
<1>1. WInv => AssertFailsForCause /\ TypeOK /\ Edges
  BY DEF WInv, Timely, IInv
<1> QED
  BY <1>1, WindowInvariance, NextAckAlwaysStored, PTL DEF WindowIsSound

\* No SDU is confirmed for another one, none that was sent outlives its
\* discardTimer while callbacks come in time, and the lower layers have every
\* stored one unless a retransmission was cut short.
THEOREM SdusLookedAfter == Spec => []EverySduIsLookedAfter
<1>1. WInv => NobodyOverstays
  <2> SUFFICES ASSUME WInv, isTimed, ~failed, "late" \notin odd,
                      NEW c \in DOMAIN window, c # tx_next
               PROVE  window[c] <= Discard
    BY DEF NobodyOverstays
  <2>1. c < tx_next /\ window[c] \in Nat /\ timer \in Int
    BY Numbers DEF WInv, IInv, Edges, TypeOK
  <2>2. timer >= 0 /\ window[c] + timer <= Discard
    BY <2>1 DEF WInv, Timely, TimerCovers
  <2> QED
    BY <2>1, <2>2, Sizes
<1> QED
  BY <1>1, WindowInvariance, EstimateAlwaysExact, NeverStranded, PTL DEF EverySduIsLookedAfter
=============================================================================
