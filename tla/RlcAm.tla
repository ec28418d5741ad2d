-------------------------------- MODULE RlcAm --------------------------------
(***************************************************************************)
(* RLC in acknowledged mode, one direction of one bearer: the transmitting   *)
(* entity (lib/rlc/rlc_tx_am_entity.cpp), the receiving entity of its peer    *)
(* (lib/rlc/rlc_rx_am_entity.cpp) and the radio between them.  An SDU gets a  *)
(* sequence number modulo Mod, goes out whole or in segments as the grants    *)
(* allow, and is kept until a status report acknowledges it; what the report  *)
(* misses is sent again.  Polling by PDUs and bytes sent is not configured.   *)
(***************************************************************************)
EXTENDS Integers, Sequences, FiniteSets, SequencesExt

CONSTANTS
  Mod,        \* number of sequence numbers: 2^12 or 2^18 in the code
  MaxWindow,  \* cfg.max_window, a smaller window to save memory; 0 for none
  Submits,    \* what the upper layer may submit: sequences of the lengths of the
              \* SDUs, in the smallest segments that grants allow
  MaxRetx,    \* cfg.max_retx_thresh
  QueueSize,  \* capacity of sdu_queue
  MayDiscard, \* whether PDCP takes SDUs back
  InFlight,   \* bound: data PDUs on the radio
  Statuses,   \* bound: status reports on the radio
  NoBuffer    \* the SDUs for which the receiver finds no buffer when they are whole

Window == Mod \div 2  \* window_size: half of the sequence numbers

ASSUME SizesAssumption ==
  /\ Mod \in Nat /\ Window \in Nat \ {0, 1} /\ Mod = 2 * Window
  /\ MaxWindow \in Nat /\ Submits \subseteq Seq(Nat \ {0}) /\ MaxRetx \in Nat
  /\ QueueSize \in Nat \ {0} /\ MayDiscard \in BOOLEAN /\ InFlight \in Nat \ {0}
  /\ Statuses \in Nat \ {0} /\ NoBuffer \subseteq Nat

VARIABLES
  lengths,      \* the lengths of the SDUs to be submitted, never changed
  \* the transmitting entity
  queue,        \* sdu_queue
  tx_next, tx_next_ack, poll_sn,
  tx_window,    \* the SDUs that are not acknowledged, by their SNs
  sn_under_segmentation, retx_queue, retx_sn,
  poll_timer, poll_expired,
  max_retx,     \* max_retx_reached, and whether on_max_retx was called
  told,
  \* the receiving entity
  rx_next, rx_next_highest, rx_highest_status, rx_next_status_trigger,
  rx_window,    \* by SN the bytes received, whether the last segment is among
                \* them, and (history) of which SDUs they are
  reassembly, do_status, prohibit,
  pulling,      \* the lower layer inside get_status_pdu, do_status is reset
  fresh,        \* whether the report for exchange was refreshed since the last pull
  taken,        \* the report of the last pull: status_owned_by_reader
  spare,        \* the one of the pull before, for exchange where none is fresh
  \* the radio
  data, status,
  \* history: the SDUs in the order in which they got SNs, those acknowledged,
  \* those put together, and of these the ones that could not be handed up
  submitted, sent, acked, assembled, dropped

txst  == <<tx_next, tx_next_ack, poll_sn, sent>>
retx  == <<retx_queue, retx_sn, max_retx, told>>
poll  == <<poll_timer, poll_expired>>
tx    == <<queue, txst, tx_window, sn_under_segmentation, retx, poll>>
rxst  == <<rx_next, rx_next_highest, rx_highest_status, rx_next_status_trigger>>
pulls == <<pulling, taken, spare, fresh>>
rx    == <<rxst, rx_window, reassembly, do_status, prohibit, pulls, assembled, dropped>>
vars  == <<tx, rx, data, status, lengths, submitted, acked>>

\* A report as it is before the first refresh, with INVALID_RLC_SN.
NoReport == [ack |-> Mod - 1, nacks |-> {}, at |-> -1]

NoSn  == Mod
Plus(sn, n) == (sn + n) % Mod

\* sdu_info.sdu.length()
Length(sn) == lengths[tx_window[sn].sdu]

Init ==
  /\ lengths \in Submits
  /\ queue = << >> /\ tx_next = 0 /\ tx_next_ack = 0 /\ poll_sn = 0
  /\ tx_window = [sn \in {} |-> 0] /\ sn_under_segmentation = NoSn
  /\ retx_queue = << >> /\ retx_sn = NoSn /\ max_retx = FALSE /\ told = FALSE
  /\ poll_timer = FALSE /\ poll_expired = FALSE
  /\ rx_next = 0 /\ rx_next_highest = 0 /\ rx_highest_status = 0 /\ rx_next_status_trigger = 0
  /\ rx_window = [sn \in {} |-> 0]
  /\ reassembly = FALSE /\ do_status = FALSE /\ prohibit = FALSE
  /\ pulling = FALSE /\ fresh = TRUE /\ taken = NoReport /\ spare = NoReport
  /\ data = << >> /\ status = << >>
  /\ submitted = 0 /\ sent = << >> /\ acked = {} /\ assembled = << >> /\ dropped = {}

-----------------------------------------------------------------------------
(* The transmitting entity *)

TxBase(sn) == (sn - tx_next_ack) % Mod
TxFull(window) ==
  Cardinality(DOMAIN window) = Window \/ (MaxWindow # 0 /\ TxBase(tx_next) > MaxWindow)

\* sdu_queue.write, and try_discard on behalf of PDCP.
HandleSdu ==
  /\ submitted < Len(lengths) /\ Len(queue) < QueueSize
  /\ submitted' = submitted + 1
  /\ queue' = Append(queue, submitted')
  /\ UNCHANGED <<txst, tx_window, sn_under_segmentation, retx, poll, rx, data, status, lengths, acked>>

DiscardSdu(i) ==
  /\ MayDiscard
  /\ queue' = RemoveAt(queue, i)
  /\ UNCHANGED <<txst, tx_window, sn_under_segmentation, retx, poll, rx, data, status, lengths, submitted, acked>>

\* get_polling_bit, for the buffers as they are after the transmission: it
\* polls when nothing else can be sent, or after t-PollRetransmit.
NothingElse(q, window, segmented, rq) ==
  (q = << >> /\ rq = << >> /\ segmented = NoSn) \/ TxFull(window)

Transmit(sn, so, len, isRetx) ==
  LET p == poll_expired \/ NothingElse(queue', tx_window', sn_under_segmentation', retx_queue') IN
  /\ data' = Append(data, [sn |-> sn, so |-> so, len |-> len, p |-> p, late |-> FALSE,
                           last |-> so + len = lengths[tx_window'[sn].sdu],
                           sdu |-> tx_window'[sn].sdu])
  /\ poll_expired' = FALSE /\ poll_timer' = (poll_timer \/ p)
  /\ poll_sn' = IF p /\ ~isRetx THEN sn ELSE poll_sn

\* build_retx_pdu, where the grant has room for so many bytes.
LiveRetx ==
  LET live == {i \in 1..Len(retx_queue) : retx_queue[i].sn \in DOMAIN tx_window}
  IN  IF live = {} THEN << >> ELSE SubSeq(retx_queue, Min(live), Len(retx_queue))

Retransmit(room) ==
  /\ retx_queue # << >> /\ LiveRetx # << >>
  /\ LET r   == Head(LiveRetx)
         len == Min({r.length, room})
         rest == [sn |-> r.sn, so |-> r.so + len, length |-> r.length - len] IN
     /\ retx_sn' = r.sn
     /\ retx_queue' = IF len = r.length THEN Tail(LiveRetx) ELSE <<rest>> \o Tail(LiveRetx)
     /\ max_retx' = (len = r.length /\ tx_window[r.sn].retx_count = MaxRetx)
     /\ UNCHANGED <<queue, sent, tx_window, sn_under_segmentation, tx_next, tx_next_ack, told>>
     /\ Transmit(r.sn, r.so, len, TRUE)

\* build_continued_sdu_segment
SendSegment(room) ==
  /\ retx_queue = << >> /\ sn_under_segmentation \in DOMAIN tx_window
  /\ LET so   == tx_window[tx_next].next_so
         len  == Min({Length(tx_next) - so, room})
         last == so + len = Length(tx_next) IN
     /\ tx_window' = [tx_window EXCEPT ![tx_next].next_so = so + len]
     /\ sn_under_segmentation' = IF last THEN NoSn ELSE sn_under_segmentation
     /\ tx_next' = IF last THEN Plus(tx_next, 1) ELSE tx_next
     /\ UNCHANGED <<queue, sent, tx_next_ack, retx>>
     /\ Transmit(tx_next, so, len, FALSE)

\* build_new_pdu and build_first_sdu_segment
SendNew(room) ==
  /\ retx_queue = << >> /\ sn_under_segmentation = NoSn
  /\ queue # << >> /\ ~TxFull(tx_window)
  /\ LET len  == Min({lengths[Head(queue)], room})
         full == len = lengths[Head(queue)]
         info == [sdu |-> Head(queue), next_so |-> IF full THEN 0 ELSE len, retx_count |-> -1] IN
     /\ queue' = Tail(queue) /\ sent' = Append(sent, Head(queue))
     /\ tx_window' = [sn \in DOMAIN tx_window \cup {tx_next} |->
                        IF sn = tx_next THEN info ELSE tx_window[sn]]
     /\ sn_under_segmentation' = IF full THEN NoSn ELSE tx_next
     /\ tx_next' = IF full THEN Plus(tx_next, 1) ELSE tx_next
     /\ UNCHANGED <<tx_next_ack, retx>>
     /\ Transmit(tx_next, 0, len, FALSE)

\* pull_pdu: the status report of the other direction aside, what is to be
\* sent again comes first, then the rest of an SDU, then a new one.
PullPdu(room) ==
  /\ ~max_retx /\ Len(data) < InFlight
  /\ Retransmit(room) \/ SendSegment(room) \/ SendNew(room)
  /\ UNCHANGED <<rx, status, lengths, submitted, acked>>

\* handle_nack: the part to send again, nothing of what was not sent yet.
OpenEnd == 65535 \* so_end_of_sdu

RetxTo(nack, end) == [sn |-> nack.sn, so |-> nack.so, length |-> end - nack.so + 1]

RetxOf(nack) ==
  IF nack.has_so /\ nack.end # OpenEnd THEN {RetxTo(nack, nack.end)}
  ELSE IF ~nack.has_so \/ nack.sn # sn_under_segmentation THEN {RetxTo(nack, Length(nack.sn) - 1)}
  ELSE IF nack.so >= tx_window[nack.sn].next_so THEN {}
  ELSE {RetxTo(nack, tx_window[nack.sn].next_so - 1)}

\* valid_ack_sn, the check against TX_NEXT and valid_nack
Accepts(s) ==
  /\ TxBase(s.ack) \in 1..Window /\ TxBase(s.ack) <= TxBase(Plus(tx_next, 1))
  /\ \A nack \in s.nacks :
       /\ TxBase(nack.sn) < TxBase(s.ack) /\ TxBase(nack.sn) < Window
       /\ TxBase(nack.sn) <= TxBase(tx_next)

\* How often the count of an SN is taken back for the retransmissions that
\* were queued and had not begun.
TakenBack(sn) ==
  Cardinality({i \in 1..Len(retx_queue) :
    /\ retx_queue[i].sn = sn
    /\ (IF i = 1 THEN retx_sn ELSE retx_queue[i - 1].sn) # sn})

\* The SNs up to the first one missing are acknowledged.
AckNotMissing(s) ==
  {sn \in DOMAIN tx_window : TxBase(sn) < TxBase(s.ack)} \ {nack.sn : nack \in s.nacks}
AckedBy(s) ==
  {sn \in DOMAIN tx_window :
     TxBase(sn) < Min({TxBase(s.ack)} \cup {TxBase(nack.sn) : nack \in s.nacks})}

InOrder(a, b) ==
  TxBase(a.sn) < TxBase(b.sn) \/ (a.sn = b.sn /\ a.so < b.so)
Ordered(parts) ==
  {q \in [1..Cardinality(parts) -> parts] :
     \A i, j \in DOMAIN q : i < j => q[i] # q[j] /\ ~InOrder(q[j], q[i])}

\* retx_queue has room for so many: what does not fit is not sent again, nor
\* counted.
Fitting(q) == SubSeq(q, 1, Min({Len(q), Window}))

HandleStatus(s) ==
  LET acks == AckedBy(s)
      kept == DOMAIN tx_window \ acks
      wanted == UNION {RetxOf(nack) : nack \in s.nacks}
      count(sn) ==
        Max({tx_window[sn].retx_count - TakenBack(sn), -1})
          + (IF \E i \in DOMAIN retx_queue' : retx_queue'[i].sn = sn THEN 1 ELSE 0)
  IN
  IF ~Accepts(s) THEN UNCHANGED <<tx, acked>>
  ELSE /\ poll_timer' = (poll_timer /\ TxBase(poll_sn) >= TxBase(s.ack))
       /\ tx_next_ack' = Plus(tx_next_ack, Cardinality(acks))
       /\ acked' = acked \cup {tx_window[sn].sdu : sn \in acks}
       /\ retx_queue' \in {Fitting(q) : q \in Ordered(wanted)}
       /\ retx_sn' = NoSn
       /\ tx_window' = [sn \in kept |-> [tx_window[sn] EXCEPT !.retx_count = count(sn)]]
       /\ told' = (told \/ \E i \in DOMAIN retx_queue' : count(retx_queue'[i].sn) = MaxRetx)
       /\ UNCHANGED <<queue, sent, tx_next, poll_sn, sn_under_segmentation, max_retx, poll_expired>>

\* on_expired_poll_retransmit_timer: if there is nothing else to send, the
\* oldest SDU is sent again, unless retx_queue is full; the next PDU polls.
PollExpires ==
  LET stalled == NothingElse(queue, tx_window, sn_under_segmentation, retx_queue)
      count == tx_window[tx_next_ack].retx_count + 1
      fits == Len(retx_queue) < Window IN
  /\ poll_timer /\ poll_timer' = FALSE
  /\ IF stalled /\ tx_next_ack \in DOMAIN tx_window /\ fits
       THEN /\ retx_queue' = Append(retx_queue, [sn |-> tx_next_ack, so |-> 0, length |-> Length(tx_next_ack)])
            /\ tx_window' = [tx_window EXCEPT ![tx_next_ack].retx_count = count]
            /\ told' = (told \/ count = MaxRetx)
       ELSE UNCHANGED <<retx_queue, tx_window, told>>
  /\ poll_expired' = IF stalled /\ tx_next_ack \notin DOMAIN tx_window
                       THEN poll_expired ELSE TRUE
  /\ UNCHANGED <<queue, txst, sn_under_segmentation, retx_sn, max_retx, rx, data, status, lengths, submitted, acked>>

-----------------------------------------------------------------------------
(* The receiving entity *)

RxBase(sn) == (sn - rx_next) % Mod
InsideRxWindowLate(sn) == RxBase(sn) <= Window
InsideRxWindow(sn) == RxBase(sn) < Window

\* has_gap: bytes are missing before the last one received.
HasGap(window, sn) ==
  sn \in DOMAIN window /\ \E b \in window[sn].got : ~(0..b \subseteq window[sn].got)

\* fully_received
FullIn(window, sn) == sn \in DOMAIN window /\ window[sn].last /\ ~HasGap(window, sn)

\* The first SN in from, ..., to - 1 that is not complete, to if there is none.
FirstMissing(window, from, to) ==
  LET n == (to - from) % Mod
  IN  Plus(from, Min({k \in 0..(n - 1) : ~FullIn(window, Plus(from, k))} \cup {n}))

\* When an SDU of the window, or a part of one, is missing before its end.
Incomplete(window, from, highest) ==
  \/ (highest - from) % Mod > 1
  \/ (highest - from) % Mod = 1 /\ HasGap(window, from)

StopsAtNext(window, next) ==
  LET ahead == (rx_next_status_trigger - next) % Mod
  IN  ahead = 0 \/ (ahead = 1 /\ ~HasGap(window, next))
StopsReassembly(window, next) ==
  LET ahead == (rx_next_status_trigger - next) % Mod
  IN  ahead = 0 \/ (ahead = 1 /\ ~HasGap(window, next)) \/ ahead >= Window

\* handle_full_data_sdu, handle_segment_data_sdu
Slot(sn) ==
  IF sn \in DOMAIN rx_window THEN rx_window[sn] ELSE [got |-> {}, last |-> FALSE, of |-> {}]
Stored(m) ==
  LET part == m.so..(m.so + m.len - 1)
      old  == Slot(m.sn)
  IN  IF m.so = 0 /\ m.last THEN [got |-> part, last |-> TRUE, of |-> {m.sdu}]
      ELSE IF part \subseteq old.got THEN old
      ELSE [got |-> old.got \cup part, last |-> old.last \/ m.last, of |-> old.of \cup {m.sdu}]

MovesStatus(m) == m.sn = rx_highest_status

\* A complete SDU is handed up, or dropped and counted as lost where
\* reassemble_sdu gets no buffer; the state goes on the same.
PlaceInBuffer(m) ==
  LET info == Stored(m)
      kept == [sn \in DOMAIN rx_window \cup {m.sn} |-> IF sn = m.sn THEN info ELSE rx_window[sn]]
      full == FullIn(kept, m.sn)
      running == reassembly /\ ~StopsReassembly(rx_window', rx_next')
      starts  == ~running /\ Incomplete(rx_window', rx_next', rx_next_highest')
  IN
  /\ rx_next_highest' =
       IF RxBase(m.sn) >= RxBase(rx_next_highest) THEN Plus(m.sn, 1) ELSE rx_next_highest
  /\ assembled' = IF full THEN Append(assembled, info.of) ELSE assembled
  /\ dropped' = IF full THEN dropped \cup (info.of \cap NoBuffer) ELSE dropped
  /\ rx_highest_status' = IF full /\ MovesStatus(m)
                            THEN FirstMissing(kept, Plus(m.sn, 1), rx_next_highest')
                            ELSE rx_highest_status
  /\ rx_next' = IF full /\ m.sn = rx_next THEN FirstMissing(kept, m.sn, rx_next_highest')
                                          ELSE rx_next
  /\ rx_window' = [sn \in {s \in DOMAIN kept : RxBase(s) >= RxBase(rx_next')} |-> kept[sn]]
  /\ reassembly' = (running \/ starts)
  /\ rx_next_status_trigger' = IF starts THEN rx_next_highest' ELSE rx_next_status_trigger

\* refresh_status_report, where there is something to refresh.
Refresh(changed) ==
  /\ fresh' = (fresh \/ changed)
  /\ spare' = IF changed THEN NoReport ELSE spare
  /\ UNCHANGED <<pulling, taken>>

\* A poll is answered even when the PDU is outside the window or a duplicate.
HandleDataPdu(m) ==
  LET placed == InsideRxWindow(m.sn) /\ ~FullIn(rx_window, m.sn) IN
  /\ do_status' = (do_status \/ m.p)
  /\ IF placed THEN PlaceInBuffer(m)
     ELSE UNCHANGED <<rxst, rx_window, reassembly, assembled, dropped>>
  /\ Refresh(m.p \/ (placed /\ Stored(m) # Slot(m.sn)))
  /\ UNCHANGED <<tx, prohibit, status, lengths, submitted, acked>>

ValidTrigger == RxBase(rx_next_status_trigger) \in 1..Window

\* on_expired_reassembly_timer
ReassemblyExpires ==
  /\ reassembly
  /\ IF ~ValidTrigger
       THEN reassembly' = FALSE /\ UNCHANGED <<rxst, do_status, pulls>>
       ELSE /\ rx_highest_status' =
                 FirstMissing(rx_window, rx_next_status_trigger, rx_next_highest)
            /\ reassembly' = Incomplete(rx_window, rx_highest_status', rx_next_highest)
            /\ rx_next_status_trigger' =
                 IF reassembly' THEN rx_next_highest ELSE rx_next_status_trigger
            /\ do_status' = TRUE /\ Refresh(TRUE) /\ UNCHANGED <<rx_next, rx_next_highest>>
  /\ UNCHANGED <<rx_window, prohibit, assembled, dropped, tx, data, status, lengths, submitted, acked>>

\* What refresh_status_report writes: the code keeps the report up to date, the
\* model computes a fresh one when it is pulled.
NacksOf(sn) ==
  LET got == rx_window[sn].got
      ends == {b \in 0..Max(got) : b \notin got /\ b + 1 \in got}
      start(b) == Min({c \in 0..b : c..b \cap got = {}})
      nack(so, end) == [sn |-> sn, has_so |-> TRUE, so |-> so, end |-> end]
  IN  IF sn \notin DOMAIN rx_window THEN {[nack(0, OpenEnd) EXCEPT !.has_so = FALSE]}
      ELSE IF FullIn(rx_window, sn) THEN {}
      ELSE {nack(start(b), b) : b \in ends}
             \cup (IF rx_window[sn].last THEN {} ELSE {nack(Max(got) + 1, OpenEnd)})

Report ==
  [ack |-> rx_highest_status,
   nacks |-> UNION {NacksOf(Plus(rx_next, k)) : k \in 0..(RxBase(rx_highest_status) - 1)},
   at |-> Cardinality(acked)]

\* trim: the grant has no room for the NACKs from this SN on.
TrimmedTo(r, sn) ==
  [r EXCEPT !.ack = sn,
            !.nacks = {nack \in @ : (r.ack - nack.sn) % Mod > (r.ack - sn) % Mod}]
Trimmed(r) == {r} \cup {TrimmedTo(r, nack.sn) : nack \in r.nacks}

\* get_status_pdu resets do_status first ...
TakeStatus ==
  /\ do_status /\ ~prohibit /\ ~pulling /\ Len(status) < Statuses
  /\ do_status' = FALSE /\ prohibit' = TRUE /\ pulling' = TRUE
  /\ UNCHANGED <<tx, rxst, rx_window, reassembly, fresh, taken, spare, assembled, dropped,
                 data, status, lengths, submitted, acked>>

\* ... and then gives the report of the last pull for the one to send.  When a
\* refresh came in between, do_status is set and the next pull gets the old one;
\* otherwise a refresh replaces it first.
SendStatus ==
  /\ pulling /\ pulling' = FALSE
  /\ \E r \in Trimmed(IF fresh THEN Report ELSE spare) :
       status' = Append(status, r) /\ taken' = r
  /\ spare' = (IF do_status THEN taken ELSE NoReport) /\ fresh' = FALSE
  /\ UNCHANGED <<tx, rxst, rx_window, reassembly, do_status, prohibit, assembled, dropped,
                 data, lengths, submitted, acked>>

ProhibitExpires ==
  /\ prohibit /\ prohibit' = FALSE
  /\ UNCHANGED <<tx, rxst, rx_window, reassembly, do_status, pulls, assembled, dropped,
                 data, status, lengths, submitted, acked>>

-----------------------------------------------------------------------------
(* The radio loses PDUs both ways.  A data PDU that a lower layer sends     *)
(* again may be overtaken by the one behind it, when their sequence numbers *)
(* are less than a window apart: no PDU is so late that its number is used  *)
(* for another SDU when it arrives.  Reports arrive in any order, and so    *)
(* does an old one that was pulled again; but none when the transmitter has *)
(* moved on by a window since: the check of ACK_SN would let it pass.       *)

Near(a, b) == (a - b) % Mod < Window \/ (b - a) % Mod < Window

Arrives ==
  \/ /\ data # << >> /\ data' = Tail(data) /\ HandleDataPdu(data[1])
  \/ /\ Len(data) > 1 /\ ~data[1].late /\ Near(data[1].sn, data[2].sn)
     /\ data' = [RemoveAt(data, 2) EXCEPT ![1].late = TRUE]
     /\ HandleDataPdu(data[2])

\* Bound: how often an SDU is sent again before the bearer is released, once
\* the upper layer has been told.
Patience == MaxRetx

Timely(s) == Cardinality(acked) < s.at + Window

StatusArrives ==
  \E i \in DOMAIN status :
    /\ Timely(status[i]) /\ HandleStatus(status[i])
    /\ status' = RemoveAt(status, i)
    /\ UNCHANGED <<rx, data, lengths, submitted>>

Lost ==
  /\ \/ data # << >> /\ data' = Tail(data) /\ UNCHANGED status
     \/ \E i \in DOMAIN status : status' = RemoveAt(status, i) /\ UNCHANGED data
  /\ UNCHANGED <<tx, rx, lengths, submitted, acked>>

Patient(step) == step /\ \A sn \in DOMAIN tx_window' : tx_window'[sn].retx_count <= Patience
Grant == \E room \in UNION {1..n : n \in Range(lengths)} : PullPdu(room)

Next ==
  \/ HandleSdu \/ \E i \in DOMAIN queue : DiscardSdu(i)
  \/ Grant \/ Patient(PollExpires) \/ Patient(StatusArrives)
  \/ Arrives \/ ReassemblyExpires \/ TakeStatus \/ SendStatus \/ ProhibitExpires
  \/ Lost

\* The scheduler keeps giving grants, timers that run expire, and what is
\* sent again and again gets through now and then.
Fairness ==
  /\ WF_vars(Grant) /\ WF_vars(Patient(PollExpires))
  /\ WF_vars(ReassemblyExpires) /\ WF_vars(TakeStatus) /\ WF_vars(SendStatus) /\ WF_vars(ProhibitExpires)
  /\ SF_vars(Patient(StatusArrives)) /\ SF_vars(Arrives)

Spec == Init /\ [][Next]_vars /\ Fairness

-----------------------------------------------------------------------------
(* Properties *)

\* The variables have their types.
TypeOK ==
  /\ lengths \in Submits /\ queue \in Seq(1..Len(lengths)) /\ {tx_next, tx_next_ack, poll_sn} \subseteq 0..(Mod - 1)
  /\ DOMAIN tx_window \subseteq 0..(Mod - 1)
  /\ \A i \in DOMAIN retx_queue :
       retx_queue[i] \in [sn : 0..(Mod - 1), so : Nat, length : Nat \ {0}]
  /\ {sn_under_segmentation, retx_sn} \subseteq 0..Mod
  /\ {rx_next, rx_next_highest, rx_highest_status, rx_next_status_trigger} \subseteq 0..(Mod - 1)
  /\ DOMAIN rx_window \subseteq 0..(Mod - 1)
  /\ {poll_timer, poll_expired, max_retx, told} \subseteq BOOLEAN
  /\ {reassembly, do_status, prohibit, pulling, fresh} \subseteq BOOLEAN
  /\ submitted \in 0..Len(lengths)

\* The transmitting window holds exactly the SNs from TX_NEXT_ACK on that were
\* handed out, the one under segmentation included: handle_status_pdu and
\* build_continued_sdu_segment index it without a check.
TxWindowIsContiguous ==
  DOMAIN tx_window =
    {sn \in 0..(Mod - 1) : TxBase(sn) < TxBase(tx_next)} \cup ({sn_under_segmentation} \ {NoSn})

\* What is to be sent again is a part of an SDU that is kept, and never bytes
\* that have not been sent a first time.
RetxIsSent ==
  \A i \in DOMAIN retx_queue :
    LET r == retx_queue[i] IN
    r.sn \in DOMAIN tx_window =>
      /\ r.length > 0
      /\ r.so + r.length <= IF r.sn = sn_under_segmentation THEN tx_window[r.sn].next_so ELSE Length(r.sn)

\* The transmitting entity looks nothing up that it does not keep.
TransmitterIsSound == TypeOK /\ TxWindowIsContiguous /\ RetxIsSent

\* Sequence numbers are reused, and still no SDU is put together twice or made
\* of the bytes of two.
DeliveredOnce ==
  /\ \A i \in DOMAIN assembled : Cardinality(assembled[i]) = 1
  /\ \A i, j \in DOMAIN assembled : assembled[i] = assembled[j] => i = j

\* An SDU that the transmitter lets go as acknowledged has been delivered, unless
\* the receiver had it whole, found no buffer for it and counted it as lost.
Delivered == {d \in 1..Len(lengths) : {d} \in Range(assembled)} \ dropped
AckedIsDelivered == acked \subseteq Delivered \cup dropped

\* The two ends stay within a window of each other, whatever is lost: the
\* receiver is never behind what was acknowledged nor ahead of what was sent.
WindowsOverlap ==
  /\ TxBase(rx_next) <= TxBase(tx_next)
  /\ RxBase(rx_highest_status) <= RxBase(rx_next_highest)
  /\ RxBase(rx_next_highest) <= Window

\* What the two entities make of a lossy radio: SDUs arrive once and whole,
\* what is acknowledged has arrived, and the windows do not drift apart.
TransferIsReliable == DeliveredOnce /\ AckedIsDelivered /\ WindowsOverlap

\* While t-Reassembly runs, the SDU before RX_Next_Status_Trigger is in the
\* window: handle_data_pdu looks it up without a check.
TriggerWasReceived ==
  reassembly => Plus(rx_next_status_trigger, Mod - 1) \in DOMAIN rx_window

\* The expiry handler asserts that RX_Highest_Status stays within the window:
\* t-Reassembly never expires with a trigger that the window has passed.
ExpiryIsInWindow ==
  reassembly =>
    (FirstMissing(rx_window, rx_next_status_trigger, rx_next_highest) - rx_next) % Mod \in 1..Window

\* A gap in what was received is either known to the report or timed.
GapIsWatched ==
  \/ RxBase(rx_next_highest) = 0
  \/ RxBase(rx_next_highest) = 1 /\ ~HasGap(rx_window, rx_next)
  \/ reassembly \/ rx_highest_status # rx_next

\* The receiving entity watches every gap, with a timer whose expiry finds the
\* window as its assertions expect it.
ReceiverIsSound == TriggerWasReceived /\ ExpiryIsInWindow /\ GapIsWatched

\* An SDU that was accepted is acknowledged, or the upper layer is told that it
\* cannot be, or takes it back: t-PollRetransmit sees to it, whose expiry is to
\* "include a poll in an AMD PDU" (rlc_tx_am_entity.cpp:1207).
InTransmitter == Range(queue) \cup {tx_window[sn].sdu : sn \in DOMAIN tx_window}

MaxSdus == Max({Len(l) : l \in Submits})

EverySduIsSettled ==
  \A d \in 1..MaxSdus : d \in InTransmitter ~> (d \notin InTransmitter \/ told)
=============================================================================
