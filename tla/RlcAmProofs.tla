----------------------------- MODULE RlcAmProofs -----------------------------
(***************************************************************************)
(* Theorems about RlcAm, for every number of sequence numbers, every length *)
(* and segmentation of the SDUs, every limit and however many PDUs are on   *)
(* the radio.  Sequence numbers are reused, so the invariant speaks of the  *)
(* numbers they stand for: SDU number k is the one that got the k-th SN.    *)
(***************************************************************************)
EXTENDS RlcAm, FiniteSetTheorems, SequenceTheorems, WellFoundedInduction, TLAPS

\* The SN of number k.
Sn(k) == k % Mod

-----------------------------------------------------------------------------
(* Arithmetic and the operators *)

LEMMA Sizes ==
  /\ Mod \in Nat \ {0} /\ Window \in Nat \ {0, 1} /\ Mod = 2 * Window /\ MaxWindow \in Nat
  /\ QueueSize \in Nat \ {0} /\ InFlight \in Nat \ {0} /\ NoSn = Mod
BY SizesAssumption DEF NoSn

LEMMA DivMod ==
  ASSUME NEW a \in Int, NEW s \in Nat \ {0}
  PROVE  a \div s \in Int /\ a % s \in 0..(s - 1) /\ a = (a \div s) * s + (a % s)
OBVIOUS

LEMMA Remainder ==
  ASSUME NEW a \in Int, NEW s \in Nat \ {0}, NEW q \in Int, NEW r \in 0..(s - 1), a = q * s + r
  PROVE  a % s = r
<1> DEFINE d == a \div s
           m == a % s
<1>1. d \in Int /\ m \in 0..(s - 1) /\ a = d * s + m
  BY DivMod
<1> HIDE DEF d, m
<1>2. ASSUME d >= q + 1
      PROVE  FALSE
  <2>1. d * s >= (q + 1) * s
    BY <1>1, <1>2
  <2>2. (q + 1) * s = q * s + s
    OBVIOUS
  <2> QED
    BY <1>1, <2>1, <2>2
<1>3. ASSUME d <= q - 1
      PROVE  FALSE
  <2>1. d * s <= (q - 1) * s
    BY <1>1, <1>3
  <2>2. (q - 1) * s = q * s - s
    OBVIOUS
  <2> QED
    BY <1>1, <2>1, <2>2
<1>4. d = q
  BY <1>1, <1>2, <1>3
<1>5. m = r
  BY <1>1, <1>4
<1> QED
  BY <1>5 DEF m

LEMMA SnType ==
  ASSUME NEW k \in Int
  PROVE  Sn(k) \in 0..(Mod - 1) /\ Sn(k) \in Nat /\ Sn(k) # NoSn
BY Sizes, DivMod DEF Sn

LEMMA SnRest ==
  ASSUME NEW k \in Int
  PROVE  \E d \in Int : k = d * Mod + Sn(k)
<1>1. Mod \in Nat \ {0}
  BY Sizes
<1>2. k \div Mod \in Int /\ k = (k \div Mod) * Mod + (k % Mod)
  BY <1>1, DivMod
<1> QED
  BY <1>2 DEF Sn

LEMMA SnIs ==
  ASSUME NEW k \in Int, NEW d \in Int, NEW r \in 0..(Mod - 1), k = d * Mod + r
  PROVE  Sn(k) = r
BY Sizes, Remainder DEF Sn

\* How far apart two sequence numbers are tells how far apart the numbers
\* are that they stand for.
LEMMA Apart ==
  ASSUME NEW a \in Int, NEW b \in Int, NEW q \in Int, NEW r \in 0..(Mod - 1), a - b = q * Mod + r
  PROVE  (Sn(a) - Sn(b)) % Mod = r
<1>1. PICK da \in Int : a = da * Mod + Sn(a)
  BY SnRest
<1>2. PICK db \in Int : b = db * Mod + Sn(b)
  BY SnRest
<1>3. Sn(a) \in Int /\ Sn(b) \in Int /\ Mod \in Int
  BY SnType, Sizes
<1>4. Sn(a) - Sn(b) = (q - da + db) * Mod + r
  <2>1. (q - da + db) * Mod = q * Mod - da * Mod + db * Mod
    BY <1>3
  <2>2. q * Mod \in Int /\ da * Mod \in Int /\ db * Mod \in Int
    BY <1>3
  <2> QED
    BY <1>1, <1>2, <1>3, <2>1, <2>2
<1>5. Sn(a) - Sn(b) \in Int /\ q - da + db \in Int
  BY <1>3
<1> QED
  BY <1>4, <1>5, Sizes, Remainder

LEMMA Ahead ==
  ASSUME NEW a \in Int, NEW b \in Int, b <= a, a < b + Mod
  PROVE  (Sn(a) - Sn(b)) % Mod = a - b
<1>1. a - b = 0 * Mod + (a - b) /\ a - b \in 0..(Mod - 1)
  BY Sizes
<1> QED
  BY <1>1, Apart

LEMMA Behind ==
  ASSUME NEW a \in Int, NEW b \in Int, b - Mod <= a, a < b
  PROVE  (Sn(a) - Sn(b)) % Mod = a - b + Mod
<1>1. a - b = (-1) * Mod + (a - b + Mod) /\ a - b + Mod \in 0..(Mod - 1) /\ -1 \in Int
  BY Sizes
<1> QED
  BY <1>1, Apart

LEMMA SnInjective ==
  ASSUME NEW a \in Int, NEW b \in Int, a - b < Mod, b - a < Mod, Sn(a) = Sn(b)
  PROVE  a = b
<1>1. CASE b <= a
  <2>1. (Sn(a) - Sn(b)) % Mod = a - b
    BY <1>1, Ahead, Sizes
  <2>2. (Sn(b) - Sn(b)) % Mod = b - b
    BY Ahead, Sizes
  <2> QED
    BY <2>1, <2>2
<1>2. CASE a < b
  <2>1. (Sn(b) - Sn(a)) % Mod = b - a
    BY <1>2, Ahead, Sizes
  <2>2. (Sn(b) - Sn(b)) % Mod = b - b
    BY Ahead, Sizes
  <2> QED
    BY <2>1, <2>2
<1> QED
  BY <1>1, <1>2

LEMMA PlusSn ==
  ASSUME NEW k \in Int, NEW n \in Int
  PROVE  Plus(Sn(k), n) = Sn(k + n)
<1>1. PICK d \in Int : k = d * Mod + Sn(k)
  BY SnRest
<1>2. PICK e \in Int : k + n = e * Mod + Sn(k + n)
  BY SnRest
<1>3. Sn(k) \in Int /\ Sn(k + n) \in 0..(Mod - 1) /\ Mod \in Int
  BY SnType, Sizes
<1>4. Sn(k) + n = (e - d) * Mod + Sn(k + n)
  <2>1. (e - d) * Mod = e * Mod - d * Mod /\ e * Mod \in Int /\ d * Mod \in Int
    BY <1>3
  <2> QED
    BY <1>1, <1>2, <1>3, <2>1
<1>5. Sn(k) + n \in Int /\ e - d \in Int
  BY <1>3
<1> QED
  BY <1>3, <1>4, <1>5, Sizes, Remainder DEF Plus

LEMMA SnBefore ==
  ASSUME NEW k \in Int
  PROVE  Plus(Sn(k), Mod - 1) = Sn(k - 1)
<1>1. Plus(Sn(k), Mod - 1) = Sn(k + (Mod - 1))
  BY PlusSn, Sizes
<1>2. PICK d \in Int : k - 1 = d * Mod + Sn(k - 1)
  BY SnRest
<1>3. Sn(k - 1) \in 0..(Mod - 1) /\ Mod \in Int
  BY SnType, Sizes
<1>4. k + (Mod - 1) = (d + 1) * Mod + Sn(k - 1)
  <2>1. (d + 1) * Mod = d * Mod + Mod /\ d * Mod \in Int
    BY <1>3
  <2> QED
    BY <1>2, <1>3, <2>1
<1>5. k + (Mod - 1) \in Int /\ d + 1 \in Int
  BY <1>3
<1>6. Sn(k + (Mod - 1)) = Sn(k - 1)
  BY <1>3, <1>4, <1>5, SnIs
<1> QED
  BY <1>1, <1>6

LEMMA MaxOfTwo ==
  ASSUME NEW a \in Int, NEW b \in Int
  PROVE  Max({a, b}) = IF a >= b THEN a ELSE b
BY DEF Max

LEMMA MinOfTwo ==
  ASSUME NEW a \in Int, NEW b \in Int
  PROVE  Min({a, b}) = IF a <= b THEN a ELSE b
BY DEF Min

\* A set of natural numbers that is not empty has a smallest element, and a
\* largest one if it is bounded.
LEMMA MinIsSmallest ==
  ASSUME NEW T, T \subseteq Nat, T # {}
  PROVE  Min(T) \in T /\ \A y \in T : Min(T) <= y
<1>1. PICK x \in T : \A y \in T : ~(<<y, x>> \in OpToRel(<, Nat))
  BY NatLessThanWellFounded, WFMin
<1>2. ASSUME NEW y \in T
      PROVE  x <= y
  <2>1. ~(<<y, x>> \in OpToRel(<, Nat))
    BY <1>1
  <2>2. x \in Nat /\ y \in Nat
    OBVIOUS
  <2>3. ~(y < x)
    BY <2>1, <2>2 DEF OpToRel
  <2> QED
    BY <2>2, <2>3
<1> QED
  BY <1>2 DEF Min

LEMMA MaxIsLargest ==
  ASSUME NEW T, T \subseteq Nat, T # {}, NEW n \in Nat, \A y \in T : y <= n
  PROVE  Max(T) \in T /\ \A y \in T : y <= Max(T)
<1> DEFINE below == {n - y : y \in T}
<1>1. below \subseteq Nat /\ below # {}
  <2>1. ASSUME NEW y \in T
        PROVE  n - y \in Nat
    <3>1. y \in Nat /\ y <= n
      OBVIOUS
    <3> QED
      BY <3>1
  <2>2. \E y : y \in T
    OBVIOUS
  <2> QED
    BY <2>1, <2>2
<1>2. PICK x \in below : \A y \in below : x <= y
  BY <1>1, MinIsSmallest
<1>3. PICK z \in T : x = n - z
  BY <1>2
<1>4. \A y \in T : y <= z
  BY <1>2, <1>3
<1> QED
  BY <1>4 DEF Max

LEMMA RemovedAt ==
  ASSUME NEW S, NEW q \in Seq(S), NEW i \in 1..Len(q)
  PROVE  /\ RemoveAt(q, i) \in Seq(S) /\ Len(RemoveAt(q, i)) = Len(q) - 1
         /\ \A j \in 1..(Len(q) - 1) : RemoveAt(q, i)[j] = IF j < i THEN q[j] ELSE q[j + 1]
<1> DEFINE a == SubSeq(q, 1, i - 1)
           b == SubSeq(q, i + 1, Len(q))
<1>1. a \in Seq(S) /\ Len(a) = i - 1 /\ \A j \in 1..(i - 1) : a[j] = q[j]
  OBVIOUS
<1>2. b \in Seq(S) /\ Len(b) = Len(q) - i /\ \A j \in 1..(Len(q) - i) : b[j] = q[j + i]
  OBVIOUS
<1>3. RemoveAt(q, i) = a \o b
  BY DEF RemoveAt
<1> HIDE DEF a, b
<1>4. a \o b \in Seq(S) /\ Len(a \o b) = Len(q) - 1
  <2>1. a \o b \in Seq(S)
    BY <1>1, <1>2
  <2>2. Len(a \o b) = Len(a) + Len(b)
    BY <1>1, <1>2, ConcatProperties
  <2> QED
    BY <1>1, <1>2, <2>1, <2>2
<1>5. ASSUME NEW j \in 1..(Len(q) - 1)
      PROVE  (a \o b)[j] = IF j < i THEN q[j] ELSE q[j + 1]
  <2>1. CASE j < i
    BY <1>1, <1>2, <2>1
  <2>2. CASE ~(j < i)
    <3>1. (a \o b)[j] = b[j - (i - 1)] /\ j - (i - 1) \in 1..(Len(q) - i)
      BY <1>1, <1>2, <2>2
    <3> QED
      BY <1>2, <2>2, <3>1
  <2> QED
    BY <2>1, <2>2
<1> QED
  BY <1>3, <1>4, <1>5

\* Fewer than Mod numbers in a row have as many sequence numbers.
LEMMA SnsInARow ==
  ASSUME NEW from \in Int, NEW to \in Int, from <= to, to <= from + Mod
  PROVE  /\ IsFiniteSet({Sn(k) : k \in from..(to - 1)})
         /\ Cardinality({Sn(k) : k \in from..(to - 1)}) = to - from
<1> DEFINE ks  == from..(to - 1)
           sns == {Sn(k) : k \in ks}
           f   == [k \in ks |-> Sn(k)]
<1>1. IsFiniteSet(ks) /\ Cardinality(ks) = to - from
  <2>1. to - 1 \in Int /\ (IF from > to - 1 THEN 0 ELSE (to - 1) - from + 1) = to - from
    OBVIOUS
  <2>2. /\ IsFiniteSet(from..(to - 1))
        /\ Cardinality(from..(to - 1)) = IF from > to - 1 THEN 0 ELSE (to - 1) - from + 1
    BY <2>1, FS_Interval
  <2> QED
    BY <2>1, <2>2
<1>2. f \in Bijection(ks, sns)
  <2>1. \A a, b \in ks : f[a] = f[b] => a = b
    BY SnInjective, Sizes
  <2>2. \A s \in sns : \E a \in ks : f[a] = s
    OBVIOUS
  <2>3. f \in [ks -> sns]
    OBVIOUS
  <2> QED
    BY <2>1, <2>2, <2>3 DEF Bijection, Injection, Surjection, IsInjective
<1>3. ExistsBijection(ks, sns)
  BY <1>2 DEF ExistsBijection
<1> HIDE DEF ks, sns
<1>4. IsFiniteSet(sns) /\ Cardinality(sns) = Cardinality(ks)
  BY <1>1, <1>3, FS_Bijection
<1> QED
  BY <1>1, <1>4 DEF sns, ks

\* The first number that is not complete.
LEMMA FirstMissingFound ==
  ASSUME NEW window, NEW from \in Nat, NEW to \in Nat, from <= to, to < from + Mod
  PROVE  \E g \in from..to :
           /\ FirstMissing(window, Sn(from), Sn(to)) = Sn(g)
           /\ \A k \in from..(g - 1) : FullIn(window, Sn(k))
           /\ g < to => ~FullIn(window, Sn(g))
<1> DEFINE n     == to - from
           holes == {k \in 0..(n - 1) : ~FullIn(window, Plus(Sn(from), k))} \cup {n}
           m     == Min(holes)
<1>1. (Sn(to) - Sn(from)) % Mod = n
  BY Ahead
<1>2. FirstMissing(window, Sn(from), Sn(to)) = Plus(Sn(from), m)
  BY <1>1 DEF FirstMissing
<1>3. m \in holes /\ \A y \in holes : m <= y
  <2>1. holes \subseteq Nat /\ holes # {}
    OBVIOUS
  <2> HIDE DEF holes
  <2> QED
    BY <2>1, MinIsSmallest
<1>4. m \in 0..n
  BY <1>3
<1> HIDE DEF m
<1>5. Plus(Sn(from), m) = Sn(from + m)
  BY <1>4, PlusSn
<1> DEFINE g == from + m
<1>6. ASSUME NEW k \in from..(g - 1)
      PROVE  FullIn(window, Sn(k))
  <2>1. k - from \in 0..(n - 1) /\ k - from < m
    BY <1>4, <1>6
  <2>2. Plus(Sn(from), k - from) = Sn(from + (k - from)) /\ from + (k - from) = k
    BY <2>1, PlusSn
  <2>3. k - from \notin holes
    BY <1>3, <1>4, <2>1
  <2> QED
    BY <2>1, <2>2, <2>3
<1>7. ASSUME g < to
      PROVE  ~FullIn(window, Sn(g))
  BY <1>3, <1>4, <1>5, <1>7
<1>8. g \in from..to
  BY <1>4
<1>9. FirstMissing(window, Sn(from), Sn(to)) = Sn(g)
  BY <1>2, <1>5
<1>10. \A k \in from..(g - 1) : FullIn(window, Sn(k))
  BY <1>6
<1>11. g < to => ~FullIn(window, Sn(g))
  BY <1>7
<1> HIDE DEF g
<1> QED
  BY <1>8, <1>9, <1>10, <1>11

-----------------------------------------------------------------------------
(* The inductive invariant *)

\* Which SDU has number k.
Sdu(k) == sent[k + 1]

Begun   == Len(sent)
Segmenting == sn_under_segmentation # NoSn
\* The number that TX_NEXT stands for.
Unsent  == IF Segmenting THEN Begun - 1 ELSE Begun

\* The length of number k, and how much of it has gone out a first time.
Size(k) == lengths[Sdu(k)]
Gone(k) == IF Segmenting /\ k = Begun - 1 THEN tx_window[Sn(k)].next_so ELSE Size(k)

\* SDUs get SNs in the order in which they were submitted.
Rising(q) == \A i, j \in DOMAIN q : i < j => q[i] < q[j]
SdusInOrder ==
  /\ lengths \in Submits /\ submitted \in 0..Len(lengths)
  /\ sent \in Seq(1..submitted) /\ queue \in Seq(1..submitted)
  /\ Rising(sent) /\ Rising(queue)
  /\ \A i \in DOMAIN sent, j \in DOMAIN queue : sent[i] < queue[j]

\* The window of the transmitter: numbers ack, ..., Begun - 1.
TxSlot(k) ==
  /\ tx_window[Sn(k)] \in [sdu : Nat, next_so : Nat, retx_count : Int]
  /\ tx_window[Sn(k)].sdu = Sdu(k)
TxWindow(ack) ==
  /\ ack <= Unsent /\ Begun <= ack + Window
  /\ tx_next_ack = Sn(ack) /\ tx_next = Sn(Unsent)
  /\ DOMAIN tx_window = {Sn(k) : k \in ack..(Begun - 1)}
  /\ \A k \in ack..(Begun - 1) : TxSlot(k)
  /\ Segmenting =>
       /\ sn_under_segmentation = Sn(Begun - 1)
       /\ tx_window[Sn(Begun - 1)].next_so \in 1..(Size(Begun - 1) - 1)
Scalars ==
  /\ poll_timer \in BOOLEAN /\ poll_expired \in BOOLEAN /\ max_retx \in BOOLEAN /\ told \in BOOLEAN
  /\ reassembly \in BOOLEAN /\ do_status \in BOOLEAN /\ prohibit \in BOOLEAN
  /\ pulling \in BOOLEAN /\ fresh \in BOOLEAN
  /\ poll_sn \in 0..(Mod - 1) /\ retx_sn \in 0..Mod

\* What is to be sent again is a part of what has gone out.
Resendables(ack) ==
  {r \in [sn : 0..(Mod - 1), so : Nat, length : Nat \ {0}] :
     \E k \in ack..(Begun - 1) : r.sn = Sn(k) /\ r.so + r.length <= Gone(k)}
RetxQueue(ack) == retx_queue \in Seq(Resendables(ack))

\* The window of the receiver: of the numbers next, ..., highest - 1 those of
\* which something was received.
Holds(slot, k) ==
  /\ slot \in [got : SUBSET Nat, last : BOOLEAN, of : {{Sdu(k)}}]
  /\ slot.got # {} /\ \A b \in slot.got : b < Gone(k)
  /\ slot.last <=> (Size(k) - 1) \in slot.got
RxSlot(k) == Holds(rx_window[Sn(k)], k)
Full(k) == FullIn(rx_window, Sn(k))
RxWindow(next, missing, highest) ==
  /\ next <= missing /\ missing <= highest /\ next <= Unsent /\ highest <= Begun
  /\ rx_next = Sn(next) /\ rx_highest_status = Sn(missing) /\ rx_next_highest = Sn(highest)
  /\ rx_next_status_trigger \in 0..(Mod - 1)
  /\ DOMAIN rx_window \subseteq {Sn(k) : k \in next..(highest - 1)}
  /\ \A k \in next..(highest - 1) : Sn(k) \in DOMAIN rx_window => RxSlot(k)
  /\ next < highest => Sn(highest - 1) \in DOMAIN rx_window
  /\ next < highest => ~Full(next)
  /\ missing < highest => ~Full(missing)

\* t-Reassembly runs for a number of which something was received.
Trigger(next, highest) ==
  reassembly => \E g \in (next + 1)..highest :
                  rx_next_status_trigger = Sn(g) /\ Sn(g - 1) \in DOMAIN rx_window

\* A PDU on the radio is a part of number k, and k is not so far behind that
\* the receiver takes its SN for another number.
Carries(m, k) ==
  /\ m.sn = Sn(k) /\ m.sdu = Sdu(k)
  /\ m.so + m.len <= Gone(k) /\ m.last = (m.so + m.len = Size(k))
Pdus == [sn : 0..(Mod - 1), so : Nat, len : Nat \ {0}, p : BOOLEAN, late : BOOLEAN,
         last : BOOLEAN, sdu : Nat]
\* no[i] is the number of the i-th PDU on the radio.  A PDU is overtaken at
\* most once, and then by one that is less than a window away.
OnAir(no, highest) ==
  /\ data \in Seq(Pdus)
  /\ \A i \in DOMAIN data : Carries(data[i], no[i]) /\ highest <= no[i] + Window
  /\ \A i \in DOMAIN data : data[i].late => i = 1
  /\ \A i, j \in DOMAIN data : i < j => no[i] + 1 <= no[j] + Window
  /\ \A i, j \in DOMAIN data : j = i + 1 /\ ~data[i].late => no[j] <= no[i] + Window
  /\ \A i \in DOMAIN data : i = Len(data) /\ ~data[i].late => Begun <= no[i] + Window
Radio(highest) == \E no \in [DOMAIN data -> 0..(Begun - 1)] : OnAir(no, highest)

\* A report acknowledges the numbers below the first it misses.
Misses(nack, k) ==
  /\ nack.sn = Sn(k) /\ nack.so \in Nat /\ nack.end \in Nat
  /\ nack.has_so => nack.so < Size(k) /\ (nack.end # OpenEnd => nack.so <= nack.end /\ nack.end < Gone(k))
  /\ ~nack.has_so => nack.so = 0 /\ k < Unsent
Nacks == [sn : 0..(Mod - 1), has_so : BOOLEAN, so : Nat, end : Nat]
Says(s, first, to) ==
  /\ s.ack = Sn(to)
  /\ s.nacks \subseteq Nacks /\ IsFiniteSet(s.nacks)
  /\ \A nack \in s.nacks : \E k \in first..(to - 1) : Misses(nack, k)
  /\ first < to => \E nack \in s.nacks : nack.sn = Sn(first)
\* A report was true when it was made, with first for RX_NEXT then: the numbers
\* that were acknowledged by then are below it.  The one that never was made says
\* nothing of any number.
ReportRecs == [ack : 0..(Mod - 1), nacks : SUBSET Nacks, at : Int]
TrueFrom(s, first, to, next, highest) ==
  /\ -1 <= first /\ first <= next /\ first <= to /\ to <= highest /\ to <= first + Window
  /\ s.at <= first /\ (first < to => 0 <= first) /\ Says(s, first, to)
Truthful(s, next, highest) ==
  s \in ReportRecs /\ \E first, to \in Int : TrueFrom(s, first, to, next, highest)
Reports(next, highest) ==
  /\ status \in Seq(ReportRecs)
  /\ \A i \in DOMAIN status : Truthful(status[i], next, highest)
  /\ Truthful(taken, next, highest) /\ Truthful(spare, next, highest)

\* What was put together: the numbers below RX_NEXT and the complete ones.
Complete(k, next, highest) == k < next \/ (k < highest /\ Full(k))
Deliveries(next, highest) ==
  /\ assembled \in Seq(SUBSET Nat)
  /\ \A i \in DOMAIN assembled :
       \E k \in 0..(highest - 1) : Complete(k, next, highest) /\ assembled[i] = {Sdu(k)}
  /\ \A k \in 0..(highest - 1) :
       Complete(k, next, highest) => \E i \in DOMAIN assembled : assembled[i] = {Sdu(k)}
  /\ \A i, j \in DOMAIN assembled : assembled[i] = assembled[j] => i = j
History(ack, next, highest) ==
  acked = {Sdu(k) : k \in 0..(ack - 1)} /\ Deliveries(next, highest)

Numbered(ack, next, missing, highest) ==
  /\ SdusInOrder /\ Scalars
  /\ ack <= next
  /\ TxWindow(ack) /\ RetxQueue(ack)
  /\ RxWindow(next, missing, highest) /\ Trigger(next, highest) /\ GapIsWatched
  /\ Radio(highest) /\ Reports(next, highest)
  /\ History(ack, next, highest)

IInv == \E ack, next, missing, highest \in Nat : Numbered(ack, next, missing, highest)

-----------------------------------------------------------------------------
(* What the invariant says of the numbers *)

LEMMA Order ==
  ASSUME NEW ack \in Nat, NEW next \in Nat, NEW missing \in Nat, NEW highest \in Nat,
         Numbered(ack, next, missing, highest)
  PROVE  /\ Begun \in Nat /\ Unsent \in Nat /\ Unsent <= Begun /\ Begun <= Unsent + 1
         /\ ack <= next /\ next <= missing /\ missing <= highest /\ highest <= Begun
         /\ next <= Unsent /\ Begun <= ack + Window
<1>1. Begun \in Nat
  BY DEF Begun, Numbered, SdusInOrder
<1>2. ack <= Unsent /\ Begun <= ack + Window /\ ack <= next
  BY DEF Numbered, TxWindow
<1>3. next <= missing /\ missing <= highest /\ highest <= Begun /\ next <= Unsent
  BY DEF Numbered, RxWindow
<1>4. CASE Segmenting
  <2>1. Unsent = Begun - 1
    BY <1>4 DEF Unsent
  <2> QED
    BY <1>1, <1>2, <1>3, <2>1
<1>5. CASE ~Segmenting
  <2>1. Unsent = Begun
    BY <1>5 DEF Unsent
  <2> QED
    BY <1>1, <1>2, <1>3, <2>1
<1> QED
  BY <1>4, <1>5

LEMMA SduFacts ==
  ASSUME SdusInOrder
  PROVE  /\ lengths \in Seq(Nat \ {0}) /\ Begun \in Nat
         /\ \A k \in 0..(Begun - 1) : Sdu(k) \in 1..Len(lengths) /\ Size(k) \in Nat \ {0}
         /\ \A k, l \in 0..(Begun - 1) : Sdu(k) = Sdu(l) => k = l
<1>1. lengths \in Seq(Nat \ {0}) /\ Begun \in Nat /\ submitted \in 0..Len(lengths)
  BY SizesAssumption DEF SdusInOrder, Begun
<1>2. ASSUME NEW k \in 0..(Begun - 1)
      PROVE  Sdu(k) \in 1..Len(lengths) /\ Size(k) \in Nat \ {0}
  <2>1. k + 1 \in 1..Len(sent) /\ sent \in Seq(1..submitted)
    BY <1>1 DEF Begun, SdusInOrder
  <2>2. sent[k + 1] \in 1..submitted
    BY <2>1, ElementOfSeq
  <2>3. sent[k + 1] \in 1..Len(lengths)
    BY <1>1, <2>2
  <2> QED
    BY <1>1, <2>3 DEF Sdu, Size
<1>3. ASSUME NEW k \in 0..(Begun - 1), NEW l \in 0..(Begun - 1), Sdu(k) = Sdu(l)
      PROVE  k = l
  <2>1. k + 1 \in DOMAIN sent /\ l + 1 \in DOMAIN sent /\ Rising(sent)
    BY <1>1 DEF Begun, SdusInOrder
  <2>2. Sdu(k) \in 1..Len(lengths)
    BY <1>2
  <2>3. sent[k + 1] = sent[l + 1] /\ sent[k + 1] \in Int
    BY <1>3, <2>2 DEF Sdu
  <2>4. ~(k + 1 < l + 1) /\ ~(l + 1 < k + 1)
    BY <2>1, <2>3 DEF Rising
  <2> QED
    BY <2>4
<1> QED
  BY <1>1, <1>2, <1>3

LEMMA GoneFacts ==
  ASSUME NEW ack \in Nat, SdusInOrder, TxWindow(ack), NEW k \in 0..(Begun - 1)
  PROVE  Gone(k) \in Nat \ {0} /\ Gone(k) <= Size(k) /\ (k < Unsent => Gone(k) = Size(k))
         /\ (k >= Unsent => Gone(k) < Size(k))
<1>1. Size(k) \in Nat \ {0} /\ Begun \in Nat
  BY SduFacts
<1>2. CASE Segmenting /\ k = Begun - 1
  BY <1>1, <1>2 DEF TxWindow, Gone, Unsent
<1>3. CASE Segmenting /\ k # Begun - 1
  BY <1>1, <1>3 DEF Gone, Unsent
<1>4. CASE ~Segmenting
  BY <1>1, <1>4 DEF Gone, Unsent
<1> QED
  BY <1>2, <1>3, <1>4

\* What TxBase and RxBase say of the numbers around the two windows.
LEMMA TxBaseIs ==
  ASSUME NEW ack \in Nat, tx_next_ack = Sn(ack), NEW k \in ack..(ack + Mod - 1)
  PROVE  TxBase(Sn(k)) = k - ack
BY Sizes, Ahead DEF TxBase

LEMMA RxBaseIs ==
  ASSUME NEW next \in Nat, rx_next = Sn(next), NEW k \in Int, next - Mod <= k, k < next + Mod
  PROVE  RxBase(Sn(k)) = IF k >= next THEN k - next ELSE k - next + Mod
BY Sizes, Ahead, Behind DEF RxBase

-----------------------------------------------------------------------------
(* What stays true while more goes out *)

\* The numbers keep their SDUs, and nothing is taken back of what has gone out.
Grows ==
  /\ lengths' = lengths
  /\ Begun' \in Nat /\ Begun <= Begun' /\ Unsent' \in Int /\ Unsent <= Unsent'
  /\ \A k \in 0..(Begun - 1) : Sdu(k)' = Sdu(k) /\ Gone(k)' \in Int /\ Gone(k) <= Gone(k)'

LEMMA ReceiverKept ==
  ASSUME NEW ack \in Nat, NEW next \in Nat, NEW missing \in Nat, NEW highest \in Nat,
         Numbered(ack, next, missing, highest), Grows, UNCHANGED <<rxst, rx_window, reassembly>>
  PROVE  /\ RxWindow(next, missing, highest)' /\ Trigger(next, highest)' /\ GapIsWatched'
         /\ \A k : Full(k)' = Full(k)
<1>1. /\ UNCHANGED <<rx_next, rx_next_highest, rx_highest_status, rx_next_status_trigger>>
      /\ UNCHANGED <<rx_window, reassembly>>
  BY DEF rxst
<1>2. /\ highest <= Begun /\ next <= Unsent /\ Begun \in Nat /\ Unsent \in Nat
  BY Order
<1>3. highest <= Begun' /\ next <= Unsent'
  BY <1>2 DEF Grows
<1>4. \A k : Full(k)' = Full(k)
  BY <1>1 DEF Full, FullIn, HasGap
<1>5. ASSUME NEW k \in next..(highest - 1), Sn(k) \in DOMAIN rx_window
      PROVE  RxSlot(k)'
  <2>1. k \in 0..(Begun - 1)
    BY <1>2
  <2>2. Sdu(k)' = Sdu(k) /\ Gone(k)' \in Int /\ Gone(k) <= Gone(k)' /\ Size(k)' = Size(k)
    BY <2>1 DEF Grows, Size
  <2>3. RxSlot(k) /\ Gone(k) \in Nat
    BY <1>5, <2>1, GoneFacts DEF Numbered, RxWindow
  <2>4. \A b \in rx_window[Sn(k)].got : b < Gone(k)' /\ b \in Nat
    BY <2>2, <2>3 DEF RxSlot, Holds
  <2> QED
    BY <1>1, <2>2, <2>3, <2>4 DEF RxSlot, Holds
<1>6. RxWindow(next, missing, highest)'
  BY <1>1, <1>3, <1>4, <1>5 DEF Numbered, RxWindow
<1>7. Trigger(next, highest)'
  BY <1>1 DEF Numbered, Trigger
<1>8. GapIsWatched'
  BY <1>1 DEF Numbered, GapIsWatched, RxBase, HasGap
<1> QED
  BY <1>4, <1>6, <1>7, <1>8

\* What a report said stays true, also while the receiver gets on.
LEMMA TruthKept ==
  ASSUME NEW ack \in Nat, NEW next \in Nat, NEW missing \in Nat, NEW highest \in Nat,
         Numbered(ack, next, missing, highest), Grows,
         NEW further \in Nat, NEW higher \in Nat, next <= further, highest <= higher,
         NEW s, Truthful(s, next, highest)
  PROVE  Truthful(s, further, higher)'
<1>1. highest <= Begun /\ Begun \in Nat /\ Unsent \in Nat
  BY Order
<1>2. ASSUME NEW nack \in Nacks, NEW k \in 0..(highest - 1), Misses(nack, k)
      PROVE  Misses(nack, k)'
  <2>1. k \in 0..(Begun - 1)
    BY <1>1
  <2>2. Gone(k)' \in Int /\ Gone(k) <= Gone(k)' /\ Size(k)' = Size(k)
    BY <2>1 DEF Grows, Size
  <2>3. Gone(k) \in Nat
    BY <2>1, GoneFacts DEF Numbered
  <2>4. nack.end \in Nat
    BY DEF Nacks
  <2> QED
    BY <1>1, <1>2, <2>2, <2>3, <2>4 DEF Misses, Grows
<1>3. PICK first, to \in Int : TrueFrom(s, first, to, next, highest)
  BY DEF Truthful
<1>4. Says(s, first, to)'
  <2>1. ASSUME NEW nack \in s.nacks
        PROVE  \E k \in first..(to - 1) : Misses(nack, k)'
    <3>1. PICK k \in first..(to - 1) : Misses(nack, k)
      BY <1>3 DEF TrueFrom, Says
    <3>2. nack \in Nacks /\ k \in 0..(highest - 1)
      BY <1>3, <2>1, <3>1 DEF TrueFrom, Says
    <3> QED
      BY <1>2, <3>1, <3>2
  <2> QED
    BY <1>3, <2>1 DEF TrueFrom, Says
<1>5. TrueFrom(s, first, to, further, higher)'
  BY <1>3, <1>4 DEF TrueFrom
<1> QED
  BY <1>5 DEF Truthful

LEMMA ReportsKept ==
  ASSUME NEW ack \in Nat, NEW next \in Nat, NEW missing \in Nat, NEW highest \in Nat,
         Numbered(ack, next, missing, highest), Grows, UNCHANGED <<status, taken, spare>>
  PROVE  Reports(next, highest)'
<1>1. Reports(next, highest)
  BY DEF Numbered
<1>2. \A s : Truthful(s, next, highest) => Truthful(s, next, highest)'
  BY TruthKept
<1> QED
  BY <1>1, <1>2 DEF Reports

LEMMA DeliveriesKept ==
  ASSUME NEW ack \in Nat, NEW next \in Nat, NEW missing \in Nat, NEW highest \in Nat,
         Numbered(ack, next, missing, highest), Grows, UNCHANGED <<rx_window, assembled>>
  PROVE  Deliveries(next, highest)'
<1>1. highest <= Begun /\ Begun \in Nat
  BY Order
<1>2. \A k \in 0..(highest - 1) : Sdu(k)' = Sdu(k)
  BY <1>1 DEF Grows
<1>3. \A k : Complete(k, next, highest)' = Complete(k, next, highest)
  BY DEF Complete, Full, FullIn, HasGap
<1>4. Deliveries(next, highest)
  BY DEF Numbered, History
<1>5. \A i \in DOMAIN assembled' :
        \E k \in 0..(highest - 1) : Complete(k, next, highest)' /\ assembled'[i] = {Sdu(k)'}
  BY <1>2, <1>3, <1>4 DEF Deliveries
<1>6. \A k \in 0..(highest - 1) :
        Complete(k, next, highest)' => \E i \in DOMAIN assembled' : assembled'[i] = {Sdu(k)'}
  BY <1>2, <1>3, <1>4 DEF Deliveries
<1>7. /\ assembled' \in Seq(SUBSET Nat)
      /\ \A i, j \in DOMAIN assembled' : assembled'[i] = assembled'[j] => i = j
  BY <1>4 DEF Deliveries
<1> QED
  BY <1>5, <1>6, <1>7 DEF Deliveries

LEMMA HistoryKept ==
  ASSUME NEW ack \in Nat, NEW next \in Nat, NEW missing \in Nat, NEW highest \in Nat,
         Numbered(ack, next, missing, highest), Grows,
         UNCHANGED <<rx_window, acked, assembled>>
  PROVE  History(ack, next, highest)'
<1>1. ack <= Begun /\ Begun \in Nat
  BY Order
<1>2. \A k \in 0..(ack - 1) : Sdu(k)' = Sdu(k)
  BY <1>1 DEF Grows
<1>3. acked' = {Sdu(k)' : k \in 0..(ack - 1)}
  BY <1>2 DEF Numbered, History
<1>4. Deliveries(next, highest)'
  BY DeliveriesKept
<1> QED
  BY <1>3, <1>4 DEF History

-----------------------------------------------------------------------------
(* The transmitting entity *)

LEMMA PduSent ==
  ASSUME NEW ack \in Nat, NEW next \in Nat, NEW missing \in Nat, NEW highest \in Nat,
         Numbered(ack, next, missing, highest), Grows,
         NEW k \in Nat, ack <= k, k < Begun', Begun' <= ack + Window,
         Begun' = Begun \/ (Begun' = Begun + 1 /\ k = Begun),
         NEW m \in Pdus, m.late = FALSE, Carries(m, k)', data' = Append(data, m)
  PROVE  Radio(highest)'
<1>1. /\ Begun \in Nat /\ Begun' \in Nat /\ highest <= Begun /\ Begun <= ack + Window
  BY Order DEF Grows
<1>2. PICK no \in [DOMAIN data -> 0..(Begun - 1)] : OnAir(no, highest)
  BY DEF Numbered, Radio
<1>3. data \in Seq(Pdus) /\ Len(data) \in Nat /\ DOMAIN data = 1..Len(data)
  BY <1>2 DEF OnAir
<1> PICK n \in Nat : n = Len(data)
  BY <1>3
<1>4. /\ data' \in Seq(Pdus) /\ Len(data') = n + 1 /\ DOMAIN data' = 1..(n + 1)
      /\ data'[n + 1] = m /\ \A i \in 1..n : data'[i] = data[i]
  BY <1>3
<1>5. \A i \in 1..n : no[i] \in 0..(Begun - 1)
  BY <1>3
<1>6. \A i \in 1..(n + 1) : (IF i = n + 1 THEN k ELSE no[i]) \in 0..(Begun' - 1)
  BY <1>1, <1>5
<1> PICK more \in [1..(n + 1) -> 0..(Begun' - 1)] :
      \A i \in 1..(n + 1) : more[i] = IF i = n + 1 THEN k ELSE no[i]
  <2> DEFINE f == [i \in 1..(n + 1) |-> IF i = n + 1 THEN k ELSE no[i]]
  <2>1. f \in [1..(n + 1) -> 0..(Begun' - 1)]
    BY <1>6
  <2>2. \A i \in 1..(n + 1) : f[i] = IF i = n + 1 THEN k ELSE no[i]
    OBVIOUS
  <2> QED
    BY <2>1, <2>2
<1>7. ASSUME NEW i \in 1..(n + 1)
      PROVE  Carries(data[i], more[i])' /\ highest <= more[i] + Window
  <2>1. CASE i = n + 1
    <3>1. more[i] = k /\ data'[i] = m
      BY <1>4, <2>1
    <3>2. highest <= k + Window
      BY <1>1, Sizes
    <3> QED
      BY <3>1, <3>2 DEF Carries
  <2>2. CASE i \in 1..n
    <3>1. Carries(data[i], no[i]) /\ highest <= no[i] + Window /\ no[i] \in 0..(Begun - 1)
      BY <1>2, <1>3, <1>5, <2>2 DEF OnAir
    <3>2. Sdu(no[i])' = Sdu(no[i]) /\ Gone(no[i])' \in Int /\ Gone(no[i]) <= Gone(no[i])'
          /\ Size(no[i])' = Size(no[i])
      BY <3>1 DEF Grows, Size
    <3>3. data[i].so \in Nat /\ data[i].len \in Nat
      <4>1. data[i] \in Pdus
        BY <1>3, <2>2, ElementOfSeq
      <4> QED
        BY <4>1 DEF Pdus
    <3>4. Gone(no[i]) \in Nat
      BY <3>1, GoneFacts DEF Numbered
    <3>5. /\ data[i].sn = Sn(no[i]) /\ data[i].sdu = Sdu(no[i])'
          /\ data[i].so + data[i].len <= Gone(no[i])'
          /\ data[i].last = (data[i].so + data[i].len = Size(no[i])')
      <4>1. /\ data[i].sn = Sn(no[i]) /\ data[i].sdu = Sdu(no[i])
            /\ data[i].so + data[i].len <= Gone(no[i])
            /\ data[i].last = (data[i].so + data[i].len = Size(no[i]))
        BY ONLY <3>1 DEF Carries
      <4>2. data[i].so + data[i].len <= Gone(no[i])'
        BY ONLY <3>2, <3>3, <3>4, <4>1
      <4> QED
        BY ONLY <3>2, <4>1, <4>2
    <3>6. data'[i] = data[i] /\ more[i] = no[i]
      BY <1>4, <2>2
    <3> QED
      BY <3>1, <3>5, <3>6 DEF Carries
  <2> QED
    BY <1>3, <2>1, <2>2
<1>8. \A i \in 1..(n + 1) : data'[i].late => i = 1
  <2>1. \A i \in 1..n : data[i].late => i = 1
    BY <1>2, <1>3 DEF OnAir
  <2> QED
    BY <1>4, <2>1
<1>9. \A i, j \in 1..(n + 1) : i < j => more[i] + 1 <= more[j] + Window
  <2>1. \A i, j \in 1..n : i < j => no[i] + 1 <= no[j] + Window
    BY <1>2, <1>3 DEF OnAir
  <2>2. \A i \in 1..n : no[i] + 1 <= k + Window
    BY <1>1, <1>5, Sizes
  <2>3. ASSUME NEW i \in 1..(n + 1), NEW j \in 1..(n + 1), i < j
        PROVE  more[i] + 1 <= more[j] + Window
    <3>1. i \in 1..n /\ more[i] = no[i]
      BY <2>3
    <3>2. CASE j = n + 1
      BY <2>2, <3>1, <3>2
    <3>3. CASE j \in 1..n
      BY <2>1, <2>3, <3>1, <3>3
    <3> QED
      BY <3>2, <3>3
  <2> QED
    BY <2>3
<1>10. \A i, j \in 1..(n + 1) : j = i + 1 /\ ~data'[i].late => more[j] <= more[i] + Window
  <2>1. ASSUME NEW i \in 1..(n + 1), NEW j \in 1..(n + 1), j = i + 1, ~data'[i].late
        PROVE  more[j] <= more[i] + Window
    <3>1. CASE j = n + 1
      <4>1. i = n /\ i \in DOMAIN data /\ ~data[i].late
        BY <1>3, <1>4, <2>1, <3>1
      <4>2. Begun <= no[i] + Window
        BY <1>2, <4>1 DEF OnAir
      <4>3. more[i] = no[i] /\ more[j] = k /\ no[i] \in Nat
        BY <1>3, <1>5, <3>1, <4>1
      <4> QED
        BY <1>1, <4>2, <4>3, Sizes
    <3>2. CASE j # n + 1
      <4>1. i \in 1..n /\ j \in 1..n
        BY <1>3, <2>1, <3>2
      <4>2. no[j] <= no[i] + Window
        <5>1. ~data[i].late /\ i \in DOMAIN data /\ j \in DOMAIN data
          BY <1>3, <1>4, <2>1, <4>1
        <5> QED
          BY ONLY <1>2, <2>1, <5>1 DEF OnAir
      <4>3. more[i] = no[i] /\ more[j] = no[j]
        <5>1. i # n + 1 /\ j # n + 1
          BY <4>1
        <5> QED
          BY <5>1
      <4> QED
        BY ONLY <4>2, <4>3
    <3> QED
      BY <3>1, <3>2
  <2> QED
    BY <2>1
<1>11. Begun' <= more[n + 1] + Window
  BY <1>1, <1>5, Sizes
<1>12. OnAir(more, highest)'
  BY <1>4, <1>7, <1>8, <1>9, <1>10, <1>11 DEF OnAir
<1> QED
  BY <1>4, <1>12 DEF Radio

LEMMA Transmitted ==
  ASSUME NEW ack \in Nat, NEW next \in Nat, NEW missing \in Nat, NEW highest \in Nat,
         Numbered(ack, next, missing, highest), Grows,
         NEW k \in Nat, ack <= k, k < Begun', Begun' <= ack + Window,
         Begun' = Begun \/ (Begun' = Begun + 1 /\ k = Begun),
         NEW so \in Nat, NEW len \in Nat \ {0}, so + len <= Gone(k)', NEW isRetx \in BOOLEAN,
         tx_window'[Sn(k)].sdu = Sdu(k)', Sdu(k)' \in Nat,
         Transmit(Sn(k), so, len, isRetx)
  PROVE  /\ Radio(highest)' /\ poll_sn' \in 0..(Mod - 1)
         /\ poll_timer' \in BOOLEAN /\ poll_expired' \in BOOLEAN
<1> DEFINE p == poll_expired \/ NothingElse(queue', tx_window', sn_under_segmentation', retx_queue')
           m == [sn |-> Sn(k), so |-> so, len |-> len, p |-> p, late |-> FALSE,
                 last |-> so + len = lengths[Sdu(k)'], sdu |-> Sdu(k)']
<1>1. data' = Append(data, m) /\ poll_expired' = FALSE
      /\ poll_timer' = (poll_timer \/ p) /\ poll_sn' = IF p /\ ~isRetx THEN Sn(k) ELSE poll_sn
  BY DEF Transmit
<1>2. p \in BOOLEAN /\ (so + len = lengths[Sdu(k)']) \in BOOLEAN /\ (poll_timer \/ p) \in BOOLEAN
  OBVIOUS
<1>3. Sn(k) \in 0..(Mod - 1) /\ poll_sn \in 0..(Mod - 1)
  BY SnType DEF Numbered, Scalars
<1>4. m \in Pdus /\ m.late = FALSE
  BY <1>2, <1>3 DEF Pdus
<1>5. PICK pdu \in Pdus : pdu = m
  BY <1>4
<1>6. Carries(pdu, k)'
  <2>1. Size(k)' = lengths[Sdu(k)']
    BY DEF Size, Grows
  <2>2. /\ pdu.sn = Sn(k) /\ pdu.sdu = Sdu(k)' /\ pdu.so = so /\ pdu.len = len
        /\ pdu.last = (so + len = lengths[Sdu(k)'])
    BY <1>5
  <2> QED
    BY <2>1, <2>2 DEF Carries
<1>7. pdu.late = FALSE /\ data' = Append(data, pdu)
  BY <1>1, <1>5
<1>8. Radio(highest)'
  BY <1>6, <1>7, PduSent
<1> QED
  BY <1>1, <1>2, <1>3, <1>8

\* Nothing has changed of what is kept and of what has gone out.
LEMMA NothingNew ==
  ASSUME NEW ack \in Nat, SdusInOrder, TxWindow(ack),
         UNCHANGED <<lengths, sent, sn_under_segmentation>>,
         \A k \in ack..(Begun - 1) : tx_window'[Sn(k)].next_so = tx_window[Sn(k)].next_so
  PROVE  /\ Grows /\ Begun' = Begun /\ Unsent' = Unsent /\ Segmenting' = Segmenting
         /\ \A k \in 0..(Begun - 1) : Sdu(k)' = Sdu(k) /\ Gone(k)' = Gone(k) /\ Size(k)' = Size(k)
<1>1. Begun' = Begun /\ Segmenting' = Segmenting /\ Unsent' = Unsent
      /\ \A k : Sdu(k)' = Sdu(k) /\ Size(k)' = Size(k)
  BY DEF Begun, Segmenting, Unsent, Sdu, Size
<1>2. Begun \in Nat /\ Unsent \in Int
  BY SduFacts DEF Unsent
<1>3. ASSUME NEW k \in 0..(Begun - 1)
      PROVE  Gone(k)' = Gone(k)
  <2>1. CASE Segmenting /\ k = Begun - 1
    <3>1. ack <= Begun - 1
      BY <2>1 DEF TxWindow, Unsent
    <3>2. k \in ack..(Begun - 1)
      BY <1>2, <2>1, <3>1
    <3> QED
      BY <1>1, <2>1, <3>2 DEF Gone
  <2>2. CASE ~(Segmenting /\ k = Begun - 1)
    BY <1>1, <2>2 DEF Gone
  <2> QED
    BY <2>1, <2>2
<1>4. \A k \in 0..(Begun - 1) : Gone(k) \in Nat
  BY GoneFacts
<1>5. Grows
  BY <1>1, <1>2, <1>3, <1>4 DEF Grows
<1> QED
  BY <1>1, <1>3, <1>5

LEMMA TxWindowKept ==
  ASSUME NEW ack \in Nat, SdusInOrder, TxWindow(ack),
         UNCHANGED <<lengths, sent, sn_under_segmentation, tx_next, tx_next_ack>>,
         DOMAIN tx_window' = DOMAIN tx_window,
         \A k \in ack..(Begun - 1) :
           /\ tx_window'[Sn(k)] \in [sdu : Nat, next_so : Nat, retx_count : Int]
           /\ tx_window'[Sn(k)].sdu = tx_window[Sn(k)].sdu
           /\ tx_window'[Sn(k)].next_so = tx_window[Sn(k)].next_so
  PROVE  TxWindow(ack)'
<1>1. /\ Grows /\ Begun' = Begun /\ Unsent' = Unsent /\ Segmenting' = Segmenting
      /\ \A k \in 0..(Begun - 1) : Sdu(k)' = Sdu(k) /\ Gone(k)' = Gone(k) /\ Size(k)' = Size(k)
  BY NothingNew
<1>2. Begun \in Nat
  BY SduFacts
<1>3. \A k \in ack..(Begun - 1) : TxSlot(k)'
  BY <1>1, <1>2 DEF TxWindow, TxSlot
<1>4. /\ ack <= Unsent' /\ Begun' <= ack + Window
      /\ tx_next_ack' = Sn(ack) /\ tx_next' = Sn(Unsent')
      /\ DOMAIN tx_window' = {Sn(k) : k \in ack..(Begun' - 1)}
  BY <1>1 DEF TxWindow
<1>5. ASSUME Segmenting
      PROVE  /\ sn_under_segmentation' = Sn(Begun' - 1)
             /\ tx_window'[Sn(Begun' - 1)].next_so \in 1..(Size(Begun - 1)' - 1)
  <2>1. /\ sn_under_segmentation = Sn(Begun - 1) /\ ack <= Begun - 1
        /\ tx_window[Sn(Begun - 1)].next_so \in 1..(Size(Begun - 1) - 1)
    BY <1>5 DEF TxWindow, Unsent
  <2>2. Begun - 1 \in ack..(Begun - 1) /\ Begun - 1 \in 0..(Begun - 1)
    BY <1>2, <2>1
  <2>3. Size(Begun - 1)' = Size(Begun - 1)
    BY DEF Size, Sdu, Begun
  <2> QED
    BY <1>1, <2>1, <2>2, <2>3
<1> QED
  BY <1>1, <1>3, <1>4, <1>5 DEF TxWindow

LEMMA AllLive ==
  ASSUME NEW ack \in Nat, TxWindow(ack), RetxQueue(ack), retx_queue # << >>
  PROVE  LiveRetx = retx_queue
<1> DEFINE live == {i \in 1..Len(retx_queue) : retx_queue[i].sn \in DOMAIN tx_window}
<1>1. retx_queue \in Seq(Resendables(ack)) /\ Len(retx_queue) \in Nat /\ Len(retx_queue) # 0
  BY DEF RetxQueue
<1>2. ASSUME NEW i \in 1..Len(retx_queue)
      PROVE  retx_queue[i].sn \in DOMAIN tx_window
  <2>1. retx_queue[i] \in Resendables(ack)
    BY <1>1, ElementOfSeq
  <2> QED
    BY <2>1 DEF Resendables, TxWindow
<1>3. live = 1..Len(retx_queue)
  BY <1>2
<1>4. Min(live) \in live /\ \A y \in live : Min(live) <= y
  <2>1. live \subseteq Nat /\ live # {}
    BY <1>1, <1>3
  <2> HIDE DEF live
  <2> QED
    BY <2>1, MinIsSmallest
<1>5. Min(live) = 1 /\ live # {}
  BY <1>1, <1>3, <1>4
<1>6. LiveRetx = SubSeq(retx_queue, 1, Len(retx_queue))
  BY <1>5 DEF LiveRetx
<1> QED
  BY <1>1, <1>6, SubSeqFull

\* A transmission leaves the receiver, the reports and the history alone.
LEMMA Pulled ==
  ASSUME NEW ack \in Nat, NEW next \in Nat, NEW missing \in Nat, NEW highest \in Nat,
         Numbered(ack, next, missing, highest), Grows,
         UNCHANGED <<rx, status, acked>>,
         SdusInOrder', Scalars', TxWindow(ack)', RetxQueue(ack)', Radio(highest)'
  PROVE  Numbered(ack, next, missing, highest)'
<1>1. UNCHANGED <<rxst, rx_window, reassembly, assembled, taken, spare>>
  BY DEF rx, pulls
<1>2. RxWindow(next, missing, highest)' /\ Trigger(next, highest)' /\ GapIsWatched'
  BY <1>1, ReceiverKept
<1>3. Reports(next, highest)' /\ History(ack, next, highest)'
  BY <1>1, ReportsKept, HistoryKept
<1>4. ack <= next
  BY DEF Numbered
<1> QED
  BY <1>2, <1>3, <1>4 DEF Numbered

LEMMA RetransmitKeeps ==
  ASSUME NEW ack \in Nat, NEW next \in Nat, NEW missing \in Nat, NEW highest \in Nat,
         Numbered(ack, next, missing, highest), NEW room \in Nat \ {0}, Retransmit(room),
         UNCHANGED <<rx, status, lengths, submitted, acked>>
  PROVE  Numbered(ack, next, missing, highest)'
<1>1. TxWindow(ack) /\ RetxQueue(ack) /\ SdusInOrder /\ Scalars
  BY DEF Numbered
<1>2. retx_queue # << >> /\ LiveRetx = retx_queue
  BY <1>1, AllLive DEF Retransmit
<1>3. retx_queue \in Seq(Resendables(ack)) /\ Tail(retx_queue) \in Seq(Resendables(ack))
      /\ Head(retx_queue) \in Resendables(ack)
  BY <1>1, <1>2 DEF RetxQueue
<1>4. PICK r \in Resendables(ack) : r = Head(retx_queue)
  BY <1>3
<1>5. r.sn \in 0..(Mod - 1) /\ r.so \in Nat /\ r.length \in Nat \ {0}
  BY DEF Resendables
<1>6. PICK k \in ack..(Begun - 1) : r.sn = Sn(k) /\ r.so + r.length <= Gone(k)
  BY DEF Resendables
<1>7. PICK len \in Nat \ {0} : len = Min({r.length, room}) /\ len <= r.length
  BY <1>5, MinOfTwo
<1> DEFINE rest == [sn |-> r.sn, so |-> r.so + len, length |-> r.length - len]
<1>8. /\ retx_sn' = r.sn
      /\ retx_queue' = IF len = r.length THEN Tail(retx_queue) ELSE <<rest>> \o Tail(retx_queue)
      /\ max_retx' = (len = r.length /\ tx_window[r.sn].retx_count = MaxRetx)
      /\ UNCHANGED <<queue, sent, tx_window, sn_under_segmentation, tx_next, tx_next_ack, told>>
      /\ Transmit(r.sn, r.so, len, TRUE)
  BY <1>2, <1>4, <1>7 DEF Retransmit
<1>9. /\ Grows /\ Begun' = Begun /\ Unsent' = Unsent /\ Segmenting' = Segmenting
      /\ \A l \in 0..(Begun - 1) : Sdu(l)' = Sdu(l) /\ Gone(l)' = Gone(l) /\ Size(l)' = Size(l)
  BY <1>1, <1>8, NothingNew
<1>10. k \in 0..(Begun - 1) /\ Begun \in Nat /\ Begun <= ack + Window
  BY <1>1, SduFacts DEF TxWindow
<1>11. /\ Radio(highest)' /\ poll_sn' \in 0..(Mod - 1)
       /\ poll_timer' \in BOOLEAN /\ poll_expired' \in BOOLEAN
  <2>1. tx_window'[Sn(k)].sdu = Sdu(k)' /\ Sdu(k)' \in Nat
    <3>1. tx_window[Sn(k)].sdu = Sdu(k)
      BY <1>1 DEF TxWindow, TxSlot
    <3>2. Sdu(k) \in Nat
      BY <1>1, <1>10, SduFacts
    <3> QED
      BY <1>8, <1>9, <1>10, <3>1, <3>2
  <2>2. r.so + len <= Gone(k)'
    <3>1. Gone(k)' = Gone(k) /\ Gone(k) \in Nat
      BY <1>1, <1>9, <1>10, GoneFacts
    <3> QED
      BY <1>5, <1>6, <1>7, <3>1
  <2>3. k \in Nat /\ ack <= k /\ k < Begun' /\ Begun' <= ack + Window /\ Begun' = Begun
    BY <1>9, <1>10
  <2>4. Transmit(Sn(k), r.so, len, TRUE)
    BY <1>6, <1>8
  <2> QED
    BY <1>5, <1>7, <1>9, <2>1, <2>2, <2>3, <2>4, Transmitted
<1>12. SdusInOrder'
  BY <1>1, <1>8 DEF SdusInOrder, Rising
<1>13. Scalars'
  <2>1. UNCHANGED <<told, reassembly, do_status, prohibit, pulling, fresh>>
    BY <1>8 DEF rx, pulls
  <2>2. max_retx' \in BOOLEAN
    BY <1>8
  <2>3. retx_sn' \in 0..Mod
    BY <1>5, <1>8, Sizes
  <2> QED
    BY <1>1, <1>11, <2>1, <2>2, <2>3 DEF Scalars
<1>14. TxWindow(ack)'
  <2>1. \A l \in ack..(Begun - 1) : tx_window[Sn(l)] \in [sdu : Nat, next_so : Nat, retx_count : Int]
    BY <1>1 DEF TxWindow, TxSlot
  <2> QED
    BY <1>1, <1>8, <2>1, TxWindowKept
<1>15. RetxQueue(ack)'
  <2>1. rest \in Resendables(ack) \/ len = r.length
    <3>1. SUFFICES ASSUME len # r.length
                   PROVE  rest \in Resendables(ack)
      OBVIOUS
    <3>2. rest.sn = r.sn /\ rest.so = r.so + len /\ rest.length = r.length - len
      OBVIOUS
    <3>3. rest \in [sn : 0..(Mod - 1), so : Nat, length : Nat \ {0}]
      BY <1>5, <1>7, <3>1
    <3>4. rest.sn = Sn(k) /\ rest.so + rest.length <= Gone(k)
      BY <1>5, <1>6, <1>7, <3>2
    <3> QED
      BY <3>3, <3>4 DEF Resendables
  <2>2. retx_queue' \in Seq(Resendables(ack))
    <3>1. CASE len = r.length
      BY <1>3, <1>8, <3>1
    <3>2. CASE len # r.length
      <4>1. <<rest>> \in Seq(Resendables(ack))
        BY <2>1, <3>2
      <4>2. <<rest>> \o Tail(retx_queue) \in Seq(Resendables(ack))
        BY <1>3, <4>1, ConcatProperties
      <4> QED
        BY <1>8, <3>2, <4>2
    <3> QED
      BY <3>1, <3>2
  <2>3. Resendables(ack)' = Resendables(ack)
    BY <1>9, <1>10 DEF Resendables
  <2> QED
    BY <2>2, <2>3 DEF RetxQueue
<1> QED
  BY <1>9, <1>11, <1>12, <1>13, <1>14, <1>15, Pulled

LEMMA SendSegmentKeeps ==
  ASSUME NEW ack \in Nat, NEW next \in Nat, NEW missing \in Nat, NEW highest \in Nat,
         Numbered(ack, next, missing, highest), NEW room \in Nat \ {0}, SendSegment(room),
         UNCHANGED <<rx, status, lengths, submitted, acked>>
  PROVE  Numbered(ack, next, missing, highest)'
<1>1. TxWindow(ack) /\ RetxQueue(ack) /\ SdusInOrder /\ Scalars /\ Begun \in Nat
  BY SduFacts DEF Numbered
<1>2. Segmenting
  <2>1. \A k \in ack..(Begun - 1) : Sn(k) # NoSn
    BY <1>1, SnType
  <2> QED
    BY <1>1, <2>1 DEF SendSegment, Segmenting, TxWindow
<1>3. PICK k \in ack..(Begun - 1) : k = Begun - 1 /\ k = Unsent /\ tx_next = Sn(k)
  BY <1>1, <1>2 DEF TxWindow, Unsent
<1>4. k \in 0..(Begun - 1) /\ Begun <= ack + Window /\ sn_under_segmentation = Sn(k)
      /\ Sn(k) \in DOMAIN tx_window /\ TxSlot(k) /\ tx_next_ack = Sn(ack)
  BY <1>1, <1>2, <1>3 DEF TxWindow
<1>5. PICK so \in Nat \ {0} : so = tx_window[Sn(k)].next_so /\ so < Size(k) /\ Gone(k) = so
  <2>1. tx_window[Sn(k)].next_so \in 1..(Size(k) - 1) /\ Gone(k) = tx_window[Sn(k)].next_so
    BY <1>1, <1>2, <1>3 DEF TxWindow, Gone
  <2>2. Size(k) \in Nat
    BY <1>1, <1>4, SduFacts
  <2> QED
    BY <2>1, <2>2
<1>6. Length(tx_next) = Size(k) /\ Size(k) \in Nat /\ Sdu(k) \in Nat
  BY <1>1, <1>3, <1>4, SduFacts DEF Length, TxSlot, Size
<1>7. PICK len \in Nat \ {0} : len = Min({Size(k) - so, room}) /\ so + len <= Size(k)
  BY <1>5, <1>6, MinOfTwo
<1>8. /\ tx_window' = [tx_window EXCEPT ![Sn(k)].next_so = so + len]
      /\ sn_under_segmentation' = IF so + len = Size(k) THEN NoSn ELSE sn_under_segmentation
      /\ tx_next' = IF so + len = Size(k) THEN Plus(tx_next, 1) ELSE tx_next
      /\ UNCHANGED <<queue, sent, tx_next_ack, retx>>
      /\ Transmit(tx_next, so, len, FALSE)
  BY <1>3, <1>5, <1>6, <1>7 DEF SendSegment
<1>9. /\ Begun' = Begun /\ \A l : Sdu(l)' = Sdu(l) /\ Size(l)' = Size(l)
  BY <1>8 DEF Begun, Sdu, Size
<1>10. /\ DOMAIN tx_window' = DOMAIN tx_window
       /\ tx_window'[Sn(k)].sdu = Sdu(k) /\ tx_window'[Sn(k)].next_so = so + len
       /\ tx_window'[Sn(k)] \in [sdu : Nat, next_so : Nat, retx_count : Int]
       /\ \A sn \in DOMAIN tx_window : sn # Sn(k) => tx_window'[sn] = tx_window[sn]
  BY <1>4, <1>8 DEF TxSlot
<1>11. \A l \in ack..(Begun - 1) : l # k => Sn(l) # Sn(k) /\ Sn(l) \in DOMAIN tx_window
  <2>1. SUFFICES ASSUME NEW l \in ack..(Begun - 1), l # k
                 PROVE  Sn(l) # Sn(k) /\ Sn(l) \in DOMAIN tx_window
    OBVIOUS
  <2>2. l - k < Mod /\ k - l < Mod
    BY <1>1, <1>4, Sizes
  <2> QED
    BY <1>1, <2>1, <2>2, SnInjective DEF TxWindow
<1>12. ASSUME so + len = Size(k)
       PROVE  Grows /\ TxWindow(ack)' /\ Gone(k)' = so + len
  <2>1. ~Segmenting' /\ Unsent' = Begun
    BY <1>8, <1>9, <1>12 DEF Segmenting, Unsent
  <2>2. Gone(k)' = so + len /\ \A l \in 0..(Begun - 1) : Gone(l)' = Size(l)
    BY <1>9, <1>12, <2>1 DEF Gone
  <2>3. tx_next' = Sn(Begun)
    BY <1>3, <1>8, <1>12, <1>1, PlusSn
  <2>4. Grows
    <3>1. \A l \in 0..(Begun - 1) : Gone(l) <= Size(l) /\ Size(l) \in Nat
      BY <1>1, GoneFacts, SduFacts
    <3> QED
      BY <1>1, <1>3, <1>9, <2>1, <2>2, <3>1 DEF Grows
  <2>5. TxWindow(ack)'
    <3>1. \A l \in ack..(Begun - 1) : TxSlot(l)'
      BY <1>1, <1>9, <1>10, <1>11 DEF TxWindow, TxSlot
    <3>2. ack <= Begun /\ tx_next_ack' = Sn(ack)
      BY <1>1, <1>4, <1>8
    <3>3. DOMAIN tx_window' = {Sn(l) : l \in ack..(Begun' - 1)}
      BY <1>1, <1>9, <1>10 DEF TxWindow
    <3> QED
      BY <1>4, <1>9, <2>1, <2>3, <3>1, <3>2, <3>3 DEF TxWindow
  <2> QED
    BY <2>2, <2>4, <2>5
<1>13. ASSUME so + len # Size(k)
       PROVE  Grows /\ TxWindow(ack)' /\ Gone(k)' = so + len
  <2>1. Segmenting' /\ Unsent' = Begun - 1
    BY <1>2, <1>8, <1>9, <1>13 DEF Segmenting, Unsent
  <2>2. Gone(k)' = so + len /\ \A l \in 0..(Begun - 1) : l # k => Gone(l)' = Size(l)
    BY <1>3, <1>9, <1>10, <2>1 DEF Gone
  <2>3. Grows
    <3>1. \A l \in 0..(Begun - 1) : Gone(l) <= Size(l) /\ Size(l) \in Nat
      BY <1>1, GoneFacts, SduFacts
    <3>2. \A l \in 0..(Begun - 1) : Gone(l)' \in Int /\ Gone(l) <= Gone(l)'
      BY <1>5, <1>7, <2>2, <3>1
    <3> QED
      BY <1>1, <1>3, <1>9, <2>1, <3>2 DEF Grows
  <2>4. TxWindow(ack)'
    <3>1. \A l \in ack..(Begun - 1) : TxSlot(l)'
      BY <1>1, <1>9, <1>10, <1>11 DEF TxWindow, TxSlot
    <3>2. ack <= Begun - 1 /\ tx_next_ack' = Sn(ack) /\ tx_next' = Sn(Begun - 1)
      BY <1>3, <1>4, <1>8, <1>13
    <3>3. DOMAIN tx_window' = {Sn(l) : l \in ack..(Begun' - 1)}
      BY <1>1, <1>9, <1>10 DEF TxWindow
    <3>4. sn_under_segmentation' = Sn(Begun - 1) /\ tx_window'[Sn(Begun - 1)].next_so \in 1..(Size(k) - 1)
      BY <1>3, <1>4, <1>5, <1>6, <1>7, <1>8, <1>10, <1>13
    <3>5. Size(Begun - 1)' = Size(k)
      BY <1>3, <1>8 DEF Size, Sdu, Begun
    <3> QED
      BY <1>4, <1>9, <2>1, <3>1, <3>2, <3>3, <3>4, <3>5 DEF TxWindow
  <2> QED
    BY <2>2, <2>3, <2>4
<1>14. Grows /\ TxWindow(ack)' /\ Gone(k)' = so + len
  BY <1>12, <1>13
<1>15. /\ Radio(highest)' /\ poll_sn' \in 0..(Mod - 1)
       /\ poll_timer' \in BOOLEAN /\ poll_expired' \in BOOLEAN
  <2>1. tx_window'[Sn(k)].sdu = Sdu(k)' /\ Sdu(k)' \in Nat
    BY <1>6, <1>9, <1>10
  <2>2. k \in Nat /\ ack <= k /\ k < Begun' /\ Begun' <= ack + Window /\ Begun' = Begun
    BY <1>1, <1>3, <1>4, <1>9
  <2>3. so + len <= Gone(k)' /\ so \in Nat
    BY <1>14
  <2>4. Transmit(Sn(k), so, len, FALSE)
    BY <1>3, <1>8
  <2> QED
    BY <1>14, <2>1, <2>2, <2>3, <2>4, Transmitted
<1>16. SdusInOrder'
  BY <1>1, <1>8 DEF SdusInOrder, Rising
<1>17. Scalars'
  <2>1. UNCHANGED <<told, reassembly, do_status, prohibit, pulling, fresh, max_retx, retx_sn>>
    BY <1>8 DEF rx, pulls, retx
  <2> QED
    BY <1>1, <1>15, <2>1 DEF Scalars
<1>18. RetxQueue(ack)'
  <2>1. retx_queue' = << >>
    BY <1>8 DEF SendSegment, retx
  <2> QED
    BY <2>1 DEF RetxQueue
<1> QED
  BY <1>14, <1>15, <1>16, <1>17, <1>18, Pulled

LEMMA SendNewKeeps ==
  ASSUME NEW ack \in Nat, NEW next \in Nat, NEW missing \in Nat, NEW highest \in Nat,
         Numbered(ack, next, missing, highest), NEW room \in Nat \ {0}, SendNew(room),
         UNCHANGED <<rx, status, lengths, submitted, acked>>
  PROVE  Numbered(ack, next, missing, highest)'
<1>1. TxWindow(ack) /\ RetxQueue(ack) /\ SdusInOrder /\ Scalars
  BY DEF Numbered
<1>2. ~Segmenting /\ Unsent = Begun
  BY DEF SendNew, Segmenting, Unsent
<1>3. PICK k \in Nat : k = Begun /\ k = Unsent /\ tx_next = Sn(k) /\ ack <= k
  BY <1>1, <1>2, SduFacts DEF TxWindow
<1>4. k < ack + Window /\ tx_next_ack = Sn(ack)
  <2>1. DOMAIN tx_window = {Sn(l) : l \in ack..(k - 1)} /\ k <= ack + Window
    BY <1>1, <1>3 DEF TxWindow
  <2>2. ack \in Int /\ k \in Int /\ ack <= k /\ k <= ack + Mod
    BY <1>3, <2>1, Sizes
  <2>3. Cardinality({Sn(l) : l \in ack..(k - 1)}) = k - ack
    BY <2>2, SnsInARow
  <2>4. Cardinality(DOMAIN tx_window) # Window
    BY DEF SendNew, TxFull
  <2>5. tx_next_ack = Sn(ack)
    BY <1>1 DEF TxWindow
  <2> QED
    BY <2>1, <2>2, <2>3, <2>4, <2>5, Sizes
<1>5. queue # << >> /\ queue \in Seq(1..submitted) /\ submitted \in 0..Len(lengths)
      /\ lengths \in Seq(Nat \ {0})
  BY <1>1, SduFacts DEF SendNew, SdusInOrder
<1>6. PICK d \in 1..submitted : d = Head(queue)
  BY <1>5
<1>7. PICK size \in Nat \ {0} : size = lengths[d]
  <2>1. d \in 1..Len(lengths)
    BY <1>5
  <2>2. lengths[d] \in Nat \ {0}
    BY ONLY <1>5, <2>1, ElementOfSeq
  <2> QED
    BY <2>2
<1>8. PICK len \in Nat \ {0} : len = Min({size, room}) /\ len <= size
  BY MinOfTwo
<1> DEFINE info == [sdu |-> d, next_so |-> IF len = size THEN 0 ELSE len, retx_count |-> -1]
<1>9. /\ queue' = Tail(queue) /\ sent' = Append(sent, d)
      /\ tx_window' = [sn \in DOMAIN tx_window \cup {Sn(k)} |->
                         IF sn = Sn(k) THEN info ELSE tx_window[sn]]
      /\ sn_under_segmentation' = IF len = size THEN NoSn ELSE Sn(k)
      /\ tx_next' = IF len = size THEN Plus(Sn(k), 1) ELSE Sn(k)
      /\ UNCHANGED <<tx_next_ack, retx>>
      /\ Transmit(Sn(k), 0, len, FALSE)
  BY <1>3, <1>6, <1>7, <1>8 DEF SendNew
<1>10. /\ Begun' = k + 1 /\ Sdu(k)' = d /\ Size(k)' = size
       /\ \A l \in 0..(k - 1) : Sdu(l)' = Sdu(l) /\ Size(l)' = Size(l)
  <2>1. sent \in Seq(1..submitted) /\ Len(sent) = k
    BY <1>1, <1>3 DEF SdusInOrder, Begun
  <2>2. Len(sent') = k + 1 /\ sent'[k + 1] = d /\ \A l \in 0..(k - 1) : sent'[l + 1] = sent[l + 1]
    BY <1>9, <2>1
  <2> QED
    BY <1>7, <2>2 DEF Begun, Sdu, Size
<1>11. \A l \in ack..(k - 1) : Sn(l) # Sn(k) /\ Sn(l) \in DOMAIN tx_window
  <2>1. SUFFICES ASSUME NEW l \in ack..(k - 1)
                 PROVE  Sn(l) # Sn(k) /\ Sn(l) \in DOMAIN tx_window
    OBVIOUS
  <2>2. l - k < Mod /\ k - l < Mod /\ l # k /\ l \in Int
    BY <1>4, Sizes
  <2> QED
    BY <1>1, <1>3, <2>2, SnInjective DEF TxWindow
<1>12. /\ tx_window'[Sn(k)] \in [sdu : Nat, next_so : Nat, retx_count : Int]
       /\ tx_window'[Sn(k)].sdu = d /\ tx_window'[Sn(k)].next_so = IF len = size THEN 0 ELSE len
       /\ \A l \in ack..(k - 1) : tx_window'[Sn(l)] = tx_window[Sn(l)]
  <2>1. tx_window'[Sn(k)] = info /\ -1 \in Int
    BY <1>9
  <2> QED
    BY <1>9, <1>11, <2>1
<1>13. /\ len = size => ~Segmenting' /\ Unsent' = k + 1
       /\ len # size => Segmenting' /\ Unsent' = k
  <2>1. Sn(k) # NoSn
    BY SnType
  <2>2. CASE len = size
    BY <1>9, <1>10, <2>2 DEF Segmenting, Unsent
  <2>3. CASE len # size
    <3>1. Segmenting'
      BY <1>9, <2>1, <2>3 DEF Segmenting
    <3> QED
      BY <1>10, <2>3, <3>1 DEF Unsent
  <2> QED
    BY <2>2, <2>3
<1>14. Gone(k)' = len /\ \A l \in 0..(k - 1) : Gone(l)' = Size(l)
  <2>1. CASE len = size
    BY <1>10, <1>13, <2>1 DEF Gone
  <2>2. CASE len # size
    BY <1>10, <1>12, <1>13, <2>2 DEF Gone
  <2> QED
    BY <2>1, <2>2
<1>15. Grows
  <2>1. \A l \in 0..(k - 1) : Gone(l) <= Size(l) /\ Size(l) \in Nat
    BY <1>1, <1>3, GoneFacts, SduFacts
  <2> QED
    BY <1>3, <1>10, <1>13, <1>14, <2>1 DEF Grows
<1>16. TxWindow(ack)'
  <2>1. ack <= Unsent' /\ Begun' <= ack + Window /\ tx_next_ack' = Sn(ack)
    BY <1>3, <1>4, <1>9, <1>10, <1>13, Sizes
  <2>2. tx_next' = Sn(Unsent')
    <3>1. Plus(Sn(k), 1) = Sn(k + 1)
      BY PlusSn
    <3> QED
      BY <1>9, <1>13, <3>1
  <2>3. DOMAIN tx_window' = {Sn(l) : l \in ack..(Begun' - 1)}
    <3>1. DOMAIN tx_window' = {Sn(l) : l \in ack..(k - 1)} \cup {Sn(k)}
      BY <1>1, <1>3, <1>9 DEF TxWindow
    <3>2. ack..(Begun' - 1) = (ack..(k - 1)) \cup {k}
      BY <1>3, <1>10
    <3> QED
      BY <3>1, <3>2
  <2>4. ASSUME NEW l \in ack..(Begun' - 1)
        PROVE  TxSlot(l)'
    <3>1. CASE l = k
      BY <1>10, <1>12, <3>1 DEF TxSlot
    <3>2. CASE l # k
      <4>1. l \in ack..(k - 1) /\ l \in 0..(k - 1)
        BY <1>3, <1>10, <3>2
      <4> QED
        BY <1>1, <1>3, <1>10, <1>12, <4>1 DEF TxWindow, TxSlot
    <3> QED
      BY <3>1, <3>2
  <2>5. ASSUME Segmenting'
        PROVE  /\ sn_under_segmentation' = Sn(Begun' - 1)
               /\ tx_window'[Sn(Begun' - 1)].next_so \in 1..(size - 1)
    <3>1. len # size /\ Begun' - 1 = k
      BY ONLY <1>3, <1>10, <1>13, <2>5
    <3>2. sn_under_segmentation' = Sn(k) /\ tx_window'[Sn(k)].next_so = len
      BY ONLY <1>9, <1>12, <3>1
    <3>3. len \in 1..(size - 1)
      BY <1>8, <3>1
    <3> QED
      BY ONLY <3>1, <3>2, <3>3
  <2>6. Size(Begun - 1)' = size
    BY <1>10 DEF Size, Sdu
  <2> QED
    BY <2>1, <2>2, <2>3, <2>4, <2>5, <2>6 DEF TxWindow
<1>17. /\ Radio(highest)' /\ poll_sn' \in 0..(Mod - 1)
       /\ poll_timer' \in BOOLEAN /\ poll_expired' \in BOOLEAN
  <2>1. tx_window'[Sn(k)].sdu = Sdu(k)' /\ Sdu(k)' \in Nat
    BY <1>10, <1>12
  <2>2. k < Begun' /\ Begun' <= ack + Window /\ Begun' = Begun + 1 /\ k = Begun
    BY <1>3, <1>4, <1>10, Sizes
  <2>3. 0 + len <= Gone(k)'
    BY <1>14
  <2> QED
    BY <1>3, <1>9, <1>15, <2>1, <2>2, <2>3, Transmitted
<1>18. SdusInOrder'
  <2>1. /\ sent \in Seq(1..submitted) /\ queue \in Seq(1..submitted)
        /\ Rising(sent) /\ Rising(queue)
        /\ \A i \in DOMAIN sent, j \in DOMAIN queue : sent[i] < queue[j]
    BY <1>1 DEF SdusInOrder
  <2>2. /\ Tail(queue) \in Seq(1..submitted) /\ DOMAIN Tail(queue) = 1..(Len(queue) - 1)
        /\ \A j \in 1..(Len(queue) - 1) : Tail(queue)[j] = queue[j + 1] /\ j + 1 \in DOMAIN queue
        /\ 1 \in DOMAIN queue /\ d = queue[1]
    <3>1. PICK q \in Seq(1..submitted) : q = queue /\ q # << >>
      BY <1>5
    <3>2. Tail(q) \in Seq(1..submitted) /\ Len(Tail(q)) = Len(q) - 1 /\ Len(q) \in Nat \ {0}
      BY ONLY <3>1
    <3>3. \A j \in 1..(Len(q) - 1) : Tail(q)[j] = q[j + 1] /\ j + 1 \in DOMAIN q
      BY ONLY <3>1, <3>2
    <3>4. DOMAIN Tail(q) = 1..(Len(q) - 1) /\ 1 \in DOMAIN q /\ Head(q) = q[1]
      BY ONLY <3>1, <3>2
    <3> QED
      BY ONLY <1>6, <3>1, <3>2, <3>3, <3>4
  <2>3. /\ sent' \in Seq(1..submitted) /\ DOMAIN sent' = 1..(k + 1) /\ DOMAIN sent = 1..k
        /\ sent'[k + 1] = d /\ \A i \in 1..k : sent'[i] = sent[i]
    <3>1. Len(sent) = k /\ sent' = Append(sent, d)
      BY <1>3, <1>9 DEF Begun
    <3>2. sent' \in Seq(1..submitted) /\ Len(sent') = k + 1
      BY <2>1, <3>1
    <3>3. sent'[k + 1] = d /\ \A i \in 1..k : sent'[i] = sent[i]
      BY <2>1, <3>1
    <3> QED
      BY <2>1, <3>1, <3>2, <3>3
  <2>4. Rising(sent')
    <3>1. SUFFICES ASSUME NEW i \in 1..(k + 1), NEW j \in 1..(k + 1), i < j
                   PROVE  sent'[i] < sent'[j]
      BY <2>3 DEF Rising
    <3>2. CASE j = k + 1
      <4>1. i \in DOMAIN sent /\ sent'[i] = sent[i] /\ sent'[j] = queue[1]
        BY <2>2, <2>3, <3>1, <3>2
      <4> QED
        BY <2>1, <2>2, <4>1
    <3>3. CASE j # k + 1
      <4>1. i \in 1..k /\ j \in 1..k
        BY <1>3, <3>1, <3>3
      <4>2. sent'[i] = sent[i] /\ sent'[j] = sent[j]
        BY <2>3, <4>1
      <4>3. i \in DOMAIN sent /\ j \in DOMAIN sent
        BY <2>3, <4>1
      <4>4. sent[i] < sent[j]
        BY <2>1, <3>1, <4>3 DEF Rising
      <4> QED
        BY <4>2, <4>4
    <3> QED
      BY <3>2, <3>3
  <2>5. Rising(queue')
    <3> DEFINE q == queue'
    <3>4. DOMAIN q = 1..(Len(queue) - 1)
      BY <1>9, <2>2
    <3>1. SUFFICES ASSUME NEW i \in DOMAIN q, NEW j \in DOMAIN q, i < j
                   PROVE  q[i] < q[j]
      BY DEF Rising
    <3>2. /\ queue'[i] = queue[i + 1] /\ queue'[j] = queue[j + 1]
          /\ i + 1 \in DOMAIN queue /\ j + 1 \in DOMAIN queue
      BY ONLY <1>9, <2>2, <3>4, i \in DOMAIN q, j \in DOMAIN q
    <3>3. i + 1 < j + 1
      BY <3>1, <3>4
    <3> QED
      BY ONLY <2>1, <3>2, <3>3 DEF Rising
  <2>6. ASSUME NEW i \in DOMAIN sent', NEW j \in DOMAIN queue'
        PROVE  sent'[i] < queue'[j]
    <3>1. j \in 1..(Len(queue) - 1) /\ queue'[j] = queue[j + 1] /\ j + 1 \in DOMAIN queue
      BY <1>9, <2>2
    <3>2. CASE i = k + 1
      <4>1. 1 < j + 1
        BY <3>1
      <4>2. sent'[i] < queue'[j]
        <5>1. queue[1] < queue[j + 1]
          BY <2>1, <2>2, <3>1, <4>1 DEF Rising
        <5> QED
          BY <2>2, <2>3, <3>1, <3>2, <5>1
      <4> QED
        BY <4>2
    <3>3. CASE i # k + 1
      <4>1. i \in 1..k
        BY <1>3, <2>3, <3>3
      <4>2. i \in DOMAIN sent /\ sent'[i] = sent[i]
        BY <2>3, <4>1
      <4>3. sent[i] < queue[j + 1]
        BY <2>1, <3>1, <4>2
      <4> QED
        BY <3>1, <4>2, <4>3
    <3> QED
      BY <3>2, <3>3
  <2>7. queue' \in Seq(1..submitted) /\ lengths \in Submits
    BY <1>1, <1>9, <2>2 DEF SdusInOrder
  <2> QED
    BY <1>5, <2>3, <2>4, <2>5, <2>6, <2>7 DEF SdusInOrder
<1>19. Scalars'
  <2>1. UNCHANGED <<told, reassembly, do_status, prohibit, pulling, fresh, max_retx, retx_sn>>
    BY <1>9 DEF rx, pulls, retx
  <2> QED
    BY <1>1, <1>17, <2>1 DEF Scalars
<1>20. RetxQueue(ack)'
  <2>1. retx_queue' = << >>
    BY <1>9 DEF SendNew, retx
  <2> QED
    BY <2>1 DEF RetxQueue
<1> QED
  BY <1>15, <1>16, <1>17, <1>18, <1>19, <1>20, Pulled

LEMMA PullPduKeeps ==
  ASSUME NEW ack \in Nat, NEW next \in Nat, NEW missing \in Nat, NEW highest \in Nat,
         Numbered(ack, next, missing, highest), NEW room \in Nat \ {0}, PullPdu(room)
  PROVE  Numbered(ack, next, missing, highest)'
<1>1. UNCHANGED <<rx, status, lengths, submitted, acked>>
  BY DEF PullPdu
<1>2. Retransmit(room) \/ SendSegment(room) \/ SendNew(room)
  BY DEF PullPdu
<1> QED
  BY <1>1, <1>2, RetransmitKeeps, SendSegmentKeeps, SendNewKeeps

-----------------------------------------------------------------------------
(* Steps that send nothing *)

LEMMA Idle ==
  ASSUME NEW ack \in Nat, NEW next \in Nat, NEW missing \in Nat, NEW highest \in Nat,
         Numbered(ack, next, missing, highest),
         UNCHANGED <<lengths, sent, tx_window, sn_under_segmentation, tx_next, tx_next_ack, retx_queue>>
  PROVE  /\ Grows /\ Begun' = Begun /\ Unsent' = Unsent /\ Segmenting' = Segmenting
         /\ \A k \in 0..(Begun - 1) : Sdu(k)' = Sdu(k) /\ Gone(k)' = Gone(k) /\ Size(k)' = Size(k)
         /\ TxWindow(ack)' /\ RetxQueue(ack)'
<1>1. TxWindow(ack) /\ RetxQueue(ack) /\ SdusInOrder /\ Begun \in Nat
  BY SduFacts DEF Numbered
<1>2. /\ Grows /\ Begun' = Begun /\ Unsent' = Unsent /\ Segmenting' = Segmenting
      /\ \A k \in 0..(Begun - 1) : Sdu(k)' = Sdu(k) /\ Gone(k)' = Gone(k) /\ Size(k)' = Size(k)
  BY <1>1, NothingNew
<1>3. TxWindow(ack)'
  <2>1. \A k \in ack..(Begun - 1) : tx_window[Sn(k)] \in [sdu : Nat, next_so : Nat, retx_count : Int]
    BY <1>1 DEF TxWindow, TxSlot
  <2> QED
    BY <1>1, <2>1, TxWindowKept
<1>4. Resendables(ack)' = Resendables(ack)
  BY <1>1, <1>2 DEF Resendables
<1>5. RetxQueue(ack)'
  BY <1>1, <1>4 DEF RetxQueue
<1> QED
  BY <1>2, <1>3, <1>5

\* The PDUs on the radio carry what they carried.
LEMMA RadioKept ==
  ASSUME NEW highest \in Nat, Radio(highest), UNCHANGED data, Begun \in Nat, Begun' = Begun,
         \A l \in 0..(Begun - 1) : Sdu(l)' = Sdu(l) /\ Gone(l)' = Gone(l) /\ Size(l)' = Size(l)
  PROVE  Radio(highest)'
<1>1. PICK no \in [DOMAIN data -> 0..(Begun - 1)] : OnAir(no, highest)
  BY DEF Radio
<1>2. \A i \in DOMAIN data : no[i] \in 0..(Begun - 1) /\ Carries(data[i], no[i])
  BY <1>1 DEF OnAir
<1>3. \A i \in DOMAIN data : Carries(data[i], no[i])'
  BY <1>2 DEF Carries
<1>4. OnAir(no, highest)'
  BY <1>1, <1>3 DEF OnAir
<1> QED
  BY <1>1, <1>4 DEF Radio

\* The first PDU has left the radio, received or lost.
LEMMA RadioTail ==
  ASSUME NEW highest \in Nat, NEW no \in [DOMAIN data -> 0..(Begun - 1)], OnAir(no, highest),
         data # << >>, data' = Tail(data), Begun \in Nat, Begun' = Begun,
         \A l \in 0..(Begun - 1) : Sdu(l)' = Sdu(l) /\ Gone(l)' = Gone(l) /\ Size(l)' = Size(l),
         NEW higher \in Nat, higher = highest \/ higher = no[1] + 1
  PROVE  Radio(higher)'
<1>1. data \in Seq(Pdus)
  BY DEF OnAir
<1>2. PICK n \in Nat : n + 1 = Len(data)
  BY <1>1
<1>3. DOMAIN data = 1..(n + 1) /\ \A i \in 1..(n + 1) : no[i] \in 0..(Begun - 1) /\ no[i] \in Int
  BY <1>1, <1>2
<1>4. /\ data' \in Seq(Pdus) /\ Len(data') = n /\ DOMAIN data' = 1..n
      /\ \A i \in 1..n : data'[i] = data[i + 1] /\ i + 1 \in 1..(n + 1)
  BY <1>1, <1>2
<1>5. PICK less \in [1..n -> 0..(Begun - 1)] : \A i \in 1..n : less[i] = no[i + 1]
  <2> DEFINE f == [i \in 1..n |-> no[i + 1]]
  <2>1. f \in [1..n -> 0..(Begun - 1)]
    BY <1>3, <1>4
  <2>2. \A i \in 1..n : f[i] = no[i + 1]
    OBVIOUS
  <2> QED
    BY <2>1, <2>2
<1>6. ASSUME NEW i \in 1..n
      PROVE  Carries(data[i], less[i])' /\ higher <= less[i] + Window /\ ~data'[i].late
  <2>1. i + 1 \in 1..(n + 1) /\ 1 \in 1..(n + 1) /\ 1 < i + 1 /\ i + 1 # 1
    OBVIOUS
  <2>2. /\ Carries(data[i + 1], no[i + 1]) /\ highest <= no[i + 1] + Window
        /\ no[1] + 1 <= no[i + 1] + Window /\ ~data[i + 1].late
    BY <1>3, <2>1 DEF OnAir
  <2>3. less[i] = no[i + 1] /\ data'[i] = data[i + 1] /\ no[i + 1] \in 0..(Begun - 1)
    BY <1>3, <1>4, <1>5, <2>1
  <2>4. Carries(data[i], less[i])'
    BY <2>2, <2>3 DEF Carries
  <2> QED
    BY <2>2, <2>3, <2>4
<1>7. ASSUME NEW i \in 1..n, NEW j \in 1..n
      PROVE  /\ i < j => less[i] + 1 <= less[j] + Window
             /\ j = i + 1 => less[j] <= less[i] + Window
  <2>1. i + 1 \in DOMAIN data /\ j + 1 \in DOMAIN data
    BY <1>3
  <2>2. less[i] = no[i + 1] /\ less[j] = no[j + 1] /\ ~data[i + 1].late
    BY <1>4, <1>5, <1>6
  <2>3. i + 1 < j + 1 => no[i + 1] + 1 <= no[j + 1] + Window
    BY <2>1 DEF OnAir
  <2>4. j + 1 = (i + 1) + 1 => no[j + 1] <= no[i + 1] + Window
    BY <2>1, <2>2 DEF OnAir
  <2> QED
    BY <2>2, <2>3, <2>4
<1>8. ASSUME NEW i \in 1..n, i = n
      PROVE  Begun' <= less[i] + Window
  <2>1. i + 1 \in DOMAIN data /\ i + 1 = Len(data) /\ ~data[i + 1].late
    BY <1>2, <1>3, <1>4, <1>6, <1>8
  <2>2. Begun <= no[i + 1] + Window
    BY <2>1 DEF OnAir
  <2> QED
    BY <1>5, <2>2
<1>9. OnAir(less, higher)'
  BY <1>4, <1>6, <1>7, <1>8 DEF OnAir
<1> QED
  BY <1>4, <1>5, <1>9 DEF Radio

\* A step that touches neither what is kept nor the receiving window.
LEMMA Quiet ==
  ASSUME NEW ack \in Nat, NEW next \in Nat, NEW missing \in Nat, NEW highest \in Nat,
         Numbered(ack, next, missing, highest),
         UNCHANGED <<lengths, sent, tx_window, sn_under_segmentation, tx_next, tx_next_ack, retx_queue>>,
         UNCHANGED <<rxst, rx_window, reassembly, assembled, acked>>,
         SdusInOrder', Scalars', Radio(highest)', Reports(next, highest)'
  PROVE  Numbered(ack, next, missing, highest)'
<1>1. Grows /\ TxWindow(ack)' /\ RetxQueue(ack)'
  BY Idle
<1>2. RxWindow(next, missing, highest)' /\ Trigger(next, highest)' /\ GapIsWatched'
  BY <1>1, ReceiverKept
<1>3. History(ack, next, highest)'
  BY <1>1, HistoryKept
<1>4. ack <= next
  BY DEF Numbered
<1> QED
  BY <1>1, <1>2, <1>3, <1>4 DEF Numbered

LEMMA HandleSduKeeps ==
  ASSUME NEW ack \in Nat, NEW next \in Nat, NEW missing \in Nat, NEW highest \in Nat,
         Numbered(ack, next, missing, highest), HandleSdu
  PROVE  Numbered(ack, next, missing, highest)'
<1>1. /\ UNCHANGED <<txst, tx_window, sn_under_segmentation, retx, poll, rx, data, status, lengths, acked>>
      /\ submitted < Len(lengths) /\ submitted' = submitted + 1 /\ queue' = Append(queue, submitted + 1)
  BY DEF HandleSdu
<1>2. /\ UNCHANGED <<lengths, sent, tx_window, sn_under_segmentation, tx_next, tx_next_ack, retx_queue>>
      /\ UNCHANGED <<rxst, rx_window, reassembly, assembled, acked, data, status>>
      /\ UNCHANGED <<poll_timer, poll_expired, max_retx, told, do_status, prohibit, pulling, fresh, taken, spare>>
      /\ UNCHANGED <<poll_sn, retx_sn>>
  BY <1>1 DEF txst, retx, poll, rx, pulls
<1>3. /\ Grows /\ Begun' = Begun /\ Begun \in Nat
      /\ \A k \in 0..(Begun - 1) : Sdu(k)' = Sdu(k) /\ Gone(k)' = Gone(k) /\ Size(k)' = Size(k)
  BY <1>2, Idle, Order
<1>4. Radio(highest)' /\ Reports(next, highest)' /\ Scalars'
  BY <1>2, <1>3, RadioKept, ReportsKept DEF Numbered, Scalars
<1>5. SdusInOrder'
  <2>1. /\ lengths \in Submits /\ submitted \in 0..Len(lengths) /\ lengths \in Seq(Nat \ {0})
        /\ sent \in Seq(1..submitted) /\ queue \in Seq(1..submitted)
        /\ Rising(sent) /\ Rising(queue)
        /\ \A i \in DOMAIN sent, j \in DOMAIN queue : sent[i] < queue[j]
    BY SduFacts DEF Numbered, SdusInOrder
  <2>2. PICK m \in Nat : m = Len(queue)
    BY <2>1
  <2>3. /\ Len(lengths) \in Nat /\ 1..submitted \subseteq 1..(submitted + 1)
        /\ submitted + 1 \in 0..Len(lengths)
    BY <1>1, <2>1
  <2>4. sent \in Seq(1..(submitted + 1)) /\ queue \in Seq(1..(submitted + 1))
    BY <2>1, <2>3
  <2>5. /\ queue' \in Seq(1..(submitted + 1)) /\ DOMAIN queue' = 1..(m + 1) /\ DOMAIN queue = 1..m
        /\ queue'[m + 1] = submitted + 1 /\ \A i \in 1..m : queue'[i] = queue[i]
    BY <1>1, <2>1, <2>2, <2>4
  <2>6. \A i \in 1..m : queue[i] \in 1..submitted
    BY <2>1, <2>2, ElementOfSeq
  <2>7. Rising(queue')
    <3>1. SUFFICES ASSUME NEW i \in 1..(m + 1), NEW j \in 1..(m + 1), i < j
                   PROVE  queue'[i] < queue'[j]
      BY <2>5 DEF Rising
    <3>2. i \in 1..m /\ queue'[i] = queue[i]
      BY <2>5, <3>1
    <3>3. CASE j = m + 1
      BY <2>1, <2>5, <2>6, <3>2, <3>3
    <3>4. CASE j \in 1..m
      BY <2>1, <2>5, <3>1, <3>2, <3>4 DEF Rising
    <3> QED
      BY <3>3, <3>4
  <2>8. ASSUME NEW i \in DOMAIN sent, NEW j \in DOMAIN queue'
        PROVE  sent[i] < queue'[j]
    <3>1. CASE j = m + 1
      <4>1. sent[i] \in 1..submitted
        BY <2>1, ElementOfSeq
      <4> QED
        BY <2>1, <2>5, <3>1, <4>1
    <3>2. CASE j \in 1..m
      BY <2>1, <2>5, <3>2
    <3> QED
      BY <2>5, <3>1, <3>2
  <2> QED
    BY <1>1, <1>2, <2>1, <2>3, <2>4, <2>5, <2>7, <2>8 DEF SdusInOrder
<1> QED
  BY <1>2, <1>4, <1>5, Quiet

LEMMA DiscardSduKeeps ==
  ASSUME NEW ack \in Nat, NEW next \in Nat, NEW missing \in Nat, NEW highest \in Nat,
         Numbered(ack, next, missing, highest), NEW x \in DOMAIN queue, DiscardSdu(x)
  PROVE  Numbered(ack, next, missing, highest)'
<1>1. /\ UNCHANGED <<txst, tx_window, sn_under_segmentation, retx, poll, rx, data, status, lengths, acked>>
      /\ submitted' = submitted /\ queue' = RemoveAt(queue, x)
  BY DEF DiscardSdu
<1>2. /\ UNCHANGED <<lengths, sent, tx_window, sn_under_segmentation, tx_next, tx_next_ack, retx_queue>>
      /\ UNCHANGED <<rxst, rx_window, reassembly, assembled, acked, data, status>>
      /\ UNCHANGED <<poll_timer, poll_expired, max_retx, told, do_status, prohibit, pulling, fresh, taken, spare>>
      /\ UNCHANGED <<poll_sn, retx_sn>>
  BY <1>1 DEF txst, retx, poll, rx, pulls
<1>3. /\ Grows /\ Begun' = Begun /\ Begun \in Nat
      /\ \A k \in 0..(Begun - 1) : Sdu(k)' = Sdu(k) /\ Gone(k)' = Gone(k) /\ Size(k)' = Size(k)
  BY <1>2, Idle, Order
<1>4. Radio(highest)' /\ Reports(next, highest)' /\ Scalars'
  BY <1>2, <1>3, RadioKept, ReportsKept DEF Numbered, Scalars
<1>5. SdusInOrder'
  <2>1. /\ lengths \in Submits /\ submitted \in 0..Len(lengths)
        /\ sent \in Seq(1..submitted) /\ queue \in Seq(1..submitted)
        /\ Rising(sent) /\ Rising(queue)
        /\ \A i \in DOMAIN sent, j \in DOMAIN queue : sent[i] < queue[j]
    BY DEF Numbered, SdusInOrder
  <2>2. x \in 1..Len(queue) /\ Len(queue) \in Nat /\ Len(queue) # 0 /\ DOMAIN queue = 1..Len(queue)
    BY <2>1
  <2>3. PICK m \in Nat : m = Len(queue) - 1
    <3>1. Len(queue) - 1 \in Nat
      BY <2>2
    <3> QED
      BY <3>1
  <2>4. /\ queue' \in Seq(1..submitted) /\ DOMAIN queue' = 1..m
        /\ \A j \in 1..m : queue'[j] = queue[IF j < x THEN j ELSE j + 1]
    <3>1. /\ RemoveAt(queue, x) \in Seq(1..submitted) /\ Len(RemoveAt(queue, x)) = Len(queue) - 1
          /\ \A j \in 1..(Len(queue) - 1) : RemoveAt(queue, x)[j] = IF j < x THEN queue[j] ELSE queue[j + 1]
      <4>1. queue \in Seq(1..submitted)
        BY <2>1
      <4> QED
        BY <2>2, <4>1, RemovedAt, Zenon
    <3>2. /\ queue' \in Seq(1..submitted) /\ Len(queue') = m
          /\ \A j \in 1..m : queue'[j] = IF j < x THEN queue[j] ELSE queue[j + 1]
      BY <1>1, <2>3, <3>1
    <3>3. \A j \in 1..m : queue'[j] = queue[IF j < x THEN j ELSE j + 1]
      BY <3>2
    <3> QED
      BY <3>2, <3>3
  <2>5. \A j \in 1..m : j \in DOMAIN queue /\ j + 1 \in DOMAIN queue
    BY <2>2, <2>3
  <2>6. Rising(queue')
    <3>1. SUFFICES ASSUME NEW i \in 1..m, NEW j \in 1..m, i < j
                   PROVE  queue'[i] < queue'[j]
      BY <2>4 DEF Rising
    <3>2. PICK a \in DOMAIN queue : a = IF i < x THEN i ELSE i + 1
      BY <2>5
    <3>3. PICK b \in DOMAIN queue : b = IF j < x THEN j ELSE j + 1
      BY <2>5
    <3>4. a < b
      BY <2>2, <3>1, <3>2, <3>3
    <3>5. queue'[i] = queue[a] /\ queue'[j] = queue[b]
      BY <2>4, <3>2, <3>3
    <3> QED
      BY <2>1, <3>4, <3>5 DEF Rising
  <2>7. ASSUME NEW i \in DOMAIN sent, NEW j \in DOMAIN queue'
        PROVE  sent[i] < queue'[j]
    <3>1. PICK b \in DOMAIN queue : b = IF j < x THEN j ELSE j + 1
      BY <2>4, <2>5
    <3>2. queue'[j] = queue[b]
      BY <2>4, <3>1
    <3> QED
      BY <2>1, <3>2
  <2> QED
    BY <1>1, <1>2, <2>1, <2>4, <2>6, <2>7 DEF SdusInOrder
<1> QED
  BY <1>2, <1>4, <1>5, Quiet

LEMMA ProhibitExpiresKeeps ==
  ASSUME NEW ack \in Nat, NEW next \in Nat, NEW missing \in Nat, NEW highest \in Nat,
         Numbered(ack, next, missing, highest), ProhibitExpires
  PROVE  Numbered(ack, next, missing, highest)'
<1>1. /\ UNCHANGED <<tx, rxst, rx_window, reassembly, do_status, assembled>>
      /\ UNCHANGED <<data, status, lengths, submitted, acked, pulling, fresh, taken, spare>>
      /\ prohibit' = FALSE
  BY DEF ProhibitExpires, pulls
<1>2. /\ UNCHANGED <<lengths, sent, tx_window, sn_under_segmentation, tx_next, tx_next_ack, retx_queue>>
      /\ UNCHANGED <<poll_timer, poll_expired, max_retx, told, poll_sn, retx_sn, queue>>
  BY <1>1 DEF tx, txst, retx, poll
<1>3. /\ Grows /\ Begun' = Begun /\ Begun \in Nat
      /\ \A k \in 0..(Begun - 1) : Sdu(k)' = Sdu(k) /\ Gone(k)' = Gone(k) /\ Size(k)' = Size(k)
  BY <1>2, Idle, Order
<1>4. Radio(highest)' /\ Reports(next, highest)'
  BY <1>1, <1>3, RadioKept, ReportsKept DEF Numbered
<1>5. Scalars' /\ SdusInOrder'
  BY <1>1, <1>2 DEF Numbered, Scalars, SdusInOrder, Rising
<1> QED
  BY <1>1, <1>2, <1>4, <1>5, Quiet

\* A report has left the radio, received or lost.
LEMMA ReportsFewer ==
  ASSUME NEW ack \in Nat, NEW next \in Nat, NEW missing \in Nat, NEW highest \in Nat,
         Numbered(ack, next, missing, highest), Grows, UNCHANGED <<taken, spare>>,
         \E i \in DOMAIN status : status' = RemoveAt(status, i)
  PROVE  Reports(next, highest)'
<1>1. Reports(next, highest)
  BY DEF Numbered
<1>2. \A s : Truthful(s, next, highest) => Truthful(s, next, highest)'
  BY TruthKept
<1>3. PICK x \in DOMAIN status : status' = RemoveAt(status, x)
  OBVIOUS
<1>4. status \in Seq(ReportRecs) /\ DOMAIN status = 1..Len(status) /\ Len(status) \in Nat /\ x \in 1..Len(status)
  BY <1>1, <1>3 DEF Reports
<1>5. /\ RemoveAt(status, x) \in Seq(ReportRecs) /\ Len(RemoveAt(status, x)) = Len(status) - 1
      /\ \A j \in 1..(Len(status) - 1) : RemoveAt(status, x)[j] = IF j < x THEN status[j] ELSE status[j + 1]
  BY <1>4, RemovedAt, Zenon
<1>6. /\ status' \in Seq(ReportRecs) /\ DOMAIN status' = 1..(Len(status) - 1)
      /\ \A j \in 1..(Len(status) - 1) : status'[j] = IF j < x THEN status[j] ELSE status[j + 1]
  BY <1>3, <1>4, <1>5
<1>7. ASSUME NEW j \in DOMAIN status'
      PROVE  Truthful(status[j], next, highest)'
  <2>1. PICK l \in DOMAIN status : status'[j] = status[l]
    BY <1>4, <1>6
  <2>2. PICK s : s = status[l]
    OBVIOUS
  <2>3. Truthful(s, next, highest) /\ s = status'[j]
    BY <1>1, <2>1, <2>2 DEF Reports
  <2>4. Truthful(s, next, highest)'
    BY <1>2, <2>3
  <2> QED
    BY <2>3, <2>4
<1> QED
  BY <1>1, <1>2, <1>6, <1>7 DEF Reports

LEMMA LostKeeps ==
  ASSUME NEW ack \in Nat, NEW next \in Nat, NEW missing \in Nat, NEW highest \in Nat,
         Numbered(ack, next, missing, highest), Lost
  PROVE  Numbered(ack, next, missing, highest)'
<1>1. UNCHANGED <<tx, rx, lengths, submitted, acked>>
  BY DEF Lost
<1>2. /\ UNCHANGED <<lengths, sent, tx_window, sn_under_segmentation, tx_next, tx_next_ack, retx_queue>>
      /\ UNCHANGED <<poll_timer, poll_expired, max_retx, told, poll_sn, retx_sn, queue>>
      /\ UNCHANGED <<rxst, rx_window, reassembly, assembled, acked, do_status, prohibit>>
      /\ UNCHANGED <<pulling, fresh, taken, spare>>
  BY <1>1 DEF tx, txst, retx, poll, rx, pulls
<1>3. /\ Grows /\ Begun' = Begun /\ Begun \in Nat
      /\ \A k \in 0..(Begun - 1) : Sdu(k)' = Sdu(k) /\ Gone(k)' = Gone(k) /\ Size(k)' = Size(k)
  BY <1>2, Idle, Order
<1>4. Radio(highest)' /\ Reports(next, highest)'
  <2>1. CASE data # << >> /\ data' = Tail(data) /\ UNCHANGED status
    <3>1. PICK no \in [DOMAIN data -> 0..(Begun - 1)] : OnAir(no, highest)
      BY DEF Numbered, Radio
    <3> QED
      BY <1>2, <1>3, <2>1, <3>1, RadioTail, ReportsKept
  <2>2. CASE (\E i \in DOMAIN status : status' = RemoveAt(status, i)) /\ UNCHANGED data
    <3>1. Radio(highest)'
      BY <1>3, <2>2, RadioKept DEF Numbered
    <3>2. Reports(next, highest)'
      BY <1>2, <1>3, <2>2, ReportsFewer
    <3> QED
      BY <3>1, <3>2
  <2> QED
    BY <2>1, <2>2 DEF Lost
<1>5. Scalars' /\ SdusInOrder'
  BY <1>1, <1>2 DEF Numbered, Scalars, SdusInOrder, Rising
<1> QED
  BY <1>2, <1>4, <1>5, Quiet

-----------------------------------------------------------------------------
(* Polls and reports *)

LEMMA PollExpiresKeeps ==
  ASSUME NEW ack \in Nat, NEW next \in Nat, NEW missing \in Nat, NEW highest \in Nat,
         Numbered(ack, next, missing, highest), PollExpires
  PROVE  Numbered(ack, next, missing, highest)'
<1>1. /\ UNCHANGED <<queue, txst, sn_under_segmentation, retx_sn, max_retx, rx>>
      /\ UNCHANGED <<data, status, lengths, submitted, acked>> /\ poll_timer' = FALSE
  BY DEF PollExpires
<1>2. /\ UNCHANGED <<lengths, sent, sn_under_segmentation, tx_next, tx_next_ack>>
      /\ UNCHANGED <<max_retx, poll_sn, retx_sn, queue>>
      /\ UNCHANGED <<rxst, rx_window, reassembly, assembled, acked, do_status, prohibit>>
      /\ UNCHANGED <<pulling, fresh, taken, spare>>
  BY <1>1 DEF txst, rx, pulls
<1>3. TxWindow(ack) /\ RetxQueue(ack) /\ SdusInOrder /\ Scalars /\ Begun \in Nat
  BY SduFacts DEF Numbered
<1> DEFINE stalled == NothingElse(queue, tx_window, sn_under_segmentation, retx_queue)
           count == tx_window[Sn(ack)].retx_count + 1
           again == stalled /\ Sn(ack) \in DOMAIN tx_window /\ Len(retx_queue) < Window
           part == [sn |-> Sn(ack), so |-> 0, length |-> Length(Sn(ack))]
<1>4. tx_next_ack = Sn(ack)
  BY <1>3 DEF TxWindow
<1>5. /\ again => /\ retx_queue' = Append(retx_queue, part)
                  /\ tx_window' = [tx_window EXCEPT ![Sn(ack)].retx_count = count]
                  /\ told' = (told \/ count = MaxRetx)
      /\ ~again => UNCHANGED <<retx_queue, tx_window, told>>
      /\ poll_expired' \in {poll_expired, TRUE}
  BY <1>4 DEF PollExpires
<1>6. ASSUME again
      PROVE  /\ ack \in ack..(Begun - 1) /\ TxSlot(ack) /\ Gone(ack) = Size(ack)
             /\ Length(Sn(ack)) = Size(ack) /\ Size(ack) \in Nat \ {0} /\ Sn(ack) \in 0..(Mod - 1)
  <2>1. PICK l \in ack..(Begun - 1) : Sn(ack) = Sn(l)
    BY <1>3, <1>6 DEF TxWindow
  <2>2. ack \in ack..(Begun - 1)
    BY <1>3, <2>1
  <2>3. TxSlot(ack)
    BY <1>3, <2>2 DEF TxWindow
  <2>4. Size(ack) \in Nat \ {0} /\ Sn(ack) \in 0..(Mod - 1)
    BY <1>3, <2>2, SduFacts, SnType
  <2>5. ASSUME Segmenting
        PROVE  ack # Begun - 1
    <3> SUFFICES ASSUME ack = Begun - 1
                 PROVE  FALSE
      OBVIOUS
    <3>0. TxBase(tx_next) = 0
      <4>1. Unsent = ack
        BY <2>5 DEF Unsent
      <4>2. ack \in ack..(ack + Mod - 1)
        BY Sizes
      <4> QED
        BY <1>3, <4>1, <4>2, TxBaseIs DEF TxWindow
    <3>1. Cardinality(DOMAIN tx_window) = Window
      BY <1>6, <2>5, <3>0, Sizes DEF NothingElse, TxFull, Segmenting
    <3>2. DOMAIN tx_window = {Sn(k) : k \in ack..(Begun - 1)} /\ Begun <= ack + Window
      BY <1>3 DEF TxWindow
    <3>3. ack \in Int /\ Begun \in Int /\ ack <= Begun /\ Begun <= ack + Mod
      BY <1>3, <2>2, <3>2, Sizes
    <3>4. Cardinality({Sn(k) : k \in ack..(Begun - 1)}) = Begun - ack
      BY <3>3, SnsInARow
    <3>5. Window = Begun - ack
      BY <3>1, <3>2, <3>4, Zenon
    <3> QED
      BY <3>3, <3>5, Sizes
  <2>6. Gone(ack) = Size(ack)
    BY <2>5 DEF Gone
  <2> QED
    BY <2>2, <2>3, <2>4, <2>6 DEF TxSlot, Length, Size
<1>7. /\ DOMAIN tx_window' = DOMAIN tx_window
      /\ \A k \in ack..(Begun - 1) :
           /\ tx_window'[Sn(k)] \in [sdu : Nat, next_so : Nat, retx_count : Int]
           /\ tx_window'[Sn(k)].sdu = tx_window[Sn(k)].sdu
           /\ tx_window'[Sn(k)].next_so = tx_window[Sn(k)].next_so
  <2>1. \A k \in ack..(Begun - 1) :
           /\ tx_window[Sn(k)] \in [sdu : Nat, next_so : Nat, retx_count : Int]
           /\ Sn(k) \in DOMAIN tx_window
    BY <1>3 DEF TxWindow, TxSlot
  <2>2. CASE again
    <3>1. count \in Int
      BY <1>6, <2>1, <2>2
    <3>2. tx_window' = [tx_window EXCEPT ![Sn(ack)].retx_count = count]
      BY <1>5, <2>2
    <3> HIDE DEF count
    <3> QED
      BY <2>1, <3>1, <3>2
  <2>3. CASE ~again
    BY <1>5, <2>1, <2>3
  <2> QED
    BY <2>2, <2>3
<1>8. TxWindow(ack)'
  BY <1>2, <1>3, <1>7, TxWindowKept
<1>9. /\ Grows /\ Begun' = Begun
      /\ \A k \in 0..(Begun - 1) : Sdu(k)' = Sdu(k) /\ Gone(k)' = Gone(k) /\ Size(k)' = Size(k)
  BY <1>2, <1>3, <1>7, NothingNew
<1>10. RetxQueue(ack)'
  <2>1. Resendables(ack)' = Resendables(ack)
    BY <1>3, <1>9 DEF Resendables
  <2>2. retx_queue \in Seq(Resendables(ack))
    BY <1>3 DEF RetxQueue
  <2>3. CASE again
    <3>1. part \in Resendables(ack)
      BY <1>6, <2>3 DEF Resendables
    <3> QED
      <4>1. retx_queue' = Append(retx_queue, part)
        BY <1>5, <2>3
      <4>2. Append(retx_queue, part) \in Seq(Resendables(ack))
        BY <2>2, <3>1, AppendProperties
      <4> QED
        BY <2>1, <4>1, <4>2 DEF RetxQueue
  <2>4. CASE ~again
    BY <1>5, <2>1, <2>2, <2>4 DEF RetxQueue
  <2> QED
    BY <2>3, <2>4
<1>11. Radio(highest)'
  BY <1>1, <1>3, <1>9, RadioKept DEF Numbered
<1>12. Scalars'
  <2>1. told' \in BOOLEAN
    BY <1>3, <1>5 DEF Scalars
  <2>2. poll_expired' \in BOOLEAN
    BY <1>3, <1>5 DEF Scalars
  <2> QED
    BY <1>1, <1>2, <1>3, <2>1, <2>2 DEF Scalars
<1>13. SdusInOrder'
  BY <1>1, <1>2, <1>3 DEF SdusInOrder, Rising
<1> QED
  BY <1>1, <1>8, <1>9, <1>10, <1>11, <1>12, <1>13, Pulled

\* A finite set stays finite when every element is replaced by another.
LEMMA FiniteImage ==
  ASSUME NEW S, IsFiniteSet(S), NEW f
  PROVE  IsFiniteSet({f[x] : x \in S})
<1> DEFINE g == [x \in S |-> f[x]]
           T == {f[x] : x \in S}
<1>1. g \in Surjection(S, T)
  <2>1. g \in [S -> T]
    OBVIOUS
  <2>2. \A t \in T : \E x \in S : g[x] = t
    OBVIOUS
  <2> QED
    BY <2>1, <2>2 DEF Surjection
<1> QED
  BY <1>1, FS_Surjection

LEMMA IntervalIsFinite ==
  ASSUME NEW a \in Int, NEW b \in Int
  PROVE  IsFiniteSet(a..b)
BY FS_Interval

\* What a report says of one number of the receiving window.
LEMMA NacksOfNumber ==
  ASSUME NEW ack \in Nat, NEW next \in Nat, NEW missing \in Nat, NEW highest \in Nat,
         Numbered(ack, next, missing, highest), NEW k \in next..(missing - 1)
  PROVE  /\ NacksOf(Sn(k)) \subseteq Nacks /\ IsFiniteSet(NacksOf(Sn(k)))
         /\ \A nack \in NacksOf(Sn(k)) : Misses(nack, k)
         /\ ~Full(k) => NacksOf(Sn(k)) # {}
<1> DEFINE sn == Sn(k)
           got == rx_window[sn].got
           ends == {b \in 0..Max(got) : b \notin got /\ b + 1 \in got}
           start(b) == Min({c \in 0..b : c..b \cap got = {}})
           nack(so, end) == [sn |-> sn, has_so |-> TRUE, so |-> so, end |-> end]
           unseen == [nack(0, OpenEnd) EXCEPT !.has_so = FALSE]
<1>1. /\ k \in 0..(Begun - 1) /\ k < highest /\ k \in next..(highest - 1)
      /\ Begun \in Nat /\ Unsent \in Nat /\ Begun <= Unsent + 1 /\ highest <= Begun
  BY Order
<1>2. sn \in 0..(Mod - 1) /\ OpenEnd \in Nat
  BY SnType DEF OpenEnd
<1>3. RxWindow(next, missing, highest)
  BY DEF Numbered
<1>4. CASE sn \notin DOMAIN rx_window
  <2>1. NacksOf(sn) = {unseen}
    BY <1>4 DEF NacksOf
  <2>2. unseen.sn = sn /\ unseen.has_so = FALSE /\ unseen.so = 0 /\ unseen.end = OpenEnd /\ unseen \in Nacks
    BY <1>2 DEF Nacks
  <2>3. k # highest - 1
    BY <1>1, <1>3, <1>4 DEF RxWindow
  <2>4. k < Unsent
    BY <1>1, <2>3
  <2>5. Misses(unseen, k)
    BY <1>2, <2>2, <2>4 DEF Misses
  <2>6. IsFiniteSet({unseen})
    BY FS_Singleton
  <2> HIDE DEF unseen
  <2> QED
    BY <2>1, <2>2, <2>5, <2>6
<1>5. CASE sn \in DOMAIN rx_window /\ Full(k)
  <2>1. NacksOf(sn) = {}
    BY <1>5 DEF NacksOf, Full
  <2> QED
    BY <1>5, <2>1, FS_EmptySet
<1>6. CASE sn \in DOMAIN rx_window /\ ~Full(k)
  <2>1. NacksOf(sn) = {nack(start(b), b) : b \in ends}
                        \cup (IF rx_window[sn].last THEN {} ELSE {nack(Max(got) + 1, OpenEnd)})
    BY <1>6 DEF NacksOf, Full
  <2>2. /\ got \subseteq Nat /\ got # {} /\ \A b \in got : b < Gone(k)
        /\ rx_window[sn].last <=> (Size(k) - 1) \in got
    BY <1>1, <1>3, <1>6 DEF RxWindow, RxSlot, Holds
  <2>3. Gone(k) \in Nat \ {0} /\ Gone(k) <= Size(k) /\ Size(k) \in Nat \ {0}
    BY <1>1, GoneFacts, SduFacts DEF Numbered
  <2>4. PICK top \in got : top = Max(got) /\ \A b \in got : b <= top
    <3>1. \A b \in got : b <= Gone(k)
      BY <2>2, <2>3
    <3> HIDE DEF got
    <3> QED
      BY <2>2, <2>3, <3>1, MaxIsLargest
  <2>5. top \in Nat /\ top < Gone(k)
    BY <2>2, <2>4
  <2>6. ends \subseteq Nat /\ IsFiniteSet(ends) /\ \A b \in ends : b + 1 \in got /\ b \notin got
    <3>1. IsFiniteSet(0..top)
      BY <2>5, IntervalIsFinite
    <3>2. ends \in SUBSET (0..top)
      BY <2>4
    <3> QED
      BY <2>5, <3>1, <3>2, FS_Subset
  <2>7. ASSUME NEW b \in ends
        PROVE  start(b) \in 0..b
    <3> DEFINE T == {c \in 0..b : c..b \cap got = {}}
    <3>1. b \in Nat /\ b \notin got
      BY <2>6
    <3>2. b \in T
      BY <3>1
    <3>3. T \subseteq Nat /\ T # {}
      BY <3>1, <3>2
    <3>4. Min(T) \in T
      <4> HIDE DEF T
      <4> QED
        BY <3>3, MinIsSmallest
    <3> QED
      BY <3>4
  <2>8. PICK f : f = [b \in ends |-> nack(start(b), b)]
    OBVIOUS
  <2>9. /\ {nack(start(b), b) : b \in ends} = {f[b] : b \in ends}
        /\ \A b \in ends : f[b] = [sn |-> sn, has_so |-> TRUE, so |-> start(b), end |-> b]
    BY <2>8
  <2>10. IsFiniteSet({f[b] : b \in ends})
    BY <2>6, FiniteImage
  <2>11. \A b \in ends : f[b] \in Nacks /\ Misses(f[b], k)
    <3>1. SUFFICES ASSUME NEW b \in ends
                   PROVE  f[b] \in Nacks /\ Misses(f[b], k)
      OBVIOUS
    <3>2. PICK c \in Nat : c = start(b) /\ c <= b
      <4>1. b \in Nat /\ start(b) \in 0..b
        BY <2>6, <2>7
      <4> HIDE DEF start
      <4> QED
        BY <4>1
    <3>3. f[b] = [sn |-> sn, has_so |-> TRUE, so |-> c, end |-> b]
      BY <2>9, <3>2
    <3>4. b \in Nat /\ b + 1 < Gone(k)
      BY <2>2, <2>6
    <3>5. f[b].sn = sn /\ f[b].has_so = TRUE /\ f[b].so = c /\ f[b].end = b /\ f[b] \in Nacks
      BY <1>2, <3>2, <3>3, <3>4 DEF Nacks
    <3>6. c < Size(k) /\ b < Gone(k)
      BY <2>3, <3>2, <3>4
    <3> QED
      BY <3>2, <3>4, <3>5, <3>6 DEF Misses
  <2>12. CASE rx_window[sn].last
    <3>1. NacksOf(sn) = {f[b] : b \in ends}
      BY <2>1, <2>9, <2>12
    <3>2. ends # {}
      <4>1. PICK b \in got : ~(0..b \subseteq got)
        BY <1>6, <2>12 DEF Full, FullIn, HasGap
      <4>2. PICK c \in 0..b : c \notin got
        BY <4>1
      <4> DEFINE T == {y \in got : y > c}
      <4>3. b \in T /\ T \subseteq Nat
        BY <2>2, <4>1, <4>2
      <4>4. PICK e \in T : \A y \in T : e <= y
        <5>1. T # {}
          BY <4>3
        <5> HIDE DEF T
        <5> QED
          BY <4>3, <5>1, MinIsSmallest
      <4>5. e \in got /\ e \in Nat /\ c \in Nat /\ e > c
        BY <4>2, <4>3, <4>4
      <4>6. e - 1 \notin got
        BY <4>2, <4>4, <4>5
      <4>7. e - 1 \in 0..top /\ (e - 1) + 1 \in got
        BY <2>4, <2>5, <4>5
      <4>8. e - 1 \in ends
        BY <2>4, <4>6, <4>7
      <4> QED
        BY <4>8
    <3> HIDE DEF ends
    <3>3. NacksOf(sn) # {}
      BY <3>1, <3>2
    <3>4. /\ NacksOf(sn) \subseteq Nacks /\ IsFiniteSet(NacksOf(sn))
          /\ \A n \in NacksOf(sn) : Misses(n, k)
      BY <2>10, <2>11, <3>1
    <3> QED
      BY <3>3, <3>4
  <2>13. CASE ~rx_window[sn].last
    <3>1. PICK tail \in Nacks : tail = [sn |-> sn, has_so |-> TRUE, so |-> top + 1, end |-> OpenEnd]
      <4>1. top + 1 \in Nat
        BY <2>5
      <4>2. [sn |-> sn, has_so |-> TRUE, so |-> top + 1, end |-> OpenEnd] \in Nacks
        BY <1>2, <4>1 DEF Nacks
      <4> QED
        BY <4>2
    <3>2. NacksOf(sn) = {f[b] : b \in ends} \cup {tail}
      BY <2>1, <2>4, <2>9, <2>13, <3>1
    <3>3. top + 1 < Size(k)
      <4>1. top # Size(k) - 1
        BY <2>2, <2>4, <2>13
      <4> QED
        BY <2>3, <2>5, <4>1
    <3>4. Misses(tail, k)
      BY <1>2, <2>5, <3>1, <3>3 DEF Misses
    <3>5. IsFiniteSet({f[b] : b \in ends} \cup {tail})
      BY <2>10, FS_Singleton, FS_Union
    <3> HIDE DEF ends
    <3> QED
      BY <2>11, <3>2, <3>4, <3>5
  <2> QED
    BY <2>12, <2>13
<1> QED
  BY <1>4, <1>5, <1>6

\* The transmitter has let go of as many SDUs as it has numbers behind it.
LEMMA AckedCount ==
  ASSUME NEW ack \in Nat, NEW next \in Nat, NEW missing \in Nat, NEW highest \in Nat,
         Numbered(ack, next, missing, highest)
  PROVE  Cardinality(acked) = ack
<1> DEFINE ks == 0..(ack - 1)
           f  == [k \in ks |-> Sdu(k)]
<1>1. ack <= Begun /\ Begun \in Nat
  BY Order
<1>2. acked = {Sdu(k) : k \in ks} /\ SdusInOrder
  BY DEF Numbered, History
<1>3. IsFiniteSet(ks) /\ Cardinality(ks) = ack
  <2>1. ack - 1 \in Int /\ (IF 0 > ack - 1 THEN 0 ELSE (ack - 1) - 0 + 1) = ack
    OBVIOUS
  <2>2. /\ IsFiniteSet(0..(ack - 1))
        /\ Cardinality(0..(ack - 1)) = IF 0 > ack - 1 THEN 0 ELSE (ack - 1) - 0 + 1
    BY <2>1, FS_Interval
  <2> QED
    BY <2>1, <2>2
<1>4. f \in Bijection(ks, acked)
  <2>1. \A a, b \in ks : f[a] = f[b] => a = b
    <3>1. \A k \in ks : k \in 0..(Begun - 1)
      BY <1>1
    <3> QED
      BY <1>2, <3>1, SduFacts
  <2>2. \A s \in acked : \E a \in ks : f[a] = s
    BY <1>2
  <2>3. f \in [ks -> acked]
    BY <1>2
  <2> QED
    BY <2>1, <2>2, <2>3 DEF Bijection, Injection, Surjection, IsInjective
<1>5. ExistsBijection(ks, acked)
  BY <1>4 DEF ExistsBijection
<1> HIDE DEF ks
<1> QED
  BY <1>3, <1>5, FS_Bijection

\* A report that is made now is true.
LEMMA ReportIsTrue ==
  ASSUME NEW ack \in Nat, NEW next \in Nat, NEW missing \in Nat, NEW highest \in Nat,
         Numbered(ack, next, missing, highest)
  PROVE  Truthful(Report, next, highest)
<1>6. PICK r : r = Report
  OBVIOUS
<1>7. /\ next <= missing /\ missing <= highest /\ missing <= next + Window /\ highest <= Begun
      /\ ack <= next /\ rx_next = Sn(next) /\ rx_highest_status = Sn(missing)
      /\ missing < highest \/ missing = highest
  <2>1. next <= missing /\ missing <= highest /\ highest <= Begun /\ ack <= next /\ Begun <= ack + Window
        /\ Begun \in Nat
    BY Order
  <2>2. missing <= next + Window
    BY <2>1, Sizes
  <2> QED
    BY <2>1, <2>2 DEF Numbered, RxWindow
<1>8. /\ r.ack = Sn(missing)
      /\ r.nacks = UNION {NacksOf(Sn(next + n)) : n \in 0..(missing - next - 1)}
  <2>1. RxBase(rx_highest_status) = missing - next
    BY <1>7, RxBaseIs, Sizes
  <2>2. \A n \in 0..(missing - next - 1) : Plus(rx_next, n) = Sn(next + n)
    BY <1>7, PlusSn
  <2>3. {NacksOf(Plus(rx_next, n)) : n \in 0..(missing - next - 1)}
          = {NacksOf(Sn(next + n)) : n \in 0..(missing - next - 1)}
    BY <2>2
  <2> QED
    BY <1>6, <1>7, <2>1, <2>3 DEF Report
<1>9. \A n \in 0..(missing - next - 1) : next + n \in next..(missing - 1)
  BY <1>7
<1>10. r.nacks \subseteq Nacks /\ IsFiniteSet(r.nacks)
  <2> DEFINE sets == {NacksOf(Sn(next + n)) : n \in 0..(missing - next - 1)}
  <2>1. \A T \in sets : T \subseteq Nacks /\ IsFiniteSet(T)
    BY <1>9, NacksOfNumber
  <2>2. PICK f : f = [n \in 0..(missing - next - 1) |-> NacksOf(Sn(next + n))]
    OBVIOUS
  <2>3. sets = {f[n] : n \in 0..(missing - next - 1)}
    BY <2>2
  <2>4. IsFiniteSet(0..(missing - next - 1))
    BY <1>7, IntervalIsFinite
  <2>5. IsFiniteSet(sets)
    BY <2>3, <2>4, FiniteImage
  <2> HIDE DEF sets
  <2>6. IsFiniteSet(UNION sets) /\ UNION sets \subseteq Nacks
    BY <2>1, <2>5, FS_UNION
  <2> QED
    BY <1>8, <2>6 DEF sets
<1>11. \A nack \in r.nacks : \E k \in next..(missing - 1) : Misses(nack, k)
  <2>1. SUFFICES ASSUME NEW nack \in r.nacks
                 PROVE  \E k \in next..(missing - 1) : Misses(nack, k)
    OBVIOUS
  <2>2. PICK n \in 0..(missing - next - 1) : nack \in NacksOf(Sn(next + n))
    BY <1>8
  <2> QED
    BY <1>9, <2>2, NacksOfNumber
<1>12. ASSUME next < missing
       PROVE  \E nack \in r.nacks : nack.sn = Sn(next)
  <2>1. ~Full(next) /\ next \in next..(missing - 1)
    BY <1>7, <1>12 DEF Numbered, RxWindow
  <2>2. PICK nack \in NacksOf(Sn(next)) : Misses(nack, next)
    BY <2>1, NacksOfNumber
  <2>3. 0 \in 0..(missing - next - 1) /\ next + 0 = next
    BY <1>7, <1>12
  <2>4. nack \in r.nacks
    BY <1>8, <2>2, <2>3
  <2> QED
    BY <2>2, <2>4 DEF Misses
<1>13. Says(r, next, missing)
  BY <1>8, <1>10, <1>11, <1>12 DEF Says
<1>14. r.at = ack
  BY <1>6, AckedCount DEF Report
<1>15. r \in ReportRecs
  <2>1. Sn(missing) \in 0..(Mod - 1)
    BY SnType
  <2>2. r = [ack |-> r.ack, nacks |-> r.nacks, at |-> r.at]
    BY <1>6 DEF Report
  <2> QED
    BY <1>8, <1>10, <1>14, <2>1, <2>2 DEF ReportRecs
<1>16. TrueFrom(r, next, missing, next, highest)
  BY <1>7, <1>13, <1>14 DEF TrueFrom
<1>17. Truthful(r, next, highest)
  BY <1>15, <1>16 DEF Truthful
<1> QED
  BY <1>6, <1>17

\* Cutting a report short leaves it true.
LEMMA TrimmedIsTrue ==
  ASSUME NEW next \in Nat, NEW highest \in Nat, NEW s, Truthful(s, next, highest),
         NEW t \in Trimmed(s)
  PROVE  Truthful(t, next, highest)
<1>1. PICK first, to \in Int : TrueFrom(s, first, to, next, highest)
  BY DEF Truthful
<1>2. /\ s \in ReportRecs /\ s.ack = Sn(to) /\ s.nacks \subseteq Nacks /\ IsFiniteSet(s.nacks)
      /\ \A nack \in s.nacks : \E k \in first..(to - 1) : Misses(nack, k)
      /\ first < to => \E nack \in s.nacks : nack.sn = Sn(first)
      /\ -1 <= first /\ first <= to /\ to <= first + Window /\ first <= next /\ to <= highest
      /\ s.at <= first /\ (first < to => 0 <= first)
  BY <1>1 DEF Truthful, TrueFrom, Says
<1>3. CASE t = s
  BY <1>3
<1>4. CASE \E cut \in s.nacks : t = TrimmedTo(s, cut.sn)
  <2>1. PICK cut \in s.nacks : t = TrimmedTo(s, cut.sn)
    BY <1>4
  <2>2. PICK c \in first..(to - 1) : Misses(cut, c)
    BY <1>2
  <2>3. /\ first < to /\ 0 <= first /\ cut.sn = Sn(c) /\ c \in Int
        /\ first <= c /\ c < to
    BY <1>2, <2>2 DEF Misses
  <2>4. \A k \in first..to : (Sn(to) - Sn(k)) % Mod = to - k
    <3>1. SUFFICES ASSUME NEW k \in first..to
                   PROVE  (Sn(to) - Sn(k)) % Mod = to - k
      OBVIOUS
    <3>2. k \in Int /\ to \in Int /\ k <= to /\ to < k + Mod
      BY <1>2, Sizes
    <3> QED
      BY <3>2, Ahead
  <2> DEFINE left == {nack \in s.nacks : (s.ack - nack.sn) % Mod > (s.ack - cut.sn) % Mod}
  <2>5. t = [ack |-> Sn(c), nacks |-> left, at |-> s.at]
    BY <1>2, <2>1, <2>3 DEF TrimmedTo, ReportRecs
  <2>6. left \in SUBSET Nacks /\ IsFiniteSet(left)
    <3>1. left \in SUBSET s.nacks
      OBVIOUS
    <3>2. IsFiniteSet(left)
      BY <1>2, <3>1, FS_Subset
    <3> QED
      BY <1>2, <3>1, <3>2
  <2>7. \A nack \in s.nacks : \A k \in first..(to - 1) :
          nack.sn = Sn(k) => (nack \in left <=> k < c)
    <3>1. SUFFICES ASSUME NEW nack \in s.nacks, NEW k \in first..(to - 1), nack.sn = Sn(k)
                   PROVE  nack \in left <=> k < c
      OBVIOUS
    <3>2. k \in first..to /\ c \in first..to
      BY <2>3
    <3>3. (s.ack - nack.sn) % Mod = to - k /\ (s.ack - cut.sn) % Mod = to - c
      BY <1>2, <2>3, <2>4, <3>1, <3>2
    <3>4. nack \in left <=> to - k > to - c
      BY <3>3
    <3> QED
      BY <2>3, <3>4
  <2>8. \A nack \in left : \E k \in first..(c - 1) : Misses(nack, k)
    <3>1. SUFFICES ASSUME NEW nack \in left
                   PROVE  \E k \in first..(c - 1) : Misses(nack, k)
      OBVIOUS
    <3>2. PICK k \in first..(to - 1) : Misses(nack, k)
      BY <1>2
    <3>3. nack.sn = Sn(k)
      BY <3>2 DEF Misses
    <3>4. k < c
      BY <2>7, <3>3
    <3> QED
      BY <2>3, <3>2, <3>4
  <2>9. first < c => \E nack \in left : nack.sn = Sn(first)
    <3>1. PICK nack \in s.nacks : nack.sn = Sn(first)
      BY <1>2, <2>3
    <3>2. first \in first..(to - 1)
      BY <2>3
    <3> QED
      BY <2>7, <3>1, <3>2
  <2>10. t \in ReportRecs /\ t.ack = Sn(c) /\ t.nacks = left /\ t.at = s.at
    <3>1. Sn(c) \in 0..(Mod - 1) /\ s.at \in Int
      BY <1>2, <2>3, SnType DEF ReportRecs
    <3> HIDE DEF left
    <3> QED
      BY <2>5, <2>6, <3>1 DEF ReportRecs
  <2> HIDE DEF left
  <2>11. Says(t, first, c)
    BY <2>6, <2>8, <2>9, <2>10 DEF Says
  <2>12. TrueFrom(t, first, c, next, highest)
    BY <1>2, <2>3, <2>10, <2>11, Sizes DEF TrueFrom
  <2> QED
    BY <2>3, <2>10, <2>12 DEF Truthful
<1> QED
  BY <1>3, <1>4 DEF Trimmed

\* The report that never was made.
LEMMA NoReportIsTrue ==
  ASSUME NEW next \in Nat, NEW highest \in Nat
  PROVE  Truthful(NoReport, next, highest)
<1>1. Sn(-1) = Mod - 1 /\ Mod - 1 \in 0..(Mod - 1)
  <2>1. Mod - 1 \in 0..(Mod - 1) /\ -1 \in Int /\ -1 = (-1) * Mod + (Mod - 1) /\ -1 \in Int
    BY Sizes
  <2> QED
    BY <2>1, SnIs
<1>2. NoReport \in ReportRecs
  BY <1>1 DEF NoReport, ReportRecs
<1>3. Says(NoReport, -1, -1)
  BY <1>1, FS_EmptySet DEF Says, NoReport
<1>4. TrueFrom(NoReport, -1, -1, next, highest)
  BY <1>3, Sizes DEF TrueFrom, NoReport
<1> QED
  BY <1>2, <1>4 DEF Truthful

LEMMA TakeStatusKeeps ==
  ASSUME NEW ack \in Nat, NEW next \in Nat, NEW missing \in Nat, NEW highest \in Nat,
         Numbered(ack, next, missing, highest), TakeStatus
  PROVE  Numbered(ack, next, missing, highest)'
<1>1. /\ UNCHANGED <<tx, rxst, rx_window, reassembly, fresh, taken, spare, assembled>>
      /\ UNCHANGED <<data, status, lengths, submitted, acked>>
      /\ do_status' = FALSE /\ prohibit' = TRUE /\ pulling' = TRUE
  BY DEF TakeStatus
<1>2. /\ UNCHANGED <<lengths, sent, tx_window, sn_under_segmentation, tx_next, tx_next_ack, retx_queue>>
      /\ UNCHANGED <<poll_timer, poll_expired, max_retx, told, poll_sn, retx_sn, queue>>
  BY <1>1 DEF tx, txst, retx, poll
<1>3. /\ Grows /\ Begun' = Begun /\ Begun \in Nat
      /\ \A k \in 0..(Begun - 1) : Sdu(k)' = Sdu(k) /\ Gone(k)' = Gone(k) /\ Size(k)' = Size(k)
  BY <1>2, Idle, Order
<1>4. Radio(highest)' /\ Reports(next, highest)'
  BY <1>1, <1>3, RadioKept, ReportsKept DEF Numbered
<1>5. Scalars' /\ SdusInOrder'
  BY <1>1, <1>2 DEF Numbered, Scalars, SdusInOrder, Rising
<1> QED
  BY <1>1, <1>2, <1>4, <1>5, Quiet

LEMMA SendStatusKeeps ==
  ASSUME NEW ack \in Nat, NEW next \in Nat, NEW missing \in Nat, NEW highest \in Nat,
         Numbered(ack, next, missing, highest), SendStatus
  PROVE  Numbered(ack, next, missing, highest)'
<1>1. /\ UNCHANGED <<tx, rxst, rx_window, reassembly, do_status, prohibit, assembled>>
      /\ UNCHANGED <<data, lengths, submitted, acked>>
      /\ pulling' = FALSE /\ fresh' = FALSE
      /\ spare' = IF do_status THEN taken ELSE NoReport
  BY DEF SendStatus
<1>2. /\ UNCHANGED <<lengths, sent, tx_window, sn_under_segmentation, tx_next, tx_next_ack, retx_queue>>
      /\ UNCHANGED <<poll_timer, poll_expired, max_retx, told, poll_sn, retx_sn, queue>>
  BY <1>1 DEF tx, txst, retx, poll
<1>3. /\ Grows /\ Begun' = Begun /\ Begun \in Nat
      /\ \A k \in 0..(Begun - 1) : Sdu(k)' = Sdu(k) /\ Gone(k)' = Gone(k) /\ Size(k)' = Size(k)
  BY <1>2, Idle, Order
<1>4. Radio(highest)'
  BY <1>1, <1>3, RadioKept DEF Numbered
<1>5. Scalars' /\ SdusInOrder'
  BY <1>1, <1>2 DEF Numbered, Scalars, SdusInOrder, Rising
<1>6. Reports(next, highest)
  BY DEF Numbered
<1>7. \A s : Truthful(s, next, highest) => Truthful(s, next, highest)'
  BY <1>3, TruthKept
<1>8. PICK given : given = (IF fresh THEN Report ELSE spare)
  OBVIOUS
<1>9. Truthful(given, next, highest)
  BY <1>6, <1>8, ReportIsTrue DEF Reports
<1>10. PICK r \in Trimmed(given) : status' = Append(status, r) /\ taken' = r
  BY <1>8 DEF SendStatus
<1>11. Truthful(r, next, highest) /\ r \in ReportRecs
  BY <1>9, <1>10, TrimmedIsTrue DEF Truthful
<1>12. Truthful(taken, next, highest)'
  <2>1. Truthful(r, next, highest)' /\ taken' = r
    BY <1>7, <1>10, <1>11
  <2> QED
    BY <2>1
<1>13. Truthful(spare, next, highest)'
  <2>1. PICK s : s = spare'
    OBVIOUS
  <2>2. Truthful(s, next, highest)
    BY <1>1, <1>6, <2>1, NoReportIsTrue DEF Reports
  <2>3. Truthful(s, next, highest)'
    BY <1>7, <2>2
  <2> QED
    BY <2>1, <2>3
<1>14. status' \in Seq(ReportRecs) /\ \A i \in DOMAIN status' : Truthful(status[i], next, highest)'
  <2>1. status \in Seq(ReportRecs) /\ Len(status) \in Nat
    BY <1>6 DEF Reports
  <2>2. /\ status' \in Seq(ReportRecs) /\ DOMAIN status' = 1..(Len(status) + 1)
        /\ status'[Len(status) + 1] = r /\ \A i \in 1..Len(status) : status'[i] = status[i]
    BY <1>10, <1>11, <2>1
  <2>3. ASSUME NEW i \in DOMAIN status'
        PROVE  Truthful(status[i], next, highest)'
    <3>1. PICK s : s = status'[i]
      OBVIOUS
    <3>2. Truthful(s, next, highest)
      <4>1. CASE i = Len(status) + 1
        BY <1>11, <2>2, <3>1, <4>1
      <4>2. CASE i # Len(status) + 1
        <5>1. i \in DOMAIN status /\ status'[i] = status[i]
          BY <2>1, <2>2, <4>2
        <5> QED
          BY <1>6, <3>1, <5>1 DEF Reports
      <4> QED
        BY <4>1, <4>2
    <3>3. Truthful(s, next, highest)'
      BY <1>7, <3>2
    <3> QED
      BY <3>1, <3>3
  <2> QED
    BY <2>2, <2>3
<1>16. Reports(next, highest)'
  BY <1>12, <1>13, <1>14 DEF Reports
<1> QED
  BY <1>1, <1>2, <1>4, <1>5, <1>16, Quiet

\* Below the first number that a report misses everything is acknowledged.
LEMMA AckedBySns ==
  ASSUME NEW ack \in Nat, NEW next \in Nat, NEW missing \in Nat, NEW highest \in Nat,
         Numbered(ack, next, missing, highest),
         NEW s, NEW first \in ack..next, NEW to \in first..highest, Says(s, first, to)
  PROVE  AckedBy(s) = {Sn(k) : k \in ack..(first - 1)}
<1> DEFINE M == {TxBase(s.ack)} \cup {TxBase(nack.sn) : nack \in s.nacks}
<1>1. /\ Begun \in Nat /\ highest <= Begun /\ Begun <= ack + Window /\ first <= Begun
      /\ first \in Nat /\ to \in Nat /\ first <= to /\ to <= highest /\ ack <= first
  BY Order
<1>2. tx_next_ack = Sn(ack) /\ DOMAIN tx_window = {Sn(k) : k \in ack..(Begun - 1)}
  BY DEF Numbered, TxWindow
<1>3. \A k \in ack..Begun : TxBase(Sn(k)) = k - ack
  <2>1. \A k \in ack..Begun : k \in ack..(ack + Mod - 1)
    BY <1>1, Sizes
  <2> QED
    BY <1>2, <2>1, TxBaseIs
<1>4. TxBase(s.ack) = to - ack
  BY <1>1, <1>3 DEF Says
<1>5. \A nack \in s.nacks : \E k \in first..(to - 1) : nack.sn = Sn(k) /\ TxBase(nack.sn) = k - ack
  <2>1. \A k \in first..(to - 1) : k \in ack..Begun
    BY <1>1
  <2> QED
    BY <1>3, <2>1 DEF Says, Misses
<1>6. M \subseteq Nat /\ M # {} /\ \A y \in M : first - ack <= y
  <2>1. ASSUME NEW y \in M
        PROVE  y \in Nat /\ first - ack <= y
    <3>1. CASE y = TxBase(s.ack)
      BY <1>1, <1>4, <3>1
    <3>2. CASE \E nack \in s.nacks : y = TxBase(nack.sn)
      <4>1. PICK k \in first..(to - 1) : y = k - ack
        BY <1>5, <3>2
      <4> QED
        BY <1>1, <4>1
    <3> QED
      BY <2>1, <3>1, <3>2
  <2> QED
    BY <2>1
<1>7. first - ack \in M
  <2>1. CASE first < to
    <3>1. PICK nack \in s.nacks : nack.sn = Sn(first)
      BY <2>1 DEF Says
    <3>2. TxBase(nack.sn) = first - ack
      BY <1>1, <1>3, <3>1
    <3> QED
      BY <3>2
  <2>2. CASE first = to
    BY <1>4, <2>2
  <2> QED
    BY <1>1, <2>1, <2>2
<1>8. Min(M) = first - ack
  <2>1. Min(M) \in M /\ \A y \in M : Min(M) <= y
    <3> HIDE DEF M
    <3> QED
      BY <1>6, MinIsSmallest
  <2>2. Min(M) <= first - ack /\ first - ack <= Min(M) /\ Min(M) \in Int
    BY <1>6, <1>7, <2>1
  <2> HIDE DEF M
  <2> QED
    BY <1>1, <2>2
<1>9. AckedBy(s) = {sn \in DOMAIN tx_window : TxBase(sn) < first - ack}
  BY <1>8 DEF AckedBy
<1>10. ASSUME NEW k \in ack..(Begun - 1)
       PROVE  TxBase(Sn(k)) < first - ack <=> k \in ack..(first - 1)
  <2>1. TxBase(Sn(k)) = k - ack
    BY <1>1, <1>3
  <2> QED
    BY <1>1, <2>1
<1>11. \A k \in ack..(first - 1) : k \in ack..(Begun - 1)
  BY <1>1
<1> HIDE DEF M
<1> QED
  BY <1>2, <1>9, <1>10, <1>11

\* What is queued for a part that a report misses has gone out before.
LEMMA RetxOfPart ==
  ASSUME NEW ack \in Nat, NEW next \in Nat, NEW missing \in Nat, NEW highest \in Nat,
         Numbered(ack, next, missing, highest),
         NEW k \in ack..(Begun - 1), NEW nack \in Nacks, Misses(nack, k)
  PROVE  /\ IsFiniteSet(RetxOf(nack))
         /\ \A r \in RetxOf(nack) :
              /\ r \in [sn : 0..(Mod - 1), so : Nat, length : Nat \ {0}]
              /\ r.sn = Sn(k) /\ r.so + r.length <= Gone(k)
<1>1. Begun \in Nat /\ k \in 0..(Begun - 1) /\ Begun <= ack + Window
  BY Order
<1>2. /\ Gone(k) \in Nat \ {0} /\ Gone(k) <= Size(k) /\ Size(k) \in Nat
      /\ k < Unsent => Gone(k) = Size(k)
  BY <1>1, GoneFacts, SduFacts DEF Numbered
<1>3. Length(nack.sn) = Size(k) /\ nack.sn = Sn(k) /\ Sn(k) \in 0..(Mod - 1)
  BY SnType DEF Numbered, TxWindow, TxSlot, Length, Size, Misses
<1>4. PICK so \in Nat : so = nack.so
  BY DEF Misses
<1>5. PICK end \in Nat : end = nack.end
  BY DEF Misses
<1>6. RetxTo(nack, end) = [sn |-> Sn(k), so |-> so, length |-> end - so + 1]
      /\ \A e : RetxTo(nack, e) = [sn |-> Sn(k), so |-> so, length |-> e - so + 1]
  BY <1>3, <1>4 DEF RetxTo
<1>7. ASSUME NEW e \in Int, so <= e, e < Gone(k), RetxOf(nack) = {RetxTo(nack, e)}
      PROVE  /\ IsFiniteSet(RetxOf(nack))
             /\ \A r \in RetxOf(nack) :
                  /\ r \in [sn : 0..(Mod - 1), so : Nat, length : Nat \ {0}]
                  /\ r.sn = Sn(k) /\ r.so + r.length <= Gone(k)
  <2>1. e - so + 1 \in Nat \ {0} /\ so + (e - so + 1) <= Gone(k)
    BY <1>2, <1>7
  <2>2. PICK r : r = [sn |-> Sn(k), so |-> so, length |-> e - so + 1]
    OBVIOUS
  <2>3. /\ r \in [sn : 0..(Mod - 1), so : Nat, length : Nat \ {0}]
        /\ r.sn = Sn(k) /\ r.so + r.length <= Gone(k)
    BY <1>3, <2>1, <2>2
  <2>4. RetxOf(nack) = {r}
    BY <1>6, <1>7, <2>2
  <2>5. IsFiniteSet({r})
    BY FS_Singleton
  <2> QED
    BY <2>3, <2>4, <2>5
<1>8. CASE nack.has_so /\ nack.end # OpenEnd
  <2>1. so <= end /\ end < Gone(k) /\ RetxOf(nack) = {RetxTo(nack, end)}
    BY <1>4, <1>5, <1>8 DEF Misses, RetxOf
  <2> QED
    BY <1>7, <2>1
<1>9. CASE /\ ~(nack.has_so /\ nack.end # OpenEnd)
           /\ ~nack.has_so \/ nack.sn # sn_under_segmentation
  <2>1. RetxOf(nack) = {RetxTo(nack, Size(k) - 1)}
    BY <1>3, <1>9 DEF RetxOf
  <2>2. Gone(k) = Size(k) /\ so < Size(k)
    <3>1. CASE ~nack.has_so
      BY <1>2, <1>4, <3>1 DEF Misses
    <3>2. CASE nack.has_so /\ nack.sn # sn_under_segmentation
      <4>1. ~(Segmenting /\ k = Begun - 1)
        BY <1>3, <3>2 DEF Numbered, TxWindow
      <4> QED
        BY <1>4, <3>2, <4>1 DEF Gone, Misses
    <3> QED
      BY <1>9, <3>1, <3>2
  <2>3. Size(k) - 1 \in Int /\ so <= Size(k) - 1 /\ Size(k) - 1 < Gone(k)
    BY <1>2, <2>2
  <2> QED
    BY <1>7, <2>1, <2>3
<1>10. CASE nack.has_so /\ nack.end = OpenEnd /\ nack.sn = sn_under_segmentation
  <2>1. Segmenting
    <3>1. Sn(k) # NoSn
      BY <1>1, SnType
    <3> QED
      BY <1>3, <1>10, <3>1 DEF Segmenting
  <2>2. sn_under_segmentation = Sn(Begun - 1)
    BY <2>1 DEF Numbered, TxWindow
  <2>3. k = Begun - 1
    <3>1. /\ k - (Begun - 1) < Mod /\ (Begun - 1) - k < Mod
          /\ Begun - 1 \in Int /\ k \in Int
      BY <1>1, Sizes
    <3>2. Sn(k) = Sn(Begun - 1)
      BY <1>3, <1>10, <2>2
    <3> QED
      BY <3>1, <3>2, SnInjective
  <2>4. Gone(k) = tx_window[nack.sn].next_so
    BY <1>3, <2>1, <2>3 DEF Gone
  <2>5. CASE so >= Gone(k)
    <3>1. RetxOf(nack) = {}
      BY <1>4, <1>10, <2>4, <2>5 DEF RetxOf
    <3> QED
      BY <3>1, FS_EmptySet
  <2>6. CASE ~(so >= Gone(k))
    <3>1. RetxOf(nack) = {RetxTo(nack, Gone(k) - 1)}
      BY <1>4, <1>10, <2>4, <2>6 DEF RetxOf
    <3>2. Gone(k) - 1 \in Int /\ so <= Gone(k) - 1 /\ Gone(k) - 1 < Gone(k)
      BY <1>2, <2>6
    <3> QED
      BY <1>7, <3>1, <3>2
  <2> QED
    BY <2>5, <2>6
<1> QED
  BY <1>8, <1>9, <1>10

LEMMA TakenBackIsNat ==
  ASSUME NEW S, retx_queue \in Seq(S), NEW sn
  PROVE  TakenBack(sn) \in Nat
<1> DEFINE T == {i \in 1..Len(retx_queue) :
                   /\ retx_queue[i].sn = sn
                   /\ (IF i = 1 THEN retx_sn ELSE retx_queue[i - 1].sn) # sn}
<1>1. IsFiniteSet(1..Len(retx_queue)) /\ T \in SUBSET (1..Len(retx_queue))
  BY IntervalIsFinite
<1>2. IsFiniteSet(T)
  BY <1>1, FS_Subset
<1>3. TakenBack(sn) = Cardinality(T)
  BY DEF TakenBack
<1> HIDE DEF T
<1> QED
  BY <1>2, <1>3, FS_CardinalityType

\* A report is rejected when the transmitter has moved past where it begins, by
\* less than a window.
LEMMA StaleIsRejected ==
  ASSUME NEW ack \in Nat, NEW next \in Nat, NEW missing \in Nat, NEW highest \in Nat,
         Numbered(ack, next, missing, highest),
         NEW s, NEW first \in Int, NEW to \in Int, Says(s, first, to), Accepts(s),
         first <= to, to <= highest, ack < first + Window
  PROVE  ack <= first
<1>1. SUFFICES ASSUME first < ack
               PROVE  FALSE
  OBVIOUS
<1>2. tx_next_ack = Sn(ack) /\ s.ack = Sn(to) /\ highest <= ack + Window
  <2>1. highest <= Begun /\ Begun <= ack + Window /\ Begun \in Nat
    BY Order
  <2> QED
    BY <2>1, Sizes DEF Numbered, TxWindow, Says
<1>3. TxBase(s.ack) \in 1..Window
  BY DEF Accepts
<1>4. to > ack
  <2>1. SUFFICES ASSUME to <= ack
                 PROVE  FALSE
    OBVIOUS
  <2>2. CASE to = ack
    <3>1. TxBase(Sn(ack)) = 0
      <4>1. ack \in ack..(ack + Mod - 1)
        BY Sizes
      <4> QED
        BY <1>2, <4>1, TxBaseIs
    <3> QED
      BY <1>2, <1>3, <2>2, <3>1
  <2>3. CASE to < ack
    <3>1. to \in Int /\ ack - Mod <= to /\ to < ack /\ ack - to < Window
      BY <2>3, Sizes
    <3>2. (Sn(to) - Sn(ack)) % Mod = to - ack + Mod
      BY <3>1, Behind
    <3> QED
      BY <1>2, <1>3, <3>1, <3>2, Sizes DEF TxBase
  <2> QED
    BY <2>1, <2>2, <2>3
<1>5. PICK nack \in s.nacks : nack.sn = Sn(first)
  BY <1>1, <1>4 DEF Says
<1>6. TxBase(nack.sn) < Window
  BY <1>5 DEF Accepts
<1>7. first \in Int /\ ack - Mod <= first /\ first < ack /\ ack - first < Window
  BY <1>1, Sizes
<1>8. (Sn(first) - Sn(ack)) % Mod = first - ack + Mod
  BY <1>7, Behind
<1> QED
  BY <1>2, <1>5, <1>6, <1>7, <1>8, Sizes DEF TxBase

\* What fits into retx_queue is a part of what is to be sent again.
LEMMA FittingIsPart ==
  ASSUME NEW S, NEW q \in Seq(S)
  PROVE  Fitting(q) \in Seq(S)
<1>1. PICK n \in Nat : n = Min({Len(q), Window}) /\ n <= Len(q)
  BY MinOfTwo, Sizes
<1>2. \A i \in 1..n : q[i] \in S
  BY <1>1, ElementOfSeq
<1>3. SubSeq(q, 1, n) \in Seq(S)
  <2>1. 1 \in Int /\ n \in Int
    OBVIOUS
  <2> QED
    BY <1>2, <2>1, SubSeqProperties, Zenon
<1> QED
  BY <1>1, <1>3 DEF Fitting

LEMMA StatusArrivesKeeps ==
  ASSUME NEW ack \in Nat, NEW next \in Nat, NEW missing \in Nat, NEW highest \in Nat,
         Numbered(ack, next, missing, highest), StatusArrives
  PROVE  \E first \in Nat : Numbered(first, next, missing, highest)'
<1> PICK x \in DOMAIN status :
     /\ Timely(status[x]) /\ HandleStatus(status[x]) /\ status' = RemoveAt(status, x)
     /\ UNCHANGED <<rx, data, lengths, submitted>>
  BY DEF StatusArrives
<1>1. UNCHANGED <<rx, data, lengths, submitted>>
  OBVIOUS
<1>2. /\ Reports(next, highest) /\ TxWindow(ack) /\ RetxQueue(ack) /\ SdusInOrder /\ Scalars
      /\ Begun \in Nat /\ ack <= next /\ next <= Unsent /\ Unsent <= Begun /\ Begun <= Unsent + 1
      /\ Unsent \in Nat /\ highest <= Begun /\ Begun <= ack + Window
  BY Order DEF Numbered
<1>3. PICK s : s = status[x]
  OBVIOUS
<1>4. Truthful(s, next, highest) /\ Timely(s) /\ HandleStatus(s)
  BY <1>2, <1>3 DEF Reports
<1> PICK first, to \in Int : TrueFrom(s, first, to, next, highest)
  BY <1>4 DEF Truthful
<1>5. /\ -1 <= first /\ first <= next /\ first <= to /\ to <= highest /\ to <= first + Window
      /\ s.at <= first /\ (first < to => 0 <= first) /\ Says(s, first, to)
  BY DEF TrueFrom
<1>7. UNCHANGED <<rxst, rx_window, reassembly, assembled, do_status, prohibit, pulling, fresh, taken, spare>>
  BY <1>1 DEF rx, pulls
<1>8. ASSUME ~Accepts(s)
      PROVE  Numbered(ack, next, missing, highest)'
  <2>1. UNCHANGED <<tx, acked>>
    BY <1>4, <1>8 DEF HandleStatus
  <2>2. /\ UNCHANGED <<sent, tx_window, sn_under_segmentation, tx_next, tx_next_ack, retx_queue>>
        /\ UNCHANGED <<poll_timer, poll_expired, max_retx, told, poll_sn, retx_sn, queue>>
    BY <2>1 DEF tx, txst, retx, poll
  <2>3. /\ Begun' = Begun /\ Grows
        /\ \A k \in 0..(Begun - 1) : Sdu(k)' = Sdu(k) /\ Gone(k)' = Gone(k) /\ Size(k)' = Size(k)
    BY <1>1, <2>2, Idle
  <2>4. Radio(highest)' /\ Reports(next, highest)'
    BY <1>1, <1>2, <1>7, <2>3, RadioKept, ReportsFewer DEF Numbered
  <2>5. Scalars' /\ SdusInOrder'
    BY <1>1, <1>2, <1>7, <2>2 DEF Scalars, SdusInOrder, Rising
  <2> QED
    BY <1>1, <1>7, <2>1, <2>2, <2>4, <2>5, Quiet
<1>9. ASSUME Accepts(s)
      PROVE  ack <= first /\ Numbered(first, next, missing, highest)'
  <2>0. ack <= first
    <3>1. ack < s.at + Window /\ s.at \in Int
      BY <1>4, AckedCount DEF Timely, Truthful, ReportRecs
    <3>2. ack < first + Window
      BY <1>5, <3>1, Sizes
    <3> QED
      BY <1>2, <1>5, <1>9, <3>2, StaleIsRejected
  <2>a. first \in Nat /\ first \in ack..next /\ to \in first..highest /\ Says(s, first, to)
    BY <1>2, <1>5, <2>0
  <2>b. first \in Nat /\ ack <= first /\ first <= next /\ first <= Unsent
    BY <1>2, <2>a
  <2> DEFINE acks == AckedBy(s)
             kept == DOMAIN tx_window \ acks
             wanted == UNION {RetxOf(nack) : nack \in s.nacks}
             count(sn) == Max({tx_window[sn].retx_count - TakenBack(sn), -1})
                            + (IF \E n \in DOMAIN retx_queue' : retx_queue'[n].sn = sn THEN 1 ELSE 0)
  <2>1. /\ poll_timer' = (poll_timer /\ TxBase(poll_sn) >= TxBase(s.ack))
        /\ tx_next_ack' = Plus(tx_next_ack, Cardinality(acks))
        /\ acked' = acked \cup {tx_window[sn].sdu : sn \in acks}
        /\ tx_window' = [sn \in kept |-> [tx_window[sn] EXCEPT !.retx_count = count(sn)]]
        /\ retx_queue' \in {Fitting(q) : q \in Ordered(wanted)}
        /\ retx_sn' = NoSn
        /\ told' = (told \/ \E n \in DOMAIN retx_queue' : count(retx_queue'[n].sn) = MaxRetx)
        /\ UNCHANGED <<queue, sent, tx_next, poll_sn, sn_under_segmentation, max_retx, poll_expired>>
    BY <1>4, <1>9 DEF HandleStatus
  <2>2. acks = {Sn(k) : k \in ack..(first - 1)}
    BY <2>a, AckedBySns
  <2>3. tx_next_ack' = Sn(first)
    <3>1. ack \in Int /\ first \in Int /\ ack <= first /\ first <= ack + Mod
      BY <1>2, <2>b, Sizes
    <3>2. Cardinality({Sn(k) : k \in ack..(first - 1)}) = first - ack
      BY <3>1, SnsInARow
    <3>3. tx_next_ack' = Plus(Sn(ack), first - ack)
      BY <1>2, <2>1, <2>2, <3>2 DEF TxWindow
    <3>4. ack + (first - ack) = first /\ first - ack \in Int
      BY <3>1
    <3> QED
      BY <3>1, <3>3, <3>4, PlusSn
  <2>4. /\ DOMAIN tx_window' = {Sn(k) : k \in first..(Begun - 1)}
        /\ \A k \in first..(Begun - 1) : Sn(k) \in kept
    <3>1. \A k \in ack..(Begun - 1) : \A l \in ack..(first - 1) : Sn(k) = Sn(l) => k = l
      <4>1. SUFFICES ASSUME NEW k \in ack..(Begun - 1), NEW l \in ack..(first - 1), Sn(k) = Sn(l)
                     PROVE  k = l
        OBVIOUS
      <4>2. k - l < Mod /\ l - k < Mod /\ k \in Int /\ l \in Int
        BY <1>2, <2>b, Sizes
      <4> QED
        BY <4>1, <4>2, SnInjective
    <3>2. DOMAIN tx_window = {Sn(k) : k \in ack..(Begun - 1)}
      BY <1>2 DEF TxWindow
    <3>3. \A k \in first..(Begun - 1) : k \in ack..(Begun - 1) /\ k \notin ack..(first - 1)
      BY <1>2, <2>b
    <3>4. \A k \in first..(Begun - 1) : Sn(k) \in kept
      BY <2>2, <3>1, <3>2, <3>3
    <3>5. \A k \in ack..(Begun - 1) : k \in ack..(first - 1) \/ k \in first..(Begun - 1)
      BY <1>2, <2>b
    <3>6. kept \subseteq {Sn(k) : k \in first..(Begun - 1)}
      BY <2>2, <3>2, <3>5
    <3>7. DOMAIN tx_window' = kept
      BY <2>1
    <3> HIDE DEF kept
    <3> QED
      BY <3>4, <3>6, <3>7
  <2>5. \A k \in first..(Begun - 1) :
          /\ tx_window'[Sn(k)] \in [sdu : Nat, next_so : Nat, retx_count : Int]
          /\ tx_window'[Sn(k)].sdu = Sdu(k)
          /\ tx_window'[Sn(k)].next_so = tx_window[Sn(k)].next_so
    <3>1. SUFFICES ASSUME NEW k \in first..(Begun - 1)
                   PROVE  /\ tx_window'[Sn(k)] \in [sdu : Nat, next_so : Nat, retx_count : Int]
                          /\ tx_window'[Sn(k)].sdu = Sdu(k)
                          /\ tx_window'[Sn(k)].next_so = tx_window[Sn(k)].next_so
      OBVIOUS
    <3>2. tx_window'[Sn(k)] = [tx_window[Sn(k)] EXCEPT !.retx_count = count(Sn(k))]
      BY <2>1, <2>4
    <3>3. k \in ack..(Begun - 1)
      BY <1>2, <2>b
    <3>4. tx_window[Sn(k)] \in [sdu : Nat, next_so : Nat, retx_count : Int]
          /\ tx_window[Sn(k)].sdu = Sdu(k)
      BY <1>2, <3>3 DEF TxWindow, TxSlot
    <3>5. count(Sn(k)) \in Int
      <4>1. TakenBack(Sn(k)) \in Nat
        BY <1>2, TakenBackIsNat DEF RetxQueue
      <4>2. PICK c \in Int : c = tx_window[Sn(k)].retx_count - TakenBack(Sn(k))
        BY <3>4, <4>1
      <4>3. Max({c, -1}) \in Int
        BY MaxOfTwo
      <4> QED
        BY <4>2, <4>3
    <3> HIDE DEF count
    <3> QED
      BY <3>2, <3>4, <3>5
  <2>6. /\ Begun' = Begun /\ Segmenting' = Segmenting /\ Unsent' = Unsent
        /\ \A k : Sdu(k)' = Sdu(k) /\ Size(k)' = Size(k)
    BY <1>1, <2>1 DEF Begun, Segmenting, Unsent, Sdu, Size
  <2>7. ASSUME NEW k \in 0..(Begun - 1)
        PROVE  Gone(k)' = Gone(k)
    <3>1. CASE Segmenting /\ k = Begun - 1
      <4>1. k \in first..(Begun - 1)
        BY <1>2, <2>b, <3>1 DEF Unsent
      <4> QED
        BY <2>5, <2>6, <3>1, <4>1 DEF Gone
    <3>2. CASE ~(Segmenting /\ k = Begun - 1)
      BY <2>6, <3>2 DEF Gone
    <3> QED
      BY <3>1, <3>2
  <2>8. Grows
    <3>1. \A k \in 0..(Begun - 1) : Gone(k) \in Nat
      BY <1>2, GoneFacts
    <3> QED
      BY <1>1, <1>2, <2>6, <2>7, <3>1 DEF Grows
  <2>9. TxWindow(first)'
    <3>1. \A k \in first..(Begun - 1) : TxSlot(k)'
      BY <2>5, <2>6 DEF TxSlot
    <3>2. /\ first <= Unsent' /\ Begun' <= first + Window /\ tx_next' = Sn(Unsent')
          /\ DOMAIN tx_window' = {Sn(k) : k \in first..(Begun' - 1)}
      <4>1. Begun <= first + Window
        BY <1>2, <2>b, Sizes
      <4> QED
        BY <1>2, <2>b, <2>1, <2>4, <2>6, <4>1 DEF TxWindow
    <3>3. ASSUME Segmenting
          PROVE  /\ sn_under_segmentation' = Sn(Begun' - 1)
                 /\ tx_window'[Sn(Begun' - 1)].next_so \in 1..(Size(Begun - 1)' - 1)
      <4>1. Begun - 1 \in first..(Begun - 1)
        BY <1>2, <2>b, <3>3 DEF Unsent
      <4>2. /\ sn_under_segmentation = Sn(Begun - 1)
            /\ tx_window[Sn(Begun - 1)].next_so \in 1..(Size(Begun - 1) - 1)
        BY <1>2, <3>3 DEF TxWindow
      <4>3. Size(Begun - 1)' = Size(Begun - 1)
        BY <1>1, <2>1 DEF Size, Sdu, Begun
      <4> QED
        BY <2>1, <2>5, <2>6, <4>1, <4>2, <4>3
    <3> QED
      BY <2>3, <2>6, <3>1, <3>2, <3>3 DEF TxWindow
  <2>10. ASSUME NEW nack \in s.nacks
         PROVE  /\ IsFiniteSet(RetxOf(nack))
                /\ \A r \in RetxOf(nack) : r \in Resendables(first)'
    <3>1. PICK k \in first..(to - 1) : Misses(nack, k)
      BY <2>a DEF Says
    <3>2. nack \in Nacks /\ k \in ack..(Begun - 1) /\ k \in first..(Begun - 1) /\ k \in 0..(Begun - 1)
      BY <1>2, <2>a, <2>b DEF Says
    <3>3. /\ IsFiniteSet(RetxOf(nack))
          /\ \A r \in RetxOf(nack) :
               /\ r \in [sn : 0..(Mod - 1), so : Nat, length : Nat \ {0}]
               /\ r.sn = Sn(k) /\ r.so + r.length <= Gone(k)
      BY <3>1, <3>2, RetxOfPart
    <3>4. Gone(k)' = Gone(k) /\ Begun' = Begun
      BY <2>6, <2>7, <3>2
    <3> QED
      BY <3>2, <3>3, <3>4 DEF Resendables
  <2>11. IsFiniteSet(wanted) /\ wanted \subseteq Resendables(first)'
    <3> DEFINE sets == {RetxOf(nack) : nack \in s.nacks}
    <3>1. PICK f : f = [nack \in s.nacks |-> RetxOf(nack)]
      OBVIOUS
    <3>2. sets = {f[nack] : nack \in s.nacks} /\ IsFiniteSet(s.nacks)
      BY <2>a, <3>1 DEF Says
    <3>3. IsFiniteSet(sets)
      BY <3>2, FiniteImage
    <3>4. \A T \in sets : IsFiniteSet(T) /\ T \subseteq Resendables(first)'
      BY <2>10
    <3> HIDE DEF sets
    <3>5. IsFiniteSet(UNION sets) /\ UNION sets \subseteq Resendables(first)'
      BY <3>3, <3>4, FS_UNION
    <3> QED
      BY <3>5 DEF sets
  <2>12. RetxQueue(first)'
    <3>1. Cardinality(wanted) \in Nat
      BY <2>11, FS_CardinalityType
    <3>2. PICK q \in [1..Cardinality(wanted) -> wanted] : retx_queue' = Fitting(q)
      BY <2>1 DEF Ordered
    <3>3. retx_queue' \in Seq(wanted)
      <4> HIDE DEF wanted
      <4>1. q \in Seq(wanted) /\ Len(q) \in Nat
        BY <3>1, <3>2
      <4> QED
        BY <3>2, <4>1, FittingIsPart
    <3>4. retx_queue' \in Seq(Resendables(first)')
      <4> HIDE DEF wanted
      <4> QED
        BY <2>11, <3>3
    <3> QED
      BY <3>4 DEF RetxQueue
  <2>13. Scalars'
    <3>1. poll_timer' \in BOOLEAN
      BY <1>2, <2>1 DEF Scalars
    <3>2. told' \in BOOLEAN
      BY <1>2, <2>1 DEF Scalars
    <3>3. retx_sn' \in 0..Mod
      BY <2>1, Sizes
    <3> QED
      BY <1>2, <1>7, <2>1, <3>1, <3>2, <3>3 DEF Scalars
  <2>14. SdusInOrder'
    BY <1>1, <1>2, <2>1 DEF SdusInOrder, Rising
  <2>15. RxWindow(next, missing, highest)' /\ Trigger(next, highest)' /\ GapIsWatched'
    BY <1>7, <2>8, ReceiverKept
  <2>16. Radio(highest)'
    BY <1>1, <1>2, <2>6, <2>7, RadioKept DEF Numbered
  <2>17. History(first, next, highest)'
    <3>1. Deliveries(next, highest)'
      BY <1>7, <2>8, DeliveriesKept
    <3>2. {tx_window[sn].sdu : sn \in acks} = {Sdu(k) : k \in ack..(first - 1)}
      <4>1. \A k \in ack..(first - 1) : tx_window[Sn(k)].sdu = Sdu(k)
        <5>1. \A k \in ack..(first - 1) : k \in ack..(Begun - 1)
          BY <1>2, <2>b
        <5> QED
          BY <1>2, <5>1 DEF TxWindow, TxSlot
      <4> HIDE DEF acks
      <4> QED
        BY <2>2, <4>1
    <3>3. acked' = {Sdu(k) : k \in 0..(ack - 1)} \cup {Sdu(k) : k \in ack..(first - 1)}
      BY <2>1, <3>2 DEF Numbered, History
    <3>4. 0..(first - 1) = (0..(ack - 1)) \cup (ack..(first - 1))
      BY <2>b
    <3>5. acked' = {Sdu(k)' : k \in 0..(first - 1)}
      BY <2>6, <3>3, <3>4
    <3> QED
      BY <3>1, <3>5 DEF History
  <2>18. Reports(next, highest)'
    BY <1>7, <2>8, ReportsFewer
  <2> QED
    BY <2>b, <2>9, <2>12, <2>13, <2>14, <2>15, <2>16, <2>17, <2>18 DEF Numbered
<1> QED
  <2>1. CASE Accepts(s)
    <3>1. first \in Nat
      BY <1>9, <2>1
    <3> QED
      BY <1>9, <2>1, <3>1
  <2>2. CASE ~Accepts(s)
    BY <1>8, <2>2
  <2> QED
    BY <2>1, <2>2

-----------------------------------------------------------------------------
(* The receiving entity *)

\* Sequence numbers of numbers that are at most a window apart differ.
LEMMA WindowInjective ==
  ASSUME NEW a \in Int, NEW b \in Int, a - b <= Window, b - a <= Window, Sn(a) = Sn(b)
  PROVE  a = b
<1>1. a - b < Mod /\ b - a < Mod
  BY Sizes
<1> QED
  BY <1>1, SnInjective

LEMMA RxNumbers ==
  ASSUME NEW ack \in Nat, NEW next \in Nat, NEW missing \in Nat, NEW highest \in Nat,
         Numbered(ack, next, missing, highest)
  PROVE  /\ next <= highest /\ highest <= next + Window /\ Begun <= next + Window /\ highest <= Begun
         /\ \A k \in next..(next + Window) :
              Sn(k) \in DOMAIN rx_window => k < highest /\ Holds(rx_window[Sn(k)], k)
<1>1. /\ next <= highest /\ highest <= Begun /\ Begun <= ack + Window /\ ack <= next /\ Begun \in Nat
  BY Order
<1>2. highest <= next + Window /\ Begun <= next + Window
  BY <1>1, Sizes
<1>3. ASSUME NEW k \in next..(next + Window), Sn(k) \in DOMAIN rx_window
      PROVE  k < highest /\ Holds(rx_window[Sn(k)], k)
  <2>1. PICK l \in next..(highest - 1) : Sn(k) = Sn(l)
    BY <1>3 DEF Numbered, RxWindow
  <2>2. k \in Int /\ l \in Int /\ k - l <= Window /\ l - k <= Window
    BY <1>2, Sizes
  <2>3. k = l
    BY <2>1, <2>2, WindowInjective
  <2>4. RxSlot(k)
    BY <1>3, <2>1, <2>3 DEF Numbered, RxWindow
  <2> QED
    BY <2>3, <2>4 DEF RxSlot
<1> QED
  BY <1>1, <1>2, <1>3

\* What is stored of a PDU are bytes of the SDU it carries.
LEMMA StoredHolds ==
  ASSUME NEW ack \in Nat, NEW next \in Nat, NEW missing \in Nat, NEW highest \in Nat,
         Numbered(ack, next, missing, highest),
         NEW a \in next..(Begun - 1), NEW m \in Pdus, Carries(m, a)
  PROVE  Holds(Stored(m), a)
<1> DEFINE part == m.so..(m.so + m.len - 1)
           old == IF m.sn \in DOMAIN rx_window THEN rx_window[m.sn]
                  ELSE [got |-> {}, last |-> FALSE, of |-> {}]
<1>1. a \in next..(next + Window) /\ a \in 0..(Begun - 1) /\ Begun \in Nat
  <2>1. Begun \in Nat /\ Begun <= next + Window
    BY RxNumbers, Order
  <2> QED
    BY <2>1, Sizes
<1>2. /\ Gone(a) \in Nat \ {0} /\ Gone(a) <= Size(a) /\ Size(a) \in Nat /\ Sdu(a) \in Nat
  BY <1>1, GoneFacts, SduFacts DEF Numbered
<1>3. /\ m.so \in Nat /\ m.len \in Nat \ {0} /\ m.so + m.len <= Gone(a) /\ m.sn = Sn(a)
      /\ m.sdu = Sdu(a) /\ m.last = (m.so + m.len = Size(a)) /\ m.last \in BOOLEAN
  BY DEF Pdus, Carries
<1>4. /\ part \subseteq Nat /\ part # {} /\ \A b \in part : b < Gone(a)
      /\ m.last <=> (Size(a) - 1) \in part
  <2> PICK so \in Nat, len \in Nat \ {0} : so = m.so /\ len = m.len
    BY <1>3
  <2>1. part = so..(so + len - 1)
    OBVIOUS
  <2>2. so \in part /\ part \subseteq Nat /\ \A b \in part : b < so + len
    BY <2>1
  <2>3. so + len <= Gone(a) /\ so + len <= Size(a)
    BY <1>2, <1>3
  <2>4. \A b \in part : b < Gone(a)
    BY <1>2, <2>2, <2>3
  <2>5. (Size(a) - 1) \in part <=> so + len = Size(a)
    BY <1>2, <2>1, <2>3
  <2> QED
    BY <1>3, <2>2, <2>4, <2>5
<1>5. CASE m.so = 0 /\ m.last
  <2>1. Stored(m) = [got |-> part, last |-> TRUE, of |-> {Sdu(a)}]
    BY <1>3, <1>5 DEF Stored, Slot
  <2> HIDE DEF part
  <2>2. [got |-> part, last |-> TRUE, of |-> {Sdu(a)}] \in [got : SUBSET Nat, last : BOOLEAN, of : {{Sdu(a)}}]
    BY <1>4
  <2>3. PICK slot : slot = [got |-> part, last |-> TRUE, of |-> {Sdu(a)}]
    OBVIOUS
  <2>4. slot.got = part /\ slot.last = TRUE
    BY <2>3
  <2>5. (Size(a) - 1) \in part
    BY <1>4, <1>5
  <2>6. Holds(slot, a)
    BY <1>4, <2>2, <2>3, <2>4, <2>5 DEF Holds
  <2> QED
    BY <2>1, <2>3, <2>6
<1>6. CASE ~(m.so = 0 /\ m.last) /\ part \subseteq old.got
  <2>1. Stored(m) = old
    BY <1>6 DEF Stored, Slot
  <2>2. m.sn \in DOMAIN rx_window
    BY <1>4, <1>6
  <2> HIDE DEF part
  <2> QED
    BY <1>1, <1>3, <2>1, <2>2, RxNumbers
<1>7. CASE ~(m.so = 0 /\ m.last) /\ ~(part \subseteq old.got)
  <2>1. Stored(m) = [got |-> old.got \cup part, last |-> old.last \/ m.last, of |-> old.of \cup {Sdu(a)}]
    BY <1>3, <1>7 DEF Stored, Slot
  <2>2. /\ old.got \subseteq Nat /\ old.last \in BOOLEAN /\ old.of \subseteq {Sdu(a)}
        /\ \A b \in old.got : b < Gone(a)
        /\ old.last <=> (Size(a) - 1) \in old.got
    <3>1. CASE m.sn \in DOMAIN rx_window
      <4>1. Holds(rx_window[m.sn], a)
        BY <1>1, <1>3, <3>1, RxNumbers
      <4> QED
        BY <3>1, <4>1 DEF Holds
    <3>2. CASE m.sn \notin DOMAIN rx_window
      BY <3>2
    <3> QED
      BY <3>1, <3>2
  <2> HIDE DEF part, old
  <2>3. PICK got : got = old.got \cup part
    OBVIOUS
  <2>4. /\ got \subseteq Nat /\ got # {} /\ \A b \in got : b < Gone(a)
        /\ (old.last \/ m.last) <=> (Size(a) - 1) \in got
    BY <1>4, <2>2, <2>3
  <2>5. old.of \cup {Sdu(a)} = {Sdu(a)} /\ (old.last \/ m.last) \in BOOLEAN
    BY <1>3, <2>2
  <2>6. Stored(m) = [got |-> got, last |-> old.last \/ m.last, of |-> {Sdu(a)}]
    BY <2>1, <2>3, <2>5
  <2>7. [got |-> got, last |-> old.last \/ m.last, of |-> {Sdu(a)}]
          \in [got : SUBSET Nat, last : BOOLEAN, of : {{Sdu(a)}}]
    BY <2>4, <2>5
  <2>8. PICK slot : slot = [got |-> got, last |-> old.last \/ m.last, of |-> {Sdu(a)}]
    OBVIOUS
  <2>9. slot.got = got /\ slot.last = (old.last \/ m.last)
    BY <2>8
  <2>10. Holds(slot, a)
    BY <2>4, <2>7, <2>8, <2>9 DEF Holds
  <2> QED
    BY <2>6, <2>8, <2>10
<1> QED
  BY <1>5, <1>6, <1>7

\* The window once a part of number a was put into it.
Put(kept, info, a) ==
  kept = [sn \in DOMAIN rx_window \cup {Sn(a)} |-> IF sn = Sn(a) THEN info ELSE rx_window[sn]]

LEMMA PutFacts ==
  ASSUME NEW ack \in Nat, NEW next \in Nat, NEW missing \in Nat, NEW highest \in Nat,
         Numbered(ack, next, missing, highest),
         NEW a \in next..(Begun - 1), NEW info, Holds(info, a), NEW kept, Put(kept, info, a),
         NEW higher, higher = IF a >= highest THEN a + 1 ELSE highest
  PROVE  /\ higher \in Nat /\ highest <= higher /\ a < higher /\ higher <= Begun
         /\ higher <= next + Window
         /\ DOMAIN kept \subseteq {Sn(k) : k \in next..(higher - 1)}
         /\ Sn(a) \in DOMAIN kept /\ kept[Sn(a)] = info /\ Sn(higher - 1) \in DOMAIN kept
         /\ DOMAIN rx_window \subseteq DOMAIN kept
         /\ \A k \in next..(higher - 1) : Sn(k) \in DOMAIN kept => Holds(kept[Sn(k)], k)
         /\ \A k \in next..higher : k # a => (FullIn(kept, Sn(k)) <=> k < highest /\ Full(k))
         /\ \A k \in next..(higher - 1) : FullIn(kept, Sn(k)) => k < Unsent
<1>1. /\ next <= highest /\ highest <= next + Window /\ Begun <= next + Window /\ highest <= Begun
      /\ Begun \in Nat /\ a \in Nat
  BY RxNumbers, Order
<1>2. higher \in Nat /\ highest <= higher /\ a < higher /\ higher <= Begun /\ higher <= next + Window
  BY <1>1, Sizes
<1>3. /\ DOMAIN kept = DOMAIN rx_window \cup {Sn(a)} /\ kept[Sn(a)] = info
      /\ \A sn \in DOMAIN rx_window : sn # Sn(a) => kept[sn] = rx_window[sn]
  BY DEF Put
<1>4. DOMAIN kept \subseteq {Sn(k) : k \in next..(higher - 1)}
  <2>1. DOMAIN rx_window \subseteq {Sn(k) : k \in next..(highest - 1)}
    BY DEF Numbered, RxWindow
  <2>2. a \in next..(higher - 1) /\ \A k \in next..(highest - 1) : k \in next..(higher - 1)
    BY <1>1, <1>2
  <2> QED
    BY <1>3, <2>1, <2>2
<1>5. Sn(higher - 1) \in DOMAIN kept
  <2>1. CASE a >= highest
    <3>1. higher - 1 = a
      BY <1>1, <2>1
    <3> QED
      BY <1>3, <3>1
  <2>2. CASE ~(a >= highest)
    <3>1. next < highest /\ higher = highest
      BY <1>1, <2>2
    <3>2. Sn(highest - 1) \in DOMAIN rx_window
      BY <3>1 DEF Numbered, RxWindow
    <3> QED
      BY <1>3, <3>1, <3>2
  <2> QED
    BY <2>1, <2>2
<1>6. ASSUME NEW k \in next..higher, k # a
      PROVE  /\ Sn(k) # Sn(a)
             /\ Sn(k) \in DOMAIN kept => /\ Sn(k) \in DOMAIN rx_window /\ kept[Sn(k)] = rx_window[Sn(k)]
                                         /\ k < highest /\ Holds(rx_window[Sn(k)], k)
             /\ FullIn(kept, Sn(k)) <=> k < highest /\ Full(k)
  <2>1. k \in next..(next + Window) /\ k \in Int /\ k - a <= Window /\ a - k <= Window
    BY <1>1, <1>2, Sizes
  <2>2. Sn(k) # Sn(a)
    BY <1>1, <1>6, <2>1, WindowInjective
  <2>3. Sn(k) \in DOMAIN kept => /\ Sn(k) \in DOMAIN rx_window /\ kept[Sn(k)] = rx_window[Sn(k)]
                                 /\ k < highest /\ Holds(rx_window[Sn(k)], k)
    BY <1>3, <2>1, <2>2, RxNumbers
  <2>4. Sn(k) \in DOMAIN rx_window => Sn(k) \in DOMAIN kept
    BY <1>3
  <2>5. FullIn(kept, Sn(k)) <=> k < highest /\ Full(k)
    BY <2>3, <2>4 DEF Full, FullIn, HasGap
  <2> QED
    BY <2>2, <2>3, <2>5
<1>7. ASSUME NEW k \in next..(higher - 1), Sn(k) \in DOMAIN kept
      PROVE  Holds(kept[Sn(k)], k)
  <2>1. CASE k = a
    BY <1>3, <2>1
  <2>2. CASE k # a
    <3>1. k \in next..higher
      BY <1>2
    <3> QED
      BY <1>6, <1>7, <2>2, <3>1
  <2> QED
    BY <2>1, <2>2
<1>8. ASSUME NEW k \in next..(higher - 1), FullIn(kept, Sn(k))
      PROVE  k < Unsent
  <2>1. Holds(kept[Sn(k)], k) /\ kept[Sn(k)].last
    BY <1>7, <1>8 DEF FullIn
  <2>2. Size(k) - 1 < Gone(k)
    BY <2>1 DEF Holds
  <2>3. k \in 0..(Begun - 1)
    BY <1>2, <1>1
  <2>4. /\ Gone(k) \in Nat /\ Size(k) \in Nat /\ Unsent \in Nat
        /\ k >= Unsent => Gone(k) < Size(k)
    BY <2>3, GoneFacts, SduFacts, Order DEF Numbered
  <2> QED
    BY <2>2, <2>3, <2>4
<1> QED
  BY <1>2, <1>3, <1>4, <1>5, <1>6, <1>7, <1>8

\* One more SDU was assembled, or none.
DeliversIf(full, a, next, highest, further, higher) ==
  /\ assembled' = IF full THEN Append(assembled, {Sdu(a)}) ELSE assembled
  /\ ~Complete(a, next, highest)
  /\ \A k \in 0..(higher - 1) : Sdu(k)' = Sdu(k) /\ Sdu(k) \in Nat
  /\ \A k, l \in 0..(higher - 1) : Sdu(k) = Sdu(l) => k = l
  /\ \A k \in 0..(higher - 1) :
       Complete(k, further, higher)' <=> Complete(k, next, highest) \/ (k = a /\ full)

LEMMA DeliveriesGrow ==
  ASSUME NEW next \in Nat, NEW highest \in Nat, next <= highest, Deliveries(next, highest),
         NEW further \in Nat, NEW higher \in Nat, highest <= higher, NEW a \in 0..(higher - 1),
         NEW full \in BOOLEAN, DeliversIf(full, a, next, highest, further, higher)
  PROVE  Deliveries(further, higher)'
<1>0. /\ assembled' = IF full THEN Append(assembled, {Sdu(a)}) ELSE assembled
      /\ ~Complete(a, next, highest)
      /\ \A k \in 0..(higher - 1) : Sdu(k)' = Sdu(k) /\ Sdu(k) \in Nat
      /\ \A k, l \in 0..(higher - 1) : Sdu(k) = Sdu(l) => k = l
      /\ \A k \in 0..(higher - 1) :
           Complete(k, further, higher)' <=> Complete(k, next, highest) \/ (k = a /\ full)
  BY DEF DeliversIf
<1>1. /\ assembled \in Seq(SUBSET Nat)
      /\ \A i \in DOMAIN assembled :
           \E k \in 0..(highest - 1) : Complete(k, next, highest) /\ assembled[i] = {Sdu(k)}
      /\ \A k \in 0..(highest - 1) :
           Complete(k, next, highest) => \E i \in DOMAIN assembled : assembled[i] = {Sdu(k)}
      /\ \A i, j \in DOMAIN assembled : assembled[i] = assembled[j] => i = j
  BY DEF Deliveries
<1>2. PICK n \in Nat : n = Len(assembled) /\ DOMAIN assembled = 1..n
  BY <1>1
<1>3. ASSUME NEW k \in 0..(higher - 1), Complete(k, next, highest)
      PROVE  \E i \in DOMAIN assembled : assembled[i] = {Sdu(k)'}
  <2>1. k < highest
    BY <1>3 DEF Complete
  <2>2. k \in 0..(highest - 1) /\ Sdu(k)' = Sdu(k)
    BY <1>0, <2>1
  <2> QED
    BY <1>1, <1>3, <2>2
<1>4. \A k \in 0..(highest - 1) : k \in 0..(higher - 1)
  OBVIOUS
<1>5. ASSUME NEW i \in DOMAIN assembled
      PROVE  \E k \in 0..(higher - 1) : Complete(k, further, higher)' /\ assembled[i] = {Sdu(k)'} /\ k # a
  <2>1. PICK k \in 0..(highest - 1) : Complete(k, next, highest) /\ assembled[i] = {Sdu(k)}
    BY <1>1
  <2>2. k \in 0..(higher - 1) /\ k # a
    BY <1>0, <1>4, <2>1
  <2> QED
    BY <1>0, <2>1, <2>2
<1>6. CASE ~full
  <2>1. assembled' = assembled
    BY <1>0, <1>6
  <2>2. ASSUME NEW k \in 0..(higher - 1), Complete(k, further, higher)'
        PROVE  \E i \in DOMAIN assembled : assembled[i] = {Sdu(k)'}
    <3>1. Complete(k, next, highest)
      BY <1>0, <1>6, <2>2
    <3> QED
      BY <1>3, <3>1
  <2>3. \A i \in DOMAIN assembled' :
          \E k \in 0..(higher - 1) : Complete(k, further, higher)' /\ assembled'[i] = {Sdu(k)'}
    BY <1>5, <2>1
  <2>4. /\ assembled' \in Seq(SUBSET Nat)
        /\ \A i, j \in DOMAIN assembled' : assembled'[i] = assembled'[j] => i = j
    BY <1>1, <2>1
  <2>5. \A k \in 0..(higher - 1) :
          Complete(k, further, higher)' => \E i \in DOMAIN assembled' : assembled'[i] = {Sdu(k)'}
    BY <2>1, <2>2
  <2> QED
    BY <2>3, <2>4, <2>5 DEF Deliveries
<1>7. CASE full
  <2>1. {Sdu(a)} \in SUBSET Nat
    BY <1>0
  <2>2. /\ assembled' \in Seq(SUBSET Nat) /\ DOMAIN assembled' = 1..(n + 1)
        /\ assembled'[n + 1] = {Sdu(a)} /\ \A i \in 1..n : assembled'[i] = assembled[i]
    BY <1>0, <1>1, <1>2, <1>7, <2>1
  <2>3. ASSUME NEW i \in 1..(n + 1)
        PROVE  \E k \in 0..(higher - 1) : Complete(k, further, higher)' /\ assembled'[i] = {Sdu(k)'}
    <3>1. CASE i = n + 1
      <4>1. Complete(a, further, higher)' /\ assembled'[i] = {Sdu(a)'}
        BY <1>0, <1>7, <2>2, <3>1
      <4> QED
        BY <4>1
    <3>2. CASE i # n + 1
      <4>1. i \in 1..n
        BY <3>2
      <4>2. i \in DOMAIN assembled /\ assembled'[i] = assembled[i]
        BY <1>2, <2>2, <4>1
      <4> QED
        BY <1>5, <4>2
    <3> QED
      BY <3>1, <3>2
  <2>4. ASSUME NEW k \in 0..(higher - 1), Complete(k, further, higher)'
        PROVE  \E i \in 1..(n + 1) : assembled'[i] = {Sdu(k)'}
    <3>1. CASE k = a
      <4>1. n + 1 \in 1..(n + 1) /\ {Sdu(k)'} = {Sdu(a)}
        BY <1>0, <3>1
      <4> QED
        BY <2>2, <4>1
    <3>2. CASE k # a
      <4>1. Complete(k, next, highest)
        BY <1>0, <2>4, <3>2
      <4>2. PICK i \in DOMAIN assembled : assembled[i] = {Sdu(k)'}
        BY <1>3, <4>1
      <4>3. i \in 1..(n + 1) /\ assembled'[i] = assembled[i]
        BY <1>2, <2>2
      <4> QED
        BY <4>2, <4>3
    <3> QED
      BY <3>1, <3>2
  <2>5. ASSUME NEW i \in 1..(n + 1), NEW j \in 1..(n + 1), assembled'[i] = assembled'[j]
        PROVE  i = j
    <3>1. \A l \in 1..n : assembled[l] # {Sdu(a)}
      <4>1. SUFFICES ASSUME NEW l \in 1..n, assembled[l] = {Sdu(a)}
                     PROVE  FALSE
        OBVIOUS
      <4>2. PICK k \in 0..(higher - 1) : assembled[l] = {Sdu(k)'} /\ k # a
        BY <1>2, <1>5
      <4>3. Sdu(k) = Sdu(a)
        BY <1>0, <4>1, <4>2
      <4> QED
        BY <1>0, <4>2, <4>3
    <3>2. CASE i \in 1..n /\ j \in 1..n
      BY <1>1, <1>2, <2>2, <2>5, <3>2
    <3>3. CASE i = n + 1 /\ j \in 1..n
      BY <2>2, <2>5, <3>1, <3>3
    <3>4. CASE i \in 1..n /\ j = n + 1
      BY <2>2, <2>5, <3>1, <3>4
    <3> QED
      BY <3>2, <3>3, <3>4
  <2> QED
    BY <2>2, <2>3, <2>4, <2>5 DEF Deliveries
<1> QED
  BY <1>6, <1>7

\* A part of a number of the window is put into it.
LEMMA PlaceInBufferKeeps ==
  ASSUME NEW ack \in Nat, NEW next \in Nat, NEW missing \in Nat, NEW highest \in Nat,
         Numbered(ack, next, missing, highest),
         NEW a \in next..(Begun - 1), ~Full(a), NEW m \in Pdus, Carries(m, a),
         PlaceInBuffer(m), Begun' = Begun, Unsent' = Unsent,
         \A k \in 0..(Begun - 1) : Sdu(k)' = Sdu(k) /\ Gone(k)' = Gone(k) /\ Size(k)' = Size(k)
  PROVE  \E further, lacking, higher \in Nat :
           /\ next <= further /\ highest <= higher /\ (higher = highest \/ higher = a + 1)
           /\ reassembly' \in BOOLEAN
           /\ RxWindow(further, lacking, higher)' /\ Trigger(further, higher)' /\ GapIsWatched'
           /\ Deliveries(further, higher)'
<1>1. /\ next <= missing /\ missing <= highest /\ next <= highest /\ highest <= next + Window
      /\ Begun <= next + Window /\ highest <= Begun /\ Begun \in Nat /\ a \in Nat /\ next <= Unsent
      /\ Unsent \in Nat
  BY RxNumbers, Order
<1>2. /\ rx_next = Sn(next) /\ rx_highest_status = Sn(missing) /\ rx_next_highest = Sn(highest)
      /\ m.sn = Sn(a)
  BY DEF Numbered, RxWindow, Carries
<1>3. PICK info : info = Stored(m) /\ Holds(info, a)
  BY StoredHolds
<1>4. PICK kept : Put(kept, info, a)
  BY DEF Put
<1>5. PICK full \in BOOLEAN : full <=> FullIn(kept, Sn(a))
  <2>1. FullIn(kept, Sn(a)) \/ ~FullIn(kept, Sn(a))
    OBVIOUS
  <2> QED
    BY <2>1
<1> PICK higher \in Nat : higher = IF a >= highest THEN a + 1 ELSE highest
  BY <1>1
<1>6. /\ highest <= higher /\ a < higher /\ higher <= Begun /\ higher <= next + Window
      /\ DOMAIN kept \subseteq {Sn(k) : k \in next..(higher - 1)}
      /\ Sn(a) \in DOMAIN kept /\ kept[Sn(a)] = info /\ Sn(higher - 1) \in DOMAIN kept
      /\ DOMAIN rx_window \subseteq DOMAIN kept
  BY <1>3, <1>4, PutFacts
<1>7. \A k \in next..(higher - 1) : Sn(k) \in DOMAIN kept => Holds(kept[Sn(k)], k)
  BY <1>3, <1>4, PutFacts
<1>8. \A k \in next..higher : k # a => (FullIn(kept, Sn(k)) <=> k < highest /\ Full(k))
  BY <1>3, <1>4, PutFacts
<1>9. \A k \in next..(higher - 1) : FullIn(kept, Sn(k)) => k < Unsent
  BY <1>3, <1>4, PutFacts
<1>10. \A k \in next..(next + Window) : RxBase(Sn(k)) = k - next
  <2>1. SUFFICES ASSUME NEW k \in next..(next + Window)
                 PROVE  RxBase(Sn(k)) = k - next
    OBVIOUS
  <2>2. k \in Int /\ next - Mod <= k /\ k < next + Mod /\ k >= next
    BY Sizes
  <2> QED
    BY <1>2, <2>2, RxBaseIs
<1>11. rx_next_highest' = Sn(higher)
  <2>1. RxBase(m.sn) = a - next /\ RxBase(rx_next_highest) = highest - next
    BY <1>1, <1>2, <1>10, Sizes
  <2>2. Plus(m.sn, 1) = Sn(a + 1)
    BY <1>1, <1>2, PlusSn
  <2>3. rx_next_highest' = IF RxBase(m.sn) >= RxBase(rx_next_highest) THEN Plus(m.sn, 1) ELSE rx_next_highest
    BY DEF PlaceInBuffer
  <2>4. RxBase(m.sn) >= RxBase(rx_next_highest) <=> a >= highest
    BY <1>1, <2>1
  <2> QED
    BY <1>2, <2>2, <2>3, <2>4
<1>12. /\ assembled' = IF full THEN Append(assembled, info.of) ELSE assembled
       /\ rx_highest_status' = IF full /\ MovesStatus(m)
                                 THEN FirstMissing(kept, Plus(m.sn, 1), rx_next_highest')
                                 ELSE rx_highest_status
       /\ rx_next' = IF full /\ m.sn = rx_next THEN FirstMissing(kept, m.sn, rx_next_highest')
                                               ELSE rx_next
       /\ rx_window' = [sn \in {s \in DOMAIN kept : RxBase(s) >= RxBase(rx_next')} |-> kept[sn]]
  <2>1. kept = [sn \in DOMAIN rx_window \cup {m.sn} |-> IF sn = m.sn THEN Stored(m) ELSE rx_window[sn]]
    BY <1>2, <1>3, <1>4 DEF Put
  <2>2. full <=> FullIn(kept, m.sn)
    BY <1>2, <1>5
  <2>3. info.of = Stored(m).of
    BY <1>3
  <2> QED
    BY <2>1, <2>2, <2>3 DEF PlaceInBuffer
<1> DEFINE running == reassembly /\ ~StopsReassembly(rx_window', rx_next')
           starts == ~running /\ Incomplete(rx_window', rx_next', rx_next_highest')
<1>13. /\ reassembly' = (running \/ starts)
       /\ rx_next_status_trigger' = IF starts THEN rx_next_highest' ELSE rx_next_status_trigger
  BY DEF PlaceInBuffer
<1>14. ASSUME NEW x \in next..higher, x < highest => ~Full(x), x = a => ~full
       PROVE  ~FullIn(kept, Sn(x))
  BY <1>5, <1>8, <1>14
\* RX_Highest_Status
<1>15. PICK lacking \in missing..higher :
         rx_highest_status' = Sn(lacking) /\ (lacking < higher => ~FullIn(kept, Sn(lacking)))
  <2>1. missing < highest => ~Full(missing)
    BY DEF Numbered, RxWindow
  <2>2. CASE full /\ MovesStatus(m)
    <3>1. a = missing
      <4>1. Sn(a) = Sn(missing)
        BY <1>2, <2>2 DEF MovesStatus
      <4>2. a \in Int /\ missing \in Int /\ a - missing <= Window /\ missing - a <= Window
        BY <1>1, Sizes
      <4> QED
        BY <4>1, <4>2, WindowInjective
    <3>2. Plus(m.sn, 1) = Sn(a + 1)
      BY <1>1, <1>2, PlusSn
    <3>3. a + 1 \in Nat /\ a + 1 <= higher /\ higher < (a + 1) + Mod
      BY <1>1, <1>6, Sizes
    <3>4. PICK g \in (a + 1)..higher :
            /\ FirstMissing(kept, Sn(a + 1), Sn(higher)) = Sn(g)
            /\ g < higher => ~FullIn(kept, Sn(g))
      BY <3>3, FirstMissingFound
    <3>5. g \in missing..higher
      BY <3>1, <3>4
    <3> QED
      BY <1>11, <1>12, <2>2, <3>2, <3>4, <3>5
  <2>3. CASE ~(full /\ MovesStatus(m))
    <3>1. missing \in missing..higher /\ missing \in next..higher
      BY <1>1, <1>6
    <3>2. rx_highest_status' = Sn(missing)
      BY <1>2, <1>12, <2>3
    <3>3. missing = a => ~full
      BY <1>2, <2>3 DEF MovesStatus
    <3>4. ~FullIn(kept, Sn(missing))
      BY <1>14, <2>1, <3>1, <3>3
    <3> QED
      BY <3>1, <3>2, <3>4
  <2> QED
    BY <2>2, <2>3
\* RX_Next
<1>16. PICK further \in next..lacking :
         /\ rx_next' = Sn(further) /\ (further < higher => ~FullIn(kept, Sn(further)))
         /\ \A k \in next..(further - 1) : FullIn(kept, Sn(k))
  <2>1. next < highest => ~Full(next)
    BY DEF Numbered, RxWindow
  <2>2. CASE full /\ m.sn = rx_next
    <3>1. a = next
      <4>1. Sn(a) = Sn(next)
        BY <1>2, <2>2
      <4>2. a \in Int /\ next \in Int /\ a - next <= Window /\ next - a <= Window
        BY <1>1, Sizes
      <4> QED
        BY <4>1, <4>2, WindowInjective
    <3>2. a <= higher /\ higher < a + Mod
      BY <1>1, <1>6, Sizes
    <3>3. PICK g \in a..higher :
            /\ FirstMissing(kept, Sn(a), Sn(higher)) = Sn(g)
            /\ \A k \in a..(g - 1) : FullIn(kept, Sn(k))
            /\ g < higher => ~FullIn(kept, Sn(g))
      BY <1>1, <3>2, FirstMissingFound
    <3>4. g <= lacking
      <4>1. SUFFICES ASSUME lacking < g
                     PROVE  FALSE
        OBVIOUS
      <4>2. lacking < higher /\ lacking \in a..(g - 1)
        BY <1>1, <3>1, <4>1
      <4> QED
        BY <1>15, <3>3, <4>2
    <3>5. g \in next..lacking
      BY <3>1, <3>3, <3>4
    <3> QED
      BY <1>2, <1>11, <1>12, <2>2, <3>1, <3>3, <3>5
  <2>3. CASE ~(full /\ m.sn = rx_next)
    <3>1. next \in next..lacking /\ next \in next..higher
      BY <1>1, <1>6
    <3>2. rx_next' = Sn(next)
      BY <1>2, <1>12, <2>3
    <3>3. next = a => ~full
      BY <1>2, <2>3
    <3>4. ~FullIn(kept, Sn(next))
      BY <1>14, <2>1, <3>1, <3>3
    <3>5. \A k \in next..(next - 1) : FullIn(kept, Sn(k))
      OBVIOUS
    <3> QED
      BY <3>1, <3>2, <3>4, <3>5
  <2> QED
    BY <2>2, <2>3
<1>17. /\ lacking \in Nat /\ further \in Nat /\ next <= further /\ further <= lacking /\ lacking <= higher
       /\ further <= Unsent
  <2>1. /\ lacking \in Nat /\ further \in Nat /\ next <= further /\ further <= lacking /\ lacking <= higher
    BY <1>1
  <2>2. CASE further = next
    BY <1>1, <2>2
  <2>3. CASE further # next
    <3>1. further - 1 \in next..(further - 1) /\ further - 1 \in next..(higher - 1)
      BY <2>1, <2>3
    <3>2. further - 1 < Unsent
      BY <1>9, <1>16, <3>1
    <3> QED
      BY <1>1, <2>1, <3>2
  <2> QED
    BY <2>1, <2>2, <2>3
\* The window is cut at RX_Next.
<1>18. ASSUME NEW k \in next..(higher - 1), Sn(k) \in DOMAIN kept
       PROVE  Sn(k) \in DOMAIN rx_window' <=> k >= further
  <2>1. RxBase(Sn(k)) = k - next /\ RxBase(Sn(further)) = further - next
    <3>1. k \in next..(next + Window) /\ further \in next..(next + Window)
      BY <1>1, <1>6, <1>17, Sizes
    <3> QED
      BY <1>10, <3>1
  <2>2. Sn(k) \in DOMAIN rx_window' <=> RxBase(Sn(k)) >= RxBase(Sn(further))
    BY <1>12, <1>16, <1>18
  <2> QED
    BY <1>1, <1>17, <2>1, <2>2
<1>19. /\ DOMAIN rx_window' \subseteq DOMAIN kept
       /\ \A sn \in DOMAIN rx_window' : rx_window'[sn] = kept[sn]
  BY <1>12
<1>20. DOMAIN rx_window' \subseteq {Sn(k) : k \in further..(higher - 1)}
  <2>1. SUFFICES ASSUME NEW sn \in DOMAIN rx_window'
                 PROVE  sn \in {Sn(k) : k \in further..(higher - 1)}
    OBVIOUS
  <2>2. PICK k \in next..(higher - 1) : sn = Sn(k)
    BY <1>6, <1>19
  <2>3. k >= further
    BY <1>18, <1>19, <2>2
  <2>4. k \in further..(higher - 1)
    BY <1>17, <2>3
  <2> QED
    BY <2>2, <2>4
<1>21. ASSUME NEW k \in further..(higher - 1)
       PROVE  /\ Sn(k) \in DOMAIN rx_window' <=> Sn(k) \in DOMAIN kept
              /\ Sn(k) \in DOMAIN rx_window' => rx_window'[Sn(k)] = kept[Sn(k)] /\ Holds(kept[Sn(k)], k)
              /\ Full(k)' <=> FullIn(kept, Sn(k))
  <2>1. k \in next..(higher - 1) /\ k >= further
    BY <1>17
  <2>2. Sn(k) \in DOMAIN rx_window' <=> Sn(k) \in DOMAIN kept
    BY <1>18, <1>19, <2>1
  <2>3. Sn(k) \in DOMAIN rx_window' => rx_window'[Sn(k)] = kept[Sn(k)] /\ Holds(kept[Sn(k)], k)
    BY <1>7, <1>19, <2>1
  <2>4. Full(k)' <=> FullIn(kept, Sn(k))
    BY <2>2, <2>3 DEF Full, FullIn, HasGap
  <2> QED
    BY <2>2, <2>3, <2>4
<1>22. further < higher => Sn(higher - 1) \in DOMAIN rx_window'
  <2>1. SUFFICES ASSUME further < higher
                 PROVE  Sn(higher - 1) \in DOMAIN rx_window'
    OBVIOUS
  <2>2. higher - 1 \in further..(higher - 1)
    BY <1>17, <2>1
  <2> QED
    BY <1>6, <1>21, <2>2
<1>23. RxWindow(further, lacking, higher)'
  <2>1. /\ further <= lacking /\ lacking <= higher /\ further <= Unsent' /\ higher <= Begun'
        /\ rx_next' = Sn(further) /\ rx_highest_status' = Sn(lacking) /\ rx_next_highest' = Sn(higher)
    BY <1>6, <1>11, <1>15, <1>16, <1>17
  <2>2. rx_next_status_trigger' \in 0..(Mod - 1)
    <3>1. Sn(higher) \in 0..(Mod - 1) /\ rx_next_status_trigger \in 0..(Mod - 1)
      BY SnType DEF Numbered, RxWindow
    <3> QED
      BY <1>11, <1>13, <3>1
  <2>3. ASSUME NEW k \in further..(higher - 1), Sn(k) \in DOMAIN rx_window'
        PROVE  RxSlot(k)'
    <3>1. rx_window'[Sn(k)] = kept[Sn(k)] /\ Holds(kept[Sn(k)], k)
      BY <1>21, <2>3
    <3>2. k \in 0..(Begun - 1)
      BY <1>1, <1>6, <1>17
    <3>3. Sdu(k)' = Sdu(k) /\ Gone(k)' = Gone(k) /\ Size(k)' = Size(k)
      BY <3>2
    <3> QED
      BY <3>1, <3>3 DEF RxSlot, Holds
  <2>4. further < higher => ~Full(further)'
    <3>1. SUFFICES ASSUME further < higher
                   PROVE  ~Full(further)'
      OBVIOUS
    <3>2. further \in further..(higher - 1)
      BY <1>17, <3>1
    <3> QED
      BY <1>16, <1>21, <3>1, <3>2
  <2>5. lacking < higher => ~Full(lacking)'
    <3>1. SUFFICES ASSUME lacking < higher
                   PROVE  ~Full(lacking)'
      OBVIOUS
    <3>2. lacking \in further..(higher - 1)
      BY <1>17, <3>1
    <3> QED
      BY <1>15, <1>21, <3>1, <3>2
  <2> QED
    BY <1>20, <1>22, <2>1, <2>2, <2>3, <2>4, <2>5 DEF RxWindow
<1>24. Trigger(further, higher)'
  <2>1. SUFFICES ASSUME reassembly'
                 PROVE  \E g \in (further + 1)..higher :
                          rx_next_status_trigger' = Sn(g) /\ Sn(g - 1) \in DOMAIN rx_window'
    BY DEF Trigger
  <2>2. CASE starts
    <3>1. rx_next_status_trigger' = Sn(higher)
      BY <1>11, <1>13, <2>2
    <3>2. (Sn(higher) - Sn(further)) % Mod = higher - further
      BY <1>1, <1>6, <1>17, Ahead, Sizes
    <3>3. (Sn(higher) - Sn(further)) % Mod > 1 \/ (Sn(higher) - Sn(further)) % Mod = 1
      BY <1>11, <1>16, <2>2 DEF Incomplete
    <3>4. further < higher
      BY <1>17, <3>2, <3>3
    <3>5. higher \in (further + 1)..higher
      BY <1>17, <3>4
    <3> QED
      BY <1>22, <3>1, <3>4, <3>5
  <2>3. CASE ~starts
    <3>1. reassembly /\ ~StopsReassembly(rx_window', rx_next') /\ rx_next_status_trigger' = rx_next_status_trigger
      BY <1>13, <2>1, <2>3
    <3>2. PICK g \in (next + 1)..highest :
            rx_next_status_trigger = Sn(g) /\ Sn(g - 1) \in DOMAIN rx_window
      BY <3>1 DEF Numbered, Trigger
    <3>3. (Sn(g) - Sn(further)) % Mod # 0 /\ ~((Sn(g) - Sn(further)) % Mod >= Window)
      <4>1. DEFINE ahead == (Sn(g) - Sn(further)) % Mod
      <4>2. ~(ahead = 0 \/ (ahead = 1 /\ ~HasGap(rx_window', rx_next')) \/ ahead >= Window)
        BY <1>16, <3>1, <3>2 DEF StopsReassembly
      <4> QED
        BY <4>2
    <3>4. g > further
      <4>1. CASE g < further
        <5>1. further - Mod <= g /\ g \in Int /\ further \in Int
          BY <1>1, <1>6, <1>17, Sizes
        <5>2. (Sn(g) - Sn(further)) % Mod = g - further + Mod
          BY <4>1, <5>1, Behind
        <5>3. g - further + Mod >= Window
          BY <1>1, <1>6, <1>17, Sizes
        <5> QED
          BY <3>3, <5>2, <5>3
      <4>2. CASE g = further
        <5>1. (Sn(g) - Sn(further)) % Mod = 0
          BY <1>17, <4>2, Ahead, Sizes
        <5> QED
          BY <3>3, <5>1
      <4> QED
        BY <1>17, <4>1, <4>2
    <3>5. g - 1 \in further..(higher - 1) /\ g \in (further + 1)..higher
      BY <1>1, <1>6, <1>17, <3>4
    <3>6. Sn(g - 1) \in DOMAIN rx_window'
      BY <1>6, <1>21, <3>2, <3>5
    <3> QED
      BY <3>1, <3>2, <3>5, <3>6
  <2> QED
    BY <2>2, <2>3
<1>25. GapIsWatched'
  <2>1. SUFFICES ASSUME ~reassembly'
                 PROVE  GapIsWatched'
    BY DEF GapIsWatched
  <2>2. ~Incomplete(rx_window', rx_next', rx_next_highest')
    BY <1>13, <2>1
  <2>3. (rx_next_highest' - rx_next') % Mod = higher - further
    BY <1>1, <1>6, <1>11, <1>16, <1>17, Ahead, Sizes
  <2>4. higher - further \in Nat
    BY <1>17
  <2>5. higher - further = 0 \/ (higher - further = 1 /\ ~HasGap(rx_window', rx_next'))
    BY <2>2, <2>3, <2>4 DEF Incomplete
  <2> QED
    BY <2>3, <2>5 DEF GapIsWatched, RxBase, HasGap
<1>26. Deliveries(further, higher)'
  <2>1. Deliveries(next, highest) /\ SdusInOrder
    BY DEF Numbered, History
  <2>2. \A k \in 0..(higher - 1) : k \in 0..(Begun - 1)
    BY <1>1, <1>6
  <2>3. \A k \in 0..(higher - 1) : Sdu(k)' = Sdu(k) /\ Sdu(k) \in Nat
    <3>1. \A k \in 0..(Begun - 1) : Sdu(k) \in 1..Len(lengths)
      BY <2>1, SduFacts
    <3>2. \A k \in 0..(Begun - 1) : Sdu(k) \in Nat
      BY <3>1
    <3> QED
      BY <2>2, <3>2
  <2>4. \A k, l \in 0..(higher - 1) : Sdu(k) = Sdu(l) => k = l
    BY <2>1, <2>2, SduFacts
  <2>5. assembled' = IF full THEN Append(assembled, {Sdu(a)}) ELSE assembled
    <3>1. info.of = {Sdu(a)}
      BY <1>3 DEF Holds
    <3> QED
      BY <1>12, <3>1
  <2>6. a \in 0..(higher - 1) /\ a \in next..(higher - 1)
    BY <1>1, <1>6
  <2>7. ~Complete(a, next, highest)
    BY <1>1, <2>6 DEF Complete
  <2>8. ASSUME NEW k \in 0..(higher - 1)
        PROVE  Complete(k, further, higher)' <=> Complete(k, next, highest) \/ (k = a /\ full)
    <3>1. Complete(k, further, higher)' <=> k < further \/ Full(k)'
      BY DEF Complete
    <3>2. CASE k < next
      BY <1>17, <3>1, <3>2 DEF Complete
    <3>3. CASE k >= next
      <4>1. k \in next..(higher - 1) /\ k \in next..higher
        BY <3>3
      <4>2. k < further \/ Full(k)' <=> FullIn(kept, Sn(k))
        <5>1. CASE k < further
          BY <1>16, <3>3, <5>1
        <5>2. CASE ~(k < further)
          <6>1. k \in further..(higher - 1)
            BY <1>17, <5>2
          <6> QED
            BY <1>21, <5>2, <6>1
        <5> QED
          BY <5>1, <5>2
      <4>3. CASE k = a
        BY <1>5, <2>7, <3>1, <4>2, <4>3
      <4>4. CASE k # a
        <5>1. FullIn(kept, Sn(k)) <=> k < highest /\ Full(k)
          BY <1>8, <4>1, <4>4
        <5>2. Complete(k, next, highest) <=> k < highest /\ Full(k)
          BY <3>3 DEF Complete
        <5> QED
          BY <3>1, <4>2, <4>4, <5>1, <5>2
      <4> QED
        BY <4>3, <4>4
    <3> QED
      BY <3>2, <3>3
  <2>9. next <= highest /\ highest <= higher /\ further \in Nat /\ a \in 0..(higher - 1)
    BY <1>1, <1>6, <1>17, <2>6
  <2>10. Deliveries(next, highest)
    BY <2>1
  <2>11. DeliversIf(full, a, next, highest, further, higher)
    BY <2>3, <2>4, <2>5, <2>7, <2>8, Zenon DEF DeliversIf
  <2> QED
    BY <2>9, <2>10, <2>11, DeliveriesGrow
<1>27. reassembly' \in BOOLEAN
  <2>1. reassembly \in BOOLEAN
    BY DEF Numbered, Scalars
  <2> QED
    BY <1>13, <2>1
<1>28. next <= further /\ highest <= higher /\ (higher = highest \/ higher = a + 1)
  BY <1>6, <1>17
<1> QED
  BY <1>17, <1>23, <1>24, <1>25, <1>26, <1>27, <1>28

\* Numbers whose SNs are near are less than a window apart.
LEMMA NearMeans ==
  ASSUME NEW a \in Int, NEW b \in Int, a + 1 <= b + Window, b <= a + Window, Near(Sn(a), Sn(b))
  PROVE  b + 1 <= a + Window
<1>1. SUFFICES ASSUME b = a + Window
               PROVE  FALSE
  BY Sizes
<1>2. (Sn(a) - Sn(b)) % Mod = a - b + Mod
  BY <1>1, Behind, Sizes
<1>3. (Sn(b) - Sn(a)) % Mod = b - a
  BY <1>1, Ahead, Sizes
<1>4. a - b + Mod = Window /\ b - a = Window
  BY <1>1, Sizes
<1> QED
  BY <1>2, <1>3, <1>4, Sizes DEF Near

\* A sequence without its second element, and with another first one.
Overtaken(q, h) == [RemoveAt(q, 2) EXCEPT ![1] = h]

LEMMA SecondRemoved ==
  ASSUME NEW S, NEW q \in Seq(S), Len(q) > 1, NEW h \in S
  PROVE  /\ Overtaken(q, h) \in Seq(S) /\ Len(Overtaken(q, h)) = Len(q) - 1
         /\ Overtaken(q, h)[1] = h
         /\ \A i \in 2..(Len(q) - 1) : Overtaken(q, h)[i] = q[i + 1]
<1>1. PICK rest : rest = RemoveAt(q, 2)
  OBVIOUS
<1>2. 2 \in 1..Len(q) /\ Len(q) \in Nat
  OBVIOUS
<1>3. rest \in Seq(S) /\ Len(rest) = Len(q) - 1
      /\ \A j \in 1..(Len(q) - 1) : rest[j] = IF j < 2 THEN q[j] ELSE q[j + 1]
  BY <1>1, <1>2, RemovedAt
<1>4. PICK r : r = [rest EXCEPT ![1] = h]
  OBVIOUS
<1>5. r = Overtaken(q, h)
  BY <1>1, <1>4 DEF Overtaken
<1>6. /\ r \in Seq(S) /\ Len(r) = Len(rest)
      /\ \A j \in 1..Len(rest) : r[j] = IF j = 1 THEN h ELSE rest[j]
  <2>1. 1 \in 1..Len(rest)
    BY <1>2, <1>3
  <2> QED
    BY ONLY <1>3, <1>4, <2>1, h \in S, ExceptSeq
<1>7. \A i \in 2..(Len(q) - 1) : i \in 1..(Len(q) - 1) /\ ~(i < 2) /\ i # 1
  OBVIOUS
<1>8. 1 \in 1..(Len(q) - 1)
  BY <1>2
<1> QED
  BY ONLY <1>3, <1>5, <1>6, <1>7, <1>8

\* A PDU that a lower layer sent again has been overtaken by the next.
LEMMA RadioOvertaken ==
  ASSUME NEW highest \in Nat, NEW no \in [DOMAIN data -> 0..(Begun - 1)], OnAir(no, highest),
         Len(data) > 1, ~data[1].late, Near(data[1].sn, data[2].sn),
         data' = [RemoveAt(data, 2) EXCEPT ![1].late = TRUE], Begun \in Nat, Begun' = Begun,
         \A l \in 0..(Begun - 1) : Sdu(l)' = Sdu(l) /\ Gone(l)' = Gone(l) /\ Size(l)' = Size(l),
         NEW higher \in Nat, higher = highest \/ higher = no[2] + 1
  PROVE  Radio(higher)'
<1>1. data \in Seq(Pdus)
  BY DEF OnAir
<1>2. PICK n \in Nat : n + 2 = Len(data)
  <2>1. Len(data) - 2 \in Nat /\ (Len(data) - 2) + 2 = Len(data)
    BY <1>1
  <2> QED
    BY <2>1
<1>3. DOMAIN data = 1..(n + 2) /\ \A i \in 1..(n + 2) : no[i] \in 0..(Begun - 1) /\ no[i] \in Int
  BY <1>1, <1>2
<1>4. 1 \in DOMAIN data /\ 2 \in DOMAIN data /\ data[1] \in Pdus
  <2>1. 1 \in 1..Len(data) /\ 2 \in 1..Len(data)
    BY <1>1, <1>2
  <2> QED
    BY <1>1, <2>1, ElementOfSeq
<1>5. PICK head \in Pdus : head = [data[1] EXCEPT !.late = TRUE]
  BY <1>4 DEF Pdus
<1>6. /\ head.late = TRUE /\ head.sn = data[1].sn /\ head.so = data[1].so /\ head.len = data[1].len
      /\ head.last = data[1].last /\ head.sdu = data[1].sdu
  BY <1>4, <1>5 DEF Pdus
<1>7. /\ data' \in Seq(Pdus) /\ Len(data') = n + 1 /\ DOMAIN data' = 1..(n + 1)
      /\ data'[1] = head
      /\ \A i \in 2..(n + 1) : data'[i] = data[i + 1] /\ i + 1 \in DOMAIN data
  <2>1. PICK r : r = data'
    OBVIOUS
  <2>2. r = Overtaken(data, head)
    <3>1. RemoveAt(data, 2)[1] = data[1]
      <4>1. 2 \in 1..Len(data) /\ 1 \in 1..(Len(data) - 1) /\ 1 < 2
        BY <1>2
      <4>2. \A j \in 1..(Len(data) - 1) :
              RemoveAt(data, 2)[j] = IF j < 2 THEN data[j] ELSE data[j + 1]
        BY <1>1, <4>1, RemovedAt
      <4> QED
        BY <4>1, <4>2
    <3>2. data' = [RemoveAt(data, 2) EXCEPT ![1] = [RemoveAt(data, 2)[1] EXCEPT !.late = TRUE]]
      OBVIOUS
    <3> QED
      BY <1>5, <2>1, <3>1, <3>2 DEF Overtaken
  <2>3. /\ r \in Seq(Pdus) /\ Len(r) = Len(data) - 1 /\ r[1] = head
        /\ \A i \in 2..(Len(data) - 1) : r[i] = data[i + 1]
    <3>1. data \in Seq(Pdus) /\ Len(data) > 1 /\ head \in Pdus
      BY <1>1, <1>5
    <3>2. /\ Overtaken(data, head) \in Seq(Pdus) /\ Len(Overtaken(data, head)) = Len(data) - 1
          /\ Overtaken(data, head)[1] = head
          /\ \A i \in 2..(Len(data) - 1) : Overtaken(data, head)[i] = data[i + 1]
      BY ONLY <3>1, SecondRemoved
    <3> QED
      BY ONLY <2>2, <3>2
  <2>4. Len(data) - 1 = n + 1
    BY <1>2
  <2>5. DOMAIN r = 1..(n + 1) /\ \A i \in 2..(n + 1) : i + 1 \in 1..(n + 2)
    BY <2>3, <2>4
  <2> QED
    BY <1>3, <2>1, <2>3, <2>4, <2>5
<1>8. PICK less \in [1..(n + 1) -> 0..(Begun - 1)] :
        less[1] = no[1] /\ \A i \in 2..(n + 1) : less[i] = no[i + 1]
  <2> DEFINE f == [i \in 1..(n + 1) |-> IF i = 1 THEN no[1] ELSE no[i + 1]]
  <2>1. \A i \in 1..(n + 1) : (IF i = 1 THEN no[1] ELSE no[i + 1]) \in 0..(Begun - 1)
    <3>1. \A i \in 1..(n + 1) : i = 1 \/ i + 1 \in 1..(n + 2)
      OBVIOUS
    <3> QED
      BY <1>3, <1>4, <3>1
  <2>2. f \in [1..(n + 1) -> 0..(Begun - 1)]
    BY <2>1
  <2>3. f[1] = no[1] /\ \A i \in 2..(n + 1) : f[i] = no[i + 1]
    OBVIOUS
  <2> QED
    BY <2>2, <2>3
\* Near: the second is less than a window ahead of the first.
<1>9. no[2] + 1 <= no[1] + Window
  <2>1. PICK a \in Int, b \in Int : a = no[1] /\ b = no[2]
    BY <1>3, <1>4
  <2>2. a + 1 <= b + Window /\ b <= a + Window
    <3>1. 1 < 2 /\ 2 = 1 + 1
      OBVIOUS
    <3>2. no[1] + 1 <= no[2] + Window
      BY <1>4, <3>1 DEF OnAir
    <3>3. no[2] <= no[1] + Window
      BY <1>4, <3>1 DEF OnAir
    <3> QED
      BY <2>1, <3>2, <3>3
  <2>3. data[1].sn = Sn(a) /\ data[2].sn = Sn(b)
    BY <1>4, <2>1 DEF OnAir, Carries
  <2>4. Near(Sn(a), Sn(b))
    BY <2>3
  <2>5. b + 1 <= a + Window
    BY <2>2, <2>4, NearMeans
  <2> QED
    BY <2>1, <2>5
<1>10. Carries(data[1], no[1])
  BY <1>4 DEF OnAir
<1>11. ASSUME NEW i \in 1..(n + 1)
       PROVE  Carries(data[i], less[i])' /\ higher <= less[i] + Window /\ (data'[i].late => i = 1)
  <2>1. CASE i = 1
    <3>1. no[1] \in 0..(Begun - 1) /\ highest <= no[1] + Window
      BY <1>3, <1>4 DEF OnAir
    <3>2. Carries(head, no[1])'
      BY <1>6, <1>10, <3>1 DEF Carries
    <3>3. Carries(data[1], less[1])'
      BY <1>7, <1>8, <3>2 DEF Carries
    <3> QED
      BY <1>8, <1>9, <2>1, <3>1, <3>3
  <2>2. CASE i # 1
    <3>1. i \in 2..(n + 1) /\ i + 1 # 1 /\ 2 < i + 1
      BY <2>2
    <3>2. i + 1 \in DOMAIN data /\ less[i] = no[i + 1] /\ data'[i] = data[i + 1]
      BY <1>7, <1>8, <3>1
    <3>3. /\ Carries(data[i + 1], no[i + 1]) /\ highest <= no[i + 1] + Window
          /\ no[2] + 1 <= no[i + 1] + Window /\ ~data[i + 1].late
      BY <1>4, <3>1, <3>2 DEF OnAir
    <3>4. no[i + 1] \in 0..(Begun - 1)
      BY <1>3, <3>2
    <3>5. Carries(data[i], less[i])'
      BY <3>2, <3>3, <3>4 DEF Carries
    <3> QED
      BY <3>2, <3>3, <3>5
  <2> QED
    BY <2>1, <2>2
<1>12. ASSUME NEW i \in 1..(n + 1), NEW j \in 1..(n + 1), i < j
       PROVE  /\ less[i] + 1 <= less[j] + Window
              /\ j = i + 1 /\ ~data'[i].late => less[j] <= less[i] + Window
  <2>1. PICK a \in DOMAIN data : a = (IF i = 1 THEN 1 ELSE i + 1) /\ less[i] = no[a]
    <3>1. CASE i = 1
      BY <1>4, <1>8, <3>1
    <3>2. CASE i # 1
      <4>1. i \in 2..(n + 1)
        BY <3>2
      <4> QED
        BY <1>7, <1>8, <3>2, <4>1
    <3> QED
      BY <3>1, <3>2
  <2>2. j \in 2..(n + 1)
    BY <1>12
  <2>3. j + 1 \in DOMAIN data /\ less[j] = no[j + 1] /\ a < j + 1
    <3>1. j + 1 \in DOMAIN data
      BY ONLY <1>7, <2>2
    <3>2. less[j] = no[j + 1]
      BY ONLY <1>8, <2>2
    <3>3. a < j + 1
      BY ONLY <1>12, <2>1, i \in 1..(n + 1), j \in 1..(n + 1), n \in Nat
    <3> QED
      BY ONLY <3>1, <3>2, <3>3
  <2>4. less[i] + 1 <= less[j] + Window
    BY <2>1, <2>3 DEF OnAir
  <2>5. ASSUME j = i + 1, ~data'[i].late
        PROVE  less[j] <= less[i] + Window
    <3>1. i # 1
      BY <1>6, <1>7, <2>5
    <3>2. i \in 2..(n + 1) /\ a = i + 1 /\ j + 1 = a + 1
      BY <2>1, <2>5, <3>1
    <3>3. ~data[a].late
      BY <1>7, <2>5, <3>2
    <3> QED
      BY <2>1, <2>3, <3>2, <3>3 DEF OnAir
  <2> QED
    BY <2>4, <2>5
<1>13. ASSUME NEW i \in 1..(n + 1), i = n + 1, ~data'[i].late
       PROVE  Begun' <= less[i] + Window
  <2>1. i # 1
    BY <1>6, <1>7, <1>13
  <2>2. i \in 2..(n + 1) /\ i + 1 = Len(data)
    BY <1>2, <1>13, <2>1
  <2>3. i + 1 \in DOMAIN data /\ ~data[i + 1].late /\ less[i] = no[i + 1]
    BY <1>7, <1>8, <1>13, <2>2
  <2> QED
    BY <2>2, <2>3 DEF OnAir
<1>14. OnAir(less, higher)'
  <2>1. \A i, j \in 1..(n + 1) : j = i + 1 => i < j
    OBVIOUS
  <2> QED
    BY <1>7, <1>11, <1>12, <1>13, <2>1 DEF OnAir
<1> QED
  BY <1>7, <1>8, <1>14 DEF Radio

LEMMA DataHandled ==
  ASSUME NEW ack \in Nat, NEW next \in Nat, NEW missing \in Nat, NEW highest \in Nat,
         Numbered(ack, next, missing, highest),
         NEW a \in 0..(Begun - 1), NEW m \in Pdus, Carries(m, a), highest <= a + Window,
         HandleDataPdu(m),
         \A higher \in Nat : higher = highest \/ higher = a + 1 => Radio(higher)'
  PROVE  \E further, lacking, higher \in Nat : Numbered(ack, further, lacking, higher)'
<1>1. /\ UNCHANGED <<tx, prohibit, status, lengths, submitted, acked>>
      /\ do_status' = (do_status \/ m.p)
      /\ IF InsideRxWindow(m.sn) /\ ~FullIn(rx_window, m.sn)
           THEN PlaceInBuffer(m)
           ELSE UNCHANGED <<rxst, rx_window, reassembly, assembled, dropped>>
      /\ UNCHANGED <<pulling, taken>> /\ spare' \in {spare, NoReport}
      /\ \E changed \in BOOLEAN : fresh' = (fresh \/ changed)
  <2>1. PICK changed \in BOOLEAN : Refresh(changed)
    BY DEF HandleDataPdu
  <2> QED
    BY <2>1 DEF HandleDataPdu, Refresh
<1>2. /\ UNCHANGED <<lengths, sent, tx_window, sn_under_segmentation, tx_next, tx_next_ack, retx_queue>>
      /\ UNCHANGED <<poll_timer, poll_expired, max_retx, told, poll_sn, retx_sn, queue>>
  BY <1>1 DEF tx, txst, retx, poll
<1>3. /\ Grows /\ Begun' = Begun /\ Unsent' = Unsent /\ TxWindow(ack)' /\ RetxQueue(ack)'
      /\ \A k \in 0..(Begun - 1) : Sdu(k)' = Sdu(k) /\ Gone(k)' = Gone(k) /\ Size(k)' = Size(k)
  BY <1>2, Idle
<1>4. /\ Begun \in Nat /\ Begun <= next + Window /\ next <= highest /\ ack <= next
      /\ ack <= Begun /\ rx_next = Sn(next) /\ m.sn = Sn(a)
  <2>1. next <= highest /\ Begun <= next + Window
    BY RxNumbers
  <2>2. Begun \in Nat /\ ack <= next /\ highest <= Begun
    BY Order
  <2>3. ack <= Begun
    BY <2>1, <2>2
  <2> QED
    BY <2>1, <2>2, <2>3 DEF Numbered, RxWindow, Carries
<1>5. SdusInOrder'
  BY <1>1, <1>2 DEF Numbered, SdusInOrder, Rising
<1>6. ASSUME reassembly' \in BOOLEAN
      PROVE  Scalars'
  <2>1. (do_status \/ m.p) \in BOOLEAN /\ fresh' \in BOOLEAN
    BY <1>1
  <2> QED
    BY <1>1, <1>2, <1>6, <2>1 DEF Numbered, Scalars
<1>7. ASSUME NEW further \in Nat, NEW higher \in Nat, next <= further, highest <= higher
      PROVE  Reports(further, higher)'
  <2>1. Reports(next, highest)
    BY DEF Numbered
  <2>2. \A s : Truthful(s, next, highest) => Truthful(s, further, higher)'
    BY <1>3, <1>7, TruthKept
  <2>3. Truthful(spare, further, higher)'
    <3>1. PICK s : s = spare'
      OBVIOUS
    <3>2. Truthful(s, next, highest)
      BY <1>1, <2>1, <3>1, NoReportIsTrue DEF Reports
    <3>3. Truthful(s, further, higher)'
      BY <2>2, <3>2
    <3> QED
      BY <3>1, <3>3
  <2> QED
    BY <1>1, <2>1, <2>2, <2>3 DEF Reports
<1>8. CASE ~(InsideRxWindow(m.sn) /\ ~FullIn(rx_window, m.sn))
  <2>0. Reports(next, highest)'
    BY <1>4, <1>7
  <2>1. UNCHANGED <<rxst, rx_window, reassembly, assembled>>
    BY <1>1, <1>8
  <2>2. Scalars'
    BY <1>6, <2>1 DEF Numbered, Scalars
  <2>3. Numbered(ack, next, missing, highest)'
    BY <1>1, <1>2, <1>5, <2>0, <2>1, <2>2, Quiet
  <2> QED
    BY <2>3
<1>9. CASE InsideRxWindow(m.sn) /\ ~FullIn(rx_window, m.sn)
  <2>1. PlaceInBuffer(m) /\ ~Full(a)
    BY <1>1, <1>4, <1>9 DEF Full
  <2>2. a >= next
    <3>1. SUFFICES ASSUME a < next
                   PROVE  FALSE
      OBVIOUS
    <3>2. next - Mod <= a /\ a < next + Mod /\ a \in Int
      BY <1>4, <3>1, Sizes
    <3>3. RxBase(Sn(a)) = a - next + Mod
      BY <1>4, <3>1, <3>2, RxBaseIs
    <3>4. a - next + Mod >= Window
      BY <1>4, Sizes
    <3> QED
      BY <1>4, <1>9, <3>3, <3>4, Sizes DEF InsideRxWindow
  <2>3. a \in next..(Begun - 1)
    BY <1>4, <2>2
  <2>4. PICK further, lacking, higher \in Nat :
           /\ next <= further /\ highest <= higher /\ (higher = highest \/ higher = a + 1)
           /\ reassembly' \in BOOLEAN
           /\ RxWindow(further, lacking, higher)' /\ Trigger(further, higher)' /\ GapIsWatched'
           /\ Deliveries(further, higher)'
    BY <1>3, <2>1, <2>3, PlaceInBufferKeeps
  <2>5. Radio(higher)' /\ Scalars'
    BY <1>6, <2>4
  <2>6. Reports(further, higher)'
    BY <1>7, <2>4
  <2>7. History(ack, further, higher)'
    <3>1. \A k \in 0..(ack - 1) : Sdu(k)' = Sdu(k)
      BY <1>3, <1>4
    <3>2. acked' = {Sdu(k)' : k \in 0..(ack - 1)}
      BY <1>1, <3>1 DEF Numbered, History
    <3> QED
      BY <2>4, <3>2 DEF History
  <2>8. ack <= further
    BY <1>4, <2>4
  <2>9. Numbered(ack, further, lacking, higher)'
    BY <1>3, <1>5, <2>4, <2>5, <2>6, <2>7, <2>8 DEF Numbered
  <2> QED
    BY <2>9
<1> QED
  BY <1>8, <1>9

LEMMA ArrivesKeeps ==
  ASSUME NEW ack \in Nat, NEW next \in Nat, NEW missing \in Nat, NEW highest \in Nat,
         Numbered(ack, next, missing, highest), Arrives
  PROVE  \E further, lacking, higher \in Nat : Numbered(ack, further, lacking, higher)'
<1>1. PICK no \in [DOMAIN data -> 0..(Begun - 1)] : OnAir(no, highest)
  BY DEF Numbered, Radio
<1>2. data \in Seq(Pdus) /\ Begun \in Nat
  BY <1>1, Order DEF OnAir
<1>3. \A i \in 1..Len(data) : data[i] \in Pdus /\ no[i] \in 0..(Begun - 1)
                              /\ Carries(data[i], no[i]) /\ highest <= no[i] + Window
  <2>1. \A i \in 1..Len(data) : data[i] \in Pdus /\ i \in DOMAIN data
    BY <1>2, ElementOfSeq
  <2> QED
    BY <1>1, <2>1 DEF OnAir
<1>4. ASSUME NEW i \in 1..Len(data), HandleDataPdu(data[i])
      PROVE  /\ Begun' = Begun
             /\ \A k \in 0..(Begun - 1) : Sdu(k)' = Sdu(k) /\ Gone(k)' = Gone(k) /\ Size(k)' = Size(k)
  <2>1. UNCHANGED <<lengths, sent, tx_window, sn_under_segmentation, tx_next, tx_next_ack, retx_queue>>
    BY <1>4 DEF HandleDataPdu, tx, txst, retx
  <2> QED
    BY <2>1, Idle
<1>5. CASE data # << >> /\ data' = Tail(data) /\ HandleDataPdu(data[1])
  <2>1. 1 \in 1..Len(data)
    BY <1>2, <1>5
  <2>2. \A higher \in Nat : higher = highest \/ higher = no[1] + 1 => Radio(higher)'
    BY <1>1, <1>2, <1>4, <1>5, <2>1, RadioTail
  <2> QED
    BY <1>3, <1>5, <2>1, <2>2, DataHandled
<1>6. CASE /\ Len(data) > 1 /\ ~data[1].late /\ Near(data[1].sn, data[2].sn)
           /\ data' = [RemoveAt(data, 2) EXCEPT ![1].late = TRUE]
           /\ HandleDataPdu(data[2])
  <2>1. 2 \in 1..Len(data)
    BY <1>2, <1>6
  <2>2. \A higher \in Nat : higher = highest \/ higher = no[2] + 1 => Radio(higher)'
    BY <1>1, <1>2, <1>4, <1>6, <2>1, RadioOvertaken
  <2> QED
    BY <1>3, <1>6, <2>1, <2>2, DataHandled
<1> QED
  BY <1>5, <1>6 DEF Arrives

\* When t-Reassembly expires the report begins at the first gap that is not
\* complete, and the timer runs on if there is one.
LEMMA ReassemblyExpiresKeeps ==
  ASSUME NEW ack \in Nat, NEW next \in Nat, NEW missing \in Nat, NEW highest \in Nat,
         Numbered(ack, next, missing, highest), ReassemblyExpires
  PROVE  \E lacking \in Nat : Numbered(ack, next, lacking, highest)'
<1>1. /\ reassembly
      /\ UNCHANGED <<rx_window, prohibit, assembled, tx, data, status, lengths, submitted, acked>>
  BY DEF ReassemblyExpires
<1>2. /\ UNCHANGED <<lengths, sent, tx_window, sn_under_segmentation, tx_next, tx_next_ack, retx_queue>>
      /\ UNCHANGED <<poll_timer, poll_expired, max_retx, told, poll_sn, retx_sn, queue>>
  BY <1>1 DEF tx, txst, retx, poll
<1>3. /\ Grows /\ Begun' = Begun /\ Unsent' = Unsent /\ TxWindow(ack)' /\ RetxQueue(ack)'
      /\ \A k \in 0..(Begun - 1) : Sdu(k)' = Sdu(k) /\ Gone(k)' = Gone(k) /\ Size(k)' = Size(k)
  BY <1>2, Idle
<1>4. PICK g \in (next + 1)..highest : rx_next_status_trigger = Sn(g) /\ Sn(g - 1) \in DOMAIN rx_window
  BY <1>1 DEF Numbered, Trigger
<1>5. /\ next <= highest /\ highest <= next + Window /\ highest <= Begun /\ Begun \in Nat /\ next <= Unsent
      /\ rx_next = Sn(next) /\ rx_next_highest = Sn(highest) /\ next < g /\ g <= highest /\ g \in Nat
  <2>1. next <= highest /\ highest <= next + Window /\ highest <= Begun
    BY RxNumbers
  <2>2. Begun \in Nat /\ next <= Unsent
    BY Order
  <2>3. rx_next = Sn(next) /\ rx_next_highest = Sn(highest)
    BY DEF Numbered, RxWindow
  <2> QED
    BY <1>4, <2>1, <2>2, <2>3
<1>6. ValidTrigger
  <2>1. RxBase(Sn(g)) = g - next
    <3>1. g \in Int /\ next - Mod <= g /\ g < next + Mod /\ g >= next
      BY <1>5, Sizes
    <3> QED
      BY <1>5, <3>1, RxBaseIs
  <2>2. g - next \in 1..Window
    BY <1>5, Sizes
  <2> QED
    BY <1>4, <2>1, <2>2 DEF ValidTrigger
<1>7. PICK f \in g..highest :
        /\ FirstMissing(rx_window, Sn(g), Sn(highest)) = Sn(f)
        /\ f < highest => ~FullIn(rx_window, Sn(f))
  <2>1. g \in Nat /\ highest \in Nat /\ g <= highest /\ highest < g + Mod
    BY <1>5, Sizes
  <2> QED
    BY <2>1, FirstMissingFound
<1>8. /\ rx_highest_status' = Sn(f) /\ UNCHANGED <<rx_next, rx_next_highest>>
      /\ reassembly' = Incomplete(rx_window, rx_highest_status', rx_next_highest)
      /\ rx_next_status_trigger' = IF reassembly' THEN rx_next_highest ELSE rx_next_status_trigger
      /\ do_status' = TRUE
      /\ fresh' = TRUE /\ spare' = NoReport /\ UNCHANGED <<pulling, taken>>
  <2>1. /\ rx_highest_status' = FirstMissing(rx_window, rx_next_status_trigger, rx_next_highest)
        /\ UNCHANGED <<rx_next, rx_next_highest>>
        /\ reassembly' = Incomplete(rx_window, rx_highest_status', rx_next_highest)
        /\ rx_next_status_trigger' = IF reassembly' THEN rx_next_highest ELSE rx_next_status_trigger
        /\ do_status' = TRUE
        /\ fresh' = TRUE /\ spare' = NoReport /\ UNCHANGED <<pulling, taken>>
    BY <1>6 DEF ReassemblyExpires, Refresh
  <2> QED
    BY <1>4, <1>5, <1>7, <2>1
<1>9. f \in Nat /\ next < f /\ f <= highest
  BY <1>5, <1>7
<1>10. reassembly' \in BOOLEAN
  BY <1>8 DEF Incomplete
<1>11. SdusInOrder' /\ Scalars'
  <2>1. SdusInOrder'
    BY <1>1, <1>2 DEF Numbered, SdusInOrder, Rising
  <2>2. Scalars'
    BY <1>1, <1>2, <1>8, <1>10 DEF Numbered, Scalars
  <2> QED
    BY <2>1, <2>2
<1>12. \A k : Full(k)' = FullIn(rx_window, Sn(k)) /\ Full(k) = FullIn(rx_window, Sn(k))
  BY <1>1 DEF Full, FullIn, HasGap
<1>13. ASSUME NEW k \in next..(highest - 1), Sn(k) \in DOMAIN rx_window
       PROVE  RxSlot(k)'
  <2>1. k \in 0..(Begun - 1)
    BY <1>5
  <2>2. Sdu(k)' = Sdu(k) /\ Gone(k)' = Gone(k) /\ Size(k)' = Size(k)
    BY <1>3, <2>1
  <2>3. RxSlot(k)
    BY <1>13 DEF Numbered, RxWindow
  <2> QED
    BY <1>1, <2>2, <2>3 DEF RxSlot, Holds
<1>14. RxWindow(next, f, highest)'
  <2>1. rx_next_status_trigger' \in 0..(Mod - 1)
    BY <1>5, <1>8, SnType DEF Numbered, RxWindow
  <2>2. next <= f /\ f <= highest /\ next <= Unsent' /\ highest <= Begun'
    BY <1>3, <1>5, <1>9
  <2>3. rx_next' = Sn(next) /\ rx_highest_status' = Sn(f) /\ rx_next_highest' = Sn(highest)
    BY <1>5, <1>8
  <2>4. /\ DOMAIN rx_window' \subseteq {Sn(k) : k \in next..(highest - 1)}
        /\ next < highest => Sn(highest - 1) \in DOMAIN rx_window'
    BY <1>1 DEF Numbered, RxWindow
  <2>5. next < highest => ~Full(next)'
    BY <1>12 DEF Numbered, RxWindow
  <2>6. f < highest => ~Full(f)'
    BY <1>7, <1>12
  <2>7. \A k \in next..(highest - 1) : Sn(k) \in DOMAIN rx_window' => RxSlot(k)'
    BY <1>1, <1>13
  <2> QED
    BY <2>1, <2>2, <2>3, <2>4, <2>5, <2>6, <2>7 DEF RxWindow
<1>15. Trigger(next, highest)'
  <2>1. SUFFICES ASSUME reassembly'
                 PROVE  \E h \in (next + 1)..highest :
                          rx_next_status_trigger' = Sn(h) /\ Sn(h - 1) \in DOMAIN rx_window'
    BY DEF Trigger
  <2>2. rx_next_status_trigger' = Sn(highest) /\ highest \in (next + 1)..highest
    BY <1>5, <1>8, <2>1
  <2>3. Sn(highest - 1) \in DOMAIN rx_window'
    BY <1>1, <1>5 DEF Numbered, RxWindow
  <2> QED
    BY <2>2, <2>3
<1>16. GapIsWatched'
  <2>1. Sn(f) # Sn(next)
    <3>1. f \in Int /\ next \in Int /\ f - next <= Window /\ next - f <= Window /\ f # next
      BY <1>5, <1>9, Sizes
    <3> QED
      BY <3>1, WindowInjective
  <2>2. rx_highest_status' # rx_next'
    BY <1>5, <1>8, <2>1
  <2> QED
    BY <2>2 DEF GapIsWatched
<1>17. Reports(next, highest)' /\ History(ack, next, highest)'
  <2>1. Reports(next, highest)
    BY DEF Numbered
  <2>2. \A s : Truthful(s, next, highest) => Truthful(s, next, highest)'
    BY <1>3, TruthKept
  <2>3. Truthful(spare, next, highest)'
    <3>1. Truthful(NoReport, next, highest)'
      BY <2>2, NoReportIsTrue
    <3> QED
      BY <1>8, <3>1
  <2>4. Reports(next, highest)'
    BY <1>1, <1>8, <2>1, <2>2, <2>3 DEF Reports
  <2> QED
    BY <1>1, <1>3, <2>4, HistoryKept
<1>18. Radio(highest)'
  BY <1>1, <1>3, <1>5, RadioKept DEF Numbered
<1>19. ack <= next
  BY DEF Numbered
<1>20. Numbered(ack, next, f, highest)'
  BY <1>3, <1>11, <1>14, <1>15, <1>16, <1>17, <1>18, <1>19 DEF Numbered
<1> QED
  BY <1>9, <1>20

-----------------------------------------------------------------------------
(* The invariant holds *)

LEMMA InitNumbered ==
  ASSUME Init
  PROVE  Numbered(0, 0, 0, 0)
<1>1. /\ sent = << >> /\ queue = << >> /\ submitted = 0 /\ lengths \in Submits
      /\ sn_under_segmentation = NoSn /\ tx_next = 0 /\ tx_next_ack = 0 /\ poll_sn = 0 /\ retx_sn = NoSn
      /\ retx_queue = << >> /\ data = << >> /\ status = << >> /\ acked = {} /\ assembled = << >>
      /\ rx_next = 0 /\ rx_next_highest = 0 /\ rx_highest_status = 0 /\ rx_next_status_trigger = 0
      /\ max_retx = FALSE /\ told = FALSE /\ poll_timer = FALSE /\ poll_expired = FALSE
      /\ reassembly = FALSE /\ do_status = FALSE /\ prohibit = FALSE
      /\ pulling = FALSE /\ fresh = TRUE /\ taken = NoReport /\ spare = NoReport
  BY DEF Init
<1>2. DOMAIN tx_window = {} /\ DOMAIN rx_window = {}
  BY DEF Init
<1>3. Begun = 0 /\ ~Segmenting /\ Unsent = 0
  BY <1>1 DEF Begun, Segmenting, Unsent
<1>4. Sn(0) = 0 /\ 0 \in 0..(Mod - 1) /\ NoSn \in 0..Mod
  <2>1. 0 \in 0..(Mod - 1) /\ 0 = 0 * Mod + 0
    BY Sizes
  <2>2. Sn(0) = 0
    BY <2>1, SnIs
  <2> QED
    BY <2>1, <2>2, Sizes
<1>5. SdusInOrder
  <2>1. submitted \in 0..Len(lengths)
    BY <1>1, SizesAssumption
  <2>2. sent \in Seq(1..submitted) /\ queue \in Seq(1..submitted) /\ DOMAIN sent = {} /\ DOMAIN queue = {}
    BY <1>1
  <2>3. Rising(sent) /\ Rising(queue)
    BY <2>2 DEF Rising
  <2> QED
    BY <1>1, <2>1, <2>2, <2>3 DEF SdusInOrder
<1>6. Scalars
  BY <1>1, <1>4 DEF Scalars
<1>7. 0..(0 - 1) = {}
  OBVIOUS
<1>8. TxWindow(0)
  <2>1. {Sn(k) : k \in 0..(Begun - 1)} = {}
    BY <1>3, <1>7
  <2>2. 0 <= Unsent /\ Begun <= 0 + Window
    BY <1>3, Sizes
  <2> QED
    BY <1>1, <1>2, <1>3, <1>4, <1>7, <2>1, <2>2 DEF TxWindow
<1>9. RetxQueue(0)
  BY <1>1 DEF RetxQueue
<1>10. RxWindow(0, 0, 0)
  BY <1>1, <1>2, <1>3, <1>4, <1>7 DEF RxWindow
<1>11. Trigger(0, 0)
  BY <1>1 DEF Trigger
<1>12. GapIsWatched
  <2>1. RxBase(Sn(0)) = 0
    BY <1>1, <1>4, RxBaseIs, Sizes
  <2> QED
    BY <1>1, <1>4, <2>1 DEF GapIsWatched
<1>13. Radio(0)
  <2>1. DOMAIN data = {} /\ data \in Seq(Pdus)
    BY <1>1
  <2>2. PICK no : no = [i \in {} |-> 0]
    OBVIOUS
  <2>3. no \in [DOMAIN data -> 0..(Begun - 1)]
    BY <2>1, <2>2
  <2>4. OnAir(no, 0)
    BY <2>1 DEF OnAir
  <2> QED
    BY <2>3, <2>4 DEF Radio
<1>14. Reports(0, 0)
  <2>1. Truthful(NoReport, 0, 0)
    BY NoReportIsTrue
  <2> QED
    BY <1>1, <2>1 DEF Reports
<1>15. History(0, 0, 0)
  <2>1. {Sdu(k) : k \in 0..(0 - 1)} = {}
    BY <1>7
  <2>2. assembled \in Seq(SUBSET Nat) /\ DOMAIN assembled = {}
    BY <1>1
  <2>3. Deliveries(0, 0)
    BY <1>7, <2>2 DEF Deliveries
  <2> QED
    BY <1>1, <2>1, <2>3 DEF History
<1> QED
  BY <1>5, <1>6, <1>8, <1>9, <1>10, <1>11, <1>12, <1>13, <1>14, <1>15 DEF Numbered

LEMMA StepKeeps ==
  ASSUME IInv, [Next]_vars
  PROVE  IInv'
<1>1. PICK ack, next, missing, highest \in Nat : Numbered(ack, next, missing, highest)
  BY DEF IInv
<1>2. SUFFICES \E first, further, lacking, higher \in Nat : Numbered(first, further, lacking, higher)'
  BY DEF IInv
<1>3. CASE HandleSdu
  BY <1>1, <1>3, HandleSduKeeps
<1>4. CASE \E i \in DOMAIN queue : DiscardSdu(i)
  BY <1>1, <1>4, DiscardSduKeeps
<1>5. CASE Grant
  <2>1. PICK room \in UNION {1..n : n \in Range(lengths)} : PullPdu(room)
    BY <1>5 DEF Grant
  <2>2. lengths \in Seq(Nat \ {0})
    BY <1>1, SizesAssumption DEF Numbered, SdusInOrder
  <2>3. Range(lengths) \subseteq Nat
    <3>1. \A i \in DOMAIN lengths : lengths[i] \in Nat \ {0}
      BY <2>2, ElementOfSeq
    <3> QED
      BY <3>1 DEF Range
  <2>4. room \in Nat \ {0}
    BY <2>1, <2>3
  <2> QED
    BY <1>1, <2>1, <2>4, PullPduKeeps
<1>6. CASE Patient(PollExpires)
  BY <1>1, <1>6, PollExpiresKeeps DEF Patient
<1>7. CASE Patient(StatusArrives)
  <2>1. StatusArrives
    BY <1>7 DEF Patient
  <2>2. PICK first \in Nat : Numbered(first, next, missing, highest)'
    BY <1>1, <2>1, StatusArrivesKeeps
  <2> QED
    BY <1>1, <2>2
<1>8. CASE Arrives
  BY <1>1, <1>8, ArrivesKeeps
<1>9. CASE ReassemblyExpires
  BY <1>1, <1>9, ReassemblyExpiresKeeps
<1>10. CASE SendStatus
  BY <1>1, <1>10, SendStatusKeeps
<1>11. CASE ProhibitExpires
  BY <1>1, <1>11, ProhibitExpiresKeeps
<1>12. CASE Lost
  BY <1>1, <1>12, LostKeeps
<1>13. CASE UNCHANGED vars
  <2>1. /\ UNCHANGED <<lengths, sent, tx_window, sn_under_segmentation, tx_next, tx_next_ack, retx_queue>>
        /\ UNCHANGED <<rxst, rx_window, reassembly, assembled, acked, data, status>>
        /\ UNCHANGED <<poll_timer, poll_expired, max_retx, told, poll_sn, retx_sn, queue, submitted>>
        /\ UNCHANGED <<do_status, prohibit, pulling, taken, spare, fresh>>
    BY <1>13 DEF vars, tx, txst, retx, poll, rx, pulls
  <2>2. SdusInOrder' /\ Scalars'
    BY <1>1, <2>1 DEF Numbered, SdusInOrder, Rising, Scalars
  <2>3. /\ Grows /\ Begun' = Begun /\ Begun \in Nat
        /\ \A k \in 0..(Begun - 1) : Sdu(k)' = Sdu(k) /\ Gone(k)' = Gone(k) /\ Size(k)' = Size(k)
    BY <1>1, <2>1, Idle, Order
  <2>4. Radio(highest)'
    BY <1>1, <2>1, <2>3, RadioKept DEF Numbered
  <2>5. Reports(next, highest)'
    BY <1>1, <2>1, <2>3, ReportsKept
  <2>6. Numbered(ack, next, missing, highest)'
    BY <1>1, <2>1, <2>2, <2>4, <2>5, Quiet
  <2> QED
    BY <1>1, <2>6
<1>14. CASE TakeStatus
  BY <1>1, <1>14, TakeStatusKeeps
<1> QED
  BY <1>3, <1>4, <1>5, <1>6, <1>7, <1>8, <1>9, <1>10, <1>11, <1>12, <1>13, <1>14 DEF Next

\* Whatever is sent, lost, overtaken, acknowledged or sent again, the sequence
\* numbers stand for numbers that satisfy the invariant.
THEOREM NumbersBehindTheSns == Spec => []IInv
<1>1. ASSUME Init
      PROVE  IInv
  <2>1. Numbered(0, 0, 0, 0) /\ 0 \in Nat
    BY <1>1, InitNumbered
  <2> QED
    BY <2>1 DEF IInv
<1>2. IInv /\ [Next]_vars => IInv'
  BY StepKeeps
<1> QED
  BY <1>1, <1>2, PTL DEF Spec

-----------------------------------------------------------------------------
(* What the invariant gives *)

\* Every sequence number stands for a number from a given one on.
LEMMA SnReached ==
  ASSUME NEW a \in Int, tx_next_ack = Sn(a), NEW sn \in 0..(Mod - 1)
  PROVE  TxBase(sn) \in 0..(Mod - 1) /\ Sn(a + TxBase(sn)) = sn
<1>1. PICK e \in Int : a = e * Mod + Sn(a)
  BY SnRest
<1>2. Sn(a) \in 0..(Mod - 1) /\ Mod \in Nat \ {0} /\ sn - Sn(a) \in Int
  BY SnType, Sizes
<1>3. PICK q \in Int, d \in 0..(Mod - 1) : d = (sn - Sn(a)) % Mod /\ sn - Sn(a) = q * Mod + d
  BY <1>2, DivMod
<1>4. a + d = (e - q) * Mod + sn
  <2>1. (e - q) * Mod = e * Mod - q * Mod /\ e * Mod \in Int /\ q * Mod \in Int
    BY <1>2
  <2> QED
    BY <1>1, <1>2, <1>3, <2>1
<1>5. a + d \in Int /\ e - q \in Int
  BY <1>2
<1>6. Sn(a + d) = sn
  BY <1>4, <1>5, SnIs
<1>7. TxBase(sn) = d
  BY <1>3 DEF TxBase
<1> QED
  BY <1>6, <1>7

LEMMA TypesHold ==
  ASSUME IInv
  PROVE  TypeOK
<1>1. PICK ack, next, missing, highest \in Nat : Numbered(ack, next, missing, highest)
  BY DEF IInv
<1>2. SdusInOrder /\ Scalars /\ TxWindow(ack) /\ RetxQueue(ack) /\ RxWindow(next, missing, highest)
  BY <1>1 DEF Numbered
<1>3. Begun \in Nat /\ Unsent \in Nat /\ lengths \in Submits /\ submitted \in 0..Len(lengths)
  BY <1>1, <1>2, Order DEF SdusInOrder
<1>4. queue \in Seq(1..Len(lengths))
  <2>1. Len(lengths) \in Nat
    BY <1>3, SizesAssumption
  <2>2. 1..submitted \subseteq 1..Len(lengths)
    BY <1>3, <2>1
  <2> QED
    BY <1>2, <2>2 DEF SdusInOrder
<1>5. {tx_next, tx_next_ack, poll_sn} \subseteq 0..(Mod - 1)
  BY <1>2, <1>3, SnType DEF TxWindow, Scalars
<1>6. DOMAIN tx_window \subseteq 0..(Mod - 1)
  <2>1. \A k \in ack..(Begun - 1) : Sn(k) \in 0..(Mod - 1)
    BY SnType
  <2> QED
    BY <1>2, <2>1 DEF TxWindow
<1>7. \A i \in DOMAIN retx_queue : retx_queue[i] \in [sn : 0..(Mod - 1), so : Nat, length : Nat \ {0}]
  <2>1. \A i \in DOMAIN retx_queue : retx_queue[i] \in Resendables(ack)
    BY <1>2, ElementOfSeq DEF RetxQueue
  <2> QED
    BY <2>1 DEF Resendables
<1>8. {sn_under_segmentation, retx_sn} \subseteq 0..Mod
  <2>1. sn_under_segmentation \in 0..Mod
    <3>1. CASE Segmenting
      <4>1. sn_under_segmentation = Sn(Begun - 1) /\ Begun - 1 \in Int
        BY <1>2, <1>3, <3>1 DEF TxWindow
      <4>2. Sn(Begun - 1) \in 0..(Mod - 1)
        BY <4>1, SnType
      <4> QED
        BY <4>1, <4>2, Sizes
    <3>2. CASE ~Segmenting
      BY <3>2, Sizes DEF Segmenting
    <3> QED
      BY <3>1, <3>2
  <2> QED
    BY <1>2, <2>1 DEF Scalars
<1>9. {rx_next, rx_next_highest, rx_highest_status, rx_next_status_trigger} \subseteq 0..(Mod - 1)
  BY <1>2, SnType DEF RxWindow
<1>10. DOMAIN rx_window \subseteq 0..(Mod - 1)
  <2>1. \A k \in next..(highest - 1) : Sn(k) \in 0..(Mod - 1)
    BY SnType
  <2> QED
    BY <1>2, <2>1 DEF RxWindow
<1>11. /\ {poll_timer, poll_expired, max_retx, told} \subseteq BOOLEAN
       /\ {reassembly, do_status, prohibit, pulling, fresh} \subseteq BOOLEAN
  BY <1>2 DEF Scalars
<1> QED
  BY <1>3, <1>4, <1>5, <1>6, <1>7, <1>8, <1>9, <1>10, <1>11 DEF TypeOK

LEMMA ContiguousHolds ==
  ASSUME IInv
  PROVE  TxWindowIsContiguous
<1>1. PICK ack, next, missing, highest \in Nat : Numbered(ack, next, missing, highest)
  BY DEF IInv
<1>2. /\ TxWindow(ack) /\ tx_next_ack = Sn(ack) /\ tx_next = Sn(Unsent)
      /\ DOMAIN tx_window = {Sn(k) : k \in ack..(Begun - 1)}
  BY <1>1 DEF Numbered, TxWindow
<1>3. Begun \in Nat /\ Unsent \in Nat /\ Begun <= ack + Window /\ ack <= Unsent /\ Unsent <= Begun
  BY <1>1, Order DEF Numbered, TxWindow
<1>4. TxBase(tx_next) = Unsent - ack
  <2>1. Unsent \in ack..(ack + Mod - 1)
    BY <1>3, Sizes
  <2> QED
    BY <1>2, <2>1, TxBaseIs
<1>5. {sn \in 0..(Mod - 1) : TxBase(sn) < TxBase(tx_next)} = {Sn(k) : k \in ack..(Unsent - 1)}
  <2>1. ASSUME NEW sn \in 0..(Mod - 1), TxBase(sn) < TxBase(tx_next)
        PROVE  \E k \in ack..(Unsent - 1) : sn = Sn(k)
    <3>1. PICK d \in 0..(Mod - 1) : d = TxBase(sn) /\ Sn(ack + d) = sn
      BY <1>2, SnReached
    <3>2. d < Unsent - ack
      BY <1>4, <2>1, <3>1
    <3>3. ack + d \in ack..(Unsent - 1)
      BY <1>3, <3>2
    <3> QED
      BY <3>1, <3>3
  <2>2. ASSUME NEW k \in ack..(Unsent - 1)
        PROVE  Sn(k) \in 0..(Mod - 1) /\ TxBase(Sn(k)) < TxBase(tx_next)
    <3>1. k \in ack..(ack + Mod - 1)
      BY <1>3, Sizes
    <3>2. TxBase(Sn(k)) = k - ack
      BY <1>2, <3>1, TxBaseIs
    <3>3. Sn(k) \in 0..(Mod - 1)
      BY SnType
    <3> QED
      BY <1>3, <1>4, <3>2, <3>3
  <2> QED
    BY <2>1, <2>2
<1>6. CASE Segmenting
  <2>1. Unsent = Begun - 1 /\ sn_under_segmentation = Sn(Unsent) /\ sn_under_segmentation # NoSn
    BY <1>2, <1>6 DEF TxWindow, Unsent, Segmenting
  <2>2. ack..(Begun - 1) = (ack..(Unsent - 1)) \cup {Unsent}
    BY <1>3, <2>1
  <2>3. {Sn(k) : k \in ack..(Begun - 1)} = {Sn(k) : k \in ack..(Unsent - 1)} \cup {Sn(Unsent)}
    BY <2>2
  <2> QED
    BY <1>2, <1>5, <2>1, <2>3 DEF TxWindowIsContiguous
<1>7. CASE ~Segmenting
  <2>1. Unsent = Begun /\ {sn_under_segmentation} \ {NoSn} = {}
    BY <1>7 DEF Unsent, Segmenting
  <2> QED
    BY <1>2, <1>5, <2>1 DEF TxWindowIsContiguous
<1> QED
  BY <1>6, <1>7

LEMMA RetxHolds ==
  ASSUME IInv
  PROVE  RetxIsSent
<1>1. PICK ack, next, missing, highest \in Nat : Numbered(ack, next, missing, highest)
  BY DEF IInv
<1>2. TxWindow(ack) /\ RetxQueue(ack) /\ Begun \in Nat /\ Begun <= ack + Window
  BY <1>1, Order DEF Numbered
<1>3. SUFFICES ASSUME NEW r \in Resendables(ack)
               PROVE  /\ r.length > 0
                      /\ r.so + r.length <=
                           IF r.sn = sn_under_segmentation THEN tx_window[r.sn].next_so ELSE Length(r.sn)
  <2>1. \A i \in DOMAIN retx_queue : retx_queue[i] \in Resendables(ack)
    BY <1>2, ElementOfSeq DEF RetxQueue
  <2> QED
    BY <2>1 DEF RetxIsSent
<1>4. r \in [sn : 0..(Mod - 1), so : Nat, length : Nat \ {0}]
  BY DEF Resendables
<1>5. PICK k \in ack..(Begun - 1) : r.sn = Sn(k) /\ r.so + r.length <= Gone(k)
  BY DEF Resendables
<1>6. CASE r.sn = sn_under_segmentation
  <2>1. Segmenting /\ Sn(k) = Sn(Begun - 1)
    <3>1. Sn(k) # NoSn
      BY SnType
    <3>2. Segmenting
      BY <1>5, <1>6, <3>1 DEF Segmenting
    <3> QED
      BY <1>2, <1>5, <1>6, <3>2 DEF TxWindow
  <2>2. k = Begun - 1
    <3>1. k \in Int /\ Begun - 1 \in Int /\ k - (Begun - 1) <= Window /\ (Begun - 1) - k <= Window
      BY <1>2, Sizes
    <3> QED
      BY <2>1, <3>1, WindowInjective
  <2>3. Gone(k) = tx_window[r.sn].next_so
    BY <1>5, <2>1, <2>2 DEF Gone
  <2> QED
    BY <1>4, <1>5, <1>6, <2>3
<1>7. CASE r.sn # sn_under_segmentation
  <2>1. ~(Segmenting /\ k = Begun - 1)
    BY <1>2, <1>5, <1>7 DEF TxWindow
  <2>2. Gone(k) = Length(r.sn)
    BY <1>2, <1>5, <2>1 DEF Gone, Size, Length, TxWindow, TxSlot
  <2> QED
    BY <1>4, <1>5, <1>7, <2>2
<1> QED
  BY <1>6, <1>7

LEMMA TransferHolds ==
  ASSUME IInv
  PROVE  TransferIsReliable
<1>1. PICK ack, next, missing, highest \in Nat : Numbered(ack, next, missing, highest)
  BY DEF IInv
<1>2. /\ Begun \in Nat /\ Unsent \in Nat /\ ack <= next /\ next <= missing /\ missing <= highest
      /\ highest <= Begun /\ next <= Unsent /\ Unsent <= Begun /\ Begun <= ack + Window
  BY <1>1, Order
<1>3. /\ Deliveries(next, highest) /\ acked = {Sdu(k) : k \in 0..(ack - 1)}
      /\ tx_next_ack = Sn(ack) /\ tx_next = Sn(Unsent)
      /\ rx_next = Sn(next) /\ rx_highest_status = Sn(missing) /\ rx_next_highest = Sn(highest)
  BY <1>1 DEF Numbered, History, TxWindow, RxWindow
<1>4. DeliveredOnce
  <2>1. ASSUME NEW i \in DOMAIN assembled
        PROVE  Cardinality(assembled[i]) = 1
    <3>1. PICK k \in 0..(highest - 1) : assembled[i] = {Sdu(k)}
      BY <1>3 DEF Deliveries
    <3> QED
      BY <3>1, FS_Singleton
  <2>2. \A i, j \in DOMAIN assembled : assembled[i] = assembled[j] => i = j
    BY <1>3 DEF Deliveries
  <2> QED
    BY <2>1, <2>2 DEF DeliveredOnce
<1>5. AckedIsDelivered
  <2>1. ASSUME NEW k \in 0..(ack - 1)
        PROVE  {Sdu(k)} \in Range(assembled)
    <3>1. k \in 0..(highest - 1) /\ k < next
      BY <1>2
    <3>2. \E i \in DOMAIN assembled : assembled[i] = {Sdu(k)}
      BY <1>3, <3>1 DEF Deliveries, Complete
    <3> QED
      BY <3>2 DEF Range
  <2>2. ASSUME NEW k \in 0..(ack - 1)
        PROVE  Sdu(k) \in 1..Len(lengths)
    <3>1. k \in 0..(Begun - 1)
      BY <1>2
    <3> QED
      BY <1>1, <3>1, SduFacts DEF Numbered
  <2> QED
    BY <1>3, <2>1, <2>2 DEF AckedIsDelivered, Delivered
<1>6. WindowsOverlap
  <2>1. TxBase(rx_next) = next - ack /\ TxBase(tx_next) = Unsent - ack
    <3>1. next \in ack..(ack + Mod - 1) /\ Unsent \in ack..(ack + Mod - 1)
      BY <1>2, Sizes
    <3> QED
      BY <1>3, <3>1, TxBaseIs
  <2>2. RxBase(rx_highest_status) = missing - next
    <3>1. missing \in Int /\ next - Mod <= missing /\ missing < next + Mod /\ missing >= next
      BY <1>2, Sizes
    <3> QED
      BY <1>3, <3>1, RxBaseIs
  <2>3. RxBase(rx_next_highest) = highest - next
    <3>1. highest \in Int /\ next - Mod <= highest /\ highest < next + Mod /\ highest >= next
      BY <1>2, Sizes
    <3> QED
      BY <1>3, <3>1, RxBaseIs
  <2>4. /\ next - ack <= Unsent - ack /\ missing - next <= highest - next
        /\ highest - next <= Window
    BY <1>2, Sizes
  <2> QED
    BY <2>1, <2>2, <2>3, <2>4 DEF WindowsOverlap
<1> QED
  BY <1>4, <1>5, <1>6 DEF TransferIsReliable

LEMMA ReceiverHolds ==
  ASSUME IInv
  PROVE  ReceiverIsSound
<1>1. PICK ack, next, missing, highest \in Nat : Numbered(ack, next, missing, highest)
  BY DEF IInv
<1>2. next <= highest /\ highest <= next + Window /\ rx_next = Sn(next) /\ rx_next_highest = Sn(highest)
  BY <1>1, RxNumbers DEF Numbered, RxWindow
<1>3. ASSUME reassembly
      PROVE  /\ Plus(rx_next_status_trigger, Mod - 1) \in DOMAIN rx_window
             /\ (FirstMissing(rx_window, rx_next_status_trigger, rx_next_highest) - rx_next) % Mod \in 1..Window
  <2>1. PICK g \in (next + 1)..highest : rx_next_status_trigger = Sn(g) /\ Sn(g - 1) \in DOMAIN rx_window
    BY <1>1, <1>3 DEF Numbered, Trigger
  <2>2. Plus(rx_next_status_trigger, Mod - 1) \in DOMAIN rx_window
    BY <2>1, SnBefore
  <2>3. g \in Nat /\ next < g /\ g <= highest /\ highest < g + Mod
    BY <1>2, <2>1, Sizes
  <2>4. PICK f \in g..highest : FirstMissing(rx_window, Sn(g), Sn(highest)) = Sn(f)
    BY <2>3, FirstMissingFound
  <2>5. (Sn(f) - Sn(next)) % Mod = f - next
    <3>1. f \in Int /\ next \in Int /\ next <= f /\ f < next + Mod
      BY <1>2, <2>3, <2>4, Sizes
    <3> QED
      BY <3>1, Ahead
  <2>6. f - next \in 1..Window
    BY <1>2, <2>3, <2>4, Sizes
  <2> QED
    BY <1>2, <2>1, <2>2, <2>4, <2>5, <2>6
<1>4. GapIsWatched
  BY <1>1 DEF Numbered
<1> QED
  BY <1>3, <1>4 DEF ReceiverIsSound, TriggerWasReceived, ExpiryIsInWindow

\* The transmitting entity looks nothing up that it does not keep: its window
\* is contiguous, and only what was sent is queued to be sent again.
THEOREM TransmitterAlwaysSound == Spec => []TransmitterIsSound
<1>1. IInv => TransmitterIsSound
  BY TypesHold, ContiguousHolds, RetxHolds DEF TransmitterIsSound
<1> QED
  BY <1>1, NumbersBehindTheSns, PTL

\* Over a radio that loses, delays and overtakes, no SDU is assembled twice or
\* mixed with another, what is acknowledged was delivered or, put together
\* without a buffer for it, counted as lost, and the two windows stay within a
\* window of each other.
THEOREM TransferAlwaysReliable == Spec => []TransferIsReliable
<1>1. IInv => TransferIsReliable
  BY TransferHolds
<1> QED
  BY <1>1, NumbersBehindTheSns, PTL

\* The receiving entity finds the SDU before the trigger of t-Reassembly, its
\* expiry stays in the window as the code asserts, and no gap goes unwatched.
THEOREM ReceiverAlwaysSound == Spec => []ReceiverIsSound
<1>1. IInv => ReceiverIsSound
  BY ReceiverHolds
<1> QED
  BY <1>1, NumbersBehindTheSns, PTL
=============================================================================
