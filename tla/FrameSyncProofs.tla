-------------------------- MODULE FrameSyncProofs --------------------------
(***************************************************************************)
(* What holds of the frame synchroniser for every sync word, length,       *)
(* threshold and transmission, with TLAPS proofs: its counts stay in       *)
(* range, its soft values stay aligned with its dibits, the NAC hint is    *)
(* on for a NAC only while every NID of late had it; a sync is missed only *)
(* where the code accepts that it is, a unit whose NID was read is         *)
(* followed to its end, and a TSDU that is cut ends where it was cut.      *)
(***************************************************************************)
EXTENDS FrameSync, FiniteSetTheorems, TLAPS

-----------------------------------------------------------------------------
(* Lengths: what the CHOOSEs of the module pick.                           *)

\* A set of naturals that is not empty has a least element.
LEMMA LeastIn ==
  ASSUME NEW A \in SUBSET Nat, A # {}
  PROVE  \E n \in A : \A m \in A : n <= m
<1> DEFINE T == {0..n : n \in A}
<1>1. \A n \in Nat : 0..n \in FiniteSubsetsOf(Nat)
  <2> SUFFICES ASSUME NEW n \in Nat PROVE 0..n \in FiniteSubsetsOf(Nat)
    OBVIOUS
  <2>1. IsFiniteSet(0..n)
    BY FS_Interval
  <2> QED
    BY <2>1 DEF FiniteSubsetsOf
<1>2. T \subseteq FiniteSubsetsOf(Nat) /\ T # {}
  BY <1>1
<1>3. IsWellFoundedOn(StrictSubsetOrdering(Nat), FiniteSubsetsOf(Nat))
  BY FS_StrictSubsetOrderingWellFounded
<1>4. PICK x \in T : \A y \in T : <<y, x>> \notin StrictSubsetOrdering(Nat)
  <2> HIDE DEF T
  <2> QED
    BY <1>2, <1>3, WFMin
<1>5. PICK n \in A : x = 0..n
  BY <1>4
<1>6. ASSUME NEW m \in A PROVE n <= m
  <2>1. <<0..m, 0..n>> \notin StrictSubsetOrdering(Nat)
    BY <1>4, <1>5
  <2>2. CASE m < n
    <3>1. 0..m \subseteq 0..n /\ n \in 0..n /\ n \notin 0..m
      BY <2>2
    <3>2. <<0..m, 0..n>> \in StrictSubsetOrdering(Nat)
      BY <3>1, <1>1 DEF StrictSubsetOrdering, FiniteSubsetsOf
    <3> QED
      BY <2>1, <3>2
  <2> QED
    BY <2>2
<1> QED
  BY <1>6

\* And a greatest one, if it is bounded.
LEMMA GreatestIn ==
  ASSUME NEW A \in SUBSET Nat, A # {}, NEW M \in Nat, \A a \in A : a <= M
  PROVE  \E n \in A : \A m \in A : m <= n
<1> DEFINE B == {M - a : a \in A}
<1>1. B \in SUBSET Nat /\ B # {}
  <2>1. \A a \in A : M - a \in Nat
    OBVIOUS
  <2> QED
    BY <2>1
<1>2. PICK b \in B : \A c \in B : b <= c
  <2> HIDE DEF B
  <2> QED
    BY <1>1, LeastIn
<1>3. PICK n \in A : b = M - n
  BY <1>2
<1>4. ASSUME NEW m \in A PROVE m <= n
  <2>1. M - n <= M - m
    BY <1>2, <1>3
  <2> QED
    BY <2>1
<1> QED
  BY <1>4

\* There is a sync word.
LEMMA SyncLenNat == SyncLen \in Nat \ {0}
BY FrameSyncParams DEF SyncLen

\* A remainder is the number below the divisor that it is made of.
LEMMA ModUnique ==
  ASSUME NEW n \in Nat \ {0}, NEW q \in Int, NEW r \in 0..(n-1)
  PROVE  (q * n + r) % n = r
OBVIOUS

\* No two status symbols are next to each other.
LEMMA StatusApart ==
  ASSUME NEW p \in Nat, IsStatus(p)
  PROVE  ~IsStatus(p + 1)
<1> DEFINE a == SyncLen + NidSpan + p + 1
           q == a \div StatusPeriod
<1>1. a \in Nat /\ StatusPeriod \in Nat \ {0, 1} /\ NidSpan \in Nat
  BY SyncLenNat, FrameSyncParams
<1>2. a % StatusPeriod = 0
  BY DEF IsStatus
<1>3. q \in Int /\ a = q * StatusPeriod + 0
  <2> HIDE DEF a
  <2> QED
    BY <1>1, <1>2
<1> HIDE DEF q
<1>4. SyncLen + NidSpan + (p + 1) + 1 = q * StatusPeriod + 1
  BY <1>1, <1>3, SyncLenNat
<1>5. (q * StatusPeriod + 1) % StatusPeriod = 1
  BY <1>1, <1>3, ModUnique
<1> QED
  BY <1>4, <1>5 DEF IsStatus

\* A stretch of payload has as many data dibits as before, or one more.
LEMMA DataDibitsStep ==
  /\ DataDibits(0) = 0
  /\ \A n \in Nat : /\ DataDibits(n) \in Nat
                    /\ DataDibits(n + 1) <= DataDibits(n) + 1
<1> DEFINE D(n) == {p \in 0..(n - 1) : ~IsStatus(p)}
<1>1. \A n \in Nat : IsFiniteSet(D(n))
  <2> SUFFICES ASSUME NEW n \in Nat PROVE IsFiniteSet(D(n))
    OBVIOUS
  <2>1. IsFiniteSet(0..(n-1))
    BY FS_Interval
  <2>2. D(n) \in SUBSET (0..(n-1))
    OBVIOUS
  <2> HIDE DEF D
  <2> QED
    BY <2>1, <2>2, FS_Subset
<1>2. \A n \in Nat : D(n + 1) = D(n) \/ D(n + 1) = D(n) \cup {n}
  OBVIOUS
<1>3. D(0) = {}
  OBVIOUS
<1>4. \A n : DataDibits(n) = Cardinality(D(n))
  BY DEF DataDibits
<1>5. ASSUME NEW n \in Nat
      PROVE  DataDibits(n) \in Nat /\ DataDibits(n + 1) <= DataDibits(n) + 1
  <2>1. PICK X, Y : X = D(n) /\ Y = D(n + 1)
    OBVIOUS
  <2>2. IsFiniteSet(X) /\ (Y = X \/ Y = X \cup {n})
    BY <1>1, <1>2, <2>1
  <2>3. DataDibits(n) = Cardinality(X) /\ DataDibits(n + 1) = Cardinality(Y)
    BY <1>4, <2>1
  <2> HIDE DEF D
  <2>4. Cardinality(X) \in Nat
    BY <2>2, FS_CardinalityType
  <2>5. Cardinality(X \cup {n}) = IF n \in X THEN Cardinality(X) ELSE Cardinality(X) + 1
    BY <2>2, FS_AddElement
  <2> QED
    BY <2>2, <2>3, <2>4, <2>5
<1> QED
  BY <1>3, <1>4, <1>5, FS_EmptySet

\* At least every other dibit is one of data.
LEMMA DataDibitsHalf ==
  ASSUME NEW x \in Nat
  PROVE  DataDibits(x * 2) >= x
<1> DEFINE T == {p \in 0..(x * 2 - 1) : ~IsStatus(p)}
           f == [i \in 0..(x - 1) |-> IF IsStatus(i * 2) THEN i * 2 + 1 ELSE i * 2]
<1>1. \A i \in 0..(x - 1) : f[i] \in T /\ f[i] \in {i * 2, i * 2 + 1}
  <2> SUFFICES ASSUME NEW i \in 0..(x - 1)
               PROVE  f[i] \in T /\ f[i] \in {i * 2, i * 2 + 1}
    OBVIOUS
  <2>1. i * 2 \in 0..(x * 2 - 1) /\ i * 2 + 1 \in 0..(x * 2 - 1) /\ i * 2 \in Nat
    OBVIOUS
  <2>2. f[i] = IF IsStatus(i * 2) THEN i * 2 + 1 ELSE i * 2
    OBVIOUS
  <2>3. CASE IsStatus(i * 2)
    BY <2>1, <2>2, <2>3, StatusApart
  <2>4. CASE ~IsStatus(i * 2)
    BY <2>1, <2>2, <2>4
  <2> QED
    BY <2>3, <2>4
<1>2. f \in Injection(0..(x - 1), T)
  <2>1. \A i, j \in 0..(x - 1) : f[i] = f[j] => i = j
    BY <1>1
  <2>2. f \in [0..(x - 1) -> T]
    BY <1>1
  <2> QED
    BY <2>1, <2>2 DEF Injection, IsInjective
<1>3. IsFiniteSet(T)
  <2>1. IsFiniteSet(0..(x * 2 - 1))
    BY FS_Interval
  <2>2. T \in SUBSET (0..(x * 2 - 1))
    OBVIOUS
  <2> HIDE DEF T
  <2> QED
    BY <2>1, <2>2, FS_Subset
<1>4. Cardinality(0..(x - 1)) = x
  <2>1. PICK a \in Int, b \in Int : a = 0 /\ b = x - 1
    OBVIOUS
  <2>2. Cardinality(a..b) = IF a > b THEN 0 ELSE b-a+1
    BY FS_Interval
  <2> QED
    BY <2>1, <2>2
<1> HIDE DEF T, f
<1>5. x <= Cardinality(T)
  BY <1>2, <1>3, <1>4, FS_Injection
<1>6. Cardinality(T) \in Nat
  BY <1>3, FS_CardinalityType
<1> QED
  BY <1>5, <1>6 DEF DataDibits, T

\* The span of a number of blocks is where that many dibits of data are first complete.
LEMMA SpanType ==
  ASSUME NEW n \in 0..MaxBlocks
  PROVE  Span[n] \in 0..(n * BlockDibits * 2)
<1> DEFINE x == n * BlockDibits
           A == {m \in Nat : DataDibits(m) >= x}
<1>1. x \in Nat /\ x * 2 \in Nat
  BY FrameSyncParams
<1>2. Span[n] = CHOOSE m \in 0..(x * 2) : /\ DataDibits(m) = x
                                          /\ \A k \in 0..(m - 1) : DataDibits(k) < x
  BY DEF Span
<1> HIDE DEF x
<1>3. A \in SUBSET Nat /\ x * 2 \in A
  BY <1>1, DataDibitsHalf
<1>4. PICK m \in A : \A k \in A : m <= k
  <2> HIDE DEF A
  <2> QED
    BY <1>3, LeastIn
<1>5. m \in 0..(x * 2)
  BY <1>1, <1>3, <1>4
<1>6. \A k \in 0..(m - 1) : DataDibits(k) < x
  BY <1>1, <1>4, DataDibitsStep
<1>7. DataDibits(m) = x
  <2>1. CASE m = 0
    BY <1>1, <1>4, <2>1, DataDibitsStep
  <2>2. CASE m # 0
    <3>1. PICK k \in Nat : m = k + 1
      BY <1>4, <2>2
    <3>2. DataDibits(k) \in Nat /\ DataDibits(k + 1) <= DataDibits(k) + 1 /\ DataDibits(k + 1) \in Nat
      BY DataDibitsStep
    <3>3. DataDibits(k) < x
      BY <1>6, <3>1
    <3> QED
      BY <1>1, <1>4, <3>1, <3>2, <3>3
  <2> QED
    BY <2>1, <2>2
<1>8. Span[n] \in 0..(x * 2)
  BY <1>2, <1>5, <1>6, <1>7
<1> QED
  BY <1>8 DEF x

\* More blocks take more dibits.
LEMMA ProductUp ==
  ASSUME NEW a \in Nat, NEW b \in Nat, NEW c \in Nat, a <= b
  PROVE  a * c * 2 <= b * c * 2
<1>1. (b - a) * c >= 0 /\ a * c \in Nat /\ b * c \in Nat
  OBVIOUS
<1>2. (b - a) * c = b * c - a * c
  OBVIOUS
<1> QED
  BY <1>1, <1>2

\* No span is longer than that of MaxBlocks blocks of which half is status.
LEMMA SpanBound ==
  \A n \in 0..MaxBlocks : Span[n] \in Nat /\ Span[n] <= MaxBlocks * BlockDibits * 2
<1> SUFFICES ASSUME NEW n \in 0..MaxBlocks
             PROVE  Span[n] \in Nat /\ Span[n] <= MaxBlocks * BlockDibits * 2
  OBVIOUS
<1>1. Span[n] \in 0..(n * BlockDibits * 2)
  BY SpanType
<1>2. n * BlockDibits * 2 <= MaxBlocks * BlockDibits * 2
  BY ProductUp, FrameSyncParams
<1>3. n * BlockDibits \in Nat /\ MaxBlocks * BlockDibits \in Nat
  BY FrameSyncParams
<1> QED
  BY <1>1, <1>2, <1>3

\* MaxCap is the length of the longest payload.
LEMMA MaxCapType ==
  /\ MaxCap \in Nat
  /\ \A d \in Duids : PayloadLen[d] <= MaxCap
  /\ \A u \in Units : Body[u] \in Nat /\ Body[u] <= MaxCap
<1> DEFINE fixed == PayloadLen["ldu"] + PayloadLen["tdu"] + PayloadLen["tsdu"] + PayloadLen["pdu"]
           M == fixed + MaxBlocks * BlockDibits * 2
           caps == {PayloadLen[d] : d \in Duids} \cup {Body[u] : u \in Units}
<1>0. MaxBlocks * BlockDibits * 2 \in Nat
  BY FrameSyncParams
<1>1. \A d \in Duids : PayloadLen[d] \in Nat /\ PayloadLen[d] <= fixed
  BY FrameSyncParams DEF Duids
<1>2. fixed \in Nat
  BY FrameSyncParams DEF Duids
<1>3. ASSUME NEW u \in Units
      PROVE  Body[u] \in Nat /\ Body[u] <= M
  <2>1. u.duid \in Duids /\ u.blocks \in 0..MaxBlocks /\ u.blocks + 1 \in 0..MaxBlocks
    BY FrameSyncParams DEF Unit
  <2>2. Body[u] = CASE u.duid = "tsdu" -> Span[u.blocks]
                    [] u.duid = "pdu"  -> Span[u.blocks + 1]
                    [] OTHER           -> PayloadLen[u.duid]
    BY DEF Body
  <2>3. CASE u.duid \in {"ldu", "tdu"}
    BY <1>0, <1>1, <1>2, <2>1, <2>2, <2>3
  <2>4. CASE u.duid = "tsdu"
    BY <1>0, <1>2, <2>1, <2>2, <2>4, SpanBound
  <2>5. CASE u.duid = "pdu"
    BY <1>0, <1>2, <2>1, <2>2, <2>5, SpanBound
  <2> QED
    BY <2>1, <2>3, <2>4, <2>5 DEF Duids
<1>4. M \in Nat /\ \A c \in caps : c \in Nat /\ c <= M
  <2> HIDE DEF fixed
  <2> QED
    BY <1>0, <1>1, <1>2, <1>3
<1>5. PayloadLen["ldu"] \in caps
  BY DEF Duids
<1> HIDE DEF M
<1>6. PICK c \in caps : \A x \in caps : x <= c
  <2>1. caps \in SUBSET Nat /\ caps # {}
    BY <1>4, <1>5
  <2> HIDE DEF caps
  <2> QED
    BY <1>4, <2>1, GreatestIn
<1>7. MaxCap \in caps /\ \A x \in caps : x <= MaxCap
  <2>1. MaxCap = CHOOSE y \in caps : \A x \in caps : x <= y
    BY DEF MaxCap
  <2> HIDE DEF caps
  <2> QED
    BY <1>6, <2>1
<1> QED
  BY <1>3, <1>4, <1>7

-----------------------------------------------------------------------------
(* Types.                                                                  *)

AirOK ==
    /\ unit \in Units \cup {NoUnit}
    /\ sent \in 0..(SyncLen + NidSpan + MaxCap)
    /\ garbled \in 0..SyncLen /\ garbled <= sent
    /\ unit # NoUnit => sent > 0

\* The ring is full from the first sync on, and has missed nothing for gap dibits.
RingOK ==
    /\ ring \in Seq(Dibits) /\ Len(ring) <= SyncLen
    /\ gap \in 0..Len(ring)
    /\ state # "searching" => Len(ring) = SyncLen

\* A payload is shorter than its cap, and belongs to a NID.
BodyOK ==
    /\ state \in {"searching", "nid", "payload"}
    /\ nidRawIdx \in 0..NidSpan
    /\ nid \in NID \cup {NoNID}
    /\ len \in Nat /\ softLen \in Nat /\ cap \in Nat /\ blocksPeeked \in 0..MaxTSDUBlocks
    /\ state = "payload" => nid \in NID /\ softLen <= len /\ len < cap /\ cap <= MaxCap
    /\ state # "payload" => bodyVars = <<NoNID, 0, 0, 0, FALSE, 0>>
    /\ pduPeeked \in BOOLEAN /\ allSoft \in BOOLEAN /\ headerOK \in BOOLEAN

HintOK ==
    /\ syncCount \in 0..2
    /\ hintNAC \in NACs /\ hintSet \in BOOLEAN /\ hintCount \in 0..HintMin

FrameOK == frame \in Frame \cup {NoFrame}

TypeInv == AirOK /\ RingOK /\ BodyOK /\ HintOK /\ FrameOK

\* The invariant's parts say what the type invariant says, and more.
LEMMA TypeOf == TypeInv => FSTypeOK
<1> SUFFICES ASSUME TypeInv PROVE FSTypeOK
  OBVIOUS
<1>1. ring \in UNION {[1..n -> Dibits] : n \in 0..SyncLen}
  <2>1. ring \in [1..Len(ring) -> Dibits] /\ Len(ring) \in 0..SyncLen
    BY SyncLenNat DEF TypeInv, RingOK
  <2> QED
    BY <2>1
<1> QED
  BY <1>1 DEF TypeInv, AirOK, RingOK, BodyOK, HintOK, FrameOK, FSTypeOK

\* No more is sent of a unit than it has.
LEMMA AirType ==
  ASSUME AirOK, NEW v, Air(v)
  PROVE  AirOK'
<1> USE SyncLenNat, MaxCapType, FrameSyncParams DEF AirOK
<1>1. CASE KeyUp(v)
  BY <1>1, NoValues DEF KeyUp
<1>2. CASE SendOn(v)
  <2>1. unit \in Units /\ sent < Size(unit) /\ sent' = sent + 1 /\ unit' = unit
    BY <1>2 DEF SendOn
  <2>2. Body[unit] \in Nat /\ Body[unit] <= MaxCap /\ Size(unit) = SyncLen + NidSpan + Body[unit]
    BY <2>1 DEF Size
  <2>3. sent' \in 0..(SyncLen + NidSpan + MaxCap) /\ sent' > 0
    BY <2>1, <2>2
  <2>4. garbled' \in {garbled, garbled + 1} /\ (garbled' # garbled => sent < SyncLen)
    BY <1>2 DEF SendOn
  <2>5. garbled' \in 0..SyncLen /\ garbled' <= sent'
    BY <2>1, <2>4
  <2> QED
    BY <2>1, <2>3, <2>5
<1>3. CASE Noise(v)
  BY <1>3 DEF Noise
<1> QED
  BY <1>1, <1>2, <1>3 DEF Air

\* The dibit that is pushed is the last, and those before it are one further from the end.
LEMMA PushedType ==
  ASSUME RingOK, NEW v \in Dibits
  PROVE  /\ Pushed(v) \in Seq(Dibits)
         /\ Len(Pushed(v)) = IF Len(ring) < SyncLen THEN Len(ring) + 1 ELSE SyncLen
         /\ Pushed(v)[Len(Pushed(v))] = v
         /\ \A b \in 1..(Len(Pushed(v)) - 1) : Pushed(v)[Len(Pushed(v)) - b] = ring[Len(ring) - b + 1]
<1>1. ring \in Seq(Dibits) /\ Len(ring) \in Nat /\ Len(ring) <= SyncLen /\ SyncLen \in Nat \ {0}
  BY SyncLenNat DEF RingOK
<1>2. CASE Len(ring) < SyncLen
  <2>1. Pushed(v) = Append(ring, v)
    BY <1>2 DEF Pushed
  <2> QED
    BY <1>1, <1>2, <2>1
<1>3. CASE ~(Len(ring) < SyncLen)
  <2>1. Pushed(v) = Append(Tail(ring), v)
    BY <1>3 DEF Pushed
  <2>2. Len(ring) = SyncLen /\ ring # <<>>
    BY <1>1, <1>3
  <2>3. Tail(ring) \in Seq(Dibits) /\ Len(Tail(ring)) = SyncLen - 1
        /\ \A i \in 1..(SyncLen - 1) : Tail(ring)[i] = ring[i + 1]
    BY <1>1, <2>2
  <2> DEFINE t == Tail(ring)
  <2> HIDE DEF t
  <2>4. /\ t \in Seq(Dibits) /\ Len(t) = SyncLen - 1
        /\ \A i \in 1..(SyncLen - 1) : t[i] = ring[i + 1]
        /\ Pushed(v) = Append(t, v)
    BY <2>1, <2>3 DEF t
  <2>5. Len(Append(t, v)) = SyncLen /\ Append(t, v) \in Seq(Dibits) /\ Append(t, v)[SyncLen] = v
    BY <1>1, <2>4
  <2>6. \A b \in 1..(SyncLen - 1) : Append(t, v)[SyncLen - b] = ring[SyncLen - b + 1]
    BY <1>1, <2>4
  <2> QED
    BY <1>3, <2>2, <2>4, <2>5, <2>6
<1> QED
  BY <1>2, <1>3

\* A push keeps the ring's type, if it is full when a sync is taken from it.
LEMMA PushRing ==
  ASSUME RingOK, NEW v \in Dibits, Push(v), state # "searching" \/ state' = "searching" \/ Len(ring') = SyncLen
  PROVE  RingOK'
<1>1. ring' = Pushed(v) /\ gap' = IF gap < SyncLen THEN gap + 1 ELSE gap
  BY DEF Push
<1> QED
  BY <1>1, PushedType, SyncLenNat DEF RingOK

\* What is collected starts empty, with nothing held of the last frame.
LEMMA EmptyOK ==
  ASSUME BodyOK, EmptyBody, state' \in {"searching", "nid"}, nidRawIdx' \in 0..NidSpan
  PROVE  BodyOK'
<1>1. /\ nid' = NoNID /\ len' = 0 /\ softLen' = 0 /\ cap' = 0 /\ blocksPeeked' = 0
      /\ pduPeeked' = FALSE /\ allSoft' = TRUE /\ headerOK' = FALSE
  BY DEF EmptyBody
<1>2. bodyVars' = <<NoNID, 0, 0, 0, FALSE, 0>>
  BY <1>1 DEF bodyVars
<1>3. pduPeeked' \in BOOLEAN /\ allSoft' \in BOOLEAN /\ headerOK' \in BOOLEAN
  BY <1>1
<1>4. 0 \in 0..MaxTSDUBlocks
  BY FrameSyncParams
<1> HIDE DEF bodyVars
<1> QED
  BY <1>1, <1>2, <1>3, <1>4 DEF BodyOK

\* The frame that is cut at or before this dibit.
LEMMA FrameType ==
  ASSUME TypeInv, state = "payload", NEW haveSoft \in BOOLEAN, NEW header \in BOOLEAN,
         NEW end \in 0..(len + 1)
  PROVE  FrameOf(end, haveSoft, header) \in Frame
<1> USE DEF TypeInv, BodyOK
<1>1. nid \in NID /\ end \in 0..MaxCap
  BY MaxCapType
<1>2. (IF SoftAfter(haveSoft) >= end THEN end ELSE 0) \in 0..MaxCap
  BY <1>1, MaxCapType
<1>3. (syncCount = 1) \in BOOLEAN /\ (allSoft /\ haveSoft) \in BOOLEAN
  OBVIOUS
<1> QED
  BY <1>1, <1>2, <1>3 DEF FrameOf, Frame

\* The cap is raised to a packet's length at most.
LEMMA PeeksType ==
  ASSUME TypeInv, AirOK', state = "payload", NEW p \in Peeks
  PROVE  /\ p[1] \in Nat /\ cap <= p[1] /\ p[1] <= MaxCap
         /\ p[2] \in BOOLEAN
<1> USE DEF TypeInv, BodyOK
<1>0. \A a : \A b \in BOOLEAN : <<a, b>>[1] = a /\ <<a, b>>[2] \in BOOLEAN
  OBVIOUS
<1>1. CASE p = <<cap, headerOK>> \/ p = <<cap, FALSE>>
  <2>1. headerOK \in BOOLEAN /\ FALSE \in BOOLEAN
    OBVIOUS
  <2>2. p[1] = cap /\ p[2] \in BOOLEAN
    <3>1. CASE p = <<cap, headerOK>>
      BY <1>0, <2>1, <3>1, Zenon
    <3>2. CASE p = <<cap, FALSE>>
      BY <1>0, <2>1, <3>2, Zenon
    <3> QED
      BY <1>1, <3>1, <3>2
  <2> QED
    BY <2>2
<1>2. CASE InBody /\ p = <<IF Body[unit'] > cap THEN Body[unit'] ELSE cap, TRUE>>
  <2>1. unit' \in Units
    BY <1>2 DEF InBody, Nth, AirOK
  <2> QED
    BY <1>2, <2>1, MaxCapType
<1> QED
  BY <1>1, <1>2 DEF Peeks

\* Each end of a payload, and each dibit that is not its end, keeps the types.
LEMMA CollectType ==
  ASSUME TypeInv, AirOK', NEW v \in Dibits, NEW haveSoft \in BOOLEAN, CollectPayload(v, haveSoft)
  PROVE  TypeInv'
<1> USE DEF TypeInv
<1>1. state = "payload" /\ len \in Nat
  BY DEF CollectPayload, BodyOK
<1>2. ASSUME NEW header \in BOOLEAN, NEW end \in 0..(len + 1), Emit(end, haveSoft, header)
      PROVE  FrameOK' /\ EmptyBody
  BY <1>1, <1>2, FrameType DEF Emit, FrameOK
<1>3. ASSUME Push(v), EmptyBody, FrameOK', state' \in {"searching", "nid"}, nidRawIdx' \in {nidRawIdx, 0},
             UNCHANGED <<syncCount, hintVars>>
      PROVE  TypeInv'
  <2>1. RingOK'
    BY <1>1, <1>3, PushRing
  <2>2. BodyOK'
    <3>1. nidRawIdx' \in 0..NidSpan
      BY <1>3, FrameSyncParams DEF BodyOK
    <3> QED
      BY <1>3, <3>1, EmptyOK
  <2>3. HintOK'
    BY <1>3 DEF HintOK, hintVars
  <2> QED
    BY <1>3, <2>1, <2>2, <2>3
<1>4. PICK p \in Peeks :
         \/ LastBlock(v, haveSoft)
         \/ ResyncDue(v, p[1]) /\ Resync(v, haveSoft)
         \/ len + 1 < p[1] /\ PayloadGoesOn(v, haveSoft, p[1], p[2])
         \/ PayloadFull(v, haveSoft, p[2])
  BY Zenon DEF CollectPayload
<1>5. p[1] \in Nat /\ p[1] <= MaxCap /\ p[2] \in BOOLEAN
  BY <1>1, PeeksType
<1>6. len + 1 \in 0..(len + 1)
  BY <1>1
<1>7. CASE LastBlock(v, haveSoft)
  BY <1>2, <1>3, <1>6, <1>7 DEF LastBlock
<1>8. CASE PayloadFull(v, haveSoft, p[2])
  BY <1>2, <1>3, <1>5, <1>6, <1>8 DEF PayloadFull
<1>9. CASE ResyncDue(v, p[1]) /\ Resync(v, haveSoft)
  <2>1. Push(v) /\ state' = "nid" /\ nidRawIdx' = 0 /\ UNCHANGED <<syncCount, hintVars>>
    BY <1>9 DEF Resync, StartNID
  <2>2. CASE frame' = NoFrame /\ EmptyBody
    BY <1>3, <2>1, <2>2 DEF FrameOK
  <2>3. CASE Salvage(v, haveSoft)
    <3>1. len + 1 - SyncLen \in 0..(len + 1)
      BY <1>1, <1>9, SyncLenNat DEF ResyncDue
    <3>2. FrameOK' /\ EmptyBody
      BY <1>2, <2>3, <3>1 DEF Salvage
    <3> QED
      BY <1>3, <2>1, <3>2
  <2> QED
    BY <1>9, <2>2, <2>3 DEF Resync
<1>10. CASE len + 1 < p[1] /\ PayloadGoesOn(v, haveSoft, p[1], p[2])
  <2>1. /\ Push(v) /\ len' = len + 1 /\ softLen' = SoftAfter(haveSoft) /\ cap' = p[1]
        /\ pduPeeked' = (pduPeeked \/ PeekDue)
        /\ blocksPeeked' = IF BlockDue THEN blocksPeeked + 1 ELSE blocksPeeked
        /\ allSoft' = (allSoft /\ haveSoft) /\ headerOK' = p[2] /\ frame' = NoFrame
        /\ UNCHANGED <<state, nidRawIdx, nid, syncCount, hintVars>>
    BY <1>10 DEF PayloadGoesOn
  <2>2. RingOK' /\ HintOK' /\ FrameOK'
    BY <1>1, <2>1, PushRing DEF HintOK, hintVars, FrameOK
  <2>3. softLen' \in Nat /\ softLen' <= len'
    BY <1>1, <2>1 DEF SoftAfter, BodyOK
  <2>4. blocksPeeked' \in 0..MaxTSDUBlocks
    BY <2>1, FrameSyncParams DEF BlockDue, BodyOK
  <2>5. pduPeeked' \in BOOLEAN /\ allSoft' \in BOOLEAN /\ headerOK' \in BOOLEAN
    BY <1>5, <2>1 DEF BodyOK, PeekDue
  <2>6. BodyOK'
    BY <1>1, <1>5, <1>10, <2>1, <2>3, <2>4, <2>5 DEF BodyOK
  <2> QED
    BY <2>2, <2>6
<1> QED
  BY <1>4, <1>7, <1>8, <1>9, <1>10

\* And so does every other dibit that is fed.
LEMMA FeedType ==
  ASSUME TypeInv, AirOK', NEW v \in Dibits, NEW haveSoft \in BOOLEAN, FeedOne(v, haveSoft)
  PROVE  TypeInv'
<1> USE DEF TypeInv
<1>1. CASE Search(v, haveSoft)
  <2>1. /\ Push(v) /\ frame' = NoFrame
        /\ UNCHANGED <<bodyVars, bodyHist, syncCount, hintVars>>
        /\ \/ state' = "nid" /\ nidRawIdx' = 0 /\ Len(ring') = SyncLen
           \/ UNCHANGED <<state, nidRawIdx>>
        /\ state = "searching"
    BY <1>1 DEF Search, StartNID
  <2>2. RingOK'
    BY <2>1, PushRing
  <2>3. BodyOK' /\ HintOK' /\ FrameOK'
    BY <2>1, FrameSyncParams DEF BodyOK, HintOK, FrameOK, bodyVars, bodyHist, hintVars
  <2> QED
    BY <2>2, <2>3
<1>2. CASE CollectNID(v)
  <2>1. /\ (Push(v) \/ NoPush) /\ frame' = NoFrame
        /\ state = "nid" /\ nidRawIdx < NidSpan - 1 /\ nidRawIdx' = nidRawIdx + 1
        /\ UNCHANGED <<state, bodyVars, bodyHist, syncCount, hintVars>>
    BY <1>2 DEF CollectNID
  <2>2. RingOK'
    <3>1. CASE Push(v)
      BY <2>1, <3>1, PushRing
    <3>2. CASE NoPush
      BY <2>1, <3>2, SyncLenNat DEF NoPush, RingOK
    <3> QED
      BY <2>1, <3>1, <3>2
  <2>3. BodyOK'
    BY <2>1, FrameSyncParams DEF BodyOK, bodyVars, bodyHist
  <2>4. HintOK' /\ FrameOK'
    BY <1>2 DEF CollectNID, HintOK, FrameOK, hintVars
  <2> QED
    BY <2>2, <2>3, <2>4
<1>3. CASE NIDFails(v)
  <2>1. /\ Push(v) /\ state' = "searching" /\ nidRawIdx' = 0 /\ state = "nid"
        /\ syncCount' = 0 /\ hintCount' = 0 /\ frame' = NoFrame
        /\ UNCHANGED <<bodyVars, bodyHist, hintNAC, hintSet>>
    BY <1>3 DEF NIDFails
  <2>2. RingOK'
    BY <2>1, PushRing
  <2>3. BodyOK' /\ HintOK' /\ FrameOK'
    BY <2>1, FrameSyncParams DEF BodyOK, HintOK, FrameOK, bodyVars, bodyHist
  <2> QED
    BY <2>2, <2>3
<1>4. CASE NIDDecodes(v)
  <2>1. PICK n \in NID : nid' = n /\ LearnNAC(n.nac) /\ cap' = PayloadLen[n.duid]
    BY <1>4 DEF NIDDecodes
  <2>2. /\ Push(v) /\ state = "nid" /\ state' = "payload" /\ nidRawIdx' = 0
        /\ syncCount' = (IF syncCount < 2 THEN syncCount + 1 ELSE 2)
        /\ len' = 0 /\ softLen' = 0 /\ pduPeeked' = FALSE /\ blocksPeeked' = 0
        /\ allSoft' = TRUE /\ headerOK' = FALSE /\ frame' = NoFrame
    BY <1>4 DEF NIDDecodes
  <2>3. RingOK'
    BY <2>2, PushRing
  <2>4. n.nac \in NACs /\ n.duid \in Duids
    BY DEF NID
  <2>5. cap' \in Nat \ {0} /\ cap' <= MaxCap
    BY <2>1, <2>4, MaxCapType, FrameSyncParams
  <2>8. pduPeeked' \in BOOLEAN /\ allSoft' \in BOOLEAN /\ headerOK' \in BOOLEAN
    BY <2>2
  <2>6. BodyOK'
    <3>1. nid' \in NID /\ 0 \in 0..NidSpan /\ 0 \in 0..MaxTSDUBlocks
      BY <2>1, FrameSyncParams
    <3>2. len' = 0 /\ softLen' = 0 /\ blocksPeeked' = 0 /\ nidRawIdx' = 0 /\ state' = "payload"
      BY <2>2
    <3> QED
      BY <2>5, <2>8, <3>1, <3>2 DEF BodyOK
  <2>7. HintOK'
    BY <2>1, <2>2, <2>4, FrameSyncParams DEF HintOK, LearnNAC
  <2> QED
    BY <2>2, <2>3, <2>6, <2>7 DEF FrameOK
<1>5. CASE ColdReject(v)
  <2>1. /\ NoPush /\ state' = "searching" /\ syncCount' = 0 /\ EmptyBody /\ frame' = NoFrame
        /\ UNCHANGED <<nidRawIdx, hintVars>>
    BY <1>5 DEF ColdReject
  <2>2. RingOK' /\ HintOK' /\ FrameOK'
    BY <2>1 DEF NoPush, RingOK, HintOK, FrameOK, hintVars
  <2>3. BodyOK'
    BY <2>1, EmptyOK DEF BodyOK
  <2> QED
    BY <2>2, <2>3
<1>6. CASE CollectPayload(v, haveSoft)
  BY <1>6, CollectType
<1> QED
  BY <1>1, <1>2, <1>3, <1>4, <1>5, <1>6 DEF FeedOne

LEMMA TypeInit == FSInit => TypeInv
<1> SUFFICES ASSUME FSInit PROVE TypeInv
  OBVIOUS
<1> USE SyncLenNat, MaxCapType, FrameSyncParams DEF FSInit
<1>1. AirOK
  BY DEF AirOK
<1>2. RingOK
  BY DEF RingOK
<1>3. BodyOK
  <2>1. bodyVars = <<NoNID, 0, 0, 0, FALSE, 0>>
    BY DEF bodyVars
  <2>2. pduPeeked \in BOOLEAN /\ allSoft \in BOOLEAN /\ headerOK \in BOOLEAN
    OBVIOUS
  <2> QED
    BY <2>1, <2>2 DEF BodyOK
<1>4. HintOK /\ FrameOK
  <2>1. hintSet \in BOOLEAN
    OBVIOUS
  <2> QED
    BY <2>1 DEF HintOK, FrameOK
<1> QED
  BY <1>1, <1>2, <1>3, <1>4 DEF TypeInv

LEMMA TypeStep == TypeInv /\ [FSNext]_vars => TypeInv'
<1> SUFFICES ASSUME TypeInv, [FSNext]_vars PROVE TypeInv'
  OBVIOUS
<1> USE DEF TypeInv
<1>1. ASSUME NEW v \in Dibits, NEW haveSoft \in BOOLEAN, Air(v), FeedOne(v, haveSoft)
      PROVE  TypeInv'
  BY <1>1, AirType, FeedType
<1>2. CASE Reset \/ ResetFull \/ SoftReset
  <2>1. /\ EmptyBody /\ frame' = NoFrame /\ state' = "searching" /\ nidRawIdx' = 0 /\ syncCount' = 0
        /\ UNCHANGED airVars
        /\ UNCHANGED hintVars \/ (hintNAC' = 0 /\ hintSet' = FALSE /\ hintCount' = 0)
        /\ UNCHANGED <<ring, gap>> \/ (ring' = <<>> /\ gap' = 0)
    BY <1>2 DEF Reset, ResetFull, SoftReset
  <2>2. AirOK' /\ FrameOK'
    BY <2>1 DEF AirOK, FrameOK, airVars
  <2>3. RingOK'
    <3>1. CASE UNCHANGED <<ring, gap>>
      BY <2>1, <3>1 DEF RingOK
    <3>2. CASE ring' = <<>> /\ gap' = 0
      BY <2>1, <3>2, SyncLenNat DEF RingOK
    <3> QED
      BY <2>1, <3>1, <3>2
  <2>5. HintOK'
    <3>1. CASE UNCHANGED hintVars
      BY <2>1, <3>1 DEF HintOK, hintVars
    <3>2. CASE hintNAC' = 0 /\ hintSet' = FALSE /\ hintCount' = 0
      <4>1. hintSet' \in BOOLEAN
        BY <3>2
      <4>2. 0 \in NACs /\ 0 \in 0..HintMin /\ hintNAC' = 0 /\ hintCount' = 0 /\ syncCount' = 0
        BY <2>1, <3>2, FrameSyncParams
      <4> QED
        BY <4>1, <4>2 DEF HintOK
    <3> QED
      BY <2>1, <3>1, <3>2
  <2>4. BodyOK'
    BY <2>1, EmptyOK, FrameSyncParams
  <2> QED
    BY <2>2, <2>3, <2>4, <2>5
<1>3. CASE UNCHANGED vars
  BY <1>3 DEF vars, airVars, bodyVars, hintVars, bodyHist, AirOK, RingOK, BodyOK, HintOK, FrameOK
<1> QED
  BY <1>1, <1>2, <1>3 DEF FSNext, Feed

\* The counts of the synchroniser stay in range: a payload never reaches its cap and goes
\* on, and no cap, no packet header and no list of blocks makes a frame longer than the
\* longest payload (sync.go:52-80, 226-283, 400-520).
THEOREM FSTypeInv == FSSpec => []FSTypeOK
BY TypeInit, TypeStep, TypeOf, PTL DEF FSSpec

-----------------------------------------------------------------------------
(* What the ring has heard, and where a unit stands in its payload.        *)

\* While a sync is sent and nothing is missed, the end of the ring differs from what has
\* been sent of the sync word where noise has hit it.
Differ(n) == {i \in 1..n : ring[Len(ring) - (n - i)] # SyncWord[i]}
SyncHeard ==
    unit # NoUnit /\ sent <= SyncLen /\ sent <= gap => Cardinality(Differ(sent)) <= garbled

\* In a unit's payload nothing has been heard but that payload.
BodyHeard ==
    OnUnit => \A b \in 0..(SyncLen - 1) : b < len => ring[SyncLen - b] = Blank

\* The last key-up within the payload is where the dibits of its unit begin.
CutInv == state = "payload" /\ unit # NoUnit /\ sent <= len => cutAt = len - sent

\* The cap is never below the fixed length, nor below the packet whose header was read.
CapInv ==
    state = "payload" => /\ PayloadLen[nid.duid] <= cap
                         /\ headerOK => pduPeeked
                         /\ headerOK /\ OnUnit => Body[unit] <= cap

HeardInv == TypeInv /\ SyncHeard /\ BodyHeard /\ CutInv /\ CapInv

\* A peek is not due, or reads the header of the unit on air, or reads nothing.
LEMMA PeeksIs ==
  ASSUME TypeInv, AirOK', state = "payload", NEW p \in Peeks
  PROVE  \/ ~PeekDue /\ p[1] = cap /\ (p[2] <=> headerOK)
         \/ PeekDue /\ p[2] /\ InBody /\ Body[unit'] <= p[1] /\ cap <= p[1]
         \/ PeekDue /\ ~p[2] /\ p[1] = cap /\ ~Rejects
<1> USE DEF TypeInv, BodyOK
<1>1. CASE ~PeekDue
  <2>1. p = <<cap, headerOK>>
    BY <1>1 DEF Peeks
  <2>2. p[1] = cap /\ (p[2] <=> headerOK)
    BY <2>1
  <2> QED
    BY <1>1, <2>2
<1>2. CASE PeekDue /\ InBody /\ p = <<IF Body[unit'] > cap THEN Body[unit'] ELSE cap, TRUE>>
  <2>1. unit' \in Units
    BY <1>2 DEF InBody, Nth, AirOK
  <2>2. p[1] = (IF Body[unit'] > cap THEN Body[unit'] ELSE cap) /\ p[2]
    BY <1>2
  <2>3. Body[unit'] <= p[1] /\ cap <= p[1]
    BY <2>1, <2>2, MaxCapType
  <2> QED
    BY <1>2, <2>2, <2>3
<1>3. CASE PeekDue /\ ~Rejects /\ p = <<cap, FALSE>>
  <2>1. p[1] = cap /\ ~p[2]
    BY <1>3
  <2> QED
    BY <1>3, <2>1
<1> QED
  BY <1>1, <1>2, <1>3 DEF Peeks

\* Every dibit goes into the ring, or the count of those heard in a row starts again.
LEMMA FedRing ==
  ASSUME NEW v, NEW haveSoft, FeedOne(v, haveSoft)
  PROVE  Push(v) \/ NoPush
BY Zenon DEF FeedOne, Search, CollectNID, NIDFails, NIDDecodes, ColdReject, CollectPayload,
             LastBlock, Resync, PayloadFull, PayloadGoesOn

\* A dibit of a sync that is sent is heard, as is or garbled, or the ring misses it.
LEMMA SyncHeardStep ==
  ASSUME TypeInv, AirOK', RingOK', SyncHeard, NEW v \in Dibits, Air(v), Push(v) \/ NoPush
  PROVE  SyncHeard'
<1> USE DEF TypeInv
<1> SUFFICES ASSUME unit' # NoUnit, sent' <= SyncLen, sent' <= gap'
             PROVE  Cardinality(Differ(sent)') <= garbled'
  BY DEF SyncHeard
<1>1. sent' > 0 /\ sent' \in Nat /\ gap' <= Len(ring') /\ gap' \in Nat /\ SyncLen \in Nat
  BY SyncLenNat, MaxCapType, FrameSyncParams DEF AirOK, RingOK
<1>2. ring' = Pushed(v) /\ gap' <= gap + 1 /\ gap \in Nat
  BY <1>1 DEF Push, NoPush, RingOK
<1>3. /\ ring'[Len(ring')] = v /\ Len(ring') \in Nat
      /\ \A b \in 1..(Len(ring') - 1) : ring'[Len(ring') - b] = ring[Len(ring) - b + 1]
  <2>1. Len(ring') \in Nat
    BY DEF RingOK
  <2>2. /\ Pushed(v)[Len(Pushed(v))] = v
        /\ \A b \in 1..(Len(Pushed(v)) - 1) : Pushed(v)[Len(Pushed(v)) - b] = ring[Len(ring) - b + 1]
    BY PushedType
  <2> QED
    BY <1>2, <2>1, <2>2, Zenon
<1>4. Differ(sent)' = {i \in 1..sent' : ring'[Len(ring') - (sent' - i)] # SyncWord[i]}
  BY DEF Differ
<1>5. CASE KeyUp(v)
  <2>1. sent' = 1 /\ garbled' = IF v = SyncWord[1] THEN 0 ELSE 1
    BY <1>5 DEF KeyUp
  <2>2. Differ(sent)' = IF v = SyncWord[1] THEN {} ELSE {1}
    <3>1. \A i \in 1..1 : i = 1 /\ Len(ring') - (1 - i) = Len(ring')
      BY <1>3
    <3>2. Differ(sent)' = {i \in 1..1 : v # SyncWord[1]}
      BY <1>3, <1>4, <2>1, <3>1
    <3> QED
      BY <3>2
  <2> QED
    BY <2>1, <2>2, FS_EmptySet, FS_Singleton
<1>6. CASE SendOn(v)
  <2>1. unit # NoUnit /\ sent' = sent + 1 /\ sent \in Nat /\ sent < SyncLen /\ sent <= gap
    BY <1>1, <1>2, <1>6, MaxCapType, FrameSyncParams DEF SendOn, AirOK
  <2>2. garbled' = IF v = SyncWord[sent + 1] THEN garbled ELSE garbled + 1
    BY <1>6, <2>1 DEF SendOn
  <2>3. Cardinality(Differ(sent)) <= garbled /\ garbled \in Nat
    <3>1. garbled \in Nat /\ sent <= SyncLen
      BY <1>1, <2>1, SyncLenNat DEF AirOK
    <3> QED
      BY <2>1, <3>1 DEF SyncHeard
  <2>4. ASSUME NEW i \in 1..sent
        PROVE  ring'[Len(ring') - (sent' - i)] = ring[Len(ring) - (sent - i)]
    <3>1. sent' - i \in 1..(Len(ring') - 1) /\ Len(ring) \in Nat
      BY <1>1, <1>3, <2>1 DEF RingOK
    <3>2. ring'[Len(ring') - (sent' - i)] = ring[Len(ring) - (sent' - i) + 1]
      BY <1>3, <3>1
    <3>3. Len(ring) - (sent' - i) + 1 = Len(ring) - (sent - i)
      BY <2>1, <3>1
    <3> QED
      BY <3>2, <3>3
  <2>5. ring'[Len(ring') - (sent' - (sent + 1))] = v
    BY <1>3, <2>1
  <2>6. Differ(sent)' = IF v = SyncWord[sent + 1] THEN Differ(sent) ELSE Differ(sent) \cup {sent + 1}
    <3>1. 1..sent' = (1..sent) \cup {sent + 1}
      BY <2>1
    <3> QED
      BY <1>4, <2>4, <2>5, <3>1 DEF Differ
  <2>7. IsFiniteSet(Differ(sent))
    <3>1. IsFiniteSet(1..sent)
      BY <2>1, FS_Interval
    <3>2. Differ(sent) \in SUBSET (1..sent)
      BY DEF Differ
    <3> QED
      BY <3>1, <3>2, FS_Subset
  <2>8. /\ Cardinality(Differ(sent)) \in Nat
        /\ Cardinality(Differ(sent) \cup {sent + 1}) <= Cardinality(Differ(sent)) + 1
    <3>1. PICK D : D = Differ(sent)
      OBVIOUS
    <3>2. Cardinality(D) \in Nat
      BY <2>7, <3>1, FS_CardinalityType
    <3>3. Cardinality(D \cup {sent + 1}) = IF sent + 1 \in D THEN Cardinality(D) ELSE Cardinality(D) + 1
      BY <2>7, <3>1, FS_AddElement
    <3> HIDE DEF Differ
    <3>4. Cardinality(D \cup {sent + 1}) <= Cardinality(D) + 1
      BY <3>2, <3>3
    <3> QED
      BY <3>1, <3>2, <3>4
  <2>9. Cardinality(Differ(sent)') <= garbled'
    <3>1. PICK D, E : D = Differ(sent) /\ E = Differ(sent)'
      OBVIOUS
    <3>2. /\ E = D \/ (E = D \cup {sent + 1} /\ v # SyncWord[sent + 1])
          /\ Cardinality(D) \in Nat /\ Cardinality(D) <= garbled
          /\ Cardinality(D \cup {sent + 1}) <= Cardinality(D) + 1
      BY <2>3, <2>6, <2>8, <3>1
    <3>3. CASE E = D
      BY <2>2, <2>3, <3>1, <3>2, <3>3
    <3>4. CASE E = D \cup {sent + 1} /\ v # SyncWord[sent + 1]
      <4>1. garbled' = garbled + 1
        BY <2>2, <3>4
      <4>2. Cardinality(D \cup {sent + 1}) \in Nat
        <5>1. IsFiniteSet(D)
          BY <2>7, <3>1
        <5> QED
          BY <5>1, FS_AddElement, FS_CardinalityType
      <4>3. Cardinality(E) <= garbled'
        BY <2>3, <3>2, <3>4, <4>1, <4>2
      <4> QED
        BY <3>1, <4>3
    <3> QED
      BY <3>2, <3>3, <3>4
  <2> QED
    BY <2>9
<1>7. CASE Noise(v)
  BY <1>7 DEF Noise
<1> QED
  BY <1>5, <1>6, <1>7 DEF Air

\* After a dibit the synchroniser is in a payload because its NID is complete, or because
\* the payload goes on.
LEMMA InPayload ==
  ASSUME TypeInv, AirOK', NEW v \in Dibits, NEW haveSoft \in BOOLEAN, FeedOne(v, haveSoft),
         state' = "payload"
  PROVE  \/ NIDDecodes(v)
         \/ \E p \in Peeks : /\ state = "payload" /\ len + 1 < p[1] /\ ~ResyncDue(v, p[1])
                             /\ PayloadGoesOn(v, haveSoft, p[1], p[2])
<1>1. CASE CollectPayload(v, haveSoft)
  <2>1. PICK p \in Peeks :
           \/ LastBlock(v, haveSoft)
           \/ Resync(v, haveSoft)
           \/ len + 1 < p[1] /\ ~ResyncDue(v, p[1]) /\ PayloadGoesOn(v, haveSoft, p[1], p[2])
           \/ PayloadFull(v, haveSoft, p[2])
    BY <1>1, Zenon DEF CollectPayload
  <2>2. ~LastBlock(v, haveSoft) /\ ~Resync(v, haveSoft) /\ ~PayloadFull(v, haveSoft, p[2])
    BY DEF LastBlock, Resync, PayloadFull, StartNID
  <2>3. state = "payload"
    BY <1>1 DEF CollectPayload
  <2> QED
    BY <2>1, <2>2, <2>3
<1>2. ~Search(v, haveSoft) /\ ~CollectNID(v) /\ ~NIDFails(v) /\ ~ColdReject(v)
  BY DEF Search, StartNID, CollectNID, NIDFails, ColdReject
<1> QED
  BY <1>1, <1>2 DEF FeedOne

\* A unit whose payload is collected has been sent on, its payload's dibits are blank.
LEMMA SentOn ==
  ASSUME TypeInv, NEW v, Air(v), unit' # NoUnit, sent' > SyncLen
  PROVE  unit \in Units /\ unit' = unit /\ sent' = sent + 1 /\ v = Blank /\ SyncLen <= sent
<1>1. ~KeyUp(v) /\ ~Noise(v)
  BY SyncLenNat DEF KeyUp, Noise
<1>2. SendOn(v)
  BY <1>1 DEF Air
<1>3. sent \in Nat /\ SyncLen \in Nat
  BY SyncLenNat, MaxCapType, FrameSyncParams DEF TypeInv, AirOK
<1> QED
  BY <1>2, <1>3 DEF SendOn, TypeInv, AirOK

\* A payload that goes on keeps what is known of it.
LEMMA GoesOnHeard ==
  ASSUME HeardInv, TypeInv', NEW v \in Dibits, NEW haveSoft \in BOOLEAN, Air(v),
         NEW p \in Peeks, state = "payload", len + 1 < p[1],
         PayloadGoesOn(v, haveSoft, p[1], p[2])
  PROVE  BodyHeard' /\ CutInv' /\ CapInv'
<1> USE DEF HeardInv
<1>1. /\ ring' = Pushed(v) /\ len' = len + 1 /\ cap' = p[1] /\ pduPeeked' = (pduPeeked \/ PeekDue)
      /\ headerOK' = p[2] /\ cutAt' = (IF sent' = 1 THEN len ELSE cutAt)
      /\ state' = "payload" /\ nid' = nid
  BY DEF PayloadGoesOn, Push
<1>2. /\ len \in Nat /\ cap \in Nat /\ nid \in NID /\ sent \in Nat /\ sent' \in Nat
      /\ SyncLen \in Nat \ {0} /\ NidSpan \in Nat \ {0} /\ p[1] \in Nat
  BY SyncLenNat, MaxCapType, FrameSyncParams, PeeksType DEF TypeInv, BodyOK, AirOK
<1>3. OnUnit' => OnUnit /\ unit \in Units /\ unit' = unit /\ v = Blank
  <2> SUFFICES ASSUME OnUnit' PROVE OnUnit /\ unit \in Units /\ unit' = unit /\ v = Blank
    OBVIOUS
  <2>1. unit' # NoUnit /\ sent' = SyncLen + NidSpan + len + 1 /\ nid.duid = unit'.duid
    BY <1>1, <1>2 DEF OnUnit
  <2>2. unit \in Units /\ unit' = unit /\ sent' = sent + 1 /\ v = Blank
    BY <1>2, <2>1, SentOn
  <2> QED
    BY <1>2, <2>1, <2>2, NoValues DEF OnUnit
<1>4. BodyHeard'
  <2> SUFFICES ASSUME OnUnit', NEW b \in 0..(SyncLen - 1), b < len + 1
               PROVE  ring'[SyncLen - b] = Blank
    BY <1>1 DEF BodyHeard
  <2>1. Len(ring) = SyncLen /\ RingOK
    BY DEF TypeInv, RingOK
  <2>2. /\ Len(Pushed(v)) = SyncLen /\ Pushed(v)[SyncLen] = v
        /\ \A c \in 1..(SyncLen - 1) : Pushed(v)[SyncLen - c] = ring[SyncLen - c + 1]
    <3>1. Len(Pushed(v)) = SyncLen
      BY <1>2, <2>1, PushedType
    <3>2. /\ Pushed(v)[Len(Pushed(v))] = v
          /\ \A c \in 1..(Len(Pushed(v)) - 1) : Pushed(v)[Len(Pushed(v)) - c] = ring[Len(ring) - c + 1]
      BY <2>1, PushedType
    <3> QED
      BY <2>1, <3>1, <3>2
  <2>3. CASE b = 0
    BY <1>1, <1>2, <1>3, <2>2, <2>3
  <2>4. CASE b # 0
    <3>1. b \in 1..(SyncLen - 1) /\ b - 1 \in 0..(SyncLen - 1) /\ b - 1 < len
          /\ SyncLen - b + 1 = SyncLen - (b - 1)
      BY <1>2, <2>4
    <3>2. ring[SyncLen - (b - 1)] = Blank
      BY <1>3, <3>1 DEF BodyHeard
    <3> QED
      BY <1>1, <2>2, <3>1, <3>2
  <2> QED
    BY <2>3, <2>4
<1>5. CutInv'
  <2>0. len' = len + 1
    BY <1>1
  <2> SUFFICES ASSUME unit' # NoUnit, sent' <= len'
               PROVE  cutAt' = len' - sent'
    BY DEF CutInv
  <2>1. CASE KeyUp(v)
    BY <1>1, <1>2, <2>0, <2>1 DEF KeyUp
  <2>2. CASE SendOn(v)
    <3>1. unit # NoUnit /\ sent' = sent + 1 /\ sent > 0
      BY <2>2 DEF SendOn, TypeInv, AirOK
    <3>2. cutAt' = cutAt /\ sent <= len
      BY <1>1, <1>2, <2>0, <3>1
    <3>3. cutAt = len - sent
      BY <3>1, <3>2 DEF CutInv
    <3> QED
      BY <1>2, <2>0, <3>1, <3>2, <3>3
  <2> QED
    BY <2>1, <2>2 DEF Air, Noise
<1>6. CapInv'
  <2>1. PayloadLen[nid.duid] <= cap /\ (headerOK => pduPeeked) /\ PayloadLen[nid.duid] \in Nat
    BY <1>2, FrameSyncParams DEF CapInv, NID
  <2>2. \/ ~PeekDue /\ p[1] = cap /\ (p[2] <=> headerOK)
        \/ PeekDue /\ p[2] /\ InBody /\ Body[unit'] <= p[1] /\ cap <= p[1]
        \/ PeekDue /\ ~p[2] /\ p[1] = cap /\ ~Rejects
    BY PeeksIs DEF TypeInv
  <2>3. PayloadLen[nid.duid] <= p[1]
    BY <1>2, <2>1, <2>2
  <2>4. headerOK' => pduPeeked'
    BY <1>1, <2>1, <2>2
  <2>5. headerOK' /\ OnUnit' => Body[unit'] <= p[1]
    <3> SUFFICES ASSUME p[2], OnUnit' PROVE Body[unit'] <= p[1]
      BY <1>1
    <3>1. OnUnit /\ unit' = unit
      BY <1>3
    <3>2. ~PeekDue => headerOK /\ p[1] = cap
      BY <2>2
    <3>3. headerOK => Body[unit] <= cap
      BY <3>1 DEF CapInv, OnUnit
    <3> QED
      BY <2>2, <3>1, <3>2, <3>3
  <2> QED
    BY <1>1, <2>3, <2>4, <2>5 DEF CapInv
<1> QED
  BY <1>4, <1>5, <1>6

LEMMA HeardStep == HeardInv /\ [FSNext]_vars => HeardInv'
<1> SUFFICES ASSUME HeardInv, [FSNext]_vars PROVE HeardInv'
  OBVIOUS
<1> USE DEF HeardInv
<1>0. TypeInv'
  BY TypeStep
<1>1. ASSUME state' # "payload" PROVE BodyHeard' /\ CutInv' /\ CapInv'
  BY <1>1 DEF BodyHeard, OnUnit, CutInv, CapInv
<1>2. ASSUME NEW v \in Dibits, NEW haveSoft \in BOOLEAN, Air(v), FeedOne(v, haveSoft)
      PROVE  HeardInv'
  <2>1. SyncHeard'
    <3>1. Push(v) \/ NoPush
      BY <1>2, FedRing
    <3> QED
      BY <1>0, <1>2, <3>1, SyncHeardStep DEF TypeInv
  <2>2. CASE state' # "payload"
    BY <1>0, <1>1, <2>1, <2>2
  <2>3. CASE NIDDecodes(v)
    <3>1. PICK n \in NID : nid' = n /\ cap' = PayloadLen[n.duid]
      BY <2>3 DEF NIDDecodes
    <3>2. len' = 0 /\ ~headerOK'
      BY <2>3 DEF NIDDecodes
    <3>3. PayloadLen[n.duid] \in Nat
      BY FrameSyncParams DEF NID
    <3>4. CapInv'
      BY <3>1, <3>2, <3>3 DEF CapInv
    <3>5. BodyHeard'
      BY <3>2 DEF BodyHeard
    <3>6. CutInv'
      <4>1. unit' # NoUnit => sent' > 0 /\ sent' \in Nat
        BY <1>0, SyncLenNat, MaxCapType, FrameSyncParams DEF TypeInv, AirOK
      <4> QED
        BY <3>2, <4>1 DEF CutInv
    <3> QED
      BY <1>0, <2>1, <3>4, <3>5, <3>6
  <2>4. CASE \E p \in Peeks : /\ state = "payload" /\ len + 1 < p[1] /\ ~ResyncDue(v, p[1])
                              /\ PayloadGoesOn(v, haveSoft, p[1], p[2])
    <3>1. BodyHeard' /\ CutInv' /\ CapInv'
      BY <1>0, <1>2, <2>4, GoesOnHeard
    <3> QED
      BY <1>0, <2>1, <3>1
  <2> QED
    BY <1>0, <1>2, <2>2, <2>3, <2>4, InPayload DEF TypeInv
<1>3. CASE Reset \/ ResetFull \/ SoftReset
  <2>1. /\ state' = "searching" /\ UNCHANGED airVars
        /\ UNCHANGED <<ring, gap>> \/ gap' = 0
    BY <1>3 DEF Reset, ResetFull, SoftReset
  <2>2. SyncHeard'
    <3>1. CASE UNCHANGED <<ring, gap>>
      BY <2>1, <3>1 DEF SyncHeard, Differ, airVars
    <3>2. CASE gap' = 0
      <4>1. unit # NoUnit => sent > 0 /\ sent \in Nat
        BY SyncLenNat, MaxCapType, FrameSyncParams DEF TypeInv, AirOK
      <4> QED
        BY <2>1, <3>2, <4>1 DEF SyncHeard, airVars
    <3> QED
      BY <2>1, <3>1, <3>2
  <2> QED
    BY <1>0, <1>1, <2>1, <2>2
<1>4. CASE UNCHANGED vars
  BY <1>0, <1>4 DEF vars, airVars, bodyVars, bodyHist, SyncHeard, Differ, BodyHeard, OnUnit, CutInv, CapInv
<1> QED
  BY <1>2, <1>3, <1>4 DEF FSNext, Feed

LEMMA HeardInit == FSInit => HeardInv
BY TypeInit DEF FSInit, HeardInv, SyncHeard, BodyHeard, OnUnit, CutInv, CapInv

LEMMA Heard == FSSpec => []HeardInv
BY HeardInit, HeardStep, PTL DEF FSSpec

-----------------------------------------------------------------------------
(* What becomes of a sync, and of a payload.                               *)

\* The correlation with the sync word is a count.
LEMMA CorrelateType ==
  ASSUME NEW r
  PROVE  Correlate(r) \in Nat
<1>1. IsFiniteSet(1..SyncLen)
  BY SyncLenNat, FS_Interval
<1>2. PICK C \in SUBSET (1..SyncLen) : C = {i \in 1..SyncLen : r[i] # SyncWord[i]}
  OBVIOUS
<1>3. Cardinality(C) \in Nat
  BY <1>1, FS_Subset, FS_CardinalityType
<1> QED
  BY <1>2, <1>3 DEF Correlate

\* A unit's dibits reach the synchroniser one at a time, and only that way.
LEMMA SentByFeed ==
  ASSUME TypeInv, FSNext, SendsOn
  PROVE  \E v \in Dibits, haveSoft \in BOOLEAN :
            SendOn(v) /\ Air(v) /\ FeedOne(v, haveSoft)
<1>1. sent \in Nat /\ sent > 0
  BY SyncLenNat, MaxCapType, FrameSyncParams, NoValues DEF TypeInv, AirOK, SendsOn
<1>2. ~Reset /\ ~ResetFull /\ ~SoftReset
  BY <1>1 DEF Reset, ResetFull, SoftReset, SendsOn, airVars
<1>3. PICK v \in Dibits, haveSoft \in BOOLEAN : Air(v) /\ FeedOne(v, haveSoft)
  BY <1>2 DEF FSNext, Feed
<1>4. ~KeyUp(v) /\ ~Noise(v)
  BY <1>1 DEF KeyUp, Noise, SendsOn
<1> QED
  BY <1>3, <1>4 DEF Air

\* Where a sync that ends is not missed.
LEMMA BlindSpotsStep ==
  ASSUME HeardInv, FSNext, SyncEnds
  PROVE  \/ state' = "nid"
         \/ state = "nid"
         \/ frame' # NoFrame
         \/ gap' < SyncLen
         \/ state = "payload" /\ len + 1 < SyncLen
<1> SUFFICES ASSUME ~(gap' < SyncLen), state # "nid"
             PROVE  \/ state' = "nid" \/ frame' # NoFrame
                    \/ state = "payload" /\ len + 1 < SyncLen
  OBVIOUS
<1> USE DEF HeardInv
<1>1. PICK v \in Dibits, haveSoft \in BOOLEAN : SendOn(v) /\ Air(v) /\ FeedOne(v, haveSoft)
  BY SentByFeed DEF SyncEnds
<1>2. HeardInv'
  BY HeardStep
<1>3. /\ unit' # NoUnit /\ sent' = SyncLen /\ garbled' <= SyncThresh /\ garbled' \in Nat
      /\ SyncLen \in Nat \ {0} /\ SyncThresh \in Nat
      /\ gap' \in Nat /\ Len(ring') = SyncLen /\ gap' = SyncLen
  BY <1>2, SyncLenNat, FrameSyncParams DEF SyncEnds, SendsOn, TypeInv, AirOK, RingOK
<1>4. Correlate(ring') <= SyncThresh
  <2>1. Cardinality(Differ(sent)') <= garbled'
    BY <1>2, <1>3 DEF SyncHeard
  <2>2. Differ(sent)' = {i \in 1..SyncLen : ring'[i] # SyncWord[i]}
    <3>1. \A i \in 1..SyncLen : Len(ring') - (sent' - i) = i
      BY <1>3
    <3>2. Differ(sent)' = {i \in 1..SyncLen : ring'[Len(ring') - (sent' - i)] # SyncWord[i]}
      BY <1>3 DEF Differ
    <3> QED
      BY <3>1, <3>2
  <2>3. Correlate(ring') = Cardinality(Differ(sent)')
    BY <2>2 DEF Correlate
  <2> QED
    BY <1>3, <2>1, <2>3, CorrelateType
<1>5. Push(v)
  BY <1>1, <1>3, FedRing DEF NoPush
<1>6. CASE Search(v, haveSoft)
  <2>1. Correlate(ring') <= IF syncCount = 0 THEN SyncThreshCold ELSE SyncThresh
    BY <1>4, CorrelateType, FrameSyncParams
  <2> QED
    BY <1>3, <1>6, <2>1 DEF Search, StartNID
<1>7. CASE CollectPayload(v, haveSoft)
  <2>1. state = "payload" /\ len \in Nat
    BY <1>7 DEF CollectPayload, TypeInv, BodyOK
  <2>2. PICK p \in Peeks :
           \/ LastBlock(v, haveSoft)
           \/ Resync(v, haveSoft)
           \/ len + 1 < p[1] /\ ~ResyncDue(v, p[1])
           \/ PayloadFull(v, haveSoft, p[2])
    BY <1>7, Zenon DEF CollectPayload
  <2>3. ASSUME NEW header \in BOOLEAN, Emit(len + 1, haveSoft, header) PROVE frame' # NoFrame
    <3>1. FrameOf(len + 1, haveSoft, header) \in Frame
      BY <2>1, FrameType
    <3> QED
      BY <2>3, <3>1, NoValues DEF Emit
  <2>4. p[2] \in BOOLEAN
    BY <1>2, <2>1, PeeksType DEF TypeInv
  <2>5. CASE LastBlock(v, haveSoft) \/ PayloadFull(v, haveSoft, p[2])
    BY <2>3, <2>4, <2>5 DEF LastBlock, PayloadFull
  <2>6. CASE Resync(v, haveSoft)
    BY <2>6 DEF Resync, StartNID
  <2>7. CASE len + 1 < p[1] /\ ~ResyncDue(v, p[1])
    <3>1. Correlate(Pushed(v)) <= SyncThresh
      BY <1>4, <1>5 DEF Push
    <3> QED
      BY <1>3, <2>1, <2>7, <3>1 DEF ResyncDue
  <2> QED
    BY <2>2, <2>5, <2>6, <2>7
<1>8. ~CollectNID(v) /\ ~NIDFails(v) /\ ~NIDDecodes(v)
  BY DEF CollectNID, NIDFails, NIDDecodes
<1>9. ~ColdReject(v)
  BY <1>3 DEF ColdReject, NoPush
<1> QED
  BY <1>1, <1>6, <1>7, <1>8, <1>9 DEF FeedOne

\* The sync of a unit that ends with few errors is found - by the search, or inside a
\* payload, which it then ends - except in the blind spots the code accepts: a NID is being
\* read, this dibit completes a frame, a payload has just begun, or the ring was emptied or
\* missed a dibit since the sync began (sync.go:434-520).
THEOREM BlindSpotsProp == FSSpec => BlindSpots
<1>1. HeardInv /\ [FSNext]_vars
      => [SyncEnds => \/ state' = "nid"
                      \/ state = "nid"
                      \/ frame' # NoFrame
                      \/ gap' < SyncLen
                      \/ state = "payload" /\ len + 1 < SyncLen]_vars
  BY BlindSpotsStep
<1> QED
  BY <1>1, Heard, PTL DEF FSSpec, BlindSpots

\* A TSDU that is kept when its transmission was cut ends with the last dibit before the
\* one of the next unit (sync.go:494-510).
THEOREM SalvageEndsAtCutProp == FSSpec => SalvageEndsAtCut
<1>1. ASSUME HeardInv, FSNext, SyncEnds, state' = "nid", frame' # NoFrame
      PROVE  frame'.len = cutAt
  <2> USE DEF HeardInv
  <2>1. PICK v \in Dibits, haveSoft \in BOOLEAN : SendOn(v) /\ Air(v) /\ FeedOne(v, haveSoft)
    BY <1>1, SentByFeed DEF SyncEnds
  <2>2. CollectPayload(v, haveSoft)
    BY <1>1, <2>1 DEF FeedOne, Search, CollectNID, NIDFails, NIDDecodes, ColdReject
  <2>3. PICK p \in Peeks :
           \/ LastBlock(v, haveSoft)
           \/ ResyncDue(v, p[1]) /\ Resync(v, haveSoft)
           \/ PayloadGoesOn(v, haveSoft, p[1], p[2])
           \/ PayloadFull(v, haveSoft, p[2])
    BY <2>2, Zenon DEF CollectPayload
  <2>4. ResyncDue(v, p[1]) /\ Resync(v, haveSoft)
    BY <1>1, <2>3 DEF LastBlock, PayloadGoesOn, PayloadFull
  <2>5. frame'.len = len + 1 - SyncLen
    <3>1. Salvage(v, haveSoft)
      BY <1>1, <2>4 DEF Resync
    <3> QED
      BY <3>1 DEF Salvage, Emit, FrameOf
  <2>6. /\ state = "payload" /\ unit # NoUnit /\ sent + 1 = SyncLen /\ len + 1 >= SyncLen
        /\ len \in Nat /\ sent \in Nat /\ SyncLen \in Nat
    BY <1>1, <2>2, <2>4, SyncLenNat, MaxCapType, FrameSyncParams
       DEF SyncEnds, SendsOn, ResyncDue, CollectPayload, TypeInv, BodyOK, AirOK
  <2>7. cutAt = len - sent
    BY <1>1, <2>6 DEF CutInv
  <2> QED
    BY <2>5, <2>6, <2>7
<1>2. HeardInv /\ [FSNext]_vars
      => [SyncEnds /\ state' = "nid" /\ frame' # NoFrame => frame'.len = cutAt]_vars
  BY <1>1
<1> QED
  BY <1>2, Heard, PTL DEF FSSpec, SalvageEndsAtCut

\* No sync is seen in a unit's own payload.
LEMMA NoFalseSync ==
  ASSUME HeardInv, OnUnit, len + 1 >= SyncLen
  PROVE  ~(Correlate(Pushed(Blank)) <= SyncThresh)
<1>1. RingOK /\ Len(ring) = SyncLen /\ SyncLen \in Nat \ {0} /\ len \in Nat /\ Blank \in Dibits
  BY SyncLenNat DEF HeardInv, TypeInv, RingOK, BodyOK, OnUnit, Dibits
<1>2. PICK r : r = Pushed(Blank)
  OBVIOUS
<1>3. Len(r) = SyncLen
  BY <1>1, <1>2, PushedType
<1>4. /\ r[SyncLen] = Blank
      /\ \A b \in 1..(SyncLen - 1) : r[SyncLen - b] = ring[SyncLen - b + 1]
  <2>1. /\ r[Len(r)] = Blank
        /\ \A b \in 1..(Len(r) - 1) : r[Len(r) - b] = ring[Len(ring) - b + 1]
    BY <1>1, <1>2, PushedType
  <2> QED
    BY <1>1, <1>3, <2>1
<1>5. ASSUME NEW i \in 1..SyncLen PROVE r[i] # SyncWord[i]
  <2>1. r[i] = Blank
    <3>1. CASE i = SyncLen
      BY <1>4, <3>1
    <3>2. CASE i # SyncLen
      <4>1. PICK b \in 1..(SyncLen - 1) : b = SyncLen - i
        BY <1>1, <3>2
      <4>2. i = SyncLen - b /\ b - 1 \in 0..(SyncLen - 1) /\ b - 1 < len
            /\ SyncLen - b + 1 = SyncLen - (b - 1)
        BY <1>1, <4>1
      <4>3. ring[SyncLen - (b - 1)] = Blank
        BY <4>2 DEF HeardInv, BodyHeard
      <4> QED
        BY <1>4, <4>2, <4>3
    <3> QED
      BY <3>1, <3>2
  <2>2. SyncWord[i] # Blank
    BY FrameSyncParams
  <2> QED
    BY <2>1, <2>2
<1>6. Correlate(r) = SyncLen
  <2>1. {i \in 1..SyncLen : r[i] # SyncWord[i]} = 1..SyncLen
    BY <1>5
  <2>2. Cardinality(1..SyncLen) = SyncLen
    <3>1. Cardinality(1..SyncLen) = IF 1 > SyncLen THEN 0 ELSE SyncLen - 1 + 1
      BY <1>1, FS_Interval
    <3> QED
      BY <1>1, <3>1
  <2> QED
    BY <2>1, <2>2 DEF Correlate
<1> QED
  BY <1>1, <1>2, <1>6, FrameSyncParams

\* A unit's payload is no longer than the cap it is collected to, unless it is a packet
\* whose header was not read.
LEMMA CapReached ==
  ASSUME HeardInv, AirOK', OnUnit, unit' = unit, NEW p \in Peeks
  PROVE  Body[unit] <= p[1] \/ (unit.duid = "pdu" /\ ~headerOK)
<1> USE DEF HeardInv
<1>1. /\ state = "payload" /\ unit \in Units /\ nid.duid = unit.duid /\ unit.duid \in Duids
      /\ cap \in Nat /\ Body[unit] \in Nat
  BY MaxCapType, FrameSyncParams DEF OnUnit, TypeInv, AirOK, BodyOK, Unit
<1>2. PayloadLen[nid.duid] \in Nat /\ PayloadLen[nid.duid] <= cap
  BY <1>1, FrameSyncParams DEF CapInv
<1>3. /\ p[1] \in Nat
      /\ \/ ~PeekDue /\ p[1] = cap
         \/ PeekDue /\ Body[unit'] <= p[1] /\ cap <= p[1]
         \/ PeekDue /\ p[1] = cap
  BY <1>1, PeeksIs, PeeksType
<1>4. CASE unit.duid \in {"ldu", "tdu"}
  <2>1. Body[unit] = PayloadLen[nid.duid]
    BY <1>1, <1>4 DEF Body
  <2> QED
    BY <1>1, <1>2, <1>3, <2>1
<1>5. CASE unit.duid = "tsdu"
  <2>1. Body[unit] <= PayloadLen[nid.duid]
    BY <1>1, <1>5, FrameSyncParams
  <2> QED
    BY <1>1, <1>2, <1>3, <2>1
<1>6. CASE unit.duid = "pdu"
  <2> SUFFICES ASSUME headerOK PROVE Body[unit] <= p[1]
    BY <1>6
  <2>1. Body[unit] <= cap
    BY <1>1 DEF CapInv
  <2> QED
    BY <1>1, <1>3, <2>1
<1> QED
  BY <1>1, <1>4, <1>5, <1>6 DEF Duids

\* A unit's payload that is being collected as it is sent goes on to its last dibit, and
\* then it is a frame, whole: no dibit of it is taken for a sync, no peek ends it early and
\* no cap runs past it (sync.go:226-283, 400-520); a packet whose header is not read is
\* excepted, and its cap is the fixed one.
THEOREM FollowsProp == FSSpec => Follows
<1>1. ASSUME HeardInv, FSNext, OnUnit, SendsOn
      PROVE  \/ frame' = NoFrame /\ OnUnit'
             \/ frame' # NoFrame /\ sent' = Size(unit) /\ frame'.len = Body[unit]
             \/ unit.duid = "pdu" /\ ~(headerOK \/ headerOK')
  <2> USE DEF HeardInv
  <2>1. PICK v \in Dibits, haveSoft \in BOOLEAN : SendOn(v) /\ Air(v) /\ FeedOne(v, haveSoft)
    BY <1>1, SentByFeed
  <2>2. /\ unit \in Units /\ state = "payload" /\ sent = SyncLen + NidSpan + len
        /\ nid.duid = unit.duid /\ unit' = unit /\ sent' = sent + 1 /\ unit # NoUnit
        /\ len \in Nat /\ SyncLen \in Nat \ {0} /\ NidSpan \in Nat \ {0}
    BY <1>1, SyncLenNat, FrameSyncParams DEF OnUnit, SendsOn, TypeInv, AirOK, BodyOK
  <2>3. v = Blank /\ Body[unit] \in Nat /\ len + 1 <= Body[unit]
        /\ (len + 1 = Body[unit] => sent' = Size(unit))
    BY <2>1, <2>2, MaxCapType DEF SendOn, Size
  <2>4. HeardInv'
    BY <1>1, HeardStep
  <2>5. InBody
    BY <2>2 DEF InBody, Nth
  <2>6. PeekDue => unit.duid = "pdu" /\ ~headerOK
    BY <1>1, <2>2 DEF PeekDue, CapInv
  <2>7. CASE ColdReject(v)
    BY <2>6, <2>7 DEF ColdReject, EmptyBody
  <2>8. ASSUME NEW header \in BOOLEAN, Emit(len + 1, haveSoft, header), Body[unit] <= len + 1
        PROVE  frame' # NoFrame /\ sent' = Size(unit) /\ frame'.len = Body[unit]
    <3>1. FrameOf(len + 1, haveSoft, header) \in Frame
      BY <1>1, <2>2, FrameType
    <3>2. frame' = FrameOf(len + 1, haveSoft, header)
      BY <2>8 DEF Emit
    <3>3. len + 1 = Body[unit]
      BY <2>2, <2>3, <2>8
    <3>4. frame'.len = len + 1
      BY <3>2 DEF FrameOf
    <3> QED
      BY <2>3, <3>1, <3>2, <3>3, <3>4, NoValues
  <2>9. CASE CollectPayload(v, haveSoft)
    <3>1. PICK p \in Peeks :
             \/ BlockDue /\ MarkedLast /\ LastBlock(v, haveSoft)
             \/ ResyncDue(v, p[1])
             \/ len + 1 < p[1] /\ PayloadGoesOn(v, haveSoft, p[1], p[2])
             \/ ~(len + 1 < p[1]) /\ PayloadFull(v, haveSoft, p[2])
      BY <2>9, Zenon DEF CollectPayload
    <3>2. p[1] \in Nat /\ p[2] \in BOOLEAN
      BY <1>1, <2>2, <2>4, PeeksType DEF TypeInv
    <3>3. CASE BlockDue /\ MarkedLast /\ LastBlock(v, haveSoft)
      <4>1. unit.blocks = blocksPeeked + 1 /\ unit.duid = "tsdu" /\ len + 1 >= Span[unit.blocks]
        BY <2>2, <3>3 DEF BlockDue, MarkedLast
      <4>2. Body[unit] = Span[unit.blocks]
        BY <2>2, <4>1 DEF Body
      <4>3. Body[unit] <= len + 1
        BY <2>2, <2>3, <4>1, <4>2
      <4> QED
        BY <2>8, <3>3, <4>3 DEF LastBlock
    <3>4. CASE ResyncDue(v, p[1])
      BY <1>1, <2>3, <3>4, NoFalseSync DEF ResyncDue
    <3>5. CASE len + 1 < p[1] /\ PayloadGoesOn(v, haveSoft, p[1], p[2])
      <4>1. frame' = NoFrame /\ state' = "payload" /\ nid' = nid /\ len' = len + 1
        BY <2>2, <3>5 DEF PayloadGoesOn
      <4>2. OnUnit'
        BY <2>2, <4>1 DEF OnUnit
      <4> QED
        BY <4>1, <4>2
    <3>6. CASE ~(len + 1 < p[1]) /\ PayloadFull(v, haveSoft, p[2])
      <4>1. Emit(len + 1, haveSoft, p[2]) /\ ~headerOK'
        BY <3>6 DEF PayloadFull, Emit, EmptyBody
      <4>2. CASE Body[unit] <= p[1]
        BY <2>2, <2>3, <2>8, <3>2, <3>6, <4>1, <4>2
      <4>3. CASE unit.duid = "pdu" /\ ~headerOK
        BY <4>1, <4>3
      <4> QED
        BY <1>1, <2>2, <2>4, <4>2, <4>3, CapReached DEF TypeInv
    <3> QED
      BY <3>1, <3>3, <3>4, <3>5, <3>6
  <2> QED
    BY <2>1, <2>2, <2>7, <2>9 DEF FeedOne, Search, CollectNID, NIDFails, NIDDecodes
<1>2. HeardInv /\ [FSNext]_vars
      => [OnUnit /\ SendsOn =>
           \/ frame' = NoFrame /\ OnUnit'
           \/ frame' # NoFrame /\ sent' = Size(unit) /\ frame'.len = Body[unit]
           \/ unit.duid = "pdu" /\ ~(headerOK \/ headerOK')]_vars
  BY <1>1
<1> QED
  BY <1>2, Heard, PTL DEF FSSpec, Follows

-----------------------------------------------------------------------------
(* Soft values.                                                            *)

\* There is a soft value for each payload dibit, or none once one was missing.
SoftKept ==
    /\ len \in Nat /\ allSoft \in BOOLEAN
    /\ softLen = IF allSoft THEN len ELSE 0
    /\ ~allSoft => len > 0

SoftInv == SoftKept /\ SoftAligned

LEMMA SoftAfterIs ==
  ASSUME SoftKept, NEW haveSoft \in BOOLEAN
  PROVE  SoftAfter(haveSoft) = IF allSoft /\ haveSoft THEN len + 1 ELSE 0
BY DEF SoftKept, SoftAfter

\* A frame that ends at this dibit, or that many dibits before it.
LEMMA FrameAligned ==
  ASSUME SoftKept, NEW haveSoft \in BOOLEAN, NEW header, NEW back \in Nat, back <= len + 1,
         frame' = FrameOf(len + 1 - back, haveSoft, header)
  PROVE  SoftAligned'
<1> DEFINE end == len + 1 - back
<1>1. len \in Nat /\ end \in Nat /\ end <= len + 1
  BY DEF SoftKept
<1>2. frame'.soft = (IF SoftAfter(haveSoft) >= end THEN end ELSE 0)
  BY DEF FrameOf
<1>3. frame'.len = end
  BY DEF FrameOf
<1>4. frame'.fedSoft = (allSoft /\ haveSoft)
  BY DEF FrameOf
<1> HIDE DEF end
<1>5. CASE allSoft /\ haveSoft
  BY <1>1, <1>2, <1>3, <1>4, <1>5, SoftAfterIs DEF SoftAligned
<1>6. CASE ~(allSoft /\ haveSoft)
  <2>1. SoftAfter(haveSoft) = 0
    BY <1>6, SoftAfterIs
  <2>2. frame'.soft = 0
    BY <1>1, <1>2, <2>1
  <2>3. ~frame'.fedSoft
    BY <1>4, <1>6, Zenon
  <2> QED
    BY <2>2, <2>3 DEF SoftAligned
<1> QED
  BY <1>5, <1>6

LEMMA EmptyKept == EmptyBody => SoftKept'
BY DEF EmptyBody, SoftKept

LEMMA CollectKeepsSoft ==
  ASSUME SoftInv, NEW v, NEW haveSoft \in BOOLEAN, CollectPayload(v, haveSoft)
  PROVE  SoftInv'
<1>1. SoftKept /\ len \in Nat /\ SyncLen \in Nat
  BY SyncLenNat DEF SoftInv, SoftKept
<1>2. ASSUME NEW header, Emit(len + 1, haveSoft, header) PROVE SoftInv'
  <2>1. frame' = FrameOf(len + 1 - 0, haveSoft, header)
    BY <1>1, <1>2 DEF Emit
  <2> QED
    BY <1>1, <1>2, <2>1, FrameAligned, EmptyKept DEF Emit, SoftInv
<1>3. ASSUME frame' = NoFrame, EmptyBody PROVE SoftInv'
  BY <1>3, EmptyKept DEF SoftInv, SoftAligned
<1>4. PICK p \in Peeks :
         \/ LastBlock(v, haveSoft)
         \/ ResyncDue(v, p[1]) /\ Resync(v, haveSoft)
         \/ PayloadGoesOn(v, haveSoft, p[1], p[2])
         \/ PayloadFull(v, haveSoft, p[2])
  BY Zenon DEF CollectPayload
<1>5. CASE LastBlock(v, haveSoft)
  BY <1>2, <1>5 DEF LastBlock
<1>6. CASE PayloadFull(v, haveSoft, p[2])
  BY <1>2, <1>6 DEF PayloadFull
<1>7. CASE ResyncDue(v, p[1]) /\ Resync(v, haveSoft)
  <2>1. CASE Salvage(v, haveSoft)
    <3>1. SyncLen <= len + 1
      BY <1>1, <1>7 DEF ResyncDue
    <3>2. frame' = FrameOf(len + 1 - SyncLen, haveSoft, FALSE) /\ EmptyBody
      BY <2>1 DEF Salvage, Emit
    <3> QED
      BY <1>1, <3>1, <3>2, FrameAligned, EmptyKept DEF SoftInv
  <2> QED
    BY <1>3, <1>7, <2>1 DEF Resync
<1>8. CASE PayloadGoesOn(v, haveSoft, p[1], p[2])
  <2>1. /\ len' = len + 1 /\ softLen' = SoftAfter(haveSoft)
        /\ allSoft' = (allSoft /\ haveSoft) /\ frame' = NoFrame
    BY <1>8 DEF PayloadGoesOn
  <2> QED
    BY <1>1, <2>1, SoftAfterIs DEF SoftInv, SoftKept, SoftAligned
<1> QED
  BY <1>4, <1>5, <1>6, <1>7, <1>8

LEMMA SoftStep == SoftInv /\ [FSNext]_vars => SoftInv'
<1> SUFFICES ASSUME SoftInv, [FSNext]_vars PROVE SoftInv'
  OBVIOUS
<1>1. ASSUME frame' = NoFrame, EmptyBody \/ UNCHANGED <<bodyVars, bodyHist>> PROVE SoftInv'
  BY <1>1, EmptyKept DEF SoftInv, SoftAligned, SoftKept, bodyVars, bodyHist
<1>2. CASE Reset \/ ResetFull \/ SoftReset
  BY <1>1, <1>2 DEF Reset, ResetFull, SoftReset
<1>3. ASSUME NEW v \in Dibits, NEW haveSoft \in BOOLEAN, FeedOne(v, haveSoft)
      PROVE  SoftInv'
  <2>1. CASE Search(v, haveSoft) \/ CollectNID(v) \/ NIDFails(v) \/ ColdReject(v)
    BY <1>1, <2>1 DEF Search, CollectNID, NIDFails, ColdReject
  <2>2. CASE NIDDecodes(v)
    BY <2>2 DEF NIDDecodes, SoftInv, SoftKept, SoftAligned
  <2>3. CASE CollectPayload(v, haveSoft)
    BY <2>3, CollectKeepsSoft
  <2> QED
    BY <1>3, <2>1, <2>2, <2>3 DEF FeedOne
<1>4. CASE UNCHANGED vars
  BY <1>4 DEF vars, bodyVars, bodyHist, SoftInv, SoftKept, SoftAligned
<1> QED
  BY <1>2, <1>3, <1>4 DEF FSNext, Feed

\* A frame has a soft value for each of its dibits or none at all, and it has them
\* whenever every dibit was fed with one, however Feed and FeedSoft alternate and
\* wherever the frame is cut (sync.go:118-121, 418-422, 494-510).
THEOREM SoftAlignedInv == FSSpec => []SoftAligned
<1>1. FSInit => SoftInv
  BY DEF FSInit, SoftInv, SoftKept, SoftAligned
<1>2. SoftInv => SoftAligned
  BY DEF SoftInv
<1> QED
  BY <1>1, <1>2, SoftStep, PTL DEF FSSpec

-----------------------------------------------------------------------------
(* The NAC hint.                                                           *)

\* The count is of matches in a row, up to the last NID decoded.
HintInv ==
    /\ nacs \in Seq(NACs) /\ Len(nacs) <= HintMin
    /\ hintCount \in 0..Len(nacs)
    /\ \A i \in (Len(nacs) - hintCount + 1)..Len(nacs) : nacs[i] = hintNAC
    /\ HintEarned

LEMMA LearnKeepsHintInv ==
  ASSUME HintInv, NEW nac \in NACs, LearnNAC(nac),
         nacs' = LET all == Append(nacs, nac)
                 IN  IF Len(all) > HintMin THEN Tail(all) ELSE all
  PROVE  HintInv'
<1> DEFINE all == Append(nacs, nac)
           n == IF nac = hintNAC THEN (IF hintCount < HintMin THEN hintCount + 1 ELSE hintCount)
                                 ELSE 1
<1>1. HintMin \in Nat \ {0} /\ nacs \in Seq(NACs) /\ Len(nacs) \in Nat /\ Len(nacs) <= HintMin
      /\ hintCount \in 0..Len(nacs)
  BY FrameSyncParams DEF HintInv
<1>2. /\ all \in Seq(NACs) /\ Len(all) = Len(nacs) + 1
      /\ \A i \in 1..Len(nacs) : all[i] = nacs[i]
      /\ all[Len(nacs) + 1] = nac
  BY <1>1
<1> HIDE DEF all
<1>3. /\ n \in 1..HintMin /\ n <= Len(nacs) + 1
      /\ nac = hintNAC => n \in {hintCount, hintCount + 1}
      /\ nac # hintNAC => n = 1
  BY <1>1
<1>4. \A i \in (Len(all) - n + 1)..Len(all) : all[i] = nac
  BY <1>1, <1>2, <1>3 DEF HintInv
<1>5. hintNAC' = nac /\ hintCount' = n /\ hintSet' = ((hintSet /\ nac = hintNAC) \/ n >= HintMin)
  BY DEF LearnNAC
<1> HIDE DEF n
<1>6. /\ nacs' \in Seq(NACs) /\ Len(nacs') <= HintMin /\ n <= Len(nacs')
      /\ \A i \in (Len(nacs') - n + 1)..Len(nacs') : nacs'[i] = nac
  <2>1. CASE Len(all) > HintMin
    <3>1. nacs' = Tail(all)
      BY <2>1 DEF all
    <3>2. nacs' \in Seq(NACs) /\ Len(nacs') = Len(all) - 1
          /\ \A i \in 1..Len(nacs') : nacs'[i] = all[i + 1]
      BY <1>1, <1>2, <3>1
    <3>3. n <= Len(nacs')
      BY <1>1, <1>2, <1>3, <2>1, <3>2
    <3>4. ASSUME NEW i \in (Len(nacs') - n + 1)..Len(nacs') PROVE nacs'[i] = nac
      <4>1. i \in 1..Len(nacs') /\ i + 1 \in (Len(all) - n + 1)..Len(all)
        BY <1>1, <1>2, <1>3, <3>2, <3>3
      <4> QED
        BY <1>4, <3>2, <4>1
    <3>5. nacs' \in Seq(NACs) /\ Len(nacs') <= HintMin
      BY <1>1, <1>2, <3>2
    <3> QED
      BY <3>3, <3>4, <3>5
  <2>2. CASE Len(all) <= HintMin
    <3>1. nacs' = all
      BY <1>1, <1>2, <2>2 DEF all
    <3> QED
      BY <1>1, <1>2, <1>3, <1>4, <2>2, <3>1
  <2>3. Len(all) > HintMin \/ Len(all) <= HintMin
    BY <1>1, <1>2
  <2> QED
    BY <2>1, <2>2, <2>3
<1>7. hintSet' => Len(nacs') = HintMin /\ \A i \in 1..HintMin : nacs'[i] = nac
  <2>1. CASE n >= HintMin
    BY <1>1, <1>3, <1>6, <2>1
  <2>2. CASE hintSet /\ nac = hintNAC
    <3>1. nacs = [i \in 1..HintMin |-> nac]
      BY <2>2 DEF HintInv, HintEarned
    <3>2. Len(nacs) = HintMin
      BY <1>1, <3>1
    <3>3. nacs' = Tail(all)
      BY <1>1, <1>2, <3>2 DEF all
    <3>4. Len(nacs') = HintMin /\ \A i \in 1..HintMin : nacs'[i] = all[i + 1]
      BY <1>1, <1>2, <3>2, <3>3
    <3> QED
      BY <1>1, <1>2, <3>1, <3>2, <3>4
  <2> QED
    BY <1>5, <2>1, <2>2
<1>8. HintEarned'
  <2> SUFFICES ASSUME hintSet' PROVE nacs' = [i \in 1..HintMin |-> nac]
    BY <1>5 DEF HintEarned
  <2>1. nacs' \in Seq(NACs) /\ Len(nacs') = HintMin
    BY <1>6, <1>7
  <2> QED
    BY <1>7, <2>1
<1>9. hintCount' \in 0..Len(nacs')
  <2>1. nacs' \in Seq(NACs) /\ n <= Len(nacs')
    BY <1>6
  <2> QED
    BY <1>3, <1>5, <2>1
<1>10. \A i \in (Len(nacs') - hintCount' + 1)..Len(nacs') : nacs'[i] = hintNAC'
  BY <1>5, <1>6
<1> QED
  BY <1>6, <1>8, <1>9, <1>10 DEF HintInv

LEMMA HintStep == HintInv /\ [FSNext]_vars => HintInv'
<1> SUFFICES ASSUME HintInv, [FSNext]_vars PROVE HintInv'
  OBVIOUS
<1>1. CASE UNCHANGED hintVars
  BY <1>1 DEF hintVars, HintInv, HintEarned
<1>2. CASE ResetFull
  BY <1>2, FrameSyncParams DEF ResetFull, HintInv, HintEarned
<1>3. CASE Reset \/ SoftReset
  BY <1>1, <1>3 DEF Reset, SoftReset
<1>4. ASSUME NEW v \in Dibits, NEW haveSoft \in BOOLEAN, FeedOne(v, haveSoft)
      PROVE  HintInv'
  <2>1. CASE Search(v, haveSoft) \/ CollectNID(v) \/ ColdReject(v)
    BY <1>1, <2>1 DEF Search, CollectNID, ColdReject
  <2>2. CASE NIDFails(v)
    BY <2>2 DEF NIDFails, HintInv, HintEarned
  <2>3. CASE NIDDecodes(v)
    BY <2>3, LearnKeepsHintInv DEF NIDDecodes, NID
  <2>4. CASE CollectPayload(v, haveSoft)
    BY <1>1, <2>4, Zenon DEF CollectPayload, LastBlock, Resync, PayloadGoesOn, PayloadFull
  <2> QED
    BY <1>4, <2>1, <2>2, <2>3, <2>4 DEF FeedOne
<1>5. CASE UNCHANGED vars
  BY <1>1, <1>5 DEF vars
<1> QED
  BY <1>2, <1>3, <1>4, <1>5 DEF FSNext, Feed

\* The hint is on for a NAC only while the last nacHintMinFrames NIDs that decoded
\* all had it, whatever that number is and whatever failed in between
\* (sync.go:129-132, 384-400).
THEOREM HintEarnedInv == FSSpec => []HintEarned
<1>1. FSInit => HintInv
  BY FrameSyncParams DEF FSInit, HintInv, HintEarned
<1>2. HintInv => HintEarned
  BY DEF HintInv
<1> QED
  BY <1>1, <1>2, HintStep, PTL DEF FSSpec
=============================================================================
