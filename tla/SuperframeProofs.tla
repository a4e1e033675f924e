-------------------------- MODULE SuperframeProofs --------------------------
(***************************************************************************)
(* What holds of the framer and the superframe counter for every length of *)
(* a sync, a burst and a superframe, every map of positions to slots and   *)
(* every bound on a slip shorter than a burst, with TLAPS proofs: that the *)
(* counter is the position of what is collected, and what follows from it  *)
(* of the identities that the slots take on.                               *)
(***************************************************************************)
EXTENDS Superframe, FiniteSetTheorems, TLAPS

\* A dibit collected is the one sent, of the burst at fp, but for the slip: which may
\* have carried the framer into the next burst or kept it in the one before.
Placed(fp) ==
    \/ burstIdx = idx + net /\ fp = onAir.pos
    \/ burstIdx = idx + net + BurstDibits /\ NextPos(fp) = onAir.pos
    \/ burstIdx = idx + net - BurstDibits /\ fp = NextPos(onAir.pos)

\* Buffered bursts follow one another from base.
Lined(buf, base) ==
    \A k \in DOMAIN buf : buf[k] # NoBurst => buf[k].pos = (k - 1 + base) % SuperframeBursts

CollectedAt(fp) == burst # NoBurst => burst.pos = fp
CountedAt(fp)   == ~strayed /\ superframePos >= 0 => superframePos = fp
BufferedAt(fp)  ==
    ~strayed /\ syncBuf # <<>>
      => \E base \in Positions : /\ Lined(syncBuf, base)
                                 /\ fp = (Len(syncBuf) + base) % SuperframeBursts

PlaceInv ==
    collecting => \E fp \in Positions :
                     Placed(fp) /\ CollectedAt(fp) /\ CountedAt(fp) /\ BufferedAt(fp)

\* Nothing is counted before the first sync.
IdleInv == ~collecting => net = 0 /\ superframePos = -1 /\ syncBuf = <<>>

\* Nothing has been counted wrong that was not counted.
StrayInv == strayed => Counting

\* No burst is processed before there is a position.
MacInv == superframePos < 0 => \A s \in Slots : mac[s] = NoCall

\* The dibits that open a burst, collected at the same index, are in order.
InOrder == collecting /\ idx > 0 /\ accum = idx /\ burstIdx = idx => burst = onAir

SFInv == SFTypeOK /\ PlaceInv /\ IdleInv /\ StrayInv /\ MacInv /\ InOrder

-----------------------------------------------------------------------------
(* Positions, modulo the superframe.                                       *)

LEMMA ModUnique ==
  ASSUME NEW n \in Nat \ {0}, NEW q \in Int, NEW r \in 0..(n-1)
  PROVE  (q * n + r) % n = r
OBVIOUS

LEMMA ModNext ==
  ASSUME NEW n \in Nat \ {0}, NEW a \in Int
  PROVE  ((a % n) + 1) % n = (a + 1) % n
<1> DEFINE q == a \div n
           r == a % n
<1>1. q \in Int /\ r \in 0..(n-1) /\ a = q * n + r
  OBVIOUS
<1>2. CASE r + 1 < n
  <2> HIDE DEF q, r
  <2>1. a + 1 = q * n + (r + 1) /\ r + 1 \in 0..(n-1)
    BY <1>1, <1>2
  <2>2. (a + 1) % n = r + 1
    BY <2>1, <1>1, ModUnique
  <2>3. (r + 1) % n = r + 1
    BY <2>1
  <2>4. (r + 1) % n = (a + 1) % n
    BY <2>2, <2>3
  <2> QED
    BY <2>4 DEF r
<1>3. CASE r + 1 = n
  <2> HIDE DEF q, r
  <2>1. a + 1 = (q + 1) * n + 0 /\ 0 \in 0..(n-1) /\ q + 1 \in Int
    BY <1>1, <1>3
  <2>2. (a + 1) % n = 0
    BY <2>1, <1>1, ModUnique
  <2>3. (r + 1) % n = 0
    BY <1>3
  <2>4. (r + 1) % n = (a + 1) % n
    BY <2>2, <2>3
  <2> QED
    BY <2>4 DEF r
<1> QED
  BY <1>1, <1>2, <1>3

\* Every sum is a position, and a position is its own remainder.
LEMMA PositionMod ==
  /\ \A a \in Int : a % SuperframeBursts \in Positions
  /\ \A a \in Positions : a % SuperframeBursts = a
BY SuperframeParams DEF Positions

LEMMA NextPosType == \A p \in Positions : NextPos(p) \in Positions
BY PositionMod DEF Positions, NextPos

\* One step on from the position of a sum is that of the sum and one.
LEMMA PositionNext ==
  ASSUME NEW a \in Int
  PROVE  NextPos(a % SuperframeBursts) = (a + 1) % SuperframeBursts
BY ModNext, SuperframeParams DEF NextPos

\* Two bases that give a burst the same position are one.
LEMMA PositionCancel ==
  ASSUME NEW k \in Int, NEW p \in Positions, NEW q \in Positions,
         (k + p) % SuperframeBursts = (k + q) % SuperframeBursts
  PROVE  p = q
BY SuperframeParams DEF Positions

-----------------------------------------------------------------------------
(* What is sent and what is collected.                                     *)

LEMMA ModesDiffer ==
  /\ NoBurst \notin Burst /\ NoCall \notin Slots
  /\ \A b \in Burst : b.pos \in Positions
BY SuperframeParams DEF Burst

LEMMA AdvanceType ==
  ASSUME SFTypeOK, Advance
  PROVE  onAir' \in Burst /\ idx' \in 0..(BurstDibits - 1)
<1>1. CASE idx + 1 < BurstDibits
  BY <1>1, SuperframeParams DEF Advance, SFTypeOK
<1>2. CASE ~(idx + 1 < BurstDibits)
  <2>1. PICK b \in Bodies : onAir' = [pos |-> NextPos(onAir.pos), body |-> b]
    BY <1>2 DEF Advance
  <2>2. NextPos(onAir.pos) \in Positions
    BY NextPosType, ModesDiffer DEF SFTypeOK
  <2>3. onAir' \in Burst
    BY <2>1, <2>2, SuperframeParams DEF Burst
  <2>4. idx' = 0
    BY <1>2 DEF Advance
  <2> QED
    BY <2>3, <2>4, SuperframeParams
<1> QED
  BY <1>1, <1>2

\* A dibit moves the air, the framer or both, and the place is kept while the framer is in
\* the same burst.
LEMMA PlaceKept ==
  ASSUME SFTypeOK, NEW fp \in Positions, Placed(fp), burstIdx' \in 0..(BurstDibits - 1),
         \/ Advance /\ burstIdx' = burstIdx + 1 /\ net' = net
         \/ UNCHANGED airVars /\ burstIdx' = burstIdx + 1 /\ net' = net + 1
         \/ Advance /\ burstIdx' = burstIdx /\ net' = net - 1 /\ net > -MaxLost
  PROVE  Placed(fp)'
<1> USE SuperframeParams
<1>1. /\ idx \in 0..(BurstDibits - 1) /\ burstIdx \in 0..(BurstDibits - 1)
      /\ net \in (-MaxLost)..MaxAdded
  BY DEF SFTypeOK
<1>2. CASE UNCHANGED airVars /\ burstIdx' = burstIdx + 1 /\ net' = net + 1
  BY <1>1, <1>2 DEF Placed, airVars
<1>3. CASE Advance /\ idx + 1 < BurstDibits
  BY <1>1, <1>3 DEF Placed, Advance, airVars
<1>4. CASE Advance /\ ~(idx + 1 < BurstDibits)
  <2>1. idx = BurstDibits - 1 /\ idx' = 0 /\ onAir'.pos = NextPos(onAir.pos)
    BY <1>1, <1>4 DEF Advance
  <2>2. \/ burstIdx' = burstIdx + 1 /\ net' = net
        \/ burstIdx' = burstIdx /\ net' = net - 1 /\ net > -MaxLost
    BY <1>1, <2>1 DEF airVars
  <2> QED
    BY <1>1, <2>1, <2>2 DEF Placed
<1> QED
  BY <1>2, <1>3, <1>4

\* With its last dibit the framer goes on to the next position.
LEMMA PlaceNext ==
  ASSUME SFTypeOK, NEW fp \in Positions, Placed(fp),
         burstIdx + 1 = BurstDibits, burstIdx' = 0,
         \/ Advance /\ net' = net
         \/ UNCHANGED airVars /\ net' = net + 1
  PROVE  Placed(NextPos(fp))'
<1> USE SuperframeParams
<1>1. /\ idx \in 0..(BurstDibits - 1) /\ burstIdx \in 0..(BurstDibits - 1)
      /\ net \in (-MaxLost)..MaxAdded
  BY DEF SFTypeOK
<1>2. CASE UNCHANGED airVars /\ net' = net + 1
  BY <1>1, <1>2 DEF Placed, airVars
<1>3. CASE Advance /\ net' = net /\ idx + 1 < BurstDibits
  BY <1>1, <1>3 DEF Placed, Advance, airVars
<1>4. CASE Advance /\ net' = net /\ ~(idx + 1 < BurstDibits)
  <2>1. idx = BurstDibits - 1 /\ idx' = 0 /\ onAir'.pos = NextPos(onAir.pos)
    BY <1>1, <1>4 DEF Advance
  <2> QED
    BY <1>1, <1>4, <2>1 DEF Placed
<1> QED
  BY <1>2, <1>3, <1>4

\* At a sync a harmless slip has left the framer in the burst that is sent.
LEMMA HarmlessHere ==
  ASSUME SFTypeOK, NEW fp \in Positions, Placed(fp), idx + 1 = SyncDibits, Harmless
  PROVE  fp = onAir.pos
BY SuperframeParams DEF SFTypeOK, Placed, Harmless

\* A burst collected from its first dibit is at the framer's place.
LEMMA TakenHere ==
  ASSUME SFTypeOK, NEW fp \in Positions, Placed(fp), CollectedAt(fp), NEW made \in BOOLEAN
  PROVE  /\ Taken(made) \in Burst \cup {NoBurst}
         /\ Taken(made) # NoBurst => Taken(made).pos = fp
<1>1. Taken(made) \in Burst \cup {NoBurst}
  BY DEF Taken, SFTypeOK
<1>2. ASSUME Taken(made) # NoBurst
      PROVE  Taken(made).pos = fp
  <2>1. Opens /\ Taken(made) = onAir
    BY <1>2 DEF Taken
  <2>2. CASE burstIdx = 0 /\ idx = 0
    BY <2>1, <2>2, SuperframeParams DEF Placed, SFTypeOK
  <2>3. CASE burst = onAir
    BY <2>1, <2>3, ModesDiffer DEF CollectedAt, SFTypeOK
  <2> QED
    BY <2>1, <2>2, <2>3 DEF Opens
<1> QED
  BY <1>1, <1>2

-----------------------------------------------------------------------------
(* The offset of the buffered bursts.                                      *)

\* A set of naturals that is not empty has a least element.
LEMMA LeastIn ==
  ASSUME NEW A \in SUBSET Nat, A # {}
  PROVE  \E n \in A : \A m \in A : n <= m
<1> DEFINE T == {0..n : n \in A}
<1>1. \A n \in Nat : 0..n \in FiniteSubsetsOf(Nat)
  <2> SUFFICES ASSUME NEW n \in Nat PROVE 0..n \in FiniteSubsetsOf(Nat)
    OBVIOUS
  <2>1. IsFiniteSet(0..n)
    BY FS_Interval
  <2> QED
    BY <2>1 DEF FiniteSubsetsOf
<1>2. T \subseteq FiniteSubsetsOf(Nat) /\ T # {}
  BY <1>1
<1>3. IsWellFoundedOn(StrictSubsetOrdering(Nat), FiniteSubsetsOf(Nat))
  BY FS_StrictSubsetOrderingWellFounded
<1>4. PICK x \in T : \A y \in T : <<y, x>> \notin StrictSubsetOrdering(Nat)
  <2> HIDE DEF T
  <2> QED
    BY <1>2, <1>3, WFMin
<1>5. PICK n \in A : x = 0..n
  BY <1>4
<1>6. ASSUME NEW m \in A PROVE n <= m
  <2>1. <<0..m, 0..n>> \notin StrictSubsetOrdering(Nat)
    BY <1>4, <1>5
  <2>2. CASE m < n
    <3>1. 0..m \subseteq 0..n /\ n \in 0..n /\ n \notin 0..m
      BY <2>2
    <3>2. <<0..m, 0..n>> \in StrictSubsetOrdering(Nat)
      BY <3>1, <1>1 DEF StrictSubsetOrdering, FiniteSubsetsOf
    <3> QED
      BY <2>1, <3>2
  <2> QED
    BY <2>2
<1> QED
  BY <1>6

\* The codewords of a run of bursts are at most six to a burst.
LEMMA ScoreBound ==
  ASSUME NEW buf \in Seq(Burst \cup {NoBurst}), NEW o \in Positions
  PROVE  Score(buf, o) \in Nat /\ Score(buf, o) <= 6 * Len(buf)
<1> DEFINE read == {k \in DOMAIN buf : Voiced(buf[k]) /\ buf[k].pos = (k - 1 + o) % SuperframeBursts}
           four == {k \in read : buf[k].body.kind = "4V"}
<1>1. IsFiniteSet(DOMAIN buf) /\ Cardinality(DOMAIN buf) = Len(buf)
  <2>1. PICK a \in Int, b \in Int : a = 1 /\ b = Len(buf)
    OBVIOUS
  <2>2. IsFiniteSet(a..b) /\ Cardinality(a..b) = IF a > b THEN 0 ELSE b-a+1
    BY FS_Interval
  <2>3. DOMAIN buf = a..b /\ b \in Nat
    BY <2>1
  <2> QED
    BY <2>1, <2>2, <2>3
<1>2. four \in SUBSET DOMAIN buf /\ (read \ four) \in SUBSET DOMAIN buf
  OBVIOUS
<1>3. Cardinality(four) \in Nat /\ Cardinality(four) <= Len(buf)
  <2> HIDE DEF four
  <2> QED
    BY <1>1, <1>2, FS_Subset, FS_CardinalityType
<1>4. Cardinality(read \ four) \in Nat /\ Cardinality(read \ four) <= Len(buf)
  <2> DEFINE two == read \ four
  <2>1. two \in SUBSET DOMAIN buf
    BY <1>2
  <2> HIDE DEF two
  <2>2. Cardinality(two) \in Nat /\ Cardinality(two) <= Len(buf)
    BY <1>1, <2>1, FS_Subset, FS_CardinalityType
  <2> QED
    BY <2>2 DEF two
<1>5. Score(buf, o) = 4 * Cardinality(four) + 2 * Cardinality(read \ four)
  BY DEF Score
<1> HIDE DEF read, four
<1> QED
  BY <1>3, <1>4, <1>5

\* There is an offset with the best score, and a first one of those.
LEMMA DetectOffsetType ==
  ASSUME NEW buf \in Seq(Burst \cup {NoBurst})
  PROVE  DetectOffset(buf) \in Positions
<1> DEFINE Short(p) == 6 * Len(buf) - Score(buf, p)
           Shorts == {Short(p) : p \in Positions}
<1>1. \A p \in Positions : Score(buf, p) \in Nat /\ Short(p) \in Nat
  BY ScoreBound
<1>2. 0 \in Positions
  BY SuperframeParams DEF Positions
<1>3. Shorts \in SUBSET Nat /\ Shorts # {}
  BY <1>1, <1>2
<1>4. PICK n \in Shorts : \A m \in Shorts : n <= m
  BY <1>3, LeastIn
<1> DEFINE Best == {p \in Positions : Short(p) = n}
<1>5. Best \in SUBSET Nat /\ Best # {}
  BY <1>4 DEF Positions
<1>6. PICK o \in Best : \A p \in Best : o <= p
  <2> HIDE DEF Best
  <2> QED
    BY <1>5, LeastIn
<1>7. ASSUME NEW p \in Positions
      PROVE  /\ Score(buf, p) <= Score(buf, o)
             /\ p < o => Score(buf, p) < Score(buf, o)
  <2>1. n <= Short(p) /\ Short(o) = n /\ o \in Positions
    BY <1>4, <1>6
  <2>2. Score(buf, p) \in Nat /\ Score(buf, o) \in Nat /\ Len(buf) \in Nat
    BY <1>1, <2>1
  <2>3. p < o => Short(p) # n
    BY <1>6 DEF Positions
  <2> QED
    BY <2>1, <2>2, <2>3
<1>8. o \in Positions
  BY <1>6
<1> QED
  BY <1>7, <1>8 DEF DetectOffset

\* One burst of voice among bursts that follow one another tells where they begin.
LEMMA DetectsBase ==
  ASSUME NEW buf \in Seq(Burst \cup {NoBurst}), NEW base \in Positions,
         Lined(buf, base), NEW v \in DOMAIN buf, Voiced(buf[v])
  PROVE  DetectOffset(buf) = base
<1> DEFINE read(o) == {k \in DOMAIN buf : Voiced(buf[k]) /\ buf[k].pos = (k - 1 + o) % SuperframeBursts}
           four(o) == {k \in read(o) : buf[k].body.kind = "4V"}
<1>1. \A o \in Positions : Score(buf, o) = 4 * Cardinality(four(o)) + 2 * Cardinality(read(o) \ four(o))
  BY DEF Score
<1>2. IsFiniteSet(DOMAIN buf)
  <2>1. DOMAIN buf = 1..Len(buf) /\ Len(buf) \in Nat
    OBVIOUS
  <2> QED
    BY <2>1, FS_Interval
<1>3. ASSUME NEW p \in Positions, p # base
      PROVE  Score(buf, p) = 0
  <2>1. ASSUME NEW k \in read(p) PROVE FALSE
    <3>1. k \in Int /\ buf[k] # NoBurst /\ buf[k].pos = (k - 1 + p) % SuperframeBursts
      BY DEF Voiced
    <3>2. buf[k].pos = (k - 1 + base) % SuperframeBursts
      BY <3>1 DEF Lined
    <3>3. k - 1 \in Int
      BY <3>1
    <3> QED
      BY <3>1, <3>2, <3>3, <1>3, PositionCancel
  <2>2. read(p) = {} /\ four(p) = {} /\ read(p) \ four(p) = {}
    BY <2>1
  <2>3. Cardinality({}) = 0
    BY FS_EmptySet
  <2>4. Score(buf, p) = 4 * Cardinality({}) + 2 * Cardinality({})
    BY <1>1, <2>2
  <2> QED
    BY <2>3, <2>4
<1>4. Score(buf, base) > 0
  <2>1. v \in read(base)
    BY DEF Voiced, Lined
  <2> DEFINE A == four(base)
             B == read(base) \ four(base)
  <2>2. A \in SUBSET DOMAIN buf /\ B \in SUBSET DOMAIN buf /\ (A # {} \/ B # {})
    BY <2>1
  <2>3. Score(buf, base) = 4 * Cardinality(A) + 2 * Cardinality(B)
    BY <1>1
  <2> HIDE DEF A, B
  <2>4. IsFiniteSet(A) /\ IsFiniteSet(B)
    BY <1>2, <2>2, FS_Subset
  <2>5. Cardinality(A) \in Nat /\ Cardinality(B) \in Nat
    BY <2>4, FS_CardinalityType
  <2>6. Cardinality(A) # 0 \/ Cardinality(B) # 0
    BY <2>2, <2>4, FS_EmptySet
  <2> QED
    BY <2>3, <2>5, <2>6
<1>5. \A p \in Positions : Score(buf, p) \in Nat
  BY ScoreBound
<1> DEFINE First(o) == /\ \A p \in Positions : Score(buf, p) <= Score(buf, o)
                       /\ \A p \in Positions : p < o => Score(buf, p) < Score(buf, o)
<1>6. First(base)
  <2>1. \A p \in Positions : p # base => Score(buf, p) < Score(buf, base)
    BY <1>3, <1>4, <1>5
  <2> QED
    BY <2>1, <1>5 DEF Positions
<1>7. ASSUME NEW o \in Positions, First(o)
      PROVE  o = base
  <2>1. Score(buf, base) <= Score(buf, o)
    BY <1>7
  <2> QED
    BY <2>1, <1>3, <1>4, <1>5
<1>8. DetectOffset(buf) = CHOOSE o \in Positions : First(o)
  BY DEF DetectOffset
<1> HIDE DEF First
<1> QED
  BY <1>6, <1>7, <1>8

-----------------------------------------------------------------------------
(* Bursts processed from the position that they begin at.                  *)

\* Whatever they are, the identities are the calls of the air, and the counter a position.
LEMMA ProcessType ==
  ASSUME NEW buf \in Seq(Burst \cup {NoBurst}), NEW p \in Positions,
         mac \in [Slots -> Slots \cup {NoCall}], ProcessBursts(buf, p)
  PROVE  /\ mac' \in [Slots -> Slots \cup {NoCall}]
         /\ superframePos' \in Positions
         /\ superframePos' = (Len(buf) + p) % SuperframeBursts
<1> DEFINE at(k) == (p + k - 1) % SuperframeBursts
           last(s) == {k \in DOMAIN buf :
                      /\ Latches(buf[k], at(k)) /\ WhichSlot[at(k)] = s
                      /\ \A j \in DOMAIN buf : j > k /\ WhichSlot[at(j)] = s
                                                => ~Latches(buf[j], at(j))}
<1>1. mac' = [s \in Slots |-> IF last(s) = {} THEN mac[s]
                              ELSE WhichSlot[buf[CHOOSE k \in last(s) : TRUE].pos]]
  BY DEF ProcessBursts
<1>2. ASSUME NEW s \in Slots, NEW k \in last(s)
      PROVE  WhichSlot[buf[k].pos] \in Slots
  <2>1. buf[k] \in Burst
    BY DEF Latches
  <2> QED
    BY <2>1, ModesDiffer, SuperframeParams
<1> HIDE DEF last
<1>3. mac' \in [Slots -> Slots \cup {NoCall}]
  BY <1>1, <1>2
<1>4. superframePos' = (p + Len(buf)) % SuperframeBursts
  BY DEF ProcessBursts
<1>5. p + Len(buf) = Len(buf) + p /\ p + Len(buf) \in Int
  BY DEF Positions
<1> QED
  BY <1>3, <1>4, <1>5, PositionMod

\* Taken for what they are, they give every slot its own identity.
LEMMA ProcessOwn ==
  ASSUME NEW buf \in Seq(Burst \cup {NoBurst}), NEW p \in Positions, Lined(buf, p),
         \A s \in Slots : mac[s] \in {s, NoCall}, ProcessBursts(buf, p)
  PROVE  \A s \in Slots : mac'[s] \in {s, NoCall}
<1> DEFINE at(k) == (p + k - 1) % SuperframeBursts
           last(s) == {k \in DOMAIN buf :
                      /\ Latches(buf[k], at(k)) /\ WhichSlot[at(k)] = s
                      /\ \A j \in DOMAIN buf : j > k /\ WhichSlot[at(j)] = s
                                                => ~Latches(buf[j], at(j))}
<1>1. mac' = [s \in Slots |-> IF last(s) = {} THEN mac[s]
                              ELSE WhichSlot[buf[CHOOSE k \in last(s) : TRUE].pos]]
  BY DEF ProcessBursts
<1>2. ASSUME NEW s \in Slots, NEW k \in last(s)
      PROVE  WhichSlot[buf[k].pos] = s
  <2>1. buf[k] # NoBurst /\ WhichSlot[at(k)] = s /\ k \in Int
    BY DEF Latches
  <2>2. buf[k].pos = (k - 1 + p) % SuperframeBursts
    BY <2>1 DEF Lined
  <2>3. k - 1 + p = p + k - 1
    BY <2>1 DEF Positions
  <2> QED
    BY <2>1, <2>2, <2>3
<1> HIDE DEF last
<1> QED
  BY <1>1, <1>2

\* A burst received for what it is, and that carries an identity, gives it to its slot.
LEMMA ProcessCarries ==
  ASSUME NEW b \in Burst, Carries(b), ProcessBursts(<<b>>, b.pos)
  PROVE  mac'[WhichSlot[b.pos]] = WhichSlot[b.pos]
<1> DEFINE at(k) == (b.pos + k - 1) % SuperframeBursts
           bufs == <<b>>
           last(s) == {k \in DOMAIN bufs :
                      /\ Latches(bufs[k], at(k)) /\ WhichSlot[at(k)] = s
                      /\ \A j \in DOMAIN bufs : j > k /\ WhichSlot[at(j)] = s
                                                => ~Latches(bufs[j], at(j))}
           here == WhichSlot[b.pos]
<1>1. mac' = [s \in Slots |-> IF last(s) = {} THEN mac[s]
                              ELSE WhichSlot[bufs[CHOOSE k \in last(s) : TRUE].pos]]
  BY DEF ProcessBursts
<1>2. b.pos \in Positions /\ here \in Slots /\ b # NoBurst
  BY ModesDiffer, SuperframeParams
<1>3. DOMAIN bufs = {1} /\ bufs[1] = b
  OBVIOUS
<1>4. at(1) = b.pos
  <2>1. b.pos + 1 - 1 = b.pos
    BY <1>2 DEF Positions
  <2> QED
    BY <1>2, <2>1, PositionMod
<1>5. Latches(b, b.pos)
  BY <1>2 DEF Latches, Carries, Located
<1>6. last(here) = {1}
  <2> HIDE DEF bufs, at, here
  <2> QED
    BY <1>3, <1>4, <1>5 DEF here
<1> HIDE DEF last, bufs
<1>7. mac'[here] = WhichSlot[bufs[CHOOSE k \in {1} : TRUE].pos]
  BY <1>1, <1>2, <1>6
<1>8. (CHOOSE k \in {1} : TRUE) = 1
  OBVIOUS
<1> QED
  BY <1>3, <1>7, <1>8

-----------------------------------------------------------------------------
(* A burst that is completed.                                              *)

LEMMA AppendLined ==
  ASSUME NEW buf \in Seq(Burst \cup {NoBurst}), NEW base \in Positions, Lined(buf, base),
         NEW b \in Burst \cup {NoBurst},
         b # NoBurst => b.pos = (Len(buf) + base) % SuperframeBursts
  PROVE  Lined(Append(buf, b), base)
<1> SUFFICES ASSUME NEW k \in DOMAIN Append(buf, b), Append(buf, b)[k] # NoBurst
             PROVE  Append(buf, b)[k].pos = (k - 1 + base) % SuperframeBursts
  BY DEF Lined
<1>1. CASE k \in DOMAIN buf
  BY <1>1 DEF Lined
<1>2. CASE k = Len(buf) + 1
  <2>1. k - 1 = Len(buf) /\ Append(buf, b)[k] = b
    BY <1>2
  <2> QED
    BY <2>1
<1> QED
  BY <1>1, <1>2

Completed(b) == Buffer(b) \/ Unplaced \/ InPlace(b)

\* The decoder's own state stays of its types.
LEMMA CompletedType ==
  ASSUME SFInv, NEW b \in Burst \cup {NoBurst}, Completed(b), hasMask' = hasMask
  PROVE  /\ superframePos' \in Positions \cup {-1}
         /\ syncBuf' \in Seq(Burst \cup {NoBurst}) /\ Len(syncBuf') < SyncBurstCount
         /\ syncBuf' # <<>> => hasMask' /\ superframePos' = -1
         /\ mac' \in [Slots -> Slots \cup {NoCall}]
         /\ strayed' \in BOOLEAN
<1> DEFINE buf == Append(syncBuf, b)
<1> USE DEF SFInv, SFTypeOK
<1>1. buf \in Seq(Burst \cup {NoBurst})
  OBVIOUS
<1>2. Len(<<>>) = 0 /\ SyncBurstCount \in Nat \ {0} /\ -1 \notin Positions
  BY SuperframeParams DEF Positions
<1>3. CASE Buffer(b) /\ Len(buf) < SyncBurstCount
  BY <1>1, <1>3, <1>2 DEF Buffer, Positions
<1>4. CASE Buffer(b) /\ ~(Len(buf) < SyncBurstCount)
  <2>1. /\ ProcessBursts(buf, DetectOffset(buf)) /\ syncBuf' = <<>>
        /\ strayed' = (strayed \/ \A k \in DOMAIN buf : ~Voiced(buf[k]))
    BY <1>4 DEF Buffer
  <2>2. DetectOffset(buf) \in Positions
    BY <1>1, DetectOffsetType
  <2>3. mac' \in [Slots -> Slots \cup {NoCall}] /\ superframePos' \in Positions
    <3> HIDE DEF buf
    <3> QED
      BY <1>1, <2>1, <2>2, ProcessType
  <2> QED
    BY <1>2, <2>1, <2>3
<1>5. CASE Unplaced
  BY <1>5 DEF Unplaced
<1>6. CASE InPlace(b)
  <2>1. superframePos \in Positions /\ syncBuf = <<>>
    BY <1>6, <1>2 DEF InPlace
  <2>2. <<b>> \in Seq(Burst \cup {NoBurst})
    OBVIOUS
  <2>3. mac' \in [Slots -> Slots \cup {NoCall}] /\ superframePos' \in Positions
    BY <1>6, <2>1, <2>2, ProcessType DEF InPlace
  <2> QED
    BY <1>6, <1>2, <2>1, <2>3 DEF InPlace
<1> QED
  BY <1>3, <1>4, <1>5, <1>6 DEF Completed

\* The counter and the buffer go on to the next position with the framer; and no slot is
\* given another's identity.
LEMMA CompletedPlace ==
  ASSUME SFInv, NEW fp \in Positions, CountedAt(fp), BufferedAt(fp),
         NEW to \in Positions, to = NextPos(fp),
         NEW b \in Burst \cup {NoBurst}, b # NoBurst => b.pos = fp,
         Completed(b), hasMask' = hasMask
  PROVE  /\ CountedAt(to)' /\ BufferedAt(to)'
         /\ StrayInv' /\ MacInv'
         /\ OwnIdentity => OwnIdentity'
<1> DEFINE buf == Append(syncBuf, b)
<1> USE DEF SFInv, SFTypeOK
<1>1. buf \in Seq(Burst \cup {NoBurst}) /\ buf # <<>> /\ Len(buf) = Len(syncBuf) + 1
  <2>1. syncBuf \in Seq(Burst \cup {NoBurst})
    OBVIOUS
  <2>2. buf \in Seq(Burst \cup {NoBurst}) /\ Len(buf) = Len(syncBuf) + 1
    BY <2>1
  <2>3. Len(syncBuf) \in Nat /\ Len(<<>>) = 0
    BY <2>1
  <2> HIDE DEF buf
  <2> QED
    BY <2>2, <2>3
<1>2. -1 \notin Positions /\ \A p \in Positions : p >= 0 /\ ~(p < 0)
  BY DEF Positions
<1>0. superframePos < 0 => superframePos = -1
  BY <1>2
<1>3. ASSUME ~strayed, superframePos < 0
      PROVE  \E base \in Positions : /\ Lined(buf, base)
                                     /\ to = (Len(buf) + base) % SuperframeBursts
  <2>1. PICK base \in Positions : /\ Lined(syncBuf, base)
                                  /\ fp = (Len(syncBuf) + base) % SuperframeBursts
    <3>1. CASE syncBuf # <<>>
      BY <1>3, <3>1 DEF BufferedAt
    <3>2. CASE syncBuf = <<>>
      <4>1. Lined(syncBuf, fp)
        BY <3>2 DEF Lined
      <4>2. Len(syncBuf) + fp = fp
        BY <3>2 DEF Positions
      <4> QED
        BY <4>1, <4>2, PositionMod
    <3> QED
      BY <3>1, <3>2
  <2>2. Lined(buf, base)
    BY <2>1, AppendLined
  <2>3. Len(syncBuf) + base \in Int /\ Len(buf) + base = Len(syncBuf) + base + 1
    BY <1>1 DEF Positions
  <2>4. to = (Len(buf) + base) % SuperframeBursts
    BY <2>1, <2>3, PositionNext
  <2> QED
    BY <2>2, <2>4
<1>4. CASE Buffer(b) /\ Len(buf) < SyncBurstCount
  <2>1. syncBuf' = buf /\ superframePos' = superframePos /\ mac' = mac /\ strayed' = strayed
    BY <1>4 DEF Buffer
  <2>2. superframePos < 0
    BY <1>4 DEF Buffer
  <2> HIDE DEF buf
  <2>3. CountedAt(to)'
    BY <1>0, <2>1, <2>2 DEF CountedAt
  <2>4. BufferedAt(to)'
    BY <1>3, <2>1, <2>2 DEF BufferedAt
  <2>5. StrayInv' /\ MacInv' /\ (OwnIdentity => OwnIdentity')
    BY <1>1, <2>1 DEF StrayInv, MacInv, OwnIdentity, Counting
  <2> QED
    BY <2>3, <2>4, <2>5
<1>5. CASE Buffer(b) /\ ~(Len(buf) < SyncBurstCount)
  <2>1. /\ ProcessBursts(buf, DetectOffset(buf)) /\ syncBuf' = <<>>
        /\ strayed' = (strayed \/ \A k \in DOMAIN buf : ~Voiced(buf[k]))
        /\ superframePos < 0
    BY <1>5 DEF Buffer
  <2> HIDE DEF buf
  <2>2. DetectOffset(buf) \in Positions
    BY <1>1, DetectOffsetType
  <2>3. /\ superframePos' \in Positions
        /\ superframePos' = (Len(buf) + DetectOffset(buf)) % SuperframeBursts
    BY <1>1, <2>1, <2>2, ProcessType
  <2>4. ASSUME ~strayed'
        PROVE  superframePos' = to /\ (OwnIdentity => OwnIdentity')
    <3>1. ~strayed /\ \E v \in DOMAIN buf : Voiced(buf[v])
      BY <2>1, <2>4
    <3>2. PICK base \in Positions : Lined(buf, base) /\ to = (Len(buf) + base) % SuperframeBursts
      BY <1>3, <2>1, <3>1
    <3>3. DetectOffset(buf) = base
      BY <1>1, <3>1, <3>2, DetectsBase
    <3>4. ASSUME OwnIdentity PROVE OwnIdentity'
      <4>1. \A s \in Slots : mac[s] \in {s, NoCall}
        BY <3>1, <3>4 DEF OwnIdentity
      <4>2. \A s \in Slots : mac'[s] \in {s, NoCall}
        BY <1>1, <2>1, <3>2, <3>3, <4>1, ProcessOwn
      <4> QED
        BY <4>2 DEF OwnIdentity
    <3> QED
      BY <2>3, <3>2, <3>3, <3>4
  <2>5. CountedAt(to)' /\ BufferedAt(to)'
    BY <2>1, <2>4 DEF CountedAt, BufferedAt
  <2>6. StrayInv' /\ MacInv'
    BY <1>2, <2>3 DEF StrayInv, MacInv, Counting, Positions
  <2>7. OwnIdentity => OwnIdentity'
    BY <2>4 DEF OwnIdentity
  <2> QED
    BY <2>5, <2>6, <2>7
<1>6. CASE Unplaced
  <2>1. /\ superframePos' = superframePos /\ syncBuf' = syncBuf /\ mac' = mac /\ strayed' = strayed
        /\ superframePos < 0 /\ syncBuf = <<>>
    BY <1>6 DEF Unplaced
  <2>2. CountedAt(to)' /\ BufferedAt(to)'
    BY <1>0, <2>1 DEF CountedAt, BufferedAt
  <2>3. StrayInv' /\ MacInv' /\ (OwnIdentity => OwnIdentity')
    BY <2>1 DEF StrayInv, MacInv, Counting, OwnIdentity
  <2> QED
    BY <2>2, <2>3
<1>7. CASE InPlace(b)
  <2>1. /\ superframePos \in Positions /\ ProcessBursts(<<b>>, superframePos)
        /\ syncBuf = <<>> /\ syncBuf' = <<>> /\ strayed' = strayed
    BY <1>2, <1>7 DEF InPlace
  <2>2. <<b>> \in Seq(Burst \cup {NoBurst}) /\ Len(<<b>>) = 1
    OBVIOUS
  <2>3. superframePos' \in Positions /\ superframePos' = (1 + superframePos) % SuperframeBursts
    BY <2>1, <2>2, ProcessType
  <2>4. superframePos' = NextPos(superframePos)
    <3>1. 1 + superframePos = superframePos + 1
      BY <2>1 DEF Positions
    <3> QED
      BY <2>3, <3>1 DEF NextPos
  <2>5. CountedAt(to)' /\ BufferedAt(to)'
    BY <1>2, <2>1, <2>4 DEF CountedAt, BufferedAt
  <2>6. StrayInv' /\ MacInv'
    BY <1>2, <2>3 DEF StrayInv, MacInv, Counting, Positions
  <2>7. ASSUME OwnIdentity PROVE OwnIdentity'
    <3>1. CASE strayed
      BY <2>1, <3>1 DEF OwnIdentity
    <3>2. CASE ~strayed
      <4>1. superframePos = fp
        BY <1>2, <2>1, <3>2 DEF CountedAt
      <4>2. Lined(<<b>>, superframePos)
        <5>1. ASSUME NEW k \in DOMAIN <<b>>, <<b>>[k] # NoBurst
              PROVE  <<b>>[k].pos = (k - 1 + superframePos) % SuperframeBursts
          <6>1. k = 1 /\ <<b>>[k] = b
            OBVIOUS
          <6>2. k - 1 + superframePos = superframePos
            BY <2>1, <6>1 DEF Positions
          <6> QED
            BY <2>1, <4>1, <5>1, <6>1, <6>2, PositionMod
        <5> QED
          BY <5>1 DEF Lined
      <4>3. \A s \in Slots : mac[s] \in {s, NoCall}
        BY <2>7, <3>2 DEF OwnIdentity
      <4>4. \A s \in Slots : mac'[s] \in {s, NoCall}
        BY <2>1, <2>2, <4>2, <4>3, ProcessOwn
      <4> QED
        BY <4>4 DEF OwnIdentity
    <3> QED
      BY <3>1, <3>2
  <2> QED
    BY <2>5, <2>6, <2>7
<1> QED
  BY <1>4, <1>5, <1>6, <1>7 DEF Completed

-----------------------------------------------------------------------------
(* The steps.                                                              *)

DecoderSame ==
    UNCHANGED <<superframePos, syncBuf, mac>>

\* At a sync the framer is where the air is; the counter is right after it if the slip was
\* harmless, and else has strayed.
LEMMA SyncedStep ==
  ASSUME SFInv, Advance, idx + 1 = SyncDibits, Synced, burst' \in {onAir, NoBurst},
         burstIdx' = SyncDibits, collecting' = TRUE, DecoderSame
  PROVE  /\ PlaceInv' /\ StrayInv' /\ MacInv'
         /\ strayed' \in BOOLEAN
         /\ OwnIdentity => OwnIdentity'
<1> USE DEF SFInv, SFTypeOK, DecoderSame
<1>1. idx' = SyncDibits /\ onAir' = onAir /\ net' = 0
  BY SuperframeParams DEF Advance, Synced
<1>2. PICK here \in Positions : here = onAir.pos
  BY ModesDiffer
<1>3. strayed' \in BOOLEAN /\ (strayed' <=> Counting /\ (strayed \/ ~Harmless))
  BY DEF Synced, Counting, Harmless
<1>4. Counting => collecting
  BY DEF Counting, IdleInv
<1>5. Placed(here)'
  BY <1>1, <1>2, SuperframeParams DEF Placed
<1>6. CollectedAt(here)'
  BY <1>1, <1>2 DEF CollectedAt
<1>7. ASSUME ~strayed', Counting
      PROVE  CountedAt(here)' /\ BufferedAt(here)'
  <2>1. ~strayed /\ Harmless /\ collecting
    BY <1>3, <1>4, <1>7
  <2>2. PICK fp \in Positions : Placed(fp) /\ CountedAt(fp) /\ BufferedAt(fp)
    BY <2>1 DEF PlaceInv
  <2>3. fp = here
    BY <1>2, <2>1, <2>2, HarmlessHere
  <2> QED
    BY <2>1, <2>2, <2>3 DEF CountedAt, BufferedAt
<1>8. CountedAt(here)' /\ BufferedAt(here)'
  BY <1>7 DEF CountedAt, BufferedAt, Counting
<1>9. PlaceInv'
  BY <1>5, <1>6, <1>8 DEF PlaceInv
<1>10. StrayInv' /\ MacInv'
  BY <1>3 DEF StrayInv, MacInv, Counting
<1>11. OwnIdentity => OwnIdentity'
  <2>1. CASE Counting
    BY <1>3, <2>1 DEF OwnIdentity
  <2>2. CASE ~Counting
    <3>1. superframePos < 0
      BY <2>2 DEF Counting, Positions
    <3> QED
      BY <3>1 DEF OwnIdentity, MacInv
  <2> QED
    BY <2>1, <2>2
<1> QED
  BY <1>3, <1>9, <1>10, <1>11

\* The count of dibits that open a burst, when another of the air has come.
LEMMA AccumHere ==
  ASSUME SFTypeOK, NEW acc,
         acc = IF idx = 0 THEN 1 ELSE IF accum = idx THEN idx + 1 ELSE 0
  PROVE  /\ acc \in 0..BurstDibits
         /\ acc # 0 => acc = idx + 1 /\ (idx = 0 \/ accum = idx)
         /\ IsSync(acc) => idx + 1 = SyncDibits
BY SuperframeParams DEF SFTypeOK, IsSync

\* A dibit collected in order is collected as part of the burst.
LEMMA TakenInOrder ==
  ASSUME SFInv, collecting, burstIdx = idx, idx = 0 \/ accum = idx
  PROVE  Taken(FALSE) = onAir
BY DEF SFInv, SFTypeOK, InOrder, Taken, Opens

\* What a dibit that completes a burst does, from the air or made up.
LEMMA CompleteStep ==
  ASSUME SFInv, NEW acc, NEW made \in BOOLEAN, NEW n \in (-MaxLost)..MaxAdded,
         Complete(acc, made, n), accum' \in 0..BurstDibits,
         \/ Advance /\ n = net
         \/ UNCHANGED airVars /\ n = net + 1
  PROVE  SFInv' /\ (OwnIdentity => OwnIdentity')
<1> USE DEF SFInv
<1>1. /\ burst' = NoBurst /\ burstIdx' = 0 /\ net' = n /\ burstIdx + 1 = BurstDibits
      /\ collecting = TRUE /\ collecting' = TRUE /\ hasMask' = hasMask
      /\ Completed(Taken(made))
  BY DEF Complete, Completed, SFTypeOK
<1>2. PICK fp \in Positions : Placed(fp) /\ CollectedAt(fp) /\ CountedAt(fp) /\ BufferedAt(fp)
  BY <1>1 DEF PlaceInv
<1>3. PICK to \in Positions : to = NextPos(fp)
  BY NextPosType
<1>4. PICK b \in Burst \cup {NoBurst} : b = Taken(made) /\ (b # NoBurst => b.pos = fp)
  BY <1>2, TakenHere
<1>5. Completed(b)
  BY <1>1, <1>4
<1>6. onAir' \in Burst /\ idx' \in 0..(BurstDibits - 1)
  BY AdvanceType DEF SFTypeOK, airVars
<1>7. SFTypeOK'
  <2>1. /\ superframePos' \in Positions \cup {-1}
        /\ syncBuf' \in Seq(Burst \cup {NoBurst}) /\ Len(syncBuf') < SyncBurstCount
        /\ syncBuf' # <<>> => hasMask' /\ superframePos' = -1
        /\ mac' \in [Slots -> Slots \cup {NoCall}]
        /\ strayed' \in BOOLEAN
    BY <1>1, <1>5, CompletedType
  <2>2. burstIdx' \in 0..(BurstDibits - 1) /\ hasMask' \in BOOLEAN
    BY <1>1, SuperframeParams DEF SFTypeOK
  <2> QED
    BY <1>1, <1>6, <2>1, <2>2 DEF SFTypeOK
<1>8. /\ CountedAt(to)' /\ BufferedAt(to)' /\ StrayInv' /\ MacInv'
      /\ OwnIdentity => OwnIdentity'
  BY <1>1, <1>2, <1>3, <1>4, <1>5, CompletedPlace
<1>9. Placed(NextPos(fp))'
  BY <1>1, <1>2, PlaceNext
<1>10. Placed(to)' /\ CollectedAt(to)'
  BY <1>1, <1>3, <1>9 DEF Placed, CollectedAt, NextPos
<1>11. PlaceInv'
  BY <1>8, <1>10 DEF PlaceInv
<1>12. IdleInv' /\ InOrder'
  BY <1>1 DEF IdleInv, InOrder
<1> QED
  BY <1>7, <1>8, <1>11, <1>12

\* What a dibit within a burst does, where there is no sync.
LEMMA CollectStep ==
  ASSUME SFInv, NEW acc \in 0..BurstDibits, NEW made \in BOOLEAN,
         NEW n \in (-MaxLost)..MaxAdded,
         Collect(acc, made, n), ~IsSync(acc), accum' = acc,
         \/ /\ Advance /\ n = net /\ made = FALSE
            /\ acc # 0 => acc = idx + 1 /\ (idx = 0 \/ accum = idx)
         \/ UNCHANGED airVars /\ n = net + 1 /\ acc = 0
  PROVE  SFInv' /\ (OwnIdentity => OwnIdentity')
<1> USE DEF SFInv
<1>1. /\ burst' = Taken(made) /\ burstIdx' = burstIdx + 1 /\ net' = n
      /\ burstIdx + 1 < BurstDibits /\ collecting = TRUE /\ collecting' = TRUE
      /\ UNCHANGED decoderVars /\ strayed' = strayed
  BY DEF Collect, SFTypeOK
<1>2. PICK fp \in Positions : Placed(fp) /\ CollectedAt(fp) /\ CountedAt(fp) /\ BufferedAt(fp)
  BY <1>1 DEF PlaceInv
<1>3. burst' \in Burst \cup {NoBurst} /\ (burst' # NoBurst => burst'.pos = fp)
  BY <1>1, <1>2, TakenHere
<1>4. onAir' \in Burst /\ idx' \in 0..(BurstDibits - 1)
  BY AdvanceType DEF SFTypeOK, airVars
<1>5. burstIdx' \in 0..(BurstDibits - 1) /\ burstIdx' # 0
  BY <1>1, SuperframeParams DEF SFTypeOK
<1>6. SFTypeOK'
  BY <1>1, <1>3, <1>4, <1>5 DEF SFTypeOK, decoderVars
<1>7. Placed(fp)'
  BY <1>1, <1>2, <1>5, PlaceKept
<1>8. PlaceInv'
  <2>1. CollectedAt(fp)' /\ CountedAt(fp)' /\ BufferedAt(fp)'
    BY <1>1, <1>2, <1>3 DEF CollectedAt, CountedAt, BufferedAt, decoderVars
  <2> QED
    BY <1>7, <2>1 DEF PlaceInv
<1>9. IdleInv' /\ StrayInv' /\ MacInv' /\ (OwnIdentity => OwnIdentity')
  BY <1>1 DEF IdleInv, StrayInv, MacInv, OwnIdentity, Counting, decoderVars
<1>10. ASSUME idx' > 0, accum' = idx', burstIdx' = idx'
       PROVE  burst' = onAir'
  <2>1. Advance /\ made = FALSE /\ acc = idx + 1 /\ (idx = 0 \/ accum = idx)
    BY <1>4, <1>10
  <2>2. idx' = idx + 1 /\ onAir' = onAir
    BY <1>10, <2>1 DEF Advance
  <2>3. burstIdx = idx
    BY <1>1, <1>10, <2>2 DEF SFTypeOK
  <2> QED
    BY <1>1, <2>1, <2>2, <2>3, TakenInOrder
<1> QED
  BY <1>6, <1>8, <1>9, <1>10 DEF InOrder

\* A dibit of the air.
LEMMA ReceiveStep ==
  ASSUME SFInv, Receive
  PROVE  SFInv' /\ (OwnIdentity => OwnIdentity')
<1> USE DEF SFInv
<1>1. PICK acc : acc = IF idx = 0 THEN 1 ELSE IF accum = idx THEN idx + 1 ELSE 0
  OBVIOUS
<1>2. /\ acc \in 0..BurstDibits
      /\ acc # 0 => acc = idx + 1 /\ (idx = 0 \/ accum = idx)
      /\ IsSync(acc) => idx + 1 = SyncDibits
  BY <1>1, AccumHere
<1>3. Advance /\ accum' = acc
  BY <1>1 DEF Receive, Feed
<1>4. Align(acc) \/ Searching(acc) \/ Collect(acc, FALSE, net) \/ Complete(acc, FALSE, net)
  BY <1>1 DEF Receive, Feed
<1>5. onAir' \in Burst /\ idx' \in 0..(BurstDibits - 1)
  BY <1>3, AdvanceType
<1>6. CASE IsSync(acc) /\ (Align(acc) \/ Collect(acc, FALSE, net))
  <2>1. /\ burst' \in {onAir, NoBurst} /\ burstIdx' = SyncDibits /\ collecting' = TRUE
        /\ Synced /\ UNCHANGED decoderVars
    <3>1. CASE Align(acc)
      BY <3>1 DEF Align
    <3>2. CASE Collect(acc, FALSE, net)
      BY <1>6, <3>2 DEF Collect, Realigns, Taken, SFTypeOK
    <3> QED
      BY <1>6, <3>1, <3>2
  <2>2. idx + 1 = SyncDibits /\ DecoderSame
    BY <1>2, <1>6, <2>1 DEF DecoderSame, decoderVars
  <2>3. /\ PlaceInv' /\ StrayInv' /\ MacInv'
        /\ strayed' \in BOOLEAN
        /\ OwnIdentity => OwnIdentity'
    BY <1>3, <2>1, <2>2, SyncedStep
  <2>4. SFTypeOK'
    <3>1. burstIdx' \in 0..(BurstDibits - 1) /\ burstIdx' # 0 /\ net' = 0
      BY <2>1, SuperframeParams DEF Synced
    <3>2. net' \in (-MaxLost)..MaxAdded
      BY <3>1, SuperframeParams
    <3> QED
      BY <1>2, <1>3, <1>5, <2>1, <2>3, <3>1, <3>2 DEF SFTypeOK, decoderVars
  <2>5. IdleInv'
    BY <2>1 DEF IdleInv
  <2>6. InOrder'
    <3>1. onAir' = onAir /\ idx' = SyncDibits
      BY <1>3, <2>2, SuperframeParams DEF Advance
    <3>2. CASE Align(acc)
      BY <3>1, <3>2 DEF Align, InOrder
    <3>3. CASE Collect(acc, FALSE, net)
      <4>1. collecting /\ burstIdx = idx /\ burst' = Taken(FALSE)
        BY <1>6, <2>1, <2>2, <3>3 DEF Collect, SFTypeOK
      <4>2. idx = 0 \/ accum = idx
        BY <1>2, <1>6, SuperframeParams DEF IsSync
      <4> QED
        BY <3>1, <4>1, <4>2, TakenInOrder DEF InOrder
    <3> QED
      BY <1>6, <3>2, <3>3
  <2> QED
    BY <2>3, <2>4, <2>5, <2>6
<1>7. CASE ~IsSync(acc) /\ Collect(acc, FALSE, net)
  <2>1. net \in (-MaxLost)..MaxAdded
    BY DEF SFTypeOK
  <2> QED
    BY <1>2, <1>3, <1>7, <2>1, CollectStep
<1>8. CASE Complete(acc, FALSE, net)
  <2>1. net \in (-MaxLost)..MaxAdded
    BY DEF SFTypeOK
  <2> QED
    BY <1>2, <1>3, <1>8, <2>1, CompleteStep
<1>9. CASE Searching(acc)
  <2>1. /\ collecting' = FALSE /\ collecting = FALSE /\ burstIdx' = burstIdx /\ burst' = burst
        /\ UNCHANGED decoderVars /\ net' = net /\ strayed' = strayed
    BY <1>9 DEF Searching, SFTypeOK
  <2>2. SFTypeOK'
    BY <1>2, <1>3, <1>5, <2>1 DEF SFTypeOK, decoderVars
  <2>3. PlaceInv' /\ InOrder'
    BY <2>1 DEF PlaceInv, InOrder
  <2>4. IdleInv' /\ StrayInv' /\ MacInv' /\ (OwnIdentity => OwnIdentity')
    BY <2>1 DEF IdleInv, StrayInv, MacInv, OwnIdentity, Counting, decoderVars
  <2> QED
    BY <2>2, <2>3, <2>4
<1> QED
  BY <1>4, <1>6, <1>7, <1>8, <1>9 DEF Align, Realigns

\* A dibit that is made up.
LEMMA AddStep ==
  ASSUME SFInv, Add
  PROVE  SFInv' /\ (OwnIdentity => OwnIdentity')
<1> USE DEF SFInv
<1>1. ~IsSync(0) /\ 0 \in 0..BurstDibits
  BY SuperframeParams DEF IsSync
<1>2. net + 1 \in (-MaxLost)..MaxAdded
  BY SuperframeParams DEF Add, SFTypeOK
<1>3. UNCHANGED airVars /\ accum' = 0
  BY DEF Add, Feed
<1>4. CASE Collect(0, TRUE, net + 1)
  BY <1>1, <1>2, <1>3, <1>4, CollectStep
<1>5. CASE Complete(0, TRUE, net + 1)
  BY <1>1, <1>2, <1>3, <1>5, CompleteStep
<1>6. CASE Searching(0)
  <2>1. /\ collecting' = FALSE /\ collecting = FALSE /\ burstIdx' = burstIdx /\ burst' = burst
        /\ UNCHANGED decoderVars /\ net' = net /\ strayed' = strayed
    BY <1>6 DEF Searching, SFTypeOK
  <2>2. SFTypeOK'
    BY <1>1, <1>3, <2>1 DEF SFTypeOK, airVars, decoderVars
  <2>3. PlaceInv' /\ InOrder'
    BY <2>1 DEF PlaceInv, InOrder
  <2>4. IdleInv' /\ StrayInv' /\ MacInv' /\ (OwnIdentity => OwnIdentity')
    BY <2>1 DEF IdleInv, StrayInv, MacInv, OwnIdentity, Counting, decoderVars
  <2> QED
    BY <2>2, <2>3, <2>4
<1> QED
  BY <1>1, <1>4, <1>5, <1>6 DEF Add, Feed, Align, Realigns

\* A dibit that is lost.
LEMMA LoseStep ==
  ASSUME SFInv, Lose
  PROVE  SFInv' /\ (OwnIdentity => OwnIdentity')
<1> USE DEF SFInv
<1>1. /\ Advance /\ accum' = 0 /\ net > -MaxLost
      /\ net' = IF collecting THEN net - 1 ELSE net
      /\ UNCHANGED <<collecting, burstIdx, burst, decoderVars, strayed>>
  BY DEF Lose
<1>2. onAir' \in Burst /\ idx' \in 0..(BurstDibits - 1)
  BY <1>1, AdvanceType
<1>3. SFTypeOK'
  <2>1. net' \in (-MaxLost)..MaxAdded /\ 0 \in 0..BurstDibits
    BY <1>1, SuperframeParams DEF SFTypeOK
  <2> QED
    BY <1>1, <1>2, <2>1 DEF SFTypeOK, decoderVars
<1>4. PlaceInv'
  <2>1. CASE collecting
    <3>1. PICK fp \in Positions : Placed(fp) /\ CollectedAt(fp) /\ CountedAt(fp) /\ BufferedAt(fp)
      BY <2>1 DEF PlaceInv
    <3>2. burstIdx' \in 0..(BurstDibits - 1) /\ burstIdx' = burstIdx /\ net' = net - 1
      BY <1>1, <2>1 DEF SFTypeOK
    <3>3. Placed(fp)'
      BY <1>1, <3>1, <3>2, PlaceKept
    <3>4. CollectedAt(fp)' /\ CountedAt(fp)' /\ BufferedAt(fp)'
      BY <1>1, <3>1 DEF CollectedAt, CountedAt, BufferedAt, decoderVars
    <3> QED
      BY <3>3, <3>4 DEF PlaceInv
  <2>2. CASE ~collecting
    BY <1>1, <2>2 DEF PlaceInv
  <2> QED
    BY <2>1, <2>2
<1>5. IdleInv' /\ StrayInv' /\ MacInv' /\ (OwnIdentity => OwnIdentity')
  BY <1>1 DEF IdleInv, StrayInv, MacInv, OwnIdentity, Counting, decoderVars
<1>6. InOrder'
  BY <1>1 DEF InOrder
<1> QED
  BY <1>3, <1>4, <1>5, <1>6

LEMMA SFInitInv == SFInit => SFInv /\ OwnIdentity
<1> SUFFICES ASSUME SFInit PROVE SFInv /\ OwnIdentity
  OBVIOUS
<1>1. onAir \in Burst
  BY SuperframeParams DEF SFInit, Burst
<1>2. SFTypeOK
  <2>1. 0 \in 0..(BurstDibits - 1) /\ 0 \in 0..BurstDibits /\ 0 \in (-MaxLost)..MaxAdded
    BY SuperframeParams
  <2>2. <<>> \in Seq(Burst \cup {NoBurst}) /\ Len(<<>>) < SyncBurstCount
    BY SuperframeParams
  <2> QED
    BY <1>1, <2>1, <2>2 DEF SFInit, SFTypeOK
<1>3. PlaceInv /\ IdleInv /\ StrayInv /\ MacInv /\ InOrder /\ OwnIdentity
  BY DEF SFInit, PlaceInv, IdleInv, StrayInv, MacInv, InOrder, OwnIdentity
<1> QED
  BY <1>2, <1>3 DEF SFInv

LEMMA SFStep ==
  ASSUME SFInv, [SFNext]_vars
  PROVE  SFInv' /\ (OwnIdentity => OwnIdentity')
<1>1. CASE SetScrambleParams
  <2>1. hasMask' = TRUE /\ UNCHANGED <<airVars, framerVars, superframePos, syncBuf, mac, net, strayed>>
    BY <1>1 DEF SetScrambleParams
  <2>2. SFTypeOK' /\ IdleInv' /\ StrayInv' /\ MacInv' /\ InOrder'
    BY <2>1 DEF SFInv, SFTypeOK, IdleInv, StrayInv, MacInv, InOrder, Counting, airVars, framerVars
  <2>3. PlaceInv'
    BY <2>1 DEF SFInv, PlaceInv, Placed, CollectedAt, CountedAt, BufferedAt, airVars, framerVars
  <2>4. OwnIdentity => OwnIdentity'
    BY <2>1 DEF OwnIdentity
  <2> QED
    BY <2>2, <2>3, <2>4 DEF SFInv
<1>2. CASE Reset
  <2>1. /\ accum' = 0 /\ collecting' = FALSE /\ burstIdx' = 0 /\ burst' = NoBurst
        /\ superframePos' = -1 /\ syncBuf' = <<>>
        /\ mac' = [s \in Slots |-> NoCall]
        /\ net' = 0 /\ strayed' = FALSE
        /\ UNCHANGED <<airVars, hasMask>>
    BY <1>2 DEF Reset
  <2>2. SFTypeOK'
    <3>1. 0 \in 0..(BurstDibits - 1) /\ 0 \in 0..BurstDibits /\ 0 \in (-MaxLost)..MaxAdded
      BY SuperframeParams
    <3>2. <<>> \in Seq(Burst \cup {NoBurst}) /\ Len(<<>>) < SyncBurstCount
      BY SuperframeParams
    <3> QED
      BY <2>1, <3>1, <3>2 DEF SFInv, SFTypeOK, airVars
  <2>3. PlaceInv' /\ IdleInv' /\ StrayInv' /\ MacInv' /\ InOrder' /\ OwnIdentity'
    BY <2>1 DEF PlaceInv, IdleInv, StrayInv, MacInv, InOrder, OwnIdentity
  <2> QED
    BY <2>2, <2>3 DEF SFInv
<1>3. CASE UNCHANGED vars
  <2> USE <1>3 DEF vars, airVars, framerVars, decoderVars
  <2>1. SFTypeOK' /\ IdleInv' /\ StrayInv' /\ MacInv' /\ InOrder'
    BY DEF SFInv, SFTypeOK, IdleInv, StrayInv, MacInv, InOrder, Counting
  <2>2. PlaceInv'
    BY DEF SFInv, PlaceInv, Placed, CollectedAt, CountedAt, BufferedAt
  <2> QED
    BY <2>1, <2>2 DEF SFInv, OwnIdentity
<1> QED
  BY <1>1, <1>2, <1>3, ReceiveStep, AddStep, LoseStep DEF SFNext

LEMMA SFInvariant == SFSpec => [](SFInv /\ OwnIdentity)
<1>1. SFInv /\ OwnIdentity /\ [SFNext]_vars => (SFInv /\ OwnIdentity)'
  BY SFStep
<1> QED
  BY SFInitInv, <1>1, PTL DEF SFSpec

-----------------------------------------------------------------------------
(* Theorems.                                                               *)

\* The framer's counts and the decoder's buffer stay within a burst and within
\* syncBurstCount, and nothing is buffered once there is a position (framer.go:12-34,
\* decoder.go:83-110).
THEOREM SFTypeInv == SFSpec => []SFTypeOK
BY SFInvariant, PTL DEF SFInv

\* The counter is the position of the burst being collected, through slips that cost no
\* burst and through the reprocessing of the buffered ones (decoder.go:94-109, 125-132).
THEOREM PositionHeldInv == SFSpec => []PositionHeld
<1>1. SFInv => PositionHeld
  <2> SUFFICES ASSUME SFInv, superframePos >= 0, ~strayed, burst # NoBurst
               PROVE  superframePos = burst.pos
    BY DEF PositionHeld
  <2>1. collecting
    BY DEF SFInv, IdleInv
  <2>2. PICK fp \in Positions : CollectedAt(fp) /\ CountedAt(fp)
    BY <2>1 DEF SFInv, PlaceInv
  <2> QED
    BY <2>2 DEF CollectedAt, CountedAt
<1> QED
  BY <1>1, SFInvariant, PTL

\* A slot never takes on the identity of the other slot's call, whatever is lost and
\* made up as long as the bursts are counted right (decoder.go:125-159, tdma.go:283-331).
THEOREM OwnIdentityInv == SFSpec => []OwnIdentity
BY SFInvariant, PTL

\* From every clean sync on, the framer collects the burst that it opens
\* (framer.go:36-43).
THEOREM OnSyncProp == SFSpec => OnSync
<1>1. SFInv /\ [SFNext]_vars =>
        [IsSync(accum') /\ accum' # accum => burst' = onAir /\ burstIdx' = SyncDibits]_vars
  <2> SUFFICES ASSUME SFInv, SFNext, IsSync(accum'), accum' # accum
               PROVE  burst' = onAir /\ burstIdx' = SyncDibits
    OBVIOUS
  <2>1. accum' = SyncDibits /\ SyncDibits # 0
    BY SuperframeParams DEF IsSync
  <2>2. Receive
    BY <2>1 DEF SFNext, Lose, Add, Feed, SetScrambleParams, Reset, framerVars
  <2>3. PICK acc : acc = IF idx = 0 THEN 1 ELSE IF accum = idx THEN idx + 1 ELSE 0
    OBVIOUS
  <2>4. accum' = acc
    BY <2>2, <2>3 DEF Receive, Feed
  <2>5. /\ acc = SyncDibits /\ acc = idx + 1 /\ (idx = 0 \/ accum = idx)
        /\ IsSync(acc)
    BY <2>1, <2>3, <2>4, AccumHere DEF SFInv
  <2>6. Align(acc) \/ Searching(acc) \/ Collect(acc, FALSE, net) \/ Complete(acc, FALSE, net)
    BY <2>2, <2>3 DEF Receive, Feed
  <2>7. CASE Align(acc)
    BY <2>7 DEF Align
  <2>8. CASE Collect(acc, FALSE, net)
    <3>1. collecting /\ burstIdx + 1 = SyncDibits /\ burst' = Taken(FALSE) /\ burstIdx' = burstIdx + 1
      BY <2>5, <2>8 DEF Collect, Realigns
    <3>2. burstIdx = idx
      BY <2>5, <3>1 DEF SFInv, SFTypeOK
    <3> QED
      BY <2>5, <3>1, <3>2, TakenInOrder
  <2>9. ~Searching(acc) /\ ~Complete(acc, FALSE, net)
    <3>1. ~Searching(acc)
      BY <2>5 DEF Searching, Realigns
    <3>2. ASSUME Complete(acc, FALSE, net) PROVE FALSE
      <4>1. burstIdx + 1 = BurstDibits /\ burstIdx + 1 = SyncDibits
        BY <2>5, <3>2 DEF Complete, Realigns
      <4> QED
        BY <4>1, SuperframeParams
    <3> QED
      BY <3>1, <3>2
  <2> QED
    BY <2>6, <2>7, <2>8, <2>9
<1> QED
  BY <1>1, SFInvariant, PTL DEF SFSpec, OnSync

\* A burst that carries an identity and is received whole gives it to its slot, whatever
\* slips and weak syncs there were before it (decoder.go:135-159).
THEOREM IdentifiedProp == SFSpec => Identified
<1>1. SFInv /\ [SFNext]_vars =>
        [/\ superframePos >= 0 /\ ~strayed
         /\ collecting' /\ burstIdx + 1 = BurstDibits /\ burstIdx' = 0
         /\ burst = onAir /\ accum' = BurstDibits /\ Carries(burst)
         => mac'[WhichSlot[burst.pos]] = WhichSlot[burst.pos]]_vars
  <2> SUFFICES ASSUME SFInv, SFNext, superframePos >= 0, ~strayed,
                      collecting', burstIdx + 1 = BurstDibits, burstIdx' = 0,
                      burst = onAir, accum' = BurstDibits, Carries(burst)
               PROVE  mac'[WhichSlot[burst.pos]] = WhichSlot[burst.pos]
    OBVIOUS
  <2>1. BurstDibits # 0 /\ burstIdx' # burstIdx /\ burst \in Burst /\ burst # NoBurst
    BY SuperframeParams, ModesDiffer DEF SFInv, SFTypeOK
  <2>2. Receive
    BY <2>1 DEF SFNext, Lose, Add, Feed, SetScrambleParams, Reset, framerVars
  <2>3. PICK acc : acc = IF idx = 0 THEN 1 ELSE IF accum = idx THEN idx + 1 ELSE 0
    OBVIOUS
  <2>4. acc = BurstDibits
    BY <2>2, <2>3 DEF Receive, Feed
  <2>5. Align(acc) \/ Searching(acc) \/ Collect(acc, FALSE, net) \/ Complete(acc, FALSE, net)
    BY <2>2, <2>3 DEF Receive, Feed
  <2>6. ~Align(acc) /\ ~Searching(acc) /\ ~Collect(acc, FALSE, net)
    <3>1. ~Align(acc)
      BY SuperframeParams DEF Align
    <3>2. ~Searching(acc)
      BY <2>1 DEF Searching
    <3>3. ~Collect(acc, FALSE, net)
      BY <2>1, SuperframeParams DEF Collect
    <3> QED
      BY <3>1, <3>2, <3>3
  <2>7. collecting /\ (Buffer(Taken(FALSE)) \/ Unplaced \/ InPlace(Taken(FALSE)))
    BY <2>5, <2>6 DEF Complete
  <2>8. Taken(FALSE) = burst
    <3>1. acc = idx + 1
      BY <2>1, <2>3, <2>4, AccumHere DEF SFInv
    <3>2. burstIdx = idx
      BY <2>4, <3>1 DEF SFInv, SFTypeOK
    <3> QED
      BY <3>2 DEF Taken, Opens
  <2>9. superframePos = burst.pos
    <3>1. PICK fp \in Positions : CollectedAt(fp) /\ CountedAt(fp)
      BY <2>7 DEF SFInv, PlaceInv
    <3> QED
      BY <2>1, <3>1 DEF CollectedAt, CountedAt
  <2>10. ProcessBursts(<<burst>>, burst.pos)
    <3>1. ~(superframePos < 0)
      BY DEF SFInv, SFTypeOK, Positions
    <3> QED
      BY <2>7, <2>8, <2>9, <3>1 DEF Buffer, Unplaced, InPlace
  <2> QED
    BY <2>1, <2>10, ProcessCarries
<1> QED
  BY <1>1, SFInvariant, PTL DEF SFSpec, Identified
=============================================================================
