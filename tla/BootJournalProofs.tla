-------------------------- MODULE BootJournalProofs --------------------------
(***************************************************************************)
(* The journal keeps JournalInv for every number of cells, every set of    *)
(* boot states and every history of failures, and therefore implements     *)
(* the atomic register of BootRegister.                                    *)
(***************************************************************************)
EXTENDS BootJournal, WellFoundedInduction, TLAPS

(* The ring of sequence numbers.                                           *)

\* The distance of the uint32_t subtraction is a point of the ring.
LEMMA SeqDistType ==
    ASSUME NEW a \in SeqNums, NEW b \in SeqNums
    PROVE  SeqDist(a, b) \in SeqNums
BY HalfSeqAssumption DEF SeqDist, SeqNums, SeqMod

\* Distances add up as long as they do not go round the ring.
LEMMA SeqDistAdds ==
    ASSUME NEW a \in SeqNums, NEW b \in SeqNums, NEW c \in SeqNums,
           SeqDist(a, b) + SeqDist(b, c) < SeqMod
    PROVE  SeqDist(a, c) = SeqDist(a, b) + SeqDist(b, c)
BY HalfSeqAssumption DEF SeqDist, SeqNums, SeqMod

\* sequence_is_newer never holds both ways, so a record that is ahead by less
\* than half the ring is not also behind.
LEMMA NewerIsAsymmetric ==
    ASSUME NEW a \in SeqNums, NEW b \in SeqNums, IsNewer(a, b)
    PROVE  ~IsNewer(b, a)
BY HalfSeqAssumption DEF IsNewer, SeqDist, SeqNums, SeqMod

\* No sequence number is newer than itself.
LEMMA NewerIsIrreflexive ==
    ASSUME NEW a \in SeqNums
    PROVE  ~IsNewer(a, a)
BY HalfSeqAssumption DEF IsNewer, SeqDist, SeqNums, SeqMod

\* The counter after an increment is one ahead, across the wrap too.
LEMMA SuccIsAhead ==
    ASSUME NEW a \in SeqNums, HalfSeq > 1
    PROVE  /\ Succ(a) \in SeqNums
           /\ SeqDist(Succ(a), a) = 1
BY HalfSeqAssumption DEF Succ, SeqDist, SeqNums, SeqMod

-----------------------------------------------------------------------------
(* What the proofs use of the constants.                                   *)

Images == [Sectors -> [Cells -> CellContents]]

\* What the other facts use of the constants.
LEMMA Parameters ==
    /\ CellCount \in Nat \ {0}
    /\ HalfSeq \in Nat \ {0}
    /\ HalfSeq > 4 * CellCount
    /\ CallerLead = 2
    /\ SeqMod = 2 * HalfSeq
BY HalfSeqAssumption, JournalAssumption DEF CallerLead, SeqMod

\* The two blank cell contents are no records.
LEMMA BlanksAreNoRecords ==
    /\ Erased \notin Records
    /\ Torn \notin Records
    /\ Erased # Torn
    /\ Records \subseteq BootStates
BY JournalAssumption DEF Records, BootStates

-----------------------------------------------------------------------------
(* Distances between records.                                              *)

\* Being ahead is transitive, with the sum of the bounds.
LEMMA AheadIsTransitive ==
    ASSUME NEW r1 \in Records, NEW r2 \in Records, NEW r3 \in Records,
           NEW m \in Nat, NEW n \in Nat, NEW p \in Nat,
           Ahead(r2, r1, m), Ahead(r3, r2, n), m + n <= p, p < SeqMod
    PROVE  Ahead(r3, r1, p)
<1>1. /\ r1.sequence \in SeqNums
      /\ r2.sequence \in SeqNums
      /\ r3.sequence \in SeqNums
  BY DEF Records
<1>2. /\ SeqDist(r3.sequence, r2.sequence) \in 1 .. n
      /\ SeqDist(r2.sequence, r1.sequence) \in 1 .. m
  BY DEF Ahead
<1>3. SeqMod \in Nat
  BY Parameters
<1>4. SeqDist(r3.sequence, r2.sequence) + SeqDist(r2.sequence, r1.sequence) < SeqMod
  BY <1>2, <1>3
<1>5. SeqDist(r3.sequence, r1.sequence)
        = SeqDist(r3.sequence, r2.sequence) + SeqDist(r2.sequence, r1.sequence)
  BY <1>1, <1>4, SeqDistAdds
<1>6. QED
  BY <1>2, <1>5 DEF Ahead

\* A record that is ahead by less than half the ring is the newer one.
LEMMA AheadIsNewer ==
    ASSUME NEW r1 \in Records, NEW r2 \in Records, NEW n \in Nat,
           Ahead(r2, r1, n), n < HalfSeq
    PROVE  /\ IsNewer(r2.sequence, r1.sequence)
           /\ ~IsNewer(r1.sequence, r2.sequence)
<1>1. r1.sequence \in SeqNums /\ r2.sequence \in SeqNums
  BY DEF Records
<1>2. IsNewer(r2.sequence, r1.sequence)
  BY <1>1, Parameters DEF Ahead, IsNewer
<1>3. QED
  BY <1>1, <1>2, NewerIsAsymmetric

-----------------------------------------------------------------------------
(* Reading a journal that has a head.                                      *)

\* Two cells of the same rank are the same cell.
LEMMA RankIsInjective ==
    ASSUME NEW h \in Sectors, NEW s1 \in Sectors, NEW s2 \in Sectors,
           NEW c1 \in Cells, NEW c2 \in Cells
    PROVE  /\ Rank(h, s1, c1) \in 0 .. 2 * CellCount - 1
           /\ Rank(h, s1, c1) = Rank(h, s2, c2) => s1 = s2 /\ c1 = c2
BY Parameters DEF Rank, Sectors, Cells

\* A record of a higher rank is newer than one of a lower rank.
LEMMA RankOrdersRecords ==
    ASSUME NEW f \in Images, NEW h \in Sectors, InWriteOrder(f, h),
           NEW s1 \in Sectors, NEW s2 \in Sectors,
           NEW c1 \in Cells, NEW c2 \in Cells,
           HasRecord(f, s1, c1), HasRecord(f, s2, c2),
           Rank(h, s1, c1) < Rank(h, s2, c2)
    PROVE  /\ IsNewer(f[s2][c2].sequence, f[s1][c1].sequence)
           /\ ~IsNewer(f[s1][c1].sequence, f[s2][c2].sequence)
<1> DEFINE n == CallerLead * (Rank(h, s2, c2) - Rank(h, s1, c1))
<1>1. Ahead(f[s2][c2], f[s1][c1], n)
  BY DEF InWriteOrder
<1>2. n \in Nat /\ n < HalfSeq
  BY Parameters, RankIsInjective
<1>3. f[s1][c1] \in Records /\ f[s2][c2] \in Records
  BY DEF HasRecord
<1>4. QED
  BY <1>1, <1>2, <1>3, AheadIsNewer

\* The record of the highest rank is the newest.
LEMMA HighestIsNewest ==
    ASSUME NEW f \in Images, NEW h \in Sectors, InWriteOrder(f, h),
           NEW s \in Sectors, NEW c \in Cells, HasRecord(f, s, c),
           \A s2 \in Sectors, c2 \in Cells :
               HasRecord(f, s2, c2) => Rank(h, s2, c2) <= Rank(h, s, c)
    PROVE  IsNewest(f, s, c)
<1> SUFFICES ASSUME NEW s2 \in Sectors, NEW c2 \in Cells, HasRecord(f, s2, c2)
             PROVE  ~IsNewer(f[s2][c2].sequence, f[s][c].sequence)
  BY DEF IsNewest
<1>1. CASE Rank(h, s2, c2) < Rank(h, s, c)
  BY <1>1, RankOrdersRecords
<1>2. CASE Rank(h, s2, c2) = Rank(h, s, c)
  <2>1. f[s2][c2] = f[s][c] /\ f[s][c].sequence \in SeqNums
    BY <1>2, RankIsInjective DEF HasRecord, Records
  <2>2. QED
    BY <2>1, NewerIsIrreflexive
<1>3. QED
  BY <1>1, <1>2, RankIsInjective

\* The newest record lies in the head, above every other record.
LEMMA NewestIsHighest ==
    ASSUME NEW f \in Images, NEW h \in Sectors, IsHead(f, h),
           NEW s \in Sectors, NEW c \in Cells, IsNewest(f, s, c)
    PROVE  /\ s = h
           /\ \A s2 \in Sectors, c2 \in Cells :
                 HasRecord(f, s2, c2) => Rank(h, s2, c2) <= Rank(h, s, c)
<1>1. HasRecord(f, s, c) /\ InWriteOrder(f, h)
  BY DEF IsNewest, IsHead
<1>2. ASSUME NEW s2 \in Sectors, NEW c2 \in Cells, HasRecord(f, s2, c2),
             Rank(h, s2, c2) > Rank(h, s, c)
      PROVE  FALSE
  <2>1. IsNewer(f[s2][c2].sequence, f[s][c].sequence)
    BY <1>1, <1>2, RankOrdersRecords
  <2>2. QED
    BY <1>2, <2>1 DEF IsNewest
<1>3. \A s2 \in Sectors, c2 \in Cells :
         HasRecord(f, s2, c2) => Rank(h, s2, c2) <= Rank(h, s, c)
  BY <1>2, RankIsInjective
<1>4. s = h
  <2>1. PICK c2 \in Cells : HasRecord(f, h, c2)
    BY <1>1 DEF IsHead, NoRecord
  <2>2. Rank(h, h, c2) <= Rank(h, s, c)
    BY <1>3, <2>1
  <2>3. QED
    BY <2>2, Parameters DEF Rank, Cells
<1>5. QED
  BY <1>3, <1>4

\* A load of a journal that has a newest record returns that record.
LEMMA LoadIsNewest ==
    ASSUME NEW f \in Images, NEW h \in Sectors, IsHead(f, h),
           NEW s \in Sectors, NEW c \in Cells, IsNewest(f, s, c)
    PROVE  Load(f) = f[s][c]
<1>1. ~NoRecord(f)
  BY DEF IsNewest, NoRecord
<1>2. ASSUME NEW s2 \in Sectors, NEW c2 \in Cells, IsNewest(f, s2, c2)
      PROVE  f[s2][c2] = f[s][c]
  <2>1. HasRecord(f, s, c) /\ HasRecord(f, s2, c2)
    BY <1>2 DEF IsNewest
  <2>2. Rank(h, s2, c2) <= Rank(h, s, c)
    BY <2>1, NewestIsHighest
  <2>3. Rank(h, s, c) <= Rank(h, s2, c2)
    BY <1>2, <2>1, NewestIsHighest
  <2>4. QED
    BY <2>2, <2>3, RankIsInjective
<1>3. NewestRecords(f) = {f[s][c]}
  <2>1. <<s, c>> \in {k \in Sectors \X Cells : IsNewest(f, k[1], k[2])}
    OBVIOUS
  <2>2. f[s][c] \in NewestRecords(f)
    BY <2>1 DEF NewestRecords
  <2>3. \A r \in NewestRecords(f) : r = f[s][c]
    BY <1>2 DEF NewestRecords
  <2>4. QED
    BY <2>2, <2>3
<1>4. QED
  BY <1>1, <1>3 DEF Load

\* A nonempty set of natural numbers has a least element.
LEMMA LeastNatural ==
    ASSUME NEW T \in SUBSET Nat, T # {}
    PROVE  \E n \in T : \A k \in T : n <= k
<1> DEFINE Less == {k \in Nat \X Nat : k[1] < k[2]}
<1>1. IsWellFoundedOn(Less, Nat)
  BY NatLessThanWellFounded, Zenon DEF OpToRel
<1>2. PICK n \in T : \A k \in T : ~(<<k, n>> \in Less)
  <2> HIDE DEF Less
  <2>1. QED
    BY <1>1, WFMin
<1>3. \A k \in T : n <= k
  <2> SUFFICES ASSUME NEW k \in T PROVE n <= k
    OBVIOUS
  <2>1. k \in Nat /\ n \in Nat /\ <<k, n>> \notin Less
    BY <1>2
  <2>2. QED
    BY <2>1
<1>4. QED
  BY <1>3

\* A journal with a head and a record has a newest record.
LEMMA NewestExists ==
    ASSUME NEW f \in Images, NEW h \in Sectors, IsHead(f, h), ~NoRecord(f)
    PROVE  \E c \in Cells : IsNewest(f, h, c)
<1> DEFINE T == {n \in Nat : n < CellCount /\ HasRecord(f, h, CellCount - 1 - n)}
<1>1. PICK c0 \in Cells : HasRecord(f, h, c0)
  BY DEF IsHead
<1>2. CellCount - 1 - c0 \in T
  <2>1. CellCount - 1 - (CellCount - 1 - c0) = c0
    BY Parameters DEF Cells
  <2>2. QED
    BY <1>1, <2>1, Parameters DEF Cells
<1>3. T \in SUBSET Nat /\ T # {}
  BY <1>2
<1>4. PICK n \in T : \A k \in T : n <= k
  <2> HIDE DEF T
  <2>1. QED
    BY <1>3, LeastNatural
<1> DEFINE c == CellCount - 1 - n
<1>5. c \in Cells /\ HasRecord(f, h, c)
  BY Parameters DEF Cells
<1>6. ASSUME NEW d \in Cells, HasRecord(f, h, d)
      PROVE  d <= c
  <2>1. CellCount - 1 - (CellCount - 1 - d) = d
    BY Parameters DEF Cells
  <2>2. CellCount - 1 - d \in T
    BY <1>6, <2>1, Parameters DEF Cells
  <2>3. QED
    <3>1. n <= CellCount - 1 - d /\ n \in Nat
      BY <1>4, <2>2
    <3>2. d \in Int
      BY Parameters DEF Cells
    <3> HIDE DEF T
    <3>3. QED
      BY <3>1, <3>2, Parameters
<1>7. \A s2 \in Sectors, c2 \in Cells :
         HasRecord(f, s2, c2) => Rank(h, s2, c2) <= Rank(h, h, c)
  BY <1>5, <1>6, Parameters DEF Rank, Cells
<1>8. IsNewest(f, h, c)
  BY <1>5, <1>7, HighestIsNewest DEF IsHead
<1>9. QED
  BY <1>5, <1>8
-----------------------------------------------------------------------------
(* The single pass of boot_journal_load.                                   *)

\* Where the scan meets a cell, and which cell it meets there.
Position(s, c) == IF s = 0 THEN c + 1 ELSE CellCount + c + 1
CellAt(f, p) == f[(p - 1) \div CellCount][(p - 1) % CellCount]

\* One turn of the loop, and the candidates of its first n turns.
Better(f, best, p) ==
    IF /\ CellAt(f, p) \notin {Erased, Torn}
       /\ \/ best = NoState
          \/ IsNewer(CellAt(f, p).sequence, best.sequence)
    THEN CellAt(f, p) ELSE best

IsScan(f, scan, n) ==
    scan = [p \in 0 .. n |-> IF p = 0 THEN NoState ELSE Better(f, scan[p - 1], p)]

\* The quotient and the remainder of the loop are a sector and a cell.
LEMMA Division ==
    ASSUME NEW n \in 0 .. 2 * CellCount - 1
    PROVE  /\ n < CellCount => n \div CellCount = 0 /\ n % CellCount = n
           /\ n >= CellCount => n \div CellCount = 1 /\ n % CellCount = n - CellCount
BY Parameters, SMTT(60)

LEMMA EveryPositionIsACell ==
    ASSUME NEW f \in Images, NEW p \in 1 .. 2 * CellCount
    PROVE  \E s \in Sectors, c \in Cells : Position(s, c) = p /\ CellAt(f, p) = f[s][c]
<1>1. p - 1 \in 0 .. 2 * CellCount - 1
  BY Parameters
<1>2. CASE p - 1 < CellCount
  <2>1. CellAt(f, p) = f[0][p - 1]
    BY <1>1, <1>2, Division DEF CellAt
  <2>2. 0 \in Sectors /\ p - 1 \in Cells /\ Position(0, p - 1) = p
    BY <1>1, <1>2, Parameters DEF Sectors, Cells, Position
  <2>3. QED
    BY <2>1, <2>2
<1>3. CASE p - 1 >= CellCount
  <2>1. CellAt(f, p) = f[1][p - 1 - CellCount]
    BY <1>1, <1>3, Division DEF CellAt
  <2>2. /\ 1 \in Sectors /\ p - 1 - CellCount \in Cells
        /\ Position(1, p - 1 - CellCount) = p
    BY <1>1, <1>3, Parameters DEF Sectors, Cells, Position
  <2>3. QED
    BY <2>1, <2>2
<1>4. QED
  BY <1>1, <1>2, <1>3, Parameters

\* The loop has a candidate after each of its turns.
LEMMA ScanExists ==
    ASSUME NEW f
    PROVE  \A n \in Nat : \E scan : IsScan(f, scan, n)
<1> DEFINE Without == {n \in Nat : ~\E scan : IsScan(f, scan, n)}
<1> SUFFICES ASSUME Without # {} PROVE FALSE
  OBVIOUS
<1>1. PICK n \in Without : \A k \in Without : n <= k
  <2>1. Without \in SUBSET Nat
    OBVIOUS
  <2> HIDE DEF Without
  <2>2. QED
    BY <2>1, LeastNatural
<1>2. CASE n = 0
  <2> DEFINE scan == [p \in 0 .. 0 |-> NoState]
  <2>1. IsScan(f, scan, 0)
    BY DEF IsScan
  <2>2. QED
    BY <1>2, <2>1
<1>3. CASE n # 0
  <2>1. n \in Nat /\ n - 1 \in Nat /\ ~(n <= n - 1)
    BY <1>3
  <2>2. PICK scan : IsScan(f, scan, n - 1)
    BY <1>1, <2>1
  <2> DEFINE longer ==
        [p \in 0 .. n |-> IF p = n THEN Better(f, scan[n - 1], n) ELSE scan[p]]
  <2>3. \A p \in 0 .. n - 1 : longer[p] = scan[p]
    BY <2>1
  <2>4. ASSUME NEW p \in 0 .. n
        PROVE  longer[p] = IF p = 0 THEN NoState ELSE Better(f, longer[p - 1], p)
    <3>1. CASE p = n
      <4>1. n - 1 \in 0 .. n - 1
        BY <2>1
      <4>2. longer[p - 1] = scan[n - 1]
        BY <2>3, <3>1, <4>1
      <4>3. QED
        BY <1>3, <3>1, <4>2
    <3>2. CASE p # n
      <4>1. p \in 0 .. n - 1 /\ (p # 0 => p - 1 \in 0 .. n - 1)
        BY <2>1, <3>2
      <4>2. scan[p] = IF p = 0 THEN NoState ELSE Better(f, scan[p - 1], p)
        BY <2>2, <4>1 DEF IsScan
      <4>3. p # 0 => longer[p - 1] = scan[p - 1]
        BY <2>3, <4>1
      <4>4. longer[p] = scan[p]
        BY <2>3, <4>1
      <4> HIDE DEF longer
      <4>5. QED
        BY <4>2, <4>3, <4>4
    <3>3. QED
      BY <3>1, <3>2
  <2>5. IsScan(f, longer, n)
    <3>1. longer = [p \in 0 .. n |-> longer[p]]
      OBVIOUS
    <3> HIDE DEF longer
    <3>2. QED
      BY <2>4, <3>1 DEF IsScan
  <2>6. QED
    <3> HIDE DEF longer
    <3>1. QED
      BY <2>5
<1>4. QED
  BY <1>2, <1>3

\* ScanResult is the last candidate of such a loop.
LEMMA ScanEnds ==
    ASSUME NEW f
    PROVE  \E scan : /\ IsScan(f, scan, 2 * CellCount)
                     /\ ScanResult(f) = scan[2 * CellCount]
<1> DEFINE scan == CHOOSE g : IsScan(f, g, 2 * CellCount)
<1>1. 2 * CellCount \in Nat
  BY Parameters
<1>2. IsScan(f, scan, 2 * CellCount)
  BY <1>1, ScanExists
<1>3. ScanResult(f) = scan[2 * CellCount]
  BY DEF ScanResult, IsScan, Better, CellAt
<1>4. QED
  BY <1>2, <1>3

\* The candidate r is the record of the highest rank among the first p cells.
IsBest(f, h, r, p) ==
    \/ /\ r = NoState
       /\ \A s \in Sectors, c \in Cells : Position(s, c) <= p => ~HasRecord(f, s, c)
    \/ \E s \in Sectors, c \in Cells :
          /\ HasRecord(f, s, c) /\ Position(s, c) <= p
          /\ r = f[s][c]
          /\ \A s2 \in Sectors, c2 \in Cells :
                HasRecord(f, s2, c2) /\ Position(s2, c2) <= p
                => Rank(h, s2, c2) <= Rank(h, s, c)

\* A comparison with the best record so far is a comparison with all of them.
LEMMA ScanStep ==
    ASSUME NEW f \in Images, NEW h \in Sectors, InWriteOrder(f, h),
           NEW p \in 1 .. 2 * CellCount, NEW r, IsBest(f, h, r, p - 1)
    PROVE  IsBest(f, h, Better(f, r, p), p)
<1>1. PICK s \in Sectors, c \in Cells : Position(s, c) = p /\ CellAt(f, p) = f[s][c]
  BY EveryPositionIsACell
<1>2. ASSUME NEW s2 \in Sectors, NEW c2 \in Cells
      PROVE  /\ Position(s2, c2) <= p <=> Position(s2, c2) <= p - 1 \/ (s2 = s /\ c2 = c)
             /\ Rank(h, s2, c2) \in Int
  <2>1. /\ Position(s2, c2) \in Int /\ p \in Int
        /\ Position(s2, c2) = Position(s, c) => s2 = s /\ c2 = c
    BY Parameters DEF Position, Sectors, Cells
  <2>2. QED
    BY <1>1, <2>1, RankIsInjective
<1>3. HasRecord(f, s, c) <=> CellAt(f, p) \notin {Erased, Torn}
  <2>1. f[s][c] \in CellContents
    BY DEF Images
  <2>2. QED
    BY <1>1, <2>1, BlanksAreNoRecords DEF HasRecord, CellContents
<1>4. CASE ~HasRecord(f, s, c)
  <2>1. Better(f, r, p) = r
    BY <1>3, <1>4 DEF Better
  <2>2. QED
    BY <1>2, <1>4, <2>1 DEF IsBest
<1>5. CASE HasRecord(f, s, c) /\ r = NoState
  <2>1. Better(f, r, p) = f[s][c]
    BY <1>1, <1>3, <1>5 DEF Better
  <2>2. \A s2 \in Sectors, c2 \in Cells : Position(s2, c2) <= p - 1 => ~HasRecord(f, s2, c2)
    BY <1>5, JournalAssumption, BlanksAreNoRecords DEF IsBest, HasRecord
  <2>3. QED
    BY <1>2, <1>5, <2>1, <2>2 DEF IsBest
<1>6. CASE HasRecord(f, s, c) /\ r # NoState
  <2>1. PICK s1 \in Sectors, c1 \in Cells :
           /\ HasRecord(f, s1, c1) /\ Position(s1, c1) <= p - 1
           /\ r = f[s1][c1]
           /\ \A s2 \in Sectors, c2 \in Cells :
                 HasRecord(f, s2, c2) /\ Position(s2, c2) <= p - 1
                 => Rank(h, s2, c2) <= Rank(h, s1, c1)
    BY <1>6 DEF IsBest
  <2>2. CASE Rank(h, s1, c1) < Rank(h, s, c)
    <3>1. Better(f, r, p) = f[s][c]
      BY <1>1, <1>3, <1>6, <2>1, <2>2, RankOrdersRecords DEF Better
    <3>2. ASSUME NEW s2 \in Sectors, NEW c2 \in Cells,
                 HasRecord(f, s2, c2), Position(s2, c2) <= p
          PROVE  Rank(h, s2, c2) <= Rank(h, s, c)
      BY <1>2, <2>1, <2>2, <3>2
    <3>3. Position(s, c) <= p
      BY <1>2
    <3>4. QED
      BY <1>6, <3>1, <3>2, <3>3 DEF IsBest
  <2>3. CASE Rank(h, s, c) <= Rank(h, s1, c1)
    <3>1. <<s, c>> # <<s1, c1>>
      BY <1>1, <2>1, Parameters DEF Position, Cells, Sectors
    <3>2. Rank(h, s, c) < Rank(h, s1, c1)
      BY <1>2, <2>3, <3>1, RankIsInjective
    <3>3. Better(f, r, p) = r
      BY <1>1, <1>6, <2>1, <3>2, RankOrdersRecords DEF Better
    <3>4. \A s2 \in Sectors, c2 \in Cells :
             HasRecord(f, s2, c2) /\ Position(s2, c2) <= p
             => Rank(h, s2, c2) <= Rank(h, s1, c1)
      BY <1>2, <2>1, <2>3
    <3>5. Position(s1, c1) <= p
      BY <1>2, <2>1
    <3>6. QED
      BY <2>1, <3>3, <3>4, <3>5 DEF IsBest
  <2>4. QED
    BY <1>2, <2>2, <2>3
<1>7. QED
  BY <1>4, <1>5, <1>6

\* Every candidate is the best of the cells that were read.
LEMMA ScanKeepsBest ==
    ASSUME NEW f \in Images, NEW h \in Sectors, InWriteOrder(f, h),
           NEW scan, IsScan(f, scan, 2 * CellCount)
    PROVE  \A p \in 0 .. 2 * CellCount : IsBest(f, h, scan[p], p)
<1> DEFINE Wrong == {p \in 0 .. 2 * CellCount : ~IsBest(f, h, scan[p], p)}
<1>1. \A p \in 0 .. 2 * CellCount :
         scan[p] = IF p = 0 THEN NoState ELSE Better(f, scan[p - 1], p)
  BY DEF IsScan
<1> SUFFICES ASSUME Wrong # {} PROVE FALSE
  OBVIOUS
<1>2. PICK p \in Wrong : \A k \in Wrong : p <= k
  <2>1. Wrong \in SUBSET Nat
    BY Parameters
  <2> HIDE DEF Wrong
  <2>2. QED
    BY <2>1, LeastNatural
<1>3. CASE p = 0
  <2>1. scan[0] = NoState
    BY <1>1, <1>3
  <2>2. \A s \in Sectors, c \in Cells : ~(Position(s, c) <= 0)
    BY Parameters DEF Position, Cells, Sectors
  <2>3. IsBest(f, h, scan[0], 0)
    BY <2>1, <2>2 DEF IsBest
  <2>4. QED
    BY <1>3, <2>3
<1>4. CASE p # 0
  <2>1. p \in 1 .. 2 * CellCount /\ p - 1 \in 0 .. 2 * CellCount /\ ~(p <= p - 1)
    BY <1>4, Parameters
  <2>2. IsBest(f, h, scan[p - 1], p - 1)
    BY <1>2, <2>1
  <2>3. scan[p] = Better(f, scan[p - 1], p)
    BY <1>1, <1>4, <2>1
  <2>4. IsBest(f, h, scan[p], p)
    BY <2>1, <2>2, <2>3, ScanStep
  <2>5. QED
    BY <2>4
<1>5. QED
  BY <1>3, <1>4

\* The one pass over a journal with a head ends with the record that
\* boot_journal_load is to return.
LEMMA ScanIsLoad ==
    ASSUME NEW f \in Images, NEW h \in Sectors, IsHead(f, h)
    PROVE  ScanResult(f) = Load(f)
<1>1. PICK scan : /\ IsScan(f, scan, 2 * CellCount)
                  /\ ScanResult(f) = scan[2 * CellCount]
  BY ScanEnds
<1>2. InWriteOrder(f, h) /\ 2 * CellCount \in 0 .. 2 * CellCount
  BY Parameters DEF IsHead
<1>3. IsBest(f, h, ScanResult(f), 2 * CellCount)
  BY <1>1, <1>2, ScanKeepsBest
<1>4. \A s \in Sectors, c \in Cells : Position(s, c) <= 2 * CellCount
  BY Parameters DEF Position, Cells, Sectors
<1>5. CASE /\ ScanResult(f) = NoState
           /\ \A s \in Sectors, c \in Cells : ~HasRecord(f, s, c)
  BY <1>5 DEF Load, NoRecord
<1>6. ASSUME NEW s \in Sectors, NEW c \in Cells,
             HasRecord(f, s, c), ScanResult(f) = f[s][c],
             \A s2 \in Sectors, c2 \in Cells :
                 HasRecord(f, s2, c2) => Rank(h, s2, c2) <= Rank(h, s, c)
      PROVE  ScanResult(f) = Load(f)
  <2>1. IsNewest(f, s, c)
    BY <1>2, <1>6, HighestIsNewest
  <2>2. QED
    BY <1>6, <2>1, LoadIsNewest
<1>7. QED
  BY <1>3, <1>4, <1>5, <1>6 DEF IsBest

-----------------------------------------------------------------------------
(* Changing a journal that has a head.                                     *)

\* A sector that is not full has a cell to append to.
LEMMA AppendCellExists ==
    ASSUME NEW f \in Images, NEW h \in Sectors, ~SectorFull(f, h)
    PROVE  \E c \in Cells : IsAppendCell(f, h, c)
<1> DEFINE T == {c \in Cells : f[h][c] = Erased}
<1>1. T \in SUBSET Nat /\ T # {}
  BY Parameters DEF SectorFull, Cells
<1>2. PICK c \in T : \A k \in T : c <= k
  <2> HIDE DEF T
  <2>1. QED
    BY <1>1, LeastNatural
<1>3. \A d \in Cells : d < c => f[h][d] # Erased
  BY <1>2, Parameters DEF Cells
<1>4. QED
  BY <1>2, <1>3 DEF IsAppendCell

\* Losing records of the other sector, or writing a torn cell, keeps the head.
LEMMA FewerRecordsKeepHead ==
    ASSUME NEW f \in Images, NEW g \in Images, NEW h \in Sectors, IsHead(f, h),
           WrittenPrefix(g, h),
           \A s \in Sectors, c \in Cells : HasRecord(g, s, c) => g[s][c] = f[s][c],
           \A c \in Cells : HasRecord(f, h, c) => HasRecord(g, h, c)
    PROVE  IsHead(g, h) /\ Load(g) = Load(f)
<1>1. \A s \in Sectors, c \in Cells : HasRecord(g, s, c) => HasRecord(f, s, c)
  BY DEF HasRecord
<1>2. InWriteOrder(g, h)
  BY <1>1 DEF IsHead, InWriteOrder
<1>3. (\E c \in Cells : HasRecord(g, h, c)) \/ (NoRecord(g) /\ h = 0)
  BY <1>1 DEF IsHead, NoRecord
<1>4. IsHead(g, h)
  BY <1>2, <1>3 DEF IsHead
<1>5. CASE NoRecord(f)
  <2>1. NoRecord(g)
    BY <1>1, <1>5 DEF NoRecord
  <2>2. QED
    BY <1>4, <1>5, <2>1 DEF Load
<1>6. CASE ~NoRecord(f)
  <2>1. PICK c \in Cells : IsNewest(f, h, c)
    BY <1>6, NewestExists
  <2>2. g[h][c] = f[h][c] /\ IsNewest(g, h, c)
    BY <1>1, <2>1 DEF IsNewest
  <2>3. Load(f) = f[h][c]
    BY <2>1, LoadIsNewest
  <2>4. Load(g) = g[h][c]
    BY <1>4, <2>2, LoadIsNewest
  <2>5. QED
    BY <1>4, <2>2, <2>3, <2>4
<1>7. QED
  BY <1>5, <1>6

\* An erase of the other sector, complete or not, keeps the head.
LEMMA EraseKeepsHead ==
    ASSUME NEW f \in Images, NEW h \in Sectors, IsHead(f, h),
           NEW cells \in EraseOutcomes(f[OtherSector(h)])
    PROVE  /\ [f EXCEPT ![OtherSector(h)] = cells] \in Images
           /\ IsHead([f EXCEPT ![OtherSector(h)] = cells], h)
           /\ Load([f EXCEPT ![OtherSector(h)] = cells]) = Load(f)
<1> DEFINE o == OtherSector(h)
           g == [f EXCEPT ![o] = cells]
<1>1. o \in Sectors /\ o # h /\ Sectors = {h, o}
  BY DEF OtherSector, Sectors
<1>2. /\ cells \in [Cells -> CellContents]
      /\ \A c \in Cells : cells[c] \in {f[o][c], Torn, Erased}
  BY <1>1 DEF EraseOutcomes, Images, CellContents
<1>3. g \in Images /\ g[h] = f[h] /\ g[o] = cells
  BY <1>1, <1>2 DEF Images
<1>4. WrittenPrefix(g, h)
  BY <1>3 DEF IsHead, WrittenPrefix
<1>5. ASSUME NEW s \in Sectors, NEW c \in Cells, HasRecord(g, s, c)
      PROVE  g[s][c] = f[s][c]
  <2>1. CASE s = h
    BY <1>3, <2>1
  <2>2. CASE s = o
    <3>1. cells[c] \in Records
      BY <1>3, <1>5, <2>2 DEF HasRecord
    <3>2. QED
      BY <1>2, <1>3, <2>2, <3>1, BlanksAreNoRecords
  <2>3. QED
    BY <1>1, <2>1, <2>2
<1>6. \A c \in Cells : HasRecord(f, h, c) => HasRecord(g, h, c)
  BY <1>3 DEF HasRecord
<1> HIDE DEF g
<1>7. IsHead(g, h) /\ Load(g) = Load(f)
  BY <1>3, <1>4, <1>5, <1>6, FewerRecordsKeepHead
<1>8. QED
  BY <1>3, <1>7 DEF g, o

\* A program of the erased other sector that leaves no record keeps the head.
LEMMA BlankProgramKeepsHead ==
    ASSUME NEW f \in Images, NEW h \in Sectors, IsHead(f, h),
           f[OtherSector(h)] = ErasedSector,
           NEW b \in {Torn, Erased}
    PROVE  /\ [f EXCEPT ![OtherSector(h)][0] = b] \in Images
           /\ IsHead([f EXCEPT ![OtherSector(h)][0] = b], h)
           /\ Load([f EXCEPT ![OtherSector(h)][0] = b]) = Load(f)
<1> DEFINE o == OtherSector(h)
           kept == {}
           torn == IF b = Torn THEN {0} ELSE {}
           cells == [c \in Cells |-> IF c \in kept THEN f[o][c]
                                     ELSE IF c \in torn THEN Torn ELSE Erased]
<1>1. o \in Sectors /\ 0 \in Cells
  BY Parameters DEF OtherSector, Sectors, Cells
<1>2. cells \in EraseOutcomes(f[o])
  <2>1. kept \in SUBSET Cells /\ torn \in SUBSET Cells
    BY <1>1
  <2> HIDE DEF kept, torn
  <2>2. QED
    BY <2>1 DEF EraseOutcomes
<1>3. [f EXCEPT ![o][0] = b] = [f EXCEPT ![o] = cells]
  <2>1. f \in [Sectors -> [Cells -> CellContents]]
    BY DEF Images
  <2>2. cells = [ErasedSector EXCEPT ![0] = b]
    BY <1>1 DEF ErasedSector
  <2>3. QED
    BY <1>1, <2>1, <2>2
<1> HIDE DEF cells
<1>4. QED
  BY <1>2, <1>3, EraseKeepsHead

\* The image g is f with r in one cell.
Writes(f, g, h, a, r) ==
    /\ g[h][a] = r
    /\ \A s \in Sectors, c \in Cells : <<s, c>> # <<h, a>> => g[s][c] = f[s][c]

\* Appending a torn cell, or nothing, keeps the head and its newest record.
LEMMA TornAppendKeepsHead ==
    ASSUME NEW f \in Images, NEW h \in Sectors, IsHead(f, h),
           NEW a \in Cells, IsAppendCell(f, h, a),
           NEW r \in CellContents, r \notin Records,
           NEW g \in Images, Writes(f, g, h, a, r)
    PROVE  /\ IsHead(g, h)
           /\ Load(g) = Load(f)
<1>1. /\ g \in Images
      /\ g[h][a] = r
      /\ \A s \in Sectors, c \in Cells : <<s, c>> # <<h, a>> => g[s][c] = f[s][c]
  BY DEF Writes
<1>2. f[h][a] = Erased /\ ~HasRecord(f, h, a)
  BY BlanksAreNoRecords DEF IsAppendCell, HasRecord
<1>3. WrittenPrefix(g, h)
  <2> SUFFICES ASSUME NEW c \in Cells, NEW d \in Cells, c < d, g[h][c] = Erased
               PROVE  g[h][d] = Erased
    BY DEF WrittenPrefix
  <2>1. f[h][c] = Erased
    BY <1>1, <1>2
  <2>2. f[h][d] = Erased
    BY <2>1 DEF IsHead, WrittenPrefix
  <2>3. d # a
    BY <2>1 DEF IsAppendCell
  <2>4. QED
    BY <1>1, <2>2, <2>3
<1>4. \A c \in Cells : HasRecord(f, h, c) => HasRecord(g, h, c)
  BY <1>1, <1>2 DEF HasRecord
<1>5. \A s \in Sectors, c \in Cells : HasRecord(g, s, c) => g[s][c] = f[s][c]
  BY <1>1 DEF HasRecord
<1>6. QED
  BY <1>1, <1>3, <1>4, <1>5, FewerRecordsKeepHead

\* A record that follows the others may be appended, and is then the newest.
LEMMA AppendKeepsHead ==
    ASSUME NEW f \in Images, NEW h \in Sectors, IsHead(f, h),
           NEW a \in Cells, IsAppendCell(f, h, a),
           NEW r \in Records, Follows(f, h, r, CellCount + a),
           NEW g \in Images, Writes(f, g, h, a, r)
    PROVE  /\ IsHead(g, h)
           /\ Load(g) = r
<1>1. /\ g \in Images
      /\ g[h][a] = r
      /\ \A s \in Sectors, c \in Cells : <<s, c>> # <<h, a>> => g[s][c] = f[s][c]
  BY DEF Writes
<1>2. f[h][a] = Erased /\ ~HasRecord(f, h, a)
  BY BlanksAreNoRecords DEF IsAppendCell, HasRecord
<1>3. WrittenPrefix(g, h)
  <2> SUFFICES ASSUME NEW c \in Cells, NEW d \in Cells, c < d, g[h][c] = Erased
               PROVE  g[h][d] = Erased
    BY DEF WrittenPrefix
  <2>1. f[h][c] = Erased
    BY <1>1, <1>2
  <2>2. f[h][d] = Erased
    BY <2>1 DEF IsHead, WrittenPrefix
  <2>3. d # a
    BY <2>1 DEF IsAppendCell
  <2>4. QED
    BY <1>1, <2>2, <2>3
<1>4. HasRecord(g, h, a)
  BY <1>1 DEF HasRecord
<1>5. \A s \in Sectors, c \in Cells :
         <<s, c>> # <<h, a>> /\ HasRecord(g, s, c) =>
            HasRecord(f, s, c) /\ Rank(h, s, c) < CellCount + a
  BY <1>1 DEF HasRecord, Follows
<1>6. Rank(h, h, a) = CellCount + a
  BY DEF Rank
<1>7. InWriteOrder(g, h)
  <2> SUFFICES ASSUME NEW s1 \in Sectors, NEW s2 \in Sectors,
                      NEW c1 \in Cells, NEW c2 \in Cells,
                      HasRecord(g, s1, c1), HasRecord(g, s2, c2),
                      Rank(h, s1, c1) < Rank(h, s2, c2)
               PROVE  Ahead(g[s2][c2], g[s1][c1],
                            CallerLead * (Rank(h, s2, c2) - Rank(h, s1, c1)))
    BY DEF InWriteOrder
  <2>0. /\ Rank(h, s1, c1) \in Nat
        /\ Rank(h, s2, c2) \in Nat
        /\ CellCount + a \in Nat
    BY RankIsInjective, Parameters DEF Cells
  <2>1. <<s1, c1>> # <<h, a>>
    <3> SUFFICES ASSUME s1 = h, c1 = a PROVE FALSE
      OBVIOUS
    <3>1. Rank(h, s1, c1) = CellCount + a
      BY <1>6
    <3>2. CASE s2 = h /\ c2 = a
      BY <2>0, <3>1, <3>2, <1>6
    <3>3. CASE ~(s2 = h /\ c2 = a)
      <4>1. Rank(h, s2, c2) < CellCount + a
        BY <1>5, <3>3
      <4>2. QED
        BY <2>0, <3>1, <4>1
    <3>4. QED
      BY <3>2, <3>3
  <2>2. HasRecord(f, s1, c1) /\ g[s1][c1] = f[s1][c1]
    BY <1>1, <1>5, <2>1
  <2>3. CASE <<s2, c2>> = <<h, a>>
    BY <1>1, <1>6, <2>2, <2>3 DEF Follows
  <2>4. CASE <<s2, c2>> # <<h, a>>
    <3>1. HasRecord(f, s2, c2) /\ g[s2][c2] = f[s2][c2]
      BY <1>1, <1>5, <2>4
    <3>2. QED
      BY <2>2, <3>1 DEF IsHead, InWriteOrder
  <2>5. QED
    BY <2>3, <2>4
<1>8. IsHead(g, h)
  BY <1>3, <1>4, <1>7 DEF IsHead
<1>9. IsNewest(g, h, a)
  <2>1. \A s \in Sectors, c \in Cells :
           HasRecord(g, s, c) => Rank(h, s, c) <= Rank(h, h, a)
    <3> SUFFICES ASSUME NEW s \in Sectors, NEW c \in Cells, HasRecord(g, s, c)
                 PROVE  Rank(h, s, c) <= Rank(h, h, a)
      OBVIOUS
    <3>1. Rank(h, s, c) \in Nat /\ Rank(h, h, a) \in Nat
      BY RankIsInjective
    <3>2. CASE <<s, c>> = <<h, a>>
      BY <3>1, <3>2
    <3>3. CASE <<s, c>> # <<h, a>>
      <4>1. Rank(h, s, c) < Rank(h, h, a)
        BY <1>5, <1>6, <3>3
      <4>2. QED
        BY <3>1, <4>1
    <3>4. QED
      BY <3>2, <3>3
  <2>2. QED
    BY <1>1, <1>4, <1>7, <2>1, HighestIsNewest
<1>10. Load(g) = r
  BY <1>1, <1>8, <1>9, LoadIsNewest
<1>11. QED
  BY <1>1, <1>8, <1>10

\* A record that follows the others, written to the erased other sector,
\* makes that sector the head.
LEMMA RotateMovesHead ==
    ASSUME NEW f \in Images, NEW h \in Sectors, IsHead(f, h),
           f[OtherSector(h)] = ErasedSector,
           NEW r \in Records, Follows(f, h, r, 2 * CellCount)
    PROVE  /\ [f EXCEPT ![OtherSector(h)][0] = r] \in Images
           /\ IsHead([f EXCEPT ![OtherSector(h)][0] = r], OtherSector(h))
           /\ Load([f EXCEPT ![OtherSector(h)][0] = r]) = r
<1> DEFINE o == OtherSector(h)
           g == [f EXCEPT ![o][0] = r]
<1>1. /\ o \in Sectors /\ o # h /\ Sectors = {h, o}
      /\ 0 \in Cells
      /\ r \in CellContents
  BY Parameters DEF OtherSector, Sectors, Cells, CellContents
<1>2. /\ g \in Images
      /\ g[h] = f[h]
      /\ g[o][0] = r
      /\ \A c \in Cells : c # 0 => g[o][c] = Erased
  BY <1>1 DEF Images, ErasedSector
<1>3. WrittenPrefix(g, o)
  BY <1>2, Parameters DEF WrittenPrefix, Cells
<1>4. HasRecord(g, o, 0)
  BY <1>2 DEF HasRecord
<1>5. \A c \in Cells : HasRecord(g, o, c) => c = 0
  BY <1>2, BlanksAreNoRecords DEF HasRecord
<1>6. \A c \in Cells : /\ Rank(o, h, c) = c
                       /\ Rank(h, h, c) = CellCount + c
                       /\ Rank(o, o, c) = CellCount + c
  BY <1>1 DEF Rank
<1>7. InWriteOrder(g, o)
  <2> SUFFICES ASSUME NEW s1 \in Sectors, NEW s2 \in Sectors,
                      NEW c1 \in Cells, NEW c2 \in Cells,
                      HasRecord(g, s1, c1), HasRecord(g, s2, c2),
                      Rank(o, s1, c1) < Rank(o, s2, c2)
               PROVE  Ahead(g[s2][c2], g[s1][c1],
                            CallerLead * (Rank(o, s2, c2) - Rank(o, s1, c1)))
    BY DEF InWriteOrder
  <2>1. c1 \in 0 .. CellCount - 1 /\ c2 \in 0 .. CellCount - 1
    BY DEF Cells
  <2>2. s1 = h
    <3>1. CASE s1 = o
      <4>1. c1 = 0 /\ Rank(o, s1, c1) = CellCount + c1
        BY <1>5, <1>6, <3>1
      <4>2. CASE s2 = o
        <5>1. c2 = 0 /\ Rank(o, s2, c2) = CellCount + c2
          BY <1>5, <1>6, <4>2
        <5>2. QED
          BY <4>1, <5>1, Parameters
      <4>3. CASE s2 = h
        <5>1. Rank(o, s2, c2) = c2
          BY <1>6, <4>3
        <5>2. QED
          BY <2>1, <4>1, <5>1, Parameters
      <4>4. QED
        BY <1>1, <4>2, <4>3
    <3>2. QED
      BY <1>1, <3>1
  <2>3. HasRecord(f, h, c1) /\ g[h][c1] = f[h][c1]
    BY <1>2, <2>2 DEF HasRecord
  <2>4. CASE s2 = h
    <3>1. HasRecord(f, h, c2) /\ g[h][c2] = f[h][c2]
      BY <1>2, <2>4 DEF HasRecord
    <3>2. Rank(h, h, c1) < Rank(h, h, c2)
      BY <1>6, <2>1, <2>2, <2>4, Parameters
    <3>3. Ahead(f[h][c2], f[h][c1], CallerLead * (Rank(h, h, c2) - Rank(h, h, c1)))
      BY <2>3, <3>1, <3>2 DEF IsHead, InWriteOrder
    <3>4. Rank(h, h, c2) - Rank(h, h, c1) = Rank(o, h, c2) - Rank(o, h, c1)
      BY <1>6, <2>1, Parameters
    <3>5. QED
      BY <2>2, <2>3, <2>4, <3>1, <3>3, <3>4
  <2>5. CASE s2 = o
    <3>1. c2 = 0 /\ g[s2][c2] = r
      BY <1>2, <1>5, <2>5
    <3>2. Ahead(r, f[h][c1], CallerLead * (2 * CellCount - Rank(h, h, c1)))
      BY <2>3 DEF Follows
    <3>3. 2 * CellCount - Rank(h, h, c1) = Rank(o, o, 0) - Rank(o, h, c1)
      BY <1>1, <1>6, <2>1, Parameters
    <3>4. QED
      BY <2>2, <2>3, <2>5, <3>1, <3>2, <3>3
  <2>6. QED
    BY <1>1, <2>4, <2>5
<1>8. IsHead(g, o)
  BY <1>1, <1>3, <1>4, <1>7 DEF IsHead
<1>9. \A s \in Sectors, c \in Cells :
         HasRecord(g, s, c) => Rank(o, s, c) <= Rank(o, o, 0)
  <2> SUFFICES ASSUME NEW s \in Sectors, NEW c \in Cells, HasRecord(g, s, c)
               PROVE  Rank(o, s, c) <= Rank(o, o, 0)
    OBVIOUS
  <2>1. c \in 0 .. CellCount - 1 /\ Rank(o, o, 0) = CellCount + 0
    BY <1>1, <1>6 DEF Cells
  <2>2. CASE s = o
    <3>1. c = 0
      BY <1>5, <2>2
    <3>2. QED
      BY <2>1, <2>2, <3>1, Parameters
  <2>3. CASE s = h
    BY <1>6, <2>1, <2>3, Parameters
  <2>4. QED
    BY <1>1, <2>2, <2>3
<1> HIDE DEF g, o
<1>10. IsNewest(g, o, 0)
  BY <1>1, <1>2, <1>4, <1>7, <1>9, HighestIsNewest
<1>11. Load(g) = r
  BY <1>1, <1>2, <1>8, <1>10, LoadIsNewest
<1>12. QED
  BY <1>2, <1>8, <1>11 DEF g, o

\* A state that the callers may store follows the newest record.
LEMMA NextStateFollows ==
    ASSUME NEW f \in Images, NEW h \in Sectors, IsHead(f, h),
           NEW c \in Cells, IsNewest(f, h, c),
           NEW r \in Records, Ahead(r, f[h][c], CallerLead),
           NEW p \in Nat, CellCount + c < p, p <= 2 * CellCount
    PROVE  Follows(f, h, r, p)
<1> SUFFICES ASSUME NEW s1 \in Sectors, NEW c1 \in Cells, HasRecord(f, s1, c1)
             PROVE  /\ Rank(h, s1, c1) < p
                    /\ Ahead(r, f[s1][c1], CallerLead * (p - Rank(h, s1, c1)))
  BY DEF Follows
<1>1. Rank(h, h, c) = CellCount + c
  BY DEF Rank
<1>2. Rank(h, s1, c1) <= CellCount + c /\ Rank(h, s1, c1) \in Nat
  BY <1>1, NewestIsHighest, RankIsInjective
<1>3. f[h][c] \in Records /\ f[s1][c1] \in Records
  BY DEF IsNewest, HasRecord
<1>4. CASE Rank(h, s1, c1) = CellCount + c
  <2>1. f[s1][c1] = f[h][c]
    BY <1>1, <1>4, RankIsInjective
  <2>2. p - Rank(h, s1, c1) >= 1 /\ p - Rank(h, s1, c1) \in Nat
    BY <1>4, Parameters DEF Cells
  <2>3. QED
    BY <1>2, <2>1, <2>2, Parameters DEF Ahead
<1>5. CASE Rank(h, s1, c1) < CellCount + c
  <2> DEFINE m == CallerLead * (CellCount + c - Rank(h, s1, c1))
             n == CallerLead * (p - Rank(h, s1, c1))
  <2>0. HasRecord(f, h, c) /\ Rank(h, s1, c1) < Rank(h, h, c)
    BY <1>1, <1>5 DEF IsNewest
  <2>1. Ahead(f[h][c], f[s1][c1], m)
    <3>1. Ahead(f[h][c], f[s1][c1], CallerLead * (Rank(h, h, c) - Rank(h, s1, c1)))
      BY <2>0 DEF IsHead, InWriteOrder
    <3>2. m = CallerLead * (Rank(h, h, c) - Rank(h, s1, c1))
      BY <1>1, <1>2, Parameters DEF Cells
    <3> HIDE DEF m
    <3>3. QED
      BY <3>1, <3>2
  <2>2. m \in Nat /\ n \in Nat /\ m + CallerLead <= n /\ n < SeqMod
    BY <1>2, Parameters DEF Cells
  <2> HIDE DEF m, n
  <2>3. Ahead(r, f[s1][c1], n)
    BY <1>3, <2>1, <2>2, Parameters, AheadIsTransitive
  <2>4. Rank(h, s1, c1) < p
    BY <1>2, Parameters DEF Cells
  <2>5. QED
    BY <2>3, <2>4 DEF n
<1>6. QED
  BY <1>2, <1>4, <1>5, Parameters DEF Cells
-----------------------------------------------------------------------------
(* Every step of a store keeps JournalInv and is a step of the register.   *)

RegisterStep == [Register!RegNext]_(Register!regVars)

\* What a step needs to know of the state it starts from.
LEMMA HeadFacts ==
    ASSUME JournalInv
    PROVE  /\ flash \in Images
           /\ request \in BootStates \cup {NoState}
           /\ pc = "idle" <=> request = NoState
           /\ \E h \in Sectors : IsHead(flash, h) /\ StoreInv(h)
<1>1. NoState \notin Records
  BY JournalAssumption, BlanksAreNoRecords
<1>2. QED
  BY <1>1 DEF JournalInv, TypeOK, Images, StoreInv

\* A store that returns at once leaves the journal as it was.
LEMMA StoreReturnsStep ==
    ASSUME JournalInv, NEW status \in Replies, StoreReturns(status)
    PROVE  JournalInv'
<1>1. TypeOK'
  BY DEF JournalInv, TypeOK, StoreReturns
<1>2. PICK h \in Sectors : IsHead(flash, h) /\ StoreInv(h)
  BY DEF JournalInv
<1>3. StoreInv(h)'
  BY <1>2 DEF StoreInv, StoreReturns, Follows
<1>4. QED
  BY <1>1, <1>2, <1>3 DEF JournalInv, StoreReturns

\* An accepted store follows the newest record.
LEMMA StoreBeginStep ==
    ASSUME JournalInv,
           NEW s \in BootStates, NEW sec \in Sectors, StoreBegin(s, sec)
    PROVE  JournalInv' /\ Register!Accept(s)
<1>1. PICK h \in Sectors : IsHead(flash, h) /\ StoreInv(h)
  BY DEF JournalInv
<1>2. s \in Records /\ flash \in Images /\ request = NoState
  BY <1>1, HeadFacts DEF StoreBegin, BootStates, Records
<1>3. sec = h
  <2>1. CASE NoRecord(flash) /\ sec = 0
    BY <1>1, <2>1 DEF IsHead, NoRecord
  <2>2. CASE \E c \in Cells : IsNewest(flash, sec, c)
    BY <1>1, <1>2, <2>2, NewestIsHighest
  <2>3. QED
    BY <2>1, <2>2 DEF StoreBegin, StoreAccepts
<1>4. ASSUME NEW p \in Nat, p <= 2 * CellCount,
             \A c \in Cells : flash[h][c] # Erased => CellCount + c < p
      PROVE  Follows(flash, h, s, p)
  <2>1. CASE NoRecord(flash)
    BY <2>1 DEF NoRecord, Follows
  <2>2. ASSUME NEW c \in Cells, IsNewest(flash, sec, c),
               IsNewer(s.sequence, flash[sec][c].sequence),
               SeqDist(s.sequence, flash[sec][c].sequence) <= CallerLead
        PROVE  Follows(flash, h, s, p)
    <3>1. flash[h][c] \in Records /\ flash[h][c] # Erased
      BY <1>3, <2>2, BlanksAreNoRecords DEF IsNewest, HasRecord
    <3>2. s.sequence \in SeqNums /\ flash[h][c].sequence \in SeqNums
      BY <1>2, <3>1 DEF Records
    <3>3. Ahead(s, flash[h][c], CallerLead)
      <4> DEFINE d == SeqDist(s.sequence, flash[h][c].sequence)
      <4>0. d \in SeqNums
        BY <3>2, SeqDistType
      <4>1. d \in Int
        BY <4>0 DEF SeqNums
      <4>2. d > 0 /\ d <= CallerLead
        BY <1>3, <2>2 DEF IsNewer
      <4>3. QED
        BY <4>1, <4>2, Parameters DEF Ahead
    <3>4. QED
      BY <1>1, <1>2, <1>3, <1>4, <2>2, <3>1, <3>3, NextStateFollows
  <2>3. QED
    BY <2>1, <2>2 DEF StoreBegin, StoreAccepts
<1>5. StoreInv(h)'
  <2>1. /\ request' = s /\ flash' = flash /\ active' = h
        /\ pc' = IF SectorFull(flash, h) THEN "erase_target" ELSE "append"
    BY <1>3 DEF StoreBegin
  <2>2. CASE SectorFull(flash, h)
    <3>1. Follows(flash, h, s, 2 * CellCount)
      <4>1. \A c \in Cells : CellCount + c < 2 * CellCount
        BY Parameters DEF Cells
      <4>2. QED
        BY <1>4, <4>1, Parameters
    <3>2. QED
      BY <1>2, <2>1, <2>2, <3>1 DEF StoreInv, Follows
  <2>3. CASE ~SectorFull(flash, h)
    <3>1. PICK a \in Cells : IsAppendCell(flash, h, a)
      BY <1>2, <2>3, AppendCellExists
    <3>2. \A c \in Cells : flash[h][c] # Erased => CellCount + c < CellCount + a
      <4> SUFFICES ASSUME NEW c \in Cells, flash[h][c] # Erased
                   PROVE  CellCount + c < CellCount + a
        OBVIOUS
      <4>1. c # a /\ ~(a < c)
        BY <1>1, <3>1 DEF IsAppendCell, IsHead, WrittenPrefix
      <4>2. QED
        BY <4>1, Parameters DEF Cells
    <3>3. CellCount + a \in Nat /\ CellCount + a <= 2 * CellCount
      BY Parameters DEF Cells
    <3>4. Follows(flash, h, s, CellCount + a)
      BY <1>4, <3>2, <3>3
    <3>5. QED
      BY <1>2, <2>1, <2>3, <3>1, <3>4 DEF StoreInv, Follows
  <2>4. QED
    BY <2>2, <2>3
<1>6. TypeOK'
  BY <1>2 DEF JournalInv, TypeOK, StoreBegin, Steps, Replies
<1>7. JournalInv'
  BY <1>1, <1>5, <1>6 DEF JournalInv, StoreBegin
<1>8. Load(flash) = NoState \/ IsNewer(s.sequence, Load(flash).sequence)
  <2>1. CASE NoRecord(flash)
    BY <2>1 DEF Load
  <2>2. ASSUME NEW c \in Cells, IsNewest(flash, sec, c),
               IsNewer(s.sequence, flash[sec][c].sequence)
        PROVE  IsNewer(s.sequence, Load(flash).sequence)
    BY <1>1, <1>2, <2>2, LoadIsNewest
  <2>3. QED
    BY <2>1, <2>2 DEF StoreBegin, StoreAccepts
<1>9. Register!Accept(s)
  <2>1. \A m, n : Register!IsNewer(m, n) <=> IsNewer(m, n)
    BY DEF Register!IsNewer, Register!SeqDist, Register!SeqMod,
           IsNewer, SeqDist, SeqMod
  <2>2. Register!Acceptable(s)
    BY <1>2, <1>8, <2>1 DEF Register!Acceptable, Records
  <2>3. QED
    BY <1>2, <2>2 DEF Register!Accept, StoreBegin
<1>10. QED
  BY <1>7, <1>9

\* An append leaves the old newest record or the requested one.
LEMMA AppendOutcome ==
    ASSUME JournalInv, pc = "append",
           NEW c \in Cells, IsAppendCell(flash, active, c),
           NEW outcome \in ProgramOutcomes,
           flash' = [flash EXCEPT ![active][c] = outcome]
    PROVE  /\ flash' \in Images
           /\ \E h \in Sectors : IsHead(flash', h)
           /\ Load(flash') = IF outcome = request THEN request ELSE Load(flash)
<1>1. PICK h \in Sectors : IsHead(flash, h) /\ StoreInv(h)
  BY DEF JournalInv
<1>2. active = h /\ request \in Records
  BY <1>1 DEF StoreInv
<1>3. PICK a \in Cells : /\ IsAppendCell(flash, h, a)
                         /\ Follows(flash, h, request, CellCount + a)
  BY <1>1 DEF StoreInv
<1>4. a = c
  <2>1. ~(a < c) /\ ~(c < a)
    BY <1>2, <1>3 DEF IsAppendCell
  <2>2. QED
    BY <2>1, Parameters DEF Cells
<1>5. /\ Writes(flash, flash', h, c, outcome)
      /\ IsAppendCell(flash, h, c)
      /\ flash \in Images
  BY <1>2, HeadFacts DEF Writes, Images
<1>o. flash' \in Images
  BY <1>2, <1>5, BlanksAreNoRecords DEF Images, ProgramOutcomes, CellContents
<1>6. CASE outcome = request
  <2>1. Follows(flash, h, request, CellCount + c)
    BY <1>3, <1>4
  <2>2. IsHead(flash', h) /\ Load(flash') = request
    BY <1>1, <1>2, <1>5, <1>o, <1>6, <2>1, AppendKeepsHead
  <2>3. QED
    BY <1>o, <1>6, <2>2
<1>7. CASE outcome # request
  <2>1. outcome \in CellContents /\ outcome \notin Records
    BY <1>7, BlanksAreNoRecords DEF ProgramOutcomes, CellContents
  <2>2. IsHead(flash', h) /\ Load(flash') = Load(flash)
    BY <1>1, <1>5, <1>o, <2>1, TornAppendKeepsHead
  <2>3. QED
    BY <1>o, <1>7, <2>2
<1>8. QED
  BY <1>6, <1>7

\* An erase of the sector that the store moves to leaves the newest record.
LEMMA EraseTargetOutcome ==
    ASSUME JournalInv, pc = "erase_target",
           NEW cells \in EraseOutcomes(flash[OtherSector(active)]),
           flash' = [flash EXCEPT ![OtherSector(active)] = cells]
    PROVE  /\ flash' \in Images
           /\ \A h \in Sectors :
                 IsHead(flash, h) /\ StoreInv(h) => IsHead(flash', h)
           /\ Load(flash') = Load(flash)
<1>1. ASSUME NEW h \in Sectors, IsHead(flash, h), StoreInv(h)
      PROVE  /\ flash' \in Images
             /\ IsHead(flash', h)
             /\ Load(flash') = Load(flash)
  <2>1. active = h /\ flash \in Images
    BY <1>1, HeadFacts DEF StoreInv
  <2>2. QED
    BY <1>1, <2>1, EraseKeepsHead
<1>2. QED
  BY <1>1 DEF JournalInv

\* The first program of the other sector leaves the old newest record, or
\* the requested one in a sector of which it is the only content.
LEMMA ProgramTargetOutcome ==
    ASSUME JournalInv, pc = "program_target",
           NEW outcome \in ProgramOutcomes,
           flash' = [flash EXCEPT ![OtherSector(active)][0] = outcome]
    PROVE  /\ flash' \in Images
           /\ \E h \in Sectors : IsHead(flash', h)
           /\ outcome = request =>
                 /\ IsHead(flash', OtherSector(active))
                 /\ flash'[OtherSector(active)][0] = request
                 /\ \A c \in Cells :
                       c # 0 => flash'[OtherSector(active)][c] = Erased
           /\ Load(flash') = IF outcome = request THEN request ELSE Load(flash)
<1>1. PICK h \in Sectors : IsHead(flash, h) /\ StoreInv(h)
  BY DEF JournalInv
<1>2. /\ active = h /\ request \in Records /\ flash \in Images
      /\ flash[OtherSector(h)] = ErasedSector
      /\ Follows(flash, h, request, 2 * CellCount)
  BY <1>1, HeadFacts DEF StoreInv
<1>3. OtherSector(h) \in Sectors /\ 0 \in Cells
  BY Parameters DEF OtherSector, Sectors, Cells
<1>4. CASE outcome = request
  <2>1. /\ flash' \in Images
        /\ IsHead(flash', OtherSector(h))
        /\ Load(flash') = request
    BY <1>1, <1>2, <1>4, RotateMovesHead
  <2>2. /\ flash'[OtherSector(h)][0] = request
        /\ \A c \in Cells : c # 0 => flash'[OtherSector(h)][c] = Erased
    BY <1>2, <1>3, <1>4 DEF Images, ErasedSector
  <2>3. QED
    BY <1>2, <1>3, <1>4, <2>1, <2>2
<1>5. CASE outcome # request
  <2>1. outcome \in {Torn, Erased}
    BY <1>5 DEF ProgramOutcomes
  <2>2. /\ flash' \in Images
        /\ IsHead(flash', h)
        /\ Load(flash') = Load(flash)
    BY <1>1, <1>2, <2>1, BlankProgramKeepsHead
  <2>3. QED
    BY <1>5, <2>2
<1>6. QED
  BY <1>4, <1>5

\* The cleanup erase leaves the requested record as the newest.
LEMMA EraseOldOutcome ==
    ASSUME JournalInv, pc = "erase_old",
           NEW cells \in EraseOutcomes(flash[active]),
           flash' = [flash EXCEPT ![active] = cells]
    PROVE  /\ flash' \in Images
           /\ \E h \in Sectors : IsHead(flash', h)
           /\ Load(flash') = request
           /\ Load(flash) = request
<1>1. PICK h \in Sectors : IsHead(flash, h) /\ StoreInv(h)
  BY DEF JournalInv
<1>2. /\ active = OtherSector(h) /\ request \in Records /\ flash \in Images
      /\ flash[h][0] = request
      /\ \A c \in Cells : c # 0 => flash[h][c] = Erased
  BY <1>1, HeadFacts DEF StoreInv
<1>3. /\ flash' \in Images
      /\ IsHead(flash', h)
      /\ Load(flash') = Load(flash)
  BY <1>1, <1>2, EraseKeepsHead
<1>4. Load(flash) = request
  <2>1. ~NoRecord(flash)
    BY <1>2, Parameters DEF NoRecord, HasRecord, Cells
  <2>2. PICK c \in Cells : IsNewest(flash, h, c)
    BY <1>1, <1>2, <2>1, NewestExists
  <2>3. c = 0
    BY <1>2, <2>2, BlanksAreNoRecords DEF IsNewest, HasRecord
  <2>4. QED
    BY <1>1, <1>2, <2>2, <2>3, LoadIsNewest
<1>5. QED
  BY <1>3, <1>4

\* With no store in progress any journal with a head will do.
LEMMA IdleAfterwards ==
    ASSUME flash' \in Images, \E h \in Sectors : IsHead(flash', h),
           pc' = "idle", request' = NoState,
           reply' \in Replies, active' \in Sectors
    PROVE  JournalInv'
<1>1. PICK h \in Sectors : IsHead(flash', h)
  OBVIOUS
<1>2. StoreInv(h)'
  BY DEF StoreInv
<1>3. TypeOK'
  BY DEF TypeOK, Images, Steps
<1>4. QED
  BY <1>1, <1>2, <1>3 DEF JournalInv

\* program_record in the append case.
LEMMA AppendRecordStep ==
    ASSUME JournalInv, AppendRecord
    PROVE  JournalInv' /\ Register!RegNext
<1>1. PICK c \in Cells, outcome \in ProgramOutcomes, readable \in BOOLEAN :
         /\ IsAppendCell(flash, active, c)
         /\ flash' = [flash EXCEPT ![active][c] = outcome]
         /\ Finish(IF outcome = request /\ readable THEN "ok" ELSE "error")
  BY DEF AppendRecord
<1>2. pc = "append"
  BY DEF AppendRecord
<1>3. /\ flash' \in Images
      /\ \E h \in Sectors : IsHead(flash', h)
      /\ Load(flash') = IF outcome = request THEN request ELSE Load(flash)
  BY <1>1, <1>2, AppendOutcome
<1>4. JournalInv'
  BY <1>1, <1>3, IdleAfterwards DEF Finish, Replies, AppendRecord, JournalInv, TypeOK
<1>5. \E status \in {"ok", "error"} : Register!Settle(status)
  BY <1>1, <1>2, <1>3, HeadFacts DEF Register!Settle, Finish
<1>6. QED
  BY <1>4, <1>5 DEF Register!RegNext

\* A complete erase of the sector that the store moves to.
LEMMA EraseTargetStep ==
    ASSUME JournalInv, EraseTarget
    PROVE  JournalInv' /\ UNCHANGED Register!regVars
<1> DEFINE o == OtherSector(active)
<1>1. PICK h \in Sectors : IsHead(flash, h) /\ StoreInv(h)
  BY DEF JournalInv
<1>2. /\ pc = "erase_target" /\ pc' = "program_target"
      /\ flash' = [flash EXCEPT ![o] = ErasedSector]
      /\ UNCHANGED <<request, active, reply>>
  BY DEF EraseTarget
<1>3. ErasedSector \in EraseOutcomes(flash[o])
  <2> DEFINE none == {}
  <2>1. ErasedSector = [c \in Cells |-> IF c \in none THEN flash[o][c]
                                        ELSE IF c \in none THEN Torn ELSE Erased]
    BY DEF ErasedSector
  <2>2. none \in SUBSET Cells
    OBVIOUS
  <2> HIDE DEF none
  <2>3. QED
    BY <2>1, <2>2 DEF EraseOutcomes
<1>4. /\ flash' \in Images
      /\ IsHead(flash', h)
      /\ Load(flash') = Load(flash)
  BY <1>1, <1>2, <1>3, EraseTargetOutcome
<1>5. /\ active = h /\ o \in Sectors /\ o # h /\ Sectors = {h, o}
      /\ SectorFull(flash, h) /\ Follows(flash, h, request, 2 * CellCount)
      /\ request \in Records
  BY <1>1, <1>2 DEF StoreInv, OtherSector, Sectors
<1>6. flash'[h] = flash[h] /\ flash'[o] = ErasedSector
  BY <1>2, <1>5, HeadFacts DEF Images
<1>7. SectorFull(flash', h)
  BY <1>5, <1>6 DEF SectorFull
<1>8. Follows(flash', h, request, 2 * CellCount)
  <2> SUFFICES ASSUME NEW s \in Sectors, NEW c \in Cells, HasRecord(flash', s, c)
               PROVE  /\ Rank(h, s, c) < 2 * CellCount
                      /\ Ahead(request, flash'[s][c],
                               CallerLead * (2 * CellCount - Rank(h, s, c)))
    BY DEF Follows
  <2>1. s = h
    BY <1>5, <1>6, BlanksAreNoRecords DEF HasRecord, ErasedSector
  <2>2. flash'[s][c] = flash[s][c] /\ HasRecord(flash, s, c)
    BY <1>6, <2>1 DEF HasRecord
  <2>3. QED
    BY <1>5, <2>2 DEF Follows
<1>9. StoreInv(h)'
  BY <1>2, <1>5, <1>6, <1>7, <1>8 DEF StoreInv
<1>10. TypeOK'
  BY <1>2, <1>4 DEF JournalInv, TypeOK, Images, Steps
<1>11. QED
  BY <1>2, <1>4, <1>9, <1>10 DEF JournalInv, Register!regVars

\* An erase of that sector that reports a failure.
LEMMA EraseTargetFailsStep ==
    ASSUME JournalInv, EraseTargetFails
    PROVE  JournalInv' /\ Register!RegNext
<1>1. PICK cells \in EraseOutcomes(flash[OtherSector(active)]) :
         flash' = [flash EXCEPT ![OtherSector(active)] = cells]
  BY DEF EraseTargetFails
<1>2. /\ pc = "erase_target" /\ pc' = "idle" /\ request' = NoState
      /\ reply' = "error" /\ active' = active
  BY DEF EraseTargetFails, Finish
<1>3. /\ flash' \in Images
      /\ \E h \in Sectors : IsHead(flash', h)
      /\ Load(flash') = Load(flash)
  BY <1>1, <1>2, EraseTargetOutcome DEF JournalInv
<1>4. JournalInv'
  BY <1>2, <1>3, IdleAfterwards DEF Replies, JournalInv, TypeOK
<1>5. Register!Settle("error")
  BY <1>2, <1>3, HeadFacts DEF Register!Settle
<1>6. QED
  BY <1>4, <1>5 DEF Register!RegNext

\* program_record in the other sector: a verified record is the commit.
LEMMA ProgramTargetStep ==
    ASSUME JournalInv, ProgramTarget
    PROVE  JournalInv' /\ Register!RegNext
<1> DEFINE o == OtherSector(active)
<1>1. PICK outcome \in ProgramOutcomes, readable \in BOOLEAN :
         /\ flash' = [flash EXCEPT ![o][0] = outcome]
         /\ IF outcome = request /\ readable
            THEN pc' = "erase_old" /\ UNCHANGED <<request, reply>>
            ELSE Finish("error")
  BY DEF ProgramTarget
<1>2. pc = "program_target" /\ active' = active
  BY DEF ProgramTarget
<1>3. /\ flash' \in Images
      /\ \E h \in Sectors : IsHead(flash', h)
      /\ outcome = request =>
            /\ IsHead(flash', o)
            /\ flash'[o][0] = request
            /\ \A c \in Cells : c # 0 => flash'[o][c] = Erased
      /\ Load(flash') = IF outcome = request THEN request ELSE Load(flash)
  BY <1>1, <1>2, ProgramTargetOutcome
<1>4. request # NoState /\ request \in Records
  BY <1>2, HeadFacts DEF StoreInv
<1>5. CASE outcome = request /\ readable
  <2>1. PICK k \in Sectors : k = o /\ active = OtherSector(k)
    BY DEF JournalInv, TypeOK, OtherSector, Sectors
  <2>2. IsHead(flash', k) /\ StoreInv(k)'
    BY <1>1, <1>2, <1>3, <1>4, <1>5, <2>1 DEF StoreInv
  <2>3. TypeOK'
    BY <1>1, <1>2, <1>3, <1>5 DEF JournalInv, TypeOK, Images, Steps
  <2>4. JournalInv'
    BY <2>2, <2>3 DEF JournalInv
  <2>5. Register!Commit
    BY <1>1, <1>3, <1>4, <1>5 DEF Register!Commit
  <2>6. QED
    BY <2>4, <2>5 DEF Register!RegNext
<1>6. CASE ~(outcome = request /\ readable)
  <2>1. JournalInv'
    BY <1>1, <1>2, <1>3, <1>6, IdleAfterwards
    DEF Finish, Replies, JournalInv, TypeOK
  <2>2. Register!Settle("error")
    BY <1>1, <1>3, <1>4, <1>6 DEF Register!Settle, Finish
  <2>3. QED
    BY <2>1, <2>2 DEF Register!RegNext
<1>7. QED
  BY <1>5, <1>6

\* The cleanup of the old sector.
LEMMA EraseOldStep ==
    ASSUME JournalInv, EraseOld
    PROVE  JournalInv' /\ Register!RegNext
<1>1. PICK cells \in EraseOutcomes(flash[active]) :
         flash' = [flash EXCEPT ![active] = cells]
  BY DEF EraseOld
<1>2. /\ pc = "erase_old" /\ pc' = "idle" /\ request' = NoState
      /\ reply' = "ok" /\ active' = active
  BY DEF EraseOld, Finish
<1>3. /\ flash' \in Images
      /\ \E h \in Sectors : IsHead(flash', h)
      /\ Load(flash') = request
  BY <1>1, <1>2, EraseOldOutcome
<1>4. JournalInv'
  BY <1>2, <1>3, IdleAfterwards DEF Replies, JournalInv, TypeOK
<1>5. Register!Settle("ok")
  BY <1>2, <1>3, HeadFacts DEF Register!Settle
<1>6. QED
  BY <1>4, <1>5 DEF Register!RegNext

\* A power loss inside any flash operation.
LEMMA PowerLossStep ==
    ASSUME JournalInv, PowerLoss
    PROVE  JournalInv' /\ Register!RegNext
<1>1. /\ pc' = "idle" /\ request' = NoState /\ reply' = "none" /\ active' = 0
      /\ request # NoState
  BY HeadFacts DEF PowerLoss
<1>2. /\ flash' \in Images
      /\ \E h \in Sectors : IsHead(flash', h)
      /\ Load(flash') = Load(flash) \/ Load(flash') = request
  <2>1. ASSUME pc = "append",
               NEW c \in Cells, NEW outcome \in ProgramOutcomes,
               IsAppendCell(flash, active, c),
               flash' = [flash EXCEPT ![active][c] = outcome]
        PROVE  /\ flash' \in Images
               /\ \E h \in Sectors : IsHead(flash', h)
               /\ Load(flash') = Load(flash) \/ Load(flash') = request
    BY <2>1, AppendOutcome
  <2>2. ASSUME pc = "erase_target",
               NEW cells \in EraseOutcomes(flash[OtherSector(active)]),
               flash' = [flash EXCEPT ![OtherSector(active)] = cells]
        PROVE  /\ flash' \in Images
               /\ \E h \in Sectors : IsHead(flash', h)
               /\ Load(flash') = Load(flash) \/ Load(flash') = request
    BY <2>2, EraseTargetOutcome DEF JournalInv
  <2>3. ASSUME pc = "program_target", NEW outcome \in ProgramOutcomes,
               flash' = [flash EXCEPT ![OtherSector(active)][0] = outcome]
        PROVE  /\ flash' \in Images
               /\ \E h \in Sectors : IsHead(flash', h)
               /\ Load(flash') = Load(flash) \/ Load(flash') = request
    BY <2>3, ProgramTargetOutcome
  <2>4. ASSUME pc = "erase_old", NEW cells \in EraseOutcomes(flash[active]),
               flash' = [flash EXCEPT ![active] = cells]
        PROVE  /\ flash' \in Images
               /\ \E h \in Sectors : IsHead(flash', h)
               /\ Load(flash') = Load(flash) \/ Load(flash') = request
    BY <2>4, EraseOldOutcome
  <2>5. QED
    BY <2>1, <2>2, <2>3, <2>4 DEF PowerLoss, InterruptedFlash
<1>3. JournalInv'
  BY <1>1, <1>2, IdleAfterwards DEF Replies, Sectors
<1>4. Register!PowerCut
  BY <1>1, <1>2 DEF Register!PowerCut
<1>5. QED
  BY <1>3, <1>4 DEF Register!RegNext

\* A store that returns before any flash operation.
LEMMA StoreRequestStep ==
    ASSUME JournalInv, NEW s \in BootStates, StoreRequest(s)
    PROVE  JournalInv' /\ Register!RegNext
<1>1. PICK h \in Sectors : IsHead(flash, h) /\ StoreInv(h)
  BY DEF JournalInv
<1>2. flash \in Images
  BY HeadFacts
<1>3. ASSUME NEW status \in Replies \ {"none"}, StoreReturns(status), pc = "idle",
             \/ status = "ok" /\ s = Load(flash)
             \/ status = "invalid" /\ s.body \notin ValidBodies
             \/ status = "stale" /\ ~Register!Acceptable(s)
             \/ status = "error"
      PROVE  JournalInv' /\ Register!RegNext
  <2>1. JournalInv'
    BY <1>3, StoreReturnsStep
  <2>2. Register!Refuse(s, status)
    BY <1>1, <1>3 DEF Register!Refuse, StoreReturns, StoreInv
  <2>3. status \in Register!Replies \ {"none"} /\ s \in Register!BootStates
    BY <1>3 DEF Register!Replies, Replies, Register!BootStates, BootStates,
                Register!SeqNums, SeqNums, Register!SeqMod, SeqMod
  <2>4. QED
    BY <2>1, <2>2, <2>3 DEF Register!RegNext
<1>4. CASE StoreInvalid(s)
  BY <1>3, <1>4 DEF StoreInvalid, Replies
<1>5. CASE StoreReadFails(s)
  BY <1>3, <1>5 DEF StoreReadFails, Replies
<1>6. CASE StoreUnchanged(s)
  <2>1. s = Load(flash)
    BY <1>1, <1>2, <1>6, LoadIsNewest DEF StoreUnchanged
  <2>2. QED
    BY <1>3, <1>6, <2>1 DEF StoreUnchanged, Replies
<1>7. CASE StoreStale(s)
  <2>1. PICK sec \in Sectors, c \in Cells :
           /\ IsNewest(flash, sec, c)
           /\ ~IsNewer(s.sequence, flash[sec][c].sequence)
    BY <1>7 DEF StoreStale
  <2>2. Load(flash) = flash[sec][c] /\ flash[sec][c] \in Records
    BY <1>1, <1>2, <2>1, LoadIsNewest DEF IsNewest, HasRecord
  <2>3. Load(flash) # NoState
    BY <2>2, JournalAssumption, BlanksAreNoRecords
  <2>4. ~Register!IsNewer(s.sequence, Load(flash).sequence)
    BY <2>1, <2>2 DEF Register!IsNewer, Register!SeqDist, Register!SeqMod,
                      IsNewer, SeqDist, SeqMod
  <2>5. ~Register!Acceptable(s)
    BY <2>3, <2>4 DEF Register!Acceptable
  <2>6. QED
    BY <1>3, <1>7, <2>5 DEF StoreStale, Replies
<1>8. CASE \E sec \in Sectors : StoreBegin(s, sec)
  <2>1. JournalInv' /\ Register!Accept(s)
    BY <1>8, StoreBeginStep
  <2>2. s \in Register!BootStates
    BY DEF Register!BootStates, BootStates,
           Register!SeqNums, SeqNums, Register!SeqMod, SeqMod
  <2>3. QED
    BY <2>1, <2>2 DEF Register!RegNext
<1>9. QED
  BY <1>4, <1>5, <1>6, <1>7, <1>8 DEF StoreRequest

\* One step of the journal, or none.
LEMMA JournalStep ==
    ASSUME JournalInv, [Next]_vars
    PROVE  JournalInv' /\ RegisterStep
<1>1. CASE \E s \in BootStates : StoreRequest(s)
  BY <1>1, StoreRequestStep DEF RegisterStep
<1>2. CASE AppendRecord
  BY <1>2, AppendRecordStep DEF RegisterStep
<1>3. CASE EraseTarget
  BY <1>3, EraseTargetStep DEF RegisterStep
<1>4. CASE EraseTargetFails
  BY <1>4, EraseTargetFailsStep DEF RegisterStep
<1>5. CASE ProgramTarget
  BY <1>5, ProgramTargetStep DEF RegisterStep
<1>6. CASE EraseOld
  BY <1>6, EraseOldStep DEF RegisterStep
<1>7. CASE PowerLoss
  BY <1>7, PowerLossStep DEF RegisterStep
<1>8. CASE UNCHANGED vars
  <2>1. JournalInv'
    BY <1>8 DEF vars, JournalInv, TypeOK, StoreInv, Follows
  <2>2. UNCHANGED Register!regVars
    BY <1>8 DEF vars, Register!regVars
  <2>3. QED
    BY <2>1, <2>2 DEF RegisterStep
<1>9. QED
  BY <1>1, <1>2, <1>3, <1>4, <1>5, <1>6, <1>7, <1>8 DEF Next

\* An empty journal has sector 0 as its head.
LEMMA JournalStart ==
    ASSUME Init
    PROVE  JournalInv /\ Register!RegInit
<1>1. flash \in Images
  BY DEF Init, Images, ErasedSector, CellContents
<1>2. NoRecord(flash)
  BY BlanksAreNoRecords DEF Init, ErasedSector, NoRecord, HasRecord
<1>3. IsHead(flash, 0)
  BY <1>2 DEF IsHead, InWriteOrder, NoRecord, WrittenPrefix, Init, ErasedSector,
              Sectors
<1>4. StoreInv(0) /\ TypeOK
  BY <1>1 DEF Init, StoreInv, TypeOK, Images, Steps, Sectors, Replies
<1>5. JournalInv
  BY <1>3, <1>4 DEF JournalInv, Sectors
<1>6. Register!RegInit
  BY <1>2 DEF Register!RegInit, Init, Load
<1>7. QED
  BY <1>5, <1>6

-----------------------------------------------------------------------------
(* The theorems.                                                           *)

\* The state that boot_journal_store relies on and re-establishes at every
\* flash operation, power losses included.
THEOREM JournalInvariant == Spec => []JournalInv
<1>1. Init => JournalInv
  BY JournalStart
<1>2. JournalInv /\ [Next]_vars => JournalInv'
  BY JournalStep
<1>3. QED
  BY <1>1, <1>2, PTL DEF Spec

\* The records on flash never become ambiguous for sequence_is_newer.
THEOREM RecordsStayOrdered == Spec => []RecordsTotallyOrdered
<1>1. JournalInv => RecordsTotallyOrdered
  <2> SUFFICES ASSUME JournalInv,
                      NEW s1 \in Sectors, NEW s2 \in Sectors,
                      NEW c1 \in Cells, NEW c2 \in Cells,
                      HasRecord(flash, s1, c1), HasRecord(flash, s2, c2),
                      <<s1, c1>> # <<s2, c2>>
               PROVE  \/ IsNewer(flash[s1][c1].sequence, flash[s2][c2].sequence)
                      \/ IsNewer(flash[s2][c2].sequence, flash[s1][c1].sequence)
    BY DEF RecordsTotallyOrdered
  <2>1. PICK h \in Sectors : InWriteOrder(flash, h) /\ flash \in Images
    BY HeadFacts DEF IsHead
  <2>2. \/ Rank(h, s1, c1) < Rank(h, s2, c2)
        \/ Rank(h, s2, c2) < Rank(h, s1, c1)
    <3>1. Rank(h, s1, c1) # Rank(h, s2, c2)
      BY RankIsInjective
    <3>2. Rank(h, s1, c1) \in Nat /\ Rank(h, s2, c2) \in Nat
      BY RankIsInjective
    <3>3. QED
      BY <3>1, <3>2
  <2>3. QED
    BY <2>1, <2>2, RankOrdersRecords
<1>2. QED
  BY <1>1, JournalInvariant, PTL

\* The sequence number that the operations of boot_state.c give the state they
\* make of the one that boot_journal_load returned.
NextIsNewest ==
    \A sec \in Sectors, c \in Cells :
        IsNewest(flash, sec, c) =>
            \A s \in Sectors, d \in Cells :
                HasRecord(flash, s, d) =>
                    /\ IsNewer(Succ(flash[sec][c].sequence), flash[s][d].sequence)
                    /\ ~IsNewer(flash[s][d].sequence, Succ(flash[sec][c].sequence))

\* An increment of the newest record's counter is newer than every record on
\* flash, the ones that a failed clean-up left in the other sector included, and
\* wherever the uint32_t wraps: boot_journal_store never refuses it as stale, and
\* boot_journal_load prefers what it wrote to all that was there.
THEOREM NextStaysNewest == Spec => []NextIsNewest
<1>1. JournalInv => NextIsNewest
  <2> SUFFICES ASSUME JournalInv,
                      NEW sec \in Sectors, NEW c \in Cells, IsNewest(flash, sec, c),
                      NEW s \in Sectors, NEW d \in Cells, HasRecord(flash, s, d)
               PROVE  /\ IsNewer(Succ(flash[sec][c].sequence), flash[s][d].sequence)
                      /\ ~IsNewer(flash[s][d].sequence, Succ(flash[sec][c].sequence))
    BY DEF NextIsNewest
  <2>1. PICK h \in Sectors : IsHead(flash, h) /\ flash \in Images
    BY HeadFacts
  <2> DEFINE a == flash[sec][c].sequence
             b == flash[s][d].sequence
  <2>2. a \in SeqNums /\ b \in SeqNums
    BY DEF IsNewest, HasRecord, Records
  <2>3. HalfSeq > 4 * CellCount /\ CellCount \in Nat \ {0} /\ HalfSeq \in Nat /\ CallerLead = 2
    BY Parameters
  <2>4. SeqDist(a, b) \in 0 .. 4 * CellCount - 2
    <3>1. CASE <<s, d>> = <<sec, c>>
      BY <2>2, <2>3, <3>1 DEF SeqDist, SeqNums
    <3>2. CASE <<s, d>> # <<sec, c>>
      <4>1. Rank(h, s, d) <= Rank(h, sec, c)
        BY <2>1, NewestIsHighest
      <4>2. /\ Rank(h, s, d) \in 0 .. 2 * CellCount - 1
            /\ Rank(h, sec, c) \in 0 .. 2 * CellCount - 1
            /\ Rank(h, s, d) # Rank(h, sec, c)
        BY <3>2, RankIsInjective
      <4> DEFINE n == CallerLead * (Rank(h, sec, c) - Rank(h, s, d))
      <4>3. Ahead(flash[sec][c], flash[s][d], n)
        BY <2>1, <4>1, <4>2 DEF IsHead, InWriteOrder, IsNewest
      <4>4. n \in Nat /\ n <= 4 * CellCount - 2
        BY <2>3, <4>1, <4>2
      <4>5. QED
        BY <2>3, <4>3, <4>4 DEF Ahead
    <3>3. QED
      BY <3>1, <3>2
  <2>5. Succ(a) \in SeqNums /\ SeqDist(Succ(a), a) = 1
    BY <2>2, <2>3, SuccIsAhead
  <2> HIDE DEF a, b
  <2>6. SeqDist(Succ(a), b) = 1 + SeqDist(a, b)
    BY <2>2, <2>3, <2>4, <2>5, SeqDistAdds DEF SeqMod
  <2>7. IsNewer(Succ(a), b)
    BY <2>3, <2>4, <2>6 DEF IsNewer
  <2>8. ~IsNewer(b, Succ(a))
    BY <2>2, <2>5, <2>7, NewerIsAsymmetric
  <2>9. QED
    BY <2>7, <2>8 DEF a, b
<1>2. QED
  BY <1>1, JournalInvariant, PTL

\* The scan compares each record only with the best one before it, which is
\* enough in every journal that stores and power losses leave behind.
THEOREM ScanStaysRight == Spec => []ScanFindsNewest
<1>1. JournalInv => ScanFindsNewest
  <2> SUFFICES ASSUME JournalInv PROVE ScanFindsNewest
    OBVIOUS
  <2>1. PICK h \in Sectors : IsHead(flash, h)
    BY DEF JournalInv
  <2>2. QED
    BY <2>1, HeadFacts, ScanIsLoad DEF ScanFindsNewest
<1>2. QED
  BY <1>1, JournalInvariant, PTL

\* NOR flash is programmed in erased cells only.
THEOREM OnlyErasedCellsProgrammed == Spec => []ProgramsErasedCells
<1>1. JournalInv => ProgramsErasedCells
  BY Parameters
  DEF JournalInv, StoreInv, ProgramsErasedCells, IsAppendCell, ErasedSector, Cells
<1>2. QED
  BY <1>1, JournalInvariant, PTL

\* No store erases the sector of the newest record.
THEOREM NewestIsKept == Spec => []NewestNotErased
<1>1. JournalInv => NewestNotErased
  <2> SUFFICES ASSUME JournalInv PROVE NewestNotErased
    OBVIOUS
  <2>1. PICK h \in Sectors : IsHead(flash, h) /\ StoreInv(h)
    BY DEF JournalInv
  <2>2. flash \in Images /\ OtherSector(h) \in Sectors /\ OtherSector(h) # h
        /\ OtherSector(OtherSector(h)) = h
    BY HeadFacts DEF OtherSector, Sectors
  <2>3. CASE pc \in {"append", "erase_target", "program_target"}
    <3>1. active = h
      BY <2>1, <2>3 DEF StoreInv
    <3>2. \A c \in Cells : ~IsNewest(flash, OtherSector(active), c)
      BY <2>1, <2>2, <3>1, NewestIsHighest
    <3>3. QED
      BY <2>3, <3>2 DEF NewestNotErased
  <2>4. CASE pc = "erase_old"
    <3>1. /\ OtherSector(active) = h /\ request \in Records
          /\ flash[h][0] = request
          /\ \A c \in Cells : c # 0 => flash[h][c] = Erased
      BY <2>1, <2>2, <2>4 DEF StoreInv
    <3>2. 0 \in Cells
      BY Parameters DEF Cells
    <3>3. ~NoRecord(flash)
      BY <3>1, <3>2 DEF NoRecord, HasRecord
    <3>4. PICK c \in Cells : IsNewest(flash, h, c)
      BY <2>1, <2>2, <3>3, NewestExists
    <3>5. c = 0
      BY <3>1, <3>4, BlanksAreNoRecords DEF IsNewest, HasRecord
    <3>6. QED
      BY <2>4, <3>1, <3>4, <3>5 DEF NewestNotErased
  <2>5. QED
    BY <2>3, <2>4 DEF NewestNotErased
<1>2. QED
  BY <1>1, JournalInvariant, PTL

\* boot_journal_store is atomic: the journal implements the register.
THEOREM JournalImplementsRegister == Spec => ImplementsRegister
<1>1. Init => Register!RegInit
  BY JournalStart
<1>2. JournalInv /\ [Next]_vars => [Register!RegNext]_(Register!regVars)
  BY JournalStep DEF RegisterStep
<1>3. QED
  BY <1>1, <1>2, JournalInvariant, PTL
  DEF Spec, ImplementsRegister, Register!RegSpec
=============================================================================
