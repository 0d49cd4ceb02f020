---------------------------- MODULE Answers_proofs ----------------------------
(***************************************************************************)
(* What is read from the upstream and from the host, for whatever values,  *)
(* texts, answers and names there are: the lengths of turn-state values,   *)
(* the numbers found in an answer, the words of a failure, the names of    *)
(* credentials.                                                            *)
(***************************************************************************)
EXTENDS TurnState, Scoring, HostAnswers, Identity,
        FiniteSetTheorems, WellFoundedInduction, TLAPS

-----------------------------------------------------------------------------
(* Induction, over a set of numbers, and what is computed step by step.    *)

LEMMA LeastNumber ==
  ASSUME NEW S \in SUBSET Nat, S # {}
  PROVE  \E m \in S : \A n \in S : m <= n
<1>1. PICK m \in S : \A n \in S : ~(<<n, m>> \in OpToRel(<, Nat))
  BY NatLessThanWellFounded, WFMin
<1>2. \A n \in S : ~(n < m)
  BY <1>1 DEF OpToRel
<1> QED BY <1>2

LEMMA Induction ==
  ASSUME NEW S, 0 \in S, \A n \in Nat : n \in S => n + 1 \in S
  PROVE  Nat \subseteq S
<1> SUFFICES ASSUME Nat \ S # {} PROVE FALSE
  OBVIOUS
<1>1. PICK m \in Nat \ S : \A n \in Nat \ S : m <= n
  BY LeastNumber
<1>2. m - 1 \in Nat /\ m - 1 \notin S
  <2>1. m # 0 /\ m - 1 \in Nat /\ (m - 1) + 1 = m
    BY <1>1
  <2> QED BY <1>1, <2>1
<1> QED BY <1>1, <1>2

\* A loop from lo up to hi, each step from what the one before it left; and
\* what it computes, a value after each step.
Loop(S, base, lo, hi, step) ==
  /\ lo \in Int /\ hi \in Int /\ lo <= hi
  /\ base \in S
  /\ step \in [S \X ((lo + 1)..hi) -> S]
Computes(f, S, base, lo, hi, step) ==
  /\ f \in [lo..hi -> S]
  /\ f[lo] = base
  /\ \A i \in (lo + 1)..hi : f[i] = step[<<f[i - 1], i>>]

LEMMA LoopComputes ==
  ASSUME NEW S, NEW base, NEW lo, NEW hi, NEW step, Loop(S, base, lo, hi, step)
  PROVE  \E f : Computes(f, S, base, lo, hi, step)
<1> USE DEF Loop
<1> DEFINE Reaches(f, k) ==
      /\ f \in [lo..(lo + k) -> S]
      /\ f[lo] = base
      /\ \A i \in (lo + 1)..(lo + k) : f[i] = step[<<f[i - 1], i>>]
    G == {k \in Nat : lo + k <= hi => \E f : Reaches(f, k)}
<1>1. 0 \in G
  <2>1. Reaches([i \in lo..(lo + 0) |-> base], 0)
    OBVIOUS
  <2> QED BY <2>1
<1>2. ASSUME NEW k \in Nat, k \in G PROVE k + 1 \in G
  <2> SUFFICES ASSUME lo + (k + 1) <= hi PROVE \E g : Reaches(g, k + 1)
    OBVIOUS
  <2>1. PICK f : Reaches(f, k)
    BY <1>2
  <2> DEFINE last == lo + (k + 1)
             g == [i \in lo..last |-> IF i = last THEN step[<<f[last - 1], last>>] ELSE f[i]]
  <2>2. last - 1 = lo + k /\ last \in (lo + 1)..hi /\ lo # last
    OBVIOUS
  <2>3. f[last - 1] \in S
    BY <2>1, <2>2
  <2>4. step[<<f[last - 1], last>>] \in S
    BY <2>2, <2>3
  <2>5. g \in [lo..last -> S]
    BY <2>1, <2>2, <2>4
  <2>6. g[lo] = base
    BY <2>1, <2>2
  <2>7. ASSUME NEW i \in (lo + 1)..last PROVE g[i] = step[<<g[i - 1], i>>]
    <3>1. i - 1 \in lo..last /\ i - 1 # last /\ i \in lo..last
      OBVIOUS
    <3>2. g[i - 1] = f[i - 1]
      BY <3>1
    <3>3. CASE i = last
      BY <3>1, <3>2, <3>3
    <3>4. CASE i # last
      <4>1. i \in (lo + 1)..(lo + k)
        BY <3>4
      <4> QED BY <2>1, <3>1, <3>2, <3>4, <4>1
    <3> QED BY <3>3, <3>4
  <2>8. Reaches(g, k + 1)
    BY <2>5, <2>6, <2>7
  <2> QED BY <2>8
<1>3. Nat \subseteq G
  <2> HIDE DEF G
  <2> QED BY <1>1, <1>2, Induction
<1>4. hi - lo \in Nat /\ lo + (hi - lo) = hi
  OBVIOUS
<1>5. PICK f : Reaches(f, hi - lo)
  <2>1. hi - lo \in G
    <3> HIDE DEF G
    <3> QED BY <1>3, <1>4
  <2>2. lo + (hi - lo) <= hi
    BY <1>4
  <2> HIDE DEF Reaches
  <2> QED BY <2>1, <2>2
<1> QED BY <1>4, <1>5 DEF Computes

LEMMA LoopTyped ==
  ASSUME NEW S, NEW base, NEW lo, NEW hi, NEW step, Loop(S, base, lo, hi, step),
         NEW f, f[lo] = base,
         \A i \in (lo + 1)..hi : f[i - 1] \in S => f[i] = step[<<f[i - 1], i>>]
  PROVE  \A i \in lo..hi : f[i] \in S
<1> USE DEF Loop
<1> DEFINE G == {k \in Nat : lo + k <= hi => f[lo + k] \in S}
<1>1. 0 \in G
  OBVIOUS
<1>2. ASSUME NEW k \in Nat, k \in G PROVE k + 1 \in G
  <2> SUFFICES ASSUME lo + (k + 1) <= hi PROVE f[lo + (k + 1)] \in S
    OBVIOUS
  <2>1. PICK i \in (lo + 1)..hi : i = lo + (k + 1) /\ i - 1 = lo + k
    OBVIOUS
  <2>2. f[i - 1] \in S
    BY <1>2, <2>1
  <2> QED BY <2>1, <2>2
<1>3. Nat \subseteq G
  <2> HIDE DEF G
  <2> QED BY <1>1, <1>2, Induction
<1>4. ASSUME NEW i \in lo..hi PROVE f[i] \in S
  <2>1. PICK k \in Nat : i = lo + k
    OBVIOUS
  <2> QED BY <1>3, <2>1
<1> QED BY <1>4

-----------------------------------------------------------------------------
(* The lengths of turn-state values.                                       *)

\* Whole blocks: the bytes of a value that parses, and the characters for them.
LEMMA ParsedLength ==
  ASSUME NEW v \in Value, Parses(v)
  PROVE  /\ BlocksOf(v) \in Nat \ {0}
         /\ RawLength(v.core) = FixedBytes + BlockBytes * BlocksOf(v)
<1>1. RawLength(v.core) \in Nat /\ RawLength(v.core) >= 73
  BY DEF Value, Parses, WellEnveloped, RawLength, MinRaw
<1>2. (RawLength(v.core) - 57) % 16 = 0
  BY DEF Parses, WellEnveloped, FixedBytes, BlockBytes
<1> QED BY <1>1, <1>2 DEF BlocksOf, FixedBytes, BlockBytes

\* One block more is at least 20 characters more; padding makes up for 2.
LEMMA BlocksSetApart ==
  ASSUME NEW v \in Value, NEW w \in Value, Parses(v), Parses(w), BlocksOf(v) < BlocksOf(w)
  PROVE  TextLength(v) < TextLength(w)
<1>1. BlocksOf(v) \in Nat /\ BlocksOf(w) \in Nat
  BY ParsedLength
<1>2. RawLength(v.core) + 16 <= RawLength(w.core)
  BY <1>1, ParsedLength DEF FixedBytes, BlockBytes
<1>3. v.core + 20 <= w.core
  BY <1>2 DEF Value, RawLength
<1> QED BY <1>3 DEF Value, Parses, TextLength

\* What is read is a piece, or nothing; a header among them is a value.
LEMMA ReadPiece ==
  /\ AnswersInit => piece \in Pieces \cup {Nothing}
  /\ [Read \/ Done]_piece /\ piece \in Pieces \cup {Nothing} => (piece \in Pieces \cup {Nothing})'
  /\ piece \in Pieces \cup {Nothing} /\ piece.kind = "header" => piece \in Value
<1>1. ASSUME piece \in Pieces \cup {Nothing}, piece.kind = "header" PROVE piece \in Value
  <2>1. Nothing.kind # "header"
    BY DEF Nothing
  <2> QED BY <1>1, <2>1, LinesAssumption DEF Of
<1> QED BY <1>1 DEF AnswersInit, Read, Done

\* Two values of one length that parse carry the same number of blocks, whatever
\* values are received.
THEOREM LengthsTell == Reading => []LengthTellsBlocks
<1>1. piece \in Pieces \cup {Nothing} => LengthTellsBlocks
  <2> SUFFICES ASSUME piece \in Pieces \cup {Nothing}, piece.kind = "header", Parses(piece),
                      NEW v \in Of("header"), Parses(v), TextLength(v) = TextLength(piece)
               PROVE  BlocksOf(v) = BlocksOf(piece)
    BY DEF LengthTellsBlocks
  <2>1. v \in Value /\ piece \in Value
    BY LinesAssumption, ReadPiece
  <2>2. BlocksOf(v) \in Nat /\ BlocksOf(piece) \in Nat
    BY <2>1, ParsedLength
  <2>3. TextLength(v) \in Nat /\ TextLength(piece) \in Nat
    BY <2>1 DEF Value, TextLength
  <2> QED BY <2>1, <2>2, <2>3, BlocksSetApart
<1> QED BY <1>1, ReadPiece, PTL DEF Reading

\* A value of 312 bytes is never of a shape that a store accepts, whatever values
\* are received: a degradation signal does not hide a state.
THEOREM SignalsHideNoState == Reading => []SignalIsNoState
<1>1. piece \in Pieces \cup {Nothing} => SignalIsNoState
  <2> SUFFICES ASSUME piece \in Pieces \cup {Nothing}, piece.kind = "header",
                      piece.blanks = 0, HeaderLength(piece) = 312,
                      NEW blocks \in {10, 12}, Parses(piece), BlocksOf(piece) = blocks
               PROVE  FALSE
    BY DEF SignalIsNoState, IsSignal, SignalLength, AccountBlocks, HasShape
  <2>1. piece \in Value
    BY ReadPiece
  <2>2. piece.core + piece.pads = 312 /\ piece.pads \in 0..2
    BY <2>1 DEF Value, HeaderLength, Parses
  <2>3. RawLength(piece.core) = 217 \/ RawLength(piece.core) = 249
    BY <2>1, ParsedLength DEF FixedBytes, BlockBytes
  <2>4. piece.core \in {310, 311, 312}
    BY <2>1, <2>2 DEF Value
  <2> QED BY <2>3, <2>4 DEF RawLength
<1> QED BY <1>1, ReadPiece, PTL DEF Reading

-----------------------------------------------------------------------------
(* What the scorer makes of a number of numbers.                           *)

LEMMA SizesSum ==
  ASSUME NEW n \in Nat
  PROVE  /\ \A i \in 0..3 : BlockSize(n, i) \in Nat
         /\ ((BlockSize(n, 0) + BlockSize(n, 1)) + BlockSize(n, 2)) + BlockSize(n, 3) = n
<1>1. n \div 4 \in Nat /\ n % 4 \in 0..3 /\ n = (4 * (n \div 4)) + (n % 4)
  OBVIOUS
<1>2. PICK q \in Nat, r \in 0..3 : q = n \div 4 /\ r = n % 4
  BY <1>1
<1>3. n = (4 * q) + r
  BY <1>1, <1>2
<1>4. \A i \in 0..3 : BlockSize(n, i) = q + (IF i < r THEN 1 ELSE 0)
  BY <1>2 DEF BlockSize
<1>5. \A i \in 0..3 : BlockSize(n, i) = IF i < r THEN q + 1 ELSE q
  BY <1>4
<1>6. /\ BlockSize(n, 0) = IF 0 < r THEN q + 1 ELSE q
      /\ BlockSize(n, 1) = IF 1 < r THEN q + 1 ELSE q
      /\ BlockSize(n, 2) = IF 2 < r THEN q + 1 ELSE q
      /\ BlockSize(n, 3) = q
  BY <1>5
<1>7. r = 0 \/ r = 1 \/ r = 2 \/ r = 3
  OBVIOUS
<1>8. ((BlockSize(n, 0) + BlockSize(n, 1)) + BlockSize(n, 2)) + BlockSize(n, 3) = n
  BY <1>3, <1>6, <1>7
<1> QED BY <1>5, <1>8

\* Each block starts where the one before it ends.
LEMMA BlocksFollow ==
  ASSUME NEW n \in Nat
  PROVE  /\ BlockStart(n, 0) = 0
         /\ \A i \in 1..3 : BlockStart(n, i) = BlockStart(n, i - 1) + BlockSize(n, i - 1)
<1> DEFINE step == [x \in Nat \X (1..3) |-> x[1] + BlockSize(n, x[2] - 1)]
           starts == CHOOSE f : f = [j \in 0..3 |-> IF j = 0 THEN 0
                                                    ELSE f[j - 1] + BlockSize(n, j - 1)]
<1>1. 0 + 1 = 1
  OBVIOUS
<1>2. PICK f : Computes(f, Nat, 0, 0, 3, step)
  <2>1. step \in [Nat \X (1..3) -> Nat]
    BY SizesSum
  <2> HIDE DEF step
  <2>2. Loop(Nat, 0, 0, 3, step)
    BY <1>1, <2>1 DEF Loop
  <2> QED BY <2>2, LoopComputes
<1>3. /\ f \in [0..3 -> Nat] /\ f[0] = 0
      /\ \A j \in 1..3 : f[j] = f[j - 1] + BlockSize(n, j - 1)
  <2> HIDE DEF step
  <2>1. /\ f \in [0..3 -> Nat] /\ f[0] = 0
        /\ \A j \in 1..3 : f[j] = step[<<f[j - 1], j>>]
    BY <1>1, <1>2 DEF Computes
  <2>2. \A j \in 1..3 : <<f[j - 1], j>> \in Nat \X (1..3)
    BY <2>1
  <2>3. \A j \in 1..3 : step[<<f[j - 1], j>>] = f[j - 1] + BlockSize(n, j - 1)
    BY <2>2 DEF step
  <2> QED BY <2>1, <2>3
<1>4. f = [j \in 0..3 |-> IF j = 0 THEN 0 ELSE f[j - 1] + BlockSize(n, j - 1)]
  <2>1. \A j \in 0..3 : j = 0 \/ j \in 1..3
    OBVIOUS
  <2> HIDE DEF step
  <2> QED BY <1>3, <2>1
<1>5. starts = [j \in 0..3 |-> IF j = 0 THEN 0 ELSE starts[j - 1] + BlockSize(n, j - 1)]
  BY <1>4
<1>6. \A i \in 0..3 : BlockStart(n, i) = starts[i]
  BY DEF BlockStart
<1>7. \A i \in 0..3 :
        BlockStart(n, i) = IF i = 0 THEN 0 ELSE starts[i - 1] + BlockSize(n, i - 1)
  <2> HIDE DEF starts
  <2> QED BY <1>5, <1>6
<1>8. \A i \in 1..3 : i # 0 /\ i - 1 \in 0..3 /\ i \in 0..3
  OBVIOUS
<1> HIDE DEF starts
<1> QED BY <1>6, <1>7, <1>8

LEMMA BlocksPart ==
  ASSUME NEW n \in Nat
  PROVE  /\ UNION {Block(n, i) : i \in 0..3} = 1..n
         /\ \A i, j \in 0..3 : i # j => Block(n, i) \cap Block(n, j) = {}
<1>1. PICK s0 \in Nat, s1 \in Nat, s2 \in Nat, s3 \in Nat :
        s0 = BlockSize(n, 0) /\ s1 = BlockSize(n, 1) /\ s2 = BlockSize(n, 2) /\ s3 = BlockSize(n, 3)
  <2>1. 0 \in 0..3 /\ 1 \in 0..3 /\ 2 \in 0..3 /\ 3 \in 0..3
    OBVIOUS
  <2>2. /\ BlockSize(n, 0) \in Nat /\ BlockSize(n, 1) \in Nat
        /\ BlockSize(n, 2) \in Nat /\ BlockSize(n, 3) \in Nat
    BY <2>1, SizesSum
  <2> QED BY <2>2
<1>2. ((s0 + s1) + s2) + s3 = n
  BY <1>1, SizesSum
<1>3. /\ BlockStart(n, 0) = 0 /\ BlockStart(n, 1) = s0 /\ BlockStart(n, 2) = s0 + s1
      /\ BlockStart(n, 3) = (s0 + s1) + s2
  <2>1. 1 - 1 = 0 /\ 2 - 1 = 1 /\ 3 - 1 = 2
    OBVIOUS
  <2>2. /\ BlockStart(n, 1) = BlockStart(n, 1 - 1) + BlockSize(n, 1 - 1)
        /\ BlockStart(n, 2) = BlockStart(n, 2 - 1) + BlockSize(n, 2 - 1)
        /\ BlockStart(n, 3) = BlockStart(n, 3 - 1) + BlockSize(n, 3 - 1)
    BY BlocksFollow
  <2>3. BlockStart(n, 0) = 0
    BY BlocksFollow
  <2> QED BY <1>1, <2>1, <2>2, <2>3
<1>4. /\ Block(n, 0) = 1..s0
      /\ Block(n, 1) = (s0 + 1)..(s0 + s1)
      /\ Block(n, 2) = ((s0 + s1) + 1)..((s0 + s1) + s2)
      /\ Block(n, 3) = (((s0 + s1) + s2) + 1)..n
  <2>1. 0 + 1 = 1 /\ 0 + s0 = s0
    OBVIOUS
  <2> QED BY <1>1, <1>2, <1>3, <2>1 DEF Block
<1>5. UNION {Block(n, i) : i \in 0..3} =
        ((Block(n, 0) \cup Block(n, 1)) \cup Block(n, 2)) \cup Block(n, 3)
  <2>1. 0..3 = {0, 1, 2, 3}
    OBVIOUS
  <2> QED BY <2>1
<1>6. UNION {Block(n, i) : i \in 0..3} = 1..n
  BY <1>2, <1>4, <1>5
<1>7. \A i, j \in 0..3 : i < j => Block(n, i) \cap Block(n, j) = {}
  <2>1. \A i, j \in 0..3 : i < j => <<i, j>> \in {<<0, 1>>, <<0, 2>>, <<0, 3>>, <<1, 2>>, <<1, 3>>, <<2, 3>>}
    OBVIOUS
  <2>2. /\ Block(n, 0) \cap Block(n, 1) = {} /\ Block(n, 0) \cap Block(n, 2) = {}
        /\ Block(n, 0) \cap Block(n, 3) = {} /\ Block(n, 1) \cap Block(n, 2) = {}
        /\ Block(n, 1) \cap Block(n, 3) = {} /\ Block(n, 2) \cap Block(n, 3) = {}
    BY <1>2, <1>4
  <2> QED BY <2>1, <2>2
<1>8. \A i, j \in 0..3 : i # j => i < j \/ j < i
  OBVIOUS
<1> QED BY <1>6, <1>7, <1>8

\* The scorer uses every answer the runner counts, for any answer to a challenge.
THEOREM ScorerAgrees == Reading => []ScorerUsesWhatRunnerCounts
<1>1. piece \in Pieces \cup {Nothing} => ScorerUsesWhatRunnerCounts
  <2> SUFFICES ASSUME piece \in Pieces \cup {Nothing}, piece.kind = "tally"
               PROVE  LET n == piece.parsed
                      IN  /\ n = piece.expected => n >= MinimumNumbers(piece.expected)
                          /\ n >= MinimumNumbers(piece.expected) =>
                               /\ n >= Minimum(piece.expected)
                               /\ \A used \in 1..MaxUsed : CalibrationKey(used) \in Calibrated
                               /\ UNION {Block(n, i) : i \in 0..3} = 1..n
                               /\ \A i, j \in 0..3 : i # j => Block(n, i) \cap Block(n, j) = {}
                               /\ \A value \in 1..355 : Bin(value) \in 0..15
    BY DEF ScorerUsesWhatRunnerCounts
  <2>1. piece \in Tally
    <3>1. Nothing.kind # "tally"
      BY DEF Nothing
    <3> QED BY <3>1, ScoringAssumption DEF Of
  <2>2. piece.expected \in 292..332 /\ piece.parsed \in Nat
    BY <2>1 DEF Tally
  <2>3. MinimumNumbers(piece.expected) = Minimum(piece.expected)
    BY <2>2 DEF MinimumNumbers, Minimum
  <2>4. piece.expected >= MinimumNumbers(piece.expected)
    BY <2>2 DEF MinimumNumbers, AtLeast, Ceil
  <2>5. \A used \in 1..MaxUsed : CalibrationKey(used) \in Calibrated
    BY ScoringAssumption DEF CalibrationKey, Calibrated, Least
  <2>6. \A value \in 1..355 : Bin(value) \in 0..15
    BY DEF Bin
  <2> QED BY <2>2, <2>3, <2>4, <2>5, <2>6, BlocksPart
<1> QED BY <1>1, ReadPiece, PTL DEF Reading

-----------------------------------------------------------------------------
(* The numbers found in an answer.                                         *)

Reads == [runs : Seq(Seq(Nat)), current : Seq(Nat)]

LEMMA AddTyped ==
  ASSUME NEW s \in Reads, NEW n \in Nat
  PROVE  Add(s, n) \in Reads
<1>1. [s EXCEPT !.current = Append(s.current, n)] \in Reads
  <2>1. Append(s.current, n) \in Seq(Nat)
    BY DEF Reads
  <2> QED BY <2>1 DEF Reads
<1> QED BY <1>1 DEF Add

LEMMA Appended ==
  ASSUME NEW S, NEW s \in Seq(S), NEW x \in S
  PROVE  /\ Len(s) \in Nat /\ DOMAIN s = 1..Len(s)
         /\ Len(Append(s, x)) = Len(s) + 1 /\ DOMAIN Append(s, x) = 1..(Len(s) + 1)
         /\ \A q \in DOMAIN s : Append(s, x)[q] = s[q] /\ q \in DOMAIN Append(s, x)
         /\ Append(s, x)[Len(s) + 1] = x /\ Len(s) + 1 \in DOMAIN Append(s, x)
OBVIOUS

LEMMA AppendedRun ==
  ASSUME NEW runs \in Seq(Seq(Nat)), NEW run \in Seq(Nat)
  PROVE  Append(runs, run) \in Seq(Seq(Nat))
<1> DEFINE Run == Seq(Nat)
<1>1. runs \in Seq(Run) /\ run \in Run
  OBVIOUS
<1>2. Append(runs, run) \in Seq(Run)
  <2> HIDE DEF Run
  <2> QED BY <1>1
<1> QED BY <1>2

LEMMA TakeTyped ==
  ASSUME NEW s \in Reads, NEW g \in Group
  PROVE  Take(s, g) \in Reads
<1>1. [runs |-> Append(s.runs, s.current), current |-> <<>>] \in Reads
  <2>1. s.runs \in Seq(Seq(Nat)) /\ s.current \in Seq(Nat)
    BY DEF Reads
  <2>2. Append(s.runs, s.current) \in Seq(Seq(Nat))
    BY <2>1, AppendedRun
  <2>3. <<>> \in Seq(Nat)
    OBVIOUS
  <2> QED BY <2>2, <2>3 DEF Reads
<1>2. g.value \in Nat
  BY DEF Group
<1> QED BY <1>1, <1>2, AddTyped DEF Take

\* parse_numbers() goes from group to group.
LEMMA ProgressSteps ==
  ASSUME NEW text \in Seq(Group)
  PROVE  /\ Progress(text)[0] = NoneRead
         /\ \A i \in 1..Len(text) : Progress(text)[i] = Take(Progress(text)[i - 1], text[i])
<1> DEFINE n == Len(text)
           step == [x \in Reads \X (1..n) |-> Take(x[1], text[x[2]])]
           after == CHOOSE f : f = [i \in 0..n |-> IF i = 0 THEN NoneRead
                                                   ELSE Take(f[i - 1], text[i])]
<1>1. 0 + 1 = 1
  OBVIOUS
<1>2. PICK f : Computes(f, Reads, NoneRead, 0, n, step)
  <2>1. step \in [Reads \X (1..n) -> Reads]
    BY TakeTyped
  <2>2. NoneRead \in Reads
    BY DEF NoneRead, Reads
  <2> HIDE DEF step
  <2>3. Loop(Reads, NoneRead, 0, n, step)
    BY <1>1, <2>1, <2>2 DEF Loop
  <2> QED BY <2>3, LoopComputes
<1>3. /\ f \in [0..n -> Reads] /\ f[0] = NoneRead
      /\ \A i \in 1..n : f[i] = Take(f[i - 1], text[i])
  <2> HIDE DEF step
  <2>1. /\ f \in [0..n -> Reads] /\ f[0] = NoneRead
        /\ \A i \in 1..n : f[i] = step[<<f[i - 1], i>>]
    BY <1>1, <1>2 DEF Computes
  <2>2. \A i \in 1..n : <<f[i - 1], i>> \in Reads \X (1..n)
    BY <2>1
  <2>3. \A i \in 1..n : step[<<f[i - 1], i>>] = Take(f[i - 1], text[i])
    BY <2>2 DEF step
  <2> QED BY <2>1, <2>3
<1>4. f = [i \in 0..n |-> IF i = 0 THEN NoneRead ELSE Take(f[i - 1], text[i])]
  <2>1. \A i \in 0..n : i = 0 \/ i \in 1..n
    OBVIOUS
  <2> HIDE DEF step
  <2> QED BY <1>3, <2>1
<1>5. after = [i \in 0..n |-> IF i = 0 THEN NoneRead ELSE Take(after[i - 1], text[i])]
  BY <1>4
<1>6. Progress(text) = after
  BY DEF Progress
<1>7. 0 \in 0..n /\ \A i \in 1..n : i \in 0..n /\ i # 0
  OBVIOUS
<1> HIDE DEF after
<1> QED BY <1>5, <1>6, <1>7

\* The numbers of a stretch, from group to group.
LEMMA NumbersSteps ==
  ASSUME NEW text \in Seq(Group), NEW first \in 1..(Len(text) + 1)
  PROVE  /\ Numbers(text, first, first - 1) = <<>>
         /\ \A i \in first..Len(text) :
              Numbers(text, first, i) =
                IF InRange(text[i].value)
                THEN Append(Numbers(text, first, i - 1), text[i].value)
                ELSE Numbers(text, first, i - 1)
         /\ \A i \in (first - 1)..Len(text) : Numbers(text, first, i) \in Seq(Nat)
<1> DEFINE n == Len(text)
           lo == first - 1
           Put(s, i) == IF InRange(text[i].value) THEN Append(s, text[i].value) ELSE s
           step == [x \in Seq(Nat) \X ((lo + 1)..n) |-> Put(x[1], x[2])]
           upto == CHOOSE f : f = [i \in lo..n |-> IF i = lo THEN <<>>
                                   ELSE IF InRange(text[i].value)
                                        THEN Append(f[i - 1], text[i].value) ELSE f[i - 1]]
<1>1. lo \in Int /\ n \in Int /\ lo <= n /\ (lo + 1)..n = first..n
  OBVIOUS
<1>2. Loop(Seq(Nat), <<>>, lo, n, step)
  <2>1. ASSUME NEW s \in Seq(Nat), NEW i \in (lo + 1)..n PROVE Put(s, i) \in Seq(Nat)
    <3>1. text[i] \in Group
      BY <1>1
    <3>2. text[i].value \in Nat
      BY <3>1 DEF Group
    <3> QED BY <3>2
  <2>2. step \in [Seq(Nat) \X ((lo + 1)..n) -> Seq(Nat)]
    <3> HIDE DEF Put, lo, n
    <3> QED BY <2>1
  <2>3. <<>> \in Seq(Nat)
    OBVIOUS
  <2> HIDE DEF step, lo, n
  <2> QED BY <1>1, <2>2, <2>3 DEF Loop
<1>3. PICK f : Computes(f, Seq(Nat), <<>>, lo, n, step)
  <2> HIDE DEF step, lo, n
  <2> QED BY <1>2, LoopComputes
<1>4. /\ f \in [lo..n -> Seq(Nat)] /\ f[lo] = <<>>
      /\ \A i \in (lo + 1)..n : f[i] = Put(f[i - 1], i)
  <2>1. /\ f \in [lo..n -> Seq(Nat)] /\ f[lo] = <<>>
        /\ \A i \in (lo + 1)..n : f[i] = step[<<f[i - 1], i>>]
    <3> HIDE DEF step, lo, n
    <3> QED BY <1>3 DEF Computes
  <2>2. \A i \in (lo + 1)..n : i - 1 \in lo..n
    BY <1>1
  <2>3. \A i \in (lo + 1)..n : step[<<f[i - 1], i>>] = Put(f[i - 1], i)
    <3> HIDE DEF Put, lo, n
    <3> QED BY <2>1, <2>2
  <2> HIDE DEF step, lo, n, Put
  <2> QED BY <2>1, <2>3
<1>5. f = [i \in lo..n |-> IF i = lo THEN <<>> ELSE Put(f[i - 1], i)]
  <2>1. \A i \in lo..n : i = lo \/ i \in (lo + 1)..n
    OBVIOUS
  <2> HIDE DEF step, lo, n, Put
  <2> QED BY <1>4, <2>1
<1>6. upto = [i \in lo..n |-> IF i = lo THEN <<>> ELSE Put(upto[i - 1], i)]
  BY <1>5
<1>7. \A i : Numbers(text, first, i) = upto[i]
  BY DEF Numbers
<1>8. lo \in lo..n /\ \A i \in (lo + 1)..n : i \in lo..n /\ i # lo
  OBVIOUS
<1>9. upto[lo] = <<>> /\ \A i \in (lo + 1)..n : upto[i] = Put(upto[i - 1], i)
  <2> HIDE DEF upto, lo, n, Put, step
  <2> QED BY <1>6, <1>8
<1>10. \A i \in lo..n : upto[i] \in Seq(Nat)
  <2>1. \A i \in (lo + 1)..n : upto[i - 1] \in Seq(Nat) => upto[i] = step[<<upto[i - 1], i>>]
    <3> HIDE DEF upto, lo, n, Put
    <3> QED BY <1>9
  <2> HIDE DEF upto, lo, n, Put, step
  <2> QED BY <1>2, <1>9, <2>1, LoopTyped
<1> HIDE DEF upto
<1> QED BY <1>1, <1>7, <1>9, <1>10

-----------------------------------------------------------------------------
\* What holds after so many groups.  The run under way is the numbers of a
\* stretch that ends here, and no stretch that ends here has more; ...
CurrentIsLongest(text, i, s) ==
  /\ \E a \in 1..(i + 1) : Stretch(text, a, i) /\ s.current = Numbers(text, a, i)
  /\ \A b \in 1..(i + 1) :
       Stretch(text, b, i) => Len(Numbers(text, b, i)) <= Len(s.current)

\* ... the runs before it are those of stretches that end earlier; ...
RunsAreStretches(text, i, s) ==
  \A r \in DOMAIN s.runs :
    /\ s.runs[r] # <<>>
    /\ \E j \in 0..i : \E a \in 1..(j + 1) :
         Stretch(text, a, j) /\ s.runs[r] = Numbers(text, a, j)

\* ... and no stretch up to here has more than each of them.
NoneIsLonger(text, i, s) ==
  \A j \in 0..i : \A b \in 1..(j + 1) :
    Stretch(text, b, j) =>
      \/ Len(Numbers(text, b, j)) <= Len(s.current)
      \/ \E r \in DOMAIN s.runs : Len(Numbers(text, b, j)) <= Len(s.runs[r])

SoFar(text, i, s) ==
  /\ s \in Reads
  /\ CurrentIsLongest(text, i, s)
  /\ RunsAreStretches(text, i, s)
  /\ NoneIsLonger(text, i, s)

LEMMA SoFarFirst ==
  ASSUME NEW text \in Seq(Group)
  PROVE  SoFar(text, 0, NoneRead)
<1>1. NoneRead \in Reads /\ NoneRead.runs = <<>> /\ NoneRead.current = <<>>
  BY DEF NoneRead, Reads
<1>2. Numbers(text, 1, 0) = <<>>
  <2>1. 1 \in 1..(Len(text) + 1) /\ 1 - 1 = 0
    OBVIOUS
  <2> QED BY <2>1, NumbersSteps
<1>3. Stretch(text, 1, 0)
  BY DEF Stretch
<1>4. 1..(0 + 1) = {1} /\ 0..0 = {0}
  OBVIOUS
<1>5. CurrentIsLongest(text, 0, NoneRead)
  BY <1>1, <1>2, <1>3, <1>4 DEF CurrentIsLongest
<1>6. RunsAreStretches(text, 0, NoneRead)
  BY <1>1 DEF RunsAreStretches
<1>7. NoneIsLonger(text, 0, NoneRead)
  BY <1>1, <1>2, <1>4 DEF NoneIsLonger
<1> QED BY <1>1, <1>5, <1>6, <1>7 DEF SoFar

\* A number is put after the run under way and after the numbers of a stretch alike.
LEMMA AddPuts ==
  ASSUME NEW s \in Reads, NEW n \in Nat
  PROVE  /\ Add(s, n).runs = s.runs
         /\ Add(s, n).current = IF InRange(n) THEN Append(s.current, n) ELSE s.current
BY DEF Add, Reads

LEMMA StretchEnds ==
  ASSUME NEW text, NEW i \in Nat \ {0}, NEW b \in 1..(i + 1)
  PROVE  /\ b <= i - 1 + 1 => (Stretch(text, b, i) <=>
              Stretch(text, b, i - 1) /\ (b # i => ~text[i].letters))
         /\ b >= i => Stretch(text, b, i)
<1>1. ASSUME b <= i PROVE Stretch(text, b, i) <=>
              Stretch(text, b, i - 1) /\ (b # i => ~text[i].letters)
  <2>1. CASE b = i
    BY <2>1 DEF Stretch
  <2>2. CASE b # i
    <3>1. \A m : m \in (b + 1)..i <=> (m \in (b + 1)..(i - 1) \/ m = i)
      BY <1>1, <2>2
    <3> QED BY <2>2, <3>1 DEF Stretch
  <2> QED BY <2>1, <2>2
<1>2. b >= i => Stretch(text, b, i)
  BY DEF Stretch
<1> QED BY <1>1, <1>2

\* Another group keeps all this.
LEMMA SoFarNext ==
  ASSUME NEW text \in Seq(Group), NEW i \in 1..Len(text), NEW s, SoFar(text, i - 1, s)
  PROVE  SoFar(text, i, Take(s, text[i]))
<1> DEFINE t == Take(s, text[i])
           v == text[i].value
           cuts == s.current # <<>> /\ text[i].letters
           N(b) == Numbers(text, b, i)
           M(b) == Numbers(text, b, i - 1)
<1>1. text[i] \in Group /\ v \in Nat /\ i \in Nat \ {0} /\ (i - 1) + 1 = i /\ i - 1 \in Nat
  <2>1. text[i] \in Group
    OBVIOUS
  <2>2. v \in Nat
    BY <2>1 DEF Group
  <2>3. i \in Nat \ {0} /\ (i - 1) + 1 = i /\ i - 1 \in Nat
    OBVIOUS
  <2> QED BY <2>1, <2>2, <2>3
<1>2. s \in Reads /\ s.runs \in Seq(Seq(Nat)) /\ s.current \in Seq(Nat)
  BY DEF SoFar, Reads
<1>3. t \in Reads
  BY <1>1, <1>2, TakeTyped
<1>4. /\ cuts => t.runs = Append(s.runs, s.current)
      /\ cuts => t.current = IF InRange(v) THEN Append(<<>>, v) ELSE <<>>
      /\ ~cuts => t.runs = s.runs
      /\ ~cuts => t.current = IF InRange(v) THEN Append(s.current, v) ELSE s.current
  <2> DEFINE cut == [runs |-> Append(s.runs, s.current), current |-> <<>>]
  <2>1. Append(s.runs, s.current) \in Seq(Seq(Nat))
    BY <1>2, AppendedRun
  <2>2. cut \in Reads
    <3>1. <<>> \in Seq(Nat)
      OBVIOUS
    <3> QED BY <2>1, <3>1 DEF Reads
  <2>3. t = IF cuts THEN Add(cut, v) ELSE Add(s, v)
    BY DEF Take
  <2> HIDE DEF t, v, cuts
  <2>4. /\ Add(cut, v).runs = Append(s.runs, s.current)
        /\ Add(cut, v).current = IF InRange(v) THEN Append(<<>>, v) ELSE <<>>
    <3>1. cut.runs = Append(s.runs, s.current) /\ cut.current = <<>>
      OBVIOUS
    <3> HIDE DEF cut
    <3> QED BY <1>1, <2>2, <3>1, AddPuts
  <2>5. /\ Add(s, v).runs = s.runs
        /\ Add(s, v).current = IF InRange(v) THEN Append(s.current, v) ELSE s.current
    BY <1>1, <1>2, AddPuts
  <2> HIDE DEF cut
  <2> QED BY <2>3, <2>4, <2>5
<1>5. \A b \in 1..i : /\ M(b) \in Seq(Nat)
                      /\ N(b) = IF InRange(v) THEN Append(M(b), v) ELSE M(b)
  <2> SUFFICES ASSUME NEW b \in 1..i
               PROVE  M(b) \in Seq(Nat) /\ N(b) = IF InRange(v) THEN Append(M(b), v) ELSE M(b)
    OBVIOUS
  <2>1. b \in 1..(Len(text) + 1) /\ i \in b..Len(text) /\ i - 1 \in (b - 1)..Len(text)
    OBVIOUS
  <2> QED BY <2>1, NumbersSteps
<1>6. M(i) = <<>> /\ N(i + 1) = <<>>
  <2>1. i \in 1..(Len(text) + 1) /\ i + 1 \in 1..(Len(text) + 1) /\ (i + 1) - 1 = i
    OBVIOUS
  <2> QED BY <2>1, NumbersSteps
<1>7. \A b \in 1..i : Stretch(text, b, i) <=> Stretch(text, b, i - 1) /\ (b # i => ~text[i].letters)
  BY <1>1, StretchEnds
<1>8. Stretch(text, i, i) /\ Stretch(text, i, i - 1)
  BY DEF Stretch
<1>9. N(i) = IF InRange(v) THEN Append(<<>>, v) ELSE <<>>
  <2>1. i \in 1..i
    BY <1>1
  <2> HIDE DEF N, M, v
  <2> QED BY <1>5, <1>6, <2>1
<1>10. ASSUME cuts
       PROVE  /\ DOMAIN t.runs = 1..(Len(s.runs) + 1) /\ DOMAIN s.runs = 1..Len(s.runs)
              /\ \A q \in DOMAIN s.runs : t.runs[q] = s.runs[q] /\ q \in DOMAIN t.runs
              /\ t.runs[Len(s.runs) + 1] = s.current /\ Len(s.runs) + 1 \in DOMAIN t.runs
  <2> DEFINE Run == Seq(Nat)
  <2>1. s.runs \in Seq(Run) /\ s.current \in Run
    BY <1>2
  <2> HIDE DEF Run, t, cuts
  <2> QED BY <1>4, <1>10, <2>1, Appended
<1> HIDE DEF t, v, N, M, cuts
<1>11. CurrentIsLongest(text, i, t)
  <2>1. \E a \in 1..(i + 1) : Stretch(text, a, i) /\ t.current = N(a)
    <3>1. CASE text[i].letters
      <4>1. t.current = N(i)
        <5>1. CASE cuts
          BY <1>4, <1>9, <5>1
        <5>2. CASE ~cuts
          <6>1. s.current = <<>>
            BY <3>1, <5>2 DEF cuts
          <6> QED BY <1>4, <1>9, <5>2, <6>1
        <5> QED BY <5>1, <5>2
      <4> QED BY <1>1, <1>8, <4>1
    <3>2. CASE ~text[i].letters
      <4>1. PICK a \in 1..i : Stretch(text, a, i - 1) /\ s.current = M(a)
        BY <1>1 DEF SoFar, CurrentIsLongest, M
      <4>2. Stretch(text, a, i)
        BY <1>7, <3>2, <4>1
      <4>3. t.current = N(a)
        BY <1>4, <1>5, <3>2, <4>1 DEF cuts
      <4>4. a \in 1..(i + 1)
        BY <1>1
      <4> QED BY <4>2, <4>3, <4>4
    <3> QED BY <3>1, <3>2
  <2>2. ASSUME NEW b \in 1..(i + 1), Stretch(text, b, i) PROVE Len(N(b)) <= Len(t.current)
    <3>1. t.current \in Seq(Nat)
      BY <1>3 DEF Reads
    <3>2. CASE b = i + 1
      BY <1>6, <3>1, <3>2
    <3>3. CASE b = i
      <4>1. <<>> \in Seq(Nat) /\ Len(<<>>) = 0
        OBVIOUS
      <4>2. /\ Len(Append(<<>>, v)) = 1 /\ Len(s.current) \in Nat
            /\ Len(Append(s.current, v)) = Len(s.current) + 1
        BY <1>1, <1>2, <4>1, Appended
      <4>3. Len(N(b)) = IF InRange(v) THEN 1 ELSE 0
        BY <1>9, <3>3, <4>1, <4>2
      <4>4. InRange(v) => Len(t.current) >= 1
        <5>1. CASE cuts
          <6>1. t.current = N(i)
            BY <1>4, <1>9, <5>1
          <6>2. Len(t.current) = IF InRange(v) THEN 1 ELSE 0
            BY <3>3, <4>3, <6>1
          <6>3. CASE InRange(v)
            <7>1. Len(t.current) = 1
              BY <6>2, <6>3
            <7> QED BY <7>1
          <6> QED BY <6>3
        <5>2. CASE ~cuts
          BY <1>4, <4>2, <5>2
        <5> QED BY <5>1, <5>2
      <4> QED BY <3>1, <4>3, <4>4
    <3>4. CASE b < i
      <4>1. b \in 1..i /\ Stretch(text, b, i - 1) /\ ~cuts
        BY <1>1, <1>7, <2>2, <3>4 DEF cuts
      <4>2. Len(M(b)) <= Len(s.current)
        BY <1>1, <4>1 DEF SoFar, CurrentIsLongest, M
      <4>3. M(b) \in Seq(Nat)
        BY <1>5, <4>1
      <4>4. /\ Len(Append(M(b), v)) = Len(M(b)) + 1 /\ Len(M(b)) \in Nat
            /\ Len(Append(s.current, v)) = Len(s.current) + 1 /\ Len(s.current) \in Nat
        BY <1>1, <1>2, <4>3, Appended
      <4>5. N(b) = IF InRange(v) THEN Append(M(b), v) ELSE M(b)
        BY <1>5, <4>1
      <4>6. Len(N(b)) = IF InRange(v) THEN Len(M(b)) + 1 ELSE Len(M(b))
        BY <4>4, <4>5
      <4>7. Len(t.current) = IF InRange(v) THEN Len(s.current) + 1 ELSE Len(s.current)
        BY <1>4, <4>1, <4>4
      <4> QED BY <4>2, <4>4, <4>6, <4>7
    <3> QED BY <1>1, <3>2, <3>3, <3>4
  <2> QED BY <2>1, <2>2 DEF CurrentIsLongest, N
<1>12. RunsAreStretches(text, i, t)
  <2> SUFFICES ASSUME NEW r \in DOMAIN t.runs
               PROVE  /\ t.runs[r] # <<>>
                      /\ \E j \in 0..i : \E a \in 1..(j + 1) :
                           Stretch(text, a, j) /\ t.runs[r] = Numbers(text, a, j)
    BY DEF RunsAreStretches
  <2>1. ASSUME r \in DOMAIN s.runs, t.runs[r] = s.runs[r]
        PROVE  /\ t.runs[r] # <<>>
               /\ \E j \in 0..i : \E a \in 1..(j + 1) :
                    Stretch(text, a, j) /\ t.runs[r] = Numbers(text, a, j)
    <3>1. \A j \in 0..(i - 1) : j \in 0..i
      BY <1>1
    <3> QED BY <2>1, <3>1 DEF SoFar, RunsAreStretches
  <2>2. CASE ~cuts
    BY <1>4, <2>1, <2>2
  <2>3. CASE cuts
    <3>1. /\ DOMAIN t.runs = 1..(Len(s.runs) + 1) /\ DOMAIN s.runs = 1..Len(s.runs)
          /\ \A q \in DOMAIN s.runs : t.runs[q] = s.runs[q] /\ q \in DOMAIN t.runs
          /\ t.runs[Len(s.runs) + 1] = s.current /\ Len(s.runs) + 1 \in DOMAIN t.runs
      BY <1>10, <2>3
    <3>5. Len(s.runs) \in Nat
      BY <1>2
    <3>2. CASE r \in DOMAIN s.runs
      BY <2>1, <3>1, <3>2
    <3>3. CASE r = Len(s.runs) + 1
      <4>1. PICK a \in 1..i : Stretch(text, a, i - 1) /\ s.current = Numbers(text, a, i - 1)
        BY <1>1 DEF SoFar, CurrentIsLongest
      <4>2. i - 1 \in 0..i /\ a \in 1..((i - 1) + 1)
        BY <1>1
      <4> QED BY <2>3, <3>1, <3>3, <4>1, <4>2 DEF cuts
    <3>4. r \in DOMAIN s.runs \/ r = Len(s.runs) + 1
      BY <3>1, <3>5
    <3> QED BY <3>2, <3>3, <3>4
  <2> QED BY <2>2, <2>3
<1>13. NoneIsLonger(text, i, t)
  <2> SUFFICES ASSUME NEW j \in 0..i, NEW b \in 1..(j + 1), Stretch(text, b, j)
               PROVE  \/ Len(Numbers(text, b, j)) <= Len(t.current)
                      \/ \E r \in DOMAIN t.runs : Len(Numbers(text, b, j)) <= Len(t.runs[r])
    BY DEF NoneIsLonger
  <2>1. CASE j = i
    BY <1>11, <2>1 DEF CurrentIsLongest
  <2>2. CASE j < i
    <3>1. j \in 0..(i - 1)
      BY <2>2
    <3>2. \/ Len(Numbers(text, b, j)) <= Len(s.current)
          \/ \E r \in DOMAIN s.runs : Len(Numbers(text, b, j)) <= Len(s.runs[r])
      BY <3>1 DEF SoFar, NoneIsLonger
    <3>3. CASE cuts
      <4> QED BY <1>10, <3>2, <3>3
    <3>4. CASE ~cuts
      <4>1. Len(s.current) <= Len(t.current) /\ Len(s.current) \in Nat /\ Len(t.current) \in Nat
        <5>1. /\ Len(Append(s.current, v)) = Len(s.current) + 1 /\ Len(s.current) \in Nat
          BY <1>1, <1>2, Appended
        <5>2. Len(t.current) = IF InRange(v) THEN Len(s.current) + 1 ELSE Len(s.current)
          BY <1>4, <3>4, <5>1
        <5> QED BY <5>1, <5>2
      <4>2. Len(Numbers(text, b, j)) \in Nat
        <5>1. b \in 1..(Len(text) + 1) /\ j \in (b - 1)..Len(text)
          OBVIOUS
        <5>2. Numbers(text, b, j) \in Seq(Nat)
          BY <5>1, NumbersSteps
        <5> QED BY <5>2
      <4> QED BY <1>4, <3>2, <3>4, <4>1, <4>2
    <3> QED BY <3>3, <3>4
  <2> QED BY <2>1, <2>2
<1>14. SoFar(text, i, t)
  BY <1>3, <1>11, <1>12, <1>13 DEF SoFar
<1> QED BY <1>14 DEF t

\* Among runs there are longest ones, and a last of them.
LEMMA LastOfLongest ==
  ASSUME NEW runs \in Seq(Seq(Nat)), runs # <<>>,
         NEW longest,
         longest = {i \in DOMAIN runs : \A j \in DOMAIN runs : Len(runs[j]) <= Len(runs[i])}
  PROVE  \E i \in longest : \A j \in longest : j <= i
<1>1. PICK n \in Nat \ {0} : n = Len(runs) /\ DOMAIN runs = 1..n
  OBVIOUS
<1>2. \A i \in 1..n : Len(runs[i]) \in Nat
  BY <1>1
<1> DEFINE Best(k, i) == \A j \in 1..k : Len(runs[j]) <= Len(runs[i])
           G == {k \in Nat : k + 1 <= n => \E i \in 1..(k + 1) : Best(k + 1, i)}
<1>3. 0 \in G
  <2>1. 0 + 1 = 1 /\ 1..1 = {1} /\ 1 \in 1..n
    OBVIOUS
  <2>2. Len(runs[1]) <= Len(runs[1])
    BY <1>2, <2>1
  <2>3. \E i \in 1..1 : Best(1, i)
    BY <2>1, <2>2
  <2> QED BY <2>1, <2>3
<1>4. ASSUME NEW k \in Nat, k \in G PROVE k + 1 \in G
  <2> SUFFICES ASSUME (k + 1) + 1 <= n
               PROVE  \E i \in 1..((k + 1) + 1) : Best((k + 1) + 1, i)
    OBVIOUS
  <2> DEFINE m == (k + 1) + 1
  <2>1. /\ k + 1 <= n /\ m \in 1..n /\ m <= m
        /\ \A i \in 1..(k + 1) : i \in 1..m /\ i \in 1..n
        /\ \A i \in 1..m : i = m \/ i \in 1..(k + 1)
        /\ m \in 1..m
    OBVIOUS
  <2>2. PICK i \in 1..(k + 1) : Best(k + 1, i)
    BY <1>4, <2>1
  <2> HIDE DEF m
  <2>3. CASE Len(runs[m]) <= Len(runs[i])
    <3>1. Best(m, i)
      BY <2>1, <2>2, <2>3
    <3> QED BY <2>1, <3>1 DEF m
  <2>4. CASE ~(Len(runs[m]) <= Len(runs[i]))
    <3>1. ASSUME NEW j \in 1..m PROVE Len(runs[j]) <= Len(runs[m])
      <4>1. CASE j = m
        BY <1>2, <2>1, <4>1
      <4>2. CASE j \in 1..(k + 1)
        <5>1. Len(runs[j]) <= Len(runs[i])
          BY <2>2, <4>2
        <5> QED BY <1>2, <2>1, <2>4, <4>2, <5>1
      <4> QED BY <2>1, <4>1, <4>2
    <3>2. Best(m, m)
      BY <3>1
    <3> QED BY <2>1, <3>2 DEF m
  <2> QED BY <2>3, <2>4
<1>5. \E i \in 1..n : Best(n, i)
  <2>1. Nat \subseteq G
    <3> HIDE DEF G
    <3> QED BY <1>3, <1>4, Induction
  <2>2. n - 1 \in Nat /\ (n - 1) + 1 = n
    OBVIOUS
  <2>3. n - 1 \in G
    <3> HIDE DEF G
    <3> QED BY <2>1, <2>2
  <2>4. \E i \in 1..((n - 1) + 1) : Best((n - 1) + 1, i)
    <3> HIDE DEF Best
    <3> QED BY <2>2, <2>3
  <2> HIDE DEF Best
  <2> QED BY <2>2, <2>4
<1>6. longest # {} /\ longest \subseteq 1..n
  BY <1>1, <1>5
<1> DEFINE back == {n - i : i \in longest}
<1>7. PICK b \in back : \A c \in back : b <= c
  <2>1. back \in SUBSET Nat /\ back # {}
    <3>1. \A i \in 1..n : n - i \in Nat
      OBVIOUS
    <3>2. \A i \in longest : n - i \in Nat
      BY <1>6, <3>1
    <3> QED BY <1>6, <3>2
  <2> HIDE DEF back
  <2> QED BY <2>1, LeastNumber
<1>8. PICK i \in longest : b = n - i
  BY <1>7
<1>9. \A j \in longest : j <= i
  <2>1. \A j \in longest : n - i <= n - j
    BY <1>7, <1>8
  <2>2. \A j \in longest : j \in 1..n
    BY <1>6
  <2> SUFFICES ASSUME NEW j \in longest PROVE j <= i
    OBVIOUS
  <2>3. j \in 1..n /\ i \in 1..n /\ n - i <= n - j
    BY <2>1, <2>2
  <2> QED BY <2>3
<1> QED BY <1>8, <1>9

\* What parse_numbers() has at the end of the text.
LEMMA SoFarAll ==
  ASSUME NEW text \in Seq(Group)
  PROVE  SoFar(text, Len(text), Progress(text)[Len(text)])
<1> DEFINE n == Len(text)
           G == {k \in Nat : k <= n => SoFar(text, k, Progress(text)[k])}
<1>1. 0 \in G
  BY ProgressSteps, SoFarFirst
<1>2. ASSUME NEW k \in Nat, k \in G PROVE k + 1 \in G
  <2> SUFFICES ASSUME k + 1 <= n PROVE SoFar(text, k + 1, Progress(text)[k + 1])
    OBVIOUS
  <2>1. k + 1 \in 1..n /\ (k + 1) - 1 = k /\ k <= n
    OBVIOUS
  <2>2. SoFar(text, (k + 1) - 1, Progress(text)[k])
    BY <1>2, <2>1
  <2>3. SoFar(text, k + 1, Take(Progress(text)[k], text[k + 1]))
    BY <2>1, <2>2, SoFarNext
  <2> QED BY <2>1, <2>3, ProgressSteps
<1>3. Nat \subseteq G
  <2> HIDE DEF G
  <2> QED BY <1>1, <1>2, Induction
<1>4. n \in Nat
  OBVIOUS
<1> QED BY <1>3, <1>4

\* parse_numbers() finds the numbers of a longest stretch.
LEMMA ParsedIsLongest ==
  ASSUME NEW text \in Seq(Group)
  PROVE  /\ ParseNumbers(text) # <<>> =>
              \E p \in Stretches(text) : ParseNumbers(text) = Numbers(text, p[1], p[2])
         /\ \A p \in Stretches(text) :
              Len(Numbers(text, p[1], p[2])) <= Len(ParseNumbers(text))
<1> DEFINE n == Len(text)
           end == Progress(text)[n]
           runs == Runs(text)
           longest == {i \in DOMAIN runs : \A j \in DOMAIN runs : Len(runs[j]) <= Len(runs[i])}
           parsed == ParseNumbers(text)
           FromStretch(s) == \E j \in 0..n : \E a \in 1..(j + 1) :
                               Stretch(text, a, j) /\ s = Numbers(text, a, j)
<1>1. SoFar(text, n, end) /\ n \in Nat /\ DOMAIN text = 1..n
  BY SoFarAll
<1>2. end \in Reads /\ end.runs \in Seq(Seq(Nat)) /\ end.current \in Seq(Nat)
  BY <1>1 DEF SoFar, Reads
<1>3. runs = IF end.current = <<>> THEN end.runs ELSE Append(end.runs, end.current)
  BY DEF Runs
<1> HIDE DEF end, n
<1>4. runs \in Seq(Seq(Nat))
  BY <1>2, <1>3, AppendedRun
<1>5. /\ \A r \in DOMAIN end.runs : r \in DOMAIN runs /\ runs[r] = end.runs[r]
      /\ end.current # <<>> => \E r \in DOMAIN runs : runs[r] = end.current
      /\ \A r \in DOMAIN runs : \/ r \in DOMAIN end.runs /\ runs[r] = end.runs[r]
                                \/ end.current # <<>> /\ runs[r] = end.current
  <2> HIDE DEF runs
  <2>1. CASE end.current = <<>>
    BY <1>3, <2>1
  <2>2. CASE end.current # <<>>
    <3> DEFINE Run == Seq(Nat)
    <3>1. end.runs \in Seq(Run) /\ end.current \in Run
      BY <1>2
    <3> HIDE DEF Run
    <3>2. runs = Append(end.runs, end.current)
      BY <1>3, <2>2
    <3>3. /\ DOMAIN runs = 1..(Len(end.runs) + 1) /\ DOMAIN end.runs = 1..Len(end.runs)
          /\ \A q \in DOMAIN end.runs : runs[q] = end.runs[q] /\ q \in DOMAIN runs
          /\ runs[Len(end.runs) + 1] = end.current /\ Len(end.runs) + 1 \in DOMAIN runs
          /\ Len(end.runs) \in Nat
      BY <3>1, <3>2, Appended
    <3>4. \A r \in DOMAIN runs : r \in DOMAIN end.runs \/ r = Len(end.runs) + 1
      BY <3>3
    <3> QED BY <2>2, <3>3, <3>4
  <2> QED BY <2>1, <2>2
<1>6. \A r \in DOMAIN runs : FromStretch(runs[r])
  <2> HIDE DEF runs
  <2>1. \A r \in DOMAIN end.runs : FromStretch(end.runs[r])
    BY <1>1 DEF SoFar, RunsAreStretches
  <2>2. FromStretch(end.current)
    <3>1. n \in 0..n
      BY <1>1
    <3> QED BY <1>1, <3>1 DEF SoFar, CurrentIsLongest
  <2> HIDE DEF FromStretch
  <2> QED BY <1>5, <2>1, <2>2
<1>7. parsed = IF runs = <<>> THEN <<>>
               ELSE runs[CHOOSE i \in longest : \A j \in longest : j <= i]
  BY DEF ParseNumbers
<1>8. runs # <<>> => \E i \in longest : parsed = runs[i]
  <2> HIDE DEF runs, parsed
  <2>1. ASSUME runs # <<>> PROVE \E i \in longest : \A j \in longest : j <= i
    <3>1. longest = {i \in DOMAIN runs : \A j \in DOMAIN runs : Len(runs[j]) <= Len(runs[i])}
      OBVIOUS
    <3> HIDE DEF longest
    <3> QED BY <1>4, <2>1, <3>1, LastOfLongest
  <2> HIDE DEF longest
  <2> QED BY <1>7, <2>1
<1> HIDE DEF runs, parsed
<1>9. /\ parsed # <<>> => FromStretch(parsed)
      /\ \A r \in DOMAIN runs : Len(runs[r]) <= Len(parsed)
      /\ Len(parsed) \in Nat
  <2>1. CASE runs = <<>>
    BY <1>7, <2>1
  <2>2. CASE runs # <<>>
    <3>1. PICK i \in DOMAIN runs :
            parsed = runs[i] /\ \A j \in DOMAIN runs : Len(runs[j]) <= Len(runs[i])
      BY <1>8, <2>2
    <3>2. Len(runs[i]) \in Nat
      BY <1>4
    <3> HIDE DEF FromStretch
    <3> QED BY <1>6, <3>1, <3>2
  <2> QED BY <2>1, <2>2
<1>10. ASSUME parsed # <<>>
       PROVE  \E p \in Stretches(text) : parsed = Numbers(text, p[1], p[2])
  <2>1. PICK j \in 0..n : \E a \in 1..(j + 1) : Stretch(text, a, j) /\ parsed = Numbers(text, a, j)
    BY <1>9, <1>10
  <2>2. PICK a \in 1..(j + 1) : Stretch(text, a, j) /\ parsed = Numbers(text, a, j)
    BY <2>1
  <2>3. a # j + 1
    <3> SUFFICES ASSUME a = j + 1 PROVE FALSE
      OBVIOUS
    <3>1. a \in 1..(Len(text) + 1) /\ j = a - 1
      BY <1>1 DEF n
    <3> QED BY <1>10, <2>2, <3>1, NumbersSteps
  <2>4. a \in 1..n /\ j \in 1..n /\ a <= j
    BY <1>1, <2>3
  <2>5. <<a, j>> \in Stretches(text)
    BY <1>1, <2>2, <2>4 DEF Stretches
  <2> QED BY <2>2, <2>5
<1>11. ASSUME NEW p \in Stretches(text) PROVE Len(Numbers(text, p[1], p[2])) <= Len(parsed)
  <2> DEFINE found == Numbers(text, p[1], p[2])
  <2>1. /\ p[1] \in 1..n /\ p[2] \in 1..n /\ p[1] <= p[2] /\ Stretch(text, p[1], p[2])
    BY <1>1 DEF Stretches
  <2>2. p[2] \in 0..n /\ p[1] \in 1..(p[2] + 1)
    BY <1>1, <2>1
  <2>3. \/ Len(found) <= Len(end.current)
        \/ \E r \in DOMAIN end.runs : Len(found) <= Len(end.runs[r])
    BY <1>1, <2>1, <2>2 DEF SoFar, NoneIsLonger
  <2>4. Len(found) \in Nat
    <3>1. p[1] \in 1..(Len(text) + 1) /\ p[2] \in (p[1] - 1)..Len(text)
      BY <1>1, <2>1 DEF n
    <3>2. found \in Seq(Nat)
      BY <3>1, NumbersSteps
    <3> QED BY <3>2
  <2> HIDE DEF found
  <2>5. ASSUME NEW r \in DOMAIN end.runs, Len(found) <= Len(end.runs[r])
        PROVE  Len(found) <= Len(parsed)
    <3>1. r \in DOMAIN runs /\ runs[r] = end.runs[r]
      BY <1>5
    <3>2. Len(runs[r]) \in Nat
      BY <1>4, <3>1
    <3> QED BY <1>9, <2>4, <2>5, <3>1, <3>2
  <2>6. ASSUME Len(found) <= Len(end.current) PROVE Len(found) <= Len(parsed)
    <3>1. CASE end.current = <<>>
      BY <1>9, <2>4, <2>6, <3>1
    <3>2. CASE end.current # <<>>
      <4>1. PICK r \in DOMAIN runs : runs[r] = end.current
        BY <1>5, <3>2
      <4>2. Len(runs[r]) \in Nat
        BY <1>4
      <4> QED BY <1>9, <2>4, <2>6, <4>1, <4>2
    <3> QED BY <3>1, <3>2
  <2>7. Len(found) <= Len(parsed)
    BY <2>3, <2>5, <2>6
  <2> QED BY <2>7 DEF found
<1> QED BY <1>10, <1>11 DEF parsed

\* In whatever text, parse_numbers() finds the numbers of a stretch without letters,
\* and none has more.
THEOREM LongestRunFound == Reading => []ParseFindsLongestRun
<1>1. piece \in Pieces \cup {Nothing} => ParseFindsLongestRun
  <2> SUFFICES ASSUME piece \in Pieces \cup {Nothing}, piece.kind = "text"
               PROVE  LET text == piece.groups
                          parsed == ParseNumbers(text)
                          numbers == {Numbers(text, p[1], p[2]) : p \in Stretches(text)}
                      IN  /\ parsed # <<>> => parsed \in numbers
                          /\ \A found \in numbers : Len(found) <= Len(parsed)
    BY DEF ParseFindsLongestRun
  <2>1. piece \in Text
    <3>1. Nothing.kind # "text"
      BY DEF Nothing
    <3> QED BY <3>1, ScoringAssumption DEF Of
  <2>2. piece.groups \in Seq(Group)
    BY <2>1 DEF Text
  <2> QED BY <2>2, ParsedIsLongest
<1> QED BY <1>1, ReadPiece, PTL DEF Reading

-----------------------------------------------------------------------------
(* The words of a failure.                                                 *)

\* Whatever the host answers, its word that the credential is gone is seen, and
\* only that.
THEOREM GoneIsSeen == Reading => []GoneCredentialIsSeen
<1>1. piece \in Pieces \cup {Nothing} => GoneCredentialIsSeen
  <2> SUFFICES ASSUME piece \in Pieces \cup {Nothing}, piece.kind = "host", ~RequestJson(piece).ok
               PROVE  LET told == /\ HasBytes(piece)
                                  /\ \/ piece.envelope = "error" /\ piece.code \in Codes
                                     \/ piece.says # {}
                      IN  /\ told <=> GivesUpRound(piece)
                          /\ told <=> ~BlamesEgress(piece)
    BY DEF GoneCredentialIsSeen
  <2>1. piece \in HostAnswer
    <3>1. Nothing.kind # "host"
      BY DEF Nothing
    <3> QED BY <3>1, HostAssumption DEF Of
  <2>2. piece.says \in SUBSET (Codes \cup Phrases)
    BY <2>1 DEF HostAnswer
  <2> DEFINE text == RequestJson(piece).text
  <2>3. /\ HasBytes(piece) => text = Words(piece)
        /\ ~HasBytes(piece) => text = {}
    <3>1. CASE HasBytes(piece)
      <4>1. Delivered(piece)
        BY <3>1 DEF Delivered, HasBytes
      <4>2. piece.envelope # "ok"
        BY <3>1, <4>1 DEF RequestJson
      <4> QED BY <3>1, <4>1, <4>2 DEF RequestJson
    <3>2. CASE ~HasBytes(piece)
      BY <3>2 DEF RequestJson
    <3> QED BY <3>1, <3>2
  <2>4. /\ GivesUpRound(piece) <=> Unavailable(text)
        /\ BlamesEgress(piece) <=> ~Unavailable(text)
    BY DEF GivesUpRound, BlamesEgress
  <2>5. Unavailable(Words(piece)) <=>
          (piece.envelope = "error" /\ piece.code \in Codes) \/ piece.says # {}
    BY <2>2 DEF Unavailable, Words
  <2>6. ~Unavailable({})
    BY DEF Unavailable
  <2> QED BY <2>3, <2>4, <2>5, <2>6
<1> QED BY <1>1, ReadPiece, PTL DEF Reading

-----------------------------------------------------------------------------
(* The names of credentials.                                               *)

\* A name of a credential is no other one's.
LEMMA OneOwner ==
  ASSUME NEW o \in DOMAIN IdOf, NEW name \in {IdOf[o], IndexOf[o]}
  PROVE  /\ \A other \in DOMAIN IdOf : name \in {IdOf[other], IndexOf[other]} => other = o
         /\ OwnerOf(name) = o
<1>1. \A other \in DOMAIN IdOf : name \in {IdOf[other], IndexOf[other]} => other = o
  BY NamesAssumption
<1> QED BY <1>1 DEF OwnerOf

\* A job goes by a name of the credential, or by the request's own id.
LEMMA KeyNames ==
  ASSUME NEW p \in Named
  PROVE  /\ p.owner \in DOMAIN IdOf /\ Key(p) = <<Key(p)[1], p.model>>
         /\ \/ Key(p)[1] \in {IdOf[p.owner], IndexOf[p.owner]}
            \/ p \in Of("request") /\ Key(p)[1] = p.rid
<1>1. CASE p \in Of("request")
  <2>1. p.kind = "request" /\ p.owner \in DOMAIN IdOf /\ Truly(p)
    BY <1>1, NamesAssumption DEF RequestPiece
  <2> QED BY <1>1, <2>1 DEF Key, RequestKey, Truly, Given
<1>2. CASE p \in Of("file")
  <2>1. p.kind = "file" /\ p.owner \in DOMAIN IdOf /\ Truly(p)
    BY <1>2, NamesAssumption DEF FilePiece
  <2>2. Given(p.id) \/ (p.id = NotGiven /\ Given(p.index))
    BY <1>2, NamesAssumption
  <2> QED BY <2>1, <2>2 DEF Key, FileKey, Truly, Given
<1> QED BY <1>1, <1>2 DEF Named

\* A probe is sent with the credential that the piece is of.
LEMMA ProbedWithOwner ==
  ASSUME NEW p \in Named
  PROVE  ProbedWith(p) \in {p.owner, Nobody}
<1>1. p.owner \in DOMAIN IdOf /\ Truly(p) /\ p.kind \in {"request", "file"}
  <2>1. CASE p \in Of("request")
    BY <2>1, NamesAssumption DEF RequestPiece
  <2>2. CASE p \in Of("file")
    BY <2>2, NamesAssumption DEF FilePiece
  <2> QED BY <2>1, <2>2 DEF Named
<1>2. JobIndex(p) # NotGiven => JobIndex(p) = IndexOf[p.owner]
  BY <1>1 DEF JobIndex, Truly, Given
<1>3. JobId(p) # "" => JobId(p) \in {IdOf[p.owner], IndexOf[p.owner]}
  <2>1. CASE p.kind = "request"
    BY <1>1, <2>1 DEF JobId, Truly, Given
  <2>2. CASE p.kind = "file"
    <3>1. Given(p.id) \/ (p.id = NotGiven /\ Given(p.index))
      <4>1. p \in Of("file")
        BY <2>2 DEF Named, Of
      <4> QED BY <4>1, NamesAssumption
    <3> QED BY <1>1, <2>2, <3>1 DEF JobId, FileKey, Truly, Given
  <2> QED BY <1>1, <2>1, <2>2
<1>4. \A name \in {IdOf[p.owner], IndexOf[p.owner]} : OwnerOf(name) = p.owner
  BY <1>1, OneOwner
<1> QED BY <1>2, <1>3, <1>4 DEF ProbedWith

\* Pieces that share a job are of one credential.
LEMMA SameKeySameOwner ==
  ASSUME NEW p \in Named, NEW q \in Named, Key(p) = Key(q)
  PROVE  p.owner = q.owner /\ p.model = q.model
<1>1. p.model = q.model
  BY KeyNames
<1>2. CASE Key(p)[1] \in {IdOf[p.owner], IndexOf[p.owner]}
  <2>1. CASE Key(q)[1] \in {IdOf[q.owner], IndexOf[q.owner]}
    BY <1>2, <2>1, KeyNames, OneOwner
  <2>2. CASE q \in Of("request") /\ Key(q)[1] = q.rid
    BY <1>2, <2>2, KeyNames, NamesAssumption
  <2> QED BY <2>1, <2>2, KeyNames
<1>3. CASE p \in Of("request") /\ Key(p)[1] = p.rid
  <2>1. CASE Key(q)[1] \in {IdOf[q.owner], IndexOf[q.owner]}
    BY <1>3, <2>1, KeyNames, NamesAssumption
  <2>2. CASE q \in Of("request") /\ Key(q)[1] = q.rid
    <3>1. p.rid = q.rid
      BY <1>3, <2>2
    <3>2. p \in Of("request") /\ q \in Of("request")
      BY <1>3, <2>2
    <3>3. p.owner = q.owner
      BY <3>1, <3>2, NamesAssumption
    <3> QED BY <1>1, <3>3
  <2> QED BY <2>1, <2>2, KeyNames
<1> QED BY <1>1, <1>2, <1>3, KeyNames

\* No state reaches another account by way of a name, whatever the host's names.
THEOREM NamesKeepApart == Reading => []KeysTellCredentialsApart
<1>1. piece \in Pieces \cup {Nothing} => KeysTellCredentialsApart
  <2> SUFFICES ASSUME piece \in Pieces \cup {Nothing}, piece.kind \in {"request", "file"}
               PROVE  KeysTellCredentialsApart
    BY DEF KeysTellCredentialsApart
  <2>1. piece \in Named
    <3>1. Nothing.kind \notin {"request", "file"}
      BY DEF Nothing
    <3> QED BY <3>1 DEF Named, Of
  <2>2. ProbedWith(piece) \in {piece.owner, Nobody}
    BY <2>1, ProbedWithOwner
  <2>3. ASSUME NEW p \in Named, Key(p) = Key(piece)
        PROVE  p.model = piece.model /\ ProbedWith(p) \in {piece.owner, Nobody}
    <3>1. p.owner = piece.owner /\ p.model = piece.model
      BY <2>1, <2>3, SameKeySameOwner
    <3> QED BY <3>1, ProbedWithOwner
  <2>4. ASSUME piece.kind = "file", piece.id # NotGiven, NEW r \in Of("request"),
               r.owner = piece.owner, r.model = piece.model, Given(r.id)
        PROVE  Key(r) = Key(piece)
    <3>1. piece.id = IdOf[piece.owner]
      <4>1. piece \in Of("file")
        BY <2>1, <2>4 DEF Named, Of
      <4> QED BY <2>4, <4>1, NamesAssumption DEF Truly, Given
    <3>2. r.kind = "request" /\ r.id = IdOf[r.owner]
      BY <2>4, NamesAssumption DEF Truly, Given, Of
    <3> QED BY <2>4, <3>1, <3>2 DEF Key, RequestKey, FileKey
  <2>5. ASSUME piece.kind = "request", Given(piece.id) PROVE RestoredKey(piece) = Key(piece)
    BY <2>5 DEF RestoredKey, JobId, Key, RequestKey
  <2> QED BY <2>2, <2>3, <2>4, <2>5 DEF KeysTellCredentialsApart
<1> QED BY <1>1, ReadPiece, PTL DEF Reading
=============================================================================
