-------------------------------- MODULE Scoring --------------------------------
(***************************************************************************)
(* What a model test makes of the answers (modeltrace-core), up to the     *)
(* floating-point statistics: the numbers found in an answer, whether they *)
(* are enough, and how they are cut up for the features.                   *)
(***************************************************************************)
EXTENDS Answers, Integers, Sequences

CONSTANT MaxUsed        \* answers a test scores at most (TARGET_VALID)

\* A group of digits: are there letters between the previous one and it, and
\* the number it spells (one that no i64 holds is out of range as well).
Group == [letters : BOOLEAN, value : Nat]

\* An answer as its groups; and how many numbers a challenge asked for
\* (MIN_LENGTH to MAX_LENGTH) and how many came.
Text == [kind : {"text"}, groups : Seq(Group)]
Tally == [kind : {"tally"}, expected : 292..332, parsed : Nat]

ASSUME ScoringAssumption ==
  /\ MaxUsed \in Nat
  /\ Of("text") \subseteq Text
  /\ Of("tally") \subseteq Tally

Ceil(a, b) == (a + b - 1) \div b
AtLeast(n, m) == IF n > m THEN n ELSE m
Least(n, m) == IF n < m THEN n ELSE m

-----------------------------------------------------------------------------
(* parse_numbers()                                                         *)

InRange(n) == n \in 1..355

Add(s, n) == IF InRange(n) THEN [s EXCEPT !.current = Append(@, n)] ELSE s

\* Mutant: a number out of range ends a run.
TakeStrict(s, g) ==
  IF s.current # <<>> /\ (g.letters \/ ~InRange(g.value))
  THEN Add([runs |-> Append(s.runs, s.current), current |-> <<>>], g.value)
  ELSE Add(s, g.value)

\* Letters end a run, if there is one; a number out of range is skipped.
Take(s, g) ==
  IF s.current # <<>> /\ g.letters
  THEN Add([runs |-> Append(s.runs, s.current), current |-> <<>>], g.value)
  ELSE Add(s, g.value)

NoneRead == [runs |-> <<>>, current |-> <<>>]

\* The runs after each of the groups.
Progress(text) ==
  LET after[i \in 0..Len(text)] == IF i = 0 THEN NoneRead ELSE Take(after[i - 1], text[i])
  IN  after

Runs(text) ==
  LET end == Progress(text)[Len(text)]
  IN  IF end.current = <<>> THEN end.runs ELSE Append(end.runs, end.current)

\* max_by_key(Vec::len): the last of the longest.
ParseNumbers(text) ==
  LET runs == Runs(text)
      longest == {i \in DOMAIN runs : \A j \in DOMAIN runs : Len(runs[j]) <= Len(runs[i])}
  IN  IF runs = <<>> THEN <<>> ELSE runs[CHOOSE i \in longest : \A j \in longest : j <= i]

-----------------------------------------------------------------------------
(* Is an answer long enough?  For the runner, while it asks, and for the   *)
(* scorer at the end.  0.55 is not a binary fraction, but for the lengths  *)
(* of the challenges the product rounds to the same integer.               *)

MinimumNumbers(expected) == AtLeast(Ceil(55 * expected, 100), 80)

\* Mutant: the scorer asks for three fifths.
MinimumHigher(expected) ==
  IF expected = 0 THEN 80 ELSE AtLeast(Ceil(60 * expected, 100), 80)

Minimum(expected) ==
  IF expected = 0 THEN 80 ELSE AtLeast(Ceil(55 * expected, 100), 80)

\* The bank is calibrated for one answer, two, and three or more.
Calibrated == {1, 2, 3}
CalibrationKey(used) == Least(used, 3)

-----------------------------------------------------------------------------
(* The features: four blocks of sixteen bins.                              *)

BlockSize(n, i) == n \div 4 + (IF i < n % 4 THEN 1 ELSE 0)

\* Each chunk starts where the one before it ends.
BlockStart(n, i) ==
  LET start[j \in 0..3] == IF j = 0 THEN 0 ELSE start[j - 1] + BlockSize(n, j - 1)
  IN  start[i]
Block(n, i) == (BlockStart(n, i) + 1)..(BlockStart(n, i) + BlockSize(n, i))

Bin(value) == ((value - 1) * 16) \div 355

-----------------------------------------------------------------------------
\* The numbers in the groups from one place to another.
Numbers(text, first, last) ==
  LET upto[i \in (first - 1)..Len(text)] ==
        IF i = first - 1 THEN <<>>
        ELSE IF InRange(text[i].value) THEN Append(upto[i - 1], text[i].value)
        ELSE upto[i - 1]
  IN  upto[last]

Stretch(text, first, last) == \A m \in (first + 1)..last : ~text[m].letters
Stretches(text) ==
  {p \in (DOMAIN text) \X (DOMAIN text) : p[1] <= p[2] /\ Stretch(text, p[1], p[2])}

\* The numbers of an answer are those of a stretch without letters in it, and no
\* such stretch has more: a count or a range named in a sentence around them is
\* not taken for one of them, and a number out of range neither counts nor
\* breaks the sequence (parse_numbers).
ParseFindsLongestRun ==
  piece.kind = "text" =>
    LET text == piece.groups
        parsed == ParseNumbers(text)
        numbers == {Numbers(text, p[1], p[2]) : p \in Stretches(text)}
    IN  /\ parsed # <<>> => parsed \in numbers
        /\ \A found \in numbers : Len(found) <= Len(parsed)

\* Every number of an answer that the runner counts is scored.  The scorer uses
\* the answer (minimum_numbers and analyze_outputs have each a formula of their
\* own), the bank is calibrated for as many, and the blocks part it: no slice
\* runs past its end, no number is left out, and each has its bin.  An obedient
\* answer counts.
ScorerUsesWhatRunnerCounts ==
  piece.kind = "tally" =>
    LET n == piece.parsed
    IN  /\ n = piece.expected => n >= MinimumNumbers(piece.expected)
        /\ n >= MinimumNumbers(piece.expected) =>
             /\ n >= Minimum(piece.expected)
             /\ \A used \in 1..MaxUsed : CalibrationKey(used) \in Calibrated
             /\ UNION {Block(n, i) : i \in 0..3} = 1..n
             /\ \A i, j \in 0..3 : i # j => Block(n, i) \cap Block(n, j) = {}
             /\ \A value \in 1..355 : Bin(value) \in 0..15
=============================================================================
