------------------------------- MODULE TurnState -------------------------------
(***************************************************************************)
(* The envelope of a turn-state value, as TurnState::parse() reads it      *)
(* (fixgpt-core/src/token.rs), and the two lengths the plugin goes by: the *)
(* number of blocks a store accepts and the 312 bytes it takes for the     *)
(* degradation signal.  A value is a header line: so many blanks around    *)
(* it, base64 characters, padding characters, and what decoding finds.     *)
(***************************************************************************)
EXTENDS Answers, Integers

MinRaw == 73            \* MIN_RAW_LEN
FixedBytes == 57        \* FIXED_BYTES
BlockBytes == 16        \* BLOCK_BYTES
MaxText == 2048         \* MAX_TEXT_LEN
SignalLength == 312     \* DEGRADED_STATE_LEN

\* The shapes of the account kinds (AccountKind::blocks).
AccountBlocks == {10, 12}

Value ==
  [kind   : {"header"},
   blanks : Nat,        \* whitespace before and after
   spaced : BOOLEAN,    \* whitespace inside
   core   : Nat,        \* characters up to the padding
   pads   : Nat,        \* trailing '=' characters
   clean  : BOOLEAN,    \* the core is of the alphabet, with no bits left over
   marked : BOOLEAN,    \* its first byte is ENVELOPE_PREFIX
   timely : BOOLEAN]    \* its timestamp is between MIN_TIMESTAMP and MAX_TIMESTAMP

ASSUME LinesAssumption == Of("header") \subseteq Value

\* The length of the header as the response observer sees it, and trimmed.
HeaderLength(v) == v.blanks + v.core + v.pads
TextLength(v) == v.core + v.pads

\* The bytes that base64 characters without padding stand for.
RawLength(core) == (core * 3) \div 4
Decodes(v) == v.clean /\ v.core % 4 # 1

WellEncoded(v) ==
  /\ TextLength(v) > 0 /\ TextLength(v) <= MaxText
  /\ ~v.spaced
  /\ Decodes(v)

\* Mutant: the bytes past the last whole block are let pass.
WellEnvelopedLoosely(v) == RawLength(v.core) >= MinRaw /\ v.marked

WellEnveloped(v) ==
  /\ RawLength(v.core) >= MinRaw
  /\ v.marked
  /\ (RawLength(v.core) - FixedBytes) % BlockBytes = 0

Parses(v) == WellEncoded(v) /\ v.pads <= 2 /\ WellEnveloped(v) /\ v.timely

\* Mutant: the blocks past the shortest value that is let pass.
BlocksPastMin(v) == (RawLength(v.core) - MinRaw) \div BlockBytes

BlocksOf(v) == (RawLength(v.core) - FixedBytes) \div BlockBytes

\* The business path and the harvest both go by the length alone.
IsSignal(v) == HeaderLength(v) = SignalLength

\* StatePolicy::accept(), but for the times.
HasShape(v, blocks) == Parses(v) /\ BlocksOf(v) = blocks

-----------------------------------------------------------------------------
\* The length tells the shape: of two values that parse, padded or not, those
\* of the same length carry the same number of blocks.  Only so may 292, 312
\* and 332 stand for 10, 11 and 12 blocks (README.md:19, token.rs:46-59).
LengthTellsBlocks ==
  piece.kind = "header" /\ Parses(piece) =>
    \A v \in Of("header") :
      Parses(v) /\ TextLength(v) = TextLength(piece) => BlocksOf(v) = BlocksOf(piece)

\* What is taken for the degradation signal by its length is no state that a
\* store of either account kind would accept, so that no good state is thrown
\* away for its length (runtime.rs:2811-2819).  A header has no blanks around it.
SignalIsNoState ==
  piece.kind = "header" /\ piece.blanks = 0 /\ IsSignal(piece) =>
    \A blocks \in AccountBlocks : ~HasShape(piece, blocks)
=============================================================================
