------------------------------- MODULE Encoding -------------------------------
(***************************************************************************)
(* Pure helpers shared by the circuit models: exact sums, and the          *)
(* big-endian bits the Output* calls write.                                *)
(***************************************************************************)
EXTENDS Integers, Sequences

\* The sum of a sequence of naturals, as exact integer addition.
SumSeq(s) ==
  LET f[i \in 0..Len(s)] == IF i = 0 THEN 0 ELSE f[i - 1] + s[i]
  IN  f[Len(s)]

\* Bug variant: the bits of v not reduced mod 2.
BitsUnmasked(v, w) == [i \in 1..w |-> v \div 2^(w - i)]

\* v written as w big-endian bits.
Bits(v, w) == [i \in 1..w |-> (v \div 2^(w - i)) % 2]

\* The buffer the Output* calls build: each value appended in declaration
\* order as ws[j] bits.
Encode(vs, ws) ==
  LET enc[j \in 0..Len(vs)] == IF j = 0 THEN <<>> ELSE enc[j - 1] \o Bits(vs[j], ws[j])
  IN  enc[Len(vs)]

-----------------------------------------------------------------------------
(* What the recursive definitions above compute, on sets of arguments.      *)
(* Each holds for every argument, but proving it needs induction over the  *)
(* length of a sequence; the MC modules check them on bounded sets, and    *)
(* the proof modules take the unbounded forms as their hypotheses.          *)

\* A sum of naturals is a natural.
SumSeqNatOn(S) == \A s \in S : SumSeq(s) \in Nat

\* The buffer of values vs written at widths ws is a bit string.
EncodeBinaryOn(VS, WS) ==
  \A vs \in VS, ws \in WS : Len(vs) = Len(ws) => Encode(vs, ws) \in Seq({0, 1})

SumSeqNat == SumSeqNatOn(Seq(Nat))
EncodeBinary == EncodeBinaryOn(Seq(Int), Seq(Nat))

===============================================================================
