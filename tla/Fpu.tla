--------------------------------- MODULE Fpu ---------------------------------
(***************************************************************************)
(* The floating point unit (nemu/src/cpu/fpu.c): numbers with a sign, an   *)
(* exponent and a fraction, and the four operations on them, which end in  *)
(* internal_normalize with three guard bits below the fraction.  The       *)
(* widths are parameters; a NaN is one of the two patterns the code knows, *)
(* with the first bit of the fraction set.                                 *)
(***************************************************************************)
EXTENDS Integers

CONSTANTS ExpBits,    \* 8
          FracBits,   \* 23
          DivBits     \* bits of the dividend that internal_float_div works with: 64

ASSUME FpuAssumption == /\ ExpBits \in Nat \ {0, 1} /\ FracBits \in Nat \ 0 .. 3
                        /\ DivBits \in Nat /\ DivBits >= 2 * FracBits + 6

MaxExp == 2^ExpBits - 1                \* 0xff
Bias == 2^(ExpBits - 1) - 1            \* 127
Hidden == 2^FracBits                   \* 0x800000

Float == [sign : {0, 1}, exponent : 0 .. MaxExp, fraction : 0 .. Hidden - 1]
Zero(s) == [sign |-> s, exponent |-> 0, fraction |-> 0]
Inf(s) == [sign |-> s, exponent |-> MaxExp, fraction |-> 0]
NaN(s) == [sign |-> s, exponent |-> MaxExp, fraction |-> Hidden \div 2]
IsZero(a) == a = Zero(a.sign)
IsInf(a) == a = Inf(a.sign)
IsNaN(a) == a = NaN(a.sign)
Numbers == {a \in Float : a.exponent = MaxExp => IsInf(a) \/ IsNaN(a)}

Xor(a, b) == IF a.sign = b.sign THEN 0 ELSE 1
Negated(a) == [a EXCEPT !.sign = 1 - @]

\* Significand with the hidden bit, and the exponent with which it counts.
Sig(a) == IF a.exponent # 0 THEN a.fraction + Hidden ELSE a.fraction
Exp(a) == IF a.exponent = 0 THEN 1 ELSE a.exponent

\* A shift to the right by one in which the last bit is sticky.
Sticky(sig) == LET h == sig \div 2 IN IF sig % 2 = 1 /\ h % 2 = 0 THEN h + 1 ELSE h
StickyBy[sig \in Nat, n \in Nat] == IF n = 0 THEN sig ELSE StickyBy[Sticky(sig), n - 1]

\* The bits of a significand with guard bits that are above its fraction.
Top(sig) == sig \div 2^(FracBits + 3)

-----------------------------------------------------------------------------
(* internal_normalize.                                                     *)

\* The two loops; both return the exponent and the significand.
ToRight[exp \in Int, sig \in Nat] ==
    IF (Top(sig) > 1 /\ exp < MaxExp) \/ (sig > 4 /\ exp < 0)
    THEN ToRight[exp + 1, Sticky(sig)] ELSE [exp |-> exp, sig |-> sig]
ToLeft[exp \in Int, sig \in Nat] ==
    IF Top(sig) = 0 /\ exp > 0
    THEN ToLeft[exp - 1, 2 * sig] ELSE [exp |-> exp, sig |-> sig]

\* The three cases before rounding; over: the result is infinity or zero.
Scaled[exp \in Int, sig \in Nat] ==
    CASE Top(sig) > 1 \/ exp < 0 ->
           LET r == ToRight[exp, sig]
           IN CASE r.exp >= MaxExp -> [exp |-> MaxExp, sig |-> 0, over |-> TRUE]
                [] r.exp = 0       -> [exp |-> 0, sig |-> Sticky(r.sig), over |-> FALSE]
                [] r.exp < 0       -> [exp |-> 0, sig |-> 0, over |-> TRUE]
                [] OTHER           -> [exp |-> r.exp, sig |-> r.sig, over |-> FALSE]
      [] Top(sig) = 0 /\ exp > 0 ->
           LET r == ToLeft[exp, sig]
           IN [exp |-> r.exp, sig |-> IF r.exp = 0 THEN Sticky(r.sig) ELSE r.sig,
               over |-> FALSE]
      [] exp = 0 /\ Top(sig) = 1 -> [exp |-> 1, sig |-> sig, over |-> FALSE]
      [] OTHER -> [exp |-> exp, sig |-> sig, over |-> FALSE]

\* Rounding to the nearest, to even in the middle.
RoundsUpAlways(sig) == sig % 8 >= 4      \* mutant: the middle is rounded up
RoundsUp(sig) == sig % 8 > 4 \/ (sig % 8 = 4 /\ (sig \div 8) % 2 = 1)

\* After rounding up the number is normalized once more.
Normalize[sign \in {0, 1}, exp \in Int, sig \in Nat] ==
    LET n == Scaled[exp, sig]
        whole == n.sig \div 8
    IN CASE n.over -> [sign |-> sign, exponent |-> n.exp, fraction |-> n.sig]
         [] ~n.over /\ RoundsUp(n.sig) -> Normalize[sign, n.exp, 8 * (whole + 1)]
         [] OTHER -> [sign |-> sign, exponent |-> n.exp % 2^ExpBits,
                      fraction |-> whole % Hidden]

-----------------------------------------------------------------------------
(* internal_float_add, _sub, _mul and _div compute a op b.                 *)

\* The sum with the smaller exponent aligned.
Aligned(lo, hi) ==
    LET a == StickyBy[8 * Sig(lo), Exp(hi) - Exp(lo)]
        sum == (IF lo.sign = 1 THEN -a ELSE a)
               + (IF hi.sign = 1 THEN -8 * Sig(hi) ELSE 8 * Sig(hi))
    IN Normalize[IF sum < 0 THEN 1 ELSE 0, hi.exponent, IF sum < 0 THEN -sum ELSE sum]
FloatAdd(a, b) ==
    CASE IsZero(a) /\ IsZero(b) -> Zero(IF a.sign = 1 /\ b.sign = 1 THEN 1 ELSE 0)
      [] IsInf(a) /\ b = Negated(a) -> NaN(1)
      [] IsInf(a) /\ IsNaN(b) -> b
      [] a = NaN(1) /\ b = NaN(0) -> NaN(0)
      [] IsZero(a) -> b
      [] ~IsZero(a) /\ IsZero(b) -> a
      [] OTHER -> IF a.exponent = MaxExp THEN a
                  ELSE IF b.exponent = MaxExp THEN b
                  ELSE IF a.exponent > b.exponent THEN Aligned(b, a) ELSE Aligned(a, b)

FloatSub(a, b) ==
    CASE IsZero(a) /\ IsZero(b) -> Zero(IF a.sign = 1 /\ b.sign = 0 THEN 1 ELSE 0)
      [] IsNaN(a) /\ IsNaN(b) -> NaN(IF a.sign = 1 /\ b.sign = 1 THEN 1 ELSE 0)
      [] IsNaN(a) /\ ~IsNaN(b) -> a
      [] ~IsNaN(a) /\ IsNaN(b) -> b
      [] OTHER -> FloatAdd(a, Negated(b))

MulExp(a, b) == Exp(a) + Exp(b) - Bias - (FracBits - 3)
ProductOf(a, b, exp) ==
    IF IsZero(a) \/ IsZero(b) THEN Zero(Xor(a, b))
    ELSE IF IsInf(a) \/ IsInf(b) THEN Inf(Xor(a, b))
    ELSE Normalize[Xor(a, b), exp, Sig(a) * Sig(b)]
FloatMulOneMore(a, b) ==   \* mutant: one guard bit too many is left
    CASE \/ IsZero(a) /\ IsInf(b)
         \/ IsInf(a) /\ IsZero(b) -> NaN(1)
      [] IsNaN(a) \/ IsNaN(b) -> NaN(IF NaN(0) \in {a, b} THEN 0 ELSE 1)
      [] OTHER -> ProductOf(a, b, MulExp(a, b) + 1)
FloatMulNoCorner(a, b) ==   \* mutant: zero times infinity is not a corner case
    CASE IsNaN(a) \/ IsNaN(b) -> NaN(IF NaN(0) \in {a, b} THEN 0 ELSE 1)
      [] OTHER -> ProductOf(a, b, MulExp(a, b))
FloatMul(a, b) ==
    CASE \/ IsZero(a) /\ IsInf(b)
         \/ IsInf(a) /\ IsZero(b) -> NaN(1)
      [] IsNaN(a) \/ IsNaN(b) -> NaN(IF NaN(0) \in {a, b} THEN 0 ELSE 1)
      [] OTHER -> ProductOf(a, b, MulExp(a, b))

\* The dividend is shifted to the left as far as it goes, the divisor to the right.
Leading[sig \in Nat] == IF sig \div 2^(DivBits - 1) = 0 THEN 1 + Leading[2 * sig] ELSE 0
Trailing[sig \in Nat] == IF sig % 2 = 0 THEN 1 + Trailing[sig \div 2] ELSE 0
DivShiftOneSided(a, b) == Leading[Sig(a)]   \* mutant: the shift of the divisor is forgotten
DivShift(a, b) == Leading[Sig(a)] + Trailing[Sig(b)]
FloatDiv(a, b) ==
    CASE (IsZero(a) /\ IsZero(b)) \/ (IsInf(a) /\ IsInf(b)) -> NaN(1)
      [] IsNaN(a) \/ IsNaN(b) -> NaN(IF NaN(0) \in {a, b} THEN 0 ELSE 1)
      [] OTHER -> IF IsInf(a) \/ IsZero(b) THEN Inf(Xor(a, b))
                  ELSE IF IsZero(a) \/ IsInf(b) THEN Zero(Xor(a, b))
                  ELSE Normalize[Xor(a, b),
                                 Exp(a) - Exp(b) + Bias - (DivShift(a, b) - FracBits - 3),
                                 (Sig(a) * 2^Leading[Sig(a)])
                                 \div (Sig(b) \div 2^Trailing[Sig(b)])]

-----------------------------------------------------------------------------
(* The register stack: fpu_load, fpu_store, fpu_peek, the operations on    *)
(* its top and the comparison, which the host's floats do.                 *)
Depth == 8
At(s, idx) == (s.top + idx) % Depth
FpuPeek(s, idx) == s.regStack[At(s, idx)]
FpuSet(s, idx, val) == [s EXCEPT !.regStack[At(s, idx)] = val]
FpuLoadNoWrap(s, val) ==   \* mutant: the stack does not wrap below register 0
    LET t == IF s.top = 0 THEN 0 ELSE s.top - 1
    IN [s EXCEPT !.top = t, !.regStack[t] = val]
FpuLoad(s, val) == LET t == IF s.top = 0 THEN Depth - 1 ELSE s.top - 1
                   IN [s EXCEPT !.top = t, !.regStack[t] = val]
FpuStoreNoWrap(s) == [s EXCEPT !.top = @ + 1]   \* mutant: nor above the last one
FpuStore(s) == [s EXCEPT !.top = (@ + 1) % Depth]
FpuXch(s, idx) == FpuSet(FpuSet(s, 0, FpuPeek(s, idx)), idx, FpuPeek(s, 0))
FpuCopy(s, idx) == FpuSet(s, idx, FpuPeek(s, 0))

\* a > b on the host: the sign and the pattern order the numbers.
Order(a) == IF a.sign = 1 THEN -(a.exponent * Hidden + a.fraction)
            ELSE a.exponent * Hidden + a.fraction
Greater(a, b) == ~IsNaN(a) /\ ~IsNaN(b) /\ Order(a) > Order(b)
=============================================================================
