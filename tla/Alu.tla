--------------------------------- MODULE Alu ---------------------------------
(***************************************************************************)
(* The arithmetic and logic unit (nemu/src/cpu/alu.c).  An operand is a    *)
(* number below 2^Long; size is its data_size.  Every operation returns    *)
(* its value and the flags it leaves, as numbers 0 and 1.  The operations  *)
(* read the flags f that they do not set themselves from their argument.   *)
(***************************************************************************)
EXTENDS Integers, FiniteSets

CONSTANTS Long,     \* bits of a register: 32
          ByteBits  \* bits of the smallest operand, and of those PF looks at: 8

ASSUME BitsAssumption == ByteBits \in Nat \ {0} /\ Long \in Nat /\ ByteBits < Long

Word == 0 .. 2^Long - 1
Bit(b) == IF b THEN 1 ELSE 0
Cut(x, size) == x % 2^size
Positive(x, size) == Cut(x, size) < 2^(size - 1)

\* sign_ext and sign_ext_64, and the number that a signed operand stands for.
Signed(x, size) == IF Positive(x, size) THEN Cut(x, size) ELSE Cut(x, size) - 2^size
SignExt(x, size) == Cut(Signed(x, size), Long)

-----------------------------------------------------------------------------
(* Flags: set_OF_add, set_OF_sub, set_CF_add, set_CF_sub, set_SF, set_ZF,   *)
(* set_PF.                                                                  *)
OfAdd(a, b, size) == Bit(/\ Positive(a, size) = Positive(b, size)
                         /\ Positive(Cut(a + b, size), size) # Positive(a, size))
OfSubOfAdd(a, b, result, size) ==   \* mutant: the condition of an addition
    Bit(/\ Positive(a, size) = Positive(b, size)
        /\ Positive(a, size) # Positive(result, size))
OfSub(a, b, result, size) == Bit(/\ Positive(a, size) # Positive(b, size)
                                 /\ Positive(a, size) # Positive(result, size))
CfAdd(a, b, size) == Bit(Cut(Cut(a, size) + Cut(b, size), size) < Cut(a, size))
CfSub(a, b) == Bit(a < b)
Parity(x) == Bit(Cardinality({i \in 0 .. ByteBits - 1 : (x \div 2^i) % 2 = 1}) % 2 = 0)

\* SF, ZF and PF of a result.
SZP(f, result, size) ==
    [f EXCEPT !.SF = Bit(~Positive(result, size)), !.ZF = Bit(Cut(result, size) = 0),
              !.PF = Parity(result)]

-----------------------------------------------------------------------------
(* alu_add, alu_adc, alu_sub and alu_sbb.                                  *)
AluAdd(f, src, dest, size) ==
    LET result == Cut(src + dest, size)
    IN [val |-> result,
        fl  |-> [SZP(f, result, size) EXCEPT !.OF = OfAdd(src, dest, size),
                                             !.CF = CfAdd(src, dest, size)]]

AluAdcLosesCarry(f, src, dest, size) ==   \* mutant: the carry of the first addition
    LET s == Cut(src, size)
        d == Cut(dest, size)
        b == AluAdd(f, AluAdd(f, s, f.CF, size).val, d, size)
    IN [b EXCEPT !.fl.OF = Bit(/\ Positive(s, size) = Positive(d, size)
                               /\ Positive(s, size) # Positive(b.val, size))]
AluAdc(f, src, dest, size) ==
    LET s == Cut(src, size)
        d == Cut(dest, size)
        a == AluAdd(f, s, f.CF, size)
        b == AluAdd(a.fl, a.val, d, size)
    IN [b EXCEPT !.fl.CF = Bit(@ = 1 \/ a.fl.CF = 1),
                 !.fl.OF = Bit(/\ Positive(s, size) = Positive(d, size)
                               /\ Positive(s, size) # Positive(b.val, size))]

AluSub(f, src, dest, size) ==
    LET s == Cut(src, size)
        d == Cut(dest, size)
        result == AluAdd(f, d, Cut(-s, Long), size).val
    IN [val |-> result,
        fl  |-> [SZP(f, result, size) EXCEPT !.OF = OfSub(d, s, result, size),
                                             !.CF = CfSub(d, s)]]

AluSbb(f, src, dest, size) ==
    LET s == Cut(src, size)
        d == Cut(dest, size)
        a == AluSub(f, s, d, size)
        b == AluSub(a.fl, f.CF, a.val, size)
    IN [val |-> b.val,
        fl  |-> [SZP(b.fl, b.val, size) EXCEPT !.OF = OfSub(d, s, b.val, size),
                                               !.CF = Bit(@ = 1 \/ a.fl.CF = 1)]]

-----------------------------------------------------------------------------
(* alu_mul and alu_imul return a result of twice the size, alu_div and     *)
(* alu_idiv use no more of the dividend than size bits, and alu_mod and    *)
(* alu_imod the whole of it (alu_mod cuts it to the global data_size).     *)
AluMul(f, src, dest, size) ==
    LET result == Cut(src, size) * Cut(dest, size)
        over == Bit(result \div 2^size # 0)
    IN [val |-> result, fl |-> [f EXCEPT !.CF = over, !.OF = over]]
AluImul(f, src, dest, size) ==
    LET result == Signed(src, size) * Signed(dest, size)
        over == Bit(result # Signed(result, size))
    IN [val |-> result, fl |-> [f EXCEPT !.CF = over, !.OF = over]]

\* Division in C rounds towards zero.
QuotientFloor(x, y) ==   \* mutant: a division that rounds down
    IF y < 0 THEN (-x) \div (-y) ELSE x \div y
Quotient(x, y) == LET q == (IF x < 0 THEN -x ELSE x) \div (IF y < 0 THEN -y ELSE y)
                  IN IF (x < 0) = (y < 0) THEN q ELSE -q
AluDiv(src, dest, size) == Quotient(Cut(dest, size), Cut(src, size))
AluIdiv(src, dest, size) == Quotient(Signed(dest, size), Signed(src, size))
AluMod(src, dest) == Cut(dest, Long) % Cut(src, Long)
\* The i32 cast of the quotient (alu.c:369) is left out: it changes the result by a
\* multiple of 2^Long, which the cut to the register drops.
AluImod(src, dest) == dest - src * Quotient(dest, src)

-----------------------------------------------------------------------------
(* alu_and, alu_or and alu_xor: CF and OF are cleared.                     *)
Bits(x) == {i \in 0 .. Long - 1 : (x \div 2^i) % 2 = 1}
WordOf(S) == LET sum[k \in 0 .. Long] ==
                     IF k = 0 THEN 0 ELSE sum[k - 1] + (IF k - 1 \in S THEN 2^(k - 1) ELSE 0)
             IN sum[Long]
Logic(f, result, size) ==
    [val |-> result, fl |-> [SZP(f, result, size) EXCEPT !.CF = 0, !.OF = 0]]
AluAnd(f, src, dest, size) ==
    Logic(f, WordOf(Bits(Cut(src, size)) \cap Bits(Cut(dest, size))), size)
AluOr(f, src, dest, size) ==
    Logic(f, WordOf(Bits(Cut(src, size)) \cup Bits(Cut(dest, size))), size)
AluXor(f, src, dest, size) ==
    LET s == Bits(Cut(src, size))
        d == Bits(Cut(dest, size))
    IN Logic(f, WordOf((s \ d) \cup (d \ s)), size)

-----------------------------------------------------------------------------
(* alu_shl (and alu_sal), alu_shr and alu_sar move one bit at a time; the  *)
(* count is not reduced, and CF is the bit that went out last.             *)
Shifted(f, result, size, cf, of) ==
    [val |-> result, fl |-> [SZP(f, result, size) EXCEPT !.CF = cf, !.OF = of]]

AluShl(f, src, dest, size) ==
    LET n == Cut(src, size)
        shl[k \in 0 .. n] == IF k = 0 THEN [x |-> Cut(dest, size), c |-> f.CF]
                          ELSE LET y == shl[k - 1].x
                               IN [x |-> Cut(2 * y, size), c |-> (y \div 2^(size - 1)) % 2]
        r == shl[n]
    IN Shifted(f, r.x, size, r.c,
               IF n = 1 THEN Bit((r.x \div 2^(size - 1)) % 2 # r.c) ELSE f.OF)
AluShr(f, src, dest, size) ==
    LET n == Cut(src, size)
        shr[k \in 0 .. n] == IF k = 0 THEN [x |-> Cut(dest, size), c |-> f.CF]
                          ELSE LET y == shr[k - 1].x IN [x |-> y \div 2, c |-> y % 2]
        r == shr[n]
    IN Shifted(f, r.x, size, r.c, IF n = 1 THEN (r.x \div 2^(size - 1)) % 2 ELSE f.OF)
AluSarOfShr(f, src, dest, size) == AluShr(f, src, dest, size)   \* mutant: zeros are shifted in
AluSar(f, src, dest, size) ==
    LET n == Cut(src, size)
        sar[k \in 0 .. n] == IF k = 0 THEN [x |-> Signed(dest, size), c |-> f.CF]
                          ELSE LET y == sar[k - 1].x IN [x |-> y \div 2, c |-> y % 2]
        r == sar[n]
    IN Shifted(f, Cut(r.x, size), size, r.c, IF n = 1 THEN 0 ELSE f.OF)
=============================================================================
