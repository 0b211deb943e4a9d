------------------------------- MODULE Routines -------------------------------
(***************************************************************************)
(* The processor runs the routines that a compiler builds arithmetic of    *)
(* twice the width, comparisons, divisions, function calls and floating    *)
(* point expressions from (the programs under testcase/, kernel/ and       *)
(* game/ consist of them), for every operand and with interrupts between   *)
(* any two instructions.                                                   *)
(***************************************************************************)
EXTENDS Cpu

CONSTANTS Buffer,     \* cells below the stack that hold data
          Block       \* the longest block that is moved there

ASSUME RoutinesAssumption == Buffer \in 1 .. Cells - 1 /\ Block \in 0 .. Buffer

Eax == R("eax")
Ecx == R("ecx")
Edx == R("edx")
Ebx == R("ebx")
Esp == R("esp")
Ebp == R("ebp")
L == Long
Routine ==
    [ \* ecx, edx: the other number of 2 * Long bits is in eax, ebx
      add64 |-> <<<<"add", Eax, Ecx, L>>, <<"adc", Ebx, Edx, L>>>>,
      sub64 |-> <<<<"sub", Eax, Ecx, L>>, <<"sbb", Ebx, Edx, L>>>>,
      cmp64 |-> <<<<"cmp", Eax, Ecx, L>>, <<"sbb", Ebx, Edx, L>>>>,
      neg64 |-> <<<<"neg", Eax, L>>, <<"adc", I(0), Edx, L>>, <<"neg", Edx, L>>>>,
      cmp   |-> <<<<"cmp", Ebx, Eax, L>>>>,
      cmpb  |-> <<<<"cmp", Ebx, Eax, ByteBits>>>>,
      max   |-> <<<<"cmp", Ebx, Eax, L>>, <<"cmov", "l", Ebx, Eax>>>>,
      lt    |-> <<<<"cmp", Ebx, Eax, L>>, <<"set", "b", Ecx>>, <<"movz", Ecx, Ecx, L>>>>,
      mul   |-> <<<<"mul", Ebx>>>>,
      imul  |-> <<<<"imul", Ebx>>>>,
      imul2 |-> <<<<"imul2", Ebx, Eax, L>>>>,
      div   |-> <<<<"xor", Edx, Edx, L>>, <<"div", Ebx>>>>,
      idiv  |-> <<<<"cltd">>, <<"idiv", Ebx>>>>,
      abs   |-> <<<<"cltd">>, <<"xor", Edx, Eax, L>>, <<"sub", Edx, Eax, L>>>>,
      half  |-> <<<<"mov", Eax, Edx, L>>, <<"shr", I(L - 1), Edx, L>>,
                  <<"add", Edx, Eax, L>>, <<"sar", I(1), Eax, L>>>>,
      sext  |-> <<<<"movs", Eax, Ebx, L>>, <<"shl", I(L - ByteBits), Eax, L>>,
                  <<"sar", I(L - ByteBits), Eax, L>>>>,
      bool  |-> <<<<"neg", Eax, L>>, <<"sbb", Eax, Eax, L>>, <<"neg", Eax, L>>>>,
      minus |-> <<<<"not", Eax, L>>, <<"inc", Eax, L>>>>,
      mask  |-> <<<<"mov", Eax, Ecx, L>>, <<"and", Ebx, Ecx, L>>, <<"not", Ebx, L>>,
                  <<"and", Eax, Ebx, L>>, <<"or", Ecx, Ebx, L>>>>,
      loop  |-> <<<<"xor", Edx, Edx, L>>, <<"jmp", 4>>, <<"add", Ebx, Edx, L>>,
                  <<"dec", Ecx, L>>, <<"j", "ns", 3>>>>,
      call  |-> <<<<"push", Ecx>>, <<"call", "sum">>, <<"add", I(1), Esp, Addr>>>>,
      sum   |-> <<<<"push", Ebp>>, <<"mov", Esp, Ebp, Addr>>, <<"push", Ebx>>,
                  <<"mov", M("ebp", 2), Ebx, L>>, <<"mov", I(0), Eax, L>>,
                  <<"test", Ebx, Ebx, L>>, <<"j", "e", 13>>, <<"mov", Ebx, Eax, L>>,
                  <<"dec", Eax, L>>, <<"push", Eax>>, <<"call", "sum">>, <<"pop", Ecx>>,
                  <<"add", Eax, M("ebp", 2), L>>, <<"mov", M("ebp", 2), Eax, L>>,
                  <<"mov", M("ebp", -1), Ebx, L>>, <<"leave">>, <<"ret">>>>,
      sys   |-> <<<<"int">>>>,
      copy  |-> <<<<"rep", "movs">>>>,
      fill  |-> <<<<"rep", "stos">>>>,
      fadd  |-> <<<<"flds", "x">>, <<"fadds", "y">>, <<"fstps", "res">>>>,
      fsub  |-> <<<<"flds", "x">>, <<"fsubs", "y">>, <<"fstps", "res">>>>,
      fmul  |-> <<<<"flds", "x">>, <<"fmuls", "y">>, <<"fstps", "res">>>>,
      fdiv  |-> <<<<"flds", "x">>, <<"fdivs", "y">>, <<"fstps", "res">>>>,
      fcmp  |-> <<<<"flds", "y">>, <<"flds", "x">>, <<"fucomip", 1>>, <<"fstp", 0>>,
                  <<"set", "a", Ecx>>>>,
      \* (x * (x - y) + y) + y / x, without storing an intermediate result
      fexpr |-> <<<<"flds", "y">>, <<"flds", "x">>, <<"flds", "x">>, <<"fsubs", "y">>,
                  <<"fmul", 1>>, <<"fstp", 0>>, <<"faddp", 1>>, <<"flds", "y">>,
                  <<"fdivs", "x">>, <<"fxch", 1>>, <<"fadd", 1>>, <<"fstp", 0>>,
                  <<"fsts", "copy">>, <<"fstps", "res">>>> ]
RoutineCode == [l \in DOMAIN Routine \cup DOMAIN KernelCode |->
                    IF l \in DOMAIN Routine THEN Routine[l] ELSE KernelCode[l]]

-----------------------------------------------------------------------------
(* Where a routine starts: the values its operands take, and how many      *)
(* interrupts may arrive.                                                  *)
In(a, c, d, b) == [eax : a, ecx : c, edx : d, ebx : b]
W == Word
Z == {0}
Smallest == 2^(L - 1)    \* the negative number without a positive one
Labels == DOMAIN Routine \ {"sum"}
Operands ==
    [l \in Labels |->
        CASE l \in {"add64", "sub64", "cmp64"} -> In(W, W, W, W)
          [] l = "neg64" -> In(W, Z, W, Z)
          [] l \in {"cmp", "cmpb", "max", "lt", "mul", "imul", "imul2", "mask"} -> In(W, Z, Z, W)
          [] l = "div" -> In(W, Z, W, W \ {0})
          [] l = "idiv" -> {r \in In(W, Z, Z, W \ {0}) : ~(r.eax = Smallest /\ r.ebx = 2^L - 1)}
          [] l \in {"abs", "half", "sext", "bool", "minus"} -> In(W, Z, Z, Z)
          [] l = "loop" -> In(Z, 0 .. 2^(L - 1) - 1, Z, W)
          [] l = "call" -> In({1}, 0 .. 2, {2}, {3})
          [] l = "sys" -> In({4}, {1}, {3, 5}, {2})
          [] l \in {"copy", "fill"} -> In({5}, 0 .. Block, Z, Z)
          [] OTHER -> In(Z, Z, Z, Z)]
\* Numbers for the operands of a longer expression: 1, -1 and 1/2 with the
\* last bit set, the smallest and the largest, zero and infinity.
Samples == {[sign |-> 0, exponent |-> Bias, fraction |-> 0],
            [sign |-> 1, exponent |-> Bias, fraction |-> 1],
            [sign |-> 0, exponent |-> Bias - 1, fraction |-> 1],
            [sign |-> 0, exponent |-> 0, fraction |-> 1],
            [sign |-> 1, exponent |-> MaxExp - 1, fraction |-> Hidden - 1],
            Zero(1), Inf(0), NaN(0)}
FloatOperands(l) ==
    LET P == {f \in Numbers : f.sign = 0}
        F == CASE l = "fsub" -> <<Numbers, P>>
               [] l \in {"fadd", "fmul", "fdiv"} -> <<P, P>>
               [] l \in {"fcmp", "fexpr"} -> <<Samples, Samples>>
               [] OTHER -> <<{Zero(0)}, {Zero(0)}>>
    IN [x : F[1], y : F[2], res : {Zero(0)}, copy : {Zero(0)}]
Irqs == [l \in Labels |->
             CASE l = "sys" -> 2
               [] l \in {"call", "neg64", "abs", "half", "bool", "idiv", "copy"} -> 1
               [] OTHER -> 0]
Flags0 == [f \in Arithmetic \cup {"IF"} |-> IF f = "IF" THEN 1 ELSE 0]
Stored(a) == a % Buffer

\* The registers at the start: operands, pointers and an empty stack.
Start(d, s) == [r \in DataRegs \cup AddrRegs |->
                    IF r \in DataRegs THEN d[r] ELSE IF r \in DOMAIN s THEN s[r] ELSE Cells]
Pointers(l) == IF l \in {"copy", "fill"} THEN [esi : 0 .. Buffer - Block, edi : 0 .. Buffer - Block]
               ELSE [esi : {1}, edi : {2}]

RInit ==
    \E l \in Labels :
        /\ \E d \in Operands[l], s \in Pointers(l) : reg = Start(d, s)
        /\ data \in FloatOperands(l)
        /\ \E top \in IF l = "fexpr" THEN 0 .. Depth - 1 ELSE {0} :
               fpu = [top |-> top, regStack |-> [k \in 0 .. Depth - 1 |-> Zero(0)]]
        /\ eip = <<l, 1>>
        /\ irqs = Irqs[l]
        /\ fl = Flags0
        /\ cells = [a \in 0 .. Cells - 1 |-> Stored(a)]
        /\ given = [label |-> l, reg |-> reg, data |-> data, top |-> fpu.top]

Done == eip = <<given.label, Len(Code[given.label]) + 1>> /\ UNCHANGED cpuvars

RSpec == RInit /\ [][CpuNext \/ Done]_cpuvars

-----------------------------------------------------------------------------
(* Properties.                                                             *)

\* The registers hold words, addresses inside the stack, flags and numbers:
\* no push runs below it and the top of the register stack wraps.
RTypeOK ==
    /\ \A r \in DataRegs : reg[r] \in Word
    /\ reg["esp"] \in Buffer .. Cells /\ reg["ebp"] \in Buffer .. Cells
    /\ {reg["esi"], reg["edi"]} \subseteq 0 .. 2^Addr - 1
    /\ fl \in [Arithmetic \cup {"IF"} -> {0, 1}]
    /\ fpu \in [top : 0 .. Depth - 1, regStack : [0 .. Depth - 1 -> Float]]

Returned(labels) == given.label \in labels
                    /\ eip = <<given.label, Len(Code[given.label]) + 1>>
Was == given.reg
Wide(hi, lo) == hi * 2^L + lo
SignedWide(hi, lo) == Signed(Wide(hi, lo), 2 * L)

\* The carry and the borrow link the two halves: alu_adc and alu_sbb make
\* the sum with its carry and overflow, the difference, the order and (with
\* an interrupt between the halves or not) the negation of numbers of twice
\* the width right.
WideArithmetic ==
    /\ Returned({"add64"}) =>
           LET sum == Wide(Was["edx"], Was["ecx"]) + Wide(Was["ebx"], Was["eax"])
               ssum == SignedWide(Was["edx"], Was["ecx"]) + SignedWide(Was["ebx"], Was["eax"])
           IN /\ Wide(reg["edx"], reg["ecx"]) = sum % 2^(2 * L)
              /\ fl.CF = Bit(sum >= 2^(2 * L))
              /\ fl.OF = Bit(ssum # Signed(ssum, 2 * L))
    /\ Returned({"sub64"}) =>
           Wide(reg["edx"], reg["ecx"])
           = (Wide(Was["edx"], Was["ecx"]) - Wide(Was["ebx"], Was["eax"])) % 2^(2 * L)
    /\ Returned({"neg64"}) =>
           Wide(reg["edx"], reg["eax"]) = (-Wide(Was["edx"], Was["eax"])) % 2^(2 * L)
    /\ Returned({"cmp64"}) =>
           /\ Condition("b", fl) <=> Wide(Was["edx"], Was["ecx"]) < Wide(Was["ebx"], Was["eax"])
           /\ Condition("l", fl) <=> SignedWide(Was["edx"], Was["ecx"])
                                     < SignedWide(Was["ebx"], Was["eax"])

\* After cmp at both sizes each condition of instr_helper.h says what its
\* name says of the two operands, and the instructions that use a
\* condition (cmov, setcc) choose by it.
Compared ==
    /\ \A size \in {ByteBits, L} :
           Returned({IF size = L THEN "cmp" ELSE "cmpb"}) =>
               LET x == Cut(Was["eax"], size)
                   y == Cut(Was["ebx"], size)
                   sx == Signed(x, size)
                   sy == Signed(y, size)
               IN /\ Condition("e", fl)  <=> x = y
                  /\ Condition("a", fl)  <=> x > y
                  /\ Condition("be", fl) <=> x <= y
                  /\ Condition("b", fl)  <=> x < y
                  /\ Condition("g", fl)  <=> sx > sy
                  /\ Condition("ge", fl) <=> sx >= sy
                  /\ Condition("l", fl)  <=> sx < sy
                  /\ Condition("le", fl) <=> sx <= sy
                  /\ Condition("o", fl)  <=> sx - sy # Signed(sx - sy, size)
                  /\ Condition("s", fl)  <=> Signed(sx - sy, size) < 0
    /\ Returned({"max"}) => /\ Signed(reg["eax"], L) >= Signed(Was["eax"], L)
                            /\ Signed(reg["eax"], L) >= Signed(Was["ebx"], L)
                            /\ reg["eax"] \in {Was["eax"], Was["ebx"]}
    /\ Returned({"lt"}) => reg["ecx"] = Bit(Was["eax"] < Was["ebx"])

\* The product in edx:eax is the product of the operands, CF and OF say
\* whether it fits one register, and a quotient and a remainder give the
\* dividend back, the remainder with the sign of the dividend.  Division
\* works when the upper half extends the lower one, as xor and cltd make it
\* (alu_div and alu_idiv ignore the upper half), cltd through an interrupt.
MultipliesAndDivides ==
    /\ Returned({"mul"}) =>
           /\ Wide(reg["edx"], reg["eax"]) = Was["eax"] * Was["ebx"]
           /\ fl.CF = Bit(reg["edx"] # 0) /\ fl.OF = fl.CF
    /\ Returned({"imul"}) =>
           LET p == SignedWide(reg["edx"], reg["eax"])
           IN /\ p = Signed(Was["eax"], L) * Signed(Was["ebx"], L)
              /\ fl.CF = Bit(p # Signed(p, L)) /\ fl.OF = fl.CF
    /\ Returned({"imul2"}) => reg["eax"] = Cut(Was["eax"] * Was["ebx"], L)
    /\ Returned({"div"}) =>
           /\ reg["eax"] * Was["ebx"] + reg["edx"] = Was["eax"]
           /\ reg["edx"] < Was["ebx"]
    /\ Returned({"idiv"}) =>
           LET q == Signed(reg["eax"], L)
               r == Signed(reg["edx"], L)
               x == Signed(Was["eax"], L)
               y == Signed(Was["ebx"], L)
           IN /\ q * y + r = x
              /\ r * r < y * y
              /\ r * x >= 0

\* The short forms of an absolute value, a halving that rounds to zero, a
\* sign extension, a truth value, a negation and a merge under a mask,
\* which combine shifts, logic, borrows and sign fills, and a counted loop.
Idioms ==
    /\ Returned({"abs"}) =>
           reg["eax"] = IF Positive(Was["eax"], L) THEN Was["eax"] ELSE Cut(-Was["eax"], L)
    /\ Returned({"half"}) => Signed(reg["eax"], L) = Quotient(Signed(Was["eax"], L), 2)
    /\ Returned({"sext"}) =>
           /\ reg["eax"] = reg["ebx"]
           /\ Signed(reg["eax"], L) = Signed(Was["eax"], ByteBits)
    /\ Returned({"bool"}) => reg["eax"] = Bit(Was["eax"] # 0)
    /\ Returned({"minus"}) => reg["eax"] = Cut(-Was["eax"], L)
    /\ Returned({"mask"}) => reg["ebx"] = Was["eax"]
    /\ Returned({"loop"}) => reg["edx"] = Cut(Was["ebx"] * Was["ecx"], L)

\* A call comes back: a recursive function returns its sum, with ebx, ebp,
\* esp and the other saved registers of the caller, although interrupts
\* push their frames below it at any instruction.
CallsReturn ==
    Returned({"call"}) =>
        /\ reg["eax"] = Cut((Was["ecx"] * (Was["ecx"] + 1)) \div 2, L)
        /\ \A r \in AddrRegs \cup {"ebx"} : reg[r] = Was[r]

\* A system call changes nothing but eax, which is the result that
\* do_syscall left in the trap frame, and an interrupt that arrives before
\* or within it (its gate leaves IF set) is not noticed.
SyscallReturns ==
    Returned({"sys"}) =>
        /\ reg = [Was EXCEPT !["eax"] = Was["edx"]]
        /\ fl = Flags0

\* rep movs copies a block, also within itself when it moves down, rep stos
\* fills one; nothing else is written and the pointers end behind the block.
BlocksMoved ==
    Returned({"copy", "fill"}) =>
        LET n == Was["ecx"]
            to == Was["edi"] .. Was["edi"] + n - 1
            src(a) == a - Was["edi"] + Was["esi"]
        IN /\ reg["edi"] = Was["edi"] + n /\ reg["ecx"] = 0
           /\ \A a \in 0 .. Buffer - 1 :
                  /\ a \notin to => cells[a] = Stored(a)
                  /\ a \in to /\ given.label = "fill" => cells[a] = Was["eax"]
                  /\ a \in to /\ given.label = "copy" =>
                         \/ Was["edi"] \in Was["esi"] + 1 .. Was["esi"] + n - 1
                         \/ cells[a] = Stored(src(a))

-----------------------------------------------------------------------------
(* Floating point: the reference is the exact rational result, rounded.    *)

\* A magnitude in units of the smallest number above zero; infinity counts
\* as the next power of two.
Units(f) == Sig(f) * 2^(Exp(f) - 1)
Scale == 2^(Bias + FracBits - 1)    \* units in 1
Magnitudes == {f \in Numbers : f.sign = 0 /\ ~IsNaN(f)}
AbsDiff(x, y) == IF x < y THEN y - x ELSE x - y

\* f is the number nearest to num / den units, the even one in the middle.
Nearest(f, num, den) ==
    \A g \in Magnitudes :
        LET df == AbsDiff(num, Units(f) * den)
            dg == AbsDiff(num, Units(g) * den)
        IN df < dg \/ (df = dg /\ (Units(g) = Units(f) \/ f.fraction % 2 = 0))

SignedUnits(f) == IF f.sign = 1 THEN -Units(f) ELSE Units(f)
NextUp(f) == IF f.fraction < Hidden - 1 THEN [f EXCEPT !.fraction = @ + 1]
             ELSE [f EXCEPT !.fraction = 0, !.exponent = @ + 1]
X == given.data.x
Y == given.data.y
Res == data.res

\* The sum and the difference of finite numbers are rounded to the nearest,
\* to even in the middle, denormal numbers and overflow included; a result
\* of zero is positive unless both terms are negative zeros.
Sum(y) ==
    LET exact == SignedUnits(X) + SignedUnits(y)
    IN /\ Nearest(Res, AbsDiff(exact, 0), 1)
       /\ IF exact # 0 THEN Res.sign = Bit(exact < 0)
          ELSE Res.sign = Bit(X.sign = 1 /\ y.sign = 1)
SumsRounded ==
    /\ Returned({"fadd"}) /\ X.exponent # MaxExp /\ Y.exponent # MaxExp => Sum(Y)
    /\ Returned({"fsub"}) /\ X.exponent # MaxExp /\ Y.exponent # MaxExp => Sum(Negated(Y))

\* The product of finite numbers is rounded the same way.
Product == /\ Nearest(Res, Units(X) * Units(Y), Scale)
           /\ Res.sign = Xor(X, Y)
ProductsRounded ==
    Returned({"fmul"}) /\ X.exponent # MaxExp /\ Y.exponent # MaxExp => Product

\* Where internal_float_mul hands internal_normalize an exponent of zero
\* together with a significand that needs no shift, the product is twice
\* what it should be; every other product is rounded to the nearest.
DoublesProduct == MulExp(X, Y) = 0 /\ Top(Sig(X) * Sig(Y)) <= 1
OtherProductsRounded ==
    Returned({"fmul"}) /\ X.exponent # MaxExp /\ Y.exponent # MaxExp /\ ~DoublesProduct
        => Product

\* A quotient is the nearest number or the one below it (the remainder is
\* not sticky), and a division by zero is infinite.
QuotientsClose ==
    Returned({"fdiv"}) /\ X.exponent # MaxExp /\ Y.exponent # MaxExp /\ ~IsZero(Y) =>
        /\ Res.sign = Xor(X, Y)
        /\ \/ Nearest(Res, Units(X) * Scale, Units(Y))
           \/ Nearest(NextUp(Res), Units(X) * Scale, Units(Y))

\* Infinities and the NaNs follow the rules of the arithmetic: an undefined
\* form gives a NaN and only that, an infinite operand an infinite result.
SpecialValues ==
    Returned({"fadd", "fsub", "fmul", "fdiv"}) =>
        LET l == given.label
            undefined ==
                \/ IsNaN(X) \/ IsNaN(Y)
                \/ l = "fadd" /\ IsInf(X) /\ Y = Negated(X)
                \/ l = "fsub" /\ IsInf(X) /\ Y = X
                \/ l = "fmul" /\ ((IsZero(X) /\ IsInf(Y)) \/ (IsInf(X) /\ IsZero(Y)))
                \/ l = "fdiv" /\ ((IsZero(X) /\ IsZero(Y)) \/ (IsInf(X) /\ IsInf(Y)))
            infinite == IF l = "fdiv" THEN IsInf(X) \/ IsZero(Y) ELSE IsInf(X) \/ IsInf(Y)
        IN /\ undefined <=> IsNaN(Res)
           /\ ~undefined /\ infinite => IsInf(Res)
           /\ l = "fdiv" /\ ~undefined /\ IsInf(Y) => IsZero(Res)

\* An expression on the register stack is the expression: the registers
\* turn with the top, whichever one it starts from, values that are
\* duplicated, exchanged and dropped stay apart, the top is back at its
\* place at the end, and ja after fucomip says whether x is above y.
StackedExpression ==
    /\ Returned({"fexpr"}) =>
           /\ Res = FloatAdd(FloatAdd(FloatMul(FloatSub(X, Y), X), Y), FloatDiv(Y, X))
           /\ data.copy = Res /\ fpu.top = given.top
    /\ Returned({"fcmp"}) =>
           /\ reg["ecx"] = Bit(~IsNaN(X) /\ ~IsNaN(Y) /\ SignedUnits(X) > SignedUnits(Y))
           /\ fpu.top = given.top

-----------------------------------------------------------------------------
\* The integer routines compute what their numbers say, over carries, signs,
\* products, quotients and masks.
IntegerArithmetic == WideArithmetic /\ MultipliesAndDivides /\ Idioms

\* Functions, system calls and interrupts, nested in any way, give the registers
\* and the stack back to whoever they were taken from.
ContextKept == RTypeOK /\ CallsReturn /\ SyscallReturns

\* The floating point routines deliver the rounded result of what they compute,
\* special values included, through the register stack.
FloatArithmetic ==
    SumsRounded /\ OtherProductsRounded /\ QuotientsClose /\ SpecialValues /\ StackedExpression
===============================================================================
