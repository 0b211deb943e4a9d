--------------------------------- MODULE Cpu ---------------------------------
(***************************************************************************)
(* The processor that executes instructions: nemu/src/cpu/instr/*.c on top *)
(* of the arithmetic unit (Alu) and of the floating point unit (Fpu), the  *)
(* entry of an interrupt (intr.c) and the kernel's assembly around the     *)
(* handlers (kernel/src/irq/do_irq.S).                                     *)
(*                                                                         *)
(* The program is Code: a sequence of decoded instructions per label.  An  *)
(* instruction is a tuple <<name, operands ...>>; eip is a label and an    *)
(* index.  Decoding is abstracted: an operand is a register, an immediate  *)
(* value or a cell of memory at a distance from an address register.  The  *)
(* data registers have Long bits, the address registers Addr bits, and one *)
(* cell of memory holds one push (four bytes).  The memory operands of the *)
(* floating point instructions are the named cells of data.                *)
(***************************************************************************)
EXTENDS Alu, Fpu, Sequences

CONSTANTS Code,       \* label -> sequence of decoded instructions
          Addr,       \* bits of an address
          Cells,      \* cells of memory; the stack grows down from the end
          Clobbered   \* values a C function may leave in eax, ecx and edx

ASSUME CpuAssumption == /\ Addr \in Nat /\ Cells \in Nat \ {0}
                        /\ Cells < 2^Addr
                        /\ Clobbered \subseteq Word /\ Clobbered # {}

VARIABLES eip, reg, fl, cells, fpu, data,
          irqs,       \* hardware interrupts that may still arrive
          given       \* the label, the registers, data and top at the start

cpu == <<eip, reg, fl, cells, fpu>>
cpuvars == <<cpu, data, irqs, given>>

DataRegs == {"eax", "ecx", "edx", "ebx"}
AddrRegs == {"esp", "ebp", "esi", "edi"}
Arithmetic == {"CF", "OF", "SF", "ZF", "PF"}

\* Operands, for the programs.
R(r) == <<"reg", r>>
I(n) == <<"imm", n>>
M(r, disp) == <<"mem", r, disp>>

-----------------------------------------------------------------------------
(* modrm_rm, operand_read and operand_write.                               *)
Address(o) == reg[o[2]] + o[3]
Read(o, size) ==
    CASE o[1] = "reg" -> Cut(reg[o[2]], size)
      [] o[1] = "imm" -> Cut(o[2], size)
      [] o[1] = "mem" -> Cut(cells[Address(o)], size)

\* What is written keeps the bits above those of its size.
Write(o, val, size) ==
    IF o[1] = "mem"
    THEN /\ cells' = [cells EXCEPT ![Address(o)] = @ - Cut(@, size) + Cut(val, size)]
         /\ UNCHANGED reg
    ELSE /\ reg' = [reg EXCEPT ![o[2]] = @ - Cut(@, size) + Cut(val, size)]
         /\ UNCHANGED cells

\* The conditions of instr_helper.h.
Condition(cc, f) ==
    CASE cc = "e"  -> f.ZF = 1
      [] cc = "ne" -> f.ZF = 0
      [] cc = "a"  -> f.CF = 0 /\ f.ZF = 0
      [] cc = "ae" -> f.CF = 0
      [] cc = "b"  -> f.CF = 1
      [] cc \in {"be", "na"} -> f.CF = 1 \/ f.ZF = 1
      [] cc = "g"  -> f.ZF = 0 /\ f.SF = f.OF
      [] cc = "ge" -> f.SF = f.OF
      [] cc = "l"  -> f.SF # f.OF
      [] cc = "le" -> f.ZF = 1 \/ f.SF # f.OF
      [] cc = "o"  -> f.OF = 1
      [] cc = "no" -> f.OF = 0
      [] cc = "s"  -> f.SF = 1
      [] cc = "ns" -> f.SF = 0
      [] cc = "p"  -> f.PF = 1
      [] cc = "np" -> f.PF = 0

-----------------------------------------------------------------------------
(* exec_inst: the instruction at eip, which the operators below get as i;  *)
(* the length it returns is the step to the next one.                      *)
Running == eip[2] <= Len(Code[eip[1]])
Inst == Code[eip[1]][eip[2]]
Fetch(i, name) == i[1] = name
Goto(k) == <<eip[1], k>>
NextInst == eip' = Goto(eip[2] + 1)

\* Two operands, <<name, source, destination, size>>.
OpSize(i) == i[4]
OprSrc(i) == Read(i[2], OpSize(i))
OprDest(i) == Read(i[3], OpSize(i))
TwoOp(i, name, res) ==
    /\ Fetch(i, name)
    /\ fl' = res.fl /\ Write(i[3], res.val, OpSize(i))
    /\ NextInst
    /\ UNCHANGED fpu
AddInst(i) == TwoOp(i, "add", AluAdd(fl, OprSrc(i), OprDest(i), OpSize(i)))
AdcInst(i) == TwoOp(i, "adc", AluAdc(fl, OprSrc(i), OprDest(i), OpSize(i)))
SubInst(i) == TwoOp(i, "sub", AluSub(fl, OprSrc(i), OprDest(i), OpSize(i)))
SbbInst(i) == TwoOp(i, "sbb", AluSbb(fl, OprSrc(i), OprDest(i), OpSize(i)))
AndInst(i) == TwoOp(i, "and", AluAnd(fl, OprSrc(i), OprDest(i), OpSize(i)))
OrInst(i)  == TwoOp(i, "or", AluOr(fl, OprSrc(i), OprDest(i), OpSize(i)))
XorInst(i) == TwoOp(i, "xor", AluXor(fl, OprSrc(i), OprDest(i), OpSize(i)))
ShlInst(i) == TwoOp(i, "shl", AluShl(fl, OprSrc(i), OprDest(i), OpSize(i)))
ShrInst(i) == TwoOp(i, "shr", AluShr(fl, OprSrc(i), OprDest(i), OpSize(i)))
SarInst(i) == TwoOp(i, "sar", AluSar(fl, OprSrc(i), OprDest(i), OpSize(i)))

\* Only the flags.
FlagsOp(i, name, res) ==
    /\ Fetch(i, name)
    /\ fl' = res.fl
    /\ NextInst
    /\ UNCHANGED <<reg, cells, fpu>>
CmpInst(i)  == FlagsOp(i, "cmp", AluSub(fl, OprSrc(i), OprDest(i), OpSize(i)))
TestInst(i) == FlagsOp(i, "test", AluAnd(fl, OprSrc(i), OprDest(i), OpSize(i)))

\* One operand, <<name, operand, size>>.
Opr(i) == Read(i[2], i[3])
OneOp(i, name, res) ==
    /\ Fetch(i, name)
    /\ fl' = res.fl /\ Write(i[2], res.val, i[3])
    /\ NextInst
    /\ UNCHANGED fpu
NegInst(i) == OneOp(i, "neg", AluSub(fl, Opr(i), 0, i[3]))
NotInst(i) == OneOp(i, "not", [val |-> 2^i[3] - 1 - Opr(i), fl |-> fl])
IncInst(i) == OneOp(i, "inc", AluAdd(fl, Opr(i), 1, i[3]))
DecInst(i) == OneOp(i, "dec", AluSub(fl, 1, Opr(i), i[3]))

\* A copy; movs and movz extend the smallest operand.
Move(i, name, val) ==
    /\ Fetch(i, name)
    /\ Write(i[3], val, i[4])
    /\ NextInst
    /\ UNCHANGED <<fl, fpu>>
MovInst(i)  == Move(i, "mov", Read(i[2], i[4]))
MovsInst(i) == Move(i, "movs", SignExt(Read(i[2], ByteBits), ByteBits))
MovzInst(i) == Move(i, "movz", Read(i[2], ByteBits))

\* The product is in edx:eax; the form with two operands keeps its low half.
WideProduct(i, name, res) ==
    /\ Fetch(i, name)
    /\ reg' = [reg EXCEPT !["eax"] = Cut(res.val, Long),
                          !["edx"] = Cut(res.val \div 2^Long, Long)]
    /\ fl' = res.fl
    /\ NextInst
    /\ UNCHANGED <<cells, fpu>>
MulInst(i)   == WideProduct(i, "mul", AluMul(fl, Read(i[2], Long), reg["eax"], Long))
ImulInst(i)  == WideProduct(i, "imul", AluImul(fl, Read(i[2], Long), reg["eax"], Long))
Imul2Inst(i) == TwoOp(i, "imul2", AluImul(fl, OprSrc(i), OprDest(i), OpSize(i)))

\* cltd, and the division of edx:eax; a divisor of zero fails an assert.
CltdInst(i) ==
    /\ Fetch(i, "cltd")
    /\ reg' = [reg EXCEPT !["edx"] = IF Positive(reg["eax"], Long) THEN 0 ELSE 2^Long - 1]
    /\ NextInst
    /\ UNCHANGED <<fl, cells, fpu>>
Dividend == reg["edx"] * 2^Long + reg["eax"]
Divide(i, name, quotient, remainder) ==
    /\ Fetch(i, name)
    /\ Read(i[2], Long) # 0
    /\ reg' = [reg EXCEPT !["eax"] = Cut(quotient, Long), !["edx"] = Cut(remainder, Long)]
    /\ NextInst
    /\ UNCHANGED <<fl, cells, fpu>>
DivInst(i) == LET src == Read(i[2], Long)
              IN Divide(i, "div", AluDiv(src, Dividend, Long), AluMod(src, Dividend))
IdivInst(i) == LET src == Signed(Read(i[2], Long), Long)
                   dividend == Signed(Dividend, 2 * Long)
               IN Divide(i, "idiv", AluIdiv(src, dividend, Long), AluImod(src, dividend))

\* setcc writes a byte, cmovcc a register and jcc eip.
SetccInst(i) ==
    /\ Fetch(i, "set")
    /\ Write(i[3], Bit(Condition(i[2], fl)), ByteBits)
    /\ NextInst
    /\ UNCHANGED <<fl, fpu>>
CmovInst(i) ==
    /\ Fetch(i, "cmov")
    /\ IF Condition(i[2], fl) THEN Write(i[4], Read(i[3], Long), Long)
       ELSE UNCHANGED <<reg, cells>>
    /\ NextInst
    /\ UNCHANGED <<fl, fpu>>
JccInst(i) ==
    /\ Fetch(i, "j")
    /\ eip' = Goto(IF Condition(i[2], fl) THEN i[3] ELSE eip[2] + 1)
    /\ UNCHANGED <<reg, fl, cells, fpu>>
JmpInst(i) ==
    /\ Fetch(i, "jmp")
    /\ eip' = Goto(i[2])
    /\ UNCHANGED <<reg, fl, cells, fpu>>

-----------------------------------------------------------------------------
(* The stack: push() and pop() move esp by one cell.                       *)
Pushed(vals) == [a \in DOMAIN cells |->
                    IF a \in reg["esp"] - Len(vals) .. reg["esp"] - 1
                    THEN vals[reg["esp"] - a] ELSE cells[a]]
Peek(k) == cells[reg["esp"] + k]

PushInst(i) ==
    /\ Fetch(i, "push")
    /\ cells' = Pushed(<<IF i[2][1] = "imm" THEN i[2][2] ELSE reg[i[2][2]]>>)
    /\ reg' = [reg EXCEPT !["esp"] = @ - 1]
    /\ NextInst
    /\ UNCHANGED <<fl, fpu>>
PopInst(i) ==
    /\ Fetch(i, "pop")
    /\ reg' = [reg EXCEPT !["esp"] = @ + 1, ![i[2][2]] = Peek(0)]
    /\ NextInst
    /\ UNCHANGED <<fl, cells, fpu>>
CallInst(i) ==
    /\ Fetch(i, "call")
    /\ cells' = Pushed(<<Goto(eip[2] + 1)>>)
    /\ reg' = [reg EXCEPT !["esp"] = @ - 1]
    /\ eip' = <<i[2], 1>>
    /\ UNCHANGED <<fl, fpu>>
RetInst(i) ==
    /\ Fetch(i, "ret")
    /\ eip' = Peek(0)
    /\ reg' = [reg EXCEPT !["esp"] = @ + 1]
    /\ UNCHANGED <<fl, cells, fpu>>
LeaveInstKeepsEbp(i) ==   \* mutant: ebp is not popped
    /\ Fetch(i, "leave")
    /\ reg' = [reg EXCEPT !["esp"] = reg["ebp"] + 1]
    /\ NextInst
    /\ UNCHANGED <<fl, cells, fpu>>
LeaveInst(i) ==
    /\ Fetch(i, "leave")
    /\ reg' = [reg EXCEPT !["esp"] = reg["ebp"] + 1, !["ebp"] = cells[reg["ebp"]]]
    /\ NextInst
    /\ UNCHANGED <<fl, cells, fpu>>
PushaInst(i) ==
    /\ Fetch(i, "pusha")
    /\ cells' = Pushed([k \in 1 .. 8 |-> reg[<<"eax", "ecx", "edx", "ebx",
                                            "esp", "ebp", "esi", "edi">>[k]]])
    /\ reg' = [reg EXCEPT !["esp"] = @ - 8]
    /\ NextInst
    /\ UNCHANGED <<fl, fpu>>

\* The saved esp is skipped.
PopaInst(i) ==
    /\ Fetch(i, "popa")
    /\ reg' = [reg EXCEPT !["edi"] = Peek(0), !["esi"] = Peek(1), !["ebp"] = Peek(2),
                          !["ebx"] = Peek(4), !["edx"] = Peek(5), !["ecx"] = Peek(6),
                          !["eax"] = Peek(7), !["esp"] = @ + 8]
    /\ NextInst
    /\ UNCHANGED <<fl, cells, fpu>>

\* rep movs and rep stos, with the direction flag clear: ecx rounds in one
\* instruction, cell by cell.
Rounds(name, n) ==
    LET round[k \in 0 .. n] ==
            IF k = 0 THEN cells
            ELSE [round[k - 1] EXCEPT ![reg["edi"] + k - 1] =
                    IF name = "movs" THEN round[k - 1][reg["esi"] + k - 1] ELSE reg["eax"]]
    IN round[n]
RepeatedDoWhile(name) ==   \* mutant: ecx is looked at after the first round
    Rounds(name, IF reg["ecx"] = 0 THEN 1 ELSE reg["ecx"])
Repeated(name) == Rounds(name, reg["ecx"])
RepInst(i) ==
    /\ Fetch(i, "rep")
    /\ cells' = Repeated(i[2])
    /\ reg' = [reg EXCEPT !["ecx"] = 0, !["edi"] = @ + reg["ecx"],
                          !["esi"] = IF i[2] = "movs" THEN @ + reg["ecx"] ELSE @]
    /\ NextInst
    /\ UNCHANGED <<fl, fpu>>

-----------------------------------------------------------------------------
(* The floating point instructions (x87.c).                                *)
FloatInst(i, name, s) ==
    /\ Fetch(i, name)
    /\ fpu' = s
    /\ NextInst
    /\ UNCHANGED <<reg, fl, cells>>

\* The top with memory.
FldsInst(i) == FloatInst(i, "flds", FpuLoad(fpu, data[i[2]])) /\ UNCHANGED data
Top0 == FpuPeek(fpu, 0)
SetTop(i, name, val) == FloatInst(i, name, FpuSet(fpu, 0, val)) /\ UNCHANGED data
FaddsInst(i) == SetTop(i, "fadds", FloatAdd(Top0, data[i[2]]))
FsubsInst(i) == SetTop(i, "fsubs", FloatSub(Top0, data[i[2]]))
FmulsInst(i) == SetTop(i, "fmuls", FloatMul(Top0, data[i[2]]))
FdivsInst(i) == SetTop(i, "fdivs", FloatDiv(Top0, data[i[2]]))

\* The top with another register, to which the result goes; faddp pops.
Other(i) == FpuPeek(fpu, i[2])
SetRegister(i, val) == FpuSet(fpu, i[2], val)
FaddInst(i)  == FloatInst(i, "fadd", SetRegister(i, FloatAdd(Top0, Other(i)))) /\ UNCHANGED data
FmulInst(i)  == FloatInst(i, "fmul", SetRegister(i, FloatMul(Top0, Other(i)))) /\ UNCHANGED data
FaddpInst(i) == FloatInst(i, "faddp", FpuStore(SetRegister(i, FloatAdd(Top0, Other(i))))) /\ UNCHANGED data
FxchInst(i)  == FloatInst(i, "fxch", FpuXch(fpu, i[2])) /\ UNCHANGED data

\* fstps and fsts write memory, fstp a register.
FstpsInst(i) == /\ FloatInst(i, "fstps", FpuStore(fpu))
                /\ data' = [data EXCEPT ![i[2]] = FpuPeek(fpu, 0)]
FstsInst(i)  == /\ FloatInst(i, "fsts", fpu)
                /\ data' = [data EXCEPT ![i[2]] = FpuPeek(fpu, 0)]
FstpInst(i)  == FloatInst(i, "fstp", FpuStore(FpuCopy(fpu, i[2]))) /\ UNCHANGED data

\* fucomip: fpu_cmpi and a pop.
FucomipInst(i) ==
    /\ Fetch(i, "fucomip")
    /\ LET a == FpuPeek(fpu, 0)
           b == FpuPeek(fpu, i[2])
       IN fl' = [fl EXCEPT !.PF = 0, !.CF = Bit(Greater(b, a)),
                           !.ZF = Bit(~Greater(a, b) /\ ~Greater(b, a))]
    /\ fpu' = FpuStore(fpu)
    /\ NextInst
    /\ UNCHANGED <<reg, cells, data>>

-----------------------------------------------------------------------------
(* raise_intr: eflags, cs and eip are pushed; an interrupt gate clears IF, *)
(* the trap gate of a system call does not.                                *)
RaiseIntr(label, back, gate) ==
    /\ cells' = Pushed(<<fl, "cs", back>>)
    /\ reg' = [reg EXCEPT !["esp"] = @ - 3]
    /\ fl' = IF gate = "interrupt" THEN [fl EXCEPT !.IF = 0] ELSE fl
    /\ eip' = <<label, 1>>
    /\ UNCHANGED fpu
IntInst(i) == Fetch(i, "int") /\ RaiseIntr("vecsys", Goto(eip[2] + 1), "trap")
IretInstKeepsFlags(i) ==   \* mutant: eflags is dropped
    /\ Fetch(i, "iret")
    /\ eip' = Peek(0)
    /\ reg' = [reg EXCEPT !["esp"] = @ + 3]
    /\ UNCHANGED <<fl, cells, fpu>>
IretInst(i) ==
    /\ Fetch(i, "iret")
    /\ eip' = Peek(0)
    /\ fl' = Peek(2)
    /\ reg' = [reg EXCEPT !["esp"] = @ + 3]
    /\ UNCHANGED <<cells, fpu>>

\* do_intr, between two instructions.
DoIntr ==
    /\ Running /\ irqs > 0 /\ fl.IF = 1
    /\ RaiseIntr("irq0", eip, "interrupt")
    /\ irqs' = irqs - 1
    /\ UNCHANGED <<data, given>>

\* do_irq.S: the frame that the handler sees, and the way back.
AsmDoIrq == <<<<"pusha">>,
              <<"push", R("esp")>>,
              <<"call", "irq_handle">>,
              <<"add", I(1), R("esp"), Addr>>,
              <<"popa">>,
              <<"add", I(2), R("esp"), Addr>>,
              <<"iret">>>>
Entry(irq) == <<<<"push", I(0)>>, <<"push", I(irq)>>>> \o AsmDoIrq
Syscall == 128
KernelCode == [l \in {"irq0", "vecsys", "irq_handle"} |->
                   CASE l = "irq0"   -> Entry(1000)
                     [] l = "vecsys" -> Entry(Syscall)
                     [] OTHER        -> <<<<"C">>, <<"ret">>>>]

\* The C function irq_handle gets the address of the trap frame.  A system
\* call leaves its result in the eax of the frame (here the count in edx, as
\* read and write do); a function of C may change eax, ecx, edx and the
\* arithmetic flags.
IrqHandle(i) ==
    /\ Fetch(i, "C")
    /\ LET tf == Peek(1)
       IN cells' = IF cells[tf + 8] # Syscall THEN cells
                   ELSE [cells EXCEPT ![tf + 7] = cells[tf + 5]]
    /\ \E v \in Clobbered, bit \in {0, 1} :
           /\ reg' = [r \in DOMAIN reg |-> IF r \in {"eax", "ecx", "edx"} THEN v ELSE reg[r]]
           /\ fl' = [f \in DOMAIN fl |-> IF f \in Arithmetic THEN bit ELSE fl[f]]
    /\ NextInst
    /\ UNCHANGED fpu

-----------------------------------------------------------------------------
Integer(i) ==
    \/ AddInst(i) \/ AdcInst(i) \/ SubInst(i) \/ SbbInst(i) \/ AndInst(i) \/ OrInst(i) \/ XorInst(i)
    \/ ShlInst(i) \/ ShrInst(i) \/ SarInst(i) \/ CmpInst(i) \/ TestInst(i)
    \/ NegInst(i) \/ NotInst(i) \/ IncInst(i) \/ DecInst(i) \/ MovInst(i) \/ MovsInst(i) \/ MovzInst(i)
    \/ MulInst(i) \/ ImulInst(i) \/ Imul2Inst(i) \/ CltdInst(i) \/ DivInst(i) \/ IdivInst(i)
    \/ SetccInst(i) \/ CmovInst(i) \/ JccInst(i) \/ JmpInst(i)
    \/ PushInst(i) \/ PopInst(i) \/ CallInst(i) \/ RetInst(i) \/ LeaveInst(i) \/ PushaInst(i) \/ PopaInst(i)
    \/ RepInst(i) \/ IntInst(i) \/ IretInst(i) \/ IrqHandle(i)
X87(i) ==
    \/ FldsInst(i) \/ FaddsInst(i) \/ FsubsInst(i) \/ FmulsInst(i) \/ FdivsInst(i)
    \/ FaddInst(i) \/ FmulInst(i) \/ FaddpInst(i) \/ FxchInst(i)
    \/ FstpsInst(i) \/ FstsInst(i) \/ FstpInst(i) \/ FucomipInst(i)
ExecInst == /\ Running
            /\ \E i \in {Inst} : (Integer(i) /\ UNCHANGED data) \/ X87(i)
            /\ UNCHANGED <<irqs, given>>

CpuNext == ExecInst \/ DoIntr
=============================================================================
