---------------------------- MODULE DeviceProofs ----------------------------
(***************************************************************************)
(* The interrupt controller, the devices on the way from and to the user,  *)
(* and the programs of the guest behind them, for every value of their     *)
(* constants.  Interrupts: the assertion of do_intr never fails, handlers  *)
(* never nest, and interrupts are precise until the guest executes int3.   *)
(* Display: every surface reads back what was written, clean lines are     *)
(* shown, and the palette is the one the guest loaded.  Keyboard: no key   *)
(* of the PAL game stays pressed unless its release is lost.  Typing game: *)
(* the letters and the free nodes partition the pool, and it suffices.     *)
(*                                                                         *)
(* The four models share no variable but those of the keyboard, which the  *)
(* two games have in common.                                               *)
(***************************************************************************)
EXTENDS Interrupts, Display, PalInput, Typing, NumberLemmas, SequenceTheorems, TLAPS

(***************************************************************************)
(*                             Interrupts                                  *)
(***************************************************************************)

\* cpu.intr is set after the slot and cleared after it, so it is never set with
\* an empty slot; the monitor thread fills the slot before it sets cpu.intr.
SlotInv == /\ intr => i8259_intr_no # I8259_NO_INTR
           /\ mutex = "monitor" => i8259_intr_no # I8259_NO_INTR
           /\ pc = "query" => i8259_intr_no # I8259_NO_INTR
           /\ pc \in {"ack", "raise"} => num \in Irqs
           /\ IntrHasNumber

\* The stack of frames by the code that is running.  An interrupt is taken only
\* with IF set, which no IRQ handler runs with.
TaskFrame(f) == f.ctx = TASK
TrapFrame(f) == f.ctx = TRAP
StackInv == /\ pc \in {"query", "ack", "raise"} => IF_
            /\ ctx \in Irqs => ~IF_
            /\ ctx = TASK => frames = <<>>
            /\ ctx = TRAP => Len(frames) = 1 /\ TaskFrame(frames[1])
            /\ ctx \in Irqs => \/ Len(frames) = 1 /\ TaskFrame(frames[1])
                               \/ /\ Len(frames) = 2
                                  /\ TaskFrame(frames[1]) /\ TrapFrame(frames[2])

\* Where the running context and the interrupted ones go on.
ReturnInv == /\ at = next_at[ctx]
             /\ \A i \in 1 .. Len(frames) : frames[i].at = next_at[frames[i].ctx]

IInv == TypeOK /\ SlotInv /\ StackInv

LEMMA CtxFacts == /\ TASK \notin Irqs /\ TRAP \notin Irqs /\ TASK # TRAP
                  /\ I8259_NO_INTR \notin Irqs
BY IrqAssumption DEF TASK, TRAP, Irqs, I8259_NO_INTR

LEMMA AppendFacts ==
    ASSUME NEW S, NEW s \in Seq(S), NEW e \in S
    PROVE  /\ Len(Append(s, e)) = Len(s) + 1
           /\ Append(s, e)[Len(s) + 1] = e
           /\ \A i \in 1 .. Len(s) : Append(s, e)[i] = s[i]
OBVIOUS

LEMMA AppendToOne ==
    ASSUME NEW S, NEW s \in Seq(S), NEW e \in S, Len(s) = 1
    PROVE  Len(Append(s, e)) = 2 /\ Append(s, e)[1] = s[1] /\ Append(s, e)[2] = e
<1> DEFINE t == Append(s, e)
<1>1. Len(t) = Len(s) + 1 /\ t[Len(s) + 1] = e /\ \A i \in 1 .. Len(s) : t[i] = s[i]
    BY AppendFacts, SMTT(30)
<1>2. Len(s) + 1 = 2 /\ 1 \in 1 .. Len(s)
    OBVIOUS
<1> HIDE DEF t
<1> QED BY <1>1, <1>2 DEF t

LEMMA FrontFacts ==
    ASSUME NEW S, NEW s \in Seq(S), s # <<>>
    PROVE  LET t == SubSeq(s, 1, Len(s) - 1)
           IN /\ Len(t) = Len(s) - 1
              /\ \A i \in 1 .. Len(t) : t[i] = s[i] /\ i \in 1 .. Len(s)
<1> DEFINE t == SubSeq(s, 1, Len(s) - 1)
<1>1. Len(s) \in Nat /\ Len(s) >= 1
    OBVIOUS
<1>2. Len(t) = Len(s) - 1
    BY <1>1, SMTT(30)
<1>3. ASSUME NEW i \in 1 .. Len(s) - 1 PROVE t[i] = s[i] /\ i \in 1 .. Len(s)
    BY <1>1, <1>3
<1> HIDE DEF t
<1> QED BY <1>2, <1>3 DEF t

LEMMA InitIInv == Init => IInv
<1> SUFFICES ASSUME Init PROVE IInv
    OBVIOUS
<1>1. TypeOK
    <2>1. at \in 0 .. MaxAt /\ next_at \in [Ctx -> 0 .. MaxAt]
        BY BoundAssumption DEF Init
    <2>2. frames \in Seq(Frame)
        BY DEF Init
    <2> QED BY <2>1, <2>2 DEF Init, TypeOK, Ctx, PC
<1>2. SlotInv
    BY DEF Init, SlotInv, IntrHasNumber
<1>3. StackInv
    BY CtxFacts DEF Init, StackInv
<1> QED BY <1>1, <1>2, <1>3 DEF IInv

\* raise_intr, hardware or software: types and the stack of frames.
LEMMA FollowingType == TypeOK => Following \in 0 .. MaxAt
BY BoundAssumption DEF TypeOK, Following

LEMMA NextTypeOK == IInv /\ [Next]_vars => TypeOK'
<1> SUFFICES ASSUME IInv, [Next]_vars PROVE TypeOK'
    OBVIOUS
<1> USE DEF IInv
<1>1. ASSUME NEW no \in Irqs, Slot(no), Request(no)
      PROVE  i8259_intr_no' \in Irqs \cup {I8259_NO_INTR} /\ pend' \subseteq Irqs
    BY <1>1 DEF Slot, Request, TypeOK
<1>2. Following \in 0 .. MaxAt
    BY FollowingType
<1>3. ASSUME NEW c \in Ctx, NEW r \in 0 .. MaxAt, NEW g \in {INTR_GATE, TRAP_GATE}, NEW e \in 0 .. MaxAt,
             Enter(c, r, g, e)
      PROVE  frames' \in Seq(Frame) /\ IF_' \in BOOLEAN /\ ctx' \in Ctx /\ at' \in 0 .. MaxAt
    <2>1. [ctx |-> ctx, at |-> r, IF_ |-> IF_] \in Frame
        BY DEF TypeOK, Frame
    <2>2. frames' \in Seq(Frame)
        BY <1>3, <2>1 DEF Enter, TypeOK
    <2>3. IF_' \in BOOLEAN
        BY <1>3 DEF Enter, TypeOK
    <2> QED BY <1>3, <2>2, <2>3 DEF Enter
<1>4. CASE Loop
    BY <1>4 DEF Loop, TypeOK, PC, guest
<1>5. CASE DoIntr
    BY <1>5 DEF DoIntr, TypeOK, PC, guest, pic
<1>6. CASE Query
    BY <1>6 DEF Query, TypeOK, PC, guest, pic
<1>7. CASE Ack
    BY <1>7 DEF Ack, TypeOK, PC, guest
<1>8. CASE RaiseIntr
    <2>1. num \in Irqs /\ num \in Ctx
        BY <1>8 DEF RaiseIntr, SlotInv, Ctx
    <2>2. frames' \in Seq(Frame) /\ IF_' \in BOOLEAN /\ ctx' \in Ctx /\ at' \in 0 .. MaxAt
        <3>1. Enter(num, at, INTR_GATE, 0) /\ at \in 0 .. MaxAt /\ 0 \in 0 .. MaxAt
            BY <1>8, BoundAssumption DEF RaiseIntr, TypeOK
        <3> QED BY <1>3, <2>1, <3>1
    <2> QED BY <1>8, <2>1, <2>2, BoundAssumption DEF RaiseIntr, TypeOK, PC
<1>9. CASE Instr
    <2> USE DEF Executes, Advance, PC
    <2>1. ASSUME NEW c, Executes(c) PROVE pc' \in PC /\ UNCHANGED <<back, num>>
        BY <2>1
    <2>2. ASSUME Advance
          PROVE  at' \in 0 .. MaxAt /\ next_at' \in [Ctx -> 0 .. MaxAt]
                 /\ UNCHANGED <<ctx, frames>>
        BY <1>2, <2>2 DEF TypeOK
    <2>3. CASE Plain BY <2>2, <2>3 DEF Plain, TypeOK, pic
    <2>4. CASE Cli BY <2>2, <2>4 DEF Cli, TypeOK, pic
    <2>5. CASE Sti BY <2>2, <2>5 DEF Sti, TypeOK, pic
    <2>6. CASE Hlt BY <2>2, <2>6 DEF Hlt, TypeOK, pic
    <2>7. CASE OutIde
        <3>1. IDE_IRQ \in Irqs
            BY IrqAssumption DEF Irqs
        <3> QED BY <1>1, <2>2, <2>7, <3>1 DEF OutIde, RaiseIrq, TypeOK
    <2>8. CASE IntImm
        <3>1. frames' \in Seq(Frame) /\ IF_' \in BOOLEAN /\ ctx' \in Ctx /\ at' \in 0 .. MaxAt
            <4>1. Enter(TRAP, Following, TRAP_GATE, 0) /\ TRAP \in Ctx /\ 0 \in 0 .. MaxAt
                BY <2>8, BoundAssumption DEF IntImm, Ctx
            <4> QED BY <1>2, <1>3, <4>1
        <3>2. next_at' \in [Ctx -> 0 .. MaxAt]
            BY <1>2, <2>8, BoundAssumption DEF IntImm, TypeOK, Ctx
        <3> QED BY <2>8, <3>1, <3>2 DEF IntImm, TypeOK, pic
    <2>9. CASE Int3
        <3>1. frames' \in Seq(Frame) /\ IF_' \in BOOLEAN /\ ctx' \in Ctx /\ at' \in 0 .. MaxAt
            <4>1. /\ Enter(TRAP, at, TRAP_GATE, 1) /\ TRAP \in Ctx /\ 1 \in 0 .. MaxAt
                  /\ at \in 0 .. MaxAt
                BY <2>9, BoundAssumption DEF Int3, Ctx, TypeOK
            <4> QED BY <1>3, <4>1
        <3>2. next_at' \in [Ctx -> 0 .. MaxAt]
            BY <1>2, <2>9, BoundAssumption DEF Int3, TypeOK, Ctx
        <3> QED BY <2>9, <3>1, <3>2 DEF Int3, TypeOK, pic
    <2>10. CASE Iret
        <3>1. Last(frames) \in Frame /\ Front(frames) \in Seq(Frame)
            BY <2>10 DEF Iret, TypeOK, Last, Front
        <3> QED BY <2>10, <3>1 DEF Iret, TypeOK, Frame, pic
    <2>11. CASE NemuTrap BY <2>2, <2>11 DEF NemuTrap, TypeOK, pic
    <2> QED BY <1>9, <2>3, <2>4, <2>5, <2>6, <2>7, <2>8, <2>9, <2>10, <2>11 DEF Instr
<1>10. ASSUME NEW tick \in BOOLEAN, Timer(tick) PROVE TypeOK'
    BY <1>1, <1>10 DEF Timer, RaiseIrq, TypeOK, PC, guest, pic, Irqs
<1>11. ASSUME NEW key \in BOOLEAN, NEW quit \in BOOLEAN, Keyboard(key, quit) PROVE TypeOK'
    BY <1>1, <1>11 DEF Keyboard, RaiseIrq, TypeOK, PC, guest, pic, Irqs
<1>12. ASSUME NEW no \in MonitorIrqs, MonitorRaise(no) PROVE TypeOK'
    <2>1. no \in Irqs
        BY DEF Irqs
    <2> QED BY <1>1, <1>12, <2>1 DEF MonitorRaise, TypeOK, guest, loop
<1>13. CASE MonitorUnlock
    BY <1>13 DEF MonitorUnlock, TypeOK, guest, loop
<1>14. CASE UNCHANGED vars
    BY <1>14 DEF vars, TypeOK
<1>15. CASE Ended
    BY <1>14, <1>15 DEF Ended
<1> QED BY <1>4, <1>5, <1>6, <1>7, <1>8, <1>9, <1>10, <1>11, <1>12, <1>13, <1>14,
           <1>15
        DEF Next, LoopNext, MonitorNext

\* The slot and cpu.intr stay in step, also halfway through the monitor's raise.
LEMMA NextSlotInv == IInv /\ [Next]_vars => SlotInv'
<1> SUFFICES ASSUME IInv, [Next]_vars PROVE SlotInv'
    OBVIOUS
<1> USE CtxFacts DEF IInv, SlotInv, IntrHasNumber
<1>1. ASSUME NEW no \in Irqs, Slot(no)
      PROVE  i8259_intr_no' # I8259_NO_INTR
    BY <1>1 DEF Slot, TakesSlot
<1>2. CASE Loop
    BY <1>2 DEF Loop
<1>3. CASE DoIntr
    BY <1>3 DEF DoIntr, pic, TypeOK
<1>4. CASE Query
    BY <1>4 DEF Query, pic, TypeOK
<1>5. CASE Ack
    BY <1>5 DEF Ack
<1>6. CASE RaiseIntr
    BY <1>6 DEF RaiseIntr, TypeOK
<1>7. CASE Instr
    <2>1. CASE OutIde
        BY <1>1, <2>1, IrqAssumption DEF OutIde, RaiseIrq, Executes, Irqs
    <2>2. CASE UNCHANGED pic
        BY <1>7, <2>2
           DEF Instr, Plain, Cli, Sti, Hlt, OutIde, IntImm, Int3, Iret, NemuTrap,
                          Executes, pic
    <2> QED BY <1>7, <2>1, <2>2
               DEF Instr, Plain, Cli, Sti, Hlt, IntImm, Int3, Iret, NemuTrap
<1>8. ASSUME NEW tick \in BOOLEAN, Timer(tick) PROVE SlotInv'
    BY <1>1, <1>8 DEF Timer, RaiseIrq, pic, Irqs
<1>9. ASSUME NEW key \in BOOLEAN, NEW quit \in BOOLEAN, Keyboard(key, quit) PROVE SlotInv'
    BY <1>1, <1>9 DEF Keyboard, RaiseIrq, pic, Irqs
<1>10. ASSUME NEW no \in MonitorIrqs, MonitorRaise(no) PROVE SlotInv'
    BY <1>1, <1>10 DEF MonitorRaise, loop, Irqs
<1>11. CASE MonitorUnlock
    BY <1>11 DEF MonitorUnlock, loop
<1>12. CASE UNCHANGED vars
    BY <1>12 DEF vars
<1>13. CASE Ended
    BY <1>12, <1>13 DEF Ended
<1> QED BY <1>2, <1>3, <1>4, <1>5, <1>6, <1>7, <1>8, <1>9, <1>10, <1>11, <1>12, <1>13
        DEF Next, LoopNext, MonitorNext

\* Frames are pushed on a task, or on a trap handler over a task, and popped in
\* the opposite order.
LEMMA NextStackInv == IInv /\ [Next]_vars => StackInv'
<1> SUFFICES ASSUME IInv, [Next]_vars PROVE StackInv'
    OBVIOUS
<1> USE CtxFacts DEF IInv, StackInv, TaskFrame, TrapFrame
<1>1. CASE UNCHANGED <<IF_, ctx, frames>> /\ (pc' \in {"query", "ack", "raise"} => IF_)
    BY <1>1
<1>2. CASE Loop
    BY <1>1, <1>2 DEF Loop, guest
<1>3. CASE DoIntr
    BY <1>1, <1>3 DEF DoIntr, guest, TypeOK
<1>4. CASE Query
    BY <1>1, <1>4 DEF Query, guest
<1>5. CASE Ack
    BY <1>1, <1>5 DEF Ack, guest
<1>6. CASE RaiseIntr
    <2>1. num \in Irqs /\ ctx \in {TASK, TRAP}
        BY <1>6 DEF RaiseIntr, SlotInv, TypeOK, Ctx
    <2>2. /\ ctx' = num /\ ~IF_' /\ pc' \notin {"query", "ack", "raise"}
          /\ frames' = Append(frames, [ctx |-> ctx, at |-> at, IF_ |-> IF_])
        BY <1>6 DEF RaiseIntr, Enter, TypeOK
    <2>3. CASE ctx = TASK
        BY <2>1, <2>2, <2>3
    <2>4. CASE ctx = TRAP
        <3>1. Len(frames) = 1 /\ frames[1].ctx = TASK /\ frames \in Seq(Frame)
            BY <2>4 DEF TypeOK
        <3> DEFINE f == [ctx |-> ctx, at |-> at, IF_ |-> IF_]
        <3>2. f \in Frame /\ f.ctx = TRAP
            BY <2>4 DEF TypeOK, Frame
        <3> HIDE DEF f
        <3>3. Len(frames') = 2 /\ frames'[1] = frames[1] /\ frames'[2] = f
            BY <2>2, <3>1, <3>2, AppendToOne DEF f
        <3> QED BY <2>1, <2>2, <3>1, <3>2, <3>3
    <2> QED BY <2>1, <2>3, <2>4
<1>7. CASE Instr
    <2>1. pc' = "timer"
        BY <1>7
           DEF Instr, Plain, Cli, Sti, Hlt, OutIde, IntImm, Int3, Iret, NemuTrap,
               Executes
    <2>2. CASE Plain \/ Hlt \/ OutIde \/ NemuTrap
        BY <1>1, <2>1, <2>2 DEF Plain, Hlt, OutIde, NemuTrap, Advance
    <2>3. CASE Cli \/ Sti
        BY <2>1, <2>3 DEF Cli, Sti, Advance, Executes
    <2>4. CASE IntImm \/ Int3
        <3>1. PICK r : frames' = Append(frames, [ctx |-> ctx, at |-> r, IF_ |-> IF_])
            BY <2>4 DEF IntImm, Int3, Enter
        <3>2. ctx = TASK /\ ctx' = TRAP
            BY <2>4 DEF IntImm, Int3, Enter, Executes
        <3> QED BY <2>1, <3>1, <3>2
    <2>5. CASE Iret
        <3>1. /\ ctx # TASK /\ frames # <<>> /\ ctx' = frames[Len(frames)].ctx
              /\ frames' = SubSeq(frames, 1, Len(frames) - 1)
            BY <2>5 DEF Iret, Executes, Last, Front
        <3>2. CASE Len(frames) = 1 /\ frames[1].ctx = TASK
            BY <2>1, <3>1, <3>2 DEF TypeOK
        <3>3. CASE Len(frames) = 2 /\ frames[1].ctx = TASK /\ frames[2].ctx = TRAP
            BY <2>1, <3>1, <3>3 DEF TypeOK
        <3> QED BY <3>1, <3>2, <3>3 DEF TypeOK, Ctx
    <2> QED BY <1>7, <2>2, <2>3, <2>4, <2>5 DEF Instr
<1>8. ASSUME NEW tick \in BOOLEAN, Timer(tick) PROVE StackInv'
    BY <1>1, <1>8 DEF Timer, guest
<1>9. ASSUME NEW key \in BOOLEAN, NEW quit \in BOOLEAN, Keyboard(key, quit) PROVE StackInv'
    BY <1>1, <1>9 DEF Keyboard, guest
<1>10. ASSUME NEW no \in MonitorIrqs, MonitorRaise(no) PROVE StackInv'
    BY <1>1, <1>10 DEF MonitorRaise, loop, guest
<1>11. CASE MonitorUnlock
    BY <1>1, <1>11 DEF MonitorUnlock, loop, guest
<1>12. CASE UNCHANGED vars
    BY <1>1, <1>12 DEF vars
<1>13. CASE Ended
    BY <1>12, <1>13 DEF Ended
<1> QED BY <1>2, <1>3, <1>4, <1>5, <1>6, <1>7, <1>8, <1>9, <1>10, <1>11, <1>12, <1>13
        DEF Next, LoopNext, MonitorNext

LEMMA NextIInv == IInv /\ [Next]_vars => IInv'
BY NextTypeOK, NextSlotInv, NextStackInv DEF IInv

\* The variables keep their types.
THEOREM TypeCorrect == Spec => []TypeOK
<1>1. IInv => TypeOK
    BY DEF IInv
<1> QED BY <1>1, InitIInv, NextIInv, PTL DEF Spec

\* assert(intr_no != I8259_NO_INTR) in do_intr never fails, with or without the
\* audio monitor thread.
THEOREM IntrNumberThere == Spec => []IntrHasNumber
<1>1. IInv => IntrHasNumber
    BY DEF IInv, SlotInv
<1> QED BY <1>1, InitIInv, NextIInv, PTL DEF Spec

\* IRQ handlers never nest and the guest's stack holds at most two frames.
THEOREM HandlersDoNotNest == Spec => []OneIrqHandler
<1>1. IInv => OneIrqHandler
    <2> SUFFICES ASSUME IInv PROVE OneIrqHandler
        OBVIOUS
    <2>1. \/ frames = <<>>
          \/ Len(frames) = 1 /\ frames[1].ctx = TASK
          \/ Len(frames) = 2 /\ frames[1].ctx = TASK /\ frames[2].ctx = TRAP
        BY DEF IInv, TypeOK, Ctx, StackInv, TaskFrame, TrapFrame
    <2>2. Len(frames) <= 2 /\ \A i \in 1 .. Len(frames) : frames[i].ctx \notin Irqs
        <3>1. CASE frames = <<>>
            BY <3>1
        <3>2. CASE Len(frames) = 1 /\ frames[1].ctx = TASK
            BY <3>2, CtxFacts
        <3>3. CASE Len(frames) = 2 /\ frames[1].ctx = TASK /\ frames[2].ctx = TRAP
            <4>1. \A i \in 1 .. Len(frames) : i = 1 \/ i = 2
                BY <3>3
            <4> QED BY <3>3, <4>1, CtxFacts
        <3> QED BY <2>1, <3>1, <3>2, <3>3
    <2>3. ctx \in Irqs => ~IF_
        BY DEF IInv, StackInv
    <2> QED BY <2>2, <2>3 DEF OneIrqHandler, IrqActive
<1> QED BY <1>1, InitIInv, NextIInv, PTL DEF Spec

-----------------------------------------------------------------------------
\* The interrupted contexts are all different from the one that runs.
LEMMA OtherContexts ==
    ASSUME IInv, NEW i \in 1 .. Len(frames)
    PROVE  frames[i].ctx \notin Irqs /\ frames[i].ctx # ctx /\ frames[i] \in Frame
<1> USE DEF IInv
<1>1. frames \in Seq(Frame) /\ ctx \in Ctx
    BY DEF TypeOK
<1>2. CASE ctx = TASK
    BY <1>2 DEF StackInv
<1>3. CASE Len(frames) = 1 /\ frames[1].ctx = TASK
    BY <1>1, <1>2, <1>3, CtxFacts
<1>4. CASE Len(frames) = 2 /\ frames[1].ctx = TASK /\ frames[2].ctx = TRAP /\ ctx \in Irqs
    <2>1. i = 1 \/ i = 2
        BY <1>4
    <2> QED BY <1>1, <1>4, <2>1, CtxFacts
<1> QED BY <1>1, <1>2, <1>3, <1>4 DEF StackInv, Ctx, TaskFrame, TrapFrame

LEMMA InitReturnInv == Init => ReturnInv
BY DEF Init, ReturnInv, Ctx

LEMMA NextReturnInv == IInv /\ (~int3 => ReturnInv) /\ [Next]_vars => (~int3 => ReturnInv)'
<1> SUFFICES ASSUME IInv, ~int3 => ReturnInv, [Next]_vars, ~int3' PROVE ReturnInv'
    OBVIOUS
<1>0. ReturnInv /\ ~Int3
    <2>1. ~Int3
        BY DEF Int3
    <2>2. CASE UNCHANGED int3
        BY <2>1, <2>2
    <2> QED BY <2>1, <2>2
               DEF Next, LoopNext, MonitorNext, Loop, DoIntr, Query, Ack, RaiseIntr,
            Instr, Plain, Cli, Sti, Hlt, OutIde, IntImm, Iret, NemuTrap, Advance, Timer,
            Keyboard, MonitorRaise, MonitorUnlock, Ended, guest, vars
<1> USE <1>0 DEF ReturnInv
<1>1. /\ frames \in Seq(Frame) /\ ctx \in Ctx /\ at \in 0 .. MaxAt
      /\ next_at \in [Ctx -> 0 .. MaxAt]
    BY DEF IInv, TypeOK
<1>2. \A i \in 1 .. Len(frames) :
         /\ frames[i].ctx \notin Irqs /\ frames[i].ctx # ctx
         /\ frames[i] \in Frame /\ frames[i].ctx \in Ctx
    BY OtherContexts DEF Frame
<1>3. CASE UNCHANGED <<ctx, at, frames, next_at>>
    BY <1>3
<1>4. CASE Advance
    BY <1>1, <1>2, <1>4 DEF Advance
\* A step that pushes a frame: c is entered, the interrupted context goes on at r.
<1>5. ASSUME NEW c \in Ctx, NEW r, NEW f, c # ctx,
             \A i \in 1 .. Len(frames) : frames[i].ctx # c,
             f = [ctx |-> ctx, at |-> r, IF_ |-> IF_], f \in Frame,
             frames' = Append(frames, f), ctx' = c, at' = 0,
             next_at' = [next_at EXCEPT ![ctx] = r, ![c] = 0]
      PROVE  ReturnInv'
    <2>1. at' = next_at'[ctx']
        BY <1>1, <1>5
    <2>2. /\ Len(frames') = Len(frames) + 1
          /\ frames'[Len(frames) + 1] = f
          /\ \A i \in 1 .. Len(frames) : frames'[i] = frames[i]
        BY <1>1, <1>5, AppendFacts
    <2>3. next_at'[ctx] = r /\ f.at = r /\ f.ctx = ctx
        BY <1>1, <1>5
    <2>4. \A i \in 1 .. Len(frames) : next_at'[frames[i].ctx] = next_at[frames[i].ctx]
        BY <1>1, <1>2, <1>5
    <2>5. \A i \in 1 .. Len(frames') : i \in 1 .. Len(frames) \/ i = Len(frames) + 1
        BY <1>1, <2>2
    <2>6. \A i \in 1 .. Len(frames') : frames'[i].at = next_at'[frames'[i].ctx]
        BY <2>2, <2>3, <2>4, <2>5
    <2> QED BY <2>1, <2>6
<1>6. CASE RaiseIntr
    <2> DEFINE f == [ctx |-> ctx, at |-> at, IF_ |-> IF_]
    <2>1. num \in Irqs /\ ctx \notin Irqs /\ num \in Ctx
        BY <1>6 DEF RaiseIntr, IInv, SlotInv, StackInv, Ctx
    <2>2. f \in Frame
        BY DEF IInv, TypeOK, Frame
    <2>3. frames' = Append(frames, f) /\ ctx' = num /\ at' = 0
        BY <1>6 DEF RaiseIntr, Enter
    <2>4. next_at' = [next_at EXCEPT ![ctx] = at, ![num] = 0]
        BY <1>1, <1>6 DEF RaiseIntr
    <2>5. num # ctx /\ \A i \in 1 .. Len(frames) : frames[i].ctx # num
        BY <1>2, <2>1
    <2> HIDE DEF f
    <2> QED BY <1>5, <2>1, <2>2, <2>3, <2>4, <2>5 DEF f
<1>7. CASE IntImm
    <2> DEFINE f == [ctx |-> ctx, at |-> Following, IF_ |-> IF_]
    <2>1. ctx = TASK /\ TRAP \in Ctx /\ TRAP # ctx /\ frames = <<>>
        BY <1>7, CtxFacts DEF IntImm, Executes, Ctx, IInv, StackInv
    <2>2. f \in Frame
        BY FollowingType DEF IInv, TypeOK, Frame
    <2>3. frames' = Append(frames, f) /\ ctx' = TRAP /\ at' = 0
        BY <1>7 DEF IntImm, Enter
    <2>4. next_at' = [next_at EXCEPT ![ctx] = Following, ![TRAP] = 0]
        BY <1>7 DEF IntImm
    <2>5. \A i \in 1 .. Len(frames) : frames[i].ctx # TRAP
        BY <2>1
    <2> HIDE DEF f
    <2> QED BY <1>5, <2>1, <2>2, <2>3, <2>4, <2>5 DEF f
<1>8. CASE Iret
    <2>1. /\ frames # <<>> /\ UNCHANGED next_at
          /\ ctx' = frames[Len(frames)].ctx /\ at' = frames[Len(frames)].at
          /\ frames' = SubSeq(frames, 1, Len(frames) - 1)
        BY <1>8 DEF Iret, Last, Front
    <2>2. Len(frames) \in 1 .. Len(frames)
        BY <1>1, <2>1
    <2>3. /\ Len(frames') = Len(frames) - 1
          /\ \A i \in 1 .. Len(frames') : frames'[i] = frames[i] /\ i \in 1 .. Len(frames)
        BY <1>1, <2>1, FrontFacts
    <2> QED BY <2>1, <2>2, <2>3
<1>9. CASE Instr
    BY <1>4, <1>7, <1>8, <1>9
       DEF Instr, Plain, Cli, Sti, Hlt, OutIde, NemuTrap
<1> QED BY <1>3, <1>6, <1>9
           DEF Next, LoopNext, MonitorNext, Loop, DoIntr, Query, Ack, Timer,
        Keyboard, MonitorRaise, MonitorUnlock, Ended, guest, vars

\* Interrupts are precise: every context goes on with the instruction after the
\* last one it executed, until the guest executes int3 or into.
THEOREM PreciseInterrupts == Spec => []Precise
<1>1. (~int3 => ReturnInv) => Precise
    BY DEF ReturnInv, Precise
<1>2. Init => (~int3 => ReturnInv)
    BY InitReturnInv
<1>3. (IInv /\ (~int3 => ReturnInv)) /\ [Next]_vars => (IInv /\ (~int3 => ReturnInv))'
    BY NextIInv, NextReturnInv
<1> QED BY <1>1, <1>2, <1>3, InitIInv, PTL DEF Spec

-----------------------------------------------------------------------------
\* Between the query and the acknowledge only the monitor thread fills the slot.
AckInv == pc = "ack" => i8259_intr_no = num \/ i8259_intr_no \in MonitorIrqs
KeptInv == AckInv /\ PolledKept

LEMMA InitKeptInv == Init => KeptInv
BY DEF Init, KeptInv, AckInv, PolledKept, Kept

LEMMA NextKeptInv == IInv /\ KeptInv /\ [Next]_vars => KeptInv'
<1> SUFFICES ASSUME IInv, KeptInv, [Next]_vars PROVE KeptInv'
    OBVIOUS
<1> USE CtxFacts DEF KeptInv, AckInv, PolledKept, Kept
\* i8259_raise_intr by the loop, which is neither at the acknowledge nor at raise_intr.
<1>1. ASSUME NEW no \in Irqs, RaiseIrq(no), pc \notin {"ack", "raise"}, pc' # "ack"
      PROVE  KeptInv'
    BY <1>1 DEF RaiseIrq, Slot, Request
<1>2. CASE UNCHANGED <<i8259_intr_no, pend>> /\ pc \notin {"ack", "raise"} /\ pc' # "ack"
    BY <1>2
<1>3. CASE Loop \/ DoIntr
    BY <1>2, <1>3 DEF Loop, DoIntr, pic, IInv, TypeOK
<1>4. CASE Query
    BY <1>4 DEF Query, pic
<1>5. CASE Ack
    BY <1>5 DEF Ack
<1>6. CASE RaiseIntr
    BY <1>6 DEF RaiseIntr, IInv, TypeOK
<1>7. CASE Instr
    <2>1. pc = "exec" /\ pc' = "timer"
        BY <1>7
           DEF Instr, Plain, Cli, Sti, Hlt, OutIde, IntImm, Int3, Iret, NemuTrap,
               Executes
    <2>2. CASE OutIde
        BY <1>1, <2>1, <2>2, IrqAssumption DEF OutIde, Irqs
    <2>3. CASE UNCHANGED pic
        BY <1>2, <2>1, <2>3 DEF pic
    <2> QED BY <1>7, <2>2, <2>3
               DEF Instr, Plain, Cli, Sti, Hlt, IntImm, Int3, Iret, NemuTrap
<1>8. ASSUME NEW tick \in BOOLEAN, Timer(tick) PROVE KeptInv'
    BY <1>1, <1>2, <1>8 DEF Timer, pic, Irqs
<1>9. ASSUME NEW key \in BOOLEAN, NEW quit \in BOOLEAN, Keyboard(key, quit) PROVE KeptInv'
    BY <1>1, <1>2, <1>9 DEF Keyboard, pic, Irqs
<1>10. ASSUME NEW no \in MonitorIrqs, MonitorRaise(no) PROVE KeptInv'
    BY <1>10 DEF MonitorRaise, Slot, Request, loop
<1>11. CASE MonitorUnlock
    BY <1>11 DEF MonitorUnlock, loop
<1>12. CASE UNCHANGED vars
    BY <1>12 DEF vars
<1>13. CASE Ended
    BY <1>12, <1>13 DEF Ended
<1> QED BY <1>3, <1>4, <1>5, <1>6, <1>7, <1>8, <1>9, <1>10, <1>11, <1>12, <1>13
        DEF Next, LoopNext, MonitorNext

\* No request of the timer, the keyboard or the disk disappears from the slot of
\* the controller before do_intr has taken it, whatever the monitor thread does.
THEOREM PolledRequestsKept == Spec => []PolledKept
<1>1. KeptInv => PolledKept
    BY DEF KeptInv
<1>2. (IInv /\ KeptInv) /\ [Next]_vars => (IInv /\ KeptInv)'
    BY NextIInv, NextKeptInv
<1> QED BY <1>1, <1>2, InitIInv, InitKeptInv, PTL DEF Spec

(***************************************************************************)
(*                                 Display                                 *)
(***************************************************************************)

-----------------------------------------------------------------------------
(* Sizes.                                                                  *)

\* The buffer of the mapped region is not smaller than the region.
LEMMA PoolHoldsRegion ==
    /\ REGION \in Nat /\ ROW * COL \in Nat /\ REGION = ROW * COL + HIDDEN
    /\ MEM_SIZE_B \in Nat /\ MEM_SIZE_B = LOW + REGION + HIGH + 1
    /\ MMIO_SPACE_MAX \in Nat /\ REGION <= MMIO_SPACE_MAX
<1>1. ROW * COL \in Nat
    BY SizeAssumption
<1>2. REGION \in Nat /\ REGION = ROW * COL + HIDDEN
    BY <1>1, SizeAssumption DEF REGION
<1>3. MEM_SIZE_B \in Nat /\ MEM_SIZE_B = LOW + REGION + HIGH + 1
    BY <1>2, SizeAssumption DEF MEM_SIZE_B
<1>4. Max(Lens) \in Nat
    <2> DEFINE top == LOW + REGION + HIGH
               gap == {top - x : x \in Lens}
    <2>1. top \in Nat /\ Lens \subseteq 1 .. top /\ Lens # {}
        BY <1>2, SizeAssumption
    <2> HIDE DEF top
    <2>2. gap \subseteq Nat /\ gap # {}
        <3>1. \A x \in Lens : top - x \in Nat
            BY <2>1
        <3> QED BY <2>1, <3>1
    <2>3. PICK g \in gap : \A y \in gap : g <= y
        <3> HIDE DEF gap
        <3> QED BY <2>2, MinIsElement
    <2>4. PICK x \in Lens : g = top - x
        BY <2>3
    <2>5. \A y \in Lens : x >= y
        <3> SUFFICES ASSUME NEW y \in Lens PROVE x >= y
            OBVIOUS
        <3>1. top - x <= top - y
            BY <2>3, <2>4
        <3>2. x \in Int /\ y \in Int
            BY <2>1
        <3> QED BY <2>1, <3>1, <3>2
    <2>6. Max(Lens) \in Lens
        BY <2>5 DEF Max
    <2>7. \A y \in Lens : y \in Nat
        BY <2>1
    <2> QED BY <2>6, <2>7
<1> QED BY <1>1, <1>2, <1>3, <1>4 DEF MMIO_SPACE_MAX

-----------------------------------------------------------------------------
(* The bus: memory and the mapped region are one array of bytes.           *)

BusType == [hw : [Addr -> Byte], io : [0 .. MMIO_SPACE_MAX - 1 -> Byte],
            dirty : BOOLEAN, lines : [Line -> BOOLEAN]]

\* The byte at an address.
Value(s, a) == IF IsMmio(a) THEN s.io[a - LOW] ELSE s.hw[a]

\* CleanLinesShown, of a state of the bus.
Shows(s, active, window, lost) == \A l \in Line :
    IF s.lines[l] THEN s.dirty \/ ~active
    ELSE \A c \in 0 .. COL - 1 : l * COL + c \in lost \/ window[l][c] = s.io[l * COL + c]

\* A byte of a line is in the region.
LEMMA ByteOfLine ==
    ASSUME NEW l \in Line, NEW c \in 0 .. COL - 1
    PROVE  /\ l * COL \in Nat /\ l * COL + c \in 0 .. ROW * COL - 1
           /\ (l * COL + c) \div COL = l
<1>1. l \in Nat /\ l < ROW /\ COL \in Nat \ {0} /\ ROW \in Nat
    BY SizeAssumption DEF Line
<1>2. l * COL + COL <= ROW * COL
    BY <1>1, LessTimes
<1>3. l * COL \in Nat /\ ROW * COL \in Nat
    BY <1>1
<1>4. (l * COL + c) \div COL = l
    BY <1>1, DivModUnique
<1> QED BY <1>1, <1>2, <1>3, <1>4

\* The line of an address in the region.
LEMMA LineOf ==
    ASSUME NEW a \in Nat, IsMmio(a)
    PROVE  a - LOW \in Nat /\ (a - LOW) \div COL \in Nat
<1>1. a - LOW \in Nat
    BY SizeAssumption DEF IsMmio
<1>2. (a - LOW) \div COL \in Nat
    BY <1>1, SizeAssumption, DivMod
<1> QED BY <1>1, <1>2

\* A write: the bytes on the side of the first one are those written, all others are
\* as before, and the line of every pixel that changed is marked, but for the pixels
\* behind the line of the first byte.
LEMMA WriteOk ==
    ASSUME NEW s \in BusType, NEW a \in Nat, NEW len \in Nat \ {0},
           NEW data \in [1 .. len -> Byte],
           NEW active, NEW window, NEW lost
    PROVE  /\ PaddrWrite(a, data, s) \in BusType
           /\ Shows(s, active, window, lost) =>
                 Shows(PaddrWrite(a, data, s), active, window, lost \union Behind(a, len))
           /\ \A x \in Addr : Value(PaddrWrite(a, data, s), x) =
                  IF x \in Reached(a, len) THEN data[x - a + 1] ELSE Value(s, x)
<1> DEFINE t == PaddrWrite(a, data, s)
           line == (a - LOW) \div COL
           M == MMIO_SPACE_MAX - 1
<1>0. Len(data) = len
    BY DEF BusType
<1>1. /\ LOW \in Nat /\ REGION \in Nat /\ MMIO_SPACE_MAX \in Nat /\ REGION <= MMIO_SPACE_MAX
      /\ ROW * COL \in Nat /\ ROW * COL <= REGION /\ MEM_SIZE_B \in Nat
      /\ COL \in Nat \ {0} /\ ROW \in Nat
    BY PoolHoldsRegion, SizeAssumption
<1>2. /\ s = [hw |-> s.hw, io |-> s.io, dirty |-> s.dirty, lines |-> s.lines]
      /\ s.hw \in [Addr -> Byte] /\ s.io \in [0 .. M -> Byte]
      /\ s.dirty \in BOOLEAN /\ s.lines \in [Line -> BOOLEAN]
    BY DEF BusType
<1>3. a \in a .. a + len - 1
    OBVIOUS
<1>4. CASE ~IsMmio(a)
    <2>1. t = [s EXCEPT !.hw = Put(s.hw, a, data)]
        BY <1>4 DEF PaddrWrite
    <2> DEFINE h == Put(s.hw, a, data)
    <2>2. h = [x \in Addr |-> IF x \in a .. a + len - 1 THEN data[x - a + 1] ELSE s.hw[x]]
        BY <1>0, <1>2 DEF Put
    <2>3. h \in [Addr -> Byte]
        <3>1. Addr \subseteq Int
            BY DEF Addr
        <3>2. \A x \in Addr : x \in a .. a + len - 1 => x - a + 1 \in 1 .. len
            BY <3>1
        <3> QED BY <1>2, <2>2, <3>2
    <2>4. t = [hw |-> h, io |-> s.io, dirty |-> s.dirty, lines |-> s.lines]
        BY <1>2, <2>1
    <2> HIDE DEF h, t
    <2>5. t \in BusType
        BY <1>2, <2>3, <2>4 DEF BusType
    <2>6. Shows(s, active, window, lost) => Shows(t, active, window, lost \union Behind(a, len))
        BY <2>4 DEF Shows
    <2>7. ASSUME NEW x \in Addr
          PROVE  Value(t, x) = IF x \in Reached(a, len) THEN data[x - a + 1] ELSE Value(s, x)
        <3>1. x \in Reached(a, len) <=> x \in a .. a + len - 1 /\ ~IsMmio(x)
            BY <1>4 DEF Reached
        <3>2. t.hw = h /\ t.io = s.io
            BY <2>4
        <3> QED BY <2>2, <3>1, <3>2 DEF Value
    <2> QED BY <2>5, <2>6, <2>7 DEF t
<1>5. CASE IsMmio(a)
    <2> DEFINE io == Put(s.io, a - LOW, data)
               marked == line < ROW
               lines == IF marked THEN [s.lines EXCEPT ![line] = TRUE] ELSE s.lines
               dirty == IF marked THEN TRUE ELSE s.dirty
    <2>0. a - LOW \in Nat /\ line \in Nat
        BY <1>5, LineOf
    <2>1. io = [x \in 0 .. M |-> IF x \in a - LOW .. a - LOW + len - 1
                                 THEN data[x - (a - LOW) + 1] ELSE s.io[x]]
        BY <1>0, <1>2 DEF Put
    <2>2. io \in [0 .. M -> Byte]
        <3>1. \A x \in 0 .. M : x \in a - LOW .. a - LOW + len - 1 => x - (a - LOW) + 1 \in 1 .. len
            BY <1>1, <2>0
        <3> QED BY <1>2, <2>1, <3>1
    <2>3. t = [hw |-> s.hw, io |-> io, dirty |-> dirty, lines |-> lines]
        <3>1. [s EXCEPT !.io = io] = [hw |-> s.hw, io |-> io, dirty |-> s.dirty, lines |-> s.lines]
            BY <1>2
        <3> HIDE DEF io
        <3>2. t = VgaVmemIoHandler(a, [s EXCEPT !.io = io])
            BY <1>5 DEF PaddrWrite, io
        <3> DEFINE u == [hw |-> s.hw, io |-> io, dirty |-> s.dirty, lines |-> s.lines]
        <3>3. t = VgaVmemIoHandler(a, u)
            BY <3>1, <3>2
        <3>4. CASE marked
            <4>1. t = [u EXCEPT !.lines[line] = TRUE, !.dirty = TRUE]
                BY <3>3, <3>4 DEF VgaVmemIoHandler
            <4> QED BY <3>4, <4>1
        <3>5. CASE ~marked
            BY <3>3, <3>5 DEF VgaVmemIoHandler
        <3> QED BY <3>4, <3>5
    <2>4. lines \in [Line -> BOOLEAN] /\ dirty \in BOOLEAN
        BY <1>2
    <2>5. \A x : x \in Reached(a, len) <=> x \in a .. a + len - 1 /\ IsMmio(x)
        BY <1>5 DEF Reached
    <2> HIDE DEF io, t
    <2>6. t \in BusType
        <3> HIDE DEF lines, dirty
        <3> QED BY <1>2, <2>2, <2>3, <2>4 DEF BusType
    <2> DEFINE more == lost \union Behind(a, len)
    <2>7. ASSUME Shows(s, active, window, lost) PROVE Shows(t, active, window, more)
        <3> SUFFICES ASSUME NEW l \in Line
                     PROVE  IF lines[l] THEN dirty \/ ~active
                            ELSE \A c \in 0 .. COL - 1 :
                                     l * COL + c \in more \/ window[l][c] = io[l * COL + c]
            <4> HIDE DEF lines, dirty
            <4> QED BY <2>3 DEF Shows
        <3>1. IF s.lines[l] THEN s.dirty \/ ~active
              ELSE \A c \in 0 .. COL - 1 :
                       l * COL + c \in lost \/ window[l][c] = s.io[l * COL + c]
            BY <2>7 DEF Shows
        <3>2. CASE marked /\ l = line
            BY <1>2, <3>2
        <3>3. CASE ~(marked /\ l = line)
            <4>1. l # line
                BY <3>3, <1>1 DEF Line
            <4>2. lines[l] = s.lines[l] /\ (s.dirty => dirty)
                BY <1>2, <4>1
            <4>3. ASSUME NEW c \in 0 .. COL - 1
                  PROVE  l * COL + c \in Behind(a, len) \/ io[l * COL + c] = s.io[l * COL + c]
                <5> DEFINE x == l * COL + c
                <5>1. x \in 0 .. ROW * COL - 1 /\ x \div COL = l
                    BY ByteOfLine
                <5> HIDE DEF x, line
                <5>2. x \in 0 .. M /\ x \in Pixel
                    BY <1>1, <5>1 DEF Pixel
                <5>3. CASE x \in a - LOW .. a - LOW + len - 1
                    <6>1. x + LOW \in a .. a + len - 1
                        BY <1>1, <5>1, <5>3
                    <6>2. x \div COL # line
                        BY <4>1, <5>1
                    <6> QED BY <1>5, <5>2, <6>1, <6>2 DEF Behind, x, line
                <5>4. CASE x \notin a - LOW .. a - LOW + len - 1
                    BY <2>1, <5>2, <5>4 DEF x
                <5> QED BY <5>3, <5>4
            <4> HIDE DEF lines, dirty
            <4> QED BY <3>1, <4>2, <4>3 DEF more
        <3> QED BY <3>2, <3>3
    <2>8. ASSUME NEW x \in Addr
          PROVE  Value(t, x) = IF x \in Reached(a, len) THEN data[x - a + 1] ELSE Value(s, x)
        <3>1. t.io = io /\ t.hw = s.hw
            BY <2>3
        <3>2. x \in Int
            BY DEF Addr
        <3>3. CASE IsMmio(x)
            <4>1. x - LOW \in 0 .. M
                BY <1>1, <3>2, <3>3 DEF IsMmio
            <4>2. x - LOW \in a - LOW .. a - LOW + len - 1 <=> x \in a .. a + len - 1
                BY <1>1, <3>2
            <4>3. x - LOW - (a - LOW) + 1 = x - a + 1
                BY <1>1, <3>2
            <4> QED BY <2>1, <2>5, <3>1, <3>3, <4>1, <4>2, <4>3 DEF Value
        <3>4. CASE ~IsMmio(x)
            BY <2>5, <3>1, <3>4 DEF Value
        <3> QED BY <3>3, <3>4
    <2> QED BY <2>6, <2>7, <2>8 DEF t
<1> QED BY <1>4, <1>5

-----------------------------------------------------------------------------
(* Blits.                                                                  *)
Screen == [pixels |-> LOW, w |-> COL, h |-> ROW]

\* A pixel of a surface is in memory, and in the mapped region if the surface is the
\* screen.
LEMMA PixelPlace ==
    ASSUME NEW s \in Surface, NEW x \in Nat, NEW y \in Nat, x < s.w, y < s.h
    PROVE  /\ PixelAt(s, x, y) \in Addr /\ PixelAt(s, x, y) \in Nat
           /\ InRange(PixelAt(s, x, y), 1)
           /\ IsMmio(PixelAt(s, x, y)) <=> s = Screen
<1>1. /\ LOW \in Nat /\ COL \in Nat \ {0} /\ ROW \in Nat /\ HIGH \in Nat /\ HIDDEN \in Nat
      /\ REGION \in Nat /\ ROW * COL \in Nat /\ REGION = ROW * COL + HIDDEN
      /\ MEM_SIZE_B = LOW + REGION + HIGH + 1
    BY PoolHoldsRegion, SizeAssumption
<1>2. CASE s = Screen
    <2>1. s.pixels = LOW /\ s.w = COL /\ s.h = ROW
        BY <1>2 DEF Screen
    <2>2. y * COL \in Nat /\ y * COL + COL <= ROW * COL
        BY <1>1, <2>1, LessTimes
    <2>3. PixelAt(s, x, y) = LOW + y * COL + x
        BY <2>1 DEF PixelAt
    <2> DEFINE p == PixelAt(s, x, y)
               top == ROW * COL
               row == y * COL
    <2>4. p = LOW + row + x /\ row \in Nat /\ row + COL <= top /\ top \in Nat
          /\ REGION = top + HIDDEN /\ x < COL
        BY <1>1, <2>1, <2>2, <2>3
    <2> HIDE DEF p, top, row
    <2>5. p \in Nat /\ p >= LOW /\ p < LOW + REGION
        BY <1>1, <2>4
    <2>6. p \in Addr /\ InRange(p, 1) /\ IsMmio(p)
        BY <1>1, <2>5 DEF Addr, InRange, IsMmio
    <2> QED BY <1>2, <2>5, <2>6 DEF p
<1>3. CASE s # Screen
    <2>1. s.pixels = 0 /\ s.w = 2 /\ s.h = LOW \div 2
        BY <1>3 DEF Surface, Screen
    <2>2. LOW \div 2 \in Nat /\ (LOW \div 2) * 2 <= LOW
        BY <1>1
    <2>3. PixelAt(s, x, y) = y * 2 + x
        BY <2>1 DEF PixelAt
    <2> DEFINE p == PixelAt(s, x, y)
    <2>4. p \in Nat /\ p < LOW
        BY <1>1, <2>1, <2>2, <2>3
    <2> HIDE DEF p
    <2>5. p \in Addr /\ InRange(p, 1) /\ ~IsMmio(p)
        BY <1>1, <2>4 DEF Addr, InRange, IsMmio
    <2> QED BY <1>3, <2>4, <2>5 DEF p
<1> QED BY <1>2, <1>3

\* Two pixels of a surface have different addresses.
LEMMA PixelsApart ==
    ASSUME NEW s \in Surface, NEW x \in Nat, NEW y \in Nat, NEW i \in Nat, NEW j \in Nat,
           x < s.w, i < s.w, PixelAt(s, x, y) = PixelAt(s, i, j)
    PROVE  x = i /\ y = j
<1>1. s.w \in Nat \ {0} /\ s.pixels \in Nat
    BY SizeAssumption DEF Surface
<1>2. /\ (y * s.w + x) \div s.w = y /\ (y * s.w + x) % s.w = x
      /\ (j * s.w + i) \div s.w = j /\ (j * s.w + i) % s.w = i
    <2>1. x \in 0 .. s.w - 1 /\ i \in 0 .. s.w - 1
        BY <1>1
    <2> QED BY <1>1, <2>1, DivModUnique
<1>3. y * s.w + x = j * s.w + i
    <2> DEFINE b == y * s.w
               c == j * s.w
    <2>1. b \in Nat /\ c \in Nat
        BY <1>1
    <2>2. s.pixels + b + x = s.pixels + c + i
        BY DEF PixelAt
    <2> HIDE DEF b, c
    <2>3. b + x = c + i
        BY <1>1, <2>1, <2>2
    <2> QED BY <2>3 DEF b, c
<1> QED BY <1>2, <1>3

Region == [x : Nat, y : Nat, w : Nat \ {0}, h : Nat \ {0}]

\* The pixels of a rectangle lie in it, each of them once.
LEMMA PixelsOfRect ==
    ASSUME NEW r \in Region
    PROVE  /\ r.w * r.h \in Nat
           /\ \A n \in 1 .. r.w * r.h :
                 /\ Pixels(r)[n].x \in Nat /\ Pixels(r)[n].y \in Nat
                 /\ Pixels(r)[n].x < r.x + r.w /\ Pixels(r)[n].y < r.y + r.h
                 /\ Pixels(r)[n].x >= r.x /\ Pixels(r)[n].y >= r.y
                 /\ \A m \in 1 .. r.w * r.h :
                       Pixels(r)[m].x = Pixels(r)[n].x /\ Pixels(r)[m].y = Pixels(r)[n].y => m = n
<1>1. r.w \in Nat \ {0} /\ r.h \in Nat \ {0} /\ r.x \in Nat /\ r.y \in Nat
    BY DEF Region
<1>2. r.w * r.h \in Nat /\ r.w * r.h = r.h * r.w
    BY <1>1
<1> DEFINE N == r.w * r.h
           q(n) == (n - 1) \div r.w
           c(n) == (n - 1) % r.w
<1>3. ASSUME NEW n \in 1 .. N
      PROVE  /\ Pixels(r)[n].x = r.x + c(n) /\ Pixels(r)[n].y = r.y + q(n)
             /\ q(n) \in Nat /\ c(n) \in Nat /\ c(n) < r.w /\ q(n) < r.h
    <2>1. n - 1 \in Nat /\ n - 1 < r.h * r.w
        <3>1. N \in Nat /\ N = r.h * r.w
            BY <1>2
        <3> HIDE DEF N
        <3>2. n - 1 \in Nat /\ n - 1 < N
            BY <3>1
        <3> QED BY <3>1, <3>2
    <2>2. q(n) \in Nat /\ c(n) \in 0 .. r.w - 1 /\ n - 1 = q(n) * r.w + c(n)
        BY <1>1, <2>1, DivMod
    <2>3. q(n) < r.h
        BY <1>1, <2>1, DivMonotone
    <2>4. c(n) \in Nat /\ c(n) < r.w
        <3> HIDE DEF c, q
        <3> QED BY <1>1, <2>2
    <2>5. Pixels(r)[n].x = r.x + c(n) /\ Pixels(r)[n].y = r.y + q(n)
        BY DEF Pixels
    <2> HIDE DEF c, q
    <2> QED BY <2>2, <2>3, <2>4, <2>5
<1>7. ASSUME NEW n \in 1 .. N
      PROVE  n - 1 = q(n) * r.w + c(n)
    <2>1. n - 1 \in Nat
        <3>1. N \in Nat
            BY <1>2
        <3> HIDE DEF N
        <3> QED BY <3>1
    <2> QED BY <1>1, <2>1, DivMod
<1>6. N \in Nat
    BY <1>2
<1> HIDE DEF q, c, N
<1> SUFFICES ASSUME NEW n \in 1 .. N
             PROVE  /\ Pixels(r)[n].x \in Nat /\ Pixels(r)[n].y \in Nat
                    /\ Pixels(r)[n].x < r.x + r.w /\ Pixels(r)[n].y < r.y + r.h
                    /\ Pixels(r)[n].x >= r.x /\ Pixels(r)[n].y >= r.y
                    /\ \A m \in 1 .. N :
                          Pixels(r)[m].x = Pixels(r)[n].x /\ Pixels(r)[m].y = Pixels(r)[n].y => m = n
    BY <1>6 DEF N
<1>4. /\ Pixels(r)[n].x \in Nat /\ Pixels(r)[n].y \in Nat
      /\ Pixels(r)[n].x < r.x + r.w /\ Pixels(r)[n].y < r.y + r.h
      /\ Pixels(r)[n].x >= r.x /\ Pixels(r)[n].y >= r.y
    <2>1. Pixels(r)[n].x = r.x + c(n) /\ Pixels(r)[n].y = r.y + q(n)
        BY <1>3
    <2> QED BY <1>1, <1>3, <2>1
<1>5. ASSUME NEW m \in 1 .. N, Pixels(r)[m].x = Pixels(r)[n].x, Pixels(r)[m].y = Pixels(r)[n].y
      PROVE  m = n
    <2>1. /\ Pixels(r)[n].x = r.x + c(n) /\ Pixels(r)[n].y = r.y + q(n)
          /\ Pixels(r)[m].x = r.x + c(m) /\ Pixels(r)[m].y = r.y + q(m)
        BY <1>3
    <2>2. c(m) \in Nat /\ c(n) \in Nat /\ q(m) \in Nat /\ q(n) \in Nat
        BY <1>3
    <2>3. c(m) = c(n) /\ q(m) = q(n)
        BY <1>1, <1>5, <2>1, <2>2
    <2>4. m - 1 = n - 1
        BY <1>7, <2>3
    <2> QED BY <1>6, <2>4
<1> QED BY <1>4, <1>5

\* One byte that is read and written somewhere else.
LEMMA CopyOneByte ==
    ASSUME NEW s \in BusType, NEW a \in Addr, NEW b \in Addr, InRange(b, 1),
           NEW active, NEW window, NEW lost,
           NEW t, t = PaddrWrite(b, PaddrRead(a, 1, s), s)
    PROVE  /\ t \in BusType
           /\ Shows(s, active, window, lost) => Shows(t, active, window, lost)
           /\ \A x \in Addr : Value(t, x) = IF x = b THEN Value(s, a) ELSE Value(s, x)
<1>1. /\ LOW \in Nat /\ REGION \in Nat /\ MMIO_SPACE_MAX \in Nat /\ REGION <= MMIO_SPACE_MAX
      /\ MEM_SIZE_B \in Nat /\ Addr \subseteq Nat
    BY PoolHoldsRegion, SizeAssumption DEF Addr
<1> DEFINE data == PaddrRead(a, 1, s)
<1>2. data = [k \in 1 .. 1 |-> Value(s, a)] /\ Value(s, a) \in Byte
    <2>1. s.hw \in [Addr -> Byte] /\ s.io \in [0 .. MMIO_SPACE_MAX - 1 -> Byte]
        BY DEF BusType
    <2>2. IsMmio(a) => a - LOW \in 0 .. MMIO_SPACE_MAX - 1
        BY <1>1 DEF IsMmio
    <2>3. Value(s, a) \in Byte
        BY <2>1, <2>2 DEF Value
    <2>4. \A k \in 1 .. 1 : a - LOW + k - 1 = a - LOW /\ a + k - 1 = a
        BY <1>1
    <2> QED BY <2>3, <2>4 DEF PaddrRead, Value
<1>3. data \in [1 .. 1 -> Byte] /\ data[1] = Value(s, a)
    BY <1>2
<1>4. Reached(b, 1) = {b} /\ Behind(b, 1) = {}
    <2>1. b .. b + 1 - 1 = {b} /\ b \in Nat /\ LOW \in Nat
        BY <1>1
    <2>2. Reached(b, 1) = {b}
        BY <2>1 DEF Reached
    <2>3. ASSUME NEW x \in Pixel, x + LOW \in b .. b + 1 - 1
          PROVE  x \div COL = (b - LOW) \div COL
        <3>1. x \in Int
            BY DEF Pixel
        <3>2. x = b - LOW
            BY <2>1, <2>3, <3>1
        <3> QED BY <3>2
    <2> QED BY <2>2, <2>3 DEF Behind
<1> HIDE DEF data
<1>9. PICK len \in Nat \ {0} : len = 1
    OBVIOUS
<1>5. /\ PaddrWrite(b, data, s) \in BusType
      /\ Shows(s, active, window, lost) =>
            Shows(PaddrWrite(b, data, s), active, window, lost \union Behind(b, len))
      /\ \A x \in Addr : Value(PaddrWrite(b, data, s), x) =
             IF x \in Reached(b, len) THEN data[x - b + 1] ELSE Value(s, x)
    <2>1. b \in Nat /\ data \in [1 .. len -> Byte]
        BY <1>1, <1>3, <1>9
    <2> QED BY <2>1, WriteOk
<1>6. (\A x \in Addr : x \in Reached(b, len) <=> x = b) /\ lost \union Behind(b, len) = lost
    BY <1>4, <1>9
<1>7. b - b + 1 = 1
    BY <1>1
<1>8. ASSUME NEW x \in Addr PROVE Value(t, x) = IF x = b THEN Value(s, a) ELSE Value(s, x)
    <2>1. CASE x = b
        BY <1>3, <1>5, <1>6, <1>7, <2>1 DEF data
    <2>2. CASE x # b
        BY <1>5, <1>6, <2>2 DEF data
    <2> QED BY <2>1, <2>2
<1> QED BY <1>5, <1>6, <1>8 DEF data

\* The body of the loop of gpu_cmd_handler, for the nth pixel.
CopyPixel(src, r, dst, n, s) ==
    PaddrWrite(PixelAt(dst, Pixels(r)[n].x, Pixels(r)[n].y),
               PaddrRead(PixelAt(src, Pixels(r)[n].x, Pixels(r)[n].y), 1, s), s)

\* The recursive function of GpuCmd exists: there is one for the first pixels, and
\* one pixel more can always be added.
LEMMA GpuRecursion ==
    ASSUME NEW src, NEW r, NEW dst, r.w * r.h \in Nat
    PROVE  \E f : /\ f[0] = Bus
                  /\ \A n \in 1 .. r.w * r.h : f[n] = CopyPixel(src, r, dst, n, f[n - 1])
                  /\ GpuCmd(src, r, dst) = f[r.w * r.h]
<1> DEFINE first == Bus
           Step(n, s) == CopyPixel(src, r, dst, n, s)
           Fits(f, m) == f = [n \in 0 .. m |-> IF n = 0 THEN first ELSE Step(n, f[n - 1])]
           Bad == {m \in Nat : \A f : ~Fits(f, m)}
<1> HIDE DEF Step, first
<1>1. Bad = {}
    <2> SUFFICES ASSUME Bad # {} PROVE FALSE
        OBVIOUS
    <2> DEFINE m == Min(Bad)
    <2>1. m \in Bad /\ \A k \in Bad : m <= k
        <3>1. Bad \subseteq Nat
            OBVIOUS
        <3> HIDE DEF Bad
        <3> QED BY <3>1, MinIsElement
    <2>2. m \in Nat /\ \A f : ~Fits(f, m)
        BY <2>1
    <2>3. m # 0
        <3> DEFINE f == [n \in 0 .. 0 |-> first]
        <3>1. Fits(f, 0)
            OBVIOUS
        <3> QED BY <2>2, <3>1
    <2> HIDE DEF m
    <2>4. PICK g : Fits(g, m - 1)
        <3>1. m - 1 \in Nat /\ m - 1 \notin Bad
            <4>1. m - 1 \in Nat /\ ~(m <= m - 1)
                BY <2>2, <2>3
            <4> HIDE DEF Bad
            <4> QED BY <2>1, <4>1
        <3> QED BY <3>1
    <2> DEFINE f == [n \in 0 .. m |-> IF n = m THEN Step(m, g[m - 1]) ELSE g[n]]
    <2>5. ASSUME NEW n \in 0 .. m
          PROVE  f[n] = IF n = 0 THEN first ELSE Step(n, f[n - 1])
        <3>1. CASE n = m
            BY <2>2, <2>3, <3>1
        <3>2. CASE n # m
            <4>1. n \in 0 .. m - 1 /\ (n # 0 => n - 1 \in 0 .. m - 1)
                BY <2>2, <2>3, <3>2
            <4>2. g[n] = IF n = 0 THEN first ELSE Step(n, g[n - 1])
                BY <2>4, <4>1
            <4>3. f[n] = g[n] /\ (n # 0 => f[n - 1] = g[n - 1])
                BY <2>2, <3>2, <4>1
            <4> QED BY <4>2, <4>3
        <3> QED BY <3>1, <3>2
    <2>6. Fits(f, m)
        BY <2>5
    <2> QED BY <2>2, <2>6
<1> DEFINE N == r.w * r.h
           h == CHOOSE f : Fits(f, N)
<1>2. N \in Nat
    OBVIOUS
<1>3. GpuCmd(src, r, dst) = h[N]
    BY DEF GpuCmd, Step, CopyPixel, first
<1> HIDE DEF N
<1>4. Fits(h, N)
    <2>1. \E f : Fits(f, N)
        BY <1>1, <1>2
    <2> HIDE DEF Fits
    <2> QED BY <2>1
<1> HIDE DEF h
<1>5. h[0] = first
    BY <1>2, <1>4
<1>6. \A n \in 1 .. N : h[n] = Step(n, h[n - 1])
    BY <1>2, <1>4
<1> QED BY <1>3, <1>5, <1>6 DEF N, Step, first

\* The same byte, of one array.
MoveByte(src, r, dst, n, m) ==
    [m EXCEPT ![PixelAt(dst, Pixels(r)[n].x, Pixels(r)[n].y)] =
                  m[PixelAt(src, Pixels(r)[n].x, Pixels(r)[n].y)]]

\* The recursive function of Meant exists, as that of Meant does.
LEMMA MeantRecursion ==
    ASSUME NEW src, NEW r, NEW dst, r.w * r.h \in Nat
    PROVE  \E f : /\ f[0] = want
                  /\ \A n \in 1 .. r.w * r.h : f[n] = MoveByte(src, r, dst, n, f[n - 1])
                  /\ Meant(src, r, dst) = f[r.w * r.h]
<1> DEFINE first == want
           Step(n, s) == MoveByte(src, r, dst, n, s)
           Fits(f, m) == f = [n \in 0 .. m |-> IF n = 0 THEN first ELSE Step(n, f[n - 1])]
           Bad == {m \in Nat : \A f : ~Fits(f, m)}
<1> HIDE DEF Step, first
<1>1. Bad = {}
    <2> SUFFICES ASSUME Bad # {} PROVE FALSE
        OBVIOUS
    <2> DEFINE m == Min(Bad)
    <2>1. m \in Bad /\ \A k \in Bad : m <= k
        <3>1. Bad \subseteq Nat
            OBVIOUS
        <3> HIDE DEF Bad
        <3> QED BY <3>1, MinIsElement
    <2>2. m \in Nat /\ \A f : ~Fits(f, m)
        BY <2>1
    <2>3. m # 0
        <3> DEFINE f == [n \in 0 .. 0 |-> first]
        <3>1. Fits(f, 0)
            OBVIOUS
        <3> QED BY <2>2, <3>1
    <2> HIDE DEF m
    <2>4. PICK g : Fits(g, m - 1)
        <3>1. m - 1 \in Nat /\ m - 1 \notin Bad
            <4>1. m - 1 \in Nat /\ ~(m <= m - 1)
                BY <2>2, <2>3
            <4> HIDE DEF Bad
            <4> QED BY <2>1, <4>1
        <3> QED BY <3>1
    <2> DEFINE f == [n \in 0 .. m |-> IF n = m THEN Step(m, g[m - 1]) ELSE g[n]]
    <2>5. ASSUME NEW n \in 0 .. m
          PROVE  f[n] = IF n = 0 THEN first ELSE Step(n, f[n - 1])
        <3>1. CASE n = m
            BY <2>2, <2>3, <3>1
        <3>2. CASE n # m
            <4>1. n \in 0 .. m - 1 /\ (n # 0 => n - 1 \in 0 .. m - 1)
                BY <2>2, <2>3, <3>2
            <4>2. g[n] = IF n = 0 THEN first ELSE Step(n, g[n - 1])
                BY <2>4, <4>1
            <4>3. f[n] = g[n] /\ (n # 0 => f[n - 1] = g[n - 1])
                BY <2>2, <3>2, <4>1
            <4> QED BY <4>2, <4>3
        <3> QED BY <3>1, <3>2
    <2>6. Fits(f, m)
        BY <2>5
    <2> QED BY <2>2, <2>6
<1> DEFINE N == r.w * r.h
           h == CHOOSE f : Fits(f, N)
<1>2. N \in Nat
    OBVIOUS
<1>3. Meant(src, r, dst) = h[N]
    BY DEF Meant, Step, MoveByte, first
<1> HIDE DEF N
<1>4. Fits(h, N)
    <2>1. \E f : Fits(f, N)
        BY <1>1, <1>2
    <2> HIDE DEF Fits
    <2> QED BY <2>1
<1> HIDE DEF h
<1>5. h[0] = first
    BY <1>2, <1>4
<1>6. \A n \in 1 .. N : h[n] = Step(n, h[n - 1])
    BY <1>2, <1>4
<1> QED BY <1>3, <1>5, <1>6 DEF N, Step, first

From(src, r, n) == PixelAt(src, Pixels(r)[n].x, Pixels(r)[n].y)

\* gpu_cmd_handler copies the rectangle from one surface to the same place of the
\* other and changes nothing else.
LEMMA GpuCopies ==
    ASSUME NEW src \in Surface, NEW dst \in Surface, src # dst, NEW r \in Region,
           r.x + r.w <= src.w, r.y + r.h <= src.h, r.x + r.w <= dst.w, r.y + r.h <= dst.h,
           Bus \in BusType, NEW mem, \A a \in Addr : Value(Bus, a) = mem[a]
    PROVE  /\ GpuCmd(src, r, dst) \in BusType
           /\ \A n \in 1 .. r.w * r.h :
                 Value(GpuCmd(src, r, dst), From(dst, r, n)) = mem[From(src, r, n)]
           /\ \A a \in Addr : (\A n \in 1 .. r.w * r.h : a # From(dst, r, n))
                 => Value(GpuCmd(src, r, dst), a) = mem[a]
<1> DEFINE N == r.w * r.h
           S(n) == From(src, r, n)
           D(n) == From(dst, r, n)
<1>1. N \in Nat
    BY PixelsOfRect
<1>2. PICK f : /\ f[0] = Bus
               /\ \A n \in 1 .. N : f[n] = CopyPixel(src, r, dst, n, f[n - 1])
               /\ GpuCmd(src, r, dst) = f[N]
    BY <1>1, GpuRecursion
<1>3. ASSUME NEW n \in 1 .. N
      PROVE  /\ S(n) \in Addr /\ D(n) \in Addr /\ InRange(D(n), 1)
             /\ IsMmio(S(n)) <=> src = Screen
             /\ IsMmio(D(n)) <=> dst = Screen
             /\ \A m \in 1 .. N : D(m) = D(n) => m = n
    <2> DEFINE x == Pixels(r)[n].x
               y == Pixels(r)[n].y
    <2>1. x \in Nat /\ y \in Nat /\ x < src.w /\ x < dst.w /\ y < src.h /\ y < dst.h
        <3>1. x \in Nat /\ y \in Nat /\ x < r.x + r.w /\ y < r.y + r.h
            BY PixelsOfRect
        <3>2. {src.w, dst.w, src.h, dst.h} \subseteq Nat
            <4>1. LOW \div 2 \in Nat
                BY SizeAssumption
            <4> QED BY <4>1, SizeAssumption DEF Surface
        <3>3. {r.x, r.y, r.w, r.h} \subseteq Nat
            BY DEF Region
        <3> HIDE DEF x, y
        <3> QED BY <3>1, <3>2, <3>3
    <2>2. /\ S(n) \in Addr /\ D(n) \in Addr /\ InRange(D(n), 1)
          /\ IsMmio(S(n)) <=> src = Screen
          /\ IsMmio(D(n)) <=> dst = Screen
        BY <2>1, PixelPlace DEF From
    <2>3. ASSUME NEW m \in 1 .. N, D(m) = D(n) PROVE m = n
        <3> DEFINE i == Pixels(r)[m].x
                   j == Pixels(r)[m].y
        <3>1. i \in Nat /\ j \in Nat /\ i < dst.w
            <4>1. i \in Nat /\ j \in Nat /\ i < r.x + r.w
                BY PixelsOfRect
            <4>2. {r.x, r.w, dst.w} \subseteq Nat
                BY SizeAssumption DEF Region, Surface
            <4> HIDE DEF i, j
            <4> QED BY <4>1, <4>2
        <3>2. PixelAt(dst, i, j) = PixelAt(dst, x, y)
            BY <2>3 DEF From
        <3>3. i = x /\ j = y
            <4> HIDE DEF i, j, x, y
            <4> QED BY <2>1, <3>1, <3>2, PixelsApart
        <3> QED BY <3>3, PixelsOfRect
    <2> QED BY <2>2, <2>3
<1>4. \A n, m \in 1 .. N : S(n) # D(m)
    <2> SUFFICES ASSUME NEW n \in 1 .. N, NEW m \in 1 .. N, S(n) = D(m) PROVE FALSE
        OBVIOUS
    <2>1. src = Screen <=> dst = Screen
        BY <1>3
    <2>2. src # Screen /\ dst # Screen => src = dst
        BY DEF Surface, Screen
    <2> QED BY <2>1, <2>2
<1>5. ASSUME NEW n \in 1 .. N
      PROVE  f[n] = PaddrWrite(D(n), PaddrRead(S(n), 1, f[n - 1]), f[n - 1])
    BY <1>2 DEF CopyPixel, From
<1> HIDE DEF N, S, D
<1> DEFINE P(n) == /\ f[n] \in BusType
                   /\ \A m \in 1 .. n : Value(f[n], D(m)) = mem[S(m)]
                   /\ \A a \in Addr : (\A m \in 1 .. n : a # D(m)) => Value(f[n], a) = mem[a]
           Bad == {n \in 0 .. N : ~P(n)}
<1>6. Bad = {}
    <2> SUFFICES ASSUME Bad # {} PROVE FALSE
        OBVIOUS
    <2> DEFINE n == Min(Bad)
    <2>1. n \in Bad /\ \A k \in Bad : n <= k
        <3>1. Bad \subseteq Nat
            BY <1>1
        <3> HIDE DEF Bad
        <3> QED BY <3>1, MinIsElement
    <2>2. n \in 0 .. N /\ ~P(n)
        BY <2>1
    <2>3. n # 0
        <3>1. \A m \in 1 .. 0 : FALSE
            OBVIOUS
        <3>2. P(0)
            BY <1>2, <3>1
        <3> HIDE DEF P
        <3> QED BY <2>2, <3>2
    <2> HIDE DEF n
    <2>4. n \in 1 .. N /\ n - 1 \in 0 .. N /\ n - 1 \in Nat /\ ~(n <= n - 1)
        BY <1>1, <2>2, <2>3
    <2>5. P(n - 1)
        <3>1. n - 1 \notin Bad
            <4> HIDE DEF Bad
            <4> QED BY <2>1, <2>4
        <3> QED BY <2>4, <3>1
    <2>6. /\ f[n] \in BusType
          /\ \A x \in Addr : Value(f[n], x) = IF x = D(n) THEN Value(f[n - 1], S(n))
                                              ELSE Value(f[n - 1], x)
        <3>1. f[n - 1] \in BusType
            BY <2>5
        <3>2. S(n) \in Addr /\ D(n) \in Addr /\ InRange(D(n), 1)
            BY <1>3, <2>4
        <3>3. f[n] = PaddrWrite(D(n), PaddrRead(S(n), 1, f[n - 1]), f[n - 1])
            BY <1>5, <2>4
        <3> HIDE DEF P
        <3> QED BY <3>1, <3>2, <3>3, CopyOneByte
    <2>7. \A m \in 1 .. n : m \in 1 .. N /\ (m # n => m \in 1 .. n - 1)
        BY <1>1, <2>4
    <2>8. \A m \in 1 .. n - 1 : m \in 1 .. n
        BY <2>4
    <2>9. Value(f[n - 1], S(n)) = mem[S(n)]
        <3>1. S(n) \in Addr /\ \A m \in 1 .. n - 1 : S(n) # D(m)
            BY <1>3, <1>4, <2>4, <2>7, <2>8
        <3> QED BY <2>5, <3>1
    <2>10. ASSUME NEW m \in 1 .. n PROVE Value(f[n], D(m)) = mem[S(m)]
        <3>1. m \in 1 .. N /\ D(m) \in Addr
            BY <1>3, <2>7
        <3>2. CASE m = n
            BY <2>6, <2>9, <3>1, <3>2
        <3>3. CASE m # n
            <4>1. D(m) # D(n)
                BY <1>3, <2>4, <3>1, <3>3
            <4>2. Value(f[n - 1], D(m)) = mem[S(m)]
                BY <2>5, <2>7, <3>3
            <4> QED BY <2>6, <3>1, <4>1, <4>2
        <3> QED BY <3>2, <3>3
    <2>11. ASSUME NEW a \in Addr, \A m \in 1 .. n : a # D(m) PROVE Value(f[n], a) = mem[a]
        <3>1. a # D(n) /\ \A m \in 1 .. n - 1 : a # D(m)
            BY <2>4, <2>8, <2>11
        <3> QED BY <2>5, <2>6, <3>1
    <2> QED BY <2>2, <2>6, <2>10, <2>11
<1>7. P(N)
    <2>1. N \in 0 .. N /\ N \notin Bad
        BY <1>1, <1>6
    <2> QED BY <2>1
<1> QED BY <1>2, <1>7 DEF N, S, D

-----------------------------------------------------------------------------
(* Memory and picture.                                                     *)

\* Memory is what the guest means it to be, byte by byte.
Agrees == \A a \in Addr : want[a] = Value(Bus, a)

PictureInv == /\ Bus \in BusType
              /\ vga_active \in BOOLEAN
              /\ shown \in [Line -> [0 .. COL - 1 -> Byte]]
              /\ want \in [Addr -> Byte] /\ missed \subseteq Pixel
              /\ Agrees
              /\ Shows(Bus, vga_active, shown, missed)

\* A state of the bus that an action leaves behind.
LEMMA BusAfter ==
    ASSUME NEW t \in BusType, SetBus(t)
    PROVE  Bus' = t
<1>1. t = [hw |-> t.hw, io |-> t.io, dirty |-> t.dirty, lines |-> t.lines]
    BY DEF BusType
<1>2. Bus' = [hw |-> t.hw, io |-> t.io, dirty |-> t.dirty, lines |-> t.lines]
    BY DEF SetBus, Bus
<1> QED BY <1>1, <1>2

\* A write of the guest.
LEMMA GuestWritePicture ==
    ASSUME PictureInv,
           NEW len \in Lens, NEW data \in [1 .. len -> Byte], NEW a \in Addr, GuestWrite(a, data)
    PROVE  PictureInv'
<1> DEFINE t == PaddrWrite(a, data, Bus)
<1>1. len \in Nat \ {0} /\ Len(data) = len /\ a \in Nat /\ Addr \subseteq Int
    BY SizeAssumption DEF Addr
<1>2. /\ SetBus(t) /\ missed' = missed \union Behind(a, len)
      /\ want' = [x \in Addr |-> IF x \in Reached(a, len) THEN data[x - a + 1] ELSE want[x]]
      /\ vga_active' = vga_active /\ shown' = shown
    BY <1>1 DEF GuestWrite
<1>3. /\ t \in BusType /\ Shows(t, vga_active, shown, missed \union Behind(a, len))
      /\ \A x \in Addr : Value(t, x) =
             IF x \in Reached(a, len) THEN data[x - a + 1] ELSE Value(Bus, x)
    <2>1. Bus \in BusType /\ Shows(Bus, vga_active, shown, missed)
        BY DEF PictureInv
    <2> HIDE DEF t
    <2>2. t = PaddrWrite(a, data, Bus)
        BY DEF t
    <2> QED BY <1>1, <2>1, <2>2, WriteOk
<1>4. missed' \subseteq Pixel
    BY <1>2 DEF PictureInv, Behind
<1>5. want' \in [Addr -> Byte]
    <2>1. \A x \in Addr : x \in Reached(a, len) => x - a + 1 \in 1 .. len
        BY <1>1 DEF Reached
    <2> QED BY <1>2, <2>1 DEF PictureInv
<1> HIDE DEF t
<1>6. Bus' = t
    BY <1>2, <1>3, BusAfter
<1>7. \A x \in Addr : want'[x] = Value(t, x)
    BY <1>2, <1>3 DEF PictureInv, Agrees
<1>8. Agrees'
    BY <1>6, <1>7 DEF Agrees
<1> QED BY <1>2, <1>3, <1>4, <1>5, <1>6, <1>8 DEF PictureInv

\* The clipped rectangle lies in the source, and in the destination if it is moved to
\* the place that was asked for.
LEMMA ClippedInside ==
    ASSUME NEW src \in Surface, NEW dst \in Surface, NEW rect \in Rect,
           NEW pos \in Place,
           Within(rect, src), pos.x < dst.w, pos.y < dst.h
    PROVE  LET r == ClippedRect(rect, dst, pos) IN
           /\ r \in Region /\ r.x = rect.x /\ r.y = rect.y
           /\ r.x + r.w <= src.w /\ r.y + r.h <= src.h
           /\ pos.x + r.w <= dst.w /\ pos.y + r.h <= dst.h
<1> DEFINE r == ClippedRect(rect, dst, pos)
<1>1. /\ r \in Region /\ r.x = rect.x /\ r.y = rect.y
      /\ r.x + r.w <= src.w /\ r.y + r.h <= src.h
      /\ pos.x + r.w <= dst.w /\ pos.y + r.h <= dst.h
    <2>1. {src.w, dst.w, src.h, dst.h} \subseteq Nat
        <3>1. LOW \div 2 \in Nat
            BY SizeAssumption
        <3> QED BY <3>1, SizeAssumption DEF Surface
    <2>2. /\ rect = [x |-> rect.x, y |-> rect.y, w |-> rect.w, h |-> rect.h]
          /\ rect.x \in Nat /\ rect.y \in Nat /\ rect.w \in Nat \ {0} /\ rect.h \in Nat \ {0}
        BY DEF Rect
    <2> DEFINE w == Min({rect.w, dst.w - pos.x})
               h == Min({rect.h, dst.h - pos.y})
    <2>9. pos.x \in Nat /\ pos.y \in Nat
        BY DEF Place
    <2>8. rect.w \in Int /\ rect.h \in Int /\ dst.w - pos.x \in Int /\ dst.h - pos.y \in Int
        BY <2>1, <2>2, <2>9
    <2>3. w = IF rect.w <= dst.w - pos.x THEN rect.w ELSE dst.w - pos.x
        BY <2>8, MinMaxOfTwo
    <2>4. h = IF rect.h <= dst.h - pos.y THEN rect.h ELSE dst.h - pos.y
        BY <2>8, MinMaxOfTwo
    <2>5. r = [x |-> rect.x, y |-> rect.y, w |-> w, h |-> h]
        <3>1. r = [rect EXCEPT !.w = w, !.h = h]
            BY DEF ClippedRect
        <3> HIDE DEF w, h, r
        <3> QED BY <2>2, <3>1
    <2>6. rect.x + rect.w <= src.w /\ rect.y + rect.h <= src.h
        BY DEF Within
    <2> HIDE DEF w, h, r
    <2>7. /\ w \in Nat \ {0} /\ h \in Nat \ {0}
          /\ rect.x + w <= src.w /\ rect.y + h <= src.h
          /\ pos.x + w <= dst.w /\ pos.y + h <= dst.h
        BY <2>1, <2>2, <2>3, <2>4, <2>6, <2>9
    <2> QED BY <2>2, <2>5, <2>7 DEF Region
<1> QED BY <1>1

\* A blit, wherever it goes: the GPU does on the bus what the loop does on the array.
LEMMA BlitPicture ==
    ASSUME PictureInv, NEW src \in Surface, NEW dst \in Surface,
           NEW rect \in Rect, NEW pos \in Place, Blit(src, rect, dst, pos)
    PROVE  PictureInv'
<1> DEFINE r == ClippedRect(rect, dst, pos)
           N == r.w * r.h
           S(n) == From(src, r, n)
           D(n) == From(dst, r, n)
<1>1. /\ Within(rect, src) /\ pos.x < dst.w /\ pos.y < dst.h
      /\ \A n \in DOMAIN Pixels(r) : InRange(D(n), 1)
      /\ SetBus(GpuCmd(src, r, dst)) /\ want' = Meant(src, r, dst)
      /\ vga_active' = vga_active /\ shown' = shown /\ missed' = missed
    BY DEF Blit, From
<1>2. r \in Region /\ r.x + r.w <= src.w /\ r.y + r.h <= src.h
    BY <1>1, ClippedInside
<1> HIDE DEF r
<1>3. N \in Nat
    BY <1>2, PixelsOfRect
<1>4. ASSUME NEW n \in 1 .. N
      PROVE  S(n) \in Addr /\ D(n) \in Addr /\ InRange(D(n), 1)
    <2> DEFINE x == Pixels(r)[n].x
               y == Pixels(r)[n].y
    <2>1. x \in Nat /\ y \in Nat /\ x < src.w /\ y < src.h
        <3>1. x \in Nat /\ y \in Nat /\ x < r.x + r.w /\ y < r.y + r.h
            BY <1>2, PixelsOfRect
        <3>2. {src.w, src.h} \subseteq Nat
            <4>1. LOW \div 2 \in Nat
                BY SizeAssumption
            <4> QED BY <4>1, SizeAssumption DEF Surface
        <3>3. {r.x, r.y, r.w, r.h} \subseteq Nat
            BY <1>2 DEF Region
        <3> HIDE DEF x, y
        <3> QED BY <1>2, <3>1, <3>2, <3>3
    <2>2. S(n) \in Addr
        BY <2>1, PixelPlace DEF From
    <2>3. InRange(D(n), 1)
        <3>1. DOMAIN Pixels(r) = 1 .. N
            BY DEF Pixels
        <3> QED BY <1>1, <3>1
    <2>4. D(n) \in Nat
        <3>1. dst.pixels \in Nat /\ dst.w \in Nat
            BY SizeAssumption DEF Surface
        <3>2. D(n) = dst.pixels + y * dst.w + x
            BY DEF From, PixelAt
        <3> HIDE DEF x, y
        <3>3. y * dst.w \in Nat
            BY <2>1, <3>1
        <3> QED BY <2>1, <3>1, <3>2, <3>3
    <2>5. D(n) \in Addr
        BY <2>3, <2>4, PoolHoldsRegion DEF InRange, Addr
    <2> QED BY <2>2, <2>3, <2>5
<1>5. PICK f : /\ f[0] = Bus
               /\ \A n \in 1 .. N : f[n] = CopyPixel(src, r, dst, n, f[n - 1])
               /\ GpuCmd(src, r, dst) = f[N]
    BY <1>3, GpuRecursion
<1>6. PICK g : /\ g[0] = want
               /\ \A n \in 1 .. N : g[n] = MoveByte(src, r, dst, n, g[n - 1])
               /\ Meant(src, r, dst) = g[N]
    BY <1>3, MeantRecursion
<1>7. ASSUME NEW n \in 1 .. N
      PROVE  /\ f[n] = PaddrWrite(D(n), PaddrRead(S(n), 1, f[n - 1]), f[n - 1])
             /\ g[n] = [g[n - 1] EXCEPT ![D(n)] = g[n - 1][S(n)]]
    BY <1>5, <1>6 DEF CopyPixel, MoveByte, From
<1> HIDE DEF N, S, D
<1> DEFINE P(n) == /\ f[n] \in BusType
                   /\ Shows(f[n], vga_active, shown, missed)
                   /\ g[n] \in [Addr -> Byte]
                   /\ \A a \in Addr : g[n][a] = Value(f[n], a)
           Bad == {n \in 0 .. N : ~P(n)}
<1>8. Bad = {}
    <2> SUFFICES ASSUME Bad # {} PROVE FALSE
        OBVIOUS
    <2> DEFINE n == Min(Bad)
    <2>1. n \in Bad /\ \A k \in Bad : n <= k
        <3>1. Bad \subseteq Nat
            BY <1>3
        <3> HIDE DEF Bad
        <3> QED BY <3>1, MinIsElement
    <2>2. n \in 0 .. N /\ ~P(n)
        BY <2>1
    <2>3. n # 0
        <3>1. P(0)
            BY <1>5, <1>6 DEF PictureInv, Agrees
        <3> HIDE DEF P
        <3> QED BY <2>2, <3>1
    <2> HIDE DEF n
    <2>4. n \in 1 .. N /\ n - 1 \in 0 .. N /\ n - 1 \in Nat /\ ~(n <= n - 1)
        BY <1>3, <2>2, <2>3
    <2>5. P(n - 1)
        <3>1. n - 1 \notin Bad
            <4> HIDE DEF Bad
            <4> QED BY <2>1, <2>4
        <3> QED BY <2>4, <3>1
    <2>6. /\ S(n) \in Addr /\ D(n) \in Addr /\ InRange(D(n), 1)
          /\ f[n] = PaddrWrite(D(n), PaddrRead(S(n), 1, f[n - 1]), f[n - 1])
          /\ g[n] = [g[n - 1] EXCEPT ![D(n)] = g[n - 1][S(n)]]
        BY <1>4, <1>7, <2>4
    <2>7. /\ f[n] \in BusType /\ Shows(f[n], vga_active, shown, missed)
          /\ \A x \in Addr : Value(f[n], x) = IF x = D(n) THEN Value(f[n - 1], S(n))
                                              ELSE Value(f[n - 1], x)
        <3>1. f[n - 1] \in BusType /\ Shows(f[n - 1], vga_active, shown, missed)
            BY <2>5
        <3> HIDE DEF P
        <3> QED BY <2>6, <3>1, CopyOneByte
    <2>8. g[n] \in [Addr -> Byte]
        BY <2>5, <2>6
    <2>9. \A a \in Addr : g[n][a] = Value(f[n], a)
        BY <2>5, <2>6, <2>7
    <2> QED BY <2>2, <2>7, <2>8, <2>9
<1>9. P(N)
    <2>1. N \in 0 .. N /\ N \notin Bad
        BY <1>3, <1>8
    <2> QED BY <2>1
<1>10. Bus' = f[N]
    BY <1>1, <1>5, <1>9, BusAfter
<1>11. want' = g[N]
    BY <1>1, <1>6
<1>12. Agrees'
    BY <1>9, <1>10, <1>11 DEF Agrees
<1> QED BY <1>1, <1>9, <1>10, <1>11, <1>12 DEF PictureInv

\* What an access of one byte reads.
LEMMA ByteRead ==
    ASSUME NEW s, NEW a \in Addr
    PROVE  PaddrRead(a, 1, s)[1] = Value(s, a)
<1>1. a \in Int /\ LOW \in Int
    BY SizeAssumption DEF Addr
<1>2. a - LOW + 1 - 1 = a - LOW /\ a + 1 - 1 = a
    BY <1>1
<1> QED BY <1>2 DEF PaddrRead, Value

\* A blit copies the rectangle to the place it comes from, if it fits there.
LEMMA BlitToSamePlace ==
    ASSUME PictureInv, NEW src \in Surface, NEW dst \in Surface, NEW r \in Rect,
           NEW pos, pos = Corner(r), src # dst, Within(r, src), Within(r, dst)
    PROVE  FlatOf(GpuCmd(src, r, dst)) = Copied(FlatOf(Bus), src, r, dst, pos)
<1> DEFINE t == GpuCmd(src, r, dst)
           N == r.w * r.h
           flat == FlatOf(Bus)
<1>1. pos.x = r.x /\ pos.y = r.y
    BY DEF Corner
<1>2. /\ r \in Region
      /\ r.x + r.w <= src.w /\ r.y + r.h <= src.h
      /\ r.x + r.w <= dst.w /\ r.y + r.h <= dst.h
    BY DEF Within, Rect, Region
<1>3. /\ \A n \in 1 .. N : Value(t, From(dst, r, n)) = flat[From(src, r, n)]
      /\ \A a \in Addr : (\A n \in 1 .. N : a # From(dst, r, n)) => Value(t, a) = flat[a]
    <2>1. \A a \in Addr : Value(Bus, a) = flat[a]
        BY ByteRead DEF FlatOf
    <2> HIDE DEF flat
    <2> QED BY <1>2, <2>1, GpuCopies DEF PictureInv
<1>4. \A n \in 1 .. N : Pixels(r)[n].x \in Nat /\ Pixels(r)[n].y \in Nat
    BY <1>2, PixelsOfRect
<1>5. r.x \in Nat /\ r.y \in Nat
    BY <1>2 DEF Region
<1> HIDE DEF t, N, flat
<1>6. FlatOf(t) = [a \in Addr |-> Value(t, a)]
    BY ByteRead DEF FlatOf
<1> SUFFICES ASSUME NEW a \in Addr
             PROVE  Value(t, a) = Copied(flat, src, r, dst, pos)[a]
    BY <1>6 DEF Copied, t, flat
<1> DEFINE hit == {n \in 1 .. N :
                      a = PixelAt(dst, pos.x + Pixels(r)[n].x - r.x, pos.y + Pixels(r)[n].y - r.y)}
<1>8. Copied(flat, src, r, dst, pos)[a] =
          IF hit = {} THEN flat[a] ELSE flat[From(src, r, CHOOSE n \in hit : TRUE)]
    BY DEF Copied, From, N
<1>9. \A n \in 1 .. N : n \in hit <=> a = From(dst, r, n)
    <2>1. \A n \in 1 .. N : /\ pos.x + Pixels(r)[n].x - r.x = Pixels(r)[n].x
                            /\ pos.y + Pixels(r)[n].y - r.y = Pixels(r)[n].y
        BY <1>1, <1>2, <1>4, <1>5
    <2> QED BY <2>1 DEF From
<1>10. \A n \in hit : n \in 1 .. N
    OBVIOUS
<1> HIDE DEF hit
<1>11. CASE hit = {}
    BY <1>3, <1>8, <1>9, <1>11
<1>12. CASE hit # {}
    <2>1. PICK n \in hit : n = CHOOSE m \in hit : TRUE
        BY <1>12
    <2> QED BY <1>3, <1>8, <1>9, <1>10, <1>12, <2>1
<1> QED BY <1>11, <1>12

\* A refresh of the window.
LEMMA UpdateScreenPicture ==
    ASSUME PictureInv, UpdateScreen
    PROVE  PictureInv'
<1>1. /\ hw_mem' = hw_mem /\ mmio_space_pool' = mmio_space_pool /\ want' = want
      /\ vga_active' = vga_active /\ vmem_dirty' = FALSE
      /\ line_dirty' = [l \in Line |-> FALSE]
      /\ shown' = [l \in Line |-> [c \in 0 .. COL - 1 |->
             IF line_dirty[l] THEN mmio_space_pool[l * COL + c] ELSE shown[l][c]]]
    BY DEF UpdateScreen
<1>0. missed' = {x \in missed : ~line_dirty[x \div COL]}
    BY DEF UpdateScreen
<1>2. /\ hw_mem \in [Addr -> Byte] /\ mmio_space_pool \in [0 .. MMIO_SPACE_MAX - 1 -> Byte]
      /\ line_dirty \in [Line -> BOOLEAN]
    BY DEF PictureInv, BusType, Bus
<1>3. ASSUME NEW l \in Line, NEW c \in 0 .. COL - 1
      PROVE  mmio_space_pool[l * COL + c] \in Byte
    <2>1. l * COL + c \in 0 .. ROW * COL - 1
        BY ByteOfLine
    <2>2. l * COL + c \in 0 .. MMIO_SPACE_MAX - 1
        <3> DEFINE x == l * COL + c
                   top == ROW * COL
        <3>1. x \in 0 .. top - 1 /\ top \in Nat /\ REGION = top + HIDDEN
            BY <2>1, PoolHoldsRegion
        <3> HIDE DEF x, top
        <3>2. x \in 0 .. MMIO_SPACE_MAX - 1
            BY <3>1, PoolHoldsRegion, SizeAssumption
        <3> QED BY <3>2 DEF x
    <2> QED BY <1>2, <2>2
<1>4. shown' \in [Line -> [0 .. COL - 1 -> Byte]]
    BY <1>1, <1>3 DEF PictureInv
<1>5. Bus' = [hw |-> hw_mem, io |-> mmio_space_pool, dirty |-> FALSE,
              lines |-> [l \in Line |-> FALSE]]
    BY <1>1 DEF Bus
<1>6. Bus' \in BusType
    <2>1. [l \in Line |-> FALSE] \in [Line -> BOOLEAN]
        OBVIOUS
    <2> QED BY <1>2, <1>5, <2>1 DEF BusType
<1>7. ASSUME NEW l \in Line, NEW c \in 0 .. COL - 1
      PROVE  l * COL + c \in missed' \/ shown'[l][c] = mmio_space_pool[l * COL + c]
    <2>1. shown'[l][c] = IF line_dirty[l] THEN mmio_space_pool[l * COL + c] ELSE shown[l][c]
        BY <1>1
    <2>2. Bus.lines = line_dirty /\ Bus.io = mmio_space_pool
        BY DEF Bus
    <2>3. ~line_dirty[l] => \/ l * COL + c \in missed
                            \/ shown[l][c] = mmio_space_pool[l * COL + c]
        BY <2>2 DEF PictureInv, Shows
    <2>4. (l * COL + c) \div COL = l
        BY ByteOfLine
    <2> QED BY <1>0, <1>2, <2>1, <2>3, <2>4
<1>8. Shows(Bus, vga_active, shown, missed)'
    <2>1. Bus'.io = mmio_space_pool /\ Bus'.lines = [l \in Line |-> FALSE]
        BY <1>5
    <2> QED BY <1>7, <2>1 DEF Shows
<1>9. \A a \in Addr : Value(Bus', a) = Value(Bus, a)
    <2>1. Bus'.io = Bus.io /\ Bus'.hw = Bus.hw
        BY <1>5 DEF Bus
    <2> QED BY <2>1 DEF Value
<1>10. Agrees'
    BY <1>1, <1>9 DEF PictureInv, Agrees
<1> QED BY <1>0, <1>1, <1>4, <1>6, <1>8, <1>10 DEF PictureInv

\* vga_close.
LEMMA VgaClosePicture ==
    ASSUME PictureInv, VgaClose
    PROVE  PictureInv'
<1>1. /\ hw_mem' = hw_mem /\ mmio_space_pool' = mmio_space_pool /\ want' = want
      /\ vga_active' = FALSE /\ vmem_dirty' = FALSE
      /\ line_dirty' = line_dirty /\ shown' = shown /\ missed' = missed
    BY DEF VgaClose
<1>2. /\ hw_mem \in [Addr -> Byte] /\ mmio_space_pool \in [0 .. MMIO_SPACE_MAX - 1 -> Byte]
      /\ line_dirty \in [Line -> BOOLEAN]
    BY DEF PictureInv, BusType, Bus
<1>3. Bus' = [hw |-> hw_mem, io |-> mmio_space_pool, dirty |-> FALSE, lines |-> line_dirty]
    BY <1>1 DEF Bus
<1>4. Bus' \in BusType
    BY <1>2, <1>3 DEF BusType
<1>5. /\ Bus'.io = Bus.io /\ Bus'.hw = Bus.hw /\ Bus'.lines = Bus.lines
    BY <1>3 DEF Bus
<1>6. Shows(Bus, vga_active, shown, missed)'
    BY <1>1, <1>5 DEF Shows, PictureInv
<1>7. Agrees'
    <2>1. \A a \in Addr : Value(Bus', a) = Value(Bus, a)
        BY <1>5 DEF Value
    <2> QED BY <1>1, <2>1 DEF PictureInv, Agrees
<1> QED BY <1>1, <1>4, <1>6, <1>7 DEF PictureInv

\* The palette port leaves memory and picture alone.
LEMMA PaletteKeepsPicture ==
    ASSUME PictureInv, UNCHANGED <<bus, vga_active, shown>>
    PROVE  PictureInv'
<1>1. /\ Bus' = Bus /\ want' = want /\ missed' = missed
      /\ vga_active' = vga_active /\ shown' = shown
    BY DEF Bus, bus
<1>2. Agrees'
    BY <1>1 DEF PictureInv, Agrees, Value
<1>3. Shows(Bus, vga_active, shown, missed)'
    BY <1>1 DEF PictureInv, Shows
<1> QED BY <1>1, <1>2, <1>3 DEF PictureInv

\* Every access gives back what the guest means.
LEMMA PictureImplies ==
    ASSUME PictureInv
    PROVE  ReadsBack /\ CleanLinesShown
<1>1. CleanLinesShown
    BY DEF PictureInv, Shows, CleanLinesShown, Bus
<1>2. ReadsBack
    <2> SUFFICES ASSUME NEW a \in Addr, NEW len \in Lens, InRange(a, len),
                        NEW x \in Reached(a, len)
                 PROVE  PaddrRead(a, len, Bus)[x - a + 1] = want[x]
        BY DEF ReadsBack
    <2>1. /\ len \in Nat \ {0} /\ a \in Nat /\ LOW \in Nat /\ MEM_SIZE_B \in Nat
        BY PoolHoldsRegion, SizeAssumption DEF Addr
    <2>2. x \in a .. a + len - 1 /\ (IsMmio(a) <=> IsMmio(x))
        BY DEF Reached
    <2>3. x \in Addr /\ x - a + 1 \in 1 .. len
        BY <2>1, <2>2 DEF InRange, Addr
    <2>4. a - LOW + (x - a + 1) - 1 = x - LOW /\ a + (x - a + 1) - 1 = x
        BY <2>1, <2>2
    <2>5. PaddrRead(a, len, Bus)[x - a + 1] = IF IsMmio(x) THEN Bus.io[x - LOW] ELSE Bus.hw[x]
        BY <2>2, <2>3, <2>4 DEF PaddrRead
    <2> QED BY <2>3, <2>5 DEF PictureInv, Agrees, Value
<1> QED BY <1>1, <1>2

-----------------------------------------------------------------------------
(* The palette.                                                            *)

\* What is left of a component when the guest has shifted it right and the device left.
Component(c) == (c \div 4) * 4

\* While a palette is loaded, the index and the number of bytes left to write belong
\* together (r components of entry q are written), and what lies behind the index has
\* the new colour.
InStep == \E q \in 0 .. NCOLOR - 1, r \in 0 .. 2 :
              todo[2] = 3 * (NCOLOR - q) - r /\ color_ptr = 4 * q + r
Loaded == \A x \in 0 .. NR_PAL - 1 :
              x < color_ptr /\ x % 4 # 3 => palette[x] = Component(todo[1])

PaletteTypes == /\ palette \in [0 .. NR_PAL - 1 -> 0 .. 255]
                /\ color_ptr \in 0 .. NR_PAL
                /\ todo \in Colors \X (0 .. 3 * NCOLOR)
PaletteInv == /\ PaletteTypes
              /\ todo[2] > 0 => InStep /\ Loaded
              /\ PaletteApplied

LEMMA ComponentOfByte ==
    ASSUME NEW c \in Colors
    PROVE  /\ ((c \div 4) * 4) % 256 = Component(c)
           /\ Component(c) \in 0 .. 255
<1>1. c \in 0 .. 255
    BY ByteAssumption
<1> QED BY <1>1 DEF Component

\* write_palette starts at the first entry.
LEMMA WritePalettePalette ==
    ASSUME PaletteInv, NEW c \in Colors, WritePalette(c)
    PROVE  PaletteInv'
<1>1. /\ todo' = <<c, 3 * NCOLOR>> /\ color_ptr' = 0 /\ palette' = palette
      /\ NCOLOR \in Nat \ {0}
    BY SizeAssumption DEF WritePalette
<1>2. PaletteTypes'
    <2>1. 3 * NCOLOR \in 0 .. 3 * NCOLOR /\ 0 \in 0 .. NR_PAL
        BY <1>1 DEF NR_PAL
    <2> QED BY <1>1, <2>1 DEF PaletteInv, PaletteTypes
<1>3. InStep'
    <2>1. 0 \in 0 .. NCOLOR - 1 /\ 0 \in 0 .. 2 /\ 3 * NCOLOR = 3 * (NCOLOR - 0) - 0
          /\ 0 = 4 * 0 + 0
        BY <1>1
    <2> QED BY <1>1, <2>1 DEF InStep
<1>4. Loaded'
    BY <1>1 DEF Loaded
<1>5. PaletteApplied'
    BY <1>1 DEF PaletteApplied
<1> QED BY <1>2, <1>3, <1>4, <1>5 DEF PaletteInv

\* One byte at the data port.
LEMMA DacDataPalette ==
    ASSUME PaletteInv, DacData
    PROVE  PaletteInv'
<1> DEFINE c == todo[1]
           n == todo[2]
           p == color_ptr
           byte == ((c \div 4) * 4) % 256
           written == [palette EXCEPT ![p] = byte]
           next == p + (IF (p + 1) % 4 = 3 THEN 2 ELSE 1)
<1>1. /\ n > 0 /\ palette' = written /\ color_ptr' = next
      /\ applied' = IF next = NR_PAL THEN written ELSE applied
      /\ todo' = [todo EXCEPT ![2] = @ - 1]
      /\ intended' = IF n = 1 THEN c ELSE intended
    BY DEF DacData
<1>2. /\ palette \in [0 .. NR_PAL - 1 -> 0 .. 255] /\ p \in 0 .. NR_PAL
      /\ todo = <<c, n>> /\ c \in Colors /\ n \in 0 .. 3 * NCOLOR
      /\ NCOLOR \in Nat \ {0} /\ NR_PAL = 4 * NCOLOR
    BY SizeAssumption, SMTT(30) DEF PaletteInv, PaletteTypes, NR_PAL
<1>3. todo' = <<c, n - 1>> /\ todo'[1] = c /\ todo'[2] = n - 1
    BY <1>1, <1>2
<1>4. byte = Component(c) /\ byte \in 0 .. 255
    BY <1>2, ComponentOfByte
<1>5. PICK q \in 0 .. NCOLOR - 1, r \in 0 .. 2 : n = 3 * (NCOLOR - q) - r /\ p = 4 * q + r
    BY <1>1 DEF PaletteInv, InStep
<1>6. \A x \in 0 .. NR_PAL - 1 : x < p /\ x % 4 # 3 => palette[x] = byte
    BY <1>1, <1>4 DEF PaletteInv, Loaded
<1> HIDE DEF c, n, p, byte, next
<1>7. p \in 0 .. NR_PAL - 1 /\ next = IF r = 2 THEN 4 * (q + 1) ELSE 4 * q + (r + 1)
    <2>1. (4 * q + r + 1) % 4 = (IF r = 2 THEN 3 ELSE r + 1)
        <3>1. r = 0 \/ r = 1 \/ r = 2
            OBVIOUS
        <3>2. (4 * q + 0 + 1) % 4 = 1 /\ (4 * q + 1 + 1) % 4 = 2 /\ (4 * q + 2 + 1) % 4 = 3
            OBVIOUS
        <3> QED BY <3>1, <3>2
    <2>2. next = p + (IF (p + 1) % 4 = 3 THEN 2 ELSE 1)
        BY DEF next
    <2>3. next = p + (IF r = 2 THEN 2 ELSE 1)
        BY <1>5, <2>1, <2>2
    <2> QED BY <1>2, <1>5, <2>3
<1>8. \A x \in 0 .. NR_PAL - 1 : x < next /\ x % 4 # 3 => x <= p
    <2> SUFFICES ASSUME NEW x \in 0 .. NR_PAL - 1, x < next, x % 4 # 3, ~(x <= p) PROVE FALSE
        OBVIOUS
    <2>1. r = 2 /\ x = 4 * q + 3
        BY <1>2, <1>5, <1>7
    <2>2. (4 * q + 3) % 4 = 3
        OBVIOUS
    <2> QED BY <2>1, <2>2
<1>9. \A x \in 0 .. NR_PAL - 1 : x < next /\ x % 4 # 3 => written[x] = byte
    <2> SUFFICES ASSUME NEW x \in 0 .. NR_PAL - 1, x < next, x % 4 # 3 PROVE written[x] = byte
        OBVIOUS
    <2>1. x = p \/ x < p
        <3>1. x <= p
            BY <1>8
        <3>2. x \in Int /\ p \in Int
            BY <1>2
        <3> QED BY <3>1, <3>2
    <2> QED BY <1>2, <1>6, <1>7, <2>1
<1>10. written \in [0 .. NR_PAL - 1 -> 0 .. 255]
    BY <1>2, <1>4
<1> HIDE DEF written
<1>11. PaletteTypes'
    <2>1. next \in 0 .. NR_PAL /\ n - 1 \in 0 .. 3 * NCOLOR
        BY <1>1, <1>2, <1>5, <1>7
    <2> QED BY <1>1, <1>2, <1>3, <1>10, <2>1 DEF PaletteTypes
<1>12. ASSUME n - 1 > 0 PROVE InStep'
    <2>1. CASE r = 2
        <3>1. /\ q + 1 \in 0 .. NCOLOR - 1 /\ 0 \in 0 .. 2
              /\ n - 1 = 3 * (NCOLOR - (q + 1)) - 0 /\ next = 4 * (q + 1) + 0
            BY <1>2, <1>5, <1>7, <1>12, <2>1
        <3> QED BY <1>1, <1>3, <3>1 DEF InStep
    <2>2. CASE r # 2
        <3>1. r + 1 \in 0 .. 2 /\ n - 1 = 3 * (NCOLOR - q) - (r + 1) /\ next = 4 * q + (r + 1)
            BY <1>2, <1>5, <1>7, <2>2
        <3> QED BY <1>1, <1>3, <3>1 DEF InStep
    <2> QED BY <2>1, <2>2
<1>13. Loaded'
    BY <1>1, <1>3, <1>4, <1>9 DEF Loaded
<1>14. PaletteApplied'
    <2> SUFFICES ASSUME n - 1 = 0, NEW x \in 0 .. NR_PAL - 1, x % 4 # 3
                 PROVE  applied'[x] = (intended' \div 4) * 4
        BY <1>3 DEF PaletteApplied
    <2>1. n = 1 /\ next = NR_PAL
        BY <1>2, <1>5, <1>7
    <2>2. applied' = written /\ intended' = c
        BY <1>1, <2>1
    <2>3. x < next
        BY <1>2, <2>1
    <2> QED BY <1>4, <1>9, <2>2, <2>3 DEF Component
<1> QED BY <1>3, <1>11, <1>12, <1>13, <1>14 DEF PaletteInv

\* Everything else leaves the palette alone.
LEMMA RestKeepsPalette ==
    ASSUME PaletteInv, UNCHANGED dac
    PROVE  PaletteInv'
BY DEF PaletteInv, PaletteTypes, InStep, Loaded, PaletteApplied, dac

-----------------------------------------------------------------------------
(* The theorems.                                                           *)

LEMMA DisplayInit ==
    ASSUME DInit
    PROVE  PictureInv /\ PaletteInv
<1>1. /\ hw_mem = [a \in Addr |-> 0] /\ mmio_space_pool = [x \in 0 .. MMIO_SPACE_MAX - 1 |-> 0]
      /\ vmem_dirty = FALSE /\ line_dirty = [l \in Line |-> FALSE] /\ vga_active = TRUE
      /\ shown = [l \in Line |-> [c \in 0 .. COL - 1 |-> 0]]
      /\ want = hw_mem /\ missed = {}
    BY DEF DInit
<1>2. 0 \in Byte /\ MMIO_SPACE_MAX \in Nat
    BY ByteAssumption, PoolHoldsRegion
<1>3. Bus = [hw |-> hw_mem, io |-> mmio_space_pool, dirty |-> FALSE, lines |-> line_dirty]
    BY <1>1 DEF Bus
<1>4. Bus \in BusType
    <2>1. hw_mem \in [Addr -> Byte] /\ mmio_space_pool \in [0 .. MMIO_SPACE_MAX - 1 -> Byte]
        BY <1>1, <1>2
    <2>2. line_dirty \in [Line -> BOOLEAN]
        BY <1>1
    <2> QED BY <1>3, <2>1, <2>2 DEF BusType
<1>5. Agrees
    <2> SUFFICES ASSUME NEW a \in Addr PROVE want[a] = Value(Bus, a)
        BY DEF Agrees
    <2>1. Bus.io = mmio_space_pool /\ Bus.hw = hw_mem
        BY <1>3
    <2>2. IsMmio(a) => a - LOW \in 0 .. MMIO_SPACE_MAX - 1
        BY PoolHoldsRegion, SizeAssumption DEF IsMmio, Addr
    <2> QED BY <1>1, <2>1, <2>2 DEF Value
<1>6. Shows(Bus, vga_active, shown, missed)
    <2> SUFFICES ASSUME NEW l \in Line, NEW c \in 0 .. COL - 1
                 PROVE  shown[l][c] = mmio_space_pool[l * COL + c]
        <3>1. Bus.io = mmio_space_pool /\ Bus.lines = [l \in Line |-> FALSE]
            BY <1>1, <1>3
        <3> QED BY <3>1 DEF Shows
    <2>1. l * COL + c \in 0 .. MMIO_SPACE_MAX - 1
        <3> DEFINE x == l * COL + c
                   top == ROW * COL
        <3>1. x \in 0 .. top - 1 /\ top \in Nat /\ REGION = top + HIDDEN
            BY ByteOfLine, PoolHoldsRegion
        <3> HIDE DEF x, top
        <3>2. x \in 0 .. MMIO_SPACE_MAX - 1
            BY <3>1, PoolHoldsRegion, SizeAssumption
        <3> QED BY <3>2 DEF x
    <2> QED BY <1>1, <2>1
<1>7. PictureInv
    <2>1. /\ shown \in [Line -> [0 .. COL - 1 -> Byte]] /\ want \in [Addr -> Byte]
          /\ missed \subseteq Pixel
        BY <1>1, <1>2
    <2> QED BY <1>1, <1>4, <1>5, <1>6, <2>1 DEF PictureInv
<1>8. PaletteInv
    <2>1. /\ palette = [x \in 0 .. NR_PAL - 1 |-> 0] /\ applied = palette /\ color_ptr = 0
          /\ todo \in Colors \X {0} /\ intended = 0
        BY DEF DInit
    <2>2. NR_PAL \in Nat /\ 3 * NCOLOR \in Nat
        BY SizeAssumption DEF NR_PAL
    <2>3. PaletteTypes
        BY <2>1, <2>2 DEF PaletteTypes
    <2>4. PaletteApplied
        BY <2>1 DEF PaletteApplied
    <2> QED BY <2>1, <2>3, <2>4 DEF PaletteInv
<1> QED BY <1>7, <1>8

\* The palette, whatever the guest does with the memory: between two loads the host
\* shows every colour of the last one.
THEOREM PaletteCorrect == DSpec => []PaletteApplied
<1>1. DInit => PaletteInv
    BY DisplayInit
<1>2. PaletteInv /\ [DNext]_dvars => PaletteInv'
    <2> SUFFICES ASSUME PaletteInv, [DNext]_dvars PROVE PaletteInv'
        OBVIOUS
    <2>1. CASE UNCHANGED dac
        BY <2>1, RestKeepsPalette
    <2>2. ASSUME NEW c \in Colors, WritePalette(c) PROVE PaletteInv'
        BY <2>2, WritePalettePalette
    <2>3. CASE DacData
        BY <2>3, DacDataPalette
    <2>4. ASSUME NEW a, NEW data, GuestWrite(a, data) PROVE UNCHANGED dac
        BY <2>4 DEF GuestWrite
    <2>5. ASSUME NEW src, NEW rect, NEW dst, NEW pos, Blit(src, rect, dst, pos) PROVE UNCHANGED dac
        BY <2>5 DEF Blit
    <2>6. UpdateScreen \/ VgaClose \/ UNCHANGED dvars => UNCHANGED dac
        BY DEF UpdateScreen, VgaClose, dvars
    <2> QED BY <2>1, <2>2, <2>3, <2>4, <2>5, <2>6 DEF DNext
<1>3. PaletteInv => PaletteApplied
    BY DEF PaletteInv
<1> QED BY <1>1, <1>2, <1>3, PTL DEF DSpec

DisplayInv == PictureInv /\ PaletteInv

LEMMA DisplayStep ==
    ASSUME DisplayInv, [DNext]_dvars
    PROVE  DisplayInv'
<1>1. ASSUME NEW len \in Lens, NEW data \in [1 .. len -> Byte], NEW a \in Addr,
             GuestWrite(a, data)
      PROVE  DisplayInv'
    <2>1. UNCHANGED dac
        BY <1>1 DEF GuestWrite
    <2> QED BY <1>1, <2>1, GuestWritePicture, RestKeepsPalette DEF DisplayInv
<1>2. ASSUME NEW src \in Surface, NEW dst \in Surface, NEW rect \in Rect,
             NEW pos \in Place, Blit(src, rect, dst, pos)
      PROVE  DisplayInv'
    <2>1. UNCHANGED dac
        BY <1>2 DEF Blit
    <2> QED BY <1>2, <2>1, BlitPicture, RestKeepsPalette DEF DisplayInv
<1>3. CASE UpdateScreen
    <2>1. UNCHANGED dac
        BY <1>3 DEF UpdateScreen
    <2> QED BY <1>3, <2>1, UpdateScreenPicture, RestKeepsPalette DEF DisplayInv
<1>4. CASE VgaClose
    <2>1. UNCHANGED dac
        BY <1>4 DEF VgaClose
    <2> QED BY <1>4, <2>1, VgaClosePicture, RestKeepsPalette DEF DisplayInv
<1>5. ASSUME NEW c \in Colors, WritePalette(c) PROVE DisplayInv'
    <2>1. UNCHANGED <<bus, vga_active, shown>>
        BY <1>5 DEF WritePalette
    <2> QED BY <1>5, <2>1, PaletteKeepsPicture, WritePalettePalette DEF DisplayInv
<1>6. CASE DacData
    <2>1. UNCHANGED <<bus, vga_active, shown>>
        BY <1>6 DEF DacData
    <2> QED BY <1>6, <2>1, PaletteKeepsPicture, DacDataPalette DEF DisplayInv
<1>7. CASE UNCHANGED dvars
    <2>1. UNCHANGED <<bus, vga_active, shown>> /\ UNCHANGED dac
        BY <1>7 DEF dvars
    <2> QED BY <2>1, PaletteKeepsPicture, RestKeepsPalette DEF DisplayInv
<1> QED BY <1>1, <1>2, <1>3, <1>4, <1>5, <1>6, <1>7 DEF DNext

\* Memory and picture: every byte on its side of the ends of the mapped region is read
\* back as it was written last, by the guest or by a copy of the GPU, wherever that
\* copy went; and what is not going to be drawn again is on the screen, but for the
\* pixels written behind the end of the line that was marked; and a blit copies what it
\* should, if that fits where it goes.
THEOREM PictureCorrect == DSpec => []PictureSound
<1>1. DInit => DisplayInv
    BY DisplayInit DEF DisplayInv
<1>2. DisplayInv => PictureSound
    <2> SUFFICES ASSUME DisplayInv PROVE PictureSound
        OBVIOUS
    <2>1. /\ hw_mem \in [Addr -> Byte] /\ mmio_space_pool \in [0 .. MMIO_SPACE_MAX - 1 -> Byte]
          /\ vmem_dirty \in BOOLEAN /\ line_dirty \in [Line -> BOOLEAN]
        BY DEF DisplayInv, PictureInv, BusType, Bus
    <2>2. DTypeOK
        BY <2>1 DEF DisplayInv, PictureInv, PaletteInv, PaletteTypes, DTypeOK
    <2> QED BY <2>2, PictureImplies, BlitToSamePlace DEF DisplayInv, BlitsInPlace, PictureSound
<1>3. DisplayInv /\ [DNext]_dvars => DisplayInv'
    BY DisplayStep
<1> QED BY <1>1, <1>2, <1>3, PTL DEF DSpec

(***************************************************************************)
(*                          Keyboard and PAL game                          *)
(***************************************************************************)

(* The keyboard.                                                           *)

\* The release of a key waits in the queue.
UpQueued(k) == \E i \in 1 .. Len(events) : events[i].key = k /\ events[i].up
\* A press of it does.
DownQueued(k) == \E i \in 1 .. Len(events) : events[i].key = k /\ ~events[i].up

\* The interrupt is raised as long as the code has not been read, a press in the queue
\* is followed by the release unless the key is held, and one in the buffer too.
KeyboardInv ==
    /\ KeyboardTypeOK
    /\ unread <=> irq
    /\ irq => scan_code_buf \in Code
    /\ \A i \in 1 .. Len(events) : ~events[i].up =>
          \/ events[i].key \in held
          \/ \E j \in i + 1 .. Len(events) : events[j].key = events[i].key /\ events[j].up
    /\ irq /\ ~scan_code_buf.up => scan_code_buf.key \in held \/ UpQueued(scan_code_buf.key)

\* A key is held, or its release is on the way or lost.
UpComing(k) == \/ k \in held \cup lost_up \/ UpQueued(k)
               \/ irq /\ scan_code_buf.key = k /\ scan_code_buf.up

-----------------------------------------------------------------------------
(* Steps of the device.                                                    *)

\* The queue after an event of the user.
LEMMA OneEventMore ==
    ASSUME KeyboardTypeOK, NEW e \in Code, Len(events) < Queue, events' = Append(events, e)
    PROVE  /\ events' \in Seq(Code) /\ Len(events') = Len(events) + 1 /\ Len(events) \in Nat
           /\ Len(events') <= Queue
           /\ events'[Len(events) + 1] = e
           /\ \A i \in 1 .. Len(events) : i \in 1 .. Len(events') /\ events'[i] = events[i]
           /\ \A i \in 1 .. Len(events') : i = Len(events) + 1 \/ i \in 1 .. Len(events)
<1>1. events \in Seq(Code) /\ Len(events) \in Nat /\ Queue \in Nat
    BY QueueAssumption DEF KeyboardTypeOK
<1>2. /\ events' \in Seq(Code) /\ Len(events') = Len(events) + 1
      /\ events'[Len(events) + 1] = e
      /\ \A i \in 1 .. Len(events) : events'[i] = events[i]
    BY <1>1, AppendProperties
<1> QED BY <1>1, <1>2

\* The user presses a key.
LEMMA UserPressStep ==
    ASSUME KeyboardInv, NEW k \in Keys, UserPress(k)
    PROVE  /\ KeyboardInv'
           /\ \A c : UpComing(c) => UpComing(c)'
           /\ \A c : DownQueued(c)' => DownQueued(c) \/ c = k
           /\ irq' = irq /\ scan_code_buf' = scan_code_buf /\ k \in held' \ held
<1> DEFINE e == [key |-> k, up |-> FALSE]
<1>1. /\ k \notin held /\ Len(events) < Queue /\ held' = held \cup {k}
      /\ events' = Append(events, e)
      /\ scan_code_buf' = scan_code_buf /\ irq' = irq /\ unread' = unread /\ lost_up' = lost_up
    BY DEF UserPress
<1>2. e \in Code /\ e.key = k /\ ~e.up
    BY DEF Code
<1> HIDE DEF e
<1>3. /\ events' \in Seq(Code) /\ Len(events') = Len(events) + 1 /\ Len(events) \in Nat
      /\ Len(events') <= Queue
      /\ events'[Len(events) + 1] = e
      /\ \A i \in 1 .. Len(events) : i \in 1 .. Len(events') /\ events'[i] = events[i]
      /\ \A i \in 1 .. Len(events') : i = Len(events) + 1 \/ i \in 1 .. Len(events)
    BY <1>1, <1>2, OneEventMore DEF KeyboardInv
<1>4. KeyboardTypeOK'
    BY <1>1, <1>3 DEF KeyboardInv, KeyboardTypeOK
<1>5. \A c : UpQueued(c) => UpQueued(c)'
    BY <1>3 DEF UpQueued
<1>6. ASSUME NEW i \in 1 .. Len(events'), ~events'[i].up
      PROVE  \/ events'[i].key \in held'
             \/ \E j \in i + 1 .. Len(events') : events'[j].key = events'[i].key /\ events'[j].up
    <2>1. CASE i = Len(events) + 1
        BY <1>1, <1>2, <1>3, <2>1
    <2>2. CASE i \in 1 .. Len(events)
        <3>1. events'[i] = events[i]
            BY <1>3, <2>2
        <3>2. CASE events[i].key \in held
            BY <1>1, <3>1, <3>2
        <3>3. CASE \E j \in i + 1 .. Len(events) : events[j].key = events[i].key /\ events[j].up
            <4>1. PICK j \in i + 1 .. Len(events) : events[j].key = events[i].key /\ events[j].up
                BY <3>3
            <4>2. j \in 1 .. Len(events) /\ j \in i + 1 .. Len(events')
                BY <1>3, <2>2
            <4> QED BY <1>3, <3>1, <4>1, <4>2
        <3> QED BY <1>6, <2>2, <3>1, <3>2, <3>3 DEF KeyboardInv
    <2> QED BY <1>3, <2>1, <2>2
<1>7. KeyboardInv'
    BY <1>1, <1>4, <1>5, <1>6 DEF KeyboardInv
<1>8. \A c : UpComing(c) => UpComing(c)'
    BY <1>1, <1>5 DEF UpComing
<1>9. \A c : DownQueued(c)' => DownQueued(c) \/ c = k
    BY <1>2, <1>3 DEF DownQueued
<1> QED BY <1>1, <1>7, <1>8, <1>9

\* The user releases a key.
LEMMA UserReleaseStep ==
    ASSUME KeyboardInv, NEW k \in Keys, UserRelease(k)
    PROVE  /\ KeyboardInv'
           /\ \A c : UpComing(c) => UpComing(c)'
           /\ \A c : DownQueued(c)' => DownQueued(c)
           /\ irq' = irq /\ scan_code_buf' = scan_code_buf /\ held' \subseteq held
<1> DEFINE e == [key |-> k, up |-> TRUE]
<1>1. /\ Len(events) < Queue /\ held' = held \ {k}
      /\ events' = Append(events, e)
      /\ scan_code_buf' = scan_code_buf /\ irq' = irq /\ unread' = unread /\ lost_up' = lost_up
    BY DEF UserRelease
<1>2. e \in Code /\ e.key = k /\ e.up
    BY DEF Code
<1> HIDE DEF e
<1>3. /\ events' \in Seq(Code) /\ Len(events') = Len(events) + 1 /\ Len(events) \in Nat
      /\ Len(events') <= Queue
      /\ events'[Len(events) + 1] = e
      /\ \A i \in 1 .. Len(events) : i \in 1 .. Len(events') /\ events'[i] = events[i]
      /\ \A i \in 1 .. Len(events') : i = Len(events) + 1 \/ i \in 1 .. Len(events)
    BY <1>1, <1>2, OneEventMore DEF KeyboardInv
<1>4. KeyboardTypeOK'
    BY <1>1, <1>3 DEF KeyboardInv, KeyboardTypeOK
<1>5. \A c : UpQueued(c) \/ c = k => UpQueued(c)'
    <2>1. Len(events) + 1 \in 1 .. Len(events')
        BY <1>3
    <2> QED BY <1>2, <1>3, <2>1 DEF UpQueued
<1>6. ASSUME NEW i \in 1 .. Len(events'), ~events'[i].up
      PROVE  \/ events'[i].key \in held'
             \/ \E j \in i + 1 .. Len(events') : events'[j].key = events'[i].key /\ events'[j].up
    <2>1. i \in 1 .. Len(events) /\ events'[i] = events[i]
        BY <1>2, <1>3, <1>6
    <2>2. CASE events[i].key \in held
        <3>1. CASE events[i].key = k
            <4>1. Len(events) + 1 \in i + 1 .. Len(events')
                BY <1>3, <2>1
            <4> QED BY <1>2, <1>3, <2>1, <3>1, <4>1
        <3>2. CASE events[i].key # k
            BY <1>1, <2>1, <2>2, <3>2
        <3> QED BY <3>1, <3>2
    <2>3. CASE \E j \in i + 1 .. Len(events) : events[j].key = events[i].key /\ events[j].up
        <3>1. PICK j \in i + 1 .. Len(events) : events[j].key = events[i].key /\ events[j].up
            BY <2>3
        <3>2. j \in 1 .. Len(events) /\ j \in i + 1 .. Len(events')
            BY <1>3, <2>1
        <3> QED BY <1>3, <2>1, <3>1, <3>2
    <2> QED BY <1>6, <2>1, <2>2, <2>3 DEF KeyboardInv
<1>7. KeyboardInv'
    <2>1. ASSUME irq', ~scan_code_buf'.up
          PROVE  scan_code_buf'.key \in held' \/ UpQueued(scan_code_buf.key)'
        <3>1. scan_code_buf.key \in held \/ UpQueued(scan_code_buf.key)
            BY <1>1, <2>1 DEF KeyboardInv
        <3>2. PICK c : c = scan_code_buf.key
            OBVIOUS
        <3>3. c \in held' \/ UpQueued(c)'
            BY <1>1, <1>5, <3>1, <3>2
        <3> QED BY <1>1, <3>2, <3>3 DEF UpQueued
    <2> QED BY <1>1, <1>4, <1>6, <2>1 DEF KeyboardInv, UpQueued
<1>8. \A c : UpComing(c) => UpComing(c)'
    BY <1>1, <1>5 DEF UpComing
<1>9. \A c : DownQueued(c)' => DownQueued(c)
    BY <1>2, <1>3 DEF DownQueued
<1> QED BY <1>1, <1>7, <1>8, <1>9

\* do_keyboard: what does not end in the buffer is lost, and a release that is lost is
\* noted.
LEMMA DoKeyboardStep ==
    ASSUME KeyboardInv, DoKeyboard
    PROVE  /\ KeyboardInv'
           /\ \A c : UpComing(c) => UpComing(c)'
           /\ \A c : ~DownQueued(c)'
           /\ \A c : scan_code_buf'.key = c /\ ~scan_code_buf'.up => DownQueued(c)
           /\ held' = held
<1> DEFINE n == Len(events)
<1>1. /\ scan_code_buf' = Last(events) /\ irq' = TRUE /\ events' = <<>> /\ unread' = TRUE
      /\ lost_up' = lost_up \cup Releases(ToSet(Front(events))
                                          \cup (IF unread THEN {scan_code_buf} ELSE {}))
      /\ held' = held /\ events # <<>>
    BY DEF DoKeyboard
<1>2. events \in Seq(Code) /\ n \in Nat \ {0}
    BY <1>1 DEF KeyboardInv, KeyboardTypeOK
<1>3. Last(events) = events[n] /\ events[n] \in Code /\ n \in 1 .. n
    BY <1>2 DEF Last
<1>4. \A i \in 1 .. n - 1 : events[i] \in ToSet(Front(events))
    <2>1. /\ Front(events) = [i \in 1 .. n - 1 |-> events[i]]
        BY <1>2 DEF Front
    <2> QED BY <2>1 DEF ToSet
<1>5. ToSet(Front(events)) \subseteq Code
    BY <1>2 DEF Front, ToSet
<1>6. lost_up \subseteq lost_up'
    BY <1>1
<1>7. \A d : d \in ToSet(Front(events)) /\ d.up => d.key \in lost_up'
    BY <1>1 DEF Releases
<1>8. irq /\ scan_code_buf.up => scan_code_buf.key \in lost_up'
    BY <1>1 DEF Releases, KeyboardInv
<1>9. lost_up' \subseteq Keys
    <2>1. ToSet(Front(events)) \cup (IF unread THEN {scan_code_buf} ELSE {}) \subseteq Code
        BY <1>5 DEF KeyboardInv
    <2>2. \A d \in Code : d.key \in Keys
        BY DEF Code
    <2>3. lost_up \subseteq Keys
        BY DEF KeyboardInv, KeyboardTypeOK
    <2> QED BY <1>1, <2>1, <2>2, <2>3 DEF Releases
<1>10. events' \in Seq(Code) /\ Len(events') = 0
    BY <1>1
<1>11. KeyboardTypeOK'
    <2>1. 0 <= Queue
        BY QueueAssumption
    <2> QED BY <1>1, <1>3, <1>9, <1>10, <2>1 DEF KeyboardInv, KeyboardTypeOK
<1>12. ~scan_code_buf'.up => scan_code_buf'.key \in held'
    <2> SUFFICES ASSUME ~events[n].up PROVE events[n].key \in held
        BY <1>1, <1>3
    <2>1. \A j \in n + 1 .. n : FALSE
        BY <1>2
    <2> QED BY <1>3, <2>1 DEF KeyboardInv
<1>13. KeyboardInv'
    <2>1. \A i \in 1 .. Len(events') : FALSE
        BY <1>10
    <2> QED BY <1>1, <1>3, <1>11, <1>12, <2>1 DEF KeyboardInv
<1>14. ASSUME NEW c, UpComing(c) PROVE UpComing(c)'
    <2>1. CASE c \in held \cup lost_up
        BY <1>1, <1>6, <2>1 DEF UpComing
    <2>2. CASE UpQueued(c)
        <3>1. PICK i \in 1 .. n : events[i].key = c /\ events[i].up
            BY <2>2 DEF UpQueued
        <3>2. CASE i = n
            BY <1>1, <1>3, <3>1, <3>2 DEF UpComing
        <3>3. CASE i # n
            <4>1. i \in 1 .. n - 1
                BY <1>2, <3>3
            <4>2. c \in lost_up'
                BY <1>4, <1>7, <3>1, <4>1
            <4> QED BY <4>2 DEF UpComing
        <3> QED BY <3>2, <3>3
    <2>3. CASE irq /\ scan_code_buf.key = c /\ scan_code_buf.up
        BY <1>8, <2>3 DEF UpComing
    <2> QED BY <1>14, <2>1, <2>2, <2>3 DEF UpComing
<1>15. \A c : ~DownQueued(c)'
    <2>1. \A i \in 1 .. Len(events') : FALSE
        BY <1>10
    <2> QED BY <2>1 DEF DownQueued
<1>16. \A c : scan_code_buf'.key = c /\ ~scan_code_buf'.up => DownQueued(c)
    BY <1>1, <1>3 DEF DownQueued
<1> QED BY <1>1, <1>13, <1>14, <1>15, <1>16

\* The interrupt is erased.
LEMMA IrqErasedStep ==
    ASSUME KeyboardInv, IrqErased
    PROVE  /\ KeyboardInv'
           /\ \A c : UpComing(c) => UpComing(c)'
           /\ irq' = FALSE /\ held' = held /\ events' = events
<1>1. /\ irq /\ irq' = FALSE /\ unread' = FALSE /\ lost_up' = lost_up \cup Releases({scan_code_buf})
      /\ held' = held /\ events' = events /\ scan_code_buf' = scan_code_buf
    BY DEF IrqErased
<1>2. scan_code_buf \in Code
    BY <1>1 DEF KeyboardInv
<1>3. lost_up' \subseteq Keys
    <2>1. scan_code_buf.key \in Keys
        BY <1>2 DEF Code
    <2> QED BY <1>1, <2>1 DEF Releases, KeyboardInv, KeyboardTypeOK
<1>4. KeyboardInv'
    BY <1>1, <1>3 DEF KeyboardInv, KeyboardTypeOK
<1>5. scan_code_buf.up => scan_code_buf.key \in lost_up'
    BY <1>1 DEF Releases
<1>6. \A c : UpComing(c) => UpComing(c)'
    BY <1>1, <1>5 DEF UpComing, UpQueued
<1> QED BY <1>1, <1>4, <1>6

\* The code is read.
LEMMA ReadCodeStep ==
    ASSUME KeyboardInv, ReadCode
    PROVE  /\ KeyboardInv'
           /\ scan_code_buf \in Code /\ irq /\ ~irq' /\ events' = events /\ held' = held
           /\ \A c : UpComing(c) => UpComing(c)' \/ (c = scan_code_buf.key /\ scan_code_buf.up)
           /\ \A c : c = scan_code_buf.key /\ ~scan_code_buf.up => UpComing(c)'
<1>1. /\ irq /\ irq' = FALSE /\ unread' = FALSE
      /\ lost_up' = IF scan_code_buf.up THEN lost_up \ {scan_code_buf.key} ELSE lost_up
      /\ held' = held /\ events' = events /\ scan_code_buf' = scan_code_buf
    BY DEF ReadCode
<1>2. scan_code_buf \in Code
    BY <1>1 DEF KeyboardInv
<1>3. KeyboardInv'
    BY <1>1 DEF KeyboardInv, KeyboardTypeOK
<1>4. \A c : UpComing(c) => UpComing(c)' \/ (c = scan_code_buf.key /\ scan_code_buf.up)
    BY <1>1 DEF UpComing, UpQueued
<1>5. \A c : c = scan_code_buf.key /\ ~scan_code_buf.up => UpComing(c)'
    BY <1>1 DEF KeyboardInv, UpComing, UpQueued
<1> QED BY <1>1, <1>2, <1>3, <1>4, <1>5

\* Nothing happens at the keyboard.
LEMMA KeyboardUnchanged ==
    ASSUME KeyboardInv, UNCHANGED device
    PROVE  KeyboardInv'
BY DEF KeyboardInv, KeyboardTypeOK, UpQueued, device

\* do_keyboard, the user and the other devices.
LEMMA KeyboardNextStep ==
    ASSUME KeyboardInv, KeyboardNext
    PROVE  KeyboardInv'
BY DoKeyboardStep, IrqErasedStep, UserPressStep, UserReleaseStep DEF KeyboardNext

-----------------------------------------------------------------------------
(* The game.                                                               *)

\* A key that the game takes for pressed is held, or its release is on the way or lost.
Down == \A k \in GameKeys : key_state[k] \in {"PRESS", "WAIT_RELEASE"} => UpComing(k)

\* A remembered direction was reported as pressed and not yet as released, and the two
\* directions differ.
Remembered == /\ \A d \in {input.dir, input.prevdir} \ {kDirUnknown} :
                    key_state[d] \in {"WAIT_RELEASE", "RELEASE"}
              /\ input.dir = input.prevdir => input.dir = kDirUnknown

\* Presses that the game has still to be told of.
OneIf(p) == IF p THEN 1 ELSE 0
Counted == \A k \in GameKeys :
    unreported[k] >= OneIf(DownQueued(k))
                     + OneIf(irq /\ scan_code_buf.key = k /\ ~scan_code_buf.up)
                     + OneIf(key_state[k] = "PRESS")

PalInv == PTypeOK /\ KeyboardInv /\ Down /\ Remembered /\ Counted

-----------------------------------------------------------------------------
(* process_keys.                                                           *)

Input == [dir : Dir, prevdir : Dir]

\* The key states that a remembered direction may have, before and after its key has
\* been looked at: a key that is pressed is not yet, and one that is released no longer
\* remembered.
Fresh(k) == key_state[k] \in {"WAIT_RELEASE", "RELEASE"}
Done(k) == key_state[k] \in {"PRESS", "WAIT_RELEASE"}

\* Of the input state s, when the first n keys have been reported.
Halfway(s, n) ==
    /\ \A j \in 1 .. Len(KeyOrder) : KeyOrder[j] \in {s.dir, s.prevdir} =>
          IF j <= n THEN Done(KeyOrder[j]) ELSE Fresh(KeyOrder[j])
    /\ s.dir = s.prevdir => s.dir = kDirUnknown

LEMMA KeyOrderFacts ==
    /\ Len(KeyOrder) \in Nat /\ DOMAIN KeyOrder = 1 .. Len(KeyOrder)
    /\ GameKeys = {KeyOrder[i] : i \in 1 .. Len(KeyOrder)} /\ GameKeys \subseteq Keys
    /\ \A i, j \in 1 .. Len(KeyOrder) : KeyOrder[i] = KeyOrder[j] => i = j
    /\ DirKeys \subseteq GameKeys /\ kDirUnknown \notin GameKeys
<1>1. KeyOrder \in Seq(Keys) /\ IsInjective(KeyOrder) /\ DirKeys \subseteq GameKeys
      /\ kDirUnknown \notin Keys
    BY KeysAssumption
<1>2. Len(KeyOrder) \in Nat /\ DOMAIN KeyOrder = 1 .. Len(KeyOrder)
      /\ \A i \in 1 .. Len(KeyOrder) : KeyOrder[i] \in Keys
    BY <1>1
<1>3. GameKeys = {KeyOrder[i] : i \in 1 .. Len(KeyOrder)}
    BY <1>2 DEF GameKeys, ToSet
<1> QED BY <1>1, <1>2, <1>3 DEF IsInjective

\* The two handlers keep the types.
LEMMA ReportType ==
    ASSUME NEW s \in Input, NEW k
    PROVE  /\ Report(s, k) \in Input
           /\ key_state[k] = "PRESS" => Report(s, k) = KeyPressHandler(s, k)
           /\ key_state[k] = "RELEASE" => Report(s, k) = KeyReleaseHandler(s, k)
           /\ key_state[k] \notin {"PRESS", "RELEASE"} => Report(s, k) = s
<1>1. /\ key_state[k] = "PRESS" => Report(s, k) = KeyPressHandler(s, k)
      /\ key_state[k] = "RELEASE" => Report(s, k) = KeyReleaseHandler(s, k)
      /\ key_state[k] \notin {"PRESS", "RELEASE"} => Report(s, k) = s
    BY DEF Report
<1>2. KeyPressHandler(s, k) \in Input /\ KeyReleaseHandler(s, k) \in Input
    BY DEF KeyPressHandler, KeyReleaseHandler, Input, Dir
<1> QED BY <1>1, <1>2

\* Reporting one key more.
LEMMA ReportOne ==
    ASSUME NEW n \in 1 .. Len(KeyOrder), NEW s \in Input, Halfway(s, n - 1)
    PROVE  Halfway(Report(s, KeyOrder[n]), n)
<1> DEFINE k == KeyOrder[n]
           N == Len(KeyOrder)
           t == Report(s, k)
<1>1. /\ N \in Nat /\ k \in GameKeys /\ kDirUnknown \notin GameKeys
      /\ \A j \in 1 .. N : KeyOrder[j] \in GameKeys /\ (KeyOrder[j] = k => j = n)
    BY KeyOrderFacts
<1>2. \A j \in 1 .. N : j # n => (j <= n <=> j <= n - 1)
    BY <1>1
<1>3. ~(n <= n - 1) /\ n <= n
    BY <1>1
<1>4. s.dir = s.prevdir => s.dir = kDirUnknown
    BY DEF Halfway
<1>5. k \in {s.dir, s.prevdir} => Fresh(k)
    BY <1>3 DEF Halfway
<1>6. ASSUME NEW u, u.dir = u.prevdir => u.dir = kDirUnknown,
             {u.dir, u.prevdir} \subseteq {s.dir, s.prevdir, k, kDirUnknown},
             k \in {u.dir, u.prevdir} => Done(k)
      PROVE  Halfway(u, n)
    <2> SUFFICES ASSUME NEW j \in 1 .. N, KeyOrder[j] \in {u.dir, u.prevdir}
                 PROVE  IF j <= n THEN Done(KeyOrder[j]) ELSE Fresh(KeyOrder[j])
        BY <1>6 DEF Halfway
    <2>1. CASE j = n
        BY <1>3, <1>6, <2>1
    <2>2. CASE j # n
        <3>1. KeyOrder[j] # k /\ KeyOrder[j] # kDirUnknown
            BY <1>1, <2>2
        <3>2. KeyOrder[j] \in {s.dir, s.prevdir}
            BY <1>6, <3>1
        <3> QED BY <1>2, <2>2, <3>2 DEF Halfway
    <2> QED BY <2>1, <2>2
<1>7. CASE key_state[k] = "PRESS"
    <2>1. t = KeyPressHandler(s, k)
        BY <1>7, ReportType
    <2>2. s.dir # k /\ s.prevdir # k /\ Done(k)
        BY <1>5, <1>7 DEF Fresh, Done
    <2>3. CASE k \in DirKeys
        <3>1. t.dir = k /\ t.prevdir \in {s.dir, kDirUnknown}
            BY <2>1, <2>3 DEF KeyPressHandler, Input
        <3> HIDE DEF t, k
        <3>2. t.dir # t.prevdir
            BY <1>1, <2>2, <3>1
        <3> QED BY <1>6, <2>2, <3>1, <3>2 DEF t, k
    <2>4. CASE k \notin DirKeys
        <3>1. t.dir = s.dir /\ t.prevdir = s.prevdir
            BY <2>1, <2>4 DEF KeyPressHandler, Input
        <3> HIDE DEF t, k
        <3> QED BY <1>4, <1>6, <2>2, <3>1 DEF t, k
    <2> QED BY <2>3, <2>4
<1>8. CASE key_state[k] = "RELEASE"
    <2>1. t = KeyReleaseHandler(s, k)
        BY <1>8, ReportType
    <2>2. /\ t.dir = IF s.dir = k THEN s.prevdir ELSE s.dir
          /\ t.prevdir = IF k \in DirKeys THEN kDirUnknown ELSE s.prevdir
        BY <2>1 DEF KeyReleaseHandler, Input
    <2>3. s.dir \in Dir /\ s.prevdir \in Dir
        BY DEF Input
    <2> HIDE DEF t, k
    <2>4. t.dir # k /\ t.prevdir # k
        BY <1>1, <1>4, <2>2, <2>3 DEF Dir
    <2>5. t.dir = t.prevdir => t.dir = kDirUnknown
        BY <1>1, <1>4, <2>2, <2>3 DEF Dir
    <2>6. {t.dir, t.prevdir} \subseteq {s.dir, s.prevdir, k, kDirUnknown}
        BY <2>2
    <2> QED BY <1>6, <2>4, <2>5, <2>6 DEF t, k
<1>9. CASE key_state[k] \notin {"PRESS", "RELEASE"}
    <2>1. t = s
        BY <1>9, ReportType
    <2>2. k \in {s.dir, s.prevdir} => Done(k)
        BY <1>5, <1>9 DEF Fresh, Done
    <2>3. {s.dir, s.prevdir} \subseteq {s.dir, s.prevdir, k, kDirUnknown}
        OBVIOUS
    <2> QED BY <1>4, <1>6, <2>1, <2>2, <2>3
<1> QED BY <1>7, <1>8, <1>9

\* process_keys, the whole loop.
LEMMA ReportAllHalfway ==
    ASSUME input \in Input, Halfway(input, 0)
    PROVE  ReportAll \in Input /\ Halfway(ReportAll, Len(KeyOrder))
<1> DEFINE N == Len(KeyOrder)
           G == [n \in 1 .. N |-> [s \in Input |-> Report(s, KeyOrder[n])]]
           Fits(f) == f = [n \in 0 .. N |-> IF n = 0 THEN input ELSE Report(f[n - 1], KeyOrder[n])]
<1>1. N \in Nat
    BY KeyOrderFacts
<1> HIDE DEF N
<1>2. G \in [1 .. N -> [Input -> Input]]
    BY ReportType
<1>3. PICK f \in [0 .. N -> Input] : f[0] = input /\ \A n \in 1 .. N : f[n] = G[n][f[n - 1]]
    <2> HIDE DEF G
    <2> QED BY <1>1, <1>2, Recursion, SMTT(30)
<1>4. \A n \in 1 .. N : n - 1 \in 0 .. N /\ n \in 0 .. N /\ f[n] = Report(f[n - 1], KeyOrder[n])
    <2> SUFFICES ASSUME NEW n \in 1 .. N
                 PROVE  n - 1 \in 0 .. N /\ n \in 0 .. N /\ f[n] = Report(f[n - 1], KeyOrder[n])
        OBVIOUS
    <2>1. n - 1 \in 0 .. N /\ n \in 0 .. N
        BY <1>1
    <2> QED BY <1>3, <2>1
<1>5. Fits(f)
    <2>1. \A n \in 0 .. N : n = 0 \/ n \in 1 .. N
        BY <1>1
    <2>2. \A n \in 0 .. N : f[n] = IF n = 0 THEN input ELSE Report(f[n - 1], KeyOrder[n])
        BY <1>3, <1>4, <2>1
    <2> QED BY <2>2
<1>6. PICK h : Fits(h) /\ ReportAll = h[N]
    <2> DEFINE h == CHOOSE g : Fits(g)
    <2>1. Fits(h)
        <3> HIDE DEF Fits
        <3> QED BY <1>5
    <2>2. ReportAll = h[N]
        BY DEF ReportAll, N
    <2> HIDE DEF h, Fits
    <2> QED BY <2>1, <2>2
<1> DEFINE Bad == {n \in 0 .. N : ~(h[n] \in Input /\ Halfway(h[n], n))}
<1>7. Bad = {}
    <2> SUFFICES ASSUME Bad # {} PROVE FALSE
        OBVIOUS
    <2> DEFINE n == Min(Bad)
    <2>1. n \in Bad /\ \A j \in Bad : n <= j
        <3>1. Bad \subseteq Nat
            BY <1>1
        <3> HIDE DEF Bad
        <3> QED BY <3>1, MinIsElement
    <2>2. n \in 0 .. N /\ ~(h[n] \in Input /\ Halfway(h[n], n))
        BY <2>1
    <2> HIDE DEF n
    <2>3. n # 0
        <3>1. h[0] = input
            BY <1>1, <1>6
        <3> QED BY <2>2, <3>1
    <2>4. n \in 1 .. N /\ n - 1 \in 0 .. N /\ ~(n <= n - 1)
        BY <1>1, <2>2, <2>3
    <2>5. h[n - 1] \in Input /\ Halfway(h[n - 1], n - 1)
        <3>1. n - 1 \notin Bad
            <4> HIDE DEF Bad
            <4> QED BY <2>1, <2>4
        <3> QED BY <2>4, <3>1
    <2>6. h[n] = Report(h[n - 1], KeyOrder[n])
        BY <1>6, <2>2, <2>3
    <2>7. h[n] \in Input
        BY <2>5, <2>6, ReportType
    <2>8. Halfway(h[n], n)
        BY <2>4, <2>5, <2>6, ReportOne DEF N
    <2> QED BY <2>2, <2>7, <2>8
<1>8. h[N] \in Input /\ Halfway(h[N], N)
    BY <1>1, <1>7
<1> QED BY <1>6, <1>8 DEF N

-----------------------------------------------------------------------------
(* The steps of the game.                                                  *)

LEMMA ReportedState ==
    ASSUME NEW k, key_state[k] \in KeyState
    PROVE  /\ Reported(k) \in {"EMPTY", "WAIT_RELEASE"}
           /\ Reported(k) = "WAIT_RELEASE" <=> Done(k)
BY DEF Reported, KeyState, Done

LEMMA ProcessKeysStep ==
    ASSUME PalInv, ProcessKeys
    PROVE  PalInv'
<1>1. /\ input' = ReportAll /\ key_state' = [k \in GameKeys |-> Reported(k)]
      /\ unreported' = [k \in GameKeys |->
             unreported[k] - IF key_state[k] = "PRESS" THEN 1 ELSE 0]
      /\ held' = held /\ events' = events /\ scan_code_buf' = scan_code_buf /\ irq' = irq
      /\ unread' = unread /\ lost_up' = lost_up /\ fInBattle' = fInBattle
    BY DEF ProcessKeys, device
<1>2. /\ key_state \in [GameKeys -> KeyState] /\ unreported \in [GameKeys -> Int]
      /\ input \in Input
    BY DEF PalInv, PTypeOK, Input
<1>3. \A k \in GameKeys : /\ Reported(k) \in {"EMPTY", "WAIT_RELEASE"}
                          /\ Reported(k) = "WAIT_RELEASE" <=> Done(k)
    BY <1>2, ReportedState
<1>4. Halfway(input, 0)
    <2>1. \A j \in 1 .. Len(KeyOrder) : ~(j <= 0) /\ KeyOrder[j] # kDirUnknown
        BY KeyOrderFacts
    <2> QED BY <2>1 DEF PalInv, Remembered, Halfway, Fresh
<1>5. input' \in Input /\ Halfway(input', Len(KeyOrder))
    BY <1>1, <1>2, <1>4, ReportAllHalfway
<1>6. key_state' \in [GameKeys -> KeyState]
    BY <1>1, <1>3 DEF KeyState
<1>7. \A k \in GameKeys : unreported'[k] \in Int
    BY <1>1, <1>2
<1>8. PTypeOK'
    <2>1. unreported' \in [GameKeys -> Int]
        BY <1>1, <1>7
    <2>2. KeyboardTypeOK'
        BY <1>1 DEF PalInv, KeyboardInv, KeyboardTypeOK
    <2> QED BY <1>1, <1>5, <1>6, <2>1, <2>2 DEF PalInv, PTypeOK, Input
<1>9. KeyboardInv'
    BY <1>1 DEF PalInv, KeyboardInv, KeyboardTypeOK, UpQueued
<1>10. Down'
    <2> SUFFICES ASSUME NEW k \in GameKeys, key_state'[k] \in {"PRESS", "WAIT_RELEASE"}
                 PROVE  UpComing(k)'
        BY DEF Down
    <2>1. key_state'[k] = Reported(k)
        BY <1>1
    <2>2. Done(k)
        BY <1>3, <2>1
    <2>3. UpComing(k)
        BY <2>2 DEF PalInv, Down, Done
    <2> QED BY <1>1, <2>3 DEF UpComing, UpQueued
<1>11. Remembered'
    <2>1. ASSUME NEW d \in {input'.dir, input'.prevdir} \ {kDirUnknown}
          PROVE  key_state'[d] = "WAIT_RELEASE"
        <3>1. d \in GameKeys
            BY <1>5, <2>1, KeyOrderFacts DEF Input, Dir
        <3>2. PICK j \in 1 .. Len(KeyOrder) : d = KeyOrder[j]
            BY <3>1, KeyOrderFacts
        <3>3. Done(d)
            BY <1>5, <2>1, <3>2, KeyOrderFacts DEF Halfway
        <3> QED BY <1>1, <1>3, <3>1, <3>3
    <2>2. input'.dir = input'.prevdir => input'.dir = kDirUnknown
        BY <1>5 DEF Halfway
    <2> QED BY <2>1, <2>2 DEF Remembered
<1>12. Counted'
    <2> SUFFICES ASSUME NEW k \in GameKeys
                 PROVE  unreported'[k] >= OneIf(DownQueued(k)')
                            + OneIf(irq' /\ scan_code_buf'.key = k /\ ~scan_code_buf'.up)
                            + OneIf(key_state'[k] = "PRESS")
        BY DEF Counted, OneIf, DownQueued
    <2> DEFINE a == OneIf(DownQueued(k))
               b == OneIf(irq /\ scan_code_buf.key = k /\ ~scan_code_buf.up)
    <2>1. a \in Int /\ b \in Int
        BY DEF OneIf
    <2>2. /\ OneIf(DownQueued(k)') = a
          /\ OneIf(irq' /\ scan_code_buf'.key = k /\ ~scan_code_buf'.up) = b
        BY <1>1 DEF OneIf, DownQueued
    <2>3. OneIf(key_state'[k] = "PRESS") = 0
        BY <1>1, <1>3 DEF OneIf
    <2>4. /\ unreported[k] \in Int
          /\ unreported[k] >= a + b + IF key_state[k] = "PRESS" THEN 1 ELSE 0
        BY <1>2 DEF PalInv, Counted, OneIf
    <2>5. unreported'[k] = unreported[k] - IF key_state[k] = "PRESS" THEN 1 ELSE 0
        BY <1>1
    <2> HIDE DEF a, b
    <2>6. unreported'[k] >= a + b + 0
        BY <2>1, <2>4, <2>5
    <2> QED BY <2>2, <2>3, <2>6
<1> QED BY <1>8, <1>9, <1>10, <1>11, <1>12 DEF PalInv

LEMMA KeyboardEventStep ==
    ASSUME PalInv, PKeyboardEvent
    PROVE  PalInv'
<1> DEFINE c == scan_code_buf.key
           up == scan_code_buf.up
<1>1. /\ ReadCode
      /\ key_state' = IF c \in GameKeys THEN [key_state EXCEPT ![c] = NewState(@, up)] ELSE key_state
      /\ input' = input /\ fInBattle' = fInBattle /\ unreported' = unreported
    BY DEF PKeyboardEvent
<1>2. /\ KeyboardInv' /\ scan_code_buf \in Code /\ irq /\ ~irq' /\ events' = events
      /\ \A k : UpComing(k) => UpComing(k)' \/ (k = c /\ up)
      /\ \A k : k = c /\ ~up => UpComing(k)'
    BY <1>1, ReadCodeStep DEF PalInv
<1>3. /\ key_state \in [GameKeys -> KeyState] /\ unreported \in [GameKeys -> Int]
      /\ input \in Input /\ up \in BOOLEAN
    BY <1>2 DEF PalInv, PTypeOK, Input, Code
<1>4. \A k \in GameKeys : key_state'[k] = IF k = c THEN NewState(key_state[k], up) ELSE key_state[k]
    BY <1>1, <1>3
<1>5. key_state' \in [GameKeys -> KeyState]
    BY <1>1, <1>3 DEF NewState, KeyState
<1>6. PTypeOK'
    BY <1>1, <1>2, <1>5 DEF PalInv, PTypeOK, KeyboardInv
<1> HIDE DEF c, up
<1>7. Down'
    <2> SUFFICES ASSUME NEW k \in GameKeys, key_state'[k] \in {"PRESS", "WAIT_RELEASE"}
                 PROVE  UpComing(k)'
        BY DEF Down
    <2>1. CASE k = c
        <3>1. ~up
            BY <1>4, <2>1 DEF NewState
        <3> QED BY <1>2, <2>1, <3>1
    <2>2. CASE k # c
        BY <1>2, <1>4, <2>2 DEF PalInv, Down
    <2> QED BY <2>1, <2>2
<1>8. Remembered'
    <2>1. ASSUME NEW d \in {input.dir, input.prevdir} \ {kDirUnknown}
          PROVE  key_state'[d] \in {"WAIT_RELEASE", "RELEASE"}
        <3>1. d \in GameKeys
            BY <1>3, KeyOrderFacts DEF Input, Dir
        <3>2. key_state[d] \in {"WAIT_RELEASE", "RELEASE"}
            BY DEF PalInv, Remembered
        <3> QED BY <1>4, <3>1, <3>2 DEF NewState
    <2> QED BY <1>1, <2>1 DEF PalInv, Remembered
<1>9. Counted'
    <2> SUFFICES ASSUME NEW k \in GameKeys
                 PROVE  unreported'[k] >= OneIf(DownQueued(k)')
                            + OneIf(irq' /\ scan_code_buf'.key = k /\ ~scan_code_buf'.up)
                            + OneIf(key_state'[k] = "PRESS")
        BY DEF Counted, OneIf, DownQueued
    <2> DEFINE a == OneIf(DownQueued(k))
    <2>1. a \in Int /\ OneIf(DownQueued(k)') = a
        BY <1>2 DEF OneIf, DownQueued
    <2>2. OneIf(irq' /\ scan_code_buf'.key = k /\ ~scan_code_buf'.up) = 0
        BY <1>2 DEF OneIf
    <2>3. /\ unreported[k] \in Int
          /\ unreported[k] >= a + (IF c = k /\ ~up THEN 1 ELSE 0)
                              + IF key_state[k] = "PRESS" THEN 1 ELSE 0
        BY <1>2, <1>3 DEF PalInv, Counted, OneIf, c, up
    <2>4. key_state'[k] = "PRESS" => key_state[k] = "PRESS" \/ (c = k /\ ~up)
        BY <1>4 DEF NewState
    <2> HIDE DEF a
    <2>5. unreported[k] >= a + 0 + OneIf(key_state'[k] = "PRESS")
        BY <2>1, <2>3, <2>4 DEF OneIf
    <2> QED BY <1>1, <2>1, <2>2, <2>5
<1> QED BY <1>2, <1>6, <1>7, <1>8, <1>9 DEF PalInv

LEMMA BattleStep ==
    ASSUME PalInv, Battle
    PROVE  PalInv'
<1>1. /\ fInBattle' = ~fInBattle /\ key_state' = key_state /\ input' = input
      /\ unreported' = unreported
      /\ held' = held /\ events' = events /\ scan_code_buf' = scan_code_buf /\ irq' = irq
      /\ unread' = unread /\ lost_up' = lost_up
    BY DEF Battle, device
<1>2. PTypeOK'
    BY <1>1 DEF PalInv, PTypeOK, KeyboardTypeOK
<1>3. KeyboardInv'
    BY <1>1 DEF PalInv, KeyboardInv, KeyboardTypeOK, UpQueued
<1>4. Down' /\ Remembered' /\ Counted'
    BY <1>1 DEF PalInv, Down, Remembered, Counted, UpComing, UpQueued, DownQueued
<1> QED BY <1>2, <1>3, <1>4 DEF PalInv

LEMMA DeviceStepKeeps ==
    ASSUME PalInv, PDeviceStep
    PROVE  PalInv'
<1>1. /\ KeyboardNext
      /\ unreported' = [k \in GameKeys |-> unreported[k] + IF k \in held' \ held THEN 1 ELSE 0]
      /\ key_state' = key_state /\ input' = input /\ fInBattle' = fInBattle
    BY DEF PDeviceStep
<1>2. unreported \in [GameKeys -> Int]
    BY DEF PalInv, PTypeOK
<1> DEFINE Buf(k) == irq /\ scan_code_buf.key = k /\ ~scan_code_buf.up
           New(k) == k \in held' \ held
           Goal == /\ KeyboardInv'
                   /\ \A k : UpComing(k) => UpComing(k)'
                   /\ \A k : OneIf(DownQueued(k)') + OneIf(Buf(k)')
                                 <= OneIf(DownQueued(k)) + OneIf(Buf(k)) + OneIf(New(k))
<1>3. Goal
    <2>1. CASE DoKeyboard
        <3>1. /\ KeyboardInv' /\ (\A c : UpComing(c) => UpComing(c)')
              /\ \A c : ~DownQueued(c)'
              /\ \A c : Buf(c)' => DownQueued(c)
            BY <2>1, DoKeyboardStep DEF PalInv
        <3> HIDE DEF Buf, New
        <3> QED BY <3>1 DEF OneIf
    <2>2. CASE IrqErased
        <3>1. /\ KeyboardInv' /\ (\A c : UpComing(c) => UpComing(c)')
              /\ \A c : DownQueued(c)' => DownQueued(c)
              /\ \A c : ~Buf(c)'
            BY <2>2, IrqErasedStep DEF PalInv, DownQueued
        <3> HIDE DEF Buf, New
        <3> QED BY <3>1 DEF OneIf
    <2>3. ASSUME NEW k \in Keys, UserPress(k) PROVE Goal
        <3>1. /\ KeyboardInv' /\ (\A c : UpComing(c) => UpComing(c)')
              /\ \A c : DownQueued(c)' => DownQueued(c) \/ New(c)
              /\ \A c : Buf(c)' => Buf(c)
            BY <2>3, UserPressStep DEF PalInv
        <3> HIDE DEF Buf, New
        <3> QED BY <3>1 DEF OneIf
    <2>4. ASSUME NEW k \in Keys, UserRelease(k) PROVE Goal
        <3>1. /\ KeyboardInv' /\ (\A c : UpComing(c) => UpComing(c)')
              /\ \A c : DownQueued(c)' => DownQueued(c)
              /\ \A c : Buf(c)' => Buf(c)
            BY <2>4, UserReleaseStep DEF PalInv
        <3> HIDE DEF Buf, New
        <3> QED BY <3>1 DEF OneIf
    <2> HIDE DEF Goal
    <2> QED BY <1>1, <2>1, <2>2, <2>3, <2>4 DEF KeyboardNext
<1>4. PTypeOK'
    <2>1. \A k \in GameKeys : unreported'[k] \in Int
        BY <1>1, <1>2
    <2>2. unreported' \in [GameKeys -> Int]
        BY <1>1, <2>1
    <2> QED BY <1>1, <1>3, <2>2 DEF PalInv, PTypeOK, KeyboardInv
<1>5. Down' /\ Remembered'
    BY <1>1, <1>3 DEF PalInv, Down, Remembered
<1>6. Counted'
    <2> SUFFICES ASSUME NEW k \in GameKeys
                 PROVE  unreported'[k] >= OneIf(DownQueued(k)') + OneIf(Buf(k)')
                            + OneIf(key_state'[k] = "PRESS")
        BY DEF Counted, OneIf, DownQueued
    <2> DEFINE a == OneIf(DownQueued(k)') + OneIf(Buf(k)')
               b == OneIf(DownQueued(k)) + OneIf(Buf(k))
               p == OneIf(key_state[k] = "PRESS")
    <2>1. a \in Int /\ b \in Int /\ p \in Int /\ OneIf(New(k)) \in Int
        BY DEF OneIf
    <2>2. a <= b + OneIf(New(k))
        BY <1>3
    <2>3. unreported[k] \in Int /\ unreported[k] >= b + p
        BY <1>2 DEF PalInv, Counted
    <2>4. unreported'[k] = unreported[k] + OneIf(New(k)) /\ p = OneIf(key_state'[k] = "PRESS")
        BY <1>1 DEF OneIf
    <2> HIDE DEF a, b, p, New
    <2>5. unreported'[k] >= a + p
        BY <2>1, <2>2, <2>3, <2>4
    <2> QED BY <2>4, <2>5 DEF a
<1> QED BY <1>3, <1>4, <1>5, <1>6 DEF PalInv

\* The key states and the remembered directions follow the keyboard, for any keys, any
\* order of them and any loss of events.
THEOREM PalInputCorrect == PSpec => []KeysFollow
<1>1. PInit => PalInv
    <2> SUFFICES ASSUME PInit PROVE PalInv
        OBVIOUS
    <2>1. /\ held = {} /\ events = <<>> /\ scan_code_buf = NoCode /\ irq = FALSE
          /\ unread = FALSE /\ lost_up = {}
          /\ key_state = [k \in GameKeys |-> "EMPTY"] /\ fInBattle = FALSE
          /\ input = [dir |-> kDirUnknown, prevdir |-> kDirUnknown]
          /\ unreported = [k \in GameKeys |-> 0]
        BY DEF PInit, KeyboardInit
    <2>2. events \in Seq(Code) /\ Len(events) = 0 /\ 0 <= Queue
        BY <2>1, QueueAssumption
    <2>3. KeyboardTypeOK
        BY <2>1, <2>2 DEF KeyboardTypeOK
    <2>4. PTypeOK
        <3>1. key_state \in [GameKeys -> KeyState] /\ unreported \in [GameKeys -> Int]
            BY <2>1 DEF KeyState
        <3>2. input \in [dir : Dir, prevdir : Dir] /\ fInBattle \in BOOLEAN
            BY <2>1 DEF Dir
        <3> QED BY <2>3, <3>1, <3>2 DEF PTypeOK
    <2>5. \A i \in 1 .. Len(events) : FALSE
        BY <2>2
    <2>6. KeyboardInv
        BY <2>1, <2>3, <2>5 DEF KeyboardInv
    <2>7. Down /\ Remembered
        BY <2>1 DEF Down, Remembered
    <2>8. Counted
        BY <2>1, <2>5 DEF Counted, OneIf, DownQueued
    <2> QED BY <2>4, <2>6, <2>7, <2>8 DEF PalInv
<1>2. PalInv /\ [PNext]_pvars => PalInv'
    <2> SUFFICES ASSUME PalInv, [PNext]_pvars PROVE PalInv'
        OBVIOUS
    <2>1. CASE PDeviceStep
        BY <2>1, DeviceStepKeeps
    <2>2. CASE PKeyboardEvent
        BY <2>2, KeyboardEventStep
    <2>3. CASE ProcessKeys
        BY <2>3, ProcessKeysStep
    <2>4. CASE Battle
        BY <2>4, BattleStep
    <2>5. CASE UNCHANGED pvars
        <3>1. /\ UNCHANGED <<held, events, scan_code_buf, irq, unread, lost_up>>
              /\ UNCHANGED <<key_state, input, fInBattle, unreported>>
            BY <2>5 DEF pvars, device
        <3>2. PTypeOK'
            BY <3>1 DEF PalInv, PTypeOK, KeyboardTypeOK
        <3>3. KeyboardInv'
            BY <3>1 DEF PalInv, KeyboardInv, KeyboardTypeOK, UpQueued
        <3>4. Down' /\ Remembered' /\ Counted'
            BY <3>1
               DEF PalInv, Down, Remembered, Counted, UpComing, UpQueued, DownQueued
        <3> QED BY <3>2, <3>3, <3>4 DEF PalInv
    <2> QED BY <2>1, <2>2, <2>3, <2>4, <2>5 DEF PNext
<1>3. PalInv => KeysFollow
    <2> SUFFICES ASSUME PalInv PROVE KeysFollow
        OBVIOUS
    <2>1. ASSUME Settled, NEW k \in GameKeys, key_state[k] \in {"WAIT_RELEASE", "RELEASE"}
          PROVE  k \in held \cup lost_up
        <3>1. /\ events = <<>> /\ ~irq
              /\ key_state[k] \in {"EMPTY", "WAIT_RELEASE"}
            BY <2>1 DEF Settled
        <3>2. UpComing(k)
            BY <2>1, <3>1 DEF PalInv, Down
        <3>3. \A i \in 1 .. Len(events) : FALSE
            BY <3>1
        <3> QED BY <3>1, <3>2, <3>3 DEF UpComing, UpQueued
    <2>2. NoDeafKey
        BY <2>1 DEF NoDeafKey
    <2>3. NoStuckDirection
        <3> SUFFICES ASSUME Settled, NEW d \in {input.dir, input.prevdir} \ {kDirUnknown}
                     PROVE  d \in held \cup lost_up
            BY DEF NoStuckDirection
        <3>1. d \in GameKeys
            BY KeyOrderFacts DEF PalInv, PTypeOK, Dir
        <3> QED BY <2>1, <3>1 DEF PalInv, Remembered
    <2>4. NoGhostPress
        <3> SUFFICES ASSUME NEW k \in GameKeys PROVE unreported[k] >= 0
            BY DEF NoGhostPress
        <3>1. unreported[k] \in Int
            BY DEF PalInv, PTypeOK
        <3> QED BY <3>1 DEF PalInv, Counted, OneIf
    <2> QED BY <2>2, <2>3, <2>4 DEF KeysFollow, PalInv
<1> QED BY <1>1, <1>2, <1>3, PTL DEF PSpec

(***************************************************************************)
(*                               Typing game                               *)
(***************************************************************************)

-----------------------------------------------------------------------------
(* The letters of the typing game.                                         *)

\* c lists the nodes from n on.
Chain(f, n, c) ==
    /\ c \in Seq(Node)
    /\ n = IF Len(c) = 0 THEN NULL ELSE c[1]
    /\ \A j \in 1 .. Len(c) : f.next[c[j]] = IF j = Len(c) THEN NULL ELSE c[j + 1]

\* c lists the letters on the screen and d the free nodes: no node is listed twice and
\* all are, once the pool has been linked by the first fly_new.
Shape(f, c, d) ==
    /\ Chain(f, f.head, c) /\ Chain(f, f.free_head, d)
    /\ \A j, k \in 1 .. Len(c) : c[j] = c[k] => j = k
    /\ \A j, k \in 1 .. Len(d) : d[j] = d[k] => j = k
    /\ \A j \in 1 .. Len(c), k \in 1 .. Len(d) : c[j] # d[k]
    /\ \A j \in 1 .. Len(c) : f.prev[c[j]] = IF j = 1 THEN NULL ELSE c[j - 1]
    /\ IF Len(d) = 0 THEN Len(c) = 0 /\ f.next[SIZE] = NULL
       ELSE /\ Len(c) + Len(d) = SIZE + 1
            /\ \A n \in Node : (\E j \in 1 .. Len(c) : n = c[j]) \/ (\E j \in 1 .. Len(d) : n = d[j])

\* How often the jth letter has been moved, at least, at the place pl of the main loop and
\* the phase ph: letters are PERIOD ticks apart, and in the tick that is being simulated
\* those before the ith have been moved.
Elapsed(pl, ph, j, i) == IF pl # "update" THEN (IF ph = 0 THEN PERIOD ELSE ph)
                         ELSE IF j < i THEN ph + 1 ELSE ph
Moved(pl, ph, j, i) == (j - 1) * PERIOD + Elapsed(pl, ph, j, i)

\* A letter m that has been moved b times: it has fallen b steps, or fell to the bottom
\* at most before it turned round.
Paced(f, m, b) == /\ f.x[m] \in 0 .. HEIGHT
                  /\ \/ f.v[m] = 1 /\ b <= f.x[m]
                     \/ f.v[m] = -UP /\ UP * b + f.x[m] <= UP * HEIGHT + HEIGHT

\* The traversal t of the letters is at the ith one, or at the end of the list.
Listed(f, t, pl, ph, c, d, i) ==
    /\ Shape(f, c, d)
    /\ i \in 1 .. Len(c) + 1
    /\ t = IF i = Len(c) + 1 THEN NULL ELSE c[i]
    /\ pl # "update" => t = NULL
    /\ \A j \in 1 .. Len(c) : Paced(f, c[j], Moved(pl, ph, j, i))
InLists(f, t, pl, ph) == \E c, d \in Seq(Node) : \E i \in Nat : Listed(f, t, pl, ph, c, d, i)

\* The simulation does not pass the timer.
Clocks == /\ target <= behind
          /\ place = "update" => target > 0

TypingInv == TTypeOK /\ KeyboardInv /\ Clocks /\ InLists(fly, it, place, phase)

-----------------------------------------------------------------------------
(* The operations on the pool, field by field.                             *)

LEMMA FlyFields ==
    ASSUME NEW f \in Fly
    PROVE  /\ f = [next |-> f.next, prev |-> f.prev, free_head |-> f.free_head, head |-> f.head,
                   x |-> f.x, v |-> f.v, text |-> f.text]
           /\ f.next \in [Node -> Link] /\ f.prev \in [Node -> Link]
           /\ f.free_head \in Link /\ f.head \in Link
           /\ f.x \in [Node -> -UP .. HEIGHT + 1] /\ f.v \in [Node -> {0, 1, -UP}]
           /\ f.text \in [Node -> Letters \cup {"none"}]
BY DEF Fly

\* The links after the pool has been linked, if that is necessary.
LinkedPool(f) == IF f.free_head = NULL
                 THEN [n \in Node |-> IF n < SIZE THEN n + 1 ELSE f.next[n]] ELSE f.next

\* create_new_letter.
LEMMA CreateFields ==
    ASSUME NEW f \in Fly, NEW ch \in Letters, NewNode(f) \in Node, LinkedPool(f) \in [Node -> Link],
           NEW g, g = CreateNewLetter(f, ch), NEW n, n = NewNode(f)
    PROVE  /\ g \in Fly
           /\ g.next = [LinkedPool(f) EXCEPT ![n] = f.head]
           /\ g.prev = [m \in Node |-> IF m = f.head THEN n ELSE IF m = n THEN NULL ELSE f.prev[m]]
           /\ g.free_head = LinkedPool(f)[n] /\ g.head = n
           /\ g.x = [f.x EXCEPT ![n] = 0] /\ g.v = [f.v EXCEPT ![n] = 1]
<1> DEFINE lp == LinkedPool(f)
           h == FlyNew(f)
           p == [m \in Node |-> IF m = f.head THEN n ELSE IF m = n THEN NULL ELSE f.prev[m]]
<1>1. /\ f = [next |-> f.next, prev |-> f.prev, free_head |-> f.free_head, head |-> f.head,
              x |-> f.x, v |-> f.v, text |-> f.text]
      /\ f.next \in [Node -> Link] /\ f.prev \in [Node -> Link]
      /\ f.free_head \in Link /\ f.head \in Link
      /\ f.x \in [Node -> -UP .. HEIGHT + 1] /\ f.v \in [Node -> {0, 1, -UP}]
      /\ f.text \in [Node -> Letters \cup {"none"}]
    BY FlyFields
<1>2. h = [f EXCEPT !.free_head = lp[n], !.next = [lp EXCEPT ![n] = NULL], !.prev[n] = NULL]
    BY DEF FlyNew, LinkedPool
<1> HIDE DEF lp
<1>3. h = [next |-> [lp EXCEPT ![n] = NULL], prev |-> [f.prev EXCEPT ![n] = NULL],
           free_head |-> lp[n], head |-> f.head, x |-> f.x, v |-> f.v, text |-> f.text]
    BY <1>1, <1>2
<1>4. g = [h EXCEPT !.next[n] = f.head,
                    !.prev = [m \in Node |-> IF m = f.head THEN n ELSE h.prev[m]],
                    !.head = n, !.x[n] = 0, !.v[n] = 1, !.text[n] = ch]
    BY DEF CreateNewLetter
<1> HIDE DEF h
<1>5. g = [next |-> [h.next EXCEPT ![n] = f.head],
           prev |-> [m \in Node |-> IF m = f.head THEN n ELSE h.prev[m]],
           free_head |-> h.free_head, head |-> n, x |-> [h.x EXCEPT ![n] = 0],
           v |-> [h.v EXCEPT ![n] = 1], text |-> [h.text EXCEPT ![n] = ch]]
    BY <1>3, <1>4, ZenonT(30)
<1>6. lp \in [Node -> Link] /\ n \in Node
    BY DEF lp
<1>7. [h.next EXCEPT ![n] = f.head] = [lp EXCEPT ![n] = f.head]
    BY <1>3, <1>6
<1>8. [m \in Node |-> IF m = f.head THEN n ELSE h.prev[m]] = p
    BY <1>1, <1>3, <1>6
<1>9. g = [next |-> [lp EXCEPT ![n] = f.head], prev |-> p,
           free_head |-> lp[n], head |-> n, x |-> [f.x EXCEPT ![n] = 0],
           v |-> [f.v EXCEPT ![n] = 1], text |-> [f.text EXCEPT ![n] = ch]]
    BY <1>3, <1>5, <1>7, <1>8
<1>10. /\ [lp EXCEPT ![n] = f.head] \in [Node -> Link] /\ p \in [Node -> Link]
       /\ lp[n] \in Link /\ n \in Link
    BY <1>1, <1>6 DEF Link
<1>11. [f.x EXCEPT ![n] = 0] \in [Node -> -UP .. HEIGHT + 1]
    <2>1. 0 \in -UP .. HEIGHT + 1
        BY TypingAssumption
    <2> QED BY <1>1, <2>1
<1>12. /\ [f.v EXCEPT ![n] = 1] \in [Node -> {0, 1, -UP}]
       /\ [f.text EXCEPT ![n] = ch] \in [Node -> Letters \cup {"none"}]
    BY <1>1
<1> HIDE DEF p
<1>13. g \in Fly
    BY <1>9, <1>10, <1>11, <1>12 DEF Fly
<1> QED BY <1>9, <1>13 DEF p, lp

\* update_letter_pos, for a letter that stays on the screen.
LEMMA MoveFields ==
    ASSUME NEW f \in Fly, NEW n \in Node, NEW y, y = f.x[n] + f.v[n], y \in 0 .. HEIGHT,
           NEW g, g = UpdateLetter(f, n)
    PROVE  /\ g \in Fly
           /\ g.next = f.next /\ g.prev = f.prev /\ g.free_head = f.free_head /\ g.head = f.head
           /\ g.x = [f.x EXCEPT ![n] = y] /\ g.v = f.v
<1>1. /\ f = [next |-> f.next, prev |-> f.prev, free_head |-> f.free_head, head |-> f.head,
              x |-> f.x, v |-> f.v, text |-> f.text]
      /\ f.next \in [Node -> Link] /\ f.prev \in [Node -> Link]
      /\ f.free_head \in Link /\ f.head \in Link
      /\ f.x \in [Node -> -UP .. HEIGHT + 1] /\ f.v \in [Node -> {0, 1, -UP}]
      /\ f.text \in [Node -> Letters \cup {"none"}]
    BY FlyFields
<1>2. g = [f EXCEPT !.x[n] = y]
    BY DEF UpdateLetter
<1>3. y \in -UP .. HEIGHT + 1
    <2>1. y \in 0 .. HEIGHT /\ HEIGHT \in Nat /\ UP \in Nat
        BY TypingAssumption
    <2> QED BY <2>1
<1>4. g = [next |-> f.next, prev |-> f.prev, free_head |-> f.free_head, head |-> f.head,
           x |-> [f.x EXCEPT ![n] = y], v |-> f.v, text |-> f.text]
    BY <1>1, <1>2
<1>5. [f.x EXCEPT ![n] = y] \in [Node -> -UP .. HEIGHT + 1]
    BY <1>1, <1>3
<1>6. g \in Fly
    BY <1>1, <1>4, <1>5 DEF Fly
<1> QED BY <1>4, <1>6

\* ... and for one that leaves it.
LEMMA RemoveFields ==
    ASSUME NEW f \in Fly, NEW n \in Node, NEW y, y = f.x[n] + f.v[n], y \notin 0 .. HEIGHT,
           y \in -UP .. HEIGHT + 1, NEW g, g = UpdateLetter(f, n)
    PROVE  /\ g \in Fly
           /\ g.next = [m \in Node |-> IF m = n THEN f.free_head
                                       ELSE IF m = f.prev[n] THEN f.next[n] ELSE f.next[m]]
           /\ g.prev = [m \in Node |-> IF m = f.next[n] THEN f.prev[n] ELSE f.prev[m]]
           /\ g.free_head = n /\ g.head = IF n = f.head THEN f.next[n] ELSE f.head
           /\ g.x = [f.x EXCEPT ![n] = y] /\ g.v = f.v
<1> DEFINE h == [f EXCEPT !.x[n] = y]
           nx == [m \in Node |-> IF m = f.prev[n] THEN f.next[n] ELSE f.next[m]]
           pv == [m \in Node |-> IF m = f.next[n] THEN f.prev[n] ELSE f.prev[m]]
           r == FlyRemove(h, n)
           q == FlyFree(r, n)
           hd == IF n = f.head THEN f.next[n] ELSE f.head
           nn == [m \in Node |-> IF m = n THEN f.free_head
                                 ELSE IF m = f.prev[n] THEN f.next[n] ELSE f.next[m]]
<1>1. /\ f = [next |-> f.next, prev |-> f.prev, free_head |-> f.free_head, head |-> f.head,
              x |-> f.x, v |-> f.v, text |-> f.text]
      /\ f.next \in [Node -> Link] /\ f.prev \in [Node -> Link]
      /\ f.free_head \in Link /\ f.head \in Link
      /\ f.x \in [Node -> -UP .. HEIGHT + 1] /\ f.v \in [Node -> {0, 1, -UP}]
      /\ f.text \in [Node -> Letters \cup {"none"}]
    BY FlyFields
<1>2. g = [q EXCEPT !.head = IF n = q.head THEN f.next[n] ELSE q.head]
    BY DEF UpdateLetter
<1>3. y \in -UP .. HEIGHT + 1
    OBVIOUS
<1>4. h = [next |-> f.next, prev |-> f.prev, free_head |-> f.free_head, head |-> f.head,
           x |-> [f.x EXCEPT ![n] = y], v |-> f.v, text |-> f.text]
    BY <1>1
<1>5. r = [next |-> nx, prev |-> pv, free_head |-> f.free_head, head |-> f.head,
           x |-> [f.x EXCEPT ![n] = y], v |-> f.v, text |-> f.text]
    <2> HIDE DEF h
    <2>1. r = [h EXCEPT !.next = [m \in Node |-> IF m = h.prev[n] THEN h.next[n] ELSE h.next[m]],
                        !.prev = [m \in Node |-> IF m = h.next[n] THEN h.prev[n] ELSE h.prev[m]]]
        BY DEF FlyRemove
    <2>2. h.next = f.next /\ h.prev = f.prev
        BY <1>4
    <2>3. r = [h EXCEPT !.next = nx, !.prev = pv]
        BY <2>1, <2>2
    <2> HIDE DEF nx, pv, r
    <2> QED BY <1>4, <2>3
<1> HIDE DEF h, r
<1>6. q = [next |-> nn, prev |-> pv, free_head |-> n, head |-> f.head,
           x |-> [f.x EXCEPT ![n] = y], v |-> f.v, text |-> f.text]
    <2>1. q = [r EXCEPT !.next[n] = r.free_head, !.free_head = n]
        BY DEF FlyFree
    <2>2. q = [next |-> [nx EXCEPT ![n] = f.free_head], prev |-> pv, free_head |-> n,
               head |-> f.head, x |-> [f.x EXCEPT ![n] = y], v |-> f.v, text |-> f.text]
        <3> HIDE DEF nx, pv, q
        <3> QED BY <1>5, <2>1
    <2>3. [nx EXCEPT ![n] = f.free_head] = nn
        OBVIOUS
    <2> QED BY <2>2, <2>3
<1> HIDE DEF q
<1>7. g = [next |-> nn, prev |-> pv, free_head |-> n, head |-> hd,
           x |-> [f.x EXCEPT ![n] = y], v |-> f.v, text |-> f.text]
    <2> HIDE DEF nn, pv
    <2> QED BY <1>2, <1>6
<1>8. nn \in [Node -> Link] /\ pv \in [Node -> Link] /\ hd \in Link /\ n \in Link
    BY <1>1 DEF Link
<1>9. [f.x EXCEPT ![n] = y] \in [Node -> -UP .. HEIGHT + 1]
    BY <1>1, <1>3
<1> HIDE DEF nn, pv, hd
<1>10. g \in Fly
    BY <1>1, <1>7, <1>8, <1>9 DEF Fly
<1> QED BY <1>7, <1>10 DEF nn, pv, hd

-----------------------------------------------------------------------------
(* The two lists.                                                          *)

\* A list with one element more in front, and without its ith one.
Push(n, c) == [j \in 1 .. Len(c) + 1 |-> IF j = 1 THEN n ELSE c[j - 1]]
Drop(c, i) == [j \in 1 .. Len(c) - 1 |-> IF j < i THEN c[j] ELSE c[j + 1]]

LEMMA PushIsList ==
    ASSUME NEW n \in Node, NEW c \in Seq(Node)
    PROVE  /\ Len(c) \in Nat /\ Push(n, c) \in Seq(Node) /\ Len(Push(n, c)) = Len(c) + 1
           /\ Push(n, c)[1] = n
           /\ \A j \in 1 .. Len(c) : j + 1 \in 1 .. Len(c) + 1 /\ Push(n, c)[j + 1] = c[j]
           /\ \A j \in 1 .. Len(c) + 1 : j = 1 \/ (j - 1 \in 1 .. Len(c) /\ Push(n, c)[j] = c[j - 1])
<1>1. Len(c) \in Nat /\ \A j \in 1 .. Len(c) : c[j] \in Node
    OBVIOUS
<1>2. \A j \in 1 .. Len(c) + 1 : j = 1 \/ (j - 1 \in 1 .. Len(c) /\ j # 1)
    BY <1>1
<1>3. \A j \in 1 .. Len(c) : j + 1 \in 1 .. Len(c) + 1 /\ j + 1 # 1 /\ j + 1 - 1 = j
    BY <1>1
<1>4. 1 \in 1 .. Len(c) + 1
    BY <1>1
<1>5. Push(n, c) \in [1 .. Len(c) + 1 -> Node]
    BY <1>1, <1>2 DEF Push
<1>6. Push(n, c) \in Seq(Node) /\ Len(Push(n, c)) = Len(c) + 1
    BY <1>1, <1>5
<1> QED BY <1>1, <1>2, <1>3, <1>4, <1>6 DEF Push

LEMMA DropIsList ==
    ASSUME NEW c \in Seq(Node), NEW i \in 1 .. Len(c)
    PROVE  /\ Len(c) \in Nat /\ Drop(c, i) \in Seq(Node) /\ Len(Drop(c, i)) = Len(c) - 1
           /\ \A j \in 1 .. Len(c) - 1 : /\ j < i => Drop(c, i)[j] = c[j] /\ j \in 1 .. Len(c)
                                         /\ j >= i => Drop(c, i)[j] = c[j + 1] /\ j + 1 \in 1 .. Len(c)
<1>1. Len(c) \in Nat /\ \A j \in 1 .. Len(c) : c[j] \in Node
    OBVIOUS
<1>2. \A j \in 1 .. Len(c) - 1 : j \in 1 .. Len(c) /\ j + 1 \in 1 .. Len(c) /\ (j >= i <=> ~(j < i))
    BY <1>1
<1>3. Drop(c, i) \in [1 .. Len(c) - 1 -> Node]
    BY <1>1, <1>2 DEF Drop
<1>4. Drop(c, i) \in Seq(Node) /\ Len(Drop(c, i)) = Len(c) - 1
    <2>1. Len(c) - 1 \in Nat
        BY <1>1
    <2> QED BY <1>3, <2>1
<1> QED BY <1>1, <1>2, <1>4 DEF Drop

\* The empty list is the one without a first node.
LEMMA FirstOfChain ==
    ASSUME NEW f, NEW n, NEW c, Chain(f, n, c)
    PROVE  /\ Len(c) \in Nat /\ c \in Seq(Node) /\ \A j \in 1 .. Len(c) : c[j] \in Node /\ c[j] # NULL
           /\ n = NULL <=> Len(c) = 0
<1>1. Len(c) \in Nat /\ c \in Seq(Node) /\ \A j \in 1 .. Len(c) : c[j] \in Node
    BY DEF Chain
<1>2. NULL \notin Node
    BY TypingAssumption DEF NULL, Node
<1>3. Len(c) # 0 => 1 \in 1 .. Len(c)
    BY <1>1
<1> QED BY <1>1, <1>2, <1>3 DEF Chain

\* create_new_letter takes the first free node, and puts it in front.
LEMMA CreateShape ==
    ASSUME NEW f \in Fly, NEW c, NEW d, Shape(f, c, d), CanAllocate(f), NEW ch \in Letters,
           NEW g, g = CreateNewLetter(f, ch), NEW n, n = NewNode(f)
    PROVE  /\ g \in Fly /\ n \in Node /\ c \in Seq(Node) /\ \A j \in 1 .. Len(c) : c[j] # n
           /\ g.x = [f.x EXCEPT ![n] = 0] /\ g.v = [f.v EXCEPT ![n] = 1] /\ g.head = n
           /\ \E e \in Seq(Node) : Shape(g, Push(n, c), e)
<1>1. /\ c \in Seq(Node) /\ d \in Seq(Node) /\ Len(c) \in Nat /\ Len(d) \in Nat
      /\ f.free_head = NULL <=> Len(d) = 0
      /\ f.head = NULL <=> Len(c) = 0
      /\ \A j \in 1 .. Len(c) : c[j] \in Node
      /\ \A j \in 1 .. Len(d) : d[j] \in Node
    BY FirstOfChain DEF Shape
<1>2. SIZE \in Nat \ {0} /\ Node \subseteq Int /\ SIZE \in Node /\ 0 \in Node /\ NULL \notin Node
    BY TypingAssumption DEF Node, NULL
<1>3. /\ f.next \in [Node -> Link] /\ f.prev \in [Node -> Link] /\ f.head \in Link
    BY FlyFields
<1> DEFINE lp == LinkedPool(f)
           b == Push(n, c)
<1>4. CASE Len(d) = 0
    <2>1. n = 0 /\ Len(c) = 0 /\ f.next[SIZE] = NULL /\ f.head = NULL
        BY <1>1, <1>4 DEF Shape, NewNode
    <2>2. lp = [m \in Node |-> IF m < SIZE THEN m + 1 ELSE f.next[m]]
        BY <1>1, <1>4 DEF LinkedPool
    <2>3. \A m \in Node : IF m < SIZE THEN m + 1 \in Node ELSE m = SIZE
        BY <1>2 DEF Node
    <2>4. lp \in [Node -> Link]
        BY <1>3, <2>2, <2>3 DEF Link
    <2>5. /\ g \in Fly /\ g.next = [lp EXCEPT ![n] = NULL] /\ g.free_head = lp[n] /\ g.head = n
          /\ g.prev = [m \in Node |-> IF m = NULL THEN n ELSE IF m = n THEN NULL ELSE f.prev[m]]
          /\ g.x = [f.x EXCEPT ![n] = 0] /\ g.v = [f.v EXCEPT ![n] = 1]
        BY <1>2, <2>1, <2>4, CreateFields
    <2> DEFINE e == [j \in 1 .. SIZE |-> j]
    <2>6. e \in Seq(Node) /\ Len(e) = SIZE /\ \A j \in 1 .. SIZE : e[j] = j
        <3>1. e \in [1 .. SIZE -> Node]
            BY <1>2 DEF Node
        <3> QED BY <1>2, <3>1
    <2>7. b \in Seq(Node) /\ Len(b) = 1 /\ b[1] = 0 /\ \A j \in 1 .. Len(b) : j = 1
        <3>1. b \in Seq(Node) /\ Len(b) = Len(c) + 1 /\ b[1] = 0
            <4>1. n \in Node /\ c \in Seq(Node)
                BY <1>1, <1>2, <2>1
            <4>2. b \in Seq(Node) /\ Len(b) = Len(c) + 1 /\ b[1] = n
                <5> HIDE DEF lp, e
                <5> QED BY <4>1, PushIsList DEF b
            <4> QED BY <2>1, <4>2
        <3> HIDE DEF b
        <3>2. Len(b) = 1
            BY <2>1, <3>1
        <3>3. \A j \in 1 .. Len(b) : j = 1
            BY <3>2
        <3> QED BY <3>1, <3>2, <3>3
    <2>8. /\ g.next[0] = NULL /\ g.prev[0] = NULL /\ g.free_head = 1 /\ g.head = 0
          /\ \A j \in 1 .. SIZE : g.next[j] = IF j = SIZE THEN NULL ELSE j + 1
        <3>1. \A j \in 1 .. SIZE : j \in Node /\ j # 0
            BY <1>2 DEF Node
        <3>2. \A j \in 1 .. SIZE : j # SIZE <=> j < SIZE
            BY <1>2
        <3>3. lp[0] = 0 + 1
            BY <1>2, <2>2
        <3> HIDE DEF lp
        <3>4. g.next[0] = NULL /\ g.prev[0] = NULL /\ g.free_head = 1 /\ g.head = 0
            BY <1>2, <2>1, <2>4, <2>5, <3>3
        <3>5. \A j \in 1 .. SIZE : g.next[j] = lp[j]
            BY <2>1, <2>4, <2>5, <3>1
        <3>6. \A j \in 1 .. SIZE : lp[j] = IF j = SIZE THEN NULL ELSE j + 1
            BY <2>1, <2>2, <3>1, <3>2
        <3> QED BY <3>4, <3>5, <3>6
    <2> HIDE DEF e, b
    <2>9. Chain(g, g.head, b)
        BY <2>7, <2>8 DEF Chain
    <2>10. Chain(g, g.free_head, e)
        BY <1>2, <2>6, <2>8 DEF Chain
    <2>11. \A m \in Node : m = 0 \/ m \in 1 .. SIZE
        BY <1>2 DEF Node
    <2>12. Shape(g, b, e)
        <3>1. \A j, k \in 1 .. Len(b) : b[j] = b[k] => j = k
            BY <2>7
        <3>2. \A j, k \in 1 .. Len(e) : e[j] = e[k] => j = k
            BY <2>6
        <3>3. \A j \in 1 .. Len(b), k \in 1 .. Len(e) : b[j] # e[k]
            BY <1>2, <2>6, <2>7
        <3>4. \A j \in 1 .. Len(b) : g.prev[b[j]] = IF j = 1 THEN NULL ELSE b[j - 1]
            BY <2>7, <2>8
        <3>5. Len(e) # 0 /\ Len(b) + Len(e) = SIZE + 1
            BY <1>2, <2>6, <2>7
        <3>6. \A m \in Node : (\E j \in 1 .. Len(b) : m = b[j]) \/ (\E j \in 1 .. Len(e) : m = e[j])
            BY <2>6, <2>7, <2>11
        <3> QED BY <2>9, <2>10, <3>1, <3>2, <3>3, <3>4, <3>5, <3>6 DEF Shape
    <2>13. \A j \in 1 .. Len(c) : c[j] # n
        BY <2>1
    <2> QED BY <1>1, <1>2, <2>1, <2>5, <2>6, <2>12, <2>13 DEF b
<1>5. CASE Len(d) # 0
    <2>1. 1 \in 1 .. Len(d) /\ f.free_head = d[1] /\ n = d[1] /\ n \in Node
        BY <1>1, <1>5 DEF Shape, Chain, NewNode
    <2>2. Len(d) >= 2 /\ 2 \in 1 .. Len(d) /\ f.next[n] = d[2]
        <3>1. f.next[n] # NULL
            BY <1>1, <1>5, <2>1 DEF CanAllocate
        <3>2. f.next[d[1]] = IF 1 = Len(d) THEN NULL ELSE d[1 + 1]
            BY <2>1 DEF Shape, Chain
        <3>3. Len(d) # 1 /\ f.next[n] = d[1 + 1]
            BY <2>1, <3>1, <3>2
        <3>4. Len(d) >= 2 /\ 2 \in 1 .. Len(d) /\ 1 + 1 = 2
            <4>1. \A k \in Nat : k # 0 /\ k # 1 => k >= 2 /\ 2 \in 1 .. k
                OBVIOUS
            <4>2. 1 + 1 = 2
                OBVIOUS
            <4>3. Len(d) \in Nat /\ Len(d) # 0 /\ Len(d) # 1
                BY <1>1, <1>5, <3>3
            <4> QED BY <4>1, <4>2, <4>3
        <3> QED BY <3>3, <3>4
    <2>3. lp = f.next
        BY <1>1, <1>5 DEF LinkedPool
    <2>4. /\ g \in Fly /\ g.next = [f.next EXCEPT ![n] = f.head] /\ g.free_head = d[2] /\ g.head = n
          /\ g.prev = [m \in Node |-> IF m = f.head THEN n ELSE IF m = n THEN NULL ELSE f.prev[m]]
          /\ g.x = [f.x EXCEPT ![n] = 0] /\ g.v = [f.v EXCEPT ![n] = 1]
        <3> HIDE DEF lp
        <3>1. NewNode(f) \in Node /\ LinkedPool(f) \in [Node -> Link]
            BY <1>3, <2>1, <2>3 DEF lp
        <3> QED BY <2>2, <2>3, <3>1, CreateFields DEF lp
    <2>5. \A j \in 1 .. Len(c) : c[j] # n
        BY <2>1 DEF Shape
    <2>6. \A k \in 1 .. Len(d) : k # 1 => d[k] # n
        BY <2>1 DEF Shape
    <2> DEFINE e == [j \in 1 .. Len(d) - 1 |-> d[j + 1]]
               N == Len(c)
               F == Len(d)
    <2>7. /\ e \in Seq(Node) /\ Len(e) = F - 1
          /\ \A j \in 1 .. F - 1 : j + 1 \in 1 .. F /\ j + 1 # 1 /\ e[j] = d[j + 1]
        <3>1. F - 1 \in Nat /\ \A j \in 1 .. F - 1 : j + 1 \in 1 .. F /\ j + 1 # 1
            BY <1>1, <2>2
        <3>2. e \in [1 .. F - 1 -> Node]
            BY <1>1, <3>1
        <3>3. e \in Seq(Node) /\ Len(e) = F - 1
            <4> HIDE DEF e, F
            <4> QED BY <3>1, <3>2
        <3> QED BY <3>1, <3>3
    <2>8. /\ b \in Seq(Node) /\ Len(b) = N + 1 /\ b[1] = n
          /\ \A j \in 1 .. N : j + 1 \in 1 .. N + 1 /\ b[j + 1] = c[j]
          /\ \A j \in 1 .. N + 1 : j = 1 \/ (j - 1 \in 1 .. N /\ b[j] = c[j - 1])
        BY <1>1, <2>1, PushIsList
    <2> HIDE DEF e, b, lp
    <2>9. Chain(g, g.head, b)
        <3>1. ASSUME NEW j \in 1 .. N + 1
              PROVE  g.next[b[j]] = IF j = N + 1 THEN NULL ELSE b[j + 1]
            <4>1. CASE j = 1
                <5>1. g.next[b[j]] = f.head
                    BY <1>3, <2>1, <2>4, <2>8, <4>1
                <5>2. CASE N = 0
                    BY <1>1, <4>1, <5>1, <5>2
                <5>3. CASE N # 0
                    <6>1. 1 \in 1 .. N /\ j # N + 1 /\ f.head = c[1]
                        BY <1>1, <4>1, <5>3 DEF Shape, Chain
                    <6> QED BY <2>8, <4>1, <5>1, <6>1
                <5> QED BY <5>2, <5>3
            <4>2. CASE j # 1
                <5>1. j - 1 \in 1 .. N /\ b[j] = c[j - 1] /\ c[j - 1] \in Node /\ c[j - 1] # n
                    BY <1>1, <2>5, <2>8, <4>2
                <5>2. g.next[b[j]] = f.next[c[j - 1]]
                    BY <1>3, <2>4, <5>1
                <5>3. f.next[c[j - 1]] = IF j - 1 = N THEN NULL ELSE c[j - 1 + 1]
                    BY <5>1 DEF Shape, Chain
                <5>4. CASE j = N + 1
                    BY <1>1, <5>2, <5>3, <5>4
                <5>5. CASE j # N + 1
                    <6>1. j - 1 # N /\ j - 1 + 1 = j /\ j \in 1 .. N
                        BY <1>1, <5>5
                    <6> QED BY <2>8, <5>2, <5>3, <5>5, <6>1
                <5> QED BY <5>4, <5>5
            <4> QED BY <4>1, <4>2
        <3>2. N + 1 # 0
            BY <1>1
        <3> QED BY <2>4, <2>8, <3>1, <3>2 DEF Chain
    <2>10. Chain(g, g.free_head, e)
        <3>1. ASSUME NEW j \in 1 .. F - 1
              PROVE  g.next[e[j]] = IF j = F - 1 THEN NULL ELSE e[j + 1]
            <4>1. /\ j + 1 \in 1 .. F /\ e[j] = d[j + 1] /\ d[j + 1] \in Node /\ d[j + 1] # n
                BY <1>1, <2>6, <2>7
            <4>2. g.next[e[j]] = f.next[d[j + 1]]
                BY <1>3, <2>4, <4>1
            <4>3. f.next[d[j + 1]] = IF j + 1 = F THEN NULL ELSE d[j + 1 + 1]
                BY <4>1 DEF Shape, Chain
            <4>4. CASE j = F - 1
                BY <1>1, <4>2, <4>3, <4>4
            <4>5. CASE j # F - 1
                <5>1. j + 1 # F /\ j + 1 \in 1 .. F - 1
                    BY <1>1, <4>5
                <5> QED BY <2>7, <4>2, <4>3, <4>5, <5>1
            <4> QED BY <4>4, <4>5
        <3>2. F - 1 # 0 /\ 1 \in 1 .. F - 1 /\ 1 + 1 = 2
            BY <1>1, <2>2
        <3>3. g.free_head = e[1]
            BY <2>4, <2>7, <3>2
        <3> QED BY <2>7, <3>1, <3>2, <3>3 DEF Chain
    <2>11. Shape(g, b, e)
        <3>1. \A j, k \in 1 .. Len(b) : b[j] = b[k] => j = k
            <4> SUFFICES ASSUME NEW j \in 1 .. N + 1, NEW k \in 1 .. N + 1, b[j] = b[k] PROVE j = k
                BY <2>8
            <4>1. CASE j = 1 \/ k = 1
                BY <2>5, <2>8, <4>1
            <4>2. CASE j # 1 /\ k # 1
                <5>1. j - 1 \in 1 .. N /\ k - 1 \in 1 .. N /\ c[j - 1] = c[k - 1]
                    BY <2>8, <4>2
                <5>2. j - 1 = k - 1
                    BY <5>1 DEF Shape
                <5> QED BY <1>1, <5>2
            <4> QED BY <4>1, <4>2
        <3>2. \A j, k \in 1 .. Len(e) : e[j] = e[k] => j = k
            <4> SUFFICES ASSUME NEW j \in 1 .. F - 1, NEW k \in 1 .. F - 1, e[j] = e[k] PROVE j = k
                BY <2>7
            <4>1. j + 1 = k + 1
                BY <2>7 DEF Shape
            <4> QED BY <1>1, <4>1
        <3>3. \A j \in 1 .. Len(b), k \in 1 .. Len(e) : b[j] # e[k]
            <4> SUFFICES ASSUME NEW j \in 1 .. N + 1, NEW k \in 1 .. F - 1 PROVE b[j] # e[k]
                BY <2>7, <2>8
            <4>1. k + 1 \in 1 .. F /\ e[k] = d[k + 1] /\ d[k + 1] # n
                BY <2>6, <2>7
            <4>2. j # 1 => j - 1 \in 1 .. N /\ b[j] = c[j - 1]
                BY <2>8
            <4>3. j # 1 => c[j - 1] # d[k + 1]
                BY <4>1, <4>2 DEF Shape
            <4> QED BY <2>8, <4>1, <4>2, <4>3
        <3>4. \A j \in 1 .. Len(b) : g.prev[b[j]] = IF j = 1 THEN NULL ELSE b[j - 1]
            <4> SUFFICES ASSUME NEW j \in 1 .. N + 1
                         PROVE  g.prev[b[j]] = IF j = 1 THEN NULL ELSE b[j - 1]
                BY <2>8
            <4>1. f.head # n
                <5>1. CASE N = 0
                    BY <1>1, <1>2, <2>1, <5>1
                <5>2. CASE N # 0
                    <6>1. 1 \in 1 .. N /\ f.head = c[1]
                        BY <1>1, <5>2 DEF Shape, Chain
                    <6> QED BY <2>5, <6>1
                <5> QED BY <5>1, <5>2
            <4>2. CASE j = 1
                BY <2>1, <2>4, <2>8, <4>1, <4>2
            <4>3. CASE j # 1
                <5>1. j - 1 \in 1 .. N /\ b[j] = c[j - 1] /\ c[j - 1] \in Node /\ c[j - 1] # n
                    BY <1>1, <2>5, <2>8, <4>3
                <5>2. CASE j = 2
                    <6>1. j - 1 = 1 /\ f.head = c[1]
                        BY <1>1, <5>1, <5>2 DEF Shape, Chain
                    <6> QED BY <2>4, <2>8, <4>3, <5>1, <6>1
                <5>3. CASE j # 2
                    <6>1. 1 \in 1 .. N /\ j - 1 # 1 /\ j - 1 - 1 \in 1 .. N /\ j - 1 - 1 + 1 = j - 1
                        BY <1>1, <4>3, <5>1, <5>3
                    <6>2. f.head = c[1] /\ c[j - 1] # c[1]
                        BY <1>1, <5>1, <6>1 DEF Shape, Chain
                    <6>3. g.prev[c[j - 1]] = f.prev[c[j - 1]]
                        BY <2>4, <5>1, <6>2
                    <6>4. f.prev[c[j - 1]] = c[j - 1 - 1]
                        BY <5>1, <6>1 DEF Shape
                    <6>5. b[j - 1] = c[j - 1 - 1]
                        BY <2>8, <6>1
                    <6> QED BY <4>3, <5>1, <6>3, <6>4, <6>5
                <5> QED BY <5>2, <5>3
            <4> QED BY <4>2, <4>3
        <3>5. Len(e) # 0 /\ Len(b) + Len(e) = SIZE + 1
            <4>1. N + F = SIZE + 1
                BY <1>5 DEF Shape
            <4>2. N \in Nat /\ F \in Nat /\ F >= 2
                BY <1>1, <2>2
            <4> HIDE DEF N, F
            <4> QED BY <1>2, <2>7, <2>8, <4>1, <4>2
        <3>6. ASSUME NEW m \in Node
              PROVE  (\E j \in 1 .. Len(b) : m = b[j]) \/ (\E j \in 1 .. Len(e) : m = e[j])
            <4>1. (\E j \in 1 .. N : m = c[j]) \/ (\E j \in 1 .. F : m = d[j])
                BY <1>5 DEF Shape
            <4>2. CASE \E j \in 1 .. N : m = c[j]
                BY <2>8, <4>2
            <4>3. CASE \E j \in 1 .. F : m = d[j]
                <5>1. PICK j \in 1 .. F : m = d[j]
                    BY <4>3
                <5>2. CASE j = 1
                    <6>1. 1 \in 1 .. N + 1
                        BY <1>1
                    <6> QED BY <2>1, <2>8, <5>1, <5>2, <6>1
                <5>3. CASE j # 1
                    <6>1. j - 1 \in 1 .. F - 1 /\ j - 1 + 1 = j
                        BY <1>1, <5>3
                    <6> QED BY <2>7, <5>1, <6>1
                <5> QED BY <5>2, <5>3
            <4> QED BY <4>1, <4>2, <4>3
        <3> QED BY <2>9, <2>10, <3>1, <3>2, <3>3, <3>4, <3>5, <3>6 DEF Shape
    <2> QED BY <1>1, <2>1, <2>4, <2>5, <2>7, <2>11 DEF b
<1> QED BY <1>4, <1>5

\* update_letter_pos takes a letter out of its list, and puts its node in front of the
\* free ones.
LEMMA RemoveShape ==
    ASSUME NEW f \in Fly, NEW c, NEW d, Shape(f, c, d), NEW i \in 1 .. Len(c), NEW n, n = c[i],
           NEW y, y = f.x[n] + f.v[n], y \notin 0 .. HEIGHT, y \in -UP .. HEIGHT + 1,
           NEW g, g = UpdateLetter(f, n)
    PROVE  /\ g \in Fly /\ g.x = [f.x EXCEPT ![n] = y] /\ g.v = f.v
           /\ Shape(g, Drop(c, i), Push(n, d)) /\ Push(n, d) \in Seq(Node)
<1> DEFINE N == Len(c)
           F == Len(d)
           a == Drop(c, i)
           e == Push(n, d)
           p == f.prev[n]
           q == f.next[n]
<1>1. /\ c \in Seq(Node) /\ d \in Seq(Node) /\ N \in Nat /\ F \in Nat
      /\ f.free_head = NULL <=> F = 0
      /\ \A j \in 1 .. N : c[j] \in Node
      /\ \A j \in 1 .. F : d[j] \in Node
    BY FirstOfChain DEF Shape
<1>2. SIZE \in Nat \ {0} /\ NULL \notin Node
    BY TypingAssumption DEF Node, NULL
<1>3. /\ f.next \in [Node -> Link] /\ f.prev \in [Node -> Link] /\ f.head \in Link
    BY FlyFields
<1>4. n \in Node /\ i \in 1 .. N
    BY <1>1
<1>5. N # 0 /\ F # 0 /\ N + F = SIZE + 1 /\ 1 \in 1 .. N /\ 1 \in 1 .. F
    <2>1. N # 0
        BY <1>1, <1>4
    <2>2. F # 0
        BY <2>1 DEF Shape
    <2>3. N + F = SIZE + 1
        BY <2>2 DEF Shape
    <2> HIDE DEF N, F
    <2> QED BY <1>1, <2>1, <2>2, <2>3
<1>6. f.head = c[1] /\ f.free_head = d[1]
    BY <1>5 DEF Shape, Chain
<1>7. /\ \A j, k \in 1 .. N : c[j] = c[k] => j = k
      /\ \A j, k \in 1 .. F : d[j] = d[k] => j = k
      /\ \A j \in 1 .. N, k \in 1 .. F : c[j] # d[k]
      /\ \A j \in 1 .. N : f.prev[c[j]] = IF j = 1 THEN NULL ELSE c[j - 1]
      /\ \A j \in 1 .. N : f.next[c[j]] = IF j = N THEN NULL ELSE c[j + 1]
      /\ \A j \in 1 .. F : f.next[d[j]] = IF j = F THEN NULL ELSE d[j + 1]
    BY DEF Shape, Chain
<1>8. \A m \in Node : (\E j \in 1 .. N : m = c[j]) \/ (\E j \in 1 .. F : m = d[j])
    BY <1>5 DEF Shape
<1>9. /\ g \in Fly
      /\ g.next = [m \in Node |-> IF m = n THEN f.free_head
                                  ELSE IF m = p THEN q ELSE f.next[m]]
      /\ g.prev = [m \in Node |-> IF m = q THEN p ELSE f.prev[m]]
      /\ g.free_head = n /\ g.head = IF n = f.head THEN q ELSE f.head
      /\ g.x = [f.x EXCEPT ![n] = y] /\ g.v = f.v
    <2> HIDE DEF N, F, a, e, p, q
    <2>1. n \in Node
        BY <1>4
    <2>2. /\ g \in Fly
          /\ g.next = [m \in Node |-> IF m = n THEN f.free_head
                                      ELSE IF m = f.prev[n] THEN f.next[n] ELSE f.next[m]]
          /\ g.prev = [m \in Node |-> IF m = f.next[n] THEN f.prev[n] ELSE f.prev[m]]
          /\ g.free_head = n /\ g.head = IF n = f.head THEN f.next[n] ELSE f.head
          /\ g.x = [f.x EXCEPT ![n] = y] /\ g.v = f.v
        BY <2>1, RemoveFields
    <2> QED BY <2>2, Zenon DEF p, q
<1>10. /\ a \in Seq(Node) /\ Len(a) = N - 1
       /\ \A j \in 1 .. N - 1 : /\ j < i => a[j] = c[j] /\ j \in 1 .. N
                                /\ j >= i => a[j] = c[j + 1] /\ j + 1 \in 1 .. N
    BY <1>1, DropIsList
<1>11. /\ e \in Seq(Node) /\ Len(e) = F + 1 /\ e[1] = n
       /\ \A j \in 1 .. F : j + 1 \in 1 .. F + 1 /\ e[j + 1] = d[j]
       /\ \A j \in 1 .. F + 1 : j = 1 \/ (j - 1 \in 1 .. F /\ e[j] = d[j - 1])
    BY <1>1, <1>4, PushIsList, ZenonT(30)
<1>12. p = (IF i = 1 THEN NULL ELSE c[i - 1]) /\ q = (IF i = N THEN NULL ELSE c[i + 1])
    BY <1>7
<1>13. (i # 1 => i - 1 \in 1 .. N) /\ (i # N => i + 1 \in 1 .. N)
    BY <1>1
<1> HIDE DEF N, F, a, e, p, q
<1>14. \A k \in 1 .. N : k # i => g.next[c[k]] = IF k = i - 1 THEN q ELSE f.next[c[k]]
    <2> SUFFICES ASSUME NEW k \in 1 .. N, k # i
                 PROVE  g.next[c[k]] = IF k = i - 1 THEN q ELSE f.next[c[k]]
        OBVIOUS
    <2>1. c[k] \in Node /\ c[k] # n
        BY <1>1, <1>4, <1>7
    <2>2. c[k] = p <=> k = i - 1
        <3>1. i = 1 => k # i - 1
            BY <1>1
        <3> QED BY <1>2, <1>7, <1>12, <1>13, <2>1, <3>1
    <2> QED BY <1>9, <2>1, <2>2
<1>15. \A k \in 1 .. N : g.prev[c[k]] = IF k = i + 1 THEN p ELSE f.prev[c[k]]
    <2> SUFFICES ASSUME NEW k \in 1 .. N
                 PROVE  g.prev[c[k]] = IF k = i + 1 THEN p ELSE f.prev[c[k]]
        OBVIOUS
    <2>1. c[k] \in Node
        BY <1>1
    <2>2. c[k] = q <=> k = i + 1
        <3>1. i = N => k # i + 1
            BY <1>1
        <3> QED BY <1>2, <1>7, <1>12, <1>13, <2>1, <3>1
    <2> QED BY <1>9, <2>1, <2>2
<1>16. \A k \in 1 .. F : g.next[d[k]] = f.next[d[k]]
    <2> SUFFICES ASSUME NEW k \in 1 .. F PROVE g.next[d[k]] = f.next[d[k]]
        OBVIOUS
    <2>1. d[k] \in Node /\ d[k] # n
        BY <1>1, <1>4, <1>7
    <2>2. d[k] # p
        BY <1>2, <1>7, <1>12, <1>13, <2>1
    <2> QED BY <1>9, <2>1, <2>2
<1>17. g.next[n] = d[1] /\ g.free_head = n
    BY <1>4, <1>6, <1>9
<1>18. g.head = IF i = 1 THEN q ELSE c[1]
    <2>1. n = f.head <=> i = 1
        BY <1>4, <1>5, <1>6, <1>7
    <2> QED BY <1>6, <1>9, <2>1
<1>19. Chain(g, g.head, a)
    <2>1. g.head = IF N - 1 = 0 THEN NULL ELSE a[1]
        <3>1. CASE N = 1
            <4>1. i = 1 /\ N - 1 = 0
                BY <1>4, <3>1
            <4> QED BY <1>12, <1>18, <3>1, <4>1
        <3>2. CASE N # 1
            <4>1. N - 1 # 0 /\ 1 \in 1 .. N - 1 /\ (1 < i <=> i # 1) /\ (1 >= i <=> i = 1)
                BY <1>1, <1>4, <1>5, <3>2
            <4>2. CASE i = 1
                BY <1>10, <1>12, <1>18, <3>2, <4>1, <4>2
            <4>3. CASE i # 1
                BY <1>10, <1>18, <4>1, <4>3
            <4> QED BY <4>2, <4>3
        <3> QED BY <3>1, <3>2
    <2>2. ASSUME NEW j \in 1 .. N - 1
          PROVE  g.next[a[j]] = IF j = N - 1 THEN NULL ELSE a[j + 1]
        <3>1. CASE j = i - 1
            <4>1. j < i /\ j \in 1 .. N /\ j # i /\ (j = N - 1 <=> i = N) /\ j + 1 = i
                BY <1>1, <1>4, <3>1
            <4>2. a[j] = c[j] /\ g.next[a[j]] = q
                BY <1>10, <1>14, <3>1, <4>1
            <4>3. CASE i = N
                BY <1>12, <4>1, <4>2, <4>3
            <4>4. CASE i # N
                <5>1. i \in 1 .. N - 1 /\ i >= i
                    BY <1>1, <1>4, <4>4
                <5>2. a[i] = c[i + 1]
                    BY <1>10, <5>1
                <5> QED BY <1>12, <4>1, <4>2, <4>4, <5>2
            <4> QED BY <4>3, <4>4
        <3>2. CASE j < i - 1
            <4>1. /\ j < i /\ j \in 1 .. N /\ j # i /\ j # N - 1 /\ j # i - 1 /\ j # N
                  /\ j + 1 < i /\ j + 1 \in 1 .. N - 1
                BY <1>1, <1>4, <3>2
            <4>2. a[j] = c[j] /\ a[j + 1] = c[j + 1]
                BY <1>10, <4>1
            <4>3. g.next[c[j]] = f.next[c[j]]
                BY <1>14, <4>1
            <4> QED BY <1>7, <4>1, <4>2, <4>3
        <3>3. CASE j >= i
            <4>1. /\ j + 1 \in 1 .. N /\ j + 1 # i /\ j + 1 # i - 1 /\ (j = N - 1 <=> j + 1 = N)
                  /\ j # N - 1 => j + 1 \in 1 .. N - 1 /\ j + 1 >= i
                <5>1. N \in Nat /\ i \in 1 .. N /\ j \in 1 .. N - 1
                    BY <1>1, <1>4
                <5>2. j + 1 \in 1 .. N /\ j + 1 # i /\ j + 1 # i - 1
                    BY <3>3, <5>1
                <5>3. j = N - 1 <=> j + 1 = N
                    BY <5>1
                <5>4. j # N - 1 => j + 1 \in 1 .. N - 1 /\ j + 1 >= i
                    BY <3>3, <5>1
                <5> QED BY <5>2, <5>3, <5>4
            <4>2. a[j] = c[j + 1] /\ (j # N - 1 => a[j + 1] = c[j + 1 + 1])
                BY <1>10, <3>3, <4>1
            <4>3. g.next[c[j + 1]] = f.next[c[j + 1]]
                BY <1>14, <4>1
            <4>4. f.next[c[j + 1]] = IF j + 1 = N THEN NULL ELSE c[j + 1 + 1]
                BY <1>7, <4>1
            <4> QED BY <4>1, <4>2, <4>3, <4>4
        <3> QED BY <1>1, <1>4, <3>1, <3>2, <3>3
    <2> QED BY <1>10, <2>1, <2>2 DEF Chain
<1>20. Chain(g, g.free_head, e)
    <2>1. ASSUME NEW j \in 1 .. F + 1
          PROVE  g.next[e[j]] = IF j = F + 1 THEN NULL ELSE e[j + 1]
        <3>1. CASE j = 1
            <4>1. j # F + 1 /\ 1 + 1 = 2
                BY <1>1, <1>5, <3>1
            <4>2. e[1 + 1] = d[1]
                BY <1>5, <1>11
            <4> QED BY <1>11, <1>17, <3>1, <4>1, <4>2
        <3>2. CASE j # 1
            <4>1. PICK k \in 1 .. F : j = k + 1
                <5>1. j - 1 \in 1 .. F /\ j = j - 1 + 1
                    BY <1>1, <3>2
                <5> QED BY <5>1
            <4>2. e[j] = d[k] /\ (k = F <=> j = F + 1)
                BY <1>1, <1>11, <4>1
            <4>3. g.next[e[j]] = IF k = F THEN NULL ELSE d[k + 1]
                BY <1>7, <1>16, <4>2
            <4>4. k # F => e[j + 1] = d[k + 1]
                <5>1. k # F => k + 1 \in 1 .. F
                    BY <1>1
                <5> QED BY <1>11, <4>1, <5>1
            <4> QED BY <4>2, <4>3, <4>4
        <3> QED BY <3>1, <3>2
    <2>2. F + 1 # 0
        BY <1>1
    <2> QED BY <1>11, <1>17, <2>1, <2>2 DEF Chain
<1> DEFINE Old(j) == IF j < i THEN j ELSE j + 1
<1>21. \A j \in 1 .. N - 1 : a[j] = c[Old(j)] /\ Old(j) \in 1 .. N /\ Old(j) # i
    <2>1. \A j \in 1 .. N - 1 : (j < i => j # i) /\ (~(j < i) => j >= i /\ j + 1 # i)
        BY <1>1, <1>4
    <2> QED BY <1>10, <2>1
<1>22. \A j, k \in 1 .. N - 1 : Old(j) = Old(k) => j = k
    BY <1>1, <1>4
<1>23. \A j \in 1 .. N - 1 : a[j] # n
    <2> HIDE DEF Old
    <2> QED BY <1>4, <1>7, <1>21
<1>24. Shape(g, a, e)
    <2>1. \A j, k \in 1 .. Len(a) : a[j] = a[k] => j = k
        <3> HIDE DEF Old
        <3>1. \A j, k \in 1 .. N - 1 : a[j] = a[k] => j = k
            BY <1>7, <1>21, <1>22
        <3> QED BY <1>10, <3>1
    <2>2. \A j, k \in 1 .. Len(e) : e[j] = e[k] => j = k
        <3> SUFFICES ASSUME NEW j \in 1 .. F + 1, NEW k \in 1 .. F + 1, e[j] = e[k] PROVE j = k
            BY <1>11
        <3>1. \A m \in 1 .. F : d[m] # n
            BY <1>4, <1>7
        <3>2. CASE j = 1 \/ k = 1
            BY <1>11, <3>1, <3>2
        <3>3. CASE j # 1 /\ k # 1
            <4>1. j - 1 \in 1 .. F /\ k - 1 \in 1 .. F /\ d[j - 1] = d[k - 1]
                BY <1>11, <3>3
            <4>2. j - 1 = k - 1
                BY <1>7, <4>1
            <4> QED BY <1>1, <4>2
        <3> QED BY <3>2, <3>3
    <2>3. \A j \in 1 .. Len(a), k \in 1 .. Len(e) : a[j] # e[k]
        <3> HIDE DEF Old
        <3>1. \A j \in 1 .. N - 1, k \in 1 .. F : a[j] # d[k]
            BY <1>7, <1>21
        <3> SUFFICES ASSUME NEW j \in 1 .. N - 1, NEW k \in 1 .. F + 1 PROVE a[j] # e[k]
            BY <1>10, <1>11
        <3>2. k = 1 \/ (k - 1 \in 1 .. F /\ e[k] = d[k - 1])
            BY <1>11
        <3> QED BY <1>11, <1>23, <3>1, <3>2
    <2>4. \A j \in 1 .. Len(a) : g.prev[a[j]] = IF j = 1 THEN NULL ELSE a[j - 1]
        <3> SUFFICES ASSUME NEW j \in 1 .. N - 1
                     PROVE  g.prev[a[j]] = IF j = 1 THEN NULL ELSE a[j - 1]
            BY <1>10
        <3>1. CASE j < i
            <4>1. j \in 1 .. N /\ j # i + 1 /\ (j # 1 => j - 1 \in 1 .. N - 1 /\ j - 1 < i)
                BY <1>1, <1>4, <3>1
            <4>2. a[j] = c[j] /\ (j # 1 => a[j - 1] = c[j - 1])
                BY <1>10, <3>1, <4>1
            <4> QED BY <1>7, <1>15, <4>1, <4>2
        <3>2. CASE j = i
            <4>1. i + 1 \in 1 .. N /\ j >= i /\ (i # 1 => i - 1 \in 1 .. N - 1 /\ i - 1 < i)
                BY <1>1, <1>4, <3>2
            <4>2. a[j] = c[i + 1] /\ (i # 1 => a[i - 1] = c[i - 1])
                BY <1>10, <3>2, <4>1
            <4> QED BY <1>12, <1>15, <3>2, <4>1, <4>2
        <3>3. CASE j > i
            <4>1. PICK k \in 1 .. N - 1 : j = k + 1 /\ k >= i
                <5>1. j - 1 \in 1 .. N - 1 /\ j = j - 1 + 1 /\ j - 1 >= i
                    BY <1>1, <1>4, <3>3
                <5> QED BY <5>1
            <4>2. /\ j - 1 = k /\ j # 1 /\ j >= i /\ j + 1 \in 1 .. N /\ j + 1 # i + 1 /\ j + 1 # 1
                  /\ j + 1 - 1 = j
                BY <1>1, <1>4, <3>3, <4>1
            <4>3. a[j] = c[j + 1] /\ a[k] = c[j]
                BY <1>10, <4>1, <4>2
            <4>4. g.prev[c[j + 1]] = f.prev[c[j + 1]] /\ f.prev[c[j + 1]] = c[j + 1 - 1]
                BY <1>7, <1>15, <4>2
            <4> QED BY <4>2, <4>3, <4>4
        <3> QED BY <1>4, <3>1, <3>2, <3>3
    <2>5. Len(e) # 0 /\ Len(a) + Len(e) = SIZE + 1
        <3>1. N \in Nat /\ F \in Nat
            BY <1>1
        <3>2. F + 1 # 0 /\ N - 1 + (F + 1) = N + F
            BY <3>1
        <3> QED BY <1>5, <1>10, <1>11, <3>2
    <2>6. ASSUME NEW m \in Node
          PROVE  (\E j \in 1 .. Len(a) : m = a[j]) \/ (\E j \in 1 .. Len(e) : m = e[j])
        <3>1. CASE \E j \in 1 .. F : m = d[j]
            BY <1>11, <3>1
        <3>2. CASE m = n
            <4>1. 1 \in 1 .. F + 1
                BY <1>1
            <4> QED BY <1>11, <3>2, <4>1
        <3>3. CASE m # n /\ \E j \in 1 .. N : m = c[j]
            <4>1. PICK j \in 1 .. N : m = c[j]
                BY <3>3
            <4>2. j # i
                BY <1>4, <3>3, <4>1
            <4>3. CASE j < i
                <5>1. j \in 1 .. N - 1
                    BY <1>1, <1>4, <4>3
                <5> QED BY <1>10, <4>1, <4>3, <5>1
            <4>4. CASE j > i
                <5>1. PICK k \in 1 .. N - 1 : j = k + 1 /\ k >= i
                    <6>1. j - 1 \in 1 .. N - 1 /\ j = j - 1 + 1 /\ j - 1 >= i
                        BY <1>1, <1>4, <4>4
                    <6> QED BY <6>1
                <5> QED BY <1>10, <4>1, <5>1
            <4> QED BY <1>4, <4>2, <4>3, <4>4
        <3> QED BY <1>8, <3>1, <3>2, <3>3
    <2> QED BY <1>19, <1>20, <2>1, <2>2, <2>3, <2>4, <2>5, <2>6 DEF Shape
<1> QED BY <1>9, <1>11, <1>24 DEF a, e

-----------------------------------------------------------------------------
(* What a traversal of a list finds.                                       *)

LEMMA OneInFront ==
    ASSUME NEW m \in Node, NEW t \in Seq(Node)
    PROVE  /\ Len(t) \in Nat /\ <<m>> \o t \in Seq(Node) /\ Len(<<m>> \o t) = Len(t) + 1
           /\ (<<m>> \o t)[1] = m
           /\ \A j \in 1 .. Len(t) : (<<m>> \o t)[j + 1] = t[j]
<1>1. <<m>> \in Seq(Node) /\ Len(<<m>>) = 1 /\ <<m>>[1] = m
    OBVIOUS
<1>2. PICK s \in Seq(Node) : s = <<m>> /\ Len(s) = 1 /\ s[1] = m
    BY <1>1
<1>3. /\ s \o t \in Seq(Node) /\ Len(s \o t) = Len(s) + Len(t)
      /\ \A j \in 1 .. Len(s) + Len(t) :
            (s \o t)[j] = IF j <= Len(s) THEN s[j] ELSE t[j - Len(s)]
    BY ConcatProperties
<1>4. Len(t) \in Nat
    OBVIOUS
<1>5. Len(s) + Len(t) = Len(t) + 1 /\ 1 \in 1 .. Len(s) + Len(t) /\ 1 <= Len(s)
    BY <1>2, <1>4
<1>6. \A j \in 1 .. Len(t) : /\ j + 1 \in 1 .. Len(s) + Len(t) /\ ~(j + 1 <= Len(s))
                             /\ j + 1 - Len(s) = j
    BY <1>2, <1>4
<1>7. (s \o t)[1] = m
    BY <1>2, <1>3, <1>5
<1>8. \A j \in 1 .. Len(t) : (s \o t)[j + 1] = t[j]
    BY <1>3, <1>6
<1> QED BY <1>2, <1>3, <1>4, <1>5, <1>7, <1>8

\* Nodes visits the nodes of a list once each, in their order.
LEMMA NodesOfList ==
    ASSUME NEW f, f.next \in [Node -> Link], NEW n, NEW c, Chain(f, n, c), Len(c) <= SIZE + 2
    PROVE  Nodes(f, n) = c
<1> DEFINE K == SIZE + 2
           N == Len(c)
           S == [Link -> Seq(Node)]
           Step(h) == [m \in Link |-> IF m = NULL THEN <<>> ELSE <<m>> \o h[f.next[m]]]
           G == [k \in 1 .. K |-> [h \in S |-> Step(h)]]
           start == [m \in Link |-> <<>>]
           Fits(h) == h = [k \in 0 .. K |-> [m \in Link |->
                               IF m = NULL \/ k = 0 THEN <<>> ELSE <<m>> \o h[k - 1][f.next[m]]]]
<1>1. K \in Nat /\ N \in Nat /\ N <= K /\ NULL \notin Node /\ NULL \in Link
    BY TypingAssumption, FirstOfChain DEF Node, NULL, Link
<1>2. start \in S
    OBVIOUS
<1>3. ASSUME NEW h \in S PROVE Step(h) \in S
    <2>1. ASSUME NEW m \in Link, m # NULL PROVE <<m>> \o h[f.next[m]] \in Seq(Node)
        <3>1. m \in Node
            BY <2>1 DEF Link
        <3>2. h[f.next[m]] \in Seq(Node)
            BY <3>1
        <3> QED BY <3>1, <3>2, OneInFront
    <2> QED BY <2>1
<1> HIDE DEF K
<1>4. G \in [1 .. K -> [S -> S]]
    <2> HIDE DEF Step, S
    <2> QED BY <1>3
<1>5. PICK h \in [0 .. K -> S] : h[0] = start /\ \A k \in 1 .. K : h[k] = G[k][h[k - 1]]
    <2>1. K \in Nat
        BY <1>1
    <2> HIDE DEF G, S, start, Step, Fits, N
    <2> QED BY <2>1, <1>2, <1>4, Recursion
<1>6. Fits(h)
    <2>1. ASSUME NEW k \in 0 .. K
          PROVE  h[k] = [m \in Link |->
                            IF m = NULL \/ k = 0 THEN <<>> ELSE <<m>> \o h[k - 1][f.next[m]]]
        <3>1. CASE k = 0
            BY <1>5, <3>1
        <3>2. CASE k # 0
            <4>1. k \in 1 .. K /\ k - 1 \in 0 .. K
                BY <1>1, <3>2
            <4>2. h[k] = Step(h[k - 1])
                <5> HIDE DEF Step, S
                <5> QED BY <1>5, <4>1
            <4> QED BY <3>2, <4>2
        <3> QED BY <3>1, <3>2
    <2> QED BY <2>1
<1>7. PICK g : Fits(g) /\ Nodes(f, n) = g[K][n]
    <2> DEFINE g == CHOOSE q : Fits(q)
    <2>1. Fits(g)
        <3> HIDE DEF Fits
        <3> QED BY <1>6
    <2>2. Nodes(f, n) = g[K][n]
        BY DEF Nodes, K
    <2> HIDE DEF g, Fits
    <2> QED BY <2>1, <2>2
<1>8. \A k \in 0 .. K : g[k][NULL] = <<>>
    BY <1>1, <1>7
<1>9. \A k \in 0 .. K, m \in Node : k # 0 => g[k][m] = <<m>> \o g[k - 1][f.next[m]]
    <2> SUFFICES ASSUME NEW k \in 0 .. K, NEW m \in Node, k # 0
                 PROVE  g[k][m] = <<m>> \o g[k - 1][f.next[m]]
        OBVIOUS
    <2>1. g[k] = [q \in Link |->
                     IF q = NULL \/ k = 0 THEN <<>> ELSE <<q>> \o g[k - 1][f.next[q]]]
        BY <1>7
    <2>2. m \in Link /\ m # NULL
        BY <1>1 DEF Link
    <2> QED BY <2>1, <2>2
<1> HIDE DEF Fits, G, S, Step, start
<1> DEFINE Rest(i) == [j \in 1 .. N + 1 - i |-> c[i + j - 1]]
<1>10. c \in Seq(Node) /\ \A j \in 1 .. N : c[j] \in Node
    BY FirstOfChain
<1>11. ASSUME NEW i \in 1 .. N + 1
       PROVE  Rest(i) \in Seq(Node) /\ Len(Rest(i)) = N + 1 - i /\ \A j \in 1 .. N + 1 - i : Rest(i)[j] = c[i + j - 1]
    <2>1. N + 1 - i \in Nat /\ \A j \in 1 .. N + 1 - i : i + j - 1 \in 1 .. N
        BY <1>1
    <2>2. Rest(i) \in [1 .. N + 1 - i -> Node]
        BY <1>10, <2>1
    <2>3. \A j \in 1 .. N + 1 - i : Rest(i)[j] = c[i + j - 1]
        OBVIOUS
    <2> DEFINE L == N + 1 - i
               t == Rest(i)
    <2>4. L \in Nat /\ t \in [1 .. L -> Node]
        BY <2>1, <2>2
    <2> HIDE DEF L, t
    <2>5. t \in Seq(Node) /\ Len(t) = L
        BY <2>4
    <2> QED BY <2>3, <2>5 DEF L, t
<1>12. Rest(N + 1) = <<>>
    <2>1. N + 1 \in 1 .. N + 1 /\ N + 1 - (N + 1) = 0
        BY <1>1
    <2>2. Rest(N + 1) \in Seq(Node) /\ Len(Rest(N + 1)) = 0
        <3> HIDE DEF Rest
        <3> QED BY <1>11, <2>1
    <2> HIDE DEF Rest
    <2> QED BY <2>2
<1>13. Rest(1) = c
    <2>1. 1 \in 1 .. N + 1 /\ N + 1 - 1 = N
        BY <1>1
    <2>2. Rest(1) \in Seq(Node) /\ Len(Rest(1)) = N /\ \A j \in 1 .. N : Rest(1)[j] = c[1 + j - 1]
        <3> HIDE DEF Rest
        <3> QED BY <1>11, <2>1
    <2>3. \A j \in 1 .. N : 1 + j - 1 = j
        BY <1>1
    <2> HIDE DEF Rest
    <2> QED BY <1>10, <2>2, <2>3, SMTT(30)
<1>14. ASSUME NEW i \in 1 .. N PROVE Rest(i) = <<c[i]>> \o Rest(i + 1)
    <2>1. i \in 1 .. N + 1 /\ i + 1 \in 1 .. N + 1 /\ N + 1 - i = N + 1 - (i + 1) + 1 /\ c[i] \in Node
        BY <1>1, <1>10
    <2> DEFINE s == Rest(i)
               t == Rest(i + 1)
               L == N + 1 - (i + 1)
    <2>2. s \in Seq(Node) /\ Len(s) = L + 1 /\ \A j \in 1 .. L + 1 : s[j] = c[i + j - 1]
        <3> HIDE DEF Rest
        <3> QED BY <1>11, <2>1
    <2>3. t \in Seq(Node) /\ Len(t) = L /\ \A j \in 1 .. L : t[j] = c[i + 1 + j - 1]
        <3> HIDE DEF Rest
        <3> QED BY <1>11, <2>1
    <2> HIDE DEF s, t, Rest
    <2>4. L \in Nat
        BY <1>1
    <2> DEFINE u == <<c[i]>> \o t
    <2>5. u \in Seq(Node) /\ Len(u) = L + 1 /\ u[1] = c[i] /\ \A j \in 1 .. L : u[j + 1] = t[j]
        BY <2>1, <2>3, OneInFront
    <2> HIDE DEF u, L
    <2>6. ASSUME NEW j \in 1 .. L + 1 PROVE s[j] = u[j]
        <3>1. CASE j = 1
            <4>1. i + j - 1 = i
                BY <2>1, <3>1
            <4> QED BY <2>2, <2>5, <3>1, <4>1
        <3>2. CASE j # 1
            <4>1. PICK k \in 1 .. L : j = k + 1
                <5>1. j - 1 \in 1 .. L /\ j = j - 1 + 1
                    BY <2>4, <3>2
                <5> QED BY <5>1
            <4>2. i + j - 1 = i + 1 + k - 1
                BY <2>1, <2>4, <4>1, SMTT(30)
            <4> QED BY <2>2, <2>3, <2>5, <4>1, <4>2
        <3> QED BY <3>1, <3>2
    <2>7. s = u
        BY <2>2, <2>5, <2>6
    <2> QED BY <2>7 DEF s, t, u
<1> HIDE DEF Rest
<1> DEFINE Good(k) == \A i \in 1 .. N : N + 1 - i <= k => g[k][c[i]] = Rest(i)
           Bad == {k \in 0 .. K : ~Good(k)}
<1>15. Bad = {}
    <2> SUFFICES ASSUME Bad # {} PROVE FALSE
        OBVIOUS
    <2> DEFINE k == Min(Bad)
    <2>1. k \in Bad /\ \A j \in Bad : k <= j
        <3>1. Bad \subseteq Nat
            OBVIOUS
        <3> HIDE DEF Bad
        <3> QED BY <3>1, MinIsElement
    <2>2. k \in 0 .. K /\ ~Good(k)
        BY <2>1
    <2> HIDE DEF k
    <2>3. PICK i \in 1 .. N : N + 1 - i <= k /\ g[k][c[i]] # Rest(i)
        BY <2>2
    <2>4. k # 0 /\ k - 1 \in 0 .. K /\ ~(k <= k - 1)
        BY <1>1, <2>2, <2>3
    <2>5. Good(k - 1)
        <3>1. k - 1 \notin Bad
            <4> HIDE DEF Bad
            <4> QED BY <2>1, <2>4
        <3> HIDE DEF Good
        <3> QED BY <2>4, <3>1
    <2>6. g[k][c[i]] = <<c[i]>> \o g[k - 1][f.next[c[i]]]
        BY <1>9, <1>10, <2>2, <2>4
    <2>7. f.next[c[i]] = IF i = N THEN NULL ELSE c[i + 1]
        BY DEF Chain
    <2>8. g[k - 1][f.next[c[i]]] = Rest(i + 1)
        <3>1. CASE i = N
            BY <1>8, <1>12, <2>4, <2>7, <3>1
        <3>2. CASE i # N
            <4>1. i + 1 \in 1 .. N /\ N + 1 - (i + 1) <= k - 1
                <5>1. N \in Int /\ i \in 1 .. N /\ k \in Int /\ N + 1 - i <= k
                    <6> HIDE DEF Good
                    <6> QED BY <1>1, <2>2, <2>3
                <5> HIDE DEF N
                <5> QED BY <3>2, <5>1
            <4> QED BY <2>5, <2>7, <3>2, <4>1
        <3> QED BY <3>1, <3>2
    <2> QED BY <1>14, <2>3, <2>6, <2>8
<1>16. Good(K)
    <2>1. K \in 0 .. K
        BY <1>1
    <2> HIDE DEF Good
    <2> QED BY <1>15, <2>1
<1>17. CASE N = 0
    <2>1. n = NULL /\ K \in 0 .. K
        BY <1>1, <1>17 DEF Chain
    <2>2. c = <<>>
        BY <1>10, <1>17
    <2> QED BY <1>7, <1>8, <2>1, <2>2
<1>18. CASE N # 0
    <2>1. n = c[1] /\ 1 \in 1 .. N /\ N + 1 - 1 <= K
        BY <1>1, <1>18 DEF Chain
    <2> QED BY <1>7, <1>13, <1>16, <2>1
<1> QED BY <1>17, <1>18

\* The links of the two lists are all that their shape depends on.
LEMMA ShapeKept ==
    ASSUME NEW f, NEW g, NEW c, NEW d, Shape(f, c, d), g.next = f.next, g.prev = f.prev,
           g.head = f.head, g.free_head = f.free_head
    PROVE  Shape(g, c, d)
BY DEF Shape, Chain

\* The two lists, as a traversal finds them.
LEMMA ShapeIsSound ==
    ASSUME fly \in Fly, NEW c, NEW d, Shape(fly, c, d)
    PROVE  ListSound
<1>1. /\ c \in Seq(Node) /\ d \in Seq(Node) /\ Len(c) \in Nat /\ Len(d) \in Nat
      /\ \A j \in 1 .. Len(c) : c[j] \in Node
      /\ \A j \in 1 .. Len(d) : d[j] \in Node
      /\ fly.free_head = NULL <=> Len(d) = 0
    BY FirstOfChain DEF Shape
<1>2. SIZE \in Nat
    BY TypingAssumption
<1>3. Len(c) <= SIZE + 2 /\ Len(d) <= SIZE + 2
    <2>1. CASE Len(d) = 0
        <3>1. Len(c) = 0
            BY <2>1 DEF Shape
        <3> QED BY <1>2, <2>1, <3>1
    <2>2. CASE Len(d) # 0
        <3>1. Len(c) + Len(d) = SIZE + 1
            BY <2>2 DEF Shape
        <3> QED BY <1>1, <1>2, <3>1
    <2> QED BY <2>1, <2>2
<1>4. fly.next \in [Node -> Link]
    BY FlyFields
<1>5. Nodes(fly, fly.head) = c /\ Nodes(fly, fly.free_head) = d
    BY <1>3, <1>4, NodesOfList DEF Shape
<1>6. DOMAIN c = 1 .. Len(c) /\ DOMAIN d = 1 .. Len(d)
    BY <1>1
<1>7. IsInjective(c) /\ IsInjective(d)
    BY <1>6 DEF IsInjective, Shape
<1>8. ToSet(c) \cap ToSet(d) = {}
    BY <1>6 DEF ToSet, Shape
<1>9. fly.free_head # NULL => ToSet(c) \cup ToSet(d) = Node
    <2> SUFFICES ASSUME Len(d) # 0 PROVE ToSet(c) \cup ToSet(d) = Node
        BY <1>1
    <2>1. ToSet(c) \subseteq Node /\ ToSet(d) \subseteq Node
        BY <1>1, <1>6 DEF ToSet
    <2>2. \A n \in Node : n \in ToSet(c) \/ n \in ToSet(d)
        BY <1>6, SMTT(30) DEF ToSet, Shape
    <2> QED BY <2>1, <2>2
<1>10. \A j \in DOMAIN c : fly.prev[c[j]] = IF j = 1 THEN NULL ELSE c[j - 1]
    BY <1>6 DEF Shape
<1> QED BY <1>5, <1>7, <1>8, <1>9, <1>10 DEF ListSound

-----------------------------------------------------------------------------
(* How far the letters have got.                                           *)

LEMMA TimesMonotone ==
    ASSUME NEW p \in Nat, NEW a \in Nat, NEW b \in Nat, a <= b
    PROVE  p * a \in Nat /\ p * b \in Nat /\ p * a <= p * b
<1>1. p * b = p * a + p * (b - a)
    OBVIOUS
<1>2. p * (b - a) \in Nat /\ p * a \in Nat /\ p * b \in Nat
    OBVIOUS
<1> QED BY <1>1, <1>2

LEMMA MovedFacts ==
    ASSUME NEW pl, NEW ph \in 0 .. PERIOD - 1, NEW j \in Nat \ {0}, NEW i \in Nat
    PROVE  /\ PERIOD \in Nat \ {0} /\ UP \in Nat \ {0} /\ HEIGHT \in Nat
           /\ (j - 1) * PERIOD \in Nat
           /\ Elapsed(pl, ph, j, i) \in Nat /\ Moved(pl, ph, j, i) \in Nat
           /\ Moved(pl, ph, j, i) = (j - 1) * PERIOD + Elapsed(pl, ph, j, i)
<1>1. PERIOD \in Nat \ {0} /\ UP \in Nat \ {0} /\ HEIGHT \in Nat
    BY TypingAssumption
<1>2. (j - 1) * PERIOD \in Nat
    <2>1. j - 1 \in Nat
        OBVIOUS
    <2> QED BY <1>1, <2>1
<1>3. Elapsed(pl, ph, j, i) \in Nat
    BY <1>1 DEF Elapsed
<1> QED BY <1>1, <1>2, <1>3 DEF Moved

\* A letter that has been moved more often has got further.
LEMMA PacedLess ==
    ASSUME NEW f, NEW m, NEW a \in Nat, NEW b \in Nat, a <= b, Paced(f, m, b)
    PROVE  Paced(f, m, a)
<1>1. UP \in Nat /\ HEIGHT \in Nat
    BY TypingAssumption
<1>2. UP * a <= UP * b /\ UP * a \in Nat /\ UP * b \in Nat /\ UP * HEIGHT \in Nat
    BY <1>1, TimesMonotone
<1>3. f.x[m] \in 0 .. HEIGHT
    BY DEF Paced
<1>4. CASE f.v[m] = 1 /\ b <= f.x[m]
    BY <1>1, <1>3, <1>4 DEF Paced
<1>5. CASE f.v[m] = -UP /\ UP * b + f.x[m] <= UP * HEIGHT + HEIGHT
    <2>1. UP * a + f.x[m] <= UP * HEIGHT + HEIGHT
        BY <1>1, <1>2, <1>3, <1>5
    <2> QED BY <1>3, <1>5, <2>1 DEF Paced
<1> QED BY <1>4, <1>5 DEF Paced

\* The main loop goes on without touching the letters.
LEMMA OutOfUpdate ==
    ASSUME NEW f, NEW t, NEW pl, NEW ql, NEW ph, pl # "update", ql # "update",
           InLists(f, t, pl, ph)
    PROVE  InLists(f, t, ql, ph)
<1>1. PICK c \in Seq(Node), d \in Seq(Node), i \in Nat : Listed(f, t, pl, ph, c, d, i)
    BY DEF InLists
<1>2. \A j : Moved(pl, ph, j, i) = Moved(ql, ph, j, i)
    BY DEF Moved, Elapsed
<1>3. Listed(f, t, ql, ph, c, d, i)
    BY <1>1, <1>2 DEF Listed
<1> QED BY <1>3 DEF InLists

\* update_keypress: a letter that is hit turns round where it is.
LEMMA HitInLists ==
    ASSUME NEW f \in Fly, NEW t, NEW pl, NEW ph \in 0 .. PERIOD - 1, InLists(f, t, pl, ph), NEW n,
           NEW g, g = [f EXCEPT !.v[n] = -UP]
    PROVE  g \in Fly /\ InLists(g, t, pl, ph)
<1>1. /\ f = [next |-> f.next, prev |-> f.prev, free_head |-> f.free_head, head |-> f.head,
              x |-> f.x, v |-> f.v, text |-> f.text]
      /\ f.next \in [Node -> Link] /\ f.prev \in [Node -> Link]
      /\ f.free_head \in Link /\ f.head \in Link
      /\ f.x \in [Node -> -UP .. HEIGHT + 1] /\ f.v \in [Node -> {0, 1, -UP}]
      /\ f.text \in [Node -> Letters \cup {"none"}]
    BY FlyFields
<1>2. g = [next |-> f.next, prev |-> f.prev, free_head |-> f.free_head, head |-> f.head,
           x |-> f.x, v |-> [f.v EXCEPT ![n] = -UP], text |-> f.text]
    BY <1>1
<1>3. [f.v EXCEPT ![n] = -UP] \in [Node -> {0, 1, -UP}]
    BY <1>1
<1>4. g \in Fly
    BY <1>1, <1>2, <1>3 DEF Fly
<1>5. /\ g.next = f.next /\ g.prev = f.prev /\ g.free_head = f.free_head /\ g.head = f.head
      /\ g.x = f.x /\ \A m \in Node : g.v[m] = IF m = n THEN -UP ELSE f.v[m]
    BY <1>1, <1>2
<1>6. PICK c \in Seq(Node), d \in Seq(Node), i \in Nat : Listed(f, t, pl, ph, c, d, i)
    BY DEF InLists
<1>7. Shape(g, c, d)
    BY <1>5, <1>6, ShapeKept DEF Listed
<1>8. ASSUME NEW j \in 1 .. Len(c) PROVE Paced(g, c[j], Moved(pl, ph, j, i))
    <2>1. PICK m \in Node : m = c[j]
        OBVIOUS
    <2>2. PICK b \in Nat : b = Moved(pl, ph, j, i)
        BY MovedFacts
    <2>3. Paced(f, m, b)
        BY <1>6, <2>1, <2>2 DEF Listed
    <2>4. UP \in Nat /\ HEIGHT \in Nat /\ f.x[m] \in 0 .. HEIGHT
        BY <2>3, TypingAssumption DEF Paced
    <2>5. CASE m = n /\ f.v[m] = 1 /\ b <= f.x[m]
        <3>1. UP * b <= UP * HEIGHT /\ UP * b \in Nat /\ UP * HEIGHT \in Nat
            <4>1. b <= HEIGHT
                BY <2>4, <2>5
            <4> QED BY <2>4, <4>1, TimesMonotone
        <3>2. UP * b + f.x[m] <= UP * HEIGHT + HEIGHT
            BY <2>4, <3>1, SMTT(30)
        <3>3. Paced(g, m, b)
            BY <1>5, <2>4, <2>5, <3>2 DEF Paced
        <3> QED BY <2>1, <2>2, <3>3
    <2>6. CASE m # n \/ f.v[m] = -UP
        <3>1. g.v[m] = f.v[m] /\ g.x[m] = f.x[m]
            BY <1>5, <2>6
        <3>2. Paced(g, m, b)
            BY <2>3, <3>1 DEF Paced
        <3> QED BY <2>1, <2>2, <3>2
    <2> QED BY <2>3, <2>5, <2>6 DEF Paced
<1>9. Listed(g, t, pl, ph, c, d, i)
    BY <1>6, <1>7, <1>8 DEF Listed
<1> QED BY <1>4, <1>9 DEF InLists

\* A tick begins, without a new letter ...
LEMMA BeginInLists ==
    ASSUME NEW f, NEW t, NEW ph \in 0 .. PERIOD - 1, ph # 0, InLists(f, t, "simulate", ph)
    PROVE  InLists(f, f.head, "update", ph)
<1>1. PICK c \in Seq(Node), d \in Seq(Node), i \in Nat : Listed(f, t, "simulate", ph, c, d, i)
    BY DEF InLists
<1>2. Len(c) \in Nat
    OBVIOUS
<1>3. \A j \in 1 .. Len(c) : ~(j < 1)
    BY <1>2
<1>4. \A j \in 1 .. Len(c) : Moved("update", ph, j, 1) = Moved("simulate", ph, j, i)
    BY <1>3 DEF Moved, Elapsed
<1>5. f.head = IF 1 = Len(c) + 1 THEN NULL ELSE c[1]
    <2>1. f.head = IF Len(c) = 0 THEN NULL ELSE c[1]
        BY <1>1 DEF Listed, Shape, Chain
    <2>2. Len(c) = 0 <=> 1 = Len(c) + 1
        BY <1>2
    <2> QED BY <2>1, <2>2
<1>6. 1 \in 1 .. Len(c) + 1
    BY <1>2
<1>7. Listed(f, f.head, "update", ph, c, d, 1)
    BY <1>1, <1>4, <1>5, <1>6 DEF Listed
<1> QED BY <1>7 DEF InLists

\* ... or with one: the first letter was created PERIOD ticks ago.
LEMMA CreateInLists ==
    ASSUME NEW f \in Fly, NEW t, InLists(f, t, "simulate", 0), CanAllocate(f), NEW ch \in Letters,
           NEW g, g = CreateNewLetter(f, ch)
    PROVE  g \in Fly /\ InLists(g, g.head, "update", 0)
<1>1. PICK c \in Seq(Node), d \in Seq(Node), i \in Nat : Listed(f, t, "simulate", 0, c, d, i)
    BY DEF InLists
<1>2. PICK n : n = NewNode(f)
    OBVIOUS
<1> DEFINE b == Push(n, c)
           N == Len(c)
<1>3. /\ g \in Fly /\ n \in Node /\ \A j \in 1 .. Len(c) : c[j] # n
      /\ g.x = [f.x EXCEPT ![n] = 0] /\ g.v = [f.v EXCEPT ![n] = 1] /\ g.head = n
      /\ \E e \in Seq(Node) : Shape(g, b, e)
    <2>1. Shape(f, c, d)
        BY <1>1 DEF Listed
    <2> QED BY <1>2, <2>1, CreateShape
<1>4. PICK e \in Seq(Node) : Shape(g, b, e)
    BY <1>3
<1>5. /\ N \in Nat /\ b \in Seq(Node) /\ Len(b) = N + 1 /\ b[1] = n
      /\ \A j \in 1 .. N + 1 : j = 1 \/ (j - 1 \in 1 .. N /\ b[j] = c[j - 1])
    BY <1>3, PushIsList
<1>6. f.x \in [Node -> -UP .. HEIGHT + 1] /\ f.v \in [Node -> {0, 1, -UP}]
    BY FlyFields
<1>7. HEIGHT \in Nat /\ PERIOD \in Nat /\ 0 \in 0 .. PERIOD - 1
    BY TypingAssumption
<1> HIDE DEF b, N
<1>8. ASSUME NEW j \in 1 .. N + 1 PROVE Paced(g, b[j], Moved("update", 0, j, 1))
    <2>1. CASE j = 1
        <3>1. (1 - 1) * PERIOD = 0 /\ ~(1 < 1)
            BY <1>7
        <3>2. Moved("update", 0, 1, 1) = 0
            BY <3>1 DEF Moved, Elapsed
        <3>3. g.x[n] = 0 /\ g.v[n] = 1
            BY <1>3, <1>6
        <3>4. Paced(g, n, 0)
            BY <1>7, <3>3 DEF Paced
        <3> QED BY <1>5, <2>1, <3>2, <3>4
    <2>2. CASE j # 1
        <3>1. PICK k \in 1 .. N : j = k + 1 /\ b[j] = c[k]
            <4>1. j - 1 \in 1 .. N /\ b[j] = c[j - 1] /\ j = j - 1 + 1
                BY <1>5, <2>2
            <4> QED BY <4>1
        <3>2. c[k] \in Node /\ c[k] # n
            BY <1>3 DEF N
        <3>3. g.x[c[k]] = f.x[c[k]] /\ g.v[c[k]] = f.v[c[k]]
            BY <1>3, <1>6, <3>2
        <3>4. Moved("update", 0, j, 1) = Moved("simulate", 0, k, i)
            <4>1. ~(j < 1) /\ j - 1 = k /\ k \in Nat
                BY <1>5, <3>1
            <4>2. k * PERIOD + 0 = (k - 1) * PERIOD + PERIOD
                BY <1>7, <4>1
            <4> QED BY <4>1, <4>2 DEF Moved, Elapsed
        <3>5. Paced(f, c[k], Moved("simulate", 0, k, i))
            BY <1>1 DEF Listed, N
        <3> QED BY <3>1, <3>3, <3>4, <3>5 DEF Paced
    <2> QED BY <2>1, <2>2
<1>9. g.head = IF 1 = N + 1 + 1 THEN NULL ELSE b[1]
    BY <1>3, <1>5
<1>10. 1 \in 1 .. N + 1 + 1
    BY <1>5
<1>11. Listed(g, g.head, "update", 0, b, e, 1)
    BY <1>4, <1>5, <1>8, <1>9, <1>10 DEF Listed
<1> QED BY <1>3, <1>5, <1>11 DEF InLists

\* update_letter_pos: a letter is moved or leaves the screen, and the traversal goes on.
LEMMA UpdateInLists ==
    ASSUME NEW f \in Fly, NEW t, t # NULL, NEW ph \in 0 .. PERIOD - 1, InLists(f, t, "update", ph),
           NEW g, g = UpdateLetter(f, t)
    PROVE  g \in Fly /\ f.next[t] \in Link /\ InLists(g, f.next[t], "update", ph)
<1>1. PICK c \in Seq(Node), d \in Seq(Node), i \in Nat : Listed(f, t, "update", ph, c, d, i)
    BY DEF InLists
<1> DEFINE N == Len(c)
           y == f.x[t] + f.v[t]
           B(j, k) == Moved("update", ph, j, k)
<1>2. N \in Nat /\ \A j \in 1 .. N : c[j] \in Node
    OBVIOUS
<1>3. i \in 1 .. N /\ t = c[i] /\ t \in Node
    <2>1. i \in 1 .. N + 1 /\ i # N + 1 /\ t = c[i]
        BY <1>1 DEF Listed
    <2> HIDE DEF N
    <2>2. i \in 1 .. N
        BY <1>2, <2>1
    <2> QED BY <1>2, <2>1, <2>2
<1>4. f.x \in [Node -> -UP .. HEIGHT + 1] /\ f.v \in [Node -> {0, 1, -UP}] /\ f.next \in [Node -> Link]
    BY FlyFields
<1>5. Shape(f, c, d) /\ \A j \in 1 .. N : Paced(f, c[j], B(j, i))
    BY <1>1 DEF Listed
<1>6. f.next[t] = (IF i = N THEN NULL ELSE c[i + 1]) /\ f.next[t] \in Link
    BY <1>3, <1>4, <1>5 DEF Shape, Chain
<1>7. \A j \in 1 .. N : j # i => c[j] # t
    BY <1>3, <1>5 DEF Shape
<1>8. UP \in Nat \ {0} /\ HEIGHT \in Nat /\ PERIOD \in Nat
    BY TypingAssumption
<1>9. \A j, k \in 1 .. N + 1 : B(j, k) \in Nat
    <2> HIDE DEF N
    <2>1. \A j \in 1 .. N + 1 : j \in Nat \ {0} /\ j \in Nat
        BY <1>2
    <2> QED BY <2>1, MovedFacts
<1>10. f.x[t] \in 0 .. HEIGHT /\ f.v[t] \in {1, -UP}
    <2>1. Paced(f, t, B(i, i))
        BY <1>3, <1>5
    <2> HIDE DEF B
    <2> QED BY <2>1 DEF Paced
<1> HIDE DEF N, B
<1>11. y \in -UP .. HEIGHT + 1
    BY <1>8, <1>10, SMTT(30)
<1>12. CASE y \in 0 .. HEIGHT
    <2>1. /\ g \in Fly /\ g.next = f.next /\ g.prev = f.prev /\ g.free_head = f.free_head
          /\ g.head = f.head /\ g.x = [f.x EXCEPT ![t] = y] /\ g.v = f.v
        <3>1. PICK z : z = y
            OBVIOUS
        <3> HIDE DEF y
        <3> QED BY <1>3, <1>12, <3>1, MoveFields DEF y
    <2>2. Shape(g, c, d)
        BY <1>5, <2>1, ShapeKept
    <2>3. ASSUME NEW j \in 1 .. N PROVE Paced(g, c[j], B(j, i + 1))
        <3>1. CASE j = i
            <4>1. j < i + 1 /\ ~(j < i)
                BY <1>2, <1>3, <3>1
            <4>2. PICK b \in Nat : b = B(j, i)
                BY <1>2, <1>3, <1>9
            <4>3. B(j, i + 1) = b + 1
                <5>1. (j - 1) * PERIOD \in Nat /\ ph \in Nat
                    BY <1>2, <1>8, MovedFacts
                <5>2. (j - 1) * PERIOD + (ph + 1) = (j - 1) * PERIOD + ph + 1
                    BY <5>1
                <5> QED BY <4>1, <4>2, <5>2 DEF B, Moved, Elapsed
            <4>4. Paced(f, t, b)
                BY <1>3, <1>5, <3>1, <4>2
            <4>5. g.x[t] = y /\ g.v[t] = f.v[t]
                BY <1>3, <1>4, <2>1
            <4>6. CASE f.v[t] = 1 /\ b <= f.x[t]
                <5>1. b + 1 <= y
                    BY <1>8, <1>10, <4>6
                <5> QED BY <1>3, <1>12, <3>1, <4>3, <4>5, <4>6, <5>1 DEF Paced
            <4>7. CASE f.v[t] = -UP /\ UP * b + f.x[t] <= UP * HEIGHT + HEIGHT
                <5>1. UP * (b + 1) = UP * b + UP
                    BY <1>8
                <5>2. UP * b \in Nat /\ UP * HEIGHT \in Nat
                    BY <1>8
                <5>3. UP * (b + 1) + y <= UP * HEIGHT + HEIGHT
                    <6> DEFINE p == UP * b
                               q == UP * HEIGHT
                               r == UP * (b + 1)
                               x == f.x[t]
                    <6>1. /\ p \in Int /\ q \in Int /\ r = p + UP /\ UP \in Int /\ HEIGHT \in Int
                          /\ x \in Int /\ p + x <= q + HEIGHT /\ y = x + (-UP)
                        BY <1>8, <1>10, <4>7, <5>1, <5>2
                    <6> HIDE DEF p, q, r, x, y
                    <6>2. r + y <= q + HEIGHT
                        BY <6>1
                    <6> QED BY <6>2 DEF p, q, r
                <5> HIDE DEF y
                <5> QED BY <1>3, <1>12, <3>1, <4>3, <4>5, <4>7, <5>3 DEF Paced
            <4> QED BY <4>4, <4>6, <4>7 DEF Paced
        <3>2. CASE j # i
            <4>1. j < i + 1 <=> j < i
                BY <1>2, <1>3, <3>2
            <4>2. B(j, i + 1) = B(j, i)
                BY <4>1 DEF B, Moved, Elapsed
            <4>3. g.x[c[j]] = f.x[c[j]] /\ g.v[c[j]] = f.v[c[j]]
                BY <1>2, <1>4, <1>7, <2>1, <3>2
            <4>4. Paced(f, c[j], B(j, i))
                BY <1>5
            <4> QED BY <4>2, <4>3, <4>4 DEF Paced
        <3> QED BY <3>1, <3>2
    <2>4. f.next[t] = IF i + 1 = N + 1 THEN NULL ELSE c[i + 1]
        <3>1. i = N <=> i + 1 = N + 1
            BY <1>2, <1>3
        <3> QED BY <1>6, <3>1
    <2>5. i + 1 \in 1 .. N + 1
        BY <1>2, <1>3
    <2>6. Listed(g, f.next[t], "update", ph, c, d, i + 1)
        BY <2>2, <2>3, <2>4, <2>5 DEF Listed, B, N
    <2>7. i + 1 \in Nat
        BY <1>3
    <2> QED BY <1>6, <2>1, <2>6, <2>7 DEF InLists
<1>13. CASE y \notin 0 .. HEIGHT
    <2> DEFINE a == Drop(c, i)
               e == Push(t, d)
    <2>1. /\ g \in Fly /\ g.x = [f.x EXCEPT ![t] = y] /\ g.v = f.v
          /\ Shape(g, a, e) /\ e \in Seq(Node)
        <3>1. PICK z : z = y
            OBVIOUS
        <3>2. i \in 1 .. Len(c) /\ t = c[i]
            BY <1>3 DEF N
        <3> HIDE DEF y
        <3> QED BY <1>5, <1>11, <1>13, <3>1, <3>2, RemoveShape DEF y
    <2>2. /\ a \in Seq(Node) /\ Len(a) = N - 1
          /\ \A j \in 1 .. N - 1 : /\ j < i => a[j] = c[j] /\ j \in 1 .. N
                                   /\ j >= i => a[j] = c[j + 1] /\ j + 1 \in 1 .. N
        BY <1>3, DropIsList DEF N
    <2> HIDE DEF a, e
    <2>3. ASSUME NEW j \in 1 .. N - 1 PROVE Paced(g, a[j], B(j, i))
        <3>1. PICK k \in 1 .. N : k # i /\ a[j] = c[k] /\ B(j, i) <= B(k, i)
            <4>1. CASE j < i
                <5>1. j # i /\ j \in 1 .. N /\ a[j] = c[j]
                    BY <1>3, <2>2, <4>1
                <5>2. B(j, i) \in Nat
                    BY <1>2, <1>3, <1>9, <5>1
                <5>3. B(j, i) <= B(j, i)
                    BY <5>2
                <5> QED BY <5>1, <5>3
            <4>2. CASE j >= i
                <5>1. j + 1 # i /\ j + 1 \in 1 .. N /\ a[j] = c[j + 1] /\ ~(j < i) /\ ~(j + 1 < i)
                    BY <1>2, <1>3, <2>2, <4>2
                <5>2. j + 1 - 1 = j /\ j \in Nat \ {0} /\ j \in Nat /\ j - 1 \in Nat /\ ph \in Nat
                    BY <1>2, <1>8
                <5>3. j * PERIOD = (j - 1) * PERIOD + PERIOD /\ (j - 1) * PERIOD \in Nat
                    BY <1>8, <5>2
                <5>4. B(j, i) = (j - 1) * PERIOD + ph
                    BY <5>1 DEF B, Moved, Elapsed
                <5>5. B(j + 1, i) = j * PERIOD + ph
                    BY <5>1, <5>2 DEF B, Moved, Elapsed
                <5>6. B(j, i) <= B(j + 1, i)
                    BY <1>8, <5>2, <5>3, <5>4, <5>5
                <5> QED BY <5>1, <5>6
            <4> QED BY <1>3, <4>1, <4>2
        <3>2. Paced(f, c[k], B(j, i))
            <4>1. B(j, i) \in Nat /\ B(k, i) \in Nat
                BY <1>2, <1>3, <1>9
            <4> QED BY <1>5, <3>1, <4>1, PacedLess
        <3>3. g.x[c[k]] = f.x[c[k]] /\ g.v[c[k]] = f.v[c[k]]
            BY <1>2, <1>4, <1>7, <2>1, <3>1
        <3> QED BY <3>1, <3>2, <3>3 DEF Paced
    <2>4. f.next[t] = IF i = N - 1 + 1 THEN NULL ELSE a[i]
        <3>1. CASE i = N
            BY <1>2, <1>6, <3>1
        <3>2. CASE i # N
            <4>1. i \in 1 .. N - 1 /\ i >= i /\ i # N - 1 + 1
                BY <1>2, <1>3, <3>2
            <4>2. a[i] = c[i + 1]
                BY <2>2, <4>1
            <4> QED BY <1>6, <3>2, <4>1, <4>2
        <3> QED BY <3>1, <3>2
    <2>5. i \in 1 .. N - 1 + 1
        BY <1>2, <1>3
    <2>6. Listed(g, f.next[t], "update", ph, a, e, i)
        BY <2>1, <2>2, <2>3, <2>4, <2>5 DEF Listed, B
    <2> QED BY <1>6, <2>1, <2>2, <2>6 DEF InLists
<1> QED BY <1>12, <1>13

\* All letters have been moved: now goes on.
LEMMA TickInLists ==
    ASSUME NEW f, NEW ph \in 0 .. PERIOD - 1, InLists(f, NULL, "update", ph),
           NEW qh, qh = (ph + 1) % PERIOD
    PROVE  qh \in 0 .. PERIOD - 1 /\ InLists(f, NULL, "simulate", qh)
<1>1. PICK c \in Seq(Node), d \in Seq(Node), i \in Nat : Listed(f, NULL, "update", ph, c, d, i)
    BY DEF InLists
<1>2. PERIOD \in Nat \ {0} /\ ph \in Nat
    BY TypingAssumption
<1>3. IF ph + 1 = PERIOD THEN qh = 0 ELSE qh = ph + 1 /\ qh # 0 /\ qh \in 0 .. PERIOD - 1
    <2>1. CASE ph + 1 = PERIOD
        <3>1. (1 * PERIOD + 0) % PERIOD = 0
            BY <1>2, DivModUnique
        <3>2. 1 * PERIOD + 0 = PERIOD
            BY <1>2
        <3> QED BY <2>1, <3>1, <3>2
    <2>2. CASE ph + 1 # PERIOD
        <3>1. ph + 1 \in 0 .. PERIOD - 1
            BY <1>2, <2>2
        <3>2. qh = ph + 1
            BY <1>2, <3>1, SmallMod
        <3> QED BY <1>2, <2>2, <3>1, <3>2
    <2> QED BY <2>1, <2>2
<1>4. \A j \in 1 .. Len(c) : c[j] # NULL
    BY <1>1, FirstOfChain DEF Listed, Shape
<1>5. i = Len(c) + 1
    <2>1. i \in 1 .. Len(c) + 1 /\ (i # Len(c) + 1 => c[i] = NULL) /\ Len(c) \in Nat
        BY <1>1 DEF Listed
    <2>2. i # Len(c) + 1 => i \in 1 .. Len(c)
        BY <2>1
    <2> QED BY <1>4, <2>1, <2>2
<1>6. ASSUME NEW j \in 1 .. Len(c) PROVE Moved("simulate", qh, j, i) = Moved("update", ph, j, i)
    <2>1. j < i
        BY <1>5
    <2>2. Elapsed("update", ph, j, i) = ph + 1
        BY <2>1 DEF Elapsed
    <2>3. Elapsed("simulate", qh, j, i) = ph + 1
        BY <1>3 DEF Elapsed
    <2> QED BY <2>2, <2>3 DEF Moved
<1>7. Listed(f, NULL, "simulate", qh, c, d, i)
    BY <1>1, <1>6 DEF Listed
<1>8. qh \in 0 .. PERIOD - 1
    BY <1>2, <1>3
<1> QED BY <1>7, <1>8 DEF InLists

\* If letters leave the screen before SIZE of them have been created, a node is left
\* when one is created: the lowest letter has been moved PERIOD times for each letter.
LEMMA PoolIsLarge ==
    ASSUME HEIGHT + HEIGHT \div UP < SIZE * PERIOD,
           NEW f \in Fly, NEW t, InLists(f, t, "simulate", 0)
    PROVE  CanAllocate(f)
<1>1. PICK c \in Seq(Node), d \in Seq(Node), i \in Nat : Listed(f, t, "simulate", 0, c, d, i)
    BY DEF InLists
<1> DEFINE N == Len(c)
           F == Len(d)
<1>2. N \in Nat /\ F \in Nat /\ (f.free_head = NULL <=> F = 0) /\ \A j \in 1 .. F : d[j] # NULL
    BY <1>1, FirstOfChain DEF Listed, Shape
<1>3. UP \in Nat \ {0} /\ HEIGHT \in Nat /\ PERIOD \in Nat \ {0} /\ SIZE \in Nat \ {0}
    BY TypingAssumption
<1>4. N < SIZE
    <2>1. CASE N = 0
        BY <1>3, <2>1
    <2>2. CASE N # 0
        <3>1. PICK b \in Nat : b = N * PERIOD
            BY <1>2, <1>3
        <3>2. PICK m \in Node : m = c[N] /\ N \in 1 .. N
            BY <1>2, <2>2
        <3>3. Moved("simulate", 0, N, i) = b
            <4> HIDE DEF N
            <4>1. (N - 1) * PERIOD + PERIOD = N * PERIOD
                BY <1>2, <1>3
            <4> QED BY <3>1, <4>1 DEF Moved, Elapsed
        <3>4. Paced(f, m, b)
            BY <1>1, <3>2, <3>3 DEF Listed
        <3> HIDE DEF N
        <3> DEFINE q == HEIGHT \div UP
        <3>5. q \in Nat /\ HEIGHT < q * UP + UP /\ q * UP \in Nat
            <4>1. q \in Nat /\ HEIGHT % UP \in 0 .. UP - 1 /\ HEIGHT = q * UP + (HEIGHT % UP)
                BY <1>3, DivMod
            <4> HIDE DEF q
            <4>2. q * UP \in Nat
                BY <1>3, <4>1
            <4> QED BY <1>3, <4>1, <4>2
        <3> HIDE DEF q
        <3>6. b <= HEIGHT + q
            <4>1. CASE f.v[m] = 1 /\ b <= f.x[m] /\ f.x[m] \in 0 .. HEIGHT
                BY <1>3, <3>5, <4>1, SMTT(30)
            <4>2. CASE UP * b + f.x[m] <= UP * HEIGHT + HEIGHT /\ f.x[m] \in 0 .. HEIGHT
                <5> SUFFICES ASSUME HEIGHT + q + 1 <= b PROVE FALSE
                    BY <1>3, <3>5
                <5>1. UP * (HEIGHT + q + 1) <= UP * b
                    BY <1>3, <3>5, TimesMonotone
                <5>2. UP * (HEIGHT + q + 1) = UP * HEIGHT + (q * UP + UP)
                    BY <1>3, <3>5
                <5>3. UP * HEIGHT \in Nat /\ UP * b \in Nat
                    BY <1>3
                <5> QED BY <1>3, <3>5, <4>2, <5>1, <5>2, <5>3, SMTT(30)
            <4> QED BY <3>4, <4>1, <4>2 DEF Paced
        <3>7. N * PERIOD < SIZE * PERIOD
            <4>1. HEIGHT + q < SIZE * PERIOD
                BY DEF q
            <4>2. SIZE * PERIOD \in Nat
                BY <1>3
            <4> QED BY <1>3, <3>1, <3>5, <3>6, <4>1, <4>2
        <3>8. CASE SIZE <= N
            <4>1. PERIOD * SIZE <= PERIOD * N
                BY <1>2, <1>3, <3>8, TimesMonotone
            <4>2. PERIOD * SIZE = SIZE * PERIOD /\ PERIOD * N = N * PERIOD
                BY <1>2, <1>3
            <4>3. SIZE * PERIOD \in Nat /\ N * PERIOD \in Nat
                BY <1>2, <1>3
            <4> QED BY <3>7, <4>1, <4>2, <4>3
        <3> QED BY <1>2, <1>3, <3>8
    <2> QED BY <2>1, <2>2
<1>5. CASE F = 0
    BY <1>2, <1>5 DEF CanAllocate
<1>6. CASE F # 0
    <2>1. N + F = SIZE + 1
        BY <1>1, <1>6 DEF Listed, Shape
    <2> HIDE DEF N, F
    <2>2. 1 \in 1 .. F /\ F # 1 /\ 1 + 1 \in 1 .. F
        BY <1>2, <1>3, <1>4, <2>1
    <2>3. f.free_head = d[1] /\ f.next[d[1]] = d[1 + 1]
        BY <1>1, <1>6, <2>2 DEF Listed, Shape, Chain, F
    <2>4. d[1 + 1] # NULL
        BY <1>2, <2>2
    <2> QED BY <2>3, <2>4 DEF CanAllocate
<1> QED BY <1>5, <1>6

-----------------------------------------------------------------------------
(* The steps of the typing game.                                           *)

\* The invariant but for the keyboard.
LettersInv == /\ letter_pressed \subseteq Letters /\ fly \in Fly
              /\ behind \in 0 .. MaxBehind + 1 /\ target \in 0 .. MaxBehind + 1
              /\ phase \in 0 .. PERIOD - 1 /\ it \in Link
              /\ place \in {"loop", "halted", "check", "keys", "simulate", "update"}
              /\ if \in BOOLEAN
              /\ target <= behind /\ (place = "update" => target > 0)
              /\ InLists(fly, it, place, phase)

LEMMA TypingInvParts ==
    /\ TypingInv <=> KeyboardInv /\ LettersInv
    /\ TypingInv' <=> KeyboardInv' /\ LettersInv'
BY DEF TypingInv, TTypeOK, Clocks, LettersInv, KeyboardInv

\* timer_event.
LEMMA TimerEventStep ==
    ASSUME TypingInv, TimerEvent
    PROVE  TypingInv'
<1>1. KeyboardInv /\ LettersInv
    BY TypingInvParts
<1>2. /\ if /\ behind < MaxBehind + (IF place = "halted" THEN 1 ELSE 0)
      /\ behind' = behind + 1 /\ place' = (IF place = "halted" THEN "check" ELSE place)
      /\ letter_pressed' = letter_pressed /\ fly' = fly /\ target' = target /\ phase' = phase
      /\ it' = it /\ if' = if /\ UNCHANGED device
    BY DEF TimerEvent, WokenUp
<1>3. MaxBehind \in Nat
    BY TypingAssumption
<1>4. behind' \in 0 .. MaxBehind + 1 /\ target' <= behind'
    BY <1>1, <1>2, <1>3 DEF LettersInv
<1>5. InLists(fly, it, place', phase)
    BY <1>1, <1>2, OutOfUpdate DEF LettersInv
<1>6. /\ place' \in {"loop", "halted", "check", "keys", "simulate", "update"}
      /\ place' = "update" => place = "update"
    BY <1>1, <1>2 DEF LettersInv
<1>7. LettersInv'
    BY <1>1, <1>2, <1>4, <1>5, <1>6 DEF LettersInv
<1> QED BY <1>1, <1>2, <1>7, KeyboardUnchanged, TypingInvParts

\* keyboard_event.
LEMMA KeyboardEventTyping ==
    ASSUME TypingInv, TKeyboardEvent
    PROVE  TypingInv'
<1>1. KeyboardInv /\ LettersInv
    BY TypingInvParts
<1>2. /\ ReadCode
      /\ letter_pressed' = IF ~scan_code_buf.up /\ scan_code_buf.key \in Letters
                           THEN letter_pressed \cup {scan_code_buf.key} ELSE letter_pressed
      /\ place' = (IF place = "halted" THEN "check" ELSE place)
      /\ fly' = fly /\ behind' = behind /\ target' = target /\ phase' = phase
      /\ it' = it /\ if' = if
    BY DEF TKeyboardEvent, WokenUp, clock
<1>3. KeyboardInv'
    BY <1>1, <1>2, ReadCodeStep
<1>4. letter_pressed' \subseteq Letters
    BY <1>1, <1>2 DEF LettersInv
<1>5. InLists(fly, it, place', phase)
    BY <1>1, <1>2, OutOfUpdate DEF LettersInv
<1>6. /\ place' \in {"loop", "halted", "check", "keys", "simulate", "update"}
      /\ place' = "update" => place = "update"
    BY <1>1, <1>2 DEF LettersInv
<1>7. LettersInv'
    BY <1>1, <1>2, <1>4, <1>5, <1>6 DEF LettersInv
<1> QED BY <1>3, <1>7, TypingInvParts

\* The steps of the main loop that leave the letters alone.
LEMMA LoopStep ==
    ASSUME TypingInv, Halt \/ Check \/ Redraw
    PROVE  TypingInv'
<1>1. KeyboardInv /\ LettersInv
    BY TypingInvParts
<1>2. /\ letter_pressed' = letter_pressed /\ fly' = fly /\ behind' = behind /\ phase' = phase
      /\ it' = it /\ if' = if /\ UNCHANGED device
      /\ target' \in {target, behind} /\ place # "update"
      /\ place' \in {"loop", "halted", "keys"}
    BY DEF Halt, Check, Redraw, clock
<1>3. target' \in 0 .. MaxBehind + 1 /\ target' <= behind
    BY <1>1, <1>2 DEF LettersInv
<1>4. InLists(fly, it, place', phase)
    BY <1>1, <1>2, OutOfUpdate DEF LettersInv
<1>5. LettersInv'
    BY <1>1, <1>2, <1>3, <1>4 DEF LettersInv
<1> QED BY <1>1, <1>2, <1>5, KeyboardUnchanged, TypingInvParts

\* update_keypress.
LEMMA UpdateKeypressStep ==
    ASSUME TypingInv, UpdateKeypress
    PROVE  TypingInv'
<1>1. KeyboardInv /\ LettersInv
    BY TypingInvParts
<1>2. UNCHANGED device /\ place = "keys"
      /\ behind' = behind /\ target' = target /\ phase' = phase /\ it' = it
    BY DEF UpdateKeypress, clock
<1>3. CASE Candidates # {}
    <2>1. PICK n : n = Target
        OBVIOUS
    <2>2. /\ letter_pressed' = letter_pressed \ {fly.text[n]} /\ fly' = [fly EXCEPT !.v[n] = -UP]
          /\ if' = FALSE /\ place' = place
        BY <1>3, <2>1 DEF UpdateKeypress
    <2>3. fly' \in Fly /\ InLists(fly', it, place, phase)
        BY <1>1, <2>2, HitInLists, ZenonT(30) DEF LettersInv
    <2>4. letter_pressed' \subseteq Letters
        BY <1>1, <2>2 DEF LettersInv
    <2>5. LettersInv'
        BY <1>1, <1>2, <2>2, <2>3, <2>4 DEF LettersInv
    <2> QED BY <1>1, <1>2, <2>5, KeyboardUnchanged, TypingInvParts
<1>4. CASE Candidates = {}
    <2>1. letter_pressed' = letter_pressed /\ fly' = fly /\ if' = TRUE /\ place' = "simulate"
        BY <1>4 DEF UpdateKeypress
    <2>2. InLists(fly, it, place', phase)
        BY <1>1, <1>2, <2>1, OutOfUpdate DEF LettersInv
    <2>3. LettersInv'
        BY <1>1, <1>2, <2>1, <2>2 DEF LettersInv
    <2> QED BY <1>1, <1>2, <2>3, KeyboardUnchanged, TypingInvParts
<1> QED BY <1>3, <1>4

\* A tick begins.
LEMMA SimulateStep ==
    ASSUME TypingInv, NEW ch \in Letters, Simulate(ch)
    PROVE  TypingInv'
<1>1. KeyboardInv /\ LettersInv
    BY TypingInvParts
<1>2. /\ place = "simulate" /\ target > 0 /\ it' = fly'.head /\ place' = "update"
      /\ behind' = behind /\ target' = target /\ phase' = phase /\ if' = if /\ UNCHANGED device
    BY DEF Simulate
<1>3. /\ fly' \in Fly /\ letter_pressed' \subseteq Letters
      /\ InLists(fly', fly'.head, "update", phase)
    <2>1. CASE phase = 0
        <3>1. /\ CanAllocate(fly) /\ fly' = CreateNewLetter(fly, ch)
              /\ letter_pressed' = letter_pressed \ {ch}
            BY <2>1 DEF Simulate
        <3>2. InLists(fly, it, "simulate", 0)
            BY <1>1, <1>2, <2>1 DEF LettersInv
        <3>3. fly' \in Fly /\ InLists(fly', fly'.head, "update", 0)
            BY <1>1, <3>1, <3>2, CreateInLists DEF LettersInv
        <3> QED BY <1>1, <2>1, <3>1, <3>3 DEF LettersInv
    <2>2. CASE phase # 0
        <3>1. fly' = fly /\ letter_pressed' = letter_pressed
            BY <2>2 DEF Simulate
        <3>2. InLists(fly, fly.head, "update", phase)
            BY <1>1, <1>2, <2>2, BeginInLists DEF LettersInv
        <3> QED BY <1>1, <3>1, <3>2 DEF LettersInv
    <2> QED BY <2>1, <2>2
<1>4. fly'.head \in Link
    BY <1>3, FlyFields
<1>5. LettersInv'
    BY <1>1, <1>2, <1>3, <1>4 DEF LettersInv
<1> QED BY <1>1, <1>2, <1>5, KeyboardUnchanged, TypingInvParts

\* update_letter_pos.
LEMMA UpdateLetterPosStep ==
    ASSUME TypingInv, UpdateLetterPos
    PROVE  TypingInv'
<1>1. KeyboardInv /\ LettersInv
    BY TypingInvParts
<1>2. /\ place = "update" /\ it # NULL /\ fly' = UpdateLetter(fly, it) /\ it' = fly.next[it]
      /\ letter_pressed' = letter_pressed /\ behind' = behind /\ target' = target
      /\ phase' = phase /\ place' = place /\ if' = if /\ UNCHANGED device
    BY DEF UpdateLetterPos
<1>3. fly' \in Fly /\ fly.next[it] \in Link /\ InLists(fly', fly.next[it], "update", phase)
    BY <1>1, <1>2, UpdateInLists DEF LettersInv
<1>4. LettersInv'
    BY <1>1, <1>2, <1>3 DEF LettersInv
<1> QED BY <1>1, <1>2, <1>4, KeyboardUnchanged, TypingInvParts

\* The tick is over.
LEMMA TickDoneStep ==
    ASSUME TypingInv, TickDone
    PROVE  TypingInv'
<1>1. KeyboardInv /\ LettersInv
    BY TypingInvParts
<1>2. /\ place = "update" /\ it = NULL /\ behind' = behind - 1 /\ target' = target - 1
      /\ phase' = (phase + 1) % PERIOD /\ place' = "simulate"
      /\ letter_pressed' = letter_pressed /\ fly' = fly /\ it' = it /\ if' = if
      /\ UNCHANGED device
    BY DEF TickDone
<1>3. phase' \in 0 .. PERIOD - 1 /\ InLists(fly, NULL, "simulate", phase')
    BY <1>1, <1>2, TickInLists DEF LettersInv
<1>4. /\ behind' \in 0 .. MaxBehind + 1 /\ target' \in 0 .. MaxBehind + 1 /\ target' <= behind'
    <2>1. MaxBehind \in Nat
        BY TypingAssumption
    <2> QED BY <1>1, <1>2, <2>1 DEF LettersInv
<1>5. LettersInv'
    BY <1>1, <1>2, <1>3, <1>4 DEF LettersInv
<1> QED BY <1>1, <1>2, <1>5, KeyboardUnchanged, TypingInvParts

LEMMA TInitInv == TInit => TypingInv
<1> SUFFICES ASSUME TInit PROVE TypingInv
    OBVIOUS
<1>1. /\ held = {} /\ events = <<>> /\ scan_code_buf = NoCode /\ irq = FALSE
      /\ unread = FALSE /\ lost_up = {} /\ letter_pressed = {}
      /\ fly = [next |-> [n \in Node |-> NULL], prev |-> [n \in Node |-> NULL],
                free_head |-> NULL, head |-> NULL, x |-> [n \in Node |-> 0],
                v |-> [n \in Node |-> 0], text |-> [n \in Node |-> "none"]]
      /\ behind = 0 /\ target = 0 /\ phase = 0 /\ it = NULL /\ place = "loop" /\ if = TRUE
    BY DEF TInit, KeyboardInit
<1>2. /\ SIZE \in Nat \ {0} /\ HEIGHT \in Nat /\ UP \in Nat /\ PERIOD \in Nat \ {0}
      /\ MaxBehind \in Nat /\ Queue \in Nat
    BY TypingAssumption, QueueAssumption
<1>3. KeyboardInv
    <2>1. events \in Seq(Code) /\ Len(events) = 0 /\ 0 <= Queue
        BY <1>1, <1>2
    <2>2. KeyboardTypeOK
        BY <1>1, <2>1 DEF KeyboardTypeOK
    <2>3. \A i \in 1 .. Len(events) : FALSE
        BY <2>1
    <2> QED BY <1>1, <2>2, <2>3 DEF KeyboardInv
<1>4. fly \in Fly
    <2>1. 0 \in -UP .. HEIGHT + 1 /\ NULL \in Link
        BY <1>2 DEF Link
    <2> QED BY <1>1, <2>1 DEF Fly
<1>5. Listed(fly, it, place, phase, <<>>, <<>>, 1)
    <2>1. PICK e \in Seq(Node) : e = <<>> /\ Len(e) = 0
        <3>1. <<>> \in Seq(Node) /\ Len(<<>>) = 0
            OBVIOUS
        <3>2. PICK e : e = <<>>
            OBVIOUS
        <3> QED BY <3>1, <3>2
    <2>2. \A j \in 1 .. Len(e) : FALSE
        BY <2>1
    <2>3. fly.head = NULL /\ fly.free_head = NULL /\ SIZE \in Node /\ fly.next[SIZE] = NULL
        BY <1>1, <1>2 DEF Node
    <2>4. Shape(fly, e, e)
        BY <2>1, <2>2, <2>3 DEF Shape, Chain
    <2>5. 1 \in 1 .. Len(e) + 1 /\ 1 = Len(e) + 1
        BY <2>1
    <2>6. Listed(fly, it, place, phase, e, e, 1)
        BY <1>1, <2>2, <2>4, <2>5 DEF Listed
    <2> QED BY <2>1, <2>6
<1>6. InLists(fly, it, place, phase)
    <2>1. <<>> \in Seq(Node) /\ 1 \in Nat
        OBVIOUS
    <2> QED BY <1>5, <2>1 DEF InLists
<1>7. LettersInv
    <2>1. NULL \in Link /\ 0 \in 0 .. MaxBehind + 1 /\ 0 \in 0 .. PERIOD - 1
        BY <1>2 DEF Link
    <2> QED BY <1>1, <1>4, <1>6, <2>1 DEF LettersInv
<1> QED BY <1>3, <1>7, TypingInvParts

LEMMA TNextInv == TypingInv /\ [TNext]_tvars => TypingInv'
<1> SUFFICES ASSUME TypingInv, [TNext]_tvars PROVE TypingInv'
    OBVIOUS
<1>1. CASE TDeviceStep
    <2>1. /\ KeyboardNext /\ letter_pressed' = letter_pressed /\ fly' = fly /\ behind' = behind
          /\ target' = target /\ phase' = phase /\ it' = it /\ place' = place /\ if' = if
        BY <1>1 DEF TDeviceStep, clock
    <2>2. LettersInv'
        BY <2>1, TypingInvParts DEF LettersInv
    <2> QED BY <2>1, <2>2, KeyboardNextStep, TypingInvParts
<1>2. CASE TimerEvent
    BY <1>2, TimerEventStep
<1>3. CASE TKeyboardEvent
    BY <1>3, KeyboardEventTyping
<1>4. CASE Halt \/ Check \/ Redraw
    BY <1>4, LoopStep
<1>5. CASE UpdateKeypress
    BY <1>5, UpdateKeypressStep
<1>6. CASE UpdateLetterPos
    BY <1>6, UpdateLetterPosStep
<1>7. CASE TickDone
    BY <1>7, TickDoneStep
<1>8. ASSUME NEW ch \in Letters, Simulate(ch) PROVE TypingInv'
    BY <1>8, SimulateStep
<1>9. CASE UNCHANGED tvars
    <2>1. /\ UNCHANGED device /\ letter_pressed' = letter_pressed /\ fly' = fly
          /\ behind' = behind /\ target' = target /\ phase' = phase /\ it' = it
          /\ place' = place /\ if' = if
        BY <1>9 DEF tvars, clock
    <2>2. LettersInv'
        BY <2>1, TypingInvParts DEF LettersInv
    <2> QED BY <2>1, <2>2, KeyboardUnchanged, TypingInvParts
<1> QED BY <1>1, <1>2, <1>3, <1>4, <1>5, <1>6, <1>7, <1>8, <1>9 DEF TNext, MainLoop

\* The letters on the screen and the free nodes are two lists that partition the pool,
\* whatever the sizes: the assert of fly_new, which the game would stop at, is a guard of
\* Simulate here, and the next theorem says when it holds.
THEOREM ListsCorrect == TSpec => [](TTypeOK /\ ListSound)
<1>1. TypingInv => TTypeOK /\ ListSound
    <2> SUFFICES ASSUME TypingInv PROVE ListSound
        BY DEF TypingInv
    <2>1. fly \in Fly /\ InLists(fly, it, place, phase)
        BY DEF TypingInv, TTypeOK
    <2>2. PICK c \in Seq(Node), d \in Seq(Node), i \in Nat : Listed(fly, it, place, phase, c, d, i)
        BY <2>1 DEF InLists
    <2> QED BY <2>1, <2>2, ShapeIsSound DEF Listed
<1> QED BY <1>1, TInitInv, TNextInv, PTL DEF TSpec

\* If a letter leaves the screen before SIZE others are created, the pool is never used
\* up and all of LettersSound holds.  In the game a letter makes at most 384 steps down
\* and 64 up, one is created every 33 ticks, and SIZE is 1000.
THEOREM TypingCorrect ==
    ASSUME HEIGHT + HEIGHT \div UP < SIZE * PERIOD
    PROVE  TSpec => []LettersSound
<1>1. TypingInv => PoolSuffices
    <2> SUFFICES ASSUME TypingInv, place = "simulate", phase = 0 PROVE CanAllocate(fly)
        BY DEF PoolSuffices
    <2>1. fly \in Fly /\ InLists(fly, it, "simulate", 0)
        BY DEF TypingInv, TTypeOK
    <2> QED BY <2>1, PoolIsLarge
<1>2. TSpec => []TypingInv
    BY TInitInv, TNextInv, PTL DEF TSpec
<1>3. (TTypeOK /\ ListSound) /\ TypingInv => LettersSound
    BY <1>1 DEF LettersSound
<1> QED BY <1>2, <1>3, ListsCorrect, PTL
=============================================================================
