----------------------------- MODULE Interrupts -----------------------------
(***************************************************************************)
(* How an interrupt gets from a device to a handler of the guest: the loop *)
(* of exec (cpu/cpu.c), the one-slot interrupt controller                  *)
(* (device/i8259_pic.c), the timer and the keyboard polled by do_devices,  *)
(* the entry through a gate (cpu/intr.c), and the instructions hlt, cli,   *)
(* sti, int and iret.  With HAS_DEVICE_AUDIO the monitor thread of         *)
(* device/dev/audio.c raises its interrupt concurrently with the loop.     *)
(*                                                                         *)
(* The guest is abstracted to the code it is in (ctx: the task, the        *)
(* handler of a trap, or the handler of an IRQ) and to how far it is in it *)
(* (at, an instruction count that stands for eip).  What a handler may do  *)
(* comes from the kernel: IRQ handlers are entered through interrupt       *)
(* gates and never execute sti, hlt or int; the system call gate is a trap *)
(* gate, and system calls do use cli, sti and hlt.                         *)
(***************************************************************************)
EXTENDS Integers, Sequences, SequencesExt

CONSTANTS PolledIrqs,    \* raised by do_devices and by port I/O: timer, keyboard, IDE
          MonitorIrqs,   \* raised by the audio monitor thread ({} without audio)
          IDE_IRQ,       \* the one that port I/O of the guest raises
          MaxAt          \* bound: instructions of a context before it jumps back

I8259_NO_INTR == 255
Irqs == PolledIrqs \cup MonitorIrqs

ASSUME IrqAssumption == /\ PolledIrqs \subseteq 0 .. 15
                        /\ MonitorIrqs \subseteq 0 .. 15
                        /\ IDE_IRQ \in PolledIrqs
ASSUME BoundAssumption == MaxAt \in Nat \ {0}

VARIABLES i8259_intr_no,  \* the IRQ in the slot (less IRQ_BASE), or I8259_NO_INTR
          intr,           \* cpu.intr
          mutex,          \* i8259_mutex: "free", "monitor", or "destroyed"
          IF_,            \* cpu.eflags.IF
          is_nemu_hlt,
          nemu_state,     \* "RUN" or "STOP"
          ctx, at,        \* the code the guest is in and its place in it
          frames,         \* eflags, cs and eip that raise_intr pushed, newest last
          pc, back,       \* place of the loop; where do_intr returns to
          num,            \* the local intr_no of do_intr
          pend,           \* history: requests neither delivered nor outranked
          next_at,        \* history: the instruction each context must run next
          int3            \* history: has int3, or into with OF, been executed?

loop == <<pc, back, num>>
pic == <<i8259_intr_no, intr, mutex, pend>>
guest == <<IF_, ctx, at, frames, next_at, int3>>
vars == <<i8259_intr_no, intr, mutex, IF_, is_nemu_hlt, nemu_state, ctx, at, frames,
          pc, back, num, pend, next_at, int3>>

TASK == -1    \* code of the task
TRAP == -2    \* the handler of int 0x80 or int3
Ctx == Irqs \cup {TASK, TRAP}
Frame == [ctx : Ctx, at : 0 .. MaxAt, IF_ : BOOLEAN]
PC == {"loop", "do_intr", "query", "ack", "raise", "exec", "timer", "keyboard", "end",
       "assert_failed"}

\* The types of the controller's slot, of the frames on the stack and of the places of
\* the loop and of the monitor thread.
TypeOK == /\ i8259_intr_no \in Irqs \cup {I8259_NO_INTR}
          /\ intr \in BOOLEAN
          /\ mutex \in {"free", "monitor", "destroyed"}
          /\ IF_ \in BOOLEAN
          /\ is_nemu_hlt \in BOOLEAN
          /\ nemu_state \in {"RUN", "STOP"}
          /\ ctx \in Ctx /\ at \in 0 .. MaxAt
          /\ frames \in Seq(Frame)
          /\ pc \in PC /\ back \in {"exec", "loop"}
          /\ num \in Irqs \cup {I8259_NO_INTR}
          /\ pend \subseteq Irqs
          /\ next_at \in [Ctx -> 0 .. MaxAt]
          /\ int3 \in BOOLEAN

-----------------------------------------------------------------------------
(* The interrupt controller.                                               *)

\* The condition under which i8259_raise_intr puts irq into the slot: the
\* larger number wins.
TakesSlot(irq) == \/ i8259_intr_no = I8259_NO_INTR
                  \/ irq > i8259_intr_no

\* The slot and the open requests after i8259_raise_intr(irq).  A request that
\* finds a larger one in the slot, or is replaced by one, is outranked.
SlotOverwrites(irq) == i8259_intr_no' = irq   \* mutant: no comparison
SlotWithBase(irq) ==   \* mutant: IRQ_BASE is added twice
    i8259_intr_no' = IF TakesSlot(irq) THEN irq + 32 ELSE i8259_intr_no
Slot(irq) == i8259_intr_no' = IF TakesSlot(irq) THEN irq ELSE i8259_intr_no
Request(irq) == pend' = IF TakesSlot(irq) THEN (pend \ {i8259_intr_no}) \cup {irq}
                                          ELSE pend

\* i8259_raise_intr on the thread of the loop, which nobody can observe half done.
RaiseIrq(irq) ==
    mutex = "free" /\ Slot(irq) /\ Request(irq) /\ intr' = TRUE /\ UNCHANGED mutex

\* i8259_raise_intr on the monitor thread: the loop reads i8259_intr_no and
\* cpu.intr without the mutex, so it sees the two assignments one by one.
MonitorRaise(irq) ==
    /\ mutex = "free"
    /\ mutex' = "monitor"
    /\ Slot(irq)
    /\ Request(irq)
    /\ UNCHANGED <<intr, is_nemu_hlt, nemu_state>> /\ UNCHANGED guest /\ UNCHANGED loop

MonitorUnlock ==
    /\ mutex = "monitor"
    /\ mutex' = "free"
    /\ intr' = TRUE
    /\ UNCHANGED <<i8259_intr_no, pend, is_nemu_hlt, nemu_state>>
    /\ UNCHANGED guest /\ UNCHANGED loop

-----------------------------------------------------------------------------
(* The loop of exec.                                                       *)

\* The test of the while loop; after STOP exec destroys the mutex and returns.
Loop ==
    /\ pc = "loop"
    /\ IF nemu_state = "RUN"
       THEN /\ pc' = IF is_nemu_hlt THEN "timer" ELSE "do_intr"
            /\ back' = "exec"
            /\ UNCHANGED mutex
       ELSE /\ mutex = "free"
            /\ mutex' = "destroyed"
            /\ pc' = "end"
            /\ UNCHANGED back
    /\ UNCHANGED <<i8259_intr_no, intr, pend, is_nemu_hlt, nemu_state, num>>
    /\ UNCHANGED guest

\* do_intr, up to the first read of the slot.
DoIntrNoWake ==   \* mutant: a pending interrupt does not end hlt
    /\ pc = "do_intr"
    /\ pc' = IF intr /\ IF_ THEN "query" ELSE back
    /\ UNCHANGED <<back, num, is_nemu_hlt, nemu_state>>
    /\ UNCHANGED pic /\ UNCHANGED guest
DoIntrIgnoresIF ==   \* mutant: IF is not looked at
    /\ pc = "do_intr"
    /\ IF intr
       THEN pc' = "query" /\ is_nemu_hlt' = FALSE
       ELSE pc' = back /\ UNCHANGED is_nemu_hlt
    /\ UNCHANGED <<back, num, nemu_state>>
    /\ UNCHANGED pic /\ UNCHANGED guest
DoIntr ==
    /\ pc = "do_intr"
    /\ IF intr /\ IF_
       THEN pc' = "query" /\ is_nemu_hlt' = FALSE
       ELSE pc' = back /\ UNCHANGED is_nemu_hlt
    /\ UNCHANGED <<back, num, nemu_state>>
    /\ UNCHANGED pic /\ UNCHANGED guest

\* i8259_query_intr_no and the assert that follows it.
Query ==
    /\ pc = "query"
    /\ num' = i8259_intr_no
    /\ pc' = IF i8259_intr_no = I8259_NO_INTR THEN "assert_failed" ELSE "ack"
    /\ UNCHANGED <<back, is_nemu_hlt, nemu_state>>
    /\ UNCHANGED pic /\ UNCHANGED guest

AckKeepsCpuIntr ==   \* mutant: the slot is emptied but cpu.intr stays set
    /\ pc = "ack"
    /\ mutex = "free"
    /\ i8259_intr_no' = I8259_NO_INTR
    /\ pc' = "raise"
    /\ UNCHANGED <<intr, mutex, pend, back, num, is_nemu_hlt, nemu_state>>
    /\ UNCHANGED guest
Ack ==
    /\ pc = "ack"
    /\ mutex = "free"
    /\ i8259_intr_no' = I8259_NO_INTR
    /\ intr' = FALSE
    /\ pc' = "raise"
    /\ UNCHANGED <<mutex, pend, back, num, is_nemu_hlt, nemu_state>>
    /\ UNCHANGED guest

\* raise_intr: push eflags, cs and eip, and enter the handler of code c.  Only
\* an interrupt gate (type 0xe) clears IF.  eip' is the entry plus extra.
INTR_GATE == 14
TRAP_GATE == 15
Enter(c, returnTo, type, extra) ==
    /\ frames' = Append(frames, [ctx |-> ctx, at |-> returnTo, IF_ |-> IF_])
    /\ IF_' = IF type = INTR_GATE THEN FALSE ELSE IF_
    /\ ctx' = c
    /\ at' = extra

RaiseIntr ==
    /\ pc = "raise"
    /\ Enter(num, at, INTR_GATE, 0)
    /\ next_at' = [next_at EXCEPT ![num] = 0]
    /\ pend' = pend \ {num}
    /\ pc' = back
    /\ UNCHANGED <<i8259_intr_no, intr, mutex, back, num, is_nemu_hlt, nemu_state, int3>>

-----------------------------------------------------------------------------
(* exec_inst: one instruction of the guest.                                *)

Executes(here) == pc = "exec" /\ here /\ pc' = "timer" /\ UNCHANGED <<back, num>>

\* eip += instr_len; at the bound the code jumps back to its start.
Following == IF at < MaxAt THEN at + 1 ELSE 0
Advance == /\ at' = Following
           /\ next_at' = [next_at EXCEPT ![ctx] = Following]
           /\ UNCHANGED <<ctx, frames, int3>>

\* Any instruction that does not touch the state of this module.
Plain == /\ Executes(TRUE)
         /\ Advance
         /\ UNCHANGED <<IF_, is_nemu_hlt, nemu_state>> /\ UNCHANGED pic

Cli == /\ Executes(ctx \in {TASK, TRAP})
       /\ IF_' = FALSE
       /\ Advance
       /\ UNCHANGED <<is_nemu_hlt, nemu_state>> /\ UNCHANGED pic

Sti == /\ Executes(ctx \in {TASK, TRAP})
       /\ IF_' = TRUE
       /\ Advance
       /\ UNCHANGED <<is_nemu_hlt, nemu_state>> /\ UNCHANGED pic

Hlt == /\ Executes(ctx \in {TASK, TRAP})
       /\ is_nemu_hlt' = TRUE
       /\ Advance
       /\ UNCHANGED <<IF_, nemu_state>> /\ UNCHANGED pic

\* out to the command port of the disk: command 0x20 raises the IDE interrupt.
OutIde == /\ Executes(ctx \in {TASK, TRAP})
          /\ RaiseIrq(IDE_IRQ)
          /\ Advance
          /\ UNCHANGED <<IF_, is_nemu_hlt, nemu_state>>

\* int imm: raise_sw_intr adds 2 to eip before raise_intr and int_imm returns 0.
IntImmNoSkip ==   \* mutant: eip is pushed before 2 is added to it
    /\ Executes(ctx = TASK)
    /\ Enter(TRAP, at, TRAP_GATE, 0)
    /\ next_at' = [next_at EXCEPT ![ctx] = Following, ![TRAP] = 0]
    /\ UNCHANGED <<is_nemu_hlt, nemu_state, int3>> /\ UNCHANGED pic
IntImm ==
    /\ Executes(ctx = TASK)
    /\ Enter(TRAP, Following, TRAP_GATE, 0)
    /\ next_at' = [next_at EXCEPT ![ctx] = Following, ![TRAP] = 0]
    /\ UNCHANGED <<is_nemu_hlt, nemu_state, int3>> /\ UNCHANGED pic

\* int3, and into with OF set: raise_intr is called with eip still at the
\* instruction, and the length 1 that is returned is added to the entry.
Int3 ==
    /\ Executes(ctx = TASK)
    /\ Enter(TRAP, at, TRAP_GATE, 1)
    /\ next_at' = [next_at EXCEPT ![ctx] = Following, ![TRAP] = 0]
    /\ int3' = TRUE
    /\ UNCHANGED <<is_nemu_hlt, nemu_state>> /\ UNCHANGED pic

Iret == /\ Executes(ctx # TASK)
        /\ frames # <<>>
        /\ ctx' = Last(frames).ctx
        /\ at' = Last(frames).at
        /\ IF_' = Last(frames).IF_
        /\ frames' = Front(frames)
        /\ UNCHANGED <<next_at, int3, is_nemu_hlt, nemu_state>> /\ UNCHANGED pic

\* nemu_trap ends the run.
NemuTrap == /\ Executes(ctx = TASK)
            /\ nemu_state' = "STOP"
            /\ Advance
            /\ UNCHANGED <<IF_, is_nemu_hlt>> /\ UNCHANGED pic

Instr == Plain \/ Cli \/ Sti \/ Hlt \/ OutIde \/ IntImm \/ Int3 \/ Iret \/ NemuTrap

-----------------------------------------------------------------------------
(* do_devices, then the do_intr at the end of the loop.                    *)

TIMER_IRQ == 0
KEYBOARD_IRQ == 1

\* do_timer: the interval has elapsed (tick) or not.
Timer(tick) ==
    /\ pc = "timer"
    /\ IF tick /\ TIMER_IRQ \in PolledIrqs /\ nemu_state = "RUN"
       THEN RaiseIrq(TIMER_IRQ)
       ELSE UNCHANGED pic
    /\ pc' = "keyboard"
    /\ UNCHANGED <<back, num, is_nemu_hlt, nemu_state>> /\ UNCHANGED guest

\* do_keyboard: no event, key events (each raises the same interrupt), or
\* key events and the window being closed.
Keyboard(key, quit) ==
    /\ pc = "keyboard"
    /\ IF key /\ KEYBOARD_IRQ \in PolledIrqs
       THEN RaiseIrq(KEYBOARD_IRQ)
       ELSE UNCHANGED pic
    /\ nemu_state' = IF quit THEN "STOP" ELSE nemu_state
    /\ pc' = "do_intr"
    /\ back' = "loop"
    /\ UNCHANGED <<num, is_nemu_hlt>> /\ UNCHANGED guest

\* exec has returned: nothing of the machine moves any more.
Ended == pc \in {"end", "assert_failed"} /\ UNCHANGED vars

-----------------------------------------------------------------------------
Init == /\ i8259_intr_no = I8259_NO_INTR
        /\ intr = FALSE
        /\ mutex = "free"
        /\ IF_ = FALSE
        /\ is_nemu_hlt = FALSE
        /\ nemu_state = "RUN"
        /\ ctx = TASK /\ at = 0 /\ frames = <<>>
        /\ pc = "loop" /\ back = "exec" /\ num = I8259_NO_INTR
        /\ pend = {}
        /\ next_at = [c \in Ctx |-> 0] /\ int3 = FALSE

LoopNext == \/ Loop \/ DoIntr \/ Query \/ Ack \/ RaiseIntr \/ Instr
            \/ \E tick \in BOOLEAN : Timer(tick)
            \/ \E key, quit \in BOOLEAN : Keyboard(key, quit)

MonitorNext == (\E irq \in MonitorIrqs : MonitorRaise(irq)) \/ MonitorUnlock

Next == LoopNext \/ MonitorNext \/ Ended

Spec == Init /\ [][Next]_vars

\* The loop runs on; the mutex, when it is free again and again, is obtained;
\* the timer interval elapses again and again while the loop runs; the monitor
\* thread leaves its critical section.
FairSpec == /\ Spec
            /\ SF_vars(LoopNext)
            /\ SF_vars(Timer(TRUE))
            /\ WF_vars(MonitorUnlock)

-----------------------------------------------------------------------------
\* The assert of do_intr holds: whenever the loop sees cpu.intr set, there is a
\* number in the slot, although it looks at both without the mutex while the
\* monitor thread may be in the middle of i8259_raise_intr.
IntrHasNumber == pc # "assert_failed"

\* At most one IRQ handler is active: the interrupt gates keep IF clear until
\* the handler's iret, also when the handler interrupted a system call.  So the
\* guest's stack holds at most the frames of a trap and of one IRQ.
IrqActive == {i \in 1 .. Len(frames) : frames[i].ctx \in Irqs}
OneIrqHandler == /\ IrqActive = {}
                 /\ ctx \in Irqs => ~IF_
                 /\ Len(frames) <= 2

\* Interrupts and system calls are precise: every context continues with the
\* instruction after the last one it executed, whatever interrupted it and
\* wherever, as long as the guest has not executed int3 or into.
Precise == ~int3 => at = next_at[ctx]

\* A request of irq that was not outranked is in the slot until do_intr has taken
\* it from there.
Kept(irq) == irq \in pend => \/ i8259_intr_no = irq
                             \/ pc \in {"ack", "raise"} /\ num = irq

\* No request of the timer, the keyboard or the disk is lost, also while the
\* monitor thread competes for the slot and the loop reads it without the mutex.
PolledKept == \A irq \in PolledIrqs \ MonitorIrqs : Kept(irq)

\* "the i8259_mutex is to protect the i8259_intr_no and cpu.intr": nor is one of
\* the monitor thread itself.
NoSilentLoss == \A irq \in Irqs : Kept(irq)

\* A machine halted with interrupts enabled is woken by the timer, unless it is
\* stopped: the loop keeps polling the devices while is_nemu_hlt is set.
HltWakes == (is_nemu_hlt /\ IF_) ~> (~is_nemu_hlt \/ nemu_state = "STOP")
=============================================================================
