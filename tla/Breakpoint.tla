------------------------------ MODULE Breakpoint ------------------------------
(***************************************************************************)
(* The breakpoints of the monitor (monitor/breakpoint.c), the commands b,  *)
(* w, d, c and si that use them (monitor/ui.c), and the part of exec       *)
(* (cpu/cpu.c) that hits a breakpoint, puts the original byte back, and    *)
(* sets the breakpoints again after the next instruction.                  *)
(*                                                                         *)
(* The guest's code is one byte per instruction: "op" or "int3" (0xF1).    *)
(* It may jump anywhere, stop at a nemu_trap, and be interrupted by a      *)
(* handler of one instruction (iret).  expr evaluates a watchpoint to the  *)
(* constant its text starts with, so a watchpoint takes an element of the  *)
(* pool and scan_watchpoint never finds a change.                          *)
(***************************************************************************)
EXTENDS Integers, Sequences, SequencesExt

CONSTANTS LastAddr,     \* the code occupies 0 .. LastAddr
          InCode,       \* addresses of BREAK_POINT instructions of the program
          NR_BP,        \* size of the pool (32)
          Counts,       \* arguments the user gives to si
          SetTwice,     \* does the user set a breakpoint where there is one?
          Interrupts    \* do devices interrupt the guest?

Addr == 0 .. LastAddr
HANDLER == LastAddr     \* the interrupt handler of the guest
NO == 0 .. NR_BP - 1
NONE == -1
INF == -1               \* the n of exec(-1)

ASSUME CodeAssumption == /\ LastAddr \in Nat \ {0}
                         /\ InCode \subseteq Addr \ {HANDLER}
ASSUME PoolAssumption == NR_BP \in Nat \ {0}
ASSUME UserAssumption == /\ Counts \subseteq Nat \ {0}
                         /\ SetTwice \in BOOLEAN
                         /\ Interrupts \in BOOLEAN

VARIABLES code,         \* the code bytes in memory
          bp_list,      \* type, addr and ori_byte of each element of the pool
          head, free_,  \* the two lists through next, as sequences of numbers
          nemu_state,
          eip, ret,     \* the guest: next instruction, and where the handler returns
          pc,           \* "ui", "exec", "exited" or "assert_failed"
          n, rerun,     \* n and hit_break_rerun of exec
          bp            \* address of the element in the static bp of exec, or NONE

pool == <<bp_list, head, free_>>
vars == <<code, bp_list, head, free_, nemu_state, eip, ret, pc, n, rerun, bp>>

Byte == {"op", "int3"}
INT3_CODE == "int3"
Original == [a \in Addr |-> IF a \in InCode THEN INT3_CODE ELSE "op"]

\* The types of the pool of breakpoints, of the program and of the loop's state.
TypeOK == /\ code \in [Addr -> Byte]
          /\ bp_list \in [NO -> [type : {"BREAKPOINT", "WATCHPOINT"}, addr : Addr,
                                 ori_byte : Byte]]
          /\ head \in Seq(NO) /\ free_ \in Seq(NO)
          /\ nemu_state \in {"READY", "RUN", "BREAK", "STOP"}
          /\ eip \in Addr /\ ret \in Addr \cup {NONE}
          /\ pc \in {"ui", "exec", "exited", "assert_failed"}
          /\ n \in Nat \cup {INF} /\ rerun \in BOOLEAN
          /\ bp \in Addr \cup {NONE}

-----------------------------------------------------------------------------
(* The pool and its two lists.                                             *)

\* The addresses of the breakpoints of the list.
IsBreakpoint(k) == bp_list[k].type = "BREAKPOINT"
BpAddrs == {bp_list[k].addr : k \in {j \in Range(head) : IsBreakpoint(j)}}

\* find_breakpoint: the newest breakpoint of the list at a, of those at ListedAt(a).
ListedAt(a) == {i \in DOMAIN head : IsBreakpoint(head[i]) /\ bp_list[head[i]].addr = a}
FindBreakpoint(a) == head[Min(ListedAt(a))]

\* new_BP, and the insertion at the head of the list.
Take(rec) == /\ bp_list' = [bp_list EXCEPT ![Head(free_)] = rec]
             /\ free_' = Tail(free_)
             /\ head' = <<Head(free_)>> \o head

SetBreakpoint(a) ==
    /\ pc = "ui" /\ free_ # <<>>
    /\ SetTwice \/ a \notin BpAddrs
    /\ Take([type |-> "BREAKPOINT", addr |-> a, ori_byte |-> code[a]])
    /\ code' = [code EXCEPT ![a] = INT3_CODE]
    /\ UNCHANGED <<nemu_state, eip, ret, pc, n, rerun, bp>>

SetWatchpoint ==
    /\ pc = "ui" /\ free_ # <<>>
    /\ Take([type |-> "WATCHPOINT", addr |-> 0, ori_byte |-> "op"])
    /\ UNCHANGED <<code, nemu_state, eip, ret, pc, n, rerun, bp>>

\* The assert of new_BP.
PoolEmpty ==
    /\ pc = "ui" /\ free_ = <<>>
    /\ pc' = "assert_failed"
    /\ UNCHANGED pool /\ UNCHANGED <<code, nemu_state, eip, ret, n, rerun, bp>>

\* free_BP puts the original byte back and the element in front of free_.
Freed(k) == IF IsBreakpoint(k) THEN [code EXCEPT ![bp_list[k].addr] = bp_list[k].ori_byte]
                               ELSE code

DeleteBreakpointKeepsCode(k) ==   \* mutant: the original byte is not put back
    /\ pc = "ui" /\ Contains(head, k)
    /\ head' = Remove(head, k)
    /\ free_' = <<k>> \o free_
    /\ UNCHANGED <<code, bp_list, nemu_state, eip, ret, pc, n, rerun, bp>>
DeleteBreakpointKeepsLink(k) ==   \* mutant: the element is not taken off the list
    /\ pc = "ui" /\ Contains(head, k)
    /\ code' = Freed(k)
    /\ free_' = <<k>> \o free_
    /\ UNCHANGED <<head, bp_list, nemu_state, eip, ret, pc, n, rerun, bp>>
DeleteBreakpoint(k) ==
    /\ pc = "ui"
    /\ \E i \in DOMAIN head : head[i] = k /\ head' = RemoveAt(head, i)
    /\ code' = Freed(k)
    /\ free_' = <<k>> \o free_
    /\ UNCHANGED <<bp_list, nemu_state, eip, ret, pc, n, rerun, bp>>

\* The recursion frees the oldest element first, the newest last: of several at an
\* address the newest puts its byte there.
DeleteAll ==
    /\ pc = "ui" /\ head # <<>>
    /\ code' = [a \in Addr |-> IF a \in BpAddrs THEN bp_list[FindBreakpoint(a)].ori_byte
                                              ELSE code[a]]
    /\ head' = <<>>
    /\ free_' = head \o free_
    /\ UNCHANGED <<bp_list, nemu_state, eip, ret, pc, n, rerun, bp>>

-----------------------------------------------------------------------------
(* exec.                                                                   *)

\* The commands c (m = INF) and si m: the entry of exec.
Exec(m) ==
    /\ pc = "ui"
    /\ rerun' = (nemu_state = "BREAK")
    /\ nemu_state' = "RUN"
    /\ n' = m
    /\ pc' = "exec"
    /\ UNCHANGED pool /\ UNCHANGED <<code, eip, ret, bp>>

\* do_intr: nothing, or the entry of the handler; IF is clear inside of it.
DoIntr(g) ==
    {g} \cup IF Interrupts /\ g.ret = NONE THEN {[g EXCEPT !.eip = HANDLER, !.ret = g.eip]}
                                           ELSE {}

\* exec_inst and eip += instr_len, but for break_point, which leaves eip to Stop.
ExecInst(g) ==
    IF code[g.eip] = INT3_CODE THEN {[g EXCEPT !.state = "BREAK"]}
    ELSE IF g.eip = HANDLER THEN {[g EXCEPT !.eip = g.ret, !.ret = NONE]}
    ELSE [eip : Addr \ {HANDLER}, ret : {g.ret}, state : {"RUN", "STOP"}]

\* resume_breakpoints.
NotResumed == code   \* mutant: the breakpoints are not set again
Resumed == [a \in Addr |-> IF a \in BpAddrs THEN INT3_CODE ELSE code[a]]

\* The instruction that led to g was break_point, at a breakpoint of the list.
Hits(g) == g.state = "BREAK" /\ g.eip \in BpAddrs

\* eip after break_point: back at the breakpoint, or behind a BREAK_POINT of the
\* program (the code before the handler ends with a jump to its start).
StopBefore(g) ==   \* mutant: eip is taken back one byte too far
    IF Hits(g) THEN [g EXCEPT !.eip = g.eip - 1] ELSE g
Stop(g) == IF g.state # "BREAK" \/ Hits(g) THEN g
           ELSE [g EXCEPT !.eip = IF g.eip + 1 < HANDLER THEN g.eip + 1 ELSE 0]

\* The code after the instruction that led to g: the breakpoints set again if
\* this was the first instruction after a stop, the original byte if one was hit.
CodeAfterResumeLast(g) ==   \* mutant: set again after the byte was put back
    LET c == IF Hits(g) THEN [code EXCEPT ![g.eip] = bp_list[FindBreakpoint(g.eip)].ori_byte]
                        ELSE code
    IN [a \in Addr |-> IF rerun /\ a \in BpAddrs THEN INT3_CODE ELSE c[a]]
CodeAfter(g) ==
    LET c == IF rerun THEN Resumed ELSE code IN
    IF Hits(g) THEN [c EXCEPT ![g.eip] = bp_list[FindBreakpoint(g.eip)].ori_byte] ELSE c

\* One pass of the loop of exec, and what follows the loop if it ends.
Step ==
    /\ pc = "exec"
    /\ \E g \in DoIntr([eip |-> eip, ret |-> ret, state |-> nemu_state]) :
       \E h \in ExecInst(g) :
       \E d \in DoIntr(Stop(h)) :
          /\ code' = CodeAfter(h)
          /\ bp' = IF h.state # "BREAK" THEN bp
                   ELSE IF Hits(h) THEN h.eip ELSE NONE
          /\ eip' = d.eip /\ ret' = d.ret
          /\ n' = IF n = INF THEN INF ELSE n - 1
          /\ nemu_state' = IF h.state # "STOP" /\ n' = 0 THEN "READY" ELSE h.state
    /\ rerun' = FALSE
    /\ pc' = CASE nemu_state' = "RUN" -> "exec"
               [] nemu_state' = "STOP" -> "exited"
               [] OTHER -> "ui"
    /\ UNCHANGED pool

\* The command q, or the end of ui_mainloop after nemu_trap; an abort.
Quit == /\ pc = "ui"
        /\ pc' = "exited"
        /\ UNCHANGED pool
        /\ UNCHANGED <<code, nemu_state, eip, ret, n, rerun, bp>>
Ended == pc \in {"exited", "assert_failed"} /\ UNCHANGED vars

-----------------------------------------------------------------------------
\* init_bp_list and main.
Init == /\ code = Original
        /\ bp_list = [k \in NO |-> [type |-> "BREAKPOINT", addr |-> 0, ori_byte |-> "op"]]
        /\ head = <<>> /\ free_ = [k \in 1 .. NR_BP |-> k - 1]
        /\ nemu_state = "READY" /\ eip = 0 /\ ret = NONE
        /\ pc = "ui" /\ n = 0 /\ rerun = FALSE /\ bp = NONE

Next == \/ \E a \in Addr : SetBreakpoint(a)
        \/ SetWatchpoint \/ PoolEmpty
        \/ \E k \in NO : DeleteBreakpoint(k)
        \/ DeleteAll
        \/ \E m \in Counts \cup {INF} : Exec(m)
        \/ Step \/ Quit \/ Ended

Spec == Init /\ [][Next]_vars

-----------------------------------------------------------------------------
(* Properties.                                                             *)

\* The lists partition the pool, so the asserts on in_use hold: new_BP never
\* hands out an element of the list and every element freed comes back once.
PoolSound == /\ IsInjective(head \o free_)
             /\ Range(head \o free_) = NO

\* The first instruction after a stop at a breakpoint sets every breakpoint of the
\* list again, but for the one at which that instruction itself stops.
Rearmed ==
    [][Step /\ rerun => \A a \in BpAddrs :
          code'[a] = INT3_CODE \/ (bp' = a /\ nemu_state' # "RUN")]_vars

\* "check for breakpoints": every breakpoint of the list stops the program, that
\* is, its byte is in the code, but for the one just hit, until the next
\* instruction has been executed.
Armed == \A a \in BpAddrs : \/ code[a] = INT3_CODE
                            \/ a = bp /\ (nemu_state = "BREAK" \/ rerun)

\* The program is not changed: a byte differs from the original only where the
\* list still has a breakpoint.
CodeRestored == \A a \in Addr : code[a] # Original[a] => a \in BpAddrs

\* "found, then restore the original opcode": when the program stops at a
\* breakpoint, the instruction there is the program's own again, so that the
\* next command executes it.
StopsOnOriginal ==
    [][Step /\ nemu_state' = "BREAK" /\ bp' # NONE => code'[bp'] = Original[bp']]_vars

\* Setting, hitting and deleting in any order keep the lists, and the program
\* apart from the breakpoints of the list.
ListAndCodeSound == TypeOK /\ PoolSound /\ CodeRestored
=============================================================================
