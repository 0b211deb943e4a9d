-------------------------------- MODULE Kernel --------------------------------
(***************************************************************************)
(* The guest kernel from init_cond to the system calls of a program: the   *)
(* pool of IRQ handlers and its dispatch (irq/irq_handle.c), the loader    *)
(* (elf/elf.c), brk (memory/mm.c), and do_syscall, which hands the calls   *)
(* on files to the module FileSystem.                                      *)
(*                                                                         *)
(* Interrupts are enabled by init_idt before init_ide registers its        *)
(* handlers, so add_irq_handle is a sequence of steps that an interrupt    *)
(* may separate; in a system call they are between cli and sti.            *)
(*                                                                         *)
(* A page has PG bytes.  Physical memory is a set of frames; the loader    *)
(* writes a segment through the physical address of its first byte, as if  *)
(* its frames were adjacent.  mm_malloc is a binary (mm_malloc.o): it maps *)
(* every page of a range that is not present to the next free frame and    *)
(* returns the physical address of the first byte.                         *)
(***************************************************************************)
EXTENDS FileSystem, Sequences

CONSTANTS NR_IRQ_HANDLE,   \* size of handle_pool
          PG, Frames,      \* bytes of a page; frames for programs, 1 .. Frames
          StackPage,       \* stands for the stack, above the heap
          Images,          \* programs: sequences of PT_LOAD segments
          HeapEnds         \* bound: ends of the heap that sbrk asks for

Page == 0 .. StackPage
Phys == 0 .. (Frames + 1) * PG - 1
NULL == NR_IRQ_HANDLE
Ptr == 0 .. NR_IRQ_HANDLE
KernelHandlers == << <<0, "ide_writeback">>, <<14, "ide_intr">> >>          \* init_ide
GameHandlers == << <<0, "timer_event">>, <<1, "keyboard_event">> >>  \* game_init
NR_HARD_INTR == 16
Irqs == {0, 1, 14}

ASSUME KernelAssumption ==
    /\ NR_IRQ_HANDLE \in Nat /\ PG \in Nat \ {0} /\ Frames \in Nat /\ StackPage \in Nat
    /\ HeapEnds \subseteq 0 .. StackPage * PG
\* A program has a segment at least, and its segments come in ascending order, as
\* the ELF format demands; two of them may meet in a page.
ASSUME ImageAssumption == \A im \in Images :
    /\ im \in Seq([vaddr : Nat, filesz : Nat, memsz : Nat]) /\ im # <<>>
    /\ \A k \in DOMAIN im :
          /\ im[k].filesz <= im[k].memsz
          /\ im[k].vaddr + im[k].memsz <= StackPage * PG
          /\ \A j \in 1 .. k - 1 : im[j].vaddr + im[j].memsz <= im[k].vaddr

VARIABLES pc,             \* "init_ide", "loader", "game_init" or "run"
          todo,           \* registrations that are still to be made
          add, ptr,       \* the place in add_irq_handle and its local ptr
          handle_pool, handles, handle_count, IF_,
          registered,     \* history: the routines of each irq, newest first
          called,         \* history: what the last interrupt has called, and which it was
          image, seg,     \* the program and its segments loaded so far
          pt,             \* the page tables of the program: a frame, or 0
          mem, free,      \* physical memory; the next free frame
          brk, heap_end   \* of the kernel, and of sbrk in the program

irqs == <<todo, add, ptr, handle_pool, handles, handle_count, registered>>
memory == <<image, seg, pt, mem, free, brk, heap_end>>
kvars == <<irqs, memory, pc, IF_, called, vars>>

Quiet == <<NR_HARD_INTR, <<>> >>    \* no interrupt in this step

\* The types of the kernel's state: the pool is never indexed beyond its end, and
\* mm_malloc hands out frames that exist.
KTypeOK ==
    /\ pc \in {"init_ide", "loader", "game_init", "run"}
    /\ add \in {"idle", "routine", "next", "link"} /\ ptr \in Ptr
    /\ DOMAIN handle_pool = 0 .. NR_IRQ_HANDLE - 1
    /\ \A p \in DOMAIN handle_pool : handle_pool[p].next \in Ptr
    /\ handles \in [Irqs -> Ptr] /\ handle_count \in Ptr
    /\ status # "overrun"
    /\ IF_ \in BOOLEAN
    /\ image \in Images /\ seg \in 0 .. Len(image)
    /\ pt \in [Page -> 0 .. Frames] /\ free \in 1 .. Frames + 1
    /\ DOMAIN mem = Phys
    /\ brk \in 0 .. StackPage * PG /\ heap_end \in 0 .. StackPage * PG

-----------------------------------------------------------------------------
(* irq/irq_handle.c                                                        *)

\* add_irq_handle: an element of the pool, ...  The assert lets handle_count be
\* NR_IRQ_HANDLE, which is one too many.
AddBegin ==
    /\ add = "idle" /\ todo # <<>>
    /\ pc # "loader"
    /\ IF handle_count < NR_IRQ_HANDLE
       THEN /\ ptr' = handle_count /\ handle_count' = handle_count + 1
            /\ add' = "routine"
            /\ IF_' = (IF_ /\ pc = "init_ide")    \* do_syscall executes cli
            /\ UNCHANGED status
       ELSE /\ status' = "overrun"
            /\ UNCHANGED <<ptr, handle_count, add, IF_>>
    /\ UNCHANGED <<todo, handle_pool, handles, registered>>

\* ... its routine, ...
AddRoutine ==
    /\ add = "routine"
    /\ handle_pool' = [handle_pool EXCEPT ![ptr].routine = Head(todo)[2]]
    /\ add' = "next"
    /\ UNCHANGED <<todo, ptr, handles, handle_count, registered, IF_, status>>

\* ... its successor, ...
AddNextPublished ==   \* mutant: the head of the list is set before the successor
    LET irq == Head(todo)[1] IN
    /\ add = "next"
    /\ handles' = [handles EXCEPT ![irq] = ptr]
    /\ handle_pool' = [handle_pool EXCEPT ![ptr].next = handles'[irq]]
    /\ add' = "link"
    /\ UNCHANGED <<todo, ptr, handle_count, registered, IF_, status>>
AddNext ==
    /\ add = "next"
    /\ handle_pool' = [handle_pool EXCEPT ![ptr].next = handles[Head(todo)[1]]]
    /\ add' = "link"
    /\ UNCHANGED <<todo, ptr, handles, handle_count, registered, IF_, status>>

\* ... and the head of the list.  After the last one initialization goes on.
AddLink ==
    LET irq == Head(todo)[1] IN
    /\ add = "link"
    /\ handles' = [handles EXCEPT ![irq] = ptr]
    /\ registered' = [registered EXCEPT ![irq] = <<Head(todo)[2]>> \o @]
    /\ todo' = Tail(todo)
    /\ add' = "idle"
    /\ IF_' = TRUE                                \* do_syscall executes sti
    /\ UNCHANGED <<ptr, handle_pool, handle_count, status>>

AddIrqHandle == /\ AddBegin \/ AddRoutine \/ AddNext \/ AddLink
                /\ called' = Quiet
                /\ UNCHANGED <<memory, pc, files, last>>

\* init_ide is followed by init_mm and the loader, game_init by main_loop.
Continue == /\ todo = <<>> /\ add = "idle"
            /\ \/ pc = "init_ide" /\ pc' = "loader"
               \/ pc = "game_init" /\ pc' = "run"
            /\ called' = Quiet
            /\ UNCHANGED <<irqs, memory, IF_, vars>>

\* The routines that the loop of irq_handle calls from each element of a list on: by
\* one pass more of the loop, after n of them, and to the end of the list.
OneMore(calls) == [q \in Ptr |-> IF q = NULL THEN <<>>
                                 ELSE <<handle_pool[q].routine>> \o calls[handle_pool[q].next]]
Calls[n \in 0 .. NR_IRQ_HANDLE] ==
    IF n = 0 THEN [q \in Ptr |-> <<>>] ELSE OneMore(Calls[n - 1])
Walk(p) == Calls[NR_IRQ_HANDLE][p]

IrqHandle(irq) == /\ IF_
                  /\ called' = <<irq, Walk(handles[irq])>>
                  /\ UNCHANGED <<irqs, memory, pc, IF_, vars>>

-----------------------------------------------------------------------------
(* Memory of the program.                                                  *)
PageOf(va) == va \div PG
Phy(tables, va) == tables[PageOf(va)] * PG + (va % PG)

\* mm_malloc(va, len): the tables and the next free frame after it.
MmMallocRemap(va, len) ==   \* mutant: pages that are present are mapped again
    LET new == IF len > 0 THEN PageOf(va) .. PageOf(va + len - 1) ELSE {}
        nth(p) == Cardinality({q \in new : q < p})
    IN [pt |-> [p \in Page |-> IF p \in new THEN free + nth(p) ELSE pt[p]],
        free |-> free + Cardinality(new)]
MmMalloc(va, len) ==
    LET range == IF len > 0 THEN PageOf(va) .. PageOf(va + len - 1) ELSE {}
        new == {p \in range : pt[p] = 0}
        nth(p) == Cardinality({q \in new : q < p})
    IN [pt |-> [p \in Page |-> IF p \in new THEN free + nth(p) ELSE pt[p]],
        free |-> free + Cardinality(new)]

\* assert: no frame is left.
NoFrameLate(m) == m.free > Frames + 2   \* mutant: one frame too many
NoFrame(m) == m.free > Frames + 1
OutOfFrames == /\ status' = "assert_failed"
               /\ UNCHANGED <<memory, pc>>

\* Memory after segment s is read to dst and filled up with zeros.
Copied(s, dst, filled) ==
    [a \in Phys |-> CASE a - dst \in 0 .. image[s].filesz - 1 -> <<s, a - dst>>
                     [] a - dst \in image[s].filesz .. image[s].filesz + filled - 1 -> <<0, 0>>
                     [] OTHER -> mem[a]]
SegmentReadNoBss(s, dst) == Copied(s, dst, 0)   \* mutant: the rest is not zeroed
SegmentRead(s, dst) == Copied(s, dst, image[s].memsz - image[s].filesz)

\* One segment: it is mapped, read from the disk and filled up with zeros through
\* consecutive physical addresses, and the break is moved.
LoadSegment ==
    LET s == seg + 1
        m == MmMalloc(image[s].vaddr, image[s].memsz)
        dst == Phy(m.pt, image[s].vaddr)
        end == image[s].vaddr + image[s].memsz - 1
    IN /\ pc = "loader" /\ seg < Len(image)
       /\ IF NoFrame(m) THEN OutOfFrames
          ELSE /\ pt' = m.pt /\ free' = m.free /\ seg' = s
               /\ mem' = SegmentRead(s, dst)
               /\ brk' = IF brk < end THEN end ELSE brk
               /\ UNCHANGED <<image, heap_end, pc, status>>

\* The stack is mapped and the program starts, with heap_end behind its last segment.
StartProgram ==
    LET m == MmMalloc(StackPage * PG, PG) IN
    /\ pc = "loader" /\ seg = Len(image)
    /\ IF NoFrame(m) THEN OutOfFrames /\ UNCHANGED todo
       ELSE /\ pt' = m.pt /\ free' = m.free
            /\ heap_end' = image[seg].vaddr + image[seg].memsz
            /\ pc' = "game_init" /\ todo' = GameHandlers
            /\ UNCHANGED <<image, seg, mem, brk, status>>

Loader == /\ \/ LoadSegment /\ UNCHANGED todo
             \/ StartProgram
          /\ called' = Quiet
          /\ UNCHANGED <<add, ptr, handle_pool, handles, handle_count, registered, IF_,
                         files, last>>

\* sbrk of the program, and sys_brk with mm_brk.
SbrkMovesFirst(new) ==   \* mutant: brk is moved before the memory is mapped
    LET m == MmMalloc(new, 0) IN
    /\ pc = "run"
    /\ pt' = m.pt /\ free' = m.free /\ brk' = new /\ heap_end' = new
    /\ called' = Quiet
    /\ UNCHANGED <<irqs, image, seg, mem, pc, IF_, vars>>
Sbrk(new) ==
    LET m == MmMalloc(brk, new - brk) IN
    /\ pc = "run" /\ new >= image[seg].vaddr + image[seg].memsz
    /\ IF NoFrame(m) THEN OutOfFrames
       ELSE /\ pt' = m.pt /\ free' = m.free /\ brk' = new /\ heap_end' = new
            /\ UNCHANGED <<image, seg, mem, pc, status>>
    /\ called' = Quiet
    /\ UNCHANGED <<irqs, IF_, files, last>>

\* The calls on files, and any other number: panic.
FileCall == /\ pc = "run"
            /\ Next
            /\ called' = Quiet
            /\ UNCHANGED <<irqs, memory, pc, IF_>>

-----------------------------------------------------------------------------
KInit == /\ Init
         /\ pc = "init_ide" /\ todo = KernelHandlers
         /\ add = "idle" /\ ptr = NULL
         /\ handle_pool = [p \in 0 .. NR_IRQ_HANDLE - 1 |-> [routine |-> "null", next |-> NULL]]
         /\ handles = [irq \in Irqs |-> NULL] /\ handle_count = 0
         /\ IF_ = TRUE
         /\ registered = [irq \in Irqs |-> <<>>] /\ called = Quiet
         /\ image \in Images /\ seg = 0
         /\ pt = [p \in Page |-> 0] /\ free = 1
         /\ mem = [a \in Phys |-> <<0, 1>>]
         /\ brk = 0 /\ heap_end = 0

KNext == /\ status = "run"
         /\ \/ AddIrqHandle \/ Continue \/ Loader \/ FileCall
            \/ \E new \in HeapEnds : Sbrk(new)
            \/ \E irq \in Irqs : IrqHandle(irq)

KSpec == KInit /\ [][KNext]_kvars

-----------------------------------------------------------------------------
(* Properties.                                                             *)

\* An interrupt at any point, also inside add_irq_handle, calls exactly the
\* routines that have been registered for it, each once and the newest first.
DispatchComplete == called[1] \in Irqs => called[2] = registered[called[1]]

\* The program finds every byte of its loaded segments where its page tables say,
\* file contents and zeros alike, although the loader writes through physical
\* addresses and segments may share a page, and brk does not take any of them away.
ImageLoaded == \A s \in 1 .. seg : \A k \in 0 .. image[s].memsz - 1 :
    LET va == image[s].vaddr + k IN
    /\ pt[PageOf(va)] # 0
    /\ mem[Phy(pt, va)] = IF k < image[s].filesz THEN <<s, k>> ELSE <<0, 0>>

\* After any growing and shrinking the whole heap is mapped, each page to a frame
\* of its own.
HeapMapped ==
    /\ pc = "run" => \A va \in image[seg].vaddr .. heap_end - 1 : pt[PageOf(va)] # 0
    /\ \A p, q \in Page : p # q /\ pt[p] # 0 => pt[p] # pt[q]

\* Memory and pool of the kernel: whatever segments, breaks and handlers ask for,
\* frames are not shared, the heap is mapped and the pool suffices.
ResourcesSound == TypeOK /\ KTypeOK /\ HeapMapped

\* "get a free handler" (irq_handle.c:27): what the assert before it admits gets an
\* element of the pool.
HandlerFree == status # "overrun"

\* The system calls on files: what begins in a file stays there and is complete, and
\* offsets and seeks stay in the bounds that check_boundary really sets.
FileCallsRight == StaysInFile /\ TransfersAll /\ OffsetsBounded /\ SeekLands
=============================================================================
