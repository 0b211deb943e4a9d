-------------------------------- MODULE Paging --------------------------------
(***************************************************************************)
(* Linear memory accesses of NEMU: laddr_read and laddr_write              *)
(* (memory/memory.c) with their split at a page boundary, page_translate   *)
(* (memory/mmu/page.c) with the walk of the two-level page tables, and, in *)
(* a TLB_ENABLED build, the fully associative TLB (memory/mmu/tlb.c) that  *)
(* is filled on a miss and that nothing ever flushes.                      *)
(*                                                                         *)
(* The guest kernel is the one of kvm.c, mm.c and elf.c: a kernel          *)
(* directory that maps all frames twice, a user directory that shares the  *)
(* upper half of it and gets its own pages one by one, and a switch from   *)
(* the first to the second.  Page tables are kept apart from the bytes of  *)
(* memory, which no other code of the guest kernel writes to.              *)
(***************************************************************************)
EXTENDS Integers, FiniteSetsExt

CONSTANTS NR_PTE,        \* entries of a page table (1024)
          NR_FRAME,      \* frames of physical memory
          PAGE_SIZE,     \* bytes of a page
          Byte, Lens,    \* values of a byte, lengths of an access
          NR_TLB,        \* entries of the TLB (64)
          KernelPages,   \* pages of the lower half that init still uses with paging
                         \* on, until it jumps to the upper half
          UserPages      \* pages of the lower half that the loader and brk map

ASSUME SizeAssumption == /\ NR_PTE \in Nat \ {0} /\ NR_PTE <= NR_FRAME
                         /\ NR_FRAME \in Nat \ {0}
                         /\ PAGE_SIZE \in Nat \ {0}
                         /\ NR_TLB \in Nat \ {0}
ASSUME DataAssumption == 0 \in Byte /\ Lens \subseteq 1 .. 4
                         /\ \A len \in Lens : len <= PAGE_SIZE
ASSUME LayoutAssumption == /\ KernelPages \subseteq 0 .. NR_PTE - 1
                           /\ UserPages \subseteq 0 .. NR_PTE - 1

Half == {0, 1}                        \* page directory entries: user, kernel
Page == 0 .. 2 * NR_PTE - 1
Frame == 0 .. NR_FRAME - 1
Dir == {"kpdir", "updir"}
Table == {"kptable", "uptable"}
Idx == 0 .. NR_TLB - 1
Laddr == 0 .. 2 * NR_PTE * PAGE_SIZE - 1
U32 == [0 .. 3 -> Byte]
ABSENT == -1
MEM_SIZE_B == NR_FRAME * PAGE_SIZE

VARIABLES mem,           \* the bytes of each frame
          pdir,          \* the table each directory entry points to, or "none"
          ptable,        \* the frame of each page table entry, or ABSENT
          cr3, pg,       \* cpu.cr3 and cpu.cr0.pg
          tlb,           \* key and pte of each entry; vpn = ABSENT if not valid
          req, ret,      \* the last access and what it returned
          status,        \* "run", or "assert_failed"
          TLB_ENABLED    \* the build, chosen once

vars == <<mem, pdir, ptable, cr3, pg, tlb, req, ret, status, TLB_ENABLED>>

Request == [op : {"none", "read", "write"}, laddr : Laddr, len : 0 .. 4, data : U32]
ZeroBytes == [j \in 0 .. 3 |-> 0]
NoRequest == [op |-> "none", laddr |-> 0, len |-> 0, data |-> ZeroBytes]

\* The types of the tables, of CR3, of the TLB and of the last access.
TypeOK == /\ mem \in [Frame -> [0 .. PAGE_SIZE - 1 -> Byte]]
          /\ pdir \in [Dir -> [Half -> Table \cup {"none"}]]
          /\ ptable \in [Table -> [0 .. NR_PTE - 1 -> Frame \cup {ABSENT}]]
          /\ cr3 \in Dir /\ pg \in BOOLEAN
          /\ tlb \in [Idx -> [vpn : Page \cup {ABSENT}, frame : Frame]]
          /\ req \in Request /\ ret \in U32
          /\ status \in {"run", "assert_failed"} /\ TLB_ENABLED \in BOOLEAN

-----------------------------------------------------------------------------
(* Translation.                                                            *)

\* page_walk: the two levels; ABSENT stands for the failure of its asserts.
Walk(p) == LET t == pdir[cr3][p \div NR_PTE] IN
           IF t = "none" THEN ABSENT ELSE ptable[t][p % NR_PTE]

\* tlb_query: the first entry whose key is that of the page.
Hits(t, p) == {e \in Idx : t[e].vpn = p}

\* The TLB after tlb_fetch, with the victim that rand() picks.
TlbFetchNoWalk(t, p, victim) ==   \* mutant: the key is set, the pte is not
    IF ~pg \/ ~TLB_ENABLED \/ Hits(t, p) # {} THEN t
    ELSE [t EXCEPT ![victim].vpn = p]
TlbFetch(t, p, victim) ==
    IF ~pg \/ ~TLB_ENABLED \/ Hits(t, p) # {} THEN t
    ELSE [t EXCEPT ![victim] = [vpn |-> p, frame |-> Walk(p)]]

\* The frame that page_translate returns, given the TLB after tlb_fetch; the
\* page itself while paging is off.
PageTranslate(t, p) == IF ~pg THEN p
                       ELSE IF TLB_ENABLED THEN t[Min(Hits(t, p))].frame
                       ELSE Walk(p)

\* The asserts on present; while paging is off a page of the memory.
Translatable(t, p) == IF ~pg THEN p \in Frame
                      ELSE Walk(p) # ABSENT \/ (TLB_ENABLED /\ Hits(t, p) # {})

-----------------------------------------------------------------------------
(* laddr_read and laddr_write.                                             *)

PageOf(x) == x \div PAGE_SIZE
OffsetOf(x) == x % PAGE_SIZE
CrossesPage(x, len) == PageOf(x) # PageOf(x + len - 1)

\* NEXTPAGE(laddr) - laddr
LowLen(x, len) == IF CrossesPage(x, len) THEN PAGE_SIZE - OffsetOf(x) ELSE len

\* paddr_read of len bytes in a frame.
PaddrRead(f, off, len) == [j \in 0 .. 3 |-> IF j < len THEN mem[f][off + j] ELSE 0]
PaddrWrite(m, f, off, len, data) ==
    [m EXCEPT ![f] = [o \in 0 .. PAGE_SIZE - 1 |->
                        IF o >= off /\ o < off + len THEN data[o - off] ELSE @[o]]]

\* (high << (lowlen*8)) | low, and data >> (lowlen*8).
JoinNoShift(low, high, lowlen) ==   \* mutant: high | low
    [j \in 0 .. 3 |-> IF j < lowlen THEN low[j] ELSE high[j]]
Join(low, high, lowlen) ==
    [j \in 0 .. 3 |-> IF j < lowlen THEN low[j] ELSE high[j - lowlen]]
HighSame(data, lowlen) == data   \* mutant: not shifted
High(data, lowlen) == [j \in 0 .. 3 |-> IF j + lowlen < 4 THEN data[j + lowlen] ELSE 0]

\* The bound of paddr_read and paddr_write, which the last byte of memory exceeds.
InMemory(t, p, off, len) ==
    LET frame == IF ~pg THEN p
                 ELSE IF TLB_ENABLED /\ Hits(t, p) # {} THEN t[Min(Hits(t, p))].frame
                 ELSE Walk(p)
    IN frame * PAGE_SIZE + off + len < MEM_SIZE_B

\* The two pages of an access, translated one after the other.
Accessible(x, len, v1) ==
    LET lowlen == LowLen(x, len)
        t1 == TlbFetch(tlb, PageOf(x), v1)
    IN /\ Translatable(tlb, PageOf(x))
       /\ InMemory(tlb, PageOf(x), OffsetOf(x), lowlen)
       /\ CrossesPage(x, len) => /\ Translatable(t1, PageOf(x) + 1)
                                 /\ InMemory(t1, PageOf(x) + 1, 0, len - lowlen)

LaddrRead(x, len, v1, v2) ==
    /\ Accessible(x, len, v1)
    /\ LET t1 == TlbFetch(tlb, PageOf(x), v1)
           t2 == TlbFetch(t1, PageOf(x) + 1, v2)
           lowlen == LowLen(x, len)
           low == PaddrRead(PageTranslate(t1, PageOf(x)), OffsetOf(x), lowlen)
       IN IF CrossesPage(x, len)
          THEN /\ tlb' = t2
               /\ ret' = Join(low, PaddrRead(PageTranslate(t2, PageOf(x) + 1), 0,
                                             len - lowlen), lowlen)
          ELSE tlb' = t1 /\ ret' = low
    /\ req' = [op |-> "read", laddr |-> x, len |-> len, data |-> ZeroBytes]
    /\ UNCHANGED <<mem, pdir, ptable, cr3, pg, status>>

LaddrWrite(x, len, data, v1, v2) ==
    /\ Accessible(x, len, v1)
    /\ LET t1 == TlbFetch(tlb, PageOf(x), v1)
           t2 == TlbFetch(t1, PageOf(x) + 1, v2)
           lowlen == LowLen(x, len)
           m1 == PaddrWrite(mem, PageTranslate(t1, PageOf(x)), OffsetOf(x), lowlen, data)
       IN IF CrossesPage(x, len)
          THEN /\ tlb' = t2
               /\ mem' = PaddrWrite(m1, PageTranslate(t2, PageOf(x) + 1), 0,
                                    len - lowlen, High(data, lowlen))
          ELSE tlb' = t1 /\ mem' = m1
    /\ req' = [op |-> "write", laddr |-> x, len |-> len, data |-> data]
    /\ ret' = ZeroBytes
    /\ UNCHANGED <<pdir, ptable, cr3, pg, status>>

\* A failed assert of the page walk, or an address behind the memory.
NotPresent(x, len, v1) ==
    /\ ~Accessible(x, len, v1)
    /\ status' = "assert_failed"
    /\ UNCHANGED <<mem, pdir, ptable, cr3, pg, tlb, req, ret>>

-----------------------------------------------------------------------------
(* What the guest kernel does to the tables and to the control registers.  *)

\* init_page ends with CR0.PG set.
EnablePaging == /\ ~pg
                /\ pg' = TRUE
                /\ req' = NoRequest /\ ret' = ZeroBytes
                /\ UNCHANGED <<mem, pdir, ptable, cr3, tlb, status>>

\* mm_malloc and create_video_mapping give a page of the user half a frame.
MapPage(k, f) == /\ pg
                 /\ ptable["uptable"][k] = ABSENT
                 /\ ptable' = [ptable EXCEPT !["uptable"][k] = f]
                 /\ pdir' = [pdir EXCEPT !["updir"][0] = "uptable"]
                 /\ req' = NoRequest /\ ret' = ZeroBytes
                 /\ UNCHANGED <<mem, cr3, pg, tlb, status>>

\* mov_to_cr: write_cr3(get_ucr3()) at the end of the loader.
LoadCr3Table == /\ pg   \* mutant: CR3 gets the address of the page table
                /\ cr3 = "kpdir"
                /\ cr3' = "uptable"
                /\ req' = NoRequest /\ ret' = ZeroBytes
                /\ UNCHANGED <<mem, pdir, ptable, pg, tlb, status>>
LoadCr3 == /\ pg
           /\ cr3 = "kpdir"
           /\ cr3' = "updir"
           /\ req' = NoRequest /\ ret' = ZeroBytes
           /\ UNCHANGED <<mem, pdir, ptable, pg, tlb, status>>

\* After init_page, init_mm and init_mem: both halves of kpdir share one table.
Init == /\ mem = [f \in Frame |-> [o \in 0 .. PAGE_SIZE - 1 |-> 0]]
        /\ pdir = [d \in Dir |-> [h \in Half |->
                     IF d = "kpdir" \/ h = 1 THEN "kptable" ELSE "none"]]
        /\ ptable = [t \in Table |-> [k \in 0 .. NR_PTE - 1 |->
                       IF t = "kptable" THEN k ELSE ABSENT]]
        /\ cr3 = "kpdir" /\ pg = FALSE
        /\ tlb = [e \in Idx |-> [vpn |-> ABSENT, frame |-> 0]]
        /\ req = NoRequest /\ ret = ZeroBytes /\ status = "run"
        /\ TLB_ENABLED \in BOOLEAN

Data(len) == {d \in U32 : \A j \in 0 .. 3 : j >= len => d[j] = 0}

\* With paging on, what the kernel uses before the user directory is in force.
KernelUses(p) == p \div NR_PTE = 1 \/ p \in KernelPages

Access(x, len) ==
    /\ status = "run" /\ x + len - 1 \in Laddr
    /\ ~pg \/ cr3 = "updir" \/ (KernelUses(PageOf(x)) /\ KernelUses(PageOf(x + len - 1)))
    /\ \E v1, v2 \in Idx :
          \/ LaddrRead(x, len, v1, v2)
          \/ \E data \in Data(len) : LaddrWrite(x, len, data, v1, v2)
          \/ NotPresent(x, len, v1)

Kernel == /\ status = "run"
          /\ \/ EnablePaging \/ LoadCr3
             \/ \E k \in UserPages, f \in Frame : MapPage(k, f)

Next == /\ Kernel \/ \E x \in Laddr, len \in Lens : Access(x, len)
        /\ UNCHANGED TLB_ENABLED

Spec == Init /\ [][Next]_vars

-----------------------------------------------------------------------------
(* Properties.                                                             *)

\* The byte at linear address x according to the tables in force, if any.
Linear(x) == LET f == IF pg THEN Walk(PageOf(x)) ELSE PageOf(x)
             IN IF f = ABSENT THEN ABSENT ELSE mem[f][OffsetOf(x)]

\* A read returns the bytes that the page tables in force give to the linear
\* addresses it names, also where they lie in two frames that are not adjacent.
ReadsLinear == req.op = "read" =>
    \A j \in 0 .. 3 : IF j < req.len THEN Linear(req.laddr + j) \in {ret[j], ABSENT}
                                      ELSE ret[j] = 0

\* A write reaches exactly those bytes, in both of its pages.
WritesLinear == req.op = "write" =>
    \A j \in 0 .. req.len - 1 : Linear(req.laddr + j) \in {req.data[j], ABSENT}

\* No TLB entry shadows a mapping of the page tables in force, although an entry
\* of the kernel directory survives the load of CR3 and pages are mapped later,
\* and no page has two entries.
TlbSound == \A e, d \in Idx :
    tlb[e].vpn # ABSENT => /\ Walk(tlb[e].vpn) \in {tlb[e].frame, ABSENT}
                           /\ tlb[d].vpn = tlb[e].vpn => d = e

\* Both kinds of access reach the bytes that the page tables in force name.
AccessesLinear == ReadsLinear /\ WritesLinear

\* The TLB stays a part of the page tables in force.
TranslationSound == TypeOK /\ TlbSound
=============================================================================
