-------------------------- MODULE ProcessorProofs --------------------------
(***************************************************************************)
(* The processor's paging and its instructions, for every value of the     *)
(* constants.  Paging: the TLB that nothing flushes never shadows a        *)
(* mapping of the page tables in force, and every linear access, in one    *)
(* page or in two, reaches the bytes that the tables name.  Instructions:  *)
(* the routines that compare, those that move blocks and those of integer  *)
(* arithmetic compute what they are for at every width of the words, with  *)
(* an interrupt between any two of their instructions.                     *)
(***************************************************************************)
EXTENDS Paging, Routines, NumberLemmas, FiniteSetTheorems, FunctionTheorems, TLAPS

(***************************************************************************)
(*                                 Paging                                  *)
(***************************************************************************)

(***************************************************************************)
(* The inductive invariant.  TlbSound speaks of the tables in force, which *)
(* change under the TLB when CR3 is loaded and when a page is mapped, so   *)
(* it is not inductive: EntryInv(t) says where each entry came from.       *)
(***************************************************************************)

\* The kernel directory maps the frames one to one, twice; the user directory
\* shares its upper half, and its table holds pages of the program only.
TablesInv ==
    /\ \A h \in Half : pdir["kpdir"][h] = "kptable"
    /\ pdir["updir"][1] = "kptable" /\ pdir["updir"][0] \in {"none", "uptable"}
    /\ \A k \in 0 .. NR_PTE - 1 :
          /\ ptable["kptable"][k] = k
          /\ ptable["uptable"][k] # ABSENT =>
                k \in UserPages /\ pdir["updir"][0] = "uptable"

\* Before paging is on, the kernel directory is loaded and the TLB is empty.
ModeInv == /\ ~pg => cr3 = "kpdir"
           /\ ~pg \/ ~TLB_ENABLED => \A e \in Idx : tlb[e].vpn = ABSENT

\* An entry is a one to one mapping of a page that the kernel uses, or a page
\* of the program, which only a walk of the user directory can bring in.
EntryInv(t) == \A e \in Idx : t[e].vpn # ABSENT =>
    \/ KernelUses(t[e].vpn) /\ t[e].frame = t[e].vpn % NR_PTE
    \/ /\ cr3 = "updir" /\ t[e].vpn < NR_PTE
       /\ ptable["uptable"][t[e].vpn] = t[e].frame

MemType == [Frame -> [0 .. PAGE_SIZE - 1 -> Byte]]
TlbType == [Idx -> [vpn : Page \cup {ABSENT}, frame : Frame]]
OneEntry(t) == \A e, d \in Idx : t[e].vpn # ABSENT /\ t[d].vpn = t[e].vpn => d = e
GoodTlb(t) == t \in TlbType /\ EntryInv(t) /\ OneEntry(t)

IInv == TypeOK /\ TablesInv /\ ModeInv /\ EntryInv(tlb) /\ OneEntry(tlb) /\ AccessesLinear

-----------------------------------------------------------------------------
(* Pages and offsets of the bytes of an access.                            *)

\* A page number splits into an entry of the directory and one of a table.
LEMMA PageEntries ==
    ASSUME NEW p \in Page
    PROVE  /\ p \div NR_PTE \in Half /\ p % NR_PTE \in 0 .. NR_PTE - 1
           /\ p \div NR_PTE = 0 <=> p < NR_PTE
           /\ p < NR_PTE => p % NR_PTE = p
<1> DEFINE q == p \div NR_PTE
           r == p % NR_PTE
<1>1. p \in Nat /\ p < 2 * NR_PTE /\ NR_PTE \in Nat \ {0}
    BY SizeAssumption DEF Page
<1>2. q \in Nat /\ r \in 0 .. NR_PTE - 1 /\ p = q * NR_PTE + r
    BY <1>1, DivMod
<1> HIDE DEF q, r
<1>3. q < 2
    <2> SUFFICES ASSUME ~(q < 2) PROVE FALSE
        OBVIOUS
    <2>1. 1 * NR_PTE + NR_PTE <= q * NR_PTE
        BY <1>1, <1>2, LessTimes
    <2>2. q * NR_PTE \in Nat
        BY <1>1, <1>2
    <2> QED BY <1>1, <1>2, <2>1, <2>2
<1>4. CASE q = 0
    <2>1. p = r
        BY <1>4, <1>2, <1>1
    <2> QED BY <2>1, <1>1, <1>2, <1>4 DEF Half, q, r
<1>5. CASE q = 1
    <2>1. p = NR_PTE + r
        BY <1>5, <1>2, <1>1
    <2> QED BY <2>1, <1>1, <1>2, <1>5 DEF Half, q, r
<1> QED BY <1>2, <1>3, <1>4, <1>5

\* The page of an address is a page.
LEMMA PageOfLaddr ==
    ASSUME NEW x \in Laddr
    PROVE  /\ PageOf(x) \in Page /\ OffsetOf(x) \in 0 .. PAGE_SIZE - 1
           /\ x = PageOf(x) * PAGE_SIZE + OffsetOf(x)
<1> DEFINE pages == 2 * NR_PTE
<1>1. pages \in Nat /\ PAGE_SIZE \in Nat \ {0} /\ pages * PAGE_SIZE \in Nat
    BY SizeAssumption
<1>2. x \in Nat /\ x < pages * PAGE_SIZE
    BY <1>1 DEF Laddr
<1> HIDE DEF pages
<1>3. PageOf(x) \in Nat /\ OffsetOf(x) \in 0 .. PAGE_SIZE - 1
      /\ x = PageOf(x) * PAGE_SIZE + OffsetOf(x)
    BY <1>1, <1>2, DivMod DEF PageOf, OffsetOf
<1>4. PageOf(x) < pages
    <2> SUFFICES ASSUME pages <= PageOf(x) PROVE FALSE
        BY <1>1, <1>3
    <2>1. pages * PAGE_SIZE <= PageOf(x) * PAGE_SIZE
        <3>1. CASE pages = PageOf(x)
            BY <3>1, <1>1
        <3>2. CASE pages < PageOf(x)
            <4>1. pages * PAGE_SIZE + PAGE_SIZE <= PageOf(x) * PAGE_SIZE
                BY <3>2, <1>1, <1>3, LessTimes
            <4>2. PageOf(x) * PAGE_SIZE \in Nat
                BY <1>1, <1>3
            <4> QED BY <4>1, <4>2, <1>1
        <3> QED BY <3>1, <3>2, <1>1, <1>3
    <2>2. PageOf(x) * PAGE_SIZE \in Nat
        BY <1>1, <1>3
    <2> QED BY <2>1, <2>2, <1>1, <1>2, <1>3
<1> QED BY <1>1, <1>3, <1>4 DEF Page, pages

\* Address 0 is one.
LEMMA ZeroLaddr == 0 \in Laddr
<1>1. 2 * NR_PTE \in Nat \ {0} /\ PAGE_SIZE \in Nat \ {0}
    BY SizeAssumption
<1>2. ASSUME NEW a \in Nat \ {0}, NEW b \in Nat \ {0} PROVE a * b \in Nat \ {0}
    OBVIOUS
<1>3. 2 * NR_PTE * PAGE_SIZE \in Nat \ {0}
    BY <1>1, <1>2
<1> QED BY <1>3 DEF Laddr

\* Byte j of an access lies in the first page, or from lowlen on in the next.
LEMMA ByteOfAccess ==
    ASSUME NEW x \in Laddr, NEW len \in Lens, NEW j \in 0 .. len - 1
    PROVE  LET low == PAGE_SIZE - OffsetOf(x)
           IN IF j < low
              THEN PageOf(x + j) = PageOf(x) /\ OffsetOf(x + j) = OffsetOf(x) + j
              ELSE PageOf(x + j) = PageOf(x) + 1 /\ OffsetOf(x + j) = j - low
<1> DEFINE p == PageOf(x)
           o == OffsetOf(x)
           low == PAGE_SIZE - o
           b == p * PAGE_SIZE
<1>1. /\ p \in Nat /\ o \in 0 .. PAGE_SIZE - 1 /\ x = b + o
      /\ PAGE_SIZE \in Nat \ {0} /\ j \in Nat /\ j < PAGE_SIZE
    BY PageOfLaddr, SizeAssumption, DataAssumption DEF Page
<1>2. b \in Nat
    BY <1>1
<1> HIDE DEF p, o, b
<1>3. CASE j < low
    <2>1. x + j = b + (o + j) /\ o + j \in 0 .. PAGE_SIZE - 1
        BY <1>1, <1>2, <1>3
    <2>2. (x + j) \div PAGE_SIZE = p /\ (x + j) % PAGE_SIZE = o + j
        <3> DEFINE r == o + j
        <3>1. x + j = p * PAGE_SIZE + r /\ r \in 0 .. PAGE_SIZE - 1
            BY <2>1 DEF b
        <3> HIDE DEF r
        <3>2. (x + j) \div PAGE_SIZE = p /\ (x + j) % PAGE_SIZE = r
            BY <3>1, <1>1, DivModUnique
        <3> QED BY <3>2 DEF r
    <2> QED BY <1>3, <2>2 DEF PageOf, OffsetOf, p, o
<1>4. CASE ~(j < low)
    <2> DEFINE q == p + 1
               r == j - low
    <2>1. x + j = b + PAGE_SIZE + r /\ r \in 0 .. PAGE_SIZE - 1 /\ q \in Nat
        BY <1>1, <1>2, <1>4
    <2>2. q * PAGE_SIZE = b + PAGE_SIZE
        BY <1>1, SuccTimes DEF b
    <2> HIDE DEF q, r
    <2>3. (x + j) \div PAGE_SIZE = q /\ (x + j) % PAGE_SIZE = r
        BY <2>1, <2>2, <1>1, DivModUnique
    <2> QED BY <1>4, <2>3 DEF PageOf, OffsetOf, p, o, q, r
<1> QED BY <1>3, <1>4

\* An access crosses into the next page if it does not fit into the first; that
\* page is one, as the last byte of the access has an address.
LEMMA Crossing ==
    ASSUME NEW x \in Laddr, NEW len \in Lens, x + len - 1 \in Laddr
    PROVE  /\ CrossesPage(x, len) <=> len > PAGE_SIZE - OffsetOf(x)
           /\ CrossesPage(x, len) => /\ PageOf(x) + 1 \in Page
                                     /\ PageOf(x + len - 1) = PageOf(x) + 1
<1>1. len \in 1 .. 4 /\ len - 1 \in 0 .. len - 1 /\ x \in Nat /\ PageOf(x) \in Nat
    BY DataAssumption, PageOfLaddr, SizeAssumption DEF Laddr, Page
<1>2. OffsetOf(x) \in 0 .. PAGE_SIZE - 1 /\ PAGE_SIZE \in Nat
    BY PageOfLaddr, SizeAssumption
<1>3. x + len - 1 = x + (len - 1)
    BY <1>1
<1>4. IF len - 1 < PAGE_SIZE - OffsetOf(x) THEN PageOf(x + len - 1) = PageOf(x)
                                            ELSE PageOf(x + len - 1) = PageOf(x) + 1
    BY <1>1, <1>3, ByteOfAccess
<1>5. PageOf(x + len - 1) \in Page
    BY PageOfLaddr
<1> QED BY <1>1, <1>2, <1>4, <1>5 DEF CrossesPage

-----------------------------------------------------------------------------
(* Translation.                                                            *)

\* What page_walk finds: the one to one mapping of the kernel, or in the lower
\* half of the user directory the page of the program.
LEMMA WalkFinds ==
    ASSUME TypeOK, TablesInv, NEW p \in Page
    PROVE  /\ Walk(p) = IF cr3 = "kpdir" \/ ~(p < NR_PTE) THEN p % NR_PTE
                                                        ELSE ptable["uptable"][p]
           /\ Walk(p) \in Frame \cup {ABSENT}
<1>1. /\ p \div NR_PTE \in Half /\ p % NR_PTE \in 0 .. NR_PTE - 1
      /\ p \div NR_PTE = 0 <=> p < NR_PTE
      /\ p < NR_PTE => p % NR_PTE = p
    BY PageEntries
<1>2. p % NR_PTE \in Frame
    BY <1>1, SizeAssumption DEF Frame
<1>3. CASE cr3 = "kpdir" \/ ~(p < NR_PTE)
    <2>1. pdir[cr3][p \div NR_PTE] = "kptable"
        BY <1>1, <1>3 DEF TypeOK, TablesInv, Dir, Half
    <2> QED BY <1>1, <1>2, <1>3, <2>1 DEF Walk, TablesInv
<1>4. CASE ~(cr3 = "kpdir" \/ ~(p < NR_PTE))
    <2>1. cr3 = "updir" /\ p \div NR_PTE = 0 /\ p % NR_PTE = p /\ p \in 0 .. NR_PTE - 1
        BY <1>1, <1>4 DEF TypeOK, Dir
    <2>2. ptable["uptable"][p] \in Frame \cup {ABSENT}
        BY <2>1 DEF TypeOK, Table
    <2>3. CASE pdir["updir"][0] = "none"
        BY <2>1, <2>2, <2>3, <1>4 DEF Walk, TablesInv
    <2>4. CASE pdir["updir"][0] = "uptable"
        BY <2>1, <2>2, <2>4, <1>4 DEF Walk
    <2> QED BY <2>3, <2>4 DEF TablesInv
<1> QED BY <1>3, <1>4

\* An entry agrees with the tables in force, or they do not map its page: an entry
\* of a page that the kernel uses outlives the load of CR3, and the program gets
\* no such page.
LEMMA EntriesAgree ==
    ASSUME KernelPages \cap UserPages = {}, TypeOK, TablesInv, NEW t, GoodTlb(t),
           NEW e \in Idx, t[e].vpn # ABSENT
    PROVE  Walk(t[e].vpn) \in {t[e].frame, ABSENT}
<1> DEFINE p == t[e].vpn
<1>1. p \in Page
    BY DEF GoodTlb, TlbType
<1>2. CASE KernelUses(p) /\ t[e].frame = p % NR_PTE
    <2>1. CASE cr3 = "kpdir" \/ ~(p < NR_PTE)
        BY <1>1, <1>2, <2>1, WalkFinds
    <2>2. CASE cr3 # "kpdir" /\ p < NR_PTE
        <3>1. p \in KernelPages
            BY <1>1, <1>2, <2>2, PageEntries DEF KernelUses
        <3>2. p \in 0 .. NR_PTE - 1 /\ p \notin UserPages
            BY <3>1, LayoutAssumption
        <3>3. ptable["uptable"][p] = ABSENT
            BY <3>2 DEF TablesInv
        <3> QED BY <1>1, <2>2, <3>3, WalkFinds
    <2> QED BY <2>1, <2>2
<1>3. CASE /\ cr3 = "updir" /\ p < NR_PTE
           /\ ptable["uptable"][p] = t[e].frame
    BY <1>1, <1>3, WalkFinds
<1> QED BY <1>2, <1>3 DEF GoodTlb, EntryInv

\* The pages that Next lets an access touch.
MayUse(p) == ~pg \/ cr3 = "updir" \/ KernelUses(p)

\* tlb_fetch keeps the TLB sound, and page_translate then returns the frame that
\* page_walk finds, or one that the entry of an unmapped page still holds.
LEMMA FetchAndTranslate ==
    ASSUME KernelPages \cap UserPages = {}, TypeOK, TablesInv, NEW t, GoodTlb(t),
           NEW p \in Page, NEW v \in Idx, MayUse(p), Translatable(t, p)
    PROVE  LET u == TlbFetch(t, p, v)
               f == PageTranslate(u, p)
           IN /\ GoodTlb(u)
              /\ ~pg \/ ~TLB_ENABLED => u = t
              /\ f \in Frame
              /\ (IF pg THEN Walk(p) ELSE p) \in {f, ABSENT}
<1> DEFINE u == TlbFetch(t, p, v)
           f == PageTranslate(u, p)
<1>1. CASE ~pg
    BY <1>1 DEF TlbFetch, PageTranslate, Translatable
<1>2. CASE pg /\ ~TLB_ENABLED
    BY <1>2, WalkFinds DEF TlbFetch, PageTranslate, Translatable
<1>3. ASSUME pg, TLB_ENABLED, NEW s, GoodTlb(s), Hits(s, p) # {}
      PROVE  PageTranslate(s, p) \in Frame /\ Walk(p) \in {PageTranslate(s, p), ABSENT}
    <2> DEFINE e == Min(Hits(s, p))
    <2>1. Hits(s, p) \subseteq Nat
        BY SizeAssumption DEF Hits, Idx
    <2>2. e \in Hits(s, p)
        BY <1>3, <2>1, MinIsElement
    <2> HIDE DEF e
    <2>3. e \in Idx /\ s[e].vpn = p /\ p # ABSENT
        BY <2>2, SizeAssumption DEF Hits, Page, ABSENT
    <2>4. Walk(p) \in {s[e].frame, ABSENT} /\ s[e].frame \in Frame
        BY <2>3, <1>3, EntriesAgree DEF GoodTlb, TlbType
    <2> QED BY <1>3, <2>4 DEF PageTranslate, e
<1>4. CASE pg /\ TLB_ENABLED /\ Hits(t, p) # {}
    <2>1. u = t
        BY <1>4 DEF TlbFetch
    <2> QED BY <1>3, <1>4, <2>1
<1>5. CASE pg /\ TLB_ENABLED /\ Hits(t, p) = {}
    <2> DEFINE n == [vpn |-> p, frame |-> Walk(p)]
    <2>1. u = [t EXCEPT ![v] = n]
        BY <1>5 DEF TlbFetch
    <2>2. Walk(p) \in Frame /\ p # ABSENT
        BY <1>5, WalkFinds, SizeAssumption DEF Translatable, Page, ABSENT
    <2>3. \A e \in Idx : u[e] = IF e = v THEN n ELSE t[e]
        BY <2>1 DEF GoodTlb, TlbType
    <2>4. u \in TlbType
        BY <2>1, <2>2 DEF GoodTlb, TlbType
    <2>5. \/ KernelUses(p) /\ Walk(p) = p % NR_PTE
          \/ cr3 = "updir" /\ p < NR_PTE /\ ptable["uptable"][p] = Walk(p)
        <3>1. CASE p < NR_PTE /\ cr3 # "kpdir"
            BY <3>1, WalkFinds DEF TypeOK, Dir
        <3>2. CASE p < NR_PTE /\ cr3 = "kpdir"
            BY <3>2, <1>5, WalkFinds DEF MayUse
        <3>3. CASE ~(p < NR_PTE)
            BY <3>3, WalkFinds, PageEntries DEF KernelUses, Half
        <3> QED BY <3>1, <3>2, <3>3
    <2>6. EntryInv(u)
        <3> SUFFICES ASSUME NEW e \in Idx, u[e].vpn # ABSENT
                     PROVE  \/ KernelUses(u[e].vpn) /\ u[e].frame = u[e].vpn % NR_PTE
                            \/ /\ cr3 = "updir" /\ u[e].vpn < NR_PTE
                               /\ ptable["uptable"][u[e].vpn] = u[e].frame
            BY DEF EntryInv
        <3>1. CASE e = v
            BY <3>1, <2>3, <2>5
        <3>2. CASE e # v
            BY <3>2, <2>3 DEF GoodTlb, EntryInv
        <3> QED BY <3>1, <3>2
    <2>7. OneEntry(u)
        <3>1. \A e \in Idx : t[e].vpn # p
            BY <1>5 DEF Hits
        <3> QED BY <2>3, <3>1 DEF GoodTlb, OneEntry
    <2>8. Hits(u, p) # {}
        BY <2>3 DEF Hits
    <2> QED BY <1>3, <1>5, <2>4, <2>6, <2>7, <2>8 DEF GoodTlb
<1> QED BY <1>1, <1>2, <1>4, <1>5 DEF TypeOK

-----------------------------------------------------------------------------
(* The bytes that an access reaches.                                       *)

\* Memory w is memory m with len bytes of word written in frame f at off.
Written(w, m, f, off, len, word) ==
    /\ w \in MemType
    /\ \A g \in Frame, o \in 0 .. PAGE_SIZE - 1 :
          w[g][o] = IF g = f /\ o >= off /\ o < off + len THEN word[o - off] ELSE m[g][o]

\* paddr_write keeps the type of memory and changes the bytes it covers.
LEMMA WriteInFrame ==
    ASSUME NEW m \in MemType, NEW f \in Frame, NEW off \in Nat, NEW len \in 0 .. 4,
           NEW word \in U32
    PROVE  Written(PaddrWrite(m, f, off, len, word), m, f, off, len, word)
<1> DEFINE new == [o \in 0 .. PAGE_SIZE - 1 |->
                     IF o >= off /\ o < off + len THEN word[o - off] ELSE m[f][o]]
<1>1. PaddrWrite(m, f, off, len, word) = [m EXCEPT ![f] = new]
    BY DEF PaddrWrite
<1>2. new \in [0 .. PAGE_SIZE - 1 -> Byte]
    <2> SUFFICES ASSUME NEW o \in 0 .. PAGE_SIZE - 1
                 PROVE  new[o] \in Byte
        OBVIOUS
    <2>1. m[f][o] \in Byte
        BY DEF MemType
    <2>2. o >= off /\ o < off + len => o - off \in 0 .. 3
        BY SizeAssumption
    <2> QED BY <2>1, <2>2 DEF U32
<1>3. \A o \in 0 .. PAGE_SIZE - 1 :
        new[o] = IF o >= off /\ o < off + len THEN word[o - off] ELSE m[f][o]
    OBVIOUS
<1> HIDE DEF new
<1> QED BY <1>1, <1>2, <1>3 DEF MemType, Written

\* The frames of an access, and the TLB it leaves behind.
LEMMA AccessFrames ==
    ASSUME KernelPages \cap UserPages = {}, IInv,
           NEW x \in Laddr, NEW len \in Lens, x + len - 1 \in Laddr,
           MayUse(PageOf(x)), MayUse(PageOf(x + len - 1)),
           NEW v1 \in Idx, NEW v2 \in Idx, Accessible(x, len, v1)
    PROVE  LET t1 == TlbFetch(tlb, PageOf(x), v1)
               t2 == TlbFetch(t1, PageOf(x) + 1, v2)
               f1 == PageTranslate(t1, PageOf(x))
               f2 == PageTranslate(t2, PageOf(x) + 1)
           IN /\ GoodTlb(t1) /\ (~pg \/ ~TLB_ENABLED => t1 = tlb)
              /\ f1 \in Frame /\ (IF pg THEN Walk(PageOf(x)) ELSE PageOf(x)) \in {f1, ABSENT}
              /\ CrossesPage(x, len) =>
                    /\ GoodTlb(t2) /\ (~pg \/ ~TLB_ENABLED => t2 = tlb)
                    /\ f2 \in Frame
                    /\ (IF pg THEN Walk(PageOf(x) + 1) ELSE PageOf(x) + 1) \in {f2, ABSENT}
<1> DEFINE t1 == TlbFetch(tlb, PageOf(x), v1)
           t2 == TlbFetch(t1, PageOf(x) + 1, v2)
           f1 == PageTranslate(t1, PageOf(x))
           f2 == PageTranslate(t2, PageOf(x) + 1)
<1>1. GoodTlb(tlb) /\ TypeOK /\ TablesInv
    BY DEF IInv, GoodTlb, TlbType, TypeOK
<1>2. PageOf(x) \in Page
    BY PageOfLaddr
<1>3. /\ GoodTlb(t1) /\ (~pg \/ ~TLB_ENABLED => t1 = tlb)
      /\ f1 \in Frame /\ (IF pg THEN Walk(PageOf(x)) ELSE PageOf(x)) \in {f1, ABSENT}
    BY <1>1, <1>2, FetchAndTranslate DEF Accessible
<1>4. ASSUME CrossesPage(x, len)
      PROVE  /\ GoodTlb(t2) /\ (~pg \/ ~TLB_ENABLED => t2 = t1)
             /\ f2 \in Frame
             /\ (IF pg THEN Walk(PageOf(x) + 1) ELSE PageOf(x) + 1) \in {f2, ABSENT}
    <2>1. PageOf(x) + 1 \in Page /\ MayUse(PageOf(x) + 1)
        BY <1>4, Crossing
    <2>2. Translatable(t1, PageOf(x) + 1)
        BY <1>4 DEF Accessible
    <2> HIDE DEF t1
    <2> QED BY <1>1, <1>3, <2>1, <2>2, FetchAndTranslate
<1> HIDE DEF t1, t2, f1, f2
<1>5. /\ GoodTlb(t1) /\ (~pg \/ ~TLB_ENABLED => t1 = tlb)
      /\ f1 \in Frame /\ (IF pg THEN Walk(PageOf(x)) ELSE PageOf(x)) \in {f1, ABSENT}
      /\ CrossesPage(x, len) =>
            /\ GoodTlb(t2) /\ (~pg \/ ~TLB_ENABLED => t2 = tlb)
            /\ f2 \in Frame
            /\ (IF pg THEN Walk(PageOf(x) + 1) ELSE PageOf(x) + 1) \in {f2, ABSENT}
    BY <1>3, <1>4
<1> QED BY <1>5 DEF t1, t2, f1, f2

\* The byte at a linear address, in the frame that its page is translated to,
\* before and after a step that leaves the tables alone.
LEMMA LinearByte ==
    ASSUME NEW y, NEW f, (IF pg THEN Walk(PageOf(y)) ELSE PageOf(y)) \in {f, ABSENT},
           UNCHANGED <<pdir, ptable, cr3, pg>>
    PROVE  Linear(y)' \in {mem'[f][OffsetOf(y)], ABSENT}
BY DEF Linear, Walk

\* A step that leaves the tables alone and leaves a sound TLB behind keeps the
\* parts of the invariant about them.
LEMMA TablesKept ==
    ASSUME IInv, NEW t, GoodTlb(t), ~pg \/ ~TLB_ENABLED => t = tlb, tlb' = t,
           UNCHANGED <<pdir, ptable, cr3, pg, TLB_ENABLED>>
    PROVE  TablesInv' /\ ModeInv' /\ EntryInv(tlb)' /\ OneEntry(tlb)' /\ tlb' \in TlbType
BY DEF IInv, TablesInv, ModeInv, GoodTlb, EntryInv, OneEntry, KernelUses

\* laddr_read returns the bytes that the tables name.
LEMMA ReadStep ==
    ASSUME KernelPages \cap UserPages = {}, IInv,
           NEW x \in Laddr, NEW len \in Lens, x + len - 1 \in Laddr,
           MayUse(PageOf(x)), MayUse(PageOf(x + len - 1)),
           NEW v1 \in Idx, NEW v2 \in Idx, LaddrRead(x, len, v1, v2),
           UNCHANGED TLB_ENABLED
    PROVE  IInv'
<1> DEFINE t1 == TlbFetch(tlb, PageOf(x), v1)
           t2 == TlbFetch(t1, PageOf(x) + 1, v2)
           f1 == PageTranslate(t1, PageOf(x))
           f2 == PageTranslate(t2, PageOf(x) + 1)
           low == PAGE_SIZE - OffsetOf(x)
           lowlen == LowLen(x, len)
           part == PaddrRead(f1, OffsetOf(x), lowlen)
<1>1. /\ OffsetOf(x) \in 0 .. PAGE_SIZE - 1 /\ low \in 1 .. PAGE_SIZE
      /\ PAGE_SIZE \in Nat \ {0} /\ len \in 1 .. 4 /\ len <= PAGE_SIZE
      /\ x \in Nat
    BY PageOfLaddr, SizeAssumption, DataAssumption DEF Laddr
<1>2. /\ CrossesPage(x, len) <=> len > low
      /\ lowlen = IF len > low THEN low ELSE len
    BY Crossing DEF LowLen
<1>3. /\ GoodTlb(t1) /\ (~pg \/ ~TLB_ENABLED => t1 = tlb)
      /\ f1 \in Frame /\ (IF pg THEN Walk(PageOf(x)) ELSE PageOf(x)) \in {f1, ABSENT}
      /\ len > low =>
            /\ GoodTlb(t2) /\ (~pg \/ ~TLB_ENABLED => t2 = tlb)
            /\ f2 \in Frame
            /\ (IF pg THEN Walk(PageOf(x) + 1) ELSE PageOf(x) + 1) \in {f2, ABSENT}
    BY <1>2, AccessFrames DEF LaddrRead
<1>4. /\ req' = [op |-> "read", laddr |-> x, len |-> len, data |-> ZeroBytes]
      /\ UNCHANGED <<mem, pdir, ptable, cr3, pg, status>>
      /\ tlb' = IF len > low THEN t2 ELSE t1
      /\ ret' = IF len > low THEN Join(part, PaddrRead(f2, 0, len - lowlen), lowlen)
                             ELSE part
    BY <1>2 DEF LaddrRead
<1> HIDE DEF t1, t2, f1, f2, low, lowlen, part
<1>5. TablesInv' /\ ModeInv' /\ EntryInv(tlb)' /\ OneEntry(tlb)' /\ tlb' \in TlbType
    BY <1>3, <1>4, TablesKept
<1>6. ASSUME NEW j \in 0 .. 3, j < len
      PROVE  LET f == IF j < low THEN f1 ELSE f2
             IN /\ f \in Frame /\ OffsetOf(x + j) \in 0 .. PAGE_SIZE - 1
                /\ ret'[j] = mem[f][OffsetOf(x + j)]
                /\ (IF pg THEN Walk(PageOf(x + j)) ELSE PageOf(x + j)) \in {f, ABSENT}
    <2>1. j \in 0 .. len - 1 /\ len \in Nat
        BY <1>1, <1>6
    <2>2. IF j < low
          THEN PageOf(x + j) = PageOf(x) /\ OffsetOf(x + j) = OffsetOf(x) + j
          ELSE PageOf(x + j) = PageOf(x) + 1 /\ OffsetOf(x + j) = j - low
        BY <2>1, ByteOfAccess DEF low
    <2>3. CASE j < low
        <3>1. ret'[j] = mem[f1][OffsetOf(x) + j]
            BY <1>1, <1>2, <1>4, <1>6, <2>3 DEF Join, PaddrRead, part
        <3> QED BY <1>1, <1>3, <2>2, <2>3, <3>1 DEF low
    <2>4. CASE ~(j < low)
        <3>1. len > low /\ lowlen = low
            BY <1>1, <1>2, <1>6, <2>4
        <3>2. j - low \in 0 .. 3 /\ j - low < len - low
            BY <1>1, <1>6, <2>4
        <3>3. ret'[j] = PaddrRead(f2, 0, len - low)[j - low]
            BY <1>4, <2>4, <3>1 DEF Join
        <3>4. ret'[j] = mem[f2][j - low]
            BY <3>2, <3>3 DEF PaddrRead
        <3> QED BY <1>1, <1>3, <2>2, <2>4, <3>1, <3>2, <3>4
    <2> QED BY <2>3, <2>4
<1>7. ASSUME NEW j \in 0 .. 3, ~(j < len)
      PROVE  ret'[j] = 0
    <2>1. CASE len > low
        <3>1. lowlen = low /\ ~(j < low) /\ j - low \in 0 .. 3 /\ ~(j - low < len - low)
            BY <1>1, <1>2, <1>7, <2>1
        <3> QED BY <1>4, <2>1, <3>1 DEF Join, PaddrRead
    <2>2. CASE ~(len > low)
        BY <1>2, <1>4, <1>7, <2>2 DEF PaddrRead, part
    <2> QED BY <2>1, <2>2
<1>8. ret' \in U32
    <2>1. ret' = [j \in 0 .. 3 |-> ret'[j]]
        BY <1>4 DEF Join, PaddrRead, part
    <2>2. ASSUME NEW j \in 0 .. 3 PROVE ret'[j] \in Byte
        <3>1. CASE j < len
            <4>1. PICK f \in Frame, o \in 0 .. PAGE_SIZE - 1 : ret'[j] = mem[f][o]
                BY <1>6, <3>1
            <4>2. mem[f] \in [0 .. PAGE_SIZE - 1 -> Byte]
                BY DEF IInv, TypeOK
            <4> QED BY <4>1, <4>2
        <3>2. CASE ~(j < len)
            BY <1>7, <3>2, DataAssumption
        <3> QED BY <3>1, <3>2
    <2> QED BY <2>1, <2>2 DEF U32
<1>9. TypeOK'
    <2>1. req' \in Request
        BY <1>1, <1>4, DataAssumption DEF Request, ZeroBytes, U32
    <2> QED BY <1>4, <1>5, <1>8, <2>1 DEF IInv, TypeOK, TlbType
<1>10. AccessesLinear'
    <2>1. req'.op = "read" /\ req'.len = len /\ req'.laddr = x
        BY <1>4
    <2>2. ASSUME NEW j \in 0 .. 3, j < len
          PROVE  Linear(x + j)' \in {ret'[j], ABSENT}
        BY <1>4, <1>6, <2>2, LinearByte
    <2>3. ReadsLinear'
        <3> SUFFICES ASSUME NEW j \in 0 .. 3
                     PROVE  IF j < len THEN Linear(x + j)' \in {ret'[j], ABSENT}
                                       ELSE ret'[j] = 0
            BY <2>1 DEF ReadsLinear
        <3> QED BY <1>7, <2>2
    <2> QED BY <2>1, <2>3 DEF AccessesLinear, WritesLinear
<1> QED BY <1>5, <1>9, <1>10 DEF IInv

\* laddr_write reaches those bytes: its second part cannot overwrite its first, even
\* where both pages have the same frame, as an access is at most a page long.
LEMMA WriteStep ==
    ASSUME KernelPages \cap UserPages = {}, IInv,
           NEW x \in Laddr, NEW len \in Lens, x + len - 1 \in Laddr,
           MayUse(PageOf(x)), MayUse(PageOf(x + len - 1)), NEW word \in U32,
           NEW v1 \in Idx, NEW v2 \in Idx, LaddrWrite(x, len, word, v1, v2),
           UNCHANGED TLB_ENABLED
    PROVE  IInv'
<1> DEFINE t1 == TlbFetch(tlb, PageOf(x), v1)
           t2 == TlbFetch(t1, PageOf(x) + 1, v2)
           f1 == PageTranslate(t1, PageOf(x))
           f2 == PageTranslate(t2, PageOf(x) + 1)
           low == PAGE_SIZE - OffsetOf(x)
           lowlen == LowLen(x, len)
           m1 == PaddrWrite(mem, f1, OffsetOf(x), lowlen, word)
           m2 == PaddrWrite(m1, f2, 0, len - lowlen, High(word, lowlen))
<1>1. /\ OffsetOf(x) \in 0 .. PAGE_SIZE - 1 /\ low \in 1 .. PAGE_SIZE
      /\ PAGE_SIZE \in Nat \ {0} /\ len \in 1 .. 4 /\ len <= PAGE_SIZE
      /\ x \in Nat
    BY PageOfLaddr, SizeAssumption, DataAssumption DEF Laddr
<1>2. /\ CrossesPage(x, len) <=> len > low
      /\ lowlen = IF len > low THEN low ELSE len
    BY Crossing DEF LowLen
<1>3. /\ GoodTlb(t1) /\ (~pg \/ ~TLB_ENABLED => t1 = tlb)
      /\ f1 \in Frame /\ (IF pg THEN Walk(PageOf(x)) ELSE PageOf(x)) \in {f1, ABSENT}
      /\ len > low =>
            /\ GoodTlb(t2) /\ (~pg \/ ~TLB_ENABLED => t2 = tlb)
            /\ f2 \in Frame
            /\ (IF pg THEN Walk(PageOf(x) + 1) ELSE PageOf(x) + 1) \in {f2, ABSENT}
    BY <1>2, AccessFrames DEF LaddrWrite
<1>4. /\ req' = [op |-> "write", laddr |-> x, len |-> len, data |-> word]
      /\ ret' = ZeroBytes
      /\ UNCHANGED <<pdir, ptable, cr3, pg, status>>
      /\ tlb' = IF len > low THEN t2 ELSE t1
      /\ mem' = IF len > low THEN m2 ELSE m1
    BY <1>2 DEF LaddrWrite
<1> HIDE DEF t1, t2, f1, f2, low, lowlen
<1>5. TablesInv' /\ ModeInv' /\ EntryInv(tlb)' /\ OneEntry(tlb)' /\ tlb' \in TlbType
    BY <1>3, <1>4, TablesKept
<1>6. Written(m1, mem, f1, OffsetOf(x), lowlen, word)
    <2>1. mem \in MemType /\ lowlen \in 0 .. 4 /\ OffsetOf(x) \in Nat /\ f1 \in Frame
        BY <1>1, <1>2, <1>3 DEF IInv, TypeOK, MemType
    <2> QED BY <2>1, WriteInFrame
<1>7. ASSUME len > low
      PROVE  Written(m2, m1, f2, 0, len - low, High(word, low))
    <2>1. lowlen = low /\ len - low \in 0 .. 4 /\ f2 \in Frame /\ m1 \in MemType
        BY <1>1, <1>2, <1>3, <1>6, <1>7 DEF Written
    <2>2. High(word, low) \in U32
        <3>1. \A j \in 0 .. 3 : j + low < 4 => j + low \in 0 .. 3
            BY <1>1
        <3> QED BY <3>1, DataAssumption DEF High, U32
    <2> HIDE DEF m1
    <2> QED BY <2>1, <2>2, WriteInFrame
<1> HIDE DEF m1, m2
<1>8. ASSUME NEW j \in 0 .. 3, j < len
      PROVE  LET f == IF j < low THEN f1 ELSE f2
             IN /\ mem'[f][OffsetOf(x + j)] = word[j]
                /\ (IF pg THEN Walk(PageOf(x + j)) ELSE PageOf(x + j)) \in {f, ABSENT}
    <2>1. j \in 0 .. len - 1 /\ len \in Nat
        BY <1>1, <1>8
    <2>2. IF j < low
          THEN PageOf(x + j) = PageOf(x) /\ OffsetOf(x + j) = OffsetOf(x) + j
          ELSE PageOf(x + j) = PageOf(x) + 1 /\ OffsetOf(x + j) = j - low
        BY <2>1, ByteOfAccess DEF low
    <2>3. CASE j < low
        <3> DEFINE o == OffsetOf(x) + j
        <3>1. /\ o \in 0 .. PAGE_SIZE - 1 /\ o >= OffsetOf(x) /\ o - OffsetOf(x) = j
              /\ o < OffsetOf(x) + lowlen
            BY <1>1, <1>2, <1>8, <2>3 DEF low
        <3>2. m1[f1][o] = word[j]
            BY <1>3, <1>6, <3>1 DEF Written
        <3>3. len > low => m2[f1][o] = m1[f1][o]
            <4>1. ~(o < len - low)
                BY <1>1 DEF low
            <4>2. len - low \in Int => 0 + (len - low) = len - low
                OBVIOUS
            <4> HIDE DEF o
            <4> QED BY <1>1, <1>3, <1>7, <3>1, <4>1, <4>2 DEF Written
        <3> QED BY <1>3, <1>4, <2>2, <2>3, <3>2, <3>3
    <2>4. CASE ~(j < low)
        <3> DEFINE o == j - low
        <3>1. len > low /\ o \in 0 .. PAGE_SIZE - 1 /\ o \in 0 .. 3 /\ o < len - low
            BY <1>1, <1>8, <2>4
        <3>2. High(word, low)[o] = word[j]
            <4>1. o + low = j /\ j < 4
                BY <1>1
            <4> QED BY <3>1, <4>1 DEF High
        <3>3. m2[f2][o] = word[j]
            BY <1>1, <1>3, <1>7, <3>1, <3>2 DEF Written
        <3> QED BY <1>3, <1>4, <2>2, <2>4, <3>1, <3>3
    <2> QED BY <2>3, <2>4
<1>9. TypeOK'
    <2>1. req' \in Request /\ ret' \in U32
        BY <1>1, <1>4, DataAssumption DEF Request, ZeroBytes, U32
    <2> QED BY <1>4, <1>5, <1>6, <1>7, <2>1
               DEF IInv, TypeOK, TlbType, MemType, Written
<1>10. AccessesLinear'
    <2>1. req'.op = "write" /\ req'.len = len /\ req'.laddr = x /\ req'.data = word
        BY <1>4
    <2>2. WritesLinear'
        <3> SUFFICES ASSUME NEW j \in 0 .. len - 1
                     PROVE  Linear(x + j)' \in {word[j], ABSENT}
            BY <2>1 DEF WritesLinear
        <3>1. j \in 0 .. 3 /\ j < len
            BY <1>1
        <3> QED BY <1>4, <1>8, <3>1, LinearByte
    <2> QED BY <2>1, <2>2 DEF AccessesLinear, ReadsLinear
<1> QED BY <1>5, <1>9, <1>10 DEF IInv

-----------------------------------------------------------------------------
(* The steps of the guest kernel.                                          *)

\* They end the last access: there is nothing to compare with the tables.
LEMMA NoRequestLinear == ASSUME req' = NoRequest PROVE AccessesLinear'
BY DEF NoRequest, AccessesLinear, ReadsLinear, WritesLinear

\* The type of the last access, then.
LEMMA RestOfType ==
    ASSUME TypeOK, req' = NoRequest, ret' = ZeroBytes
    PROVE  req' \in Request /\ ret' \in U32
BY ZeroLaddr, DataAssumption DEF Request, NoRequest, ZeroBytes, U32

\* Setting CR0.PG meets an empty TLB.
LEMMA EnablePagingStep == ASSUME IInv, EnablePaging, UNCHANGED TLB_ENABLED PROVE IInv'
<1>1. TypeOK'
    BY RestOfType DEF IInv, TypeOK, EnablePaging
<1>2. TablesInv' /\ ModeInv' /\ EntryInv(tlb)' /\ OneEntry(tlb)'
    BY DEF IInv, TablesInv, ModeInv, EntryInv, OneEntry, KernelUses, EnablePaging
<1> QED BY <1>1, <1>2, NoRequestLinear DEF IInv, EnablePaging

\* A page is mapped that was not: no entry can hold another frame of it.
LEMMA MapPageStep ==
    ASSUME IInv, NEW k \in UserPages, NEW f \in Frame, MapPage(k, f), UNCHANGED TLB_ENABLED
    PROVE  IInv'
<1>1. /\ k \in 0 .. NR_PTE - 1 /\ ptable["uptable"][k] = ABSENT
      /\ ptable' = [ptable EXCEPT !["uptable"][k] = f]
      /\ pdir' = [pdir EXCEPT !["updir"][0] = "uptable"]
    BY LayoutAssumption DEF MapPage
<1>2. TypeOK'
    BY <1>1, RestOfType DEF IInv, TypeOK, MapPage, Table, Dir, Half
<1>3. /\ \A h \in Half : pdir'["kpdir"][h] = pdir["kpdir"][h]
      /\ pdir'["updir"][1] = pdir["updir"][1] /\ pdir'["updir"][0] = "uptable"
      /\ \A i \in 0 .. NR_PTE - 1 :
            /\ ptable'["kptable"][i] = ptable["kptable"][i]
            /\ ptable'["uptable"][i] = IF i = k THEN f ELSE ptable["uptable"][i]
    <2>1. /\ \A h \in Half : pdir'["kpdir"][h] = pdir["kpdir"][h]
          /\ pdir'["updir"][1] = pdir["updir"][1] /\ pdir'["updir"][0] = "uptable"
        BY <1>1 DEF IInv, TypeOK, Dir, Half
    <2>2. ptable["uptable"] \in [0 .. NR_PTE - 1 -> Frame \cup {ABSENT}]
        BY DEF IInv, TypeOK, Table
    <2>3. /\ ptable'["kptable"] = ptable["kptable"]
          /\ ptable'["uptable"] = [ptable["uptable"] EXCEPT ![k] = f]
        BY <1>1 DEF IInv, TypeOK, Table
    <2> QED BY <2>1, <2>2, <2>3
<1>4. TablesInv'
    BY <1>3 DEF IInv, TablesInv
<1>5. EntryInv(tlb)'
    <2> SUFFICES ASSUME NEW e \in Idx, tlb[e].vpn # ABSENT
                 PROVE  \/ KernelUses(tlb[e].vpn) /\ tlb[e].frame = tlb[e].vpn % NR_PTE
                        \/ /\ cr3 = "updir" /\ tlb[e].vpn < NR_PTE
                           /\ ptable'["uptable"][tlb[e].vpn] = tlb[e].frame
        BY DEF EntryInv, MapPage, KernelUses
    <2>1. tlb[e].vpn \in Page /\ tlb[e].frame \in Frame
        BY DEF IInv, TypeOK
    <2>2. CASE tlb[e].vpn < NR_PTE
        <3>1. tlb[e].vpn \in 0 .. NR_PTE - 1
            BY <2>1, <2>2, SizeAssumption DEF Page
        <3>2. ABSENT \notin Frame
            BY SizeAssumption DEF ABSENT, Frame
        <3> QED BY <1>1, <1>3, <2>1, <3>1, <3>2 DEF IInv, EntryInv
    <2> QED BY <2>2 DEF IInv, EntryInv
<1>6. ModeInv' /\ OneEntry(tlb)'
    BY DEF IInv, ModeInv, OneEntry, MapPage
<1> QED BY <1>2, <1>4, <1>5, <1>6, NoRequestLinear DEF IInv, MapPage

\* The load of CR3 leaves the TLB as it is: all entries are of the kernel.
LEMMA LoadCr3Step == ASSUME IInv, LoadCr3, UNCHANGED TLB_ENABLED PROVE IInv'
<1>1. TypeOK'
    BY RestOfType DEF IInv, TypeOK, LoadCr3, Dir
<1>2. TablesInv' /\ ModeInv' /\ OneEntry(tlb)'
    BY DEF IInv, TablesInv, ModeInv, OneEntry, LoadCr3
<1>3. EntryInv(tlb)'
    BY DEF IInv, EntryInv, KernelUses, LoadCr3
<1> QED BY <1>1, <1>2, <1>3, NoRequestLinear DEF IInv, LoadCr3

-----------------------------------------------------------------------------
\* init_page, init_mm and init_mem establish the invariant.
LEMMA InitIInv == Init => IInv
<1> SUFFICES ASSUME Init PROVE IInv
    OBVIOUS
<1>1. TypeOK
    <2>1. req \in Request /\ ret \in U32
        BY ZeroLaddr, DataAssumption DEF Init, Request, NoRequest, ZeroBytes, U32
    <2>2. ptable \in [Table -> [0 .. NR_PTE - 1 -> Frame \cup {ABSENT}]]
        BY SizeAssumption DEF Init, Frame
    <2>3. pdir \in [Dir -> [Half -> Table \cup {"none"}]]
        BY DEF Init, Table
    <2>4. tlb \in [Idx -> [vpn : Page \cup {ABSENT}, frame : Frame]]
        BY SizeAssumption DEF Init, Frame
    <2>5. mem \in [Frame -> [0 .. PAGE_SIZE - 1 -> Byte]]
        BY DataAssumption DEF Init
    <2> QED BY <2>1, <2>2, <2>3, <2>4, <2>5 DEF Init, TypeOK, Dir
<1>2. TablesInv
    BY DEF Init, TablesInv, Dir, Half, Table
<1>3. ModeInv /\ EntryInv(tlb) /\ OneEntry(tlb)
    BY DEF Init, ModeInv, EntryInv, OneEntry
<1>4. AccessesLinear
    BY DEF Init, NoRequest, AccessesLinear, ReadsLinear, WritesLinear
<1> QED BY <1>1, <1>2, <1>3, <1>4 DEF IInv

\* Every step keeps it.
LEMMA NextIInv ==
    ASSUME KernelPages \cap UserPages = {}, IInv, [Next]_vars
    PROVE  IInv'
<1>1. CASE UNCHANGED vars
    BY <1>1
       DEF vars, IInv, TypeOK, TablesInv, ModeInv, EntryInv, OneEntry, KernelUses,
                AccessesLinear, ReadsLinear, WritesLinear, Linear, Walk
<1>2. ASSUME UNCHANGED TLB_ENABLED, Kernel PROVE IInv'
    BY <1>2, EnablePagingStep, LoadCr3Step, MapPageStep DEF Kernel
<1>3. ASSUME UNCHANGED TLB_ENABLED, NEW x \in Laddr, NEW len \in Lens, Access(x, len)
      PROVE  IInv'
    <2>1. x + len - 1 \in Laddr /\ MayUse(PageOf(x)) /\ MayUse(PageOf(x + len - 1))
        BY <1>3 DEF Access, MayUse
    <2>2. PICK v1, v2 \in Idx :
             \/ LaddrRead(x, len, v1, v2)
             \/ \E word \in Data(len) : LaddrWrite(x, len, word, v1, v2)
             \/ NotPresent(x, len, v1)
        BY <1>3 DEF Access
    <2>3. CASE LaddrRead(x, len, v1, v2)
        BY <1>3, <2>1, <2>3, ReadStep
    <2>4. CASE \E word \in Data(len) : LaddrWrite(x, len, word, v1, v2)
        <3>1. PICK word \in U32 : LaddrWrite(x, len, word, v1, v2)
            BY <2>4 DEF Data
        <3> QED BY <1>3, <2>1, <3>1, WriteStep
    <2>5. CASE NotPresent(x, len, v1)
        BY <1>3, <2>5
           DEF NotPresent, IInv, TypeOK, TablesInv, ModeInv, EntryInv, OneEntry, KernelUses,
               AccessesLinear, ReadsLinear, WritesLinear, Linear, Walk
    <2> QED BY <2>2, <2>3, <2>4, <2>5
<1> QED BY <1>1, <1>2, <1>3 DEF Next

\* The TLB stays a part of the page tables in force, although the load of CR3 does
\* not flush it, if the pages that init uses before it jumps to the upper half are
\* not pages of the program.
THEOREM TlbNeverStale ==
    ASSUME KernelPages \cap UserPages = {}
    PROVE  Spec => []TranslationSound
<1>1. IInv => TranslationSound
    <2> SUFFICES ASSUME IInv PROVE TranslationSound
        OBVIOUS
    <2>1. GoodTlb(tlb) /\ TypeOK /\ TablesInv
        BY DEF IInv, GoodTlb, TlbType, TypeOK
    <2>2. TlbSound
        BY <2>1, EntriesAgree DEF TlbSound, GoodTlb, OneEntry
    <2> QED BY <2>1, <2>2 DEF TranslationSound
<1>2. IInv /\ [Next]_vars => IInv'
    BY NextIInv
<1> QED BY <1>1, <1>2, InitIInv, PTL DEF Spec

\* laddr_read and laddr_write reach the bytes that the page tables in force give to
\* the linear addresses, also in two frames and also through the TLB.
THEOREM LinearAccesses ==
    ASSUME KernelPages \cap UserPages = {}
    PROVE  Spec => []AccessesLinear
<1>1. IInv => AccessesLinear
    BY DEF IInv
<1>2. IInv /\ [Next]_vars => IInv'
    BY NextIInv
<1> QED BY <1>1, <1>2, InitIInv, PTL DEF Spec

(***************************************************************************)
(*                              Instructions                               *)
(***************************************************************************)

-----------------------------------------------------------------------------
(* Powers of two.                                                          *)

\* The provers know 2^n as the number of subsets of a set of n elements.
LEMMA PowerIsNumber ==
    ASSUME NEW n \in Nat
    PROVE  2^n \in Nat \ {0}
<1>1. IsFiniteSet(1 .. n) /\ Cardinality(1 .. n) = n
    BY FS_Interval
<1>2. IsFiniteSet(SUBSET (1 .. n)) /\ Cardinality(SUBSET (1 .. n)) = 2^n
    BY <1>1, FS_SUBSET
<1>3. Cardinality(SUBSET (1 .. n)) \in Nat
    BY <1>2, FS_CardinalityType
<1>4. Cardinality(SUBSET (1 .. n)) # 0
    <2>1. SUBSET (1 .. n) # {}
        OBVIOUS
    <2> QED BY <1>2, <2>1, FS_EmptySet
<1> QED BY <1>2, <1>3, <1>4

\* Half of the subsets of a set have an element, half of them do not.
LEMMA PowerDoubles ==
    ASSUME NEW n \in Nat
    PROVE  2^(n + 1) = 2 * 2^n
<1> DEFINE A == SUBSET (1 .. n)
           B == {T \in SUBSET (1 .. n + 1) : n + 1 \in T}
           f == [T \in A |-> T \cup {n + 1}]
<1>1. IsFiniteSet(1 .. n) /\ Cardinality(1 .. n) = n
      /\ IsFiniteSet(1 .. n + 1) /\ Cardinality(1 .. n + 1) = n + 1
    BY FS_Interval
<1>2. IsFiniteSet(A) /\ Cardinality(A) = 2^n /\ Cardinality(SUBSET (1 .. n + 1)) = 2^(n + 1)
    BY <1>1, FS_SUBSET
<1>3. 1 .. n + 1 = (1 .. n) \cup {n + 1} /\ n + 1 \notin 1 .. n
    OBVIOUS
<1>4. f \in [A -> B]
    BY <1>3
<1>5. \A S, T \in A : f[S] = f[T] => S = T
    <2> SUFFICES ASSUME NEW S \in A, NEW T \in A, f[S] = f[T] PROVE S = T
        OBVIOUS
    <2>1. S \cup {n + 1} = T \cup {n + 1} /\ n + 1 \notin S /\ n + 1 \notin T
        BY <1>3
    <2> QED BY <2>1
<1>6. \A T \in B : T \ {n + 1} \in A /\ f[T \ {n + 1}] = T
    <2> SUFFICES ASSUME NEW T \in B PROVE T \ {n + 1} \in A /\ (T \ {n + 1}) \cup {n + 1} = T
        OBVIOUS
    <2> QED BY <1>3
<1>7. f \in Bijection(A, B)
    <2> HIDE DEF A, B, f
    <2>1. DOMAIN f = A
        BY <1>4
    <2>2. IsInjective(f)
        BY <1>5, <2>1 DEF IsInjective
    <2> QED BY <1>4, <1>6, <2>2 DEF Bijection, Injection, Surjection
<1> HIDE DEF f
<1>8. IsFiniteSet(B) /\ Cardinality(B) = Cardinality(A)
    BY <1>2, <1>7, FS_Bijection DEF ExistsBijection
<1>9. SUBSET (1 .. n + 1) = A \cup B /\ A \cap B = {}
    BY <1>3
<1>10. Cardinality(A \cup B) = Cardinality(A) + Cardinality(B) - Cardinality(A \cap B)
    <2> HIDE DEF A, B
    <2> QED BY <1>2, <1>8, FS_Union
<1>11. Cardinality({}) = 0
    BY FS_EmptySet
<1>12. 2^n \in Nat
    BY PowerIsNumber
<1>13. 2^(n + 1) = 2^n + 2^n - 0
    BY <1>2, <1>8, <1>9, <1>10, <1>11
<1> QED BY <1>12, <1>13

LEMMA PowerOfSum ==
    ASSUME NEW m \in Nat, NEW n \in Nat
    PROVE  2^(m + n) = 2^m * 2^n
<1> DEFINE Bad == {k \in Nat : 2^(m + k) # 2^m * 2^k}
<1>1. Bad = {}
    <2> SUFFICES ASSUME Bad # {} PROVE FALSE
        OBVIOUS
    <2> DEFINE k == Min(Bad)
    <2>1. k \in Bad /\ \A j \in Bad : k <= j
        <3>1. Bad \subseteq Nat
            OBVIOUS
        <3> HIDE DEF Bad
        <3> QED BY <3>1, MinIsElement
    <2>2. k \in Nat /\ 2^(m + k) # 2^m * 2^k
        BY <2>1
    <2> HIDE DEF k
    <2>3. k # 0
        <3>1. 2^0 = 1 /\ m + 0 = m
            OBVIOUS
        <3>2. 2^m * 1 = 2^m
            BY PowerIsNumber
        <3> QED BY <2>2, <3>1, <3>2
    <2>4. k \in Nat /\ k - 1 \in Nat /\ ~(k <= k - 1)
        BY <2>2, <2>3
    <2>5. 2^(m + (k - 1)) = 2^m * 2^(k - 1)
        <3>1. k - 1 \notin Bad
            <4> HIDE DEF Bad
            <4> QED BY <2>1, <2>4
        <3> QED BY <2>4, <3>1
    <2> DEFINE a == 2^m
               b == 2^(k - 1)
    <2>6. 2^k = 2 * b
        <3>1. 2^(k - 1 + 1) = 2 * 2^(k - 1)
            BY <2>4, PowerDoubles
        <3>2. k - 1 + 1 = k
            BY <2>2
        <3> QED BY <3>1, <3>2
    <2>7. 2^(m + k) = 2 * (a * b)
        <3>1. m + (k - 1) \in Nat /\ m + (k - 1) + 1 = m + k
            BY <2>4
        <3>2. 2^(m + (k - 1) + 1) = 2 * 2^(m + (k - 1))
            BY <3>1, PowerDoubles
        <3> QED BY <2>5, <3>1, <3>2
    <2>8. a \in Nat /\ b \in Nat
        BY <2>4, PowerIsNumber
    <2>9. 2^m * 2^k = a * (2 * b)
        BY <2>6
    <2> HIDE DEF a, b
    <2>10. a * (2 * b) = 2 * (a * b)
        BY <2>8
    <2> QED BY <2>2, <2>7, <2>9, <2>10
<1> QED BY <1>1

-----------------------------------------------------------------------------
(* Numbers of a size.                                                      *)

Size == {ByteBits, Long}
SignBit(size) == 2^(size - 1)
Words(size) == 0 .. 2^size - 1

LEMMA SizeFacts ==
    ASSUME NEW size \in Size
    PROVE  /\ size \in Nat \ {0} /\ SignBit(size) \in Nat \ {0} /\ 2^size \in Nat \ {0}
           /\ 2^size = 2 * SignBit(size)
           /\ 2^(Long - size) \in Nat \ {0} /\ 2^Long = 2^(Long - size) * 2^size
           /\ 2^Long \in Nat \ {0}
<1>1. size \in Nat \ {0} /\ size - 1 \in Nat /\ size - 1 + 1 = size
      /\ Long - size \in Nat /\ Long - size + size = Long /\ Long \in Nat
    BY BitsAssumption DEF Size
<1>2. 2^(size - 1 + 1) = 2 * 2^(size - 1)
    BY <1>1, PowerDoubles
<1>3. 2^(Long - size + size) = 2^(Long - size) * 2^size
    BY <1>1, PowerOfSum
<1>4. 2^(size - 1) \in Nat \ {0} /\ 2^size \in Nat \ {0} /\ 2^(Long - size) \in Nat \ {0}
      /\ 2^Long \in Nat \ {0}
    BY <1>1, PowerIsNumber
<1> QED BY <1>1, <1>2, <1>3, <1>4 DEF SignBit

\* Division of any integer.
LEMMA DivModInt ==
    ASSUME NEW b \in Nat \ {0}, NEW x \in Int
    PROVE  x \div b \in Int /\ x % b \in 0 .. b - 1 /\ x = (x \div b) * b + (x % b)
OBVIOUS

LEMMA DivModIntUnique ==
    ASSUME NEW b \in Nat \ {0}, NEW q \in Int, NEW r \in 0 .. b - 1
    PROVE  (q * b + r) \div b = q /\ (q * b + r) % b = r
<1> DEFINE x == q * b + r
           t == x \div b
           s == x % b
<1>1. x \in Int /\ t \in Int /\ s \in 0 .. b - 1 /\ x = t * b + s
    <2>1. x \in Int
        OBVIOUS
    <2> HIDE DEF x
    <2> QED BY <2>1, DivModInt
<1> HIDE DEF t, s
<1>2. (t - q) * b = r - s
    BY <1>1
<1>3. t - q = 0
    <2>1. CASE t - q >= 1
        <3>1. (t - q) * b >= b
            BY <1>1, <2>1
        <3> QED BY <1>1, <1>2, <3>1
    <2>2. CASE t - q <= -1
        <3>1. (q - t) * b >= b
            BY <1>1, <2>2
        <3>2. (q - t) * b = s - r
            BY <1>1
        <3> QED BY <1>1, <3>1, <3>2
    <2> QED BY <1>1, <2>1, <2>2
<1>4. t = q /\ s = r
    BY <1>1, <1>2, <1>3
<1> QED BY <1>4 DEF t, s

\* Multiples of the modulus do not matter.
LEMMA ModPlus ==
    ASSUME NEW b \in Nat \ {0}, NEW x \in Int, NEW k \in Int
    PROVE  (x + k * b) % b = x % b
<1> DEFINE q == x \div b
           r == x % b
<1>1. q \in Int /\ r \in 0 .. b - 1 /\ x = q * b + r
    BY DivModInt
<1> HIDE DEF q, r
<1>2. (q + k) * b = q * b + k * b
    BY <1>1
<1>3. ((q + k) * b + r) % b = r
    <2>1. q + k \in Int
        BY <1>1
    <2> QED BY <1>1, <2>1, DivModIntUnique
<1>4. x + k * b = (q + k) * b + r
    BY <1>1, <1>2
<1> QED BY <1>3, <1>4 DEF r

\* Sums and differences that wrap once.
LEMMA WrapOnce ==
    ASSUME NEW b \in Nat \ {0}, NEW x \in Int
    PROVE  /\ x \in 0 .. b - 1 => x % b = x
           /\ x \in b .. 2 * b - 1 => x % b = x - b
           /\ x \in -b .. -1 => x % b = x + b
<1>1. ASSUME x \in 0 .. b - 1 PROVE x % b = x
    BY <1>1, SmallMod
<1>2. ASSUME x \in b .. 2 * b - 1 PROVE x % b = x - b
    <2>1. x - b \in 0 .. b - 1 /\ x = (x - b) + 1 * b
        BY <1>2
    <2>2. ((x - b) + 1 * b) % b = (x - b) % b
        BY <2>1, ModPlus
    <2> QED BY <2>1, <2>2, SmallMod
<1>3. ASSUME x \in -b .. -1 PROVE x % b = x + b
    <2>1. x + b \in 0 .. b - 1 /\ x = (x + b) + (-1) * b
        BY <1>3
    <2>2. ((x + b) + (-1) * b) % b = (x + b) % b
        <3>1. x + b \in Int /\ -1 \in Int
            BY <2>1
        <3> QED BY <3>1, ModPlus
    <2> QED BY <2>1, <2>2, SmallMod
<1> QED BY <1>1, <1>2, <1>3

-----------------------------------------------------------------------------
(* Addition and subtraction.                                               *)

Flags == [Arithmetic \cup {"IF"} -> {0, 1}]

\* A number of a size, and the signed number it stands for.
LEMMA WordFacts ==
    ASSUME NEW size \in Size, NEW x \in Words(size)
    PROVE  /\ Cut(x, size) = x
           /\ Positive(x, size) <=> x < SignBit(size)
           /\ Signed(x, size) = IF x < SignBit(size) THEN x ELSE x - 2^size
<1>1. Cut(x, size) = x
    BY SizeFacts, SmallMod DEF Cut, Words
<1> QED BY <1>1 DEF Positive, Signed, SignBit

LEMMA CutIsWord ==
    ASSUME NEW size \in Size, NEW x \in Int
    PROVE  Cut(x, size) \in Words(size)
<1>1. 2^size \in Nat \ {0}
    BY SizeFacts
<1> QED BY <1>1, DivModInt DEF Cut, Words

LEMMA BitFacts ==
    ASSUME NEW b
    PROVE  Bit(b) \in {0, 1} /\ (b \in BOOLEAN => (Bit(b) = 1 <=> b) /\ (Bit(b) = 0 <=> ~b))
BY DEF Bit

\* The flags of a result r with the overflow of and the carry cf.
FlagsOf(f, r, size, cf, of) ==
    [f EXCEPT !.SF = Bit(r >= SignBit(size)), !.ZF = Bit(r = 0), !.PF = Parity(r),
              !.OF = of, !.CF = cf]

LEMMA FlagsOfFacts ==
    ASSUME NEW f \in Flags, NEW size \in Size, NEW r \in Words(size),
           NEW cf \in {0, 1}, NEW of \in {0, 1}
    PROVE  /\ FlagsOf(f, r, size, cf, of) \in Flags
           /\ FlagsOf(f, r, size, cf, of).SF = Bit(r >= SignBit(size))
           /\ FlagsOf(f, r, size, cf, of).ZF = Bit(r = 0)
           /\ FlagsOf(f, r, size, cf, of).CF = cf
           /\ FlagsOf(f, r, size, cf, of).OF = of
           /\ FlagsOf(f, r, size, cf, of).IF = f.IF
<1>1. Bit(r >= SignBit(size)) \in {0, 1} /\ Bit(r = 0) \in {0, 1} /\ Parity(r) \in {0, 1}
    BY DEF Bit, Parity
<1> QED BY <1>1 DEF FlagsOf, Flags, Arithmetic

LEMMA SignAndZero ==
    ASSUME NEW size \in Size, NEW r \in Words(size)
    PROVE  Bit(~Positive(r, size)) = Bit(r >= SignBit(size)) /\ Bit(Cut(r, size) = 0) = Bit(r = 0)
<1>1. r \in Int /\ SignBit(size) \in Int
    BY SizeFacts DEF Words
<1> QED BY <1>1, WordFacts DEF Bit

\* alu_add: the sum that wraps, the carry out, and the overflow of signed numbers.
AddValue(a, b, size) == IF a + b < 2^size THEN a + b ELSE a + b - 2^size
LEMMA AluAddFacts ==
    ASSUME NEW f \in Flags, NEW size \in Size, NEW a \in Words(size), NEW b \in Words(size)
    PROVE  LET r == AddValue(a, b, size)
               h == SignBit(size)
           IN /\ AddValue(a, b, size) \in Words(size)
              /\ AluAdd(f, a, b, size).val = r
              /\ AluAdd(f, a, b, size).fl =
                     FlagsOf(f, r, size, Bit(a + b >= 2^size),
                             Bit((a < h <=> b < h) /\ ~(a < h <=> r < h)))
<1> DEFINE r == AddValue(a, b, size)
           h == SignBit(size)
           N == 2^size
<1>1. N \in Nat \ {0} /\ h \in Nat \ {0} /\ N = 2 * h /\ a \in 0 .. N - 1 /\ b \in 0 .. N - 1
    BY SizeFacts DEF Words
<1>2. Cut(a + b, size) = r /\ r \in Words(size)
    <2>1. r = IF a + b < N THEN a + b ELSE a + b - N
        BY DEF AddValue
    <2>2. a + b \in 0 .. 2 * N - 1 /\ r \in 0 .. N - 1
        <3> HIDE DEF r, N
        <3> QED BY <1>1, <2>1
    <2>3. (a + b) % N = r
        <3> HIDE DEF r, N
        <3>1. a + b \in 0 .. N - 1 \/ a + b \in N .. 2 * N - 1
            BY <1>1, <2>2
        <3> QED BY <1>1, <2>1, <3>1, WrapOnce, SMTT(30)
    <2> QED BY <2>2, <2>3 DEF Cut, Words
<1>3. OfAdd(a, b, size) = Bit((a < h <=> b < h) /\ ~(a < h <=> r < h))
    <2>1. /\ Positive(a, size) <=> a < h
          /\ Positive(b, size) <=> b < h
          /\ Positive(r, size) <=> r < h
        <3> HIDE DEF r
        <3> QED BY <1>2, WordFacts
    <2> HIDE DEF r, h
    <2>2. (Positive(a, size) = Positive(b, size)) <=> (Positive(a, size) <=> Positive(b, size))
        BY DEF Positive
    <2>3. (Positive(r, size) # Positive(a, size)) <=> ~(Positive(r, size) <=> Positive(a, size))
        BY DEF Positive
    <2> QED BY <1>2, <2>1, <2>2, <2>3 DEF OfAdd
<1>4. CfAdd(a, b, size) = Bit(a + b >= N)
    <2>1. Cut(Cut(a, size) + Cut(b, size), size) = r /\ Cut(a, size) = a
        BY <1>2, WordFacts
    <2>2. r < a <=> a + b >= N
        <3>1. r = IF a + b < N THEN a + b ELSE a + b - N
            BY DEF AddValue
        <3> HIDE DEF r, N
        <3> QED BY <1>1, <3>1
    <2> HIDE DEF r, N
    <2> QED BY <2>1, <2>2 DEF CfAdd, Bit
<1> HIDE DEF r
<1>5. AluAdd(f, a, b, size) = [val |-> r, fl |-> [SZP(f, r, size) EXCEPT !.OF = OfAdd(a, b, size),
                                                                       !.CF = CfAdd(a, b, size)]]
    BY <1>2 DEF AluAdd
<1>6. [SZP(f, r, size) EXCEPT !.OF = OfAdd(a, b, size), !.CF = CfAdd(a, b, size)]
      = FlagsOf(f, r, size, CfAdd(a, b, size), OfAdd(a, b, size))
    <2>1. Bit(~Positive(r, size)) = Bit(r >= SignBit(size)) /\ Bit(Cut(r, size) = 0) = Bit(r = 0)
        BY <1>2, SignAndZero
    <2>2. SZP(f, r, size) = [f EXCEPT !.SF = Bit(r >= SignBit(size)), !.ZF = Bit(r = 0),
                                      !.PF = Parity(r)]
        BY <2>1 DEF SZP
    <2> QED BY <2>2 DEF FlagsOf
<1> QED BY <1>2, <1>3, <1>4, <1>5, <1>6 DEF r

\* alu_sub: the difference, which wraps, the borrow, and the overflow.
SubValue(d, s, size) == IF d >= s THEN d - s ELSE d - s + 2^size
SubFlags(f, d, s, size) ==
    LET r == SubValue(d, s, size)
        h == SignBit(size)
    IN FlagsOf(f, r, size, Bit(d < s), Bit(~(d < h <=> s < h) /\ ~(d < h <=> r < h)))
LEMMA AluSubFacts ==
    ASSUME NEW f \in Flags, NEW size \in Size, NEW s \in Words(size), NEW d \in Words(size)
    PROVE  /\ SubValue(d, s, size) \in Words(size)
           /\ AluSub(f, s, d, size).val = SubValue(d, s, size)
           /\ AluSub(f, s, d, size).fl = SubFlags(f, d, s, size)
<1> DEFINE r == SubValue(d, s, size)
           h == SignBit(size)
           N == 2^size
           K == 2^(Long - size)
           c == Cut(-s, Long)
<1>1. N \in Nat \ {0} /\ h \in Nat \ {0} /\ N = 2 * h /\ s \in 0 .. N - 1 /\ d \in 0 .. N - 1
      /\ K \in Nat \ {0} /\ 2^Long = K * N
    BY SizeFacts DEF Words
<1>2. r \in Words(size) /\ (d - s) % N = r
    <2>1. r = IF d >= s THEN d - s ELSE d - s + N
        BY DEF SubValue
    <2>2. r \in 0 .. N - 1 /\ (d >= s => d - s \in 0 .. N - 1) /\ (d < s => d - s \in -N .. -1)
        <3> HIDE DEF r, N, h, K
        <3> QED BY <1>1, <2>1
    <2>3. (d - s) % N = r
        <3> HIDE DEF r, N, h, K
        <3>1. d - s \in Int /\ (d >= s \/ d < s)
            BY <1>1
        <3> QED BY <1>1, <2>1, <2>2, <3>1, WrapOnce
    <2> QED BY <2>2, <2>3 DEF Words
<1>3. c \in Int /\ \E k \in Int : c = k * N - s
    <2>1. Long \in Size /\ 2^Long \in Nat \ {0}
        BY SizeFacts DEF Size
    <2>2. PICK q \in Int : -s = q * 2^Long + c /\ c \in Int
        <3> DEFINE x == -s
                   P == 2^Long
        <3>1. x \in Int /\ c = x % P /\ P \in Nat \ {0}
            BY <1>1, <2>1 DEF Cut
        <3> HIDE DEF x, c, P
        <3>2. x \div P \in Int /\ x % P \in Int /\ x = (x \div P) * P + (x % P)
            BY <3>1, DivModInt
        <3> USE DEF P
        <3> QED BY <3>1, <3>2 DEF x
    <2> HIDE DEF N, K, c
    <2>3. c = -s - q * (K * N)
        BY <1>1, <2>2
    <2>4. q * (K * N) = (q * K) * N /\ (-(q * K)) * N = -((q * K) * N) /\ -(q * K) \in Int
        BY <1>1, <2>2
    <2>5. c = (-(q * K)) * N - s
        <3> DEFINE u == (q * K) * N
                   w == (-(q * K)) * N
        <3>1. u \in Int /\ w = -u /\ c = -s - u /\ s \in Int
            BY <1>1, <2>2, <2>3, <2>4
        <3> HIDE DEF u, w
        <3>2. c = w - s
            BY <3>1
        <3> QED BY <3>2 DEF w
    <2> QED BY <2>2, <2>4, <2>5
<1>4. AluAdd(f, d, c, size).val = r
    <2>1. PICK k \in Int : c = k * N - s
        BY <1>3
    <2>2. (d - s + k * N) % N = (d - s) % N
        <3>1. d - s \in Int
            BY <1>1
        <3> HIDE DEF N
        <3> QED BY <1>1, <3>1, ModPlus
    <2>3. d + c = d - s + k * N
        <3> DEFINE u == k * N
        <3>1. u \in Int /\ c = u - s /\ d \in Int /\ s \in Int
            BY <1>1, <2>1
        <3> HIDE DEF u, c
        <3> QED BY <3>1 DEF u
    <2>4. Cut(d + c, size) = r
        BY <1>2, <2>2, <2>3 DEF Cut
    <2> HIDE DEF c, r
    <2> QED BY <2>4 DEF AluAdd
<1>5. Cut(s, size) = s /\ Cut(d, size) = d
    BY WordFacts
<1>6. OfSub(d, s, r, size) = Bit(~(d < h <=> s < h) /\ ~(d < h <=> r < h))
    <2>1. /\ Positive(d, size) <=> d < h
          /\ Positive(s, size) <=> s < h
          /\ Positive(r, size) <=> r < h
        <3> HIDE DEF r
        <3> QED BY <1>2, WordFacts
    <2> HIDE DEF r, h
    <2>2. (Positive(d, size) # Positive(s, size)) <=> ~(Positive(d, size) <=> Positive(s, size))
        BY DEF Positive
    <2>3. (Positive(d, size) # Positive(r, size)) <=> ~(Positive(d, size) <=> Positive(r, size))
        BY DEF Positive
    <2> QED BY <2>1, <2>2, <2>3 DEF OfSub
<1>7. CfSub(d, s) = Bit(d < s)
    BY DEF CfSub
<1> HIDE DEF r, c
<1>8. AluSub(f, s, d, size) = [val |-> r,
                               fl |-> [SZP(f, r, size) EXCEPT !.OF = OfSub(d, s, r, size),
                                                                       !.CF = CfSub(d, s)]]
    BY <1>4, <1>5 DEF AluSub, c
<1>9. [SZP(f, r, size) EXCEPT !.OF = OfSub(d, s, r, size), !.CF = CfSub(d, s)]
      = FlagsOf(f, r, size, CfSub(d, s), OfSub(d, s, r, size))
    <2>1. Bit(~Positive(r, size)) = Bit(r >= SignBit(size)) /\ Bit(Cut(r, size) = 0) = Bit(r = 0)
        BY <1>2, SignAndZero
    <2>2. SZP(f, r, size) = [f EXCEPT !.SF = Bit(r >= SignBit(size)), !.ZF = Bit(r = 0),
                                      !.PF = Parity(r)]
        BY <2>1 DEF SZP
    <2> QED BY <2>2 DEF FlagsOf
<1> QED BY <1>2, <1>6, <1>7, <1>8, <1>9 DEF SubFlags, r

-----------------------------------------------------------------------------
(* Instructions: the one at eip is executed, and no other.                 *)

LEMMA InstructionNames ==
    ASSUME NEW i
    PROVE  /\ AddInst(i) => i[1] = "add"
           /\ AdcInst(i) => i[1] = "adc"
           /\ SubInst(i) => i[1] = "sub"
           /\ SbbInst(i) => i[1] = "sbb"
           /\ AndInst(i) => i[1] = "and"
           /\ OrInst(i) => i[1] = "or"
           /\ XorInst(i) => i[1] = "xor"
           /\ ShlInst(i) => i[1] = "shl"
           /\ ShrInst(i) => i[1] = "shr"
           /\ SarInst(i) => i[1] = "sar"
           /\ CmpInst(i) => i[1] = "cmp"
           /\ TestInst(i) => i[1] = "test"
           /\ NegInst(i) => i[1] = "neg"
           /\ NotInst(i) => i[1] = "not"
           /\ IncInst(i) => i[1] = "inc"
           /\ DecInst(i) => i[1] = "dec"
           /\ MovInst(i) => i[1] = "mov"
           /\ MovsInst(i) => i[1] = "movs"
           /\ MovzInst(i) => i[1] = "movz"
           /\ MulInst(i) => i[1] = "mul"
           /\ ImulInst(i) => i[1] = "imul"
           /\ Imul2Inst(i) => i[1] = "imul2"
           /\ CltdInst(i) => i[1] = "cltd"
           /\ DivInst(i) => i[1] = "div"
           /\ IdivInst(i) => i[1] = "idiv"
           /\ SetccInst(i) => i[1] = "set"
           /\ CmovInst(i) => i[1] = "cmov"
           /\ JccInst(i) => i[1] = "j"
           /\ JmpInst(i) => i[1] = "jmp"
           /\ PushInst(i) => i[1] = "push"
           /\ PopInst(i) => i[1] = "pop"
           /\ CallInst(i) => i[1] = "call"
           /\ RetInst(i) => i[1] = "ret"
           /\ LeaveInst(i) => i[1] = "leave"
           /\ PushaInst(i) => i[1] = "pusha"
           /\ PopaInst(i) => i[1] = "popa"
           /\ RepInst(i) => i[1] = "rep"
           /\ IntInst(i) => i[1] = "int"
           /\ IretInst(i) => i[1] = "iret"
           /\ IrqHandle(i) => i[1] = "C"
           /\ FldsInst(i) => i[1] = "flds"
           /\ FaddsInst(i) => i[1] = "fadds"
           /\ FsubsInst(i) => i[1] = "fsubs"
           /\ FmulsInst(i) => i[1] = "fmuls"
           /\ FdivsInst(i) => i[1] = "fdivs"
           /\ FaddInst(i) => i[1] = "fadd"
           /\ FmulInst(i) => i[1] = "fmul"
           /\ FaddpInst(i) => i[1] = "faddp"
           /\ FxchInst(i) => i[1] = "fxch"
           /\ FstpsInst(i) => i[1] = "fstps"
           /\ FstsInst(i) => i[1] = "fsts"
           /\ FstpInst(i) => i[1] = "fstp"
           /\ FucomipInst(i) => i[1] = "fucomip"
<1>1. AddInst(i) => i[1] = "add"
    BY DEF AddInst, TwoOp, Fetch
<1>2. AdcInst(i) => i[1] = "adc"
    BY DEF AdcInst, TwoOp, Fetch
<1>3. SubInst(i) => i[1] = "sub"
    BY DEF SubInst, TwoOp, Fetch
<1>4. SbbInst(i) => i[1] = "sbb"
    BY DEF SbbInst, TwoOp, Fetch
<1>5. AndInst(i) => i[1] = "and"
    BY DEF AndInst, TwoOp, Fetch
<1>6. OrInst(i) => i[1] = "or"
    BY DEF OrInst, TwoOp, Fetch
<1>7. XorInst(i) => i[1] = "xor"
    BY DEF XorInst, TwoOp, Fetch
<1>8. ShlInst(i) => i[1] = "shl"
    BY DEF ShlInst, TwoOp, Fetch
<1>9. ShrInst(i) => i[1] = "shr"
    BY DEF ShrInst, TwoOp, Fetch
<1>10. SarInst(i) => i[1] = "sar"
    BY DEF SarInst, TwoOp, Fetch
<1>11. CmpInst(i) => i[1] = "cmp"
    BY DEF CmpInst, FlagsOp, Fetch
<1>12. TestInst(i) => i[1] = "test"
    BY DEF TestInst, FlagsOp, Fetch
<1>13. NegInst(i) => i[1] = "neg"
    BY DEF NegInst, OneOp, Fetch
<1>14. NotInst(i) => i[1] = "not"
    BY DEF NotInst, OneOp, Fetch
<1>15. IncInst(i) => i[1] = "inc"
    BY DEF IncInst, OneOp, Fetch
<1>16. DecInst(i) => i[1] = "dec"
    BY DEF DecInst, OneOp, Fetch
<1>17. MovInst(i) => i[1] = "mov"
    BY DEF MovInst, Move, Fetch
<1>18. MovsInst(i) => i[1] = "movs"
    BY DEF MovsInst, Move, Fetch
<1>19. MovzInst(i) => i[1] = "movz"
    BY DEF MovzInst, Move, Fetch
<1>20. MulInst(i) => i[1] = "mul"
    BY DEF MulInst, WideProduct, Fetch
<1>21. ImulInst(i) => i[1] = "imul"
    BY DEF ImulInst, WideProduct, Fetch
<1>22. Imul2Inst(i) => i[1] = "imul2"
    BY DEF Imul2Inst, TwoOp, Fetch
<1>23. CltdInst(i) => i[1] = "cltd"
    BY DEF CltdInst, Fetch
<1>24. DivInst(i) => i[1] = "div"
    BY DEF DivInst, Divide, Fetch
<1>25. IdivInst(i) => i[1] = "idiv"
    BY DEF IdivInst, Divide, Fetch
<1>26. SetccInst(i) => i[1] = "set"
    BY DEF SetccInst, Fetch
<1>27. CmovInst(i) => i[1] = "cmov"
    BY DEF CmovInst, Fetch
<1>28. JccInst(i) => i[1] = "j"
    BY DEF JccInst, Fetch
<1>29. JmpInst(i) => i[1] = "jmp"
    BY DEF JmpInst, Fetch
<1>30. PushInst(i) => i[1] = "push"
    BY DEF PushInst, Fetch
<1>31. PopInst(i) => i[1] = "pop"
    BY DEF PopInst, Fetch
<1>32. CallInst(i) => i[1] = "call"
    BY DEF CallInst, Fetch
<1>33. RetInst(i) => i[1] = "ret"
    BY DEF RetInst, Fetch
<1>34. LeaveInst(i) => i[1] = "leave"
    BY DEF LeaveInst, Fetch
<1>35. PushaInst(i) => i[1] = "pusha"
    BY DEF PushaInst, Fetch
<1>36. PopaInst(i) => i[1] = "popa"
    BY DEF PopaInst, Fetch
<1>37. RepInst(i) => i[1] = "rep"
    BY DEF RepInst, Fetch
<1>38. IntInst(i) => i[1] = "int"
    BY DEF IntInst, Fetch
<1>39. IretInst(i) => i[1] = "iret"
    BY DEF IretInst, Fetch
<1>40. IrqHandle(i) => i[1] = "C"
    BY DEF IrqHandle, Fetch
<1>41. FldsInst(i) => i[1] = "flds"
    BY DEF FldsInst, FloatInst, Fetch
<1>42. FaddsInst(i) => i[1] = "fadds"
    BY DEF FaddsInst, SetTop, FloatInst, Fetch
<1>43. FsubsInst(i) => i[1] = "fsubs"
    BY DEF FsubsInst, SetTop, FloatInst, Fetch
<1>44. FmulsInst(i) => i[1] = "fmuls"
    BY DEF FmulsInst, SetTop, FloatInst, Fetch
<1>45. FdivsInst(i) => i[1] = "fdivs"
    BY DEF FdivsInst, SetTop, FloatInst, Fetch
<1>46. FaddInst(i) => i[1] = "fadd"
    BY DEF FaddInst, FloatInst, Fetch
<1>47. FmulInst(i) => i[1] = "fmul"
    BY DEF FmulInst, FloatInst, Fetch
<1>48. FaddpInst(i) => i[1] = "faddp"
    BY DEF FaddpInst, FloatInst, Fetch
<1>49. FxchInst(i) => i[1] = "fxch"
    BY DEF FxchInst, FloatInst, Fetch
<1>50. FstpsInst(i) => i[1] = "fstps"
    BY DEF FstpsInst, FloatInst, Fetch
<1>51. FstsInst(i) => i[1] = "fsts"
    BY DEF FstsInst, FloatInst, Fetch
<1>52. FstpInst(i) => i[1] = "fstp"
    BY DEF FstpInst, FloatInst, Fetch
<1>53. FucomipInst(i) => i[1] = "fucomip"
    BY DEF FucomipInst, Fetch
<1> QED BY <1>1, <1>2, <1>3, <1>4, <1>5, <1>6, <1>7, <1>8, <1>9, <1>10, <1>11, <1>12,
           <1>13, <1>14, <1>15, <1>16, <1>17, <1>18, <1>19, <1>20, <1>21, <1>22,
           <1>23, <1>24, <1>25, <1>26, <1>27, <1>28, <1>29, <1>30, <1>31, <1>32,
           <1>33, <1>34, <1>35, <1>36, <1>37, <1>38, <1>39, <1>40, <1>41, <1>42,
           <1>43, <1>44, <1>45, <1>46, <1>47, <1>48, <1>49, <1>50, <1>51, <1>52, <1>53

LEMMA Dispatch ==
    ASSUME NEW i, Integer(i) \/ X87(i)
    PROVE  /\ i[1] = "add" => AddInst(i)
           /\ i[1] = "adc" => AdcInst(i)
           /\ i[1] = "sub" => SubInst(i)
           /\ i[1] = "sbb" => SbbInst(i)
           /\ i[1] = "and" => AndInst(i)
           /\ i[1] = "or" => OrInst(i)
           /\ i[1] = "xor" => XorInst(i)
           /\ i[1] = "shl" => ShlInst(i)
           /\ i[1] = "shr" => ShrInst(i)
           /\ i[1] = "sar" => SarInst(i)
           /\ i[1] = "cmp" => CmpInst(i)
           /\ i[1] = "neg" => NegInst(i)
           /\ i[1] = "not" => NotInst(i)
           /\ i[1] = "inc" => IncInst(i)
           /\ i[1] = "dec" => DecInst(i)
           /\ i[1] = "mov" => MovInst(i)
           /\ i[1] = "movs" => MovsInst(i)
           /\ i[1] = "movz" => MovzInst(i)
           /\ i[1] = "mul" => MulInst(i)
           /\ i[1] = "imul" => ImulInst(i)
           /\ i[1] = "imul2" => Imul2Inst(i)
           /\ i[1] = "cltd" => CltdInst(i)
           /\ i[1] = "div" => DivInst(i)
           /\ i[1] = "idiv" => IdivInst(i)
           /\ i[1] = "set" => SetccInst(i)
           /\ i[1] = "cmov" => CmovInst(i)
           /\ i[1] = "j" => JccInst(i)
           /\ i[1] = "jmp" => JmpInst(i)
           /\ i[1] = "push" => PushInst(i)
           /\ i[1] = "call" => CallInst(i)
           /\ i[1] = "ret" => RetInst(i)
           /\ i[1] = "pusha" => PushaInst(i)
           /\ i[1] = "popa" => PopaInst(i)
           /\ i[1] = "rep" => RepInst(i)
           /\ i[1] = "iret" => IretInst(i)
           /\ i[1] = "C" => IrqHandle(i)
<1>1. ASSUME i[1] = "add" PROVE AddInst(i)
    BY <1>1, InstructionNames DEF Integer, X87
<1>2. ASSUME i[1] = "adc" PROVE AdcInst(i)
    BY <1>2, InstructionNames DEF Integer, X87
<1>3. ASSUME i[1] = "sub" PROVE SubInst(i)
    BY <1>3, InstructionNames DEF Integer, X87
<1>4. ASSUME i[1] = "sbb" PROVE SbbInst(i)
    BY <1>4, InstructionNames DEF Integer, X87
<1>5. ASSUME i[1] = "and" PROVE AndInst(i)
    BY <1>5, InstructionNames DEF Integer, X87
<1>6. ASSUME i[1] = "or" PROVE OrInst(i)
    BY <1>6, InstructionNames DEF Integer, X87
<1>7. ASSUME i[1] = "xor" PROVE XorInst(i)
    BY <1>7, InstructionNames DEF Integer, X87
<1>8. ASSUME i[1] = "shl" PROVE ShlInst(i)
    BY <1>8, InstructionNames DEF Integer, X87
<1>9. ASSUME i[1] = "shr" PROVE ShrInst(i)
    BY <1>9, InstructionNames DEF Integer, X87
<1>10. ASSUME i[1] = "sar" PROVE SarInst(i)
    BY <1>10, InstructionNames DEF Integer, X87
<1>11. ASSUME i[1] = "cmp" PROVE CmpInst(i)
    BY <1>11, InstructionNames DEF Integer, X87
<1>12. ASSUME i[1] = "neg" PROVE NegInst(i)
    BY <1>12, InstructionNames DEF Integer, X87
<1>13. ASSUME i[1] = "not" PROVE NotInst(i)
    BY <1>13, InstructionNames DEF Integer, X87
<1>14. ASSUME i[1] = "inc" PROVE IncInst(i)
    BY <1>14, InstructionNames DEF Integer, X87
<1>15. ASSUME i[1] = "dec" PROVE DecInst(i)
    BY <1>15, InstructionNames DEF Integer, X87
<1>16. ASSUME i[1] = "mov" PROVE MovInst(i)
    BY <1>16, InstructionNames DEF Integer, X87
<1>17. ASSUME i[1] = "movs" PROVE MovsInst(i)
    BY <1>17, InstructionNames DEF Integer, X87
<1>18. ASSUME i[1] = "movz" PROVE MovzInst(i)
    BY <1>18, InstructionNames DEF Integer, X87
<1>19. ASSUME i[1] = "mul" PROVE MulInst(i)
    BY <1>19, InstructionNames DEF Integer, X87
<1>20. ASSUME i[1] = "imul" PROVE ImulInst(i)
    BY <1>20, InstructionNames DEF Integer, X87
<1>21. ASSUME i[1] = "imul2" PROVE Imul2Inst(i)
    BY <1>21, InstructionNames DEF Integer, X87
<1>22. ASSUME i[1] = "cltd" PROVE CltdInst(i)
    BY <1>22, InstructionNames DEF Integer, X87
<1>23. ASSUME i[1] = "div" PROVE DivInst(i)
    BY <1>23, InstructionNames DEF Integer, X87
<1>24. ASSUME i[1] = "idiv" PROVE IdivInst(i)
    BY <1>24, InstructionNames DEF Integer, X87
<1>25. ASSUME i[1] = "set" PROVE SetccInst(i)
    BY <1>25, InstructionNames DEF Integer, X87
<1>26. ASSUME i[1] = "cmov" PROVE CmovInst(i)
    BY <1>26, InstructionNames DEF Integer, X87
<1>27. ASSUME i[1] = "j" PROVE JccInst(i)
    BY <1>27, InstructionNames DEF Integer, X87
<1>28. ASSUME i[1] = "jmp" PROVE JmpInst(i)
    BY <1>28, InstructionNames DEF Integer, X87
<1>29. ASSUME i[1] = "push" PROVE PushInst(i)
    BY <1>29, InstructionNames DEF Integer, X87
<1>30. ASSUME i[1] = "call" PROVE CallInst(i)
    BY <1>30, InstructionNames DEF Integer, X87
<1>31. ASSUME i[1] = "ret" PROVE RetInst(i)
    BY <1>31, InstructionNames DEF Integer, X87
<1>32. ASSUME i[1] = "pusha" PROVE PushaInst(i)
    BY <1>32, InstructionNames DEF Integer, X87
<1>33. ASSUME i[1] = "popa" PROVE PopaInst(i)
    BY <1>33, InstructionNames DEF Integer, X87
<1>34. ASSUME i[1] = "rep" PROVE RepInst(i)
    BY <1>34, InstructionNames DEF Integer, X87
<1>35. ASSUME i[1] = "iret" PROVE IretInst(i)
    BY <1>35, InstructionNames DEF Integer, X87
<1>36. ASSUME i[1] = "C" PROVE IrqHandle(i)
    BY <1>36, InstructionNames DEF Integer, X87
<1> QED BY <1>1, <1>2, <1>3, <1>4, <1>5, <1>6, <1>7, <1>8, <1>9, <1>10, <1>11, <1>12,
           <1>13, <1>14, <1>15, <1>16, <1>17, <1>18, <1>19, <1>20, <1>21, <1>22,
           <1>23, <1>24, <1>25, <1>26, <1>27, <1>28, <1>29, <1>30, <1>31, <1>32,
           <1>33, <1>34, <1>35, <1>36

-----------------------------------------------------------------------------
(* The conditions after a subtraction.                                     *)

\* The difference of the signed numbers wraps to the value of alu_sub.
LEMMA SignedDifference ==
    ASSUME NEW size \in Size, NEW x \in Words(size), NEW y \in Words(size)
    PROVE  LET r == SubValue(x, y, size)
               d == Signed(x, size) - Signed(y, size)
           IN d \in Int /\ Signed(d, size) = IF r < SignBit(size) THEN r ELSE r - 2^size
<1> DEFINE r == SubValue(x, y, size)
           d == Signed(x, size) - Signed(y, size)
           N == 2^size
           h == SignBit(size)
<1>1. N \in Nat \ {0} /\ h \in Nat \ {0} /\ N = 2 * h /\ x \in 0 .. N - 1 /\ y \in 0 .. N - 1
    BY SizeFacts DEF Words
<1>2. /\ Signed(x, size) = IF x < h THEN x ELSE x - N
      /\ Signed(y, size) = IF y < h THEN y ELSE y - N
    BY WordFacts
<1>3. r = IF x >= y THEN x - y ELSE x - y + N
    BY DEF SubValue
<1> HIDE DEF r, N, h
<1>4. d \in Int /\ r \in 0 .. N - 1 /\ \E k \in {-2, -1, 0, 1} : d = r + k * N
    <2>1. d \in Int /\ r \in 0 .. N - 1
        BY <1>1, <1>2, <1>3
    <2>2. d = r - 2 * N \/ d = r - N \/ d = r \/ d = r + N
        BY <1>1, <1>2, <1>3
    <2>3. (-2) * N = -(2 * N) /\ (-1) * N = -N /\ 0 * N = 0 /\ 1 * N = N
        BY <1>1
    <2> HIDE DEF d
    <2> QED BY <1>1, <2>1, <2>2, <2>3
<1> HIDE DEF d
<1>5. d % N = r
    <2>1. PICK k \in {-2, -1, 0, 1} : d = r + k * N
        BY <1>4
    <2>2. (r + k * N) % N = r % N
        <3>1. k \in Int /\ r \in Int
            BY <1>4, <2>1
        <3> QED BY <1>1, <3>1, ModPlus
    <2>3. r % N = r
        BY <1>1, <1>4, SmallMod
    <2> QED BY <2>1, <2>2, <2>3
<1>6. Cut(d, size) = r
    BY <1>5 DEF Cut, N
<1>7. Positive(d, size) <=> r < h
    BY <1>6 DEF Positive, h, SignBit
<1>8. Signed(d, size) = IF r < h THEN r ELSE r - N
    BY <1>6, <1>7 DEF Signed, N
<1> QED BY <1>4, <1>8 DEF d, r, N, h

\* What the conditions say after cmp of x and y.
Ordered(f, x, y, size) ==
    LET sx == Signed(x, size)
        sy == Signed(y, size)
    IN /\ Condition("e", f)  <=> x = y
       /\ Condition("a", f)  <=> x > y
       /\ Condition("be", f) <=> x <= y
       /\ Condition("b", f)  <=> x < y
       /\ Condition("g", f)  <=> sx > sy
       /\ Condition("ge", f) <=> sx >= sy
       /\ Condition("l", f)  <=> sx < sy
       /\ Condition("le", f) <=> sx <= sy
       /\ Condition("o", f)  <=> sx - sy # Signed(sx - sy, size)
       /\ Condition("s", f)  <=> Signed(sx - sy, size) < 0

LEMMA SubOrders ==
    ASSUME NEW g \in Flags, NEW size \in Size, NEW x \in Words(size), NEW y \in Words(size)
    PROVE  SubFlags(g, x, y, size) \in Flags /\ SubFlags(g, x, y, size).IF = g.IF
           /\ Ordered(SubFlags(g, x, y, size), x, y, size)
<1> DEFINE r == SubValue(x, y, size)
           N == 2^size
           h == SignBit(size)
           sx == Signed(x, size)
           sy == Signed(y, size)
           f == SubFlags(g, x, y, size)
           z == Signed(sx - sy, size)
           ov == ~(x < h <=> y < h) /\ ~(x < h <=> r < h)
<1>1. N \in Nat \ {0} /\ h \in Nat \ {0} /\ N = 2 * h /\ x \in 0 .. N - 1 /\ y \in 0 .. N - 1
    BY SizeFacts DEF Words
<1>2. r \in Words(size) /\ r = IF x >= y THEN x - y ELSE x - y + N
    BY AluSubFacts DEF SubValue
<1>3. /\ f \in Flags /\ f.IF = g.IF
      /\ f.SF = Bit(r >= h) /\ f.ZF = Bit(r = 0) /\ f.CF = Bit(x < y) /\ f.OF = Bit(ov)
    <2>1. Bit(x < y) \in {0, 1} /\ Bit(ov) \in {0, 1}
        BY DEF Bit
    <2>2. f = FlagsOf(g, r, size, Bit(x < y), Bit(ov))
        BY DEF SubFlags
    <2> DEFINE cf == Bit(x < y)
               of == Bit(ov)
    <2>3. cf \in {0, 1} /\ of \in {0, 1} /\ f = FlagsOf(g, r, size, cf, of)
        BY <2>1, <2>2
    <2> HIDE DEF f, r, cf, of, ov
    <2>4. /\ f \in Flags /\ f.IF = g.IF
          /\ f.SF = Bit(r >= SignBit(size)) /\ f.ZF = Bit(r = 0) /\ f.CF = cf /\ f.OF = of
        <3>1. r \in Words(size)
            BY <1>2
        <3>2. /\ FlagsOf(g, r, size, cf, of) \in Flags
              /\ FlagsOf(g, r, size, cf, of).IF = g.IF
              /\ FlagsOf(g, r, size, cf, of).SF = Bit(r >= SignBit(size))
              /\ FlagsOf(g, r, size, cf, of).ZF = Bit(r = 0)
              /\ FlagsOf(g, r, size, cf, of).CF = cf /\ FlagsOf(g, r, size, cf, of).OF = of
            <4>1. Bit(r >= SignBit(size)) \in {0, 1} /\ Bit(r = 0) \in {0, 1}
                  /\ Parity(r) \in {0, 1}
                BY DEF Bit, Parity
            <4> QED BY <2>3, <4>1 DEF FlagsOf, Flags, Arithmetic
        <3> QED BY <2>3, <3>2
    <2> QED BY <2>4 DEF cf, of
<1>4. /\ sx = IF x < h THEN x ELSE x - N
      /\ sy = IF y < h THEN y ELSE y - N
      /\ z = IF r < h THEN r ELSE r - N
    BY WordFacts, SignedDifference
<1> HIDE DEF r, N, h, sx, sy, f, z
<1>5. r \in 0 .. N - 1
    BY <1>2 DEF Words, N
<1>6. /\ f.ZF = 1 <=> x = y
      /\ f.ZF = 0 <=> x # y
      /\ f.CF = 1 <=> x < y
      /\ f.CF = 0 <=> x >= y
    <2>1. r = 0 <=> x = y
        BY <1>1, <1>2
    <2> QED BY <1>1, <1>3, <2>1 DEF Bit
<1>7. f.SF = f.OF <=> sx >= sy
    <2>1. (r >= h <=> ov) <=> sx >= sy
        BY <1>1, <1>2, <1>4, <1>5
    <2>2. f.SF = f.OF <=> (r >= h <=> ov)
        <3> HIDE DEF ov
        <3> QED BY <1>3 DEF Bit
    <2> QED BY <2>1, <2>2
<1>8. sx = sy <=> x = y
    BY <1>1, <1>4
<1>9. sx \in Int /\ sy \in Int
    BY <1>1, <1>4
<1>10. f.OF = 1 <=> sx - sy # z
    <2>1. ov <=> sx - sy # z
        BY <1>1, <1>2, <1>4, <1>5
    <2> HIDE DEF ov
    <2> QED BY <1>3, <2>1 DEF Bit
<1>11. f.SF = 1 <=> z < 0
    BY <1>1, <1>3, <1>4, <1>5 DEF Bit
<1>12. Ordered(f, x, y, size)
    <2>1. /\ Condition("e", f)  <=> x = y
          /\ Condition("a", f)  <=> x > y
          /\ Condition("be", f) <=> x <= y
          /\ Condition("b", f)  <=> x < y
        <3>1. x \in Int /\ y \in Int
            BY <1>1
        <3> QED BY <1>6, <3>1 DEF Condition
    <2>2. /\ Condition("g", f)  <=> sx > sy
          /\ Condition("ge", f) <=> sx >= sy
          /\ Condition("l", f)  <=> sx < sy
          /\ Condition("le", f) <=> sx <= sy
        BY <1>6, <1>7, <1>8, <1>9 DEF Condition
    <2>3. /\ Condition("o", f)  <=> sx - sy # z
          /\ Condition("s", f)  <=> z < 0
        BY <1>10, <1>11 DEF Condition
    <2> QED BY <2>1, <2>2, <2>3 DEF Ordered, sx, sy, z
<1> QED BY <1>3, <1>12 DEF f

-----------------------------------------------------------------------------
(* The routines that compare.                                              *)

Comparing == {"cmp", "cmpb", "max", "lt"}
Program(l) ==
    CASE l = "cmp"  -> <<<<"cmp", <<"reg", "ebx">>, <<"reg", "eax">>, Long>>>>
      [] l = "cmpb" -> <<<<"cmp", <<"reg", "ebx">>, <<"reg", "eax">>, ByteBits>>>>
      [] l = "max"  -> <<<<"cmp", <<"reg", "ebx">>, <<"reg", "eax">>, Long>>,
                         <<"cmov", "l", <<"reg", "ebx">>, <<"reg", "eax">>>>>>
      [] l = "lt"   -> <<<<"cmp", <<"reg", "ebx">>, <<"reg", "eax">>, Long>>,
                         <<"set", "b", <<"reg", "ecx">>>>,
                         <<"movz", <<"reg", "ecx">>, <<"reg", "ecx">>, Long>>>>

LEMMA ComparingCode ==
    ASSUME NEW l \in Comparing, Code = RoutineCode
    PROVE  Code[l] = Program(l)
<1>1. l \in DOMAIN Routine
    BY DEF Comparing, Routine
<1>2. Code[l] = Routine[l]
    BY <1>1 DEF RoutineCode
<1>3. Routine[l] = Program(l)
    <2>1. CASE l = "cmp"
        BY <2>1 DEF Routine, Program, R, Eax, Ebx, L
    <2>2. CASE l = "cmpb"
        BY <2>2 DEF Routine, Program, R, Eax, Ebx, L
    <2>3. CASE l = "max"
        BY <2>3 DEF Routine, Program, R, Eax, Ebx, L
    <2>4. CASE l = "lt"
        BY <2>4 DEF Routine, Program, R, Eax, Ebx, Ecx, L
    <2> QED BY <2>1, <2>2, <2>3, <2>4 DEF Comparing
<1> QED BY <1>2, <1>3

\* Where the routine is, and what is known of its registers and flags there.
CmpSize(l) == IF l = "cmpb" THEN ByteBits ELSE Long
Compares(f, l, a, b) == Ordered(f, Cut(a, CmpSize(l)), Cut(b, CmpSize(l)), CmpSize(l))
Registers == DataRegs \cup AddrRegs
Result(l) ==
    \/ l = "max" /\ Signed(reg["eax"], L) >= Signed(Was["eax"], L)
                 /\ Signed(reg["eax"], L) >= Signed(Was["ebx"], L)
                 /\ reg["eax"] \in {Was["eax"], Was["ebx"]}
    \/ l = "lt" /\ reg["ecx"] = Bit(Was["eax"] < Was["ebx"])
Stage(l, k) ==
    \/ k = 1 /\ reg["eax"] = Was["eax"] /\ reg["ebx"] = Was["ebx"] /\ reg["ecx"] = 0
    \/ k = 2 /\ reg["eax"] = Was["eax"] /\ reg["ebx"] = Was["ebx"] /\ reg["ecx"] = 0
             /\ Compares(fl, l, Was["eax"], Was["ebx"])
    \/ k = 3 /\ Result(l)
    \/ k = 4 /\ l = "lt" /\ Result(l)
ComparingAt ==
    given.label \in Comparing =>
        /\ irqs = 0
        /\ Was["eax"] \in Word /\ Was["ebx"] \in Word
        /\ DOMAIN reg = Registers /\ fl \in Flags
        /\ \E k \in 1 .. 4 : eip = <<given.label, k>> /\ Stage(given.label, k)

LEMMA ComparingLabels ==
    ASSUME NEW l \in Comparing
    PROVE  /\ l \in Labels /\ Irqs[l] = 0 /\ Operands[l] = In(Word, {0}, {0}, Word)
           /\ l \notin {"copy", "fill"}
<1>1. l \in Labels
    BY DEF Labels, Routine, Comparing
<1>2. Irqs[l] = 0
    BY <1>1 DEF Irqs, Comparing
<1>3. Operands[l] = In(Word, {0}, {0}, Word)
    BY <1>1 DEF Operands, Comparing, W, Z
<1> QED BY <1>1, <1>2, <1>3 DEF Comparing

LEMMA ComparingStarts == RInit => ComparingAt
<1> SUFFICES ASSUME RInit, given.label \in Comparing
             PROVE  /\ irqs = 0
                    /\ Was["eax"] \in Word /\ Was["ebx"] \in Word
                    /\ DOMAIN reg = Registers /\ fl \in Flags
                    /\ \E k \in 1 .. 4 : eip = <<given.label, k>> /\ Stage(given.label, k)
    BY DEF ComparingAt
<1>1. PICK l \in Labels :
          /\ \E d \in Operands[l], s \in Pointers(l) : reg = Start(d, s)
          /\ eip = <<l, 1>> /\ irqs = Irqs[l] /\ fl = Flags0
          /\ given.label = l /\ given.reg = reg
    BY DEF RInit
<1>2. l \in Comparing /\ irqs = 0 /\ eip = <<given.label, 1>>
    BY <1>1, ComparingLabels
<1>3. PICK d \in In(Word, {0}, {0}, Word), s \in Pointers(l) : reg = Start(d, s)
    BY <1>1, <1>2, ComparingLabels
<1>4. /\ DOMAIN reg = Registers
      /\ reg["eax"] = d.eax /\ reg["ebx"] = d.ebx /\ reg["ecx"] = d.ecx
    BY <1>3 DEF Start, Registers, DataRegs
<1>5. d.eax \in Word /\ d.ebx \in Word /\ d.ecx = 0
    BY <1>3 DEF In
<1>6. fl \in Flags
    BY <1>1 DEF Flags0, Flags, Arithmetic
<1>7. Stage(given.label, 1)
    BY <1>1, <1>4, <1>5 DEF Stage, Was
<1> QED BY <1>1, <1>2, <1>4, <1>5, <1>6, <1>7 DEF Was

LEMMA ReadWord ==
    ASSUME NEW r, NEW size \in Size
    PROVE  Read(<<"reg", r>>, size) = Cut(reg[r], size)
BY DEF Read

LEMMA WriteWord ==
    ASSUME NEW r \in Registers, NEW size \in Size, NEW val, DOMAIN reg = Registers,
           Write(<<"reg", r>>, val, size)
    PROVE  /\ DOMAIN reg' = Registers /\ reg'[r] = reg[r] - Cut(reg[r], size) + Cut(val, size)
           /\ \A q \in Registers \ {r} : reg'[q] = reg[q]
BY DEF Write

LEMMA ComparingStep ==
    ASSUME ComparingAt, [CpuNext \/ Done]_cpuvars, Code = RoutineCode
    PROVE  ComparingAt'
<1> DEFINE l == given.label
           a == Was["eax"]
           b == Was["ebx"]
<1>1. CASE UNCHANGED cpuvars
    BY <1>1 DEF ComparingAt, cpuvars, cpu, Was, Stage, Result, Compares
<1>2. CASE Done
    BY <1>1, <1>2 DEF Done
<1>3. ASSUME CpuNext PROVE ComparingAt'
    <2>1. given' = given
        BY <1>3 DEF CpuNext, ExecInst, DoIntr
    <2> SUFFICES ASSUME l \in Comparing
                 PROVE  /\ irqs' = 0
                        /\ DOMAIN reg' = Registers /\ fl' \in Flags
                        /\ \E k \in 1 .. 4 : eip' = <<l, k>> /\ Stage(l, k)'
        BY <2>1 DEF ComparingAt, Was
    <2>2. /\ irqs = 0 /\ a \in Word /\ b \in Word /\ DOMAIN reg = Registers /\ fl \in Flags
          /\ Code[l] = Program(l)
        BY ComparingCode DEF ComparingAt
    <2>3. PICK k \in 1 .. 4 : eip = <<l, k>> /\ Stage(l, k)
        BY DEF ComparingAt
    <2> DEFINE i == Program(l)[k]
    <2>4. k <= Len(Program(l)) /\ (Integer(i) \/ X87(i)) /\ irqs' = 0
        <3>1. ~DoIntr
            BY <2>2 DEF DoIntr
        <3> QED BY <1>3, <2>2, <2>3, <3>1 DEF CpuNext, ExecInst, Running, Inst
    <2>5. Long \in Size /\ ByteBits \in Size /\ CmpSize(l) \in Size /\ a \in Words(Long)
          /\ b \in Words(Long)
          /\ a \in Int /\ b \in Int
        BY <2>2, SizeFacts DEF Size, CmpSize, Word, Words
    <2>6. CASE k = 1
        <3>1. i = <<"cmp", <<"reg", "ebx">>, <<"reg", "eax">>, CmpSize(l)>>
            BY <2>6 DEF Program, Comparing, CmpSize
        <3>2. CmpInst(i)
            BY <2>4, <3>1, Dispatch
        <3> DEFINE x == Cut(a, CmpSize(l))
                   y == Cut(b, CmpSize(l))
        <3>3. reg["eax"] = a /\ reg["ebx"] = b /\ reg["ecx"] = 0
            BY <2>3, <2>6 DEF Stage
        <3>4. OprSrc(i) = y /\ OprDest(i) = x /\ OpSize(i) = CmpSize(l)
            BY <2>5, <3>1, <3>3, ReadWord DEF OprSrc, OprDest, OpSize
        <3>5. x \in Words(CmpSize(l)) /\ y \in Words(CmpSize(l))
            BY <2>5, CutIsWord
        <3>6. /\ fl' = AluSub(fl, y, x, CmpSize(l)).fl
              /\ UNCHANGED reg /\ eip' = <<l, 2>>
            BY <2>3, <2>6, <3>2, <3>4 DEF CmpInst, FlagsOp, NextInst, Goto
        <3>7. fl' = SubFlags(fl, x, y, CmpSize(l))
            BY <2>2, <2>5, <3>5, <3>6, AluSubFacts
        <3>8. fl' \in Flags /\ Compares(fl', l, a, b)
            BY <2>2, <2>5, <3>5, <3>7, SubOrders DEF Compares
        <3>9. Stage(l, 2)'
            BY <2>1, <3>3, <3>6, <3>8 DEF Stage, Was
        <3> QED BY <2>2, <2>4, <3>6, <3>8, <3>9
    <2>7. CASE k = 2
        <3>1. l \in {"max", "lt"} /\ CmpSize(l) = Long
            BY <2>4, <2>7 DEF Program, Comparing, CmpSize
        <3>2. reg["eax"] = a /\ reg["ebx"] = b /\ reg["ecx"] = 0 /\ Compares(fl, l, a, b)
            BY <2>3, <2>7 DEF Stage
        <3>3. /\ Cut(a, Long) = a /\ Cut(b, Long) = b
            BY <2>5, WordFacts
        <3>4. /\ Condition("l", fl) <=> Signed(a, Long) < Signed(b, Long)
              /\ Condition("b", fl) <=> a < b
            BY <3>1, <3>2, <3>3 DEF Compares, Ordered
        <3>5. Signed(a, Long) \in Int /\ Signed(b, Long) \in Int
            BY <2>5, WordFacts, SizeFacts
        <3>6. CASE l = "max"
            <4>1. i = <<"cmov", "l", <<"reg", "ebx">>, <<"reg", "eax">>>>
                BY <2>7, <3>6 DEF Program
            <4>2. CmovInst(i)
                BY <2>4, <4>1, Dispatch
            <4>3. fl' = fl /\ eip' = <<l, 3>>
                  /\ IF Condition("l", fl)
                     THEN Write(<<"reg", "eax">>, Read(<<"reg", "ebx">>, Long), Long)
                     ELSE UNCHANGED <<reg, cells>>
                BY <2>3, <2>7, <4>1, <4>2 DEF CmovInst, NextInst, Goto
            <4>4. DOMAIN reg' = Registers
                  /\ reg'["eax"] = IF Signed(a, Long) < Signed(b, Long) THEN b ELSE a
                <5>1. CASE Condition("l", fl)
                    <6>1. Write(<<"reg", "eax">>, b, Long)
                        BY <2>5, <3>2, <3>3, <4>3, <5>1, ReadWord
                    <6>2. "eax" \in Registers
                        BY DEF Registers, DataRegs
                    <6>3. DOMAIN reg' = Registers /\ reg'["eax"] = a - a + b
                        BY <2>2, <2>5, <3>2, <3>3, <6>1, <6>2, WriteWord
                    <6> QED BY <2>5, <3>4, <5>1, <6>3
                <5>2. CASE ~Condition("l", fl)
                    BY <2>2, <3>2, <3>4, <4>3, <5>2
                <5> QED BY <5>1, <5>2
            <4>5. Result(l)'
                BY <2>1, <3>5, <3>6, <4>4 DEF Result, Was, L
            <4> QED BY <2>2, <2>4, <4>3, <4>4, <4>5 DEF Stage
        <3>7. CASE l = "lt"
            <4> DEFINE bit == Bit(a < b)
            <4>1. i = <<"set", "b", <<"reg", "ecx">>>>
                BY <2>7, <3>7 DEF Program
            <4>2. SetccInst(i)
                BY <2>4, <4>1, Dispatch
            <4>3. Condition("b", fl) \in BOOLEAN /\ Bit(Condition("b", fl)) = bit
                BY <3>4 DEF Condition, Bit
            <4>4. fl' = fl /\ eip' = <<l, 3>> /\ Write(<<"reg", "ecx">>, bit, ByteBits)
                BY <2>3, <2>7, <4>1, <4>2, <4>3 DEF SetccInst, NextInst, Goto
            <4>5. "ecx" \in Registers
                BY DEF Registers, DataRegs
            <4>6. Cut(bit, ByteBits) = bit /\ Cut(0, ByteBits) = 0 /\ bit \in Int
                <5>1. 2^ByteBits >= 2 /\ 2^ByteBits \in Nat
                    BY <2>5, SizeFacts
                <5>2. bit \in Words(ByteBits) /\ 0 \in Words(ByteBits)
                    BY <5>1 DEF Words, Bit
                <5> QED BY <2>5, <5>2, WordFacts DEF Bit
            <4>7. DOMAIN reg' = Registers /\ reg'["ecx"] = bit
                <5>1. DOMAIN reg' = Registers /\ reg'["ecx"] = 0 - 0 + bit
                    BY <2>2, <2>5, <3>2, <4>4, <4>5, <4>6, WriteWord
                <5> QED BY <4>6, <5>1
            <4>8. Result(l)'
                BY <2>1, <3>7, <4>7 DEF Result, Was
            <4> QED BY <2>2, <2>4, <4>4, <4>7, <4>8 DEF Stage
        <3> QED BY <3>1, <3>6, <3>7
    <2>8. CASE k = 3
        <3> DEFINE bit == Bit(a < b)
        <3>1. l = "lt"
            BY <2>4, <2>8 DEF Program, Comparing
        <3>2. reg["ecx"] = bit
            BY <2>3, <2>8, <3>1 DEF Stage, Result
        <3>3. i = <<"movz", <<"reg", "ecx">>, <<"reg", "ecx">>, Long>>
            BY <2>8, <3>1 DEF Program
        <3>4. MovzInst(i)
            BY <2>4, <3>3, Dispatch
        <3>5. /\ fl' = fl /\ eip' = <<l, 4>>
              /\ Write(<<"reg", "ecx">>, Read(<<"reg", "ecx">>, ByteBits), Long)
            BY <2>3, <2>8, <3>3, <3>4 DEF MovzInst, Move, NextInst, Goto
        <3>6. \A size \in Size : Cut(bit, size) = bit
            <4> SUFFICES ASSUME NEW size \in Size PROVE Cut(bit, size) = bit
                OBVIOUS
            <4>1. 2^size >= 2 /\ 2^size \in Nat
                BY SizeFacts
            <4>2. bit \in Words(size)
                BY <4>1 DEF Words, Bit
            <4> QED BY <4>2, WordFacts
        <3>7. Write(<<"reg", "ecx">>, bit, Long)
            BY <2>5, <3>2, <3>5, <3>6, ReadWord
        <3>8. DOMAIN reg' = Registers /\ reg'["ecx"] = bit - bit + bit
            <4>1. "ecx" \in Registers
                BY DEF Registers, DataRegs
            <4> QED BY <2>2, <2>5, <3>2, <3>6, <3>7, <4>1, WriteWord
        <3>9. bit \in Int
            BY DEF Bit
        <3>10. Result(l)'
            BY <2>1, <3>1, <3>8, <3>9 DEF Result, Was
        <3>11. Stage(l, 4)'
            BY <2>1, <3>1, <3>10 DEF Stage
        <3> QED BY <2>2, <2>4, <3>5, <3>8, <3>11
    <2>9. CASE k = 4
        BY <2>4, <2>9 DEF Program, Comparing
    <2> QED BY <2>3, <2>6, <2>7, <2>8, <2>9
<1> QED BY <1>1, <1>2, <1>3

LEMMA ComparingEnds ==
    ASSUME ComparingAt, Code = RoutineCode
    PROVE  Compared
<1> DEFINE l == given.label
<1>1. ASSUME l \in Comparing, Returned({l})
      PROVE  /\ l \in {"cmp", "cmpb"} => Compares(fl, l, Was["eax"], Was["ebx"])
             /\ l \in {"max", "lt"} => Result(l)
    <2>1. PICK k \in 1 .. 4 : eip = <<l, k>> /\ Stage(l, k)
        BY <1>1 DEF ComparingAt
    <2>2. k = Len(Program(l)) + 1
        BY <1>1, <2>1, ComparingCode DEF Returned
    <2> QED BY <1>1, <2>1, <2>2 DEF Stage, Program, Comparing
<1>2. ASSUME NEW size \in Size, Returned({IF size = L THEN "cmp" ELSE "cmpb"})
      PROVE  Ordered(fl, Cut(Was["eax"], size), Cut(Was["ebx"], size), size)
    <2>1. l = (IF size = L THEN "cmp" ELSE "cmpb") /\ Returned({l}) /\ l \in Comparing
        BY <1>2 DEF Returned, Comparing
    <2>2. CmpSize(l) = size
        BY <2>1 DEF CmpSize, Size, L
    <2> QED BY <1>1, <2>1, <2>2 DEF Compares
<1>3. ASSUME Returned({"max"})
      PROVE  /\ Signed(reg["eax"], L) >= Signed(Was["eax"], L)
             /\ Signed(reg["eax"], L) >= Signed(Was["ebx"], L)
             /\ reg["eax"] \in {Was["eax"], Was["ebx"]}
    BY <1>1, <1>3 DEF Returned, Comparing, Result
<1>4. ASSUME Returned({"lt"})
      PROVE  reg["ecx"] = Bit(Was["eax"] < Was["ebx"])
    BY <1>1, <1>4 DEF Returned, Comparing, Result
<1> QED BY <1>2, <1>3, <1>4 DEF Compared, Ordered, Size, L

\* cmp leaves the flags from which every condition tells the order of the
\* operands, signed and unsigned, and cmov and setcc choose by it, at both sizes.
THEOREM ComparedCorrect ==
    ASSUME Code = RoutineCode
    PROVE  RSpec => []Compared
<1>1. RInit => ComparingAt
    BY ComparingStarts
<1>2. ComparingAt /\ [CpuNext \/ Done]_cpuvars => ComparingAt'
    BY ComparingStep
<1>3. ComparingAt => Compared
    BY ComparingEnds
<1> QED BY <1>1, <1>2, <1>3, PTL DEF RSpec

-----------------------------------------------------------------------------
(* An interrupt is transparent: what do_irq.S pops is what raise_intr and   *)
(* pusha saved, and the frame does not reach the data below the stack.     *)

HandlerCode == <<<<"push", <<"imm", 0>>>>, <<"push", <<"imm", 1000>>>>, <<"pusha">>,
                 <<"push", <<"reg", "esp">>>>, <<"call", "irq_handle">>,
                 <<"add", <<"imm", 1>>, <<"reg", "esp">>, Addr>>, <<"popa">>,
                 <<"add", <<"imm", 2>>, <<"reg", "esp">>, Addr>>, <<"iret">>>>
LEMMA HandlerIsCode ==
    ASSUME Code = RoutineCode
    PROVE  /\ \A j \in 1 .. 9 : Code["irq0"][j] = HandlerCode[j]
           /\ Code["irq_handle"] = <<<<"C">>, <<"ret">>>>
           /\ Len(Code["irq0"]) = 9
<1>1. {"irq0", "irq_handle"} \cap DOMAIN Routine = {}
    BY DEF Routine
<1>2. /\ Code["irq0"] = KernelCode["irq0"]
      /\ Code["irq_handle"] = KernelCode["irq_handle"]
    BY <1>1 DEF RoutineCode, KernelCode
<1>3. KernelCode["irq_handle"] = <<<<"C">>, <<"ret">>>> /\ KernelCode["irq0"] = Entry(1000)
    BY DEF KernelCode
<1>4. /\ \A j \in 1 .. 9 : Entry(1000)[j] = HandlerCode[j]
      /\ Len(Entry(1000)) = 9
    BY DEF Entry, AsmDoIrq, HandlerCode, I, R
<1> QED BY <1>2, <1>3, <1>4

\* The cells of the frame, from the first that is pushed to the last.
Saved(back, rg, f) ==
    <<f, "cs", back, 0, 1000, rg["eax"], rg["ecx"], rg["edx"], rg["ebx"], Cells - 5, rg["ebp"],
      rg["esi"], rg["edi"], Cells - 13, <<"irq0", 6>>>>
StackFrame(place, depth, kept, sv) ==
    /\ eip = place /\ reg["esp"] = Cells - depth
    /\ \A d \in 1 .. kept : cells[Cells - d] = sv[d]
Same(rg) == \A r \in Registers \ {"esp"} : reg[r] = rg[r]
Handling(back, rg, f) ==
    LET sv == Saved(back, rg, f)
    IN /\ DOMAIN reg = Registers
       /\ \/ StackFrame(<<"irq0", 1>>, 3, 3, sv) /\ Same(rg)
          \/ StackFrame(<<"irq0", 2>>, 4, 4, sv) /\ Same(rg)
          \/ StackFrame(<<"irq0", 3>>, 5, 5, sv) /\ Same(rg)
          \/ StackFrame(<<"irq0", 4>>, 13, 13, sv)
          \/ StackFrame(<<"irq0", 5>>, 14, 14, sv)
          \/ StackFrame(<<"irq_handle", 1>>, 15, 15, sv)
          \/ StackFrame(<<"irq_handle", 2>>, 15, 15, sv)
          \/ StackFrame(<<"irq0", 6>>, 14, 13, sv)
          \/ StackFrame(<<"irq0", 7>>, 13, 13, sv)
          \/ StackFrame(<<"irq0", 8>>, 5, 3, sv) /\ Same(rg)
          \/ StackFrame(<<"irq0", 9>>, 3, 3, sv) /\ Same(rg)

\* The stack is deep enough for one frame.
Deep == Buffer + 15 <= Cells
Stacked == DOMAIN cells = 0 .. Cells - 1 /\ cells = [a \in 0 .. Cells - 1 |-> cells[a]]
DataSame == \A a \in 0 .. Buffer - 1 : cells'[a] = cells[a]

LEMMA SavedIsFrame ==
    ASSUME NEW back, NEW rg, NEW f
    PROVE  LET sv == Saved(back, rg, f)
           IN /\ sv[1] = f /\ sv[2] = "cs" /\ sv[3] = back /\ sv[4] = 0 /\ sv[5] = 1000
              /\ sv[6] = rg["eax"] /\ sv[7] = rg["ecx"] /\ sv[8] = rg["edx"] /\ sv[9] = rg["ebx"]
              /\ sv[10] = Cells - 5 /\ sv[11] = rg["ebp"] /\ sv[12] = rg["esi"]
              /\ sv[13] = rg["edi"] /\ sv[14] = Cells - 13 /\ sv[15] = <<"irq0", 6>>
BY DEF Saved

LEMMA PushedIsStack ==
    ASSUME Stacked, NEW vals, cells' = Pushed(vals)
    PROVE  Stacked' /\ DOMAIN cells = 0 .. Cells - 1
BY DEF Stacked, Pushed

LEMMA PushCell ==
    ASSUME Deep, Stacked, NEW n \in 3 .. 14, reg["esp"] = Cells - n, NEW v,
           cells' = Pushed(<<v>>)
    PROVE  /\ Stacked' /\ DataSame /\ cells'[Cells - (n + 1)] = v
           /\ \A d \in 1 .. n : cells'[Cells - d] = cells[Cells - d]
<1>1. Stacked' /\ DOMAIN cells = 0 .. Cells - 1
    BY PushedIsStack
<1>2. /\ DataSame /\ cells'[Cells - (n + 1)] = v
      /\ \A d \in 1 .. n : cells'[Cells - d] = cells[Cells - d]
    BY <1>1, CpuAssumption, RoutinesAssumption DEF Deep, DataSame, Pushed
<1> QED BY <1>1, <1>2

LEMMA PushFrame ==
    ASSUME Deep, Stacked, NEW n \in 3 .. 14, NEW sv, reg["esp"] = Cells - n,
           \A d \in 1 .. n : cells[Cells - d] = sv[d], cells' = Pushed(<<sv[n + 1]>>)
    PROVE  /\ Stacked' /\ DataSame
           /\ \A d \in 1 .. n + 1 : cells'[Cells - d] = sv[d]
<1>1. /\ Stacked' /\ DataSame /\ cells'[Cells - (n + 1)] = sv[n + 1]
      /\ \A d \in 1 .. n : cells'[Cells - d] = cells[Cells - d]
    BY PushCell
<1>2. \A d \in 1 .. n + 1 : d = n + 1 \/ d \in 1 .. n
    OBVIOUS
<1> QED BY <1>1, <1>2

\* do_intr enters the handler with the frame of the instruction it interrupts.
LEMMA IrqEnters ==
    ASSUME Deep, Stacked, DOMAIN reg = Registers, NEW back, NEW rg, NEW f,
           rg = reg, f = fl, rg["esp"] = Cells, RaiseIntr("irq0", back, "interrupt")
    PROVE  Handling(back, rg, f)' /\ Stacked' /\ DataSame
<1> DEFINE sv == Saved(back, rg, f)
<1>1. cells' = Pushed(<<f, "cs", back>>) /\ eip' = <<"irq0", 1>>
      /\ reg' = [reg EXCEPT !["esp"] = @ - 3]
    BY DEF RaiseIntr
<1>2. /\ Stacked' /\ DataSame
      /\ cells'[Cells - 1] = f /\ cells'[Cells - 2] = "cs" /\ cells'[Cells - 3] = back
    <2>1. Stacked' /\ DOMAIN cells = 0 .. Cells - 1
        BY <1>1, PushedIsStack
    <2>2. /\ DataSame
          /\ cells'[Cells - 1] = f /\ cells'[Cells - 2] = "cs" /\ cells'[Cells - 3] = back
        BY <1>1, <2>1, CpuAssumption, RoutinesAssumption DEF Deep, DataSame, Pushed
    <2> QED BY <2>1, <2>2
<1>3. \A d \in 1 .. 3 : cells'[Cells - d] = sv[d]
    <2>1. sv[1] = f /\ sv[2] = "cs" /\ sv[3] = back
        BY SavedIsFrame
    <2>2. \A d \in 1 .. 3 : d = 1 \/ d = 2 \/ d = 3
        OBVIOUS
    <2> HIDE DEF sv
    <2> QED BY <1>2, <2>1, <2>2
<1>4. "esp" \in Registers
    BY DEF Registers, AddrRegs
<1>5. DOMAIN reg' = Registers /\ reg'["esp"] = Cells - 3
      /\ \A r \in Registers \ {"esp"} : reg'[r] = rg[r]
    BY <1>1, <1>4
<1>6. StackFrame(<<"irq0", 1>>, 3, 3, sv)' /\ Same(rg)'
    BY <1>1, <1>3, <1>5 DEF StackFrame, Same
<1> QED BY <1>2, <1>5, <1>6 DEF Handling

\* The instructions of the handler, one by one.
LEMMA HandlerFetch ==
    ASSUME Code = RoutineCode, ExecInst, NEW j \in 1 .. 9, eip = <<"irq0", j>>
    PROVE  Integer(HandlerCode[j]) \/ X87(HandlerCode[j])
BY HandlerIsCode DEF ExecInst, Inst

LEMMA HandlerPushes ==
    ASSUME Deep, Stacked, DOMAIN reg = Registers, NEW n \in 3 .. 14, NEW m, m = n + 1, NEW sv,
           NEW i, NEW j \in Nat, NEW next, next = j + 1, StackFrame(<<"irq0", j>>, n, n, sv),
           PushInst(i), (IF i[2][1] = "imm" THEN i[2][2] ELSE reg[i[2][2]]) = sv[m]
    PROVE  /\ Stacked' /\ DataSame /\ DOMAIN reg' = Registers
           /\ StackFrame(<<"irq0", next>>, m, m, sv)'
           /\ \A r \in Registers \ {"esp"} : reg'[r] = reg[r]
<1>1. /\ cells' = Pushed(<<sv[n + 1]>>) /\ reg' = [reg EXCEPT !["esp"] = @ - 1]
      /\ eip' = <<"irq0", j + 1>>
    BY DEF PushInst, NextInst, Goto, StackFrame
<1>2. /\ reg["esp"] = Cells - n /\ \A d \in 1 .. n : cells[Cells - d] = sv[d]
    BY DEF StackFrame
<1>3. Stacked' /\ DataSame /\ \A d \in 1 .. n + 1 : cells'[Cells - d] = sv[d]
    BY <1>1, <1>2, PushFrame
<1>4. DOMAIN reg' = Registers /\ reg'["esp"] = Cells - (n + 1)
      /\ \A r \in Registers \ {"esp"} : reg'[r] = reg[r]
    BY <1>1, <1>2, CpuAssumption DEF Registers, AddrRegs
<1> QED BY <1>1, <1>3, <1>4 DEF StackFrame

\* add to esp: the address does not wrap.
LEMMA HandlerAdds ==
    ASSUME Deep, DOMAIN reg = Registers, NEW i, AddInst(i),
           NEW k, k = 1 \/ k = 2, reg["esp"] \in Cells - 15 .. Cells - 3,
           i[2][1] = "imm" /\ i[2][2] = k /\ i[3][1] = "reg" /\ i[3][2] = "esp" /\ i[4] = Addr
    PROVE  /\ cells' = cells /\ DOMAIN reg' = Registers /\ eip' = Goto(eip[2] + 1)
           /\ reg'["esp"] = reg["esp"] + k
           /\ \A r \in Registers \ {"esp"} : reg'[r] = reg[r]
<1> DEFINE N == 2^Addr
           x == reg["esp"]
<1>1. N \in Nat \ {0} /\ x \in 0 .. N - 1 /\ x + k \in 0 .. N - 1 /\ k \in 0 .. N - 1 /\ x \in Int
    BY CpuAssumption, RoutinesAssumption, PowerIsNumber DEF Deep
<1>2. /\ Cut(x, Addr) = x /\ Cut(k, Addr) = k
      /\ Cut(x + k, Addr) = x + k /\ Cut(k + x, Addr) = x + k
    <2> HIDE DEF N, x
    <2>1. k + x = x + k
        BY <1>1
    <2>2. x % N = x /\ k % N = k /\ (x + k) % N = x + k
        BY <1>1, SmallMod
    <2> QED BY <2>1, <2>2 DEF Cut, N
<1> HIDE DEF x
<1>3. reg["esp"] = x
    BY DEF x
<1>4. OprSrc(i) = k /\ OprDest(i) = x /\ OpSize(i) = Addr
    BY <1>2, <1>3 DEF OprSrc, OprDest, OpSize, Read
<1>5. AluAdd(fl, k, x, Addr).val = x + k
    BY <1>2 DEF AluAdd
<1>6. Write(i[3], x + k, Addr) /\ eip' = Goto(eip[2] + 1)
    BY <1>4, <1>5 DEF AddInst, TwoOp, NextInst
<1>7. cells' = cells /\ reg' = [reg EXCEPT !["esp"] = x - x + (x + k)]
    BY <1>2, <1>3, <1>6 DEF Write
<1>8. reg' = [reg EXCEPT !["esp"] = x + k]
    BY <1>1, <1>7
<1>9. DOMAIN reg' = Registers /\ reg'["esp"] = reg["esp"] + k
      /\ \A r \in Registers \ {"esp"} : reg'[r] = reg[r]
    BY <1>8 DEF Registers, AddrRegs, x
<1> QED BY <1>6, <1>7, <1>9

LEMMA HandlerSaves ==
    ASSUME Deep, Stacked, DOMAIN reg = Registers, NEW back, NEW rg, NEW f,
           StackFrame(<<"irq0", 3>>, 5, 5, Saved(back, rg, f)), Same(rg), PushaInst(<<"pusha">>)
    PROVE  /\ Stacked' /\ DataSame /\ DOMAIN reg' = Registers
           /\ StackFrame(<<"irq0", 4>>, 13, 13, Saved(back, rg, f))'
<1> DEFINE sv == Saved(back, rg, f)
           vals == [k \in 1 .. 8 |-> reg[<<"eax", "ecx", "edx", "ebx",
                                           "esp", "ebp", "esi", "edi">>[k]]]
<1>1. /\ cells' = Pushed(vals) /\ reg' = [reg EXCEPT !["esp"] = @ - 8] /\ eip' = <<"irq0", 4>>
    BY DEF PushaInst, NextInst, Goto, StackFrame
<1>2. reg["esp"] = Cells - 5 /\ \A d \in 1 .. 5 : cells[Cells - d] = sv[d]
    BY DEF StackFrame
<1>3. Len(vals) = 8
    OBVIOUS
<1>4. \A d \in 1 .. 8 : vals[d] = sv[5 + d]
    <2>1. /\ vals[1] = reg["eax"] /\ vals[2] = reg["ecx"] /\ vals[3] = reg["edx"]
          /\ vals[4] = reg["ebx"] /\ vals[5] = reg["esp"] /\ vals[6] = reg["ebp"]
          /\ vals[7] = reg["esi"] /\ vals[8] = reg["edi"]
        OBVIOUS
    <2>2. /\ reg["eax"] = rg["eax"] /\ reg["ecx"] = rg["ecx"] /\ reg["edx"] = rg["edx"]
          /\ reg["ebx"] = rg["ebx"] /\ reg["ebp"] = rg["ebp"] /\ reg["esi"] = rg["esi"]
          /\ reg["edi"] = rg["edi"]
        BY DEF Same, Registers, DataRegs, AddrRegs
    <2>3. /\ sv[6] = rg["eax"] /\ sv[7] = rg["ecx"] /\ sv[8] = rg["edx"] /\ sv[9] = rg["ebx"]
          /\ sv[10] = Cells - 5 /\ sv[11] = rg["ebp"] /\ sv[12] = rg["esi"]
          /\ sv[13] = rg["edi"]
        BY SavedIsFrame
    <2> HIDE DEF sv, vals
    <2>4. \A d \in 1 .. 8 : d \in {1, 2, 3, 4, 5, 6, 7, 8}
        OBVIOUS
    <2> QED BY <1>2, <2>1, <2>2, <2>3, <2>4
<1> HIDE DEF vals, sv
<1>5. /\ Stacked' /\ DataSame
      /\ \A d \in 1 .. 5 : cells'[Cells - d] = cells[Cells - d]
      /\ \A d \in 1 .. 8 : cells'[Cells - (5 + d)] = vals[d]
    <2>1. Stacked' /\ DOMAIN cells = 0 .. Cells - 1
        BY <1>1, PushedIsStack
    <2>2. /\ Cells \in Nat /\ Buffer \in Nat /\ Buffer + 15 <= Cells
          /\ reg["esp"] = Cells - 5 /\ reg["esp"] - Len(vals) = Cells - 13
        BY <1>2, <1>3, CpuAssumption, RoutinesAssumption DEF Deep
    <2>3. \A a \in 0 .. Cells - 1 :
              cells'[a] = IF a \in Cells - 13 .. Cells - 5 - 1 THEN vals[Cells - 5 - a]
                          ELSE cells[a]
        BY <1>1, <2>1, <2>2 DEF Pushed
    <2>4. DataSame
        BY <2>2, <2>3 DEF DataSame
    <2>5. ASSUME NEW d \in 1 .. 5 PROVE cells'[Cells - d] = cells[Cells - d]
        BY <2>2, <2>3
    <2>6. ASSUME NEW d \in 1 .. 8 PROVE cells'[Cells - (5 + d)] = vals[d]
        <3>1. /\ Cells - (5 + d) \in 0 .. Cells - 1 /\ Cells - 5 - (Cells - (5 + d)) = d
              /\ Cells - (5 + d) \in Cells - 13 .. Cells - 5 - 1
            BY <2>2
        <3> QED BY <2>3, <3>1
    <2> QED BY <2>1, <2>4, <2>5, <2>6
<1>6. \A d \in 1 .. 13 : cells'[Cells - d] = sv[d]
    <2> SUFFICES ASSUME NEW d \in 1 .. 13 PROVE cells'[Cells - d] = sv[d]
        OBVIOUS
    <2>1. CASE d \in 1 .. 5
        BY <1>2, <1>5, <2>1
    <2>2. CASE d \in 6 .. 13
        <3>1. d - 5 \in 1 .. 8 /\ 5 + (d - 5) = d
            BY <2>2
        <3> QED BY <1>4, <1>5, <3>1
    <2> QED BY <2>1, <2>2
<1>7. DOMAIN reg' = Registers /\ reg'["esp"] = Cells - 13
    BY <1>1, <1>2, CpuAssumption DEF Registers, AddrRegs
<1> QED BY <1>1, <1>5, <1>6, <1>7 DEF StackFrame, sv

LEMMA HandlerCalls ==
    ASSUME Deep, Stacked, DOMAIN reg = Registers, NEW sv, sv[15] = <<"irq0", 6>>,
           StackFrame(<<"irq0", 5>>, 14, 14, sv), CallInst(<<"call", "irq_handle">>)
    PROVE  /\ Stacked' /\ DataSame /\ DOMAIN reg' = Registers
           /\ StackFrame(<<"irq_handle", 1>>, 15, 15, sv)'
<1>1. /\ cells' = Pushed(<<sv[15]>>) /\ reg' = [reg EXCEPT !["esp"] = @ - 1]
      /\ eip' = <<"irq_handle", 1>>
    BY DEF CallInst, Goto, StackFrame
<1>2. reg["esp"] = Cells - 14 /\ \A d \in 1 .. 14 : cells[Cells - d] = sv[d]
    BY DEF StackFrame
<1>3. Stacked' /\ DataSame /\ \A d \in 1 .. 15 : cells'[Cells - d] = sv[d]
    <2> DEFINE n == 14
    <2>1. n \in 3 .. 14 /\ n + 1 = 15
        OBVIOUS
    <2> HIDE DEF n
    <2>2. reg["esp"] = Cells - n /\ (\A d \in 1 .. n : cells[Cells - d] = sv[d])
          /\ cells' = Pushed(<<sv[n + 1]>>)
        BY <1>1, <1>2, <2>1 DEF n
    <2>3. Stacked' /\ DataSame /\ \A d \in 1 .. n + 1 : cells'[Cells - d] = sv[d]
        BY <2>1, <2>2, PushFrame
    <2> QED BY <2>1, <2>3
<1>4. DOMAIN reg' = Registers /\ reg'["esp"] = Cells - 15
    BY <1>1, <1>2, CpuAssumption DEF Registers, AddrRegs
<1> QED BY <1>1, <1>3, <1>4 DEF StackFrame

\* The frame is not that of a system call: the C function leaves it alone.
LEMMA HandlerRuns ==
    ASSUME Deep, Stacked, DOMAIN reg = Registers, NEW back, NEW rg, NEW f,
           StackFrame(<<"irq_handle", 1>>, 15, 15, Saved(back, rg, f)), IrqHandle(<<"C">>)
    PROVE  /\ Stacked' /\ DataSame /\ DOMAIN reg' = Registers
           /\ StackFrame(<<"irq_handle", 2>>, 15, 15, Saved(back, rg, f))'
<1> DEFINE sv == Saved(back, rg, f)
<1>1. reg["esp"] = Cells - 15 /\ \A d \in 1 .. 15 : cells[Cells - d] = sv[d]
    BY DEF StackFrame
<1>2. cells[Cells - 14] = Cells - 13 /\ cells[Cells - 5] = 1000
    BY <1>1, SavedIsFrame
<1>3. Peek(1) = Cells - 13 /\ cells[Peek(1) + 8] = 1000
    <2>1. reg["esp"] + 1 = Cells - 14 /\ Cells - 13 + 8 = Cells - 5
        BY <1>1, CpuAssumption
    <2> QED BY <1>2, <2>1 DEF Peek
<1>4. cells' = cells
    BY <1>3 DEF IrqHandle, Syscall
<1>5. eip' = <<"irq_handle", 2>>
    BY DEF IrqHandle, NextInst, Goto, StackFrame
<1>6. DOMAIN reg' = Registers /\ reg'["esp"] = reg["esp"]
    BY DEF IrqHandle, Registers, AddrRegs
<1> HIDE DEF sv
<1> QED BY <1>1, <1>4, <1>5, <1>6 DEF StackFrame, Stacked, DataSame, sv

LEMMA HandlerReturns ==
    ASSUME Deep, DOMAIN reg = Registers, NEW sv, sv[15] = <<"irq0", 6>>,
           StackFrame(<<"irq_handle", 2>>, 15, 15, sv), RetInst(<<"ret">>)
    PROVE  /\ cells' = cells /\ DOMAIN reg' = Registers
           /\ StackFrame(<<"irq0", 6>>, 14, 13, sv)'
<1>1. reg["esp"] = Cells - 15 /\ \A d \in 1 .. 15 : cells[Cells - d] = sv[d]
    BY DEF StackFrame
<1>2. Peek(0) = <<"irq0", 6>>
    <2>1. reg["esp"] + 0 = Cells - 15 /\ cells[Cells - 15] = sv[15]
        BY <1>1, CpuAssumption
    <2> QED BY <2>1 DEF Peek
<1>3. eip' = <<"irq0", 6>> /\ cells' = cells /\ reg' = [reg EXCEPT !["esp"] = @ + 1]
    BY <1>2 DEF RetInst
<1>4. DOMAIN reg' = Registers /\ reg'["esp"] = Cells - 14
    BY <1>1, <1>3, CpuAssumption DEF Registers, AddrRegs
<1> QED BY <1>1, <1>3, <1>4 DEF StackFrame

LEMMA HandlerRestores ==
    ASSUME Deep, DOMAIN reg = Registers, NEW back, NEW rg, NEW f,
           StackFrame(<<"irq0", 7>>, 13, 13, Saved(back, rg, f)), PopaInst(<<"popa">>)
    PROVE  /\ cells' = cells /\ DOMAIN reg' = Registers
           /\ StackFrame(<<"irq0", 8>>, 5, 3, Saved(back, rg, f))' /\ Same(rg)'
<1> DEFINE sv == Saved(back, rg, f)
<1>1. reg["esp"] = Cells - 13 /\ \A d \in 1 .. 13 : cells[Cells - d] = sv[d]
    BY DEF StackFrame
<1>2. /\ sv[6] = rg["eax"] /\ sv[7] = rg["ecx"] /\ sv[8] = rg["edx"] /\ sv[9] = rg["ebx"]
      /\ sv[11] = rg["ebp"] /\ sv[12] = rg["esi"] /\ sv[13] = rg["edi"]
    BY SavedIsFrame
<1> HIDE DEF sv
<1>3. /\ Peek(0) = rg["edi"] /\ Peek(1) = rg["esi"] /\ Peek(2) = rg["ebp"]
      /\ Peek(4) = rg["ebx"] /\ Peek(5) = rg["edx"] /\ Peek(6) = rg["ecx"] /\ Peek(7) = rg["eax"]
    <2>1. /\ reg["esp"] + 0 = Cells - 13 /\ reg["esp"] + 1 = Cells - 12
          /\ reg["esp"] + 2 = Cells - 11 /\ reg["esp"] + 4 = Cells - 9
          /\ reg["esp"] + 5 = Cells - 8 /\ reg["esp"] + 6 = Cells - 7 /\ reg["esp"] + 7 = Cells - 6
        BY <1>1, CpuAssumption
    <2> QED BY <1>1, <1>2, <2>1 DEF Peek
<1>4. /\ cells' = cells /\ eip' = <<"irq0", 8>>
      /\ reg' = [reg EXCEPT !["edi"] = Peek(0), !["esi"] = Peek(1), !["ebp"] = Peek(2),
                            !["ebx"] = Peek(4), !["edx"] = Peek(5), !["ecx"] = Peek(6),
                            !["eax"] = Peek(7), !["esp"] = @ + 8]
    BY DEF PopaInst, NextInst, Goto, StackFrame
<1>5. DOMAIN reg' = Registers /\ reg'["esp"] = Cells - 5
    BY <1>1, <1>4, CpuAssumption DEF Registers, DataRegs, AddrRegs
<1>6. Same(rg)'
    <2>1. /\ reg'["edi"] = Peek(0) /\ reg'["esi"] = Peek(1) /\ reg'["ebp"] = Peek(2)
          /\ reg'["ebx"] = Peek(4) /\ reg'["edx"] = Peek(5) /\ reg'["ecx"] = Peek(6)
          /\ reg'["eax"] = Peek(7)
        BY <1>4 DEF Registers, DataRegs, AddrRegs
    <2> QED BY <1>3, <2>1 DEF Same, Registers, DataRegs, AddrRegs
<1> QED BY <1>1, <1>4, <1>5, <1>6 DEF StackFrame, sv


Whole(rg) == rg = [r \in Registers |-> rg[r]]
LEMMA HandlerEnds ==
    ASSUME Deep, DOMAIN reg = Registers, NEW back, NEW rg, NEW f, Whole(rg), rg["esp"] = Cells,
           StackFrame(<<"irq0", 9>>, 3, 3, Saved(back, rg, f)), Same(rg), IretInst(<<"iret">>)
    PROVE  cells' = cells /\ eip' = back /\ reg' = rg /\ fl' = f
<1>1. /\ reg["esp"] = Cells - 3 /\ cells[Cells - 1] = f /\ cells[Cells - 3] = back
    BY SavedIsFrame DEF StackFrame
<1>2. Peek(0) = back /\ Peek(2) = f
    <2>1. reg["esp"] + 0 = Cells - 3 /\ reg["esp"] + 2 = Cells - 1
        BY <1>1, CpuAssumption
    <2> QED BY <1>1, <2>1 DEF Peek
<1>3. cells' = cells /\ eip' = back /\ fl' = f /\ reg' = [reg EXCEPT !["esp"] = @ + 3]
    BY <1>2 DEF IretInst
<1>4. reg' = [r \in Registers |-> rg[r]]
    <2>1. reg["esp"] + 3 = Cells
        BY <1>1, CpuAssumption
    <2>2. reg' = [r \in Registers |-> IF r = "esp" THEN Cells ELSE reg[r]]
        BY <1>3, <2>1
    <2> QED BY <2>2 DEF Same
<1> QED BY <1>3, <1>4 DEF Whole

\* Every step of the handler is one of these, and the last one is back.
LEMMA HandlerStep ==
    ASSUME Deep, Stacked, Code = RoutineCode, NEW back, NEW rg, NEW f, Whole(rg),
           rg["esp"] = Cells, Handling(back, rg, f), ExecInst
    PROVE  /\ Stacked' /\ DataSame
           /\ \/ Handling(back, rg, f)'
              \/ eip' = back /\ reg' = rg /\ fl' = f
<1> DEFINE sv == Saved(back, rg, f)
<1>1. DOMAIN reg = Registers /\ (cells' = cells => Stacked' /\ DataSame)
    BY DEF Handling, Stacked, DataSame
<1>2. sv[4] = 0 /\ sv[5] = 1000 /\ sv[14] = Cells - 13 /\ sv[15] = <<"irq0", 6>>
    BY SavedIsFrame
<1>3. ASSUME NEW j \in 1 .. 9, eip = <<"irq0", j>>
      PROVE  Integer(HandlerCode[j]) \/ X87(HandlerCode[j])
    BY <1>3, HandlerFetch
<1> HIDE DEF sv
<1>4. CASE StackFrame(<<"irq0", 1>>, 3, 3, sv) /\ Same(rg)
    <2>1. eip = <<"irq0", 1>>
        BY <1>4 DEF StackFrame
    <2>2. PushInst(<<"push", <<"imm", 0>>>>)
        BY <1>3, <2>1, Dispatch DEF HandlerCode
    <2>3. 0 = sv[4]
        BY <1>2
    <2>4. /\ Stacked' /\ DataSame /\ DOMAIN reg' = Registers
          /\ StackFrame(<<"irq0", 2>>, 4, 4, sv)'
          /\ \A r \in Registers \ {"esp"} : reg'[r] = reg[r]
        BY <1>1, <1>4, <2>2, <2>3, HandlerPushes
    <2> QED BY <1>4, <2>4 DEF Handling, Same, sv
<1>5. CASE StackFrame(<<"irq0", 2>>, 4, 4, sv) /\ Same(rg)
    <2>1. eip = <<"irq0", 2>>
        BY <1>5 DEF StackFrame
    <2>2. PushInst(<<"push", <<"imm", 1000>>>>)
        BY <1>3, <2>1, Dispatch DEF HandlerCode
    <2>3. 1000 = sv[5]
        BY <1>2
    <2>4. /\ Stacked' /\ DataSame /\ DOMAIN reg' = Registers
          /\ StackFrame(<<"irq0", 3>>, 5, 5, sv)'
          /\ \A r \in Registers \ {"esp"} : reg'[r] = reg[r]
        BY <1>1, <1>5, <2>2, <2>3, HandlerPushes
    <2> QED BY <1>5, <2>4 DEF Handling, Same, sv
<1>6. CASE StackFrame(<<"irq0", 3>>, 5, 5, sv) /\ Same(rg)
    <2>1. eip = <<"irq0", 3>>
        BY <1>6 DEF StackFrame
    <2>2. PushaInst(<<"pusha">>)
        BY <1>3, <2>1, Dispatch DEF HandlerCode
    <2>3. Stacked' /\ DataSame /\ DOMAIN reg' = Registers /\ StackFrame(<<"irq0", 4>>, 13, 13, sv)'
        BY <1>1, <1>6, <2>2, HandlerSaves DEF sv
    <2> QED BY <2>3 DEF Handling, sv
<1>7. CASE StackFrame(<<"irq0", 4>>, 13, 13, sv)
    <2>1. eip = <<"irq0", 4>>
        BY <1>7 DEF StackFrame
    <2>2. PushInst(<<"push", <<"reg", "esp">>>>)
        BY <1>3, <2>1, Dispatch DEF HandlerCode
    <2>3. reg["esp"] = sv[14]
        BY <1>2, <1>7 DEF StackFrame
    <2>4. /\ Stacked' /\ DataSame /\ DOMAIN reg' = Registers
          /\ StackFrame(<<"irq0", 5>>, 14, 14, sv)'
          /\ \A r \in Registers \ {"esp"} : reg'[r] = reg[r]
        BY <1>1, <1>7, <2>2, <2>3, HandlerPushes
    <2> QED BY <1>7, <2>4 DEF Handling, Same, sv
<1>8. CASE StackFrame(<<"irq0", 5>>, 14, 14, sv)
    <2>1. eip = <<"irq0", 5>>
        BY <1>8 DEF StackFrame
    <2>2. CallInst(<<"call", "irq_handle">>)
        BY <1>3, <2>1, Dispatch DEF HandlerCode
    <2>3. Stacked' /\ DataSame /\ DOMAIN reg' = Registers
          /\ StackFrame(<<"irq_handle", 1>>, 15, 15, sv)'
        BY <1>1, <1>2, <1>8, <2>2, HandlerCalls
    <2> QED BY <2>3 DEF Handling, sv
<1>9. CASE StackFrame(<<"irq_handle", 1>>, 15, 15, sv)
    <2>1. eip = <<"irq_handle", 1>>
        BY <1>9 DEF StackFrame
    <2>2. Integer(<<"C">>) \/ X87(<<"C">>)
        BY <2>1, HandlerIsCode DEF ExecInst, Inst
    <2>3. IrqHandle(<<"C">>)
        BY <2>2, Dispatch
    <2>4. Stacked' /\ DataSame /\ DOMAIN reg' = Registers
          /\ StackFrame(<<"irq_handle", 2>>, 15, 15, sv)'
        BY <1>1, <1>9, <2>3, HandlerRuns DEF sv
    <2> QED BY <2>4 DEF Handling, sv
<1>10. CASE StackFrame(<<"irq_handle", 2>>, 15, 15, sv)
    <2>1. eip = <<"irq_handle", 2>>
        BY <1>10 DEF StackFrame
    <2>2. Integer(<<"ret">>) \/ X87(<<"ret">>)
        BY <2>1, HandlerIsCode DEF ExecInst, Inst
    <2>3. RetInst(<<"ret">>)
        BY <2>2, Dispatch
    <2>4. cells' = cells /\ DOMAIN reg' = Registers /\ StackFrame(<<"irq0", 6>>, 14, 13, sv)'
        BY <1>1, <1>2, <1>10, <2>3, HandlerReturns
    <2> QED BY <1>1, <2>4 DEF Handling, sv
<1>11. CASE StackFrame(<<"irq0", 6>>, 14, 13, sv)
    <2>1. eip = <<"irq0", 6>>
        BY <1>11 DEF StackFrame
    <2> DEFINE i == <<"add", <<"imm", 1>>, <<"reg", "esp">>, Addr>>
    <2>2. /\ AddInst(i) /\ i[4] = Addr
          /\ i[2][1] = "imm" /\ i[2][2] = 1 /\ i[3][1] = "reg" /\ i[3][2] = "esp"
        BY <1>3, <2>1, Dispatch DEF HandlerCode
    <2> HIDE DEF i
    <2>3. /\ cells' = cells /\ DOMAIN reg' = Registers /\ eip' = Goto(eip[2] + 1)
          /\ reg'["esp"] = reg["esp"] + 1
          /\ \A r \in Registers \ {"esp"} : reg'[r] = reg[r]
        <3>1. reg["esp"] \in Cells - 15 .. Cells - 3
            BY <1>11, CpuAssumption DEF StackFrame
        <3> QED BY <1>1, <2>2, <3>1, HandlerAdds
    <2>4. StackFrame(<<"irq0", 7>>, 13, 13, sv)'
        BY <1>11, <2>3, CpuAssumption DEF StackFrame, Goto
    <2> QED BY <1>1, <1>11, <2>3, <2>4 DEF Handling, Same, sv
<1>12. CASE StackFrame(<<"irq0", 7>>, 13, 13, sv)
    <2>1. eip = <<"irq0", 7>>
        BY <1>12 DEF StackFrame
    <2>2. PopaInst(<<"popa">>)
        BY <1>3, <2>1, Dispatch DEF HandlerCode
    <2>3. /\ cells' = cells /\ DOMAIN reg' = Registers
          /\ StackFrame(<<"irq0", 8>>, 5, 3, sv)' /\ Same(rg)'
        BY <1>1, <1>12, <2>2, HandlerRestores DEF sv
    <2> QED BY <1>1, <2>3 DEF Handling, sv
<1>13. CASE StackFrame(<<"irq0", 8>>, 5, 3, sv) /\ Same(rg)
    <2>1. eip = <<"irq0", 8>>
        BY <1>13 DEF StackFrame
    <2> DEFINE i == <<"add", <<"imm", 2>>, <<"reg", "esp">>, Addr>>
    <2>2. /\ AddInst(i) /\ i[4] = Addr
          /\ i[2][1] = "imm" /\ i[2][2] = 2 /\ i[3][1] = "reg" /\ i[3][2] = "esp"
        BY <1>3, <2>1, Dispatch DEF HandlerCode
    <2> HIDE DEF i
    <2>3. /\ cells' = cells /\ DOMAIN reg' = Registers /\ eip' = Goto(eip[2] + 1)
          /\ reg'["esp"] = reg["esp"] + 2
          /\ \A r \in Registers \ {"esp"} : reg'[r] = reg[r]
        <3>1. reg["esp"] \in Cells - 15 .. Cells - 3
            BY <1>13, CpuAssumption DEF StackFrame
        <3> QED BY <1>1, <2>2, <3>1, HandlerAdds
    <2>4. StackFrame(<<"irq0", 9>>, 3, 3, sv)'
        BY <1>13, <2>3, CpuAssumption DEF StackFrame, Goto
    <2> QED BY <1>1, <1>13, <2>3, <2>4 DEF Handling, Same, sv
<1>14. CASE StackFrame(<<"irq0", 9>>, 3, 3, sv) /\ Same(rg)
    <2>1. eip = <<"irq0", 9>>
        BY <1>14 DEF StackFrame
    <2>2. IretInst(<<"iret">>)
        BY <1>3, <2>1, Dispatch DEF HandlerCode
    <2>3. cells' = cells /\ eip' = back /\ reg' = rg /\ fl' = f
        BY <1>1, <1>14, <2>2, HandlerEnds DEF sv
    <2> QED BY <1>1, <2>3
<1> QED BY <1>4, <1>5, <1>6, <1>7, <1>8, <1>9, <1>10, <1>11, <1>12, <1>13, <1>14
        DEF Handling, sv

-----------------------------------------------------------------------------
(* rep: round by round.                                                    *)

Cell == 0 .. Cells - 1
Turn(c, k, esi, edi, eax, name) ==
    [c EXCEPT ![edi + k - 1] = IF name = "movs" THEN c[esi + k - 1] ELSE eax]
RoundsOf(f, c, esi, edi, eax, name, n) ==
    f = [k \in 0 .. n |-> IF k = 0 THEN c ELSE Turn(f[k - 1], k, esi, edi, eax, name)]

LEMMA RoundsExist ==
    ASSUME NEW V, NEW c0 \in [Cell -> V], NEW eax \in V, NEW esi \in Nat, NEW edi \in Nat,
           NEW n \in Nat, NEW name, esi + n <= Cells, edi + n <= Cells
    PROVE  \E f : RoundsOf(f, c0, esi, edi, eax, name, n)
<1> DEFINE S == [Cell -> V]
           T(c, k) == Turn(c, k, esi, edi, eax, name)
           G == [k \in 1 .. n |-> [c \in S |-> T(c, k)]]
<1>1. c0 \in S
    OBVIOUS
<1>2. G \in [1 .. n -> [S -> S]]
    <2> SUFFICES ASSUME NEW k \in 1 .. n, NEW c \in S PROVE T(c, k) \in S
        OBVIOUS
    <2>1. esi + k - 1 \in Cell
        BY CpuAssumption DEF Cell
    <2>2. c[esi + k - 1] \in V
        BY <2>1
    <2> QED BY <2>2 DEF Turn
<1>3. PICK f \in [0 .. n -> S] : f[0] = c0 /\ \A k \in 1 .. n : f[k] = G[k][f[k - 1]]
    <2> DEFINE N == n
    <2>1. N \in Nat /\ G \in [1 .. N -> [S -> S]]
        BY <1>2
    <2> HIDE DEF S, G, N
    <2>2. \E f \in [0 .. N -> S] : f[0] = c0 /\ \A k \in 1 .. N : f[k] = G[k][f[k - 1]]
        BY <1>1, <2>1, Recursion, SMTT(30)
    <2> QED BY <2>2 DEF N
<1>4. \A k \in 1 .. n : f[k] = T(f[k - 1], k)
    <2> SUFFICES ASSUME NEW k \in 1 .. n PROVE f[k] = T(f[k - 1], k)
        OBVIOUS
    <2>1. k - 1 \in 0 .. n
        OBVIOUS
    <2>2. f[k - 1] \in S
        BY <2>1
    <2> HIDE DEF S, T
    <2>3. G[k][f[k - 1]] = T(f[k - 1], k)
        BY <2>2
    <2> QED BY <1>3, <2>3
<1>5. RoundsOf(f, c0, esi, edi, eax, name, n)
    <2>1. \A k \in 0 .. n : k = 0 \/ k \in 1 .. n
        OBVIOUS
    <2>2. f = [k \in 0 .. n |-> f[k]]
        BY <1>3
    <2>3. \A k \in 0 .. n : f[k] = IF k = 0 THEN c0 ELSE T(f[k - 1], k)
        BY <1>3, <1>4, <2>1
    <2> QED BY <2>2, <2>3 DEF RoundsOf
<1> QED BY <1>5

LEMMA RoundsAre ==
    ASSUME Stacked, reg["esi"] \in Nat, reg["edi"] \in Nat, NEW n \in Nat, NEW name,
           reg["esi"] + n <= Cells, reg["edi"] + n <= Cells
    PROVE  \E f : /\ Rounds(name, n) = f[n] /\ f[0] = cells
                  /\ \A k \in 1 .. n :
                        f[k] = Turn(f[k - 1], k, reg["esi"], reg["edi"], reg["eax"], name)
<1> DEFINE P(g) == RoundsOf(g, cells, reg["esi"], reg["edi"], reg["eax"], name, n)
           h == CHOOSE g : P(g)
<1>1. \E g : P(g)
    <2> DEFINE V == {cells[a] : a \in Cell} \cup {reg["eax"]}
    <2>1. cells \in [Cell -> V] /\ reg["eax"] \in V
        BY DEF Stacked, Cell
    <2> HIDE DEF V
    <2> QED BY <2>1, RoundsExist
<1>2. P(h)
    <2> HIDE DEF P
    <2> QED BY <1>1
<1>3. Rounds(name, n) = h[n]
    BY DEF Rounds, RoundsOf, Turn
<1> HIDE DEF h
<1>4. h[0] = cells /\ \A k \in 1 .. n :
          h[k] = Turn(h[k - 1], k, reg["esi"], reg["edi"], reg["eax"], name)
    BY <1>2 DEF RoundsOf
<1> QED BY <1>3, <1>4

LEMMA RoundsFacts ==
    ASSUME Stacked, reg["esi"] \in Nat, reg["edi"] \in Nat, NEW n \in Nat,
           NEW name \in {"movs", "stos"}, reg["esi"] + n <= Cells, reg["edi"] + n <= Cells
    PROVE  LET c == Rounds(name, n)
               to == reg["edi"] .. reg["edi"] + n - 1
           IN /\ DOMAIN c = Cell /\ c = [a \in Cell |-> c[a]]
              /\ \A a \in Cell \ to : c[a] = cells[a]
              /\ name = "stos" => \A a \in to : c[a] = reg["eax"]
              /\ name = "movs" /\ reg["edi"] \notin reg["esi"] + 1 .. reg["esi"] + n - 1
                    => \A a \in to : c[a] = cells[a - reg["edi"] + reg["esi"]]
<1> DEFINE to(k) == reg["edi"] .. reg["edi"] + k - 1
           apart == reg["edi"] \notin reg["esi"] + 1 .. reg["esi"] + n - 1
           Good(c, k) ==
              /\ DOMAIN c = Cell /\ c = [a \in Cell |-> c[a]]
              /\ \A a \in Cell \ to(k) : c[a] = cells[a]
              /\ name = "stos" => \A a \in to(k) : c[a] = reg["eax"]
              /\ name = "movs" /\ apart
                    => \A a \in to(k) : c[a] = cells[a - reg["edi"] + reg["esi"]]
<1>1. PICK f :
          /\ Rounds(name, n) = f[n] /\ f[0] = cells
          /\ \A k \in 1 .. n :
                f[k] = Turn(f[k - 1], k, reg["esi"], reg["edi"], reg["eax"], name)
    BY RoundsAre
<1>2. f[0] = cells
    BY <1>1
<1>3. ASSUME NEW k \in 1 .. n
      PROVE  f[k] = [f[k - 1] EXCEPT ![reg["edi"] + k - 1] =
                        IF name = "movs" THEN f[k - 1][reg["esi"] + k - 1] ELSE reg["eax"]]
    BY <1>1 DEF Turn
<1>4. Good(f[0], 0)
    <2>1. to(0) = {}
        OBVIOUS
    <2> QED BY <1>2, <2>1 DEF Stacked, Cell
<1>5. ASSUME NEW k \in 1 .. n, Good(f[k - 1], k - 1) PROVE Good(f[k], k)
    <2> DEFINE b == f[k - 1]
               x == reg["edi"] + k - 1
               y == reg["esi"] + k - 1
    <2>1. x \in Cell /\ y \in Cell
        BY CpuAssumption DEF Cell
    <2>2. \A a \in Cell : (a \in to(k) <=> a \in to(k - 1) \/ a = x)
          /\ (a = x => a \notin to(k - 1))
        BY DEF Cell
    <2>3. f[k] = [b EXCEPT ![x] = IF name = "movs" THEN b[y] ELSE reg["eax"]]
        BY <1>3
    <2>4. to(k) \subseteq Cell
        BY CpuAssumption DEF Cell
    <2>5. apart => y \notin to(k - 1)
        OBVIOUS
    <2>6. x - reg["edi"] + reg["esi"] = y
        OBVIOUS
    <2>7. \A a \in to(k) : a \in Cell /\ (a \in to(k - 1) \/ a = x)
        BY <2>2, <2>4
    <2> HIDE DEF to, apart, b, x, y
    <2>8. /\ DOMAIN f[k] = Cell /\ f[k] = [a \in Cell |-> f[k][a]]
          /\ f[k][x] = (IF name = "movs" THEN b[y] ELSE reg["eax"])
          /\ \A a \in Cell : a # x => f[k][a] = b[a]
        BY <1>5, <2>1, <2>3 DEF b
    <2>9. \A a \in Cell \ to(k) : f[k][a] = cells[a]
        BY <1>5, <2>2, <2>8 DEF b
    <2>10. ASSUME name = "stos" PROVE \A a \in to(k) : f[k][a] = reg["eax"]
        BY <1>5, <2>2, <2>7, <2>8, <2>10 DEF b
    <2>11. ASSUME name = "movs", apart
           PROVE  \A a \in to(k) : f[k][a] = cells[a - reg["edi"] + reg["esi"]]
        <3>1. b[y] = cells[y]
            BY <1>5, <2>1, <2>5, <2>11 DEF b
        <3> QED BY <1>5, <2>2, <2>6, <2>7, <2>8, <2>11, <3>1 DEF b
    <2> QED BY <2>8, <2>9, <2>10, <2>11
<1> DEFINE Bad == {k \in 0 .. n : ~Good(f[k], k)}
<1>6. Bad = {}
    <2> SUFFICES ASSUME Bad # {} PROVE FALSE
        OBVIOUS
    <2> DEFINE k == Min(Bad)
    <2>1. k \in Bad /\ \A j \in Bad : k <= j
        <3>1. Bad \subseteq Nat
            OBVIOUS
        <3> HIDE DEF Bad
        <3> QED BY <3>1, MinIsElement
    <2>2. k \in 0 .. n /\ ~Good(f[k], k)
        BY <2>1
    <2> HIDE DEF k, Good
    <2>3. k \in 1 .. n /\ k - 1 \in 0 .. n /\ ~(k <= k - 1)
        BY <1>4, <2>2
    <2>4. Good(f[k - 1], k - 1)
        BY <2>1, <2>3
    <2> QED BY <1>5, <2>2, <2>3, <2>4
<1>7. Good(f[n], n)
    <2> HIDE DEF Good
    <2> QED BY <1>6
<1> QED BY <1>1, <1>7

-----------------------------------------------------------------------------
(* A routine and the interrupts within it.                                 *)

\* The routine is at back with registers rg and flags f, or the handler that
\* will return there.
Within(back, rg, f) ==
    \/ eip = back /\ reg = rg /\ fl = f
    \/ irqs = 0 /\ Handling(back, rg, f)

LEMMA WithinSame ==
    ASSUME NEW back, NEW rg, NEW f, Within(back, rg, f), UNCHANGED <<eip, reg, fl, cells, irqs>>
    PROVE  Within(back, rg, f)'
BY DEF Within, Handling, StackFrame, Same

LEMMA NextRuns == CpuNext => Running
BY DEF CpuNext, ExecInst, DoIntr

LEMMA InterruptsTransparent ==
    ASSUME Deep, Stacked, Code = RoutineCode, CpuNext, irqs \in {0, 1},
           NEW back, NEW rg, NEW f, Whole(rg), rg["esp"] = Cells, Within(back, rg, f)
    PROVE  /\ given' = given /\ irqs' \in {0, 1}
           /\ \/ Stacked' /\ DataSame /\ Within(back, rg, f)'
              \/ eip = back /\ reg = rg /\ fl = f /\ ExecInst /\ irqs' = irqs
<1>1. CASE ExecInst
    <2>1. given' = given /\ irqs' = irqs
        BY <1>1 DEF ExecInst
    <2>2. CASE eip = back /\ reg = rg /\ fl = f
        BY <1>1, <2>1, <2>2
    <2>3. CASE irqs = 0 /\ Handling(back, rg, f)
        <3>1. /\ Stacked' /\ DataSame
              /\ \/ Handling(back, rg, f)'
                 \/ eip' = back /\ reg' = rg /\ fl' = f
            BY <1>1, <2>3, HandlerStep
        <3> QED BY <2>1, <2>3, <3>1 DEF Within
    <2> QED BY <2>2, <2>3 DEF Within
<1>2. CASE DoIntr
    <2>1. irqs = 1 /\ irqs' = 0 /\ given' = given /\ RaiseIntr("irq0", eip, "interrupt")
        BY <1>2 DEF DoIntr
    <2>2. eip = back /\ reg = rg /\ fl = f
        BY <2>1 DEF Within
    <2>3. DOMAIN reg = Registers
        BY <2>2 DEF Whole
    <2>4. RaiseIntr("irq0", back, "interrupt")
        BY <2>1, <2>2
    <2>5. Handling(back, rg, f)' /\ Stacked' /\ DataSame
        BY <2>2, <2>3, <2>4, IrqEnters
    <2> QED BY <2>1, <2>5 DEF Within
<1> QED BY <1>1, <1>2 DEF CpuNext

-----------------------------------------------------------------------------
(* The blocks that rep moves.                                              *)

BlockIsMoved(l, rg, c) ==
    LET n == Was["ecx"]
        to == Was["edi"] .. Was["edi"] + n - 1
        src(a) == a - Was["edi"] + Was["esi"]
    IN /\ rg["edi"] = Was["edi"] + n /\ rg["ecx"] = 0
       /\ \A a \in 0 .. Buffer - 1 :
              /\ a \notin to => c[a] = Stored(a)
              /\ a \in to /\ l = "fill" => c[a] = Was["eax"]
              /\ a \in to /\ l = "copy" =>
                     Was["edi"] \in Was["esi"] + 1 .. Was["esi"] + n - 1 \/ c[a] = Stored(src(a))
MovesAt ==
    given.label \in {"copy", "fill"} =>
        /\ Stacked /\ irqs \in {0, 1}
        /\ Was["esi"] \in 0 .. Buffer - Block /\ Was["edi"] \in 0 .. Buffer - Block
        /\ Was["ecx"] \in 0 .. Block /\ Was["esp"] = Cells /\ Whole(Was)
        /\ \/ /\ \E f : Within(<<given.label, 1>>, Was, f)
              /\ \A a \in 0 .. Buffer - 1 : cells[a] = Stored(a)
           \/ eip = <<given.label, 2>> /\ BlockIsMoved(given.label, reg, cells)

MoveCode(l) == <<<<"rep", IF l = "copy" THEN "movs" ELSE "stos">>>>
LEMMA MovingCode ==
    ASSUME NEW l \in {"copy", "fill"}, Code = RoutineCode
    PROVE  Code[l] = MoveCode(l)
<1>1. l \in DOMAIN Routine
    BY DEF Routine
<1>2. Code[l] = Routine[l]
    BY <1>1 DEF RoutineCode
<1>3. Routine[l] = MoveCode(l)
    <2>1. CASE l = "copy"
        BY <2>1 DEF Routine, MoveCode
    <2>2. CASE l = "fill"
        BY <2>2 DEF Routine, MoveCode
    <2> QED BY <2>1, <2>2
<1> QED BY <1>2, <1>3

LEMMA MovesStart == RInit => MovesAt
<1> SUFFICES ASSUME RInit, given.label \in {"copy", "fill"}
             PROVE  /\ Stacked /\ irqs \in {0, 1}
                    /\ Was["esi"] \in 0 .. Buffer - Block /\ Was["edi"] \in 0 .. Buffer - Block
                    /\ Was["ecx"] \in 0 .. Block /\ Was["esp"] = Cells /\ Whole(Was)
                    /\ \E f : Within(<<given.label, 1>>, Was, f)
                    /\ \A a \in 0 .. Buffer - 1 : cells[a] = Stored(a)
    BY DEF MovesAt
<1>1. PICK l \in Labels :
          /\ \E d \in Operands[l], s \in Pointers(l) : reg = Start(d, s)
          /\ eip = <<l, 1>> /\ irqs = Irqs[l] /\ fl = Flags0
          /\ cells = [a \in 0 .. Cells - 1 |-> Stored(a)]
          /\ given.label = l /\ given.reg = reg
    BY DEF RInit
<1>2. Operands[l] = In({5}, 0 .. Block, {0}, {0})
    BY <1>1 DEF Operands, Z
<1>3. Irqs[l] \in {0, 1}
    BY <1>1 DEF Irqs
<1>4. Pointers(l) = [esi : 0 .. Buffer - Block, edi : 0 .. Buffer - Block]
    BY <1>1 DEF Pointers
<1>5. PICK d \in In({5}, 0 .. Block, {0}, {0}),
           s \in [esi : 0 .. Buffer - Block, edi : 0 .. Buffer - Block] :
          reg = Start(d, s)
    BY <1>1, <1>2, <1>4
<1>6. /\ reg["esi"] = s.esi /\ reg["edi"] = s.edi /\ reg["ecx"] = d.ecx /\ reg["esp"] = Cells
    BY <1>5 DEF Start, DataRegs, AddrRegs
<1>7. Whole(reg)
    BY <1>5 DEF Start, Whole, Registers
<1>8. s.esi \in 0 .. Buffer - Block /\ s.edi \in 0 .. Buffer - Block /\ d.ecx \in 0 .. Block
    BY <1>5 DEF In
<1>9. Stacked
    BY <1>1 DEF Stacked
<1>10. \A a \in 0 .. Buffer - 1 : cells[a] = Stored(a)
    BY <1>1, RoutinesAssumption, CpuAssumption
<1>11. Within(<<given.label, 1>>, Was, fl)
    BY <1>1 DEF Within, Was
<1> QED BY <1>1, <1>3, <1>6, <1>7, <1>8, <1>9, <1>10, <1>11 DEF Was

LEMMA MovesStep ==
    ASSUME MovesAt, [CpuNext \/ Done]_cpuvars, Deep, Code = RoutineCode
    PROVE  MovesAt'
<1> DEFINE l == given.label
<1>1. CASE UNCHANGED cpuvars
    <2>1. UNCHANGED <<eip, reg, fl, cells, irqs, given>>
        BY <1>1 DEF cpuvars, cpu
    <2> SUFFICES ASSUME l \in {"copy", "fill"}
                 PROVE  /\ Stacked' /\ irqs' \in {0, 1}
                        /\ Was["esi"] \in 0 .. Buffer - Block /\ Was["edi"] \in 0 .. Buffer - Block
                        /\ Was["ecx"] \in 0 .. Block /\ Was["esp"] = Cells /\ Whole(Was)
                        /\ \/ /\ \E f : Within(<<l, 1>>, Was, f)'
                              /\ \A a \in 0 .. Buffer - 1 : cells'[a] = Stored(a)
                           \/ eip' = <<l, 2>> /\ BlockIsMoved(l, reg, cells)'
        BY <2>1 DEF MovesAt, Was
    <2>2. Stacked'
        BY <2>1 DEF MovesAt, Stacked
    <2>3. CASE eip = <<l, 2>> /\ BlockIsMoved(l, reg, cells)
        <3>1. eip' = <<l, 2>> /\ BlockIsMoved(l, reg, cells)'
            BY <2>1, <2>3 DEF BlockIsMoved, Was
        <3> QED BY <2>1, <2>2, <3>1 DEF MovesAt
    <2>4. ASSUME NEW f, Within(<<l, 1>>, Was, f), \A a \in 0 .. Buffer - 1 : cells[a] = Stored(a)
          PROVE  Within(<<l, 1>>, Was, f)' /\ \A a \in 0 .. Buffer - 1 : cells'[a] = Stored(a)
        <3>1. PICK b, w : b = <<l, 1>> /\ w = Was
            OBVIOUS
        <3>2. Within(b, w, f)'
            BY <2>1, <2>4, <3>1, WithinSame
        <3>3. <<l, 1>>' = b /\ Was' = w
            BY <2>1, <3>1 DEF Was
        <3> QED BY <2>1, <2>4, <3>2, <3>3
    <2> QED BY <2>1, <2>2, <2>3, <2>4 DEF MovesAt
<1>2. CASE Done
    BY <1>1, <1>2 DEF Done
<1>3. ASSUME CpuNext, l \in {"copy", "fill"} PROVE MovesAt'
    <2>1. /\ Stacked /\ irqs \in {0, 1}
          /\ Was["esi"] \in 0 .. Buffer - Block /\ Was["edi"] \in 0 .. Buffer - Block
          /\ Was["ecx"] \in 0 .. Block /\ Was["esp"] = Cells /\ Whole(Was)
        BY <1>3 DEF MovesAt
    <2>2. ~(eip = <<l, 2>>)
        <3>1. Len(Code[l]) = 1
            BY <1>3, MovingCode DEF MoveCode
        <3> QED BY <1>3, <3>1, NextRuns DEF Running
    <2>3. PICK f : Within(<<l, 1>>, Was, f)
        BY <1>3, <2>2 DEF MovesAt
    <2>4. \A a \in 0 .. Buffer - 1 : cells[a] = Stored(a)
        BY <1>3, <2>2 DEF MovesAt
    <2>5. PICK w, b : w = Was /\ b = <<l, 1>>
        OBVIOUS
    <2>6. /\ given' = given /\ irqs' \in {0, 1}
          /\ \/ Stacked' /\ DataSame /\ Within(b, w, f)'
             \/ eip = b /\ reg = w /\ fl = f /\ ExecInst
        BY <1>3, <2>1, <2>3, <2>5, InterruptsTransparent
    <2>7. CASE Stacked' /\ DataSame /\ Within(b, w, f)'
        <3>1. Was' = w /\ <<l, 1>>' = b
            BY <2>5, <2>6 DEF Was
        <3>2. \A a \in 0 .. Buffer - 1 : cells'[a] = Stored(a)
            BY <2>4, <2>7 DEF DataSame
        <3> QED BY <2>1, <2>5, <2>6, <2>7, <3>1, <3>2 DEF MovesAt
    <2>8. CASE eip = b /\ reg = w /\ fl = f /\ ExecInst
        <3> DEFINE name == IF l = "copy" THEN "movs" ELSE "stos"
                   n == Was["ecx"]
                   to == Was["edi"] .. Was["edi"] + n - 1
        <3>1. Inst = <<"rep", name>> /\ eip = <<l, 1>> /\ reg = Was
            BY <1>3, <2>5, <2>8, MovingCode DEF Inst, MoveCode
        <3>2. RepInst(<<"rep", name>>)
            BY <2>8, <3>1, Dispatch DEF ExecInst
        <3>3. /\ cells' = Rounds(name, n) /\ eip' = <<l, 2>>
              /\ reg'["ecx"] = 0 /\ reg'["edi"] = Was["edi"] + n
            BY <2>1, <3>1, <3>2
            DEF RepInst, Repeated, NextInst, Goto, Whole, Registers, DataRegs, AddrRegs
        <3>4. /\ reg["esi"] \in Nat /\ reg["edi"] \in Nat /\ n \in Nat
              /\ reg["esi"] + n <= Buffer /\ reg["edi"] + n <= Buffer /\ Buffer <= Cells
            BY <2>1, <3>1, RoutinesAssumption, CpuAssumption
        <3>5. name \in {"movs", "stos"} /\ (l = "fill" => name = "stos")
              /\ (l = "copy" => name = "movs")
            BY <1>3
        <3> HIDE DEF name, n
        <3>6. LET c == Rounds(name, n)
                  tt == reg["edi"] .. reg["edi"] + n - 1
              IN /\ DOMAIN c = Cell /\ c = [a \in Cell |-> c[a]]
                 /\ \A a \in Cell \ tt : c[a] = cells[a]
                 /\ name = "stos" => \A a \in tt : c[a] = reg["eax"]
                 /\ name = "movs" /\ reg["edi"] \notin reg["esi"] + 1 .. reg["esi"] + n - 1
                       => \A a \in tt : c[a] = cells[a - reg["edi"] + reg["esi"]]
            <4>1. reg["esi"] + n <= Cells /\ reg["edi"] + n <= Cells
                BY <3>4, CpuAssumption, RoutinesAssumption
            <4> QED BY <2>1, <3>4, <3>5, <4>1, RoundsFacts
        <3>7. /\ Stacked'
              /\ \A a \in Cell \ to : cells'[a] = cells[a]
              /\ l = "fill" => \A a \in to : cells'[a] = Was["eax"]
              /\ l = "copy" /\ Was["edi"] \notin Was["esi"] + 1 .. Was["esi"] + n - 1
                       => \A a \in to : cells'[a] = cells[a - Was["edi"] + Was["esi"]]
            BY <3>1, <3>3, <3>5, <3>6 DEF Stacked, Cell
        <3>8. \A a \in to : a - Was["edi"] + Was["esi"] \in 0 .. Buffer - 1
            BY <3>1, <3>4, RoutinesAssumption
        <3>9. \A a \in 0 .. Buffer - 1 : a \in Cell
            BY RoutinesAssumption, CpuAssumption DEF Cell
        <3>10. \A a \in 0 .. Buffer - 1 :
                  /\ a \notin to => cells'[a] = Stored(a)
                  /\ a \in to /\ l = "fill" => cells'[a] = Was["eax"]
                  /\ a \in to /\ l = "copy" =>
                         \/ Was["edi"] \in Was["esi"] + 1 .. Was["esi"] + n - 1
                         \/ cells'[a] = Stored(a - Was["edi"] + Was["esi"])
            <4> HIDE DEF to
            <4> QED BY <2>4, <3>7, <3>8, <3>9
        <3>11. BlockIsMoved(l, reg', cells')
            BY <3>3, <3>10 DEF BlockIsMoved, n
        <3>12. BlockIsMoved(l, reg, cells)'
            BY <2>6, <3>11 DEF BlockIsMoved, Was
        <3> QED BY <2>1, <2>6, <3>3, <3>7, <3>12 DEF MovesAt, Was
    <2> QED BY <2>6, <2>7, <2>8
<1>4. ASSUME CpuNext, l \notin {"copy", "fill"} PROVE MovesAt'
    <2>1. given' = given
        BY <1>4 DEF CpuNext, ExecInst, DoIntr
    <2> QED BY <1>4, <2>1 DEF MovesAt
<1> QED BY <1>1, <1>2, <1>3, <1>4

LEMMA MovesEnd ==
    ASSUME MovesAt, Code = RoutineCode
    PROVE  BlocksMoved
<1> DEFINE l == given.label
<1> SUFFICES ASSUME Returned({"copy", "fill"})
             PROVE  BlockIsMoved(l, reg, cells)
    BY DEF BlocksMoved, BlockIsMoved
<1>1. l \in {"copy", "fill"} /\ eip = <<l, 2>>
    <2>1. l \in {"copy", "fill"} /\ eip = <<l, Len(Code[l]) + 1>>
        BY DEF Returned
    <2>2. Code[l] = MoveCode(l)
        BY <2>1, MovingCode
    <2>3. Len(MoveCode(l)) = 1
        BY DEF MoveCode
    <2> QED BY <2>1, <2>2, <2>3
<1>2. ~(\E f : Within(<<l, 1>>, Was, f))
    <2> SUFFICES ASSUME NEW f, Within(<<l, 1>>, Was, f) PROVE FALSE
        OBVIOUS
    <2>1. eip # <<l, 1>> /\ eip[1] \notin {"irq0", "irq_handle"}
        BY <1>1
    <2> QED BY <2>1 DEF Within, Handling, StackFrame
<1> QED BY <1>1, <1>2 DEF MovesAt

\* rep movs copies a block, also within itself when it moves down, rep stos
\* fills one, and nothing else below the stack changes, with the interrupts on
\* the way: for every width, size of the stack and of the data.
THEOREM BlocksMovedCorrect ==
    ASSUME Code = RoutineCode, Buffer + 15 <= Cells
    PROVE  RSpec => []BlocksMoved
<1>1. RInit => MovesAt
    BY MovesStart
<1>2. MovesAt /\ [CpuNext \/ Done]_cpuvars => MovesAt'
    BY MovesStep DEF Deep
<1>3. MovesAt => BlocksMoved
    BY MovesEnd
<1> QED BY <1>1, <1>2, <1>3, PTL DEF RSpec

-----------------------------------------------------------------------------
(* The rest of the ALU, at the size of a register.                         *)

\* What a word of the register size stays below.
Limit == 2^Long

\* The size of a register as a number, and its words.
LEMMA LongFacts ==
    /\ Long \in Size /\ Limit \in Nat \ {0} /\ SignBit(Long) \in Nat \ {0}
    /\ Limit = 2 * SignBit(Long) /\ Word = Words(Long) /\ Word = 0 .. Limit - 1
    /\ 0 \in Word /\ 1 \in Word
<1>1. Long \in Size
    BY DEF Size
<1>2. 2^Long \in Nat \ {0} /\ SignBit(Long) \in Nat \ {0} /\ 2^Long = 2 * SignBit(Long)
    BY <1>1, SizeFacts
<1> DEFINE h == SignBit(Long)
<1>3. Word = Words(Long) /\ Word = 0 .. Limit - 1
    BY DEF Word, Words, Limit
<1>4. Limit \in Nat /\ h \in Nat \ {0} /\ Limit = 2 * h
    BY <1>2 DEF Limit
<1> HIDE DEF h
<1>5. 0 \in 0 .. Limit - 1 /\ 1 \in 0 .. Limit - 1
    BY <1>4
<1> QED BY <1>1, <1>2, <1>3, <1>5 DEF Limit

\* A word as a number and as a signed number.
LEMMA RegisterFacts ==
    ASSUME NEW x \in Word
    PROVE  /\ x \in Nat /\ x \in 0 .. Limit - 1
           /\ Cut(x, Long) = x /\ (Positive(x, Long) <=> x < SignBit(Long))
           /\ Signed(x, Long) = (IF x < SignBit(Long) THEN x ELSE x - Limit)
           /\ Signed(x, Long) \in Int
           /\ Signed(x, Long) \in -SignBit(Long) .. SignBit(Long) - 1
<1>1. x \in Nat /\ x \in 0 .. Limit - 1
    BY LongFacts
<1>2. /\ Cut(x, Long) = x /\ (Positive(x, Long) <=> x < SignBit(Long))
      /\ Signed(x, Long) = (IF x < SignBit(Long) THEN x ELSE x - Limit)
    BY LongFacts, WordFacts DEF Limit
<1> DEFINE h == SignBit(Long)
           s == Signed(x, Long)
<1>3. Limit \in Nat /\ h \in Nat /\ Limit = 2 * h
    BY LongFacts
<1>4. s = IF x < h THEN x ELSE x - Limit
    BY <1>2
<1> HIDE DEF h, s
<1>5. s \in Int /\ s \in -h .. h - 1
    BY <1>1, <1>3, <1>4
<1> QED BY <1>1, <1>2, <1>5 DEF s, h

\* What an operation leaves in the flags.
Sets(f, r, cf, of) ==
    /\ f \in Flags /\ f.SF = Bit(r >= SignBit(Long)) /\ f.ZF = Bit(r = 0)
    /\ f.CF = cf /\ f.OF = of

\* FlagsOf sets the four flags that the routines read.
LEMMA FlagsSet ==
    ASSUME NEW f \in Flags, NEW r \in Word, NEW cf \in {0, 1}, NEW of \in {0, 1}
    PROVE  Sets(FlagsOf(f, r, Long, cf, of), r, cf, of)
<1>1. Long \in Size /\ r \in Words(Long)
    BY LongFacts
<1> DEFINE g == FlagsOf(f, r, Long, cf, of)
<1>2. g \in Flags /\ g.SF = Bit(r >= SignBit(Long)) /\ g.ZF = Bit(r = 0) /\ g.CF = cf /\ g.OF = of
    BY <1>1, FlagsOfFacts
<1> HIDE DEF g
<1>3. Sets(g, r, cf, of)
    BY <1>2 DEF Sets
<1> QED BY <1>3 DEF g

\* The flags of a result that are set one after the other.
LEMMA FlagsReplaced ==
    ASSUME NEW f \in Flags, NEW r \in Word, NEW cf \in {0, 1}, NEW of \in {0, 1}
    PROVE  /\ SZP(f, r, Long) \in Flags /\ SZP(f, r, Long).CF = f.CF
           /\ Sets([SZP(f, r, Long) EXCEPT !.OF = of, !.CF = cf], r, cf, of)
           /\ Sets([SZP(f, r, Long) EXCEPT !.CF = cf, !.OF = of], r, cf, of)
<1>1. Bit(~Positive(r, Long)) = Bit(r >= SignBit(Long)) /\ Bit(Cut(r, Long) = 0) = Bit(r = 0)
    BY LongFacts, SignAndZero
<1>2. SZP(f, r, Long) = [f EXCEPT !.SF = Bit(r >= SignBit(Long)), !.ZF = Bit(r = 0),
                                  !.PF = Parity(r)]
    BY <1>1 DEF SZP
<1>3. Bit(r >= SignBit(Long)) \in {0, 1} /\ Bit(r = 0) \in {0, 1} /\ Parity(r) \in {0, 1}
    BY DEF Bit, Parity
<1> DEFINE sf == Bit(r >= SignBit(Long))
           zf == Bit(r = 0)
           pf == Parity(r)
<1>4. sf \in {0, 1} /\ zf \in {0, 1} /\ pf \in {0, 1}
      /\ SZP(f, r, Long) = [f EXCEPT !.SF = sf, !.ZF = zf, !.PF = pf]
    BY <1>2, <1>3
<1> HIDE DEF sf, zf, pf
<1> DEFINE g == SZP(f, r, Long)
<1>5. g \in Flags /\ g.CF = f.CF /\ g.SF = sf /\ g.ZF = zf
    BY <1>4 DEF Flags, Arithmetic
<1> HIDE DEF g
<1>6. ASSUME NEW h, h = [g EXCEPT !.OF = of, !.CF = cf] \/ h = [g EXCEPT !.CF = cf, !.OF = of]
      PROVE  h \in Flags /\ h.SF = sf /\ h.ZF = zf /\ h.CF = cf /\ h.OF = of
    BY <1>5, <1>6 DEF Flags, Arithmetic
<1>7. \A h : (h = [g EXCEPT !.OF = of, !.CF = cf] \/ h = [g EXCEPT !.CF = cf, !.OF = of])
                 => Sets(h, r, cf, of)
    BY <1>6 DEF Sets, sf, zf
<1> QED BY <1>5, <1>7 DEF g

\* alu_add adds modulo the limit; CF and OF tell what was lost.
LEMMA AddSets ==
    ASSUME NEW f \in Flags, NEW s \in Word, NEW d \in Word
    PROVE  LET r == AddValue(s, d, Long)
               h == SignBit(Long)
           IN /\ r \in Word /\ AluAdd(f, s, d, Long).val = r
              /\ Sets(AluAdd(f, s, d, Long).fl, r, Bit(s + d >= Limit),
                      Bit((s < h <=> d < h) /\ ~(s < h <=> r < h)))
<1> DEFINE r == AddValue(s, d, Long)
           h == SignBit(Long)
           cf == Bit(s + d >= 2^Long)
           of == Bit((s < h <=> d < h) /\ ~(s < h <=> r < h))
<1>1. /\ r \in Word /\ AluAdd(f, s, d, Long).val = r
      /\ AluAdd(f, s, d, Long).fl = FlagsOf(f, r, Long, cf, of)
    BY LongFacts, AluAddFacts
<1>2. cf \in {0, 1} /\ of \in {0, 1}
    BY DEF Bit
<1> HIDE DEF cf, of, r
<1>3. Sets(AluAdd(f, s, d, Long).fl, r, cf, of)
    BY <1>1, <1>2, FlagsSet
<1> QED BY <1>1, <1>3 DEF cf, of, Limit, r

\* alu_sub likewise.
LEMMA SubSets ==
    ASSUME NEW f \in Flags, NEW s \in Word, NEW d \in Word
    PROVE  LET r == SubValue(d, s, Long)
               h == SignBit(Long)
           IN /\ r \in Word /\ AluSub(f, s, d, Long).val = r
              /\ Sets(AluSub(f, s, d, Long).fl, r, Bit(d < s),
                      Bit(~(d < h <=> s < h) /\ ~(d < h <=> r < h)))
<1> DEFINE r == SubValue(d, s, Long)
           h == SignBit(Long)
           cf == Bit(d < s)
           of == Bit(~(d < h <=> s < h) /\ ~(d < h <=> r < h))
<1>1. /\ r \in Word /\ AluSub(f, s, d, Long).val = r
      /\ AluSub(f, s, d, Long).fl = FlagsOf(f, r, Long, cf, of)
    BY LongFacts, AluSubFacts DEF SubFlags
<1>2. cf \in {0, 1} /\ of \in {0, 1}
    BY DEF Bit
<1> HIDE DEF cf, of, r
<1>3. Sets(AluSub(f, s, d, Long).fl, r, cf, of)
    BY <1>1, <1>2, FlagsSet
<1> QED BY <1>1, <1>3 DEF cf, of, r

\* alu_adc: the sum with the carry of the addition before.
LEMMA AdcSets ==
    ASSUME NEW f \in Flags, NEW s \in Word, NEW d \in Word
    PROVE  LET t == s + d + f.CF
               r == IF t < Limit THEN t ELSE t - Limit
               h == SignBit(Long)
           IN /\ r \in Word /\ AluAdc(f, s, d, Long).val = r
              /\ Sets(AluAdc(f, s, d, Long).fl, r, Bit(t >= Limit),
                      Bit((s < h <=> d < h) /\ ~(s < h <=> r < h)))
<1> DEFINE c == f.CF
           a == AluAdd(f, s, c, Long)
           u == AddValue(s, c, Long)
           b == AluAdd(a.fl, u, d, Long)
           t == s + d + c
           r == IF t < Limit THEN t ELSE t - Limit
           h == SignBit(Long)
<1>1. c \in {0, 1} /\ c \in Word
    BY LongFacts DEF Flags, Arithmetic
<1>2. /\ u \in Word /\ a.val = u /\ a.fl \in Flags /\ a.fl.CF = Bit(s + c >= Limit)
    <2> HIDE DEF c
    <2> QED BY <1>1, AddSets DEF Sets
<1>3. /\ AddValue(u, d, Long) \in Word /\ b.val = AddValue(u, d, Long)
      /\ \E of : Sets(b.fl, AddValue(u, d, Long), Bit(u + d >= Limit), of)
    <2> HIDE DEF c, a, u
    <2> QED BY <1>2, AddSets
<1>4. AddValue(u, d, Long) = r /\ (u + d >= Limit \/ s + c >= Limit <=> t >= Limit)
    <2>1. u = IF s + c < Limit THEN s + c ELSE s + c - Limit
        BY DEF AddValue, Limit
    <2>2. AddValue(u, d, Long) = IF u + d < Limit THEN u + d ELSE u + d - Limit
        BY DEF AddValue, Limit
    <2>3. s \in 0 .. Limit - 1 /\ d \in 0 .. Limit - 1 /\ Limit \in Nat
        BY LongFacts
    <2> HIDE DEF c, u
    <2> QED BY <1>1, <2>1, <2>2, <2>3
<1>5. Cut(s, Long) = s /\ Cut(d, Long) = d
    BY LongFacts, WordFacts
<1> HIDE DEF c, a, u, r
<1>6. r \in Word /\ b.val = r /\ b.fl \in Flags /\ b.fl.SF = Bit(r >= h) /\ b.fl.ZF = Bit(r = 0)
      /\ b.fl.CF = Bit(u + d >= Limit)
    BY <1>3, <1>4 DEF Sets
<1>7. /\ Positive(s, Long) <=> s < h
      /\ Positive(d, Long) <=> d < h
      /\ Positive(r, Long) <=> r < h
    BY <1>6, LongFacts, WordFacts
<1> DEFINE cf == Bit(b.fl.CF = 1 \/ a.fl.CF = 1)
           of == Bit(/\ Positive(s, Long) = Positive(d, Long)
                     /\ Positive(s, Long) # Positive(r, Long))
<1>8. AluAdc(f, s, d, Long) = [b EXCEPT !.fl.CF = cf, !.fl.OF = of]
    BY <1>2, <1>5, <1>6 DEF AluAdc, a, c
<1>9. cf = Bit(t >= Limit)
    <2>1. b.fl.CF = 1 <=> u + d >= Limit
        BY <1>6 DEF Bit
    <2>2. a.fl.CF = 1 <=> s + c >= Limit
        BY <1>2 DEF Bit
    <2> QED BY <1>4, <2>1, <2>2
<1>10. of = Bit((s < h <=> d < h) /\ ~(s < h <=> r < h))
    <2>1. (Positive(s, Long) = Positive(d, Long)) <=> (Positive(s, Long) <=> Positive(d, Long))
        BY DEF Positive
    <2>2. (Positive(s, Long) # Positive(r, Long)) <=> ~(Positive(s, Long) <=> Positive(r, Long))
        BY DEF Positive
    <2> HIDE DEF h
    <2> QED BY <1>7, <2>1, <2>2
<1>11. cf \in {0, 1} /\ of \in {0, 1}
    BY DEF Bit
<1> HIDE DEF cf, of
<1>12. [b EXCEPT !.fl.CF = cf, !.fl.OF = of].val = b.val
       /\ [b EXCEPT !.fl.CF = cf, !.fl.OF = of].fl = [b.fl EXCEPT !.CF = cf, !.OF = of]
    BY DEF AluAdd
<1> HIDE DEF b
<1>13. Sets([b.fl EXCEPT !.CF = cf, !.OF = of], r, cf, of)
    BY <1>6, <1>11 DEF Sets, Flags, Arithmetic
<1>14. AluAdc(f, s, d, Long).val = r /\ Sets(AluAdc(f, s, d, Long).fl, r, cf, of)
    BY <1>6, <1>8, <1>12, <1>13
<1> QED BY <1>6, <1>9, <1>10, <1>14 DEF r, c

\* alu_sbb: the difference with the borrow of the subtraction before.
LEMMA SbbSets ==
    ASSUME NEW f \in Flags, NEW s \in Word, NEW d \in Word
    PROVE  LET t == d - s - f.CF
               r == IF t >= 0 THEN t ELSE t + Limit
               h == SignBit(Long)
           IN /\ r \in Word /\ AluSbb(f, s, d, Long).val = r
              /\ Sets(AluSbb(f, s, d, Long).fl, r, Bit(t < 0),
                      Bit(~(d < h <=> s < h) /\ ~(d < h <=> r < h)))
<1> DEFINE c == f.CF
           a == AluSub(f, s, d, Long)
           u == SubValue(d, s, Long)
           b == AluSub(a.fl, c, u, Long)
           t == d - s - c
           r == IF t >= 0 THEN t ELSE t + Limit
           h == SignBit(Long)
<1>1. c \in {0, 1} /\ c \in Word
    BY LongFacts DEF Flags, Arithmetic
<1>2. /\ u \in Word /\ a.val = u /\ a.fl \in Flags /\ a.fl.CF = Bit(d < s)
    BY SubSets DEF Sets
<1>3. /\ SubValue(u, c, Long) \in Word /\ b.val = SubValue(u, c, Long)
      /\ b.fl \in Flags /\ b.fl.CF = Bit(u < c)
    <2> HIDE DEF c, a, u
    <2> QED BY <1>1, <1>2, SubSets DEF Sets
<1>4. SubValue(u, c, Long) = r /\ (u < c \/ d < s <=> t < 0)
    <2>1. u = IF d >= s THEN d - s ELSE d - s + Limit
        BY DEF SubValue, Limit
    <2>2. SubValue(u, c, Long) = IF u >= c THEN u - c ELSE u - c + Limit
        BY DEF SubValue, Limit
    <2>3. s \in 0 .. Limit - 1 /\ d \in 0 .. Limit - 1 /\ Limit \in Nat
        BY LongFacts
    <2> HIDE DEF c, u
    <2> QED BY <1>1, <2>1, <2>2, <2>3
<1>5. Cut(s, Long) = s /\ Cut(d, Long) = d
    BY LongFacts, WordFacts
<1> HIDE DEF c, a, u, r, b
<1>6. r \in Word /\ b.val = r
    BY <1>3, <1>4
<1>7. /\ Positive(s, Long) <=> s < h
      /\ Positive(d, Long) <=> d < h
      /\ Positive(r, Long) <=> r < h
    BY <1>6, LongFacts, WordFacts
<1> DEFINE cf == Bit(b.fl.CF = 1 \/ a.fl.CF = 1)
           of == OfSub(d, s, r, Long)
<1>11. cf \in {0, 1} /\ of \in {0, 1}
    BY DEF Bit, OfSub
<1>8. AluSbb(f, s, d, Long) = [val |-> r, fl |-> [SZP(b.fl, r, Long) EXCEPT !.OF = of, !.CF = cf]]
    <2>1. SZP(b.fl, r, Long).CF = b.fl.CF
        BY <1>3, <1>6, <1>11, FlagsReplaced
    <2> QED BY <1>2, <1>5, <1>6, <2>1 DEF AluSbb, a, b, c
<1>9. cf = Bit(t < 0)
    <2>1. b.fl.CF = 1 <=> u < c
        BY <1>3 DEF Bit
    <2>2. a.fl.CF = 1 <=> d < s
        BY <1>2 DEF Bit
    <2> QED BY <1>4, <2>1, <2>2
<1>10. of = Bit(~(d < h <=> s < h) /\ ~(d < h <=> r < h))
    <2>1. (Positive(d, Long) # Positive(s, Long)) <=> ~(Positive(d, Long) <=> Positive(s, Long))
        BY DEF Positive
    <2>2. (Positive(d, Long) # Positive(r, Long)) <=> ~(Positive(d, Long) <=> Positive(r, Long))
        BY DEF Positive
    <2> HIDE DEF h
    <2> QED BY <1>7, <2>1, <2>2 DEF OfSub
<1> HIDE DEF cf, of
<1>12. Sets([SZP(b.fl, r, Long) EXCEPT !.OF = of, !.CF = cf], r, cf, of)
    <2> DEFINE g == b.fl
    <2>1. g \in Flags
        BY <1>3
    <2> HIDE DEF g
    <2>2. Sets([SZP(g, r, Long) EXCEPT !.OF = of, !.CF = cf], r, cf, of)
        BY <1>6, <1>11, <2>1, FlagsReplaced
    <2> QED BY <2>2 DEF g
<1> QED BY <1>6, <1>8, <1>9, <1>10, <1>12 DEF r, c

-----------------------------------------------------------------------------
(* Words and the sets of their bits.                                       *)

\* WordOf adds up the powers of two that its set names.
SumOf(w, S) ==
    /\ w \in [0 .. Long -> Nat] /\ w[0] = 0
    /\ \A k \in 1 .. Long : w[k] = w[k - 1] + (IF k - 1 \in S THEN 2^(k - 1) ELSE 0)

\* There is one such sum, and WordOf is its last value.
LEMMA WordIsSum ==
    ASSUME NEW S
    PROVE  \E w : SumOf(w, S) /\ WordOf(S) = w[Long]
<1> DEFINE term(k) == IF k - 1 \in S THEN 2^(k - 1) ELSE 0
           P(w) == w = [k \in 0 .. Long |-> IF k = 0 THEN 0 ELSE w[k - 1] + term(k)]
           h == CHOOSE w : P(w)
           G == [k \in 1 .. Long |-> [x \in Nat |-> x + term(k)]]
<1>1. Long \in Nat
    BY BitsAssumption
<1>2. \A k \in 1 .. Long : term(k) \in Nat
    <2> TAKE k \in 1 .. Long
    <2>1. 2^(k - 1) \in Nat
        BY <1>1, PowerIsNumber
    <2> QED BY <2>1
<1>3. G \in [1 .. Long -> [Nat -> Nat]]
    <2> HIDE DEF term
    <2> QED BY <1>2
<1> HIDE DEF term
<1>4. PICK w \in [0 .. Long -> Nat] : w[0] = 0 /\ \A k \in 1 .. Long : w[k] = G[k][w[k - 1]]
    <2> DEFINE N == Long
               V == Nat
               z == 0
    <2>1. N \in Nat /\ G \in [1 .. N -> [V -> V]]
        BY <1>1, <1>3
    <2>3. z \in V
        OBVIOUS
    <2> HIDE DEF G, N, V, z
    <2>2. \E f \in [0 .. N -> V] : f[0] = z /\ \A k \in 1 .. N : f[k] = G[k][f[k - 1]]
        BY <2>1, <2>3, Recursion, Z3T(30)
    <2> QED BY <2>2 DEF N, V, z
<1>5. \A k \in 1 .. Long : w[k] = w[k - 1] + term(k)
    <2> TAKE k \in 1 .. Long
    <2>1. k - 1 \in 0 .. Long
        BY <1>1
    <2> QED BY <1>4, <2>1
<1>6. P(w)
    <2>1. \A k \in 0 .. Long : k = 0 \/ k \in 1 .. Long
        BY <1>1
    <2>2. \A k \in 0 .. Long : w[k] = IF k = 0 THEN 0 ELSE w[k - 1] + term(k)
        BY <1>4, <1>5, <2>1
    <2>3. w = [k \in 0 .. Long |-> w[k]]
        BY <1>4
    <2> QED BY <2>2, <2>3
<1>7. P(h)
    <2> HIDE DEF P
    <2> QED BY <1>6
<1>8. ASSUME NEW x, P(x) PROVE x[Long] = w[Long]
    <2> DEFINE Bad == {k \in 0 .. Long : x[k] # w[k]}
    <2>1. x[0] = 0
        <3>1. 0 \in 0 .. Long
            BY <1>1
        <3> QED BY <1>8, <3>1
    <2>2. ASSUME NEW k \in 1 .. Long PROVE x[k] = x[k - 1] + term(k)
        <3>1. k \in 0 .. Long /\ k # 0
            BY <1>1
        <3> QED BY <1>8, <3>1
    <2>3. Bad = {}
        <3> SUFFICES ASSUME Bad # {} PROVE FALSE
            OBVIOUS
        <3> DEFINE m == Min(Bad)
        <3>1. m \in Bad /\ \A k \in Bad : m <= k
            <4>1. Bad \subseteq Nat
                OBVIOUS
            <4> HIDE DEF Bad
            <4> QED BY <4>1, MinIsElement
        <3>2. m \in 0 .. Long /\ x[m] # w[m]
            BY <3>1
        <3> HIDE DEF m
        <3>3. m # 0
            BY <1>4, <2>1, <3>2
        <3>4. m \in 1 .. Long /\ m - 1 \in 0 .. Long /\ ~(m <= m - 1)
            BY <1>1, <3>2, <3>3
        <3>5. x[m - 1] = w[m - 1]
            BY <3>1, <3>4
        <3> QED BY <1>5, <2>2, <3>2, <3>4, <3>5
    <2>4. Long \in 0 .. Long
        BY <1>1
    <2> QED BY <2>3, <2>4
<1>9. WordOf(S) = h[Long]
    BY DEF WordOf, term
<1>10. SumOf(w, S)
    BY <1>4, <1>5 DEF SumOf, term
<1>11. h[Long] = w[Long]
    <2> HIDE DEF P, h
    <2> QED BY <1>7, <1>8
<1> QED BY <1>9, <1>10, <1>11

\* The sum so far is smaller than the next power, so that it does not reach its bit.
LEMMA SumBound ==
    ASSUME NEW S, NEW w, SumOf(w, S)
    PROVE  \A k \in 0 .. Long : w[k] \in 0 .. 2^k - 1
<1> DEFINE Bad == {k \in 0 .. Long : w[k] \notin 0 .. 2^k - 1}
<1> SUFFICES ASSUME Bad # {} PROVE FALSE
    OBVIOUS
<1> DEFINE m == Min(Bad)
<1>1. m \in Bad /\ \A k \in Bad : m <= k
    <2>1. Bad \subseteq Nat
        OBVIOUS
    <2> HIDE DEF Bad
    <2> QED BY <2>1, MinIsElement
<1>2. m \in 0 .. Long /\ w[m] \notin 0 .. 2^m - 1 /\ Long \in Nat
    BY <1>1, BitsAssumption
<1> HIDE DEF m
<1>3. m # 0
    <2>1. w[0] \in 0 .. 2^0 - 1
        <3>1. w[0] = 0 /\ 2^0 = 1
            BY DEF SumOf
        <3> QED BY <3>1
    <2> QED BY <1>2, <2>1
<1>4. m \in 1 .. Long /\ m - 1 \in Nat /\ m - 1 \in 0 .. Long /\ ~(m <= m - 1) /\ m - 1 + 1 = m
    BY <1>2, <1>3
<1>5. w[m - 1] \in 0 .. 2^(m - 1) - 1
    BY <1>1, <1>4
<1>6. 2^m = 2 * 2^(m - 1) /\ 2^(m - 1) \in Nat
    <2>1. 2^(m - 1 + 1) = 2 * 2^(m - 1)
        BY <1>4, PowerDoubles
    <2> QED BY <1>4, <2>1, PowerIsNumber
<1>7. w[m] = w[m - 1] + (IF m - 1 \in S THEN 2^(m - 1) ELSE 0)
    BY <1>4 DEF SumOf
<1> DEFINE p == 2^(m - 1)
           q == 2^m
<1>8. p \in Nat /\ q = 2 * p /\ w[m - 1] \in 0 .. p - 1 /\ (w[m] = w[m - 1] + p \/ w[m] = w[m - 1])
      /\ w[m] \notin 0 .. q - 1
    BY <1>2, <1>5, <1>6, <1>7
<1> HIDE DEF p, q
<1> QED BY <1>8

\* The bit i of a number.
BitOf(x, i) == (x \div 2^i) % 2

\* A bit that is added at its place is read back from there.
LEMMA BitOfSum ==
    ASSUME NEW i \in Nat, NEW m \in Nat, NEW b \in {0, 1}, NEW r \in 0 .. 2^i - 1
    PROVE  BitOf((2 * m + b) * 2^i + r, i) = b
<1> DEFINE p == 2^i
           q == 2 * m + b
<1>1. p \in Nat \ {0} /\ q \in Nat
    BY PowerIsNumber
<1>2. (q * p + r) \div p = q
    <2> HIDE DEF p, q
    <2>1. r \in 0 .. p - 1
        BY DEF p
    <2> QED BY <1>1, <2>1, DivModUnique
<1>3. q % 2 = b
    <2>1. (m * 2 + b) % 2 = b
        BY DivModUnique
    <2> QED BY <2>1
<1> QED BY <1>2, <1>3 DEF BitOf

\* A set of bit numbers and its word say the same.
LEMMA BitsOfWord ==
    ASSUME NEW S \in SUBSET (0 .. Long - 1)
    PROVE  WordOf(S) \in Word /\ Bits(WordOf(S)) = S
<1>1. PICK w : SumOf(w, S) /\ WordOf(S) = w[Long]
    BY WordIsSum
<1>2. Long \in Nat
    BY BitsAssumption
<1>3. \A k \in 0 .. Long : w[k] \in 0 .. 2^k - 1
    BY <1>1, SumBound
<1>4. WordOf(S) \in Word
    BY <1>1, <1>2, <1>3 DEF Word
<1>5. ASSUME NEW i \in 0 .. Long - 1
      PROVE  BitOf(w[Long], i) = IF i \in S THEN 1 ELSE 0
    <2> DEFINE b == IF i \in S THEN 1 ELSE 0
               q == 2^i
               Rest(k) == \E m \in Nat : w[k] = (2 * m + b) * q + w[i]
               Bad == {k \in i + 1 .. Long : ~Rest(k)}
    <2>1. i \in Nat /\ q \in Nat \ {0} /\ w[i] \in 0 .. q - 1 /\ i + 1 \in 1 .. Long /\ b \in {0, 1}
          /\ i \in 0 .. Long
        BY <1>2, <1>3, PowerIsNumber
    <2>2. Rest(i + 1)
        <3>1. w[i + 1] = w[i] + (IF i \in S THEN q ELSE 0)
            <4>1. w[i + 1] = w[i + 1 - 1] + (IF i + 1 - 1 \in S THEN 2^(i + 1 - 1) ELSE 0)
                BY <1>1, <2>1 DEF SumOf
            <4>2. i + 1 - 1 = i
                OBVIOUS
            <4> QED BY <4>1, <4>2
        <3>2. w[i + 1] = (2 * 0 + b) * q + w[i]
            <4> HIDE DEF q
            <4> QED BY <2>1, <3>1
        <3> QED BY <3>2
    <2>3. Bad = {}
        <3> SUFFICES ASSUME Bad # {} PROVE FALSE
            OBVIOUS
        <3> DEFINE k == Min(Bad)
        <3>1. k \in Bad /\ \A j \in Bad : k <= j
            <4>1. Bad \subseteq Nat
                BY <2>1
            <4> HIDE DEF Bad
            <4> QED BY <4>1, MinIsElement
        <3>2. k \in i + 1 .. Long /\ ~Rest(k)
            BY <3>1
        <3> HIDE DEF k
        <3>3. k # i + 1
            <4> HIDE DEF Rest
            <4> QED BY <2>2, <3>2
        <3>4. k - 1 \in i + 1 .. Long /\ ~(k <= k - 1) /\ k \in 1 .. Long /\ k - 1 \in Nat
            BY <1>2, <2>1, <3>2, <3>3
        <3>5. Rest(k - 1)
            <4> HIDE DEF Rest
            <4> QED BY <3>1, <3>4
        <3>6. PICK m \in Nat : w[k - 1] = (2 * m + b) * q + w[i]
            BY <3>5
        <3> DEFINE c == 2^(k - 1 - (i + 1))
        <3>7. c \in Nat /\ 2^(k - 1) = 2 * c * q
            <4>1. k - 1 - (i + 1) \in Nat /\ k - 1 - (i + 1) + (i + 1) = k - 1
                BY <2>1, <3>4
            <4>2. 2^(k - 1 - (i + 1) + (i + 1)) = 2^(k - 1 - (i + 1)) * 2^(i + 1)
                <5> DEFINE e == k - 1 - (i + 1)
                           g == i + 1
                <5>1. e \in Nat /\ g \in Nat
                    BY <2>1, <4>1
                <5> HIDE DEF e, g
                <5>2. 2^(e + g) = 2^e * 2^g
                    BY <5>1, PowerOfSum
                <5> QED BY <5>2 DEF e, g
            <4>3. 2^(i + 1) = 2 * q
                BY <2>1, PowerDoubles
            <4>4. c \in Nat
                BY <4>1, PowerIsNumber
            <4>5. 2^(k - 1) = c * (2 * q)
                BY <4>1, <4>2, <4>3
            <4> HIDE DEF c, q
            <4>6. c * (2 * q) = 2 * c * q
                BY <2>1, <4>4
            <4> QED BY <4>4, <4>5, <4>6
        <3>8. w[k] = w[k - 1] + (IF k - 1 \in S THEN 2^(k - 1) ELSE 0)
            BY <1>1, <3>4 DEF SumOf
        <3>9. w[k] = (2 * m + b) * q + w[i] \/ w[k] = (2 * (m + c) + b) * q + w[i]
            <4>1. w[k] = w[k - 1] \/ w[k] = w[k - 1] + 2 * c * q
                <5>1. w[k - 1] \in Nat
                    <6>1. k - 1 \in 0 .. Long
                        BY <3>4
                    <6> QED BY <1>1, <6>1 DEF SumOf
                <5> HIDE DEF c, q
                <5> QED BY <3>7, <3>8, <5>1
            <4> HIDE DEF c, q, b
            <4>2. (2 * (m + c) + b) * q = (2 * m + b) * q + 2 * c * q
                BY <2>1, <3>7
            <4>3. (2 * m + b) * q \in Nat /\ 2 * c * q \in Nat
                BY <2>1, <3>7
            <4> QED BY <2>1, <3>6, <4>1, <4>2, <4>3
        <3>10. m + c \in Nat
            BY <3>7
        <3>11. Rest(k)
            <4> HIDE DEF c, q, b
            <4> QED BY <3>9, <3>10
        <3> QED BY <3>2, <3>11
    <2>4. Rest(Long)
        <3>1. Long \in i + 1 .. Long
            BY <1>2, <2>1
        <3>2. Long \notin Bad
            <4> HIDE DEF Bad
            <4> QED BY <2>3
        <3> HIDE DEF Rest
        <3> QED BY <3>1, <3>2
    <2>5. PICK m \in Nat : w[Long] = (2 * m + b) * q + w[i]
        BY <2>4
    <2>6. BitOf((2 * m + b) * 2^i + w[i], i) = b
        <3> HIDE DEF b
        <3> QED BY <2>1, BitOfSum DEF q
    <2> QED BY <2>5, <2>6
<1>6. Bits(WordOf(S)) = S
    <2>1. Bits(WordOf(S)) = {i \in 0 .. Long - 1 : BitOf(w[Long], i) = 1}
        BY <1>1 DEF Bits, BitOf
    <2>2. \A i \in 0 .. Long - 1 : BitOf(w[Long], i) = 1 <=> i \in S
        BY <1>5
    <2> QED BY <2>1, <2>2
<1> QED BY <1>4, <1>6

\* A number, cut at a bit.
LEMMA BitParts ==
    ASSUME NEW x \in Nat, NEW i \in Nat
    PROVE  /\ BitOf(x, i) \in {0, 1}
           /\ \E m \in Nat, r \in 0 .. 2^i - 1 : x = (2 * m + BitOf(x, i)) * 2^i + r
<1> DEFINE p == 2^i
           q == x \div p
           m == q \div 2
           b == q % 2
           r == x % p
<1>1. p \in Nat \ {0}
    BY PowerIsNumber
<1>2. q \in Nat /\ r \in 0 .. p - 1 /\ x = q * p + r
    <2> HIDE DEF p
    <2> QED BY <1>1, DivMod
<1>3. m \in Nat /\ b \in {0, 1} /\ q = 2 * m + b
    <2> HIDE DEF q
    <2> QED BY <1>2
<1>4. BitOf(x, i) = b
    BY DEF BitOf
<1> HIDE DEF q, m, b, r
<1>5. x = (2 * m + b) * p + r
    BY <1>2, <1>3
<1>6. m \in Nat /\ r \in 0 .. 2^i - 1 /\ x = (2 * m + BitOf(x, i)) * 2^i + r
    BY <1>2, <1>3, <1>4, <1>5
<1> HIDE DEF p
<1> QED BY <1>3, <1>4, <1>6

\* Those below it are the remainder.
LEMMA LowerBits ==
    ASSUME NEW x \in Nat, NEW i \in Nat
    PROVE  x % 2^(i + 1) = (x % 2^i) + BitOf(x, i) * 2^i
<1> DEFINE p == 2^i
           b == BitOf(x, i)
<1>1. PICK m \in Nat, r \in 0 .. p - 1 : x = (2 * m + b) * p + r
    BY BitParts
<1>2. b \in {0, 1} /\ p \in Nat \ {0} /\ 2^(i + 1) = 2 * p
    BY BitParts, PowerIsNumber, PowerDoubles
<1> HIDE DEF p, b
<1>3. x % p = r
    <2>1. 2 * m + b \in Nat
        BY <1>2
    <2> QED BY <1>1, <1>2, <2>1, DivModUnique
<1>4. x % (2 * p) = b * p + r
    <2>1. b * p + r \in 0 .. 2 * p - 1 /\ 2 * p \in Nat \ {0}
        BY <1>2
    <2>2. x = m * (2 * p) + (b * p + r)
        BY <1>1, <1>2
    <2>3. (m * (2 * p) + (b * p + r)) % (2 * p) = b * p + r
        <3> DEFINE n == 2 * p
                   s == b * p + r
        <3>1. n \in Nat \ {0} /\ s \in 0 .. n - 1
            BY <2>1
        <3> HIDE DEF n, s
        <3>2. (m * n + s) % n = s
            BY <3>1, DivModUnique
        <3> QED BY <3>2 DEF n, s
    <2> QED BY <2>2, <2>3
<1>5. x % (2 * p) = (x % p) + b * p
    <2>1. b * p \in Nat
        BY <1>2
    <2> QED BY <1>3, <1>4, <2>1
<1> QED BY <1>2, <1>5 DEF p, b

\* A word is the sum of its bits.
LEMMA WordOfBits ==
    ASSUME NEW x \in Word
    PROVE  WordOf(Bits(x)) = x
<1>1. PICK w : SumOf(w, Bits(x)) /\ WordOf(Bits(x)) = w[Long]
    BY WordIsSum
<1>2. Long \in Nat /\ x \in Nat
    BY BitsAssumption, LongFacts
<1> DEFINE Bad == {k \in 0 .. Long : w[k] # x % 2^k}
<1>3. Bad = {}
    <2> SUFFICES ASSUME Bad # {} PROVE FALSE
        OBVIOUS
    <2> DEFINE m == Min(Bad)
    <2>1. m \in Bad /\ \A k \in Bad : m <= k
        <3>1. Bad \subseteq Nat
            OBVIOUS
        <3> HIDE DEF Bad
        <3> QED BY <3>1, MinIsElement
    <2>2. m \in 0 .. Long /\ w[m] # x % 2^m
        BY <2>1
    <2> HIDE DEF m
    <2>3. m # 0
        <3>1. 2^0 = 1 /\ w[0] = 0
            BY <1>1 DEF SumOf
        <3>2. x % 1 = 0
            BY <1>2
        <3> QED BY <2>2, <3>1, <3>2
    <2>4. m \in 1 .. Long /\ m - 1 \in 0 .. Long - 1 /\ m - 1 \in Nat /\ m - 1 \in 0 .. Long
          /\ ~(m <= m - 1) /\ m - 1 + 1 = m
        BY <1>2, <2>2, <2>3
    <2>5. w[m - 1] = x % 2^(m - 1)
        BY <2>1, <2>4
    <2>6. w[m] = w[m - 1] + (IF m - 1 \in Bits(x) THEN 2^(m - 1) ELSE 0)
        BY <1>1, <2>4 DEF SumOf
    <2>7. m - 1 \in Bits(x) <=> BitOf(x, m - 1) = 1
        BY <2>4 DEF Bits, BitOf
    <2>8. x % 2^(m - 1 + 1) = (x % 2^(m - 1)) + BitOf(x, m - 1) * 2^(m - 1)
        <3> DEFINE i == m - 1
        <3>1. i \in Nat
            BY <2>4
        <3> HIDE DEF i
        <3>2. x % 2^(i + 1) = (x % 2^i) + BitOf(x, i) * 2^i
            BY <1>2, <3>1, LowerBits
        <3> QED BY <3>2 DEF i
    <2> DEFINE b == BitOf(x, m - 1)
               p == 2^(m - 1)
    <2>9. b \in {0, 1} /\ p \in Nat
        BY <1>2, <2>4, BitParts, PowerIsNumber
    <2>10. (IF m - 1 \in Bits(x) THEN p ELSE 0) = b * p
        <3> HIDE DEF p, b
        <3>1. m - 1 \in Bits(x) <=> b = 1
            BY <2>7 DEF b
        <3> QED BY <2>9, <3>1
    <2>11. w[m] = x % 2^m
        BY <2>4, <2>5, <2>6, <2>8, <2>10
    <2> QED BY <2>2, <2>11
<1>4. Long \in 0 .. Long /\ Long \notin Bad
    <2> HIDE DEF Bad
    <2> QED BY <1>2, <1>3
<1>5. w[Long] = x % 2^Long
    BY <1>4
<1>6. x % 2^Long = x
    BY LongFacts, SmallMod DEF Limit
<1> QED BY <1>1, <1>5, <1>6

\* The complement of a word.
LEMMA NotBits ==
    ASSUME NEW x \in Word
    PROVE  Limit - 1 - x \in Word /\ Bits(Limit - 1 - x) = (0 .. Long - 1) \ Bits(x)
<1> DEFINE y == Limit - 1 - x
<1>1. Limit \in Nat \ {0} /\ x \in 0 .. Limit - 1 /\ x \in Nat
    BY LongFacts
<1>2. y \in Word /\ y \in Nat
    BY <1>1, LongFacts
<1>3. ASSUME NEW i \in 0 .. Long - 1 PROVE BitOf(y, i) = 1 - BitOf(x, i)
    <2> DEFINE p == 2^i
               b == BitOf(x, i)
               c == 2^(Long - 1 - i)
    <2>1. i \in Nat /\ Long - 1 - i \in Nat /\ Long - 1 - i + (i + 1) = Long
        BY BitsAssumption
    <2>2. PICK m \in Nat, r \in 0 .. p - 1 : x = (2 * m + b) * p + r
        BY <1>1, <2>1, BitParts
    <2>3. b \in {0, 1} /\ p \in Nat \ {0} /\ c \in Nat \ {0}
        BY <1>1, <2>1, BitParts, PowerIsNumber
    <2>4. Limit = 2 * c * p
        <3> DEFINE e == Long - 1 - i
                   g == i + 1
        <3>1. e \in Nat /\ g \in Nat /\ e + g = Long
            BY <2>1
        <3>2. 2^g = 2 * p
            BY <2>1, PowerDoubles
        <3> HIDE DEF e, g
        <3>3. 2^(e + g) = 2^e * 2^g
            BY <3>1, PowerOfSum
        <3>4. Limit = c * (2 * p)
            BY <3>1, <3>2, <3>3 DEF Limit, e
        <3> HIDE DEF c, p
        <3> QED BY <2>3, <3>4
    <2> DEFINE n == c - m - 1
               s == p - 1 - r
    <2> HIDE DEF p, b, c
    <2>5. s \in 0 .. p - 1
        BY <2>3
    <2>6. n \in Nat
        <3> SUFFICES ASSUME c <= m PROVE FALSE
            BY <2>3
        <3>1. c * p <= m * p
            <4>1. (m - c) * p >= 0
                BY <2>3
            <4>2. (m - c) * p = m * p - c * p
                BY <2>3
            <4>3. m * p \in Nat /\ c * p \in Nat
                BY <2>3
            <4> QED BY <4>1, <4>2, <4>3
        <3>2. x >= 2 * (m * p)
            <4>1. (2 * m + b) * p = 2 * (m * p) + b * p /\ m * p \in Nat /\ b * p \in Nat
                BY <2>3
            <4> QED BY <2>2, <2>3, <4>1
        <3>3. 2 * c * p = 2 * (c * p) /\ c * p \in Nat /\ m * p \in Nat
            BY <2>3
        <3> QED BY <1>1, <2>4, <3>1, <3>2, <3>3
    <2>7. y = (2 * n + (1 - b)) * p + s
        <3>1. (2 * n + (1 - b)) * p = 2 * c * p - (2 * m + b) * p - p
            BY <2>3
        <3>2. 2 * c * p \in Nat /\ (2 * m + b) * p \in Nat
            BY <2>3
        <3> QED BY <1>1, <2>2, <2>3, <2>4, <3>1, <3>2
    <2>8. BitOf((2 * n + (1 - b)) * p + s, i) = 1 - b
        <3> DEFINE d == 1 - b
        <3>1. d \in {0, 1} /\ s \in 0 .. 2^i - 1
            BY <2>3, <2>5 DEF p
        <3> HIDE DEF d, n, s
        <3>2. BitOf((2 * n + d) * 2^i + s, i) = d
            BY <2>1, <2>6, <3>1, BitOfSum
        <3> QED BY <3>2 DEF d, p
    <2> QED BY <2>7, <2>8 DEF b
<1>4. \A i \in 0 .. Long - 1 : BitOf(y, i) = 1 <=> ~(BitOf(x, i) = 1)
    <2> TAKE i \in 0 .. Long - 1
    <2>1. BitOf(x, i) \in {0, 1} /\ BitOf(y, i) = 1 - BitOf(x, i)
        <3>1. i \in Nat
            BY BitsAssumption
        <3> QED BY <1>1, <1>3, <3>1, BitParts
    <2> QED BY <2>1
<1>5. /\ Bits(x) = {i \in 0 .. Long - 1 : BitOf(x, i) = 1}
      /\ Bits(y) = {i \in 0 .. Long - 1 : BitOf(y, i) = 1}
    BY DEF Bits, BitOf
<1> HIDE DEF y
<1>6. Bits(y) = (0 .. Long - 1) \ Bits(x)
    BY <1>4, <1>5
<1> QED BY <1>2, <1>6 DEF y

-----------------------------------------------------------------------------
(* alu_and, alu_or and alu_xor.                                            *)

\* The result of a logic operation is the word that it was given.
LEMMA LogicFacts ==
    ASSUME NEW f \in Flags, NEW S \in SUBSET (0 .. Long - 1)
    PROVE  /\ WordOf(S) \in Word
           /\ Logic(f, WordOf(S), Long).val = WordOf(S) /\ Logic(f, WordOf(S), Long).fl \in Flags
<1>1. WordOf(S) \in Word
    BY BitsOfWord
<1> DEFINE r == WordOf(S)
<1> HIDE DEF r
<1>2. Sets([SZP(f, r, Long) EXCEPT !.CF = 0, !.OF = 0], r, 0, 0)
    BY <1>1, FlagsReplaced DEF r
<1> QED BY <1>1, <1>2 DEF Logic, Sets, r

\* Bits are numbered below the width.
LEMMA BitsAreBits == ASSUME NEW x PROVE Bits(x) \in SUBSET (0 .. Long - 1)
BY DEF Bits

\* alu_and and alu_or intersect and unite the bits.
LEMMA AndOrFacts ==
    ASSUME NEW f \in Flags, NEW s \in Word, NEW d \in Word
    PROVE  /\ AluAnd(f, s, d, Long).val \in Word /\ AluAnd(f, s, d, Long).fl \in Flags
           /\ AluOr(f, s, d, Long).val \in Word /\ AluOr(f, s, d, Long).fl \in Flags
           /\ Bits(AluAnd(f, s, d, Long).val) = Bits(s) \cap Bits(d)
           /\ Bits(AluOr(f, s, d, Long).val) = Bits(s) \cup Bits(d)
<1>1. Cut(s, Long) = s /\ Cut(d, Long) = d
    BY LongFacts, WordFacts
<1> DEFINE A == Bits(s) \cap Bits(d)
           O == Bits(s) \cup Bits(d)
<1>2. A \in SUBSET (0 .. Long - 1) /\ O \in SUBSET (0 .. Long - 1)
    BY BitsAreBits
<1>3. AluAnd(f, s, d, Long) = Logic(f, WordOf(A), Long)
      /\ AluOr(f, s, d, Long) = Logic(f, WordOf(O), Long)
    BY <1>1 DEF AluAnd, AluOr
<1> HIDE DEF A, O
<1>4. /\ WordOf(A) \in Word /\ Bits(WordOf(A)) = A
      /\ WordOf(O) \in Word /\ Bits(WordOf(O)) = O
    BY <1>2, BitsOfWord
<1>5. /\ Logic(f, WordOf(A), Long).val = WordOf(A) /\ Logic(f, WordOf(A), Long).fl \in Flags
      /\ Logic(f, WordOf(O), Long).val = WordOf(O) /\ Logic(f, WordOf(O), Long).fl \in Flags
    BY <1>2, LogicFacts
<1> QED BY <1>3, <1>4, <1>5 DEF A, O

\* A register and itself, zero and -1 with a word.
LEMMA XorFacts ==
    ASSUME NEW f \in Flags, NEW s \in Word, NEW d \in Word
    PROVE  /\ AluXor(f, s, d, Long).val \in Word /\ AluXor(f, s, d, Long).fl \in Flags
           /\ s = d => AluXor(f, s, d, Long).val = 0
           /\ s = 0 => AluXor(f, s, d, Long).val = d
           /\ s = Limit - 1 => AluXor(f, s, d, Long).val = Limit - 1 - d
<1>1. Cut(s, Long) = s /\ Cut(d, Long) = d
    BY LongFacts, WordFacts
<1> DEFINE Differ == (Bits(s) \ Bits(d)) \cup (Bits(d) \ Bits(s))
<1>2. Differ \in SUBSET (0 .. Long - 1) /\ Bits(d) \in SUBSET (0 .. Long - 1)
    BY BitsAreBits
<1>3. AluXor(f, s, d, Long) = Logic(f, WordOf(Differ), Long)
    BY <1>1 DEF AluXor
<1>4. /\ WordOf(Differ) \in Word /\ Logic(f, WordOf(Differ), Long).val = WordOf(Differ)
      /\ Logic(f, WordOf(Differ), Long).fl \in Flags
    <2> HIDE DEF Differ
    <2> QED BY <1>2, LogicFacts
<1>5. Bits(0) = {} /\ Bits(Limit - 1) = 0 .. Long - 1 /\ Limit - 1 - 0 = Limit - 1
    <2>1. ASSUME NEW i \in 0 .. Long - 1 PROVE ~((0 \div 2^i) % 2 = 1)
        <3> DEFINE p == 2^i
        <3>1. p \in Nat \ {0}
            <4>1. i \in Nat
                BY BitsAssumption
            <4> QED BY <4>1, PowerIsNumber
        <3> HIDE DEF p
        <3>2. (0 * p + 0) \div p = 0
            BY <3>1, DivModUnique
        <3>3. 0 * p + 0 = 0 /\ 0 % 2 = 0
            BY <3>1
        <3>4. ~((0 \div p) % 2 = 1)
            BY <3>2, <3>3
        <3> QED BY <3>4 DEF p
    <2>2. Bits(0) = {}
        BY <2>1 DEF Bits
    <2>3. Limit - 1 - 0 = Limit - 1 /\ 0 \in Word
        BY LongFacts
    <2>4. Bits(Limit - 1 - 0) = (0 .. Long - 1) \ Bits(0)
        BY <2>3, NotBits
    <2> QED BY <2>2, <2>3, <2>4
<1>6. ASSUME s = d PROVE WordOf(Differ) = 0
    <2>1. Differ = Bits(0)
        BY <1>5, <1>6
    <2>2. WordOf(Bits(0)) = 0
        BY LongFacts, WordOfBits
    <2> QED BY <2>1, <2>2
<1>7. ASSUME s = 0 PROVE WordOf(Differ) = d
    <2>1. Differ = Bits(d)
        BY <1>5, <1>7
    <2> QED BY <2>1, WordOfBits
<1>8. ASSUME s = Limit - 1 PROVE WordOf(Differ) = Limit - 1 - d
    <2>1. Differ = (0 .. Long - 1) \ Bits(d)
        BY <1>2, <1>5, <1>8
    <2>2. Differ = Bits(Limit - 1 - d) /\ Limit - 1 - d \in Word
        BY <2>1, NotBits
    <2> HIDE DEF Differ
    <2> QED BY <2>2, WordOfBits
<1> HIDE DEF Differ
<1> QED BY <1>3, <1>4, <1>6, <1>7, <1>8

-----------------------------------------------------------------------------
(* alu_shl, alu_shr and alu_sar: as many rounds as the count says.         *)

\* Two sequences that start at the same place and make the same steps.
LEMMA SameTo ==
    ASSUME NEW n \in Nat, NEW x, NEW w, x[0] = w[0],
           \A k \in 1 .. n : x[k - 1] = w[k - 1] => x[k] = w[k]
    PROVE  x[n] = w[n]
<1> DEFINE Bad == {k \in 0 .. n : x[k] # w[k]}
<1>1. Bad = {}
    <2> SUFFICES ASSUME Bad # {} PROVE FALSE
        OBVIOUS
    <2> DEFINE m == Min(Bad)
    <2>1. m \in Bad /\ \A k \in Bad : m <= k
        <3>1. Bad \subseteq Nat
            OBVIOUS
        <3> HIDE DEF Bad
        <3> QED BY <3>1, MinIsElement
    <2>2. m \in 0 .. n /\ x[m] # w[m]
        BY <2>1
    <2> HIDE DEF m
    <2>3. m # 0
        BY <2>2
    <2>4. m \in 1 .. n /\ m - 1 \in 0 .. n /\ ~(m <= m - 1)
        BY <2>2, <2>3
    <2>5. x[m - 1] = w[m - 1]
        BY <2>1, <2>4
    <2> QED BY <2>2, <2>4, <2>5
<1> QED BY <1>1

\* A power divides in steps.
LEMMA HalfOfQuotient ==
    ASSUME NEW d \in Int, NEW k \in Nat
    PROVE  (d \div 2^k) \div 2 = d \div 2^(k + 1)
<1> DEFINE p == 2^k
           q == d \div p
           r == d % p
           t == q \div 2
           b == q % 2
<1>1. p \in Nat \ {0} /\ 2^(k + 1) = 2 * p
    BY PowerIsNumber, PowerDoubles
<1> HIDE DEF p
<1>2. q \in Int /\ r \in 0 .. p - 1 /\ d = q * p + r
    BY <1>1, DivModInt
<1> HIDE DEF q, r
<1>3. t \in Int /\ b \in {0, 1} /\ q = 2 * t + b
    BY <1>2
<1> HIDE DEF t, b
<1>4. b * p + r \in 0 .. 2 * p - 1 /\ d = t * (2 * p) + (b * p + r)
    BY <1>1, <1>2, <1>3
<1> DEFINE n == 2 * p
           s == b * p + r
<1>5. n \in Nat \ {0} /\ s \in 0 .. n - 1 /\ d = t * n + s
    BY <1>1, <1>4
<1> HIDE DEF n, s
<1>6. (t * n + s) \div n = t
    BY <1>3, <1>5, DivModIntUnique
<1>7. d \div n = t
    BY <1>5, <1>6
<1> QED BY <1>1, <1>7 DEF n, p, q, t

\* The quotient before the first round.
LEMMA QuotientByOne == ASSUME NEW d \in Int PROVE d \div 2^0 = d
<1>1. 2^0 = 1
    OBVIOUS
<1> QED BY <1>1

\* Division makes no natural number larger.
LEMMA QuotientIsSmaller == ASSUME NEW d \in Nat, NEW p \in Nat \ {0} PROVE d \div p \in 0 .. d
<1> DEFINE q == d \div p
           r == d % p
<1>1. q \in Nat /\ r \in Nat /\ d = q * p + r
    BY DivMod
<1> HIDE DEF q, r
<1>2. q * p = q + q * (p - 1) /\ q * (p - 1) \in Nat
    BY <1>1
<1>3. q \in 0 .. d
    BY <1>1, <1>2
<1> QED BY <1>3 DEF q

\* The rounds of alu_shr and alu_sar: half of the number, and the bit that goes out.
Halved(e, cf, n) ==
    LET bit[k \in 0 .. n] == IF k = 0 THEN [x |-> e, c |-> cf]
                             ELSE LET y == bit[k - 1].x IN [x |-> y \div 2, c |-> y % 2]
    IN bit[n]

\* They divide by a power of two, rounding down.
LEMMA HalvedFacts ==
    ASSUME NEW e \in Int, NEW cf \in {0, 1}, NEW n \in Nat
    PROVE  Halved(e, cf, n).x = e \div 2^n /\ Halved(e, cf, n).c \in {0, 1}
<1> DEFINE Step(v) == [x |-> v.x \div 2, c |-> v.x % 2]
           P(w) == w = [k \in 0 .. n |-> IF k = 0 THEN [x |-> e, c |-> cf] ELSE Step(w[k - 1])]
           h == CHOOSE w : P(w)
           Val(k) == e \div 2^k
           v == [k \in 0 .. n |-> [x |-> Val(k), c |-> IF k = 0 THEN cf ELSE Val(k - 1) % 2]]
<1>1. Val(0) = e /\ \A k \in 1 .. n : Val(k) = Val(k - 1) \div 2
    <2>1. ASSUME NEW k \in 1 .. n PROVE Val(k) = Val(k - 1) \div 2
        <3> DEFINE j == k - 1
        <3>1. j \in Nat /\ j + 1 = k
            OBVIOUS
        <3> HIDE DEF j
        <3>2. Val(j) \div 2 = Val(j + 1)
            BY <3>1, HalfOfQuotient
        <3> QED BY <3>1, <3>2 DEF j
    <2> QED BY <2>1, QuotientByOne
<1>2. \A k \in 0 .. n : Val(k) % 2 \in {0, 1}
    <2> TAKE k \in 0 .. n
    <2> DEFINE p == 2^k
    <2>1. p \in Nat \ {0}
        BY PowerIsNumber
    <2> HIDE DEF p
    <2>2. e \div p \in Int
        BY <2>1, DivModInt
    <2> DEFINE q == e \div p
    <2>3. q \in Int
        BY <2>2
    <2> HIDE DEF q
    <2>4. q % 2 \in {0, 1}
        BY <2>3
    <2> QED BY <2>4 DEF q, p
<1> HIDE DEF Val
<1>3. P(v)
    <2>1. \A k \in 0 .. n : v[k] = IF k = 0 THEN [x |-> e, c |-> cf] ELSE Step(v[k - 1])
        <3> TAKE k \in 0 .. n
        <3>1. CASE k = 0
            BY <1>1, <3>1
        <3>2. CASE k # 0
            <4>1. k \in 1 .. n /\ k - 1 \in 0 .. n
                BY <3>2
            <4>2. v[k - 1].x = Val(k - 1)
                BY <4>1
            <4> QED BY <1>1, <3>2, <4>1, <4>2
        <3> QED BY <3>1, <3>2
    <2>2. v = [k \in 0 .. n |-> v[k]]
        OBVIOUS
    <2> HIDE DEF v, Step
    <2> QED BY <2>1, <2>2
<1>4. P(h)
    <2> HIDE DEF P, v
    <2> QED BY <1>3
<1>5. ASSUME NEW x, P(x) PROVE x[n] = v[n]
    <2>1. ASSUME NEW w, P(w)
          PROVE  w[0] = [x |-> e, c |-> cf] /\ \A k \in 1 .. n : w[k] = Step(w[k - 1])
        <3>1. 0 \in 0 .. n /\ \A k \in 1 .. n : k \in 0 .. n /\ k # 0
            OBVIOUS
        <3> HIDE DEF Step
        <3> QED BY <2>1, <3>1
    <2>2. x[0] = v[0] /\ \A k \in 1 .. n : x[k - 1] = v[k - 1] => x[k] = v[k]
        <3> HIDE DEF P, v, Step
        <3> QED BY <1>3, <1>5, <2>1
    <2> HIDE DEF v
    <2> QED BY <2>2, SameTo
<1>6. h[n] = v[n]
    <2> HIDE DEF P, h, v
    <2> QED BY <1>4, <1>5
<1>7. Halved(e, cf, n) = h[n]
    BY DEF Halved
<1>8. v[n].x = Val(n) /\ v[n].c \in {0, 1}
    <2>1. n \in 0 .. n /\ v[n] = [x |-> Val(n), c |-> IF n = 0 THEN cf ELSE Val(n - 1) % 2]
        OBVIOUS
    <2>2. n # 0 => Val(n - 1) % 2 \in {0, 1}
        <3>1. n # 0 => n - 1 \in 0 .. n
            OBVIOUS
        <3> QED BY <1>2, <3>1
    <2> HIDE DEF v
    <2> QED BY <2>1, <2>2
<1> QED BY <1>6, <1>7, <1>8 DEF Val

\* The rounds of alu_shl.
Doubled(e, cf, n) ==
    LET bit[k \in 0 .. n] == IF k = 0 THEN [x |-> e, c |-> cf]
                             ELSE LET y == bit[k - 1].x
                                  IN [x |-> Cut(2 * y, Long), c |-> (y \div 2^(Long - 1)) % 2]
    IN bit[n]

\* They multiply by a power of two and cut the product off.
LEMMA DoubledFacts ==
    ASSUME NEW e \in Word, NEW cf \in {0, 1}, NEW n \in Nat
    PROVE  Doubled(e, cf, n).x = (e * 2^n) % Limit /\ Doubled(e, cf, n).c \in {0, 1}
<1> DEFINE Step(v) == [x |-> Cut(2 * v.x, Long), c |-> (v.x \div 2^(Long - 1)) % 2]
           P(w) == w = [k \in 0 .. n |-> IF k = 0 THEN [x |-> e, c |-> cf] ELSE Step(w[k - 1])]
           h == CHOOSE w : P(w)
           Val(k) == (e * 2^k) % Limit
           v == [k \in 0 .. n |-> [x |-> Val(k),
                                   c |-> IF k = 0 THEN cf ELSE (Val(k - 1) \div 2^(Long - 1)) % 2]]
<1>1. Val(0) = e /\ \A k \in 1 .. n : Val(k) = Cut(2 * Val(k - 1), Long)
    <2>1. ASSUME NEW k \in 1 .. n PROVE Val(k) = Cut(2 * Val(k - 1), Long)
        <3> DEFINE p == 2^(k - 1)
                   m == e * p
                   q == m \div Limit
                   r == m % Limit
        <3>1. p \in Nat \ {0} /\ 2^k = 2 * p
            <4> DEFINE j == k - 1
            <4>1. j \in Nat /\ j + 1 = k
                OBVIOUS
            <4> HIDE DEF j
            <4>2. 2^j \in Nat \ {0} /\ 2^(j + 1) = 2 * 2^j
                BY <4>1, PowerIsNumber, PowerDoubles
            <4> QED BY <4>1, <4>2 DEF j
        <3>2. m \in Int /\ Limit \in Nat \ {0}
            <4> HIDE DEF p
            <4>1. e \in Nat /\ Limit \in Nat \ {0}
                BY LongFacts
            <4> QED BY <3>1, <4>1
        <3> HIDE DEF m
        <3>3. q \in Int /\ r \in Int /\ m = q * Limit + r
            BY <3>2, DivModInt
        <3>4. e * 2^k = 2 * m
            <4>1. e \in Nat
                BY LongFacts
            <4> HIDE DEF p
            <4>2. e * (2 * p) = 2 * (e * p)
                BY <3>1, <4>1
            <4> QED BY <3>1, <4>2 DEF m
        <3> HIDE DEF q, r
        <3>5. 2 * m = 2 * r + (2 * q) * Limit
            BY <3>2, <3>3
        <3>6. (2 * r + (2 * q) * Limit) % Limit = (2 * r) % Limit
            <4>1. 2 * r \in Int /\ 2 * q \in Int
                BY <3>3
            <4> QED BY <3>2, <4>1, ModPlus
        <3>7. Val(k) = (2 * r) % Limit /\ Val(k - 1) = r
            BY <3>4, <3>5, <3>6 DEF r, m
        <3> QED BY <3>7 DEF Cut, Limit
    <2>2. Val(0) = e
        <3>1. 2^0 = 1 /\ e * 1 = e /\ e % Limit = e
            BY LongFacts, SmallMod
        <3> QED BY <3>1
    <2> QED BY <2>1, <2>2
<1>2. \A k \in 0 .. n : (Val(k) \div 2^(Long - 1)) % 2 \in {0, 1}
    <2> TAKE k \in 0 .. n
    <2> DEFINE p == 2^(Long - 1)
               z == Val(k)
    <2>1. p \in Nat \ {0}
        BY LongFacts DEF SignBit
    <2>2. z \in Nat
        <3>1. 2^k \in Nat /\ e \in Nat /\ Limit \in Nat \ {0}
            BY PowerIsNumber, LongFacts
        <3> DEFINE m == e * 2^k
        <3>2. m \in Nat
            BY <3>1
        <3> HIDE DEF m
        <3>3. m % Limit \in Nat
            BY <3>1, <3>2
        <3> QED BY <3>3 DEF m
    <2> HIDE DEF p, z
    <2>3. z \div p \in Nat
        BY <2>1, <2>2, DivMod
    <2> DEFINE q == z \div p
    <2> HIDE DEF q
    <2>4. q % 2 \in {0, 1}
        BY <2>3 DEF q
    <2> QED BY <2>4 DEF q, p, z
<1> HIDE DEF Val
<1>3. P(v)
    <2>1. \A k \in 0 .. n : v[k] = IF k = 0 THEN [x |-> e, c |-> cf] ELSE Step(v[k - 1])
        <3> TAKE k \in 0 .. n
        <3>1. CASE k = 0
            BY <1>1, <3>1
        <3>2. CASE k # 0
            <4>1. k \in 1 .. n /\ k - 1 \in 0 .. n
                BY <3>2
            <4>2. v[k - 1].x = Val(k - 1)
                BY <4>1
            <4> QED BY <1>1, <3>2, <4>1, <4>2
        <3> QED BY <3>1, <3>2
    <2>2. v = [k \in 0 .. n |-> v[k]]
        OBVIOUS
    <2> HIDE DEF v, Step
    <2> QED BY <2>1, <2>2
<1>4. P(h)
    <2> HIDE DEF P, v
    <2> QED BY <1>3
<1>5. ASSUME NEW x, P(x) PROVE x[n] = v[n]
    <2>1. ASSUME NEW w, P(w)
          PROVE  w[0] = [x |-> e, c |-> cf] /\ \A k \in 1 .. n : w[k] = Step(w[k - 1])
        <3>1. 0 \in 0 .. n /\ \A k \in 1 .. n : k \in 0 .. n /\ k # 0
            OBVIOUS
        <3> HIDE DEF Step
        <3> QED BY <2>1, <3>1
    <2>2. x[0] = v[0] /\ \A k \in 1 .. n : x[k - 1] = v[k - 1] => x[k] = v[k]
        <3> HIDE DEF P, v, Step
        <3> QED BY <1>3, <1>5, <2>1
    <2> HIDE DEF v
    <2> QED BY <2>2, SameTo
<1>6. h[n] = v[n]
    <2> HIDE DEF P, h, v
    <2> QED BY <1>4, <1>5
<1>7. Doubled(e, cf, n) = h[n]
    BY DEF Doubled
<1>8. v[n].x = Val(n) /\ v[n].c \in {0, 1}
    <2>1. n \in 0 .. n
          /\ v[n] = [x |-> Val(n), c |-> IF n = 0 THEN cf ELSE (Val(n - 1) \div 2^(Long - 1)) % 2]
        OBVIOUS
    <2>2. n # 0 => (Val(n - 1) \div 2^(Long - 1)) % 2 \in {0, 1}
        <3>1. n # 0 => n - 1 \in 0 .. n
            OBVIOUS
        <3> QED BY <1>2, <3>1
    <2> HIDE DEF v
    <2> QED BY <2>1, <2>2
<1> QED BY <1>6, <1>7, <1>8 DEF Val

\* What a shift leaves, when its result is a word.
LEMMA ShiftedFacts ==
    ASSUME NEW f \in Flags, NEW r \in Word, NEW cf \in {0, 1}, NEW of \in {0, 1}
    PROVE  Shifted(f, r, Long, cf, of).val = r /\ Shifted(f, r, Long, cf, of).fl \in Flags
<1>1. Sets([SZP(f, r, Long) EXCEPT !.CF = cf, !.OF = of], r, cf, of)
    BY FlagsReplaced
<1> QED BY <1>1 DEF Shifted, Sets

\* The bit that a shift to the left pushes out.
LEMMA TopBit == ASSUME NEW r \in Word PROVE (r \div 2^(Long - 1)) % 2 \in {0, 1}
<1> DEFINE p == 2^(Long - 1)
           q == r \div p
<1>1. p \in Nat \ {0} /\ r \in Nat
    BY LongFacts DEF SignBit
<1> HIDE DEF p
<1>2. q \in Nat
    BY <1>1, DivMod
<1> HIDE DEF q
<1>3. q % 2 \in {0, 1}
    BY <1>2
<1> QED BY <1>3 DEF q, p

\* The three shifts, for a number and a count that are words.
LEMMA ShiftFacts ==
    ASSUME NEW f \in Flags, NEW n \in Word, NEW d \in Word
    PROVE  /\ AluShl(f, n, d, Long).val = (d * 2^n) % Limit /\ AluShl(f, n, d, Long).fl \in Flags
           /\ AluShr(f, n, d, Long).val = d \div 2^n /\ AluShr(f, n, d, Long).fl \in Flags
           /\ d \div 2^n \in Word /\ (d * 2^n) % Limit \in Word
           /\ AluSar(f, n, d, Long).val = Cut(Signed(d, Long) \div 2^n, Long)
           /\ AluSar(f, n, d, Long).fl \in Flags
           /\ Cut(Signed(d, Long) \div 2^n, Long) \in Word
<1>1. /\ Cut(n, Long) = n /\ Cut(d, Long) = d /\ n \in Nat /\ d \in Nat /\ d \in Int
      /\ Signed(d, Long) \in Int /\ 2^n \in Nat \ {0} /\ Limit \in Nat \ {0}
    <2>1. Cut(n, Long) = n /\ Cut(d, Long) = d
        BY LongFacts, WordFacts
    <2>2. n \in Nat /\ d \in Nat /\ Limit \in Nat \ {0}
        BY LongFacts
    <2>3. Signed(d, Long) \in Int
        BY RegisterFacts
    <2> QED BY <2>1, <2>2, <2>3, PowerIsNumber
<1>2. f.CF \in {0, 1} /\ f.OF \in {0, 1}
    BY DEF Flags, Arithmetic
<1> DEFINE e == Signed(d, Long)
           p == 2^n
           l == Doubled(d, f.CF, n)
           r == Halved(d, f.CF, n)
           a == Halved(e, f.CF, n)
           of(x) == (x \div 2^(Long - 1)) % 2
<1>3. /\ l.x = (d * p) % Limit /\ l.c \in {0, 1}
      /\ r.x = d \div p /\ r.c \in {0, 1}
      /\ a.x = e \div p /\ a.c \in {0, 1}
    <2> DEFINE cf == f.CF
    <2>1. cf \in {0, 1} /\ n \in Nat /\ d \in Int /\ e \in Int
        BY <1>1, <1>2
    <2> HIDE DEF cf, e
    <2>2. Doubled(d, cf, n).x = (d * 2^n) % Limit /\ Doubled(d, cf, n).c \in {0, 1}
        BY <2>1, DoubledFacts
    <2>3. Halved(d, cf, n).x = d \div 2^n /\ Halved(d, cf, n).c \in {0, 1}
        BY <2>1, HalvedFacts
    <2>4. Halved(e, cf, n).x = e \div 2^n /\ Halved(e, cf, n).c \in {0, 1}
        BY <2>1, HalvedFacts
    <2> QED BY <2>2, <2>3, <2>4 DEF cf, e
<1>4. /\ AluShl(f, n, d, Long)
          = Shifted(f, l.x, Long, l.c, IF n = 1 THEN Bit(of(l.x) # l.c) ELSE f.OF)
      /\ AluShr(f, n, d, Long) = Shifted(f, r.x, Long, r.c, IF n = 1 THEN of(r.x) ELSE f.OF)
      /\ AluSar(f, n, d, Long) = Shifted(f, Cut(a.x, Long), Long, a.c, IF n = 1 THEN 0 ELSE f.OF)
    <2>1. AluShl(f, n, d, Long)
          = Shifted(f, l.x, Long, l.c, IF n = 1 THEN Bit(of(l.x) # l.c) ELSE f.OF)
        BY <1>1 DEF AluShl, Doubled
    <2>2. AluShr(f, n, d, Long) = Shifted(f, r.x, Long, r.c, IF n = 1 THEN of(r.x) ELSE f.OF)
        BY <1>1 DEF AluShr, Halved
    <2>3. AluSar(f, n, d, Long) = Shifted(f, Cut(a.x, Long), Long, a.c, IF n = 1 THEN 0 ELSE f.OF)
        BY <1>1 DEF AluSar, Halved
    <2> QED BY <2>1, <2>2, <2>3
<1> HIDE DEF l, r, a, p, e
<1>5. (d * p) % Limit \in Word /\ d \div p \in Word /\ Cut(e \div p, Long) \in Word
    <2>1. d * p \in Int
        BY <1>1 DEF p
    <2>2. (d * p) % Limit \in 0 .. Limit - 1
        <3> DEFINE m == d * p
        <3> HIDE DEF m
        <3>1. m % Limit \in 0 .. Limit - 1
            BY <1>1, <2>1, DivModInt DEF m
        <3> QED BY <3>1 DEF m
    <2>3. d \div p \in 0 .. d
        BY <1>1, QuotientIsSmaller DEF p
    <2>4. e \div p \in Int
        BY <1>1, DivModInt DEF e, p
    <2>5. Cut(e \div p, Long) \in Word
        BY <2>4, LongFacts, CutIsWord
    <2>6. d \div p \in Word
        BY <1>1, <2>3, LongFacts
    <2> QED BY <2>2, <2>5, <2>6, LongFacts
<1>6. of(l.x) \in {0, 1} /\ of(r.x) \in {0, 1} /\ Bit(of(l.x) # l.c) \in {0, 1}
    <2>1. l.x \in Word /\ r.x \in Word
        BY <1>3, <1>5
    <2>2. of(l.x) \in {0, 1} /\ of(r.x) \in {0, 1}
        BY <2>1, TopBit
    <2> QED BY <2>2 DEF Bit
<1> DEFINE ol == IF n = 1 THEN Bit(of(l.x) # l.c) ELSE f.OF
           orr == IF n = 1 THEN of(r.x) ELSE f.OF
           oa == IF n = 1 THEN 0 ELSE f.OF
<1>7. ol \in {0, 1} /\ orr \in {0, 1} /\ oa \in {0, 1}
    <2> HIDE DEF of
    <2> QED BY <1>2, <1>6
<1>8. /\ AluShl(f, n, d, Long) = Shifted(f, l.x, Long, l.c, ol)
      /\ AluShr(f, n, d, Long) = Shifted(f, r.x, Long, r.c, orr)
      /\ AluSar(f, n, d, Long) = Shifted(f, Cut(a.x, Long), Long, a.c, oa)
    BY <1>4
<1> HIDE DEF ol, orr, oa
<1>9. l.x \in Word /\ r.x \in Word /\ Cut(a.x, Long) \in Word
    BY <1>3, <1>5
<1>10. AluShl(f, n, d, Long).val = l.x /\ AluShl(f, n, d, Long).fl \in Flags
    BY <1>3, <1>7, <1>8, <1>9, ShiftedFacts
<1>11. AluShr(f, n, d, Long).val = r.x /\ AluShr(f, n, d, Long).fl \in Flags
    BY <1>3, <1>7, <1>8, <1>9, ShiftedFacts
<1>12. AluSar(f, n, d, Long).val = Cut(a.x, Long) /\ AluSar(f, n, d, Long).fl \in Flags
    BY <1>3, <1>7, <1>8, <1>9, ShiftedFacts
<1> QED BY <1>3, <1>5, <1>10, <1>11, <1>12 DEF p, e

-----------------------------------------------------------------------------
(* Signed numbers and numbers of twice the width.                          *)

\* Signed numbers of a size stand for themselves, and what is cut off does not matter.
LEMMA SignedFacts ==
    ASSUME NEW size \in Nat \ {0}, NEW x \in Int
    PROVE  /\ Signed(x, size) \in Int
           /\ Signed(x, size) \in -2^(size - 1) .. 2^(size - 1) - 1
           /\ x \in -2^(size - 1) .. 2^(size - 1) - 1 => Signed(x, size) = x
           /\ Cut(x, size) \in 0 .. 2^size - 1
           /\ Signed(Cut(x, size), size) = Signed(x, size)
           /\ Cut(Signed(x, size), size) = Cut(x, size)
<1> DEFINE N == 2^size
           h == 2^(size - 1)
           q == x \div N
           r == x % N
<1>1. h \in Nat \ {0} /\ N = 2 * h
    <2> DEFINE j == size - 1
    <2>1. j \in Nat /\ j + 1 = size
        OBVIOUS
    <2> HIDE DEF j
    <2>2. 2^j \in Nat \ {0} /\ 2^(j + 1) = 2 * 2^j
        BY <2>1, PowerIsNumber, PowerDoubles
    <2> QED BY <2>1, <2>2 DEF j
<1>2. Cut(x, size) = r /\ Signed(x, size) = IF r < h THEN r ELSE r - N
    BY DEF Cut, Signed, Positive
<1> HIDE DEF N, h
<1>3. N \in Nat \ {0} /\ q \in Int /\ r \in 0 .. N - 1 /\ x = q * N + r
    <2>1. N \in Nat \ {0}
        BY <1>1
    <2> QED BY <2>1, DivModInt
<1>4. r % N = r
    <2> HIDE DEF r
    <2> QED BY <1>3, SmallMod
<1>5. Signed(r, size) = IF r < h THEN r ELSE r - N
    BY <1>4 DEF Cut, Signed, Positive, N, h
<1> HIDE DEF q, r
<1>6. Signed(x, size) \in Int /\ Signed(x, size) \in -h .. h - 1
    BY <1>1, <1>2, <1>3
<1>7. (IF r < h THEN r ELSE r - N) % N = r
    <2>1. CASE r < h
        BY <1>4, <2>1
    <2>2. CASE ~(r < h)
        <3>1. r + (-1) * N = r - N /\ r \in Int /\ -1 \in Int
            BY <1>3
        <3>2. (r + (-1) * N) % N = r % N
            BY <1>3, <3>1, ModPlus
        <3> QED BY <1>4, <2>2, <3>1, <3>2
    <2> QED BY <2>1, <2>2
<1>8. Cut(Signed(x, size), size) = r
    BY <1>2, <1>7 DEF Cut, N
<1>9. ASSUME x \in -h .. h - 1 PROVE Signed(x, size) = x
    <2>1. CASE x >= 0
        <3>1. x \in 0 .. N - 1
            BY <1>1, <1>9, <2>1
        <3>2. r = x
            BY <1>3, <3>1, SmallMod DEF r
        <3> QED BY <1>1, <1>2, <1>9, <3>2
    <2>2. CASE x < 0
        <3>1. x \in -N .. -1
            BY <1>1, <1>9, <2>2
        <3>2. r = x + N
            BY <1>3, <3>1, WrapOnce DEF r
        <3> QED BY <1>1, <1>2, <1>9, <3>2
    <2> QED BY <1>1, <1>9, <2>1, <2>2
<1> QED BY <1>2, <1>3, <1>5, <1>6, <1>8, <1>9 DEF N, h

\* The limits of numbers of twice the width.
LEMMA WidePower ==
    /\ 2 * Long \in Nat \ {0} /\ 2^(2 * Long) = Limit * Limit
    /\ 2^(2 * Long - 1) = SignBit(Long) * Limit
    /\ Limit * Limit \in Nat \ {0} /\ SignBit(Long) * Limit \in Nat \ {0}
    /\ Limit * Limit = 2 * (SignBit(Long) * Limit)
<1>1. Long \in Nat \ {0} /\ Long - 1 \in Nat /\ Long + Long = 2 * Long
      /\ Long - 1 + Long = 2 * Long - 1
    BY BitsAssumption
<1>2. 2^(Long + Long) = 2^Long * 2^Long
    BY <1>1, PowerOfSum
<1>3. 2^(Long - 1 + Long) = 2^(Long - 1) * 2^Long
    <2> DEFINE j == Long - 1
    <2> HIDE DEF j
    <2>1. 2^(j + Long) = 2^j * 2^Long
        BY <1>1, PowerOfSum DEF j
    <2> QED BY <2>1 DEF j
<1>4. 2^(2 * Long) = Limit * Limit /\ 2^(2 * Long - 1) = SignBit(Long) * Limit
    BY <1>1, <1>2, <1>3 DEF Limit, SignBit
<1> DEFINE h == SignBit(Long)
<1>5. h \in Nat \ {0} /\ Limit = 2 * h /\ Limit \in Nat \ {0}
    BY LongFacts
<1> HIDE DEF h
<1>6. Limit * Limit = 2 * (h * Limit)
    BY <1>5
<1>7. h * Limit \in Nat /\ h * Limit # 0
    <2>1. h * Limit >= h /\ h * Limit \in Nat
        <3>1. h * Limit = h + h * (Limit - 1) /\ h * (Limit - 1) \in Nat
            BY <1>5
        <3> QED BY <1>5, <3>1
    <2> QED BY <1>5, <2>1
<1> QED BY <1>1, <1>4, <1>6, <1>7 DEF h

\* The order of two halves.
LEMMA HalvesOrder ==
    ASSUME NEW x \in Int, NEW y \in Int, NEW m \in Word, NEW n \in Word
    PROVE  /\ x < y => x * Limit + m < y * Limit + n
           /\ x * Limit + m \in Int
           /\ x >= 0 <=> x * Limit + m >= 0
<1>1. Limit \in Nat \ {0} /\ m \in 0 .. Limit - 1 /\ n \in 0 .. Limit - 1
    BY LongFacts
<1>2. x * Limit \in Int /\ y * Limit \in Int
    BY <1>1
<1>3. x < y => x * Limit + Limit <= y * Limit
    <2> SUFFICES ASSUME x < y PROVE x * Limit + Limit <= y * Limit
        OBVIOUS
    <2>1. y * Limit = x * Limit + Limit + (y - x - 1) * Limit
        BY <1>1
    <2>2. (y - x - 1) * Limit >= 0 /\ (y - x - 1) * Limit \in Int
        BY <1>1
    <2> QED BY <1>1, <1>2, <2>1, <2>2
<1>4. x >= 0 => x * Limit >= 0
    BY <1>1
<1>5. x < 0 => x * Limit + Limit <= 0
    <2> SUFFICES ASSUME x < 0 PROVE x * Limit + Limit <= 0
        OBVIOUS
    <2>1. x * Limit + Limit = -((-x - 1) * Limit)
        BY <1>1
    <2>2. (-x - 1) * Limit >= 0 /\ (-x - 1) * Limit \in Int
        BY <1>1
    <2> QED BY <1>1, <1>2, <2>1, <2>2
<1> QED BY <1>1, <1>2, <1>3, <1>4, <1>5

\* A number of twice the width, signed or not, from its halves.
LEMMA WideFacts ==
    ASSUME NEW hi \in Word, NEW lo \in Word
    PROVE  /\ Wide(hi, lo) = hi * Limit + lo
           /\ Wide(hi, lo) \in Nat /\ Wide(hi, lo) \in 0 .. Limit * Limit - 1
           /\ SignedWide(hi, lo) = Signed(hi, Long) * Limit + lo
           /\ SignedWide(hi, lo) \in Int
<1> DEFINE h == SignBit(Long)
           v == hi * Limit + lo
           H == h * Limit
           NN == Limit * Limit
           s == Signed(hi, Long)
<1>1. /\ Limit \in Nat \ {0} /\ h \in Nat \ {0} /\ Limit = 2 * h /\ hi \in 0 .. Limit - 1
      /\ lo \in 0 .. Limit - 1 /\ s = (IF hi < h THEN hi ELSE hi - Limit) /\ s \in Int
    BY LongFacts, RegisterFacts
<1>2. H \in Nat \ {0} /\ NN = 2 * H /\ NN \in Nat \ {0}
    BY WidePower
<1>3. v \in Nat /\ v <= NN - 1
    <2>1. hi * Limit \in Nat /\ (Limit - 1 - hi) * Limit \in Nat
        BY <1>1
    <2>2. NN = hi * Limit + (Limit - 1 - hi) * Limit + Limit
        BY <1>1
    <2> HIDE DEF NN
    <2> QED BY <1>1, <1>2, <2>1, <2>2
<1>4. hi < h <=> v < H
    <2>1. hi \in Int /\ h \in Int /\ 0 \in Word
        BY <1>1, LongFacts
    <2> HIDE DEF h
    <2>2. hi < h => v < h * Limit + 0
        BY <2>1, HalvesOrder
    <2>3. h < hi => h * Limit + 0 < v
        BY <2>1, HalvesOrder
    <2>4. h = hi => v >= H
        BY <1>1
    <2> HIDE DEF v
    <2> QED BY <1>1, <1>2, <1>3, <2>2, <2>3, <2>4
<1>5. Wide(hi, lo) = v
    BY DEF Wide, L, Limit
<1>6. SignedWide(hi, lo) = IF v < H THEN v ELSE v - NN
    <2>1. v % NN = v
        <3> HIDE DEF v, NN
        <3>1. v \in 0 .. NN - 1
            BY <1>2, <1>3
        <3> QED BY <1>2, <3>1, SmallMod
    <2>2. Cut(v, 2 * Long) = v
        BY <2>1, WidePower DEF Cut
    <2>3. Positive(v, 2 * Long) <=> v < H
        BY <2>2, WidePower DEF Positive
    <2>4. Signed(v, 2 * Long) = IF v < H THEN v ELSE v - NN
        BY <2>2, <2>3, WidePower DEF Signed
    <2> QED BY <1>5, <2>4 DEF SignedWide, L
<1>7. (hi - Limit) * Limit = hi * Limit - NN
    BY <1>1
<1>8. SignedWide(hi, lo) = s * Limit + lo
    <2>1. CASE hi < h
        BY <1>1, <1>4, <1>6, <2>1
    <2>2. CASE ~(hi < h)
        <3>1. hi * Limit \in Nat
            BY <1>1
        <3>2. v - NN = (hi - Limit) * Limit + lo
            <4> HIDE DEF NN
            <4> QED BY <1>1, <1>2, <1>7, <3>1
        <3> QED BY <1>1, <1>4, <1>6, <2>2, <3>2
    <2> QED BY <2>1, <2>2
<1>9. s * Limit + lo \in Int
    <2> HIDE DEF s
    <2> QED BY <1>1
<1>10. v \in 0 .. NN - 1
    <2> HIDE DEF v, NN
    <2> QED BY <1>2, <1>3
<1> QED BY <1>3, <1>5, <1>8, <1>9, <1>10

-----------------------------------------------------------------------------
(* What the halves make of numbers of twice the width.                     *)

\* alu_add of the low halves and alu_adc of the high ones add the numbers.
LEMMA WideSum ==
    ASSUME NEW a \in Word, NEW b \in Word, NEW c \in Word, NEW d \in Word, NEW k \in {0, 1},
           k = 1 <=> b + d >= Limit
    PROVE  LET lo == AddValue(d, b, Long)
               t == c + a + k
               hi == IF t < Limit THEN t ELSE t - Limit
               h == SignBit(Long)
               sum == Wide(a, b) + Wide(c, d)
               ssum == SignedWide(a, b) + SignedWide(c, d)
           IN lo \in Word /\ hi \in Word =>
                  /\ Wide(hi, lo) = sum % 2^(2 * Long)
                  /\ t >= Limit <=> sum >= 2^(2 * Long)
                  /\ (c < h <=> a < h) /\ ~(c < h <=> hi < h) <=> ssum # Signed(ssum, 2 * Long)
<1> DEFINE N == Limit
           h == SignBit(Long)
           lo == AddValue(d, b, Long)
           t == c + a + k
           hi == IF t < N THEN t ELSE t - N
           sum == Wide(a, b) + Wide(c, d)
           ssum == SignedWide(a, b) + SignedWide(c, d)
           NN == N * N
           H == h * N
<1> SUFFICES ASSUME lo \in Word, hi \in Word
             PROVE  /\ Wide(hi, lo) = sum % 2^(2 * Long)
                    /\ t >= N <=> sum >= 2^(2 * Long)
                    /\ (c < h <=> a < h) /\ ~(c < h <=> hi < h) <=> ssum # Signed(ssum, 2 * Long)
    OBVIOUS
<1>1. /\ N \in Nat \ {0} /\ h \in Nat \ {0} /\ N = 2 * h
      /\ a \in 0 .. N - 1 /\ b \in 0 .. N - 1 /\ c \in 0 .. N - 1 /\ d \in 0 .. N - 1
    BY LongFacts
<1>2. /\ 2^(2 * Long) = NN /\ 2^(2 * Long - 1) = H /\ NN \in Nat \ {0} /\ H \in Nat /\ NN = 2 * H
      /\ 2 * Long \in Nat \ {0}
    BY WidePower
<1>3. lo = b + d - k * N
    <2>1. lo = IF d + b < N THEN d + b ELSE d + b - N
        BY DEF AddValue, Limit
    <2>2. b + d = d + b /\ 0 * N = 0 /\ 1 * N = N /\ b + d - 0 = b + d
        BY <1>1
    <2> HIDE DEF lo, N
    <2>3. CASE k = 0
        <3>1. b + d < N
            BY <1>1, <2>2, <2>3 DEF N
        <3> QED BY <1>1, <2>1, <2>2, <2>3, <3>1
    <2>4. CASE k = 1
        <3>1. ~(b + d < N)
            BY <1>1, <2>2, <2>4 DEF N
        <3> QED BY <1>1, <2>1, <2>2, <2>4, <3>1
    <2> QED BY <2>3, <2>4
<1>4. /\ Wide(a, b) = a * N + b /\ Wide(c, d) = c * N + d /\ Wide(hi, lo) = hi * N + lo
      /\ Wide(hi, lo) \in 0 .. NN - 1
      /\ SignedWide(a, b) = Signed(a, Long) * N + b /\ SignedWide(c, d) = Signed(c, Long) * N + d
    BY WideFacts
<1>5. PICK m \in {0, 1} : hi = t - m * N /\ (m = 1 <=> t >= N)
    <2>1. CASE t < N
        <3>1. hi = t - 0 * N /\ t \in Int
            BY <1>1, <2>1
        <3> HIDE DEF hi, t
        <3> QED BY <1>1, <2>1, <3>1
    <2>2. CASE ~(t < N)
        <3>1. hi = t - 1 * N /\ t \in Int
            BY <1>1, <2>2
        <3> HIDE DEF hi, t
        <3> QED BY <1>1, <2>2, <3>1
    <2> QED BY <2>1, <2>2
<1>6. sum = Wide(hi, lo) + m * NN
    <2>1. hi * N = c * N + a * N + k * N - m * NN
        BY <1>1, <1>5
    <2>2. c * N \in Int /\ a * N \in Int /\ k * N \in Int /\ m * NN \in Int
        BY <1>1
    <2> HIDE DEF NN, hi, lo
    <2> QED BY <1>1, <1>3, <1>4, <2>1, <2>2
<1> DEFINE w == Wide(hi, lo)
<1> HIDE DEF w, sum, NN
<1>7. sum % NN = w /\ (t >= N <=> sum >= NN)
    <2>1. w \in 0 .. NN - 1 /\ w \in Int /\ m \in Int /\ sum = w + m * NN
        BY <1>2, <1>4, <1>6 DEF w
    <2>2. (w + m * NN) % NN = w
        BY <1>2, <2>1, ModPlus, SmallMod
    <2>3. m * NN = IF m = 1 THEN NN ELSE 0
        BY <1>2
    <2>4. m = 1 <=> sum >= NN
        BY <1>2, <2>1, <2>3
    <2> QED BY <1>5, <2>1, <2>2, <2>4
<1> DEFINE sa == Signed(a, Long)
           sc == Signed(c, Long)
           st == sa + sc + k
<1>8. /\ sa = (IF a < h THEN a ELSE a - N) /\ sc = (IF c < h THEN c ELSE c - N)
      /\ sa \in Int /\ sc \in Int
    BY RegisterFacts
<1> HIDE DEF sa, sc
<1>9. ssum = st * N + lo
    <2>1. st * N = sa * N + sc * N + k * N
        BY <1>1, <1>8
    <2>2. sa * N \in Int /\ sc * N \in Int /\ k * N \in Int
        BY <1>1, <1>8
    <2> HIDE DEF lo, st
    <2> QED BY <1>1, <1>3, <1>4, <2>1, <2>2 DEF sa, sc
<1>10. st \in -h .. h - 1 <=> ~((c < h <=> a < h) /\ ~(c < h <=> hi < h))
    BY <1>1, <1>8
<1>11. st \in -h .. h - 1 <=> ssum \in -H .. H - 1
    <2>1. st \in Int /\ h \in Int /\ -h \in Int /\ 0 \in Word /\ ssum \in Int
        <3>1. st \in Int
            BY <1>1, <1>8
        <3>2. h \in Int /\ -h \in Int /\ 0 \in Word
            BY <1>1, LongFacts
        <3> HIDE DEF st, lo, ssum
        <3>3. ssum \in Int
            BY <1>9, <3>1, HalvesOrder
        <3> QED BY <3>1, <3>2, <3>3
    <2>2. H = h * N + 0 /\ -H = (-h) * N + 0
        BY <1>1
    <2> HIDE DEF st, lo, H, h
    <2>3. st < h => ssum < H
        BY <1>9, <2>1, <2>2, HalvesOrder
    <2>4. h < st => H < ssum
        BY <1>9, <2>1, <2>2, HalvesOrder
    <2>5. st < -h => ssum < -H
        BY <1>9, <2>1, <2>2, HalvesOrder
    <2>6. -h < st => -H < ssum
        BY <1>9, <2>1, <2>2, HalvesOrder
    <2>7. (h = st => H <= ssum) /\ (st = -h => -H <= ssum)
        <3>1. lo \in Nat
            BY LongFacts
        <3>2. H \in Int /\ -H \in Int
            BY <1>2
        <3> DEFINE mh == -h
                   mH == -H
        <3>3. ASSUME h = st PROVE H <= ssum
            <4>1. ssum = h * N + lo /\ H = h * N
                BY <1>9, <2>2, <3>3 DEF H
            <4> QED BY <3>1, <3>2, <4>1
        <3>4. ASSUME st = mh PROVE mH <= ssum
            <4>1. ssum = mh * N + lo
                BY <1>9, <3>4
            <4>2. mH = mh * N + 0 /\ mH \in Int
                BY <2>2, <3>2
            <4> HIDE DEF mh, mH
            <4>3. mh \in Int
                BY <2>1 DEF mh
            <4>4. mh * N \in Int
                BY <1>1, <4>3
            <4> QED BY <3>1, <4>1, <4>2, <4>4
        <3> QED BY <3>3, <3>4
    <2> QED BY <1>2, <2>1, <2>3, <2>4, <2>5, <2>6, <2>7
<1>12. ssum \in Int
    <2>1. st \in Int
        BY <1>1, <1>8
    <2> HIDE DEF st, lo
    <2> QED BY <1>9, <2>1, HalvesOrder
<1>13. ssum \in -H .. H - 1 <=> ssum = Signed(ssum, 2 * Long)
    <2> HIDE DEF ssum, H
    <2>1. /\ Signed(ssum, 2 * Long) \in -H .. H - 1
          /\ ssum \in -H .. H - 1 => Signed(ssum, 2 * Long) = ssum
        BY <1>2, <1>12, SignedFacts
    <2> QED BY <2>1
<1> QED BY <1>2, <1>7, <1>10, <1>11, <1>13 DEF w

\* The difference and, from its borrow and sign, the order.
LEMMA WideDifference ==
    ASSUME NEW a \in Word, NEW b \in Word, NEW c \in Word, NEW d \in Word, NEW k \in {0, 1},
           k = 1 <=> b < d
    PROVE  LET lo == SubValue(b, d, Long)
               t == a - c - k
               hi == IF t >= 0 THEN t ELSE t + Limit
               h == SignBit(Long)
           IN lo \in Word /\ hi \in Word =>
                  /\ Wide(hi, lo) = (Wide(a, b) - Wide(c, d)) % 2^(2 * Long)
                  /\ t < 0 <=> Wide(a, b) < Wide(c, d)
                  /\ (hi >= h <=> ~(~(a < h <=> c < h) /\ ~(a < h <=> hi < h)))
                        <=> SignedWide(a, b) < SignedWide(c, d)
<1> DEFINE N == Limit
           h == SignBit(Long)
           lo == SubValue(b, d, Long)
           t == a - c - k
           hi == IF t >= 0 THEN t ELSE t + N
           dif == Wide(a, b) - Wide(c, d)
           sdif == SignedWide(a, b) - SignedWide(c, d)
           NN == N * N
<1> SUFFICES ASSUME lo \in Word, hi \in Word
             PROVE  /\ Wide(hi, lo) = dif % 2^(2 * Long)
                    /\ t < 0 <=> Wide(a, b) < Wide(c, d)
                    /\ (hi >= h <=> ~(~(a < h <=> c < h) /\ ~(a < h <=> hi < h)))
                          <=> SignedWide(a, b) < SignedWide(c, d)
    OBVIOUS
<1>1. /\ N \in Nat \ {0} /\ h \in Nat \ {0} /\ N = 2 * h
      /\ a \in 0 .. N - 1 /\ b \in 0 .. N - 1 /\ c \in 0 .. N - 1 /\ d \in 0 .. N - 1
    BY LongFacts
<1>2. 2^(2 * Long) = NN /\ NN \in Nat \ {0}
    BY WidePower
<1>3. lo = b - d + k * N
    BY <1>1 DEF SubValue, Limit
<1>4. /\ Wide(a, b) = a * N + b /\ Wide(c, d) = c * N + d /\ Wide(hi, lo) = hi * N + lo
      /\ Wide(hi, lo) \in 0 .. NN - 1 /\ Wide(a, b) \in Int /\ Wide(c, d) \in Int
      /\ SignedWide(a, b) = Signed(a, Long) * N + b /\ SignedWide(c, d) = Signed(c, Long) * N + d
      /\ SignedWide(a, b) \in Int /\ SignedWide(c, d) \in Int
    BY WideFacts
<1>5. PICK m \in {0, 1} : hi = t + m * N /\ (m = 1 <=> t < 0)
    <2>1. CASE t >= 0
        <3>1. hi = t + 0 * N /\ t \in Int
            BY <1>1, <2>1
        <3> HIDE DEF hi, t
        <3> QED BY <1>1, <2>1, <3>1
    <2>2. CASE ~(t >= 0)
        <3>1. hi = t + 1 * N /\ t \in Int
            BY <1>1, <2>2
        <3> HIDE DEF hi, t
        <3> QED BY <1>1, <2>2, <3>1
    <2> QED BY <2>1, <2>2
<1>6. dif = t * N + lo /\ Wide(hi, lo) = dif + m * NN /\ dif \in Int
    <2>1. t * N = a * N - c * N - k * N /\ t \in Int
        BY <1>1
    <2>2. c * N \in Int /\ a * N \in Int /\ k * N \in Int
        BY <1>1
    <2> HIDE DEF hi, lo, t
    <2>3. hi * N = t * N + m * NN
        BY <1>1, <1>5, <2>1
    <2>4. m * NN \in Int
        BY <1>2
    <2> DEFINE w0 == Wide(hi, lo)
               v0 == Wide(a, b)
               x0 == Wide(c, d)
               aN == a * N
               cN == c * N
               kN == k * N
               tN == t * N
               hN == hi * N
               mN == m * NN
    <2>5. /\ w0 = hN + lo /\ v0 = aN + b /\ x0 = cN + d /\ lo = b - d + kN
          /\ tN = aN - cN - kN /\ hN = tN + mN
        BY <1>3, <1>4, <2>1, <2>3
    <2>6. aN \in Int /\ cN \in Int /\ kN \in Int /\ mN \in Int /\ b \in Int /\ d \in Int
        BY <1>1, <2>2, <2>4
    <2> HIDE DEF aN, cN, kN, tN, hN, mN, w0, v0, x0
    <2>7. v0 - x0 = tN + lo /\ w0 = v0 - x0 + mN /\ v0 - x0 \in Int
        BY <2>5, <2>6
    <2> QED BY <2>7 DEF w0, v0, x0, tN, mN
<1> DEFINE w == Wide(hi, lo)
<1>7. dif % NN = w
    <2> HIDE DEF w, dif, NN
    <2>1. w \in 0 .. NN - 1 /\ w \in Int /\ m \in Int /\ w = dif + m * NN
        BY <1>2, <1>4, <1>6 DEF w
    <2>2. (dif + m * NN) % NN = dif % NN
        BY <1>2, <1>6, <2>1, ModPlus
    <2> QED BY <1>2, <2>1, <2>2, SmallMod
<1>8. t < 0 <=> dif < 0
    <2>1. t \in Int
        BY <1>1
    <2> HIDE DEF t, dif, lo
    <2>2. t >= 0 <=> dif >= 0
        BY <1>6, <2>1, HalvesOrder
    <2> QED BY <1>6, <2>1, <2>2
<1> DEFINE sa == Signed(a, Long)
           sc == Signed(c, Long)
           st == sa - sc - k
<1>9. /\ sa = (IF a < h THEN a ELSE a - N) /\ sc = (IF c < h THEN c ELSE c - N)
      /\ sa \in Int /\ sc \in Int
    BY RegisterFacts
<1> HIDE DEF sa, sc
<1>10. sdif = st * N + lo
    <2>1. st * N = sa * N - sc * N - k * N
        BY <1>1, <1>9
    <2>2. sa * N \in Int /\ sc * N \in Int /\ k * N \in Int
        BY <1>1, <1>9
    <2> HIDE DEF lo, st
    <2> QED BY <1>1, <1>3, <1>4, <2>1, <2>2 DEF sa, sc
<1>11. st < 0 <=> (hi >= h <=> ~(~(a < h <=> c < h) /\ ~(a < h <=> hi < h)))
    BY <1>1, <1>9
<1>12. st < 0 <=> sdif < 0
    <2>1. st \in Int
        BY <1>1, <1>9
    <2> HIDE DEF st, sdif, lo
    <2>2. (st >= 0 <=> sdif >= 0) /\ sdif \in Int
        BY <1>10, <2>1, HalvesOrder
    <2> QED BY <2>1, <2>2
<1>13. /\ dif < 0 <=> Wide(a, b) < Wide(c, d)
       /\ sdif < 0 <=> SignedWide(a, b) < SignedWide(c, d)
    BY <1>4
<1> QED BY <1>2, <1>7, <1>8, <1>11, <1>12, <1>13

\* The negation: the lower half borrows from the upper one.
LEMMA WideNegation ==
    ASSUME NEW a \in Word, NEW b \in Word
    PROVE  LET lo == SubValue(0, b, Long)
               t == a + Bit(0 < b)
               u == IF t < Limit THEN t ELSE t - Limit
               hi == SubValue(0, u, Long)
           IN lo \in Word /\ hi \in Word => Wide(hi, lo) = (-Wide(a, b)) % 2^(2 * Long)
<1> DEFINE N == Limit
           k == Bit(0 < b)
           lo == SubValue(0, b, Long)
           t == a + k
           u == IF t < N THEN t ELSE t - N
           hi == SubValue(0, u, Long)
           NN == N * N
           w == Wide(hi, lo)
           v == Wide(a, b)
<1> SUFFICES ASSUME lo \in Word, hi \in Word PROVE w = (-v) % 2^(2 * Long)
    OBVIOUS
<1>1. N \in Nat \ {0} /\ a \in 0 .. N - 1 /\ b \in 0 .. N - 1
    BY LongFacts
<1>2. 2^(2 * Long) = NN /\ NN \in Nat \ {0}
    BY WidePower
<1>3. k \in {0, 1} /\ (k = 1 <=> 0 < b)
    BY DEF Bit
<1> HIDE DEF k
<1>4. lo = k * N - b
    BY <1>1, <1>3 DEF SubValue, Limit
<1>5. v = a * N + b /\ w = hi * N + lo /\ w \in 0 .. NN - 1 /\ v \in Int
    BY WideFacts
<1>6. PICK m \in {0, 1} : hi = m * N - a - k
    <2>1. hi = 0 - a - k \/ hi = N - a - k
        BY <1>1, <1>3 DEF SubValue, Limit
    <2>2. 0 * N = 0 /\ 1 * N = N
        BY <1>1
    <2> HIDE DEF hi
    <2>3. hi = 0 * N - a - k \/ hi = 1 * N - a - k
        BY <2>1, <2>2
    <2> QED BY <2>3
<1> HIDE DEF w, v, hi, lo
<1>7. w = -v + m * NN
    <2>1. hi * N = m * NN - a * N - k * N
        BY <1>1, <1>3, <1>6
    <2>2. a * N \in Int /\ k * N \in Int /\ m * NN \in Int
        BY <1>1, <1>3
    <2> HIDE DEF NN
    <2> QED BY <1>1, <1>4, <1>5, <2>1, <2>2
<1> HIDE DEF NN
<1>8. (-v + m * NN) % NN = (-v) % NN
    <2>1. -v \in Int /\ m \in Int
        BY <1>5
    <2> DEFINE x == -v
    <2> HIDE DEF x
    <2>2. (x + m * NN) % NN = x % NN
        BY <1>2, <2>1, ModPlus DEF x
    <2> QED BY <2>2 DEF x
<1>9. w % NN = w
    BY <1>2, <1>5, SmallMod
<1> QED BY <1>2, <1>7, <1>8, <1>9

-----------------------------------------------------------------------------
(* Instructions between registers.                                         *)

\* The value v and the flags g that the operation n makes of the words s and d.
Leaves(n, f, s, d, v, g) ==
    LET h == SignBit(Long)
        sum == s + d + f.CF
        dif == d - s - f.CF
    IN /\ v \in Word /\ g \in Flags
       /\ n = "add" => /\ v = AddValue(s, d, Long)
                       /\ Sets(g, v, Bit(s + d >= Limit),
                               Bit((s < h <=> d < h) /\ ~(s < h <=> v < h)))
       /\ n = "adc" => /\ v = (IF sum < Limit THEN sum ELSE sum - Limit)
                       /\ Sets(g, v, Bit(sum >= Limit),
                               Bit((s < h <=> d < h) /\ ~(s < h <=> v < h)))
       /\ n = "sub" => /\ v = SubValue(d, s, Long)
                       /\ Sets(g, v, Bit(d < s), Bit(~(d < h <=> s < h) /\ ~(d < h <=> v < h)))
       /\ n = "sbb" => /\ v = (IF dif >= 0 THEN dif ELSE dif + Limit)
                       /\ Sets(g, v, Bit(dif < 0), Bit(~(d < h <=> s < h) /\ ~(d < h <=> v < h)))
       /\ n = "and" => Bits(v) = Bits(s) \cap Bits(d)
       /\ n = "or"  => Bits(v) = Bits(s) \cup Bits(d)
       /\ n = "xor" => /\ s = d => v = 0
                       /\ s = 0 => v = d
                       /\ s = Limit - 1 => v = Limit - 1 - d
       /\ n = "shl" => v = (d * 2^s) % Limit
       /\ n = "shr" => v = d \div 2^s
       /\ n = "sar" => v = Cut(Signed(d, Long) \div 2^s, Long)
       /\ n = "imul2" => v = Cut(Signed(s, Long) * Signed(d, Long), Long)
       /\ n = "mov" => v = s
       /\ n = "movs" => v = SignExt(Cut(s, ByteBits), ByteBits)

\* The instructions with a source and a destination.
TwoOps == {"add", "adc", "sub", "sbb", "and", "or", "xor", "shl", "shr", "sar", "imul2",
           "mov", "movs"}

\* A register or an immediate.
Operand(o) == (\E r \in DataRegs : o = <<"reg", r>>) \/ (\E m \in Word : o = <<"imm", m>>)

\* The instructions of the routines that have no jump.
Simple(i) ==
    \/ \E n \in TwoOps \cup {"cmp"}, d \in DataRegs : \E o :
           Operand(o) /\ i = <<n, o, <<"reg", d>>, Long>>
    \/ \E n \in {"neg", "not", "inc", "dec"}, d \in DataRegs : i = <<n, <<"reg", d>>, Long>>
    \/ \E n \in {"mul", "imul", "div", "idiv"}, s \in DataRegs : i = <<n, <<"reg", s>>>>
    \/ i = <<"cltd">>

\* Registers and flags that an instruction may find and leaves.
Ready(rg, f) == /\ Whole(rg) /\ rg["esp"] = Cells /\ f \in Flags
                /\ \A r \in DataRegs : rg[r] \in Word

\* What an operand holds in the registers rg.
Value(rg, o) == IF o[1] = "imm" THEN o[2] ELSE rg[o[2]]

\* From rg and f to rg2 and f2 by the instruction i.
Runs(i, rg, f, rg2, f2) ==
    LET eax == rg["eax"]
        src == Value(rg, i[2])
        ssrc == Signed(src, Long)
        p == src * eax
        sp == ssrc * Signed(eax, Long)
        n == rg["edx"] * Limit + eax
        sn == Signed(n, 2 * Long)
    IN /\ i[1] \in TwoOps =>
              \E v : /\ Leaves(i[1], f, Value(rg, i[2]), rg[i[3][2]], v, f2)
                     /\ rg2 = [rg EXCEPT ![i[3][2]] = v]
       /\ i[1] = "cmp" => /\ rg2 = rg
                          /\ \E v : Leaves("sub", f, Value(rg, i[2]), rg[i[3][2]], v, f2)
       /\ i[1] = "neg" => \E v : /\ Leaves("sub", f, rg[i[2][2]], 0, v, f2)
                                 /\ rg2 = [rg EXCEPT ![i[2][2]] = v]
       /\ i[1] = "not" => f2 = f /\ rg2 = [rg EXCEPT ![i[2][2]] = Limit - 1 - rg[i[2][2]]]
       /\ i[1] = "inc" => \E v : /\ Leaves("add", f, rg[i[2][2]], 1, v, f2)
                                 /\ rg2 = [rg EXCEPT ![i[2][2]] = v]
       /\ i[1] = "dec" => \E v : /\ Leaves("sub", f, 1, rg[i[2][2]], v, f2)
                                 /\ rg2 = [rg EXCEPT ![i[2][2]] = v]
       /\ i[1] = "mul" => /\ rg2 = [rg EXCEPT !["eax"] = p % Limit,
                                              !["edx"] = (p \div Limit) % Limit]
                          /\ f2.CF = Bit(p \div Limit # 0) /\ f2.OF = f2.CF
       /\ i[1] = "imul" => /\ rg2 = [rg EXCEPT !["eax"] = sp % Limit,
                                               !["edx"] = (sp \div Limit) % Limit]
                           /\ f2.CF = Bit(sp # Signed(sp, Long)) /\ f2.OF = f2.CF
       /\ i[1] = "cltd" => /\ f2 = f
                           /\ rg2 = [rg EXCEPT !["edx"] = IF eax < SignBit(Long) THEN 0
                                                          ELSE Limit - 1]
       /\ i[1] = "div" => /\ f2 = f /\ src # 0
                          /\ rg2 = [rg EXCEPT !["eax"] = Quotient(n % Limit, src) % Limit,
                                              !["edx"] = ((n % Limit) % src) % Limit]
       /\ i[1] = "idiv" => /\ f2 = f /\ src # 0
                           /\ rg2 = [rg EXCEPT !["eax"] = Quotient(Signed(sn, Long), ssrc) % Limit,
                                               !["edx"] = (sn - ssrc * Quotient(sn, ssrc)) % Limit]

\* A register is a whole word: what is written replaces it.
LEMMA WriteRegister ==
    ASSUME NEW d \in DataRegs, reg[d] \in Word, NEW val, Cut(val, Long) \in Word,
           Write(<<"reg", d>>, val, Long)
    PROVE  reg' = [reg EXCEPT ![d] = Cut(val, Long)] /\ cells' = cells
<1>1. Cut(reg[d], Long) = reg[d] /\ reg[d] \in Int /\ Cut(val, Long) \in Int
    BY RegisterFacts
<1> DEFINE v == Cut(val, Long)
           x == reg[d]
<1>2. reg' = [reg EXCEPT ![d] = x - x + v] /\ cells' = cells
    BY <1>1 DEF Write
<1>3. x - x + v = v
    <2>1. x \in Int /\ v \in Int
        BY <1>1
    <2> HIDE DEF x, v
    <2> QED BY <2>1
<1> QED BY <1>2, <1>3

\* Reading an operand: a register or an immediate.
LEMMA OperandRead ==
    ASSUME NEW o, Operand(o), \A r \in DataRegs : reg[r] \in Word
    PROVE  Read(o, Long) = Value(reg, o) /\ Value(reg, o) \in Word
<1>1. CASE \E r \in DataRegs : o = <<"reg", r>>
    <2>1. PICK r \in DataRegs : o = <<"reg", r>>
        BY <1>1
    <2>2. o[1] = "reg" /\ o[2] = r
        BY <2>1
    <2> QED BY <2>2, RegisterFacts DEF Read, Value
<1>2. CASE \E m \in Word : o = <<"imm", m>>
    <2>1. PICK m \in Word : o = <<"imm", m>>
        BY <1>2
    <2>2. o[1] = "imm" /\ o[2] = m
        BY <2>1
    <2> QED BY <2>2, RegisterFacts DEF Read, Value
<1> QED BY <1>1, <1>2 DEF Operand

\* What the operations of the ALU leave, one by one.
LEMMA SumsLeave ==
    ASSUME NEW f \in Flags, NEW s \in Word, NEW d \in Word
    PROVE  /\ Leaves("add", f, s, d, AluAdd(f, s, d, Long).val, AluAdd(f, s, d, Long).fl)
           /\ Leaves("adc", f, s, d, AluAdc(f, s, d, Long).val, AluAdc(f, s, d, Long).fl)
           /\ Leaves("sub", f, s, d, AluSub(f, s, d, Long).val, AluSub(f, s, d, Long).fl)
           /\ Leaves("sbb", f, s, d, AluSbb(f, s, d, Long).val, AluSbb(f, s, d, Long).fl)
<1>1. Leaves("add", f, s, d, AluAdd(f, s, d, Long).val, AluAdd(f, s, d, Long).fl)
    <2> DEFINE a == AluAdd(f, s, d, Long)
    <2>1. /\ a.val \in Word /\ a.val = AddValue(s, d, Long)
          /\ Sets(a.fl, a.val, Bit(s + d >= Limit),
                  Bit((s < SignBit(Long) <=> d < SignBit(Long))
                      /\ ~(s < SignBit(Long) <=> a.val < SignBit(Long))))
        BY AddSets
    <2> HIDE DEF a
    <2>2. a.fl \in Flags
        BY <2>1 DEF Sets
    <2>3. Leaves("add", f, s, d, a.val, a.fl)
        BY <2>1, <2>2 DEF Leaves
    <2> QED BY <2>3 DEF a
<1>2. Leaves("adc", f, s, d, AluAdc(f, s, d, Long).val, AluAdc(f, s, d, Long).fl)
    <2> DEFINE a == AluAdc(f, s, d, Long)
               t == s + d + f.CF
    <2>1. /\ a.val \in Word /\ a.val = (IF t < Limit THEN t ELSE t - Limit)
          /\ Sets(a.fl, a.val, Bit(t >= Limit),
                  Bit((s < SignBit(Long) <=> d < SignBit(Long))
                      /\ ~(s < SignBit(Long) <=> a.val < SignBit(Long))))
        BY AdcSets
    <2> HIDE DEF a
    <2>2. a.fl \in Flags
        BY <2>1 DEF Sets
    <2>3. Leaves("adc", f, s, d, a.val, a.fl)
        BY <2>1, <2>2 DEF Leaves
    <2> QED BY <2>3 DEF a
<1>3. Leaves("sub", f, s, d, AluSub(f, s, d, Long).val, AluSub(f, s, d, Long).fl)
    <2> DEFINE a == AluSub(f, s, d, Long)
    <2>1. /\ a.val \in Word /\ a.val = SubValue(d, s, Long)
          /\ Sets(a.fl, a.val, Bit(d < s),
                  Bit(~(d < SignBit(Long) <=> s < SignBit(Long))
                      /\ ~(d < SignBit(Long) <=> a.val < SignBit(Long))))
        BY SubSets
    <2> HIDE DEF a
    <2>2. a.fl \in Flags
        BY <2>1 DEF Sets
    <2>3. Leaves("sub", f, s, d, a.val, a.fl)
        BY <2>1, <2>2 DEF Leaves
    <2> QED BY <2>3 DEF a
<1>4. Leaves("sbb", f, s, d, AluSbb(f, s, d, Long).val, AluSbb(f, s, d, Long).fl)
    <2> DEFINE a == AluSbb(f, s, d, Long)
               t == d - s - f.CF
    <2>1. /\ a.val \in Word /\ a.val = (IF t >= 0 THEN t ELSE t + Limit)
          /\ Sets(a.fl, a.val, Bit(t < 0),
                  Bit(~(d < SignBit(Long) <=> s < SignBit(Long))
                      /\ ~(d < SignBit(Long) <=> a.val < SignBit(Long))))
        BY SbbSets
    <2> HIDE DEF a
    <2>2. a.fl \in Flags
        BY <2>1 DEF Sets
    <2>3. Leaves("sbb", f, s, d, a.val, a.fl)
        BY <2>1, <2>2 DEF Leaves
    <2> QED BY <2>3 DEF a
<1> QED BY <1>1, <1>2, <1>3, <1>4

\* The logic operations and the shifts.
LEMMA LogicLeaves ==
    ASSUME NEW f \in Flags, NEW s \in Word, NEW d \in Word
    PROVE  /\ Leaves("and", f, s, d, AluAnd(f, s, d, Long).val, AluAnd(f, s, d, Long).fl)
           /\ Leaves("or", f, s, d, AluOr(f, s, d, Long).val, AluOr(f, s, d, Long).fl)
           /\ Leaves("xor", f, s, d, AluXor(f, s, d, Long).val, AluXor(f, s, d, Long).fl)
           /\ Leaves("shl", f, s, d, AluShl(f, s, d, Long).val, AluShl(f, s, d, Long).fl)
           /\ Leaves("shr", f, s, d, AluShr(f, s, d, Long).val, AluShr(f, s, d, Long).fl)
           /\ Leaves("sar", f, s, d, AluSar(f, s, d, Long).val, AluSar(f, s, d, Long).fl)
<1>1. /\ Leaves("and", f, s, d, AluAnd(f, s, d, Long).val, AluAnd(f, s, d, Long).fl)
      /\ Leaves("or", f, s, d, AluOr(f, s, d, Long).val, AluOr(f, s, d, Long).fl)
    BY AndOrFacts DEF Leaves
<1>2. Leaves("xor", f, s, d, AluXor(f, s, d, Long).val, AluXor(f, s, d, Long).fl)
    BY XorFacts DEF Leaves
<1>3. /\ AluShl(f, s, d, Long).val = (d * 2^s) % Limit /\ AluShl(f, s, d, Long).fl \in Flags
      /\ AluShr(f, s, d, Long).val = d \div 2^s /\ AluShr(f, s, d, Long).fl \in Flags
    BY ShiftFacts
<1>4. /\ AluSar(f, s, d, Long).val = Cut(Signed(d, Long) \div 2^s, Long)
      /\ AluSar(f, s, d, Long).fl \in Flags
    BY ShiftFacts
<1>5. /\ d \div 2^s \in Word /\ (d * 2^s) % Limit \in Word
      /\ Cut(Signed(d, Long) \div 2^s, Long) \in Word
    BY ShiftFacts
<1>6. Leaves("shl", f, s, d, AluShl(f, s, d, Long).val, AluShl(f, s, d, Long).fl)
    BY <1>3, <1>5 DEF Leaves
<1>7. Leaves("shr", f, s, d, AluShr(f, s, d, Long).val, AluShr(f, s, d, Long).fl)
    BY <1>3, <1>5 DEF Leaves
<1>8. Leaves("sar", f, s, d, AluSar(f, s, d, Long).val, AluSar(f, s, d, Long).fl)
    BY <1>4, <1>5 DEF Leaves
<1> QED BY <1>1, <1>2, <1>6, <1>7, <1>8

\* imul with two operands.
LEMMA ImulLeaves ==
    ASSUME NEW f \in Flags, NEW s \in Word, NEW d \in Word
    PROVE  LET p == Signed(s, Long) * Signed(d, Long)
           IN /\ p \in Int /\ AluImul(f, s, d, Long).val = p
              /\ AluImul(f, s, d, Long).fl \in Flags
              /\ AluImul(f, s, d, Long).fl.CF = Bit(p # Signed(p, Long))
              /\ AluImul(f, s, d, Long).fl.OF = AluImul(f, s, d, Long).fl.CF
              /\ Leaves("imul2", f, s, d, Cut(p, Long), AluImul(f, s, d, Long).fl)
<1> DEFINE x == Signed(s, Long)
           y == Signed(d, Long)
           p == x * y
           over == Bit(p # Signed(p, Long))
           g == AluImul(f, s, d, Long).fl
<1>1. x \in Int /\ y \in Int
    BY RegisterFacts
<1>2. p \in Int
    <2> HIDE DEF x, y
    <2> QED BY <1>1
<1>3. over \in {0, 1}
    BY DEF Bit
<1>4. AluImul(f, s, d, Long) = [val |-> p, fl |-> [f EXCEPT !.CF = over, !.OF = over]]
    BY DEF AluImul
<1> HIDE DEF p, over
<1>5. g = [f EXCEPT !.CF = over, !.OF = over] /\ AluImul(f, s, d, Long).val = p
    BY <1>4
<1>6. g \in Flags /\ g.CF = over /\ g.OF = over
    BY <1>3, <1>5 DEF Flags, Arithmetic
<1>7. Cut(p, Long) \in Word
    BY <1>2, LongFacts, CutIsWord
<1> HIDE DEF g
<1>8. Leaves("imul2", f, s, d, Cut(p, Long), g)
    BY <1>6, <1>7 DEF Leaves, p
<1> QED BY <1>2, <1>5, <1>6, <1>8 DEF p, over, g

\* A two operand instruction writes what its operation leaves.
LEMMA TwoOpRuns ==
    ASSUME NEW n \in TwoOps, NEW o, Operand(o), NEW d \in DataRegs, Ready(reg, fl),
           Integer(<<n, o, <<"reg", d>>, Long>>) \/ X87(<<n, o, <<"reg", d>>, Long>>)
    PROVE  /\ cells' = cells /\ NextInst
           /\ \E v : /\ Leaves(n, fl, Value(reg, o), reg[d], v, fl')
                     /\ reg' = [reg EXCEPT ![d] = v]
<1> DEFINE i == <<n, o, <<"reg", d>>, Long>>
           s == Value(reg, o)
           x == reg[d]
<1>1. s \in Word /\ x \in Word /\ fl \in Flags /\ Read(o, Long) = s
    BY OperandRead DEF Ready
<1>2. i[1] = n /\ i[2] = o /\ i[3] = <<"reg", d>> /\ i[4] = Long
    OBVIOUS
<1>3. Read(<<"reg", d>>, Long) = x
    <2>1. Read(<<"reg", d>>, Long) = Cut(x, Long)
        BY DEF Read
    <2> QED BY <1>1, <2>1, RegisterFacts
<1> HIDE DEF i, s, x
<1>4. OprSrc(i) = s /\ OprDest(i) = x /\ OpSize(i) = Long
    BY <1>1, <1>2, <1>3 DEF OprSrc, OprDest, OpSize
<1>5. ASSUME NEW res, TwoOp(i, n, res), NEW v, Cut(res.val, Long) = v,
             Leaves(n, fl, s, x, v, res.fl)
      PROVE  /\ cells' = cells /\ NextInst
             /\ \E w : Leaves(n, fl, s, x, w, fl') /\ reg' = [reg EXCEPT ![d] = w]
    <2>1. v \in Word
        BY <1>5 DEF Leaves
    <2>2. fl' = res.fl /\ Write(<<"reg", d>>, res.val, Long) /\ NextInst
        BY <1>2, <1>5, <1>4 DEF TwoOp
    <2>3. reg' = [reg EXCEPT ![d] = v] /\ cells' = cells
        BY <1>1, <1>5, <2>1, <2>2, WriteRegister DEF x
    <2> QED BY <1>5, <2>2, <2>3
<1>6. ASSUME NEW res, TwoOp(i, n, res), Leaves(n, fl, s, x, res.val, res.fl)
      PROVE  /\ cells' = cells /\ NextInst
             /\ \E w : Leaves(n, fl, s, x, w, fl') /\ reg' = [reg EXCEPT ![d] = w]
    <2>1. res.val \in Word
        BY <1>6 DEF Leaves
    <2>2. Cut(res.val, Long) = res.val
        BY <2>1, RegisterFacts
    <2> QED BY <1>5, <1>6, <2>2
<1>7. Integer(i) \/ X87(i)
    BY DEF i
<1>8. CASE n = "add"
    <2>1. TwoOp(i, n, AluAdd(fl, s, x, Long))
        BY <1>2, <1>4, <1>7, <1>8, Dispatch DEF AddInst
    <2> QED BY <1>1, <1>6, <1>8, <2>1, SumsLeave DEF s, x
<1>9. CASE n = "adc"
    <2>1. TwoOp(i, n, AluAdc(fl, s, x, Long))
        BY <1>2, <1>4, <1>7, <1>9, Dispatch DEF AdcInst
    <2> QED BY <1>1, <1>6, <1>9, <2>1, SumsLeave DEF s, x
<1>10. CASE n = "sub"
    <2>1. TwoOp(i, n, AluSub(fl, s, x, Long))
        BY <1>2, <1>4, <1>7, <1>10, Dispatch DEF SubInst
    <2> QED BY <1>1, <1>6, <1>10, <2>1, SumsLeave DEF s, x
<1>11. CASE n = "sbb"
    <2>1. TwoOp(i, n, AluSbb(fl, s, x, Long))
        BY <1>2, <1>4, <1>7, <1>11, Dispatch DEF SbbInst
    <2> QED BY <1>1, <1>6, <1>11, <2>1, SumsLeave DEF s, x
<1>12. CASE n = "and"
    <2>1. TwoOp(i, n, AluAnd(fl, s, x, Long))
        BY <1>2, <1>4, <1>7, <1>12, Dispatch DEF AndInst
    <2> QED BY <1>1, <1>6, <1>12, <2>1, LogicLeaves DEF s, x
<1>13. CASE n = "or"
    <2>1. TwoOp(i, n, AluOr(fl, s, x, Long))
        BY <1>2, <1>4, <1>7, <1>13, Dispatch DEF OrInst
    <2> QED BY <1>1, <1>6, <1>13, <2>1, LogicLeaves DEF s, x
<1>14. CASE n = "xor"
    <2>1. TwoOp(i, n, AluXor(fl, s, x, Long))
        BY <1>2, <1>4, <1>7, <1>14, Dispatch DEF XorInst
    <2> QED BY <1>1, <1>6, <1>14, <2>1, LogicLeaves DEF s, x
<1>15. CASE n = "shl"
    <2>1. TwoOp(i, n, AluShl(fl, s, x, Long))
        BY <1>2, <1>4, <1>7, <1>15, Dispatch DEF ShlInst
    <2> QED BY <1>1, <1>6, <1>15, <2>1, LogicLeaves DEF s, x
<1>16. CASE n = "shr"
    <2>1. TwoOp(i, n, AluShr(fl, s, x, Long))
        BY <1>2, <1>4, <1>7, <1>16, Dispatch DEF ShrInst
    <2> QED BY <1>1, <1>6, <1>16, <2>1, LogicLeaves DEF s, x
<1>17. CASE n = "sar"
    <2>1. TwoOp(i, n, AluSar(fl, s, x, Long))
        BY <1>2, <1>4, <1>7, <1>17, Dispatch DEF SarInst
    <2> QED BY <1>1, <1>6, <1>17, <2>1, LogicLeaves DEF s, x
<1>18. CASE n = "imul2"
    <2>1. TwoOp(i, n, AluImul(fl, s, x, Long))
        BY <1>2, <1>4, <1>7, <1>18, Dispatch DEF Imul2Inst
    <2> QED BY <1>1, <1>5, <1>18, <2>1, ImulLeaves DEF s, x
<1>19. ASSUME NEW val, Move(i, n, val), Cut(val, Long) \in Word,
              Leaves(n, fl, s, x, Cut(val, Long), fl)
       PROVE  /\ cells' = cells /\ NextInst
              /\ \E w : Leaves(n, fl, s, x, w, fl') /\ reg' = [reg EXCEPT ![d] = w]
    <2>1. fl' = fl /\ Write(<<"reg", d>>, val, Long) /\ NextInst
        BY <1>2, <1>19 DEF Move
    <2>2. reg' = [reg EXCEPT ![d] = Cut(val, Long)] /\ cells' = cells
        BY <1>1, <1>19, <2>1, WriteRegister DEF x
    <2> QED BY <1>19, <2>1, <2>2
<1>20. CASE n = "mov"
    <2>1. Move(i, n, s)
        BY <1>1, <1>2, <1>7, <1>20, Dispatch DEF MovInst
    <2>2. Cut(s, Long) = s
        BY <1>1, RegisterFacts
    <2>3. Leaves(n, fl, s, x, s, fl)
        BY <1>1, <1>20 DEF Leaves
    <2> QED BY <1>1, <1>19, <2>1, <2>2, <2>3 DEF s, x
<1>21. CASE n = "movs"
    <2> DEFINE b == Cut(s, ByteBits)
               v == SignExt(b, ByteBits)
    <2>1. Read(o, ByteBits) = b
        <3>1. CASE \E r \in DataRegs : o = <<"reg", r>>
            <4>1. PICK r \in DataRegs : o = <<"reg", r>>
                BY <3>1
            <4>2. o[1] = "reg" /\ o[2] = r
                BY <4>1
            <4> QED BY <4>2 DEF Read, Value, s
        <3>2. CASE \E m \in Word : o = <<"imm", m>>
            <4>1. PICK m \in Word : o = <<"imm", m>>
                BY <3>2
            <4>2. o[1] = "imm" /\ o[2] = m
                BY <4>1
            <4> QED BY <4>2 DEF Read, Value, s
        <3> QED BY <3>1, <3>2 DEF Operand
    <2>2. Move(i, n, v)
        BY <1>2, <1>7, <1>21, <2>1, Dispatch DEF MovsInst
    <2>3. v \in Word
        <3>1. s \in Int /\ ByteBits \in Nat \ {0}
            BY <1>1, LongFacts, BitsAssumption
        <3>2. b \in Int
            BY <3>1, SizeFacts, DivModInt DEF Cut, Size
        <3>3. Signed(b, ByteBits) \in Int
            <4> HIDE DEF b
            <4> QED BY <3>1, <3>2, SignedFacts
        <3> DEFINE z == Signed(b, ByteBits)
        <3> HIDE DEF z
        <3>4. Cut(z, Long) \in Word
            BY <3>3, LongFacts, CutIsWord DEF z
        <3> QED BY <3>4 DEF z, SignExt
    <2> HIDE DEF v
    <2>4. Cut(v, Long) = v
        BY <2>3, RegisterFacts
    <2>5. Leaves(n, fl, s, x, v, fl)
        BY <1>1, <1>21, <2>3 DEF Leaves, v
    <2> QED BY <1>19, <2>2, <2>3, <2>4, <2>5 DEF s, x
<1> QED BY <1>8, <1>9, <1>10, <1>11, <1>12, <1>13, <1>14, <1>15, <1>16, <1>17, <1>18,
           <1>20, <1>21
        DEF TwoOps

\* Registers that change one word, or two, stay registers.
LEMMA ReadyAfter ==
    ASSUME NEW rg, NEW f, Ready(rg, f), NEW g \in Flags, NEW d \in DataRegs, NEW v \in Word
    PROVE  Ready([rg EXCEPT ![d] = v], g)
<1>1. d \in Registers /\ d # "esp" /\ "esp" \in Registers /\ DataRegs \subseteq Registers
    BY DEF Registers, DataRegs, AddrRegs
<1>2. rg = [r \in Registers |-> rg[r]]
    BY DEF Ready, Whole
<1> DEFINE x == [rg EXCEPT ![d] = v]
<1>3. /\ x = [r \in Registers |-> x[r]]
      /\ x[d] = v /\ \A r \in Registers : r # d => x[r] = rg[r]
    BY <1>1, <1>2
<1> HIDE DEF x
<1>4. Whole(x) /\ x["esp"] = Cells /\ \A r \in DataRegs : x[r] \in Word
    BY <1>1, <1>3 DEF Whole, Ready
<1>5. Ready(x, g)
    BY <1>4 DEF Ready
<1> QED BY <1>5 DEF x

\* neg, not, inc and dec.
LEMMA OneOpRuns ==
    ASSUME NEW n \in {"neg", "not", "inc", "dec"}, NEW d \in DataRegs, Ready(reg, fl),
           Integer(<<n, <<"reg", d>>, Long>>) \/ X87(<<n, <<"reg", d>>, Long>>)
    PROVE  /\ cells' = cells /\ NextInst
           /\ Runs(<<n, <<"reg", d>>, Long>>, reg, fl, reg', fl') /\ Ready(reg', fl')
<1> DEFINE i == <<n, <<"reg", d>>, Long>>
           x == reg[d]
<1>1. x \in Word /\ fl \in Flags /\ 0 \in Word /\ 1 \in Word
    BY LongFacts DEF Ready
<1>2. i[1] = n /\ i[2] = <<"reg", d>> /\ i[2][2] = d /\ i[3] = Long
    OBVIOUS
<1>3. Read(<<"reg", d>>, Long) = x
    <2>1. Read(<<"reg", d>>, Long) = Cut(x, Long)
        BY DEF Read
    <2> QED BY <1>1, <2>1, RegisterFacts
<1>4. Integer(i) \/ X87(i)
    OBVIOUS
<1> HIDE DEF i
<1>5. Opr(i) = x
    BY <1>2, <1>3 DEF Opr
<1> HIDE DEF x
<1>6. ASSUME NEW res, OneOp(i, n, res), res.val \in Word
      PROVE  cells' = cells /\ NextInst /\ reg' = [reg EXCEPT ![d] = res.val] /\ fl' = res.fl
    <2>1. Cut(res.val, Long) = res.val
        BY <1>6, RegisterFacts
    <2>2. fl' = res.fl /\ Write(<<"reg", d>>, res.val, Long) /\ NextInst
        BY <1>2, <1>6 DEF OneOp
    <2> QED BY <1>1, <1>6, <2>1, <2>2, WriteRegister DEF x
<1>7. ASSUME NEW m, NEW s, NEW y, NEW v, NEW g, Leaves(m, fl, s, y, v, g),
             reg' = [reg EXCEPT ![d] = v], fl' = g
      PROVE  Ready(reg', fl') /\ Leaves(m, fl, s, y, v, fl')
    <2>1. v \in Word /\ g \in Flags
        BY <1>7 DEF Leaves
    <2> QED BY <1>7, <2>1, ReadyAfter
<1>8. CASE n = "neg"
    <2> DEFINE a == AluSub(fl, x, 0, Long)
    <2>1. OneOp(i, n, a)
        BY <1>2, <1>4, <1>5, <1>8, Dispatch DEF NegInst
    <2>2. Leaves("sub", fl, x, 0, a.val, a.fl)
        BY <1>1, SumsLeave
    <2> HIDE DEF a
    <2>3. cells' = cells /\ NextInst /\ reg' = [reg EXCEPT ![d] = a.val] /\ fl' = a.fl
        BY <1>6, <2>1, <2>2 DEF Leaves
    <2>4. Ready(reg', fl') /\ Leaves("sub", fl, x, 0, a.val, fl')
        BY <1>7, <2>2, <2>3
    <2>5. \E v : Leaves("sub", fl, x, 0, v, fl') /\ reg' = [reg EXCEPT ![d] = v]
        BY <2>3, <2>4
    <2>6. Runs(i, reg, fl, reg', fl')
        BY <1>2, <1>8, <2>5 DEF Runs, TwoOps, x
    <2> QED BY <2>3, <2>4, <2>6 DEF i
<1>9. CASE n = "inc"
    <2> DEFINE a == AluAdd(fl, x, 1, Long)
    <2>1. OneOp(i, n, a)
        BY <1>2, <1>4, <1>5, <1>9, Dispatch DEF IncInst
    <2>2. Leaves("add", fl, x, 1, a.val, a.fl)
        BY <1>1, SumsLeave
    <2> HIDE DEF a
    <2>3. cells' = cells /\ NextInst /\ reg' = [reg EXCEPT ![d] = a.val] /\ fl' = a.fl
        BY <1>6, <2>1, <2>2 DEF Leaves
    <2>4. Ready(reg', fl') /\ Leaves("add", fl, x, 1, a.val, fl')
        BY <1>7, <2>2, <2>3
    <2>5. \E v : Leaves("add", fl, x, 1, v, fl') /\ reg' = [reg EXCEPT ![d] = v]
        BY <2>3, <2>4
    <2>6. Runs(i, reg, fl, reg', fl')
        BY <1>2, <1>9, <2>5 DEF Runs, TwoOps, x
    <2> QED BY <2>3, <2>4, <2>6 DEF i
<1>10. CASE n = "dec"
    <2> DEFINE a == AluSub(fl, 1, x, Long)
    <2>1. OneOp(i, n, a)
        BY <1>2, <1>4, <1>5, <1>10, Dispatch DEF DecInst
    <2>2. Leaves("sub", fl, 1, x, a.val, a.fl)
        BY <1>1, SumsLeave
    <2> HIDE DEF a
    <2>3. cells' = cells /\ NextInst /\ reg' = [reg EXCEPT ![d] = a.val] /\ fl' = a.fl
        BY <1>6, <2>1, <2>2 DEF Leaves
    <2>4. Ready(reg', fl') /\ Leaves("sub", fl, 1, x, a.val, fl')
        BY <1>7, <2>2, <2>3
    <2>5. \E v : Leaves("sub", fl, 1, x, v, fl') /\ reg' = [reg EXCEPT ![d] = v]
        BY <2>3, <2>4
    <2>6. Runs(i, reg, fl, reg', fl')
        BY <1>2, <1>10, <2>5 DEF Runs, TwoOps, x
    <2> QED BY <2>3, <2>4, <2>6 DEF i
<1>11. CASE n = "not"
    <2> DEFINE a == [val |-> Limit - 1 - x, fl |-> fl]
    <2>1. OneOp(i, n, a)
        BY <1>2, <1>4, <1>5, <1>11, Dispatch DEF NotInst, Limit
    <2>2. a.val = Limit - 1 - x /\ a.val \in Word /\ a.fl = fl
        BY <1>1, NotBits
    <2> HIDE DEF a
    <2>3. cells' = cells /\ NextInst /\ reg' = [reg EXCEPT ![d] = a.val] /\ fl' = a.fl
        BY <1>6, <2>1, <2>2
    <2>4. Ready(reg', fl')
        BY <1>1, <2>2, <2>3, ReadyAfter
    <2>5. Runs(i, reg, fl, reg', fl')
        BY <1>2, <1>11, <2>2, <2>3 DEF Runs, TwoOps, x
    <2> QED BY <2>3, <2>4, <2>5 DEF i
<1> QED BY <1>8, <1>9, <1>10, <1>11

\* mul and imul.
LEMMA MulRuns ==
    ASSUME NEW n \in {"mul", "imul"}, NEW s \in DataRegs, Ready(reg, fl),
           Integer(<<n, <<"reg", s>>>>) \/ X87(<<n, <<"reg", s>>>>)
    PROVE  /\ cells' = cells /\ NextInst
           /\ Runs(<<n, <<"reg", s>>>>, reg, fl, reg', fl') /\ Ready(reg', fl')
<1> DEFINE i == <<n, <<"reg", s>>>>
           x == reg[s]
           a == reg["eax"]
<1>1. x \in Word /\ fl \in Flags /\ a \in Word
    BY DEF Ready, DataRegs
<1>2. i[1] = n /\ i[2] = <<"reg", s>> /\ i[2][1] = "reg" /\ i[2][2] = s
    OBVIOUS
<1>3. Read(<<"reg", s>>, Long) = x
    <2>1. Read(<<"reg", s>>, Long) = Cut(x, Long)
        BY DEF Read
    <2> QED BY <1>1, <2>1, RegisterFacts
<1>4. Integer(i) \/ X87(i)
    OBVIOUS
<1>5. Value(reg, i[2]) = x
    BY <1>2 DEF Value
<1> HIDE DEF i
<1>6. ASSUME NEW p \in Int, NEW over \in {0, 1}, NEW f, f.CF = over, f.OF = over, f \in Flags,
             WideProduct(i, n, [val |-> p, fl |-> f])
      PROVE  /\ cells' = cells /\ NextInst /\ Ready(reg', fl')
             /\ reg' = [reg EXCEPT !["eax"] = p % Limit, !["edx"] = (p \div Limit) % Limit]
             /\ fl'.CF = over /\ fl'.OF = fl'.CF
    <2>1. /\ reg' = [reg EXCEPT !["eax"] = p % Limit, !["edx"] = (p \div Limit) % Limit]
          /\ fl' = f /\ cells' = cells /\ NextInst
        BY <1>6 DEF WideProduct, Cut, Limit
    <2>2. p % Limit \in Word /\ (p \div Limit) % Limit \in Word
        <3> DEFINE q == p \div Limit
        <3>1. Limit \in Nat \ {0}
            BY LongFacts
        <3>2. q \in Int
            BY <3>1, DivModInt
        <3> HIDE DEF q
        <3>3. q % Limit \in Word /\ p % Limit \in Word
            BY <3>1, <3>2, LongFacts, DivModInt
        <3> QED BY <3>3 DEF q
    <2> DEFINE y == p % Limit
               z == (p \div Limit) % Limit
    <2>3. y \in Word /\ z \in Word /\ reg' = [[reg EXCEPT !["eax"] = y] EXCEPT !["edx"] = z]
        BY <2>1, <2>2
    <2> HIDE DEF y, z
    <2>4. "eax" \in DataRegs /\ "edx" \in DataRegs
        BY DEF DataRegs
    <2>5. Ready([reg EXCEPT !["eax"] = y], f)
        BY <1>6, <2>3, <2>4, ReadyAfter
    <2> DEFINE r1 == [reg EXCEPT !["eax"] = y]
    <2>6. Ready(r1, f) /\ reg' = [r1 EXCEPT !["edx"] = z]
        BY <2>3, <2>5
    <2> HIDE DEF r1
    <2>7. Ready(reg', fl')
        <3>1. Ready([r1 EXCEPT !["edx"] = z], f)
            BY <1>6, <2>3, <2>4, <2>6, ReadyAfter
        <3> QED BY <2>1, <2>6, <3>1
    <2> QED BY <1>6, <2>1, <2>7
<1>7. CASE n = "mul"
    <2> DEFINE p == x * a
               over == Bit(p \div Limit # 0)
               f == [fl EXCEPT !.CF = over, !.OF = over]
    <2>1. AluMul(fl, x, a, Long) = [val |-> p, fl |-> f]
        BY <1>1, RegisterFacts DEF AluMul, Limit
    <2>2. p \in Int /\ over \in {0, 1}
        <3>1. x \in Int /\ a \in Int
            BY <1>1, RegisterFacts
        <3> QED BY <3>1 DEF Bit
    <2> HIDE DEF p, over
    <2>3. f \in Flags /\ f.CF = over /\ f.OF = over
        BY <1>1, <2>2 DEF Flags, Arithmetic
    <2> HIDE DEF f
    <2>4. WideProduct(i, n, [val |-> p, fl |-> f])
        BY <1>2, <1>3, <1>4, <1>7, <2>1, Dispatch DEF MulInst
    <2>5. /\ cells' = cells /\ NextInst /\ Ready(reg', fl')
          /\ reg' = [reg EXCEPT !["eax"] = p % Limit, !["edx"] = (p \div Limit) % Limit]
          /\ fl'.CF = over /\ fl'.OF = fl'.CF
        BY <1>6, <2>2, <2>3, <2>4
    <2>6. Runs(i, reg, fl, reg', fl')
        BY <1>2, <1>5, <1>7, <2>5 DEF Runs, TwoOps, p, over
    <2> QED BY <2>5, <2>6 DEF i
<1>8. CASE n = "imul"
    <2> DEFINE b == AluImul(fl, x, a, Long)
               p == Signed(x, Long) * Signed(a, Long)
               over == Bit(p # Signed(p, Long))
    <2>1. p \in Int /\ b.val = p /\ b.fl \in Flags /\ b.fl.CF = over /\ b.fl.OF = over
          /\ b = [val |-> b.val, fl |-> b.fl]
        <3>1. b = [val |-> b.val, fl |-> b.fl]
            BY DEF AluImul
        <3> QED BY <1>1, <3>1, ImulLeaves
    <2>2. over \in {0, 1}
        BY DEF Bit
    <2>3. WideProduct(i, n, b)
        BY <1>2, <1>3, <1>4, <1>8, Dispatch DEF ImulInst
    <2> HIDE DEF b, p, over
    <2>4. WideProduct(i, n, [val |-> p, fl |-> b.fl])
        BY <2>1, <2>3
    <2>5. /\ cells' = cells /\ NextInst /\ Ready(reg', fl')
          /\ reg' = [reg EXCEPT !["eax"] = p % Limit, !["edx"] = (p \div Limit) % Limit]
          /\ fl'.CF = over /\ fl'.OF = fl'.CF
        BY <1>6, <2>1, <2>2, <2>4
    <2>6. Runs(i, reg, fl, reg', fl')
        BY <1>2, <1>5, <1>8, <2>5 DEF Runs, TwoOps, p, over
    <2> QED BY <2>5, <2>6 DEF i
<1> QED BY <1>7, <1>8

\* cltd.
LEMMA CltdRuns ==
    ASSUME Ready(reg, fl), Integer(<<"cltd">>) \/ X87(<<"cltd">>)
    PROVE  /\ cells' = cells /\ NextInst
           /\ Runs(<<"cltd">>, reg, fl, reg', fl') /\ Ready(reg', fl')
<1> DEFINE i == <<"cltd">>
           a == reg["eax"]
           v == IF a < SignBit(Long) THEN 0 ELSE Limit - 1
<1>1. fl \in Flags /\ a \in Word /\ "edx" \in DataRegs
    BY DEF Ready, DataRegs
<1>2. i[1] = "cltd"
    OBVIOUS
<1>3. CltdInst(i)
    BY <1>2, Dispatch
<1> HIDE DEF i
<1>4. reg' = [reg EXCEPT !["edx"] = v] /\ fl' = fl /\ cells' = cells /\ NextInst
    BY <1>1, <1>3, RegisterFacts DEF CltdInst, Limit
<1>5. v \in Word
    <2>1. Limit - 1 \in Word
        <3>1. Limit \in Nat \ {0} /\ Word = 0 .. Limit - 1
            BY LongFacts
        <3> QED BY <3>1
    <2> QED BY <2>1, LongFacts
<1>6. Ready(reg', fl')
    <2> HIDE DEF v
    <2>1. Ready([reg EXCEPT !["edx"] = v], fl)
        BY <1>1, <1>5, ReadyAfter
    <2> QED BY <1>4, <2>1
<1>7. Runs(i, reg, fl, reg', fl')
    BY <1>2, <1>4 DEF Runs, TwoOps
<1> QED BY <1>4, <1>6, <1>7 DEF i

\* A quotient is an integer.
LEMMA QuotientIsInt ==
    ASSUME NEW x \in Int, NEW y \in Int, y # 0
    PROVE  Quotient(x, y) \in Int
<1> DEFINE a == IF x < 0 THEN -x ELSE x
           b == IF y < 0 THEN -y ELSE y
           q == a \div b
<1>1. a \in Nat /\ b \in Nat \ {0}
    OBVIOUS
<1> HIDE DEF a, b
<1>2. q \in Int
    BY <1>1, DivModInt
<1>3. Quotient(x, y) = IF (x < 0) = (y < 0) THEN q ELSE -q
    BY DEF Quotient, a, b
<1> HIDE DEF q
<1> QED BY <1>2, <1>3

\* div and idiv.
LEMMA DivRuns ==
    ASSUME NEW n \in {"div", "idiv"}, NEW s \in DataRegs, Ready(reg, fl),
           Integer(<<n, <<"reg", s>>>>) \/ X87(<<n, <<"reg", s>>>>)
    PROVE  /\ cells' = cells /\ NextInst
           /\ Runs(<<n, <<"reg", s>>>>, reg, fl, reg', fl') /\ Ready(reg', fl')
<1> DEFINE i == <<n, <<"reg", s>>>>
           x == reg[s]
           a == reg["eax"]
           d == reg["edx"]
           dividend == d * Limit + a
<1>1. x \in Word /\ fl \in Flags /\ a \in Word /\ d \in Word
    BY DEF Ready, DataRegs
<1>2. i[1] = n /\ i[2] = <<"reg", s>> /\ i[2][1] = "reg" /\ i[2][2] = s
    OBVIOUS
<1>3. Read(<<"reg", s>>, Long) = x
    <2>1. Read(<<"reg", s>>, Long) = Cut(x, Long)
        BY DEF Read
    <2> QED BY <1>1, <2>1, RegisterFacts
<1>4. Integer(i) \/ X87(i)
    OBVIOUS
<1>5. Value(reg, i[2]) = x
    BY <1>2 DEF Value
<1>6. Cut(x, Long) = x /\ x \in Int /\ Signed(x, Long) \in Int
      /\ Signed(x, Long) = (IF x < SignBit(Long) THEN x ELSE x - Limit)
      /\ Limit \in Nat \ {0} /\ x \in 0 .. Limit - 1
    BY <1>1, RegisterFacts, LongFacts
<1>7. dividend = Dividend /\ dividend \in Int
    <2>1. dividend = Dividend
        BY DEF Dividend, Limit
    <2>2. d \in Int /\ a \in Int
        BY <1>1, RegisterFacts
    <2>3. d * Limit \in Int
        BY <1>6, <2>2
    <2> QED BY <2>1, <2>2, <2>3
<1> HIDE DEF i, dividend
<1>8. ASSUME NEW q \in Int, NEW r \in Int, Divide(i, n, q, r)
      PROVE  /\ cells' = cells /\ NextInst /\ Ready(reg', fl') /\ fl' = fl /\ x # 0
             /\ reg' = [reg EXCEPT !["eax"] = q % Limit, !["edx"] = r % Limit]
    <2>1. /\ reg' = [reg EXCEPT !["eax"] = q % Limit, !["edx"] = r % Limit]
          /\ fl' = fl /\ cells' = cells /\ NextInst /\ x # 0
        BY <1>2, <1>3, <1>8 DEF Divide, Cut, Limit
    <2> DEFINE y == q % Limit
               z == r % Limit
               r1 == [reg EXCEPT !["eax"] = y]
    <2>2. y \in Word /\ z \in Word
        BY <1>6, LongFacts, DivModInt
    <2>3. reg' = [r1 EXCEPT !["edx"] = z]
        BY <2>1
    <2>4. "eax" \in DataRegs /\ "edx" \in DataRegs
        BY DEF DataRegs
    <2> HIDE DEF y, z
    <2>5. Ready(r1, fl)
        BY <1>1, <2>2, <2>4, ReadyAfter
    <2> HIDE DEF r1
    <2>6. Ready([r1 EXCEPT !["edx"] = z], fl)
        BY <1>1, <2>2, <2>4, <2>5, ReadyAfter
    <2> QED BY <2>1, <2>3, <2>6
<1>9. CASE n = "div"
    <2> DEFINE q == Quotient(dividend % Limit, x)
               r == (dividend % Limit) % x
    <2>1. DivInst(i)
        BY <1>2, <1>4, <1>9, Dispatch
    <2>2. Divide(i, n, q, r)
        BY <1>2, <1>3, <1>6, <1>7, <1>9, <2>1 DEF DivInst, AluDiv, AluMod, Cut, Limit
    <2>3. x # 0
        BY <1>2, <1>3, <2>2 DEF Divide
    <2>4. q \in Int /\ r \in Int
        <3> DEFINE m == dividend % Limit
        <3>1. m \in Int
            BY <1>6, <1>7, DivModInt
        <3> HIDE DEF m
        <3>2. Quotient(m, x) \in Int
            BY <1>6, <2>3, <3>1, QuotientIsInt
        <3>3. x \in Nat \ {0}
            BY <1>6, <2>3
        <3>4. m % x \in Int
            BY <3>1, <3>3, DivModInt
        <3> QED BY <3>2, <3>4 DEF m
    <2> HIDE DEF q, r
    <2>5. /\ cells' = cells /\ NextInst /\ Ready(reg', fl') /\ fl' = fl /\ x # 0
          /\ reg' = [reg EXCEPT !["eax"] = q % Limit, !["edx"] = r % Limit]
        BY <1>8, <2>2, <2>4
    <2>6. Runs(i, reg, fl, reg', fl')
        BY <1>2, <1>5, <1>9, <2>5 DEF Runs, TwoOps, q, r, dividend
    <2> QED BY <2>5, <2>6 DEF i
<1>10. CASE n = "idiv"
    <2> DEFINE sx == Signed(x, Long)
               sn == Signed(dividend, 2 * Long)
               q == Quotient(Signed(sn, Long), sx)
               r == sn - sx * Quotient(sn, sx)
    <2>1. IdivInst(i)
        BY <1>2, <1>4, <1>10, Dispatch
    <2>2. Signed(sx, Long) = sx
        <3>1. Signed(x, Long) \in -SignBit(Long) .. SignBit(Long) - 1 /\ Long \in Nat \ {0}
            BY <1>1, RegisterFacts, LongFacts, SizeFacts
        <3>2. Signed(x, Long) \in -2^(Long - 1) .. 2^(Long - 1) - 1
            BY <3>1 DEF SignBit
        <3> HIDE DEF sx
        <3>3. sx \in Int /\ sx \in -2^(Long - 1) .. 2^(Long - 1) - 1
            BY <1>6, <3>2 DEF sx
        <3> QED BY <3>1, <3>3, SignedFacts
    <2>3. Divide(i, n, q, r)
        BY <1>2, <1>3, <1>7, <1>10, <2>1, <2>2 DEF IdivInst, AluIdiv, AluImod
    <2>4. x # 0
        BY <1>2, <1>3, <2>3 DEF Divide
    <2>5. sx # 0 /\ sx \in Int
        BY <1>6, <2>4
    <2>6. sn \in Int
        <3>1. 2 * Long \in Nat \ {0}
            BY WidePower
        <3> QED BY <1>7, <3>1, SignedFacts
    <2>7. q \in Int
        <3> HIDE DEF sx, sn
        <3>1. Signed(sn, Long) \in Int
            BY <2>6, LongFacts, SizeFacts, SignedFacts
        <3> QED BY <2>5, <3>1, QuotientIsInt
    <2>8. r \in Int
        <3> HIDE DEF sx, sn
        <3>1. Quotient(sn, sx) \in Int
            BY <2>5, <2>6, QuotientIsInt
        <3> DEFINE k == Quotient(sn, sx)
        <3> HIDE DEF k
        <3>2. sx * k \in Int
            BY <2>5, <3>1 DEF k
        <3>3. sn - sx * k \in Int
            BY <2>6, <3>2
        <3> QED BY <3>3 DEF k
    <2> HIDE DEF q, r
    <2>9. /\ cells' = cells /\ NextInst /\ Ready(reg', fl') /\ fl' = fl /\ x # 0
          /\ reg' = [reg EXCEPT !["eax"] = q % Limit, !["edx"] = r % Limit]
        BY <1>8, <2>3, <2>7, <2>8
    <2>10. Runs(i, reg, fl, reg', fl')
        BY <1>2, <1>5, <1>10, <2>9 DEF Runs, TwoOps, q, r, dividend
    <2> QED BY <2>9, <2>10 DEF i
<1> QED BY <1>9, <1>10

\* Whichever instruction it is.
LEMMA SimpleRuns ==
    ASSUME NEW i, Simple(i), Ready(reg, fl), Integer(i) \/ X87(i)
    PROVE  cells' = cells /\ NextInst /\ Runs(i, reg, fl, reg', fl') /\ Ready(reg', fl')
<1>1. ASSUME NEW n \in TwoOps, NEW o, NEW d \in DataRegs, Operand(o),
             i = <<n, o, <<"reg", d>>, Long>>
      PROVE  cells' = cells /\ NextInst /\ Runs(i, reg, fl, reg', fl') /\ Ready(reg', fl')
    <2>1. /\ cells' = cells /\ NextInst
          /\ \E v : /\ Leaves(n, fl, Value(reg, o), reg[d], v, fl')
                    /\ reg' = [reg EXCEPT ![d] = v]
        BY <1>1, TwoOpRuns
    <2>2. PICK v : /\ Leaves(n, fl, Value(reg, o), reg[d], v, fl')
                   /\ reg' = [reg EXCEPT ![d] = v]
        BY <2>1
    <2>3. v \in Word /\ fl' \in Flags
        BY <2>2 DEF Leaves
    <2>4. PICK g : g = fl'
        OBVIOUS
    <2>5. Ready([reg EXCEPT ![d] = v], g)
        BY <1>1, <2>3, <2>4, ReadyAfter
    <2>6. Ready(reg', fl')
        BY <2>2, <2>4, <2>5
    <2>7. i[1] = n /\ i[2] = o /\ i[3][2] = d
        BY <1>1
    <2>8. Runs(i, reg, fl, reg', fl')
        BY <2>1, <2>7 DEF Runs, TwoOps
    <2> QED BY <2>1, <2>6, <2>8
<1>2. ASSUME NEW o, NEW d \in DataRegs, Operand(o), i = <<"cmp", o, <<"reg", d>>, Long>>
      PROVE  cells' = cells /\ NextInst /\ Runs(i, reg, fl, reg', fl') /\ Ready(reg', fl')
    <2> DEFINE s == Value(reg, o)
               x == reg[d]
               a == AluSub(fl, s, x, Long)
    <2>1. s \in Word /\ x \in Word /\ fl \in Flags /\ Read(o, Long) = s
        BY <1>2, OperandRead DEF Ready
    <2>2. i[1] = "cmp" /\ i[2] = o /\ i[3] = <<"reg", d>> /\ i[4] = Long /\ i[3][2] = d
        BY <1>2
    <2>3. Read(<<"reg", d>>, Long) = x
        <3>1. Read(<<"reg", d>>, Long) = Cut(x, Long)
            BY DEF Read
        <3> QED BY <2>1, <3>1, RegisterFacts
    <2>4. CmpInst(i)
        BY <2>2, Dispatch
    <2>5. fl' = a.fl /\ NextInst /\ reg' = reg /\ cells' = cells
        BY <2>1, <2>2, <2>3, <2>4 DEF CmpInst, FlagsOp, OprSrc, OprDest, OpSize
    <2>6. Leaves("sub", fl, s, x, a.val, a.fl)
        BY <2>1, SumsLeave
    <2> HIDE DEF a
    <2>7. a.fl \in Flags
        BY <2>6 DEF Leaves
    <2>8. Ready(reg', fl')
        BY <2>5, <2>7 DEF Ready
    <2>9. Runs(i, reg, fl, reg', fl')
        BY <2>2, <2>5, <2>6 DEF Runs, TwoOps
    <2> QED BY <2>5, <2>8, <2>9
<1>3. ASSUME NEW n \in {"neg", "not", "inc", "dec"}, NEW d \in DataRegs,
             i = <<n, <<"reg", d>>, Long>>
      PROVE  cells' = cells /\ NextInst /\ Runs(i, reg, fl, reg', fl') /\ Ready(reg', fl')
    BY <1>3, OneOpRuns
<1>4. ASSUME NEW n \in {"mul", "imul", "div", "idiv"}, NEW s \in DataRegs, i = <<n, <<"reg", s>>>>
      PROVE  cells' = cells /\ NextInst /\ Runs(i, reg, fl, reg', fl') /\ Ready(reg', fl')
    BY <1>4, MulRuns, DivRuns
<1>5. ASSUME i = <<"cltd">>
      PROVE  cells' = cells /\ NextInst /\ Runs(i, reg, fl, reg', fl') /\ Ready(reg', fl')
    BY <1>5, CltdRuns
<1> QED BY <1>1, <1>2, <1>3, <1>4, <1>5 DEF Simple

-----------------------------------------------------------------------------
(* Routines without a jump: the state is what their first instructions      *)
(* make of the registers at the start, one after the other.                *)

\* The routines that have no jump.
Plain == {"add64", "sub64", "cmp64", "neg64", "mul", "imul", "imul2", "div", "idiv",
          "abs", "half", "sext", "bool", "minus", "mask"}

\* A power of two exceeds its exponent.
LEMMA NumberBelowPower ==
    ASSUME NEW n \in Nat
    PROVE  n < 2^n
<1> DEFINE Bad == {k \in Nat : ~(k < 2^k)}
<1>1. Bad = {}
    <2> SUFFICES ASSUME Bad # {} PROVE FALSE
        OBVIOUS
    <2> DEFINE k == Min(Bad)
    <2>1. k \in Bad /\ \A j \in Bad : k <= j
        <3>1. Bad \subseteq Nat
            OBVIOUS
        <3> HIDE DEF Bad
        <3> QED BY <3>1, MinIsElement
    <2>2. k \in Nat /\ ~(k < 2^k)
        BY <2>1
    <2> HIDE DEF k
    <2>3. k # 0
        <3>1. 0 < 2^0
            OBVIOUS
        <3> QED BY <2>2, <3>1
    <2>4. k - 1 \in Nat /\ ~(k <= k - 1) /\ k - 1 + 1 = k
        BY <2>2, <2>3
    <2>5. k - 1 < 2^(k - 1)
        <3>1. k - 1 \notin Bad
            <4> HIDE DEF Bad
            <4> QED BY <2>1, <2>4
        <3> QED BY <2>4, <3>1
    <2> DEFINE j == k - 1
               p == 2^j
    <2>6. j \in Nat /\ j + 1 = k /\ j < p
        BY <2>4, <2>5
    <2> HIDE DEF j
    <2>7. p \in Nat /\ 2^k = 2 * p
        <3>1. 2^(j + 1) = 2 * 2^j /\ 2^j \in Nat
            BY <2>6, PowerDoubles, PowerIsNumber
        <3> QED BY <2>6, <3>1
    <2> HIDE DEF p
    <2> QED BY <2>2, <2>6, <2>7
<1> QED BY <1>1

\* The counts by which the routines shift are words.
LEMMA ShiftCounts == {0, 1, Long - 1, Long - ByteBits} \subseteq Word
<1>1. Long \in Nat /\ ByteBits \in Nat \ {0} /\ ByteBits < Long
    BY BitsAssumption
<1>2. Long < Limit
    BY <1>1, NumberBelowPower DEF Limit
<1>3. Limit \in Nat /\ Word = 0 .. Limit - 1
    BY LongFacts
<1> QED BY <1>1, <1>2, <1>3

\* The instructions of each of these routines.
LEMMA PlainCode ==
    ASSUME NEW l \in Plain, Code = RoutineCode
    PROVE  /\ l = "add64" => Code[l] = <<<<"add", <<"reg", "eax">>, <<"reg", "ecx">>, Long>>,
                                         <<"adc", <<"reg", "ebx">>, <<"reg", "edx">>, Long>>>>
           /\ l = "sub64" => Code[l] = <<<<"sub", <<"reg", "eax">>, <<"reg", "ecx">>, Long>>,
                                         <<"sbb", <<"reg", "ebx">>, <<"reg", "edx">>, Long>>>>
           /\ l = "cmp64" => Code[l] = <<<<"cmp", <<"reg", "eax">>, <<"reg", "ecx">>, Long>>,
                                         <<"sbb", <<"reg", "ebx">>, <<"reg", "edx">>, Long>>>>
           /\ l = "neg64" => Code[l] = <<<<"neg", <<"reg", "eax">>, Long>>,
                                         <<"adc", <<"imm", 0>>, <<"reg", "edx">>, Long>>,
                                         <<"neg", <<"reg", "edx">>, Long>>>>
           /\ l = "mul" => Code[l] = <<<<"mul", <<"reg", "ebx">>>>>>
           /\ l = "imul" => Code[l] = <<<<"imul", <<"reg", "ebx">>>>>>
           /\ l = "imul2" => Code[l] = <<<<"imul2", <<"reg", "ebx">>, <<"reg", "eax">>, Long>>>>
           /\ l = "div" => Code[l] = <<<<"xor", <<"reg", "edx">>, <<"reg", "edx">>, Long>>,
                                       <<"div", <<"reg", "ebx">>>>>>
           /\ l = "idiv" => Code[l] = <<<<"cltd">>, <<"idiv", <<"reg", "ebx">>>>>>
           /\ l = "abs" => Code[l] = <<<<"cltd">>,
                                       <<"xor", <<"reg", "edx">>, <<"reg", "eax">>, Long>>,
                                       <<"sub", <<"reg", "edx">>, <<"reg", "eax">>, Long>>>>
           /\ l = "half" => Code[l] = <<<<"mov", <<"reg", "eax">>, <<"reg", "edx">>, Long>>,
                                        <<"shr", <<"imm", Long - 1>>, <<"reg", "edx">>, Long>>,
                                        <<"add", <<"reg", "edx">>, <<"reg", "eax">>, Long>>,
                                        <<"sar", <<"imm", 1>>, <<"reg", "eax">>, Long>>>>
           /\ l = "sext" => Code[l] = <<<<"movs", <<"reg", "eax">>, <<"reg", "ebx">>, Long>>,
                                        <<"shl", <<"imm", Long - ByteBits>>, <<"reg", "eax">>,
                                          Long>>,
                                        <<"sar", <<"imm", Long - ByteBits>>, <<"reg", "eax">>,
                                          Long>>>>
           /\ l = "bool" => Code[l] = <<<<"neg", <<"reg", "eax">>, Long>>,
                                        <<"sbb", <<"reg", "eax">>, <<"reg", "eax">>, Long>>,
                                        <<"neg", <<"reg", "eax">>, Long>>>>
           /\ l = "minus" => Code[l] = <<<<"not", <<"reg", "eax">>, Long>>,
                                         <<"inc", <<"reg", "eax">>, Long>>>>
           /\ l = "mask" => Code[l] = <<<<"mov", <<"reg", "eax">>, <<"reg", "ecx">>, Long>>,
                                        <<"and", <<"reg", "ebx">>, <<"reg", "ecx">>, Long>>,
                                        <<"not", <<"reg", "ebx">>, Long>>,
                                        <<"and", <<"reg", "eax">>, <<"reg", "ebx">>, Long>>,
                                        <<"or", <<"reg", "ecx">>, <<"reg", "ebx">>, Long>>>>
<1>1. l \in DOMAIN Routine
    BY DEF Plain, Routine
<1>2. Code[l] = Routine[l]
    BY <1>1 DEF RoutineCode
<1>3. CASE l = "add64"
    BY <1>2, <1>3 DEF Routine, R, I, Eax, Ebx, Ecx, Edx, L
<1>4. CASE l = "sub64"
    BY <1>2, <1>4 DEF Routine, R, I, Eax, Ebx, Ecx, Edx, L
<1>5. CASE l = "cmp64"
    BY <1>2, <1>5 DEF Routine, R, I, Eax, Ebx, Ecx, Edx, L
<1>6. CASE l = "neg64"
    BY <1>2, <1>6 DEF Routine, R, I, Eax, Ebx, Ecx, Edx, L
<1>7. CASE l = "mul"
    BY <1>2, <1>7 DEF Routine, R, I, Eax, Ebx, Ecx, Edx, L
<1>8. CASE l = "imul"
    BY <1>2, <1>8 DEF Routine, R, I, Eax, Ebx, Ecx, Edx, L
<1>9. CASE l = "imul2"
    BY <1>2, <1>9 DEF Routine, R, I, Eax, Ebx, Ecx, Edx, L
<1>10. CASE l = "div"
    BY <1>2, <1>10 DEF Routine, R, I, Eax, Ebx, Ecx, Edx, L
<1>11. CASE l = "idiv"
    BY <1>2, <1>11 DEF Routine, R, I, Eax, Ebx, Ecx, Edx, L
<1>12. CASE l = "abs"
    BY <1>2, <1>12 DEF Routine, R, I, Eax, Ebx, Ecx, Edx, L
<1>13. CASE l = "half"
    BY <1>2, <1>13 DEF Routine, R, I, Eax, Ebx, Ecx, Edx, L
<1>14. CASE l = "sext"
    BY <1>2, <1>14 DEF Routine, R, I, Eax, Ebx, Ecx, Edx, L
<1>15. CASE l = "bool"
    BY <1>2, <1>15 DEF Routine, R, I, Eax, Ebx, Ecx, Edx, L
<1>16. CASE l = "minus"
    BY <1>2, <1>16 DEF Routine, R, I, Eax, Ebx, Ecx, Edx, L
<1>17. CASE l = "mask"
    BY <1>2, <1>17 DEF Routine, R, I, Eax, Ebx, Ecx, Edx, L
<1> QED BY <1>3, <1>4, <1>5, <1>6, <1>7, <1>8, <1>9, <1>10, <1>11,
           <1>12, <1>13, <1>14, <1>15, <1>16, <1>17 DEF Plain

\* All instructions of these routines are simple.
LEMMA PlainIsSimple ==
    ASSUME NEW l \in Plain, Code = RoutineCode, NEW k \in 1 .. Len(Code[l])
    PROVE  Simple(Code[l][k])
<1> DEFINE i == Code[l][k]
<1>1. ASSUME NEW n \in TwoOps \cup {"cmp"}, NEW s \in DataRegs, NEW d \in DataRegs,
             i = <<n, <<"reg", s>>, <<"reg", d>>, Long>>
      PROVE  Simple(i)
    <2>1. Operand(<<"reg", s>>)
        BY DEF Operand
    <2> HIDE DEF i
    <2>2. \E m \in TwoOps \cup {"cmp"}, e \in DataRegs : \E o :
              Operand(o) /\ i = <<m, o, <<"reg", e>>, Long>>
        BY <1>1, <2>1
    <2> QED BY <2>2 DEF Simple
<1>2. ASSUME NEW n \in TwoOps, NEW m \in Word, NEW d \in DataRegs,
             i = <<n, <<"imm", m>>, <<"reg", d>>, Long>>
      PROVE  Simple(i)
    <2>1. Operand(<<"imm", m>>)
        BY DEF Operand
    <2> HIDE DEF i
    <2>2. \E p \in TwoOps \cup {"cmp"}, e \in DataRegs : \E o :
              Operand(o) /\ i = <<p, o, <<"reg", e>>, Long>>
        BY <1>2, <2>1
    <2> QED BY <2>2 DEF Simple
<1>3. ASSUME NEW n \in {"neg", "not", "inc", "dec"}, NEW d \in DataRegs,
             i = <<n, <<"reg", d>>, Long>>
      PROVE  Simple(i)
    BY <1>3 DEF Simple
<1>4. ASSUME NEW n \in {"mul", "imul", "div", "idiv"}, NEW s \in DataRegs,
             i = <<n, <<"reg", s>>>>
      PROVE  Simple(i)
    BY <1>4 DEF Simple
<1>5. ASSUME i = <<"cltd">> PROVE Simple(i)
    BY <1>5 DEF Simple
<1>6. {"eax", "ebx", "ecx", "edx"} \subseteq DataRegs
    BY DEF DataRegs
<1>8. CASE l = "add64"
    <2>1. k \in 1 .. 2
        BY <1>8, PlainCode
    <2>2. ASSUME k = 1 PROVE Simple(i)
        <3>1. i = <<"add", <<"reg", "eax">>, <<"reg", "ecx">>, Long>>
            BY <1>8, <2>2, PlainCode
        <3> QED BY <1>1, <1>6, <3>1 DEF TwoOps
    <2>3. ASSUME k = 2 PROVE Simple(i)
        <3>1. i = <<"adc", <<"reg", "ebx">>, <<"reg", "edx">>, Long>>
            BY <1>8, <2>3, PlainCode
        <3> QED BY <1>1, <1>6, <3>1 DEF TwoOps
    <2> QED BY <2>1, <2>2, <2>3
<1>9. CASE l = "sub64"
    <2>1. k \in 1 .. 2
        BY <1>9, PlainCode
    <2>2. ASSUME k = 1 PROVE Simple(i)
        <3>1. i = <<"sub", <<"reg", "eax">>, <<"reg", "ecx">>, Long>>
            BY <1>9, <2>2, PlainCode
        <3> QED BY <1>1, <1>6, <3>1 DEF TwoOps
    <2>3. ASSUME k = 2 PROVE Simple(i)
        <3>1. i = <<"sbb", <<"reg", "ebx">>, <<"reg", "edx">>, Long>>
            BY <1>9, <2>3, PlainCode
        <3> QED BY <1>1, <1>6, <3>1 DEF TwoOps
    <2> QED BY <2>1, <2>2, <2>3
<1>10. CASE l = "cmp64"
    <2>1. k \in 1 .. 2
        BY <1>10, PlainCode
    <2>2. ASSUME k = 1 PROVE Simple(i)
        <3>1. i = <<"cmp", <<"reg", "eax">>, <<"reg", "ecx">>, Long>>
            BY <1>10, <2>2, PlainCode
        <3> QED BY <1>1, <1>6, <3>1 DEF TwoOps
    <2>3. ASSUME k = 2 PROVE Simple(i)
        <3>1. i = <<"sbb", <<"reg", "ebx">>, <<"reg", "edx">>, Long>>
            BY <1>10, <2>3, PlainCode
        <3> QED BY <1>1, <1>6, <3>1 DEF TwoOps
    <2> QED BY <2>1, <2>2, <2>3
<1>11. CASE l = "neg64"
    <2>1. k \in 1 .. 3
        BY <1>11, PlainCode
    <2>2. ASSUME k = 1 PROVE Simple(i)
        <3>1. i = <<"neg", <<"reg", "eax">>, Long>>
            BY <1>11, <2>2, PlainCode
        <3> QED BY <1>3, <1>6, <3>1 DEF TwoOps
    <2>3. ASSUME k = 2 PROVE Simple(i)
        <3>1. i = <<"adc", <<"imm", 0>>, <<"reg", "edx">>, Long>>
            BY <1>11, <2>3, PlainCode
        <3> QED BY <1>2, ShiftCounts, <1>6, <3>1 DEF TwoOps
    <2>4. ASSUME k = 3 PROVE Simple(i)
        <3>1. i = <<"neg", <<"reg", "edx">>, Long>>
            BY <1>11, <2>4, PlainCode
        <3> QED BY <1>3, <1>6, <3>1 DEF TwoOps
    <2> QED BY <2>1, <2>2, <2>3, <2>4
<1>12. CASE l = "mul"
    <2>1. k \in 1 .. 1
        BY <1>12, PlainCode
    <2>2. ASSUME k = 1 PROVE Simple(i)
        <3>1. i = <<"mul", <<"reg", "ebx">>>>
            BY <1>12, <2>2, PlainCode
        <3> QED BY <1>4, <1>6, <3>1 DEF TwoOps
    <2> QED BY <2>1, <2>2
<1>13. CASE l = "imul"
    <2>1. k \in 1 .. 1
        BY <1>13, PlainCode
    <2>2. ASSUME k = 1 PROVE Simple(i)
        <3>1. i = <<"imul", <<"reg", "ebx">>>>
            BY <1>13, <2>2, PlainCode
        <3> QED BY <1>4, <1>6, <3>1 DEF TwoOps
    <2> QED BY <2>1, <2>2
<1>14. CASE l = "imul2"
    <2>1. k \in 1 .. 1
        BY <1>14, PlainCode
    <2>2. ASSUME k = 1 PROVE Simple(i)
        <3>1. i = <<"imul2", <<"reg", "ebx">>, <<"reg", "eax">>, Long>>
            BY <1>14, <2>2, PlainCode
        <3> QED BY <1>1, <1>6, <3>1 DEF TwoOps
    <2> QED BY <2>1, <2>2
<1>15. CASE l = "div"
    <2>1. k \in 1 .. 2
        BY <1>15, PlainCode
    <2>2. ASSUME k = 1 PROVE Simple(i)
        <3>1. i = <<"xor", <<"reg", "edx">>, <<"reg", "edx">>, Long>>
            BY <1>15, <2>2, PlainCode
        <3> QED BY <1>1, <1>6, <3>1 DEF TwoOps
    <2>3. ASSUME k = 2 PROVE Simple(i)
        <3>1. i = <<"div", <<"reg", "ebx">>>>
            BY <1>15, <2>3, PlainCode
        <3> QED BY <1>4, <1>6, <3>1 DEF TwoOps
    <2> QED BY <2>1, <2>2, <2>3
<1>16. CASE l = "idiv"
    <2>1. k \in 1 .. 2
        BY <1>16, PlainCode
    <2>2. ASSUME k = 1 PROVE Simple(i)
        <3>1. i = <<"cltd">>
            BY <1>16, <2>2, PlainCode
        <3> QED BY <1>5, <1>6, <3>1 DEF TwoOps
    <2>3. ASSUME k = 2 PROVE Simple(i)
        <3>1. i = <<"idiv", <<"reg", "ebx">>>>
            BY <1>16, <2>3, PlainCode
        <3> QED BY <1>4, <1>6, <3>1 DEF TwoOps
    <2> QED BY <2>1, <2>2, <2>3
<1>17. CASE l = "abs"
    <2>1. k \in 1 .. 3
        BY <1>17, PlainCode
    <2>2. ASSUME k = 1 PROVE Simple(i)
        <3>1. i = <<"cltd">>
            BY <1>17, <2>2, PlainCode
        <3> QED BY <1>5, <1>6, <3>1 DEF TwoOps
    <2>3. ASSUME k = 2 PROVE Simple(i)
        <3>1. i = <<"xor", <<"reg", "edx">>, <<"reg", "eax">>, Long>>
            BY <1>17, <2>3, PlainCode
        <3> QED BY <1>1, <1>6, <3>1 DEF TwoOps
    <2>4. ASSUME k = 3 PROVE Simple(i)
        <3>1. i = <<"sub", <<"reg", "edx">>, <<"reg", "eax">>, Long>>
            BY <1>17, <2>4, PlainCode
        <3> QED BY <1>1, <1>6, <3>1 DEF TwoOps
    <2> QED BY <2>1, <2>2, <2>3, <2>4
<1>18. CASE l = "half"
    <2>1. k \in 1 .. 4
        BY <1>18, PlainCode
    <2>2. ASSUME k = 1 PROVE Simple(i)
        <3>1. i = <<"mov", <<"reg", "eax">>, <<"reg", "edx">>, Long>>
            BY <1>18, <2>2, PlainCode
        <3> QED BY <1>1, <1>6, <3>1 DEF TwoOps
    <2>3. ASSUME k = 2 PROVE Simple(i)
        <3>1. i = <<"shr", <<"imm", Long - 1>>, <<"reg", "edx">>, Long>>
            BY <1>18, <2>3, PlainCode
        <3> QED BY <1>2, ShiftCounts, <1>6, <3>1 DEF TwoOps
    <2>4. ASSUME k = 3 PROVE Simple(i)
        <3>1. i = <<"add", <<"reg", "edx">>, <<"reg", "eax">>, Long>>
            BY <1>18, <2>4, PlainCode
        <3> QED BY <1>1, <1>6, <3>1 DEF TwoOps
    <2>5. ASSUME k = 4 PROVE Simple(i)
        <3>1. i = <<"sar", <<"imm", 1>>, <<"reg", "eax">>, Long>>
            BY <1>18, <2>5, PlainCode
        <3> QED BY <1>2, ShiftCounts, <1>6, <3>1 DEF TwoOps
    <2> QED BY <2>1, <2>2, <2>3, <2>4, <2>5
<1>19. CASE l = "sext"
    <2>1. k \in 1 .. 3
        BY <1>19, PlainCode
    <2>2. ASSUME k = 1 PROVE Simple(i)
        <3>1. i = <<"movs", <<"reg", "eax">>, <<"reg", "ebx">>, Long>>
            BY <1>19, <2>2, PlainCode
        <3> QED BY <1>1, <1>6, <3>1 DEF TwoOps
    <2>3. ASSUME k = 2 PROVE Simple(i)
        <3>1. i = <<"shl", <<"imm", Long - ByteBits>>, <<"reg", "eax">>, Long>>
            BY <1>19, <2>3, PlainCode
        <3> QED BY <1>2, ShiftCounts, <1>6, <3>1 DEF TwoOps
    <2>4. ASSUME k = 3 PROVE Simple(i)
        <3>1. i = <<"sar", <<"imm", Long - ByteBits>>, <<"reg", "eax">>, Long>>
            BY <1>19, <2>4, PlainCode
        <3> QED BY <1>2, ShiftCounts, <1>6, <3>1 DEF TwoOps
    <2> QED BY <2>1, <2>2, <2>3, <2>4
<1>20. CASE l = "bool"
    <2>1. k \in 1 .. 3
        BY <1>20, PlainCode
    <2>2. ASSUME k = 1 PROVE Simple(i)
        <3>1. i = <<"neg", <<"reg", "eax">>, Long>>
            BY <1>20, <2>2, PlainCode
        <3> QED BY <1>3, <1>6, <3>1 DEF TwoOps
    <2>3. ASSUME k = 2 PROVE Simple(i)
        <3>1. i = <<"sbb", <<"reg", "eax">>, <<"reg", "eax">>, Long>>
            BY <1>20, <2>3, PlainCode
        <3> QED BY <1>1, <1>6, <3>1 DEF TwoOps
    <2>4. ASSUME k = 3 PROVE Simple(i)
        <3>1. i = <<"neg", <<"reg", "eax">>, Long>>
            BY <1>20, <2>4, PlainCode
        <3> QED BY <1>3, <1>6, <3>1 DEF TwoOps
    <2> QED BY <2>1, <2>2, <2>3, <2>4
<1>21. CASE l = "minus"
    <2>1. k \in 1 .. 2
        BY <1>21, PlainCode
    <2>2. ASSUME k = 1 PROVE Simple(i)
        <3>1. i = <<"not", <<"reg", "eax">>, Long>>
            BY <1>21, <2>2, PlainCode
        <3> QED BY <1>3, <1>6, <3>1 DEF TwoOps
    <2>3. ASSUME k = 2 PROVE Simple(i)
        <3>1. i = <<"inc", <<"reg", "eax">>, Long>>
            BY <1>21, <2>3, PlainCode
        <3> QED BY <1>3, <1>6, <3>1 DEF TwoOps
    <2> QED BY <2>1, <2>2, <2>3
<1>22. CASE l = "mask"
    <2>1. k \in 1 .. 5
        BY <1>22, PlainCode
    <2>2. ASSUME k = 1 PROVE Simple(i)
        <3>1. i = <<"mov", <<"reg", "eax">>, <<"reg", "ecx">>, Long>>
            BY <1>22, <2>2, PlainCode
        <3> QED BY <1>1, <1>6, <3>1 DEF TwoOps
    <2>3. ASSUME k = 2 PROVE Simple(i)
        <3>1. i = <<"and", <<"reg", "ebx">>, <<"reg", "ecx">>, Long>>
            BY <1>22, <2>3, PlainCode
        <3> QED BY <1>1, <1>6, <3>1 DEF TwoOps
    <2>4. ASSUME k = 3 PROVE Simple(i)
        <3>1. i = <<"not", <<"reg", "ebx">>, Long>>
            BY <1>22, <2>4, PlainCode
        <3> QED BY <1>3, <1>6, <3>1 DEF TwoOps
    <2>5. ASSUME k = 4 PROVE Simple(i)
        <3>1. i = <<"and", <<"reg", "eax">>, <<"reg", "ebx">>, Long>>
            BY <1>22, <2>5, PlainCode
        <3> QED BY <1>1, <1>6, <3>1 DEF TwoOps
    <2>6. ASSUME k = 5 PROVE Simple(i)
        <3>1. i = <<"or", <<"reg", "ecx">>, <<"reg", "ebx">>, Long>>
            BY <1>22, <2>6, PlainCode
        <3> QED BY <1>1, <1>6, <3>1 DEF TwoOps
    <2> QED BY <2>1, <2>2, <2>3, <2>4, <2>5, <2>6
<1> QED BY <1>8, <1>9, <1>10, <1>11, <1>12, <1>13, <1>14, <1>15, <1>16, <1>17, <1>18,
           <1>19, <1>20, <1>21, <1>22 DEF Plain

\* t[1] to t[k] are the registers and flags before the first k instructions of
\* the routine, which leads from the registers w to rg and f.
Traced(l, k, w, rg, f) ==
    \E t : /\ t[1][1] = w /\ t[k][1] = rg /\ t[k][2] = f
           /\ \A j \in 1 .. k : Ready(t[j][1], t[j][2])
           /\ \A j \in 1 .. k - 1 : Runs(Code[l][j], t[j][1], t[j][2], t[j + 1][1], t[j + 1][2])

\* A trace before the first instruction.
LEMMA TraceStarts ==
    ASSUME NEW l, NEW w, NEW f, Ready(w, f)
    PROVE  Traced(l, 1, w, w, f)
<1> DEFINE t == [j \in 1 .. 1 |-> <<w, f>>]
<1>1. t[1] = <<w, f>> /\ 1 .. 1 - 1 = {}
    OBVIOUS
<1>2. \A j \in 1 .. 1 : t[j] = <<w, f>>
    OBVIOUS
<1> HIDE DEF t
<1> QED BY <1>1, <1>2 DEF Traced

\* One more instruction lengthens a trace.
LEMMA TraceNext ==
    ASSUME NEW l, NEW k \in Nat \ {0}, NEW w, NEW rg, NEW f, NEW rg2, NEW f2,
           Traced(l, k, w, rg, f), Runs(Code[l][k], rg, f, rg2, f2), Ready(rg2, f2)
    PROVE  Traced(l, k + 1, w, rg2, f2)
<1>1. PICK t : /\ t[1][1] = w /\ t[k][1] = rg /\ t[k][2] = f
               /\ \A j \in 1 .. k : Ready(t[j][1], t[j][2])
               /\ \A j \in 1 .. k - 1 :
                      Runs(Code[l][j], t[j][1], t[j][2], t[j + 1][1], t[j + 1][2])
    BY DEF Traced
<1> DEFINE u == [j \in 1 .. k + 1 |-> IF j = k + 1 THEN <<rg2, f2>> ELSE t[j]]
<1>2. u[k + 1] = <<rg2, f2>> /\ \A j \in 1 .. k : u[j] = t[j]
    OBVIOUS
<1> HIDE DEF u
<1>3. u[1][1] = w
    BY <1>1, <1>2
<1>4. \A j \in 1 .. k + 1 : Ready(u[j][1], u[j][2])
    <2>1. \A j \in 1 .. k + 1 : j \in 1 .. k \/ j = k + 1
        OBVIOUS
    <2> QED BY <1>1, <1>2, <2>1
<1>5. ASSUME NEW j \in 1 .. k
      PROVE  Runs(Code[l][j], u[j][1], u[j][2], u[j + 1][1], u[j + 1][2])
    <2>1. CASE j = k
        <3>1. u[j][1] = rg /\ u[j][2] = f /\ u[j + 1] = <<rg2, f2>>
            BY <1>1, <1>2, <2>1
        <3> QED BY <2>1, <3>1
    <2>2. CASE j \in 1 .. k - 1
        <3>1. u[j] = t[j] /\ u[j + 1] = t[j + 1]
            BY <1>2, <2>2
        <3> QED BY <1>1, <2>2, <3>1
    <2> QED BY <2>1, <2>2
<1>6. \A j \in 1 .. (k + 1) - 1 :
          Runs(Code[l][j], u[j][1], u[j][2], u[j + 1][1], u[j + 1][2])
    BY <1>5
<1> QED BY <1>2, <1>3, <1>4, <1>6 DEF Traced

\* What a trace says, from its end: its start, and its last instruction.
LEMMA TraceFirst ==
    ASSUME NEW l, NEW w, NEW rg, NEW f, Traced(l, 1, w, rg, f)
    PROVE  rg = w /\ Ready(w, f)
<1>1. PICK t : t[1][1] = w /\ t[1][1] = rg /\ t[1][2] = f
           /\ \A j \in 1 .. 1 : Ready(t[j][1], t[j][2])
    BY DEF Traced
<1> QED BY <1>1

\* A trace ends with its last instruction.
LEMMA TraceLast ==
    ASSUME NEW l, NEW k \in Nat \ {0}, NEW w, NEW rg, NEW f, Traced(l, k + 1, w, rg, f)
    PROVE  /\ Ready(rg, f)
           /\ \E rg1, f1 : /\ Traced(l, k, w, rg1, f1) /\ Ready(rg1, f1)
                           /\ Runs(Code[l][k], rg1, f1, rg, f)
<1>1. PICK t : /\ t[1][1] = w /\ t[k + 1][1] = rg /\ t[k + 1][2] = f
               /\ \A j \in 1 .. k + 1 : Ready(t[j][1], t[j][2])
               /\ \A j \in 1 .. (k + 1) - 1 :
                      Runs(Code[l][j], t[j][1], t[j][2], t[j + 1][1], t[j + 1][2])
    BY DEF Traced
<1>2. /\ k \in 1 .. k + 1 /\ k + 1 \in 1 .. k + 1 /\ k \in 1 .. (k + 1) - 1
      /\ \A j \in 1 .. k : j \in 1 .. k + 1
      /\ \A j \in 1 .. k - 1 : j \in 1 .. (k + 1) - 1
    OBVIOUS
<1>3. Ready(rg, f) /\ Ready(t[k][1], t[k][2]) /\ Runs(Code[l][k], t[k][1], t[k][2], rg, f)
    <2>1. t[k + 1][1] = rg /\ t[k + 1][2] = f
        BY <1>1
    <2> QED BY <1>1, <1>2, <2>1
<1>4. \A j \in 1 .. k : Ready(t[j][1], t[j][2])
    BY <1>1, <1>2
<1>5. \A j \in 1 .. k - 1 : Runs(Code[l][j], t[j][1], t[j][2], t[j + 1][1], t[j + 1][2])
    BY <1>1, <1>2
<1>6. PICK rg1, f1 : rg1 = t[k][1] /\ f1 = t[k][2]
    OBVIOUS
<1> QED BY <1>1, <1>3, <1>4, <1>5, <1>6 DEF Traced

\* The routine is before one of its instructions, or behind the last, with
\* registers and flags that its instructions have made of those at the start.
Stands(l, k, w) == \E rg, f : Within(<<l, k>>, rg, f) /\ Ready(rg, f) /\ Traced(l, k, w, rg, f)

\* The inductive invariant of a routine without a jump.  An interrupt is where it
\* was a step before: Within stands for a handler that runs between two instructions.
PlainAt ==
    given.label \in Plain =>
        /\ Stacked /\ irqs \in {0, 1}
        /\ given.label = "idiv" => ~(Was["eax"] = Smallest /\ Was["ebx"] = 2^L - 1)
        /\ \E k \in 1 .. Len(Code[given.label]) + 1 : Stands(given.label, k, Was)

\* The operands and interrupts of these routines.
LEMMA PlainOperands ==
    ASSUME NEW l \in Plain
    PROVE  /\ l \in Labels /\ Irqs[l] \in {0, 1} /\ Operands[l] \subseteq In(Word, Word, Word, Word)
           /\ l = "idiv" => \A d \in Operands[l] : ~(d.eax = Smallest /\ d.ebx = 2^L - 1)
<1>1. l \in Labels
    BY DEF Labels, Routine, Plain
<1>2. Irqs[l] \in {0, 1}
    BY <1>1 DEF Irqs, Plain
<1>3. 0 \in Word
    BY LongFacts
<1>4. CASE l \in {"add64", "sub64", "cmp64"}
    <2>1. Operands[l] = In(Word, Word, Word, Word)
        BY <1>1, <1>4 DEF Operands, W
    <2> QED BY <1>1, <1>2, <1>4, <2>1
<1>5. CASE l = "neg64"
    <2>1. Operands[l] = In(Word, {0}, Word, {0})
        BY <1>1, <1>5 DEF Operands, W, Z
    <2> QED BY <1>1, <1>2, <1>3, <1>5, <2>1 DEF In
<1>6. CASE l \in {"mul", "imul", "imul2", "mask"}
    <2>1. Operands[l] = In(Word, {0}, {0}, Word)
        BY <1>1, <1>6 DEF Operands, W, Z
    <2> QED BY <1>1, <1>2, <1>3, <1>6, <2>1 DEF In
<1>7. CASE l = "div"
    <2>1. Operands[l] = In(Word, {0}, Word, Word \ {0})
        BY <1>1, <1>7 DEF Operands, W, Z
    <2> QED BY <1>1, <1>2, <1>3, <1>7, <2>1 DEF In
<1>8. CASE l = "idiv"
    <2>1. Operands[l] = {r \in In(Word, {0}, {0}, Word \ {0}) :
                             ~(r.eax = Smallest /\ r.ebx = 2^L - 1)}
        BY <1>1, <1>8 DEF Operands, W, Z
    <2> QED BY <1>1, <1>2, <1>3, <1>8, <2>1 DEF In
<1>9. CASE l \in {"abs", "half", "sext", "bool", "minus"}
    <2>1. Operands[l] = In(Word, {0}, {0}, {0})
        BY <1>1, <1>9 DEF Operands, W, Z
    <2> QED BY <1>1, <1>2, <1>3, <1>9, <2>1 DEF In
<1> QED BY <1>4, <1>5, <1>6, <1>7, <1>8, <1>9 DEF Plain

\* A routine starts with an empty trace.
LEMMA PlainStarts == ASSUME RInit, Code = RoutineCode PROVE PlainAt
<1> SUFFICES ASSUME given.label \in Plain
             PROVE  /\ Stacked /\ irqs \in {0, 1}
                    /\ given.label = "idiv" => ~(Was["eax"] = Smallest /\ Was["ebx"] = 2^L - 1)
                    /\ \E k \in 1 .. Len(Code[given.label]) + 1 : Stands(given.label, k, Was)
    BY DEF PlainAt
<1>1. PICK l \in Labels :
          /\ \E d \in Operands[l], s \in Pointers(l) : reg = Start(d, s)
          /\ eip = <<l, 1>> /\ irqs = Irqs[l] /\ fl = Flags0
          /\ cells = [a \in 0 .. Cells - 1 |-> Stored(a)]
          /\ given.label = l /\ given.reg = reg
    BY DEF RInit
<1>2. l \in Plain
    BY <1>1
<1>3. PICK d \in Operands[l], s \in [esi : {1}, edi : {2}] : reg = Start(d, s)
    <2>1. Pointers(l) = [esi : {1}, edi : {2}]
        BY <1>2, Zenon DEF Pointers, Plain
    <2> QED BY <1>1, <2>1
<1>4. /\ d \in In(Word, Word, Word, Word) /\ irqs \in {0, 1}
      /\ l = "idiv" => ~(d.eax = Smallest /\ d.ebx = 2^L - 1)
    BY <1>1, <1>2, <1>3, PlainOperands
<1>5. /\ reg["eax"] = d.eax /\ reg["ebx"] = d.ebx /\ reg["ecx"] = d.ecx /\ reg["edx"] = d.edx
      /\ Whole(reg)
    BY <1>3 DEF Start, DataRegs, Whole, Registers
<1>6. reg["esp"] = Cells
    BY <1>3 DEF Start, DataRegs, AddrRegs
<1>7. fl \in Flags
    BY <1>1 DEF Flags0, Flags, Arithmetic
<1>8. Ready(reg, fl)
    BY <1>4, <1>5, <1>6, <1>7 DEF Ready, In, DataRegs
<1>9. Stacked
    BY <1>1 DEF Stacked
<1>10. Within(<<given.label, 1>>, Was, fl) /\ Was = reg
    BY <1>1 DEF Within, Was
<1>11. Traced(given.label, 1, Was, Was, fl)
    <2>1. PICK w, f : w = reg /\ f = fl
        OBVIOUS
    <2> QED BY <1>8, <1>10, <2>1, TraceStarts
<1>12. Stands(given.label, 1, Was)
    BY <1>8, <1>10, <1>11 DEF Stands
<1>13. 1 \in 1 .. Len(Code[given.label]) + 1
    BY <1>2, <1>1, PlainCode DEF Plain
<1> QED BY <1>1, <1>4, <1>5, <1>9, <1>10, <1>12, <1>13

\* Every step executes the next instruction, or belongs to an interrupt.
LEMMA PlainStep ==
    ASSUME PlainAt, [CpuNext \/ Done]_cpuvars, Deep, Code = RoutineCode
    PROVE  PlainAt'
<1> DEFINE l == given.label
<1>1. CASE UNCHANGED cpuvars
    <2>1. UNCHANGED <<eip, reg, fl, cells, irqs, given>>
        BY <1>1 DEF cpuvars, cpu
    <2> SUFFICES ASSUME l \in Plain
                 PROVE  Stacked' /\ \E k \in 1 .. Len(Code[l]) + 1 : Stands(l, k, Was)'
        BY <2>1 DEF PlainAt, Was
    <2>2. Stacked'
        BY <2>1 DEF PlainAt, Stacked
    <2>3. PICK k \in 1 .. Len(Code[l]) + 1 : Stands(l, k, Was)
        BY DEF PlainAt
    <2>4. PICK rg, f : Within(<<l, k>>, rg, f) /\ Ready(rg, f) /\ Traced(l, k, Was, rg, f)
        BY <2>3 DEF Stands
    <2>5. PICK b, w, n : b = <<l, k>> /\ w = Was /\ n = l
        OBVIOUS
    <2>6. Within(b, rg, f)'
        BY <2>1, <2>4, <2>5, WithinSame
    <2>7. Traced(n, k, w, rg, f)
        BY <2>4, <2>5
    <2>8. <<l, k>>' = b /\ Was' = w /\ l' = n
        BY <2>1, <2>5 DEF Was
    <2>9. Within(<<l, k>>, rg, f)' /\ Ready(rg, f)' /\ Traced(l, k, Was, rg, f)'
        BY <2>4, <2>6, <2>7, <2>8
    <2> QED BY <2>2, <2>3, <2>9 DEF Stands
<1>2. CASE Done
    BY <1>1, <1>2 DEF Done
<1>3. ASSUME CpuNext, l \in Plain PROVE PlainAt'
    <2>1. /\ Stacked /\ irqs \in {0, 1}
          /\ l = "idiv" => ~(Was["eax"] = Smallest /\ Was["ebx"] = 2^L - 1)
        BY <1>3 DEF PlainAt
    <2>2. PICK k \in 1 .. Len(Code[l]) + 1 : Stands(l, k, Was)
        BY <1>3 DEF PlainAt
    <2>3. PICK rg, f : Within(<<l, k>>, rg, f) /\ Ready(rg, f) /\ Traced(l, k, Was, rg, f)
        BY <2>2 DEF Stands
    <2>4. PICK b, w, n : b = <<l, k>> /\ w = Was /\ n = l
        OBVIOUS
    <2>5. /\ given' = given /\ irqs' \in {0, 1}
          /\ \/ Stacked' /\ DataSame /\ Within(b, rg, f)'
             \/ eip = b /\ reg = rg /\ fl = f /\ ExecInst
        BY <1>3, <2>1, <2>3, <2>4, InterruptsTransparent DEF Ready
    <2>6. l' = n /\ Was' = w
        BY <2>4, <2>5 DEF Was
    <2>7. Traced(n, k, w, rg, f)
        BY <2>3, <2>4
    <2>8. ASSUME NEW j \in 1 .. Len(Code[l]) + 1, Stacked', Stands(n, j, w)' PROVE PlainAt'
        BY <2>1, <2>4, <2>5, <2>6, <2>8 DEF PlainAt
    <2>9. CASE Stacked' /\ DataSame /\ Within(b, rg, f)'
        <3>1. Stands(n, k, w)'
            BY <2>3, <2>4, <2>7, <2>9 DEF Stands
        <3> QED BY <2>8, <2>9, <3>1
    <2>10. CASE eip = b /\ reg = rg /\ fl = f /\ ExecInst
        <3> DEFINE i == Code[n][k]
        <3>1. eip = <<n, k>> /\ n \in Plain
            BY <1>3, <2>4, <2>10
        <3>2. k \in 1 .. Len(Code[n]) /\ Inst = i
            <4>1. k \in Nat
                OBVIOUS
            <4> HIDE DEF i
            <4> QED BY <1>3, <2>4, <3>1, NextRuns DEF Running, Inst, i
        <3>3. Simple(i)
            BY <3>1, <3>2, PlainIsSimple
        <3>4. Integer(i) \/ X87(i)
            BY <2>10, <3>2 DEF ExecInst
        <3> HIDE DEF i
        <3>5. cells' = cells /\ NextInst /\ Runs(i, reg, fl, reg', fl') /\ Ready(reg', fl')
            BY <2>3, <2>10, <3>3, <3>4, SimpleRuns
        <3>6. Stacked'
            BY <2>1, <3>5 DEF Stacked
        <3>7. eip' = <<n, k + 1>>
            BY <3>1, <3>5 DEF NextInst, Goto
        <3>8. PICK rg2, f2 : rg2 = reg' /\ f2 = fl'
            OBVIOUS
        <3>9. Runs(i, rg, f, rg2, f2) /\ Ready(rg2, f2)
            BY <2>10, <3>5, <3>8
        <3>10. Traced(n, k + 1, w, rg2, f2)
            <4>1. k \in Nat \ {0}
                BY <3>2
            <4> QED BY <2>7, <3>9, <4>1, TraceNext DEF i
        <3>11. Within(<<n, k + 1>>, rg2, f2)'
            BY <3>7, <3>8 DEF Within
        <3>12. Stands(n, k + 1, w)'
            BY <3>9, <3>10, <3>11 DEF Stands
        <3>13. k + 1 \in 1 .. Len(Code[l]) + 1
            BY <2>4, <3>2
        <3> QED BY <2>8, <3>6, <3>12, <3>13
    <2> QED BY <2>5, <2>9, <2>10
<1>4. ASSUME CpuNext, l \notin Plain PROVE PlainAt'
    <2>1. given' = given
        BY <1>4 DEF CpuNext, ExecInst, DoIntr
    <2> QED BY <1>4, <2>1 DEF PlainAt
<1> QED BY <1>1, <1>2, <1>3, <1>4

\* At its end the registers and flags are what all its instructions make.
LEMMA PlainEnds ==
    ASSUME PlainAt, NEW l \in Plain, Returned({l}), Code = RoutineCode
    PROVE  /\ Traced(l, Len(Code[l]) + 1, Was, reg, fl)
           /\ l = "idiv" => ~(Was["eax"] = Smallest /\ Was["ebx"] = 2^L - 1)
<1>1. given.label = l /\ eip = <<l, Len(Code[l]) + 1>>
    BY DEF Returned
<1>2. l = "idiv" => ~(Was["eax"] = Smallest /\ Was["ebx"] = 2^L - 1)
    BY <1>1 DEF PlainAt
<1>3. PICK k \in 1 .. Len(Code[l]) + 1 : Stands(l, k, Was)
    BY <1>1 DEF PlainAt
<1>4. PICK rg, f : Within(<<l, k>>, rg, f) /\ Traced(l, k, Was, rg, f)
    BY <1>3 DEF Stands
<1>5. eip[1] \notin {"irq0", "irq_handle"}
    BY <1>1 DEF Plain
<1>6. ~Handling(<<l, k>>, rg, f)
    BY <1>5 DEF Handling, StackFrame
<1>7. eip = <<l, k>> /\ reg = rg /\ fl = f
    BY <1>4, <1>6 DEF Within
<1>8. k = Len(Code[l]) + 1
    BY <1>1, <1>7
<1> QED BY <1>2, <1>4, <1>7, <1>8

-----------------------------------------------------------------------------
(* What a short routine leaves.                                            *)

\* A trace of one instruction.
LEMMA OneRuns ==
    ASSUME NEW l, NEW w, NEW rg, NEW f, Traced(l, 2, w, rg, f)
    PROVE  \E f0 : Ready(w, f0) /\ Runs(Code[l][1], w, f0, rg, f) /\ Ready(rg, f)
<1> DEFINE k == 1
<1>1. k \in Nat \ {0} /\ Traced(l, k + 1, w, rg, f)
    OBVIOUS
<1> HIDE DEF k
<1>2. /\ Ready(rg, f)
      /\ \E rg1, f1 : Traced(l, k, w, rg1, f1) /\ Runs(Code[l][k], rg1, f1, rg, f)
    BY <1>1, TraceLast
<1>3. PICK rg1, f1 : Traced(l, 1, w, rg1, f1) /\ Runs(Code[l][1], rg1, f1, rg, f)
    BY <1>2 DEF k
<1>4. rg1 = w /\ Ready(w, f1)
    BY <1>3, TraceFirst
<1> QED BY <1>2, <1>3, <1>4

\* A longer trace: its last instruction, and the trace before it.
LEMMA MoreRuns ==
    ASSUME NEW l, NEW k \in 2 .. 5, NEW w, NEW rg, NEW f, Traced(l, k + 1, w, rg, f)
    PROVE  /\ Ready(rg, f)
           /\ \E rg1, f1 : /\ Traced(l, k, w, rg1, f1) /\ Ready(rg1, f1)
                           /\ Runs(Code[l][k], rg1, f1, rg, f)
<1>1. k \in Nat \ {0}
    OBVIOUS
<1> QED BY <1>1, TraceLast

\* The registers that an instruction with two operands leaves.
LEMMA TwoOpLeaves ==
    ASSUME NEW n \in TwoOps, NEW o, NEW d \in DataRegs, NEW rg, NEW f, NEW rg2, NEW f2,
           Ready(rg, f), Runs(<<n, o, <<"reg", d>>, Long>>, rg, f, rg2, f2)
    PROVE  /\ Leaves(n, f, Value(rg, o), rg[d], rg2[d], f2)
           /\ \A r \in DataRegs : r # d => rg2[r] = rg[r]
<1> DEFINE i == <<n, o, <<"reg", d>>, Long>>
<1>1. i[1] = n /\ i[2] = o /\ i[3][2] = d
    OBVIOUS
<1> HIDE DEF i
<1>2. PICK v : Leaves(n, f, Value(rg, o), rg[d], v, f2) /\ rg2 = [rg EXCEPT ![d] = v]
    <2>1. Runs(i, rg, f, rg2, f2)
        BY DEF i
    <2> QED BY <1>1, <2>1 DEF Runs
<1>3. DataRegs \subseteq DOMAIN rg
    BY DEF Ready, Whole, Registers
<1>4. rg2[d] = v /\ \A r \in DataRegs : r # d => rg2[r] = rg[r]
    BY <1>2, <1>3
<1> QED BY <1>2, <1>4

\* The value of a register and of an immediate.
LEMMA Values ==
    ASSUME NEW rg
    PROVE  /\ \A r : Value(rg, <<"reg", r>>) = rg[r]
           /\ \A m : Value(rg, <<"imm", m>>) = m
BY DEF Value

\* The register that an instruction with one operand leaves.
LEMMA OneOpLeaves ==
    ASSUME NEW n \in {"neg", "not", "inc", "dec"}, NEW d \in DataRegs,
           NEW rg, NEW f, NEW rg2, NEW f2,
           Ready(rg, f), Runs(<<n, <<"reg", d>>, Long>>, rg, f, rg2, f2)
    PROVE  /\ n = "neg" => Leaves("sub", f, rg[d], 0, rg2[d], f2)
           /\ n = "not" => f2 = f /\ rg2[d] = Limit - 1 - rg[d]
           /\ n = "inc" => Leaves("add", f, rg[d], 1, rg2[d], f2)
           /\ n = "dec" => Leaves("sub", f, 1, rg[d], rg2[d], f2)
           /\ \A r \in DataRegs : r # d => rg2[r] = rg[r]
<1> DEFINE i == <<n, <<"reg", d>>, Long>>
<1>1. i[1] = n /\ i[2][2] = d
    OBVIOUS
<1> HIDE DEF i
<1>2. Runs(i, rg, f, rg2, f2)
    BY DEF i
<1>3. DataRegs \subseteq DOMAIN rg
    BY DEF Ready, Whole, Registers
<1>4. CASE n = "neg"
    <2>1. PICK v : Leaves("sub", f, rg[d], 0, v, f2) /\ rg2 = [rg EXCEPT ![d] = v]
        BY <1>1, <1>2, <1>4 DEF Runs
    <2> QED BY <1>3, <1>4, <2>1
<1>5. CASE n = "not"
    <2>1. f2 = f /\ rg2 = [rg EXCEPT ![d] = Limit - 1 - rg[d]]
        BY <1>1, <1>2, <1>5 DEF Runs
    <2> QED BY <1>3, <1>5, <2>1
<1>6. CASE n = "inc"
    <2>1. PICK v : Leaves("add", f, rg[d], 1, v, f2) /\ rg2 = [rg EXCEPT ![d] = v]
        BY <1>1, <1>2, <1>6 DEF Runs
    <2> QED BY <1>3, <1>6, <2>1
<1>7. CASE n = "dec"
    <2>1. PICK v : Leaves("sub", f, 1, rg[d], v, f2) /\ rg2 = [rg EXCEPT ![d] = v]
        BY <1>1, <1>2, <1>7 DEF Runs
    <2> QED BY <1>3, <1>7, <2>1
<1> QED BY <1>4, <1>5, <1>6, <1>7

\* The registers that the routines name hold data.
LEMMA FourRegs == {"eax", "ebx", "ecx", "edx"} \subseteq DataRegs
BY DEF DataRegs

\* add64: the first two instructions of a trace, as Leaves says.
LEMMA Add64Ends ==
    ASSUME Code = RoutineCode, NEW w, NEW rg, NEW f, Traced("add64", 3, w, rg, f)
    PROVE  LET sum == Wide(w["edx"], w["ecx"]) + Wide(w["ebx"], w["eax"])
               ssum == SignedWide(w["edx"], w["ecx"]) + SignedWide(w["ebx"], w["eax"])
           IN /\ Wide(rg["edx"], rg["ecx"]) = sum % 2^(2 * L)
              /\ f.CF = Bit(sum >= 2^(2 * L))
              /\ f.OF = Bit(ssum # Signed(ssum, 2 * L))
<1>1. /\ "add64" \in Plain
      /\ Code["add64"][1] = <<"add", <<"reg", "eax">>, <<"reg", "ecx">>, Long>>
      /\ Code["add64"][2] = <<"adc", <<"reg", "ebx">>, <<"reg", "edx">>, Long>>
    <2>1. "add64" \in Plain
        BY DEF Plain
    <2> QED BY <2>1, PlainCode
<1>2. PICK r1, f1 : Traced("add64", 2, w, r1, f1) /\ Ready(r1, f1)
                    /\ Runs(Code["add64"][2], r1, f1, rg, f)
    BY MoreRuns
<1>3. PICK f0 : Ready(w, f0) /\ Runs(Code["add64"][1], w, f0, r1, f1)
    BY <1>2, OneRuns
<1>4. /\ Leaves("add", f0, w["eax"], w["ecx"], r1["ecx"], f1)
      /\ r1["edx"] = w["edx"] /\ r1["ebx"] = w["ebx"]
    BY <1>1, <1>3, TwoOpLeaves, Values, FourRegs DEF TwoOps
<1>5. /\ Leaves("adc", f1, w["ebx"], w["edx"], rg["edx"], f)
      /\ rg["ecx"] = r1["ecx"]
    BY <1>1, <1>2, <1>4, TwoOpLeaves, Values, FourRegs DEF TwoOps
<1> DEFINE a == w["edx"]
           b == w["ecx"]
           c == w["ebx"]
           d == w["eax"]
           k == f1.CF
           lo == AddValue(d, b, Long)
           t == c + a + k
           hi == IF t < Limit THEN t ELSE t - Limit
           h == SignBit(Long)
           sum == Wide(a, b) + Wide(c, d)
           ssum == SignedWide(a, b) + SignedWide(c, d)
<1>6. a \in Word /\ b \in Word /\ c \in Word /\ d \in Word
    BY <1>3, FourRegs DEF Ready
<1>7. /\ r1["ecx"] = lo /\ lo \in Word
      /\ k = Bit(d + b >= Limit)
    BY <1>4 DEF Leaves, Sets
<1>8. /\ rg["edx"] = hi /\ hi \in Word
      /\ f.CF = Bit(t >= Limit)
      /\ f.OF = Bit((c < h <=> a < h) /\ ~(c < h <=> hi < h))
    BY <1>5 DEF Leaves, Sets
<1>9. b + d = d + b
    BY <1>6, RegisterFacts
<1>10. k \in {0, 1} /\ (k = 1 <=> b + d >= Limit)
    BY <1>7, <1>9 DEF Bit
<1> HIDE DEF a, b, c, d, k
<1>11. /\ Wide(hi, lo) = sum % 2^(2 * Long)
       /\ t >= Limit <=> sum >= 2^(2 * Long)
       /\ (c < h <=> a < h) /\ ~(c < h <=> hi < h) <=> ssum # Signed(ssum, 2 * Long)
    BY <1>6, <1>7, <1>8, <1>10, WideSum
<1> HIDE DEF lo, hi, t, sum, ssum, h
<1>12. /\ Wide(rg["edx"], rg["ecx"]) = sum % 2^(2 * L)
       /\ f.CF = Bit(sum >= 2^(2 * L))
       /\ f.OF = Bit(ssum # Signed(ssum, 2 * L))
    BY <1>5, <1>7, <1>8, <1>11 DEF L, Bit
<1> QED BY <1>12 DEF sum, ssum, a, b, c, d

\* sub64.
LEMMA Sub64Ends ==
    ASSUME Code = RoutineCode, NEW w, NEW rg, NEW f, Traced("sub64", 3, w, rg, f)
    PROVE  Wide(rg["edx"], rg["ecx"])
           = (Wide(w["edx"], w["ecx"]) - Wide(w["ebx"], w["eax"])) % 2^(2 * L)
<1>1. /\ "sub64" \in Plain
      /\ Code["sub64"][1] = <<"sub", <<"reg", "eax">>, <<"reg", "ecx">>, Long>>
      /\ Code["sub64"][2] = <<"sbb", <<"reg", "ebx">>, <<"reg", "edx">>, Long>>
    <2>1. "sub64" \in Plain
        BY DEF Plain
    <2> QED BY <2>1, PlainCode
<1>2. PICK r1, f1 : Traced("sub64", 2, w, r1, f1) /\ Ready(r1, f1)
                    /\ Runs(Code["sub64"][2], r1, f1, rg, f)
    BY MoreRuns
<1>3. PICK f0 : Ready(w, f0) /\ Runs(Code["sub64"][1], w, f0, r1, f1)
    BY <1>2, OneRuns
<1>4. /\ Leaves("sub", f0, w["eax"], w["ecx"], r1["ecx"], f1)
      /\ r1["edx"] = w["edx"] /\ r1["ebx"] = w["ebx"]
    BY <1>1, <1>3, TwoOpLeaves, Values, FourRegs DEF TwoOps
<1>5. /\ Leaves("sbb", f1, w["ebx"], w["edx"], rg["edx"], f)
      /\ rg["ecx"] = r1["ecx"]
    BY <1>1, <1>2, <1>4, TwoOpLeaves, Values, FourRegs DEF TwoOps
<1> DEFINE a == w["edx"]
           b == w["ecx"]
           c == w["ebx"]
           d == w["eax"]
           k == f1.CF
           lo == SubValue(b, d, Long)
           t == a - c - k
           hi == IF t >= 0 THEN t ELSE t + Limit
<1>6. a \in Word /\ b \in Word /\ c \in Word /\ d \in Word
    BY <1>3, FourRegs DEF Ready
<1>7. /\ r1["ecx"] = lo /\ lo \in Word
      /\ k = Bit(b < d)
    BY <1>4 DEF Leaves, Sets
<1>8. rg["edx"] = hi /\ hi \in Word
    BY <1>5 DEF Leaves, Sets
<1>9. k \in {0, 1} /\ (k = 1 <=> b < d)
    BY <1>7 DEF Bit
<1> HIDE DEF a, b, c, d, k
<1>10. Wide(hi, lo) = (Wide(a, b) - Wide(c, d)) % 2^(2 * Long)
    BY <1>6, <1>7, <1>8, <1>9, WideDifference
<1> HIDE DEF lo, hi
<1> QED BY <1>5, <1>7, <1>8, <1>10 DEF L, a, b, c, d

\* cmp64.
LEMMA Cmp64Ends ==
    ASSUME Code = RoutineCode, NEW w, NEW rg, NEW f, Traced("cmp64", 3, w, rg, f)
    PROVE  /\ Condition("b", f) <=> Wide(w["edx"], w["ecx"]) < Wide(w["ebx"], w["eax"])
           /\ Condition("l", f) <=> SignedWide(w["edx"], w["ecx"]) < SignedWide(w["ebx"], w["eax"])
<1>1. /\ "cmp64" \in Plain
      /\ Code["cmp64"][1] = <<"cmp", <<"reg", "eax">>, <<"reg", "ecx">>, Long>>
      /\ Code["cmp64"][2] = <<"sbb", <<"reg", "ebx">>, <<"reg", "edx">>, Long>>
    <2>1. "cmp64" \in Plain
        BY DEF Plain
    <2> QED BY <2>1, PlainCode
<1>2. PICK r1, f1 : Traced("cmp64", 2, w, r1, f1) /\ Ready(r1, f1)
                    /\ Runs(Code["cmp64"][2], r1, f1, rg, f)
    BY MoreRuns
<1>3. PICK f0 : Ready(w, f0) /\ Runs(Code["cmp64"][1], w, f0, r1, f1)
    BY <1>2, OneRuns
<1>4. r1 = w /\ \E v : Leaves("sub", f0, w["eax"], w["ecx"], v, f1)
    <2> DEFINE i == <<"cmp", <<"reg", "eax">>, <<"reg", "ecx">>, Long>>
    <2>1. i[1] = "cmp" /\ i[2] = <<"reg", "eax">> /\ i[3][2] = "ecx" /\ Runs(i, w, f0, r1, f1)
        BY <1>1, <1>3
    <2> HIDE DEF i
    <2> QED BY <2>1, Values DEF Runs
<1>5. Leaves("sbb", f1, w["ebx"], w["edx"], rg["edx"], f)
    BY <1>1, <1>2, <1>4, TwoOpLeaves, Values, FourRegs DEF TwoOps
<1> DEFINE a == w["edx"]
           b == w["ecx"]
           c == w["ebx"]
           d == w["eax"]
           k == f1.CF
           lo == SubValue(b, d, Long)
           t == a - c - k
           hi == IF t >= 0 THEN t ELSE t + Limit
           h == SignBit(Long)
<1>6. a \in Word /\ b \in Word /\ c \in Word /\ d \in Word
    BY <1>3, FourRegs DEF Ready
<1>7. lo \in Word /\ k = Bit(b < d)
    BY <1>4 DEF Leaves, Sets
<1>8. /\ hi \in Word /\ f.SF = Bit(hi >= h) /\ f.CF = Bit(t < 0)
      /\ f.OF = Bit(~(a < h <=> c < h) /\ ~(a < h <=> hi < h))
    BY <1>5 DEF Leaves, Sets
<1>9. k \in {0, 1} /\ (k = 1 <=> b < d)
    BY <1>7 DEF Bit
<1> HIDE DEF a, b, c, d, k
<1>10. /\ t < 0 <=> Wide(a, b) < Wide(c, d)
       /\ (hi >= h <=> ~(~(a < h <=> c < h) /\ ~(a < h <=> hi < h)))
              <=> SignedWide(a, b) < SignedWide(c, d)
    BY <1>6, <1>7, <1>8, <1>9, WideDifference
<1> HIDE DEF lo, hi, t, h
<1>11. Condition("b", f) <=> t < 0
    BY <1>8 DEF Condition, Bit
<1>12. Condition("l", f) <=> (hi >= h <=> ~(~(a < h <=> c < h) /\ ~(a < h <=> hi < h)))
    BY <1>8 DEF Condition, Bit
<1> QED BY <1>10, <1>11, <1>12 DEF a, b, c, d

\* neg64.
LEMMA Neg64Ends ==
    ASSUME Code = RoutineCode, NEW w, NEW rg, NEW f, Traced("neg64", 4, w, rg, f)
    PROVE  Wide(rg["edx"], rg["eax"]) = (-Wide(w["edx"], w["eax"])) % 2^(2 * L)
<1>1. /\ "neg64" \in Plain
      /\ Code["neg64"][1] = <<"neg", <<"reg", "eax">>, Long>>
      /\ Code["neg64"][2] = <<"adc", <<"imm", 0>>, <<"reg", "edx">>, Long>>
      /\ Code["neg64"][3] = <<"neg", <<"reg", "edx">>, Long>>
    <2>1. "neg64" \in Plain
        BY DEF Plain
    <2> QED BY <2>1, PlainCode
<1>2. PICK r2, f2 : Traced("neg64", 3, w, r2, f2) /\ Ready(r2, f2)
                    /\ Runs(Code["neg64"][3], r2, f2, rg, f)
    BY MoreRuns
<1>3. PICK r1, f1 : Traced("neg64", 2, w, r1, f1) /\ Ready(r1, f1)
                    /\ Runs(Code["neg64"][2], r1, f1, r2, f2)
    BY <1>2, MoreRuns
<1>4. PICK f0 : Ready(w, f0) /\ Runs(Code["neg64"][1], w, f0, r1, f1)
    BY <1>3, OneRuns
<1>5. Leaves("sub", f0, w["eax"], 0, r1["eax"], f1) /\ r1["edx"] = w["edx"]
    BY <1>1, <1>4, OneOpLeaves, FourRegs
<1>6. Leaves("adc", f1, 0, w["edx"], r2["edx"], f2) /\ r2["eax"] = r1["eax"]
    BY <1>1, <1>3, <1>5, TwoOpLeaves, Values, FourRegs DEF TwoOps
<1>7. Leaves("sub", f2, r2["edx"], 0, rg["edx"], f) /\ rg["eax"] = r1["eax"]
    BY <1>1, <1>2, <1>6, OneOpLeaves, FourRegs
<1> DEFINE a == w["edx"]
           b == w["eax"]
           lo == SubValue(0, b, Long)
           t == a + Bit(0 < b)
           u == IF t < Limit THEN t ELSE t - Limit
           hi == SubValue(0, u, Long)
<1>8. a \in Word /\ b \in Word
    BY <1>4, FourRegs DEF Ready
<1>9. r1["eax"] = lo /\ lo \in Word /\ f1.CF = Bit(0 < b)
    BY <1>5 DEF Leaves, Sets
<1>10. 0 + a + f1.CF = t
    <2>1. a \in Int /\ Bit(0 < b) \in Int
        BY <1>8, RegisterFacts DEF Bit
    <2> HIDE DEF a
    <2> QED BY <1>9, <2>1
<1>11. r2["edx"] = u
    BY <1>6, <1>10 DEF Leaves
<1>12. rg["edx"] = hi /\ hi \in Word
    BY <1>7, <1>11 DEF Leaves
<1> HIDE DEF a, b
<1>13. Wide(hi, lo) = (-Wide(a, b)) % 2^(2 * Long)
    BY <1>8, <1>9, <1>12, WideNegation
<1> HIDE DEF lo, hi
<1> QED BY <1>7, <1>9, <1>12, <1>13 DEF L, a, b

\* mul.
LEMMA MulEnds ==
    ASSUME Code = RoutineCode, NEW w, NEW rg, NEW f, Traced("mul", 2, w, rg, f)
    PROVE  /\ Wide(rg["edx"], rg["eax"]) = w["eax"] * w["ebx"]
           /\ f.CF = Bit(rg["edx"] # 0) /\ f.OF = f.CF
<1>1. "mul" \in Plain /\ Code["mul"][1] = <<"mul", <<"reg", "ebx">>>>
    <2>1. "mul" \in Plain
        BY DEF Plain
    <2> QED BY <2>1, PlainCode
<1>2. PICK f0 : Ready(w, f0) /\ Runs(Code["mul"][1], w, f0, rg, f)
    BY OneRuns
<1> DEFINE x == w["eax"]
           y == w["ebx"]
           p == y * x
           q == p \div Limit
           r == p % Limit
<1>3. /\ rg = [w EXCEPT !["eax"] = r, !["edx"] = q % Limit]
      /\ f.CF = Bit(q # 0) /\ f.OF = f.CF
    <2> DEFINE i == <<"mul", <<"reg", "ebx">>>>
    <2>1. i[1] = "mul" /\ i[2] = <<"reg", "ebx">> /\ Runs(i, w, f0, rg, f)
        BY <1>1, <1>2
    <2> HIDE DEF i
    <2> QED BY <2>1, Values DEF Runs
<1>4. DataRegs \subseteq DOMAIN w
    BY <1>2 DEF Ready, Whole, Registers
<1>5. rg["eax"] = r /\ rg["edx"] = q % Limit
    <2>1. "eax" \in DOMAIN w /\ "edx" \in DOMAIN w
        BY <1>4, FourRegs
    <2> HIDE DEF q, r
    <2> QED BY <1>3, <2>1
<1>6. x \in Word /\ y \in Word
    BY <1>2, FourRegs DEF Ready
<1>7. x \in 0 .. Limit - 1 /\ y \in 0 .. Limit - 1 /\ Limit \in Nat \ {0}
    BY <1>6, LongFacts
<1> HIDE DEF x, y
<1>8. p \in Nat /\ p < Limit * Limit /\ p = x * y
    <2>1. y * x \in Nat /\ y * x <= y * Limit /\ y * Limit < Limit * Limit /\ y * x = x * y
        BY <1>7
    <2>2. y * Limit \in Int /\ Limit * Limit \in Int
        BY <1>7
    <2> QED BY <2>1, <2>2
<1> HIDE DEF p
<1>9. q \in Nat /\ r \in 0 .. Limit - 1 /\ p = q * Limit + r
    BY <1>7, <1>8, DivMod
<1>10. q < Limit
    BY <1>7, <1>8, DivMonotone
<1> HIDE DEF q, r
<1>11. q % Limit = q /\ q \in Word /\ r \in Word
    <2>1. q \in 0 .. Limit - 1
        BY <1>7, <1>9, <1>10
    <2>2. q % Limit = q
        BY <1>7, <2>1, SmallMod
    <2> QED BY <1>9, <2>1, <2>2, LongFacts
<1>12. Wide(q, r) = p
    BY <1>9, <1>11, WideFacts
<1>13. rg["edx"] = q
    BY <1>5, <1>11
<1> QED BY <1>3, <1>5, <1>8, <1>12, <1>13 DEF x, y

\* The product of two signed words.
LEMMA SignedProduct ==
    ASSUME NEW h \in Nat \ {0}, NEW s \in -h .. h - 1, NEW t \in -h .. h - 1
    PROVE  s * t \in Int /\ h * h \in Nat /\ -(h * h) <= s * t /\ s * t <= h * h
<1>1. CASE s >= 0 /\ t >= 0
    <2>1. s * t >= 0 /\ s * t <= s * h /\ s * h <= h * h
        BY <1>1
    <2>2. s * t \in Int /\ s * h \in Int /\ h * h \in Nat
        OBVIOUS
    <2> QED BY <2>1, <2>2
<1>2. CASE s >= 0 /\ t < 0
    <2>1. s * t <= 0 /\ -(s * h) <= s * t /\ s * h <= h * h
        BY <1>2
    <2>2. s * t \in Int /\ s * h \in Int /\ h * h \in Nat
        OBVIOUS
    <2> QED BY <2>1, <2>2
<1>3. CASE s < 0 /\ t >= 0
    <2>1. s * t <= 0 /\ -(h * t) <= s * t /\ h * t <= h * h
        BY <1>3
    <2>2. s * t \in Int /\ h * t \in Int /\ h * h \in Nat
        OBVIOUS
    <2> QED BY <2>1, <2>2
<1>4. CASE s < 0 /\ t < 0
    <2> DEFINE a == -s
               b == -t
    <2>1. a \in Nat /\ b \in Nat /\ a <= h /\ b <= h
        BY <1>4
    <2>2. s * t = a * b
        OBVIOUS
    <2> HIDE DEF a, b
    <2>3. a * b >= 0 /\ a * b <= a * h /\ a * h <= h * h
        BY <2>1
    <2>4. a * b \in Int /\ a * h \in Int /\ h * h \in Nat
        BY <2>1
    <2> QED BY <2>2, <2>3, <2>4
<1> QED BY <1>1, <1>2, <1>3, <1>4

\* imul.
LEMMA ImulEnds ==
    ASSUME Code = RoutineCode, NEW w, NEW rg, NEW f, Traced("imul", 2, w, rg, f)
    PROVE  LET p == SignedWide(rg["edx"], rg["eax"])
           IN /\ p = Signed(w["eax"], L) * Signed(w["ebx"], L)
              /\ f.CF = Bit(p # Signed(p, L)) /\ f.OF = f.CF
<1>1. "imul" \in Plain /\ Code["imul"][1] = <<"imul", <<"reg", "ebx">>>>
    <2>1. "imul" \in Plain
        BY DEF Plain
    <2> QED BY <2>1, PlainCode
<1>2. PICK f0 : Ready(w, f0) /\ Runs(Code["imul"][1], w, f0, rg, f)
    BY OneRuns
<1> DEFINE x == Signed(w["eax"], Long)
           y == Signed(w["ebx"], Long)
           h == SignBit(Long)
           p == y * x
           q == p \div Limit
           r == p % Limit
<1>3. /\ rg = [w EXCEPT !["eax"] = r, !["edx"] = q % Limit]
      /\ f.CF = Bit(p # Signed(p, Long)) /\ f.OF = f.CF
    <2> DEFINE i == <<"imul", <<"reg", "ebx">>>>
    <2>1. i[1] = "imul" /\ i[2] = <<"reg", "ebx">> /\ Runs(i, w, f0, rg, f)
        BY <1>1, <1>2
    <2> HIDE DEF i
    <2> QED BY <2>1, Values DEF Runs
<1>4. DataRegs \subseteq DOMAIN w
    BY <1>2 DEF Ready, Whole, Registers
<1>5. rg["eax"] = r /\ rg["edx"] = q % Limit
    <2>1. "eax" \in DOMAIN w /\ "edx" \in DOMAIN w
        BY <1>4, FourRegs
    <2> HIDE DEF q, r
    <2> QED BY <1>3, <2>1
<1>6. w["eax"] \in Word /\ w["ebx"] \in Word
    BY <1>2, FourRegs DEF Ready
<1>7. /\ x \in -h .. h - 1 /\ y \in -h .. h - 1 /\ h \in Nat \ {0}
      /\ Limit \in Nat \ {0} /\ Limit = 2 * h
    BY <1>6, LongFacts, RegisterFacts
<1> HIDE DEF x, y, h
<1>8. p \in Int /\ h * h \in Nat /\ -(h * h) <= p /\ p <= h * h /\ p = x * y
    <2>1. y * x = x * y
        BY <1>7
    <2> QED BY <1>7, <2>1, SignedProduct
<1> HIDE DEF p
<1>9. q \in Int /\ r \in 0 .. Limit - 1 /\ p = q * Limit + r
    BY <1>7, <1>8, DivModInt
<1> HIDE DEF q, r
<1>10. q \in -h .. h - 1
    <2> DEFINE hh == h * h
    <2>1. p = 2 * (q * h) + r /\ hh \in Nat /\ q * h \in Int
        BY <1>7, <1>9
    <2>2. hh > 0
        BY <1>7
    <2>3. q < h
        <3> SUFFICES ASSUME q >= h PROVE FALSE
            BY <1>7, <1>9
        <3>1. q * h >= hh
            BY <1>7, <1>9
        <3> HIDE DEF hh
        <3> QED BY <1>8, <1>9, <2>1, <2>2, <3>1 DEF hh
    <2>4. q >= -h
        <3> SUFFICES ASSUME q <= -h - 1 PROVE FALSE
            BY <1>7, <1>9
        <3>1. q * h <= -hh - h
            <4>1. (q + h + 1) * h <= 0
                BY <1>7, <1>9
            <4>2. (q + h + 1) * h = q * h + h * h + h
                BY <1>7, <1>9
            <4> QED BY <1>7, <2>1, <4>1, <4>2
        <3> HIDE DEF hh
        <3> QED BY <1>7, <1>8, <1>9, <2>1, <2>2, <3>1 DEF hh
    <2> QED BY <1>7, <1>9, <2>3, <2>4
<1>11. r \in Word /\ q % Limit \in Word /\ Signed(q % Limit, Long) = q
    <2>1. Long \in Nat \ {0} /\ h = 2^(Long - 1) /\ Cut(q, Long) = q % Limit
        BY BitsAssumption DEF h, SignBit, Cut, Limit
    <2>2. Signed(Cut(q, Long), Long) = Signed(q, Long) /\ Signed(q, Long) = q
        BY <1>9, <1>10, <2>1, SignedFacts
    <2>3. q % Limit \in 0 .. Limit - 1
        BY <1>7, <1>9, DivModInt
    <2> QED BY <1>9, <2>1, <2>2, <2>3, LongFacts
<1>12. SignedWide(q % Limit, r) = p
    BY <1>9, <1>11, WideFacts
<1> QED BY <1>3, <1>5, <1>8, <1>12 DEF x, y, L

\* imul2.
LEMMA Imul2Ends ==
    ASSUME Code = RoutineCode, NEW w, NEW rg, NEW f, Traced("imul2", 2, w, rg, f)
    PROVE  rg["eax"] = Cut(w["eax"] * w["ebx"], L)
<1>1. "imul2" \in Plain /\ Code["imul2"][1] = <<"imul2", <<"reg", "ebx">>, <<"reg", "eax">>, Long>>
    <2>1. "imul2" \in Plain
        BY DEF Plain
    <2> QED BY <2>1, PlainCode
<1>2. PICK f0 : Ready(w, f0) /\ Runs(Code["imul2"][1], w, f0, rg, f)
    BY OneRuns
<1>3. Leaves("imul2", f0, w["ebx"], w["eax"], rg["eax"], f)
    BY <1>1, <1>2, TwoOpLeaves, Values, FourRegs DEF TwoOps
<1> DEFINE a == w["eax"]
           b == w["ebx"]
           x == Signed(a, Long)
           y == Signed(b, Long)
<1>4. rg["eax"] = Cut(y * x, Long)
    BY <1>3 DEF Leaves
<1>5. a \in Word /\ b \in Word
    BY <1>2, FourRegs DEF Ready
<1>6. /\ a \in Int /\ b \in Int /\ Limit \in Nat \ {0} /\ SignBit(Long) \in Nat
      /\ x = (IF a < SignBit(Long) THEN a ELSE a - Limit)
      /\ y = (IF b < SignBit(Long) THEN b ELSE b - Limit)
    BY <1>5, LongFacts, RegisterFacts, SMTT(30)
<1>7. PICK j \in {0, 1}, k \in {0, 1} : x = a - j * Limit /\ y = b - k * Limit
    <2> HIDE DEF a, b, x, y
    <2>1. x = a - 0 * Limit \/ x = a - 1 * Limit
        BY <1>6
    <2>2. y = b - 0 * Limit \/ y = b - 1 * Limit
        BY <1>6
    <2> QED BY <2>1, <2>2
<1> HIDE DEF a, b, x, y
<1> DEFINE m == j * k * Limit - j * b - k * a
           p == a * b
<1>8. m \in Int /\ p \in Int
    BY <1>6
<1>9. y * x = p + m * Limit
    BY <1>6, <1>7
<1> HIDE DEF m, p
<1>10. (p + m * Limit) % Limit = p % Limit
    BY <1>6, <1>8, ModPlus
<1> QED BY <1>4, <1>9, <1>10 DEF Cut, Limit, L, p, a, b

\* div.
LEMMA DivEnds ==
    ASSUME Code = RoutineCode, NEW w, NEW rg, NEW f, Traced("div", 3, w, rg, f)
    PROVE  rg["eax"] * w["ebx"] + rg["edx"] = w["eax"] /\ rg["edx"] < w["ebx"]
<1>1. /\ "div" \in Plain
      /\ Code["div"][1] = <<"xor", <<"reg", "edx">>, <<"reg", "edx">>, Long>>
      /\ Code["div"][2] = <<"div", <<"reg", "ebx">>>>
    <2>1. "div" \in Plain
        BY DEF Plain
    <2> QED BY <2>1, PlainCode
<1>2. PICK r1, f1 : Traced("div", 2, w, r1, f1) /\ Ready(r1, f1)
                    /\ Runs(Code["div"][2], r1, f1, rg, f)
    BY MoreRuns
<1>3. PICK f0 : Ready(w, f0) /\ Runs(Code["div"][1], w, f0, r1, f1)
    BY <1>2, OneRuns
<1>4. /\ Leaves("xor", f0, w["edx"], w["edx"], r1["edx"], f1)
      /\ r1["eax"] = w["eax"] /\ r1["ebx"] = w["ebx"]
    BY <1>1, <1>3, TwoOpLeaves, Values, FourRegs DEF TwoOps
<1>5. r1["edx"] = 0
    BY <1>4 DEF Leaves
<1> DEFINE a == w["eax"]
           b == w["ebx"]
           n == 0 * Limit + a
           q == Quotient(n % Limit, b)
           r == (n % Limit) % b
<1>6. rg = [r1 EXCEPT !["eax"] = q % Limit, !["edx"] = r % Limit] /\ b # 0
    <2> DEFINE i == <<"div", <<"reg", "ebx">>>>
    <2>1. i[1] = "div" /\ i[2] = <<"reg", "ebx">> /\ Runs(i, r1, f1, rg, f)
        BY <1>1, <1>2
    <2> HIDE DEF i
    <2> QED BY <1>4, <1>5, <2>1, Values DEF Runs
<1>7. rg["eax"] = q % Limit /\ rg["edx"] = r % Limit
    <2>1. "eax" \in DOMAIN r1 /\ "edx" \in DOMAIN r1
        BY <1>2, FourRegs DEF Ready, Whole, Registers
    <2> HIDE DEF q, r
    <2> QED BY <1>6, <2>1
<1>8. a \in Word /\ b \in Word
    BY <1>3, FourRegs DEF Ready
<1>9. a \in 0 .. Limit - 1 /\ b \in 1 .. Limit - 1 /\ Limit \in Nat \ {0}
    <2>1. b # 0
        BY <1>6
    <2> HIDE DEF a, b
    <2> QED BY <1>8, <2>1, LongFacts
<1> HIDE DEF a, b
<1>10. n % Limit = a
    <2>1. n = a
        BY <1>9
    <2> QED BY <1>9, <2>1, SmallMod
<1> DEFINE t == a \div b
           u == a % b
<1>11. q = t
    <2>1. a >= 0 /\ b >= 0
        BY <1>9
    <2> HIDE DEF n
    <2> QED BY <1>9, <1>10, <2>1 DEF Quotient
<1>12. r = u
    BY <1>10
<1>13. t \in 0 .. a /\ u \in 0 .. b - 1 /\ a = t * b + u
    <2>1. a \in Nat /\ b \in Nat \ {0}
        BY <1>9
    <2> QED BY <2>1, DivMod, QuotientIsSmaller
<1> HIDE DEF q, r, t, u
<1>14. t \in 0 .. Limit - 1 /\ u \in 0 .. Limit - 1
    BY <1>9, <1>13
<1>15. t % Limit = t /\ u % Limit = u
    BY <1>9, <1>14, SmallMod
<1>16. rg["eax"] = t /\ rg["edx"] = u
    BY <1>7, <1>11, <1>12, <1>15
<1> QED BY <1>9, <1>13, <1>16 DEF a, b

\* Division that rounds to zero.
LEMMA QuotientFacts ==
    ASSUME NEW x \in Int, NEW y \in Int \ {0}
    PROVE  LET q == Quotient(x, y)
               r == x - y * q
           IN /\ q \in Int /\ r \in Int /\ q * y + r = x
              /\ r * r < y * y /\ r * x >= 0
              /\ x < 0 => x <= q /\ q <= -x
              /\ x >= 0 => -x <= q /\ q <= x
              /\ q = -x /\ x < 0 => y = -1
              /\ y < 0 => y < r /\ r < -y
              /\ y > 0 => -y < r /\ r < y
<1> DEFINE a == IF x < 0 THEN -x ELSE x
           b == IF y < 0 THEN -y ELSE y
           t == a \div b
           u == a % b
           q == Quotient(x, y)
           r == x - y * q
<1>1. a \in Nat /\ b \in Nat \ {0}
    OBVIOUS
<1>2. q = IF (x < 0) = (y < 0) THEN t ELSE -t
    BY DEF Quotient
<1> HIDE DEF a, b, q
<1>3. t \in 0 .. a /\ u \in 0 .. b - 1 /\ a = t * b + u
    BY <1>1, DivMod, QuotientIsSmaller
<1> HIDE DEF t, u
<1>4. q \in Int
    BY <1>1, <1>2, <1>3
<1>5. y * q = IF x < 0 THEN -(t * b) ELSE t * b
    <2>1. CASE x < 0 /\ y < 0
        <3>1. q = t /\ y = -b
            BY <1>2, <2>1 DEF b
        <3> QED BY <1>1, <1>3, <2>1, <3>1
    <2>2. CASE x < 0 /\ ~(y < 0)
        <3>1. q = -t /\ y = b
            BY <1>2, <2>2 DEF b
        <3> QED BY <1>1, <1>3, <2>2, <3>1
    <2>3. CASE ~(x < 0) /\ y < 0
        <3>1. q = -t /\ y = -b
            BY <1>2, <2>3 DEF b
        <3> QED BY <1>1, <1>3, <2>3, <3>1
    <2>4. CASE ~(x < 0) /\ ~(y < 0)
        <3>1. q = t /\ y = b
            BY <1>2, <2>4 DEF b
        <3> QED BY <1>1, <1>3, <2>4, <3>1
    <2> QED BY <2>1, <2>2, <2>3, <2>4
<1>6. r = IF x < 0 THEN -u ELSE u
    <2>1. t * b \in Int
        BY <1>1, <1>3
    <2> QED BY <1>1, <1>3, <1>5, <2>1 DEF a
<1>7. q * y + r = x
    BY <1>4
<1> HIDE DEF r
<1>8. r \in Int /\ r * r = u * u /\ y * y = b * b
    <2>1. r * r = u * u
        BY <1>1, <1>3, <1>6
    <2>2. y * y = b * b
        BY DEF b
    <2> QED BY <1>1, <1>3, <1>6, <2>1, <2>2
<1>9. u * u < b * b
    <2>1. u * u <= u * b /\ u * b < b * b
        BY <1>1, <1>3
    <2>2. u * u \in Int /\ u * b \in Int /\ b * b \in Int
        BY <1>1, <1>3
    <2> QED BY <2>1, <2>2
<1>10. r * x >= 0
    <2>1. CASE x < 0
        <3>1. r * x = u * a
            BY <1>1, <1>3, <1>6, <2>1 DEF a
        <3> QED BY <1>1, <1>3, <3>1
    <2>2. CASE ~(x < 0)
        <3>1. r * x = u * a
            BY <1>1, <1>3, <1>6, <2>2 DEF a
        <3> QED BY <1>1, <1>3, <3>1
    <2> QED BY <2>1, <2>2
<1>11. /\ x < 0 => x <= q /\ q <= -x
       /\ x >= 0 => -x <= q /\ q <= x
    BY <1>1, <1>2, <1>3 DEF a
<1>12. ASSUME q = -x, x < 0 PROVE y = -1
    <2>1. a = -x /\ a > 0
        BY <1>12 DEF a
    <2>2. t = a /\ y < 0
        BY <1>1, <1>2, <1>3, <1>12, <2>1
    <2>3. b = 1
        <3> SUFFICES ASSUME b >= 2 PROVE FALSE
            BY <1>1
        <3>1. t * b >= 2 * t
            BY <1>1, <1>3
        <3>2. t * b \in Int
            BY <1>1, <1>3
        <3> QED BY <1>1, <1>3, <2>1, <2>2, <3>1, <3>2
    <2> QED BY <2>2, <2>3 DEF b
<1>13. (y < 0 => y < r /\ r < -y) /\ (y > 0 => -y < r /\ r < y)
    BY <1>1, <1>3, <1>6 DEF b
<1>14. r * r < y * y
    BY <1>8, <1>9
<1> QED BY <1>4, <1>7, <1>8, <1>10, <1>11, <1>12, <1>13, <1>14 DEF q, r

\* cltd: edx and eax are the signed number that eax is.
LEMMA SignFilled ==
    ASSUME NEW a \in Word, NEW d, d = IF a < SignBit(Long) THEN 0 ELSE Limit - 1
    PROVE  d \in Word /\ Signed(d * Limit + a, 2 * Long) = Signed(a, Long)
<1> DEFINE h == SignBit(Long)
<1>1. /\ a \in Nat /\ h \in Nat \ {0} /\ Limit \in Nat \ {0} /\ Limit = 2 * h
      /\ Word = 0 .. Limit - 1 /\ Signed(a, Long) = (IF a < h THEN a ELSE a - Limit)
    BY LongFacts, RegisterFacts
<1> HIDE DEF h
<1>2. d = (IF a < h THEN 0 ELSE Limit - 1) /\ d \in Word
    BY <1>1 DEF h
<1>3. Signed(d, Long) = IF a < h THEN 0 ELSE -1
    <2>1. Signed(d, Long) = (IF d < h THEN d ELSE d - Limit)
        BY <1>2, RegisterFacts DEF h
    <2> QED BY <1>1, <1>2, <2>1
<1>4. SignedWide(d, a) = Signed(d, Long) * Limit + a
    BY <1>2, WideFacts
<1>5. SignedWide(d, a) = Signed(d * Limit + a, 2 * Long)
    BY DEF SignedWide, Wide, Limit, L
<1>6. 0 * Limit = 0 /\ (-1) * Limit = -Limit
    BY <1>1
<1>7. Signed(d, Long) * Limit + a = Signed(a, Long)
    BY <1>1, <1>3, <1>6
<1> QED BY <1>2, <1>4, <1>5, <1>7

\* cltd fills edx with the sign of eax.
LEMMA CltdLeaves ==
    ASSUME NEW rg, NEW f, NEW rg2, NEW f2, Ready(rg, f), Runs(<<"cltd">>, rg, f, rg2, f2)
    PROVE  /\ f2 = f /\ rg2["edx"] = IF rg["eax"] < SignBit(Long) THEN 0 ELSE Limit - 1
           /\ \A r \in DataRegs : r # "edx" => rg2[r] = rg[r]
<1> DEFINE i == <<"cltd">>
           v == IF rg["eax"] < SignBit(Long) THEN 0 ELSE Limit - 1
<1>1. i[1] = "cltd" /\ Runs(i, rg, f, rg2, f2)
    OBVIOUS
<1> HIDE DEF i
<1>2. f2 = f /\ rg2 = [rg EXCEPT !["edx"] = v]
    BY <1>1 DEF Runs
<1>3. DataRegs \subseteq DOMAIN rg
    BY DEF Ready, Whole, Registers
<1>4. rg2["edx"] = v /\ \A r \in DataRegs : r # "edx" => rg2[r] = rg[r]
    <2> HIDE DEF v
    <2> QED BY <1>2, <1>3, FourRegs
<1> QED BY <1>2, <1>4

\* A number between the smallest and the largest of a word comes back from it.
LEMMA SignedBack ==
    ASSUME NEW x \in -SignBit(Long) .. SignBit(Long) - 1
    PROVE  Signed(x % Limit, Long) = x
<1>1. Long \in Nat \ {0} /\ SignBit(Long) = 2^(Long - 1) /\ Cut(x, Long) = x % Limit /\ x \in Int
    BY LongFacts, BitsAssumption DEF SignBit, Cut, Limit
<1>2. Signed(Cut(x, Long), Long) = Signed(x, Long) /\ Signed(x, Long) = x
    BY <1>1, SignedFacts
<1> QED BY <1>1, <1>2

\* idiv.
LEMMA IdivEnds ==
    ASSUME Code = RoutineCode, NEW w, NEW rg, NEW f, Traced("idiv", 3, w, rg, f),
           ~(w["eax"] = Smallest /\ w["ebx"] = 2^L - 1)
    PROVE  LET q == Signed(rg["eax"], L)
               r == Signed(rg["edx"], L)
               x == Signed(w["eax"], L)
               y == Signed(w["ebx"], L)
           IN /\ q * y + r = x
              /\ r * r < y * y
              /\ r * x >= 0
<1>1. /\ "idiv" \in Plain
      /\ Code["idiv"][1] = <<"cltd">> /\ Code["idiv"][2] = <<"idiv", <<"reg", "ebx">>>>
    <2>1. "idiv" \in Plain
        BY DEF Plain
    <2> QED BY <2>1, PlainCode
<1>2. PICK r1, f1 : Traced("idiv", 2, w, r1, f1) /\ Ready(r1, f1)
                    /\ Runs(Code["idiv"][2], r1, f1, rg, f)
    BY MoreRuns
<1>3. PICK f0 : Ready(w, f0) /\ Runs(Code["idiv"][1], w, f0, r1, f1)
    BY <1>2, OneRuns
<1> DEFINE a == w["eax"]
           b == w["ebx"]
           d == r1["edx"]
           x == Signed(a, Long)
           y == Signed(b, Long)
           h == SignBit(Long)
           n == d * Limit + a
           sn == Signed(n, 2 * Long)
           q == Quotient(x, y)
           r == x - y * q
<1>4. d = (IF a < SignBit(Long) THEN 0 ELSE Limit - 1) /\ r1["eax"] = a /\ r1["ebx"] = b
    BY <1>1, <1>3, CltdLeaves, FourRegs
<1>5. a \in Word /\ b \in Word
    BY <1>3, FourRegs DEF Ready
<1>6. sn = x
    BY <1>4, <1>5, SignFilled
<1>7. b # 0 /\ rg = [r1 EXCEPT !["eax"] = Quotient(Signed(sn, Long), y) % Limit,
                               !["edx"] = (sn - y * Quotient(sn, y)) % Limit]
    <2> DEFINE i == <<"idiv", <<"reg", "ebx">>>>
    <2>1. i[1] = "idiv" /\ i[2] = <<"reg", "ebx">> /\ Runs(i, r1, f1, rg, f)
        BY <1>1, <1>2
    <2> HIDE DEF i
    <2> QED BY <1>4, <2>1, Values DEF Runs
<1>8. /\ x \in -h .. h - 1 /\ y \in -h .. h - 1 /\ h \in Nat \ {0} /\ Limit = 2 * h
      /\ x = (IF a < h THEN a ELSE a - Limit) /\ y = (IF b < h THEN b ELSE b - Limit)
      /\ a \in 0 .. Limit - 1 /\ b \in 0 .. Limit - 1
    BY <1>5, LongFacts, RegisterFacts
<1>9. Smallest = h /\ 2^L - 1 = Limit - 1
    BY DEF Smallest, SignBit, Limit, L
<1>10. Signed(x, Long) = x
    <2>1. Long \in Nat \ {0} /\ h = 2^(Long - 1) /\ x \in Int
        BY <1>8, BitsAssumption DEF SignBit
    <2> QED BY <1>8, <2>1, SignedFacts
<1> HIDE DEF a, b, d, h, n, sn, x, y
<1>11. y # 0
    BY <1>7, <1>8
<1>12. rg = [r1 EXCEPT !["eax"] = q % Limit, !["edx"] = r % Limit]
    BY <1>6, <1>7, <1>10
<1>13. rg["eax"] = q % Limit /\ rg["edx"] = r % Limit
    <2>1. "eax" \in DOMAIN r1 /\ "edx" \in DOMAIN r1
        BY <1>2, FourRegs DEF Ready, Whole, Registers
    <2> HIDE DEF q, r
    <2> QED BY <1>12, <2>1
<1>14. /\ q \in Int /\ r \in Int /\ q * y + r = x
       /\ r * r < y * y /\ r * x >= 0
       /\ x < 0 => x <= q /\ q <= -x
       /\ x >= 0 => -x <= q /\ q <= x
       /\ q = -x /\ x < 0 => y = -1
       /\ y < 0 => y < r /\ r < -y
       /\ y > 0 => -y < r /\ r < y
    <2>1. x \in Int /\ y \in Int \ {0}
        BY <1>8, <1>11
    <2> QED BY <2>1, QuotientFacts
<1> HIDE DEF q, r
<1>15. r \in -h .. h - 1
    BY <1>8, <1>11, <1>14
<1>16. q \in -h .. h - 1
    <2>1. q # h
        <3> SUFFICES ASSUME q = h PROVE FALSE
            OBVIOUS
        <3>1. x = -h
            BY <1>8, <1>14
        <3>2. y = -1
            BY <1>8, <1>14, <3>1
        <3>3. a = h /\ b = Limit - 1
            BY <1>8, <3>1, <3>2
        <3> QED BY <1>9, <3>3 DEF a, b
    <2> QED BY <1>8, <1>14, <2>1
<1>17. Signed(q % Limit, Long) = q /\ Signed(r % Limit, Long) = r
    BY <1>15, <1>16, SignedBack DEF h
<1>18. Signed(rg["eax"], L) = q /\ Signed(rg["edx"], L) = r
    BY <1>13, <1>17 DEF L
<1>19. Signed(w["eax"], L) = x /\ Signed(w["ebx"], L) = y
    BY DEF x, y, a, b, L
<1> QED BY <1>14, <1>18, <1>19

\* The negative of a word.
LEMMA NegativeWord ==
    ASSUME NEW a \in Word
    PROVE  Cut(-a, Long) = IF a = 0 THEN 0 ELSE Limit - a
<1>1. a \in 0 .. Limit - 1 /\ Limit \in Nat \ {0} /\ Cut(-a, Long) = (-a) % Limit
    BY LongFacts DEF Cut, Limit
<1>2. CASE a = 0
    <2>1. (0 * Limit + 0) % Limit = 0
        BY <1>1, DivModIntUnique
    <2>2. 0 * Limit + 0 = -a
        BY <1>1, <1>2
    <2> QED BY <1>1, <1>2, <2>1, <2>2
<1>3. CASE a # 0
    <2> DEFINE b == Limit - a
    <2>1. b \in 0 .. Limit - 1 /\ (-1) * Limit + b = -a
        BY <1>1, <1>3
    <2> HIDE DEF b
    <2>2. ((-1) * Limit + b) % Limit = b
        BY <1>1, <2>1, DivModIntUnique
    <2> QED BY <1>1, <1>3, <2>1, <2>2 DEF b
<1> QED BY <1>2, <1>3

\* abs.
LEMMA AbsEnds ==
    ASSUME Code = RoutineCode, NEW w, NEW rg, NEW f, Traced("abs", 4, w, rg, f)
    PROVE  rg["eax"] = IF Positive(w["eax"], L) THEN w["eax"] ELSE Cut(-w["eax"], L)
<1>1. /\ "abs" \in Plain
      /\ Code["abs"][1] = <<"cltd">>
      /\ Code["abs"][2] = <<"xor", <<"reg", "edx">>, <<"reg", "eax">>, Long>>
      /\ Code["abs"][3] = <<"sub", <<"reg", "edx">>, <<"reg", "eax">>, Long>>
    <2>1. "abs" \in Plain
        BY DEF Plain
    <2> QED BY <2>1, PlainCode
<1>2. PICK r2, f2 : Traced("abs", 3, w, r2, f2) /\ Ready(r2, f2)
                    /\ Runs(Code["abs"][3], r2, f2, rg, f)
    BY MoreRuns
<1>3. PICK r1, f1 : Traced("abs", 2, w, r1, f1) /\ Ready(r1, f1)
                    /\ Runs(Code["abs"][2], r1, f1, r2, f2)
    BY <1>2, MoreRuns
<1>4. PICK f0 : Ready(w, f0) /\ Runs(Code["abs"][1], w, f0, r1, f1)
    BY <1>3, OneRuns
<1> DEFINE a == w["eax"]
           e == r1["edx"]
           v == r2["eax"]
           h == SignBit(Long)
<1>5. e = (IF a < h THEN 0 ELSE Limit - 1) /\ r1["eax"] = a
    BY <1>1, <1>4, CltdLeaves, FourRegs
<1>6. Leaves("xor", f1, e, a, v, f2) /\ r2["edx"] = e
    BY <1>1, <1>3, <1>5, TwoOpLeaves, Values, FourRegs DEF TwoOps
<1>7. Leaves("sub", f2, e, v, rg["eax"], f)
    BY <1>1, <1>2, <1>6, TwoOpLeaves, Values, FourRegs DEF TwoOps
<1>8. /\ e = 0 => v = a
      /\ e = Limit - 1 => v = Limit - 1 - a
    BY <1>6 DEF Leaves
<1>9. rg["eax"] = SubValue(v, e, Long)
    BY <1>7 DEF Leaves
<1>10. a \in Word
    BY <1>4, FourRegs DEF Ready
<1>11. /\ a \in 0 .. Limit - 1 /\ Limit \in Nat \ {0} /\ h \in Nat \ {0} /\ Limit = 2 * h
       /\ Positive(a, Long) <=> a < h
    BY <1>10, LongFacts, RegisterFacts
<1>12. SubValue(v, e, Long) = IF v >= e THEN v - e ELSE v - e + Limit
    BY DEF SubValue, Limit
<1>13. Cut(-a, Long) = IF a = 0 THEN 0 ELSE Limit - a
    BY <1>10, NegativeWord
<1>14. rg["eax"] = IF a < h THEN a ELSE IF a = 0 THEN 0 ELSE Limit - a
    <2> HIDE DEF a, e, v, h
    <2>1. CASE a < h
        BY <1>5, <1>8, <1>9, <1>11, <1>12, <2>1
    <2>2. CASE ~(a < h)
        BY <1>5, <1>8, <1>9, <1>11, <1>12, <2>2
    <2> QED BY <2>1, <2>2
<1> QED BY <1>11, <1>13, <1>14 DEF L

\* bool.
LEMMA BoolEnds ==
    ASSUME Code = RoutineCode, NEW w, NEW rg, NEW f, Traced("bool", 4, w, rg, f)
    PROVE  rg["eax"] = Bit(w["eax"] # 0)
<1>1. /\ "bool" \in Plain
      /\ Code["bool"][1] = <<"neg", <<"reg", "eax">>, Long>>
      /\ Code["bool"][2] = <<"sbb", <<"reg", "eax">>, <<"reg", "eax">>, Long>>
      /\ Code["bool"][3] = <<"neg", <<"reg", "eax">>, Long>>
    <2>1. "bool" \in Plain
        BY DEF Plain
    <2> QED BY <2>1, PlainCode
<1>2. PICK r2, f2 : Traced("bool", 3, w, r2, f2) /\ Ready(r2, f2)
                    /\ Runs(Code["bool"][3], r2, f2, rg, f)
    BY MoreRuns
<1>3. PICK r1, f1 : Traced("bool", 2, w, r1, f1) /\ Ready(r1, f1)
                    /\ Runs(Code["bool"][2], r1, f1, r2, f2)
    BY <1>2, MoreRuns
<1>4. PICK f0 : Ready(w, f0) /\ Runs(Code["bool"][1], w, f0, r1, f1)
    BY <1>3, OneRuns
<1> DEFINE a == w["eax"]
           u == r1["eax"]
           v == r2["eax"]
           t == u - u - f1.CF
<1>5. Leaves("sub", f0, a, 0, u, f1)
    BY <1>1, <1>4, OneOpLeaves, FourRegs
<1>6. Leaves("sbb", f1, u, u, v, f2)
    BY <1>1, <1>3, TwoOpLeaves, Values, FourRegs DEF TwoOps
<1>7. Leaves("sub", f2, v, 0, rg["eax"], f)
    BY <1>1, <1>2, OneOpLeaves, FourRegs
<1>8. f1.CF = Bit(0 < a)
    BY <1>5 DEF Leaves, Sets
<1>9. v = IF t >= 0 THEN t ELSE t + Limit
    BY <1>6 DEF Leaves
<1>10. rg["eax"] = IF 0 >= v THEN 0 - v ELSE 0 - v + Limit
    <2>1. rg["eax"] = SubValue(0, v, Long)
        BY <1>7 DEF Leaves
    <2> QED BY <2>1 DEF SubValue, Limit
<1>11. a \in Word /\ u \in Word
    BY <1>3, <1>4, FourRegs DEF Ready
<1>12. /\ a \in 0 .. Limit - 1 /\ u \in 0 .. Limit - 1 /\ Limit \in Nat \ {0} /\ Limit >= 2
    <2>1. SignBit(Long) \in Nat \ {0} /\ Limit = 2 * SignBit(Long)
        BY LongFacts
    <2> QED BY <1>11, <2>1, LongFacts
<1>13. rg["eax"] = Bit(a # 0)
    <2> HIDE DEF a, u, v
    <2>1. CASE a = 0
        <3>1. f1.CF = 0 /\ Bit(a # 0) = 0
            BY <1>8, <1>12, <2>1 DEF Bit
        <3>2. v = 0
            BY <1>9, <1>12, <3>1
        <3> QED BY <1>10, <1>12, <3>1, <3>2
    <2>2. CASE a # 0
        <3>1. f1.CF = 1 /\ Bit(a # 0) = 1
            BY <1>8, <1>12, <2>2 DEF Bit
        <3>2. v = Limit - 1
            BY <1>9, <1>12, <3>1
        <3> QED BY <1>10, <1>12, <3>1, <3>2
    <2> QED BY <2>1, <2>2
<1> QED BY <1>13 DEF a

\* minus.
LEMMA MinusEnds ==
    ASSUME Code = RoutineCode, NEW w, NEW rg, NEW f, Traced("minus", 3, w, rg, f)
    PROVE  rg["eax"] = Cut(-w["eax"], L)
<1>1. /\ "minus" \in Plain
      /\ Code["minus"][1] = <<"not", <<"reg", "eax">>, Long>>
      /\ Code["minus"][2] = <<"inc", <<"reg", "eax">>, Long>>
    <2>1. "minus" \in Plain
        BY DEF Plain
    <2> QED BY <2>1, PlainCode
<1>2. PICK r1, f1 : Traced("minus", 2, w, r1, f1) /\ Ready(r1, f1)
                    /\ Runs(Code["minus"][2], r1, f1, rg, f)
    BY MoreRuns
<1>3. PICK f0 : Ready(w, f0) /\ Runs(Code["minus"][1], w, f0, r1, f1)
    BY <1>2, OneRuns
<1> DEFINE a == w["eax"]
<1>4. r1["eax"] = Limit - 1 - a
    BY <1>1, <1>3, OneOpLeaves, FourRegs
<1>5. Leaves("add", f1, Limit - 1 - a, 1, rg["eax"], f)
    BY <1>1, <1>2, <1>4, OneOpLeaves, FourRegs
<1>6. rg["eax"] = AddValue(Limit - 1 - a, 1, Long)
    BY <1>5 DEF Leaves
<1>7. a \in Word
    BY <1>3, FourRegs DEF Ready
<1>8. a \in 0 .. Limit - 1 /\ Limit \in Nat \ {0}
    BY <1>7, LongFacts
<1>9. Cut(-a, Long) = IF a = 0 THEN 0 ELSE Limit - a
    BY <1>7, NegativeWord
<1> HIDE DEF a
<1>10. AddValue(Limit - 1 - a, 1, Long) = IF a = 0 THEN 0 ELSE Limit - a
    BY <1>8 DEF AddValue, Limit
<1> QED BY <1>6, <1>9, <1>10 DEF a, L

\* mask.
LEMMA MaskEnds ==
    ASSUME Code = RoutineCode, NEW w, NEW rg, NEW f, Traced("mask", 6, w, rg, f)
    PROVE  rg["ebx"] = w["eax"]
<1>1. /\ "mask" \in Plain
      /\ Code["mask"][1] = <<"mov", <<"reg", "eax">>, <<"reg", "ecx">>, Long>>
      /\ Code["mask"][2] = <<"and", <<"reg", "ebx">>, <<"reg", "ecx">>, Long>>
      /\ Code["mask"][3] = <<"not", <<"reg", "ebx">>, Long>>
      /\ Code["mask"][4] = <<"and", <<"reg", "eax">>, <<"reg", "ebx">>, Long>>
      /\ Code["mask"][5] = <<"or", <<"reg", "ecx">>, <<"reg", "ebx">>, Long>>
    <2>1. "mask" \in Plain
        BY DEF Plain
    <2> QED BY <2>1, PlainCode
<1>2. PICK r4, f4 : Traced("mask", 5, w, r4, f4) /\ Ready(r4, f4)
                    /\ Runs(Code["mask"][5], r4, f4, rg, f)
    BY MoreRuns
<1>3. PICK r3, f3 : Traced("mask", 4, w, r3, f3) /\ Ready(r3, f3)
                    /\ Runs(Code["mask"][4], r3, f3, r4, f4)
    BY <1>2, MoreRuns
<1>4. PICK r2, f2 : Traced("mask", 3, w, r2, f2) /\ Ready(r2, f2)
                    /\ Runs(Code["mask"][3], r2, f2, r3, f3)
    BY <1>3, MoreRuns
<1>5. PICK r1, f1 : Traced("mask", 2, w, r1, f1) /\ Ready(r1, f1)
                    /\ Runs(Code["mask"][2], r1, f1, r2, f2)
    BY <1>4, MoreRuns
<1>6. PICK f0 : Ready(w, f0) /\ Runs(Code["mask"][1], w, f0, r1, f1)
    BY <1>5, OneRuns
<1> DEFINE a == w["eax"]
           b == w["ebx"]
           All == 0 .. Long - 1
<1>7. Leaves("mov", f0, a, w["ecx"], r1["ecx"], f1) /\ r1["eax"] = a /\ r1["ebx"] = b
    BY <1>1, <1>6, TwoOpLeaves, Values, FourRegs DEF TwoOps
<1>8. r1["ecx"] = a
    BY <1>7 DEF Leaves
<1>9. Leaves("and", f1, b, a, r2["ecx"], f2) /\ r2["eax"] = a /\ r2["ebx"] = b
    BY <1>1, <1>5, <1>7, <1>8, TwoOpLeaves, Values, FourRegs DEF TwoOps
<1>10. r3["ebx"] = Limit - 1 - b /\ r3["ecx"] = r2["ecx"] /\ r3["eax"] = a
    BY <1>1, <1>4, <1>9, OneOpLeaves, FourRegs
<1>11. Leaves("and", f3, a, r3["ebx"], r4["ebx"], f4) /\ r4["ecx"] = r2["ecx"]
    BY <1>1, <1>3, <1>10, TwoOpLeaves, Values, FourRegs DEF TwoOps
<1>12. Leaves("or", f4, r4["ecx"], r4["ebx"], rg["ebx"], f)
    BY <1>1, <1>2, TwoOpLeaves, Values, FourRegs DEF TwoOps
<1>13. a \in Word /\ b \in Word /\ rg["ebx"] \in Word
    BY <1>2, <1>6, MoreRuns, FourRegs DEF Ready
<1>14. Bits(r2["ecx"]) = Bits(b) \cap Bits(a)
    BY <1>9 DEF Leaves
<1>15. Bits(r3["ebx"]) = All \ Bits(b)
    BY <1>10, <1>13, NotBits
<1>16. Bits(r4["ebx"]) = Bits(a) \cap Bits(r3["ebx"])
    BY <1>11 DEF Leaves
<1>17. Bits(rg["ebx"]) = Bits(r2["ecx"]) \cup Bits(r4["ebx"])
    BY <1>11, <1>12 DEF Leaves
<1>18. Bits(a) \subseteq All
    BY DEF Bits
<1>19. Bits(rg["ebx"]) = Bits(a)
    <2> HIDE DEF All
    <2> QED BY <1>14, <1>15, <1>16, <1>17, <1>18
<1> QED BY <1>13, <1>19, WordOfBits DEF a

\* half: the sign bit is added before the shift.
LEMMA HalfEnds ==
    ASSUME Code = RoutineCode, NEW w, NEW rg, NEW f, Traced("half", 5, w, rg, f)
    PROVE  Signed(rg["eax"], L) = Quotient(Signed(w["eax"], L), 2)
<1>1. /\ "half" \in Plain
      /\ Code["half"][1] = <<"mov", <<"reg", "eax">>, <<"reg", "edx">>, Long>>
      /\ Code["half"][2] = <<"shr", <<"imm", Long - 1>>, <<"reg", "edx">>, Long>>
      /\ Code["half"][3] = <<"add", <<"reg", "edx">>, <<"reg", "eax">>, Long>>
      /\ Code["half"][4] = <<"sar", <<"imm", 1>>, <<"reg", "eax">>, Long>>
    <2>1. "half" \in Plain
        BY DEF Plain
    <2> QED BY <2>1, PlainCode
<1>2. PICK r3, f3 : Traced("half", 4, w, r3, f3) /\ Ready(r3, f3)
                    /\ Runs(Code["half"][4], r3, f3, rg, f)
    BY MoreRuns
<1>3. PICK r2, f2 : Traced("half", 3, w, r2, f2) /\ Ready(r2, f2)
                    /\ Runs(Code["half"][3], r2, f2, r3, f3)
    BY <1>2, MoreRuns
<1>4. PICK r1, f1 : Traced("half", 2, w, r1, f1) /\ Ready(r1, f1)
                    /\ Runs(Code["half"][2], r1, f1, r2, f2)
    BY <1>3, MoreRuns
<1>5. PICK f0 : Ready(w, f0) /\ Runs(Code["half"][1], w, f0, r1, f1)
    BY <1>4, OneRuns
<1> DEFINE a == w["eax"]
           h == SignBit(Long)
           b == a \div h
           d == r3["eax"]
           x == Signed(a, Long)
           y == x + b
<1>6. Leaves("mov", f0, a, w["edx"], r1["edx"], f1) /\ r1["eax"] = a
    BY <1>1, <1>5, TwoOpLeaves, Values, FourRegs DEF TwoOps
<1>7. r1["edx"] = a
    BY <1>6 DEF Leaves
<1>8. Leaves("shr", f1, Long - 1, a, r2["edx"], f2) /\ r2["eax"] = a
    BY <1>1, <1>4, <1>6, <1>7, TwoOpLeaves, Values, FourRegs DEF TwoOps
<1>9. r2["edx"] = b
    BY <1>8 DEF Leaves, SignBit
<1>10. Leaves("add", f2, b, a, d, f3)
    BY <1>1, <1>3, <1>8, <1>9, TwoOpLeaves, Values, FourRegs DEF TwoOps
<1>11. d = AddValue(b, a, Long)
    BY <1>10 DEF Leaves
<1>12. Leaves("sar", f3, 1, d, rg["eax"], f)
    BY <1>1, <1>2, TwoOpLeaves, Values, FourRegs DEF TwoOps
<1>13. rg["eax"] = Cut(Signed(d, Long) \div 2^1, Long)
    BY <1>12 DEF Leaves
<1>14. a \in Word /\ d \in Word
    BY <1>2, <1>5, FourRegs DEF Ready
<1>15. /\ a \in 0 .. Limit - 1 /\ Limit \in Nat \ {0} /\ h \in Nat \ {0} /\ Limit = 2 * h
       /\ x = (IF a < h THEN a ELSE a - Limit)
       /\ Signed(d, Long) = (IF d < h THEN d ELSE d - Limit)
    BY <1>14, LongFacts, RegisterFacts
<1> HIDE DEF a, h, d, x
<1>16. b = IF a < h THEN 0 ELSE 1
    <2>1. CASE a < h
        <3>1. (0 * h + a) \div h = 0
            BY <1>15, <2>1, DivModIntUnique
        <3>2. 0 * h + a = a
            BY <1>15
        <3> QED BY <2>1, <3>1, <3>2
    <2>2. CASE ~(a < h)
        <3>1. (1 * h + (a - h)) \div h = 1
            BY <1>15, <2>2, DivModIntUnique
        <3>2. 1 * h + (a - h) = a
            BY <1>15
        <3> QED BY <2>2, <3>1, <3>2
    <2> QED BY <2>1, <2>2
<1> HIDE DEF b
<1>17. Signed(d, Long) = y /\ y \in -h .. h - 1
    <2>1. d = IF b + a < Limit THEN b + a ELSE b + a - Limit
        BY <1>11 DEF AddValue, Limit
    <2> QED BY <1>15, <1>16, <2>1
<1> DEFINE q == y \div 2
           r == y % 2
<1>18. q \in Int /\ r \in 0 .. 1 /\ y = q * 2 + r
    <2>1. y \in Int
        BY <1>15, <1>17
    <2> HIDE DEF y
    <2> QED BY <2>1
<1>19. 2^1 = 2
    OBVIOUS
<1>20. Quotient(x, 2) = IF x < 0 THEN -((-x) \div 2) ELSE x \div 2
    BY DEF Quotient
<1>21. Quotient(x, 2) = q
    <2>1. CASE a < h
        <3>1. x >= 0 /\ y = x
            BY <1>15, <1>16, <2>1
        <3> QED BY <1>15, <1>20, <3>1
    <2>2. CASE ~(a < h)
        <3>1. x < 0 /\ y = x + 1 /\ x \in Int
            BY <1>15, <1>16, <2>2
        <3> HIDE DEF q, r, y
        <3>2. -x = (-q) * 2 + (1 - r)
            BY <1>18, <3>1
        <3>3. -q \in Int /\ 1 - r \in 0 .. 2 - 1
            BY <1>18
        <3> DEFINE m == -q
                   n == 1 - r
        <3>4. m \in Int /\ n \in 0 .. 2 - 1 /\ -x = m * 2 + n
            BY <3>2, <3>3
        <3> HIDE DEF m, n
        <3>5. (m * 2 + n) \div 2 = m
            BY <3>4, DivModIntUnique
        <3>6. (-x) \div 2 = m
            BY <3>4, <3>5
        <3> QED BY <1>18, <1>20, <3>1, <3>6 DEF m
    <2> QED BY <2>1, <2>2
<1>22. rg["eax"] = Cut(q, Long)
    BY <1>13, <1>17, <1>19
<1> HIDE DEF q, r, y
<1>23. q \in -h .. h - 1
    BY <1>15, <1>17, <1>18
<1>24. Signed(q % Limit, Long) = q
    BY <1>23, SignedBack DEF h
<1>25. rg["eax"] = q % Limit
    BY <1>22 DEF Cut, Limit
<1> QED BY <1>21, <1>24, <1>25 DEF x, a, L

\* sext.
LEMMA SextEnds ==
    ASSUME Code = RoutineCode, NEW w, NEW rg, NEW f, Traced("sext", 4, w, rg, f)
    PROVE  rg["eax"] = rg["ebx"] /\ Signed(rg["eax"], L) = Signed(w["eax"], ByteBits)
<1> DEFINE n == Long - ByteBits
<1>1. /\ "sext" \in Plain
      /\ Code["sext"][1] = <<"movs", <<"reg", "eax">>, <<"reg", "ebx">>, Long>>
      /\ Code["sext"][2] = <<"shl", <<"imm", n>>, <<"reg", "eax">>, Long>>
      /\ Code["sext"][3] = <<"sar", <<"imm", n>>, <<"reg", "eax">>, Long>>
    <2>1. "sext" \in Plain
        BY DEF Plain
    <2> QED BY <2>1, PlainCode
<1>2. PICK r2, f2 : Traced("sext", 3, w, r2, f2) /\ Ready(r2, f2)
                    /\ Runs(Code["sext"][3], r2, f2, rg, f)
    BY MoreRuns
<1>3. PICK r1, f1 : Traced("sext", 2, w, r1, f1) /\ Ready(r1, f1)
                    /\ Runs(Code["sext"][2], r1, f1, r2, f2)
    BY <1>2, MoreRuns
<1>4. PICK f0 : Ready(w, f0) /\ Runs(Code["sext"][1], w, f0, r1, f1)
    BY <1>3, OneRuns
<1> DEFINE a == w["eax"]
           c == Cut(a, ByteBits)
           s == Signed(a, ByteBits)
           d == r2["eax"]
           P == 2^n
           B == 2^ByteBits
           g == 2^(ByteBits - 1)
           h == SignBit(Long)
<1>5. Leaves("movs", f0, a, w["ebx"], r1["ebx"], f1) /\ r1["eax"] = a
    BY <1>1, <1>4, TwoOpLeaves, Values, FourRegs DEF TwoOps
<1>6. Leaves("shl", f1, n, a, d, f2) /\ r2["ebx"] = r1["ebx"]
    BY <1>1, <1>3, <1>5, TwoOpLeaves, Values, FourRegs DEF TwoOps
<1>7. Leaves("sar", f2, n, d, rg["eax"], f) /\ rg["ebx"] = r1["ebx"]
    BY <1>1, <1>2, <1>6, TwoOpLeaves, Values, FourRegs DEF TwoOps
<1>8. /\ r1["ebx"] = SignExt(c, ByteBits) /\ d = (a * P) % Limit
      /\ rg["eax"] = Cut(Signed(d, Long) \div P, Long)
    BY <1>5, <1>6, <1>7 DEF Leaves
<1>9. a \in Word
    BY <1>4, FourRegs DEF Ready
<1>10. /\ a \in Int /\ Limit \in Nat \ {0} /\ h \in Nat \ {0} /\ Limit = 2 * h
    BY <1>9, LongFacts, RegisterFacts
<1>11. ByteBits \in Nat \ {0} /\ n \in Nat /\ ByteBits + n = Long /\ ByteBits - 1 \in Nat
    BY BitsAssumption
<1>12. P \in Nat \ {0} /\ B \in Nat \ {0} /\ g \in Nat \ {0}
    BY <1>11, PowerIsNumber
<1>13. Limit = B * P
    BY <1>11, PowerOfSum DEF Limit
<1>14. B = 2 * g
    <2>1. 2^((ByteBits - 1) + 1) = 2 * 2^(ByteBits - 1)
        BY <1>11, PowerDoubles
    <2>2. (ByteBits - 1) + 1 = ByteBits
        BY <1>11
    <2> QED BY <2>1, <2>2
<1>15. s \in Int /\ s \in -g .. g - 1 /\ Signed(c, ByteBits) = s
       /\ Cut(s, ByteBits) = Cut(a, ByteBits)
    BY <1>10, <1>11, SignedFacts
<1>16. s % B = a % B
    BY <1>15 DEF Cut
<1>17. r1["ebx"] = s % Limit
    BY <1>8, <1>15 DEF SignExt, Cut, Limit
<1> HIDE DEF a, c, s, d, P, B, g, h
<1>18. PICK k \in Int : a = s + k * B
    <2> DEFINE i == a \div B
               j == s \div B
               m == a % B
    <2>1. i \in Int /\ j \in Int /\ m \in Int /\ a = i * B + m /\ s = j * B + m
        BY <1>10, <1>12, <1>15, <1>16, DivModInt
    <2> HIDE DEF i, j, m
    <2>2. a = s + (i - j) * B /\ i - j \in Int
        BY <1>12, <2>1
    <2> QED BY <2>2
<1> DEFINE t == s * P
<1>19. t \in Int /\ a * P = t + k * Limit
    BY <1>12, <1>13, <1>15, <1>18
<1>20. d = t % Limit
    <2> HIDE DEF t
    <2>1. (t + k * Limit) % Limit = t % Limit
        BY <1>10, <1>19, ModPlus
    <2> QED BY <1>8, <1>19, <2>1
<1>21. h = g * P
    BY <1>10, <1>12, <1>13, <1>14
<1>22. t \in -h .. h - 1
    <2>1. (-g) * P <= s * P /\ s * P <= (g - 1) * P
        BY <1>12, <1>15
    <2>2. (-g) * P = -(g * P) /\ (g - 1) * P = g * P - P
        BY <1>12
    <2>3. g * P \in Int
        BY <1>12
    <2> QED BY <1>12, <1>19, <1>21, <2>1, <2>2, <2>3
<1>23. Signed(d, Long) = t
    BY <1>20, <1>22, SignedBack DEF h
<1>24. t \div P = s
    <2>1. (s * P + 0) \div P = s
        BY <1>12, <1>15, DivModIntUnique
    <2>2. s * P + 0 = t
        BY <1>19
    <2> QED BY <2>1, <2>2
<1>25. rg["eax"] = s % Limit
    BY <1>8, <1>23, <1>24 DEF Cut, Limit
<1>26. s \in -h .. h - 1
    <2>1. g <= g * P /\ g * P \in Int
        BY <1>12
    <2> QED BY <1>12, <1>15, <1>21, <2>1
<1>27. Signed(s % Limit, Long) = s
    BY <1>26, SignedBack DEF h
<1> QED BY <1>7, <1>17, <1>25, <1>27 DEF s, a, L

-----------------------------------------------------------------------------
(* The counted loop.                                                       *)

\* Before its k-th instruction, with the number b added to a sum n times.
Turning(k, n, b, rg, f) ==
    LET ecx == rg["ecx"]
        sum(m) == (b * m) % Limit
    IN /\ rg["ebx"] = b
       /\ k = 1 => ecx = n
       /\ k = 2 => ecx = n /\ rg["edx"] = 0
       /\ k = 3 => ecx \in 0 .. n - 1 /\ rg["edx"] = sum(n - 1 - ecx)
       /\ k = 4 => ecx \in 0 .. n /\ rg["edx"] = sum(n - ecx)
       /\ k = 5 => \/ f.SF = 0 /\ ecx \in 0 .. n - 1 /\ rg["edx"] = sum(n - 1 - ecx)
                   \/ f.SF = 1 /\ rg["edx"] = sum(n)
       /\ k = 6 => rg["edx"] = sum(n)

\* The inductive invariant of the loop, into which no interrupt is sent.
LoopAt ==
    given.label = "loop" =>
        /\ irqs = 0 /\ Ready(reg, fl)
        /\ Was["ebx"] \in Word /\ Was["ecx"] \in 0 .. SignBit(Long) - 1
        /\ \E k \in 1 .. 6 : eip = <<"loop", k>> /\ Turning(k, Was["ecx"], Was["ebx"], reg, fl)

\* The instructions of the loop.
LEMMA LoopCode ==
    ASSUME Code = RoutineCode
    PROVE  Code["loop"] = <<<<"xor", <<"reg", "edx">>, <<"reg", "edx">>, Long>>, <<"jmp", 4>>,
                            <<"add", <<"reg", "ebx">>, <<"reg", "edx">>, Long>>,
                            <<"dec", <<"reg", "ecx">>, Long>>, <<"j", "ns", 3>>>>
<1>1. "loop" \in DOMAIN Routine
    BY DEF Routine
<1>2. Code["loop"] = Routine["loop"]
    BY <1>1 DEF RoutineCode
<1> QED BY <1>2 DEF Routine, R, Ebx, Ecx, Edx, L

\* The loop starts with the number of turns in ecx.
LEMMA LoopStarts == RInit => LoopAt
<1> SUFFICES ASSUME RInit, given.label = "loop"
             PROVE  /\ irqs = 0 /\ Ready(reg, fl)
                    /\ Was["ebx"] \in Word /\ Was["ecx"] \in 0 .. SignBit(Long) - 1
                    /\ \E k \in 1 .. 6 :
                           eip = <<"loop", k>> /\ Turning(k, Was["ecx"], Was["ebx"], reg, fl)
    BY DEF LoopAt
<1>1. PICK l \in Labels :
          /\ \E d \in Operands[l], s \in Pointers(l) : reg = Start(d, s)
          /\ eip = <<l, 1>> /\ irqs = Irqs[l] /\ fl = Flags0
          /\ given.label = l /\ given.reg = reg
    BY DEF RInit
<1>2. l = "loop"
    BY <1>1
<1>3. PICK d \in Operands[l], s \in [esi : {1}, edi : {2}] : reg = Start(d, s)
    <2>1. Pointers(l) = [esi : {1}, edi : {2}]
        BY <1>2, Zenon DEF Pointers
    <2> QED BY <1>1, <2>1
<1>4. Operands[l] = In({0}, 0 .. SignBit(Long) - 1, {0}, Word)
    BY <1>1, <1>2 DEF Operands, W, Z, SignBit, L
<1>5. irqs = 0
    BY <1>1, <1>2 DEF Irqs
<1>6. d.eax = 0 /\ d.ecx \in 0 .. SignBit(Long) - 1 /\ d.edx = 0 /\ d.ebx \in Word
    BY <1>3, <1>4 DEF In
<1>7. /\ reg["eax"] = d.eax /\ reg["ebx"] = d.ebx /\ reg["ecx"] = d.ecx /\ reg["edx"] = d.edx
      /\ Whole(reg)
    BY <1>3 DEF Start, DataRegs, Whole, Registers
<1>8. reg["esp"] = Cells
    BY <1>3 DEF Start, DataRegs, AddrRegs
<1>9. fl \in Flags
    BY <1>1 DEF Flags0, Flags, Arithmetic
<1>10. d.ecx \in Word /\ 0 \in Word
    BY <1>6, LongFacts
<1>11. Ready(reg, fl)
    BY <1>6, <1>7, <1>8, <1>9, <1>10 DEF Ready, DataRegs
<1>12. eip = <<"loop", 1>> /\ Was = reg
    BY <1>1, <1>2 DEF Was
<1>13. Turning(1, Was["ecx"], Was["ebx"], reg, fl)
    BY <1>12 DEF Turning
<1> QED BY <1>5, <1>6, <1>7, <1>11, <1>12, <1>13

\* One more of the numbers in the sum.
LEMMA SumNext ==
    ASSUME NEW b \in Word, NEW m \in Nat
    PROVE  AddValue(b, (b * m) % Limit, Long) = (b * (m + 1)) % Limit
<1> DEFINE x == b * m
           q == x \div Limit
           r == x % Limit
<1>1. b \in 0 .. Limit - 1 /\ Limit \in Nat \ {0}
    BY LongFacts
<1>2. x \in Nat /\ b * (m + 1) = x + b
    BY <1>1
<1> HIDE DEF x
<1>3. q \in Int /\ r \in 0 .. Limit - 1 /\ x = q * Limit + r
    BY <1>1, <1>2, DivModInt
<1> HIDE DEF q, r
<1>4. AddValue(b, r, Long) = IF b + r < Limit THEN b + r ELSE b + r - Limit
    BY DEF AddValue, Limit
<1>5. CASE b + r < Limit
    <2> DEFINE u == b + r
    <2>1. u \in 0 .. Limit - 1 /\ q * Limit + u = x + b
        BY <1>1, <1>2, <1>3, <1>5
    <2> HIDE DEF u
    <2>2. (q * Limit + u) % Limit = u
        BY <1>1, <1>3, <2>1, DivModIntUnique
    <2>3. AddValue(b, r, Long) = u
        BY <1>4, <1>5 DEF u
    <2>4. AddValue(b, r, Long) = (x + b) % Limit
        BY <2>1, <2>2, <2>3
    <2> QED BY <1>2, <2>4 DEF r, x
<1>6. CASE ~(b + r < Limit)
    <2> DEFINE u == b + r - Limit
               p == q + 1
    <2>1. u \in 0 .. Limit - 1 /\ p \in Int /\ p * Limit + u = x + b
        BY <1>1, <1>2, <1>3, <1>6
    <2> HIDE DEF u, p
    <2>2. (p * Limit + u) % Limit = u
        BY <1>1, <2>1, DivModIntUnique
    <2>3. AddValue(b, r, Long) = u
        BY <1>4, <1>6 DEF u
    <2>4. AddValue(b, r, Long) = (x + b) % Limit
        BY <2>1, <2>2, <2>3
    <2> QED BY <1>2, <2>4 DEF r, x
<1> QED BY <1>5, <1>6

\* Its instructions, apart from the jumps.
LEMMA TurnRuns ==
    ASSUME NEW k \in {1, 3, 4}, NEW b \in Word, NEW n \in 0 .. SignBit(Long) - 1,
           NEW rg, NEW f, NEW rg2, NEW f2, Ready(rg, f), Turning(k, n, b, rg, f),
           Code = RoutineCode, Runs(Code["loop"][k], rg, f, rg2, f2)
    PROVE  Turning(k + 1, n, b, rg2, f2)
<1>1. /\ rg["ebx"] = b /\ rg["ebx"] \in Word /\ rg["ecx"] \in Word /\ rg["edx"] \in Word
      /\ n \in Nat
    BY FourRegs, LongFacts DEF Ready, Turning
<1>2. CASE k = 1
    <2>1. Runs(<<"xor", <<"reg", "edx">>, <<"reg", "edx">>, Long>>, rg, f, rg2, f2)
        BY <1>2, LoopCode
    <2>2. /\ Leaves("xor", f, rg["edx"], rg["edx"], rg2["edx"], f2)
          /\ rg2["ecx"] = rg["ecx"] /\ rg2["ebx"] = rg["ebx"]
        BY <2>1, TwoOpLeaves, Values, FourRegs DEF TwoOps
    <2>3. rg2["edx"] = 0
        BY <2>2 DEF Leaves
    <2> QED BY <1>1, <1>2, <2>2, <2>3 DEF Turning
<1>3. CASE k = 3
    <2>1. Runs(<<"add", <<"reg", "ebx">>, <<"reg", "edx">>, Long>>, rg, f, rg2, f2)
        BY <1>3, LoopCode
    <2>2. /\ Leaves("add", f, b, rg["edx"], rg2["edx"], f2)
          /\ rg2["ecx"] = rg["ecx"] /\ rg2["ebx"] = b
        BY <1>1, <2>1, TwoOpLeaves, Values, FourRegs DEF TwoOps
    <2> DEFINE m == n - 1 - rg["ecx"]
    <2>3. rg["ecx"] \in 0 .. n - 1 /\ rg["edx"] = (b * m) % Limit
        BY <1>3 DEF Turning
    <2>4. m \in Nat /\ m + 1 = n - rg["ecx"]
        BY <1>1, <2>3
    <2> HIDE DEF m
    <2>5. rg2["edx"] = (b * (m + 1)) % Limit
        <3>1. rg2["edx"] = AddValue(b, rg["edx"], Long)
            BY <2>2 DEF Leaves
        <3> QED BY <2>3, <2>4, <3>1, SumNext
    <2>6. rg2["edx"] = (b * (n - rg2["ecx"])) % Limit /\ rg2["ecx"] \in 0 .. n
        BY <1>1, <2>2, <2>3, <2>4, <2>5
    <2> QED BY <1>3, <2>2, <2>6 DEF Turning
<1>4. CASE k = 4
    <2> DEFINE c == rg["ecx"]
               h == SignBit(Long)
    <2>1. Runs(<<"dec", <<"reg", "ecx">>, Long>>, rg, f, rg2, f2)
        BY <1>4, LoopCode
    <2>2. /\ Leaves("sub", f, 1, c, rg2["ecx"], f2)
          /\ rg2["edx"] = rg["edx"] /\ rg2["ebx"] = b
        BY <1>1, <2>1, OneOpLeaves, FourRegs
    <2>3. c \in 0 .. n /\ rg["edx"] = (b * (n - c)) % Limit
        BY <1>4 DEF Turning
    <2>4. rg2["ecx"] = SubValue(c, 1, Long) /\ f2.SF = Bit(rg2["ecx"] >= h)
        BY <2>2 DEF Leaves, Sets
    <2>5. SubValue(c, 1, Long) = IF c >= 1 THEN c - 1 ELSE c - 1 + Limit
        BY DEF SubValue, Limit
    <2>6. h \in Nat \ {0} /\ Limit = 2 * h /\ n < h
        BY LongFacts
    <2> HIDE DEF c, h
    <2>7. CASE c = 0
        <3>1. n - c = n /\ rg2["ecx"] = Limit - 1
            BY <1>1, <2>4, <2>5, <2>6, <2>7
        <3>2. f2.SF = 1
            BY <2>4, <2>6, <3>1 DEF Bit
        <3> QED BY <1>4, <2>2, <2>3, <3>1, <3>2 DEF Turning
    <2>8. CASE c # 0
        <3>1. rg2["ecx"] = c - 1 /\ c - 1 \in 0 .. n - 1 /\ n - 1 - (c - 1) = n - c
            BY <1>1, <2>3, <2>4, <2>5, <2>8
        <3>2. f2.SF = 0
            BY <1>1, <2>4, <2>6, <3>1 DEF Bit
        <3>3. rg2["edx"] = (b * (n - 1 - rg2["ecx"])) % Limit
            BY <2>2, <2>3, <3>1
        <3> QED BY <1>4, <2>2, <3>1, <3>2, <3>3 DEF Turning
    <2> QED BY <2>7, <2>8
<1> QED BY <1>2, <1>3, <1>4

\* Every step of the loop keeps the sum.
LEMMA LoopStep ==
    ASSUME LoopAt, [CpuNext \/ Done]_cpuvars, Code = RoutineCode
    PROVE  LoopAt'
<1>1. CASE UNCHANGED cpuvars
    BY <1>1 DEF LoopAt, cpuvars, cpu, Was
<1>2. CASE Done
    BY <1>1, <1>2 DEF Done
<1>3. ASSUME CpuNext, given.label = "loop" PROVE LoopAt'
    <2> DEFINE n == Was["ecx"]
               b == Was["ebx"]
    <2>1. /\ irqs = 0 /\ Ready(reg, fl) /\ b \in Word /\ n \in 0 .. SignBit(Long) - 1
        BY <1>3 DEF LoopAt
    <2>2. PICK k \in 1 .. 6 : eip = <<"loop", k>> /\ Turning(k, n, b, reg, fl)
        BY <1>3 DEF LoopAt
    <2> DEFINE i == Code["loop"][k]
    <2>3. given' = given /\ irqs' = 0 /\ k \in 1 .. 5 /\ (Integer(i) \/ X87(i))
        <3>1. Len(Code["loop"]) = 5
            BY LoopCode
        <3>2. ~DoIntr
            BY <2>1 DEF DoIntr
        <3> QED BY <1>3, <2>1, <2>2, <3>1, <3>2 DEF CpuNext, ExecInst, Running, Inst
    <2>4. Was' = Was
        BY <2>3 DEF Was
    <2>5. ASSUME NEW j \in 1 .. 6, Ready(reg', fl'), eip' = <<"loop", j>>,
                 Turning(j, n, b, reg', fl')
          PROVE  LoopAt'
        BY <1>3, <2>1, <2>3, <2>4, <2>5 DEF LoopAt
    <2>6. CASE k \in {1, 3, 4}
        <3>1. Simple(i)
            <4>1. Operand(<<"reg", "edx">>) /\ Operand(<<"reg", "ebx">>)
                BY FourRegs DEF Operand
            <4>2. CASE k = 1
                <5>1. i = <<"xor", <<"reg", "edx">>, <<"reg", "edx">>, Long>>
                    BY <4>2, LoopCode
                <5> HIDE DEF i
                <5>2. \E m \in TwoOps \cup {"cmp"}, d \in DataRegs : \E o :
                          Operand(o) /\ i = <<m, o, <<"reg", d>>, Long>>
                    BY <4>1, <5>1, FourRegs DEF TwoOps
                <5> QED BY <5>2 DEF Simple
            <4>3. CASE k = 3
                <5>1. i = <<"add", <<"reg", "ebx">>, <<"reg", "edx">>, Long>>
                    BY <4>3, LoopCode
                <5> HIDE DEF i
                <5>2. \E m \in TwoOps \cup {"cmp"}, d \in DataRegs : \E o :
                          Operand(o) /\ i = <<m, o, <<"reg", d>>, Long>>
                    BY <4>1, <5>1, FourRegs DEF TwoOps
                <5> QED BY <5>2 DEF Simple
            <4>4. CASE k = 4
                <5>1. i = <<"dec", <<"reg", "ecx">>, Long>>
                    BY <4>4, LoopCode
                <5> HIDE DEF i
                <5>2. \E m \in {"neg", "not", "inc", "dec"}, d \in DataRegs :
                          i = <<m, <<"reg", d>>, Long>>
                    BY <5>1, FourRegs
                <5> QED BY <5>2 DEF Simple
            <4> QED BY <2>6, <4>2, <4>3, <4>4
        <3> HIDE DEF i
        <3>2. NextInst /\ Runs(i, reg, fl, reg', fl') /\ Ready(reg', fl')
            BY <2>1, <2>3, <3>1, SimpleRuns
        <3>3. PICK x, y, u, v, c, m :
                  x = reg /\ y = fl /\ u = reg' /\ v = fl' /\ c = b /\ m = n
            OBVIOUS
        <3>4. Turning(k + 1, m, c, u, v)
            <4>1. Ready(x, y) /\ Turning(k, m, c, x, y) /\ Runs(Code["loop"][k], x, y, u, v)
                BY <2>1, <2>2, <3>2, <3>3 DEF i
            <4>2. c \in Word /\ m \in 0 .. SignBit(Long) - 1
                BY <2>1, <3>3
            <4> HIDE DEF b, n
            <4> QED BY <2>6, <4>1, <4>2, TurnRuns
        <3>5. eip' = <<"loop", k + 1>>
            BY <2>2, <3>2 DEF NextInst, Goto
        <3>6. k + 1 \in 1 .. 6 /\ Turning(k + 1, n, b, reg', fl')
            BY <2>6, <3>3, <3>4
        <3> QED BY <2>5, <3>2, <3>5, <3>6
    <2>7. CASE k = 2
        <3>1. i = <<"jmp", 4>>
            BY <2>7, LoopCode
        <3>2. eip' = <<"loop", 4>> /\ reg' = reg /\ fl' = fl
            <4>1. JmpInst(<<"jmp", 4>>)
                BY <2>3, <3>1, Dispatch
            <4> QED BY <2>2, <4>1 DEF JmpInst, Goto
        <3>3. Turning(4, n, b, reg, fl)
            <4>1. reg["ecx"] = n /\ reg["edx"] = 0 /\ reg["ebx"] = b
                BY <2>2, <2>7 DEF Turning
            <4>2. n \in 0 .. n /\ b \in 0 .. Limit - 1 /\ Limit \in Nat \ {0} /\ n - n = 0
                BY <2>1, LongFacts
            <4>3. b * 0 = 0 /\ 0 % Limit = 0
                BY <4>2, SmallMod
            <4> HIDE DEF n, b
            <4>4. (b * (n - reg["ecx"])) % Limit = 0 /\ reg["ecx"] \in 0 .. n
                BY <4>1, <4>2, <4>3
            <4> QED BY <4>1, <4>4 DEF Turning
        <3>4. Ready(reg', fl') /\ Turning(4, n, b, reg', fl') /\ 4 \in 1 .. 6
            BY <2>1, <3>2, <3>3
        <3> QED BY <2>5, <3>2, <3>4
    <2>8. CASE k = 5
        <3>1. i = <<"j", "ns", 3>>
            BY <2>8, LoopCode
        <3>2. JccInst(<<"j", "ns", 3>>)
            BY <2>3, <3>1, Dispatch
        <3>3. /\ eip' = <<"loop", IF fl.SF = 0 THEN 3 ELSE 6>>
              /\ reg' = reg /\ fl' = fl
            BY <2>2, <2>8, <3>2 DEF JccInst, Goto, Condition
        <3>4. CASE fl.SF = 0
            <4>1. Turning(3, n, b, reg, fl)
                BY <2>2, <2>8, <3>4 DEF Turning
            <4>2. Ready(reg', fl') /\ Turning(3, n, b, reg', fl') /\ 3 \in 1 .. 6
                BY <2>1, <3>3, <4>1
            <4> QED BY <2>5, <3>3, <3>4, <4>2
        <3>5. CASE fl.SF # 0
            <4>1. Turning(6, n, b, reg, fl)
                BY <2>2, <2>8, <3>5 DEF Turning
            <4>2. Ready(reg', fl') /\ Turning(6, n, b, reg', fl') /\ 6 \in 1 .. 6
                BY <2>1, <3>3, <4>1
            <4> QED BY <2>5, <3>3, <3>5, <4>2
        <3> QED BY <3>4, <3>5
    <2> QED BY <2>3, <2>6, <2>7, <2>8
<1>4. ASSUME CpuNext, given.label # "loop" PROVE LoopAt'
    <2>1. given' = given
        BY <1>4 DEF CpuNext, ExecInst, DoIntr
    <2> QED BY <1>4, <2>1 DEF LoopAt
<1> QED BY <1>1, <1>2, <1>3, <1>4

\* Behind its last instruction the sum has all its terms.
LEMMA LoopEnds ==
    ASSUME LoopAt, Returned({"loop"}), Code = RoutineCode
    PROVE  reg["edx"] = Cut(Was["ebx"] * Was["ecx"], L)
<1>1. given.label = "loop" /\ eip = <<"loop", 6>>
    <2>1. Len(Code["loop"]) = 5
        BY LoopCode
    <2>2. given.label = "loop" /\ eip = <<given.label, Len(Code[given.label]) + 1>>
        BY DEF Returned
    <2> QED BY <2>1, <2>2
<1>2. Turning(6, Was["ecx"], Was["ebx"], reg, fl)
    BY <1>1 DEF LoopAt
<1> QED BY <1>2 DEF Turning, Cut, Limit, L

-----------------------------------------------------------------------------
(* The integer routines.                                                   *)

\* How many instructions the routines have.
LEMMA PlainLengths ==
    ASSUME Code = RoutineCode
    PROVE  /\ \A l \in {"mul", "imul", "imul2"} : Len(Code[l]) = 1
           /\ \A l \in {"add64", "sub64", "cmp64", "div", "idiv", "minus"} : Len(Code[l]) = 2
           /\ \A l \in {"neg64", "abs", "sext", "bool"} : Len(Code[l]) = 3
           /\ Len(Code["half"]) = 4 /\ Len(Code["mask"]) = 5
<1>1. Len(Code["mul"]) = 1
    <2>1. "mul" \in Plain
        BY DEF Plain
    <2> QED BY <2>1, PlainCode
<1>2. Len(Code["imul"]) = 1
    <2>1. "imul" \in Plain
        BY DEF Plain
    <2> QED BY <2>1, PlainCode
<1>3. Len(Code["imul2"]) = 1
    <2>1. "imul2" \in Plain
        BY DEF Plain
    <2> QED BY <2>1, PlainCode
<1>4. Len(Code["add64"]) = 2
    <2>1. "add64" \in Plain
        BY DEF Plain
    <2> QED BY <2>1, PlainCode
<1>5. Len(Code["sub64"]) = 2
    <2>1. "sub64" \in Plain
        BY DEF Plain
    <2> QED BY <2>1, PlainCode
<1>6. Len(Code["cmp64"]) = 2
    <2>1. "cmp64" \in Plain
        BY DEF Plain
    <2> QED BY <2>1, PlainCode
<1>7. Len(Code["div"]) = 2
    <2>1. "div" \in Plain
        BY DEF Plain
    <2> QED BY <2>1, PlainCode
<1>8. Len(Code["idiv"]) = 2
    <2>1. "idiv" \in Plain
        BY DEF Plain
    <2> QED BY <2>1, PlainCode
<1>9. Len(Code["minus"]) = 2
    <2>1. "minus" \in Plain
        BY DEF Plain
    <2> QED BY <2>1, PlainCode
<1>10. Len(Code["neg64"]) = 3
    <2>1. "neg64" \in Plain
        BY DEF Plain
    <2> QED BY <2>1, PlainCode
<1>11. Len(Code["abs"]) = 3
    <2>1. "abs" \in Plain
        BY DEF Plain
    <2> QED BY <2>1, PlainCode
<1>12. Len(Code["sext"]) = 3
    <2>1. "sext" \in Plain
        BY DEF Plain
    <2> QED BY <2>1, PlainCode
<1>13. Len(Code["bool"]) = 3
    <2>1. "bool" \in Plain
        BY DEF Plain
    <2> QED BY <2>1, PlainCode
<1>14. Len(Code["half"]) = 4
    <2>1. "half" \in Plain
        BY DEF Plain
    <2> QED BY <2>1, PlainCode
<1>15. Len(Code["mask"]) = 5
    <2>1. "mask" \in Plain
        BY DEF Plain
    <2>2. Code["mask"] = <<<<"mov", <<"reg", "eax">>, <<"reg", "ecx">>, Long>>,
                           <<"and", <<"reg", "ebx">>, <<"reg", "ecx">>, Long>>,
                           <<"not", <<"reg", "ebx">>, Long>>,
                           <<"and", <<"reg", "eax">>, <<"reg", "ebx">>, Long>>,
                           <<"or", <<"reg", "ecx">>, <<"reg", "ebx">>, Long>>>>
        BY <2>1, PlainCode, SMTT(30)
    <2> QED BY <2>2
<1> QED
    BY Zenon, <1>1, <1>2, <1>3, <1>4, <1>5, <1>6, <1>7, <1>8, <1>9, <1>10, <1>11,
       <1>12, <1>13, <1>14, <1>15

\* A routine that has returned has executed all its instructions, one after the other.
LEMMA PlainTraces ==
    ASSUME PlainAt, Code = RoutineCode
    PROVE  /\ \A l \in {"mul", "imul", "imul2"} : Returned({l}) => Traced(l, 2, Was, reg, fl)
           /\ \A l \in {"add64", "sub64", "cmp64", "div", "idiv", "minus"} :
                  Returned({l}) => Traced(l, 3, Was, reg, fl)
           /\ \A l \in {"neg64", "abs", "sext", "bool"} : Returned({l})
                  => Traced(l, 4, Was, reg, fl)
           /\ Returned({"half"}) => Traced("half", 5, Was, reg, fl)
           /\ Returned({"mask"}) => Traced("mask", 6, Was, reg, fl)
           /\ Returned({"idiv"}) => ~(Was["eax"] = Smallest /\ Was["ebx"] = 2^L - 1)
<1>1. \A l \in Plain : Returned({l}) => Traced(l, Len(Code[l]) + 1, Was, reg, fl)
    BY PlainEnds
<1>2. Returned({"idiv"}) => ~(Was["eax"] = Smallest /\ Was["ebx"] = 2^L - 1)
    <2>1. "idiv" \in Plain
        BY DEF Plain
    <2> QED BY <2>1, PlainEnds
<1>3. ASSUME NEW l \in {"mul", "imul", "imul2"}, Returned({l})
      PROVE  Traced(l, 2, Was, reg, fl)
    <2>1. l \in Plain
        BY DEF Plain
    <2>2. Len(Code[l]) = 1
        BY PlainLengths
    <2>3. Traced(l, Len(Code[l]) + 1, Was, reg, fl)
        BY <1>1, <1>3, <2>1
    <2> QED BY <2>2, <2>3
<1>4. ASSUME NEW l \in {"add64", "sub64", "cmp64", "div", "idiv", "minus"}, Returned({l})
      PROVE  Traced(l, 3, Was, reg, fl)
    <2>1. l \in Plain
        BY DEF Plain
    <2>2. Len(Code[l]) = 2
        BY PlainLengths
    <2>3. Traced(l, Len(Code[l]) + 1, Was, reg, fl)
        BY <1>1, <1>4, <2>1
    <2> QED BY <2>2, <2>3
<1>5. ASSUME NEW l \in {"neg64", "abs", "sext", "bool"}, Returned({l})
      PROVE  Traced(l, 4, Was, reg, fl)
    <2>1. l \in Plain
        BY DEF Plain
    <2>2. Len(Code[l]) = 3
        BY PlainLengths
    <2>3. Traced(l, Len(Code[l]) + 1, Was, reg, fl)
        BY <1>1, <1>5, <2>1
    <2> QED BY <2>2, <2>3
<1>6. ASSUME NEW l \in {"half"}, Returned({l})
      PROVE  Traced(l, 5, Was, reg, fl)
    <2>1. l \in Plain
        BY DEF Plain
    <2>2. Len(Code[l]) = 4
        BY PlainLengths
    <2>3. Traced(l, Len(Code[l]) + 1, Was, reg, fl)
        BY <1>1, <1>6, <2>1
    <2> QED BY <2>2, <2>3
<1>7. ASSUME NEW l \in {"mask"}, Returned({l})
      PROVE  Traced(l, 6, Was, reg, fl)
    <2>1. l \in Plain
        BY DEF Plain
    <2>2. Len(Code[l]) = 5
        BY PlainLengths
    <2>3. Traced(l, Len(Code[l]) + 1, Was, reg, fl)
        BY <1>1, <1>7, <2>1
    <2> QED BY <2>2, <2>3
<1> QED
    BY <1>2, <1>3, <1>4, <1>5, <1>6, <1>7, Zenon

\* Arithmetic of twice the width.
LEMMA WideEnds ==
    ASSUME PlainAt, Code = RoutineCode
    PROVE  WideArithmetic
<1>1. PICK w, rg, f : w = Was /\ rg = reg /\ f = fl
    OBVIOUS
<1>2. ASSUME Returned({"add64"})
      PROVE  LET sum == Wide(Was["edx"], Was["ecx"]) + Wide(Was["ebx"], Was["eax"])
                 ssum == SignedWide(Was["edx"], Was["ecx"]) + SignedWide(Was["ebx"], Was["eax"])
             IN /\ Wide(reg["edx"], reg["ecx"]) = sum % 2^(2 * L)
                /\ fl.CF = Bit(sum >= 2^(2 * L))
                /\ fl.OF = Bit(ssum # Signed(ssum, 2 * L))
    <2>1. Traced("add64", 3, w, rg, f)
        BY <1>1, <1>2, PlainTraces
    <2> QED BY <1>1, <2>1, Add64Ends
<1>3. ASSUME Returned({"sub64"})
      PROVE  Wide(reg["edx"], reg["ecx"])
             = (Wide(Was["edx"], Was["ecx"]) - Wide(Was["ebx"], Was["eax"])) % 2^(2 * L)
    <2>1. Traced("sub64", 3, w, rg, f)
        BY <1>1, <1>3, PlainTraces
    <2> QED BY <1>1, <2>1, Sub64Ends
<1>4. ASSUME Returned({"neg64"})
      PROVE  Wide(reg["edx"], reg["eax"]) = (-Wide(Was["edx"], Was["eax"])) % 2^(2 * L)
    <2>1. Traced("neg64", 4, w, rg, f)
        BY <1>1, <1>4, PlainTraces
    <2> QED BY <1>1, <2>1, Neg64Ends
<1>5. ASSUME Returned({"cmp64"})
      PROVE  /\ Condition("b", fl) <=> Wide(Was["edx"], Was["ecx"]) < Wide(Was["ebx"], Was["eax"])
             /\ Condition("l", fl) <=> SignedWide(Was["edx"], Was["ecx"])
                                       < SignedWide(Was["ebx"], Was["eax"])
    <2>1. Traced("cmp64", 3, w, rg, f)
        BY <1>1, <1>5, PlainTraces
    <2> QED BY <1>1, <2>1, Cmp64Ends
<1> QED BY <1>2, <1>3, <1>4, <1>5 DEF WideArithmetic

\* Products and quotients.
LEMMA ProductsEnd ==
    ASSUME PlainAt, Code = RoutineCode
    PROVE  MultipliesAndDivides
<1>1. PICK w, rg, f : w = Was /\ rg = reg /\ f = fl
    OBVIOUS
<1>2. ASSUME Returned({"mul"})
      PROVE  /\ Wide(reg["edx"], reg["eax"]) = Was["eax"] * Was["ebx"]
             /\ fl.CF = Bit(reg["edx"] # 0) /\ fl.OF = fl.CF
    <2>1. Traced("mul", 2, w, rg, f)
        BY <1>1, <1>2, PlainTraces
    <2> QED BY <1>1, <2>1, MulEnds
<1>3. ASSUME Returned({"imul"})
      PROVE  LET p == SignedWide(reg["edx"], reg["eax"])
             IN /\ p = Signed(Was["eax"], L) * Signed(Was["ebx"], L)
                /\ fl.CF = Bit(p # Signed(p, L)) /\ fl.OF = fl.CF
    <2>1. Traced("imul", 2, w, rg, f)
        BY <1>1, <1>3, PlainTraces
    <2> QED BY <1>1, <2>1, ImulEnds
<1>4. ASSUME Returned({"imul2"}) PROVE reg["eax"] = Cut(Was["eax"] * Was["ebx"], L)
    <2>1. Traced("imul2", 2, w, rg, f)
        BY <1>1, <1>4, PlainTraces
    <2> QED BY <1>1, <2>1, Imul2Ends
<1>5. ASSUME Returned({"div"})
      PROVE  reg["eax"] * Was["ebx"] + reg["edx"] = Was["eax"] /\ reg["edx"] < Was["ebx"]
    <2>1. Traced("div", 3, w, rg, f)
        BY <1>1, <1>5, PlainTraces
    <2> QED BY <1>1, <2>1, DivEnds
<1>6. ASSUME Returned({"idiv"})
      PROVE  LET q == Signed(reg["eax"], L)
                 r == Signed(reg["edx"], L)
                 x == Signed(Was["eax"], L)
                 y == Signed(Was["ebx"], L)
             IN /\ q * y + r = x
                /\ r * r < y * y
                /\ r * x >= 0
    <2>1. Traced("idiv", 3, w, rg, f) /\ ~(w["eax"] = Smallest /\ w["ebx"] = 2^L - 1)
        BY <1>1, <1>6, PlainTraces
    <2> QED BY <1>1, <2>1, IdivEnds
<1> QED BY <1>2, <1>3, <1>4, <1>5, <1>6 DEF MultipliesAndDivides

\* The short forms.
LEMMA IdiomsEnd ==
    ASSUME PlainAt, LoopAt, Code = RoutineCode
    PROVE  Idioms
<1>1. PICK w, rg, f : w = Was /\ rg = reg /\ f = fl
    OBVIOUS
<1>2. ASSUME Returned({"abs"})
      PROVE  reg["eax"] = IF Positive(Was["eax"], L) THEN Was["eax"] ELSE Cut(-Was["eax"], L)
    <2>1. Traced("abs", 4, w, rg, f)
        BY <1>1, <1>2, PlainTraces
    <2> QED BY <1>1, <2>1, AbsEnds
<1>3. ASSUME Returned({"half"})
      PROVE  Signed(reg["eax"], L) = Quotient(Signed(Was["eax"], L), 2)
    <2>1. Traced("half", 5, w, rg, f)
        BY <1>1, <1>3, PlainTraces
    <2> QED BY <1>1, <2>1, HalfEnds
<1>4. ASSUME Returned({"sext"})
      PROVE  reg["eax"] = reg["ebx"] /\ Signed(reg["eax"], L) = Signed(Was["eax"], ByteBits)
    <2>1. Traced("sext", 4, w, rg, f)
        BY <1>1, <1>4, PlainTraces
    <2> QED BY <1>1, <2>1, SextEnds
<1>5. ASSUME Returned({"bool"}) PROVE reg["eax"] = Bit(Was["eax"] # 0)
    <2>1. Traced("bool", 4, w, rg, f)
        BY <1>1, <1>5, PlainTraces
    <2> QED BY <1>1, <2>1, BoolEnds
<1>6. ASSUME Returned({"minus"}) PROVE reg["eax"] = Cut(-Was["eax"], L)
    <2>1. Traced("minus", 3, w, rg, f)
        BY <1>1, <1>6, PlainTraces
    <2> QED BY <1>1, <2>1, MinusEnds
<1>7. ASSUME Returned({"mask"}) PROVE reg["ebx"] = Was["eax"]
    <2>1. Traced("mask", 6, w, rg, f)
        BY <1>1, <1>7, PlainTraces
    <2> QED BY <1>1, <2>1, MaskEnds
<1>8. Returned({"loop"}) => reg["edx"] = Cut(Was["ebx"] * Was["ecx"], L)
    BY LoopEnds
<1> QED BY <1>2, <1>3, <1>4, <1>5, <1>6, <1>7, <1>8 DEF Idioms

\* Sums, differences, negations and comparisons of twice the width, products,
\* quotients, the short forms of a compiler and a counted loop are right for
\* every operand of every width, with an interrupt between any two of their
\* instructions where one may arrive.
THEOREM IntegerArithmeticCorrect ==
    ASSUME Code = RoutineCode, Buffer + 15 <= Cells
    PROVE  RSpec => []IntegerArithmetic
<1>1. RInit => PlainAt /\ LoopAt
    BY PlainStarts, LoopStarts
<1>2. PlainAt /\ LoopAt /\ [CpuNext \/ Done]_cpuvars => PlainAt' /\ LoopAt'
    BY PlainStep, LoopStep DEF Deep
<1>3. PlainAt /\ LoopAt => IntegerArithmetic
    BY WideEnds, ProductsEnd, IdiomsEnd DEF IntegerArithmetic
<1> QED BY <1>1, <1>2, <1>3, PTL DEF RSpec
=============================================================================
