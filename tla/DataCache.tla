------------------------------ MODULE DataCache ------------------------------
(***************************************************************************)
(* The set associative data cache of NEMU (memory/mmu/cache.c) in front of *)
(* hw_mem (memory/memory.c), as paddr_read and paddr_write use it in a     *)
(* CACHE_ENABLED build.                                                    *)
(*                                                                         *)
(* A physical address is the memaddr bit field of cache.h: a mark, a group *)
(* and an offset in the block.  hw_mem[m][g] is the block of 64 bytes with *)
(* mark m and group g, so that adding to an address carries from the       *)
(* offset into the group and from the group into the mark.                 *)
(***************************************************************************)
EXTENDS Naturals, FiniteSetsExt

CONSTANTS NR_MARK,            \* marks that hw_mem has (MEM_SIZE_B / 8 KiB)
          GRP_NUM,            \* groups of the cache
          GRP_SIZE,           \* blocks ("ways") of a group
          CACHE_BLOCK_SIZE,   \* bytes of a block
          Byte,               \* the values of a byte
          Lens,               \* lengths of the accesses: 1, 2 and 4
          CrossWrites         \* does the guest write across two blocks?

ASSUME SizeAssumption ==
    /\ NR_MARK \in Nat \ {0}
    /\ GRP_NUM \in Nat \ {0}
    /\ GRP_SIZE \in Nat \ {0}
    /\ CACHE_BLOCK_SIZE \in Nat \ {0}
ASSUME DataAssumption ==
    /\ 0 \in Byte
    /\ Lens \subseteq 1 .. 4
    /\ \A len \in Lens : len <= CACHE_BLOCK_SIZE
    /\ CrossWrites \in BOOLEAN

VARIABLES hw_mem,   \* the memory, by mark, group and offset
          cache,    \* nemu_cache: cache[g][w] is way w of group g
          req,      \* the last request of the rest of the emulator
          ret,      \* what the last read returned
          status    \* "run", or why the emulator aborted

vars == <<hw_mem, cache, req, ret, status>>

Mark == 0 .. NR_MARK - 1
Group == 0 .. GRP_NUM - 1
Way == 0 .. GRP_SIZE - 1
Offset == 0 .. CACHE_BLOCK_SIZE - 1
U32 == [0 .. 3 -> Byte]          \* little endian: byte 0 is the lowest
Zero == [i \in 0 .. 3 |-> 0]
Content == [Offset -> Byte]
Addr == [mark : Mark, group_idx : Group, offset : Offset]
Request == [op : {"read", "write"}, addr : Addr, len : 0 .. 4, data : U32]
Block == [valid : BOOLEAN, mark : Mark, content : Content]

\* The types of the lines of the cache, of memory and of the last access.
TypeOK == /\ hw_mem \in [Mark -> [Group -> Content]]
          /\ cache \in [Group -> [Way -> Block]]
          /\ req \in Request
          /\ ret \in U32
          /\ status \in {"run", "invalid_addr", "assert_failed"}

-----------------------------------------------------------------------------
(* Addresses.                                                              *)

Crosses(a, len) == a.offset + len > CACHE_BLOCK_SIZE

\* The first byte of the following block: paddr + left.
NextBlock(a) ==
    IF a.group_idx < GRP_NUM - 1
    THEN [mark |-> a.mark, group_idx |-> a.group_idx + 1, offset |-> 0]
    ELSE [mark |-> a.mark + 1, group_idx |-> 0, offset |-> 0]

\* paddr + len < MEM_SIZE_B: the last byte of memory is refused as well.
InRange(a, len) ==
    \/ a.mark < NR_MARK - 1
    \/ a.group_idx < GRP_NUM - 1
    \/ a.offset + len < CACHE_BLOCK_SIZE

-----------------------------------------------------------------------------
(* hw_mem_read and hw_mem_write: memcpy from and to hw_mem.                *)

HwMemRead(mem, a, len) ==
    LET b == mem[a.mark][a.group_idx]
        n == NextBlock(a)
    IN [i \in 0 .. 3 |->
          IF i >= len THEN 0
          ELSE IF a.offset + i < CACHE_BLOCK_SIZE THEN b[a.offset + i]
          ELSE mem[n.mark][n.group_idx][a.offset + i - CACHE_BLOCK_SIZE]]

\* memcpy of len bytes of data to content, from offset on, within the block.
Splice(content, offset, data, len) ==
    [o \in Offset |-> IF o >= offset /\ o < offset + len
                      THEN data[o - offset] ELSE content[o]]

\* data from byte left on, and its bytes below left.
ShiftDown(data, left) == [i \in 0 .. 3 |-> IF i + left < 4 THEN data[i + left] ELSE 0]
LowPart(data, left) == [i \in 0 .. 3 |-> IF i < left THEN data[i] ELSE 0]

HwMemWrite(mem, a, len, data) ==
    LET n == NextBlock(a)
        left == CACHE_BLOCK_SIZE - a.offset
    IN [m \in Mark |-> [g \in Group |->
          IF m = a.mark /\ g = a.group_idx
          THEN Splice(mem[m][g], a.offset, data, len)
          ELSE IF Crosses(a, len) /\ m = n.mark /\ g = n.group_idx
          THEN Splice(mem[m][g], 0, ShiftDown(data, left), len - left)
          ELSE mem[m][g]]]

-----------------------------------------------------------------------------
(* One group of the cache.  c is the whole cache; the loops over the ways  *)
(* stop at the first way that fits.                                        *)

Hit(c, a, w) == c[a.group_idx][w].valid /\ c[a.group_idx][w].mark = a.mark
Empty(c, a, w) == ~c[a.group_idx][w].valid
HitWay(c, a) == Min({w \in Way : Hit(c, a, w)})
EmptyWay(c, a) == Min({w \in Way : Empty(c, a, w)})

HasCache(c, a) == \E w \in Way : Hit(c, a, w)

\* The way that cache_group_load fills; the victim depends on cpu.eip.
LoadWay(c, a, eip) ==
    IF HasCache(c, a) THEN HitWay(c, a)
    ELSE IF \E w \in Way : Empty(c, a, w) THEN EmptyWay(c, a)
    ELSE (eip * 3) % GRP_SIZE

CacheLoadNoMark(mem, c, a, eip) ==   \* mutant: the mark of the block is not set
    [c EXCEPT ![a.group_idx][LoadWay(c, a, eip)] =
        [valid |-> TRUE, mark |-> @.mark, content |-> mem[a.mark][a.group_idx]]]

CacheLoadWholeAddr(mem, c, a, eip) ==   \* mutant: the offset bits stay in the mark
    [c EXCEPT ![a.group_idx][LoadWay(c, a, eip)] =
        [valid |-> TRUE, mark |-> a.mark * CACHE_BLOCK_SIZE + a.offset,
         content |-> mem[a.mark][a.group_idx]]]

CacheLoad(mem, c, a, eip) ==
    [c EXCEPT ![a.group_idx][LoadWay(c, a, eip)] =
        [valid |-> TRUE, mark |-> a.mark, content |-> mem[a.mark][a.group_idx]]]

CacheRead(c, a, len) ==
    [i \in 0 .. 3 |-> IF i < len
                      THEN c[a.group_idx][HitWay(c, a)].content[a.offset + i]
                      ELSE 0]

CacheWriteNothing(c, a, len, data) == c   \* mutant: write around, no invalidate
CacheWrite(c, a, len, data) ==
    IF HasCache(c, a)
    THEN [c EXCEPT ![a.group_idx][HitWay(c, a)].content =
                       Splice(@, a.offset, data, len)]
    ELSE c

-----------------------------------------------------------------------------
(* cached_read and cached_write.  An access is at most one block long, so  *)
(* their recursion is at most one level deep: the parts of an access that  *)
(* crosses a block boundary are accesses within one block.                 *)

CacheAfterRead(mem, c, a, eip) ==
    IF HasCache(c, a) THEN c ELSE CacheLoad(mem, c, a, eip)

\* The high part is shifted over the low one: (high << (left*8)) | low.
CombineNoShift(low, high, left) ==   \* mutant: high | low
    [i \in 0 .. 3 |-> IF i < left THEN low[i] ELSE high[i]]
Combine(low, high, left) ==
    [i \in 0 .. 3 |-> IF i < left THEN low[i] ELSE high[i - left]]

Read(a, len, eip) ==
    /\ status = "run"
    /\ InRange(a, len)
    /\ req' = [op |-> "read", addr |-> a, len |-> len, data |-> Zero]
    /\ LET left == CACHE_BLOCK_SIZE - a.offset
           n == NextBlock(a)
           lowLen == IF Crosses(a, len) THEN left ELSE len
           c1 == CacheAfterRead(hw_mem, cache, a, eip)
           low == CacheRead(c1, a, lowLen)
           c2 == IF Crosses(a, len) THEN CacheAfterRead(hw_mem, c1, n, eip) ELSE c1
           high == CacheRead(c2, n, len - left)
           result == IF Crosses(a, len) THEN Combine(low, high, left) ELSE low
           \* the block is found, and the ground truth check of each of the
           \* calls of cached_read holds
           agrees == /\ HasCache(c1, a)
                     /\ low = HwMemRead(hw_mem, a, lowLen)
                     /\ Crosses(a, len) => /\ HasCache(c2, n)
                                           /\ high = HwMemRead(hw_mem, n, len - left)
                     /\ result = HwMemRead(hw_mem, a, len)
       IN /\ cache' = c2
          /\ IF agrees THEN ret' = result /\ UNCHANGED status
                       ELSE status' = "assert_failed" /\ UNCHANGED ret
    /\ UNCHANGED hw_mem

\* data & ~low_mask: the low bytes are cleared, the others are not shifted.
HighMasked(data, left) == [i \in 0 .. 3 |-> IF i < left THEN 0 ELSE data[i]]

Write(a, len, data) ==
    /\ status = "run"
    /\ InRange(a, len)
    /\ CrossWrites \/ ~Crosses(a, len)
    /\ req' = [op |-> "write", addr |-> a, len |-> len, data |-> data]
    /\ LET left == CACHE_BLOCK_SIZE - a.offset
           n == NextBlock(a)
           m1 == HwMemWrite(hw_mem, a, len, data)
       IN IF Crosses(a, len)
          THEN LET m2 == HwMemWrite(m1, a, left, LowPart(data, left))
                   c2 == CacheWrite(cache, a, left, LowPart(data, left))
               IN /\ hw_mem' = HwMemWrite(m2, n, len - left, HighMasked(data, left))
                  /\ cache' = CacheWrite(c2, n, len - left, HighMasked(data, left))
          ELSE /\ hw_mem' = m1
               /\ cache' = CacheWrite(cache, a, len, data)
    /\ UNCHANGED <<ret, status>>

\* pinvalid_addr: the bound check of paddr_read and paddr_write.
InvalidAddr(a, len) ==
    /\ status = "run"
    /\ ~InRange(a, len)
    /\ status' = "invalid_addr"
    /\ UNCHANGED <<hw_mem, cache, req, ret>>

-----------------------------------------------------------------------------
\* init_mem: memory is zeroed and every block is invalid.  The content of an
\* invalid block is never read; it is that of a zeroed static variable.
Init == /\ hw_mem = [m \in Mark |-> [g \in Group |-> [o \in Offset |-> 0]]]
        /\ cache = [g \in Group |-> [w \in Way |->
                      [valid |-> FALSE, mark |-> 0, content |-> [o \in Offset |-> 0]]]]
        /\ req = [op |-> "read", addr |-> [mark |-> 0, group_idx |-> 0, offset |-> 0],
                  len |-> 0, data |-> Zero]
        /\ ret = Zero
        /\ status = "run"

\* Only the low len bytes of data reach memory: the others are taken to be 0.
Data(len) == {d \in U32 : \A i \in 0 .. 3 : i >= len => d[i] = 0}

Next == \E a \in Addr, len \in Lens :
           \/ \E eip \in Way : Read(a, len, eip)
           \/ \E data \in Data(len) : Write(a, len, data)
           \/ InvalidAddr(a, len)

Spec == Init /\ [][Next]_vars

-----------------------------------------------------------------------------
\* A valid block holds the current bytes of the memory block its mark and its
\* group name: cached_write updates memory and the cached copy alike, also in
\* the two halves of a write across a block boundary.
Coherent == \A g \in Group, w \in Way :
               cache[g][w].valid => cache[g][w].content = hw_mem[cache[g][w].mark][g]

\* A memory block is in at most one way of its group, so that the first way
\* that cache_group_write finds is the only copy there is.
OneWayPerMark == \A g \in Group : \A w, v \in Way :
                    /\ cache[g][w].valid
                    /\ cache[g][v].valid
                    /\ cache[g][w].mark = cache[g][v].mark
                    => w = v

\* Neither the assert(false) of cache_group_read nor the assert(0) at the end of
\* cached_read is reached: the block is there once it is loaded, and what the
\* cache returns, in one piece or put together from two, is what hw_mem holds.
NoReadError == status # "assert_failed"

\* "Write data to memory, with cache" (cache.h): once cached_write has
\* returned, memory holds the bytes that were to be written.
WriteStored == req.op = "write" => HwMemRead(hw_mem, req.addr, req.len) = req.data

Flat(a) == (a.mark * GRP_NUM + a.group_idx) * CACHE_BLOCK_SIZE + a.offset
FlatMem == [p \in 0 .. NR_MARK * GRP_NUM * CACHE_BLOCK_SIZE - 1 |->
              hw_mem[p \div (GRP_NUM * CACHE_BLOCK_SIZE)]
                    [(p \div CACHE_BLOCK_SIZE) % GRP_NUM]
                    [p % CACHE_BLOCK_SIZE]]

M == INSTANCE Memory WITH MEM_SIZE_B <- NR_MARK * GRP_NUM * CACHE_BLOCK_SIZE,
                          mem <- FlatMem,
                          req <- [req EXCEPT !.addr = Flat(@)],
                          running <- (status = "run")

\* Memory behind the cache is a flat byte array: reads return, and writes
\* change, exactly the bytes the flat address names (paddr_read, paddr_write).
ImplementsMemory == M!MSpec
=============================================================================
