--------------------------- MODULE DataCacheProofs ---------------------------
(***************************************************************************)
(* The data cache never disagrees with memory, and memory behind it is a   *)
(* flat array of bytes, for every number of marks, groups and ways, every  *)
(* block size and every set of byte values.                                *)
(***************************************************************************)
EXTENDS DataCache, NumberLemmas, TLAPS

(***************************************************************************)
(* Good(mem, c): the part of the inductive invariant about the memory mem  *)
(* and the cache c.  The lemmas follow mem and c through the calls that    *)
(* one cached_read or cached_write makes.                                  *)
(***************************************************************************)
MemType == [Mark -> [Group -> Content]]
CacheType == [Group -> [Way -> Block]]
CoherentWith(mem, c) == \A g \in Group, w \in Way :
    c[g][w].valid => c[g][w].content = mem[c[g][w].mark][g]
Unique(c) == \A g \in Group : \A w, v \in Way :
    c[g][w].valid /\ c[g][v].valid /\ c[g][w].mark = c[g][v].mark => w = v
Good(mem, c) == /\ mem \in MemType
                /\ c \in CacheType
                /\ CoherentWith(mem, c)
                /\ Unique(c)

\* cache_group_has_cache answers 1 exactly when the loops of cache_group_read
\* and cache_group_write find a way.
LEMMA HitWayHits ==
    ASSUME NEW c, NEW a, HasCache(c, a)
    PROVE  HitWay(c, a) \in Way /\ Hit(c, a, HitWay(c, a))
<1> DEFINE S == {w \in Way : Hit(c, a, w)}
<1>1. S \subseteq Nat /\ S # {}
    BY DEF HasCache, Way
<1>2. Min(S) \in S
    BY <1>1, MinIsElement
<1> QED BY <1>2 DEF HitWay

\* The way that cache_group_load fills is a way of the group: it is empty, or
\* it is the victim that the modulo chooses.
LEMMA LoadWayIsWay ==
    ASSUME NEW c, NEW a, NEW eip \in Nat
    PROVE  LoadWay(c, a, eip) \in Way
<1> DEFINE S == {w \in Way : Empty(c, a, w)}
<1>1. CASE HasCache(c, a)
    BY <1>1, HitWayHits DEF LoadWay
<1>2. CASE ~HasCache(c, a) /\ \E w \in Way : Empty(c, a, w)
    <2>1. S \subseteq Nat /\ S # {}
        BY <1>2 DEF Way
    <2>2. Min(S) \in S
        BY <2>1, MinIsElement
    <2> QED BY <1>2, <2>2 DEF LoadWay, EmptyWay
<1>3. CASE ~HasCache(c, a) /\ ~\E w \in Way : Empty(c, a, w)
    <2>1. (eip * 3) \in Nat
        OBVIOUS
    <2>2. (eip * 3) % GRP_SIZE \in 0 .. GRP_SIZE - 1
        BY <2>1, SizeAssumption
    <2> QED BY <1>3, <2>2 DEF LoadWay, Way
<1> QED BY <1>1, <1>2, <1>3

-----------------------------------------------------------------------------
\* The block after a block that an access in range leaves is a block of memory.
LEMMA NextBlockIsAddr ==
    ASSUME NEW a \in Addr, NEW len \in 1 .. 4, InRange(a, len), Crosses(a, len)
    PROVE  /\ NextBlock(a) \in Addr
           /\ NextBlock(a).offset = 0
           /\ ~(NextBlock(a).mark = a.mark /\ NextBlock(a).group_idx = a.group_idx)
BY SizeAssumption DEF Addr, Mark, Group, Offset, InRange, Crosses, NextBlock

\* cache_load of a block that is not cached keeps cache and memory in agreement
\* and brings the block in.
LEMMA LoadKeepsGood ==
    ASSUME NEW mem, NEW c, Good(mem, c), NEW a \in Addr, NEW eip \in Nat
    PROVE  /\ Good(mem, CacheAfterRead(mem, c, a, eip))
           /\ HasCache(CacheAfterRead(mem, c, a, eip), a)
<1>1. CASE HasCache(c, a)
    BY <1>1 DEF CacheAfterRead
<1>2. CASE ~HasCache(c, a)
    <2> DEFINE w == LoadWay(c, a, eip)
               b == [valid |-> TRUE, mark |-> a.mark,
                     content |-> mem[a.mark][a.group_idx]]
               d == [c EXCEPT ![a.group_idx][w] = b]
    <2>1. CacheAfterRead(mem, c, a, eip) = d
        BY <1>2 DEF CacheAfterRead, CacheLoad
    <2>2. w \in Way /\ a.group_idx \in Group /\ a.mark \in Mark
        BY LoadWayIsWay DEF Addr
    <2>3. b \in Block
        BY <2>2 DEF Good, MemType, Block
    <2> HIDE DEF w, b
    <2>4. d \in CacheType
        BY <2>2, <2>3 DEF Good, CacheType
    <2>5. d[a.group_idx][w] = b
        BY <2>2 DEF Good, CacheType
    <2>6. \A g \in Group, v \in Way :
              ~(g = a.group_idx /\ v = w) => d[g][v] = c[g][v]
        BY <2>2 DEF Good, CacheType
    <2> HIDE DEF d
    <2>7. CoherentWith(mem, d)
        BY <2>2, <2>5, <2>6 DEF Good, CoherentWith, b
    <2>8. \A v \in Way : c[a.group_idx][v].valid => c[a.group_idx][v].mark # a.mark
        BY <1>2 DEF HasCache, Hit
    <2>9. Unique(d)
        BY <2>2, <2>5, <2>6, <2>8 DEF Good, Unique, b
    <2>10. HasCache(d, a)
        BY <2>2, <2>5 DEF HasCache, Hit, b
    <2> QED BY <2>1, <2>4, <2>7, <2>9, <2>10 DEF Good
<1> QED BY <1>1, <1>2

\* hw_mem_read returns a u32.
LEMMA MemReadType ==
    ASSUME NEW mem \in MemType, NEW a \in Addr, NEW len \in 1 .. 4, InRange(a, len),
           len <= CACHE_BLOCK_SIZE
    PROVE  HwMemRead(mem, a, len) \in U32
<1> DEFINE n == NextBlock(a)
<1> SUFFICES ASSUME NEW i \in 0 .. 3, i < len
             PROVE  IF a.offset + i < CACHE_BLOCK_SIZE
                    THEN mem[a.mark][a.group_idx][a.offset + i] \in Byte
                    ELSE mem[n.mark][n.group_idx][a.offset + i - CACHE_BLOCK_SIZE] \in Byte
    BY DataAssumption DEF HwMemRead, U32
<1>1. a.offset \in Offset /\ a.mark \in Mark /\ a.group_idx \in Group
    BY DEF Addr
<1>2. CASE a.offset + i < CACHE_BLOCK_SIZE
    <2>1. a.offset + i \in Offset
        BY <1>1, <1>2, SizeAssumption DEF Offset
    <2> QED BY <1>1, <1>2, <2>1 DEF MemType, Content
<1>3. CASE ~(a.offset + i < CACHE_BLOCK_SIZE)
    <2>1. Crosses(a, len)
        BY <1>1, <1>3, SizeAssumption DEF Crosses, Offset
    <2>2. n.mark \in Mark /\ n.group_idx \in Group
        BY <2>1, NextBlockIsAddr DEF Addr
    <2>3. a.offset + i - CACHE_BLOCK_SIZE \in Offset
        BY <1>1, <1>3, SizeAssumption DEF Offset
    <2> HIDE DEF n
    <2> QED BY <1>3, <2>2, <2>3 DEF MemType, Content
<1> QED BY <1>2, <1>3

\* What cache_read returns for an access within a cached block is what
\* hw_mem_read returns.
LEMMA CacheReadIsMemRead ==
    ASSUME NEW mem, NEW c, Good(mem, c), NEW a \in Addr, NEW len \in 1 .. 4,
           HasCache(c, a), ~Crosses(a, len)
    PROVE  CacheRead(c, a, len) = HwMemRead(mem, a, len)
<1> DEFINE w == HitWay(c, a)
<1>1. w \in Way /\ Hit(c, a, w) /\ a.group_idx \in Group /\ a.mark \in Mark
    BY HitWayHits DEF Addr
<1>2. c[a.group_idx][w].content = mem[a.mark][a.group_idx]
    BY <1>1 DEF Good, CoherentWith, Hit
<1> HIDE DEF w
<1>3. \A i \in 0 .. 3 : i < len => a.offset + i < CACHE_BLOCK_SIZE
    BY SizeAssumption DEF Crosses, Addr, Offset
<1>4. \A i \in 0 .. 3 : ~(i < len) <=> i >= len
    OBVIOUS
<1> QED BY <1>2, <1>3, <1>4 DEF CacheRead, HwMemRead, w

\* The bytes of a read across a boundary are those of its two parts.
LEMMA CombineIsMemRead ==
    ASSUME NEW mem, NEW a \in Addr, NEW len \in 1 .. 4, InRange(a, len),
           Crosses(a, len), len <= CACHE_BLOCK_SIZE
    PROVE  LET left == CACHE_BLOCK_SIZE - a.offset
           IN Combine(HwMemRead(mem, a, left),
                      HwMemRead(mem, NextBlock(a), len - left), left)
                = HwMemRead(mem, a, len)
<1> DEFINE left == CACHE_BLOCK_SIZE - a.offset
           n == NextBlock(a)
           low == HwMemRead(mem, a, left)
           high == HwMemRead(mem, n, len - left)
           all == HwMemRead(mem, a, len)
<1>1. left \in 1 .. 3 /\ len - left \in 1 .. 3 /\ a.offset \in Nat
    BY SizeAssumption DEF Crosses, Addr, Offset
<1>2. n.offset = 0
    BY NextBlockIsAddr
<1>3. ASSUME NEW i \in 0 .. 3, i < left PROVE low[i] = all[i]
    BY <1>1, <1>3, SizeAssumption DEF HwMemRead, Crosses
<1>4. ASSUME NEW i \in 0 .. 3, ~(i < left) PROVE high[i - left] = all[i]
    <2> DEFINE j == i - left
    <2>1. j \in 0 .. 3 /\ (j >= len - left <=> i >= len)
        BY <1>1, <1>4
    <2>2. ~(i >= len) => /\ n.offset + j < CACHE_BLOCK_SIZE
                         /\ ~(a.offset + i < CACHE_BLOCK_SIZE)
        BY <1>1, <1>2, <1>4, SizeAssumption
    <2>3. n.offset + j = a.offset + i - CACHE_BLOCK_SIZE
        BY <1>1, <1>2, <1>4, SizeAssumption
    <2>4. high[j] = IF j >= len - left THEN 0
                    ELSE IF n.offset + j < CACHE_BLOCK_SIZE
                    THEN mem[n.mark][n.group_idx][n.offset + j]
                    ELSE mem[NextBlock(n).mark][NextBlock(n).group_idx]
                            [n.offset + j - CACHE_BLOCK_SIZE]
        BY <2>1 DEF HwMemRead
    <2>5. all[i] = IF i >= len THEN 0
                   ELSE IF a.offset + i < CACHE_BLOCK_SIZE
                   THEN mem[a.mark][a.group_idx][a.offset + i]
                   ELSE mem[n.mark][n.group_idx][a.offset + i - CACHE_BLOCK_SIZE]
        BY DEF HwMemRead
    <2> HIDE DEF n, high, all
    <2> QED BY <2>1, <2>2, <2>3, <2>4, <2>5
<1>5. all = [i \in 0 .. 3 |-> all[i]]
    BY DEF HwMemRead
<1> HIDE DEF low, high, all, n
<1>6. Combine(low, high, left) = all
    BY <1>3, <1>4, <1>5 DEF Combine
<1> QED BY <1>6 DEF low, high, all, n

-----------------------------------------------------------------------------
\* A write within one block changes memory and the cached copy alike.
LEMMA WriteKeepsGood ==
    ASSUME NEW mem, NEW c, Good(mem, c), NEW a \in Addr, NEW len \in 1 .. 4,
           ~Crosses(a, len), NEW data \in U32
    PROVE  Good(HwMemWrite(mem, a, len, data), CacheWrite(c, a, len, data))
<1> DEFINE am == a.mark
           ag == a.group_idx
           new(b) == Splice(b, a.offset, data, len)
           mem2 == [m \in Mark |-> [g \in Group |->
                      IF m = am /\ g = ag THEN new(mem[m][g]) ELSE mem[m][g]]]
           c2 == CacheWrite(c, a, len, data)
<1>1. am \in Mark /\ ag \in Group /\ a.offset \in Offset
    BY DEF Addr
<1>2. HwMemWrite(mem, a, len, data) = mem2
    BY DEF HwMemWrite
<1>3. \A b \in Content : new(b) \in Content
    <2> SUFFICES ASSUME NEW b \in Content, NEW o \in Offset,
                        o >= a.offset, o < a.offset + len
                 PROVE  data[o - a.offset] \in Byte
        BY DEF Splice, Content
    <2>1. o - a.offset \in 0 .. 3
        BY <1>1, SizeAssumption DEF Offset
    <2> QED BY <2>1 DEF U32
<1> HIDE DEF new
<1>4. mem2 \in MemType
    BY <1>3 DEF Good, MemType
<1>5. /\ mem2[am][ag] = new(mem[am][ag])
      /\ \A m \in Mark, g \in Group : ~(m = am /\ g = ag) => mem2[m][g] = mem[m][g]
    BY <1>1
<1> HIDE DEF mem2
<1>6. CASE HasCache(c, a)
    <2> DEFINE w == HitWay(c, a)
    <2>1. w \in Way /\ c[ag][w].valid /\ c[ag][w].mark = am
        BY <1>6, HitWayHits DEF Hit
    <2>2. c2 = [c EXCEPT ![ag][w].content = new(@)]
        BY <1>6 DEF CacheWrite, new
    <2> HIDE DEF w, c2
    <2>3. c[ag][w] \in Block
        BY <1>1, <2>1 DEF Good, CacheType
    <2>4. /\ c2[ag][w] = [c[ag][w] EXCEPT !.content = new(@)]
          /\ \A g \in Group, v \in Way : ~(g = ag /\ v = w) => c2[g][v] = c[g][v]
        BY <1>1, <2>1, <2>2 DEF Good, CacheType
    <2>5. /\ c2[ag][w] \in Block
          /\ c2[ag][w].valid
          /\ c2[ag][w].mark = am
          /\ c2[ag][w].content = new(c[ag][w].content)
        BY <1>3, <2>1, <2>3, <2>4 DEF Block
    <2>6. c2 \in CacheType
        BY <1>1, <2>1, <2>2, <2>4, <2>5 DEF Good, CacheType
    <2>7. Unique(c2)
        <3>1. \A g \in Group, v \in Way : /\ c2[g][v].valid => c[g][v].valid
                                         /\ c2[g][v].mark = c[g][v].mark
            BY <2>1, <2>4, <2>5
        <3> QED BY <3>1 DEF Good, Unique
    <2>8. CoherentWith(mem2, c2)
        <3> SUFFICES ASSUME NEW g \in Group, NEW v \in Way, c2[g][v].valid
                     PROVE  c2[g][v].content = mem2[c2[g][v].mark][g]
            BY DEF CoherentWith
        <3>1. CASE g = ag /\ v = w
            BY <1>1, <1>5, <2>1, <2>5, <3>1 DEF Good, CoherentWith
        <3>2. CASE ~(g = ag /\ v = w)
            <4>1. c2[g][v] = c[g][v] /\ c[g][v] \in Block
                BY <2>4, <3>2 DEF Good, CacheType
            <4>2. ~(c[g][v].mark = am /\ g = ag)
                BY <2>1, <3>2, <4>1 DEF Good, Unique
            <4>3. c[g][v].mark \in Mark
                BY <4>1 DEF Block
            <4> QED BY <1>5, <4>1, <4>2, <4>3 DEF Good, CoherentWith
        <3> QED BY <3>1, <3>2
    <2> QED BY <1>2, <1>4, <2>6, <2>7, <2>8 DEF Good, c2
<1>7. CASE ~HasCache(c, a)
    <2>1. c2 = c
        BY <1>7 DEF CacheWrite
    <2>2. \A g \in Group, v \in Way :
             c[g][v].valid => c[g][v].mark \in Mark /\ ~(c[g][v].mark = am /\ g = ag)
        BY <1>7 DEF HasCache, Hit, Good, CacheType, Block
    <2>3. CoherentWith(mem2, c)
        BY <1>5, <2>2 DEF Good, CoherentWith
    <2> QED BY <1>2, <1>4, <2>1, <2>3 DEF Good
<1> QED BY <1>6, <1>7

\* In a write across a boundary the first hw_mem_write is overwritten by those
\* of the two recursive calls, so memory is as if only they had been made.
LEMMA CrossWriteIsTwoWrites ==
    ASSUME NEW mem \in MemType, NEW a \in Addr, NEW len \in 1 .. 4, InRange(a, len),
           Crosses(a, len), len <= CACHE_BLOCK_SIZE, NEW data \in U32,
           NEW low \in U32, NEW high \in U32
    PROVE  LET left == CACHE_BLOCK_SIZE - a.offset
               n == NextBlock(a)
           IN HwMemWrite(HwMemWrite(HwMemWrite(mem, a, len, data), a, left, low),
                         n, len - left, high)
              = HwMemWrite(HwMemWrite(mem, a, left, low), n, len - left, high)
<1> DEFINE left == CACHE_BLOCK_SIZE - a.offset
           right == len - left
           n == NextBlock(a)
           m1 == HwMemWrite(mem, a, len, data)
           m2 == HwMemWrite(m1, a, left, low)
           k2 == HwMemWrite(mem, a, left, low)
<1>1. /\ left \in 1 .. 3 /\ right \in 1 .. 3
      /\ a.offset \in Offset /\ a.mark \in Mark /\ a.group_idx \in Group
    BY SizeAssumption DEF Crosses, Addr, Offset
<1>2. /\ n \in Addr /\ n.offset = 0
      /\ n.mark \in Mark /\ n.group_idx \in Group
      /\ ~(n.mark = a.mark /\ n.group_idx = a.group_idx)
    BY NextBlockIsAddr DEF Addr
<1>3. ~Crosses(a, left) /\ ~Crosses(n, right)
    BY <1>1, <1>2, SizeAssumption DEF Crosses, Offset
<1> DEFINE one(m, x, l, d) ==
      [p \in Mark |-> [g \in Group |->
         IF p = x.mark /\ g = x.group_idx THEN Splice(m[p][g], x.offset, d, l)
                                         ELSE m[p][g]]]
<1>4. /\ m2 = one(m1, a, left, low)
      /\ k2 = one(mem, a, left, low)
      /\ HwMemWrite(m2, n, right, high) = one(m2, n, right, high)
      /\ HwMemWrite(k2, n, right, high) = one(k2, n, right, high)
    BY <1>3 DEF HwMemWrite
<1>5. m1 = [p \in Mark |-> [g \in Group |->
              IF p = a.mark /\ g = a.group_idx
              THEN Splice(mem[p][g], a.offset, data, len)
              ELSE IF p = n.mark /\ g = n.group_idx
              THEN Splice(mem[p][g], 0, ShiftDown(data, left), right)
              ELSE mem[p][g]]]
    BY DEF HwMemWrite
\* The second splice covers what the first one wrote.
<1>6. \A b : Splice(Splice(b, a.offset, data, len), a.offset, low, left)
              = Splice(b, a.offset, low, left)
    BY <1>1, SizeAssumption DEF Splice, Offset
<1>7. \A b, d : Splice(Splice(b, 0, d, right), 0, high, right) = Splice(b, 0, high, right)
    BY <1>1, SizeAssumption DEF Splice, Offset
<1> HIDE DEF m1, m2, k2, n, left, right
<1>8. ASSUME NEW p \in Mark, NEW g \in Group
      PROVE  one(m2, n, right, high)[p][g] = one(k2, n, right, high)[p][g]
    <2>1. CASE p = a.mark /\ g = a.group_idx
        BY <1>2, <1>4, <1>5, <1>6, <2>1
    <2>2. CASE p = n.mark /\ g = n.group_idx
        BY <1>2, <1>4, <1>5, <1>7, <2>2
    <2>3. CASE ~(p = a.mark /\ g = a.group_idx) /\ ~(p = n.mark /\ g = n.group_idx)
        BY <1>4, <1>5, <2>3
    <2> QED BY <2>1, <2>2, <2>3
<1>9. one(m2, n, right, high) = one(k2, n, right, high)
    BY <1>8
<1> QED BY <1>4, <1>9 DEF m1, m2, k2, n, left, right

-----------------------------------------------------------------------------
\* The inductive invariant.  OneWayPerMark is needed for Coherent, because a
\* write updates one way only; Coherent is needed for NoReadError.
IInv == TypeOK /\ Coherent /\ OneWayPerMark /\ NoReadError

\* The state part of IInv in the terms of the lemmas above.
LEMMA IInvIsGood ==
    IInv <=> /\ Good(hw_mem, cache)
             /\ req \in Request
             /\ ret \in U32
             /\ status \in {"run", "invalid_addr"}
BY DEF IInv, TypeOK, Coherent, OneWayPerMark, NoReadError, Good, MemType, CacheType,
       CoherentWith, Unique

\* init_mem and init_cache establish the invariant: no block is valid.
LEMMA InitIInv == Init => IInv
<1> SUFFICES ASSUME Init PROVE IInv
    OBVIOUS
<1>1. TypeOK
    BY SizeAssumption, DataAssumption
       DEF Init, TypeOK, Mark, Group, Way, Offset, U32, Zero, Content, Addr, Request, Block
<1>2. \A g \in Group, w \in Way : cache[g][w].valid = FALSE
    BY DEF Init
<1> QED BY <1>1, <1>2 DEF Init, IInv, Coherent, OneWayPerMark, NoReadError

\* A cached_read passes every ground truth check it makes and keeps IInv.
LEMMA ReadKeepsIInv ==
    ASSUME IInv, NEW a \in Addr, NEW len \in Lens, NEW eip \in Way, Read(a, len, eip)
    PROVE  IInv'
<1> DEFINE left == CACHE_BLOCK_SIZE - a.offset
           n == NextBlock(a)
           lowLen == IF Crosses(a, len) THEN left ELSE len
           c1 == CacheAfterRead(hw_mem, cache, a, eip)
           low == CacheRead(c1, a, lowLen)
           c2 == IF Crosses(a, len) THEN CacheAfterRead(hw_mem, c1, n, eip) ELSE c1
           high == CacheRead(c2, n, len - left)
           result == IF Crosses(a, len) THEN Combine(low, high, left) ELSE low
           agrees == /\ HasCache(c1, a)
                     /\ low = HwMemRead(hw_mem, a, lowLen)
                     /\ Crosses(a, len) => /\ HasCache(c2, n)
                                           /\ high = HwMemRead(hw_mem, n, len - left)
                     /\ result = HwMemRead(hw_mem, a, len)
<1>1. /\ cache' = c2
      /\ IF agrees THEN ret' = result /\ UNCHANGED status
                   ELSE status' = "assert_failed" /\ UNCHANGED ret
      /\ req' = [op |-> "read", addr |-> a, len |-> len, data |-> Zero]
      /\ UNCHANGED hw_mem
      /\ InRange(a, len)
      /\ status = "run"
    BY DEF Read
<1>2. /\ len \in 1 .. 4 /\ len <= CACHE_BLOCK_SIZE /\ eip \in Nat
      /\ a.offset \in Offset
    BY DataAssumption DEF Way, Addr
<1>3. Crosses(a, len) => left \in 1 .. 3 /\ len - left \in 1 .. 3
    BY <1>2, SizeAssumption DEF Crosses, Offset
<1>4. lowLen \in 1 .. 4 /\ ~Crosses(a, lowLen)
    BY <1>2, <1>3, SizeAssumption DEF Crosses, Offset
<1>5. Good(hw_mem, cache) /\ ret \in U32
    BY IInvIsGood
<1>6. Good(hw_mem, c1) /\ HasCache(c1, a)
    BY <1>2, <1>5, LoadKeepsGood
<1> HIDE DEF c1, lowLen
<1>7. low = HwMemRead(hw_mem, a, lowLen)
    BY <1>4, <1>6, CacheReadIsMemRead
<1>8. Good(hw_mem, c2) /\ agrees
    <2>1. CASE ~Crosses(a, len)
        <3>1. agrees /\ c2 = c1
            BY <1>6, <1>7, <2>1 DEF lowLen
        <3> QED BY <1>6, <3>1
    <2>2. CASE Crosses(a, len)
        <3>1. n \in Addr /\ n.offset = 0
            BY <1>1, <1>2, <2>2, NextBlockIsAddr
        <3>2. len - left \in 1 .. 4 /\ ~Crosses(n, len - left)
            BY <1>2, <1>3, <2>2, <3>1, SizeAssumption DEF Crosses, Offset
        <3>3. c2 = CacheAfterRead(hw_mem, c1, n, eip)
            BY <2>2
        <3>4. Good(hw_mem, c2) /\ HasCache(c2, n)
            BY <1>2, <1>6, <3>1, <3>3, LoadKeepsGood
        <3> HIDE DEF c2
        <3>5. high = HwMemRead(hw_mem, n, len - left)
            BY <3>1, <3>2, <3>4, CacheReadIsMemRead
        <3>6. low = HwMemRead(hw_mem, a, left)
            BY <1>7, <2>2 DEF lowLen
        <3>7. Combine(HwMemRead(hw_mem, a, left), HwMemRead(hw_mem, n, len - left), left)
                = HwMemRead(hw_mem, a, len)
            BY <1>1, <1>2, <2>2, CombineIsMemRead
        <3> HIDE DEF low, high, left, n
        <3>8. result = HwMemRead(hw_mem, a, len)
            BY <2>2, <3>5, <3>6, <3>7
        <3> QED BY <1>6, <1>7, <3>4, <3>5, <3>8
    <2> QED BY <2>1, <2>2
<1>9. HwMemRead(hw_mem, a, len) \in U32
    BY <1>1, <1>2, <1>5, MemReadType DEF Good
<1>10. req' \in Request
    BY <1>1, <1>2, DataAssumption DEF Request, Zero, U32
<1>11. result = HwMemRead(hw_mem, a, len)
    BY <1>8
<1> HIDE DEF c2, agrees, result
<1>12. cache' = c2 /\ hw_mem' = hw_mem /\ ret' \in U32 /\ status' = "run"
    BY <1>1, <1>8, <1>9, <1>11
<1>13. Good(hw_mem, cache)'
    BY <1>8, <1>12
<1> QED BY <1>10, <1>12, <1>13 DEF IInv, TypeOK, Coherent, OneWayPerMark,
        NoReadError, Good, MemType, CacheType, CoherentWith, Unique

\* A cached_write, within one block or across two, keeps IInv.
LEMMA WriteKeepsIInv ==
    ASSUME IInv, NEW a \in Addr, NEW len \in Lens, NEW data \in U32, Write(a, len, data)
    PROVE  IInv'
<1> DEFINE left == CACHE_BLOCK_SIZE - a.offset
           n == NextBlock(a)
           low == LowPart(data, left)
           high == HighMasked(data, left)
<1>1. /\ len \in 1 .. 4 /\ len <= CACHE_BLOCK_SIZE /\ a.offset \in Offset
      /\ InRange(a, len)
    BY DataAssumption DEF Addr, Write
<1>2. Good(hw_mem, cache) /\ ret \in U32 /\ status \in {"run", "invalid_addr"}
    BY IInvIsGood
<1>3. Good(hw_mem, cache)'
    <2>1. CASE ~Crosses(a, len)
        <3>1. /\ hw_mem' = HwMemWrite(hw_mem, a, len, data)
              /\ cache' = CacheWrite(cache, a, len, data)
            BY <2>1 DEF Write
        <3> QED BY <1>1, <1>2, <2>1, <3>1, WriteKeepsGood
    <2>2. CASE Crosses(a, len)
        <3> DEFINE m2 == HwMemWrite(HwMemWrite(hw_mem, a, len, data), a, left, low)
                   k2 == HwMemWrite(hw_mem, a, left, low)
                   c2 == CacheWrite(cache, a, left, low)
        <3>1. /\ hw_mem' = HwMemWrite(m2, n, len - left, high)
              /\ cache' = CacheWrite(c2, n, len - left, high)
            BY <2>2 DEF Write
        <3>2. low \in U32 /\ high \in U32
            BY DataAssumption DEF LowPart, HighMasked, U32
        <3>3. n \in Addr /\ n.offset = 0
            BY <1>1, <2>2, NextBlockIsAddr
        <3>4. left \in 1 .. 4 /\ len - left \in 1 .. 4
            BY <1>1, <2>2, SizeAssumption DEF Crosses, Offset
        <3>5. ~Crosses(a, left) /\ ~Crosses(n, len - left)
            BY <1>1, <2>2, <3>3, <3>4, SizeAssumption DEF Crosses, Offset
        <3>6. hw_mem \in MemType
            BY <1>2 DEF Good
        <3>7. hw_mem' = HwMemWrite(k2, n, len - left, high)
            BY <1>1, <2>2, <3>1, <3>2, <3>6, CrossWriteIsTwoWrites
        <3> HIDE DEF left, low, high, n
        <3>8. Good(k2, c2)
            BY <1>2, <3>2, <3>4, <3>5, WriteKeepsGood
        <3> HIDE DEF k2, c2, m2
        <3>9. Good(HwMemWrite(k2, n, len - left, high),
                   CacheWrite(c2, n, len - left, high))
            BY <3>2, <3>3, <3>4, <3>5, <3>8, WriteKeepsGood
        <3> QED BY <3>1, <3>7, <3>9
    <2> QED BY <2>1, <2>2
<1>4. req' = [op |-> "write", addr |-> a, len |-> len, data |-> data]
      /\ ret' = ret /\ status' = status
    BY DEF Write
<1>5. req' \in Request
    BY <1>1, <1>4 DEF Request
<1> QED BY <1>2, <1>3, <1>4, <1>5 DEF IInv, TypeOK, Coherent, OneWayPerMark,
        NoReadError, Good, MemType, CacheType, CoherentWith, Unique

\* Every step of the cache keeps the invariant.
LEMMA NextIInv == IInv /\ [Next]_vars => IInv'
<1> SUFFICES ASSUME IInv, [Next]_vars PROVE IInv'
    OBVIOUS
<1>1. ASSUME NEW a \in Addr, NEW len \in Lens, NEW eip \in Way, Read(a, len, eip)
      PROVE  IInv'
    BY <1>1, ReadKeepsIInv
<1>2. ASSUME NEW a \in Addr, NEW len \in Lens, NEW data \in Data(len),
             Write(a, len, data)
      PROVE  IInv'
    <2>1. data \in U32
        BY DEF Data
    <2> QED BY <1>2, <2>1, WriteKeepsIInv
<1>3. ASSUME NEW a \in Addr, NEW len \in Lens, InvalidAddr(a, len)
      PROVE  IInv'
    BY <1>3 DEF InvalidAddr, IInv, TypeOK, Coherent, OneWayPerMark, NoReadError
<1>4. CASE UNCHANGED vars
    BY <1>4 DEF vars, IInv, TypeOK, Coherent, OneWayPerMark, NoReadError
<1> QED BY <1>1, <1>2, <1>3, <1>4 DEF Next

\* The variables of the cache keep their types.
THEOREM TypeCorrect == Spec => []TypeOK
<1>1. IInv => TypeOK
    BY DEF IInv
<1> QED BY <1>1, InitIInv, NextIInv, PTL DEF Spec

\* Memory and cache agree in every reachable state, whatever the guest reads and
\* writes, and no memory block is cached twice.
THEOREM CacheCoherent == Spec => [](Coherent /\ OneWayPerMark)
<1>1. IInv => Coherent /\ OneWayPerMark
    BY DEF IInv
<1> QED BY <1>1, InitIInv, NextIInv, PTL DEF Spec

\* The ground truth check of cached_read never fails.
THEOREM GroundTruth == Spec => []NoReadError
<1>1. IInv => NoReadError
    BY DEF IInv
<1> QED BY <1>1, InitIInv, NextIInv, PTL DEF Spec

-----------------------------------------------------------------------------
(***************************************************************************)
(* The cache and hw_mem implement a flat memory.  The mapping takes an     *)
(* address apart with \div and %; the lemmas below show that it is a       *)
(* bijection that respects the order of the bytes, so that the bytes of an *)
(* access are consecutive in the flat memory, also across a block boundary *)
(* and from the last group of a mark to the first of the next one.         *)
(***************************************************************************)

\* The bytes of memory, and the number of the block an address lies in.
Size == NR_MARK * GRP_NUM * CACHE_BLOCK_SIZE
Line(a) == a.mark * GRP_NUM + a.group_idx

\* The products of the sizes are natural numbers.
LEMMA SizeIsNat ==
    /\ NR_MARK * GRP_NUM \in Nat
    /\ Size \in Nat
    /\ GRP_NUM * CACHE_BLOCK_SIZE \in Nat \ {0}
BY SizeAssumption DEF Size

\* The block number determines mark and group.
LEMMA LineParts ==
    ASSUME NEW a \in Addr
    PROVE  /\ Line(a) \in Nat /\ Line(a) + 1 <= NR_MARK * GRP_NUM
           /\ Line(a) \div GRP_NUM = a.mark /\ Line(a) % GRP_NUM = a.group_idx
<1>1. a.mark \in Nat /\ a.mark < NR_MARK /\ a.group_idx \in 0 .. GRP_NUM - 1
    BY SizeAssumption DEF Addr, Mark, Group
<1>2. a.mark * GRP_NUM \in Nat
    BY <1>1, SizeAssumption
<1>3. a.mark * GRP_NUM + GRP_NUM <= NR_MARK * GRP_NUM
    BY <1>1, LessTimes, SizeAssumption
<1>4. Line(a) \div GRP_NUM = a.mark /\ Line(a) % GRP_NUM = a.group_idx
    BY <1>1, DivModUnique, SizeAssumption DEF Line
<1>5. Line(a) \in Nat /\ Line(a) + 1 <= NR_MARK * GRP_NUM
    <2> DEFINE mg == a.mark * GRP_NUM
               all == NR_MARK * GRP_NUM
    <2>1. /\ mg \in Nat /\ all \in Nat /\ mg + GRP_NUM <= all
          /\ Line(a) = mg + a.group_idx
        BY <1>2, <1>3, SizeIsNat DEF Line
    <2> HIDE DEF mg, all
    <2>2. Line(a) \in Nat /\ Line(a) + 1 <= all
        BY <2>1, <1>1, SizeAssumption
    <2> QED BY <2>2 DEF all
<1> QED BY <1>4, <1>5

\* The flat address is one of memory and determines mark, group and offset.
LEMMA FlatParts ==
    ASSUME NEW a \in Addr
    PROVE  /\ Flat(a) \in 0 .. Size - 1
           /\ Flat(a) \div CACHE_BLOCK_SIZE = Line(a)
           /\ Flat(a) % CACHE_BLOCK_SIZE = a.offset
           /\ Flat(a) \div (GRP_NUM * CACHE_BLOCK_SIZE) = a.mark
<1> DEFINE r == a.group_idx * CACHE_BLOCK_SIZE + a.offset
<1>1. /\ a.mark \in Nat /\ a.group_idx \in 0 .. GRP_NUM - 1 /\ a.group_idx \in Nat
      /\ a.offset \in 0 .. CACHE_BLOCK_SIZE - 1
    BY SizeAssumption DEF Addr, Mark, Group, Offset
<1>2. Flat(a) = Line(a) * CACHE_BLOCK_SIZE + a.offset
    BY DEF Flat, Line
<1>3. Line(a) * CACHE_BLOCK_SIZE \in Nat
    BY LineParts, SizeAssumption
<1>4. (Line(a) + 1) * CACHE_BLOCK_SIZE <= Size
    <2>1. CASE Line(a) + 1 = NR_MARK * GRP_NUM
        BY <2>1, SizeIsNat DEF Size
    <2>2. CASE Line(a) + 1 < NR_MARK * GRP_NUM
        <3>1. Line(a) + 1 \in Nat
            BY LineParts
        <3>2. (Line(a) + 1) * CACHE_BLOCK_SIZE + CACHE_BLOCK_SIZE <= Size
            BY <3>1, <2>2, LessTimes, SizeIsNat, SizeAssumption DEF Size
        <3>3. (Line(a) + 1) * CACHE_BLOCK_SIZE \in Nat
            BY <3>1, SizeAssumption
        <3> QED BY <3>2, <3>3, SizeIsNat, SizeAssumption
    <2> QED BY <2>1, <2>2, LineParts, SizeIsNat
<1>5. (Line(a) + 1) * CACHE_BLOCK_SIZE = Line(a) * CACHE_BLOCK_SIZE + CACHE_BLOCK_SIZE
    BY LineParts, SuccTimes, SizeAssumption
<1>6. Flat(a) \in 0 .. Size - 1
    BY <1>1, <1>2, <1>3, <1>4, <1>5, SizeIsNat, SizeAssumption
<1>7. Flat(a) \div CACHE_BLOCK_SIZE = Line(a) /\ Flat(a) % CACHE_BLOCK_SIZE = a.offset
    <2>1. Line(a) \in Nat /\ CACHE_BLOCK_SIZE \in Nat \ {0}
        BY LineParts, SizeAssumption
    <2> QED BY <2>1, <1>1, <1>2, DivModUnique
<1>8. Flat(a) = a.mark * (GRP_NUM * CACHE_BLOCK_SIZE) + r
    <2>1. (a.mark * GRP_NUM + a.group_idx) * CACHE_BLOCK_SIZE
            = a.mark * (GRP_NUM * CACHE_BLOCK_SIZE) + a.group_idx * CACHE_BLOCK_SIZE
        BY <1>1, SizeAssumption
    <2>2. /\ a.mark * (GRP_NUM * CACHE_BLOCK_SIZE) \in Nat
          /\ a.group_idx * CACHE_BLOCK_SIZE \in Nat
        BY <1>1, SizeAssumption
    <2> QED BY <2>1, <2>2, <1>1 DEF Flat
<1>9. r \in 0 .. GRP_NUM * CACHE_BLOCK_SIZE - 1
    <2>1. a.group_idx * CACHE_BLOCK_SIZE + CACHE_BLOCK_SIZE <= GRP_NUM * CACHE_BLOCK_SIZE
        BY <1>1, LessTimes, SizeAssumption
    <2>2. a.group_idx * CACHE_BLOCK_SIZE \in Nat
        BY <1>1, SizeAssumption
    <2> QED BY <2>1, <2>2, <1>1, SizeIsNat, SizeAssumption
<1>10. Flat(a) \div (GRP_NUM * CACHE_BLOCK_SIZE) = a.mark
    <2> HIDE DEF r
    <2> QED BY <1>1, <1>8, <1>9, SizeIsNat, DivModUnique
<1> QED BY <1>6, <1>7, <1>10

\* Every byte of the flat memory is one of hw_mem.
LEMMA FlatOnto ==
    ASSUME NEW p \in 0 .. Size - 1
    PROVE  \E a \in Addr : Flat(a) = p
<1> DEFINE q == p \div CACHE_BLOCK_SIZE
           o == p % CACHE_BLOCK_SIZE
           k == q \div GRP_NUM
           g == q % GRP_NUM
           a == [mark |-> k, group_idx |-> g, offset |-> o]
<1>0. p \in Nat /\ p < Size
    BY SizeIsNat
<1>1. q \in Nat /\ o \in 0 .. CACHE_BLOCK_SIZE - 1 /\ p = q * CACHE_BLOCK_SIZE + o
    BY <1>0, DivMod, SizeAssumption
<1>2. k \in Nat /\ g \in 0 .. GRP_NUM - 1 /\ q = k * GRP_NUM + g
    <2> HIDE DEF q
    <2> QED BY <1>1, DivMod, SizeAssumption
<1> HIDE DEF q, o, k, g
<1>3. q < NR_MARK * GRP_NUM
    <2> SUFFICES ASSUME NR_MARK * GRP_NUM <= q PROVE FALSE
        BY <1>1, SizeIsNat
    <2>1. Size <= q * CACHE_BLOCK_SIZE
        <3>1. CASE NR_MARK * GRP_NUM = q
            BY <3>1, SizeIsNat DEF Size
        <3>2. CASE NR_MARK * GRP_NUM < q
            <4>1. Size + CACHE_BLOCK_SIZE <= q * CACHE_BLOCK_SIZE
                BY <3>2, <1>1, LessTimes, SizeIsNat, SizeAssumption DEF Size
            <4>2. q * CACHE_BLOCK_SIZE \in Nat
                BY <1>1, SizeAssumption
            <4> QED BY <4>1, <4>2, SizeIsNat, SizeAssumption
        <3> QED BY <3>1, <3>2, <1>1, SizeIsNat
    <2>2. q * CACHE_BLOCK_SIZE \in Nat
        BY <1>1, SizeAssumption
    <2> QED BY <2>1, <2>2, <1>0, <1>1, SizeIsNat, SizeAssumption
<1>4. k < NR_MARK
    <2> SUFFICES ASSUME NR_MARK <= k PROVE FALSE
        BY <1>2, SizeAssumption
    <2>1. NR_MARK * GRP_NUM <= k * GRP_NUM
        <3>1. CASE NR_MARK = k
            BY <3>1, <1>2, SizeAssumption
        <3>2. CASE NR_MARK < k
            <4>1. NR_MARK * GRP_NUM + GRP_NUM <= k * GRP_NUM
                BY <3>2, <1>2, LessTimes, SizeAssumption
            <4>2. k * GRP_NUM \in Nat
                BY <1>2, SizeAssumption
            <4> QED BY <4>1, <4>2, SizeIsNat, SizeAssumption
        <3> QED BY <3>1, <3>2, <1>2, SizeAssumption
    <2>2. k * GRP_NUM \in Nat
        BY <1>2, SizeAssumption
    <2> QED BY <2>1, <2>2, <1>2, <1>3, SizeIsNat, SizeAssumption
<1>5. a \in Addr
    BY <1>1, <1>2, <1>4, SizeAssumption DEF Addr, Mark, Group, Offset
<1>6. Flat(a) = p
    BY <1>1, <1>2 DEF Flat
<1> QED BY <1>5, <1>6

\* The address i bytes after a, for an access that may cross into the next block.
Shift(a, i) == IF a.offset + i < CACHE_BLOCK_SIZE THEN [a EXCEPT !.offset = @ + i]
               ELSE [NextBlock(a) EXCEPT !.offset = a.offset + i - CACHE_BLOCK_SIZE]

\* The bound check on mark, group and offset is paddr + len < MEM_SIZE_B.
LEMMA RangeAgrees ==
    ASSUME NEW a \in Addr, NEW len \in 1 .. 4, len <= CACHE_BLOCK_SIZE
    PROVE  InRange(a, len) <=> Flat(a) + len < Size
<1> DEFINE lb == Line(a) * CACHE_BLOCK_SIZE
           lines == NR_MARK * GRP_NUM
<1>1. /\ a.mark \in Nat /\ a.mark < NR_MARK
      /\ a.group_idx \in Nat /\ a.group_idx < GRP_NUM
      /\ a.offset \in 0 .. CACHE_BLOCK_SIZE - 1
    BY SizeAssumption DEF Addr, Mark, Group, Offset
<1>2. Flat(a) = lb + a.offset /\ lb \in Nat
    BY LineParts, SizeAssumption DEF Flat, Line
<1>4. CASE a.mark = NR_MARK - 1 /\ a.group_idx = GRP_NUM - 1
    <2>1. Line(a) + 1 = lines
        <3>1. a.mark * GRP_NUM + GRP_NUM = NR_MARK * GRP_NUM
            BY <1>4, <1>1, SuccTimes, SizeAssumption
        <3>2. a.mark * GRP_NUM \in Nat
            BY <1>1, SizeAssumption
        <3> QED BY <3>1, <3>2, <1>4, <1>1, SizeIsNat, SizeAssumption DEF Line
    <2>2. Size = lb + CACHE_BLOCK_SIZE
        BY <2>1, SuccTimes, LineParts, SizeAssumption DEF Size
    <2>3. InRange(a, len) <=> a.offset + len < CACHE_BLOCK_SIZE
        BY <1>4, SizeAssumption DEF InRange
    <2> HIDE DEF lb
    <2> QED BY <2>2, <2>3, <1>1, <1>2, SizeAssumption
<1>5. CASE ~(a.mark = NR_MARK - 1 /\ a.group_idx = GRP_NUM - 1)
    <2>1. InRange(a, len)
        BY <1>5, <1>1, SizeAssumption DEF InRange
    <2>2. Line(a) + 1 < lines
        <3>1. Line(a) + 1 # lines
            <4> SUFFICES ASSUME Line(a) + 1 = lines PROVE FALSE
                OBVIOUS
            <4>1. lines = (NR_MARK - 1) * GRP_NUM + GRP_NUM
                BY SuccTimes, SizeAssumption
            <4>2. (NR_MARK - 1) * GRP_NUM \in Nat
                BY SizeAssumption
            <4>3. Line(a) = (NR_MARK - 1) * GRP_NUM + (GRP_NUM - 1)
                BY <4>1, <4>2, LineParts, SizeAssumption
            <4>4. /\ Line(a) \div GRP_NUM = NR_MARK - 1
                  /\ Line(a) % GRP_NUM = GRP_NUM - 1
                <5> DEFINE q == NR_MARK - 1
                           r == GRP_NUM - 1
                <5>1. /\ q \in Nat /\ r \in 0 .. GRP_NUM - 1 /\ GRP_NUM \in Nat \ {0}
                      /\ Line(a) = q * GRP_NUM + r
                    BY <4>3, SizeAssumption
                <5> HIDE DEF q, r
                <5>2. Line(a) \div GRP_NUM = q /\ Line(a) % GRP_NUM = r
                    BY <5>1, DivModUnique
                <5> QED BY <5>2 DEF q, r
            <4> QED BY <4>4, <1>5, LineParts
        <3> QED BY <3>1, LineParts, SizeIsNat
    <2>3. (Line(a) + 1) * CACHE_BLOCK_SIZE + CACHE_BLOCK_SIZE <= Size
        <3>1. Line(a) + 1 \in Nat
            BY LineParts
        <3> QED BY <3>1, <2>2, LessTimes, SizeIsNat, SizeAssumption DEF Size
    <2>4. lb + CACHE_BLOCK_SIZE + CACHE_BLOCK_SIZE <= Size
        BY <2>3, SuccTimes, LineParts, SizeAssumption
    <2> HIDE DEF lb
    <2> QED BY <2>1, <2>4, <1>1, <1>2, SizeIsNat, SizeAssumption
<1> QED BY <1>4, <1>5

\* The bytes of an access follow each other in the flat memory.
LEMMA FlatShift ==
    ASSUME NEW a \in Addr, NEW len \in 1 .. 4, len <= CACHE_BLOCK_SIZE, InRange(a, len),
           NEW i \in 0 .. len - 1
    PROVE  Shift(a, i) \in Addr /\ Flat(Shift(a, i)) = Flat(a) + i
<1> DEFINE lb == Line(a) * CACHE_BLOCK_SIZE
<1>1. /\ a.mark \in Nat /\ a.mark < NR_MARK
      /\ a.group_idx \in Nat /\ a.group_idx < GRP_NUM
      /\ a.offset \in 0 .. CACHE_BLOCK_SIZE - 1
    BY SizeAssumption DEF Addr, Mark, Group, Offset
<1>2. Flat(a) = lb + a.offset /\ lb \in Nat
    BY LineParts, SizeAssumption DEF Flat, Line
<1>3. CASE a.offset + i < CACHE_BLOCK_SIZE
    <2>1. Shift(a, i) = [a EXCEPT !.offset = @ + i]
        BY <1>3 DEF Shift
    <2>2. Shift(a, i) \in Addr
        BY <2>1, <1>1, <1>3, SizeAssumption DEF Addr, Mark, Group, Offset
    <2>3. Flat(Shift(a, i)) = lb + (a.offset + i)
        BY <2>1 DEF Addr, Flat, Line
    <2> HIDE DEF lb
    <2> QED BY <2>2, <2>3, <1>1, <1>2
<1>4. CASE ~(a.offset + i < CACHE_BLOCK_SIZE)
    <2> DEFINE n == NextBlock(a)
               rest == a.offset + i - CACHE_BLOCK_SIZE
    <2>1. Shift(a, i) = [n EXCEPT !.offset = rest]
        BY <1>4 DEF Shift
    <2>2. Crosses(a, len)
        BY <1>4, <1>1, SizeAssumption DEF Crosses
    <2>3. n \in Addr
        BY <2>2, NextBlockIsAddr
    <2>4. rest \in Offset
        BY <1>1, <1>4, SizeAssumption DEF Offset
    <2>5. Shift(a, i) \in Addr
        BY <2>1, <2>3, <2>4 DEF Addr
    <2>6. Line(n) = Line(a) + 1
        <3>1. CASE a.group_idx < GRP_NUM - 1
            <4>1. n.mark = a.mark /\ n.group_idx = a.group_idx + 1
                BY <3>1 DEF NextBlock
            <4>2. a.mark * GRP_NUM \in Nat
                BY <1>1, SizeAssumption
            <4> QED BY <4>1, <4>2, <1>1 DEF Line
        <3>2. CASE ~(a.group_idx < GRP_NUM - 1)
            <4>1. n.mark = a.mark + 1 /\ n.group_idx = 0 /\ a.group_idx = GRP_NUM - 1
                BY <3>2, <1>1, SizeAssumption DEF NextBlock
            <4>3. n.mark * GRP_NUM = a.mark * GRP_NUM + GRP_NUM
                BY <4>1, SuccTimes, <1>1, SizeAssumption
            <4>4. a.mark * GRP_NUM \in Nat
                BY <1>1, SizeAssumption
            <4> QED BY <4>1, <4>3, <4>4, SizeAssumption DEF Line
        <3> QED BY <3>1, <3>2
    <2>7. Flat(Shift(a, i)) = Line(n) * CACHE_BLOCK_SIZE + rest
        BY <2>1, <2>3 DEF Addr, Flat, Line
    <2>9. Line(n) * CACHE_BLOCK_SIZE = lb + CACHE_BLOCK_SIZE
        BY <2>6, SuccTimes, LineParts, SizeAssumption
    <2> HIDE DEF lb
    <2> QED BY <2>5, <2>7, <2>9, <1>1, <1>2, SizeAssumption
<1> QED BY <1>3, <1>4

\* hw_mem, seen as the flat array, holds at the flat address what it holds at a.
LEMMA FlatMemAt ==
    ASSUME NEW a \in Addr
    PROVE  /\ FlatMem[Flat(a)] = hw_mem[a.mark][a.group_idx][a.offset]
           /\ FlatMem'[Flat(a)] = hw_mem'[a.mark][a.group_idx][a.offset]
BY FlatParts, LineParts DEF FlatMem, Size

\* hw_mem_read returns the consecutive bytes of the flat memory.
LEMMA FlatRead ==
    ASSUME NEW a \in Addr, NEW len \in 1 .. 4, len <= CACHE_BLOCK_SIZE, InRange(a, len)
    PROVE  HwMemRead(hw_mem, a, len) = M!Bytes(Flat(a), len)
<1>1. ASSUME NEW i \in 0 .. 3, i < len
      PROVE  HwMemRead(hw_mem, a, len)[i] = FlatMem[Flat(a) + i]
    <2>1. Shift(a, i) \in Addr /\ Flat(Shift(a, i)) = Flat(a) + i
        BY <1>1, FlatShift
    <2>2. FlatMem[Flat(a) + i]
            = hw_mem[Shift(a, i).mark][Shift(a, i).group_idx][Shift(a, i).offset]
        BY <2>1, FlatMemAt
    <2>3. a.offset \in Nat
        BY SizeAssumption DEF Addr, Offset
    <2>4. CASE a.offset + i < CACHE_BLOCK_SIZE
        BY <1>1, <2>2, <2>3, <2>4 DEF Shift, HwMemRead, Addr
    <2>5. CASE ~(a.offset + i < CACHE_BLOCK_SIZE)
        <3>1. NextBlock(a) \in Addr
            BY <2>5, <1>1, <2>3, NextBlockIsAddr, SizeAssumption DEF Crosses
        <3> QED BY <1>1, <2>2, <2>3, <2>5, <3>1 DEF Shift, HwMemRead, Addr
    <2> QED BY <2>4, <2>5
<1>2. ASSUME NEW i \in 0 .. 3, ~(i < len)
      PROVE  HwMemRead(hw_mem, a, len)[i] = 0
    BY <1>2 DEF HwMemRead
<1> QED BY <1>1, <1>2 DEF HwMemRead, M!Bytes

\* The bytes that an access within a block covers, in both views of memory.
LEMMA SameBlock ==
    ASSUME NEW a \in Addr, NEW b \in Addr, NEW len \in 1 .. 4, ~Crosses(a, len)
    PROVE  LET same == b.mark = a.mark /\ b.group_idx = a.group_idx
           IN /\ Flat(b) >= Flat(a) /\ Flat(b) < Flat(a) + len
                 <=> same /\ b.offset >= a.offset /\ b.offset < a.offset + len
              /\ same => Flat(b) - Flat(a) = b.offset - a.offset
<1> DEFINE la == Line(a) * CACHE_BLOCK_SIZE
           lb == Line(b) * CACHE_BLOCK_SIZE
<1>1. /\ a.offset \in 0 .. CACHE_BLOCK_SIZE - 1 /\ b.offset \in 0 .. CACHE_BLOCK_SIZE - 1
      /\ a.offset + len <= CACHE_BLOCK_SIZE
    BY SizeAssumption DEF Addr, Offset, Crosses
<1>2. /\ Flat(a) = la + a.offset /\ la \in Nat
      /\ Flat(b) = lb + b.offset /\ lb \in Nat
    BY LineParts, SizeAssumption DEF Flat, Line
<1>3. (b.mark = a.mark /\ b.group_idx = a.group_idx) <=> Line(a) = Line(b)
    BY LineParts DEF Line
<1>4. CASE Line(a) = Line(b)
    <2>1. la = lb
        BY <1>4
    <2> HIDE DEF la, lb
    <2> QED BY <2>1, <1>1, <1>2, <1>3, <1>4, SizeAssumption
<1>5. CASE Line(a) < Line(b)
    <2>1. la + CACHE_BLOCK_SIZE <= lb
        BY <1>5, LessTimes, LineParts, SizeAssumption
    <2>2. Line(a) # Line(b)
        BY <1>5, LineParts
    <2> HIDE DEF la, lb
    <2> QED BY <2>1, <2>2, <1>1, <1>2, <1>3, SizeAssumption
<1>6. CASE Line(b) < Line(a)
    <2>1. lb + CACHE_BLOCK_SIZE <= la
        BY <1>6, LessTimes, LineParts, SizeAssumption
    <2>2. Line(a) # Line(b)
        BY <1>6, LineParts
    <2> HIDE DEF la, lb
    <2> QED BY <2>1, <2>2, <1>1, <1>2, <1>3, SizeAssumption
<1> QED BY <1>4, <1>5, <1>6, LineParts

\* hw_mem_write within a block changes those bytes of the flat memory and no other.
LEMMA FlatWrite ==
    ASSUME NEW a \in Addr, NEW len \in 1 .. 4, ~Crosses(a, len), NEW data \in U32,
           hw_mem' = HwMemWrite(hw_mem, a, len, data)
    PROVE  FlatMem' = [q \in M!Paddr |->
                         IF q >= Flat(a) /\ q < Flat(a) + len THEN data[q - Flat(a)]
                                                              ELSE FlatMem[q]]
<1>1. ASSUME NEW q \in M!Paddr
      PROVE  FlatMem'[q] = IF q >= Flat(a) /\ q < Flat(a) + len THEN data[q - Flat(a)]
                                                               ELSE FlatMem[q]
    <2>1. PICK b \in Addr : Flat(b) = q
        BY FlatOnto DEF M!Paddr, Size
    <2> DEFINE same == b.mark = a.mark /\ b.group_idx = a.group_idx
               old == hw_mem[b.mark][b.group_idx]
    <2>2. b.mark \in Mark /\ b.group_idx \in Group /\ b.offset \in Offset
        BY DEF Addr
    <2>3. /\ FlatMem[q] = old[b.offset]
          /\ FlatMem'[q] = hw_mem'[b.mark][b.group_idx][b.offset]
        BY <2>1, FlatMemAt
    <2>4. hw_mem'[b.mark][b.group_idx]
            = IF same THEN Splice(old, a.offset, data, len) ELSE old
        BY <2>2 DEF HwMemWrite
    <2>5. FlatMem'[q] = IF same /\ b.offset >= a.offset /\ b.offset < a.offset + len
                        THEN data[b.offset - a.offset] ELSE FlatMem[q]
        BY <2>2, <2>3, <2>4 DEF Splice
    <2> QED BY <2>1, <2>5, SameBlock
<1> QED BY <1>1 DEF FlatMem, M!Paddr

\* cached_read is a read of the flat memory: as the check against hw_mem holds
\* (IInv'), what it returns is what hw_mem_read returns.
LEMMA ReadRefines ==
    ASSUME IInv, IInv', NEW a \in Addr, NEW len \in Lens, NEW eip \in Way,
           Read(a, len, eip)
    PROVE  M!MRead(Flat(a), len)
<1>1. len \in 1 .. 4 /\ len <= CACHE_BLOCK_SIZE /\ InRange(a, len)
    BY DataAssumption DEF Read
<1>2. status' # "assert_failed"
    BY DEF IInv, NoReadError
<1>3. ret' = HwMemRead(hw_mem, a, len) /\ status' = status
    BY <1>2 DEF Read
<1>4. FlatMem' = FlatMem
    BY DEF Read, FlatMem
<1>5. [req EXCEPT !.addr = Flat(@)]'
        = [op |-> "read", addr |-> Flat(a), len |-> len, data |-> Zero]
    BY DEF Read
<1>6. Flat(a) + len < NR_MARK * GRP_NUM * CACHE_BLOCK_SIZE
    BY <1>1, RangeAgrees DEF Size
<1>7. ret' = M!Bytes(Flat(a), len)
    BY <1>1, <1>3, FlatRead
<1>8. status = "run"
    BY DEF Read
<1> QED BY <1>3, <1>4, <1>5, <1>6, <1>7, <1>8 DEF M!MRead, M!Zero, Zero

\* cached_write within a block is a write of the flat memory.
LEMMA WriteRefines ==
    ASSUME NEW a \in Addr, NEW len \in Lens, NEW data \in U32, ~CrossWrites,
           Write(a, len, data)
    PROVE  M!MWrite(Flat(a), len, data)
<1>1. len \in 1 .. 4 /\ len <= CACHE_BLOCK_SIZE /\ InRange(a, len) /\ ~Crosses(a, len)
    BY DataAssumption DEF Write
<1>2. hw_mem' = HwMemWrite(hw_mem, a, len, data)
    BY <1>1 DEF Write
<1>3. [req EXCEPT !.addr = Flat(@)]'
        = [op |-> "write", addr |-> Flat(a), len |-> len, data |-> data]
    BY DEF Write
<1>4. Flat(a) + len < NR_MARK * GRP_NUM * CACHE_BLOCK_SIZE
    BY <1>1, RangeAgrees DEF Size
<1>5. status = "run" /\ status' = status /\ ret' = ret
    BY DEF Write
<1>6. FlatMem' = [q \in M!Paddr |->
                    IF q >= Flat(a) /\ q < Flat(a) + len THEN data[q - Flat(a)]
                                                         ELSE FlatMem[q]]
    BY <1>1, <1>2, FlatWrite
<1> QED BY <1>3, <1>4, <1>5, <1>6 DEF M!MWrite

\* An access that pinvalid_addr refuses stops both.
LEMMA StopRefines ==
    ASSUME NEW a \in Addr, NEW len \in Lens, InvalidAddr(a, len)
    PROVE  M!MStop(Flat(a), len)
<1>1. len \in 1 .. 4 /\ len <= CACHE_BLOCK_SIZE
    BY DataAssumption
<1>2. ~(Flat(a) + len < Size)
    BY <1>1, RangeAgrees DEF InvalidAddr
<1>3. Flat(a) + len >= NR_MARK * GRP_NUM * CACHE_BLOCK_SIZE
    BY <1>1, <1>2, FlatParts, SizeIsNat DEF Size
<1> QED BY <1>3 DEF InvalidAddr, M!MStop, FlatMem

\* init_mem zeroes the flat memory.
LEMMA InitRefines == Init => M!MInit
<1> SUFFICES ASSUME Init PROVE M!MInit
    OBVIOUS
<1>1. ASSUME NEW q \in M!Paddr PROVE FlatMem[q] = 0
    <2>1. PICK b \in Addr : Flat(b) = q
        BY FlatOnto DEF M!Paddr, Size
    <2> QED BY <2>1, FlatMemAt DEF Init, Addr
<1>2. FlatMem = [q \in M!Paddr |-> 0]
    BY <1>1 DEF FlatMem, M!Paddr
<1>3. Flat(req.addr) = 0
    <2>1. 0 * GRP_NUM = 0 /\ 0 * CACHE_BLOCK_SIZE = 0
        BY SizeAssumption
    <2> QED BY <2>1 DEF Init, Flat
<1>4. [req EXCEPT !.addr = Flat(@)]
        = [op |-> "read", addr |-> 0, len |-> 0, data |-> M!Zero]
    <2> DEFINE a0 == [mark |-> 0, group_idx |-> 0, offset |-> 0]
    <2>1. req = [op |-> "read", addr |-> a0, len |-> 0, data |-> Zero] /\ Flat(a0) = 0
        BY <1>3 DEF Init
    <2> HIDE DEF a0
    <2> QED BY <2>1 DEF M!Zero, Zero
<1>5. (status = "run") = TRUE /\ ret = M!Zero
    BY DEF Init, M!Zero, Zero
<1> QED BY <1>2, <1>4, <1>5 DEF M!MInit

\* Every step of the cache is a step of the flat memory or leaves it unchanged.
LEMMA NextRefines ==
    ASSUME ~CrossWrites, IInv, IInv', [Next]_vars
    PROVE  [M!MNext]_(M!mvars)
<1>1. ASSUME NEW a \in Addr PROVE Flat(a) \in M!Paddr
    BY FlatParts DEF M!Paddr, Size
<1>2. ASSUME NEW a \in Addr, NEW len \in Lens, NEW eip \in Way, Read(a, len, eip)
      PROVE  M!MNext
    BY <1>1, <1>2, ReadRefines DEF M!MNext
<1>3. ASSUME NEW a \in Addr, NEW len \in Lens, NEW data \in Data(len),
             Write(a, len, data)
      PROVE  M!MNext
    <2>1. data \in U32
        BY DEF Data
    <2> QED BY <1>1, <1>3, <2>1, WriteRefines DEF M!MNext, M!U32, U32
<1>4. ASSUME NEW a \in Addr, NEW len \in Lens, InvalidAddr(a, len)
      PROVE  M!MNext
    BY <1>1, <1>4, StopRefines DEF M!MNext
<1>5. CASE UNCHANGED vars
    BY <1>5 DEF vars, M!mvars, FlatMem
<1> QED BY <1>2, <1>3, <1>4, <1>5 DEF Next

\* Behind the cache, paddr_read and paddr_write see a flat array of bytes: reads
\* return, and writes change, exactly the bytes the address names, for every size
\* of memory and cache.  The guest must not write across two blocks: there
\* cached_write stores the wrong bytes (WriteStored).
THEOREM MemoryImplemented == ASSUME ~CrossWrites PROVE Spec => ImplementsMemory
<1>1. IInv /\ IInv' /\ [Next]_vars => [M!MNext]_(M!mvars)
    BY NextRefines
<1> QED BY <1>1, InitRefines, InitIInv, NextIInv, PTL
        DEF Spec, ImplementsMemory, M!MSpec
=============================================================================
