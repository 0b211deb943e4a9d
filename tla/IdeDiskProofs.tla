---------------------------- MODULE IdeDiskProofs ----------------------------
(***************************************************************************)
(* The sector cache, the programmed I/O and the write-back from the timer, *)
(* for every number of sectors, slots and words: wherever the timer        *)
(* interrupts the driver, it can hang only in the write of a victim and    *)
(* only a read can be cut off from its command; and as long as no          *)
(* write-back comes inside the driver, what the guest wrote is read until  *)
(* its slot is taken, and is given to the device before that.              *)
(***************************************************************************)
EXTENDS IdeDisk, NumberLemmas, TLAPS

(***************************************************************************)
(* The part of the invariant that no interrupt disturbs.                   *)
(***************************************************************************)

\* Port 7 holds the command 0x30 exactly during a write; the write is not
\* disturbed, and a read is not as long as the device is in read mode.
TransferInv ==
    /\ busy <=> pc = "w_data"
    /\ pc = "w_data" =>
          /\ ide_write /\ i < WORDS /\ word_cnt = i
          /\ \E n \in Sector : fpos = n * WORDS
    /\ pc \in {"r_wait", "r_data"} /\ ~ide_write =>
          /\ i < WORDS /\ word_cnt = i
          /\ \E n \in Sector : fpos = n * WORDS + i

\* A slot holds a sector that belongs into it, and only a slot in use is dirty.
SlotInv ==
    /\ \A s \in Slots : /\ cache[s].dirty => cache[s].used
                        /\ cache[s].used => cache[s].sector % NR_SEC_CACHE = s
    /\ pc = "access" => cache[Slot].used /\ cache[Slot].sector = op.sector

IInv == TypeOK /\ TransferInv /\ SlotInv /\ SpinsOnlyInWrite

(***************************************************************************)
(* The part that holds while no write-back has come inside the driver.     *)
(***************************************************************************)
SlotOf(n) == n % NR_SEC_CACHE
Held(n) == cache[SlotOf(n)].used /\ cache[SlotOf(n)].sector = n

\* The slot of a sector holds what the guest can still have of it, except for the slot
\* that a read is filling.
CacheLatest == \A n \in Sector, j \in Idx :
    Held(n) /\ ~(pc \in {"r_data", "r_done"} /\ SlotOf(n) = Slot)
        => cache[SlotOf(n)].content[j] = Kept(n, j)

\* The image holds it if no slot does.
DiskLatest == \A n \in Sector, j \in Idx : ~Held(n) => disk[n][j] = Kept(n, j)

\* A word that waits for the device lies in a dirty slot; while its slot is given to
\* the device, behind the words that have been given.
Reading == {"r_clear", "r_prepare", "r_issue", "r_wait", "r_data", "r_done"}
PendingInv == \A x \in pending :
    /\ Held(x[1]) /\ cache[SlotOf(x[1])].dirty /\ x \notin evicted
    /\ SlotOf(x[1]) = Slot => /\ pc \notin Reading
                              /\ pc = "w_data" => i <= x[2]

\* disk_do_write: the sector of the victim goes to the device.
WriteInv ==
    /\ pc \in {"w_prepare", "w_issue", "w_data"} =>
          cache[Slot].used /\ cache[Slot].dirty /\ ~Held(op.sector)
    /\ pc = "w_issue" => lba = cache[Slot].sector
    /\ pc = "w_data" => fpos = cache[Slot].sector * WORDS

\* disk_do_read: the slot is being replaced by the sector that is read.
ReadInv ==
    /\ pc \in Reading => ~Held(op.sector)
    /\ pc = "r_issue" => lba = op.sector
    /\ pc = "r_wait" => i = 0
    /\ pc \in {"r_wait", "r_data"} => ~ide_write /\ fpos = op.sector * WORDS + i
    /\ pc = "r_data" =>
          \A j \in 0 .. i - 1 : cache[Slot].content[j] = disk[op.sector][j]
    /\ pc = "r_done" => cache[Slot].content = disk[op.sector]

Latest == CacheLatest /\ DiskLatest /\ PendingInv /\ WriteInv /\ ReadInv /\ pc # "assert_failed"

DataInv == apart => Latest

-----------------------------------------------------------------------------
(* Positions of the stream, slots and the slots that are written back.     *)

\* A sector has a slot.
LEMMA SlotOfSector ==
    ASSUME NEW n \in Sector
    PROVE  n % NR_SEC_CACHE \in Slots
BY DivMod, SizeAssumption DEF Sector, Slots

\* The position of word j of sector n, or behind it, is one of the stream, and
\* inside the sector it is read and written as that word.
LEMMA Position ==
    ASSUME NEW n \in Sector, NEW j \in 0 .. WORDS
    PROVE  /\ n * WORDS + j \in 0 .. NR_SECTOR * WORDS
           /\ j < WORDS => /\ (n * WORDS + j) \div WORDS = n
                           /\ (n * WORDS + j) % WORDS = j
<1> DEFINE b == n * WORDS
           all == NR_SECTOR * WORDS
<1>1. /\ n \in Nat /\ n < NR_SECTOR /\ WORDS \in Nat \ {0} /\ NR_SECTOR \in Nat
      /\ j \in Nat /\ j <= WORDS
    BY SizeAssumption DEF Sector
<1>2. b \in Nat /\ all \in Nat
    BY <1>1
<1>3. b + WORDS <= all
    BY <1>1, LessTimes
<1>4. n * WORDS + j \in 0 .. NR_SECTOR * WORDS
    <2> HIDE DEF b, all
    <2>1. b + j \in 0 .. all
        BY <1>1, <1>2, <1>3
    <2> QED BY <2>1 DEF b, all
<1>5. ASSUME j < WORDS
      PROVE  (n * WORDS + j) \div WORDS = n /\ (n * WORDS + j) % WORDS = j
    <2>1. j \in 0 .. WORDS - 1
        BY <1>1, <1>5
    <2> QED BY <1>1, <2>1, DivModUnique
<1> QED BY <1>4, <1>5

\* The loop over the slots ends with one that is dirty.
LEMMA LastDirty ==
    ASSUME NEW S, S \subseteq Slots, S # {}
    PROVE  Max(S) \in S
<1> DEFINE T == {NR_SEC_CACHE - s : s \in S}
<1>1. NR_SEC_CACHE \in Nat /\ \A s \in S : s \in Nat /\ s < NR_SEC_CACHE
    BY SizeAssumption DEF Slots
<1>2. T \subseteq Nat /\ T # {}
    BY <1>1
<1>3. PICK x \in S : Min(T) = NR_SEC_CACHE - x
    <2>1. Min(T) \in T
        BY <1>2, MinIsElement
    <2> QED BY <2>1
<1>4. \A y \in S : x >= y
    <2> SUFFICES ASSUME NEW y \in S PROVE x >= y
        OBVIOUS
    <2>1. NR_SEC_CACHE - y \in T
        OBVIOUS
    <2>2. NR_SEC_CACHE - x <= NR_SEC_CACHE - y
        BY <1>2, <1>3, <2>1, MinIsElement
    <2> QED BY <1>1, <2>2
<1> QED BY <1>4 DEF Max

-----------------------------------------------------------------------------
(* The steps: control of the driver and of the device.                     *)

\* op is an access also outside the driver.
LEMMA NoOpIsOp == NoOp \in Op
<1>1. PICK w \in Word : TRUE
    BY WordAssumption
<1>2. 0 \in Idx /\ 0 \in Sector
    BY SizeAssumption DEF Idx, Sector
<1>3. [write |-> FALSE, sector |-> 0, idx |-> 0, data |-> w] \in Op
    BY <1>2 DEF Op
<1> QED BY <1>3 DEF NoOp

\* init_ide of NEMU and of the kernel.
LEMMA InitIInv == Init => IInv
<1> SUFFICES ASSUME Init PROVE IInv
    OBVIOUS
<1>1. /\ 0 \in Sector /\ 0 \in 0 .. WORDS /\ 0 \in 0 .. WB_TICKS - 1
      /\ 0 \in 0 .. NR_SECTOR * WORDS
    <2>1. 0 \in Sector /\ 0 \in 0 .. WORDS /\ 0 \in 0 .. WB_TICKS - 1
        BY SizeAssumption DEF Sector
    <2>2. 0 * WORDS + 0 \in 0 .. NR_SECTOR * WORDS
        BY <2>1, Position
    <2> QED BY <2>1, <2>2, SizeAssumption
<1>2. cache \in [Slots -> [sector : Sector, used : BOOLEAN, dirty : BOOLEAN,
                           content : Content]]
    <2>1. (CHOOSE w \in Word : TRUE) \in Word
        BY WordAssumption
    <2> QED BY <1>1, <2>1 DEF Init, Content
<1>3. TypeOK
    BY <1>1, <1>2, NoOpIsOp DEF Init, TypeOK, PC
<1> QED BY <1>3 DEF Init, IInv, TransferInv, SlotInv, SpinsOnlyInWrite

\* The write-back leaves the device ready, in write mode; the slots keep their
\* sectors.
LEMMA WritebackTypes ==
    ASSUME TypeOK, Dirty # {}, CacheWriteback
    PROVE  /\ disk' \in [Sector -> Content] /\ fpos' \in 0 .. NR_SECTOR * WORDS
           /\ word_cnt' \in 0 .. WORDS /\ lba' \in Sector
           /\ cache' = [s \in Slots |-> [cache[s] EXCEPT !.dirty = FALSE]]
           /\ cache' \in [Slots -> [sector : Sector, used : BOOLEAN, dirty : BOOLEAN,
                                    content : Content]]
           /\ ide_write' = TRUE /\ busy' = FALSE
<1> DEFINE d == Max(Dirty)
<1>1. d \in Slots
    BY LastDirty DEF Dirty
<1>2. cache[d].sector \in Sector /\ cache[d].content \in [Idx -> Word]
    BY <1>1 DEF TypeOK, Content
<1>3. disk' \in [Sector -> Content]
    BY DEF CacheWriteback, TypeOK
<1>4. fpos' \in 0 .. NR_SECTOR * WORDS
    <2> DEFINE k == cache[d].sector
    <2>1. k \in Sector /\ k \in Nat /\ WORDS \in Nat
        BY <1>2, SizeAssumption DEF Sector
    <2>2. fpos' = k * WORDS
        BY DEF CacheWriteback
    <2> HIDE DEF k
    <2>3. k * WORDS = k * WORDS + 0 /\ 0 \in 0 .. WORDS
        BY <2>1
    <2> QED BY <2>1, <2>2, <2>3, Position
<1>5. lba' \in Sector
    <2>1. WORDS - 1 \in Idx
        BY SizeAssumption DEF Idx
    <2> QED BY <1>2, <2>1, WordAssumption DEF CacheWriteback
<1>6. cache' \in [Slots -> [sector : Sector, used : BOOLEAN, dirty : BOOLEAN,
                            content : Content]]
    BY DEF CacheWriteback, TypeOK
<1> QED BY <1>3, <1>4, <1>5, <1>6, SizeAssumption DEF CacheWriteback

\* The types of the histories.
HistoryOK == /\ want \in [Sector -> Content] /\ apart \in BOOLEAN
             /\ pending \subseteq Sector \X Idx /\ evicted \subseteq Sector \X Idx

\* A write-back keeps or drops the histories.
LEMMA TickHistory == ASSUME IInv, Tick, counter + 1 = WB_TICKS PROVE HistoryOK'
<1>1. disk' \in [Sector -> Content]
    BY DEF Tick, CacheWriteback, device, IInv, TypeOK
<1>2. WrittenBack \subseteq pending /\ apart' \in BOOLEAN
    BY DEF WrittenBack, Tick, IInv, TypeOK
<1>3. CASE KeepHistory /\ pending' = WrittenBack
    BY <1>2, <1>3 DEF KeepHistory, HistoryOK, IInv, TypeOK
<1>4. CASE DropHistory
    <2>1. disk' = disk
        BY DEF Tick, CacheWriteback, device
    <2> QED BY <1>2, <1>4, <2>1 DEF DropHistory, HistoryOK, IInv, TypeOK
<1> QED BY <1>3, <1>4 DEF Tick

\* ide_writeback, wherever it comes.
LEMMA TickIInv == ASSUME IInv, Tick PROVE IInv'
<1>1. CASE counter + 1 # WB_TICKS
    <2>1. counter' \in 0 .. WB_TICKS - 1
        BY <1>1, SizeAssumption DEF IInv, TypeOK, Tick
    <2> QED BY <1>1, <2>1
            DEF IInv, TypeOK, TransferInv, SlotInv, SpinsOnlyInWrite, Slot, Dirty, Tick, device,
                history
<1>2. CASE counter + 1 = WB_TICKS /\ WaitsForDisk
    BY <1>2, TickHistory
       DEF HistoryOK, IInv, TypeOK, TransferInv, SlotInv, SpinsOnlyInWrite, Slot, Dirty, Tick,
           device, WaitsForDisk
<1>3. CASE counter + 1 = WB_TICKS /\ ~WaitsForDisk /\ Dirty = {}
    <2>1. counter' \in 0 .. WB_TICKS - 1
        BY <1>3, SizeAssumption DEF Tick
    <2> QED BY <1>3, <2>1, TickHistory
            DEF HistoryOK, IInv, TypeOK, TransferInv, SlotInv, SpinsOnlyInWrite, Slot, Dirty, Tick, device
<1>4. CASE counter + 1 = WB_TICKS /\ ~WaitsForDisk /\ Dirty # {}
    <2>1. CacheWriteback /\ counter' = 0 /\ spinning' = spinning /\ ~busy /\ ~spinning
        BY <1>4 DEF Tick, WaitsForDisk
    <2>2. UNCHANGED <<irq14, has_ide_intr, pc, op, i>> /\ HistoryOK'
        BY <1>4, TickHistory DEF Tick
    <2>3. /\ disk' \in [Sector -> Content] /\ fpos' \in 0 .. NR_SECTOR * WORDS
          /\ word_cnt' \in 0 .. WORDS /\ lba' \in Sector
          /\ cache' = [s \in Slots |-> [cache[s] EXCEPT !.dirty = FALSE]]
          /\ cache' \in [Slots -> [sector : Sector, used : BOOLEAN, dirty : BOOLEAN,
                                   content : Content]]
          /\ ide_write' = TRUE /\ busy' = FALSE
        BY <1>4, <2>1, WritebackTypes DEF IInv
    <2>4. TypeOK'
        <3>1. counter' \in 0 .. WB_TICKS - 1
            BY <2>1, SizeAssumption
        <3>2. /\ ide_write' \in BOOLEAN /\ busy' \in BOOLEAN /\ irq14' \in BOOLEAN
              /\ has_ide_intr' \in BOOLEAN /\ spinning' \in BOOLEAN
            BY <2>1, <2>2, <2>3 DEF IInv, TypeOK
        <3> QED BY <2>2, <2>3, <3>1, <3>2 DEF HistoryOK, IInv, TypeOK
    <2>5. TransferInv'
        BY <2>1, <2>2, <2>3 DEF IInv, TransferInv
    <2>6. SlotInv'
        <3>1. \A s \in Slots : /\ cache'[s].used = cache[s].used /\ ~cache'[s].dirty
                               /\ cache'[s].sector = cache[s].sector
            BY <2>3 DEF IInv, TypeOK
        <3>2. Slot \in Slots
            BY SlotOfSector DEF IInv, TypeOK, Slot, Op
        <3> QED BY <2>2, <3>1, <3>2 DEF IInv, SlotInv, Slot
    <2> QED BY <2>1, <2>4, <2>5, <2>6 DEF IInv, SpinsOnlyInWrite
<1> QED BY <1>1, <1>2, <1>3, <1>4

\* ide_intr sets the flag.
LEMMA IdeIntrIInv == ASSUME IInv, IdeIntr PROVE IInv'
BY DEF IdeIntr, IInv, TypeOK, history, TransferInv, SlotInv, SpinsOnlyInWrite, Slot, Dirty,
       device, kernel, At, PC

\* read_byte and write_byte find the slot, a victim, or neither.
LEMMA CallIInv == ASSUME IInv, Call PROVE IInv'
<1>1. PICK o \in Op : op' = o /\ pc' = CacheFetch(o)
    BY DEF Call
<1>2. pc' \in {"access", "w_prepare", "r_clear"}
    BY <1>1 DEF CacheFetch
<1>3. pc' = "access" => cache[Slot'].used /\ cache[Slot'].sector = op'.sector
    BY <1>1 DEF CacheFetch, Slot
<1>4. /\ UNCHANGED <<disk, fpos, word_cnt, ide_write, busy, lba, irq14, cache,
                      has_ide_intr, counter, spinning, want, pending, evicted, apart>>
      /\ i' = 0 /\ pc = "idle" /\ ~spinning
    BY DEF Call, At, device, kernel, history
<1>5. TypeOK'
    BY <1>1, <1>2, <1>4, SizeAssumption DEF IInv, TypeOK, PC
<1> QED BY <1>2, <1>3, <1>4, <1>5 DEF IInv, TransferInv, SlotInv, SpinsOnlyInWrite

\* The sector number of the victim goes to the ports.
LEMMA WritePrepareIInv == ASSUME IInv, WritePrepare PROVE IInv'
<1>1. cache[Slot].sector \in Sector
    BY SlotOfSector DEF IInv, TypeOK, Slot, Op
<1> QED BY <1>1
           DEF WritePrepare, IdePrepare, history, IInv, TypeOK, TransferInv, SlotInv,
               SpinsOnlyInWrite, Slot, Dirty, device, kernel, At, PC

\* Command 0x30 seeks to the sector in the ports.
LEMMA IssueWriteIInv == ASSUME IInv, IssueWrite PROVE IInv'
<1>1. /\ fpos' = lba * WORDS /\ word_cnt' = 0 /\ ide_write' = TRUE /\ busy' = TRUE
      /\ i' = 0 /\ pc' = "w_data" /\ pc = "w_issue" /\ ~spinning
      /\ UNCHANGED <<disk, lba, irq14, spinning, op, cache, has_ide_intr, counter>>
      /\ UNCHANGED history
    BY DEF IssueWrite, WriteCommand, Seek, At, kernel
<1>2. lba \in Sector /\ WORDS \in Nat \ {0}
    BY SizeAssumption DEF IInv, TypeOK
<1>3. lba * WORDS = lba * WORDS + 0
    BY <1>2 DEF Sector
<1>4. fpos' \in 0 .. NR_SECTOR * WORDS
    BY <1>1, <1>2, <1>3, Position
<1>5. TypeOK'
    BY <1>1, <1>2, <1>4 DEF IInv, TypeOK, PC, history
<1>6. TransferInv'
    BY <1>1, <1>2, <1>3 DEF TransferInv
<1> QED BY <1>1, <1>5, <1>6 DEF IInv, SlotInv, SpinsOnlyInWrite, Slot

\* A word of the victim goes to the device.
LEMMA WriteDataIInv == ASSUME IInv, WriteData PROVE IInv'
<1> DEFINE w == cache[Slot].content[i]
<1>1. /\ pc = "w_data" /\ i \in Idx /\ i + 1 \in 0 .. WORDS /\ word_cnt = i /\ ide_write
      /\ ~spinning
    BY SizeAssumption DEF WriteData, At, IInv, TypeOK, TransferInv, Idx
<1>2. w \in Word /\ w \in Sector
    <2>1. cache[Slot].content \in [Idx -> Word]
        BY SlotOfSector DEF IInv, TypeOK, Slot, Op, Content
    <2> QED BY <1>1, <2>1, WordAssumption
<1>3. PICK n \in Sector : fpos = n * WORDS
    BY <1>1 DEF IInv, TransferInv
<1>4. /\ word_cnt' = i + 1 /\ busy' = (busy /\ i + 1 # WORDS) /\ lba' = w
      /\ i' = i + 1 /\ pc' = IF i + 1 = WORDS THEN "r_clear" ELSE "w_data"
      /\ UNCHANGED <<disk, fpos, ide_write, irq14, spinning, op, want, evicted, apart, cache,
                     has_ide_intr, counter>>
      /\ pending' \subseteq pending
    BY <1>1 DEF WriteData, OutLong, Given, kernel
<1> HIDE DEF w
<1>8. TypeOK'
    BY <1>1, <1>2, <1>4 DEF IInv, TypeOK, PC
<1>9. TransferInv'
    <2>1. busy /\ (busy' <=> pc' = "w_data")
        BY <1>1, <1>4 DEF IInv, TransferInv
    <2>2. pc' = "w_data" => i' < WORDS
        BY <1>1, <1>4, SizeAssumption DEF Idx
    <2>3. fpos' = n * WORDS
        BY <1>3, <1>4
    <2>4. pc' \in {"w_data", "r_clear"} /\ ide_write' /\ word_cnt' = i'
        BY <1>1, <1>4
    <2> QED BY <2>1, <2>2, <2>3, <2>4 DEF TransferInv
<1> QED BY <1>1, <1>4, <1>8, <1>9 DEF IInv, SlotInv, SpinsOnlyInWrite, Slot

\* The flag of an earlier interrupt is cleared.
LEMMA ClearIdeIntrIInv == ASSUME IInv, ClearIdeIntr PROVE IInv'
BY DEF ClearIdeIntr, IInv, TypeOK, history, TransferInv, SlotInv, SpinsOnlyInWrite, Slot,
       Dirty, device, kernel, At, PC

\* The sector number goes to the ports.
LEMMA ReadPrepareIInv == ASSUME IInv, ReadPrepare PROVE IInv'
BY DEF ReadPrepare, IdePrepare, Op, history, IInv, TypeOK, TransferInv, SlotInv,
       SpinsOnlyInWrite, Slot, Dirty, device, kernel, At, PC

\* Command 0x20 seeks to the sector in the ports.
LEMMA IssueReadIInv == ASSUME IInv, IssueRead PROVE IInv'
<1>1. /\ fpos' = lba * WORDS /\ word_cnt' = 0 /\ ide_write' = FALSE /\ busy' = FALSE
      /\ irq14' = TRUE /\ i' = 0 /\ pc' = "r_wait" /\ pc = "r_issue" /\ ~spinning
      /\ UNCHANGED <<disk, lba, spinning, op, cache, has_ide_intr, counter>>
      /\ UNCHANGED history
    BY DEF IssueRead, ReadCommand, Seek, At, kernel
<1>2. lba \in Sector /\ WORDS \in Nat \ {0}
    BY SizeAssumption DEF IInv, TypeOK
<1>3. lba * WORDS = lba * WORDS + 0
    BY <1>2 DEF Sector
<1>4. fpos' \in 0 .. NR_SECTOR * WORDS
    BY <1>1, <1>2, <1>3, Position
<1>5. TypeOK'
    <2>1. i' \in 0 .. WORDS /\ word_cnt' \in 0 .. WORDS
        BY <1>1, <1>2
    <2>2. ide_write' \in BOOLEAN /\ busy' \in BOOLEAN /\ irq14' \in BOOLEAN /\ pc' \in PC
        BY <1>1 DEF PC
    <2> QED BY <1>1, <1>4, <2>1, <2>2 DEF IInv, TypeOK, history
<1>6. TransferInv'
    BY <1>1, <1>2, <1>3 DEF TransferInv
<1> QED BY <1>1, <1>5, <1>6 DEF IInv, SlotInv, SpinsOnlyInWrite, Slot

\* wait_ide_intr ends.
LEMMA WaitIdeIntrIInv == ASSUME IInv, WaitIdeIntr PROVE IInv'
BY DEF WaitIdeIntr, IInv, TypeOK, history, TransferInv, SlotInv, SpinsOnlyInWrite, Slot, Dirty,
       device, kernel, At, PC

\* A word of the image goes to the slot.
LEMMA ReadDataIInv == ASSUME IInv, ReadData PROVE IInv'
<1>1. /\ pc = "r_data" /\ ~ide_write /\ ~spinning /\ ~busy
      /\ i \in Idx /\ i + 1 \in 0 .. WORDS /\ word_cnt = i
    BY SizeAssumption DEF ReadData, At, TransferOK, IInv, TypeOK, TransferInv, Idx
<1>2. PICK n \in Sector : fpos = n * WORDS + i
    BY <1>1 DEF IInv, TransferInv
<1>3. InWord \in Word /\ InWord \in Sector
    <2>1. fpos \div WORDS = n /\ fpos % WORDS = i
        BY <1>1, <1>2, Position, SizeAssumption DEF Idx
    <2>2. disk[n] \in [Idx -> Word]
        BY DEF IInv, TypeOK, Content
    <2> QED BY <1>1, <2>1, <2>2, WordAssumption DEF InWord
<1>4. /\ fpos' = fpos + 1 /\ word_cnt' = i + 1 /\ busy' = FALSE /\ lba' = InWord
      /\ cache' = [cache EXCEPT ![Slot].content[i] = InWord]
      /\ i' = i + 1 /\ pc' = IF i + 1 = WORDS THEN "r_done" ELSE "r_data"
      /\ UNCHANGED <<disk, ide_write, irq14, has_ide_intr, counter, spinning, op>>
      /\ UNCHANGED history
    BY <1>1 DEF ReadData, InLong, IInv, TypeOK
<1>5. fpos' = n * WORDS + (i + 1)
    <2>1. n * WORDS \in Nat /\ i \in Nat
        BY <1>1, SizeAssumption DEF Sector, Idx
    <2> QED BY <1>2, <1>4, <2>1
<1>6. fpos' \in 0 .. NR_SECTOR * WORDS
    BY <1>1, <1>5, Position
<1>7. Slot \in Slots
    BY SlotOfSector DEF IInv, TypeOK, Slot, Op
<1> HIDE DEF Slot
<1>8. cache' \in [Slots -> [sector : Sector, used : BOOLEAN, dirty : BOOLEAN,
                            content : Content]]
    BY <1>1, <1>3, <1>4, <1>7 DEF IInv, TypeOK, Content
<1>9. \A s \in Slots : /\ cache'[s].used = cache[s].used /\ cache'[s].dirty = cache[s].dirty
                       /\ cache'[s].sector = cache[s].sector
    BY <1>4, <1>7 DEF IInv, TypeOK
<1>10. TypeOK'
    BY <1>1, <1>3, <1>4, <1>6, <1>8 DEF IInv, TypeOK, PC, history
<1>11. TransferInv'
    BY <1>1, <1>4, <1>5, SizeAssumption DEF TransferInv, Idx
<1>12. SlotInv'
    BY <1>4, <1>9 DEF IInv, SlotInv
<1> QED BY <1>1, <1>4, <1>10, <1>11, <1>12 DEF IInv, SpinsOnlyInWrite

\* The slot is in use for the sector that was read.
LEMMA ReadDoneIInv == ASSUME IInv, ReadDone PROVE IInv'
<1>1. /\ cache' = [cache EXCEPT ![Slot].used = TRUE, ![Slot].sector = op.sector,
                                ![Slot].dirty = FALSE]
      /\ pc = "r_done" /\ pc' = "access" /\ ~spinning
      /\ UNCHANGED <<disk, fpos, word_cnt, ide_write, busy, lba, irq14, has_ide_intr,
                     counter, spinning, op, i, want, pending, apart>>
      /\ evicted' = evicted \cup Evicted
    BY DEF ReadDone, At, device
<1>2. Slot \in Slots /\ op.sector \in Sector /\ op.sector % NR_SEC_CACHE = Slot
    BY SlotOfSector DEF IInv, TypeOK, Slot, Op
<1>3. \A s \in Slots : cache'[s] =
        IF s = Slot THEN [cache[s] EXCEPT !.used = TRUE, !.sector = op.sector, !.dirty = FALSE]
                    ELSE cache[s]
    BY <1>1, <1>2 DEF IInv, TypeOK
<1>4. Slot' = Slot
    BY <1>1 DEF Slot
<1> HIDE DEF Slot
<1>5. TypeOK'
    <2>1. cache' \in [Slots -> [sector : Sector, used : BOOLEAN, dirty : BOOLEAN,
                                content : Content]]
        BY <1>1, <1>2 DEF IInv, TypeOK
    <2>2. pc' \in PC /\ Evicted \subseteq Sector \X Idx
        BY <1>1, <1>2 DEF PC, Evicted, IInv, TypeOK
    <2> QED BY <1>1, <2>1, <2>2 DEF IInv, TypeOK
<1>6. SlotInv'
    <2>1. /\ cache'[Slot].used /\ ~cache'[Slot].dirty /\ cache'[Slot].sector = op.sector
          /\ \A s \in Slots \ {Slot} : cache'[s] = cache[s]
        BY <1>2, <1>3 DEF IInv, TypeOK
    <2>2. ASSUME NEW s \in Slots
          PROVE  /\ cache'[s].dirty => cache'[s].used
                 /\ cache'[s].used => cache'[s].sector % NR_SEC_CACHE = s
        <3>1. CASE s = Slot
            BY <1>2, <2>1, <3>1
        <3>2. CASE s # Slot
            BY <2>1, <3>2 DEF IInv, SlotInv
        <3> QED BY <3>1, <3>2
    <2> QED BY <1>1, <1>4, <2>1, <2>2 DEF SlotInv
<1> QED BY <1>1, <1>5, <1>6 DEF IInv, TransferInv, SpinsOnlyInWrite

\* read_byte or write_byte returns.
LEMMA AccessIInv == ASSUME IInv, Access PROVE IInv'
<1>1. /\ pc = "access" /\ pc' = "idle" /\ op' = NoOp /\ i' = 0 /\ ~spinning
      /\ UNCHANGED <<disk, fpos, word_cnt, ide_write, busy, lba, irq14, has_ide_intr,
                     counter, spinning, apart>>
    BY DEF Access, At, device
<1>2. Slot \in Slots /\ op \in Op
    BY SlotOfSector DEF IInv, TypeOK, Slot, Op
<1> HIDE DEF Slot
<1>3. HistoryOK'
    <2>1. CASE apart /\ op.write
        <3>1. want' = [want EXCEPT ![op.sector][op.idx] = op.data]
            BY <2>1 DEF Access, RecordWrite
        <3>2. want' \in [Sector -> Content]
            BY <1>2, <3>1 DEF IInv, TypeOK, Op, Content
        <3> QED BY <1>1, <1>2, <2>1, <3>2 DEF Access, RecordWrite, HistoryOK, IInv, TypeOK, Op
    <2>2. CASE ~(apart /\ op.write)
        BY <1>1, <2>2 DEF Access, RecordWrite, HistoryOK, IInv, TypeOK
    <2> QED BY <2>1, <2>2
<1>4. CASE op.write
    <2>1. cache' = [cache EXCEPT ![Slot].content[op.idx] = op.data, ![Slot].dirty = TRUE]
        BY <1>4 DEF Access
    <2>2. cache' \in [Slots -> [sector : Sector, used : BOOLEAN, dirty : BOOLEAN,
                                content : Content]]
        BY <1>2, <2>1 DEF IInv, TypeOK, Op, Content
    <2>3. \A s \in Slots : /\ cache'[s].used = cache[s].used
                           /\ cache'[s].sector = cache[s].sector
                           /\ cache'[s].dirty = (cache[s].dirty \/ s = Slot)
        BY <1>2, <2>1 DEF IInv, TypeOK
    <2>4. cache[Slot].used
        BY <1>1 DEF IInv, SlotInv
    <2>5. TypeOK'
        BY <1>1, <1>3, <2>2, NoOpIsOp, SizeAssumption DEF HistoryOK, IInv, TypeOK, PC
    <2> QED BY <1>1, <2>3, <2>4, <2>5 DEF IInv, TransferInv, SlotInv, SpinsOnlyInWrite
<1>5. CASE ~op.write
    <2>1. UNCHANGED cache
        BY <1>5 DEF Access
    <2>2. TypeOK'
        BY <1>1, <1>3, <2>1, NoOpIsOp, SizeAssumption DEF HistoryOK, IInv, TypeOK, PC
    <2> QED BY <1>1, <2>1, <2>2 DEF IInv, TransferInv, SlotInv, SpinsOnlyInWrite
<1> QED BY <1>4, <1>5

\* An assert of handler_ide fails, and never in a write.
LEMMA AssertFailsIInv == ASSUME IInv, AssertFails PROVE pc = "r_data" /\ IInv'
<1>1. pc = "r_data"
    BY SizeAssumption DEF AssertFails, TransferOK, IInv, TypeOK, TransferInv
<1> QED BY <1>1
           DEF AssertFails, IInv, TypeOK, history, TransferInv, SlotInv, SpinsOnlyInWrite,
               Slot,
                    Dirty, device, kernel, PC

\* No step disturbs the control, with or without a write-back inside the driver.
LEMMA NextIInv == IInv /\ [Next]_vars => IInv'
<1> SUFFICES ASSUME IInv, [Next]_vars PROVE IInv'
    OBVIOUS
<1>1. CASE UNCHANGED vars
    BY <1>1
       DEF vars, IInv, TypeOK, TransferInv, SlotInv, SpinsOnlyInWrite, Slot, Dirty
<1>2. CASE Driver
    BY <1>2, WritePrepareIInv, IssueWriteIInv, WriteDataIInv, ClearIdeIntrIInv,
       ReadPrepareIInv, IssueReadIInv, WaitIdeIntrIInv, ReadDataIInv, ReadDoneIInv,
       AccessIInv, AssertFailsIInv DEF Driver
<1> QED BY <1>1, <1>2, TickIInv, IdeIntrIInv, CallIInv DEF Next

\* Wherever the timer interrupts the driver, it waits for the disk for ever only in the
\* middle of the write of a victim.
THEOREM HangsOnlyInWrite == Spec => []SpinsOnlyInWrite
<1>1. IInv => SpinsOnlyInWrite
    BY DEF IInv
<1> QED BY <1>1, InitIInv, NextIInv, PTL DEF Spec

\* Wherever the timer interrupts the driver, a write keeps its command: only a read
\* can meet the assert of handler_ide.
THEOREM WritesNeverAssert == Spec => OnlyReadsAssert
<1>1. IInv /\ [Next]_vars => [pc' = "assert_failed" => pc = "r_data"]_vars
    <2> SUFFICES ASSUME IInv, Next, pc' = "assert_failed", pc # "r_data" PROVE FALSE
        BY DEF IInv
    <2>1. ~AssertFails
        BY AssertFailsIInv
    <2>2. CASE Tick \/ IdeIntr
        BY <2>2 DEF Tick, IdeIntr
    <2>3. CASE Call
        BY <2>3 DEF Call, CacheFetch
    <2>4. CASE Driver
        BY <2>1, <2>4
           DEF Driver, WritePrepare, IdePrepare, IssueWrite, WriteData, ClearIdeIntr,
               ReadPrepare, IssueRead, WaitIdeIntr, ReadData, ReadDone, Access
    <2> QED BY <2>2, <2>3, <2>4 DEF Next
<1> QED BY <1>1, InitIInv, NextIInv, PTL DEF Spec, OnlyReadsAssert

-----------------------------------------------------------------------------
(* The steps: data.                                                        *)

\* Where sectors have their slots.
LEMMA Places ==
    ASSUME IInv
    PROVE  /\ Slot = SlotOf(op.sector) /\ op.sector \in Sector /\ Slot \in Slots
           /\ \A n \in Sector : SlotOf(n) \in Slots
           /\ \A s \in Slots : /\ cache[s].sector \in Sector
                               /\ cache[s].content \in [Idx -> Word]
                               /\ cache[s].dirty => cache[s].used
                               /\ cache[s].used => SlotOf(cache[s].sector) = s
           /\ pc = "access" => cache[Slot].used /\ cache[Slot].sector = op.sector
<1>1. Slot = SlotOf(op.sector) /\ op.sector \in Sector
    BY DEF IInv, TypeOK, Op, Slot, SlotOf
<1>2. \A n \in Sector : SlotOf(n) \in Slots
    BY SlotOfSector DEF SlotOf
<1>3. \A s \in Slots : cache[s].sector \in Sector /\ cache[s].content \in [Idx -> Word]
    BY DEF IInv, TypeOK, Content
<1> QED BY <1>1, <1>2, <1>3 DEF IInv, SlotInv, SlotOf

\* A word that waits lies in a sector.
LEMMA PendingPlace ==
    ASSUME IInv, NEW x \in pending
    PROVE  x[1] \in Sector /\ x[2] \in Idx /\ x = <<x[1], x[2]>>
BY DEF IInv, TypeOK

\* What the guest wrote: init_ide finds it on the disk.
LEMMA InitLatest == Init => Latest
<1> SUFFICES ASSUME Init PROVE Latest
    OBVIOUS
<1>1. \A n \in Sector : ~Held(n)
    BY SlotOfSector DEF Init, Held, SlotOf
<1> QED BY <1>1
           DEF Init, Latest, CacheLatest, DiskLatest, Kept, PendingInv, Reading, WriteInv,
               ReadInv

\* A write-back between two accesses: every dirty slot is given to the device.
LEMMA TickLatest == ASSUME IInv, Latest, Tick, apart' PROVE Latest'
<1>1. /\ UNCHANGED <<disk, pc, op, i, want, evicted>> /\ pending' \subseteq pending
    BY DEF Tick, KeepHistory, DropHistory, CacheWriteback, WrittenBack, device, history
<1>2. CASE ~(counter + 1 = WB_TICKS /\ ~WaitsForDisk /\ Dirty # {})
    <2>1. UNCHANGED <<fpos, ide_write, lba, cache>>
        BY <1>2 DEF Tick, device
    <2> QED BY <1>1, <2>1 DEF Latest, CacheLatest, DiskLatest, PendingInv, WriteInv, ReadInv,
               Held, Slot, Kept
<1>3. CASE counter + 1 = WB_TICKS /\ ~WaitsForDisk /\ Dirty # {}
    <2>1. CacheWriteback /\ pc = "idle" /\ pending' = WrittenBack
        BY <1>3 DEF Tick, DropHistory
    <2>2. ASSUME NEW s \in Slots
          PROVE  /\ cache'[s].used = cache[s].used /\ cache'[s].sector = cache[s].sector
                 /\ cache'[s].content = cache[s].content
        BY <2>1 DEF CacheWriteback, IInv, TypeOK
    <2>3. CacheLatest' /\ DiskLatest'
        BY <1>1, <2>1, <2>2, Places DEF Latest, CacheLatest, DiskLatest, Held, Kept
    <2>4. pending' = {}
        <3> SUFFICES ASSUME NEW x \in pending, x \in WrittenBack PROVE FALSE
            BY <1>1, <2>1
        <3> DEFINE s == SlotOf(x[1])
        <3>1. x[1] \in Sector /\ x[2] \in Idx /\ x = <<x[1], x[2]>>
            BY PendingPlace
        <3>2. Held(x[1]) /\ cache[s].dirty /\ x \notin evicted
            BY DEF Latest, PendingInv
        <3>3. s \in Dirty /\ cache[s].sector = x[1]
            BY <3>1, <3>2, Places DEF Dirty, Held
        <3>4. cache[s].content[x[2]] = want[x[1]][x[2]]
            BY <2>1, <3>1, <3>2 DEF Latest, CacheLatest, Kept
        <3> QED BY <3>3, <3>4 DEF WrittenBack
    <2> QED BY <1>1, <2>1, <2>3, <2>4 DEF Latest, PendingInv, Reading, WriteInv, ReadInv
<1> QED BY <1>2, <1>3

\* ide_intr sets the flag.
LEMMA IdeIntrLatest == ASSUME Latest, IdeIntr PROVE Latest'
BY DEF IdeIntr, device, history, Latest, CacheLatest, DiskLatest, PendingInv, WriteInv,
       ReadInv, Held, Slot, Kept

\* A slot that is not dirty holds no word that waits for the device.
LEMMA CallLatest == ASSUME IInv, Latest, Call PROVE Latest'
<1>1. PICK o \in Op : op' = o /\ pc' = CacheFetch(o)
    BY DEF Call
<1>2. /\ UNCHANGED <<disk, fpos, ide_write, lba, cache, want, pending, evicted>>
      /\ pc = "idle" /\ o.sector \in Sector
    BY DEF Call, device, kernel, history, At, Op
<1>3. Slot' = SlotOf(o.sector)
    BY <1>1 DEF Slot, SlotOf
<1>4. pc' \in {"access", "w_prepare", "r_clear"}
    BY <1>1 DEF CacheFetch
<1>5. pc' = "w_prepare" => cache[Slot'].used /\ cache[Slot'].dirty /\ ~Held(o.sector)
    BY <1>1, <1>3 DEF CacheFetch, SlotOf, Held
<1>6. pc' = "r_clear" => ~(cache[Slot'].used /\ cache[Slot'].dirty) /\ ~Held(o.sector)
    BY <1>1, <1>3 DEF CacheFetch, SlotOf, Held
<1>7. CacheLatest' /\ DiskLatest'
    BY <1>2, <1>4 DEF Latest, CacheLatest, DiskLatest, Held, Kept
<1>8. PendingInv'
    BY <1>2, <1>4, <1>6 DEF Latest, PendingInv, Reading, Held
<1>9. \A n \in Sector : Held(n)' = Held(n)
    BY <1>2 DEF Held
<1> QED BY <1>1, <1>2, <1>4, <1>5, <1>6, <1>7, <1>8, <1>9
        DEF Latest, Reading, WriteInv, ReadInv

\* The sector number of the victim goes to the ports.
LEMMA WritePrepareLatest == ASSUME Latest, WritePrepare PROVE Latest'
BY DEF WritePrepare, IdePrepare, At, kernel, history, Latest, CacheLatest, DiskLatest,
       PendingInv, Reading, WriteInv, ReadInv, Held, Slot, Kept

\* Command 0x30 seeks to the sector of the victim.
LEMMA IssueWriteLatest == ASSUME IInv, Latest, IssueWrite PROVE Latest'
<1>1. /\ fpos' = lba * WORDS /\ i' = 0 /\ pc' = "w_data" /\ pc = "w_issue"
      /\ UNCHANGED <<disk, op, want, pending, evicted, cache>>
    BY DEF IssueWrite, WriteCommand, Seek, At, kernel, history
<1>2. /\ lba = cache[Slot].sector /\ cache[Slot].used /\ cache[Slot].dirty /\ Slot' = Slot
      /\ ~Held(op.sector) /\ (Held(op.sector))' = Held(op.sector)
    BY <1>1 DEF Latest, WriteInv, Slot, Held
<1>3. CacheLatest' /\ DiskLatest'
    BY <1>1 DEF Latest, CacheLatest, DiskLatest, Held, Kept
<1>4. PendingInv'
    <2>1. \A x \in pending : 0 <= x[2]
        BY PendingPlace, SizeAssumption DEF Idx
    <2> QED BY <1>1, <1>2, <2>1 DEF Latest, PendingInv, Reading, Held
<1> QED BY <1>1, <1>2, <1>3, <1>4 DEF Latest, Reading, WriteInv, ReadInv

\* A word of the victim is given to the device at its own place.
LEMMA WriteDataLatest == ASSUME IInv, Latest, WriteData PROVE Latest'
<1> DEFINE k == cache[Slot].sector
           c == cache[Slot].content
<1>1. /\ pc = "w_data" /\ fpos = k * WORDS /\ cache[Slot].used /\ cache[Slot].dirty
      /\ i \in Idx /\ i \in Nat /\ i < WORDS /\ word_cnt = i /\ ~Held(op.sector)
    BY SizeAssumption
       DEF WriteData, At, Latest, WriteInv, IInv, TypeOK, TransferInv, Idx
<1>2. k \in Sector /\ SlotOf(k) = Slot /\ Held(k)
    BY <1>1, Places DEF Held
<1>3. fpos \div WORDS = k
    <2> HIDE DEF k
    <2>1. k * WORDS = k * WORDS + 0 /\ 0 \in 0 .. WORDS /\ 0 < WORDS
        BY <1>2, SizeAssumption DEF Sector
    <2> QED BY <1>1, <1>2, <2>1, Position
<1>4. /\ pending' = {x \in pending : x # <<k, i>> \/ want[x[1]][x[2]] # c[i]}
      /\ i' = i + 1 /\ pc' = IF i + 1 = WORDS THEN "r_clear" ELSE "w_data"
      /\ UNCHANGED <<disk, fpos, op, want, evicted, cache>> /\ Slot' = Slot
    BY <1>1, <1>3 DEF WriteData, OutLong, Given, kernel, Slot
<1>5. CacheLatest' /\ DiskLatest'
    BY <1>1, <1>4 DEF Latest, CacheLatest, DiskLatest, Held, Kept
<1>6. PendingInv'
    <2> SUFFICES ASSUME NEW x \in pending'
                 PROVE  /\ Held(x[1])' /\ cache'[SlotOf(x[1])].dirty /\ x \notin evicted'
                        /\ SlotOf(x[1]) = Slot => /\ pc' \notin Reading
                                                  /\ pc' = "w_data" => i' <= x[2]
        BY <1>4 DEF PendingInv
    <2>1. x \in pending /\ Held(x[1]) /\ cache[SlotOf(x[1])].dirty /\ x \notin evicted
        BY <1>4 DEF Latest, PendingInv
    <2>2. ASSUME SlotOf(x[1]) = Slot PROVE i + 1 <= x[2] /\ i + 1 # WORDS
        <3>1. x[1] = k /\ i <= x[2] /\ x[2] \in Idx /\ x = <<x[1], x[2]>>
            BY <1>1, <2>1, <2>2, PendingPlace DEF Held, Latest, PendingInv
        <3>2. x # <<k, i>>
            <4> SUFFICES ASSUME x = <<k, i>> PROVE FALSE
                OBVIOUS
            <4>1. c[i] = Kept(k, i)
                BY <1>1, <1>2 DEF Latest, CacheLatest
            <4>2. c[i] = want[k][i]
                BY <2>1, <4>1 DEF Kept
            <4> QED BY <1>4, <4>2, <2>1
        <3>3. x[2] # i
            BY <3>1, <3>2
        <3> QED BY <1>1, <3>1, <3>3, SizeAssumption DEF Idx
    <2> QED BY <1>4, <2>1, <2>2 DEF Held, Reading
<1>7. (Held(op.sector))' = Held(op.sector)
    BY <1>4 DEF Held
<1> QED BY <1>1, <1>4, <1>5, <1>6, <1>7 DEF Latest, Reading, WriteInv, ReadInv

\* The flag of an earlier interrupt is cleared.
LEMMA ClearIdeIntrLatest == ASSUME Latest, ClearIdeIntr PROVE Latest'
BY DEF ClearIdeIntr, At, device, history, Latest, CacheLatest, DiskLatest, PendingInv,
       Reading, WriteInv, ReadInv, Held, Slot, Kept

\* The sector number goes to the ports.
LEMMA ReadPrepareLatest == ASSUME Latest, ReadPrepare PROVE Latest'
BY DEF ReadPrepare, IdePrepare, At, kernel, history, Latest, CacheLatest, DiskLatest,
       PendingInv, Reading, WriteInv, ReadInv, Held, Slot, Kept

\* Command 0x20 seeks to the sector.
LEMMA IssueReadLatest == ASSUME IInv, Latest, IssueRead PROVE Latest'
<1>1. /\ fpos' = lba * WORDS /\ i' = 0 /\ pc' = "r_wait" /\ pc = "r_issue"
      /\ ide_write' = FALSE /\ UNCHANGED <<disk, op, want, pending, evicted, cache>>
    BY DEF IssueRead, ReadCommand, Seek, At, kernel, history
<1>2. lba = op.sector /\ Slot' = Slot /\ ~Held(op.sector) /\ (Held(op.sector))' = Held(op.sector)
    BY <1>1 DEF Latest, ReadInv, Reading, Slot, Held
<1>3. lba * WORDS = lba * WORDS + 0
    BY SizeAssumption DEF IInv, TypeOK, Sector
<1>4. CacheLatest' /\ DiskLatest' /\ PendingInv'
    BY <1>1, <1>2 DEF Latest, CacheLatest, DiskLatest, PendingInv, Reading, Held, Kept
<1> QED BY <1>1, <1>2, <1>3, <1>4 DEF Latest, WriteInv, ReadInv

\* wait_ide_intr ends.
LEMMA WaitIdeIntrLatest == ASSUME IInv, Latest, WaitIdeIntr PROVE Latest'
<1>1. /\ pc = "r_wait" /\ pc' = "r_data"
      /\ UNCHANGED <<disk, fpos, ide_write, cache, op, i, want, pending, evicted>>
    BY DEF WaitIdeIntr, At, device, history
<1>2. CacheLatest' /\ DiskLatest' /\ PendingInv' /\ WriteInv'
    BY <1>1 DEF Latest, CacheLatest, DiskLatest, PendingInv, Reading, WriteInv, Held, Kept,
                Slot
<1> QED BY <1>1, <1>2 DEF Latest, Reading, ReadInv, Slot, Held

\* A word of the disk reaches the slot.
LEMMA ReadDataLatest == ASSUME IInv, Latest, ReadData PROVE Latest'
<1>1. /\ pc = "r_data" /\ fpos = op.sector * WORDS + i /\ ~ide_write
      /\ i \in Idx /\ i \in Nat /\ i < WORDS
    BY SizeAssumption
       DEF ReadData, At, Latest, ReadInv, IInv, TypeOK, TransferInv, Idx
<1>2. InWord = disk[op.sector][i]
    <2>1. i \in 0 .. WORDS
        BY <1>1, SizeAssumption
    <2>2. fpos \div WORDS = op.sector /\ fpos % WORDS = i
        BY <1>1, <2>1, Places, Position
    <2> QED BY <2>2 DEF InWord
<1>3. /\ cache' = [cache EXCEPT ![Slot].content[i] = disk[op.sector][i]]
      /\ fpos' = fpos + 1 /\ i' = i + 1
      /\ pc' = IF i + 1 = WORDS THEN "r_done" ELSE "r_data"
      /\ UNCHANGED <<disk, ide_write, op, want, pending, evicted>> /\ Slot' = Slot
    BY <1>2 DEF ReadData, InLong, history, Slot
<1>4. fpos' = op.sector * WORDS + (i + 1)
    <2>1. op.sector * WORDS \in Nat
        BY Places, SizeAssumption DEF Sector
    <2> QED BY <1>1, <1>3, <2>1
<1>5. \A s \in Slots : /\ cache'[s].used = cache[s].used /\ cache'[s].dirty = cache[s].dirty
                       /\ cache'[s].sector = cache[s].sector
                       /\ s # Slot => cache'[s].content = cache[s].content
    BY <1>3, Places DEF IInv, TypeOK
<1>6. /\ cache'[Slot].content = [cache[Slot].content EXCEPT ![i] = disk[op.sector][i]]
      /\ cache[Slot].content \in [Idx -> Word] /\ disk[op.sector] \in [Idx -> Word]
    BY <1>3, Places DEF IInv, TypeOK, Content
<1>7. ASSUME NEW j \in 0 .. i PROVE cache'[Slot].content[j] = disk[op.sector][j]
    <2>1. j \in Idx /\ (j # i => j \in 0 .. i - 1)
        BY <1>1, SizeAssumption DEF Idx
    <2>2. j # i => cache[Slot].content[j] = disk[op.sector][j]
        BY <1>1, <2>1 DEF Latest, ReadInv
    <2> QED BY <1>1, <1>6, <2>1, <2>2
<1>8. i + 1 = WORDS => cache'[Slot].content = disk[op.sector]
    <2> SUFFICES ASSUME i + 1 = WORDS PROVE cache'[Slot].content = disk[op.sector]
        OBVIOUS
    <2>1. \A j \in Idx : cache'[Slot].content[j] = disk[op.sector][j]
        BY <1>1, <1>7 DEF Idx
    <2>2. cache'[Slot].content \in [Idx -> Word]
        BY <1>1, <1>6
    <2> QED BY <1>6, <2>1, <2>2
<1>9. ASSUME NEW n \in Sector
      PROVE  /\ Held(n)' = Held(n) /\ SlotOf(n) \in Slots
             /\ SlotOf(n) # Slot =>
                   cache'[SlotOf(n)].content = cache[SlotOf(n)].content
    BY <1>5, Places DEF Held
<1>10. CacheLatest'
    <2> SUFFICES ASSUME NEW n \in Sector, NEW j \in Idx, Held(n)', SlotOf(n) # Slot
                 PROVE  cache'[SlotOf(n)].content[j] = Kept(n, j)'
        BY <1>3 DEF CacheLatest
    <2>1. cache[SlotOf(n)].content[j] = Kept(n, j)
        BY <1>9 DEF Latest, CacheLatest
    <2> QED BY <1>3, <1>9, <2>1 DEF Kept
<1>11. DiskLatest'
    BY <1>3, <1>9 DEF Latest, DiskLatest, Kept
<1>12. PendingInv'
    <2>1. ASSUME NEW x \in pending
          PROVE  /\ Held(x[1]) /\ cache[SlotOf(x[1])].dirty /\ x \notin evicted
                 /\ SlotOf(x[1]) # Slot /\ x[1] \in Sector
        BY <1>1, PendingPlace DEF Latest, PendingInv, Reading
    <2>2. ASSUME NEW x \in pending
          PROVE  Held(x[1])' /\ cache'[SlotOf(x[1])].dirty
        BY <1>5, <1>9, <2>1
    <2> QED BY <1>3, <2>1, <2>2 DEF PendingInv
<1>13. WriteInv'
    BY <1>3 DEF WriteInv
<1>14. ReadInv'
    <2>1. ~Held(op.sector)'
        BY <1>1, <1>3, <1>9, Places DEF Latest, ReadInv, Reading
    <2> QED BY <1>1, <1>3, <1>4, <1>7, <1>8, <2>1 DEF Reading, ReadInv
<1> QED BY <1>3, <1>10, <1>11, <1>12, <1>13, <1>14 DEF Latest

\* The slot is in use for the sector that was read, and no longer for the victim.
LEMMA ReadDoneLatest == ASSUME IInv, Latest, ReadDone, apart PROVE Latest'
<1>1. /\ cache' = [cache EXCEPT ![Slot].used = TRUE, ![Slot].sector = op.sector,
                                ![Slot].dirty = FALSE]
      /\ pc = "r_done" /\ pc' = "access" /\ UNCHANGED <<disk, want, pending, op>>
      /\ evicted' = evicted \cup Evicted
    BY DEF ReadDone, At, device
<1>2. /\ cache'[Slot].used /\ ~cache'[Slot].dirty /\ cache'[Slot].sector = op.sector
      /\ cache'[Slot].content = cache[Slot].content
      /\ \A s \in Slots \ {Slot} : cache'[s] = cache[s]
    BY <1>1, Places DEF IInv, TypeOK
<1>3. ~Held(op.sector) /\ cache[Slot].content = disk[op.sector]
    BY <1>1 DEF Latest, ReadInv, Reading
<1>4. ASSUME NEW n \in Sector, NEW j \in Idx
      PROVE  Kept(n, j)' = IF SlotOf(n) = Slot /\ Held(n) THEN disk[n][j] ELSE Kept(n, j)
    <2>1. <<n, j>> \in Evicted <=> SlotOf(n) = Slot /\ Held(n)
        BY Places DEF Evicted, Held
    <2> QED BY <1>1, <2>1 DEF Kept
<1>5. ASSUME NEW n \in Sector, NEW j \in Idx, SlotOf(n) = Slot
      PROVE  disk[n][j] = Kept(n, j)'
    BY <1>4, <1>5 DEF Latest, DiskLatest
<1>6. CacheLatest'
    <2> SUFFICES ASSUME NEW n \in Sector, NEW j \in Idx, Held(n)'
                 PROVE  cache'[SlotOf(n)].content[j] = Kept(n, j)'
        BY DEF CacheLatest
    <2>1. CASE SlotOf(n) = Slot
        <3>1. n = op.sector
            BY <1>2, <2>1 DEF Held
        <3> QED BY <1>2, <1>3, <1>5, <2>1, <3>1
    <2>2. CASE SlotOf(n) # Slot
        <3>1. SlotOf(n) \in Slots \ {Slot}
            BY <2>2, Places
        <3>2. Held(n)
            BY <1>2, <3>1 DEF Held
        <3>3. cache[SlotOf(n)].content[j] = Kept(n, j)
            BY <2>2, <3>2 DEF Latest, CacheLatest
        <3> QED BY <1>2, <1>4, <2>2, <3>1, <3>3
    <2> QED BY <2>1, <2>2
<1>7. DiskLatest'
    <2> SUFFICES ASSUME NEW n \in Sector, NEW j \in Idx, ~Held(n)'
                 PROVE  disk[n][j] = Kept(n, j)'
        BY <1>1 DEF DiskLatest
    <2>1. CASE SlotOf(n) = Slot
        BY <1>5, <2>1
    <2>2. CASE SlotOf(n) # Slot
        <3>1. ~Held(n)
            BY <1>2, <2>2, Places DEF Held
        <3> QED BY <1>4, <2>2, <3>1 DEF Latest, DiskLatest
    <2> QED BY <2>1, <2>2
<1>8. PendingInv'
    <2> SUFFICES ASSUME NEW x \in pending
                 PROVE  Held(x[1])' /\ cache'[SlotOf(x[1])].dirty /\ x \notin evicted'
        BY <1>1 DEF PendingInv, Reading
    <2>1. /\ Held(x[1]) /\ cache[SlotOf(x[1])].dirty /\ x \notin evicted
          /\ SlotOf(x[1]) # Slot /\ x[1] \in Sector /\ x = <<x[1], x[2]>>
        BY <1>1, PendingPlace DEF Latest, PendingInv, Reading
    <2>2. x \notin Evicted
        BY <2>1, Places DEF Evicted
    <2>3. cache'[SlotOf(x[1])] = cache[SlotOf(x[1])]
        BY <1>2, <2>1, Places
    <2> QED BY <1>1, <2>1, <2>2, <2>3 DEF Held
<1> QED BY <1>1, <1>6, <1>7, <1>8 DEF Latest, Reading, WriteInv, ReadInv

\* write_byte changes its slot and marks it dirty.
LEMMA AccessLatest == ASSUME IInv, Latest, Access, apart PROVE Latest'
<1>1. pc = "access" /\ pc' = "idle" /\ UNCHANGED disk
    BY DEF Access, At, device
<1>2. CASE op.write
    <2> DEFINE k == op.sector
               x == <<op.sector, op.idx>>
    <2>1. /\ cache' = [cache EXCEPT ![Slot].content[op.idx] = op.data, ![Slot].dirty = TRUE]
          /\ want' = [want EXCEPT ![k][op.idx] = op.data]
          /\ pending' = pending \cup {x} /\ evicted' = evicted \ {x}
        BY <1>2 DEF Access, RecordWrite
    <2>2. /\ cache'[Slot].used = cache[Slot].used /\ cache'[Slot].dirty
          /\ cache'[Slot].sector = cache[Slot].sector
          /\ cache'[Slot].content = [cache[Slot].content EXCEPT ![op.idx] = op.data]
          /\ \A s \in Slots \ {Slot} : cache'[s] = cache[s]
        BY <2>1, Places DEF IInv, TypeOK
    <2>3. op.idx \in Idx /\ k \in Sector /\ SlotOf(k) = Slot /\ Held(k)
        BY <1>1, Places DEF Held, IInv, TypeOK, Op
    <2>4. ASSUME NEW n \in Sector
          PROVE  Held(n)' = Held(n) /\ (SlotOf(n) = Slot /\ Held(n) => n = k)
        BY <2>2, <2>3, Places DEF Held
    <2>5. ASSUME NEW n \in Sector, NEW j \in Idx
          PROVE  Kept(n, j)' = IF n = k /\ j = op.idx THEN op.data ELSE Kept(n, j)
        <3>1. want \in [Sector -> [Idx -> Word]]
            BY DEF IInv, TypeOK, Content
        <3>2. want'[n][j] = IF n = k /\ j = op.idx THEN op.data ELSE want[n][j]
            BY <2>1, <2>3, <3>1
        <3> QED BY <1>1, <2>1, <2>3, <3>2 DEF Kept
    <2>6. CacheLatest'
        <3> SUFFICES ASSUME NEW n \in Sector, NEW j \in Idx, Held(n)
                     PROVE  cache'[SlotOf(n)].content[j] = Kept(n, j)'
            BY <2>4 DEF CacheLatest
        <3>1. cache[SlotOf(n)].content[j] = Kept(n, j)
            BY <1>1 DEF Latest, CacheLatest
        <3>2. CASE n = k
            <4>1. cache'[Slot].content[j] = IF j = op.idx THEN op.data ELSE cache[Slot].content[j]
                BY <2>2, <2>3, Places
            <4> QED BY <2>3, <2>5, <3>1, <3>2, <4>1
        <3>3. CASE n # k
            <4>1. SlotOf(n) \in Slots \ {Slot}
                BY <2>4, <3>3, Places
            <4> QED BY <2>2, <2>5, <3>1, <3>3, <4>1
        <3> QED BY <3>2, <3>3
    <2>7. DiskLatest'
        <3> SUFFICES ASSUME NEW n \in Sector, NEW j \in Idx, ~Held(n)
                     PROVE  disk[n][j] = Kept(n, j)'
            BY <1>1, <2>4 DEF DiskLatest
        <3> QED BY <2>3, <2>5 DEF Latest, DiskLatest
    <2>8. PendingInv'
        <3> SUFFICES ASSUME NEW y \in pending \cup {x}
                     PROVE  Held(y[1])' /\ cache'[SlotOf(y[1])].dirty /\ y \notin evicted'
            BY <1>1, <2>1 DEF PendingInv, Reading
        <3>1. CASE y = x
            BY <2>1, <2>2, <2>3, <2>4, <3>1
        <3>2. CASE y # x
            <4>1. /\ Held(y[1]) /\ cache[SlotOf(y[1])].dirty /\ y \notin evicted
                  /\ y[1] \in Sector
                BY <3>2, PendingPlace DEF Latest, PendingInv
            <4> QED BY <2>1, <2>2, <2>4, <4>1, Places
        <3> QED BY <3>1, <3>2
    <2> QED BY <1>1, <2>6, <2>7, <2>8 DEF Latest, Reading, WriteInv, ReadInv
<1>3. CASE ~op.write
    BY <1>1, <1>3
       DEF Access, RecordWrite, Latest, CacheLatest, DiskLatest, PendingInv, Reading,
           WriteInv, ReadInv, Held, Kept
<1> QED BY <1>2, <1>3

\* handler_ide meets no foreign transfer.
LEMMA AssertFailsLatest == ASSUME IInv, Latest, AssertFails PROVE FALSE
<1>1. pc = "r_data" /\ ~ide_write /\ word_cnt = i /\ i < WORDS
    BY AssertFailsIInv DEF Latest, ReadInv, IInv, TransferInv
<1> QED BY <1>1, SizeAssumption DEF AssertFails, TransferOK, IInv, TypeOK

\* The data is right in every state that a write-back inside the driver has not reached.
LEMMA NextLatest == IInv /\ DataInv /\ [Next]_vars => DataInv'
<1> SUFFICES ASSUME IInv, DataInv, [Next]_vars, apart' PROVE Latest'
    BY DEF DataInv
<1>1. CASE UNCHANGED vars
    BY <1>1
       DEF vars, DataInv, Latest, CacheLatest, DiskLatest, PendingInv, WriteInv, ReadInv,
           Held, Slot, Kept
<1>2. CASE Tick
    <2>1. apart
        BY <1>2 DEF Tick, IInv, TypeOK, history
    <2> QED BY <1>2, <2>1, TickLatest DEF DataInv
<1>3. CASE IdeIntr \/ Call
    <2>1. apart
        BY <1>3 DEF IdeIntr, Call, history
    <2> QED BY <1>3, <2>1, IdeIntrLatest, CallLatest DEF DataInv
<1>4. CASE Driver
    <2>1. apart
        BY <1>4
           DEF Driver, WritePrepare, IdePrepare, IssueWrite, WriteData, ClearIdeIntr,
               ReadPrepare, IssueRead, WaitIdeIntr, ReadData, ReadDone, Access, AssertFails,
               history
    <2>2. Latest
        BY <2>1 DEF DataInv
    <2> QED BY <1>4, <2>1, <2>2, WritePrepareLatest, IssueWriteLatest, WriteDataLatest,
               ClearIdeIntrLatest, ReadPrepareLatest, IssueReadLatest, WaitIdeIntrLatest,
               ReadDataLatest, ReadDoneLatest, AccessLatest, AssertFailsLatest DEF Driver
<1> QED BY <1>1, <1>2, <1>3, <1>4 DEF Next

\* Until a write-back comes inside the driver, a sector reads as the guest last wrote it
\* as long as its slot is not taken, and as the image afterwards; every word written is
\* given to the device at its place before its slot is marked clean or taken; and no
\* assert of handler_ide fails: for every number of sectors, of slots and of words of a
\* sector.
THEOREM DriverIsCorrect == Spec => []DriverCorrect
<1>1. IInv /\ DataInv => DriverCorrect
    <2> SUFFICES ASSUME IInv, DataInv PROVE DriverCorrect
        OBVIOUS
    <2>1. ASSUME apart, pc = "idle", NEW n \in Sector, NEW j \in Idx
          PROVE  Current(n)[j] = Kept(n, j)
        BY <2>1 DEF DataInv, Latest, CacheLatest, DiskLatest, Current, Held, SlotOf
    <2>2. ASSUME apart, pc = "access"
          PROVE  cache[Slot].content[op.idx] = Kept(op.sector, op.idx)
        <3>1. /\ Held(op.sector) /\ Slot = SlotOf(op.sector) /\ op.sector \in Sector
              /\ op.idx \in Idx
            BY <2>2, Places DEF Held, IInv, TypeOK, Op
        <3> QED BY <2>2, <3>1 DEF DataInv, Latest, CacheLatest
    <2>3. ASSUME apart, pc = "idle", NEW x \in pending
          PROVE  \E s \in Dirty : /\ cache[s].sector = x[1]
                                  /\ cache[s].content[x[2]] = want[x[1]][x[2]]
        <3> DEFINE s == SlotOf(x[1])
        <3>1. x[1] \in Sector /\ x[2] \in Idx /\ x = <<x[1], x[2]>>
            BY PendingPlace
        <3>2. Held(x[1]) /\ cache[s].dirty /\ x \notin evicted
            BY <2>3 DEF DataInv, Latest, PendingInv
        <3>3. s \in Dirty /\ cache[s].sector = x[1]
            BY <3>1, <3>2, Places DEF Dirty, Held
        <3>4. cache[s].content[x[2]] = want[x[1]][x[2]]
            BY <2>3, <3>1, <3>2 DEF DataInv, Latest, CacheLatest, Kept
        <3> QED BY <3>3, <3>4
    <2>4. ReadsKept /\ NothingForgotten
        BY <2>1, <2>2, <2>3 DEF ReadsKept, NothingForgotten
    <2>5. TransfersInPlace
        BY DEF DataInv, Latest, WriteInv, ReadInv, IInv, TransferInv, TransfersInPlace
    <2>6. NoAssertFailure
        BY DEF DataInv, Latest, NoAssertFailure
    <2> QED BY <2>4, <2>5, <2>6 DEF DriverCorrect, IInv
<1>2. Init => DataInv
    BY InitLatest DEF DataInv
<1> QED BY <1>1, <1>2, InitIInv, NextIInv, NextLatest, PTL DEF Spec

-----------------------------------------------------------------------------
(* Reads that a write-back may have disturbed.                             *)

\* As long as the device is in read mode, the words that have arrived are those of the
\* sector that its stream is in, whichever that is.
WholeInv ==
    /\ pc = "r_wait" /\ ~ide_write => i = 0
    /\ pc = "r_data" /\ ~ide_write => \E n \in Sector :
          /\ fpos = n * WORDS + i
          /\ \A j \in 0 .. i - 1 : cache[Slot].content[j] = disk[n][j]
    /\ pc = "r_done" => \E n \in Sector : cache[Slot].content = disk[n]

\* The timer: a write-back ends the read mode and leaves the contents alone.
LEMMA TickWhole == ASSUME IInv, WholeInv, Tick PROVE WholeInv'
<1>1. UNCHANGED <<pc, op, i>> /\ Slot' = Slot /\ Slot \in Slots
    BY SlotOfSector DEF Tick, IInv, TypeOK, Slot, Op
<1>2. CASE UNCHANGED device /\ UNCHANGED cache
    BY <1>1, <1>2 DEF WholeInv, device
<1>3. CASE CacheWriteback
    <2>1. ide_write' = TRUE /\ UNCHANGED disk
        BY <1>3 DEF CacheWriteback
    <2>2. cache'[Slot].content = cache[Slot].content
        BY <1>1, <1>3 DEF CacheWriteback, IInv, TypeOK
    <2> QED BY <1>1, <2>1, <2>2 DEF WholeInv
<1> QED BY <1>2, <1>3 DEF Tick

\* A word of the image goes to the slot.
LEMMA ReadDataWhole == ASSUME IInv, WholeInv, ReadData PROVE WholeInv'
<1>1. pc = "r_data" /\ ~ide_write /\ i \in Idx /\ i \in Nat /\ i < WORDS
    BY SizeAssumption DEF ReadData, At, TransferOK, IInv, TypeOK, TransferInv, Idx
<1>2. PICK n \in Sector : /\ fpos = n * WORDS + i
                          /\ \A j \in 0 .. i - 1 : cache[Slot].content[j] = disk[n][j]
    BY <1>1 DEF WholeInv
<1>3. InWord = disk[n][i]
    <2>1. i \in 0 .. WORDS
        BY <1>1, SizeAssumption
    <2>2. fpos \div WORDS = n /\ fpos % WORDS = i
        BY <1>1, <1>2, <2>1, Position
    <2> QED BY <2>2 DEF InWord
<1>4. /\ cache' = [cache EXCEPT ![Slot].content[i] = disk[n][i]]
      /\ fpos' = fpos + 1 /\ i' = i + 1
      /\ pc' = IF i + 1 = WORDS THEN "r_done" ELSE "r_data"
      /\ UNCHANGED <<disk, ide_write, op>> /\ Slot' = Slot
    BY <1>3 DEF ReadData, InLong, Slot
<1>5. fpos' = n * WORDS + (i + 1)
    <2>1. n * WORDS \in Nat
        BY SizeAssumption DEF Sector
    <2> QED BY <1>1, <1>2, <1>4, <2>1
<1>6. /\ cache'[Slot].content = [cache[Slot].content EXCEPT ![i] = disk[n][i]]
      /\ cache[Slot].content \in [Idx -> Word] /\ disk[n] \in [Idx -> Word]
    <2>1. Slot \in Slots
        BY SlotOfSector DEF IInv, TypeOK, Slot, Op
    <2> QED BY <1>4, <2>1 DEF IInv, TypeOK, Content
<1>7. ASSUME NEW j \in 0 .. i PROVE cache'[Slot].content[j] = disk[n][j]
    <2>1. j \in Idx /\ (j # i => j \in 0 .. i - 1)
        BY <1>1, SizeAssumption DEF Idx
    <2> QED BY <1>1, <1>2, <1>6, <2>1
<1>8. i + 1 = WORDS => cache'[Slot].content = disk[n]
    <2> SUFFICES ASSUME i + 1 = WORDS PROVE cache'[Slot].content = disk[n]
        OBVIOUS
    <2>1. \A j \in Idx : cache'[Slot].content[j] = disk[n][j]
        BY <1>1, <1>7 DEF Idx
    <2>2. cache'[Slot].content \in [Idx -> Word]
        BY <1>1, <1>6
    <2> QED BY <1>6, <2>1, <2>2
<1>9. CASE i + 1 = WORDS
    <2>1. pc' = "r_done"
        BY <1>4, <1>9
    <2> QED BY <1>4, <1>8, <1>9, <2>1 DEF WholeInv
<1>10. CASE i + 1 # WORDS
    <2>1. pc' = "r_data" /\ i' - 1 = i
        BY <1>1, <1>4, <1>10
    <2> QED BY <1>4, <1>5, <1>7, <2>1 DEF WholeInv
<1> QED BY <1>9, <1>10

\* No step mixes two sectors.
LEMMA NextWhole == IInv /\ WholeInv /\ [Next]_vars => WholeInv'
<1> SUFFICES ASSUME IInv, WholeInv, [Next]_vars PROVE WholeInv'
    OBVIOUS
<1>1. CASE UNCHANGED vars
    BY <1>1 DEF vars, WholeInv, Slot
<1>2. CASE IdeIntr
    BY <1>2 DEF IdeIntr, device, WholeInv, Slot
<1>3. CASE Call
    BY <1>3 DEF Call, CacheFetch, WholeInv
<1>4. CASE Driver
    <2>1. CASE WritePrepare \/ IssueWrite \/ WriteData \/ ClearIdeIntr \/ ReadPrepare
               \/ ReadDone \/ Access \/ AssertFails
        BY <2>1 DEF WritePrepare, IdePrepare, IssueWrite, WriteData, ClearIdeIntr, ReadPrepare,
                    ReadDone, Access, AssertFails, WholeInv
    <2>2. CASE IssueRead
        BY <2>2 DEF IssueRead, WholeInv
    <2>3. CASE WaitIdeIntr
        <3>1. /\ pc = "r_wait" /\ pc' = "r_data"
              /\ UNCHANGED <<disk, fpos, ide_write, i, cache, op>>
            BY <2>3 DEF WaitIdeIntr, At, device
        <3>2. ~ide_write => i = 0 /\ \E n \in Sector : fpos = n * WORDS + i
            BY <3>1 DEF WholeInv, IInv, TransferInv
        <3> QED BY <3>1, <3>2 DEF WholeInv
    <2>4. CASE ReadData
        BY <2>4, ReadDataWhole
    <2> QED BY <1>4, <2>1, <2>2, <2>3, <2>4 DEF Driver
<1> QED BY <1>1, <1>2, <1>3, <1>4, TickWhole DEF Next

\* Wherever the timer interrupts the driver, a read that returns has filled its slot with
\* one whole sector of the image, and with the one asked for if no write-back came inside
\* the driver.
THEOREM ReadsAreWhole == Spec => []ReadsWhole
<1>1. Init => WholeInv
    BY DEF Init, WholeInv
<1>2. IInv /\ DataInv /\ WholeInv => ReadsWhole
    <2> SUFFICES ASSUME IInv, DataInv, WholeInv, pc = "r_done"
                 PROVE  \E n \in Sector : /\ cache[Slot].content = disk[n]
                                          /\ apart => n = op.sector
        BY DEF ReadsWhole
    <2>1. CASE apart
        <3>1. op.sector \in Sector
            BY DEF IInv, TypeOK, Op
        <3>2. cache[Slot].content = disk[op.sector]
            BY <2>1 DEF DataInv, Latest, ReadInv
        <3> QED BY <3>1, <3>2
    <2>2. CASE ~apart
        BY <2>2 DEF WholeInv
    <2> QED BY <2>1, <2>2
<1>3. Init => DataInv
    BY InitLatest DEF DataInv
<1> QED BY <1>1, <1>2, <1>3, InitIInv, NextIInv, NextLatest, NextWhole, PTL DEF Spec

\* The two together: what holds of the driver with the timer anywhere.
THEOREM AnywhereIsSound == Spec => []AnywhereSound
<1>1. SpinsOnlyInWrite /\ ReadsWhole => AnywhereSound
    BY DEF AnywhereSound
<1> QED BY <1>1, HangsOnlyInWrite, ReadsAreWhole, PTL
=============================================================================
