------------------------------- MODULE IdeDisk -------------------------------
(***************************************************************************)
(* The path of a disk access of the guest kernel built without QUICK_DISK: *)
(* read_byte and write_byte on the sector cache (kernel cache.c), the      *)
(* programmed I/O of disk_do_read and disk_do_write (kernel disk.c), the   *)
(* ports and the counters of the IDE device (nemu ide.c), and the timer    *)
(* interrupt that writes the dirty sectors back (kernel ide.c).            *)
(*                                                                         *)
(* System calls run with interrupts enabled (the gate of int 0x80 is a     *)
(* trap gate), so the timer may interrupt the driver between any two       *)
(* instructions; its own gate is an interrupt gate, so the handler runs to *)
(* its end, and is one step.  A word of 4 bytes is abstracted to its most  *)
(* significant byte, the part that decides which sector number a transfer  *)
(* leaves in port 0x1F3; a byte access touches the word it lies in.        *)
(*                                                                         *)
(* The image is opened for reading only, so that the device stores nothing *)
(* of what it is given: what the guest writes lives in the sector cache.   *)
(***************************************************************************)
EXTENDS Integers, FiniteSetsExt

CONSTANTS NR_SECTOR,     \* sectors of the disk image
          NR_SEC_CACHE,  \* slots of the sector cache (128)
          WORDS,         \* words of a sector (512 / 4)
          Word,          \* contents of a word
          WB_TICKS       \* WRITEBACK_TIME * HZ (100)

Sector == 0 .. NR_SECTOR - 1
Slots == 0 .. NR_SEC_CACHE - 1
Idx == 0 .. WORDS - 1
Content == [Idx -> Word]

ASSUME SizeAssumption == /\ NR_SECTOR \in Nat \ {0} /\ NR_SECTOR <= 256
                         /\ NR_SEC_CACHE \in Nat \ {0}
                         /\ WORDS \in Nat \ {0}
                         /\ WB_TICKS \in Nat \ {0}
ASSUME WordAssumption == Word \subseteq Sector /\ Word # {}

VARIABLES disk,          \* the image file
          fpos,          \* position of disk_fp, in words
          word_cnt,      \* byte_cnt / 4
          ide_write,     \* the device is executing a write command
          busy,          \* port 7 holds the command 0x30, not the status 0x40
          lba,           \* ports 3 to 6: the sector number
          irq14,         \* i8259 holds the interrupt of the device
          cache,         \* the sector cache of the kernel
          has_ide_intr,
          counter,       \* of ide_writeback
          spinning,      \* the timer handler is in waitdisk
          pc, op, i,     \* place in the driver, the access, the loop variable
          want,          \* history: what the guest last wrote to each word
          pending,       \* history: words written and not yet given to the device
          evicted,       \* history: words not written since their slot was taken
          apart          \* history: no write-back has interrupted the driver

device == <<disk, fpos, word_cnt, ide_write, busy, lba>>
kernel == <<cache, has_ide_intr, counter>>
history == <<want, pending, evicted, apart>>
vars == <<disk, fpos, word_cnt, ide_write, busy, lba, irq14, cache, has_ide_intr,
          counter, spinning, pc, op, i, want, pending, evicted, apart>>

PC == {"idle", "w_prepare", "w_issue", "w_data", "r_clear", "r_prepare", "r_issue",
       "r_wait", "r_data", "r_done", "access", "assert_failed"}
Op == [write : BOOLEAN, sector : Sector, idx : Idx, data : Word]
NoOp == CHOOSE o \in Op : ~o.write   \* op while the task is outside the driver

\* The types of the device, of its ports and counters and of the driver's cache.
TypeOK == /\ disk \in [Sector -> Content]
          /\ fpos \in 0 .. NR_SECTOR * WORDS
          /\ word_cnt \in 0 .. WORDS
          /\ ide_write \in BOOLEAN /\ busy \in BOOLEAN
          /\ lba \in Sector
          /\ irq14 \in BOOLEAN
          /\ cache \in [Slots -> [sector : Sector, used : BOOLEAN, dirty : BOOLEAN,
                                  content : Content]]
          /\ has_ide_intr \in BOOLEAN
          /\ counter \in 0 .. WB_TICKS - 1
          /\ spinning \in BOOLEAN
          /\ pc \in PC /\ op \in Op /\ i \in 0 .. WORDS
          /\ want \in [Sector -> Content] /\ apart \in BOOLEAN
          /\ pending \subseteq Sector \X Idx /\ evicted \subseteq Sector \X Idx

-----------------------------------------------------------------------------
(* The device: handler_ide for the accesses the driver makes.              *)

\* A command byte: seek to the sector in ports 3 to 6, restart the count.
SeekKeepsCount == fpos' = lba * WORDS /\ UNCHANGED word_cnt   \* mutant: byte_cnt not reset
Seek == fpos' = lba * WORDS /\ word_cnt' = 0

\* Command 0x20: the data is ready at once and the interrupt is raised.
ReadCommandNoIntr == /\ Seek   \* mutant: the interrupt is not raised
                     /\ ide_write' = FALSE
                     /\ busy' = FALSE
                     /\ UNCHANGED <<disk, lba, irq14>>
ReadCommandKeepsMode == /\ Seek   \* mutant: ide_write is not reset
                        /\ busy' = FALSE
                        /\ irq14' = TRUE
                        /\ UNCHANGED <<disk, lba, ide_write>>
ReadCommand == /\ Seek
               /\ ide_write' = FALSE
               /\ busy' = FALSE
               /\ irq14' = TRUE
               /\ UNCHANGED <<disk, lba>>

\* Command 0x30: port 7 keeps the command byte until the sector is written.
WriteCommand == /\ Seek
                /\ ide_write' = TRUE
                /\ busy' = TRUE
                /\ UNCHANGED <<disk, lba, irq14>>

\* The words that still wait for the device after it was given word w.
Given(w) == {x \in pending : x # <<fpos \div WORDS, word_cnt>> \/ want[x[1]][x[2]] # w}

\* out_long to the data port.  The stream is open for reading ("rb"), so fwrite
\* stores nothing and does not move it, which nobody looks at.  The 4 bytes of the
\* word lie in ports 0 to 3, so its most significant byte replaces the low byte of
\* the sector number.
OutLongStaysBusy(w) ==   \* mutant: the status is not set when the sector is complete
    /\ word_cnt' = word_cnt + 1
    /\ lba' = w
    /\ pending' = Given(w)
    /\ UNCHANGED <<disk, fpos, ide_write, busy>>
OutLong(w) == /\ word_cnt' = word_cnt + 1
              /\ busy' = (busy /\ word_cnt + 1 # WORDS)
              /\ lba' = w
              /\ pending' = Given(w)
              /\ UNCHANGED <<disk, fpos, ide_write>>

\* in_long from the data port: the word at the position of the stream.
InWord == disk[fpos \div WORDS][fpos % WORDS]
InLong == /\ fpos' = fpos + 1
          /\ word_cnt' = word_cnt + 1
          /\ busy' = (busy /\ word_cnt + 1 # WORDS)
          /\ lba' = InWord
          /\ UNCHANGED <<disk, ide_write>>

-----------------------------------------------------------------------------
(* The timer handler.                                                      *)

Dirty == {s \in Slots : cache[s].dirty}

\* The words that wait for the device after disk_do_write of every dirty slot.
WrittenBack == {x \in pending : \A s \in Dirty :
                   cache[s].sector # x[1] \/ cache[s].content[x[2]] # want[x[1]][x[2]]}

\* cache_writeback on a ready device: the ports and the counters are left as the
\* last sector written leaves them.
CacheWritebackShort ==   \* mutant: the loop ends one slot early
    /\ cache' = [s \in Slots |-> IF s = NR_SEC_CACHE - 1 THEN cache[s]
                                 ELSE [cache[s] EXCEPT !.dirty = FALSE]]
    /\ word_cnt' = WORDS /\ ide_write' = TRUE
    /\ UNCHANGED <<disk, fpos, busy, lba>>
CacheWriteback ==
    LET last == cache[Max(Dirty)] IN
    /\ fpos' = last.sector * WORDS
    /\ word_cnt' = WORDS
    /\ ide_write' = TRUE
    /\ busy' = FALSE
    /\ lba' = last.content[WORDS - 1]
    /\ cache' = [s \in Slots |-> [cache[s] EXCEPT !.dirty = FALSE]]
    /\ UNCHANGED disk

\* waitdisk, called by the handler for the first dirty slot, finds no status 0x40.
WaitsNever == FALSE   \* mutant: the handler does not call waitdisk
WaitsForDisk == Dirty # {} /\ busy

\* The other histories are kept while no write-back has interrupted the driver.
KeepHistory == apart' /\ UNCHANGED <<want, evicted>>
DropHistory == ~apart' /\ want' = disk /\ pending' = {} /\ evicted' = {}

\* The timer interrupt: ide_writeback.  An interrupt of the device outranks the
\* timer and is delivered first.  With interrupts disabled, waitdisk on a busy
\* device never ends.
Tick ==
    /\ pc # "assert_failed" /\ ~spinning /\ ~irq14
    /\ IF counter + 1 # WB_TICKS
       THEN /\ counter' = counter + 1
            /\ UNCHANGED device /\ UNCHANGED <<cache, spinning, history>>
       ELSE /\ apart' = (apart /\ (pc = "idle" \/ Dirty = {}))
            /\ IF WaitsForDisk
               THEN /\ spinning' = TRUE
                    /\ UNCHANGED device /\ UNCHANGED <<cache, counter>>
               ELSE /\ IF Dirty # {} THEN CacheWriteback
                                     ELSE UNCHANGED device /\ UNCHANGED cache
                    /\ counter' = 0
                    /\ UNCHANGED spinning
            /\ (KeepHistory /\ pending' = WrittenBack) \/ DropHistory
    /\ UNCHANGED <<irq14, has_ide_intr, pc, op, i>>

\* The interrupt of the device: ide_intr.
IdeIntr ==
    /\ pc # "assert_failed" /\ ~spinning /\ irq14
    /\ irq14' = FALSE
    /\ has_ide_intr' = TRUE
    /\ UNCHANGED device /\ UNCHANGED <<cache, counter, spinning, pc, op, i, history>>

-----------------------------------------------------------------------------
(* The access of a task: read_byte or write_byte.  do_intr follows every   *)
(* instruction, so no instruction runs while an interrupt waits.           *)

At(p) == pc = p /\ ~spinning /\ ~irq14
Slot == op.sector % NR_SEC_CACHE

\* cache_fetch up to the first disk access: a hit, a dirty victim, or a read.
CacheFetchNoWriteBack(o) ==   \* mutant: a dirty victim is not written back
    LET c == cache[o.sector % NR_SEC_CACHE] IN
    IF c.used /\ c.sector = o.sector THEN "access" ELSE "r_clear"
CacheFetch(o) ==
    LET c == cache[o.sector % NR_SEC_CACHE] IN
    CASE c.used /\ c.sector = o.sector -> "access"
      [] ~(c.used /\ c.sector = o.sector) /\ c.used /\ c.dirty -> "w_prepare"
      [] OTHER -> "r_clear"

Call ==
    /\ At("idle")
    /\ \E o \in Op :
          /\ op' = o
          /\ pc' = CacheFetch(o)
    /\ i' = 0
    /\ UNCHANGED device /\ UNCHANGED kernel /\ UNCHANGED <<irq14, spinning, history>>

\* ide_prepare: waitdisk, then the sector number.
IdePrepare(from, to, sector) ==
    /\ At(from)
    /\ ~busy
    /\ lba' = sector
    /\ pc' = to
    /\ UNCHANGED <<disk, fpos, word_cnt, ide_write, busy, irq14, spinning, op, i, history>>
    /\ UNCHANGED kernel

\* The asserts of handler_ide on an access to the data port.
TransferOKReadsAny ==   \* mutant: a read of the data port is served in either mode
    word_cnt <= WORDS /\ (pc = "w_data" => ide_write)
TransferOK == word_cnt <= WORDS /\ ide_write = (pc = "w_data")

AssertFails ==
    /\ pc \in {"w_data", "r_data"} /\ ~spinning /\ ~irq14
    /\ ~TransferOK
    /\ pc' = "assert_failed"
    /\ UNCHANGED device /\ UNCHANGED kernel /\ UNCHANGED <<irq14, spinning, op, i, history>>

\* disk_do_write of the dirty victim.
WritePrepare == IdePrepare("w_prepare", "w_issue", cache[Slot].sector)

IssueWrite ==
    /\ At("w_issue")
    /\ WriteCommand
    /\ i' = 0
    /\ pc' = "w_data"
    /\ UNCHANGED <<spinning, op, history>> /\ UNCHANGED kernel

WriteData ==
    /\ At("w_data")
    /\ TransferOK
    /\ OutLong(cache[Slot].content[i])
    /\ i' = i + 1
    /\ pc' = IF i + 1 = WORDS THEN "r_clear" ELSE "w_data"
    /\ UNCHANGED <<irq14, spinning, op, want, evicted, apart>> /\ UNCHANGED kernel

\* disk_do_read of the sector into the slot.
ClearIdeIntr ==
    /\ At("r_clear")
    /\ has_ide_intr' = FALSE
    /\ pc' = "r_prepare"
    /\ UNCHANGED device /\ UNCHANGED <<irq14, cache, counter, spinning, op, i, history>>

ReadPrepare == IdePrepare("r_prepare", "r_issue", op.sector)

IssueRead ==
    /\ At("r_issue")
    /\ ReadCommand
    /\ i' = 0
    /\ pc' = "r_wait"
    /\ UNCHANGED <<spinning, op, history>> /\ UNCHANGED kernel

\* wait_ide_intr: hlt until the handler has set the flag.
WaitIdeIntr ==
    /\ At("r_wait")
    /\ has_ide_intr
    /\ has_ide_intr' = FALSE
    /\ pc' = "r_data"
    /\ UNCHANGED device /\ UNCHANGED <<irq14, cache, counter, spinning, op, i, history>>

ReadData ==
    /\ At("r_data")
    /\ TransferOK
    /\ InLong
    /\ cache' = [cache EXCEPT ![Slot].content[i] = InWord]
    /\ i' = i + 1
    /\ pc' = IF i + 1 = WORDS THEN "r_done" ELSE "r_data"
    /\ UNCHANGED <<irq14, has_ide_intr, counter, spinning, op, history>>

\* The end of cache_fetch.  What the guest wrote to the sector that the slot held
\* before can no longer be read.
Evicted == IF apart /\ cache[Slot].used THEN {cache[Slot].sector} \X Idx ELSE {}
ReadDoneKeepsSector ==   \* mutant: the slot keeps the number of its former sector
    /\ At("r_done")
    /\ cache' = [cache EXCEPT ![Slot].used = TRUE, ![Slot].dirty = FALSE]
    /\ evicted' = evicted \cup Evicted
    /\ pc' = "access"
    /\ UNCHANGED device
    /\ UNCHANGED <<irq14, has_ide_intr, counter, spinning, op, i, want, pending, apart>>
ReadDone ==
    /\ At("r_done")
    /\ cache' = [cache EXCEPT ![Slot].used = TRUE, ![Slot].sector = op.sector,
                              ![Slot].dirty = FALSE]
    /\ evicted' = evicted \cup Evicted
    /\ pc' = "access"
    /\ UNCHANGED device
    /\ UNCHANGED <<irq14, has_ide_intr, counter, spinning, op, i, want, pending, apart>>

\* The end of read_byte and of write_byte.
RecordWrite == IF apart /\ op.write
               THEN /\ want' = [want EXCEPT ![op.sector][op.idx] = op.data]
                    /\ pending' = pending \cup {<<op.sector, op.idx>>}
                    /\ evicted' = evicted \ {<<op.sector, op.idx>>}
               ELSE UNCHANGED <<want, pending, evicted>>
AccessNotDirty ==   \* mutant: write_byte does not mark the slot
    /\ At("access")
    /\ cache' = IF op.write THEN [cache EXCEPT ![Slot].content[op.idx] = op.data] ELSE cache
    /\ RecordWrite
    /\ pc' = "idle" /\ op' = NoOp /\ i' = 0
    /\ UNCHANGED device /\ UNCHANGED <<irq14, has_ide_intr, counter, spinning, apart>>
Access ==
    /\ At("access")
    /\ cache' = IF op.write THEN [cache EXCEPT ![Slot].content[op.idx] = op.data,
                                               ![Slot].dirty = TRUE]
                ELSE cache
    /\ RecordWrite
    /\ pc' = "idle" /\ op' = NoOp /\ i' = 0
    /\ UNCHANGED device /\ UNCHANGED <<irq14, has_ide_intr, counter, spinning, apart>>

-----------------------------------------------------------------------------
\* init_ide of NEMU and of the kernel; a new cache is all zero (bss).
Init == /\ disk \in [Sector -> Content]
        /\ fpos = 0 /\ word_cnt = 0 /\ ide_write = FALSE /\ busy = FALSE
        /\ lba = 0 /\ irq14 = FALSE
        /\ cache = [s \in Slots |-> [sector |-> 0, used |-> FALSE, dirty |-> FALSE,
                                     content |-> [j \in Idx |-> CHOOSE w \in Word : TRUE]]]
        /\ has_ide_intr = FALSE /\ counter = 0 /\ spinning = FALSE
        /\ pc = "idle" /\ i = 0
        /\ op = NoOp
        /\ want = disk /\ pending = {} /\ evicted = {} /\ apart = TRUE

Driver == \/ WritePrepare \/ IssueWrite \/ WriteData
          \/ ClearIdeIntr \/ ReadPrepare \/ IssueRead \/ WaitIdeIntr \/ ReadData
          \/ ReadDone \/ Access \/ AssertFails

Next == Tick \/ IdeIntr \/ Call \/ Driver

Spec == Init /\ [][Next]_vars

\* The processor keeps executing the driver and taking the interrupts.
FairSpec == Spec /\ WF_vars(Driver) /\ WF_vars(IdeIntr) /\ SF_vars(Tick)

-----------------------------------------------------------------------------
(* Properties.                                                             *)

\* What a read of sector n returns: its slot (cache_fetch), or the image.
Current(n) ==
    LET c == cache[n % NR_SEC_CACHE] IN
    IF c.used /\ c.sector = n THEN c.content ELSE disk[n]

\* What the guest can still have of word j of sector n: what it last wrote, until
\* another sector takes the slot; after that, what the image holds.
Kept(n, j) == IF <<n, j>> \in evicted THEN disk[n][j] ELSE want[n][j]

\* A read returns what the guest last wrote as long as the slot was not taken by
\* another sector, and the image from then on, never a mixture of sectors; and so
\* does the byte that read_byte takes from the slot that cache_fetch returned.
ReadsKept ==
    apart =>
        /\ pc = "idle" => \A n \in Sector, j \in Idx : Current(n)[j] = Kept(n, j)
        /\ pc = "access" => cache[Slot].content[op.idx] = Kept(op.sector, op.idx)

\* Every word that the guest wrote was given to the device as it was written, at the
\* place where it belongs, before its slot was marked clean (cache_writeback) or taken
\* (cache_fetch); until then a dirty slot holds it.
NothingForgotten ==
    apart /\ pc = "idle" => \A x \in pending :
        \E s \in Dirty : cache[s].sector = x[1] /\ cache[s].content[x[2]] = want[x[1]][x[2]]

\* Every word of a transfer belongs to the command of its own sector, although the
\* device keeps the sector number in the ports that the data goes through.
TransfersInPlace ==
    apart =>
        /\ pc = "w_data" => /\ ide_write /\ word_cnt = i
                            /\ fpos = cache[Slot].sector * WORDS
        /\ pc = "r_data" => /\ ~ide_write /\ word_cnt = i
                            /\ fpos = op.sector * WORDS + i

\* "write 4 bytes data to disk" (ide.c:30): a sector that no dirty slot holds is on
\* the disk as the guest last wrote it.
Durable ==
    apart /\ pc = "idle" => \A n \in Sector :
        (\A s \in Dirty : cache[s].sector # n) => disk[n] = want[n]

\* "the data read from disk is intact" (kernel disk.c:78): when disk_do_read returns,
\* the slot holds the sector that was asked for, wherever the write-back came.
DataIntact == pc = "r_done" => cache[Slot].content = disk[op.sector]

\* The asserts on ide_write (ide.c:31, 85), wherever the write-back comes.
AssertsHold == pc # "assert_failed"

\* A read that returns has filled the slot with one whole sector of the image, wherever
\* the write-back came: the asserts of the device stop every transfer that a write-back
\* has torn.  Which sector it is, is only certain if none came inside the driver.
ReadsWhole == pc = "r_done" =>
    \E n \in Sector : cache[Slot].content = disk[n] /\ (apart => n = op.sector)

\* "writeback cache for every 1 second" (kernel ide.c:6), wherever it comes.
WrittenBackEverySecond == \A s \in Slots : cache[s].dirty ~> ~cache[s].dirty

\* handler_ide never meets a transfer that does not belong to its command, unless
\* a write-back interrupts the driver.
NoAssertFailure == apart => pc # "assert_failed"

\* The timer handler waits for the disk only while the task it interrupted is
\* in the middle of the write of a victim: the one place where it hangs.
SpinsOnlyInWrite == spinning => pc = "w_data" /\ busy /\ Dirty # {}

\* Wherever the write-back interrupts the driver, the assert(ide_write) of
\* handler_ide holds: only a read transfer can be cut off from its command.
OnlyReadsAssert == [][pc' = "assert_failed" => pc = "r_data"]_vars

\* Every read_byte and write_byte returns: waitdisk and wait_ide_intr end, unless
\* a write-back interrupts the driver.
OpCompletes == pc # "idle" ~> (pc = "idle" \/ ~apart)

\* Every dirty slot is given to the device sooner or later (ide_writeback), unless
\* the write-back interrupts the driver.
DirtyWrittenBack == \A s \in Slots : cache[s].dirty ~> (~cache[s].dirty \/ ~apart)

\* The driver, while no write-back has come inside it: what the guest wrote is read
\* until its slot is taken and is given to the device before that, and handler_ide
\* meets no foreign transfer.
DriverCorrect == TypeOK /\ ReadsKept /\ NothingForgotten /\ TransfersInPlace /\ NoAssertFailure

\* The driver, wherever the write-back comes: it can hang only in the write of a victim,
\* and a read that returns brings one whole sector.
AnywhereSound == SpinsOnlyInWrite /\ ReadsWhole

\* Nobody waits for ever: calls of the driver return and dirty slots reach the device.
DriverProgress == OpCompletes /\ DirtyWrittenBack
=============================================================================
