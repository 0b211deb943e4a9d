----------------------------- MODULE KernelProofs -----------------------------
(***************************************************************************)
(* The guest kernel, for every table of files, every width of its integers *)
(* and every program:                                                      *)
(*                                                                         *)
(*   - calls on files that begin in the file stay there and are complete;  *)
(*     offsets and seeks stay in the bounds that check_boundary sets;      *)
(*   - an interrupt calls exactly the routines registered for it, also in  *)
(*     the middle of add_irq_handle;                                       *)
(*   - the loader puts every byte where the page tables say, although it   *)
(*     writes through physical addresses, and brk takes none of them away; *)
(*   - the pool of handlers, the frames and the heap suffice.              *)
(*                                                                         *)
(* Each part has an invariant of its own (FilesInv, IrqInv, MemInv,        *)
(* PoolInv) and one lemma for each operation that can disturb it.          *)
(***************************************************************************)
EXTENDS Kernel, NumberLemmas, SequenceTheorems, FiniteSetTheorems, TLAPS

\* Files: the properties are inductive together.
FilesInv == TypeOK /\ FileCallsRight

\* The table of files does not wrap.
LEMMA Table ==
    ASSUME NEW f \in File
    PROVE  /\ size[f] \in Nat /\ disk_offset[f] \in Nat /\ MOD \in Nat \ {0}
           /\ disk_offset[f] + size[f] < MOD \div 2
           /\ MOD \div 2 \in Nat /\ MOD \div 2 + MOD \div 2 <= MOD
<1>1. MOD \in Nat \ {0} /\ size[f] \in U32 /\ disk_offset[f] \in U32
    BY TableAssumption
<1>2. MOD \div 2 \in Nat /\ MOD \div 2 + MOD \div 2 <= MOD
    BY <1>1
<1> QED BY <1>1, <1>2, TableAssumption DEF U32

\* How far a descriptor of a file gets.
Reach(f) == Max({size[f], disk_offset[f]})
LEMMA ReachOfFile ==
    ASSUME NEW f \in File
    PROVE  /\ Reach(f) \in Nat /\ size[f] <= Reach(f) /\ disk_offset[f] <= Reach(f)
           /\ Reach(f) < MOD \div 2
<1>1. size[f] \in Int /\ disk_offset[f] \in Int
    BY Table
<1>2. Reach(f) = IF size[f] >= disk_offset[f] THEN size[f] ELSE disk_offset[f]
    BY <1>1, MinMaxOfTwo DEF Reach
<1> QED BY <1>2, Table

\* The parts of FileCallsRight that are about the descriptors.
OffsetsInv == \A d \in Fd : files[d].offset <= Reach(files[d].index)

\* A descriptor that is changed keeps to its bound.
LEMMA ChangedFd ==
    ASSUME FilesInv, NEW d \in Fd,
           NEW new \in [used : BOOLEAN, index : File, offset : U32],
           new.offset <= Reach(new.index), files' = [files EXCEPT ![d] = new]
    PROVE  files' \in [Fd -> [used : BOOLEAN, index : File, offset : U32]] /\ OffsetsInv'
<1>1. files'[d] = new /\ \A e \in Fd \ {d} : files'[e] = files[e]
    BY DEF FilesInv, TypeOK
<1>2. OffsetsInv
    BY DEF FilesInv, FileCallsRight, OffsetsBounded, OffsetsInv, Reach
<1> QED BY <1>1, <1>2 DEF FilesInv, TypeOK, OffsetsInv, Reach

\* fs_open starts at the first byte.
LEMMA OpenFiles == ASSUME FilesInv, NEW f \in File, Open(f) PROVE FilesInv'
<1> DEFINE free_fd == {d \in Fd : ~files[d].used}
           new == [used |-> TRUE, index |-> f, offset |-> 0]
<1>1. MOD \in Nat /\ NR_FILES \in Nat /\ NR_FILES + 3 < MOD /\ 0 \in U32 /\ FAIL \in U32
    BY TableAssumption DEF U32, FAIL
<1>2. CASE free_fd # {}
    <2>1. /\ files' = [files EXCEPT ![Min(free_fd)] = new] /\ UNCHANGED status
          /\ Done("open", f, 0, 0, Min(free_fd), 0, 0)
        BY <1>2 DEF Open
    <2>2. Min(free_fd) \in Fd
        <3>1. free_fd \subseteq Nat
            BY <1>1 DEF Fd
        <3> QED BY <1>2, <3>1, MinIsElement
    <2> HIDE DEF free_fd
    <2>3. Min(free_fd) \in U32
        BY <1>1, <2>2 DEF Fd, U32
    <2>4. new \in [used : BOOLEAN, index : File, offset : U32] /\ new.offset <= Reach(new.index)
        BY <1>1, ReachOfFile
    <2> HIDE DEF new
    <2>5. files' \in [Fd -> [used : BOOLEAN, index : File, offset : U32]] /\ OffsetsInv'
        BY <2>1, <2>2, <2>4, ChangedFd
    <2>6. last' \in Call /\ last'.op = "open"
        BY <1>1, <2>1, <2>3 DEF Done, Call
    <2> QED BY <2>1, <2>5, <2>6
            DEF FilesInv, FileCallsRight, TypeOK, StaysInFile, TransfersAll, OffsetsBounded,
                SeekLands, OffsetsInv, Reach
<1>3. CASE free_fd = {}
    <2>1. UNCHANGED <<files, status>> /\ Done("open", f, 0, 0, FAIL, 0, 0)
        BY <1>3 DEF Open
    <2>2. last' \in Call /\ last'.op = "open"
        BY <1>1, <2>1 DEF Done, Call
    <2> QED BY <2>1, <2>2
            DEF FilesInv, FileCallsRight, TypeOK, StaysInFile, TransfersAll, OffsetsBounded,
                SeekLands
<1> QED BY <1>2, <1>3

\* A call on a descriptor that is not open, or that it closes.
LEMMA CloseFiles == ASSUME FilesInv, NEW d \in Fd, NotOpen(d) \/ Close(d) PROVE FilesInv'
<1>1. files[d].index \in File /\ 0 \in U32 /\ FAIL \in U32 /\ 0 \in Int
    BY TableAssumption DEF FilesInv, TypeOK, U32, FAIL
<1>2. last' \in Call /\ last'.op \in {"none", "close"}
    BY <1>1 DEF NotOpen, Close, Done, Call
<1>3. /\ files' \in [Fd -> [used : BOOLEAN, index : File, offset : U32]]
      /\ \A e \in Fd : files'[e].index = files[e].index /\ files'[e].offset = files[e].offset
    <2>1. files \in [Fd -> [used : BOOLEAN, index : File, offset : U32]]
        BY DEF FilesInv, TypeOK
    <2>2. CASE NotOpen(d)
        BY <2>1, <2>2 DEF NotOpen
    <2>3. CASE Close(d)
        <3>1. files' = [files EXCEPT ![d].used = FALSE]
            BY <2>3 DEF Close
        <3> QED BY <2>1, <3>1
    <2> QED BY <2>2, <2>3
<1>4. status' = status
    BY DEF NotOpen, Close
<1> QED BY <1>2, <1>3, <1>4
           DEF FilesInv, FileCallsRight, TypeOK, StaysInFile, TransfersAll, OffsetsBounded,
               SeekLands

\* fs_read and fs_write: wherever they begin and whatever the length, they end in the
\* file, and one that begins there and does not wrap is clipped at its end.
LEMMA TransferFiles ==
    ASSUME FilesInv, NEW op \in {"read", "write"}, NEW d \in Fd, NEW len \in Lens,
           Transfer(op, d, len)
    PROVE  FilesInv'
<1> DEFINE f == files[d].index
           pos == files[d].offset
           n == Clipped(f, pos, len)
           lo == (disk_offset[f] + pos) % MOD
           end == (pos + n) % MOD
<1>1. /\ f \in File /\ pos \in U32 /\ len \in U32
      /\ files[d] \in [used : BOOLEAN, index : File, offset : U32]
    BY GuestAssumption DEF FilesInv, TypeOK
<1>2. /\ size[f] \in Nat /\ disk_offset[f] \in Nat /\ MOD \in Nat \ {0}
      /\ disk_offset[f] + size[f] < MOD \div 2
      /\ MOD \div 2 \in Nat /\ MOD \div 2 + MOD \div 2 <= MOD
    BY <1>1, Table
<1>3. pos \in 0 .. MOD - 1 /\ len \in 0 .. MOD - 1
    BY <1>1 DEF U32
<1>4. /\ files' = [files EXCEPT ![d].offset = end]
      /\ Done(op, f, pos, len, n, lo, n) /\ UNCHANGED status
    BY DEF Transfer
<1>5. /\ n \in U32 /\ lo \in U32 /\ end \in U32 /\ end <= size[f]
      /\ pos <= size[f] /\ pos + len < MOD =>
            /\ n = (IF len <= size[f] - pos THEN len ELSE size[f] - pos)
            /\ lo = disk_offset[f] + pos
    <2> HIDE DEF f, pos
    <2>1. lo \in U32 /\ (pos <= size[f] => lo = disk_offset[f] + pos)
        <3> DEFINE x == disk_offset[f] + pos
        <3>1. x \in Int /\ x % MOD \in 0 .. MOD - 1
            BY <1>2, <1>3
        <3>2. pos <= size[f] => x \in 0 .. MOD - 1
            BY <1>2, <1>3
        <3> HIDE DEF x
        <3>3. x \in 0 .. MOD - 1 => x % MOD = x
            BY <1>2, SmallMod
        <3> QED BY <3>1, <3>2, <3>3 DEF U32, x
    <2>2. CASE (pos + len) % MOD > size[f]
        <3>1. n = (size[f] - pos) % MOD
            BY <2>2 DEF Clipped
        <3>2. /\ pos <= size[f] => n = size[f] - pos
              /\ pos > size[f] => n = size[f] - pos + MOD
            <4>1. pos <= size[f] => size[f] - pos \in 0 .. MOD - 1
                BY <1>2, <1>3
            <4>2. pos > size[f] => (size[f] - pos) + MOD \in 0 .. MOD - 1
                BY <1>2, <1>3
            <4> DEFINE x == size[f] - pos
            <4>3. x \in Int
                BY <1>2, <1>3
            <4> HIDE DEF x
            <4>4. /\ x \in 0 .. MOD - 1 => x % MOD = x
                  /\ x + MOD \in 0 .. MOD - 1 => x % MOD = x + MOD
                BY <1>2, <4>3, NearMod
            <4> QED BY <3>1, <4>1, <4>2, <4>4 DEF x
        <3> HIDE DEF n
        <3>3. n \in 0 .. MOD - 1
            BY <1>2, <1>3, <3>2
        <3>4. end = size[f]
            <4>1. pos <= size[f] => pos + n = size[f]
                BY <1>2, <1>3, <3>2
            <4>2. pos > size[f] => pos + n = size[f] + MOD
                BY <1>2, <1>3, <3>2
            <4> DEFINE x == pos + n
            <4>3. x \in Int /\ size[f] \in 0 .. MOD - 1
                BY <1>2, <1>3, <3>3
            <4> HIDE DEF x
            <4>4. /\ x \in 0 .. MOD - 1 => x % MOD = x
                  /\ x - MOD \in 0 .. MOD - 1 => x % MOD = x - MOD
                BY <1>2, <4>3, NearMod
            <4>5. x = size[f] \/ x = size[f] + MOD
                BY <1>2, <1>3, <4>1, <4>2 DEF x
            <4> QED BY <1>2, <4>3, <4>4, <4>5 DEF x
        <3>5. ASSUME pos <= size[f], pos + len < MOD PROVE size[f] - pos < len
            <4>1. (pos + len) % MOD = pos + len
                <5>1. pos + len \in 0 .. MOD - 1
                    BY <1>2, <1>3, <3>5
                <5> QED BY <1>2, <5>1, SmallMod
            <4> QED BY <1>2, <1>3, <2>2, <4>1
        <3> HIDE DEF lo, end
        <3> QED BY <1>2, <1>3, <2>1, <3>2, <3>3, <3>4, <3>5 DEF U32
    <2>3. CASE ~((pos + len) % MOD > size[f])
        <3>1. n = len
            BY <2>3 DEF Clipped
        <3>2. (pos + len) % MOD \in 0 .. MOD - 1
            BY <1>2, <1>3
        <3>3. end = (pos + len) % MOD
            BY <3>1
        <3>4. ASSUME pos <= size[f], pos + len < MOD PROVE len <= size[f] - pos
            <4>1. (pos + len) % MOD = pos + len
                <5>1. pos + len \in 0 .. MOD - 1
                    BY <1>2, <1>3, <3>4
                <5> QED BY <1>2, <5>1, SmallMod
            <4> QED BY <1>2, <1>3, <2>3, <4>1
        <3> DEFINE sum == (pos + len) % MOD
        <3> HIDE DEF lo, end, n, sum
        <3>5. end = sum /\ sum \in 0 .. MOD - 1 /\ ~(sum > size[f])
            BY <2>3, <3>2, <3>3 DEF sum
        <3> QED BY <1>2, <1>3, <2>1, <3>1, <3>4, <3>5 DEF U32
    <2> QED BY <2>2, <2>3
<1> HIDE DEF n, lo, pos, f, end
<1>6. files' \in [Fd -> [used : BOOLEAN, index : File, offset : U32]] /\ OffsetsInv'
    <2> DEFINE new == [files[d] EXCEPT !.offset = end]
    <2>1. /\ new \in [used : BOOLEAN, index : File, offset : U32]
          /\ new.index = f /\ new.offset = end
        BY <1>1, <1>5 DEF f
    <2>2. files' = [files EXCEPT ![d] = new]
        BY <1>4
    <2> HIDE DEF new
    <2>3. new.offset <= Reach(new.index)
        BY <1>1, <1>2, <1>5, <2>1, ReachOfFile DEF U32
    <2> QED BY <2>1, <2>2, <2>3, ChangedFd
<1>7. /\ last' = [op |-> op, file |-> f, pos |-> pos, arg |-> len, ret |-> n, lo |-> lo, len |-> n]
      /\ last' \in Call
    BY <1>1, <1>3, <1>4, <1>5 DEF Done, Call
<1>8. OffsetsBounded'
    BY <1>5, <1>6, <1>7 DEF OffsetsBounded, OffsetsInv, Reach, end
<1>9. StaysInFile' /\ SeekLands'
    BY <1>2, <1>3, <1>5, <1>7 DEF StaysInFile, FromInside, SeekLands
<1>10. TransfersAll'
    <2> SUFFICES ASSUME pos <= size[f], pos + len < MOD PROVE n = Min({len, size[f] - pos})
        BY <1>7 DEF TransfersAll, FromInside
    <2> DEFINE left == size[f] - pos
    <2>1. len \in Int /\ left \in Int /\ n = IF len <= left THEN len ELSE left
        BY <1>2, <1>3, <1>5
    <2> HIDE DEF left
    <2>2. n = Min({len, left})
        BY <2>1, MinMaxOfTwo
    <2> QED BY <2>2 DEF left
<1> QED BY <1>4, <1>6, <1>7, <1>8, <1>9, <1>10 DEF FilesInv, FileCallsRight, TypeOK

\* lseek: the sum that it computes is negative, or it does not wrap.
LEMMA LseekFiles ==
    ASSUME FilesInv, NEW d \in Fd, NEW offset \in Offsets,
           NEW whence \in {"SEEK_SET", "SEEK_CUR", "SEEK_END"}, Lseek(d, offset, whence)
    PROVE  FilesInv'
<1> DEFINE f == files[d].index
           t == Target(d, offset, whence)
           new == CheckBoundary(f, t % MOD)
<1>1. /\ f \in File /\ files[d].offset \in U32 /\ files[d].offset <= Reach(f)
      /\ files[d] \in [used : BOOLEAN, index : File, offset : U32]
    BY DEF FilesInv, FileCallsRight, OffsetsBounded, TypeOK, Reach
<1>2. /\ size[f] \in Nat /\ disk_offset[f] \in Nat /\ MOD \in Nat \ {0}
      /\ disk_offset[f] + size[f] < MOD \div 2
      /\ MOD \div 2 \in Nat /\ MOD \div 2 + MOD \div 2 <= MOD
      /\ Reach(f) \in Nat /\ Reach(f) < MOD \div 2
      /\ size[f] <= Reach(f) /\ disk_offset[f] <= Reach(f)
    BY <1>1, Table, ReachOfFile
<1>3. /\ files' = [files EXCEPT ![d].offset = new]
      /\ Done("lseek", f, files[d].offset, t, new, 0, 0) /\ UNCHANGED status
    BY DEF Lseek
<1>4. t \in Int /\ -(MOD \div 2) <= t /\ t < MOD
    <2>1. offset \in Int /\ -(MOD \div 2) <= offset /\ offset <= MOD \div 2 - 1
        BY <1>2, GuestAssumption
    <2>2. files[d].offset \in Nat
        BY <1>1, <1>2 DEF U32
    <2>3. /\ t = offset + 0 \/ t = offset + files[d].offset \/ t = offset + size[f]
        BY DEF Target
    <2> HIDE DEF t, f
    <2> QED BY <1>1, <1>2, <2>1, <2>2, <2>3
<1> HIDE DEF f, t
<1>5. new = IF t \in 0 .. disk_offset[f] THEN t ELSE size[f]
    <2> DEFINE m == t % MOD
    <2>0. new = IF m > disk_offset[f] THEN size[f] ELSE m
        BY DEF CheckBoundary
    <2> HIDE DEF new
    <2>1. CASE 0 <= t
        <3>1. t % MOD = t
            <4>1. t \in 0 .. MOD - 1
                BY <1>2, <1>4, <2>1
            <4> QED BY <1>2, <4>1, SmallMod
        <3> HIDE DEF m
        <3>2. m = t
            BY <3>1 DEF m
        <3> QED BY <1>2, <1>4, <2>0, <2>1, <3>2
    <2>2. CASE t < 0
        <3>1. t % MOD = t + MOD
            <4>1. t + MOD \in 0 .. MOD - 1
                BY <1>2, <1>4, <2>2
            <4> QED BY <1>2, <1>4, <4>1, NearMod
        <3> HIDE DEF m
        <3>2. m = t + MOD
            BY <3>1 DEF m
        <3> QED BY <1>2, <1>4, <2>0, <2>2, <3>2
    <2> QED BY <1>4, <2>1, <2>2
<1> HIDE DEF new
<1>6. new \in U32 /\ new <= Reach(f) /\ 0 \in U32
    BY <1>2, <1>4, <1>5 DEF U32
<1>7. files' \in [Fd -> [used : BOOLEAN, index : File, offset : U32]] /\ OffsetsInv'
    <2> DEFINE fd == [files[d] EXCEPT !.offset = new]
    <2>1. /\ fd \in [used : BOOLEAN, index : File, offset : U32]
          /\ fd.index = f /\ fd.offset = new
        BY <1>1, <1>6 DEF f
    <2>2. files' = [files EXCEPT ![d] = fd]
        BY <1>3
    <2> HIDE DEF fd
    <2> QED BY <1>6, <2>1, <2>2, ChangedFd
<1>8. /\ last' = [op |-> "lseek", file |-> f, pos |-> files[d].offset, arg |-> t, ret |-> new,
                   lo |-> 0, len |-> 0]
      /\ last' \in Call
    BY <1>1, <1>3, <1>4, <1>6 DEF Done, Call
<1>9. SeekLands' /\ OffsetsBounded' /\ StaysInFile' /\ TransfersAll'
    BY <1>5, <1>7, <1>8
       DEF SeekLands, OffsetsBounded, OffsetsInv, Reach, StaysInFile, TransfersAll
<1> QED BY <1>3, <1>7, <1>8, <1>9 DEF FilesInv, FileCallsRight, TypeOK

\* What is not a call on files leaves the descriptors alone.
LEMMA OtherFiles ==
    ASSUME FilesInv, UNCHANGED <<files, last>>,
           status' \in {status, "assert_failed", "overrun"}
    PROVE  FilesInv'
BY DEF FilesInv, FileCallsRight, TypeOK, StaysInFile, FromInside, TransfersAll,
       OffsetsBounded, SeekLands

\* The first call finds every descriptor closed.
LEMMA InitFiles == Init => FilesInv
<1> SUFFICES ASSUME Init PROVE FilesInv
    OBVIOUS
<1>1. 0 \in File /\ 0 \in U32 /\ 0 <= Reach(0)
    BY TableAssumption, ReachOfFile DEF File, U32
<1>2. last \in Call
    BY <1>1 DEF Init, Call
<1>3. files \in [Fd -> [used : BOOLEAN, index : File, offset : U32]] /\ OffsetsInv
    BY <1>1 DEF Init, OffsetsInv
<1> QED BY <1>2, <1>3
           DEF Init, FilesInv, FileCallsRight, TypeOK, StaysInFile, TransfersAll,
               OffsetsBounded, SeekLands, OffsetsInv, Reach

\* No step of the kernel disturbs the files.
LEMMA NextFiles == FilesInv /\ [KNext]_kvars => FilesInv'
<1> SUFFICES ASSUME FilesInv, [KNext]_kvars PROVE FilesInv'
    OBVIOUS
<1>1. CASE FileCall
    <2>1. CASE \E f \in File : Open(f)
        BY <2>1, OpenFiles
    <2>2. CASE Abort
        BY <2>2, OtherFiles DEF Abort
    <2>3. CASE \E d \in Fd : NotOpen(d) \/ Close(d)
        BY <2>3, CloseFiles
    <2>4. CASE \E d \in Fd : \E len \in Lens : Transfer("read", d, len) \/ Transfer("write", d, len)
        BY <2>4, TransferFiles
    <2>5. CASE \E d \in Fd : \E offset \in Offsets, whence \in {"SEEK_SET", "SEEK_CUR", "SEEK_END"} :
                  Lseek(d, offset, whence)
        BY <2>5, LseekFiles
    <2> QED BY <1>1, <2>1, <2>2, <2>3, <2>4, <2>5 DEF FileCall, Next
<1>2. CASE UNCHANGED kvars
    BY <1>2, OtherFiles DEF kvars, vars
<1>3. CASE AddIrqHandle \/ Continue \/ \E irq \in Irqs : IrqHandle(irq)
    BY <1>3, OtherFiles
       DEF AddIrqHandle, AddBegin, AddRoutine, AddNext, AddLink, Continue, IrqHandle,
           vars
<1>4. CASE Loader \/ \E new \in HeapEnds : Sbrk(new)
    BY <1>4, OtherFiles DEF Loader, LoadSegment, StartProgram, OutOfFrames, Sbrk
<1> QED BY <1>1, <1>2, <1>3, <1>4 DEF KNext

\* Whatever the calls before it were: a transfer that begins in its file and whose end
\* does not wrap stays there and is complete; no transfer leaves a descriptor behind the
\* end, and an lseek none behind disk_offset; and a place that is not between 0 and
\* disk_offset is the end of the file: for every table, lengths and offsets.
THEOREM FilesStaySound == KSpec => []FileCallsRight
<1>1. FilesInv => FileCallsRight
    BY DEF FilesInv
<1>2. KInit => FilesInv
    BY InitFiles DEF KInit
<1> QED BY <1>1, <1>2, NextFiles, PTL DEF KSpec

-----------------------------------------------------------------------------
(* The loop of irq_handle.                                                 *)

\* The recursive function Calls exists: there is one for the first passes of the
\* loop, and one pass more can always be added.
LEMMA CallsRecursion ==
    ASSUME NR_IRQ_HANDLE \in Nat
    PROVE  /\ Calls[0] = [q \in Ptr |-> <<>>]
           /\ \A n \in 1 .. NR_IRQ_HANDLE : Calls[n] = OneMore(Calls[n - 1])
<1> DEFINE none == [q \in Ptr |-> <<>>]
           Fits(f, m) == f = [n \in 0 .. m |-> IF n = 0 THEN none ELSE OneMore(f[n - 1])]
           Bad == {m \in Nat : \A f : ~Fits(f, m)}
<1> HIDE DEF none
<1>1. Bad = {}
    <2> SUFFICES ASSUME Bad # {} PROVE FALSE
        OBVIOUS
    <2> DEFINE m == Min(Bad)
    <2>1. m \in Bad /\ \A k \in Bad : m <= k
        <3>1. Bad \subseteq Nat
            OBVIOUS
        <3> HIDE DEF Bad
        <3> QED BY <3>1, MinIsElement
    <2>2. m \in Nat /\ \A f : ~Fits(f, m)
        BY <2>1
    <2>3. m # 0
        <3> DEFINE f == [n \in 0 .. 0 |-> none]
        <3>1. Fits(f, 0)
            OBVIOUS
        <3> QED BY <2>2, <3>1
    <2> HIDE DEF m
    <2>4. PICK g : Fits(g, m - 1)
        <3>1. m - 1 \in Nat /\ m - 1 \notin Bad
            <4>1. m - 1 \in Nat /\ ~(m <= m - 1)
                BY <2>2, <2>3
            <4> HIDE DEF Bad
            <4> QED BY <2>1, <4>1
        <3> QED BY <3>1
    <2> DEFINE f == [n \in 0 .. m |-> IF n = m THEN OneMore(g[m - 1]) ELSE g[n]]
    <2>5. ASSUME NEW n \in 0 .. m
          PROVE  f[n] = IF n = 0 THEN none ELSE OneMore(f[n - 1])
        <3>1. CASE n = m
            BY <2>2, <2>3, <3>1
        <3>2. CASE n # m
            <4>1. n \in 0 .. m - 1 /\ (n # 0 => n - 1 \in 0 .. m - 1)
                BY <2>2, <2>3, <3>2
            <4>2. g[n] = IF n = 0 THEN none ELSE OneMore(g[n - 1])
                BY <2>4, <4>1
            <4>3. f[n] = g[n] /\ (n # 0 => f[n - 1] = g[n - 1])
                BY <2>2, <3>2, <4>1
            <4> QED BY <4>2, <4>3
        <3> QED BY <3>1, <3>2
    <2>6. Fits(f, m)
        BY <2>5
    <2> QED BY <2>2, <2>6
<1>2. PICK f : Fits(f, NR_IRQ_HANDLE)
    BY <1>1
<1>3. Fits(Calls, NR_IRQ_HANDLE)
    BY <1>2 DEF Calls, none
<1> HIDE DEF none
<1>4. Calls[0] = none /\ \A n \in 1 .. NR_IRQ_HANDLE : Calls[n] = OneMore(Calls[n - 1])
    BY <1>3
<1> QED BY <1>4 DEF none

\* The interrupt routines; a new element of the pool has none.
Routine == {"null", "ide_writeback", "ide_intr", "timer_event", "keyboard_event"}

\* The elements of the pool that the list of an irq goes through, and NULL.
IsChain(irq, c) ==
    LET r == registered[irq] IN
    /\ c \in [1 .. Len(r) + 1 -> Ptr]
    /\ c[1] = handles[irq] /\ c[Len(r) + 1] = NULL
    /\ \A k \in 1 .. Len(r) : /\ c[k] # NULL
                              /\ handle_pool[c[k]].routine = r[k]
                              /\ handle_pool[c[k]].next = c[k + 1]

\* Along the list of an irq the loop calls the routines that were registered for it.
LEMMA WalkTheChain ==
    ASSUME NEW irq \in Irqs, NEW c, IsChain(irq, c), registered[irq] \in Seq(Routine),
           Len(registered[irq]) <= NR_IRQ_HANDLE
    PROVE  Walk(handles[irq]) = registered[irq]
<1> DEFINE r == registered[irq]
           m == Len(r)
           Rest(k) == SubSeq(r, k, m)
           Bad == {n \in 0 .. NR_IRQ_HANDLE :
                      \E k \in 1 .. m + 1 : m + 1 - k <= n /\ Calls[n][c[k]] # Rest(k)}
<1>1. r \in Seq(Routine) /\ m \in Nat /\ m <= NR_IRQ_HANDLE /\ NR_IRQ_HANDLE \in Nat
    BY KernelAssumption
<1>2. /\ c \in [1 .. m + 1 -> Ptr] /\ c[1] = handles[irq] /\ c[m + 1] = NULL
      /\ \A k \in 1 .. m : /\ c[k] # NULL /\ handle_pool[c[k]].routine = r[k]
                           /\ handle_pool[c[k]].next = c[k + 1]
    BY DEF IsChain
<1>3. Rest(m + 1) = <<>> /\ Rest(1) = r
    BY <1>1, SubSeqEmpty, SubSeqFull
<1>4. ASSUME NEW k \in 1 .. m PROVE Rest(k) = <<r[k]>> \o Rest(k + 1)
    <2> HIDE DEF r
    <2>1. k \in 1 .. Len(r) /\ m \in k .. Len(r)
        BY <1>1
    <2> QED BY <1>1, <2>1, SubSeqRecursiveFirst
<1> HIDE DEF r, m, Rest
<1>5. Bad = {}
    <2> SUFFICES ASSUME Bad # {} PROVE FALSE
        OBVIOUS
    <2> DEFINE n == Min(Bad)
    <2>1. n \in Bad /\ \A j \in Bad : n <= j
        <3>1. Bad \subseteq Nat
            BY <1>1
        <3> HIDE DEF Bad
        <3> QED BY <3>1, MinIsElement
    <2> HIDE DEF n
    <2>2. PICK k \in 1 .. m + 1 : m + 1 - k <= n /\ Calls[n][c[k]] # Rest(k)
        BY <2>1
    <2>3. n \in 0 .. NR_IRQ_HANDLE /\ c[k] \in Ptr
        BY <1>2, <2>1
    <2>4. CASE n = 0
        <3>1. k = m + 1
            BY <1>1, <2>2, <2>4
        <3> QED BY <1>1, <1>3, <2>2, <2>3, <2>4, <3>1, CallsRecursion
    <2>5. CASE n # 0
        <3>1. n \in 1 .. NR_IRQ_HANDLE /\ n - 1 \in 0 .. NR_IRQ_HANDLE /\ ~(n <= n - 1)
            BY <1>1, <2>3, <2>5
        <3>2. Calls[n][c[k]] = IF c[k] = NULL THEN <<>>
                  ELSE <<handle_pool[c[k]].routine>> \o Calls[n - 1][handle_pool[c[k]].next]
            <4>1. Calls[n] = OneMore(Calls[n - 1])
                BY <1>1, <3>1, CallsRecursion
            <4> QED BY <2>3, <4>1 DEF OneMore
        <3>3. CASE k = m + 1
            BY <1>2, <1>3, <2>2, <3>2, <3>3
        <3>4. CASE k # m + 1
            <4>1. k \in 1 .. m /\ k + 1 \in 1 .. m + 1 /\ m + 1 - (k + 1) <= n - 1
                BY <1>1, <2>2, <2>3, <3>4
            <4>2. Calls[n - 1][c[k + 1]] = Rest(k + 1)
                BY <2>1, <3>1, <4>1
            <4>3. /\ c[k] # NULL /\ handle_pool[c[k]].routine = r[k]
                  /\ handle_pool[c[k]].next = c[k + 1]
                BY <1>2, <4>1
            <4>4. Calls[n][c[k]] = <<r[k]>> \o Rest(k + 1)
                BY <3>2, <4>2, <4>3
            <4> QED BY <1>4, <2>2, <4>1, <4>4
        <3> QED BY <3>3, <3>4
    <2> QED BY <2>4, <2>5
<1>6. Calls[NR_IRQ_HANDLE][c[1]] = Rest(1)
    <2>1. NR_IRQ_HANDLE \in 0 .. NR_IRQ_HANDLE /\ 1 \in 1 .. m + 1 /\ m + 1 - 1 <= NR_IRQ_HANDLE
        BY <1>1
    <2> QED BY <1>5, <2>1
<1> QED BY <1>2, <1>3, <1>6 DEF Walk, r

-----------------------------------------------------------------------------
(* The registrations.                                                      *)

\* The elements of the pool that are linked: not the one that add_irq_handle has in
\* hand, which no list reaches before its successor is set.
Linked == IF add = "idle" THEN handle_count ELSE handle_count - 1

IrqTypes ==
    /\ todo \in Seq(Irqs \X Routine)
    /\ add \in {"idle", "routine", "next", "link"} /\ ptr \in Ptr
    /\ handle_pool \in [0 .. NR_IRQ_HANDLE - 1 -> [routine : Routine, next : Ptr]]
    /\ handles \in [Irqs -> Ptr] /\ handle_count \in Ptr
    /\ registered \in [Irqs -> Seq(Routine)]

InHand ==
    /\ add # "idle" => handle_count > 0 /\ ptr = handle_count - 1 /\ todo # <<>>
    /\ add \in {"next", "link"} => handle_pool[ptr].routine = Head(todo)[2]
    /\ add = "link" => handle_pool[ptr].next = handles[Head(todo)[1]]
    /\ pc = "loader" => add = "idle"

LinkedChain(irq, c) == /\ IsChain(irq, c)
                       /\ \A k \in 1 .. Len(registered[irq]) : c[k] < Linked

Chains == \A irq \in Irqs : /\ Len(registered[irq]) <= Linked
                            /\ \E c : LinkedChain(irq, c)

IrqInv == IrqTypes /\ InHand /\ Chains /\ DispatchComplete

\* init_ide starts with empty lists.
LEMMA InitIrq == KInit => IrqInv
<1> SUFFICES ASSUME KInit PROVE IrqInv
    OBVIOUS
<1>1. NR_IRQ_HANDLE \in Nat /\ NULL \in Ptr /\ 0 \in Ptr
    BY KernelAssumption DEF NULL, Ptr
<1>2. todo \in Seq(Irqs \X Routine)
    <2>1. <<0, "ide_writeback">> \in Irqs \X Routine /\ <<14, "ide_intr">> \in Irqs \X Routine
        BY DEF Irqs, Routine
    <2> QED BY <2>1 DEF KInit, KernelHandlers
<1>3. IrqTypes
    <2>1. "null" \in Routine /\ <<>> \in Seq(Routine)
        BY DEF Routine
    <2> QED BY <1>1, <1>2, <2>1 DEF KInit, IrqTypes
<1>4. Chains
    <2> SUFFICES ASSUME NEW irq \in Irqs
                 PROVE  Len(registered[irq]) <= Linked /\ \E c : LinkedChain(irq, c)
        BY DEF Chains
    <2>1. registered[irq] = <<>> /\ Len(registered[irq]) = 0 /\ Linked = 0 /\ handles[irq] = NULL
        BY DEF KInit, Linked
    <2>2. LinkedChain(irq, [k \in 1 .. 1 |-> NULL])
        BY <1>1, <2>1 DEF LinkedChain, IsChain
    <2> QED BY <2>1, <2>2
<1>5. DispatchComplete
    BY DEF KInit, Quiet, NR_HARD_INTR, Irqs, DispatchComplete
<1> QED BY <1>3, <1>4, <1>5 DEF KInit, IrqInv, InHand

\* No interrupt: nothing to compare.
LEMMA QuietDispatch == called' = Quiet => DispatchComplete'
BY DEF Quiet, NR_HARD_INTR, Irqs, DispatchComplete

\* A step that leaves the lists alone and changes only the element in hand keeps them.
LEMMA KeepChains ==
    ASSUME IrqTypes, Chains, UNCHANGED <<handles, registered>>, Linked' = Linked,
           Linked \in Nat, Linked <= NR_IRQ_HANDLE,
           \A p \in 0 .. Linked - 1 : handle_pool'[p] = handle_pool[p]
    PROVE  Chains'
<1> SUFFICES ASSUME NEW irq \in Irqs
             PROVE  Len(registered'[irq]) <= Linked' /\ \E c : LinkedChain(irq, c)'
    BY DEF Chains
<1>1. PICK c : LinkedChain(irq, c)
    BY DEF Chains
<1>2. \A k \in 1 .. Len(registered[irq]) : c[k] \in 0 .. Linked - 1
    BY <1>1, KernelAssumption DEF LinkedChain, IsChain, Ptr
<1>3. LinkedChain(irq, c)'
    BY <1>1, <1>2 DEF LinkedChain, IsChain
<1> QED BY <1>3 DEF Chains

\* Steps elsewhere in the kernel.
LEMMA KeepIrq ==
    ASSUME IrqInv, UNCHANGED <<add, ptr, handle_pool, handles, handle_count, registered>>,
           add = "idle" \/ (todo' = todo /\ pc' = pc), todo' \in Seq(Irqs \X Routine)
    PROVE  IrqTypes' /\ InHand' /\ Chains'
<1>1. IrqTypes' /\ InHand'
    BY DEF IrqInv, IrqTypes, InHand
<1>2. Linked' = Linked /\ Linked \in Nat /\ Linked <= NR_IRQ_HANDLE
    BY KernelAssumption DEF IrqInv, IrqTypes, InHand, Linked, Ptr
<1>3. Chains'
    BY <1>2, KeepChains DEF IrqInv
<1> QED BY <1>1, <1>3

\* add_irq_handle takes an element, ...
LEMMA AddBeginIrq == ASSUME IrqInv, AddBegin, called' = Quiet, pc' = pc PROVE IrqInv'
<1>1. CASE handle_count < NR_IRQ_HANDLE
    <2>1. /\ add = "idle" /\ pc # "loader" /\ todo # <<>> /\ ptr' = handle_count /\ add' = "routine"
          /\ handle_count' = handle_count + 1
          /\ UNCHANGED <<todo, handle_pool, handles, registered>>
        BY <1>1 DEF AddBegin
    <2>2. handle_count \in Nat /\ handle_count' \in Ptr /\ ptr' \in Ptr
        BY <1>1, <2>1, KernelAssumption DEF IrqInv, IrqTypes, Ptr
    <2>3. Linked' = Linked /\ Linked \in Nat /\ Linked <= NR_IRQ_HANDLE
        BY <1>1, <2>1, <2>2, KernelAssumption DEF Linked
    <2>4. Chains'
        BY <2>1, <2>3, KeepChains DEF IrqInv
    <2>5. IrqTypes'
        BY <2>1, <2>2 DEF IrqInv, IrqTypes
    <2> QED BY <2>1, <2>2, <2>4, <2>5, QuietDispatch DEF IrqInv, InHand
<1>2. CASE ~(handle_count < NR_IRQ_HANDLE)
    <2>1. UNCHANGED <<todo, add, ptr, handle_pool, handles, handle_count, registered>>
        BY <1>2 DEF AddBegin
    <2>2. todo' \in Seq(Irqs \X Routine)
        BY <2>1 DEF IrqInv, IrqTypes
    <2> QED BY <2>1, <2>2, KeepIrq, QuietDispatch DEF IrqInv
<1> QED BY <1>1, <1>2

\* ... fills it, ...
LEMMA AddRoutineIrq == ASSUME IrqInv, AddRoutine \/ AddNext, called' = Quiet, pc' = pc PROVE IrqInv'
<1>1. /\ add \in {"routine", "next"} /\ add' # "idle" /\ add' \in {"next", "link"}
      /\ UNCHANGED <<todo, ptr, handles, handle_count, registered>>
    BY DEF AddRoutine, AddNext
<1>2. /\ handle_count \in Nat /\ handle_count > 0 /\ handle_count <= NR_IRQ_HANDLE
      /\ ptr = handle_count - 1 /\ todo # <<>> /\ ptr \in 0 .. NR_IRQ_HANDLE - 1
      /\ Linked' = Linked /\ Linked = ptr
    BY <1>1, KernelAssumption DEF IrqInv, IrqTypes, InHand, Ptr, Linked
<1>3. Head(todo) \in Irqs \X Routine
    BY <1>2 DEF IrqInv, IrqTypes
<1>4. Head(todo)[1] \in Irqs /\ Head(todo)[2] \in Routine
    BY <1>3
<1>5. handle_pool \in [0 .. NR_IRQ_HANDLE - 1 -> [routine : Routine, next : Ptr]]
    BY DEF IrqInv, IrqTypes
<1> DEFINE name == Head(todo)[2]
           old == handles[Head(todo)[1]]
<1>6. old \in Ptr /\ name \in Routine
    BY <1>4 DEF IrqInv, IrqTypes
<1> HIDE DEF Linked, name, old
<1>7. CASE AddRoutine
    <2>1. handle_pool' = [handle_pool EXCEPT ![ptr].routine = name] /\ add' = "next"
        BY <1>7 DEF AddRoutine, name
    <2>2. /\ handle_pool' \in [0 .. NR_IRQ_HANDLE - 1 -> [routine : Routine, next : Ptr]]
          /\ handle_pool'[ptr].routine = name
        BY <1>2, <1>5, <1>6, <2>1
    <2>3. \A p \in 0 .. Linked - 1 : handle_pool'[p] = handle_pool[p]
        BY <1>2, <1>5, <2>1
    <2>4. Chains'
        <3>1. /\ IrqTypes /\ Chains /\ UNCHANGED <<handles, registered>> /\ Linked' = Linked
              /\ Linked \in Nat /\ Linked <= NR_IRQ_HANDLE
            BY <1>1, <1>2, KernelAssumption DEF IrqInv
        <3> QED BY <2>3, <3>1, KeepChains
    <2> QED BY <1>1, <1>2, <2>1, <2>2, <2>4, QuietDispatch
               DEF IrqInv, IrqTypes, InHand, name
<1>8. CASE AddNext
    <2>1. /\ handle_pool' = [handle_pool EXCEPT ![ptr].next = old]
          /\ add = "next" /\ add' = "link"
        BY <1>8 DEF AddNext, old
    <2>2. /\ handle_pool' \in [0 .. NR_IRQ_HANDLE - 1 -> [routine : Routine, next : Ptr]]
          /\ handle_pool'[ptr].routine = handle_pool[ptr].routine
          /\ handle_pool'[ptr].next = old
        BY <1>2, <1>5, <1>6, <2>1
    <2>3. \A p \in 0 .. Linked - 1 : handle_pool'[p] = handle_pool[p]
        BY <1>2, <1>5, <2>1
    <2>4. Chains'
        <3>1. /\ IrqTypes /\ Chains /\ UNCHANGED <<handles, registered>> /\ Linked' = Linked
              /\ Linked \in Nat /\ Linked <= NR_IRQ_HANDLE
            BY <1>1, <1>2, KernelAssumption DEF IrqInv
        <3> QED BY <2>3, <3>1, KeepChains
    <2> QED BY <1>1, <1>2, <2>1, <2>2, <2>4, QuietDispatch
               DEF IrqInv, IrqTypes, InHand, old
<1> QED BY <1>7, <1>8

\* ... and puts it in front of its list.
LEMMA AddLinkIrq == ASSUME IrqInv, AddLink, called' = Quiet, pc' = pc PROVE IrqInv'
<1> DEFINE q == Head(todo)[1]
           name == Head(todo)[2]
           m == Len(registered[q])
<1>1. /\ add = "link" /\ add' = "idle" /\ todo' = Tail(todo)
      /\ handles' = [handles EXCEPT ![q] = ptr]
      /\ registered' = [registered EXCEPT ![q] = <<name>> \o registered[q]]
      /\ UNCHANGED <<ptr, handle_pool, handle_count>>
    BY DEF AddLink
<1>2. /\ handle_count \in Nat /\ handle_count > 0 /\ handle_count <= NR_IRQ_HANDLE
      /\ ptr = handle_count - 1 /\ todo # <<>> /\ ptr \in 0 .. NR_IRQ_HANDLE - 1
      /\ NULL = NR_IRQ_HANDLE /\ ptr \in Ptr /\ Linked = ptr /\ Linked' = ptr + 1
    BY <1>1, KernelAssumption DEF IrqInv, IrqTypes, InHand, Ptr, Linked, NULL
<1>3. Head(todo) \in Irqs \X Routine /\ Tail(todo) \in Seq(Irqs \X Routine)
    BY <1>2, HeadTailProperties DEF IrqInv, IrqTypes
<1>4. q \in Irqs /\ name \in Routine
    BY <1>3
<1>5. handle_pool[ptr].routine = name /\ handle_pool[ptr].next = handles[q]
    BY <1>1 DEF IrqInv, InHand
<1> HIDE DEF q, name, Linked
<1>6. registered[q] \in Seq(Routine) /\ m \in Nat /\ m <= ptr
    BY <1>2, <1>4 DEF IrqInv, IrqTypes, Chains
<1>7. /\ registered'[q] \in Seq(Routine) /\ Len(registered'[q]) = m + 1
      /\ registered'[q][1] = name
      /\ \A k \in 1 .. m : registered'[q][k + 1] = registered[q][k]
    <2>1. registered'[q] = <<name>> \o registered[q]
        BY <1>1, <1>4 DEF IrqInv, IrqTypes
    <2>2. <<name>> \in Seq(Routine) /\ Len(<<name>>) = 1 /\ <<name>>[1] = name
        BY <1>4
    <2>3. \A k \in 1 .. m : k + 1 \in 1 .. 1 + m /\ ~(k + 1 <= 1) /\ (k + 1) - 1 = k
        BY <1>6
    <2> QED BY <1>6, <2>1, <2>2, <2>3, ConcatProperties
<1>8. /\ handles'[q] = ptr
      /\ \A irq \in Irqs \ {q} : handles'[irq] = handles[irq] /\ registered'[irq] = registered[irq]
    BY <1>1, <1>4 DEF IrqInv, IrqTypes
<1>9. IrqTypes'
    <2>1. handles' \in [Irqs -> Ptr]
        BY <1>1, <1>2 DEF IrqInv, IrqTypes
    <2>2. registered' \in [Irqs -> Seq(Routine)]
        BY <1>1, <1>7, <1>8 DEF IrqInv, IrqTypes
    <2> QED BY <1>1, <1>3, <2>1, <2>2 DEF IrqInv, IrqTypes
<1>10. Chains'
    <2> SUFFICES ASSUME NEW irq \in Irqs
                 PROVE  Len(registered'[irq]) <= Linked' /\ \E c : LinkedChain(irq, c)'
        BY DEF Chains
    <2>1. PICK c : LinkedChain(irq, c)
        BY DEF IrqInv, Chains
    <2>2. CASE irq # q
        <3>1. Len(registered[irq]) \in Nat /\ Len(registered[irq]) <= ptr
            BY <1>2 DEF IrqInv, IrqTypes, Chains
        <3>2. \A k \in 1 .. Len(registered[irq]) : c[k] \in Nat /\ c[k] < ptr
            BY <1>2, <2>1, KernelAssumption DEF LinkedChain, IsChain, Ptr
        <3>3. LinkedChain(irq, c)'
            BY <1>1, <1>2, <1>8, <2>1, <2>2, <3>2 DEF LinkedChain, IsChain
        <3> QED BY <1>2, <1>8, <2>2, <3>1, <3>3
    <2>3. CASE irq = q
        <3>0. PICK e : e = [k \in 1 .. m + 2 |-> IF k = 1 THEN ptr ELSE c[k - 1]]
            OBVIOUS
        <3>1. /\ c \in [1 .. m + 1 -> Ptr] /\ c[1] = handles[q] /\ c[m + 1] = NULL
              /\ \A k \in 1 .. m : /\ c[k] # NULL /\ c[k] < ptr
                                   /\ handle_pool[c[k]].routine = registered[q][k]
                                   /\ handle_pool[c[k]].next = c[k + 1]
            BY <1>2, <2>1, <2>3 DEF LinkedChain, IsChain
        <3> HIDE DEF m
        <3>2. e \in [1 .. (m + 1) + 1 -> Ptr] /\ e[1] = ptr /\ e[(m + 1) + 1] = NULL
            BY <1>2, <1>6, <3>0, <3>1
        <3>3. ASSUME NEW k \in 1 .. m + 1
              PROVE  /\ e[k] # NULL /\ e[k] < ptr + 1
                     /\ handle_pool[e[k]].routine = registered'[q][k]
                     /\ handle_pool[e[k]].next = e[k + 1]
            <4>1. CASE k = 1
                BY <1>2, <1>5, <1>6, <1>7, <3>0, <3>1, <4>1
            <4>2. CASE k # 1
                <5>1. k - 1 \in 1 .. m /\ e[k] = c[k - 1] /\ e[k + 1] = c[(k - 1) + 1]
                    BY <1>6, <3>0, <4>2
                <5>2. c[k - 1] \in Ptr /\ c[k - 1] < ptr
                    BY <1>6, <3>1, <5>1
                <5>3. registered'[q][k] = registered[q][k - 1]
                    <6>1. registered'[q][(k - 1) + 1] = registered[q][k - 1]
                        BY <1>7, <5>1
                    <6> QED BY <6>1
                <5>4. c[k - 1] < ptr + 1
                    BY <1>2, <5>2, KernelAssumption DEF Ptr
                <5> QED BY <3>1, <5>1, <5>3, <5>4
            <4> QED BY <4>1, <4>2
        <3>4. LinkedChain(irq, e)'
            <4>1. /\ Len(registered'[irq]) = m + 1 /\ handles'[irq] = ptr
                  /\ handle_pool' = handle_pool /\ Linked' = ptr + 1
                BY <1>1, <1>2, <1>7, <1>8, <2>3
            <4> QED BY <2>3, <3>2, <3>3, <4>1 DEF LinkedChain, IsChain
        <3>5. m + 1 <= ptr + 1
            BY <1>2, <1>6
        <3> QED BY <1>2, <1>7, <2>3, <3>4, <3>5
    <2> QED BY <2>2, <2>3
<1> QED BY <1>1, <1>9, <1>10, QuietDispatch DEF IrqInv, InHand

\* An interrupt finds every list complete.
LEMMA IrqHandleIrq == ASSUME IrqInv, NEW irq \in Irqs, IrqHandle(irq) PROVE IrqInv'
<1>1. /\ called' = <<irq, Walk(handles[irq])>> /\ pc' = pc
      /\ UNCHANGED <<todo, add, ptr, handle_pool, handles, handle_count, registered>>
    BY DEF IrqHandle, irqs
<1>2. PICK c : LinkedChain(irq, c)
    BY DEF IrqInv, Chains
<1>3. registered[irq] \in Seq(Routine) /\ Len(registered[irq]) <= NR_IRQ_HANDLE
    <2>1. /\ registered[irq] \in Seq(Routine) /\ Len(registered[irq]) \in Nat
          /\ Linked \in Int /\ Linked <= NR_IRQ_HANDLE /\ Len(registered[irq]) <= Linked
        BY KernelAssumption DEF IrqInv, IrqTypes, Chains, Linked, Ptr
    <2> QED BY <2>1, KernelAssumption
<1>4. Walk(handles[irq]) = registered[irq]
    BY <1>2, <1>3, WalkTheChain DEF LinkedChain
<1>5. DispatchComplete'
    BY <1>1, <1>4 DEF DispatchComplete
<1>6. todo' \in Seq(Irqs \X Routine)
    BY <1>1 DEF IrqInv, IrqTypes
<1> QED BY <1>1, <1>5, <1>6, KeepIrq DEF IrqInv

\* The start of the program leaves its two handlers to be registered.
LEMMA LoaderIrq == ASSUME IrqInv, Loader PROVE IrqInv'
<1>1. GameHandlers \in Seq(Irqs \X Routine)
    <2>1. <<0, "timer_event">> \in Irqs \X Routine /\ <<1, "keyboard_event">> \in Irqs \X Routine
        BY DEF Irqs, Routine
    <2> QED BY <2>1 DEF GameHandlers
<1>2. todo' \in Seq(Irqs \X Routine) /\ called' = Quiet
    BY <1>1 DEF Loader, StartProgram, IrqInv, IrqTypes
<1>3. UNCHANGED <<add, ptr, handle_pool, handles, handle_count, registered>> /\ add = "idle"
    BY DEF Loader, LoadSegment, StartProgram, IrqInv, InHand
<1> QED BY <1>2, <1>3, KeepIrq, QuietDispatch DEF IrqInv

\* No step of the kernel lets a list become incomplete.
LEMMA NextIrq == IrqInv /\ [KNext]_kvars => IrqInv'
<1> SUFFICES ASSUME IrqInv, [KNext]_kvars PROVE IrqInv'
    OBVIOUS
<1>1. CASE AddIrqHandle
    BY <1>1, AddBeginIrq, AddRoutineIrq, AddLinkIrq DEF AddIrqHandle
<1>2. CASE Continue \/ FileCall \/ \E new \in HeapEnds : Sbrk(new)
    <2>1. /\ UNCHANGED <<todo, add, ptr, handle_pool, handles, handle_count, registered>>
          /\ called' = Quiet /\ (pc' = pc \/ add = "idle")
        BY <1>2 DEF Continue, FileCall, Sbrk, OutOfFrames, irqs
    <2>2. todo' \in Seq(Irqs \X Routine)
        BY <2>1 DEF IrqInv, IrqTypes
    <2> QED BY <2>1, <2>2, KeepIrq, QuietDispatch DEF IrqInv
<1>3. CASE UNCHANGED kvars
    <2>1. UNCHANGED <<todo, add, ptr, handle_pool, handles, handle_count, registered, called, pc>>
        BY <1>3 DEF kvars, irqs
    <2>2. todo' \in Seq(Irqs \X Routine) /\ DispatchComplete'
        BY <2>1 DEF IrqInv, IrqTypes, DispatchComplete
    <2> QED BY <2>1, <2>2, KeepIrq DEF IrqInv
<1> QED BY <1>1, <1>2, <1>3, LoaderIrq, IrqHandleIrq DEF KNext

\* An interrupt at any point, also inside add_irq_handle, calls exactly the routines
\* registered for it, each once and the newest first, however large the pool is.
THEOREM EveryHandlerCalled == KSpec => []DispatchComplete
<1>1. IrqInv => DispatchComplete
    BY DEF IrqInv
<1> QED BY <1>1, InitIrq, NextIrq, PTL DEF KSpec
-----------------------------------------------------------------------------
(* mm_malloc.                                                              *)

\* The pages of a range, those of them that are not present, and how many of these
\* come before page p.
PagesOf(va, len) == IF len > 0 THEN PageOf(va) .. PageOf(va + len - 1) ELSE {}
Fresh(va, len) == {p \in PagesOf(va, len) : pt[p] = 0}
Nth(S, p) == Cardinality({q \in S : q < p})

\* The page tables: every page has a frame of its own that was handed out.
MapInv == /\ pt \in [Page -> 0 .. Frames] /\ free \in 1 .. Frames + 1
          /\ \A p \in Page : pt[p] < free
          /\ \A p, q \in Page : p # q /\ pt[p] # 0 => pt[p] # pt[q]

\* What mm_malloc(va, len) promises of the pages R: they are present, pages that were
\* present keep their frames, and new frames come from the free ones.
Maps(m, R) == /\ m.free \in Nat /\ m.free >= free
              /\ m.pt \in [Page -> Nat]
              /\ \A p \in Page : pt[p] # 0 => m.pt[p] = pt[p]
              /\ \A p \in R : m.pt[p] # 0
              /\ \A p \in Page \ R : m.pt[p] = pt[p]
              /\ \A p \in Page : m.pt[p] < m.free
              /\ \A p, q \in Page : p # q /\ m.pt[p] # 0 => m.pt[p] # m.pt[q]

\* The sizes of the memory.
LEMMA MemorySizes == /\ PG \in Nat \ {0} /\ Frames \in Nat /\ StackPage \in Nat
                     /\ Page \subseteq Nat /\ \A p \in Page : p <= StackPage
BY KernelAssumption DEF Page

\* Frames are counted up over the new pages.
LEMMA Counting ==
    ASSUME NEW S, S \subseteq Page
    PROVE  /\ Cardinality(S) \in Nat
           /\ \A p \in S : Nth(S, p) \in Nat /\ Nth(S, p) < Cardinality(S)
           /\ \A p, q \in S : p < q => Nth(S, p) < Nth(S, q)
<1>1. IsFiniteSet(S)
    <2>1. IsFiniteSet(0 .. StackPage)
        BY MemorySizes, FS_Interval
    <2> QED BY <2>1, FS_Subset DEF Page
<1>2. \A T \in SUBSET S : IsFiniteSet(T) /\ Cardinality(T) \in Nat
    BY <1>1, FS_Subset, FS_CardinalityType
<1>3. ASSUME NEW T \in SUBSET S, NEW U \in SUBSET T, U # T
      PROVE  Cardinality(U) < Cardinality(T)
    <2>1. IsFiniteSet(T) /\ Cardinality(T) \in Nat /\ Cardinality(U) \in Nat
        BY <1>2
    <2>2. Cardinality(U) <= Cardinality(T) /\ (Cardinality(U) = Cardinality(T) => U = T)
        BY <2>1, FS_Subset
    <2> QED BY <1>3, <2>1, <2>2
<1> DEFINE Below(p) == {q \in S : q < p}
<1>4. ASSUME NEW p \in S
      PROVE  Nth(S, p) \in Nat /\ Nth(S, p) < Cardinality(S)
    <2>1. Below(p) \in SUBSET S /\ p \notin Below(p)
        BY MemorySizes
    <2>2. Below(p) # S /\ S \in SUBSET S
        BY <2>1
    <2> HIDE DEF Below
    <2>3. Cardinality(Below(p)) \in Nat
        BY <1>2, <2>1
    <2>4. Cardinality(Below(p)) < Cardinality(S)
        BY <1>3, <2>1, <2>2
    <2> QED BY <2>3, <2>4 DEF Nth, Below
<1>5. ASSUME NEW p \in S, NEW q \in S, p < q
      PROVE  Nth(S, p) < Nth(S, q)
    <2>1. Below(q) \in SUBSET S /\ Below(p) \in SUBSET Below(q)
        <3>1. ASSUME NEW x \in S, x < p PROVE x < q
            <4>1. x \in Nat /\ p \in Nat /\ q \in Nat
                BY MemorySizes
            <4> QED BY <1>5, <3>1, <4>1
        <3> QED BY <3>1
    <2>2. p \in Below(q) /\ p \notin Below(p)
        BY <1>5, MemorySizes
    <2> HIDE DEF Below
    <2>3. Cardinality(Below(p)) < Cardinality(Below(q))
        BY <1>3, <2>1, <2>2
    <2> QED BY <2>3 DEF Nth, Below
<1> QED BY <1>2, <1>4, <1>5

\* mm_malloc keeps that promise.
LEMMA MmMallocMaps ==
    ASSUME MapInv, NEW va, NEW len, PagesOf(va, len) \subseteq Page
    PROVE  Maps(MmMalloc(va, len), PagesOf(va, len))
<1> DEFINE m == MmMalloc(va, len)
           R == PagesOf(va, len)
           S == Fresh(va, len)
<1>1. /\ m.pt = [p \in Page |-> IF p \in S THEN free + Nth(S, p) ELSE pt[p]]
      /\ m.free = free + Cardinality(S)
    BY DEF MmMalloc, Fresh, PagesOf, Nth
<1>2. /\ S \subseteq Page /\ \A p \in S : pt[p] = 0
      /\ \A p \in R : p \in Page /\ (p \notin S => pt[p] # 0)
      /\ S \subseteq R
    BY DEF Fresh
<1> HIDE DEF S, R, m
<1>3. /\ Cardinality(S) \in Nat
      /\ \A p \in S : Nth(S, p) \in Nat /\ Nth(S, p) < Cardinality(S)
      /\ \A p, q \in S : p < q => Nth(S, p) < Nth(S, q)
    BY <1>2, Counting
<1>4. /\ free \in Nat \ {0} /\ \A p \in Page : pt[p] \in Nat /\ pt[p] < free
      /\ \A p, q \in Page : p # q /\ pt[p] # 0 => pt[p] # pt[q]
    BY MemorySizes DEF MapInv
<1>5. m.free \in Nat /\ m.free >= free
    BY <1>1, <1>3, <1>4
<1>6. /\ \A p \in S : m.pt[p] = free + Nth(S, p)
      /\ \A p \in Page \ S : m.pt[p] = pt[p]
    BY <1>1, <1>2
<1>7. m.pt \in [Page -> Nat]
    <2>1. \A p \in Page : (IF p \in S THEN free + Nth(S, p) ELSE pt[p]) \in Nat
        BY <1>3, <1>4
    <2> QED BY <1>1, <2>1
<1>8. \A p \in Page : pt[p] # 0 => m.pt[p] = pt[p]
    BY <1>2, <1>6
<1>9. \A p \in R : m.pt[p] # 0
    <2> SUFFICES ASSUME NEW p \in R PROVE m.pt[p] # 0
        OBVIOUS
    <2>1. CASE p \in S
        BY <1>3, <1>4, <1>6, <2>1
    <2>2. CASE p \notin S
        BY <1>2, <1>6, <2>2
    <2> QED BY <2>1, <2>2
<1>10. \A p \in Page \ R : m.pt[p] = pt[p]
    BY <1>2, <1>6
<1>11. \A p \in Page : m.pt[p] < m.free
    <2> SUFFICES ASSUME NEW p \in Page PROVE m.pt[p] < m.free
        OBVIOUS
    <2>1. CASE p \in S
        BY <1>1, <1>3, <1>4, <1>6, <2>1
    <2>2. CASE p \notin S
        BY <1>4, <1>5, <1>6, <2>2
    <2> QED BY <2>1, <2>2
<1>12. ASSUME NEW p \in Page, NEW q \in Page, p # q, m.pt[p] # 0 PROVE m.pt[p] # m.pt[q]
    <2>1. CASE p \in S /\ q \in S
        <3>1. p < q \/ q < p
            BY <1>12, MemorySizes
        <3>2. Nth(S, p) # Nth(S, q)
            BY <1>3, <2>1, <3>1
        <3> QED BY <1>3, <1>4, <1>6, <2>1, <3>2
    <2>2. CASE p \in S /\ q \notin S
        BY <1>3, <1>4, <1>6, <2>2
    <2>3. CASE p \notin S /\ q \in S
        BY <1>3, <1>4, <1>6, <2>3
    <2>4. CASE p \notin S /\ q \notin S
        BY <1>4, <1>6, <1>12, <2>4
    <2> QED BY <2>1, <2>2, <2>3, <2>4
<1>13. Maps(m, R)
    BY <1>5, <1>7, <1>8, <1>9, <1>10, <1>11, <1>12 DEF Maps
<1> QED BY <1>13 DEF m, R

\* Addresses below the stack have a page, and pages are ordered like the addresses.
LEMMA PageOfAddress ==
    ASSUME NEW a \in Nat
    PROVE  /\ PageOf(a) \in Nat /\ a % PG \in 0 .. PG - 1 /\ a = PageOf(a) * PG + (a % PG)
           /\ a < (StackPage + 1) * PG => PageOf(a) \in Page
           /\ \A b \in Nat : a <= b => PageOf(a) <= PageOf(b)
<1>1. /\ PageOf(a) \in Nat /\ a % PG \in 0 .. PG - 1 /\ a = PageOf(a) * PG + (a % PG)
      /\ \A b \in Nat : a <= b => PageOf(a) <= PageOf(b)
    BY MemorySizes, DivMod, DivMonotone DEF PageOf
<1>2. a < (StackPage + 1) * PG => PageOf(a) < StackPage + 1
    BY MemorySizes, DivMonotone DEF PageOf
<1> QED BY <1>1, <1>2, MemorySizes DEF Page

\* Two addresses that are present are at different places of memory.
LEMMA PhyInjective ==
    ASSUME NEW t, t \in [Page -> Nat], NEW a \in Nat, NEW b \in Nat,
           PageOf(a) \in Page, PageOf(b) \in Page, t[PageOf(a)] # 0,
           \A p, q \in Page : p # q /\ t[p] # 0 => t[p] # t[q],
           Phy(t, a) = Phy(t, b)
    PROVE  a = b
<1> DEFINE f == t[PageOf(a)]
           g == t[PageOf(b)]
           x == a % PG
           y == b % PG
<1>1. f \in Nat /\ g \in Nat /\ x \in 0 .. PG - 1 /\ y \in 0 .. PG - 1 /\ PG \in Nat \ {0}
    BY MemorySizes, PageOfAddress
<1>2. f * PG + x = g * PG + y
    BY DEF Phy
<1> HIDE DEF f, g, x, y
<1>3. f = g /\ x = y
    BY <1>1, <1>2, DivModUnique
<1>4. PageOf(a) = PageOf(b)
    BY <1>3 DEF f, g
<1> QED BY <1>3, <1>4, PageOfAddress DEF x, y
-----------------------------------------------------------------------------
(* The loader.                                                             *)

EndOf(s) == image[s].vaddr + image[s].memsz

\* While segments are loaded, no page behind them is present, and the last page that
\* is present has the last frame that was handed out: a segment that continues in it
\* finds the frames of its other pages behind it.
LoaderInv ==
    /\ image \in Images /\ seg \in 0 .. Len(image)
    /\ pc \in {"init_ide", "loader"} =>
          /\ \A p \in Page : pt[p] # 0 =>
                \E s \in 1 .. seg : image[s].memsz > 0 /\ p <= PageOf(EndOf(s) - 1)
          /\ \A p \in Page : pt[p] # 0 /\ (\A q \in Page : pt[q] # 0 => q <= p) =>
                pt[p] = free - 1

\* The segments of a program.
LEMMA Segments ==
    ASSUME image \in Images, NEW s \in 1 .. Len(image)
    PROVE  /\ image[s].vaddr \in Nat /\ image[s].memsz \in Nat /\ image[s].filesz \in Nat
           /\ image[s].filesz <= image[s].memsz
           /\ EndOf(s) \in Nat /\ EndOf(s) <= StackPage * PG
           /\ \A j \in 1 .. s - 1 : EndOf(j) <= image[s].vaddr
<1>1. /\ image \in Seq([vaddr : Nat, filesz : Nat, memsz : Nat])
      /\ \A k \in DOMAIN image :
            /\ image[k].filesz <= image[k].memsz
            /\ image[k].vaddr + image[k].memsz <= StackPage * PG
            /\ \A j \in 1 .. k - 1 : image[j].vaddr + image[j].memsz <= image[k].vaddr
    BY ImageAssumption
<1>2. s \in DOMAIN image /\ image[s] \in [vaddr : Nat, filesz : Nat, memsz : Nat]
    BY <1>1, LenProperties, ElementOfSeq
<1>3. image[s].vaddr \in Nat /\ image[s].memsz \in Nat /\ image[s].filesz \in Nat
    BY <1>2
<1>4. EndOf(s) \in Nat
    BY <1>3 DEF EndOf
<1> QED BY <1>1, <1>2, <1>3, <1>4 DEF EndOf

\* A byte of a segment has a page below the stack.
LEMMA SegmentPages ==
    ASSUME image \in Images, NEW s \in 1 .. Len(image), image[s].memsz > 0
    PROVE  /\ EndOf(s) - 1 \in Nat
           /\ PageOf(image[s].vaddr) \in Page /\ PageOf(EndOf(s) - 1) \in Page
           /\ PageOf(image[s].vaddr) <= PageOf(EndOf(s) - 1)
           /\ \A k \in 0 .. image[s].memsz - 1 :
                 /\ image[s].vaddr + k \in Nat
                 /\ PageOf(image[s].vaddr + k)
                        \in PageOf(image[s].vaddr) .. PageOf(EndOf(s) - 1)
<1> DEFINE v == image[s].vaddr
           z == image[s].memsz
           top == StackPage * PG
<1>1. v \in Nat /\ z \in Nat /\ z > 0 /\ EndOf(s) = v + z /\ v + z <= top
    BY Segments DEF EndOf
<1>2. top \in Nat /\ (StackPage + 1) * PG = top + PG /\ PG \in Nat \ {0}
    BY MemorySizes, SuccTimes
<1> HIDE DEF v, z, top
<1>3. ASSUME NEW a \in Nat, a < v + z PROVE PageOf(a) \in Page
    <2>1. a < (StackPage + 1) * PG
        BY <1>1, <1>2, <1>3
    <2> QED BY <2>1, PageOfAddress
<1>4. v < v + z /\ v + z - 1 \in Nat /\ v + z - 1 < v + z /\ v <= v + z - 1
    BY <1>1
<1>5. PageOf(v) \in Page /\ PageOf(v + z - 1) \in Page /\ PageOf(v) <= PageOf(v + z - 1)
    BY <1>1, <1>3, <1>4, PageOfAddress
<1>6. ASSUME NEW k \in 0 .. z - 1
      PROVE  v + k \in Nat /\ PageOf(v + k) \in PageOf(v) .. PageOf(v + z - 1)
    <2>1. v + k \in Nat /\ v <= v + k /\ v + k <= v + z - 1
        BY <1>1
    <2>2. PageOf(v) <= PageOf(v + k) /\ PageOf(v + k) <= PageOf(v + z - 1)
        BY <1>1, <1>4, <2>1, PageOfAddress
    <2>3. PageOf(v) \in Nat /\ PageOf(v + k) \in Nat /\ PageOf(v + z - 1) \in Nat
        BY <1>1, <1>4, <2>1, PageOfAddress
    <2> QED BY <2>1, <2>2, <2>3
<1> QED BY <1>1, <1>4, <1>5, <1>6 DEF v, z

\* The numbers of a range are counted by their distance from its start.
LEMMA IntervalCount ==
    ASSUME NEW a \in Nat, NEW b \in Int, a <= b + 1
    PROVE  /\ Cardinality(a .. b) = b - a + 1
           /\ \A p \in a .. b : Nth(a .. b, p) = p - a
<1>1. Cardinality(a .. b) = b - a + 1
    BY FS_Interval
<1>2. ASSUME NEW p \in a .. b PROVE Nth(a .. b, p) = p - a
    <2>1. {q \in a .. b : q < p} = a .. p - 1
        <3>1. p \in Int /\ a <= p /\ p <= b
            OBVIOUS
        <3>2. \A q : q \in a .. b /\ q < p <=> q \in a .. p - 1
            BY <3>1
        <3> QED BY <3>2
    <2>2. p - 1 \in Int /\ Cardinality(a .. p - 1) = IF a > p - 1 THEN 0 ELSE (p - 1) - a + 1
        BY FS_Interval
    <2>3. Cardinality(a .. p - 1) = p - a
        <3>1. p \in Int /\ a <= p
            OBVIOUS
        <3> QED BY <2>2, <3>1
    <2>4. Nth(a .. b, p) = Cardinality({q \in a .. b : q < p})
        BY DEF Nth
    <2> QED BY <2>1, <2>3, <2>4
<1> QED BY <1>1, <1>2

\* The next segment to load.
NextSegment(s) == pc = "loader" /\ seg < Len(image) /\ s = seg + 1 /\ image[s].memsz > 0

\* The pages of the next segment have adjacent frames, the last of them the last one
\* handed out, also if its first page is one of the segments before.
LEMMA AdjacentFrames ==
    ASSUME MapInv, LoaderInv, NEW s, NextSegment(s)
    PROVE  LET m == MmMalloc(image[s].vaddr, image[s].memsz)
               lo == PageOf(image[s].vaddr)
               hi == PageOf(EndOf(s) - 1)
           IN /\ PagesOf(image[s].vaddr, image[s].memsz) = lo .. hi
              /\ \A p \in Page : pt[p] # 0 => p <= lo
              /\ \A p \in lo .. hi : m.pt[p] = m.pt[lo] + (p - lo)
              /\ m.pt[hi] = m.free - 1
<1> DEFINE v == image[s].vaddr
           z == image[s].memsz
           m == MmMalloc(v, z)
           lo == PageOf(v)
           hi == PageOf(EndOf(s) - 1)
           S == Fresh(v, z)
<1>1. s \in 1 .. Len(image) /\ image \in Images /\ seg \in Nat /\ s = seg + 1 /\ z > 0
      /\ Len(image) \in Nat
    <2>1. image \in Seq([vaddr : Nat, filesz : Nat, memsz : Nat])
        BY ImageAssumption DEF LoaderInv
    <2>2. Len(image) \in Nat
        BY <2>1
    <2> QED BY <2>2 DEF NextSegment, LoaderInv
<1>2. v \in Nat /\ z \in Nat /\ EndOf(s) = v + z
    BY <1>1, Segments DEF EndOf
<1>3. lo \in Page /\ hi \in Page /\ lo <= hi /\ lo \in Nat /\ hi \in Nat /\ lo .. hi \subseteq Page
    <2>1. lo \in Page /\ hi \in Page /\ lo <= hi
        BY <1>1, SegmentPages
    <2> QED BY <2>1, MemorySizes DEF Page
<1>4. PagesOf(v, z) = lo .. hi
    BY <1>1, <1>2 DEF PagesOf
<1>5. ASSUME NEW p \in Page, pt[p] # 0 PROVE p <= lo
    <2>1. PICK j \in 1 .. seg : image[j].memsz > 0 /\ p <= PageOf(EndOf(j) - 1)
        BY <1>5 DEF LoaderInv, NextSegment
    <2>2. j \in 1 .. Len(image) /\ j \in 1 .. s - 1
        BY <1>1
    <2>3. EndOf(j) <= v /\ EndOf(j) \in Nat /\ EndOf(j) - 1 \in Nat
        BY <1>1, <2>1, <2>2, Segments, SegmentPages
    <2>4. EndOf(j) - 1 <= v
        BY <1>2, <2>3
    <2>5. PageOf(EndOf(j) - 1) <= lo /\ PageOf(EndOf(j) - 1) \in Nat
        BY <1>2, <2>3, <2>4, PageOfAddress
    <2> QED BY <1>3, <2>1, <2>5, MemorySizes
<1>6. /\ m.pt = [p \in Page |-> IF p \in S THEN free + Nth(S, p) ELSE pt[p]]
      /\ m.free = free + Cardinality(S) /\ free \in Nat
    BY MemorySizes DEF MmMalloc, Fresh, PagesOf, Nth, MapInv
<1>7. S = {p \in lo .. hi : pt[p] = 0}
    BY <1>4 DEF Fresh
<1> HIDE DEF m, lo, hi, S
<1>8. CASE pt[lo] = 0
    <2>1. S = lo .. hi
        <3>1. ASSUME NEW p \in lo .. hi PROVE pt[p] = 0
            <4> SUFFICES ASSUME pt[p] # 0 PROVE FALSE
                OBVIOUS
            <4>1. p <= lo
                BY <1>3, <1>5
            <4>2. p = lo
                BY <1>3, <4>1
            <4> QED BY <1>8, <4>2
        <3> QED BY <1>7, <3>1
    <2>2. /\ Cardinality(S) = hi - lo + 1
          /\ \A p \in lo .. hi : Nth(S, p) = p - lo
        BY <1>3, <2>1, IntervalCount
    <2>3. \A p \in lo .. hi : m.pt[p] = free + (p - lo)
        BY <1>3, <1>6, <2>1, <2>2
    <2>4. lo \in lo .. hi /\ hi \in lo .. hi
        BY <1>3
    <2>5. m.pt[lo] = free /\ m.pt[hi] = free + (hi - lo) /\ m.free = free + (hi - lo + 1)
        BY <1>3, <1>6, <2>2, <2>3, <2>4
    <2>6. \A p \in lo .. hi : m.pt[p] = m.pt[lo] + (p - lo)
        BY <2>3, <2>5
    <2>7. m.pt[hi] = m.free - 1
        BY <1>3, <1>6, <2>5
    <2> QED BY <1>4, <1>5, <2>6, <2>7 DEF m, lo, hi
<1>9. CASE pt[lo] # 0
    <2>1. pt[lo] = free - 1
        BY <1>3, <1>5, <1>9 DEF LoaderInv, NextSegment
    <2>2. S = lo + 1 .. hi
        <3>1. ASSUME NEW p \in lo .. hi PROVE pt[p] = 0 <=> p # lo
            <4>1. CASE p = lo
                BY <1>9, <4>1
            <4>2. CASE p # lo
                <5>1. ~(p <= lo) /\ p \in Page
                    BY <1>3, <4>2
                <5> QED BY <1>5, <4>2, <5>1
            <4> QED BY <4>1, <4>2
        <3>2. \A p : p \in lo + 1 .. hi <=> p \in lo .. hi /\ p # lo
            BY <1>3
        <3> QED BY <1>7, <3>1, <3>2
    <2>3. /\ Cardinality(S) = hi - (lo + 1) + 1
          /\ \A p \in lo + 1 .. hi : Nth(S, p) = p - (lo + 1)
        BY <1>3, <2>2, IntervalCount
    <2>4. lo \notin S /\ m.pt[lo] = free - 1
        BY <1>3, <1>6, <2>1, <2>2
    <2>5. ASSUME NEW p \in lo .. hi PROVE m.pt[p] = m.pt[lo] + (p - lo)
        <3>1. CASE p = lo
            BY <1>3, <1>6, <2>4, <3>1
        <3>2. CASE p # lo
            <4>1. p \in lo + 1 .. hi /\ p \in S /\ p \in Page
                BY <1>3, <2>2, <3>2
            <4>2. m.pt[p] = free + (p - (lo + 1))
                BY <1>6, <2>3, <4>1
            <4> QED BY <1>3, <1>6, <2>4, <4>2
        <3> QED BY <3>1, <3>2
    <2>6. m.pt[hi] = m.free - 1
        <3>1. m.pt[hi] = (free - 1) + (hi - lo) /\ m.free = free + (hi - (lo + 1) + 1)
            BY <1>3, <1>6, <2>3, <2>4, <2>5
        <3> QED BY <1>3, <1>6, <3>1
    <2> QED BY <1>4, <1>5, <2>5, <2>6 DEF m, lo, hi
<1> QED BY <1>8, <1>9
-----------------------------------------------------------------------------
(* What the program finds in memory.                                       *)

\* A present address is a place in memory.
LEMMA PhyInMemory ==
    ASSUME NEW t, t \in [Page -> Nat], NEW a \in Nat, PageOf(a) \in Page,
           t[PageOf(a)] <= Frames
    PROVE  Phy(t, a) \in Phys
<1> DEFINE f == t[PageOf(a)]
           x == a % PG
<1>1. f \in Nat /\ f <= Frames /\ x \in 0 .. PG - 1 /\ PG \in Nat \ {0} /\ Frames \in Nat
    BY MemorySizes, PageOfAddress
<1> HIDE DEF f, x
<1>2. f < Frames + 1
    BY <1>1
<1>3. f * PG + PG <= (Frames + 1) * PG /\ f * PG \in Nat /\ (Frames + 1) * PG \in Nat
    <2>1. f * PG + PG <= (Frames + 1) * PG
        BY <1>1, <1>2, LessTimes
    <2> QED BY <1>1, <2>1
<1>4. f * PG + x \in 0 .. (Frames + 1) * PG - 1
    BY <1>1, <1>3
<1> QED BY <1>4 DEF Phy, Phys, f, x

\* If consecutive pages have adjacent frames, consecutive addresses have consecutive
\* places: what the loader writes behind dst is where the segment is.
LEMMA Consecutive ==
    ASSUME NEW t, t \in [Page -> Nat], NEW v \in Nat, NEW k \in Nat,
           PageOf(v) \in Page, PageOf(v + k) \in Page,
           t[PageOf(v + k)] = t[PageOf(v)] + (PageOf(v + k) - PageOf(v))
    PROVE  Phy(t, v + k) = Phy(t, v) + k
<1> DEFINE a == v + k
           p == PageOf(v)
           q == PageOf(a)
           f == t[p]
<1>1. a \in Nat /\ a = v + k
    OBVIOUS
<1>2. /\ p \in Nat /\ q \in Nat /\ f \in Nat /\ PG \in Nat \ {0} /\ p <= q
      /\ v % PG \in Nat /\ a % PG \in Nat
      /\ v = p * PG + (v % PG) /\ a = q * PG + (a % PG)
    <2>1. v <= a
        OBVIOUS
    <2>2. p \in Page /\ q \in Page
        OBVIOUS
    <2>3. p \in Nat /\ q \in Nat /\ f \in Nat /\ PG \in Nat \ {0}
        BY <2>2, MemorySizes
    <2> HIDE DEF a
    <2>4. p <= q /\ v = p * PG + (v % PG) /\ v % PG \in 0 .. PG - 1
        BY <1>1, <2>1, PageOfAddress
    <2>5. a = q * PG + (a % PG) /\ a % PG \in 0 .. PG - 1
        BY <1>1, PageOfAddress
    <2> HIDE DEF p, q, f
    <2>6. v % PG \in Nat /\ a % PG \in Nat
        BY <2>3, <2>4, <2>5
    <2> QED BY <2>3, <2>4, <2>5, <2>6
<1>3. t[q] = f + (q - p)
    OBVIOUS
<1> HIDE DEF a, p, q, f
<1>4. (f + (q - p)) * PG = f * PG + (q * PG - p * PG)
    BY <1>2
<1>5. f * PG \in Nat /\ p * PG \in Nat /\ q * PG \in Nat
    BY <1>2
<1>6. (f * PG + (q * PG - p * PG)) + (a % PG) = (f * PG + (v % PG)) + k
    BY <1>1, <1>2, <1>5
<1>7. Phy(t, a) = t[q] * PG + (a % PG) /\ Phy(t, v) = f * PG + (v % PG)
    BY DEF Phy, p, q, f
<1>8. Phy(t, a) = Phy(t, v) + k
    BY <1>3, <1>4, <1>6, <1>7
<1> QED BY <1>8 DEF a

\* A byte of a segment has an address below the end of the segment, and a page.
LEMMA ByteOf ==
    ASSUME image \in Images, NEW s \in 1 .. Len(image), NEW k \in 0 .. image[s].memsz - 1
    PROVE  /\ image[s].vaddr + k \in Nat /\ PageOf(image[s].vaddr + k) \in Page
           /\ image[s].vaddr + k < EndOf(s)
<1>1. image[s].vaddr \in Nat /\ image[s].memsz \in Nat /\ EndOf(s) = image[s].vaddr + image[s].memsz
    BY Segments DEF EndOf
<1>2. image[s].memsz > 0 /\ k \in Nat /\ image[s].vaddr + k < EndOf(s)
    BY <1>1
<1>3. /\ image[s].vaddr + k \in Nat
      /\ PageOf(image[s].vaddr + k) \in PageOf(image[s].vaddr) .. PageOf(EndOf(s) - 1)
      /\ PageOf(image[s].vaddr) \in Page /\ PageOf(EndOf(s) - 1) \in Page
    BY <1>2, SegmentPages
<1>4. PageOf(image[s].vaddr + k) \in Page
    BY <1>3, MemorySizes DEF Page
<1> QED BY <1>2, <1>3, <1>4

\* The frames that are left suffice for the tables m.
Enough(m) == ~NoFrame(m)

\* Every byte of the next segment is where the loader writes it.
LEMMA SegmentPlaced ==
    ASSUME MapInv, LoaderInv, NEW s, NextSegment(s), NEW m, NEW dst,
           m = MmMalloc(image[s].vaddr, image[s].memsz), dst = Phy(m.pt, image[s].vaddr),
           Enough(m)
    PROVE  /\ Maps(m, PagesOf(image[s].vaddr, image[s].memsz)) /\ dst \in Nat
           /\ \A k \in 0 .. image[s].memsz - 1 :
                 /\ m.pt[PageOf(image[s].vaddr + k)] # 0
                 /\ Phy(m.pt, image[s].vaddr + k) = dst + k
                 /\ dst + k \in Phys
<1> DEFINE v == image[s].vaddr
           z == image[s].memsz
           lo == PageOf(v)
           hi == PageOf(EndOf(s) - 1)
<1>1. image \in Images /\ s \in 1 .. Len(image) /\ z > 0
    <2>1. Len(image) \in Nat
        BY ImageAssumption, LenProperties DEF LoaderInv
    <2> QED BY <2>1 DEF NextSegment, LoaderInv
<1>2. /\ v \in Nat /\ z \in Nat /\ lo \in Page /\ hi \in Page /\ lo \in Nat /\ hi \in Nat /\ lo <= hi
    BY <1>1, Segments, SegmentPages, MemorySizes
<1>3. PagesOf(v, z) = lo .. hi /\ \A p \in lo .. hi : m.pt[p] = m.pt[lo] + (p - lo)
    BY AdjacentFrames
<1>4. lo .. hi \subseteq Page
    BY <1>2, MemorySizes DEF Page
<1>5. Maps(m, lo .. hi)
    BY <1>3, <1>4, MmMallocMaps
<1>6. /\ m.pt \in [Page -> Nat] /\ \A p \in lo .. hi : m.pt[p] # 0
      /\ \A p \in Page : m.pt[p] <= Frames
    <2>1. m.free \in Nat /\ m.free <= Frames + 1
        BY <1>5, MemorySizes DEF Maps, Enough, NoFrame
    <2> QED BY <1>5, <2>1, MemorySizes DEF Maps
<1>7. ASSUME NEW k \in 0 .. z - 1
      PROVE  /\ m.pt[PageOf(v + k)] # 0 /\ Phy(m.pt, v + k) = dst + k /\ dst + k \in Phys
    <2>1. v + k \in Nat /\ PageOf(v + k) \in lo .. hi /\ PageOf(v + k) \in Page /\ k \in Nat
        BY <1>1, <1>2, <1>4, SegmentPages
    <2>2. m.pt[PageOf(v + k)] = m.pt[lo] + (PageOf(v + k) - lo)
        BY <1>3, <2>1
    <2>3. Phy(m.pt, v + k) = Phy(m.pt, v) + k
        BY <1>2, <1>6, <2>1, <2>2, Consecutive
    <2>4. Phy(m.pt, v + k) \in Phys
        BY <1>6, <2>1, PhyInMemory
    <2> QED BY <1>6, <2>1, <2>3, <2>4
<1>8. dst \in Nat
    <2>1. Phy(m.pt, v) \in Phys
        BY <1>2, <1>6, PhyInMemory
    <2> QED BY <2>1 DEF Phys
<1> QED BY <1>3, <1>5, <1>7, <1>8

\* What it writes is the segment, and nothing else.
LEMMA CopiedBytes ==
    ASSUME NEW s, NEW dst \in Nat, image[s].filesz \in Nat, image[s].memsz \in Nat,
           image[s].filesz <= image[s].memsz
    PROVE  /\ \A k \in 0 .. image[s].memsz - 1 : dst + k \in Phys =>
                 SegmentRead(s, dst)[dst + k] = IF k < image[s].filesz THEN <<s, k>> ELSE <<0, 0>>
           /\ \A a \in Phys : a - dst \notin 0 .. image[s].memsz - 1 =>
                 SegmentRead(s, dst)[a] = mem[a]
           /\ DOMAIN SegmentRead(s, dst) = Phys
<1> DEFINE y == image[s].filesz
           z == image[s].memsz
<1>1. SegmentRead(s, dst) =
          [a \in Phys |-> CASE a - dst \in 0 .. y - 1 -> <<s, a - dst>>
                            [] a - dst \in y .. y + (z - y) - 1 -> <<0, 0>>
                            [] OTHER -> mem[a]]
    BY DEF SegmentRead, Copied
<1>2. y \in Nat /\ z \in Nat /\ y <= z /\ Phys \subseteq Int
    BY DEF Phys
<1> HIDE DEF y, z
<1>3. ASSUME NEW k \in 0 .. z - 1, dst + k \in Phys
      PROVE  SegmentRead(s, dst)[dst + k] = IF k < y THEN <<s, k>> ELSE <<0, 0>>
    <2>1. (dst + k) - dst = k
        OBVIOUS
    <2>2. CASE k < y
        <3>1. k \in 0 .. y - 1
            BY <1>2, <2>2
        <3>2. (dst + k) - dst \in 0 .. y - 1 /\ (dst + k) - dst \notin y .. y + (z - y) - 1
            BY <1>2, <2>1, <3>1
        <3>3. SegmentRead(s, dst)[dst + k] = <<s, (dst + k) - dst>>
            BY <1>1, <1>3, <3>2
        <3>4. <<s, (dst + k) - dst>> = <<s, k>>
            BY <2>1, Zenon
        <3> QED BY <2>2, <3>3, <3>4
    <2>3. CASE ~(k < y)
        <3>1. k \notin 0 .. y - 1 /\ k \in y .. y + (z - y) - 1
            BY <1>2, <2>3
        <3> QED BY <1>1, <1>3, <2>1, <2>3, <3>1
    <2> QED BY <2>2, <2>3
<1>4. ASSUME NEW a \in Phys, a - dst \notin 0 .. z - 1
      PROVE  SegmentRead(s, dst)[a] = mem[a]
    <2>1. a - dst \notin 0 .. y - 1 /\ a - dst \notin y .. y + (z - y) - 1
        BY <1>2, <1>4
    <2> QED BY <1>1, <2>1
<1> QED BY <1>1, <1>3, <1>4 DEF y, z
-----------------------------------------------------------------------------
(* The memory of the program stays sound.                                  *)

\* While segments are loaded the break is not behind the last of them; the program
\* then has all addresses up to heap_end, and the break is not behind it.
HeapInv ==
    /\ pc \in {"init_ide", "loader", "game_init", "run"}
    /\ brk \in 0 .. StackPage * PG /\ heap_end \in 0 .. StackPage * PG
    /\ pc \in {"init_ide", "loader"} => brk <= IF seg = 0 THEN 0 ELSE EndOf(seg)
    /\ pc \in {"game_init", "run"} =>
          /\ seg = Len(image) /\ brk <= heap_end
          /\ \A va \in image[seg].vaddr .. heap_end - 1 : pt[PageOf(va)] # 0

MemInv == MapInv /\ LoaderInv /\ HeapInv /\ ImageLoaded /\ DOMAIN mem = Phys

\* The kernel starts with empty page tables.
LEMMA InitMemory == KInit => MemInv
<1> SUFFICES ASSUME KInit PROVE MemInv
    OBVIOUS
<1>1. MapInv
    BY MemorySizes DEF KInit, MapInv
<1>2. LoaderInv
    <2>1. image \in Images /\ seg = 0 /\ Len(image) \in Nat
        BY ImageAssumption, LenProperties DEF KInit
    <2>2. \A p \in Page : pt[p] = 0
        BY DEF KInit
    <2> QED BY <2>1, <2>2 DEF LoaderInv
<1>3. HeapInv
    <2>1. StackPage * PG \in Nat
        BY MemorySizes
    <2> QED BY <2>1 DEF KInit, HeapInv
<1>4. ImageLoaded /\ DOMAIN mem = Phys
    BY DEF KInit, ImageLoaded
<1> QED BY <1>1, <1>2, <1>3, <1>4 DEF MemInv

\* Steps elsewhere in the kernel.
LEMMA KeepMemory ==
    ASSUME MemInv, UNCHANGED memory,
           \/ pc' = pc
           \/ pc = "init_ide" /\ pc' = "loader"
           \/ pc = "game_init" /\ pc' = "run"
    PROVE  MemInv'
<1>1. UNCHANGED <<image, seg, pt, mem, free, brk, heap_end>>
    BY DEF memory
<1>2. MapInv' /\ ImageLoaded' /\ DOMAIN mem' = Phys
    BY <1>1 DEF MemInv, MapInv, ImageLoaded, Phy
<1>3. LoaderInv'
    BY <1>1 DEF MemInv, LoaderInv, EndOf
<1>4. HeapInv'
    BY <1>1 DEF MemInv, HeapInv, EndOf
<1> QED BY <1>2, <1>3, <1>4 DEF MemInv

\* The tables that mm_malloc leaves, if it finds the frames.
LEMMA KeepMap ==
    ASSUME MapInv, NEW R, NEW m, Maps(m, R), Enough(m), pt' = m.pt, free' = m.free
    PROVE  /\ MapInv' /\ \A p \in R : pt'[p] # 0
           /\ \A p \in Page : pt[p] # 0 => pt'[p] = pt[p]
<1>1. m.free \in Nat /\ m.free <= Frames + 1 /\ m.free >= 1
    BY MemorySizes DEF Maps, MapInv, Enough, NoFrame
<1>2. \A p \in Page : m.pt[p] \in 0 .. Frames
    BY <1>1, MemorySizes DEF Maps
<1>3. m.pt \in [Page -> 0 .. Frames]
    BY <1>2 DEF Maps
<1>4. /\ \A p \in R : pt'[p] # 0
      /\ \A p \in Page : pt[p] # 0 => pt'[p] = pt[p]
      /\ \A p \in Page : pt'[p] < free'
      /\ \A p, q \in Page : p # q /\ pt'[p] # 0 => pt'[p] # pt'[q]
    BY DEF Maps
<1>5. pt' \in [Page -> 0 .. Frames] /\ free' \in 1 .. Frames + 1
    BY <1>1, <1>3, MemorySizes
<1> QED BY <1>4, <1>5 DEF MapInv

\* New pages do not move the bytes of the segments.
LEMMA KeepImage ==
    ASSUME MemInv, \A p \in Page : pt[p] # 0 => pt'[p] = pt[p],
           UNCHANGED <<image, seg, mem>>
    PROVE  ImageLoaded'
<1> SUFFICES ASSUME NEW s \in 1 .. seg, NEW k \in 0 .. image[s].memsz - 1
             PROVE  /\ pt'[PageOf(image[s].vaddr + k)] # 0
                    /\ mem[Phy(pt', image[s].vaddr + k)] =
                          IF k < image[s].filesz THEN <<s, k>> ELSE <<0, 0>>
    BY DEF ImageLoaded
<1>1. image \in Images /\ s \in 1 .. Len(image)
    <2>1. Len(image) \in Nat /\ image \in Images /\ seg \in 0 .. Len(image)
        BY ImageAssumption, LenProperties DEF MemInv, LoaderInv
    <2> QED BY <2>1
<1>2. PageOf(image[s].vaddr + k) \in Page
    BY <1>1, ByteOf
<1>3. /\ pt[PageOf(image[s].vaddr + k)] # 0
      /\ mem[Phy(pt, image[s].vaddr + k)] = IF k < image[s].filesz THEN <<s, k>> ELSE <<0, 0>>
    BY DEF MemInv, ImageLoaded
<1>4. Phy(pt', image[s].vaddr + k) = Phy(pt, image[s].vaddr + k)
    BY <1>2, <1>3 DEF Phy
<1> QED BY <1>2, <1>3, <1>4

\* A segment without bytes needs no page.
LEMMA NoPages ==
    ASSUME MapInv, NEW va PROVE MmMalloc(va, 0).pt = pt /\ MmMalloc(va, 0).free = free
<1>1. /\ MmMalloc(va, 0).pt =
            [p \in Page |-> IF p \in Fresh(va, 0) THEN free + Nth(Fresh(va, 0), p) ELSE pt[p]]
      /\ MmMalloc(va, 0).free = free + Cardinality(Fresh(va, 0))
    BY DEF MmMalloc, Fresh, PagesOf, Nth
<1>2. Fresh(va, 0) = {} /\ Cardinality({}) = 0 /\ free \in Nat
    BY FS_EmptySet, MemorySizes DEF Fresh, PagesOf, MapInv
<1> QED BY <1>1, <1>2 DEF MapInv

\* The pages of the next segment exist, also if it has no bytes.
LEMMA SegmentMaps ==
    ASSUME MemInv, NEW s \in 1 .. Len(image), NEW m,
           m = MmMalloc(image[s].vaddr, image[s].memsz)
    PROVE  /\ Maps(m, PagesOf(image[s].vaddr, image[s].memsz))
           /\ PagesOf(image[s].vaddr, image[s].memsz) \subseteq Page
           /\ Phy(m.pt, image[s].vaddr) \in Nat
<1> DEFINE v == image[s].vaddr
           z == image[s].memsz
           top == StackPage * PG
<1>1. v \in Nat /\ z \in Nat /\ EndOf(s) = v + z /\ v + z <= top
    BY Segments DEF EndOf, MemInv, LoaderInv
<1>2. PagesOf(v, z) \subseteq Page
    <2>1. CASE z > 0
        <3>1. PageOf(v) \in Page /\ PageOf(v + z - 1) \in Page
            BY <1>1, <2>1, SegmentPages DEF MemInv, LoaderInv
        <3> QED BY <2>1, <3>1, MemorySizes DEF PagesOf, Page
    <2>2. CASE ~(z > 0)
        BY <2>2 DEF PagesOf
    <2> QED BY <2>1, <2>2
<1>3. Maps(m, PagesOf(v, z))
    BY <1>2, MmMallocMaps DEF MemInv
<1>4. PageOf(v) \in Page /\ v % PG \in Nat
    <2>1. top \in Nat /\ (StackPage + 1) * PG = top + PG /\ PG \in Nat \ {0}
        BY MemorySizes, SuccTimes
    <2> HIDE DEF top, v, z
    <2>2. v < (StackPage + 1) * PG
        BY <1>1, <2>1
    <2>3. PageOf(v) \in Page /\ v % PG \in 0 .. PG - 1
        BY <1>1, <2>2, PageOfAddress
    <2> QED BY <2>1, <2>3
<1>5. m.pt[PageOf(v)] \in Nat
    BY <1>3, <1>4 DEF Maps
<1>6. m.pt[PageOf(v)] * PG + (v % PG) \in Nat
    <2>1. m.pt[PageOf(v)] * PG \in Nat
        BY <1>5, MemorySizes
    <2> QED BY <1>4, <2>1
<1> QED BY <1>2, <1>3, <1>6 DEF Phy

\* What the loader writes of a segment disturbs no segment before it.
LEMMA LoadedImage ==
    ASSUME MemInv, NEW s, s = seg + 1, seg < Len(image), NEW dst \in Nat,
           UNCHANGED image, seg' = s, mem' = SegmentRead(s, dst),
           pt' \in [Page -> Nat],
           \A p \in Page : pt[p] # 0 => pt'[p] = pt[p],
           \A p \in Page : pt'[p] <= Frames,
           \A p, q \in Page : p # q /\ pt'[p] # 0 => pt'[p] # pt'[q],
           \A k \in 0 .. image[s].memsz - 1 :
              /\ pt'[PageOf(image[s].vaddr + k)] # 0
              /\ Phy(pt', image[s].vaddr + k) = dst + k
              /\ dst + k \in Phys
    PROVE  ImageLoaded' /\ DOMAIN mem' = Phys
<1> DEFINE v == image[s].vaddr
           z == image[s].memsz
<1>1. /\ image \in Images /\ seg \in Nat /\ s \in 1 .. Len(image)
      /\ \A j \in 1 .. s : j = s \/ (j \in 1 .. seg /\ j \in 1 .. s - 1 /\ j \in 1 .. Len(image))
    <2>1. image \in Images /\ seg \in 0 .. Len(image) /\ Len(image) \in Nat
        BY ImageAssumption, LenProperties DEF MemInv, LoaderInv
    <2> QED BY <2>1
<1>2. /\ v \in Nat /\ z \in Nat /\ image[s].filesz \in Nat /\ image[s].filesz <= z
      /\ \A j \in 1 .. s - 1 : EndOf(j) <= v
    BY <1>1, Segments
<1>3. /\ \A k \in 0 .. z - 1 : dst + k \in Phys =>
            mem'[dst + k] = IF k < image[s].filesz THEN <<s, k>> ELSE <<0, 0>>
      /\ \A a \in Phys : a - dst \notin 0 .. z - 1 => mem'[a] = mem[a]
      /\ DOMAIN mem' = Phys
    BY <1>2, CopiedBytes
<1>4. ASSUME NEW j \in 1 .. s, NEW k \in 0 .. image[j].memsz - 1
      PROVE  /\ pt'[PageOf(image[j].vaddr + k)] # 0
             /\ mem'[Phy(pt', image[j].vaddr + k)] =
                    IF k < image[j].filesz THEN <<j, k>> ELSE <<0, 0>>
    <2>1. CASE j = s
        BY <1>3, <2>1
    <2>2. CASE j # s
        <3> DEFINE a == image[j].vaddr + k
        <3>1. j \in 1 .. seg /\ j \in 1 .. s - 1 /\ j \in 1 .. Len(image)
            BY <1>1, <2>2
        <3>2. a \in Nat /\ PageOf(a) \in Page /\ a < EndOf(j) /\ EndOf(j) \in Nat /\ EndOf(j) <= v
            BY <1>1, <1>2, <3>1, ByteOf, Segments
        <3>3. /\ pt[PageOf(a)] # 0
              /\ mem[Phy(pt, a)] = IF k < image[j].filesz THEN <<j, k>> ELSE <<0, 0>>
            BY <3>1 DEF MemInv, ImageLoaded
        <3> HIDE DEF a
        <3>4. pt'[PageOf(a)] = pt[PageOf(a)]
            BY <3>2, <3>3
        <3>5. Phy(pt', a) = Phy(pt, a)
            BY <3>4 DEF Phy
        <3>6. Phy(pt', a) \in Phys
            BY <3>2, PhyInMemory
        <3>7. Phy(pt', a) - dst \notin 0 .. z - 1
            <4> SUFFICES ASSUME Phy(pt', a) - dst \in 0 .. z - 1 PROVE FALSE
                OBVIOUS
            <4> DEFINE i == Phy(pt', a) - dst
            <4>1. Phy(pt', a) \in Int /\ i \in 0 .. z - 1 /\ Phy(pt', a) = dst + i
                BY <3>6 DEF Phys
            <4> HIDE DEF i
            <4>2. Phy(pt', v + i) = Phy(pt', a)
                BY <4>1
            <4>3. v + i \in Nat /\ PageOf(v + i) \in Page
                BY <1>1, <1>2, <4>1, ByteOf
            <4>4. a = v + i
                BY <3>2, <3>3, <3>4, <4>2, <4>3, PhyInjective
            <4> QED BY <1>2, <3>2, <4>1, <4>4
        <3>8. mem'[Phy(pt', a)] = mem[Phy(pt, a)]
            BY <1>3, <3>5, <3>6, <3>7
        <3> QED BY <3>3, <3>4, <3>8 DEF a
    <2> QED BY <2>1, <2>2
<1> QED BY <1>3, <1>4 DEF ImageLoaded

\* After a segment the last page that is present is its last one, and the frame of it
\* is the last that was handed out.
LEMMA LoadedPages ==
    ASSUME MemInv, NEW s, s = seg + 1, pc = "loader", seg < Len(image), NEW m,
           m = MmMalloc(image[s].vaddr, image[s].memsz), Enough(m), MapInv',
           UNCHANGED <<image, pc>>, seg' = s, pt' = m.pt, free' = m.free
    PROVE  LoaderInv'
<1> DEFINE v == image[s].vaddr
           z == image[s].memsz
           Covered(p, n) == \E j \in 1 .. n : image[j].memsz > 0 /\ p <= PageOf(EndOf(j) - 1)
           Highest(p) == \A q \in Page : pt'[q] # 0 => q <= p
<1>1. /\ image \in Images /\ seg \in Nat /\ s \in Nat /\ s \in 1 .. Len(image) /\ Len(image) \in Nat
      /\ s \in 0 .. Len(image)
      /\ \A j \in 1 .. seg : j \in 1 .. s
    <2>1. image \in Images /\ seg \in 0 .. Len(image) /\ Len(image) \in Nat
        BY ImageAssumption, LenProperties DEF MemInv, LoaderInv
    <2> QED BY <2>1
<1>2. v \in Nat /\ z \in Nat
    BY <1>1, Segments
<1>3. /\ \A p \in Page : pt[p] # 0 => Covered(p, seg)
      /\ \A p \in Page : pt[p] # 0 /\ (\A q \in Page : pt[q] # 0 => q <= p) => pt[p] = free - 1
    BY DEF MemInv, LoaderInv
<1>4. \A p \in Page : Covered(p, seg) => Covered(p, s)
    BY <1>1
<1>5. (\A p \in Page : pt'[p] # 0 => Covered(p, s))
      /\ \A p \in Page : pt'[p] # 0 /\ Highest(p) => pt'[p] = free' - 1
    <2>1. CASE z = 0
        <3>1. m.pt = pt /\ m.free = free
            BY <2>1, NoPages DEF MemInv
        <3> QED BY <1>3, <1>4, <3>1
    <2>2. CASE z > 0
        <3> DEFINE lo == PageOf(v)
                   hi == PageOf(EndOf(s) - 1)
        <3>1. NextSegment(s) /\ MapInv /\ LoaderInv
            BY <2>2 DEF NextSegment, MemInv
        <3>2. /\ PagesOf(v, z) = lo .. hi /\ \A p \in Page : pt[p] # 0 => p <= lo
              /\ m.pt[hi] = m.free - 1
            BY <3>1, AdjacentFrames
        <3>3. Maps(m, lo .. hi)
            BY <1>1, <3>2, SegmentMaps
        <3>4. lo \in Page /\ hi \in Page /\ lo <= hi /\ lo \in Nat /\ hi \in Nat
            BY <1>1, <2>2, SegmentPages, MemorySizes
        <3> HIDE DEF lo, Covered
        <3>5. hi \in lo .. hi /\ m.pt[hi] # 0
            <4>1. hi \in lo .. hi
                BY <3>4
            <4> QED BY <3>3, <4>1 DEF Maps
        <3>6. ASSUME NEW p \in Page, m.pt[p] # 0 PROVE p <= hi
            <4>1. CASE p \in lo .. hi
                BY <3>4, <4>1
            <4>2. CASE p \notin lo .. hi
                <5>1. pt[p] # 0
                    BY <3>3, <3>6, <4>2 DEF Maps
                <5>2. p <= lo
                    BY <3>2, <5>1
                <5> QED BY <3>4, <5>2, MemorySizes
            <4> QED BY <4>1, <4>2
        <3>7. \A p \in Page : m.pt[p] # 0 => Covered(p, s)
            BY <1>1, <2>2, <3>6 DEF Covered
        <3> HIDE DEF hi
        <3>8. ASSUME NEW p \in Page, m.pt[p] # 0, Highest(p) PROVE p = hi
            <4>1. hi <= p /\ p <= hi /\ p \in Nat
                BY <3>4, <3>5, <3>6, <3>8, MemorySizes
            <4> QED BY <3>4, <4>1
        <3> QED BY <3>2, <3>7, <3>8
    <2> QED BY <1>2, <2>1, <2>2
<1> QED BY <1>1, <1>5 DEF LoaderInv, EndOf

\* The loader reads a segment.
LEMMA LoadSegmentMemory == ASSUME MemInv, LoadSegment PROVE MemInv'
<1> DEFINE s == seg + 1
           v == image[s].vaddr
           z == image[s].memsz
           m == MmMalloc(v, z)
           dst == Phy(m.pt, v)
<1>1. /\ pc = "loader" /\ seg < Len(image) /\ image \in Images
      /\ seg \in 0 .. Len(image) /\ Len(image) \in Nat
    BY ImageAssumption, LenProperties DEF LoadSegment, MemInv, LoaderInv
<1>2. CASE NoFrame(m)
    BY <1>2, KeepMemory DEF LoadSegment, OutOfFrames
<1>3. CASE Enough(m)
    <2>1. /\ pt' = m.pt /\ free' = m.free /\ seg' = s
          /\ mem' = SegmentRead(s, dst)
          /\ brk' = IF brk < v + z - 1 THEN v + z - 1 ELSE brk
          /\ UNCHANGED <<image, heap_end, pc>>
        BY <1>3 DEF LoadSegment, Enough
    <2>2. s \in 1 .. Len(image) /\ seg \in Nat /\ s # 0 /\ (seg # 0 => seg \in 1 .. s - 1)
        BY <1>1
    <2>3. /\ v \in Nat /\ z \in Nat /\ EndOf(s) = v + z /\ v + z <= StackPage * PG
          /\ (seg # 0 => EndOf(seg) <= v)
          /\ (seg # 0 => EndOf(seg) \in Nat)
        <3>1. seg # 0 => seg \in 1 .. Len(image)
            BY <1>1
        <3> QED BY <1>1, <2>2, <3>1, Segments DEF EndOf
    <2>4. Maps(m, PagesOf(v, z)) /\ dst \in Nat
        BY <2>2, SegmentMaps
    <2>5. ASSUME NEW k \in 0 .. z - 1
          PROVE  m.pt[PageOf(v + k)] # 0 /\ Phy(m.pt, v + k) = dst + k /\ dst + k \in Phys
        <3>1. NextSegment(s)
            BY <1>1, <2>3 DEF NextSegment
        <3> QED BY <1>3, <3>1, SegmentPlaced DEF MemInv
    <2>6. MapInv' /\ \A p \in Page : pt[p] # 0 => pt'[p] = pt[p]
        BY <1>3, <2>1, <2>4, KeepMap DEF MemInv
    <2>7. LoaderInv'
        BY <1>1, <1>3, <2>1, <2>6, LoadedPages
    <2>8. ImageLoaded' /\ DOMAIN mem' = Phys
        <3> HIDE DEF m, dst
        <3>1. /\ pt' \in [Page -> Nat] /\ \A p \in Page : pt'[p] <= Frames
              /\ \A p, q \in Page : p # q /\ pt'[p] # 0 => pt'[p] # pt'[q]
            BY <2>6, MemorySizes DEF MapInv
        <3>2. \A k \in 0 .. z - 1 :
                 /\ pt'[PageOf(v + k)] # 0
                 /\ Phy(pt', v + k) = dst + k
                 /\ dst + k \in Phys
            BY <2>1, <2>5
        <3> QED BY <1>1, <2>1, <2>4, <2>6, <3>1, <3>2, LoadedImage
    <2>9. HeapInv'
        <3> DEFINE top == StackPage * PG
        <3>1. brk \in 0 .. top /\ top \in Nat /\ heap_end \in 0 .. top
              /\ brk <= IF seg = 0 THEN 0 ELSE EndOf(seg)
            BY <1>1, MemorySizes DEF MemInv, HeapInv
        <3>2. EndOf(seg)' = v + z
            BY <2>1 DEF EndOf
        <3> HIDE DEF top, v, z
        <3>3. brk' \in 0 .. top /\ brk' <= v + z
            BY <2>1, <2>3, <3>1 DEF top
        <3> QED BY <1>1, <2>1, <2>2, <3>1, <3>2, <3>3 DEF HeapInv, top
    <2> QED BY <2>6, <2>7, <2>8, <2>9 DEF MemInv
<1> QED BY <1>2, <1>3 DEF Enough

\* The stack and the break: addresses that were present stay so.
LEMMA KeepPages ==
    ASSUME MemInv, NEW va, NEW len, PagesOf(va, len) \subseteq Page, NEW m,
           m = MmMalloc(va, len), Enough(m), pt' = m.pt, free' = m.free,
           UNCHANGED <<image, seg, mem>>, pc' \in {"game_init", "run"}
    PROVE  /\ MapInv' /\ LoaderInv' /\ ImageLoaded' /\ DOMAIN mem' = Phys
           /\ \A p \in PagesOf(va, len) : pt'[p] # 0
           /\ \A p \in Page : pt[p] # 0 => pt'[p] = pt[p]
<1>1. Maps(m, PagesOf(va, len))
    BY MmMallocMaps DEF MemInv
<1>2. /\ MapInv' /\ \A p \in PagesOf(va, len) : pt'[p] # 0
      /\ \A p \in Page : pt[p] # 0 => pt'[p] = pt[p]
    BY <1>1, KeepMap DEF MemInv
<1>3. ImageLoaded'
    BY <1>2, KeepImage
<1>4. LoaderInv' /\ DOMAIN mem' = Phys
    BY DEF MemInv, LoaderInv
<1> QED BY <1>2, <1>3, <1>4

\* The pages up to the end of the heap exist.
LEMMA HeapPages ==
    ASSUME NEW a \in Nat, NEW b \in Int, b <= (StackPage + 1) * PG
    PROVE  /\ PagesOf(a, b - a) \subseteq Page
           /\ \A va \in a .. b - 1 : va \in Nat /\ PageOf(va) \in PagesOf(a, b - a)
<1>1. CASE b - a > 0
    <2>1. a + (b - a) - 1 = b - 1 /\ b - 1 \in Nat /\ a <= b - 1
        BY <1>1
    <2>2. PagesOf(a, b - a) = PageOf(a) .. PageOf(b - 1)
        BY <1>1, <2>1 DEF PagesOf
    <2>3. b - 1 < (StackPage + 1) * PG
        <3>1. (StackPage + 1) * PG \in Nat
            BY MemorySizes
        <3> QED BY <2>1, <3>1
    <2>4. PageOf(b - 1) \in Page /\ PageOf(a) \in Nat /\ PageOf(b - 1) \in Nat
        BY <2>1, <2>3, PageOfAddress
    <2>5. ASSUME NEW va \in a .. b - 1
          PROVE  va \in Nat /\ PageOf(va) \in PageOf(a) .. PageOf(b - 1)
        <3>1. va \in Nat /\ a <= va /\ va <= b - 1
            OBVIOUS
        <3>2. PageOf(a) <= PageOf(va) /\ PageOf(va) <= PageOf(b - 1) /\ PageOf(va) \in Nat
            BY <2>1, <3>1, PageOfAddress
        <3> QED BY <2>4, <3>1, <3>2
    <2> QED BY <2>2, <2>4, <2>5, MemorySizes DEF Page
<1>2. CASE ~(b - a > 0)
    BY <1>2 DEF PagesOf
<1> QED BY <1>1, <1>2

\* The program starts.
LEMMA StartProgramMemory == ASSUME MemInv, StartProgram PROVE MemInv'
<1> DEFINE m == MmMalloc(StackPage * PG, PG)
           end == image[seg].vaddr + image[seg].memsz
           top == StackPage * PG
<1>1. /\ pc = "loader" /\ seg = Len(image) /\ image \in Images /\ seg \in 1 .. Len(image)
    <2>1. image \in Seq([vaddr : Nat, filesz : Nat, memsz : Nat]) /\ image # <<>>
        BY ImageAssumption DEF MemInv, LoaderInv
    <2>2. Len(image) \in Nat \ {0}
        BY <2>1, LenProperties, EmptySeq
    <2> QED BY <2>2 DEF StartProgram, MemInv, LoaderInv
<1>2. CASE NoFrame(m)
    BY <1>2, KeepMemory DEF StartProgram, OutOfFrames
<1>3. CASE Enough(m)
    <2>1. /\ pt' = m.pt /\ free' = m.free /\ heap_end' = end /\ pc' = "game_init"
          /\ UNCHANGED <<image, seg, mem, brk>>
        BY <1>3 DEF StartProgram, Enough
    <2>2. top \in Nat /\ (StackPage + 1) * PG = top + PG /\ PG \in Nat \ {0}
        BY MemorySizes, SuccTimes
    <2>3. PagesOf(top, PG) \subseteq Page
        <3> HIDE DEF top
        <3>1. top + PG \in Int /\ (top + PG) - top = PG /\ top + PG <= (StackPage + 1) * PG
            BY <2>2
        <3>2. PagesOf(top, (top + PG) - top) \subseteq Page
            BY <2>2, <3>1, HeapPages
        <3> QED BY <3>1, <3>2
    <2>4. /\ MapInv' /\ LoaderInv' /\ ImageLoaded' /\ DOMAIN mem' = Phys
        BY <1>3, <2>1, <2>3, KeepPages
    <2>5. /\ image[seg].vaddr \in Nat /\ image[seg].memsz \in Nat
          /\ EndOf(seg) = end /\ end \in Nat /\ end <= top
        BY <1>1, Segments DEF EndOf
    <2>6. HeapInv'
        <3>1. brk \in 0 .. top /\ brk <= end
            BY <1>1, <2>2, <2>5 DEF MemInv, HeapInv
        <3>2. ASSUME NEW va \in image[seg].vaddr .. end - 1 PROVE pt'[PageOf(va)] # 0
            <4> DEFINE k == va - image[seg].vaddr
            <4>1. k \in 0 .. image[seg].memsz - 1 /\ image[seg].vaddr + k = va /\ seg \in 1 .. seg
                BY <1>1, <2>5
            <4> HIDE DEF k
            <4> QED BY <2>1, <2>4, <4>1 DEF ImageLoaded
        <3>3. end \in 0 .. top
            BY <2>2, <2>5
        <3> HIDE DEF end
        <3> QED BY <1>1, <2>1, <3>1, <3>2, <3>3 DEF HeapInv
    <2> QED BY <2>4, <2>6 DEF MemInv
<1> QED BY <1>2, <1>3 DEF Enough

\* sbrk.
LEMMA SbrkMemory == ASSUME MemInv, NEW new \in HeapEnds, Sbrk(new) PROVE MemInv'
<1> DEFINE m == MmMalloc(brk, new - brk)
           top == StackPage * PG
<1>1. CASE NoFrame(m)
    BY <1>1, KeepMemory DEF Sbrk, OutOfFrames
<1>2. CASE Enough(m)
    <2>1. /\ pt' = m.pt /\ free' = m.free /\ brk' = new /\ heap_end' = new /\ pc = "run"
          /\ UNCHANGED <<image, seg, mem, pc>>
        BY <1>2 DEF Sbrk, Enough
    <2>2. /\ top \in Nat /\ top <= (StackPage + 1) * PG /\ new \in 0 .. top /\ brk \in 0 .. top
          /\ heap_end \in 0 .. top /\ brk <= heap_end /\ seg = Len(image)
          /\ \A va \in image[seg].vaddr .. heap_end - 1 : pt[PageOf(va)] # 0
        <3>1. top \in Nat /\ (StackPage + 1) * PG = top + PG /\ PG \in Nat \ {0}
            BY MemorySizes, SuccTimes
        <3>2. top <= (StackPage + 1) * PG
            BY <3>1
        <3> QED BY <2>1, <3>1, <3>2, KernelAssumption DEF MemInv, HeapInv
    <2>3. /\ PagesOf(brk, new - brk) \subseteq Page
          /\ \A va \in brk .. new - 1 : PageOf(va) \in PagesOf(brk, new - brk)
        <3> HIDE DEF top
        <3>1. brk \in Nat /\ new \in Int /\ new <= (StackPage + 1) * PG
            <4>1. (StackPage + 1) * PG \in Nat
                BY MemorySizes
            <4> QED BY <2>2, <4>1
        <3> QED BY <3>1, HeapPages
    <2>4. /\ MapInv' /\ LoaderInv' /\ ImageLoaded' /\ DOMAIN mem' = Phys
          /\ \A p \in PagesOf(brk, new - brk) : pt'[p] # 0
          /\ \A p \in Page : pt[p] # 0 => pt'[p] = pt[p]
        BY <1>2, <2>1, <2>3, KeepPages
    <2>5. HeapInv'
        <3>1. image[seg].vaddr \in Nat
            <4>1. image \in Images /\ seg \in 1 .. Len(image)
                <5>1. image \in Seq([vaddr : Nat, filesz : Nat, memsz : Nat]) /\ image # <<>>
                    BY ImageAssumption DEF MemInv, LoaderInv
                <5>2. Len(image) \in Nat \ {0}
                    BY <5>1, LenProperties, EmptySeq
                <5> QED BY <2>2, <5>2 DEF MemInv, LoaderInv
            <4> QED BY <4>1, Segments
        <3>2. ASSUME NEW va \in image[seg].vaddr .. new - 1 PROVE pt'[PageOf(va)] # 0
            <4>1. CASE va < brk
                <5>1. va \in image[seg].vaddr .. heap_end - 1 /\ va \in Nat /\ va < (StackPage + 1) * PG
                    <6> DEFINE ext == (StackPage + 1) * PG
                    <6>1. ext \in Nat /\ top <= ext
                        BY <2>2, MemorySizes
                    <6> HIDE DEF ext, top
                    <6>2. va \in image[seg].vaddr .. heap_end - 1 /\ va \in Nat /\ va < ext
                        BY <2>2, <3>1, <4>1, <6>1
                    <6> QED BY <6>2 DEF ext
                <5>2. PageOf(va) \in Page
                    BY <5>1, PageOfAddress
                <5>3. pt[PageOf(va)] # 0
                    BY <2>2, <5>1
                <5> QED BY <2>4, <5>2, <5>3
            <4>2. CASE ~(va < brk)
                <5>1. va \in brk .. new - 1
                    BY <2>2, <3>1, <4>2
                <5> QED BY <2>3, <2>4, <5>1
            <4> QED BY <4>1, <4>2
        <3>3. new \in 0 .. top /\ new <= new
            BY <2>2
        <3> QED BY <2>1, <2>2, <3>2, <3>3 DEF HeapInv
    <2> QED BY <2>4, <2>5 DEF MemInv
<1> QED BY <1>1, <1>2 DEF Enough

\* Every step of the kernel keeps the memory of the program sound.
LEMMA NextMemory == MemInv /\ [KNext]_kvars => MemInv'
<1> SUFFICES ASSUME MemInv, [KNext]_kvars PROVE MemInv'
    OBVIOUS
<1>1. CASE Loader
    BY <1>1, LoadSegmentMemory, StartProgramMemory DEF Loader
<1>2. CASE \E new \in HeapEnds : Sbrk(new)
    BY <1>2, SbrkMemory
<1>3. CASE AddIrqHandle \/ Continue \/ FileCall \/ (\E irq \in Irqs : IrqHandle(irq))
           \/ UNCHANGED kvars
    BY <1>3, KeepMemory DEF AddIrqHandle, Continue, FileCall, IrqHandle, kvars
<1> QED BY <1>1, <1>2, <1>3 DEF KNext

\* The program finds every byte of its segments where its page tables say, whatever
\* segments share a page and however the break is moved.
THEOREM ProgramIntact == KSpec => []ImageLoaded
<1>1. MemInv => ImageLoaded
    BY DEF MemInv
<1> QED BY <1>1, InitMemory, NextMemory, PTL DEF KSpec
-----------------------------------------------------------------------------
(* The resources of the kernel.                                            *)

\* Descriptors and offsets keep their types whatever the program asks for.
LEMMA FileTypes == TypeOK /\ [KNext]_kvars => TypeOK'
<1> SUFFICES ASSUME TypeOK, [KNext]_kvars PROVE TypeOK'
    OBVIOUS
<1> DEFINE Entry == [used : BOOLEAN, index : File, offset : U32]
<1>1. /\ MOD \in Nat \ {0} /\ NR_FILES \in Nat /\ NR_FILES + 3 < MOD /\ 0 \in U32 /\ FAIL \in U32
      /\ \A n \in Int : n % MOD \in U32
    BY TableAssumption DEF U32, FAIL
<1>2. \A d \in Fd : /\ files[d] \in Entry /\ files[d].index \in File /\ files[d].offset \in U32
                    /\ size[files[d].index] \in U32 /\ disk_offset[files[d].index] \in U32
    BY TableAssumption DEF TypeOK
<1>3. U32 \subseteq Int
    BY <1>1 DEF U32
<1>4. ASSUME files' \in [Fd -> Entry], last' \in Call, status' = status PROVE TypeOK'
    BY <1>4 DEF TypeOK
<1>5. ASSUME NEW f \in File, Open(f) PROVE TypeOK'
    <2> DEFINE free_fd == {d \in Fd : ~files[d].used}
               new == [used |-> TRUE, index |-> f, offset |-> 0]
    <2>1. new \in Entry
        BY <1>1
    <2>2. CASE free_fd # {}
        <3>1. /\ files' = [files EXCEPT ![Min(free_fd)] = new] /\ UNCHANGED status
              /\ Done("open", f, 0, 0, Min(free_fd), 0, 0)
            BY <1>5, <2>2 DEF Open
        <3>2. Min(free_fd) \in Fd
            <4>1. free_fd \subseteq Nat
                BY <1>1 DEF Fd
            <4> QED BY <2>2, <4>1, MinIsElement
        <3> HIDE DEF free_fd, new
        <3>3. Min(free_fd) \in U32
            BY <1>1, <3>2 DEF Fd, U32
        <3>4. files' \in [Fd -> Entry]
            BY <2>1, <3>1, <3>2 DEF TypeOK
        <3>5. last' \in Call
            BY <1>1, <3>1, <3>3 DEF Done, Call
        <3> QED BY <1>4, <3>1, <3>4, <3>5
    <2>3. CASE free_fd = {}
        <3>1. UNCHANGED <<files, status>> /\ Done("open", f, 0, 0, FAIL, 0, 0)
            BY <1>5, <2>3 DEF Open
        <3>2. last' \in Call
            BY <1>1, <3>1 DEF Done, Call
        <3> QED BY <1>4, <3>1, <3>2 DEF TypeOK
    <2> QED BY <2>2, <2>3
<1>6. ASSUME NEW d \in Fd, NotOpen(d) \/ Close(d) PROVE TypeOK'
    <2>1. last' \in Call
        BY <1>1, <1>2, <1>6 DEF NotOpen, Close, Done, Call
    <2>2. CASE NotOpen(d)
        BY <1>4, <2>1, <2>2 DEF NotOpen, TypeOK
    <2>3. CASE Close(d)
        <3>1. files' = [files EXCEPT ![d].used = FALSE] /\ status' = status
            BY <2>3 DEF Close
        <3>2. files' \in [Fd -> Entry]
            BY <3>1 DEF TypeOK
        <3> QED BY <1>4, <2>1, <3>1, <3>2
    <2> QED BY <1>6, <2>2, <2>3
<1>7. ASSUME NEW op \in {"read", "write"}, NEW d \in Fd, NEW len \in Lens, Transfer(op, d, len)
      PROVE  TypeOK'
    <2> DEFINE f == files[d].index
               pos == files[d].offset
               n == Clipped(f, pos, len)
    <2>1. /\ files' = [files EXCEPT ![d].offset = (pos + n) % MOD] /\ UNCHANGED status
          /\ Done(op, f, pos, len, n, (disk_offset[f] + pos) % MOD, n)
        BY <1>7 DEF Transfer
    <2>2. len \in U32 /\ len \in Int /\ f \in File /\ pos \in U32 /\ pos \in Int
          /\ size[f] \in Int /\ disk_offset[f] \in Int
        BY <1>2, <1>3, GuestAssumption
    <2> HIDE DEF f, pos
    <2>3. n \in U32 /\ n \in Int
        BY <1>1, <1>3, <2>2 DEF Clipped
    <2> HIDE DEF n
    <2>4. (pos + n) % MOD \in U32 /\ (disk_offset[f] + pos) % MOD \in U32
        BY <1>1, <2>2, <2>3
    <2>5. files' \in [Fd -> Entry]
        BY <1>2, <2>1, <2>4 DEF TypeOK
    <2>6. last' \in Call
        BY <2>1, <2>2, <2>3, <2>4 DEF Done, Call
    <2> QED BY <1>4, <2>1, <2>5, <2>6
<1>8. ASSUME NEW d \in Fd, NEW offset \in Offsets,
             NEW whence \in {"SEEK_SET", "SEEK_CUR", "SEEK_END"}, Lseek(d, offset, whence)
      PROVE  TypeOK'
    <2> DEFINE f == files[d].index
               t == Target(d, offset, whence)
               new == CheckBoundary(f, t % MOD)
    <2>1. /\ files' = [files EXCEPT ![d].offset = new] /\ UNCHANGED status
          /\ Done("lseek", f, files[d].offset, t, new, 0, 0)
        BY <1>8 DEF Lseek
    <2>2. offset \in Int /\ f \in File /\ files[d].offset \in U32 /\ files[d].offset \in Int
          /\ size[f] \in U32 /\ size[f] \in Int
        <3>1. MOD \div 2 \in Int
            BY <1>1
        <3>2. offset \in Int
            BY <3>1, GuestAssumption
        <3> QED BY <1>2, <1>3, <3>2
    <2>3. t \in Int
        BY <2>2 DEF Target
    <2> HIDE DEF f, t
    <2>4. new \in U32
        BY <1>1, <2>2, <2>3 DEF CheckBoundary
    <2> HIDE DEF new
    <2>5. files' \in [Fd -> Entry]
        BY <1>2, <2>1, <2>4 DEF TypeOK
    <2>6. last' \in Call
        BY <1>1, <2>1, <2>2, <2>3, <2>4 DEF Done, Call
    <2> QED BY <1>4, <2>1, <2>5, <2>6
<1>9. CASE FileCall
    <2>1. CASE Abort
        BY <2>1 DEF Abort, TypeOK
    <2> QED BY <1>5, <1>6, <1>7, <1>8, <1>9, <2>1 DEF FileCall, Next
<1>10. CASE ~FileCall
    <2>1. UNCHANGED <<files, last>> /\ status' \in {status, "assert_failed", "overrun"}
        <3>1. CASE UNCHANGED kvars
            BY <3>1 DEF kvars, vars
        <3>2. CASE AddIrqHandle \/ Continue \/ \E irq \in Irqs : IrqHandle(irq)
            BY <3>2
               DEF AddIrqHandle, AddBegin, AddRoutine, AddNext, AddLink, Continue,
                   IrqHandle, vars
        <3>3. CASE Loader \/ \E new \in HeapEnds : Sbrk(new)
            BY <3>3 DEF Loader, LoadSegment, StartProgram, OutOfFrames, Sbrk
        <3> QED BY <1>10, <3>1, <3>2, <3>3 DEF KNext
    <2> QED BY <2>1 DEF TypeOK
<1> QED BY <1>9, <1>10

\* Two handlers are registered by init_ide and two by game_init.
PoolInv ==
    /\ status # "overrun" /\ IF_ \in BOOLEAN
    /\ pc = "loader" => todo = <<>>
    /\ Linked + Len(todo) = IF pc \in {"init_ide", "loader"} THEN 2 ELSE 4

\* A pool of four elements suffices.
LEMMA NextPool ==
    ASSUME 4 <= NR_IRQ_HANDLE PROVE PoolInv /\ IrqInv /\ HeapInv /\ [KNext]_kvars => PoolInv'
<1> SUFFICES ASSUME PoolInv, IrqInv, HeapInv, [KNext]_kvars PROVE PoolInv'
    OBVIOUS
<1>1. /\ todo \in Seq(Irqs \X Routine) /\ Len(todo) \in Nat
      /\ handle_count \in Nat /\ NR_IRQ_HANDLE \in Nat
    BY KernelAssumption, LenProperties DEF IrqInv, IrqTypes, Ptr
<1>2. Linked \in Int
    BY <1>1 DEF Linked
<1>3. CASE AddIrqHandle
    <2>1. pc' = pc
        BY <1>3 DEF AddIrqHandle
    <2>2. CASE AddBegin
        <3>1. todo # <<>> /\ add = "idle" /\ pc # "loader" /\ todo' = todo
            BY <2>2 DEF AddBegin
        <3>2. Len(todo) > 0
            BY <1>1, <3>1, EmptySeq
        <3>3. handle_count < NR_IRQ_HANDLE
            <4>1. Linked = handle_count /\ Linked + Len(todo) <= 4
                BY <3>1 DEF Linked, PoolInv
            <4> QED BY <1>1, <3>2, <4>1
        <3>4. /\ handle_count' = handle_count + 1 /\ add' = "routine" /\ status' = status
              /\ IF_' = (IF_ /\ pc = "init_ide")
            BY <2>2, <3>3 DEF AddBegin
        <3>5. Linked' = Linked
            BY <1>1, <3>1, <3>4 DEF Linked
        <3>6. IF_' \in BOOLEAN
            BY <3>4
        <3> QED BY <2>1, <3>1, <3>4, <3>5, <3>6 DEF PoolInv
    <2>3. CASE AddRoutine \/ AddNext
        <3>1. UNCHANGED <<todo, handle_count, IF_, status>> /\ add # "idle" /\ add' # "idle"
            BY <2>3 DEF AddRoutine, AddNext
        <3>2. Linked' = Linked
            BY <3>1 DEF Linked
        <3> QED BY <2>1, <3>1, <3>2 DEF PoolInv
    <2>4. CASE AddLink
        <3>1. /\ add = "link" /\ add' = "idle" /\ todo' = Tail(todo) /\ IF_' = TRUE
              /\ UNCHANGED <<handle_count, status>>
            BY <2>4 DEF AddLink
        <3>2. todo # <<>> /\ pc # "loader"
            BY <3>1 DEF IrqInv, InHand
        <3>3. Len(Tail(todo)) = Len(todo) - 1
            BY <1>1, <3>2, HeadTailProperties
        <3>4. Linked' = Linked + 1
            BY <1>1, <3>1 DEF Linked
        <3>5. Linked' + Len(todo') = Linked + Len(todo)
            <4>1. Len(todo') = Len(todo) - 1
                BY <3>1, <3>3
            <4> QED BY <1>1, <1>2, <3>4, <4>1
        <3>6. IF_' \in BOOLEAN
            BY <3>1
        <3>7. pc' = "loader" => todo' = <<>>
            BY <2>1, <3>2
        <3>8. /\ status' # "overrun"
              /\ Linked + Len(todo) = IF pc' \in {"init_ide", "loader"} THEN 2 ELSE 4
            BY <2>1, <3>1 DEF PoolInv
        <3> QED BY <3>5, <3>6, <3>7, <3>8 DEF PoolInv
    <2> QED BY <1>3, <2>2, <2>3, <2>4 DEF AddIrqHandle
<1>4. CASE Continue
    <2>1. /\ UNCHANGED <<todo, add, handle_count, IF_, status>> /\ todo = <<>>
          /\ \/ pc = "init_ide" /\ pc' = "loader"
             \/ pc = "game_init" /\ pc' = "run"
        BY <1>4 DEF Continue, irqs, vars
    <2>2. Linked' = Linked
        BY <2>1 DEF Linked
    <2> QED BY <2>1, <2>2 DEF PoolInv
<1>5. CASE Loader
    <2>1. /\ pc = "loader" /\ UNCHANGED <<add, handle_count, IF_>>
          /\ status' \in {status, "assert_failed"}
          /\ \/ todo' = todo /\ pc' = pc
             \/ todo' = GameHandlers /\ pc' = "game_init"
        BY <1>5 DEF Loader, LoadSegment, StartProgram, OutOfFrames
    <2>2. Linked' = Linked
        BY <2>1 DEF Linked
    <2>3. CASE todo' = todo /\ pc' = pc
        BY <2>1, <2>2, <2>3 DEF PoolInv
    <2>4. CASE todo' = GameHandlers /\ pc' = "game_init"
        <3>1. Len(GameHandlers) = 2 /\ Len(<<>>) = 0
            BY DEF GameHandlers
        <3>2. Linked + 0 = 2
            BY <2>1, <3>1 DEF PoolInv
        <3>3. Linked' + Len(todo') = 4
            BY <1>2, <2>2, <2>4, <3>1, <3>2
        <3> QED BY <2>1, <2>4, <3>3 DEF PoolInv
    <2> QED BY <2>1, <2>3, <2>4
<1>6. CASE FileCall \/ (\E new \in HeapEnds : Sbrk(new)) \/ (\E irq \in Irqs : IrqHandle(irq))
           \/ UNCHANGED kvars
    <2>1. UNCHANGED <<todo, add, handle_count, IF_, pc>> /\ status' \in {status, "assert_failed"}
        BY <1>6
           DEF FileCall, Next, Open, Abort, NotOpen, Close, Transfer, Lseek, Sbrk,
               OutOfFrames, IrqHandle, kvars, irqs, vars
    <2>2. Linked' = Linked
        BY <2>1 DEF Linked
    <2> QED BY <2>1, <2>2 DEF PoolInv
<1> QED BY <1>3, <1>4, <1>5, <1>6 DEF KNext

\* Frames are not shared, the heap is mapped and the pool suffices, whatever segments,
\* breaks and handlers ask for; the descriptors keep their types.
THEOREM KernelResources ==
    ASSUME 4 <= NR_IRQ_HANDLE PROVE KSpec => []ResourcesSound
<1> DEFINE Inv == TypeOK /\ IrqInv /\ MemInv /\ PoolInv
<1>1. KInit => Inv
    <2> SUFFICES ASSUME KInit PROVE Inv
        OBVIOUS
    <2>1. Linked = 0 /\ Len(todo) = 2
        BY DEF KInit, Linked, KernelHandlers
    <2>2. PoolInv
        BY <2>1 DEF KInit, Init, PoolInv
    <2> QED BY <2>2, InitFiles, InitIrq, InitMemory DEF KInit, FilesInv
<1>2. Inv /\ [KNext]_kvars => Inv'
    BY FileTypes, NextIrq, NextMemory, NextPool DEF MemInv
<1>3. Inv => ResourcesSound
    <2> SUFFICES ASSUME Inv PROVE ResourcesSound
        OBVIOUS
    <2>1. HeapMapped
        BY DEF MemInv, MapInv, HeapInv, HeapMapped
    <2>2. KTypeOK
        BY DEF KTypeOK, IrqInv, IrqTypes, MemInv, MapInv, LoaderInv, HeapInv, PoolInv
    <2> QED BY <2>1, <2>2 DEF ResourcesSound
<1> QED BY <1>1, <1>2, <1>3, PTL DEF KSpec
=============================================================================
