------------------------------ MODULE FileSystem ------------------------------
(***************************************************************************)
(* The file system of the guest kernel (kernel/src/fs/fs.c): a table of    *)
(* files at fixed places of the disk, the descriptors, and the system      *)
(* calls open, read, write, lseek and close of do_syscall.c.               *)
(*                                                                         *)
(* Offsets and lengths are unsigned integers of the machine (modulo MOD,   *)
(* 2^32 in the code); off_t is a signed long of the same width, and        *)
(* comparing it with a uint32_t compares the two as unsigned numbers.  The *)
(* bytes are left to the disk driver: a transfer is the range of the disk  *)
(* that is handed to ide_read or ide_write.  The console (descriptors 0 to *)
(* 2) keeps no state.                                                      *)
(***************************************************************************)
EXTENDS Integers, FiniteSets, FiniteSetsExt

CONSTANTS NR_FILES,      \* files of the table, and descriptors
          size, disk_offset,   \* of each file of file_table
          MOD,           \* 2^32
          Lens,          \* lengths the guest asks for
          Offsets        \* signed offsets the guest passes to lseek

File == 0 .. NR_FILES - 1
Fd == 3 .. NR_FILES + 2
U32 == 0 .. MOD - 1
FAIL == MOD - 1          \* -1 as a size_t

ASSUME TableAssumption == /\ NR_FILES \in Nat \ {0} /\ MOD \in Nat /\ NR_FILES + 3 < MOD
                          /\ size \in [File -> U32] /\ disk_offset \in [File -> U32]
                          /\ \A f \in File : disk_offset[f] + size[f] < MOD \div 2
ASSUME GuestAssumption == /\ Lens \subseteq U32
                          /\ Offsets \subseteq -(MOD \div 2) .. MOD \div 2 - 1

VARIABLES files,         \* the descriptors
          last,          \* the last call: what was asked, what was done
          status         \* "run"; "assert_failed"; "overrun": see Kernel

vars == <<files, last, status>>

\* pos is the offset before the call, arg the length asked for or the place
\* sought, lo and len the range of the disk that was transferred.
Call == [op : {"open", "read", "write", "lseek", "close", "none"}, file : File, pos : U32,
         arg : Int, ret : U32, lo : U32, len : U32]

\* The types of the descriptors: fs_open hands out only descriptors of the table, and
\* offsets are 32-bit numbers.
TypeOK == /\ files \in [Fd -> [used : BOOLEAN, index : File, offset : U32]]
          /\ last \in Call
          /\ status \in {"run", "assert_failed", "overrun"}

-----------------------------------------------------------------------------
Done(op, f, pos, arg, ret, lo, len) ==
    last' = [op |-> op, file |-> f, pos |-> pos, arg |-> arg, ret |-> ret,
             lo |-> lo, len |-> len]

\* fs_open of a file of the table: the first free descriptor, or -1.
OpenKeepsOffset(f) ==   \* mutant: the descriptor keeps the offset of its last use
    LET free == {d \in Fd : ~files[d].used} IN
    /\ free # {}
    /\ files' = [files EXCEPT ![Min(free)].used = TRUE, ![Min(free)].index = f]
    /\ Done("open", f, 0, 0, Min(free), 0, 0)
    /\ UNCHANGED status
OpenOneMore(f) ==   \* mutant: the loop runs to fd <= NR_FILES + 3
    LET free == {d \in Fd : ~files[d].used} \cup {NR_FILES + 3}
        new == [used |-> TRUE, index |-> f, offset |-> 0]
    IN /\ files' = [d \in Fd \cup {Min(free)} |-> IF d = Min(free) THEN new ELSE files[d]]
       /\ Done("open", f, 0, 0, Min(free), 0, 0)
       /\ UNCHANGED status
Open(f) ==
    LET free == {d \in Fd : ~files[d].used} IN
    /\ IF free # {}
       THEN /\ files' = [files EXCEPT ![Min(free)] =
                            [used |-> TRUE, index |-> f, offset |-> 0]]
            /\ Done("open", f, 0, 0, Min(free), 0, 0)
       ELSE /\ UNCHANGED files
            /\ Done("open", f, 0, 0, FAIL, 0, 0)
    /\ UNCHANGED status

\* The assert(0) of fs_open for any other name, and the one of fs_read on the
\* console.
Abort == /\ status' = "assert_failed"
         /\ UNCHANGED <<files, last>>

\* A call on a descriptor that is not open returns -1.
NotOpen(d) == /\ ~files[d].used
              /\ Done("none", files[d].index, 0, 0, FAIL, 0, 0)
              /\ UNCHANGED <<files, status>>

\* The length that fs_read and fs_write transfer, clipped at the end of the file.
ClippedShort(f, pos, len) ==   \* mutant: the last byte is not transferred
    IF (pos + len) % MOD > size[f] THEN (size[f] - pos - 1) % MOD ELSE len
Clipped(f, pos, len) ==
    IF (pos + len) % MOD > size[f] THEN (size[f] - pos) % MOD ELSE len

\* fs_read and fs_write.  The early return of fs_read for a length of 0 changes
\* nothing, like a transfer of no bytes.
Transfer(op, d, len) ==
    LET f == files[d].index
        pos == files[d].offset
        n == Clipped(f, pos, len)
    IN /\ files[d].used
       /\ files' = [files EXCEPT ![d].offset = (pos + n) % MOD]
       /\ Done(op, f, pos, len, n, (disk_offset[f] + pos) % MOD, n)
       /\ UNCHANGED status

\* check_boundary on the unsigned value of new_off: the second branch is never
\* taken, since a negative number is a large unsigned one.  The first compares the
\* place with disk_offset, where the file begins on the disk.
BoundaryToStart(f, off) ==   \* mutant: the end of the file counts as outside
    IF off >= size[f] THEN 0 ELSE off
CheckBoundary(f, off) == IF off > disk_offset[f] THEN size[f] ELSE off

\* The place that lseek is asked for: SEEK_SET, SEEK_CUR and SEEK_END.
Target(d, offset, whence) ==
    offset + CASE whence = "SEEK_SET" -> 0
               [] whence = "SEEK_CUR" -> files[d].offset
               [] whence = "SEEK_END" -> size[files[d].index]

Lseek(d, offset, whence) ==
    LET f == files[d].index
        new_off == CheckBoundary(f, Target(d, offset, whence) % MOD)
    IN /\ files[d].used
       /\ files' = [files EXCEPT ![d].offset = new_off]
       /\ Done("lseek", f, files[d].offset, Target(d, offset, whence), new_off, 0, 0)
       /\ UNCHANGED status

Close(d) == /\ files[d].used
            /\ files' = [files EXCEPT ![d].used = FALSE]
            /\ Done("close", files[d].index, 0, 0, 0, 0, 0)
            /\ UNCHANGED status

-----------------------------------------------------------------------------
Init == /\ files = [d \in Fd |-> [used |-> FALSE, index |-> 0, offset |-> 0]]
        /\ last = [op |-> "none", file |-> 0, pos |-> 0, arg |-> 0, ret |-> 0,
                   lo |-> 0, len |-> 0]
        /\ status = "run"

Next == /\ status = "run"
        /\ \/ \E f \in File : Open(f)
           \/ Abort
           \/ \E d \in Fd :
                 \/ NotOpen(d) \/ Close(d)
                 \/ \E len \in Lens : Transfer("read", d, len) \/ Transfer("write", d, len)
                 \/ \E offset \in Offsets, whence \in {"SEEK_SET", "SEEK_CUR", "SEEK_END"} :
                       Lseek(d, offset, whence)

Spec == Init /\ [][Next]_vars

-----------------------------------------------------------------------------
(* Properties.                                                             *)

\* A transfer that begins in its file and whose end is a 32-bit number.
FromInside == last.pos <= size[last.file] /\ last.pos + last.arg < MOD

\* Such a transfer stays inside its file: clipping and seeking keep the range that is
\* handed to the disk driver between the first and the last byte of it, whatever the
\* calls before it were.
StaysInFile == last.op \in {"read", "write"} /\ FromInside =>
    /\ last.lo >= disk_offset[last.file]
    /\ last.lo + last.len <= disk_offset[last.file] + size[last.file]

\* It is as long as it was asked to be, or ends at the end of the file.
TransfersAll == last.op \in {"read", "write"} /\ FromInside =>
    last.ret = Min({last.arg, size[last.file] - last.pos})

\* Every transfer, also one from behind the end of the file or of a length that wraps,
\* ends in the file; so a descriptor is behind the end only where an lseek has put it,
\* and no further than the disk_offset that check_boundary compares with.
OffsetsBounded ==
    /\ last.op \in {"read", "write"} => (last.pos + last.ret) % MOD <= size[last.file]
    /\ \A d \in Fd : LET f == files[d].index IN
          files[d].offset <= Max({size[f], disk_offset[f]})

\* lseek goes to the place it was asked for if that lies between 0 and disk_offset, and
\* to the end of the file otherwise, before the start and behind the end alike: no sum
\* of a reachable offset and a signed one wraps into that range.
SeekLands == last.op = "lseek" =>
    last.ret = IF last.arg \in 0 .. disk_offset[last.file] THEN last.arg
                                                           ELSE size[last.file]

\* "Seeking past end of file", "Seeking before start of file" (fs.c:139, 142): lseek
\* goes to the place it was asked for, or to the nearer end of the file.
SeeksToEnds == last.op = "lseek" =>
    last.ret = Max({0, Min({last.arg, size[last.file]})})

\* "Reading more than file size, clipping", and 0 for "len<0" (fs.c:83, 87): a read
\* transfers no byte behind the end of the file.
ReadsClipped == last.op = "read" =>
    last.ret = Max({0, Min({last.arg, size[last.file] - last.pos})})
=============================================================================
