------------------------------- MODULE MCKernel -------------------------------
(* Small file tables and programs for TLC.                                 *)
EXTENDS Kernel

\* One file is smaller than its disk_offset, like most, and one is larger, like gop.mkf
\* and credits_bgm.wav.
MCSize == [f \in 0 .. 1 |-> IF f = 0 THEN 2 ELSE 4]
MCDiskOffset == [f \in 0 .. 1 |-> IF f = 0 THEN 5 ELSE 1]

\* Backward, forward and absolute seeks, and the most negative and the largest one.
MCOffsets == {-16, -3, 0, 3, 15}

Segment(vaddr, filesz, memsz) == [vaddr |-> vaddr, filesz |-> filesz, memsz |-> memsz]

\* One segment with a tail of zeros over three pages; two that meet in a page; three of
\* them, with a gap; one that fills its page.
MCImages == { <<Segment(1, 2, 5)>>,
              <<Segment(0, 3, 3), Segment(3, 1, 3)>>,
              <<Segment(0, 1, 1), Segment(1, 2, 2), Segment(6, 0, 1)>>,
              <<Segment(2, 2, 2)>> }
=============================================================================
