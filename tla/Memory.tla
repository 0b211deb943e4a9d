------------------------------- MODULE Memory -------------------------------
(***************************************************************************)
(* What the physical memory of NEMU promises to the rest of the emulator:  *)
(* a flat array of bytes; a write of len bytes changes exactly those bytes *)
(* and a read returns the bytes written last, zero extended to a u32.      *)
(* An access the bound check rejects stops the emulator.                   *)
(***************************************************************************)
EXTENDS Naturals

CONSTANTS MEM_SIZE_B,   \* number of bytes of hw_mem
          Byte,         \* the values of a byte; 0 is one of them
          Lens          \* the access lengths, between 1 and 4

VARIABLES mem,      \* the bytes
          req,      \* the last request: read or write, where, how much, what
          ret,      \* what the last read returned
          running

mvars == <<mem, req, ret, running>>

Paddr == 0 .. MEM_SIZE_B - 1
U32 == [0 .. 3 -> Byte]   \* little endian: byte 0 is the least significant
Zero == [i \in 0 .. 3 |-> 0]

Bytes(p, len) == [i \in 0 .. 3 |-> IF i < len THEN mem[p + i] ELSE 0]

MInit == /\ mem = [p \in Paddr |-> 0]
         /\ req = [op |-> "read", addr |-> 0, len |-> 0, data |-> Zero]
         /\ ret = Zero
         /\ running = TRUE

MRead(p, len) == /\ running
                 /\ req' = [op |-> "read", addr |-> p, len |-> len, data |-> Zero]
                 /\ p + len < MEM_SIZE_B
                 /\ ret' = Bytes(p, len)
                 /\ UNCHANGED <<mem, running>>

MWrite(p, len, data) ==
    /\ running
    /\ req' = [op |-> "write", addr |-> p, len |-> len, data |-> data]
    /\ p + len < MEM_SIZE_B
    /\ mem' = [q \in Paddr |-> IF q >= p /\ q < p + len THEN data[q - p]
                                                        ELSE mem[q]]
    /\ UNCHANGED <<ret, running>>

MStop(p, len) == /\ running
                 /\ p + len >= MEM_SIZE_B
                 /\ running' = FALSE
                 /\ UNCHANGED <<mem, req, ret>>

MNext == \E p \in Paddr, len \in Lens :
            \/ MRead(p, len)
            \/ \E data \in U32 : MWrite(p, len, data)
            \/ MStop(p, len)

MSpec == MInit /\ [][MNext]_mvars
=============================================================================
