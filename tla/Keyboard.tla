------------------------------ MODULE Keyboard ------------------------------
(***************************************************************************)
(* The keyboard of NEMU (nemu/src/device/dev/keyboard.c): the user's key   *)
(* events wait in the queue of SDL, do_keyboard moves all of them into one *)
(* scan code buffer, each with an interrupt, and the handler of the guest  *)
(* reads that buffer at port 0x60.  What the guest does with the code is   *)
(* in the modules PalInput and Typing.                                     *)
(***************************************************************************)
EXTENDS Integers, Sequences, SequencesExt

CONSTANTS Keys,
          Queue      \* bound: events that wait in the queue of SDL

ASSUME QueueAssumption == Queue \in Nat \ {0}

\* A scan code: the key and, for a release, the bit 0x80.
Code == [key : Keys, up : BOOLEAN]
NoCode == [key |-> "none", up |-> FALSE]

VARIABLES held,            \* the keys the user holds down
          events,          \* the queue of SDL
          scan_code_buf, irq,
          unread,          \* history: the code in the buffer has not been read
          lost_up          \* history: keys whose release never reaches the guest
device == <<held, events, scan_code_buf, irq, unread, lost_up>>

\* The types of the SDL queue, of the scan code port and of the interrupt.
KeyboardTypeOK == /\ held \subseteq Keys /\ lost_up \subseteq Keys
                  /\ events \in Seq(Code) /\ Len(events) <= Queue
                  /\ scan_code_buf \in Code \cup {NoCode}
                  /\ irq \in BOOLEAN /\ unread \in BOOLEAN

KeyboardInit == /\ held = {} /\ events = <<>>
                /\ scan_code_buf = NoCode /\ irq = FALSE
                /\ unread = FALSE /\ lost_up = {}

\* The keys of the releases among some codes.
Releases(codes) == {c.key : c \in {d \in codes : d.up}}

-----------------------------------------------------------------------------
\* The user presses or releases a key.
UserPress(k) ==
    /\ k \notin held /\ Len(events) < Queue
    /\ held' = held \cup {k}
    /\ events' = Append(events, [key |-> k, up |-> FALSE])
    /\ UNCHANGED <<scan_code_buf, irq, unread, lost_up>>
UserRelease(k) ==
    /\ k \in held /\ Len(events) < Queue
    /\ held' = held \ {k}
    /\ events' = Append(events, [key |-> k, up |-> TRUE])
    /\ UNCHANGED <<scan_code_buf, irq, unread, lost_up>>

\* do_keyboard: every event of the queue is put into the buffer, over the one
\* before it, and an interrupt is raised.
DoKeyboardFirstOnly ==   \* mutant: the first event of the queue stays in the buffer
    /\ events # <<>>
    /\ scan_code_buf' = Head(events) /\ irq' = TRUE /\ events' = <<>>
    /\ unread' = TRUE
    /\ lost_up' = lost_up \cup Releases(ToSet(Front(events))
                                        \cup (IF unread THEN {scan_code_buf} ELSE {}))
    /\ UNCHANGED held
DoKeyboard ==
    /\ events # <<>>
    /\ scan_code_buf' = Last(events) /\ irq' = TRUE /\ events' = <<>>
    /\ unread' = TRUE
    /\ lost_up' = lost_up \cup Releases(ToSet(Front(events))
                                        \cup (IF unread THEN {scan_code_buf} ELSE {}))
    /\ UNCHANGED held

\* handler_keyboard_data, called by the in instruction of the guest's handler:
\* the interrupt is acknowledged and the code read.  The two are one step: when
\* do_keyboard polls between them, the guest reads the newer code, and reads it again
\* in the second interrupt, which follows the iret of the first.  This is DoKeyboard
\* followed by ReadCode, since doing the same code twice in a row has no effect in the
\* handler of either game (typing/keyboard.c:15, hal/keyboard.c:29).
ReadCode ==
    /\ irq /\ irq' = FALSE
    /\ unread' = FALSE
    /\ lost_up' = IF scan_code_buf.up THEN lost_up \ {scan_code_buf.key} ELSE lost_up
    /\ UNCHANGED <<held, events, scan_code_buf>>

\* The controller has one slot: a request with a larger number, of the disk or the
\* sound card, erases this one (module Interrupts).
IrqErased ==
    /\ irq /\ irq' = FALSE
    /\ unread' = FALSE
    /\ lost_up' = lost_up \cup Releases({scan_code_buf})
    /\ UNCHANGED <<held, events, scan_code_buf>>

KeyboardNext == DoKeyboard \/ IrqErased \/ \E k \in Keys : UserPress(k) \/ UserRelease(k)
=============================================================================
