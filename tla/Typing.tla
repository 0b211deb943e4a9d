------------------------------- MODULE Typing -------------------------------
(***************************************************************************)
(* The typing game (game/src/typing): letters fall, and a letter whose key *)
(* is pressed flies up again.  The main loop sleeps until an interrupt,    *)
(* hits the letters whose keys were pressed, and then simulates every tick *)
(* of the timer since it last did so.  Interrupts come between any two     *)
(* steps while they are enabled; the letters are kept in a list with a     *)
(* free list in a pool (game/include/adt/linklist.h).                      *)
(*                                                                         *)
(* tick and target are kept relative to now.  Drawing, the frame counter   *)
(* and the two scores are left out.                                        *)
(***************************************************************************)
EXTENDS Keyboard

CONSTANTS Letters,     \* keys that are letters
          SIZE,        \* of the pool, which has one node more
          HEIGHT,      \* of the screen, in steps of a falling letter
          UP,          \* speed of a letter that was hit
          PERIOD,      \* ticks between two letters: HZ / CHARACTER_PER_SECOND
          MaxBehind    \* bound: ticks that the loop is behind, one more while it sleeps

ASSUME TypingAssumption ==
    /\ Letters \subseteq Keys /\ SIZE \in Nat \ {0}
    /\ {HEIGHT, UP, PERIOD, MaxBehind} \subseteq Nat \ {0}

NULL == -1
Node == 0 .. SIZE
Link == Node \cup {NULL}

\* The pool with _next, _prev, x, v and text of every node, and the two lists.
Fly == [next : [Node -> Link], prev : [Node -> Link], free_head : Link, head : Link,
        x : [Node -> -UP .. HEIGHT + 1], v : [Node -> {0, 1, -UP}],
        text : [Node -> Letters \cup {"none"}]]

VARIABLES letter_pressed,          \* the letters whose key was pressed
          fly,                     \* the letters: the pool, its free list and head
          behind, target,            \* tick - now and target - now
          phase,                   \* now % PERIOD
          it,                      \* of update_letter_pos
          place, if                \* place of the main loop; the interrupt flag
clock == <<behind, target, phase, it>>
tvars == <<device, letter_pressed, fly, clock, place, if>>

\* The types of the letters, of the links of their pool and of the two clocks: a
\* letter's position stays within one step of the screen.
TTypeOK == /\ KeyboardTypeOK
           /\ letter_pressed \subseteq Letters
           /\ fly \in Fly
           /\ behind \in 0 .. MaxBehind + 1 /\ target \in 0 .. MaxBehind + 1
           /\ phase \in 0 .. PERIOD - 1
           /\ it \in Link
           /\ place \in {"loop", "halted", "check", "keys", "simulate", "update"}
           /\ if \in BOOLEAN

\* The nodes of f from n on, in the order of their _next; a longer sequence than
\* there are nodes shows a cycle.
Nodes(f, n) == LET chain[k \in 0 .. SIZE + 2] == [m \in Link |->
                       IF m = NULL \/ k = 0 THEN <<>> ELSE <<m>> \o chain[k - 1][f.next[m]]]
               IN chain[SIZE + 2][n]
OnScreen == ToSet(Nodes(fly, fly.head))

TInit == /\ KeyboardInit
         /\ letter_pressed = {}
         /\ fly = [next |-> [n \in Node |-> NULL], prev |-> [n \in Node |-> NULL],
                   free_head |-> NULL, head |-> NULL, x |-> [n \in Node |-> 0],
                   v |-> [n \in Node |-> 0], text |-> [n \in Node |-> "none"]]
         /\ behind = 0 /\ target = 0 /\ phase = 0 /\ it = NULL
         /\ place = "loop" /\ if = TRUE

-----------------------------------------------------------------------------
(* Interrupts.  Each of them ends the hlt instruction of wait_intr.        *)
WokenUp == IF place = "halted" THEN "check" ELSE place

\* timer_event.
TimerEvent ==
    /\ if /\ behind < MaxBehind + (IF place = "halted" THEN 1 ELSE 0)
    /\ behind' = behind + 1
    /\ place' = WokenUp
    /\ UNCHANGED <<device, letter_pressed, fly, target, phase, it, if>>

\* keyboard_event: press_key finds no letter for the code of a release.
TKeyboardEvent ==
    /\ if /\ ReadCode
    /\ letter_pressed' = IF ~scan_code_buf.up /\ scan_code_buf.key \in Letters
                         THEN letter_pressed \cup {scan_code_buf.key} ELSE letter_pressed
    /\ place' = WokenUp
    /\ UNCHANGED <<fly, clock, if>>

-----------------------------------------------------------------------------
(* main_loop.                                                              *)

\* wait_intr: the hlt instruction.  A tick that comes before it does not end it.
Halt == /\ place = "loop" /\ place' = "halted"
        /\ UNCHANGED <<device, letter_pressed, fly, clock, if>>

\* Interrupts are disabled from cli to sti, so this is one step.
Check ==
    /\ place = "check"
    /\ IF behind = 0 THEN place' = "loop" /\ UNCHANGED target
                     ELSE place' = "keys" /\ target' = behind
    /\ UNCHANGED <<device, letter_pressed, fly, behind, phase, it, if>>

\* The lowest letter, the first in the list among equals, that falls and whose
\* key was pressed.
Candidates == {n \in OnScreen : fly.v[n] > 0 /\ fly.text[n] \in letter_pressed}
Before(m, n) == LET c == Nodes(fly, fly.head)
                IN \E j, k \in DOMAIN c : j < k /\ c[j] = m /\ c[k] = n
Target == CHOOSE n \in Candidates :
              \A m \in Candidates \ {n} :
                  fly.x[m] < fly.x[n] \/ (fly.x[m] = fly.x[n] /\ Before(n, m))

\* update_keypress: interrupts stay disabled when it returns true.
UpdateKeypressKeepsKey ==   \* mutant: neither the key nor the letter is changed
    /\ place = "keys"
    /\ IF Candidates # {}
       THEN /\ if' = FALSE /\ UNCHANGED <<letter_pressed, fly, place>>
       ELSE /\ if' = TRUE /\ place' = "simulate"
            /\ UNCHANGED <<letter_pressed, fly>>
    /\ UNCHANGED <<device, clock>>
UpdateKeypressNoSti ==   \* mutant: interrupts are not enabled at the end
    /\ place = "keys"
    /\ IF Candidates # {}
       THEN /\ letter_pressed' = letter_pressed \ {fly.text[Target]}
            /\ fly' = [fly EXCEPT !.v[Target] = -UP]
            /\ if' = FALSE
            /\ UNCHANGED place
       ELSE /\ if' = FALSE /\ place' = "simulate"
            /\ UNCHANGED <<letter_pressed, fly>>
    /\ UNCHANGED <<device, clock>>
UpdateKeypress ==
    /\ place = "keys"
    /\ IF Candidates # {}
       THEN /\ letter_pressed' = letter_pressed \ {fly.text[Target]}
            /\ fly' = [fly EXCEPT !.v[Target] = -UP]
            /\ if' = FALSE
            /\ UNCHANGED place
       ELSE /\ if' = TRUE /\ place' = "simulate"
            /\ UNCHANGED <<letter_pressed, fly>>
    /\ UNCHANGED <<device, clock>>

\* fly_new, without its assert: an empty free list stands for the whole pool.
NewNode(f) == IF f.free_head = NULL THEN 0 ELSE f.free_head
FlyNew(f) ==
    LET linked == IF f.free_head = NULL
                  THEN [n \in Node |-> IF n < SIZE THEN n + 1 ELSE f.next[n]] ELSE f.next
        n == NewNode(f)
    IN [f EXCEPT !.free_head = linked[n],
                 !.next = [linked EXCEPT ![n] = NULL], !.prev[n] = NULL]
\* The assert of fly_new: the last node of the free list is never handed out.
CanAllocate(f) == f.free_head # NULL => f.next[f.free_head] # NULL

\* fly_remove and fly_free.
FlyRemove(f, n) ==
    [f EXCEPT !.next = [m \in Node |-> IF m = f.prev[n] THEN f.next[n] ELSE @[m]],
              !.prev = [m \in Node |-> IF m = f.next[n] THEN f.prev[n] ELSE @[m]]]
FlyFree(f, n) == [f EXCEPT !.next[n] = f.free_head, !.free_head = n]

\* create_new_letter: the new letter c is put in front.
CreateNewLetter(f, c) ==
    LET n == NewNode(f)
        g == FlyNew(f)
    IN [g EXCEPT !.next[n] = f.head,
                 !.prev = [m \in Node |-> IF m = f.head THEN n ELSE @[m]],
                 !.head = n, !.x[n] = 0, !.v[n] = 1, !.text[n] = c]

\* The body of the loop of update_letter_pos: a letter that has left the screen is
\* removed.
UpdateLetterFreesFirst(f, n) ==   \* mutant: the node is freed before it is unlinked
    LET y == f.x[n] + f.v[n]
        g == [f EXCEPT !.x[n] = y]
    IN IF y \in 0 .. HEIGHT THEN g
       ELSE [FlyRemove(FlyFree(g, n), n) EXCEPT !.head = IF n = @ THEN f.next[n] ELSE @]
UpdateLetterLeaks(f, n) ==   \* mutant: the node is not freed
    LET y == f.x[n] + f.v[n]
        g == [f EXCEPT !.x[n] = y]
    IN IF y \in 0 .. HEIGHT THEN g
       ELSE [FlyRemove(g, n) EXCEPT !.head = IF n = @ THEN f.next[n] ELSE @]
UpdateLetterLate(f, n) ==   \* mutant: the lower edge of the screen is one step too low
    LET y == f.x[n] + f.v[n]
        g == [f EXCEPT !.x[n] = y]
    IN IF y \in 0 .. HEIGHT + 1 THEN g
       ELSE [FlyFree(FlyRemove(g, n), n) EXCEPT !.head = IF n = @ THEN f.next[n] ELSE @]
UpdateLetter(f, n) ==
    LET y == f.x[n] + f.v[n]
        g == [f EXCEPT !.x[n] = y]
    IN IF y \in 0 .. HEIGHT THEN g
       ELSE [FlyFree(FlyRemove(g, n), n) EXCEPT !.head = IF n = @ THEN f.next[n] ELSE @]

\* One pass of the loop that simulates the ticks up to target: a letter may be
\* created, and the traversal of update_letter_pos begins.
Simulate(c) ==
    /\ place = "simulate" /\ target > 0
    /\ IF phase = 0
       THEN /\ CanAllocate(fly)
            /\ fly' = CreateNewLetter(fly, c)
            /\ letter_pressed' = letter_pressed \ {c}
       ELSE UNCHANGED <<fly, letter_pressed>>
    /\ it' = fly'.head
    /\ place' = "update"
    /\ UNCHANGED <<device, behind, target, phase, if>>

\* The next letter is read before the current one is freed.
UpdateLetterPos ==
    /\ place = "update" /\ it # NULL
    /\ fly' = UpdateLetter(fly, it)
    /\ it' = fly.next[it]
    /\ UNCHANGED <<device, letter_pressed, behind, target, phase, place, if>>

\* now moves on.
TickDoneKeepsNow ==   \* mutant: now is not advanced
    /\ place = "update" /\ it = NULL
    /\ phase' = (phase + 1) % PERIOD
    /\ place' = "simulate"
    /\ UNCHANGED <<device, letter_pressed, fly, behind, target, it, if>>
TickDone ==
    /\ place = "update" /\ it = NULL
    /\ behind' = behind - 1 /\ target' = target - 1
    /\ phase' = (phase + 1) % PERIOD
    /\ place' = "simulate"
    /\ UNCHANGED <<device, letter_pressed, fly, it, if>>

\* The loop is done; the screen is drawn.
Redraw == /\ place = "simulate" /\ target = 0
          /\ place' = "loop"
          /\ UNCHANGED <<device, letter_pressed, fly, clock, if>>

TDeviceStep == KeyboardNext /\ UNCHANGED <<letter_pressed, fly, clock, place, if>>
MainLoop == \/ Halt \/ Check \/ UpdateKeypress \/ UpdateLetterPos \/ TickDone \/ Redraw
            \/ \E c \in Letters : Simulate(c)
TNext == TDeviceStep \/ TimerEvent \/ TKeyboardEvent \/ MainLoop

TSpec == TInit /\ [][TNext]_tvars

\* The timer never stops, and the main loop runs whenever it is not asleep.
TFairSpec == TSpec /\ WF_tvars(TimerEvent) /\ WF_tvars(MainLoop)

-----------------------------------------------------------------------------
(* Properties.                                                             *)

\* The letters on the screen and the free nodes are two disjoint lists without a
\* cycle that hold the whole pool, and _prev of the former goes back along _next.
ListSound ==
    LET shown == Nodes(fly, fly.head)
        free == Nodes(fly, fly.free_head)
    IN /\ IsInjective(shown) /\ IsInjective(free)
       /\ ToSet(shown) \cap ToSet(free) = {}
       /\ fly.free_head # NULL => ToSet(shown) \cup ToSet(free) = Node
       /\ \A j \in DOMAIN shown : fly.prev[shown[j]] = IF j = 1 THEN NULL ELSE shown[j - 1]

\* The assert of fly_new holds: letters leave the screen before the pool is used up,
\* and every one that leaves goes back into it.
PoolSuffices == place = "simulate" /\ target > 0 /\ phase = 0 => CanAllocate(fly)

\* update_keypress returns with interrupts disabled as long as it finds a letter;
\* they are always enabled again.
InterruptsReturn == []<>if

\* The loop always catches up with the timer: however far it is behind, and even
\* when a tick comes between the check and hlt, the game goes on.
CatchesUp == []<>(place = "simulate" /\ target = 0) /\ [](behind > 0 => <>(target > 0))

\* A press is not kept for ever while a letter for it falls: it hits one, or is
\* cleared when the next one of the same name is created.
PressTakesEffect ==
    \A c \in Letters :
        (\E n \in OnScreen : fly.text[n] = c /\ fly.v[n] > 0) /\ c \in letter_pressed
            ~> c \notin letter_pressed
               \/ ~ \E n \in OnScreen : fly.text[n] = c /\ fly.v[n] > 0

\* The letters and the pool they come from.
LettersSound == TTypeOK /\ ListSound /\ PoolSuffices

\* The game goes on: interrupts come back and the loop keeps up with the clock.
GameGoesOn == InterruptsReturn /\ CatchesUp
=============================================================================
