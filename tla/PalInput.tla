------------------------------- MODULE PalInput -------------------------------
(***************************************************************************)
(* Key input of the ported game: the interrupt handler keeps one state per *)
(* key (game/src/nemu-pal/hal/keyboard.c), process_keys reports changes    *)
(* with interrupts disabled, and the two callbacks keep the direction the  *)
(* player walks in (game/src/nemu-pal/device/input.c).  As no interrupt    *)
(* comes in between, one call of process_keys is one step.  The set of     *)
(* pressed keys dwKeyPress, which the callbacks only add to and            *)
(* PAL_ClearKeyState empties, is left out.                                 *)
(***************************************************************************)
EXTENDS Keyboard

CONSTANTS KeyOrder,    \* keycode_hash: the keys of the game, in the order of their index
          DirKeys,     \* those among them that stand for a direction
          MaxUnreported   \* bound: presses of a key that have not been reported

GameKeys == ToSet(KeyOrder)

\* A direction is named by its key.
kDirUnknown == "unknown"
Dir == DirKeys \cup {kDirUnknown}

\* keycode_hash has one index for each key.
ASSUME KeysAssumption == /\ KeyOrder \in Seq(Keys) /\ IsInjective(KeyOrder)
                         /\ DirKeys \subseteq GameKeys /\ kDirUnknown \notin Keys
                         /\ MaxUnreported \in Nat \ {0}

VARIABLES key_state,
          input,       \* g_InputState: dir and prevdir
          fInBattle,
          unreported   \* history: presses of each key that have not been reported
pvars == <<device, key_state, input, fInBattle, unreported>>

KeyState == {"EMPTY", "WAIT_RELEASE", "RELEASE", "PRESS"}

\* The types of the game's key states and of the input state that the key handlers
\* of input.c keep.
PTypeOK == /\ KeyboardTypeOK
           /\ key_state \in [GameKeys -> KeyState]
           /\ input \in [dir : Dir, prevdir : Dir]
           /\ fInBattle \in BOOLEAN
           /\ unreported \in [GameKeys -> Int]

\* PAL_InitInput.
PInit == /\ KeyboardInit
         /\ key_state = [k \in GameKeys |-> "EMPTY"]
         /\ input = [dir |-> kDirUnknown, prevdir |-> kDirUnknown]
         /\ fInBattle = FALSE
         /\ unreported = [k \in GameKeys |-> 0]

-----------------------------------------------------------------------------
\* keyboard_event, the interrupt handler.
NewStateIfWaiting(old, up) ==   \* mutant: a release counts only for a reported press
    IF up THEN (IF old = "WAIT_RELEASE" THEN "RELEASE" ELSE old)
    ELSE IF old = "EMPTY" THEN "PRESS" ELSE old
NewState(old, up) == IF up THEN "RELEASE" ELSE IF old = "EMPTY" THEN "PRESS" ELSE old
PKeyboardEvent ==
    LET code == scan_code_buf IN
    /\ ReadCode
    /\ key_state' = IF code.key \in GameKeys
                    THEN [key_state EXCEPT ![code.key] = NewState(@, code.up)]
                    ELSE key_state
    /\ UNCHANGED <<input, fInBattle, unreported>>

\* PAL_KeyPressHandler and PAL_KeyReleaseHandler.
KeyPressHandler(s, k) ==
    [s EXCEPT !.prevdir = IF k \notin DirKeys THEN @
                           ELSE IF fInBattle THEN kDirUnknown ELSE s.dir,
               !.dir = IF k \in DirKeys THEN k ELSE @]
KeyReleaseHandlerKeepsPrev(s, k) ==   \* mutant: the previous direction is not forgotten
    [s EXCEPT !.dir = IF @ = k THEN s.prevdir ELSE @]
KeyReleaseHandler(s, k) ==
    [s EXCEPT !.dir = IF @ = k THEN s.prevdir ELSE @,
               !.prevdir = IF k \in DirKeys THEN kDirUnknown ELSE @]

\* What process_keys does with the state of one key.
Report(s, k) == CASE key_state[k] = "PRESS"   -> KeyPressHandler(s, k)
                   [] key_state[k] = "RELEASE" -> KeyReleaseHandler(s, k)
                   [] OTHER                    -> s
ReportedStaysPressed(k) ==   \* mutant: release_key is not called
    IF key_state[k] = "RELEASE" THEN "EMPTY" ELSE key_state[k]
ReportedAdvances(k) ==   \* mutant: the state moves on to the one after PRESS
    CASE key_state[k] = "PRESS"   -> "AFTER_PRESS"
      [] key_state[k] = "RELEASE" -> "EMPTY"
      [] OTHER                    -> key_state[k]
Reported(k) == CASE key_state[k] = "PRESS"   -> "WAIT_RELEASE"
                 [] key_state[k] = "RELEASE" -> "EMPTY"
                 [] OTHER                    -> key_state[k]
ReportAll == LET after[n \in 0 .. Len(KeyOrder)] ==
                     IF n = 0 THEN input ELSE Report(after[n - 1], KeyOrder[n])
             IN after[Len(KeyOrder)]
ProcessKeys ==
    /\ input' = ReportAll
    /\ key_state' = [k \in GameKeys |-> Reported(k)]
    /\ unreported' = [k \in GameKeys |-> unreported[k] - IF key_state[k] = "PRESS" THEN 1 ELSE 0]
    /\ UNCHANGED <<device, fInBattle>>

\* A battle begins or ends.
Battle == fInBattle' = ~fInBattle /\ UNCHANGED <<device, key_state, input, unreported>>

\* A step of the device or the user, with the history of presses.
PDeviceStep ==
    /\ KeyboardNext
    /\ unreported' = [k \in GameKeys |-> unreported[k] + IF k \in held' \ held THEN 1 ELSE 0]
    /\ \A k \in GameKeys : unreported'[k] <= MaxUnreported
    /\ UNCHANGED <<key_state, input, fInBattle>>

PNext == PDeviceStep \/ PKeyboardEvent \/ ProcessKeys \/ Battle
PSpec == PInit /\ [][PNext]_pvars

\* NEMU polls the keyboard between instructions, the interrupt is taken once it
\* is enabled, and the game calls PAL_ProcessEvent again and again.
PFairSpec == /\ PSpec
             /\ WF_pvars(PDeviceStep /\ DoKeyboard)
             /\ WF_pvars(PKeyboardEvent) /\ WF_pvars(ProcessKeys)

-----------------------------------------------------------------------------
(* Properties.                                                             *)

\* Everything that reached the guest has been processed.
Settled == events = <<>> /\ ~irq /\ \A k \in GameKeys : key_state[k] \in {"EMPTY", "WAIT_RELEASE"}

\* The player walks in a direction, or goes back to it, only while its key is
\* held down, unless the release of the key was overwritten in the scan code buffer
\* or its interrupt dropped: nothing else in the way from the device over the key
\* states to the two remembered directions leaves a direction behind.
NoStuckDirection ==
    Settled => {input.dir, input.prevdir} \subseteq held \cup lost_up \cup {kDirUnknown}

\* A key whose next press would be ignored is one that is held or whose release
\* was lost.
NoDeafKey ==
    Settled => \A k \in GameKeys : key_state[k] = "WAIT_RELEASE" => k \in held \cup lost_up

\* The game is told of at most as many presses as the user made.
NoGhostPress == \A k \in GameKeys : unreported[k] >= 0

\* When the user stops with a release, that release is acted upon, however many
\* events were lost before it, unless the controller drops its interrupt.
LastReleaseCounts ==
    \A k \in DirKeys :
        <>[](held = {}) /\ <>[](k \notin lost_up) => <>[](input.dir # k)

\* The key states and directions of the game follow the keyboard, but for keys
\* whose release was lost; it never sees a press that nobody made.
KeysFollow == PTypeOK /\ NoStuckDirection /\ NoDeafKey /\ NoGhostPress
=============================================================================
