-------------------------------- MODULE Audio --------------------------------
(***************************************************************************)
(* The sound card of a build with HAS_DEVICE_AUDIO and without PA_ONLINE   *)
(* (nemu/src/device/dev/audio.c).  Five threads share two chunks of PCM    *)
(* data: the loop of NEMU fills one (audio_io_handler), two workers copy   *)
(* the bytes for it (AUDIO_CP_Thread), the callback of SDL plays the other *)
(* and exchanges the two (fill_audio), and the monitor turns the flag      *)
(* switch_buf into an interrupt.                                           *)
(*                                                                         *)
(* The guest is an assumption: a client of audio_pause and audio_write     *)
(* (game/src/common/device/audio.c) that is the credits program with the   *)
(* two calls it has as comments at this commit, audio_pause(0) and         *)
(* write_audio_data() (credits.c:40 and :50).  Its interrupt handler sets  *)
(* audio_reload, the main loop hands over one buffer when it is set and    *)
(* then clears it, and there is always more data.  As the program is, it   *)
(* never starts the playback, and the device stays idle.  The buffers      *)
(* are numbered 0, 1, 2, 0, ..., and a chunk is the set of the bytes of    *)
(* its buffer that have been copied into it.  An SDL mutex is recursive,   *)
(* locking waits until it is free, and unlocking a mutex of another thread *)
(* fails without effect.  Threads can be created; what happens after       *)
(* NEMU_STOP is left out.                                                  *)
(***************************************************************************)
EXTENDS Integers

CONSTANTS MAX_CHUNK_SIZE,
          Lens,          \* values of data_len; PCM_BUF_SIZE is below MAX_CHUNK_SIZE
          SDL_LEN        \* bytes that SDL asks the callback for

NUM_AUDIO_WORKER == 2
Worker == 0 .. NUM_AUDIO_WORKER - 1
Chunk == {0, 1}
Byte == 0 .. MAX_CHUNK_SIZE - 1
Buffers == 0 .. 2        \* the numbers of successive buffers, modulo 3
Next3(n) == (n + 1) % 3

ASSUME SizeAssumption == /\ MAX_CHUNK_SIZE \in Nat \ {0}
                         /\ Lens \subseteq 0 .. MAX_CHUNK_SIZE - 1
                         /\ SDL_LEN \in Nat \ {0}

VARIABLES chunk, audio_len, ready,   \* audio_chunk, audio_len, audio_chunk_ready
          play_idx, fill_idx,
          audio_state,   \* 1: paused
          switch_buf, monitor_thread,
          mutex,         \* owner of audio_mutex: "none", "loop" or "callback"
          loop, target, data_len, i,   \* the loop's place, the mutex it locks, its locals
          worker, idx,   \* each copying thread and its idx
          callback, monitor,           \* the places of the two other threads
          irq, reload,   \* the interrupt in the controller; audio_reload of the guest
          number,        \* history: of the buffer handed over last
          played,        \* history: number of the buffer the callback turned to last
          lost           \* history: which notifications were lost, and where

buffers == <<chunk, audio_len, ready, number>>
indices == <<play_idx, fill_idx, played>>
cpu == <<loop, target, data_len, i>>
workers == <<worker, idx>>
request == <<switch_buf, irq, reload, lost>>
control == <<audio_state, monitor_thread>>
vars == <<buffers, indices, cpu, workers, request, control, mutex, callback, monitor>>

\* The types of what the threads share: lengths fit a chunk, and the indices, which
\* fill_audio exchanges modulo 2, stay chunks.
TypeOK == /\ chunk \in [Chunk -> SUBSET Byte]
          /\ audio_len \in [Chunk -> Lens \cup Byte]
          /\ ready \in [Chunk -> BOOLEAN]
          /\ play_idx \in Chunk /\ fill_idx \in Chunk /\ target \in Chunk
          /\ audio_state \in {0, 1}
          /\ {switch_buf, monitor_thread, irq, reload} \subseteq BOOLEAN
          /\ mutex \in [Chunk -> {"none", "loop", "callback"}]
          /\ loop \in {"run", "lock", "create", "join", "store", "written"}
          /\ data_len \in Lens \cup {0} /\ i \in 0 .. NUM_AUDIO_WORKER
          /\ worker \in [Worker -> {"none", "created", "copy"}]
          /\ idx \in [Worker -> 0 .. NUM_AUDIO_WORKER]
          /\ callback \in {"idle", "wait", "swapped", "mix"}
          /\ monitor \in {"idle", "raised"}
          /\ number \in Buffers /\ played \in Buffers
          /\ lost \subseteq {"monitor", "guest", "i8259"}

-----------------------------------------------------------------------------
(* The loop: the guest and audio_io_handler.                               *)

\* AUDIO_CTL, written with a cmd of 0 (play) or 1 (pause).
AudioCtlKeepsFill(cmd) ==   \* mutant: the first fill is not directed to chunk 1
    /\ loop = "run"
    /\ monitor_thread' = (monitor_thread \/ cmd = 0)
    /\ audio_state' = cmd
    /\ switch_buf' = (switch_buf \/ (~monitor_thread /\ cmd = 0))
    /\ UNCHANGED <<buffers, indices, cpu, workers, mutex, callback, monitor, irq, reload,
                   lost>>
AudioCtl(cmd) ==
    /\ loop = "run"
    /\ IF ~monitor_thread /\ cmd = 0
       THEN fill_idx' = 1 /\ switch_buf' = TRUE /\ monitor_thread' = TRUE
       ELSE UNCHANGED <<fill_idx, switch_buf, monitor_thread>>
    /\ audio_state' = cmd
    /\ UNCHANGED <<buffers, cpu, workers, play_idx, mutex, callback, monitor, irq, reload,
                   played, lost>>

\* The guest's handler sets audio_reload.  Between the handing over of a buffer
\* and the reset of the flag this is lost.
AudioEvent ==
    /\ irq /\ loop \in {"run", "written"}
    /\ irq' = FALSE /\ reload' = TRUE
    /\ lost' = IF loop = "written" THEN lost \cup {"guest"} ELSE lost
    /\ UNCHANGED <<buffers, indices, cpu, workers, control, switch_buf, mutex, callback,
                   monitor>>

\* AUDIO_DATA, which the guest writes when it finds audio_reload set (the comment at
\* credits.c:50): the argument of SDL_LockMutex is evaluated ...
DataBegin ==
    /\ loop = "run" /\ reload
    /\ target' = fill_idx /\ loop' = "lock"
    /\ UNCHANGED <<buffers, indices, workers, request, control, mutex, data_len, i,
                   callback, monitor>>

\* ... and the mutex is obtained; the buffer and its length are read.
DataLock(len) ==
    /\ loop = "lock" /\ mutex[target] \in {"none", "loop"}
    /\ mutex' = [mutex EXCEPT ![target] = "loop"]
    /\ data_len' = len /\ i' = 0
    /\ number' = Next3(number)
    /\ chunk' = [chunk EXCEPT ![fill_idx] = {}]
    /\ loop' = "create"
    /\ UNCHANGED <<indices, workers, request, control, audio_len, ready, target, callback,
                   monitor>>

\* One pass of the first loop of copy_audio_data: worker i gets the address of i,
\* and i moves on.  At the end i starts again at 0 for the joins.
CreateThread ==
    /\ loop = "create"
    /\ IF i < NUM_AUDIO_WORKER
       THEN /\ worker' = [worker EXCEPT ![i] = "created"]
            /\ i' = i + 1
            /\ UNCHANGED loop
       ELSE /\ loop' = "join" /\ i' = 0
            /\ UNCHANGED worker
    /\ UNCHANGED <<buffers, indices, request, control, mutex, target, data_len, idx,
                   callback, monitor>>

\* SDL_WaitThread, and the chunk is marked as ready after the last one.
WaitThreadEarly ==   \* mutant: the chunk is marked as ready before the joins
    /\ loop = "join"
    /\ ready' = [ready EXCEPT ![fill_idx] = TRUE]
    /\ loop' = "store" /\ i' = NUM_AUDIO_WORKER
    /\ UNCHANGED <<indices, workers, request, control, chunk, audio_len, number, mutex,
                   target, data_len, callback, monitor>>
WaitThread ==
    /\ loop = "join"
    /\ IF i < NUM_AUDIO_WORKER
       THEN /\ worker[i] = "none"
            /\ i' = i + 1
            /\ UNCHANGED <<ready, loop>>
       ELSE /\ ready' = [ready EXCEPT ![fill_idx] = TRUE]
            /\ loop' = "store"
            /\ UNCHANGED i
    /\ UNCHANGED <<indices, workers, request, control, chunk, audio_len, number, mutex,
                   target, data_len, callback, monitor>>

\* The length is stored and the mutex of the chunk to fill released.
DataEndNoUnlock ==   \* mutant: the mutex is not released
    /\ loop = "store"
    /\ audio_len' = [audio_len EXCEPT ![fill_idx] = data_len]
    /\ loop' = "written"
    /\ UNCHANGED <<indices, workers, request, control, chunk, ready, number, mutex, target,
                   data_len, i, callback, monitor>>
DataEnd ==
    /\ loop = "store"
    /\ audio_len' = [audio_len EXCEPT ![fill_idx] = data_len]
    /\ mutex' = [mutex EXCEPT ![fill_idx] = IF @ = "loop" THEN "none" ELSE @]
    /\ loop' = "written" /\ target' = 0 /\ i' = 0
    /\ UNCHANGED <<indices, workers, request, control, chunk, ready, number, data_len,
                   callback, monitor>>

\* The guest clears audio_reload (credits.c:51), after the buffer has been handed over.
ClearReload ==
    /\ loop = "written"
    /\ reload' = FALSE /\ loop' = "run"
    /\ UNCHANGED <<buffers, indices, workers, control, switch_buf, mutex, target, data_len,
                   i, callback, monitor, irq, lost>>

LoopStep == \/ AudioEvent \/ DataBegin \/ CreateThread \/ WaitThread \/ DataEnd \/ ClearReload
            \/ \E len \in Lens : DataLock(len)

-----------------------------------------------------------------------------
(* AUDIO_CP_Thread.                                                        *)

\* The thread reads the variable i of the loop whenever it gets to run.
ReadIdx(w) ==
    /\ worker[w] = "created"
    /\ worker' = [worker EXCEPT ![w] = "copy"]
    /\ idx' = [idx EXCEPT ![w] = i]
    /\ UNCHANGED <<buffers, indices, cpu, request, control, mutex, callback, monitor>>

\* It copies every second byte from there on.
Share(w) == {k * NUM_AUDIO_WORKER + idx[w] : k \in 0 .. (data_len \div NUM_AUDIO_WORKER) - 1}
Copy(w) ==
    /\ worker[w] = "copy"
    /\ worker' = [worker EXCEPT ![w] = "none"]
    /\ chunk' = [chunk EXCEPT ![fill_idx] = @ \cup Share(w)]
    /\ idx' = [idx EXCEPT ![w] = 0]
    /\ UNCHANGED <<indices, cpu, request, control, audio_len, ready, number, mutex,
                   callback, monitor>>

-----------------------------------------------------------------------------
(* fill_audio, called by SDL unless playback is paused.                    *)

\* The chunk being played is locked; if nothing is left of it, it is marked as
\* not ready and the callback turns to the other one.
FillAudioKeepsReady ==   \* mutant: the empty chunk stays marked as ready
    /\ callback = "idle" /\ audio_state = 0
    /\ mutex[play_idx] = "none"
    /\ mutex' = [mutex EXCEPT ![play_idx] = "callback"]
    /\ callback' = IF audio_len[play_idx] > 0 /\ ready[play_idx] THEN "mix" ELSE "wait"
    /\ UNCHANGED <<buffers, indices, cpu, workers, request, control, monitor>>
FillAudio ==
    /\ callback = "idle" /\ audio_state = 0
    /\ mutex[play_idx] = "none"
    /\ mutex' = [mutex EXCEPT ![play_idx] = "callback"]
    /\ IF audio_len[play_idx] > 0 /\ ready[play_idx]
       THEN callback' = "mix" /\ UNCHANGED ready
       ELSE callback' = "wait" /\ ready' = [ready EXCEPT ![play_idx] = FALSE]
    /\ UNCHANGED <<indices, cpu, workers, request, control, chunk, audio_len, number,
                   monitor>>

\* It locks the chunk to fill, and lets go of it until that is ready; then the
\* two are exchanged.
SwapNoModulo ==   \* mutant: the index is not reduced modulo 2
    /\ callback = "wait" /\ mutex[fill_idx] = "none" /\ ready[fill_idx]
    /\ mutex' = [mutex EXCEPT ![fill_idx] = "callback"]
    /\ fill_idx' = play_idx /\ play_idx' = play_idx + 1
    /\ played' = Next3(played)
    /\ callback' = "swapped"
    /\ UNCHANGED <<buffers, cpu, workers, request, control, monitor>>
Swap ==
    /\ callback = "wait" /\ mutex[fill_idx] = "none" /\ ready[fill_idx]
    /\ mutex' = [mutex EXCEPT ![fill_idx] = "callback"]
    /\ fill_idx' = play_idx /\ play_idx' = (play_idx + 1) % 2
    /\ played' = Next3(played)
    /\ callback' = "swapped"
    /\ UNCHANGED <<buffers, cpu, workers, request, control, monitor>>

\* The old chunk is unlocked and the monitor is told.  A monitor that has just
\* raised the interrupt of the previous switch is about to reset the flag.
SignalNoSwitch ==   \* mutant: switch_buf is not set
    /\ callback = "swapped"
    /\ mutex' = [mutex EXCEPT ![fill_idx] = "none"]
    /\ callback' = "mix"
    /\ UNCHANGED <<buffers, indices, cpu, workers, request, control, monitor>>
Signal ==
    /\ callback = "swapped"
    /\ mutex' = [mutex EXCEPT ![fill_idx] = "none"]
    /\ switch_buf' = TRUE
    /\ callback' = "mix"
    /\ lost' = IF monitor = "raised" THEN lost \cup {"monitor"} ELSE lost
    /\ UNCHANGED <<buffers, indices, cpu, workers, control, monitor, irq, reload>>

\* SDL_MixAudio of the next bytes of the chunk.
Mix ==
    LET len == IF SDL_LEN > audio_len[play_idx] THEN audio_len[play_idx] ELSE SDL_LEN IN
    /\ callback = "mix"
    /\ audio_len' = [audio_len EXCEPT ![play_idx] = @ - len]
    /\ mutex' = [mutex EXCEPT ![play_idx] = "none"]
    /\ callback' = "idle"
    /\ UNCHANGED <<indices, cpu, workers, request, control, chunk, ready, number, monitor>>

CallbackStep == FillAudio \/ Swap \/ Signal \/ Mix

-----------------------------------------------------------------------------
(* AUDIO_Monitor_Thread.                                                   *)
MonitorRaise ==
    /\ monitor_thread /\ monitor = "idle" /\ switch_buf
    /\ irq' = TRUE /\ monitor' = "raised"
    /\ UNCHANGED <<buffers, indices, cpu, workers, control, switch_buf, mutex, callback,
                   reload, lost>>
MonitorClearNever ==   \* mutant: the flag is not reset
    /\ monitor = "raised"
    /\ monitor' = "idle"
    /\ UNCHANGED <<buffers, indices, cpu, workers, request, control, mutex, callback>>
MonitorClear ==
    /\ monitor = "raised"
    /\ switch_buf' = FALSE /\ monitor' = "idle"
    /\ UNCHANGED <<buffers, indices, cpu, workers, control, mutex, callback, irq, reload,
                   lost>>

\* The controller has one slot: a larger number or an acknowledge of another
\* request can erase this one (module Interrupts).
IrqErased ==
    /\ irq
    /\ irq' = FALSE /\ lost' = lost \cup {"i8259"}
    /\ UNCHANGED <<buffers, indices, cpu, workers, control, switch_buf, mutex, callback,
                   monitor, reload>>

-----------------------------------------------------------------------------
\* audio_start.
Init == /\ chunk = [c \in Chunk |-> {}]
        /\ audio_len = [c \in Chunk |-> 0] /\ ready = [c \in Chunk |-> FALSE]
        /\ play_idx = 0 /\ fill_idx = 0 /\ target = 0
        /\ audio_state = 1
        /\ switch_buf = FALSE /\ monitor_thread = FALSE
        /\ mutex = [c \in Chunk |-> "none"]
        /\ loop = "run" /\ data_len = 0 /\ i = 0
        /\ worker = [w \in Worker |-> "none"] /\ idx = [w \in Worker |-> 0]
        /\ callback = "idle" /\ monitor = "idle"
        /\ irq = FALSE /\ reload = FALSE
        /\ number = 2 /\ played = 2 /\ lost = {}

Next == \/ \E cmd \in {0, 1} : AudioCtl(cmd)
        \/ LoopStep \/ CallbackStep
        \/ \E w \in Worker : ReadIdx(w) \/ Copy(w)
        \/ MonitorRaise \/ MonitorClear \/ IrqErased

Spec == Init /\ [][Next]_vars

\* Every thread keeps running; SDL keeps calling the callback while playback is
\* on, and the guest keeps looking at audio_reload.
FairSpec == /\ Spec
            /\ WF_vars(LoopStep) /\ WF_vars(CallbackStep)
            /\ WF_vars(MonitorRaise) /\ WF_vars(MonitorClear)
            /\ \A w \in Worker : WF_vars(ReadIdx(w)) /\ WF_vars(Copy(w))

-----------------------------------------------------------------------------
(* Properties.                                                             *)

\* The assert of fill_audio, for every call of it: the chunk to play is not the
\* chunk to fill.
DistinctChunks == callback # "idle" \/ audio_state = 0 => play_idx # fill_idx

\* The chunk that is being played is never written to: the indices are read
\* without a lock when the loop locks, when the workers copy and when the length
\* is stored, and the callback exchanges them.
PlayingUntouched ==
    [][\A c \in Chunk : chunk'[c] # chunk[c] => c # play_idx /\ mutex'[c] = "loop"]_vars

\* The loop releases the mutex it has locked, so that no chunk stays locked.
UnlocksOwn == /\ loop \in {"create", "join", "store"} => mutex[fill_idx] = "loop"
              /\ loop \in {"run", "lock", "written"} => \A c \in Chunk : mutex[c] # "loop"

\* Buffers are played in the order in which the guest hands them over, each once:
\* the loop is at most one ahead of the callback, so it replaces no buffer that has
\* not been played and the callback turns to none that has been played.
InOrder == number \in {played, Next3(played)}

\* A request for the next buffer is lost only in the three places where the code
\* can lose it: the playback waits for data
\* that nobody has been asked for only if the monitor reset a flag that was set
\* again after it had looked, the guest reset audio_reload after the next
\* interrupt, or the controller dropped the request.
StarvesOnlyIfLost ==
    callback = "wait" /\ lost = {} =>
        switch_buf \/ irq \/ reload \/ loop # "run" \/ ready[fill_idx]

\* Playback goes on for ever unless it is paused or a request is lost.
KeepsPlaying == [](lost = {}) /\ <>[](audio_state = 0) => []<>(callback = "mix")

\* "should be already ready" (audio.c:247): when the callback turns to a chunk,
\* the bytes of the buffer are in it.
ReadyIsFilled ==
    callback = "swapped" /\ loop = "run" =>
        0 .. audio_len[play_idx] - 1 \subseteq chunk[play_idx]

\* The loop and the callback use different chunks, and a mutex is released by the
\* thread that has locked it, although both read the indices without a lock.
ChunksOwned == TypeOK /\ DistinctChunks /\ UnlocksOwn

\* Each exchange of the chunks asks for one buffer: none is skipped, none is asked
\* for twice, and one is missing only if the request was lost in a known place.
OneBufferPerSwitch == InOrder /\ StarvesOnlyIfLost
=============================================================================
