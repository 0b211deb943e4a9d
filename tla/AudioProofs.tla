----------------------------- MODULE AudioProofs -----------------------------
(***************************************************************************)
(* The sound card, for every size of the chunks and of the buffers: the    *)
(* loop and the callback never use the same chunk, although they read the  *)
(* indices without a lock, and buffers are played in order.                *)
(***************************************************************************)
EXTENDS Audio, TLAPS

\* Where a request for the next buffer can be: the flag of the callback before the
\* monitor has looked at it, the controller, and the guest until the buffer is in
\* the chunk.
InFlag == switch_buf /\ monitor = "idle"
InGuest == reload /\ loop \in {"run", "lock", "create", "join"}
Asked == InFlag \/ irq \/ InGuest

\* There is one request at most, and only while the chunk to fill is empty and the
\* callback is not exchanging the chunks.
RequestInv == /\ Asked => ~ready[fill_idx] /\ callback # "swapped"
              /\ ~(InFlag /\ irq) /\ ~(InFlag /\ InGuest) /\ ~(irq /\ InGuest)
              /\ loop # "run" => reload
              /\ monitor = "raised" => switch_buf
              /\ loop = "store" => ready[fill_idx]
              /\ callback \in {"wait", "swapped"} =>
                     ~ready[IF callback = "wait" THEN play_idx ELSE fill_idx]

\* Nothing moves before the guest starts the playback; from then on the two
\* indices differ.
StartInv == IF monitor_thread THEN play_idx # fill_idx
            ELSE /\ audio_state = 1 /\ callback = "idle" /\ loop = "run" /\ monitor = "idle"
                 /\ ~switch_buf /\ ~irq /\ ~reload
                 /\ play_idx = 0 /\ \A c \in Chunk : ~ready[c]

\* Who has locked which chunk.  The loop knows the chunk it waits for by an index
\* that cannot have changed, because the callback exchanges the chunks only when
\* the other one is ready.
LockInv == /\ UnlocksOwn
           /\ \A c \in Chunk : mutex[c] = "loop" => c = fill_idx
           /\ loop \in {"lock", "create", "join", "store"} => target = fill_idx
           /\ callback = "idle" => \A c \in Chunk : mutex[c] # "callback"
           /\ callback \in {"wait", "mix"} =>
                  mutex[play_idx] = "callback" /\ mutex[fill_idx] # "callback"
           /\ callback = "swapped" =>
                  mutex[play_idx] = "callback" /\ mutex[fill_idx] = "callback"

\* A copying thread exists only between its creation and its join.
WorkerInv == \A w \in Worker : worker[w] # "none" =>
                 (loop = "create" /\ w < i) \/ (loop = "join" /\ i <= w)

\* The guest is one buffer ahead while the chunk to fill is filled or full.
OrderInv == number = IF loop \in {"create", "join", "store"} \/ ready[fill_idx]
                     THEN Next3(played) ELSE played

\* A request that is not on its way has been lost.
LostInv == monitor_thread /\ lost = {} /\ callback # "swapped" => Asked \/ ready[fill_idx]

IInv == TypeOK /\ RequestInv /\ StartInv /\ LockInv /\ WorkerInv /\ OrderInv /\ LostInv

-----------------------------------------------------------------------------
USE SizeAssumption DEF Chunk, Worker, NUM_AUDIO_WORKER, Buffers, Next3

\* What a thread copies stays inside the chunk, also when the loop variable has
\* run past the last thread: the bytes of a buffer are fewer than those of a chunk.
LEMMA ShareInside == ASSUME TypeOK, NEW w \in Worker PROVE Share(w) \subseteq Byte
<1> SUFFICES ASSUME NEW k \in 0 .. (data_len \div NUM_AUDIO_WORKER) - 1
             PROVE  k * NUM_AUDIO_WORKER + idx[w] \in Byte
    BY DEF Share
<1>1. data_len \in 0 .. MAX_CHUNK_SIZE - 1 /\ idx[w] \in 0 .. 2
    BY DEF TypeOK
<1>2. (data_len \div 2) * 2 <= data_len /\ data_len \div 2 \in Nat
    BY <1>1
<1>3. k \in Nat /\ k <= (data_len \div 2) - 1
    BY <1>1, <1>2
<1>4. k * 2 <= ((data_len \div 2) - 1) * 2
    BY <1>2, <1>3
<1> QED BY <1>1, <1>2, <1>3, <1>4 DEF Byte

\* audio_start.
LEMMA InitInv == Init => IInv
<1> SUFFICES ASSUME Init PROVE IInv
    OBVIOUS
<1>1. TypeOK
    <2>1. /\ chunk \in [Chunk -> SUBSET Byte] /\ audio_len \in [Chunk -> Lens \cup Byte]
          /\ ready \in [Chunk -> BOOLEAN]
        BY DEF Init, Byte
    <2>2. /\ mutex \in [Chunk -> {"none", "loop", "callback"}]
          /\ worker \in [Worker -> {"none", "created", "copy"}]
          /\ idx \in [Worker -> 0 .. NUM_AUDIO_WORKER]
        BY DEF Init
    <2>3. {switch_buf, monitor_thread, irq, reload} \subseteq BOOLEAN
        BY DEF Init
    <2>4. lost \subseteq {"monitor", "guest", "i8259"} /\ data_len \in Lens \cup {0}
        BY DEF Init
    <2>5. number \in Buffers /\ played \in Buffers /\ i \in 0 .. NUM_AUDIO_WORKER
        BY DEF Init
    <2> QED BY <2>1, <2>2, <2>3, <2>4, <2>5 DEF Init, TypeOK
<1>2. RequestInv /\ StartInv /\ LockInv
    BY DEF Init, RequestInv, StartInv, LockInv, UnlocksOwn, Asked, InFlag, InGuest
<1>3. WorkerInv /\ OrderInv /\ LostInv
    BY DEF Init, WorkerInv, OrderInv, LostInv
<1> QED BY <1>1, <1>2, <1>3 DEF IInv

\* AUDIO_CTL: the first start directs the fill to chunk 1 and asks for a buffer.
LEMMA AudioCtlStep == ASSUME IInv, NEW cmd \in {0, 1}, AudioCtl(cmd) PROVE IInv'
<1> USE DEF AudioCtl, buffers, indices, cpu, workers, request, control
<1>1. TypeOK'
    BY DEF IInv, TypeOK, Byte
<1>2. RequestInv'
    BY DEF IInv, TypeOK, RequestInv, StartInv, Asked, InFlag, InGuest
<1>3. StartInv'
    BY DEF IInv, StartInv
<1>4. LockInv'
    BY DEF IInv, TypeOK, StartInv, LockInv, UnlocksOwn
<1>5. WorkerInv'
    BY DEF IInv, WorkerInv
<1>6. OrderInv'
    BY DEF IInv, TypeOK, StartInv, OrderInv
<1>7. LostInv'
    BY DEF IInv, TypeOK, StartInv, LostInv, Asked, InFlag, InGuest
<1> QED BY <1>1, <1>2, <1>3, <1>4, <1>5, <1>6, <1>7 DEF IInv

\* The request moves from the controller to the guest.
LEMMA AudioEventStep == ASSUME IInv, AudioEvent PROVE IInv'
<1> USE DEF AudioEvent, buffers, indices, cpu, workers, request, control
<1>1. TypeOK'
    BY DEF IInv, TypeOK, Byte
<1>2. RequestInv'
    BY DEF IInv, RequestInv, Asked, InFlag, InGuest
<1>3. StartInv'
    BY DEF IInv, StartInv
<1>4. LockInv'
    BY DEF IInv, LockInv, UnlocksOwn
<1>5. WorkerInv'
    BY DEF IInv, WorkerInv
<1>6. OrderInv'
    BY DEF IInv, OrderInv
<1>7. LostInv'
    BY DEF IInv, LostInv, Asked, InFlag, InGuest
<1> QED BY <1>1, <1>2, <1>3, <1>4, <1>5, <1>6, <1>7 DEF IInv

\* The loop reads the index of the chunk it is going to lock.
LEMMA DataBeginStep == ASSUME IInv, DataBegin PROVE IInv'
<1> USE DEF DataBegin, buffers, indices, cpu, workers, request, control
<1>1. TypeOK'
    BY DEF IInv, TypeOK, Byte
<1>2. RequestInv'
    BY DEF IInv, RequestInv, Asked, InFlag, InGuest
<1>3. StartInv'
    BY DEF IInv, StartInv
<1>4. LockInv'
    BY DEF IInv, LockInv, UnlocksOwn
<1>5. WorkerInv'
    BY DEF IInv, WorkerInv
<1>6. OrderInv'
    BY DEF IInv, OrderInv
<1>7. LostInv'
    BY DEF IInv, LostInv, Asked, InFlag, InGuest
<1> QED BY <1>1, <1>2, <1>3, <1>4, <1>5, <1>6, <1>7 DEF IInv

\* The chunk that is locked is still the one to fill.
LEMMA DataLockStep == ASSUME IInv, NEW len \in Lens, DataLock(len) PROVE IInv'
<1> USE DEF DataLock, buffers, indices, cpu, workers, request, control
<1>1. TypeOK'
    BY DEF IInv, TypeOK, Byte
<1>2. RequestInv'
    BY DEF IInv, RequestInv, Asked, InFlag, InGuest
<1>3. StartInv'
    BY DEF IInv, StartInv
<1>4. LockInv'
    BY DEF IInv, TypeOK, LockInv, UnlocksOwn
<1>5. WorkerInv'
    BY DEF IInv, WorkerInv
<1>6. OrderInv'
    BY DEF IInv, TypeOK, RequestInv, OrderInv, Asked, InFlag, InGuest
<1>7. LostInv'
    BY DEF IInv, LostInv, Asked, InFlag, InGuest
<1> QED BY <1>1, <1>2, <1>3, <1>4, <1>5, <1>6, <1>7 DEF IInv

\* A copying thread starts behind the loop variable.
LEMMA CreateThreadStep == ASSUME IInv, CreateThread PROVE IInv'
<1> USE DEF CreateThread, buffers, indices, cpu, workers, request, control
<1>1. TypeOK'
    BY DEF IInv, TypeOK, Byte
<1>2. RequestInv'
    BY DEF IInv, RequestInv, Asked, InFlag, InGuest
<1>3. StartInv'
    BY DEF IInv, StartInv
<1>4. LockInv'
    BY DEF IInv, LockInv, UnlocksOwn
<1>5. WorkerInv'
    BY DEF IInv, TypeOK, WorkerInv
<1>6. OrderInv'
    BY DEF IInv, OrderInv
<1>7. LostInv'
    BY DEF IInv, LostInv, Asked, InFlag, InGuest
<1> QED BY <1>1, <1>2, <1>3, <1>4, <1>5, <1>6, <1>7 DEF IInv

\* With the last join the chunk is ready and the request answered.
LEMMA WaitThreadStep == ASSUME IInv, WaitThread PROVE IInv'
<1> USE DEF WaitThread, buffers, indices, cpu, workers, request, control
<1>1. TypeOK'
    <2>1. CASE i < NUM_AUDIO_WORKER
        <3>1. i' \in 0 .. NUM_AUDIO_WORKER
            BY <2>1 DEF IInv, TypeOK
        <3> QED BY <2>1, <3>1 DEF IInv, TypeOK
    <2>2. CASE ~(i < NUM_AUDIO_WORKER)
        <3>1. ready' \in [Chunk -> BOOLEAN]
            BY <2>2 DEF IInv, TypeOK
        <3> QED BY <2>2, <3>1 DEF IInv, TypeOK
    <2> QED BY <2>1, <2>2
<1>2. RequestInv'
    BY DEF IInv, TypeOK, RequestInv, StartInv, Asked, InFlag, InGuest
<1>3. StartInv'
    BY DEF IInv, StartInv
<1>4. LockInv'
    BY DEF IInv, LockInv, UnlocksOwn
<1>5. WorkerInv'
    BY DEF IInv, TypeOK, WorkerInv
<1>6. OrderInv'
    BY DEF IInv, OrderInv
<1>7. LostInv'
    BY DEF IInv, TypeOK, LostInv, Asked, InFlag, InGuest
<1> QED BY <1>1, <1>2, <1>3, <1>4, <1>5, <1>6, <1>7 DEF IInv

\* The mutex that is released is the one that was locked.
LEMMA DataEndStep == ASSUME IInv, DataEnd PROVE IInv'
<1> USE DEF DataEnd, buffers, indices, cpu, workers, request, control
<1>1. TypeOK'
    <2>1. audio_len' \in [Chunk -> Lens \cup Byte]
        BY DEF IInv, TypeOK, Byte
    <2>2. mutex' \in [Chunk -> {"none", "loop", "callback"}]
        BY DEF IInv, TypeOK
    <2> QED BY <2>1, <2>2 DEF IInv, TypeOK
<1>2. RequestInv'
    BY DEF IInv, RequestInv, Asked, InFlag, InGuest
<1>3. StartInv'
    BY DEF IInv, StartInv
<1>4. LockInv'
    <2>1. \A c \in Chunk : mutex'[c] = IF c = fill_idx THEN "none" ELSE mutex[c]
        BY DEF IInv, TypeOK, LockInv, UnlocksOwn
    <2> QED BY <2>1 DEF IInv, TypeOK, RequestInv, StartInv, LockInv, UnlocksOwn
<1>5. WorkerInv'
    BY DEF IInv, WorkerInv
<1>6. OrderInv'
    BY DEF IInv, TypeOK, RequestInv, OrderInv, Asked, InFlag, InGuest
<1>7. LostInv'
    BY DEF IInv, LostInv, Asked, InFlag, InGuest
<1> QED BY <1>1, <1>2, <1>3, <1>4, <1>5, <1>6, <1>7 DEF IInv

\* The guest forgets the request that it has answered.
LEMMA ClearReloadStep == ASSUME IInv, ClearReload PROVE IInv'
<1> USE DEF ClearReload, buffers, indices, cpu, workers, request, control
<1>1. TypeOK'
    BY DEF IInv, TypeOK, Byte
<1>2. RequestInv'
    BY DEF IInv, RequestInv, Asked, InFlag, InGuest
<1>3. StartInv'
    BY DEF IInv, StartInv
<1>4. LockInv'
    BY DEF IInv, LockInv, UnlocksOwn
<1>5. WorkerInv'
    BY DEF IInv, WorkerInv
<1>6. OrderInv'
    BY DEF IInv, OrderInv
<1>7. LostInv'
    BY DEF IInv, LostInv, Asked, InFlag, InGuest
<1> QED BY <1>1, <1>2, <1>3, <1>4, <1>5, <1>6, <1>7 DEF IInv

\* A copying thread reads the loop variable, whatever that is by now.
LEMMA ReadIdxStep == ASSUME IInv, NEW w \in Worker, ReadIdx(w) PROVE IInv'
<1> USE DEF ReadIdx, buffers, indices, cpu, workers, request, control
<1>1. TypeOK'
    BY DEF IInv, TypeOK, Byte
<1>2. RequestInv'
    BY DEF IInv, RequestInv, Asked, InFlag, InGuest
<1>3. StartInv'
    BY DEF IInv, StartInv
<1>4. LockInv'
    BY DEF IInv, LockInv, UnlocksOwn
<1>5. WorkerInv'
    BY DEF IInv, WorkerInv
<1>6. OrderInv'
    BY DEF IInv, OrderInv
<1>7. LostInv'
    BY DEF IInv, LostInv, Asked, InFlag, InGuest
<1> QED BY <1>1, <1>2, <1>3, <1>4, <1>5, <1>6, <1>7 DEF IInv

\* A copying thread writes inside the chunk.
LEMMA CopyStep == ASSUME IInv, NEW w \in Worker, Copy(w) PROVE IInv'
<1> USE DEF Copy, buffers, indices, cpu, workers, request, control
<1>1. TypeOK'
    <2>1. Share(w) \subseteq Byte
        BY ShareInside DEF IInv
    <2>2. chunk' \in [Chunk -> SUBSET Byte]
        BY <2>1 DEF IInv, TypeOK
    <2>3. /\ idx' \in [Worker -> 0 .. NUM_AUDIO_WORKER]
          /\ worker' \in [Worker -> {"none", "created", "copy"}]
        BY DEF IInv, TypeOK
    <2> QED BY <2>2, <2>3 DEF IInv, TypeOK
<1>2. RequestInv'
    BY DEF IInv, RequestInv, Asked, InFlag, InGuest
<1>3. StartInv'
    BY DEF IInv, StartInv
<1>4. LockInv'
    BY DEF IInv, LockInv, UnlocksOwn
<1>5. WorkerInv'
    BY DEF IInv, WorkerInv
<1>6. OrderInv'
    BY DEF IInv, OrderInv
<1>7. LostInv'
    BY DEF IInv, LostInv, Asked, InFlag, InGuest
<1> QED BY <1>1, <1>2, <1>3, <1>4, <1>5, <1>6, <1>7 DEF IInv

\* The callback locks the chunk it plays, or finds it empty.
LEMMA FillAudioStep == ASSUME IInv, FillAudio PROVE IInv'
<1> USE DEF FillAudio, buffers, indices, cpu, workers, request, control
<1>1. TypeOK'
    BY DEF IInv, TypeOK, Byte
<1>2. RequestInv'
    BY DEF IInv, TypeOK, RequestInv, StartInv, Asked, InFlag, InGuest
<1>3. StartInv'
    BY DEF IInv, StartInv
<1>4. LockInv'
    BY DEF IInv, TypeOK, StartInv, LockInv, UnlocksOwn
<1>5. WorkerInv'
    BY DEF IInv, WorkerInv
<1>6. OrderInv'
    BY DEF IInv, TypeOK, StartInv, OrderInv
<1>7. LostInv'
    BY DEF IInv, TypeOK, StartInv, LostInv, Asked, InFlag, InGuest
<1> QED BY <1>1, <1>2, <1>3, <1>4, <1>5, <1>6, <1>7 DEF IInv

\* The exchange: the chunk to fill is free and full, the other one empty.
LEMMA SwapStep == ASSUME IInv, Swap PROVE IInv'
<1> USE DEF Swap, buffers, indices, cpu, workers, request, control
<1>1. TypeOK'
    BY DEF IInv, TypeOK, Byte
<1>2. RequestInv'
    BY DEF IInv, TypeOK, RequestInv, LockInv, Asked, InFlag, InGuest, UnlocksOwn
<1>3. StartInv'
    BY DEF IInv, StartInv
<1>4. LockInv'
    BY DEF IInv, TypeOK, RequestInv, LockInv, UnlocksOwn, Asked, InFlag, InGuest
<1>5. WorkerInv'
    BY DEF IInv, WorkerInv
<1>6. OrderInv'
    BY DEF IInv, TypeOK, RequestInv, LockInv, OrderInv, Asked, InFlag, InGuest,
           UnlocksOwn
<1>7. LostInv'
    BY DEF IInv, LostInv, Asked, InFlag, InGuest
<1> QED BY <1>1, <1>2, <1>3, <1>4, <1>5, <1>6, <1>7 DEF IInv

\* The request for the next buffer is made.
LEMMA SignalStep == ASSUME IInv, Signal PROVE IInv'
<1> USE DEF Signal, buffers, indices, cpu, workers, request, control
<1>1. TypeOK'
    BY DEF IInv, TypeOK, Byte
<1>2. RequestInv'
    BY DEF IInv, RequestInv, Asked, InFlag, InGuest
<1>3. StartInv'
    BY DEF IInv, StartInv
<1>4. LockInv'
    BY DEF IInv, TypeOK, StartInv, LockInv, UnlocksOwn
<1>5. WorkerInv'
    BY DEF IInv, WorkerInv
<1>6. OrderInv'
    BY DEF IInv, OrderInv
<1>7. LostInv'
    BY DEF IInv, TypeOK, LostInv, Asked, InFlag, InGuest
<1> QED BY <1>1, <1>2, <1>3, <1>4, <1>5, <1>6, <1>7 DEF IInv

\* The callback plays some bytes and releases the chunk.
LEMMA MixStep == ASSUME IInv, Mix PROVE IInv'
<1> USE DEF Mix, buffers, indices, cpu, workers, request, control
<1>1. TypeOK'
    <2>1. audio_len[play_idx] \in Byte
        BY DEF IInv, TypeOK, Byte
    <2>2. audio_len' \in [Chunk -> Lens \cup Byte]
        BY <2>1 DEF IInv, TypeOK, Byte
    <2>3. mutex' \in [Chunk -> {"none", "loop", "callback"}]
        BY DEF IInv, TypeOK
    <2> QED BY <2>2, <2>3 DEF IInv, TypeOK
<1>2. RequestInv'
    BY DEF IInv, RequestInv, Asked, InFlag, InGuest
<1>3. StartInv'
    BY DEF IInv, StartInv
<1>4. LockInv'
    BY DEF IInv, TypeOK, LockInv, UnlocksOwn
<1>5. WorkerInv'
    BY DEF IInv, WorkerInv
<1>6. OrderInv'
    BY DEF IInv, OrderInv
<1>7. LostInv'
    BY DEF IInv, LostInv, Asked, InFlag, InGuest
<1> QED BY <1>1, <1>2, <1>3, <1>4, <1>5, <1>6, <1>7 DEF IInv

\* The request moves from the flag to the controller.
LEMMA MonitorRaiseStep == ASSUME IInv, MonitorRaise PROVE IInv'
<1> USE DEF MonitorRaise, buffers, indices, cpu, workers, request, control
<1>1. TypeOK'
    BY DEF IInv, TypeOK, Byte
<1>2. RequestInv'
    BY DEF IInv, RequestInv, Asked, InFlag, InGuest
<1>3. StartInv'
    BY DEF IInv, StartInv
<1>4. LockInv'
    BY DEF IInv, LockInv, UnlocksOwn
<1>5. WorkerInv'
    BY DEF IInv, WorkerInv
<1>6. OrderInv'
    BY DEF IInv, OrderInv
<1>7. LostInv'
    BY DEF IInv, LostInv, Asked, InFlag, InGuest
<1> QED BY <1>1, <1>2, <1>3, <1>4, <1>5, <1>6, <1>7 DEF IInv

\* The flag is reset; a request made since then is lost.
LEMMA MonitorClearStep == ASSUME IInv, MonitorClear PROVE IInv'
<1> USE DEF MonitorClear, buffers, indices, cpu, workers, request, control
<1>1. TypeOK'
    BY DEF IInv, TypeOK, Byte
<1>2. RequestInv'
    BY DEF IInv, RequestInv, Asked, InFlag, InGuest
<1>3. StartInv'
    BY DEF IInv, StartInv
<1>4. LockInv'
    BY DEF IInv, LockInv, UnlocksOwn
<1>5. WorkerInv'
    BY DEF IInv, WorkerInv
<1>6. OrderInv'
    BY DEF IInv, OrderInv
<1>7. LostInv'
    BY DEF IInv, LostInv, Asked, InFlag, InGuest
<1> QED BY <1>1, <1>2, <1>3, <1>4, <1>5, <1>6, <1>7 DEF IInv

\* The controller loses the request.
LEMMA IrqErasedStep == ASSUME IInv, IrqErased PROVE IInv'
<1> USE DEF IrqErased, buffers, indices, cpu, workers, request, control
<1>1. TypeOK'
    BY DEF IInv, TypeOK, Byte
<1>2. RequestInv'
    BY DEF IInv, RequestInv, Asked, InFlag, InGuest
<1>3. StartInv'
    BY DEF IInv, StartInv
<1>4. LockInv'
    BY DEF IInv, LockInv, UnlocksOwn
<1>5. WorkerInv'
    BY DEF IInv, WorkerInv
<1>6. OrderInv'
    BY DEF IInv, OrderInv
<1>7. LostInv'
    BY DEF IInv, LostInv, Asked, InFlag, InGuest
<1> QED BY <1>1, <1>2, <1>3, <1>4, <1>5, <1>6, <1>7 DEF IInv

\* Every step of the audio device, of SDL and of the guest keeps the invariant.
LEMMA StepInv == IInv /\ [Next]_vars => IInv'
<1> SUFFICES ASSUME IInv, [Next]_vars PROVE IInv'
    OBVIOUS
<1>1. CASE \E cmd \in {0, 1} : AudioCtl(cmd)
    BY <1>1, AudioCtlStep
<1>2. CASE LoopStep
    BY <1>2, AudioEventStep, DataBeginStep, DataLockStep, CreateThreadStep,
       WaitThreadStep, DataEndStep, ClearReloadStep DEF LoopStep
<1>3. CASE CallbackStep
    BY <1>3, FillAudioStep, SwapStep, SignalStep, MixStep DEF CallbackStep
<1>4. CASE \E w \in Worker : ReadIdx(w) \/ Copy(w)
    BY <1>4, ReadIdxStep, CopyStep
<1>5. CASE MonitorRaise \/ MonitorClear \/ IrqErased
    BY <1>5, MonitorRaiseStep, MonitorClearStep, IrqErasedStep
<1>6. CASE UNCHANGED vars
    BY <1>6
       DEF vars, buffers, indices, cpu, workers, request, control, IInv, TypeOK,
           RequestInv, StartInv, LockInv, WorkerInv, OrderInv, LostInv, UnlocksOwn,
           Asked, InFlag, InGuest
<1> QED BY <1>1, <1>2, <1>3, <1>4, <1>5, <1>6 DEF Next

-----------------------------------------------------------------------------
\* The invariant holds in every state of every behaviour.
LEMMA AlwaysInv == Spec => []IInv
BY InitInv, StepInv, PTL DEF Spec

\* The loop and the callback use different chunks and each releases the mutex that
\* it has locked, for every size of the chunks and whenever the threads run.
THEOREM ChunksAreOwned == Spec => []ChunksOwned
<1>1. IInv => ChunksOwned
    BY DEF IInv, ChunksOwned, TypeOK, StartInv, LockInv, DistinctChunks
<1> QED BY <1>1, AlwaysInv, PTL

\* Every buffer is played once and in order, and a request is missing only where
\* the code can lose it.
THEOREM BuffersInOrder == Spec => []OneBufferPerSwitch
<1>1. IInv => InOrder
    BY DEF IInv, InOrder, OrderInv
<1>2. IInv => StarvesOnlyIfLost
    BY DEF IInv, StarvesOnlyIfLost, LostInv, StartInv, Asked, InFlag, InGuest
<1> QED BY <1>1, <1>2, AlwaysInv, PTL DEF OneBufferPerSwitch

\* No step writes into the chunk that is being played, and none writes into a chunk
\* whose mutex the loop does not hold.
THEOREM NoWriteWhilePlaying == Spec => PlayingUntouched
<1> DEFINE Safe == \A c \in Chunk : chunk'[c] # chunk[c] => c # play_idx /\ mutex'[c] = "loop"
<1>1. ASSUME IInv, Next PROVE Safe
    <2>1. CASE \E cmd \in {0, 1} : AudioCtl(cmd)
        BY <2>1 DEF AudioCtl, buffers
    <2>2. CASE \E len \in Lens : DataLock(len)
        BY <1>1, <2>2 DEF DataLock, IInv, TypeOK, LockInv, RequestInv, StartInv
    <2>3. CASE AudioEvent \/ DataBegin \/ CreateThread \/ WaitThread \/ DataEnd \/ ClearReload
        BY <2>3
           DEF AudioEvent, DataBegin, CreateThread, WaitThread, DataEnd, ClearReload,
               buffers
    <2>4. CASE CallbackStep
        BY <2>4 DEF CallbackStep, FillAudio, Swap, Signal, Mix, buffers
    <2>5. CASE \E w \in Worker : ReadIdx(w)
        BY <2>5 DEF ReadIdx, buffers
    <2>6. CASE \E w \in Worker : Copy(w)
        BY <1>1, <2>6 DEF Copy, IInv, TypeOK, WorkerInv, LockInv, UnlocksOwn, StartInv
    <2>7. CASE MonitorRaise \/ MonitorClear \/ IrqErased
        BY <2>7 DEF MonitorRaise, MonitorClear, IrqErased, buffers
    <2> QED BY <1>1, <2>1, <2>2, <2>3, <2>4, <2>5, <2>6, <2>7 DEF Next, LoopStep
<1>2. IInv /\ [Next]_vars => [Safe]_vars
    BY <1>1
<1> QED BY <1>2, AlwaysInv, PTL DEF Spec, PlayingUntouched
=============================================================================
