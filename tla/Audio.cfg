SPECIFICATION FairSpec
CONSTANTS
    MAX_CHUNK_SIZE = 4
    Lens = {0, 2, 3}
    SDL_LEN = 2
INVARIANTS
    ChunksOwned
    OneBufferPerSwitch
PROPERTIES
    PlayingUntouched
    KeepsPlaying
CHECK_DEADLOCK FALSE
