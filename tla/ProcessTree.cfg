SPECIFICATION ProcessSpec
CONSTANTS
    Main = main
    Children = {c1}
    Streams = {out}
    Limit = 1
    Chunk = 1
    Capacity = 1
    MaxOutput = 1
CHECK_DEADLOCK FALSE
INVARIANT TreeIsTerminated
