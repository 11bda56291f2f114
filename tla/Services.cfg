\* Semaphores: three tasks, two semaphores, lists, no contended shared requests.
\* Switch: three tasks, every choice of two priorities; with exceptions, one task
\* may have the higher one.
\* Memory: five blocks, one memory list and one pool.
\* Processes: two besides the first, one slot that grows twice.
\* Files: two programs, two handles, two files, two records, two entries.
\* Messages: two programs, two windows, a mouse queue of one, two messages.
\* Clipboard: three programs, two clips.
\* Audio: two programs, two channels, two precedences, two writes on each.
SPECIFICATION ServicesSpec
CONSTANTS
    StartTask = t
    Tasks = {u1, u2, t}
    SwitchTasks = {u1, u2, t}
    Nobody = Nobody
    Odd = Odd
    Sems = {s1, s2}
    MaxNest = 2
    Careful = TRUE
    SharedMayWait = FALSE
    Priorities = {0, 1}
    Quantum = 1
    MemLower = 2
    MemUpper = 12
    MemCallers = {c1}
    MemSizes = {2, 3}
    MemLengths <- MemListLengths
    AbsUnit = 2
    MemListSize = 2
    PoolHeaderSize = 2
    PoolPuddleSize = 2
    PuddleSize = 4
    ThreshSize = 4
    ProcMem = {boot, s1, s2}
    Boot = boot
    NoProc = NoProc
    InitialSlots = 1
    MaxSlots = 2
    Programs = {s1, s2}
    Handles = {s1, s2}
    Files = {u1, u2}
    HostFile = HostFile
    NoFile = NoFile
    NoProgram = NoProgram
    MaxFd = 4
    MaxRecordLocks = 2
    Records <- OverlappingRecords
    Windows = {s1, s2}
    WindowTasks = {u1, u2}
    MouseQueue = 1
    MaxMessages = 2
    ClipTasks = {u1, u2, t}
    MaxClips = 2
    AudioTasks = {s1, s2}
    Channels = {"c1", "c2"}
    AudioPris = {0, 1}
    AudioWants <- ChannelCombinations
    MaxWrites = 2
SYMMETRY ServicesSymmetry
INVARIANTS
    CountsAgree
    NoRequestForgotten
    QueueMatchesStates
    FramesKept
    FreeListSorted
    OneOwner
    PoolBlocksApart
    SlotsNameProcesses
    RecordsExclude
    OwnersHaveFileOpen
    MessagesHavePorts
    NoMessageLeaks
    MouseMovesCounted
    ReadersAreServed
    
PROPERTIES
    ObtainedIsOwned
    ImplementsLock
    GivesUpOnlyWhenFull
    
    ExitCodeArrives
    FailedLockRecordsUndone
