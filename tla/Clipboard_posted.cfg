\* Two programs, two clips.
SPECIFICATION ClipSpec
CONSTANTS
    ClipTasks = {t1, t2}
    MaxClips = 2
CHECK_DEADLOCK FALSE
INVARIANTS
    PostedClipCompletesReads
