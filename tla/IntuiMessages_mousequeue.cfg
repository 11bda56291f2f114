\* One program with one window, and one mouse move at a time.
SPECIFICATION IdcmpSpec
CONSTANTS
    Windows = {w1}
    WindowTasks = {t1}
    MouseQueue = 1
    MaxMessages = 2
INVARIANT MovesRefusedWhenOutstanding
