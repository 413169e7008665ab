SPECIFICATION ChannelSpec
CONSTANTS
    Senders = {s1, s2}
    Listeners = {l1, l2}
    MaxData = 3
    Idle = Idle
INVARIANTS QueueIsSound
PROPERTIES KeepsPromise
CHECK_DEADLOCK FALSE
