CONSTANTS
    Channels = {"ch1", "ch2", "ch3"}

SPECIFICATION Spec

\* Both constructors have returned: construction is over.
CHECK_DEADLOCK FALSE

INVARIANT ChannelsAccounted
