SPECIFICATION NSFairSpec
CONSTANT MaxNSOps = 2
INVARIANT GoneIsNoticed
PROPERTIES
    CounterpartFollows
    AccessFollowsExports
CHECK_DEADLOCK FALSE
