SPECIFICATION FairSpec
CONSTANTS
    Defenses = {d1}
    LastParticipant = 2
    LastDay = 1
    MaxMailings = 2
    MaxChanges = 2
    Faults = {"refuse", "reply", "db", "restart"}
INVARIANTS
    TypeOK
    StatusIsTrue
    LastMailIsTrue
    NobodyForgotten
PROPERTIES
    EveryMailSettles
CHECK_DEADLOCK FALSE
