SPECIFICATION Spec
CONSTANTS
    Base = 3
    Limit = 9
    Align = 3
    MaxChanges = 1
    Space <- MCSpace
    Insts <- MCInsts
    NewInsts <- MCNewInsts
INVARIANTS
    FlowSafe
    StubbedOut
PROPERTIES
    PairsStay
CHECK_DEADLOCK FALSE
