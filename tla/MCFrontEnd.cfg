SPECIFICATION Spec
CONSTANTS
    INST_QUEUE_SIZE = 3
    ISSUE_WIDTH = 2
    NUM_PCS = 3
    Code <- MCCode
    Targets <- MCTargets
INVARIANTS
    FrontTypeOK
    PathIsUnbroken
PROPERTIES
    ImplementsStream
