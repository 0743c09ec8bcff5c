SPECIFICATION Spec
CONSTANTS
    REORDER_BUFFER_SIZE = 2
    CDB_SIZE = 2
    ISSUE_WIDTH = 2
    COMMIT_WIDTH = 2
    Words <- MCWords
    Types <- MCTypes
    Dests <- MCDests
    Pcs <- MCPcs
    Targets <- MCTargets
INVARIANTS
    TypeOK
    CursorsInStep
    FinishedReadsTheSame
    RobInv
PROPERTIES
    IssueSparesCurrent
    ImplementsFifo
