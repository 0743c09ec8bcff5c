SPECIFICATION Spec
CONSTANTS
    REORDER_BUFFER_SIZE = 3
    CDB_SIZE = 2
    ISSUE_WIDTH = 2
    COMMIT_WIDTH = 2
    Words <- MCWords
    Types <- MCTypes
    Dests <- MCDests
    Pcs <- MCPcs
    Targets <- MCTargets
INVARIANTS
    InFlightIsBusy
    WaitingStoreHasProducer
