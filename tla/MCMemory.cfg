SPECIFICATION FairSpec
CONSTANTS
    BYTE_BITS = 2
    MEMORY_SIZE = 40
    NUM_REGS = 5
    STACK_TOP = 40
    REORDER_BUFFER_SIZE = 4
    INST_QUEUE_SIZE = 4
    ISSUE_WIDTH = 2
    COMMIT_WIDTH = 2
    BTB_SIZE = 2
    BTB_BITS = 2
    NUM_ALU_UNITS = 1
    NUM_BRANCH_UNITS = 1
    NUM_MEMORY_UNITS = 2
    NUM_ADDRESS_UNITS = 2
    CDB_SIZE = 4
    NUM_ALU_RES_STATIONS = 3
    NUM_BRANCH_RES_STATIONS = 2
    NUM_MEMORY_BUFFERS = 3
    CYCLES_AL = 2
    CYCLES_JUMP = 1
    CYCLES_BRANCH = 2
    CYCLES_ADDRESS = 2
    CYCLES_MEMORY = 2
    Programs <- MCPrograms
    Image <- MCImage
CHECK_DEADLOCK FALSE
INVARIANTS
    CoreInv
    OperandsWillCome
    EachIsInOnePlace
    MemoryQueueIsInOrder
PROPERTIES
    LoadsFollowStores
    ImplementsBasic
    KeepsCommitting
