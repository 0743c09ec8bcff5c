SPECIFICATION Spec
CONSTANTS
    BYTE_BITS = 2
    MEMORY_SIZE = 32
    NUM_REGS = 4
    STACK_TOP = 32
    REORDER_BUFFER_SIZE = 4
    INST_QUEUE_SIZE = 4
    ISSUE_WIDTH = 2
    COMMIT_WIDTH = 2
    BTB_SIZE = 2
    BTB_BITS = 2
    NUM_ALU_UNITS = 2
    NUM_BRANCH_UNITS = 1
    NUM_MEMORY_UNITS = 1
    NUM_ADDRESS_UNITS = 1
    CDB_SIZE = 4
    NUM_ALU_RES_STATIONS = 3
    NUM_BRANCH_RES_STATIONS = 2
    NUM_MEMORY_BUFFERS = 2
    CYCLES_AL = 1
    CYCLES_JUMP = 1
    CYCLES_BRANCH = 2
    CYCLES_ADDRESS = 1
    CYCLES_MEMORY = 2
    Programs <- MCAllPrograms
    Image <- MCImage
CHECK_DEADLOCK FALSE
INVARIANTS
    PipelineTypeOK
    AliasesNameTheYoungestWriter
    CoreInv
    OperandsWillCome
    EachIsInOnePlace
PROPERTIES
    ImplementsBasic
