SPECIFICATION Spec
CONSTANTS
    BYTE_BITS = 4
    MEMORY_SIZE = 56
    NUM_REGS = 32
    STACK_TOP = 56
    Texts <- MCTexts
    Image <- MCImage
    Heap = {43690}
CHECK_DEADLOCK FALSE
INVARIANTS
    BasicTypeOK
    AssemblesBack
    RejectTheSameWords
    
PROPERTIES
    ImplementsIsa
