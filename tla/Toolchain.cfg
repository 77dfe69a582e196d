SPECIFICATION ToolchainSpec
CONSTANTS
    Algorithms = {"access", "registers", "data", "code", "straight", "cond", "while", "ir", "form", "expression", "bitfield"}
    Registers = {0, 3, 4, 5, 6, 8, 11, 12, 13}
    Displacements <- ByteLimits
    ByteBase = 8
    Functions <- ShapedFunctions
INVARIANTS
    InstructionsAsAsked
    FilesLink
    AllocationSound
    AssignmentSound
    OperationsSound
    CompilationSound
CHECK_DEADLOCK FALSE
