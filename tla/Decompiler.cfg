SPECIFICATION DecompilerSpec
CONSTANTS
    Algorithms = {"word", "block", "basic", "flow", "types", "path", "fields", "infer", "meet", "analyse"}
INVARIANTS
    DisassemblyFaithful
    OperationsFaithful
    ControlFlowFaithful
    TypesSound
    FieldsSound
    InferenceSound
CHECK_DEADLOCK FALSE
