CONSTANTS
    Boots <- MCBoots
    PortBytes <- MCPortBytes

SPECIFICATION Spec

INVARIANTS
    StackKeepsWords
    CarryCarriesOver
    TerminalDelivers

PROPERTIES
    NextInstruction
    ArithmeticAgrees
    DecimalDigitsRight

CHECK_DEADLOCK FALSE
