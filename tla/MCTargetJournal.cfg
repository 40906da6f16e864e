CONSTANTS
    p1 = p1  p2 = p2  i1 = i1  i2 = i2  h1 = h1  h2 = h2
    NoProc = NoProc  NoRequest = NoRequest  NoTail = NoTail
    Procs = {p1, p2}
    Ids = {i1, i2}
    Hashes = {h1, h2}
    KindOf <- TwoKinds
    MaxBytes = 20
    MaxPendingBytes = 5
    TargetBytes = 12
    MinTerminal = 1
    ReadCap = 30
    PendingSize = 3
    TerminalSizes = {4, 8}
    MaxAppends = 8
    MaxInterrupts = 1
SPECIFICATION Spec
INVARIANTS SettledIsLast ResumePoint NeverWedged
PROPERTIES ReceiptSurvives ImplementsLedger
SYMMETRY Symmetric
CHECK_DEADLOCK FALSE
