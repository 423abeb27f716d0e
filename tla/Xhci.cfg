SPECIFICATION XhciSpec
CONSTANTS
    NPorts = 2
    Kinds = {"mouse", "tablet", "keyboard", "none"}
    CmdSize = 4
    EvtSize = 3
    XferSize = 4
    MaxFaults = 1
    MaxSent = 3
    MaxChanges = 1
INVARIANTS AnswersMatch ReportsArrive NeverSilent
CHECK_DEADLOCK FALSE
