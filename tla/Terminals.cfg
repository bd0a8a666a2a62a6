SPECIFICATION Spec
CONSTANTS
    Widgets = {w1, w2}
    MaxProcesses = 2
    MaxSockets = 2
    MaxReloads = 1
INVARIANTS OneWidgetPerTerminal OrphansExplained TitleTellsExit
PROPERTY TerminalComesBack
CHECK_DEADLOCK FALSE
