\* Up to three arguments, in four environments.
CONSTANTS
    CommandLines <- MCCommandLines
    Environments <- MCEnvironments
    StoI <- MCStoI
    StoD <- MCStoD
SPECIFICATION OptionsSpec
INVARIANTS
    ExitTellsMistakes
    SessionIsUsable
    PrecedenceIsKept
CHECK_DEADLOCK FALSE
