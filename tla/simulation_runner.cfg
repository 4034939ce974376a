\* Two cycles and two starts, for each output of up to three lines after the
\* dictionary, or of three intervals, that EnergyPlus may write.
SPECIFICATION FairSpec
CONSTANTS
    Setpoints = {default, other}
    Default = default
    Outputs <- MCOutputs
    Instants <- MCInstants
    MaxCycles = 2
    MaxStarts = 2
    MaxLines = 2
INVARIANTS
    TypeOK
    ProcessKeepsItsModel
    ReportIsOfTheCycle
    FramesAreOfTheOutput
    ReportIsRepresentative
PROPERTIES
    StopReturns
    CyclesGoOn
CHECK_DEADLOCK FALSE
