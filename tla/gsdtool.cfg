CONSTANTS
    Preambles <- MCPreambles
    Statements <- MCStatements
    DiagnosticsStatements <- MCDiagnosticsStatements
    MaxStatements = 4
    Inputs <- MCInputs
    Buffers = {0, 4}
    Reports <- MCReports
SPECIFICATION Spec
CHECK_DEADLOCK FALSE
INVARIANTS
    UserPrmDataIsConsistent
    DeviceReadsWhatWasChosen
    SoundFilesConfigure
    BlocksAreTheReport
