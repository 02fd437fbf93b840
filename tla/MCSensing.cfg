SPECIFICATION Spec
CONSTANTS
    Temperature = Temperature
    Salinity = Salinity
    Deep = Deep
    Ownship = Ownship
    Threshold = 0
    Persistence = 2
    ThresholdDial = {1}
    PersistenceDial = {3}
    Residuals = {0, 1}
    MaxTick = 3
    MaxRun = 2
    None = None
    Outside = Outside
    NotANumber = NotANumber
    Instruments <- InstrumentOrder
    SampleInterval = 1
    ReportInterval = 1
    SampleDial = {2}
    ReportDial = {2}
    MaxPrompts = 2
    MaxStops = 1
INVARIANT EvidenceIsConsecutive
INVARIANT EvidenceIsOnRecord
INVARIANT OnlyFaultyHalvesWait
PROPERTY MonitorSpec
PROPERTY CadenceNeverSkipped
CHECK_DEADLOCK FALSE
