SPECIFICATION Spec
CONSTANTS
    None = None
    MinRepetitions = 1
    MinEndurance = 2
    EnduranceSteps = 3
    Confidence = 950
    MaxFailures = 2
    Planned = 5
    Replayed = 0
    Protocol <- MCProtocol
    Options <- MCOptions
    Gates <- MCGates
    Sources <- MCSources
    Left <- MCLeft
    Stream <- MCStream
    Floors <- MCFloors
CHECK_DEADLOCK FALSE
INVARIANTS
    CollectsItsRuns
    PassesWhole
PROPERTIES
    CampaignEnds
