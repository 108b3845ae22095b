\* The defaults of Settings, in ticks of 50 ms.
SPECIFICATION Spec
CONSTANTS
    HeartbeatInterval = 2
    ElectionMin = 9
    ElectionMax = 18
    RequestTimeout = 5
    Delay = 1
INVARIANTS
    TypeOK
    NeverOverslept
PROPERTIES
    CampaignsAfterQuiet
    SurvivesOneFailure
