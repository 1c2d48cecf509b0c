SPECIFICATION Spec
CONSTANTS
    None = None
    Failed = Failed
    v1 = v1
    v2 = v2
    v3 = v3
    note = note
    the = the
    slot = slot
    Filler = {the, slot}
    Rebound = {}
    Slot <- MCSlot
INVARIANTS
    LearningIsSound
    ReplaysReachAlike
    RequestsAreHonest
    CampaignsAreFair
    ReportsAreHonest
