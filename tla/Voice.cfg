SPECIFICATION Spec
CONSTANTS
    ann = ann
    bob = bob
    pat = pat
    sid1 = sid1
    sid2 = sid2
    j1 = j1
    j2 = j2
    Nobody = Nobody
    Agent = {ann, bob}
    Caller = {pat}
    Call = {sid1, sid2}
    CallerOf <- MCCallerOf
    Job = {j1, j2}
    Given <- Cases
    FocusOnVoice = TRUE
    Newcomers = {bob}
SYMMETRY Symmetry
INVARIANTS
    TypeOK
    RightPhoneRings
    BusyExplained
    RecordingsQueued
CHECK_DEADLOCK FALSE
