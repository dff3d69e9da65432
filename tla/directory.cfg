SPECIFICATION Spec
CONSTANTS
    m1 = m1
    v1 = v1
    v2 = v2
    Person = {p1, p2}
    Project = {q1}
    Nobody = Nobody
    Voice = {v1, v2}
    Meeting = {m1}
    Pending <- MCPending
    VoiceprintCap = 1
    MaxTrouble = 1
SYMMETRY Symmetry
INVARIANTS
    SavedStays
    RefsValid
    RosterWhole
