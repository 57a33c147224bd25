CONSTANTS
    Vid = {v1, v2, v3, v4, v5}
    SwitchVid = v1
    Default = {sw, d1, d2}
    SwitchRid = sw
    New = {n1}
    Removable = {d2}
    UserRid = {u1}
    Entry = {e1}
    OtherChoices = {{}, {e1}}
    Threshold = 1
    MaxCrash = 2
SYMMETRY Symmetry
SPECIFICATION MCSpec
INVARIANTS RestartKeepsView UpMeansConsistent ComesUpUnlessTorn
