\* Nothing has to go wrong.
SPECIFICATION SSpec
CONSTANTS
    Fine = Fine
    Coarse = Coarse
    Layouts = {Fine, Coarse}
    Units <- MCUnits
    UnitBytes <- MCUnitBytes
    HotTarget <- MCHotTarget
    WarmTarget <- MCWarmTarget
    MaxUpsets = 0
    Absent = Absent
    Torn = Torn
INVARIANTS
    VerifiedIsWhole
CHECK_DEADLOCK FALSE
