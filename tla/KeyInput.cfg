CONSTANTS
    ShortcutKeys = {b}
    PlainKeys = {a}
    AppKeys = {m}
    UnmappedKeys = {u}
    Alt = alt
    Esc = esc
    MaxActs = 5
    MaxFails = 1
SPECIFICATION FairSpec
INVARIANTS
    TypeOK
    PlainKeysAgree
    ShortcutKeysAgree
    EveryChordFires
PROPERTIES
    ReleaseArrives
CHECK_DEADLOCK FALSE
