CONSTANTS
    Setups <- AllSetups
    Unset = unset
    f1 = f1
    f2 = f2
    f3 = f3
    hid = hid
    Files = {f1, f2, f3, hid}
    Hidden = {hid}
    NoFile = nofile
    Workers = {w1, w2}
    Starter = main
    Nobody = nobody
    Width = 4
    Chunks = 2
    MaxCalls = 3
    MaxParts = 3
SPECIFICATION Spec
INVARIANTS TypeOK BytesOnce TargetsInTurn UploadsInTurn SolePatternWhole NamesDiffer CachedOnce BlocksWhole
           LastCallShown InitFirst ConnectionsOwned DataIsPosted ValuesWhenShown
PROPERTIES RunEnds
