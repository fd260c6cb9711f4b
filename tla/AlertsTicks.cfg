SPECIFICATION FairSpec
CONSTANTS
    Order <- MCOrder
    Tiered = {"drives"}
    Broken = {"units"}
    Items = {"hdd", "ssd"}
    Values = {0, 2, 3}
    Counts = {1}
    Warn <- MCWarn
    Err <- MCErr
    Hysteresis = 1
    Tests = {t1, t2}
    None = None
    MaxEvents = 2
    MaxFaults = 1
    MaxChanges = 1
CHECK_DEADLOCK FALSE
INVARIANTS TypeOK EventOfAlarm ToldTruthful
PROPERTY NoFlapping 
