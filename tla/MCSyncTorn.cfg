SPECIFICATION Spec
CONSTANTS
    FirstRows <- MCFirstRows
    Csvs <- MCCsvs
    MaxVersion = 2
    MaxCrashes = 1
    IdBlock = 100
    MinKnown = 95
CHECK_DEADLOCK FALSE
INVARIANT DeletesOnlyVanished
