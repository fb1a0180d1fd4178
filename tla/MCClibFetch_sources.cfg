SPECIFICATION FairSpec
CONSTANTS
    Sources = 3
    Concurrency = 1
    Forced = FALSE
    StartsFail = TRUE
INVARIANT JoinsAreLive
INVARIANT CopyIsFinal
INVARIANT FreedIsUnused
PROPERTY Returns
