SPECIFICATION FairSpec
CONSTANTS
    lib = lib
    addon = addon
    tool = tool
    gear = gear
    kit = kit
    Packages <- MCPackages
    Deps <- MCDeps
    Devs <- MCDevs
    Invocations <- MCInvocations
    Sourced = {gear}
    Executable = {tool}
    Program = Program
    Clib = tool
    Retries = 1
    MaxDepth = 5
    MaxRuns = 2
INVARIANT SkippedIsInProgress
INVARIANT SuccessMeansInstalled
PROPERTY SavedIsBuilt
PROPERTY RunsEnd
