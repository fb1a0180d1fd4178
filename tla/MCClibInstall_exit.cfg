SPECIFICATION Spec
CONSTANTS
    lib = lib
    addon = addon
    tool = tool
    gear = gear
    kit = kit
    Packages <- MCPackages
    Deps <- MCDeps
    Devs <- MCDevs
    Invocations <- MCInvocations
    Sourced = {gear}
    Executable = {tool}
    Program = Program
    Clib = tool
    Retries = 1
    MaxDepth = 5
    MaxRuns = 1
INVARIANT FailureIsReported
