SPECIFICATION MCFairSpec
CONSTANTS
    app = app
    lib = lib
    tool = tool
    docs = docs
    tests = tests
    client = client
    server = server
    Packages <- MCPackages
    Deps <- MCDeps
    Devs <- MCDevs
    Filename <- MCFilename
    Invocations <- MCInvocations
    Makefiles = {app, lib, client}
    Scripts = {app, tool, client}
    Flagged = {lib, tool}
    Root = app
    Concurrency = 2
    Retries = 1
    MaxThreads = 4
INVARIANT ThreadsAreAwaited
INVARIANT CacheIsGuarded
INVARIANT SuccessMeansBuilt
PROPERTY BuildEnds
