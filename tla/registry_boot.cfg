\* Three Scriptors start against one registry of two names.
SPECIFICATION Spec
CONSTANTS
    None = None
    old = old
    new = new
    bare = bare
    a = a
    b = b
    v1 = v1
    v2 = v2
    r1 = r1
    r2 = r2
    r3 = r3
    Scriptors = {old, new, bare}
    Runners = {r1}
    Names = {a, b}
    Bodies = {v1, v2}
    Given <- BootGiven
    RunnerOf <- BootRunnerOf
INVARIANTS
    TypeOK
    RunsOwnBody
    RegistryIsLoaded
