\* An old release repairs after the new one has registered.
SPECIFICATION Spec
CONSTANTS
    None = None
    old = old
    new = new
    bare = bare
    a = a
    b = b
    v1 = v1
    v2 = v2
    r1 = r1
    r2 = r2
    r3 = r3
    Scriptors = {old, new}
    Runners = {r1}
    Names = {a}
    Bodies = {v1, v2}
    Given <- WinsGiven
    RunnerOf <- WinsRunnerOf
INVARIANTS
    ChangedBodyWins
