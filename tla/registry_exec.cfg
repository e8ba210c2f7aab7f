\* Two runners share a Scriptor, one has a Scriptor without bodies.
SPECIFICATION FairSpec
CONSTANTS
    None = None
    old = old
    new = new
    bare = bare
    a = a
    b = b
    v1 = v1
    v2 = v2
    r1 = r1
    r2 = r2
    r3 = r3
    Scriptors = {old, bare}
    Runners = {r1, r2, r3}
    Names = {a}
    Bodies = {v1}
    Given <- ExecGiven
    RunnerOf <- ExecRunnerOf
INVARIANTS
    AtMostOnce
    SelfHeals
PROPERTIES
    ExecShaReturns
