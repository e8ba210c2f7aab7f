--------------------------- MODULE MCScriptRegistry ---------------------------
(* TLC instances of ScriptRegistry: an old and a new release of a program  *)
(* that give one name different bodies, and a Scriptor built without       *)
(* scripts, which loads what it finds.                                     *)
EXTENDS ScriptRegistry, TLC

CONSTANTS old, new, bare, a, b, v1, v2, r1, r2, r3

\* Releases with two names and one, and a runner of the old one.
BootGiven == old :> (a :> v1 @@ b :> v1) @@ new :> (a :> v2) @@ bare :> <<>>
BootRunnerOf == r1 :> old

\* Two goroutines share a Scriptor that can repair, a third uses one that
\* cannot.
ExecGiven == old :> (a :> v1) @@ bare :> <<>>
ExecRunnerOf == r1 :> old @@ r2 :> old @@ r3 :> bare

\* Two releases.
WinsGiven == old :> (a :> v1) @@ new :> (a :> v2)
WinsRunnerOf == r1 :> old
=============================================================================
