----------------------------- MODULE MCOpSystem -----------------------------
(* Small instances of OpSystem for TLC. *)
EXTENDS OpSystem, TLC

Operation(k, ps, d) == [kind |-> k, paths |-> ps, dest |-> d]

\* Two transfers that can run side by side; the second source of the copy is
\* already where it would be copied to.
CopyTwo == Operation("copy", <<<<"c", "f">>, <<"d", "g">>>>, <<"d">>)
MoveTwo == Operation("move", <<<<"e", "f">>, <<"e", "g">>>>, <<"h">>)
DeleteOne == Operation("delete", <<<<"c", "f">>>>, <<>>)

MoveOne == Operation("move", <<<<"e", "f">>>>, <<"h">>)

PromptOperations == {CopyTwo, MoveTwo}
LiveOperations == {MoveOne, DeleteOne}

WorkerSymmetry == Permutations(Worker)
=============================================================================
