----------------------------- MODULE MCOpQueue -----------------------------
(* Small instances of OpQueue for TLC. *)
EXTENDS OpQueue, TLC

Folder == <<"c", "a">>
File == <<"c", "a", "f">>
Other == <<"d", "b">>
OtherFile == <<"d", "b", "x">>
Second == <<"e", "h">>

Operation(k, ps, d) == [kind |-> k, paths |-> ps, dest |-> d]

\* A transfer that may meet two conflicts, a deletion of the folder its first
\* source is in, and an operation apart from both.
PoolOperations == {Operation("copy", <<File, Second>>, Other),
                   Operation("delete", <<Folder>>, <<>>),
                   Operation("create", <<<<"e", "g">>>>, <<>>)}

\* Short operations, the second overlaps the others, which do not overlap each
\* other, and the third's source is already where it would be moved to; and a
\* transfer that may meet two conflicts.
ShortOperations == {Operation("delete", <<Folder>>, <<>>),
                    Operation("rename", <<File>>, OtherFile),
                    Operation("move", <<OtherFile>>, Other)}
ScheduleOperations == ShortOperations \cup {Operation("move", <<File, Second>>, Other)}

\* Bound: beside the transfer there is one short operation, or none.
OneBesideTransfer ==
  LET long == {i \in 1 .. nextId - 1 : op[i] \notin ShortOperations}
  IN  long = {} \/ (Cardinality(long) = 1 /\ nextId <= 3)

WorkerSymmetry == Permutations(Worker)
=============================================================================
