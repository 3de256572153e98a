----------------------------- MODULE OpSchedule -----------------------------
(***************************************************************************)
(* What the operation engine of sc-ops promises, without its threads,      *)
(* locks, flags or channels: every submitted operation waits, may be       *)
(* started at most once and then ends; operations that touch overlapping   *)
(* paths never run together; an operation cancelled while it waits is      *)
(* dropped and never started.  OpQueue implements this specification.      *)
(***************************************************************************)
EXTENDS Integers

CONSTANTS
  Id,             \* operation identifiers
  PathSets,       \* the sets of paths an operation may touch
  Overlaps(_, _)  \* two paths one of which contains the other

VARIABLES
  phase,      \* phase[i]: "none", "queued", "running" or "ended"
  touch,      \* touch[i]: the paths operation i locks while it runs
  cancelled   \* waiting operations that have been cancelled

avars == <<phase, touch, cancelled>>

Queued == {i \in Id : phase[i] = "queued"}
Running == {i \in Id : phase[i] = "running"}
Clash(ps, qs) == \E a \in ps, b \in qs : Overlaps(a, b)

AInit ==
  /\ phase = [i \in Id |-> "none"]
  /\ touch = [i \in Id |-> {}]
  /\ cancelled = {}

ASubmit(i, ps) ==
  /\ phase[i] = "none"
  /\ phase' = [phase EXCEPT ![i] = "queued"]
  /\ touch' = [touch EXCEPT ![i] = ps]
  /\ UNCHANGED cancelled

\* Only what waits can be cancelled; some, all or nothing of it.
ACancel ==
  /\ UNCHANGED <<phase, touch>>
  /\ cancelled \subseteq cancelled'
  /\ cancelled' \subseteq cancelled \cup Queued

\* All the cancelled waiting operations are dropped at once.
ADrop ==
  /\ phase' = [i \in Id |-> IF i \in cancelled THEN "ended" ELSE phase[i]]
  /\ cancelled' = {}
  /\ UNCHANGED touch

\* Dropping and starting happen together: one scan of the queue does both.
AStart(i) ==
  /\ i \in Queued \ cancelled
  /\ \A r \in Running : ~Clash(touch[r], touch[i])
  /\ phase' = [j \in Id |-> IF j \in cancelled THEN "ended"
                            ELSE IF j = i THEN "running" ELSE phase[j]]
  /\ cancelled' = {}
  /\ UNCHANGED touch

AEnd(i) ==
  /\ i \in Running
  /\ phase' = [phase EXCEPT ![i] = "ended"]
  /\ UNCHANGED <<touch, cancelled>>

ANext ==
  \/ \E i \in Id : \E ps \in PathSets : ASubmit(i, ps)
  \/ ACancel
  \/ ADrop
  \/ \E i \in Id : AStart(i) \/ AEnd(i)

ASpec == AInit /\ [][ANext]_avars
=============================================================================
