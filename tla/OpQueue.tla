------------------------------- MODULE OpQueue -------------------------------
(***************************************************************************)
(* The background operation engine, crates/sc-ops/src/queue.rs: a queue of *)
(* file operations under one mutex and one condition variable, a fixed     *)
(* pool of worker threads of which at most max_jobs may run an operation,  *)
(* per-operation pause/cancel flags, and conflict prompts on which a       *)
(* worker blocks until somebody answers.                                   *)
(* The event channel is never trimmed: a receiver keeps its own position   *)
(* in it.  It is kept per operation, which forgets only how the events of  *)
(* different operations interleave.                                        *)
(*                                                                         *)
(* The program's calls that hold the mutex are single steps, guarded by    *)
(* Lockable: the only place where a thread keeps the mutex while another   *)
(* can change something is between a worker's decision to wait and its     *)
(* wait ("parking"), because set_max_jobs and Drop store their atomics     *)
(* without the mutex.  Elsewhere their stores commute with the critical    *)
(* section they fall into.                                                 *)
(*                                                                         *)
(* Identifiers are issued and queued by one thread, the one that owns the  *)
(* OpEngine, and nothing is put back, so the queue's order is the order of *)
(* the identifiers and "pending" is a set.  Of an operation the model      *)
(* keeps what the scheduling, the prompts and the undo record depend on;   *)
(* progress counters, labels and byte totals are left out.                 *)
(***************************************************************************)
EXTENDS Integers, Sequences, FiniteSets, SequencesExt

CONSTANTS
  Worker,      \* the worker threads; the code spawns MAX_WORKERS = 4
  MaxOps,      \* bound: operations submitted in one behaviour
  Operations,  \* the operations that may be submitted
  JobCaps,     \* the values the settings page passes to set_max_jobs
  InitJobs     \* the value main passes at start-up, before any submission

MAX_WORKERS == Cardinality(Worker)

Kinds == {"copy", "move", "delete", "recycle", "rename", "create",
          "restore", "purge"}

ASSUME OpQueueAssumption ==
  /\ IsFiniteSet(Worker) /\ Worker # {}
  /\ MaxOps \in Nat
  /\ \A o \in Operations : o.kind \in Kinds
  /\ JobCaps \subseteq Nat
  /\ InitJobs \in 1 .. MAX_WORKERS

Ids == 1 .. MaxOps
NoJob == 0
Resolutions == {"overwrite", "skip", "rename", "cancel"}
None == "none"
NoOp == [kind |-> None, paths |-> <<>>, dest |-> <<>>]
NoAnswer == [res |-> None, all |-> FALSE]
Terminal == {"done", "failed", "cancelled"}

VARIABLES
  nextId,      \* next_id
  pending,     \* Inner.pending: queued operations, in the order of their ids
  op,          \* op[i]: what operation i is (NoOp before it is submitted)
  running,     \* the keys of Inner.running
  opState,     \* the keys of Inner.op_state
  flag,        \* flag[i]: the AtomicU8 of i: "none", "paused" or "cancelled"
  conflictTx,  \* the keys of Inner.conflict_tx: prompts somebody can answer
  maxJobs,     \* Shared.max_jobs
  shutdown,    \* Shared.shutdown
  events,      \* events[i]: the events about i, in the order they are sent
  pc,          \* pc[w]: where worker w is
  job,         \* job[w]: the operation w works on, or NoJob
  item,        \* item[w]: the source or path w is at
  sticky,      \* sticky[w]: TransferCtx.sticky_resolution, or None
  made,        \* made[w]: created (or moved_pairs) is not empty
  answer       \* answer[w]: what waits in the channel w's prompt listens to

queueVars == <<nextId, pending, op, running, opState>>
ctlVars == <<maxJobs, shutdown>>
ctxVars == <<item, sticky, made>>
vars == <<nextId, pending, op, running, opState, flag, conflictTx, maxJobs,
          shutdown, events, pc, job, item, sticky, made, answer>>

------------------------------------------------------------------------------
(* Paths are sequences of names; a directory is a prefix of what it holds. *)

RecycleRoot == <<"recycle:">>
PathsOverlap(a, b) == IsPrefix(a, b) \/ IsPrefix(b, a)
Clashing(ps, qs) == \E a \in ps, b \in qs : PathsOverlap(a, b)

\* The paths an operation locks while it runs.  A rename is a list of one
\* path and the new path; a restore lists the folders it refreshes.
TouchPaths(o) ==
  CASE o.kind \in {"copy", "move", "rename"} -> ToSet(o.paths) \cup {o.dest}
    [] o.kind = "purge" -> {RecycleRoot}
    [] OTHER -> ToSet(o.paths)

\* Wrong: only equal paths are taken to overlap.
EqualPathOverlap(ps) == \E r \in running : TouchPaths(op[r]) \cap ps # {}
RunningOverlap(ps) == \E r \in running : Clashing(TouchPaths(op[r]), ps)

------------------------------------------------------------------------------
Init ==
  /\ nextId = 1
  /\ pending = {} /\ running = {} /\ opState = {} /\ conflictTx = {}
  /\ op = [i \in Ids |-> NoOp]
  /\ flag = [i \in Ids |-> "none"]
  /\ maxJobs = InitJobs /\ shutdown = FALSE
  /\ events = [i \in Ids |-> <<>>]
  /\ pc = [w \in Worker |-> "scan"]
  /\ job = [w \in Worker |-> NoJob]
  /\ item = [w \in Worker |-> 1]
  /\ sticky = [w \in Worker |-> None]
  /\ made = [w \in Worker |-> FALSE]
  /\ answer = [w \in Worker |-> NoAnswer]

Lockable == \A w \in Worker : pc[w] # "parking"
\* Wrong: nobody is woken.
NotifyNobody(p) == p
NotifyAll(p) == [w \in Worker |-> IF p[w] = "waiting" THEN "scan" ELSE p[w]]

------------------------------------------------------------------------------
(* Calls from the thread that owns the engine.                             *)

Submit(o) ==
  /\ ~shutdown /\ Lockable /\ nextId \in Ids
  /\ nextId' = nextId + 1
  /\ op' = [op EXCEPT ![nextId] = o]
  /\ opState' = opState \cup {nextId}
  /\ pending' = pending \cup {nextId}
  /\ pc' = NotifyAll(pc)
  /\ UNCHANGED <<running, flag, conflictTx, ctlVars, events, job, ctxVars,
                 answer>>

\* compare_exchange on the flags of those of S the engine still tracks.
SwapFlags(S, from, to) ==
  /\ ~shutdown /\ Lockable
  /\ flag' = [i \in Ids |-> IF i \in S \cap opState /\ flag[i] = from
                            THEN to ELSE flag[i]]
  /\ UNCHANGED <<queueVars, conflictTx, ctlVars, events, pc, job, ctxVars,
                 answer>>

Pause(i) == SwapFlags({i}, "none", "paused")
Resume(i) == SwapFlags({i}, "paused", "none")
PauseAll == SwapFlags(Ids, "none", "paused")
ResumeAll == SwapFlags(Ids, "paused", "none")

SetCancelled(S) ==
  /\ ~shutdown /\ Lockable
  /\ flag' = [i \in Ids |-> IF i \in S \cap opState THEN "cancelled"
                            ELSE flag[i]]
  /\ pc' = NotifyAll(pc)
  /\ UNCHANGED <<queueVars, conflictTx, ctlVars, events, job, ctxVars, answer>>

Cancel(i) == SetCancelled({i})
CancelAll == SetCancelled(Ids)

\* Wrong: the cap is stored as given.
SetMaxJobsUnclamped(n) ==
  /\ ~shutdown
  /\ maxJobs' = n /\ pc' = NotifyAll(pc)
  /\ UNCHANGED <<queueVars, flag, conflictTx, shutdown, events, job, ctxVars,
                 answer>>

\* Stored and notified without the mutex, so not guarded by Lockable.
SetMaxJobs(n) ==
  /\ ~shutdown
  /\ maxJobs' = IF n < 1 THEN 1 ELSE IF n > MAX_WORKERS THEN MAX_WORKERS ELSE n
  /\ pc' = NotifyAll(pc)
  /\ UNCHANGED <<queueVars, flag, conflictTx, shutdown, events, job, ctxVars,
                 answer>>

\* Wrong: the sender is used but stays in the map.
ResolveAndKeep(S, r, all) ==
  /\ ~shutdown /\ Lockable
  /\ answer' = [w \in Worker |-> IF job[w] \in S \cap conflictTx
                                 THEN [res |-> r, all |-> all] ELSE answer[w]]
  /\ UNCHANGED <<queueVars, flag, conflictTx, ctlVars, events, pc, job, ctxVars>>

\* The sender is removed under the mutex, then used: the worker that listens
\* is the one whose operation it is.  Without a sender the call does nothing.
ResolveConflicts(S, r, all) ==
  /\ ~shutdown /\ Lockable
  /\ conflictTx' = conflictTx \ S
  /\ answer' = [w \in Worker |-> IF job[w] \in S \cap conflictTx
                                 THEN [res |-> r, all |-> all] ELSE answer[w]]
  /\ UNCHANGED <<queueVars, flag, ctlVars, events, pc, job, ctxVars>>

ResolveConflict(i, r, all) == ResolveConflicts({i}, r, all)

\* Drop for OpEngine: the owner is gone.  Like SetMaxJobs, no mutex.
Drop ==
  /\ ~shutdown
  /\ shutdown' = TRUE
  /\ pc' = NotifyAll(pc)
  /\ UNCHANGED <<queueVars, flag, conflictTx, maxJobs, events, job, ctxVars,
                 answer>>

------------------------------------------------------------------------------
(* The worker's loop: take the mutex, drop cancelled operations, claim the *)
(* first one that fits or wait.                                            *)

Event(k, u) == [kind |-> k, undo |-> u]
Send(i, k, u) == events' = [events EXCEPT ![i] = Append(@, Event(k, u))]

Gone == {i \in pending : i \in opState /\ flag[i] = "cancelled"}
\* Wrong: a cancelled operation may be claimed.
FittingCancelled == {i \in pending : ~RunningOverlap(TouchPaths(op[i]))}
Fitting == {i \in pending \ Gone : ~RunningOverlap(TouchPaths(op[i]))}
\* Wrong: one operation more than the cap.
CanRunOverCap == Cardinality(running) <= maxJobs /\ Fitting # {}
CanRun == Cardinality(running) < maxJobs /\ Fitting # {}

\* Wrong: the dropped operations stay in op_state.
DropGoneKeepingState ==
  /\ UNCHANGED <<opState, flag>>
  /\ events' = [i \in Ids |-> IF i \in Gone
                              THEN Append(events[i], Event("cancelled", FALSE))
                              ELSE events[i]]

\* Wrong: nobody is told of the dropped operations.
DropGoneSilently ==
  /\ opState' = opState \ Gone
  /\ flag' = [i \in Ids |-> IF i \in Gone THEN "none" ELSE flag[i]]
  /\ UNCHANGED events

\* An entry removed from op_state takes its flag with it.
DropGone ==
  /\ opState' = opState \ Gone
  /\ flag' = [i \in Ids |-> IF i \in Gone THEN "none" ELSE flag[i]]
  /\ events' = [i \in Ids |-> IF i \in Gone
                              THEN Append(events[i], Event("cancelled", FALSE))
                              ELSE events[i]]

Exit(w) ==
  /\ pc[w] = "scan" /\ Lockable /\ shutdown
  /\ pc' = [pc EXCEPT ![w] = "exited"]
  /\ UNCHANGED <<queueVars, flag, conflictTx, ctlVars, events, job, ctxVars,
                 answer>>

Claim(w) ==
  /\ pc[w] = "scan" /\ Lockable /\ ~shutdown
  /\ CanRun
  /\ DropGone
  /\ \E i \in Fitting :
       /\ \A j \in Fitting : i <= j
       /\ pending' = pending \ (Gone \cup {i})
       /\ running' = running \cup {i}
       /\ job' = [job EXCEPT ![w] = i]
  /\ pc' = [pc EXCEPT ![w] = "claimed"]
  /\ UNCHANGED <<nextId, op, conflictTx, ctlVars, ctxVars, answer>>

\* Nothing to claim: the worker still holds the mutex.
Park(w) ==
  /\ pc[w] = "scan" /\ Lockable /\ ~shutdown
  /\ ~CanRun
  /\ DropGone
  /\ pending' = pending \ Gone
  /\ pc' = [pc EXCEPT ![w] = "parking"]
  /\ UNCHANGED <<nextId, op, running, conflictTx, ctlVars, job, ctxVars, answer>>

\* cvar.wait: gives the mutex back and waits, in one step.
Wait(w) ==
  /\ pc[w] = "parking"
  /\ pc' = [pc EXCEPT ![w] = "waiting"]
  /\ UNCHANGED <<queueVars, flag, conflictTx, ctlVars, events, job, ctxVars,
                 answer>>

------------------------------------------------------------------------------
(* Worker::run.  An operation works through its sources or paths ("item"), *)
(* or is a single call to the system ("single").                           *)

Work(w) == op[job[w]]
Stage(o) == IF o.kind \in {"copy", "move", "delete"} THEN "item" ELSE "single"
Transfers(w) == Work(w).kind \in {"copy", "move"}
Source(w) == Work(w).paths[item[w]]
MoreItems(w) == item[w] <= Len(Work(w).paths)
OntoItself(w) == Source(w) = Append(Work(w).dest, Last(Source(w)))

At(w, p) == pc[w] = p
Goto(w, p) == pc' = [pc EXCEPT ![w] = p]
\* pause_point: a paused worker polls, a cancelled one is told to stop.
Go(w) == flag[job[w]] = "none"
Stop(w) == flag[job[w]] = "cancelled"

\* Looks its flag up under the mutex, then reports the operation started.
Begin(w) ==
  /\ At(w, "claimed") /\ Lockable
  /\ Send(job[w], "started", FALSE)
  /\ Goto(w, Stage(Work(w)))
  /\ UNCHANGED <<queueVars, flag, conflictTx, ctlVars, job, ctxVars, answer>>

\* The result of run: its last event; the operation is still in "running".
End(w, k, u) ==
  /\ Send(job[w], k, u)
  /\ Goto(w, "finish")
  /\ UNCHANGED <<queueVars, flag, conflictTx, ctlVars, job, ctxVars, answer>>

NextItem(w) ==
  /\ item' = [item EXCEPT ![w] = @ + 1]
  /\ Goto(w, "item")

SkipOntoItself(w) ==
  /\ At(w, "item") /\ Transfers(w) /\ MoreItems(w) /\ OntoItself(w)
  /\ NextItem(w)
  /\ UNCHANGED <<queueVars, flag, conflictTx, ctlVars, events, job, sticky,
                 made, answer>>

\* At a source that must be transferred, past its pause point.
AtSource(w) ==
  /\ At(w, "item") /\ Transfers(w) /\ MoreItems(w) /\ ~OntoItself(w) /\ Go(w)

\* What a resolution does with the source at hand.
Decide(w, r) ==
  \/ /\ r = "cancel"
     /\ Send(job[w], "cancelled", FALSE)
     /\ Goto(w, "finish")
     /\ UNCHANGED item
  \/ /\ r = "skip"
     /\ NextItem(w)
     /\ UNCHANGED events
  \/ /\ r \in {"overwrite", "rename"}
     /\ Goto(w, "apply")
     /\ UNCHANGED <<events, item>>

\* The destination is free.
NoConflict(w) ==
  /\ AtSource(w)
  /\ Goto(w, "apply")
  /\ UNCHANGED <<queueVars, flag, conflictTx, ctlVars, events, job, ctxVars,
                 answer>>

\* The destination exists and an earlier answer was "apply to all".
StickyConflict(w) ==
  /\ AtSource(w) /\ sticky[w] # None
  /\ Decide(w, sticky[w])
  /\ UNCHANGED <<queueVars, flag, conflictTx, ctlVars, job, sticky, made, answer>>

\* The destination exists: publish a sender, report the conflict, block.
AskConflict(w) ==
  /\ AtSource(w) /\ sticky[w] = None /\ Lockable
  /\ conflictTx' = conflictTx \cup {job[w]}
  /\ Send(job[w], "conflict", FALSE)
  /\ Goto(w, "asking")
  /\ UNCHANGED <<queueVars, flag, ctlVars, job, ctxVars, answer>>

Answered(w) ==
  /\ At(w, "asking") /\ answer[w] # NoAnswer
  /\ sticky' = IF answer[w].all THEN [sticky EXCEPT ![w] = answer[w].res]
               ELSE sticky
  /\ answer' = [answer EXCEPT ![w] = NoAnswer]
  /\ Decide(w, answer[w].res)
  /\ UNCHANGED <<queueVars, flag, conflictTx, ctlVars, job, made>>

\* move_one looks at no flag; copy_recursive polls it before every node and
\* CopyFileExW's callback while it copies.
Apply(w) ==
  /\ At(w, "apply")
  /\ Work(w).kind = "copy" => Go(w)
  /\ made' = [made EXCEPT ![w] = TRUE]
  /\ NextItem(w)
  /\ UNCHANGED <<queueVars, flag, conflictTx, ctlVars, events, job, sticky,
                 answer>>

DeleteItem(w) ==
  /\ At(w, "item") /\ ~Transfers(w) /\ MoreItems(w) /\ Go(w)
  /\ NextItem(w)
  /\ UNCHANGED <<queueVars, flag, conflictTx, ctlVars, events, job, sticky,
                 made, answer>>

\* pause_point says no, before an item or in the middle of a copy.
StopCancelled(w) ==
  /\ \/ At(w, "item") /\ MoreItems(w) /\ ~(Transfers(w) /\ OntoItself(w))
     \/ At(w, "apply") /\ Work(w).kind = "copy"
  /\ Stop(w)
  /\ End(w, "cancelled", FALSE)

\* The system refuses a transfer, a removal or a single call; what was done
\* before stays done and nothing is recorded for undo.
Fail(w) ==
  /\ \/ At(w, "apply") /\ (Work(w).kind = "copy" => Go(w))
     \/ At(w, "item") /\ ~Transfers(w) /\ MoreItems(w) /\ Go(w)
     \/ At(w, "single")
  /\ End(w, "failed", FALSE)

\* A move always carries an undo record, even one of no pairs.
TransferDone(w) ==
  /\ At(w, "item") /\ Transfers(w) /\ ~MoreItems(w)
  /\ End(w, "done", Work(w).kind = "move" \/ made[w])

DeleteDone(w) ==
  /\ At(w, "item") /\ ~Transfers(w) /\ ~MoreItems(w)
  /\ End(w, "done", FALSE)

SingleDone(w) ==
  /\ At(w, "single")
  /\ End(w, "done", Work(w).kind \in {"rename", "create"})

\* Forget the operation, then wake everybody and scan again.
Finish(w) ==
  /\ At(w, "finish") /\ Lockable
  /\ running' = running \ {job[w]}
  /\ opState' = opState \ {job[w]}
  /\ conflictTx' = conflictTx \ {job[w]}
  /\ flag' = [flag EXCEPT ![job[w]] = "none"]
  /\ job' = [job EXCEPT ![w] = NoJob]
  /\ item' = [item EXCEPT ![w] = 1]
  /\ sticky' = [sticky EXCEPT ![w] = None]
  /\ made' = [made EXCEPT ![w] = FALSE]
  /\ pc' = [NotifyAll(pc) EXCEPT ![w] = "scan"]
  /\ UNCHANGED <<nextId, pending, op, ctlVars, events, answer>>

------------------------------------------------------------------------------
Transfer(w) ==
  \/ SkipOntoItself(w) \/ NoConflict(w) \/ StickyConflict(w)
  \/ AskConflict(w) \/ Answered(w) \/ Apply(w) \/ TransferDone(w)

WorkerStep(w) ==
  \/ Exit(w) \/ Claim(w) \/ Park(w) \/ Wait(w) \/ Begin(w)
  \/ Transfer(w)
  \/ DeleteItem(w) \/ DeleteDone(w) \/ SingleDone(w)
  \/ StopCancelled(w) \/ Fail(w) \/ Finish(w)

OwnerStep ==
  \/ \E o \in Operations : Submit(o)
  \/ \E i \in Ids : Pause(i) \/ Resume(i) \/ Cancel(i)
  \/ PauseAll \/ ResumeAll \/ CancelAll
  \/ \E n \in JobCaps : SetMaxJobs(n)
  \/ \E i \in Ids, r \in Resolutions, all \in BOOLEAN : ResolveConflict(i, r, all)
  \/ Drop

Next == OwnerStep \/ \E w \in Worker : WorkerStep(w)

Spec == Init /\ [][Next]_vars

------------------------------------------------------------------------------
(* Correctness.                                                            *)

Busy == {"claimed", "item", "asking", "apply", "single", "finish"}
Places == Busy \cup {"scan", "parking", "waiting", "exited"}
Events == [kind : {"started", "conflict"} \cup Terminal, undo : BOOLEAN]
Answers == [res : Resolutions \cup {None}, all : BOOLEAN]

\* Every variable keeps the type of the field or local it stands for.
TypeOK ==
  /\ nextId \in 1 .. MaxOps + 1
  /\ pending \in SUBSET Ids /\ running \in SUBSET Ids
  /\ opState \in SUBSET Ids /\ conflictTx \in SUBSET Ids
  /\ op \in [Ids -> Operations \cup {NoOp}]
  /\ flag \in [Ids -> {"none", "paused", "cancelled"}]
  /\ maxJobs \in 1 .. MAX_WORKERS /\ shutdown \in BOOLEAN
  /\ events \in [Ids -> Seq(Events)]
  /\ pc \in [Worker -> Places]
  /\ job \in [Worker -> Ids \cup {NoJob}]
  /\ item \in [Worker -> Nat]
  /\ sticky \in [Worker -> Resolutions \cup {None}]
  /\ made \in [Worker -> BOOLEAN]
  /\ answer \in [Worker -> Answers]

\* Two operations run at the same time only if no path of one contains a
\* path of the other ("runs non-overlapping ops in parallel", queue.rs:1).
Exclusive ==
  \A i, j \in running : i # j => ~Clashing(TouchPaths(op[i]), TouchPaths(op[j]))

\* The maps of the engine agree with the threads: an operation is in running
\* exactly while one worker has it, and in op_state (so that it can be
\* paused and cancelled) exactly while it waits or runs.
Bookkeeping ==
  /\ pending \cap running = {}
  /\ opState = pending \cup running
  /\ \A w \in Worker : IF pc[w] \in Busy THEN job[w] \in running ELSE job[w] = NoJob
  /\ \A i \in running : \E w \in Worker : job[w] = i
  /\ \A v, w \in Worker : job[v] = job[w] /\ job[v] # NoJob => v = w

\* A worker that blocks on a prompt can be answered, or its answer is on the
\* way; and nobody else's prompt is open (ask_conflict, resolve_conflict).
PromptsOpen ==
  conflictTx = {job[w] : w \in {v \in Worker : pc[v] = "asking"
                                               /\ answer[v] = NoAnswer}}

\* While an operation could be started, or a cancelled one dropped, no worker
\* sleeps unless another is about to look at the queue.
NoLostWakeup ==
  ~shutdown /\ (CanRun \/ Gone # {}) =>
    \/ \E w \in Worker : pc[w] = "scan"
    \/ \A w \in Worker : pc[w] # "waiting"

\* An operation some thread may still act on.
Active(i) == i \in pending \/ \E w \in Worker : job[w] = i /\ pc[w] # "finish"
Ended(l) == \E k \in DOMAIN l : l[k].kind \in Terminal

\* What is reported about an operation is its start, then conflicts, then one
\* outcome, sent when no thread acts on it any more and followed by nothing;
\* one dropped from the queue is only reported cancelled.  The operations
\* window and the undo journal rely on it.
EventsInOrder ==
  \A i \in Ids :
    LET l == events[i] IN
    /\ Ended(l) <=> i < nextId /\ ~Active(i)
    /\ \A k \in DOMAIN l :
         /\ l[k].kind \in Terminal => k = Len(l)
         /\ l[k].kind = "started" <=> k = 1 /\ l # <<Event("cancelled", FALSE)>>

\* "1 is strictly sequential" (settings_ui.rs:425, config.rs:115): while the
\* cap is one, also when it has just been lowered, an operation is started
\* only when none runs, and they start in the order they were submitted.
StrictlySequential ==
  [][\A i \in running' \ running : maxJobs = 1 =>
       running = {} /\ \A j \in pending \ Gone : i <= j]_vars

------------------------------------------------------------------------------
(* The engine implements the abstract scheduler.                           *)

Phase(i) ==
  IF i >= nextId THEN "none"
  ELSE IF i \in pending THEN "queued"
  ELSE IF i \in running THEN "running" ELSE "ended"

Schedule == INSTANCE OpSchedule
  WITH Id <- Ids,
       PathSets <- {TouchPaths(o) : o \in Operations},
       Overlaps <- PathsOverlap,
       phase <- [i \in Ids |-> Phase(i)],
       touch <- [i \in Ids |-> IF i < nextId THEN TouchPaths(op[i]) ELSE {}],
       cancelled <- {i \in pending : flag[i] = "cancelled"}

\* An operation starts at most once, never after it was cancelled while it
\* waited, and never beside one it overlaps, in every interleaving.
ImplementsSchedule == Schedule!ASpec
=============================================================================
