------------------------------ MODULE OpSystem ------------------------------
(***************************************************************************)
(* The operation engine and the window that drives it: OpQueue composed    *)
(* with the part of the UI thread (crates/sc-app/src/app.rs, ui.rs) that   *)
(* submits operations, receives their events, shows their progress rows    *)
(* and their conflict prompts, and answers them.  The UI thread handles    *)
(* one event, or one click, at a time.                                     *)
(*                                                                         *)
(* The undo journal and the listings that an ended operation also updates  *)
(* are other variables, in other modules.  The process ends with its       *)
(* window, so the engine is not dropped here.                              *)
(***************************************************************************)
EXTENDS OpQueue

CONSTANTS
  Defaults,   \* the values settings.conflict_default takes
  ViewLimit   \* rows of the operations panel before ended ones go (12)

ASSUME OpSystemAssumption ==
  /\ Defaults # {}
  /\ Defaults \subseteq {"ask", "overwrite", "rename", "skip"}
  /\ ViewLimit \in Nat

VARIABLES
  seen,           \* seen[i]: how many events about i have been handled
  view,           \* view[i]: the row of i in ops_view
  pendingOps,     \* the keys of pending_ops
  conflict,       \* the operation whose prompt is shown, or NoJob
  conflictQueue,  \* the operations whose prompts wait behind it
  default         \* settings.conflict_default

uiVars == <<seen, view, pendingOps, conflict, conflictQueue, default>>
sysVars == <<vars, uiVars>>

SysInit ==
  /\ Init
  /\ seen = [i \in Ids |-> 0]
  /\ view = [i \in Ids |-> "absent"]
  /\ pendingOps = {}
  /\ conflict = NoJob /\ conflictQueue = <<>>
  /\ default \in Defaults

------------------------------------------------------------------------------
(* What the user does.                                                     *)

SubmitOp(o) ==
  /\ Submit(o)
  /\ pendingOps' = pendingOps \cup {nextId}
  /\ UNCHANGED <<seen, view, conflict, conflictQueue, default>>

\* The buttons of a row that has not ended, and those under the rows.
RowActive(i) == view[i] = "active"
HasActive == \E i \in Ids : RowActive(i)
IsPaused(i) == i \in opState /\ flag[i] = "paused"
AnyPaused == \E i \in Ids : IsPaused(i)

PauseButton(i) == RowActive(i) /\ ~IsPaused(i) /\ Pause(i) /\ UNCHANGED uiVars
ResumeButton(i) == RowActive(i) /\ IsPaused(i) /\ Resume(i) /\ UNCHANGED uiVars
CancelButton(i) == RowActive(i) /\ Cancel(i) /\ UNCHANGED uiVars
PauseAllButton == HasActive /\ ~AnyPaused /\ PauseAll /\ UNCHANGED uiVars
ResumeAllButton == HasActive /\ AnyPaused /\ ResumeAll /\ UNCHANGED uiVars
CancelAllButton == HasActive /\ CancelAll /\ UNCHANGED uiVars

\* "Dismiss errors" drops every ended row.
DismissErrors ==
  /\ \E i \in Ids : view[i] = "error"
  /\ view' = [i \in Ids |-> IF view[i] = "active" THEN "active" ELSE "absent"]
  /\ UNCHANGED <<vars, seen, pendingOps, conflict, conflictQueue, default>>

ChangeJobs(n) == SetMaxJobs(n) /\ UNCHANGED uiVars

ChangeDefault(d) ==
  /\ default' = d
  /\ UNCHANGED <<vars, seen, view, pendingOps, conflict, conflictQueue>>

\* answer_conflict: answer the prompt shown, then show the next one.
AnswerConflict(r, all) ==
  /\ conflict # NoJob
  /\ ResolveConflict(conflict, r, all)
  /\ conflict' = IF conflictQueue = <<>> THEN NoJob ELSE Head(conflictQueue)
  /\ conflictQueue' = IF conflictQueue = <<>> THEN <<>> ELSE Tail(conflictQueue)
  /\ UNCHANGED <<seen, view, pendingOps, default>>

\* Wrong: the prompts behind the one shown are forgotten, not answered.
DismissShown ==
  /\ conflict # NoJob
  /\ ResolveConflicts({conflict}, "cancel", FALSE)
  /\ conflict' = NoJob /\ conflictQueue' = <<>>
  /\ UNCHANGED <<seen, view, pendingOps, default>>

\* dismiss_floating_ui (Escape): cancel the operations of all open prompts.
DismissPrompts ==
  /\ conflict # NoJob
  /\ ResolveConflicts({conflict} \cup ToSet(conflictQueue), "cancel", FALSE)
  /\ conflict' = NoJob /\ conflictQueue' = <<>>
  /\ UNCHANGED <<seen, view, pendingOps, default>>

------------------------------------------------------------------------------
(* pump_messages and handle_op_event.                                      *)

\* The next event about i is of one of these kinds; it is taken.
Takes(i, kinds) ==
  /\ seen[i] < Len(events[i])
  /\ events[i][seen[i] + 1].kind \in kinds
  /\ seen' = [seen EXCEPT ![i] = @ + 1]

Rows == {i \in Ids : view[i] # "absent"}

\* Wrong: past the limit, every older row goes.
OnStartedPrunesAll(i) ==
  /\ Takes(i, {"started"})
  /\ view' = [j \in Ids |-> IF j = i THEN "active"
                            ELSE IF Cardinality(Rows \cup {i}) > ViewLimit
                            THEN "absent" ELSE view[j]]
  /\ UNCHANGED <<vars, pendingOps, conflict, conflictQueue, default>>

\* Past the limit, the rows of operations that ended well go.
OnStarted(i) ==
  /\ Takes(i, {"started"})
  /\ view' = [j \in Ids |-> IF j = i THEN "active"
                            ELSE IF Cardinality(Rows \cup {i}) > ViewLimit
                                    /\ view[j] = "finished"
                            THEN "absent" ELSE view[j]]
  /\ UNCHANGED <<vars, pendingOps, conflict, conflictQueue, default>>

OnConflictAsk(i) ==
  /\ Takes(i, {"conflict"}) /\ default = "ask"
  /\ IF conflict = NoJob
     THEN conflict' = i /\ UNCHANGED conflictQueue
     ELSE conflictQueue' = Append(conflictQueue, i) /\ UNCHANGED conflict
  /\ UNCHANGED <<vars, view, pendingOps, default>>

OnConflictDefault(i) ==
  /\ Takes(i, {"conflict"}) /\ default # "ask"
  /\ ResolveConflict(i, default, TRUE)
  /\ UNCHANGED <<view, pendingOps, conflict, conflictQueue, default>>

\* An operation dropped from the queue has no row to mark.
OnEnded(i) ==
  /\ Takes(i, Terminal)
  /\ view' = [view EXCEPT ![i] =
                IF @ = "absent" THEN @
                ELSE IF events[i][seen[i] + 1].kind = "done" THEN "finished"
                ELSE "error"]
  /\ pendingOps' = pendingOps \ {i}
  /\ UNCHANGED <<vars, conflict, conflictQueue, default>>

HandleOpEvent(i) ==
  OnStarted(i) \/ OnConflictAsk(i) \/ OnConflictDefault(i) \/ OnEnded(i)

WorkerRuns(w) == WorkerStep(w) /\ UNCHANGED uiVars

SysNext ==
  \/ \E o \in Operations : SubmitOp(o)
  \/ \E i \in Ids : PauseButton(i) \/ ResumeButton(i) \/ CancelButton(i)
                    \/ HandleOpEvent(i)
  \/ PauseAllButton \/ ResumeAllButton \/ CancelAllButton
  \/ DismissErrors \/ DismissPrompts
  \/ \E n \in JobCaps : ChangeJobs(n)
  \/ \E d \in Defaults : ChangeDefault(d)
  \/ \E r \in Resolutions, all \in BOOLEAN : AnswerConflict(r, all)
  \/ \E w \in Worker : WorkerRuns(w)

SysSpec == SysInit /\ [][SysNext]_sysVars

------------------------------------------------------------------------------
(* Correctness.                                                            *)

\* The types of engine and window.
SysTypeOK ==
  /\ TypeOK
  /\ seen \in [Ids -> Nat]
  /\ view \in [Ids -> {"absent", "active", "finished", "error"}]
  /\ pendingOps \in SUBSET Ids
  /\ conflict \in Ids \cup {NoJob}
  /\ conflictQueue \in Seq(Ids)
  /\ default \in Defaults

Shown == (IF conflict = NoJob THEN {} ELSE {conflict}) \cup ToSet(conflictQueue)
Unseen(i) == seen[i] < Len(events[i])
OutcomeSeen(i) == \E k \in 1 .. seen[i] : events[i][k].kind \in Terminal

\* Every worker blocked on a conflict is in front of the user exactly once,
\* shown or queued behind the one shown, or its event is on its way; and no
\* prompt outlives the worker that asked (handle_op_event, answer_conflict,
\* dismiss_floating_ui against ask_conflict and the end of worker_thread).
PromptsMatchWorkers ==
  /\ Shown \subseteq conflictTx
  /\ \A i \in conflictTx \ Shown : Unseen(i)
  /\ \A i \in Shown : ~Unseen(i)
  /\ IsInjective(conflictQueue) /\ conflict \notin ToSet(conflictQueue)
  /\ conflict = NoJob => conflictQueue = <<>>

\* The rows and pending_ops follow the events: a row can be paused or
\* cancelled exactly while its operation has started and its outcome has not
\* been handled, and no operation stays in pending_ops beyond its outcome.
UIAgreesWithEngine ==
  /\ pendingOps = {i \in 1 .. nextId - 1 : ~OutcomeSeen(i)}
  /\ \A i \in Ids : RowActive(i) <=> seen[i] > 0 /\ ~OutcomeSeen(i)

\* Once the user stops pausing and leaves no prompt standing, every operation
\* comes to an end the window knows of, whatever is cancelled, fails or is
\* changed in the settings meanwhile.
EveryOpEnds ==
  (<>[]~AnyPaused) /\ ([]<>(conflict = NoJob)) =>
    \A i \in Ids : i \in pendingOps ~> i \notin pendingOps

\* Threads run; parking_lot's mutex is eventually fair, so a thread that asks
\* for it again and again gets it; the UI thread drains the event channel.
SysFairness ==
  /\ \A w \in Worker : SF_sysVars(WorkerRuns(w))
  /\ \A i \in Ids : SF_sysVars(HandleOpEvent(i))

LiveSysSpec == SysSpec /\ SysFairness
=============================================================================
