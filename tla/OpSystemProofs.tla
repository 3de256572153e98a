---------------------------- MODULE OpSystemProofs ----------------------------
(***************************************************************************)
(* What TLAPS proves of the engine, OpQueue, for any number of workers,    *)
(* operations and submissions, and any caps; and of OpSystem: the window   *)
(* and the engine agree, for any number of rows.                           *)
(***************************************************************************)
EXTENDS OpSystem, FiniteSetTheorems, TLAPS

------------------------------------------------------------------------------
(* The engine, OpQueue. *)

(* There is at least one worker. *)
LEMMA WorkersCount == MAX_WORKERS \in Nat \ {0}
  BY OpQueueAssumption, FS_CardinalityType, FS_EmptySet DEF MAX_WORKERS

(* Waking the waiting workers leaves every worker in a known place. *)
LEMMA NotifyAllType ==
  ASSUME NEW p \in [Worker -> Places]
  PROVE  NotifyAll(p) \in [Worker -> Places]
  BY DEF NotifyAll, Places

(* Appending to a sequence over S an element of S. *)
LEMMA AppendType ==
  ASSUME NEW S, NEW s \in Seq(S), NEW e \in S
  PROVE  Append(s, e) \in Seq(S)
  OBVIOUS

(* An event appended to the log of one operation keeps the logs typed. *)
LEMMA SendType ==
  ASSUME TypeOK, NEW i \in Ids, NEW k \in {"started", "conflict"} \cup Terminal,
         NEW u \in BOOLEAN, Send(i, k, u)
  PROVE  events' \in [Ids -> Seq(Events)]
  <1>1. Event(k, u) \in Events
    BY DEF Event, Events
  <1>2. Append(events[i], Event(k, u)) \in Seq(Events)
    BY <1>1, AppendType DEF TypeOK
  <1> QED  BY <1>2 DEF Send, TypeOK

(* The same of the events of the operations dropped from the queue. *)
LEMMA DropGoneType ==
  ASSUME TypeOK, DropGone
  PROVE  /\ opState' \in SUBSET Ids
         /\ flag' \in [Ids -> {"none", "paused", "cancelled"}]
         /\ events' \in [Ids -> Seq(Events)]
  <1>1. Event("cancelled", FALSE) \in Events
    BY DEF Event, Events, Terminal
  <1>2. ASSUME NEW i \in Ids
        PROVE  Append(events[i], Event("cancelled", FALSE)) \in Seq(Events)
    <2>1. events[i] \in Seq(Events)
      BY DEF TypeOK
    <2> QED  BY <1>1, <2>1, AppendType
  <1> QED  BY <1>2 DEF DropGone, TypeOK

(* Going to the next source keeps the types of what it changes. *)
LEMMA NextItemType ==
  ASSUME TypeOK, NEW w \in Worker, NextItem(w)
  PROVE  item' \in [Worker -> Nat] /\ pc' \in [Worker -> Places]
  <1>1. item[w] + 1 \in Nat
    BY DEF TypeOK
  <1>2. item' \in [Worker -> Nat]
    BY <1>1 DEF NextItem, TypeOK
  <1> QED  BY <1>2 DEF NextItem, Goto, TypeOK, Places, Busy

(* What a resolution leads to keeps the types of what it changes. *)
LEMMA DecideType ==
  ASSUME TypeOK, NEW w \in Worker, job[w] \in Ids, NEW r, Decide(w, r)
  PROVE  /\ events' \in [Ids -> Seq(Events)]
         /\ pc' \in [Worker -> Places]
         /\ item' \in [Worker -> Nat]
  <1>1. CASE /\ r = "cancel"
             /\ Send(job[w], "cancelled", FALSE)
             /\ Goto(w, "finish")
             /\ UNCHANGED item
    <2>1. events' \in [Ids -> Seq(Events)]
      BY <1>1, SendType DEF Terminal
    <2> QED  BY <1>1, <2>1 DEF Goto, TypeOK, Places, Busy
  <1>2. CASE r = "skip" /\ NextItem(w) /\ UNCHANGED events
    BY <1>2, NextItemType DEF TypeOK
  <1>3. CASE /\ r \in {"overwrite", "rename"}
             /\ Goto(w, "apply")
             /\ UNCHANGED <<events, item>>
    BY <1>3 DEF Goto, TypeOK, Places, Busy
  <1> QED  BY <1>1, <1>2, <1>3 DEF Decide

------------------------------------------------------------------------------
(* A worker reports the outcome of its operation. *)
Reports(w) ==
  /\ pc[w] \in {"item", "apply", "single"}
  /\ \E k \in Terminal, u \in BOOLEAN : End(w, k, u)

(* The steps that end the work on an operation have this in common. *)
LEMMA ReportCases ==
  ASSUME TypeOK, NEW w \in Worker,
         \/ StopCancelled(w) \/ Fail(w) \/ TransferDone(w) \/ DeleteDone(w)
         \/ SingleDone(w)
  PROVE  Reports(w)
  <1>1. ASSUME StopCancelled(w) \/ Fail(w) \/ DeleteDone(w)
        PROVE  Reports(w)
    BY <1>1 DEF StopCancelled, Fail, DeleteDone, At, Reports, Busy, Terminal
  <1>2. ASSUME TransferDone(w)
        PROVE  Reports(w)
    <2>1. (Work(w).kind = "move" \/ made[w]) \in BOOLEAN
      OBVIOUS
    <2>2. pc[w] \in {"item", "apply", "single"}
      BY <1>2 DEF TransferDone, At, Busy
    <2>3. End(w, "done", Work(w).kind = "move" \/ made[w])
      BY <1>2 DEF TransferDone
    <2> QED  BY <2>1, <2>2, <2>3 DEF Reports, Terminal
  <1>3. ASSUME SingleDone(w)
        PROVE  Reports(w)
    <2>1. (Work(w).kind \in {"rename", "create"}) \in BOOLEAN
      OBVIOUS
    <2>2. pc[w] \in {"item", "apply", "single"}
      BY <1>3 DEF SingleDone, At, Busy
    <2>3. End(w, "done", Work(w).kind \in {"rename", "create"})
      BY <1>3 DEF SingleDone
    <2> QED  BY <2>1, <2>2, <2>3 DEF Reports, Terminal
  <1> QED  BY <1>1, <1>2, <1>3

(* A step of the engine, or one call of its owner that answers several      *)
(* prompts: the window that composes with the engine makes such calls.      *)
Step ==
  \/ Next
  \/ \E S \in SUBSET Ids, r \in Resolutions, all \in BOOLEAN :
       ResolveConflicts(S, r, all)

(* The steps of the engine, one line for each way of changing its state. *)
LEMMA NextCases ==
  ASSUME TypeOK, [Step]_vars
  PROVE  \/ UNCHANGED vars
         \/ \E o \in Operations : Submit(o)
         \/ \E S \in SUBSET Ids :
              \/ SwapFlags(S, "none", "paused") \/ SwapFlags(S, "paused", "none")
              \/ SetCancelled(S)
         \/ \E n \in JobCaps : SetMaxJobs(n)
         \/ \E S \in SUBSET Ids, r \in Resolutions, all \in BOOLEAN :
              ResolveConflicts(S, r, all)
         \/ Drop
         \/ \E w \in Worker :
              \/ Exit(w) \/ Claim(w) \/ Park(w) \/ Wait(w) \/ Begin(w)
              \/ SkipOntoItself(w) \/ NoConflict(w) \/ StickyConflict(w)
              \/ AskConflict(w) \/ Answered(w) \/ Apply(w) \/ DeleteItem(w)
              \/ Reports(w) \/ Finish(w)
  <1>1. CASE \E w \in Worker : WorkerStep(w)
    BY <1>1, ReportCases DEF WorkerStep, Transfer
  <1>2. CASE OwnerStep
    BY <1>2 DEF OwnerStep, Pause, Resume, PauseAll, ResumeAll, Cancel, CancelAll,
                ResolveConflict
  <1> QED  BY <1>1, <1>2 DEF Step, Next

(* A worker that works on an operation has one. *)
HasJob == \A w \in Worker : pc[w] \in Busy => job[w] \in Ids

(* Every step keeps the types, given HasJob (implied by Bookkeeping below). *)
LEMMA TypeStep ==
  ASSUME TypeOK, HasJob, [Step]_vars
  PROVE  TypeOK'
  <1> USE DEF queueVars, ctlVars, ctxVars
  <1>1. CASE UNCHANGED vars
    BY <1>1 DEF vars, TypeOK
  <1>2. ASSUME NEW o \in Operations, Submit(o)
        PROVE  TypeOK'
    BY <1>2, NotifyAllType, OpQueueAssumption DEF Submit, TypeOK, Ids
  <1>3. ASSUME NEW S, NEW from, NEW to \in {"none", "paused"}, SwapFlags(S, from, to)
        PROVE  TypeOK'
    BY <1>3 DEF SwapFlags, TypeOK
  <1>4. ASSUME NEW S, SetCancelled(S)
        PROVE  TypeOK'
    BY <1>4, NotifyAllType DEF SetCancelled, TypeOK
  <1>5. ASSUME NEW n \in JobCaps, SetMaxJobs(n)
        PROVE  TypeOK'
    <2>1. maxJobs' \in 1 .. MAX_WORKERS
      BY <1>5, WorkersCount, OpQueueAssumption DEF SetMaxJobs
    <2> QED  BY <1>5, <2>1, NotifyAllType DEF SetMaxJobs, TypeOK
  <1>6. ASSUME NEW S \in SUBSET Ids, NEW r \in Resolutions, NEW all \in BOOLEAN,
               ResolveConflicts(S, r, all)
        PROVE  TypeOK'
    BY <1>6 DEF ResolveConflicts, TypeOK, Answers
  <1>7. CASE Drop
    BY <1>7, NotifyAllType DEF Drop, TypeOK
  <1>8. ASSUME NEW w \in Worker, Exit(w) \/ Wait(w)
        PROVE  TypeOK'
    BY <1>8 DEF Exit, Wait, TypeOK, Places, Busy
  <1>9. ASSUME NEW w \in Worker, Claim(w)
        PROVE  TypeOK'
    <2>1. DropGone
      BY <1>9 DEF Claim
    <2>2. PICK i \in Fitting : /\ pending' = pending \ (Gone \cup {i})
                               /\ running' = running \cup {i}
                               /\ job' = [job EXCEPT ![w] = i]
      BY <1>9 DEF Claim
    <2>3. i \in Ids
      BY DEF Fitting, TypeOK
    <2> QED  BY <1>9, <2>1, <2>2, <2>3, DropGoneType DEF Claim, TypeOK, Places, Busy
  <1>10. ASSUME NEW w \in Worker, Park(w)
         PROVE  TypeOK'
    BY <1>10, DropGoneType DEF Park, TypeOK, Places, Busy
  <1>11. ASSUME NEW w \in Worker, Begin(w)
         PROVE  TypeOK'
    <2>1. job[w] \in Ids
      BY <1>11 DEF Begin, At, HasJob, Busy
    <2>2. events' \in [Ids -> Seq(Events)]
      BY <1>11, <2>1, SendType DEF Begin
    <2>3. Stage(Work(w)) \in Places
      BY DEF Stage, Places, Busy
    <2> QED  BY <1>11, <2>2, <2>3 DEF Begin, Goto, TypeOK
  <1>12. ASSUME NEW w \in Worker, Reports(w)
         PROVE  TypeOK'
    <2> PICK k \in Terminal, u \in BOOLEAN : End(w, k, u)
      BY <1>12 DEF Reports
    <2>1. job[w] \in Ids
      BY <1>12 DEF HasJob, Reports, Busy
    <2>2. events' \in [Ids -> Seq(Events)]
      BY <2>1, SendType DEF End
    <2> QED  BY <2>2 DEF End, Goto, TypeOK, Places, Busy
  <1>13. ASSUME NEW w \in Worker, SkipOntoItself(w) \/ DeleteItem(w)
         PROVE  TypeOK'
    <2>1. NextItem(w) /\ UNCHANGED <<queueVars, flag, conflictTx, ctlVars, events,
                                     job, sticky, made, answer>>
      BY <1>13 DEF SkipOntoItself, DeleteItem
    <2>2. item' \in [Worker -> Nat] /\ pc' \in [Worker -> Places]
      BY <2>1, NextItemType
    <2> QED  BY <2>1, <2>2 DEF TypeOK
  <1>14. ASSUME NEW w \in Worker, NoConflict(w)
         PROVE  TypeOK'
    BY <1>14 DEF NoConflict, Goto, TypeOK, Places, Busy
  <1>19. ASSUME NEW w \in Worker, Apply(w)
         PROVE  TypeOK'
    <2>1. item' \in [Worker -> Nat] /\ pc' \in [Worker -> Places]
      BY <1>19, NextItemType DEF Apply
    <2> QED  BY <1>19, <2>1 DEF Apply, TypeOK
  <1>15. ASSUME NEW w \in Worker, StickyConflict(w)
         PROVE  TypeOK'
    <2>1. job[w] \in Ids
      BY <1>15 DEF StickyConflict, AtSource, At, HasJob, Busy
    <2> QED  BY <1>15, <2>1, DecideType DEF StickyConflict, TypeOK
  <1>16. ASSUME NEW w \in Worker, AskConflict(w)
         PROVE  TypeOK'
    <2>1. job[w] \in Ids
      BY <1>16 DEF AskConflict, AtSource, At, HasJob, Busy
    <2>2. events' \in [Ids -> Seq(Events)]
      BY <1>16, <2>1, SendType DEF AskConflict
    <2> QED  BY <1>16, <2>1, <2>2 DEF AskConflict, Goto, TypeOK, Places, Busy
  <1>17. ASSUME NEW w \in Worker, Answered(w)
         PROVE  TypeOK'
    <2>1. job[w] \in Ids
      BY <1>17 DEF Answered, At, HasJob, Busy
    <2>2. NoAnswer \in Answers
      BY DEF NoAnswer, Answers
    <2>3. sticky' \in [Worker -> Resolutions \cup {None}]
      BY <1>17 DEF Answered, TypeOK, Answers
    <2> QED  BY <1>17, <2>1, <2>2, <2>3, DecideType DEF Answered, TypeOK
  <1>18. ASSUME NEW w \in Worker, Finish(w)
         PROVE  TypeOK'
    <2>1. NotifyAll(pc) \in [Worker -> Places]
      BY NotifyAllType DEF TypeOK
    <2>2. pc' \in [Worker -> Places]
      BY <1>18, <2>1 DEF Finish, Places
    <2>3. /\ job' \in [Worker -> Ids \cup {NoJob}]
          /\ item' \in [Worker -> Nat]
          /\ sticky' \in [Worker -> Resolutions \cup {None}]
          /\ made' \in [Worker -> BOOLEAN]
      BY <1>18 DEF Finish, TypeOK
    <2>4. flag' \in [Ids -> {"none", "paused", "cancelled"}]
      BY <1>18 DEF Finish, TypeOK
    <2> QED  BY <1>18, <2>2, <2>3, <2>4 DEF Finish, TypeOK
  <1> QED
    BY <1>1, <1>2, <1>3, <1>4, <1>5, <1>6, <1>7, <1>8, <1>9, <1>10, <1>11, <1>12,
       <1>13, <1>14, <1>15, <1>16, <1>17, <1>18, <1>19, NextCases

------------------------------------------------------------------------------
(***************************************************************************)
(* The maps of the engine against its threads.                             *)
(***************************************************************************)

(* Only identifiers that were issued wait or run. *)
Issued == \A i \in pending \cup running : i < nextId

(* Whether a worker is busy does not change. *)
SameBusy == \A w \in Worker : pc'[w] \in Busy <=> pc[w] \in Busy

(* notify_all makes no worker busy or idle. *)
LEMMA NotifyAllBusy ==
  ASSUME TypeOK, pc' = NotifyAll(pc)
  PROVE  SameBusy
  BY DEF NotifyAll, SameBusy, TypeOK, Busy

(* A busy worker that goes on to a busy place stays busy. *)
LEMMA GotoBusy ==
  ASSUME TypeOK, NEW w \in Worker, NEW p \in Busy, pc[w] \in Busy, Goto(w, p)
  PROVE  SameBusy
  BY DEF Goto, SameBusy, TypeOK

(* A step that only moves workers about, between the same two kinds of place. *)
LEMMA QuietBookkeeping ==
  ASSUME Issued, Bookkeeping, SameBusy,
         UNCHANGED <<nextId, pending, running, opState, job>>
  PROVE  Issued' /\ Bookkeeping'
  BY DEF Issued, Bookkeeping, SameBusy

(* Every step keeps the maps and the threads in agreement. *)
LEMMA BookkeepingStep ==
  ASSUME TypeOK, Issued, Bookkeeping, [Step]_vars
  PROVE  Issued' /\ Bookkeeping'
  <1> USE DEF queueVars, ctlVars, ctxVars
  <1>1. CASE UNCHANGED vars
    BY <1>1 DEF vars, Issued, Bookkeeping
  <1>2. ASSUME NEW o \in Operations, Submit(o)
        PROVE  Issued' /\ Bookkeeping'
    <2>1. SameBusy
      BY <1>2, NotifyAllBusy DEF Submit
    <2>2. Issued'
      BY <1>2 DEF Submit, Issued, TypeOK, Ids
    <2>3. nextId \notin running
      BY DEF Issued, TypeOK
    <2> QED  BY <1>2, <2>1, <2>2, <2>3 DEF Submit, Bookkeeping, SameBusy
  <1>3. ASSUME NEW S, NEW from, NEW to, SwapFlags(S, from, to)
        PROVE  Issued' /\ Bookkeeping'
    BY <1>3 DEF SwapFlags, Issued, Bookkeeping
  <1>4. ASSUME \/ \E S \in SUBSET Ids : SetCancelled(S)
               \/ \E n \in JobCaps : SetMaxJobs(n)
               \/ Drop
        PROVE  Issued' /\ Bookkeeping'
    <2>1. pc' = NotifyAll(pc) /\ UNCHANGED <<queueVars, job>>
      BY <1>4 DEF SetCancelled, SetMaxJobs, Drop
    <2> QED  BY <2>1, NotifyAllBusy, QuietBookkeeping
  <1>5. ASSUME NEW S, NEW r, NEW all, ResolveConflicts(S, r, all)
        PROVE  Issued' /\ Bookkeeping'
    BY <1>5 DEF ResolveConflicts, Issued, Bookkeeping
  <1>6. ASSUME NEW w \in Worker, Exit(w) \/ Wait(w)
        PROVE  Issued' /\ Bookkeeping'
    <2>1. SameBusy
      BY <1>6 DEF Exit, Wait, SameBusy, TypeOK, Busy
    <2> QED  BY <1>6, <2>1, QuietBookkeeping DEF Exit, Wait
  <1>7. ASSUME NEW w \in Worker, Claim(w)
        PROVE  Issued' /\ Bookkeeping'
    <2>1. PICK i \in Fitting : /\ pending' = pending \ (Gone \cup {i})
                               /\ running' = running \cup {i}
                               /\ job' = [job EXCEPT ![w] = i]
      BY <1>7 DEF Claim
    <2>2. /\ opState' = opState \ Gone
          /\ pc' = [pc EXCEPT ![w] = "claimed"]
          /\ UNCHANGED nextId
      BY <1>7 DEF Claim, DropGone
    <2>3. i \in pending /\ i \notin Gone /\ Gone \subseteq pending /\ i \in Ids
      BY DEF Fitting, Gone, TypeOK
    <2>4. Issued'
      BY <2>1, <2>2, <2>3 DEF Issued
    <2>5. i \notin running /\ \A v \in Worker : job[v] # i
      <3>1. i \notin running
        BY <2>3 DEF Bookkeeping
      <3>2. i # NoJob
        BY <2>3 DEF NoJob, Ids
      <3> QED  BY <3>1, <3>2 DEF Bookkeeping
    <2>6. job[w] = NoJob
      BY <1>7 DEF Claim, Bookkeeping, Busy
    <2>7. (pending \cap running = {} /\ opState = pending \cup running)'
      BY <2>1, <2>2, <2>3 DEF Bookkeeping
    <2>8. (\A v \in Worker : IF pc[v] \in Busy THEN job[v] \in running
                             ELSE job[v] = NoJob)'
      BY <2>1, <2>2 DEF Bookkeeping, TypeOK, Busy
    <2>9. (\A j \in running : \E v \in Worker : job[v] = j)'
      <3>1. \A j \in running : \E v \in Worker : job'[v] = j
        <4> SUFFICES ASSUME NEW j \in running PROVE \E v \in Worker : job'[v] = j
          OBVIOUS
        <4>1. PICK v \in Worker : job[v] = j
          BY DEF Bookkeeping
        <4>2. v # w
          BY <4>1, <2>6 DEF NoJob, Ids, TypeOK
        <4> QED  BY <4>1, <4>2, <2>1 DEF TypeOK
      <3>2. job'[w] = i
        BY <2>1 DEF TypeOK
      <3> QED  BY <3>1, <3>2, <2>1
    <2>10. (\A u, v \in Worker : job[u] = job[v] /\ job[u] # NoJob => u = v)'
      BY <2>1, <2>5 DEF Bookkeeping, TypeOK
    <2> QED  BY <2>4, <2>7, <2>8, <2>9, <2>10 DEF Bookkeeping
  <1>8. ASSUME NEW w \in Worker, Park(w)
        PROVE  Issued' /\ Bookkeeping'
    <2>1. /\ pending' = pending \ Gone /\ opState' = opState \ Gone
          /\ UNCHANGED <<nextId, running, job>>
          /\ Gone \subseteq pending
      BY <1>8 DEF Park, DropGone, Gone
    <2>2. SameBusy
      BY <1>8 DEF Park, SameBusy, TypeOK, Busy
    <2> QED  BY <2>1, <2>2 DEF Issued, Bookkeeping, SameBusy
  <1>9. ASSUME NEW w \in Worker,
               \/ Begin(w) \/ SkipOntoItself(w) \/ NoConflict(w)
               \/ StickyConflict(w) \/ AskConflict(w) \/ Answered(w)
               \/ Apply(w) \/ DeleteItem(w) \/ Reports(w)
        PROVE  Issued' /\ Bookkeeping'
    <2>1. pc[w] \in Busy /\ UNCHANGED <<queueVars, job>>
      BY <1>9 DEF Begin, SkipOntoItself, NoConflict, StickyConflict, AskConflict,
                  AtSource, Answered, Apply, DeleteItem, Reports, End, At, Busy
    <2>2. \E p \in Busy : Goto(w, p)
      BY <1>9 DEF Begin, Stage, SkipOntoItself, NoConflict, StickyConflict,
                  AskConflict, Answered, Decide, Apply, DeleteItem, NextItem,
                  Reports, End, Busy
    <2> QED  BY <2>1, <2>2, GotoBusy, QuietBookkeeping
  <1>10. ASSUME NEW w \in Worker, Finish(w)
         PROVE  Issued' /\ Bookkeeping'
    <2>1. /\ running' = running \ {job[w]} /\ opState' = opState \ {job[w]}
          /\ job' = [job EXCEPT ![w] = NoJob]
          /\ pc' = [NotifyAll(pc) EXCEPT ![w] = "scan"]
          /\ UNCHANGED <<nextId, pending>>
      BY <1>10 DEF Finish
    <2>2. pc[w] \in Busy
      BY <1>10 DEF Finish, At, Busy
    <2>3. job[w] \in running /\ job[w] # NoJob
      BY <2>2 DEF Bookkeeping, TypeOK, NoJob, Ids
    <2>4. Issued'
      BY <2>1 DEF Issued
    <2>5. (pending \cap running = {} /\ opState = pending \cup running)'
      BY <2>1, <2>3 DEF Bookkeeping
    <2>6. \A v \in Worker : v # w => (pc'[v] \in Busy <=> pc[v] \in Busy)
      BY <2>1 DEF NotifyAll, TypeOK, Busy
    <2>7. pc'[w] \notin Busy
      BY <2>1 DEF NotifyAll, TypeOK, Busy
    <2>8. (\A v \in Worker : IF pc[v] \in Busy THEN job[v] \in running
                             ELSE job[v] = NoJob)'
      BY <2>1, <2>3, <2>6, <2>7 DEF Bookkeeping, TypeOK
    <2>9. (\A j \in running : \E v \in Worker : job[v] = j)'
      BY <2>1 DEF Bookkeeping, TypeOK
    <2>10. (\A u, v \in Worker : job[u] = job[v] /\ job[u] # NoJob => u = v)'
      BY <2>1 DEF Bookkeeping, TypeOK
    <2> QED  BY <2>4, <2>5, <2>8, <2>9, <2>10 DEF Bookkeeping
  <1> QED
    BY <1>1, <1>2, <1>3, <1>4, <1>5, <1>6, <1>7, <1>8, <1>9, <1>10, NextCases

------------------------------------------------------------------------------
(***************************************************************************)
(* Operations that run together do not overlap.                            *)
(***************************************************************************)

(* Two operations clash whichever is named first. *)
LEMMA ClashingSymmetric ==
  ASSUME NEW ps, NEW qs
  PROVE  Clashing(ps, qs) <=> Clashing(qs, ps)
  BY DEF Clashing, PathsOverlap

(* Every step keeps clashing operations apart. *)
LEMMA ExclusiveStep ==
  ASSUME TypeOK, Issued, Exclusive, [Step]_vars
  PROVE  Exclusive'
  <1> USE DEF queueVars, ctlVars, ctxVars
  <1>1. ASSUME NEW o \in Operations, Submit(o)
        PROVE  Exclusive'
    <2>1. \A i \in running : op'[i] = op[i]
      BY <1>1 DEF Submit, Issued, TypeOK, Ids
    <2> QED  BY <1>1, <2>1 DEF Submit, Exclusive
  <1>2. ASSUME NEW w \in Worker, Claim(w)
        PROVE  Exclusive'
    <2>1. PICK i \in Fitting : running' = running \cup {i}
      BY <1>2 DEF Claim
    <2>2. \A r \in running : ~Clashing(TouchPaths(op[r]), TouchPaths(op[i]))
      BY DEF Fitting, RunningOverlap
    <2>3. \A r \in running : ~Clashing(TouchPaths(op[i]), TouchPaths(op[r]))
      BY <2>2, ClashingSymmetric
    <2>4. op' = op
      BY <1>2 DEF Claim
    <2> QED  BY <2>1, <2>2, <2>3, <2>4 DEF Exclusive
  <1>3. ASSUME UNCHANGED op, running' \subseteq running
        PROVE  Exclusive'
    BY <1>3 DEF Exclusive
  <1>4. ASSUME NEW w \in Worker, Finish(w)
        PROVE  UNCHANGED op /\ running' \subseteq running
    BY <1>4 DEF Finish
  <1>5. ASSUME NEW w \in Worker,
               \/ Exit(w) \/ Park(w) \/ Wait(w) \/ Begin(w) \/ SkipOntoItself(w)
               \/ NoConflict(w) \/ StickyConflict(w) \/ AskConflict(w)
               \/ Answered(w) \/ Apply(w) \/ DeleteItem(w) \/ Reports(w)
        PROVE  UNCHANGED op /\ running' \subseteq running
    BY <1>5 DEF Exit, Park, Wait, Begin, SkipOntoItself, NoConflict,
                StickyConflict, AskConflict, Answered, Apply, DeleteItem,
                Reports, End
  <1>6. ASSUME \/ UNCHANGED vars \/ Drop
               \/ \E n \in JobCaps : SetMaxJobs(n)
               \/ \E S \in SUBSET Ids, r \in Resolutions, all \in BOOLEAN :
                    ResolveConflicts(S, r, all)
               \/ \E S \in SUBSET Ids :
                    \/ SwapFlags(S, "none", "paused")
                    \/ SwapFlags(S, "paused", "none")
                    \/ SetCancelled(S)
        PROVE  UNCHANGED op /\ running' \subseteq running
    BY <1>6 DEF vars, Drop, SetMaxJobs, ResolveConflicts,
                SwapFlags, SetCancelled
  <1> QED  BY <1>1, <1>2, <1>3, <1>4, <1>5, <1>6, NextCases

------------------------------------------------------------------------------
(***************************************************************************)
(* Prompts: who can be answered is who waits for an answer.                *)
(***************************************************************************)

(* An answer only ever waits for a worker that asked. *)
AnswersAwaited == \A w \in Worker : answer[w] # NoAnswer => pc[w] = "asking"

(* Nobody starts or stops asking, and no prompt or answer changes. *)
LEMMA QuietPrompts ==
  ASSUME PromptsOpen, AnswersAwaited,
         \A w \in Worker : pc'[w] = "asking" <=> pc[w] = "asking",
         \A w \in Worker : pc[w] = "asking" => job'[w] = job[w],
         UNCHANGED <<conflictTx, answer>>
  PROVE  PromptsOpen' /\ AnswersAwaited'
  BY DEF PromptsOpen, AnswersAwaited

(* Every step keeps prompts published just while they are waited for. *)
LEMMA PromptsStep ==
  ASSUME TypeOK, Bookkeeping, PromptsOpen, AnswersAwaited, [Step]_vars
  PROVE  PromptsOpen' /\ AnswersAwaited'
  <1> USE DEF queueVars, ctlVars, ctxVars
  <1>1. ASSUME \/ UNCHANGED vars
               \/ \E S \in SUBSET Ids :
                    \/ SwapFlags(S, "none", "paused")
                    \/ SwapFlags(S, "paused", "none")
        PROVE  PromptsOpen' /\ AnswersAwaited'
    BY <1>1 DEF vars, SwapFlags, PromptsOpen, AnswersAwaited
  <1>2. ASSUME \/ \E o \in Operations : Submit(o)
               \/ \E S \in SUBSET Ids : SetCancelled(S)
               \/ \E n \in JobCaps : SetMaxJobs(n)
               \/ Drop
        PROVE  PromptsOpen' /\ AnswersAwaited'
    <2>1. pc' = NotifyAll(pc) /\ UNCHANGED <<conflictTx, answer, job>>
      BY <1>2 DEF Submit, SetCancelled, SetMaxJobs, Drop
    <2>2. \A w \in Worker : pc'[w] = "asking" <=> pc[w] = "asking"
      BY <2>1 DEF NotifyAll
    <2> QED  BY <2>1, <2>2, QuietPrompts
  <1>3. ASSUME NEW S \in SUBSET Ids, NEW r \in Resolutions, NEW all \in BOOLEAN,
               ResolveConflicts(S, r, all)
        PROVE  PromptsOpen' /\ AnswersAwaited'
    <2>1. /\ conflictTx' = conflictTx \ S /\ UNCHANGED <<pc, job>>
          /\ answer' = [w \in Worker |-> IF job[w] \in S \cap conflictTx
                                         THEN [res |-> r, all |-> all]
                                         ELSE answer[w]]
      BY <1>3 DEF ResolveConflicts
    <2>2. [res |-> r, all |-> all] # NoAnswer
      BY DEF NoAnswer, Resolutions, None
    <2>3. ASSUME NEW w \in Worker, job[w] \in conflictTx
          PROVE  pc[w] = "asking"
      <3>1. PICK v \in Worker : job[v] = job[w] /\ pc[v] = "asking"
        BY <2>3 DEF PromptsOpen
      <3>2. job[w] # NoJob
        BY <2>3 DEF TypeOK, NoJob, Ids
      <3> QED  BY <3>1, <3>2 DEF Bookkeeping
    <2>4. AnswersAwaited'
      BY <2>1, <2>3 DEF AnswersAwaited
    <2>5. \A w \in Worker : pc[w] = "asking" /\ answer'[w] = NoAnswer
                              <=> pc[w] = "asking" /\ answer[w] = NoAnswer
                                  /\ job[w] \notin S
      BY <2>1, <2>2 DEF PromptsOpen
    <2>6. PromptsOpen'
      BY <2>1, <2>5 DEF PromptsOpen
    <2> QED  BY <2>4, <2>6
  <1>4. ASSUME NEW w \in Worker,
               \/ Exit(w) \/ Park(w) \/ Wait(w) \/ Begin(w) \/ SkipOntoItself(w)
               \/ NoConflict(w) \/ StickyConflict(w) \/ Apply(w)
               \/ DeleteItem(w) \/ (Reports(w) /\ pc[w] # "asking")
        PROVE  PromptsOpen' /\ AnswersAwaited'
    <2>1. pc[w] # "asking" /\ UNCHANGED <<conflictTx, answer, job>>
      BY <1>4 DEF Exit, Park, Wait, Begin, SkipOntoItself, NoConflict,
                  StickyConflict, AtSource, At, Apply, DeleteItem, Reports, End
    <2>2. \E p : p # "asking" /\ pc' = [pc EXCEPT ![w] = p]
      BY <1>4 DEF Exit, Park, Wait, Begin, Stage, SkipOntoItself, NoConflict,
                  StickyConflict, Decide, NextItem, Goto, Apply, DeleteItem,
                  Reports, End
    <2>3. \A v \in Worker : pc'[v] = "asking" <=> pc[v] = "asking"
      BY <2>1, <2>2 DEF TypeOK
    <2> QED  BY <2>1, <2>3, QuietPrompts
  <1>5. ASSUME NEW w \in Worker, Claim(w)
        PROVE  PromptsOpen' /\ AnswersAwaited'
    <2>1. /\ pc[w] = "scan" /\ pc' = [pc EXCEPT ![w] = "claimed"]
          /\ \E i : job' = [job EXCEPT ![w] = i]
          /\ UNCHANGED <<conflictTx, answer>>
      BY <1>5 DEF Claim
    <2> QED  BY <2>1, QuietPrompts DEF TypeOK
  <1>6. ASSUME NEW w \in Worker, AskConflict(w)
        PROVE  PromptsOpen' /\ AnswersAwaited'
    <2>1. /\ pc[w] = "item" /\ pc' = [pc EXCEPT ![w] = "asking"]
          /\ conflictTx' = conflictTx \cup {job[w]}
          /\ UNCHANGED <<job, answer>>
      BY <1>6 DEF AskConflict, AtSource, At, Goto
    <2>2. answer[w] = NoAnswer
      BY <2>1 DEF AnswersAwaited
    <2>3. \A v \in Worker : pc'[v] = "asking" <=> pc[v] = "asking" \/ v = w
      BY <2>1 DEF TypeOK
    <2> QED  BY <2>1, <2>2, <2>3 DEF PromptsOpen, AnswersAwaited
  <1>7. ASSUME NEW w \in Worker, Answered(w)
        PROVE  PromptsOpen' /\ AnswersAwaited'
    <2>1. /\ pc[w] = "asking" /\ answer[w] # NoAnswer
          /\ answer' = [answer EXCEPT ![w] = NoAnswer]
          /\ UNCHANGED <<conflictTx, job>>
      BY <1>7 DEF Answered, At
    <2>2. \E p : p # "asking" /\ pc' = [pc EXCEPT ![w] = p]
      BY <1>7 DEF Answered, Decide, NextItem, Goto
    <2>3. \A v \in Worker : pc'[v] = "asking" <=> pc[v] = "asking" /\ v # w
      BY <2>1, <2>2 DEF TypeOK
    <2>4. \A v \in Worker : v # w => answer'[v] = answer[v]
      BY <2>1 DEF TypeOK
    <2>5. answer'[w] = NoAnswer
      BY <2>1 DEF TypeOK
    <2>6. {v \in Worker : pc'[v] = "asking" /\ answer'[v] = NoAnswer}
          = {v \in Worker : pc[v] = "asking" /\ answer[v] = NoAnswer}
      BY <2>1, <2>3, <2>4
    <2>7. PromptsOpen'
      BY <2>1, <2>6 DEF PromptsOpen
    <2>8. AnswersAwaited'
      BY <2>3, <2>4, <2>5 DEF AnswersAwaited
    <2> QED  BY <2>7, <2>8
  <1>8. ASSUME NEW w \in Worker, Finish(w)
        PROVE  PromptsOpen' /\ AnswersAwaited'
    <2>1. /\ pc[w] = "finish" /\ pc' = [NotifyAll(pc) EXCEPT ![w] = "scan"]
          /\ conflictTx' = conflictTx \ {job[w]}
          /\ job' = [job EXCEPT ![w] = NoJob]
          /\ UNCHANGED answer
      BY <1>8 DEF Finish, At
    <2>2. job[w] \notin conflictTx
      BY <2>1 DEF PromptsOpen, Bookkeeping, Busy, TypeOK, NoJob, Ids
    <2>3. \A v \in Worker : pc'[v] = "asking" <=> pc[v] = "asking"
      BY <2>1 DEF NotifyAll, TypeOK
    <2>4. \A v \in Worker : pc[v] = "asking" => job'[v] = job[v]
      BY <2>1 DEF TypeOK
    <2> QED  BY <2>1, <2>2, <2>3, <2>4, QuietPrompts
  <1>9. ASSUME NEW w \in Worker, Reports(w)
        PROVE  pc[w] # "asking"
    BY <1>9 DEF Reports
  <1> QED
    BY <1>1, <1>2, <1>3, <1>4, <1>5, <1>6, <1>7, <1>8, <1>9, NextCases

------------------------------------------------------------------------------
(***************************************************************************)
(* The flag of an operation the engine does not track is the initial one.  *)
(***************************************************************************)
FlagsFresh == \A i \in Ids \ opState : flag[i] = "none"

(* Every step keeps the flags of untracked operations as they were at first. *)
LEMMA FlagsStep ==
  ASSUME TypeOK, Bookkeeping, FlagsFresh, [Step]_vars
  PROVE  FlagsFresh'
  <1> USE DEF queueVars, ctlVars, ctxVars
  <1>1. ASSUME opState \subseteq opState', UNCHANGED flag
        PROVE  FlagsFresh'
    BY <1>1 DEF FlagsFresh
  <1>2. ASSUME \/ UNCHANGED vars \/ Drop
               \/ \E o \in Operations : Submit(o)
               \/ \E n \in JobCaps : SetMaxJobs(n)
               \/ \E S \in SUBSET Ids, r \in Resolutions, all \in BOOLEAN :
                    ResolveConflicts(S, r, all)
        PROVE  opState \subseteq opState' /\ UNCHANGED flag
    BY <1>2 DEF vars, Drop, Submit, SetMaxJobs, ResolveConflicts
  <1>3. ASSUME NEW w \in Worker,
               \/ Exit(w) \/ Wait(w) \/ Begin(w) \/ SkipOntoItself(w)
               \/ NoConflict(w) \/ StickyConflict(w) \/ AskConflict(w)
               \/ Answered(w) \/ Apply(w) \/ DeleteItem(w) \/ Reports(w)
        PROVE  opState \subseteq opState' /\ UNCHANGED flag
    BY <1>3 DEF Exit, Wait, Begin, SkipOntoItself, NoConflict, StickyConflict,
                AskConflict, Answered, Apply, DeleteItem, Reports, End
  <1>4. ASSUME NEW S \in SUBSET Ids,
               \/ SwapFlags(S, "none", "paused") \/ SwapFlags(S, "paused", "none")
               \/ SetCancelled(S)
        PROVE  FlagsFresh'
    BY <1>4 DEF SwapFlags, SetCancelled, FlagsFresh
  <1>5. ASSUME NEW w \in Worker, Claim(w) \/ Park(w)
        PROVE  FlagsFresh'
    BY <1>5 DEF Claim, Park, DropGone, FlagsFresh
  <1>6. ASSUME NEW w \in Worker, Finish(w)
        PROVE  FlagsFresh'
    BY <1>6 DEF Finish, FlagsFresh, TypeOK
  <1> QED  BY <1>1, <1>2, <1>3, <1>4, <1>5, <1>6, NextCases

------------------------------------------------------------------------------
(***************************************************************************)
(* What is reported about an operation.                                    *)
(***************************************************************************)

(* One log read by itself: a start first, an outcome last, and a start left *)
(* out only by the report of an operation dropped from the queue.           *)
LoneCancel == Event("cancelled", FALSE)
InOrder(l) ==
  \A k \in DOMAIN l :
    /\ l[k].kind \in Terminal => k = Len(l)
    /\ l[k].kind = "started" <=> k = 1 /\ l # <<LoneCancel>>

(* The log against the threads: empty until a worker reports the start, and *)
(* with an outcome exactly when nobody may act on the operation any more.   *)
LogFits(i) ==
  /\ InOrder(events[i])
  /\ i >= nextId => events[i] = <<>>
  /\ i \in pending => events[i] = <<>>
  /\ \A w \in Worker : job[w] = i => (pc[w] = "claimed" <=> events[i] = <<>>)
  /\ Ended(events[i]) <=> i < nextId /\ ~Active(i)

Logs == \A i \in Ids : LogFits(i)

(* A worker that waits for an answer has reported the conflict last. *)
AskedLast ==
  \A w \in Worker : pc[w] = "asking" =>
    /\ events[job[w]] # <<>>
    /\ events[job[w]][Len(events[job[w]])].kind = "conflict"

(* An empty log is in order and does not end an operation. *)
LEMMA EmptyLog == InOrder(<<>>) /\ ~Ended(<<>>)
  BY DEF InOrder, Ended

(* A log without an outcome may be appended to: a start or the lone report  *)
(* of a drop when it is empty, anything but a start when it is not.         *)
LEMMA AppendInOrder ==
  ASSUME NEW l \in Seq(Events), NEW e \in Events, InOrder(l), ~Ended(l),
         IF l = <<>> THEN e.kind = "started" \/ e = LoneCancel
         ELSE e.kind # "started"
  PROVE  /\ InOrder(Append(l, e))
         /\ Ended(Append(l, e)) <=> e.kind \in Terminal
         /\ Append(l, e) # <<>>
         /\ Append(l, e)[Len(Append(l, e))] = e
  <1> DEFINE m == Append(l, e)
  <1>1. /\ Len(m) = Len(l) + 1 /\ DOMAIN m = 1 .. Len(l) + 1
        /\ DOMAIN l = 1 .. Len(l) /\ Len(l) \in Nat
        /\ m[Len(l) + 1] = e
        /\ \A k \in DOMAIN l : m[k] = l[k]
    OBVIOUS
  <1>2. \A k \in DOMAIN l : l[k].kind \notin Terminal
    BY DEF Ended
  <1>3. Ended(m) <=> e.kind \in Terminal
    BY <1>1, <1>2 DEF Ended
  <1>4. CASE l = <<>>
    <2>1. Len(l) = 0 /\ m = <<e>>
      BY <1>4
    <2>2. e.kind = "started" => e # LoneCancel
      BY DEF LoneCancel, Event
    <2>3. m[1] = e /\ DOMAIN m = {1} /\ Len(m) = 1
      BY <1>1, <2>1
    <2>4. m = <<LoneCancel>> <=> e = LoneCancel
      BY <2>1, <2>3
    <2>5. e = LoneCancel => e.kind # "started"
      BY DEF LoneCancel, Event
    <2>6. InOrder(m)
      BY <1>4, <2>2, <2>3, <2>4, <2>5 DEF InOrder
    <2> QED  BY <1>1, <1>3, <2>6
  <1>5. CASE l # <<>>
    <2>1. Len(l) >= 1
      BY <1>5, <1>1
    <2>2. m # <<LoneCancel>>
      <3>1. Len(m) >= 2
        BY <1>1, <2>1
      <3>2. Len(<<LoneCancel>>) = 1
        OBVIOUS
      <3> QED  BY <3>1, <3>2
    <2>3. l # <<LoneCancel>>
      <3>1. LoneCancel.kind \in Terminal
        BY DEF LoneCancel, Event, Terminal
      <3>2. l = <<LoneCancel>> => 1 \in DOMAIN l /\ l[1] = LoneCancel
        OBVIOUS
      <3> QED  BY <3>1, <3>2, <1>2
    <2>4. ASSUME NEW k \in DOMAIN l
          PROVE  /\ m[k].kind \notin Terminal
                 /\ m[k].kind = "started" <=> k = 1
      BY <1>1, <1>2, <2>3 DEF InOrder
    <2>5. InOrder(m)
      BY <1>1, <1>5, <2>1, <2>2, <2>4 DEF InOrder
    <2> QED  BY <1>1, <1>3, <2>5
  <1> QED  BY <1>4, <1>5

(* Nothing is reported and nobody takes up or lets go of an operation. *)
LEMMA QuietLogs ==
  ASSUME TypeOK, Logs, AskedLast, UNCHANGED <<nextId, pending, job, events>>,
         \A w \in Worker : job[w] # NoJob =>
           /\ pc'[w] = "claimed" <=> pc[w] = "claimed"
           /\ pc'[w] = "finish" <=> pc[w] = "finish",
         \A w \in Worker : pc'[w] = "asking" => pc[w] = "asking"
  PROVE  Logs' /\ AskedLast'
  <1>1. AskedLast'
    BY DEF AskedLast
  <1>2. ASSUME NEW i \in Ids
        PROVE  LogFits(i)'
    <2>1. i # NoJob
      BY DEF Ids, NoJob
    <2>2. Active(i)' <=> Active(i)
      BY <2>1 DEF Active
    <2> QED  BY <2>1, <2>2 DEF Logs, LogFits
  <1> QED  BY <1>1, <1>2 DEF Logs

(* A worker reports one event and goes to another place. *)
LEMMA ReportLogs ==
  ASSUME TypeOK, Issued, Bookkeeping, Logs, AskedLast,
         NEW w \in Worker, NEW e \in Events, NEW p \in Busy \ {"claimed"},
         pc[w] \in Busy \ {"finish"},
         pc[w] = "claimed" <=> e.kind = "started",
         p = "finish" <=> e.kind \in Terminal,
         p = "asking" => e.kind = "conflict",
         events' = [events EXCEPT ![job[w]] = Append(@, e)],
         pc' = [pc EXCEPT ![w] = p],
         UNCHANGED <<nextId, pending, job>>
  PROVE  Logs' /\ AskedLast'
  <1> PICK i \in Ids : i = job[w]
    BY DEF Bookkeeping, TypeOK
  <1>1. /\ i \in running /\ i \notin pending /\ i < nextId /\ i # NoJob
        /\ \A v \in Worker : job[v] = i => v = w
    BY DEF Bookkeeping, Issued, Ids, NoJob
  <1>2. Active(i) /\ (Active(i)' <=> p # "finish")
    BY <1>1 DEF Active, TypeOK
  <1>3. /\ InOrder(events[i]) /\ ~Ended(events[i])
        /\ events[i] = <<>> <=> pc[w] = "claimed"
        /\ events[i] \in Seq(Events)
    BY <1>2 DEF Logs, LogFits, TypeOK
  <1>4. /\ InOrder(events'[i])
        /\ Ended(events'[i]) <=> e.kind \in Terminal
        /\ events'[i] # <<>>
        /\ events'[i][Len(events'[i])] = e
    BY <1>3, AppendInOrder DEF TypeOK
  <1>5. LogFits(i)'
    <2>1. ~(i >= nextId')
      BY <1>1, OpQueueAssumption DEF TypeOK, Ids
    <2>2. \A v \in Worker : job'[v] = i => v = w /\ pc'[v] # "claimed"
      BY <1>1 DEF TypeOK
    <2> QED  BY <1>1, <1>2, <1>4, <2>1, <2>2 DEF LogFits
  <1>6. ASSUME NEW j \in Ids, j # i
        PROVE  LogFits(j)'
    <2>1. events'[j] = events[j]
      BY <1>6 DEF TypeOK
    <2>2. \A v \in Worker : job[v] = j => v # w /\ pc'[v] = pc[v]
      BY <1>6 DEF TypeOK
    <2>3. Active(j)' <=> Active(j)
      BY <2>2 DEF Active
    <2> QED  BY <2>1, <2>2, <2>3 DEF Logs, LogFits
  <1>7. AskedLast'
    <2> SUFFICES ASSUME NEW v \in Worker, pc'[v] = "asking"
                 PROVE  /\ events'[job[v]] # <<>>
                        /\ events'[job[v]][Len(events'[job[v]])].kind = "conflict"
      BY DEF AskedLast
    <2>1. CASE v = w
      BY <2>1, <1>4 DEF TypeOK
    <2>2. CASE v # w
      <3>1. pc[v] = "asking" /\ job[v] # i /\ job[v] \in Ids
        BY <2>2, <1>1 DEF TypeOK, Bookkeeping, Busy
      <3>2. events'[job[v]] = events[job[v]]
        BY <3>1 DEF TypeOK
      <3> QED  BY <3>1, <3>2 DEF AskedLast
    <2> QED  BY <2>1, <2>2
  <1> QED  BY <1>5, <1>6, <1>7 DEF Logs

(* The operations dropped from the queue are reported cancelled. *)
LEMMA DropLogs ==
  ASSUME TypeOK, Issued, Bookkeeping, Logs, DropGone, NEW j \in Gone,
         UNCHANGED nextId, j \notin pending',
         \A w \in Worker : job'[w] # j
  PROVE  LogFits(j)'
  <1>1. j \in pending /\ j \in Ids /\ j < nextId
    BY DEF Gone, TypeOK, Issued
  <1>2. events[j] = <<>> /\ events'[j] = Append(events[j], LoneCancel)
    BY <1>1 DEF Logs, LogFits, DropGone, LoneCancel
  <1>3. LoneCancel \in Events /\ LoneCancel.kind \in Terminal
    BY DEF LoneCancel, Event, Events, Terminal
  <1>4. InOrder(events'[j]) /\ Ended(events'[j])
    <2>1. <<>> \in Seq(Events)
      OBVIOUS
    <2> QED  BY <2>1, <1>2, <1>3, EmptyLog, AppendInOrder
  <1>5. ~Active(j)'
    BY DEF Active
  <1>6. nextId \in Nat /\ j \in Nat
    BY <1>1, OpQueueAssumption DEF TypeOK, Ids
  <1>7. ~(j >= nextId')
    BY <1>1, <1>6
  <1> QED  BY <1>1, <1>4, <1>5, <1>7 DEF LogFits

(* Every step keeps each operation's events in order. *)
LEMMA LogsStep ==
  ASSUME TypeOK, Issued, Bookkeeping, AnswersAwaited, Logs, AskedLast, [Step]_vars
  PROVE  Logs' /\ AskedLast'
  <1> USE DEF queueVars, ctlVars, ctxVars
  <1>1. ASSUME \/ UNCHANGED vars
               \/ \E S \in SUBSET Ids :
                    \/ SwapFlags(S, "none", "paused")
                    \/ SwapFlags(S, "paused", "none")
               \/ \E S \in SUBSET Ids, r \in Resolutions, all \in BOOLEAN :
                    ResolveConflicts(S, r, all)
        PROVE  Logs' /\ AskedLast'
    <2>1. UNCHANGED <<nextId, pending, job, events, pc>>
      BY <1>1 DEF vars, SwapFlags, ResolveConflicts
    <2> QED  BY <2>1, QuietLogs
  <1>2. ASSUME \/ \E S \in SUBSET Ids : SetCancelled(S)
               \/ \E n \in JobCaps : SetMaxJobs(n)
               \/ Drop
        PROVE  Logs' /\ AskedLast'
    <2>1. pc' = NotifyAll(pc) /\ UNCHANGED <<nextId, pending, job, events>>
      BY <1>2 DEF SetCancelled, SetMaxJobs, Drop
    <2>2. \A w \in Worker : \A p \in Busy : pc'[w] = p <=> pc[w] = p
      BY <2>1 DEF NotifyAll, Busy
    <2> QED  BY <2>1, <2>2, QuietLogs DEF Busy
  <1>3. ASSUME NEW o \in Operations, Submit(o)
        PROVE  Logs' /\ AskedLast'
    <2> PICK n \in Ids : n = nextId
      BY <1>3 DEF Submit
    <2>1. /\ nextId' = n + 1 /\ pending' = pending \cup {n}
          /\ pc' = NotifyAll(pc) /\ UNCHANGED <<job, events>>
      BY <1>3 DEF Submit
    <2>2. \A w \in Worker : \A p \in Busy : pc'[w] = p <=> pc[w] = p
      BY <2>1 DEF NotifyAll, Busy
    <2>3. AskedLast'
      BY <2>1, <2>2 DEF AskedLast, Busy
    <2>4. n \in Nat /\ n >= nextId
      BY OpQueueAssumption DEF Ids
    <2>5. events[n] = <<>>
      BY <2>4 DEF Logs, LogFits
    <2>6. n \notin running /\ \A w \in Worker : job[w] # n
      <3>1. n \notin running /\ n # NoJob
        BY <2>4 DEF Issued, NoJob, Ids
      <3> QED  BY <3>1 DEF Bookkeeping
    <2>7. LogFits(n)'
      BY <2>1, <2>4, <2>5, <2>6, EmptyLog DEF LogFits, Active
    <2>8. ASSUME NEW i \in Ids, i # n
          PROVE  LogFits(i)'
      <3>1. i \in Nat /\ (i < nextId' <=> i < nextId) /\ (i >= nextId' => i >= nextId)
        BY <2>1, <2>4, <2>8 DEF Ids
      <3>2. i # NoJob
        BY DEF Ids, NoJob
      <3>3. Active(i)' <=> Active(i)
        BY <2>1, <2>2, <2>8 DEF Active, Busy
      <3>4. \A w \in Worker : pc'[w] = "claimed" <=> pc[w] = "claimed"
        BY <2>2 DEF Busy
      <3> QED  BY <2>1, <2>8, <3>1, <3>3, <3>4 DEF Logs, LogFits
    <2> QED  BY <2>3, <2>7, <2>8 DEF Logs
  <1>4. ASSUME NEW w \in Worker,
               \/ Exit(w) \/ Wait(w) \/ SkipOntoItself(w) \/ NoConflict(w)
               \/ Apply(w) \/ DeleteItem(w)
        PROVE  Logs' /\ AskedLast'
    <2>1. /\ pc[w] \in {"scan", "parking", "item", "apply"}
          /\ UNCHANGED <<nextId, pending, job, events>>
          /\ \E p \in {"exited", "waiting", "item", "apply"} : pc' = [pc EXCEPT ![w] = p]
      BY <1>4 DEF Exit, Wait, SkipOntoItself, NoConflict, AtSource, At, Apply,
                  DeleteItem, NextItem, Goto
    <2> QED  BY <2>1, QuietLogs DEF TypeOK
  <1>5. ASSUME NEW w \in Worker, Begin(w)
        PROVE  Logs' /\ AskedLast'
    <2>1. /\ pc[w] = "claimed" /\ UNCHANGED <<nextId, pending, job>>
          /\ events' = [events EXCEPT ![job[w]] = Append(@, Event("started", FALSE))]
          /\ pc' = [pc EXCEPT ![w] = Stage(Work(w))]
      BY <1>5 DEF Begin, At, Send, Goto
    <2>2. Stage(Work(w)) \in {"item", "single"}
      BY DEF Stage
    <2>3. Event("started", FALSE) \in Events
      BY DEF Event, Events
    <2>4. Event("started", FALSE).kind = "started"
      BY DEF Event
    <2>5. "started" \notin Terminal
      BY DEF Terminal
    <2> QED  BY <2>1, <2>2, <2>3, <2>4, <2>5, ReportLogs DEF Busy
  <1>6. ASSUME NEW w \in Worker, NEW k \in Terminal, NEW u \in BOOLEAN,
               pc[w] \in Busy \ {"claimed", "finish"},
               Send(job[w], k, u), Goto(w, "finish"),
               UNCHANGED <<nextId, pending, job>>
        PROVE  Logs' /\ AskedLast'
    <2>1. Event(k, u) \in Events /\ Event(k, u).kind = k
      BY DEF Event, Events
    <2>2. k # "started" /\ "finish" \in Busy \ {"claimed"}
      BY DEF Terminal, Busy
    <2>3. events' = [events EXCEPT ![job[w]] = Append(@, Event(k, u))]
      BY <1>6 DEF Send
    <2>4. pc' = [pc EXCEPT ![w] = "finish"]
      BY <1>6 DEF Goto
    <2> QED  BY <1>6, <2>1, <2>2, <2>3, <2>4, ReportLogs
  <1>7. ASSUME NEW w \in Worker, Reports(w)
        PROVE  Logs' /\ AskedLast'
    <2> PICK k \in Terminal, u \in BOOLEAN : End(w, k, u)
      BY <1>7 DEF Reports
    <2>1. pc[w] \notin {"claimed", "finish"}
      BY <1>7 DEF Reports
    <2> QED  BY <1>6, <1>7, <2>1 DEF Reports, End, Busy
  <1>8. ASSUME NEW w \in Worker, StickyConflict(w) \/ Answered(w)
        PROVE  Logs' /\ AskedLast'
    <2>1. /\ pc[w] \in {"item", "asking"}
          /\ UNCHANGED <<nextId, pending, job>>
          /\ \E r : Decide(w, r)
      BY <1>8 DEF StickyConflict, AtSource, Answered, At
    <2>2. CASE Send(job[w], "cancelled", FALSE) /\ Goto(w, "finish")
      BY <1>6, <2>1, <2>2 DEF Terminal, Busy
    <2>3. CASE UNCHANGED events /\ \E p \in {"item", "apply"} : Goto(w, p)
      BY <2>1, <2>3, QuietLogs DEF Goto, TypeOK
    <2> QED  BY <2>1, <2>2, <2>3 DEF Decide, NextItem
  <1>9. ASSUME NEW w \in Worker, AskConflict(w)
        PROVE  Logs' /\ AskedLast'
    <2>1. /\ pc[w] = "item" /\ UNCHANGED <<nextId, pending, job>>
          /\ events' = [events EXCEPT ![job[w]] = Append(@, Event("conflict", FALSE))]
          /\ pc' = [pc EXCEPT ![w] = "asking"]
      BY <1>9 DEF AskConflict, AtSource, At, Send, Goto
    <2>2. /\ Event("conflict", FALSE) \in Events
          /\ Event("conflict", FALSE).kind = "conflict"
      BY DEF Event, Events
    <2>3. "conflict" \notin Terminal
      BY DEF Terminal
    <2> QED  BY <2>1, <2>2, <2>3, ReportLogs DEF Busy
  <1>10. ASSUME NEW w \in Worker, Claim(w)
         PROVE  Logs' /\ AskedLast'
    <2>1. PICK i \in Fitting : /\ pending' = pending \ (Gone \cup {i})
                               /\ job' = [job EXCEPT ![w] = i]
      BY <1>10 DEF Claim
    <2>2. /\ pc[w] = "scan" /\ pc' = [pc EXCEPT ![w] = "claimed"]
          /\ DropGone /\ UNCHANGED nextId
          /\ events' = [j \in Ids |-> IF j \in Gone THEN Append(events[j], LoneCancel)
                                      ELSE events[j]]
      BY <1>10 DEF Claim, DropGone, LoneCancel
    <2>3. /\ i \in pending /\ i \notin Gone /\ i \in Ids /\ Gone \subseteq pending
          /\ i < nextId
      BY DEF Fitting, Gone, TypeOK, Issued
    <2>4. \A v \in Worker : job[v] \notin pending /\ (v # w => job'[v] = job[v])
      <3>1. \A v \in Worker : job[v] \in running \cup {NoJob}
        BY DEF Bookkeeping
      <3>2. NoJob \notin pending
        BY DEF TypeOK, NoJob, Ids
      <3> QED  BY <2>1, <3>1, <3>2 DEF Bookkeeping
    <2>5. job'[w] = i /\ pc'[w] = "claimed"
      BY <2>1, <2>2 DEF TypeOK
    <2>6. ASSUME NEW j \in Gone
          PROVE  LogFits(j)'
      <3>1. \A v \in Worker : job'[v] # j
        BY <2>3, <2>4, <2>5
      <3>2. j \notin pending'
        BY <2>1
      <3> QED  BY <2>2, <3>1, <3>2, DropLogs
    <2>7. LogFits(i)'
      <3>1. events'[i] = <<>>
        BY <2>2, <2>3 DEF Logs, LogFits
      <3>2. \A v \in Worker : job'[v] = i => v = w
        BY <2>3, <2>4
      <3>3. Active(i)'
        BY <2>5 DEF Active
      <3> QED  BY <2>2, <2>5, <3>1, <3>2, <3>3, EmptyLog DEF LogFits
    <2>8. ASSUME NEW j \in Ids, j \notin Gone, j # i
          PROVE  LogFits(j)'
      <3>1. events'[j] = events[j] /\ (j \in pending' <=> j \in pending)
        BY <2>1, <2>2, <2>8
      <3>2. \A v \in Worker : job'[v] = j => v # w /\ job[v] = j /\ pc'[v] = pc[v]
        BY <2>2, <2>4, <2>5, <2>8 DEF TypeOK
      <3>3. job[w] # j
        <4>1. job[w] = NoJob
          BY <2>2 DEF Bookkeeping, Busy
        <4> QED  BY <4>1 DEF NoJob, Ids
      <3>4. Active(j)' <=> Active(j)
        BY <2>2, <2>4, <3>1, <3>2, <3>3 DEF Active, TypeOK
      <3> QED  BY <2>2, <3>1, <3>2, <3>4 DEF Logs, LogFits
    <2>9. AskedLast'
      <3> SUFFICES ASSUME NEW v \in Worker, pc'[v] = "asking"
                   PROVE  /\ events'[job'[v]] # <<>>
                          /\ events'[job'[v]][Len(events'[job'[v]])].kind = "conflict"
        BY DEF AskedLast
      <3>1. v # w /\ pc[v] = "asking" /\ job'[v] = job[v]
        BY <2>2, <2>4, <2>5 DEF TypeOK
      <3>2. job[v] \in Ids /\ job[v] \notin Gone
        BY <2>3, <2>4, <3>1 DEF Bookkeeping, TypeOK, Busy
      <3> QED  BY <2>2, <3>1, <3>2 DEF AskedLast
    <2> QED  BY <2>6, <2>7, <2>8, <2>9 DEF Logs
  <1>11. ASSUME NEW w \in Worker, Park(w)
         PROVE  Logs' /\ AskedLast'
    <2>1. /\ pc[w] = "scan" /\ pc' = [pc EXCEPT ![w] = "parking"]
          /\ pending' = pending \ Gone
          /\ DropGone /\ UNCHANGED <<nextId, job>>
          /\ events' = [j \in Ids |-> IF j \in Gone THEN Append(events[j], LoneCancel)
                                      ELSE events[j]]
      BY <1>11 DEF Park, DropGone, LoneCancel
    <2>2. \A v \in Worker : job[v] \notin Gone
      <3>1. \A v \in Worker : job[v] \in running \cup {NoJob}
        BY DEF Bookkeeping
      <3>2. NoJob \notin pending
        BY DEF TypeOK, NoJob, Ids
      <3> QED  BY <3>1, <3>2 DEF Bookkeeping, Gone
    <2>3. ASSUME NEW j \in Gone
          PROVE  LogFits(j)'
      BY <2>1, <2>2, DropLogs
    <2>4. job[w] = NoJob
      BY <2>1 DEF Bookkeeping, Busy
    <2>5. ASSUME NEW j \in Ids, j \notin Gone
          PROVE  LogFits(j)'
      <3>1. events'[j] = events[j] /\ (j \in pending' <=> j \in pending)
        BY <2>1, <2>5
      <3>2. \A v \in Worker : job[v] = j => pc'[v] = pc[v]
        BY <2>1, <2>4 DEF TypeOK, NoJob, Ids
      <3>3. Active(j)' <=> Active(j)
        BY <2>1, <3>1, <3>2 DEF Active
      <3> QED  BY <2>1, <3>1, <3>2, <3>3 DEF Logs, LogFits
    <2>6. AskedLast'
      <3> SUFFICES ASSUME NEW v \in Worker, pc'[v] = "asking"
                   PROVE  /\ events'[job[v]] # <<>>
                          /\ events'[job[v]][Len(events'[job[v]])].kind = "conflict"
        BY <2>1 DEF AskedLast
      <3>1. pc[v] = "asking"
        BY <2>1 DEF TypeOK
      <3>2. job[v] \in Ids /\ job[v] \notin Gone
        BY <2>2, <3>1 DEF Bookkeeping, TypeOK, Busy
      <3> QED  BY <2>1, <3>1, <3>2 DEF AskedLast
    <2> QED  BY <2>3, <2>5, <2>6 DEF Logs
  <1>12. ASSUME NEW w \in Worker, Finish(w)
         PROVE  Logs' /\ AskedLast'
    <2> PICK i \in Ids : i = job[w]
      BY <1>12 DEF Finish, At, Bookkeeping, TypeOK, Busy
    <2>1. /\ pc[w] = "finish" /\ pc' = [NotifyAll(pc) EXCEPT ![w] = "scan"]
          /\ job' = [job EXCEPT ![w] = NoJob]
          /\ UNCHANGED <<nextId, pending, events>>
      BY <1>12 DEF Finish, At
    <2>2. /\ i \notin pending /\ i # NoJob
          /\ \A v \in Worker : job[v] = i => v = w
      BY <2>1 DEF Bookkeeping, Busy, NoJob, Ids
    <2>3. \A v \in Worker : v # w => /\ job'[v] = job[v]
                                     /\ \A p \in Busy : pc'[v] = p <=> pc[v] = p
      BY <2>1 DEF NotifyAll, TypeOK, Busy
    <2>4. job'[w] = NoJob /\ pc'[w] = "scan"
      BY <2>1 DEF NotifyAll, TypeOK
    <2>5. AskedLast'
      BY <2>1, <2>3, <2>4 DEF AskedLast, Busy
    <2>6. ASSUME NEW j \in Ids
          PROVE  LogFits(j)'
      <3>1. j # NoJob
        BY DEF Ids, NoJob
      <3>2. Active(j)' <=> Active(j)
        BY <2>1, <2>2, <2>3, <2>4, <3>1 DEF Active, Busy
      <3>3. \A v \in Worker : job'[v] = j =>
              job[v] = j /\ (pc'[v] = "claimed" <=> pc[v] = "claimed")
        BY <2>3, <2>4, <3>1 DEF Busy
      <3> QED  BY <2>1, <3>2, <3>3 DEF Logs, LogFits
    <2> QED  BY <2>5, <2>6 DEF Logs
  <1> QED
    BY <1>1, <1>2, <1>3, <1>4, <1>5, <1>7, <1>8, <1>9, <1>10, <1>11, <1>12, NextCases

------------------------------------------------------------------------------
(***************************************************************************)
(* The inductive invariant and what follows from it.                       *)
(***************************************************************************)
IInv ==
  /\ TypeOK
  /\ Issued /\ Bookkeeping
  /\ Exclusive
  /\ PromptsOpen /\ AnswersAwaited
  /\ FlagsFresh
  /\ Logs /\ AskedLast

(* The engine starts with idle workers and nothing queued. *)
LEMMA InitIInv ==
  ASSUME Init
  PROVE  IInv
  <1>1. TypeOK
    <2>1. events \in [Ids -> Seq(Events)]
      BY DEF Init
    <2>2. NoAnswer \in Answers
      BY DEF NoAnswer, Answers
    <2>3. nextId \in 1 .. MaxOps + 1
      BY OpQueueAssumption DEF Init
    <2>4. /\ op \in [Ids -> Operations \cup {NoOp}]
          /\ flag \in [Ids -> {"none", "paused", "cancelled"}]
          /\ pc \in [Worker -> Places]
          /\ job \in [Worker -> Ids \cup {NoJob}]
          /\ item \in [Worker -> Nat]
          /\ sticky \in [Worker -> Resolutions \cup {None}]
          /\ made \in [Worker -> BOOLEAN]
          /\ answer \in [Worker -> Answers]
      BY <2>2 DEF Init, Places
    <2> QED
      BY <2>1, <2>3, <2>4, OpQueueAssumption DEF Init, TypeOK
  <1>2. Issued /\ Bookkeeping /\ Exclusive /\ PromptsOpen /\ AnswersAwaited /\ FlagsFresh
    BY DEF Init, Issued, Bookkeeping, Exclusive, PromptsOpen, AnswersAwaited,
           FlagsFresh, Busy, NoJob
  <1>3. Logs /\ AskedLast
    <2>1. ASSUME NEW i \in Ids
          PROVE  LogFits(i)
      <3>1. events[i] = <<>> /\ ~(i < nextId)
        BY OpQueueAssumption DEF Init, Ids
      <3>2. \A w \in Worker : job[w] # i
        BY DEF Init, Ids, NoJob
      <3> QED  BY <3>1, <3>2, EmptyLog DEF Init, LogFits
    <2> QED  BY <2>1 DEF Init, Logs, AskedLast
  <1> QED  BY <1>1, <1>2, <1>3 DEF IInv

(* Every step of the engine keeps the invariant. *)
LEMMA StepIInv ==
  ASSUME IInv, [Step]_vars
  PROVE  IInv'
  <1>1. HasJob
    BY DEF IInv, Bookkeeping, HasJob, TypeOK
  <1>2. TypeOK'
    BY <1>1, TypeStep DEF IInv
  <1>3. Issued' /\ Bookkeeping'
    BY BookkeepingStep DEF IInv
  <1>4. Exclusive'
    BY ExclusiveStep DEF IInv
  <1>5. PromptsOpen' /\ AnswersAwaited'
    BY PromptsStep DEF IInv
  <1>6. FlagsFresh'
    BY FlagsStep DEF IInv
  <1>7. Logs' /\ AskedLast'
    BY LogsStep DEF IInv
  <1> QED  BY <1>2, <1>3, <1>4, <1>5, <1>6, <1>7 DEF IInv

(* The inductive invariant holds in every reachable state of the engine. *)
THEOREM Invariance == Spec => []IInv
  <1>1. Init => IInv
    BY InitIInv
  <1>2. IInv /\ [Next]_vars => IInv'
    BY StepIInv DEF Step
  <1> QED  BY <1>1, <1>2, PTL DEF Spec

(* Every variable of the engine keeps its type. *)
THEOREM TypeCorrect == Spec => []TypeOK
  <1>1. IInv => TypeOK
    BY DEF IInv
  <1> QED  BY <1>1, Invariance, PTL

(* The maps of the engine agree with its threads (worker_thread). *)
THEOREM MapsAgree == Spec => []Bookkeeping
  <1>1. IInv => Bookkeeping
    BY DEF IInv
  <1> QED  BY <1>1, Invariance, PTL

(* Operations that run together touch no common path (running_overlap). *)
THEOREM MutualExclusion == Spec => []Exclusive
  <1>1. IInv => Exclusive
    BY DEF IInv
  <1> QED  BY <1>1, Invariance, PTL

(* Exactly the workers without an answer can be answered (ask_conflict). *)
THEOREM PromptsAnswerable == Spec => []PromptsOpen
  <1>1. IInv => PromptsOpen
    BY DEF IInv
  <1> QED  BY <1>1, Invariance, PTL

(* An operation's start is reported first, its outcome last and only when no *)
(* thread acts on it any more (worker_thread, run).                          *)
THEOREM Reported == Spec => []EventsInOrder
  <1>1. IInv => EventsInOrder
    BY DEF IInv, Logs, LogFits, InOrder, LoneCancel, EventsInOrder
  <1> QED  BY <1>1, Invariance, PTL

------------------------------------------------------------------------------
(***************************************************************************)
(* Waking up.                                                              *)
(***************************************************************************)

(* While a worker sleeps, or has decided to, there is nothing to start and  *)
(* nothing to drop.                                                         *)
Idle == ~CanRun /\ Gone = {}
Asleep == ~shutdown /\ (\E w \in Worker : pc[w] \in {"waiting", "parking"}) => Idle

(* Idle stays when what it reads stays and the cap is not raised. *)
LEMMA IdleStays ==
  ASSUME TypeOK, Idle, UNCHANGED queueVars, maxJobs' \in Int, maxJobs' <= maxJobs,
         \A i \in Ids : flag'[i] = "cancelled" <=> flag[i] = "cancelled"
  PROVE  Idle'
  <1>1. Gone' = Gone /\ Fitting' = Fitting
    BY DEF queueVars, Gone, Fitting, RunningOverlap, TypeOK
  <1>2. Cardinality(running) \in Nat
    <2>1. IsFiniteSet(Ids)
      BY FS_Interval, OpQueueAssumption DEF Ids
    <2>2. IsFiniteSet(running)
      BY <2>1, FS_Subset DEF TypeOK
    <2> QED  BY <2>2, FS_CardinalityType
  <1>3. maxJobs \in Int
    BY WorkersCount DEF TypeOK
  <1>4. CanRun' => CanRun
    BY <1>1, <1>2, <1>3 DEF CanRun, queueVars
  <1> QED  BY <1>1, <1>4 DEF Idle

(* Raising the cap is the only step after which a worker may sleep while an *)
(* operation could be started (set_max_jobs notifies without the mutex).    *)
LEMMA AsleepStep ==
  ASSUME TypeOK, HasJob, Asleep, [Step]_vars, maxJobs' <= maxJobs
  PROVE  Asleep'
  <1> USE DEF queueVars, ctlVars, ctxVars
  <1>1. TypeOK' /\ maxJobs' \in Int
    BY TypeStep, WorkersCount DEF TypeOK
  <1>2. ASSUME Lockable, pc' = NotifyAll(pc)
        PROVE  Asleep'
    BY <1>2 DEF NotifyAll, Lockable, Asleep, TypeOK
  <1>3. ASSUME UNCHANGED <<queueVars, shutdown>>,
               \A i \in Ids : flag'[i] = "cancelled" <=> flag[i] = "cancelled",
               \A w \in Worker : pc'[w] \in {"waiting", "parking"}
                                   => pc[w] \in {"waiting", "parking"}
        PROVE  Asleep'
    BY <1>1, <1>3, IdleStays DEF Asleep
  <1>4. ASSUME \/ UNCHANGED vars
               \/ \E S \in SUBSET Ids :
                    \/ SwapFlags(S, "none", "paused")
                    \/ SwapFlags(S, "paused", "none")
               \/ \E S \in SUBSET Ids, r \in Resolutions, all \in BOOLEAN :
                    ResolveConflicts(S, r, all)
        PROVE  Asleep'
    <2>1. /\ UNCHANGED <<queueVars, shutdown, pc>>
          /\ \A i \in Ids : flag'[i] = "cancelled" <=> flag[i] = "cancelled"
      BY <1>4 DEF vars, SwapFlags, ResolveConflicts, TypeOK
    <2> QED  BY <1>3, <2>1
  <1>5. ASSUME \/ \E o \in Operations : Submit(o)
               \/ \E S \in SUBSET Ids : SetCancelled(S)
        PROVE  Asleep'
    BY <1>2, <1>5 DEF Submit, SetCancelled
  <1>6. ASSUME NEW n \in JobCaps, SetMaxJobs(n)
        PROVE  Asleep'
    <2>1. \A w \in Worker : pc'[w] \in {"waiting", "parking"} => pc[w] = "parking"
      BY <1>6 DEF SetMaxJobs, NotifyAll
    <2> QED  BY <1>3, <1>6, <2>1 DEF SetMaxJobs
  <1>7. CASE Drop
    BY <1>7 DEF Drop, Asleep
  <1>8. ASSUME NEW w \in Worker,
               \/ Exit(w) \/ Wait(w) \/ Begin(w) \/ SkipOntoItself(w)
               \/ NoConflict(w) \/ StickyConflict(w) \/ AskConflict(w)
               \/ Answered(w) \/ Apply(w) \/ DeleteItem(w) \/ Reports(w)
        PROVE  Asleep'
    <2>1. UNCHANGED <<queueVars, flag, shutdown>>
      BY <1>8 DEF Exit, Wait, Begin, SkipOntoItself, NoConflict, StickyConflict,
                  AskConflict, Answered, Apply, DeleteItem, Reports, End
    <2>2. \E p : /\ pc' = [pc EXCEPT ![w] = p]
                 /\ p = "waiting" => pc[w] = "parking"
                 /\ p # "parking"
      <3>1. CASE Exit(w) \/ Wait(w)
        BY <3>1 DEF Exit, Wait
      <3>2. ASSUME NEW p \in Busy, Goto(w, p)
            PROVE  /\ pc' = [pc EXCEPT ![w] = p]
                   /\ p # "waiting" /\ p # "parking"
        BY <3>2 DEF Goto, Busy
      <3>3. CASE ~(Exit(w) \/ Wait(w))
        <4>1. \E p \in Busy : Goto(w, p)
          BY <1>8, <3>3 DEF Begin, Stage, SkipOntoItself, NoConflict, StickyConflict,
                  AskConflict, Answered, Decide, Apply, DeleteItem, NextItem,
                  Reports, End, Busy
        <4> QED  BY <4>1, <3>2
      <3> QED  BY <3>1, <3>3
    <2>3. \A v \in Worker : pc'[v] \in {"waiting", "parking"}
                              => pc[v] \in {"waiting", "parking"}
      BY <2>2 DEF TypeOK
    <2> QED  BY <1>3, <2>1, <2>3
  <1>9. ASSUME NEW w \in Worker, Claim(w)
        PROVE  Asleep'
    <2>1. /\ ~shutdown /\ CanRun /\ UNCHANGED shutdown
          /\ pc' = [pc EXCEPT ![w] = "claimed"]
      BY <1>9 DEF Claim
    <2>2. \A v \in Worker : pc[v] \notin {"waiting", "parking"}
      BY <2>1 DEF Asleep, Idle
    <2> QED  BY <2>1, <2>2 DEF Asleep, TypeOK
  <1>10. ASSUME NEW w \in Worker, Park(w)
         PROVE  Asleep'
    <2>1. /\ ~CanRun /\ pending' = pending \ Gone
          /\ opState' = opState \ Gone
          /\ flag' = [i \in Ids |-> IF i \in Gone THEN "none" ELSE flag[i]]
          /\ UNCHANGED <<op, running, maxJobs>>
      BY <1>10 DEF Park, DropGone
    <2>2. Gone' = {}
      BY <2>1 DEF Gone, TypeOK
    <2>3. Fitting' = Fitting
      BY <2>1, <2>2 DEF Fitting, RunningOverlap
    <2> QED  BY <2>1, <2>2, <2>3 DEF Asleep, Idle, CanRun
  <1>11. ASSUME NEW w \in Worker, Finish(w)
         PROVE  Asleep'
    BY <1>11 DEF Finish, NotifyAll, Lockable, Asleep, TypeOK
  <1> QED
    BY <1>4, <1>5, <1>6, <1>7, <1>8, <1>9, <1>10, <1>11, NextCases

(* As long as the cap is not raised, no worker sleeps through an operation  *)
(* that could be started (worker_thread, every notify_all).                 *)
THEOREM WakeupsKept == Spec /\ [][maxJobs' <= maxJobs]_vars => []NoLostWakeup
  <1>1. Init => Asleep
    BY DEF Init, Asleep
  <1>2. IInv /\ Asleep /\ [Next]_vars /\ [maxJobs' <= maxJobs]_vars => Asleep'
    <2> SUFFICES ASSUME IInv, Asleep, [Next]_vars, [maxJobs' <= maxJobs]_vars
                 PROVE  Asleep'
      OBVIOUS
    <2>1. TypeOK /\ HasJob
      BY DEF IInv, Bookkeeping, HasJob, TypeOK
    <2>2. maxJobs' <= maxJobs
      BY <2>1, WorkersCount DEF vars, TypeOK
    <2> QED  BY <2>1, <2>2, AsleepStep DEF Step
  <1>3. Asleep => NoLostWakeup
    BY DEF Asleep, Idle, NoLostWakeup
  <1> QED  BY <1>1, <1>2, <1>3, Invariance, PTL DEF Spec

------------------------------------------------------------------------------
(***************************************************************************)
(* A cap of one: nothing runs beside, and the oldest goes first.           *)
(***************************************************************************)

(* A step that starts operations is a worker's claim of one. *)
LEMMA OnlyClaimStarts ==
  ASSUME TypeOK, [Step]_vars, running' \ running # {}
  PROVE  \E w \in Worker : Claim(w)
  <1> USE DEF queueVars, ctlVars, ctxVars
  <1>1. ASSUME NEW w \in Worker,
               \/ Exit(w) \/ Park(w) \/ Wait(w) \/ Begin(w) \/ SkipOntoItself(w)
               \/ NoConflict(w) \/ StickyConflict(w) \/ AskConflict(w)
               \/ Answered(w) \/ Apply(w) \/ DeleteItem(w) \/ Reports(w)
               \/ Finish(w)
        PROVE  running' \subseteq running
    BY <1>1 DEF Exit, Park, Wait, Begin, SkipOntoItself, NoConflict,
                StickyConflict, AskConflict, Answered, Apply, DeleteItem,
                Reports, End, Finish
  <1>2. ASSUME \/ UNCHANGED vars \/ Drop
               \/ \E o \in Operations : Submit(o)
               \/ \E n \in JobCaps : SetMaxJobs(n)
               \/ \E S \in SUBSET Ids, r \in Resolutions, all \in BOOLEAN :
                    ResolveConflicts(S, r, all)
               \/ \E S \in SUBSET Ids :
                    \/ SwapFlags(S, "none", "paused")
                    \/ SwapFlags(S, "paused", "none")
                    \/ SetCancelled(S)
        PROVE  running' \subseteq running
    BY <1>2 DEF vars, Drop, Submit, SetMaxJobs, ResolveConflicts,
                SwapFlags, SetCancelled
  <1> QED  BY <1>1, <1>2, NextCases

(* While the cap is one, an operation starts alone and before all later ones. *)
LEMMA SequentialStep ==
  ASSUME TypeOK, [Step]_vars
  PROVE  \A i \in running' \ running : maxJobs = 1 =>
           running = {} /\ \A j \in pending \ Gone : i <= j
  <1> SUFFICES ASSUME NEW i \in running' \ running, maxJobs = 1
               PROVE  running = {} /\ \A j \in pending \ Gone : i <= j
    OBVIOUS
  <1>1. PICK w \in Worker : Claim(w)
    BY OnlyClaimStarts
  <1>2. IsFiniteSet(running)
    <2>1. IsFiniteSet(Ids)
      BY FS_Interval, OpQueueAssumption DEF Ids
    <2> QED  BY <2>1, FS_Subset DEF TypeOK
  <1>3. Cardinality(running) < 1
    BY <1>1 DEF Claim, CanRun
  <1>4. running = {}
    BY <1>2, <1>3, FS_CardinalityType, FS_EmptySet
  <1>5. Fitting = pending \ Gone
    BY <1>4 DEF Fitting, RunningOverlap
  <1>6. PICK k \in Fitting : (\A j \in Fitting : k <= j) /\ running' = running \cup {k}
    BY <1>1 DEF Claim
  <1>7. i = k
    BY <1>6
  <1> QED  BY <1>4, <1>5, <1>6, <1>7

(* With a cap of one, operations start one at a time, in order. *)
THEOREM OneAtATime == Spec => StrictlySequential
  <1>1. TypeOK /\ [Next]_vars =>
          [\A i \in running' \ running : maxJobs = 1 =>
             running = {} /\ \A j \in pending \ Gone : i <= j]_vars
    BY SequentialStep DEF Step
  <1> QED  BY <1>1, TypeCorrect, PTL DEF Spec, StrictlySequential

------------------------------------------------------------------------------
(***************************************************************************)
(* The engine implements OpSchedule.                                       *)
(***************************************************************************)

(* The abstract variables of this state. *)
phases == [i \in Ids |-> Phase(i)]
touches == [i \in Ids |-> IF i < nextId THEN TouchPaths(op[i]) ELSE {}]
cancels == {i \in pending : flag[i] = "cancelled"}

(* What the phase of an operation says of the engine's maps. *)
LEMMA PhaseType ==
  ASSUME IInv, NEW i \in Ids
  PROVE  /\ Phase(i) = "queued" <=> i \in pending
         /\ Phase(i) = "running" <=> i \in running
         /\ Phase(i) = "none" <=> i >= nextId
         /\ Phase(i) = "ended" <=> i < nextId /\ i \notin pending \cup running
         /\ i \in Nat /\ nextId \in Nat
  <1>1. /\ i \in Nat /\ nextId \in Nat
        /\ i \in pending \cup running => i < nextId
    BY OpQueueAssumption DEF IInv, Issued, TypeOK, Ids
  <1>2. ~(i \in pending /\ i \in running)
    BY DEF IInv, Bookkeeping
  <1> QED  BY <1>1, <1>2 DEF Phase

(* What the abstract scheduler sees in a state of the engine. *)
LEMMA Abstraction ==
  ASSUME IInv
  PROVE  /\ Schedule!Queued = pending
         /\ Schedule!Running = running
         /\ cancels = Gone
         /\ \A i \in pending \cup running : i \in Ids /\ touches[i] = TouchPaths(op[i])
  <1>1. \A i \in pending \cup running : i \in Ids /\ i < nextId
    BY DEF IInv, Issued, TypeOK
  <1>2. Schedule!Queued = pending
    BY <1>1, PhaseType DEF Schedule!Queued
  <1>3. Schedule!Running = running
    BY <1>1, PhaseType DEF Schedule!Running
  <1>4. cancels = Gone
    BY DEF cancels, Gone, IInv, Bookkeeping
  <1> QED  BY <1>1, <1>2, <1>3, <1>4 DEF touches

(* A step that changes nothing the abstract scheduler sees. *)
LEMMA StutterStep ==
  ASSUME UNCHANGED queueVars,
         \A i \in pending : flag'[i] = "cancelled" <=> flag[i] = "cancelled"
  PROVE  UNCHANGED Schedule!avars
  BY DEF Schedule!avars, queueVars, Phase

(* A submission is one of the abstract scheduler. *)
LEMMA SubmitRefines ==
  ASSUME IInv, NEW o \in Operations, Submit(o)
  PROVE  Schedule!ASubmit(nextId, TouchPaths(o))
  <1> PICK n \in Ids : n = nextId
    BY DEF Submit
  <1>1. /\ nextId' = n + 1
        /\ op' = [op EXCEPT ![n] = o]
        /\ pending' = pending \cup {n}
        /\ UNCHANGED <<running, flag>>
    BY DEF Submit
  <1>2. Phase(n) = "none"
    BY <1>1, PhaseType
  <1>3. phases' = [phases EXCEPT ![n] = "queued"]
    <2>1. \A i \in Ids : i # n => Phase(i)' = Phase(i)
      BY <1>1, PhaseType DEF Phase
    <2>2. Phase(n)' = "queued"
      BY <1>1, PhaseType DEF Phase
    <2> QED  BY <1>1, <2>1, <2>2 DEF phases
  <1>4. touches' = [touches EXCEPT ![n] = TouchPaths(o)]
    <2>1. \A i \in Ids : i # n => op'[i] = op[i] /\ (i < nextId' <=> i < nextId)
      BY <1>1, PhaseType DEF IInv, TypeOK
    <2>2. op'[n] = o /\ n < nextId'
      BY <1>1, PhaseType DEF IInv, TypeOK
    <2>3. \A i \in Ids : touches'[i] =
             IF i = n THEN TouchPaths(o) ELSE touches[i]
      BY <2>1, <2>2 DEF touches, TouchPaths
    <2> QED  BY <1>1, <2>3 DEF touches
  <1>5. cancels' = cancels
    <2>1. n \notin opState
      BY <1>1, PhaseType DEF IInv, Bookkeeping, Issued
    <2>2. flag[n] = "none"
      BY <1>1, <2>1 DEF IInv, FlagsFresh
    <2> QED  BY <1>1, <2>2 DEF cancels
  <1> QED
    BY <1>1, <1>2, <1>3, <1>4, <1>5
    DEF Schedule!ASubmit, phases, touches, cancels

(* The operations a scan drops are ended; the others keep their phase. *)
LEMMA DropPhases ==
  ASSUME IInv, NEW i \in Ids, nextId' = nextId,
         pending' \subseteq pending, i \notin pending' <=> i \notin pending \/ i \in Gone,
         i \in running' <=> i \in running
  PROVE  Phase(i)' = IF i \in Gone THEN "ended" ELSE Phase(i)
  <1>1. i \in Gone => i \in pending /\ i \notin running /\ i < nextId
    BY DEF Gone, IInv, Bookkeeping, Issued
  <1> QED  BY <1>1, PhaseType DEF Phase

(* A worker that finds nothing to run has dropped what was cancelled. *)
LEMMA ParkRefines ==
  ASSUME IInv, NEW w \in Worker, Park(w)
  PROVE  Schedule!ADrop
  <1>1. /\ pending' = pending \ Gone /\ UNCHANGED <<nextId, op, running>>
        /\ flag' = [i \in Ids |-> IF i \in Gone THEN "none" ELSE flag[i]]
    BY DEF Park, DropGone
  <1>2. phases' = [i \in Ids |-> IF i \in cancels THEN "ended" ELSE phases[i]]
    <2>1. \A i \in Ids : Phase(i)' = IF i \in Gone THEN "ended" ELSE Phase(i)
      BY <1>1, DropPhases
    <2> QED  BY <2>1, Abstraction DEF phases
  <1>3. cancels' = {}
    BY <1>1, Abstraction DEF cancels, IInv, TypeOK
  <1>4. touches' = touches
    BY <1>1 DEF touches
  <1> QED
    BY <1>2, <1>3, <1>4 DEF Schedule!ADrop, phases, touches, cancels

(* A worker that takes an operation starts it. *)
LEMMA ClaimRefines ==
  ASSUME IInv, NEW w \in Worker, Claim(w)
  PROVE  \E i \in Ids : Schedule!AStart(i)
  <1>1. PICK i \in Fitting : /\ pending' = pending \ (Gone \cup {i})
                             /\ running' = running \cup {i}
    BY DEF Claim
  <1>2. /\ UNCHANGED <<nextId, op>>
        /\ flag' = [j \in Ids |-> IF j \in Gone THEN "none" ELSE flag[j]]
    BY DEF Claim, DropGone
  <1>3. i \in pending /\ i \notin Gone /\ i \in Ids /\ i < nextId
    BY DEF Fitting, IInv, TypeOK, Issued
  <1>4. i \in Schedule!Queued \ cancels
    BY <1>3, Abstraction
  <1>5. \A r \in Schedule!Running : ~Schedule!Clash(touches[r], touches[i])
    <2>1. \A r \in running : ~Clashing(TouchPaths(op[r]), TouchPaths(op[i]))
      BY DEF Fitting, RunningOverlap
    <2>2. \A r \in running : ~Clashing(touches[r], touches[i])
      BY <1>3, <2>1, Abstraction
    <2>3. \A ps, qs : Schedule!Clash(ps, qs) <=> Clashing(ps, qs)
      BY DEF Schedule!Clash, Clashing
    <2> QED  BY <2>2, <2>3, Abstraction
  <1>6. phases' = [j \in Ids |-> IF j \in cancels THEN "ended"
                                 ELSE IF j = i THEN "running" ELSE phases[j]]
    <2>1. ASSUME NEW j \in Ids, j # i
          PROVE  Phase(j)' = IF j \in Gone THEN "ended" ELSE Phase(j)
      BY <1>1, <1>2, <2>1, DropPhases
    <2>2. Phase(i)' = "running"
      BY <1>1, <1>2, <1>3, PhaseType DEF Phase
    <2> QED  BY <1>3, <2>1, <2>2, Abstraction DEF phases
  <1>7. cancels' = {}
    BY <1>1, <1>2, Abstraction DEF cancels, IInv, TypeOK
  <1>8. touches' = touches
    BY <1>2 DEF touches
  <1> QED
    BY <1>3, <1>4, <1>5, <1>6, <1>7, <1>8
    DEF Schedule!AStart, phases, touches, cancels

(* A cancellation marks the waiting operations it reaches. *)
LEMMA CancelRefines ==
  ASSUME IInv, NEW S \in SUBSET Ids, SetCancelled(S)
  PROVE  Schedule!ACancel
  <1>1. /\ UNCHANGED queueVars
        /\ flag' = [i \in Ids |-> IF i \in S \cap opState THEN "cancelled"
                                  ELSE flag[i]]
    BY DEF SetCancelled
  <1>2. phases' = phases /\ touches' = touches
    BY <1>1 DEF phases, Phase, touches, queueVars
  <1>3. cancels \subseteq cancels' /\ cancels' \subseteq pending
    BY <1>1 DEF cancels, queueVars, IInv, TypeOK
  <1>4. cancels' \subseteq cancels \cup Schedule!Queued
    BY <1>3, Abstraction
  <1> QED
    BY <1>2, <1>3, <1>4 DEF Schedule!ACancel, phases, touches, cancels

(* A worker that is done ends its operation. *)
LEMMA FinishRefines ==
  ASSUME IInv, NEW w \in Worker, Finish(w)
  PROVE  \E i \in Ids : Schedule!AEnd(i)
  <1> PICK i \in Ids : i = job[w]
    BY DEF Finish, At, IInv, Bookkeeping, Busy, TypeOK
  <1>1. i \in running
    BY DEF Finish, At, IInv, Bookkeeping, Busy
  <1>2. /\ running' = running \ {i} /\ flag' = [flag EXCEPT ![i] = "none"]
        /\ UNCHANGED <<nextId, pending, op>>
    BY DEF Finish
  <1>3. i \notin pending /\ i < nextId
    BY <1>1 DEF IInv, Bookkeeping, Issued
  <1>4. phases' = [phases EXCEPT ![i] = "ended"]
    <2>1. \A j \in Ids : j # i => Phase(j)' = Phase(j)
      BY <1>2 DEF Phase
    <2>2. Phase(i)' = "ended"
      BY <1>2, <1>3, PhaseType DEF Phase
    <2> QED  BY <2>1, <2>2 DEF phases
  <1>5. cancels' = cancels
    BY <1>2, <1>3 DEF cancels, IInv, TypeOK
  <1>6. touches' = touches
    BY <1>2 DEF touches
  <1>7. i \in Schedule!Running
    BY <1>1, Abstraction
  <1> QED
    BY <1>4, <1>5, <1>6, <1>7 DEF Schedule!AEnd, phases, touches, cancels

(* Every step is one of the abstract scheduler or a stutter. *)
LEMMA StepRefines ==
  ASSUME IInv, [Step]_vars
  PROVE  [Schedule!ANext]_(Schedule!avars)
  <1> USE DEF queueVars, ctlVars, ctxVars
  <1>1. ASSUME NEW o \in Operations, Submit(o)
        PROVE  Schedule!ANext
    <2>1. nextId \in Ids
      BY <1>1 DEF Submit
    <2> QED  BY <1>1, <2>1, SubmitRefines DEF Schedule!ANext
  <1>2. ASSUME NEW w \in Worker, Claim(w) \/ Park(w) \/ Finish(w)
        PROVE  Schedule!ANext
    BY <1>2, ClaimRefines, ParkRefines, FinishRefines DEF Schedule!ANext
  <1>3. ASSUME NEW S \in SUBSET Ids, SetCancelled(S)
        PROVE  Schedule!ANext
    BY <1>3, CancelRefines DEF Schedule!ANext
  <1>4. ASSUME NEW S \in SUBSET Ids,
               SwapFlags(S, "none", "paused") \/ SwapFlags(S, "paused", "none")
        PROVE  UNCHANGED Schedule!avars
    <2>1. /\ UNCHANGED queueVars
          /\ \A i \in pending : flag'[i] = "cancelled" <=> flag[i] = "cancelled"
      BY <1>4 DEF SwapFlags, IInv, TypeOK
    <2> QED  BY <2>1, StutterStep
  <1>5. ASSUME \/ UNCHANGED vars \/ Drop
               \/ \E n \in JobCaps : SetMaxJobs(n)
               \/ \E S \in SUBSET Ids, r \in Resolutions, all \in BOOLEAN :
                    ResolveConflicts(S, r, all)
        PROVE  UNCHANGED <<queueVars, flag>>
    BY <1>5 DEF vars, Drop, SetMaxJobs, ResolveConflicts
  <1>6. ASSUME NEW w \in Worker,
               \/ Exit(w) \/ Wait(w) \/ Begin(w) \/ SkipOntoItself(w)
               \/ NoConflict(w) \/ StickyConflict(w) \/ AskConflict(w)
               \/ Answered(w) \/ Apply(w) \/ DeleteItem(w) \/ Reports(w)
        PROVE  UNCHANGED <<queueVars, flag>>
    BY <1>6 DEF Exit, Wait, Begin, SkipOntoItself, NoConflict, StickyConflict,
                AskConflict, Answered, Apply, DeleteItem, Reports, End
  <1>7. ASSUME UNCHANGED <<queueVars, flag>>
        PROVE  UNCHANGED Schedule!avars
    BY <1>7, StutterStep
  <1>8. TypeOK
    BY DEF IInv
  <1> QED  BY <1>1, <1>2, <1>3, <1>4, <1>5, <1>6, <1>7, <1>8, NextCases

(* The engine implements the abstract scheduler: an operation starts at    *)
(* most once, never after a cancel that found it waiting, and never beside *)
(* one it overlaps.                                                        *)
THEOREM Implementation == Spec => ImplementsSchedule
  <1>1. Init => Schedule!AInit
    <2> SUFFICES ASSUME Init PROVE Schedule!AInit
      OBVIOUS
    <2>1. \A i \in Ids : Phase(i) = "none" /\ ~(i < nextId)
      BY OpQueueAssumption DEF Init, Phase, Ids
    <2> QED  BY <2>1 DEF Init, Schedule!AInit
  <1>2. IInv /\ [Next]_vars => [Schedule!ANext]_(Schedule!avars)
    BY StepRefines DEF Step
  <1> QED
    BY <1>1, <1>2, Invariance, PTL DEF Spec, ImplementsSchedule, Schedule!ASpec

------------------------------------------------------------------------------
(* The engine and the window, OpSystem. *)

(* What is added to the reports of an operation in a step of the engine that *)
(* neither submits nor answers: at most one event, not while its worker      *)
(* waits for an answer; a prompt opens with the report of its conflict.      *)
Grows ==
  \A i \in Ids :
    \/ events'[i] = events[i] /\ (i \in conflictTx' <=> i \in conflictTx)
    \/ \E e \in Events :
         /\ events'[i] = Append(events[i], e)
         /\ i \notin conflictTx
         /\ i \in conflictTx' <=> e.kind = "conflict"

(* A worker whose prompt is not open. *)
LEMMA NotAsked ==
  ASSUME IInv, NEW w \in Worker, pc[w] \in Busy,
         pc[w] = "asking" => answer[w] # NoAnswer
  PROVE  job[w] \in Ids /\ job[w] \notin conflictTx
  <1>1. job[w] \in running /\ job[w] \in Ids /\ job[w] # NoJob
    BY DEF IInv, Bookkeeping, TypeOK, NoJob, Ids
  <1>2. \A v \in Worker : job[v] = job[w] => v = w
    BY <1>1 DEF IInv, Bookkeeping
  <1> QED  BY <1>1, <1>2 DEF IInv, PromptsOpen

(* Prompts are of operations that run. *)
LEMMA PromptsRun ==
  ASSUME IInv
  PROVE  conflictTx \subseteq running
  BY DEF IInv, PromptsOpen, Bookkeeping, Busy

(* An event of one operation, and no change of the prompts. *)
LEMMA SendGrows ==
  ASSUME IInv, NEW w \in Worker, pc[w] \in Busy,
         pc[w] = "asking" => answer[w] # NoAnswer,
         NEW k \in {"started"} \cup Terminal, NEW u \in BOOLEAN,
         Send(job[w], k, u), UNCHANGED conflictTx
  PROVE  Grows
  <1>1. job[w] \in Ids /\ job[w] \notin conflictTx
    BY NotAsked
  <1>2. Event(k, u) \in Events /\ Event(k, u).kind # "conflict"
    BY DEF Event, Events, Terminal
  <1>3. \A i \in Ids : events'[i] = IF i = job[w] THEN Append(events[i], Event(k, u))
                                    ELSE events[i]
    BY DEF Send, IInv, TypeOK
  <1> QED  BY <1>1, <1>2, <1>3 DEF Grows

(* The engine forgets no operation and takes back no event. *)
LEMMA EngineGrows ==
  ASSUME IInv,
         \/ \E S \in SUBSET Ids :
              \/ SwapFlags(S, "none", "paused") \/ SwapFlags(S, "paused", "none")
              \/ SetCancelled(S)
         \/ \E n \in JobCaps : SetMaxJobs(n)
         \/ \E w \in Worker : WorkerStep(w)
  PROVE  Grows /\ UNCHANGED nextId
  <1> USE DEF queueVars, ctlVars, ctxVars
  <1>1. ASSUME UNCHANGED <<events, conflictTx>>
        PROVE  Grows
    BY <1>1 DEF Grows
  <1>2. ASSUME \/ \E S \in SUBSET Ids :
                    \/ SwapFlags(S, "none", "paused") \/ SwapFlags(S, "paused", "none")
                    \/ SetCancelled(S)
               \/ \E n \in JobCaps : SetMaxJobs(n)
        PROVE  UNCHANGED <<nextId, events, conflictTx>>
    BY <1>2 DEF SwapFlags, SetCancelled, SetMaxJobs
  <1>3. ASSUME NEW w \in Worker,
               \/ Exit(w) \/ Wait(w) \/ SkipOntoItself(w) \/ NoConflict(w)
               \/ Apply(w) \/ DeleteItem(w)
        PROVE  UNCHANGED <<nextId, events, conflictTx>>
    BY <1>3 DEF Exit, Wait, SkipOntoItself, NoConflict, Apply, DeleteItem
  <1>4. ASSUME NEW w \in Worker, Claim(w) \/ Park(w)
        PROVE  Grows /\ UNCHANGED nextId
    <2>1. /\ UNCHANGED <<nextId, conflictTx>>
          /\ events' = [j \in Ids |-> IF j \in Gone THEN Append(events[j], LoneCancel)
                                      ELSE events[j]]
      BY <1>4 DEF Claim, Park, DropGone, LoneCancel
    <2>2. \A i \in Gone : i \notin conflictTx
      BY PromptsRun DEF Gone, IInv, Bookkeeping
    <2>3. LoneCancel \in Events /\ LoneCancel.kind # "conflict"
      BY DEF LoneCancel, Event, Events, Terminal
    <2> QED  BY <2>1, <2>2, <2>3 DEF Grows
  <1>5. ASSUME NEW w \in Worker, Begin(w)
        PROVE  Grows /\ UNCHANGED nextId
    BY <1>5, SendGrows DEF Begin, At, Busy
  <1>6. ASSUME NEW w \in Worker, Reports(w)
        PROVE  Grows /\ UNCHANGED nextId
    BY <1>6, SendGrows DEF Reports, End, Busy
  <1>7. ASSUME NEW w \in Worker, StickyConflict(w) \/ Answered(w)
        PROVE  Grows /\ UNCHANGED nextId
    <2>1. /\ UNCHANGED <<nextId, conflictTx>>
          /\ pc[w] \in Busy /\ (pc[w] = "asking" => answer[w] # NoAnswer)
          /\ \E r : Decide(w, r)
      BY <1>7 DEF StickyConflict, AtSource, Answered, At, Busy
    <2>2. CASE Send(job[w], "cancelled", FALSE)
      BY <2>1, <2>2, SendGrows DEF Terminal
    <2> QED  BY <1>1, <2>1, <2>2 DEF Decide
  <1>8. ASSUME NEW w \in Worker, AskConflict(w)
        PROVE  Grows /\ UNCHANGED nextId
    <2>1. /\ pc[w] = "item" /\ UNCHANGED nextId
          /\ conflictTx' = conflictTx \cup {job[w]}
          /\ events' = [events EXCEPT ![job[w]] = Append(@, Event("conflict", FALSE))]
      BY <1>8 DEF AskConflict, AtSource, At, Send
    <2>2. job[w] \in Ids /\ job[w] \notin conflictTx
      BY <2>1, NotAsked DEF Busy
    <2>3. /\ Event("conflict", FALSE) \in Events
          /\ Event("conflict", FALSE).kind = "conflict"
      BY DEF Event, Events
    <2>4. \A i \in Ids : events'[i] = IF i = job[w]
                                      THEN Append(events[i], Event("conflict", FALSE))
                                      ELSE events[i]
      BY <2>1 DEF IInv, TypeOK
    <2> QED  BY <2>1, <2>2, <2>3, <2>4 DEF Grows
  <1>9. ASSUME NEW w \in Worker, Finish(w)
        PROVE  Grows /\ UNCHANGED nextId
    <2>1. pc[w] = "finish" /\ conflictTx' = conflictTx \ {job[w]}
          /\ UNCHANGED <<nextId, events>>
      BY <1>9 DEF Finish, At
    <2>2. job[w] \notin conflictTx
      BY <2>1, NotAsked DEF Busy
    <2> QED  BY <2>1, <2>2 DEF Grows
  <1>10. TypeOK
    BY DEF IInv
  <1>11. ASSUME NEW w \in Worker, WorkerStep(w)
         PROVE  Grows /\ UNCHANGED nextId
    BY <1>1, <1>3, <1>4, <1>5, <1>6, <1>7, <1>8, <1>9, <1>10, <1>11, ReportCases
       DEF WorkerStep, Transfer
  <1> QED  BY <1>1, <1>2, <1>11

------------------------------------------------------------------------------
(***************************************************************************)
(* The inductive invariant.                                                *)
(***************************************************************************)

(* The window handles no event before it is sent. *)
SeenBound == \A i \in Ids : seen[i] <= Len(events[i])

(* A conflict that is not handled yet is the last event of its operation,   *)
(* and its worker still waits: only the window answers, and only what it    *)
(* has been told of.                                                        *)
UnseenWaits ==
  \A i \in Ids : \A k \in DOMAIN events[i] :
    k > seen[i] /\ events[i][k].kind = "conflict" =>
      i \in conflictTx /\ k = Len(events[i])

SysInv ==
  /\ IInv
  /\ SysTypeOK
  /\ SeenBound /\ UnseenWaits
  /\ PromptsMatchWorkers
  /\ UIAgreesWithEngine

(* What the window has shown stays true while the engine goes on. *)
LEMMA GrowsSysInv ==
  ASSUME SysInv, IInv', Grows, UNCHANGED <<uiVars, nextId>>
  PROVE  SysInv'
  <1> USE DEF uiVars
  <1>1. ASSUME NEW i \in Ids
        PROVE  /\ events[i] \in Seq(Events) /\ seen[i] \in Nat
               /\ seen[i] <= Len(events[i]) /\ Len(events[i]) \in Nat
               /\ Len(events'[i]) \in {Len(events[i]), Len(events[i]) + 1}
               /\ \A k \in 1 .. Len(events[i]) : events'[i][k] = events[i][k]
               /\ DOMAIN events[i] = 1 .. Len(events[i])
               /\ DOMAIN events'[i] = 1 .. Len(events'[i])
    <2>1. events[i] \in Seq(Events) /\ seen[i] \in Nat /\ seen[i] <= Len(events[i])
      BY DEF SysInv, IInv, TypeOK, SysTypeOK, SeenBound
    <2> QED  BY <2>1 DEF Grows
  <1>2. SysTypeOK'
    BY DEF SysInv, SysTypeOK, IInv
  <1>3. SeenBound'
    BY <1>1 DEF SeenBound
  <1>4. UnseenWaits'
    <2> SUFFICES ASSUME NEW i \in Ids, NEW k \in DOMAIN events'[i], k > seen[i],
                        events'[i][k].kind = "conflict"
                 PROVE  i \in conflictTx' /\ k = Len(events'[i])
      BY DEF UnseenWaits
    <2>1. CASE events'[i] = events[i] /\ (i \in conflictTx' <=> i \in conflictTx)
      BY <2>1 DEF SysInv, UnseenWaits
    <2>2. ASSUME NEW e \in Events, events'[i] = Append(events[i], e),
                 i \notin conflictTx, i \in conflictTx' <=> e.kind = "conflict"
          PROVE  i \in conflictTx' /\ k = Len(events'[i])
      <3>1. k \notin DOMAIN events[i]
        BY <1>1, <2>2 DEF SysInv, UnseenWaits
      <3>2. k = Len(events[i]) + 1 /\ Len(events'[i]) = Len(events[i]) + 1
        BY <1>1, <2>2, <3>1
      <3>3. events'[i][k] = e
        BY <1>1, <2>2, <3>2
      <3> QED  BY <2>2, <3>2, <3>3
    <2> QED  BY <2>1, <2>2 DEF Grows
  <1>5. PromptsMatchWorkers'
    <2>1. Shown' = Shown
      BY DEF Shown
    <2>2. conflictTx \subseteq conflictTx'
      BY DEF Grows, SysInv, IInv, TypeOK
    <2>3. ASSUME NEW i \in conflictTx' \ Shown
          PROVE  Unseen(i)'
      <3>1. i \in Ids
        BY DEF IInv, TypeOK
      <3>2. CASE i \in conflictTx
        BY <1>1, <3>1, <3>2 DEF SysInv, PromptsMatchWorkers, Unseen
      <3>3. CASE i \notin conflictTx
        <4>1. Len(events'[i]) = Len(events[i]) + 1
          BY <1>1, <3>1, <3>3 DEF Grows
        <4> QED  BY <1>1, <3>1, <4>1 DEF Unseen
      <3> QED  BY <3>2, <3>3
    <2>4. ASSUME NEW i \in Shown
          PROVE  ~Unseen(i)'
      <3>1. i \in conflictTx /\ i \in Ids /\ ~Unseen(i)
        BY DEF SysInv, PromptsMatchWorkers, IInv, TypeOK
      <3>2. events'[i] = events[i]
        BY <3>1 DEF Grows
      <3> QED  BY <3>1, <3>2 DEF Unseen
    <2> QED  BY <2>1, <2>2, <2>3, <2>4 DEF SysInv, PromptsMatchWorkers
  <1>6. UIAgreesWithEngine'
    <2>1. \A i \in Ids : OutcomeSeen(i)' <=> OutcomeSeen(i)
      BY <1>1 DEF OutcomeSeen
    <2>2. 1 .. nextId - 1 \subseteq Ids
      BY OpQueueAssumption DEF SysInv, IInv, TypeOK, Ids
    <2> QED  BY <2>1, <2>2 DEF SysInv, UIAgreesWithEngine, RowActive
  <1> QED  BY <1>2, <1>3, <1>4, <1>5, <1>6 DEF SysInv

(* A submission: the operation is pending and nothing is reported of it. *)
LEMMA SubmitSysInv ==
  ASSUME SysInv, IInv', NEW o \in Operations, SubmitOp(o)
  PROVE  SysInv'
  <1> PICK n \in Ids : n = nextId
    BY DEF SubmitOp, Submit
  <1>1. /\ nextId' = n + 1 /\ pendingOps' = pendingOps \cup {n}
        /\ UNCHANGED <<events, conflictTx, seen, view, conflict, conflictQueue, default>>
    BY DEF SubmitOp, Submit
  <1>2. n \in Nat \ {0} /\ events[n] = <<>>
    BY OpQueueAssumption DEF SysInv, IInv, Logs, LogFits, Ids
  <1>3. SysTypeOK' /\ SeenBound' /\ UnseenWaits'
    BY <1>1 DEF SysInv, SysTypeOK, IInv, SeenBound, UnseenWaits
  <1>4. PromptsMatchWorkers'
    BY <1>1 DEF SysInv, PromptsMatchWorkers, Shown, Unseen
  <1>5. ~OutcomeSeen(n)
    BY <1>2 DEF SysInv, SeenBound, SysTypeOK, OutcomeSeen
  <1>6. \A i \in Ids : OutcomeSeen(i)' <=> OutcomeSeen(i)
    BY <1>1 DEF OutcomeSeen
  <1>7. 1 .. nextId' - 1 = 1 .. n /\ 1 .. n \subseteq Ids /\ 1 .. n = (1 .. nextId - 1) \cup {n}
    BY <1>1, <1>2, OpQueueAssumption DEF Ids
  <1>8. UIAgreesWithEngine'
    <2>1. pendingOps = {i \in 1 .. nextId - 1 : ~OutcomeSeen(i)}
      BY DEF SysInv, UIAgreesWithEngine
    <2>2. pendingOps' = {i \in 1 .. n : ~OutcomeSeen(i)}
      BY <1>1, <1>5, <1>7, <2>1
    <2>3. pendingOps' = {i \in 1 .. nextId' - 1 : ~OutcomeSeen(i)'}
      BY <1>6, <1>7, <2>2
    <2> QED  BY <1>1, <1>6, <2>3 DEF SysInv, UIAgreesWithEngine, RowActive
  <1> QED  BY <1>3, <1>4, <1>8 DEF SysInv

(* The next event about i is handled: what that does to the counts. *)
LEMMA TakesEffect ==
  ASSUME SysInv, NEW i \in Ids, NEW kinds, Takes(i, kinds), UNCHANGED events
  PROVE  /\ seen' \in [Ids -> Nat] /\ SeenBound'
         /\ seen'[i] = seen[i] + 1 /\ \A j \in Ids \ {i} : seen'[j] = seen[j]
         /\ seen[i] + 1 \in DOMAIN events[i] /\ events[i][seen[i] + 1].kind \in kinds
         /\ i < nextId
         /\ \A j \in Ids \ {i} : OutcomeSeen(j)' <=> OutcomeSeen(j)
         /\ OutcomeSeen(i)' <=> OutcomeSeen(i) \/ events[i][seen[i] + 1].kind \in Terminal
  <1>1. /\ events[i] \in Seq(Events) /\ seen \in [Ids -> Nat]
        /\ \A j \in Ids : seen[j] <= Len(events[j])
    BY DEF SysInv, IInv, TypeOK, SysTypeOK, SeenBound
  <1>2. /\ seen[i] < Len(events[i]) /\ seen' = [seen EXCEPT ![i] = @ + 1]
        /\ events[i][seen[i] + 1].kind \in kinds
    BY DEF Takes
  <1>3. /\ seen' \in [Ids -> Nat]
        /\ seen'[i] = seen[i] + 1 /\ \A j \in Ids \ {i} : seen'[j] = seen[j]
    BY <1>1, <1>2
  <1>4. SeenBound'
    BY <1>1, <1>2, <1>3 DEF SeenBound
  <1>5. seen[i] + 1 \in DOMAIN events[i]
    BY <1>1, <1>2
  <1>6. i < nextId
    <2>1. events[i] # <<>>
      BY <1>1, <1>2
    <2>2. i \in Nat /\ nextId \in Nat
      BY OpQueueAssumption DEF SysInv, IInv, TypeOK, Ids
    <2> QED  BY <2>1, <2>2 DEF SysInv, IInv, Logs, LogFits
  <1>7. \A j \in Ids \ {i} : OutcomeSeen(j)' <=> OutcomeSeen(j)
    BY <1>3 DEF OutcomeSeen
  <1>8. 1 .. seen'[i] = (1 .. seen[i]) \cup {seen[i] + 1}
    BY <1>1, <1>3
  <1>9. OutcomeSeen(i)' <=> OutcomeSeen(i) \/ events[i][seen[i] + 1].kind \in Terminal
    BY <1>8 DEF OutcomeSeen
  <1> QED  BY <1>2, <1>3, <1>4, <1>5, <1>6, <1>7, <1>9

(* Where an event stands in its log. *)
LEMMA EventPlace ==
  ASSUME SysInv, NEW i \in Ids, seen[i] + 1 \in DOMAIN events[i]
  PROVE  /\ events[i][seen[i] + 1].kind = "started" => seen[i] = 0
         /\ events[i][seen[i] + 1].kind = "conflict" => seen[i] > 0
         /\ ~OutcomeSeen(i)
  <1>1. events[i] \in Seq(Events) /\ seen[i] \in Nat /\ InOrder(events[i])
    BY DEF SysInv, IInv, TypeOK, SysTypeOK, Logs, LogFits
  <1>2. events[i][seen[i] + 1].kind = "started" => seen[i] = 0
    BY <1>1 DEF InOrder
  <1>3. ASSUME events[i][seen[i] + 1].kind = "conflict", seen[i] = 0
        PROVE  FALSE
    <2>1. events[i] = <<LoneCancel>>
      BY <1>1, <1>3 DEF InOrder
    <2> QED  BY <1>3, <2>1 DEF LoneCancel, Event
  <1>4. ~OutcomeSeen(i)
    BY <1>1 DEF OutcomeSeen, InOrder
  <1> QED  BY <1>1, <1>2, <1>3, <1>4

(* A worker that waits has reported its conflict last. *)
LEMMA WaitingLast ==
  ASSUME SysInv, NEW i \in conflictTx
  PROVE  i \in Ids /\ events[i][Len(events[i])].kind = "conflict"
  BY DEF SysInv, IInv, TypeOK, PromptsOpen, AskedLast

(* A start or an outcome is handled: it is not what a prompt waits for. *)
LEMMA PlainPrompts ==
  ASSUME SysInv, NEW i \in Ids, NEW kinds, Takes(i, kinds), "conflict" \notin kinds,
         UNCHANGED <<events, conflictTx, conflict, conflictQueue>>
  PROVE  UnseenWaits' /\ PromptsMatchWorkers'
  <1>1. /\ seen'[i] = seen[i] + 1 /\ \A j \in Ids \ {i} : seen'[j] = seen[j]
        /\ seen[i] + 1 \in DOMAIN events[i] /\ events[i][seen[i] + 1].kind # "conflict"
    BY TakesEffect
  <1>2. /\ \A j \in Ids : seen[j] \in Nat /\ events[j] \in Seq(Events)
        /\ conflictTx \subseteq Ids
    BY DEF SysInv, IInv, TypeOK, SysTypeOK
  <1>3. UnseenWaits'
    BY <1>1, <1>2 DEF SysInv, UnseenWaits
  <1>4. Shown' = Shown
    BY DEF Shown
  <1>5. Unseen(i) /\ i \notin Shown
    BY <1>1, <1>2 DEF Unseen, SysInv, PromptsMatchWorkers
  <1>6. ASSUME NEW j \in conflictTx \ Shown
        PROVE  Unseen(j)'
    <2>1. CASE j = i
      <3>1. seen[i] + 1 # Len(events[i])
        BY <1>1, <2>1, WaitingLast
      <3> QED  BY <1>1, <1>2, <2>1, <3>1 DEF Unseen
    <2>2. CASE j # i
      BY <1>1, <1>2, <2>2 DEF Unseen, SysInv, PromptsMatchWorkers
    <2> QED  BY <2>1, <2>2
  <1>7. ASSUME NEW j \in Shown
        PROVE  ~Unseen(j)'
    <2>1. j \in Ids /\ j # i
      BY <1>2, <1>5 DEF SysInv, PromptsMatchWorkers
    <2> QED  BY <1>1, <2>1 DEF Unseen, SysInv, PromptsMatchWorkers
  <1> QED  BY <1>3, <1>4, <1>6, <1>7 DEF SysInv, PromptsMatchWorkers

(* The window learns that an operation has started. *)
LEMMA StartedSysInv ==
  ASSUME SysInv, IInv', NEW i \in Ids, OnStarted(i)
  PROVE  SysInv'
  <1>1. /\ Takes(i, {"started"})
        /\ UNCHANGED <<nextId, events, conflictTx, pendingOps, conflict, conflictQueue,
                       default>>
        /\ view' = [j \in Ids |-> IF j = i THEN "active"
                            ELSE IF Cardinality(Rows \cup {i}) > ViewLimit
                                    /\ view[j] = "finished"
                            THEN "absent" ELSE view[j]]
    BY DEF OnStarted, vars
  <1>2. /\ seen' \in [Ids -> Nat] /\ SeenBound'
        /\ seen'[i] = seen[i] + 1 /\ \A j \in Ids \ {i} : seen'[j] = seen[j]
        /\ seen[i] + 1 \in DOMAIN events[i] /\ events[i][seen[i] + 1].kind = "started"
        /\ \A j \in Ids \ {i} : OutcomeSeen(j)' <=> OutcomeSeen(j)
        /\ OutcomeSeen(i)' <=> OutcomeSeen(i) \/ events[i][seen[i] + 1].kind \in Terminal
    BY <1>1, TakesEffect
  <1>3. ~OutcomeSeen(i) /\ ~OutcomeSeen(i)'
    BY <1>2, EventPlace DEF Terminal
  <1>4. UnseenWaits' /\ PromptsMatchWorkers'
    BY <1>1, PlainPrompts
  <1>5. SysTypeOK'
    BY <1>1, <1>2 DEF SysInv, SysTypeOK, IInv
  <1>6. UIAgreesWithEngine'
    <2>1. 1 .. nextId - 1 \subseteq Ids
      BY OpQueueAssumption DEF SysInv, IInv, TypeOK, Ids
    <2>2. pendingOps' = {j \in 1 .. nextId' - 1 : ~OutcomeSeen(j)'}
      BY <1>1, <1>2, <1>3, <2>1 DEF SysInv, UIAgreesWithEngine
    <2>3. \A j \in Ids \ {i} : RowActive(j)' <=> RowActive(j)
      BY <1>1 DEF RowActive
    <2>4. RowActive(i)' /\ seen'[i] > 0
      BY <1>1, <1>2 DEF RowActive, SysInv, SysTypeOK
    <2> QED  BY <1>2, <1>3, <2>2, <2>3, <2>4 DEF SysInv, UIAgreesWithEngine
  <1> QED  BY <1>2, <1>4, <1>5, <1>6 DEF SysInv

(* The window learns that an operation has ended. *)
LEMMA EndedSysInv ==
  ASSUME SysInv, IInv', NEW i \in Ids, OnEnded(i)
  PROVE  SysInv'
  <1>1. /\ Takes(i, Terminal)
        /\ UNCHANGED <<nextId, events, conflictTx, conflict, conflictQueue, default>>
        /\ pendingOps' = pendingOps \ {i}
        /\ view' = [view EXCEPT ![i] =
                      IF @ = "absent" THEN @
                      ELSE IF events[i][seen[i] + 1].kind = "done" THEN "finished"
                      ELSE "error"]
    BY DEF OnEnded, vars
  <1>2. /\ seen' \in [Ids -> Nat] /\ SeenBound'
        /\ seen'[i] = seen[i] + 1 /\ \A j \in Ids \ {i} : seen'[j] = seen[j]
        /\ events[i][seen[i] + 1].kind \in Terminal
        /\ \A j \in Ids \ {i} : OutcomeSeen(j)' <=> OutcomeSeen(j)
        /\ OutcomeSeen(i)'
    BY <1>1, TakesEffect
  <1>3. UnseenWaits' /\ PromptsMatchWorkers'
    BY <1>1, PlainPrompts DEF Terminal
  <1>4. SysTypeOK'
    BY <1>1, <1>2 DEF SysInv, SysTypeOK, IInv
  <1>5. UIAgreesWithEngine'
    <2>1. 1 .. nextId - 1 \subseteq Ids
      BY OpQueueAssumption DEF SysInv, IInv, TypeOK, Ids
    <2>2. pendingOps' = {j \in 1 .. nextId' - 1 : ~OutcomeSeen(j)'}
      BY <1>1, <1>2, <2>1 DEF SysInv, UIAgreesWithEngine
    <2>3. \A j \in Ids \ {i} : RowActive(j)' <=> RowActive(j)
      BY <1>1 DEF RowActive, SysInv, SysTypeOK
    <2>4. ~RowActive(i)'
      BY <1>1 DEF RowActive, SysInv, SysTypeOK
    <2> QED  BY <1>2, <2>2, <2>3, <2>4 DEF SysInv, UIAgreesWithEngine
  <1> QED  BY <1>2, <1>3, <1>4, <1>5 DEF SysInv

(* A conflict is handled: it is the last event, and of a worker that waits. *)
LEMMA ConflictTaken ==
  ASSUME SysInv, NEW i \in Ids, Takes(i, {"conflict"}), UNCHANGED <<events, nextId>>
  PROVE  /\ seen' \in [Ids -> Nat] /\ SeenBound'
         /\ seen'[i] = Len(events[i]) /\ \A j \in Ids \ {i} : seen'[j] = seen[j]
         /\ i \in conflictTx /\ i \notin Shown /\ ~Unseen(i)'
         /\ seen[i] > 0 /\ seen'[i] > 0
         /\ \A j \in Ids : OutcomeSeen(j)' <=> OutcomeSeen(j)
  <1>1. /\ seen' \in [Ids -> Nat] /\ SeenBound'
        /\ seen'[i] = seen[i] + 1 /\ \A j \in Ids \ {i} : seen'[j] = seen[j]
        /\ seen[i] + 1 \in DOMAIN events[i] /\ events[i][seen[i] + 1].kind = "conflict"
        /\ \A j \in Ids \ {i} : OutcomeSeen(j)' <=> OutcomeSeen(j)
        /\ OutcomeSeen(i)' <=> OutcomeSeen(i) \/ events[i][seen[i] + 1].kind \in Terminal
    BY TakesEffect
  <1>2. /\ seen[i] \in Nat /\ events[i] \in Seq(Events)
    BY DEF SysInv, IInv, TypeOK, SysTypeOK
  <1>3. i \in conflictTx /\ seen[i] + 1 = Len(events[i])
    BY <1>1, <1>2 DEF SysInv, UnseenWaits
  <1>4. i \notin Shown
    BY <1>2, <1>3 DEF SysInv, PromptsMatchWorkers, Unseen
  <1>5. seen[i] > 0
    BY <1>1, EventPlace
  <1>6. ~Unseen(i)'
    BY <1>1, <1>2, <1>3 DEF Unseen
  <1> QED  BY <1>1, <1>2, <1>3, <1>4, <1>5, <1>6 DEF Terminal

(* Rows and pending operations as they were. *)
LEMMA SameRows ==
  ASSUME SysInv, UNCHANGED <<nextId, pendingOps, view>>,
         \A j \in Ids : OutcomeSeen(j)' <=> OutcomeSeen(j),
         \A j \in Ids : seen'[j] > 0 <=> seen[j] > 0
  PROVE  UIAgreesWithEngine'
  <1>1. 1 .. nextId - 1 \subseteq Ids
    BY OpQueueAssumption DEF SysInv, IInv, TypeOK, Ids
  <1> QED  BY <1>1 DEF SysInv, UIAgreesWithEngine, RowActive

(* The window shows a prompt. *)
LEMMA ConflictAskSysInv ==
  ASSUME SysInv, IInv', NEW i \in Ids, OnConflictAsk(i)
  PROVE  SysInv'
  <1>1. /\ Takes(i, {"conflict"})
        /\ UNCHANGED <<nextId, events, conflictTx, view, pendingOps, default>>
        /\ IF conflict = NoJob
           THEN conflict' = i /\ UNCHANGED conflictQueue
           ELSE conflictQueue' = Append(conflictQueue, i) /\ UNCHANGED conflict
    BY DEF OnConflictAsk, vars
  <1>2. /\ seen' \in [Ids -> Nat] /\ SeenBound'
        /\ seen'[i] = Len(events[i]) /\ \A j \in Ids \ {i} : seen'[j] = seen[j]
        /\ i \in conflictTx /\ i \notin Shown /\ ~Unseen(i)'
        /\ seen[i] > 0 /\ seen'[i] > 0
        /\ \A j \in Ids : OutcomeSeen(j)' <=> OutcomeSeen(j)
    BY <1>1, ConflictTaken
  <1>3. /\ conflictQueue \in Seq(Ids) /\ conflict \in Ids \cup {NoJob}
        /\ \A j \in Ids : events[j] \in Seq(Events)
        /\ conflictTx \subseteq Ids /\ i # NoJob
    <2>1. i # NoJob
      BY DEF Ids, NoJob
    <2> QED  BY <2>1 DEF SysInv, SysTypeOK, IInv, TypeOK
  <1>4. SysTypeOK'
    <2>1. conflictQueue' \in Seq(Ids)
      BY <1>1, <1>3, AppendType
    <2> QED  BY <1>1, <1>2, <1>3, <2>1 DEF SysInv, SysTypeOK, IInv
  <1>5. UnseenWaits'
    BY <1>1, <1>2, <1>3 DEF SysInv, UnseenWaits
  <1>6. UIAgreesWithEngine'
    <2>1. \A j \in Ids : seen'[j] > 0 <=> seen[j] > 0
      BY <1>2
    <2> QED  BY <1>1, <1>2, <2>1, SameRows
  <1>7. /\ Shown' = Shown \cup {i}
        /\ IsInjective(conflictQueue') /\ conflict' \notin ToSet(conflictQueue')
        /\ conflict' = NoJob => conflictQueue' = <<>>
    <2>1. /\ IsInjective(conflictQueue) /\ conflict \notin ToSet(conflictQueue)
          /\ conflict = NoJob => conflictQueue = <<>>
          /\ i \notin ToSet(conflictQueue) /\ (conflict # NoJob => conflict # i)
      BY <1>2 DEF SysInv, PromptsMatchWorkers, Shown
    <2>2. CASE conflict = NoJob
      BY <1>1, <1>3, <2>1, <2>2 DEF Shown, ToSet
    <2>3. CASE conflict # NoJob
      <3>1. /\ DOMAIN conflictQueue' = DOMAIN conflictQueue \cup {Len(conflictQueue) + 1}
            /\ conflictQueue'[Len(conflictQueue) + 1] = i
            /\ \A k \in DOMAIN conflictQueue : conflictQueue'[k] = conflictQueue[k]
            /\ conflict' = conflict
        BY <1>1, <1>3, <2>3
      <3>2. ToSet(conflictQueue') = ToSet(conflictQueue) \cup {i}
        BY <3>1 DEF ToSet
      <3>3. IsInjective(conflictQueue')
        BY <2>1, <3>1 DEF IsInjective, ToSet
      <3> QED  BY <2>1, <2>3, <3>1, <3>2, <3>3 DEF Shown
    <2> QED  BY <2>2, <2>3
  <1>8. PromptsMatchWorkers'
    <2>1. \A j \in conflictTx' \ Shown' : Unseen(j)'
      BY <1>1, <1>2, <1>3, <1>7 DEF SysInv, PromptsMatchWorkers, Unseen
    <2>2. \A j \in Shown' : ~Unseen(j)'
      BY <1>1, <1>2, <1>3, <1>7 DEF SysInv, PromptsMatchWorkers, Unseen
    <2> QED  BY <1>1, <1>2, <1>7, <2>1, <2>2 DEF SysInv, PromptsMatchWorkers
  <1> QED  BY <1>2, <1>4, <1>5, <1>6, <1>8 DEF SysInv

(* The default of the settings answers as soon as the conflict is handled. *)
LEMMA ConflictDefaultSysInv ==
  ASSUME SysInv, IInv', NEW i \in Ids, OnConflictDefault(i)
  PROVE  SysInv'
  <1>1. /\ Takes(i, {"conflict"}) /\ conflictTx' = conflictTx \ {i}
        /\ UNCHANGED <<nextId, events, view, pendingOps, default, conflict,
                       conflictQueue>>
    BY DEF OnConflictDefault, ResolveConflict, ResolveConflicts, queueVars
  <1>2. /\ seen' \in [Ids -> Nat] /\ SeenBound'
        /\ seen'[i] = Len(events[i]) /\ \A j \in Ids \ {i} : seen'[j] = seen[j]
        /\ i \notin Shown /\ seen[i] > 0 /\ seen'[i] > 0
        /\ \A j \in Ids : OutcomeSeen(j)' <=> OutcomeSeen(j)
    BY <1>1, ConflictTaken
  <1>3. \A j \in Ids : events[j] \in Seq(Events)
    BY DEF SysInv, IInv, TypeOK
  <1>4. SysTypeOK'
    BY <1>1, <1>2 DEF SysInv, SysTypeOK, IInv
  <1>5. UnseenWaits'
    BY <1>1, <1>2, <1>3 DEF SysInv, UnseenWaits
  <1>6. UIAgreesWithEngine'
    <2>1. \A j \in Ids : seen'[j] > 0 <=> seen[j] > 0
      BY <1>2
    <2> QED  BY <1>1, <1>2, <2>1, SameRows
  <1>7. PromptsMatchWorkers'
    <2>1. Shown' = Shown /\ conflictTx \subseteq Ids
      BY <1>1 DEF Shown, SysInv, IInv, TypeOK
    <2>2. Shown \subseteq conflictTx'
      BY <1>1, <1>2 DEF SysInv, PromptsMatchWorkers
    <2>3. \A j \in Ids \ {i} : Unseen(j)' <=> Unseen(j)
      BY <1>1, <1>2 DEF Unseen
    <2> QED  BY <1>1, <1>2, <2>1, <2>2, <2>3 DEF SysInv, PromptsMatchWorkers
  <1> QED  BY <1>2, <1>4, <1>5, <1>6, <1>7 DEF SysInv

(* Prompts in front of the user are answered. *)
LEMMA AnswerSysInv ==
  ASSUME SysInv, IInv', NEW S \in SUBSET Shown, NEW r, NEW all,
         ResolveConflicts(S, r, all), Shown' = Shown \ S,
         conflict' \in Ids \cup {NoJob}, conflictQueue' \in Seq(Ids),
         IsInjective(conflictQueue'), conflict' \notin ToSet(conflictQueue'),
         conflict' = NoJob => conflictQueue' = <<>>,
         UNCHANGED <<seen, view, pendingOps, default>>
  PROVE  SysInv'
  <1>1. /\ conflictTx' = conflictTx \ S /\ UNCHANGED <<nextId, events>>
    BY DEF ResolveConflicts, queueVars
  <1>2. SysTypeOK' /\ SeenBound'
    BY <1>1 DEF SysInv, SysTypeOK, IInv, SeenBound
  <1>3. UnseenWaits'
    <2> SUFFICES ASSUME NEW i \in Ids, NEW k \in DOMAIN events[i], k > seen[i],
                        events[i][k].kind = "conflict"
                 PROVE  i \in conflictTx' /\ k = Len(events[i])
      BY <1>1 DEF UnseenWaits
    <2>1. i \in conflictTx /\ k = Len(events[i])
      BY DEF SysInv, UnseenWaits
    <2>2. Unseen(i)
      BY <2>1 DEF Unseen, SysInv, SysTypeOK, IInv, TypeOK
    <2> QED  BY <1>1, <2>1, <2>2 DEF SysInv, PromptsMatchWorkers
  <1>4. PromptsMatchWorkers'
    BY <1>1 DEF SysInv, PromptsMatchWorkers, Unseen
  <1>5. UIAgreesWithEngine'
    BY <1>1, SameRows DEF OutcomeSeen
  <1> QED  BY <1>2, <1>3, <1>4, <1>5 DEF SysInv

(* The user answers a prompt. *)
LEMMA AnswerConflictSysInv ==
  ASSUME SysInv, IInv', NEW r, NEW all, AnswerConflict(r, all)
  PROVE  SysInv'
  <1>1. /\ conflict # NoJob /\ ResolveConflicts({conflict}, r, all)
        /\ conflict' = IF conflictQueue = <<>> THEN NoJob ELSE Head(conflictQueue)
        /\ conflictQueue' = IF conflictQueue = <<>> THEN <<>> ELSE Tail(conflictQueue)
        /\ UNCHANGED <<seen, view, pendingOps, default>>
    BY DEF AnswerConflict, ResolveConflict
  <1>2. /\ conflictQueue \in Seq(Ids) /\ conflict \in Ids
        /\ IsInjective(conflictQueue) /\ conflict \notin ToSet(conflictQueue)
        /\ NoJob \notin Ids
    BY <1>1 DEF SysInv, SysTypeOK, PromptsMatchWorkers, NoJob, Ids
  <1>3. {conflict} \in SUBSET Shown
    BY <1>1 DEF Shown
  <1>4. CASE conflictQueue = <<>>
    <2>1. ToSet(conflictQueue) = {} /\ ToSet(conflictQueue') = {}
      BY <1>1, <1>4 DEF ToSet
    <2>2. Shown' = Shown \ {conflict} /\ IsInjective(conflictQueue')
      BY <1>1, <1>4, <2>1 DEF Shown, IsInjective
    <2> QED  BY <1>1, <1>2, <1>3, <1>4, <2>1, <2>2, AnswerSysInv
  <1>5. CASE conflictQueue # <<>>
    <2> DEFINE q == conflictQueue
               t == Tail(conflictQueue)
    <2>1. /\ Len(q) \in Nat /\ Len(q) >= 1 /\ DOMAIN q = 1 .. Len(q)
          /\ t \in Seq(Ids) /\ DOMAIN t = 1 .. Len(q) - 1
          /\ \A k \in DOMAIN t : k + 1 \in DOMAIN q /\ t[k] = q[k + 1]
          /\ Head(q) = q[1] /\ Head(q) \in Ids
      BY <1>2, <1>5
    <2>2. \A k \in DOMAIN q : k = 1 \/ (k - 1 \in DOMAIN t /\ t[k - 1] = q[k])
      BY <2>1
    <2>3. ToSet(q) = {Head(q)} \cup ToSet(t)
      BY <2>1, <2>2 DEF ToSet
    <2>4. IsInjective(t)
      <3> SUFFICES ASSUME NEW a \in DOMAIN t, NEW b \in DOMAIN t, t[a] = t[b]
                   PROVE  a = b
        BY DEF IsInjective
      <3>1. a + 1 = b + 1
        BY <1>2, <2>1 DEF IsInjective
      <3> QED  BY <2>1, <3>1
    <2>5. Head(q) \notin ToSet(t)
      <3> SUFFICES ASSUME NEW k \in DOMAIN t, t[k] = Head(q)
                   PROVE  FALSE
        BY DEF ToSet
      <3>1. k + 1 = 1
        BY <1>2, <2>1 DEF IsInjective
      <3> QED  BY <2>1, <3>1
    <2>6. Shown' = Shown \ {conflict}
      BY <1>1, <1>2, <1>5, <2>1, <2>3 DEF Shown
    <2> QED  BY <1>1, <1>2, <1>3, <1>5, <2>1, <2>4, <2>5, <2>6, AnswerSysInv
  <1> QED  BY <1>4, <1>5

(* The user dismisses what floats above the window. *)
LEMMA DismissSysInv ==
  ASSUME SysInv, IInv', DismissPrompts
  PROVE  SysInv'
  <1>1. /\ conflict # NoJob
        /\ ResolveConflicts({conflict} \cup ToSet(conflictQueue), "cancel", FALSE)
        /\ conflict' = NoJob /\ conflictQueue' = <<>>
        /\ UNCHANGED <<seen, view, pendingOps, default>>
    BY DEF DismissPrompts
  <1>2. {conflict} \cup ToSet(conflictQueue) = Shown
    BY <1>1 DEF Shown
  <1>3. ToSet(<<>>) = {} /\ IsInjective(<<>>) /\ <<>> \in Seq(Ids)
    BY DEF ToSet, IsInjective
  <1>4. Shown' = {}
    BY <1>1, <1>3 DEF Shown
  <1> HIDE DEF Shown
  <1> QED  BY <1>1, <1>2, <1>3, <1>4, AnswerSysInv

(* Steps of the window that leave the engine and what is shown of prompts. *)
LEMMA PanelSysInv ==
  ASSUME SysInv, IInv', \/ DismissErrors \/ \E d \in Defaults : ChangeDefault(d)
  PROVE  SysInv'
  <1>1. /\ UNCHANGED <<vars, seen, pendingOps, conflict, conflictQueue>>
        /\ default' \in Defaults
        /\ view' \in [Ids -> {"absent", "active", "finished", "error"}]
        /\ \A i \in Ids : view'[i] = "active" <=> view[i] = "active"
    BY DEF DismissErrors, ChangeDefault, SysInv, SysTypeOK
  <1>2. UNCHANGED <<nextId, events, conflictTx>>
    BY <1>1 DEF vars
  <1>3. SysTypeOK' /\ SeenBound' /\ UnseenWaits'
    BY <1>1, <1>2 DEF SysInv, SysTypeOK, IInv, SeenBound, UnseenWaits
  <1>4. PromptsMatchWorkers'
    BY <1>1, <1>2 DEF SysInv, PromptsMatchWorkers, Shown, Unseen
  <1>5. UIAgreesWithEngine'
    BY <1>1, <1>2 DEF SysInv, UIAgreesWithEngine, OutcomeSeen, RowActive
  <1> QED  BY <1>3, <1>4, <1>5 DEF SysInv

(* Every step of the whole is one of the engine, or leaves it as it is. *)
LEMMA SysStepIsStep ==
  ASSUME SysInv, SysNext
  PROVE  [Step]_vars
  <1>1. \A S, r, all : S \in SUBSET Ids /\ r \in Resolutions /\ all \in BOOLEAN
                       /\ ResolveConflicts(S, r, all) => Step
    BY DEF Step
  <1>2. ASSUME NEW o \in Operations, SubmitOp(o)
        PROVE  Step
    BY <1>2 DEF SubmitOp, Step, Next, OwnerStep
  <1>3. ASSUME \/ \E i \in Ids : PauseButton(i) \/ ResumeButton(i) \/ CancelButton(i)
               \/ PauseAllButton \/ ResumeAllButton \/ CancelAllButton
               \/ \E n \in JobCaps : ChangeJobs(n)
               \/ \E w \in Worker : WorkerRuns(w)
        PROVE  Step
    BY <1>3 DEF PauseButton, ResumeButton, CancelButton, PauseAllButton,
                ResumeAllButton, CancelAllButton, ChangeJobs, WorkerRuns, Step,
                Next, OwnerStep
  <1>4. ASSUME DismissErrors \/ (\E d \in Defaults : ChangeDefault(d))
        PROVE  UNCHANGED vars
    BY <1>4 DEF DismissErrors, ChangeDefault
  <1>5. ASSUME DismissPrompts
        PROVE  Step
    <2>1. {conflict} \cup ToSet(conflictQueue) \subseteq Ids
      <3>1. conflictQueue \in Seq(Ids) /\ conflict \in Ids
        BY <1>5 DEF DismissPrompts, SysInv, SysTypeOK
      <3> QED  BY <3>1 DEF ToSet
    <2> QED  BY <1>1, <1>5, <2>1 DEF DismissPrompts, Resolutions
  <1>6. ASSUME NEW r \in Resolutions, NEW all \in BOOLEAN, AnswerConflict(r, all)
        PROVE  Step
    BY <1>1, <1>6 DEF AnswerConflict, ResolveConflict, SysInv, SysTypeOK
  <1>7. ASSUME NEW i \in Ids, HandleOpEvent(i)
        PROVE  [Step]_vars
    <2>1. CASE OnStarted(i) \/ OnConflictAsk(i) \/ OnEnded(i)
      BY <2>1 DEF OnStarted, OnConflictAsk, OnEnded
    <2>2. CASE OnConflictDefault(i)
      <3>1. default \in Resolutions
        BY <2>2, OpSystemAssumption DEF OnConflictDefault, SysInv, SysTypeOK, Resolutions
      <3> QED  BY <1>1, <2>2, <3>1 DEF OnConflictDefault, ResolveConflict
    <2> QED  BY <1>7, <2>1, <2>2 DEF HandleOpEvent
  <1> QED  BY <1>2, <1>3, <1>4, <1>5, <1>6, <1>7 DEF SysNext

(* Every step of engine or window keeps the invariant. *)
LEMMA SysInvStep ==
  ASSUME SysInv, [SysNext]_sysVars
  PROVE  SysInv'
  <1>1. CASE UNCHANGED sysVars
    <2>1. UNCHANGED <<vars, uiVars>>
      BY <1>1 DEF sysVars
    <2>2. IInv'
      BY <2>1, StepIInv DEF SysInv
    <2>3. Grows /\ UNCHANGED nextId
      BY <2>1 DEF vars, Grows
    <2> QED  BY <2>1, <2>2, <2>3, GrowsSysInv
  <1>2. CASE SysNext
    <2>1. IInv'
      BY <1>2, SysStepIsStep, StepIInv DEF SysInv
    <2>2. ASSUME NEW o \in Operations, SubmitOp(o)
          PROVE  SysInv'
      BY <2>1, <2>2, SubmitSysInv
    <2>3. ASSUME \/ \E i \in Ids : PauseButton(i) \/ ResumeButton(i) \/ CancelButton(i)
                 \/ PauseAllButton \/ ResumeAllButton \/ CancelAllButton
                 \/ \E n \in JobCaps : ChangeJobs(n)
                 \/ \E w \in Worker : WorkerRuns(w)
          PROVE  SysInv'
      <3>1. UNCHANGED uiVars
        BY <2>3 DEF PauseButton, ResumeButton, CancelButton, PauseAllButton,
                    ResumeAllButton, CancelAllButton, ChangeJobs, WorkerRuns
      <3>2. \/ \E S \in SUBSET Ids :
                 \/ SwapFlags(S, "none", "paused") \/ SwapFlags(S, "paused", "none")
                 \/ SetCancelled(S)
            \/ \E n \in JobCaps : SetMaxJobs(n)
            \/ \E w \in Worker : WorkerStep(w)
        BY <2>3 DEF PauseButton, ResumeButton, CancelButton, PauseAllButton,
                    ResumeAllButton, CancelAllButton, ChangeJobs, WorkerRuns,
                    Pause, Resume, PauseAll, ResumeAll, Cancel, CancelAll
      <3>3. Grows /\ UNCHANGED nextId
        BY <3>2, EngineGrows DEF SysInv
      <3> QED  BY <2>1, <3>1, <3>3, GrowsSysInv
    <2>4. ASSUME NEW i \in Ids, HandleOpEvent(i)
          PROVE  SysInv'
      BY <2>1, <2>4, StartedSysInv, ConflictAskSysInv, ConflictDefaultSysInv,
         EndedSysInv DEF HandleOpEvent
    <2>5. ASSUME DismissErrors \/ (\E d \in Defaults : ChangeDefault(d))
          PROVE  SysInv'
      BY <2>1, <2>5, PanelSysInv
    <2>6. ASSUME DismissPrompts \/ (\E r \in Resolutions, all \in BOOLEAN :
                                      AnswerConflict(r, all))
          PROVE  SysInv'
      BY <2>1, <2>6, DismissSysInv, AnswerConflictSysInv
    <2> QED  BY <1>2, <2>2, <2>3, <2>4, <2>5, <2>6 DEF SysNext
  <1> QED  BY <1>1, <1>2

(* At the start there is nothing to show. *)
LEMMA SysInitInv ==
  ASSUME SysInit
  PROVE  SysInv
  <1>1. IInv
    BY InitIInv DEF SysInit
  <1>2. SysTypeOK
    <2>1. <<>> \in Seq(Ids)
      OBVIOUS
    <2> QED  BY <1>1, <2>1 DEF SysInit, SysTypeOK, IInv
  <1>3. /\ seen = [i \in Ids |-> 0] /\ events = [i \in Ids |-> <<>>]
        /\ nextId = 1 /\ conflictTx = {}
    BY DEF SysInit, Init
  <1>4. SeenBound /\ UnseenWaits
    BY <1>3 DEF SeenBound, UnseenWaits
  <1>5. Shown = {} /\ ToSet(conflictQueue) = {} /\ IsInjective(conflictQueue)
    BY DEF SysInit, Shown, ToSet, IsInjective
  <1>6. PromptsMatchWorkers
    BY <1>3, <1>5 DEF SysInit, PromptsMatchWorkers
  <1>7. UIAgreesWithEngine
    BY <1>3 DEF SysInit, UIAgreesWithEngine, RowActive
  <1> QED  BY <1>1, <1>2, <1>4, <1>6, <1>7 DEF SysInv

(* The inductive invariant holds in every reachable state of the whole. *)
THEOREM SysInvariance == SysSpec => []SysInv
  <1>1. SysInit => SysInv
    BY SysInitInv
  <1>2. SysInv /\ [SysNext]_sysVars => SysInv'
    BY SysInvStep
  <1> QED  BY <1>1, <1>2, PTL DEF SysSpec

(* Every worker that is blocked on a conflict is in front of the user once, *)
(* or its event is on the way, and no prompt outlives it (handle_op_event,  *)
(* answer_conflict, dismiss_floating_ui).                                   *)
THEOREM PromptsShown == SysSpec => []PromptsMatchWorkers
  <1>1. SysInv => PromptsMatchWorkers
    BY DEF SysInv
  <1> QED  BY <1>1, SysInvariance, PTL

(* Rows and pending operations follow the reports of the engine. *)
THEOREM WindowAgrees == SysSpec => []UIAgreesWithEngine
  <1>1. SysInv => UIAgreesWithEngine
    BY DEF SysInv
  <1> QED  BY <1>1, SysInvariance, PTL

(* The engine's own guarantees, and the order of its reports, hold under    *)
(* everything the window does to it.                                        *)
THEOREM EngineUnderWindow ==
  SysSpec => [](Bookkeeping /\ PromptsOpen /\ Exclusive /\ EventsInOrder)
  <1>1. SysInv => Bookkeeping /\ PromptsOpen /\ Exclusive /\ EventsInOrder
    BY DEF SysInv, IInv, Logs, LogFits, InOrder, LoneCancel, EventsInOrder
  <1> QED  BY <1>1, SysInvariance, PTL

(* Also under the window the engine implements the abstract scheduler. *)
THEOREM SysImplementation == SysSpec => ImplementsSchedule
  <1>1. SysInit => Schedule!AInit
    <2> SUFFICES ASSUME SysInit PROVE Schedule!AInit
      OBVIOUS
    <2>1. \A i \in Ids : Phase(i) = "none" /\ ~(i < nextId)
      BY OpQueueAssumption DEF SysInit, Init, Phase, Ids
    <2> QED  BY <2>1 DEF SysInit, Init, Schedule!AInit
  <1>2. SysInv /\ [SysNext]_sysVars => [Schedule!ANext]_(Schedule!avars)
    <2> SUFFICES ASSUME SysInv, [SysNext]_sysVars
                 PROVE  [Schedule!ANext]_(Schedule!avars)
      OBVIOUS
    <2>1. [Step]_vars
      BY SysStepIsStep DEF sysVars
    <2>2. IInv
      BY DEF SysInv
    <2> QED  BY <2>1, <2>2, StepRefines
  <1> QED
    BY <1>1, <1>2, SysInvariance, PTL DEF SysSpec, ImplementsSchedule, Schedule!ASpec
==============================================================================
