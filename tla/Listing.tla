------------------------------ MODULE Listing ------------------------------
(***************************************************************************)
(* How a tab shows a folder: the UI thread asks the worker pool for a      *)
(* listing and for its sorted and filtered view, the workers' answers come *)
(* back through one channel, a watcher per tab tells of changes, and the   *)
(* user clicks, filters, refreshes and navigates meanwhile                 *)
(* (crates/sc-app/src/app.rs and jobs.rs, crates/sc-core/src/state.rs,     *)
(* crates/sc-shell/src/watcher.rs).                                        *)
(*                                                                         *)
(* One pane with a fixed row of tabs.  An entry is its name, a view is the *)
(* set of the indices it shows (their order, and with it the cursor, is    *)
(* left out), the filter is on or off.  Names are numbers, in the order a   *)
(* folder is enumerated, and each belongs to one folder.  Flattened,       *)
(* zipped and recycled folders, hidden files, and locked, moved and closed *)
(* tabs are left out.                                                      *)
(***************************************************************************)
EXTENDS Integers, FiniteSetsExt, SequencesExt

CONSTANTS
  Tabs,         \* the tabs, numbered from the left
  Threads,      \* how many threads the pool has (two to six)
  Folders,
  Names,        \* names of files, numbers
  InFolder,     \* the folder of each name
  FirstFolder,  \* the folder each tab of the session is on
  FirstDisks,   \* the sets of names that may exist at first
  Matching,     \* names the filter lets through
  BatchSize,    \* entries per batch (BATCH_SIZE, 4096)
  Progressive,  \* entries shown while a listing streams in (20_000)
  Created,      \* names operations create
  SelectIn,     \* tabs in which the user clicks rows
  MaxInputs     \* bound: what the user, operations and the disk do, a
                \* read that breaks off included

ASSUME ListingAssumption ==
  /\ Tabs \subseteq Nat /\ Tabs # {} /\ IsFiniteSet(Tabs)
  /\ Names \subseteq Nat /\ IsFiniteSet(Names)
  /\ InFolder \in [Names -> Folders]
  /\ FirstFolder \in [Tabs -> Folders]
  /\ FirstDisks \subseteq SUBSET Names
  /\ Matching \subseteq Names /\ Created \subseteq Names
  /\ SelectIn \subseteq Tabs
  /\ BatchSize \in Nat \ {0} /\ Progressive \in Nat
  /\ Threads \in Nat \ {0} /\ MaxInputs \in Nat

VARIABLES
  tabs,           \* tabs[t]: the TabState
  active,         \* active_tab of the pane
  keepSelection,  \* keep_selection: {} or the one set of names kept
  pendingSelect,  \* pending_select
  jobs,           \* the jobs not finished, those in a thread's hands first
  results,        \* the channel back to the UI thread
  watch,          \* watch[t]: the tab's watcher
  disk,           \* the names that exist
  touched,        \* touched[t]: the names that have come or gone since t's
                  \* latest request; only SettledIsCurrent reads it
  inputs          \* how many inputs there have been

uiVars == <<tabs, active, keepSelection, pendingSelect>>
vars == <<uiVars, jobs, results, watch, disk, touched, inputs>>

NoSelect == [tab |-> -1, names |-> {}]

FirstTab == CHOOSE t \in Tabs : \A u \in Tabs : t <= u

\* The numbers of S, the least first.
InOrder(S) ==
  LET n == Cardinality(S)
  IN  CHOOSE s \in [1 .. n -> S] : \A j, k \in 1 .. n : j < k => s[j] < s[k]

------------------------------------------------------------------------------
(* Requests and what they are made of.                                     *)

ReadJob(t, r) ==
  [kind |-> "read", tab |-> t, gen |-> r.generation, folder |-> r.path,
   last |-> -1]

\* Wrong: the indices count from the place before the first.
ViewJobOffByOne(t, r) ==
  [kind |-> "view", tab |-> t, gen |-> r.generation,
   view |-> {i - 1 : i \in {k \in DOMAIN r.entries :
                             r.filter => r.entries[k] \in Matching}}]

\* build_view is a function of what is submitted with it.
ViewJob(t, r) ==
  [kind |-> "view", tab |-> t, gen |-> r.generation,
   view |-> {i \in DOMAIN r.entries : r.filter => r.entries[i] \in Matching}]

SelectedNames(r) == {r.entries[i] : i \in r.selection \cap DOMAIN r.entries}

\* A watcher of another folder is replaced by one that has yet to start.
EnsureWatcher(w, folder) ==
  IF w.folder = folder THEN w ELSE [folder |-> folder, state |-> "opened"]

\* Wrong: what an older listing has sent so far is kept.
RequestedKeepingPending(r) ==
  [r EXCEPT !.generation = @ + 1, !.loading = TRUE]

Requested(r) ==
  [r EXCEPT !.generation = @ + 1, !.pending = <<>>, !.loading = TRUE]

\* Wrong: the token is made before the generation moves on.
RequestWithOldToken(tb, S, keep) ==
  /\ tabs' = [t \in Tabs |-> IF t \in S THEN Requested(tb[t]) ELSE tb[t]]
  /\ jobs' = jobs \o [k \in 1 .. Cardinality(S) |->
                        LET t == InOrder(S)[k] IN ReadJob(t, tb[t])]
  /\ keepSelection' = [t \in Tabs |->
                         IF t \notin S THEN keepSelection[t]
                         ELSE IF keep THEN {SelectedNames(tb[t])} ELSE {}]
  /\ watch' = [t \in Tabs |-> IF t \in S THEN EnsureWatcher(watch[t], tb[t].path)
                              ELSE watch[t]]
  /\ touched' = [t \in Tabs |-> IF t \in S THEN {} ELSE touched[t]]

\* request_listing_for, for each tab of S in turn, from the tabs tb.
RequestListing(tb, S, keep) ==
  /\ tabs' = [t \in Tabs |-> IF t \in S THEN Requested(tb[t]) ELSE tb[t]]
  /\ jobs' = jobs \o [k \in 1 .. Cardinality(S) |->
                        LET t == InOrder(S)[k] IN ReadJob(t, Requested(tb[t]))]
  /\ keepSelection' = [t \in Tabs |->
                         IF t \notin S THEN keepSelection[t]
                         ELSE IF keep THEN {SelectedNames(tb[t])} ELSE {}]
  /\ watch' = [t \in Tabs |-> IF t \in S THEN EnsureWatcher(watch[t], tb[t].path)
                              ELSE watch[t]]
  /\ touched' = [t \in Tabs |-> IF t \in S THEN {} ELSE touched[t]]

\* rebuild_view: always of the pane's active tab.
RebuildView(tb) ==
  IF tb[active].entries = <<>>
  THEN tabs' = [tb EXCEPT ![active].view = {}] /\ UNCHANGED jobs
  ELSE tabs' = tb /\ jobs' = Append(jobs, ViewJob(active, tb[active]))

\* try_select_pending, on tab t as r: the tab after it, and what still pends.
Awaited(t, r) ==
  IF pendingSelect.tab = t
  THEN {i \in DOMAIN r.entries : r.entries[i] \in pendingSelect.names}
  ELSE {}

Selecting(t, r) ==
  IF Awaited(t, r) = {} THEN r ELSE [r EXCEPT !.selection = Awaited(t, r)]

StillPending(t, r) ==
  IF pendingSelect.tab = t /\ (Awaited(t, r) # {} \/ ~r.loading)
  THEN NoSelect ELSE pendingSelect

------------------------------------------------------------------------------
(* The program starts with every tab's first listing requested; the first  *)
(* watchers are ready before the pool gets to work.                        *)

FirstState(t) ==
  [path |-> FirstFolder[t], generation |-> 1, pending |-> <<>>, loading |-> TRUE,
   folder |-> FirstFolder[t], entries |-> <<>>, error |-> FALSE, view |-> {},
   selection |-> {}, filter |-> FALSE]

Init ==
  /\ disk \in FirstDisks
  /\ tabs = [t \in Tabs |-> FirstState(t)]
  /\ jobs = [k \in 1 .. Cardinality(Tabs) |->
               ReadJob(InOrder(Tabs)[k], FirstState(InOrder(Tabs)[k]))]
  /\ watch = [t \in Tabs |-> [folder |-> FirstFolder[t], state |-> "armed"]]
  /\ active = FirstTab
  /\ keepSelection = [t \in Tabs |-> {}]
  /\ pendingSelect = NoSelect
  /\ results = <<>>
  /\ touched = [t \in Tabs |-> {}]
  /\ inputs = 0

Input == inputs < MaxInputs /\ inputs' = inputs + 1

------------------------------------------------------------------------------
(* The user.                                                               *)

\* Leaving a folder clears the selection and the filter; the rows stay until
\* the first batch of the new one.
Navigate(folder) ==
  LET r == tabs[active]
      moved == [r EXCEPT !.path = folder, !.selection = {}, !.filter = FALSE,
                         !.generation = @ + 1]
  IN /\ Input
     /\ RequestListing([tabs EXCEPT ![active] = IF folder = r.path THEN @ ELSE moved],
                       {active}, FALSE)
     /\ UNCHANGED <<active, pendingSelect, results, disk>>

Refresh ==
  /\ Input
  /\ RequestListing(tabs, {active}, TRUE)
  /\ UNCHANGED <<active, pendingSelect, results, disk>>

SetFilter ==
  /\ Input
  /\ RebuildView([tabs EXCEPT ![active].filter = ~@])
  /\ UNCHANGED <<active, keepSelection, pendingSelect, results, watch,
                 disk, touched>>

\* move_cursor and toggle_select, on a row shown.
Select(S) ==
  /\ Input /\ active \in SelectIn
  /\ tabs' = [tabs EXCEPT ![active].selection = S]
  /\ UNCHANGED <<active, keepSelection, pendingSelect, jobs, results,
                 watch, disk, touched>>

Click(i) == i \in tabs[active].view /\ Select({i})

CtrlClick(i) ==
  /\ i \in tabs[active].view
  /\ Select(SymDiff(tabs[active].selection, {i}))

SwitchTab(t) ==
  /\ Input /\ t # active
  /\ active' = t
  /\ UNCHANGED <<tabs, keepSelection, pendingSelect, jobs, results,
                 watch, disk, touched>>

\* An operation that worked in this folder has ended: what it created is to be
\* selected in the best tab for it, and the tabs on the folder are refreshed.
OpDone(folder, created) ==
  LET On == {t \in Tabs : tabs[t].path = folder}
      best == IF active \in On THEN active
              ELSE CHOOSE t \in On : \A u \in On : t <= u
  IN /\ Input /\ On # {}
     /\ created \subseteq disk \cap Created
     /\ \A n \in created : InFolder[n] = folder
     /\ pendingSelect' = IF created = {} THEN pendingSelect
                         ELSE [tab |-> best, names |-> created]
     /\ RequestListing(tabs, On, TRUE)
     /\ UNCHANGED <<active, results, disk>>

------------------------------------------------------------------------------
(* The disk and the watchers.                                              *)

Noticed(state) ==
  CASE state = "opened" -> "opened"
    [] state = "armed" -> "changed"
    [] OTHER -> "changed again"

\* Some program creates or removes a file.
DiskChange(n) ==
  /\ Input
  /\ disk' = SymDiff(disk, {n})
  /\ touched' = [t \in Tabs |-> touched[t] \cup {n}]
  /\ watch' = [t \in Tabs |-> IF watch[t].folder = InFolder[n]
                              THEN [watch[t] EXCEPT !.state = Noticed(@)]
                              ELSE watch[t]]
  /\ UNCHANGED <<uiVars, jobs, results>>

\* The watcher's thread gets to ReadDirectoryChangesW.
WatcherArms(t) ==
  /\ watch[t].state = "opened"
  /\ watch' = [watch EXCEPT ![t].state = "armed"]
  /\ UNCHANGED <<uiVars, jobs, results, disk, touched, inputs>>

\* What changed while it was asleep is reported by the next read.
WatcherFires(t) ==
  /\ watch[t].state \in {"changed", "changed again"}
  /\ watch' = [watch EXCEPT ![t].state =
                 IF @ = "changed" THEN "armed" ELSE "changed"]
  /\ results' = Append(results, [kind |-> "changed", tab |-> t])
  /\ UNCHANGED <<uiVars, jobs, disk, touched, inputs>>

------------------------------------------------------------------------------
(* The worker pool.  A free thread takes the next job at once: to take it   *)
(* later would only give fewer orders of answers.                          *)

Unread(j) == {n \in disk : InFolder[n] = j.folder /\ n > j.last}

Batch(j, names, done, error) ==
  [kind |-> "batch", tab |-> j.tab, gen |-> j.gen, names |-> names,
   done |-> done, error |-> error]

\* The job k is in the hands of a thread.
InHand(k, kind) ==
  k \in DOMAIN jobs /\ k <= Threads /\ jobs[k].kind = kind

Finished(k) == jobs' = RemoveAt(jobs, k)

ReadBatch(k) ==
  /\ InHand(k, "read") /\ Unread(jobs[k]) # {}
  /\ LET names == InOrder(Unread(jobs[k]))
         batch == SubSeq(names, 1, Min({BatchSize, Len(names)}))
     IN /\ results' = Append(results, Batch(jobs[k], batch, FALSE, FALSE))
        /\ jobs' = [jobs EXCEPT ![k].last = Last(batch)]
  /\ UNCHANGED <<uiVars, watch, disk, touched, inputs>>

ReadDone(k) ==
  /\ InHand(k, "read") /\ Unread(jobs[k]) = {}
  /\ results' = Append(results, Batch(jobs[k], <<>>, TRUE, FALSE))
  /\ Finished(k)
  /\ UNCHANGED <<uiVars, watch, disk, touched, inputs>>

\* The enumeration breaks off.
ReadFails(k) ==
  /\ InHand(k, "read") /\ Input
  /\ results' = Append(results, Batch(jobs[k], <<>>, TRUE, TRUE))
  /\ Finished(k)
  /\ UNCHANGED <<uiVars, watch, disk, touched>>

SendView(k) ==
  /\ InHand(k, "view")
  /\ results' = Append(results, jobs[k])
  /\ Finished(k)
  /\ UNCHANGED <<uiVars, watch, disk, touched, inputs>>

JobStep(k) == ReadBatch(k) \/ ReadDone(k) \/ ReadFails(k) \/ SendView(k)

------------------------------------------------------------------------------
(* handle_msg.                                                             *)

Takes(kind) == results # <<>> /\ Head(results).kind = kind /\ results' = Tail(results)

\* Wrong: the answer to an older request passes for one to the latest.
AnyGeneration(m) == m.tab \in Tabs

Current(m) == m.gen = tabs[m.tab].generation

OnStale ==
  /\ \E kind \in {"batch", "view"} : Takes(kind)
  /\ ~Current(Head(results))
  /\ UNCHANGED <<uiVars, jobs, watch, disk, touched, inputs>>

\* The rows so far, in the order they came.
Shown(r, entries, error) ==
  [r EXCEPT !.folder = r.path, !.entries = entries, !.error = error,
            !.view = DOMAIN entries]

OnBatch ==
  LET m == Head(results)
      r == tabs[m.tab]
      all == r.pending \o m.names
      shown == [Shown(r, all, FALSE) EXCEPT !.pending = all]
  IN /\ Takes("batch") /\ Current(m) /\ ~m.done
     /\ IF Len(all) <= Progressive
        THEN /\ tabs' = [tabs EXCEPT ![m.tab] = Selecting(m.tab, shown)]
             /\ pendingSelect' = StillPending(m.tab, shown)
        ELSE /\ tabs' = [tabs EXCEPT ![m.tab].pending = all]
             /\ UNCHANGED pendingSelect
     /\ UNCHANGED <<active, keepSelection, jobs, watch, disk, touched,
                    inputs>>

OnLastBatch ==
  LET m == Head(results)
      r == tabs[m.tab]
      all == r.pending \o m.names
      shown == [Shown(r, all, m.error) EXCEPT !.pending = <<>>, !.loading = FALSE]
  IN /\ Takes("batch") /\ Current(m) /\ m.done
     /\ RebuildView([tabs EXCEPT ![m.tab] = Selecting(m.tab, shown)])
     /\ pendingSelect' = StillPending(m.tab, shown)
     /\ UNCHANGED <<active, keepSelection, watch, disk, touched, inputs>>

OnView ==
  LET m == Head(results)
      t == m.tab
      r == [tabs[t] EXCEPT !.view = m.view]
      kept == {i \in DOMAIN r.entries :
                 \E S \in keepSelection[t] : r.entries[i] \in S}
      seen == IF keepSelection[t] = {} THEN r ELSE [r EXCEPT !.selection = kept]
  IN /\ Takes("view") /\ Current(m)
     /\ tabs' = [tabs EXCEPT ![t] = Selecting(t, seen)]
     /\ keepSelection' = [keepSelection EXCEPT ![t] = {}]
     /\ pendingSelect' = StillPending(t, seen)
     /\ UNCHANGED <<active, jobs, watch, disk, touched, inputs>>

OnDirChanged ==
  LET t == Head(results).tab IN
  /\ Takes("changed") /\ ~tabs[t].loading
  /\ RequestListing(tabs, {t}, TRUE)
  /\ UNCHANGED <<active, pendingSelect, disk, inputs>>

\* A change that is reported while the tab loads is not looked into.
OnDirChangedLoading ==
  /\ Takes("changed") /\ tabs[Head(results).tab].loading
  /\ UNCHANGED <<uiVars, jobs, watch, disk, touched, inputs>>

HandleMsg ==
  OnStale \/ OnBatch \/ OnLastBatch \/ OnView \/ OnDirChanged \/ OnDirChangedLoading

Next ==
  \/ \E f \in Folders : Navigate(f)
  \/ Refresh \/ SetFilter
  \/ \E i \in 1 .. Cardinality(Names) : Click(i) \/ CtrlClick(i)
  \/ \E t \in Tabs : SwitchTab(t) \/ WatcherArms(t) \/ WatcherFires(t)
  \/ \E f \in Folders : OpDone(f, {})
  \/ \E n \in Created : OpDone(InFolder[n], {n})
  \/ \E n \in Names : DiskChange(n)
  \/ \E k \in DOMAIN jobs : JobStep(k)
  \/ HandleMsg

Spec == Init /\ [][Next]_vars

------------------------------------------------------------------------------
(* Correctness.                                                            *)

Jobs ==
  [kind : {"read"}, tab : Tabs, gen : Nat, folder : Folders,
   last : Names \cup {-1}]
    \cup [kind : {"view"}, tab : Tabs, gen : Nat, view : SUBSET (Nat \ {0})]

Messages ==
  [kind : {"batch"}, tab : Tabs, gen : Nat, names : Seq(Names),
   done : BOOLEAN, error : BOOLEAN]
    \cup [kind : {"view"}, tab : Tabs, gen : Nat, view : SUBSET (Nat \ {0})]
    \cup [kind : {"changed"}, tab : Tabs]

TypeOK ==
  /\ tabs \in [Tabs -> [path : Folders, generation : Nat, pending : Seq(Names),
                        loading : BOOLEAN, folder : Folders, entries : Seq(Names),
                        error : BOOLEAN, view : SUBSET (Nat \ {0}),
                        selection : SUBSET (Nat \ {0}), filter : BOOLEAN]]
  /\ active \in Tabs
  /\ keepSelection \in [Tabs -> SUBSET SUBSET Names]
  /\ pendingSelect \in [tab : Tabs, names : SUBSET Names] \cup {NoSelect}
  /\ jobs \in Seq(Jobs)
  /\ results \in Seq(Messages)
  /\ watch \in [Tabs -> [folder : Folders,
                         state : {"opened", "armed", "changed", "changed again"}]]
  /\ disk \subseteq Names /\ touched \in [Tabs -> SUBSET Names]
  /\ inputs \in 0 .. MaxInputs

\* What one enumeration of a folder can give: its names, none of them twice.
ListingOf(folder, s) ==
  /\ \A k \in DOMAIN s : InFolder[s[k]] = folder
  /\ \A j, k \in DOMAIN s : j < k => s[j] < s[k]

\* However requests, batches and late answers interleave, the rows of a tab
\* come from one enumeration of one folder, never from two, and so do those
\* still gathered (handle_msg's generation check, request_listing_for).
OneListing ==
  \A t \in Tabs : /\ ListingOf(tabs[t].folder, tabs[t].entries)
                  /\ ListingOf(tabs[t].path, tabs[t].pending)

\* A tab that has stopped loading shows the folder it is on as it has been
\* since the latest request: what has neither come nor gone meanwhile is listed
\* just if it exists, unless the folder could not be read to its end
\* (handle_msg, navigate, request_listing_for, run_job).
SettledIsCurrent ==
  \A t \in Tabs : ~tabs[t].loading =>
    /\ tabs[t].folder = tabs[t].path
    /\ ~tabs[t].error =>
         \A n \in {m \in Names \ touched[t] : InFolder[m] = tabs[t].path} :
           n \in disk <=> Contains(tabs[t].entries, n)

Answers(m, t) == m.kind \in {"read", "batch"} /\ m.tab = t
                 /\ m.gen = tabs[t].generation

\* A tab that loads is never forgotten: its latest request is still a job, or
\* is answered by a last batch that is on its way, and only one of these (request_listing_for, run_job, handle_msg).
LoadingIsAnswered ==
  \A t \in Tabs :
    LET Unfinished == {k \in DOMAIN jobs : Answers(jobs[k], t)}
        Sent == {k \in DOMAIN results : Answers(results[k], t) /\ results[k].done}
    IN Cardinality(Unfinished) + Cardinality(Sent)
         = IF tabs[t].loading THEN 1 ELSE 0

\* "Sorted + filtered indices into `snapshot.entries`": the rows drawn exist.
ViewInRange == \A t \in Tabs : tabs[t].view \subseteq DOMAIN tabs[t].entries
=============================================================================
