# SimpleCommander in TLA+

SimpleCommander is a two-pane file manager for Windows, written in Rust as
seven crates under `src/crates`. This directory holds the specifications of the
parts of it that are hard to test (the ones in which threads, messages and the
user interleave), the TLC configurations that check them on small instances, and
proofs, checked by TLAPS, of what holds for every instance.

    tlc -workers 2 -config MCOpSystem_prompts.cfg MCOpSystem.tla    # a run
    tlapm OpSystemProofs.tla                                        # proofs

`PROJECT.json` lists the runs, the lines each definition translates, the
hazards, the findings and the theorems. For every property of a passing run it
also names a mutant: a plausible bug of the code, written beside the definition
it replaces (the comment begins "Wrong:"), with which the property fails.

- [The system](#the-system)
- [Modules](#modules)
- [Runs](#runs)
- [Findings](#findings)
- [Proofs](#proofs)
- [What is left out](#what-is-left-out)
- [Plan](#plan)

## The system

One UI thread (egui) owns all of the application's state, `ScApp`. Whatever may
be slow is done by other threads, which answer through channels that the UI
thread drains once per frame (`pump_messages`, app.rs:852):

                      submit, pause, cancel, resolve_conflict
      UI thread  ------------------------------------------->  operation engine
       ScApp     <-------------------------------------------  (sc-ops, 4 threads)
         |                OpEvent channel
         |            submit(job)
         |  ------------------------------------------------>  job pool
         |  <------------------------------------------------  (jobs.rs)
         |                UiMsg channel
         |  <--- UiMsg::DirChanged ---  one watcher thread per tab (sc-shell)
         |  <--- UiMsg::Search... ----  search, index (sc-index)
         |
         +-- tabs and panes (sc-core), undo journal (sc-ops), dialogs, settings

| component | state | operations | correct if |
|---|---|---|---|
| operation engine, `sc-ops/src/queue.rs` | queue, running map, flags, prompt senders, cap on jobs | submit, pause, resume, cancel, resolve_conflict, set_max_jobs, drop; the loop of each worker | overlapping operations never run together; each operation ends once and is reported in order; a prompt can be answered while its worker waits; no worker sleeps beside work |
| operations window, in `app.rs`, `ui.rs`, `dialogs.rs`, `settings_ui.rs` | rows, `pending_ops`, the prompt shown and those behind it | buttons of a row and of the panel, answers, Escape, handling of each event | every blocked worker has one prompt in front of the user; a row's buttons exist exactly while they can do something |
| undo journal, `sc-ops/src/undo.rs` | two stacks | record, undo, redo | undo and redo are inverse to the operation; nothing is replaced unasked |
| tabs, panes, selection, history, `sc-core/src/state.rs` | tabs, active tab, entries, view, selection, history, session | navigate, back, close, move, lock, select | indices denote the rows they were made on; history and active tab stay in range |
| listing pump, `handle_msg` in `app.rs` | generation, pending rows, kept and awaited selections | request, batch, view, change notification | rows come from one enumeration; a tab ends on the answer to its latest request |
| job pool, `sc-app/src/jobs.rs` | job queue, search epoch | submit; run a job of each kind | every job is answered; a superseded search stops, and only it |
| folder watcher, `sc-shell/src/watcher.rs` | one directory handle per tab | arm, fire, stop | a change that is noticed is reported |
| file index, `sc-index/src/mft.rs`, `search.rs` | records of the volume, position in the USN journal | build, tail, query | after catching up the index equals the volume |
| settings and session, `config.rs` | file on disk | load, save | a crash leaves the old or the new file |
| the file list under the user's hands, `ui.rs`, `interact.rs` | cursor, anchor, press, band, drag, rename, clipboard | keys, clicks, drags, drops, commands | what is done with rows is done with the files that were picked |
| search window, palette, `search.rs`, `everything.rs` | queries and results, the IPC thread and its channel | open, type, answer; ask Everything, walk | a box shows hits for its text; the latest query is answered |
| sort and filter, `sort.rs`, `query.rs` | none | `Query::parse`, `matches`, `natural_cmp`, `build_view` | agree with a reference definition; the order is total |
| preview, `preview.rs` | file, generation, content, web view, audio flags and sink | choose, open, close, answer, frame, buttons, audio commands | it shows and sounds the file that is chosen |
| lookups while drawing (icons, sums, sizes, plugin values, tree, places) | maps and pending sets | ask in a frame, enter the answer | a key that is asked for is answered; the pool is not flooded |
| folder compare, `compare.rs`, `dialogs.rs` | rows, ticks, filter | compare, tick, copy, delete | it acts on the rows that are ticked |
| plugin host, `sc-plugins` | registry in memory and in `plugins.toml`, loaded plugins | install, grant, disable, save, start, run | no plugin runs with more than was granted |
| batch rename, zip browsing, tags, theme, drawing, other shell calls | none of interest | I/O and presentation | |

What is hard here, and where properties are aimed:

- *Interleaving.* Four workers under one mutex and one condition variable, flags
  that are polled between items, atomics stored without the mutex.
- *Ordering.* A worker reports an outcome before it leaves the engine's maps; a
  listing is answered by a stream of batches and then a view, each of which can
  be overtaken by a newer request.
- *Stale state.* Views, selections, ticks and prompts are computed from a state
  that may have changed when they are used; the generation check guards some.
- *Late answers.* A search asks Everything, gives up after a time-out and asks
  the next query; previews, comparisons and lookups are answered in any order.
- *Crashes.* Settings and the plugin registry are written while the program may
  stop at any point: one through a temporary file, the other in place.
- *Failure in the middle.* A transfer of several sources can fail, be cancelled
  or be skipped item by item, and undo is computed from what was done.
- *Liveness.* A worker may wait for a slot, for a path, for the user to resume
  it or to answer it.

## Modules

| module | models | extends / uses |
|---|---|---|
| `OpSchedule` | the abstract specification: operations wait, start at most once, end | |
| `OpQueue` | `queue.rs`, thread by thread | instance of `OpSchedule` |
| `OpSystem` | the engine and the window that drives it | `OpQueue` |
| `FileUndo` | what operations, undo and redo do to files | |
| `Listing` | how a tab comes to show a folder | |
| `Tabs` | panes, tabs, history, locks, watchers, the listing each tab waits for | |
| `Session` | settings.toml, the save, the exit, the crash and the start | `Tabs` |
| `FileList` | rows under keyboard and mouse, and what is done with them | |
| `Search` | the search window, the palette, the workers, the client of Everything | |
| `Preview` | the preview, its web view and the audio thread | |
| `VolumeIndex` | the index of a volume and the journal it follows | |
| `Plugins` | the plugin host, its registry and the runs of plugins | |
| `Lookups` | what frames ask the workers for | |
| `FolderCompare` | the comparison of two folders | |
| `Views` | queries, wildcards, natural order, the sorted and filtered view | |
| `Features` | the seven modules above together | all seven |
| `FileUndoProofs`, `ListingProofs`, `SessionProofs`, `FileListProofs`, `ViewsProofs` | theorems about the module they are named after | that module |
| `OpSystemProofs` | theorems about `OpQueue` and about `OpSystem` | `OpSystem` |
| `FeaturesProofs` | theorems about `Lookups`, `Plugins`, `VolumeIndex`, `FolderCompare`, `Preview` and `Search`, and about `Features` | `Features`, `ViewsProofs` |
| `DataLemmas` | lemmas on sequences, finite sets of numbers and recursive functions | |
| `MCOpQueue`, `MCOpSystem`, `MCFileUndo`, `MCListing`, `MCSession`, `MCFileList`, `MCSearch`, `MCFeatures` | the instances TLC checks | the module they are named after; `MCFeatures` also `MCFileList` |
| `MCListingUndo` | the instances of `MCListing` and `MCFileUndo`, beside each other | both |

The modules overlap in the program and are kept apart where one shows what the
other may assume. `FileUndo` runs one operation at a time because `Exclusive`
(checked and proved of `OpQueue`) makes the file effects of operations that run
together commute; it lets any waiting operation be next because `OpQueue`
promises no order. `Listing` receives an ended operation as an input, at any
time. `Tabs` only ends the loading of a tab when a listing arrives, because
`LoadingIsAnswered` (checked of `Listing`) says that it does; `FileList` has one
tab, whose listings come and go as `Listing` has them.

### OpQueue

Variables are the fields of `Inner` and `Shared` (`pending`, `running`,
`opState`, `flag`, `conflictTx`, `maxJobs`, `shutdown`, `nextId`), the event
channel (`events`), and for each worker its place in `worker_thread` and
`Worker::run` (`pc`) and its locals (`job`, `item`, `sticky`, `made`, `answer`).

| actions | code |
|---|---|
| `Submit`, `Pause`, `Resume`, `PauseAll`, `ResumeAll`, `Cancel`, `CancelAll`, `SetMaxJobs`, `ResolveConflict`, `Drop` | the methods of `OpEngine`, queue.rs:207-332 |
| `Exit`, `Claim`, `Park`, `Wait` | one scan of the queue under the mutex, 339-380 |
| `Begin`, then `SkipOntoItself`, `NoConflict`, `StickyConflict`, `AskConflict`, `Answered`, `Apply`, `TransferDone` | copy and move, source by source, 572-625 and 694-830 |
| `DeleteItem`, `DeleteDone` | delete, 627-664 |
| `SingleDone` | recycle, rename, create, restore and purge: one call to the system |
| `StopCancelled`, `Fail` | `pause_point` says no; the system refuses |
| `Finish` | 399-406 |

Grain of atomicity. A call that takes the mutex is one step. The one gap that
matters is between a worker's decision to wait and the wait itself, during which
it holds the mutex: it is a place of its own (`"parking"`), and calls that need
the mutex are guarded by `Lockable`. `set_max_jobs` and `Drop` do not take the
mutex, and so are not guarded. Everywhere else their stores commute with the
critical section they fall into. Flags are atomics: a worker that is neither at
its pause point nor under the mutex does not see them.

Abstraction. A path is a sequence of names; which source meets a conflict is a
nondeterministic choice, as is failure. A folder that is copied polls its flag
before every node: one poll per source stands for them, since nothing the engine
keeps changes between two. Progress, labels and byte counts are left out.

### OpSystem

Adds to `OpQueue` what the UI thread keeps: which events it has handled
(`seen`), the rows (`view`), `pendingOps`, the prompt shown (`conflict`) and
those behind it (`conflictQueue`), and `settings.conflict_default`. Every step
of the engine is either taken by a worker (`WorkerRuns`) or by the user, through
the button, the dialog or the setting that makes the call, with the condition
under which the window offers it. The UI thread handles one event or one click
at a time. The events of two operations are kept apart: the window can be behind
on one and not on the other, which is more than the single channel allows.

### FileUndo

`fs` maps paths to contents, `bin` is the recycle bin, `queue`, `work` and
`results` are the engine reduced to one operation at a time, `undoStack` and
`redoStack` the journal. The branches of a transfer are those of
`TransferCtx::transfer`: free, skip, overwrite, keep both, and abort at any
source. `expect`, `before`, `after` and `plain` are read by the properties only.

### Listing

`tabs[t]` is the `TabState`, `keepSelection` and `pendingSelect` are the two
fields of `ScApp` that write a selection later, `jobs` and `results` are the
pool and its channel (the oldest `Threads` jobs are in the hands of a thread, and
any of them may go on), `watch[t]` the tab's watcher, `disk` the files that
exist. `HandleMsg` splits `handle_msg` by the branch it takes. Rows are names,
a view is the set of indices it shows: filtering is kept, sorting is not.
`touched` is not in the program: it is what `SettledIsCurrent` compares with.

### Tabs and Session

`panes[p]` is a `PaneState`, a tab is found by its `uid` (`FindTab` is
`find_tab`: first in the pane a message names, then in the other one).
`watchers`, `notes` and `asked` are what outlives a step: the watcher made for a
tab in the pane it was in then, running, ended or, as a record of the failure,
refused; the `DirChanged` messages, the latest listing of
each tab that loads. `Session` adds what is written of them. A save is two
steps, the temporary file and the rename, and may fail at either; a crash may
fall between; `on_exit` saves over what is being saved. `Window` is
`session_snapshot`, `Start` is `ScApp::new`.

### FileList

`tab` is the `TabState` with cursor, anchor and selection, the rest is what the
window remembers between frames: the press, the band, a drag, a rename, a menu,
a deletion that waits for its answer. Indices are indices, as in the code, so
that a listing under the hand (`OnBatch`, `OnView`) makes them mean other files.
`picked`, `grip`, `still`, `held` and `awaited` are not in the program, nor are
`viewOf` and the `over` of a press or band: they record what the user has seen and
the properties compare with.

### Search

A search is a job with a stage (queued, asking, waiting, walking) and a part:
a search of everywhere asks Everything near the tab's folder first. Hits are the
set of the queries they were found for. `works`, `ipc` and `owed` are the
channel of the IPC thread, the query it waits for and what Everything still owes
a reply; Everything itself is external: it starts, hangs, replies late or quits.
`late` records that a query which was sent has been given up.

### Preview

`RequestPreview`, `OnPreview`, `Frame` (`preview_pane` with `sync_web`) and the
buttons are steps of the UI thread, `AudioCommand` and `SoundEnds` of the audio
thread. `AudioCtl::play` sends its command before it sets the flags; the audio
thread may come between, so that `toRaise` is a place of its own. A device is
there or it is not (the thread then ends and commands pile up).

### VolumeIndex

`entries` is what the index holds, `cursor` how far the table was read,
`nextUsn` the place in the journal. The volume is external: records carry every
reason since the file was closed, which is how the journal works and why a
record may say both "created" and "deleted". `missed` collects what the index
cannot know: the code asks for the end of the journal after it has read the
table, not before.

### Plugins

`records` is the registry, `loaded` the plugins of the host, `pluginFile` what
`plugins.toml` reads as; the file is cut first, so that a crash leaves it torn,
and a torn file reads as no plugins at all, or as the first of them, the last one
with what serde puts for the fields that are missing. Handlers hold the write lock over
the save, runs the read lock. `permitted` is the user's last word.

### Lookups, FolderCompare, Views

`Lookups` has one set of keys for each kind of question and counts the jobs of
each key. `FolderCompare` takes a row as its name, its sides and the folders it
was made of; `ticked` is what the user sees ticked. `Views` holds bytes: the
filter is trimmed and parsed as a query, `WildcardMatch` is the loop of the code
with its backtracking, `NaturalCmp` its comparison, and the sort is an
insertion.

### Features

The seven modules share nothing but the worker threads, which each of them lets
answer in any order anyway: their product would be checked for nothing.
`Features` therefore has a `focus`, which no step changes; the areas out of focus
rest in one of their first states. A run of it explores each area in full.

`FileList` shares no variable with it either, and `FileUndo` none with `Listing`.
`MCFeatures` puts the first two beside each other in the same way, with a `part`
that is in play, and `MCListingUndo` the other two: one run explores both parts in
full. `MCFileList`, `MCFileUndo` and `MCListing` are also run by themselves, for
the properties that the code does not have.

## Runs

| run | instance | distinct states | shows |
|---|---|---|---|
| `schedule` | 3 workers, 3 operations out of a deletion, a rename that overlaps the others and a move of a file to where it is, or one of them beside a move of two files (the constraint `OneBesideTransfer`); cap 3, then 1 | 670 thousand | `Exclusive`, `NoLostWakeup`, `StrictlySequential`, and that the engine implements `OpSchedule` |
| `wakeup` | 2 workers, cap raised from 1 to 2 | | violates `NoLostWakeup` |
| `prompts` | 2 workers, 2 transfers of 2 files, caps 1 and 3, defaults ask and keep both, 1 row kept | 1.9 million | `TypeOK`, `Bookkeeping`, `PromptsOpen`, `EventsInOrder`, `PromptsMatchWorkers`, `UIAgreesWithEngine` |
| `live` | 2 workers, a move and a deletion | | `EveryOpEnds`, under fairness |
| `undo_asks` | 2 folders, 3 names, 3 contents, 2 operations and 1 undo | | violates `UndoAsksFirst` |
| `listing` | 2 tabs, 2 folders, 2 names, 2 threads, batches of 1, 3 inputs; or `FileUndo`, see below | 7.4 million | `TypeOK`, `OneListing`, `SettledIsCurrent`, `LoadingIsAnswered`; of undo `UndoTypeOK`, `UndoRestores` |
| `listing_view` | 1 tab, 2 folders, 2 names, 3 inputs | | violates `ViewInRange` |
| `session` | 2 panes, 3 tabs, a folder and an archive in it, 3 inputs, 1 watcher that fails, 1 further start | 1.4 million | `SessionTypeOK`, `LoadingTabIsFound`, `SettingsReachTheFile`, `ChangesReachTheTab`, `StartRestores`, `TrailKept`, `LockedKept`, `NoTabLost` |
| `created` | a folder and 2 files, a page of 2 rows, 3 inputs | | violates `CreatedIsSelected` |
| `gestures` | the same | | violates `GesturesMeetTheirRows` |
| `features` | each area of `Features`, or `FileList`, see below | 3.8 million | `SearchShowsItsQuery`, `LatestIsAnswered`, `PreviewIsOfItsPath`, `SoundFollowsPreview`, `IndexFollowsDisk`, `PluginsActAsGranted`, `LookupsArePending`, `CompareActsOnWhatIsTicked`, `ViewIsSortedAndFiltered`; of the list `FileListTypeOK`, `BandSelectsItsRows`, `SelectionSurvivesRefresh`, `FolderLeftIsSelected`, `OnlyWhatWasPicked`, `ClickMeansItsPress` |
| `late_reply` | 2 queries, 2 searches | | violates `HitsAnswerTheQuery` |

Bounds and why they are enough:

- *Operations* (`MaxOps`): what the engine does with an operation depends on the
  ones that run, the ones in front and the flags. Two cover each pair of calls
  on each pair of states of two operations; `schedule` takes three because order
  and wakeups are about a third operation between two. With fewer inputs of the
  user there would be no cancelled, paused or prompting operation beside another;
  all of these occur.
- *Workers*: two show every race of two threads on one queue; three let a
  third one claim, wait or exit beside two that run over a lowered cap.
- *Prompts*: two transfers of two files reach a prompt shown, one queued behind
  it, a second one of the same operation, and "apply to all".
- *Undo* (870 thousand states): two folders, three names and three contents;
  three operations, two undos or redos and a journal of two reach the case in
  which the oldest entry is dropped; two undos reach undo, redo, and undo after
  an operation of the user.
- *Listing* (6.5 million states; `MaxInputs`): inputs are what the user, ended
  operations and the disk do, a read that breaks off among them; messages and
  threads are not counted. Two overlapping requests and a change between them
  take three. A batch of one and `Progressive` of one, against two names, reach
  a listing that is shown as it streams in and one that has grown past that.
- *Session*: three inputs move a tab while it loads and let its answer come;
  one further start is enough, since a start depends on the file only.
- *Watchers* (`MaxFailures`): one watcher at a time that could not be started or
  has ended, beside those that run. It counts as an input (`FailuresCount`), so
  that two are left to flatten, leave or drag the tab it was for.
- *File list* (1.2 million): a folder and two files, a page of two rows; an
  input is a press with all the frames that follow, a key, a command, a sort, a
  filter, an operation that ends or a change of the disk; listings and views are
  free. Three reach a selection, a refresh and a command on it, or a folder that
  is left, a filter of the old rows and the listing.
- *Search* (530 thousand states): two searches are the given-up and the
  following one; each may be of the window or of the palette.
- *Preview* (195 thousand): two sounds and a page, four choices, openings or
  presses, so that both ways from one kind to the other and back occur.
- *Volume* (114 thousand): two files, two places, three changes, at any point of
  the reading and the following.
- *Plugins* (21 thousand): two paths, one permission, six installs, grants,
  disablings and starts.
- *Lookups* (413 thousand): more requests than a frame may make where it is
  limited, with the code's limits of eight icons, four sums and eight folders
  lowered to three, one and two; all icons of a frame may be of one kind.
- *Compare* (1.2 million): two folders with a name at the top and one below,
  three sizes and times, one of which files start with (`AFile`), two comparisons
  and three other inputs; each comparison may fail to read one name or folder
  (`MaxUnread`).
- *Views* (97 thousand): folders and filters of four inputs together, of eight
  entries (numbers with and without leading zeros, both cases, a folder, an
  extension, a hidden name) and seven bytes (quote, blank, bar, exclamation mark,
  both wildcards, a digit).

Symmetry is used on workers, in runs of safety properties: they are model values
that no definition tells apart, and no operator chooses among them. The same holds
of queries and of the two compared folders, where a restriction of the first step
says it (`FirstIsFirst` in `MCFeatures`): the query that is asked for first, and
the folder first compared from the left, may be named at will.

Runs but `session` do not check for deadlock (`CHECK_DEADLOCK FALSE`): each of
these systems really stops, once all the operations the bound allows have ended,
the engine was dropped, or all inputs are spent and the user does nothing.
The question deadlock checking would answer is asked by `NoLostWakeup`,
`PromptsOpen`, `PromptsMatchWorkers`, `EveryOpEnds`, `LoadingIsAnswered`,
`LoadingTabIsFound`, `LatestIsAnswered` and `LookupsArePending`.

Fairness:

- `LiveSysSpec`: strong fairness of each worker and of the handling of each
  operation's events. Threads run; parking_lot's mutex is eventually fair, so a
  thread that asks for it again and again gets it, though it is not always
  free: weak fairness would not say so. The UI thread drains its channel in
  every frame, and a worker's event requests a repaint. What the user does is
  not fair: `EveryOpEnds` assumes in its statement that there comes a time from
  which nothing is paused and that no prompt is left standing.

The other specifications state no fairness: that an answer comes is said as an
invariant, of the job or the message that is on its way.

## Findings

What a document, comment or text of the program says and the code does not do;
each is a run in which TLC finds the shortest behaviour.

- `wakeup`. `set_max_jobs` stores the cap and notifies without the mutex
  (queue.rs:207-212). Between a worker's reading of the old cap and its wait,
  the notification is lost: operations that now fit wait until the next call
  that notifies. The stronger statement, that they wait for ever, is not true:
  the cap only held them back because something ran, and its end wakes everybody
  (`EveryOpEnds` holds with a cap that is raised). For the same reason the
  `schedule` run, where the cap is only lowered, satisfies `NoLostWakeup`.
- `undo_asks`. `undo.rs` says that undo gets conflict handling from the queue.
  Undoing a rename is a rename, which replaces a file that has taken the old
  name since, without a prompt.
- `listing_view`. A view is accepted if its generation is the tab's. The
  generation moves on when a listing is requested, the rows when its first batch
  comes: a filter typed between the two computes a view of the old rows under
  the new generation. In a smaller folder its indices are out of range where
  `ui.rs:2217` uses them.
- `late_reply`. A query of Everything that is given up (600 ms in the IPC
  thread, 1200 ms in the worker) may be answered later; the reply does not name
  its query, and the window procedure takes it for the reply to the query that
  is waited for then. The search window shows hits of the former text under the
  new one, although "workers drop results for stale queries" (jobs.rs:115).
- `created`. "After a copy/move/create, select the new items in the destination
  tab" (app.rs:943). The listing that follows does, and the view that follows the
  listing restores the names selected before and no others (app.rs:1016-1026):
  where something was selected, the new item is selected for an instant only.
- `gestures`. The comment on `end_list_gesture` has it called when a listing is
  reloaded, "so a press or rubber-band cannot resolve against rows that no longer
  exist" (app.rs:559-563). It is called when a tab navigates and when a drag ends:
  over a refresh a band goes on among the new rows, with the indices that Ctrl
  kept of the old ones, and a click lands on the file that has come to its row.

What the models show besides, where no text of the repository promises
otherwise: a waiting operation may be overtaken by a later one it overlaps; a
sort or a filter while a refresh is under way uses up the names that were kept
for it, and the selection is lost (`SelectionSurvivesRefresh` excepts it); there
is one place for names that are to be selected, so that another tab's take the
place of this one's (`SelectsElsewhere`); a rename in progress is of another
file once a listing has replaced the rows; a watcher that has ended on an error
is not replaced while its tab shows the folder; a sound whose answer comes after
the preview was closed is played; a registry of plugins that is cut in the
middle of a record may bring a disabled plugin back enabled, without grants; the
index misses changes between the reading of an entry and the query for the
journal's end, and keeps a file that was created and deleted in one opening;
after a failed save of the plugin registry the grants of before come back with
the next start; a disabled plugin is gone from the manager, which lists loaded
ones only.

## Proofs

`tlapm M.tla` checks the proofs of module `M`, for any constants that satisfy the
assumptions of the module they are about: any sets of workers, tabs, folders,
queries, plugins, and any bounds on inputs. Each theorem below states a property
that a run checks on a small instance, but for `FeaturesBehave` and the first
three of `ViewsProofs`, which are about operators.

| module | theorem | states |
|---|---|---|
| `OpSystemProofs` | `TypeCorrect` | `Spec => []TypeOK` |
| | `MapsAgree` | `Spec => []Bookkeeping` |
| | `MutualExclusion` | `Spec => []Exclusive` |
| | `PromptsAnswerable` | `Spec => []PromptsOpen` |
| | `Reported` | `Spec => []EventsInOrder` |
| | `WakeupsKept` | `Spec /\ [][maxJobs' <= maxJobs]_vars => []NoLostWakeup` |
| | `OneAtATime` | `Spec => StrictlySequential` |
| | `Implementation` | `Spec => ImplementsSchedule` |
| | `PromptsShown` | `SysSpec => []PromptsMatchWorkers` |
| | `WindowAgrees` | `SysSpec => []UIAgreesWithEngine` |
| | `SysImplementation` | `SysSpec => ImplementsSchedule` |
| `FileUndoProofs` | `FileUndoTypeCorrect` | `UndoSpec => []UndoTypeOK` |
| | `UndoIsInverse` | `UndoSpec => []UndoRestores` |
| `ListingProofs` | `ListingTypeCorrect` | `Spec => []TypeOK` |
| | `RowsOfOneListing` | `Spec => []OneListing` |
| | `SettledCurrent` | `Spec => []SettledIsCurrent` |
| | `LoadingAnswered` | `Spec => []LoadingIsAnswered` |
| `SessionProofs` | `SessionTypeCorrect` | `Spec => []SessionTypeOK` |
| | `ChangesReach` | `Spec => []ChangesReachTheTab` |
| | `LoadingFound` | `Spec => []LoadingTabIsFound` |
| | `SettingsAreSaved` | `Spec => []SettingsReachTheFile` |
| | `StartsRestore` | `Spec => StartRestores` |
| | `TrailsKept` | `Spec => TrailKept` |
| | `LocksKept` | `Spec => LockedKept` |
| | `TabsKept` | `Spec => NoTabLost` |
| `FileListProofs` | `FileListTypeCorrect` | `Spec => []FileListTypeOK` |
| | `BandIsExact` | `Spec => []BandSelectsItsRows` |
| | `SelectionSurvives` | `Spec => []SelectionSurvivesRefresh` |
| | `FolderLeftSelected` | `Spec => []FolderLeftIsSelected` |
| | `PickedOnly` | `Spec => OnlyWhatWasPicked` |
| | `ClickAsPressed` | `Spec => ClickMeansItsPress` |
| `ViewsProofs` | `WildcardMatchIsRight` | `WildcardMatch` finds what wildcards stand for (`Globs`), in texts without a star |
| | `NaturalCmpIsAnOrder` | `NaturalCmp` is a total order of names |
| | `EntryCmpIsAnOrder` | so is `EntryCmp` of entries, for every column, up and down |
| | `ViewIsRight` | `ViewsSpec => []ViewIsSortedAndFiltered` |
| `FeaturesProofs` | `ShownWasAsked` | `SearchSpec => []SearchShowsItsQuery` |
| | `LastIsAnswered` | `SearchSpec => []LatestIsAnswered` |
| | `AskedIsPending` | `LookupsSpec => []LookupsArePending` |
| | `RunsAsGranted` | `PluginsSpec => []PluginsActAsGranted` |
| | `IndexIsCurrent` | `VolumeSpec => []IndexFollowsDisk` |
| | `ActsOnTicked` | `CompareSpec => []CompareActsOnWhatIsTicked` |
| | `ShownIsChosen` | `PreviewSpec => []PreviewIsOfItsPath` |
| | `HeardIsPreviewed` | `PreviewSpec => []SoundFollowsPreview` |
| | `FeaturesBehave` | `FeaturesSpec` implies the `Spec` of each of the seven features |
| | `FeaturesCorrect` | `FeaturesSpec => []` the eight properties above and `ViewIsSortedAndFiltered` |

`DataLemmas` holds what several of them need about sequences and finite sets of
numbers: the least element of a set (`Least`), an induction over finite sets of
numbers stated of sets instead of predicates (`Induction`), the increasing
sequence of a finite set (`Enumeration`, `EnumerationOnto`), a sequence with one
element removed or inserted (`Removed`, `Inserted`), and the functions that are
defined by recursion (`Recursion`, `Iteration`).

### The assumptions

Each module names what it assumes of its constants. Those that say more than a
type: the workers are finite and at least one, the first cap is within their
number, as `main` passes it, and the kinds of operations are those of the code
(`OpQueueAssumption`); what the user submits is one of the code's kinds of
operations, a copy or move to a folder, a rename to a path
(`FileUndoAssumption`); tabs and names are finite sets of numbers, names so that
a folder can be read in an order, a batch holds one name at least
(`ListingAssumption`); `MaxTabs` is at least two, since each pane has a tab
(`TabsAssumption`); a folder is read, and the names are ordered, without
repetitions, and what is on disk is among the names (`FileListAssumption`); keys
of different kinds of look-ups are different, the icons are finitely many and a
frame may ask for one of them (`LookupsAssumption`); the names that folders are
compared by are finitely many (`CompareAssumption`); a name is that of one
entry, for a folder that entries only come to, and has no wildcard and no
separator, as Windows has it, and the path of a folder ends with its separator
(`ViewsAssumption`).

`WakeupsKept` has a hypothesis: the cap is never raised. It is needed, since the
run `wakeup` shows that a cap that is raised at the wrong moment loses a wakeup,
and an engine whose user leaves the cap alone satisfies it.

### The engine

All theorems about `OpQueue` but `WakeupsKept` and the two action properties
follow from `Invariance`: `Spec => []IInv`, where `IInv` is the conjunction of
`TypeOK`, `Bookkeeping`, `Exclusive`, `PromptsOpen` and what makes it inductive:

- `Issued`: what waits or runs has been issued (its identifier is below
  `nextId`). Without it `Submit` might give a running operation new paths, and
  `Exclusive` would not survive.
- `FlagsFresh`: the flag of an operation the engine does not track is the initial
  one. Without it a new operation might be born cancelled, and `Submit` would not
  be a step of the abstract specification.
- `AnswersAwaited`: an answer waits only for a worker that asks. Without it a
  worker could find an old answer when it asks, and `PromptsOpen` would break.
- `Logs` and `AskedLast`: the events of an operation fit where it is, in the
  queue, with a worker at a certain point, or gone; while a worker asks, its
  conflict is the last event. `Reported` follows because each step appends what
  fits next.

`Bookkeeping` strengthens the others as well: that each running operation has
one worker is what lets `Finish` remove from the maps what no other worker needs.

`IInv` is preserved part by part: one lemma for each part (`TypeStep`,
`BookkeepingStep`, `ExclusiveStep`, `PromptsStep`, `FlagsStep` and those of the
logs), and in each a step for every action, or group of actions, that can disturb
it. `NextCases` lists the actions once for all; steps that leave a part's
variables alone are dismissed by a lemma on them (`QuietBookkeeping`,
`QuietPrompts`). `Exclusive` is disturbed by `Claim` only, where the guard
`Fitting` gives it.

`WakeupsKept` rests on `Asleep`, which adds to `NoLostWakeup` the worker that has
decided to wait but does not wait yet: nothing it could start may appear in that
gap, because every other call that makes an operation startable takes the mutex
the worker holds.

`OneAtATime` needs that only `Claim` starts an operation, and that a cap of one
lets it do so only when nothing runs. For `Implementation`, the refinement
mapping reads the phase of an operation off the maps; `Submit` is `ASubmit`,
`Claim` is `AStart` (which drops what was cancelled, too), `Park` is `ADrop`,
`Finish` is `AEnd`, the calls that cancel are `ACancel`, everything else
stutters. `FlagsFresh` is what makes `Submit` leave the abstract set of cancelled
operations as it is.

### Engine and window

`SysInv` is `IInv`, the types of the window's variables, its two properties and
two facts. `SeenBound`: the window
handles no event before it is sent. `UnseenWaits`: a conflict that is not handled
yet is the last event of its operation, whose worker still waits. The second is
what makes the pair work: no worker goes on unanswered, so an operation whose
prompt is on its way has not ended behind the window's back. A step of the engine
enters the proof only through `Grows`: it appends at most one event to each log,
and publishes a prompt exactly with a conflict. `SysImplementation` needs nothing
new, as the engine under the window takes steps of `OpQueue` or none.

### Files and undo

`FileUndoInv` adds four facts to the types. What an operation does, step by step
with the conflicts it meets, is compared with what it means: `Leads(o, f, g)` says
that the operation `o`, when nothing is in its way, turns the files `f` into `g`;
`TakesBack(u, g, f)` that the undo action `u` turns `g` into `f`.

- `WorkFollows`: as long as no conflict was met, the files are what the sources
  handled so far make of those there were before (`Passes`), and the pairs the
  operation has noted for its undo are the files it has carried (`Carried`).
- `ResultsInvert`, `JournalInverts`: each outcome on its way and each entry of both
  stacks, if it met no conflict, leads forth from what was before to what was
  after and is taken back by its undo action.
- `UndoLeads`: after an undo or redo with the files as its entry left them, what is
  still to be done brings the expected files: the rest of one operation
  (`OneLeads`), or single moves whatever their order (`MovesLead`).

The second form is that of `MoveBack`, which submits a move for each file. That
they may run in any order is `Returns`: no source of one is a target of any, no
two share either, and no target is occupied. It holds because the sources of what
was moved are outside of the folder it was moved to and the targets inside. A
move within one folder is a rename; a source that is in that folder already is
skipped, and noted by nothing.

### Listings

`ListingInv` is `TypeOK`, that no job or message is newer than its tab
(`NotNewer`), and four facts about each tab and its latest request. `OneAnswer`:
there is one job, or one last batch behind all others, just while the tab loads;
this is `LoadingIsAnswered`. `Rising`: what is gathered, the batches on their way
and what the job has yet to read follow each other in the order of the folder.
`Complete`: of the names that were not touched since the request, those that exist
and no others have been read, up to the one read last. `Settled`: the rows are one
listing of one folder, and when nothing loads, of the tab's folder and complete.
`OneListing` needs `Rising`, since batches that were out of order or of two
requests would not be one listing; `SettledIsCurrent` needs `Complete`, since what
is missed while reading is missing when the reading ends.

That a batch of the latest request is taken and one of an older request is not is
the generation check of `handle_msg`; `NotNewer` excludes messages that would pass
it by being ahead.

### Tabs and session

`PanesInv`: the tabs of both panes have different uids, all below `nextUid`; each
pane has a tab and its active one is in range (`Shape`); for each tab there is a
watcher of its folder, if that can be watched, which runs or was refused or ended,
and, while it loads, a listing on its way (`Cared`); no
folder follows itself in a history (`Steady`). Because a uid is in one place only,
`FindTab` finds the tab itself, whatever pane a message names: this is the step
from `Cared` to `ChangesReachTheTab` and `LoadingTabIsFound`, and where a tab that
is dragged between panes could have been lost.

The action properties follow from `Descent`: of any step but a start, each tab
afterwards is new or descends from one before, and each tab before has a
descendant or was closed. To descend is to have the same uid, and a history and
lock that the code's navigation can make of the former ones; `TrailKept`,
`LockedKept` and `NoTabLost` are read off it, again by the uniqueness of uids.

The file has its own invariant, `FileInv`: it is absent or a whole file, never a
torn one, and holds the settings unless they are still to be saved or a write has
failed. The temporary file may be torn at any time; only the rename touches the
other one. `SetInv` says that what is saved can be shown (a saved window has tabs
in both panes, each with an active one), which is what `StartsRestore` needs of a
start after a crash.

### Rows under the hands

`FileListInv` has, besides the types, what ties the indices a tab is made of to
the files the user means:

- `TabTypeOK`: the rows of a view are different entries of those it was made of,
  which are the tab's own unless a sort or a filter was asked for while a listing
  loaded: the code takes that view for one of the new rows (`listing_view`), and
  the rows it cannot draw are out of the mouse's reach. This is a fact about what
  `BuildView` computes, which filters by a recursive function (`Only`). What that
  function returns is proved by an induction over sets of numbers
  (`SelectingExists`, `OnlyFacts`): it keeps the members asked for, each once and
  in any order of the names.
- `HeldIsKept`, `KeptForLater`: while a refresh replaces the entries, the names
  that were selected are kept, or have been put back as indices into the new
  ones; nothing is kept when no rows are to come. `SelectionSurvives` is read off
  it, when the refresh is over.
- `LeftAwaited`: the name of a folder that was left is still asked for while its
  parent is being listed, by a view of the old rows too (`try_select_pending` keeps
  a request for as long as something loads), and is selected from then on.
  `FolderLeftSelected` is read off it.
- `OneGesture`: the button is down for one thing at a time, a press, a drag or a
  band, so a step of one gesture cannot find the remains of another.
- `GripHolds`: a press is remembered with the row, the keys, the selection and
  the anchor it found, until rows or selection change otherwise. `ClickAsPressed`
  needs it, as the click takes its meaning from what the press has left.
- `BandSelectsItsRows` itself: each frame of a band selects anew all rows between
  its ends (`BandFacts`), so how it grew before does not matter.
- `PicksHold`: what the deletion's question, a drag, the clipboard and a rename
  hold was picked for that. The rename's is an index, so it holds only while the
  entries stay; a listing that replaces them ends the claim.

For the tab, all actions fall into seven kinds (`TabStepCases`): they leave it
alone, select in it, leave it for another folder, refresh it, take a batch, take
a view, or sort it again. `TabTypeStep` and `HeldStep` are proved by these kinds.
What the mouse does to gestures is proved by actions (`GestureStep`, `GripStep`,
`BandStep`, `PicksStep`).

### Search, preview and the other features

- `SearchInv`: there is an assignment of queries to the requests made so far, such
  that boxes, jobs, answers and the work of the IPC thread carry the query of
  their request, and hits of that query alone unless a reply was late. The
  assignment is in no variable of the program; a search extends it at the new
  epoch. The exception for late replies is the finding `late_reply`.
- `PreviewInv`: no job is ahead of the preview, and one of its generation is of
  its file (`JobsBehind`); the last command on its way to the audio thread that
  changes what the sink holds, or the sink itself if there is none, agrees with
  what is shown (`Heard`); once the audio thread has caught up, the flags say what
  it does (`Lit`).
- `LookupInv`: what is asked for has a job, and what has a job is asked for or is
  an icon asked for twice in one frame (`Answered`); the folders being measured
  are counted (`FewSizes`).
- `PluginInv`: a path is once in registry, host and file; what is loaded is
  registered, enabled and has the grants of its record (`Registered`); what runs
  is loaded, and nothing runs while a handler saves (`RunsLoaded`); no record, in
  memory or in the file, grants what the user has not, unless a start has read a
  registry from before a failed save (`GrantsPermitted`).
- `VolumeInv`: while the table is read, the entries read so far are right, but for
  what is missed; once the journal has been asked, the records that are left bring
  each entry to where its file is, because the last of them about that file says
  so, or there is none and the entry is right (`Brings`). A buffer of any length
  keeps this, by induction over its records; a new record is the last about its
  file, which also brings a missed entry back.
- `CompareInv`: rows are each there once (`Single`) and of the folders named above
  them, and so will be those of the answer that is awaited (`JobsFollow`); the
  ticks are the rows the user sees ticked; what was ordered has a side that has
  its row. `Single` is what lets a row be unticked without another one of the same
  look staying ticked.

`FeaturesBehave` needs no invariant: a step of `FeaturesSpec` is a step of one
feature and leaves the variables of the others alone (`AreaSteps`).
`FeaturesCorrect` follows, and is what the run `features` checks.

### Views

What a view is worth rests on three loops of the code, and those of the model are
functions defined by recursion. The library's theorems on such functions take an
operator as a parameter, which the provers cannot instantiate; `DataLemmas` says
the same of functions. `Recursive` says that G makes a function of a function and
looks, for each argument, only at arguments of a lower rank; then `Recursion`
yields a function that G makes of itself, by induction on the rank, which is what
the definition chooses. `Iteration` is the case of a function of numbers that
looks at its predecessor, such as the tokens of a query (`PiecesFacts`) and the
insertion sort (`BuildFacts`).

- *The matcher* (`WildcardMatchIsRight`). `Globs` is what wildcards stand for: for
  each byte of the pattern, the places in the text from which on the rest of the
  pattern matches. The loop remembers its last star only, and forgets the stars
  before it; that it loses nothing is the invariant `Resumes`: the pattern after
  the last star matches from the place where that star was left exactly if the
  pattern matches from where the loop is, and the same further on, shifted. Then
  `CanMatch`, that the text matches from here or from a later place after the last
  star, is the same before and after each turn of the loop (`MatchByte`,
  `MatchStar`, `MatchRetry`), and at its end it says that only stars are left
  (`MatchAtEnd`). The loop ends because a retry moves the star on and all else
  moves the pattern on (`StepsLeaveLess`). A text with a star in it would be
  matched otherwise, since the loop compares bytes before it looks for stars: no
  file name has one, and `NoNewStars` shows that normalizing makes none.
- *The order* (`NaturalCmpIsAnOrder`, `EntryCmpIsAnOrder`). A comparison made of
  parts is an order if each part is, of what it looks at: `Composes` says that
  what comparisons say of a and b and of b and c, they say of a and c, with the
  strictness of either. Differences compose, and so do one comparison after
  another and the reverse of one. Digits are compared by their number without
  zeros, then their length, letters by their lower case (`DigitsCmpFacts`,
  `LetterCmpFacts`), and a digit against another byte as bytes. The delicate
  case is that of three names of which two have digits at a place and the third
  has not: the digits, whatever their number, are on one side of the third byte.
  Two names of which all parts are the same differ in case only, and the last
  comparison, of bytes, tells them apart (`NaturalDistinguishes`).
- *The view* (`ViewIsRight`). `ViewsInv` says that the view is the one that
  `BuildViewOf` makes of the folder, the filter and the order. Inserting an entry
  before the first that is greater keeps the order, because the order is total
  (`InsertOrder`), and the rows of the finished view are the entries that match,
  each once (`BuildFacts`). The suffix that a query requires is the end of each
  path that matches, by the meaning of wildcards (`SuffixGlobs`), and as it has no
  separator it lies within the name (`SuffixLosesNone`).

### Only model-checked

Of the properties of passing runs, one is stated by no theorem: `EveryOpEnds` is
liveness under fairness, which the provers do not treat. The properties of the
runs that expect a violation are false, so there is nothing to prove of them.

## What is left out

- *Engine*: progress counters and labels; the hooks, set once before any
  submission; a panic in a worker; a source that is a drive root, which `run`
  refuses; the order of events of different operations.
- *Operations window*: what the handlers do to listings is in `Listing`; what
  they do to the journal is in `FileUndo`.
- *Files*: folders as sources, so merging of folders and partly copied trees;
  permanent deletion item by item; a recycling the shell does only in part.
- *Listings*: zipped and recycled folders; hidden files; the scroll position.
  A program that has just started has its watchers armed, and they run: watchers
  that cannot be started or end are the subject of `Tabs`.
- *Tabs and session*: titles, colours, widths, and all settings but three, of
  which each stands for a way in which settings are applied.
- *File list*: listings of more than one batch (`Listing` has them), rows
  scrolled out of sight but for a rename's, modifiers that change within a band,
  scrolling at the edges, the OLE loop of a drag that leaves the window, batch
  rename, properties.
- *Search*: the ranking of hits, the limit of their number, the content of the
  walk; content search of a folder is a walk. The pool's two to six threads.
- *Preview*: decoding and drawing, the size of the pane, the keys that are polled
  while the web view has the focus (they close the preview).
- *Index*: how a folder's path is put together, the fallback without NTFS.
- *Plugins*: what a guest computes, its fuel; keys of plugin values are positions
  in the code and names here, so that a value that outlives its plugin's
  position is not shown.
- *Compare*: more than two levels; the paths of the operations (a file from a
  subfolder is copied to the root of the other side, as the model's order says).
- *Views*: groups, dates as keys, bytes beyond ASCII.
- *Not modelled*: drawing, theme, keymap, volumes and shell dialogs are I/O or
  presentation; tags are single SQL statements; zip browsing reads an archive;
  benchmarks, guest plugins and packaging are outside of the program.

## Plan

Done, in this order: `OpSchedule`, `OpQueue` and its proofs, `OpSystem`,
`FileUndo`, `Listing`, `Tabs`, `Session`, `FileList`, `Search`, `Preview`,
`VolumeIndex`, `Plugins`, `Lookups`, `FolderCompare`, `Views`, `Features`; then the
other modules of proofs, `FileListProofs` and `ViewsProofs` last.

Next: properties for the hazards that have none.
