-------------------------------- MODULE Search --------------------------------
(***************************************************************************)
(* The search window and the quick-jump palette: the requests they submit  *)
(* to the worker threads, the one epoch that cancels what is not the       *)
(* latest, the searching of a worker - Everything first, asked by the one  *)
(* IPC thread, then a walk of the folder or the index - and the handling   *)
(* of the answers (crates/sc-app/src/app.rs, jobs.rs, ui.rs,               *)
(* crates/sc-index/src/search.rs, crates/sc-shell/src/everything.rs).      *)
(*                                                                         *)
(* A list of hits is the set of the queries its hits were found for; it    *)
(* is empty when nothing was found. Every job has a worker of its own: the *)
(* two to six threads of the pool only restrict that. What Everything does *)
(* when it has been sent a query is external: it replies in order, at any  *)
(* time, or quits.                                                         *)
(***************************************************************************)
EXTENDS Naturals, Sequences, FiniteSets

CONSTANTS
  Queries,       \* what can be typed, blank aside
  MaxSearches    \* bound: searches asked for

ASSUME SearchAssumption == MaxSearches \in Nat

VARIABLES
  epoch,        \* JobEngine::search_epoch
  search,       \* ScApp::search
  palette,      \* ScApp::palette
  searchJobs,   \* search jobs submitted and not yet done, and how far they are
  answers,      \* UiMsg::SearchResults on their way
  works,        \* the channel of the IPC thread
  ipc,          \* the query the IPC thread waits for, with the ReplyState
  owed,         \* queries Everything has taken and not yet replied to
  everything,   \* Everything runs
  late          \* the IPC thread has given up a query that was sent

searchVars == <<epoch, search, palette, searchJobs, answers, works, ipc, owed,
                everything, late>>
uiVars == <<epoch, search, palette>>
ipcVars == <<works, ipc, owed, late>>

Blank == "blank"
Typed == Queries \cup {Blank}
Modes == {"here", "global", "content"}   \* SearchMode
Nobody == [id |-> 0]
NoResults == [id |-> 0, query |-> Blank, hits |-> {}]

------------------------------------------------------------------------------
(* The user: the window (search_overlay) and the palette (palette_overlay).*)
(* Closing one changes nothing of its own, its search goes on: opening here *)
(* stands for closing it, if it was open, and opening it again.             *)

Request(id, q, m) ==
  [id |-> id, query |-> q, mode |-> m, stage |-> "queued", part |-> "main", hits |-> {}]

\* JobEngine::new_search: the latest id, which is the one of this box.
Ask(q, m) ==
  /\ epoch < MaxSearches
  /\ epoch' = epoch + 1
  /\ searchJobs' = searchJobs \cup {Request(epoch + 1, q, m)}

\* run_search on the query q and mode m. A blank query asks for nothing, and
\* leaves the id and the epoch as they are.
RunSearch(q, m) ==
  IF q = Blank
  THEN /\ search' = [search EXCEPT !.query = q, !.mode = m,
                                   !.running = FALSE, !.results = NoResults]
       /\ UNCHANGED <<epoch, searchJobs>>
  ELSE /\ Ask(q, m)
       /\ search' = [search EXCEPT !.query = q, !.mode = m,
                                   !.running = TRUE, !.id = epoch + 1]

\* open_search: a window that was closed starts in the folder of the tab,
\* with the text it had.
OpenSearch ==
  /\ IF search.query = Blank
     THEN /\ search' = [search EXCEPT !.mode = "here"]
          /\ UNCHANGED <<epoch, searchJobs>>
     ELSE RunSearch(search.query, "here")
  /\ UNCHANGED <<palette, answers, ipcVars, everything>>

EditSearch ==
  /\ \/ \E q \in Typed \ {search.query} : RunSearch(q, search.mode)
     \/ \E m \in Modes \ {search.mode} : RunSearch(search.query, m)
  /\ UNCHANGED <<palette, answers, ipcVars, everything>>

\* run_palette: a blank query shows the folders of the active tab.
RunPalette(q) ==
  IF q = Blank
  THEN /\ palette' = [palette EXCEPT !.query = q, !.results = NoResults]
       /\ UNCHANGED <<epoch, searchJobs>>
  ELSE /\ Ask(q, "palette")
       /\ palette' = [palette EXCEPT !.query = q, !.id = epoch + 1]

\* The shortcut also starts Everything, if it is installed (warmup).
OpenPalette ==
  /\ RunPalette(palette.query)
  /\ everything' \in {everything, TRUE}
  /\ UNCHANGED <<search, answers, ipcVars>>

EditPalette ==
  /\ \E q \in Typed \ {palette.query} : RunPalette(q)
  /\ UNCHANGED <<search, answers, ipcVars, everything>>

------------------------------------------------------------------------------
(* The answers.                                                            *)

\* Wrong: whatever arrives is shown.
OnSearchResultsOfAny ==
  /\ answers # <<>>
  /\ search' = [search EXCEPT !.running = FALSE, !.results = Head(answers)]
  /\ palette' = IF Head(answers).id = palette.id
                THEN [palette EXCEPT !.results = Head(answers)] ELSE palette
  /\ answers' = Tail(answers)
  /\ UNCHANGED <<epoch, searchJobs, ipcVars, everything>>

\* handle_msg, SearchResults: the two boxes compare it with their own id.
OnSearchResults ==
  /\ answers # <<>>
  /\ LET a == Head(answers) IN
       /\ search' = IF a.id = search.id
                    THEN [search EXCEPT !.running = FALSE, !.results = a] ELSE search
       /\ palette' = IF a.id = palette.id
                     THEN [palette EXCEPT !.results = a] ELSE palette
  /\ answers' = Tail(answers)
  /\ UNCHANGED <<epoch, searchJobs, ipcVars, everything>>

------------------------------------------------------------------------------
(* A worker (run_job, IndexService::search_names).                         *)

Move(j, k) == searchJobs' = (searchJobs \ {j}) \cup {k}

\* The end of a job: it answers if it is still the latest.
Finish(j, hits) ==
  /\ searchJobs' = searchJobs \ {j}
  /\ answers' = IF epoch = j.id
                THEN Append(answers, [id |-> j.id, query |-> j.query, hits |-> hits])
                ELSE answers

\* A job that is no longer the latest when a worker takes it is dropped; a
\* search of contents walks at once; everywhere means near the tab's folder
\* first, then all of it.
TakeJob(j) ==
  /\ j.stage = "queued"
  /\ IF epoch # j.id THEN searchJobs' = searchJobs \ {j}
     ELSE Move(j, [j EXCEPT !.stage = IF j.mode = "content" THEN "walk" ELSE "ask",
                            !.part = IF j.mode = "global" THEN "near" ELSE "main"])
  /\ UNCHANGED <<uiVars, answers, ipcVars, everything>>

\* Wrong: without Everything there is nothing to search with.
NoAnswerNoWalk(j) ==
  /\ searchJobs' = searchJobs \ {j}
  /\ UNCHANGED answers

\* everything_hits is None: the folder or the index is walked.
NoAnswer(j) ==
  CASE j.part = "near" -> Move(j, [j EXCEPT !.stage = "ask", !.part = "main"])
                          /\ UNCHANGED answers
    [] j.part = "main" /\ j.hits = {} -> Move(j, [j EXCEPT !.stage = "walk"])
                                         /\ UNCHANGED answers
    [] OTHER -> Finish(j, j.hits)

\* merge_hits, when there were some near the folder.
GotHits(j, hits) ==
  IF j.part = "near"
  THEN Move(j, [j EXCEPT !.stage = "ask", !.part = "main", !.hits = hits])
       /\ UNCHANGED answers
  ELSE Finish(j, j.hits \cup hits)

\* everything::search: Everything is started if it does not run, and the
\* query is handed to the IPC thread.
AskEverything(j) ==
  /\ j.stage = "ask"
  /\ everything' \in {everything, TRUE}
  /\ IF everything'
     THEN /\ Move(j, [j EXCEPT !.stage = "wait"])
          /\ works' = Append(works, [id |-> j.id, part |-> j.part, query |-> j.query])
          /\ UNCHANGED answers
     ELSE NoAnswer(j) /\ UNCHANGED works
  /\ UNCHANGED <<uiVars, ipc, owed, late>>

\* recv_timeout: 1200 ms, also when the query is still in the channel.
GiveUp(j) ==
  /\ j.stage = "wait"
  /\ NoAnswer(j)
  /\ UNCHANGED <<uiVars, ipcVars, everything>>

\* search_tree, search_pred, content_search: what is found, or nothing.
EndWalk(j) ==
  /\ j.stage = "walk"
  /\ \E hits \in {{}, {j.query}} : Finish(j, hits)
  /\ UNCHANGED <<uiVars, ipcVars, everything>>

------------------------------------------------------------------------------
(* The IPC thread (ipc_worker, perform_query_on).                          *)

\* The channel of the reply, if the worker still waits at its other end.
Reply(work, ok, hits) ==
  LET waiting == {j \in searchJobs :
                    j.stage = "wait" /\ j.id = work.id /\ j.part = work.part}
  IN  IF waiting = {} THEN UNCHANGED <<searchJobs, answers>>
      ELSE \E j \in waiting : IF ok THEN GotHits(j, hits) ELSE NoAnswer(j)

\* The query goes to Everything's window.
SendQuery ==
  /\ ipc = Nobody /\ works # <<>> /\ everything
  /\ ipc' = [id |-> Head(works).id, part |-> Head(works).part, items |-> {}, got |-> FALSE]
  /\ owed' = Append(owed, Head(works).query)
  /\ works' = Tail(works)
  /\ UNCHANGED <<uiVars, searchJobs, answers, everything, late>>

\* There is no window, or it hangs for 800 ms; the message may stay with it.
SendFails ==
  /\ ipc = Nobody /\ works # <<>>
  /\ Reply(Head(works), FALSE, {})
  /\ \/ UNCHANGED <<owed, late>>
     \/ everything /\ owed' = Append(owed, Head(works).query) /\ late' = TRUE
  /\ works' = Tail(works)
  /\ UNCHANGED <<uiVars, ipc, everything>>

\* wndproc while the thread waits: a reply says nothing of its query, and
\* its items are added to those there are.
Pump ==
  /\ ipc # Nobody /\ owed # <<>>
  /\ \E found \in {{}, {Head(owed)}} :
       ipc' = [ipc EXCEPT !.items = @ \cup found, !.got = TRUE]
  /\ owed' = Tail(owed)
  /\ UNCHANGED <<uiVars, searchJobs, answers, works, everything, late>>

EndQuery ==
  /\ ipc # Nobody /\ ipc.got
  /\ Reply(ipc, TRUE, ipc.items)
  /\ ipc' = Nobody
  /\ UNCHANGED <<uiVars, works, owed, everything, late>>

\* 600 ms without a reply.
QueryTimesOut ==
  /\ ipc # Nobody /\ ~ipc.got
  /\ Reply(ipc, FALSE, {})
  /\ ipc' = Nobody /\ late' = TRUE
  /\ UNCHANGED <<uiVars, works, owed, everything>>

EverythingQuits ==
  /\ everything
  /\ everything' = FALSE /\ owed' = <<>>
  /\ UNCHANGED <<uiVars, searchJobs, answers, works, ipc, late>>

------------------------------------------------------------------------------
SearchInit ==
  /\ epoch = 0
  /\ search = [query |-> Blank, mode |-> "here", id |-> 0,
               running |-> FALSE, results |-> NoResults]
  /\ palette = [query |-> Blank, id |-> 0, results |-> NoResults]
  /\ searchJobs = {} /\ answers = <<>> /\ works = <<>> /\ ipc = Nobody /\ owed = <<>>
  /\ everything \in BOOLEAN /\ late = FALSE

SearchNext ==
  \/ OpenSearch \/ EditSearch
  \/ OpenPalette \/ EditPalette
  \/ OnSearchResults
  \/ \E j \in searchJobs : TakeJob(j) \/ AskEverything(j) \/ GiveUp(j) \/ EndWalk(j)
  \/ SendQuery \/ SendFails \/ Pump \/ EndQuery \/ QueryTimesOut
  \/ EverythingQuits

SearchSpec == SearchInit /\ [][SearchNext]_searchVars

------------------------------------------------------------------------------
(* Properties.                                                             *)

\* The window without its spinner shows what the last request of its own has
\* found, for the text that is in the box; and, as long as no reply of
\* Everything came too late, hits of that text only (handle_msg and run_job
\* drop what is not the latest).
SearchShowsItsQuery ==
  ~search.running /\ search.query # Blank =>
    /\ search.results.id = search.id /\ search.results.query = search.query
    /\ late \/ search.results.hits \subseteq {search.query}

Outstanding(id) ==
  \/ \E j \in searchJobs : j.id = id
  \/ \E i \in DOMAIN answers : answers[i].id = id

\* The box that asked last gets its answer: either a worker or the answer is
\* still on the way, or it shows it. No time-out, start or end of Everything
\* and no cancelled predecessor takes it away (search_names, run_job).
LatestIsAnswered ==
  \A box \in {search, palette} :
    box.query # Blank /\ box.id = epoch =>
      Outstanding(box.id)
        \/ (box.results.id = box.id /\ box.results.query = box.query)

\* What the window shows for a query was found for that query, whatever
\* Everything does ("workers drop results for stale queries", jobs.rs:115).
HitsAnswerTheQuery ==
  ~search.running /\ search.query # Blank => search.results.hits \subseteq {search.query}
==============================================================================
