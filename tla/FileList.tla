------------------------------ MODULE FileList ------------------------------
(***************************************************************************)
(* A tab's rows under the user's hands: cursor, anchor and selection, keys *)
(* and type-ahead, press, click, drag and rubber band, the inline rename,  *)
(* the deletion to be confirmed, clipboard and drops, while listings come  *)
(* in underneath (crates/sc-core/src/state.rs, crates/sc-app/src/ui.rs,    *)
(* interact.rs, app.rs, dialogs.rs).                                       *)
(*                                                                         *)
(* The selection, the band's kept set and a rename hold indices into the   *)
(* tab's entries; cursor and anchor are rows of its view; a deletion to be *)
(* confirmed, a drag and the clipboard hold paths. A row is a place in the *)
(* view, counted from 1; 0 is none. A name is a sequence of letters, a path *)
(* one of names. The tree is two deep. A listing comes in one batch.       *)
(*                                                                         *)
(* Views are made on several threads and come in any order. One asked for  *)
(* while a listing loads is of the rows before it and may come after it:   *)
(* its rows need not be entries (the subject of Listing). The table cannot *)
(* draw such a row, so that the mouse is never on it.                      *)
(***************************************************************************)
EXTENDS Integers, FiniteSets, SequencesExt

CONSTANTS
  ByName,       \* every name, in the order rows are sorted
  OnDisk,       \* every name, in the order the disk lists them
  Dirs,         \* the names of folders
  Matching,     \* the names a filter leaves
  Page,         \* 20 rows in the code
  Here, There,  \* the tab's folder and the other pane's
  MaxListInputs \* bound: inputs of the user and changes of the disk

ASSUME FileListAssumption ==
  /\ ByName \in Seq(ToSet(ByName)) /\ IsInjective(ByName)
  /\ OnDisk \in Seq(ToSet(ByName)) /\ IsInjective(OnDisk)
  /\ Page \in Nat /\ MaxListInputs \in Nat

VARIABLES
  tab,          \* the TabState: path, entries, view, selection, cursor, anchor,
                \* ascending, filtered, loading; viewOf is the entries that the
                \* view was made of
  keeping,      \* ScApp::keep_selection: none or one set of names
  pendingSelect, \* ScApp::pending_select: none or one set of names
  viewJobs,     \* the views on their way for this generation, each with the
                \* entries it is of and the input that asked for it
  disk,         \* the names in each folder
  press,        \* ScApp::list_press: none or one [ctrl, shift]; over is the
                \* entries it was made over, for the properties only
  down,         \* egui: the row the button went down on
  marquee,      \* none or one [from, at, additive, keep], and over
  drag,         \* the paths under the pointer; empty if none
  rename,       \* ScApp::rename: none or one entry
  menu,         \* ScApp::row_ctx_menu: none or one entry
  doomed,       \* ScApp::pending_delete: the paths; empty if none
  clip,         \* the clipboard's paths
  typed,        \* ScApp::type_ahead
  op,           \* the operation submitted last
  inputs,
  \* read by the properties only:
  picked,       \* what was highlighted when a deletion, drag, copy or rename began
  grip,         \* none or one: how the press found the rows
  still,        \* the band's rows have not been replaced
  held,         \* none or one set of names: what the user has selected
  awaited       \* none or one [names, why]: what the program is to select

handVars == <<press, down, marquee, drag, rename, menu, doomed, clip, typed>>
seenVars == <<picked, grip, still, held, awaited>>
listVars == <<tab, keeping, pendingSelect, viewJobs>>
expected == <<held, awaited>>
vars == <<listVars, disk, handVars, op, inputs, seenVars>>

Names == ToSet(ByName)
Folders == {Here} \cup {Append(Here, d) : d \in Dirs}

------------------------------------------------------------------------------
(* Views.                                                                  *)

\* The names that are in S, in their order.
OnlyThose(names, S) ==
  LET upTo[i \in 0 .. Len(names)] ==
        IF i = 0 THEN <<>>
        ELSE IF names[i] \in S THEN Append(upTo[i - 1], names[i]) ELSE upTo[i - 1]
  IN  upTo[Len(names)]

FoldersFirst(names) == OnlyThose(names, Dirs) \o OnlyThose(names, Names \ Dirs)

Directed(s, ascending) == IF ascending THEN s ELSE Reverse(s)

IndexOf(es, n) == CHOOSE i \in DOMAIN es : es[i] = n
Indices(es, names) == [r \in DOMAIN names |-> IndexOf(es, names[r])]

\* build_view: the entries that match, in order.
BuildView(es, ascending, filtered) ==
  Indices(es, OnlyThose(Directed(FoldersFirst(ByName), ascending),
                   {n \in ToSet(es) : filtered => n \in Matching}))

\* streaming_indices: a listing that is not sorted yet.
StreamingIndices(es, ascending) ==
  Indices(es, Directed(FoldersFirst(es), ascending))

Rows == DOMAIN tab.view

\* The rows that can be drawn.
Real == {r \in Rows : tab.view[r] \in DOMAIN tab.entries}
NameAt(row) == tab.entries[tab.view[row]]
NamesOf(t, indices) == {t.entries[i] : i \in indices \cap DOMAIN t.entries}

\* selected_names and selected_paths: the tab's folder with the entries' names.
SelectedNames(t) == NamesOf(t, t.selection)
SelectedPaths(t) == {Append(t.path, n) : n \in SelectedNames(t)}

\* paths_for_clipboard: the row with the cursor when nothing is selected.
PathsForClipboard ==
  IF SelectedPaths(tab) # {} THEN SelectedPaths(tab)
  ELSE {Append(tab.path, NameAt(r)) : r \in {tab.cursor} \cap Real}

------------------------------------------------------------------------------
(* Moving cursor, anchor and selection (TabState).                         *)

Clamp(pos, t) == IF pos > Len(t.view) THEN Len(t.view) ELSE pos
Lower(a, b) == IF a < b THEN a ELSE b
Upper(a, b) == IF a < b THEN b ELSE a

\* view.get(a..=b): nothing at all if the range leaves the view.
Slice(t, a, b) ==
  IF Upper(a, b) > Len(t.view) THEN {}
  ELSE {t.view[r] : r \in Lower(a, b) .. Upper(a, b)}

From(t, pos) == CASE t.anchor # 0 -> t.anchor
                  [] t.anchor = 0 /\ t.cursor # 0 -> t.cursor
                  [] OTHER -> pos

MoveCursor(t, to, extend) ==
  LET pos == Clamp(to, t)
      from == From(t, pos)
  IN  IF t.view = <<>> THEN t
      ELSE IF extend
      THEN [t EXCEPT !.anchor = from, !.cursor = pos, !.selection = Slice(t, from, pos)]
      ELSE [t EXCEPT !.anchor = pos, !.cursor = pos, !.selection = {t.view[pos]}]

Toggled(S, x) == IF x \in S THEN S \ {x} ELSE S \cup {x}

ToggleSelect(t, to) ==
  LET pos == Clamp(to, t)
  IN  IF t.view = <<>> THEN t
      ELSE [t EXCEPT !.selection = Toggled(@, t.view[pos]), !.cursor = pos, !.anchor = pos]

\* Wrong: a band only ever adds rows.
SelectViewRangeAdding(t, a, b, keep) ==
  [t EXCEPT !.selection = @ \cup keep \cup Slice(t, a, b), !.anchor = a, !.cursor = b]

SelectViewRange(t, a, b, keep) ==
  [t EXCEPT !.selection = keep \cup Slice(t, a, b), !.anchor = a, !.cursor = b]

Unselected(t) == [t EXCEPT !.selection = {}, !.cursor = 0, !.anchor = 0]

\* Marquee::rows, in rows: the band from one height to another, 0 being above
\* the first row and Len(view) + 1 below the last.
Band(a, b, n) ==
  IF n = 0 \/ Upper(a, b) < 1 \/ Lower(a, b) > n THEN <<>>
  ELSE <<Upper(Lower(a, b), 1), Lower(Upper(a, b), n)>>

------------------------------------------------------------------------------
(* Listings.                                                               *)

EndListGesture == press' = {} /\ marquee' = {}

\* request_listing_for: the views on their way are of an older generation
\* from here.
RequestListing(t, keep) ==
  /\ tab' = [t EXCEPT !.loading = TRUE]
  /\ keeping' = IF keep THEN {SelectedNames(t)} ELSE {}
  /\ viewJobs' = {}

\* rebuild_view, of the entries there are, whether or not others are loading.
RebuildView(t, asked) ==
  IF t.entries = <<>>
  THEN /\ tab' = [t EXCEPT !.view = <<>>, !.viewOf = <<>>]
       /\ UNCHANGED viewJobs
  ELSE /\ tab' = t
       /\ viewJobs' = viewJobs \cup
            {[asked |-> asked, of |-> t.entries,
              view |-> BuildView(t.entries, t.ascending, t.filtered)]}

Listed(folder) == OnlyThose(OnDisk, disk[folder])

\* Wrong: the view of the rows there were is kept.
BatchRowsUnderOldView(es) ==
  [tab EXCEPT !.entries = es, !.loading = FALSE, !.viewOf = es]

BatchRows(es) == [tab EXCEPT !.entries = es, !.loading = FALSE, !.viewOf = es,
                             !.view = StreamingIndices(es, tab.ascending)]

\* The entries with the names that are to be selected.
Pending(t) == {i \in DOMAIN t.entries : t.entries[i] \in UNION pendingSelect}

\* Wrong: nothing is selected on arrival.
NothingPending(t) == t

\* try_select_pending: the cursor goes to the first of their rows, if shown.
TrySelectPending(t) ==
  LET rows == {r \in DOMAIN t.view : t.view[r] \in Pending(t)}
      first == IF rows = {} THEN 0 ELSE CHOOSE r \in rows : \A q \in rows : r <= q
  IN  IF Pending(t) = {} THEN t
      ELSE [t EXCEPT !.selection = Pending(t), !.cursor = first, !.anchor = first]

\* They are waited for as long as a listing loads.
StillPending(t) == IF Pending(t) = {} /\ t.loading THEN pendingSelect ELSE {}

\* handle_msg, the last Batch: the rows are replaced, the selection is not,
\* but for the names that are to be selected.
OnBatch ==
  LET es == Listed(tab.path)
  IN  /\ tab.loading
      /\ RebuildView(TrySelectPending(BatchRows(es)), 0)
      /\ pendingSelect' = StillPending(BatchRows(es))
      /\ grip' = {} /\ still' = FALSE
      /\ picked' = [picked EXCEPT !["rename"] = {}]
      /\ held' = IF es = <<>> THEN {{} : S \in held} ELSE held
      /\ UNCHANGED <<keeping, disk, handVars, op, inputs, awaited>>

\* Wrong: the view comes, the selection stays what it was.
RestoredNothing(t) == t

\* The names kept from before the request are selected again.
Restored(t) ==
  IF keeping = {} THEN t
  ELSE [t EXCEPT !.selection = {i \in DOMAIN t.entries : t.entries[i] \in UNION keeping}]

\* handle_msg, View. What is kept is used up, by a view of the rows before
\* the listing too, and what is to be selected overrules it.
OnView ==
  \E v \in viewJobs :
    LET t == [tab EXCEPT !.view = v.view, !.viewOf = v.of]
    IN  /\ tab' = TrySelectPending(Restored(t))
        /\ pendingSelect' = StillPending(t)
        /\ keeping' = {} /\ viewJobs' = viewJobs \ {v}
        /\ grip' = {} /\ still' = FALSE
        /\ held' = IF tab.loading \/ Pending(t) # {} THEN {}
                   ELSE {S \cap ToSet(tab.entries) : S \in held}
        /\ awaited' = IF tab.loading /\ Pending(t) # {} THEN {} ELSE awaited
        /\ UNCHANGED <<disk, handVars, op, inputs, picked>>

\* The batch has replaced the rows, the view has not restored the selection:
\* a refresh now keeps the names that the old indices denote.
InBetween == ~tab.loading /\ viewJobs # {} /\ keeping # {}
HeldAfterRefresh == IF InBetween THEN {} ELSE held

Input == inputs < MaxListInputs /\ inputs' = inputs + 1

DiskChange ==
  /\ Input
  /\ \E n \in Names : disk' = [disk EXCEPT ![tab.path] = Toggled(@, n)]
  /\ UNCHANGED <<listVars, handVars, op, seenVars>>

Refreshed == RequestListing(tab, TRUE) /\ held' = HeldAfterRefresh

\* F5, and the watcher (which asks only when nothing loads).
Refresh ==
  /\ Input /\ Refreshed /\ awaited' = {}
  /\ UNCHANGED <<pendingSelect, disk, handVars, op, picked, grip, still>>

\* handle_op_event, Done: an operation that has put a file into the folder
\* (the engine's copies, moves, new files and folders are inputs here).
\* select_created_items, then refresh_all_matching.
OperationEnds ==
  /\ Input
  /\ \E n \in Names :
       /\ disk' = [disk EXCEPT ![tab.path] = @ \cup {n}]
       /\ pendingSelect' = {{n}}
       /\ awaited' = {[names |-> {n}, why |-> "created"]}
  /\ Refreshed
  /\ UNCHANGED <<handVars, op, picked, grip, still>>

\* Another tab gets something to select: there is one pending_select for all.
SelectsElsewhere ==
  /\ Input /\ pendingSelect # {}
  /\ pendingSelect' = {} /\ awaited' = IF tab.loading THEN {} ELSE awaited
  /\ UNCHANGED <<tab, keeping, viewJobs, disk, handVars, op, picked, grip, still, held>>

\* sort_by and the filter box, while a listing loads as at any other time.
Resort ==
  /\ Input
  /\ \/ RebuildView([tab EXCEPT !.ascending = ~@], inputs')
     \/ RebuildView([tab EXCEPT !.filtered = ~@], inputs')
  /\ still' = FALSE
  /\ grip' = IF tab'.view = tab.view THEN grip ELSE {}
  /\ UNCHANGED <<keeping, pendingSelect, disk, handVars, op, picked, expected>>

\* ScApp::navigate, TabState::navigate: the old rows stay until the first batch.
\* A rename that goes on would be of a file of the new folder.
NavigateTo(folder) ==
  /\ EndListGesture
  /\ RequestListing([Unselected(tab) EXCEPT !.path = folder, !.filtered = FALSE], FALSE)
  /\ picked' = [picked EXCEPT !["rename"] = {}]
  /\ grip' = {} /\ held' = {} /\ UNCHANGED still

------------------------------------------------------------------------------
(* Keys.                                                                   *)

\* The user has selected; with a listing under way the selection that comes
\* with it, or its rows, will overrule this.
Chosen == /\ held' = IF tab.loading \/ InBetween THEN {} ELSE {SelectedNames(tab')}
          /\ awaited' = {}

keysUnchanged == <<keeping, pendingSelect, viewJobs, disk, press, down, marquee, drag, rename,
                   menu, doomed, clip, op, picked>>

\* The field of a rename has the focus, and with it the keyboard, only while its
\* row is drawn: it can be scrolled out of sight, and the rename goes on. The
\* keys below are those that find no field with the focus.
NavigationTargets ==
  LET reach(d) == Upper(1, Lower(Upper(tab.cursor, 1) + d, Len(tab.view)))
  IN  {1, Len(tab.view)} \cup {reach(d) : d \in {1, -1, Page, -Page}}

\* list_navigation_keys: arrows, pages, Home and End, with or without shift.
NavigationKey ==
  /\ Input /\ tab.view # <<>>
  /\ \E pos \in NavigationTargets, shift \in BOOLEAN : tab' = MoveCursor(tab, pos, shift)
  /\ grip' = {} /\ still' = FALSE /\ Chosen
  /\ UNCHANGED <<keysUnchanged, typed>>

SelectAll ==
  /\ Input
  /\ tab' = [tab EXCEPT !.selection = ToSet(tab.view)]
  /\ grip' = {} /\ still' = FALSE /\ Chosen
  /\ UNCHANGED <<keysUnchanged, typed>>

\* open_entry of a folder; files are opened outside the program.
EnterKey ==
  /\ Input
  /\ \E r \in {tab.cursor} \cap Real :
       NameAt(r) \in Dirs /\ NavigateTo(Append(tab.path, NameAt(r)))
  /\ tab.path = Here /\ awaited' = {}
  /\ UNCHANGED <<pendingSelect, disk, down, drag, rename, menu, doomed, clip, typed, op>>

\* The first row from start on, around the end, whose name begins so.
FoundRow(start, needle) ==
  LET n == Len(tab.view)
      row(off) == ((start - 1 + off) % n) + 1
      hits == {off \in 0 .. n - 1 : row(off) \in Real /\ IsPrefix(needle, NameAt(row(off)))}
  IN  IF hits = {} THEN 0 ELSE row(CHOOSE o \in hits : \A p \in hits : o <= p)

\* type_ahead: the same single letter again walks on from the cursor.
TypeAhead ==
  /\ Input
  /\ \E c \in UNION {ToSet(n) : n \in Names}, timedOut \in BOOLEAN :
       LET before == IF timedOut THEN <<>> ELSE typed
           cycle == before = <<c>>
           found == IF tab.view = <<>> THEN 0
                    ELSE FoundRow(IF cycle /\ tab.cursor # 0
                                  THEN (tab.cursor % Len(tab.view)) + 1 ELSE 1,
                                  IF cycle THEN before ELSE before \o <<c>>)
       IN  /\ typed' = IF cycle THEN before ELSE before \o <<c>>
           /\ IF found = 0 THEN UNCHANGED <<tab, expected>>
              ELSE tab' = MoveCursor(tab, found, FALSE) /\ Chosen
  /\ grip' = {} /\ still' = FALSE
  /\ UNCHANGED keysUnchanged

------------------------------------------------------------------------------
(* The mouse on the rows (file_table).                                     *)

mouseUnchanged == <<keeping, pendingSelect, viewJobs, disk, doomed, clip, typed, op>>

\* The field of a rename that is drawn loses the focus, which gives it up.
Blurs == rename' \in {rename, {}}

Free == down = 0 /\ marquee = {} /\ drag = {}

\* A press on a row, selected at once if it is a plain one: a drag may follow.
PressRow ==
  /\ Input /\ Free
  /\ \E r \in Real, ctrl, shift \in BOOLEAN :
       /\ press' = {[ctrl |-> ctrl, shift |-> shift, over |-> tab.entries]} /\ down' = r
       /\ tab' = CASE shift -> MoveCursor(tab, r, TRUE)
                   [] ~shift /\ ~ctrl /\ tab.view[r] \notin tab.selection ->
                        MoveCursor(tab, r, FALSE)
                   [] ~shift /\ ~ctrl /\ tab.view[r] \in tab.selection ->
                        [tab EXCEPT !.cursor = r]
                   [] OTHER -> tab
       /\ grip' = {[row |-> r, ctrl |-> ctrl, shift |-> shift,
                    selection |-> tab.selection, from |-> From(tab, r)]}
  /\ Blurs /\ Chosen
  /\ UNCHANGED <<mouseUnchanged, marquee, drag, menu, picked, still>>

\* Wrong: what is held when the button comes up decides.
ClickModifiersNow(ctrl, shift) == [ctrl |-> ctrl, shift |-> shift]

\* The modifiers of the press, if the press is still known.
ClickModifiers(ctrl, shift) ==
  IF press = {} THEN [ctrl |-> ctrl, shift |-> shift]
  ELSE [ctrl |-> \E p \in press : p.ctrl, shift |-> \E p \in press : p.shift]

\* The button comes up on the row it went down on, whatever that shows by now.
ClickRow ==
  /\ down \in Real
  /\ \E ctrl, shift \in BOOLEAN :
       LET m == ClickModifiers(ctrl, shift)
       IN  tab' = IF m.ctrl THEN ToggleSelect(tab, down) ELSE MoveCursor(tab, down, m.shift)
  /\ press' = {} /\ down' = 0 /\ grip' = {} /\ Chosen
  /\ UNCHANGED <<mouseUnchanged, inputs, marquee, drag, rename, menu, picked, still>>

\* The button comes up elsewhere.
Release ==
  /\ down # 0 /\ down' = 0 /\ press' = {} /\ grip' = {}
  /\ UNCHANGED <<tab, mouseUnchanged, inputs, marquee, drag, rename, menu, picked,
                 still, expected>>

\* The selection, or the row alone if it is not in it.
Dragged(r) == IF tab.view[r] \in tab.selection THEN tab.selection ELSE {tab.view[r]}

\* dnd_set_drag_payload: the paths of what is dragged and shown. A row outside
\* the selection is pressed once more, with what is held now.
DragRow ==
  /\ down \in Real /\ rename = {}
  /\ drag' = {Append(tab.path, n) : n \in NamesOf(tab, Dragged(down) \cap ToSet(tab.view))}
  /\ IF tab.view[down] \in tab.selection THEN UNCHANGED <<tab, press>>
     ELSE \E ctrl, shift \in BOOLEAN :
            /\ press' = {[ctrl |-> ctrl, shift |-> shift, over |-> tab.entries]}
            /\ tab' = IF shift \/ ~ctrl THEN MoveCursor(tab, down, shift) ELSE tab
  /\ picked' = [picked EXCEPT !["drag"] = {Append(tab.path, n) : n \in NamesOf(tab, Dragged(down))}]
  /\ down' = 0 /\ grip' = {} /\ Chosen
  /\ UNCHANGED <<mouseUnchanged, inputs, marquee, rename, menu, still>>

\* The drag of a press on the empty space below the rows is a band, unless a
\* rename goes on.
StartBand ==
  /\ Input /\ Free
  /\ \E ctrl \in BOOLEAN :
       LET y == Len(tab.view) + 1
       IN  /\ press' = IF rename # {} THEN press
                       ELSE {[ctrl |-> ctrl, shift |-> FALSE, over |-> tab.entries]}
           /\ marquee' = {[from |-> y, at |-> y, additive |-> ctrl, over |-> tab.entries,
                           keep |-> IF ctrl THEN tab.selection ELSE {}]}
  /\ rename' = {} /\ still' = FALSE
  /\ UNCHANGED <<tab, mouseUnchanged, down, drag, menu, picked, grip, expected>>

\* A frame with the button down: the band's rows are selected anew.
Banded(t, m, y) ==
  LET b == Band(m.from, y, Len(t.view))
  IN  CASE b # <<>> -> SelectViewRange(t, b[1], b[2], m.keep)
        [] b = <<>> /\ m.additive -> [t EXCEPT !.selection = m.keep]
        [] OTHER -> Unselected(t)

MoveBand ==
  /\ \E m \in marquee, y \in 0 .. Len(tab.view) + 1 :
       /\ tab' = Banded(tab, m, y)
       /\ marquee' = {[m EXCEPT !.at = y]}
  /\ still' = TRUE /\ grip' = {} /\ Chosen
  /\ UNCHANGED <<mouseUnchanged, inputs, press, down, drag, rename, menu, picked>>

\* The button comes up: the band selects once more and is gone.
EndBand ==
  /\ \E m \in marquee : tab' = Banded(tab, m, m.at)
  /\ EndListGesture /\ still' = FALSE /\ grip' = {} /\ Chosen
  /\ UNCHANGED <<mouseUnchanged, inputs, down, drag, rename, menu, picked>>

\* A plain click on empty space.
ClickEmpty ==
  /\ Input /\ Free
  /\ tab' = IF tab.selection = {} THEN tab ELSE Unselected(tab)
  /\ press' = {} /\ Blurs /\ menu' = {} /\ grip' = {} /\ Chosen
  /\ UNCHANGED <<mouseUnchanged, down, marquee, drag, picked, still>>

\* A right click: a row outside the selection becomes the selection.
ContextMenu ==
  /\ Input /\ Free
  /\ \E r \in Real :
       /\ tab' = IF tab.view[r] \in tab.selection THEN tab
                 ELSE [tab EXCEPT !.selection = {tab.view[r]}, !.cursor = r, !.anchor = r]
       /\ menu' = {tab.view[r]}
  /\ Blurs /\ grip' = {} /\ Chosen
  /\ UNCHANGED <<mouseUnchanged, press, down, marquee, drag, picked, still>>

------------------------------------------------------------------------------
(* What is done with the rows.                                             *)

actUnchanged == <<disk, press, down, marquee, typed, grip, still>>

SubmitOp(by, sources, dest) ==
  op' = [by |-> by, sources |-> sources, dest |-> dest]

\* Chosen in the row's menu, or with the key.
MenuCloses == menu' \in {menu, {}}

\* delete_selection, which asks or does not, as the settings say for the
\* recycle bin and for good; which of the two it is goes with the paths.
Delete ==
  /\ Input /\ SelectedPaths(tab) # {}
  /\ \E confirm \in BOOLEAN :
       IF confirm
       THEN /\ doomed' = SelectedPaths(tab) /\ UNCHANGED op
            /\ picked' = [picked EXCEPT !["delete"] = SelectedPaths(tab)]
       ELSE /\ SubmitOp("at once", SelectedPaths(tab), tab.path)
            /\ UNCHANGED <<doomed, picked>>
  /\ MenuCloses
  /\ UNCHANGED <<listVars, drag, rename, clip, actUnchanged, expected>>

\* Wrong: the selection is looked up when the answer comes.
DoomedNow == SelectedPaths(tab)

\* delete_confirm: what was to be deleted when it was asked.
Doomed == doomed

ConfirmDelete ==
  /\ doomed # {} /\ SubmitOp("delete", Doomed, tab.path) /\ doomed' = {} /\ Blurs
  /\ UNCHANGED <<listVars, drag, menu, clip, actUnchanged, picked,
                 expected, inputs>>

\* transfer_to_other_pane, without a look at what the other pane shows.
Transfer ==
  /\ Input /\ SelectedPaths(tab) # {}
  /\ SubmitOp("transfer", SelectedPaths(tab), There)
  /\ MenuCloses
  /\ UNCHANGED <<listVars, drag, rename, doomed, clip, actUnchanged, picked,
                 expected>>

\* copy_selection_to_clipboard; paste_into comes to the same folder check as a drop.
CopyToClipboard ==
  /\ Input /\ PathsForClipboard # {}
  /\ clip' = PathsForClipboard
  /\ picked' = [picked EXCEPT !["paste"] = PathsForClipboard]
  /\ MenuCloses
  /\ UNCHANGED <<listVars, drag, rename, doomed, op, actUnchanged, expected>>

\* drop_files_into: not what is there already, not a folder into itself.
Movable(paths, dest) == {p \in paths : Front(p) # dest /\ ~IsPrefix(p, dest)}

DropFilesInto(by, paths, dest) ==
  IF Movable(paths, dest) = {} THEN UNCHANGED op ELSE SubmitOp(by, Movable(paths, dest), dest)

Paste ==
  /\ clip # {}
  /\ DropFilesInto("paste", clip, tab.path)
  /\ MenuCloses
  /\ UNCHANGED <<listVars, drag, rename, doomed, clip, actUnchanged, picked,
                 expected, inputs>>

\* file_drop_target, drop_files_into_from: onto a folder's row, the rest of
\* the list or the other pane. A move lists the pane the drag came from anew,
\* without the selection.
DropPlaces == {tab.path, There} \cup
              {Append(tab.path, NameAt(r)) : r \in {q \in Real : NameAt(q) \in Dirs}}

\* Wrong: the selection is looked up when the button comes up.
CarriedNow == SelectedPaths(tab)

Carried == drag

Drop ==
  /\ drag # {} /\ drag' = {}
  /\ \E dest \in DropPlaces, isMove \in BOOLEAN :
       /\ DropFilesInto("drag", Carried, dest)
       /\ IF isMove /\ Movable(Carried, dest) # {}
          THEN RequestListing(tab, FALSE) /\ held' = {} /\ awaited' = {}
          ELSE UNCHANGED <<tab, keeping, viewJobs, expected>>
  /\ press' = {}
  /\ UNCHANGED <<pendingSelect, disk, down, marquee, typed, grip, still, rename, menu, doomed, clip,
                 picked, inputs>>

\* The button comes up where nothing takes the drop.
DropNowhere ==
  /\ drag # {} /\ drag' = {} /\ EndListGesture
  /\ UNCHANGED <<listVars, disk, down, typed, grip, still, rename, menu,
                 doomed, clip, op, picked, expected, inputs>>

\* The drag leaves the window and Windows takes it over. Files that were moved
\* are gone: the pane is listed anew.
DropOutside ==
  /\ drag # {} /\ drag' = {} /\ EndListGesture
  /\ \/ RequestListing(tab, FALSE) /\ held' = {} /\ awaited' = {}
     \/ UNCHANGED <<tab, keeping, viewJobs, expected>>
  /\ UNCHANGED <<pendingSelect, disk, down, typed, grip, still, rename, menu, doomed, clip,
                 op, picked, inputs>>

\* start_rename: one of the selected entries, whichever the set gives first.
StartRename ==
  /\ Input /\ drag = {} /\ marquee = {}
  /\ \E i \in tab.selection \cap DOMAIN tab.entries :
       /\ rename' = {i}
       /\ picked' = [picked EXCEPT !["rename"] = {Append(tab.path, tab.entries[i])}]
  /\ MenuCloses
  /\ UNCHANGED <<listVars, drag, doomed, clip, op, actUnchanged, expected>>

\* Wrong: the row with the cursor is renamed.
RenamedEntryAtCursor(i) ==
  IF tab.cursor \in Rows THEN {tab.view[tab.cursor]} ELSE {}

\* The index is looked up in the rows there are now.
RenamedEntry(i) == {i} \cap DOMAIN tab.entries

\* commit_rename, when Enter is typed in the field: its row must be shown.
CommitRename ==
  /\ \E e \in rename \cap ToSet(tab.view) :
       \E i \in RenamedEntry(e) :
            SubmitOp("rename", {Append(tab.path, tab.entries[i])}, tab.path)
  /\ rename' = {}
  /\ UNCHANGED <<listVars, drag, menu, doomed, clip, actUnchanged, picked,
                 expected, inputs>>

\* Open in the row's menu: the index it was opened on, in the rows there are now.
MenuOpen ==
  /\ \E i \in menu \cap DOMAIN tab.entries :
       tab.entries[i] \in Dirs /\ NavigateTo(Append(tab.path, tab.entries[i]))
  /\ tab.path = Here /\ menu' = {} /\ Blurs /\ awaited' = {}
  /\ UNCHANGED <<pendingSelect, disk, down, drag, doomed, clip, typed, op, inputs>>

\* go_parent, leave_and_select: the folder that was left is to be selected.
GoParent ==
  /\ Input /\ tab.path # Here /\ NavigateTo(Here)
  /\ pendingSelect' = {{Last(tab.path)}}
  /\ awaited' = {[names |-> {Last(tab.path)}, why |-> "left"]}
  /\ UNCHANGED <<disk, down, drag, rename, menu, doomed, clip, typed, op>>

\* submit_new_item: a name that is not there yet.
NewItem ==
  /\ Input
  /\ \E n \in Names \ disk[tab.path] :
       SubmitOp("create", {Append(tab.path, n)}, tab.path) /\ pendingSelect' = {{n}}
  /\ awaited' = {}
  /\ UNCHANGED <<tab, keeping, viewJobs, drag, rename, menu, doomed, clip, actUnchanged,
                 picked, held>>

\* Escape: a rename first, otherwise whatever floats.
Escape ==
  /\ IF rename # {} THEN rename' = {} /\ UNCHANGED <<menu, doomed>>
     ELSE /\ (menu # {} \/ doomed # {}) /\ menu' = {} /\ doomed' = {}
          /\ UNCHANGED rename
  /\ UNCHANGED <<listVars, drag, clip, op, actUnchanged, picked, expected, inputs>>

------------------------------------------------------------------------------
EmptyTab == [path |-> Here, entries |-> <<>>, view |-> <<>>, selection |-> {},
             cursor |-> 0, anchor |-> 0, ascending |-> TRUE, filtered |-> FALSE,
             loading |-> TRUE, viewOf |-> <<>>]

\* A tab that has just been opened.
Init ==
  /\ disk = [f \in Folders |-> IF f = Here THEN Names ELSE Names \ Dirs]
  /\ tab = EmptyTab
  /\ keeping = {} /\ pendingSelect = {} /\ viewJobs = {} /\ press = {} /\ down = 0 /\ marquee = {}
  /\ drag = {} /\ rename = {} /\ menu = {} /\ doomed = {} /\ clip = {} /\ typed = <<>>
  /\ op = [by |-> "none", sources |-> {}, dest |-> Here]
  /\ inputs = 0
  /\ picked = [k \in {"delete", "drag", "paste", "rename"} |-> {}]
  /\ grip = {} /\ still = FALSE /\ held = {} /\ awaited = {}

KeyInput == NavigationKey \/ SelectAll \/ EnterKey \/ TypeAhead
Mouse == \/ PressRow \/ ClickRow \/ Release \/ DragRow \/ ContextMenu
         \/ StartBand \/ MoveBand \/ EndBand \/ ClickEmpty
         \/ Drop \/ DropNowhere \/ DropOutside
Commands == \/ Delete \/ ConfirmDelete \/ Transfer \/ CopyToClipboard \/ Paste
            \/ StartRename \/ CommitRename \/ MenuOpen \/ GoParent
            \/ NewItem \/ Escape
Listings == \/ OnBatch \/ OnView \/ DiskChange \/ Refresh \/ OperationEnds
            \/ SelectsElsewhere \/ Resort

Next == KeyInput \/ Mouse \/ Commands \/ Listings

Spec == Init /\ [][Next]_vars

------------------------------------------------------------------------------
(* Properties.                                                             *)

\* The state is well formed: the view's rows are distinct entries of those it
\* was made of, the tab's own unless it was asked for while others were loading
\* (file_table looks them up without a check), and the folder is one there is.
FileListTypeOK ==
  /\ tab.path \in Folders
  /\ IsInjective(tab.view) /\ ToSet(tab.view) \subseteq DOMAIN tab.viewOf
  /\ ToSet(tab.entries) \cup ToSet(tab.viewOf) \subseteq Names
  /\ tab.selection \subseteq Nat /\ {tab.cursor, tab.anchor} \subseteq Nat
  /\ {Cardinality(press), Cardinality(marquee), Cardinality(rename), Cardinality(menu),
      Cardinality(keeping), Cardinality(pendingSelect), Cardinality(held)} \subseteq {0, 1}
  /\ down \in 0 .. Len(ByName)

\* What was highlighted when Delete was pressed is what is deleted after the
\* question; what was under the pointer when a drag began is what is dropped,
\* and what was copied is what is pasted, wherever the tab has gone and
\* whatever its rows show by then. A rename is of the file it was begun on, as
\* long as the tab stays in the folder and no listing has replaced the rows.
OnlyWhatWasPicked ==
  [][op' # op /\ op'.by \in DOMAIN picked /\ picked[op'.by] # {} =>
       op'.sources \subseteq picked[op'.by]]_vars

\* A click does what the press began, though the press has selected already
\* and the keys may be up again: alone it leaves its row, Ctrl changes that row
\* only, Shift takes the rows from the anchor that the press found (file_table,
\* ListPress).
ClickMeansItsPress ==
  [][ClickRow => \A g \in grip :
       /\ tab'.cursor = g.row
       /\ ~g.ctrl /\ ~g.shift => tab'.selection = {tab.view[g.row]}
       /\ g.ctrl /\ ~g.shift => tab'.selection = Toggled(g.selection, tab.view[g.row])
       /\ g.shift /\ ~g.ctrl => tab'.selection = Slice(tab, g.from, g.row)]_vars

\* However a rubber band has grown and shrunk, it has selected the rows between
\* its ends and what Ctrl kept, and no other (Marquee::rows, select_view_range),
\* over the rows it was begun on or any other view of them.
BandSelectsItsRows ==
  still => \A m \in marquee : m.over = tab.entries =>
    tab.selection = m.keep \cup {tab.view[r] : r \in {q \in Rows :
      Lower(m.from, m.at) <= q /\ q <= Upper(m.from, m.at)}}

\* Once a refresh is over, the files the user selected before it are selected,
\* those that are still there and no other, although the selection is a set of
\* indices into rows that have been replaced (keep_selection). Not so when
\* something is selected, sorted or filtered while the refresh is under way, or
\* it is asked for again, nor when a file is listed that the program is to select.
SelectionSurvivesRefresh ==
  ~tab.loading /\ viewJobs = {} => \A S \in held : SelectedNames(tab) = S

\* The folder that go_parent left is selected as soon as its parent is listed,
\* if it is still there, and stays so over sorting and filtering, also of the
\* old rows before the listing comes, until the user selects, refreshes or goes
\* elsewhere. Not so if another tab, or a new item, is given something to select
\* before the listing comes, or the old rows have the name among them
\* (leave_and_select, try_select_pending).
FolderLeftIsSelected ==
  ~tab.loading => \A a \in awaited : a.why = "left" =>
    a.names \cap ToSet(tab.entries) \subseteq SelectedNames(tab)

\* What an operation has created in the tab's folder is selected once the
\* listing that shows it is over. app.rs:742 and app.rs:943 say so of
\* submit_new_item and select_created_items.
CreatedIsSelected ==
  ~tab.loading /\ viewJobs = {} => \A a \in awaited : a.why = "created" =>
    a.names \cap ToSet(tab.entries) \subseteq SelectedNames(tab)

\* A click or a band resolves against the rows that its press was made over.
\* app.rs:559-563 says so of end_list_gesture.
GesturesMeetTheirRows ==
  [][ClickRow \/ MoveBand \/ EndBand =>
       \A g \in press \cup marquee : g.over = tab.entries]_vars
=============================================================================
