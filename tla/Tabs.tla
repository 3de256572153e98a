-------------------------------- MODULE Tabs --------------------------------
(***************************************************************************)
(* The two panes, their tabs and what follows the tabs around: the folder  *)
(* a tab shows and its history, the lock, the watcher of its folder, the   *)
(* changes the watchers report and the listing each tab waits for          *)
(* (crates/sc-core/src/state.rs, crates/sc-app/src/app.rs and ui.rs).      *)
(*                                                                         *)
(* A listing that arrives only ends the loading here: what it holds, and   *)
(* how older answers are told from the latest, is module Listing.  Titles, *)
(* colours, sorting, filters and selections are left out.                  *)
(***************************************************************************)
EXTENDS Integers, SequencesExt

CONSTANTS
  Folders,
  Parent,       \* Parent[f]: the folder f is in; f itself at a root
  Home,         \* the folder a pane starts with (dirs_home)
  Watchable,    \* not inside an archive, not the recycle bin
  MaxTabs,      \* bound: tabs the user keeps open
  MaxFailures,  \* bound: watchers that do not run, at one time
  MaxInputs     \* bound: what the user does and the watchers report

ASSUME TabsAssumption ==
  /\ Parent \in [Folders -> Folders] /\ Home \in Folders
  /\ Watchable \subseteq Folders
  /\ MaxTabs \in Nat \ {0, 1}   \* each pane has a tab
  /\ MaxFailures \in Nat
  /\ MaxInputs \in Nat

VARIABLES
  panes,        \* panes[p]: the PaneState, its tabs numbered from 1
  activePane,
  layout,       \* "single", or "dual" for either direction of the split
  nextUid,      \* TAB_UID
  watchers,     \* the watchers, each under the pane and tab it was made for,
                \* and how each fares; "refused" is one that could not be
                \* started, and is not there
  notes,        \* DirChanged messages on the channel
  asked,        \* the latest listing requested for each tab that loads
  inputs

tabVars == <<panes, activePane, layout, nextUid, watchers, notes, asked, inputs>>

Panes == 1 .. 2
Other(p) == 3 - p
Layouts == {"single", "dual"}
WatcherStates == {"running", "ended", "refused"}

NewTab(uid, folder) ==
  [uid |-> uid, path |-> folder, back |-> <<>>, fwd |-> <<>>,
   locked |-> FALSE, flatten |-> FALSE, loading |-> FALSE]

TabsOf(p) == panes[p].tabs
Active(p) == panes[p].tabs[panes[p].active]
AllTabs == UNION {ToSet(TabsOf(p)) : p \in Panes}
TabCount == Len(TabsOf(1)) + Len(TabsOf(2))
TabAt(ps, l) == ps[l[1]].tabs[l[2]]
AllPlaces(ps) == {l \in Panes \X (1 .. MaxTabs) : l[2] <= Len(ps[l[1]].tabs)}

\* A single layout shows the active pane only, and what the user clicks is
\* in a pane that shows.
Shows(p) == layout # "single" \/ p = activePane

------------------------------------------------------------------------------
(* A tab's own history.                                                    *)

Moved(t, folder) == [t EXCEPT !.path = folder, !.flatten = FALSE]

\* Wrong: what was ahead is kept when the user goes elsewhere.
NavigatedKeepingForward(t, to) ==
  IF to = t.path THEN t
  ELSE [Moved(t, to) EXCEPT !.back = Append(t.back, t.path)]

Navigated(t, to) ==
  IF to = t.path THEN t
  ELSE [Moved(t, to) EXCEPT !.back = Append(t.back, t.path), !.fwd = <<>>]

WentBack(t) ==
  [Moved(t, Last(t.back)) EXCEPT !.back = Front(t.back),
                                 !.fwd = Append(t.fwd, t.path)]

WentForward(t) ==
  [Moved(t, Last(t.fwd)) EXCEPT !.fwd = Front(t.fwd),
                                !.back = Append(t.back, t.path)]

------------------------------------------------------------------------------
(* Where a message about a tab finds it, and requests.                     *)

Places(uid) ==
  {l \in AllPlaces(panes) : TabAt(panes, l).uid = uid}

\* Wrong: a tab is looked for only in the pane it was in.
FindTabInPane(pane, uid) == {l \in Places(uid) : l[1] = pane}

\* find_tab: {} or the one place; the pane is only where it looks first.
FindTab(pane, uid) ==
  LET here == {l \in Places(uid) : l[1] = pane}
  IN  IF here # {} THEN here ELSE Places(uid)

WatcherFor(ps, l, state) ==
  [pane |-> l[1], uid |-> TabAt(ps, l).uid, folder |-> TabAt(ps, l).path,
   subtree |-> TabAt(ps, l).flatten, state |-> state]

Started(ps, l, failing) ==
  WatcherFor(ps, l, IF l \in failing THEN "refused" ELSE "running")

UnderKey(w, ps, l) == w.pane = l[1] /\ w.uid = TabAt(ps, l).uid

\* What ensure_watcher leaves alone: watches() asks what the watcher is of,
\* and not whether its thread still runs.
Serves(w, ps, l) ==
  /\ TabAt(ps, l).path \in Watchable
  /\ w.state # "refused" /\ w \in {WatcherFor(ps, l, s) : s \in WatcherStates}

\* Wrong: a watcher of the pane and tab stays, whatever it watches.
EnsureWatchersOnce(ps, S, failing) ==
  watchers \cup
    {Started(ps, l, failing) :
       l \in {k \in S : \A w \in watchers : ~UnderKey(w, ps, k)}}

\* One watcher under a pane and tab, replaced when it watches something else;
\* at the places of failing none can be started.
EnsureWatchers(ps, S, failing) ==
  {w \in watchers : \A l \in S : UnderKey(w, ps, l) => Serves(w, ps, l)}
  \cup
  {Started(ps, l, failing) :
     l \in {k \in S : /\ TabAt(ps, k).path \in Watchable
                     /\ \A w \in watchers : ~Serves(w, ps, k)}}

FewFailures(ws) == Cardinality({w \in ws : w.state # "running"}) <= MaxFailures

\* request_listing_for, for each tab of the panes ps at a place in S.
RequestListings(ps, S) ==
  /\ panes' = [p \in Panes |->
                 [ps[p] EXCEPT !.tabs = [i \in DOMAIN @ |->
                    IF <<p, i>> \in S THEN [@[i] EXCEPT !.loading = TRUE] ELSE @[i]]]]
  /\ asked' = {a \in asked : \A l \in S : TabAt(ps, l).uid # a.uid}
              \cup {[pane |-> l[1], uid |-> TabAt(ps, l).uid] : l \in S}
  /\ \E failing \in SUBSET S : watchers' = EnsureWatchers(ps, S, failing)
  /\ FewFailures(watchers')

\* The active tab of pane p becomes t, and its folder is read.
ShowIn(p, t) ==
  RequestListings([panes EXCEPT ![p].tabs[panes[p].active] = t], {<<p, panes[p].active>>})

\* add_tab: at the end, and active.
AddTab(p, folder) ==
  /\ TabCount < MaxTabs
  /\ LET added == [tabs |-> Append(TabsOf(p), NewTab(nextUid, folder)),
                   active |-> Len(TabsOf(p)) + 1]
     IN  RequestListings([panes EXCEPT ![p] = added], {<<p, added.active>>})
  /\ nextUid' = nextUid + 1

------------------------------------------------------------------------------
(* What the user does with tabs.                                           *)

\* The default session, its first listings in.
TabsInit ==
  /\ panes = [p \in Panes |-> [tabs |-> <<NewTab(p, Home)>>, active |-> 1]]
  /\ activePane = 1 /\ layout = "dual" /\ nextUid = 3
  /\ \E failing \in SUBSET Panes :
       watchers = {[pane |-> p, uid |-> p, folder |-> Home, subtree |-> FALSE,
                    state |-> IF p \in failing THEN "refused" ELSE "running"] :
                     p \in {q \in Panes : Home \in Watchable}}
  /\ FewFailures(watchers)
  /\ notes = {} /\ asked = {} /\ inputs = 0

Input == inputs < MaxInputs /\ inputs' = inputs + 1

\* Wrong: a locked tab goes where the user points.
NavigateIgnoringLock(p, to) ==
  /\ Input /\ Shows(p)
  /\ ShowIn(p, Navigated(Active(p), to))
  /\ activePane' = p
  /\ UNCHANGED <<layout, nextUid, notes>>

\* A press in a pane makes it the active one; a locked tab opens another.
Navigate(p, to) ==
  /\ Input /\ Shows(p)
  /\ activePane' = p
  /\ IF Active(p).locked /\ to # Active(p).path THEN AddTab(p, to)
     ELSE ShowIn(p, Navigated(Active(p), to)) /\ UNCHANGED nextUid
  /\ UNCHANGED <<layout, notes>>

\* "Open in other pane": navigate(other_pane), whether it shows or not.
NavigateOther(to) ==
  /\ Input
  /\ LET p == Other(activePane)
     IN  IF Active(p).locked /\ to # Active(p).path THEN AddTab(p, to)
         ELSE ShowIn(p, Navigated(Active(p), to)) /\ UNCHANGED nextUid
  /\ UNCHANGED <<activePane, layout, notes>>

\* Wrong: the folder left is dropped.
GoBackForgetting(p) ==
  /\ Input /\ Shows(p) /\ Active(p).back # <<>>
  /\ ShowIn(p, [WentBack(Active(p)) EXCEPT !.fwd = Active(p).fwd])
  /\ activePane' = p
  /\ UNCHANGED <<layout, nextUid, notes>>

\* History and the parent folder: the lock does not hold these back.
GoBack(p) ==
  /\ Input /\ Shows(p) /\ Active(p).back # <<>>
  /\ ShowIn(p, WentBack(Active(p)))
  /\ activePane' = p
  /\ UNCHANGED <<layout, nextUid, notes>>

GoForward(p) ==
  /\ Input /\ Shows(p) /\ Active(p).fwd # <<>>
  /\ ShowIn(p, WentForward(Active(p)))
  /\ activePane' = p
  /\ UNCHANGED <<layout, nextUid, notes>>

GoParent(p) ==
  /\ Input /\ Shows(p) /\ Parent[Active(p).path] # Active(p).path
  /\ ShowIn(p, Navigated(Active(p), Parent[Active(p).path]))
  /\ activePane' = p
  /\ UNCHANGED <<layout, nextUid, notes>>

Refresh(p) ==
  /\ Input /\ Shows(p)
  /\ ShowIn(p, Active(p))
  /\ activePane' = p
  /\ UNCHANGED <<layout, nextUid, notes>>

\* The View menu acts on the active pane.
ToggleFlatten ==
  /\ Input
  /\ ShowIn(activePane, [Active(activePane) EXCEPT !.flatten = ~@])
  /\ UNCHANGED <<activePane, layout, nextUid, notes>>

\* Ctrl+T, "+" and "Duplicate tab": a tab on the folder of one there is.
OpenTab(p, i) ==
  /\ Input /\ Shows(p)
  /\ AddTab(p, TabsOf(p)[i].path)
  /\ activePane' = p
  /\ UNCHANGED <<layout, notes>>

\* Middle click: beside the active tab, which stays active.
OpenBeside(p, folder) ==
  /\ Input /\ Shows(p) /\ TabCount < MaxTabs
  /\ LET i == panes[p].active + 1
     IN  RequestListings(
           [panes EXCEPT ![p].tabs = InsertAt(@, i, NewTab(nextUid, folder))], {<<p, i>>})
  /\ activePane' = p /\ nextUid' = nextUid + 1
  /\ UNCHANGED <<layout, notes>>

SwitchTab(p, i) ==
  /\ Input /\ Shows(p)
  /\ panes' = [panes EXCEPT ![p].active = i]
  /\ activePane' = p
  /\ UNCHANGED <<layout, nextUid, watchers, notes, asked>>

ToggleLock(p, i) ==
  /\ Input /\ Shows(p)
  /\ panes' = [panes EXCEPT ![p].tabs[i].locked = ~@]
  /\ activePane' = p
  /\ UNCHANGED <<layout, nextUid, watchers, notes, asked>>

\* Wrong: the index of the active tab is not brought back into range.
CloseTabUnclamped(p, i) ==
  /\ Input /\ Shows(p)
  /\ Len(TabsOf(p)) > 1 /\ ~TabsOf(p)[i].locked
  /\ panes' = [panes EXCEPT ![p].tabs = RemoveAt(@, i)]
  /\ activePane' = p
  /\ UNCHANGED <<layout, nextUid, watchers, notes, asked>>

\* Not the last tab, not a locked one.  The watcher and the answers on the
\* way stay.  When a tab to the left of the active one goes, the index stays
\* and the next tab is the active one.
CloseTab(p, i) ==
  /\ Input /\ Shows(p)
  /\ Len(TabsOf(p)) > 1 /\ ~TabsOf(p)[i].locked
  /\ LET left == RemoveAt(TabsOf(p), i)
     IN  panes' = [panes EXCEPT ![p] =
                     [tabs |-> left,
                      active |-> IF @.active > Len(left) THEN Len(left) ELSE @.active]]
  /\ activePane' = p
  /\ UNCHANGED <<layout, nextUid, watchers, notes, asked>>

\* reorder_tab: before the tab at `to`, counted before the tab is taken out.
Reorder(p, from, to) ==
  LET rest == RemoveAt(TabsOf(p), from)
      at == IF from < to THEN to - 1 ELSE to
  IN  IF from = to THEN panes
      ELSE [panes EXCEPT ![p] = [tabs |-> InsertAt(rest, at, TabsOf(p)[from]),
                                 active |-> at]]

\* Wrong: a tab dropped after the last one of the pane is taken, not put.
TakeAndInsertInside(p, from, q, to) ==
  LET rest == RemoveAt(TabsOf(p), from)
  IN  [panes EXCEPT
         ![p] = [tabs |-> rest, active |-> 1],
         ![q] = IF to \in DOMAIN @.tabs
                THEN [tabs |-> InsertAt(@.tabs, to, TabsOf(p)[from]), active |-> to]
                ELSE @]

\* take_tab and insert_tab; the last tab of a pane stays.
TakeAndInsert(p, from, q, to) ==
  LET rest == RemoveAt(TabsOf(p), from)
      a == panes[p].active
  IN  [panes EXCEPT
         ![p] = [tabs |-> rest,
                 active |-> IF a > Len(rest) THEN Len(rest)
                            ELSE IF a > from THEN a - 1 ELSE a],
         ![q] = [tabs |-> InsertAt(@.tabs, to, TabsOf(p)[from]), active |-> to]]

\* A tab is dropped before the one at `to` of pane q, or after its last one.
RelocateTab(p, from, q, to) ==
  /\ Input /\ Shows(p) /\ Shows(q)
  /\ IF p = q THEN panes' = Reorder(p, from, to) /\ activePane' = p
     ELSE IF Len(TabsOf(p)) > 1
     THEN panes' = TakeAndInsert(p, from, q, to) /\ activePane' = q
     ELSE panes' = panes /\ activePane' = p
  /\ UNCHANGED <<layout, nextUid, watchers, notes, asked>>

SwitchPane ==
  /\ Input /\ activePane' = Other(activePane)
  /\ UNCHANGED <<panes, layout, nextUid, watchers, notes, asked>>

\* toggle_layout goes through single, side by side and stacked.
ToggleLayout ==
  /\ Input
  /\ layout' \in IF layout = "single" THEN {"dual"} ELSE {"dual", "single"}
  /\ UNCHANGED <<panes, activePane, nextUid, watchers, notes, asked>>

------------------------------------------------------------------------------
(* What comes back.                                                        *)

\* A folder under watch changes: its watcher reports the tab it was made for.
FolderChanges(w) ==
  /\ Input /\ w.state = "running"
  /\ notes' = notes \cup {[pane |-> w.pane, uid |-> w.uid]}
  /\ UNCHANGED <<panes, activePane, layout, nextUid, watchers, asked>>

\* The thread of a watcher ends on an error; its handle stays in the map.
WatcherEnds(w) ==
  /\ Input /\ w.state = "running"
  /\ watchers' = (watchers \ {w}) \cup {[w EXCEPT !.state = "ended"]}
  /\ FewFailures(watchers')
  /\ UNCHANGED <<panes, activePane, layout, nextUid, notes, asked>>

\* DirChanged: the tab's folder is read again, unless it is being read.
HandleChange(n) ==
  /\ notes' = notes \ {n}
  /\ \/ /\ \E l \in FindTab(n.pane, n.uid) :
             /\ ~TabAt(panes, l).loading
             /\ RequestListings(panes, {l})
     \/ /\ \A l \in FindTab(n.pane, n.uid) : TabAt(panes, l).loading
        /\ UNCHANGED <<panes, watchers, asked>>
  /\ UNCHANGED <<activePane, layout, nextUid, inputs>>

\* An operation ends in a folder: every tab on it reads it again
\* (refresh_all_matching).
OperationEnds(f) ==
  /\ Input
  /\ RequestListings(panes, {l \in AllPlaces(panes) : TabAt(panes, l).path = f})
  /\ UNCHANGED <<activePane, layout, nextUid, notes>>

\* The last batch of the latest listing; for a closed tab it is dropped.
HandleListing(a) ==
  /\ asked' = asked \ {a}
  /\ \/ \E l \in FindTab(a.pane, a.uid) :
          panes' = [panes EXCEPT ![l[1]].tabs[l[2]].loading = FALSE]
     \/ FindTab(a.pane, a.uid) = {} /\ UNCHANGED panes
  /\ UNCHANGED <<activePane, layout, nextUid, watchers, notes, inputs>>

User ==
  \/ \E p \in Panes :
       \/ \E f \in Folders : Navigate(p, f) \/ OpenBeside(p, f)
       \/ GoBack(p) \/ GoForward(p) \/ GoParent(p) \/ Refresh(p)
       \/ \E i \in DOMAIN TabsOf(p) :
            \/ OpenTab(p, i) \/ SwitchTab(p, i) \/ ToggleLock(p, i) \/ CloseTab(p, i)
            \/ \E q \in Panes : \E to \in 1 .. Len(TabsOf(q)) + 1 : RelocateTab(p, i, q, to)
  \/ \E f \in Folders : NavigateOther(f)
  \/ ToggleFlatten \/ SwitchPane \/ ToggleLayout

Arrives ==
  \/ \E w \in watchers : FolderChanges(w) \/ WatcherEnds(w)
  \/ \E n \in notes : HandleChange(n)
  \/ \E a \in asked : HandleListing(a)
  \/ \E f \in Folders : OperationEnds(f)

TabsNext == User \/ Arrives

------------------------------------------------------------------------------
(* Properties.                                                             *)

TabSet == [uid : 1 .. nextUid - 1, path : Folders, back : Seq(Folders),
           fwd : Seq(Folders), locked : BOOLEAN, flatten : BOOLEAN, loading : BOOLEAN]

\* The state's types; a pane has a tab and its active tab is one of them, and
\* no two tabs, in either pane, share the uid that messages find them by.
TypeOK ==
  /\ panes \in [Panes -> [tabs : Seq(TabSet), active : Nat]]
  /\ \A p \in Panes : panes[p].active \in DOMAIN TabsOf(p)
  /\ \A uid \in 1 .. nextUid : Cardinality(Places(uid)) <= 1
  /\ activePane \in Panes /\ layout \in Layouts
  /\ watchers \subseteq [pane : Panes, uid : 1 .. nextUid, folder : Folders,
                         subtree : BOOLEAN, state : WatcherStates]
  /\ notes \subseteq [pane : Panes, uid : 1 .. nextUid]
  /\ asked \subseteq [pane : Panes, uid : 1 .. nextUid]

\* The watchers whose reports are about the tab at place i of pane p and find
\* it there, and that are of the folder it shows, as deep as it shows it.
WatchersOf(p, i) ==
  {w \in watchers : /\ w.folder = TabsOf(p)[i].path
                    /\ w.subtree = TabsOf(p)[i].flatten
                    /\ FindTab(w.pane, w.uid) = {<<p, i>>}}

\* Wherever a tab has been dragged, a change of the folder it shows reaches
\* it: a running watcher watches that folder, and what it reports finds the
\* tab; or the system refused that very watcher, or ended it
\* (app.rs ensure_watcher, find_tab).
ChangesReachTheTab ==
  \A p \in Panes : \A i \in DOMAIN TabsOf(p) :
    TabsOf(p)[i].path \in Watchable =>
      \/ \E w \in WatchersOf(p, i) : w.state = "running"
      \/ \E w \in WatchersOf(p, i) : w.state \in {"refused", "ended"}

\* A tab that loads has its listing on the way, and that listing will find
\* it, also when it is moved to the other pane meanwhile: no tab loads for
\* ever, and none waits for an answer that is dropped.
LoadingTabIsFound ==
  \A p \in Panes : \A i \in DOMAIN TabsOf(p) :
    TabsOf(p)[i].loading =>
      \E a \in asked : FindTab(a.pane, a.uid) = {<<p, i>>}

\* The places the tab has been to, in order, the current one among them.
Trail(t) == t.back \o <<t.path>> \o Reverse(t.fwd)

TabWith(ps, uid) == UNION {{t \in ToSet(ps[p].tabs) : t.uid = uid} : p \in Panes}

\* Going back and forward never changes the folders a tab remembers, going
\* elsewhere keeps the ones up to the current folder and adds one, and moving
\* a tab keeps them all; two neighbours are never the same folder, so each
\* step of the history goes somewhere.
TrailStep ==
  \A t \in AllTabs : \A u \in TabWith(panes', t.uid) :
    /\ \/ Trail(u) = Trail(t)
       \/ /\ u.fwd = <<>> /\ u.back = Append(t.back, t.path)
    /\ \A i \in 1 .. Len(Trail(u)) - 1 : Trail(u)[i] # Trail(u)[i + 1]

\* A locked tab stays at the folders it has been to and their parents, and
\* is never closed: pointing it elsewhere opens another tab
\* (app.rs:574 "Locked tabs open navigation in a new tab").
LockStep ==
  \A t \in AllTabs : t.locked =>
    \E u \in TabWith(panes', t.uid) :
      u.path \in ToSet(Trail(t)) \cup {Parent[t.path]}

\* A step loses no tab but an unlocked one that is closed, and closing one
\* touches no tab of the other pane.
OnlyClosingLoses ==
  \A t \in AllTabs :
    \/ TabWith(panes', t.uid) # {}
    \/ /\ ~t.locked
       /\ \E p \in Panes : /\ t \in ToSet(TabsOf(p))
                           /\ Len(panes'[p].tabs) = Len(TabsOf(p)) - 1
                           /\ panes'[Other(p)].tabs = TabsOf(Other(p))
==============================================================================
