------------------------------- MODULE Session -------------------------------
(***************************************************************************)
(* What outlives the program: settings.toml, which holds the settings and  *)
(* the session (the panes, their tabs' folders and locks), how it is saved *)
(* and restored, and the tabs of module Tabs in between                    *)
(* (crates/sc-app/src/config.rs, app.rs, settings_ui.rs, main.rs).         *)
(*                                                                         *)
(* The program may stop at any point, also between the steps of a save.    *)
(* Of the settings three stand for all: one the start reads (restore), one *)
(* that is applied at once (defaultLayout), and one of the session that    *)
(* the window has its own copy of (hidden).                                *)
(***************************************************************************)
EXTENDS Tabs

CONSTANT MaxStarts    \* bound: how often the program is started again

ASSUME SessionAssumption == MaxStarts \in Nat

VARIABLES
  settings,     \* Settings in memory; window is its session
  showHidden,   \* ScApp::show_hidden
  file,         \* settings.toml
  saving,       \* save_settings runs: settings.toml.tmp, which nothing else
                \* reads, holds some or all of the settings
  leaving,      \* on_exit has begun
  unsaved,      \* the last save failed, silently
  starts

sessionVars == <<settings, showHidden, file, saving, leaving, unsaved, starts>>
vars == <<tabVars, sessionVars>>

\* What settings.toml is or holds.
NoFile == [kind |-> "none"]
Torn == [kind |-> "torn"]
Whole(s) == [kind |-> "whole", settings |-> s]

------------------------------------------------------------------------------
(* What a session keeps of the window, and makes of it.                    *)

\* session_snapshot: histories, flattened views and listings are not kept.
Window(ps, a, l) ==
  [layout |-> l, activePane |-> a,
   panes |-> [p \in Panes |->
                [tabs |-> [i \in DOMAIN ps[p].tabs |->
                             [path |-> ps[p].tabs[i].path,
                              locked |-> ps[p].tabs[i].locked]],
                 active |-> ps[p].active]]]

DefaultWindow ==
  [layout |-> "dual", activePane |-> 1,
   panes |-> [p \in Panes |->
                [tabs |-> <<[path |-> Home, locked |-> FALSE]>>, active |-> 1]]]

DefaultSettings ==
  [restore |-> TRUE, defaultLayout |-> "dual", hidden |-> FALSE, window |-> DefaultWindow]

\* load_settings: anything unreadable is replaced by the defaults.
Loaded(f) == IF f.kind = "whole" THEN f.settings ELSE DefaultSettings

\* Wrong: the layout of the session is kept when the session is not.
StartWindowOldLayout(s) ==
  IF s.restore THEN s.window
  ELSE [DefaultWindow EXCEPT !.layout = s.window.layout]

\* ScApp::new: without "restore session" the default layout on the home folder.
StartWindow(s) ==
  IF s.restore THEN s.window
  ELSE [DefaultWindow EXCEPT !.layout = s.defaultLayout]

\* The tabs of a session pane, made in order, all to be listed.
Opened(pane, before) ==
  [tabs |-> [i \in DOMAIN pane.tabs |->
               [NewTab(before + i, pane.tabs[i].path)
                  EXCEPT !.locked = pane.tabs[i].locked]],
   active |-> IF pane.active > Len(pane.tabs) THEN Len(pane.tabs) ELSE pane.active]

\* load_settings and ScApp::new, from what the file then is: the panes, a
\* listing and a watcher for each tab; nothing else of the memory is left.
Start(f) ==
  LET w == StartWindow(Loaded(f))
      ps == [p \in Panes |->
               Opened(w.panes[p], IF p = 1 THEN 0 ELSE Len(w.panes[1].tabs))]
  IN  /\ settings' = Loaded(f) /\ showHidden' = Loaded(f).hidden
      /\ panes' = [p \in Panes |->
                     [ps[p] EXCEPT !.tabs = [i \in DOMAIN @ |->
                                               [@[i] EXCEPT !.loading = TRUE]]]]
      /\ activePane' = w.activePane /\ layout' = w.layout
      /\ nextUid' = Len(ps[1].tabs) + Len(ps[2].tabs) + 1
      /\ asked' = {[pane |-> l[1], uid |-> TabAt(ps, l).uid] : l \in AllPlaces(ps)}
      /\ \E failing \in SUBSET AllPlaces(panes') :
           watchers' = {Started(panes', l, failing) :
                          l \in {k \in AllPlaces(panes') : TabAt(panes', k).path \in Watchable}}
      /\ FewFailures(watchers')
      /\ notes' = {} /\ UNCHANGED inputs
      /\ saving' = FALSE /\ leaving' = FALSE /\ unsaved' = FALSE
      /\ starts' = starts + 1

------------------------------------------------------------------------------
(* The user, as far as the settings go.                                    *)

Idle == ~saving

windowRest == <<panes, activePane, nextUid, watchers, notes, asked>>

\* Wrong: the settings go straight into the file.
SaveInPlace(s) ==
  /\ settings' = s /\ saving' = TRUE /\ file' = Torn
  /\ UNCHANGED <<unsaved, starts>>

\* save_settings begins: the temporary file is cut to nothing and written.
Save(s) ==
  /\ settings' = s /\ saving' = TRUE
  /\ UNCHANGED <<file, unsaved, starts>>

Session == [settings EXCEPT !.window = Window(panes, activePane, layout),
                            !.hidden = showHidden]

\* save_session: at the autosave interval, and in on_exit before the end.
SaveSession ==
  /\ Idle
  /\ Save(Session)
  /\ leaving' \in {FALSE} \cup {starts < MaxStarts}
  /\ UNCHANGED <<tabVars, showHidden>>

\* Wrong: the page sets the value and leaves it at that.
SetOptionUnsaved ==
  /\ Idle /\ Input
  /\ settings' = [settings EXCEPT !.restore = ~@]
  /\ UNCHANGED <<windowRest, layout, showHidden, file, saving, leaving, unsaved, starts>>

\* A control of a settings page, restore for any: the value is set, and
\* persisted in the same frame.
SetOption ==
  /\ Idle /\ Input
  /\ Save([settings EXCEPT !.restore = ~@])
  /\ UNCHANGED <<windowRest, layout, showHidden, leaving>>

\* The default layout also becomes the current one.
SetDefaultLayout(l) ==
  /\ Idle /\ Input /\ l # settings.defaultLayout
  /\ layout' = l
  /\ Save([settings EXCEPT !.defaultLayout = l])
  /\ UNCHANGED <<windowRest, showHidden, leaving>>

\* The settings page and the toolbar set both copies and persist; the View
\* menu and the shortcut set the window's.
ToggleHidden ==
  /\ Idle /\ Input
  /\ showHidden' = ~showHidden
  /\ \/ Save([settings EXCEPT !.hidden = ~showHidden])
     \/ UNCHANGED <<settings, saving, file, unsaved, starts>>
  /\ UNCHANGED <<windowRest, layout, leaving>>

------------------------------------------------------------------------------
(* The file, step by step, and stops.                                      *)

\* The save is over; if it was the last one, the program is started again.
SaveOver(failed) ==
  IF leaving THEN Start(file')
  ELSE /\ saving' = FALSE /\ unsaved' = failed
       /\ UNCHANGED <<tabVars, settings, showHidden, leaving, starts>>

\* The temporary file is whole and takes the place of the old one.
Rename ==
  /\ saving /\ file' = Whole(settings)
  /\ SaveOver(FALSE)

\* The write or the rename fails and nobody is told.
SaveFails ==
  /\ saving /\ file' = file
  /\ SaveOver(TRUE)

\* The program is killed, at any point, and started again.
Crash ==
  /\ starts < MaxStarts
  /\ Start(file) /\ UNCHANGED file

Init ==
  /\ TabsInit
  /\ settings = DefaultSettings /\ showHidden = FALSE
  /\ file = NoFile /\ saving = FALSE /\ unsaved = FALSE /\ leaving = FALSE
  /\ starts = 0

Next ==
  \/ Idle /\ TabsNext /\ UNCHANGED sessionVars
  \/ SetOption \/ ToggleHidden
  \/ \E l \in Layouts : SetDefaultLayout(l)
  \/ SaveSession \/ Rename \/ SaveFails \/ Crash

Spec == Init /\ [][Next]_vars

------------------------------------------------------------------------------
(* Properties.                                                             *)

SavedSettings ==
  [restore : BOOLEAN, defaultLayout : Layouts, hidden : BOOLEAN,
   window : [layout : Layouts, activePane : Panes,
             panes : [Panes -> [tabs : Seq([path : Folders, locked : BOOLEAN]),
                                active : 1 .. MaxTabs]]]]

\* The tabs' types and the settings'.
SessionTypeOK ==
  /\ TypeOK
  /\ settings \in SavedSettings
  /\ file \in {NoFile, Torn} \cup [kind : {"whole"}, settings : SavedSettings]
  /\ {saving, showHidden, unsaved, leaving} \subseteq BOOLEAN

\* What a settings page or the autosave has set is in the file as soon as the
\* program is idle again, whatever it was doing before, unless the file could
\* not be written (settings_ui.rs:1 "Changes apply immediately and are written
\* to settings.toml").
SettingsReachTheFile ==
  Idle /\ ~unsaved => \/ file = Whole(settings)
                      \/ file = NoFile /\ settings = DefaultSettings

\* A start, after a crash in the middle of a save too, shows the panes, tabs
\* and locks that were saved last, or the home folder in the chosen layout
\* when sessions are not restored; once anything was saved, it never meets an
\* unreadable file and falls back to the defaults.
StartStep ==
  /\ file' # Torn
  /\ LET s == IF file'.kind = "whole" THEN file'.settings ELSE DefaultSettings
     IN  /\ Window(panes', activePane', layout') =
              IF s.restore THEN s.window
              ELSE [DefaultWindow EXCEPT !.layout = s.defaultLayout]
         /\ showHidden' = s.hidden

StartRestores == [][starts' # starts => StartStep]_vars

\* The history of a tab: TrailStep of every step but a start.
TrailKept == [][starts' = starts => TrailStep]_vars

\* A locked tab: LockStep of every step but a start.
LockedKept == [][starts' = starts => LockStep]_vars

\* No tab is lost: OnlyClosingLoses of every step but a start.
NoTabLost == [][starts' = starts => OnlyClosingLoses]_vars
==============================================================================
