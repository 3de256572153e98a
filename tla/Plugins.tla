-------------------------------- MODULE Plugins --------------------------------
(***************************************************************************)
(* The plugin host: the plugins that are installed and loaded, what the    *)
(* user has granted them, the registry in plugins.toml, and the runs of    *)
(* plugins by worker threads, by the hooks of the operation engine and by  *)
(* the window, under a lock for readers and one writer                     *)
(* (crates/sc-plugins/src/host.rs, manifest.rs, sc-app/src/dialogs.rs).    *)
(*                                                                         *)
(* The program may stop at any point, also while plugins.toml is written:  *)
(* it is cut to nothing first, and a file cut short reads as the plugins   *)
(* of its beginning, or as none.                                           *)
(***************************************************************************)
EXTENDS Naturals, Sequences, FiniteSets, SequencesExt

CONSTANTS
  PluginPaths,      \* the .wasm files
  Permissions,      \* what a manifest may ask for
  MaxPluginEvents   \* bound: installs, grants, disablings and starts

ASSUME PluginsAssumption == MaxPluginEvents \in Nat

VARIABLES
  records,      \* PluginHost::registry
  loaded,       \* PluginHost::plugins, of each its path and its grants
  runs,         \* runs of plugins: under the read lock
  pluginFile,   \* the records plugins.toml reads as
  writing,      \* how far PluginRegistry::save is, under the write lock
  renewed,      \* the plugins that the handler that saves has installed
  unsaved,      \* the last save failed, silently
  revived,      \* a registry from before a failed save was read
  permitted,    \* what the user has granted each since it was installed
  events

pluginVars == <<records, loaded, runs, pluginFile, writing, renewed,
                unsaved, revived, permitted, events>>

hostVars == <<records, loaded, revived, permitted, events>>

Event == events < MaxPluginEvents /\ events' = events + 1

\* The host can be written: no plugin runs.
Writable == runs = {} /\ writing = "no"

------------------------------------------------------------------------------
(* The plugin manager.                                                     *)

\* The last thing a handler does: PluginRegistry::save.
Save(new) ==
  /\ writing' = "begun" /\ renewed' = new
  /\ UNCHANGED <<runs, pluginFile, unsaved, revived>>

\* What retain and filter keep of the sequence s: its members in K.
Kept(s, K) ==
  LET kept[n \in 0 .. Len(s)] ==
        IF n = 0 THEN <<>>
        ELSE IF s[n] \in K THEN Append(kept[n - 1], s[n]) ELSE kept[n - 1]
  IN  kept[Len(s)]

Others(s, p) == Kept(s, {r \in Range(s) : r.path # p})

\* Wrong: a record that is there already is kept.
InstallKeepingGrants(p) ==
  /\ Event /\ Writable
  /\ LET grants == UNION {r.granted : r \in {q \in Range(records) : q.path = p}}
     IN  /\ records' = Append(Others(records, p),
                              [path |-> p, enabled |-> TRUE, granted |-> grants])
         /\ loaded' = Append(Others(loaded, p), [path |-> p, granted |-> grants])
  /\ Save({p}) /\ UNCHANGED permitted

\* install, of a file that compiles: what was there of it is replaced, and
\* nothing is granted. It becomes the last.
Install(p) ==
  /\ Event /\ Writable
  /\ records' = Append(Others(records, p), [path |-> p, enabled |-> TRUE, granted |-> {}])
  /\ loaded' = Append(Others(loaded, p), [path |-> p, granted |-> {}])
  /\ Save({p}) /\ UNCHANGED permitted

\* grant: the manager offers what the manifest of a loaded plugin asks for.
Grant(i, perm) ==
  LET p == loaded[i].path IN
    /\ Event /\ Writable /\ perm \notin loaded[i].granted
    /\ records' = [r \in DOMAIN records |->
                     IF records[r].path = p
                     THEN [records[r] EXCEPT !.granted = @ \cup {perm}] ELSE records[r]]
    /\ loaded' = [loaded EXCEPT ![i].granted = @ \cup {perm}]
    /\ permitted' = [permitted EXCEPT ![p] = @ \cup {perm}]
    /\ Save({})

\* Wrong: the lock is not waited for.
DisableAtOnce(i) ==
  LET p == loaded[i].path IN
    /\ Event /\ writing = "no"
    /\ records' = [r \in DOMAIN records |->
                     IF records[r].path = p
                     THEN [records[r] EXCEPT !.enabled = FALSE] ELSE records[r]]
    /\ loaded' = Others(loaded, p)
    /\ Save({}) /\ UNCHANGED permitted

\* set_enabled: the manager lists loaded plugins, all of them enabled, so
\* that it can only disable, and a disabled one is gone from it.
Disable(i) ==
  LET p == loaded[i].path IN
    /\ Event /\ Writable
    /\ records' = [r \in DOMAIN records |->
                     IF records[r].path = p
                     THEN [records[r] EXCEPT !.enabled = FALSE] ELSE records[r]]
    /\ loaded' = Others(loaded, p)
    /\ Save({}) /\ UNCHANGED permitted

\* What the last record of a file cut short reads as: what is missing of it
\* has its default, and a plugin is enabled by default.
Torn(r) == {r, [r EXCEPT !.granted = {}], [r EXCEPT !.enabled = TRUE, !.granted = {}]}

\* fs::write: the file is empty, or has a beginning of the new text. What does
\* not parse reads as no plugins.
CutFile ==
  /\ writing = "begun"
  /\ writing' = "cut"
  /\ \/ pluginFile' = <<>>
     \/ \E n \in DOMAIN records : \E last \in Torn(records[n]) :
          pluginFile' = [i \in 1..n |-> IF i < n THEN records[i] ELSE last]
  /\ UNCHANGED <<hostVars, runs, renewed, unsaved>>

\* The write ends well, or fails before or after the file was cut. What is
\* installed anew is granted nothing from here on.
EndSave ==
  /\ \/ writing = "cut" /\ pluginFile' = records /\ unsaved' = FALSE
     \/ writing # "no" /\ unsaved' = TRUE /\ UNCHANGED pluginFile
  /\ writing' = "no" /\ renewed' = {}
  /\ permitted' = [p \in PluginPaths |-> IF p \in renewed THEN {} ELSE permitted[p]]
  /\ UNCHANGED <<records, loaded, runs, revived, events>>

\* PluginHost::new, after an end or a crash at any point: every record that
\* is enabled is loaded, if its file still is a plugin.
Restart ==
  /\ Event
  /\ records' = pluginFile
  /\ \E good \in SUBSET PluginPaths :
       LET on == Kept(pluginFile, {r \in Range(pluginFile) : r.enabled /\ r.path \in good})
       IN  loaded' = [i \in DOMAIN on |-> [path |-> on[i].path, granted |-> on[i].granted]]
  /\ runs' = {} /\ writing' = "no" /\ renewed' = {} /\ revived' = (revived \/ unsaved)
  /\ UNCHANGED <<pluginFile, unsaved, permitted>>

------------------------------------------------------------------------------
(* Runs: a column value, a preview, a command, an event of an operation.   *)

\* instantiate: an instance of its own, with the grants of the record.
StartRun(i) ==
  /\ writing = "no"
  /\ runs' = runs \cup {loaded[i]}
  /\ UNCHANGED <<hostVars, pluginFile, writing, renewed, unsaved>>

\* It returns, fails, or runs out of fuel.
EndRun(r) ==
  /\ runs' = runs \ {r}
  /\ UNCHANGED <<hostVars, pluginFile, writing, renewed, unsaved>>

------------------------------------------------------------------------------
PluginsInit ==
  /\ records = <<>> /\ loaded = <<>> /\ runs = {} /\ pluginFile = <<>>
  /\ writing = "no" /\ renewed = {} /\ unsaved = FALSE /\ revived = FALSE
  /\ permitted = [p \in PluginPaths |-> {}] /\ events = 0

PluginsNext ==
  \/ \E p \in PluginPaths : Install(p)
  \/ \E i \in DOMAIN loaded :
       \/ \E perm \in Permissions : Grant(i, perm)
       \/ Disable(i) \/ StartRun(i)
  \/ \E r \in runs : EndRun(r)
  \/ CutFile \/ EndSave \/ Restart

PluginsSpec == PluginsInit /\ [][PluginsNext]_pluginVars

------------------------------------------------------------------------------
(* Properties.                                                             *)

\* A plugin that runs has no more than what the user has granted it since it
\* was last installed, and is installed and enabled at that moment, after
\* any sequence of installs, grants, disablings, crashes and starts - unless
\* a save has failed, and the registry of before it has come back ("a plugin sees
\* nothing unless you grant it", README.md:39-40).
PluginsActAsGranted ==
  \A r \in runs :
    /\ revived \/ r.granted \subseteq permitted[r.path]
    /\ \E i \in DOMAIN records :
         /\ records[i].path = r.path
         /\ records[i].enabled /\ records[i].granted = r.granted
==============================================================================
