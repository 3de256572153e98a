-------------------------------- MODULE Features --------------------------------
(***************************************************************************)
(* The features around the file list: search, preview, the index of a      *)
(* volume, plugins, what the window looks up, the comparing of folders,    *)
(* the filtered and sorted view. They share nothing but the worker threads,*)
(* which each of them lets answer in any order already: a behaviour is one *)
(* of the area in focus, while the others rest.                            *)
(***************************************************************************)
EXTENDS Search, Preview, VolumeIndex, Plugins, Lookups, FolderCompare, Views

VARIABLE focus   \* the area that moves

featuresVars == <<focus, searchVars, previewVars, volumeVars, pluginVars, lookupVars,
                  compareVars, viewsVars>>

\* The areas that rest start in one state of those they can.
FeaturesInit ==
  /\ focus \in {"search", "preview", "volume", "plugins", "lookups", "compare", "views"}
  /\ SearchInit /\ PreviewInit /\ VolumeInit /\ PluginsInit /\ LookupsInit
  /\ CompareInit /\ ViewsInit
  /\ focus # "search" => ~everything
  /\ focus # "preview" => device
  /\ focus # "volume" => volume = [f \in FileNumbers |-> Nowhere]
  /\ focus # "compare" => \A f \in ComparedFolders : DOMAIN contents[f] = {Sub}
  /\ focus # "lookups" => pending = {Places}

\* The other areas stay as they are.
Only(area) ==
  /\ focus = area /\ focus' = focus
  /\ area # "search" => UNCHANGED searchVars
  /\ area # "preview" => UNCHANGED previewVars
  /\ area # "volume" => UNCHANGED volumeVars
  /\ area # "plugins" => UNCHANGED pluginVars
  /\ area # "lookups" => UNCHANGED lookupVars
  /\ area # "compare" => UNCHANGED compareVars
  /\ area # "views" => UNCHANGED viewsVars

FeaturesNext ==
  \/ Only("search") /\ SearchNext
  \/ Only("preview") /\ PreviewNext
  \/ Only("volume") /\ VolumeNext
  \/ Only("plugins") /\ PluginsNext
  \/ Only("lookups") /\ LookupsNext
  \/ Only("compare") /\ CompareNext
  \/ Only("views") /\ ViewsNext

FeaturesSpec == FeaturesInit /\ [][FeaturesNext]_featuresVars
==============================================================================
