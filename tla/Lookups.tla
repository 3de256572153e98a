-------------------------------- MODULE Lookups --------------------------------
(***************************************************************************)
(* What the window looks up while it draws: icons, checksums, values of    *)
(* plugin columns, sizes of folders, the folders of the tree, the places   *)
(* of the sidebar. Each has a set of the keys that are asked for and a map *)
(* of those that are known (crates/sc-app/src/ui.rs, sidebar.rs, app.rs,   *)
(* jobs.rs). The window never touches the disk for them: a frame asks, an  *)
(* answer comes any time later, in any order.                              *)
(***************************************************************************)
EXTENDS Naturals, FiniteSets

CONSTANTS
  Icons, Sums, Cells, Sizes, Branches,  \* the keys of each kind
  IconsPerFrame,      \* 8
  SumsPerFrame,       \* 4
  SizesAtOnce,        \* 8
  MaxRefreshes        \* bound: refreshes of the places

Places == "places"

ASSUME LookupsAssumption ==
  /\ IconsPerFrame \in Nat \ {0}
  /\ {SumsPerFrame, SizesAtOnce, MaxRefreshes} \subseteq Nat
  /\ LET kinds == <<Icons, Sums, Cells, Sizes, Branches, {Places}>>
     IN  \A i, j \in DOMAIN kinds : i # j => kinds[i] \cap kinds[j] = {}
  /\ IsFiniteSet(Icons)

VARIABLES
  pending,     \* icons.pending, checksum_pending, column_pending, ...
  known,       \* icons.map, checksums, column_values, ...
  lookups,     \* how many jobs there are for each key
  refreshes    \* refreshes of the places so far

lookupVars == <<pending, known, lookups, refreshes>>

Keys == Icons \cup Sums \cup Cells \cup Sizes \cup Branches \cup {Places}

------------------------------------------------------------------------------
(* A frame.                                                                *)

\* Not known and not asked for, among the keys ks.
Missing(ks) == ks \ (known \cup pending)

\* As many jobs as n says for each key of its domain.
Submit(n) ==
  /\ pending' = pending \cup DOMAIN n
  /\ lookups' = [k \in Keys |-> lookups[k] + (IF k \in DOMAIN n THEN n[k] ELSE 0)]

\* The rows of a table collect what they miss first, up to eight, and ask
\* when all are drawn: rows of one extension ask once each.
DrawIcons ==
  /\ \E ks \in SUBSET Missing(Icons) : \E n \in [ks -> 1..IconsPerFrame] :
       /\ ks # {}
       /\ Cardinality({c \in ks \X (1..IconsPerFrame) : c[2] <= n[c[1]]}) <= IconsPerFrame
       /\ Submit(n)
  /\ UNCHANGED <<known, refreshes>>

\* Each row has a key of its own.
Once(ks) == [k \in ks |-> 1]

DrawSums ==
  /\ \E ks \in SUBSET Missing(Sums) :
       ks # {} /\ Cardinality(ks) <= SumsPerFrame /\ Submit(Once(ks))
  /\ UNCHANGED <<known, refreshes>>

\* Values of a plugin's column, one for each row that is drawn; the icon of
\* folders in the tab bar and the children of a branch that is opened are
\* asked for in the same way.
DrawCells ==
  /\ \E ks \in (SUBSET Missing(Cells)) \cup {{k} : k \in Missing(Branches)} :
       ks # {} /\ Submit(Once(ks))
  /\ UNCHANGED <<known, refreshes>>

\* Wrong: only what is known is looked at.
RequestDirSizeAgain(k) ==
  /\ k \notin known /\ Cardinality(pending \cap Sizes) < SizesAtOnce
  /\ lookups[k] < 2
  /\ Submit(Once({k}))
  /\ UNCHANGED <<known, refreshes>>

\* request_dir_size: not while eight are being measured.
RequestDirSize(k) ==
  /\ k \in Missing(Sizes) /\ Cardinality(pending \cap Sizes) < SizesAtOnce
  /\ Submit(Once({k}))
  /\ UNCHANGED <<known, refreshes>>

\* maybe_refresh_places: fifteen seconds after the last answer.
RefreshPlaces ==
  /\ Places \notin pending /\ refreshes < MaxRefreshes
  /\ refreshes' = refreshes + 1
  /\ Submit(Once({Places}))
  /\ UNCHANGED known

------------------------------------------------------------------------------
(* The answers.                                                            *)

\* Wrong: the key stays asked for.
OnLookupKeepingPending(k) ==
  /\ lookups[k] > 0
  /\ lookups' = [lookups EXCEPT ![k] = @ - 1]
  /\ known' = known \cup {k}
  /\ UNCHANGED <<pending, refreshes>>

\* A job ends, well or not, and its answer is entered: handle_msg, Icon,
\* Checksum, ColumnValue, DirSize, DirsListed, Places.
OnLookup(k) ==
  /\ lookups[k] > 0
  /\ lookups' = [lookups EXCEPT ![k] = @ - 1]
  /\ known' = known \cup {k} /\ pending' = pending \ {k}
  /\ UNCHANGED refreshes

------------------------------------------------------------------------------
\* ScApp::new asks for the places and for what was open in the tree.
LookupsInit ==
  /\ \E open \in SUBSET Branches :
       /\ pending = open \cup {Places}
       /\ lookups = [k \in Keys |-> IF k \in pending THEN 1 ELSE 0]
  /\ known = {} /\ refreshes = 0

LookupsNext ==
  \/ DrawIcons \/ DrawSums \/ DrawCells \/ RefreshPlaces
  \/ \E k \in Sizes : RequestDirSize(k)
  \/ \E k \in Keys : OnLookup(k)

LookupsSpec == LookupsInit /\ [][LookupsNext]_lookupVars

------------------------------------------------------------------------------
(* Properties.                                                             *)

\* A key that is marked as asked for has its job, and so is answered and
\* can be asked for again; no frame asks for what is on its way, save for the
\* icons of one frame; and no more than eight folders are measured at once
\* ("so huge listings cannot flood the pool", app.rs:1828).
LookupsArePending ==
  /\ \A k \in Keys :
       /\ k \in pending => lookups[k] > 0
       /\ lookups[k] > 0 => k \in pending \cup known
       /\ k \notin Icons => lookups[k] <= 1
       /\ lookups[k] <= IconsPerFrame
  /\ Cardinality({k \in Sizes : lookups[k] > 0}) <= SizesAtOnce
==============================================================================
