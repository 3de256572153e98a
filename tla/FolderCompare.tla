----------------------------- MODULE FolderCompare -----------------------------
(***************************************************************************)
(* Comparing the folders of the two panes: the job that compares, its      *)
(* answer, the rows that are ticked, and the operations on them            *)
(* (crates/sc-app/src/compare.rs, app.rs, dialogs.rs). The folders change  *)
(* under it: nothing is compared again by itself.                          *)
(***************************************************************************)
EXTENDS Naturals, Sequences, FiniteSets, SequencesExt

CONSTANTS
  TopNames, DeepNames,   \* names in a folder, and in its subfolders, as numbers
  ComparedFolders,       \* the folders the panes can show
  FileMetas,             \* the sizes and times files can have: records of both
  MaxComparisons,        \* bound: comparisons asked for
  MaxUnread,             \* bound: names a comparison does not get at
  MaxSteps               \* bound: filters, ticks, orders, changes of the folders

ASSUME CompareAssumption ==
  /\ TopNames \cup DeepNames \subseteq Nat \ {0}
  /\ IsFiniteSet(TopNames) /\ IsFiniteSet(DeepNames)
  /\ {MaxComparisons, MaxUnread, MaxSteps} \subseteq Nat

VARIABLES
  compare,       \* ScApp::compare
  compareJobs,   \* Job::CompareFolders on their way, with their answer if done
  contents,      \* what the folders hold
  ticked,        \* the rows the user sees ticked
  ordered,       \* the last operations submitted: what is done to which row
  steps

compareVars == <<compare, compareJobs, contents, ticked, ordered, steps>>

\* Metadata, and what a folder can hold: it maps the names that are in it
\* to theirs. 0 names the subfolder the deep names are in, which is there.
Sub == 0
Folder == [dir |-> TRUE, size |-> 0, mtime |-> 1]
Meta == {[dir |-> FALSE, size |-> m.size, mtime |-> m.mtime] : m \in FileMetas} \cup {Folder}

------------------------------------------------------------------------------
(* compare_folders.                                                        *)

\* Of the same time and different sizes, the left one is called the newer.
KindOf(l, r) ==
  CASE (l.dir /\ r.dir) \/ (l.size = r.size /\ l.mtime = r.mtime) -> "Same"
    [] r.mtime > l.mtime -> "NewerRight"
    [] OTHER -> "NewerLeft"

\* collect, walk: what may be found of the folders that hold l and r. What
\* cannot be looked at is passed over, a subfolder with all that is in it, and
\* so is what is in a folder that cannot be read.
Walked(l, r) ==
  LET parts(c) == {ks \in SUBSET DOMAIN c : ks \cap DeepNames = {} \/ Sub \in ks}
      unread(c, ks) == Cardinality(DOMAIN c \ ks)
  IN  {[left |-> [n \in f[1] |-> l[n]], right |-> [n \in f[2] |-> r[n]]] :
         f \in {g \in parts(l) \X parts(r) : unread(l, g[1]) + unread(r, g[2]) <= MaxUnread}}

\* The rows of both folders, as they were found, in the order of their names;
\* those of the subfolders if they are included.
CompareFolders(found, left, right, deep) ==
  LET reach == {Sub} \cup TopNames \cup (IF deep THEN DeepNames ELSE {})
      l == found.left
      r == found.right
      names == reach \cap (DOMAIN l \cup DOMAIN r)
      row(n) == [name |-> n, left |-> left, right |-> right,
                 on |-> {s \in {"left", "right"} :
                           n \in DOMAIN (IF s = "left" THEN l ELSE r)},
                 kind |-> IF n \notin DOMAIN r THEN "LeftOnly"
                          ELSE IF n \notin DOMAIN l THEN "RightOnly"
                          ELSE KindOf(l[n], r[n]),
                 dir |-> \E d \in {l, r} : n \in DOMAIN d /\ d[n].dir]
      rows == 1..Cardinality(names)
      order == CHOOSE s \in [rows -> names] : \A i, j \in rows : i < j => s[i] < s[j]
  IN  [i \in rows |-> row(order[i])]

\* CompareFilter::matches
Matches(filter, kind) ==
  CASE filter = "All" -> TRUE
    [] filter = "Different" -> kind # "Same"
    [] OTHER -> kind = filter

------------------------------------------------------------------------------
(* The window.                                                             *)

\* run_compare, of the state c: what is shown stays until the answer.
RunCompare(c) ==
  /\ c.id < MaxComparisons
  /\ compare' = [c EXCEPT !.id = @ + 1, !.running = TRUE]
  /\ compareJobs' = compareJobs \cup
       {[id |-> c.id + 1, left |-> c.left, right |-> c.right, deep |-> c.deep]}

\* open_compare, in a dual layout: the folders the two panes show now.
OpenCompare(l, r) ==
  /\ RunCompare([compare EXCEPT !.open = TRUE, !.left = l, !.right = r,
                                !.rows = <<>>, !.selected = {}])
  /\ ticked' = {}
  /\ UNCHANGED <<contents, ordered, steps>>

CloseCompare ==
  /\ compare.open
  /\ compare' = [compare EXCEPT !.open = FALSE]
  /\ UNCHANGED <<compareJobs, contents, ticked, ordered, steps>>

IncludeSubfolders ==
  /\ compare.open
  /\ RunCompare([compare EXCEPT !.deep = ~@])
  /\ UNCHANGED <<contents, ticked, ordered, steps>>

SetFilter(f) ==
  /\ compare.open /\ f # compare.filter
  /\ steps < MaxSteps /\ steps' = steps + 1
  /\ compare' = [compare EXCEPT !.filter = f]
  /\ UNCHANGED <<compareJobs, contents, ticked, ordered>>

Flip(s, x) == IF x \in s THEN s \ {x} ELSE s \cup {x}

Tick(i) ==
  /\ compare.open /\ Matches(compare.filter, compare.rows[i].kind)
  /\ steps < MaxSteps /\ steps' = steps + 1
  /\ compare' = [compare EXCEPT !.selected = Flip(@, i)]
  /\ ticked' = Flip(ticked, compare.rows[i])
  /\ UNCHANGED <<compareJobs, contents, ordered>>

\* The operation on a row: folders are passed over, what is not there is not
\* copied, and what is deleted is deleted on both sides.
Order(do, row) ==
  CASE row.dir -> {}
    [] do = "right" /\ "left" \in row.on ->
         {[do |-> "copy", row |-> row, from |-> {"left"}, to |-> compare.right]}
    [] do = "left" /\ "right" \in row.on ->
         {[do |-> "copy", row |-> row, from |-> {"right"}, to |-> compare.left]}
    [] do = "delete" -> {[do |-> "delete", row |-> row, from |-> row.on, to |-> "bin"]}
    [] OTHER -> {}

\* The buttons: the ticks of rows the filter hides count as well.
Act(do) ==
  /\ compare.open /\ steps < MaxSteps /\ steps' = steps + 1
  /\ ordered' = UNION {Order(do, compare.rows[i]) :
                         i \in compare.selected \cap DOMAIN compare.rows}
  /\ compare' = [compare EXCEPT !.selected = {}]
  /\ ticked' = {}
  /\ UNCHANGED <<compareJobs, contents>>

\* Wrong: the ticks stay.
OnCompareResultKeepingTicks(j) ==
  /\ compareJobs' = compareJobs \ {j}
  /\ \E found \in Walked(contents[j.left], contents[j.right]) :
       compare' = [compare EXCEPT !.rows = CompareFolders(found, j.left, j.right, j.deep),
                                  !.running = FALSE]
  /\ ticked' = {}
  /\ UNCHANGED <<contents, ordered, steps>>

\* The comparing, and handle_msg, CompareResult: the ticks go with the rows
\* they were made on.
OnCompareResult(j) ==
  /\ compareJobs' = compareJobs \ {j}
  /\ IF j.id = compare.id
     THEN /\ \E found \in Walked(contents[j.left], contents[j.right]) :
               compare' = [compare EXCEPT !.rows = CompareFolders(found, j.left, j.right, j.deep),
                                          !.running = FALSE, !.selected = {}]
          /\ ticked' = {}
     ELSE UNCHANGED <<compare, ticked>>
  /\ UNCHANGED <<contents, ordered, steps>>

\* Other programs, and the operations themselves.
ContentsChange(f, n) ==
  /\ steps < MaxSteps /\ steps' = steps + 1
  /\ \/ \E x \in Meta : contents' = [contents EXCEPT ![f] = (n :> x) @@ @]
     \/ /\ n \in DOMAIN contents[f]
        /\ contents' = [contents EXCEPT ![f] =
                          [k \in DOMAIN @ \ {n} |-> contents[f][k]]]
  /\ UNCHANGED <<compare, compareJobs, ticked, ordered>>

------------------------------------------------------------------------------
\* The folders are empty, but for the subfolder, or hold the same.
CompareInit ==
  /\ compare = [open |-> FALSE, left |-> "none", right |-> "none", deep |-> FALSE,
                filter |-> "All", rows |-> <<>>, running |-> FALSE, id |-> 0,
                selected |-> {}]
  /\ compareJobs = {} /\ ticked = {} /\ ordered = {} /\ steps = 0
  /\ \E names \in {{}, TopNames} : \E m \in Meta :
       contents = [f \in ComparedFolders |-> [n \in {Sub} \cup names |->
                                               IF n = Sub THEN Folder ELSE m]]

CompareNext ==
  \/ \E l, r \in ComparedFolders : OpenCompare(l, r)
  \/ CloseCompare \/ IncludeSubfolders
  \/ \E f \in {"All", "LeftOnly", "RightOnly", "Different", "Same"} : SetFilter(f)
  \/ \E i \in DOMAIN compare.rows : Tick(i)
  \/ \E do \in {"left", "right", "delete"} : Act(do)
  \/ \E j \in compareJobs : OnCompareResult(j)
  \/ \E f \in ComparedFolders, n \in TopNames \cup DeepNames : ContentsChange(f, n)

CompareSpec == CompareInit /\ [][CompareNext]_compareVars

------------------------------------------------------------------------------
(* Properties.                                                             *)

\* The boxes that are ticked are those the user has ticked, row for row, on
\* the rows that are there now; the rows are of the folders named above
\* them, and what has been ordered was done to rows that were ticked, on a
\* side that had them (run_compare, handle_msg, folder_compare).
CompareActsOnWhatIsTicked ==
  /\ {compare.rows[i] : i \in compare.selected \cap DOMAIN compare.rows} = ticked
  /\ compare.selected \subseteq DOMAIN compare.rows
  /\ \A i \in DOMAIN compare.rows :
       compare.rows[i].left = compare.left /\ compare.rows[i].right = compare.right
  /\ \A o \in ordered : o.from # {} /\ o.from \subseteq o.row.on
==============================================================================
