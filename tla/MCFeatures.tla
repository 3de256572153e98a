------------------------------ MODULE MCFeatures ------------------------------
(***************************************************************************)
(* Small instances of the features and of the file list under the user's   *)
(* hands. The two share no variable: a behaviour is one of the part in     *)
(* play, the other rests in one state of those it can start in.            *)
(***************************************************************************)
EXTENDS Features, MCFileList

CONSTANTS
  q1, q2, s1, s2, w1, here, there, pp, pq, read, i1, i2, c1, c2, v1, z1, z2, z3, b1, fa, fb

MCQueries == {q1, q2}
MCSounds == {s1, s2}
MCPages == {w1}
MCFilePlaces == {here, there}
MCPluginPaths == {pp, pq}
MCPermissions == {read}
MCIcons == {i1, i2}
MCSums == {c1, c2}
MCCells == {v1}
MCSizes == {z1, z2, z3}
MCBranches == {b1}
MCComparedFolders == {fa, fb}

\* Two queries, and two folders, are interchangeable: the one that is asked for
\* first, or compared from the left, may be taken to be the first.
FirstIsFirst ==
  /\ epoch = 0 => q2 \notin {search'.query, palette'.query}
  /\ compare.id = 0 => compare'.left # fb

\* The size, the time, or neither differs.
MCFileMetas ==
  {[size |-> 1, mtime |-> 1], [size |-> 2, mtime |-> 1], [size |-> 1, mtime |-> 2]}

Entry(name, dir, hidden, size) ==
  [name |-> name, dir |-> dir, hidden |-> hidden, size |-> size]

\* B, Az, aa and a01, a1 (a folder), a10.B; a.b; the hidden .a
MCEntries ==
  {Entry(<<66>>, FALSE, FALSE, 1), Entry(<<65, 122>>, FALSE, FALSE, 2),
   Entry(<<97, 97>>, FALSE, FALSE, 2), Entry(<<97, 48, 49>>, FALSE, FALSE, 1),
   Entry(<<97, 49>>, TRUE, FALSE, 0), Entry(<<97, 49, 48, 46, 66>>, FALSE, FALSE, 1),
   Entry(<<97, 46, 98>>, FALSE, FALSE, 1), Entry(<<46, 97>>, FALSE, TRUE, 1)}

\* space ! " * 1 ? |
MCFilterBytes == {32, 33, 34, 42, 49, 63, 124}

\* a\
MCShownPath == <<97, 92>>

\* What files that are compared start as; every size and time can come later.
AFile == [dir |-> FALSE, size |-> 1, mtime |-> 1]

VARIABLE part  \* the part in play

\* The part not in play stays as it is.
InPlay(p) ==
  /\ part = p /\ part' = p
  /\ p # "features" => UNCHANGED featuresVars
  /\ p # "list" => UNCHANGED vars

MCInit ==
  /\ part \in {"features", "list"}
  /\ FeaturesInit /\ Init
  /\ part # "features" => focus = "views"
  /\ \A f \in ComparedFolders :
       \A n \in DOMAIN contents[f] \ {Sub} : contents[f][n] \in {Folder, AFile}

MCNext ==
  \/ InPlay("features") /\ FeaturesNext /\ FirstIsFirst
  \/ InPlay("list") /\ Next

MCSpec == MCInit /\ [][MCNext]_<<part, featuresVars, vars>>
==============================================================================
