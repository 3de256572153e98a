---------------------------- MODULE FileUndoProofs ----------------------------
(***************************************************************************)
(* What TLAPS proves of operations, undo and redo: each entry of the       *)
(* journal takes back what its operation has done and does it again, for   *)
(* any folders, names, operations and depth of the journal.                *)
(***************************************************************************)
EXTENDS FileUndo, DataLemmas

------------------------------------------------------------------------------
(* The state.                                                              *)

Origins == {"user", "undo", "redo"}
UndoActions ==
  [kind : {"DeletePaths"}, paths : Seq(Paths)]
  \cup [kind : {"MoveBack"}, pairs : Seq(Paths \X Paths)]
  \cup [kind : {"RenameBack"}, from : Paths, to : Paths]
Queued == [op : Operations, origin : Origins]
Work == [op : Operations, origin : Origins, item : Nat \ {0},
         made : Seq(Paths \X Paths), before : Files, plain : BOOLEAN]
Outcomes == [origin : Origins, op : Operations, undo : UndoActions \cup {NoUndo},
             before : Files, after : Files, plain : BOOLEAN]
Entries == [undo : UndoActions, redoOps : Seq(Operations),
            before : Files, after : Files, plain : BOOLEAN]
Expectations == [known : {TRUE}, fs : Files, plain : BOOLEAN]

FileTypeOK ==
  /\ fs \in Files /\ bin \in SUBSET (Paths \X Contents)
  /\ queue \in Seq(Queued) /\ work \in Work \cup {Idle} /\ doneEvents \in Seq(Outcomes)
  /\ undoStack \in Seq(Entries) /\ redoStack \in Seq(Entries)
  /\ Len(undoStack) + Len(redoStack) <= MaxDepth
  /\ userCount \in 0 .. MaxUser /\ undoCount \in 0 .. MaxUndo
  /\ expect \in Expectations \cup {Anything}

------------------------------------------------------------------------------
(* What operations do, if they meet no conflict.                           *)

(* A file s of f is copied or moved to d. *)
Placed(kind, f, s, d) == IF kind = "move" THEN [f EXCEPT ![d] = f[s], ![s] = Absent]
                         ELSE [f EXCEPT ![d] = f[s]]

(* The k-th path of a copy or a move turns f into g. *)
Passed(o, k, f, g) ==
  LET s == o.paths[k]
      d == <<o.dest, Name(s)>>
  IN  IF s = d THEN g = f ELSE f[d] = Absent /\ g = Placed(o.kind, f, s, d)

(* Its paths from the i-th to before the j-th do. *)
Passes(o, i, f, j, g) ==
  \E h \in [Nat -> Files] : /\ h[i] = f /\ h[j] = g
                            /\ \A k \in i .. j - 1 : Passed(o, k, h[k], h[k + 1])

Transfer == {"copy", "move"}

Deleted(f, gone) == [p \in Paths |-> IF p \in gone THEN Absent ELSE f[p]]

(* The operation o turns f into g. *)
Leads(o, f, g) ==
  /\ o.kind # "restore"
  /\ o.kind \in Transfer => Passes(o, 1, f, Len(o.paths) + 1, g)
  /\ o.kind = "rename" => g = [f EXCEPT ![o.dest] = f[o.paths[1]], ![o.paths[1]] = Absent]
  /\ o.kind = "create" => g = [f EXCEPT ![o.paths[1]] = Empty]
  /\ o.kind = "recycle" => g = Deleted(f, ToSet(o.paths))

(* A transfer has made the pairs, of a path that was and one that was not    *)
(* there in f, and nothing else.                                           *)
Carried(o, made, f, g) ==
  /\ \A k \in DOMAIN made :
       /\ made[k][2] = <<o.dest, Name(made[k][1])>> /\ made[k][1] # made[k][2]
       /\ f[made[k][1]] # Absent /\ f[made[k][2]] = Absent
       /\ g[made[k][2]] = f[made[k][1]]
       /\ o.kind = "move" => g[made[k][1]] = Absent
  /\ \A k, l \in DOMAIN made : made[k][2] = made[l][2] => k = l
  /\ \A p \in Paths :
       (\A k \in DOMAIN made : p # made[k][2] /\ (o.kind = "move" => p # made[k][1]))
         => g[p] = f[p]

(* Where a move of one file finds it, and where it puts it. *)
Whence(o) == o.paths[1]
Whither(o) == <<o.dest, Name(o.paths[1])>>

(* Moves of one file each that turn f into g in whatever order they run. *)
Returns(moves, f, g) ==
  /\ \A o \in moves :
       /\ o.kind = "move" /\ Len(o.paths) = 1 /\ Whence(o) # Whither(o)
       /\ f[Whither(o)] = Absent
       /\ g[Whither(o)] = f[Whence(o)] /\ g[Whence(o)] = Absent
  /\ \A o, q \in moves :
       /\ Whence(o) # Whither(q)
       /\ o # q => Whence(o) # Whence(q) /\ Whither(o) # Whither(q)
  /\ \A p \in Paths : (\A o \in moves : p \notin {Whence(o), Whither(o)}) => g[p] = f[p]

(* The undo action u turns g into f. *)
TakesBack(u, g, f) ==
  LET ops == UndoToOps(u)
  IN  IF u.kind = "MoveBack"
      THEN /\ \A k, l \in DOMAIN ops : ops[k] = ops[l] => k = l
           /\ Returns({ops[k] : k \in DOMAIN ops}, g, f)
      ELSE Leads(ops[1], g, f)

------------------------------------------------------------------------------
(* The inductive invariant.                                                *)

(* Until a conflict is met, what the work has made is what its operation     *)
(* makes of the files there were.                                          *)
WorkFollows ==
  work \in Work =>
    /\ work.op.kind \notin Transfer => fs = work.before
    /\ work.op.kind \in Transfer /\ work.plain =>
         /\ work.item <= Len(work.op.paths) + 1
         /\ Passes(work.op, 1, work.before, work.item, fs)
         /\ Carried(work.op, work.made, work.before, fs)

(* What is recorded, and what will be, can be taken back and done again. *)
OutcomeInverts(r) ==
  r.plain /\ r.undo # NoUndo =>
    Leads(r.op, r.before, r.after) /\ TakesBack(r.undo, r.after, r.before)

ResultsInvert == \A k \in DOMAIN doneEvents : OutcomeInverts(doneEvents[k])

Inverts(e) ==
  /\ Len(e.redoOps) = 1
  /\ e.plain => /\ Leads(e.redoOps[1], e.before, e.after)
                /\ TakesBack(e.undo, e.after, e.before)

JournalInverts ==
  /\ \A k \in DOMAIN undoStack : Inverts(undoStack[k])
  /\ \A k \in DOMAIN redoStack : Inverts(redoStack[k])

(* One operation waits or runs and makes of the files what is expected, or   *)
(* it has.                                                                 *)
OneLeads ==
  \/ /\ Len(queue) = 1 /\ work = Idle /\ Leads(queue[1].op, fs, expect.fs)
  \/ /\ queue = <<>> /\ work \in Work
     /\ work.op.kind \notin Transfer => Leads(work.op, fs, expect.fs)
     /\ work.op.kind \in Transfer =>
          /\ work.item <= Len(work.op.paths) + 1
          /\ Passes(work.op, work.item, fs, Len(work.op.paths) + 1, expect.fs)
  \/ queue = <<>> /\ work = Idle /\ fs = expect.fs

(* Files are moved back one by one: some wait, one may be on its way. *)
Waiting == {queue[k].op : k \in DOMAIN queue}
Moving == {o \in {work.op} : work # Idle /\ work.item = 1}
MovesLead ==
  /\ work \in Work => /\ work.op.kind = "move" /\ Len(work.op.paths) = 1
                      /\ work.item \in {1, 2}
  /\ \A k, l \in DOMAIN queue : queue[k].op = queue[l].op => k = l
  /\ Waiting \cap Moving = {}
  /\ Returns(Waiting \cup Moving, fs, expect.fs)

UndoLeads == expect.known /\ expect.plain => OneLeads \/ MovesLead

FileUndoInv ==
  FileTypeOK /\ WorkFollows /\ ResultsInvert /\ JournalInverts /\ UndoLeads

------------------------------------------------------------------------------
(* Facts about operations and files.                                       *)

(* The kinds of operations and what they carry. *)
LEMMA OpFacts ==
  ASSUME NEW o \in Operations
  PROVE  /\ o.kind \in {"copy", "move", "rename", "create", "recycle", "restore"}
         /\ o.paths \in Seq(Paths)
         /\ o.kind \in Transfer => o.dest \in FileFolders
         /\ o.kind = "rename" => o.dest \in Paths /\ o.paths[1] \in Paths
         /\ o.kind = "create" => o.paths[1] \in Paths
  <1>1. \A s \in Seq(Paths) \ {<<>>} : s[1] \in Paths
    OBVIOUS
  <1> QED  BY <1>1 DEF Operations, Transfer

(* What undo submits are operations, too. *)
LEMMA OpsAre ==
  /\ \A ps \in Seq(Paths) : Op("recycle", ps, Absent) \in Operations
  /\ \A p \in Paths, d \in FileFolders : Op("move", <<p>>, d) \in Operations
  /\ \A p, q \in Paths : Op("rename", <<p>>, q) \in Operations
  <1>1. \A p \in Paths : <<p>> \in Seq(Paths) /\ <<p>> # <<>>
    OBVIOUS
  <1> QED  BY <1>1 DEF Operations, Op

(* A path is its folder and its name. *)
LEMMA PathFacts ==
  /\ \A p \in Paths : /\ FolderOf(p) \in FileFolders /\ Name(p) \in FileNames
                      /\ p = <<FolderOf(p), Name(p)>>
  /\ \A d \in FileFolders, n \in FileNames : /\ <<d, n>> \in Paths
                                     /\ FolderOf(<<d, n>>) = d /\ Name(<<d, n>>) = n
  BY DEF Paths, FolderOf, Name

(* Placing a file. *)
LEMMA PlacedFacts ==
  ASSUME NEW kind, NEW f \in Files, NEW s \in Paths, NEW d \in Paths, s # d
  PROVE  /\ Placed(kind, f, s, d) \in Files
         /\ Placed(kind, f, s, d)[d] = f[s]
         /\ kind = "move" => Placed(kind, f, s, d)[s] = Absent
         /\ \A p \in Paths : p # d /\ (kind = "move" => p # s)
              => Placed(kind, f, s, d)[p] = f[p]
  BY DEF Placed, Files

(* Two file systems that agree on every path are one. *)
LEMMA SameFiles ==
  ASSUME NEW f \in Files, NEW g \in Files, \A p \in Paths : g[p] = f[p]
  PROVE  g = f
  BY DEF Files

(* Nothing has been passed at the start. *)
LEMMA PassesNone ==
  ASSUME NEW o, NEW f \in Files, NEW i \in Nat
  PROVE  Passes(o, i, f, i, f)
  <1> DEFINE h == [n \in Nat |-> f]
  <1>1. h \in [Nat -> Files] /\ h[i] = f
    OBVIOUS
  <1>2. i .. i - 1 = {}
    OBVIOUS
  <1> HIDE DEF h
  <1> QED  BY <1>1, <1>2 DEF Passes

(* One more path is passed. *)
LEMMA PassesOn ==
  ASSUME NEW o, NEW f \in Files, NEW g \in Files, NEW e \in Files,
         NEW i \in Nat, NEW j \in Nat, i <= j,
         Passes(o, i, f, j, g), Passed(o, j, g, e)
  PROVE  Passes(o, i, f, j + 1, e)
  <1>1. PICK h \in [Nat -> Files] : /\ h[i] = f /\ h[j] = g
                                    /\ \A k \in i .. j - 1 : Passed(o, k, h[k], h[k + 1])
    BY DEF Passes
  <1> DEFINE h2 == [h EXCEPT ![j + 1] = e]
  <1>2. h2 \in [Nat -> Files] /\ h2[j + 1] = e /\ \A k \in i .. j : h2[k] = h[k]
    OBVIOUS
  <1> HIDE DEF h2
  <1>3. ASSUME NEW k \in i .. (j + 1) - 1
        PROVE  Passed(o, k, h2[k], h2[k + 1])
    <2>1. CASE k = j
      BY <1>1, <1>2, <2>1
    <2>2. CASE k < j
      <3>1. k \in i .. j - 1 /\ k + 1 \in i .. j /\ k \in i .. j
        BY <2>2
      <3> QED  BY <1>1, <1>2, <3>1
    <2> QED  BY <2>1, <2>2
  <1>4. h2[i] = f
    BY <1>1, <1>2
  <1> QED  BY <1>2, <1>3, <1>4 DEF Passes

(* The first of the paths that are passed. *)
LEMMA PassesFrom ==
  ASSUME NEW o, NEW f \in Files, NEW g \in Files, NEW i \in Nat, NEW j \in Nat, i < j,
         Passes(o, i, f, j, g)
  PROVE  \E e \in Files : Passed(o, i, f, e) /\ Passes(o, i + 1, e, j, g)
  <1>1. PICK h \in [Nat -> Files] : /\ h[i] = f /\ h[j] = g
                                    /\ \A k \in i .. j - 1 : Passed(o, k, h[k], h[k + 1])
    BY DEF Passes
  <1>2. i \in i .. j - 1 /\ i + 1 \in Nat /\ i + 1 .. j - 1 \subseteq i .. j - 1
    OBVIOUS
  <1>3. h[i + 1] \in Files /\ Passed(o, i, f, h[i + 1])
    BY <1>1, <1>2
  <1>4. Passes(o, i + 1, h[i + 1], j, g)
    BY <1>1, <1>2 DEF Passes
  <1> QED  BY <1>3, <1>4

(* Nothing is left to pass at the end. *)
LEMMA PassesEnd ==
  ASSUME NEW o, NEW f, NEW g, NEW i, Passes(o, i, f, i, g)
  PROVE  f = g
  BY DEF Passes

(* When every file is back, the files are those expected. *)
LEMMA ReturnsNone ==
  ASSUME NEW f \in Files, NEW g \in Files, Returns({}, f, g)
  PROVE  f = g
  BY SameFiles DEF Returns

(* Of the moves that are left any may be next. *)
LEMMA ReturnsOn ==
  ASSUME NEW moves \in SUBSET Operations, NEW o \in moves,
         NEW f \in Files, NEW g \in Files, Returns(moves, f, g)
  PROVE  /\ Whence(o) \in Paths /\ Whither(o) \in Paths /\ Whence(o) # Whither(o)
         /\ Returns(moves \ {o}, Placed("move", f, Whence(o), Whither(o)), g)
  <1> DEFINE e == Placed("move", f, Whence(o), Whither(o))
  <1>1. \A q \in moves : Whence(q) \in Paths /\ Whither(q) \in Paths
    <2> TAKE q \in moves
    <2>1. q.kind = "move" /\ Len(q.paths) = 1 /\ q \in Operations
      BY DEF Returns
    <2>2. q.paths[1] \in Paths /\ q.dest \in FileFolders
      BY <2>1, OpFacts DEF Transfer
    <2> QED  BY <2>2, PathFacts DEF Whence, Whither
  <1>2. Whence(o) # Whither(o)
    BY DEF Returns
  <1>3. /\ e[Whither(o)] = f[Whence(o)] /\ e[Whence(o)] = Absent
        /\ \A p \in Paths : p # Whither(o) /\ p # Whence(o) => e[p] = f[p]
    BY <1>1, <1>2, PlacedFacts
  <1> HIDE DEF e
  <1>4. ASSUME NEW q \in moves \ {o}
        PROVE  /\ q.kind = "move" /\ Len(q.paths) = 1 /\ Whence(q) # Whither(q)
               /\ e[Whither(q)] = Absent
               /\ g[Whither(q)] = e[Whence(q)] /\ g[Whence(q)] = Absent
    <2>1. /\ Whither(q) # Whither(o) /\ Whither(q) # Whence(o)
          /\ Whence(q) # Whither(o) /\ Whence(q) # Whence(o)
      BY DEF Returns
    <2>2. e[Whither(q)] = f[Whither(q)] /\ e[Whence(q)] = f[Whence(q)]
      BY <1>1, <1>3, <2>1
    <2> QED  BY <2>2 DEF Returns
  <1>5. ASSUME NEW p \in Paths, \A q \in moves \ {o} : p \notin {Whence(q), Whither(q)}
        PROVE  g[p] = e[p]
    <2>1. CASE p \in {Whence(o), Whither(o)}
      BY <1>3, <2>1 DEF Returns
    <2>2. CASE p \notin {Whence(o), Whither(o)}
      <3>1. \A q \in moves : p \notin {Whence(q), Whither(q)}
        BY <1>5, <2>2
      <3> QED  BY <1>3, <2>2, <3>1 DEF Returns
    <2> QED  BY <2>1, <2>2
  <1>6. \A q, r \in moves \ {o} :
          /\ Whence(q) # Whither(r)
          /\ q # r => Whence(q) # Whence(r) /\ Whither(q) # Whither(r)
    BY DEF Returns
  <1>7. Returns(moves \ {o}, e, g)
    BY <1>4, <1>5, <1>6 DEF Returns
  <1> QED  BY <1>1, <1>2, <1>7 DEF e

(* Before the first path nothing has been carried. *)
LEMMA CarriedNone ==
  ASSUME NEW o, NEW f
  PROVE  Carried(o, <<>>, f, f)
  BY DEF Carried

(* One more file is carried. *)
LEMMA CarriedOn ==
  ASSUME NEW o \in Operations, o.kind \in Transfer, NEW made \in Seq(Paths \X Paths),
         NEW f \in Files, NEW g \in Files, NEW s \in Paths, NEW d,
         d = <<o.dest, Name(s)>>, s # d, g[s] # Absent, g[d] = Absent,
         Carried(o, made, f, g)
  PROVE  Carried(o, Append(made, <<s, d>>), f, Placed(o.kind, g, s, d))
  <1> DEFINE e == Placed(o.kind, g, s, d)
             m == Append(made, <<s, d>>)
             n == Len(made)
  <1>1. o.dest \in FileFolders /\ d \in Paths /\ FolderOf(d) = o.dest /\ FolderOf(s) # o.dest
    <2>1. o.dest \in FileFolders
      BY OpFacts
    <2>2. d \in Paths /\ FolderOf(d) = o.dest
      BY <2>1, PathFacts
    <2> QED  BY <2>1, <2>2, PathFacts
  <1>2. /\ e[d] = g[s] /\ (o.kind = "move" => e[s] = Absent)
        /\ \A p \in Paths : p # d /\ (o.kind = "move" => p # s) => e[p] = g[p]
    BY <1>1, PlacedFacts
  <1>3. /\ n \in Nat /\ DOMAIN made = 1 .. n /\ DOMAIN m = 1 .. n + 1
        /\ m[n + 1] = <<s, d>> /\ \A k \in 1 .. n : m[k] = made[k]
    OBVIOUS
  <1>4. ASSUME NEW k \in 1 .. n
        PROVE  /\ made[k] \in Paths \X Paths
               /\ made[k][1] \in Paths /\ made[k][2] \in Paths
               /\ made[k][2] # s /\ made[k][2] # d /\ made[k][1] # d
               /\ o.kind = "move" => made[k][1] # s
    <2>1. made[k] \in Paths \X Paths
      BY <1>3
    <2>2. made[k][1] \in Paths /\ made[k][2] \in Paths
      BY <2>1
    <2>3. /\ made[k][2] = <<o.dest, Name(made[k][1])>> /\ made[k][1] # made[k][2]
          /\ g[made[k][2]] # Absent
          /\ o.kind = "move" => g[made[k][1]] = Absent
      BY <1>3 DEF Carried
    <2>4. FolderOf(made[k][2]) = o.dest
      BY <1>1, <2>2, <2>3, PathFacts
    <2>5. FolderOf(made[k][1]) # o.dest
      BY <2>2, <2>3, PathFacts
    <2> QED  BY <1>1, <2>1, <2>2, <2>3, <2>4, <2>5
  <1> HIDE DEF e, m
  <1>5. f[s] # Absent /\ f[d] = Absent /\ e[d] = f[s]
    <2>1. \A k \in DOMAIN made : s # made[k][2] /\ (o.kind = "move" => s # made[k][1])
      BY <1>3, <1>4
    <2>2. \A k \in DOMAIN made : d # made[k][2] /\ d # made[k][1]
      BY <1>3, <1>4
    <2>3. g[s] = f[s] /\ g[d] = f[d]
      BY <1>1, <2>1, <2>2 DEF Carried
    <2> QED  BY <1>2, <2>3
  <1>6. ASSUME NEW k \in DOMAIN m
        PROVE  /\ m[k][2] = <<o.dest, Name(m[k][1])>> /\ m[k][1] # m[k][2]
               /\ f[m[k][1]] # Absent /\ f[m[k][2]] = Absent
               /\ e[m[k][2]] = f[m[k][1]]
               /\ o.kind = "move" => e[m[k][1]] = Absent
    <2>1. CASE k = n + 1
      <3>1. m[k][1] = s /\ m[k][2] = d
        BY <1>3, <2>1
      <3> QED  BY <1>2, <1>5, <3>1
    <2>2. CASE k \in 1 .. n
      <3>1. m[k] = made[k]
        BY <1>3, <2>2
      <3>2. e[made[k][2]] = g[made[k][2]]
        BY <1>2, <1>4, <2>2
      <3>3. o.kind = "move" => e[made[k][1]] = g[made[k][1]]
        BY <1>2, <1>4, <2>2
      <3>4. k \in DOMAIN made
        BY <1>3, <2>2
      <3>5. /\ made[k][2] = <<o.dest, Name(made[k][1])>> /\ made[k][1] # made[k][2]
            /\ f[made[k][1]] # Absent /\ f[made[k][2]] = Absent
            /\ g[made[k][2]] = f[made[k][1]]
            /\ o.kind = "move" => g[made[k][1]] = Absent
        BY <3>4 DEF Carried
      <3> QED  BY <3>1, <3>2, <3>3, <3>5
    <2>3. k = n + 1 \/ k \in 1 .. n
      BY <1>3, <1>6
    <2> QED  BY <2>1, <2>2, <2>3
  <1>7. ASSUME NEW k \in DOMAIN m, NEW l \in DOMAIN m, m[k][2] = m[l][2]
        PROVE  k = l
    <2>1. \A i \in DOMAIN m : \/ i = n + 1 /\ m[i][2] = d
                              \/ i \in DOMAIN made /\ m[i][2] = made[i][2] /\ made[i][2] # d
      BY <1>3, <1>4
    <2> QED  BY <1>7, <2>1 DEF Carried
  <1>8. ASSUME NEW p \in Paths,
               \A k \in DOMAIN m : p # m[k][2] /\ (o.kind = "move" => p # m[k][1])
        PROVE  e[p] = f[p]
    <2>1. p # d /\ (o.kind = "move" => p # s)
      <3>1. n + 1 \in DOMAIN m /\ m[n + 1][1] = s /\ m[n + 1][2] = d
        BY <1>3
      <3> QED  BY <1>8, <3>1
    <2>2. \A k \in DOMAIN made : p # made[k][2] /\ (o.kind = "move" => p # made[k][1])
      <3>1. \A k \in DOMAIN made : k \in DOMAIN m /\ m[k] = made[k]
        BY <1>3
      <3> QED  BY <1>8, <3>1
    <2> QED  BY <1>2, <2>1, <2>2 DEF Carried
  <1>9. Carried(o, m, f, e)
    BY <1>6, <1>7, <1>8 DEF Carried
  <1> QED  BY <1>9 DEF e, m

(* What a move has carried its undo takes back. *)
LEMMA MoveTakenBack ==
  ASSUME NEW o \in Operations, o.kind = "move", NEW made \in Seq(Paths \X Paths),
         NEW f \in Files, NEW g \in Files, Carried(o, made, f, g)
  PROVE  TakesBack(MoveBack(made), g, f)
  <1> DEFINE ops == UndoToOps(MoveBack(made))
             moves == {ops[k] : k \in DOMAIN ops}
  <1>1. /\ DOMAIN ops = DOMAIN made
        /\ \A k \in DOMAIN made : ops[k] = Op("move", <<made[k][2]>>, FolderOf(made[k][1]))
    BY DEF UndoToOps, MoveBack
  <1>2. ASSUME NEW k \in DOMAIN made
        PROVE  /\ ops[k].kind = "move" /\ Len(ops[k].paths) = 1
               /\ Whence(ops[k]) = made[k][2] /\ Whither(ops[k]) = made[k][1]
               /\ made[k][1] \in Paths /\ made[k][2] \in Paths
               /\ FolderOf(made[k][2]) = o.dest /\ FolderOf(made[k][1]) # o.dest
    <2>1. made[k][1] \in Paths /\ made[k][2] \in Paths
      <3>1. made[k] \in Paths \X Paths
        OBVIOUS
      <3> QED  BY <3>1
    <2>2. made[k][2] = <<o.dest, Name(made[k][1])>> /\ made[k][1] # made[k][2]
      BY DEF Carried
    <2>3. o.dest \in FileFolders
      BY OpFacts DEF Transfer
    <2>4. FolderOf(made[k][2]) = o.dest /\ Name(made[k][2]) = Name(made[k][1])
      BY <2>1, <2>2, <2>3, PathFacts
    <2>5. made[k][1] = <<FolderOf(made[k][1]), Name(made[k][1])>>
      BY <2>1, PathFacts
    <2>6. FolderOf(made[k][1]) # o.dest
      BY <2>2, <2>5
    <2>7. /\ ops[k].kind = "move" /\ ops[k].paths = <<made[k][2]>>
          /\ ops[k].dest = FolderOf(made[k][1])
      BY <1>1 DEF Op
    <2> HIDE DEF ops
    <2>8. Len(ops[k].paths) = 1 /\ ops[k].paths[1] = made[k][2]
      BY <2>7
    <2> QED  BY <2>1, <2>4, <2>5, <2>6, <2>7, <2>8 DEF Whence, Whither
  <1> HIDE DEF ops
  <1>3. \A k, l \in DOMAIN made : k # l => /\ made[k][2] # made[l][2]
                                           /\ made[k][1] # made[l][1]
    <2>1. \A k \in DOMAIN made : made[k][2] = <<o.dest, Name(made[k][1])>>
      BY DEF Carried
    <2>2. \A k, l \in DOMAIN made : made[k][2] = made[l][2] => k = l
      BY DEF Carried
    <2> TAKE k, l \in DOMAIN made
    <2>3. made[k][1] = made[l][1] => made[k][2] = made[l][2]
      <3>1. /\ made[k][2] = <<o.dest, Name(made[k][1])>>
            /\ made[l][2] = <<o.dest, Name(made[l][1])>>
        BY <2>1
      <3> QED  BY <3>1
    <2> QED  BY <2>2, <2>3
  <1>4. \A k, l \in DOMAIN made : ops[k] = ops[l] => k = l
    BY <1>2, <1>3
  <1>5. ASSUME NEW k \in DOMAIN made
        PROVE  /\ ops[k].kind = "move" /\ Len(ops[k].paths) = 1
               /\ Whence(ops[k]) # Whither(ops[k])
               /\ g[Whither(ops[k])] = Absent
               /\ f[Whither(ops[k])] = g[Whence(ops[k])] /\ f[Whence(ops[k])] = Absent
    BY <1>2 DEF Carried
  <1>6. ASSUME NEW k \in DOMAIN made, NEW l \in DOMAIN made
        PROVE  /\ Whence(ops[k]) # Whither(ops[l])
               /\ ops[k] # ops[l] => /\ Whence(ops[k]) # Whence(ops[l])
                                     /\ Whither(ops[k]) # Whither(ops[l])
    BY <1>2, <1>3
  <1>7. ASSUME NEW p \in Paths, \A q \in moves : p \notin {Whence(q), Whither(q)}
        PROVE  f[p] = g[p]
    <2>1. \A k \in DOMAIN made : p \notin {Whence(ops[k]), Whither(ops[k])}
      BY <1>1, <1>7
    <2>2. \A k \in DOMAIN made : p # made[k][2] /\ p # made[k][1]
      BY <1>2, <2>1
    <2> QED  BY <2>2 DEF Carried
  <1>8. Returns(moves, g, f)
    BY <1>1, <1>5, <1>6, <1>7 DEF Returns
  <1>9. MoveBack(made).kind = "MoveBack"
    BY DEF MoveBack
  <1> QED  BY <1>1, <1>4, <1>8, <1>9 DEF TakesBack, ops

(* What a copy has made its undo takes away. *)
LEMMA CopyTakenBack ==
  ASSUME NEW o \in Operations, o.kind = "copy", NEW made \in Seq(Paths \X Paths),
         NEW f \in Files, NEW g \in Files, Carried(o, made, f, g)
  PROVE  TakesBack(DeletePaths([k \in DOMAIN made |-> made[k][2]]), g, f)
  <1> DEFINE dests == [k \in DOMAIN made |-> made[k][2]]
  <1>1. ToSet(dests) = {made[k][2] : k \in DOMAIN made}
    BY DEF ToSet
  <1>2. \A p \in Paths : f[p] = IF p \in ToSet(dests) THEN Absent ELSE g[p]
    BY <1>1 DEF Carried
  <1>3. f = Deleted(g, ToSet(dests))
    BY <1>2 DEF Deleted, Files
  <1> HIDE DEF dests
  <1>4. Leads(Op("recycle", dests, Absent), g, f)
    BY <1>3 DEF Leads, Op, Transfer
  <1>5. /\ UndoToOps(DeletePaths(dests))[1] = Op("recycle", dests, Absent)
        /\ DeletePaths(dests).kind # "MoveBack"
    BY DEF UndoToOps, DeletePaths
  <1> QED  BY <1>4, <1>5 DEF TakesBack, dests

(* What has been renamed is renamed back. *)
LEMMA RenameTakenBack ==
  ASSUME NEW f \in Files, NEW s \in Paths, NEW d \in Paths, s # d, f[d] = Absent
  PROVE  LET g == [f EXCEPT ![d] = f[s], ![s] = Absent]
         IN  TakesBack(RenameBack(d, s), g, f)
  <1> DEFINE g == [f EXCEPT ![d] = f[s], ![s] = Absent]
             o == Op("rename", <<d>>, s)
  <1>1. g \in [Paths -> Contents \cup {Absent}]
    BY DEF Files
  <1>2. f = [g EXCEPT ![s] = g[d], ![d] = Absent]
    BY <1>1 DEF Files
  <1>3. o.kind = "rename" /\ o.dest = s /\ o.paths[1] = d
    BY DEF Op
  <1> HIDE DEF o, g
  <1>4. Leads(o, g, f)
    BY <1>2, <1>3 DEF Leads, Transfer
  <1>5. UndoToOps(RenameBack(d, s))[1] = o /\ RenameBack(d, s).kind # "MoveBack"
    BY DEF UndoToOps, RenameBack, o
  <1> QED  BY <1>4, <1>5 DEF TakesBack, g

(* What was created is recycled. *)
LEMMA CreateTakenBack ==
  ASSUME NEW f \in Files, NEW p \in Paths, f[p] = Absent
  PROVE  TakesBack(DeletePaths(<<p>>), [f EXCEPT ![p] = Empty], f)
  <1> DEFINE g == [f EXCEPT ![p] = Empty]
             o == Op("recycle", <<p>>, Absent)
  <1>1. ToSet(<<p>>) = {p}
    BY DEF ToSet
  <1>2. f = Deleted(g, {p})
    BY DEF Deleted, Files
  <1>3. o.kind = "recycle" /\ o.paths = <<p>>
    BY DEF Op
  <1> HIDE DEF o, g
  <1>4. Leads(o, g, f)
    BY <1>1, <1>2, <1>3 DEF Leads, Transfer
  <1>5. UndoToOps(DeletePaths(<<p>>))[1] = o /\ DeletePaths(<<p>>).kind # "MoveBack"
    BY DEF UndoToOps, DeletePaths, o
  <1> QED  BY <1>4, <1>5 DEF TakesBack, g

------------------------------------------------------------------------------
(* Every step keeps the types.                                             *)

(* The last element of a sequence, and those before it. *)
LEMMA FrontAndLast ==
  ASSUME NEW S, NEW s \in Seq(S), s # <<>>
  PROVE  /\ Len(s) > 0 /\ Last(s) = s[Len(s)] /\ Last(s) \in S
         /\ Front(s) \in Seq(S) /\ Len(Front(s)) = Len(s) - 1
         /\ \A k \in DOMAIN Front(s) : k \in DOMAIN s /\ Front(s)[k] = s[k]
  <1>1. Len(s) \in Nat /\ Len(s) > 0 /\ DOMAIN s = 1 .. Len(s)
    OBVIOUS
  <1>2. Last(s) = s[Len(s)] /\ Last(s) \in S
    BY <1>1 DEF Last
  <1>3. Front(s) = SubSeq(s, 1, Len(s) - 1)
    BY DEF Front
  <1>4. /\ Front(s) \in Seq(S) /\ Len(Front(s)) = Len(s) - 1
        /\ \A k \in 1 .. Len(s) - 1 : Front(s)[k] = s[k]
    BY <1>1, <1>3
  <1>5. DOMAIN Front(s) = 1 .. Len(s) - 1
    BY <1>4
  <1> QED  BY <1>1, <1>2, <1>4, <1>5

(* What undo submits. *)
LEMMA UndoOps ==
  ASSUME NEW u \in UndoActions
  PROVE  /\ UndoToOps(u) \in Seq(Operations) /\ u # NoUndo
         /\ u.kind # "MoveBack" => Len(UndoToOps(u)) = 1
  <1>1. \A o \in Operations : <<o>> \in Seq(Operations) /\ Len(<<o>>) = 1
    OBVIOUS
  <1>2. CASE u \in [kind : {"DeletePaths"}, paths : Seq(Paths)]
    <2>1. u.kind = "DeletePaths" /\ u.paths \in Seq(Paths)
      BY <1>2
    <2>2. UndoToOps(u) = <<Op("recycle", u.paths, Absent)>>
      BY <2>1 DEF UndoToOps
    <2> QED  BY <1>1, <2>1, <2>2, OpsAre DEF NoUndo
  <1>3. CASE u \in [kind : {"MoveBack"}, pairs : Seq(Paths \X Paths)]
    <2>1. u.kind = "MoveBack" /\ u.pairs \in Seq(Paths \X Paths)
      BY <1>3
    <2>2. UndoToOps(u) = [k \in DOMAIN u.pairs |->
                            Op("move", <<u.pairs[k][2]>>, FolderOf(u.pairs[k][1]))]
      BY <2>1 DEF UndoToOps
    <2>3. ASSUME NEW k \in DOMAIN u.pairs
          PROVE  Op("move", <<u.pairs[k][2]>>, FolderOf(u.pairs[k][1])) \in Operations
      <3>1. u.pairs[k] \in Paths \X Paths
        BY <2>1
      <3>2. u.pairs[k][1] \in Paths /\ u.pairs[k][2] \in Paths
        BY <3>1
      <3> QED  BY <3>2, PathFacts, OpsAre
    <2>4. DOMAIN u.pairs = 1 .. Len(u.pairs) /\ Len(u.pairs) \in Nat
      BY <2>1
    <2>5. UndoToOps(u) \in Seq(Operations)
      BY <2>2, <2>3, <2>4
    <2> QED  BY <2>1, <2>5 DEF NoUndo
  <1>4. CASE u \in [kind : {"RenameBack"}, from : Paths, to : Paths]
    <2>1. u.kind = "RenameBack" /\ u.from \in Paths /\ u.to \in Paths
      BY <1>4
    <2>2. UndoToOps(u) = <<Op("rename", <<u.from>>, u.to)>>
      BY <2>1 DEF UndoToOps
    <2> QED  BY <1>1, <2>1, <2>2, OpsAre DEF NoUndo
  <1> QED  BY <1>2, <1>3, <1>4 DEF UndoActions

(* The queue once operations have been submitted. *)
LEMMA Submitted ==
  ASSUME queue \in Seq(Queued), NEW ops \in Seq(Operations), NEW origin \in Origins,
         SubmitOrigin(ops, origin)
  PROVE  /\ queue' \in Seq(Queued)
         /\ queue = <<>> =>
              /\ Len(queue') = Len(ops)
              /\ \A k \in DOMAIN ops : queue'[k] = [op |-> ops[k], origin |-> origin]
  <1> DEFINE new == [k \in DOMAIN ops |-> [op |-> ops[k], origin |-> origin]]
  <1>1. \A k \in DOMAIN ops : [op |-> ops[k], origin |-> origin] \in Queued
    BY DEF Queued
  <1>2. /\ new \in Seq(Queued) /\ Len(new) = Len(ops)
        /\ \A k \in DOMAIN ops : new[k] = [op |-> ops[k], origin |-> origin]
    <2>1. DOMAIN ops = 1 .. Len(ops) /\ Len(ops) \in Nat
      OBVIOUS
    <2> QED  BY <1>1, <2>1
  <1>3. queue' = queue \o new
    BY DEF SubmitOrigin
  <1> HIDE DEF new
  <1>4. queue = <<>> => queue' = new
    BY <1>2, <1>3
  <1> QED  BY <1>2, <1>3, <1>4

(* What the work and its operation are. *)
LEMMA WorkFacts ==
  ASSUME work \in Work
  PROVE  /\ work # Idle /\ work.op \in Operations /\ work.origin \in Origins
         /\ work.item \in Nat \ {0} /\ work.made \in Seq(Paths \X Paths)
         /\ work.before \in Files /\ work.plain \in BOOLEAN
         /\ work.op.kind \in {"copy", "move", "rename", "create", "recycle", "restore"}
         /\ work.op.paths \in Seq(Paths) /\ Len(work.op.paths) \in Nat
         /\ Transfers <=> work.op.kind \in Transfer
         /\ work.op.kind = "rename" => work.op.dest \in Paths /\ work.op.paths[1] \in Paths
         /\ work.op.kind = "create" => work.op.paths[1] \in Paths
         /\ AtItem => /\ work.item \in 1 .. Len(work.op.paths) /\ work.op.kind \in Transfer
                      /\ Src \in Paths /\ Dst \in Paths
                      /\ Dst = <<work.op.dest, Name(Src)>>
  <1>1. work.op \in Operations /\ work.item \in Nat \ {0}
    BY DEF Work
  <1>2. /\ work.op.kind \in {"copy", "move", "rename", "create", "recycle", "restore"}
        /\ work.op.paths \in Seq(Paths)
        /\ work.op.kind \in Transfer => work.op.dest \in FileFolders
        /\ work.op.kind = "rename" => work.op.dest \in Paths /\ work.op.paths[1] \in Paths
        /\ work.op.kind = "create" => work.op.paths[1] \in Paths
    BY <1>1, OpFacts
  <1>3. work # Idle
    <2>1. Idle.op.kind = "none"
      BY DEF Idle, Op
    <2> QED  BY <1>2, <2>1
  <1>4. Transfers <=> work.op.kind \in Transfer
    BY DEF Transfers, Transfer
  <1>5. ASSUME AtItem
        PROVE  /\ work.item \in 1 .. Len(work.op.paths) /\ work.op.kind \in Transfer
               /\ Src \in Paths /\ Dst \in Paths
               /\ Dst = <<work.op.dest, Name(Src)>>
    <2>1. work.item \in 1 .. Len(work.op.paths) /\ work.op.kind \in Transfer
      BY <1>1, <1>2, <1>4, <1>5 DEF AtItem
    <2>2. Src \in Paths
      BY <1>2, <2>1 DEF Src
    <2>3. Dst \in Paths
      BY <1>2, <2>1, <2>2, PathFacts DEF Dst
    <2> QED  BY <2>1, <2>2, <2>3 DEF Dst
  <1>6. /\ work.origin \in Origins /\ work.made \in Seq(Paths \X Paths)
        /\ work.before \in Files /\ work.plain \in BOOLEAN
    BY DEF Work
  <1> QED  BY <1>1, <1>2, <1>3, <1>4, <1>5, <1>6

(* Only what has begun works. *)
LEMMA Working ==
  ASSUME FileTypeOK, work # Idle
  PROVE  work \in Work
  BY DEF FileTypeOK

(* Nor does anything else have a kind of operation. *)
LEMMA NotIdle ==
  ASSUME FileTypeOK,
         \/ Transfers \/ AtItem
         \/ work.op.kind \in {"rename", "create", "recycle", "restore"}
  PROVE  work \in Work
  <1>1. Idle.op.kind = "none"
    BY DEF Idle, Op
  <1> QED  BY <1>1 DEF FileTypeOK, Transfers, AtItem

(* A path with another name in the same folder. *)
LEMMA RenamedPath ==
  ASSUME NEW p \in Paths
  PROVE  AutoRename(p) \in Paths
  <1> DEFINE alt == Alternates[Name(p)]
             free == {k \in DOMAIN alt : ~Exists(<<FolderOf(p), alt[k]>>)}
  <1>1. alt \in Seq(FileNames) /\ FolderOf(p) \in FileFolders
    BY PathFacts, FileUndoAssumption
  <1>2. CASE free = {}
    BY <1>2 DEF AutoRename
  <1>3. CASE free # {}
    <2>1. free \subseteq Nat
      BY <1>1
    <2> DEFINE j == CHOOSE k \in free : \A i \in free : k <= i
    <2>2. \E k \in free : \A i \in free : k <= i
      BY <1>3, <2>1, Least
    <2>3. j \in free
      BY <2>2
    <2>4. AutoRename(p) = <<FolderOf(p), alt[j]>>
      BY <1>3 DEF AutoRename
    <2> HIDE DEF j
    <2>5. alt[j] \in FileNames
      BY <1>1, <2>3
    <2> QED  BY <1>1, <2>4, <2>5, PathFacts
  <1> QED  BY <1>2, <1>3

(* What is expected of undo and redo. *)
LEMMA ExpectedType ==
  ASSUME NEW e \in Entries, NEW g, NEW f \in Files
  PROVE  Expected(e, g, f) \in Expectations \cup {Anything}
  BY DEF Expected, Expectations, Entries

(* The window keeps the types. *)
LEMMA WindowTypes ==
  ASSUME FileTypeOK, (\E o \in UserOps : UserSubmit(o)) \/ Undo \/ Redo
  PROVE  FileTypeOK'
  <1>1. CASE \E o \in UserOps : UserSubmit(o)
    <2>1. PICK o \in UserOps : UserSubmit(o)
      BY <1>1
    <2>2. <<o>> \in Seq(Operations)
      BY FileUndoAssumption
    <2>3. queue' \in Seq(Queued)
      BY <2>1, <2>2, Submitted DEF UserSubmit, FileTypeOK, Origins
    <2>4. userCount' \in 0 .. MaxUser
      BY <2>1, FileUndoAssumption DEF UserSubmit, FileTypeOK
    <2> QED  BY <2>1, <2>3, <2>4 DEF UserSubmit, FileTypeOK, journalVars
  <1>2. CASE Undo
    <2> DEFINE e == Last(undoStack)
    <2>1. /\ e \in Entries /\ Front(undoStack) \in Seq(Entries)
          /\ Len(Front(undoStack)) = Len(undoStack) - 1
      BY <1>2, FrontAndLast DEF Undo, FileTypeOK
    <2>2. e.undo \in UndoActions /\ e.before \in Files
      BY <2>1 DEF Entries
    <2>3. /\ SubmitOrigin(UndoToOps(e.undo), "undo") /\ redoStack' = Append(redoStack, e)
          /\ expect' = Expected(e, e.after, e.before) /\ undoStack' = Front(undoStack)
          /\ undoCount < MaxUndo /\ undoCount' = undoCount + 1
          /\ UNCHANGED <<fs, bin, work, doneEvents, userCount>>
      BY <1>2 DEF Undo
    <2> HIDE DEF e
    <2>4. queue' \in Seq(Queued)
      BY <2>2, <2>3, UndoOps, Submitted DEF FileTypeOK, Origins
    <2>5. expect' \in Expectations \cup {Anything}
      BY <2>1, <2>2, <2>3, ExpectedType
    <2>6. /\ undoStack' \in Seq(Entries) /\ redoStack' \in Seq(Entries)
          /\ Len(undoStack') = Len(undoStack) - 1 /\ Len(redoStack') = Len(redoStack) + 1
          /\ Len(undoStack) \in Nat /\ Len(redoStack) \in Nat
      BY <2>1, <2>3 DEF FileTypeOK
    <2>7. Len(undoStack') + Len(redoStack') <= MaxDepth /\ undoCount' \in 0 .. MaxUndo
      BY <2>3, <2>6, FileUndoAssumption DEF FileTypeOK
    <2> QED  BY <2>3, <2>4, <2>5, <2>6, <2>7 DEF FileTypeOK
  <1>3. CASE Redo
    <2> DEFINE e == Last(redoStack)
    <2>1. /\ e \in Entries /\ Front(redoStack) \in Seq(Entries)
          /\ Len(Front(redoStack)) = Len(redoStack) - 1
      BY <1>3, FrontAndLast DEF Redo, FileTypeOK
    <2>2. e.redoOps \in Seq(Operations) /\ e.after \in Files
      BY <2>1 DEF Entries
    <2>3. /\ SubmitOrigin(e.redoOps, "redo") /\ undoStack' = Append(undoStack, e)
          /\ expect' = Expected(e, e.before, e.after) /\ redoStack' = Front(redoStack)
          /\ undoCount < MaxUndo /\ undoCount' = undoCount + 1
          /\ UNCHANGED <<fs, bin, work, doneEvents, userCount>>
      BY <1>3 DEF Redo
    <2> HIDE DEF e
    <2>4. queue' \in Seq(Queued)
      BY <2>2, <2>3, Submitted DEF FileTypeOK, Origins
    <2>5. expect' \in Expectations \cup {Anything}
      BY <2>1, <2>2, <2>3, ExpectedType
    <2>6. /\ undoStack' \in Seq(Entries) /\ redoStack' \in Seq(Entries)
          /\ Len(redoStack') = Len(redoStack) - 1 /\ Len(undoStack') = Len(undoStack) + 1
          /\ Len(undoStack) \in Nat /\ Len(redoStack) \in Nat
      BY <2>1, <2>3 DEF FileTypeOK
    <2>7. Len(undoStack') + Len(redoStack') <= MaxDepth /\ undoCount' \in 0 .. MaxUndo
      BY <2>3, <2>6, FileUndoAssumption DEF FileTypeOK
    <2> QED  BY <2>3, <2>4, <2>5, <2>6, <2>7 DEF FileTypeOK
  <1> QED  BY <1>1, <1>2, <1>3

(* The entry of an outcome. *)
EntryOf(r) == [undo |-> r.undo, redoOps |-> <<r.op>>, before |-> r.before,
               after |-> r.after, plain |-> r.plain]

(* An outcome is handled: it may be recorded, as the newest, and then the    *)
(* oldest may go.                                                          *)
LEMMA Handled ==
  ASSUME FileTypeOK, HandleDone
  PROVE  /\ FileTypeOK'
         /\ \A k \in DOMAIN doneEvents' : k + 1 \in DOMAIN doneEvents /\ doneEvents'[k] = doneEvents[k + 1]
         /\ \A k \in DOMAIN undoStack' :
              \/ \E i \in DOMAIN undoStack : undoStack'[k] = undoStack[i]
              \/ doneEvents[1].undo # NoUndo /\ undoStack'[k] = EntryOf(doneEvents[1])
         /\ redoStack' \in {redoStack, <<>>}
         /\ UNCHANGED <<fs, bin, queue, work, expect>>
  <1> DEFINE r == Head(doneEvents)
  <1>1. /\ doneEvents # <<>> /\ doneEvents' = Tail(doneEvents)
        /\ IF r.origin = "user" /\ r.undo # NoUndo THEN RecordEntry(EntryOf(r))
           ELSE UNCHANGED journalVars
        /\ UNCHANGED <<fs, bin, queue, work, counts, expect>>
    BY DEF HandleDone, EntryOf
  <1>2. /\ r = doneEvents[1] /\ r \in Outcomes /\ doneEvents' \in Seq(Outcomes)
        /\ \A k \in DOMAIN doneEvents' : k + 1 \in DOMAIN doneEvents /\ doneEvents'[k] = doneEvents[k + 1]
    <2>1. doneEvents \in Seq(Outcomes)
      BY DEF FileTypeOK
    <2>2. /\ Len(doneEvents) \in Nat \ {0} /\ Head(doneEvents) = doneEvents[1]
          /\ Tail(doneEvents) \in Seq(Outcomes) /\ Len(Tail(doneEvents)) = Len(doneEvents) - 1
          /\ \A k \in 1 .. Len(doneEvents) - 1 : Tail(doneEvents)[k] = doneEvents[k + 1]
      BY <1>1, <2>1
    <2>3. 1 \in DOMAIN doneEvents /\ DOMAIN doneEvents' = 1 .. Len(doneEvents) - 1
      BY <1>1, <2>1, <2>2
    <2>4. \A k \in 1 .. Len(doneEvents) - 1 : k + 1 \in DOMAIN doneEvents
      BY <2>1, <2>2
    <2> QED  BY <1>1, <2>1, <2>2, <2>3, <2>4
  <1> HIDE DEF r
  <1>3. CASE r.origin = "user" /\ r.undo # NoUndo
    <2> DEFINE e == EntryOf(r)
               longer == Append(undoStack, e)
    <2>1. e \in Entries
      <3>1. /\ r.undo \in UndoActions /\ r.op \in Operations /\ r.before \in Files
            /\ r.after \in Files /\ r.plain \in BOOLEAN
        BY <1>2, <1>3 DEF Outcomes
      <3>2. <<r.op>> \in Seq(Operations)
        BY <3>1
      <3> QED  BY <3>1, <3>2 DEF EntryOf, Entries
    <2>2. /\ undoStack' = (IF Len(longer) > MaxDepth THEN Tail(longer) ELSE longer)
          /\ redoStack' = <<>>
      BY <1>1, <1>3 DEF RecordEntry
    <2> HIDE DEF e
    <2>3. /\ longer \in Seq(Entries) /\ Len(longer) = Len(undoStack) + 1
          /\ Len(undoStack) \in Nat /\ Len(undoStack) <= MaxDepth
          /\ \A k \in DOMAIN longer : (\E i \in DOMAIN undoStack : longer[k] = undoStack[i])
                                        \/ longer[k] = e
      <3>1. undoStack \in Seq(Entries) /\ Len(undoStack) \in Nat /\ Len(redoStack) \in Nat
        BY DEF FileTypeOK
      <3>2. Len(undoStack) <= MaxDepth
        BY <3>1, FileUndoAssumption DEF FileTypeOK
      <3>3. \A k \in DOMAIN longer : (k \in DOMAIN undoStack /\ longer[k] = undoStack[k])
                                       \/ longer[k] = e
        BY <3>1
      <3> QED  BY <2>1, <3>1, <3>2, <3>3
    <2> HIDE DEF longer
    <2>4. /\ undoStack' \in Seq(Entries) /\ Len(undoStack') <= MaxDepth
          /\ \A k \in DOMAIN undoStack' : \E i \in DOMAIN longer : undoStack'[k] = longer[i]
      <3>1. CASE Len(longer) > MaxDepth
        <4>1. longer # <<>> /\ Len(longer) \in Nat /\ MaxDepth \in Nat
          BY <2>3, FileUndoAssumption
        <4>2. /\ Tail(longer) \in Seq(Entries) /\ Len(Tail(longer)) = Len(longer) - 1
              /\ \A k \in 1 .. Len(longer) - 1 : Tail(longer)[k] = longer[k + 1]
                                                 /\ k + 1 \in DOMAIN longer
          BY <2>3, <4>1
        <4>3. DOMAIN Tail(longer) = 1 .. Len(longer) - 1
          BY <4>2
        <4>4. Len(longer) - 1 <= MaxDepth
          BY <2>3, <4>1
        <4> QED  BY <2>2, <3>1, <4>2, <4>3, <4>4
      <3>2. CASE ~(Len(longer) > MaxDepth)
        <4>1. Len(longer) <= MaxDepth
          BY <2>3, <3>2, FileUndoAssumption
        <4> QED  BY <2>2, <2>3, <3>2, <4>1
      <3> QED  BY <3>1, <3>2
    <2>5. Len(undoStack') + Len(redoStack') <= MaxDepth /\ redoStack' \in Seq(Entries)
      <3>1. Len(undoStack') \in Nat /\ Len(<<>>) = 0 /\ <<>> \in Seq(Entries)
        BY <2>4
      <3> QED  BY <2>2, <2>4, <3>1
    <2>6. FileTypeOK'
      BY <1>1, <1>2, <2>4, <2>5 DEF FileTypeOK, counts
    <2>7. \A k \in DOMAIN undoStack' : (\E i \in DOMAIN undoStack : undoStack'[k] = undoStack[i])
                                          \/ undoStack'[k] = e
      BY <2>3, <2>4
    <2> QED  BY <1>1, <1>2, <1>3, <2>2, <2>6, <2>7 DEF e
  <1>4. CASE ~(r.origin = "user" /\ r.undo # NoUndo)
    BY <1>1, <1>2, <1>4 DEF journalVars, counts, FileTypeOK
  <1> QED  BY <1>3, <1>4

(* An operation is started. *)
LEMMA Started ==
  ASSUME FileTypeOK, NEW k \in DOMAIN queue, Start(k)
  PROVE  /\ FileTypeOK' /\ work' \in Work /\ work = Idle
         /\ work'.op = queue[k].op /\ work'.item = 1 /\ work'.made = <<>>
         /\ work'.before = fs /\ work'.plain
         /\ queue' = RemoveAt(queue, k) /\ queue \in Seq(Queued) /\ k \in 1 .. Len(queue)
         /\ UNCHANGED <<fs, bin, doneEvents, journalVars, counts, expect>>
  <1>1. /\ work = Idle
        /\ work' = [op |-> queue[k].op, origin |-> queue[k].origin, item |-> 1,
                    made |-> <<>>, before |-> fs, plain |-> TRUE]
        /\ queue' = RemoveAt(queue, k)
        /\ UNCHANGED <<fs, bin, doneEvents, journalVars, counts, expect>>
    BY DEF Start
  <1>2. /\ queue \in Seq(Queued) /\ k \in 1 .. Len(queue) /\ queue[k] \in Queued
    BY DEF FileTypeOK
  <1>3. queue' \in Seq(Queued)
    BY <1>1, <1>2, Removed
  <1>4. work' \in Work
    <2>1. <<>> \in Seq(Paths \X Paths) /\ 1 \in Nat \ {0}
      OBVIOUS
    <2>2. queue[k].op \in Operations /\ queue[k].origin \in Origins
      BY <1>2 DEF Queued
    <2> QED  BY <1>1, <2>1, <2>2 DEF Work, FileTypeOK
  <1>5. FileTypeOK'
    BY <1>1, <1>3, <1>4 DEF FileTypeOK, journalVars, counts
  <1> QED  BY <1>1, <1>2, <1>4, <1>5

(* A path is passed over. *)
LEMMA NextItemDone ==
  ASSUME FileTypeOK, AtItem, NEW plain \in BOOLEAN, NextItem(plain)
  PROVE  /\ FileTypeOK' /\ work' \in Work
         /\ work'.op = work.op /\ work'.item = work.item + 1 /\ work'.made = work.made
         /\ work'.before = work.before /\ work'.plain = (work.plain /\ plain)
         /\ UNCHANGED <<fs, bin, queue, doneEvents, journalVars, counts, expect>>
  <1>1. work \in Work
    BY NotIdle
  <1>2. /\ work' = [work EXCEPT !.item = @ + 1, !.plain = @ /\ plain]
        /\ UNCHANGED <<fs, bin, queue, doneEvents, journalVars, counts, expect>>
    BY DEF NextItem
  <1>3. /\ work' \in Work
        /\ work'.op = work.op /\ work'.item = work.item + 1 /\ work'.made = work.made
        /\ work'.before = work.before /\ work'.plain = (work.plain /\ plain)
    <2>1. work.item + 1 \in Nat \ {0} /\ (work.plain /\ plain) \in BOOLEAN
      BY <1>1, WorkFacts
    <2> QED  BY <1>1, <1>2, <2>1 DEF Work
  <1>4. FileTypeOK'
    BY <1>2, <1>3 DEF FileTypeOK, journalVars, counts
  <1> QED  BY <1>2, <1>3, <1>4

(* A file is put to d. *)
LEMMA PutDone ==
  ASSUME FileTypeOK, AtItem, NEW d \in Paths, NEW plain \in BOOLEAN, Put(d, plain)
  PROVE  /\ FileTypeOK' /\ work' \in Work
         /\ fs' = Placed(work.op.kind, fs, Src, d)
         /\ work'.op = work.op /\ work'.item = work.item + 1
         /\ work'.made = Append(work.made, <<Src, d>>)
         /\ work'.before = work.before /\ work'.plain = (work.plain /\ plain)
         /\ UNCHANGED <<bin, queue, doneEvents, journalVars, counts, expect>>
  <1>1. work \in Work
    BY NotIdle
  <1>2. /\ work' = [work EXCEPT !.item = @ + 1, !.plain = @ /\ plain,
                                !.made = Append(@, <<Src, d>>)]
        /\ fs' = Placed(work.op.kind, fs, Src, d)
        /\ UNCHANGED <<bin, queue, doneEvents, journalVars, counts, expect>>
    BY DEF Put, Placed
  <1>3. Src \in Paths
    BY <1>1, WorkFacts
  <1>4. /\ work' \in Work
        /\ work'.op = work.op /\ work'.item = work.item + 1
        /\ work'.made = Append(work.made, <<Src, d>>)
        /\ work'.before = work.before /\ work'.plain = (work.plain /\ plain)
    <2>1. work.item + 1 \in Nat \ {0} /\ (work.plain /\ plain) \in BOOLEAN
      BY <1>1, WorkFacts
    <2>2. Append(work.made, <<Src, d>>) \in Seq(Paths \X Paths)
      BY <1>1, <1>3, WorkFacts
    <2> QED  BY <1>1, <1>2, <2>1, <2>2 DEF Work
  <1>5. fs' \in Files
    BY <1>2, <1>3 DEF Placed, Files, FileTypeOK
  <1>6. FileTypeOK'
    BY <1>2, <1>4, <1>5 DEF FileTypeOK, journalVars, counts
  <1> QED  BY <1>2, <1>4, <1>6

(* The work ends and reports. *)
LEMMA EndsDone ==
  ASSUME FileTypeOK, work \in Work, NEW u \in UndoActions \cup {NoUndo},
         NEW after \in Files, NEW plain \in BOOLEAN, Ends(u, after, plain),
         fs' \in Files, bin' \in SUBSET (Paths \X Contents)
  PROVE  /\ FileTypeOK' /\ work' = Idle
         /\ doneEvents' = Append(doneEvents, [origin |-> work.origin, op |-> work.op,
                                        undo |-> u, before |-> work.before,
                                        after |-> after, plain |-> plain])
         /\ UNCHANGED <<queue, journalVars, counts, expect>>
  <1> DEFINE r == [origin |-> work.origin, op |-> work.op, undo |-> u,
                   before |-> work.before, after |-> after, plain |-> plain]
  <1>1. /\ work' = Idle /\ doneEvents' = Append(doneEvents, r)
        /\ UNCHANGED <<queue, journalVars, counts, expect>>
    BY DEF Ends
  <1>2. r \in Outcomes
    BY WorkFacts DEF Outcomes
  <1> HIDE DEF r
  <1>3. doneEvents' \in Seq(Outcomes)
    BY <1>1, <1>2 DEF FileTypeOK
  <1>4. FileTypeOK'
    BY <1>1, <1>3 DEF FileTypeOK, journalVars, counts
  <1> QED  BY <1>1, <1>4 DEF r

(* The end of a transfer, a renaming, a creation, a recycling, a restoring.  *)
Reported(u, after, plain) ==
  doneEvents' = Append(doneEvents, [origin |-> work.origin, op |-> work.op, undo |-> u,
                              before |-> work.before, after |-> after, plain |-> plain])
Rest == <<queue, journalVars, counts, expect>>
Swapped(f, s, d) == [f EXCEPT ![d] = f[s], ![s] = Absent]

(* A transfer ends. *)
LEMMA TransferDone ==
  ASSUME FileTypeOK, TransferEnds
  PROVE  /\ FileTypeOK' /\ work \in Work /\ work' = Idle /\ UNCHANGED <<fs, bin, Rest>>
         /\ work.op.kind \in Transfer /\ ~(work.item <= Len(work.op.paths))
         /\ \E u : /\ Reported(u, fs, work.plain)
                   /\ \/ work.op.kind = "move" /\ u = MoveBack(work.made)
                      \/ work.op.kind = "copy" /\ u = NoUndo
                      \/ work.op.kind = "copy"
                         /\ u = DeletePaths([k \in DOMAIN work.made |-> work.made[k][2]])
  <1> DEFINE dests == [k \in DOMAIN work.made |-> work.made[k][2]]
             u == IF work.op.kind = "move" THEN MoveBack(work.made)
                  ELSE IF dests = <<>> THEN NoUndo ELSE DeletePaths(dests)
  <1>1. Transfers /\ ~AtItem /\ Ends(u, fs, work.plain) /\ UNCHANGED <<fs, bin>>
    BY DEF TransferEnds
  <1>2. work \in Work
    BY <1>1, NotIdle
  <1>3. work.op.kind \in Transfer /\ ~(work.item <= Len(work.op.paths))
    BY <1>1, <1>2, WorkFacts DEF AtItem
  <1>4. work.made \in Seq(Paths \X Paths) /\ dests \in Seq(Paths)
    <2>1. work.made \in Seq(Paths \X Paths)
      BY <1>2, WorkFacts
    <2>2. \A k \in DOMAIN work.made : work.made[k] \in Paths \X Paths
      BY <2>1
    <2>3. \A k \in DOMAIN work.made : work.made[k][2] \in Paths
      BY <2>2
    <2>4. DOMAIN work.made = 1 .. Len(work.made) /\ Len(work.made) \in Nat
      BY <2>1
    <2> QED  BY <2>1, <2>3, <2>4
  <1> HIDE DEF dests
  <1>5. u \in UndoActions \cup {NoUndo}
    BY <1>4 DEF UndoActions, MoveBack, DeletePaths
  <1>6. \/ work.op.kind = "move" /\ u = MoveBack(work.made)
        \/ work.op.kind = "copy" /\ u = NoUndo
        \/ work.op.kind = "copy" /\ u = DeletePaths(dests)
    BY <1>3 DEF Transfer
  <1> HIDE DEF u
  <1>7. /\ FileTypeOK' /\ work' = Idle /\ Reported(u, fs, work.plain) /\ UNCHANGED Rest
    <2>1. /\ fs \in Files /\ fs' \in Files /\ bin' \in SUBSET (Paths \X Contents)
          /\ work.plain \in BOOLEAN
      BY <1>1, <1>2, WorkFacts DEF FileTypeOK
    <2> QED  BY <1>1, <1>2, <1>5, <2>1, EndsDone DEF Reported, Rest
  <1> QED  BY <1>1, <1>2, <1>3, <1>6, <1>7 DEF dests

(* A file is renamed. *)
LEMMA RenameDone ==
  ASSUME FileTypeOK, RunRename
  PROVE  LET from == work.op.paths[1]
             to == work.op.dest
         IN  /\ FileTypeOK' /\ work \in Work /\ work' = Idle /\ UNCHANGED <<bin, Rest>>
             /\ work.op.kind = "rename" /\ from \in Paths /\ to \in Paths /\ from # to
             /\ fs' = Swapped(fs, from, to)
             /\ \E plain \in BOOLEAN : /\ plain <=> fs[to] = Absent
                                      /\ Reported(RenameBack(to, from), fs', plain)
  <1> DEFINE from == work.op.paths[1]
             to == work.op.dest
             after == Swapped(fs, from, to)
  <1>1. /\ work.op.kind = "rename" /\ Exists(from) /\ from # to /\ fs' = after
        /\ Ends(RenameBack(to, from), after, ~Exists(to)) /\ UNCHANGED bin
    BY DEF RunRename, Swapped
  <1>2. work \in Work /\ from \in Paths /\ to \in Paths
    BY <1>1, NotIdle, WorkFacts
  <1>3. after \in Files /\ RenameBack(to, from) \in UndoActions
    BY <1>2 DEF FileTypeOK, Files, Swapped, UndoActions, RenameBack
  <1> DEFINE plain == ~Exists(to)
  <1>4. plain \in BOOLEAN /\ (plain <=> fs[to] = Absent)
        /\ Ends(RenameBack(to, from), after, plain)
    BY <1>1 DEF Exists
  <1> HIDE DEF from, to, after, plain
  <1>5. /\ FileTypeOK' /\ work' = Idle /\ UNCHANGED Rest
        /\ Reported(RenameBack(to, from), after, plain)
    <2>1. fs' \in Files /\ bin' \in SUBSET (Paths \X Contents)
      BY <1>1, <1>3 DEF FileTypeOK
    <2> QED  BY <1>1, <1>2, <1>3, <1>4, <2>1, EndsDone DEF Reported, Rest
  <1> QED  BY <1>1, <1>2, <1>4, <1>5 DEF from, to, after

(* A file or folder is created. *)
LEMMA CreateDone ==
  ASSUME FileTypeOK, RunCreate
  PROVE  LET p == work.op.paths[1]
         IN  /\ FileTypeOK' /\ work \in Work /\ work' = Idle /\ UNCHANGED <<bin, Rest>>
             /\ work.op.kind = "create" /\ p \in Paths /\ fs[p] = Absent
             /\ fs' = [fs EXCEPT ![p] = Empty]
             /\ \E plain \in BOOLEAN : Reported(DeletePaths(<<p>>), fs', plain)
  <1> DEFINE p == work.op.paths[1]
             after == [fs EXCEPT ![p] = Empty]
  <1>1. /\ work.op.kind = "create" /\ ~Exists(p) /\ fs' = after
        /\ Ends(DeletePaths(<<p>>), after, TRUE) /\ UNCHANGED bin
    BY DEF RunCreate
  <1>2. work \in Work /\ p \in Paths
    BY <1>1, NotIdle, WorkFacts
  <1>3. after \in Files /\ DeletePaths(<<p>>) \in UndoActions
    <2>1. <<p>> \in Seq(Paths)
      BY <1>2
    <2> QED  BY <1>2, <2>1, FileUndoAssumption DEF FileTypeOK, Files, UndoActions, DeletePaths
  <1> DEFINE plain == TRUE
  <1>4. plain \in BOOLEAN /\ Ends(DeletePaths(<<p>>), after, plain)
    BY <1>1
  <1> HIDE DEF p, after, plain
  <1>5. /\ FileTypeOK' /\ work' = Idle /\ UNCHANGED Rest
        /\ Reported(DeletePaths(<<p>>), after, plain)
    <2>1. fs' \in Files /\ bin' \in SUBSET (Paths \X Contents)
      BY <1>1, <1>3 DEF FileTypeOK
    <2> QED  BY <1>1, <1>2, <1>3, <1>4, <2>1, EndsDone DEF Reported, Rest
  <1> QED  BY <1>1, <1>2, <1>4, <1>5 DEF p, after, Exists

(* Files are recycled, or a recycled one is restored. *)
LEMMA BinDone ==
  ASSUME FileTypeOK, RunRecycle \/ RunRestore
  PROVE  /\ FileTypeOK' /\ work \in Work /\ work' = Idle /\ UNCHANGED Rest
         /\ \/ work.op.kind = "recycle" /\ fs' = Deleted(fs, ToSet(work.op.paths))
            \/ work.op.kind = "restore"
         /\ \E after, plain : Reported(NoUndo, after, plain)
  <1>1. CASE RunRecycle
    <2> DEFINE gone == ToSet(work.op.paths)
    <2>1. /\ work.op.kind = "recycle" /\ \A p \in gone : Exists(p)
          /\ fs' = Deleted(fs, gone) /\ bin' = bin \cup {<<p, fs[p]>> : p \in gone}
          /\ Ends(NoUndo, Deleted(fs, gone), TRUE)
      BY <1>1 DEF RunRecycle, Deleted
    <2>2. work \in Work
      BY <2>1, NotIdle
    <2>3. gone \subseteq Paths
      BY <2>2, WorkFacts DEF ToSet
    <2> HIDE DEF gone
    <2>4. Deleted(fs, gone) \in Files /\ \A p \in gone : fs[p] \in Contents
      BY <2>1, <2>3 DEF Deleted, Files, FileTypeOK, Exists
    <2>5. bin' \in SUBSET (Paths \X Contents)
      BY <2>1, <2>3, <2>4 DEF FileTypeOK
    <2>6. /\ FileTypeOK' /\ work' = Idle /\ UNCHANGED Rest
          /\ Reported(NoUndo, Deleted(fs, gone), TRUE)
      <3>1. TRUE \in BOOLEAN /\ fs' \in Files
        BY <2>1, <2>4
      <3> QED  BY <2>1, <2>2, <2>4, <2>5, <3>1, EndsDone DEF Reported, Rest
    <2> QED  BY <2>1, <2>2, <2>6 DEF gone
  <1>2. CASE RunRestore
    <2>1. PICK b \in bin : /\ fs' = [fs EXCEPT ![b[1]] = b[2]] /\ bin' = bin \ {b}
                           /\ Ends(NoUndo, [fs EXCEPT ![b[1]] = b[2]], ~Exists(b[1]))
      BY <1>2 DEF RunRestore
    <2>2. work.op.kind = "restore" /\ work \in Work
      BY <1>2, NotIdle DEF RunRestore
    <2>3. b[1] \in Paths /\ b[2] \in Contents
      <3>1. b \in Paths \X Contents
        BY DEF FileTypeOK
      <3> QED  BY <3>1
    <2> DEFINE after == [fs EXCEPT ![b[1]] = b[2]]
               plain == ~Exists(b[1])
    <2>4. /\ after \in Files /\ fs' \in Files /\ plain \in BOOLEAN
          /\ bin' \in SUBSET (Paths \X Contents)
      BY <2>1, <2>3 DEF Files, FileTypeOK
    <2>5. Ends(NoUndo, after, plain)
      BY <2>1
    <2> HIDE DEF after, plain
    <2>6. FileTypeOK' /\ work' = Idle /\ UNCHANGED Rest /\ Reported(NoUndo, after, plain)
      BY <2>2, <2>4, <2>5, EndsDone DEF Reported, Rest
    <2> QED  BY <2>2, <2>6
  <1> QED  BY <1>1, <1>2

(* The work is broken off. *)
LEMMA AbortDone ==
  ASSUME FileTypeOK, Abort
  PROVE  /\ FileTypeOK' /\ work' = Idle /\ expect' = Anything
         /\ UNCHANGED <<fs, bin, queue, doneEvents, journalVars, counts>>
  BY DEF Abort, Aborts, FileTypeOK, journalVars, counts

------------------------------------------------------------------------------
(* Every step keeps the invariant.                                         *)

(* Nothing works while the engine is idle. *)
LEMMA IdleIsNoWork == Idle \notin Work
  <1>1. Idle.op.kind = "none"
    BY DEF Idle, Op
  <1>2. \A w \in Work : w.op.kind # "none"
    BY OpFacts DEF Work
  <1> QED  BY <1>1, <1>2

(* The window neither works nor changes files. *)
Window == (\E o \in UserOps : UserSubmit(o)) \/ Undo \/ Redo \/ HandleDone

(* It leaves them alone. *)
LEMMA WindowKeeps ==
  ASSUME Window
  PROVE  UNCHANGED <<fs, work>>
  BY DEF Window, UserSubmit, Undo, Redo, HandleDone

(* The work ends. *)
Ending == TransferEnds \/ RunRename \/ RunCreate \/ RunRecycle \/ RunRestore

(* Then nothing works, and what waits goes on waiting. *)
LEMMA EndingIsIdle ==
  ASSUME FileTypeOK, Ending
  PROVE  FileTypeOK' /\ work \in Work /\ work' = Idle /\ UNCHANGED Rest
  BY TransferDone, RenameDone, CreateDone, BinDone DEF Ending

(* A conflict is answered. *)
Answering == AnswerSkip \/ AnswerOverwrite \/ AnswerKeepBoth

(* Then the work is no longer plain. *)
LEMMA AnsweredDone ==
  ASSUME FileTypeOK, Answering
  PROVE  /\ FileTypeOK' /\ work \in Work /\ work' \in Work /\ ~work'.plain
         /\ work'.op = work.op /\ AtItem /\ Src # Dst /\ fs[Dst] # Absent
         /\ UNCHANGED <<queue, doneEvents, journalVars, expect>>
  <1>1. AtItem /\ Src # Dst /\ fs[Dst] # Absent
    BY DEF Answering, AnswerSkip, AnswerOverwrite, AnswerKeepBoth, Conflict, Exists
  <1>2. work \in Work /\ Dst \in Paths /\ AutoRename(Dst) \in Paths
    BY <1>1, NotIdle, WorkFacts, RenamedPath
  <1>3. CASE AnswerSkip
    BY <1>1, <1>2, <1>3, NextItemDone DEF AnswerSkip
  <1>4. CASE AnswerOverwrite \/ AnswerKeepBoth
    <2>1. PICK d \in Paths : Put(d, FALSE)
      BY <1>2, <1>4 DEF AnswerOverwrite, AnswerKeepBoth
    <2> QED  BY <1>1, <1>2, <2>1, PutDone
  <1> QED  BY <1>3, <1>4 DEF Answering

(* Every step is one of these. *)
LEMMA NextCases ==
  ASSUME UndoNext
  PROVE  \/ Window \/ \E k \in DOMAIN queue : Start(k)
         \/ SkipOntoItself \/ PutFree \/ Answering \/ Ending \/ Abort
  BY DEF UndoNext, Engine, Window, Answering, Ending

(* Every step keeps the types. *)
LEMMA TypeStep ==
  ASSUME FileTypeOK, UndoNext
  PROVE  FileTypeOK'
  <1>1. CASE Window
    BY <1>1, WindowTypes, Handled DEF Window
  <1>2. CASE \E k \in DOMAIN queue : Start(k)
    BY <1>2, Started
  <1>3. CASE SkipOntoItself
    BY <1>3, NextItemDone DEF SkipOntoItself
  <1>4. CASE PutFree
    <2>1. Dst \in Paths
      BY <1>4, NotIdle, WorkFacts DEF PutFree
    <2> QED  BY <1>4, <2>1, PutDone DEF PutFree
  <1> QED
    BY <1>1, <1>2, <1>3, <1>4, NextCases, AnsweredDone, EndingIsIdle, AbortDone

(* Passing a path over, or putting a file where none is, is what Passed says. *)
LEMMA PlainItem ==
  ASSUME FileTypeOK, SkipOntoItself \/ PutFree
  PROVE  /\ FileTypeOK' /\ work \in Work /\ work' \in Work /\ AtItem /\ fs' \in Files
         /\ work.item \in 1 .. Len(work.op.paths) /\ work.op.kind \in Transfer
         /\ work'.op = work.op /\ work'.item = work.item + 1
         /\ work'.before = work.before /\ work'.plain = work.plain
         /\ Passed(work.op, work.item, fs, fs')
         /\ \/ Src = Dst /\ work'.made = work.made /\ fs' = fs
            \/ /\ Src # Dst /\ fs[Src] # Absent /\ fs[Dst] = Absent
               /\ work'.made = Append(work.made, <<Src, Dst>>)
               /\ fs' = Placed(work.op.kind, fs, Src, Dst)
         /\ UNCHANGED <<bin, queue, doneEvents, journalVars, counts, expect>>
  <1>1. AtItem
    BY DEF SkipOntoItself, PutFree
  <1>2. /\ work \in Work /\ work.item \in 1 .. Len(work.op.paths)
        /\ work.op.kind \in Transfer /\ Src \in Paths /\ Dst \in Paths
        /\ Dst = <<work.op.dest, Name(Src)>> /\ Src = work.op.paths[work.item]
        /\ work.plain \in BOOLEAN
    BY <1>1, NotIdle, WorkFacts DEF Src
  <1>3. CASE SkipOntoItself
    <2>1. Src = Dst /\ NextItem(TRUE)
      BY <1>3 DEF SkipOntoItself
    <2>2. /\ FileTypeOK' /\ work' \in Work
          /\ work'.op = work.op /\ work'.item = work.item + 1 /\ work'.made = work.made
          /\ work'.before = work.before /\ work'.plain = (work.plain /\ TRUE)
          /\ UNCHANGED <<fs, bin, queue, doneEvents, journalVars, counts, expect>>
      BY <1>1, <2>1, NextItemDone
    <2>3. Passed(work.op, work.item, fs, fs')
      BY <1>2, <2>1, <2>2 DEF Passed
    <2>4. work'.plain = work.plain /\ fs' \in Files
      BY <1>2, <2>2 DEF FileTypeOK
    <2> QED  BY <1>1, <1>2, <2>1, <2>2, <2>3, <2>4
  <1>4. CASE PutFree
    <2>1. Src # Dst /\ fs[Src] # Absent /\ fs[Dst] = Absent /\ Put(Dst, TRUE)
      BY <1>4 DEF PutFree, Exists
    <2>2. /\ FileTypeOK' /\ work' \in Work
          /\ fs' = Placed(work.op.kind, fs, Src, Dst)
          /\ work'.op = work.op /\ work'.item = work.item + 1
          /\ work'.made = Append(work.made, <<Src, Dst>>)
          /\ work'.before = work.before /\ work'.plain = (work.plain /\ TRUE)
          /\ UNCHANGED <<bin, queue, doneEvents, journalVars, counts, expect>>
      BY <1>1, <1>2, <2>1, PutDone
    <2>3. Passed(work.op, work.item, fs, fs')
      BY <1>2, <2>1, <2>2 DEF Passed
    <2>4. work'.plain = work.plain /\ fs' \in Files
      BY <1>2, <2>2 DEF FileTypeOK
    <2> QED  BY <1>1, <1>2, <2>1, <2>2, <2>3, <2>4
  <1> QED  BY <1>3, <1>4

(* What the work has made, while it meets no conflict. *)
LEMMA WorkStep ==
  ASSUME FileTypeOK, WorkFollows, UndoNext
  PROVE  WorkFollows'
  <1>1. CASE Window
    BY <1>1, WindowKeeps DEF WorkFollows
  <1>2. CASE \E k \in DOMAIN queue : Start(k)
    <2>1. PICK k \in DOMAIN queue : Start(k)
      BY <1>2
    <2>2. /\ work' \in Work /\ work'.item = 1 /\ work'.made = <<>> /\ work'.before = fs
          /\ fs' = fs
      BY <2>1, Started
    <2>3. fs \in Files /\ Len(work'.op.paths) \in Nat
      <3>1. work'.op \in Operations
        BY <2>2 DEF Work
      <3> QED  BY <3>1, OpFacts DEF FileTypeOK
    <2>4. Passes(work'.op, 1, fs, 1, fs) /\ Carried(work'.op, <<>>, fs, fs)
      BY <2>3, PassesNone, CarriedNone
    <2>5. 1 <= Len(work'.op.paths) + 1
      BY <2>3
    <2> QED  BY <2>2, <2>4, <2>5 DEF WorkFollows
  <1>3. CASE SkipOntoItself \/ PutFree
    <2> SUFFICES ASSUME work.plain PROVE WorkFollows'
      BY <1>3, PlainItem DEF WorkFollows
    <2>1. /\ work \in Work /\ work' \in Work /\ fs' \in Files
          /\ work.item \in 1 .. Len(work.op.paths) /\ work.op.kind \in Transfer
          /\ work'.op = work.op /\ work'.item = work.item + 1
          /\ work'.before = work.before
          /\ Passed(work.op, work.item, fs, fs') /\ AtItem
      BY <1>3, PlainItem
    <2>2. /\ Passes(work.op, 1, work.before, work.item, fs)
          /\ Carried(work.op, work.made, work.before, fs)
      BY <2>1 DEF WorkFollows
    <2>3. /\ work.op \in Operations /\ work.made \in Seq(Paths \X Paths)
          /\ work.before \in Files /\ fs \in Files /\ Len(work.op.paths) \in Nat
          /\ Src \in Paths /\ Dst = <<work.op.dest, Name(Src)>>
      BY <2>1, WorkFacts DEF FileTypeOK
    <2>4. Passes(work.op, 1, work.before, work.item + 1, fs')
      BY <2>1, <2>2, <2>3, PassesOn
    <2>5. Carried(work.op, work'.made, work.before, fs')
      <3>1. CASE Src = Dst /\ work'.made = work.made /\ fs' = fs
        BY <2>2, <3>1
      <3>2. CASE /\ Src # Dst /\ fs[Src] # Absent /\ fs[Dst] = Absent
                 /\ work'.made = Append(work.made, <<Src, Dst>>)
                 /\ fs' = Placed(work.op.kind, fs, Src, Dst)
        <4>1. Carried(work.op, Append(work.made, <<Src, Dst>>), work.before,
                      Placed(work.op.kind, fs, Src, Dst))
          <5>1. Src # Dst /\ fs[Src] # Absent /\ fs[Dst] = Absent
            BY <3>2
          <5> QED  BY <2>1, <2>2, <2>3, <5>1, CarriedOn
        <4> QED  BY <3>2, <4>1
      <3> QED  BY <1>3, <3>1, <3>2, PlainItem
    <2>6. work.item + 1 <= Len(work.op.paths) + 1
      BY <2>1, <2>3
    <2> QED  BY <2>1, <2>4, <2>5, <2>6 DEF WorkFollows
  <1>4. CASE Answering
    <2>1. /\ AtItem /\ work \in Work /\ work' \in Work /\ ~work'.plain
          /\ work'.op = work.op
      BY <1>4, AnsweredDone
    <2>2. work.op.kind \in Transfer
      BY <2>1, WorkFacts
    <2> QED  BY <2>1, <2>2 DEF WorkFollows
  <1>5. CASE Ending \/ Abort
    BY <1>5, EndingIsIdle, AbortDone, IdleIsNoWork DEF WorkFollows
  <1> QED  BY <1>1, <1>2, <1>3, <1>4, <1>5, NextCases

(* What an operation that met no conflict has done is what it leads to, and  *)
(* what it reports takes that back.                                        *)
LEMMA EndingInverts ==
  ASSUME FileTypeOK, WorkFollows, Ending,
         NEW u, NEW after, NEW plain \in BOOLEAN, Reported(u, after, plain),
         plain, u # NoUndo
  PROVE  Leads(work.op, work.before, after) /\ TakesBack(u, after, work.before)
  <1> DEFINE r(v, a, p) == [origin |-> work.origin, op |-> work.op, undo |-> v,
                            before |-> work.before, after |-> a, plain |-> p]
  <1>1. ASSUME NEW v, NEW a, NEW p, Reported(v, a, p)
        PROVE  v = u /\ a = after /\ p = plain
    <2>1. doneEvents' = Append(doneEvents, r(v, a, p)) /\ doneEvents' = Append(doneEvents, r(u, after, plain))
      BY <1>1 DEF Reported
    <2>2. doneEvents \in Seq(Outcomes)
      BY DEF FileTypeOK
    <2>3. \A x, y : Append(doneEvents, x) = Append(doneEvents, y) => x = y
      BY <2>2
    <2>4. r(v, a, p) = r(u, after, plain)
      BY <2>1, <2>3
    <2> QED  BY <2>4
  <1>2. /\ work \in Work /\ work.op \in Operations /\ work.before \in Files /\ fs \in Files
        /\ work.made \in Seq(Paths \X Paths) /\ Len(work.op.paths) \in Nat
        /\ work.item \in Nat
    BY EndingIsIdle, WorkFacts DEF FileTypeOK
  <1>3. CASE TransferEnds
    <2>1. PICK v : /\ Reported(v, fs, work.plain)
                   /\ \/ work.op.kind = "move" /\ v = MoveBack(work.made)
                      \/ work.op.kind = "copy" /\ v = NoUndo
                      \/ work.op.kind = "copy"
                         /\ v = DeletePaths([k \in DOMAIN work.made |-> work.made[k][2]])
      BY <1>3, TransferDone
    <2>2. u = v /\ after = fs /\ work.plain
      <3>1. v = u /\ fs = after /\ work.plain = plain
        BY <1>1, <2>1
      <3> QED  BY <3>1
    <2>3. work.op.kind \in Transfer /\ ~(work.item <= Len(work.op.paths))
      BY <1>3, TransferDone
    <2>4. /\ work.item <= Len(work.op.paths) + 1
          /\ Passes(work.op, 1, work.before, work.item, fs)
          /\ Carried(work.op, work.made, work.before, fs)
      BY <1>2, <2>2, <2>3 DEF WorkFollows
    <2>5. work.item = Len(work.op.paths) + 1
      BY <1>2, <2>3, <2>4
    <2>6. Leads(work.op, work.before, fs)
      BY <2>3, <2>4, <2>5 DEF Leads, Transfer
    <2>7. TakesBack(u, fs, work.before)
      BY <1>2, <2>1, <2>2, <2>4, MoveTakenBack, CopyTakenBack
    <2> QED  BY <2>2, <2>6, <2>7
  <1>4. CASE RunRename
    <2> DEFINE from == work.op.paths[1]
               to == work.op.dest
    <2>1. /\ work.op.kind = "rename" /\ from \in Paths /\ to \in Paths /\ from # to
          /\ fs' = Swapped(fs, from, to)
      BY <1>4, RenameDone
    <2>2. PICK p \in BOOLEAN : /\ p <=> fs[to] = Absent
                              /\ Reported(RenameBack(to, from), fs', p)
      BY <1>4, RenameDone
    <2>3. u = RenameBack(to, from) /\ after = fs' /\ fs[to] = Absent
      <3>1. RenameBack(to, from) = u /\ fs' = after /\ p = plain
        BY <1>1, <2>2
      <3> QED  BY <2>2, <3>1
    <2>4. work.before = fs
      BY <1>2, <2>1 DEF WorkFollows, Transfer
    <2>5. Leads(work.op, fs, fs')
      BY <2>1 DEF Leads, Swapped, Transfer
    <2>6. TakesBack(RenameBack(to, from), fs', fs)
      BY <1>2, <2>1, <2>3, RenameTakenBack DEF Swapped
    <2> QED  BY <2>3, <2>4, <2>5, <2>6
  <1>5. CASE RunCreate
    <2> DEFINE p == work.op.paths[1]
    <2>1. /\ work.op.kind = "create" /\ p \in Paths /\ fs[p] = Absent
          /\ fs' = [fs EXCEPT ![p] = Empty]
      BY <1>5, CreateDone
    <2>2. PICK b \in BOOLEAN : Reported(DeletePaths(<<p>>), fs', b)
      BY <1>5, CreateDone
    <2>3. u = DeletePaths(<<p>>) /\ after = fs'
      BY <1>1, <2>2
    <2>4. work.before = fs
      BY <1>2, <2>1 DEF WorkFollows, Transfer
    <2>5. Leads(work.op, fs, fs')
      BY <2>1 DEF Leads, Transfer
    <2>6. TakesBack(DeletePaths(<<p>>), fs', fs)
      BY <1>2, <2>1, CreateTakenBack
    <2> QED  BY <2>3, <2>4, <2>5, <2>6
  <1>6. CASE RunRecycle \/ RunRestore
    BY <1>1, <1>6, BinDone
  <1> QED  BY <1>3, <1>4, <1>5, <1>6 DEF Ending

(* Outcomes, until they are handled. *)
LEMMA ResultsStep ==
  ASSUME FileTypeOK, WorkFollows, ResultsInvert, UndoNext
  PROVE  ResultsInvert'
  <1>1. CASE Ending
    <2>1. PICK u, after, plain : Reported(u, after, plain)
      BY <1>1, TransferDone, RenameDone, CreateDone, BinDone DEF Ending
    <2> DEFINE r == [origin |-> work.origin, op |-> work.op, undo |-> u,
                     before |-> work.before, after |-> after, plain |-> plain]
    <2>2. doneEvents' = Append(doneEvents, r)
      BY <2>1 DEF Reported
    <2>3. doneEvents \in Seq(Outcomes) /\ doneEvents' \in Seq(Outcomes)
      BY <1>1, EndingIsIdle DEF FileTypeOK
    <2>4. r \in Outcomes
      <3> HIDE DEF r
      <3>1. Len(doneEvents) + 1 \in DOMAIN doneEvents' /\ doneEvents'[Len(doneEvents) + 1] = r
        BY <2>2, <2>3
      <3> QED  BY <2>3, <3>1
    <2>5. plain \in BOOLEAN
      <3>1. r.plain = plain /\ r.plain \in BOOLEAN
        <4>1. \A o \in Outcomes : o.plain \in BOOLEAN
          BY DEF Outcomes
        <4>2. r.plain \in BOOLEAN
          BY <2>4, <4>1
        <4> QED  BY <4>2
      <3> QED  BY <3>1
    <2>6. OutcomeInverts(r)
      <3>1. CASE plain /\ u # NoUndo
        <4>1. Leads(work.op, work.before, after) /\ TakesBack(u, after, work.before)
          BY <1>1, <2>1, <2>5, <3>1, EndingInverts
        <4> QED  BY <4>1 DEF OutcomeInverts
      <3>2. CASE ~(plain /\ u # NoUndo)
        BY <3>2 DEF OutcomeInverts
      <3> QED  BY <3>1, <3>2
    <2> HIDE DEF r
    <2>7. \A k \in DOMAIN doneEvents' : (k \in DOMAIN doneEvents /\ doneEvents'[k] = doneEvents[k])
                                       \/ doneEvents'[k] = r
      BY <2>2, <2>3
    <2> QED  BY <2>6, <2>7 DEF ResultsInvert
  <1>2. CASE HandleDone
    BY <1>2, Handled DEF ResultsInvert
  <1>3. CASE ~Ending /\ ~HandleDone
    <2>1. UNCHANGED doneEvents
      <3>1. CASE Window
        BY <1>3, <3>1 DEF Window, UserSubmit, Undo, Redo
      <3>2. CASE \E k \in DOMAIN queue : Start(k)
        BY <3>2 DEF Start
      <3> QED  BY <1>3, <3>1, <3>2, NextCases, PlainItem, AnsweredDone, AbortDone
    <2> QED  BY <2>1 DEF ResultsInvert
  <1> QED  BY <1>1, <1>2, <1>3

(* The journal. *)
LEMMA JournalStep ==
  ASSUME FileTypeOK, ResultsInvert, JournalInverts, UndoNext
  PROVE  JournalInverts'
  <1>1. CASE Undo
    <2>1. /\ undoStack # <<>> /\ undoStack' = Front(undoStack)
          /\ redoStack' = Append(redoStack, Last(undoStack))
      BY <1>1 DEF Undo
    <2>2. undoStack \in Seq(Entries) /\ redoStack \in Seq(Entries)
      BY DEF FileTypeOK
    <2>3. /\ Last(undoStack) = undoStack[Len(undoStack)]
          /\ Len(undoStack) \in DOMAIN undoStack /\ Last(undoStack) \in Entries
          /\ \A k \in DOMAIN undoStack' : k \in DOMAIN undoStack /\ undoStack'[k] = undoStack[k]
      BY <2>1, <2>2, FrontAndLast
    <2>4. \A k \in DOMAIN redoStack' : (k \in DOMAIN redoStack /\ redoStack'[k] = redoStack[k])
                                         \/ redoStack'[k] = Last(undoStack)
      BY <2>1, <2>2, <2>3
    <2> QED  BY <2>3, <2>4 DEF JournalInverts
  <1>2. CASE Redo
    <2>1. /\ redoStack # <<>> /\ redoStack' = Front(redoStack)
          /\ undoStack' = Append(undoStack, Last(redoStack))
      BY <1>2 DEF Redo
    <2>2. undoStack \in Seq(Entries) /\ redoStack \in Seq(Entries)
      BY DEF FileTypeOK
    <2>3. /\ Last(redoStack) = redoStack[Len(redoStack)]
          /\ Len(redoStack) \in DOMAIN redoStack /\ Last(redoStack) \in Entries
          /\ \A k \in DOMAIN redoStack' : k \in DOMAIN redoStack /\ redoStack'[k] = redoStack[k]
      BY <2>1, <2>2, FrontAndLast
    <2>4. \A k \in DOMAIN undoStack' : (k \in DOMAIN undoStack /\ undoStack'[k] = undoStack[k])
                                         \/ undoStack'[k] = Last(redoStack)
      BY <2>1, <2>2, <2>3
    <2> QED  BY <2>3, <2>4 DEF JournalInverts
  <1>3. CASE HandleDone
    <2> DEFINE r == doneEvents[1]
    <2>1. doneEvents # <<>> /\ doneEvents \in Seq(Outcomes)
      BY <1>3 DEF HandleDone, FileTypeOK
    <2>2. 1 \in DOMAIN doneEvents
      BY <2>1
    <2>3. OutcomeInverts(r)
      BY <2>2 DEF ResultsInvert
    <2> HIDE DEF r
    <2>4. r.undo # NoUndo => Inverts(EntryOf(r))
      <3>1. <<r.op>>[1] = r.op /\ Len(<<r.op>>) = 1
        OBVIOUS
      <3> QED  BY <2>3, <3>1 DEF OutcomeInverts, Inverts, EntryOf
    <2>5. /\ \A k \in DOMAIN undoStack' :
               \/ \E i \in DOMAIN undoStack : undoStack'[k] = undoStack[i]
               \/ r.undo # NoUndo /\ undoStack'[k] = EntryOf(r)
          /\ redoStack' \in {redoStack, <<>>}
      BY <1>3, Handled DEF r
    <2>6. \A k \in DOMAIN undoStack' : Inverts(undoStack'[k])
      BY <2>4, <2>5 DEF JournalInverts
    <2>7. \A k \in DOMAIN redoStack' : Inverts(redoStack'[k])
      BY <2>5 DEF JournalInverts
    <2> QED  BY <2>6, <2>7 DEF JournalInverts
  <1>4. CASE ~Undo /\ ~Redo /\ ~HandleDone
    <2>1. UNCHANGED journalVars
      <3>1. CASE Window
        BY <1>4, <3>1 DEF Window, UserSubmit
      <3>2. CASE \E k \in DOMAIN queue : Start(k)
        BY <3>2 DEF Start
      <3>3. CASE Ending
        BY <3>3, EndingIsIdle DEF Rest
      <3> QED  BY <3>1, <3>2, <3>3, NextCases, PlainItem, AnsweredDone, AbortDone
    <2> QED  BY <2>1 DEF JournalInverts, journalVars
  <1> QED  BY <1>1, <1>2, <1>3, <1>4

(* Undo is pressed: what it submits leads back, if it can be known. *)
LEMMA UndoPressed ==
  ASSUME FileTypeOK, JournalInverts, Undo
  PROVE  UndoLeads'
  <1> SUFFICES ASSUME expect'.known, expect'.plain
               PROVE  OneLeads' \/ MovesLead'
    BY DEF UndoLeads
  <1> DEFINE e == Last(undoStack)
  <1>1. /\ undoStack # <<>> /\ SubmitOrigin(UndoToOps(e.undo), "undo")
        /\ expect' = Expected(e, e.after, e.before) /\ UNCHANGED <<fs, work>>
    BY DEF Undo
  <1>2. e \in Entries /\ Inverts(e)
    <2>1. undoStack \in Seq(Entries)
      BY DEF FileTypeOK
    <2>2. e = undoStack[Len(undoStack)] /\ Len(undoStack) \in DOMAIN undoStack /\ e \in Entries
      BY <1>1, <2>1, FrontAndLast
    <2> QED  BY <2>2 DEF JournalInverts
  <1> HIDE DEF e
  <1> DEFINE ops == UndoToOps(e.undo)
  <1>3. ops \in Seq(Operations) /\ (e.undo.kind # "MoveBack" => Len(ops) = 1)
    BY <1>2, UndoOps DEF Entries
  <1>4. /\ Settled /\ fs = e.after /\ expect'.fs = e.before /\ e.plain
    <2>1. Settled /\ fs = e.after
      BY <1>1 DEF Expected, Anything
    <2>2. expect' = [known |-> TRUE, fs |-> e.before, plain |-> e.plain]
      BY <1>1, <2>1 DEF Expected
    <2> QED  BY <2>1, <2>2
  <1>5. TakesBack(e.undo, fs, expect'.fs)
    BY <1>2, <1>4 DEF Inverts
  <1>6. queue = <<>> /\ work' = Idle
    BY <1>1, <1>4 DEF Settled
  <1>7. /\ queue' \in Seq(Queued) /\ Len(queue') = Len(ops)
        /\ \A k \in DOMAIN ops : queue'[k] = [op |-> ops[k], origin |-> "undo"]
    <2>1. queue \in Seq(Queued) /\ "undo" \in Origins
      BY DEF FileTypeOK, Origins
    <2>2. SubmitOrigin(ops, "undo")
      BY <1>1
    <2> HIDE DEF ops
    <2> QED  BY <1>3, <1>6, <2>1, <2>2, Submitted
  <1>8. CASE e.undo.kind = "MoveBack"
    <2>1. /\ \A k, l \in DOMAIN ops : ops[k] = ops[l] => k = l
          /\ Returns({ops[k] : k \in DOMAIN ops}, fs, expect'.fs)
      BY <1>5, <1>8 DEF TakesBack
    <2> HIDE DEF ops
    <2>2. DOMAIN queue' = DOMAIN ops /\ \A k \in DOMAIN ops : queue'[k].op = ops[k]
      <3>1. DOMAIN queue' = 1 .. Len(queue') /\ DOMAIN ops = 1 .. Len(ops)
        BY <1>3, <1>7
      <3> QED  BY <1>7, <3>1
    <2>3. Waiting' = {ops[k] : k \in DOMAIN ops} /\ Moving' = {}
      BY <1>6, <2>2 DEF Waiting, Moving
    <2>4. Waiting' \cup Moving' = {ops[k] : k \in DOMAIN ops} /\ Waiting' \cap Moving' = {}
      BY <2>3
    <2>5. Returns(Waiting' \cup Moving', fs', expect'.fs)
      BY <1>1, <2>1, <2>4
    <2>6. \A k, l \in DOMAIN queue' : queue'[k].op = queue'[l].op => k = l
      BY <2>1, <2>2
    <2>7. work' \notin Work
      BY <1>6, IdleIsNoWork
    <2> QED  BY <2>4, <2>5, <2>6, <2>7 DEF MovesLead
  <1>9. CASE e.undo.kind # "MoveBack"
    <2>1. Len(ops) = 1 /\ Leads(ops[1], fs, expect'.fs)
      BY <1>3, <1>5, <1>9 DEF TakesBack
    <2> HIDE DEF ops
    <2>2. Len(queue') = 1 /\ queue'[1].op = ops[1]
      <3>1. 1 \in DOMAIN ops
        BY <1>3, <2>1
      <3>2. queue'[1] = [op |-> ops[1], origin |-> "undo"]
        BY <1>7, <3>1
      <3> QED  BY <1>7, <2>1, <3>2
    <2>3. OneLeads'
      BY <1>1, <1>6, <2>1, <2>2 DEF OneLeads
    <2> QED  BY <2>3
  <1> QED  BY <1>8, <1>9

(* Redo is pressed. *)
LEMMA RedoPressed ==
  ASSUME FileTypeOK, JournalInverts, Redo
  PROVE  UndoLeads'
  <1> SUFFICES ASSUME expect'.known, expect'.plain
               PROVE  OneLeads' \/ MovesLead'
    BY DEF UndoLeads
  <1> DEFINE e == Last(redoStack)
  <1>1. /\ redoStack # <<>> /\ SubmitOrigin(e.redoOps, "redo")
        /\ expect' = Expected(e, e.before, e.after) /\ UNCHANGED <<fs, work>>
    BY DEF Redo
  <1>2. e \in Entries /\ Inverts(e)
    <2>1. redoStack \in Seq(Entries)
      BY DEF FileTypeOK
    <2>2. e = redoStack[Len(redoStack)] /\ Len(redoStack) \in DOMAIN redoStack /\ e \in Entries
      BY <1>1, <2>1, FrontAndLast
    <2> QED  BY <2>2 DEF JournalInverts
  <1> HIDE DEF e
  <1>3. e.redoOps \in Seq(Operations) /\ Len(e.redoOps) = 1
    BY <1>2 DEF Entries, Inverts
  <1>4. /\ Settled /\ fs = e.before /\ expect'.fs = e.after /\ e.plain
    <2>1. Settled /\ fs = e.before
      BY <1>1 DEF Expected, Anything
    <2>2. expect' = [known |-> TRUE, fs |-> e.after, plain |-> e.plain]
      BY <1>1, <2>1 DEF Expected
    <2> QED  BY <2>1, <2>2
  <1>5. Leads(e.redoOps[1], fs, expect'.fs)
    BY <1>2, <1>4 DEF Inverts
  <1>6. queue = <<>> /\ work' = Idle
    BY <1>1, <1>4 DEF Settled
  <1>7. /\ Len(queue') = Len(e.redoOps)
        /\ \A k \in DOMAIN e.redoOps : queue'[k] = [op |-> e.redoOps[k], origin |-> "redo"]
    <2>1. queue \in Seq(Queued) /\ "redo" \in Origins
      BY DEF FileTypeOK, Origins
    <2> QED  BY <1>1, <1>3, <1>6, <2>1, Submitted
  <1>8. Len(queue') = 1 /\ queue'[1].op = e.redoOps[1]
    <2>1. 1 \in DOMAIN e.redoOps
      BY <1>3
    <2>2. queue'[1] = [op |-> e.redoOps[1], origin |-> "redo"]
      BY <1>7, <2>1
    <2> QED  BY <1>3, <1>7, <2>2
  <1>9. OneLeads'
    BY <1>1, <1>5, <1>6, <1>8 DEF OneLeads
  <1> QED  BY <1>9

(* What is waited for is started. *)
LEMMA UndoStarted ==
  ASSUME FileTypeOK, UndoLeads, NEW k \in DOMAIN queue, Start(k)
  PROVE  UndoLeads'
  <1>1. /\ work' \in Work /\ work = Idle /\ work'.op = queue[k].op /\ work'.item = 1
        /\ queue' = RemoveAt(queue, k) /\ queue \in Seq(Queued) /\ k \in 1 .. Len(queue)
        /\ UNCHANGED <<fs, expect>>
    BY Started
  <1> SUFFICES ASSUME expect.known, expect.plain
               PROVE  OneLeads' \/ MovesLead'
    BY <1>1 DEF UndoLeads
  <1>2. /\ queue' \in Seq(Queued) /\ Len(queue') = Len(queue) - 1
        /\ \A i \in 1 .. Len(queue) - 1 : queue'[i] = queue[IF i < k THEN i ELSE i + 1]
    BY <1>1, Removed
  <1>3. work' # Idle
    BY <1>1, IdleIsNoWork
  <1>4. CASE OneLeads
    <2>1. Len(queue) = 1 /\ Leads(queue[1].op, fs, expect.fs) /\ k = 1
      BY <1>1, <1>4, IdleIsNoWork DEF OneLeads
    <2>2. queue' = <<>>
      BY <1>2, <2>1
    <2>3. Len(work'.op.paths) \in Nat
      BY <1>1, OpFacts DEF Work
    <2>4. Leads(work'.op, fs', expect'.fs)
      BY <1>1, <2>1
    <2>5. work'.op.kind \in Transfer =>
            /\ 1 <= Len(work'.op.paths) + 1
            /\ Passes(work'.op, 1, fs', Len(work'.op.paths) + 1, expect'.fs)
      BY <2>3, <2>4 DEF Leads
    <2>6. OneLeads'
      BY <1>1, <2>2, <2>4, <2>5 DEF OneLeads
    <2> QED  BY <2>6
  <1>5. CASE MovesLead
    <2> DEFINE o == queue[k].op
    <2>1. /\ \A i, j \in DOMAIN queue : queue[i].op = queue[j].op => i = j
          /\ Returns(Waiting, fs, expect.fs)
      <3>1. Waiting \cup Moving = Waiting
        BY <1>1 DEF Moving
      <3> QED  BY <1>5, <3>1 DEF MovesLead
    <2>2. DOMAIN queue = 1 .. Len(queue) /\ DOMAIN queue' = 1 .. Len(queue) - 1
          /\ Len(queue) \in Nat
      BY <1>1, <1>2
    <2>3. ASSUME NEW i \in DOMAIN queue'
          PROVE  /\ (IF i < k THEN i ELSE i + 1) \in DOMAIN queue
                 /\ (IF i < k THEN i ELSE i + 1) # k
                 /\ queue'[i] = queue[IF i < k THEN i ELSE i + 1]
      BY <1>1, <1>2, <2>2
    <2>4. \A i, j \in DOMAIN queue' : queue'[i].op = queue'[j].op => i = j
      <3> SUFFICES ASSUME NEW i \in DOMAIN queue', NEW j \in DOMAIN queue',
                          queue'[i].op = queue'[j].op
                   PROVE  i = j
        OBVIOUS
      <3>1. (IF i < k THEN i ELSE i + 1) = (IF j < k THEN j ELSE j + 1)
        BY <2>1, <2>3
      <3>2. i \in Nat /\ j \in Nat /\ k \in Nat
        BY <1>1, <2>2
      <3> QED  BY <3>1, <3>2
    <2>5. Waiting' = Waiting \ {o}
      <3>1. \A i \in DOMAIN queue' : queue'[i].op \in Waiting \ {o}
        BY <2>1, <2>3 DEF Waiting
      <3>2. ASSUME NEW q \in Waiting \ {o}
            PROVE  \E i \in DOMAIN queue' : queue'[i].op = q
        <4>1. PICK j \in DOMAIN queue : queue[j].op = q /\ j # k
          BY DEF Waiting
        <4>2. CASE j < k
          <5>1. j \in DOMAIN queue' /\ queue'[j] = queue[j]
            BY <1>1, <1>2, <2>2, <4>2
          <5> QED  BY <4>1, <5>1
        <4>3. CASE j > k
          <5>1. j - 1 \in DOMAIN queue' /\ queue'[j - 1] = queue[j]
            BY <1>1, <1>2, <2>2, <4>3
          <5> QED  BY <4>1, <5>1
        <4>4. j < k \/ j > k
          BY <1>1, <2>2, <4>1
        <4> QED  BY <4>2, <4>3, <4>4
      <3> QED  BY <3>1, <3>2 DEF Waiting
    <2>6. Moving' = {o} /\ o \in Waiting
      BY <1>1, <1>3 DEF Moving, Waiting
    <2>7. Waiting' \cup Moving' = Waiting /\ Waiting' \cap Moving' = {}
      BY <2>5, <2>6
    <2>8. Returns(Waiting' \cup Moving', fs', expect'.fs)
      BY <1>1, <2>1, <2>7
    <2>9. work'.op.kind = "move" /\ Len(work'.op.paths) = 1
      BY <1>1, <2>1, <2>6 DEF Returns
    <2>10. MovesLead'
      BY <1>1, <2>4, <2>7, <2>8, <2>9 DEF MovesLead
    <2> QED  BY <2>10
  <1> QED  BY <1>4, <1>5 DEF UndoLeads

(* While a move takes files back, its one path is the one it works at. *)
LEMMA MovingAtItem ==
  ASSUME FileTypeOK, MovesLead, AtItem
  PROVE  /\ work.op \in Operations /\ work.op.kind = "move" /\ work.item = 1
         /\ Moving = {work.op} /\ Src = Whence(work.op) /\ Dst = Whither(work.op)
         /\ Waiting \subseteq Operations
         /\ Returns(Waiting \cup {work.op}, fs, expect.fs) /\ work.op \notin Waiting
  <1>1. work \in Work
    BY NotIdle
  <1>2. /\ work.op \in Operations /\ work.op.kind = "move" /\ Len(work.op.paths) = 1
        /\ work # Idle
    BY <1>1, WorkFacts DEF MovesLead
  <1>3. work.item = 1
    BY <1>1, <1>2, WorkFacts
  <1>4. Moving = {work.op}
    BY <1>2, <1>3 DEF Moving
  <1>5. Src = Whence(work.op) /\ Dst = Whither(work.op)
    BY <1>3 DEF Src, Dst, Whence, Whither
  <1>6. Waiting \subseteq Operations
    <2>1. \A k \in DOMAIN queue : queue[k] \in Queued
      BY DEF FileTypeOK
    <2> QED  BY <2>1 DEF Waiting, Queued
  <1> QED  BY <1>2, <1>3, <1>4, <1>5, <1>6 DEF MovesLead

(* One operation is at a path: what has to happen to it is known. *)
LEMMA LeadingAtItem ==
  ASSUME FileTypeOK, OneLeads, AtItem
  PROVE  /\ queue = <<>> /\ work \in Work /\ work.item \in 1 .. Len(work.op.paths)
         /\ work.op.kind \in Transfer /\ Len(work.op.paths) \in Nat
         /\ \E e \in Files : /\ Passed(work.op, work.item, fs, e)
                             /\ Passes(work.op, work.item + 1, e,
                                       Len(work.op.paths) + 1, expect.fs)
  <1>1. /\ work \in Work /\ work # Idle /\ work.item \in 1 .. Len(work.op.paths)
        /\ work.op.kind \in Transfer /\ Len(work.op.paths) \in Nat
    BY NotIdle, WorkFacts
  <1>2. queue = <<>> /\ Passes(work.op, work.item, fs, Len(work.op.paths) + 1, expect.fs)
    BY <1>1 DEF OneLeads
  <1>3. expect.fs \in Files
    <2>1. PICK h \in [Nat -> Files] : h[Len(work.op.paths) + 1] = expect.fs
      BY <1>2 DEF Passes
    <2> QED  BY <1>1, <2>1
  <1>4. /\ work.item \in Nat /\ Len(work.op.paths) + 1 \in Nat
        /\ work.item < Len(work.op.paths) + 1 /\ fs \in Files
    BY <1>1 DEF FileTypeOK
  <1> QED  BY <1>1, <1>2, <1>3, <1>4, PassesFrom

(* A path without a conflict. *)
LEMMA UndoPasses ==
  ASSUME FileTypeOK, UndoLeads, SkipOntoItself \/ PutFree
  PROVE  UndoLeads'
  <1>1. /\ work \in Work /\ work' \in Work /\ AtItem
        /\ work'.op = work.op /\ work'.item = work.item + 1
        /\ Passed(work.op, work.item, fs, fs')
        /\ \/ Src = Dst /\ fs' = fs
           \/ Src # Dst /\ fs' = Placed(work.op.kind, fs, Src, Dst)
        /\ UNCHANGED <<queue, expect>>
    BY PlainItem
  <1> SUFFICES ASSUME expect.known, expect.plain
               PROVE  OneLeads' \/ MovesLead'
    BY <1>1 DEF UndoLeads
  <1>2. CASE OneLeads
    <2>1. PICK e \in Files : /\ Passed(work.op, work.item, fs, e)
                             /\ Passes(work.op, work.item + 1, e,
                                       Len(work.op.paths) + 1, expect.fs)
      BY <1>1, <1>2, LeadingAtItem
    <2>2. e = fs'
      BY <1>1, <2>1 DEF Passed
    <2>3. /\ queue = <<>> /\ work.item + 1 <= Len(work.op.paths) + 1
          /\ work.op.kind \in Transfer
      BY <1>1, <1>2, LeadingAtItem
    <2>4. OneLeads'
      BY <1>1, <2>1, <2>2, <2>3 DEF OneLeads
    <2> QED  BY <2>4
  <1>3. CASE MovesLead
    <2> DEFINE o == work.op
    <2>1. /\ o \in Operations /\ o.kind = "move" /\ work.item = 1
          /\ Src = Whence(o) /\ Dst = Whither(o)
          /\ Waiting \subseteq Operations
          /\ Returns(Waiting \cup {o}, fs, expect.fs) /\ o \notin Waiting
      BY <1>1, <1>3, MovingAtItem
    <2> HIDE DEF o
    <2>2. fs \in Files /\ expect.fs \in Files
      <3>1. expect \in Expectations
        BY DEF FileTypeOK, Anything
      <3> QED  BY <3>1 DEF FileTypeOK, Expectations
    <2>3. /\ Whence(o) # Whither(o)
          /\ Returns((Waiting \cup {o}) \ {o}, Placed("move", fs, Whence(o), Whither(o)),
                     expect.fs)
      BY <2>1, <2>2, ReturnsOn
    <2>4. fs' = Placed("move", fs, Whence(o), Whither(o))
      BY <1>1, <2>1, <2>3 DEF o
    <2>5. (Waiting \cup {o}) \ {o} = Waiting
      BY <2>1
    <2>6. Waiting' = Waiting /\ Moving' = {}
      <3>1. Waiting' = Waiting
        BY <1>1 DEF Waiting
      <3>2. work'.item = 2
        BY <1>1, <2>1
      <3> QED  BY <3>1, <3>2 DEF Moving
    <2>7. Waiting' \cup Moving' = Waiting /\ Waiting' \cap Moving' = {}
      BY <2>6
    <2>8. Returns(Waiting' \cup Moving', fs', expect'.fs)
      BY <1>1, <2>3, <2>4, <2>5, <2>7
    <2>9. /\ work'.op.kind = "move" /\ Len(work'.op.paths) = 1 /\ work'.item \in {1, 2}
      BY <1>1, <1>3, <2>1 DEF MovesLead, o
    <2>10. MovesLead'
      BY <1>1, <1>3, <2>7, <2>8, <2>9 DEF MovesLead
    <2> QED  BY <2>10
  <1> QED  BY <1>2, <1>3 DEF UndoLeads

(* No conflict is met while what is waited for is known. *)
LEMMA NoConflictMet ==
  ASSUME FileTypeOK, UndoLeads, Answering
  PROVE  UndoLeads'
  <1>1. /\ AtItem /\ work \in Work /\ Src # Dst /\ fs[Dst] # Absent /\ UNCHANGED expect
    BY AnsweredDone
  <1> SUFFICES ASSUME expect.known, expect.plain
               PROVE  FALSE
    BY <1>1 DEF UndoLeads
  <1>2. CASE OneLeads
    <2>1. PICK e \in Files : Passed(work.op, work.item, fs, e)
      BY <1>1, <1>2, LeadingAtItem
    <2>2. Src = Dst \/ fs[Dst] = Absent
      BY <2>1 DEF Passed, Src, Dst
    <2> QED  BY <1>1, <2>2
  <1>3. CASE MovesLead
    <2>1. Dst = Whither(work.op) /\ Returns(Waiting \cup {work.op}, fs, expect.fs)
      BY <1>1, <1>3, MovingAtItem
    <2>2. fs[Whither(work.op)] = Absent
      BY <2>1 DEF Returns
    <2> QED  BY <1>1, <2>1, <2>2
  <1> QED  BY <1>2, <1>3 DEF UndoLeads

(* An operation ends as expected. *)
LEMMA UndoEnds ==
  ASSUME FileTypeOK, UndoLeads, Ending
  PROVE  UndoLeads'
  <1>1. /\ work \in Work /\ work # Idle /\ work' = Idle /\ UNCHANGED <<queue, expect>>
    BY EndingIsIdle, IdleIsNoWork DEF Rest
  <1> SUFFICES ASSUME expect.known, expect.plain
               PROVE  OneLeads' \/ MovesLead'
    BY <1>1 DEF UndoLeads
  <1>2. CASE OneLeads
    <2>1. /\ queue = <<>>
          /\ work.op.kind \notin Transfer => Leads(work.op, fs, expect.fs)
          /\ work.op.kind \in Transfer =>
               /\ work.item <= Len(work.op.paths) + 1
               /\ Passes(work.op, work.item, fs, Len(work.op.paths) + 1, expect.fs)
      BY <1>1, <1>2 DEF OneLeads
    <2>2. fs' = expect.fs
      <3>1. CASE TransferEnds
        <4>1. work.op.kind \in Transfer /\ ~(work.item <= Len(work.op.paths)) /\ fs' = fs
          BY <3>1, TransferDone
        <4>2. work.item \in Nat /\ Len(work.op.paths) \in Nat
          BY <1>1, WorkFacts
        <4>3. work.item = Len(work.op.paths) + 1
          BY <2>1, <4>1, <4>2
        <4> QED  BY <2>1, <4>1, <4>3, PassesEnd
      <3>2. CASE RunRename
        BY <2>1, <3>2, RenameDone DEF Leads, Swapped, Transfer
      <3>3. CASE RunCreate
        BY <2>1, <3>3, CreateDone DEF Leads, Transfer
      <3>4. CASE RunRecycle \/ RunRestore
        <4>1. \/ work.op.kind = "recycle" /\ fs' = Deleted(fs, ToSet(work.op.paths))
              \/ work.op.kind = "restore"
          BY <3>4, BinDone
        <4>2. work.op.kind \notin Transfer
          BY <4>1 DEF Transfer
        <4> QED  BY <2>1, <4>1, <4>2 DEF Leads
      <3> QED  BY <3>1, <3>2, <3>3, <3>4 DEF Ending
    <2>3. OneLeads'
      BY <1>1, <2>1, <2>2 DEF OneLeads
    <2> QED  BY <2>3
  <1>3. CASE MovesLead
    <2>1. work.op.kind = "move" /\ Len(work.op.paths) = 1 /\ work.item \in {1, 2}
      BY <1>1, <1>3 DEF MovesLead
    <2>2. TransferEnds
      <3>1. ~RunRename /\ ~RunCreate /\ ~RunRecycle /\ ~RunRestore
        BY <2>1 DEF RunRename, RunCreate, RunRecycle, RunRestore
      <3> QED  BY <3>1 DEF Ending
    <2>3. work.item = 2 /\ fs' = fs
      BY <2>1, <2>2, TransferDone
    <2>4. Waiting' = Waiting /\ Moving' = {} /\ Moving = {}
      <3>1. Waiting' = Waiting
        BY <1>1 DEF Waiting
      <3>2. Moving = {} /\ Moving' = {}
        BY <1>1, <2>3 DEF Moving
      <3> QED  BY <3>1, <3>2
    <2>5. work' \notin Work
      BY <1>1, IdleIsNoWork
    <2>6. Waiting' \cup Moving' = Waiting \cup Moving /\ Waiting' \cap Moving' = {}
      BY <2>4
    <2>7. Returns(Waiting' \cup Moving', fs', expect'.fs)
      BY <1>1, <1>3, <2>3, <2>6 DEF MovesLead
    <2>8. MovesLead'
      BY <1>1, <1>3, <2>5, <2>6, <2>7 DEF MovesLead
    <2> QED  BY <2>8
  <1> QED  BY <1>2, <1>3 DEF UndoLeads

(* Undo and redo lead where they should. *)
LEMMA LeadsStep ==
  ASSUME FileTypeOK, JournalInverts, UndoLeads, UndoNext
  PROVE  UndoLeads'
  <1>1. CASE \E o \in UserOps : UserSubmit(o)
    BY <1>1 DEF UserSubmit, UndoLeads, Anything
  <1>2. CASE HandleDone
    <2>1. UNCHANGED <<fs, queue, work, expect>>
      BY <1>2 DEF HandleDone
    <2> QED  BY <2>1 DEF UndoLeads, OneLeads, MovesLead, Waiting, Moving
  <1>3. CASE Abort
    BY <1>3, AbortDone DEF UndoLeads, Anything
  <1> QED
    BY <1>1, <1>2, <1>3, NextCases, UndoPressed, RedoPressed, UndoStarted, UndoPasses,
       NoConflictMet, UndoEnds DEF Window

(* Every step keeps the invariant. *)
LEMMA FileUndoStep ==
  ASSUME FileUndoInv, [UndoNext]_undoVars
  PROVE  FileUndoInv'
  <1>1. CASE UndoNext
    BY <1>1, TypeStep, WorkStep, ResultsStep, JournalStep, LeadsStep DEF FileUndoInv
  <1>2. CASE UNCHANGED undoVars
    BY <1>2 DEF undoVars, journalVars, counts, FileUndoInv, FileTypeOK, WorkFollows, ResultsInvert,
                JournalInverts, UndoLeads, OneLeads, MovesLead, Waiting, Moving
  <1> QED  BY <1>1, <1>2

(* Nothing has happened at the start. *)
LEMMA FileUndoStart == UndoInit => FileUndoInv
  <1> SUFFICES ASSUME UndoInit PROVE FileUndoInv
    OBVIOUS
  <1>1. \A S : <<>> \in Seq(S) /\ Len(<<>>) = 0 /\ DOMAIN <<>> = {}
    OBVIOUS
  <1>2. FileTypeOK
    BY <1>1, FileUndoAssumption DEF UndoInit, FileTypeOK, Files
  <1>3. WorkFollows
    BY IdleIsNoWork DEF UndoInit, WorkFollows
  <1>4. ResultsInvert /\ JournalInverts
    BY <1>1 DEF UndoInit, ResultsInvert, JournalInverts
  <1>5. UndoLeads
    BY DEF UndoInit, UndoLeads, Anything
  <1> QED  BY <1>2, <1>3, <1>4, <1>5 DEF FileUndoInv

(* The inductive invariant of operations, undo and redo holds in every       *)
(* reachable state.                                                        *)
THEOREM FileUndoInvariance == UndoSpec => []FileUndoInv
  <1>1. UndoInit => FileUndoInv
    BY FileUndoStart
  <1>2. FileUndoInv /\ [UndoNext]_undoVars => FileUndoInv'
    BY FileUndoStep
  <1> QED  BY <1>1, <1>2, PTL DEF UndoSpec

(* Files, bin, queue and journal are what they should be; the journal is     *)
(* never deeper than its depth (UndoJournal::record).                      *)
THEOREM FileUndoTypeCorrect == UndoSpec => []UndoTypeOK
  <1>1. FileUndoInv => UndoTypeOK
    <2> SUFFICES ASSUME FileUndoInv PROVE UndoTypeOK
      OBVIOUS
    <2>1. \A k \in DOMAIN queue : queue[k].origin \in {"user", "undo", "redo"}
      <3>1. \A k \in DOMAIN queue : queue[k] \in Queued
        BY DEF FileUndoInv, FileTypeOK
      <3> QED  BY <3>1 DEF Queued, Origins
    <2>2. Len(undoStack) <= MaxDepth
      <3>1. Len(undoStack) \in Nat /\ Len(redoStack) \in Nat
        BY DEF FileUndoInv, FileTypeOK
      <3> QED  BY <3>1, FileUndoAssumption DEF FileUndoInv, FileTypeOK
    <2> QED  BY <2>1, <2>2 DEF FileUndoInv, FileTypeOK, UndoTypeOK
  <1> QED  BY <1>1, FileUndoInvariance, PTL

(* Undo, and redo, of what met no conflict is inverse to it: pressed while   *)
(* the files are as it left them, it has put back every file, name and       *)
(* content, when all it submits has ended well, in whatever order the engine *)
(* runs that (undo_to_ops, UndoJournal, copy_or_move).                      *)
THEOREM UndoIsInverse == UndoSpec => []UndoRestores
  <1>1. FileUndoInv => UndoRestores
    <2> SUFFICES ASSUME FileUndoInv, Settled, expect.known, expect.plain
                 PROVE  fs = expect.fs
      BY DEF UndoRestores
    <2>1. queue = <<>> /\ work = Idle
      BY DEF Settled
    <2>2. CASE OneLeads
      BY <2>1, <2>2, IdleIsNoWork DEF OneLeads
    <2>3. CASE MovesLead
      <3>1. Waiting \cup Moving = {}
        BY <2>1 DEF Waiting, Moving
      <3>2. fs \in Files /\ expect.fs \in Files
        <4>1. expect \in Expectations
          BY DEF FileUndoInv, FileTypeOK, Anything
        <4> QED  BY <4>1 DEF FileUndoInv, FileTypeOK, Expectations
      <3> QED  BY <2>3, <3>1, <3>2, ReturnsNone DEF MovesLead
    <2> QED  BY <2>2, <2>3 DEF FileUndoInv, UndoLeads
  <1> QED  BY <1>1, FileUndoInvariance, PTL
==============================================================================
