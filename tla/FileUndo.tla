------------------------------ MODULE FileUndo ------------------------------
(***************************************************************************)
(* What file operations, and their undo and redo, do to the files:         *)
(* Worker::run of crates/sc-ops/src/queue.rs on a small file system, the   *)
(* journal of crates/sc-ops/src/undo.rs, and the calls between them in     *)
(* crates/sc-app/src/app.rs.                                               *)
(*                                                                         *)
(* One operation works at a time, and any waiting one may be next: OpQueue *)
(* shows that operations which run together touch no common path, so their *)
(* file effects commute, and it promises no order to the others.           *)
(*                                                                         *)
(* Files only, in a few folders; a content stands for the bytes of a file. *)
(* The journal entries carry three fields the program does not have        *)
(* (before, after, plain), read by the properties alone, like "expect".    *)
(***************************************************************************)
EXTENDS Integers, Sequences, FiniteSets, SequencesExt

CONSTANTS
  FileFolders, FileNames,  \* a path is a folder and a name
  Contents,        \* what a file may hold
  Empty,           \* the content of a new file
  Absent,          \* no file
  Alternates,      \* Alternates[n]: "n (2)", "n (3)", ... in the order tried
  UserOps,         \* the operations the user may submit
  FirstFiles,      \* the file systems the program may find when it starts
  MaxDepth,        \* UndoJournal::max_depth (64)
  MaxUser, MaxUndo \* bounds: operations submitted, undo and redo pressed

Paths == FileFolders \X FileNames
FolderOf(p) == p[1]
Name(p) == p[2]

\* Operation: folders to copy and move to, a new name, or nothing more.
Operations ==
  [kind : {"copy", "move"}, paths : Seq(Paths), dest : FileFolders]
  \cup [kind : {"rename"}, paths : Seq(Paths) \ {<<>>}, dest : Paths]
  \cup [kind : {"create"}, paths : Seq(Paths) \ {<<>>}, dest : {Absent}]
  \cup [kind : {"recycle", "restore"}, paths : Seq(Paths), dest : {Absent}]

ASSUME FileUndoAssumption ==
  /\ UserOps \subseteq Operations
  /\ Empty \in Contents /\ Absent \notin Contents
  /\ Alternates \in [FileNames -> Seq(FileNames)]
  /\ FirstFiles \subseteq [Paths -> Contents \cup {Absent}]
  /\ MaxDepth \in Nat \ {0} /\ MaxUser \in Nat /\ MaxUndo \in Nat

VARIABLES
  fs,         \* fs[p]: the content of the file at p, or Absent
  bin,        \* the recycle bin: the paths and contents it holds
  queue,      \* operations submitted and not started
  work,       \* the operation that runs, or Idle
  doneEvents, \* Done events not yet handled
  undoStack, redoStack,
  userCount, undoCount,
  expect      \* what the files should be once everything submitted is done

journalVars == <<undoStack, redoStack>>
counts == <<userCount, undoCount>>
undoVars == <<fs, bin, queue, work, doneEvents, journalVars, counts, expect>>

------------------------------------------------------------------------------
(* Operations and undo actions.                                            *)

Op(k, ps, d) == [kind |-> k, paths |-> ps, dest |-> d]
NoUndo == [kind |-> "none"]
DeletePaths(ps) == [kind |-> "DeletePaths", paths |-> ps]
MoveBack(prs) == [kind |-> "MoveBack", pairs |-> prs]
RenameBack(from, to) == [kind |-> "RenameBack", from |-> from, to |-> to]

\* Wrong: a moved file is sent to the folder it is in.
UndoToOpsSamePlace(u) ==
  CASE u.kind = "DeletePaths" -> <<Op("recycle", u.paths, Absent)>>
    [] u.kind = "MoveBack" ->
         [k \in DOMAIN u.pairs |->
            Op("move", <<u.pairs[k][2]>>, FolderOf(u.pairs[k][2]))]
    [] u.kind = "RenameBack" -> <<Op("rename", <<u.from>>, u.to)>>

\* undo_to_ops; a pair is where a file was and where it was moved to.
UndoToOps(u) ==
  CASE u.kind = "DeletePaths" -> <<Op("recycle", u.paths, Absent)>>
    [] u.kind = "MoveBack" ->
         [k \in DOMAIN u.pairs |->
            Op("move", <<u.pairs[k][2]>>, FolderOf(u.pairs[k][1]))]
    [] u.kind = "RenameBack" -> <<Op("rename", <<u.from>>, u.to)>>

Exists(p) == fs[p] # Absent
\* auto_rename: the first free alternative, or the path itself.
AutoRename(p) ==
  LET alt == Alternates[Name(p)]
      free == {k \in DOMAIN alt : ~Exists(<<FolderOf(p), alt[k]>>)}
  IN IF free = {} THEN p
     ELSE <<FolderOf(p), alt[CHOOSE k \in free : \A j \in free : k <= j]>>

Idle == [op |-> Op("none", <<>>, Absent)]
Settled == queue = <<>> /\ work = Idle /\ doneEvents = <<>>
Anything == [known |-> FALSE]
\* Expected: f, if nothing but entry e changed the files since g.
Expected(e, g, f) == IF Settled /\ fs = g
                     THEN [known |-> TRUE, fs |-> f, plain |-> e.plain]
                     ELSE Anything

UndoInit ==
  /\ fs \in FirstFiles /\ bin = {}
  /\ queue = <<>> /\ work = Idle /\ doneEvents = <<>>
  /\ undoStack = <<>> /\ redoStack = <<>>
  /\ userCount = 0 /\ undoCount = 0
  /\ expect = Anything

------------------------------------------------------------------------------
(* The window: submit_op, undo, redo and the Done branch of the handler.   *)

SubmitOrigin(ops, origin) ==
  queue' = queue \o [k \in DOMAIN ops |-> [op |-> ops[k], origin |-> origin]]

UserSubmit(o) ==
  /\ userCount < MaxUser
  /\ userCount' = userCount + 1
  /\ SubmitOrigin(<<o>>, "user")
  /\ expect' = Anything
  /\ UNCHANGED <<fs, bin, work, doneEvents, journalVars, undoCount>>

Undo ==
  /\ undoStack # <<>> /\ undoCount < MaxUndo
  /\ undoCount' = undoCount + 1
  /\ LET e == Last(undoStack) IN
       /\ SubmitOrigin(UndoToOps(e.undo), "undo")
       /\ redoStack' = Append(redoStack, e)
       /\ expect' = Expected(e, e.after, e.before)
  /\ undoStack' = Front(undoStack)
  /\ UNCHANGED <<fs, bin, work, doneEvents, userCount>>

Redo ==
  /\ redoStack # <<>> /\ undoCount < MaxUndo
  /\ undoCount' = undoCount + 1
  /\ LET e == Last(redoStack) IN
       /\ SubmitOrigin(e.redoOps, "redo")
       /\ undoStack' = Append(undoStack, e)
       /\ expect' = Expected(e, e.before, e.after)
  /\ redoStack' = Front(redoStack)
  /\ UNCHANGED <<fs, bin, work, doneEvents, userCount>>

\* Wrong: the journal grows past its depth.
RecordUnbounded(e) ==
  /\ undoStack' = Append(undoStack, e)
  /\ redoStack' = <<>>

\* UndoJournal::record: newest last, the oldest dropped past the depth.
RecordEntry(e) ==
  LET longer == Append(undoStack, e) IN
  /\ undoStack' = IF Len(longer) > MaxDepth THEN Tail(longer) ELSE longer
  /\ redoStack' = <<>>

HandleDone ==
  /\ doneEvents # <<>>
  /\ doneEvents' = Tail(doneEvents)
  /\ LET r == Head(doneEvents) IN
       IF r.origin = "user" /\ r.undo # NoUndo
       THEN RecordEntry([undo |-> r.undo, redoOps |-> <<r.op>>, before |-> r.before,
                    after |-> r.after, plain |-> r.plain])
       ELSE UNCHANGED journalVars
  /\ UNCHANGED <<fs, bin, queue, work, counts, expect>>

------------------------------------------------------------------------------
(* The engine.  "plain" is lost when a destination is found to exist.      *)

Start(k) ==
  /\ work = Idle
  /\ work' = [op |-> queue[k].op, origin |-> queue[k].origin, item |-> 1,
              made |-> <<>>, before |-> fs, plain |-> TRUE]
  /\ queue' = RemoveAt(queue, k)
  /\ UNCHANGED <<fs, bin, doneEvents, journalVars, counts, expect>>

\* Done, with the undo action the operation ended with.
Ends(u, after, plain) ==
  /\ work' = Idle
  /\ doneEvents' = Append(doneEvents, [origin |-> work.origin, op |-> work.op, undo |-> u,
                                       before |-> work.before, after |-> after,
                                       plain |-> plain])
  /\ UNCHANGED <<queue, journalVars, counts, expect>>

\* Failed or cancelled: what was done stays done and is not recorded.
Aborts ==
  /\ work' = Idle
  /\ expect' = Anything
  /\ UNCHANGED <<fs, bin, queue, doneEvents, journalVars, counts>>

Transfers == work.op.kind \in {"copy", "move"}
AtItem == Transfers /\ work.item <= Len(work.op.paths)
Src == work.op.paths[work.item]
Dst == <<work.op.dest, Name(Src)>>

NextItem(plain) ==
  /\ work' = [work EXCEPT !.item = @ + 1, !.plain = @ /\ plain]
  /\ UNCHANGED <<fs, bin, queue, doneEvents, journalVars, counts, expect>>

\* move_one or copy_file to d, remembered for undo.
Put(d, plain) ==
  /\ fs' = IF work.op.kind = "move" THEN [fs EXCEPT ![d] = fs[Src], ![Src] = Absent]
           ELSE [fs EXCEPT ![d] = fs[Src]]
  /\ work' = [work EXCEPT !.item = @ + 1, !.plain = @ /\ plain,
                          !.made = Append(@, <<Src, d>>)]
  /\ UNCHANGED <<bin, queue, doneEvents, journalVars, counts, expect>>

SkipOntoItself == AtItem /\ Src = Dst /\ NextItem(TRUE)
PutFree == AtItem /\ Src # Dst /\ Exists(Src) /\ ~Exists(Dst) /\ Put(Dst, TRUE)

Conflict == AtItem /\ Src # Dst /\ Exists(Dst)
AnswerSkip == Conflict /\ NextItem(FALSE)
AnswerOverwrite == Conflict /\ Exists(Src) /\ Put(Dst, FALSE)
AnswerKeepBoth == Conflict /\ Exists(Src) /\ Put(AutoRename(Dst), FALSE)

\* The source is gone, the system refuses, or the user cancels.
Abort == work # Idle /\ Aborts

TransferEnds ==
  /\ Transfers /\ ~AtItem
  /\ LET dests == [k \in DOMAIN work.made |-> work.made[k][2]] IN
     Ends(IF work.op.kind = "move" THEN MoveBack(work.made)
          ELSE IF dests = <<>> THEN NoUndo ELSE DeletePaths(dests),
          fs, work.plain)
  /\ UNCHANGED <<fs, bin>>

\* std::fs::rename replaces a file that is already there.
RunRename ==
  /\ work.op.kind = "rename"
  /\ LET from == work.op.paths[1]
         to == work.op.dest
         after == [fs EXCEPT ![to] = fs[from], ![from] = Absent] IN
     /\ Exists(from) /\ from # to
     /\ fs' = after
     /\ Ends(RenameBack(to, from), after, ~Exists(to))
  /\ UNCHANGED bin

\* create_dir and create_new fail if the path exists.
RunCreate ==
  /\ work.op.kind = "create"
  /\ LET p == work.op.paths[1]
         after == [fs EXCEPT ![p] = Empty] IN
     /\ ~Exists(p)
     /\ fs' = after
     /\ Ends(DeletePaths(<<p>>), after, TRUE)
  /\ UNCHANGED bin

\* recycle_via_shell looks every path up before it recycles any.
RunRecycle ==
  /\ work.op.kind = "recycle"
  /\ LET gone == ToSet(work.op.paths)
         after == [p \in Paths |-> IF p \in gone THEN Absent ELSE fs[p]] IN
     /\ \A p \in gone : Exists(p)
     /\ fs' = after
     /\ bin' = bin \cup {<<p, fs[p]>> : p \in gone}
     /\ Ends(NoUndo, after, TRUE)

\* The shell puts an item back where it was.  FOF_NOCONFIRMATION answers its
\* question about a file that is there now: it is replaced.
RunRestore ==
  /\ work.op.kind = "restore"
  /\ \E b \in bin :
       LET after == [fs EXCEPT ![b[1]] = b[2]] IN
       /\ fs' = after
       /\ bin' = bin \ {b}
       /\ Ends(NoUndo, after, ~Exists(b[1]))

Engine ==
  \/ \E k \in DOMAIN queue : Start(k)
  \/ SkipOntoItself \/ PutFree \/ AnswerSkip \/ AnswerOverwrite \/ AnswerKeepBoth
  \/ TransferEnds \/ RunRename \/ RunCreate \/ RunRecycle \/ RunRestore \/ Abort

UndoNext ==
  \/ \E o \in UserOps : UserSubmit(o)
  \/ Undo \/ Redo \/ HandleDone \/ Engine

UndoSpec == UndoInit /\ [][UndoNext]_undoVars

------------------------------------------------------------------------------
(* Correctness.                                                            *)

Files == [Paths -> Contents \cup {Absent}]

UndoTypeOK ==
  /\ fs \in Files
  /\ bin \in SUBSET (Paths \X Contents)
  /\ \A k \in DOMAIN queue : queue[k].origin \in {"user", "undo", "redo"}
  /\ Len(undoStack) <= MaxDepth
  /\ userCount \in 0 .. MaxUser /\ undoCount \in 0 .. MaxUndo

\* Undo and redo of an operation that met no conflict are inverse to it: if
\* the files are as it left them (as they were before it), undo (redo), when
\* all it submits has ended well, has put them back, names and contents.
UndoRestores == Settled /\ expect.known /\ expect.plain => fs = expect.fs

\* "Undo/redo actions are themselves executed through the operation queue so
\* they get progress + conflict handling for free" (undo.rs:1): they replace
\* a file only after asking about it.
UndoAsksFirst ==
  [][\A p \in Paths :
       Exists(p) /\ fs'[p] \notin {Absent, fs[p]} /\ work.origin # "user"
         => Conflict]_undoVars
=============================================================================
