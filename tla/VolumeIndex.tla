------------------------------ MODULE VolumeIndex ------------------------------
(***************************************************************************)
(* The file name index of an NTFS volume: the master file table is read    *)
(* once, in the order of the file numbers, and then the change journal is  *)
(* followed from where it stood after the reading                          *)
(* (crates/sc-index/src/mft.rs).                                           *)
(*                                                                         *)
(* The volume is external: a record of the journal carries every reason    *)
(* since the file was last closed, so that of a deletion may also say that *)
(* the file was created. A place is a folder and a name in it.             *)
(***************************************************************************)
EXTENDS Naturals, Sequences

CONSTANTS
  MaxFile,      \* bound: file numbers, from 1
  FilePlaces,   \* where a file can be
  MaxChanges    \* bound: changes of the volume

ASSUME VolumeAssumption == MaxFile \in Nat \ {0} /\ MaxChanges \in Nat

VARIABLES
  volume,     \* where each file is
  reasons,    \* why each file has changed since it was last closed
  journal,    \* the records of the journal
  entries,    \* Inner::entries
  cursor,     \* StartFileReferenceNumber: the next file to be read
  nextUsn,    \* the next record to be read, 0 before the journal is asked
  missed,     \* files whose last change fell between reading and asking
  changes     \* changes so far

volumeVars == <<volume, reasons, journal, entries, cursor, nextUsn, missed, changes>>
diskVars == <<volume, reasons, journal, changes>>

FileNumbers == 1..MaxFile
Nowhere == "nowhere"
Whereabouts == FilePlaces \cup {Nowhere}

------------------------------------------------------------------------------
(* The volume and its journal.                                             *)

Record(f, why, place) == [file |-> f, why |-> why, place |-> place]

\* A change of f that the index can only learn of from the journal, and does
\* not, as it will begin to read after it; one it does learn of makes up.
Learns(f) ==
  missed' = IF nextUsn = 0 /\ cursor > f THEN missed \cup {f} ELSE missed \ {f}

Change == changes < MaxChanges /\ changes' = changes + 1

CreateFile(f, p) ==
  /\ Change /\ volume[f] = Nowhere /\ \A r \in DOMAIN journal : journal[r].file # f
  /\ volume' = [volume EXCEPT ![f] = p]
  /\ reasons' = [reasons EXCEPT ![f] = {"create"}]
  /\ journal' = Append(journal, Record(f, {"create"}, p))
  /\ Learns(f) /\ UNCHANGED <<entries, cursor, nextUsn>>

\* A rename or a move: the old place, then the new one.
RenameFile(f, p) ==
  /\ Change /\ volume[f] \notin {Nowhere, p}
  /\ volume' = [volume EXCEPT ![f] = p]
  /\ reasons' = [reasons EXCEPT ![f] = @ \cup {"newName"}]
  /\ journal' = journal \o <<Record(f, (reasons[f] \ {"newName"}) \cup {"oldName"}, volume[f]),
                             Record(f, reasons'[f], p)>>
  /\ Learns(f) /\ UNCHANGED <<entries, cursor, nextUsn>>

\* The last handle of f is closed.
CloseFile(f) ==
  /\ volume[f] # Nowhere /\ reasons[f] # {}
  /\ reasons' = [reasons EXCEPT ![f] = {}]
  /\ journal' = Append(journal, Record(f, reasons[f], volume[f]))
  /\ UNCHANGED <<volume, changes, entries, cursor, nextUsn, missed>>

DeleteFile(f) ==
  /\ Change /\ volume[f] # Nowhere
  /\ volume' = [volume EXCEPT ![f] = Nowhere]
  /\ journal' = Append(journal, Record(f, reasons[f] \cup {"delete"}, volume[f]))
  /\ Learns(f) /\ UNCHANGED <<reasons, entries, cursor, nextUsn>>

------------------------------------------------------------------------------
(* The index.                                                              *)

\* MftIndex::build reads the next of the files.
ReadTable ==
  /\ cursor \in FileNumbers
  /\ entries' = [entries EXCEPT ![cursor] = volume[cursor]]
  /\ cursor' = cursor + 1
  /\ UNCHANGED <<diskVars, nextUsn, missed>>

\* spawn_usn_tail asks where the journal stands.
QueryJournal ==
  /\ cursor > MaxFile /\ nextUsn = 0
  /\ nextUsn' = Len(journal) + 1
  /\ UNCHANGED <<diskVars, entries, cursor, missed>>

\* A record: first it removes, then it inserts.
Applied(es, r) ==
  LET cut == IF r.why \cap {"delete", "oldName"} # {}
             THEN [es EXCEPT ![r.file] = Nowhere] ELSE es
  IN  IF r.why \cap {"create", "newName"} # {}
      THEN [cut EXCEPT ![r.file] = r.place] ELSE cut

\* The index after the records up to last, one after the other.
Replayed(last) ==
  LET index[n \in nextUsn - 1..last] ==
        IF n = nextUsn - 1 THEN entries ELSE Applied(index[n - 1], journal[n])
  IN  index[last]

\* Wrong: what did not fit into the buffer is passed over.
TailJournalSkipping ==
  /\ nextUsn > 0
  /\ \E last \in nextUsn..Len(journal) : entries' = Replayed(last)
  /\ nextUsn' = Len(journal) + 1
  /\ UNCHANGED <<diskVars, cursor, missed>>

\* A buffer of records, some or all there are, under the lock.
TailJournal ==
  /\ nextUsn > 0
  /\ \E last \in nextUsn..Len(journal) :
       /\ entries' = Replayed(last)
       /\ nextUsn' = last + 1
  /\ UNCHANGED <<diskVars, cursor, missed>>

------------------------------------------------------------------------------
VolumeInit ==
  /\ volume \in [FileNumbers -> Whereabouts]
  /\ reasons = [f \in FileNumbers |-> {}]
  /\ journal = <<>> /\ entries = [f \in FileNumbers |-> Nowhere]
  /\ cursor = 1 /\ nextUsn = 0 /\ missed = {} /\ changes = 0

VolumeNext ==
  \/ \E f \in FileNumbers :
       \/ \E p \in FilePlaces : CreateFile(f, p) \/ RenameFile(f, p)
       \/ CloseFile(f) \/ DeleteFile(f)
  \/ ReadTable \/ QueryJournal \/ TailJournal

VolumeSpec == VolumeInit /\ [][VolumeNext]_volumeVars

------------------------------------------------------------------------------
(* Properties.                                                             *)

\* A deletion that its own record takes back: the file was created or
\* renamed and not closed before it was deleted.
Ghosts == {f \in FileNumbers : volume[f] = Nowhere /\ reasons[f] # {}}

\* Once it has read the journal to its end the index has every file where it
\* is and none that is gone - but for those whose last change fell between
\* the reading of their entry and the asking for the journal's end, and the
\* ghosts ("applying creates/deletes/renames to the index", mft.rs:227).
IndexFollowsDisk ==
  nextUsn = Len(journal) + 1 =>
    \A f \in FileNumbers \ (missed \cup Ghosts) : entries[f] = volume[f]
==============================================================================
