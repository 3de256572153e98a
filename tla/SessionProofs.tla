---------------------------- MODULE SessionProofs ----------------------------
(***************************************************************************)
(* Proofs about the tabs and about what outlives the program: what has     *)
(* been set is in the file, a start shows what was saved, a message about  *)
(* a tab finds it wherever it has been dragged, and no step but a start    *)
(* changes a history or moves a locked tab.                                *)
(***************************************************************************)
EXTENDS Session, DataLemmas

------------------------------------------------------------------------------
(* The file.  It is never torn, and what an idle program has set is in it. *)

FileInv ==
  /\ file.kind # "torn"
  /\ file = NoFile \/ (file.kind = "whole" /\ file = Whole(file.settings))
  /\ SettingsReachTheFile

(* A program that has just started has the settings of the file. *)
LEMMA StartHasTheFile ==
  ASSUME Start(file'),
         file' = NoFile \/ (file'.kind = "whole" /\ file' = Whole(file'.settings))
  PROVE  FileInv'
  <1>1. CASE file' = NoFile
    BY <1>1 DEF Start, Loaded, FileInv, SettingsReachTheFile, NoFile
  <1>2. CASE file'.kind = "whole" /\ file' = Whole(file'.settings)
    BY <1>2 DEF Start, Loaded, FileInv, SettingsReachTheFile
  <1> QED  BY <1>1, <1>2

(* Every step keeps the file whole and, at rest, up to date. *)
LEMMA FileStep == FileInv /\ [Next]_vars => FileInv'
  <1> SUFFICES ASSUME FileInv, [Next]_vars PROVE FileInv'
    OBVIOUS
  <1>1. \A s : Whole(s).kind = "whole" /\ Whole(s).settings = s
    BY DEF Whole
  <1>2. ASSUME saving,
               (file' = Whole(settings) /\ SaveOver(FALSE)) \/ (file' = file /\ SaveOver(TRUE))
        PROVE  FileInv'
    <2>1. file' = NoFile \/ (file'.kind = "whole" /\ file' = Whole(file'.settings))
      BY <1>1, <1>2 DEF FileInv
    <2>2. CASE leaving
      BY <1>2, <2>1, <2>2, StartHasTheFile DEF SaveOver
    <2>3. CASE ~leaving /\ file' = Whole(settings) /\ SaveOver(FALSE)
      BY <1>1, <2>1, <2>3 DEF SaveOver, FileInv, SettingsReachTheFile, Idle
    <2>4. CASE ~leaving /\ file' = file /\ SaveOver(TRUE)
      BY <2>4 DEF SaveOver, FileInv, SettingsReachTheFile, Idle
    <2> QED  BY <1>2, <2>2, <2>3, <2>4
  <1>3. CASE Rename
    BY <1>2, <1>3 DEF Rename
  <1>4. CASE SaveFails
    BY <1>2, <1>4 DEF SaveFails
  <1>5. CASE Crash
    <2>1. Start(file') /\ file' = file
      BY <1>5 DEF Crash
    <2> QED  BY <2>1, StartHasTheFile DEF FileInv
  <1>6. ASSUME saving', file' = file PROVE FileInv'
    BY <1>6 DEF FileInv, SettingsReachTheFile, Idle
  <1>7. CASE SetOption
    BY <1>6, <1>7 DEF SetOption, Save
  <1>8. CASE SaveSession
    BY <1>6, <1>8 DEF SaveSession, Save
  <1>9. ASSUME NEW l \in Layouts, SetDefaultLayout(l) PROVE FileInv'
    BY <1>6, <1>9 DEF SetDefaultLayout, Save
  <1>10. ASSUME UNCHANGED <<settings, saving, file, unsaved>> PROVE FileInv'
    BY <1>10 DEF FileInv, SettingsReachTheFile, Idle
  <1>11. CASE ToggleHidden
    BY <1>6, <1>10, <1>11 DEF ToggleHidden, Save
  <1>12. CASE UNCHANGED sessionVars
    BY <1>10, <1>12 DEF sessionVars
  <1>13. CASE UNCHANGED vars
    BY <1>12, <1>13 DEF vars
  <1> QED  BY <1>3, <1>4, <1>5, <1>7, <1>8, <1>9, <1>11, <1>12, <1>13 DEF Next

(* The file is whole or missing at every moment. *)
LEMMA FileInvariance == Spec => []FileInv
  <1>1. NoFile.kind = "none"
    BY DEF NoFile
  <1>2. Init => FileInv
    BY <1>1 DEF Init, FileInv, SettingsReachTheFile
  <1> QED  BY <1>2, FileStep, PTL DEF Spec

(***************************************************************************)
(* What a settings page or the autosave has set is in settings.toml as     *)
(* soon as the program is idle, unless it could not be written.            *)
(***************************************************************************)
THEOREM SettingsAreSaved == Spec => []SettingsReachTheFile
  <1>1. FileInv => SettingsReachTheFile
    BY DEF FileInv
  <1> QED  BY <1>1, FileInvariance, PTL

------------------------------------------------------------------------------
(* The tabs of a pane as a sequence: no two have a uid in common.          *)

TabsBelow(n) ==
  [uid : 1 .. n - 1, path : Folders, back : Seq(Folders), fwd : Seq(Folders),
   locked : BOOLEAN, flatten : BOOLEAN, loading : BOOLEAN]

Distinct(s) == \A i, j \in 1 .. Len(s) : s[i].uid = s[j].uid => i = j
Uids(s) == {t.uid : t \in ToSet(s)}

(* What is in a sequence is at one of its places. *)
LEMMA InSequence ==
  ASSUME NEW S, NEW s \in Seq(S)
  PROVE  /\ Len(s) \in Nat /\ DOMAIN s = 1 .. Len(s)
         /\ \A i \in 1 .. Len(s) : s[i] \in S
         /\ ToSet(s) \subseteq S
         /\ \A t : t \in ToSet(s) <=> \E i \in 1 .. Len(s) : s[i] = t
  <1>1. Len(s) \in Nat /\ DOMAIN s = 1 .. Len(s)
    BY LenProperties
  <1>2. \A i \in 1 .. Len(s) : s[i] \in S
    BY ElementOfSeq
  <1> QED  BY <1>1, <1>2 DEF ToSet

(* Taking a tab out takes out that tab and no other. *)
LEMMA TabTaken ==
  ASSUME NEW S, NEW s \in Seq(S), NEW k \in 1 .. Len(s), Distinct(s)
  PROVE  /\ RemoveAt(s, k) \in Seq(S)
         /\ Len(RemoveAt(s, k)) = Len(s) - 1
         /\ Distinct(RemoveAt(s, k))
         /\ ToSet(RemoveAt(s, k)) = ToSet(s) \ {s[k]}
         /\ s[k].uid \notin Uids(RemoveAt(s, k))
         /\ Uids(RemoveAt(s, k)) \subseteq Uids(s)
  <1> DEFINE r == RemoveAt(s, k)
             f(i) == IF i < k THEN i ELSE i + 1
  <1>1. /\ r \in Seq(S) /\ Len(r) = Len(s) - 1
        /\ \A i \in 1 .. Len(s) - 1 : r[i] = s[f(i)]
    BY Removed
  <1>2. Len(s) \in Nat /\ Len(r) \in Nat
    BY <1>1, LenProperties
  <1>3. \A i \in 1 .. Len(r) : f(i) \in 1 .. Len(s) /\ f(i) # k
    BY <1>1, <1>2
  <1>4. \A i, j \in 1 .. Len(r) : f(i) = f(j) => i = j
    BY <1>1, <1>2
  <1>5. \A j \in 1 .. Len(s) : j # k => \E i \in 1 .. Len(r) : f(i) = j
    <2> SUFFICES ASSUME NEW j \in 1 .. Len(s), j # k
                 PROVE  \E i \in 1 .. Len(r) : f(i) = j
      OBVIOUS
    <2>1. CASE j < k
      <3>1. j \in 1 .. Len(r) /\ f(j) = j
        BY <1>1, <1>2, <2>1
      <3> QED  BY <3>1
    <2>2. CASE j > k
      <3>1. j - 1 \in 1 .. Len(r) /\ f(j - 1) = j
        BY <1>1, <1>2, <2>2
      <3> QED  BY <3>1
    <2> QED  BY <1>2, <2>1, <2>2
  <1> HIDE DEF r, f
  <1>6. /\ \A t : t \in ToSet(s) <=> \E i \in 1 .. Len(s) : s[i] = t
        /\ \A t : t \in ToSet(r) <=> \E i \in 1 .. Len(r) : r[i] = t
    BY <1>1, InSequence
  <1>7. Distinct(r)
    <2> SUFFICES ASSUME NEW i \in 1 .. Len(r), NEW j \in 1 .. Len(r), r[i].uid = r[j].uid
                 PROVE  i = j
      BY DEF Distinct
    <2>1. r[i] = s[f(i)] /\ r[j] = s[f(j)]
      BY <1>1
    <2>2. f(i) = f(j)
      BY <1>3, <2>1 DEF Distinct
    <2> QED  BY <1>4, <2>2
  <1>8. ASSUME NEW t PROVE t \in ToSet(r) <=> t \in ToSet(s) \ {s[k]}
    <2>1. ASSUME t \in ToSet(r) PROVE t \in ToSet(s) /\ t # s[k]
      <3>1. PICK i \in 1 .. Len(r) : r[i] = t
        BY <1>6, <2>1
      <3>2. t = s[f(i)] /\ f(i) \in 1 .. Len(s) /\ f(i) # k
        BY <1>1, <1>3, <3>1
      <3> QED  BY <1>6, <3>2 DEF Distinct
    <2>2. ASSUME t \in ToSet(s), t # s[k] PROVE t \in ToSet(r)
      <3>1. PICK j \in 1 .. Len(s) : s[j] = t
        BY <1>6, <2>2
      <3>2. PICK i \in 1 .. Len(r) : f(i) = j
        BY <1>5, <2>2, <3>1
      <3>3. r[i] = t
        BY <1>1, <3>1, <3>2
      <3> QED  BY <1>6, <3>3
    <2> QED  BY <2>1, <2>2
  <1>9. ASSUME NEW t \in ToSet(r) PROVE t.uid # s[k].uid
    <2>1. t \in ToSet(s) /\ t # s[k]
      BY <1>8
    <2>2. PICK j \in 1 .. Len(s) : s[j] = t
      BY <1>6, <2>1
    <2> QED  BY <2>1, <2>2 DEF Distinct
  <1>10. ToSet(r) = ToSet(s) \ {s[k]}
    BY <1>8
  <1>11. s[k].uid \notin Uids(r) /\ Uids(r) \subseteq Uids(s)
    BY <1>9, <1>10 DEF Uids
  <1> QED  BY <1>1, <1>7, <1>10, <1>11 DEF r

(* Putting a tab in adds that tab, where it was put. *)
LEMMA TabPut ==
  ASSUME NEW S, NEW s \in Seq(S), NEW k \in 1 .. Len(s) + 1, NEW e \in S,
         Distinct(s), e.uid \notin Uids(s)
  PROVE  /\ InsertAt(s, k, e) \in Seq(S)
         /\ Len(InsertAt(s, k, e)) = Len(s) + 1
         /\ Distinct(InsertAt(s, k, e))
         /\ ToSet(InsertAt(s, k, e)) = ToSet(s) \cup {e}
         /\ Uids(InsertAt(s, k, e)) = Uids(s) \cup {e.uid}
         /\ InsertAt(s, k, e)[k] = e
         /\ \A i \in 1 .. Len(s) + 1 : i # k => InsertAt(s, k, e)[i] \in ToSet(s)
  <1> DEFINE r == InsertAt(s, k, e)
             f(i) == IF i < k THEN i ELSE i - 1
  <1>1. /\ r \in Seq(S) /\ Len(r) = Len(s) + 1
        /\ \A i \in 1 .. Len(s) + 1 : r[i] = IF i < k THEN s[i] ELSE IF i = k THEN e ELSE s[i - 1]
    BY Inserted
  <1>2. Len(s) \in Nat /\ Len(r) \in Nat /\ k \in 1 .. Len(r)
    BY <1>1, LenProperties
  <1>3. r[k] = e /\ \A i \in 1 .. Len(r) : i # k => r[i] = s[f(i)]
    BY <1>1, <1>2
  <1>4. \A i \in 1 .. Len(r) : i # k => f(i) \in 1 .. Len(s)
    BY <1>1, <1>2
  <1>5. \A i, j \in 1 .. Len(r) : i # k /\ j # k /\ f(i) = f(j) => i = j
    BY <1>1, <1>2
  <1>6. \A j \in 1 .. Len(s) : \E i \in 1 .. Len(r) : i # k /\ f(i) = j
    <2> SUFFICES ASSUME NEW j \in 1 .. Len(s)
                 PROVE  \E i \in 1 .. Len(r) : i # k /\ f(i) = j
      OBVIOUS
    <2>1. CASE j < k
      <3>1. j \in 1 .. Len(r) /\ j # k /\ f(j) = j
        BY <1>1, <1>2, <2>1
      <3> QED  BY <3>1
    <2>2. CASE j >= k
      <3>1. j + 1 \in 1 .. Len(r) /\ j + 1 # k /\ f(j + 1) = j
        BY <1>1, <1>2, <2>2
      <3> QED  BY <3>1
    <2> QED  BY <1>2, <2>1, <2>2
  <1> HIDE DEF r, f
  <1>7. /\ \A t : t \in ToSet(s) <=> \E i \in 1 .. Len(s) : s[i] = t
        /\ \A t : t \in ToSet(r) <=> \E i \in 1 .. Len(r) : r[i] = t
    BY <1>1, InSequence
  <1>8. \A i \in 1 .. Len(r) : i # k => r[i] \in ToSet(s) /\ r[i].uid # e.uid
    BY <1>3, <1>4, <1>7 DEF Uids
  <1>9. Distinct(r)
    <2> SUFFICES ASSUME NEW i \in 1 .. Len(r), NEW j \in 1 .. Len(r), r[i].uid = r[j].uid
                 PROVE  i = j
      BY DEF Distinct
    <2>1. CASE i = k \/ j = k
      BY <1>3, <1>8, <2>1
    <2>2. CASE i # k /\ j # k
      <3>1. r[i] = s[f(i)] /\ r[j] = s[f(j)]
        BY <1>3, <2>2
      <3>2. f(i) = f(j)
        BY <1>4, <2>2, <3>1 DEF Distinct
      <3> QED  BY <1>5, <2>2, <3>2
    <2> QED  BY <2>1, <2>2
  <1>10. ASSUME NEW t PROVE t \in ToSet(r) <=> t \in ToSet(s) \cup {e}
    <2>1. ASSUME t \in ToSet(r) PROVE t \in ToSet(s) \cup {e}
      BY <1>3, <1>7, <1>8, <2>1
    <2>2. ASSUME t \in ToSet(s) PROVE t \in ToSet(r)
      <3>1. PICK j \in 1 .. Len(s) : s[j] = t
        BY <1>7, <2>2
      <3>2. PICK i \in 1 .. Len(r) : i # k /\ f(i) = j
        BY <1>6, <3>1
      <3>3. r[i] = t
        BY <1>3, <3>1, <3>2
      <3> QED  BY <1>7, <3>3
    <2>3. e \in ToSet(r)
      BY <1>2, <1>3, <1>7
    <2> QED  BY <2>1, <2>2, <2>3
  <1>11. ToSet(r) = ToSet(s) \cup {e}
    BY <1>10
  <1>12. Uids(r) = Uids(s) \cup {e.uid}
    BY <1>11 DEF Uids
  <1> QED  BY <1>1, <1>3, <1>8, <1>9, <1>11, <1>12 DEF r

(* Adding a tab at the end is putting it after the last one. *)
LEMMA AddedLast ==
  ASSUME NEW S, NEW s \in Seq(S), NEW e \in S
  PROVE  Append(s, e) = InsertAt(s, Len(s) + 1, e)
  <1> DEFINE k == Len(s) + 1
  <1>1. Len(s) \in Nat
    BY LenProperties
  <1>2. k \in 1 .. Len(s) + 1
    BY <1>1
  <1>3. /\ InsertAt(s, k, e) \in Seq(S)
        /\ Len(InsertAt(s, k, e)) = Len(s) + 1
        /\ \A i \in 1 .. Len(s) + 1 :
             InsertAt(s, k, e)[i] = IF i < k THEN s[i] ELSE IF i = k THEN e ELSE s[i - 1]
    <2> HIDE DEF k
    <2> QED  BY <1>2, Inserted
  <1>4. /\ Append(s, e) \in Seq(S) /\ Len(Append(s, e)) = Len(s) + 1
        /\ \A i \in 1 .. Len(s) : Append(s, e)[i] = s[i]
        /\ Append(s, e)[Len(s) + 1] = e
    BY AppendProperties
  <1>5. ASSUME NEW i \in 1 .. Len(s) + 1
        PROVE  Append(s, e)[i] = InsertAt(s, Len(s) + 1, e)[i]
    <2>1. CASE i = Len(s) + 1
      BY <1>1, <1>3, <1>4, <2>1
    <2>2. CASE i \in 1 .. Len(s)
      BY <1>1, <1>3, <1>4, <2>2
    <2> QED  BY <1>1, <2>1, <2>2
  <1> QED  BY <1>3, <1>4, <1>5, SeqEqual

Replaced(s, k, e) == [s EXCEPT ![k] = e]

(* Replacing a tab by one of the same uid changes that one only. *)
LEMMA TabChanged ==
  ASSUME NEW S, NEW s \in Seq(S), NEW k \in 1 .. Len(s), NEW e \in S,
         Distinct(s), e.uid = s[k].uid
  PROVE  /\ Replaced(s, k, e) \in Seq(S) /\ Len(Replaced(s, k, e)) = Len(s)
         /\ Distinct(Replaced(s, k, e))
         /\ ToSet(Replaced(s, k, e)) = (ToSet(s) \ {s[k]}) \cup {e}
         /\ Uids(Replaced(s, k, e)) = Uids(s) /\ Replaced(s, k, e)[k] = e
         /\ \A i \in 1 .. Len(s) : i # k => Replaced(s, k, e)[i] = s[i]
  <1> DEFINE r == Replaced(s, k, e)
  <1>1. /\ r \in Seq(S) /\ Len(r) = Len(s)
        /\ \A i \in 1 .. Len(s) : r[i] = IF i = k THEN e ELSE s[i]
    BY ExceptSeq DEF Replaced
  <1> HIDE DEF r
  <1>2. /\ \A t : t \in ToSet(s) <=> \E i \in 1 .. Len(s) : s[i] = t
        /\ \A t : t \in ToSet(r) <=> \E i \in 1 .. Len(r) : r[i] = t
    BY <1>1, InSequence
  <1>3. \A i \in 1 .. Len(s) : r[i].uid = s[i].uid
    BY <1>1
  <1>4. Distinct(r)
    BY <1>1, <1>3 DEF Distinct
  <1>5. ASSUME NEW t PROVE t \in ToSet(r) <=> t \in (ToSet(s) \ {s[k]}) \cup {e}
    <2>1. ASSUME t \in ToSet(r), t # e PROVE t \in ToSet(s) /\ t # s[k]
      <3>1. PICK i \in 1 .. Len(s) : r[i] = t
        BY <1>1, <1>2, <2>1
      <3>2. i # k /\ t = s[i]
        BY <1>1, <2>1, <3>1
      <3> QED  BY <1>2, <3>2 DEF Distinct
    <2>2. ASSUME t \in ToSet(s), t # s[k] PROVE t \in ToSet(r)
      <3>1. PICK i \in 1 .. Len(s) : s[i] = t
        BY <1>2, <2>2
      <3>2. r[i] = t
        BY <1>1, <2>2, <3>1
      <3> QED  BY <1>1, <1>2, <3>2
    <2>3. e \in ToSet(r)
      BY <1>1, <1>2
    <2> QED  BY <2>1, <2>2, <2>3
  <1>6. ToSet(r) = (ToSet(s) \ {s[k]}) \cup {e}
    BY <1>5
  <1>7. Uids(r) = Uids(s)
    <2>1. ASSUME NEW u \in Uids(r) PROVE u \in Uids(s)
      <3>1. PICK t \in ToSet(r) : u = t.uid
        BY DEF Uids
      <3>2. PICK i \in 1 .. Len(s) : r[i] = t
        BY <1>1, <1>2
      <3>3. u = s[i].uid /\ s[i] \in ToSet(s)
        BY <1>2, <1>3, <3>1, <3>2
      <3> QED  BY <3>3 DEF Uids
    <2>2. ASSUME NEW u \in Uids(s) PROVE u \in Uids(r)
      <3>1. PICK t \in ToSet(s) : u = t.uid
        BY DEF Uids
      <3>2. PICK i \in 1 .. Len(s) : s[i] = t
        BY <1>2
      <3>3. u = r[i].uid /\ r[i] \in ToSet(r)
        BY <1>1, <1>2, <1>3, <3>1, <3>2
      <3> QED  BY <3>3 DEF Uids
    <2> QED  BY <2>1, <2>2
  <1> QED  BY <1>1, <1>4, <1>6, <1>7 DEF r

------------------------------------------------------------------------------
(* Two panes whose tabs have uids below n, no two of them the same.        *)

PanesBelow(n) == [Panes -> [tabs : Seq(TabsBelow(n)), active : Nat]]

Shape(ps, n) ==
  /\ ps \in PanesBelow(n)
  /\ \A p \in Panes : ps[p].active \in 1 .. Len(ps[p].tabs)
  /\ Len(ps[1].tabs) + Len(ps[2].tabs) <= MaxTabs
  /\ \A p \in Panes : Distinct(ps[p].tabs)
  /\ Uids(ps[1].tabs) \cap Uids(ps[2].tabs) = {}

AllIn(ps) == ToSet(ps[1].tabs) \cup ToSet(ps[2].tabs)

WithPane(ps, p, s, a) == [ps EXCEPT ![p] = [tabs |-> s, active |-> a]]

(* The panes are 1 and 2, and each is the other's other. *)
LEMMA TwoPanes ==
  /\ 1 \in Panes /\ 2 \in Panes
  /\ \A p \in Panes : p = 1 \/ p = 2
  /\ Other(1) = 2 /\ Other(2) = 1
  /\ \A p \in Panes : Other(p) \in Panes /\ Other(p) # p /\ Other(Other(p)) = p
  BY DEF Panes, Other

(* What the fields of well-shaped panes are. *)
LEMMA ShapeTypes ==
  ASSUME NEW n \in Nat, NEW ps, Shape(ps, n), NEW p \in Panes
  PROVE  /\ ps[p] = [tabs |-> ps[p].tabs, active |-> ps[p].active]
         /\ ps[p].tabs \in Seq(TabsBelow(n)) /\ ps[p].active \in Nat
         /\ Len(ps[p].tabs) \in Nat /\ DOMAIN ps[p].tabs = 1 .. Len(ps[p].tabs)
         /\ ps[p].active \in 1 .. Len(ps[p].tabs)
         /\ Distinct(ps[p].tabs)
         /\ \A i \in 1 .. Len(ps[p].tabs) : ps[p].tabs[i] \in TabsBelow(n)
         /\ Uids(ps[p].tabs) \cap Uids(ps[Other(p)].tabs) = {}
         /\ ToSet(ps[p].tabs) \subseteq TabsBelow(n)
         /\ AllIn(ps) = ToSet(ps[p].tabs) \cup ToSet(ps[Other(p)].tabs)
         /\ Len(ps[p].tabs) + Len(ps[Other(p)].tabs) <= MaxTabs
         /\ Len(ps[p].tabs) \in 1 .. MaxTabs
  <1>1. ps[p] \in [tabs : Seq(TabsBelow(n)), active : Nat]
    BY DEF Shape, PanesBelow
  <1>2. ps[p].tabs \in Seq(TabsBelow(n))
    BY <1>1
  <1>3. /\ Len(ps[p].tabs) \in Nat /\ DOMAIN ps[p].tabs = 1 .. Len(ps[p].tabs)
        /\ \A i \in 1 .. Len(ps[p].tabs) : ps[p].tabs[i] \in TabsBelow(n)
        /\ ToSet(ps[p].tabs) \subseteq TabsBelow(n)
    BY <1>2, InSequence
  <1>4. /\ Uids(ps[p].tabs) \cap Uids(ps[Other(p)].tabs) = {}
        /\ AllIn(ps) = ToSet(ps[p].tabs) \cup ToSet(ps[Other(p)].tabs)
    BY TwoPanes DEF Shape, AllIn
  <1>5. ps[Other(p)].tabs \in Seq(TabsBelow(n))
    BY TwoPanes DEF Shape, PanesBelow
  <1>6. Len(ps[Other(p)].tabs) \in Nat
    BY <1>5, LenProperties
  <1>7. Len(ps[p].tabs) + Len(ps[Other(p)].tabs) <= MaxTabs
    <2>1. CASE p = 1
      BY <2>1, TwoPanes DEF Shape
    <2>2. CASE p = 2
      <3>1. Len(ps[1].tabs) \in Nat /\ Len(ps[2].tabs) \in Nat
        BY <1>3, <1>6, <2>2, TwoPanes
      <3>2. Len(ps[1].tabs) + Len(ps[2].tabs) <= MaxTabs
        BY DEF Shape
      <3>3. \A x, y \in Nat : x + y = y + x
        OBVIOUS
      <3>4. Len(ps[2].tabs) + Len(ps[1].tabs) <= MaxTabs
        BY <3>1, <3>2, <3>3
      <3> QED  BY <2>2, <3>4, TwoPanes
    <2> QED  BY <2>1, <2>2, TwoPanes
  <1>8. ps[p].active \in 1 .. Len(ps[p].tabs) /\ Distinct(ps[p].tabs)
    BY DEF Shape
  <1>9. Len(ps[p].tabs) \in 1 .. MaxTabs
    <2> DEFINE x == Len(ps[p].tabs)
               y == Len(ps[Other(p)].tabs)
    <2>1. x \in Nat /\ y \in Nat /\ x + y <= MaxTabs /\ MaxTabs \in Nat
      BY <1>3, <1>6, <1>7, TabsAssumption
    <2>2. ps[p].active \in Nat /\ 1 <= ps[p].active /\ ps[p].active <= x
      BY <1>1, <1>8
    <2> HIDE DEF x, y
    <2>3. x \in 1 .. MaxTabs
      BY <2>1, <2>2
    <2> QED  BY <2>3 DEF x
  <1> QED  BY <1>1, <1>2, <1>3, <1>4, <1>7, <1>8, <1>9

(* A record of a tab with a greater bound is one. *)
LEMMA MoreTabs ==
  ASSUME NEW n \in Nat, NEW m \in Nat, n <= m
  PROVE  TabsBelow(n) \subseteq TabsBelow(m) /\ Seq(TabsBelow(n)) \subseteq Seq(TabsBelow(m))
  <1>1. TabsBelow(n) \subseteq TabsBelow(m)
    <2>1. 1 .. n - 1 \subseteq 1 .. m - 1
      OBVIOUS
    <2> QED  BY <2>1 DEF TabsBelow
  <1> QED  BY <1>1, SeqMonotonic

IsPane(r) == r = [tabs |-> r.tabs, active |-> r.active]

(* A pane has its tabs and its active one. *)
LEMMA PaneRecord ==
  ASSUME NEW n \in Nat, NEW ps, Shape(ps, n), NEW p \in Panes
  PROVE  IsPane(ps[p])
  <1>1. ps[p] \in [tabs : Seq(TabsBelow(n)), active : Nat]
    BY DEF Shape, PanesBelow
  <1> QED  BY <1>1 DEF IsPane

(* One pane gets other tabs; the other pane's stay as they are. *)
LEMMA PaneReplaced ==
  ASSUME NEW n \in Nat, NEW m \in Nat, n <= m, NEW ps, Shape(ps, n), NEW p \in Panes,
         NEW s \in Seq(TabsBelow(m)), NEW a \in 1 .. Len(s), Distinct(s),
         Len(s) + Len(ps[Other(p)].tabs) <= MaxTabs,
         Uids(s) \cap Uids(ps[Other(p)].tabs) = {}
  PROVE  /\ Shape(WithPane(ps, p, s, a), m)
         /\ WithPane(ps, p, s, a)[p] = [tabs |-> s, active |-> a]
         /\ WithPane(ps, p, s, a)[Other(p)] = ps[Other(p)]
         /\ AllIn(WithPane(ps, p, s, a)) = ToSet(s) \cup ToSet(ps[Other(p)].tabs)
  <1> DEFINE q == Other(p)
             qs == WithPane(ps, p, s, a)
  <1>1. q \in Panes /\ q # p /\ (\A k \in Panes : k = p \/ k = q) /\ {p, q} = {1, 2}
    BY TwoPanes
  <1>2. ps \in PanesBelow(n) /\ DOMAIN ps = Panes
    BY DEF Shape, PanesBelow
  <1>3. qs[p] = [tabs |-> s, active |-> a] /\ qs[q] = ps[q]
        /\ qs = [k \in Panes |-> IF k = p THEN [tabs |-> s, active |-> a] ELSE ps[k]]
    BY <1>1, <1>2 DEF WithPane
  <1>4. Len(s) \in Nat /\ a \in Nat
    BY LenProperties
  <1>5. /\ ps[q].tabs \in Seq(TabsBelow(n)) /\ ps[q].active \in Nat
        /\ ps[q] = [tabs |-> ps[q].tabs, active |-> ps[q].active]
        /\ ps[q].active \in 1 .. Len(ps[q].tabs) /\ Distinct(ps[q].tabs)
        /\ Len(ps[q].tabs) \in Nat
    <2> HIDE DEF q, qs
    <2>1. q \in Panes
      BY <1>1
    <2>2. ps[q] = [tabs |-> ps[q].tabs, active |-> ps[q].active]
      <3>1. IsPane(ps[q])
        BY <2>1, PaneRecord
      <3> QED  BY <3>1 DEF IsPane
    <2>3. ps[q].tabs \in Seq(TabsBelow(n)) /\ ps[q].active \in Nat
      BY <2>1, ShapeTypes
    <2>4. /\ ps[q].active \in 1 .. Len(ps[q].tabs) /\ Distinct(ps[q].tabs)
          /\ Len(ps[q].tabs) \in Nat
      BY <2>1, ShapeTypes
    <2> QED  BY <2>2, <2>3, <2>4
  <1>6. qs \in PanesBelow(m)
    <2>1. ps[q].tabs \in Seq(TabsBelow(m))
      BY <1>5, MoreTabs
    <2>2. \A k \in Panes : qs[k] \in [tabs : Seq(TabsBelow(m)), active : Nat]
      BY <1>1, <1>3, <1>4, <1>5, <2>1
    <2> QED  BY <1>3, <2>2 DEF PanesBelow
  <1> HIDE DEF q, qs
  <1>7. \A k \in Panes : qs[k].active \in 1 .. Len(qs[k].tabs) /\ Distinct(qs[k].tabs)
    BY <1>1, <1>3, <1>5
  <1>8. Len(qs[1].tabs) + Len(qs[2].tabs) <= MaxTabs
    <2>1. Len(s) + Len(ps[q].tabs) <= MaxTabs /\ MaxTabs \in Nat
      BY TabsAssumption DEF q
    <2>2. qs[p].tabs = s /\ qs[q].tabs = ps[q].tabs
      BY <1>3
    <2>3. Len(qs[p].tabs) + Len(qs[q].tabs) <= MaxTabs
      BY <2>1, <2>2
    <2>4. (p = 1 /\ q = 2) \/ (p = 2 /\ q = 1)
      BY <1>1
    <2>5. Len(qs[p].tabs) + Len(qs[q].tabs) = Len(qs[q].tabs) + Len(qs[p].tabs)
      BY <1>4, <1>5, <2>2
    <2> QED  BY <2>3, <2>4, <2>5
  <1>9. Uids(qs[1].tabs) \cap Uids(qs[2].tabs) = {}
    <2>1. Uids(qs[p].tabs) \cap Uids(qs[q].tabs) = {}
      BY <1>3 DEF q
    <2> QED  BY <1>1, <2>1
  <1>10. AllIn(qs) = ToSet(s) \cup ToSet(ps[q].tabs)
    <2>1. AllIn(qs) = ToSet(qs[p].tabs) \cup ToSet(qs[q].tabs)
      BY <1>1 DEF AllIn
    <2> QED  BY <1>3, <2>1
  <1>11. Shape(qs, m)
    BY <1>6, <1>7, <1>8, <1>9 DEF Shape
  <1> QED  BY <1>3, <1>10, <1>11 DEF q, qs

(* Panes whose tabs have changed but for their uids are as well shaped. *)
LEMMA ShapeKept ==
  ASSUME NEW n \in Nat, NEW ps, Shape(ps, n), NEW qs \in PanesBelow(n),
         \A p \in Panes : /\ Len(qs[p].tabs) = Len(ps[p].tabs)
                          /\ qs[p].active \in 1 .. Len(ps[p].tabs)
                          /\ \A i \in 1 .. Len(ps[p].tabs) :
                               qs[p].tabs[i].uid = ps[p].tabs[i].uid
  PROVE  Shape(qs, n)
  <1>1. \A p \in Panes : Distinct(qs[p].tabs)
    BY DEF Shape, Distinct
  <1>2. \A p \in Panes : Uids(qs[p].tabs) = Uids(ps[p].tabs)
    <2> SUFFICES ASSUME NEW p \in Panes PROVE Uids(qs[p].tabs) = Uids(ps[p].tabs)
      OBVIOUS
    <2>1. qs[p].tabs \in Seq(TabsBelow(n)) /\ ps[p].tabs \in Seq(TabsBelow(n))
      BY DEF PanesBelow, Shape
    <2>2. /\ \A t : t \in ToSet(qs[p].tabs) <=> \E i \in 1 .. Len(qs[p].tabs) : qs[p].tabs[i] = t
          /\ \A t : t \in ToSet(ps[p].tabs) <=> \E i \in 1 .. Len(ps[p].tabs) : ps[p].tabs[i] = t
      BY <2>1, InSequence
    <2>3. ASSUME NEW u \in Uids(qs[p].tabs) PROVE u \in Uids(ps[p].tabs)
      <3>1. PICK t \in ToSet(qs[p].tabs) : u = t.uid
        BY DEF Uids
      <3>2. PICK i \in 1 .. Len(ps[p].tabs) : qs[p].tabs[i] = t
        BY <2>2
      <3>3. u = ps[p].tabs[i].uid /\ ps[p].tabs[i] \in ToSet(ps[p].tabs)
        BY <2>2, <3>1, <3>2
      <3> QED  BY <3>3 DEF Uids
    <2>4. ASSUME NEW u \in Uids(ps[p].tabs) PROVE u \in Uids(qs[p].tabs)
      <3>1. PICK t \in ToSet(ps[p].tabs) : u = t.uid
        BY DEF Uids
      <3>2. PICK i \in 1 .. Len(ps[p].tabs) : ps[p].tabs[i] = t
        BY <2>2
      <3>3. u = qs[p].tabs[i].uid /\ qs[p].tabs[i] \in ToSet(qs[p].tabs)
        BY <2>2, <3>1, <3>2
      <3> QED  BY <3>3 DEF Uids
    <2> QED  BY <2>3, <2>4
  <1>3. Uids(qs[1].tabs) \cap Uids(qs[2].tabs) = {}
    BY <1>2, TwoPanes DEF Shape
  <1>4. Len(qs[1].tabs) + Len(qs[2].tabs) <= MaxTabs
    BY TwoPanes DEF Shape
  <1> QED  BY <1>1, <1>3, <1>4 DEF Shape

(* Every tab has one place, and every place one uid. *)
LEMMA OnePlace ==
  ASSUME NEW n \in Nat, NEW ps, Shape(ps, n)
  PROVE  /\ \A p \in Panes : \A i : <<p, i>> \in AllPlaces(ps) <=> i \in 1 .. Len(ps[p].tabs)
         /\ \A l \in AllPlaces(ps) : /\ l = <<l[1], l[2]>> /\ l[1] \in Panes
                                     /\ l[2] \in 1 .. Len(ps[l[1]].tabs)
                                     /\ TabAt(ps, l) = ps[l[1]].tabs[l[2]]
                                     /\ TabAt(ps, l) \in AllIn(ps) /\ TabAt(ps, l) \in TabsBelow(n)
         /\ \A t \in AllIn(ps) : \E l \in AllPlaces(ps) : TabAt(ps, l) = t
         /\ \A l, k \in AllPlaces(ps) : TabAt(ps, l).uid = TabAt(ps, k).uid => l = k
         /\ \A t, u \in AllIn(ps) : t.uid = u.uid => t = u
         /\ AllIn(ps) \subseteq TabsBelow(n)
  <1> DEFINE s(p) == ps[p].tabs
  <1>1. ASSUME NEW p \in Panes
        PROVE  /\ Len(s(p)) \in 1 .. MaxTabs /\ Distinct(s(p))
               /\ s(p) \in Seq(TabsBelow(n)) /\ ToSet(s(p)) \subseteq TabsBelow(n)
               /\ \A i \in 1 .. Len(s(p)) : s(p)[i] \in TabsBelow(n)
               /\ \A t : t \in ToSet(s(p)) <=> \E i \in 1 .. Len(s(p)) : s(p)[i] = t
    <2>1. s(p) \in Seq(TabsBelow(n))
      BY ShapeTypes
    <2>2. \A t : t \in ToSet(s(p)) <=> \E i \in 1 .. Len(s(p)) : s(p)[i] = t
      BY <2>1, InSequence
    <2> QED  BY <2>2, ShapeTypes
  <1>2. ASSUME NEW p \in Panes, NEW i
        PROVE  <<p, i>> \in AllPlaces(ps) <=> i \in 1 .. Len(s(p))
    <2>1. Len(s(p)) \in 1 .. MaxTabs /\ MaxTabs \in Nat
      BY <1>1, TabsAssumption
    <2>2. <<p, i>> \in AllPlaces(ps) <=> i \in 1 .. MaxTabs /\ i <= Len(s(p))
      BY DEF AllPlaces
    <2> QED  BY <2>1, <2>2
  <1>3. AllIn(ps) = ToSet(s(1)) \cup ToSet(s(2))
    BY DEF AllIn
  <1>4. ASSUME NEW l \in AllPlaces(ps)
        PROVE  /\ l = <<l[1], l[2]>> /\ l[1] \in Panes
               /\ l[2] \in 1 .. Len(s(l[1])) /\ TabAt(ps, l) = s(l[1])[l[2]]
               /\ TabAt(ps, l) \in AllIn(ps) /\ TabAt(ps, l) \in TabsBelow(n)
    <2>1. l = <<l[1], l[2]>> /\ l[1] \in Panes
      BY DEF AllPlaces
    <2>2. l[2] \in 1 .. Len(s(l[1])) /\ TabAt(ps, l) = s(l[1])[l[2]]
      BY <1>2, <2>1 DEF TabAt
    <2>3. TabAt(ps, l) \in ToSet(s(l[1])) /\ TabAt(ps, l) \in TabsBelow(n)
      BY <1>1, <2>1, <2>2
    <2>4. TabAt(ps, l) \in AllIn(ps)
      BY <1>3, <2>1, <2>3, TwoPanes
    <2> QED  BY <2>1, <2>2, <2>3, <2>4
  <1>5. ASSUME NEW t \in AllIn(ps)
        PROVE  \E l \in AllPlaces(ps) : TabAt(ps, l) = t
    <2>1. PICK p \in Panes : t \in ToSet(s(p))
      BY <1>3, TwoPanes
    <2>2. PICK i \in 1 .. Len(s(p)) : s(p)[i] = t
      BY <1>1, <2>1
    <2>3. <<p, i>> \in AllPlaces(ps) /\ TabAt(ps, <<p, i>>) = t
      BY <1>2, <2>2 DEF TabAt
    <2> QED  BY <2>3
  <1>6. ASSUME NEW l \in AllPlaces(ps), NEW k \in AllPlaces(ps),
               TabAt(ps, l).uid = TabAt(ps, k).uid
        PROVE  l = k
    <2>1. CASE l[1] = k[1]
      <3>1. l[2] = k[2]
        BY <1>1, <1>4, <1>6, <2>1 DEF Distinct
      <3> QED  BY <1>4, <2>1, <3>1
    <2>2. CASE l[1] # k[1]
      <3>1. TabAt(ps, l) \in ToSet(s(l[1])) /\ TabAt(ps, k) \in ToSet(s(k[1]))
        BY <1>1, <1>4
      <3>2. TabAt(ps, l).uid \in Uids(s(l[1])) \cap Uids(s(k[1]))
        BY <1>6, <3>1 DEF Uids
      <3>3. Uids(s(l[1])) \cap Uids(s(k[1])) = {}
        BY <1>4, <2>2, TwoPanes DEF Shape
      <3> QED  BY <3>2, <3>3
    <2> QED  BY <2>1, <2>2
  <1>7. ASSUME NEW t \in AllIn(ps), NEW u \in AllIn(ps), t.uid = u.uid
        PROVE  t = u
    <2>1. PICK l \in AllPlaces(ps) : TabAt(ps, l) = t
      BY <1>5
    <2>2. PICK k \in AllPlaces(ps) : TabAt(ps, k) = u
      BY <1>5
    <2> QED  BY <1>6, <1>7, <2>1, <2>2
  <1>8. AllIn(ps) \subseteq TabsBelow(n)
    BY <1>1, <1>3, TwoPanes
  <1> HIDE DEF s
  <1>9. \A p \in Panes : \A i : <<p, i>> \in AllPlaces(ps) <=> i \in 1 .. Len(ps[p].tabs)
    BY <1>2 DEF s
  <1>10. \A l \in AllPlaces(ps) : /\ l = <<l[1], l[2]>> /\ l[1] \in Panes
                                  /\ l[2] \in 1 .. Len(ps[l[1]].tabs)
                                  /\ TabAt(ps, l) = ps[l[1]].tabs[l[2]]
                                  /\ TabAt(ps, l) \in AllIn(ps) /\ TabAt(ps, l) \in TabsBelow(n)
    BY <1>4 DEF s
  <1> QED  BY <1>5, <1>6, <1>7, <1>8, <1>9, <1>10

------------------------------------------------------------------------------
(* Requests: what they leave of the tabs, and what they see to.            *)

WatcherSet(n) ==
  [pane : Panes, uid : 1 .. n, folder : Folders, subtree : BOOLEAN, state : WatcherStates]
NoteSet(n) == [pane : Panes, uid : 1 .. n]

Alike(t, u) ==
  /\ u.uid = t.uid /\ u.path = t.path /\ u.back = t.back /\ u.fwd = t.fwd
  /\ u.locked = t.locked /\ u.flatten = t.flatten

Watched(t, ws) ==
  t.path \in Watchable =>
    \E w \in ws : w.uid = t.uid /\ w.folder = t.path /\ w.subtree = t.flatten

Awaited(t, as) == t.loading => \E a \in as : a.uid = t.uid

Cared(t, ws, as) == Watched(t, ws) /\ Awaited(t, as)

Loading(t) == [t EXCEPT !.loading = TRUE]

Requested(ps, S) ==
  [p \in Panes |->
     [ps[p] EXCEPT !.tabs = [i \in DOMAIN @ |->
        IF <<p, i>> \in S THEN [@[i] EXCEPT !.loading = TRUE] ELSE @[i]]]]

(* A request marks the tabs it is for as loading. *)
LEMMA RequestedTabs ==
  ASSUME NEW n \in Nat, NEW ps, Shape(ps, n), NEW S
  PROVE  /\ Shape(Requested(ps, S), n)
         /\ AllPlaces(Requested(ps, S)) = AllPlaces(ps)
         /\ \A l \in AllPlaces(ps) :
              TabAt(Requested(ps, S), l) = IF l \in S THEN Loading(TabAt(ps, l)) ELSE TabAt(ps, l)
         /\ \A p \in Panes : /\ Requested(ps, S)[p].active = ps[p].active
                             /\ Len(Requested(ps, S)[p].tabs) = Len(ps[p].tabs)
  <1> DEFINE qs == Requested(ps, S)
             r(p, i) == IF <<p, i>> \in S THEN Loading(ps[p].tabs[i]) ELSE ps[p].tabs[i]
             s(p) == [i \in 1 .. Len(ps[p].tabs) |-> r(p, i)]
  <1>1. ASSUME NEW p \in Panes
        PROVE  qs[p] = [tabs |-> s(p), active |-> ps[p].active]
    <2>1. /\ ps[p] = [tabs |-> ps[p].tabs, active |-> ps[p].active]
          /\ DOMAIN ps[p].tabs = 1 .. Len(ps[p].tabs)
      <3>1. IsPane(ps[p])
        BY PaneRecord
      <3>2. DOMAIN ps[p].tabs = 1 .. Len(ps[p].tabs)
        BY ShapeTypes
      <3> QED  BY <3>1, <3>2 DEF IsPane
    <2>2. qs[p] = [ps[p] EXCEPT !.tabs = s(p)]
      BY <2>1 DEF Requested, Loading
    <2> HIDE DEF qs, s
    <2> QED  BY <2>1, <2>2
  <1>2. ASSUME NEW t \in TabsBelow(n) PROVE Loading(t) \in TabsBelow(n) /\ Loading(t).uid = t.uid
    BY DEF TabsBelow, Loading
  <1>3. ASSUME NEW p \in Panes
        PROVE  /\ s(p) \in Seq(TabsBelow(n)) /\ Len(s(p)) = Len(ps[p].tabs)
               /\ \A i \in 1 .. Len(ps[p].tabs) :
                    s(p)[i] = r(p, i) /\ r(p, i).uid = ps[p].tabs[i].uid
    <2>1. /\ Len(ps[p].tabs) \in Nat
          /\ \A i \in 1 .. Len(ps[p].tabs) : ps[p].tabs[i] \in TabsBelow(n)
      BY ShapeTypes
    <2>2. \A i \in 1 .. Len(ps[p].tabs) :
            r(p, i) \in TabsBelow(n) /\ r(p, i).uid = ps[p].tabs[i].uid
      BY <1>2, <2>1
    <2> HIDE DEF r
    <2>3. s(p) \in [1 .. Len(ps[p].tabs) -> TabsBelow(n)]
      BY <2>2
    <2>4. s(p) \in Seq(TabsBelow(n)) /\ Len(s(p)) = Len(ps[p].tabs)
      BY <2>1, <2>3
    <2> QED  BY <2>2, <2>4
  <1>4. qs \in PanesBelow(n)
    <2>1. \A p \in Panes : qs[p] \in [tabs : Seq(TabsBelow(n)), active : Nat]
      <3> SUFFICES ASSUME NEW p \in Panes
                   PROVE  qs[p] \in [tabs : Seq(TabsBelow(n)), active : Nat]
        OBVIOUS
      <3>1. ps[p].active \in Nat
        BY ShapeTypes
      <3>2. s(p) \in Seq(TabsBelow(n))
        BY <1>3
      <3>3. qs[p] = [tabs |-> s(p), active |-> ps[p].active]
        BY <1>1
      <3> HIDE DEF qs, s
      <3> QED  BY <3>1, <3>2, <3>3
    <2>2. qs = [p \in Panes |-> qs[p]]
      BY DEF Requested
    <2> HIDE DEF qs
    <2> QED  BY <2>1, <2>2 DEF PanesBelow
  <1> HIDE DEF qs, s
  <1>5. \A p \in Panes : /\ Len(qs[p].tabs) = Len(ps[p].tabs)
                         /\ qs[p].active = ps[p].active
                         /\ qs[p].active \in 1 .. Len(ps[p].tabs)
                         /\ \A i \in 1 .. Len(ps[p].tabs) :
                              qs[p].tabs[i] = r(p, i) /\ qs[p].tabs[i].uid = ps[p].tabs[i].uid
    <2> HIDE DEF r
    <2> SUFFICES ASSUME NEW p \in Panes
                 PROVE  /\ Len(qs[p].tabs) = Len(ps[p].tabs)
                        /\ qs[p].active = ps[p].active
                        /\ qs[p].active \in 1 .. Len(ps[p].tabs)
                        /\ \A i \in 1 .. Len(ps[p].tabs) :
                              qs[p].tabs[i] = r(p, i) /\ qs[p].tabs[i].uid = ps[p].tabs[i].uid
      OBVIOUS
    <2>1. ps[p].active \in 1 .. Len(ps[p].tabs)
      BY ShapeTypes
    <2>2. qs[p] = [tabs |-> s(p), active |-> ps[p].active]
      BY <1>1
    <2>3. qs[p].tabs = s(p) /\ qs[p].active = ps[p].active
      BY <2>2
    <2>4. /\ Len(s(p)) = Len(ps[p].tabs)
          /\ \A i \in 1 .. Len(ps[p].tabs) : s(p)[i] = r(p, i) /\ r(p, i).uid = ps[p].tabs[i].uid
      BY <1>3
    <2> QED  BY <2>1, <2>3, <2>4
  <1>6. Shape(qs, n)
    <2> HIDE DEF r
    <2> QED  BY <1>4, <1>5, ShapeKept
  <1>7. AllPlaces(qs) = AllPlaces(ps)
    BY <1>5 DEF AllPlaces
  <1>8. ASSUME NEW l \in AllPlaces(ps)
        PROVE  TabAt(qs, l) = IF l \in S THEN Loading(TabAt(ps, l)) ELSE TabAt(ps, l)
    <2>1. /\ l = <<l[1], l[2]>> /\ l[1] \in Panes /\ l[2] \in 1 .. Len(ps[l[1]].tabs)
          /\ TabAt(ps, l) = ps[l[1]].tabs[l[2]]
      BY OnePlace
    <2>2. TabAt(qs, l) = r(l[1], l[2])
      BY <1>5, <2>1 DEF TabAt
    <2> QED  BY <2>1, <2>2
  <1> QED  BY <1>5, <1>6, <1>7, <1>8 DEF qs

(* A watcher that is made for a tab is of its folder. *)
LEMMA WatcherFacts ==
  ASSUME NEW n \in Nat, NEW ps, NEW l, l[1] \in Panes, TabAt(ps, l).uid \in 1 .. n,
         TabAt(ps, l).path \in Folders, TabAt(ps, l).flatten \in BOOLEAN
  PROVE  /\ \A s : /\ WatcherFor(ps, l, s).uid = TabAt(ps, l).uid
                   /\ WatcherFor(ps, l, s).folder = TabAt(ps, l).path
                   /\ WatcherFor(ps, l, s).subtree = TabAt(ps, l).flatten
         /\ \A s \in WatcherStates : WatcherFor(ps, l, s) \in WatcherSet(n)
         /\ \A failing : \E s \in WatcherStates : Started(ps, l, failing) = WatcherFor(ps, l, s)
  <1>1. \A s : /\ WatcherFor(ps, l, s).uid = TabAt(ps, l).uid
               /\ WatcherFor(ps, l, s).folder = TabAt(ps, l).path
               /\ WatcherFor(ps, l, s).subtree = TabAt(ps, l).flatten
    BY DEF WatcherFor
  <1>2. ASSUME NEW s \in WatcherStates PROVE WatcherFor(ps, l, s) \in WatcherSet(n)
    <2> DEFINE u == TabAt(ps, l).uid
               f == TabAt(ps, l).path
               d == TabAt(ps, l).flatten
    <2>1. WatcherFor(ps, l, s) = [pane |-> l[1], uid |-> u, folder |-> f, subtree |-> d, state |-> s]
      BY DEF WatcherFor
    <2>2. l[1] \in Panes /\ u \in 1 .. n /\ f \in Folders /\ d \in BOOLEAN
      OBVIOUS
    <2> HIDE DEF u, f, d
    <2> QED  BY <2>1, <2>2 DEF WatcherSet
  <1>3. ASSUME NEW failing
        PROVE  \E s \in WatcherStates : Started(ps, l, failing) = WatcherFor(ps, l, s)
    BY DEF Started, WatcherStates
  <1> QED  BY <1>1, <1>2, <1>3

(* A request sees to the tabs it is for and to no others: afterwards every *)
(* tab that was seen to, or is asked for, is watched and awaited.          *)
LEMMA RequestKeeps ==
  ASSUME NEW n \in Nat, NEW ps, Shape(ps, n), NEW S \in SUBSET AllPlaces(ps),
         RequestListings(ps, S), watchers \subseteq WatcherSet(n), asked \subseteq NoteSet(n),
         \A l \in AllPlaces(ps) \ S : Cared(TabAt(ps, l), watchers, asked)
  PROVE  /\ Shape(panes', n)
         /\ watchers' \subseteq WatcherSet(n) /\ asked' \subseteq NoteSet(n)
         /\ \A u \in AllIn(panes') : /\ Cared(u, watchers', asked')
                                     /\ \E t \in AllIn(ps) : Alike(t, u)
         /\ \A t \in AllIn(ps) : \E u \in AllIn(panes') : Alike(t, u)
  <1>1. panes' = Requested(ps, S)
    BY DEF RequestListings, Requested
  <1>2. /\ Shape(panes', n) /\ AllPlaces(panes') = AllPlaces(ps)
        /\ \A l \in AllPlaces(ps) :
             TabAt(panes', l) = IF l \in S THEN Loading(TabAt(ps, l)) ELSE TabAt(ps, l)
    BY <1>1, RequestedTabs
  <1>3. ASSUME NEW l \in AllPlaces(ps)
        PROVE  /\ l[1] \in Panes /\ TabAt(ps, l) \in TabsBelow(n) /\ TabAt(ps, l) \in AllIn(ps)
               /\ TabAt(ps, l).uid \in 1 .. n /\ TabAt(ps, l).path \in Folders
               /\ TabAt(ps, l).flatten \in BOOLEAN
               /\ Alike(TabAt(ps, l), TabAt(panes', l))
               /\ l \notin S => TabAt(panes', l) = TabAt(ps, l)
    <2>1. l[1] \in Panes /\ TabAt(ps, l) \in TabsBelow(n) /\ TabAt(ps, l) \in AllIn(ps)
      BY OnePlace
    <2>2. TabAt(ps, l).uid \in 1 .. n /\ TabAt(ps, l).path \in Folders
          /\ TabAt(ps, l).flatten \in BOOLEAN
      BY <2>1 DEF TabsBelow
    <2>3. Alike(TabAt(ps, l), Loading(TabAt(ps, l))) /\ Alike(TabAt(ps, l), TabAt(ps, l))
      BY <2>1 DEF Alike, Loading, TabsBelow
    <2> QED  BY <1>2, <2>1, <2>2, <2>3
  <1>4. PICK failing \in SUBSET S : watchers' = EnsureWatchers(ps, S, failing)
    BY DEF RequestListings
  <1>5. watchers' \subseteq WatcherSet(n)
    <2> SUFFICES ASSUME NEW w \in watchers' PROVE w \in WatcherSet(n)
      OBVIOUS
    <2>1. CASE w \in watchers
      BY <2>1
    <2>2. CASE w \notin watchers
      <3>1. PICK l \in S : w = Started(ps, l, failing)
        BY <1>4, <2>2 DEF EnsureWatchers
      <3> QED  BY <1>3, <3>1, WatcherFacts
    <2> QED  BY <2>1, <2>2
  <1>6. asked' = {a \in asked : \A l \in S : TabAt(ps, l).uid # a.uid}
                 \cup {[pane |-> l[1], uid |-> TabAt(ps, l).uid] : l \in S}
    BY DEF RequestListings
  <1>7. asked' \subseteq NoteSet(n)
    <2> SUFFICES ASSUME NEW a \in asked' PROVE a \in NoteSet(n)
      OBVIOUS
    <2>1. CASE a \in asked
      BY <2>1
    <2>2. CASE a \notin asked
      <3>1. PICK l \in S : a = [pane |-> l[1], uid |-> TabAt(ps, l).uid]
        BY <1>6, <2>2
      <3> QED  BY <1>3, <3>1 DEF NoteSet
    <2> QED  BY <2>1, <2>2
  <1>8. ASSUME NEW l \in S
        PROVE  Cared(TabAt(panes', l), watchers', asked')
    <2>1. l \in AllPlaces(ps)
      OBVIOUS
    <2>2. Alike(TabAt(ps, l), TabAt(panes', l))
      BY <1>3, <2>1
    <2>3. [pane |-> l[1], uid |-> TabAt(ps, l).uid] \in asked'
      BY <1>6
    <2>4. Awaited(TabAt(panes', l), asked')
      BY <2>2, <2>3 DEF Awaited, Alike
    <2>5. ASSUME TabAt(ps, l).path \in Watchable
          PROVE  \E s \in WatcherStates : WatcherFor(ps, l, s) \in watchers'
      <3>1. CASE \E w \in watchers : Serves(w, ps, l)
        <4>1. PICK w \in watchers : Serves(w, ps, l)
          BY <3>1
        <4>2. PICK s \in WatcherStates : w = WatcherFor(ps, l, s)
          BY <4>1 DEF Serves
        <4>3. ASSUME NEW k \in S, UnderKey(w, ps, k) PROVE k = l
          <5>1. TabAt(ps, k).uid = TabAt(ps, l).uid
            BY <1>3, <2>1, <4>2, <4>3, WatcherFacts DEF UnderKey
          <5> QED  BY <2>1, <5>1, OnePlace
        <4> QED  BY <1>4, <4>1, <4>2, <4>3 DEF EnsureWatchers
      <3>2. CASE \A w \in watchers : ~Serves(w, ps, l)
        <4>1. Started(ps, l, failing) \in watchers'
          BY <1>4, <2>5, <3>2 DEF EnsureWatchers
        <4> QED  BY <1>3, <2>1, <4>1, WatcherFacts
      <3> QED  BY <3>1, <3>2
    <2>6. Watched(TabAt(panes', l), watchers')
      <3>1. ASSUME TabAt(ps, l).path \in Watchable
            PROVE  \E w \in watchers' : /\ w.uid = TabAt(ps, l).uid
                                        /\ w.folder = TabAt(ps, l).path
                                        /\ w.subtree = TabAt(ps, l).flatten
        BY <1>3, <2>1, <2>5, <3>1, WatcherFacts
      <3> QED  BY <2>2, <3>1 DEF Watched, Alike
    <2> QED  BY <2>4, <2>6 DEF Cared
  <1>9. ASSUME NEW l \in AllPlaces(ps), l \notin S
        PROVE  Cared(TabAt(panes', l), watchers', asked')
    <2> DEFINE t == TabAt(ps, l)
    <2>1. TabAt(panes', l) = t /\ Cared(t, watchers, asked)
      BY <1>3, <1>9
    <2>2. \A k \in S : TabAt(ps, k).uid # t.uid
      BY <1>9, OnePlace
    <2> HIDE DEF t
    <2>3. Watched(t, watchers')
      <3>1. ASSUME NEW w \in watchers, w.uid = t.uid PROVE w \in watchers'
        BY <1>4, <2>2, <3>1 DEF EnsureWatchers, UnderKey
      <3> QED  BY <2>1, <3>1 DEF Watched, Cared
    <2>4. Awaited(t, asked')
      <3>1. ASSUME NEW a \in asked, a.uid = t.uid PROVE a \in asked'
        BY <1>6, <2>2, <3>1
      <3> QED  BY <2>1, <3>1 DEF Awaited, Cared
    <2> QED  BY <2>1, <2>3, <2>4 DEF Cared
  <1>10. ASSUME NEW u \in AllIn(panes')
         PROVE  Cared(u, watchers', asked') /\ \E t \in AllIn(ps) : Alike(t, u)
    <2>1. PICK l \in AllPlaces(ps) : TabAt(panes', l) = u
      BY <1>2, OnePlace
    <2> QED  BY <1>3, <1>8, <1>9, <2>1
  <1>11. ASSUME NEW t \in AllIn(ps)
         PROVE  \E u \in AllIn(panes') : Alike(t, u)
    <2>1. PICK l \in AllPlaces(ps) : TabAt(ps, l) = t
      BY OnePlace
    <2>2. TabAt(panes', l) \in AllIn(panes')
      BY <1>2, OnePlace
    <2> QED  BY <1>3, <2>1, <2>2
  <1> QED  BY <1>2, <1>5, <1>7, <1>10, <1>11

------------------------------------------------------------------------------
(* Histories: what a step may make of the tab t.                           *)

Steady(t) == \A i \in 1 .. Len(Trail(t)) - 1 : Trail(t)[i] # Trail(t)[i + 1]

Goes(t, u) ==
  \/ Trail(u) = Trail(t)
  \/ u.fwd = <<>> /\ u.back = Append(t.back, t.path)

Stays(t, u) == t.locked => u.path \in ToSet(Trail(t)) \cup {Parent[t.path]}

Descends(t, u) ==
  u.uid = t.uid /\ Goes(t, u) /\ Stays(t, u) /\ (Steady(t) => Steady(u))

(* The folders of a trail, place by place: back, here, ahead. *)
IsTrail(tr, b, x, f) ==
  /\ tr \in Seq(Folders) /\ Len(tr) = Len(b) + 1 + Len(f)
  /\ Len(b) \in Nat /\ Len(f) \in Nat
  /\ \A i \in 1 .. Len(b) + 1 + Len(f) :
       tr[i] = IF i <= Len(b) THEN b[i]
               ELSE IF i = Len(b) + 1 THEN x
               ELSE f[Len(f) - i + Len(b) + 2]

(* A history is such a trail. *)
LEMMA TrailIs ==
  ASSUME NEW b \in Seq(Folders), NEW x \in Folders, NEW f \in Seq(Folders)
  PROVE  IsTrail(b \o <<x>> \o Reverse(f), b, x, f)
  <1> DEFINE c == b \o <<x>>
             g == Reverse(f)
             tr == c \o g
  <1>1. /\ Len(b) \in Nat /\ Len(f) \in Nat
        /\ \A i \in 1 .. Len(f) : f[i] \in Folders
    BY InSequence
  <1>2. <<x>> \in Seq(Folders) /\ Len(<<x>>) = 1 /\ <<x>>[1] = x
    OBVIOUS
  <1>3. /\ c \in Seq(Folders) /\ Len(c) = Len(b) + 1
        /\ \A i \in 1 .. Len(b) + 1 : c[i] = IF i <= Len(b) THEN b[i] ELSE <<x>>[i - Len(b)]
    BY <1>2, ConcatProperties
  <1>4. \A i \in 1 .. Len(b) + 1 : c[i] = IF i <= Len(b) THEN b[i] ELSE x
    <2> SUFFICES ASSUME NEW i \in 1 .. Len(b) + 1
                 PROVE  c[i] = IF i <= Len(b) THEN b[i] ELSE x
      OBVIOUS
    <2>1. CASE i <= Len(b)
      BY <1>3, <2>1
    <2>2. CASE ~(i <= Len(b))
      <3>1. i - Len(b) = 1
        BY <1>1, <2>2
      <3> QED  BY <1>2, <1>3, <2>2, <3>1
    <2> QED  BY <2>1, <2>2
  <1>5. /\ g \in Seq(Folders) /\ Len(g) = Len(f)
        /\ \A j \in 1 .. Len(f) : g[j] = f[(Len(f) - j) + 1]
    <2>1. g = [j \in 1 .. Len(f) |-> f[(Len(f) - j) + 1]]
      BY DEF Reverse
    <2>2. \A j \in 1 .. Len(f) : (Len(f) - j) + 1 \in 1 .. Len(f)
      BY <1>1
    <2>3. \A j \in 1 .. Len(f) : f[(Len(f) - j) + 1] \in Folders
      BY <1>1, <2>2
    <2> HIDE DEF g
    <2>4. g \in [1 .. Len(f) -> Folders]
      BY <2>1, <2>3
    <2> QED  BY <1>1, <2>1, <2>4
  <1> HIDE DEF c, g
  <1>6. /\ tr \in Seq(Folders) /\ Len(tr) = Len(c) + Len(g)
        /\ \A i \in 1 .. Len(c) + Len(g) : tr[i] = IF i <= Len(c) THEN c[i] ELSE g[i - Len(c)]
    <2>1. c \in Seq(Folders)
      BY <1>3
    <2>2. g \in Seq(Folders)
      BY <1>5
    <2> QED  BY <2>1, <2>2, ConcatProperties
  <1> HIDE DEF tr
  <1>7. ASSUME NEW i \in 1 .. Len(b) + 1 + Len(f)
        PROVE  tr[i] = IF i <= Len(b) THEN b[i]
                       ELSE IF i = Len(b) + 1 THEN x ELSE f[Len(f) - i + Len(b) + 2]
    <2>1. CASE i <= Len(b) + 1
      <3>1. i \in 1 .. Len(b) + 1
        BY <2>1, <1>1
      <3>2. tr[i] = c[i]
        BY <1>1, <1>3, <1>5, <1>6, <2>1
      <3>3. i <= Len(b) \/ i = Len(b) + 1
        BY <1>1, <2>1
      <3>4. i = Len(b) + 1 => ~(i <= Len(b))
        BY <1>1
      <3> QED  BY <1>4, <3>1, <3>2, <3>3, <3>4
    <2>2. CASE ~(i <= Len(b) + 1)
      <3>1. i - Len(c) \in 1 .. Len(f)
        BY <1>1, <1>3, <2>2
      <3>2. (Len(f) - (i - Len(c))) + 1 = Len(f) - i + Len(b) + 2
        BY <1>1, <1>3
      <3>3. tr[i] = g[i - Len(c)]
        BY <1>1, <1>3, <1>5, <1>6, <2>2
      <3>4. g[i - Len(c)] = f[(Len(f) - (i - Len(c))) + 1]
        BY <1>5, <3>1
      <3>5. ~(i <= Len(b)) /\ i # Len(b) + 1
        BY <1>1, <2>2
      <3> QED  BY <3>2, <3>3, <3>4, <3>5
    <2> QED  BY <2>1, <2>2
  <1>8. Len(tr) = Len(b) + 1 + Len(f)
    BY <1>3, <1>5, <1>6
  <1>9. IsTrail(tr, b, x, f)
    BY <1>1, <1>6, <1>7, <1>8 DEF IsTrail
  <1> QED  BY <1>9 DEF tr, c, g

(* The trail of a tab. *)
LEMMA TrailOf ==
  ASSUME NEW n \in Nat, NEW t \in TabsBelow(n)
  PROVE  /\ t.back \in Seq(Folders) /\ t.fwd \in Seq(Folders) /\ t.path \in Folders
         /\ Len(t.back) \in Nat /\ Len(t.fwd) \in Nat
         /\ Trail(t) \in Seq(Folders) /\ Len(Trail(t)) = Len(t.back) + 1 + Len(t.fwd)
         /\ \A i \in 1 .. Len(t.back) + 1 + Len(t.fwd) :
              Trail(t)[i] = IF i <= Len(t.back) THEN t.back[i]
                            ELSE IF i = Len(t.back) + 1 THEN t.path
                            ELSE t.fwd[Len(t.fwd) - i + Len(t.back) + 2]
         /\ t.path \in ToSet(Trail(t))
  <1>1. t.back \in Seq(Folders) /\ t.fwd \in Seq(Folders) /\ t.path \in Folders
    BY DEF TabsBelow
  <1>2. /\ Len(t.back) \in Nat /\ Len(t.fwd) \in Nat
        /\ Trail(t) \in Seq(Folders) /\ Len(Trail(t)) = Len(t.back) + 1 + Len(t.fwd)
        /\ \A i \in 1 .. Len(t.back) + 1 + Len(t.fwd) :
             Trail(t)[i] = IF i <= Len(t.back) THEN t.back[i]
                           ELSE IF i = Len(t.back) + 1 THEN t.path
                           ELSE t.fwd[Len(t.fwd) - i + Len(t.back) + 2]
    <2>1. IsTrail(Trail(t), t.back, t.path, t.fwd)
      BY <1>1, TrailIs DEF Trail
    <2> QED  BY <2>1 DEF IsTrail
  <1>3. /\ Len(t.back) + 1 \in 1 .. Len(t.back) + 1 + Len(t.fwd)
        /\ ~(Len(t.back) + 1 <= Len(t.back))
    <2>1. \A x, y \in Nat : x + 1 \in 1 .. x + 1 + y /\ ~(x + 1 <= x)
      OBVIOUS
    <2>2. Len(t.back) \in Nat /\ Len(t.fwd) \in Nat
      BY <1>2
    <2> QED  BY <2>1, <2>2
  <1>4. t.path \in ToSet(Trail(t))
    <2>1. Trail(t)[Len(t.back) + 1] = t.path /\ Len(t.back) + 1 \in 1 .. Len(Trail(t))
      BY <1>2, <1>3
    <2>2. Trail(t) \in Seq(Folders)
      BY <1>2
    <2>3. \A x : x \in ToSet(Trail(t)) <=> \E i \in 1 .. Len(Trail(t)) : Trail(t)[i] = x
      BY <2>2, InSequence
    <2> QED  BY <2>1, <2>3
  <1> QED  BY <1>1, <1>2, <1>4

(* A tab that only loads, or is only locked, has the history it had. *)
LEMMA AlikeDescends ==
  ASSUME NEW n \in Nat, NEW t \in TabsBelow(n), NEW u,
         u.uid = t.uid, u.path = t.path, u.back = t.back, u.fwd = t.fwd
  PROVE  Descends(t, u)
  <1>1. Trail(u) = Trail(t)
    BY DEF Trail
  <1>2. u.path \in ToSet(Trail(t))
    BY TrailOf
  <1> QED  BY <1>1, <1>2 DEF Descends, Goes, Stays, Steady

(* What is made of a descendant, its history left alone, is one. *)
LEMMA DescendsOn ==
  ASSUME NEW t, NEW u, NEW v, Descends(t, u), Alike(u, v)
  PROVE  Descends(t, v)
  <1>1. Trail(v) = Trail(u) /\ v.path = u.path /\ v.uid = u.uid
        /\ v.fwd = u.fwd /\ v.back = u.back
    BY DEF Trail, Alike
  <1> QED  BY <1>1 DEF Descends, Goes, Stays, Steady

(* Going elsewhere adds the folder left to the trail, and no folder twice. *)
LEMMA NavigatedDescends ==
  ASSUME NEW n \in Nat, NEW t \in TabsBelow(n), NEW to \in Folders,
         ~t.locked \/ to \in {t.path, Parent[t.path]}
  PROVE  Navigated(t, to) \in TabsBelow(n) /\ Descends(t, Navigated(t, to))
  <1> DEFINE u == Navigated(t, to)
  <1>1. CASE to = t.path
    <2>1. u = t
      BY <1>1 DEF Navigated
    <2> QED  BY <2>1, AlikeDescends
  <1>2. CASE to # t.path
    <2>1. /\ t.back \in Seq(Folders) /\ t.path \in Folders
          /\ Append(t.back, t.path) \in Seq(Folders) /\ <<>> \in Seq(Folders)
      <3>1. t.back \in Seq(Folders) /\ t.path \in Folders
        BY TrailOf
      <3> QED  BY <3>1, AppendProperties
    <2>2. /\ u \in TabsBelow(n) /\ u.uid = t.uid /\ u.path = to
          /\ u.back = Append(t.back, t.path) /\ u.fwd = <<>>
      BY <1>2, <2>1 DEF Navigated, Moved, TabsBelow
    <2> HIDE DEF u
    <2>3. Goes(t, u) /\ Stays(t, u)
      <3>1. Goes(t, u)
        BY <2>2 DEF Goes
      <3>2. t.path \in ToSet(Trail(t))
        BY TrailOf
      <3> QED  BY <2>2, <3>1, <3>2 DEF Stays
    <2>4. ASSUME Steady(t), NEW i \in 1 .. Len(Trail(u)) - 1
          PROVE  Trail(u)[i] # Trail(u)[i + 1]
      <3> DEFINE B == Len(t.back)
      <3>1. /\ B \in Nat /\ Len(u.back) = B + 1 /\ Len(u.fwd) = 0
            /\ \A j \in 1 .. B : u.back[j] = t.back[j]
            /\ u.back[B + 1] = t.path
        BY <2>1, <2>2, AppendProperties, LenProperties
      <3>2. /\ Len(Trail(u)) = B + 2
            /\ \A j \in 1 .. B + 2 : Trail(u)[j] = IF j <= B + 1 THEN u.back[j]
                                                   ELSE IF j = B + 2 THEN to
                                                   ELSE u.fwd[0 - j + (B + 1) + 2]
        <4>1. /\ Len(Trail(u)) = Len(u.back) + 1 + Len(u.fwd)
              /\ \A j \in 1 .. Len(u.back) + 1 + Len(u.fwd) :
                   Trail(u)[j] = IF j <= Len(u.back) THEN u.back[j]
                                 ELSE IF j = Len(u.back) + 1 THEN u.path
                                 ELSE u.fwd[Len(u.fwd) - j + Len(u.back) + 2]
          BY <2>2, TrailOf
        <4>2. (B + 1) + 1 + 0 = B + 2 /\ (B + 1) + 1 = B + 2
          BY <3>1
        <4>3. Len(u.back) = B + 1 /\ Len(u.fwd) = 0 /\ u.path = to
          BY <2>2, <3>1
        <4> HIDE DEF B
        <4>4. /\ Len(Trail(u)) = (B + 1) + 1 + 0
              /\ \A j \in 1 .. (B + 1) + 1 + 0 :
                   Trail(u)[j] = IF j <= B + 1 THEN u.back[j]
                                 ELSE IF j = (B + 1) + 1 THEN to
                                 ELSE u.fwd[0 - j + (B + 1) + 2]
          BY <4>1, <4>3
        <4> QED  BY <4>2, <4>4
      <3>3. /\ Len(Trail(t)) >= B + 1
            /\ \A j \in 1 .. B : Trail(t)[j] = t.back[j]
            /\ Trail(t)[B + 1] = t.path
        <4>1. /\ Len(t.fwd) \in Nat /\ Len(Trail(t)) = Len(t.back) + 1 + Len(t.fwd)
              /\ \A j \in 1 .. Len(t.back) + 1 + Len(t.fwd) :
                   Trail(t)[j] = IF j <= Len(t.back) THEN t.back[j]
                                 ELSE IF j = Len(t.back) + 1 THEN t.path
                                 ELSE t.fwd[Len(t.fwd) - j + Len(t.back) + 2]
          BY TrailOf
        <4>2. Len(t.fwd) \in Nat /\ Len(t.back) \in Nat
          BY TrailOf
        <4>3. B \in Nat /\ B = Len(t.back)
          BY <3>1
        <4> HIDE DEF B
        <4>4. ASSUME NEW j \in 1 .. B PROVE Trail(t)[j] = t.back[j]
          <5>1. \A x, y \in Nat : \A k \in 1 .. x : k \in 1 .. x + 1 + y /\ k <= x
            OBVIOUS
          <5>2. j \in 1 .. Len(t.back) + 1 + Len(t.fwd) /\ j <= Len(t.back)
            BY <4>2, <4>3, <5>1
          <5> QED  BY <4>1, <5>2
        <4>5. /\ B + 1 \in 1 .. Len(t.back) + 1 + Len(t.fwd)
              /\ ~(B + 1 <= Len(t.back)) /\ B + 1 = Len(t.back) + 1
          <5>1. \A x, y \in Nat : x + 1 \in 1 .. x + 1 + y /\ ~(x + 1 <= x)
            OBVIOUS
          <5> QED  BY <4>2, <4>3, <5>1
        <4>6. Trail(t)[B + 1] = t.path
          BY <4>1, <4>5
        <4>7. Len(Trail(t)) >= B + 1
          <5>1. \A x, y \in Nat : x + 1 + y >= x + 1
            OBVIOUS
          <5> QED  BY <4>2, <4>1, <4>3, <5>1
        <4> QED  BY <4>4, <4>6, <4>7
      <3> HIDE DEF B
      <3>4. \A j \in 1 .. B + 1 : Trail(u)[j] = Trail(t)[j]
        <4> SUFFICES ASSUME NEW j \in 1 .. B + 1 PROVE Trail(u)[j] = Trail(t)[j]
          OBVIOUS
        <4>1. j \in 1 .. B \/ j = B + 1
          BY <3>1
        <4>2. Trail(u)[j] = u.back[j]
          BY <3>1, <3>2
        <4> QED  BY <3>1, <3>3, <4>1, <4>2
      <3>5. Trail(u)[B + 2] = to
        BY <3>1, <3>2
      <3>6. Len(Trail(t)) \in Nat
        BY TrailOf, LenProperties
      <3>7. CASE i \in 1 .. B
        <4>1. i \in 1 .. Len(Trail(t)) - 1 /\ i + 1 \in 1 .. B + 1 /\ i \in 1 .. B + 1
          BY <3>1, <3>3, <3>6, <3>7
        <4>2. Trail(t)[i] # Trail(t)[i + 1]
          BY <2>4, <4>1 DEF Steady
        <4> QED  BY <3>4, <4>1, <4>2
      <3>8. CASE i = B + 1
        <4>1. i + 1 = B + 2 /\ i \in 1 .. B + 1
          BY <3>1, <3>8
        <4> QED  BY <1>2, <3>3, <3>4, <3>5, <3>8, <4>1
      <3> QED  BY <3>1, <3>2, <3>7, <3>8
    <2> QED  BY <2>2, <2>3, <2>4 DEF Descends, Steady, u
  <1> QED  BY <1>1, <1>2

(* The last folder of a sequence and the ones before it. *)
LEMMA FrontAndLast ==
  ASSUME NEW s \in Seq(Folders), s # <<>>
  PROVE  /\ Len(s) \in Nat \ {0} /\ Last(s) \in Folders /\ Last(s) = s[Len(s)]
         /\ Front(s) \in Seq(Folders) /\ Len(Front(s)) = Len(s) - 1
         /\ \A i \in 1 .. Len(s) - 1 : Front(s)[i] = s[i]
  <1>1. Len(s) \in Nat \ {0}
    BY EmptySeq
  <1>2. \A i \in 1 .. Len(s) : s[i] \in Folders
    BY InSequence
  <1>3. Last(s) \in Folders /\ Last(s) = s[Len(s)]
    BY <1>1, <1>2 DEF Last
  <1>4. 1 \in Int /\ Len(s) - 1 \in Int /\ \A i \in 1 .. Len(s) - 1 : s[i] \in Folders
    BY <1>1, <1>2
  <1>5. /\ SubSeq(s, 1, Len(s) - 1) \in Seq(Folders)
        /\ Len(SubSeq(s, 1, Len(s) - 1)) = IF 1 <= Len(s) - 1 THEN Len(s) - 1 - 1 + 1 ELSE 0
        /\ \A i \in 1 .. Len(s) - 1 - 1 + 1 : SubSeq(s, 1, Len(s) - 1)[i] = s[1 + i - 1]
    BY <1>4, SubSeqProperties
  <1>6. /\ (IF 1 <= Len(s) - 1 THEN Len(s) - 1 - 1 + 1 ELSE 0) = Len(s) - 1
        /\ Len(s) - 1 - 1 + 1 = Len(s) - 1
        /\ \A i \in 1 .. Len(s) - 1 : 1 + i - 1 = i
    BY <1>1
  <1> QED  BY <1>1, <1>3, <1>5, <1>6 DEF Front

(* Going back keeps the trail. *)
LEMMA WentBackDescends ==
  ASSUME NEW n \in Nat, NEW t \in TabsBelow(n), t.back # <<>>
  PROVE  WentBack(t) \in TabsBelow(n) /\ Descends(t, WentBack(t))
  <1> DEFINE u == WentBack(t)
             B == Len(t.back)
             F == Len(t.fwd)
  <1>1. /\ t.back \in Seq(Folders) /\ t.fwd \in Seq(Folders) /\ t.path \in Folders
        /\ F \in Nat /\ Len(Trail(t)) = B + 1 + F
        /\ Trail(t) \in Seq(Folders)
        /\ \A i \in 1 .. B + 1 + F :
             Trail(t)[i] = IF i <= B THEN t.back[i]
                           ELSE IF i = B + 1 THEN t.path ELSE t.fwd[F - i + B + 2]
    BY TrailOf
  <1>2. /\ B \in Nat \ {0} /\ Last(t.back) \in Folders /\ Last(t.back) = t.back[B]
        /\ Front(t.back) \in Seq(Folders) /\ Len(Front(t.back)) = B - 1
        /\ \A i \in 1 .. B - 1 : Front(t.back)[i] = t.back[i]
    BY <1>1, FrontAndLast
  <1>3. /\ Append(t.fwd, t.path) \in Seq(Folders) /\ Len(Append(t.fwd, t.path)) = F + 1
        /\ \A i \in 1 .. F : Append(t.fwd, t.path)[i] = t.fwd[i]
        /\ Append(t.fwd, t.path)[F + 1] = t.path
    BY <1>1, AppendProperties
  <1>4. /\ u \in TabsBelow(n) /\ u.uid = t.uid /\ u.path = Last(t.back)
        /\ u.back = Front(t.back) /\ u.fwd = Append(t.fwd, t.path)
    BY <1>1, <1>2, <1>3 DEF WentBack, Moved, TabsBelow
  <1> HIDE DEF u
  <1>5. /\ Trail(u) \in Seq(Folders) /\ Len(Trail(u)) = (B - 1) + 1 + (F + 1)
        /\ \A i \in 1 .. (B - 1) + 1 + (F + 1) :
             Trail(u)[i] = IF i <= B - 1 THEN u.back[i]
                           ELSE IF i = (B - 1) + 1 THEN u.path
                           ELSE u.fwd[(F + 1) - i + (B - 1) + 2]
    <2>1. Len(u.back) = B - 1 /\ Len(u.fwd) = F + 1
      BY <1>2, <1>3, <1>4
    <2>2. /\ Trail(u) \in Seq(Folders) /\ Len(Trail(u)) = Len(u.back) + 1 + Len(u.fwd)
          /\ \A i \in 1 .. Len(u.back) + 1 + Len(u.fwd) :
               Trail(u)[i] = IF i <= Len(u.back) THEN u.back[i]
                             ELSE IF i = Len(u.back) + 1 THEN u.path
                             ELSE u.fwd[Len(u.fwd) - i + Len(u.back) + 2]
      BY <1>4, TrailOf
    <2> HIDE DEF B, F
    <2> QED  BY <2>1, <2>2
  <1> HIDE DEF B, F
  <1>6. Len(Trail(u)) = B + 1 + F
    BY <1>1, <1>2, <1>5
  <1>7. ASSUME NEW i \in 1 .. B + 1 + F PROVE Trail(u)[i] = Trail(t)[i]
    <2>1. i \in 1 .. (B - 1) + 1 + (F + 1) /\ (B - 1) + 1 = B
          /\ (F + 1) - i + (B - 1) + 2 = F - i + B + 2
      BY <1>1, <1>2
    <2>2. CASE i <= B - 1
      <3>1. i \in 1 .. B - 1 /\ i <= B
        BY <1>2, <2>2
      <3> QED  BY <1>1, <1>2, <1>4, <1>5, <2>1, <2>2, <3>1
    <2>3. CASE i = B
      <3>1. i <= B /\ ~(i <= B - 1)
        BY <1>2, <2>3
      <3> QED  BY <1>1, <1>2, <1>4, <1>5, <2>1, <2>3, <3>1
    <2>4. CASE i = B + 1
      <3>1. /\ ~(i <= B) /\ ~(i <= B - 1) /\ i # B
            /\ F - i + B + 2 = F + 1 /\ F + 1 \in 1 .. F + 1
        <4>1. \A x, y \in Nat : /\ ~(x + 1 <= x) /\ ~(x + 1 <= x - 1) /\ x + 1 # x
                                /\ y - (x + 1) + x + 2 = y + 1 /\ y + 1 \in 1 .. y + 1
          OBVIOUS
        <4>2. B \in Nat /\ F \in Nat
          BY <1>1, <1>2
        <4>3. /\ ~(B + 1 <= B) /\ ~(B + 1 <= B - 1) /\ B + 1 # B
              /\ F - (B + 1) + B + 2 = F + 1 /\ F + 1 \in 1 .. F + 1
          BY <4>1, <4>2
        <4> QED  BY <2>4, <4>3
      <3> QED  BY <1>1, <1>3, <1>4, <1>5, <2>1, <2>4, <3>1
    <2>5. CASE i > B + 1
      <3>1. /\ ~(i <= B) /\ ~(i <= B - 1) /\ i # B /\ i # B + 1
            /\ F - i + B + 2 \in 1 .. F
        <4>1. \A x, y \in Nat : \A k \in 1 .. x + 1 + y : k > x + 1 =>
                /\ ~(k <= x) /\ ~(k <= x - 1) /\ k # x /\ k # x + 1
                /\ y - k + x + 2 \in 1 .. y
          OBVIOUS
        <4>2. B \in Nat /\ F \in Nat
          BY <1>1, <1>2
        <4> QED  BY <2>5, <4>1, <4>2
      <3> QED  BY <1>1, <1>3, <1>4, <1>5, <2>1, <3>1
    <2> QED  BY <1>1, <1>2, <2>2, <2>3, <2>4, <2>5
  <1>8. Trail(u) = Trail(t)
    BY <1>1, <1>5, <1>6, <1>7, SeqEqual
  <1>9. u.path \in ToSet(Trail(t))
    BY <1>4, <1>8, TrailOf
  <1>10. Descends(t, u)
    BY <1>4, <1>8, <1>9 DEF Descends, Goes, Stays, Steady
  <1> QED  BY <1>4, <1>10 DEF u

(* Going forward keeps the trail. *)
LEMMA WentForwardDescends ==
  ASSUME NEW n \in Nat, NEW t \in TabsBelow(n), t.fwd # <<>>
  PROVE  WentForward(t) \in TabsBelow(n) /\ Descends(t, WentForward(t))
  <1> DEFINE u == WentForward(t)
             B == Len(t.back)
             F == Len(t.fwd)
  <1>1. /\ t.back \in Seq(Folders) /\ t.fwd \in Seq(Folders) /\ t.path \in Folders
        /\ B \in Nat /\ Len(Trail(t)) = B + 1 + F
        /\ Trail(t) \in Seq(Folders)
        /\ \A i \in 1 .. B + 1 + F :
             Trail(t)[i] = IF i <= B THEN t.back[i]
                           ELSE IF i = B + 1 THEN t.path ELSE t.fwd[F - i + B + 2]
    BY TrailOf
  <1>2. /\ F \in Nat \ {0} /\ Last(t.fwd) \in Folders /\ Last(t.fwd) = t.fwd[F]
        /\ Front(t.fwd) \in Seq(Folders) /\ Len(Front(t.fwd)) = F - 1
        /\ \A i \in 1 .. F - 1 : Front(t.fwd)[i] = t.fwd[i]
    BY <1>1, FrontAndLast
  <1>3. /\ Append(t.back, t.path) \in Seq(Folders) /\ Len(Append(t.back, t.path)) = B + 1
        /\ \A i \in 1 .. B : Append(t.back, t.path)[i] = t.back[i]
        /\ Append(t.back, t.path)[B + 1] = t.path
    BY <1>1, AppendProperties
  <1>4. /\ u \in TabsBelow(n) /\ u.uid = t.uid /\ u.path = Last(t.fwd)
        /\ u.fwd = Front(t.fwd) /\ u.back = Append(t.back, t.path)
    BY <1>1, <1>2, <1>3 DEF WentForward, Moved, TabsBelow
  <1> HIDE DEF u
  <1>5. /\ Trail(u) \in Seq(Folders) /\ Len(Trail(u)) = (B + 1) + 1 + (F - 1)
        /\ \A i \in 1 .. (B + 1) + 1 + (F - 1) :
             Trail(u)[i] = IF i <= B + 1 THEN u.back[i]
                           ELSE IF i = (B + 1) + 1 THEN u.path
                           ELSE u.fwd[(F - 1) - i + (B + 1) + 2]
    <2>1. Len(u.back) = B + 1 /\ Len(u.fwd) = F - 1
      BY <1>2, <1>3, <1>4
    <2>2. /\ Trail(u) \in Seq(Folders) /\ Len(Trail(u)) = Len(u.back) + 1 + Len(u.fwd)
          /\ \A i \in 1 .. Len(u.back) + 1 + Len(u.fwd) :
               Trail(u)[i] = IF i <= Len(u.back) THEN u.back[i]
                             ELSE IF i = Len(u.back) + 1 THEN u.path
                             ELSE u.fwd[Len(u.fwd) - i + Len(u.back) + 2]
      BY <1>4, TrailOf
    <2> HIDE DEF B, F
    <2> QED  BY <2>1, <2>2
  <1> HIDE DEF B, F
  <1>6. Len(Trail(u)) = B + 1 + F
    BY <1>1, <1>2, <1>5
  <1>7. ASSUME NEW i \in 1 .. B + 1 + F PROVE Trail(u)[i] = Trail(t)[i]
    <2>1. i \in 1 .. (B + 1) + 1 + (F - 1) /\ (B + 1) + 1 = B + 2
          /\ (F - 1) - i + (B + 1) + 2 = F - i + B + 2
      BY <1>1, <1>2
    <2>2. CASE i <= B
      <3>1. i \in 1 .. B /\ i <= B + 1
        BY <1>1, <2>2
      <3> QED  BY <1>1, <1>3, <1>4, <1>5, <2>1, <2>2, <3>1
    <2>3. CASE i = B + 1
      <3>1. i <= B + 1 /\ ~(i <= B)
        BY <1>1, <2>3
      <3> QED  BY <1>1, <1>3, <1>4, <1>5, <2>1, <2>3, <3>1
    <2>4. CASE i = B + 2
      <3>1. ~(i <= B) /\ ~(i <= B + 1) /\ i # B + 1 /\ F - i + B + 2 = F
        <4>1. \A x, y \in Nat : /\ ~(x + 2 <= x) /\ ~(x + 2 <= x + 1) /\ x + 2 # x + 1
                                /\ y - (x + 2) + x + 2 = y
          OBVIOUS
        <4>2. B \in Nat /\ F \in Nat
          BY <1>1, <1>2
        <4>3. /\ ~(B + 2 <= B) /\ ~(B + 2 <= B + 1) /\ B + 2 # B + 1
              /\ F - (B + 2) + B + 2 = F
          BY <4>1, <4>2
        <4> QED  BY <2>4, <4>3
      <3> QED  BY <1>1, <1>2, <1>4, <1>5, <2>1, <2>4, <3>1
    <2>5. CASE i > B + 2
      <3>1. /\ ~(i <= B) /\ ~(i <= B + 1) /\ i # B + 1 /\ i # B + 2
            /\ F - i + B + 2 \in 1 .. F - 1
        <4>1. \A x, y \in Nat : \A k \in 1 .. x + 1 + y : k > x + 2 =>
                /\ ~(k <= x) /\ ~(k <= x + 1) /\ k # x + 1 /\ k # x + 2
                /\ y - k + x + 2 \in 1 .. y - 1
          OBVIOUS
        <4>2. B \in Nat /\ F \in Nat
          BY <1>1, <1>2
        <4> QED  BY <2>5, <4>1, <4>2
      <3>2. Trail(t)[i] = t.fwd[F - i + B + 2]
        BY <1>1, <3>1
      <3>3. Trail(u)[i] = u.fwd[(F - 1) - i + (B + 1) + 2]
        BY <1>5, <2>1, <3>1
      <3>4. Front(t.fwd)[F - i + B + 2] = t.fwd[F - i + B + 2]
        BY <1>2, <3>1
      <3> QED  BY <1>4, <2>1, <3>2, <3>3, <3>4
    <2> QED  BY <1>1, <1>2, <2>2, <2>3, <2>4, <2>5
  <1>8. Trail(u) = Trail(t)
    BY <1>1, <1>5, <1>6, <1>7, SeqEqual
  <1>9. u.path \in ToSet(Trail(t))
    BY <1>4, <1>8, TrailOf
  <1>10. Descends(t, u)
    BY <1>4, <1>8, <1>9 DEF Descends, Goes, Stays, Steady
  <1> QED  BY <1>4, <1>10 DEF u

------------------------------------------------------------------------------
(* The invariant of the tabs, and what a step makes of them.               *)

PanesInv ==
  /\ nextUid \in Nat \ {0} /\ Shape(panes, nextUid)
  /\ watchers \subseteq WatcherSet(nextUid)
  /\ notes \subseteq NoteSet(nextUid) /\ asked \subseteq NoteSet(nextUid)
  /\ activePane \in Panes /\ layout \in Layouts
  /\ \A t \in AllIn(panes) : Cared(t, watchers, asked) /\ Steady(t)

Closed(t) ==
  /\ ~t.locked
  /\ \E p \in Panes : /\ t \in ToSet(TabsOf(p))
                      /\ Len(panes'[p].tabs) = Len(TabsOf(p)) - 1
                      /\ panes'[Other(p)].tabs = TabsOf(Other(p))

New(u) == u.uid >= nextUid /\ Steady(u)

\* Every tab there is afterwards is new or was there before, and every tab
\* there was is there, but the one that was closed.
Descent ==
  /\ \A u \in AllIn(panes') : New(u) \/ \E t \in AllIn(panes) : Descends(t, u)
  /\ \A t \in AllIn(panes) : Closed(t) \/ \E u \in AllIn(panes') : Descends(t, u)

Frame == notes' \subseteq NoteSet(nextUid) /\ activePane' \in Panes /\ layout' \in Layouts

(* What is in a set stays in it when the uids go up. *)
LEMMA MoreUids ==
  ASSUME NEW n \in Nat, NEW m \in Nat, n <= m
  PROVE  WatcherSet(n) \subseteq WatcherSet(m) /\ NoteSet(n) \subseteq NoteSet(m)
  <1>1. 1 .. n \subseteq 1 .. m
    OBVIOUS
  <1> QED  BY <1>1 DEF WatcherSet, NoteSet

(* A step that asks for listings, the panes made ready for it being ps. *)
LEMMA RequestStep ==
  ASSUME PanesInv, NEW ps, nextUid' \in Nat, nextUid <= nextUid', Shape(ps, nextUid'), Frame,
         NEW S \in SUBSET AllPlaces(ps), RequestListings(ps, S),
         \A l \in AllPlaces(ps) \ S : TabAt(ps, l) \in AllIn(panes),
         \A u \in AllIn(ps) : New(u) \/ \E t \in AllIn(panes) : Descends(t, u),
         \A t \in AllIn(panes) : \E u \in AllIn(ps) : Descends(t, u)
  PROVE  PanesInv' /\ Descent
  <1> DEFINE m == nextUid'
  <1>1. m \in Nat /\ nextUid \in Nat \ {0} /\ nextUid <= m
    BY DEF PanesInv
  <1>2. WatcherSet(nextUid) \subseteq WatcherSet(m) /\ NoteSet(nextUid) \subseteq NoteSet(m)
    BY <1>1, MoreUids
  <1>3. watchers \subseteq WatcherSet(m) /\ asked \subseteq NoteSet(m)
    BY <1>2 DEF PanesInv
  <1>4. \A l \in AllPlaces(ps) \ S : Cared(TabAt(ps, l), watchers, asked)
    BY DEF PanesInv
  <1>5. Shape(ps, m)
    OBVIOUS
  <1> HIDE DEF m
  <1>6. /\ Shape(panes', m)
        /\ watchers' \subseteq WatcherSet(m) /\ asked' \subseteq NoteSet(m)
        /\ \A u \in AllIn(panes') : /\ Cared(u, watchers', asked')
                                    /\ \E t \in AllIn(ps) : Alike(t, u)
        /\ \A t \in AllIn(ps) : \E u \in AllIn(panes') : Alike(t, u)
    BY <1>1, <1>3, <1>4, <1>5, RequestKeeps
  <1>7. ASSUME NEW u \in AllIn(panes')
        PROVE  New(u) \/ \E t \in AllIn(panes) : Descends(t, u)
    <2>1. PICK v \in AllIn(ps) : Alike(v, u)
      BY <1>6
    <2>2. CASE New(v)
      <3>1. Trail(u) = Trail(v) /\ u.uid = v.uid
        BY <2>1 DEF Alike, Trail
      <3> QED  BY <2>2, <3>1 DEF New, Steady
    <2>3. CASE \E t \in AllIn(panes) : Descends(t, v)
      BY <2>1, <2>3, DescendsOn
    <2> QED  BY <2>2, <2>3
  <1>8. ASSUME NEW t \in AllIn(panes)
        PROVE  \E u \in AllIn(panes') : Descends(t, u)
    <2>1. PICK v \in AllIn(ps) : Descends(t, v)
      OBVIOUS
    <2>2. PICK u \in AllIn(panes') : Alike(v, u)
      BY <1>6
    <2> QED  BY <2>1, <2>2, DescendsOn
  <1>9. Descent
    BY <1>7, <1>8 DEF Descent
  <1>10. \A u \in AllIn(panes') : Steady(u)
    <2> SUFFICES ASSUME NEW u \in AllIn(panes') PROVE Steady(u)
      OBVIOUS
    <2>1. CASE New(u)
      BY <2>1 DEF New
    <2>2. CASE \E t \in AllIn(panes) : Descends(t, u)
      BY <2>2 DEF Descends, PanesInv
    <2> QED  BY <1>7, <2>1, <2>2
  <1>11. notes' \subseteq NoteSet(m) /\ activePane' \in Panes /\ layout' \in Layouts
    BY <1>2 DEF Frame
  <1>12. m \in Nat \ {0}
    BY <1>1
  <1>13. PanesInv'
    BY <1>6, <1>10, <1>11, <1>12 DEF PanesInv, m
  <1> QED  BY <1>9, <1>13

Twin(t, u) == u = t \/ u = [t EXCEPT !.locked = ~@]

(* A tab that is locked or unlocked has nothing else changed. *)
LEMMA TwinDescends ==
  ASSUME NEW n \in Nat, NEW t \in TabsBelow(n), NEW u, Twin(t, u)
  PROVE  /\ u \in TabsBelow(n) /\ u.uid = t.uid /\ Descends(t, u)
         /\ \A ws, as : Cared(t, ws, as) => Cared(u, ws, as)
  <1>1. /\ u \in TabsBelow(n) /\ u.uid = t.uid /\ u.path = t.path /\ u.back = t.back
        /\ u.fwd = t.fwd /\ u.flatten = t.flatten /\ u.loading = t.loading
    BY DEF Twin, TabsBelow
  <1>2. Descends(t, u)
    BY <1>1, AlikeDescends
  <1>3. \A ws, as : Cared(t, ws, as) => Cared(u, ws, as)
    BY <1>1 DEF Cared, Watched, Awaited
  <1> QED  BY <1>1, <1>2, <1>3

(* Such a step keeps the invariant. *)
LEMMA StillStep ==
  ASSUME PanesInv, UNCHANGED <<nextUid, watchers, asked>>, Frame, Shape(panes', nextUid),
         \A u \in AllIn(panes') : \E t \in AllIn(panes) : Twin(t, u),
         \A t \in AllIn(panes) : Closed(t) \/ \E u \in AllIn(panes') : Twin(t, u)
  PROVE  PanesInv' /\ Descent
  <1>1. nextUid \in Nat /\ Shape(panes, nextUid)
    BY DEF PanesInv
  <1>2. AllIn(panes) \subseteq TabsBelow(nextUid)
    BY <1>1, OnePlace
  <1>3. ASSUME NEW u \in AllIn(panes')
        PROVE  /\ \E t \in AllIn(panes) : Descends(t, u)
               /\ Cared(u, watchers, asked) /\ Steady(u)
    <2>1. PICK t \in AllIn(panes) : Twin(t, u)
      OBVIOUS
    <2>2. Descends(t, u) /\ (Cared(t, watchers, asked) => Cared(u, watchers, asked))
      BY <1>1, <1>2, <2>1, TwinDescends
    <2>3. Cared(t, watchers, asked) /\ Steady(t)
      BY DEF PanesInv
    <2> QED  BY <2>2, <2>3 DEF Descends
  <1>4. ASSUME NEW t \in AllIn(panes)
        PROVE  Closed(t) \/ \E u \in AllIn(panes') : Descends(t, u)
    <2>1. ASSUME NEW u \in AllIn(panes'), Twin(t, u) PROVE Descends(t, u)
      BY <1>1, <1>2, <2>1, TwinDescends
    <2> QED  BY <2>1
  <1>5. Descent
    BY <1>3, <1>4 DEF Descent
  <1>6. PanesInv'
    BY <1>3 DEF PanesInv, Frame
  <1> QED  BY <1>5, <1>6

------------------------------------------------------------------------------
(* Showing another folder, and opening a tab.                              *)

(* The tabs of a pane in a state of the invariant. *)
LEMMA PaneFacts ==
  ASSUME PanesInv, NEW p \in Panes
  PROVE  /\ nextUid \in Nat \ {0} /\ Shape(panes, nextUid)
         /\ TabsOf(p) \in Seq(TabsBelow(nextUid)) /\ TabsOf(p) = panes[p].tabs
         /\ panes[p] = [tabs |-> TabsOf(p), active |-> panes[p].active]
         /\ Len(TabsOf(p)) \in Nat /\ DOMAIN TabsOf(p) = 1 .. Len(TabsOf(p))
         /\ panes[p].active \in 1 .. Len(TabsOf(p)) /\ Active(p) = TabsOf(p)[panes[p].active]
         /\ Active(p) \in TabsBelow(nextUid)
         /\ Distinct(TabsOf(p)) /\ Uids(TabsOf(p)) \cap Uids(TabsOf(Other(p))) = {}
         /\ AllIn(panes) = ToSet(TabsOf(p)) \cup ToSet(TabsOf(Other(p)))
         /\ Len(TabsOf(p)) + Len(TabsOf(Other(p))) <= MaxTabs
         /\ TabCount = Len(TabsOf(p)) + Len(TabsOf(Other(p)))
         /\ Other(p) \in Panes
  <1>1. /\ nextUid \in Nat \ {0} /\ nextUid \in Nat /\ Shape(panes, nextUid)
        /\ Other(p) \in Panes
    BY TwoPanes DEF PanesInv
  <1>2. /\ panes[p] = [tabs |-> panes[p].tabs, active |-> panes[p].active]
        /\ panes[p].tabs \in Seq(TabsBelow(nextUid))
        /\ Len(panes[p].tabs) \in Nat /\ DOMAIN panes[p].tabs = 1 .. Len(panes[p].tabs)
        /\ panes[p].active \in 1 .. Len(panes[p].tabs)
        /\ Distinct(panes[p].tabs)
        /\ \A i \in 1 .. Len(panes[p].tabs) : panes[p].tabs[i] \in TabsBelow(nextUid)
        /\ Uids(panes[p].tabs) \cap Uids(panes[Other(p)].tabs) = {}
        /\ AllIn(panes) = ToSet(panes[p].tabs) \cup ToSet(panes[Other(p)].tabs)
        /\ Len(panes[p].tabs) + Len(panes[Other(p)].tabs) <= MaxTabs
    <2>1. nextUid \in Nat
      BY <1>1
    <2>2. Shape(panes, nextUid)
      BY <1>1
    <2>3. /\ panes[p] = [tabs |-> panes[p].tabs, active |-> panes[p].active]
          /\ panes[p].tabs \in Seq(TabsBelow(nextUid))
          /\ Len(panes[p].tabs) \in Nat /\ DOMAIN panes[p].tabs = 1 .. Len(panes[p].tabs)
          /\ panes[p].active \in 1 .. Len(panes[p].tabs)
          /\ Distinct(panes[p].tabs)
          /\ \A i \in 1 .. Len(panes[p].tabs) : panes[p].tabs[i] \in TabsBelow(nextUid)
      <3>1. panes[p] = [tabs |-> panes[p].tabs, active |-> panes[p].active]
        <4>1. IsPane(panes[p])
          BY <2>1, <2>2, PaneRecord
        <4> QED  BY <4>1 DEF IsPane
      <3>2. /\ panes[p].tabs \in Seq(TabsBelow(nextUid))
            /\ Len(panes[p].tabs) \in Nat /\ DOMAIN panes[p].tabs = 1 .. Len(panes[p].tabs)
        BY <2>1, <2>2, ShapeTypes
      <3>3. /\ panes[p].active \in 1 .. Len(panes[p].tabs)
            /\ Distinct(panes[p].tabs)
        BY <2>1, <2>2, ShapeTypes
      <3>4. \A i \in 1 .. Len(panes[p].tabs) : panes[p].tabs[i] \in TabsBelow(nextUid)
        BY <2>1, <2>2, ShapeTypes
      <3> QED  BY <3>1, <3>2, <3>3, <3>4
    <2>4. Uids(panes[p].tabs) \cap Uids(panes[Other(p)].tabs) = {}
      BY <2>1, <2>2, ShapeTypes
    <2>5. AllIn(panes) = ToSet(panes[p].tabs) \cup ToSet(panes[Other(p)].tabs)
      BY TwoPanes DEF AllIn
    <2>6. Len(panes[p].tabs) + Len(panes[Other(p)].tabs) <= MaxTabs
      BY <2>1, <2>2, ShapeTypes
    <2> QED  BY <2>3, <2>4, <2>5, <2>6
  <1>3. Len(panes[1].tabs) \in Nat /\ Len(panes[2].tabs) \in Nat
    BY <1>1, TwoPanes, ShapeTypes
  <1>4. TabCount = Len(TabsOf(p)) + Len(TabsOf(Other(p)))
    <2>1. \A x, y \in Nat : x + y = y + x
      OBVIOUS
    <2>2. CASE p = 1
      BY <2>2, TwoPanes DEF TabCount
    <2>3. CASE p = 2
      BY <1>3, <2>1, <2>3, TwoPanes DEF TabCount, TabsOf
    <2> QED  BY <2>2, <2>3, TwoPanes
  <1> QED  BY <1>1, <1>2, <1>4 DEF TabsOf, Active

(* Showing a folder in the active tab of a pane keeps the invariant. *)
LEMMA ShowStep ==
  ASSUME PanesInv, NEW p \in Panes, NEW t \in TabsBelow(nextUid),
         Descends(Active(p), t), ShowIn(p, t), nextUid' = nextUid, Frame
  PROVE  PanesInv' /\ Descent
  <1> DEFINE n == nextUid
             a == panes[p].active
             s == Replaced(TabsOf(p), a, t)
             ps == WithPane(panes, p, s, a)
             o == TabsOf(Other(p))
  <1>1. /\ n \in Nat /\ Shape(panes, n) /\ TabsOf(p) \in Seq(TabsBelow(n))
        /\ panes[p] = [tabs |-> TabsOf(p), active |-> a]
        /\ a \in 1 .. Len(TabsOf(p)) /\ Active(p) = TabsOf(p)[a] /\ Distinct(TabsOf(p))
        /\ Uids(TabsOf(p)) \cap Uids(o) = {} /\ AllIn(panes) = ToSet(TabsOf(p)) \cup ToSet(o)
        /\ Len(TabsOf(p)) + Len(o) <= MaxTabs /\ Active(p) \in TabsBelow(n)
        /\ panes[Other(p)].tabs = o
    BY PaneFacts DEF TabsOf
  <1>2. t.uid = TabsOf(p)[a].uid
    BY <1>1 DEF Descends
  <1>3. /\ s \in Seq(TabsBelow(n)) /\ Len(s) = Len(TabsOf(p)) /\ Distinct(s)
        /\ ToSet(s) = (ToSet(TabsOf(p)) \ {Active(p)}) \cup {t}
        /\ Uids(s) = Uids(TabsOf(p)) /\ s[a] = t
        /\ \A i \in 1 .. Len(TabsOf(p)) : i # a => s[i] = TabsOf(p)[i]
    <2>1. t \in TabsBelow(n)
      OBVIOUS
    <2> HIDE DEF n, a
    <2>2. TabsOf(p) \in Seq(TabsBelow(n))
      BY <1>1
    <2>3. a \in 1 .. Len(TabsOf(p))
      BY <1>1
    <2>4. Distinct(TabsOf(p))
      BY <1>1
    <2>5. /\ s \in Seq(TabsBelow(n)) /\ Len(s) = Len(TabsOf(p)) /\ Distinct(s)
          /\ ToSet(s) = (ToSet(TabsOf(p)) \ {TabsOf(p)[a]}) \cup {t}
          /\ Uids(s) = Uids(TabsOf(p)) /\ s[a] = t
          /\ \A i \in 1 .. Len(TabsOf(p)) : i # a => s[i] = TabsOf(p)[i]
      BY <1>2, <2>1, <2>2, <2>3, <2>4, TabChanged
    <2> QED  BY <1>1, <2>5
  <1>4. ps = [panes EXCEPT ![p].tabs[a] = t]
    <2>1. [panes EXCEPT ![p].tabs[a] = t] = [panes EXCEPT ![p] = [panes[p] EXCEPT !.tabs = s]]
      BY DEF TabsOf, Replaced
    <2>2. [panes[p] EXCEPT !.tabs = s] = [tabs |-> s, active |-> a]
      <3> HIDE DEF s, a
      <3> QED  BY <1>1
    <2> QED  BY <2>1, <2>2 DEF WithPane
  <1>5. RequestListings(ps, {<<p, a>>})
    BY <1>4 DEF ShowIn
  <1>6. n' \in Nat /\ n <= n' /\ n' = n
    BY <1>1
  <1>7. /\ Shape(ps, n) /\ ps[p] = [tabs |-> s, active |-> a] /\ ps[Other(p)] = panes[Other(p)]
        /\ AllIn(ps) = ToSet(s) \cup ToSet(o)
    <2>1. a \in 1 .. Len(s)
      BY <1>1, <1>3
    <2>3. Len(s) + Len(panes[Other(p)].tabs) <= MaxTabs
      BY <1>1, <1>3
    <2>4. Uids(s) \cap Uids(panes[Other(p)].tabs) = {}
      BY <1>1, <1>3
    <2>5. s \in Seq(TabsBelow(n)) /\ Distinct(s) /\ Shape(panes, n) /\ n \in Nat /\ n <= n
      BY <1>1, <1>3
    <2> HIDE DEF n, a, s, o
    <2>2. /\ Shape(ps, n) /\ ps[p] = [tabs |-> s, active |-> a] /\ ps[Other(p)] = panes[Other(p)]
          /\ AllIn(ps) = ToSet(s) \cup ToSet(panes[Other(p)].tabs)
      BY <2>1, <2>3, <2>4, <2>5, PaneReplaced
    <2> QED  BY <1>1, <2>2
  <1> HIDE DEF n, a, s, o, ps
  <1>8. /\ Active(p) \in ToSet(TabsOf(p))
        /\ \A u : u \in ToSet(TabsOf(p)) <=> \E i \in 1 .. Len(TabsOf(p)) : TabsOf(p)[i] = u
    BY <1>1, InSequence
  <1>9. <<p, a>> \in AllPlaces(ps)
    <2>1. a \in 1 .. Len(ps[p].tabs)
      BY <1>1, <1>3, <1>7
    <2> QED  BY <1>1, <1>7, <2>1, OnePlace
  <1>10. ASSUME NEW l \in AllPlaces(ps), l # <<p, a>> PROVE TabAt(ps, l) \in AllIn(panes)
    <2>1. /\ l = <<l[1], l[2]>> /\ l[1] \in Panes /\ l[2] \in 1 .. Len(ps[l[1]].tabs)
          /\ TabAt(ps, l) = ps[l[1]].tabs[l[2]]
      BY <1>1, <1>7, OnePlace
    <2>2. CASE l[1] = p
      <3>1. l[2] # a /\ l[2] \in 1 .. Len(TabsOf(p)) /\ TabAt(ps, l) = s[l[2]]
        BY <1>3, <1>7, <1>10, <2>1, <2>2
      <3>2. TabAt(ps, l) = TabsOf(p)[l[2]]
        BY <1>3, <3>1
      <3> QED  BY <1>1, <1>8, <3>1, <3>2
    <2>3. CASE l[1] = Other(p)
      <3>1. TabAt(ps, l) = panes[Other(p)].tabs[l[2]] /\ l[2] \in 1 .. Len(panes[Other(p)].tabs)
        BY <1>7, <2>1, <2>3
      <3>2. panes[Other(p)].tabs \in Seq(TabsBelow(n))
        BY <1>1, TwoPanes, ShapeTypes
      <3>3. TabAt(ps, l) \in ToSet(panes[Other(p)].tabs)
        BY <3>1, <3>2, InSequence
      <3> QED  BY <1>1, <3>3
    <2> QED  BY <2>1, <2>2, <2>3, TwoPanes
  <1>11. ASSUME NEW u \in TabsBelow(n) PROVE Descends(u, u)
    BY <1>1, <1>11, AlikeDescends
  <1>12. AllIn(panes) \subseteq TabsBelow(n)
    BY <1>1, OnePlace
  <1>13. \A u \in AllIn(ps) : New(u) \/ \E v \in AllIn(panes) : Descends(v, u)
    <2> SUFFICES ASSUME NEW u \in AllIn(ps) PROVE \E v \in AllIn(panes) : Descends(v, u)
      OBVIOUS
    <2>1. CASE u = t
      BY <1>1, <1>8, <2>1
    <2>2. CASE u # t
      <3>1. u \in AllIn(panes)
        BY <1>1, <1>3, <1>7, <2>2
      <3> QED  BY <1>11, <1>12, <3>1
    <2> QED  BY <2>1, <2>2
  <1>14. \A v \in AllIn(panes) : \E u \in AllIn(ps) : Descends(v, u)
    <2> SUFFICES ASSUME NEW v \in AllIn(panes) PROVE \E u \in AllIn(ps) : Descends(v, u)
      OBVIOUS
    <2>1. CASE v = Active(p)
      BY <1>3, <1>7, <2>1
    <2>2. CASE v # Active(p)
      <3>1. v \in AllIn(ps)
        BY <1>1, <1>3, <1>7, <2>2
      <3> QED  BY <1>11, <1>12, <3>1
    <2> QED  BY <2>1, <2>2
  <1>15. {<<p, a>>} \in SUBSET AllPlaces(ps)
    BY <1>9
  <1>16. \A l \in AllPlaces(ps) \ {<<p, a>>} : TabAt(ps, l) \in AllIn(panes)
    BY <1>10
  <1>17. nextUid' \in Nat /\ nextUid <= nextUid' /\ Shape(ps, nextUid')
    BY <1>6, <1>7 DEF n
  <1> QED  BY <1>5, <1>13, <1>14, <1>15, <1>16, <1>17, RequestStep

(* A new tab has been nowhere yet. *)
LEMMA NewTabFacts ==
  ASSUME NEW n \in Nat \ {0}, NEW f \in Folders
  PROVE  /\ NewTab(n, f) \in TabsBelow(n + 1) /\ NewTab(n, f).uid = n
         /\ Steady(NewTab(n, f))
  <1>1. <<>> \in Seq(Folders) /\ n \in 1 .. (n + 1) - 1 /\ n + 1 \in Nat /\ Len(<<>>) = 0
    BY EmptySeq
  <1>2. /\ NewTab(n, f) \in TabsBelow(n + 1) /\ NewTab(n, f).uid = n
        /\ NewTab(n, f).back = <<>> /\ NewTab(n, f).fwd = <<>>
    BY <1>1 DEF NewTab, TabsBelow
  <1>3. Len(Trail(NewTab(n, f))) = Len(NewTab(n, f).back) + 1 + Len(NewTab(n, f).fwd)
    BY <1>1, <1>2, TrailOf
  <1>4. Len(Trail(NewTab(n, f))) = 1
    BY <1>1, <1>2, <1>3
  <1> QED  BY <1>2, <1>4 DEF Steady

(* Opening a tab anywhere in a pane keeps the invariant. *)
LEMMA NewTabStep ==
  ASSUME PanesInv, NEW p \in Panes, NEW i \in 1 .. Len(TabsOf(p)) + 1,
         NEW a \in 1 .. Len(TabsOf(p)) + 1, NEW f \in Folders, TabCount < MaxTabs,
         RequestListings(WithPane(panes, p, InsertAt(TabsOf(p), i, NewTab(nextUid, f)), a),
                         {<<p, i>>}),
         nextUid' = nextUid + 1, Frame
  PROVE  PanesInv' /\ Descent
  <1> DEFINE n == nextUid
             m == nextUid + 1
             t == NewTab(nextUid, f)
             s == InsertAt(TabsOf(p), i, t)
             ps == WithPane(panes, p, s, a)
             o == TabsOf(Other(p))
  <1>1. /\ n \in Nat \ {0} /\ Shape(panes, n) /\ TabsOf(p) \in Seq(TabsBelow(n))
        /\ Distinct(TabsOf(p)) /\ Len(TabsOf(p)) \in Nat
        /\ Uids(TabsOf(p)) \cap Uids(o) = {} /\ AllIn(panes) = ToSet(TabsOf(p)) \cup ToSet(o)
        /\ Len(TabsOf(p)) + Len(o) < MaxTabs
        /\ panes[Other(p)].tabs = o /\ Other(p) \in Panes
    BY PaneFacts DEF TabsOf
  <1>2. m \in Nat /\ n <= m /\ n \in Nat
    BY <1>1
  <1>3. TabsOf(p) \in Seq(TabsBelow(m)) /\ t \in TabsBelow(m) /\ t.uid = n /\ Steady(t)
    BY <1>1, <1>2, MoreTabs, NewTabFacts
  <1>4. AllIn(panes) \subseteq TabsBelow(n) /\ \A u \in AllIn(panes) : u.uid # n
    <2>1. AllIn(panes) \subseteq TabsBelow(n)
      BY <1>1, <1>2, OnePlace
    <2>2. \A u \in TabsBelow(n) : u.uid # n
      BY <1>2 DEF TabsBelow
    <2> QED  BY <2>1, <2>2
  <1>5. t.uid \notin Uids(TabsOf(p)) /\ t.uid \notin Uids(o)
    <2> HIDE DEF n, t, o
    <2> QED  BY <1>1, <1>3, <1>4 DEF Uids
  <1>6. Len(o) \in Nat
    BY <1>1, PaneFacts
  <1> HIDE DEF n, m, t, o
  <1>7. /\ s \in Seq(TabsBelow(m)) /\ Len(s) = Len(TabsOf(p)) + 1 /\ Distinct(s)
        /\ ToSet(s) = ToSet(TabsOf(p)) \cup {t} /\ Uids(s) = Uids(TabsOf(p)) \cup {t.uid}
        /\ s[i] = t /\ \A j \in 1 .. Len(TabsOf(p)) + 1 : j # i => s[j] \in ToSet(TabsOf(p))
    BY <1>1, <1>3, <1>5, TabPut
  <1> HIDE DEF s
  <1>8. /\ Shape(ps, m) /\ ps[p] = [tabs |-> s, active |-> a] /\ ps[Other(p)] = panes[Other(p)]
        /\ AllIn(ps) = ToSet(s) \cup ToSet(o)
    <2>1. a \in 1 .. Len(s)
      BY <1>7
    <2>2. Len(s) + Len(panes[Other(p)].tabs) <= MaxTabs
      <3>1. \A x, y \in Nat : x + y < MaxTabs => x + 1 + y <= MaxTabs
        BY TabsAssumption
      <3> QED  BY <1>1, <1>6, <1>7, <3>1
    <2>3. Uids(s) \cap Uids(panes[Other(p)].tabs) = {}
      BY <1>1, <1>5, <1>7
    <2>4. /\ Shape(ps, m) /\ ps[p] = [tabs |-> s, active |-> a] /\ ps[Other(p)] = panes[Other(p)]
          /\ AllIn(ps) = ToSet(s) \cup ToSet(panes[Other(p)].tabs)
      <3>1. s \in Seq(TabsBelow(m)) /\ Distinct(s) /\ Shape(panes, n)
            /\ n \in Nat /\ m \in Nat /\ n <= m
        BY <1>1, <1>2, <1>7
      <3> QED  BY <2>1, <2>2, <2>3, <3>1, PaneReplaced
    <2> QED  BY <1>1, <2>4
  <1>9. RequestListings(ps, {<<p, i>>})
    BY DEF s, t
  <1> HIDE DEF ps
  <1>10. {<<p, i>>} \in SUBSET AllPlaces(ps)
    <2>1. i \in 1 .. Len(ps[p].tabs)
      BY <1>7, <1>8
    <2> QED  BY <1>2, <1>8, <2>1, OnePlace
  <1>11. ASSUME NEW l \in AllPlaces(ps), l # <<p, i>> PROVE TabAt(ps, l) \in AllIn(panes)
    <2>1. /\ l = <<l[1], l[2]>> /\ l[1] \in Panes /\ l[2] \in 1 .. Len(ps[l[1]].tabs)
          /\ TabAt(ps, l) = ps[l[1]].tabs[l[2]]
      BY <1>2, <1>8, OnePlace
    <2>2. CASE l[1] = p
      <3>1. l[2] # i /\ l[2] \in 1 .. Len(TabsOf(p)) + 1 /\ TabAt(ps, l) = s[l[2]]
        BY <1>7, <1>8, <1>11, <2>1, <2>2
      <3> QED  BY <1>1, <1>7, <3>1
    <2>3. CASE l[1] = Other(p)
      <3>1. TabAt(ps, l) = panes[Other(p)].tabs[l[2]] /\ l[2] \in 1 .. Len(panes[Other(p)].tabs)
        BY <1>8, <2>1, <2>3
      <3>2. panes[Other(p)].tabs \in Seq(TabsBelow(n))
        BY <1>1, <1>2, ShapeTypes
      <3>3. TabAt(ps, l) \in ToSet(panes[Other(p)].tabs)
        BY <3>1, <3>2, InSequence
      <3> QED  BY <1>1, <3>3
    <2> QED  BY <2>1, <2>2, <2>3, TwoPanes
  <1>12. ASSUME NEW u \in TabsBelow(n) PROVE Descends(u, u)
    BY <1>2, <1>12, AlikeDescends
  <1>13. New(t)
    BY <1>2, <1>3 DEF New, n
  <1>14. \A u \in AllIn(ps) : New(u) \/ \E v \in AllIn(panes) : Descends(v, u)
    <2> SUFFICES ASSUME NEW u \in AllIn(ps), u # t PROVE \E v \in AllIn(panes) : Descends(v, u)
      BY <1>13
    <2>1. u \in AllIn(panes)
      BY <1>1, <1>7, <1>8
    <2> QED  BY <1>4, <1>12, <2>1
  <1>15. \A v \in AllIn(panes) : \E u \in AllIn(ps) : Descends(v, u)
    <2> SUFFICES ASSUME NEW v \in AllIn(panes) PROVE \E u \in AllIn(ps) : Descends(v, u)
      OBVIOUS
    <2>1. v \in AllIn(ps)
      BY <1>1, <1>7, <1>8
    <2> QED  BY <1>4, <1>12, <2>1
  <1>16. \A l \in AllPlaces(ps) \ {<<p, i>>} : TabAt(ps, l) \in AllIn(panes)
    BY <1>11
  <1>17. nextUid' \in Nat /\ nextUid <= nextUid' /\ Shape(ps, nextUid')
    BY <1>2, <1>8 DEF n, m
  <1> QED  BY <1>9, <1>10, <1>14, <1>15, <1>16, <1>17, RequestStep

(* A tab that opens at the end of a pane. *)
LEMMA AddTabStep ==
  ASSUME PanesInv, NEW p \in Panes, NEW f \in Folders, AddTab(p, f), Frame
  PROVE  PanesInv' /\ Descent
  <1> DEFINE k == Len(TabsOf(p)) + 1
             t == NewTab(nextUid, f)
             added == [tabs |-> Append(TabsOf(p), t), active |-> k]
  <1>1. /\ TabCount < MaxTabs /\ nextUid' = nextUid + 1
        /\ RequestListings([panes EXCEPT ![p] = added], {<<p, k>>})
    BY DEF AddTab
  <1>2. nextUid \in Nat \ {0} /\ TabsOf(p) \in Seq(TabsBelow(nextUid)) /\ Len(TabsOf(p)) \in Nat
    BY PaneFacts
  <1>3. k \in 1 .. Len(TabsOf(p)) + 1
    BY <1>2
  <1>4. Append(TabsOf(p), t) = InsertAt(TabsOf(p), k, t)
    <2>1. TabsOf(p) \in Seq(TabsBelow(nextUid + 1)) /\ t \in TabsBelow(nextUid + 1)
      <3>1. nextUid \in Nat /\ nextUid + 1 \in Nat /\ nextUid <= nextUid + 1
        BY <1>2
      <3>2. TabsOf(p) \in Seq(TabsBelow(nextUid + 1))
        BY <1>2, <3>1, MoreTabs
      <3> QED  BY <1>2, <3>2, NewTabFacts
    <2> HIDE DEF t
    <2> QED  BY <2>1, AddedLast
  <1>5. RequestListings(WithPane(panes, p, InsertAt(TabsOf(p), k, t), k), {<<p, k>>})
    BY <1>1, <1>4 DEF WithPane
  <1> HIDE DEF k
  <1> QED  BY <1>1, <1>3, <1>5, NewTabStep

(* The folder of a tab is a folder, and so is the one it is in. *)
LEMMA TabFolders ==
  ASSUME PanesInv, NEW p \in Panes
  PROVE  Active(p).path \in Folders /\ Parent[Active(p).path] \in Folders
  <1>1. Active(p) \in TabsBelow(nextUid)
    BY PaneFacts
  <1> QED  BY <1>1, TabsAssumption DEF TabsBelow

(* Going to a folder: in the tab, or in a new one when it is locked. *)
LEMMA GoTo ==
  ASSUME PanesInv, NEW p \in Panes, NEW to \in Folders, Frame,
         IF Active(p).locked /\ to # Active(p).path THEN AddTab(p, to)
         ELSE ShowIn(p, Navigated(Active(p), to)) /\ UNCHANGED nextUid
  PROVE  PanesInv' /\ Descent
  <1>1. CASE Active(p).locked /\ to # Active(p).path
    BY <1>1, AddTabStep
  <1>2. CASE ~(Active(p).locked /\ to # Active(p).path)
    <2>1. nextUid \in Nat /\ Active(p) \in TabsBelow(nextUid)
      BY PaneFacts
    <2>2. Navigated(Active(p), to) \in TabsBelow(nextUid)
          /\ Descends(Active(p), Navigated(Active(p), to))
      BY <1>2, <2>1, NavigatedDescends
    <2> QED  BY <1>2, <2>2, ShowStep
  <1> QED  BY <1>1, <1>2

(* The steps that show something in the active tab of a pane. *)
LEMMA ShowSteps ==
  ASSUME PanesInv, NEW p \in Panes
  PROVE  /\ \A f \in Folders : Navigate(p, f) => PanesInv' /\ Descent
         /\ GoBack(p) => PanesInv' /\ Descent
         /\ GoForward(p) => PanesInv' /\ Descent
         /\ GoParent(p) => PanesInv' /\ Descent
         /\ Refresh(p) => PanesInv' /\ Descent
  <1>1. nextUid \in Nat /\ Active(p) \in TabsBelow(nextUid)
    BY PaneFacts
  <1>2. ASSUME activePane' = p, layout' = layout, notes' = notes PROVE Frame
    BY <1>2 DEF Frame, PanesInv
  <1>3. ASSUME NEW f \in Folders, Navigate(p, f) PROVE PanesInv' /\ Descent
    <2>1. Frame
      BY <1>2, <1>3 DEF Navigate
    <2> QED  BY <1>3, <2>1, GoTo DEF Navigate
  <1>4. ASSUME GoBack(p) PROVE PanesInv' /\ Descent
    <2>1. Frame /\ ShowIn(p, WentBack(Active(p))) /\ nextUid' = nextUid /\ Active(p).back # <<>>
      BY <1>2, <1>4 DEF GoBack
    <2>2. WentBack(Active(p)) \in TabsBelow(nextUid) /\ Descends(Active(p), WentBack(Active(p)))
      BY <1>1, <2>1, WentBackDescends
    <2> QED  BY <2>1, <2>2, ShowStep
  <1>5. ASSUME GoForward(p) PROVE PanesInv' /\ Descent
    <2>1. /\ Frame /\ ShowIn(p, WentForward(Active(p))) /\ nextUid' = nextUid
          /\ Active(p).fwd # <<>>
      BY <1>2, <1>5 DEF GoForward
    <2>2. /\ WentForward(Active(p)) \in TabsBelow(nextUid)
          /\ Descends(Active(p), WentForward(Active(p)))
      BY <1>1, <2>1, WentForwardDescends
    <2> QED  BY <2>1, <2>2, ShowStep
  <1>6. ASSUME GoParent(p) PROVE PanesInv' /\ Descent
    <2> DEFINE to == Parent[Active(p).path]
    <2>1. Frame /\ ShowIn(p, Navigated(Active(p), to)) /\ nextUid' = nextUid
      BY <1>2, <1>6 DEF GoParent
    <2>2. to \in Folders
      BY TabFolders
    <2>3. to \in {Active(p).path, Parent[Active(p).path]}
      OBVIOUS
    <2>4. /\ Navigated(Active(p), to) \in TabsBelow(nextUid)
          /\ Descends(Active(p), Navigated(Active(p), to))
      BY <1>1, <2>2, <2>3, NavigatedDescends
    <2> HIDE DEF to
    <2> QED  BY <2>1, <2>4, ShowStep
  <1>7. ASSUME Refresh(p) PROVE PanesInv' /\ Descent
    <2>1. Frame /\ ShowIn(p, Active(p)) /\ nextUid' = nextUid
      BY <1>2, <1>7 DEF Refresh
    <2>2. Descends(Active(p), Active(p))
      BY <1>1, AlikeDescends
    <2> QED  BY <1>1, <2>1, <2>2, ShowStep
  <1> QED  BY <1>3, <1>4, <1>5, <1>6, <1>7

(* The steps of the menu, which act on the active or on the other pane. *)
LEMMA MenuSteps ==
  ASSUME PanesInv
  PROVE  /\ \A f \in Folders : NavigateOther(f) => PanesInv' /\ Descent
         /\ ToggleFlatten => PanesInv' /\ Descent
  <1>1. activePane \in Panes /\ Other(activePane) \in Panes
    BY TwoPanes DEF PanesInv
  <1>2. ASSUME activePane' = activePane, layout' = layout, notes' = notes PROVE Frame
    BY <1>2 DEF Frame, PanesInv
  <1>3. ASSUME NEW f \in Folders, NavigateOther(f) PROVE PanesInv' /\ Descent
    <2>1. Frame
      BY <1>2, <1>3 DEF NavigateOther
    <2> QED  BY <1>1, <1>3, <2>1, GoTo DEF NavigateOther
  <1>4. ASSUME ToggleFlatten PROVE PanesInv' /\ Descent
    <2> DEFINE t == Active(activePane)
               u == [t EXCEPT !.flatten = ~@]
    <2>1. nextUid \in Nat /\ t \in TabsBelow(nextUid)
      BY <1>1, PaneFacts
    <2>2. Frame /\ ShowIn(activePane, u) /\ nextUid' = nextUid
      BY <1>2, <1>4 DEF ToggleFlatten
    <2>3. u \in TabsBelow(nextUid) /\ u.uid = t.uid /\ u.path = t.path
          /\ u.back = t.back /\ u.fwd = t.fwd
      <3> HIDE DEF t
      <3> QED  BY <2>1 DEF TabsBelow
    <2> HIDE DEF u
    <2>4. Descends(t, u)
      BY <2>1, <2>3, AlikeDescends
    <2> HIDE DEF t
    <2> QED  BY <1>1, <2>2, <2>3, <2>4, ShowStep DEF t
  <1> QED  BY <1>3, <1>4

(* The steps that open a tab. *)
LEMMA OpenSteps ==
  ASSUME PanesInv, NEW p \in Panes
  PROVE  /\ \A i \in DOMAIN TabsOf(p) : OpenTab(p, i) => PanesInv' /\ Descent
         /\ \A f \in Folders : OpenBeside(p, f) => PanesInv' /\ Descent
  <1>1. ASSUME activePane' = p, layout' = layout, notes' = notes PROVE Frame
    BY <1>1 DEF Frame, PanesInv
  <1>2. /\ nextUid \in Nat \ {0} /\ TabsOf(p) \in Seq(TabsBelow(nextUid))
        /\ Len(TabsOf(p)) \in Nat /\ DOMAIN TabsOf(p) = 1 .. Len(TabsOf(p))
        /\ panes[p].active \in 1 .. Len(TabsOf(p))
        /\ panes[p] = [tabs |-> TabsOf(p), active |-> panes[p].active]
    BY PaneFacts
  <1>3. ASSUME NEW i \in DOMAIN TabsOf(p), OpenTab(p, i) PROVE PanesInv' /\ Descent
    <2>1. TabsOf(p)[i].path \in Folders
      <3>1. TabsOf(p)[i] \in TabsBelow(nextUid)
        BY <1>2, InSequence
      <3> QED  BY <3>1 DEF TabsBelow
    <2>2. Frame /\ AddTab(p, TabsOf(p)[i].path)
      BY <1>1, <1>3 DEF OpenTab
    <2> QED  BY <2>1, <2>2, AddTabStep
  <1>4. ASSUME NEW f \in Folders, OpenBeside(p, f) PROVE PanesInv' /\ Descent
    <2> DEFINE i == panes[p].active + 1
               a == panes[p].active
               s == InsertAt(TabsOf(p), i, NewTab(nextUid, f))
    <2>1. Frame /\ TabCount < MaxTabs /\ nextUid' = nextUid + 1
      BY <1>1, <1>4 DEF OpenBeside
    <2>2. i \in 1 .. Len(TabsOf(p)) + 1 /\ a \in 1 .. Len(TabsOf(p)) + 1
      BY <1>2
    <2>3. RequestListings([panes EXCEPT ![p].tabs = s], {<<p, i>>})
      BY <1>4 DEF OpenBeside, TabsOf
    <2>4. [panes EXCEPT ![p].tabs = s] = WithPane(panes, p, s, a)
      <3> HIDE DEF s, a
      <3>1. [panes EXCEPT ![p].tabs = s] = [panes EXCEPT ![p] = [panes[p] EXCEPT !.tabs = s]]
        OBVIOUS
      <3>2. [panes[p] EXCEPT !.tabs = s] = [tabs |-> s, active |-> panes[p].active]
        BY <1>2
      <3> QED  BY <3>1, <3>2 DEF WithPane, a
    <2>5. RequestListings(WithPane(panes, p, s, a), {<<p, i>>})
      BY <2>3, <2>4
    <2> HIDE DEF i, a
    <2> QED  BY <2>1, <2>2, <2>5, NewTabStep
  <1> QED  BY <1>3, <1>4

------------------------------------------------------------------------------
(* Steps that ask for no listing.                                          *)

(* A tab is its own twin. *)
LEMMA SameTabs ==
  ASSUME PanesInv, UNCHANGED <<panes, nextUid, watchers, asked>>, Frame
  PROVE  PanesInv' /\ Descent
  <1>1. Shape(panes', nextUid) /\ AllIn(panes') = AllIn(panes)
    BY DEF PanesInv
  <1>2. \A t \in AllIn(panes) : Twin(t, t)
    BY DEF Twin
  <1> QED  BY <1>1, <1>2, StillStep

(* A pane whose tabs are some of those it had, or the same in another order. *)
LEMMA PaneStep ==
  ASSUME PanesInv, NEW p \in Panes, NEW s \in Seq(TabsBelow(nextUid)), NEW a \in 1 .. Len(s),
         Distinct(s), Len(s) <= Len(TabsOf(p)), Uids(s) \subseteq Uids(TabsOf(p))
  PROVE  /\ Shape(WithPane(panes, p, s, a), nextUid)
         /\ WithPane(panes, p, s, a)[p] = [tabs |-> s, active |-> a]
         /\ WithPane(panes, p, s, a)[Other(p)] = panes[Other(p)]
         /\ AllIn(WithPane(panes, p, s, a)) = ToSet(s) \cup ToSet(TabsOf(Other(p)))
  <1> DEFINE o == panes[Other(p)].tabs
  <1>1. TabsOf(Other(p)) = o
    BY DEF TabsOf
  <1>2. /\ nextUid \in Nat \ {0} /\ Shape(panes, nextUid)
        /\ Len(TabsOf(p)) \in Nat /\ Other(p) \in Panes
        /\ Uids(TabsOf(p)) \cap Uids(TabsOf(Other(p))) = {}
        /\ Len(TabsOf(p)) + Len(TabsOf(Other(p))) <= MaxTabs
    BY PaneFacts
  <1>3. Len(TabsOf(Other(p))) \in Nat
    BY <1>2, PaneFacts
  <1>4. nextUid \in Nat /\ nextUid <= nextUid
    BY <1>2
  <1>5. Len(s) + Len(o) <= MaxTabs
    <2>1. \A x, y, z \in Nat : x <= y /\ y + z <= MaxTabs => x + z <= MaxTabs
      BY TabsAssumption
    <2>2. Len(s) \in Nat
      BY LenProperties
    <2> HIDE DEF o
    <2> QED  BY <1>1, <1>2, <1>3, <2>1, <2>2
  <1>6. Uids(s) \cap Uids(o) = {}
    BY <1>1, <1>2
  <1>7. /\ Shape(WithPane(panes, p, s, a), nextUid)
        /\ WithPane(panes, p, s, a)[p] = [tabs |-> s, active |-> a]
        /\ WithPane(panes, p, s, a)[Other(p)] = panes[Other(p)]
    BY <1>2, <1>4, <1>5, <1>6, PaneReplaced
  <1>8. AllIn(WithPane(panes, p, s, a)) = ToSet(s) \cup ToSet(o)
    <2> DEFINE w == WithPane(panes, p, s, a)
    <2>1. w[p].tabs = s /\ w[Other(p)].tabs = o
      <3> HIDE DEF w
      <3> QED  BY <1>7 DEF w
    <2> HIDE DEF w, o
    <2>2. AllIn(w) = ToSet(w[p].tabs) \cup ToSet(w[Other(p)].tabs)
      BY TwoPanes DEF AllIn
    <2> QED  BY <2>1, <2>2 DEF w
  <1> QED  BY <1>1, <1>7, <1>8

(* The other tab shows, the other pane is active, or the split changes. *)
LEMMA SwitchSteps ==
  ASSUME PanesInv
  PROVE  /\ \A p \in Panes : \A i \in DOMAIN TabsOf(p) :
              SwitchTab(p, i) => PanesInv' /\ Descent
         /\ SwitchPane => PanesInv' /\ Descent
         /\ ToggleLayout => PanesInv' /\ Descent
  <1>1. notes \subseteq NoteSet(nextUid) /\ activePane \in Panes /\ layout \in Layouts
    BY DEF PanesInv
  <1>2. ASSUME NEW p \in Panes, NEW i \in DOMAIN TabsOf(p), SwitchTab(p, i)
        PROVE  PanesInv' /\ Descent
    <2> DEFINE s == TabsOf(p)
    <2>1. Frame /\ UNCHANGED <<nextUid, watchers, asked>>
          /\ panes' = [panes EXCEPT ![p].active = i]
      BY <1>1, <1>2 DEF SwitchTab, Frame
    <2>2. /\ nextUid \in Nat /\ Shape(panes, nextUid) /\ nextUid <= nextUid
          /\ s \in Seq(TabsBelow(nextUid)) /\ Distinct(s) /\ DOMAIN s = 1 .. Len(s)
          /\ panes[p] = [tabs |-> s, active |-> panes[p].active]
          /\ AllIn(panes) = ToSet(s) \cup ToSet(TabsOf(Other(p)))
      BY PaneFacts
    <2>3. i \in 1 .. Len(s)
      BY <2>2
    <2>4. Len(s) <= Len(TabsOf(p)) /\ Uids(s) \subseteq Uids(TabsOf(p))
      BY PaneFacts
    <2> HIDE DEF s
    <2>5. panes' = WithPane(panes, p, s, i)
      <3>1. [panes EXCEPT ![p].active = i] = [panes EXCEPT ![p] = [panes[p] EXCEPT !.active = i]]
        OBVIOUS
      <3>2. [panes[p] EXCEPT !.active = i] = [tabs |-> s, active |-> i]
        BY <2>2
      <3> QED  BY <2>1, <3>1, <3>2 DEF WithPane
    <2>6. /\ Shape(WithPane(panes, p, s, i), nextUid)
          /\ AllIn(WithPane(panes, p, s, i)) = ToSet(s) \cup ToSet(TabsOf(Other(p)))
      BY <2>2, <2>3, <2>4, PaneStep
    <2>7. Shape(panes', nextUid) /\ AllIn(panes') = AllIn(panes)
      BY <2>2, <2>5, <2>6
    <2>8. \A t \in AllIn(panes) : Twin(t, t)
      BY DEF Twin
    <2> QED  BY <2>1, <2>7, <2>8, StillStep
  <1>3. ASSUME SwitchPane PROVE PanesInv' /\ Descent
    <2>1. Frame /\ UNCHANGED <<panes, nextUid, watchers, asked>>
      BY <1>1, <1>3, TwoPanes DEF SwitchPane, Frame
    <2> QED  BY <2>1, SameTabs
  <1>4. ASSUME ToggleLayout PROVE PanesInv' /\ Descent
    <2>1. Frame /\ UNCHANGED <<panes, nextUid, watchers, asked>>
      BY <1>1, <1>4 DEF ToggleLayout, Frame, Layouts
    <2> QED  BY <2>1, SameTabs
  <1> QED  BY <1>2, <1>3, <1>4

(* Locking a tab changes nothing else of it. *)
LEMMA LockSteps ==
  ASSUME PanesInv, NEW p \in Panes, NEW i \in DOMAIN TabsOf(p), ToggleLock(p, i)
  PROVE  PanesInv' /\ Descent
  <1> DEFINE s == TabsOf(p)
             a == panes[p].active
             u == [s[i] EXCEPT !.locked = ~@]
             r == Replaced(s, i, u)
             o == TabsOf(Other(p))
  <1>1. Frame /\ UNCHANGED <<nextUid, watchers, asked>>
        /\ panes' = [panes EXCEPT ![p].tabs[i].locked = ~@]
    BY DEF ToggleLock, Frame, PanesInv
  <1>2. /\ nextUid \in Nat /\ Shape(panes, nextUid) /\ nextUid <= nextUid
        /\ s \in Seq(TabsBelow(nextUid)) /\ Distinct(s) /\ DOMAIN s = 1 .. Len(s)
        /\ panes[p] = [tabs |-> s, active |-> a] /\ a \in 1 .. Len(s)
        /\ AllIn(panes) = ToSet(s) \cup ToSet(o)
    <2>1. AllIn(panes) = ToSet(s) \cup ToSet(o)
      BY PaneFacts
    <2> QED  BY <2>1, PaneFacts
  <1>3. i \in 1 .. Len(s) /\ s[i] \in TabsBelow(nextUid) /\ s[i] \in ToSet(s)
    <2>1. i \in 1 .. Len(s)
      BY <1>2
    <2> HIDE DEF s
    <2> QED  BY <1>2, <2>1, InSequence
  <1>4. panes' = WithPane(panes, p, r, a)
    <2>1. panes' = [panes EXCEPT ![p] = [panes[p] EXCEPT !.tabs = r]]
      BY <1>1 DEF TabsOf, Replaced
    <2> HIDE DEF r, a, s
    <2>2. [panes[p] EXCEPT !.tabs = r] = [tabs |-> r, active |-> a]
      BY <1>2
    <2> QED  BY <2>1, <2>2 DEF WithPane
  <1>5. Twin(s[i], u)
    BY DEF Twin
  <1> HIDE DEF u, s, o
  <1>6. u \in TabsBelow(nextUid) /\ u.uid = s[i].uid
    BY <1>2, <1>3, <1>5, TwinDescends
  <1>7. /\ r \in Seq(TabsBelow(nextUid)) /\ Len(r) = Len(s) /\ Distinct(r)
        /\ ToSet(r) = (ToSet(s) \ {s[i]}) \cup {u} /\ Uids(r) = Uids(s)
    BY <1>2, <1>3, <1>6, TabChanged
  <1> HIDE DEF r
  <1>8. Shape(WithPane(panes, p, r, a), nextUid)
        /\ AllIn(WithPane(panes, p, r, a)) = ToSet(r) \cup ToSet(o)
    <2>1. a \in 1 .. Len(r)
      BY <1>2, <1>7
    <2>2. Len(r) <= Len(TabsOf(p)) /\ Uids(r) \subseteq Uids(TabsOf(p))
      BY <1>7, PaneFacts DEF s
    <2> HIDE DEF a
    <2> QED  BY <1>7, <2>1, <2>2, PaneStep DEF o
  <1>9. \A t : Twin(t, t)
    BY DEF Twin
  <1>10. \A v \in AllIn(panes') : \E t \in AllIn(panes) : Twin(t, v)
    BY <1>2, <1>3, <1>4, <1>5, <1>7, <1>8, <1>9
  <1>11. \A t \in AllIn(panes) : \E v \in AllIn(panes') : Twin(t, v)
    BY <1>2, <1>3, <1>4, <1>5, <1>7, <1>8, <1>9
  <1>12. Shape(panes', nextUid)
    BY <1>4, <1>8
  <1> QED  BY <1>1, <1>10, <1>11, <1>12, StillStep

(* Closing a tab leaves all the others, and an active one. *)
LEMMA CloseSteps ==
  ASSUME PanesInv, NEW p \in Panes, NEW i \in DOMAIN TabsOf(p), CloseTab(p, i)
  PROVE  PanesInv' /\ Descent
  <1> DEFINE s == TabsOf(p)
             left == RemoveAt(s, i)
             a == IF panes[p].active > Len(left) THEN Len(left) ELSE panes[p].active
             o == TabsOf(Other(p))
  <1>1. Frame /\ UNCHANGED <<nextUid, watchers, asked>> /\ Len(s) > 1 /\ ~s[i].locked
    BY DEF CloseTab, Frame, PanesInv
  <1>2. panes' = WithPane(panes, p, left, a)
    BY DEF CloseTab, WithPane
  <1>3. /\ nextUid \in Nat /\ Shape(panes, nextUid) /\ nextUid <= nextUid
        /\ s \in Seq(TabsBelow(nextUid)) /\ Distinct(s) /\ DOMAIN s = 1 .. Len(s)
        /\ Len(s) \in Nat /\ panes[p].active \in 1 .. Len(s)
        /\ AllIn(panes) = ToSet(s) \cup ToSet(o)
    <2>1. AllIn(panes) = ToSet(s) \cup ToSet(o)
      BY PaneFacts
    <2>2. nextUid \in Nat \ {0} /\ Shape(panes, nextUid)
      BY PaneFacts
    <2>4. s \in Seq(TabsBelow(nextUid)) /\ Distinct(s)
      BY PaneFacts
    <2>5. DOMAIN s = 1 .. Len(s)
      BY PaneFacts
    <2>6. nextUid \in Nat /\ nextUid <= nextUid
      BY <2>2
    <2>3. Len(s) \in Nat /\ panes[p].active \in 1 .. Len(s)
      BY PaneFacts
    <2> HIDE DEF s, o
    <2> QED  BY <2>1, <2>2, <2>3, <2>4, <2>5, <2>6
  <1>5. i \in 1 .. Len(s)
    BY <1>3
  <1> HIDE DEF s, o
  <1>6. /\ left \in Seq(TabsBelow(nextUid)) /\ Len(left) = Len(s) - 1 /\ Distinct(left)
        /\ ToSet(left) = ToSet(s) \ {s[i]} /\ Uids(left) \subseteq Uids(s)
    BY <1>3, <1>5, TabTaken
  <1> HIDE DEF left
  <1>7. a \in 1 .. Len(left)
    BY <1>1, <1>3, <1>6
  <1> HIDE DEF a
  <1>8. /\ Shape(WithPane(panes, p, left, a), nextUid)
        /\ WithPane(panes, p, left, a)[p] = [tabs |-> left, active |-> a]
        /\ WithPane(panes, p, left, a)[Other(p)] = panes[Other(p)]
        /\ AllIn(WithPane(panes, p, left, a)) = ToSet(left) \cup ToSet(o)
    <2>1. Len(left) <= Len(TabsOf(p)) /\ Uids(left) \subseteq Uids(TabsOf(p))
      BY <1>3, <1>6 DEF s
    <2> QED  BY <1>6, <1>7, <2>1, PaneStep DEF o
  <1>9. Closed(s[i])
    <2>1. s[i] \in ToSet(s)
      BY <1>3, <1>5, InSequence
    <2>2. Len(panes'[p].tabs) = Len(s) - 1
      BY <1>2, <1>6, <1>8
    <2>3. panes'[Other(p)].tabs = TabsOf(Other(p))
      BY <1>2, <1>8 DEF TabsOf
    <2> QED  BY <1>1, <2>1, <2>2, <2>3 DEF Closed, s
  <1>10. \A t : Twin(t, t)
    BY DEF Twin
  <1>11. AllIn(panes') = ToSet(left) \cup ToSet(o)
    BY <1>2, <1>8
  <1>12. \A v \in AllIn(panes') : \E t \in AllIn(panes) : Twin(t, v)
    BY <1>3, <1>6, <1>10, <1>11
  <1>13. \A t \in AllIn(panes) : Closed(t) \/ \E v \in AllIn(panes') : Twin(t, v)
    BY <1>3, <1>6, <1>9, <1>10, <1>11
  <1>14. Shape(panes', nextUid)
    BY <1>2, <1>8
  <1> QED  BY <1>1, <1>12, <1>13, <1>14, StillStep

(* A tab that is dropped on its own pane is among the same tabs. *)
LEMMA ReorderKeeps ==
  ASSUME PanesInv, NEW p \in Panes, NEW from \in 1 .. Len(TabsOf(p)),
         NEW to \in 1 .. Len(TabsOf(p)) + 1
  PROVE  Shape(Reorder(p, from, to), nextUid) /\ AllIn(Reorder(p, from, to)) = AllIn(panes)
  <1> DEFINE s == TabsOf(p)
             o == TabsOf(Other(p))
             t == s[from]
             rest == RemoveAt(s, from)
             at == IF from < to THEN to - 1 ELSE to
             r == InsertAt(rest, at, t)
  <1>1. nextUid \in Nat \ {0} /\ Shape(panes, nextUid)
    BY PaneFacts
  <1>2. s \in Seq(TabsBelow(nextUid)) /\ Distinct(s) /\ Len(s) \in Nat
    BY PaneFacts
  <1>3. AllIn(panes) = ToSet(s) \cup ToSet(o)
    BY PaneFacts
  <1>4. CASE from = to
    BY <1>1, <1>4 DEF Reorder
  <1>5. CASE from # to
    <2>1. Reorder(p, from, to) = WithPane(panes, p, r, at)
      BY <1>5 DEF Reorder, WithPane
    <2>2. at \in 1 .. Len(s)
      BY <1>2, <1>5
    <2>3. t \in TabsBelow(nextUid) /\ t \in ToSet(s)
      BY <1>2, InSequence
    <2> HIDE DEF s, o, at
    <2>4. /\ rest \in Seq(TabsBelow(nextUid)) /\ Len(rest) = Len(s) - 1 /\ Distinct(rest)
          /\ ToSet(rest) = ToSet(s) \ {t} /\ t.uid \notin Uids(rest)
          /\ Uids(rest) \subseteq Uids(s)
      BY <1>2, TabTaken DEF s
    <2> HIDE DEF rest, t
    <2>5. at \in 1 .. Len(rest) + 1
      BY <1>2, <2>2, <2>4
    <2>6. /\ r \in Seq(TabsBelow(nextUid)) /\ Len(r) = Len(rest) + 1 /\ Distinct(r)
          /\ ToSet(r) = ToSet(rest) \cup {t} /\ Uids(r) = Uids(rest) \cup {t.uid}
      BY <2>3, <2>4, <2>5, TabPut
    <2> HIDE DEF r
    <2>7. t.uid \in Uids(s)
      BY <2>3 DEF Uids
    <2>8. Len(r) = Len(s) /\ Uids(r) \subseteq Uids(s) /\ ToSet(r) = ToSet(s)
      BY <1>2, <2>3, <2>4, <2>6, <2>7
    <2>9. at \in 1 .. Len(r) /\ Len(r) <= Len(TabsOf(p)) /\ Uids(r) \subseteq Uids(TabsOf(p))
      BY <1>2, <2>2, <2>8 DEF s
    <2>10. /\ Shape(WithPane(panes, p, r, at), nextUid)
           /\ AllIn(WithPane(panes, p, r, at)) = ToSet(r) \cup ToSet(TabsOf(Other(p)))
      BY <2>6, <2>9, PaneStep
    <2> QED  BY <1>3, <2>1, <2>8, <2>10 DEF o
  <1> QED  BY <1>4, <1>5

(* A tab that is dropped on the other pane is in that one afterwards. *)
LEMMA TakeAndInsertKeeps ==
  ASSUME PanesInv, NEW p \in Panes, NEW from \in 1 .. Len(TabsOf(p)), Len(TabsOf(p)) > 1,
         NEW to \in 1 .. Len(TabsOf(Other(p))) + 1
  PROVE  /\ Shape(TakeAndInsert(p, from, Other(p), to), nextUid)
         /\ AllIn(TakeAndInsert(p, from, Other(p), to)) = AllIn(panes)
  <1> DEFINE q == Other(p)
             s == TabsOf(p)
             o == TabsOf(q)
             t == s[from]
             rest == RemoveAt(s, from)
             a == IF panes[p].active > Len(rest) THEN Len(rest)
                  ELSE IF panes[p].active > from THEN panes[p].active - 1 ELSE panes[p].active
             ps == WithPane(panes, p, rest, a)
             r == InsertAt(o, to, t)
             n == nextUid
  <1>1. n \in Nat \ {0} /\ Shape(panes, n)
    BY PaneFacts
  <1>2. s \in Seq(TabsBelow(n)) /\ Distinct(s) /\ Len(s) \in Nat
    BY PaneFacts
  <1>3. AllIn(panes) = ToSet(s) \cup ToSet(o)
    BY PaneFacts
  <1>4. q \in Panes /\ q # p /\ Other(q) = p /\ panes[p].active \in 1 .. Len(s)
    BY TwoPanes, PaneFacts
  <1>5. /\ o \in Seq(TabsBelow(n)) /\ Distinct(o) /\ Len(o) \in Nat
    <2> HIDE DEF q
    <2> QED  BY <1>4, PaneFacts
  <1>6. Uids(s) \cap Uids(o) = {} /\ Len(s) + Len(o) <= MaxTabs
    BY PaneFacts
  <1>7. t \in TabsBelow(n) /\ t \in ToSet(s)
    BY <1>2, InSequence
  <1>8. t.uid \in Uids(s)
    BY <1>7 DEF Uids
  <1>9. TakeAndInsert(p, from, q, to) = WithPane(ps, q, r, to)
    BY <1>4 DEF TakeAndInsert, WithPane, TabsOf
  <1> HIDE DEF n, q, s, o
  <1>10. /\ rest \in Seq(TabsBelow(n)) /\ Len(rest) = Len(s) - 1 /\ Distinct(rest)
         /\ ToSet(rest) = ToSet(s) \ {t} /\ t.uid \notin Uids(rest)
         /\ Uids(rest) \subseteq Uids(s)
    BY <1>2, TabTaken DEF s
  <1> HIDE DEF rest, t
  <1>11. a \in 1 .. Len(rest)
    BY <1>2, <1>4, <1>10 DEF s
  <1> HIDE DEF a
  <1>12. /\ Shape(ps, n) /\ ps[p] = [tabs |-> rest, active |-> a] /\ ps[q] = panes[q]
    <2>1. Len(rest) <= Len(TabsOf(p)) /\ Uids(rest) \subseteq Uids(TabsOf(p))
      BY <1>2, <1>10 DEF s
    <2> QED  BY <1>10, <1>11, <2>1, PaneStep DEF n, q
  <1>13. /\ r \in Seq(TabsBelow(n)) /\ Len(r) = Len(o) + 1 /\ Distinct(r)
         /\ ToSet(r) = ToSet(o) \cup {t} /\ Uids(r) = Uids(o) \cup {t.uid}
    <2>1. t.uid \notin Uids(o)
      BY <1>6, <1>8
    <2>2. to \in 1 .. Len(o) + 1
      BY DEF o, q
    <2> QED  BY <1>5, <1>7, <2>1, <2>2, TabPut
  <1> HIDE DEF ps, r
  <1>14. ps[p].tabs = rest
    BY <1>12
  <1>15. to \in 1 .. Len(r)
    BY <1>5, <1>13 DEF o, q
  <1>16. Len(r) + Len(ps[Other(q)].tabs) <= MaxTabs
    <2>1. \A x, y \in Nat : x + y <= MaxTabs => (y + 1) + (x - 1) <= MaxTabs
      BY TabsAssumption
    <2> QED  BY <1>2, <1>4, <1>5, <1>6, <1>10, <1>13, <1>14, <2>1
  <1>17. Uids(r) \cap Uids(ps[Other(q)].tabs) = {}
    BY <1>4, <1>6, <1>10, <1>13, <1>14
  <1>18. n \in Nat /\ n <= n
    BY <1>1
  <1>19. /\ Shape(WithPane(ps, q, r, to), n)
         /\ AllIn(WithPane(ps, q, r, to)) = ToSet(r) \cup ToSet(ps[Other(q)].tabs)
    <2>1. Shape(ps, n) /\ r \in Seq(TabsBelow(n)) /\ Distinct(r)
      BY <1>12, <1>13
    <2> DEFINE w == WithPane(ps, q, r, to)
    <2>2. q \in Panes
      BY <1>4
    <2>3. Shape(w, n)
      BY <2>2, <1>15, <1>16, <1>17, <1>18, <2>1, PaneReplaced
    <2>4. DOMAIN ps = Panes
      BY <2>1 DEF Shape, PanesBelow
    <2>5. w[q] = [tabs |-> r, active |-> to] /\ w[Other(q)] = ps[Other(q)]
      BY <1>4, <2>4 DEF WithPane
    <2> HIDE DEF w
    <2>6. w[q].tabs = r /\ w[Other(q)].tabs = ps[Other(q)].tabs
      BY <2>5
    <2>7. AllIn(w) = ToSet(w[q].tabs) \cup ToSet(w[Other(q)].tabs)
      BY <1>4, TwoPanes DEF AllIn
    <2> QED  BY <2>3, <2>6, <2>7 DEF w
  <1>20. AllIn(WithPane(ps, q, r, to)) = AllIn(panes)
    BY <1>3, <1>4, <1>7, <1>10, <1>13, <1>14, <1>19
  <1> QED  BY <1>9, <1>19, <1>20 DEF n, q

(* Dragging a tab loses none and makes none. *)
LEMMA RelocateSteps ==
  ASSUME PanesInv, NEW p \in Panes, NEW from \in DOMAIN TabsOf(p), NEW q \in Panes,
         NEW to \in 1 .. Len(TabsOf(q)) + 1, RelocateTab(p, from, q, to)
  PROVE  PanesInv' /\ Descent
  <1>1. Frame /\ UNCHANGED <<nextUid, watchers, asked>>
    BY DEF RelocateTab, Frame, PanesInv
  <1>2. from \in 1 .. Len(TabsOf(p)) /\ Shape(panes, nextUid)
    BY PaneFacts
  <1>3. Shape(panes', nextUid) /\ AllIn(panes') = AllIn(panes)
    <2>1. CASE p = q
      <3>1. panes' = Reorder(p, from, to) /\ to \in 1 .. Len(TabsOf(p)) + 1
        BY <2>1 DEF RelocateTab
      <3> QED  BY <1>2, <3>1, ReorderKeeps
    <2>2. CASE p # q /\ Len(TabsOf(p)) > 1
      <3>1. q = Other(p) /\ panes' = TakeAndInsert(p, from, q, to)
        BY <2>2, TwoPanes DEF RelocateTab
      <3> QED  BY <1>2, <2>2, <3>1, TakeAndInsertKeeps
    <2>3. CASE p # q /\ ~(Len(TabsOf(p)) > 1)
      BY <1>2, <2>3 DEF RelocateTab
    <2> QED  BY <2>1, <2>2, <2>3
  <1>4. \A t \in AllIn(panes) : Twin(t, t)
    BY DEF Twin
  <1> QED  BY <1>1, <1>3, <1>4, StillStep

------------------------------------------------------------------------------
(* What comes back.                                                        *)

(* A message finds the tab it is about, wherever it is, and no other. *)
LEMMA Found ==
  ASSUME PanesInv, NEW pane, NEW uid
  PROVE  /\ FindTab(pane, uid) \subseteq AllPlaces(panes)
         /\ \A l \in FindTab(pane, uid) : TabAt(panes, l).uid = uid
         /\ \A l \in AllPlaces(panes) : TabAt(panes, l).uid = uid => FindTab(pane, uid) = {l}
  <1>1. nextUid \in Nat /\ Shape(panes, nextUid)
    BY DEF PanesInv
  <1>2. \A l, k \in AllPlaces(panes) : TabAt(panes, l).uid = TabAt(panes, k).uid => l = k
    BY <1>1, OnePlace
  <1>3. Places(uid) \subseteq AllPlaces(panes) /\ \A l \in Places(uid) : TabAt(panes, l).uid = uid
    BY DEF Places
  <1>4. FindTab(pane, uid) \subseteq Places(uid) /\ (Places(uid) # {} => FindTab(pane, uid) # {})
    BY DEF FindTab
  <1>5. ASSUME NEW l \in AllPlaces(panes), TabAt(panes, l).uid = uid
        PROVE  FindTab(pane, uid) = {l}
    <2>1. l \in Places(uid)
      BY <1>5 DEF Places
    <2>2. \A k \in Places(uid) : k = l
      BY <1>2, <1>3, <1>5
    <2> QED  BY <1>4, <2>1, <2>2
  <1> QED  BY <1>3, <1>4, <1>5

(* Folders that are read again, in the tabs that show them. *)
LEMMA ReadAgain ==
  ASSUME PanesInv, NEW S \in SUBSET AllPlaces(panes), RequestListings(panes, S),
         nextUid' = nextUid, Frame
  PROVE  PanesInv' /\ Descent
  <1>1. nextUid \in Nat /\ Shape(panes, nextUid)
    BY DEF PanesInv
  <1>2. nextUid' \in Nat /\ nextUid <= nextUid' /\ Shape(panes, nextUid')
    BY <1>1
  <1>3. \A l \in AllPlaces(panes) \ S : TabAt(panes, l) \in AllIn(panes)
    BY <1>1, OnePlace
  <1>4. \A t \in AllIn(panes) : Descends(t, t)
    BY <1>1, OnePlace, AlikeDescends
  <1>5. /\ \A u \in AllIn(panes) : New(u) \/ \E t \in AllIn(panes) : Descends(t, u)
        /\ \A t \in AllIn(panes) : \E u \in AllIn(panes) : Descends(t, u)
    BY <1>4
  <1> QED  BY <1>2, <1>3, <1>5, RequestStep

(* A watcher whose thread ends is still of its folder. *)
LEMMA EndStep ==
  ASSUME PanesInv, NEW w \in watchers, WatcherEnds(w)
  PROVE  PanesInv' /\ Descent
  <1> DEFINE v == [w EXCEPT !.state = "ended"]
  <1>1. /\ watchers' = (watchers \ {w}) \cup {v}
        /\ UNCHANGED <<panes, activePane, layout, nextUid, notes, asked>>
    BY DEF WatcherEnds
  <1>2. /\ nextUid \in Nat \ {0} /\ Shape(panes, nextUid) /\ watchers \subseteq WatcherSet(nextUid)
        /\ \A t \in AllIn(panes) : Cared(t, watchers, asked) /\ Steady(t)
    BY DEF PanesInv
  <1>3. /\ v \in WatcherSet(nextUid)
        /\ v.uid = w.uid /\ v.folder = w.folder /\ v.subtree = w.subtree
    <2>1. w \in WatcherSet(nextUid)
      BY <1>2
    <2> QED  BY <2>1 DEF WatcherSet, WatcherStates
  <1> HIDE DEF v
  <1>4. watchers' \subseteq WatcherSet(nextUid')
    BY <1>1, <1>2, <1>3
  <1>5. AllIn(panes') = AllIn(panes)
    BY <1>1
  <1>6. ASSUME NEW t \in AllIn(panes) PROVE Cared(t, watchers', asked') /\ Steady(t)
    <2>1. Watched(t, watchers) /\ Awaited(t, asked) /\ Steady(t)
      BY <1>2 DEF Cared
    <2>2. Watched(t, watchers')
      <3> SUFFICES ASSUME t.path \in Watchable
                   PROVE  \E x \in watchers' : x.uid = t.uid /\ x.folder = t.path /\ x.subtree = t.flatten
        BY DEF Watched
      <3>1. PICK x \in watchers : x.uid = t.uid /\ x.folder = t.path /\ x.subtree = t.flatten
        BY <2>1 DEF Watched
      <3>2. CASE x = w
        BY <1>1, <1>3, <3>1, <3>2
      <3>3. CASE x # w
        BY <1>1, <3>1, <3>3
      <3> QED  BY <3>2, <3>3
    <2> QED  BY <1>1, <2>1, <2>2 DEF Cared
  <1>7. PanesInv'
    BY <1>1, <1>2, <1>4, <1>5, <1>6 DEF PanesInv
  <1>8. ASSUME NEW t \in AllIn(panes) PROVE Descends(t, t)
    <2>1. t \in TabsBelow(nextUid) /\ Twin(t, t) /\ nextUid \in Nat
      BY <1>2, OnePlace DEF Twin
    <2> QED  BY <2>1, TwinDescends
  <1>9. Descent
    BY <1>5, <1>8 DEF Descent
  <1> QED  BY <1>7, <1>9

(* Changes, watchers that end, and operations that end. *)
LEMMA ChangeSteps ==
  ASSUME PanesInv
  PROVE  /\ \A w \in watchers : FolderChanges(w) \/ WatcherEnds(w) => PanesInv' /\ Descent
         /\ \A n \in notes : HandleChange(n) => PanesInv' /\ Descent
         /\ \A f \in Folders : OperationEnds(f) => PanesInv' /\ Descent
  <1>1. /\ notes \subseteq NoteSet(nextUid) /\ watchers \subseteq WatcherSet(nextUid)
        /\ activePane \in Panes /\ layout \in Layouts
    BY DEF PanesInv
  <1>2. ASSUME NEW w \in watchers, FolderChanges(w) \/ WatcherEnds(w)
        PROVE  PanesInv' /\ Descent
    <2>1. [pane |-> w.pane, uid |-> w.uid] \in NoteSet(nextUid)
      <3>1. w \in WatcherSet(nextUid)
        BY <1>1
      <3> QED  BY <3>1 DEF WatcherSet, NoteSet
    <2>2. CASE FolderChanges(w)
      <3>1. Frame /\ UNCHANGED <<panes, nextUid, watchers, asked>>
        BY <1>1, <2>1, <2>2 DEF FolderChanges, Frame
      <3> QED  BY <3>1, SameTabs
    <2>3. CASE WatcherEnds(w)
      BY <2>3, EndStep
    <2> QED  BY <1>2, <2>2, <2>3
  <1>3. ASSUME NEW n \in notes, HandleChange(n) PROVE PanesInv' /\ Descent
    <2>1. Frame /\ nextUid' = nextUid
      BY <1>1, <1>3 DEF HandleChange, Frame
    <2>2. CASE \E l \in FindTab(n.pane, n.uid) : RequestListings(panes, {l})
      <3>1. PICK l \in FindTab(n.pane, n.uid) : RequestListings(panes, {l})
        BY <2>2
      <3>2. l \in AllPlaces(panes)
        BY Found
      <3>3. {l} \in SUBSET AllPlaces(panes)
        BY <3>2
      <3> QED  BY <2>1, <3>1, <3>3, ReadAgain
    <2>3. CASE UNCHANGED <<panes, watchers, asked>>
      BY <2>1, <2>3, SameTabs
    <2> QED  BY <1>3, <2>2, <2>3 DEF HandleChange
  <1>4. ASSUME NEW f \in Folders, OperationEnds(f) PROVE PanesInv' /\ Descent
    <2> DEFINE S == {l \in AllPlaces(panes) : TabAt(panes, l).path = f}
    <2>1. Frame /\ nextUid' = nextUid /\ RequestListings(panes, S)
      BY <1>1, <1>4 DEF OperationEnds, Frame
    <2>2. S \in SUBSET AllPlaces(panes)
      OBVIOUS
    <2> HIDE DEF S
    <2> QED  BY <2>1, <2>2, ReadAgain
  <1> QED  BY <1>2, <1>3, <1>4

(* A listing ends the loading of its tab and of no other. *)
LEMMA ListingSteps ==
  ASSUME PanesInv, NEW a \in asked, HandleListing(a)
  PROVE  PanesInv' /\ Descent
  <1> DEFINE n == nextUid
  <1>1. /\ n \in Nat /\ Shape(panes, n) /\ n \in Nat \ {0}
        /\ AllIn(panes) \subseteq TabsBelow(n)
    <2>1. nextUid \in Nat \ {0} /\ nextUid \in Nat /\ Shape(panes, nextUid)
      BY DEF PanesInv
    <2> QED  BY <2>1, OnePlace
  <1>2. /\ asked' = asked \ {a} /\ asked' \subseteq NoteSet(n)
        /\ UNCHANGED <<activePane, layout, nextUid, watchers, notes>>
    BY DEF HandleListing, PanesInv
  <1>3. \A t \in AllIn(panes) : Cared(t, watchers, asked) /\ Steady(t)
    BY DEF PanesInv
  <1>4. ASSUME NEW t \in AllIn(panes), t.uid # a.uid PROVE Cared(t, watchers', asked')
    BY <1>2, <1>3, <1>4 DEF Cared, Watched, Awaited
  <1>5. \A t \in AllIn(panes) : Descends(t, t)
    BY <1>1, AlikeDescends
  <1>6. CASE FindTab(a.pane, a.uid) = {} /\ UNCHANGED panes
    <2>1. ASSUME NEW t \in AllIn(panes) PROVE t.uid # a.uid
      <3>1. PICK l \in AllPlaces(panes) : TabAt(panes, l) = t
        BY <1>1, OnePlace
      <3> QED  BY <1>6, <3>1, Found
    <2>2. \A t \in AllIn(panes') : Cared(t, watchers', asked') /\ Steady(t)
      BY <1>3, <1>4, <1>6, <2>1
    <2>3. Descent
      BY <1>5, <1>6 DEF Descent
    <2>4. PanesInv'
      BY <1>1, <1>2, <1>6, <2>2 DEF PanesInv
    <2> QED  BY <2>3, <2>4
  <1>7. ASSUME NEW l \in FindTab(a.pane, a.uid),
               panes' = [panes EXCEPT ![l[1]].tabs[l[2]].loading = FALSE]
        PROVE  PanesInv' /\ Descent
    <2> DEFINE p == l[1]
               i == l[2]
               s == TabsOf(p)
               o == TabsOf(Other(p))
               t == s[i]
               u == [t EXCEPT !.loading = FALSE]
               r == Replaced(s, i, u)
               b == panes[p].active
    <2>1. l \in AllPlaces(panes) /\ TabAt(panes, l).uid = a.uid
      BY <1>7, Found
    <2>2. p \in Panes /\ i \in 1 .. Len(panes[p].tabs) /\ TabAt(panes, l) = panes[p].tabs[i]
      BY <1>1, <2>1, OnePlace
    <2>3. i \in 1 .. Len(s) /\ t.uid = a.uid
      BY <2>1, <2>2 DEF TabsOf
    <2> HIDE DEF p, i
    <2>4. s \in Seq(TabsBelow(n)) /\ Distinct(s) /\ b \in 1 .. Len(s)
      BY <2>2, PaneFacts
    <2>5. AllIn(panes) = ToSet(s) \cup ToSet(o)
      BY <2>2, PaneFacts
    <2>6. t \in TabsBelow(n) /\ t \in ToSet(s)
      <3> HIDE DEF s
      <3> QED  BY <2>3, <2>4, InSequence
    <2>7. panes' = WithPane(panes, p, r, b)
      <3>1. panes' = [panes EXCEPT ![p] = [panes[p] EXCEPT !.tabs = r]]
        BY <1>7 DEF TabsOf, Replaced, p, i
      <3>2. panes[p] = [tabs |-> s, active |-> b]
        BY <2>2, PaneFacts
      <3> HIDE DEF r, s, b
      <3>3. [panes[p] EXCEPT !.tabs = r] = [tabs |-> r, active |-> b]
        BY <3>2
      <3> QED  BY <3>1, <3>3 DEF WithPane
    <2>8. /\ u \in TabsBelow(n) /\ u.uid = t.uid /\ u.path = t.path /\ u.back = t.back
          /\ u.fwd = t.fwd /\ u.flatten = t.flatten /\ ~u.loading
      <3> HIDE DEF t
      <3> QED  BY <2>6 DEF TabsBelow
    <2> HIDE DEF u
    <2>9. Descends(t, u)
      BY <1>1, <2>6, <2>8, AlikeDescends
    <2> HIDE DEF s, o, b
    <2>10. /\ r \in Seq(TabsBelow(n)) /\ Len(r) = Len(s) /\ Distinct(r)
           /\ ToSet(r) = (ToSet(s) \ {t}) \cup {u} /\ Uids(r) = Uids(s)
      BY <2>3, <2>4, <2>8, TabChanged
    <2> HIDE DEF r
    <2>11. /\ Shape(WithPane(panes, p, r, b), nextUid)
           /\ AllIn(WithPane(panes, p, r, b)) = ToSet(r) \cup ToSet(o)
      <3>1. b \in 1 .. Len(r) /\ r \in Seq(TabsBelow(nextUid))
        BY <2>4, <2>10
      <3>2. Len(r) <= Len(TabsOf(p)) /\ Uids(r) \subseteq Uids(TabsOf(p))
        <4>1. Len(s) \in Nat
          BY <2>4, LenProperties
        <4> QED  BY <4>1, <2>10 DEF s
      <3> QED  BY <2>2, <2>10, <3>1, <3>2, PaneStep DEF o
    <2>12. Shape(panes', nextUid) /\ AllIn(panes') = ToSet(r) \cup ToSet(o)
      BY <2>7, <2>11
    <2>13. \A x, y \in AllIn(panes) : x.uid = y.uid => x = y
      BY <1>1, OnePlace
    <2> HIDE DEF n, t
    <2>14. t \in AllIn(panes) /\ u \in AllIn(panes')
      BY <2>5, <2>6, <2>10, <2>12
    <2>15. \A v \in AllIn(panes') : v = u \/ (v \in AllIn(panes) /\ v # t) \/ v = t
      BY <2>5, <2>10, <2>12
    <2>16. ASSUME NEW v \in AllIn(panes')
           PROVE  v.uid = a.uid => v = u
      <3>1. nextUid \in Nat /\ \A x, y \in AllIn(panes') : x.uid = y.uid => x = y
        <4>1. nextUid \in Nat
          BY DEF PanesInv
        <4> QED  BY <4>1, <2>12, OnePlace
      <3> QED  BY <2>3, <2>8, <2>14, <3>1
    <2>17. \A v \in AllIn(panes') : Cared(v, watchers', asked') /\ Steady(v)
      <3> SUFFICES ASSUME NEW v \in AllIn(panes')
                   PROVE  Cared(v, watchers', asked') /\ Steady(v)
        OBVIOUS
      <3>1. CASE v = u
        <4>1. Watched(u, watchers')
          BY <1>2, <1>3, <2>8, <2>14 DEF Cared, Watched
        <4>2. Awaited(u, asked')
          BY <2>8 DEF Awaited
        <4>3. Steady(u)
          BY <1>3, <2>9, <2>14 DEF Descends
        <4> QED  BY <3>1, <4>1, <4>2, <4>3 DEF Cared
      <3>2. CASE v # u
        <4>1. v \in AllIn(panes) /\ v.uid # a.uid
          BY <2>14, <2>15, <2>16, <3>2
        <4> QED  BY <1>3, <1>4, <4>1
      <3> QED  BY <3>1, <3>2
    <2>18. \A v \in AllIn(panes') : \E x \in AllIn(panes) : Descends(x, v)
      BY <1>5, <2>9, <2>14, <2>15
    <2>19. \A x \in AllIn(panes) : \E v \in AllIn(panes') : Descends(x, v)
      <3> SUFFICES ASSUME NEW x \in AllIn(panes) PROVE \E v \in AllIn(panes') : Descends(x, v)
        OBVIOUS
      <3>1. CASE x = t
        BY <2>9, <2>14, <3>1
      <3>2. CASE x # t
        <4>1. x \in AllIn(panes')
          BY <2>5, <2>10, <2>12, <3>2
        <4> QED  BY <1>5, <4>1
      <3> QED  BY <3>1, <3>2
    <2>20. Descent
      BY <2>18, <2>19 DEF Descent
    <2>21. PanesInv'
      BY <1>2, <2>12, <2>17 DEF PanesInv, n
    <2> QED  BY <2>20, <2>21
  <1> QED  BY <1>6, <1>7 DEF HandleListing

(* Every step of the tabs keeps their invariant and their histories. *)
LEMMA TabsStep == PanesInv /\ TabsNext => PanesInv' /\ Descent
  <1> SUFFICES ASSUME PanesInv, TabsNext PROVE PanesInv' /\ Descent
    OBVIOUS
  <1>1. CASE User
    <2>1. ASSUME NEW p \in Panes, NEW f \in Folders, Navigate(p, f) \/ OpenBeside(p, f)
          PROVE  PanesInv' /\ Descent
      BY <2>1, ShowSteps, OpenSteps
    <2>2. ASSUME NEW p \in Panes, GoBack(p) \/ GoForward(p) \/ GoParent(p) \/ Refresh(p)
          PROVE  PanesInv' /\ Descent
      BY <2>2, ShowSteps
    <2>3. ASSUME NEW p \in Panes, NEW i \in DOMAIN TabsOf(p),
                 \/ OpenTab(p, i) \/ SwitchTab(p, i) \/ ToggleLock(p, i) \/ CloseTab(p, i)
                 \/ \E q \in Panes : \E to \in 1 .. Len(TabsOf(q)) + 1 : RelocateTab(p, i, q, to)
          PROVE  PanesInv' /\ Descent
      BY <2>3, OpenSteps, SwitchSteps, LockSteps, CloseSteps, RelocateSteps
    <2>4. CASE (\E f \in Folders : NavigateOther(f)) \/ ToggleFlatten
      BY <2>4, MenuSteps
    <2>5. CASE SwitchPane \/ ToggleLayout
      BY <2>5, SwitchSteps
    <2> QED  BY <1>1, <2>1, <2>2, <2>3, <2>4, <2>5 DEF User
  <1>2. CASE Arrives
    <2>1. CASE \E a \in asked : HandleListing(a)
      BY <2>1, ListingSteps
    <2>2. CASE \/ \E w \in watchers : FolderChanges(w) \/ WatcherEnds(w)
               \/ \E n \in notes : HandleChange(n)
               \/ \E f \in Folders : OperationEnds(f)
      BY <2>2, ChangeSteps
    <2> QED  BY <1>2, <2>1, <2>2 DEF Arrives
  <1> QED  BY <1>1, <1>2 DEF TabsNext


------------------------------------------------------------------------------
(* Windows that are saved, and what a start makes of them.                 *)

SavedTab == [path : Folders, locked : BOOLEAN]
SavedWindow ==
  [layout : Layouts, activePane : Panes,
   panes : [Panes -> [tabs : Seq(SavedTab), active : 1 .. MaxTabs]]]

WindowOK(w) ==
  /\ w \in SavedWindow
  /\ \A p \in Panes : w.panes[p].active \in 1 .. Len(w.panes[p].tabs)
  /\ Len(w.panes[1].tabs) + Len(w.panes[2].tabs) <= MaxTabs

SettingsOK(s) ==
  /\ s \in [restore : BOOLEAN, defaultLayout : Layouts, hidden : BOOLEAN, window : SavedWindow]
  /\ WindowOK(s.window)

Before(w, p) == IF p = 1 THEN 0 ELSE Len(w.panes[1].tabs)

Fresh(uid, folder, locked) ==
  [uid |-> uid, path |-> folder, back |-> <<>>, fwd |-> <<>>,
   locked |-> locked, flatten |-> FALSE, loading |-> TRUE]

Shown(w) ==
  [p \in Panes |->
     [tabs |-> [i \in 1 .. Len(w.panes[p].tabs) |->
                  Fresh(Before(w, p) + i, w.panes[p].tabs[i].path, w.panes[p].tabs[i].locked)],
      active |-> w.panes[p].active]]

(* What the parts of a saved window are. *)
LEMMA WindowTypes ==
  ASSUME NEW w, WindowOK(w), NEW p \in Panes
  PROVE  /\ w.layout \in Layouts /\ w.activePane \in Panes
         /\ w.panes[p].tabs \in Seq(SavedTab)
         /\ Len(w.panes[p].tabs) \in Nat
         /\ DOMAIN w.panes[p].tabs = 1 .. Len(w.panes[p].tabs)
         /\ \A i \in 1 .. Len(w.panes[p].tabs) :
              /\ w.panes[p].tabs[i].path \in Folders
              /\ w.panes[p].tabs[i].locked \in BOOLEAN
         /\ w.panes[p].active \in 1 .. Len(w.panes[p].tabs)
         /\ w.panes[p].active \in Nat
  <1>1. w.layout \in Layouts /\ w.activePane \in Panes
        /\ w.panes[p] \in [tabs : Seq(SavedTab), active : 1 .. MaxTabs]
    BY DEF WindowOK, SavedWindow
  <1>2. w.panes[p].tabs \in Seq(SavedTab) /\ w.panes[p].active \in 1 .. MaxTabs
    BY <1>1
  <1>3. /\ Len(w.panes[p].tabs) \in Nat
        /\ DOMAIN w.panes[p].tabs = 1 .. Len(w.panes[p].tabs)
        /\ \A i \in 1 .. Len(w.panes[p].tabs) : w.panes[p].tabs[i] \in SavedTab
    BY <1>2, InSequence
  <1>4. \A e \in SavedTab : e.path \in Folders /\ e.locked \in BOOLEAN
    BY DEF SavedTab
  <1>5. w.panes[p].active \in 1 .. Len(w.panes[p].tabs)
    BY DEF WindowOK
  <1>6. w.panes[p].active \in Nat
    BY <1>2
  <1> QED  BY <1>1, <1>2, <1>3, <1>4, <1>5, <1>6

(* The window of well-shaped panes can be saved. *)
LEMMA WindowIsOK ==
  ASSUME NEW n \in Nat, NEW ps, Shape(ps, n), NEW a \in Panes, NEW l \in Layouts
  PROVE  WindowOK(Window(ps, a, l))
  <1> DEFINE w == Window(ps, a, l)
             s(p) == [i \in DOMAIN ps[p].tabs |->
                        [path |-> ps[p].tabs[i].path, locked |-> ps[p].tabs[i].locked]]
  <1>1. w = [layout |-> l, activePane |-> a,
             panes |-> [p \in Panes |-> [tabs |-> s(p), active |-> ps[p].active]]]
    BY DEF Window
  <1>2. ASSUME NEW p \in Panes
        PROVE  /\ s(p) \in Seq(SavedTab) /\ Len(s(p)) = Len(ps[p].tabs)
               /\ ps[p].active \in 1 .. Len(s(p)) /\ ps[p].active \in 1 .. MaxTabs
    <2>1. /\ Len(ps[p].tabs) \in Nat /\ DOMAIN ps[p].tabs = 1 .. Len(ps[p].tabs)
          /\ ps[p].active \in 1 .. Len(ps[p].tabs) /\ Len(ps[p].tabs) \in 1 .. MaxTabs
          /\ \A i \in 1 .. Len(ps[p].tabs) : ps[p].tabs[i] \in TabsBelow(n)
      BY ShapeTypes
    <2>2. \A i \in 1 .. Len(ps[p].tabs) :
            [path |-> ps[p].tabs[i].path, locked |-> ps[p].tabs[i].locked] \in SavedTab
      BY <2>1 DEF TabsBelow, SavedTab
    <2>3. s(p) \in [1 .. Len(ps[p].tabs) -> SavedTab]
      BY <2>1, <2>2
    <2>4. s(p) \in Seq(SavedTab) /\ Len(s(p)) = Len(ps[p].tabs)
      BY <2>1, <2>3, LenProperties, SeqDef, IsASeq
    <2>5. \A x \in 1 .. MaxTabs : \A y \in 1 .. x : y \in 1 .. MaxTabs
      BY TabsAssumption
    <2> QED  BY <2>1, <2>4, <2>5
  <1> HIDE DEF s
  <1>3. [p \in Panes |-> [tabs |-> s(p), active |-> ps[p].active]]
          \in [Panes -> [tabs : Seq(SavedTab), active : 1 .. MaxTabs]]
    BY <1>2
  <1>4. w \in SavedWindow
    BY <1>1, <1>3 DEF SavedWindow
  <1>5. \A p \in Panes : w.panes[p].tabs = s(p) /\ w.panes[p].active = ps[p].active
    BY <1>1
  <1> HIDE DEF w
  <1>6. \A p \in Panes : w.panes[p].active \in 1 .. Len(w.panes[p].tabs)
    BY <1>2, <1>5
  <1>7. Len(w.panes[1].tabs) + Len(w.panes[2].tabs) <= MaxTabs
    <2>1. Len(w.panes[1].tabs) = Len(ps[1].tabs) /\ Len(w.panes[2].tabs) = Len(ps[2].tabs)
      BY <1>2, <1>5, TwoPanes
    <2> QED  BY <2>1 DEF Shape
  <1>8. WindowOK(w)
    BY <1>4, <1>6, <1>7 DEF WindowOK
  <1> QED  BY <1>8 DEF w

(* The default settings can be saved: a tab in each pane. *)
LEMMA DefaultIsOK ==
  /\ SettingsOK(DefaultSettings)
  /\ \A l \in Layouts : WindowOK([DefaultWindow EXCEPT !.layout = l])
  <1> DEFINE s == <<[path |-> Home, locked |-> FALSE]>>
             ps == [p \in Panes |-> [tabs |-> s, active |-> 1]]
             w(l) == [layout |-> l, activePane |-> 1, panes |-> ps]
  <1>1. s \in Seq(SavedTab) /\ Len(s) = 1
    <2>1. [path |-> Home, locked |-> FALSE] \in SavedTab
      BY TabsAssumption DEF SavedTab
    <2> QED  BY <2>1
  <1>2. 1 \in 1 .. MaxTabs /\ 1 \in 1 .. 1 /\ 1 + 1 <= MaxTabs /\ 1 \in Panes
    BY TabsAssumption DEF Panes
  <1> HIDE DEF s
  <1>3. ps \in [Panes -> [tabs : Seq(SavedTab), active : 1 .. MaxTabs]]
    BY <1>1, <1>2
  <1>4. \A p \in Panes : ps[p].tabs = s /\ ps[p].active = 1
    OBVIOUS
  <1> HIDE DEF ps
  <1>5. ASSUME NEW l \in Layouts PROVE WindowOK(w(l))
    <2>1. w(l) \in SavedWindow /\ w(l).panes = ps
      BY <1>2, <1>3, <1>5 DEF SavedWindow
    <2> HIDE DEF w
    <2> QED  BY <1>1, <1>2, <1>4, <2>1, TwoPanes DEF WindowOK
  <1>6. DefaultWindow = w("dual") /\ \A l : [DefaultWindow EXCEPT !.layout = l] = w(l)
    <2>1. ps = [p \in Panes |-> [tabs |-> <<[path |-> Home, locked |-> FALSE]>>, active |-> 1]]
      BY DEF ps, s
    <2>2. DefaultWindow = w("dual")
      BY <2>1 DEF DefaultWindow
    <2>3. \A l : [w("dual") EXCEPT !.layout = l] = w(l)
      OBVIOUS
    <2> QED  BY <2>2, <2>3
  <1>7. "dual" \in Layouts
    BY DEF Layouts
  <1>8. WindowOK(DefaultWindow)
    BY <1>5, <1>6, <1>7
  <1>9. DefaultSettings \in [restore : BOOLEAN, defaultLayout : Layouts, hidden : BOOLEAN,
                             window : SavedWindow]
        /\ DefaultSettings.window = DefaultWindow
    BY <1>7, <1>8 DEF DefaultSettings, WindowOK
  <1> QED  BY <1>5, <1>6, <1>8, <1>9 DEF SettingsOK

(* What a start shows of settings is a window. *)
LEMMA StartWindowOK ==
  ASSUME NEW s, SettingsOK(s)
  PROVE  WindowOK(StartWindow(s))
  <1>1. WindowOK(s.window) /\ s.defaultLayout \in Layouts
    BY DEF SettingsOK
  <1> QED  BY <1>1, DefaultIsOK DEF StartWindow


UidsOf(w) == Len(w.panes[1].tabs) + Len(w.panes[2].tabs) + 1

(* The panes of a window: each tab loading, with a uid of its own. *)
LEMMA ShownTabs ==
  ASSUME NEW w, WindowOK(w)
  PROVE  /\ UidsOf(w) \in Nat \ {0}
         /\ \A p \in Panes : /\ DOMAIN Shown(w)[p].tabs = 1 .. Len(w.panes[p].tabs)
                             /\ Len(Shown(w)[p].tabs) = Len(w.panes[p].tabs)
                             /\ Shown(w)[p].active = w.panes[p].active
         /\ \A p \in Panes : \A i \in 1 .. Len(w.panes[p].tabs) :
              /\ Shown(w)[p].tabs[i] \in TabsBelow(UidsOf(w))
              /\ Shown(w)[p].tabs[i] = Fresh(Before(w, p) + i, w.panes[p].tabs[i].path,
                                             w.panes[p].tabs[i].locked)
              /\ Steady(Shown(w)[p].tabs[i])
  <1> DEFINE n == UidsOf(w)
             x(p) == Len(w.panes[p].tabs)
             t(p, i) == Fresh(Before(w, p) + i, w.panes[p].tabs[i].path,
                              w.panes[p].tabs[i].locked)
             s(p) == [i \in 1 .. x(p) |-> t(p, i)]
  <1>1. \A p \in Panes : x(p) \in Nat
    BY WindowTypes
  <1>2. n = x(1) + x(2) + 1
    BY DEF UidsOf
  <1>3. n \in Nat \ {0}
    <2>1. \A y, z \in Nat : y + z + 1 \in Nat \ {0}
      OBVIOUS
    <2> QED  BY <1>1, <1>2, <2>1, TwoPanes
  <1>4. \A p \in Panes : \A i \in 1 .. x(p) : Before(w, p) + i \in 1 .. n - 1
    <2>1. \A y, z \in Nat : /\ \A i \in 1 .. y : 0 + i \in 1 .. (y + z + 1) - 1
                            /\ \A i \in 1 .. z : y + i \in 1 .. (y + z + 1) - 1
      OBVIOUS
    <2>2. x(1) \in Nat /\ x(2) \in Nat
      BY <1>1, TwoPanes
    <2> HIDE DEF x, n
    <2>3. /\ \A i \in 1 .. x(1) : 0 + i \in 1 .. (x(1) + x(2) + 1) - 1
          /\ \A i \in 1 .. x(2) : x(1) + i \in 1 .. (x(1) + x(2) + 1) - 1
      BY <2>1, <2>2
    <2>4. Before(w, 1) = 0 /\ Before(w, 2) = x(1)
      BY DEF Before, x
    <2>5. \A i \in 1 .. x(1) : Before(w, 1) + i \in 1 .. n - 1
      BY <1>2, <2>3, <2>4
    <2>6. \A i \in 1 .. x(2) : Before(w, 2) + i \in 1 .. n - 1
      BY <1>2, <2>3, <2>4
    <2> QED  BY <2>5, <2>6, TwoPanes
  <1> HIDE DEF n
  <1>5. ASSUME NEW p \in Panes, NEW i \in 1 .. x(p)
        PROVE  t(p, i) \in TabsBelow(n) /\ Steady(t(p, i))
    <2>1. /\ Before(w, p) + i \in 1 .. n - 1 /\ w.panes[p].tabs[i].path \in Folders
          /\ w.panes[p].tabs[i].locked \in BOOLEAN
      BY <1>4, WindowTypes
    <2>2. <<>> \in Seq(Folders) /\ Len(<<>>) = 0
      BY EmptySeq
    <2>3. t(p, i) \in TabsBelow(n) /\ t(p, i).back = <<>> /\ t(p, i).fwd = <<>>
      BY <2>1, <2>2 DEF Fresh, TabsBelow
    <2> HIDE DEF t
    <2>4. Len(Trail(t(p, i))) = Len(t(p, i).back) + 1 + Len(t(p, i).fwd)
      BY <1>3, <2>3, TrailOf
    <2>5. Len(Trail(t(p, i))) = 1
      BY <2>2, <2>3, <2>4
    <2> QED  BY <2>3, <2>5 DEF Steady
  <1>6. Shown(w) = [p \in Panes |-> [tabs |-> s(p), active |-> w.panes[p].active]]
    BY DEF Shown
  <1> HIDE DEF t
  <1>7. ASSUME NEW p \in Panes
        PROVE  /\ DOMAIN s(p) = 1 .. x(p) /\ Len(s(p)) = x(p)
               /\ \A i \in 1 .. x(p) : s(p)[i] = t(p, i)
    <2>1. s(p) \in [1 .. x(p) -> TabsBelow(n)]
      BY <1>5
    <2>2. s(p) \in Seq(TabsBelow(n)) /\ DOMAIN s(p) = 1 .. x(p)
      BY <1>1, <2>1, IsASeq
    <2>3. Len(s(p)) = x(p)
      BY <1>1, <2>2, LenProperties
    <2> QED  BY <2>2, <2>3
  <1> HIDE DEF s
  <1>8. \A p \in Panes : Shown(w)[p].tabs = s(p) /\ Shown(w)[p].active = w.panes[p].active
    BY <1>6
  <1>9. \A p \in Panes : /\ DOMAIN Shown(w)[p].tabs = 1 .. x(p)
                         /\ Len(Shown(w)[p].tabs) = x(p)
                         /\ Shown(w)[p].active = w.panes[p].active
    BY <1>7, <1>8
  <1>10. \A p \in Panes : \A i \in 1 .. x(p) :
           Shown(w)[p].tabs[i] = t(p, i) /\ t(p, i) \in TabsBelow(n) /\ Steady(t(p, i))
    BY <1>5, <1>7, <1>8
  <1> QED  BY <1>3, <1>9, <1>10 DEF n, t

(* Those panes are well-shaped. *)
LEMMA ShownShape ==
  ASSUME NEW w, WindowOK(w)
  PROVE  Shape(Shown(w), UidsOf(w))
  <1> DEFINE n == UidsOf(w)
             ps == Shown(w)
             x(p) == Len(w.panes[p].tabs)
  <1>1. /\ n \in Nat \ {0}
        /\ \A p \in Panes : /\ DOMAIN ps[p].tabs = 1 .. x(p) /\ Len(ps[p].tabs) = x(p)
                            /\ ps[p].active = w.panes[p].active
        /\ \A p \in Panes : \A i \in 1 .. x(p) :
             /\ ps[p].tabs[i] \in TabsBelow(n)
             /\ ps[p].tabs[i] = Fresh(Before(w, p) + i, w.panes[p].tabs[i].path,
                                      w.panes[p].tabs[i].locked)
    BY ShownTabs
  <1>2. \A p \in Panes :
          x(p) \in Nat /\ w.panes[p].active \in Nat /\ w.panes[p].active \in 1 .. x(p)
    BY WindowTypes
  <1>3. \A p \in Panes : \A i \in 1 .. x(p) : ps[p].tabs[i].uid = Before(w, p) + i
    <2>1. \A u, f, k : Fresh(u, f, k).uid = u
      BY DEF Fresh
    <2> QED  BY <1>1, <2>1
  <1>4. /\ ps = [p \in Panes |-> [tabs |-> ps[p].tabs, active |-> ps[p].active]]
        /\ \A p \in Panes : ps[p].tabs = [i \in 1 .. x(p) |-> ps[p].tabs[i]]
    BY DEF Shown
  <1> HIDE DEF ps
  <1>5. \A p \in Panes : ps[p].tabs \in Seq(TabsBelow(n))
    <2> SUFFICES ASSUME NEW p \in Panes PROVE ps[p].tabs \in Seq(TabsBelow(n))
      OBVIOUS
    <2>1. ps[p].tabs \in [1 .. x(p) -> TabsBelow(n)]
      BY <1>1, <1>4
    <2> QED  BY <1>2, <2>1, IsASeq
  <1>6. ps \in PanesBelow(n)
    <2>1. \A p \in Panes : ps[p].active \in Nat
      BY <1>1, <1>2
    <2> QED  BY <1>4, <1>5, <2>1 DEF PanesBelow
  <1>7. \A p \in Panes : ps[p].active \in 1 .. Len(ps[p].tabs)
    BY <1>1, <1>2
  <1>8. Len(ps[1].tabs) + Len(ps[2].tabs) <= MaxTabs
    <2>1. Len(ps[1].tabs) = x(1) /\ Len(ps[2].tabs) = x(2)
      BY <1>1, TwoPanes
    <2> QED  BY <2>1 DEF WindowOK
  <1>9. Before(w, 1) = 0 /\ Before(w, 2) = x(1) /\ x(1) \in Nat
    BY <1>2, TwoPanes DEF Before
  <1> HIDE DEF x, n
  <1>10. \A p \in Panes : Before(w, p) \in Nat
    BY <1>9, TwoPanes
  <1>11. ASSUME NEW p \in Panes PROVE Distinct(ps[p].tabs)
    <2> SUFFICES ASSUME NEW i \in 1 .. Len(ps[p].tabs), NEW j \in 1 .. Len(ps[p].tabs),
                        ps[p].tabs[i].uid = ps[p].tabs[j].uid
                 PROVE  i = j
      BY DEF Distinct
    <2>1. i \in 1 .. x(p) /\ j \in 1 .. x(p) /\ x(p) \in Nat
      BY <1>1, <1>2
    <2>2. Before(w, p) + i = Before(w, p) + j
      BY <1>3, <2>1
    <2>3. \A b \in Nat : \A k, l \in 1 .. x(p) : b + k = b + l => k = l
      BY <2>1
    <2> QED  BY <1>10, <2>1, <2>2, <2>3
  <1>12. ASSUME NEW p \in Panes, NEW u \in Uids(ps[p].tabs)
         PROVE  \E i \in 1 .. x(p) : u = Before(w, p) + i
    <2>1. PICK t \in ToSet(ps[p].tabs) : u = t.uid
      BY DEF Uids
    <2>2. PICK i \in 1 .. Len(ps[p].tabs) : ps[p].tabs[i] = t
      BY <1>5, <2>1, InSequence
    <2> QED  BY <1>1, <1>3, <2>1, <2>2
  <1>13. Uids(ps[1].tabs) \cap Uids(ps[2].tabs) = {}
    <2> SUFFICES ASSUME NEW u \in Uids(ps[1].tabs), u \in Uids(ps[2].tabs) PROVE FALSE
      OBVIOUS
    <2>1. PICK i \in 1 .. x(1) : u = 0 + i
      BY <1>9, <1>12, TwoPanes
    <2>2. PICK j \in 1 .. x(2) : u = x(1) + j
      BY <1>9, <1>12, TwoPanes
    <2>3. x(1) \in Nat /\ x(2) \in Nat
      BY <1>2, TwoPanes
    <2>4. \A y, z \in Nat : \A k \in 1 .. y : \A l \in 1 .. z : 0 + k # y + l
      OBVIOUS
    <2> QED  BY <2>1, <2>2, <2>3, <2>4
  <1>14. Shape(ps, n)
    BY <1>6, <1>7, <1>8, <1>11, <1>13 DEF Shape
  <1> QED  BY <1>14 DEF ps, n


Opening(w) ==
  [p \in Panes |-> Opened(w.panes[p], IF p = 1 THEN 0 ELSE Len(w.panes[1].tabs))]

Made(u, f, k) == [NewTab(u, f) EXCEPT !.locked = k]

(* A tab of a session, before and after its folder is asked for. *)
LEMMA MadeTab ==
  ASSUME NEW n \in Nat, NEW u \in 1 .. n - 1, NEW f \in Folders, NEW k \in BOOLEAN
  PROVE  /\ Loading(Made(u, f, k)) = Fresh(u, f, k)
         /\ Made(u, f, k).uid = u /\ Made(u, f, k).path = f
  <1>1. ASSUME NEW t \in TabsBelow(n)
        PROVE  [t EXCEPT !.locked = k]
                 = [uid |-> t.uid, path |-> t.path, back |-> t.back, fwd |-> t.fwd,
                    locked |-> k, flatten |-> t.flatten, loading |-> t.loading]
    BY DEF TabsBelow
  <1>2. ASSUME NEW t \in TabsBelow(n), NEW b \in BOOLEAN
        PROVE  [t EXCEPT !.loading = b]
                 = [uid |-> t.uid, path |-> t.path, back |-> t.back, fwd |-> t.fwd,
                    locked |-> t.locked, flatten |-> t.flatten, loading |-> b]
    BY DEF TabsBelow
  <1>3. /\ NewTab(u, f) \in TabsBelow(n)
        /\ NewTab(u, f).uid = u /\ NewTab(u, f).path = f
        /\ NewTab(u, f).back = <<>> /\ NewTab(u, f).fwd = <<>>
        /\ NewTab(u, f).flatten = FALSE /\ NewTab(u, f).loading = FALSE
    <2>1. <<>> \in Seq(Folders)
      BY EmptySeq
    <2> QED  BY <2>1 DEF NewTab, TabsBelow
  <1>4. Made(u, f, k) = [uid |-> u, path |-> f, back |-> <<>>, fwd |-> <<>>,
                         locked |-> k, flatten |-> FALSE, loading |-> FALSE]
    BY <1>1, <1>3 DEF Made
  <1>5. /\ Made(u, f, k) \in TabsBelow(n)
        /\ Made(u, f, k).uid = u /\ Made(u, f, k).path = f
        /\ Made(u, f, k).back = <<>> /\ Made(u, f, k).fwd = <<>>
        /\ Made(u, f, k).locked = k /\ Made(u, f, k).flatten = FALSE
    <2>1. <<>> \in Seq(Folders)
      BY EmptySeq
    <2> QED  BY <1>4, <2>1 DEF TabsBelow
  <1>6. TRUE \in BOOLEAN
    OBVIOUS
  <1>7. Loading(Made(u, f, k)) = Fresh(u, f, k)
    BY <1>2, <1>5, <1>6 DEF Loading, Fresh
  <1> QED  BY <1>5, <1>7

(* The panes a start makes: the tabs of the window, and its active one. *)
LEMMA OpeningPane ==
  ASSUME NEW w, WindowOK(w), NEW p \in Panes
  PROVE  Opening(w)[p] = [tabs |-> Opening(w)[p].tabs, active |-> w.panes[p].active]
  <1>1. w.panes[p].active \in 1 .. Len(w.panes[p].tabs) /\ w.panes[p].active \in Nat
        /\ Len(w.panes[p].tabs) \in Nat
    BY WindowTypes
  <1>2. ~(w.panes[p].active > Len(w.panes[p].tabs))
    BY <1>1
  <1> QED  BY <1>2 DEF Opening, Opened

(* The tab t that a start has opened is u once it loads. *)
Becomes(t, u) == Loading(t) = u /\ t.uid = u.uid /\ t.path = u.path

(* The tabs a start makes, before they are asked for. *)
LEMMA OpeningTabs ==
  ASSUME NEW w, WindowOK(w), NEW p \in Panes
  PROVE  /\ DOMAIN Opening(w)[p].tabs = 1 .. Len(w.panes[p].tabs)
         /\ Len(Opening(w)[p].tabs) = Len(w.panes[p].tabs)
         /\ \A i \in 1 .. Len(w.panes[p].tabs) :
              Becomes(Opening(w)[p].tabs[i], Shown(w)[p].tabs[i])
  <1> DEFINE b == Before(w, p)
             x == Len(w.panes[p].tabs)
             e(i) == w.panes[p].tabs[i]
             t(i) == Made(b + i, e(i).path, e(i).locked)
             s == [i \in 1 .. x |-> t(i)]
  <1>1. x \in Nat /\ DOMAIN w.panes[p].tabs = 1 .. x
        /\ w.panes[p].active \in 1 .. x /\ w.panes[p].active \in Nat
    BY WindowTypes
  <1>2. Opening(w)[p] = Opened(w.panes[p], b)
    BY DEF Opening, Before
  <1>3. ~(w.panes[p].active > Len(w.panes[p].tabs))
    BY <1>1
  <1>4. Opening(w)[p] = [tabs |-> s, active |-> w.panes[p].active]
    BY <1>1, <1>2, <1>3 DEF Opened, Made
  <1>5. Opening(w)[p].tabs = s
    BY <1>4
  <1>6. \A i \in 1 .. x : s[i] = t(i)
    OBVIOUS
  <1>7. DOMAIN s = 1 .. x
    OBVIOUS
  <1>8. \A i \in 1 .. x : b + i \in 1 .. UidsOf(w) - 1 /\ UidsOf(w) \in Nat
                           /\ e(i).path \in Folders /\ e(i).locked \in BOOLEAN
    <2> SUFFICES ASSUME NEW i \in 1 .. x
                 PROVE  b + i \in 1 .. UidsOf(w) - 1 /\ UidsOf(w) \in Nat
                        /\ e(i).path \in Folders /\ e(i).locked \in BOOLEAN
      OBVIOUS
    <2>1. Shown(w)[p].tabs[i] \in TabsBelow(UidsOf(w)) /\ UidsOf(w) \in Nat
          /\ Shown(w)[p].tabs[i] = Fresh(b + i, e(i).path, e(i).locked)
      BY ShownTabs
    <2>2. Shown(w)[p].tabs[i].uid = b + i
      BY <2>1 DEF Fresh
    <2>3. b + i \in 1 .. UidsOf(w) - 1
      BY <2>1, <2>2 DEF TabsBelow
    <2> QED  BY <2>1, <2>3, WindowTypes
  <1>9. \A i \in 1 .. x : Shown(w)[p].tabs[i] = Fresh(b + i, e(i).path, e(i).locked)
    BY ShownTabs
  <1>10. \A i \in 1 .. x : Becomes(t(i), Shown(w)[p].tabs[i])
    <2> SUFFICES ASSUME NEW i \in 1 .. x
                 PROVE  Becomes(t(i), Shown(w)[p].tabs[i])
      OBVIOUS
    <2>1. Shown(w)[p].tabs[i] = Fresh(b + i, e(i).path, e(i).locked)
      BY <1>9
    <2>2. Loading(t(i)) = Shown(w)[p].tabs[i] /\ t(i).uid = b + i /\ t(i).path = e(i).path
      <3> DEFINE u == b + i
                 g == e(i).path
                 k == e(i).locked
                 n == UidsOf(w)
      <3>1. n \in Nat /\ u \in 1 .. n - 1 /\ g \in Folders /\ k \in BOOLEAN
        BY <1>8
      <3>2. t(i) = Made(u, g, k) /\ Shown(w)[p].tabs[i] = Fresh(u, g, k)
        BY <2>1
      <3> HIDE DEF u, g, k, n, t
      <3>3. Loading(t(i)) = Fresh(u, g, k) /\ t(i).uid = u /\ t(i).path = g
        BY <3>1, <3>2, MadeTab
      <3> QED  BY <3>2, <3>3 DEF u, g
    <2>3. Shown(w)[p].tabs[i].uid = b + i /\ Shown(w)[p].tabs[i].path = e(i).path
      BY <2>1 DEF Fresh
    <2> QED  BY <2>2, <2>3 DEF Becomes
  <1>11. Len(s) = x
    <2>1. s \in [1 .. x -> {t(i) : i \in 1 .. x}]
      OBVIOUS
    <2> HIDE DEF s, t
    <2>2. s \in Seq({t(i) : i \in 1 .. x})
      BY <1>1, <2>1, IsASeq
    <2> QED  BY <1>1, <1>7, <2>2, LenProperties
  <1> HIDE DEF s, t
  <1>12. DOMAIN Opening(w)[p].tabs = 1 .. x /\ Len(Opening(w)[p].tabs) = x
    BY <1>5, <1>7, <1>11
  <1>13. \A i \in 1 .. x : Opening(w)[p].tabs[i] = t(i)
    BY <1>5, <1>6
  <1>14. \A i \in 1 .. x : Becomes(Opening(w)[p].tabs[i], Shown(w)[p].tabs[i])
    BY <1>10, <1>13
  <1> QED  BY <1>12, <1>14

AllStarted(ps, failing) ==
  {Started(ps, l, failing) : l \in {k \in AllPlaces(ps) : TabAt(ps, k).path \in Watchable}}

(* A start shows the window of the settings, asks for every tab's folder   *)
(* and watches it.                                                         *)
LEMMA StartShows ==
  ASSUME NEW f, SettingsOK(Loaded(f)), Start(f)
  PROVE  LET w == StartWindow(Loaded(f))
         IN  /\ WindowOK(w)
             /\ panes' = Shown(w) /\ activePane' = w.activePane /\ layout' = w.layout
             /\ nextUid' = UidsOf(w) /\ notes' = {}
             /\ asked' = {[pane |-> l[1], uid |-> TabAt(Shown(w), l).uid] :
                            l \in AllPlaces(Shown(w))}
             /\ \E failing : watchers' = AllStarted(Shown(w), failing)
  <1> DEFINE w == StartWindow(Loaded(f))
             ps == Opening(w)
             qs == Shown(w)
             x(p) == Len(w.panes[p].tabs)
  <1>1. WindowOK(w)
    BY StartWindowOK
  <1>2. /\ panes' = [p \in Panes |->
                       [ps[p] EXCEPT !.tabs = [i \in DOMAIN @ |-> Loading(@[i])]]]
        /\ activePane' = w.activePane /\ layout' = w.layout /\ notes' = {}
        /\ nextUid' = Len(ps[1].tabs) + Len(ps[2].tabs) + 1
        /\ asked' = {[pane |-> l[1], uid |-> TabAt(ps, l).uid] : l \in AllPlaces(ps)}
        /\ \E failing : watchers' = AllStarted(panes', failing)
    BY DEF Start, Opening, Loading, AllStarted
  <1> HIDE DEF w
  <1>3. \A p \in Panes :
           /\ ps[p] = [tabs |-> ps[p].tabs, active |-> w.panes[p].active]
           /\ DOMAIN ps[p].tabs = 1 .. x(p) /\ Len(ps[p].tabs) = x(p)
           /\ \A i \in 1 .. x(p) :
                /\ Loading(ps[p].tabs[i]) = qs[p].tabs[i]
                /\ ps[p].tabs[i].uid = qs[p].tabs[i].uid
                /\ ps[p].tabs[i].path = qs[p].tabs[i].path
    <2> SUFFICES ASSUME NEW p \in Panes
                 PROVE  /\ ps[p] = [tabs |-> ps[p].tabs, active |-> w.panes[p].active]
                        /\ DOMAIN ps[p].tabs = 1 .. x(p) /\ Len(ps[p].tabs) = x(p)
                        /\ \A i \in 1 .. x(p) :
                             /\ Loading(ps[p].tabs[i]) = qs[p].tabs[i]
                             /\ ps[p].tabs[i].uid = qs[p].tabs[i].uid
                             /\ ps[p].tabs[i].path = qs[p].tabs[i].path
      OBVIOUS
    <2> DEFINE o == Opening(w)[p]
               q == Shown(w)[p]
               y == Len(w.panes[p].tabs)
    <2>1. o = [tabs |-> o.tabs, active |-> w.panes[p].active]
      BY <1>1, OpeningPane
    <2>2. /\ DOMAIN o.tabs = 1 .. y /\ Len(o.tabs) = y
          /\ \A i \in 1 .. y : /\ Loading(o.tabs[i]) = q.tabs[i]
                               /\ o.tabs[i].uid = q.tabs[i].uid
                               /\ o.tabs[i].path = q.tabs[i].path
      <3> HIDE DEF o, q, y
      <3>1. WindowOK(w)
        BY <1>1
      <3>2. /\ DOMAIN Opening(w)[p].tabs = 1 .. Len(w.panes[p].tabs)
            /\ Len(Opening(w)[p].tabs) = Len(w.panes[p].tabs)
        BY <3>1, OpeningTabs
      <3>3. \A i \in 1 .. Len(w.panes[p].tabs) :
              Becomes(Opening(w)[p].tabs[i], Shown(w)[p].tabs[i])
        BY <3>1, OpeningTabs
      <3> QED  BY <3>2, <3>3 DEF o, q, y, Becomes
    <2> QED  BY <2>1, <2>2
  <1>4. \A p \in Panes : Len(qs[p].tabs) = x(p)
    BY <1>1, ShownTabs
  <1>5. qs = [p \in Panes |-> [tabs |-> [i \in 1 .. x(p) |-> qs[p].tabs[i]],
                               active |-> w.panes[p].active]]
    BY DEF Shown
  <1> HIDE DEF qs, ps, x
  <1>6. \A p \in Panes :
          [ps[p] EXCEPT !.tabs = [i \in DOMAIN @ |-> Loading(@[i])]]
            = [tabs |-> [i \in 1 .. x(p) |-> qs[p].tabs[i]], active |-> w.panes[p].active]
    <2> SUFFICES ASSUME NEW p \in Panes
                 PROVE  [ps[p] EXCEPT !.tabs = [i \in DOMAIN @ |-> Loading(@[i])]]
                          = [tabs |-> [i \in 1 .. x(p) |-> qs[p].tabs[i]],
                             active |-> w.panes[p].active]
      OBVIOUS
    <2> DEFINE s == ps[p].tabs
               r == [i \in DOMAIN s |-> Loading(s[i])]
    <2>1. r = [i \in 1 .. x(p) |-> qs[p].tabs[i]]
      BY <1>3
    <2>2. ps[p] = [tabs |-> s, active |-> w.panes[p].active]
      BY <1>3
    <2>3. [ps[p] EXCEPT !.tabs = [i \in DOMAIN @ |-> Loading(@[i])]]
            = [ps[p] EXCEPT !.tabs = r]
      OBVIOUS
    <2> HIDE DEF r, s
    <2>4. \A v, z, y : [[tabs |-> v, active |-> z] EXCEPT !.tabs = y] = [tabs |-> y, active |-> z]
      OBVIOUS
    <2>5. [ps[p] EXCEPT !.tabs = r] = [tabs |-> r, active |-> w.panes[p].active]
      BY <2>2, <2>4
    <2> QED  BY <2>1, <2>3, <2>5
  <1>7. panes' = qs
    BY <1>2, <1>5, <1>6
  <1>8. nextUid' = UidsOf(w)
    BY <1>2, <1>3, TwoPanes DEF UidsOf, x
  <1>9. AllPlaces(ps) = AllPlaces(qs)
    <2>1. \A l \in Panes \X (1 .. MaxTabs) : Len(ps[l[1]].tabs) = Len(qs[l[1]].tabs)
      BY <1>3, <1>4
    <2> QED  BY <2>1 DEF AllPlaces
  <1>10. \A l \in AllPlaces(qs) : TabAt(ps, l).uid = TabAt(qs, l).uid
                                  /\ TabAt(ps, l).path = TabAt(qs, l).path
    <2> SUFFICES ASSUME NEW l \in AllPlaces(qs)
                 PROVE  TabAt(ps, l).uid = TabAt(qs, l).uid /\ TabAt(ps, l).path = TabAt(qs, l).path
      OBVIOUS
    <2>1. Shape(qs, UidsOf(w)) /\ UidsOf(w) \in Nat
      BY <1>1, ShownShape, ShownTabs DEF qs
    <2>2. l[1] \in Panes /\ l[2] \in 1 .. Len(qs[l[1]].tabs)
      BY <2>1, OnePlace
    <2>3. l[2] \in 1 .. x(l[1])
      BY <1>4, <2>2
    <2> QED  BY <1>3, <2>2, <2>3 DEF TabAt
  <1>11. asked' = {[pane |-> l[1], uid |-> TabAt(qs, l).uid] : l \in AllPlaces(qs)}
    BY <1>2, <1>9, <1>10
  <1>12. \E failing : watchers' = AllStarted(qs, failing)
    BY <1>2, <1>7
  <1> QED  BY <1>1, <1>2, <1>7, <1>8, <1>11, <1>12 DEF w, qs


(* A window that has been shown is the one that would be saved. *)
LEMMA WindowOfShown ==
  ASSUME NEW w, WindowOK(w)
  PROVE  Window(Shown(w), w.activePane, w.layout) = w
  <1> DEFINE qs == Shown(w)
             e(p) == w.panes[p].tabs
             s(p) == [i \in DOMAIN qs[p].tabs |->
                        [path |-> qs[p].tabs[i].path, locked |-> qs[p].tabs[i].locked]]
  <1>1. ASSUME NEW p \in Panes PROVE s(p) = e(p) /\ qs[p].active = w.panes[p].active
    <2>1. /\ DOMAIN qs[p].tabs = 1 .. Len(e(p)) /\ qs[p].active = w.panes[p].active
          /\ \A i \in 1 .. Len(e(p)) :
               qs[p].tabs[i] = Fresh(Before(w, p) + i, e(p)[i].path, e(p)[i].locked)
      BY ShownTabs
    <2>2. /\ e(p) \in Seq(SavedTab) /\ DOMAIN e(p) = 1 .. Len(e(p))
      BY WindowTypes
    <2>3. \A u, f, k : Fresh(u, f, k).path = f /\ Fresh(u, f, k).locked = k
      BY DEF Fresh
    <2> HIDE DEF qs, e
    <2>4. \A i \in 1 .. Len(e(p)) : /\ qs[p].tabs[i].path = e(p)[i].path
                                    /\ qs[p].tabs[i].locked = e(p)[i].locked
      BY <2>1, <2>3
    <2>5. \A i \in 1 .. Len(e(p)) :
            [path |-> qs[p].tabs[i].path, locked |-> qs[p].tabs[i].locked] = e(p)[i]
      <3>1. \A i \in 1 .. Len(e(p)) : e(p)[i] \in SavedTab
        BY <2>2, InSequence
      <3>2. \A r \in SavedTab : \A f, k :
              r.path = f /\ r.locked = k => [path |-> f, locked |-> k] = r
        BY DEF SavedTab
      <3> QED  BY <2>4, <3>1, <3>2
    <2>6. s(p) = [i \in 1 .. Len(e(p)) |-> e(p)[i]]
      BY <2>1, <2>5
    <2>7. e(p) = [i \in 1 .. Len(e(p)) |-> e(p)[i]]
      BY <2>2, SeqDef
    <2> QED  BY <2>1, <2>6, <2>7
  <1>2. \A p \in Panes : w.panes[p] = [tabs |-> e(p), active |-> w.panes[p].active]
    BY DEF WindowOK, SavedWindow
  <1>3. w.panes = [p \in Panes |-> w.panes[p]]
    BY DEF WindowOK, SavedWindow
  <1>4. w = [layout |-> w.layout, activePane |-> w.activePane, panes |-> w.panes]
    BY DEF WindowOK, SavedWindow
  <1> HIDE DEF e
  <1>5. Window(qs, w.activePane, w.layout)
          = [layout |-> w.layout, activePane |-> w.activePane,
             panes |-> [p \in Panes |-> [tabs |-> s(p), active |-> qs[p].active]]]
    BY DEF Window
  <1> HIDE DEF s, qs
  <1>6. [p \in Panes |-> [tabs |-> s(p), active |-> qs[p].active]] = w.panes
    BY <1>1, <1>2, <1>3
  <1> QED  BY <1>4, <1>5, <1>6 DEF qs

(* A start establishes the invariant of the tabs. *)
LEMMA StartKeepsPanes ==
  ASSUME NEW f, SettingsOK(Loaded(f)), Start(f)
  PROVE  PanesInv'
  <1> DEFINE w == StartWindow(Loaded(f))
             ps == Shown(w)
             n == UidsOf(w)
  <1>1. /\ WindowOK(w)
        /\ panes' = ps /\ activePane' = w.activePane /\ layout' = w.layout
        /\ nextUid' = n /\ notes' = {}
        /\ asked' = {[pane |-> l[1], uid |-> TabAt(ps, l).uid] : l \in AllPlaces(ps)}
        /\ \E failing : watchers' = AllStarted(ps, failing)
    BY StartShows
  <1> HIDE DEF w
  <1>2. Shape(ps, n) /\ n \in Nat \ {0}
    BY <1>1, ShownShape, ShownTabs
  <1>3. activePane' \in Panes /\ layout' \in Layouts
    BY <1>1, TwoPanes, WindowTypes
  <1>4. ASSUME NEW l \in AllPlaces(ps)
        PROVE  /\ TabAt(ps, l).loading = TRUE /\ TabAt(ps, l).flatten = FALSE
               /\ Steady(TabAt(ps, l))
    <2>1. l[1] \in Panes /\ l[2] \in 1 .. Len(ps[l[1]].tabs)
          /\ TabAt(ps, l) = ps[l[1]].tabs[l[2]]
      BY <1>2, OnePlace
    <2>2. l[2] \in 1 .. Len(w.panes[l[1]].tabs)
      BY <1>1, <2>1, ShownTabs
    <2> DEFINE e == w.panes[l[1]].tabs[l[2]]
               u == Before(w, l[1]) + l[2]
    <2>3. ps[l[1]].tabs[l[2]] = Fresh(u, e.path, e.locked) /\ Steady(ps[l[1]].tabs[l[2]])
      <3> DEFINE p == l[1]
                 i == l[2]
                 h == w.panes[p].tabs[i]
      <3>1. WindowOK(w) /\ p \in Panes /\ i \in 1 .. Len(w.panes[p].tabs)
        BY <1>1, <2>1, <2>2
      <3> HIDE DEF p, i
      <3>2. /\ Shown(w)[p].tabs[i] = Fresh(Before(w, p) + i, h.path, h.locked)
            /\ Steady(Shown(w)[p].tabs[i])
        BY <3>1, ShownTabs
      <3> QED  BY <3>2 DEF p, i
    <2> HIDE DEF e, u, ps
    <2> QED  BY <2>1, <2>3 DEF Fresh
  <1> HIDE DEF ps, n
  <1>5. \A l \in AllPlaces(ps) : /\ l[1] \in Panes /\ TabAt(ps, l).uid \in 1 .. n
                                 /\ TabAt(ps, l).path \in Folders
    <2> SUFFICES ASSUME NEW l \in AllPlaces(ps)
                 PROVE  /\ l[1] \in Panes /\ TabAt(ps, l).uid \in 1 .. n
                        /\ TabAt(ps, l).path \in Folders
      OBVIOUS
    <2>1. l[1] \in Panes /\ TabAt(ps, l) \in TabsBelow(n)
      BY <1>2, OnePlace
    <2>2. 1 .. n - 1 \subseteq 1 .. n
      BY <1>2
    <2> QED  BY <2>1, <2>2 DEF TabsBelow
  <1>6. asked' \subseteq NoteSet(n) /\ notes' \subseteq NoteSet(n)
    BY <1>1, <1>5 DEF NoteSet
  <1>7. watchers' \subseteq WatcherSet(n)
    <2> SUFFICES ASSUME NEW v \in watchers' PROVE v \in WatcherSet(n)
      OBVIOUS
    <2>1. PICK failing : watchers' = AllStarted(ps, failing)
      BY <1>1
    <2>2. PICK l \in AllPlaces(ps) : v = Started(ps, l, failing)
      BY <2>1 DEF AllStarted
    <2>3. TabAt(ps, l).flatten \in BOOLEAN /\ n \in Nat
      BY <1>2, <1>4
    <2> QED  BY <1>5, <2>2, <2>3, WatcherFacts
  <1>8. ASSUME NEW t \in AllIn(ps) PROVE Cared(t, watchers', asked') /\ Steady(t)
    <2>1. PICK l \in AllPlaces(ps) : TabAt(ps, l) = t
      BY <1>2, OnePlace
    <2>2. Steady(t) /\ t.flatten = FALSE
      BY <1>4, <2>1
    <2>3. [pane |-> l[1], uid |-> t.uid] \in asked'
      BY <1>1, <2>1
    <2>4. Awaited(t, asked')
      BY <2>3 DEF Awaited
    <2>5. PICK failing : watchers' = AllStarted(ps, failing)
      BY <1>1
    <2>6. Watched(t, watchers')
      <3>1. t.path \in Watchable => Started(ps, l, failing) \in watchers'
        BY <2>1, <2>5 DEF AllStarted
      <3>2. /\ Started(ps, l, failing).uid = t.uid /\ Started(ps, l, failing).folder = t.path
            /\ Started(ps, l, failing).subtree = t.flatten
        BY <2>1 DEF Started, WatcherFor
      <3> QED  BY <3>1, <3>2 DEF Watched
    <2> QED  BY <2>2, <2>4, <2>6 DEF Cared
  <1> QED  BY <1>1, <1>2, <1>3, <1>6, <1>7, <1>8 DEF PanesInv


------------------------------------------------------------------------------
(* The settings in memory and in the file.                                 *)

FileOK(f) == f = NoFile \/ (f.kind = "whole" /\ f = Whole(f.settings) /\ SettingsOK(f.settings))

SetInv ==
  /\ SettingsOK(settings) /\ FileOK(file) /\ starts \in Nat
  /\ saving \in BOOLEAN /\ showHidden \in BOOLEAN
  /\ unsaved \in BOOLEAN /\ leaving \in BOOLEAN

(* What is loaded from a missing or a whole file can be shown. *)
LEMMA LoadedOK ==
  ASSUME NEW f, FileOK(f)
  PROVE  SettingsOK(Loaded(f)) /\ f # Torn
         /\ Loaded(f) = IF f.kind = "whole" THEN f.settings ELSE DefaultSettings
  <1>1. NoFile.kind = "none" /\ Torn.kind = "torn"
    BY DEF NoFile, Torn
  <1>2. f # Torn
    BY <1>1 DEF FileOK, NoFile, Torn
  <1> QED  BY <1>1, <1>2, DefaultIsOK DEF FileOK, Loaded

(* A control changes one of the settings. *)
LEMMA OptionsOK ==
  ASSUME NEW s, SettingsOK(s)
  PROVE  /\ SettingsOK([s EXCEPT !.restore = ~@])
         /\ \A l \in Layouts : SettingsOK([s EXCEPT !.defaultLayout = l])
         /\ \A h \in BOOLEAN : SettingsOK([s EXCEPT !.hidden = h])
  <1> DEFINE R == [restore : BOOLEAN, defaultLayout : Layouts, hidden : BOOLEAN,
                   window : SavedWindow]
  <1>1. s \in R /\ WindowOK(s.window)
    BY DEF SettingsOK
  <1>2. ASSUME NEW b \in BOOLEAN
        PROVE  [s EXCEPT !.restore = b] \in R /\ [s EXCEPT !.restore = b].window = s.window
    BY <1>1
  <1>3. ASSUME NEW l \in Layouts
        PROVE  /\ [s EXCEPT !.defaultLayout = l] \in R
               /\ [s EXCEPT !.defaultLayout = l].window = s.window
    BY <1>1
  <1>4. ASSUME NEW h \in BOOLEAN
        PROVE  [s EXCEPT !.hidden = h] \in R /\ [s EXCEPT !.hidden = h].window = s.window
    BY <1>1
  <1>5. [s EXCEPT !.restore = ~@] = [s EXCEPT !.restore = ~s.restore]
    OBVIOUS
  <1> HIDE DEF R
  <1>6. SettingsOK([s EXCEPT !.restore = ~@])
    <2> DEFINE b == ~s.restore
    <2>1. b \in BOOLEAN
      OBVIOUS
    <2> HIDE DEF b
    <2>2. SettingsOK([s EXCEPT !.restore = b])
      BY <1>1, <1>2, <2>1 DEF SettingsOK, R
    <2> QED  BY <1>5, <2>2 DEF b
  <1>7. \A l \in Layouts : SettingsOK([s EXCEPT !.defaultLayout = l])
    BY <1>1, <1>3 DEF SettingsOK, R
  <1>8. \A h \in BOOLEAN : SettingsOK([s EXCEPT !.hidden = h])
    BY <1>1, <1>4 DEF SettingsOK, R
  <1> QED  BY <1>6, <1>7, <1>8

(* The window is saved as it is. *)
LEMMA SessionOK == PanesInv /\ SetInv => SettingsOK(Session)
  <1> SUFFICES ASSUME PanesInv, SetInv PROVE SettingsOK(Session)
    OBVIOUS
  <1> DEFINE R == [restore : BOOLEAN, defaultLayout : Layouts, hidden : BOOLEAN,
                   window : SavedWindow]
             w == Window(panes, activePane, layout)
  <1>1. WindowOK(w) /\ w \in SavedWindow /\ showHidden \in BOOLEAN /\ settings \in R
    BY WindowIsOK DEF PanesInv, WindowOK, SetInv, SettingsOK
  <1> HIDE DEF w
  <1>2. [settings EXCEPT !.window = w, !.hidden = showHidden] \in R
        /\ [settings EXCEPT !.window = w, !.hidden = showHidden].window = w
    <2> DEFINE x == [settings EXCEPT !.window = w]
    <2>1. x \in R /\ x.window = w
      BY <1>1
    <2>2. [settings EXCEPT !.window = w, !.hidden = showHidden]
            = [x EXCEPT !.hidden = showHidden]
      OBVIOUS
    <2> HIDE DEF x
    <2>3. [x EXCEPT !.hidden = showHidden] \in R
          /\ [x EXCEPT !.hidden = showHidden].window = x.window
      BY <1>1, <2>1
    <2> QED  BY <2>1, <2>2, <2>3
  <1> QED  BY <1>1, <1>2 DEF Session, SettingsOK, w

(* A start from a file that is missing or whole. *)
LEMMA StartKeeps ==
  ASSUME SetInv, FileOK(file'), Start(file')
  PROVE  PanesInv' /\ SetInv' /\ starts' # starts /\ StartStep
  <1> DEFINE s == Loaded(file')
             w == StartWindow(s)
  <1>1. /\ SettingsOK(s) /\ file' # Torn
        /\ s = IF file'.kind = "whole" THEN file'.settings ELSE DefaultSettings
    BY LoadedOK
  <1>2. PanesInv'
    BY <1>1, StartKeepsPanes
  <1>3. /\ settings' = s /\ showHidden' = s.hidden /\ starts' = starts + 1
        /\ saving' = FALSE /\ leaving' = FALSE /\ unsaved' = FALSE
    BY DEF Start
  <1>4. WindowOK(w) /\ panes' = Shown(w) /\ activePane' = w.activePane /\ layout' = w.layout
    BY <1>1, StartShows
  <1>5. Window(panes', activePane', layout') = w
    BY <1>4, WindowOfShown
  <1>6. s.hidden \in BOOLEAN
    BY <1>1 DEF SettingsOK
  <1>7. starts' \in Nat /\ starts' # starts
    BY <1>3 DEF SetInv
  <1> HIDE DEF s
  <1>8. StartStep
    BY <1>1, <1>3, <1>5 DEF StartStep, StartWindow
  <1>9. SetInv'
    BY <1>1, <1>3, <1>6, <1>7 DEF SetInv
  <1> QED  BY <1>2, <1>7, <1>8, <1>9


------------------------------------------------------------------------------
(* Every step.                                                             *)

SessionInv == PanesInv /\ SetInv

\* A start shows what was saved; any other step keeps the histories.
SessionDescent ==
  /\ starts' = starts => Descent
  /\ starts' # starts => StartStep

(* A step of the settings alone. *)
LEMMA SettingsStep ==
  ASSUME SessionInv, UNCHANGED windowRest, layout' \in Layouts, starts' = starts,
         FileOK(file'), SettingsOK(settings'),
         saving' \in BOOLEAN, showHidden' \in BOOLEAN, unsaved' \in BOOLEAN, leaving' \in BOOLEAN
  PROVE  SessionInv' /\ SessionDescent
  <1>1. UNCHANGED <<panes, nextUid, watchers, asked>> /\ notes' = notes /\ activePane' = activePane
    BY DEF windowRest
  <1>2. Frame
    BY <1>1 DEF Frame, SessionInv, PanesInv
  <1>3. PanesInv' /\ Descent
    BY <1>1, <1>2, SameTabs DEF SessionInv
  <1>4. SetInv'
    BY DEF SessionInv, SetInv
  <1> QED  BY <1>3, <1>4 DEF SessionInv, SessionDescent

(* The end of a save: idle again, or the next start. *)
LEMMA SaveOverStep ==
  ASSUME SessionInv, NEW b \in BOOLEAN, SaveOver(b), FileOK(file')
  PROVE  SessionInv' /\ SessionDescent
  <1>1. CASE leaving
    <2>1. Start(file')
      BY <1>1 DEF SaveOver
    <2> QED  BY <2>1, StartKeeps DEF SessionInv, SessionDescent
  <1>2. CASE ~leaving
    <2>1. /\ saving' = FALSE /\ unsaved' = b
          /\ UNCHANGED <<tabVars, settings, showHidden, leaving, starts>>
      BY <1>2 DEF SaveOver
    <2>2. UNCHANGED windowRest /\ layout' \in Layouts
      BY <2>1 DEF tabVars, windowRest, SessionInv, PanesInv
    <2>3. SettingsOK(settings') /\ saving' \in BOOLEAN /\ showHidden' \in BOOLEAN
          /\ unsaved' \in BOOLEAN /\ leaving' \in BOOLEAN /\ starts' = starts
      BY <2>1 DEF SessionInv, SetInv
    <2> QED  BY <2>2, <2>3, SettingsStep
  <1> QED  BY <1>1, <1>2

(* Every step keeps the invariant, and the histories or the session. *)
LEMMA SessionStep == SessionInv /\ [Next]_vars => SessionInv' /\ SessionDescent
  <1> SUFFICES ASSUME SessionInv, [Next]_vars PROVE SessionInv' /\ SessionDescent
    OBVIOUS
  <1>1. /\ SettingsOK(settings) /\ FileOK(file) /\ layout \in Layouts
        /\ saving \in BOOLEAN /\ showHidden \in BOOLEAN
        /\ unsaved \in BOOLEAN /\ leaving \in BOOLEAN
    BY DEF SessionInv, SetInv, PanesInv
  <1>2. CASE TabsNext /\ UNCHANGED sessionVars
    <2>1. PanesInv' /\ Descent
      BY <1>2, TabsStep DEF SessionInv
    <2>2. SetInv' /\ starts' = starts
      BY <1>2 DEF SessionInv, SetInv, sessionVars
    <2> QED  BY <2>1, <2>2 DEF SessionInv, SessionDescent
  <1>3. CASE SetOption
    <2>1. /\ UNCHANGED <<windowRest, layout, showHidden, leaving, file, unsaved, starts>>
          /\ settings' = [settings EXCEPT !.restore = ~@] /\ saving' = TRUE
      BY <1>3 DEF SetOption, Save
    <2>2. SettingsOK(settings')
      BY <1>1, <2>1, OptionsOK
    <2> QED  BY <1>1, <2>1, <2>2, SettingsStep
  <1>4. ASSUME NEW l \in Layouts, SetDefaultLayout(l) PROVE SessionInv' /\ SessionDescent
    <2>1. /\ UNCHANGED <<windowRest, showHidden, leaving, file, unsaved, starts>>
          /\ settings' = [settings EXCEPT !.defaultLayout = l] /\ saving' = TRUE
          /\ layout' = l
      BY <1>4 DEF SetDefaultLayout, Save
    <2>2. SettingsOK(settings')
      BY <1>1, <2>1, OptionsOK
    <2> QED  BY <1>1, <2>1, <2>2, SettingsStep
  <1>5. CASE ToggleHidden
    <2>1. /\ UNCHANGED <<windowRest, layout, leaving, file, unsaved, starts>>
          /\ showHidden' = ~showHidden
          /\ \/ settings' = [settings EXCEPT !.hidden = ~showHidden] /\ saving' = TRUE
             \/ settings' = settings /\ saving' = saving
      BY <1>5 DEF ToggleHidden, Save
    <2> DEFINE h == ~showHidden
    <2>2. h \in BOOLEAN
      BY Zenon
    <2>3. /\ showHidden' = h
          /\ \/ settings' = [settings EXCEPT !.hidden = h] /\ saving' = TRUE
             \/ settings' = settings /\ saving' = saving
      BY <2>1
    <2> HIDE DEF h
    <2>4. SettingsOK(settings')
      BY <1>1, <2>2, <2>3, OptionsOK
    <2>5. saving' \in BOOLEAN /\ showHidden' \in BOOLEAN
      BY <1>1, <2>2, <2>3
    <2> QED  BY <1>1, <2>1, <2>4, <2>5, SettingsStep
  <1>6. CASE SaveSession
    <2>1. /\ settings' = Session /\ saving' = TRUE
          /\ UNCHANGED <<tabVars, showHidden, file, unsaved, starts>>
      BY <1>6 DEF SaveSession, Save
    <2>4. leaving' \in BOOLEAN
      <3>1. leaving' \in {FALSE} \cup {starts < MaxStarts}
        BY <1>6 DEF SaveSession
      <3>2. (starts < MaxStarts) \in BOOLEAN
        BY SessionAssumption DEF SessionInv, SetInv
      <3> QED  BY <3>1, <3>2
    <2>2. SettingsOK(settings')
      BY <2>1, SessionOK DEF SessionInv
    <2>3. UNCHANGED windowRest /\ layout' = layout
      BY <2>1 DEF tabVars, windowRest
    <2> QED  BY <1>1, <2>1, <2>2, <2>3, <2>4, SettingsStep
  <1>7. CASE Rename
    <2>1. file' = Whole(settings) /\ SaveOver(FALSE)
      BY <1>7 DEF Rename
    <2>2. \A s : Whole(s).kind = "whole" /\ Whole(s).settings = s
      BY DEF Whole
    <2>3. FileOK(file')
      BY <1>1, <2>1, <2>2 DEF FileOK
    <2> QED  BY <2>1, <2>3, SaveOverStep
  <1>8. CASE SaveFails
    <2>1. file' = file /\ SaveOver(TRUE)
      BY <1>8 DEF SaveFails
    <2> QED  BY <1>1, <2>1, SaveOverStep
  <1>9. CASE Crash
    <2>1. Start(file') /\ FileOK(file')
      BY <1>1, <1>9 DEF Crash
    <2> QED  BY <2>1, StartKeeps DEF SessionInv, SessionDescent
  <1>10. CASE UNCHANGED vars
    <2>1. UNCHANGED windowRest /\ layout' = layout
          /\ UNCHANGED <<settings, showHidden, file, saving, leaving, unsaved, starts>>
      BY <1>10 DEF vars, tabVars, sessionVars, windowRest
    <2> QED  BY <1>1, <2>1, SettingsStep
  <1> QED  BY <1>2, <1>3, <1>4, <1>5, <1>6, <1>7, <1>8, <1>9, <1>10 DEF Next

(* The default session satisfies the invariant. *)
LEMMA SessionInit == Init => SessionInv
  <1> SUFFICES ASSUME Init PROVE SessionInv
    OBVIOUS
  <1> DEFINE t(p) == NewTab(p, Home)
  <1>1. /\ panes = [p \in Panes |-> [tabs |-> <<t(p)>>, active |-> 1]]
        /\ activePane = 1 /\ layout = "dual" /\ nextUid = 3
        /\ notes = {} /\ asked = {}
    BY DEF Init, TabsInit
  <1>2. SetInv
    BY DefaultIsOK DEF Init, SetInv, FileOK
  <1>3. \A p \in Panes : p \in Nat \ {0} /\ p \in 1 .. 2 /\ p + 1 \in Nat /\ p + 1 <= 3
    BY DEF Panes
  <1>4. ASSUME NEW p \in Panes
        PROVE  t(p) \in TabsBelow(3) /\ t(p).uid = p /\ Steady(t(p))
    <2>1. t(p) \in TabsBelow(p + 1) /\ t(p).uid = p /\ Steady(t(p))
      BY <1>3, NewTabFacts, TabsAssumption
    <2> HIDE DEF t
    <2>2. t(p) \in TabsBelow(3)
      BY <1>3, <2>1, MoreTabs
    <2> QED  BY <2>1, <2>2
  <1>5. \A p \in Panes : t(p).path = Home /\ t(p).loading = FALSE /\ t(p).flatten = FALSE
    BY DEF NewTab
  <1> HIDE DEF t
  <1>6. \A p \in Panes : /\ panes[p].tabs = <<t(p)>> /\ panes[p].active = 1
                         /\ ToSet(panes[p].tabs) = {t(p)} /\ Len(panes[p].tabs) = 1
                         /\ panes[p].tabs \in Seq(TabsBelow(3))
    <2> SUFFICES ASSUME NEW p \in Panes
                 PROVE  /\ panes[p].tabs = <<t(p)>> /\ panes[p].active = 1
                        /\ ToSet(panes[p].tabs) = {t(p)} /\ Len(panes[p].tabs) = 1
                        /\ panes[p].tabs \in Seq(TabsBelow(3))
      OBVIOUS
    <2>1. panes[p].tabs = <<t(p)>> /\ panes[p].active = 1
      BY <1>1
    <2>2. <<t(p)>> \in Seq(TabsBelow(3)) /\ Len(<<t(p)>>) = 1 /\ <<t(p)>>[1] = t(p)
      BY <1>4
    <2>3. ToSet(<<t(p)>>) = {t(p)}
      <3>1. \A x : x \in ToSet(<<t(p)>>) <=> \E i \in 1 .. Len(<<t(p)>>) : <<t(p)>>[i] = x
        BY <2>2, InSequence
      <3>2. \A x : x \in ToSet(<<t(p)>>) <=> x = t(p)
        BY <2>2, <3>1
      <3> QED  BY <3>2
    <2> QED  BY <2>1, <2>2, <2>3
  <1>7. Shape(panes, 3)
    <2>1. panes \in PanesBelow(3)
      <3>1. \A p \in Panes : <<t(p)>> \in Seq(TabsBelow(3)) /\ 1 \in Nat
        BY <1>6
      <3> QED  BY <1>1, <3>1 DEF PanesBelow
    <2>2. \A p \in Panes : panes[p].active \in 1 .. Len(panes[p].tabs)
      BY <1>6
    <2>3. Len(panes[1].tabs) + Len(panes[2].tabs) <= MaxTabs
      <3>1. Len(panes[1].tabs) = 1 /\ Len(panes[2].tabs) = 1
        BY <1>6, TwoPanes
      <3>2. 1 + 1 <= MaxTabs
        BY TabsAssumption
      <3> QED  BY <3>1, <3>2
    <2>4. \A p \in Panes : Distinct(panes[p].tabs)
      BY <1>6 DEF Distinct
    <2>5. Uids(panes[1].tabs) = {1} /\ Uids(panes[2].tabs) = {2}
      BY <1>4, <1>6, TwoPanes DEF Uids
    <2>6. Uids(panes[1].tabs) \cap Uids(panes[2].tabs) = {}
      BY <2>5
    <2> HIDE DEF t
    <2> QED  BY <2>1, <2>2, <2>3, <2>4, <2>6 DEF Shape
  <1>8. \A u \in AllIn(panes) : \E p \in Panes : u = t(p)
    BY <1>6, TwoPanes DEF AllIn
  <1> DEFINE first(p, failing) ==
               [pane |-> p, uid |-> p, folder |-> Home, subtree |-> FALSE,
                state |-> IF p \in failing THEN "refused" ELSE "running"]
  <1>9. PICK failing \in SUBSET Panes :
           watchers = {first(p, failing) : p \in {q \in Panes : Home \in Watchable}}
    BY DEF Init, TabsInit
  <1>10. ASSUME NEW p \in Panes PROVE Cared(t(p), watchers, asked)
    <2>1. Home \in Watchable => first(p, failing) \in watchers
      BY <1>9
    <2>2. /\ first(p, failing).uid = p /\ first(p, failing).folder = Home
          /\ first(p, failing).subtree = FALSE
      OBVIOUS
    <2> HIDE DEF first
    <2> QED  BY <1>4, <1>5, <2>1, <2>2 DEF Cared, Watched, Awaited
  <1>11. watchers \subseteq WatcherSet(3)
    <2>1. \A p \in Panes : p \in 1 .. 3
      BY DEF Panes
    <2> SUFFICES ASSUME NEW v \in watchers PROVE v \in WatcherSet(3)
      OBVIOUS
    <2>2. PICK p \in Panes : v = first(p, failing)
      BY <1>9
    <2>3. p \in 1 .. 3 /\ Home \in Folders /\ FALSE \in BOOLEAN
      BY <2>1, TabsAssumption
    <2>4. PICK x \in WatcherStates :
            v = [pane |-> p, uid |-> p, folder |-> Home, subtree |-> FALSE, state |-> x]
      BY <2>2 DEF WatcherStates
    <2> QED  BY <2>3, <2>4 DEF WatcherSet
  <1>12. PanesInv
    BY <1>1, <1>4, <1>7, <1>8, <1>10, <1>11, TwoPanes DEF PanesInv, Layouts
  <1> QED  BY <1>2, <1>12 DEF SessionInv

(* The invariant holds at every moment. *)
LEMMA SessionInvariance == Spec => []SessionInv
  BY SessionInit, SessionStep, PTL DEF Spec


------------------------------------------------------------------------------
(* What follows from the invariant.                                        *)

(* A uid has one place at most. *)
LEMMA UidsTellTabsApart ==
  ASSUME PanesInv, NEW uid
  PROVE  Cardinality(Places(uid)) <= 1
  <1>1. nextUid \in Nat /\ Shape(panes, nextUid)
    BY DEF PanesInv
  <1>2. \A l, k \in AllPlaces(panes) : TabAt(panes, l).uid = TabAt(panes, k).uid => l = k
    BY <1>1, OnePlace
  <1>3. CASE Places(uid) = {}
    BY <1>3, FS_EmptySet
  <1>4. CASE Places(uid) # {}
    <2>1. PICK l : l \in Places(uid)
      BY <1>4
    <2>2. Places(uid) = {l}
      BY <1>2, <2>1 DEF Places
    <2>3. Cardinality({l}) = 1
      BY FS_Singleton
    <2> QED  BY <2>2, <2>3
  <1> QED  BY <1>3, <1>4

(***************************************************************************)
(* The types of the tabs, the settings and the file; each pane has a tab,  *)
(* its active one among them, and a message's uid is that of one tab.      *)
(***************************************************************************)
THEOREM SessionTypeCorrect == Spec => []SessionTypeOK
  <1>1. SessionInv => SessionTypeOK
    <2> SUFFICES ASSUME SessionInv PROVE SessionTypeOK
      OBVIOUS
    <2>1. PanesInv /\ SetInv
      BY DEF SessionInv
    <2>2. nextUid \in Nat /\ Shape(panes, nextUid)
      BY <2>1 DEF PanesInv
    <2>3. panes \in [Panes -> [tabs : Seq(TabSet), active : Nat]]
      <3>1. TabSet = TabsBelow(nextUid)
        BY DEF TabSet, TabsBelow
      <3> QED  BY <2>2, <3>1 DEF Shape, PanesBelow
    <2>4. \A p \in Panes : panes[p].active \in DOMAIN TabsOf(p)
      <3> SUFFICES ASSUME NEW p \in Panes PROVE panes[p].active \in DOMAIN panes[p].tabs
        BY DEF TabsOf
      <3>1. /\ DOMAIN panes[p].tabs = 1 .. Len(panes[p].tabs)
            /\ panes[p].active \in 1 .. Len(panes[p].tabs)
        BY <2>2, ShapeTypes
      <3> QED  BY <3>1
    <2>5. /\ activePane \in Panes /\ layout \in Layouts
          /\ watchers \subseteq [pane : Panes, uid : 1 .. nextUid, folder : Folders,
                                 subtree : BOOLEAN, state : WatcherStates]
          /\ notes \subseteq [pane : Panes, uid : 1 .. nextUid]
          /\ asked \subseteq [pane : Panes, uid : 1 .. nextUid]
      BY <2>1 DEF PanesInv, WatcherSet, NoteSet
    <2>6. TypeOK
      BY <2>1, <2>3, <2>4, <2>5, UidsTellTabsApart DEF TypeOK
    <2>7. \A s : SettingsOK(s) => s \in SavedSettings
      BY DEF SettingsOK, SavedSettings, SavedWindow, SavedTab
    <2>8. file \in {NoFile, Torn} \cup [kind : {"whole"}, settings : SavedSettings]
      <3>1. CASE file = NoFile
        BY <3>1
      <3>2. CASE file = Whole(file.settings) /\ SettingsOK(file.settings)
        <4> DEFINE s == file.settings
        <4>1. file = [kind |-> "whole", settings |-> s] /\ s \in SavedSettings
          BY <2>7, <3>2 DEF Whole
        <4> HIDE DEF s
        <4> QED  BY <4>1
      <3> QED  BY <2>1, <3>1, <3>2 DEF SetInv, FileOK
    <2>9. settings \in SavedSettings /\ {saving, showHidden, unsaved, leaving} \subseteq BOOLEAN
      BY <2>1, <2>7 DEF SetInv
    <2> QED  BY <2>6, <2>8, <2>9 DEF SessionTypeOK
  <1> QED  BY <1>1, SessionInvariance, PTL

(* A tab of a pane is at a place of its own. *)
LEMMA TabsPlace ==
  ASSUME PanesInv, NEW p \in Panes, NEW i \in DOMAIN TabsOf(p)
  PROVE  /\ TabsOf(p)[i] \in AllIn(panes)
         /\ \A pane : FindTab(pane, TabsOf(p)[i].uid) = {<<p, i>>}
  <1>1. nextUid \in Nat /\ Shape(panes, nextUid)
    BY DEF PanesInv
  <1>2. i \in 1 .. Len(panes[p].tabs)
    BY <1>1, ShapeTypes DEF TabsOf
  <1>3. <<p, i>> \in AllPlaces(panes) /\ TabAt(panes, <<p, i>>) = TabsOf(p)[i]
    BY <1>1, <1>2, OnePlace DEF TabAt, TabsOf
  <1>4. TabsOf(p)[i] \in AllIn(panes)
    BY <1>1, <1>3, OnePlace
  <1> QED  BY <1>3, <1>4, Found

(***************************************************************************)
(* Wherever a tab has been dragged, a running watcher watches the folder   *)
(* it shows, as deep as it shows it, and what that watcher reports finds   *)
(* the tab; or the system refused that watcher, or ended it.               *)
(***************************************************************************)
THEOREM ChangesReach == Spec => []ChangesReachTheTab
  <1>1. SessionInv => ChangesReachTheTab
    <2> SUFFICES ASSUME SessionInv, NEW p \in Panes, NEW i \in DOMAIN TabsOf(p),
                        TabsOf(p)[i].path \in Watchable
                 PROVE  \/ \E w \in WatchersOf(p, i) : w.state = "running"
                        \/ \E w \in WatchersOf(p, i) : w.state \in {"refused", "ended"}
      BY DEF ChangesReachTheTab
    <2> DEFINE t == TabsOf(p)[i]
    <2>1. t \in AllIn(panes) /\ \A pane : FindTab(pane, t.uid) = {<<p, i>>}
      BY TabsPlace DEF SessionInv
    <2>2. Watched(t, watchers) /\ watchers \subseteq WatcherSet(nextUid)
      BY <2>1 DEF SessionInv, PanesInv, Cared
    <2>3. PICK w \in watchers : w.uid = t.uid /\ w.folder = t.path /\ w.subtree = t.flatten
      BY <2>2 DEF Watched
    <2>4. w \in WatchersOf(p, i)
      BY <2>1, <2>3 DEF WatchersOf
    <2>5. w.state \in WatcherStates
      BY <2>2, <2>3 DEF WatcherSet
    <2> QED  BY <2>4, <2>5 DEF WatcherStates
  <1> QED  BY <1>1, SessionInvariance, PTL

(***************************************************************************)
(* A tab that loads has its listing on the way, and that listing finds it, *)
(* in whatever pane it is by then.                                         *)
(***************************************************************************)
THEOREM LoadingFound == Spec => []LoadingTabIsFound
  <1>1. SessionInv => LoadingTabIsFound
    <2> SUFFICES ASSUME SessionInv, NEW p \in Panes, NEW i \in DOMAIN TabsOf(p),
                        TabsOf(p)[i].loading
                 PROVE  \E a \in asked : FindTab(a.pane, a.uid) = {<<p, i>>}
      BY DEF LoadingTabIsFound
    <2> DEFINE t == TabsOf(p)[i]
    <2>1. t \in AllIn(panes) /\ \A pane : FindTab(pane, t.uid) = {<<p, i>>}
      BY TabsPlace DEF SessionInv
    <2>2. Awaited(t, asked)
      BY <2>1 DEF SessionInv, PanesInv, Cared
    <2>3. PICK a \in asked : a.uid = t.uid
      BY <2>2 DEF Awaited
    <2> QED  BY <2>1, <2>3
  <1> QED  BY <1>1, SessionInvariance, PTL

(***************************************************************************)
(* A start, after a crash in the middle of a save too, shows the panes,    *)
(* tabs and locks saved last, and never meets a torn file.                 *)
(***************************************************************************)
THEOREM StartsRestore == Spec => StartRestores
  <1>1. SessionInv /\ [Next]_vars => [starts' # starts => StartStep]_vars
    BY SessionStep DEF SessionDescent
  <1> QED  BY <1>1, SessionInvariance, PTL DEF Spec, StartRestores

(* The tabs of both panes, and those with a uid. *)
LEMMA TabsByUid ==
  /\ AllTabs = AllIn(panes)
  /\ \A uid : \A u : u \in TabWith(panes', uid) <=> u \in AllIn(panes') /\ u.uid = uid
  BY TwoPanes DEF AllTabs, TabsOf, AllIn, TabWith

(* A tab descends only from the one that had its uid. *)
LEMMA OneAncestor ==
  ASSUME PanesInv, Descent, NEW t \in AllTabs, NEW u \in TabWith(panes', t.uid)
  PROVE  Descends(t, u) /\ Steady(u)
  <1>1. nextUid \in Nat /\ Shape(panes, nextUid)
    BY DEF PanesInv
  <1>2. t \in AllIn(panes) /\ u \in AllIn(panes') /\ u.uid = t.uid
    BY TabsByUid
  <1>3. t \in TabsBelow(nextUid)
    BY <1>1, <1>2, OnePlace
  <1>4. t.uid \in 1 .. nextUid - 1
    BY <1>3 DEF TabsBelow
  <1>5. ~ (u.uid >= nextUid)
    BY <1>1, <1>2, <1>4
  <1>6. PICK v \in AllIn(panes) : Descends(v, u)
    BY <1>2, <1>5 DEF Descent, New
  <1>7. v.uid = t.uid
    BY <1>2, <1>6 DEF Descends
  <1>8. v = t
    BY <1>1, <1>2, <1>7, OnePlace
  <1>9. Steady(t)
    BY <1>2 DEF PanesInv
  <1> QED  BY <1>6, <1>8, <1>9 DEF Descends

(***************************************************************************)
(* No step but a start loses a folder of a tab's history, reorders it, or  *)
(* puts the same folder twice in a row.                                    *)
(***************************************************************************)
THEOREM TrailsKept == Spec => TrailKept
  <1>1. SessionInv /\ [Next]_vars => [starts' = starts => TrailStep]_vars
    <2> SUFFICES ASSUME SessionInv, [Next]_vars, starts' = starts PROVE TrailStep
      OBVIOUS
    <2>1. PanesInv /\ Descent
      BY SessionStep DEF SessionDescent, SessionInv
    <2>2. ASSUME NEW t \in AllTabs, NEW u \in TabWith(panes', t.uid)
          PROVE  Goes(t, u) /\ Steady(u)
      BY <2>1, OneAncestor DEF Descends
    <2> QED  BY <2>2 DEF TrailStep, Goes, Steady
  <1> QED  BY <1>1, SessionInvariance, PTL DEF Spec, TrailKept

(***************************************************************************)
(* A locked tab is never closed and stays at the folders it has been to    *)
(* and their parents.                                                      *)
(***************************************************************************)
THEOREM LocksKept == Spec => LockedKept
  <1>1. SessionInv /\ [Next]_vars => [starts' = starts => LockStep]_vars
    <2> SUFFICES ASSUME SessionInv, [Next]_vars, starts' = starts,
                        NEW t \in AllTabs, t.locked
                 PROVE  \E u \in TabWith(panes', t.uid) :
                          u.path \in ToSet(Trail(t)) \cup {Parent[t.path]}
      BY DEF LockStep
    <2>1. Descent
      BY SessionStep DEF SessionDescent
    <2>2. PICK u \in AllIn(panes') : Descends(t, u)
      BY <2>1, TabsByUid DEF Descent, Closed
    <2>3. u \in TabWith(panes', t.uid)
      BY <2>2, TabsByUid DEF Descends
    <2> QED  BY <2>2, <2>3 DEF Descends, Stays
  <1> QED  BY <1>1, SessionInvariance, PTL DEF Spec, LockedKept

(***************************************************************************)
(* No step but a start loses a tab, except that an unlocked one is closed, *)
(* which touches no tab of the other pane.                                 *)
(***************************************************************************)
THEOREM TabsKept == Spec => NoTabLost
  <1>1. SessionInv /\ [Next]_vars => [starts' = starts => OnlyClosingLoses]_vars
    <2> SUFFICES ASSUME SessionInv, [Next]_vars, starts' = starts, NEW t \in AllTabs,
                        TabWith(panes', t.uid) = {}
                 PROVE  Closed(t)
      BY DEF OnlyClosingLoses, Closed
    <2>1. Descent
      BY SessionStep DEF SessionDescent
    <2>2. \A u \in AllIn(panes') : ~Descends(t, u)
      BY TabsByUid DEF Descends
    <2> QED  BY <2>1, <2>2, TabsByUid DEF Descent
  <1> QED  BY <1>1, SessionInvariance, PTL DEF Spec, NoTabLost
==============================================================================
