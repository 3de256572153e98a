----------------------------- MODULE ListingProofs -----------------------------
(***************************************************************************)
(* What TLAPS proves of module Listing, for any tabs, names, folders,      *)
(* batch size and number of threads, and any number of inputs.             *)
(*                                                                         *)
(* A request is told by its tab and the generation it was made with; a job *)
(* asks for it and batches answer it. Most steps touch no more than one    *)
(* tab's latest request: for all others, what the sequences of jobs and    *)
(* results hold about them stays as it was, in the same order (Same).      *)
(***************************************************************************)
EXTENDS Listing, DataLemmas

TabState ==
  [path : Folders, generation : Nat, pending : Seq(Names), loading : BOOLEAN,
   folder : Folders, entries : Seq(Names), error : BOOLEAN,
   view : SUBSET (Nat \ {0}), selection : SUBSET (Nat \ {0}), filter : BOOLEAN]

(* The job or batch m belongs to the request g of tab t. *)
IsFor(m, t, g) == m.kind \in {"read", "batch"} /\ m.tab = t /\ m.gen = g
About(s, t, g) == {k \in DOMAIN s : IsFor(s[k], t, g)}

------------------------------------------------------------------------------
(* The inductive invariant, of one tab in state r with the jobs js and the  *)
(* results rs, the disk dk and what has been touched, td.                   *)

(* The latest request has one job and then one last batch, after all others; *)
(* a tab that does not load has nothing on the way.                          *)
OneAnswer(t, r, js, rs) ==
  LET asks == About(js, t, r.generation)
      answers == About(rs, t, r.generation)
  IN  /\ \A j, k \in asks : j = k
      /\ \A j, k \in answers : j < k => ~rs[j].done
      /\ asks # {} => \A k \in answers : ~rs[k].done
      /\ r.loading <=> asks # {} \/ \E k \in answers : rs[k].done
      /\ answers # {} => r.loading

Below(s, u) == \A a \in DOMAIN s : \A b \in DOMAIN u : s[a] < u[b]
UpTo(s, n) == \A a \in DOMAIN s : s[a] <= n

(* What it has read so far comes in the order of the folder, up to the last *)
(* name it has seen.                                                        *)
Rising(t, r, js, rs) ==
  LET asks == About(js, t, r.generation)
      answers == About(rs, t, r.generation)
  IN  /\ ListingOf(r.path, r.pending)
      /\ \A k \in answers : ListingOf(r.path, rs[k].names) /\ Below(r.pending, rs[k].names)
      /\ \A j, k \in answers : j < k => Below(rs[j].names, rs[k].names)
      /\ \A j \in asks : /\ js[j].folder = r.path /\ UpTo(r.pending, js[j].last)
                         /\ \A k \in answers : UpTo(rs[k].names, js[j].last)

Holds(s, n) == \E a \in DOMAIN s : s[a] = n

(* The name n is gathered already or in a batch on its way. *)
Got(t, r, rs, n) ==
  \/ Holds(r.pending, n)
  \/ \E k \in About(rs, t, r.generation) : Holds(rs[k].names, n)

(* Names that have neither come nor gone are read just if they exist, up to *)
(* the last one seen, and all of them at the end.                           *)
Complete(t, r, js, rs, dk, td) ==
  \A n \in Names \ td : InFolder[n] = r.path =>
    /\ \A j \in About(js, t, r.generation) : n <= js[j].last => (n \in dk <=> Got(t, r, rs, n))
    /\ \A k \in About(rs, t, r.generation) :
         rs[k].done /\ ~rs[k].error => (n \in dk <=> Got(t, r, rs, n))

(* What is shown. *)
Settled(r, dk, td) ==
  /\ ListingOf(r.folder, r.entries)
  /\ ~r.loading =>
       /\ r.folder = r.path
       /\ ~r.error => \A n \in Names \ td :
                        InFolder[n] = r.path => (n \in dk <=> Holds(r.entries, n))

TabFits(t, r, js, rs, dk, td) ==
  /\ OneAnswer(t, r, js, rs) /\ Rising(t, r, js, rs)
  /\ Complete(t, r, js, rs, dk, td) /\ Settled(r, dk, td)

(* No request is newer than its tab. *)
NotNewer(tb, js, rs) ==
  /\ \A k \in DOMAIN js : js[k].gen <= tb[js[k].tab].generation
  /\ \A k \in DOMAIN rs : rs[k].kind # "changed" => rs[k].gen <= tb[rs[k].tab].generation

ListingInv ==
  /\ TypeOK
  /\ NotNewer(tabs, jobs, results)
  /\ \A t \in Tabs : TabFits(t, tabs[t], jobs, results, disk, touched[t])

------------------------------------------------------------------------------
(* Jobs and messages of a request.                                          *)

(* A job that belongs to a request reads a folder. *)
LEMMA JobFor ==
  ASSUME NEW j \in Jobs, NEW t, NEW g, IsFor(j, t, g)
  PROVE  /\ j.kind = "read" /\ j.tab \in Tabs /\ j.gen \in Nat /\ j.folder \in Folders
         /\ j.last \in Int
  <1>1. j \in [kind : {"read"}, tab : Tabs, gen : Nat, folder : Folders,
               last : Names \cup {-1}]
    BY DEF Jobs, IsFor
  <1>2. Names \cup {-1} \subseteq Int
    BY ListingAssumption
  <1> QED  BY <1>1, <1>2

(* A message that belongs to a request is a batch. *)
LEMMA BatchFor ==
  ASSUME NEW m \in Messages, NEW t, NEW g, IsFor(m, t, g)
  PROVE  /\ m.kind = "batch" /\ m.tab \in Tabs /\ m.gen \in Nat /\ m.names \in Seq(Names)
         /\ m.done \in BOOLEAN /\ m.error \in BOOLEAN
  BY DEF Messages, IsFor

(* Two sequences hold the same about a request, in the same order. *)
Same(s, u, t, g) ==
  \E f \in [About(u, t, g) -> About(s, t, g)] :
    /\ \A i \in About(u, t, g) : u[i] = s[f[i]]
    /\ \A i, j \in About(u, t, g) : i < j => f[i] < f[j]
    /\ \A k \in About(s, t, g) : \E i \in About(u, t, g) : f[i] = k

(* A sequence holds the same as itself. *)
LEMMA SameSelf ==
  ASSUME NEW s, NEW t, NEW g
  PROVE  Same(s, s, t, g)
  <1> DEFINE f == [i \in About(s, t, g) |-> i]
  <1>1. f \in [About(s, t, g) -> About(s, t, g)]
    OBVIOUS
  <1> QED  BY <1>1 DEF Same

(* What is added at the end may be about something else, *)
LEMMA SameAppend ==
  ASSUME NEW S, NEW s \in Seq(S), NEW e \in S, NEW t, NEW g, ~IsFor(e, t, g)
  PROVE  Same(s, Append(s, e), t, g)
  <1> DEFINE u == Append(s, e)
  <1>1. /\ Len(s) \in Nat /\ DOMAIN s = 1 .. Len(s) /\ DOMAIN u = 1 .. Len(s) + 1
        /\ \A i \in 1 .. Len(s) : u[i] = s[i]
        /\ u[Len(s) + 1] = e
    BY AppendProperties, LenProperties
  <1> HIDE DEF u
  <1>2. About(u, t, g) = About(s, t, g)
    BY <1>1 DEF About
  <1> DEFINE f == [i \in About(s, t, g) |-> i]
  <1>3. \A i \in About(u, t, g) : u[i] = s[f[i]]
    BY <1>1, <1>2 DEF About
  <1>4. f \in [About(u, t, g) -> About(s, t, g)]
    BY <1>2
  <1>5. \A i, j \in About(u, t, g) : i < j => f[i] < f[j]
    BY <1>2
  <1>6. \A k \in About(s, t, g) : \E i \in About(u, t, g) : f[i] = k
    BY <1>2
  <1>7. Same(s, u, t, g)
    <2> HIDE DEF f
    <2> QED  BY <1>3, <1>4, <1>5, <1>6 DEF Same
  <1> QED  BY <1>7 DEF u

(* or a row of jobs may, *)
LEMMA SameConcat ==
  ASSUME NEW S, NEW s \in Seq(S), NEW v \in Seq(S), NEW t, NEW g,
         \A i \in 1 .. Len(v) : ~IsFor(v[i], t, g)
  PROVE  Same(s, s \o v, t, g)
  <1> DEFINE u == s \o v
  <1>1. /\ Len(s) \in Nat /\ DOMAIN s = 1 .. Len(s) /\ DOMAIN u = 1 .. Len(s) + Len(v)
        /\ Len(v) \in Nat
        /\ \A i \in 1 .. Len(s) + Len(v) : u[i] = IF i <= Len(s) THEN s[i] ELSE v[i - Len(s)]
    BY ConcatProperties, LenProperties
  <1> HIDE DEF u
  <1>2. ASSUME NEW i \in 1 .. Len(s) + Len(v), IsFor(u[i], t, g)
        PROVE  i \in 1 .. Len(s) /\ u[i] = s[i]
    <2>1. CASE i <= Len(s)
      BY <1>1, <2>1
    <2>2. CASE ~(i <= Len(s))
      <3>1. i - Len(s) \in 1 .. Len(v) /\ u[i] = v[i - Len(s)]
        BY <1>1, <2>2
      <3> QED  BY <1>2, <3>1
    <2> QED  BY <2>1, <2>2
  <1>3. About(u, t, g) = About(s, t, g)
    <2>1. \A i \in About(s, t, g) : i \in 1 .. Len(s) + Len(v) /\ u[i] = s[i]
      BY <1>1 DEF About
    <2> QED  BY <1>1, <1>2, <2>1 DEF About
  <1> DEFINE f == [i \in About(s, t, g) |-> i]
  <1>4. \A i \in About(u, t, g) : u[i] = s[f[i]]
    BY <1>1, <1>2, <1>3 DEF About
  <1>5. f \in [About(u, t, g) -> About(s, t, g)]
    BY <1>3
  <1>6. \A i, j \in About(u, t, g) : i < j => f[i] < f[j]
    BY <1>3
  <1>7. \A k \in About(s, t, g) : \E i \in About(u, t, g) : f[i] = k
    BY <1>3
  <1>8. Same(s, u, t, g)
    <2> HIDE DEF f
    <2> QED  BY <1>4, <1>5, <1>6, <1>7 DEF Same
  <1> QED  BY <1>8 DEF u

(* what is taken out may be, *)
LEMMA SameRemove ==
  ASSUME NEW S, NEW s \in Seq(S), NEW k \in 1 .. Len(s), NEW t, NEW g,
         ~IsFor(s[k], t, g)
  PROVE  Same(s, RemoveAt(s, k), t, g)
  <1> DEFINE u == RemoveAt(s, k)
             at(i) == IF i < k THEN i ELSE i + 1
  <1>1. /\ u \in Seq(S) /\ Len(u) = Len(s) - 1
        /\ \A i \in 1 .. Len(s) - 1 : u[i] = s[at(i)]
    BY Removed
  <1>2. /\ Len(s) \in Nat /\ DOMAIN s = 1 .. Len(s) /\ DOMAIN u = 1 .. Len(s) - 1
    BY <1>1, LenProperties
  <1> HIDE DEF u
  <1> DEFINE f == [i \in About(u, t, g) |-> at(i)]
  <1>3. ASSUME NEW i \in About(u, t, g) PROVE at(i) \in About(s, t, g) /\ u[i] = s[at(i)]
    <2>1. i \in 1 .. Len(s) - 1 /\ IsFor(u[i], t, g)
      BY <1>2 DEF About
    <2>2. at(i) \in 1 .. Len(s) /\ u[i] = s[at(i)]
      BY <1>1, <1>2, <2>1
    <2> QED  BY <1>2, <2>1, <2>2 DEF About
  <1>4. f \in [About(u, t, g) -> About(s, t, g)]
    BY <1>3
  <1>5. \A i \in About(u, t, g) : u[i] = s[f[i]]
    BY <1>3
  <1>6. ASSUME NEW i \in About(u, t, g), NEW j \in About(u, t, g), i < j
        PROVE  f[i] < f[j]
    <2>1. i \in 1 .. Len(s) - 1 /\ j \in 1 .. Len(s) - 1
      BY <1>2 DEF About
    <2>2. at(i) < at(j)
      BY <1>2, <1>6, <2>1
    <2> QED  BY <2>2
  <1>7. ASSUME NEW l \in About(s, t, g) PROVE \E i \in About(u, t, g) : f[i] = l
    <2>1. l \in 1 .. Len(s) /\ l # k /\ IsFor(s[l], t, g)
      BY <1>2 DEF About
    <2> DEFINE i == IF l < k THEN l ELSE l - 1
    <2>2. i \in 1 .. Len(s) - 1 /\ at(i) = l
      BY <1>2, <2>1
    <2>3. u[i] = s[l]
      BY <1>1, <2>2
    <2>4. i \in About(u, t, g)
      <3> HIDE DEF i
      <3> QED  BY <1>2, <2>1, <2>2, <2>3 DEF About
    <2>5. f[i] = l
      <3> HIDE DEF i
      <3> QED  BY <2>2, <2>4
    <2> QED  BY <2>4, <2>5
  <1>8. Same(s, u, t, g)
    <2> HIDE DEF f
    <2> QED  BY <1>4, <1>5, <1>6, <1>7 DEF Same
  <1> QED  BY <1>8 DEF u

(* what is taken from the front may be. *)
LEMMA SameTail ==
  ASSUME NEW S, NEW s \in Seq(S), s # <<>>, NEW t, NEW g, ~IsFor(Head(s), t, g)
  PROVE  Same(s, Tail(s), t, g)
  <1> DEFINE u == Tail(s)
  <1>1. /\ u \in Seq(S) /\ Len(u) = Len(s) - 1
        /\ \A i \in 1 .. Len(u) : u[i] = s[i + 1]
    BY HeadTailProperties
  <1>2. /\ Len(s) \in Nat \ {0} /\ DOMAIN s = 1 .. Len(s) /\ DOMAIN u = 1 .. Len(s) - 1
        /\ Head(s) = s[1]
    BY <1>1, LenProperties, EmptySeq
  <1> HIDE DEF u
  <1> DEFINE f == [i \in About(u, t, g) |-> i + 1]
  <1>3. ASSUME NEW i \in About(u, t, g)
        PROVE  i \in Nat /\ i + 1 \in About(s, t, g) /\ u[i] = s[i + 1]
    <2>1. i \in 1 .. Len(s) - 1 /\ IsFor(u[i], t, g)
      BY <1>2 DEF About
    <2>2. i + 1 \in 1 .. Len(s) /\ u[i] = s[i + 1]
      BY <1>1, <1>2, <2>1
    <2> QED  BY <1>2, <2>1, <2>2 DEF About
  <1>4. f \in [About(u, t, g) -> About(s, t, g)]
    BY <1>3
  <1>5. \A i \in About(u, t, g) : u[i] = s[f[i]]
    BY <1>3
  <1>6. \A i, j \in About(u, t, g) : i < j => f[i] < f[j]
    BY <1>3
  <1>7. ASSUME NEW l \in About(s, t, g) PROVE \E i \in About(u, t, g) : f[i] = l
    <2>1. l \in 1 .. Len(s) /\ l # 1 /\ IsFor(s[l], t, g)
      BY <1>2 DEF About
    <2>2. l - 1 \in 1 .. Len(s) - 1 /\ (l - 1) + 1 = l
      BY <1>2, <2>1
    <2>3. u[l - 1] = s[l]
      BY <1>1, <2>2
    <2>4. l - 1 \in About(u, t, g)
      BY <1>2, <2>1, <2>2, <2>3 DEF About
    <2>5. f[l - 1] = l
      BY <2>2, <2>4
    <2> QED  BY <2>4, <2>5
  <1>8. Same(s, u, t, g)
    <2> HIDE DEF f
    <2> QED  BY <1>4, <1>5, <1>6, <1>7 DEF Same
  <1> QED  BY <1>8 DEF u

(* The same but for one that is about something else before and after. *)
LEMMA SameExcept ==
  ASSUME NEW S, NEW s \in Seq(S), NEW k \in 1 .. Len(s), NEW e \in S, NEW t, NEW g,
         ~IsFor(s[k], t, g), ~IsFor(e, t, g)
  PROVE  Same(s, [s EXCEPT ![k] = e], t, g)
  <1> DEFINE u == [s EXCEPT ![k] = e]
  <1>1. /\ Len(s) \in Nat /\ DOMAIN s = 1 .. Len(s) /\ DOMAIN u = DOMAIN s
        /\ \A i \in 1 .. Len(s) : u[i] = IF i = k THEN e ELSE s[i]
    BY LenProperties
  <1> HIDE DEF u
  <1>2. About(u, t, g) = About(s, t, g)
    BY <1>1 DEF About
  <1> DEFINE f == [i \in About(s, t, g) |-> i]
  <1>3. \A i \in About(u, t, g) : u[i] = s[f[i]]
    BY <1>1, <1>2 DEF About
  <1>4. f \in [About(u, t, g) -> About(s, t, g)]
    BY <1>2
  <1>5. \A i, j \in About(u, t, g) : i < j => f[i] < f[j]
    BY <1>2
  <1>6. \A l \in About(s, t, g) : \E i \in About(u, t, g) : f[i] = l
    BY <1>2
  <1>7. Same(s, u, t, g)
    <2> HIDE DEF f
    <2> QED  BY <1>3, <1>4, <1>5, <1>6 DEF Same
  <1> QED  BY <1>7 DEF u


------------------------------------------------------------------------------
(* What is not about a tab's latest request leaves the tab as it was.       *)

(* The invariant of a tab depends on no more than what is about its request. *)
LEMMA SameFits ==
  ASSUME NEW t, NEW r, NEW js, NEW js2, NEW rs, NEW rs2, NEW dk, NEW td,
         DOMAIN js \subseteq Int, DOMAIN js2 \subseteq Int,
         DOMAIN rs \subseteq Int, DOMAIN rs2 \subseteq Int,
         TabFits(t, r, js, rs, dk, td),
         Same(js, js2, t, r.generation), Same(rs, rs2, t, r.generation)
  PROVE  TabFits(t, r, js2, rs2, dk, td)
  <1> DEFINE g == r.generation
             asks == About(js, t, g)
             answers == About(rs, t, g)
             asks2 == About(js2, t, g)
             answers2 == About(rs2, t, g)
  <1>1. PICK f \in [asks2 -> asks] :
          /\ \A i \in asks2 : js2[i] = js[f[i]]
          /\ \A i, j \in asks2 : i < j => f[i] < f[j]
          /\ \A k \in asks : \E i \in asks2 : f[i] = k
    BY DEF Same
  <1>2. PICK h \in [answers2 -> answers] :
          /\ \A i \in answers2 : rs2[i] = rs[h[i]]
          /\ \A i, j \in answers2 : i < j => h[i] < h[j]
          /\ \A k \in answers : \E i \in answers2 : h[i] = k
    BY DEF Same
  <1>3. asks2 \subseteq Int /\ asks \subseteq Int
    BY DEF About
  <1> HIDE DEF asks, answers, asks2, answers2
  <1>4. asks # {} <=> asks2 # {}
    BY <1>1
  <1>5. answers # {} <=> answers2 # {}
    BY <1>2
  <1>6. OneAnswer(t, r, js2, rs2)
    <2>0. /\ \A j, k \in asks : j = k
          /\ \A j, k \in answers : j < k => ~rs[j].done
          /\ asks # {} => \A k \in answers : ~rs[k].done
          /\ r.loading <=> asks # {} \/ \E k \in answers : rs[k].done
          /\ answers # {} => r.loading
      BY DEF TabFits, OneAnswer, asks, answers
    <2>1. \A j, k \in asks2 : j = k
      <3> SUFFICES ASSUME NEW j \in asks2, NEW k \in asks2, j < k PROVE FALSE
        BY <1>3
      <3>1. f[j] < f[k] /\ f[j] = f[k]
        BY <1>1, <2>0
      <3>2. f[j] \in Int
        BY <1>1, <1>3
      <3> QED  BY <3>1, <3>2
    <2>2. \A j, k \in answers2 : j < k => ~rs2[j].done
      BY <1>2, <2>0
    <2>3. asks2 # {} => \A k \in answers2 : ~rs2[k].done
      BY <1>2, <1>4, <2>0
    <2>4. r.loading <=> asks2 # {} \/ \E k \in answers2 : rs2[k].done
      BY <1>2, <1>4, <2>0
    <2>5. answers2 # {} => r.loading
      BY <1>5, <2>0
    <2> QED  BY <2>1, <2>2, <2>3, <2>4, <2>5 DEF OneAnswer, asks2, answers2
  <1>7. Rising(t, r, js2, rs2)
    <2>0. /\ ListingOf(r.path, r.pending)
          /\ \A k \in answers : ListingOf(r.path, rs[k].names) /\ Below(r.pending, rs[k].names)
          /\ \A j, k \in answers : j < k => Below(rs[j].names, rs[k].names)
          /\ \A j \in asks : /\ js[j].folder = r.path /\ UpTo(r.pending, js[j].last)
                             /\ \A k \in answers : UpTo(rs[k].names, js[j].last)
      BY DEF TabFits, Rising, asks, answers
    <2>1. \A k \in answers2 : ListingOf(r.path, rs2[k].names) /\ Below(r.pending, rs2[k].names)
      BY <1>2, <2>0
    <2>2. \A j, k \in answers2 : j < k => Below(rs2[j].names, rs2[k].names)
      BY <1>2, <2>0
    <2>3. \A j \in asks2 : /\ js2[j].folder = r.path /\ UpTo(r.pending, js2[j].last)
                           /\ \A k \in answers2 : UpTo(rs2[k].names, js2[j].last)
      BY <1>1, <1>2, <2>0
    <2> QED  BY <2>0, <2>1, <2>2, <2>3 DEF Rising, asks2, answers2
  <1>8. Complete(t, r, js2, rs2, dk, td)
    <2>1. \A n : Got(t, r, rs2, n) <=> Got(t, r, rs, n)
      <3>1. \A n : (\E k \in answers2 : Holds(rs2[k].names, n))
                     <=> (\E k \in answers : Holds(rs[k].names, n))
        BY <1>2
      <3> QED  BY <3>1 DEF Got, answers, answers2
    <2> SUFFICES ASSUME NEW n \in Names \ td, InFolder[n] = r.path
                 PROVE  /\ \A j \in asks2 : n <= js2[j].last => (n \in dk <=> Got(t, r, rs, n))
                        /\ \A k \in answers2 : rs2[k].done /\ ~rs2[k].error
                                                 => (n \in dk <=> Got(t, r, rs, n))
      BY <2>1 DEF Complete, asks2, answers2
    <2>2. /\ \A j \in asks : n <= js[j].last => (n \in dk <=> Got(t, r, rs, n))
          /\ \A k \in answers : rs[k].done /\ ~rs[k].error => (n \in dk <=> Got(t, r, rs, n))
      BY DEF TabFits, Complete, asks, answers
    <2>3. \A j \in asks2 : n <= js2[j].last => (n \in dk <=> Got(t, r, rs, n))
      BY <1>1, <2>2
    <2>4. \A k \in answers2 : rs2[k].done /\ ~rs2[k].error => (n \in dk <=> Got(t, r, rs, n))
      BY <1>2, <2>2
    <2> QED  BY <2>3, <2>4
  <1> QED  BY <1>6, <1>7, <1>8 DEF TabFits

(* Nothing of the invariant is about the view, the selection or the filter. *)
LEMMA SameState ==
  ASSUME NEW t, NEW r, NEW r2, NEW js, NEW rs, NEW dk, NEW td,
         r2.path = r.path, r2.generation = r.generation, r2.pending = r.pending,
         r2.loading = r.loading, r2.folder = r.folder, r2.entries = r.entries,
         r2.error = r.error, TabFits(t, r, js, rs, dk, td)
  PROVE  TabFits(t, r2, js, rs, dk, td)
  BY DEF TabFits, OneAnswer, Rising, Complete, Got, Settled

(* A file that comes or goes is touched. *)
LEMMA Touching ==
  ASSUME NEW t, NEW r, NEW js, NEW rs, NEW dk, NEW td, NEW n,
         TabFits(t, r, js, rs, dk, td)
  PROVE  TabFits(t, r, js, rs, SymDiff(dk, {n}), td \cup {n})
  <1> DEFINE dk2 == SymDiff(dk, {n})
             td2 == td \cup {n}
  <1>1. \A x \in Names \ td2 : x \in Names \ td /\ (x \in dk2 <=> x \in dk)
    BY DEF SymDiff
  <1> HIDE DEF dk2, td2
  <1>2. Complete(t, r, js, rs, dk2, td2)
    BY <1>1 DEF TabFits, Complete
  <1>3. Settled(r, dk2, td2)
    BY <1>1 DEF TabFits, Settled
  <1>4. TabFits(t, r, js, rs, dk2, td2)
    BY <1>2, <1>3 DEF TabFits
  <1> QED  BY <1>4 DEF dk2, td2


------------------------------------------------------------------------------
(* What the steps of the latest request do.                                 *)

(* A batch is added behind the others of its request. *)
LEMMA AboutAppend ==
  ASSUME NEW s \in Seq(Messages), NEW e \in Messages, NEW t, NEW g, IsFor(e, t, g)
  PROVE  /\ Len(s) + 1 \in Nat
         /\ About(Append(s, e), t, g) = About(s, t, g) \cup {Len(s) + 1}
         /\ \A i \in About(s, t, g) : i \in Nat /\ i < Len(s) + 1 /\ Append(s, e)[i] = s[i]
         /\ Append(s, e)[Len(s) + 1] = e
  <1> DEFINE u == Append(s, e)
  <1>1. /\ Len(s) \in Nat /\ DOMAIN s = 1 .. Len(s) /\ DOMAIN u = 1 .. Len(s) + 1
        /\ \A i \in 1 .. Len(s) : u[i] = s[i]
        /\ u[Len(s) + 1] = e
    BY AppendProperties, LenProperties
  <1> HIDE DEF u
  <1>2. \A i \in About(s, t, g) : i \in 1 .. Len(s) /\ i \in Nat /\ i < Len(s) + 1 /\ u[i] = s[i]
    BY <1>1 DEF About
  <1>3. ASSUME NEW i \in About(u, t, g) PROVE i \in About(s, t, g) \cup {Len(s) + 1}
    <2>1. i \in 1 .. Len(s) + 1 /\ IsFor(u[i], t, g)
      BY <1>1 DEF About
    <2>2. CASE i \in 1 .. Len(s)
      BY <1>1, <2>1, <2>2 DEF About
    <2>3. CASE i = Len(s) + 1
      BY <2>3
    <2>4. i \in 1 .. Len(s) \/ i = Len(s) + 1
      BY <1>1, <2>1
    <2> QED  BY <2>2, <2>3, <2>4
  <1>4. ASSUME NEW i \in About(s, t, g) \cup {Len(s) + 1} PROVE i \in About(u, t, g)
    <2>1. CASE i \in About(s, t, g)
      <3>1. i \in 1 .. Len(s) + 1 /\ u[i] = s[i] /\ IsFor(s[i], t, g)
        BY <1>1, <1>2, <2>1 DEF About
      <3> QED  BY <1>1, <3>1 DEF About
    <2>2. CASE i = Len(s) + 1
      <3>1. i \in 1 .. Len(s) + 1 /\ u[i] = e
        BY <1>1, <2>2
      <3> QED  BY <1>1, <3>1 DEF About
    <2> QED  BY <2>1, <2>2
  <1>5. About(u, t, g) = About(s, t, g) \cup {Len(s) + 1}
    BY <1>3, <1>4
  <1> QED  BY <1>1, <1>2, <1>5 DEF u

(* Of a shorter channel everything is found one place on in the longer. *)
LEMMA AboutTail ==
  ASSUME NEW s \in Seq(Messages), NEW u \in Seq(Messages), NEW t, NEW g,
         Len(u) = Len(s) - 1, \A i \in 1 .. Len(u) : u[i] = s[i + 1]
  PROVE  /\ \A i \in About(u, t, g) :
              i \in Nat /\ i # 0 /\ i + 1 \in About(s, t, g) /\ u[i] = s[i + 1]
         /\ \A l \in About(s, t, g) :
              l \in Nat /\ (l # 1 => l > 1 /\ l - 1 \in About(u, t, g) /\ u[l - 1] = s[l])
         /\ IsFor(s[1], t, g) => 1 \in About(s, t, g)
  <1>1. Len(u) \in Nat /\ Len(s) \in Nat
    BY LenProperties
  <1>2. Len(s) \in Nat \ {0} /\ DOMAIN s = 1 .. Len(s) /\ DOMAIN u = 1 .. Len(s) - 1
    BY <1>1, LenProperties
  <1>3. ASSUME NEW i \in About(u, t, g)
        PROVE  i \in Nat /\ i # 0 /\ i + 1 \in About(s, t, g) /\ u[i] = s[i + 1]
    <2>1. i \in 1 .. Len(s) - 1 /\ IsFor(u[i], t, g)
      BY <1>2 DEF About
    <2>2. i + 1 \in 1 .. Len(s) /\ u[i] = s[i + 1]
      BY <1>1, <1>2, <2>1
    <2> QED  BY <1>2, <2>1, <2>2 DEF About
  <1>4. ASSUME NEW l \in About(s, t, g)
        PROVE  l \in Nat /\ (l # 1 => l > 1 /\ l - 1 \in About(u, t, g) /\ u[l - 1] = s[l])
    <2>1. l \in 1 .. Len(s) /\ IsFor(s[l], t, g)
      BY <1>2 DEF About
    <2>2. CASE l = 1
      BY <2>2
    <2>3. CASE l # 1
      <3>1. l - 1 \in 1 .. Len(s) - 1 /\ (l - 1) + 1 = l /\ l > 1
        BY <1>2, <2>1, <2>3
      <3>2. u[l - 1] = s[l]
        BY <1>1, <3>1
      <3> QED  BY <1>2, <2>1, <3>1, <3>2 DEF About
    <2> QED  BY <2>2, <2>3
  <1>5. IsFor(s[1], t, g) => 1 \in About(s, t, g)
    BY <1>2 DEF About
  <1> QED  BY <1>2, <1>3, <1>4, <1>5

(* The rows of one folder in its order, and those that follow them. *)
LEMMA Gathering ==
  ASSUME NEW p, NEW s \in Seq(Names), NEW u \in Seq(Names)
  PROVE  /\ s \o u \in Seq(Names)
         /\ ListingOf(p, s) /\ ListingOf(p, u) /\ Below(s, u) => ListingOf(p, s \o u)
         /\ \A n : Holds(s \o u, n) <=> Holds(s, n) \/ Holds(u, n)
         /\ \A v : Below(s, v) /\ Below(u, v) => Below(s \o u, v)
         /\ \A n : UpTo(s, n) /\ UpTo(u, n) => UpTo(s \o u, n)
  <1> DEFINE w == s \o u
  <1>1. /\ w \in Seq(Names)
        /\ DOMAIN s = 1 .. Len(s) /\ DOMAIN u = 1 .. Len(u) /\ DOMAIN w = 1 .. Len(s) + Len(u)
        /\ Len(s) \in Nat /\ Len(u) \in Nat
        /\ \A i \in 1 .. Len(s) + Len(u) : w[i] = IF i <= Len(s) THEN s[i] ELSE u[i - Len(s)]
    BY ConcatProperties, LenProperties
  <1> HIDE DEF w
  <1>2. ASSUME NEW i \in DOMAIN w
        PROVE  \/ i <= Len(s) /\ i \in DOMAIN s /\ w[i] = s[i]
               \/ i > Len(s) /\ i - Len(s) \in DOMAIN u /\ w[i] = u[i - Len(s)]
    BY <1>1
  <1>3. \A i \in DOMAIN s : i \in DOMAIN w /\ w[i] = s[i]
    BY <1>1
  <1>4. ASSUME NEW i \in DOMAIN u PROVE i + Len(s) \in DOMAIN w /\ w[i + Len(s)] = u[i]
    <2>1. i + Len(s) \in 1 .. Len(s) + Len(u) /\ ~(i + Len(s) <= Len(s)) /\ (i + Len(s)) - Len(s) = i
      BY <1>1
    <2> QED  BY <1>1, <2>1
  <1>5. ASSUME ListingOf(p, s), ListingOf(p, u), Below(s, u) PROVE ListingOf(p, w)
    <2>1. \A k \in DOMAIN w : InFolder[w[k]] = p
      BY <1>2, <1>5 DEF ListingOf
    <2>2. ASSUME NEW j \in DOMAIN w, NEW k \in DOMAIN w, j < k PROVE w[j] < w[k]
      <3>1. CASE j <= Len(s) /\ k <= Len(s)
        <4>1. j \in DOMAIN s /\ k \in DOMAIN s /\ w[j] = s[j] /\ w[k] = s[k]
          BY <1>1, <3>1
        <4> QED  BY <1>5, <2>2, <4>1 DEF ListingOf
      <3>2. CASE j <= Len(s) /\ k > Len(s)
        <4>1. j \in DOMAIN s /\ k - Len(s) \in DOMAIN u /\ w[j] = s[j] /\ w[k] = u[k - Len(s)]
          BY <1>1, <3>2
        <4> QED  BY <1>5, <4>1 DEF Below
      <3>3. CASE j > Len(s)
        <4>1. /\ j - Len(s) \in DOMAIN u /\ k - Len(s) \in DOMAIN u
              /\ w[j] = u[j - Len(s)] /\ w[k] = u[k - Len(s)] /\ j - Len(s) < k - Len(s)
          BY <1>1, <2>2, <3>3
        <4> QED  BY <1>5, <4>1 DEF ListingOf
      <3>4. j \in Int /\ k \in Int
        BY <1>1
      <3> QED  BY <1>1, <2>2, <3>1, <3>2, <3>3, <3>4
    <2> QED  BY <2>1, <2>2 DEF ListingOf
  <1>6. \A n : Holds(w, n) <=> Holds(s, n) \/ Holds(u, n)
    BY <1>2, <1>3, <1>4 DEF Holds
  <1>7. \A v : Below(s, v) /\ Below(u, v) => Below(w, v)
    BY <1>2 DEF Below
  <1>8. \A n : UpTo(s, n) /\ UpTo(u, n) => UpTo(w, n)
    BY <1>2 DEF UpTo
  <1> QED  BY <1>1, <1>5, <1>6, <1>7, <1>8 DEF w

(* A request begins: nothing read, one job, no answer yet. *)
LEMMA Beginning ==
  ASSUME NEW t, NEW r, NEW js, NEW rs, NEW dk, NEW td, NEW k,
         r.pending = <<>>, r.loading = TRUE, ListingOf(r.folder, r.entries),
         About(js, t, r.generation) = {k}, js[k] = ReadJob(t, r),
         About(rs, t, r.generation) = {}
  PROVE  TabFits(t, r, js, rs, dk, td)
  <1>1. OneAnswer(t, r, js, rs)
    BY DEF OneAnswer
  <1>2. DOMAIN <<>> = {}
    OBVIOUS
  <1>3. Rising(t, r, js, rs)
    BY <1>2 DEF Rising, ListingOf, UpTo, ReadJob
  <1>4. Complete(t, r, js, rs, dk, td)
    <2>1. js[k].last = -1
      BY DEF ReadJob
    <2>3. Names \subseteq Nat
      BY ListingAssumption
    <2>4. \A n \in Nat : ~(n <= -1)
      OBVIOUS
    <2>2. \A n \in Names : ~(n <= js[k].last)
      BY <2>1, <2>3, <2>4
    <2> QED  BY <2>2 DEF Complete
  <1>5. Settled(r, dk, td)
    BY DEF Settled
  <1> QED  BY <1>1, <1>3, <1>4, <1>5 DEF TabFits


(* A worker sends some of what comes next, as the code's read of a batch does. *)
LEMMA BatchSent ==
  ASSUME NEW t, NEW r \in TabState, NEW js \in Seq(Jobs), NEW rs \in Seq(Messages),
         NEW dk, NEW td, NEW k \in 1 .. Len(js), NEW batch \in Seq(Names),
         NEW j2 \in Jobs, NEW m \in Messages,
         TabFits(t, r, js, rs, dk, td), IsFor(js[k], t, r.generation),
         IsFor(m, t, r.generation), m.names = batch, m.done = FALSE,
         IsFor(j2, t, r.generation), j2.folder = js[k].folder,
         Holds(batch, j2.last), UpTo(batch, j2.last),
         ListingOf(js[k].folder, batch),
         \A n : Holds(batch, n) => n \in dk /\ js[k].last < n,
         \A n \in dk : InFolder[n] = js[k].folder /\ js[k].last < n /\ n <= j2.last
                         => Holds(batch, n)
  PROVE  TabFits(t, r, [js EXCEPT ![k] = j2], Append(rs, m), dk, td)
  <1>0. /\ Len(rs) + 1 \in Nat
        /\ About(Append(rs, m), t, r.generation) = About(rs, t, r.generation) \cup {Len(rs) + 1}
        /\ \A i \in About(rs, t, r.generation) :
             i \in Nat /\ i < Len(rs) + 1 /\ Append(rs, m)[i] = rs[i]
        /\ Append(rs, m)[Len(rs) + 1] = m
    BY AboutAppend
  <1> DEFINE g == r.generation
             asks == About(js, t, g)
             answers == About(rs, t, g)
             js2 == [js EXCEPT ![k] = j2]
             rs2 == Append(rs, m)
             e == Len(rs) + 1
  <1>1. /\ Len(js) \in Nat /\ DOMAIN js = 1 .. Len(js) /\ DOMAIN js2 = 1 .. Len(js)
        /\ js2[k] = j2 /\ \A i \in 1 .. Len(js) : i # k => js2[i] = js[i]
    BY LenProperties
  <1>2. /\ e \in Nat /\ About(rs2, t, g) = answers \cup {e}
        /\ \A i \in answers : i \in Nat /\ i < e /\ rs2[i] = rs[i]
        /\ rs2[e] = m
    BY <1>0
  <1>3. asks = {k}
    BY <1>1 DEF TabFits, OneAnswer, About
  <1>4. About(js2, t, g) = {k}
    <2> HIDE DEF js2
    <2>1. \A i \in 1 .. Len(js) : i # k => ~IsFor(js2[i], t, g)
      BY <1>1, <1>3 DEF About
    <2> QED  BY <1>1, <2>1 DEF About
  <1>5. js[k].last \in Int /\ j2.last \in Int
    <2>1. js[k] \in Jobs
      BY ElementOfSeq
    <2> QED  BY <2>1, JobFor
  <1>6. js[k].last < j2.last
    OBVIOUS
  <1> HIDE DEF asks, answers, js2, rs2, e
  <1>7. OneAnswer(t, r, js2, rs2)
    <2>1. /\ \A i, l \in answers : i < l => ~rs[i].done
          /\ \A i \in answers : ~rs[i].done
          /\ r.loading
      BY <1>3 DEF TabFits, OneAnswer, asks, answers, g
    <2>2. \A i \in answers \cup {e} : ~rs2[i].done
      BY <1>2, <2>1
    <2> QED  BY <1>2, <1>4, <2>1, <2>2 DEF OneAnswer, g
  <1>8. /\ ListingOf(r.path, r.pending)
        /\ \A i \in answers : ListingOf(r.path, rs[i].names) /\ Below(r.pending, rs[i].names)
        /\ \A i, l \in answers : i < l => Below(rs[i].names, rs[l].names)
        /\ js[k].folder = r.path /\ UpTo(r.pending, js[k].last)
        /\ \A i \in answers : UpTo(rs[i].names, js[k].last)
    BY <1>3 DEF TabFits, Rising, asks, answers, g
  <1>9. \A s \in Seq(Names) : UpTo(s, js[k].last) => UpTo(s, j2.last) /\ Below(s, batch)
    <2> SUFFICES ASSUME NEW s \in Seq(Names), UpTo(s, js[k].last), NEW a \in DOMAIN s
                 PROVE  s[a] <= j2.last /\ \A b \in DOMAIN batch : s[a] < batch[b]
      BY DEF UpTo, Below
    <2>1. s[a] \in Int /\ s[a] <= js[k].last
      <3>1. a \in 1 .. Len(s)
        BY LenProperties
      <3>2. s[a] \in Names
        BY <3>1, ElementOfSeq
      <3>3. Names \subseteq Int
        BY ListingAssumption
      <3> QED  BY <3>2, <3>3 DEF UpTo
    <2>2. ASSUME NEW b \in DOMAIN batch PROVE s[a] < batch[b]
      <3>1. js[k].last < batch[b]
        BY DEF Holds
      <3>2. batch[b] \in Int
        <4>1. b \in 1 .. Len(batch)
          BY LenProperties
        <4>2. batch[b] \in Names
          BY <4>1, ElementOfSeq
        <4>3. Names \subseteq Int
          BY ListingAssumption
        <4> QED  BY <4>2, <4>3
      <3> QED  BY <1>5, <2>1, <3>1, <3>2
    <2> QED  BY <1>5, <1>6, <2>1, <2>2
  <1>10. \A i \in answers : rs[i].names \in Seq(Names)
    <2>1. \A i \in answers : i \in 1 .. Len(rs) /\ IsFor(rs[i], t, g)
      BY LenProperties DEF answers, About
    <2>2. \A i \in answers : rs[i] \in Messages
      BY <2>1, ElementOfSeq
    <2> QED  BY <2>1, <2>2, BatchFor
  <1>11. r.pending \in Seq(Names)
    BY DEF TabState
  <1>12. Rising(t, r, js2, rs2)
    <2>1. \A i \in answers \cup {e} : ListingOf(r.path, rs2[i].names) /\ Below(r.pending, rs2[i].names)
      BY <1>2, <1>8, <1>9, <1>11
    <2>2. \A i, l \in answers \cup {e} : i < l => Below(rs2[i].names, rs2[l].names)
      <3> SUFFICES ASSUME NEW i \in answers \cup {e}, NEW l \in answers \cup {e}, i < l
                   PROVE  Below(rs2[i].names, rs2[l].names)
        OBVIOUS
      <3>1. i \in answers
        BY <1>2
      <3>2. CASE l \in answers
        BY <1>2, <1>8, <3>1, <3>2
      <3>3. CASE l = e
        BY <1>2, <1>8, <1>9, <1>10, <3>1, <3>3
      <3> QED  BY <3>2, <3>3
    <2>3. js2[k].folder = r.path /\ UpTo(r.pending, js2[k].last)
      BY <1>1, <1>8, <1>9, <1>11 DEF js2
    <2>4. \A i \in answers \cup {e} : UpTo(rs2[i].names, js2[k].last)
      BY <1>1, <1>2, <1>8, <1>9, <1>10 DEF js2
    <2> QED  BY <1>2, <1>4, <1>8, <2>1, <2>2, <2>3, <2>4 DEF Rising, g
  <1>13. Complete(t, r, js2, rs2, dk, td)
    <2>1. \A n : Got(t, r, rs2, n) <=> Got(t, r, rs, n) \/ Holds(batch, n)
      BY <1>2 DEF Got, answers, g
    <2>2. \A i \in answers \cup {e} : ~rs2[i].done
      BY <1>2, <1>3 DEF TabFits, OneAnswer, asks, answers, g
    <2>3. ASSUME NEW n \in Names \ td, InFolder[n] = r.path, n <= j2.last
          PROVE  n \in dk <=> Got(t, r, rs2, n)
      <3>1. n \in Int
        BY ListingAssumption
      <3>2. CASE n <= js[k].last
        <4>1. n \in dk <=> Got(t, r, rs, n)
          BY <1>3, <2>3, <3>2 DEF TabFits, Complete, asks, g
        <4>2. ~Holds(batch, n)
          BY <1>5, <3>1, <3>2
        <4> QED  BY <2>1, <4>1, <4>2
      <3>3. CASE js[k].last < n
        <4>1. n \in dk => Holds(batch, n)
          BY <1>8, <2>3, <3>3
        <4>2. ~Got(t, r, rs, n)
          <5>1. \A s : UpTo(s, js[k].last) => ~Holds(s, n)
            BY <1>5, <3>1, <3>3 DEF UpTo, Holds
          <5> QED  BY <1>8, <5>1 DEF Got, answers, g
        <4> QED  BY <2>1, <4>1, <4>2
      <3> QED  BY <1>5, <3>1, <3>2, <3>3
    <2>4. js2[k].last = j2.last
      BY <1>1 DEF js2
    <2> QED  BY <1>2, <1>4, <2>2, <2>3, <2>4 DEF Complete, g
  <1>14. TabFits(t, r, js2, rs2, dk, td)
    BY <1>7, <1>12, <1>13 DEF TabFits
  <1> QED  BY <1>14 DEF js2, rs2

(* A worker has come to the end of the folder, or cannot go on. *)
LEMMA LastSent ==
  ASSUME NEW t, NEW r \in TabState, NEW js \in Seq(Jobs), NEW rs \in Seq(Messages),
         NEW dk, NEW td, NEW k \in 1 .. Len(js), NEW m \in Messages,
         TabFits(t, r, js, rs, dk, td), IsFor(js[k], t, r.generation),
         IsFor(m, t, r.generation), m.names = <<>>, m.done = TRUE,
         ~m.error => \A n \in dk : InFolder[n] = js[k].folder => n <= js[k].last
  PROVE  TabFits(t, r, RemoveAt(js, k), Append(rs, m), dk, td)
  <1>0. /\ Len(rs) + 1 \in Nat
        /\ About(Append(rs, m), t, r.generation) = About(rs, t, r.generation) \cup {Len(rs) + 1}
        /\ \A i \in About(rs, t, r.generation) :
             i \in Nat /\ i < Len(rs) + 1 /\ Append(rs, m)[i] = rs[i]
        /\ Append(rs, m)[Len(rs) + 1] = m
    BY AboutAppend
  <1> DEFINE g == r.generation
             asks == About(js, t, g)
             answers == About(rs, t, g)
             js2 == RemoveAt(js, k)
             rs2 == Append(rs, m)
             e == Len(rs) + 1
  <1>2. /\ e \in Nat /\ About(rs2, t, g) = answers \cup {e}
        /\ \A i \in answers : i \in Nat /\ i < e /\ rs2[i] = rs[i]
        /\ rs2[e] = m
    BY <1>0
  <1>1. Len(js) \in Nat /\ DOMAIN js = 1 .. Len(js)
    BY LenProperties
  <1>3. asks = {k}
    BY <1>1 DEF TabFits, OneAnswer, About
  <1>4. About(js2, t, g) = {}
    <2>1. /\ js2 \in Seq(Jobs) /\ Len(js2) = Len(js) - 1
          /\ \A i \in 1 .. Len(js) - 1 : js2[i] = js[IF i < k THEN i ELSE i + 1]
      BY Removed
    <2>2. DOMAIN js2 = 1 .. Len(js) - 1
      BY <2>1, LenProperties
    <2> HIDE DEF js2
    <2> SUFFICES ASSUME NEW i \in 1 .. Len(js) - 1, IsFor(js2[i], t, g) PROVE FALSE
      BY <2>2 DEF About
    <2> DEFINE l == IF i < k THEN i ELSE i + 1
    <2>3. l \in 1 .. Len(js) /\ l # k
      BY <1>1
    <2>4. IsFor(js[l], t, g)
      BY <2>1
    <2> HIDE DEF l
    <2> QED  BY <1>1, <1>3, <2>3, <2>4 DEF About
  <1> HIDE DEF asks, answers, js2, rs2, e
  <1>7. OneAnswer(t, r, js2, rs2)
    <2>1. /\ \A i \in answers : ~rs[i].done
          /\ r.loading
      BY <1>3 DEF TabFits, OneAnswer, asks, answers, g
    <2>2. \A i, l \in answers \cup {e} : i < l => ~rs2[i].done
      BY <1>2, <2>1
    <2>3. \E i \in answers \cup {e} : rs2[i].done
      BY <1>2
    <2> QED  BY <1>2, <1>4, <2>1, <2>2, <2>3 DEF OneAnswer, g
  <1>8. /\ ListingOf(r.path, r.pending)
        /\ \A i \in answers : ListingOf(r.path, rs[i].names) /\ Below(r.pending, rs[i].names)
        /\ \A i, l \in answers : i < l => Below(rs[i].names, rs[l].names)
        /\ js[k].folder = r.path /\ UpTo(r.pending, js[k].last)
        /\ \A i \in answers : UpTo(rs[i].names, js[k].last)
    BY <1>3 DEF TabFits, Rising, asks, answers, g
  <1>9. DOMAIN m.names = {}
    OBVIOUS
  <1>12. Rising(t, r, js2, rs2)
    <2>0. ListingOf(r.path, m.names) /\ \A s : Below(s, m.names)
      BY <1>9 DEF ListingOf, Below
    <2>1. \A i \in answers \cup {e} : ListingOf(r.path, rs2[i].names) /\ Below(r.pending, rs2[i].names)
      BY <1>2, <1>8, <2>0
    <2>2. \A i, l \in answers \cup {e} : i < l => Below(rs2[i].names, rs2[l].names)
      <3> SUFFICES ASSUME NEW i \in answers \cup {e}, NEW l \in answers \cup {e}, i < l
                   PROVE  Below(rs2[i].names, rs2[l].names)
        OBVIOUS
      <3>1. i \in answers
        BY <1>2
      <3>2. CASE l \in answers
        BY <1>2, <1>8, <3>1, <3>2
      <3>3. CASE l = e
        BY <1>2, <2>0, <3>3
      <3> QED  BY <3>2, <3>3
    <2> QED  BY <1>2, <1>4, <1>8, <2>1, <2>2 DEF Rising, g
  <1>13. Complete(t, r, js2, rs2, dk, td)
    <2>1. \A n : Got(t, r, rs2, n) <=> Got(t, r, rs, n)
      <3>1. \A n : ~Holds(m.names, n)
        BY <1>9 DEF Holds
      <3> QED  BY <1>2, <3>1 DEF Got, answers, g
    <2>2. \A i \in answers : ~rs2[i].done
      BY <1>2, <1>3 DEF TabFits, OneAnswer, asks, answers, g
    <2>3. ASSUME NEW n \in Names \ td, InFolder[n] = r.path, ~m.error
          PROVE  n \in dk <=> Got(t, r, rs, n)
      <3>0. js[k] \in Jobs
        BY ElementOfSeq
      <3>1. n \in Int /\ js[k].last \in Int
        BY <3>0, JobFor, ListingAssumption
      <3>2. CASE n <= js[k].last
        BY <1>3, <2>3, <3>2 DEF TabFits, Complete, asks, g
      <3>3. CASE js[k].last < n
        <4>1. n \notin dk
          BY <1>8, <2>3, <3>1, <3>3
        <4>2. ~Got(t, r, rs, n)
          <5>1. \A s : UpTo(s, js[k].last) => ~Holds(s, n)
            BY <3>1, <3>3 DEF UpTo, Holds
          <5> QED  BY <1>8, <5>1 DEF Got, answers, g
        <4> QED  BY <4>1, <4>2
      <3> QED  BY <3>1, <3>2, <3>3
    <2> QED  BY <1>2, <1>4, <2>1, <2>2, <2>3 DEF Complete, g
  <1>14. TabFits(t, r, js2, rs2, dk, td)
    BY <1>7, <1>12, <1>13 DEF TabFits
  <1> QED  BY <1>14 DEF js2, rs2


(* A batch that is not the last is added to what is gathered, and shown or  *)
(* not.                                                                     *)
LEMMA Gathered ==
  ASSUME NEW t, NEW r \in TabState, NEW r2 \in TabState, NEW js \in Seq(Jobs),
         NEW rs \in Seq(Messages), rs # <<>>, NEW dk, NEW td,
         TabFits(t, r, js, rs, dk, td), IsFor(Head(rs), t, r.generation), ~Head(rs).done,
         r2.path = r.path, r2.generation = r.generation, r2.loading = r.loading,
         r2.pending = r.pending \o Head(rs).names,
         \/ r2.folder = r.folder /\ r2.entries = r.entries
         \/ r2.folder = r.path /\ r2.entries = r2.pending
  PROVE  TabFits(t, r2, js, Tail(rs), dk, td)
  <1> DEFINE g == r.generation
             asks == About(js, t, g)
             answers == About(rs, t, g)
             u == Tail(rs)
             answers2 == About(u, t, g)
             m == Head(rs)
  <1>1. /\ u \in Seq(Messages) /\ Len(u) = Len(rs) - 1
        /\ \A i \in 1 .. Len(u) : u[i] = rs[i + 1]
        /\ m \in Messages
    BY HeadTailProperties
  <1>2. m = rs[1]
    OBVIOUS
  <1> HIDE DEF u, m
  <1>3. /\ \A i \in answers2 : i \in Nat /\ i # 0 /\ i + 1 \in answers /\ u[i] = rs[i + 1]
        /\ \A l \in answers : l \in Nat /\ (l # 1 => l - 1 \in answers2 /\ u[l - 1] = rs[l])
        /\ 1 \in answers /\ m = rs[1]
    <2>1. IsFor(rs[1], t, g) /\ rs \in Seq(Messages)
      BY <1>2 DEF m
    <2> HIDE DEF g, asks, answers, answers2
    <2>2. /\ \A i \in About(u, t, g) :
                i \in Nat /\ i # 0 /\ i + 1 \in About(rs, t, g) /\ u[i] = rs[i + 1]
          /\ \A l \in About(rs, t, g) :
                l \in Nat /\ (l # 1 => l > 1 /\ l - 1 \in About(u, t, g) /\ u[l - 1] = rs[l])
          /\ IsFor(rs[1], t, g) => 1 \in About(rs, t, g)
      BY ONLY <1>1, <2>1, AboutTail
    <2> QED  BY <1>2, <2>1, <2>2 DEF answers, answers2
  <1>4. m.names \in Seq(Names) /\ r.pending \in Seq(Names)
    BY <1>1, BatchFor DEF TabState, m
  <1> HIDE DEF asks, answers, answers2
  <1>5. /\ \A j, k \in asks : j = k
        /\ \A j, k \in answers : j < k => ~rs[j].done
        /\ asks # {} => \A k \in answers : ~rs[k].done
        /\ r.loading /\ (asks # {} \/ \E k \in answers : rs[k].done)
    BY <1>3 DEF TabFits, OneAnswer, asks, answers, g
  <1>6. OneAnswer(t, r2, js, u)
    <2>1. \A j, k \in answers2 : j < k => ~u[j].done
      BY <1>3, <1>5
    <2>2. asks # {} => \A k \in answers2 : ~u[k].done
      BY <1>3, <1>5
    <2>3. asks # {} \/ \E k \in answers2 : u[k].done
      <3> SUFFICES ASSUME asks = {} PROVE \E k \in answers2 : u[k].done
        OBVIOUS
      <3>1. PICK k \in answers : rs[k].done
        BY <1>5
      <3>2. k # 1
        BY <1>3, <3>1 DEF m
      <3> QED  BY <1>3, <3>1, <3>2
    <2> QED  BY <1>5, <2>1, <2>2, <2>3 DEF OneAnswer, asks, answers2, g
  <1>7. /\ ListingOf(r.path, r.pending)
        /\ \A k \in answers : ListingOf(r.path, rs[k].names) /\ Below(r.pending, rs[k].names)
        /\ \A j, k \in answers : j < k => Below(rs[j].names, rs[k].names)
        /\ \A j \in asks : /\ js[j].folder = r.path /\ UpTo(r.pending, js[j].last)
                           /\ \A k \in answers : UpTo(rs[k].names, js[j].last)
    BY DEF TabFits, Rising, asks, answers, g
  <1>8. /\ ListingOf(r.path, r2.pending)
        /\ \A n : Holds(r2.pending, n) <=> Holds(r.pending, n) \/ Holds(m.names, n)
        /\ \A v : Below(r.pending, v) /\ Below(m.names, v) => Below(r2.pending, v)
        /\ \A n : UpTo(r.pending, n) /\ UpTo(m.names, n) => UpTo(r2.pending, n)
    <2>1. r2.pending = r.pending \o m.names
      BY DEF m
    <2>2. /\ ListingOf(r.path, r.pending) /\ ListingOf(r.path, m.names)
          /\ Below(r.pending, m.names)
      BY <1>3, <1>7
    <2>3. LET w == r.pending \o m.names IN
            /\ ListingOf(r.path, r.pending) /\ ListingOf(r.path, m.names)
                 /\ Below(r.pending, m.names) => ListingOf(r.path, w)
            /\ \A n : Holds(w, n) <=> Holds(r.pending, n) \/ Holds(m.names, n)
            /\ \A v : Below(r.pending, v) /\ Below(m.names, v) => Below(w, v)
            /\ \A n : UpTo(r.pending, n) /\ UpTo(m.names, n) => UpTo(w, n)
      BY <1>4, Gathering
    <2> QED  BY <2>1, <2>2, <2>3
  <1>9. Rising(t, r2, js, u)
    <2>1. \A k \in answers2 : ListingOf(r.path, u[k].names) /\ Below(r2.pending, u[k].names)
      <3> SUFFICES ASSUME NEW k \in answers2
                   PROVE  ListingOf(r.path, u[k].names) /\ Below(r2.pending, u[k].names)
        OBVIOUS
      <3>1. k + 1 \in answers /\ u[k] = rs[k + 1] /\ 1 < k + 1
        BY <1>3
      <3>2. Below(r.pending, u[k].names) /\ Below(m.names, u[k].names)
        BY <1>3, <1>7, <3>1
      <3> QED  BY <1>7, <1>8, <3>1, <3>2
    <2>2. \A j, k \in answers2 : j < k => Below(u[j].names, u[k].names)
      <3> SUFFICES ASSUME NEW j \in answers2, NEW k \in answers2, j < k
                   PROVE  Below(u[j].names, u[k].names)
        OBVIOUS
      <3>1. /\ j + 1 \in answers /\ u[j] = rs[j + 1]
            /\ k + 1 \in answers /\ u[k] = rs[k + 1] /\ j + 1 < k + 1
        BY <1>3
      <3> QED  BY <1>7, <3>1
    <2>3. \A j \in asks : /\ js[j].folder = r.path /\ UpTo(r2.pending, js[j].last)
                          /\ \A k \in answers2 : UpTo(u[k].names, js[j].last)
      BY <1>3, <1>7, <1>8
    <2> QED  BY <1>8, <2>1, <2>2, <2>3 DEF Rising, asks, answers2, g
  <1>10. \A n : Got(t, r2, u, n) <=> Got(t, r, rs, n)
    <2> SUFFICES ASSUME NEW n
                 PROVE  (Holds(r2.pending, n) \/ \E k \in answers2 : Holds(u[k].names, n))
                          <=> (Holds(r.pending, n) \/ \E k \in answers : Holds(rs[k].names, n))
      BY DEF Got, answers, answers2, g
    <2>1. ASSUME NEW k \in answers, Holds(rs[k].names, n)
          PROVE  Holds(r2.pending, n) \/ \E i \in answers2 : Holds(u[i].names, n)
      <3>1. CASE k = 1
        BY <1>3, <1>8, <2>1, <3>1
      <3>2. CASE k # 1
        BY <1>3, <2>1, <3>2
      <3> QED  BY <3>1, <3>2
    <2>2. ASSUME NEW k \in answers2, Holds(u[k].names, n)
          PROVE  \E i \in answers : Holds(rs[i].names, n)
      BY <1>3, <2>2
    <2> QED  BY <1>3, <1>8, <2>1, <2>2
  <1>11. Complete(t, r2, js, u, dk, td)
    <2> SUFFICES ASSUME NEW n \in Names \ td, InFolder[n] = r.path
                 PROVE  /\ \A j \in asks : n <= js[j].last => (n \in dk <=> Got(t, r, rs, n))
                        /\ \A k \in answers2 : u[k].done /\ ~u[k].error
                                                 => (n \in dk <=> Got(t, r, rs, n))
      BY <1>10 DEF Complete, asks, answers2, g
    <2>1. /\ \A j \in asks : n <= js[j].last => (n \in dk <=> Got(t, r, rs, n))
          /\ \A k \in answers : rs[k].done /\ ~rs[k].error => (n \in dk <=> Got(t, r, rs, n))
      BY DEF TabFits, Complete, asks, answers, g
    <2> QED  BY <1>3, <2>1
  <1>12. Settled(r2, dk, td)
    <2>1. ListingOf(r2.folder, r2.entries)
      BY <1>8 DEF TabFits, Settled
    <2> QED  BY <1>5, <2>1 DEF Settled
  <1>13. TabFits(t, r2, js, u, dk, td)
    BY <1>6, <1>9, <1>11, <1>12 DEF TabFits
  <1> QED  BY <1>13 DEF u

(* The last batch ends the loading: what was gathered is shown. *)
LEMMA Ended ==
  ASSUME NEW t, NEW r \in TabState, NEW r2 \in TabState, NEW js \in Seq(Jobs),
         NEW rs \in Seq(Messages), rs # <<>>, NEW dk, NEW td,
         TabFits(t, r, js, rs, dk, td), IsFor(Head(rs), t, r.generation), Head(rs).done,
         r2.path = r.path, r2.generation = r.generation, r2.loading = FALSE,
         r2.pending = <<>>, r2.folder = r.path, r2.error = Head(rs).error,
         r2.entries = r.pending \o Head(rs).names
  PROVE  TabFits(t, r2, js, Tail(rs), dk, td)
  <1> DEFINE g == r.generation
             asks == About(js, t, g)
             answers == About(rs, t, g)
             u == Tail(rs)
             answers2 == About(u, t, g)
             m == Head(rs)
  <1>1. /\ u \in Seq(Messages) /\ Len(u) = Len(rs) - 1
        /\ \A i \in 1 .. Len(u) : u[i] = rs[i + 1]
        /\ m \in Messages
    BY HeadTailProperties
  <1>2. m = rs[1]
    OBVIOUS
  <1> HIDE DEF u, m
  <1>3. /\ \A i \in answers2 : i \in Nat /\ i # 0 /\ i + 1 \in answers
        /\ \A l \in answers : l \in Nat
        /\ 1 \in answers /\ m = rs[1]
    <2>1. IsFor(rs[1], t, g) /\ rs \in Seq(Messages)
      BY <1>2 DEF m
    <2> HIDE DEF g, asks, answers, answers2
    <2>2. /\ \A i \in About(u, t, g) :
                i \in Nat /\ i # 0 /\ i + 1 \in About(rs, t, g) /\ u[i] = rs[i + 1]
          /\ \A l \in About(rs, t, g) :
                l \in Nat /\ (l # 1 => l > 1 /\ l - 1 \in About(u, t, g) /\ u[l - 1] = rs[l])
          /\ IsFor(rs[1], t, g) => 1 \in About(rs, t, g)
      BY ONLY <1>1, <2>1, AboutTail
    <2> QED  BY <1>2, <2>1, <2>2 DEF answers, answers2
  <1>4. m.names \in Seq(Names) /\ r.pending \in Seq(Names)
    BY <1>1, BatchFor DEF TabState, m
  <1> HIDE DEF asks, answers, answers2
  <1>5. asks = {}
    BY <1>3 DEF TabFits, OneAnswer, asks, answers, g, m
  <1>6. answers = {1}
    <2>1. \A k \in answers : ~(1 < k)
      BY <1>3 DEF TabFits, OneAnswer, answers, g, m
    <2>2. \A k \in answers : k # 0
      <3>1. DOMAIN rs = 1 .. Len(rs)
        BY LenProperties
      <3> QED  BY <3>1 DEF answers, About
    <2> QED  BY <1>3, <2>1, <2>2
  <1>7. answers2 = {}
    <2> SUFFICES ASSUME NEW i \in answers2 PROVE FALSE
      OBVIOUS
    <2>1. i + 1 = 1 /\ i \in Nat /\ i # 0
      BY <1>3, <1>6
    <2> QED  BY <2>1
  <1>8. OneAnswer(t, r2, js, u)
    BY <1>5, <1>7 DEF OneAnswer, asks, answers2, g
  <1>9. DOMAIN r2.pending = {}
    OBVIOUS
  <1>10. Rising(t, r2, js, u)
    BY <1>5, <1>7, <1>9 DEF Rising, ListingOf, asks, answers2, g
  <1>11. Complete(t, r2, js, u, dk, td)
    BY <1>5, <1>7 DEF Complete, asks, answers2, g
  <1>12. /\ ListingOf(r.path, r2.entries)
         /\ \A n : Holds(r2.entries, n) <=> Holds(r.pending, n) \/ Holds(m.names, n)
    <2>1. r2.entries = r.pending \o m.names
      BY DEF m
    <2>2. /\ ListingOf(r.path, r.pending) /\ ListingOf(r.path, m.names)
          /\ Below(r.pending, m.names)
      BY <1>3 DEF TabFits, Rising, answers, g
    <2>3. LET w == r.pending \o m.names IN
            /\ ListingOf(r.path, r.pending) /\ ListingOf(r.path, m.names)
                 /\ Below(r.pending, m.names) => ListingOf(r.path, w)
            /\ \A n : Holds(w, n) <=> Holds(r.pending, n) \/ Holds(m.names, n)
            /\ \A v : Below(r.pending, v) /\ Below(m.names, v) => Below(w, v)
            /\ \A n : UpTo(r.pending, n) /\ UpTo(m.names, n) => UpTo(w, n)
      BY <1>4, Gathering
    <2> QED  BY <2>1, <2>2, <2>3
  <1>13. Settled(r2, dk, td)
    <2>1. ASSUME NEW n \in Names \ td, InFolder[n] = r.path, ~m.error
          PROVE  n \in dk <=> Holds(r2.entries, n)
      <3>1. n \in dk <=> Got(t, r, rs, n)
        BY <1>3, <2>1 DEF TabFits, Complete, answers, g, m
      <3>2. Got(t, r, rs, n) <=> Holds(r.pending, n) \/ Holds(m.names, n)
        BY <1>3, <1>6 DEF Got, answers, g
      <3> QED  BY <1>12, <3>1, <3>2
    <2> QED  BY <1>12, <2>1 DEF Settled, m
  <1>14. TabFits(t, r2, js, u, dk, td)
    BY <1>8, <1>10, <1>11, <1>13 DEF TabFits
  <1> QED  BY <1>14 DEF u


------------------------------------------------------------------------------
(* Requests for some tabs.                                                  *)

(* InOrder enumerates a finite set of naturals, each of them once. *)
LEMMA InOrderFacts ==
  ASSUME NEW S \in SUBSET Nat, IsFiniteSet(S)
  PROVE  /\ Cardinality(S) \in Nat
         /\ InOrder(S) \in [1 .. Cardinality(S) -> S]
         /\ Increasing(InOrder(S), Cardinality(S))
         /\ \A x \in S : \E k \in 1 .. Cardinality(S) : InOrder(S)[k] = x
         /\ \A j, k \in 1 .. Cardinality(S) : InOrder(S)[j] = InOrder(S)[k] => j = k
  <1> DEFINE n == Cardinality(S)
             o == InOrder(S)
  <1>1. n \in Nat
    BY FS_CardinalityType
  <1>2. \E s \in [1 .. n -> S] : \A j, k \in 1 .. n : j < k => s[j] < s[k]
    BY Enumeration DEF Increasing
  <1>3. o \in [1 .. n -> S] /\ \A j, k \in 1 .. n : j < k => o[j] < o[k]
    BY <1>2 DEF InOrder
  <1> HIDE DEF o
  <1>4. Increasing(o, n)
    BY <1>3 DEF Increasing
  <1>5. \A x \in S : \E k \in 1 .. n : o[k] = x
    BY <1>3, <1>4, EnumerationOnto
  <1>6. ASSUME NEW j \in 1 .. n, NEW k \in 1 .. n, o[j] = o[k], j # k PROVE FALSE
    <2>1. j < k \/ k < j
      BY <1>1, <1>6
    <2>2. o[j] < o[k] \/ o[k] < o[j]
      BY <1>3, <2>1
    <2>3. o[j] \in Nat /\ o[k] \in Nat
      BY <1>3
    <2> QED  BY <1>6, <2>2, <2>3
  <1> QED  BY <1>1, <1>3, <1>4, <1>5, <1>6 DEF o

(* The jobs for the tabs of S, in order. *)
NewJobs(S, tb) == [k \in 1 .. Cardinality(S) |->
                     LET t == InOrder(S)[k] IN ReadJob(t, Requested(tb[t]))]

(* Each tab of S gets one job. *)
LEMMA NewJobsFacts ==
  ASSUME NEW S \in SUBSET Tabs, NEW tb \in [Tabs -> TabState]
  PROVE  /\ NewJobs(S, tb) \in Seq(Jobs) /\ Len(NewJobs(S, tb)) \in Nat
         /\ \A k \in 1 .. Len(NewJobs(S, tb)) :
              \E t \in S : NewJobs(S, tb)[k] = ReadJob(t, Requested(tb[t]))
         /\ \A t \in S : \E k \in 1 .. Len(NewJobs(S, tb)) :
              /\ NewJobs(S, tb)[k] = ReadJob(t, Requested(tb[t]))
              /\ \A j \in 1 .. Len(NewJobs(S, tb)) : j # k => NewJobs(S, tb)[j].tab # t
  <1> DEFINE n == Cardinality(S)
             o == InOrder(S)
             new == NewJobs(S, tb)
  <1>0. S \subseteq Nat /\ IsFiniteSet(S)
    BY ListingAssumption, FS_Subset
  <1>1. /\ n \in Nat /\ o \in [1 .. n -> S]
        /\ \A x \in S : \E k \in 1 .. n : o[k] = x
        /\ \A j, k \in 1 .. n : o[j] = o[k] => j = k
    BY <1>0, InOrderFacts
  <1>2. new = [k \in 1 .. n |-> ReadJob(o[k], Requested(tb[o[k]]))]
    BY DEF NewJobs
  <1> HIDE DEF o, n, new
  <1>3. ASSUME NEW t \in Tabs PROVE ReadJob(t, Requested(tb[t])) \in Jobs
    <2>1. tb[t] \in TabState
      OBVIOUS
    <2>2. Requested(tb[t]).generation \in Nat /\ Requested(tb[t]).path \in Folders
      BY <2>1 DEF Requested, TabState
    <2> QED  BY <2>2 DEF ReadJob, Jobs
  <1>4. \A k \in 1 .. n : new[k] \in Jobs
    BY <1>1, <1>2, <1>3
  <1>5. new \in [1 .. n -> Jobs]
    BY <1>2, <1>4
  <1>6. new \in Seq(Jobs) /\ Len(new) = n
    BY <1>1, <1>5
  <1>7. \A k \in 1 .. n : o[k] \in S /\ new[k] = ReadJob(o[k], Requested(tb[o[k]]))
    BY <1>1, <1>2
  <1>8. ASSUME NEW t \in S
        PROVE  \E k \in 1 .. n : /\ new[k] = ReadJob(t, Requested(tb[t]))
                                 /\ \A j \in 1 .. n : j # k => new[j].tab # t
    <2>1. PICK k \in 1 .. n : o[k] = t
      BY <1>1
    <2>2. \A j \in 1 .. n : j # k => o[j] # t
      BY <1>1, <2>1
    <2>3. \A u, r : ReadJob(u, r).tab = u
      BY DEF ReadJob
    <2>4. \A j \in 1 .. n : new[j].tab = o[j]
      BY <1>7, <2>3
    <2> QED  BY <1>7, <2>1, <2>2, <2>4
  <1> QED  BY <1>1, <1>6, <1>7, <1>8 DEF new

(* The tabs are numbers, and no tab has the number that stands for none. *)
LEMMA Tabs1 ==
  /\ Tabs \subseteq Int /\ NoSelect.tab \notin Tabs
  BY ListingAssumption DEF NoSelect

(* TypeOK, its part about the tabs by its name. *)
LEMMA Typed == TypeOK => tabs \in [Tabs -> TabState]
  BY DEF TypeOK, TabState

(* request_listing_for keeps the invariant, for whatever tabs it is called. *)
LEMMA RequestKeeps ==
  ASSUME ListingInv, NEW tb \in [Tabs -> TabState], NEW S \in SUBSET Tabs, NEW keep,
         \A t \in S : /\ tabs[t].generation <= tb[t].generation
                      /\ ListingOf(tb[t].folder, tb[t].entries),
         \A t \in Tabs \ S : tb[t] = tabs[t],
         RequestListing(tb, S, keep),
         \/ UNCHANGED results
         \/ results # <<>> /\ Head(results).kind = "changed" /\ results' = Tail(results),
         UNCHANGED <<active, disk>>, inputs' \in 0 .. MaxInputs,
         pendingSelect' \in [tab : Tabs, names : SUBSET Names] \cup {NoSelect}
  PROVE  ListingInv'
  <1> DEFINE new == NewJobs(S, tb)
  <1>1. /\ new \in Seq(Jobs) /\ Len(new) \in Nat
        /\ \A k \in 1 .. Len(new) : \E t \in S : new[k] = ReadJob(t, Requested(tb[t]))
        /\ \A t \in S : \E k \in 1 .. Len(new) :
             /\ new[k] = ReadJob(t, Requested(tb[t]))
             /\ \A j \in 1 .. Len(new) : j # k => new[j].tab # t
    BY NewJobsFacts
  <1>2. /\ jobs' = jobs \o new
        /\ tabs' = [t \in Tabs |-> IF t \in S THEN Requested(tb[t]) ELSE tb[t]]
        /\ touched' = [t \in Tabs |-> IF t \in S THEN {} ELSE touched[t]]
    BY DEF RequestListing, NewJobs
  <1> HIDE DEF new
  <1>3. /\ jobs \in Seq(Jobs) /\ results \in Seq(Messages) /\ tabs \in [Tabs -> TabState]
        /\ NotNewer(tabs, jobs, results)
        /\ \A t \in Tabs : TabFits(t, tabs[t], jobs, results, disk, touched[t])
    BY Typed DEF ListingInv, TypeOK
  <1>4. /\ Len(jobs) \in Nat /\ DOMAIN jobs = 1 .. Len(jobs)
        /\ jobs' \in Seq(Jobs) /\ DOMAIN jobs' = 1 .. Len(jobs) + Len(new)
        /\ \A k \in 1 .. Len(jobs) + Len(new) :
             jobs'[k] = IF k <= Len(jobs) THEN jobs[k] ELSE new[k - Len(jobs)]
    <2>1. /\ jobs \o new \in Seq(Jobs) /\ Len(jobs \o new) = Len(jobs) + Len(new)
          /\ \A k \in 1 .. Len(jobs) + Len(new) :
               (jobs \o new)[k] = IF k <= Len(jobs) THEN jobs[k] ELSE new[k - Len(jobs)]
      BY <1>1, <1>3, ConcatProperties
    <2>2. Len(jobs) \in Nat /\ DOMAIN jobs = 1 .. Len(jobs)
      BY <1>3, LenProperties
    <2>3. DOMAIN (jobs \o new) = 1 .. Len(jobs) + Len(new)
      BY <2>1, LenProperties
    <2> QED  BY <1>2, <2>1, <2>2, <2>3
  <1>5. \A t \in S : /\ Requested(tb[t]) \in TabState
                     /\ Requested(tb[t]).generation = tb[t].generation + 1
                     /\ Requested(tb[t]).pending = <<>> /\ Requested(tb[t]).loading = TRUE
                     /\ Requested(tb[t]).folder = tb[t].folder
                     /\ Requested(tb[t]).entries = tb[t].entries
    <2> SUFFICES ASSUME NEW r \in TabState
                 PROVE  /\ Requested(r) \in TabState
                        /\ Requested(r).generation = r.generation + 1
                        /\ Requested(r).pending = <<>> /\ Requested(r).loading = TRUE
                        /\ Requested(r).folder = r.folder /\ Requested(r).entries = r.entries
      OBVIOUS
    <2>1. r.generation + 1 \in Nat /\ <<>> \in Seq(Names)
      BY DEF TabState
    <2> QED  BY <2>1 DEF Requested, TabState
  <1>6. tabs' \in [Tabs -> TabState]
    BY <1>2, <1>5
  <1>7. \A t \in Tabs : tabs[t].generation \in Nat /\ tabs'[t].generation \in Nat
    BY <1>3, <1>6 DEF TabState
  <1>8. \A t \in Tabs : /\ tabs[t].generation <= tabs'[t].generation
                        /\ t \in S => tabs[t].generation < tabs'[t].generation
    <2> SUFFICES ASSUME NEW t \in Tabs
                 PROVE  /\ tabs[t].generation <= tabs'[t].generation
                        /\ t \in S => tabs[t].generation < tabs'[t].generation
      OBVIOUS
    <2>1. CASE t \in S
      <3>1. tb[t].generation \in Nat /\ tabs'[t].generation = tb[t].generation + 1
        BY <1>2, <1>5, <2>1 DEF TabState
      <3> QED  BY <1>7, <2>1, <3>1
    <2>2. CASE t \notin S
      BY <1>2, <1>7, <2>2
    <2> QED  BY <2>1, <2>2
  <1>9. /\ results' \in Seq(Messages)
        /\ \A k \in DOMAIN results' : \E l \in DOMAIN results : results'[k] = results[l]
        /\ \A t, g : Same(results, results', t, g)
    <2>1. CASE UNCHANGED results
      BY <1>3, <2>1, SameSelf
    <2>2. CASE /\ results # <<>> /\ Head(results).kind = "changed"
               /\ results' = Tail(results)
      <3>1. /\ Tail(results) \in Seq(Messages) /\ Len(Tail(results)) = Len(results) - 1
            /\ \A i \in 1 .. Len(Tail(results)) : Tail(results)[i] = results[i + 1]
        BY <1>3, <2>2, HeadTailProperties
      <3>2. /\ Len(results) \in Nat /\ DOMAIN results = 1 .. Len(results)
            /\ DOMAIN Tail(results) = 1 .. Len(Tail(results))
        BY <1>3, <3>1, LenProperties
      <3>3. \A k \in DOMAIN Tail(results) : k + 1 \in DOMAIN results
        BY <3>1, <3>2
      <3>4. \A t, g : ~IsFor(Head(results), t, g)
        BY <2>2 DEF IsFor
      <3>5. \A t, g : Same(results, Tail(results), t, g)
        BY <1>3, <2>2, <3>4, SameTail
      <3> QED  BY <2>2, <3>1, <3>2, <3>3, <3>5
    <2> QED  BY <2>1, <2>2
  <1>10. NotNewer(tabs', jobs', results')
    <2>1. ASSUME NEW k \in DOMAIN jobs' PROVE jobs'[k].gen <= tabs'[jobs'[k].tab].generation
      <3>1. CASE k <= Len(jobs)
        <4>1. k \in DOMAIN jobs /\ jobs'[k] = jobs[k]
          BY <1>4, <3>1
        <4>2. jobs[k] \in Jobs
          BY <1>3, <1>4, <4>1, ElementOfSeq
        <4>3. jobs[k].tab \in Tabs /\ jobs[k].gen \in Nat
          BY <4>2 DEF Jobs
        <4>4. jobs[k].gen <= tabs[jobs[k].tab].generation
          BY <1>3, <4>1 DEF NotNewer
        <4> QED  BY <1>7, <1>8, <4>1, <4>3, <4>4
      <3>2. CASE ~(k <= Len(jobs))
        <4>1. k - Len(jobs) \in 1 .. Len(new) /\ jobs'[k] = new[k - Len(jobs)]
          BY <1>1, <1>4, <3>2
        <4>2. PICK t \in S : new[k - Len(jobs)] = ReadJob(t, Requested(tb[t]))
          BY <1>1, <4>1
        <4>3. jobs'[k].tab = t /\ jobs'[k].gen = Requested(tb[t]).generation
          BY <4>1, <4>2 DEF ReadJob
        <4>4. tabs'[t].generation = Requested(tb[t]).generation
          BY <1>2
        <4> QED  BY <1>7, <4>3, <4>4
      <3> QED  BY <3>1, <3>2
    <2>2. ASSUME NEW k \in DOMAIN results', results'[k].kind # "changed"
          PROVE  results'[k].gen <= tabs'[results'[k].tab].generation
      <3>1. PICK l \in DOMAIN results : results'[k] = results[l]
        BY <1>9
      <3>2. results[l] \in Messages
        BY <1>3, LenProperties, ElementOfSeq
      <3>3. results[l].tab \in Tabs /\ results[l].gen \in Nat
        BY <2>2, <3>1, <3>2 DEF Messages
      <3>4. results[l].gen <= tabs[results[l].tab].generation
        BY <1>3, <2>2, <3>1 DEF NotNewer
      <3> QED  BY <1>7, <1>8, <3>1, <3>3, <3>4
    <2> QED  BY <2>1, <2>2 DEF NotNewer
  <1>11. ASSUME NEW t \in Tabs
         PROVE  TabFits(t, tabs'[t], jobs', results', disk', touched'[t])
    <2>1. CASE t \in S
      <3> DEFINE r == Requested(tb[t])
      <3>1. tabs'[t] = r
        BY <1>2, <2>1
      <3> HIDE DEF r
      <3>2. PICK k \in 1 .. Len(new) :
              /\ new[k] = ReadJob(t, r)
              /\ \A j \in 1 .. Len(new) : j # k => new[j].tab # t
        BY <1>1, <2>1 DEF r
      <3>3. r.generation \in Nat /\ tabs[t].generation < r.generation
        BY <1>7, <1>8, <2>1, <3>1
      <3>4. \A l \in DOMAIN jobs : ~IsFor(jobs[l], t, r.generation)
        BY <1>3, <1>7, <3>3 DEF NotNewer, IsFor
      <3>5. About(jobs', t, r.generation) = {Len(jobs) + k}
        <4>1. ASSUME NEW l \in 1 .. Len(jobs) + Len(new), IsFor(jobs'[l], t, r.generation)
              PROVE  l = Len(jobs) + k
          <5>1. ~(l <= Len(jobs))
            BY <1>4, <3>4, <4>1
          <5>2. l - Len(jobs) \in 1 .. Len(new) /\ jobs'[l] = new[l - Len(jobs)]
            BY <1>1, <1>4, <5>1
          <5>3. new[l - Len(jobs)].tab = t
            BY <4>1, <5>2 DEF IsFor
          <5>4. l - Len(jobs) = k
            BY <3>2, <5>2, <5>3
          <5> QED  BY <1>4, <5>4
        <4>2. Len(jobs) + k \in 1 .. Len(jobs) + Len(new) /\ jobs'[Len(jobs) + k] = new[k]
          <5>1. /\ Len(jobs) + k \in 1 .. Len(jobs) + Len(new) /\ ~(Len(jobs) + k <= Len(jobs))
                /\ (Len(jobs) + k) - Len(jobs) = k
            BY <1>1, <1>4
          <5> QED  BY <1>4, <5>1
        <4>3. IsFor(new[k], t, r.generation)
          BY <3>2 DEF ReadJob, IsFor
        <4> QED  BY <1>4, <4>1, <4>2, <4>3 DEF About
      <3>6. jobs'[Len(jobs) + k] = ReadJob(t, r)
        <4>1. /\ Len(jobs) + k \in 1 .. Len(jobs) + Len(new) /\ ~(Len(jobs) + k <= Len(jobs))
              /\ (Len(jobs) + k) - Len(jobs) = k
          BY <1>1, <1>4
        <4> QED  BY <1>4, <3>2, <4>1
      <3>7. About(results', t, r.generation) = {}
        <4> SUFFICES ASSUME NEW l \in DOMAIN results', IsFor(results'[l], t, r.generation)
                     PROVE  FALSE
          BY DEF About
        <4>1. PICK i \in DOMAIN results : results'[l] = results[i]
          BY <1>9
        <4>2. results[i].gen <= tabs[t].generation /\ results[i].gen = r.generation
          BY <1>3, <4>1 DEF NotNewer, IsFor
        <4> QED  BY <1>7, <3>3, <4>2
      <3>8. r.pending = <<>> /\ r.loading = TRUE /\ ListingOf(r.folder, r.entries)
        BY <1>5, <2>1 DEF r
      <3> QED  BY <3>1, <3>5, <3>6, <3>7, <3>8, Beginning
    <2>2. CASE t \notin S
      <3>1. tabs'[t] = tabs[t] /\ touched'[t] = touched[t]
        BY <1>2, <2>2
      <3>2. \A k \in 1 .. Len(new) : ~IsFor(new[k], t, tabs[t].generation)
        <4> SUFFICES ASSUME NEW k \in 1 .. Len(new) PROVE new[k].tab # t
          BY DEF IsFor
        <4>1. PICK u \in S : new[k] = ReadJob(u, Requested(tb[u]))
          BY <1>1
        <4> QED  BY <2>2, <4>1 DEF ReadJob
      <3>3. Same(jobs, jobs', t, tabs[t].generation)
        BY <1>1, <1>2, <1>3, <3>2, SameConcat
      <3>4. Same(results, results', t, tabs[t].generation)
        BY <1>9
      <3>5. TabFits(t, tabs[t], jobs, results, disk, touched[t])
        BY <1>3
      <3>6. /\ DOMAIN jobs \subseteq Int /\ DOMAIN jobs' \subseteq Int
            /\ DOMAIN results \subseteq Int /\ DOMAIN results' \subseteq Int
        BY <1>3, <1>4, <1>9, LenProperties
      <3>7. TabFits(t, tabs[t], jobs', results', disk, touched[t])
        BY <3>3, <3>4, <3>5, <3>6, SameFits
      <3> QED  BY <3>1, <3>7
    <2> QED  BY <2>1, <2>2
  <1>12. TypeOK'
    <2>1. active' \in Tabs /\ disk' \subseteq Names /\ touched' \in [Tabs -> SUBSET Names]
      BY <1>2 DEF ListingInv, TypeOK
    <2>2. keepSelection' \in [Tabs -> SUBSET SUBSET Names]
      <3>1. \A t \in Tabs : SelectedNames(tb[t]) \in SUBSET Names
        <4> SUFFICES ASSUME NEW r \in TabState PROVE SelectedNames(r) \in SUBSET Names
          OBVIOUS
        <4>1. r.entries \in Seq(Names)
          BY DEF TabState
        <4>2. \A i \in DOMAIN r.entries : r.entries[i] \in Names
          BY <4>1, LenProperties, ElementOfSeq
        <4> QED  BY <4>2 DEF SelectedNames
      <3>2. keepSelection \in [Tabs -> SUBSET SUBSET Names]
        BY DEF ListingInv, TypeOK
      <3>3. keepSelection' = [t \in Tabs |-> IF t \notin S THEN keepSelection[t]
                                             ELSE IF keep THEN {SelectedNames(tb[t])} ELSE {}]
        BY DEF RequestListing
      <3> QED  BY <3>1, <3>2, <3>3
    <2>3. watch' \in [Tabs -> [folder : Folders,
                               state : {"opened", "armed", "changed", "changed again"}]]
      <3>1. watch \in [Tabs -> [folder : Folders,
                                state : {"opened", "armed", "changed", "changed again"}]]
        BY DEF ListingInv, TypeOK
      <3>2. \A t \in Tabs : tb[t].path \in Folders
        BY DEF TabState
      <3>3. watch' = [t \in Tabs |-> IF t \in S THEN EnsureWatcher(watch[t], tb[t].path)
                                     ELSE watch[t]]
        BY DEF RequestListing
      <3> QED  BY <3>1, <3>2, <3>3 DEF EnsureWatcher
    <2> QED  BY <1>4, <1>6, <1>9, <2>1, <2>2, <2>3 DEF TypeOK, TabState
  <1> QED  BY <1>10, <1>11, <1>12 DEF ListingInv


------------------------------------------------------------------------------
(* The other steps.                                                         *)

Alike(r, s) ==
  /\ r.path = s.path /\ r.generation = s.generation /\ r.pending = s.pending
  /\ r.loading = s.loading /\ r.folder = s.folder /\ r.entries = s.entries
  /\ r.error = s.error

(* Tabs that differ only where the invariant does not look. *)
LEMMA AlikeFits ==
  ASSUME ListingInv, NEW tb \in [Tabs -> TabState], \A t \in Tabs : Alike(tb[t], tabs[t])
  PROVE  /\ NotNewer(tb, jobs, results)
         /\ \A t \in Tabs : TabFits(t, tb[t], jobs, results, disk, touched[t])
  <1>0. jobs \in Seq(Jobs) /\ results \in Seq(Messages)
    BY DEF ListingInv, TypeOK
  <1>1. NotNewer(tb, jobs, results)
    <2>1. ASSUME NEW k \in DOMAIN jobs PROVE jobs[k].gen <= tb[jobs[k].tab].generation
      <3>1. jobs[k] \in Jobs
        BY <1>0, LenProperties, ElementOfSeq
      <3>2. jobs[k].tab \in Tabs
        BY <3>1 DEF Jobs
      <3> QED  BY <3>2 DEF ListingInv, NotNewer, Alike
    <2>2. ASSUME NEW k \in DOMAIN results, results[k].kind # "changed"
          PROVE  results[k].gen <= tb[results[k].tab].generation
      <3>1. results[k] \in Messages
        BY <1>0, LenProperties, ElementOfSeq
      <3>2. results[k].tab \in Tabs
        BY <3>1 DEF Messages
      <3> QED  BY <2>2, <3>2 DEF ListingInv, NotNewer, Alike
    <2> QED  BY <2>1, <2>2 DEF NotNewer
  <1>2. ASSUME NEW t \in Tabs PROVE TabFits(t, tb[t], jobs, results, disk, touched[t])
    <2>1. TabFits(t, tabs[t], jobs, results, disk, touched[t]) /\ Alike(tb[t], tabs[t])
      BY DEF ListingInv
    <2> QED  BY <2>1, SameState DEF Alike
  <1> QED  BY <1>1, <1>2

(* try_select_pending changes a selection and nothing else of the tab. *)
LEMMA SelectingFacts ==
  ASSUME TypeOK, NEW t \in Tabs, NEW r \in TabState
  PROVE  /\ Selecting(t, r) \in TabState /\ Alike(Selecting(t, r), r)
         /\ StillPending(t, r) \in [tab : Tabs, names : SUBSET Names] \cup {NoSelect}
  <1>1. Awaited(t, r) \in SUBSET (Nat \ {0})
    <2>1. r.entries \in Seq(Names)
      BY DEF TabState
    <2>2. DOMAIN r.entries \subseteq Nat \ {0}
      BY <2>1, LenProperties
    <2> QED  BY <2>2 DEF Awaited
  <1>2. Selecting(t, r) \in TabState
    BY <1>1 DEF Selecting, TabState
  <1>3. Alike(Selecting(t, r), r)
    BY DEF Selecting, Alike, TabState
  <1>4. StillPending(t, r) \in [tab : Tabs, names : SUBSET Names] \cup {NoSelect}
    BY DEF StillPending, TypeOK
  <1> QED  BY <1>2, <1>3, <1>4

(* rebuild_view. *)
LEMMA Rebuilding ==
  ASSUME NEW tb \in [Tabs -> TabState], jobs \in Seq(Jobs), active \in Tabs, RebuildView(tb)
  PROVE  /\ tabs' \in [Tabs -> TabState] /\ jobs' \in Seq(Jobs)
         /\ \A rs \in Seq(Messages) : NotNewer(tb, jobs, rs) => NotNewer(tabs', jobs', rs)
         /\ \A t \in Tabs, rs \in Seq(Messages) : \A dk, td :
              TabFits(t, tb[t], jobs, rs, dk, td) => TabFits(t, tabs'[t], jobs', rs, dk, td)
  <1>1. tb[active] \in TabState
    OBVIOUS
  <1>2. CASE tb[active].entries = <<>>
    <2>1. tabs' = [tb EXCEPT ![active].view = {}] /\ jobs' = jobs
      BY <1>2 DEF RebuildView
    <2>2. \A t \in Tabs : tabs'[t] = IF t = active THEN [tb[active] EXCEPT !.view = {}] ELSE tb[t]
      BY <2>1
    <2>3. [tb[active] EXCEPT !.view = {}] \in TabState
      BY <1>1 DEF TabState
    <2>4. tabs' \in [Tabs -> TabState]
      BY <2>1, <2>3
    <2>5. \A t \in Tabs : Alike(tabs'[t], tb[t])
      <3>1. \A s : Alike(s, s)
        BY DEF Alike
      <3>2. Alike([tb[active] EXCEPT !.view = {}], tb[active])
        BY <1>1 DEF Alike, TabState
      <3> QED  BY <2>2, <3>1, <3>2
    <2>6. ASSUME NEW rs \in Seq(Messages), NotNewer(tb, jobs, rs) PROVE NotNewer(tabs', jobs', rs)
      <3>1. ASSUME NEW k \in DOMAIN jobs PROVE jobs[k].gen <= tabs'[jobs[k].tab].generation
        <4>1. jobs[k] \in Jobs
          BY LenProperties, ElementOfSeq
        <4>2. jobs[k].tab \in Tabs
          BY <4>1 DEF Jobs
        <4> QED  BY <2>5, <2>6, <4>2 DEF NotNewer, Alike
      <3>2. ASSUME NEW k \in DOMAIN rs, rs[k].kind # "changed"
            PROVE  rs[k].gen <= tabs'[rs[k].tab].generation
        <4>1. rs[k] \in Messages
          BY LenProperties, ElementOfSeq
        <4>2. rs[k].tab \in Tabs
          BY <4>1 DEF Messages
        <4> QED  BY <2>5, <2>6, <3>2, <4>2 DEF NotNewer, Alike
      <3> QED  BY <2>1, <3>1, <3>2 DEF NotNewer
    <2>7. ASSUME NEW t \in Tabs, NEW rs \in Seq(Messages), NEW dk, NEW td,
                 TabFits(t, tb[t], jobs, rs, dk, td)
          PROVE  TabFits(t, tabs'[t], jobs', rs, dk, td)
      <3>1. Alike(tabs'[t], tb[t])
        BY <2>5
      <3>2. TabFits(t, tabs'[t], jobs, rs, dk, td)
        BY <2>7, <3>1, SameState DEF Alike
      <3> QED  BY <2>1, <3>2
    <2> QED  BY <2>1, <2>4, <2>6, <2>7
  <1>3. CASE tb[active].entries # <<>>
    <2> DEFINE v == ViewJob(active, tb[active])
    <2>1. tabs' = tb /\ jobs' = Append(jobs, v)
      BY <1>3 DEF RebuildView
    <2>2. v \in Jobs /\ v.kind = "view" /\ v.tab = active /\ v.gen = tb[active].generation
      <3>1. DOMAIN tb[active].entries \subseteq Nat \ {0}
        BY <1>1, LenProperties DEF TabState
      <3> QED  BY <1>1, <3>1 DEF ViewJob, Jobs, TabState
    <2> HIDE DEF v
    <2>3. /\ jobs' \in Seq(Jobs) /\ DOMAIN jobs = 1 .. Len(jobs) /\ Len(jobs) \in Nat
          /\ DOMAIN jobs' = 1 .. Len(jobs) + 1
          /\ \A i \in 1 .. Len(jobs) : jobs'[i] = jobs[i]
          /\ jobs'[Len(jobs) + 1] = v
      BY <2>1, <2>2, AppendProperties, LenProperties
    <2>4. ASSUME NEW rs \in Seq(Messages), NotNewer(tb, jobs, rs) PROVE NotNewer(tabs', jobs', rs)
      <3>1. ASSUME NEW k \in DOMAIN jobs' PROVE jobs'[k].gen <= tb[jobs'[k].tab].generation
        <4>1. CASE k \in 1 .. Len(jobs)
          BY <2>3, <2>4, <4>1 DEF NotNewer
        <4>2. CASE k = Len(jobs) + 1
          <5>1. tb[active].generation \in Nat
            BY <1>1 DEF TabState
          <5> QED  BY <2>2, <2>3, <4>2, <5>1
        <4>3. k \in 1 .. Len(jobs) \/ k = Len(jobs) + 1
          BY <2>3
        <4> QED  BY <4>1, <4>2, <4>3
      <3> QED  BY <2>1, <2>4, <3>1 DEF NotNewer
    <2>5. ASSUME NEW t \in Tabs, NEW rs \in Seq(Messages), NEW dk, NEW td,
                 TabFits(t, tb[t], jobs, rs, dk, td)
          PROVE  TabFits(t, tabs'[t], jobs', rs, dk, td)
      <3> DEFINE g == tb[t].generation
      <3>1. ~IsFor(v, t, g)
        BY <2>2 DEF IsFor
      <3>2. Same(jobs, jobs', t, g)
        <4> HIDE DEF g
        <4> QED  BY <2>1, <2>2, <3>1, SameAppend
      <3>3. Same(rs, rs, t, g)
        BY SameSelf
      <3>4. DOMAIN jobs \subseteq Int /\ DOMAIN jobs' \subseteq Int /\ DOMAIN rs \subseteq Int
        BY <2>3, LenProperties
      <3>5. TabFits(t, tb[t], jobs', rs, dk, td)
        BY <2>5, <3>2, <3>3, <3>4, SameFits
      <3> QED  BY <2>1, <3>5
    <2> QED  BY <2>1, <2>3, <2>4, <2>5
  <1> QED  BY <1>2, <1>3

(* A message that is not about the latest request of any tab is taken. *)
LEMMA Taking ==
  ASSUME NEW tb, NEW js \in Seq(Jobs), NEW rs \in Seq(Messages), NEW dk, NEW td,
         rs # <<>>, NotNewer(tb, js, rs),
         \A t \in Tabs : TabFits(t, tb[t], js, rs, dk, td[t]) /\ ~IsFor(Head(rs), t, tb[t].generation)
  PROVE  /\ Tail(rs) \in Seq(Messages) /\ NotNewer(tb, js, Tail(rs))
         /\ \A t \in Tabs : TabFits(t, tb[t], js, Tail(rs), dk, td[t])
  <1>1. /\ Tail(rs) \in Seq(Messages) /\ Len(Tail(rs)) = Len(rs) - 1
        /\ \A i \in 1 .. Len(Tail(rs)) : Tail(rs)[i] = rs[i + 1]
    BY HeadTailProperties
  <1>2. /\ Len(rs) \in Nat /\ DOMAIN rs = 1 .. Len(rs) /\ DOMAIN js = 1 .. Len(js)
        /\ DOMAIN Tail(rs) = 1 .. Len(rs) - 1 /\ Len(js) \in Nat
    BY <1>1, LenProperties
  <1>3. NotNewer(tb, js, Tail(rs))
    <2>1. \A k \in DOMAIN Tail(rs) : k + 1 \in DOMAIN rs /\ Tail(rs)[k] = rs[k + 1]
      BY <1>1, <1>2
    <2> QED  BY <2>1 DEF NotNewer
  <1>4. ASSUME NEW t \in Tabs PROVE TabFits(t, tb[t], js, Tail(rs), dk, td[t])
    <2> DEFINE g == tb[t].generation
    <2>1. ~IsFor(Head(rs), t, g)
      OBVIOUS
    <2>2. Same(rs, Tail(rs), t, g) /\ Same(js, js, t, g)
      <3> HIDE DEF g
      <3> QED  BY <2>1, SameTail, SameSelf
    <2>3. DOMAIN js \subseteq Int /\ DOMAIN rs \subseteq Int /\ DOMAIN Tail(rs) \subseteq Int
      BY <1>2
    <2>4. TabFits(t, tb[t], js, rs, dk, td[t])
      OBVIOUS
    <2> QED  BY <2>2, <2>3, <2>4, SameFits
  <1> QED  BY <1>1, <1>3, <1>4


(* Steps that change none of what the invariant is about but the types. *)
LEMMA RestKeeps ==
  ASSUME ListingInv, TypeOK', UNCHANGED <<jobs, results, disk, touched>>,
         \A t \in Tabs : Alike(tabs'[t], tabs[t])
  PROVE  ListingInv'
  <1>1. tabs' \in [Tabs -> TabState]
    BY DEF TypeOK, TabState
  <1>2. /\ NotNewer(tabs', jobs, results)
        /\ \A t \in Tabs : TabFits(t, tabs'[t], jobs, results, disk, touched[t])
    BY <1>1, AlikeFits
  <1> QED  BY <1>2 DEF ListingInv

(* The bound on the inputs. *)
LEMMA InputTyped == ASSUME TypeOK, Input PROVE inputs' \in 0 .. MaxInputs
  <1>1. MaxInputs \in Nat
    BY ListingAssumption
  <1>2. inputs \in 0 .. MaxInputs /\ inputs < MaxInputs /\ inputs' = inputs + 1
    BY DEF TypeOK, Input
  <1> QED  BY <1>1, <1>2

(* navigate: the tab's path moves on before its listing is requested. *)
LEMMA NavigateKeeps ==
  ASSUME ListingInv, NEW folder \in Folders, Navigate(folder) PROVE ListingInv'
  <1> DEFINE r == tabs[active]
             moved == [r EXCEPT !.path = folder, !.selection = {}, !.filter = FALSE,
                                !.generation = @ + 1]
             to == IF folder = r.path THEN r ELSE moved
             tb == [tabs EXCEPT ![active] = to]
  <1>1. TypeOK /\ tabs \in [Tabs -> TabState] /\ active \in Tabs
    BY Typed DEF ListingInv, TypeOK
  <1>2. r \in TabState
    BY <1>1
  <1>3. tb = [tabs EXCEPT ![active] = IF folder = tabs[active].path THEN @
                ELSE [tabs[active] EXCEPT !.path = folder, !.selection = {}, !.filter = FALSE,
                                          !.generation = @ + 1]]
    BY <1>1
  <1>4. RequestListing(tb, {active}, FALSE) /\ Input /\ UNCHANGED <<active, pendingSelect, results, disk>>
    BY <1>3 DEF Navigate
  <1> HIDE DEF r
  <1>5. to \in TabState /\ r.generation <= to.generation
        /\ to.folder = r.folder /\ to.entries = r.entries
    <2>1. moved \in TabState /\ moved.generation = r.generation + 1
          /\ moved.folder = r.folder /\ moved.entries = r.entries
      <3>1. r.generation + 1 \in Nat
        BY <1>2 DEF TabState
      <3> QED  BY <1>2, <3>1 DEF TabState
    <2>2. r.generation \in Nat
      BY <1>2 DEF TabState
    <2> HIDE DEF moved
    <2> QED  BY <1>2, <2>1, <2>2
  <1> HIDE DEF to
  <1>6. tb \in [Tabs -> TabState] /\ tb[active] = to /\ \A t \in Tabs \ {active} : tb[t] = tabs[t]
    BY <1>1, <1>5
  <1> HIDE DEF tb
  <1>7. ListingOf(r.folder, r.entries)
    BY <1>1 DEF ListingInv, TabFits, Settled, r
  <1>8. \A t \in {active} : /\ tabs[t].generation <= tb[t].generation
                            /\ ListingOf(tb[t].folder, tb[t].entries)
    BY <1>5, <1>6, <1>7 DEF r
  <1>9. inputs' \in 0 .. MaxInputs
    BY <1>1, <1>4, InputTyped
  <1>10. pendingSelect' \in [tab : Tabs, names : SUBSET Names] \cup {NoSelect}
    BY <1>1, <1>4 DEF TypeOK
  <1>11. {active} \in SUBSET Tabs
    BY <1>1
  <1> QED  BY <1>4, <1>6, <1>8, <1>9, <1>10, <1>11, RequestKeeps

(* The requests that leave the tabs as they are until then. *)
LEMMA AgainKeeps ==
  ASSUME ListingInv, NEW S \in SUBSET Tabs, NEW keep, RequestListing(tabs, S, keep),
         \/ UNCHANGED results
         \/ results # <<>> /\ Head(results).kind = "changed" /\ results' = Tail(results),
         UNCHANGED <<active, disk>>, inputs' \in 0 .. MaxInputs,
         pendingSelect' \in [tab : Tabs, names : SUBSET Names] \cup {NoSelect}
  PROVE  ListingInv'
  <1>1. tabs \in [Tabs -> TabState]
    BY Typed DEF ListingInv
  <1>2. \A t \in S : /\ tabs[t].generation <= tabs[t].generation
                     /\ ListingOf(tabs[t].folder, tabs[t].entries)
    <2>1. \A t \in Tabs : tabs[t].generation \in Nat
      BY <1>1 DEF TabState
    <2> QED  BY <2>1 DEF ListingInv, TabFits, Settled
  <1>3. \A t \in Tabs \ S : tabs[t] = tabs[t]
    OBVIOUS
  <1> QED  BY <1>1, <1>2, <1>3, RequestKeeps

(* refresh. *)
LEMMA RefreshKeeps == ASSUME ListingInv, Refresh PROVE ListingInv'
  <1>1. TypeOK /\ {active} \in SUBSET Tabs
    BY DEF ListingInv, TypeOK
  <1>2. inputs' \in 0 .. MaxInputs
    BY <1>1, InputTyped DEF Refresh
  <1>3. pendingSelect' \in [tab : Tabs, names : SUBSET Names] \cup {NoSelect}
    BY <1>1 DEF TypeOK, Refresh
  <1>4. RequestListing(tabs, {active}, TRUE) /\ UNCHANGED <<active, results, disk>>
    BY DEF Refresh
  <1> QED  BY <1>1, <1>2, <1>3, <1>4, AgainKeeps

(* An operation ends: the tabs on its folder are requested again. *)
LEMMA OpDoneKeeps ==
  ASSUME ListingInv, NEW folder, NEW created, OpDone(folder, created) PROVE ListingInv'
  <1> DEFINE On == {t \in Tabs : tabs[t].path = folder}
             best == IF active \in On THEN active
                     ELSE CHOOSE t \in On : \A u \in On : t <= u
  <1>1. /\ Input /\ On # {}
        /\ created \subseteq disk \cap Created
        /\ pendingSelect' = IF created = {} THEN pendingSelect
                            ELSE [tab |-> best, names |-> created]
        /\ RequestListing(tabs, On, TRUE) /\ UNCHANGED <<active, results, disk>>
    BY DEF OpDone
  <1>2. TypeOK
    BY DEF ListingInv
  <1>3. inputs' \in 0 .. MaxInputs
    BY <1>1, <1>2, InputTyped
  <1>4. best \in Tabs
    <2>1. On \subseteq Nat /\ On \subseteq Tabs
      BY ListingAssumption
    <2> HIDE DEF On
    <2>2. \E t \in On : \A u \in On : t <= u
      BY <1>1, <2>1, Least
    <2>3. best \in On
      BY <2>2
    <2> QED  BY <2>1, <2>3
  <1>5. pendingSelect' \in [tab : Tabs, names : SUBSET Names] \cup {NoSelect}
    <2>1. created \in SUBSET Names
      BY <1>1, <1>2 DEF TypeOK
    <2>2. pendingSelect \in [tab : Tabs, names : SUBSET Names] \cup {NoSelect}
      BY <1>2 DEF TypeOK
    <2> HIDE DEF best
    <2> QED  BY <1>1, <1>4, <2>1, <2>2
  <1>6. On \in SUBSET Tabs
    OBVIOUS
  <1> HIDE DEF On
  <1> QED  BY <1>1, <1>3, <1>5, <1>6, AgainKeeps

(* A filter is typed: the view is built again. *)
LEMMA SetFilterKeeps == ASSUME ListingInv, SetFilter PROVE ListingInv'
  <1> DEFINE to == [tabs[active] EXCEPT !.filter = ~tabs[active].filter]
             tb == [tabs EXCEPT ![active] = to]
  <1>1. TypeOK /\ tabs \in [Tabs -> TabState] /\ active \in Tabs
        /\ jobs \in Seq(Jobs) /\ results \in Seq(Messages)
    BY Typed DEF ListingInv, TypeOK
  <1>2. tb = [tabs EXCEPT ![active].filter = ~@]
    BY <1>1
  <1>3. RebuildView(tb) /\ Input
        /\ UNCHANGED <<active, keepSelection, pendingSelect, results, watch, disk, touched>>
    BY <1>2 DEF SetFilter
  <1>4. to \in TabState /\ Alike(to, tabs[active])
    <2>1. tabs[active] \in TabState
      BY <1>1
    <2>2. (~tabs[active].filter) \in BOOLEAN
      OBVIOUS
    <2>3. to \in TabState
      BY <2>1, <2>2 DEF TabState
    <2> QED  BY <2>1, <2>3 DEF Alike, TabState
  <1> HIDE DEF to
  <1>5. tb \in [Tabs -> TabState] /\ tb[active] = to /\ \A t \in Tabs : t # active => tb[t] = tabs[t]
    BY <1>1, <1>4
  <1> HIDE DEF tb
  <1>6. \A t \in Tabs : Alike(tb[t], tabs[t])
    BY <1>4, <1>5 DEF Alike
  <1>7. /\ NotNewer(tb, jobs, results)
        /\ \A t \in Tabs : TabFits(t, tb[t], jobs, results, disk, touched[t])
    BY <1>5, <1>6, AlikeFits
  <1>8. /\ tabs' \in [Tabs -> TabState] /\ jobs' \in Seq(Jobs)
        /\ NotNewer(tabs', jobs', results)
        /\ \A t \in Tabs : TabFits(t, tabs'[t], jobs', results, disk, touched[t])
    BY <1>1, <1>3, <1>5, <1>7, Rebuilding
  <1>9. inputs' \in 0 .. MaxInputs
    BY <1>1, <1>3, InputTyped
  <1>10. TypeOK'
    BY <1>1, <1>3, <1>8, <1>9 DEF TypeOK, TabState
  <1> QED  BY <1>3, <1>8, <1>10 DEF ListingInv

(* A click or Ctrl+click. *)
LEMMA SelectKeeps ==
  ASSUME ListingInv, NEW i, Click(i) \/ CtrlClick(i) PROVE ListingInv'
  <1>1. TypeOK /\ tabs \in [Tabs -> TabState] /\ active \in Tabs
    BY Typed DEF ListingInv, TypeOK
  <1>2. tabs[active] \in TabState
    BY <1>1
  <1>3. PICK S \in SUBSET (Nat \ {0}) : Select(S)
    <2>1. tabs[active].view \subseteq Nat \ {0} /\ tabs[active].selection \subseteq Nat \ {0}
      BY <1>2 DEF TabState
    <2>2. CASE Click(i)
      BY <2>1, <2>2 DEF Click
    <2>3. CASE CtrlClick(i)
      <3>1. SymDiff(tabs[active].selection, {i}) \in SUBSET (Nat \ {0})
        BY <2>1, <2>3 DEF CtrlClick, SymDiff
      <3> QED  BY <2>3, <3>1 DEF CtrlClick
    <2> QED  BY <2>2, <2>3
  <1> DEFINE to == [tabs[active] EXCEPT !.selection = S]
  <1>4. to \in TabState /\ Alike(to, tabs[active])
    <2>1. to \in TabState
      BY <1>2 DEF TabState
    <2> QED  BY <1>2, <2>1 DEF Alike, TabState
  <1>5. tabs' = [tabs EXCEPT ![active] = to] /\ Input
        /\ UNCHANGED <<active, keepSelection, pendingSelect, jobs, results, watch, disk, touched>>
    BY <1>1, <1>3 DEF Select
  <1> HIDE DEF to
  <1>6. tabs' \in [Tabs -> TabState] /\ \A t \in Tabs : Alike(tabs'[t], tabs[t])
    BY <1>1, <1>4, <1>5 DEF Alike
  <1>7. inputs' \in 0 .. MaxInputs
    BY <1>1, <1>5, InputTyped
  <1>8. TypeOK'
    BY <1>1, <1>5, <1>6, <1>7 DEF TypeOK, TabState
  <1> QED  BY <1>5, <1>6, <1>8, RestKeeps

(* Another tab becomes the active one. *)
LEMMA SwitchTabKeeps == ASSUME ListingInv, NEW t \in Tabs, SwitchTab(t) PROVE ListingInv'
  <1>1. TypeOK
    BY DEF ListingInv
  <1>2. inputs' \in 0 .. MaxInputs
    BY <1>1, InputTyped DEF SwitchTab
  <1>3. TypeOK'
    BY <1>1, <1>2 DEF TypeOK, SwitchTab
  <1>4. \A u \in Tabs : Alike(tabs'[u], tabs[u])
    BY DEF SwitchTab, Alike
  <1>5. UNCHANGED <<jobs, results, disk, touched>>
    BY DEF SwitchTab
  <1> QED  BY <1>3, <1>4, <1>5, RestKeeps

(* A file comes or goes while listings are read. *)
LEMMA DiskChangeKeeps ==
  ASSUME ListingInv, NEW n \in Names, DiskChange(n) PROVE ListingInv'
  <1>1. TypeOK
    BY DEF ListingInv
  <1>2. /\ disk' = SymDiff(disk, {n})
        /\ touched' = [t \in Tabs |-> touched[t] \cup {n}]
        /\ watch' = [t \in Tabs |-> IF watch[t].folder = InFolder[n]
                                    THEN [watch[t] EXCEPT !.state = Noticed(@)] ELSE watch[t]]
        /\ UNCHANGED <<tabs, active, keepSelection, pendingSelect, jobs, results>>
    BY DEF DiskChange, uiVars
  <1>3. inputs' \in 0 .. MaxInputs
    BY <1>1, InputTyped DEF DiskChange
  <1>4. disk' \subseteq Names /\ touched' \in [Tabs -> SUBSET Names]
    BY <1>1, <1>2 DEF TypeOK, SymDiff
  <1>5. watch' \in [Tabs -> [folder : Folders,
                             state : {"opened", "armed", "changed", "changed again"}]]
    <2> DEFINE W == [folder : Folders, state : {"opened", "armed", "changed", "changed again"}]
    <2>1. watch \in [Tabs -> W]
      BY <1>1 DEF TypeOK
    <2>2. \A w \in W : [w EXCEPT !.state = Noticed(w.state)] \in W
      BY DEF Noticed
    <2> HIDE DEF W
    <2>3. watch' \in [Tabs -> W]
      BY <1>2, <2>1, <2>2
    <2> QED  BY <2>3 DEF W
  <1>6. TypeOK'
    BY <1>1, <1>2, <1>3, <1>4, <1>5 DEF TypeOK
  <1>7. ASSUME NEW t \in Tabs
        PROVE  TabFits(t, tabs[t], jobs, results, SymDiff(disk, {n}), touched[t] \cup {n})
    <2>1. TabFits(t, tabs[t], jobs, results, disk, touched[t])
      BY DEF ListingInv
    <2> QED  BY <2>1, Touching
  <1>8. \A t \in Tabs : touched'[t] = touched[t] \cup {n}
    BY <1>2
  <1> QED  BY <1>2, <1>6, <1>7, <1>8 DEF ListingInv

(* A watcher's thread gets to wait for changes. *)
LEMMA WatcherArmsKeeps ==
  ASSUME ListingInv, NEW t \in Tabs, WatcherArms(t) PROVE ListingInv'
  <1>1. TypeOK
    BY DEF ListingInv
  <1>2. watch' \in [Tabs -> [folder : Folders,
                             state : {"opened", "armed", "changed", "changed again"}]]
    BY <1>1 DEF TypeOK, WatcherArms
  <1>3. UNCHANGED <<tabs, active, keepSelection, pendingSelect, jobs, results, disk, touched, inputs>>
    BY DEF WatcherArms, uiVars
  <1>4. TypeOK'
    BY <1>1, <1>2, <1>3 DEF TypeOK
  <1>5. \A u \in Tabs : Alike(tabs'[u], tabs[u])
    BY <1>3 DEF Alike
  <1> QED  BY <1>3, <1>4, <1>5, RestKeeps


(* What is not newer than its tab stays so; answers are as old as their job. *)
LEMMA NoneNewer ==
  ASSUME NEW tb, NEW js, NEW js2, NEW rs, NEW rs2, NotNewer(tb, js, rs),
         \A k \in DOMAIN js2 : \E l \in DOMAIN js : js2[k].tab = js[l].tab /\ js2[k].gen = js[l].gen,
         \A k \in DOMAIN rs2 : rs2[k].kind # "changed" =>
           \/ \E l \in DOMAIN rs : rs2[k] = rs[l]
           \/ \E l \in DOMAIN js : rs2[k].tab = js[l].tab /\ rs2[k].gen = js[l].gen
  PROVE  NotNewer(tb, js2, rs2)
  BY DEF NotNewer

(* The elements of a sequence with one more at the end. *)
LEMMA Appended ==
  ASSUME NEW S, NEW s \in Seq(S), NEW e \in S
  PROVE  /\ Append(s, e) \in Seq(S) /\ Len(s) \in Nat
         /\ DOMAIN s = 1 .. Len(s) /\ DOMAIN Append(s, e) = 1 .. Len(s) + 1
         /\ \A k \in DOMAIN Append(s, e) : (k \in DOMAIN s /\ Append(s, e)[k] = s[k])
                                            \/ Append(s, e)[k] = e
  <1>1. /\ Append(s, e) \in Seq(S) /\ Len(Append(s, e)) = Len(s) + 1
        /\ \A i \in 1 .. Len(s) : Append(s, e)[i] = s[i]
        /\ Append(s, e)[Len(s) + 1] = e
    BY AppendProperties
  <1>2. /\ Len(s) \in Nat /\ DOMAIN s = 1 .. Len(s)
        /\ DOMAIN Append(s, e) = 1 .. Len(Append(s, e))
    BY <1>1, LenProperties
  <1>3. ASSUME NEW k \in 1 .. Len(s) + 1
        PROVE  (k \in 1 .. Len(s) /\ Append(s, e)[k] = s[k]) \/ Append(s, e)[k] = e
    <2>1. k \in 1 .. Len(s) \/ k = Len(s) + 1
      BY <1>2
    <2> QED  BY <1>1, <2>1
  <1> QED  BY <1>1, <1>2, <1>3

(* A watcher reports a change. *)
LEMMA WatcherFiresKeeps ==
  ASSUME ListingInv, NEW t \in Tabs, WatcherFires(t) PROVE ListingInv'
  <1> DEFINE m == [kind |-> "changed", tab |-> t]
  <1>1. TypeOK /\ results \in Seq(Messages) /\ jobs \in Seq(Jobs)
        /\ NotNewer(tabs, jobs, results)
    BY DEF ListingInv, TypeOK
  <1>2. results' = Append(results, m)
        /\ UNCHANGED <<tabs, active, keepSelection, pendingSelect, jobs, disk, touched, inputs>>
    BY DEF WatcherFires, uiVars
  <1>3. m \in Messages /\ m.kind = "changed"
    BY DEF Messages
  <1> HIDE DEF m
  <1>4. /\ results' \in Seq(Messages) /\ DOMAIN results \subseteq Int /\ DOMAIN results' \subseteq Int
        /\ \A k \in DOMAIN results' : (k \in DOMAIN results /\ results'[k] = results[k]) \/ results'[k] = m
    <2>1. /\ Append(results, m) \in Seq(Messages) /\ Len(results) \in Nat
          /\ DOMAIN results = 1 .. Len(results)
          /\ DOMAIN Append(results, m) = 1 .. Len(results) + 1
          /\ \A k \in DOMAIN Append(results, m) :
               (k \in DOMAIN results /\ Append(results, m)[k] = results[k]) \/ Append(results, m)[k] = m
      BY <1>1, <1>3, Appended
    <2> QED  BY <1>2, <2>1
  <1>5. NotNewer(tabs, jobs, results')
    BY <1>1, <1>3, <1>4, NoneNewer
  <1>6. watch' \in [Tabs -> [folder : Folders,
                             state : {"opened", "armed", "changed", "changed again"}]]
    <2> DEFINE W == [folder : Folders,
                     state : {"opened", "armed", "changed", "changed again"}]
               v == [watch[t] EXCEPT !.state = IF @ = "changed" THEN "armed" ELSE "changed"]
    <2>1. watch \in [Tabs -> W]
      BY <1>1 DEF TypeOK
    <2>2. v \in W
      BY <2>1
    <2>3. watch' = [watch EXCEPT ![t] = v]
      BY DEF WatcherFires
    <2> HIDE DEF v, W
    <2>4. watch' \in [Tabs -> W]
      BY <2>1, <2>2, <2>3
    <2> QED  BY <2>4 DEF W
  <1>7. TypeOK'
    BY <1>1, <1>2, <1>4, <1>6 DEF TypeOK
  <1>8. ASSUME NEW u \in Tabs PROVE TabFits(u, tabs[u], jobs, results', disk, touched[u])
    <2> DEFINE g == tabs[u].generation
    <2>1. ~IsFor(m, u, g)
      BY <1>3 DEF IsFor
    <2>2. Same(results, results', u, g) /\ Same(jobs, jobs, u, g)
      <3> HIDE DEF g
      <3> QED  BY <1>1, <1>2, <1>3, <2>1, SameAppend, SameSelf
    <2>3. DOMAIN jobs \subseteq Int
      BY <1>1, LenProperties
    <2>4. TabFits(u, tabs[u], jobs, results, disk, touched[u])
      BY DEF ListingInv
    <2> QED  BY <1>4, <2>2, <2>3, <2>4, SameFits
  <1> QED  BY <1>2, <1>5, <1>7, <1>8 DEF ListingInv

(* A job ends with an answer: a last batch, or the view it made. *)
LEMMA FinishedKeeps ==
  ASSUME ListingInv, NEW k \in DOMAIN jobs, NEW m \in Messages,
         results' = Append(results, m), Finished(k),
         m.kind \in {"batch", "view"}, m.tab = jobs[k].tab, m.gen = jobs[k].gen,
         \A t \in Tabs : IsFor(m, t, tabs[t].generation) <=> IsFor(jobs[k], t, tabs[t].generation),
         \A t \in Tabs : IsFor(m, t, tabs[t].generation) =>
           /\ m.names = <<>> /\ m.done = TRUE
           /\ ~m.error => \A n \in disk : InFolder[n] = jobs[k].folder => n <= jobs[k].last,
         UNCHANGED <<tabs, active, keepSelection, pendingSelect, watch, disk, touched>>,
         inputs' \in 0 .. MaxInputs
  PROVE  ListingInv'
  <1>1. TypeOK /\ results \in Seq(Messages) /\ jobs \in Seq(Jobs) /\ tabs \in [Tabs -> TabState]
        /\ NotNewer(tabs, jobs, results)
    BY Typed DEF ListingInv, TypeOK
  <1>2. jobs' = RemoveAt(jobs, k)
    BY DEF Finished
  <1>3. /\ results' \in Seq(Messages) /\ DOMAIN results \subseteq Int /\ DOMAIN results' \subseteq Int
        /\ \A i \in DOMAIN results' : (i \in DOMAIN results /\ results'[i] = results[i]) \/ results'[i] = m
    <2>1. /\ Append(results, m) \in Seq(Messages) /\ Len(results) \in Nat
          /\ DOMAIN results = 1 .. Len(results)
          /\ DOMAIN Append(results, m) = 1 .. Len(results) + 1
          /\ \A i \in DOMAIN Append(results, m) :
               (i \in DOMAIN results /\ Append(results, m)[i] = results[i]) \/ Append(results, m)[i] = m
      BY <1>1, Appended
    <2> QED  BY <2>1
  <1>4. /\ Len(jobs) \in Nat /\ DOMAIN jobs = 1 .. Len(jobs) /\ k \in 1 .. Len(jobs)
    BY <1>1, LenProperties
  <1>5. /\ jobs' \in Seq(Jobs) /\ DOMAIN jobs' = 1 .. Len(jobs) - 1
        /\ \A i \in DOMAIN jobs' : \E l \in DOMAIN jobs : jobs'[i] = jobs[l]
    <2>1. /\ RemoveAt(jobs, k) \in Seq(Jobs) /\ Len(RemoveAt(jobs, k)) = Len(jobs) - 1
          /\ \A i \in 1 .. Len(jobs) - 1 : RemoveAt(jobs, k)[i] = jobs[IF i < k THEN i ELSE i + 1]
      BY <1>1, <1>4, Removed
    <2>2. DOMAIN RemoveAt(jobs, k) = 1 .. Len(jobs) - 1
      BY <2>1, LenProperties
    <2>3. \A i \in 1 .. Len(jobs) - 1 : (IF i < k THEN i ELSE i + 1) \in 1 .. Len(jobs)
      BY <1>4
    <2> QED  BY <1>2, <1>4, <2>1, <2>2, <2>3
  <1>6. NotNewer(tabs, jobs', results')
    <2>1. \A i \in DOMAIN jobs' :
            \E l \in DOMAIN jobs : jobs'[i].tab = jobs[l].tab /\ jobs'[i].gen = jobs[l].gen
      BY <1>5
    <2>2. ASSUME NEW i \in DOMAIN results'
          PROVE  \/ \E l \in DOMAIN results : results'[i] = results[l]
                 \/ \E l \in DOMAIN jobs : results'[i].tab = jobs[l].tab /\ results'[i].gen = jobs[l].gen
      <3>1. CASE i \in DOMAIN results /\ results'[i] = results[i]
        BY <3>1
      <3>2. CASE results'[i] = m
        BY <3>2
      <3> QED  BY <1>3, <3>1, <3>2
    <2>3. NotNewer(tabs, jobs, results)
      BY <1>1
    <2> HIDE DEF NotNewer
    <2> QED  BY ONLY <2>1, <2>2, <2>3, NoneNewer
  <1>7. TypeOK'
    BY <1>1, <1>3, <1>5 DEF TypeOK
  <1>8. ASSUME NEW t \in Tabs PROVE TabFits(t, tabs[t], jobs', results', disk, touched[t])
    <2>1. TabFits(t, tabs[t], jobs, results, disk, touched[t]) /\ tabs[t] \in TabState
      BY <1>1 DEF ListingInv
    <2>2. CASE IsFor(jobs[k], t, tabs[t].generation)
      <3>1. TabFits(t, tabs[t], RemoveAt(jobs, k), Append(results, m), disk, touched[t])
        <4>1. /\ IsFor(m, t, tabs[t].generation) /\ m.names = <<>> /\ m.done = TRUE
              /\ ~m.error => \A n \in disk : InFolder[n] = jobs[k].folder => n <= jobs[k].last
          BY <2>2
        <4> QED  BY <1>1, <1>4, <2>1, <2>2, <4>1, LastSent
      <3> QED  BY <1>2, <3>1
    <2>3. CASE ~IsFor(jobs[k], t, tabs[t].generation)
      <3> DEFINE g == tabs[t].generation
      <3>1. ~IsFor(m, t, g) /\ ~IsFor(jobs[k], t, g)
        BY <2>3
      <3>2. Same(results, results', t, g)
        <4> HIDE DEF g
        <4> QED  BY <1>1, <3>1, SameAppend
      <3>3. Same(jobs, jobs', t, g)
        <4> HIDE DEF g
        <4> QED  BY <1>1, <1>2, <1>4, <3>1, SameRemove
      <3>4. DOMAIN jobs \subseteq Int /\ DOMAIN jobs' \subseteq Int
        BY <1>4, <1>5
      <3> QED  BY <1>3, <2>1, <3>2, <3>3, <3>4, SameFits
    <2> QED  BY <2>2, <2>3
  <1> QED  BY <1>6, <1>7, <1>8 DEF ListingInv

(* A reading job ends, at the end of the folder or before it. *)
LEMMA ReadEndKeeps ==
  ASSUME ListingInv, NEW k \in DOMAIN jobs, ReadDone(k) \/ ReadFails(k) PROVE ListingInv'
  <1>1. TypeOK /\ jobs \in Seq(Jobs) /\ disk \subseteq Names
    BY DEF ListingInv, TypeOK
  <1>2. jobs[k] \in Jobs /\ jobs[k].kind = "read"
    BY <1>1, LenProperties, ElementOfSeq DEF ReadDone, ReadFails, InHand
  <1>3. jobs[k].tab \in Tabs /\ jobs[k].gen \in Nat
    BY <1>2 DEF Jobs
  <1>4. jobs[k].last \in Int
    BY <1>2, JobFor DEF IsFor
  <1>5. PICK error \in BOOLEAN :
          /\ results' = Append(results, Batch(jobs[k], <<>>, TRUE, error))
          /\ ~error => Unread(jobs[k]) = {}
    BY DEF ReadDone, ReadFails
  <1> DEFINE m == Batch(jobs[k], <<>>, TRUE, error)
  <1>6. /\ m \in Messages /\ m.kind = "batch" /\ m.tab = jobs[k].tab /\ m.gen = jobs[k].gen
        /\ m.names = <<>> /\ m.done = TRUE /\ m.error = error
    <2>1. <<>> \in Seq(Names)
      OBVIOUS
    <2> QED  BY <1>3, <2>1 DEF Batch, Messages
  <1> HIDE DEF m
  <1>7. \A t \in Tabs : IsFor(m, t, tabs[t].generation) <=> IsFor(jobs[k], t, tabs[t].generation)
    BY <1>2, <1>6 DEF IsFor
  <1>8. ~m.error => \A n \in disk : InFolder[n] = jobs[k].folder => n <= jobs[k].last
    <2> SUFFICES ASSUME ~error, NEW n \in disk, InFolder[n] = jobs[k].folder
                 PROVE  n <= jobs[k].last
      BY <1>6
    <2>1. ~(n > jobs[k].last)
      BY <1>5 DEF Unread
    <2>2. Names \subseteq Int
      BY ListingAssumption
    <2>3. n \in Int
      BY <1>1, <2>2
    <2> QED  BY <1>4, <2>1, <2>3
  <1>9. results' = Append(results, m) /\ Finished(k)
        /\ UNCHANGED <<tabs, active, keepSelection, pendingSelect, watch, disk, touched>>
    BY <1>5 DEF ReadDone, ReadFails, uiVars, m
  <1>10. inputs' \in 0 .. MaxInputs
    <2>1. CASE ReadDone(k)
      BY <1>1, <2>1 DEF ReadDone, TypeOK
    <2>2. CASE ReadFails(k)
      BY <1>1, <2>2, InputTyped DEF ReadFails
    <2> QED  BY <2>1, <2>2
  <1>11. \A t \in Tabs : IsFor(m, t, tabs[t].generation) =>
           /\ m.names = <<>> /\ m.done = TRUE
           /\ ~m.error => \A n \in disk : InFolder[n] = jobs[k].folder => n <= jobs[k].last
    BY <1>6, <1>8
  <1> QED  BY <1>6, <1>7, <1>9, <1>10, <1>11, FinishedKeeps

(* A view is sent. *)
LEMMA SendViewKeeps ==
  ASSUME ListingInv, NEW k \in DOMAIN jobs, SendView(k) PROVE ListingInv'
  <1>1. TypeOK /\ jobs \in Seq(Jobs)
    BY DEF ListingInv, TypeOK
  <1>2. jobs[k] \in Jobs /\ jobs[k].kind = "view"
    BY <1>1, LenProperties, ElementOfSeq DEF SendView, InHand
  <1>3. jobs[k] \in Messages
    BY <1>2 DEF Jobs, Messages
  <1>4. \A t \in Tabs : ~IsFor(jobs[k], t, tabs[t].generation)
    BY <1>2 DEF IsFor
  <1>5. results' = Append(results, jobs[k]) /\ Finished(k)
        /\ UNCHANGED <<tabs, active, keepSelection, pendingSelect, watch, disk, touched, inputs>>
    BY DEF SendView, uiVars
  <1>6. inputs' \in 0 .. MaxInputs
    BY <1>1, <1>5 DEF TypeOK
  <1> DEFINE m == jobs[k]
  <1>7. /\ m \in Messages /\ results' = Append(results, m) /\ m.kind \in {"batch", "view"}
        /\ m.tab = jobs[k].tab /\ m.gen = jobs[k].gen
    BY <1>2, <1>3, <1>5
  <1> QED  BY <1>4, <1>5, <1>6, <1>7, FinishedKeeps

(* The next batch of a listing: what has not been read yet, in order, as far *)
(* as a batch goes.                                                         *)
NextBatch(j) == SubSeq(InOrder(Unread(j)), 1, Min({BatchSize, Len(InOrder(Unread(j)))}))

(* A batch holds all there is after the last name read, up to its own last. *)
LEMMA BatchFacts ==
  ASSUME NEW j, j.last \in Int, disk \subseteq Names, Unread(j) # {}
  PROVE  /\ NextBatch(j) \in Seq(Names) /\ Last(NextBatch(j)) \in Names
         /\ ListingOf(j.folder, NextBatch(j))
         /\ Holds(NextBatch(j), Last(NextBatch(j))) /\ UpTo(NextBatch(j), Last(NextBatch(j)))
         /\ \A n : Holds(NextBatch(j), n) => n \in disk /\ j.last < n
         /\ \A n \in disk : InFolder[n] = j.folder /\ j.last < n /\ n <= Last(NextBatch(j))
                              => Holds(NextBatch(j), n)
  <1> DEFINE U == Unread(j)
             N == Cardinality(U)
             names == InOrder(U)
             size == Min({BatchSize, N})
             batch == SubSeq(names, 1, size)
  <1>1. Names \subseteq Nat /\ IsFiniteSet(Names) /\ BatchSize \in Nat \ {0}
    BY ListingAssumption
  <1>2. U \subseteq Names /\ U \subseteq disk /\ U # {}
    BY DEF Unread
  <1>3. U \in SUBSET Nat /\ IsFiniteSet(U)
    BY <1>1, <1>2, FS_Subset
  <1>4. \A n \in U : InFolder[n] = j.folder /\ j.last < n
    <2>1. \A n \in U : n \in Int /\ n > j.last /\ InFolder[n] = j.folder
      BY <1>3 DEF Unread
    <2> QED  BY <2>1
  <1>5. \A n \in disk : InFolder[n] = j.folder /\ j.last < n => n \in U
    <2>1. \A n \in disk : n \in Int
      BY <1>1
    <2> QED  BY <2>1 DEF Unread
  <1> HIDE DEF U
  <1>6. /\ N \in Nat /\ names \in [1 .. N -> U] /\ Increasing(names, N)
        /\ \A x \in U : \E k \in 1 .. N : names[k] = x
    BY <1>3, InOrderFacts
  <1> HIDE DEF N, names
  <1>7. names \in Seq(U) /\ Len(names) = N
    BY <1>6
  <1>8. N # 0
    <2>1. PICK x \in U : TRUE
      BY <1>2
    <2> QED  BY <1>6, <2>1
  <1>9. size \in 1 .. N
    <2>1. \E x \in {BatchSize, N} : \A y \in {BatchSize, N} : x <= y
      BY <1>1, <1>6
    <2>2. size \in {BatchSize, N} /\ \A y \in {BatchSize, N} : size <= y
      BY <2>1 DEF Min
    <2> QED  BY <1>1, <1>6, <1>8, <2>2
  <1>10. NextBatch(j) = batch
    BY <1>7 DEF NextBatch, U, names
  <1> HIDE DEF size
  <1>11. /\ batch \in Seq(U) /\ Len(batch) = size
         /\ \A i \in 1 .. size : batch[i] = names[i]
    <2>1. \A i \in 1 .. size : i \in 1 .. Len(names) /\ 1 + i - 1 = i
      BY <1>6, <1>7, <1>9
    <2>2. size - 1 + 1 = size
      BY <1>6, <1>9
    <2>3. /\ batch \in Seq(U)
          /\ Len(batch) = IF 1 <= size THEN size - 1 + 1 ELSE 0
          /\ \A i \in 1 .. size - 1 + 1 : batch[i] = names[1 + i - 1]
      BY <1>6, <1>7, <1>9, <2>1, SubSeqProperties
    <2> QED  BY <1>6, <1>9, <2>1, <2>2, <2>3
  <1> HIDE DEF batch
  <1>12. DOMAIN batch = 1 .. size /\ size \in Nat
    BY <1>6, <1>9, <1>11, LenProperties
  <1>13. \A i \in 1 .. size : batch[i] \in U
    BY <1>11, ElementOfSeq
  <1>22. U \subseteq Int
    BY <1>3
  <1>21. \A i \in 1 .. size : batch[i] \in Int
    BY <1>13, <1>22
  <1>14. Last(batch) = batch[size] /\ Last(batch) = names[size] /\ size \in 1 .. size
    BY <1>6, <1>9, <1>11 DEF Last
  <1>15. batch \in Seq(Names) /\ Last(batch) \in Names
    <2>1. \A i \in 1 .. size : batch[i] \in Names
      BY <1>2, <1>13
    <2> QED  BY <1>11, <1>12, <1>14, <2>1
  <1>16. \A i, k \in 1 .. N : i < k => names[i] < names[k]
    BY <1>6 DEF Increasing
  <1>17. ListingOf(j.folder, batch)
    <2>1. \A i, k \in 1 .. size : i < k => batch[i] < batch[k]
      BY <1>6, <1>9, <1>11, <1>16
    <2> QED  BY <1>4, <1>12, <1>13, <2>1 DEF ListingOf
  <1>18. Holds(batch, Last(batch)) /\ UpTo(batch, Last(batch))
    <2>1. ASSUME NEW i \in 1 .. size PROVE batch[i] <= batch[size]
      <3>1. CASE i = size
        <4>1. batch[size] \in Int
          BY <1>14, <1>21
        <4> QED  BY <3>1, <4>1
      <3>2. CASE i # size
        <4>1. i < size
          BY <1>12, <3>2
        <4>2. batch[i] < batch[size]
          BY <1>12, <1>14, <1>17, <4>1 DEF ListingOf
        <4>3. batch[i] \in Int /\ batch[size] \in Int
          BY <1>14, <1>21
        <4> QED  BY <4>2, <4>3
      <3> QED  BY <3>1, <3>2
    <2> QED  BY <1>12, <1>14, <2>1 DEF Holds, UpTo
  <1>19. ASSUME NEW n, Holds(batch, n) PROVE n \in disk /\ j.last < n
    <2>1. n \in U
      BY <1>12, <1>13, <1>19 DEF Holds
    <2> QED  BY <1>2, <1>4, <2>1
  <1>20. ASSUME NEW n \in disk, InFolder[n] = j.folder, j.last < n, n <= Last(batch)
         PROVE  Holds(batch, n)
    <2>1. n \in U
      BY <1>5, <1>20
    <2>2. PICK k \in 1 .. N : names[k] = n
      BY <1>6, <2>1
    <2>3. ~(size < k)
      <3>1. size < k => names[size] < names[k]
        BY <1>9, <1>16
      <3>2. names[size] \in Int /\ names[k] \in Int
        <4>1. names[size] \in U /\ names[k] \in U
          BY <1>6, <1>9
        <4> QED  BY <1>22, <4>1
      <3> QED  BY <1>14, <1>20, <2>2, <3>1, <3>2
    <2>4. k \in 1 .. size
      BY <1>6, <1>9, <2>3
    <2> QED  BY <1>11, <1>12, <2>2, <2>4 DEF Holds
  <1> QED  BY <1>10, <1>15, <1>17, <1>18, <1>19, <1>20

(* A reading job sends a batch and goes on after it. *)
LEMMA ReadBatchKeeps ==
  ASSUME ListingInv, NEW k \in DOMAIN jobs, ReadBatch(k) PROVE ListingInv'
  <1>1. /\ TypeOK /\ results \in Seq(Messages) /\ jobs \in Seq(Jobs)
        /\ tabs \in [Tabs -> TabState] /\ disk \subseteq Names
        /\ NotNewer(tabs, jobs, results)
    BY Typed DEF ListingInv, TypeOK
  <1>2. jobs[k] \in Jobs /\ jobs[k].kind = "read"
    BY <1>1, LenProperties, ElementOfSeq DEF ReadBatch, InHand
  <1>3. /\ jobs[k] \in [kind : {"read"}, tab : Tabs, gen : Nat, folder : Folders,
                        last : Names \cup {-1}]
        /\ jobs[k].last \in Int
    BY <1>2, JobFor DEF Jobs, IsFor
  <1> DEFINE batch == NextBatch(jobs[k])
             m == Batch(jobs[k], batch, FALSE, FALSE)
             j2 == [jobs[k] EXCEPT !.last = Last(batch)]
  <1>4. /\ batch \in Seq(Names) /\ Last(batch) \in Names
        /\ ListingOf(jobs[k].folder, batch)
        /\ Holds(batch, Last(batch)) /\ UpTo(batch, Last(batch))
        /\ \A n : Holds(batch, n) => n \in disk /\ jobs[k].last < n
        /\ \A n \in disk : InFolder[n] = jobs[k].folder /\ jobs[k].last < n /\ n <= Last(batch)
                             => Holds(batch, n)
    <2>1. Unread(jobs[k]) # {}
      BY DEF ReadBatch
    <2> QED  BY <1>1, <1>3, <2>1, BatchFacts
  <1>5. /\ results' = Append(results, m) /\ jobs' = [jobs EXCEPT ![k] = j2]
        /\ UNCHANGED <<tabs, active, keepSelection, pendingSelect, watch, disk, touched, inputs>>
    BY DEF ReadBatch, NextBatch, uiVars
  <1> HIDE DEF batch
  <1>6. /\ m \in Messages /\ m.kind = "batch" /\ m.tab = jobs[k].tab /\ m.gen = jobs[k].gen
        /\ m.names = batch /\ m.done = FALSE
    BY <1>3, <1>4 DEF Batch, Messages
  <1>7. /\ j2 \in Jobs /\ j2.kind = "read" /\ j2.tab = jobs[k].tab /\ j2.gen = jobs[k].gen
        /\ j2.folder = jobs[k].folder /\ j2.last = Last(batch)
    BY <1>3, <1>4 DEF Jobs
  <1> HIDE DEF m, j2
  <1>8. /\ results' \in Seq(Messages) /\ DOMAIN results \subseteq Int /\ DOMAIN results' \subseteq Int
        /\ \A i \in DOMAIN results' : (i \in DOMAIN results /\ results'[i] = results[i]) \/ results'[i] = m
    <2>1. /\ Append(results, m) \in Seq(Messages) /\ Len(results) \in Nat
          /\ DOMAIN results = 1 .. Len(results)
          /\ DOMAIN Append(results, m) = 1 .. Len(results) + 1
          /\ \A i \in DOMAIN Append(results, m) :
               (i \in DOMAIN results /\ Append(results, m)[i] = results[i]) \/ Append(results, m)[i] = m
      BY <1>1, <1>6, Appended
    <2> QED  BY <1>5, <2>1
  <1>9. /\ Len(jobs) \in Nat /\ DOMAIN jobs = 1 .. Len(jobs) /\ k \in 1 .. Len(jobs)
    BY <1>1, LenProperties
  <1>10. /\ jobs' \in Seq(Jobs) /\ DOMAIN jobs' = 1 .. Len(jobs)
         /\ \A i \in DOMAIN jobs' : jobs'[i] = IF i = k THEN j2 ELSE jobs[i]
    <2>1. \A i \in 1 .. Len(jobs) : jobs[i] \in Jobs
      BY <1>1, ElementOfSeq
    <2>2. /\ jobs' \in [1 .. Len(jobs) -> Jobs] /\ DOMAIN jobs' = 1 .. Len(jobs)
          /\ \A i \in DOMAIN jobs' : jobs'[i] = IF i = k THEN j2 ELSE jobs[i]
      BY <1>5, <1>7, <1>9, <2>1
    <2> QED  BY <1>9, <2>2
  <1>11. NotNewer(tabs, jobs', results')
    <2>1. \A i \in DOMAIN jobs' :
            \E l \in DOMAIN jobs : jobs'[i].tab = jobs[l].tab /\ jobs'[i].gen = jobs[l].gen
      BY <1>7, <1>9, <1>10
    <2>2. ASSUME NEW i \in DOMAIN results'
          PROVE  \/ \E l \in DOMAIN results : results'[i] = results[l]
                 \/ \E l \in DOMAIN jobs : results'[i].tab = jobs[l].tab /\ results'[i].gen = jobs[l].gen
      <3>1. CASE i \in DOMAIN results /\ results'[i] = results[i]
        BY <3>1
      <3>2. CASE results'[i] = m
        BY <1>6, <3>2
      <3> QED  BY <1>8, <3>1, <3>2
    <2>3. NotNewer(tabs, jobs, results)
      BY <1>1
    <2> QED  BY ONLY <2>1, <2>2, <2>3, NoneNewer
  <1>12. TypeOK'
    BY <1>1, <1>5, <1>8, <1>10 DEF TypeOK
  <1>13. ASSUME NEW t \in Tabs PROVE TabFits(t, tabs[t], jobs', results', disk, touched[t])
    <2>1. TabFits(t, tabs[t], jobs, results, disk, touched[t]) /\ tabs[t] \in TabState
      BY <1>1 DEF ListingInv
    <2> DEFINE g == tabs[t].generation
    <2>2. /\ IsFor(m, t, g) <=> IsFor(jobs[k], t, g)
          /\ IsFor(j2, t, g) <=> IsFor(jobs[k], t, g)
      BY <1>2, <1>6, <1>7 DEF IsFor
    <2>3. CASE IsFor(jobs[k], t, g)
      <3>1. IsFor(m, t, g) /\ IsFor(j2, t, g)
        BY <2>2, <2>3
      <3>2. /\ Holds(batch, j2.last) /\ UpTo(batch, j2.last)
            /\ \A n \in disk : InFolder[n] = jobs[k].folder /\ jobs[k].last < n /\ n <= j2.last
                                 => Holds(batch, n)
        BY <1>4, <1>7
      <3>3. TabFits(t, tabs[t], [jobs EXCEPT ![k] = j2], Append(results, m), disk, touched[t])
        BY <1>1, <1>4, <1>6, <1>7, <1>9, <2>1, <2>3, <3>1, <3>2, BatchSent
      <3> QED  BY <1>5, <3>3
    <2>4. CASE ~IsFor(jobs[k], t, g)
      <3>1. ~IsFor(m, t, g) /\ ~IsFor(j2, t, g)
        BY <2>2, <2>4
      <3> HIDE DEF g
      <3>2. Same(results, results', t, g)
        BY <1>1, <1>5, <1>6, <3>1, SameAppend
      <3>3. Same(jobs, jobs', t, g)
        BY <1>1, <1>5, <1>7, <1>9, <2>4, <3>1, SameExcept
      <3>4. DOMAIN jobs \subseteq Int /\ DOMAIN jobs' \subseteq Int
        BY <1>9, <1>10
      <3> QED  BY <1>8, <2>1, <3>2, <3>3, <3>4, SameFits DEF g
    <2> QED  BY <2>3, <2>4
  <1> QED  BY <1>5, <1>11, <1>12, <1>13 DEF ListingInv


------------------------------------------------------------------------------
(* handle_msg.                                                              *)

(* What handle_msg takes from the channel. *)
LEMMA TakenTyped ==
  ASSUME ListingInv, NEW kind, Takes(kind)
  PROVE  /\ TypeOK /\ tabs \in [Tabs -> TabState] /\ jobs \in Seq(Jobs) /\ results \in Seq(Messages)
         /\ results # <<>> /\ results' = Tail(results) /\ results' \in Seq(Messages)
         /\ Head(results) \in Messages /\ Head(results).kind = kind
         /\ Head(results).tab \in Tabs
  <1>1. TypeOK /\ tabs \in [Tabs -> TabState] /\ jobs \in Seq(Jobs) /\ results \in Seq(Messages)
    BY Typed DEF ListingInv, TypeOK
  <1>2. results # <<>> /\ results' = Tail(results) /\ Head(results).kind = kind
    BY DEF Takes
  <1>3. Tail(results) \in Seq(Messages) /\ Head(results) \in Messages
    BY <1>1, <1>2, HeadTailProperties
  <1>4. Head(results).tab \in Tabs
    BY <1>3 DEF Messages
  <1> QED  BY <1>1, <1>2, <1>3, <1>4

(* A message about none of the latest requests, with the tabs changed only  *)
(* where the invariant does not look.                                       *)
LEMMA OtherKeeps ==
  ASSUME ListingInv, NEW kind, Takes(kind), TypeOK',
         \A t \in Tabs : ~IsFor(Head(results), t, tabs[t].generation),
         UNCHANGED <<jobs, disk, touched>>, \A t \in Tabs : Alike(tabs'[t], tabs[t])
  PROVE  ListingInv'
  <1>1. jobs \in Seq(Jobs) /\ results \in Seq(Messages) /\ results # <<>> /\ results' = Tail(results)
    BY TakenTyped
  <1>2. tabs' \in [Tabs -> TabState]
    BY DEF TypeOK, TabState
  <1>3. /\ NotNewer(tabs', jobs, results)
        /\ \A t \in Tabs : TabFits(t, tabs'[t], jobs, results, disk, touched[t])
    BY <1>2, AlikeFits
  <1>4. \A t \in Tabs : ~IsFor(Head(results), t, tabs'[t].generation)
    BY DEF Alike
  <1> DEFINE tb == tabs'
  <1> HIDE DEF tb
  <1>5. /\ NotNewer(tb, jobs, Tail(results))
        /\ \A t \in Tabs : TabFits(t, tb[t], jobs, Tail(results), disk, touched[t])
    <2>1. /\ NotNewer(tb, jobs, results)
          /\ \A t \in Tabs : /\ TabFits(t, tb[t], jobs, results, disk, touched[t])
                             /\ ~IsFor(Head(results), t, tb[t].generation)
      BY <1>3, <1>4 DEF tb
    <2> QED  BY ONLY <1>1, <2>1, Taking
  <1> QED  BY <1>1, <1>5 DEF ListingInv, tb

(* An answer to an older request is dropped. *)
LEMMA OnStaleKeeps == ASSUME ListingInv, OnStale PROVE ListingInv'
  <1>1. PICK kind \in {"batch", "view"} : Takes(kind)
    BY DEF OnStale
  <1>2. TypeOK /\ results' \in Seq(Messages)
    BY <1>1, TakenTyped
  <1>3. UNCHANGED <<tabs, active, keepSelection, pendingSelect, jobs, watch, disk, touched, inputs>>
    BY DEF OnStale, uiVars
  <1>4. TypeOK'
    BY <1>2, <1>3 DEF TypeOK
  <1>5. \A t \in Tabs : ~IsFor(Head(results), t, tabs[t].generation)
    BY DEF OnStale, Current, IsFor
  <1>6. \A t \in Tabs : Alike(tabs'[t], tabs[t])
    BY <1>3 DEF Alike
  <1> QED  BY <1>1, <1>3, <1>4, <1>5, <1>6, OtherKeeps

(* A change that comes while the tab loads is dropped. *)
LEMMA OnDirChangedLoadingKeeps == ASSUME ListingInv, OnDirChangedLoading PROVE ListingInv'
  <1>1. Takes("changed")
    BY DEF OnDirChangedLoading
  <1>2. TypeOK /\ results' \in Seq(Messages) /\ Head(results).kind = "changed"
    BY <1>1, TakenTyped
  <1>3. UNCHANGED <<tabs, active, keepSelection, pendingSelect, jobs, watch, disk, touched, inputs>>
    BY DEF OnDirChangedLoading, uiVars
  <1>4. TypeOK'
    BY <1>2, <1>3 DEF TypeOK
  <1>5. \A t \in Tabs : ~IsFor(Head(results), t, tabs[t].generation)
    BY <1>2 DEF IsFor
  <1>6. \A t \in Tabs : Alike(tabs'[t], tabs[t])
    BY <1>3 DEF Alike
  <1> QED  BY <1>1, <1>3, <1>4, <1>5, <1>6, OtherKeeps

(* A change is looked into. *)
LEMMA OnDirChangedKeeps == ASSUME ListingInv, OnDirChanged PROVE ListingInv'
  <1>1. Takes("changed")
    BY DEF OnDirChanged
  <1>2. /\ TypeOK /\ results # <<>> /\ results' = Tail(results)
        /\ Head(results).kind = "changed" /\ Head(results).tab \in Tabs
    BY <1>1, TakenTyped
  <1>3. RequestListing(tabs, {Head(results).tab}, TRUE)
        /\ UNCHANGED <<active, pendingSelect, disk, inputs>>
    BY DEF OnDirChanged
  <1>4. inputs' \in 0 .. MaxInputs
        /\ pendingSelect' \in [tab : Tabs, names : SUBSET Names] \cup {NoSelect}
    BY <1>2, <1>3 DEF TypeOK
  <1>5. {Head(results).tab} \in SUBSET Tabs
    BY <1>2
  <1> QED  BY <1>2, <1>3, <1>4, <1>5, AgainKeeps

(* A view is shown. *)
LEMMA OnViewKeeps == ASSUME ListingInv, OnView PROVE ListingInv'
  <1> DEFINE m == Head(results)
             t == m.tab
             r == [tabs[t] EXCEPT !.view = m.view]
             kept == {i \in DOMAIN r.entries : \E S \in keepSelection[t] : r.entries[i] \in S}
             seen == IF keepSelection[t] = {} THEN r ELSE [r EXCEPT !.selection = kept]
  <1>1. /\ Takes("view")
        /\ tabs' = [tabs EXCEPT ![t] = Selecting(t, seen)]
        /\ keepSelection' = [keepSelection EXCEPT ![t] = {}]
        /\ pendingSelect' = StillPending(t, seen)
        /\ UNCHANGED <<active, jobs, watch, disk, touched, inputs>>
    BY DEF OnView
  <1>2. /\ TypeOK /\ tabs \in [Tabs -> TabState] /\ results' \in Seq(Messages)
        /\ m \in Messages /\ m.kind = "view" /\ t \in Tabs
    BY <1>1, TakenTyped
  <1>3. m.view \in SUBSET (Nat \ {0})
    BY <1>2 DEF Messages
  <1>4. \A u \in Tabs : ~IsFor(m, u, tabs[u].generation)
    BY <1>2 DEF IsFor
  <1> HIDE DEF m, t
  <1>5. r \in TabState /\ Alike(r, tabs[t])
    <2>1. tabs[t] \in TabState
      BY <1>2
    <2>2. r \in TabState
      BY <1>3, <2>1 DEF TabState
    <2> QED  BY <2>1, <2>2 DEF TabState, Alike
  <1> HIDE DEF r
  <1>6. kept \in SUBSET (Nat \ {0})
    <2>1. r.entries \in Seq(Names)
      BY <1>5 DEF TabState
    <2>2. DOMAIN r.entries \subseteq Nat \ {0}
      BY <2>1, LenProperties
    <2> QED  BY <2>2
  <1> HIDE DEF kept
  <1>7. seen \in TabState /\ Alike(seen, tabs[t])
    <2>1. [r EXCEPT !.selection = kept] \in TabState
      BY <1>5, <1>6 DEF TabState
    <2>2. Alike([r EXCEPT !.selection = kept], r)
      BY <1>5, <2>1 DEF TabState, Alike
    <2> QED  BY <1>5, <2>1, <2>2 DEF Alike
  <1> HIDE DEF seen
  <1>8. /\ Selecting(t, seen) \in TabState /\ Alike(Selecting(t, seen), seen)
        /\ StillPending(t, seen) \in [tab : Tabs, names : SUBSET Names] \cup {NoSelect}
    BY <1>2, <1>7, SelectingFacts
  <1>9. tabs' \in [Tabs -> TabState] /\ \A u \in Tabs : Alike(tabs'[u], tabs[u])
    <2>1. \A u \in Tabs : tabs'[u] = IF u = t THEN Selecting(t, seen) ELSE tabs[u]
      BY <1>1, <1>2
    <2>2. Alike(Selecting(t, seen), tabs[t])
      BY <1>7, <1>8 DEF Alike
    <2>3. \A s : Alike(s, s)
      BY DEF Alike
    <2> QED  BY <1>1, <1>2, <1>8, <2>1, <2>2, <2>3
  <1>10. keepSelection' \in [Tabs -> SUBSET SUBSET Names]
    BY <1>1, <1>2 DEF TypeOK
  <1>11. TypeOK'
    BY <1>1, <1>2, <1>8, <1>9, <1>10 DEF TypeOK, TabState
  <1> QED  BY <1>1, <1>4, <1>9, <1>11, OtherKeeps DEF m

(* A batch for the latest request of tab t is taken, which brings t to r2.  *)
LEMMA AnswerTaken ==
  ASSUME ListingInv, Takes("batch"), Current(Head(results)), NEW r2 \in TabState,
         r2.generation = tabs[Head(results).tab].generation,
         TabFits(Head(results).tab, r2, jobs, Tail(results), disk, touched[Head(results).tab]),
         NEW tb \in [Tabs -> TabState], tb[Head(results).tab] = r2,
         \A t \in Tabs : t # Head(results).tab => tb[t] = tabs[t]
  PROVE  /\ NotNewer(tb, jobs, Tail(results))
         /\ \A t \in Tabs : TabFits(t, tb[t], jobs, Tail(results), disk, touched[t])
  <1>1. /\ TypeOK /\ tabs \in [Tabs -> TabState] /\ jobs \in Seq(Jobs) /\ results \in Seq(Messages)
        /\ results # <<>> /\ Tail(results) \in Seq(Messages)
        /\ Head(results) \in Messages /\ Head(results).kind = "batch"
        /\ Head(results).tab \in Tabs
    BY TakenTyped
  <1>2. NotNewer(tabs, jobs, results)
    BY DEF ListingInv
  <1>3. \A t \in Tabs : tb[t].generation = tabs[t].generation
    OBVIOUS
  <1>4. /\ Len(results) \in Nat /\ DOMAIN results = 1 .. Len(results)
        /\ DOMAIN Tail(results) = 1 .. Len(results) - 1 /\ DOMAIN jobs = 1 .. Len(jobs)
        /\ Len(jobs) \in Nat
        /\ \A i \in DOMAIN Tail(results) : Tail(results)[i] = results[i + 1]
    <2>1. /\ Len(Tail(results)) = Len(results) - 1
          /\ \A i \in 1 .. Len(Tail(results)) : Tail(results)[i] = results[i + 1]
      BY <1>1, HeadTailProperties
    <2>2. /\ Len(results) \in Nat /\ DOMAIN results = 1 .. Len(results)
          /\ DOMAIN Tail(results) = 1 .. Len(Tail(results))
          /\ DOMAIN jobs = 1 .. Len(jobs) /\ Len(jobs) \in Nat
      BY <1>1, LenProperties
    <2> QED  BY <2>1, <2>2
  <1>5. NotNewer(tb, jobs, Tail(results))
    <2>1. ASSUME NEW k \in DOMAIN jobs PROVE jobs[k].gen <= tb[jobs[k].tab].generation
      <3>1. jobs[k] \in Jobs
        BY <1>1, <1>4, ElementOfSeq
      <3>2. jobs[k].tab \in Tabs
        BY <3>1 DEF Jobs
      <3> QED  BY <1>2, <1>3, <3>2 DEF NotNewer
    <2>2. ASSUME NEW k \in DOMAIN Tail(results), Tail(results)[k].kind # "changed"
          PROVE  Tail(results)[k].gen <= tb[Tail(results)[k].tab].generation
      <3>1. k + 1 \in DOMAIN results /\ Tail(results)[k] = results[k + 1]
        BY <1>4
      <3>2. results[k + 1] \in Messages
        BY <1>1, <1>4, <3>1, ElementOfSeq
      <3>3. results[k + 1].tab \in Tabs
        BY <3>2 DEF Messages
      <3> QED  BY <1>2, <1>3, <2>2, <3>1, <3>3 DEF NotNewer
    <2> QED  BY <2>1, <2>2 DEF NotNewer
  <1>6. ASSUME NEW t \in Tabs PROVE TabFits(t, tb[t], jobs, Tail(results), disk, touched[t])
    <2>1. CASE t = Head(results).tab
      BY <2>1
    <2>2. CASE t # Head(results).tab
      <3> DEFINE g == tabs[t].generation
      <3>1. ~IsFor(Head(results), t, g)
        BY <2>2 DEF IsFor
      <3>2. TabFits(t, tabs[t], jobs, results, disk, touched[t])
        BY DEF ListingInv
      <3>3. DOMAIN jobs \subseteq Int /\ DOMAIN results \subseteq Int /\ DOMAIN Tail(results) \subseteq Int
        BY <1>4
      <3>4. Same(results, Tail(results), t, g) /\ Same(jobs, jobs, t, g)
        <4> HIDE DEF g
        <4> QED  BY <1>1, <3>1, SameTail, SameSelf
      <3>5. TabFits(t, tabs[t], jobs, Tail(results), disk, touched[t])
        BY <3>2, <3>3, <3>4, SameFits
      <3> QED  BY <2>2, <3>5
    <2> QED  BY <2>1, <2>2
  <1> QED  BY <1>5, <1>6

(* What is gathered, with a batch after it. *)
LEMMA RowsTyped ==
  ASSUME NEW r \in TabState, NEW s \in Seq(Names)
  PROVE  /\ r.pending \o s \in Seq(Names)
         /\ DOMAIN (r.pending \o s) \in SUBSET (Nat \ {0})
  <1>1. r.pending \in Seq(Names)
    BY DEF TabState
  <1>2. r.pending \o s \in Seq(Names)
    BY <1>1, ConcatProperties
  <1> QED  BY <1>2, LenProperties

(* A batch that is not the last. *)
LEMMA OnBatchKeeps == ASSUME ListingInv, OnBatch PROVE ListingInv'
  <1> DEFINE m == Head(results)
             t == m.tab
             r == tabs[t]
             all == r.pending \o m.names
             shown == [Shown(r, all, FALSE) EXCEPT !.pending = all]
             short == Len(all) <= Progressive
             to == IF short THEN Selecting(t, shown) ELSE [r EXCEPT !.pending = all]
  <1>1. /\ Takes("batch") /\ Current(m) /\ ~m.done
        /\ IF short THEN /\ tabs' = [tabs EXCEPT ![t] = Selecting(t, shown)]
                         /\ pendingSelect' = StillPending(t, shown)
           ELSE /\ tabs' = [tabs EXCEPT ![t].pending = all] /\ UNCHANGED pendingSelect
        /\ UNCHANGED <<active, keepSelection, jobs, watch, disk, touched, inputs>>
    BY DEF OnBatch
  <1>2. /\ TypeOK /\ tabs \in [Tabs -> TabState] /\ jobs \in Seq(Jobs) /\ results \in Seq(Messages)
        /\ results # <<>> /\ results' = Tail(results) /\ results' \in Seq(Messages)
        /\ m \in Messages /\ m.kind = "batch" /\ t \in Tabs
    BY <1>1, TakenTyped
  <1>3. IsFor(m, t, r.generation)
    BY <1>1, <1>2 DEF IsFor, Current
  <1>4. m.names \in Seq(Names)
    BY <1>2, <1>3, BatchFor
  <1>5. r \in TabState /\ TabFits(t, r, jobs, results, disk, touched[t])
    BY <1>2 DEF ListingInv
  <1>6. all \in Seq(Names) /\ DOMAIN all \in SUBSET (Nat \ {0})
    BY <1>4, <1>5, RowsTyped
  <1>7. tabs' = [tabs EXCEPT ![t] = to]
        /\ pendingSelect' = IF short THEN StillPending(t, shown) ELSE pendingSelect
    BY <1>1
  <1> HIDE DEF short, r
  <1>8. /\ shown \in TabState /\ shown.path = r.path /\ shown.generation = r.generation
        /\ shown.loading = r.loading /\ shown.pending = all /\ shown.folder = r.path
        /\ shown.entries = all
    <2> HIDE DEF all
    <2> QED  BY <1>5, <1>6 DEF Shown, TabState
  <1> HIDE DEF shown
  <1>9. /\ Selecting(t, shown) \in TabState /\ Alike(Selecting(t, shown), shown)
        /\ StillPending(t, shown) \in [tab : Tabs, names : SUBSET Names] \cup {NoSelect}
    BY <1>2, <1>8, SelectingFacts
  <1>10. /\ to \in TabState /\ to.path = r.path /\ to.generation = r.generation
         /\ to.loading = r.loading /\ to.pending = all
         /\ \/ to.folder = r.folder /\ to.entries = r.entries
            \/ to.folder = r.path /\ to.entries = to.pending
    <2>1. CASE short
      <3>1. to = Selecting(t, shown)
        BY <2>1
      <3> QED  BY <1>8, <1>9, <3>1 DEF Alike
    <2>2. CASE ~short
      <3>1. to = [r EXCEPT !.pending = all]
        BY <2>2
      <3> HIDE DEF all, to
      <3> QED  BY <1>5, <1>6, <3>1 DEF TabState
    <2> QED  BY <2>1, <2>2
  <1> HIDE DEF to
  <1>11. TabFits(t, to, jobs, Tail(results), disk, touched[t])
    <2>1. to.pending = r.pending \o Head(results).names
      BY <1>10
    <2>2. IsFor(Head(results), t, r.generation) /\ ~Head(results).done
      BY <1>1, <1>3
    <2> HIDE DEF m, t, all
    <2> QED  BY <1>2, <1>5, <1>10, <2>1, <2>2, Gathered
  <1>12. /\ tabs' \in [Tabs -> TabState] /\ tabs'[t] = to
         /\ \A u \in Tabs : u # t => tabs'[u] = tabs[u]
    <2> HIDE DEF t
    <2> QED  BY <1>2, <1>7, <1>10
  <1> DEFINE tb == tabs'
  <1> HIDE DEF tb
  <1>13. /\ NotNewer(tb, jobs, Tail(results))
         /\ \A u \in Tabs : TabFits(u, tb[u], jobs, Tail(results), disk, touched[u])
    <2>1. tb \in [Tabs -> TabState] /\ tb[t] = to /\ \A u \in Tabs : u # t => tb[u] = tabs[u]
      BY <1>12 DEF tb
    <2>2. to.generation = tabs[t].generation
      BY <1>10 DEF r
    <2> QED  BY <1>1, <1>10, <1>11, <2>1, <2>2, AnswerTaken
  <1>14. pendingSelect' \in [tab : Tabs, names : SUBSET Names] \cup {NoSelect}
    BY <1>2, <1>7, <1>9 DEF TypeOK
  <1>15. TypeOK'
    BY <1>1, <1>2, <1>12, <1>14 DEF TypeOK, TabState
  <1> QED  BY <1>1, <1>2, <1>13, <1>15 DEF ListingInv, tb

(* The last batch. *)
LEMMA OnLastBatchKeeps == ASSUME ListingInv, OnLastBatch PROVE ListingInv'
  <1> DEFINE m == Head(results)
             t == m.tab
             r == tabs[t]
             all == r.pending \o m.names
             shown == [Shown(r, all, m.error) EXCEPT !.pending = <<>>, !.loading = FALSE]
             to == Selecting(t, shown)
             tb == [tabs EXCEPT ![t] = to]
  <1>1. /\ Takes("batch") /\ Current(m) /\ m.done
        /\ RebuildView(tb)
        /\ pendingSelect' = StillPending(t, shown)
        /\ UNCHANGED <<active, keepSelection, watch, disk, touched, inputs>>
    BY DEF OnLastBatch
  <1>2. /\ TypeOK /\ tabs \in [Tabs -> TabState] /\ jobs \in Seq(Jobs) /\ results \in Seq(Messages)
        /\ results # <<>> /\ results' = Tail(results) /\ results' \in Seq(Messages)
        /\ m \in Messages /\ m.kind = "batch" /\ t \in Tabs
    BY <1>1, TakenTyped
  <1>3. IsFor(m, t, r.generation)
    BY <1>1, <1>2 DEF IsFor, Current
  <1>4. m.names \in Seq(Names) /\ m.error \in BOOLEAN
    BY <1>2, <1>3, BatchFor
  <1>5. r \in TabState /\ TabFits(t, r, jobs, results, disk, touched[t])
    BY <1>2 DEF ListingInv
  <1>6. all \in Seq(Names) /\ DOMAIN all \in SUBSET (Nat \ {0})
    BY <1>4, <1>5, RowsTyped
  <1> HIDE DEF r
  <1>7. /\ shown \in TabState /\ shown.path = r.path /\ shown.generation = r.generation
        /\ shown.loading = FALSE /\ shown.pending = <<>> /\ shown.folder = r.path
        /\ shown.entries = all /\ shown.error = m.error
    <2>1. <<>> \in Seq(Names)
      OBVIOUS
    <2> DEFINE e == m.error
    <2>2. e \in BOOLEAN
      BY <1>4
    <2> HIDE DEF all, e
    <2>3. LET s == [Shown(r, all, e) EXCEPT !.pending = <<>>, !.loading = FALSE]
          IN  /\ s \in TabState /\ s.path = r.path /\ s.generation = r.generation
              /\ s.loading = FALSE /\ s.pending = <<>> /\ s.folder = r.path
              /\ s.entries = all /\ s.error = e
      BY <1>5, <1>6, <2>1, <2>2 DEF Shown, TabState
    <2> QED  BY <2>3 DEF e
  <1> HIDE DEF shown
  <1>8. /\ to \in TabState /\ Alike(to, shown)
        /\ StillPending(t, shown) \in [tab : Tabs, names : SUBSET Names] \cup {NoSelect}
    BY <1>2, <1>7, SelectingFacts
  <1> HIDE DEF to
  <1>9. /\ to.path = r.path /\ to.generation = r.generation /\ to.loading = FALSE
        /\ to.pending = <<>> /\ to.folder = r.path /\ to.error = m.error /\ to.entries = all
    BY <1>7, <1>8 DEF Alike
  <1>10. TabFits(t, to, jobs, Tail(results), disk, touched[t])
    <2>1. to.entries = r.pending \o Head(results).names /\ to.error = Head(results).error
      BY <1>9
    <2>2. IsFor(Head(results), t, r.generation) /\ Head(results).done
      BY <1>1, <1>3
    <2> HIDE DEF m, t, all
    <2> QED  BY <1>2, <1>5, <1>8, <1>9, <2>1, <2>2, Ended
  <1>11. /\ tb \in [Tabs -> TabState] /\ tb[t] = to
         /\ \A u \in Tabs : u # t => tb[u] = tabs[u]
    <2> HIDE DEF t
    <2> QED  BY <1>2, <1>8
  <1> HIDE DEF tb
  <1>12. /\ NotNewer(tb, jobs, Tail(results))
         /\ \A u \in Tabs : TabFits(u, tb[u], jobs, Tail(results), disk, touched[u])
    <2>1. to.generation = tabs[t].generation
      BY <1>9 DEF r
    <2> QED  BY <1>1, <1>8, <1>10, <1>11, <2>1, AnswerTaken
  <1>13. /\ tabs' \in [Tabs -> TabState] /\ jobs' \in Seq(Jobs)
         /\ NotNewer(tabs', jobs', Tail(results))
         /\ \A u \in Tabs : TabFits(u, tabs'[u], jobs', Tail(results), disk, touched[u])
    <2>1. active \in Tabs
      BY <1>2 DEF TypeOK
    <2> QED  BY <1>1, <1>2, <1>11, <1>12, <2>1, Rebuilding
  <1>14. TypeOK'
    BY <1>1, <1>2, <1>8, <1>13 DEF TypeOK, TabState
  <1> QED  BY <1>1, <1>2, <1>13, <1>14 DEF ListingInv


------------------------------------------------------------------------------
(* The invariant holds of every state.                                      *)

(* As if every tab had been asked for its listing from the state before. *)
Unasked == [t \in Tabs |-> [FirstState(t) EXCEPT !.generation = 0]]

(* The start has requested one listing for each tab. *)
LEMMA InitKeeps == Init => ListingInv
  <1> SUFFICES ASSUME Init PROVE ListingInv
    OBVIOUS
  <1>1. \A t \in Tabs : /\ FirstState(t) \in TabState /\ FirstState(t).generation = 1
                        /\ FirstState(t).pending = <<>> /\ FirstState(t).loading = TRUE
                        /\ FirstState(t).entries = <<>>
    <2>1. <<>> \in Seq(Names)
      OBVIOUS
    <2>2. \A t \in Tabs : FirstFolder[t] \in Folders
      BY ListingAssumption
    <2> QED  BY <2>1, <2>2 DEF FirstState, TabState
  <1>2. /\ Unasked \in [Tabs -> TabState]
        /\ \A t \in Tabs : ReadJob(t, Requested(Unasked[t])) = ReadJob(t, FirstState(t))
    <2> SUFFICES ASSUME NEW t \in Tabs
                 PROVE  /\ [FirstState(t) EXCEPT !.generation = 0] \in TabState
                        /\ ReadJob(t, Requested([FirstState(t) EXCEPT !.generation = 0]))
                             = ReadJob(t, FirstState(t))
      BY DEF Unasked
    <2>1. [FirstState(t) EXCEPT !.generation = 0] \in TabState
      BY <1>1 DEF TabState
    <2>2. 0 + 1 = 1
      OBVIOUS
    <2> QED  BY <2>1, <2>2 DEF ReadJob, Requested, FirstState
  <1>3. jobs = NewJobs(Tabs, Unasked)
    <2>1. Tabs \in SUBSET Nat /\ IsFiniteSet(Tabs)
      BY ListingAssumption
    <2>2. \A k \in 1 .. Cardinality(Tabs) : InOrder(Tabs)[k] \in Tabs
      BY <2>1, InOrderFacts
    <2>3. \A k \in 1 .. Cardinality(Tabs) :
            ReadJob(InOrder(Tabs)[k], Requested(Unasked[InOrder(Tabs)[k]]))
              = ReadJob(InOrder(Tabs)[k], FirstState(InOrder(Tabs)[k]))
      BY <1>2, <2>2
    <2> QED  BY <2>3 DEF Init, NewJobs
  <1>4. /\ jobs \in Seq(Jobs) /\ Len(jobs) \in Nat
        /\ \A k \in 1 .. Len(jobs) : \E t \in Tabs : jobs[k] = ReadJob(t, FirstState(t))
        /\ \A t \in Tabs : \E k \in 1 .. Len(jobs) :
             /\ jobs[k] = ReadJob(t, FirstState(t))
             /\ \A j \in 1 .. Len(jobs) : j # k => jobs[j].tab # t
    <2>1. Tabs \in SUBSET Tabs /\ Unasked \in [Tabs -> TabState]
      BY <1>2
    <2> DEFINE new == NewJobs(Tabs, Unasked)
    <2>2. /\ new \in Seq(Jobs) /\ Len(new) \in Nat
          /\ \A k \in 1 .. Len(new) : \E t \in Tabs : new[k] = ReadJob(t, Requested(Unasked[t]))
          /\ \A t \in Tabs : \E k \in 1 .. Len(new) :
               /\ new[k] = ReadJob(t, Requested(Unasked[t]))
               /\ \A j \in 1 .. Len(new) : j # k => new[j].tab # t
      BY ONLY <2>1, NewJobsFacts
    <2>3. new = jobs
      BY <1>3
    <2> HIDE DEF new
    <2>4. ASSUME NEW k \in 1 .. Len(new)
          PROVE  \E t \in Tabs : new[k] = ReadJob(t, FirstState(t))
      <3>1. PICK t \in Tabs : new[k] = ReadJob(t, Requested(Unasked[t]))
        BY <2>2
      <3> QED  BY <1>2, <3>1
    <2>5. ASSUME NEW t \in Tabs
          PROVE  \E k \in 1 .. Len(new) : /\ new[k] = ReadJob(t, FirstState(t))
                                          /\ \A j \in 1 .. Len(new) : j # k => new[j].tab # t
      <3>1. ReadJob(t, Requested(Unasked[t])) = ReadJob(t, FirstState(t))
        BY <1>2
      <3> QED  BY <2>2, <3>1
    <2> QED  BY <2>2, <2>3, <2>4, <2>5
  <1>5. DOMAIN jobs = 1 .. Len(jobs)
    BY <1>4, LenProperties
  <1>6. tabs = [t \in Tabs |-> FirstState(t)] /\ results = <<>> /\ DOMAIN results = {}
    BY DEF Init
  <1>7. TypeOK
    <2>1. active \in Tabs
      <3>1. Tabs \subseteq Nat /\ Tabs # {}
        BY ListingAssumption
      <3>2. \E t \in Tabs : \A u \in Tabs : t <= u
        BY <3>1, Least
      <3> QED  BY <3>2 DEF Init, FirstTab
    <2>2. tabs \in [Tabs -> TabState]
      BY <1>1, <1>6
    <2>3. disk \subseteq Names /\ inputs \in 0 .. MaxInputs
      BY ListingAssumption DEF Init
    <2>4. watch \in [Tabs -> [folder : Folders,
                              state : {"opened", "armed", "changed", "changed again"}]]
      <3>1. \A t \in Tabs : FirstFolder[t] \in Folders
        BY ListingAssumption
      <3> QED  BY <3>1 DEF Init
    <2>5. results \in Seq(Messages)
      BY <1>6
    <2>6. /\ keepSelection \in [Tabs -> SUBSET SUBSET Names]
          /\ pendingSelect \in {NoSelect} /\ touched \in [Tabs -> SUBSET Names]
      BY DEF Init
    <2> QED  BY <1>4, <2>1, <2>2, <2>3, <2>4, <2>5, <2>6 DEF TypeOK, TabState
  <1>8. NotNewer(tabs, jobs, results)
    <2>1. ASSUME NEW k \in DOMAIN jobs PROVE jobs[k].gen <= tabs[jobs[k].tab].generation
      <3>1. PICK t \in Tabs : jobs[k] = ReadJob(t, FirstState(t))
        BY <1>4, <1>5
      <3>2. jobs[k].tab = t /\ jobs[k].gen = 1
        BY <1>1, <3>1 DEF ReadJob
      <3>3. tabs[t].generation = 1
        BY <1>1, <1>6
      <3> QED  BY <3>2, <3>3
    <2> QED  BY <1>6, <2>1 DEF NotNewer
  <1>9. ASSUME NEW t \in Tabs PROVE TabFits(t, tabs[t], jobs, results, disk, touched[t])
    <2>1. PICK k \in 1 .. Len(jobs) : /\ jobs[k] = ReadJob(t, FirstState(t))
                                      /\ \A j \in 1 .. Len(jobs) : j # k => jobs[j].tab # t
      BY <1>4
    <2> DEFINE r == FirstState(t)
    <2>2. tabs[t] = r /\ r.generation = 1
      BY <1>1, <1>6
    <2>3. About(jobs, t, r.generation) = {k}
      <3>1. IsFor(jobs[k], t, r.generation)
        BY <2>1, <2>2 DEF ReadJob, IsFor
      <3>2. \A j \in DOMAIN jobs : IsFor(jobs[j], t, r.generation) => j = k
        BY <1>5, <2>1 DEF IsFor
      <3> QED  BY <1>5, <3>1, <3>2 DEF About
    <2>4. About(results, t, r.generation) = {}
      BY <1>6 DEF About
    <2>5. r.pending = <<>> /\ r.loading = TRUE /\ ListingOf(r.folder, r.entries)
      <3>1. DOMAIN <<>> = {}
        OBVIOUS
      <3> QED  BY <1>1, <3>1 DEF ListingOf
    <2> HIDE DEF r
    <2>6. TabFits(t, r, jobs, results, disk, touched[t])
      <3>1. jobs[k] = ReadJob(t, r)
        BY <2>1 DEF r
      <3> QED  BY <2>3, <2>4, <2>5, <3>1, Beginning
    <2> QED  BY <2>2, <2>6
  <1> QED  BY <1>7, <1>8, <1>9 DEF ListingInv

(* Every step keeps the invariant. *)
LEMMA NextKeeps == ListingInv /\ [Next]_vars => ListingInv'
  <1> SUFFICES ASSUME ListingInv, [Next]_vars PROVE ListingInv'
    OBVIOUS
  <1>1. ASSUME NEW f \in Folders, Navigate(f) PROVE ListingInv'
    BY <1>1, NavigateKeeps
  <1>2. ASSUME Refresh PROVE ListingInv'
    BY <1>2, RefreshKeeps
  <1>3. ASSUME SetFilter PROVE ListingInv'
    BY <1>3, SetFilterKeeps
  <1>4. ASSUME NEW i, Click(i) \/ CtrlClick(i) PROVE ListingInv'
    BY <1>4, SelectKeeps
  <1>5. ASSUME NEW t \in Tabs, SwitchTab(t) PROVE ListingInv'
    BY <1>5, SwitchTabKeeps
  <1>6. ASSUME NEW t \in Tabs, WatcherArms(t) PROVE ListingInv'
    BY <1>6, WatcherArmsKeeps
  <1>7. ASSUME NEW t \in Tabs, WatcherFires(t) PROVE ListingInv'
    BY <1>7, WatcherFiresKeeps
  <1>8. ASSUME NEW f, NEW created, OpDone(f, created) PROVE ListingInv'
    BY <1>8, OpDoneKeeps
  <1>9. ASSUME NEW n \in Names, DiskChange(n) PROVE ListingInv'
    BY <1>9, DiskChangeKeeps
  <1>10. ASSUME NEW k \in DOMAIN jobs, JobStep(k) PROVE ListingInv'
    BY <1>10, ReadBatchKeeps, ReadEndKeeps, SendViewKeeps DEF JobStep
  <1>11. ASSUME HandleMsg PROVE ListingInv'
    BY <1>11, OnStaleKeeps, OnBatchKeeps, OnLastBatchKeeps, OnViewKeeps, OnDirChangedKeeps,
       OnDirChangedLoadingKeeps DEF HandleMsg
  <1>12. ASSUME UNCHANGED vars PROVE ListingInv'
    <2>1. UNCHANGED <<tabs, active, keepSelection, pendingSelect, jobs, results, watch, disk,
                      touched, inputs>>
      BY <1>12 DEF vars, uiVars
    <2>2. TypeOK
      BY DEF ListingInv
    <2>3. TypeOK'
      BY <2>1, <2>2 DEF TypeOK
    <2>4. \A t \in Tabs : Alike(tabs'[t], tabs[t])
      BY <2>1 DEF Alike
    <2> QED  BY <2>1, <2>3, <2>4, RestKeeps
  <1> QED  BY <1>1, <1>2, <1>3, <1>4, <1>5, <1>6, <1>7, <1>8, <1>9, <1>10, <1>11, <1>12 DEF Next

(* Every reachable state satisfies the inductive invariant of the listing   *)
(* protocol between the UI thread, the pool and the watchers.               *)
THEOREM ListingInvariance == Spec => []ListingInv
  <1>1. Init => ListingInv
    BY InitKeeps
  <1>2. ListingInv /\ [Next]_vars => ListingInv'
    BY NextKeeps
  <1> QED  BY <1>1, <1>2, PTL DEF Spec

(* The tabs, jobs, messages and watchers have their types. *)
THEOREM ListingTypeCorrect == Spec => []TypeOK
  <1>1. ListingInv => TypeOK
    BY DEF ListingInv
  <1> QED  BY <1>1, ListingInvariance, PTL

(* However requests, batches and late answers interleave, a tab never mixes *)
(* the rows of two enumerations or of two folders, whatever the number of    *)
(* tabs, threads and requests (handle_msg's generation check).              *)
THEOREM RowsOfOneListing == Spec => []OneListing
  <1>1. ListingInv => OneListing
    BY DEF ListingInv, OneListing, TabFits, Settled, Rising
  <1> QED  BY <1>1, ListingInvariance, PTL

(* A tab that has stopped loading shows its folder as it has been since the *)
(* latest request, for what has neither come nor gone since then, unless the *)
(* folder could not be read to its end (handle_msg, run_job).               *)
THEOREM SettledCurrent == Spec => []SettledIsCurrent
  <1>1. ListingInv => SettledIsCurrent
    <2> SUFFICES ASSUME ListingInv, NEW t \in Tabs, ~tabs[t].loading
                 PROVE  /\ tabs[t].folder = tabs[t].path
                        /\ ~tabs[t].error =>
                             \A n \in {m \in Names \ touched[t] : InFolder[m] = tabs[t].path} :
                               n \in disk <=> Contains(tabs[t].entries, n)
      BY DEF SettledIsCurrent
    <2>1. Settled(tabs[t], disk, touched[t])
      BY DEF ListingInv, TabFits
    <2>2. tabs[t].entries \in Seq(Names)
      BY DEF ListingInv, TypeOK
    <2>3. DOMAIN tabs[t].entries = 1 .. Len(tabs[t].entries)
      BY <2>2, LenProperties
    <2>4. \A n : Contains(tabs[t].entries, n) <=> Holds(tabs[t].entries, n)
      BY <2>3 DEF Contains, Holds
    <2> QED  BY <2>1, <2>4 DEF Settled
  <1> QED  BY <1>1, ListingInvariance, PTL

(* A tab that loads is never forgotten and never answered twice: its latest *)
(* request is one job, or one last batch on its way                         *)
(* (request_listing_for, run_job, handle_msg).                              *)
THEOREM LoadingAnswered == Spec => []LoadingIsAnswered
  <1>1. ListingInv => LoadingIsAnswered
    <2> SUFFICES ASSUME ListingInv, NEW t \in Tabs
                 PROVE  Cardinality({k \in DOMAIN jobs : Answers(jobs[k], t)})
                          + Cardinality({k \in DOMAIN results : Answers(results[k], t)
                                                                  /\ results[k].done})
                          = IF tabs[t].loading THEN 1 ELSE 0
      BY DEF LoadingIsAnswered
    <2> DEFINE g == tabs[t].generation
               A == {k \in DOMAIN jobs : Answers(jobs[k], t)}
               D == {k \in DOMAIN results : Answers(results[k], t) /\ results[k].done}
    <2>1. A = About(jobs, t, g)
      BY DEF About, Answers, IsFor
    <2>2. D = {k \in About(results, t, g) : results[k].done}
      BY DEF About, Answers, IsFor
    <2>3. OneAnswer(t, tabs[t], jobs, results)
      BY DEF ListingInv, TabFits
    <2>4. D \subseteq Int
      <3>1. results \in Seq(Messages)
        BY DEF ListingInv, TypeOK
      <3> QED  BY <3>1, LenProperties
    <2> HIDE DEF A, D
    <2>5. /\ \A j, k \in A : j = k
          /\ A # {} => D = {}
          /\ tabs[t].loading <=> A # {} \/ D # {}
      BY <2>1, <2>2, <2>3 DEF OneAnswer
    <2>6. \A j, k \in D : j = k
      <3> SUFFICES ASSUME NEW j \in D, NEW k \in D, j < k PROVE FALSE
        BY <2>4
      <3> QED  BY <2>2, <2>3 DEF OneAnswer
    <2>7. ASSUME NEW S, \A j, k \in S : j = k
          PROVE  Cardinality(S) = IF S # {} THEN 1 ELSE 0
      <3>1. CASE S = {}
        BY <3>1, FS_EmptySet
      <3>2. CASE S # {}
        <4>1. PICK x \in S : TRUE
          BY <3>2
        <4>2. S = {x}
          BY <2>7, <4>1
        <4> QED  BY <4>2, FS_Singleton
      <3> QED  BY <3>1, <3>2
    <2>8. Cardinality(A) = IF A # {} THEN 1 ELSE 0
      BY <2>5, <2>7
    <2>9. Cardinality(D) = IF D # {} THEN 1 ELSE 0
      BY <2>6, <2>7
    <2>10. Cardinality(A) + Cardinality(D) = IF tabs[t].loading THEN 1 ELSE 0
      BY <2>5, <2>8, <2>9
    <2> QED  BY <2>10 DEF A, D
  <1> QED  BY <1>1, ListingInvariance, PTL
===============================================================================
