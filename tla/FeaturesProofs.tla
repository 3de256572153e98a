----------------------------- MODULE FeaturesProofs -----------------------------
(***************************************************************************)
(* What TLAPS proves of the look-ups of the window, of the plugin host,  *)
(* of the index of a volume, of the comparison of folders, of the        *)
(* preview pane and of searches: for any keys, plugins, permissions,     *)
(* files, folders and queries and any number of events. The last section *)
(* is about all of them side by side, the views of ViewsProofs included.  *)
(***************************************************************************)
EXTENDS Features, ViewsProofs

------------------------------------------------------------------------------
(* Sequences as queues.                                                    *)

(* The elements of a sequence with one more at the end. *)
LEMMA AppendFacts ==
  ASSUME NEW S, NEW c \in Seq(S), NEW e \in S
  PROVE  /\ Append(c, e) \in Seq(S) /\ Append(c, e) # <<>>
         /\ DOMAIN Append(c, e) = (DOMAIN c) \cup {Len(c) + 1}
         /\ Append(c, e)[Len(c) + 1] = e
         /\ \A k \in DOMAIN c : k < Len(c) + 1 /\ Append(c, e)[k] = c[k]
  OBVIOUS

(* The elements of a sequence without its first. *)
LEMMA TailFacts ==
  ASSUME NEW S, NEW c \in Seq(S), c # <<>>
  PROVE  /\ Tail(c) \in Seq(S) /\ Head(c) \in S /\ Head(c) = c[1] /\ 1 \in DOMAIN c
         /\ DOMAIN c \subseteq Nat \ {0}
         /\ \A k \in DOMAIN Tail(c) : k + 1 \in DOMAIN c /\ Tail(c)[k] = c[k + 1]
         /\ \A k \in DOMAIN c : k # 1 => k - 1 \in DOMAIN Tail(c) /\ Tail(c)[k - 1] = c[k]
         /\ DOMAIN Tail(c) \subseteq Nat \ {0}
  OBVIOUS

------------------------------------------------------------------------------
(* Look-ups.                                                               *)

LookupTypeOK ==
  /\ lookups \in [Keys -> Nat]
  /\ pending \subseteq Keys

(* What is asked for has a job. What has a job is asked for or, an icon      *)
(* that a frame has asked for twice, known already; all others have one job. *)
Answered ==
  \A k \in Keys :
    /\ k \in pending => lookups[k] > 0
    /\ lookups[k] > 0 => k \in pending \/ (k \in Icons /\ k \in known)
    /\ k \notin Icons => lookups[k] <= 1
    /\ lookups[k] <= IconsPerFrame

(* The folders that are being measured are counted by what is asked for. *)
FewSizes ==
  /\ IsFiniteSet(pending \cap Sizes)
  /\ Cardinality(pending \cap Sizes) <= SizesAtOnce

LookupInv == LookupTypeOK /\ Answered /\ FewSizes

(* The icons and the folders to be measured are apart from all other keys. *)
LEMMA KindsApart ==
  /\ Icons \cap (Sums \cup Cells \cup Sizes \cup Branches \cup {Places}) = {}
  /\ Sizes \cap (Icons \cup Sums \cup Cells \cup Branches \cup {Places}) = {}
  /\ IconsPerFrame \in Nat \ {0} /\ SizesAtOnce \in Nat
  <1> DEFINE kinds == <<Icons, Sums, Cells, Sizes, Branches, {Places}>>
  <1>1. \A i, j \in 1..6 : i # j => kinds[i] \cap kinds[j] = {}
    BY LookupsAssumption
  <1>2. \A j \in 1..6 : kinds[1] \cap kinds[j] = {} \/ j = 1
    BY <1>1
  <1>3. \A j \in 1..6 : kinds[4] \cap kinds[j] = {} \/ j = 4
    BY <1>1
  <1>4. /\ Icons \cap Sums = {} /\ Icons \cap Cells = {} /\ Icons \cap Sizes = {}
        /\ Icons \cap Branches = {} /\ Icons \cap {Places} = {}
    BY <1>2
  <1>5. /\ Sizes \cap Sums = {} /\ Sizes \cap Cells = {}
        /\ Sizes \cap Branches = {} /\ Sizes \cap {Places} = {}
    BY <1>3
  <1> QED  BY <1>4, <1>5, LookupsAssumption

(* Asking for keys that are neither known nor asked for, as often as n says. *)
LEMMA SubmitStep ==
  ASSUME LookupTypeOK, Answered, NEW ks \in SUBSET Keys, NEW n \in [ks -> Nat \ {0}],
         ks \cap pending = {},
         \A k \in ks : k \in Icons => k \notin known /\ n[k] <= IconsPerFrame,
         \A k \in ks : k \notin Icons => n[k] = 1,
         Submit(n), UNCHANGED known
  PROVE  LookupTypeOK' /\ Answered' /\ pending' = pending \cup ks
  <1>1. /\ pending' = pending \cup ks
        /\ lookups' = [k \in Keys |-> lookups[k] + (IF k \in ks THEN n[k] ELSE 0)]
    BY DEF Submit
  <1>2. \A k \in ks : lookups[k] = 0
    BY DEF Answered, LookupTypeOK
  <1>3. LookupTypeOK'
    BY <1>1 DEF LookupTypeOK
  <1>4. ASSUME NEW k \in Keys
        PROVE  lookups'[k] = (IF k \in ks THEN n[k] ELSE lookups[k])
    BY <1>1, <1>2 DEF LookupTypeOK
  <1>5. Answered'
    BY <1>1, <1>4, KindsApart DEF Answered, LookupTypeOK
  <1> QED  BY <1>1, <1>3, <1>5

(* Once each, and no size of a folder among them. *)
LEMMA OnceStep ==
  ASSUME LookupInv, NEW ks \in SUBSET Keys, ks \cap (pending \cup Icons \cup Sizes) = {},
         Submit(Once(ks)), UNCHANGED known
  PROVE  LookupInv'
  <1>1. Once(ks) \in [ks -> Nat \ {0}] /\ \A k \in ks : Once(ks)[k] = 1
    BY DEF Once
  <1>2. LookupTypeOK' /\ Answered' /\ pending' = pending \cup ks
    BY <1>1, SubmitStep, KindsApart DEF LookupInv
  <1>3. pending' \cap Sizes = pending \cap Sizes
    BY <1>2
  <1> QED  BY <1>2, <1>3 DEF LookupInv, FewSizes

(* A frame asks for the icons its rows miss, at most IconsPerFrame times.   *)
LEMMA DrawIconsStep ==
  ASSUME LookupInv, DrawIcons
  PROVE  LookupInv'
  <1>0. PICK ks \in SUBSET Missing(Icons) : \E n \in [ks -> 1..IconsPerFrame] : Submit(n)
    BY DEF DrawIcons
  <1>1. PICK n \in [ks -> 1..IconsPerFrame] : Submit(n)
    BY <1>0
  <1>2. ks \in SUBSET Icons /\ ks \cap (pending \cup known) = {} /\ ks \in SUBSET Keys
    BY DEF Missing, Keys
  <1>3. /\ n \in [ks -> Nat \ {0}]
        /\ \A k \in ks : n[k] <= IconsPerFrame
    BY KindsApart
  <1>4. UNCHANGED known
    BY DEF DrawIcons
  <1>5. LookupTypeOK' /\ Answered' /\ pending' = pending \cup ks
    BY <1>1, <1>2, <1>3, <1>4, SubmitStep DEF LookupInv
  <1>6. pending' \cap Sizes = pending \cap Sizes
    BY <1>2, <1>5, KindsApart
  <1> QED  BY <1>5, <1>6 DEF LookupInv, FewSizes

(* A folder is measured only while fewer than SizesAtOnce are. *)
LEMMA RequestDirSizeStep ==
  ASSUME LookupInv, NEW k \in Sizes, RequestDirSize(k)
  PROVE  LookupInv'
  <1>1. /\ k \notin pending \cup known /\ k \in Keys /\ k \notin Icons
        /\ Cardinality(pending \cap Sizes) < SizesAtOnce
        /\ Submit(Once({k})) /\ UNCHANGED known
    BY KindsApart DEF RequestDirSize, Missing, Keys
  <1>2. Once({k}) \in [{k} -> Nat \ {0}] /\ Once({k})[k] = 1
    BY DEF Once
  <1>3. LookupTypeOK' /\ Answered' /\ pending' = pending \cup {k}
    BY <1>1, <1>2, SubmitStep DEF LookupInv
  <1>4. pending' \cap Sizes = (pending \cap Sizes) \cup {k}
    BY <1>3
  <1>5. /\ IsFiniteSet(pending \cap Sizes) /\ Cardinality(pending \cap Sizes) \in Nat
        /\ k \notin pending \cap Sizes
    BY <1>1, FS_CardinalityType DEF LookupInv, FewSizes
  <1>6. /\ IsFiniteSet(pending' \cap Sizes)
        /\ Cardinality(pending' \cap Sizes) = Cardinality(pending \cap Sizes) + 1
    BY <1>4, <1>5, FS_AddElement
  <1>7. FewSizes'
    BY <1>1, <1>5, <1>6, KindsApart DEF FewSizes
  <1> QED  BY <1>3, <1>7 DEF LookupInv

(* An answer is entered. *)
LEMMA OnLookupStep ==
  ASSUME LookupInv, NEW k \in Keys, OnLookup(k)
  PROVE  LookupInv'
  <1>1. /\ lookups[k] > 0 /\ lookups' = [lookups EXCEPT ![k] = @ - 1]
        /\ known' = known \cup {k} /\ pending' = pending \ {k}
    BY DEF OnLookup
  <1>2. LookupTypeOK'
    BY <1>1 DEF LookupInv, LookupTypeOK
  <1>3. Answered'
    BY <1>1, KindsApart DEF LookupInv, LookupTypeOK, Answered
  <1>4. /\ IsFiniteSet(pending \cap Sizes)
        /\ pending' \cap Sizes \in SUBSET (pending \cap Sizes)
    BY <1>1 DEF LookupInv, FewSizes
  <1>5. /\ IsFiniteSet(pending' \cap Sizes)
        /\ Cardinality(pending' \cap Sizes) <= Cardinality(pending \cap Sizes)
        /\ Cardinality(pending' \cap Sizes) \in Nat /\ Cardinality(pending \cap Sizes) \in Nat
    BY <1>4, FS_Subset, FS_CardinalityType
  <1>6. FewSizes'
    BY <1>5, KindsApart DEF LookupInv, FewSizes
  <1> QED  BY <1>2, <1>3, <1>6 DEF LookupInv

(* At the start the places and the open branches are asked for, once each. *)
LEMMA LookupStart == LookupsInit => LookupInv
  <1> SUFFICES ASSUME LookupsInit PROVE LookupInv
    OBVIOUS
  <1>1. PICK open \in SUBSET Branches :
          /\ pending = open \cup {Places}
          /\ lookups = [k \in Keys |-> IF k \in pending THEN 1 ELSE 0]
    BY DEF LookupsInit
  <1>2. LookupTypeOK
    BY <1>1 DEF LookupTypeOK, Keys
  <1>3. Answered
    BY <1>1, KindsApart DEF Answered
  <1>4. pending \cap Sizes = {}
    BY <1>1, KindsApart
  <1>5. FewSizes
    BY <1>4, FS_EmptySet, KindsApart DEF FewSizes
  <1> QED  BY <1>2, <1>3, <1>5 DEF LookupInv

(* Every step of the look-ups keeps their invariant. *)
LEMMA LookupStep == LookupInv /\ [LookupsNext]_lookupVars => LookupInv'
  <1> SUFFICES ASSUME LookupInv, [LookupsNext]_lookupVars PROVE LookupInv'
    OBVIOUS
  <1>1. CASE DrawIcons
    BY <1>1, DrawIconsStep
  <1>2. CASE DrawSums
    <2>1. PICK ks \in SUBSET Missing(Sums) : Submit(Once(ks)) /\ UNCHANGED known
      BY <1>2 DEF DrawSums
    <2>2. ks \in SUBSET Keys /\ ks \cap (pending \cup Icons \cup Sizes) = {}
      BY KindsApart DEF Missing, Keys
    <2> QED  BY <2>1, <2>2, OnceStep
  <1>3. CASE DrawCells
    <2>1. PICK ks \in SUBSET Missing(Cells \cup Branches) : Submit(Once(ks)) /\ UNCHANGED known
      BY <1>3 DEF DrawCells, Missing
    <2>2. ks \in SUBSET Keys /\ ks \cap (pending \cup Icons \cup Sizes) = {}
      BY KindsApart DEF Missing, Keys
    <2> QED  BY <2>1, <2>2, OnceStep
  <1>4. CASE RefreshPlaces
    <2>1. /\ Submit(Once({Places})) /\ UNCHANGED known
          /\ {Places} \in SUBSET Keys /\ {Places} \cap (pending \cup Icons \cup Sizes) = {}
      BY <1>4, KindsApart DEF RefreshPlaces, Keys
    <2> QED  BY <2>1, OnceStep
  <1>5. CASE \E k \in Sizes : RequestDirSize(k)
    BY <1>5, RequestDirSizeStep
  <1>6. CASE \E k \in Keys : OnLookup(k)
    BY <1>6, OnLookupStep
  <1>7. CASE UNCHANGED lookupVars
    BY <1>7 DEF lookupVars, LookupInv, LookupTypeOK, Answered, FewSizes
  <1> QED
    BY <1>1, <1>2, <1>3, <1>4, <1>5, <1>6, <1>7 DEF LookupsNext

(* The inductive invariant of the look-ups holds in every reachable state. *)
THEOREM LookupInvariance == LookupsSpec => []LookupInv
  BY LookupStart, LookupStep, PTL DEF LookupsSpec

(* Every key that is asked for is answered, none is asked for while it is on *)
(* its way save an icon within a frame, and no more folders are measured at  *)
(* once than are allowed (draw_details_rows, request_dir_size, handle_msg).  *)
THEOREM AskedIsPending == LookupsSpec => []LookupsArePending
  <1>1. LookupInv => LookupsArePending
    <2> SUFFICES ASSUME LookupInv PROVE LookupsArePending
      OBVIOUS
    <2>1. {k \in Sizes : lookups[k] > 0} = pending \cap Sizes
      <3>1. \A k \in Sizes : k \in Keys /\ k \notin Icons
        BY KindsApart DEF Keys
      <3> QED  BY <3>1 DEF LookupInv, Answered
    <2> QED  BY <2>1 DEF LookupInv, Answered, FewSizes, LookupsArePending
  <1> QED  BY <1>1, LookupInvariance, PTL


------------------------------------------------------------------------------
(* What Kept keeps.                                                         *)

(* One step of the recursion of Kept. *)
KeptStep(g, s, K, n) ==
  IF n = 0 THEN <<>>
  ELSE IF s[n] \in K THEN Append(g[n - 1], s[n]) ELSE g[n - 1]

(* There is a function that satisfies the recursion. *)
LEMMA KeptExists ==
  ASSUME NEW s, NEW K, NEW l \in Nat
  PROVE  \E g : g = [n \in 0..l |-> KeptStep(g, s, K, n)]
  <1> DEFINE G(m) == \E g : g = [n \in 0..m |-> KeptStep(g, s, K, n)]
             T == {m \in Nat : G(m)}
  <1> HIDE DEF G
  <1>1. G(0)
    <2>1. [n \in 0..0 |-> <<>>] = [n \in 0..0 |-> KeptStep([k \in 0..0 |-> <<>>], s, K, n)]
      BY DEF KeptStep
    <2> QED  BY <2>1 DEF G
  <1>2. ASSUME NEW m \in Nat, G(m)
        PROVE  G(m + 1)
    <2>1. PICK h : h = [n \in 0..m |-> KeptStep(h, s, K, n)]
      BY <1>2 DEF G
    <2> DEFINE g == [n \in 0..(m + 1) |-> IF n = m + 1 THEN KeptStep(h, s, K, n) ELSE h[n]]
    <2>2. ASSUME NEW n \in 0..(m + 1)
          PROVE  g[n] = KeptStep(g, s, K, n)
      <3>1. n # 0 => n - 1 \in 0..(m + 1) /\ n - 1 \in 0..m /\ g[n - 1] = h[n - 1]
        OBVIOUS
      <3>2. KeptStep(g, s, K, n) = KeptStep(h, s, K, n)
        BY <3>1 DEF KeptStep
      <3>3. n # m + 1 => n \in 0..m
        OBVIOUS
      <3> QED  BY <2>1, <3>2, <3>3
    <2>3. g = [n \in 0..(m + 1) |-> KeptStep(g, s, K, n)]
      <3>1. [n \in 0..(m + 1) |-> KeptStep(g, s, K, n)] = [n \in 0..(m + 1) |-> g[n]]
        BY <2>2
      <3> QED  BY <3>1
    <2> HIDE DEF g
    <2> QED  BY <2>3 DEF G
  <1>3. 0 \in T /\ \A n \in Nat : n \in T => n + 1 \in T
    BY <1>1, <1>2
  <1> HIDE DEF T
  <1>4. l \in T
    BY <1>3, Induction
  <1> QED  BY <1>4 DEF T, G

(* What holds of k, what is kept of the first n of s. *)
Keeps(s, K, n, k) ==
  /\ \A i \in DOMAIN k : \E j \in 1..n : k[i] = s[j] /\ s[j] \in K
  /\ \A j \in 1..n : s[j] \in K => \E i \in DOMAIN k : k[i] = s[j]
  /\ \A i, m \in DOMAIN k : i < m => \E j, l \in 1..n : j < l /\ k[i] = s[j] /\ k[m] = s[l]

(* Kept leaves the members of K that s holds, in order, and nothing else. *)
LEMMA KeptFacts ==
  ASSUME NEW S, NEW s \in Seq(S), NEW K
  PROVE  Kept(s, K) \in Seq(S) /\ Keeps(s, K, Len(s), Kept(s, K))
  <1> DEFINE f == CHOOSE g : g = [n \in 0..Len(s) |-> KeptStep(g, s, K, n)]
             T == {n \in Nat : n <= Len(s) => f[n] \in Seq(S) /\ Keeps(s, K, n, f[n])}
  <1>1. f = [n \in 0..Len(s) |-> KeptStep(f, s, K, n)]
    <2>1. Len(s) \in Nat
      OBVIOUS
    <2> QED  BY <2>1, KeptExists
  <1>2. Kept(s, K) = f[Len(s)]
    BY DEF Kept, KeptStep
  <1> HIDE DEF f
  <1>3. 0 \in T
    <2>1. f[0] = <<>>
      BY <1>1 DEF KeptStep
    <2>2. Keeps(s, K, 0, <<>>)
      BY DEF Keeps
    <2>3. <<>> \in Seq(S)
      OBVIOUS
    <2> QED  BY <2>1, <2>2, <2>3
  <1>4. ASSUME NEW n \in Nat, n \in T, n + 1 <= Len(s)
        PROVE  f[n + 1] \in Seq(S) /\ Keeps(s, K, n + 1, f[n + 1])
    <2>1. /\ f[n + 1] = (IF s[n + 1] \in K THEN Append(f[n], s[n + 1]) ELSE f[n])
          /\ f[n] \in Seq(S) /\ Keeps(s, K, n, f[n])
          /\ n + 1 \in 1..Len(s) /\ s[n + 1] \in S
      <3>1. n + 1 \in 0..Len(s) /\ n + 1 # 0 /\ (n + 1) - 1 = n /\ n + 1 \in 1..Len(s)
        BY <1>4
      <3>2. f[n + 1] = KeptStep(f, s, K, n + 1)
        BY <1>1, <3>1
      <3>3. f[n + 1] = (IF s[n + 1] \in K THEN Append(f[n], s[n + 1]) ELSE f[n])
        BY <3>1, <3>2 DEF KeptStep
      <3>4. f[n] \in Seq(S) /\ Keeps(s, K, n, f[n])
        BY <1>4
      <3> QED  BY <3>1, <3>3, <3>4
    <2> DEFINE e == s[n + 1]
               k == f[n]
    <2> HIDE DEF k
    <2>2. CASE e \in K
      <3>1. /\ Append(k, e) \in Seq(S)
            /\ DOMAIN Append(k, e) = (DOMAIN k) \cup {Len(k) + 1}
            /\ Append(k, e)[Len(k) + 1] = e
            /\ \A i \in DOMAIN k : i < Len(k) + 1 /\ Append(k, e)[i] = k[i]
        BY <2>1 DEF k
      <3> DEFINE r == Append(k, e)
      <3>2. f[n + 1] = r
        BY <2>1, <2>2 DEF k
      <3> HIDE DEF r
      <3>3. \A i \in DOMAIN r : \E j \in 1..(n + 1) : r[i] = s[j] /\ s[j] \in K
        BY <2>1, <2>2, <3>1 DEF Keeps, r, k
      <3>4. \A j \in 1..(n + 1) : s[j] \in K => \E i \in DOMAIN r : r[i] = s[j]
        <4> SUFFICES ASSUME NEW j \in 1..(n + 1), s[j] \in K
                     PROVE  \E i \in DOMAIN r : r[i] = s[j]
          OBVIOUS
        <4>1. CASE j = n + 1
          BY <3>1, <4>1 DEF r
        <4>2. CASE j \in 1..n
          <5>1. PICK i \in DOMAIN k : k[i] = s[j]
            BY <2>1, <4>2 DEF Keeps, k
          <5> QED  BY <3>1, <5>1 DEF r
        <4> QED  BY <4>1, <4>2
      <3>5. ASSUME NEW i \in DOMAIN r, NEW m \in DOMAIN r, i < m
            PROVE  \E j, l \in 1..(n + 1) : j < l /\ r[i] = s[j] /\ r[m] = s[l]
        <4>1. i \in DOMAIN k /\ r[i] = k[i]
          BY <2>1, <3>1, <3>5 DEF r, k
        <4>2. CASE m \in DOMAIN k
          <5>1. PICK j \in 1..n, l \in 1..n : j < l /\ k[i] = s[j] /\ k[m] = s[l]
            BY <2>1, <3>5, <4>1, <4>2 DEF Keeps, k
          <5>2. j \in 1..(n + 1) /\ l \in 1..(n + 1) /\ r[m] = k[m]
            BY <3>1, <4>2 DEF r
          <5> QED  BY <4>1, <5>1, <5>2
        <4>3. CASE m = Len(k) + 1
          <5>1. PICK j \in 1..n : k[i] = s[j]
            BY <2>1, <4>1 DEF Keeps, k
          <5>2. j \in 1..(n + 1) /\ n + 1 \in 1..(n + 1) /\ j < n + 1 /\ r[m] = s[n + 1]
            BY <3>1, <4>3 DEF r
          <5> QED  BY <4>1, <5>1, <5>2
        <4> QED  BY <3>1, <4>2, <4>3 DEF r
      <3>6. r \in Seq(S)
        BY <3>1 DEF r
      <3> QED  BY <3>2, <3>3, <3>4, <3>5, <3>6 DEF Keeps
    <2>3. CASE e \notin K
      <3>1. f[n + 1] = k /\ Keeps(s, K, n, k) /\ k \in Seq(S)
        BY <2>1, <2>3 DEF k
      <3>2. 1..n \subseteq 1..(n + 1) /\ \A j \in 1..(n + 1) : s[j] \in K => j \in 1..n
        BY <2>3
      <3>3. \A i \in DOMAIN k : \E j \in 1..(n + 1) : k[i] = s[j] /\ s[j] \in K
        BY <3>1, <3>2 DEF Keeps
      <3>4. \A j \in 1..(n + 1) : s[j] \in K => \E i \in DOMAIN k : k[i] = s[j]
        BY <3>1, <3>2 DEF Keeps
      <3>5. \A i, m \in DOMAIN k : i < m =>
              \E j, l \in 1..(n + 1) : j < l /\ k[i] = s[j] /\ k[m] = s[l]
        BY <3>1, <3>2 DEF Keeps
      <3> QED  BY <3>1, <3>3, <3>4, <3>5 DEF Keeps
    <2> QED  BY <2>2, <2>3
  <1>5. \A n \in Nat : n \in T => n + 1 \in T
    BY <1>4
  <1>6. Len(s) \in T
    <2>1. Len(s) \in Nat
      OBVIOUS
    <2> HIDE DEF T
    <2> QED  BY <1>3, <1>5, <2>1, Induction
  <1>7. Len(s) <= Len(s)
    OBVIOUS
  <1> QED  BY <1>2, <1>6, <1>7


------------------------------------------------------------------------------
(* The plugin host.                                                        *)

PluginRecords == [path : PluginPaths, enabled : BOOLEAN, granted : SUBSET Permissions]
PluginLoads == [path : PluginPaths, granted : SUBSET Permissions]

PluginTypeOK ==
  /\ records \in Seq(PluginRecords) /\ pluginFile \in Seq(PluginRecords)
  /\ loaded \in Seq(PluginLoads) /\ runs \in SUBSET PluginLoads
  /\ writing \in {"no", "begun", "cut"} /\ renewed \in SUBSET PluginPaths
  /\ permitted \in [PluginPaths -> SUBSET Permissions]
  /\ unsaved \in BOOLEAN /\ revived \in BOOLEAN

(* A path is registered once: grant and set_enabled change one plugin. *)
Distinct(s) == \A i, j \in DOMAIN s : s[i].path = s[j].path => i = j

(* What is loaded is registered, enabled, and has the grants of its record. *)
Registered ==
  \A i \in DOMAIN loaded : \E r \in DOMAIN records :
    /\ records[r].path = loaded[i].path
    /\ records[r].enabled /\ records[r].granted = loaded[i].granted

(* A run is of a loaded plugin, and none goes on while a handler saves. *)
RunsLoaded ==
  /\ \A r \in runs : \E i \in DOMAIN loaded : loaded[i] = r
  /\ writing # "no" => runs = {}
  /\ writing = "no" => renewed = {}

(* No record grants what the user has not; one that is just installed anew   *)
(* grants nothing, though what it was granted before is taken back only when *)
(* its handler has saved. And so it is in the file, for the next start.      *)
GrantsPermitted ==
  /\ \/ revived
     \/ \A i \in DOMAIN records :
          /\ records[i].granted \subseteq permitted[records[i].path]
          /\ records[i].path \in renewed => records[i].granted = {}
  /\ \/ revived \/ unsaved
     \/ \A i \in DOMAIN pluginFile :
          pluginFile[i].granted \subseteq permitted[pluginFile[i].path]

PluginInv ==
  /\ PluginTypeOK
  /\ Distinct(records) /\ Distinct(pluginFile) /\ Distinct(loaded)
  /\ Registered /\ RunsLoaded /\ GrantsPermitted

(* What the type of the registry says of its members. *)
LEMMA PluginFields ==
  ASSUME PluginTypeOK
  PROVE  /\ \A i \in DOMAIN records : records[i] \in PluginRecords /\ records[i].path \in PluginPaths
         /\ \A i \in DOMAIN pluginFile :
              pluginFile[i] \in PluginRecords /\ pluginFile[i].path \in PluginPaths
         /\ \A i \in DOMAIN loaded : loaded[i] \in PluginLoads /\ loaded[i].path \in PluginPaths
  <1>1. /\ \A i \in DOMAIN records : records[i] \in PluginRecords
        /\ \A i \in DOMAIN pluginFile : pluginFile[i] \in PluginRecords
        /\ \A i \in DOMAIN loaded : loaded[i] \in PluginLoads
    BY DEF PluginTypeOK
  <1> QED  BY <1>1 DEF PluginRecords, PluginLoads

(* What is loaded without p, and what the registry holds without it. *)
LEMMA OthersFacts ==
  ASSUME NEW S, NEW s \in Seq(S), NEW p
  PROVE  /\ Others(s, p) \in Seq(S)
         /\ \A i \in DOMAIN Others(s, p) : \E j \in DOMAIN s :
              Others(s, p)[i] = s[j] /\ s[j].path # p
         /\ \A j \in DOMAIN s : s[j].path # p => \E i \in DOMAIN Others(s, p) :
              Others(s, p)[i] = s[j]
         /\ Distinct(s) => Distinct(Others(s, p))
  <1> DEFINE K == {r \in Range(s) : r.path # p}
             k == Kept(s, K)
  <1>1. Others(s, p) = k
    BY DEF Others
  <1>2. k \in Seq(S) /\ Keeps(s, K, Len(s), k)
    BY KeptFacts
  <1>3. \A j \in 1..Len(s) : s[j] \in K <=> s[j].path # p
    BY DEF Range
  <1>4. DOMAIN s = 1..Len(s)
    OBVIOUS
  <1> HIDE DEF K, k
  <1>5. /\ \A i \in DOMAIN k : \E j \in DOMAIN s : k[i] = s[j] /\ s[j].path # p
        /\ \A j \in DOMAIN s : s[j].path # p => \E i \in DOMAIN k : k[i] = s[j]
    BY <1>2, <1>3, <1>4 DEF Keeps
  <1>6. ASSUME Distinct(s), NEW i \in DOMAIN k, NEW m \in DOMAIN k, i < m
        PROVE  k[i].path # k[m].path
    <2>1. PICK j \in 1..Len(s), l \in 1..Len(s) : j < l /\ k[i] = s[j] /\ k[m] = s[l]
      BY <1>2, <1>6 DEF Keeps
    <2> QED  BY <1>4, <1>6, <2>1 DEF Distinct
  <1>7. Distinct(s) => Distinct(k)
    <2>1. \A i, m \in DOMAIN k : i < m \/ m < i \/ i = m
      BY <1>2
    <2> QED  BY <1>6, <2>1 DEF Distinct
  <1> QED  BY <1>1, <1>2, <1>5, <1>7

(* The elements of a sequence with one more at the end. *)
LEMMA PluginAppendFacts ==
  ASSUME NEW S, NEW c \in Seq(S), NEW e \in S
  PROVE  /\ Append(c, e) \in Seq(S)
         /\ DOMAIN Append(c, e) = (DOMAIN c) \cup {Len(c) + 1}
         /\ Append(c, e)[Len(c) + 1] = e
         /\ \A k \in DOMAIN c : Append(c, e)[k] = c[k] /\ k # Len(c) + 1
  OBVIOUS

(* Installing replaces what there was of the plugin; nothing is granted. *)
LEMMA InstallStep ==
  ASSUME PluginInv, NEW p \in PluginPaths, Install(p)
  PROVE  PluginInv'
  <1> DEFINE r == [path |-> p, enabled |-> TRUE, granted |-> {}]
             l == [path |-> p, granted |-> {}]
             rs == Others(records, p)
             ls == Others(loaded, p)
  <1>1. /\ records' = Append(rs, r) /\ loaded' = Append(ls, l)
        /\ writing' = "begun" /\ renewed' = {p}
        /\ UNCHANGED <<runs, pluginFile, unsaved, revived, permitted>>
        /\ runs = {} /\ writing = "no"
    BY DEF Install, Save, Writable
  <1>2. /\ r \in PluginRecords /\ r.path = p /\ r.enabled /\ r.granted = {}
        /\ l \in PluginLoads /\ l.path = p /\ l.granted = {}
    BY DEF PluginRecords, PluginLoads
  <1>3. /\ records \in Seq(PluginRecords) /\ loaded \in Seq(PluginLoads) /\ renewed = {}
        /\ Distinct(records) /\ Distinct(loaded)
    BY <1>1 DEF PluginInv, PluginTypeOK, RunsLoaded
  <1>4. /\ rs \in Seq(PluginRecords)
        /\ \A i \in DOMAIN rs : \E j \in DOMAIN records : rs[i] = records[j] /\ rs[i].path # p
        /\ \A j \in DOMAIN records : records[j].path # p => \E i \in DOMAIN rs : rs[i] = records[j]
        /\ Distinct(rs)
    <2>1. /\ Others(records, p) \in Seq(PluginRecords)
          /\ \A i \in DOMAIN Others(records, p) : \E j \in DOMAIN records :
               Others(records, p)[i] = records[j] /\ records[j].path # p
          /\ \A j \in DOMAIN records : records[j].path # p =>
               \E i \in DOMAIN Others(records, p) : Others(records, p)[i] = records[j]
          /\ Distinct(Others(records, p))
      BY <1>3, OthersFacts
    <2> QED  BY <2>1
  <1>5. /\ ls \in Seq(PluginLoads)
        /\ \A i \in DOMAIN ls : \E j \in DOMAIN loaded : ls[i] = loaded[j] /\ ls[i].path # p
        /\ Distinct(ls)
    <2>1. /\ Others(loaded, p) \in Seq(PluginLoads)
          /\ \A i \in DOMAIN Others(loaded, p) : \E j \in DOMAIN loaded :
               Others(loaded, p)[i] = loaded[j] /\ loaded[j].path # p
          /\ Distinct(Others(loaded, p))
      BY <1>3, OthersFacts
    <2> QED  BY <2>1
  <1> HIDE DEF r, l, rs, ls
  <1>6. /\ records' \in Seq(PluginRecords)
        /\ DOMAIN records' = (DOMAIN rs) \cup {Len(rs) + 1}
        /\ records'[Len(rs) + 1] = r
        /\ \A k \in DOMAIN rs : records'[k] = rs[k] /\ k # Len(rs) + 1
    BY <1>1, <1>2, <1>4, PluginAppendFacts
  <1>7. /\ loaded' \in Seq(PluginLoads)
        /\ DOMAIN loaded' = (DOMAIN ls) \cup {Len(ls) + 1}
        /\ loaded'[Len(ls) + 1] = l
        /\ \A k \in DOMAIN ls : loaded'[k] = ls[k] /\ k # Len(ls) + 1
    BY <1>1, <1>2, <1>5, PluginAppendFacts
  <1>8. PluginTypeOK'
    BY <1>1, <1>6, <1>7 DEF PluginInv, PluginTypeOK
  <1>9. Distinct(records)' /\ Distinct(loaded)' /\ Distinct(pluginFile)'
    BY <1>1, <1>2, <1>4, <1>5, <1>6, <1>7 DEF PluginInv, Distinct
  <1>10. Registered'
    <2> SUFFICES ASSUME NEW i \in DOMAIN loaded'
                 PROVE  \E k \in DOMAIN records' :
                          /\ records'[k].path = loaded'[i].path
                          /\ records'[k].enabled /\ records'[k].granted = loaded'[i].granted
      BY DEF Registered
    <2>1. CASE i = Len(ls) + 1
      BY <1>2, <1>6, <1>7, <2>1
    <2>2. CASE i \in DOMAIN ls
      <3>1. PICK j \in DOMAIN loaded : loaded'[i] = loaded[j] /\ loaded[j].path # p
        BY <1>5, <1>7, <2>2
      <3>2. PICK k \in DOMAIN records :
              /\ records[k].path = loaded[j].path
              /\ records[k].enabled /\ records[k].granted = loaded[j].granted
        BY DEF PluginInv, Registered
      <3>3. PICK m \in DOMAIN rs : rs[m] = records[k]
        BY <1>4, <3>1, <3>2
      <3> QED  BY <1>6, <3>1, <3>2, <3>3
    <2> QED  BY <1>7, <2>1, <2>2
  <1>11. RunsLoaded'
    BY <1>1 DEF RunsLoaded
  <1>12. GrantsPermitted'
    <2>1. ASSUME ~revived, NEW i \in DOMAIN records'
          PROVE  /\ records'[i].granted \subseteq permitted[records'[i].path]
                 /\ records'[i].path = p => records'[i].granted = {}
      <3>1. CASE i = Len(rs) + 1
        BY <1>2, <1>6, <3>1
      <3>2. CASE i \in DOMAIN rs
        <4>1. PICK j \in DOMAIN records : records'[i] = records[j] /\ records[j].path # p
          BY <1>4, <1>6, <3>2
        <4> QED  BY <2>1, <4>1 DEF PluginInv, GrantsPermitted
      <3> QED  BY <1>6, <3>1, <3>2
    <2> QED  BY <1>1, <2>1 DEF PluginInv, GrantsPermitted
  <1> QED  BY <1>8, <1>9, <1>10, <1>11, <1>12 DEF PluginInv

(* Grant and Disable change the records of one path: what is left as it is. *)
LEMMA DisableStep ==
  ASSUME PluginInv, NEW n \in DOMAIN loaded, Disable(n)
  PROVE  PluginInv'
  <1> DEFINE p == loaded[n].path
             ls == Others(loaded, p)
  <1>1. /\ records' = [r \in DOMAIN records |->
                         IF records[r].path = p
                         THEN [records[r] EXCEPT !.enabled = FALSE] ELSE records[r]]
        /\ loaded' = ls
        /\ writing' = "begun" /\ renewed' = {}
        /\ UNCHANGED <<runs, pluginFile, unsaved, revived, permitted>>
        /\ runs = {}
    BY DEF Disable, Save, Writable
  <1>2. /\ records \in Seq(PluginRecords) /\ loaded \in Seq(PluginLoads)
        /\ Distinct(records) /\ Distinct(loaded)
    BY DEF PluginInv, PluginTypeOK
  <1>3. /\ ls \in Seq(PluginLoads)
        /\ \A i \in DOMAIN ls : \E j \in DOMAIN loaded : ls[i] = loaded[j] /\ ls[i].path # p
        /\ Distinct(ls)
    <2>1. /\ Others(loaded, p) \in Seq(PluginLoads)
          /\ \A i \in DOMAIN Others(loaded, p) : \E j \in DOMAIN loaded :
               Others(loaded, p)[i] = loaded[j] /\ loaded[j].path # p
          /\ Distinct(Others(loaded, p))
      BY <1>2, OthersFacts
    <2> QED  BY <2>1
  <1> HIDE DEF p, ls
  <1>4. /\ records' \in Seq(PluginRecords) /\ DOMAIN records' = DOMAIN records
        /\ \A i \in DOMAIN records :
             /\ records'[i].path = records[i].path /\ records'[i].granted = records[i].granted
             /\ records[i].path # p => records'[i] = records[i]
    <2>1. \A i \in DOMAIN records : records[i] \in PluginRecords
      BY <1>2
    <2>2. \A i \in DOMAIN records :
             /\ records'[i] \in PluginRecords
             /\ records'[i].path = records[i].path /\ records'[i].granted = records[i].granted
             /\ records[i].path # p => records'[i] = records[i]
      BY <1>1, <2>1 DEF PluginRecords
    <2>3. DOMAIN records' = DOMAIN records /\ DOMAIN records = 1..Len(records)
          /\ records' = [i \in DOMAIN records |-> records'[i]] /\ Len(records) \in Nat
      BY <1>1, <1>2
    <2> QED  BY <2>2, <2>3
  <1>5. PluginTypeOK'
    BY <1>1, <1>3, <1>4 DEF PluginInv, PluginTypeOK
  <1>6. Distinct(records)' /\ Distinct(loaded)' /\ Distinct(pluginFile)'
    BY <1>1, <1>3, <1>4 DEF PluginInv, Distinct
  <1>7. Registered'
    BY <1>1, <1>3, <1>4 DEF PluginInv, Registered
  <1>8. RunsLoaded'
    BY <1>1 DEF RunsLoaded
  <1>9. GrantsPermitted'
    BY <1>1, <1>4 DEF PluginInv, GrantsPermitted
  <1> QED  BY <1>5, <1>6, <1>7, <1>8, <1>9 DEF PluginInv

(* A grant enters the record and the loaded plugin together. *)
LEMMA GrantStep ==
  ASSUME PluginInv, NEW n \in DOMAIN loaded, NEW perm \in Permissions, Grant(n, perm)
  PROVE  PluginInv'
  <1> DEFINE p == loaded[n].path
  <1>1. /\ records' = [r \in DOMAIN records |->
                         IF records[r].path = p
                         THEN [records[r] EXCEPT !.granted = @ \cup {perm}] ELSE records[r]]
        /\ loaded' = [loaded EXCEPT ![n].granted = @ \cup {perm}]
        /\ permitted' = [permitted EXCEPT ![p] = @ \cup {perm}]
        /\ writing' = "begun" /\ renewed' = {} /\ writing = "no"
        /\ UNCHANGED <<runs, pluginFile, unsaved, revived>>
        /\ runs = {}
    BY DEF Grant, Save, Writable
  <1>2. /\ records \in Seq(PluginRecords) /\ loaded \in Seq(PluginLoads)
        /\ Distinct(records) /\ Distinct(loaded)
        /\ permitted \in [PluginPaths -> SUBSET Permissions] /\ p \in PluginPaths
    BY PluginFields DEF PluginInv, PluginTypeOK
  <1>3. \A i \in DOMAIN loaded : loaded[i].path = p <=> i = n
    BY <1>2 DEF Distinct
  <1> HIDE DEF p
  <1>4. /\ records' \in Seq(PluginRecords) /\ DOMAIN records' = DOMAIN records
        /\ \A i \in DOMAIN records :
             /\ records'[i].path = records[i].path /\ records'[i].enabled = records[i].enabled
             /\ records'[i].granted = records[i].granted \cup
                  (IF records[i].path = p THEN {perm} ELSE {})
    <2>1. \A i \in DOMAIN records : records[i] \in PluginRecords
      BY <1>2
    <2>2. ASSUME NEW i \in DOMAIN records
          PROVE
             /\ records'[i] \in PluginRecords
             /\ records'[i].path = records[i].path /\ records'[i].enabled = records[i].enabled
             /\ records'[i].granted = records[i].granted \cup
                  (IF records[i].path = p THEN {perm} ELSE {})
      <3>1. CASE records[i].path = p
        <4>1. records'[i] = [records[i] EXCEPT !.granted = @ \cup {perm}]
          BY <1>1, <3>1
        <4> QED  BY <2>1, <3>1, <4>1 DEF PluginRecords
      <3>2. CASE records[i].path # p
        BY <1>1, <2>1, <3>2
      <3> QED  BY <3>1, <3>2
    <2>3. DOMAIN records' = DOMAIN records /\ DOMAIN records = 1..Len(records)
          /\ records' = [i \in DOMAIN records |-> records'[i]] /\ Len(records) \in Nat
      BY <1>1, <1>2
    <2> QED  BY <2>2, <2>3
  <1>5. /\ loaded' \in Seq(PluginLoads) /\ DOMAIN loaded' = DOMAIN loaded
        /\ \A i \in DOMAIN loaded :
             /\ loaded'[i].path = loaded[i].path
             /\ loaded'[i].granted = loaded[i].granted \cup
                  (IF loaded[i].path = p THEN {perm} ELSE {})
    <2>1. \A i \in DOMAIN loaded : loaded[i] \in PluginLoads
      BY <1>2
    <2> DEFINE e == [loaded[n] EXCEPT !.granted = @ \cup {perm}]
    <2>2. loaded' = [loaded EXCEPT ![n] = e]
      BY <1>1
    <2>3. e \in PluginLoads /\ e.path = loaded[n].path /\ e.granted = loaded[n].granted \cup {perm}
      BY <2>1 DEF PluginLoads
    <2> HIDE DEF e
    <2>4. /\ loaded' \in Seq(PluginLoads) /\ DOMAIN loaded' = DOMAIN loaded
          /\ \A i \in DOMAIN loaded : loaded'[i] = IF i = n THEN e ELSE loaded[i]
      BY <1>2, <2>2, <2>3
    <2> QED  BY <1>3, <2>3, <2>4
  <1>6. /\ permitted' \in [PluginPaths -> SUBSET Permissions]
        /\ \A q \in PluginPaths :
             permitted'[q] = permitted[q] \cup (IF q = p THEN {perm} ELSE {})
    BY <1>1, <1>2
  <1>7. PluginTypeOK'
    BY <1>1, <1>4, <1>5, <1>6 DEF PluginInv, PluginTypeOK
  <1>8. Distinct(records)' /\ Distinct(loaded)' /\ Distinct(pluginFile)'
    BY <1>1, <1>4, <1>5 DEF PluginInv, Distinct
  <1>9. Registered'
    <2> SUFFICES ASSUME NEW i \in DOMAIN loaded'
                 PROVE  \E k \in DOMAIN records' :
                          /\ records'[k].path = loaded'[i].path
                          /\ records'[k].enabled /\ records'[k].granted = loaded'[i].granted
      BY DEF Registered
    <2>1. PICK k \in DOMAIN records :
            /\ records[k].path = loaded[i].path
            /\ records[k].enabled /\ records[k].granted = loaded[i].granted
      BY <1>5 DEF PluginInv, Registered
    <2>2. /\ i \in DOMAIN loaded /\ loaded'[i].path = loaded[i].path
          /\ loaded'[i].granted = loaded[i].granted \cup
               (IF loaded[i].path = p THEN {perm} ELSE {})
      BY <1>5
    <2> QED  BY <1>4, <2>1, <2>2
  <1>10. RunsLoaded'
    BY <1>1 DEF RunsLoaded
  <1>11. GrantsPermitted'
    <2>1. \A i \in DOMAIN records : records[i].path \in PluginPaths
      BY PluginFields DEF PluginInv
    <2>2. \A i \in DOMAIN pluginFile : pluginFile[i].path \in PluginPaths
      BY PluginFields DEF PluginInv
    <2>3. ASSUME ~revived, NEW i \in DOMAIN records'
          PROVE  records'[i].granted \subseteq permitted'[records'[i].path]
      <3>1. records[i].granted \subseteq permitted[records[i].path]
        BY <1>4, <2>3 DEF PluginInv, GrantsPermitted
      <3> QED  BY <1>4, <1>6, <2>1, <3>1
    <2>4. ASSUME ~revived, ~unsaved, NEW i \in DOMAIN pluginFile
          PROVE  pluginFile[i].granted \subseteq permitted'[pluginFile[i].path]
      <3>1. pluginFile[i].granted \subseteq permitted[pluginFile[i].path]
        BY <2>4 DEF PluginInv, GrantsPermitted
      <3> QED  BY <1>6, <2>2, <3>1
    <2> QED  BY <1>1, <2>3, <2>4 DEF GrantsPermitted
  <1> QED  BY <1>7, <1>8, <1>9, <1>10, <1>11 DEF PluginInv

(* The file is cut, and written, or is not. *)
LEMMA SaveStep ==
  ASSUME PluginInv, CutFile \/ EndSave
  PROVE  PluginInv'
  <1>1. CASE CutFile
    <2>1. /\ writing = "begun" /\ writing' = "cut"
          /\ UNCHANGED <<records, loaded, revived, permitted, runs, renewed, unsaved>>
      BY <1>1 DEF CutFile, hostVars
    <2>2. /\ pluginFile' \in Seq(PluginRecords)
          /\ \A i \in DOMAIN pluginFile' :
               /\ i \in DOMAIN records /\ pluginFile'[i].path = records[i].path
               /\ pluginFile'[i].granted \subseteq records[i].granted
      <3>1. CASE pluginFile' = <<>>
        BY <3>1
      <3>2. CASE \E n \in DOMAIN records : \E last \in Torn(records[n]) :
                   pluginFile' = [i \in 1..n |-> IF i < n THEN records[i] ELSE last]
        <4>0. PICK n \in DOMAIN records : \E last \in Torn(records[n]) :
                pluginFile' = [i \in 1..n |-> IF i < n THEN records[i] ELSE last]
          BY <3>2
        <4>1. PICK last \in Torn(records[n]) :
                pluginFile' = [i \in 1..n |-> IF i < n THEN records[i] ELSE last]
          BY <4>0
        <4>2. /\ n \in Nat /\ \A i \in 1..n : i \in DOMAIN records /\ records[i] \in PluginRecords
              /\ records[n] \in PluginRecords
          BY DEF PluginInv, PluginTypeOK
        <4>3. /\ last \in PluginRecords /\ last.path = records[n].path
              /\ last.granted \subseteq records[n].granted
          BY <4>2 DEF Torn, PluginRecords
        <4>4. \A i \in 1..n : /\ pluginFile'[i] \in PluginRecords
                             /\ pluginFile'[i].path = records[i].path
                             /\ pluginFile'[i].granted \subseteq records[i].granted
          <5> SUFFICES ASSUME NEW i \in 1..n
                       PROVE  /\ pluginFile'[i] \in PluginRecords
                              /\ pluginFile'[i].path = records[i].path
                              /\ pluginFile'[i].granted \subseteq records[i].granted
            OBVIOUS
          <5>1. CASE i < n
            BY <4>1, <4>2, <5>1
          <5>2. CASE i = n
            BY <4>1, <4>2, <4>3, <5>2
          <5> QED  BY <4>2, <5>1, <5>2
        <4>5. DOMAIN pluginFile' = 1..n /\ pluginFile' = [i \in 1..n |-> pluginFile'[i]]
          BY <4>1
        <4> QED  BY <4>2, <4>4, <4>5
      <3> QED  BY <1>1, <3>1, <3>2 DEF CutFile
    <2>3. PluginTypeOK' /\ Distinct(pluginFile)' /\ RunsLoaded'
      BY <2>1, <2>2 DEF PluginInv, PluginTypeOK, Distinct, RunsLoaded
    <2>4. GrantsPermitted'
      BY <2>1, <2>2 DEF PluginInv, GrantsPermitted
    <2> QED  BY <2>1, <2>3, <2>4 DEF PluginInv, Distinct, Registered
  <1>2. CASE EndSave
    <2>1. /\ \/ pluginFile' = records /\ unsaved' = FALSE
             \/ unsaved' = TRUE /\ UNCHANGED pluginFile
          /\ writing # "no" /\ writing' = "no" /\ renewed' = {}
          /\ permitted' = [p \in PluginPaths |-> IF p \in renewed THEN {} ELSE permitted[p]]
          /\ UNCHANGED <<records, loaded, runs, revived>>
      BY <1>2 DEF EndSave
    <2>2. PluginTypeOK' /\ RunsLoaded' /\ Registered'
      BY <2>1 DEF PluginInv, PluginTypeOK, RunsLoaded, Registered
    <2>3. Distinct(records)' /\ Distinct(pluginFile)' /\ Distinct(loaded)'
      BY <2>1 DEF PluginInv, Distinct
    <2>4. ASSUME ~revived, NEW i \in DOMAIN records
          PROVE  records[i].granted \subseteq permitted'[records[i].path]
      <3>1. records[i].path \in PluginPaths
        BY PluginFields DEF PluginInv
      <3> QED  BY <2>1, <2>4, <3>1 DEF PluginInv, GrantsPermitted
    <2>5. GrantsPermitted'
      BY <2>1, <2>4 DEF GrantsPermitted
    <2> QED  BY <2>2, <2>3, <2>5 DEF PluginInv
  <1> QED  BY <1>1, <1>2

(* A start: what is loaded is what the file has enabled. *)
LEMMA RestartStep ==
  ASSUME PluginInv, Restart
  PROVE  PluginInv'
  <1>1. /\ records' = pluginFile /\ runs' = {} /\ writing' = "no" /\ renewed' = {}
        /\ revived' = (revived \/ unsaved) /\ UNCHANGED <<pluginFile, unsaved, permitted>>
        /\ pluginFile \in Seq(PluginRecords) /\ Distinct(pluginFile)
    BY DEF Restart, PluginInv, PluginTypeOK
  <1>2. PICK good \in SUBSET PluginPaths :
          LET on == Kept(pluginFile, {r \in Range(pluginFile) : r.enabled /\ r.path \in good})
          IN  loaded' = [i \in DOMAIN on |-> [path |-> on[i].path, granted |-> on[i].granted]]
    BY DEF Restart
  <1> DEFINE K == {r \in Range(pluginFile) : r.enabled /\ r.path \in good}
             on == Kept(pluginFile, K)
  <1>3. on \in Seq(PluginRecords) /\ Keeps(pluginFile, K, Len(pluginFile), on)
    BY <1>1, KeptFacts
  <1>4. loaded' = [i \in DOMAIN on |-> [path |-> on[i].path, granted |-> on[i].granted]]
    BY <1>2
  <1>5. \A r \in K : r.enabled
    OBVIOUS
  <1> HIDE DEF K, on
  <1>6. /\ DOMAIN loaded' = DOMAIN on
        /\ \A i \in DOMAIN on :
             /\ loaded'[i] \in PluginLoads
             /\ loaded'[i].path = on[i].path /\ loaded'[i].granted = on[i].granted
    <2>1. \A i \in DOMAIN on : on[i] \in PluginRecords
      BY <1>3
    <2> QED  BY <1>4, <2>1 DEF PluginRecords, PluginLoads
  <1>7. loaded' \in Seq(PluginLoads)
    <2>1. DOMAIN on = 1..Len(on) /\ Len(on) \in Nat
      BY <1>3
    <2>2. loaded' = [i \in 1..Len(on) |-> loaded'[i]]
      BY <1>4, <2>1
    <2> QED  BY <1>6, <2>1, <2>2
  <1>8. Registered'
    <2>1. \A i \in DOMAIN on : \E j \in DOMAIN pluginFile :
            on[i] = pluginFile[j] /\ pluginFile[j].enabled
      BY <1>1, <1>3, <1>5 DEF Keeps
    <2> QED  BY <1>1, <1>6, <2>1 DEF Registered
  <1>9. Distinct(loaded)'
    <2>1. ASSUME NEW i \in DOMAIN on, NEW m \in DOMAIN on, i < m
          PROVE  on[i].path # on[m].path
      <3>1. PICK j \in 1..Len(pluginFile), l \in 1..Len(pluginFile) :
              j < l /\ on[i] = pluginFile[j] /\ on[m] = pluginFile[l]
        BY <1>3, <2>1 DEF Keeps
      <3> QED  BY <1>1, <3>1 DEF Distinct
    <2>2. \A i, m \in DOMAIN on : i < m \/ m < i \/ i = m
      BY <1>3
    <2> QED  BY <1>6, <2>1, <2>2 DEF Distinct
  <1>10. PluginTypeOK'
    BY <1>1, <1>7 DEF PluginInv, PluginTypeOK
  <1>11. Distinct(records)' /\ Distinct(pluginFile)' /\ RunsLoaded'
    BY <1>1 DEF PluginInv, Distinct, RunsLoaded
  <1>12. GrantsPermitted'
    BY <1>1 DEF PluginInv, GrantsPermitted
  <1> QED  BY <1>8, <1>9, <1>10, <1>11, <1>12 DEF PluginInv

(* A run starts, with the grants of its record, or ends. *)
LEMMA RunStep ==
  ASSUME PluginInv,
         (\E i \in DOMAIN loaded : StartRun(i)) \/ (\E r \in runs : EndRun(r))
  PROVE  PluginInv'
  <1>1. /\ UNCHANGED <<records, loaded, revived, permitted, pluginFile, writing, renewed, unsaved>>
        /\ \/ \E i \in DOMAIN loaded : runs' = runs \cup {loaded[i]} /\ writing = "no"
           \/ runs' \subseteq runs
    BY DEF StartRun, EndRun, hostVars
  <1>2. \A i \in DOMAIN loaded : loaded[i] \in PluginLoads
    BY DEF PluginInv, PluginTypeOK
  <1>3. PluginTypeOK' /\ RunsLoaded'
    BY <1>1, <1>2 DEF PluginInv, PluginTypeOK, RunsLoaded
  <1> QED
    BY <1>1, <1>3 DEF PluginInv, Distinct, Registered, GrantsPermitted

(* At the start nothing has run. *)
LEMMA PluginStart == PluginsInit => PluginInv
  <1> SUFFICES ASSUME PluginsInit PROVE PluginInv
    OBVIOUS
  <1>1. PluginTypeOK
    <2>1. /\ <<>> \in Seq(PluginRecords) /\ <<>> \in Seq(PluginLoads)
          /\ [p \in PluginPaths |-> {}] \in [PluginPaths -> SUBSET Permissions]
      OBVIOUS
    <2> QED  BY <2>1 DEF PluginsInit, PluginTypeOK
  <1> QED
    BY <1>1 DEF PluginsInit, PluginInv, Distinct, Registered, RunsLoaded, GrantsPermitted

(* Every step of the plugin host keeps its invariant. *)
LEMMA PluginStep == PluginInv /\ [PluginsNext]_pluginVars => PluginInv'
  <1> SUFFICES ASSUME PluginInv, [PluginsNext]_pluginVars PROVE PluginInv'
    OBVIOUS
  <1>1. CASE \E p \in PluginPaths : Install(p)
    BY <1>1, InstallStep
  <1>2. CASE \E i \in DOMAIN loaded : \E perm \in Permissions : Grant(i, perm)
    BY <1>2, GrantStep
  <1>3. CASE \E i \in DOMAIN loaded : Disable(i)
    BY <1>3, DisableStep
  <1>4. CASE (\E i \in DOMAIN loaded : StartRun(i)) \/ (\E r \in runs : EndRun(r))
    BY <1>4, RunStep
  <1>5. CASE CutFile \/ EndSave
    BY <1>5, SaveStep
  <1>6. CASE Restart
    BY <1>6, RestartStep
  <1>7. CASE UNCHANGED pluginVars
    BY <1>7
    DEF pluginVars, PluginInv, PluginTypeOK, Distinct, Registered, RunsLoaded, GrantsPermitted
  <1> QED
    BY <1>1, <1>2, <1>3, <1>4, <1>5, <1>6, <1>7 DEF PluginsNext

(* The inductive invariant of the plugin host holds in every reachable state. *)
THEOREM PluginInvariance == PluginsSpec => []PluginInv
  BY PluginStart, PluginStep, PTL DEF PluginsSpec

(* Whatever is installed, granted, disabled, saved or not, and started, a    *)
(* plugin runs enabled and with what the user has granted it since it was    *)
(* installed, unless a registry from before a failed save came back          *)
(* (install, grant, set_enabled, instantiate, PluginHost::new).              *)
THEOREM RunsAsGranted == PluginsSpec => []PluginsActAsGranted
  <1>1. PluginInv => PluginsActAsGranted
    <2> SUFFICES ASSUME PluginInv, NEW r \in runs
                 PROVE  \E i \in DOMAIN records :
                          /\ records[i].path = r.path
                          /\ records[i].enabled /\ records[i].granted = r.granted
                          /\ revived \/ records[i].granted \subseteq permitted[r.path]
      BY DEF PluginsActAsGranted
    <2>1. PICK n \in DOMAIN loaded : loaded[n] = r
      BY DEF PluginInv, RunsLoaded
    <2>2. PICK i \in DOMAIN records :
            /\ records[i].path = r.path
            /\ records[i].enabled /\ records[i].granted = r.granted
      BY <2>1 DEF PluginInv, Registered
    <2> QED  BY <2>2 DEF PluginInv, GrantsPermitted
  <1> QED  BY <1>1, PluginInvariance, PTL

------------------------------------------------------------------------------
(* The index of a volume.                                                  *)

Reasons == {"create", "newName", "oldName", "delete"}
Records == [file : FileNumbers, why : (SUBSET Reasons) \ {{}}, place : Whereabouts]

VolumeTypeOK ==
  /\ volume \in [FileNumbers -> Whereabouts]
  /\ reasons \in [FileNumbers -> SUBSET {"create", "newName"}]
  /\ journal \in Seq(Records)
  /\ entries \in [FileNumbers -> Whereabouts]
  /\ cursor \in Nat \ {0} /\ nextUsn \in Nat /\ nextUsn <= Len(journal) + 1
  /\ missed \subseteq FileNumbers

(* What a record says of where its file is. *)
Says(r) == IF r.why \cap {"create", "newName"} # {} THEN r.place ELSE Nowhere

(* The records of jr from n on bring the entry e of f to the place v: the   *)
(* last of them that is of f says so, or none is and the entry does.        *)
Brings(f, jr, n, e, v) ==
  \/ \E k \in n..Len(jr) : /\ jr[k].file = f /\ Says(jr[k]) = v
                           /\ \A m \in n..Len(jr) : m > k => jr[m].file # f
  \/ e = v /\ \A m \in n..Len(jr) : jr[m].file # f

(* While the table is read, the entries read so far are right, but for what  *)
(* is missed. Once it is, what is left of the journal will make them right.  *)
VolumeInv ==
  /\ VolumeTypeOK
  /\ nextUsn > 0 => cursor > MaxFile
  /\ nextUsn = 0 => \A f \in FileNumbers \ missed : f < cursor => entries[f] = volume[f]
  /\ nextUsn > 0 => \A f \in FileNumbers \ (missed \cup Ghosts) :
                      Brings(f, journal, nextUsn, entries[f], volume[f])

(* A record that is applied puts its file where it says. *)
LEMMA AppliedSays ==
  ASSUME NEW es \in [FileNumbers -> Whereabouts], NEW r \in Records
  PROVE  Applied(es, r) = [es EXCEPT ![r.file] = Says(r)]
  <1>1. r.file \in FileNumbers /\ r.why \in SUBSET Reasons /\ r.why # {}
    BY DEF Records
  <1>2. r.why \cap {"create", "newName"} = {} => r.why \cap {"delete", "oldName"} # {}
    BY <1>1 DEF Reasons
  <1>3. CASE r.why \cap {"create", "newName"} # {}
    <2>1. \A p, q : [[es EXCEPT ![r.file] = p] EXCEPT ![r.file] = q] = [es EXCEPT ![r.file] = q]
      BY <1>1
    <2> QED  BY <1>3, <2>1 DEF Applied, Says
  <1>4. CASE r.why \cap {"create", "newName"} = {}
    BY <1>2, <1>4 DEF Applied, Says
  <1> QED  BY <1>3, <1>4

(* Applying the first record that is left. *)
LEMMA AppliedBrings ==
  ASSUME NEW jr \in Seq(Records), NEW n \in 1..Len(jr),
         NEW es \in [FileNumbers -> Whereabouts]
  PROVE  /\ Applied(es, jr[n]) \in [FileNumbers -> Whereabouts]
         /\ \A f \in FileNumbers : \A v : Brings(f, jr, n, es[f], v) =>
              Brings(f, jr, n + 1, Applied(es, jr[n])[f], v)
  <1> DEFINE r == jr[n]
             fs == Applied(es, r)
  <1>1. r \in Records /\ r.file \in FileNumbers /\ r.place \in Whereabouts
    <2>1. jr[n] \in Records
      OBVIOUS
    <2> QED  BY <2>1 DEF Records
  <1>2. fs = [es EXCEPT ![r.file] = Says(r)]
    BY <1>1, AppliedSays
  <1>3. Says(r) \in Whereabouts
    BY <1>1 DEF Says, Whereabouts
  <1>4. fs \in [FileNumbers -> Whereabouts] /\ fs[r.file] = Says(r)
        /\ \A f \in FileNumbers : f # r.file => fs[f] = es[f]
    <2> HIDE DEF r, fs
    <2> QED  BY <1>1, <1>2, <1>3
  <1> HIDE DEF fs
  <1>5. /\ n..Len(jr) = {n} \cup (n + 1)..Len(jr) /\ n \notin (n + 1)..Len(jr)
        /\ \A m \in (n + 1)..Len(jr) : m > n
    <2>1. Len(jr) \in Nat
      OBVIOUS
    <2> QED  BY <2>1
  <1>6. ASSUME NEW f \in FileNumbers, NEW v, Brings(f, jr, n, es[f], v)
        PROVE  Brings(f, jr, n + 1, fs[f], v)
    <2>1. CASE es[f] = v /\ \A m \in n..Len(jr) : jr[m].file # f
      BY <1>4, <1>5, <2>1 DEF Brings
    <2>2. ASSUME NEW k \in n..Len(jr), jr[k].file = f, Says(jr[k]) = v,
                 \A m \in n..Len(jr) : m > k => jr[m].file # f
          PROVE  Brings(f, jr, n + 1, fs[f], v)
      <3>1. CASE k = n
        BY <1>4, <1>5, <2>2, <3>1 DEF Brings
      <3>2. CASE k \in (n + 1)..Len(jr)
        BY <1>5, <2>2, <3>2 DEF Brings
      <3> QED  BY <1>5, <3>1, <3>2
    <2> QED  BY <1>6, <2>1, <2>2 DEF Brings
  <1> QED  BY <1>4, <1>6 DEF fs

(* One step of the recursion of Replayed. *)
ReplayStep(g, b, es, jr, n) == IF n = b THEN es ELSE Applied(g[n - 1], jr[n])

(* There is a function that satisfies it. *)
LEMMA ReplayExists ==
  ASSUME NEW b \in Nat, NEW last \in Nat, b <= last, NEW es, NEW jr
  PROVE  \E g : g = [n \in b..last |-> ReplayStep(g, b, es, jr, n)]
  <1> DEFINE G(l) == \E g : g = [n \in b..l |-> ReplayStep(g, b, es, jr, n)]
             T == {m \in Nat : G(b + m)}
  <1> HIDE DEF G
  <1>1. G(b)
    <2>1. [n \in b..b |-> es] = [n \in b..b |-> ReplayStep([k \in b..b |-> es], b, es, jr, n)]
      BY DEF ReplayStep
    <2> QED  BY <2>1 DEF G
  <1>2. ASSUME NEW l \in Nat, b <= l, G(l)
        PROVE  G(l + 1)
    <2>1. PICK h : h = [n \in b..l |-> ReplayStep(h, b, es, jr, n)]
      BY <1>2 DEF G
    <2> DEFINE g == [n \in b..(l + 1) |-> IF n = l + 1 THEN ReplayStep(h, b, es, jr, n) ELSE h[n]]
    <2>2. ASSUME NEW n \in b..(l + 1)
          PROVE  g[n] = ReplayStep(g, b, es, jr, n)
      <3>1. n # b => n - 1 \in b..(l + 1) /\ n - 1 # l + 1
        BY <1>2
      <3>2. n # b => g[n - 1] = h[n - 1]
        BY <3>1
      <3>3. ReplayStep(g, b, es, jr, n) = ReplayStep(h, b, es, jr, n)
        BY <3>2 DEF ReplayStep
      <3>4. n # l + 1 => n \in b..l
        BY <1>2
      <3> QED  BY <2>1, <3>3, <3>4
    <2>3. g = [n \in b..(l + 1) |-> ReplayStep(g, b, es, jr, n)]
      <3>1. [n \in b..(l + 1) |-> ReplayStep(g, b, es, jr, n)] = [n \in b..(l + 1) |-> g[n]]
        BY <2>2
      <3> QED  BY <3>1
    <2> HIDE DEF g
    <2> QED  BY <2>3 DEF G
  <1>3. 0 \in T /\ \A n \in Nat : n \in T => n + 1 \in T
    <2>1. b + 0 = b
      OBVIOUS
    <2>2. ASSUME NEW n \in Nat, G(b + n) PROVE G(b + (n + 1))
      <3>1. b + n \in Nat /\ b <= b + n /\ (b + n) + 1 = b + (n + 1)
        OBVIOUS
      <3>2. G((b + n) + 1)
        BY <1>2, <2>2, <3>1
      <3> QED  BY <3>1, <3>2
    <2> QED  BY <1>1, <2>1, <2>2
  <1> HIDE DEF T
  <1>4. last - b \in T
    BY <1>3, Induction
  <1>5. b + (last - b) = last
    OBVIOUS
  <1>6. G(b + (last - b))
    BY <1>4 DEF T
  <1>7. G(last)
    BY <1>5, <1>6
  <1> QED  BY <1>7 DEF G

(* The rest of the journal brings the files to the same places after it has *)
(* been read up to a record as before.                                      *)
LEMMA ReplayedBrings ==
  ASSUME VolumeTypeOK, nextUsn > 0, NEW last \in nextUsn..Len(journal)
  PROVE  /\ Replayed(last) \in [FileNumbers -> Whereabouts]
         /\ \A f \in FileNumbers : \A v : Brings(f, journal, nextUsn, entries[f], v) =>
              Brings(f, journal, last + 1, Replayed(last)[f], v)
  <1> DEFINE b == nextUsn - 1
             g == CHOOSE h : h = [n \in b..last |-> ReplayStep(h, b, entries, journal, n)]
             Right(n) ==
               /\ g[n] \in [FileNumbers -> Whereabouts]
               /\ \A f \in FileNumbers : \A v : Brings(f, journal, nextUsn, entries[f], v) =>
                    Brings(f, journal, n + 1, g[n][f], v)
             T == {m \in Nat : b + m <= last => Right(b + m)}
  <1>1. /\ b \in Nat /\ last \in Nat /\ last - b \in Nat /\ b + (last - b) = last
        /\ b + 1 = nextUsn /\ journal \in Seq(Records) /\ Len(journal) \in Nat
        /\ last <= Len(journal) /\ entries \in [FileNumbers -> Whereabouts]
    BY DEF VolumeTypeOK
  <1>2. g = [n \in b..last |-> ReplayStep(g, b, entries, journal, n)]
    <2>1. b \in Nat /\ last \in Nat /\ b <= last
      BY <1>1
    <2> HIDE DEF b
    <2> QED  BY <2>1, ReplayExists
  <1>3. Replayed(last) = g[last]
    BY DEF Replayed, ReplayStep
  <1> HIDE DEF g, b
  <1>4. 0 \in T
    <2>1. b + 0 = b /\ b \in b..last
      BY <1>1
    <2>2. g[b] = entries
      BY <1>2, <2>1 DEF ReplayStep
    <2>3. Right(b)
      BY <1>1, <2>2
    <2> QED  BY <2>1, <2>3
  <1>5. ASSUME NEW m \in Nat, m \in T
        PROVE  m + 1 \in T
    <2> SUFFICES ASSUME b + (m + 1) <= last PROVE Right(b + (m + 1))
      OBVIOUS
    <2> DEFINE n == b + m + 1
    <2>1. /\ n \in b..last /\ n # b /\ n - 1 = b + m /\ n \in 1..Len(journal)
          /\ b + m <= last /\ b + (m + 1) = n /\ (b + m) + 1 = n /\ n \in Nat
      BY <1>1
    <2>2. Right(b + m)
      BY <1>5, <2>1
    <2>3. g[n] = Applied(g[b + m], journal[n])
      BY <1>2, <2>1 DEF ReplayStep
    <2> HIDE DEF n
    <2>4. /\ Applied(g[b + m], journal[n]) \in [FileNumbers -> Whereabouts]
          /\ \A f \in FileNumbers : \A v : Brings(f, journal, n, g[b + m][f], v) =>
               Brings(f, journal, n + 1, Applied(g[b + m], journal[n])[f], v)
      BY <1>1, <2>1, <2>2, AppliedBrings
    <2>5. Right(n)
      BY <2>1, <2>2, <2>3, <2>4
    <2> QED  BY <2>1, <2>5
  <1> HIDE DEF T
  <1>6. last - b \in T
    BY <1>1, <1>4, <1>5, Induction
  <1>7. Right(last)
    BY <1>1, <1>6 DEF T
  <1> QED  BY <1>3, <1>7

(* What is written to the journal of f alone, the last of it saying where f *)
(* is now, brings f there, and others to where they were brought before.    *)
LEMMA WrittenBrings ==
  ASSUME NEW jr \in Seq(Records), NEW f \in FileNumbers, NEW s \in Seq(Records),
         s # <<>>, \A i \in 1..Len(s) : s[i].file = f,
         NEW n \in 1..Len(jr) + 1
  PROVE  /\ jr \o s \in Seq(Records) /\ Len(jr \o s) = Len(jr) + Len(s)
         /\ \A e : Brings(f, jr \o s, n, e, Says(s[Len(s)]))
         /\ \A g \in FileNumbers : \A e, v : g # f /\ Brings(g, jr, n, e, v) =>
              Brings(g, jr \o s, n, e, v)
  <1> DEFINE js == jr \o s
             a == Len(jr)
             c == Len(s)
  <1>1. a \in Nat /\ c \in Nat \ {0}
    BY EmptySeq, LenProperties
  <1>2. /\ js \in Seq(Records) /\ Len(js) = a + c
        /\ \A i \in 1..(a + c) : js[i] = IF i <= a THEN jr[i] ELSE s[i - a]
    BY ConcatProperties
  <1> HIDE DEF js, a, c
  <1>3. n \in 1..(a + 1)
    BY DEF a
  <1>4. \A i \in n..a : i \in n..(a + c) /\ js[i] = jr[i]
    BY <1>1, <1>2, <1>3
  <1>5. \A i \in n..(a + c) : i \in n..a \/ (i > a /\ js[i].file = f)
    <2> SUFFICES ASSUME NEW i \in n..(a + c), ~(i \in n..a)
                 PROVE  i > a /\ js[i].file = f
      OBVIOUS
    <2>1. i > a /\ i \in 1..(a + c) /\ ~(i <= a) /\ i - a \in 1..c
      BY <1>1, <1>3
    <2> QED  BY <1>2, <2>1 DEF c
  <1>6. ASSUME NEW e
        PROVE  Brings(f, js, n, e, Says(s[c]))
    <2>1. a + c \in n..(a + c) /\ a + c \in 1..(a + c) /\ ~(a + c <= a) /\ (a + c) - a = c
          /\ c \in 1..c
      BY <1>1, <1>3
    <2>2. js[a + c] = s[c] /\ s[c].file = f
      BY <1>2, <2>1 DEF c
    <2>3. \A m \in n..(a + c) : ~(m > a + c)
      BY <1>1, <1>3
    <2> QED  BY <1>2, <2>1, <2>2, <2>3 DEF Brings
  <1>7. ASSUME NEW g \in FileNumbers, NEW e, NEW v, g # f, Brings(g, jr, n, e, v)
        PROVE  Brings(g, js, n, e, v)
    <2>1. CASE e = v /\ \A m \in n..a : jr[m].file # g
      <3>1. \A m \in n..(a + c) : js[m].file # g
        BY <1>4, <1>5, <1>7, <2>1
      <3> QED  BY <1>2, <2>1, <3>1 DEF Brings
    <2>2. ASSUME NEW k \in n..a, jr[k].file = g, Says(jr[k]) = v,
                 \A m \in n..a : m > k => jr[m].file # g
          PROVE  Brings(g, js, n, e, v)
      <3>1. k \in n..(a + c) /\ js[k].file = g /\ Says(js[k]) = v
        BY <1>4, <2>2
      <3>2. \A m \in n..(a + c) : m > k => js[m].file # g
        BY <1>4, <1>5, <1>7, <2>2
      <3> QED  BY <1>2, <3>1, <3>2 DEF Brings
    <2> QED  BY <1>7, <2>1, <2>2 DEF Brings, a
  <1> QED  BY <1>2, <1>6, <1>7 DEF js, a, c

(* The operations on f: what is written of it, and what it is then. *)
LEMMA OperationStep ==
  ASSUME VolumeInv, NEW f \in FileNumbers, NEW s \in Seq(Records), s # <<>>,
         \A i \in 1..Len(s) : s[i].file = f,
         journal' = journal \o s,
         VolumeTypeOK',
         \A g \in FileNumbers : g # f =>
           /\ volume'[g] = volume[g] /\ reasons'[g] = reasons[g]
           /\ g \in missed' <=> g \in missed,
         Says(s[Len(s)]) = volume'[f] \/ f \in Ghosts',
         \/ volume'[f] = volume[f] /\ (f \in missed' <=> f \in missed)
         \/ nextUsn = 0 /\ f < cursor => f \in missed',
         UNCHANGED <<entries, cursor, nextUsn>>
  PROVE  VolumeInv'
  <1>1. VolumeTypeOK /\ journal \in Seq(Records) /\ nextUsn \in Nat /\ Len(journal) \in Nat
        /\ nextUsn <= Len(journal) + 1
    BY DEF VolumeInv, VolumeTypeOK
  <1>2. nextUsn' > 0 => cursor' > MaxFile'
    BY DEF VolumeInv
  <1>3. nextUsn' = 0 => \A g \in FileNumbers \ missed' : g < cursor' => entries'[g] = volume'[g]
    BY DEF VolumeInv
  <1>4. ASSUME nextUsn' > 0, NEW g \in FileNumbers \ (missed' \cup Ghosts')
        PROVE  Brings(g, journal', nextUsn', entries'[g], volume'[g])
    <2>1. nextUsn \in 1..Len(journal) + 1 /\ nextUsn > 0
      BY <1>1, <1>4
    <2>2. /\ \A e : Brings(f, journal', nextUsn, e, Says(s[Len(s)]))
          /\ \A h \in FileNumbers : \A e, v : h # f /\ Brings(h, journal, nextUsn, e, v) =>
               Brings(h, journal', nextUsn, e, v)
      BY <1>1, <2>1, WrittenBrings
    <2>3. CASE g = f
      BY <1>4, <2>2, <2>3
    <2>4. CASE g # f
      <3>1. g \notin missed \cup Ghosts
        BY <1>4, <2>4 DEF Ghosts
      <3>2. Brings(g, journal, nextUsn, entries[g], volume[g])
        BY <2>1, <3>1 DEF VolumeInv
      <3> QED  BY <2>2, <2>4, <3>2
    <2> QED  BY <2>3, <2>4
  <1> QED  BY <1>2, <1>3, <1>4 DEF VolumeInv

(* What a step of the volume writes is of one file and says where it is. *)
LEMMA ChangeStep ==
  ASSUME VolumeInv, NEW f \in FileNumbers,
         CloseFile(f) \/ DeleteFile(f)
           \/ \E p \in FilePlaces : CreateFile(f, p) \/ RenameFile(f, p)
  PROVE  VolumeInv'
  <1>1. /\ volume \in [FileNumbers -> Whereabouts] /\ volume[f] \in Whereabouts
        /\ reasons \in [FileNumbers -> SUBSET {"create", "newName"}]
        /\ reasons[f] \in SUBSET {"create", "newName"}
        /\ journal \in Seq(Records) /\ Len(journal) \in Nat
        /\ entries \in [FileNumbers -> Whereabouts]
        /\ cursor \in Nat \ {0} /\ nextUsn \in Nat /\ nextUsn <= Len(journal) + 1
        /\ missed \subseteq FileNumbers
    BY DEF VolumeInv, VolumeTypeOK
  <1>2. \A s \in Seq(Records) : /\ journal \o s \in Seq(Records)
                                /\ Len(journal \o s) = Len(journal) + Len(s) /\ Len(s) \in Nat
    BY <1>1, ConcatProperties, LenProperties
  <1>3. \A w \in (SUBSET Reasons) \ {{}} : \A p \in Whereabouts :
          /\ Record(f, w, p) \in Records /\ Record(f, w, p).file = f
          /\ Says(Record(f, w, p)) = IF w \cap {"create", "newName"} # {} THEN p ELSE Nowhere
    BY DEF Record, Records, Says
  <1>4. \A r \in Records : /\ <<r>> \in Seq(Records) /\ <<r>> # <<>> /\ Len(<<r>>) = 1
                           /\ \A i \in 1..1 : <<r>>[i] = r
                           /\ Append(journal, r) = journal \o <<r>>
    BY <1>1
  <1>5. ASSUME NEW r \in Records, r.file = f, journal' = Append(journal, r),
               volume' \in [FileNumbers -> Whereabouts],
               reasons' \in [FileNumbers -> SUBSET {"create", "newName"}],
               missed' \subseteq FileNumbers,
               \A g \in FileNumbers : g # f =>
                 /\ volume'[g] = volume[g] /\ reasons'[g] = reasons[g]
                 /\ g \in missed' <=> g \in missed,
               Says(r) = volume'[f] \/ f \in Ghosts',
               \/ volume'[f] = volume[f] /\ (f \in missed' <=> f \in missed)
               \/ nextUsn = 0 /\ f < cursor => f \in missed',
               UNCHANGED <<entries, cursor, nextUsn>>
        PROVE  VolumeInv'
    <2> DEFINE s == <<r>>
    <2>1. s \in Seq(Records) /\ s # <<>> /\ Len(s) = 1 /\ journal' = journal \o s
          /\ s[1] = r /\ \A i \in 1..Len(s) : s[i].file = f
      BY <1>4, <1>5
    <2> HIDE DEF s
    <2>2. VolumeTypeOK'
      BY <1>1, <1>2, <1>5, <2>1 DEF VolumeTypeOK
    <2>3. Says(s[Len(s)]) = volume'[f] \/ f \in Ghosts'
      BY <1>5, <2>1
    <2> QED  BY <1>5, <2>1, <2>2, <2>3, OperationStep
  <1>6. ASSUME Learns(f)
        PROVE  /\ missed' \subseteq FileNumbers
               /\ \A g \in FileNumbers : g # f => (g \in missed' <=> g \in missed)
               /\ nextUsn = 0 /\ f < cursor => f \in missed'
    BY <1>1, <1>6 DEF Learns, FileNumbers
  <1>7. {"create"} \in (SUBSET Reasons) \ {{}} /\ Reasons \in SUBSET Reasons
        /\ \A w \in SUBSET {"create", "newName"} :
             /\ w # {} => w \in (SUBSET Reasons) \ {{}}
             /\ w \cup {"delete"} \in (SUBSET Reasons) \ {{}}
             /\ w \cup {"newName"} \in (SUBSET Reasons) \ {{}}
             /\ (w \ {"newName"}) \cup {"oldName"} \in (SUBSET Reasons) \ {{}}
             /\ w # {} => w \cap {"create", "newName"} # {}
    BY DEF Reasons
  <1>8. ASSUME NEW p \in FilePlaces, CreateFile(f, p)
        PROVE  VolumeInv'
    <2> DEFINE r == Record(f, {"create"}, p)
    <2>1. p \in Whereabouts
      BY DEF Whereabouts
    <2>2. r \in Records /\ r.file = f /\ Says(r) = p
      BY <1>3, <1>7, <2>1
    <2> HIDE DEF r
    <2>3. /\ journal' = Append(journal, r) /\ volume' = [volume EXCEPT ![f] = p]
          /\ reasons' = [reasons EXCEPT ![f] = {"create"}]
          /\ Learns(f) /\ UNCHANGED <<entries, cursor, nextUsn>>
      BY <1>8 DEF CreateFile, r
    <2>4. {"create"} \in SUBSET {"create", "newName"}
      OBVIOUS
    <2>5. /\ volume' \in [FileNumbers -> Whereabouts] /\ volume'[f] = p
          /\ reasons' \in [FileNumbers -> SUBSET {"create", "newName"}]
          /\ \A g \in FileNumbers : g # f => volume'[g] = volume[g] /\ reasons'[g] = reasons[g]
      BY <1>1, <2>1, <2>3, <2>4
    <2> QED  BY <1>5, <1>6, <2>2, <2>3, <2>5
  <1>9. ASSUME NEW p \in FilePlaces, RenameFile(f, p)
        PROVE  VolumeInv'
    <2> DEFINE old == Record(f, (reasons[f] \ {"newName"}) \cup {"oldName"}, volume[f])
               new == Record(f, reasons[f] \cup {"newName"}, p)
               s == <<old, new>>
    <2>1. p \in Whereabouts
      BY DEF Whereabouts
    <2>2. /\ volume' = [volume EXCEPT ![f] = p]
          /\ reasons' = [reasons EXCEPT ![f] = reasons[f] \cup {"newName"}]
          /\ Learns(f) /\ UNCHANGED <<entries, cursor, nextUsn>>
      BY <1>9 DEF RenameFile
    <2>3. reasons'[f] = reasons[f] \cup {"newName"}
      BY <1>1, <2>2
    <2>4. journal' = journal \o s
      BY <1>9, <2>3 DEF RenameFile
    <2>5. old \in Records /\ old.file = f
      BY <1>1, <1>3, <1>7
    <2>6. new \in Records /\ new.file = f /\ Says(new) = p
      <3> DEFINE w == reasons[f] \cup {"newName"}
      <3>1. w \in (SUBSET Reasons) \ {{}} /\ w \cap {"create", "newName"} # {}
        BY <1>1, <1>7
      <3> HIDE DEF w
      <3>2. Record(f, w, p) \in Records /\ Record(f, w, p).file = f /\ Says(Record(f, w, p)) = p
        BY <1>3, <2>1, <3>1
      <3> QED  BY <3>2 DEF w
    <2> HIDE DEF old, new
    <2>7. /\ s \in Seq(Records) /\ s # <<>> /\ Len(s) = 2 /\ s[2] = new
          /\ \A i \in 1..Len(s) : s[i].file = f
      BY <2>5, <2>6
    <2> HIDE DEF s
    <2>8. reasons[f] \cup {"newName"} \in SUBSET {"create", "newName"}
      BY <1>1
    <2>9. /\ volume' \in [FileNumbers -> Whereabouts] /\ volume'[f] = p
          /\ reasons' \in [FileNumbers -> SUBSET {"create", "newName"}]
          /\ \A g \in FileNumbers : g # f => volume'[g] = volume[g] /\ reasons'[g] = reasons[g]
      BY <1>1, <2>1, <2>2, <2>8
    <2>10. VolumeTypeOK'
      BY <1>1, <1>2, <1>6, <2>2, <2>4, <2>7, <2>9 DEF VolumeTypeOK
    <2>11. Says(s[Len(s)]) = volume'[f]
      BY <2>6, <2>7, <2>9
    <2> QED  BY <1>6, <2>2, <2>4, <2>7, <2>9, <2>10, <2>11, OperationStep
  <1>10. ASSUME CloseFile(f)
         PROVE  VolumeInv'
    <2> DEFINE r == Record(f, reasons[f], volume[f])
    <2>1. /\ journal' = Append(journal, r) /\ reasons[f] # {}
          /\ reasons' = [reasons EXCEPT ![f] = {}]
          /\ UNCHANGED <<volume, entries, cursor, nextUsn, missed>>
      BY <1>10 DEF CloseFile
    <2>2. r \in Records /\ r.file = f /\ Says(r) = volume[f]
      BY <1>1, <1>3, <1>7, <2>1
    <2> HIDE DEF r
    <2>3. {} \in SUBSET {"create", "newName"}
      OBVIOUS
    <2>4. /\ reasons' \in [FileNumbers -> SUBSET {"create", "newName"}]
          /\ \A g \in FileNumbers : g # f => reasons'[g] = reasons[g]
      BY <1>1, <2>1, <2>3
    <2> QED  BY <1>1, <1>5, <2>1, <2>2, <2>4
  <1>11. ASSUME DeleteFile(f)
         PROVE  VolumeInv'
    <2> DEFINE r == Record(f, reasons[f] \cup {"delete"}, volume[f])
    <2>1. /\ journal' = Append(journal, r) /\ volume' = [volume EXCEPT ![f] = Nowhere]
          /\ Learns(f) /\ UNCHANGED <<reasons, entries, cursor, nextUsn>>
      BY <1>11 DEF DeleteFile
    <2>2. r \in Records /\ r.file = f /\ (reasons[f] = {} => Says(r) = Nowhere)
      <3> DEFINE w == reasons[f] \cup {"delete"}
      <3>1. /\ w \in (SUBSET Reasons) \ {{}}
            /\ reasons[f] = {} => w \cap {"create", "newName"} = {}
        BY <1>1, <1>7
      <3> HIDE DEF w
      <3>2. /\ Record(f, w, volume[f]) \in Records /\ Record(f, w, volume[f]).file = f
            /\ reasons[f] = {} => Says(Record(f, w, volume[f])) = Nowhere
        BY <1>1, <1>3, <3>1
      <3> QED  BY <3>2 DEF w
    <2> HIDE DEF r
    <2>3. Nowhere \in Whereabouts
      BY DEF Whereabouts
    <2>4. /\ volume' \in [FileNumbers -> Whereabouts] /\ volume'[f] = Nowhere
          /\ \A g \in FileNumbers : g # f => volume'[g] = volume[g]
      BY <1>1, <2>1, <2>3
    <2>5. Says(r) = volume'[f] \/ f \in Ghosts'
      BY <2>1, <2>2, <2>4 DEF Ghosts
    <2> QED  BY <1>1, <1>5, <1>6, <2>1, <2>2, <2>4, <2>5
  <1> QED  BY <1>8, <1>9, <1>10, <1>11

(* Reading the table, asking where the journal stands, and following it. *)
LEMMA IndexStep ==
  ASSUME VolumeInv, ReadTable \/ QueryJournal \/ TailJournal
  PROVE  VolumeInv'
  <1>1. /\ volume \in [FileNumbers -> Whereabouts] /\ journal \in Seq(Records)
        /\ Len(journal) \in Nat /\ entries \in [FileNumbers -> Whereabouts]
        /\ cursor \in Nat \ {0} /\ nextUsn \in Nat /\ nextUsn <= Len(journal) + 1
        /\ MaxFile \in Nat /\ FileNumbers = 1..MaxFile
    BY VolumeAssumption DEF VolumeInv, VolumeTypeOK, FileNumbers
  <1>2. ASSUME UNCHANGED <<volume, reasons, missed>> PROVE Ghosts' = Ghosts
    BY <1>2 DEF Ghosts
  <1>3. CASE ReadTable
    <2>1. /\ cursor \in FileNumbers /\ entries' = [entries EXCEPT ![cursor] = volume[cursor]]
          /\ cursor' = cursor + 1
          /\ UNCHANGED <<volume, reasons, journal, nextUsn, missed>>
      BY <1>3 DEF ReadTable, diskVars
    <2>2. nextUsn = 0
      BY <1>1, <2>1 DEF VolumeInv
    <2>3. /\ entries' \in [FileNumbers -> Whereabouts] /\ entries'[cursor] = volume[cursor]
          /\ \A f \in FileNumbers : f # cursor => entries'[f] = entries[f]
      BY <1>1, <2>1
    <2>4. VolumeTypeOK'
      BY <1>1, <2>1, <2>3 DEF VolumeInv, VolumeTypeOK
    <2>5. ASSUME NEW f \in FileNumbers \ missed, f < cursor'
          PROVE  entries'[f] = volume'[f]
      <3>1. f = cursor \/ f < cursor
        BY <1>1, <2>1, <2>5
      <3> QED  BY <2>1, <2>2, <2>3, <2>5, <3>1 DEF VolumeInv
    <2> QED  BY <2>1, <2>2, <2>4, <2>5 DEF VolumeInv
  <1>4. CASE QueryJournal
    <2>1. /\ cursor > MaxFile /\ nextUsn = 0 /\ nextUsn' = Len(journal) + 1
          /\ UNCHANGED <<volume, reasons, journal, entries, cursor, missed>>
      BY <1>4 DEF QueryJournal, diskVars
    <2>2. VolumeTypeOK'
      BY <1>1, <2>1 DEF VolumeInv, VolumeTypeOK
    <2>3. ASSUME NEW f \in FileNumbers \ missed
          PROVE  Brings(f, journal, nextUsn', entries[f], volume[f])
      <3>1. f < cursor
        BY <1>1, <2>1
      <3>2. entries[f] = volume[f]
        BY <2>1, <2>3, <3>1 DEF VolumeInv
      <3>3. \A m \in nextUsn'..Len(journal) : FALSE
        BY <1>1, <2>1
      <3> QED  BY <3>2, <3>3 DEF Brings
    <2>4. nextUsn' > 0 /\ nextUsn' # 0
      BY <1>1, <2>1
    <2> QED  BY <2>1, <2>2, <2>3, <2>4 DEF VolumeInv
  <1>5. CASE TailJournal
    <2>1. PICK last \in nextUsn..Len(journal) :
            entries' = Replayed(last) /\ nextUsn' = last + 1
      BY <1>5 DEF TailJournal
    <2>2. nextUsn > 0 /\ UNCHANGED <<volume, reasons, journal, cursor, missed>>
      BY <1>5 DEF TailJournal, diskVars
    <2>3. /\ entries' \in [FileNumbers -> Whereabouts]
          /\ \A f \in FileNumbers : \A v : Brings(f, journal, nextUsn, entries[f], v) =>
               Brings(f, journal, nextUsn', entries'[f], v)
      BY <2>1, <2>2, ReplayedBrings DEF VolumeInv
    <2>4. nextUsn' \in Nat /\ nextUsn' > 0 /\ nextUsn' # 0 /\ nextUsn' <= Len(journal) + 1
      BY <1>1, <2>1
    <2>5. VolumeTypeOK'
      BY <2>2, <2>3, <2>4 DEF VolumeInv, VolumeTypeOK
    <2> QED  BY <1>2, <2>2, <2>3, <2>4, <2>5 DEF VolumeInv
  <1> QED  BY <1>3, <1>4, <1>5

(* Every step of volume and index keeps the invariant. *)
LEMMA VolumeStep == VolumeInv /\ [VolumeNext]_volumeVars => VolumeInv'
  <1> SUFFICES ASSUME VolumeInv, [VolumeNext]_volumeVars PROVE VolumeInv'
    OBVIOUS
  <1>1. CASE UNCHANGED volumeVars
    BY <1>1 DEF volumeVars, VolumeInv, VolumeTypeOK, Ghosts
  <1> QED  BY <1>1, ChangeStep, IndexStep DEF VolumeNext

(* Nothing is read and nothing has been written at the start. *)
LEMMA VolumeStart == VolumeInit => VolumeInv
  <1> SUFFICES ASSUME VolumeInit PROVE VolumeInv
    OBVIOUS
  <1>1. VolumeTypeOK
    <2>1. <<>> \in Seq(Records) /\ Len(<<>>) = 0
      OBVIOUS
    <2> QED  BY <2>1 DEF VolumeInit, VolumeTypeOK, Whereabouts
  <1>2. \A f \in FileNumbers : ~(f < 1)
    BY VolumeAssumption DEF FileNumbers
  <1> QED  BY <1>1, <1>2 DEF VolumeInit, VolumeInv

(* The inductive invariant of the index holds in every reachable state. *)
THEOREM VolumeInvariance == VolumeSpec => []VolumeInv
  BY VolumeStart, VolumeStep, PTL DEF VolumeSpec

(* Whenever it has caught up with the journal, the index has every file      *)
(* where it is, but for those missed before the journal was asked and those  *)
(* deleted before they were closed, however files are created, renamed,      *)
(* closed and deleted while the table is read and the journal followed       *)
(* (MftIndex::build, spawn_usn_tail).                                        *)
THEOREM IndexIsCurrent == VolumeSpec => []IndexFollowsDisk
  <1>1. VolumeInv => IndexFollowsDisk
    <2> SUFFICES ASSUME VolumeInv, nextUsn = Len(journal) + 1,
                        NEW f \in FileNumbers \ (missed \cup Ghosts)
                 PROVE  entries[f] = volume[f]
      BY DEF IndexFollowsDisk
    <2>1. Len(journal) \in Nat /\ nextUsn > 0
      BY DEF VolumeInv, VolumeTypeOK
    <2>2. Brings(f, journal, nextUsn, entries[f], volume[f])
      BY <2>1 DEF VolumeInv
    <2>3. \A m \in nextUsn..Len(journal) : FALSE
      BY <2>1
    <2> QED  BY <2>2, <2>3 DEF Brings
  <1> QED  BY <1>1, VolumeInvariance, PTL

------------------------------------------------------------------------------
(* The comparison of two folders.                                          *)

Sides == {"left", "right"}
Kinds == {"LeftOnly", "RightOnly", "Same", "NewerLeft", "NewerRight"}
Filters == {"All", "LeftOnly", "RightOnly", "Different", "Same"}
Shown == ComparedFolders \cup {"none"}
Rows == [name : Nat, left : Shown, right : Shown, on : (SUBSET Sides) \ {{}},
         kind : Kinds, dir : BOOLEAN]

CompareTypeOK ==
  /\ compare \in [open : BOOLEAN, left : Shown, right : Shown, deep : BOOLEAN,
                  filter : Filters, rows : Seq(Rows), running : BOOLEAN, id : Nat,
                  selected : SUBSET Nat]
  /\ compareJobs \in SUBSET [id : Nat, left : Shown, right : Shown, deep : BOOLEAN]

(* No row is there twice. *)
Single(rows) == \A i, j \in DOMAIN rows : rows[i] = rows[j] => i = j

(* The rows are of the folders l and r. *)
Compares(rows, l, r) == \A i \in DOMAIN rows : rows[i].left = l /\ rows[i].right = r

(* The answer that is awaited will be of the folders that are named. *)
JobsFollow ==
  \A j \in compareJobs :
    /\ j.id <= compare.id
    /\ j.id = compare.id => j.left = compare.left /\ j.right = compare.right

Ticks(rows, selected) == {rows[i] : i \in selected \cap DOMAIN rows}

(* What has been ordered is done to something. *)
Ordered == \A o \in ordered : o.from # {} /\ o.from \subseteq o.row.on

CompareInv ==
  /\ CompareTypeOK
  /\ JobsFollow
  /\ Single(compare.rows) /\ Compares(compare.rows, compare.left, compare.right)
  /\ compare.selected \subseteq DOMAIN compare.rows
  /\ Ticks(compare.rows, compare.selected) = ticked
  /\ Ordered

(* The rows of a comparison are of its folders, each name once, and each is  *)
(* there on a side.                                                        *)
LEMMA ComparedRows ==
  ASSUME NEW found, NEW l \in Shown, NEW r \in Shown, NEW deep
  PROVE  LET rows == CompareFolders(found, l, r, deep)
         IN  rows \in Seq(Rows) /\ Single(rows) /\ Compares(rows, l, r)
  <1> DEFINE reach == {Sub} \cup TopNames \cup (IF deep THEN DeepNames ELSE {})
             a == found.left
             b == found.right
             names == reach \cap (DOMAIN a \cup DOMAIN b)
             row(n) == [name |-> n, left |-> l, right |-> r,
                        on |-> {s \in {"left", "right"} :
                                  n \in DOMAIN (IF s = "left" THEN a ELSE b)},
                        kind |-> IF n \notin DOMAIN b THEN "LeftOnly"
                                 ELSE IF n \notin DOMAIN a THEN "RightOnly"
                                 ELSE KindOf(a[n], b[n]),
                        dir |-> \E d \in {a, b} : n \in DOMAIN d /\ d[n].dir]
             c == Cardinality(names)
             order == CHOOSE s \in [1..c -> names] : \A i, j \in 1..c : i < j => s[i] < s[j]
             rows == [i \in 1..c |-> row(order[i])]
  <1>1. CompareFolders(found, l, r, deep) = rows
    BY DEF CompareFolders
  <1>2. reach \subseteq Nat /\ IsFiniteSet(reach)
    <2>1. IsFiniteSet(TopNames) /\ IsFiniteSet(DeepNames) /\ IsFiniteSet({Sub}) /\ IsFiniteSet({})
      BY CompareAssumption, FS_Singleton, FS_EmptySet
    <2>2. IsFiniteSet({Sub} \cup TopNames)
      BY <2>1, FS_Union
    <2>3. IsFiniteSet({Sub} \cup TopNames \cup DeepNames) /\ IsFiniteSet({Sub} \cup TopNames \cup {})
      BY <2>1, <2>2, FS_Union
    <2>4. CASE deep
      BY <2>3, <2>4, CompareAssumption DEF Sub
    <2>5. CASE ~deep
      BY <2>3, <2>5, CompareAssumption DEF Sub
    <2> QED  BY <2>4, <2>5
  <1>3. names \in SUBSET Nat /\ IsFiniteSet(names)
    <2>1. names \subseteq reach
      OBVIOUS
    <2> QED  BY <1>2, <2>1, FS_Subset
  <1>4. \A n \in names : row(n) \in Rows /\ row(n).name = n
                         /\ row(n).left = l /\ row(n).right = r
    <2> SUFFICES ASSUME NEW n \in names
                 PROVE  row(n) \in Rows /\ row(n).name = n /\ row(n).left = l /\ row(n).right = r
      OBVIOUS
    <2> DEFINE on == row(n).on
               kind == row(n).kind
               dir == row(n).dir
    <2>1. on \in (SUBSET Sides) \ {{}}
      <3>1. n \in DOMAIN a \/ n \in DOMAIN b
        OBVIOUS
      <3>2. on = {s \in {"left", "right"} : n \in DOMAIN (IF s = "left" THEN a ELSE b)}
        OBVIOUS
      <3>3. n \in DOMAIN a => "left" \in on
        BY <3>2
      <3>4. n \in DOMAIN b => "right" \in on
        BY <3>2
      <3> QED  BY <3>1, <3>2, <3>3, <3>4 DEF Sides
    <2>2. kind \in Kinds
      <3>1. \A x, y : KindOf(x, y) \in Kinds
        BY DEF KindOf, Kinds
      <3>2. kind = IF n \notin DOMAIN b THEN "LeftOnly"
                   ELSE IF n \notin DOMAIN a THEN "RightOnly" ELSE KindOf(a[n], b[n])
        OBVIOUS
      <3> QED  BY <3>1, <3>2 DEF Kinds
    <2>3. dir \in BOOLEAN
      <3>1. dir = (\E d \in {a, b} : n \in DOMAIN d /\ d[n].dir)
        OBVIOUS
      <3> QED  BY <3>1
    <2>4. row(n) = [name |-> n, left |-> l, right |-> r, on |-> on, kind |-> kind, dir |-> dir]
      OBVIOUS
    <2>5. n \in Nat
      BY <1>3
    <2> HIDE DEF on, kind, dir, row
    <2> QED  BY <2>1, <2>2, <2>3, <2>4, <2>5 DEF Rows
  <1> HIDE DEF reach, names, row
  <1>5. /\ c \in Nat /\ order \in [1..c -> names]
        /\ \A i, j \in 1..c : i < j => order[i] < order[j]
    <2>1. \E s \in [1..c -> names] : \A i, j \in 1..c : i < j => s[i] < s[j]
      BY <1>3, Enumeration DEF Increasing
    <2>2. c \in Nat
      BY <1>3, FS_CardinalityType
    <2> QED  BY <2>1, <2>2
  <1> HIDE DEF order, c
  <1>6. /\ DOMAIN rows = 1..c
        /\ \A i \in 1..c : /\ rows[i] \in Rows /\ rows[i].name = order[i]
                           /\ rows[i].left = l /\ rows[i].right = r
    BY <1>4, <1>5
  <1>7. rows \in Seq(Rows)
    <2>1. rows \in [1..c -> Rows]
      BY <1>4, <1>5
    <2> HIDE DEF rows
    <2> QED  BY <1>5, <2>1, IsASeq
  <1> HIDE DEF rows
  <1>8. Single(rows)
    <2> SUFFICES ASSUME NEW i \in 1..c, NEW j \in 1..c, rows[i] = rows[j], i # j
                 PROVE  FALSE
      BY <1>6 DEF Single
    <2>1. order[i] = order[j] /\ order[i] \in Nat
      BY <1>3, <1>5, <1>6
    <2>2. i < j \/ j < i
      BY <1>5
    <2>3. order[i] < order[j] \/ order[j] < order[i]
      BY <1>5, <2>2
    <2> QED  BY <2>1, <2>3
  <1>9. Compares(rows, l, r)
    BY <1>6 DEF Compares
  <1> QED  BY <1>1, <1>7, <1>8, <1>9

(* The state and its parts. *)
LEMMA CompareFields ==
  ASSUME CompareTypeOK
  PROVE  /\ compare.open \in BOOLEAN /\ compare.left \in Shown /\ compare.right \in Shown
         /\ compare.deep \in BOOLEAN /\ compare.filter \in Filters
         /\ compare.rows \in Seq(Rows) /\ compare.running \in BOOLEAN
         /\ compare.id \in Nat /\ compare.selected \in SUBSET Nat
         /\ \A i \in DOMAIN compare.rows : i \in Nat /\ compare.rows[i] \in Rows
  <1>1. compare.rows \in Seq(Rows)
    BY DEF CompareTypeOK
  <1>2. \A i \in DOMAIN compare.rows : i \in Nat /\ compare.rows[i] \in Rows
    BY <1>1
  <1> QED  BY <1>1, <1>2 DEF CompareTypeOK

(* A comparison is asked for, of the folders l and r; what is shown stays,   *)
(* or nothing is.                                                          *)
LEMMA AskedStep ==
  ASSUME CompareInv, NEW c, RunCompare(c), UNCHANGED ordered,
         c \in [open : BOOLEAN, left : Shown, right : Shown, deep : BOOLEAN,
                filter : Filters, rows : Seq(Rows), running : BOOLEAN, id : Nat,
                selected : SUBSET Nat],
         c.id = compare.id,
         \/ /\ c.left = compare.left /\ c.right = compare.right
            /\ c.rows = compare.rows /\ c.selected = compare.selected /\ ticked' = ticked
         \/ c.rows = <<>> /\ c.selected = {} /\ ticked' = {}
  PROVE  CompareInv'
  <1> DEFINE j == [id |-> c.id + 1, left |-> c.left, right |-> c.right, deep |-> c.deep]
  <1>1. /\ c.id \in Nat /\ c.left \in Shown /\ c.right \in Shown /\ c.deep \in BOOLEAN
        /\ c.rows \in Seq(Rows) /\ c.selected \in SUBSET Nat
        /\ c.open \in BOOLEAN /\ c.filter \in Filters
        /\ c = [open |-> c.open, left |-> c.left, right |-> c.right, deep |-> c.deep,
                filter |-> c.filter, rows |-> c.rows, running |-> c.running,
                id |-> c.id, selected |-> c.selected]
    OBVIOUS
  <1>2. /\ compare' = [c EXCEPT !.id = @ + 1, !.running = TRUE]
        /\ compareJobs' = compareJobs \cup {j}
    BY DEF RunCompare
  <1>3. /\ compare' \in [open : BOOLEAN, left : Shown, right : Shown, deep : BOOLEAN,
                         filter : Filters, rows : Seq(Rows), running : BOOLEAN, id : Nat,
                         selected : SUBSET Nat]
        /\ compare'.id = c.id + 1 /\ compare'.left = c.left /\ compare'.right = c.right
        /\ compare'.rows = c.rows /\ compare'.selected = c.selected
    <2>1. compare' = [open |-> c.open, left |-> c.left, right |-> c.right,
                      deep |-> c.deep, filter |-> c.filter, rows |-> c.rows,
                      running |-> TRUE, id |-> c.id + 1, selected |-> c.selected]
      BY <1>1, <1>2
    <2>2. c.id + 1 \in Nat
      BY <1>1
    <2> QED  BY <1>1, <2>1, <2>2
  <1>4. /\ j \in [id : Nat, left : Shown, right : Shown, deep : BOOLEAN]
        /\ j.id = c.id + 1 /\ j.left = c.left /\ j.right = c.right
    BY <1>1
  <1> HIDE DEF j
  <1>5. CompareTypeOK'
    BY <1>2, <1>3, <1>4 DEF CompareInv, CompareTypeOK
  <1>6. JobsFollow'
    <2>1. ASSUME NEW k \in compareJobs
          PROVE  k.id <= compare'.id /\ k.id # compare'.id
      <3>1. k.id \in Nat /\ k.id <= c.id
        BY DEF CompareInv, JobsFollow, CompareTypeOK
      <3> QED  BY <1>1, <1>3, <3>1
    <2>2. j.id = compare'.id /\ j.id <= compare'.id /\ j.left = compare'.left
          /\ j.right = compare'.right
      BY <1>1, <1>3, <1>4
    <2> QED  BY <1>2, <2>1, <2>2 DEF JobsFollow
  <1>7. CASE /\ c.left = compare.left /\ c.right = compare.right
             /\ c.rows = compare.rows /\ c.selected = compare.selected /\ ticked' = ticked
    BY <1>3, <1>5, <1>6, <1>7 DEF CompareInv, Ordered
  <1>8. CASE c.rows = <<>> /\ c.selected = {} /\ ticked' = {}
    <2>1. DOMAIN compare'.rows = {} /\ compare'.selected = {}
      BY <1>3, <1>8
    <2> QED
      BY <1>5, <1>6, <1>8, <2>1 DEF CompareInv, Ordered, Single, Compares, Ticks
  <1> QED  BY <1>7, <1>8

(* Opening the window, and including the subfolders. *)
LEMMA AskingStep ==
  ASSUME CompareInv,
         IncludeSubfolders \/ \E l, r \in ComparedFolders : OpenCompare(l, r)
  PROVE  CompareInv'
  <1>1. CompareTypeOK
    BY DEF CompareInv
  <1>2. CASE IncludeSubfolders
    <2> DEFINE c == [compare EXCEPT !.deep = ~@]
    <2>1. /\ c \in [open : BOOLEAN, left : Shown, right : Shown, deep : BOOLEAN,
                    filter : Filters, rows : Seq(Rows), running : BOOLEAN, id : Nat,
                    selected : SUBSET Nat]
          /\ c.id = compare.id /\ c.left = compare.left /\ c.right = compare.right
          /\ c.rows = compare.rows /\ c.selected = compare.selected
      BY <1>1 DEF CompareTypeOK
    <2>2. RunCompare(c) /\ UNCHANGED <<ordered, ticked>>
      BY <1>2 DEF IncludeSubfolders
    <2> HIDE DEF c
    <2> QED  BY <2>1, <2>2, AskedStep
  <1>3. ASSUME NEW l \in ComparedFolders, NEW r \in ComparedFolders, OpenCompare(l, r)
        PROVE  CompareInv'
    <2> DEFINE c == [compare EXCEPT !.open = TRUE, !.left = l, !.right = r,
                                    !.rows = <<>>, !.selected = {}]
    <2>1. l \in Shown /\ r \in Shown /\ <<>> \in Seq(Rows)
      BY DEF Shown
    <2>2. /\ c \in [open : BOOLEAN, left : Shown, right : Shown, deep : BOOLEAN,
                    filter : Filters, rows : Seq(Rows), running : BOOLEAN, id : Nat,
                    selected : SUBSET Nat]
          /\ c.id = compare.id /\ c.rows = <<>> /\ c.selected = {}
      BY <1>1, <2>1 DEF CompareTypeOK
    <2>3. RunCompare(c) /\ ticked' = {} /\ UNCHANGED ordered
      BY <1>3 DEF OpenCompare
    <2> HIDE DEF c
    <2> QED  BY <2>2, <2>3, AskedStep
  <1> QED  BY <1>2, <1>3

(* Closing the window, and choosing a filter. *)
LEMMA LookingStep ==
  ASSUME CompareInv, CloseCompare \/ \E f \in Filters : SetFilter(f)
  PROVE  CompareInv'
  <1>1. CompareTypeOK
    BY DEF CompareInv
  <1>2. /\ UNCHANGED <<compareJobs, ticked, ordered>>
        /\ \/ compare' = [compare EXCEPT !.open = FALSE]
           \/ \E f \in Filters : compare' = [compare EXCEPT !.filter = f]
    BY DEF CloseCompare, SetFilter
  <1>3. /\ compare' \in [open : BOOLEAN, left : Shown, right : Shown, deep : BOOLEAN,
                         filter : Filters, rows : Seq(Rows), running : BOOLEAN, id : Nat,
                         selected : SUBSET Nat]
        /\ compare'.id = compare.id /\ compare'.left = compare.left
        /\ compare'.right = compare.right
        /\ compare'.rows = compare.rows /\ compare'.selected = compare.selected
    BY <1>1, <1>2 DEF CompareTypeOK
  <1> QED
    BY <1>2, <1>3 DEF CompareInv, CompareTypeOK, JobsFollow, Ordered

(* Ticking a row changes its tick and no other. *)
LEMMA TickStep ==
  ASSUME CompareInv, NEW i \in DOMAIN compare.rows, Tick(i)
  PROVE  CompareInv'
  <1>1. CompareTypeOK /\ i \in Nat /\ compare.selected \in SUBSET Nat
    BY CompareFields DEF CompareInv
  <1>2. /\ compare' = [compare EXCEPT !.selected = Flip(compare.selected, i)]
        /\ ticked' = Flip(ticked, compare.rows[i])
        /\ UNCHANGED <<compareJobs, ordered>>
    BY DEF Tick
  <1>3. Flip(compare.selected, i) \in SUBSET Nat
        /\ Flip(compare.selected, i) \subseteq DOMAIN compare.rows
    BY <1>1 DEF Flip, CompareInv
  <1>4. /\ compare' \in [open : BOOLEAN, left : Shown, right : Shown, deep : BOOLEAN,
                         filter : Filters, rows : Seq(Rows), running : BOOLEAN, id : Nat,
                         selected : SUBSET Nat]
        /\ compare'.id = compare.id /\ compare'.left = compare.left
        /\ compare'.right = compare.right /\ compare'.rows = compare.rows
        /\ compare'.selected = Flip(compare.selected, i)
    BY <1>1, <1>2, <1>3 DEF CompareTypeOK
  <1>5. Ticks(compare.rows, Flip(compare.selected, i))
          = Flip(Ticks(compare.rows, compare.selected), compare.rows[i])
    <2> DEFINE rows == compare.rows
               sel == compare.selected
    <2>1. \A k \in DOMAIN rows : rows[k] = rows[i] => k = i
      BY DEF CompareInv, Single
    <2>2. sel \subseteq DOMAIN rows
      BY DEF CompareInv
    <2> HIDE DEF rows, sel
    <2>3. rows[i] \in Ticks(rows, sel) <=> i \in sel
      BY <2>1, <2>2 DEF Ticks, rows
    <2>4. CASE i \in sel
      <3>1. Ticks(rows, sel \ {i}) = Ticks(rows, sel) \ {rows[i]}
        BY <2>1, <2>2 DEF Ticks
      <3> QED  BY <2>3, <2>4, <3>1 DEF Flip, rows, sel
    <2>5. CASE i \notin sel
      <3>1. i \in DOMAIN rows
        BY DEF rows
      <3>2. Ticks(rows, sel \cup {i}) = Ticks(rows, sel) \cup {rows[i]}
        BY <2>2, <3>1 DEF Ticks
      <3> QED  BY <2>3, <2>5, <3>2 DEF Flip, rows, sel
    <2> QED  BY <2>4, <2>5
  <1>6. JobsFollow' /\ Ordered' /\ CompareTypeOK'
    BY <1>2, <1>4 DEF CompareInv, JobsFollow, Ordered, CompareTypeOK
  <1> QED
    BY <1>2, <1>3, <1>4, <1>5, <1>6 DEF CompareInv

(* An operation is of a row, from a side that has it. *)
LEMMA OrderFacts ==
  ASSUME NEW do, NEW row \in Rows, NEW o \in Order(do, row)
  PROVE  o.from # {} /\ o.from \subseteq o.row.on
  <1>1. row.on \in (SUBSET Sides) \ {{}}
    BY DEF Rows
  <1>2. \/ /\ "left" \in row.on
           /\ o = [do |-> "copy", row |-> row, from |-> {"left"}, to |-> compare.right]
        \/ /\ "right" \in row.on
           /\ o = [do |-> "copy", row |-> row, from |-> {"right"}, to |-> compare.left]
        \/ o = [do |-> "delete", row |-> row, from |-> row.on, to |-> "bin"]
    BY DEF Order
  <1> QED  BY <1>1, <1>2

(* The buttons act on the rows that are ticked and take the ticks off. *)
LEMMA ActStep ==
  ASSUME CompareInv, NEW do, Act(do)
  PROVE  CompareInv'
  <1>1. CompareTypeOK
    BY DEF CompareInv
  <1>2. /\ compare' = [compare EXCEPT !.selected = {}]
        /\ ticked' = {} /\ UNCHANGED compareJobs
        /\ ordered' = UNION {Order(do, compare.rows[i]) :
                               i \in compare.selected \cap DOMAIN compare.rows}
    BY DEF Act
  <1>3. /\ compare' \in [open : BOOLEAN, left : Shown, right : Shown, deep : BOOLEAN,
                         filter : Filters, rows : Seq(Rows), running : BOOLEAN, id : Nat,
                         selected : SUBSET Nat]
        /\ compare'.id = compare.id /\ compare'.left = compare.left
        /\ compare'.right = compare.right /\ compare'.rows = compare.rows
        /\ compare'.selected = {}
    BY <1>1, <1>2 DEF CompareTypeOK
  <1>4. Ordered'
    <2> SUFFICES ASSUME NEW o \in ordered' PROVE o.from # {} /\ o.from \subseteq o.row.on
      BY DEF Ordered
    <2>1. PICK i \in DOMAIN compare.rows : o \in Order(do, compare.rows[i])
      BY <1>2
    <2>2. compare.rows[i] \in Rows
      BY <1>1, CompareFields
    <2> QED  BY <2>1, <2>2, OrderFacts
  <1>5. JobsFollow' /\ CompareTypeOK'
    BY <1>2, <1>3 DEF CompareInv, JobsFollow, CompareTypeOK
  <1> QED
    BY <1>2, <1>3, <1>4, <1>5 DEF CompareInv, Ticks

(* The answer that is awaited brings other rows and takes the ticks off. *)
LEMMA AnswerStep ==
  ASSUME CompareInv, NEW j \in compareJobs, OnCompareResult(j)
  PROVE  CompareInv'
  <1>1. CompareTypeOK /\ j.left \in Shown /\ j.right \in Shown
    BY DEF CompareInv, CompareTypeOK
  <1>0. PICK found :
          /\ compareJobs' = compareJobs \ {j} /\ UNCHANGED ordered
          /\ \/ /\ j.id = compare.id /\ ticked' = {}
                /\ compare' = [compare EXCEPT
                                 !.rows = CompareFolders(found, j.left, j.right, j.deep),
                                 !.running = FALSE, !.selected = {}]
             \/ UNCHANGED <<compare, ticked>>
    BY DEF OnCompareResult
  <1> DEFINE rows == CompareFolders(found, j.left, j.right, j.deep)
  <1>2. rows \in Seq(Rows) /\ Single(rows) /\ Compares(rows, j.left, j.right)
    BY <1>1, ComparedRows
  <1>3. /\ compareJobs' = compareJobs \ {j} /\ UNCHANGED ordered
        /\ \/ /\ j.id = compare.id /\ ticked' = {}
              /\ compare' = [compare EXCEPT !.rows = rows, !.running = FALSE, !.selected = {}]
           \/ UNCHANGED <<compare, ticked>>
    BY <1>0
  <1> HIDE DEF rows
  <1>4. CASE UNCHANGED <<compare, ticked>>
    <2>1. CompareTypeOK' /\ JobsFollow' /\ Ordered'
      BY <1>3, <1>4 DEF CompareInv, CompareTypeOK, JobsFollow, Ordered
    <2> QED  BY <1>4, <2>1 DEF CompareInv
  <1>5. CASE /\ j.id = compare.id /\ ticked' = {}
             /\ compare' = [compare EXCEPT !.rows = rows, !.running = FALSE, !.selected = {}]
    <2>1. /\ compare' \in [open : BOOLEAN, left : Shown, right : Shown, deep : BOOLEAN,
                           filter : Filters, rows : Seq(Rows), running : BOOLEAN, id : Nat,
                           selected : SUBSET Nat]
          /\ compare'.id = compare.id /\ compare'.left = compare.left
          /\ compare'.right = compare.right /\ compare'.rows = rows
          /\ compare'.selected = {}
      BY <1>1, <1>2, <1>5 DEF CompareTypeOK
    <2>2. CompareTypeOK' /\ JobsFollow' /\ Ordered'
      BY <1>3, <2>1 DEF CompareInv, CompareTypeOK, JobsFollow, Ordered
    <2>3. j.left = compare.left /\ j.right = compare.right
      BY <1>5 DEF CompareInv, JobsFollow
    <2> QED  BY <1>2, <1>5, <2>1, <2>2, <2>3 DEF CompareInv, Ticks
  <1> QED  BY <1>3, <1>4, <1>5

(* Every step keeps the invariant of the comparison. *)
LEMMA CompareStep == CompareInv /\ [CompareNext]_compareVars => CompareInv'
  <1> SUFFICES ASSUME CompareInv, [CompareNext]_compareVars PROVE CompareInv'
    OBVIOUS
  <1>1. CASE UNCHANGED <<compare, compareJobs, ticked, ordered>>
    BY <1>1 DEF CompareInv, CompareTypeOK, JobsFollow, Ordered
  <1>2. ASSUME \/ UNCHANGED compareVars
               \/ \E f \in ComparedFolders, n \in TopNames \cup DeepNames : ContentsChange(f, n)
        PROVE  UNCHANGED <<compare, compareJobs, ticked, ordered>>
    BY <1>2 DEF compareVars, ContentsChange
  <1>3. CASE CompareNext
    BY <1>1, <1>2, <1>3, AskingStep, LookingStep, TickStep, ActStep, AnswerStep
       DEF CompareNext, Filters
  <1> QED  BY <1>1, <1>2, <1>3

(* At the start there is nothing to compare. *)
LEMMA CompareStart == CompareInit => CompareInv
  <1> SUFFICES ASSUME CompareInit PROVE CompareInv
    OBVIOUS
  <1>1. /\ compare = [open |-> FALSE, left |-> "none", right |-> "none", deep |-> FALSE,
                      filter |-> "All", rows |-> <<>>, running |-> FALSE, id |-> 0,
                      selected |-> {}]
        /\ compareJobs = {} /\ ticked = {} /\ ordered = {}
    BY DEF CompareInit
  <1>2. <<>> \in Seq(Rows) /\ DOMAIN <<>> = {} /\ "none" \in Shown /\ "All" \in Filters
    BY DEF Shown, Filters
  <1>3. CompareTypeOK
    BY <1>1, <1>2 DEF CompareTypeOK
  <1>4. compare.rows = <<>> /\ compare.selected = {}
    BY <1>1
  <1> QED
    BY <1>1, <1>2, <1>3, <1>4
    DEF CompareInv, JobsFollow, Single, Compares, Ticks, Ordered

(* The inductive invariant of the comparison holds in every reachable state. *)
THEOREM CompareInvariance == CompareSpec => []CompareInv
  BY CompareStart, CompareStep, PTL DEF CompareSpec

(* However the folders change, the answers are overtaken and rows are ticked *)
(* and hidden, what is ticked is what the user has ticked, of the folders    *)
(* named above, and what is done is done to such rows on a side that had     *)
(* them (run_compare, handle_msg, folder_compare).                           *)
THEOREM ActsOnTicked == CompareSpec => []CompareActsOnWhatIsTicked
  <1>1. CompareInv => CompareActsOnWhatIsTicked
    BY DEF CompareInv, Compares, Ticks, Ordered, CompareActsOnWhatIsTicked
  <1> QED  BY <1>1, CompareInvariance, PTL

------------------------------------------------------------------------------
(* The preview pane.                                                       *)

FilesOrNone == PreviewFiles \cup {NoFile}
ContentKinds == {"none", "plain", "sound", "page"}
Contents == [kind : ContentKinds, path : FilesOrNone, generation : Nat]
Previews ==
  [enabled : BOOLEAN, path : FilesOrNone, generation : Nat, loading : BOOLEAN,
   content : Contents, failed : BOOLEAN, view : FilesOrNone, rect : BOOLEAN,
   unseen : BOOLEAN]
Commands == [do : {"stop", "pause", "resume"}] \cup [do : {"play"}, path : FilesOrNone]

(* The types of the fields and locals that the other parts speak of. *)
PreviewTypeOK ==
  /\ preview \in Previews
  /\ previewJobs \in SUBSET [path : FilesOrNone, generation : Nat]
  /\ commands \in Seq(Commands)
  /\ sink \in [path : FilesOrNone, paused : BOOLEAN]

(* No job is ahead of the preview, and one of the current request is of its *)
(* file and still awaited.                                                  *)
JobsBehind ==
  \A j \in previewJobs :
    /\ j.generation <= preview.generation
    /\ j.generation = preview.generation => preview.loading /\ j.path = preview.path

(* A command after which the sink holds something else than before it. *)
Starts(c) == c.do \in {"play", "stop"}

(* The preview is of the sound p, and open unless p came after its closing. *)
ShowsSound(p) ==
  /\ preview.content.kind = "sound" /\ preview.content.path = p
  /\ (preview.enabled \/ preview.unseen)

(* What the sink will hold when the commands on their way are done is what  *)
(* the preview shows: the last command that changes it decides.             *)
Heard ==
  /\ (\A k \in DOMAIN commands : ~Starts(commands[k])) /\ sink.path # NoFile =>
       ShowsSound(sink.path)
  /\ \A k \in DOMAIN commands :
       /\ commands[k].do = "play"
       /\ \A m \in DOMAIN commands : m > k => ~Starts(commands[m])
       => ShowsSound(commands[k].path)

(* When the audio thread has caught up, the flags say what it does: every    *)
(* time the other thread sets them, it has also sent a command.              *)
Lit == commands = <<>> /\ sink.path # NoFile /\ ~sink.paused => flags = Up

PreviewInv ==
  /\ PreviewTypeOK
  /\ JobsBehind
  /\ PreviewIsOfItsPath
  /\ Heard /\ Lit

------------------------------------------------------------------------------
(* The commands. *)

(* After a stop that is sent last nothing sounds, whatever is shown. *)
LEMMA StopHeard ==
  ASSUME NEW c \in Seq(Commands), commands' = Append(c, [do |-> "stop"])
  PROVE  commands' \in Seq(Commands) /\ Heard' /\ Lit'
  <1>1. [do |-> "stop"] \in Commands /\ Starts([do |-> "stop"])
    BY DEF Commands, Starts
  <1> QED  BY <1>1, AppendFacts DEF Heard, Lit, Starts

(* After a play that is sent last its file sounds, or nothing. *)
LEMMA PlayHeard ==
  ASSUME NEW c \in Seq(Commands), NEW p \in FilesOrNone,
         commands' = Append(c, [do |-> "play", path |-> p]), ShowsSound(p)'
  PROVE  commands' \in Seq(Commands) /\ Heard' /\ Lit'
  <1> DEFINE e == [do |-> "play", path |-> p]
  <1>1. e \in Commands /\ Starts(e) /\ e.path = p
    BY DEF Commands, Starts
  <1> HIDE DEF e
  <1>2. commands' = Append(c, e)
    BY DEF e
  <1> QED  BY <1>1, <1>2, AppendFacts DEF Heard, Lit, Starts

(* Pause and resume keep what the sink holds. *)
LEMMA PauseHeard ==
  ASSUME PreviewTypeOK, Heard, NEW d \in {"pause", "resume"},
         commands' = Append(commands, [do |-> d]),
         UNCHANGED <<preview, sink>>
  PROVE  commands' \in Seq(Commands) /\ Heard' /\ Lit'
  <1> DEFINE e == [do |-> d]
  <1>1. e \in Commands /\ ~Starts(e)
    BY DEF Commands, Starts
  <1> HIDE DEF e
  <1>2. commands' = Append(commands, e) /\ commands \in Seq(Commands)
    BY DEF e, PreviewTypeOK
  <1>3. /\ DOMAIN commands' = (DOMAIN commands) \cup {Len(commands) + 1}
        /\ commands'[Len(commands) + 1] = e
        /\ \A k \in DOMAIN commands : k < Len(commands) + 1 /\ commands'[k] = commands[k]
        /\ commands' \in Seq(Commands) /\ commands' # <<>>
    BY <1>1, <1>2, AppendFacts
  <1>4. ~Starts(commands'[Len(commands) + 1])
    BY <1>1, <1>3
  <1>5. \A p : ShowsSound(p)' <=> ShowsSound(p)
    BY DEF ShowsSound
  <1>6. (\A k \in DOMAIN commands' : ~Starts(commands'[k])) /\ sink.path # NoFile =>
          ShowsSound(sink.path)
    BY <1>3 DEF Heard
  <1>7. ASSUME NEW k \in DOMAIN commands', commands'[k].do = "play",
               \A m \in DOMAIN commands' : m > k => ~Starts(commands'[m])
        PROVE  ShowsSound(commands'[k].path)
    <2>1. k \in DOMAIN commands
      BY <1>3, <1>4, <1>7 DEF Starts
    <2> QED  BY <1>3, <1>7, <2>1 DEF Heard
  <1>8. Heard'
    BY <1>5, <1>6, <1>7 DEF Heard
  <1> QED  BY <1>3, <1>8 DEF Lit

(* Neither commands nor what sounds change, the content stays, and the      *)
(* preview is as visible as before.                                         *)
LEMMA SameHeard ==
  ASSUME Heard, UNCHANGED commands, preview'.content = preview.content,
         preview.enabled \/ preview.unseen => preview'.enabled \/ preview'.unseen,
         sink'.path \in {sink.path, NoFile}
  PROVE  Heard'
  BY DEF Heard, ShowsSound

------------------------------------------------------------------------------
(* The file that is previewed. *)

(* clear_content and destroy_web, field by field. *)
LEMMA ClearedFacts ==
  ASSUME NEW pv \in Previews
  PROVE  /\ Cleared(pv) \in Previews /\ Cleared(pv).content = NoContent
         /\ Cleared(pv).path = pv.path /\ Cleared(pv).generation = pv.generation
         /\ Cleared(pv).loading = pv.loading /\ Cleared(pv).enabled = pv.enabled
         /\ Cleared(pv).view = pv.view
         /\ Cleared(pv).unseen = pv.unseen
  <1>1. NoContent \in Contents
    BY DEF NoContent, Contents, ContentKinds, FilesOrNone
  <1> QED  BY <1>1 DEF Cleared, Previews

(* destroy_web changes nothing of a preview but its web view. *)
LEMMA WithoutViewFacts ==
  ASSUME NEW pv \in Previews
  PROVE  /\ WithoutView(pv) \in Previews /\ WithoutView(pv).view = NoFile
         /\ WithoutView(pv).path = pv.path /\ WithoutView(pv).generation = pv.generation
         /\ WithoutView(pv).loading = pv.loading /\ WithoutView(pv).enabled = pv.enabled
         /\ WithoutView(pv).content = pv.content
         /\ WithoutView(pv).unseen = pv.unseen
  BY DEF WithoutView, Previews, FilesOrNone

(* All that request_preview changes, from the state pv of the preview. *)
LEMMA RequestStep ==
  ASSUME PreviewInv, NEW p \in FilesOrNone, NEW pv \in Previews,
         /\ pv.path = preview.path /\ pv.generation = preview.generation
         /\ pv.loading = preview.loading /\ pv.content = preview.content
         /\ pv.view = preview.view /\ (preview.enabled => pv.enabled)
         /\ (preview.unseen => pv.enabled \/ pv.unseen),
         RequestPreview(pv, p), UNCHANGED <<sink, toRaise>>
  PROVE  PreviewInv'
  <1>1. CASE p = pv.path
    <2>1. preview' = pv /\ UNCHANGED <<previewJobs, commands, flags>>
      BY <1>1 DEF RequestPreview
    <2>2. Heard' /\ Lit'
      BY <2>1, SameHeard DEF PreviewInv, Lit
    <2>3. PreviewTypeOK' /\ JobsBehind' /\ PreviewIsOfItsPath'
      BY <2>1 DEF PreviewInv, PreviewTypeOK, JobsBehind, PreviewIsOfItsPath
    <2> QED  BY <2>2, <2>3 DEF PreviewInv
  <1>2. CASE p # pv.path
    <2>1. /\ preview' = [WithoutView(Cleared(pv)) EXCEPT
                           !.path = p, !.generation = @ + 1, !.loading = (p # NoFile)]
          /\ previewJobs' = previewJobs \cup
               (IF p = NoFile THEN {} ELSE {[path |-> p, generation |-> pv.generation + 1]})
          /\ commands' = Append(commands, [do |-> "stop"])
      BY <1>2 DEF RequestPreview, StopSound
    <2> DEFINE q == WithoutView(Cleared(pv))
    <2>2. /\ q \in Previews /\ q.view = NoFile /\ q.content = NoContent
          /\ q.generation = preview.generation /\ q.enabled = pv.enabled
      BY ClearedFacts, WithoutViewFacts
    <2> HIDE DEF q
    <2>3. /\ preview' \in Previews
          /\ preview'.path = p /\ preview'.generation = preview.generation + 1
          /\ preview'.loading = (p # NoFile) /\ preview'.content = NoContent
          /\ preview'.view = NoFile /\ preview'.enabled = pv.enabled
      <3> DEFINE g == q.generation + 1
                 l == p # NoFile
      <3>1. preview' = [q EXCEPT !.path = p, !.generation = g, !.loading = l]
        BY <2>1 DEF q
      <3>2. g \in Nat /\ g = preview.generation + 1 /\ l \in BOOLEAN
        BY <2>2 DEF Previews
      <3> HIDE DEF g
      <3>3. l = (p # NoFile)
        OBVIOUS
      <3> HIDE DEF l
      <3>4. preview' \in Previews
        BY <2>2, <3>1, <3>2 DEF Previews
      <3>5. /\ preview'.path = p /\ preview'.generation = g /\ preview'.loading = l
            /\ preview'.content = q.content /\ preview'.view = q.view
            /\ preview'.enabled = q.enabled
        BY <2>2, <3>1 DEF Previews
      <3> QED  BY <2>2, <3>2, <3>3, <3>4, <3>5
    <2>4. preview.generation \in Nat
      BY DEF PreviewInv, PreviewTypeOK, Previews
    <2>5. Heard' /\ Lit' /\ commands' \in Seq(Commands)
      BY <2>1, StopHeard DEF PreviewInv, PreviewTypeOK
    <2>6. PreviewTypeOK'
      BY <2>1, <2>3, <2>4, <2>5 DEF PreviewInv, PreviewTypeOK
    <2>7. JobsBehind'
      <3> SUFFICES ASSUME NEW j \in previewJobs'
                   PROVE  /\ j.generation <= preview'.generation
                          /\ j.generation = preview'.generation =>
                               preview'.loading /\ j.path = preview'.path
        BY DEF JobsBehind
      <3>1. CASE j \in previewJobs
        BY <2>3, <2>4, <3>1 DEF PreviewInv, PreviewTypeOK, JobsBehind
      <3>2. CASE p # NoFile /\ j = [path |-> p, generation |-> pv.generation + 1]
        <4>1. j.path = p /\ j.generation = preview.generation + 1
          BY <3>2
        <4>2. preview'.loading
          BY <2>3, <3>2
        <4> QED  BY <2>3, <2>4, <4>1, <4>2
      <3> QED  BY <2>1, <3>1, <3>2
    <2>8. PreviewIsOfItsPath'
      <3>1. p # NoFile =>
              [path |-> preview'.path, generation |-> preview'.generation] \in previewJobs'
        BY <2>1, <2>3
      <3> QED  BY <2>3, <3>1 DEF PreviewIsOfItsPath
    <2> QED  BY <2>5, <2>6, <2>7, <2>8 DEF PreviewInv
  <1> QED  BY <1>1, <1>2

(* Choosing another file and opening the preview. *)
LEMMA ChooseStep ==
  ASSUME PreviewInv, NEW p \in FilesOrNone, Choose(p) \/ Open(p)
  PROVE  PreviewInv'
  <1>1. preview \in Previews
    BY DEF PreviewInv, PreviewTypeOK
  <1>2. CASE Choose(p)
    BY <1>1, <1>2, RequestStep DEF Choose, audioThread
  <1>3. CASE Open(p)
    <2> DEFINE pv == [preview EXCEPT !.enabled = TRUE, !.unseen = FALSE]
    <2>1. /\ pv \in Previews
          /\ pv.path = preview.path /\ pv.generation = preview.generation
          /\ pv.loading = preview.loading /\ pv.content = preview.content
          /\ pv.view = preview.view /\ pv.enabled
      BY <1>1 DEF Previews
    <2> HIDE DEF pv
    <2>2. RequestPreview(pv, p) /\ UNCHANGED <<sink, toRaise>>
      BY <1>3 DEF Open, audioThread, pv
    <2> QED  BY <2>1, <2>2, RequestStep
  <1> QED  BY <1>2, <1>3

(* The pane is closed. *)
LEMMA CloseStep ==
  ASSUME PreviewInv, Close
  PROVE  PreviewInv'
  <1>1. /\ preview' = [WithoutView(preview) EXCEPT !.enabled = FALSE]
        /\ commands' = Append(commands, [do |-> "stop"])
        /\ UNCHANGED <<previewJobs, sink>>
    BY DEF Close, StopSound, audioThread
  <1>2. /\ preview' \in Previews
        /\ preview'.path = preview.path /\ preview'.generation = preview.generation
        /\ preview'.loading = preview.loading /\ preview'.content = preview.content
        /\ preview'.view = NoFile
    BY <1>1 DEF PreviewInv, PreviewTypeOK, WithoutView, Previews, FilesOrNone
  <1>3. Heard' /\ Lit' /\ commands' \in Seq(Commands)
    BY <1>1, StopHeard DEF PreviewInv, PreviewTypeOK
  <1> QED
    BY <1>1, <1>2, <1>3
    DEF PreviewInv, PreviewTypeOK, JobsBehind, PreviewIsOfItsPath

(* A job answers: what it loaded is taken if it is of the current request. *)
LEMMA PreviewAnswerStep ==
  ASSUME PreviewInv, NEW j \in previewJobs, NEW kind \in Loaded(j.path), OnPreview(j, kind)
  PROVE  PreviewInv'
  <1>1. previewJobs' = previewJobs \ {j} /\ UNCHANGED sink
    BY DEF OnPreview, audioThread
  <1>2. /\ kind \in ContentKinds \ {"none"} /\ preview \in Previews
        /\ j.path \in FilesOrNone /\ j.generation \in Nat
        /\ commands \in Seq(Commands)
    BY DEF Loaded, ContentKinds, PreviewInv, PreviewTypeOK
  <1>3. CASE j.generation # preview.generation \/ j.path # preview.path
    <2>1. UNCHANGED <<preview, commands, flags, sink>>
      BY <1>3 DEF OnPreview, audioThread
    <2>2. Heard' /\ Lit'
      BY <2>1, SameHeard DEF PreviewInv, Lit
    <2>3. PreviewIsOfItsPath'
      <3>1. [path |-> preview.path, generation |-> preview.generation] # j
        BY <1>3
      <3> QED  BY <1>1, <2>1, <3>1 DEF PreviewInv, PreviewIsOfItsPath
    <2>4. PreviewTypeOK' /\ JobsBehind'
      BY <1>1, <2>1 DEF PreviewInv, PreviewTypeOK, JobsBehind
    <2> QED  BY <2>2, <2>3, <2>4 DEF PreviewInv
  <1>4. CASE j.generation = preview.generation /\ j.path = preview.path
    <2> DEFINE c == [kind |-> kind, path |-> j.path, generation |-> j.generation]
    <2>1. /\ preview' = [Cleared(preview) EXCEPT !.loading = FALSE,
                           !.unseen = ~preview.enabled, !.content = c]
          /\ commands' = commands \o
               (IF kind = "sound" THEN <<[do |-> "stop"], [do |-> "play", path |-> j.path]>>
                                  ELSE <<[do |-> "stop"]>>)
      BY <1>4 DEF OnPreview
    <2>2. c \in Contents /\ c.kind = kind /\ c.path = j.path /\ c.generation = j.generation
      BY <1>2 DEF Contents
    <2>3. c # NoContent
      BY <1>2, <2>2 DEF NoContent
    <2> HIDE DEF c
    <2>4. /\ preview' \in Previews
          /\ preview'.path = preview.path /\ preview'.generation = preview.generation
          /\ preview'.loading = FALSE /\ preview'.content = c
          /\ preview'.view = preview.view
          /\ (preview'.enabled \/ preview'.unseen)
      BY <1>2, <2>1, <2>2 DEF Cleared, Previews
    <2>5. preview.loading /\ preview.view = NoFile
      BY <1>4 DEF PreviewInv, JobsBehind, PreviewIsOfItsPath, NoContent
    <2>6. Heard' /\ Lit' /\ commands' \in Seq(Commands)
      <3>1. CASE kind = "sound"
        <4> DEFINE b == Append(commands, [do |-> "stop"])
        <4>1. [do |-> "stop"] \in Commands
          BY DEF Commands
        <4>2. b \in Seq(Commands)
          BY <1>2, <4>1, AppendFacts
        <4>3. commands' = Append(b, [do |-> "play", path |-> j.path])
          BY <1>2, <2>1, <3>1, <4>1
        <4>4. ShowsSound(j.path)'
          BY <2>2, <2>4, <3>1 DEF ShowsSound
        <4> HIDE DEF b
        <4> QED  BY <1>2, <4>2, <4>3, <4>4, PlayHeard
      <3>2. CASE kind # "sound"
        <4>1. commands' = Append(commands, [do |-> "stop"])
          BY <1>2, <2>1, <3>2
        <4> QED  BY <1>2, <4>1, StopHeard
      <3> QED  BY <3>1, <3>2
    <2>7. PreviewTypeOK'
      BY <1>1, <2>4, <2>6 DEF PreviewInv, PreviewTypeOK
    <2>8. PreviewIsOfItsPath'
      BY <1>4, <2>2, <2>3, <2>4, <2>5 DEF PreviewIsOfItsPath
    <2>9. JobsBehind'
      <3> SUFFICES ASSUME NEW i \in previewJobs', i.generation = preview.generation
                   PROVE  FALSE
        BY <1>1, <2>4 DEF PreviewInv, JobsBehind
      <3>1. i.path = j.path /\ i.generation = j.generation /\ i # j
        BY <1>1, <1>4 DEF PreviewInv, JobsBehind
      <3> QED  BY <1>1, <3>1 DEF PreviewInv, PreviewTypeOK
    <2> QED  BY <2>6, <2>7, <2>8, <2>9 DEF PreviewInv
  <1> QED  BY <1>3, <1>4


------------------------------------------------------------------------------
(* The frame, and sound. *)

(* What a frame may change of the preview: the view, and that only to the   *)
(* page that is shown, where the preview is open.                           *)
LEMMA FrameFacts ==
  ASSUME NEW pv \in Previews, NEW roomy \in BOOLEAN, NEW q \in Synced(Placed(pv), roomy)
  PROVE  /\ q \in Previews
         /\ q.path = pv.path /\ q.generation = pv.generation /\ q.loading = pv.loading
         /\ q.content = pv.content /\ q.enabled = pv.enabled /\ q.unseen = pv.unseen
         /\ q.view # NoFile =>
              /\ pv.enabled /\ pv.content.kind = "page"
              /\ q.view \in {pv.view, pv.content.path}
  <1> DEFINE m == Placed(pv)
  <1>1. /\ m \in Previews
        /\ m.path = pv.path /\ m.generation = pv.generation /\ m.loading = pv.loading
        /\ m.content = pv.content /\ m.enabled = pv.enabled /\ m.unseen = pv.unseen
        /\ m.view \in {pv.view, NoFile}
    BY WithoutViewFacts DEF Placed, Previews
  <1> HIDE DEF m
  <1>2. m.content.path \in FilesOrNone
    BY <1>1 DEF Previews, Contents
  <1>3. q \in Synced(m, roomy)
    BY DEF m
  <1>4. CASE q = WithoutView(m)
    BY <1>1, <1>4, WithoutViewFacts
  <1>5. CASE m.enabled /\ m.content.kind = "page" /\ q = m
    BY <1>1, <1>5
  <1>6. CASE /\ m.enabled /\ m.content.kind = "page"
             /\ q = [m EXCEPT !.view = m.content.path, !.failed = FALSE]
    BY <1>1, <1>2, <1>6 DEF Previews
  <1>7. CASE m.enabled /\ m.content.kind = "page" /\ q = [m EXCEPT !.failed = TRUE]
    BY <1>1, <1>7 DEF Previews
  <1> QED  BY <1>3, <1>4, <1>5, <1>6, <1>7 DEF Synced

(* A frame places the web view. *)
LEMMA FrameStep ==
  ASSUME PreviewInv, Frame
  PROVE  PreviewInv'
  <1>1. preview \in Previews
    BY DEF PreviewInv, PreviewTypeOK
  <1>2. PICK roomy \in BOOLEAN : preview' \in Synced(Placed(preview), roomy)
    BY DEF Frame
  <1>3. /\ preview' \in Previews
        /\ preview'.path = preview.path /\ preview'.generation = preview.generation
        /\ preview'.loading = preview.loading /\ preview'.content = preview.content
        /\ preview'.enabled = preview.enabled /\ preview'.unseen = preview.unseen
        /\ preview'.view # NoFile =>
             /\ preview.enabled /\ preview.content.kind = "page"
             /\ preview'.view \in {preview.view, preview.content.path}
    BY <1>1, <1>2, FrameFacts
  <1>4. UNCHANGED <<previewJobs, commands, flags, sink>>
    BY DEF Frame, audioThread
  <1>5. Heard' /\ Lit'
    BY <1>3, <1>4, SameHeard DEF PreviewInv, Lit
  <1>6. PreviewTypeOK' /\ JobsBehind'
    BY <1>3, <1>4 DEF PreviewInv, PreviewTypeOK, JobsBehind
  <1>7. preview.content.kind = "page" => preview.content # NoContent
    BY DEF NoContent
  <1>8. PreviewIsOfItsPath'
    BY <1>3, <1>4, <1>7 DEF PreviewInv, PreviewIsOfItsPath
  <1> QED  BY <1>5, <1>6, <1>8 DEF PreviewInv

(* A press, as any step that leaves the preview, sends a command with it. *)
LEMMA PressStep ==
  ASSUME PreviewInv, NEW do \in {"play", "pause", "resume", "stop"}, Press(do)
  PROVE  PreviewInv'
  <1>1. /\ UNCHANGED <<preview, previewJobs, sink>>
        /\ commands \in Seq(Commands) /\ preview \in Previews
        /\ preview.content.kind = "sound" /\ preview.enabled
    BY DEF Press, audioThread, PreviewInv, PreviewTypeOK
  <1>2. Heard' /\ Lit' /\ commands' \in Seq(Commands)
    <2>1. CASE do = "play"
      <3>1. /\ commands' = Append(commands, [do |-> "play", path |-> preview.content.path])
            /\ preview.content.path \in FilesOrNone
            /\ ShowsSound(preview.content.path)'
        BY <1>1, <2>1 DEF Press, Previews, Contents, ShowsSound
      <3> QED  BY <1>1, <3>1, PlayHeard
    <2>2. CASE do = "stop"
      BY <1>1, <2>2, StopHeard DEF Press
    <2>3. CASE do \in {"pause", "resume"}
      <3>1. commands' = Append(commands, [do |-> do])
        BY <2>3 DEF Press
      <3> QED  BY <1>1, <2>3, <3>1, PauseHeard DEF PreviewInv
    <2> QED  BY <2>1, <2>2, <2>3
  <1> QED
    BY <1>1, <1>2 DEF PreviewInv, PreviewTypeOK, JobsBehind, PreviewIsOfItsPath

(* The audio flags go up after the command to play. *)
LEMMA RaiseStep ==
  ASSUME PreviewInv, Raise
  PROVE  PreviewInv'
  <1>1. UNCHANGED <<preview, previewJobs, commands, sink>> /\ flags' = Up
    BY DEF Raise, audioThread
  <1>2. Heard' /\ Lit'
    BY <1>1, SameHeard DEF PreviewInv, Lit
  <1> QED
    BY <1>1, <1>2 DEF PreviewInv, PreviewTypeOK, JobsBehind, PreviewIsOfItsPath

(* A sound comes to its end. *)
LEMMA SoundEndsStep ==
  ASSUME PreviewInv, SoundEnds
  PROVE  PreviewInv'
  <1>1. /\ UNCHANGED <<preview, previewJobs, commands, flags>>
        /\ sink' = [sink EXCEPT !.path = NoFile]
        /\ sink \in [path : FilesOrNone, paused : BOOLEAN]
    BY DEF SoundEnds, PreviewInv, PreviewTypeOK
  <1>2. sink' \in [path : FilesOrNone, paused : BOOLEAN] /\ sink'.path = NoFile
    BY <1>1 DEF FilesOrNone
  <1>3. Heard' /\ Lit'
    BY <1>1, <1>2, SameHeard DEF PreviewInv, Lit
  <1> QED
    BY <1>1, <1>2, <1>3 DEF PreviewInv, PreviewTypeOK, JobsBehind, PreviewIsOfItsPath

(* The audio thread takes its next command. *)
LEMMA AudioCommandStep ==
  ASSUME PreviewInv, AudioCommand
  PROVE  PreviewInv'
  <1> DEFINE c == Head(commands)
  <1>1. /\ UNCHANGED <<preview, previewJobs>>
        /\ commands \in Seq(Commands) /\ commands # <<>> /\ commands' = Tail(commands)
        /\ sink \in [path : FilesOrNone, paused : BOOLEAN]
        /\ c \in Commands
    BY DEF AudioCommand, PreviewInv, PreviewTypeOK
  <1>2. /\ commands' \in Seq(Commands) /\ c = commands[1]
        /\ 1 \in DOMAIN commands /\ DOMAIN commands \subseteq Nat \ {0}
        /\ \A k \in DOMAIN commands' : k + 1 \in DOMAIN commands /\ commands'[k] = commands[k + 1]
        /\ \A k \in DOMAIN commands : k # 1 => k - 1 \in DOMAIN commands'
        /\ DOMAIN commands' \subseteq Nat \ {0}
    BY <1>1, TailFacts
  <1>3. \A p : ShowsSound(p)' <=> ShowsSound(p)
    BY <1>1 DEF ShowsSound
  <1>4. \/ c.do = "play" /\ sink' = [path |-> c.path, paused |-> FALSE] /\ flags' = Up
        \/ c.do = "play" /\ sink' = [sink EXCEPT !.path = NoFile]
        \/ c.do = "pause" /\ sink' = [sink EXCEPT !.paused = TRUE]
        \/ c.do = "resume" /\ sink' = [sink EXCEPT !.paused = FALSE] /\ flags' = Up
        \/ c.do = "stop" /\ sink' = [sink EXCEPT !.path = NoFile]
    BY DEF AudioCommand
  <1>5. c.do = "play" => c.path \in FilesOrNone
    BY <1>1 DEF Commands
  <1>6. /\ sink' \in [path : FilesOrNone, paused : BOOLEAN]
        /\ \/ sink'.path = NoFile
           \/ c.do = "play" /\ sink'.path = c.path
           \/ ~Starts(c) /\ sink'.path = sink.path
        /\ Lit'
    <2>1. CASE c.do = "play" /\ sink' = [path |-> c.path, paused |-> FALSE] /\ flags' = Up
      BY <1>5, <2>1 DEF Lit
    <2>2. CASE sink' = [sink EXCEPT !.path = NoFile]
      BY <1>1, <2>2 DEF FilesOrNone, Lit
    <2>3. CASE c.do = "pause" /\ sink' = [sink EXCEPT !.paused = TRUE]
      BY <1>1, <2>3 DEF Starts, Lit
    <2>4. CASE c.do = "resume" /\ sink' = [sink EXCEPT !.paused = FALSE] /\ flags' = Up
      BY <1>1, <2>4 DEF Starts, Lit
    <2> QED  BY <1>4, <2>1, <2>2, <2>3, <2>4
  <1> HIDE DEF c
  (* Where the commands that are left change nothing, the one just taken, or *)
  (* one before it, has decided what sounds.                                 *)
  <1>7. ASSUME \A k \in DOMAIN commands' : ~Starts(commands'[k]), sink'.path # NoFile
        PROVE  ShowsSound(sink'.path)
    <2>1. \A m \in DOMAIN commands : m > 1 => ~Starts(commands[m])
      <3> SUFFICES ASSUME NEW m \in DOMAIN commands, m > 1
                   PROVE  ~Starts(commands[m])
        OBVIOUS
      <3>1. m - 1 \in DOMAIN commands' /\ commands'[m - 1] = commands[(m - 1) + 1]
        BY <1>2
      <3>2. (m - 1) + 1 = m
        BY <1>2
      <3> QED  BY <1>7, <3>1, <3>2
    <2>2. CASE c.do = "play" /\ sink'.path = c.path
      BY <1>2, <2>1, <2>2 DEF PreviewInv, Heard
    <2>3. CASE ~Starts(c) /\ sink'.path = sink.path
      <3>1. \A m \in DOMAIN commands : ~Starts(commands[m])
        BY <1>2, <2>1, <2>3
      <3> QED  BY <1>7, <2>3, <3>1 DEF PreviewInv, Heard
    <2> QED  BY <1>6, <1>7, <2>2, <2>3
  <1>8. ASSUME NEW k \in DOMAIN commands', commands'[k].do = "play",
               \A m \in DOMAIN commands' : m > k => ~Starts(commands'[m])
        PROVE  ShowsSound(commands'[k].path)
    <2>1. k + 1 \in DOMAIN commands /\ commands'[k] = commands[k + 1]
      BY <1>2
    <2>2. ASSUME NEW m \in DOMAIN commands, m > k + 1
          PROVE  ~Starts(commands[m])
      <3>1. m # 1 /\ m - 1 > k /\ (m - 1) + 1 = m
        BY <1>2, <2>2
      <3>2. m - 1 \in DOMAIN commands' /\ commands'[m - 1] = commands[(m - 1) + 1]
        BY <1>2, <3>1
      <3> QED  BY <1>8, <3>1, <3>2
    <2> QED  BY <1>8, <2>1, <2>2 DEF PreviewInv, Heard
  <1>9. Heard'
    BY <1>3, <1>7, <1>8 DEF Heard
  <1> QED
    BY <1>1, <1>2, <1>6, <1>9
    DEF PreviewInv, PreviewTypeOK, JobsBehind, PreviewIsOfItsPath

------------------------------------------------------------------------------
(* The theorems. *)

(* At the start nothing is shown and nothing sounds. *)
LEMMA PreviewStart == PreviewInit => PreviewInv
  <1> SUFFICES ASSUME PreviewInit PROVE PreviewInv
    OBVIOUS
  <1>1. NoContent \in Contents
    BY DEF NoContent, Contents, ContentKinds, FilesOrNone
  <1>2. PreviewTypeOK
    BY <1>1 DEF PreviewInit, PreviewTypeOK, Previews, FilesOrNone
  <1> QED
    BY <1>2 DEF PreviewInit, PreviewInv, JobsBehind, PreviewIsOfItsPath, Heard, Lit

(* Every step of the preview keeps its invariant. *)
LEMMA PreviewStep == PreviewInv /\ [PreviewNext]_previewVars => PreviewInv'
  <1> SUFFICES ASSUME PreviewInv, [PreviewNext]_previewVars PROVE PreviewInv'
    OBVIOUS
  <1>1. CASE \E p \in PreviewFiles \cup {NoFile} : Choose(p) \/ Open(p)
    BY <1>1, ChooseStep DEF FilesOrNone
  <1>2. CASE Close
    BY <1>2, CloseStep
  <1>3. CASE Frame
    BY <1>3, FrameStep
  <1>4. CASE Raise
    BY <1>4, RaiseStep
  <1>5. CASE AudioCommand
    BY <1>5, AudioCommandStep
  <1>6. CASE SoundEnds
    BY <1>6, SoundEndsStep
  <1>7. CASE \E j \in previewJobs : \E kind \in Loaded(j.path) : OnPreview(j, kind)
    BY <1>7, PreviewAnswerStep
  <1>8. CASE \E do \in {"play", "pause", "resume", "stop"} : Press(do)
    BY <1>8, PressStep
  <1>9. CASE UNCHANGED previewVars
    BY <1>9
    DEF previewVars, PreviewInv, PreviewTypeOK, JobsBehind, PreviewIsOfItsPath, Heard, Lit,
        ShowsSound
  <1> QED
    BY <1>1, <1>2, <1>3, <1>4, <1>5, <1>6, <1>7, <1>8, <1>9 DEF PreviewNext

(* The inductive invariant of the preview pane holds in every reachable state. *)
THEOREM PreviewInvariance == PreviewSpec => []PreviewInv
  BY PreviewStart, PreviewStep, PTL DEF PreviewSpec

(* What is shown is of the file named above it and of the last request, and *)
(* the web view is there only over an open preview of its page, whatever    *)
(* order the jobs end in (request_preview, handle_msg, close, sync_web).    *)
THEOREM ShownIsChosen == PreviewSpec => []PreviewIsOfItsPath
  <1>1. PreviewInv => PreviewIsOfItsPath
    BY DEF PreviewInv
  <1> QED  BY <1>1, PreviewInvariance, PTL

(* When the audio thread has caught up, only the sound the preview is of    *)
(* sounds and its button says so; after a closing nothing does but a sound  *)
(* that came later (AudioCtl, request_preview, close, handle_msg,           *)
(* draw_audio).                                                             *)
THEOREM HeardIsPreviewed == PreviewSpec => []SoundFollowsPreview
  <1>1. PreviewInv => SoundFollowsPreview
    <2> SUFFICES ASSUME PreviewInv, commands = <<>>, sink.path # NoFile, ~sink.paused
                 PROVE  ShowsSound(sink.path) /\ flags = Up
      BY DEF SoundFollowsPreview, ShowsSound
    <2>1. \A k \in DOMAIN commands : ~Starts(commands[k])
      OBVIOUS
    <2> QED  BY <2>1 DEF PreviewInv, Heard, Lit
  <1> QED  BY <1>1, PreviewInvariance, PTL

------------------------------------------------------------------------------
(* Searches.                                                               *)


Parts == {"main", "near"}
Stages == {"queued", "ask", "wait", "walk"}
Results == [id : Nat, query : Typed, hits : SUBSET Queries]
Jobs == [id : Nat, query : Queries, mode : Modes \cup {"palette"}, stage : Stages,
         part : Parts, hits : SUBSET Queries]
Works == [id : Nat, part : Parts, query : Queries]
Waits == [id : Nat \ {0}, part : Parts, items : SUBSET Queries, got : BOOLEAN]

(* What r carries is of a request that was made, for the query it was made  *)
(* for; a is what each request so far has asked for.                        *)
Of(a, r) == r.id \in 1..epoch /\ r.query = a[r.id]

(* As long as no reply came too late, hits are of the query they are for.   *)
Clean(r) == late \/ r.hits \subseteq {r.query}

(* The two boxes show what was asked from them. *)
BoxesFit(a) == \A box \in {search, palette} :
  /\ box.id \in 0..epoch
  /\ box.query # Blank => Of(a, box)

JobsFit(a) == \A j \in searchJobs : Of(a, j) /\ Clean(j)
AnswersFit(a) == \A i \in DOMAIN answers : Of(a, answers[i]) /\ Clean(answers[i])
WorksFit(a) == \A i \in DOMAIN works : Of(a, works[i])

(* What Everything still owes is for the query the thread waits for, and    *)
(* what it has given so far is of that query.                               *)
IpcFits(a) ==
  /\ ipc # Nobody => ipc.id \in 1..epoch /\ (late \/ ipc.items \subseteq {a[ipc.id]})
  /\ late \/ owed = <<>> \/ (ipc # Nobody /\ ~ipc.got /\ owed = <<a[ipc.id]>>)

(* The types and what holds of the boxes, of the workers and their answers, *)
(* and of Everything and the thread that asks it.                           *)
Boxes(a) ==
  /\ search \in [query : Typed, mode : Modes, id : Nat, running : BOOLEAN, results : Results]
  /\ palette \in [query : Typed, id : Nat, results : Results]
  /\ BoxesFit(a)
  /\ SearchShowsItsQuery

Workers(a) ==
  /\ searchJobs \in SUBSET Jobs /\ answers \in Seq(Results)
  /\ JobsFit(a) /\ AnswersFit(a)
  /\ LatestIsAnswered

Ipc(a) ==
  /\ late \in BOOLEAN /\ everything \in BOOLEAN
  /\ works \in Seq(Works) /\ owed \in Seq(Queries)
  /\ ipc = Nobody \/ ipc \in Waits
  /\ WorksFit(a) /\ IpcFits(a)

(* Some assignment of queries to the requests made so far fits all of it. *)
SearchInv ==
  /\ epoch \in Nat
  /\ \E a \in [1..epoch -> Queries] : Boxes(a) /\ Workers(a) /\ Ipc(a)

------------------------------------------------------------------------------
(* The workers and the answers. *)

(* What the steps of a worker leave alone. *)
WorkerFrame == UNCHANGED <<epoch, search, palette>> /\ (late => late')

(* The workers' part holds on when they do nothing. *)
LEMMA SameWorkers ==
  ASSUME NEW a, Workers(a), WorkerFrame, UNCHANGED <<searchJobs, answers>>
  PROVE  Workers(a)'
  BY DEF Workers, WorkerFrame, JobsFit, AnswersFit, Of, Clean, LatestIsAnswered, Outstanding

(* A job goes on: it is still for the same request. *)
LEMMA MoveKeeps ==
  ASSUME NEW a, Workers(a), WorkerFrame, NEW j \in searchJobs, NEW k \in Jobs,
         k.id = j.id, k.query = j.query, late' \/ k.hits \subseteq {k.query},
         Move(j, k), UNCHANGED answers
  PROVE  Workers(a)'
  <1>1. searchJobs' = (searchJobs \ {j}) \cup {k} /\ searchJobs' \in SUBSET Jobs
    BY DEF Move, Workers
  <1>2. \A id : Outstanding(id) => Outstanding(id)'
    BY <1>1 DEF Outstanding
  <1>3. LatestIsAnswered'
    BY <1>2 DEF Workers, WorkerFrame, LatestIsAnswered
  <1>4. JobsFit(a)' /\ AnswersFit(a)'
    BY <1>1 DEF Workers, WorkerFrame, JobsFit, AnswersFit, Of, Clean
  <1> QED  BY <1>1, <1>3, <1>4 DEF Workers

(* A job ends: its answer takes its place, unless it is not the latest. *)
LEMMA FinishKeeps ==
  ASSUME NEW a, Workers(a), WorkerFrame, NEW j \in searchJobs, NEW hits \in SUBSET Queries,
         late' \/ hits \subseteq {j.query}, Finish(j, hits)
  PROVE  Workers(a)'
  <1> DEFINE r == [id |-> j.id, query |-> j.query, hits |-> hits]
  <1>1. /\ r \in Results /\ r.id = j.id /\ r.query = j.query /\ r.hits = hits
        /\ Of(a, j) /\ searchJobs \in SUBSET Jobs /\ answers \in Seq(Results)
    BY DEF Workers, JobsFit, Jobs, Results, Typed
  <1>2. searchJobs' = searchJobs \ {j}
        /\ answers' = IF epoch = j.id THEN Append(answers, r) ELSE answers
    BY DEF Finish
  <1> HIDE DEF r
  <1>3. /\ answers' \in Seq(Results)
        /\ \A i \in DOMAIN answers' :
             (i \in DOMAIN answers /\ answers'[i] = answers[i]) \/ answers'[i] = r
        /\ \A i \in DOMAIN answers : i \in DOMAIN answers' /\ answers'[i] = answers[i]
        /\ epoch = j.id => \E i \in DOMAIN answers' : answers'[i] = r
    <2>1. CASE epoch = j.id
      BY <1>1, <1>2, <2>1, AppendFacts
    <2>2. CASE epoch # j.id
      BY <1>1, <1>2, <2>2
    <2> QED  BY <2>1, <2>2
  <1>4. JobsFit(a)'
    BY <1>2 DEF Workers, WorkerFrame, JobsFit, Of, Clean
  <1>5. AnswersFit(a)'
    <2> SUFFICES ASSUME NEW i \in DOMAIN answers'
                 PROVE  /\ Of(a, answers'[i])
                        /\ late' \/ answers'[i].hits \subseteq {answers'[i].query}
      BY DEF AnswersFit, Of, Clean, WorkerFrame
    <2>1. CASE i \in DOMAIN answers /\ answers'[i] = answers[i]
      BY <2>1 DEF Workers, WorkerFrame, AnswersFit, Clean
    <2>2. CASE answers'[i] = r
      BY <1>1, <2>2 DEF Of
    <2> QED  BY <1>3, <2>1, <2>2
  <1>6. Outstanding(epoch) => Outstanding(epoch)'
    BY <1>1, <1>2, <1>3 DEF Outstanding, WorkerFrame
  <1>7. LatestIsAnswered'
    BY <1>6 DEF Workers, WorkerFrame, LatestIsAnswered
  <1> QED  BY <1>1, <1>2, <1>3, <1>4, <1>5, <1>7 DEF Workers

(* Without an answer of Everything the job goes on, or ends with what it has. *)
LEMMA NoAnswerKeeps ==
  ASSUME NEW a, Workers(a), WorkerFrame, NEW j \in searchJobs, NoAnswer(j)
  PROVE  Workers(a)'
  <1>1. j \in Jobs /\ Of(a, j) /\ Clean(j)
    BY DEF Workers, JobsFit
  <1>2. CASE j.part = "near"
    <2> DEFINE k == [j EXCEPT !.stage = "ask", !.part = "main"]
    <2>1. k \in Jobs /\ k.id = j.id /\ k.query = j.query /\ k.hits = j.hits
      BY <1>1 DEF Jobs, Stages, Parts
    <2>2. Move(j, k) /\ UNCHANGED answers
      BY <1>2 DEF NoAnswer
    <2> HIDE DEF k
    <2> QED  BY <1>1, <2>1, <2>2, MoveKeeps DEF Clean, WorkerFrame
  <1>3. CASE j.part = "main" /\ j.hits = {}
    <2> DEFINE k == [j EXCEPT !.stage = "walk"]
    <2>1. k \in Jobs /\ k.id = j.id /\ k.query = j.query /\ k.hits = j.hits
      BY <1>1 DEF Jobs, Stages
    <2>2. Move(j, k) /\ UNCHANGED answers
      BY <1>3 DEF NoAnswer
    <2> HIDE DEF k
    <2> QED  BY <1>1, <2>1, <2>2, MoveKeeps DEF Clean, WorkerFrame
  <1>4. CASE ~(j.part = "near") /\ ~(j.part = "main" /\ j.hits = {})
    <2>1. Finish(j, j.hits)
      BY <1>4 DEF NoAnswer
    <2>2. j.hits \in SUBSET Queries
      BY <1>1 DEF Jobs
    <2> QED  BY <1>1, <2>1, <2>2, FinishKeeps DEF Clean, WorkerFrame
  <1> QED  BY <1>2, <1>3, <1>4

(* A worker has the hits of its job. *)
LEMMA GotHitsKeeps ==
  ASSUME NEW a, Workers(a), WorkerFrame, NEW j \in searchJobs, NEW hits \in SUBSET Queries,
         late' \/ hits \subseteq {j.query}, GotHits(j, hits)
  PROVE  Workers(a)'
  <1>1. j \in Jobs /\ Of(a, j) /\ Clean(j)
    BY DEF Workers, JobsFit
  <1>2. CASE j.part = "near"
    <2> DEFINE k == [j EXCEPT !.stage = "ask", !.part = "main", !.hits = hits]
    <2>1. k \in Jobs /\ k.id = j.id /\ k.query = j.query /\ k.hits = hits
      BY <1>1 DEF Jobs, Stages, Parts
    <2>2. Move(j, k) /\ UNCHANGED answers
      BY <1>2 DEF GotHits
    <2> HIDE DEF k
    <2> QED  BY <2>1, <2>2, MoveKeeps
  <1>3. CASE j.part # "near"
    <2>1. Finish(j, j.hits \cup hits)
      BY <1>3 DEF GotHits
    <2>2. j.hits \cup hits \in SUBSET Queries /\ (late' \/ j.hits \cup hits \subseteq {j.query})
      BY <1>1 DEF Jobs, Clean, WorkerFrame
    <2> QED  BY <2>1, <2>2, FinishKeeps
  <1> QED  BY <1>2, <1>3

(* The reply of the IPC thread, to the worker that waits for it, if any. *)
LEMMA ReplyKeeps ==
  ASSUME NEW a, Workers(a), WorkerFrame, NEW work, NEW ok \in BOOLEAN, NEW hits \in SUBSET Queries,
         ok => late' \/ hits \subseteq {a[work.id]}, Reply(work, ok, hits)
  PROVE  Workers(a)'
  <1>1. CASE UNCHANGED <<searchJobs, answers>>
    BY <1>1, SameWorkers
  <1>2. ASSUME NEW j \in searchJobs, j.id = work.id, IF ok THEN GotHits(j, hits) ELSE NoAnswer(j)
        PROVE  Workers(a)'
    <2>1. j.query = a[work.id]
      BY <1>2 DEF Workers, JobsFit, Of
    <2>2. CASE ok
      BY <1>2, <2>1, <2>2, GotHitsKeeps
    <2>3. CASE ~ok
      BY <1>2, <2>3, NoAnswerKeeps
    <2> QED  BY <2>2, <2>3
  <1> QED  BY <1>1, <1>2 DEF Reply


(* The boxes' part holds on when only workers step. *)
LEMMA BoxesKept ==
  ASSUME NEW a, Boxes(a), WorkerFrame
  PROVE  Boxes(a)'
  BY DEF Boxes, WorkerFrame, BoxesFit, Of, SearchShowsItsQuery

(* The part of Everything and its thread holds on when they do nothing. *)
LEMMA IpcKept ==
  ASSUME NEW a, Ipc(a), UNCHANGED ipcVars, UNCHANGED epoch, everything' \in BOOLEAN
  PROVE  Ipc(a)'
  BY DEF Ipc, ipcVars, WorksFit, IpcFits, Of

(* A worker takes a job, gives up Everything, or ends its walk. *)
LEMMA WorkerStep ==
  ASSUME SearchInv, NEW j \in searchJobs, TakeJob(j) \/ GiveUp(j) \/ EndWalk(j)
  PROVE  SearchInv'
  <1>1. PICK a \in [1..epoch -> Queries] : Boxes(a) /\ Workers(a) /\ Ipc(a)
    BY DEF SearchInv
  <1>2. /\ UNCHANGED <<epoch, search, palette, works, ipc, owed, late, everything>>
        /\ WorkerFrame /\ UNCHANGED ipcVars /\ everything' \in BOOLEAN
    BY <1>1 DEF TakeJob, GiveUp, EndWalk, uiVars, ipcVars, WorkerFrame, Ipc
  <1>3. j \in Jobs /\ Of(a, j) /\ Clean(j)
    BY <1>1 DEF Workers, JobsFit
  <1>4. Workers(a)'
    <2>1. CASE TakeJob(j) /\ epoch # j.id
      <3>1. searchJobs' = searchJobs \ {j} /\ UNCHANGED answers
        BY <2>1 DEF TakeJob
      <3>2. Outstanding(epoch) => Outstanding(epoch)'
        BY <1>2, <2>1, <3>1 DEF Outstanding
      <3>3. LatestIsAnswered'
        BY <1>1, <1>2, <3>2 DEF Workers, LatestIsAnswered
      <3> QED
        BY <1>1, <1>2, <3>1, <3>3 DEF Workers, JobsFit, AnswersFit, Of, Clean
    <2>2. CASE TakeJob(j) /\ epoch = j.id
      <3> DEFINE k == [j EXCEPT !.stage = IF j.mode = "content" THEN "walk" ELSE "ask",
                                !.part = IF j.mode = "global" THEN "near" ELSE "main"]
      <3>1. k \in Jobs /\ k.id = j.id /\ k.query = j.query /\ k.hits = j.hits
        BY <1>3 DEF Jobs, Stages, Parts
      <3>2. Move(j, k) /\ UNCHANGED answers
        BY <2>2 DEF TakeJob
      <3> HIDE DEF k
      <3> QED  BY <1>1, <1>2, <1>3, <3>1, <3>2, MoveKeeps DEF Clean
    <2>3. CASE GiveUp(j)
      BY <1>1, <1>2, <2>3, NoAnswerKeeps DEF GiveUp
    <2>4. CASE EndWalk(j)
      <3>1. PICK hits \in {{}, {j.query}} : Finish(j, hits)
        BY <2>4 DEF EndWalk
      <3>2. hits \in SUBSET Queries /\ hits \subseteq {j.query}
        BY <1>3 DEF Jobs
      <3> QED  BY <1>1, <1>2, <3>1, <3>2, FinishKeeps
    <2> QED  BY <2>1, <2>2, <2>3, <2>4
  <1> QED  BY <1>1, <1>2, <1>4, BoxesKept, IpcKept DEF SearchInv

(* The query of a job goes into the channel, or there is no Everything. *)
LEMMA AskEverythingStep ==
  ASSUME SearchInv, NEW j \in searchJobs, AskEverything(j)
  PROVE  SearchInv'
  <1>1. PICK a \in [1..epoch -> Queries] : Boxes(a) /\ Workers(a) /\ Ipc(a)
    BY DEF SearchInv
  <1>2. UNCHANGED <<epoch, search, palette, ipc, owed, late>> /\ WorkerFrame
        /\ everything' \in BOOLEAN
    BY <1>1 DEF AskEverything, uiVars, WorkerFrame, Ipc
  <1>3. j \in Jobs /\ Of(a, j) /\ Clean(j)
    BY <1>1 DEF Workers, JobsFit
  <1>4. CASE everything'
    <2> DEFINE k == [j EXCEPT !.stage = "wait"]
               w == [id |-> j.id, part |-> j.part, query |-> j.query]
    <2>1. k \in Jobs /\ k.id = j.id /\ k.query = j.query /\ k.hits = j.hits
      BY <1>3 DEF Jobs, Stages
    <2>2. Move(j, k) /\ UNCHANGED answers /\ works' = Append(works, w)
      BY <1>4 DEF AskEverything
    <2>3. w \in Works /\ Of(a, w)
      BY <1>3 DEF Works, Jobs, Of
    <2> HIDE DEF k, w
    <2>4. Workers(a)'
      BY <1>1, <1>2, <1>3, <2>1, <2>2, MoveKeeps DEF Clean
    <2>5. works' \in Seq(Works) /\ \A i \in DOMAIN works' :
            works'[i] = w \/ (i \in DOMAIN works /\ works'[i] = works[i])
      BY <1>1, <2>2, <2>3, AppendFacts DEF Ipc
    <2>6. WorksFit(a)'
      BY <1>1, <1>2, <2>3, <2>5 DEF Ipc, WorksFit, Of
    <2>7. Ipc(a)'
      BY <1>1, <1>2, <2>5, <2>6 DEF Ipc, IpcFits
    <2> QED  BY <1>1, <1>2, <2>4, <2>7, BoxesKept DEF SearchInv
  <1>5. CASE ~everything'
    <2>1. NoAnswer(j) /\ UNCHANGED ipcVars
      BY <1>5 DEF AskEverything, ipcVars
    <2>2. Workers(a)'
      BY <1>1, <1>2, <2>1, NoAnswerKeeps
    <2> QED  BY <1>1, <1>2, <2>1, <2>2, BoxesKept, IpcKept DEF SearchInv
  <1> QED  BY <1>4, <1>5

------------------------------------------------------------------------------
(* The IPC thread. *)

(* The next query of the channel is sent, or cannot be. *)
LEMMA SendStep ==
  ASSUME SearchInv, SendQuery \/ SendFails
  PROVE  SearchInv'
  <1>1. PICK a \in [1..epoch -> Queries] : Boxes(a) /\ Workers(a) /\ Ipc(a)
    BY DEF SearchInv
  <1> DEFINE w == Head(works)
  <1>2. /\ UNCHANGED <<epoch, search, palette, everything>>
        /\ ipc = Nobody /\ works # <<>> /\ works' = Tail(works) /\ works \in Seq(Works)
        /\ late \in BOOLEAN /\ owed \in Seq(Queries)
    BY <1>1 DEF SendQuery, SendFails, uiVars, Ipc
  <1>3. /\ works' \in Seq(Works) /\ w \in Works /\ Of(a, w)
        /\ WorksFit(a)'
    BY <1>1, <1>2, TailFacts DEF Ipc, WorksFit, Of
  <1>4. w.query \in Queries /\ w.id \in Nat \ {0} /\ w.part \in Parts /\ a[w.id] = w.query
        /\ w.id \in 1..epoch
    BY <1>3 DEF Works, Of, SearchInv
  <1>5. CASE SendQuery
    <2>1. /\ ipc' = [id |-> w.id, part |-> w.part, items |-> {}, got |-> FALSE]
          /\ owed' = Append(owed, w.query)
          /\ UNCHANGED <<searchJobs, answers, late>>
      BY <1>5 DEF SendQuery
    <2> HIDE DEF w
    <2>2. WorkerFrame /\ owed' \in Seq(Queries)
      BY <1>2, <1>4, <2>1 DEF WorkerFrame
    <2>3. /\ ipc' \in Waits /\ ipc'.id = w.id /\ ipc'.items = {} /\ ~ipc'.got
      BY <1>4, <2>1 DEF Waits
    <2>4. late \/ owed' = <<a[w.id]>>
      <3>1. late \/ owed = <<>>
        BY <1>1, <1>2 DEF Ipc, IpcFits
      <3>2. CASE owed = <<>>
        <4>1. owed' = Append(<<>>, a[w.id])
          BY <1>4, <2>1, <3>2
        <4> QED  BY <4>1
      <3> QED  BY <3>1, <3>2
    <2>5. ipc' # Nobody
      BY <1>4, <2>3 DEF Nobody
    <2>6. IpcFits(a)'
      BY <1>2, <1>4, <2>1, <2>3, <2>4, <2>5 DEF IpcFits
    <2>7. Ipc(a)'
      BY <1>1, <1>2, <1>3, <2>1, <2>2, <2>3, <2>6 DEF Ipc
    <2> QED  BY <1>1, <1>2, <2>1, <2>2, <2>7, BoxesKept, SameWorkers DEF SearchInv
  <1>6. CASE SendFails
    <2>1. /\ Reply(w, FALSE, {}) /\ UNCHANGED ipc
          /\ \/ UNCHANGED <<owed, late>>
             \/ owed' = Append(owed, w.query) /\ late' = TRUE
      BY <1>6 DEF SendFails
    <2> HIDE DEF w
    <2>2. WorkerFrame /\ owed' \in Seq(Queries) /\ late' \in BOOLEAN
      <3>1. CASE UNCHANGED <<owed, late>>
        BY <1>2, <3>1 DEF WorkerFrame
      <3>2. CASE owed' = Append(owed, w.query) /\ late' = TRUE
        BY <1>2, <1>4, <3>2 DEF WorkerFrame
      <3> QED  BY <2>1, <3>1, <3>2
    <2>3. Workers(a)'
      BY <1>1, <2>1, <2>2, ReplyKeeps
    <2>4. IpcFits(a)'
      BY <1>1, <1>2, <2>1 DEF Ipc, IpcFits
    <2>5. Ipc(a)'
      BY <1>1, <1>2, <1>3, <2>1, <2>2, <2>4 DEF Ipc
    <2> QED  BY <1>1, <1>2, <2>2, <2>3, <2>5, BoxesKept DEF SearchInv
  <1> QED  BY <1>5, <1>6

(* A reply of Everything is read, the wait for one ends, or Everything does. *)
LEMMA IpcStep ==
  ASSUME SearchInv, Pump \/ EndQuery \/ QueryTimesOut \/ EverythingQuits
  PROVE  SearchInv'
  <1>1. PICK a \in [1..epoch -> Queries] : Boxes(a) /\ Workers(a) /\ Ipc(a)
    BY DEF SearchInv
  <1>2. /\ UNCHANGED <<epoch, search, palette, works>>
        /\ late \in BOOLEAN /\ everything \in BOOLEAN
        /\ owed \in Seq(Queries) /\ works \in Seq(Works)
        /\ ipc = Nobody \/ ipc \in Waits
    BY <1>1 DEF Pump, EndQuery, QueryTimesOut, EverythingQuits, uiVars, Ipc
  <1>3. WorksFit(a)'
    BY <1>1, <1>2 DEF Ipc, WorksFit, Of
  <1>4. CASE Pump
    <2>1. PICK found \in {{}, {Head(owed)}} :
            ipc' = [ipc EXCEPT !.items = @ \cup found, !.got = TRUE]
      BY <1>4 DEF Pump
    <2>2. /\ ipc \in Waits /\ ipc # Nobody /\ owed # <<>> /\ owed' = Tail(owed)
          /\ UNCHANGED <<searchJobs, answers, everything, late>>
      BY <1>2, <1>4 DEF Pump
    <2>3. /\ owed' \in Seq(Queries) /\ Head(owed) \in Queries /\ found \in SUBSET Queries
      BY <1>2, <2>1, <2>2, TailFacts
    <2>4. /\ ipc' \in Waits /\ ipc'.id = ipc.id /\ ipc'.items = ipc.items \cup found
      BY <2>1, <2>2, <2>3 DEF Waits
    <2>5. late \/ (found \subseteq {a[ipc.id]} /\ owed' = <<>>)
      <3>1. late \/ owed = <<a[ipc.id]>>
        BY <1>1, <2>2 DEF Ipc, IpcFits
      <3> QED  BY <2>1, <2>2, <3>1
    <2>6. ipc' # Nobody
      BY <2>4 DEF Waits, Nobody
    <2>7. IpcFits(a)'
      BY <1>1, <1>2, <2>2, <2>4, <2>5 DEF Ipc, IpcFits
    <2>8. Ipc(a)' /\ WorkerFrame
      BY <1>2, <1>3, <2>2, <2>3, <2>4, <2>7 DEF Ipc, WorkerFrame
    <2> QED  BY <1>1, <1>2, <2>2, <2>8, BoxesKept, SameWorkers DEF SearchInv
  <1>5. CASE EndQuery \/ QueryTimesOut
    <2> DEFINE ok == IF EndQuery THEN TRUE ELSE FALSE
               hits == IF ok THEN ipc.items ELSE {}
    <2>1. /\ ipc \in Waits /\ ipc # Nobody /\ ipc' = Nobody
          /\ UNCHANGED <<owed, everything>>
      BY <1>2, <1>5 DEF EndQuery, QueryTimesOut
    <2>2. (EndQuery /\ ipc.got /\ Reply(ipc, TRUE, ipc.items) /\ UNCHANGED late)
          \/ (QueryTimesOut /\ Reply(ipc, FALSE, {}) /\ late' = TRUE)
      BY <1>5 DEF EndQuery, QueryTimesOut
    <2>3. WorkerFrame /\ late' \in BOOLEAN /\ ipc.items \in SUBSET Queries
      BY <1>2, <2>1, <2>2 DEF WorkerFrame, Waits
    <2>4. late \/ ipc.items \subseteq {a[ipc.id]}
      BY <1>1, <2>1 DEF Ipc, IpcFits
    <2>5. Workers(a)'
      <3>1. CASE Reply(ipc, TRUE, ipc.items) /\ UNCHANGED late
        BY <1>1, <2>3, <2>4, <3>1, ReplyKeeps
      <3>2. CASE Reply(ipc, FALSE, {})
        BY <1>1, <2>3, <3>2, ReplyKeeps
      <3> QED  BY <2>2, <3>1, <3>2
    <2>6. IpcFits(a)'
      BY <1>1, <2>1, <2>2 DEF Ipc, IpcFits
    <2>7. Ipc(a)'
      BY <1>2, <1>3, <2>1, <2>3, <2>6 DEF Ipc
    <2> QED  BY <1>1, <1>2, <2>3, <2>5, <2>7, BoxesKept DEF SearchInv
  <1>6. CASE EverythingQuits
    <2>1. owed' = <<>> /\ UNCHANGED <<searchJobs, answers, ipc, late>> /\ everything' = FALSE
      BY <1>6 DEF EverythingQuits, uiVars
    <2>2. IpcFits(a)'
      BY <1>1, <1>2, <2>1 DEF Ipc, IpcFits
    <2>3. WorkerFrame /\ owed' \in Seq(Queries) /\ everything' \in BOOLEAN
      <3>1. WorkerFrame
        BY <1>2, <2>1 DEF WorkerFrame
      <3>2. owed' \in Seq(Queries)
        BY <2>1
      <3>3. everything' \in BOOLEAN
        BY <2>1
      <3> QED  BY <3>1, <3>2, <3>3
    <2>4. Ipc(a)'
      BY <1>2, <1>3, <2>1, <2>2, <2>3 DEF Ipc
    <2> QED  BY <1>1, <1>2, <2>1, <2>3, <2>4, BoxesKept, SameWorkers DEF SearchInv
  <1> QED  BY <1>4, <1>5, <1>6


------------------------------------------------------------------------------
(* The user asks. *)

(* A new request: what was asked before stays, and the new one is on its way. *)
LEMMA AskFacts ==
  ASSUME epoch \in Nat, NEW a \in [1..epoch -> Queries], Workers(a), Ipc(a),
         NEW q \in Queries, NEW m \in Modes \cup {"palette"}, Ask(q, m),
         UNCHANGED <<answers, ipcVars>>, everything' \in BOOLEAN
  PROVE  \E b \in [1..epoch' -> Queries] :
           /\ b[epoch'] = q /\ \A i \in 1..epoch : b[i] = a[i]
           /\ searchJobs' \in SUBSET Jobs /\ JobsFit(b)' /\ AnswersFit(b)'
           /\ Ipc(b)' /\ \E j \in searchJobs' : j.id = epoch'
  <1> DEFINE r == Request(epoch + 1, q, m)
  <1>1. epoch' = epoch + 1 /\ searchJobs' = searchJobs \cup {r}
    BY DEF Ask
  <1>2. PICK b \in [1..epoch' -> Queries] :
          b[epoch'] = q /\ \A i \in 1..epoch : b[i] = a[i] /\ i \in 1..epoch'
    <2> DEFINE c == [i \in 1..(epoch + 1) |-> IF i = epoch + 1 THEN q ELSE a[i]]
    <2>1. /\ c \in [1..epoch' -> Queries] /\ c[epoch'] = q
          /\ \A i \in 1..epoch : c[i] = a[i] /\ i \in 1..epoch'
      BY <1>1
    <2> QED  BY <2>1
  <1>3. r \in Jobs /\ r.id = epoch' /\ r.query = q /\ r.hits = {}
    BY <1>1 DEF Request, Jobs, Stages, Parts
  <1> HIDE DEF r
  <1>4. epoch' \in 1..epoch'
    BY <1>1
  <1>5. JobsFit(b)' /\ searchJobs' \in SUBSET Jobs
    BY <1>1, <1>2, <1>3, <1>4 DEF Workers, ipcVars, JobsFit, Of, Clean
  <1>6. AnswersFit(b)'
    BY <1>1, <1>2 DEF Workers, ipcVars, AnswersFit, Of, Clean
  <1>7. Ipc(b)'
    BY <1>1, <1>2 DEF Ipc, ipcVars, WorksFit, IpcFits, Of
  <1>8. \E j \in searchJobs' : j.id = epoch'
    BY <1>1, <1>3
  <1> QED  BY <1>2, <1>5, <1>6, <1>7, <1>8

(* run_search: an earlier request is given up for a later one. *)
LEMMA RunSearchStep ==
  ASSUME SearchInv, NEW q \in Typed, NEW m \in Modes, RunSearch(q, m),
         UNCHANGED <<palette, answers, ipcVars>>, everything' \in BOOLEAN
  PROVE  SearchInv'
  <1>1. PICK a \in [1..epoch -> Queries] : Boxes(a) /\ Workers(a) /\ Ipc(a)
    BY DEF SearchInv
  <1>2. epoch \in Nat
    BY DEF SearchInv
  <1>3. CASE q = Blank
    <2>1. /\ search' = [search EXCEPT !.query = q, !.mode = m,
                                      !.running = FALSE, !.results = NoResults]
          /\ UNCHANGED <<epoch, searchJobs>>
      BY <1>3 DEF RunSearch
    <2>2. NoResults \in Results
      BY DEF NoResults, Results, Typed
    <2>3. /\ search' \in [query : Typed, mode : Modes, id : Nat, running : BOOLEAN,
                          results : Results]
          /\ search'.query = Blank /\ search'.id = search.id
      BY <1>1, <1>3, <2>1, <2>2 DEF Boxes
    <2>4. Boxes(a)'
      BY <1>1, <2>1, <2>3 DEF Boxes, BoxesFit, SearchShowsItsQuery, Of
    <2>5. Workers(a)'
      BY <1>1, <2>1, <2>3
      DEF Workers, ipcVars, JobsFit, AnswersFit, Of, Clean, LatestIsAnswered, Outstanding
    <2> QED  BY <1>1, <1>2, <2>1, <2>4, <2>5, IpcKept DEF SearchInv
  <1>4. CASE q # Blank
    <2>1. q \in Queries /\ Ask(q, m) /\ epoch' = epoch + 1
          /\ search' = [search EXCEPT !.query = q, !.mode = m,
                                      !.running = TRUE, !.id = epoch']
      BY <1>4 DEF RunSearch, Ask, Typed
    <2>0. epoch' \in Nat
      BY <1>2, <2>1
    <2>2. PICK b \in [1..epoch' -> Queries] :
            /\ b[epoch'] = q /\ \A i \in 1..epoch : b[i] = a[i]
            /\ searchJobs' \in SUBSET Jobs /\ JobsFit(b)' /\ AnswersFit(b)'
            /\ Ipc(b)' /\ \E j \in searchJobs' : j.id = epoch'
      BY <1>1, <1>2, <2>1, AskFacts
    <2>3. /\ search' \in [query : Typed, mode : Modes, id : Nat, running : BOOLEAN,
                          results : Results]
          /\ search'.query = q /\ search'.id = epoch' /\ search'.running
      BY <1>1, <2>1, <2>0 DEF Boxes
    <2>4. palette.id \in 0..epoch /\ (palette.query # Blank => Of(a, palette))
      BY <1>1 DEF Boxes, BoxesFit
    <2>5. Boxes(b)'
      BY <1>1, <1>2, <2>1, <2>2, <2>3, <2>4 DEF Boxes, BoxesFit, SearchShowsItsQuery, Of
    <2>6. LatestIsAnswered'
      BY <1>2, <2>1, <2>2, <2>3, <2>4 DEF LatestIsAnswered, Outstanding
    <2>7. Workers(b)'
      BY <1>1, <2>2, <2>6 DEF Workers
    <2> QED  BY <1>2, <2>1, <2>2, <2>5, <2>7 DEF SearchInv
  <1> QED  BY <1>3, <1>4

(* The search window opens or is typed into. *)
LEMMA SearchStep ==
  ASSUME SearchInv, OpenSearch \/ EditSearch
  PROVE  SearchInv'
  <1>1. PICK a \in [1..epoch -> Queries] : Boxes(a) /\ Workers(a) /\ Ipc(a)
    BY DEF SearchInv
  <1>2. /\ search \in [query : Typed, mode : Modes, id : Nat, running : BOOLEAN,
                       results : Results]
        /\ UNCHANGED <<palette, answers, ipcVars>> /\ everything' \in BOOLEAN
        /\ UNCHANGED everything
    BY <1>1 DEF Boxes, Ipc, OpenSearch, EditSearch
  <1>3. CASE OpenSearch /\ search.query = Blank
    <2>1. search' = [search EXCEPT !.mode = "here"] /\ UNCHANGED <<epoch, searchJobs>>
      BY <1>3 DEF OpenSearch
    <2>2. /\ search' \in [query : Typed, mode : Modes, id : Nat, running : BOOLEAN,
                          results : Results]
          /\ search'.query = Blank /\ search'.id = search.id
      BY <1>2, <1>3, <2>1 DEF Modes
    <2>3. Boxes(a)'
      BY <1>1, <1>2, <2>1, <2>2 DEF Boxes, BoxesFit, SearchShowsItsQuery, Of
    <2>4. Workers(a)'
      BY <1>1, <1>2, <2>1, <2>2
      DEF Workers, ipcVars, JobsFit, AnswersFit, Of, Clean, LatestIsAnswered, Outstanding
    <2> QED  BY <1>1, <1>2, <2>1, <2>3, <2>4, IpcKept DEF SearchInv
  <1>4. CASE OpenSearch /\ search.query # Blank
    <2>1. RunSearch(search.query, "here") /\ "here" \in Modes /\ search.query \in Typed
      BY <1>2, <1>4 DEF OpenSearch, Modes
    <2> QED  BY <1>2, <2>1, RunSearchStep
  <1>5. CASE EditSearch
    <2>1. PICK q \in Typed, m \in Modes : RunSearch(q, m)
      BY <1>2, <1>5 DEF EditSearch
    <2> QED  BY <1>2, <2>1, RunSearchStep
  <1> QED  BY <1>3, <1>4, <1>5

(* The palette opens or is typed into. *)
LEMMA PaletteStep ==
  ASSUME SearchInv, OpenPalette \/ EditPalette
  PROVE  SearchInv'
  <1>1. PICK a \in [1..epoch -> Queries] : Boxes(a) /\ Workers(a) /\ Ipc(a)
    BY DEF SearchInv
  <1>2. /\ palette \in [query : Typed, id : Nat, results : Results]
        /\ UNCHANGED <<search, answers, ipcVars>> /\ everything' \in BOOLEAN
        /\ epoch \in Nat
    BY <1>1 DEF Boxes, Ipc, OpenPalette, EditPalette, SearchInv
  <1>3. PICK q \in Typed : RunPalette(q)
    BY <1>2 DEF OpenPalette, EditPalette
  <1>4. CASE q = Blank
    <2>1. /\ palette' = [palette EXCEPT !.query = q, !.results = NoResults]
          /\ UNCHANGED <<epoch, searchJobs>>
      BY <1>3, <1>4 DEF RunPalette
    <2>2. NoResults \in Results
      BY DEF NoResults, Results, Typed
    <2>3. /\ palette' \in [query : Typed, id : Nat, results : Results]
          /\ palette'.query = Blank /\ palette'.id = palette.id
      BY <1>2, <1>4, <2>1, <2>2
    <2>4. Boxes(a)'
      BY <1>1, <1>2, <2>1, <2>3 DEF Boxes, BoxesFit, ipcVars, SearchShowsItsQuery, Of
    <2>5. Workers(a)'
      BY <1>1, <1>2, <2>1, <2>3
      DEF Workers, ipcVars, JobsFit, AnswersFit, Of, Clean, LatestIsAnswered, Outstanding
    <2> QED  BY <1>1, <1>2, <2>1, <2>4, <2>5, IpcKept DEF SearchInv
  <1>5. CASE q # Blank
    <2>1. q \in Queries /\ Ask(q, "palette") /\ epoch' = epoch + 1
          /\ palette' = [palette EXCEPT !.query = q, !.id = epoch']
      BY <1>3, <1>5 DEF RunPalette, Ask, Typed
    <2>0. epoch' \in Nat
      BY <1>2, <2>1
    <2>2. PICK b \in [1..epoch' -> Queries] :
            /\ b[epoch'] = q /\ \A i \in 1..epoch : b[i] = a[i]
            /\ searchJobs' \in SUBSET Jobs /\ JobsFit(b)' /\ AnswersFit(b)'
            /\ Ipc(b)' /\ \E j \in searchJobs' : j.id = epoch'
      BY <1>1, <1>2, <2>1, AskFacts
    <2>3. /\ palette' \in [query : Typed, id : Nat, results : Results]
          /\ palette'.query = q /\ palette'.id = epoch'
      BY <1>2, <2>1, <2>0
    <2>4. search.id \in 0..epoch /\ (search.query # Blank => Of(a, search))
      BY <1>1 DEF Boxes, BoxesFit
    <2>5. Boxes(b)'
      BY <1>1, <1>2, <2>1, <2>2, <2>3, <2>4
      DEF Boxes, BoxesFit, ipcVars, SearchShowsItsQuery, Of
    <2>6. LatestIsAnswered'
      BY <1>2, <2>1, <2>2, <2>3, <2>4 DEF LatestIsAnswered, Outstanding
    <2>7. Workers(b)'
      BY <1>1, <1>2, <2>2, <2>6 DEF Workers
    <2> QED  BY <1>2, <2>1, <2>2, <2>5, <2>7 DEF SearchInv
  <1> QED  BY <1>4, <1>5

(* An answer: a box whose request it is of shows it. *)
LEMMA SearchAnswerStep ==
  ASSUME SearchInv, OnSearchResults
  PROVE  SearchInv'
  <1>1. PICK a \in [1..epoch -> Queries] : Boxes(a) /\ Workers(a) /\ Ipc(a)
    BY DEF SearchInv
  <1> DEFINE r == Head(answers)
  <1>2. /\ answers \in Seq(Results) /\ answers # <<>> /\ answers' = Tail(answers)
        /\ search' = IF r.id = search.id
                     THEN [search EXCEPT !.running = FALSE, !.results = r] ELSE search
        /\ palette' = IF r.id = palette.id
                      THEN [palette EXCEPT !.results = r] ELSE palette
        /\ UNCHANGED <<epoch, searchJobs, ipcVars, everything>>
        /\ everything' \in BOOLEAN
    BY <1>1 DEF OnSearchResults, Workers, Ipc
  <1>3. /\ r \in Results /\ r = answers[1] /\ 1 \in DOMAIN answers
        /\ answers' \in Seq(Results)
        /\ \A i \in DOMAIN answers' : i + 1 \in DOMAIN answers /\ answers'[i] = answers[i + 1]
        /\ \A i \in DOMAIN answers :
             i # 1 => i - 1 \in DOMAIN answers' /\ answers'[i - 1] = answers[i]
    BY <1>2, TailFacts
  <1>4. Of(a, r) /\ Clean(r)
    BY <1>1, <1>3 DEF Workers, AnswersFit
  <1> HIDE DEF r
  <1>5. /\ search' \in [query : Typed, mode : Modes, id : Nat, running : BOOLEAN,
                        results : Results]
        /\ search'.query = search.query /\ search'.id = search.id
        /\ \/ search' = search /\ r.id # search.id
           \/ search'.results = r /\ r.id = search.id
    BY <1>1, <1>2, <1>3 DEF Boxes
  <1>6. /\ palette' \in [query : Typed, id : Nat, results : Results]
        /\ palette'.query = palette.query /\ palette'.id = palette.id
        /\ \/ palette' = palette /\ r.id # palette.id
           \/ palette'.results = r /\ r.id = palette.id
    BY <1>1, <1>2, <1>3 DEF Boxes
  <1>7. search.query # Blank => Of(a, search)
    BY <1>1 DEF Boxes, BoxesFit
  <1>8. palette.query # Blank => Of(a, palette)
    BY <1>1 DEF Boxes, BoxesFit
  <1>9. BoxesFit(a)'
    BY <1>1, <1>2, <1>5, <1>6 DEF Boxes, BoxesFit, Of
  <1>10. SearchShowsItsQuery'
    BY <1>1, <1>2, <1>4, <1>5, <1>7 DEF Boxes, SearchShowsItsQuery, Of, Clean, ipcVars
  <1>11. JobsFit(a)' /\ AnswersFit(a)'
    BY <1>1, <1>2, <1>3 DEF Workers, JobsFit, AnswersFit, Of, Clean, ipcVars
  <1>12. ASSUME NEW id, id # r.id, Outstanding(id)
         PROVE  Outstanding(id)'
    BY <1>2, <1>3, <1>12 DEF Outstanding
  <1>13. LatestIsAnswered'
    <2>1. search.query # Blank /\ search.id = epoch =>
            Outstanding(epoch)' \/ (search'.results.id = epoch
                                    /\ search'.results.query = search.query)
      <3>1. search.query # Blank /\ search.id = epoch =>
              Outstanding(epoch) \/ (search.results.id = epoch
                                     /\ search.results.query = search.query)
        BY <1>1 DEF Workers, LatestIsAnswered
      <3>2. search.query # Blank /\ search.id = epoch /\ r.id = epoch => r.query = search.query
        BY <1>4, <1>7 DEF Of
      <3> QED  BY <1>2, <1>5, <1>12, <3>1, <3>2
    <2>2. palette.query # Blank /\ palette.id = epoch =>
            Outstanding(epoch)' \/ (palette'.results.id = epoch
                                    /\ palette'.results.query = palette.query)
      <3>1. palette.query # Blank /\ palette.id = epoch =>
              Outstanding(epoch) \/ (palette.results.id = epoch
                                     /\ palette.results.query = palette.query)
        BY <1>1 DEF Workers, LatestIsAnswered
      <3>2. palette.query # Blank /\ palette.id = epoch /\ r.id = epoch =>
              r.query = palette.query
        BY <1>4, <1>8 DEF Of
      <3> QED  BY <1>2, <1>6, <1>12, <3>1, <3>2
    <2> QED  BY <1>2, <1>5, <1>6, <2>1, <2>2 DEF LatestIsAnswered
  <1>14. Boxes(a)' /\ Workers(a)' /\ Ipc(a)'
    BY <1>1, <1>2, <1>3, <1>5, <1>6, <1>9, <1>10, <1>11, <1>13, IpcKept DEF Boxes, Workers
  <1> QED  BY <1>1, <1>2, <1>14 DEF SearchInv

------------------------------------------------------------------------------
(* The theorems. *)

(* At the start nothing has been asked. *)
LEMMA SearchStart == SearchInit => SearchInv
  <1> SUFFICES ASSUME SearchInit PROVE SearchInv
    OBVIOUS
  <1>1. PICK a \in [1..epoch -> Queries] : TRUE
    <2>1. [i \in {} |-> i] \in [1..epoch -> Queries]
      BY DEF SearchInit
    <2> QED  BY <2>1
  <1>2. NoResults \in Results
    BY DEF NoResults, Results, Typed
  <1>3. Boxes(a)
    BY <1>2 DEF SearchInit, Boxes, BoxesFit, SearchShowsItsQuery, Typed, Modes
  <1>4. Workers(a)
    BY DEF SearchInit, Workers, JobsFit, AnswersFit, LatestIsAnswered
  <1>5. Ipc(a)
    <2>1. <<>> \in Seq(Works) /\ <<>> \in Seq(Queries)
      OBVIOUS
    <2>2. WorksFit(a) /\ IpcFits(a)
      BY DEF SearchInit, WorksFit, IpcFits
    <2> QED  BY <2>1, <2>2 DEF SearchInit, Ipc
  <1>6. epoch \in Nat
    BY DEF SearchInit
  <1> QED  BY <1>1, <1>3, <1>4, <1>5, <1>6 DEF SearchInv

(* Every step of the searches keeps their invariant. *)
LEMMA SearchNextStep == SearchInv /\ [SearchNext]_searchVars => SearchInv'
  <1> SUFFICES ASSUME SearchInv, [SearchNext]_searchVars PROVE SearchInv'
    OBVIOUS
  <1>1. CASE OpenSearch \/ EditSearch
    BY <1>1, SearchStep
  <1>2. CASE OpenPalette \/ EditPalette
    BY <1>2, PaletteStep
  <1>3. CASE OnSearchResults
    BY <1>3, SearchAnswerStep
  <1>4. CASE \E j \in searchJobs : TakeJob(j) \/ AskEverything(j) \/ GiveUp(j) \/ EndWalk(j)
    BY <1>4, WorkerStep, AskEverythingStep
  <1>5. CASE SendQuery \/ SendFails
    BY <1>5, SendStep
  <1>6. CASE Pump \/ EndQuery \/ QueryTimesOut \/ EverythingQuits
    BY <1>6, IpcStep
  <1>7. CASE UNCHANGED searchVars
    <2>1. UNCHANGED <<epoch, search, palette, searchJobs, answers, works, ipc, owed,
                      everything, late>>
      BY <1>7 DEF searchVars
    <2>2. PICK a \in [1..epoch -> Queries] : Boxes(a) /\ Workers(a) /\ Ipc(a)
      BY DEF SearchInv
    <2>3. WorkerFrame /\ UNCHANGED ipcVars /\ everything' \in BOOLEAN
      BY <2>1, <2>2 DEF WorkerFrame, ipcVars, Ipc
    <2> QED  BY <2>1, <2>2, <2>3, BoxesKept, SameWorkers, IpcKept DEF SearchInv
  <1> QED
    BY <1>1, <1>2, <1>3, <1>4, <1>5, <1>6, <1>7 DEF SearchNext

(* The inductive invariant of the searches holds in every reachable state. *)
THEOREM SearchInvariance == SearchSpec => []SearchInv
  BY SearchStart, SearchNextStep, PTL DEF SearchSpec

(* The window shows what its last request found, for the text in it, and    *)
(* hits of that text as long as no reply of Everything came too late        *)
(* (run_search, handle_msg, run_job, ipc_worker).                           *)
THEOREM ShownWasAsked == SearchSpec => []SearchShowsItsQuery
  <1>1. SearchInv => SearchShowsItsQuery
    BY DEF SearchInv, Boxes
  <1> QED  BY <1>1, SearchInvariance, PTL

(* The answer of the box that asked last is on its way or there, whatever   *)
(* Everything does (search_names, run_job).                                 *)
THEOREM LastIsAnswered == SearchSpec => []LatestIsAnswered
  <1>1. SearchInv => LatestIsAnswered
    BY DEF SearchInv, Workers
  <1> QED  BY <1>1, SearchInvariance, PTL

------------------------------------------------------------------------------
(* All of them, with the view of a folder beside them. *)

(* A step is one of the area in focus, and nothing to the others. *)
LEMMA AreaSteps ==
  ASSUME [FeaturesNext]_featuresVars
  PROVE  /\ [SearchNext]_searchVars /\ [PreviewNext]_previewVars /\ [VolumeNext]_volumeVars
         /\ [PluginsNext]_pluginVars /\ [LookupsNext]_lookupVars /\ [CompareNext]_compareVars
         /\ [ViewsNext]_viewsVars
  <1>1. CASE Only("search") /\ SearchNext
    BY <1>1 DEF Only
  <1>2. CASE Only("preview") /\ PreviewNext
    BY <1>2 DEF Only
  <1>3. CASE Only("volume") /\ VolumeNext
    BY <1>3 DEF Only
  <1>4. CASE Only("plugins") /\ PluginsNext
    BY <1>4 DEF Only
  <1>5. CASE Only("lookups") /\ LookupsNext
    BY <1>5 DEF Only
  <1>6. CASE Only("compare") /\ CompareNext
    BY <1>6 DEF Only
  <1>7. CASE Only("views") /\ ViewsNext
    BY <1>7 DEF Only
  <1>8. CASE UNCHANGED featuresVars
    BY <1>8 DEF featuresVars
  <1> QED  BY <1>1, <1>2, <1>3, <1>4, <1>5, <1>6, <1>7, <1>8 DEF FeaturesNext

(* Side by side, each feature behaves as it does alone.                    *)
THEOREM FeaturesBehave ==
  FeaturesSpec => /\ SearchSpec /\ PreviewSpec /\ VolumeSpec /\ PluginsSpec
                  /\ LookupsSpec /\ CompareSpec /\ ViewsSpec
  <1>1. FeaturesInit => /\ SearchInit /\ PreviewInit /\ VolumeInit /\ PluginsInit
                        /\ LookupsInit /\ CompareInit /\ ViewsInit
    BY DEF FeaturesInit
  <1> QED  BY <1>1, AreaSteps, PTL
             DEF FeaturesSpec, SearchSpec, PreviewSpec, VolumeSpec, PluginsSpec, LookupsSpec,
                 CompareSpec, ViewsSpec

(* The features keep their promises side by side.                          *)
THEOREM FeaturesCorrect ==
  FeaturesSpec => [](/\ SearchShowsItsQuery /\ LatestIsAnswered
                     /\ PreviewIsOfItsPath /\ SoundFollowsPreview
                     /\ IndexFollowsDisk /\ PluginsActAsGranted
                     /\ LookupsArePending /\ CompareActsOnWhatIsTicked
                     /\ ViewIsSortedAndFiltered)
  BY FeaturesBehave, ShownWasAsked, LastIsAnswered, ShownIsChosen, HeardIsPreviewed, IndexIsCurrent,
     RunsAsGranted, AskedIsPending, ActsOnTicked, ViewIsRight, PTL
=============================================================================
