---------------------------- MODULE FileListProofs ----------------------------
(***************************************************************************)
(* What TLAPS proves of the rows of a tab under the user's hands, for any  *)
(* names, folders, orders and filters and any number of inputs.            *)
(***************************************************************************)
EXTENDS FileList, DataLemmas

------------------------------------------------------------------------------
(* Sequences of names. *)

(* A sequence of different members of T. *)
Lists(T) == {s \in Seq(T) : IsInjective(s)}

(* Its members are where their numbers say. *)
LEMMA ListFacts ==
  ASSUME NEW T, NEW s \in Lists(T)
  PROVE  /\ s \in Seq(T) /\ Len(s) \in Nat /\ DOMAIN s = 1 .. Len(s)
         /\ \A i \in 1 .. Len(s) : s[i] \in T
         /\ \A i, j \in 1 .. Len(s) : s[i] = s[j] => i = j
         /\ ToSet(s) = {s[i] : i \in 1 .. Len(s)}
         /\ ToSet(s) \subseteq T
  <1>1. s \in Seq(T) /\ IsInjective(s)
    BY DEF Lists
  <1>2. Len(s) \in Nat /\ DOMAIN s = 1 .. Len(s) /\ \A i \in 1 .. Len(s) : s[i] \in T
    BY <1>1, LenProperties, ElementOfSeq
  <1> QED  BY <1>1, <1>2 DEF IsInjective, ToSet

(* A function on 1 .. n whose values are different members of T is one. *)
LEMMA IsAList ==
  ASSUME NEW T, NEW n \in Nat, NEW s \in [1 .. n -> T],
         \A i, j \in 1 .. n : s[i] = s[j] => i = j
  PROVE  /\ s \in Lists(T) /\ Len(s) = n
         /\ ToSet(s) = {s[i] : i \in 1 .. n}
  <1>1. s \in Seq(T) /\ Len(s) = n /\ DOMAIN s = 1 .. n
    OBVIOUS
  <1> QED  BY <1>1 DEF Lists, IsInjective, ToSet

(* The sequence without members is one. *)
LEMMA EmptyList ==
  ASSUME NEW T
  PROVE  <<>> \in Lists(T) /\ ToSet(<<>>) = {}
  BY DEF Lists, IsInjective, ToSet

(* It is one of any set that has its members. *)
LEMMA ListIncluded ==
  ASSUME NEW T, NEW U, NEW s \in Lists(T), ToSet(s) \subseteq U
  PROVE  s \in Lists(U)
  <1>1. /\ s \in Seq(T) /\ Len(s) \in Nat
        /\ \A i \in 1 .. Len(s) : s[i] \in ToSet(s)
        /\ \A i, j \in 1 .. Len(s) : s[i] = s[j] => i = j
    BY ListFacts
  <1>2. s \in [1 .. Len(s) -> U]
    BY <1>1, LenProperties
  <1> QED  BY <1>1, <1>2, IsAList

(* A solution of the recursion of OnlyThose. *)
Selecting(f, s, S) ==
  f = [i \in 0 .. Len(s) |->
         IF i = 0 THEN <<>>
         ELSE IF s[i] \in S THEN Append(f[i - 1], s[i]) ELSE f[i - 1]]

(* For any sequence and set there is one. *)
LEMMA SelectingExists ==
  ASSUME NEW s, Len(s) \in Nat, NEW S
  PROVE  \E f : Selecting(f, s, S)
  <1> DEFINE Upto(f, n) ==
               f = [i \in 0 .. n |->
                      IF i = 0 THEN <<>>
                      ELSE IF s[i] \in S THEN Append(f[i - 1], s[i]) ELSE f[i - 1]]
             T == {n \in Nat : \E f : Upto(f, n)}
  <1>1. 0 \in T
    <2>1. Upto([i \in 0 .. 0 |-> <<>>], 0)
      OBVIOUS
    <2> QED  BY <2>1
  <1>2. ASSUME NEW n \in Nat, n \in T
        PROVE  n + 1 \in T
    <2>1. PICK f : Upto(f, n)
      BY <1>2
    <2> DEFINE last == IF s[n + 1] \in S THEN Append(f[n], s[n + 1]) ELSE f[n]
               g == [i \in 0 .. n + 1 |-> IF i = n + 1 THEN last ELSE f[i]]
    <2>2. ASSUME NEW i \in 0 .. n + 1
          PROVE  g[i] = IF i = 0 THEN <<>>
                        ELSE IF s[i] \in S THEN Append(g[i - 1], s[i]) ELSE g[i - 1]
      <3>1. CASE i = n + 1
        <4>1. g[i - 1] = f[n] /\ g[i] = last /\ i # 0
          BY <3>1
        <4> QED  BY <3>1, <4>1
      <3>2. CASE i \in 0 .. n /\ i # 0
        <4>1. g[i - 1] = f[i - 1] /\ g[i] = f[i]
          BY <3>2
        <4>2. f[i] = IF s[i] \in S THEN Append(f[i - 1], s[i]) ELSE f[i - 1]
          BY <2>1, <3>2
        <4> HIDE DEF g
        <4> QED  BY <3>2, <4>1, <4>2
      <3>3. CASE i = 0
        <4>1. g[i] = f[0] /\ f[0] = <<>>
          BY <2>1, <3>3
        <4> QED  BY <3>3, <4>1
      <3> QED  BY <3>1, <3>2, <3>3
    <2>3. Upto(g, n + 1)
      BY <2>2
    <2> HIDE DEF g, Upto
    <2> QED  BY <2>3
  <1>3. Nat \subseteq T
    <2> HIDE DEF T
    <2> QED  BY <1>1, <1>2, Induction
  <1>4. PICK f : Upto(f, Len(s))
    BY <1>3
  <1> QED  BY <1>4 DEF Selecting

(* OnlyThose picks the members of S: each once, and no others. *)
LEMMA OnlyFacts ==
  ASSUME NEW T, NEW s \in Lists(T), NEW S
  PROVE  /\ OnlyThose(s, S) \in Lists(T)
         /\ ToSet(OnlyThose(s, S)) = ToSet(s) \cap S
  <1>1. /\ Len(s) \in Nat /\ \A i \in 1 .. Len(s) : s[i] \in T
        /\ \A i, j \in 1 .. Len(s) : s[i] = s[j] => i = j
        /\ ToSet(s) = {s[i] : i \in 1 .. Len(s)}
    BY ListFacts
  <1>2. PICK f : Selecting(f, s, S) /\ OnlyThose(s, S) = f[Len(s)]
    <2> DEFINE F == CHOOSE f : Selecting(f, s, S)
    <2>1. Selecting(F, s, S)
      BY <1>1, SelectingExists
    <2>2. OnlyThose(s, S) = F[Len(s)]
      BY DEF OnlyThose, Selecting
    <2> QED  BY <2>1, <2>2
  <1>3. /\ f[0] = <<>>
        /\ \A i \in 1 .. Len(s) :
             f[i] = IF s[i] \in S THEN Append(f[i - 1], s[i]) ELSE f[i - 1]
    <2>1. \A i \in 0 .. Len(s) :
            f[i] = IF i = 0 THEN <<>>
                   ELSE IF s[i] \in S THEN Append(f[i - 1], s[i]) ELSE f[i - 1]
      BY <1>2 DEF Selecting
    <2> QED  BY <1>1, <2>1
  <1> DEFINE Good(n) == /\ f[n] \in Lists(T)
                        /\ ToSet(f[n]) = {s[i] : i \in 1 .. n} \cap S
             G == {n \in Nat : n <= Len(s) => Good(n)}
  <1>4. 0 \in G
    BY <1>3, EmptyList
  <1>5. ASSUME NEW n \in Nat, n \in G
        PROVE  n + 1 \in G
    <2> SUFFICES ASSUME n + 1 <= Len(s)
                 PROVE  Good(n + 1)
      OBVIOUS
    <2>1. n + 1 \in 1 .. Len(s) /\ (n + 1) - 1 = n /\ Good(n)
      BY <1>1, <1>5
    <2>2. {s[i] : i \in 1 .. n + 1} = {s[i] : i \in 1 .. n} \cup {s[n + 1]}
      OBVIOUS
    <2>3. CASE s[n + 1] \notin S
      <3>1. f[n + 1] = f[n]
        BY <1>3, <2>1, <2>3
      <3> QED  BY <2>1, <2>2, <2>3, <3>1
    <2>4. CASE s[n + 1] \in S
      <3> DEFINE a == f[n]
                 b == Append(a, s[n + 1])
      <3>1. f[n + 1] = b
        BY <1>3, <2>1, <2>4
      <3>2. /\ a \in Seq(T) /\ Len(a) \in Nat
            /\ \A i, j \in 1 .. Len(a) : a[i] = a[j] => i = j
            /\ \A i \in 1 .. Len(a) : a[i] \in T
            /\ ToSet(a) = {a[i] : i \in 1 .. Len(a)}
        BY <2>1, ListFacts
      <3>3. s[n + 1] \in T /\ s[n + 1] \notin ToSet(a)
        BY <1>1, <2>1
      <3> HIDE DEF a
      <3>4. /\ Len(b) = Len(a) + 1 /\ b \in Seq(T)
            /\ \A i \in 1 .. Len(a) : b[i] = a[i]
            /\ b[Len(a) + 1] = s[n + 1]
        BY <3>2, <3>3
      <3> HIDE DEF b
      <3>5. Len(a) + 1 \in Nat
        BY <3>2
      <3>6. b \in [1 .. Len(a) + 1 -> T]
        BY <3>4, LenProperties
      <3>7. \A i, j \in 1 .. Len(a) + 1 : b[i] = b[j] => i = j
        BY <3>2, <3>3, <3>4
      <3>8. b \in Lists(T) /\ ToSet(b) = {b[i] : i \in 1 .. Len(a) + 1}
        BY <3>5, <3>6, <3>7, IsAList
      <3>9. ToSet(b) = ToSet(a) \cup {s[n + 1]}
        BY <3>2, <3>4, <3>8
      <3>10. ToSet(a) = {s[i] : i \in 1 .. n} \cap S
        BY <2>1 DEF a
      <3> QED  BY <2>2, <2>4, <3>1, <3>8, <3>9, <3>10
    <2> QED  BY <2>3, <2>4
  <1>6. Len(s) \in G
    <2> HIDE DEF G
    <2> QED  BY <1>1, <1>4, <1>5, Induction
  <1>7. Good(Len(s))
    BY <1>1, <1>6
  <1> QED  BY <1>1, <1>2, <1>7

(* Two without a common member make one with the members of both. *)
LEMMA ListsJoined ==
  ASSUME NEW T, NEW a \in Lists(T), NEW b \in Lists(T), ToSet(a) \cap ToSet(b) = {}
  PROVE  a \o b \in Lists(T) /\ ToSet(a \o b) = ToSet(a) \cup ToSet(b)
  <1>1. /\ a \in Seq(T) /\ Len(a) \in Nat
        /\ \A i \in 1 .. Len(a) : a[i] \in T
        /\ \A i, j \in 1 .. Len(a) : a[i] = a[j] => i = j
        /\ ToSet(a) = {a[i] : i \in 1 .. Len(a)}
    BY ListFacts
  <1>2. /\ b \in Seq(T) /\ Len(b) \in Nat
        /\ \A i \in 1 .. Len(b) : b[i] \in T
        /\ \A i, j \in 1 .. Len(b) : b[i] = b[j] => i = j
        /\ ToSet(b) = {b[i] : i \in 1 .. Len(b)}
    BY ListFacts
  <1> DEFINE c == a \o b
             n == Len(a) + Len(b)
  <1>3. /\ c \in Seq(T) /\ Len(c) = n /\ n \in Nat
        /\ \A i \in 1 .. n : c[i] = IF i <= Len(a) THEN a[i] ELSE b[i - Len(a)]
    BY <1>1, <1>2, ConcatProperties
  <1>4. c \in [1 .. n -> T]
    BY <1>3, LenProperties
  <1> HIDE DEF c
  <1>5. /\ \A i \in 1 .. Len(a) : i \in 1 .. n /\ c[i] = a[i]
        /\ \A i \in 1 .. Len(b) : Len(a) + i \in 1 .. n /\ c[Len(a) + i] = b[i]
        /\ \A i \in 1 .. n : i \in 1 .. Len(a) \/ i - Len(a) \in 1 .. Len(b)
    <2>1. \A i \in 1 .. Len(a) : i \in 1 .. n /\ i <= Len(a)
      BY <1>1, <1>2
    <2>2. \A i \in 1 .. Len(b) :
            Len(a) + i \in 1 .. n /\ ~(Len(a) + i <= Len(a)) /\ (Len(a) + i) - Len(a) = i
      BY <1>1, <1>2
    <2>3. \A i \in 1 .. n : i \in 1 .. Len(a) \/ i - Len(a) \in 1 .. Len(b)
      BY <1>1, <1>2
    <2> QED  BY <1>3, <2>1, <2>2, <2>3
  <1>6. ASSUME NEW i \in 1 .. n, NEW j \in 1 .. n, c[i] = c[j]
        PROVE  i = j
    <2>1. CASE i <= Len(a) /\ j <= Len(a)
      BY <1>1, <1>3, <1>6, <2>1
    <2>2. CASE ~(i <= Len(a)) /\ ~(j <= Len(a))
      <3>1. i - Len(a) \in 1 .. Len(b) /\ j - Len(a) \in 1 .. Len(b)
        BY <1>1, <1>2, <2>2
      <3>2. b[i - Len(a)] = b[j - Len(a)]
        BY <1>3, <1>6, <2>2
      <3>3. i - Len(a) = j - Len(a)
        BY <1>2, <3>1, <3>2
      <3> QED  BY <1>1, <3>3
    <2>3. CASE i <= Len(a) /\ ~(j <= Len(a))
      <3>1. i \in 1 .. Len(a) /\ j - Len(a) \in 1 .. Len(b)
        BY <1>1, <1>2, <2>3
      <3>2. a[i] = b[j - Len(a)]
        BY <1>3, <1>6, <2>3
      <3>3. a[i] \in ToSet(a) /\ b[j - Len(a)] \in ToSet(b)
        BY <1>1, <1>2, <3>1
      <3> QED  BY <3>2, <3>3
    <2>4. CASE ~(i <= Len(a)) /\ j <= Len(a)
      <3>1. j \in 1 .. Len(a) /\ i - Len(a) \in 1 .. Len(b)
        BY <1>1, <1>2, <2>4
      <3>2. a[j] = b[i - Len(a)]
        BY <1>3, <1>6, <2>4
      <3>3. a[j] \in ToSet(a) /\ b[i - Len(a)] \in ToSet(b)
        BY <1>1, <1>2, <3>1
      <3> QED  BY <3>2, <3>3
    <2> QED  BY <2>1, <2>2, <2>3, <2>4
  <1>7. c \in Lists(T) /\ ToSet(c) = {c[i] : i \in 1 .. n}
    BY <1>3, <1>4, <1>6, IsAList
  <1>8. {c[i] : i \in 1 .. n} \subseteq ToSet(a) \cup ToSet(b)
    <2> SUFFICES ASSUME NEW i \in 1 .. n
                 PROVE  c[i] \in ToSet(a) \cup ToSet(b)
      OBVIOUS
    <2>1. CASE i <= Len(a)
      BY <1>1, <1>3, <2>1
    <2>2. CASE ~(i <= Len(a))
      <3>1. i - Len(a) \in 1 .. Len(b) /\ c[i] = b[i - Len(a)]
        BY <1>1, <1>2, <1>3, <2>2
      <3> QED  BY <1>2, <3>1
    <2> QED  BY <2>1, <2>2
  <1>9. ToSet(a) \subseteq ToSet(c) /\ ToSet(b) \subseteq ToSet(c)
    <2>1. \A i \in 1 .. Len(a) : a[i] \in ToSet(c)
      BY <1>5, <1>7
    <2>2. \A i \in 1 .. Len(b) : b[i] \in ToSet(c)
      BY <1>5, <1>7
    <2> QED  BY <1>1, <1>2, <2>1, <2>2
  <1> QED  BY <1>7, <1>8, <1>9 DEF c

(* The order does not matter. *)
LEMMA ListReversed ==
  ASSUME NEW T, NEW a \in Lists(T)
  PROVE  Reverse(a) \in Lists(T) /\ ToSet(Reverse(a)) = ToSet(a)
  <1>1. /\ Len(a) \in Nat
        /\ \A i \in 1 .. Len(a) : a[i] \in T
        /\ \A i, j \in 1 .. Len(a) : a[i] = a[j] => i = j
        /\ ToSet(a) = {a[i] : i \in 1 .. Len(a)}
    BY ListFacts
  <1> DEFINE n == Len(a)
             c == [i \in 1 .. n |-> a[(n - i) + 1]]
  <1>2. Reverse(a) = c
    BY DEF Reverse
  <1>3. \A i \in 1 .. n : (n - i) + 1 \in 1 .. n /\ (n - ((n - i) + 1)) + 1 = i
    BY <1>1
  <1>4. \A i \in 1 .. n : c[i] = a[(n - i) + 1]
    OBVIOUS
  <1>5. c \in [1 .. n -> T]
    BY <1>1, <1>3
  <1> HIDE DEF c
  <1>7. ASSUME NEW i \in 1 .. n, NEW j \in 1 .. n, c[i] = c[j]
        PROVE  i = j
    <2>1. (n - i) + 1 = (n - j) + 1
      BY <1>1, <1>3, <1>4, <1>7
    <2> QED  BY <1>1, <2>1
  <1>8. c \in Lists(T) /\ ToSet(c) = {c[i] : i \in 1 .. n}
    BY <1>1, <1>5, <1>7, IsAList
  <1>9. {c[i] : i \in 1 .. n} \subseteq ToSet(a)
    BY <1>1, <1>3, <1>4
  <1>10. ToSet(a) \subseteq {c[i] : i \in 1 .. n}
    BY <1>1, <1>3, <1>4
  <1> QED  BY <1>2, <1>8, <1>9, <1>10

(* Putting folders first, or last, leaves no name out. *)
LEMMA FoldersFirstFacts ==
  ASSUME NEW s \in Lists(Names)
  PROVE  FoldersFirst(s) \in Lists(Names) /\ ToSet(FoldersFirst(s)) = ToSet(s)
  <1> DEFINE a == OnlyThose(s, Dirs)
             b == OnlyThose(s, Names \ Dirs)
  <1>1. a \in Lists(Names) /\ ToSet(a) = ToSet(s) \cap Dirs
    BY OnlyFacts
  <1>2. b \in Lists(Names) /\ ToSet(b) = ToSet(s) \cap (Names \ Dirs)
    BY OnlyFacts
  <1>3. ToSet(s) \subseteq Names
    BY ListFacts
  <1>4. FoldersFirst(s) = a \o b
    BY DEF FoldersFirst
  <1> HIDE DEF a, b
  <1>5. ToSet(a) \cap ToSet(b) = {}
    BY <1>1, <1>2
  <1>6. a \o b \in Lists(Names) /\ ToSet(a \o b) = ToSet(a) \cup ToSet(b)
    BY <1>1, <1>2, <1>5, ListsJoined
  <1>7. ToSet(a) \cup ToSet(b) = ToSet(s)
    BY <1>1, <1>2, <1>3
  <1> QED  BY <1>4, <1>6, <1>7

(* Nor does the direction leave a name out. *)
LEMMA DirectedFacts ==
  ASSUME NEW s \in Lists(Names), NEW ascending
  PROVE  Directed(s, ascending) \in Lists(Names) /\ ToSet(Directed(s, ascending)) = ToSet(s)
  BY ListReversed DEF Directed

(* The indices of different names are different indices. *)
LEMMA IndicesFacts ==
  ASSUME NEW es \in Lists(Names), NEW s \in Lists(Names), ToSet(s) \subseteq ToSet(es)
  PROVE  Indices(es, s) \in Lists(1 .. Len(es))
  <1>1. /\ Len(s) \in Nat /\ DOMAIN s = 1 .. Len(s)
        /\ \A i, j \in 1 .. Len(s) : s[i] = s[j] => i = j
        /\ ToSet(s) = {s[i] : i \in 1 .. Len(s)}
    BY ListFacts
  <1>2. DOMAIN es = 1 .. Len(es) /\ ToSet(es) = {es[i] : i \in 1 .. Len(es)}
    BY ListFacts
  <1> DEFINE c == Indices(es, s)
  <1>3. c = [r \in 1 .. Len(s) |-> IndexOf(es, s[r])]
    BY <1>1 DEF Indices
  <1>4. ASSUME NEW r \in 1 .. Len(s)
        PROVE  c[r] \in 1 .. Len(es) /\ es[c[r]] = s[r]
    <2>1. \E i \in 1 .. Len(es) : es[i] = s[r]
      BY <1>1, <1>2
    <2>2. c[r] = CHOOSE i \in 1 .. Len(es) : es[i] = s[r]
      BY <1>2, <1>3 DEF IndexOf
    <2> HIDE DEF c
    <2> QED  BY <2>1, <2>2
  <1>5. c \in [1 .. Len(s) -> 1 .. Len(es)]
    BY <1>3, <1>4
  <1> HIDE DEF c
  <1>6. \A i, j \in 1 .. Len(s) : c[i] = c[j] => i = j
    BY <1>1, <1>4
  <1>7. c \in Lists(1 .. Len(es))
    BY <1>1, <1>5, <1>6, IsAList
  <1> QED  BY <1>7 DEF c

(* The rows of a view are different entries. *)
LEMMA ViewFacts ==
  ASSUME NEW es \in Lists(Names), NEW ascending, NEW filtered
  PROVE  /\ BuildView(es, ascending, filtered) \in Lists(1 .. Len(es))
         /\ StreamingIndices(es, ascending) \in Lists(1 .. Len(es))
  <1>1. ByName \in Lists(Names)
    BY FileListAssumption DEF Lists, Names
  <1>2. Directed(FoldersFirst(ByName), ascending) \in Lists(Names)
    BY <1>1, FoldersFirstFacts, DirectedFacts
  <1> DEFINE shown == {n \in ToSet(es) : filtered => n \in Matching}
             s == OnlyThose(Directed(FoldersFirst(ByName), ascending), shown)
  <1>3. s \in Lists(Names) /\ ToSet(s) \subseteq ToSet(es)
    <2>1. shown \subseteq ToSet(es)
      OBVIOUS
    <2> HIDE DEF shown
    <2> QED  BY <1>2, <2>1, OnlyFacts
  <1>4. Indices(es, s) \in Lists(1 .. Len(es))
    <2> HIDE DEF s
    <2> QED  BY <1>3, IndicesFacts
  <1>5. StreamingIndices(es, ascending) \in Lists(1 .. Len(es))
    <2>1. /\ Directed(FoldersFirst(es), ascending) \in Lists(Names)
          /\ ToSet(Directed(FoldersFirst(es), ascending)) = ToSet(es)
      BY FoldersFirstFacts, DirectedFacts
    <2> QED  BY <2>1, IndicesFacts DEF StreamingIndices
  <1> QED  BY <1>4, <1>5 DEF BuildView

(* A folder is listed with each of its names once. *)
LEMMA ListedFacts ==
  ASSUME NEW folder
  PROVE  Listed(folder) \in Lists(Names)
  <1>1. OnDisk \in Lists(Names)
    BY FileListAssumption DEF Lists, Names
  <1> QED  BY <1>1, OnlyFacts DEF Listed

(* No list of names is longer than the list of all of them. *)
LEMMA ListsAreShort ==
  ASSUME NEW es \in Lists(Names), NEW v \in Lists(1 .. Len(es))
  PROVE  Len(v) <= Len(ByName)
  <1>1. /\ Len(es) \in Nat /\ \A i \in 1 .. Len(es) : es[i] \in Names
        /\ \A i, j \in 1 .. Len(es) : es[i] = es[j] => i = j
        /\ es \in Seq(Names)
    BY ListFacts
  <1>2. /\ Len(v) \in Nat /\ \A i \in 1 .. Len(v) : v[i] \in 1 .. Len(es)
        /\ \A i, j \in 1 .. Len(v) : v[i] = v[j] => i = j
    BY ListFacts
  <1>3. ByName \in Lists(Names)
    BY FileListAssumption DEF Lists, Names
  <1>4. /\ Len(ByName) \in Nat /\ ByName \in Seq(Names)
        /\ Names = {ByName[i] : i \in 1 .. Len(ByName)}
    BY <1>3, ListFacts DEF Names
  <1>5. /\ IsFiniteSet(1 .. Len(ByName)) /\ Cardinality(1 .. Len(ByName)) = Len(ByName)
        /\ Cardinality(1 .. Len(v)) = Len(v)
    <2>1. \A n \in Nat : IsFiniteSet(1 .. n) /\ Cardinality(1 .. n) = n
      <3> SUFFICES ASSUME NEW n \in Nat
                   PROVE  IsFiniteSet(1 .. n) /\ Cardinality(1 .. n) = n
        OBVIOUS
      <3> QED  BY FS_Interval
    <2> QED  BY <1>2, <1>4, <2>1
  <1>6. ByName \in Surjection(1 .. Len(ByName), Names)
    BY <1>4, LenProperties DEF Surjection
  <1>7. IsFiniteSet(Names) /\ Cardinality(Names) <= Len(ByName)
    BY <1>5, <1>6, FS_Surjection
  <1> DEFINE f == [i \in 1 .. Len(v) |-> es[v[i]]]
  <1>8. f \in Injection(1 .. Len(v), Names)
    <2>1. f \in [1 .. Len(v) -> Names]
      BY <1>1, <1>2
    <2>2. \A i, j \in 1 .. Len(v) : f[i] = f[j] => i = j
      BY <1>1, <1>2
    <2> HIDE DEF f
    <2>3. DOMAIN f = 1 .. Len(v)
      BY <2>1
    <2> QED  BY <2>1, <2>2, <2>3 DEF Injection, IsInjective
  <1>9. Cardinality(1 .. Len(v)) <= Cardinality(Names)
    <2> HIDE DEF f
    <2> QED  BY <1>7, <1>8, FS_Injection
  <1>10. Cardinality(Names) \in Nat
    BY <1>7, FS_CardinalityType
  <1> QED  BY <1>2, <1>4, <1>5, <1>7, <1>9, <1>10

------------------------------------------------------------------------------
(* The state. *)

Tabs == [path : Folders, entries : Lists(Names), view : Seq(Nat),
         selection : SUBSET Nat, cursor : Nat, anchor : Nat,
         ascending : BOOLEAN, filtered : BOOLEAN, loading : BOOLEAN,
         viewOf : Lists(Names)]
Modifiers == [ctrl : BOOLEAN, shift : BOOLEAN, over : Lists(Names)]
Marquees == [from : Nat, at : Nat, additive : BOOLEAN, over : Lists(Names), keep : SUBSET Nat]
Grips == [row : Nat, ctrl : BOOLEAN, shift : BOOLEAN, selection : SUBSET Nat, from : Nat]

AtMostOne(S) == \A x, y \in S : x = y

(* The rows of views, shown or on their way, are different entries of those *)
(* they were made of. *)
ViewsOf(t) == Lists(1 .. Len(t.viewOf))

IsJob(j) == j.of \in Lists(Names) /\ j.view \in Lists(1 .. Len(j.of))

TabTypeOK ==
  /\ tab \in Tabs /\ tab.view \in ViewsOf(tab)
  /\ \A j \in viewJobs : IsJob(j)

HandTypeOK ==
  /\ press \subseteq Modifiers /\ marquee \subseteq Marquees /\ grip \subseteq Grips
  /\ down \in 0 .. Len(ByName)
  /\ AtMostOne(press) /\ AtMostOne(marquee) /\ AtMostOne(rename) /\ AtMostOne(menu)
  /\ AtMostOne(keeping) /\ AtMostOne(pendingSelect) /\ AtMostOne(held) /\ AtMostOne(grip)
  /\ DOMAIN picked = {"delete", "drag", "paste", "rename"}

(* At most one has at most one element. *)
LEMMA OneAtMost ==
  ASSUME NEW S, AtMostOne(S)
  PROVE  Cardinality(S) \in {0, 1}
  <1>1. CASE S = {}
    BY <1>1, FS_EmptySet
  <1>2. CASE S # {}
    <2>1. PICK x : x \in S
      BY <1>2
    <2>2. S = {x}
      BY <2>1 DEF AtMostOne
    <2>3. Cardinality({x}) = 1
      BY FS_Singleton
    <2> QED  BY <2>2, <2>3
  <1> QED  BY <1>1, <1>2

(* What a view says of its rows. *)
LEMMA TabFacts ==
  ASSUME NEW t \in Tabs, t.view \in ViewsOf(t)
  PROVE  /\ Len(t.view) \in Nat /\ DOMAIN t.view = 1 .. Len(t.view)
         /\ \A r \in 1 .. Len(t.view) : t.view[r] \in Nat
         /\ Len(t.entries) \in Nat /\ DOMAIN t.entries = 1 .. Len(t.entries)
         /\ \A i \in 1 .. Len(t.entries) : t.entries[i] \in Names
         /\ Len(t.view) <= Len(ByName) /\ Len(ByName) \in Nat
         /\ t.view # <<>> => Len(t.view) > 0
  <1>1. /\ t.entries \in Lists(Names) /\ t.viewOf \in Lists(Names)
        /\ t.view \in Lists(1 .. Len(t.viewOf))
    BY DEF Tabs, ViewsOf
  <1>2. /\ Len(t.entries) \in Nat /\ DOMAIN t.entries = 1 .. Len(t.entries)
        /\ \A i \in 1 .. Len(t.entries) : t.entries[i] \in Names
    BY <1>1, ListFacts
  <1>3. /\ Len(t.view) \in Nat /\ DOMAIN t.view = 1 .. Len(t.view)
        /\ \A r \in 1 .. Len(t.view) : t.view[r] \in 1 .. Len(t.viewOf)
        /\ t.view \in Seq(1 .. Len(t.viewOf)) /\ Len(t.viewOf) \in Nat
    BY <1>1, ListFacts
  <1>4. t.view # <<>> => Len(t.view) > 0
    BY <1>3, EmptySeq
  <1>5. Len(ByName) \in Nat
    BY FileListAssumption, LenProperties
  <1> QED  BY <1>1, <1>2, <1>3, <1>4, <1>5, ListsAreShort

(* Only the selection, the cursor or the anchor have changed. *)
Reselected(t, u) ==
  /\ u \in Tabs
  /\ u.path = t.path /\ u.entries = t.entries /\ u.view = t.view /\ u.viewOf = t.viewOf
  /\ u.loading = t.loading

(* A move of the cursor only selects. *)
LEMMA MoveCursorFacts ==
  ASSUME NEW t \in Tabs, t.view \in ViewsOf(t), NEW to \in Nat \ {0}, NEW extend \in BOOLEAN
  PROVE  Reselected(t, MoveCursor(t, to, extend))
  <1>1. /\ Len(t.view) \in Nat /\ \A r \in 1 .. Len(t.view) : t.view[r] \in Nat
        /\ t.view # <<>> => Len(t.view) > 0
    BY TabFacts
  <1> DEFINE pos == Clamp(to, t)
             from == From(t, pos)
  <1>2. pos \in Nat /\ (t.view # <<>> => pos \in 1 .. Len(t.view))
    BY <1>1 DEF Clamp
  <1>3. from \in Nat /\ (t.view # <<>> => from # 0)
    BY <1>2 DEF From, Tabs
  <1>4. t.view # <<>> => Slice(t, from, pos) \subseteq Nat
    BY <1>1, <1>2, <1>3 DEF Slice, Upper, Lower
  <1>5. t.view # <<>> => t.view[pos] \in Nat
    BY <1>1, <1>2
  <1> HIDE DEF pos, from
  <1>6. CASE t.view = <<>>
    BY <1>6 DEF MoveCursor, Reselected
  <1>7. CASE t.view # <<>> /\ extend
    <2>1. MoveCursor(t, to, extend) =
            [t EXCEPT !.anchor = from, !.cursor = pos, !.selection = Slice(t, from, pos)]
      BY <1>7 DEF MoveCursor, pos, from
    <2> QED  BY <1>2, <1>3, <1>4, <1>7, <2>1 DEF Reselected, Tabs
  <1>8. CASE t.view # <<>> /\ ~extend
    <2>1. MoveCursor(t, to, extend) =
            [t EXCEPT !.anchor = pos, !.cursor = pos, !.selection = {t.view[pos]}]
      BY <1>8 DEF MoveCursor, pos, from
    <2>2. {t.view[pos]} \in SUBSET Nat
      BY <1>5, <1>8
    <2> QED  BY <1>2, <2>1, <2>2 DEF Reselected, Tabs
  <1> QED  BY <1>6, <1>7, <1>8

(* So does a click with Ctrl. *)
LEMMA ToggleSelectFacts ==
  ASSUME NEW t \in Tabs, t.view \in ViewsOf(t), NEW to \in Nat \ {0}
  PROVE  Reselected(t, ToggleSelect(t, to))
  <1>1. /\ Len(t.view) \in Nat /\ \A r \in 1 .. Len(t.view) : t.view[r] \in Nat
        /\ t.view # <<>> => Len(t.view) > 0
    BY TabFacts
  <1> DEFINE pos == Clamp(to, t)
  <1>2. pos \in Nat /\ (t.view # <<>> => pos \in 1 .. Len(t.view))
    BY <1>1 DEF Clamp
  <1>3. t.view # <<>> => t.view[pos] \in Nat
    BY <1>1, <1>2
  <1> HIDE DEF pos
  <1>4. t.view # <<>> => Toggled(t.selection, t.view[pos]) \subseteq Nat
    BY <1>3 DEF Toggled, Tabs
  <1>5. ToggleSelect(t, to) =
          IF t.view = <<>> THEN t
          ELSE [t EXCEPT !.selection = Toggled(t.selection, t.view[pos]), !.cursor = pos,
                         !.anchor = pos]
    BY DEF ToggleSelect, pos
  <1> QED  BY <1>2, <1>4, <1>5 DEF Reselected, Tabs

(* So does giving up the selection. *)
LEMMA UnselectedFacts ==
  ASSUME NEW t \in Tabs
  PROVE  Reselected(t, Unselected(t))
  BY DEF Unselected, Reselected, Tabs

(* The rows of a band, in full. *)
LEMMA BandFacts ==
  ASSUME NEW t \in Tabs, t.view \in ViewsOf(t), NEW m \in Marquees, NEW y \in Nat
  PROVE  /\ Reselected(t, Banded(t, m, y))
         /\ (~m.additive => m.keep = {}) =>
              Banded(t, m, y).selection = m.keep \cup
                {t.view[r] : r \in {q \in 1 .. Len(t.view) :
                   Lower(m.from, y) <= q /\ q <= Upper(m.from, y)}}
  <1>1. /\ Len(t.view) \in Nat /\ \A r \in 1 .. Len(t.view) : t.view[r] \in Nat
        /\ t.view # <<>> => Len(t.view) > 0
    BY TabFacts
  <1>2. m.from \in Nat /\ m.keep \subseteq Nat /\ m.additive \in BOOLEAN
    BY DEF Marquees
  <1> DEFINE n == Len(t.view)
             lo == Lower(m.from, y)
             hi == Upper(m.from, y)
             rows == {q \in 1 .. n : lo <= q /\ q <= hi}
             b == Band(m.from, y, n)
  <1>3. lo \in Nat /\ hi \in Nat /\ lo <= hi
    BY <1>2 DEF Lower, Upper
  <1>4. CASE n = 0 \/ hi < 1 \/ lo > n
    <2>1. b = <<>>
      BY <1>4 DEF Band
    <2>2. rows = {}
      BY <1>1, <1>3, <1>4
    <2>3. Banded(t, m, y) = IF m.additive THEN [t EXCEPT !.selection = m.keep]
                            ELSE Unselected(t)
      BY <1>2, <2>1 DEF Banded
    <2>4. Reselected(t, Banded(t, m, y))
      BY <1>2, <2>3, UnselectedFacts DEF Reselected, Tabs
    <2>5. Banded(t, m, y).selection = IF m.additive THEN m.keep ELSE {}
      BY <1>2, <2>3 DEF Unselected, Tabs
    <2> HIDE DEF rows
    <2> QED  BY <1>2, <2>2, <2>4, <2>5 DEF rows
  <1>5. CASE ~(n = 0 \/ hi < 1 \/ lo > n)
    <2> DEFINE b1 == Upper(lo, 1)
               b2 == Lower(hi, n)
    <2>1. b = <<b1, b2>>
      BY <1>5 DEF Band
    <2>2. b # <<>> /\ b[1] = b1 /\ b[2] = b2
      BY <2>1
    <2>3. b1 \in Nat /\ b2 \in Nat /\ 1 <= b1 /\ b1 <= b2 /\ b2 <= n
      BY <1>1, <1>3, <1>5 DEF Lower, Upper
    <2>4. Lower(b1, b2) = b1 /\ Upper(b1, b2) = b2
      BY <2>3 DEF Lower, Upper
    <2>5. rows = b1 .. b2
      BY <1>1, <1>3, <1>5 DEF Lower, Upper
    <2> HIDE DEF b, b1, b2, rows
    <2>6. Slice(t, b1, b2) = {t.view[r] : r \in b1 .. b2}
      BY <1>1, <2>3, <2>4 DEF Slice
    <2>7. Slice(t, b1, b2) \subseteq Nat
      BY <1>1, <2>3, <2>6
    <2>8. Banded(t, m, y) =
            [t EXCEPT !.selection = m.keep \cup Slice(t, b1, b2), !.anchor = b1, !.cursor = b2]
      BY <2>2 DEF Banded, SelectViewRange, b
    <2>9. Reselected(t, Banded(t, m, y))
      BY <1>2, <2>3, <2>7, <2>8 DEF Reselected, Tabs
    <2>10. Banded(t, m, y).selection = m.keep \cup {t.view[r] : r \in rows}
      BY <2>5, <2>6, <2>8 DEF Tabs
    <2> QED  BY <2>9, <2>10 DEF rows
  <1> QED  BY <1>4, <1>5

------------------------------------------------------------------------------
(* How a step treats the tab. *)

(* The user selects. *)
Selects == Reselected(tab, tab') /\ UNCHANGED <<viewJobs, keeping, pendingSelect>> /\ Chosen

(* The folder that was left will be selected, and nothing else. *)
Awaits(a) == a.why = "left" => pendingSelect' = {a.names} /\ keeping' = {}

(* A listing is asked for, and nothing that was selected will be. *)
Leaves ==
  /\ tab' \in Tabs /\ tab'.entries = tab.entries /\ tab'.view = tab.view
  /\ tab'.viewOf = tab.viewOf /\ tab'.loading
  /\ viewJobs' = {} /\ held' = {} /\ keeping' = {} /\ AtMostOne(pendingSelect')
  /\ \A a \in awaited' : Awaits(a)

(* The folder is listed anew, and what is selected is to stay so. *)
Renews ==
  /\ Refreshed /\ AtMostOne(pendingSelect')
  /\ \A a \in awaited' : a.why # "left"

Rests == UNCHANGED <<tab, viewJobs, keeping, pendingSelect, expected>>

(* Something else is to be selected. *)
Named ==
  /\ UNCHANGED <<tab, viewJobs, keeping, held>> /\ AtMostOne(pendingSelect')
  /\ awaited' = {} \/ (~tab.loading /\ awaited' = awaited /\ pendingSelect' = {})

TabCases ==
  \/ Rests \/ Selects \/ Leaves \/ Renews \/ Named \/ OnBatch \/ OnView \/ Resort

(* Arrows, pages, Home and End select. *)
LEMMA NavigationKeySelects ==
  ASSUME TabTypeOK, NavigationKey
  PROVE  Selects
  <1>1. tab \in Tabs /\ tab.view \in ViewsOf(tab) /\ tab.view # <<>>
    BY DEF TabTypeOK, NavigationKey
  <1>2. Len(tab.view) \in Nat \ {0} /\ tab.cursor \in Nat
    BY <1>1, TabFacts DEF Tabs
  <1>3. NavigationTargets \subseteq Nat \ {0}
    <2> DEFINE reach(d) == Upper(1, Lower(Upper(tab.cursor, 1) + d, Len(tab.view)))
    <2>1. \A d \in Int : reach(d) \in Nat \ {0}
      BY <1>2 DEF Upper, Lower
    <2>2. {1, -1, Page, -Page} \subseteq Int
      BY FileListAssumption
    <2>3. NavigationTargets = {1, Len(tab.view)} \cup {reach(d) : d \in {1, -1, Page, -Page}}
      BY DEF NavigationTargets
    <2> HIDE DEF reach
    <2> DEFINE D == {1, -1, Page, -Page}
    <2>4. D \subseteq Int /\ NavigationTargets = {1, Len(tab.view)} \cup {reach(d) : d \in D}
      BY <2>2, <2>3
    <2> HIDE DEF D
    <2>5. {reach(d) : d \in D} \subseteq Nat \ {0}
      BY <2>1, <2>4
    <2> QED  BY <1>2, <2>4, <2>5
  <1>4. PICK pos \in NavigationTargets, shift \in BOOLEAN : tab' = MoveCursor(tab, pos, shift)
    BY DEF NavigationKey
  <1>5. Reselected(tab, tab')
    BY <1>1, <1>3, <1>4, MoveCursorFacts
  <1> QED  BY <1>5 DEF Selects, NavigationKey, keysUnchanged

(* A row that is found is a row. *)
LEMMA FoundRowFacts ==
  ASSUME tab \in Tabs, tab.view \in ViewsOf(tab), tab.view # <<>>,
         NEW start \in Nat \ {0}, NEW needle
  PROVE  FoundRow(start, needle) \in 0 .. Len(tab.view)
  <1> DEFINE n == Len(tab.view)
             row(off) == ((start - 1 + off) % n) + 1
             hits == {off \in 0 .. n - 1 :
                        row(off) \in Real /\ IsPrefix(needle, NameAt(row(off)))}
  <1>1. n \in Nat \ {0}
    BY TabFacts
  <1>2. CASE hits = {}
    BY <1>1, <1>2 DEF FoundRow
  <1>3. CASE hits # {}
    <2>1. hits \subseteq Nat
      BY <1>1
    <2> DEFINE o == CHOOSE o \in hits : \A p \in hits : o <= p
    <2>2. o \in hits
      <3> HIDE DEF hits
      <3> QED  BY <1>3, <2>1, Least
    <2>3. o \in Nat
      BY <2>1, <2>2
    <2>4. FoundRow(start, needle) = row(o)
      BY <1>3 DEF FoundRow
    <2> HIDE DEF o, hits, n
    <2>5. row(o) \in 1 .. n
      <3>1. start - 1 + o \in Nat
        BY <2>3
      <3>2. (start - 1 + o) % n \in 0 .. n - 1
        BY <1>1, <3>1
      <3> QED  BY <1>1, <3>2
    <2> QED  BY <1>1, <2>4, <2>5 DEF n
  <1> QED  BY <1>2, <1>3

(* Typing a name selects the row that is found, if any. *)
LEMMA TypeAheadSelects ==
  ASSUME TabTypeOK, TypeAhead
  PROVE  Rests \/ Selects
  <1>1. tab \in Tabs /\ tab.view \in ViewsOf(tab)
    BY DEF TabTypeOK
  <1>2. PICK c \in UNION {ToSet(n) : n \in Names}, timedOut \in BOOLEAN :
          LET before == IF timedOut THEN <<>> ELSE typed
              cycle == before = <<c>>
              found == IF tab.view = <<>> THEN 0
                       ELSE FoundRow(IF cycle /\ tab.cursor # 0
                                     THEN (tab.cursor % Len(tab.view)) + 1 ELSE 1,
                                     IF cycle THEN before ELSE before \o <<c>>)
          IN  IF found = 0 THEN UNCHANGED <<tab, expected>>
              ELSE tab' = MoveCursor(tab, found, FALSE) /\ Chosen
    BY DEF TypeAhead
  <1> DEFINE before == IF timedOut THEN <<>> ELSE typed
             cycle == before = <<c>>
             start == IF cycle /\ tab.cursor # 0 THEN (tab.cursor % Len(tab.view)) + 1 ELSE 1
             needle == IF cycle THEN before ELSE before \o <<c>>
             found == IF tab.view = <<>> THEN 0 ELSE FoundRow(start, needle)
  <1>3. IF found = 0 THEN UNCHANGED <<tab, expected>>
        ELSE tab' = MoveCursor(tab, found, FALSE) /\ Chosen
    BY <1>2
  <1>4. UNCHANGED <<viewJobs, keeping, pendingSelect>>
    BY DEF TypeAhead, keysUnchanged
  <1>5. found # 0 => found \in Nat \ {0}
    <2> SUFFICES ASSUME found # 0 PROVE found \in Nat \ {0}
      OBVIOUS
    <2>1. tab.view # <<>> /\ found = FoundRow(start, needle)
      OBVIOUS
    <2>2. Len(tab.view) \in Nat \ {0} /\ tab.cursor \in Nat
      BY <1>1, <2>1, TabFacts DEF Tabs
    <2> HIDE DEF cycle
    <2>3. start \in Nat \ {0}
      BY <2>2
    <2> HIDE DEF start, needle, found
    <2>4. FoundRow(start, needle) \in 0 .. Len(tab.view)
      BY <1>1, <2>1, <2>3, FoundRowFacts
    <2> QED  BY <2>1, <2>2, <2>4
  <1> HIDE DEF found
  <1>6. CASE found = 0
    BY <1>3, <1>4, <1>6 DEF Rests
  <1>7. CASE found # 0
    <2>1. Reselected(tab, tab')
      BY <1>1, <1>3, <1>5, <1>7, MoveCursorFacts
    <2> QED  BY <1>3, <1>4, <1>7, <2>1 DEF Selects
  <1> QED  BY <1>6, <1>7

(* All rows are selected. *)
LEMMA SelectAllSelects ==
  ASSUME TabTypeOK, SelectAll
  PROVE  Selects
  <1>1. tab \in Tabs /\ tab.view \in ViewsOf(tab)
    BY DEF TabTypeOK
  <1>2. ToSet(tab.view) \subseteq Nat
    BY <1>1, TabFacts DEF ToSet
  <1>3. Reselected(tab, tab')
    BY <1>1, <1>2 DEF SelectAll, Reselected, Tabs
  <1> QED  BY <1>3 DEF SelectAll, Selects, keysUnchanged

(* A press on a row selects, or leaves the selection for a drag. *)
LEMMA PressRowSelects ==
  ASSUME TabTypeOK, PressRow
  PROVE  Selects
  <1>1. tab \in Tabs /\ tab.view \in ViewsOf(tab)
    BY DEF TabTypeOK
  <1>2. PICK r \in Real, ctrl, shift \in BOOLEAN :
          tab' = CASE shift -> MoveCursor(tab, r, TRUE)
                   [] ~shift /\ ~ctrl /\ tab.view[r] \notin tab.selection ->
                        MoveCursor(tab, r, FALSE)
                   [] ~shift /\ ~ctrl /\ tab.view[r] \in tab.selection ->
                        [tab EXCEPT !.cursor = r]
                   [] OTHER -> tab
    BY DEF PressRow
  <1>3. r \in Nat \ {0}
    BY <1>1, TabFacts DEF Rows, Real
  <1>4. /\ Reselected(tab, MoveCursor(tab, r, TRUE))
        /\ Reselected(tab, MoveCursor(tab, r, FALSE))
        /\ Reselected(tab, [tab EXCEPT !.cursor = r])
        /\ Reselected(tab, tab)
    <2>1. Reselected(tab, [tab EXCEPT !.cursor = r]) /\ Reselected(tab, tab)
      BY <1>1, <1>3 DEF Reselected, Tabs
    <2> QED  BY <1>1, <1>3, <2>1, MoveCursorFacts
  <1>5. \/ tab' = MoveCursor(tab, r, TRUE) \/ tab' = MoveCursor(tab, r, FALSE)
        \/ tab' = [tab EXCEPT !.cursor = r] \/ tab' = tab
    BY <1>2
  <1>6. Reselected(tab, tab')
    BY <1>4, <1>5
  <1> QED  BY <1>6 DEF PressRow, Selects, mouseUnchanged

(* A click on a row selects. *)
LEMMA ClickRowSelects ==
  ASSUME TabTypeOK, HandTypeOK, ClickRow
  PROVE  Selects
  <1>1. tab \in Tabs /\ tab.view \in ViewsOf(tab)
    BY DEF TabTypeOK
  <1>2. PICK ctrl, shift \in BOOLEAN :
          LET m == ClickModifiers(ctrl, shift)
          IN  tab' = IF m.ctrl THEN ToggleSelect(tab, down) ELSE MoveCursor(tab, down, m.shift)
    BY DEF ClickRow
  <1>3. down \in Nat \ {0}
    BY <1>1, TabFacts DEF Rows, Real, ClickRow
  <1>4. ClickModifiers(ctrl, shift).shift \in BOOLEAN
    BY DEF ClickModifiers, HandTypeOK, Modifiers
  <1>5. Reselected(tab, tab')
    BY <1>1, <1>2, <1>3, <1>4, MoveCursorFacts, ToggleSelectFacts
  <1> QED  BY <1>5 DEF ClickRow, Selects, mouseUnchanged

(* A drag of a row that was not selected selects it. *)
LEMMA DragRowSelects ==
  ASSUME TabTypeOK, DragRow
  PROVE  Selects
  <1>1. tab \in Tabs /\ tab.view \in ViewsOf(tab)
    BY DEF TabTypeOK
  <1>2. down \in Nat \ {0}
    BY <1>1, TabFacts DEF Rows, Real, DragRow
  <1>3. tab' = tab \/ \E shift \in BOOLEAN : tab' = MoveCursor(tab, down, shift)
    BY DEF DragRow
  <1>4. Reselected(tab, tab)
    BY <1>1 DEF Reselected
  <1>5. Reselected(tab, tab')
    BY <1>1, <1>2, <1>3, <1>4, MoveCursorFacts
  <1> QED  BY <1>5 DEF DragRow, Selects, mouseUnchanged

(* A band selects as it is drawn and once more at its end. *)
LEMMA BandSelects ==
  ASSUME TabTypeOK, HandTypeOK, MoveBand \/ EndBand
  PROVE  Selects
  <1>1. tab \in Tabs /\ tab.view \in ViewsOf(tab) /\ Len(tab.view) \in Nat
    BY TabFacts DEF TabTypeOK
  <1>2. PICK m \in Marquees, y \in Nat : tab' = Banded(tab, m, y)
    BY <1>1 DEF MoveBand, EndBand, HandTypeOK, Marquees
  <1>3. Reselected(tab, tab')
    BY <1>1, <1>2, BandFacts
  <1> QED  BY <1>3 DEF MoveBand, EndBand, Selects, mouseUnchanged

(* A click beside the rows unselects, a right click selects its row. *)
LEMMA ClickEmptySelects ==
  ASSUME TabTypeOK, ClickEmpty \/ ContextMenu
  PROVE  Selects
  <1>1. tab \in Tabs /\ tab.view \in ViewsOf(tab)
    BY DEF TabTypeOK
  <1>2. Reselected(tab, tab)
    BY <1>1 DEF Reselected
  <1>3. CASE ClickEmpty
    <2>1. Reselected(tab, tab')
      BY <1>1, <1>2, <1>3, UnselectedFacts DEF ClickEmpty
    <2> QED  BY <1>3, <2>1 DEF ClickEmpty, Selects, mouseUnchanged
  <1>4. CASE ContextMenu
    <2>1. PICK r \in Real :
            tab' = IF tab.view[r] \in tab.selection THEN tab
                   ELSE [tab EXCEPT !.selection = {tab.view[r]}, !.cursor = r, !.anchor = r]
      BY <1>4 DEF ContextMenu
    <2>2. r \in Nat /\ {tab.view[r]} \in SUBSET Nat
      BY <1>1, TabFacts DEF Rows, Real
    <2>3. Reselected(tab, tab')
      BY <1>1, <1>2, <2>1, <2>2 DEF Reselected, Tabs
    <2> QED  BY <1>4, <2>3 DEF ContextMenu, Selects, mouseUnchanged
  <1> QED  BY <1>3, <1>4

(* A listing that is asked for without names to keep. *)
LEMMA RequestLeaves ==
  ASSUME NEW t \in Tabs, t.entries = tab.entries, t.view = tab.view, t.viewOf = tab.viewOf,
         RequestListing(t, FALSE), held' = {}, AtMostOne(pendingSelect'),
         keeping' = {} => \A a \in awaited' : Awaits(a)
  PROVE  Leaves
  BY DEF RequestListing, Leaves, Tabs

(* The tab goes to another folder. *)
LEMMA NavigateLeaves ==
  ASSUME tab \in Tabs, NEW folder \in Folders, NavigateTo(folder),
         AtMostOne(pendingSelect'), keeping' = {} => \A a \in awaited' : Awaits(a)
  PROVE  Leaves
  <1> DEFINE t == [Unselected(tab) EXCEPT !.path = folder, !.filtered = FALSE]
  <1>1. t \in Tabs /\ t.entries = tab.entries /\ t.view = tab.view /\ t.viewOf = tab.viewOf
    BY DEF Unselected, Tabs
  <1>2. RequestListing(t, FALSE) /\ held' = {}
    BY DEF NavigateTo
  <1> HIDE DEF t
  <1> QED  BY <1>1, <1>2, RequestLeaves

(* It does so by Enter, by the row's menu or to the parent. *)
LEMMA NavigationLeaves ==
  ASSUME TabTypeOK, HandTypeOK, EnterKey \/ MenuOpen \/ GoParent
  PROVE  Leaves
  <1>1. tab \in Tabs /\ AtMostOne(pendingSelect)
    BY DEF TabTypeOK, HandTypeOK
  <1>2. PICK folder : folder \in Folders /\ NavigateTo(folder)
    <2>1. CASE EnterKey
      <3>1. PICK r : NameAt(r) \in Dirs /\ NavigateTo(Append(tab.path, NameAt(r)))
        BY <2>1 DEF EnterKey
      <3>2. Append(tab.path, NameAt(r)) \in Folders
        BY <2>1, <3>1 DEF EnterKey, Folders
      <3> QED  BY <3>1, <3>2
    <2>2. CASE MenuOpen
      <3>1. PICK i : tab.entries[i] \in Dirs /\ NavigateTo(Append(tab.path, tab.entries[i]))
        BY <2>2 DEF MenuOpen
      <3>2. Append(tab.path, tab.entries[i]) \in Folders
        BY <2>2, <3>1 DEF MenuOpen, Folders
      <3> QED  BY <3>1, <3>2
    <2>3. CASE GoParent
      BY <2>3 DEF GoParent, Folders
    <2> QED  BY <2>1, <2>2, <2>3
  <1>3. AtMostOne(pendingSelect') /\ (keeping' = {} => \A a \in awaited' : Awaits(a))
    <2>1. CASE EnterKey \/ MenuOpen
      BY <1>1, <2>1 DEF EnterKey, MenuOpen, AtMostOne
    <2>2. CASE GoParent
      <3>1. /\ pendingSelect' = {{Last(tab.path)}}
            /\ awaited' = {[names |-> {Last(tab.path)}, why |-> "left"]}
        BY <2>2 DEF GoParent
      <3> QED  BY <3>1 DEF AtMostOne, Awaits
    <2> QED  BY <2>1, <2>2
  <1> QED  BY <1>1, <1>2, <1>3, NavigateLeaves

(* A drop lists the folder anew if it may have moved files. *)
LEMMA DropCases ==
  ASSUME TabTypeOK, HandTypeOK, Drop \/ DropOutside
  PROVE  Rests \/ Leaves
  <1>1. tab \in Tabs /\ AtMostOne(pendingSelect) /\ pendingSelect' = pendingSelect
    BY DEF TabTypeOK, HandTypeOK, Drop, DropOutside
  <1>2. \/ RequestListing(tab, FALSE) /\ held' = {} /\ awaited' = {}
        \/ UNCHANGED <<tab, keeping, viewJobs, expected>>
    BY DEF Drop, DropOutside
  <1>3. AtMostOne(pendingSelect')
    BY <1>1 DEF AtMostOne
  <1> QED  BY <1>1, <1>2, <1>3, RequestLeaves DEF Rests

(* A refresh, asked for or after an operation, renews the listing. *)
LEMMA RefreshRenews ==
  ASSUME HandTypeOK, Refresh \/ OperationEnds
  PROVE  Renews
  <1>1. CASE Refresh
    BY <1>1 DEF Refresh, Renews, HandTypeOK, AtMostOne
  <1>2. CASE OperationEnds
    <2>1. PICK n : pendingSelect' = {{n}} /\ awaited' = {[names |-> {n}, why |-> "created"]}
      BY <1>2 DEF OperationEnds
    <2>2. \A a \in awaited' : a.why # "left"
      BY <2>1
    <2> QED  BY <1>2, <2>1, <2>2 DEF OperationEnds, Renews, AtMostOne
  <1> QED  BY <1>1, <1>2

(* All other actions leave the tab alone. *)
LEMMA OtherRests ==
  ASSUME \/ DiskChange \/ Release \/ StartBand \/ DropNowhere
         \/ Delete \/ ConfirmDelete \/ Transfer \/ CopyToClipboard \/ Paste
         \/ StartRename \/ CommitRename \/ Escape \/ UNCHANGED vars
  PROVE  Rests
  BY DEF DiskChange, Release, StartBand, DropNowhere, Delete, ConfirmDelete, Transfer,
         CopyToClipboard, Paste, StartRename, CommitRename, Escape, Rests, vars,
         mouseUnchanged, seenVars, listVars, expected

(* The name of a new item is given, or those for another tab. *)
LEMMA NewItemNames ==
  ASSUME NewItem \/ SelectsElsewhere
  PROVE  Named
  BY DEF NewItem, SelectsElsewhere, Named, AtMostOne

(* There are no other ways. *)
LEMMA TabStepCases ==
  ASSUME TabTypeOK, HandTypeOK, [Next]_vars
  PROVE  TabCases
  BY NavigationKeySelects, TypeAheadSelects, SelectAllSelects, PressRowSelects,
     ClickRowSelects, DragRowSelects, BandSelects, ClickEmptySelects, NavigationLeaves,
     DropCases, RefreshRenews, NewItemNames, OtherRests
  DEF TabCases, Next, KeyInput, Mouse, Commands, Listings

(* A view that is asked for is one of the rows there are, and it is told so.*)
LEMMA RebuildFacts ==
  ASSUME NEW t \in Tabs, t.view \in ViewsOf(t), \A j \in viewJobs : IsJob(j), NEW asked,
         RebuildView(t, asked)
  PROVE  /\ tab' \in Tabs /\ tab'.view \in ViewsOf(tab')
         /\ \A j \in viewJobs' : IsJob(j)
         /\ tab'.loading = t.loading /\ tab'.entries = t.entries
         /\ tab'.selection = t.selection /\ tab'.anchor = t.anchor /\ tab'.path = t.path
         /\ t.entries # <<>> => tab'.view = t.view
         /\ viewJobs \subseteq viewJobs'
         /\ IF t.entries = <<>> THEN viewJobs' = viewJobs ELSE viewJobs' # {}
  <1>1. t.entries \in Lists(Names)
    BY DEF Tabs
  <1>2. CASE t.entries = <<>>
    <2>1. tab' = [t EXCEPT !.view = <<>>, !.viewOf = <<>>] /\ viewJobs' = viewJobs
      BY <1>2 DEF RebuildView
    <2>2. <<>> \in Seq(Nat) /\ <<>> \in Lists(Names) /\ <<>> \in Lists(1 .. Len(<<>>))
      BY EmptyList
    <2> QED  BY <1>2, <2>1, <2>2 DEF Tabs, ViewsOf
  <1>3. CASE t.entries # <<>>
    <2> DEFINE v == BuildView(t.entries, t.ascending, t.filtered)
               j == [asked |-> asked, of |-> t.entries, view |-> v]
    <2>1. tab' = t /\ viewJobs' = viewJobs \cup {j}
      BY <1>3 DEF RebuildView
    <2>2. v \in Lists(1 .. Len(t.entries))
      BY <1>1, ViewFacts
    <2> HIDE DEF v
    <2>3. j.of = t.entries /\ j.view = v
      OBVIOUS
    <2> HIDE DEF j
    <2>4. IsJob(j)
      BY <1>1, <2>2, <2>3 DEF IsJob
    <2> QED  BY <1>3, <2>1, <2>4
  <1> QED  BY <1>2, <1>3

(* The names that are to be selected are, once there are rows with them. *)
LEMMA PendingFacts ==
  ASSUME NEW t \in Tabs, t.view \in ViewsOf(t)
  PROVE  /\ Pending(t) = {i \in DOMAIN t.entries : t.entries[i] \in UNION pendingSelect}
         /\ Reselected(t, TrySelectPending(t))
         /\ TrySelectPending(t).selection = IF Pending(t) = {} THEN t.selection ELSE Pending(t)
  <1> DEFINE P == Pending(t)
             rows == {r \in DOMAIN t.view : t.view[r] \in P}
             first == IF rows = {} THEN 0 ELSE CHOOSE r \in rows : \A q \in rows : r <= q
  <1>1. /\ DOMAIN t.view \subseteq Nat /\ DOMAIN t.entries \subseteq Nat
    BY TabFacts
  <1>2. P \subseteq Nat
    BY <1>1 DEF Pending
  <1>3. first \in Nat
    <2>1. rows \subseteq Nat
      BY <1>1
    <2> HIDE DEF rows
    <2> QED  BY <2>1, Least
  <1>4. TrySelectPending(t) =
          IF P = {} THEN t
          ELSE [t EXCEPT !.selection = P, !.cursor = first, !.anchor = first]
    BY DEF TrySelectPending
  <1> HIDE DEF P, first
  <1>5. /\ Reselected(t, TrySelectPending(t))
        /\ TrySelectPending(t).selection = IF P = {} THEN t.selection ELSE P
    BY <1>2, <1>3, <1>4 DEF Reselected, Tabs
  <1> QED  BY <1>5 DEF P, Pending

(* A view is a sequence of indices. *)
LEMMA ViewIsSeq ==
  ASSUME NEW es \in Lists(Names), NEW v \in Lists(1 .. Len(es))
  PROVE  v \in Seq(Nat)
  <1>1. v \in Seq(1 .. Len(es)) /\ Len(es) \in Nat
    BY ListFacts
  <1> QED  BY <1>1, SeqMonotonic

(* A batch whose rows are es. *)
LEMMA BatchFacts ==
  ASSUME tab \in Tabs, NEW es \in Lists(Names)
  PROVE  /\ BatchRows(es) \in Tabs /\ BatchRows(es).view \in ViewsOf(BatchRows(es))
         /\ ~BatchRows(es).loading /\ BatchRows(es).entries = es
         /\ BatchRows(es).selection = tab.selection /\ BatchRows(es).path = tab.path
  <1> DEFINE v == StreamingIndices(es, tab.ascending)
             t == [tab EXCEPT !.entries = es, !.loading = FALSE, !.viewOf = es, !.view = v]
  <1>1. v \in Lists(1 .. Len(es))
    BY ViewFacts
  <1>2. v \in Seq(Nat)
    BY <1>1, ViewIsSeq
  <1>3. BatchRows(es) = t
    BY DEF BatchRows
  <1> HIDE DEF v
  <1>4. t \in Tabs /\ t.entries = es /\ t.view = v /\ t.viewOf = es /\ ~t.loading
        /\ t.selection = tab.selection /\ t.path = tab.path
    BY <1>2 DEF Tabs
  <1> QED  BY <1>1, <1>3, <1>4 DEF ViewsOf

(* The places in es with the names that are to be selected. *)
PendingOf(es) == {i \in DOMAIN es : es[i] \in UNION pendingSelect}

(* The last batch replaces the rows, and the selection with indices into *)
(* them stays, unless names are to be selected that have come. *)
LEMMA OnBatchFacts ==
  ASSUME TabTypeOK, OnBatch
  PROVE  \E es \in Lists(Names) :
           /\ tab' \in Tabs /\ tab'.view \in ViewsOf(tab')
           /\ \A j \in viewJobs' : IsJob(j)
           /\ ~tab'.loading /\ tab'.entries = es /\ tab'.path = tab.path
           /\ tab'.selection = IF PendingOf(es) = {} THEN tab.selection ELSE PendingOf(es)
           /\ IF es = <<>> THEN viewJobs' = viewJobs ELSE viewJobs' # {}
           /\ held' = IF es = <<>> THEN {{} : S \in held} ELSE held
           /\ keeping' = keeping /\ tab.loading /\ pendingSelect' = {} /\ awaited' = awaited
  <1> DEFINE es == Listed(tab.path)
             b == BatchRows(es)
             t == TrySelectPending(b)
  <1>1. es \in Lists(Names)
    BY ListedFacts
  <1>2. /\ tab \in Tabs /\ tab.loading /\ \A j \in viewJobs : IsJob(j)
        /\ RebuildView(t, 0) /\ pendingSelect' = StillPending(b)
        /\ held' = IF es = <<>> THEN {{} : S \in held} ELSE held
        /\ keeping' = keeping /\ awaited' = awaited
    BY DEF TabTypeOK, OnBatch
  <1> HIDE DEF es
  <1>3. /\ b \in Tabs /\ b.view \in ViewsOf(b) /\ ~b.loading /\ b.entries = es
        /\ b.selection = tab.selection /\ b.path = tab.path
    BY <1>1, <1>2, BatchFacts
  <1> HIDE DEF b
  <1>4. /\ Pending(b) = PendingOf(es) /\ Reselected(b, t)
        /\ t.selection = IF PendingOf(es) = {} THEN tab.selection ELSE PendingOf(es)
    BY <1>3, PendingFacts DEF PendingOf
  <1>5. pendingSelect' = {}
    BY <1>2, <1>3 DEF StillPending
  <1> HIDE DEF t
  <1>6. t \in Tabs /\ t.view \in ViewsOf(t) /\ ~t.loading /\ t.entries = es /\ t.path = tab.path
    BY <1>3, <1>4 DEF Reselected, ViewsOf
  <1>7. /\ tab' \in Tabs /\ tab'.view \in ViewsOf(tab')
        /\ \A j \in viewJobs' : IsJob(j)
        /\ tab'.loading = t.loading /\ tab'.entries = t.entries
        /\ tab'.selection = t.selection /\ tab'.path = t.path
        /\ IF t.entries = <<>> THEN viewJobs' = viewJobs ELSE viewJobs' # {}
    BY <1>2, <1>6, RebuildFacts
  <1> QED  BY <1>1, <1>2, <1>4, <1>5, <1>6, <1>7

(* A view brings its rows, and the names that were kept are selected again,*)
(* unless others are to be. *)
LEMMA OnViewFacts ==
  ASSUME TabTypeOK, OnView
  PROVE  LET P == PendingOf(tab.entries)
         IN  /\ tab' \in Tabs /\ tab'.view \in ViewsOf(tab')
             /\ \A j \in viewJobs' : IsJob(j)
             /\ tab'.loading = tab.loading /\ tab'.entries = tab.entries
             /\ tab'.path = tab.path
             /\ tab'.selection =
                  IF P # {} THEN P
                  ELSE IF keeping = {} THEN tab.selection
                  ELSE {i \in DOMAIN tab.entries : tab.entries[i] \in UNION keeping}
             /\ keeping' = {}
             /\ pendingSelect' = IF P = {} /\ tab.loading THEN pendingSelect ELSE {}
             /\ held' = IF tab.loading \/ P # {} THEN {}
                        ELSE {S \cap ToSet(tab.entries) : S \in held}
             /\ awaited' = IF tab.loading /\ P # {} THEN {} ELSE awaited
  <1>1. /\ tab \in Tabs /\ tab.entries \in Lists(Names) /\ \A j \in viewJobs : IsJob(j)
        /\ DOMAIN tab.entries \subseteq Nat
    BY TabFacts DEF TabTypeOK, OnView, Tabs
  <1> DEFINE at(j) == [tab EXCEPT !.view = j.view, !.viewOf = j.of]
  <1>2. PICK v \in viewJobs :
          /\ tab' = TrySelectPending(Restored(at(v)))
          /\ pendingSelect' = StillPending(at(v))
          /\ viewJobs' = viewJobs \ {v}
          /\ held' = IF tab.loading \/ Pending(at(v)) # {} THEN {}
                     ELSE {S \cap ToSet(tab.entries) : S \in held}
          /\ keeping' = {}
          /\ awaited' = IF tab.loading /\ Pending(at(v)) # {} THEN {} ELSE awaited
    BY DEF OnView
  <1> DEFINE t == at(v)
             K == {i \in DOMAIN tab.entries : tab.entries[i] \in UNION keeping}
             u == Restored(t)
  <1>3. v.of \in Lists(Names) /\ v.view \in Lists(1 .. Len(v.of)) /\ v.view \in Seq(Nat)
    BY <1>1, ViewIsSeq DEF IsJob
  <1>4. /\ t \in Tabs /\ t.entries = tab.entries /\ t.view = v.view /\ t.viewOf = v.of
        /\ t.loading = tab.loading /\ t.path = tab.path /\ t.selection = tab.selection
    BY <1>1, <1>3 DEF Tabs
  <1>5. K \in SUBSET Nat
    BY <1>1
  <1>6. Pending(t) = PendingOf(tab.entries)
    BY <1>4 DEF Pending, PendingOf
  <1> HIDE DEF t
  <1>7. u = IF keeping = {} THEN t ELSE [t EXCEPT !.selection = K]
    <2>1. u = IF keeping = {} THEN t
              ELSE [t EXCEPT !.selection = {i \in DOMAIN t.entries : t.entries[i] \in UNION keeping}]
      BY DEF Restored
    <2> QED  BY <1>4, <2>1
  <1> HIDE DEF u, K
  <1>8. /\ u \in Tabs /\ u.entries = tab.entries /\ u.view = v.view /\ u.viewOf = v.of
        /\ u.loading = tab.loading /\ u.path = tab.path
        /\ u.selection = IF keeping = {} THEN tab.selection ELSE K
    BY <1>4, <1>5, <1>7 DEF Tabs
  <1>9. u.view \in ViewsOf(u)
    BY <1>3, <1>8 DEF ViewsOf
  <1>10. Pending(u) = PendingOf(tab.entries)
    BY <1>8 DEF Pending, PendingOf
  <1>11. /\ Reselected(u, tab')
         /\ tab'.selection = IF PendingOf(tab.entries) = {} THEN u.selection
                             ELSE PendingOf(tab.entries)
    <2>1. tab' = TrySelectPending(u)
      BY <1>2 DEF t, u
    <2> QED  BY <1>8, <1>9, <1>10, <2>1, PendingFacts
  <1>12. /\ tab' \in Tabs /\ tab'.view \in ViewsOf(tab')
         /\ tab'.loading = tab.loading /\ tab'.entries = tab.entries /\ tab'.path = tab.path
    BY <1>8, <1>9, <1>11 DEF Reselected, ViewsOf
  <1>13. pendingSelect' =
           IF PendingOf(tab.entries) = {} /\ tab.loading THEN pendingSelect ELSE {}
    BY <1>2, <1>4, <1>6 DEF StillPending, t
  <1>14. /\ held' = IF tab.loading \/ PendingOf(tab.entries) # {} THEN {}
                    ELSE {S \cap ToSet(tab.entries) : S \in held}
         /\ awaited' = IF tab.loading /\ PendingOf(tab.entries) # {} THEN {} ELSE awaited
         /\ \A j \in viewJobs' : IsJob(j)
    BY <1>1, <1>2, <1>6 DEF t
  <1> QED  BY <1>2, <1>8, <1>11, <1>12, <1>13, <1>14 DEF K

(* Another order or filter asks for a view of the same rows. *)
LEMMA ResortFacts ==
  ASSUME TabTypeOK, Resort
  PROVE  /\ tab' \in Tabs /\ tab'.view \in ViewsOf(tab')
         /\ \A j \in viewJobs' : IsJob(j)
         /\ tab'.loading = tab.loading /\ tab'.entries = tab.entries
         /\ tab'.selection = tab.selection /\ tab'.anchor = tab.anchor /\ tab'.path = tab.path
         /\ viewJobs \subseteq viewJobs'
         /\ IF tab.entries = <<>> THEN viewJobs' = viewJobs ELSE viewJobs' # {}
         /\ keeping' = keeping /\ pendingSelect' = pendingSelect
         /\ held' = held /\ awaited' = awaited
  <1>1. tab \in Tabs /\ tab.view \in ViewsOf(tab) /\ \A j \in viewJobs : IsJob(j)
    BY DEF TabTypeOK
  <1>2. PICK t : /\ t \in {[tab EXCEPT !.ascending = ~@], [tab EXCEPT !.filtered = ~@]}
                 /\ RebuildView(t, inputs')
    BY DEF Resort
  <1>3. /\ t \in Tabs /\ t.view = tab.view /\ t.viewOf = tab.viewOf
        /\ t.entries = tab.entries /\ t.loading = tab.loading
        /\ t.selection = tab.selection /\ t.anchor = tab.anchor /\ t.path = tab.path
    BY <1>1, <1>2 DEF Tabs
  <1>4. t.view \in ViewsOf(t)
    BY <1>1, <1>3 DEF ViewsOf
  <1>5. /\ keeping' = keeping /\ pendingSelect' = pendingSelect
        /\ held' = held /\ awaited' = awaited
    BY DEF Resort, expected
  <1>6. /\ tab' \in Tabs /\ tab'.view \in ViewsOf(tab')
        /\ \A j \in viewJobs' : IsJob(j)
        /\ tab'.loading = t.loading /\ tab'.entries = t.entries
        /\ tab'.selection = t.selection /\ tab'.anchor = t.anchor /\ tab'.path = t.path
        /\ viewJobs \subseteq viewJobs'
        /\ IF t.entries = <<>> THEN viewJobs' = viewJobs ELSE viewJobs' # {}
    BY <1>1, <1>2, <1>3, <1>4, RebuildFacts
  <1> QED  BY <1>3, <1>5, <1>6

(* A refresh keeps the names that are selected. *)
LEMMA RenewFacts ==
  ASSUME TabTypeOK, Renews
  PROVE  /\ tab' \in Tabs /\ tab'.view = tab.view /\ tab'.viewOf = tab.viewOf
         /\ tab'.entries = tab.entries
         /\ tab'.selection = tab.selection /\ tab'.loading /\ tab'.path = tab.path
         /\ tab'.cursor = tab.cursor /\ tab'.anchor = tab.anchor
         /\ viewJobs' = {} /\ keeping' = {SelectedNames(tab)}
         /\ held' = HeldAfterRefresh
  BY DEF TabTypeOK, Renews, Refreshed, RequestListing, Tabs

(* Every step keeps the types of the tab. *)
LEMMA TabTypeStep ==
  ASSUME TabTypeOK, HandTypeOK, [Next]_vars
  PROVE  TabTypeOK'
  <1>1. CASE Rests \/ Named
    BY <1>1 DEF Rests, Named, TabTypeOK, ViewsOf, IsJob
  <1>2. CASE Selects
    BY <1>2 DEF Selects, Reselected, TabTypeOK, ViewsOf, IsJob
  <1>3. CASE Leaves
    BY <1>3 DEF Leaves, TabTypeOK, ViewsOf, IsJob
  <1>4. CASE Renews
    BY <1>4, RenewFacts DEF TabTypeOK, ViewsOf, IsJob
  <1>5. CASE OnBatch
    BY <1>5, OnBatchFacts DEF TabTypeOK, ViewsOf, IsJob
  <1>6. CASE OnView
    BY <1>6, OnViewFacts DEF TabTypeOK, ViewsOf, IsJob
  <1>7. CASE Resort
    BY <1>7, ResortFacts DEF TabTypeOK, ViewsOf, IsJob
  <1> QED  BY <1>1, <1>2, <1>3, <1>4, <1>5, <1>6, <1>7, TabStepCases DEF TabCases

(* What comes or is asked for leaves at most one of what there may be one. *)
LEMMA ListingsTypeStep ==
  ASSUME TabTypeOK, HandTypeOK, [Next]_vars
  PROVE  AtMostOne(keeping)' /\ AtMostOne(pendingSelect)' /\ AtMostOne(held)'
  <1>1. CASE Rests \/ Named
    BY <1>1 DEF Rests, Named, expected, HandTypeOK, AtMostOne
  <1>2. CASE Selects
    BY <1>2 DEF Selects, Chosen, HandTypeOK, AtMostOne
  <1>3. CASE Leaves
    BY <1>3 DEF Leaves, AtMostOne
  <1>4. CASE Renews
    <2>1. AtMostOne(pendingSelect')
      BY <1>4 DEF Renews
    <2>2. keeping' = {SelectedNames(tab)} /\ held' = HeldAfterRefresh
      BY <1>4, RenewFacts
    <2> QED  BY <2>1, <2>2 DEF HeldAfterRefresh, HandTypeOK, AtMostOne
  <1>5. CASE OnBatch
    <2>1. keeping' = keeping /\ pendingSelect' = {}
      BY <1>5, OnBatchFacts
    <2>2. held' \in {{{} : S \in held}, held}
      BY <1>5, OnBatchFacts
    <2>3. AtMostOne({{} : S \in held})
      BY DEF AtMostOne
    <2> QED  BY <2>1, <2>2, <2>3 DEF HandTypeOK, AtMostOne
  <1>6. CASE OnView
    <2>1. /\ keeping' = {} /\ pendingSelect' \in {{}, pendingSelect}
          /\ held' \in {{}, {S \cap ToSet(tab.entries) : S \in held}}
      BY <1>6, OnViewFacts
    <2>2. \A S, R \in held : S = R
      BY DEF HandTypeOK, AtMostOne
    <2>3. \A x, y \in held' : x = y
      BY <2>1, <2>2
    <2> QED  BY <2>1, <2>3 DEF HandTypeOK, AtMostOne
  <1>7. CASE Resort
    BY <1>7, ResortFacts DEF HandTypeOK, AtMostOne
  <1> QED  BY <1>1, <1>2, <1>3, <1>4, <1>5, <1>6, <1>7, TabStepCases DEF TabCases

(* What the hand holds. *)
HandParts ==
  /\ press \subseteq Modifiers /\ marquee \subseteq Marquees /\ grip \subseteq Grips
  /\ down \in 0 .. Len(ByName)
  /\ AtMostOne(press) /\ AtMostOne(marquee) /\ AtMostOne(rename) /\ AtMostOne(menu)
  /\ AtMostOne(grip)
  /\ DOMAIN picked = {"delete", "drag", "paste", "rename"}

(* Keys keep the types of what the hand holds. *)
LEMMA KeysHand ==
  ASSUME HandParts, KeyInput
  PROVE  HandParts'
  <1>1. CASE NavigationKey \/ SelectAll \/ TypeAhead
    BY <1>1 DEF NavigationKey, SelectAll, TypeAhead, keysUnchanged, HandParts, AtMostOne, Modifiers, Marquees
  <1>2. CASE EnterKey
    BY <1>2 DEF EnterKey, NavigateTo, EndListGesture, HandParts, AtMostOne
  <1> QED  BY <1>1, <1>2 DEF KeyInput

(* So do listings. *)
LEMMA ListingsHand ==
  ASSUME HandParts, Listings
  PROVE  HandParts'
  <1>1. CASE OnBatch
    BY <1>1 DEF OnBatch, handVars, HandParts, AtMostOne, Modifiers, Marquees
  <1>2. CASE OnView \/ DiskChange \/ Refresh \/ OperationEnds \/ SelectsElsewhere
    BY <1>2 DEF OnView, DiskChange, Refresh, OperationEnds, SelectsElsewhere, handVars, seenVars, HandParts,
                AtMostOne, Modifiers, Marquees
  <1>3. CASE Resort
    <2>1. UNCHANGED <<handVars, picked>> /\ grip' \in {grip, {}}
      BY <1>3 DEF Resort
    <2> QED  BY <2>1 DEF handVars, HandParts, AtMostOne, Modifiers, Marquees
  <1> QED  BY <1>1, <1>2, <1>3 DEF Listings

(* So do commands. *)
LEMMA CommandsHand ==
  ASSUME HandParts, Commands
  PROVE  HandParts'
  <1>1. CASE Delete \/ CopyToClipboard
    BY <1>1 DEF Delete, CopyToClipboard, MenuCloses, actUnchanged, HandParts, AtMostOne,
                Modifiers, Marquees
  <1>2. CASE ConfirmDelete \/ Transfer \/ Paste \/ CommitRename \/ NewItem \/ Escape
    BY <1>2 DEF ConfirmDelete, Transfer, Paste, CommitRename, NewItem, Escape, MenuCloses,
                Blurs, actUnchanged, HandParts, AtMostOne
  <1>3. CASE StartRename
    BY <1>3 DEF StartRename, MenuCloses, actUnchanged, HandParts, AtMostOne
  <1>4. CASE MenuOpen \/ GoParent
    BY <1>4 DEF MenuOpen, GoParent, NavigateTo, EndListGesture, Blurs, HandParts, AtMostOne
  <1> QED  BY <1>1, <1>2, <1>3, <1>4 DEF Commands

(* So does the mouse. *)
LEMMA MouseHand ==
  ASSUME HandParts, TabTypeOK, Mouse
  PROVE  HandParts'
  <1>1. /\ tab \in Tabs /\ Len(tab.view) \in Nat /\ Rows = 1 .. Len(tab.view)
        /\ Real \subseteq Rows
        /\ Len(tab.view) <= Len(ByName) /\ Len(ByName) \in Nat
        /\ \A r \in Rows : tab.view[r] \in Nat
        /\ tab.selection \subseteq Nat /\ tab.cursor \in Nat /\ tab.anchor \in Nat
        /\ tab.entries \in Lists(Names)
    BY TabFacts DEF TabTypeOK, Rows, Real, Tabs
  <1>2. CASE PressRow
    <2>1. PICK r \in Real, ctrl, shift \in BOOLEAN :
            /\ press' = {[ctrl |-> ctrl, shift |-> shift, over |-> tab.entries]} /\ down' = r
            /\ grip' = {[row |-> r, ctrl |-> ctrl, shift |-> shift,
                         selection |-> tab.selection, from |-> From(tab, r)]}
      BY <1>2 DEF PressRow
    <2>2. r \in Nat /\ r \in 0 .. Len(ByName) /\ From(tab, r) \in Nat
      BY <1>1 DEF From
    <2>3. press' \subseteq Modifiers /\ grip' \subseteq Grips
      BY <1>1, <2>1, <2>2 DEF Modifiers, Grips
    <2>4. AtMostOne(rename')
      BY <1>2 DEF PressRow, Blurs, HandParts, AtMostOne
    <2> QED  BY <1>2, <2>1, <2>2, <2>3, <2>4 DEF PressRow, HandParts, AtMostOne
  <1>3. CASE ClickRow \/ Release \/ ClickEmpty
    BY <1>1, <1>3 DEF ClickRow, Release, ClickEmpty, Blurs, HandParts, AtMostOne
  <1>4. CASE DragRow
    <2>1. press' = press \/ \E ctrl, shift \in BOOLEAN :
                              press' = {[ctrl |-> ctrl, shift |-> shift, over |-> tab.entries]}
      BY <1>4 DEF DragRow
    <2>2. press' \subseteq Modifiers /\ AtMostOne(press')
      BY <1>1, <2>1 DEF HandParts, Modifiers, AtMostOne
    <2> QED  BY <1>1, <1>4, <2>2 DEF DragRow, HandParts, AtMostOne
  <1>5. CASE ContextMenu
    BY <1>5 DEF ContextMenu, Blurs, HandParts, AtMostOne
  <1>6. CASE StartBand
    <2>1. PICK ctrl \in BOOLEAN :
            LET y == Len(tab.view) + 1
            IN  /\ press' = IF rename # {} THEN press
                            ELSE {[ctrl |-> ctrl, shift |-> FALSE, over |-> tab.entries]}
                /\ marquee' = {[from |-> y, at |-> y, additive |-> ctrl, over |-> tab.entries,
                                keep |-> IF ctrl THEN tab.selection ELSE {}]}
      BY <1>6 DEF StartBand
    <2>2. press' \subseteq Modifiers /\ AtMostOne(press')
      <3>1. [ctrl |-> ctrl, shift |-> FALSE, over |-> tab.entries] \in Modifiers
        BY <1>1 DEF Modifiers
      <3>2. press' = {[ctrl |-> ctrl, shift |-> FALSE, over |-> tab.entries]} \/ press' = press
        BY <2>1
      <3> QED  BY <3>1, <3>2 DEF HandParts, AtMostOne
    <2>3. marquee' \subseteq Marquees /\ AtMostOne(marquee')
      BY <1>1, <2>1 DEF Marquees, AtMostOne
    <2> QED  BY <1>6, <2>2, <2>3 DEF StartBand, HandParts, AtMostOne, mouseUnchanged
  <1>7. CASE MoveBand
    <2>1. PICK m \in marquee, y \in 0 .. Len(tab.view) + 1 : marquee' = {[m EXCEPT !.at = y]}
      BY <1>7 DEF MoveBand
    <2>2. marquee' \subseteq Marquees /\ AtMostOne(marquee')
      BY <1>1, <2>1 DEF HandParts, Marquees, AtMostOne
    <2> QED  BY <1>7, <2>2 DEF MoveBand, HandParts, AtMostOne
  <1>8. CASE EndBand
    BY <1>8 DEF EndBand, EndListGesture, HandParts, AtMostOne
  <1>9. CASE Drop \/ DropNowhere \/ DropOutside
    BY <1>9 DEF Drop, DropNowhere, DropOutside, EndListGesture, HandParts, AtMostOne
  <1> QED  BY <1>2, <1>3, <1>4, <1>5, <1>6, <1>7, <1>8, <1>9 DEF Mouse

(* So does every step. *)
LEMMA HandTypeStep ==
  ASSUME TabTypeOK, HandTypeOK, [Next]_vars
  PROVE  HandTypeOK'
  <1>1. HandParts
    BY DEF HandTypeOK, HandParts
  <1>2. HandParts'
    <2>1. CASE UNCHANGED vars
      BY <1>1, <2>1 DEF vars, handVars, seenVars, HandParts, AtMostOne, Modifiers, Marquees
    <2> QED  BY <1>1, <2>1, KeysHand, MouseHand, CommandsHand, ListingsHand DEF Next
  <1> QED  BY <1>2, ListingsTypeStep DEF HandTypeOK, HandParts

------------------------------------------------------------------------------
(* What the user has selected. *)

(* What is held is selected or, while a refresh brings other rows, kept. *)
HeldIsKept ==
  \A S \in held :
    /\ tab.loading => SelectedNames(tab) = S /\ keeping = {S}
    /\ ~tab.loading /\ viewJobs = {} => SelectedNames(tab) = S
    /\ ~tab.loading /\ viewJobs # {} =>
         \/ keeping = {S}
         \/ keeping = {} /\ SelectedNames(tab) = S
         \/ tab.entries = <<>> /\ S = {}

(* No names are kept for rows that are there, unless there are none. *)
KeptForLater ==
  ~tab.loading /\ viewJobs = {} /\ keeping # {} => tab.entries = <<>>

(* The folder that was left is to be selected, or is. *)
LeftAwaited ==
  \A a \in awaited : a.why = "left" =>
    /\ keeping = {}
    /\ tab.loading => pendingSelect = {a.names}
    /\ ~tab.loading => /\ pendingSelect = {}
                       /\ a.names \cap ToSet(tab.entries) \subseteq SelectedNames(tab)

(* No names are selected where there are none. *)
LEMMA NoNames ==
  ASSUME NEW t, t.entries = <<>>
  PROVE  SelectedNames(t) = {}
  BY DEF SelectedNames, NamesOf

(* Names depend on entries and selection only. *)
LEMMA SameNames ==
  ASSUME NEW t, NEW u, u.entries = t.entries, u.selection = t.selection
  PROVE  SelectedNames(u) = SelectedNames(t)
  BY DEF SelectedNames, NamesOf

(* Every step keeps what the user has selected. *)
LEMMA HeldStep ==
  ASSUME TabTypeOK, HandTypeOK, HeldIsKept, KeptForLater, [Next]_vars
  PROVE  HeldIsKept' /\ KeptForLater'
  <1>1. CASE Rests \/ Named
    <2>1. tab' = tab /\ viewJobs' = viewJobs /\ keeping' = keeping /\ held' = held
      BY <1>1 DEF Rests, Named, expected
    <2>2. SelectedNames(tab)' = SelectedNames(tab)
      BY <2>1, SameNames
    <2> QED  BY <2>1, <2>2 DEF HeldIsKept, KeptForLater
  <1>2. CASE Selects
    <2>1. /\ viewJobs' = viewJobs /\ keeping' = keeping /\ tab'.loading = tab.loading
          /\ tab'.entries = tab.entries
          /\ held' = IF tab.loading \/ InBetween THEN {} ELSE {SelectedNames(tab')}
      BY <1>2 DEF Selects, Reselected, Chosen
    <2>2. ASSUME NEW S \in held'
          PROVE  S = SelectedNames(tab') /\ ~tab.loading /\ (viewJobs # {} => keeping = {})
      BY <2>1, <2>2 DEF InBetween
    <2>3. HeldIsKept'
      BY <2>1, <2>2 DEF HeldIsKept
    <2>4. KeptForLater'
      BY <2>1 DEF KeptForLater
    <2> QED  BY <2>3, <2>4
  <1>3. CASE Leaves
    BY <1>3 DEF Leaves, HeldIsKept, KeptForLater
  <1>4. CASE Renews
    <2>1. /\ tab'.loading /\ tab'.entries = tab.entries /\ tab'.selection = tab.selection
          /\ viewJobs' = {} /\ keeping' = {SelectedNames(tab)}
          /\ held' = IF InBetween THEN {} ELSE held
      BY <1>4, RenewFacts DEF HeldAfterRefresh
    <2>2. SelectedNames(tab)' = SelectedNames(tab)
      BY <2>1, SameNames
    <2>3. ASSUME NEW S \in held'
          PROVE  SelectedNames(tab) = S
      <3>1. S \in held /\ ~InBetween
        BY <2>1, <2>3
      <3> QED  BY <3>1, NoNames DEF InBetween, HeldIsKept
    <2> QED  BY <2>1, <2>2, <2>3 DEF HeldIsKept, KeptForLater
  <1>5. CASE OnBatch
    <2>1. PICK es \in Lists(Names) :
           /\ ~tab'.loading /\ tab'.entries = es
           /\ IF es = <<>> THEN viewJobs' = viewJobs ELSE viewJobs' # {}
           /\ held' = IF es = <<>> THEN {{} : S \in held} ELSE held
           /\ keeping' = keeping /\ tab.loading
      BY <1>5, OnBatchFacts
    <2>2. \A S \in held : keeping = {S}
      BY <2>1 DEF HeldIsKept
    <2>3. CASE es = <<>>
      <3>1. SelectedNames(tab)' = {}
        BY <2>1, <2>3, NoNames
      <3>2. \A S \in held' : S = {}
        BY <2>1, <2>3
      <3> QED  BY <2>1, <2>3, <3>1, <3>2 DEF HeldIsKept, KeptForLater
    <2>4. CASE es # <<>>
      <3>1. viewJobs' # {} /\ held' = held
        BY <2>1, <2>4
      <3> QED  BY <2>1, <2>2, <3>1 DEF HeldIsKept, KeptForLater
    <2> QED  BY <2>3, <2>4
  <1>6. CASE OnView
    <2>1. /\ tab'.loading = tab.loading /\ tab'.entries = tab.entries /\ keeping' = {}
          /\ held' = IF tab.loading \/ PendingOf(tab.entries) # {} THEN {}
                     ELSE {S \cap ToSet(tab.entries) : S \in held}
          /\ PendingOf(tab.entries) = {} =>
               tab'.selection = IF keeping = {} THEN tab.selection
                 ELSE {i \in DOMAIN tab.entries : tab.entries[i] \in UNION keeping}
      BY <1>6, OnViewFacts
    <2>2. viewJobs # {}
      BY <1>6 DEF OnView
    <2>3. ASSUME NEW R \in held'
          PROVE  ~tab.loading /\ SelectedNames(tab') = R
      <3>1. /\ ~tab.loading
            /\ held' = {S \cap ToSet(tab.entries) : S \in held}
            /\ tab'.selection = IF keeping = {} THEN tab.selection
                 ELSE {i \in DOMAIN tab.entries : tab.entries[i] \in UNION keeping}
        BY <2>1, <2>3
      <3>2. PICK S \in held : R = S \cap ToSet(tab.entries)
        BY <2>3, <3>1
      <3>3. CASE keeping = {S}
        <4>1. tab'.selection = {i \in DOMAIN tab.entries : tab.entries[i] \in S}
          BY <3>1, <3>3
        <4>2. SelectedNames(tab') =
                {tab.entries[i] : i \in {i \in DOMAIN tab.entries : tab.entries[i] \in S}}
          BY <2>1, <4>1 DEF SelectedNames, NamesOf
        <4> QED  BY <3>1, <3>2, <4>2 DEF ToSet
      <3>4. CASE keeping = {} /\ SelectedNames(tab) = S
        <4>1. SelectedNames(tab') = S
          BY <2>1, <3>1, <3>4, SameNames
        <4>2. S \subseteq ToSet(tab.entries)
          BY <3>4 DEF SelectedNames, NamesOf, ToSet
        <4> QED  BY <3>1, <3>2, <4>1, <4>2
      <3>5. CASE tab.entries = <<>> /\ S = {}
        BY <2>1, <3>1, <3>2, <3>5, NoNames
      <3> QED  BY <2>2, <3>1, <3>2, <3>3, <3>4, <3>5 DEF HeldIsKept
    <2>4. HeldIsKept'
      BY <2>1, <2>3 DEF HeldIsKept
    <2> QED  BY <2>1, <2>4 DEF KeptForLater
  <1>7. CASE Resort
    <2>1. /\ tab'.loading = tab.loading /\ tab'.entries = tab.entries
          /\ tab'.selection = tab.selection /\ viewJobs \subseteq viewJobs'
          /\ IF tab.entries = <<>> THEN viewJobs' = viewJobs ELSE viewJobs' # {}
          /\ keeping' = keeping /\ held' = held
      BY <1>7, ResortFacts
    <2>2. SelectedNames(tab)' = SelectedNames(tab)
      BY <2>1, SameNames
    <2>3. KeptForLater'
      BY <2>1 DEF KeptForLater
    <2>4. ASSUME NEW S \in held, ~tab.loading, viewJobs' # {}
          PROVE  \/ keeping = {S}
                 \/ keeping = {} /\ SelectedNames(tab) = S
                 \/ tab.entries = <<>> /\ S = {}
      <3>1. CASE viewJobs # {}
        BY <2>4, <3>1 DEF HeldIsKept
      <3>2. CASE viewJobs = {}
        <4>1. tab.entries # <<>> /\ SelectedNames(tab) = S
          BY <2>1, <2>4, <3>2 DEF HeldIsKept
        <4> QED  BY <2>4, <3>2, <4>1 DEF KeptForLater
      <3> QED  BY <3>1, <3>2
    <2>5. ASSUME NEW S \in held, ~tab.loading, viewJobs' = {}
          PROVE  SelectedNames(tab) = S
      BY <2>1, <2>5 DEF HeldIsKept
    <2>6. ASSUME NEW S \in held, tab.loading
          PROVE  SelectedNames(tab) = S /\ keeping = {S}
      BY <2>6 DEF HeldIsKept
    <2>7. HeldIsKept'
      BY <2>1, <2>2, <2>4, <2>5, <2>6 DEF HeldIsKept
    <2> QED  BY <2>3, <2>7
  <1> QED  BY <1>1, <1>2, <1>3, <1>4, <1>5, <1>6, <1>7, TabStepCases DEF TabCases

(* Every step keeps the folder that was left in mind, or selected. *)
LEMMA LeftStep ==
  ASSUME TabTypeOK, HandTypeOK, LeftAwaited, [Next]_vars
  PROVE  LeftAwaited'
  <1>1. CASE Rests
    <2>1. /\ tab' = tab /\ keeping' = keeping /\ pendingSelect' = pendingSelect
          /\ awaited' = awaited
      BY <1>1 DEF Rests, expected
    <2>2. SelectedNames(tab)' = SelectedNames(tab)
      BY <2>1, SameNames
    <2> QED  BY <2>1, <2>2 DEF LeftAwaited
  <1>2. CASE Selects
    BY <1>2 DEF Selects, Chosen, LeftAwaited
  <1>8. CASE Named
    <2>1. tab' = tab /\ keeping' = keeping
      BY <1>8 DEF Named
    <2>2. SelectedNames(tab)' = SelectedNames(tab)
      BY <2>1, SameNames
    <2> QED  BY <1>8, <2>1, <2>2 DEF Named, LeftAwaited
  <1>3. CASE Leaves
    BY <1>3 DEF Leaves, Awaits, LeftAwaited
  <1>4. CASE Renews
    BY <1>4 DEF Renews, LeftAwaited
  <1>5. CASE OnBatch
    <2>1. PICK es \in Lists(Names) :
           /\ ~tab'.loading /\ tab'.entries = es
           /\ tab'.selection = IF PendingOf(es) = {} THEN tab.selection ELSE PendingOf(es)
           /\ keeping' = keeping /\ tab.loading /\ pendingSelect' = {} /\ awaited' = awaited
      BY <1>5, OnBatchFacts
    <2>2. ASSUME NEW a \in awaited, a.why = "left"
          PROVE  /\ keeping' = {}
                 /\ a.names \cap ToSet(tab'.entries) \subseteq SelectedNames(tab')
      <3>1. pendingSelect = {a.names} /\ keeping = {}
        BY <2>1, <2>2 DEF LeftAwaited
      <3>2. PendingOf(es) = {i \in DOMAIN es : es[i] \in a.names}
        BY <3>1 DEF PendingOf
      <3>3. ASSUME NEW n \in a.names \cap ToSet(es)
            PROVE  n \in SelectedNames(tab')
        <4>1. PICK i \in DOMAIN es : es[i] = n
          BY <3>3 DEF ToSet
        <4>2. i \in PendingOf(es)
          BY <3>2, <4>1
        <4>3. i \in tab'.selection \cap DOMAIN tab'.entries /\ tab'.entries[i] = n
          BY <2>1, <4>1, <4>2
        <4> QED  BY <4>3 DEF SelectedNames, NamesOf
      <3> QED  BY <2>1, <3>1, <3>3
    <2>3. SelectedNames(tab)' = SelectedNames(tab')
      OBVIOUS
    <2> QED  BY <2>1, <2>2 DEF LeftAwaited
  <1>6. CASE OnView
    <2>1. /\ tab'.loading = tab.loading /\ tab'.entries = tab.entries /\ keeping' = {}
          /\ tab'.selection = IF PendingOf(tab.entries) # {} THEN PendingOf(tab.entries)
                              ELSE IF keeping = {} THEN tab.selection
                              ELSE {i \in DOMAIN tab.entries : tab.entries[i] \in UNION keeping}
          /\ pendingSelect' = IF PendingOf(tab.entries) = {} /\ tab.loading
                              THEN pendingSelect ELSE {}
          /\ awaited' = IF tab.loading /\ PendingOf(tab.entries) # {} THEN {} ELSE awaited
      BY <1>6, OnViewFacts
    <2>2. ASSUME NEW a \in awaited, a.why = "left", ~tab.loading
          PROVE  pendingSelect' = {} /\ SelectedNames(tab') = SelectedNames(tab)
      <3>1. pendingSelect = {} /\ keeping = {}
        BY <2>2 DEF LeftAwaited
      <3>2. PendingOf(tab.entries) = {}
        BY <3>1 DEF PendingOf
      <3> QED  BY <2>1, <3>1, <3>2, SameNames
    <2> QED  BY <2>1, <2>2 DEF LeftAwaited
  <1>7. CASE Resort
    <2>1. /\ tab'.loading = tab.loading /\ tab'.entries = tab.entries
          /\ tab'.selection = tab.selection /\ keeping' = keeping
          /\ pendingSelect' = pendingSelect /\ awaited' = awaited
      BY <1>7, ResortFacts
    <2>2. SelectedNames(tab)' = SelectedNames(tab)
      BY <2>1, SameNames
    <2> QED  BY <2>1, <2>2 DEF LeftAwaited
  <1> QED  BY <1>1, <1>2, <1>3, <1>4, <1>5, <1>6, <1>7, <1>8, TabStepCases DEF TabCases

------------------------------------------------------------------------------
(* Presses, drags and bands. *)

(* The button is down for one thing at a time. *)
OneGesture ==
  /\ marquee # {} => down = 0 /\ drag = {}
  /\ drag # {} => down = 0
  /\ \A m \in marquee : ~m.additive => m.keep = {}

(* No step begins a gesture within another. *)
LEMMA GestureStep ==
  ASSUME OneGesture, TabTypeOK, HandTypeOK, [Next]_vars
  PROVE  OneGesture'
  <1>1. CASE KeyInput
    BY <1>1 DEF KeyInput, NavigationKey, SelectAll, TypeAhead, EnterKey, NavigateTo, EndListGesture,
                keysUnchanged, OneGesture
  <1>2. CASE PressRow \/ ClickEmpty \/ ContextMenu
    BY <1>2 DEF PressRow, ClickEmpty, ContextMenu, Free, OneGesture, mouseUnchanged
  <1>3. CASE StartBand
    <2>1. PICK ctrl \in BOOLEAN :
            LET y == Len(tab.view) + 1
            IN  marquee' = {[from |-> y, at |-> y, additive |-> ctrl, over |-> tab.entries,
                             keep |-> IF ctrl THEN tab.selection ELSE {}]}
      BY <1>3 DEF StartBand
    <2>2. \A m \in marquee' : ~m.additive => m.keep = {}
      BY <2>1
    <2> QED  BY <1>3, <2>2 DEF StartBand, Free, OneGesture
  <1>4. CASE ClickRow \/ Release \/ DragRow
    <2>1. down # 0
      BY <1>4, TabFacts DEF ClickRow, Release, DragRow, Rows, Real, TabTypeOK
    <2> QED  BY <1>4, <2>1 DEF ClickRow, Release, DragRow, OneGesture
  <1>5. CASE MoveBand
    <2>1. PICK m \in marquee, y \in 0 .. Len(tab.view) + 1 : marquee' = {[m EXCEPT !.at = y]}
      BY <1>5 DEF MoveBand
    <2>2. \A n \in marquee' : ~n.additive => n.keep = {}
      <3>1. [m EXCEPT !.at = y].additive = m.additive /\ [m EXCEPT !.at = y].keep = m.keep
        BY DEF HandTypeOK, Marquees
      <3> QED  BY <2>1, <3>1 DEF OneGesture
    <2> QED  BY <1>5, <2>2 DEF MoveBand, OneGesture, mouseUnchanged
  <1>6. CASE EndBand \/ Drop \/ DropNowhere \/ DropOutside
    BY <1>6 DEF EndBand, Drop, DropNowhere, DropOutside, EndListGesture, OneGesture,
                mouseUnchanged
  <1>7. CASE Commands
    BY <1>7 DEF Commands, Delete, ConfirmDelete, Transfer, CopyToClipboard, Paste, StartRename,
                CommitRename, MenuOpen, GoParent, NewItem, Escape, NavigateTo, EndListGesture,
                actUnchanged, OneGesture
  <1>8. CASE Listings
    BY <1>8 DEF Listings, OnBatch, OnView, DiskChange, Refresh, OperationEnds, SelectsElsewhere,
                Resort, handVars,
                OneGesture
  <1>9. CASE UNCHANGED vars
    BY <1>9 DEF vars, handVars, OneGesture
  <1> QED  BY <1>1, <1>2, <1>3, <1>4, <1>5, <1>6, <1>7, <1>8, <1>9 DEF Next, Mouse

(* The rows, the selection and the anchor stay. *)
RowsStay ==
  /\ tab'.entries = tab.entries /\ tab'.view = tab.view
  /\ tab'.selection = tab.selection /\ tab'.anchor = tab.anchor

(* A request leaves the rows that are shown. *)
LEMMA RequestStays ==
  ASSUME tab \in Tabs, NEW keep, RequestListing(tab, keep)
  PROVE  RowsStay
  BY DEF RequestListing, RowsStay, Tabs

(* The press is remembered as the rows have been found by it. *)
GripHolds ==
  \A g \in grip :
    /\ g.row = down /\ down \in Rows
    /\ \E es : press = {[ctrl |-> g.ctrl, shift |-> g.shift, over |-> es]}
    /\ ~g.shift /\ g.ctrl => tab.selection = g.selection
    /\ g.shift => g.from # 0 /\ tab.anchor = g.from

GripKept == grip' = {} \/ (RowsStay /\ UNCHANGED <<press, down, grip>>)

(* A press is remembered as it was made. *)
LEMMA PressRowGrips ==
  ASSUME TabTypeOK, PressRow
  PROVE  GripHolds'
  <1>1. tab \in Tabs /\ tab.view \in ViewsOf(tab)
    BY DEF TabTypeOK
  <1>2. PICK r \in Real, ctrl, shift \in BOOLEAN :
          /\ press' = {[ctrl |-> ctrl, shift |-> shift, over |-> tab.entries]} /\ down' = r
          /\ tab' = CASE shift -> MoveCursor(tab, r, TRUE)
                      [] ~shift /\ ~ctrl /\ tab.view[r] \notin tab.selection ->
                           MoveCursor(tab, r, FALSE)
                      [] ~shift /\ ~ctrl /\ tab.view[r] \in tab.selection ->
                           [tab EXCEPT !.cursor = r]
                      [] OTHER -> tab
          /\ grip' = {[row |-> r, ctrl |-> ctrl, shift |-> shift,
                       selection |-> tab.selection, from |-> From(tab, r)]}
    BY DEF PressRow
  <1>3. /\ Rows = 1 .. Len(tab.view) /\ Len(tab.view) \in Nat /\ tab.view # <<>>
        /\ r \in 1 .. Len(tab.view)
    BY <1>1, <1>2, TabFacts DEF Rows, Real
  <1>4. tab'.view = tab.view
    BY PressRowSelects DEF Selects, Reselected
  <1>5. ~shift /\ ctrl => tab'.selection = tab.selection
    BY <1>2
  <1>6. Clamp(r, tab) = r
    BY <1>3 DEF Clamp
  <1>7. From(tab, r) # 0 /\ From(tab, r) \in Nat
    BY <1>1, <1>3 DEF From, Tabs
  <1>8. shift => tab'.anchor = From(tab, r)
    <2> SUFFICES ASSUME shift PROVE tab'.anchor = From(tab, r)
      OBVIOUS
    <2>1. tab' = MoveCursor(tab, r, TRUE)
      BY <1>2
    <2>2. tab' = [tab EXCEPT !.anchor = From(tab, r), !.cursor = r,
                             !.selection = Slice(tab, From(tab, r), r)]
      BY <1>3, <1>6, <2>1 DEF MoveCursor
    <2> QED  BY <1>1, <2>2 DEF Tabs
  <1>9. r \in Rows'
    BY <1>2, <1>4 DEF Rows, Real
  <1> DEFINE h == [row |-> r, ctrl |-> ctrl, shift |-> shift,
                   selection |-> tab.selection, from |-> From(tab, r)]
  <1>10. /\ h.row = r /\ h.ctrl = ctrl /\ h.shift = shift
         /\ h.selection = tab.selection /\ h.from = From(tab, r)
    OBVIOUS
  <1>11. /\ grip' = {h} /\ down' = h.row
         /\ press' = {[ctrl |-> h.ctrl, shift |-> h.shift, over |-> tab.entries]}
    BY <1>2, <1>10
  <1> HIDE DEF h
  <1> QED  BY <1>2, <1>5, <1>7, <1>8, <1>9, <1>10, <1>11 DEF GripHolds

(* Keys and listings that arrive end the memory of a press. *)
LEMMA KeysGrip ==
  ASSUME KeyInput \/ OnBatch \/ OnView
  PROVE  GripKept
  BY DEF KeyInput, NavigationKey, SelectAll, TypeAhead, EnterKey, NavigateTo, OnBatch, OnView,
         GripKept

(* A request leaves it as it is. *)
LEMMA ListingsGrip ==
  ASSUME TabTypeOK,
         \/ DiskChange \/ Refresh \/ OperationEnds \/ SelectsElsewhere \/ Resort
         \/ UNCHANGED vars
  PROVE  GripKept
  <1>1. CASE DiskChange \/ SelectsElsewhere \/ UNCHANGED vars
    BY <1>1 DEF DiskChange, SelectsElsewhere, vars, listVars, handVars, seenVars, GripKept, RowsStay
  <1>2. CASE Refresh \/ OperationEnds
    <2>1. RowsStay
      BY <1>2, RequestStays DEF TabTypeOK, Refresh, OperationEnds, Refreshed
    <2> QED  BY <1>2, <2>1 DEF Refresh, OperationEnds, handVars, GripKept
  <1>3. CASE Resort
    <2>1. /\ tab'.entries = tab.entries /\ tab'.selection = tab.selection
          /\ tab'.anchor = tab.anchor
      BY <1>3, ResortFacts
    <2>2. UNCHANGED <<press, down>> /\ grip' = IF tab'.view = tab.view THEN grip ELSE {}
      BY <1>3 DEF Resort, handVars
    <2> QED  BY <2>1, <2>2 DEF GripKept, RowsStay
  <1> QED  BY <1>1, <1>2, <1>3

(* So do commands. *)
LEMMA CommandsGrip ==
  ASSUME Commands
  PROVE  GripKept
  BY DEF Commands, Delete, ConfirmDelete, Transfer, CopyToClipboard, Paste, StartRename,
         CommitRename, MenuOpen, GoParent, NewItem, Escape, NavigateTo, listVars, actUnchanged,
         GripKept, RowsStay

(* The mouse ends it or makes another. *)
LEMMA MouseGrip ==
  ASSUME OneGesture, GripHolds, TabTypeOK, Mouse
  PROVE  GripHolds'
  <1>1. down = 0 => grip = {}
    BY TabFacts DEF GripHolds, Rows, TabTypeOK
  <1>2. CASE PressRow
    BY <1>2, PressRowGrips
  <1>3. CASE ClickRow \/ Release \/ DragRow \/ ContextMenu \/ MoveBand \/ EndBand \/ ClickEmpty
    <2>1. grip' = {}
      BY <1>3 DEF ClickRow, Release, DragRow, ContextMenu, MoveBand, EndBand, ClickEmpty
    <2> QED  BY <2>1 DEF GripHolds
  <1>4. CASE StartBand \/ Drop \/ DropNowhere \/ DropOutside
    <2>1. down = 0 /\ grip' = grip
      BY <1>4 DEF StartBand, Drop, DropNowhere, DropOutside, Free, OneGesture
    <2> QED  BY <1>1, <2>1 DEF GripHolds
  <1> QED  BY <1>2, <1>3, <1>4 DEF Mouse

(* Every step keeps what a press has found. *)
LEMMA GripStep ==
  ASSUME OneGesture, GripHolds, TabTypeOK, [Next]_vars
  PROVE  GripHolds'
  <1>1. CASE GripKept
    <2>1. CASE grip' = {}
      BY <2>1 DEF GripHolds
    <2>2. CASE RowsStay /\ UNCHANGED <<press, down, grip>>
      BY <2>2 DEF RowsStay, GripHolds, Rows
    <2> QED  BY <1>1, <2>1, <2>2 DEF GripKept
  <1>2. CASE Mouse
    BY <1>2, MouseGrip
  <1> QED  BY <1>1, <1>2, KeysGrip, ListingsGrip, CommandsGrip DEF Next, Listings

(* A click ends what its press began. *)
LEMMA ClickStep ==
  ASSUME TabTypeOK, GripHolds, ClickRow, NEW g \in grip, HandTypeOK
  PROVE  /\ tab'.cursor = g.row
         /\ ~g.ctrl /\ ~g.shift => tab'.selection = {tab.view[g.row]}
         /\ g.ctrl /\ ~g.shift => tab'.selection = Toggled(g.selection, tab.view[g.row])
         /\ g.shift /\ ~g.ctrl => tab'.selection = Slice(tab, g.from, g.row)
  <1>1. tab \in Tabs /\ tab.view \in ViewsOf(tab)
    BY DEF TabTypeOK
  <1>2. /\ g.row = down /\ down \in Rows
        /\ \E es : press = {[ctrl |-> g.ctrl, shift |-> g.shift, over |-> es]}
        /\ ~g.shift /\ g.ctrl => tab.selection = g.selection
        /\ g.shift => g.from # 0 /\ tab.anchor = g.from
        /\ g.ctrl \in BOOLEAN /\ g.shift \in BOOLEAN
    BY DEF GripHolds, HandTypeOK, Grips
  <1>3. /\ tab.view # <<>> /\ Clamp(down, tab) = down
    BY <1>1, <1>2, TabFacts DEF Rows, Clamp
  <1>4. tab' = IF g.ctrl THEN ToggleSelect(tab, down) ELSE MoveCursor(tab, down, g.shift)
    <2>1. PICK ctrl, shift \in BOOLEAN :
            LET m == ClickModifiers(ctrl, shift)
            IN  tab' = IF m.ctrl THEN ToggleSelect(tab, down)
                       ELSE MoveCursor(tab, down, m.shift)
      BY DEF ClickRow
    <2>2. ClickModifiers(ctrl, shift) = [ctrl |-> g.ctrl, shift |-> g.shift]
      <3>1. PICK es : press = {[ctrl |-> g.ctrl, shift |-> g.shift, over |-> es]}
        BY <1>2
      <3>2. press # {} /\ \A x \in press : x.ctrl = g.ctrl /\ x.shift = g.shift
        BY <3>1
      <3>3. (\E x \in press : x.ctrl) = g.ctrl /\ (\E x \in press : x.shift) = g.shift
        <4>1. g.ctrl \in BOOLEAN /\ g.shift \in BOOLEAN
          BY <1>2
        <4> QED  BY <3>2, <4>1
      <3> QED  BY <3>2, <3>3 DEF ClickModifiers
    <2> QED  BY <2>1, <2>2
  <1>5. CASE g.ctrl
    <2>1. tab' = [tab EXCEPT !.selection = Toggled(tab.selection, tab.view[down]),
                             !.cursor = down, !.anchor = down]
      BY <1>3, <1>4, <1>5 DEF ToggleSelect
    <2> QED  BY <1>1, <1>2, <1>5, <2>1 DEF Tabs
  <1>6. CASE ~g.ctrl /\ g.shift
    <2>1. From(tab, down) = g.from
      BY <1>2, <1>6 DEF From
    <2>2. tab' = [tab EXCEPT !.anchor = g.from, !.cursor = down,
                             !.selection = Slice(tab, g.from, down)]
      BY <1>3, <1>4, <1>6, <2>1 DEF MoveCursor
    <2> QED  BY <1>1, <1>2, <1>6, <2>2 DEF Tabs
  <1>7. CASE ~g.ctrl /\ ~g.shift
    <2>1. tab' = [tab EXCEPT !.anchor = down, !.cursor = down, !.selection = {tab.view[down]}]
      BY <1>2, <1>3, <1>4, <1>7 DEF MoveCursor
    <2> QED  BY <1>1, <1>2, <1>7, <2>1 DEF Tabs
  <1> QED  BY <1>5, <1>6, <1>7, <1>2

(* Rows and band stay, or the band is no longer what is shown. *)
BandKept ==
  \/ still' = FALSE \/ marquee' = {}
  \/ RowsStay /\ UNCHANGED <<marquee, still>>

(* Of the mouse, only drawing the band changes the band's rows. *)
LEMMA MouseBand ==
  ASSUME OneGesture, TabTypeOK, Mouse
  PROVE  BandKept \/ MoveBand
  <1>1. CASE PressRow \/ ContextMenu \/ ClickEmpty
    BY <1>1 DEF PressRow, ContextMenu, ClickEmpty, Free, BandKept
  <1>2. CASE ClickRow \/ Release \/ DragRow
    <2>1. down # 0
      BY <1>2, TabFacts DEF ClickRow, Release, DragRow, Rows, Real, TabTypeOK
    <2>2. marquee' = {}
      BY <1>2, <2>1 DEF ClickRow, Release, DragRow, OneGesture
    <2> QED  BY <2>2 DEF BandKept
  <1>3. CASE StartBand \/ EndBand
    BY <1>3 DEF StartBand, EndBand, BandKept
  <1>4. CASE Drop \/ DropNowhere \/ DropOutside
    <2>1. marquee' = {}
      BY <1>4 DEF Drop, DropNowhere, DropOutside, OneGesture, EndListGesture
    <2> QED  BY <2>1 DEF BandKept
  <1> QED  BY <1>1, <1>2, <1>3, <1>4 DEF Mouse

(* Keys end the claim of a band on the selection. *)
LEMMA KeysBand ==
  ASSUME KeyInput
  PROVE  BandKept
  BY DEF KeyInput, NavigationKey, SelectAll, TypeAhead, EnterKey, NavigateTo, EndListGesture,
         BandKept

(* Commands leave band and selection. *)
LEMMA CommandsBand ==
  ASSUME Commands
  PROVE  BandKept
  BY DEF Commands, Delete, ConfirmDelete, Transfer, CopyToClipboard, Paste, StartRename,
         CommitRename, MenuOpen, GoParent, NewItem, Escape, NavigateTo, EndListGesture,
         listVars, actUnchanged, BandKept, RowsStay

(* New rows end the claim, others leave it. *)
LEMMA ListingsBand ==
  ASSUME TabTypeOK, Listings \/ UNCHANGED vars
  PROVE  BandKept
  <1>1. CASE OnBatch \/ OnView \/ Resort
    BY <1>1 DEF OnBatch, OnView, Resort, BandKept
  <1>2. CASE DiskChange \/ SelectsElsewhere \/ UNCHANGED vars
    BY <1>2 DEF DiskChange, SelectsElsewhere, vars, listVars, handVars, seenVars, BandKept,
                RowsStay
  <1>3. CASE Refresh \/ OperationEnds
    <2>1. RowsStay
      BY <1>3, RequestStays DEF TabTypeOK, Refresh, OperationEnds, Refreshed
    <2> QED  BY <1>3, <2>1 DEF Refresh, OperationEnds, handVars, BandKept
  <1> QED  BY <1>1, <1>2, <1>3 DEF Listings

(* Every step keeps the band's rows selected. *)
LEMMA BandStep ==
  ASSUME OneGesture, TabTypeOK, HandTypeOK, BandSelectsItsRows, [Next]_vars
  PROVE  BandSelectsItsRows'
  <1>1. CASE BandKept
    <2>1. CASE still' = FALSE \/ marquee' = {}
      BY <2>1 DEF BandSelectsItsRows
    <2>2. CASE RowsStay /\ UNCHANGED <<marquee, still>>
      <3>1. /\ Rows' = Rows /\ tab'.view = tab.view /\ tab'.selection = tab.selection
            /\ tab'.entries = tab.entries
        BY <2>2 DEF RowsStay, Rows
      <3> QED  BY <2>2, <3>1 DEF BandSelectsItsRows
    <2> QED  BY <1>1, <2>1, <2>2 DEF BandKept
  <1>2. CASE MoveBand
    <2>1. /\ tab \in Tabs /\ tab.view \in ViewsOf(tab) /\ Len(tab.view) \in Nat
          /\ Rows = 1 .. Len(tab.view)
      BY TabFacts DEF TabTypeOK, Rows
    <2>2. PICK m \in marquee, y \in 0 .. Len(tab.view) + 1 :
            tab' = Banded(tab, m, y) /\ marquee' = {[m EXCEPT !.at = y]}
      BY <1>2 DEF MoveBand
    <2>3. m \in Marquees /\ y \in Nat /\ (~m.additive => m.keep = {})
      BY <2>1, <2>2 DEF HandTypeOK, OneGesture
    <2>4. /\ Reselected(tab, tab')
          /\ tab'.selection = m.keep \cup
               {tab.view[r] : r \in {q \in Rows : Lower(m.from, y) <= q /\ q <= Upper(m.from, y)}}
      BY <2>1, <2>2, <2>3, BandFacts
    <2>5. tab'.view = tab.view /\ Rows' = Rows
      BY <2>4 DEF Reselected, Rows
    <2> DEFINE n == [m EXCEPT !.at = y]
    <2>6. marquee' = {n} /\ n.from = m.from /\ n.at = y /\ n.keep = m.keep
      BY <2>2, <2>3 DEF Marquees
    <2> HIDE DEF n
    <2> QED  BY <2>4, <2>5, <2>6 DEF BandSelectsItsRows
  <1> QED  BY <1>1, <1>2, MouseBand, KeysBand, CommandsBand, ListingsBand DEF Next

------------------------------------------------------------------------------
(* What is acted on. *)

(* What a question, a drag, the clipboard or a rename holds was picked. *)
PicksHold ==
  /\ doomed \subseteq picked["delete"] /\ drag \subseteq picked["drag"]
  /\ clip \subseteq picked["paste"]
  /\ picked["rename"] # {} =>
       \A i \in rename \cap DOMAIN tab.entries :
         Append(tab.path, tab.entries[i]) \in picked["rename"]

(* Nothing is picked, and what is held stays or is dropped. *)
PicksKept ==
  /\ picked' = picked /\ doomed' \subseteq doomed /\ drag' \subseteq drag /\ clip' \subseteq clip
  /\ \/ rename' = {}
     \/ rename' = rename /\ tab'.entries = tab.entries /\ tab'.path = tab.path

(* What was picked stays picked. *)
LEMMA PicksKeptStep ==
  ASSUME PicksHold, PicksKept
  PROVE  PicksHold'
  <1>1. CASE rename' = {}
    BY <1>1 DEF PicksHold, PicksKept
  <1>2. CASE rename' = rename /\ tab'.entries = tab.entries /\ tab'.path = tab.path
    BY <1>2 DEF PicksHold, PicksKept
  <1> QED  BY <1>1, <1>2 DEF PicksKept

(* A rename is no longer of what it was begun on in another folder. *)
LEMMA NavigatePicks ==
  ASSUME PicksHold, HandTypeOK, NEW folder, NavigateTo(folder),
         UNCHANGED <<doomed, drag, clip>>
  PROVE  PicksHold'
  <1>1. picked' = [picked EXCEPT !["rename"] = {}]
    BY DEF NavigateTo
  <1>2. /\ picked'["rename"] = {} /\ picked'["delete"] = picked["delete"]
        /\ picked'["drag"] = picked["drag"] /\ picked'["paste"] = picked["paste"]
    BY <1>1 DEF HandTypeOK
  <1> QED  BY <1>2 DEF PicksHold

(* Keys pick nothing. *)
LEMMA KeysPicks ==
  ASSUME PicksHold, TabTypeOK, HandTypeOK, KeyInput
  PROVE  PicksHold'
  <1>1. CASE NavigationKey \/ SelectAll \/ TypeAhead
    <2>1. tab'.entries = tab.entries /\ tab'.path = tab.path
      BY <1>1, NavigationKeySelects, SelectAllSelects, TypeAheadSelects
      DEF Selects, Rests, Reselected
    <2>2. PicksKept
      BY <1>1, <2>1 DEF NavigationKey, SelectAll, TypeAhead, keysUnchanged, PicksKept
    <2> QED  BY <2>2, PicksKeptStep
  <1>2. CASE EnterKey
    BY <1>2, NavigatePicks DEF EnterKey
  <1> QED  BY <1>1, <1>2 DEF KeyInput

(* New rows end the pick of a rename. *)
LEMMA ListingsPicks ==
  ASSUME PicksHold, TabTypeOK, HandTypeOK, Listings \/ UNCHANGED vars
  PROVE  PicksHold'
  <1>1. CASE OnBatch
    <2>1. /\ picked' = [picked EXCEPT !["rename"] = {}]
          /\ doomed' = doomed /\ drag' = drag /\ clip' = clip
      BY <1>1 DEF OnBatch, handVars
    <2>2. /\ picked'["rename"] = {} /\ picked'["delete"] = picked["delete"]
          /\ picked'["drag"] = picked["drag"] /\ picked'["paste"] = picked["paste"]
      BY <2>1 DEF HandTypeOK
    <2> QED  BY <2>1, <2>2 DEF PicksHold
  <1>2. CASE DiskChange \/ SelectsElsewhere \/ UNCHANGED vars
    <2>1. PicksKept
      BY <1>2 DEF DiskChange, SelectsElsewhere, vars, listVars, handVars, seenVars, PicksKept
    <2> QED  BY <2>1, PicksKeptStep
  <1>3. CASE OnView \/ Refresh \/ OperationEnds \/ Resort
    <2>1. tab'.entries = tab.entries /\ tab'.path = tab.path
      BY <1>3, OnViewFacts, RefreshRenews, RenewFacts, ResortFacts
    <2>2. PicksKept
      BY <1>3, <2>1 DEF OnView, Refresh, OperationEnds, Resort, handVars, PicksKept
    <2> QED  BY <2>2, PicksKeptStep
  <1> QED  BY <1>1, <1>2, <1>3 DEF Listings

(* A drag picks what it carries. *)
LEMMA MousePicks ==
  ASSUME PicksHold, TabTypeOK, HandTypeOK, Mouse
  PROVE  PicksHold'
  <1>1. CASE PressRow \/ StartBand \/ ClickEmpty \/ ContextMenu
    <2>1. tab'.entries = tab.entries /\ tab'.path = tab.path
      BY <1>1, PressRowSelects, ClickEmptySelects DEF StartBand, Selects, Reselected
    <2>2. PicksKept
      BY <1>1, <2>1 DEF PressRow, StartBand, ClickEmpty, ContextMenu, Blurs, mouseUnchanged,
                        PicksKept
    <2> QED  BY <2>2, PicksKeptStep
  <1>2. CASE ClickRow \/ MoveBand \/ EndBand
    <2>1. tab'.entries = tab.entries /\ tab'.path = tab.path
      BY <1>2, ClickRowSelects, BandSelects DEF Selects, Reselected
    <2>2. PicksKept
      BY <1>2, <2>1 DEF ClickRow, MoveBand, EndBand, mouseUnchanged, PicksKept
    <2> QED  BY <2>2, PicksKeptStep
  <1>3. CASE Release \/ DropNowhere
    <2>1. PicksKept
      BY <1>3 DEF Release, DropNowhere, listVars, mouseUnchanged, PicksKept
    <2> QED  BY <2>1, PicksKeptStep
  <1>4. CASE Drop \/ DropOutside
    <2>1. tab'.entries = tab.entries /\ tab'.path = tab.path
      BY <1>4 DEF Drop, DropOutside, RequestListing, TabTypeOK, Tabs
    <2>2. PicksKept
      BY <1>4, <2>1 DEF Drop, DropOutside, PicksKept
    <2> QED  BY <2>2, PicksKeptStep
  <1>5. CASE DragRow
    <2> DEFINE all == {Append(tab.path, n) : n \in NamesOf(tab, Dragged(down))}
    <2>1. /\ drag' = {Append(tab.path, n) : n \in NamesOf(tab, Dragged(down) \cap ToSet(tab.view))}
          /\ picked' = [picked EXCEPT !["drag"] = all]
          /\ doomed' = doomed /\ clip' = clip /\ rename' = rename /\ rename = {}
      BY <1>5 DEF DragRow, mouseUnchanged
    <2>2. NamesOf(tab, Dragged(down) \cap ToSet(tab.view)) \subseteq NamesOf(tab, Dragged(down))
      BY DEF NamesOf
    <2>3. drag' \subseteq all
      BY <2>1, <2>2
    <2> HIDE DEF all
    <2>4. /\ picked'["drag"] = all /\ picked'["delete"] = picked["delete"]
          /\ picked'["paste"] = picked["paste"]
      BY <2>1 DEF HandTypeOK
    <2> QED  BY <2>1, <2>3, <2>4 DEF PicksHold
  <1> QED  BY <1>1, <1>2, <1>3, <1>4, <1>5 DEF Mouse

(* A deletion, a copy and a rename pick what they hold. *)
LEMMA CommandsPicks ==
  ASSUME PicksHold, TabTypeOK, HandTypeOK, Commands
  PROVE  PicksHold'
  <1>1. CASE ConfirmDelete \/ Transfer \/ Paste \/ CommitRename \/ NewItem \/ Escape
    <2>1. PicksKept
      BY <1>1 DEF ConfirmDelete, Transfer, Paste, CommitRename, NewItem, Escape, Blurs,
                  listVars, PicksKept
    <2> QED  BY <2>1, PicksKeptStep
  <1>2. CASE Delete
    <2>1. /\ tab' = tab /\ rename' = rename /\ drag' = drag /\ clip' = clip
          /\ \/ doomed' = doomed /\ picked' = picked
             \/ /\ doomed' = SelectedPaths(tab)
                /\ picked' = [picked EXCEPT !["delete"] = SelectedPaths(tab)]
      BY <1>2 DEF Delete, listVars
    <2> QED  BY <2>1 DEF PicksHold, HandTypeOK
  <1>3. CASE CopyToClipboard
    <2>1. /\ tab' = tab /\ rename' = rename /\ drag' = drag /\ doomed' = doomed
          /\ clip' = PathsForClipboard
          /\ picked' = [picked EXCEPT !["paste"] = PathsForClipboard]
      BY <1>3 DEF CopyToClipboard, listVars
    <2> QED  BY <2>1 DEF PicksHold, HandTypeOK
  <1>4. CASE StartRename
    <2>1. PICK i \in tab.selection \cap DOMAIN tab.entries :
            /\ rename' = {i}
            /\ picked' = [picked EXCEPT !["rename"] = {Append(tab.path, tab.entries[i])}]
      BY <1>4 DEF StartRename
    <2>2. tab' = tab /\ drag' = drag /\ clip' = clip /\ doomed' = doomed
      BY <1>4 DEF StartRename, listVars
    <2> QED  BY <2>1, <2>2 DEF PicksHold, HandTypeOK
  <1>5. CASE MenuOpen \/ GoParent
    BY <1>5, NavigatePicks DEF MenuOpen, GoParent
  <1> QED  BY <1>1, <1>2, <1>3, <1>4, <1>5 DEF Commands

(* Every step keeps what was picked for what is held. *)
LEMMA PicksStep ==
  ASSUME PicksHold, TabTypeOK, HandTypeOK, [Next]_vars
  PROVE  PicksHold'
  BY KeysPicks, PicksKeptStep, MousePicks, CommandsPicks, ListingsPicks DEF Next

(* Only these submit an operation that was picked. *)
LEMMA SubmitStep ==
  ASSUME PicksHold, TabTypeOK, HandTypeOK, [Next]_vars, op' # op,
         op'.by \in DOMAIN picked, picked[op'.by] # {}
  PROVE  op'.sources \subseteq picked[op'.by]
  <1>1. op'.by \notin {"at once", "transfer", "create"}
    BY DEF HandTypeOK
  <1>2. CASE Delete \/ Transfer \/ NewItem
    <2>1. CASE Delete
      <3>1. op' = [by |-> "at once", sources |-> SelectedPaths(tab), dest |-> tab.path]
        BY <2>1 DEF Delete, SubmitOp
      <3> QED  BY <1>1, <3>1
    <2>2. CASE Transfer
      <3>1. op' = [by |-> "transfer", sources |-> SelectedPaths(tab), dest |-> There]
        BY <2>2 DEF Transfer, SubmitOp
      <3> QED  BY <1>1, <3>1
    <2>3. CASE NewItem
      <3>1. PICK n : op' = [by |-> "create", sources |-> {Append(tab.path, n)}, dest |-> tab.path]
        BY <2>3 DEF NewItem, SubmitOp
      <3> QED  BY <1>1, <3>1
    <2> QED  BY <1>2, <2>1, <2>2, <2>3
  <1>3. CASE ConfirmDelete
    BY <1>3 DEF ConfirmDelete, SubmitOp, Doomed, PicksHold
  <1>4. CASE Paste
    <2>1. op' = [by |-> "paste", sources |-> Movable(clip, tab.path), dest |-> tab.path]
      BY <1>4 DEF Paste, DropFilesInto, SubmitOp
    <2> QED  BY <2>1 DEF Movable, PicksHold
  <1>5. CASE Drop
    <2>1. PICK dest : op' = [by |-> "drag", sources |-> Movable(drag, dest), dest |-> dest]
      BY <1>5 DEF Drop, DropFilesInto, SubmitOp, Carried
    <2> QED  BY <2>1 DEF Movable, PicksHold
  <1>6. CASE CommitRename
    <2>1. PICK e \in rename \cap ToSet(tab.view) :
            \E i \in RenamedEntry(e) :
              op' = [by |-> "rename", sources |-> {Append(tab.path, tab.entries[i])},
                     dest |-> tab.path]
      BY <1>6 DEF CommitRename, SubmitOp
    <2>2. PICK i \in RenamedEntry(e) :
            op' = [by |-> "rename", sources |-> {Append(tab.path, tab.entries[i])},
                   dest |-> tab.path]
      BY <2>1
    <2>3. i \in rename \cap DOMAIN tab.entries
      BY <2>2 DEF RenamedEntry
    <2> QED  BY <2>2, <2>3 DEF PicksHold
  <1>7. CASE KeyInput
    BY <1>7 DEF KeyInput, NavigationKey, SelectAll, TypeAhead, EnterKey, keysUnchanged
  <1>8. CASE Listings \/ UNCHANGED vars
    BY <1>8 DEF Listings, OnBatch, OnView, DiskChange, Refresh, OperationEnds,
                SelectsElsewhere, Resort, vars
  <1>9. CASE \/ PressRow \/ ClickRow \/ Release \/ DragRow \/ ContextMenu \/ StartBand
             \/ MoveBand \/ EndBand \/ ClickEmpty \/ DropNowhere \/ DropOutside
    BY <1>9 DEF PressRow, ClickRow, Release, DragRow, ContextMenu, StartBand, MoveBand, EndBand,
                ClickEmpty, DropNowhere, DropOutside, mouseUnchanged
  <1>10. CASE CopyToClipboard \/ StartRename \/ MenuOpen \/ GoParent \/ Escape
    BY <1>10 DEF CopyToClipboard, StartRename, MenuOpen, GoParent, Escape
  <1> QED  BY <1>2, <1>3, <1>4, <1>5, <1>6, <1>7, <1>8, <1>9, <1>10 DEF Next, Mouse, Commands

------------------------------------------------------------------------------
(* The theorems. *)

FileListInv ==
  TabTypeOK /\ HandTypeOK /\ HeldIsKept /\ KeptForLater /\ LeftAwaited /\ OneGesture
    /\ GripHolds /\ BandSelectsItsRows /\ PicksHold

(* A tab that has just been opened fits. *)
LEMMA InitInv ==
  ASSUME Init
  PROVE  FileListInv
  <1>1. EmptyTab \in Tabs /\ EmptyTab.view \in ViewsOf(EmptyTab)
    BY EmptyList DEF EmptyTab, Tabs, ViewsOf, Folders, Names
  <1>2. TabTypeOK
    BY <1>1 DEF Init, TabTypeOK
  <1>3. HandTypeOK
    <2>1. Len(ByName) \in Nat
      BY FileListAssumption, LenProperties
    <2> QED  BY <2>1 DEF Init, HandTypeOK, AtMostOne
  <1>4. HeldIsKept /\ KeptForLater /\ LeftAwaited /\ OneGesture /\ GripHolds
        /\ BandSelectsItsRows
    BY DEF Init, EmptyTab, HeldIsKept, KeptForLater, LeftAwaited, OneGesture, GripHolds,
           BandSelectsItsRows
  <1>5. PicksHold
    BY DEF Init, PicksHold
  <1> QED  BY <1>2, <1>3, <1>4, <1>5 DEF FileListInv

(* Every step keeps the invariant. *)
LEMMA StepInv ==
  ASSUME FileListInv, [Next]_vars
  PROVE  FileListInv'
  BY TabTypeStep, HandTypeStep, HeldStep, LeftStep, GestureStep, GripStep, BandStep, PicksStep
  DEF FileListInv

(* The invariant holds, for any names, folders, orders, filters and bounds. *)
THEOREM FileListInvariance == Spec => []FileListInv
  <1>1. Init => FileListInv
    BY InitInv
  <1>2. FileListInv /\ [Next]_vars => FileListInv'
    BY StepInv
  <1> QED  BY <1>1, <1>2, PTL DEF Spec

(* The rows of the view are different entries of those it was made of, and *)
(* names, cursor and selection are what file_table takes them for. *)
THEOREM FileListTypeCorrect == Spec => []FileListTypeOK
  <1>1. FileListInv => FileListTypeOK
    <2> SUFFICES ASSUME FileListInv PROVE FileListTypeOK
      OBVIOUS
    <2>1. /\ tab \in Tabs /\ tab.view \in Lists(1 .. Len(tab.viewOf))
          /\ tab.entries \in Lists(Names) /\ tab.viewOf \in Lists(Names)
      BY DEF FileListInv, TabTypeOK, ViewsOf, Tabs
    <2>2. /\ IsInjective(tab.view) /\ ToSet(tab.view) \subseteq DOMAIN tab.viewOf
          /\ ToSet(tab.entries) \cup ToSet(tab.viewOf) \subseteq Names
      <3>1. IsInjective(tab.view)
        BY <2>1 DEF Lists
      <3>2. ToSet(tab.view) \subseteq 1 .. Len(tab.viewOf) /\ DOMAIN tab.viewOf = 1 .. Len(tab.viewOf)
        BY <2>1, ListFacts
      <3> QED  BY <2>1, <3>1, <3>2, ListFacts
    <2>3. /\ tab.path \in Folders /\ tab.selection \subseteq Nat
          /\ {tab.cursor, tab.anchor} \subseteq Nat
      BY <2>1 DEF Tabs
    <2>4. /\ AtMostOne(press) /\ AtMostOne(marquee) /\ AtMostOne(rename) /\ AtMostOne(menu)
          /\ AtMostOne(keeping) /\ AtMostOne(pendingSelect) /\ AtMostOne(held)
          /\ down \in 0 .. Len(ByName)
      BY DEF FileListInv, HandTypeOK
    <2>5. {Cardinality(press), Cardinality(marquee), Cardinality(rename), Cardinality(menu),
           Cardinality(keeping), Cardinality(pendingSelect), Cardinality(held)} \subseteq {0, 1}
      BY <2>4, OneAtMost
    <2> QED  BY <2>2, <2>3, <2>4, <2>5 DEF FileListTypeOK
  <1> QED  BY <1>1, FileListInvariance, PTL

(* However a band has been drawn, it has selected its rows and what Ctrl *)
(* kept. *)
THEOREM BandIsExact == Spec => []BandSelectsItsRows
  <1>1. FileListInv => BandSelectsItsRows
    BY DEF FileListInv
  <1> QED  BY <1>1, FileListInvariance, PTL

(* What was selected before a refresh is selected after it. *)
THEOREM SelectionSurvives == Spec => []SelectionSurvivesRefresh
  <1>1. FileListInv => SelectionSurvivesRefresh
    BY DEF FileListInv, HeldIsKept, SelectionSurvivesRefresh
  <1> QED  BY <1>1, FileListInvariance, PTL

(* The folder that was left is selected in its parent. *)
THEOREM FolderLeftSelected == Spec => []FolderLeftIsSelected
  <1>1. FileListInv => FolderLeftIsSelected
    BY DEF FileListInv, LeftAwaited, FolderLeftIsSelected
  <1> QED  BY <1>1, FileListInvariance, PTL

(* No operation takes what was not picked for it. *)
THEOREM PickedOnly == Spec => OnlyWhatWasPicked
  <1>1. FileListInv /\ [Next]_vars =>
          [op' # op /\ op'.by \in DOMAIN picked /\ picked[op'.by] # {} =>
             op'.sources \subseteq picked[op'.by]]_vars
    BY SubmitStep DEF FileListInv
  <1> QED  BY <1>1, FileListInvariance, PTL DEF Spec, OnlyWhatWasPicked

(* A click ends what its press began. *)
THEOREM ClickAsPressed == Spec => ClickMeansItsPress
  <1>1. FileListInv /\ [Next]_vars =>
          [ClickRow => \A g \in grip :
             /\ tab'.cursor = g.row
             /\ ~g.ctrl /\ ~g.shift => tab'.selection = {tab.view[g.row]}
             /\ g.ctrl /\ ~g.shift => tab'.selection = Toggled(g.selection, tab.view[g.row])
             /\ g.shift /\ ~g.ctrl => tab'.selection = Slice(tab, g.from, g.row)]_vars
    <2> SUFFICES ASSUME FileListInv, ClickRow, NEW g \in grip
                 PROVE  /\ tab'.cursor = g.row
                        /\ ~g.ctrl /\ ~g.shift => tab'.selection = {tab.view[g.row]}
                        /\ g.ctrl /\ ~g.shift =>
                             tab'.selection = Toggled(g.selection, tab.view[g.row])
                        /\ g.shift /\ ~g.ctrl => tab'.selection = Slice(tab, g.from, g.row)
      OBVIOUS
    <2> QED  BY ClickStep DEF FileListInv
  <1> QED  BY <1>1, FileListInvariance, PTL DEF Spec, ClickMeansItsPress
=============================================================================
