------------------------------ MODULE ViewsProofs ------------------------------
(***************************************************************************)
(* What TLAPS proves of the views of a folder, for any entries, filters    *)
(* and orders: the matcher of wildcards finds what wildcards stand for,    *)
(* the natural order is a total order, and a view holds the entries that   *)
(* its filter is for, in the order chosen.                                 *)
(***************************************************************************)
EXTENDS Views, DataLemmas

------------------------------------------------------------------------------
(* Bytes.                                                                  *)

Texts == Seq(Nat)

(* What a text is made of. *)
LEMMA TextFacts ==
  ASSUME NEW s \in Texts
  PROVE  /\ Len(s) \in Nat /\ DOMAIN s = 1 .. Len(s)
         /\ \A i \in 1 .. Len(s) : s[i] \in Nat
         /\ ToSet(s) = {s[i] : i \in 1 .. Len(s)}
  BY LenProperties, ElementOfSeq DEF Texts, ToSet

(* A function on 1 .. n is a text. *)
LEMMA IsText ==
  ASSUME NEW n \in Nat, NEW s \in [1 .. n -> Nat]
  PROVE  s \in Texts /\ Len(s) = n
  BY DEF Texts

(* No two bytes are joined by a change of case but letters, and no letter is *)
(* among the bytes that mean something in a query.                           *)
LEMMA LowerFacts ==
  ASSUME NEW b \in Nat
  PROVE  /\ LowerCase(b) \in Nat
         /\ LowerCase(b) \in {Star, AnyByte, Slash, Backslash} => LowerCase(b) = b
         /\ IsDigit(LowerCase(b)) <=> IsDigit(b)
         /\ IsDigit(b) => LowerCase(b) = b
  BY DEF LowerCase, Star, AnyByte, Slash, Backslash, IsDigit

(* Lowered texts are texts. *)
LEMMA LoweredFacts ==
  ASSUME NEW s \in Texts
  PROVE  /\ Lowered(s) \in Texts /\ Len(Lowered(s)) = Len(s)
         /\ \A i \in 1 .. Len(s) : Lowered(s)[i] = LowerCase(s[i])
  <1>1. /\ Len(s) \in Nat /\ DOMAIN s = 1 .. Len(s)
        /\ \A i \in 1 .. Len(s) : s[i] \in Nat
    BY TextFacts
  <1>2. Lowered(s) = [i \in 1 .. Len(s) |-> LowerCase(s[i])]
    BY <1>1 DEF Lowered
  <1>3. [i \in 1 .. Len(s) |-> LowerCase(s[i])] \in [1 .. Len(s) -> Nat]
    BY <1>1, LowerFacts
  <1> QED  BY <1>1, <1>2, <1>3, IsText

(* So are normalized ones. *)
LEMMA NormalizedFacts ==
  ASSUME NEW s \in Texts
  PROVE  /\ Normalized(s) \in Texts /\ Len(Normalized(s)) = Len(s)
         /\ \A i \in 1 .. Len(s) :
              Normalized(s)[i] = IF s[i] = Backslash THEN Slash ELSE LowerCase(s[i])
  <1>1. /\ Len(s) \in Nat /\ DOMAIN s = 1 .. Len(s)
        /\ \A i \in 1 .. Len(s) : s[i] \in Nat
    BY TextFacts
  <1> DEFINE n == [i \in 1 .. Len(s) |-> IF s[i] = Backslash THEN Slash ELSE LowerCase(s[i])]
  <1>2. Normalized(s) = n
    BY <1>1 DEF Normalized
  <1>3. \A i \in 1 .. Len(s) : LowerCase(s[i]) \in Nat /\ Slash \in Nat
    BY <1>1, LowerFacts DEF Slash
  <1>4. n \in [1 .. Len(s) -> Nat]
    BY <1>3
  <1>5. n \in Texts /\ Len(n) = Len(s)
    BY <1>1, <1>4, IsText
  <1> QED  BY <1>2, <1>5

(* A text without stars has none when it is normalized. *)
LEMMA NoNewStars ==
  ASSUME NEW s \in Texts, Star \notin ToSet(s)
  PROVE  Star \notin ToSet(Normalized(s))
  <1>1. /\ Len(s) \in Nat
        /\ \A i \in 1 .. Len(s) : s[i] \in Nat
        /\ ToSet(s) = {s[i] : i \in 1 .. Len(s)}
    BY TextFacts
  <1>2. /\ Normalized(s) \in Texts /\ Len(Normalized(s)) = Len(s)
        /\ \A i \in 1 .. Len(s) :
              Normalized(s)[i] = IF s[i] = Backslash THEN Slash ELSE LowerCase(s[i])
    BY NormalizedFacts
  <1>3. ToSet(Normalized(s)) = {Normalized(s)[i] : i \in 1 .. Len(s)}
    BY <1>2, TextFacts
  <1>4. ASSUME NEW i \in 1 .. Len(s)
        PROVE  Normalized(s)[i] # Star
    <2>1. s[i] # Star /\ s[i] \in Nat
      BY <1>1
    <2>2. LowerCase(s[i]) # Star
      BY <2>1, LowerFacts
    <2> QED  BY <1>2, <2>2 DEF Star, Slash
  <1> QED  BY <1>3, <1>4

------------------------------------------------------------------------------
(* Queries.                                                                *)

(* What the reading of a text has collected so far, and one byte more. *)
Collected(S) == [out : Seq(Seq(S) \ {<<>>}), cur : Seq(S), quoted : BOOLEAN]

Cut(st) == IF st.cur = <<>> THEN st.out ELSE Append(st.out, st.cur)

Collect(st, b, seps, quoting) ==
  IF quoting /\ b = Quote THEN [st EXCEPT !.quoted = ~@]
  ELSE IF b \in seps /\ ~st.quoted THEN [st EXCEPT !.out = Cut(st), !.cur = <<>>]
  ELSE [st EXCEPT !.cur = Append(@, b)]

(* What is collected is pieces of the text that are not empty. *)
LEMMA CutFacts ==
  ASSUME NEW S, NEW st \in Collected(S)
  PROVE  Cut(st) \in Seq(Seq(S) \ {<<>>})
  <1>1. st.out \in Seq(Seq(S) \ {<<>>}) /\ st.cur \in Seq(S)
    BY DEF Collected
  <1>2. CASE st.cur = <<>>
    BY <1>1, <1>2 DEF Cut
  <1>3. CASE st.cur # <<>>
    <2>1. st.cur \in Seq(S) \ {<<>>}
      BY <1>1, <1>3
    <2>2. Append(st.out, st.cur) \in Seq(Seq(S) \ {<<>>})
      BY <1>1, <2>1, AppendProperties
    <2> QED  BY <1>3, <2>2 DEF Cut
  <1> QED  BY <1>2, <1>3

(* So it is after one byte more. *)
LEMMA CollectFacts ==
  ASSUME NEW S, NEW st \in Collected(S), NEW b \in S, NEW seps, NEW quoting
  PROVE  Collect(st, b, seps, quoting) \in Collected(S)
  <1>1. st.out \in Seq(Seq(S) \ {<<>>}) /\ st.cur \in Seq(S) /\ st.quoted \in BOOLEAN
    BY DEF Collected
  <1>2. Cut(st) \in Seq(Seq(S) \ {<<>>})
    BY CutFacts
  <1>3. CASE quoting /\ b = Quote
    <2>1. ASSUME NEW q \in BOOLEAN
          PROVE  [st EXCEPT !.quoted = q] \in Collected(S)
      BY DEF Collected
    <2>2. [st EXCEPT !.quoted = ~@] \in Collected(S)
      BY <2>1
    <2> QED  BY <1>3, <2>2 DEF Collect
  <1>4. CASE ~(quoting /\ b = Quote) /\ b \in seps /\ ~st.quoted
    <2>1. <<>> \in Seq(S)
      OBVIOUS
    <2>2. [st EXCEPT !.out = Cut(st), !.cur = <<>>] \in Collected(S)
      BY <1>2, <2>1 DEF Collected
    <2> QED  BY <1>2, <1>4, <2>2 DEF Collect
  <1>5. CASE ~(quoting /\ b = Quote) /\ ~(b \in seps /\ ~st.quoted)
    <2>1. Append(st.cur, b) \in Seq(S)
      BY <1>1, AppendProperties
    <2>2. [st EXCEPT !.cur = Append(@, b)] \in Collected(S)
      BY <2>1 DEF Collected
    <2> QED  BY <1>2, <1>5, <2>2 DEF Collect
  <1> QED  BY <1>2, <1>3, <1>4, <1>5

(* Pieces are not empty, and of the bytes of the text. *)
LEMMA PiecesFacts ==
  ASSUME NEW S, NEW s \in Seq(S), NEW seps, NEW quoting
  PROVE  Pieces(s, seps, quoting) \in Seq(Seq(S) \ {<<>>})
  <1> DEFINE N == Len(s)
             V == Collected(S)
             v == [out |-> <<>>, cur |-> <<>>, quoted |-> FALSE]
             F == [n \in 1 .. N |-> [st \in V |-> Collect(st, s[n], seps, quoting)]]
             Reads(f) == f = [n \in 0 .. N |->
                                IF n = 0 THEN v ELSE Collect(f[n - 1], s[n], seps, quoting)]
             f == CHOOSE g : Reads(g)
  <1>1. N \in Nat /\ \A n \in 1 .. N : s[n] \in S
    BY LenProperties, ElementOfSeq
  <1>2. v \in V
    <2>1. <<>> \in Seq(Seq(S) \ {<<>>}) /\ <<>> \in Seq(S)
      OBVIOUS
    <2> QED  BY <2>1 DEF Collected
  <1>3. \A n \in 1 .. N, st \in V : Collect(st, s[n], seps, quoting) \in V
    BY <1>1, CollectFacts
  <1>4. /\ F \in Steps(V, N)
        /\ \A n \in 1 .. N, st \in V : F[n][st] = Collect(st, s[n], seps, quoting)
    BY <1>3 DEF Steps
  <1> HIDE DEF V, v, F, N
  <1>5. \E g : Reads(g)
    <2>1. PICK g \in [0 .. N -> V] :
            g = [n \in 0 .. N |-> IF n = 0 THEN v ELSE F[n][g[n - 1]]]
      BY <1>1, <1>2, <1>4, Iteration
    <2>2. ASSUME NEW n \in 0 .. N, n # 0
          PROVE  F[n][g[n - 1]] = Collect(g[n - 1], s[n], seps, quoting)
      <3>1. n \in 1 .. N /\ n - 1 \in 0 .. N
        BY <1>1, <2>2
      <3> QED  BY <1>4, <2>1, <3>1
    <2>3. Reads(g)
      BY <2>1, <2>2
    <2> QED  BY <2>3
  <1>6. Reads(f)
    BY <1>5
  <1> HIDE DEF f
  <1> DEFINE T == {n \in Nat : n \in 0 .. N => f[n] \in V}
  <1>7. 0 \in T
    BY <1>1, <1>2, <1>6
  <1>8. ASSUME NEW n \in Nat, n \in T
        PROVE  n + 1 \in T
    <2> SUFFICES ASSUME n + 1 \in 0 .. N PROVE f[n + 1] \in V
      OBVIOUS
    <2>1. n \in 0 .. N /\ n + 1 \in 1 .. N /\ (n + 1) - 1 = n /\ n + 1 # 0
      BY <1>1
    <2>2. f[n + 1] = Collect(f[n], s[n + 1], seps, quoting)
      BY <1>6, <2>1
    <2> QED  BY <1>3, <1>8, <2>1, <2>2
  <1>9. f[N] \in V
    <2>1. Nat \subseteq T
      <3> HIDE DEF T
      <3> QED  BY <1>7, <1>8, Induction
    <2> QED  BY <1>1, <2>1
  <1>10. Pieces(s, seps, quoting) = Cut(f[N])
    BY DEF Pieces, Cut, Collect, f, N, v
  <1>11. Cut(f[N]) \in Seq(Seq(S) \ {<<>>})
    BY <1>9, CutFacts DEF V
  <1> QED  BY <1>10, <1>11

TermSet == [exclude : BOOLEAN, atom : Texts, wild : BOOLEAN]

(* A term has a text to look for. *)
LEMMA TermFacts ==
  ASSUME NEW raw \in Texts, raw # <<>>
  PROVE  Term(raw) \in TermSet
  <1> DEFINE body == Normalized(IF Head(raw) = Bang THEN Tail(raw) ELSE raw)
  <1>1. body \in Texts
    <2>1. Tail(raw) \in Texts
      BY HeadTailProperties DEF Texts
    <2> QED  BY <2>1, NormalizedFacts
  <1>2. Term(raw) = [exclude |-> Head(raw) = Bang, atom |-> body,
                     wild |-> ToSet(body) \cap {Star, AnyByte} # {}]
    BY DEF Term
  <1>3. \A x, y \in BOOLEAN : [exclude |-> x, atom |-> body, wild |-> y] \in TermSet
    BY <1>1 DEF TermSet
  <1> HIDE DEF body
  <1>4. (Head(raw) = Bang) \in BOOLEAN /\ (ToSet(body) \cap {Star, AnyByte} # {}) \in BOOLEAN
    OBVIOUS
  <1> QED  BY <1>2, <1>3, <1>4, Zenon

(* So has a token its terms, ... *)
LEMMA TermsFacts ==
  ASSUME NEW token \in Texts
  PROVE  Terms(token) \in Seq(TermSet)
  <1> DEFINE ps == Pieces(token, {Bar}, FALSE)
  <1>1. ps \in Seq(Texts \ {<<>>})
    BY PiecesFacts DEF Texts
  <1>2. /\ Len(ps) \in Nat /\ DOMAIN ps = 1 .. Len(ps)
        /\ \A i \in 1 .. Len(ps) : ps[i] \in Texts \ {<<>>}
    BY <1>1, LenProperties, ElementOfSeq
  <1>3. \A i \in 1 .. Len(ps) : Term(ps[i]) \in TermSet
    BY <1>2, TermFacts
  <1>4. Terms(token) = [i \in 1 .. Len(ps) |-> Term(ps[i])]
    BY <1>2 DEF Terms
  <1> HIDE DEF ps
  <1> QED  BY <1>2, <1>3, <1>4

(* ... and a query its tokens. *)
LEMMA TokensFacts ==
  ASSUME NEW q \in Texts
  PROVE  Tokens(q) \in Seq(Seq(TermSet))
  <1> DEFINE ts == Pieces(q, Blanks, TRUE)
  <1>1. ts \in Seq(Texts \ {<<>>})
    BY PiecesFacts DEF Texts
  <1>2. /\ Len(ts) \in Nat /\ DOMAIN ts = 1 .. Len(ts)
        /\ \A i \in 1 .. Len(ts) : ts[i] \in Texts \ {<<>>}
    BY <1>1, LenProperties, ElementOfSeq
  <1>3. \A i \in 1 .. Len(ts) : Terms(ts[i]) \in Seq(TermSet)
    BY <1>2, TermsFacts
  <1>4. Tokens(q) = [i \in 1 .. Len(ts) |-> Terms(ts[i])]
    BY <1>2 DEF Tokens
  <1> HIDE DEF ts
  <1> QED  BY <1>2, <1>3, <1>4

(* The terms of a query. *)
LEMMA ClauseFacts ==
  ASSUME NEW q \in Texts, NEW c \in Clauses(q)
  PROVE  c \in Seq(TermSet) /\ ToSet(c) \subseteq TermSet
  <1>1. Tokens(q) \in Seq(Seq(TermSet))
    BY TokensFacts
  <1>2. /\ DOMAIN Tokens(q) = 1 .. Len(Tokens(q))
        /\ \A i \in 1 .. Len(Tokens(q)) : Tokens(q)[i] \in Seq(TermSet)
    BY <1>1, LenProperties, ElementOfSeq
  <1>3. c \in Seq(TermSet)
    BY <1>2 DEF Clauses, ToSet
  <1>4. DOMAIN c = 1 .. Len(c) /\ \A i \in 1 .. Len(c) : c[i] \in TermSet
    BY <1>3, LenProperties, ElementOfSeq
  <1> QED  BY <1>3, <1>4 DEF ToSet

(* The patterns of a query are texts. *)
LEMMA PatternFacts ==
  ASSUME NEW q \in Texts, NEW p \in Patterns(q)
  PROVE  p \in Texts
  <1>1. PICK c \in Clauses(q) : \E t \in ToSet(c) : p = t.atom
    BY DEF Patterns
  <1>2. ToSet(c) \subseteq TermSet
    BY <1>1, ClauseFacts
  <1> QED  BY <1>1, <1>2 DEF TermSet

------------------------------------------------------------------------------
(* Wildcards.                                                              *)

(* f gives for each place in the pattern where the text can go on with it. *)
MatchStarts(f, pat, text) ==
  /\ f[Len(pat) + 1] = {Len(text) + 1}
  /\ \A i \in 1 .. Len(pat) :
       f[i] = IF pat[i] = Star
              THEN {j \in 1 .. Len(text) + 1 : \E k \in f[i + 1] : j <= k}
              ELSE {j \in 1 .. Len(text) : j + 1 \in f[i + 1] /\ pat[i] \in {AnyByte, text[j]}}

(* What wildcards stand for is well defined. *)
LEMMA GlobsFacts ==
  ASSUME NEW pat \in Texts, NEW text \in Texts
  PROVE  \E f : MatchStarts(f, pat, text) /\ Globs(pat, text) = (1 \in f[1])
  <1> DEFINE P == Len(pat)
             T == Len(text)
             D == 1 .. P + 1
             V == SUBSET (1 .. T + 1)
             mu == [i \in D |-> P + 1 - i]
             At(f, i) == IF i > P THEN {T + 1}
                         ELSE IF pat[i] = Star
                         THEN {j \in 1 .. T + 1 : \E k \in f[i + 1] : j <= k}
                         ELSE {j \in 1 .. T : j + 1 \in f[i + 1] /\ pat[i] \in {AnyByte, text[j]}}
             G == [f \in [D -> V] |-> [i \in D |-> At(f, i)]]
  <1>1. P \in Nat /\ T \in Nat
    BY TextFacts
  <1>2. \A i \in D : ~(i > P) => i + 1 \in D /\ mu[i + 1] < mu[i]
    BY <1>1
  <1>3. mu \in [D -> Nat] /\ P + 2 \in Nat /\ \A i \in D : mu[i] < P + 2
    BY <1>1
  <1>4. \A f, i : At(f, i) \in V
    BY <1>1
  <1>5. ASSUME NEW f \in [D -> V], NEW g \in [D -> V], NEW i \in D,
               \A r \in D : mu[r] < mu[i] => f[r] = g[r]
        PROVE  At(f, i) = At(g, i)
    <2>1. ~(i > P) => f[i + 1] = g[i + 1]
      BY <1>2, <1>5
    <2> QED  BY <2>1
  <1> HIDE DEF At, mu
  <1>6. Recursive(G, D, V, mu)
    <2>1. G \in [[D -> V] -> [D -> V]]
      BY <1>4
    <2>2. \A f \in [D -> V], i \in D : G[f][i] = At(f, i)
      OBVIOUS
    <2>3. V # {}
      OBVIOUS
    <2> HIDE DEF G, V, D
    <2>4. ASSUME NEW f \in [D -> V], NEW g \in [D -> V], NEW i \in D,
                 \A r \in D : mu[r] < mu[i] => f[r] = g[r]
          PROVE  G[f][i] = G[g][i]
      BY <1>5, <2>2, <2>4
    <2>5. \E N \in Nat : \A i \in D : mu[i] < N
      BY <1>3
    <2> QED  BY <1>3, <2>1, <2>3, <2>4, <2>5 DEF Recursive
  <1>7. PICK g \in [D -> V] : G[g] = g
    BY <1>6, Recursion
  <1>8. g = [i \in D |-> At(g, i)]
    BY <1>7
  <1> DEFINE f == CHOOSE h : h = [i \in D |-> At(h, i)]
  <1>9. f = [i \in D |-> At(f, i)]
    BY <1>8
  <1>10. Globs(pat, text) = (1 \in f[1])
    BY DEF Globs, At
  <1> HIDE DEF f
  <1>11. \A i \in D : f[i] = At(f, i)
    BY <1>9
  <1>12. P + 1 \in D /\ P + 1 > P /\ \A i \in 1 .. P : i \in D /\ ~(i > P)
    BY <1>1
  <1>13. MatchStarts(f, pat, text)
    <2> HIDE DEF D
    <2> QED  BY <1>11, <1>12 DEF At, MatchStarts
  <1> QED  BY <1>10, <1>13

(* All that can follow the end of the text is stars. *)
LEMMA OnlyStarsLeft ==
  ASSUME NEW pat \in Texts, NEW text \in Texts, NEW f, MatchStarts(f, pat, text)
  PROVE  /\ \A i \in 1 .. Len(pat) + 1 : f[i] \subseteq 1 .. Len(text) + 1
         /\ \A p \in 1 .. Len(pat) + 1 :
              Len(text) + 1 \in f[p] <=> \A i \in p .. Len(pat) : pat[i] = Star
  <1> DEFINE P == Len(pat)
             T == Len(text)
             Ends(p) == T + 1 \in f[p] <=> \A i \in p .. P : pat[i] = Star
             U == {n \in Nat : n <= P => Ends(P + 1 - n)}
  <1>1. P \in Nat /\ T \in Nat
    BY TextFacts
  <1>2. /\ f[P + 1] = {T + 1}
        /\ \A i \in 1 .. P :
             f[i] = IF pat[i] = Star
                    THEN {j \in 1 .. T + 1 : \E k \in f[i + 1] : j <= k}
                    ELSE {j \in 1 .. T : j + 1 \in f[i + 1] /\ pat[i] \in {AnyByte, text[j]}}
    BY DEF MatchStarts
  <1> HIDE DEF P, T
  <1>3. \A i \in 1 .. P + 1 : f[i] \subseteq 1 .. T + 1
    <2> SUFFICES ASSUME NEW i \in 1 .. P + 1 PROVE f[i] \subseteq 1 .. T + 1
      OBVIOUS
    <2>1. CASE i = P + 1
      BY <1>1, <1>2, <2>1
    <2>2. CASE i # P + 1
      <3>1. i \in 1 .. P
        BY <1>1, <2>2
      <3>2. \A j \in 1 .. T : j \in 1 .. T + 1
        BY <1>1
      <3>3. f[i] \subseteq 1 .. T + 1
        BY <1>2, <3>1, <3>2
      <3> QED  BY <3>3
    <2> QED  BY <2>1, <2>2
  <1>4. 0 \in U
    <2>1. P + 1 - 0 = P + 1 /\ P + 1 .. P = {}
      BY <1>1
    <2> QED  BY <1>2, <2>1
  <1>5. ASSUME NEW n \in Nat, n \in U
        PROVE  n + 1 \in U
    <2> SUFFICES ASSUME n + 1 <= P PROVE Ends(P + 1 - (n + 1))
      OBVIOUS
    <2> DEFINE p == P - n
    <2>1. p \in 1 .. P /\ P + 1 - (n + 1) = p /\ P + 1 - n = p + 1 /\ n <= P
      BY <1>1
    <2> HIDE DEF p
    <2>2. Ends(p + 1)
      BY <1>5, <2>1
    <2>3. p .. P = {p} \cup (p + 1 .. P) /\ p + 1 \in 1 .. P + 1
      BY <1>1, <2>1
    <2>4. T + 1 \in f[p] <=> pat[p] = Star /\ T + 1 \in f[p + 1]
      <3>1. CASE pat[p] = Star
        <4>1. f[p] = {j \in 1 .. T + 1 : \E k \in f[p + 1] : j <= k}
          BY <1>2, <2>1, <3>1
        <4>2. \A k \in f[p + 1] : k \in Int /\ k <= T + 1
          BY <1>1, <1>3, <2>3
        <4>3. T + 1 \in 1 .. T + 1
          BY <1>1
        <4>4. \A k \in f[p + 1] : T + 1 <= k => k = T + 1
          BY <1>1, <4>2
        <4> QED  BY <1>1, <3>1, <4>1, <4>3, <4>4
      <3>2. CASE pat[p] # Star
        <4>1. T + 1 \notin 1 .. T
          BY <1>1
        <4>2. f[p] \subseteq 1 .. T
          BY <1>2, <2>1, <3>2
        <4> QED  BY <3>2, <4>1, <4>2
      <3> QED  BY <3>1, <3>2
    <2>5. Ends(p)
      BY <2>2, <2>3, <2>4
    <2> QED  BY <2>1, <2>5
  <1>6. \A p \in 1 .. P + 1 : Ends(p)
    <2>1. Nat \subseteq U
      <3> HIDE DEF U
      <3> QED  BY <1>4, <1>5, Induction
    <2> SUFFICES ASSUME NEW p \in 1 .. P + 1 PROVE Ends(p)
      OBVIOUS
    <2>2. P + 1 - p \in Nat /\ P + 1 - p <= P /\ P + 1 - (P + 1 - p) = p
      BY <1>1
    <2> QED  BY <2>1, <2>2
  <1> QED  BY <1>3, <1>6 DEF P, T

(* Where the matcher can be, and what it does there: f gives its result. *)
Points(pat, text) ==
  {s \in [p : 1 .. Len(pat) + 1, t : 1 .. Len(text) + 1,
          star : 0 .. Len(pat), from : 1 .. Len(text) + 1] : s.from <= s.t}

Offsets == [p : Int, t : Int, star : Int, from : Int]

Advanced(s) == [s EXCEPT !.p = @ + 1, !.t = @ + 1]
AtStar(s) == [s EXCEPT !.p = @ + 1, !.star = s.p, !.from = s.t]
Retried(s) == [s EXCEPT !.p = s.star + 1, !.t = s.from + 1, !.from = @ + 1]

Byte(pat, text, s) == s.p <= Len(pat) /\ pat[s.p] \in {AnyByte, text[s.t]}

MatchAt(f, pat, text, s) ==
  IF s.t > Len(text) THEN \A i \in s.p .. Len(pat) : pat[i] = Star
  ELSE IF Byte(pat, text, s) THEN f[Advanced(s)]
  ELSE IF s.p <= Len(pat) /\ pat[s.p] = Star THEN f[AtStar(s)]
  ELSE s.star # 0 /\ f[Retried(s)]

(* Of pairs of numbers, the first below a bound, the order of the second counts. *)
LEMMA PairsInOrder ==
  ASSUME NEW n \in Nat, NEW a \in Nat, NEW b \in Nat, a < b,
         NEW r \in Nat, r < n, NEW s \in Nat
  PROVE  a * n + r < b * n + s
  <1>1. PICK d \in Nat : b = a + 1 + d
    <2>1. b - a - 1 \in Nat /\ b = a + 1 + (b - a - 1)
      OBVIOUS
    <2> QED  BY <2>1
  <1>2. b * n = a * n + n + d * n
    BY <1>1
  <1>3. d * n \in Nat /\ a * n \in Nat
    OBVIOUS
  <1> QED  BY <1>2, <1>3

(* How much the matcher has still to try. *)
Left(pat, text, s) == (Len(text) + 1 - s.from) * (Len(pat) + 1) + (Len(pat) + 1 - s.p)

(* Where the matcher is after a step. *)
LEMMA MoveFacts ==
  ASSUME NEW pat \in Texts, NEW text \in Texts, NEW s \in Points(pat, text)
  PROVE  /\ Advanced(s) \in Offsets /\ Advanced(s).p = s.p + 1 /\ Advanced(s).t = s.t + 1
         /\ Advanced(s).star = s.star /\ Advanced(s).from = s.from
         /\ AtStar(s) \in Offsets /\ AtStar(s).p = s.p + 1 /\ AtStar(s).t = s.t
         /\ AtStar(s).star = s.p /\ AtStar(s).from = s.t
         /\ Retried(s) \in Offsets /\ Retried(s).p = s.star + 1 /\ Retried(s).t = s.from + 1
         /\ Retried(s).star = s.star /\ Retried(s).from = s.from + 1
  <1>1. s \in Offsets
    BY TextFacts DEF Points, Offsets
  <1>2. /\ s.p \in Int /\ s.t \in Int /\ s.p + 1 \in Int /\ s.t + 1 \in Int
        /\ s.star + 1 \in Int /\ s.from + 1 \in Int
    BY <1>1 DEF Offsets
  <1>3. /\ [s EXCEPT !.p = s.p + 1, !.t = s.t + 1] \in Offsets
        /\ [s EXCEPT !.p = s.p + 1, !.star = s.p, !.from = s.t] \in Offsets
        /\ [s EXCEPT !.p = s.star + 1, !.t = s.from + 1, !.from = s.from + 1] \in Offsets
    <2>1. ASSUME NEW x \in Int, NEW y \in Int, NEW z \in Int
          PROVE  /\ [s EXCEPT !.p = x, !.t = y] \in Offsets
                 /\ [s EXCEPT !.p = x, !.star = y, !.from = z] \in Offsets
                 /\ [s EXCEPT !.p = x, !.t = y, !.from = z] \in Offsets
      BY <1>1 DEF Offsets
    <2>2. [s EXCEPT !.p = s.p + 1, !.t = s.t + 1] \in Offsets
      BY <1>2, <2>1
    <2>3. [s EXCEPT !.p = s.p + 1, !.star = s.p, !.from = s.t] \in Offsets
      BY <1>2, <2>1
    <2>4. [s EXCEPT !.p = s.star + 1, !.t = s.from + 1, !.from = s.from + 1] \in Offsets
      BY <1>2, <2>1
    <2> QED  BY <2>2, <2>3, <2>4
  <1>4. /\ Advanced(s) = [s EXCEPT !.p = s.p + 1, !.t = s.t + 1]
        /\ Advanced(s).p = s.p + 1 /\ Advanced(s).t = s.t + 1
        /\ Advanced(s).star = s.star /\ Advanced(s).from = s.from
    BY <1>1 DEF Advanced, Offsets
  <1>5. /\ AtStar(s) = [s EXCEPT !.p = s.p + 1, !.star = s.p, !.from = s.t]
        /\ AtStar(s).p = s.p + 1 /\ AtStar(s).t = s.t
        /\ AtStar(s).star = s.p /\ AtStar(s).from = s.t
    BY <1>1 DEF AtStar, Offsets
  <1>6. /\ Retried(s) = [s EXCEPT !.p = s.star + 1, !.t = s.from + 1, !.from = s.from + 1]
        /\ Retried(s).p = s.star + 1 /\ Retried(s).t = s.from + 1
        /\ Retried(s).star = s.star /\ Retried(s).from = s.from + 1
    BY <1>1 DEF Retried, Offsets
  <1>7. Advanced(s) \in Offsets /\ AtStar(s) \in Offsets /\ Retried(s) \in Offsets
    <2> QED  BY <1>3, <1>4, <1>5, <1>6, Zenon
  <1> QED  BY <1>4, <1>5, <1>6, <1>7

(* Each of its steps leaves less to try. *)
LEMMA StepsLeaveLess ==
  ASSUME NEW pat \in Texts, NEW text \in Texts, NEW s \in Points(pat, text)
  PROVE  /\ Left(pat, text, s) \in Nat
         /\ Left(pat, text, s) < (Len(text) + 1) * (Len(pat) + 1)
         /\ s.t <= Len(text) /\ s.p <= Len(pat) =>
              /\ Advanced(s) \in Points(pat, text) /\ AtStar(s) \in Points(pat, text)
              /\ Left(pat, text, Advanced(s)) < Left(pat, text, s)
              /\ Left(pat, text, AtStar(s)) < Left(pat, text, s)
         /\ s.t <= Len(text) =>
              /\ Retried(s) \in Points(pat, text)
              /\ Left(pat, text, Retried(s)) < Left(pat, text, s)
  <1> DEFINE P == Len(pat)
             T == Len(text)
             n == P + 1
  <1>1. P \in Nat /\ T \in Nat /\ n \in Nat /\ n = P + 1
    BY TextFacts
  <1>2. /\ s.p \in 1 .. P + 1 /\ s.t \in 1 .. T + 1 /\ s.star \in 0 .. P /\ s.from \in 1 .. T + 1
        /\ s.from <= s.t
    BY DEF Points
  <1>3. ASSUME NEW u \in Offsets, u.p \in 1 .. P + 1, u.t \in 1 .. T + 1, u.star \in 0 .. P,
               u.from \in 1 .. T + 1, u.from <= u.t
        PROVE  u \in Points(pat, text)
    BY <1>3 DEF Points, Offsets
  <1>4. /\ Advanced(s) \in Offsets /\ Advanced(s).p = s.p + 1 /\ Advanced(s).t = s.t + 1
        /\ Advanced(s).star = s.star /\ Advanced(s).from = s.from
        /\ AtStar(s) \in Offsets /\ AtStar(s).p = s.p + 1 /\ AtStar(s).t = s.t
        /\ AtStar(s).star = s.p /\ AtStar(s).from = s.t
        /\ Retried(s) \in Offsets /\ Retried(s).p = s.star + 1 /\ Retried(s).t = s.from + 1
        /\ Retried(s).star = s.star /\ Retried(s).from = s.from + 1
    BY MoveFacts
  <1> HIDE DEF P, T, n
  <1> DEFINE a == T + 1 - s.from
             r == P + 1 - s.p
  <1>5. a \in Nat /\ r \in Nat /\ r < n /\ a < T + 1
    BY <1>1, <1>2
  <1>6. Left(pat, text, s) = a * n + r
    BY DEF Left, P, T, n
  <1>7. Left(pat, text, s) \in Nat
    <2> HIDE DEF a, r
    <2> QED  BY <1>1, <1>5, <1>6
  <1>8. Left(pat, text, s) < (T + 1) * n
    <2>1. a * n + r < (T + 1) * n + 0
      BY <1>1, <1>5, PairsInOrder
    <2>2. (T + 1) * n \in Nat
      BY <1>1
    <2> QED  BY <1>6, <2>1, <2>2
  <1>9. ASSUME s.t <= T, s.p <= P
        PROVE  /\ Advanced(s) \in Points(pat, text) /\ AtStar(s) \in Points(pat, text)
               /\ Left(pat, text, Advanced(s)) < Left(pat, text, s)
               /\ Left(pat, text, AtStar(s)) < Left(pat, text, s)
    <2>1. /\ s.p + 1 \in 1 .. P + 1 /\ s.t + 1 \in 1 .. T + 1 /\ s.p \in 0 .. P
          /\ s.from <= s.t + 1 /\ s.t <= s.t
      BY <1>1, <1>2, <1>9
    <2>2. Advanced(s) \in Points(pat, text) /\ AtStar(s) \in Points(pat, text)
      BY <1>2, <1>3, <1>4, <2>1
    <2>3. P + 1 - (s.p + 1) \in Nat /\ P + 1 - (s.p + 1) < r /\ P + 1 - (s.p + 1) < n
      BY <1>1, <1>2, <1>9
    <2>4. Left(pat, text, Advanced(s)) = a * n + (P + 1 - (s.p + 1))
      BY <1>4 DEF Left, P, T, n
    <2>5. Left(pat, text, AtStar(s)) = (T + 1 - s.t) * n + (P + 1 - (s.p + 1))
      BY <1>4 DEF Left, P, T, n
    <2>6. a * n \in Nat
      BY <1>1, <1>5
    <2>7. Left(pat, text, Advanced(s)) < Left(pat, text, s)
      BY <1>5, <1>6, <2>3, <2>4, <2>6
    <2>8. Left(pat, text, AtStar(s)) < Left(pat, text, s)
      <3> DEFINE b == T + 1 - s.t
                 q == P + 1 - (s.p + 1)
      <3>1. q \in Nat /\ q < r /\ q < n /\ Left(pat, text, AtStar(s)) = b * n + q
        BY <2>3, <2>5
      <3>2. b = a \/ (b \in Nat /\ b < a)
        BY <1>1, <1>2, <1>9
      <3>3. /\ a \in Nat /\ r \in Nat /\ r < n /\ Left(pat, text, s) = a * n + r
            /\ a * n \in Nat
        BY <1>5, <1>6, <2>6
      <3> HIDE DEF a, r, b, q
      <3>4. CASE b = a
        BY <3>1, <3>3, <3>4
      <3>5. CASE b \in Nat /\ b < a
        BY <1>1, <3>1, <3>3, <3>5, PairsInOrder
      <3> QED  BY <3>2, <3>4, <3>5
    <2> QED  BY <2>2, <2>7, <2>8
  <1>10. ASSUME s.t <= T
         PROVE  /\ Retried(s) \in Points(pat, text)
                /\ Left(pat, text, Retried(s)) < Left(pat, text, s)
    <2>1. s.star + 1 \in 1 .. P + 1 /\ s.from + 1 \in 1 .. T + 1 /\ s.from + 1 <= s.from + 1
      BY <1>1, <1>2, <1>10
    <2>2. Retried(s) \in Points(pat, text)
      BY <1>2, <1>3, <1>4, <2>1
    <2>3. Left(pat, text, Retried(s)) = (T + 1 - (s.from + 1)) * n + (P + 1 - (s.star + 1))
      BY <1>4 DEF Left, P, T, n
    <2>4. /\ T + 1 - (s.from + 1) \in Nat /\ T + 1 - (s.from + 1) < a
          /\ P + 1 - (s.star + 1) \in Nat /\ P + 1 - (s.star + 1) < n
      BY <1>1, <1>2, <1>10
    <2> QED  BY <1>1, <1>5, <1>6, <2>2, <2>3, <2>4, PairsInOrder
  <1> QED  BY <1>1, <1>7, <1>8, <1>9, <1>10 DEF P, T, n

(* The result of the matcher is well defined. *)
LEMMA MatchFacts ==
  ASSUME NEW pat \in Texts, NEW text \in Texts
  PROVE  \E f : /\ \A s \in Points(pat, text) : f[s] <=> MatchAt(f, pat, text, s)
                /\ WildcardMatch(pat, text) <=> f[[p |-> 1, t |-> 1, star |-> 0, from |-> 1]]
  <1> DEFINE D == Points(pat, text)
             V == BOOLEAN
             mu == [s \in D |-> Left(pat, text, s)]
             At(f, s) == MatchAt(f, pat, text, s)
             G == [f \in [D -> V] |-> [s \in D |-> At(f, s)]]
             N == (Len(text) + 1) * (Len(pat) + 1)
             start == [p |-> 1, t |-> 1, star |-> 0, from |-> 1]
  <1>1. Len(pat) \in Nat /\ Len(text) \in Nat /\ N \in Nat
    <2>1. Len(pat) \in Nat /\ Len(text) \in Nat
      BY TextFacts
    <2> QED  BY <2>1
  <1>2. \A s \in D : mu[s] = Left(pat, text, s) /\ mu[s] \in Nat /\ mu[s] < N
    BY StepsLeaveLess
  <1>3. ASSUME NEW f \in [D -> V], NEW s \in D
        PROVE  At(f, s) \in V
    <2>1. s.t <= Len(text) \/ s.t > Len(text)
      BY <1>1 DEF Points
    <2>2. /\ s.t <= Len(text) /\ s.p <= Len(pat) => Advanced(s) \in D /\ AtStar(s) \in D
          /\ s.t <= Len(text) => Retried(s) \in D
      BY StepsLeaveLess
    <2> HIDE DEF D
    <2>3. CASE s.t > Len(text)
      BY <2>3 DEF MatchAt
    <2>4. CASE s.t <= Len(text) /\ ~(s.t > Len(text))
      <3>1. CASE Byte(pat, text, s)
        BY <2>2, <2>4, <3>1 DEF MatchAt, Byte
      <3>2. CASE ~Byte(pat, text, s) /\ s.p <= Len(pat) /\ pat[s.p] = Star
        BY <2>2, <2>4, <3>2 DEF MatchAt
      <3>3. CASE ~Byte(pat, text, s) /\ ~(s.p <= Len(pat) /\ pat[s.p] = Star)
        BY <2>4, <3>3 DEF MatchAt
      <3> QED  BY <3>1, <3>2, <3>3
    <2>5. CASE s.t <= Len(text) /\ s.t > Len(text)
      BY <2>3, <2>5
    <2> QED  BY <2>1, <2>3, <2>4, <2>5
  <1>4. ASSUME NEW f \in [D -> V], NEW g \in [D -> V], NEW s \in D,
               \A r \in D : mu[r] < mu[s] => f[r] = g[r]
        PROVE  At(f, s) = At(g, s)
    <2>1. /\ s.t <= Len(text) /\ s.p <= Len(pat) => f[Advanced(s)] = g[Advanced(s)]
          /\ s.t <= Len(text) /\ s.p <= Len(pat) => f[AtStar(s)] = g[AtStar(s)]
          /\ s.t <= Len(text) => f[Retried(s)] = g[Retried(s)]
      <3>1. /\ s.t <= Len(text) /\ s.p <= Len(pat) =>
                 /\ Advanced(s) \in D /\ AtStar(s) \in D
                 /\ mu[Advanced(s)] < mu[s] /\ mu[AtStar(s)] < mu[s]
            /\ s.t <= Len(text) => Retried(s) \in D /\ mu[Retried(s)] < mu[s]
        BY StepsLeaveLess
      <3> HIDE DEF D, mu
      <3> QED  BY <1>4, <3>1
    <2>2. s.t <= Len(text) \/ s.t > Len(text)
      BY <1>1 DEF Points
    <2> QED  BY <2>1, <2>2, Zenon DEF MatchAt, Byte
  <1> HIDE DEF At, mu, D, N
  <1>5. Recursive(G, D, V, mu)
    <2>1. G \in [[D -> V] -> [D -> V]]
      BY <1>3
    <2>2. \A f \in [D -> V], s \in D : G[f][s] = At(f, s)
      OBVIOUS
    <2>3. V # {} /\ mu \in [D -> Nat]
      BY <1>2 DEF mu
    <2> HIDE DEF G, V
    <2>4. ASSUME NEW f \in [D -> V], NEW g \in [D -> V], NEW s \in D,
                 \A r \in D : mu[r] < mu[s] => f[r] = g[r]
          PROVE  G[f][s] = G[g][s]
      BY <1>4, <2>2, <2>4
    <2>5. \E K \in Nat : \A s \in D : mu[s] < K
      BY <1>1, <1>2
    <2> QED  BY <2>1, <2>3, <2>4, <2>5 DEF Recursive
  <1>6. PICK g \in [D -> V] : G[g] = g
    BY <1>5, Recursion
  <1>7. g = [s \in D |-> At(g, s)]
    BY <1>6
  <1> DEFINE f == CHOOSE h : h = [s \in D |-> At(h, s)]
  <1>8. f = [s \in D |-> At(f, s)]
    BY <1>7
  <1>9. WildcardMatch(pat, text) = f[start]
    BY DEF WildcardMatch, At, MatchAt, Byte, Advanced, AtStar, Retried, D, Points
  <1> HIDE DEF f
  <1>10. \A s \in D : f[s] = At(f, s)
    BY <1>8
  <1> QED  BY <1>9, <1>10 DEF D, At

(* What the matcher's star and from keep of the text: the bytes between the star *)
(* and p are those between from and t; and what its result is to be.             *)
Resumes(g, text, s) ==
  s.star # 0 =>
    /\ s.from \in g[s.star + 1] <=> s.t \in g[s.p]
    /\ \A j \in s.from .. Len(text) + 1 :
         j \in g[s.star + 1] => j + (s.t - s.from) \in g[s.p]

CanMatch(g, text, s) ==
  IF s.star = 0 THEN s.t \in g[s.p]
  ELSE \E j \in s.from .. Len(text) + 1 : j \in g[s.star + 1]

(* At the end of the text only stars can be left. *)
LEMMA MatchAtEnd ==
  ASSUME NEW pat \in Texts, NEW text \in Texts, NEW g, MatchStarts(g, pat, text),
         NEW s \in Points(pat, text), Resumes(g, text, s), s.t > Len(text)
  PROVE  (\A i \in s.p .. Len(pat) : pat[i] = Star) <=> CanMatch(g, text, s)
  <1> DEFINE P == Len(pat)
             T == Len(text)
  <1>1. P \in Nat /\ T \in Nat
    BY TextFacts
  <1>2. /\ s.p \in 1 .. P + 1 /\ s.t \in 1 .. T + 1 /\ s.star \in 0 .. P /\ s.from \in 1 .. T + 1
        /\ s.from <= s.t
    BY DEF Points
  <1>3. s.t = T + 1
    BY <1>1, <1>2
  <1>4. /\ \A i \in 1 .. P + 1 : g[i] \subseteq 1 .. T + 1
        /\ T + 1 \in g[s.p] <=> \A i \in s.p .. P : pat[i] = Star
    <2>1. /\ \A i \in 1 .. P + 1 : g[i] \subseteq 1 .. T + 1
          /\ \A p \in 1 .. P + 1 : T + 1 \in g[p] <=> \A i \in p .. P : pat[i] = Star
      BY OnlyStarsLeft
    <2> HIDE DEF P, T
    <2> QED  BY <1>2, <2>1
  <1> HIDE DEF P, T
  <1>5. CASE s.star = 0
    BY <1>3, <1>4, <1>5 DEF CanMatch, P, T
  <1>6. CASE s.star # 0
    <2>1. /\ s.from \in g[s.star + 1] <=> s.t \in g[s.p]
          /\ \A j \in s.from .. T + 1 : j \in g[s.star + 1] => j + (s.t - s.from) \in g[s.p]
          /\ CanMatch(g, text, s) <=> \E j \in s.from .. T + 1 : j \in g[s.star + 1]
      BY <1>6 DEF Resumes, CanMatch, T
    <2>2. ASSUME NEW j \in s.from .. T + 1, j \in g[s.star + 1]
          PROVE  T + 1 \in g[s.p]
      <3>1. j + (s.t - s.from) \in g[s.p] /\ g[s.p] \subseteq 1 .. T + 1
        BY <1>2, <1>4, <2>1, <2>2
      <3>2. j + (s.t - s.from) <= T + 1
        BY <3>1
      <3>3. j + (s.t - s.from) = T + 1
        BY <1>1, <1>2, <1>3, <3>2
      <3> QED  BY <3>1, <3>3
    <2>3. s.from \in s.from .. T + 1
      BY <1>1, <1>2
    <2> QED  BY <1>3, <1>4, <2>1, <2>2, <2>3 DEF P
  <1> QED  BY <1>5, <1>6

(* A byte that is matched: the rest is to match the rest. *)
LEMMA MatchByte ==
  ASSUME NEW pat \in Texts, NEW text \in Texts, NEW g, MatchStarts(g, pat, text),
         NEW s \in Points(pat, text), Resumes(g, text, s), s.t <= Len(text),
         Byte(pat, text, s), pat[s.p] # Star
  PROVE  /\ Resumes(g, text, Advanced(s))
         /\ CanMatch(g, text, Advanced(s)) <=> CanMatch(g, text, s)
  <1> DEFINE P == Len(pat)
             T == Len(text)
  <1>1. P \in Nat /\ T \in Nat
    BY TextFacts
  <1>2. /\ s.p \in 1 .. P + 1 /\ s.t \in 1 .. T + 1 /\ s.star \in 0 .. P /\ s.from \in 1 .. T + 1
        /\ s.from <= s.t
    BY DEF Points
  <1>3. /\ Advanced(s).p = s.p + 1 /\ Advanced(s).t = s.t + 1
        /\ Advanced(s).star = s.star /\ Advanced(s).from = s.from
    BY MoveFacts
  <1>4. s.p \in 1 .. P /\ s.t \in 1 .. T /\ pat[s.p] \in {AnyByte, text[s.t]}
    BY <1>1, <1>2 DEF Byte
  <1>5. g[s.p] = {j \in 1 .. T : j + 1 \in g[s.p + 1] /\ pat[s.p] \in {AnyByte, text[j]}}
    BY <1>4 DEF MatchStarts
  <1>6. s.t \in g[s.p] <=> s.t + 1 \in g[s.p + 1]
    BY <1>4, <1>5
  <1> HIDE DEF P, T
  <1>7. Resumes(g, text, Advanced(s))
    <2> SUFFICES ASSUME s.star # 0
                 PROVE  /\ s.from \in g[s.star + 1] <=> s.t + 1 \in g[s.p + 1]
                        /\ \A j \in s.from .. T + 1 : j \in g[s.star + 1] =>
                             j + (s.t + 1 - s.from) \in g[s.p + 1]
      <3> DEFINE u == Advanced(s)
      <3>1. u.p = s.p + 1 /\ u.t = s.t + 1 /\ u.star = s.star /\ u.from = s.from
        BY <1>3
      <3> HIDE DEF u
      <3>2. u.star # 0 => /\ u.from \in g[u.star + 1] <=> u.t \in g[u.p]
                          /\ \A j \in u.from .. T + 1 :
                               j \in g[u.star + 1] => j + (u.t - u.from) \in g[u.p]
        <4>1. u.t - u.from = s.t + 1 - s.from
          BY <1>1, <1>2, <3>1
        <4> QED  BY <3>1, <4>1
      <3>3. Resumes(g, text, u)
        BY <3>2 DEF Resumes, T
      <3> QED  BY <3>3 DEF u
    <2>1. /\ s.from \in g[s.star + 1] <=> s.t \in g[s.p]
          /\ \A j \in s.from .. T + 1 : j \in g[s.star + 1] => j + (s.t - s.from) \in g[s.p]
      BY DEF Resumes, T
    <2>2. ASSUME NEW j \in s.from .. T + 1, j \in g[s.star + 1]
          PROVE  j + (s.t + 1 - s.from) \in g[s.p + 1]
      <3>1. (j + (s.t - s.from)) + 1 \in g[s.p + 1]
        BY <1>5, <2>1, <2>2
      <3>2. (j + (s.t - s.from)) + 1 = j + (s.t + 1 - s.from)
        BY <1>1, <1>2
      <3> QED  BY <3>1, <3>2
    <2> QED  BY <1>6, <2>1, <2>2
  <1> QED  BY <1>3, <1>6, <1>7 DEF CanMatch

(* A star: what follows it is to match from some place on. *)
LEMMA MatchStar ==
  ASSUME NEW pat \in Texts, NEW text \in Texts, NEW g, MatchStarts(g, pat, text),
         NEW s \in Points(pat, text), Resumes(g, text, s), s.t <= Len(text),
         s.p <= Len(pat), pat[s.p] = Star
  PROVE  /\ Resumes(g, text, AtStar(s))
         /\ CanMatch(g, text, AtStar(s)) <=> CanMatch(g, text, s)
  <1> DEFINE P == Len(pat)
             T == Len(text)
  <1>1. P \in Nat /\ T \in Nat
    BY TextFacts
  <1>2. /\ s.p \in 1 .. P + 1 /\ s.t \in 1 .. T + 1 /\ s.star \in 0 .. P /\ s.from \in 1 .. T + 1
        /\ s.from <= s.t
    BY DEF Points
  <1>3. AtStar(s).p = s.p + 1 /\ AtStar(s).t = s.t /\ AtStar(s).star = s.p /\ AtStar(s).from = s.t
    BY MoveFacts
  <1>4. s.p \in 1 .. P /\ s.p # 0
    BY <1>1, <1>2
  <1>5. /\ g[s.p] = {j \in 1 .. T + 1 : \E k \in g[s.p + 1] : j <= k}
        /\ g[s.p + 1] \subseteq 1 .. T + 1
    <2>1. s.p + 1 \in 1 .. P + 1
      BY <1>1, <1>4
    <2>2. g[s.p + 1] \subseteq 1 .. T + 1
      BY <2>1, OnlyStarsLeft
    <2>3. g[s.p] = {j \in 1 .. T + 1 : \E k \in g[s.p + 1] : j <= k}
      BY <1>4 DEF MatchStarts
    <2> QED  BY <2>2, <2>3
  <1> HIDE DEF P, T
  <1>6. Resumes(g, text, AtStar(s))
    <2>1. \A j \in s.t .. T + 1 : j + (s.t - s.t) = j
      BY <1>1, <1>2
    <2> QED  BY <1>3, <2>1 DEF Resumes, T
  <1>7. CanMatch(g, text, AtStar(s)) <=> \E j \in s.t .. T + 1 : j \in g[s.p + 1]
    BY <1>3, <1>4 DEF CanMatch, T
  <1>8. (\E j \in s.t .. T + 1 : j \in g[s.p + 1]) <=> s.t \in g[s.p]
    BY <1>1, <1>2, <1>5
  <1>9. CASE s.star = 0
    BY <1>6, <1>7, <1>8, <1>9 DEF CanMatch
  <1>10. CASE s.star # 0
    <2>1. /\ s.from \in g[s.star + 1] <=> s.t \in g[s.p]
          /\ \A j \in s.from .. T + 1 : j \in g[s.star + 1] => j + (s.t - s.from) \in g[s.p]
          /\ CanMatch(g, text, s) <=> \E j \in s.from .. T + 1 : j \in g[s.star + 1]
      BY <1>10 DEF Resumes, CanMatch, T
    <2>2. ASSUME NEW j \in s.from .. T + 1, j \in g[s.star + 1]
          PROVE  \E k \in s.t .. T + 1 : k \in g[s.p + 1]
      <3>1. PICK k \in g[s.p + 1] : j + (s.t - s.from) <= k
        BY <1>5, <2>1, <2>2
      <3>2. k \in s.t .. T + 1
        BY <1>1, <1>2, <1>5, <3>1
      <3> QED  BY <3>2
    <2>3. s.from \in s.from .. T + 1
      BY <1>1, <1>2
    <2> QED  BY <1>6, <1>7, <1>8, <2>1, <2>2, <2>3
  <1> QED  BY <1>9, <1>10

(* Neither: the text cannot match from here, nor from where the last star was *)
(* left; so it is left one byte later.                                        *)
LEMMA MatchRetry ==
  ASSUME NEW pat \in Texts, NEW text \in Texts, NEW g, MatchStarts(g, pat, text),
         NEW s \in Points(pat, text), Resumes(g, text, s), s.t <= Len(text),
         ~Byte(pat, text, s), ~(s.p <= Len(pat) /\ pat[s.p] = Star)
  PROVE  /\ s.star = 0 => ~CanMatch(g, text, s)
         /\ s.star # 0 => /\ Resumes(g, text, Retried(s))
                          /\ CanMatch(g, text, Retried(s)) <=> CanMatch(g, text, s)
  <1> DEFINE P == Len(pat)
             T == Len(text)
  <1>1. P \in Nat /\ T \in Nat
    BY TextFacts
  <1>2. /\ s.p \in 1 .. P + 1 /\ s.t \in 1 .. T + 1 /\ s.star \in 0 .. P /\ s.from \in 1 .. T + 1
        /\ s.from <= s.t
    BY DEF Points
  <1>3. /\ Retried(s).p = s.star + 1 /\ Retried(s).t = s.from + 1
        /\ Retried(s).star = s.star /\ Retried(s).from = s.from + 1
    BY MoveFacts
  <1>4. s.t \notin g[s.p]
    <2>1. CASE s.p = P + 1
      <3>1. g[s.p] = {T + 1} /\ s.t # T + 1
        BY <1>1, <1>2, <2>1 DEF MatchStarts
      <3> QED  BY <3>1
    <2>2. CASE s.p # P + 1
      <3>1. s.p \in 1 .. P /\ s.p <= P
        BY <1>1, <1>2, <2>2
      <3>2. g[s.p] = {j \in 1 .. T : j + 1 \in g[s.p + 1] /\ pat[s.p] \in {AnyByte, text[j]}}
        BY <3>1 DEF MatchStarts
      <3> QED  BY <3>1, <3>2 DEF Byte
    <2> QED  BY <2>1, <2>2
  <1> HIDE DEF P, T
  <1>5. CASE s.star = 0
    BY <1>4, <1>5 DEF CanMatch
  <1>6. CASE s.star # 0
    <2>1. s.from \notin g[s.star + 1]
      BY <1>4, <1>6 DEF Resumes
    <2>2. Resumes(g, text, Retried(s))
      <3>1. \A j \in s.from + 1 .. T + 1 : j + ((s.from + 1) - (s.from + 1)) = j
        BY <1>1, <1>2
      <3> QED  BY <1>3, <3>1 DEF Resumes, T
    <2>3. /\ CanMatch(g, text, s) <=> \E j \in s.from .. T + 1 : j \in g[s.star + 1]
          /\ CanMatch(g, text, Retried(s)) <=> \E j \in s.from + 1 .. T + 1 : j \in g[s.star + 1]
      BY <1>3, <1>6 DEF CanMatch, T
    <2>4. s.from .. T + 1 = {s.from} \cup (s.from + 1 .. T + 1)
      BY <1>1, <1>2
    <2> QED  BY <1>6, <2>1, <2>2, <2>3, <2>4
  <1> QED  BY <1>5, <1>6

(* The matcher finds what wildcards stand for, in a text that has no star of its *)
(* own (wildcard_match; a byte of the pattern is compared with the text before   *)
(* it is taken for a star): no name has one on the systems the program runs on.  *)
THEOREM WildcardMatchIsRight ==
  ASSUME NEW pat \in Texts, NEW text \in Texts, Star \notin ToSet(text)
  PROVE  WildcardMatch(pat, text) <=> Globs(pat, text)
  <1> DEFINE D == Points(pat, text)
             start == [p |-> 1, t |-> 1, star |-> 0, from |-> 1]
  <1>1. PICK g : MatchStarts(g, pat, text) /\ Globs(pat, text) = (1 \in g[1])
    BY GlobsFacts
  <1>2. PICK f : /\ \A s \in D : f[s] <=> MatchAt(f, pat, text, s)
                 /\ WildcardMatch(pat, text) <=> f[start]
    BY MatchFacts
  <1>3. /\ Len(pat) \in Nat /\ Len(text) \in Nat
        /\ ToSet(text) = {text[i] : i \in 1 .. Len(text)}
    BY TextFacts
  <1>4. start \in D /\ Resumes(g, text, start) /\ (CanMatch(g, text, start) <=> 1 \in g[1])
    BY <1>3 DEF Points, Resumes, CanMatch
  <1> DEFINE Right(s) == Resumes(g, text, s) => (f[s] <=> CanMatch(g, text, s))
             U == {n \in Nat : \A s \in D : Left(pat, text, s) < n => Right(s)}
  <1>5. \A s \in D : Left(pat, text, s) \in Nat
    BY StepsLeaveLess
  <1> HIDE DEF D
  <1>6. 0 \in U
    BY <1>5
  <1>7. ASSUME NEW n \in Nat, n \in U
        PROVE  n + 1 \in U
    <2> SUFFICES ASSUME NEW s \in D, Left(pat, text, s) < n + 1, Resumes(g, text, s)
                 PROVE  f[s] <=> CanMatch(g, text, s)
      OBVIOUS
    <2>1. s \in Points(pat, text) /\ (f[s] <=> MatchAt(f, pat, text, s))
      BY <1>2 DEF D
    <2>2. ASSUME NEW r \in D, Left(pat, text, r) < Left(pat, text, s), Resumes(g, text, r)
          PROVE  f[r] <=> CanMatch(g, text, r)
      <3>1. Left(pat, text, r) < n
        BY <1>5, <2>2
      <3> QED  BY <1>7, <2>2, <3>1
    <2>3. /\ s.t <= Len(text) /\ s.p <= Len(pat) =>
               /\ Advanced(s) \in D /\ AtStar(s) \in D
               /\ Left(pat, text, Advanced(s)) < Left(pat, text, s)
               /\ Left(pat, text, AtStar(s)) < Left(pat, text, s)
          /\ s.t <= Len(text) =>
               Retried(s) \in D /\ Left(pat, text, Retried(s)) < Left(pat, text, s)
      BY <2>1, StepsLeaveLess DEF D
    <2>4. s.t \in 1 .. Len(text) + 1 /\ s.p \in 1 .. Len(pat) + 1
      BY <2>1 DEF Points
    <2>5. CASE s.t > Len(text)
      BY <1>1, <2>1, <2>5, MatchAtEnd DEF MatchAt
    <2>6. CASE s.t <= Len(text)
      <3>0. ~(s.t > Len(text))
        BY <1>3, <2>4, <2>6
      <3>1. CASE Byte(pat, text, s)
        <4>1. s.p <= Len(pat) /\ pat[s.p] # Star
          <5>1. s.t \in 1 .. Len(text)
            BY <1>3, <2>4, <2>6
          <5>2. text[s.t] # Star
            BY <1>3, <5>1
          <5> QED  BY <3>1, <5>2 DEF Byte, AnyByte, Star
        <4>2. /\ Resumes(g, text, Advanced(s))
              /\ CanMatch(g, text, Advanced(s)) <=> CanMatch(g, text, s)
          BY <1>1, <2>1, <2>6, <3>1, <4>1, MatchByte
        <4>3. f[Advanced(s)] <=> CanMatch(g, text, Advanced(s))
          BY <2>2, <2>3, <2>6, <4>1, <4>2
        <4>4. f[s] <=> f[Advanced(s)]
          BY <2>1, <3>0, <3>1 DEF MatchAt
        <4> QED  BY <4>2, <4>3, <4>4
      <3>2. CASE ~Byte(pat, text, s) /\ s.p <= Len(pat) /\ pat[s.p] = Star
        <4>1. /\ Resumes(g, text, AtStar(s))
              /\ CanMatch(g, text, AtStar(s)) <=> CanMatch(g, text, s)
          BY <1>1, <2>1, <2>6, <3>2, MatchStar
        <4>2. f[AtStar(s)] <=> CanMatch(g, text, AtStar(s))
          BY <2>2, <2>3, <2>6, <3>2, <4>1
        <4>3. f[s] <=> f[AtStar(s)]
          BY <2>1, <3>0, <3>2 DEF MatchAt
        <4> QED  BY <4>1, <4>2, <4>3
      <3>3. CASE ~Byte(pat, text, s) /\ ~(s.p <= Len(pat) /\ pat[s.p] = Star)
        <4>1. /\ s.star = 0 => ~CanMatch(g, text, s)
              /\ s.star # 0 => /\ Resumes(g, text, Retried(s))
                               /\ CanMatch(g, text, Retried(s)) <=> CanMatch(g, text, s)
          BY <1>1, <2>1, <2>6, <3>3, MatchRetry
        <4>2. f[s] <=> s.star # 0 /\ f[Retried(s)]
          BY <2>1, <3>0, <3>3 DEF MatchAt
        <4>3. s.star # 0 => (f[Retried(s)] <=> CanMatch(g, text, Retried(s)))
          BY <2>2, <2>3, <2>6, <4>1
        <4> QED  BY <4>1, <4>2, <4>3
      <3> QED  BY <3>1, <3>2, <3>3
    <2> QED  BY <1>3, <2>4, <2>5, <2>6
  <1>8. Nat \subseteq U
    <2> HIDE DEF U
    <2> QED  BY <1>6, <1>7, Induction
  <1>9. Right(start)
    <2>1. Left(pat, text, start) + 1 \in Nat /\ Left(pat, text, start) < Left(pat, text, start) + 1
      BY <1>4, <1>5
    <2> HIDE DEF Right
    <2> QED  BY <1>4, <1>8, <2>1
  <1> QED  BY <1>1, <1>2, <1>4, <1>9

------------------------------------------------------------------------------
(* Orders.                                                                 *)

(* What x says of a and b and y of b and c is what z says of a and c. *)
Composes(x, y, z) ==
  /\ x <= 0 /\ y <= 0 => z <= 0 /\ (x < 0 \/ y < 0 => z < 0)
  /\ x >= 0 /\ y >= 0 => z >= 0 /\ (x > 0 \/ y > 0 => z > 0)

(* A difference is an order, ... *)
LEMMA DifferencesCompose ==
  ASSUME NEW x \in Int, NEW y \in Int, NEW z \in Int
  PROVE  Composes(x - y, y - z, x - z)
  BY DEF Composes

(* ... so is one order after another, ... *)
LEMMA ThenComposes ==
  ASSUME NEW x \in Int, NEW y \in Int, NEW z \in Int, Composes(x, y, z),
         NEW u \in Int, NEW v \in Int, NEW w \in Int,
         x = 0 /\ y = 0 => Composes(u, v, w)
  PROVE  Then(x, u) \in Int /\ Composes(Then(x, u), Then(y, v), Then(z, w))
  BY DEF Composes, Then

(* ... and the same the other way round. *)
LEMMA ReversedComposes ==
  ASSUME NEW x \in Int, NEW y \in Int, NEW z \in Int, Composes(x, y, z)
  PROVE  Composes(-x, -y, -z)
  BY DEF Composes

(* Two texts differ first in byte k, where one may be at its end. *)
Padded(s, k) == IF k <= Len(s) THEN s[k] ELSE -1

FirstDiffer(a, b, k) ==
  /\ Padded(a, k) # Padded(b, k)
  /\ \A m \in Nat \ {0} : m < k => Padded(a, m) = Padded(b, m)

(* There the bytes of two texts decide. *)
LEMMA ByteCmpFacts ==
  ASSUME NEW a \in Texts, NEW b \in Texts
  PROVE  /\ ByteCmp(a, b) \in Int
         /\ a = b => ByteCmp(a, b) = 0
         /\ a # b => \E k \in Nat \ {0} :
              /\ FirstDiffer(a, b, k)
              /\ ByteCmp(a, b) < 0 <=> Padded(a, k) < Padded(b, k)
              /\ ByteCmp(a, b) > 0 <=> Padded(a, k) > Padded(b, k)
  <1> DEFINE differ == {k \in DOMAIN a \cap DOMAIN b : a[k] # b[k]}
             first == CHOOSE k \in differ : \A m \in differ : k <= m
             La == Len(a)
             Lb == Len(b)
  <1>1. /\ La \in Nat /\ DOMAIN a = 1 .. La /\ \A i \in 1 .. La : a[i] \in Nat
        /\ Lb \in Nat /\ DOMAIN b = 1 .. Lb /\ \A i \in 1 .. Lb : b[i] \in Nat
    BY TextFacts
  <1>0. La = Lb \/ La < Lb \/ Lb < La
    <2>1. La \in Nat /\ Lb \in Nat
      BY <1>1
    <2> QED  BY <2>1
  <1>2. ByteCmp(a, b) = IF differ = {} THEN La - Lb ELSE a[first] - b[first]
    BY DEF ByteCmp
  <1>3. \A s, m : Padded(s, m) = IF m <= Len(s) THEN s[m] ELSE -1
    BY DEF Padded
  <1>4. CASE differ = {}
    <2>1. \A m \in 1 .. La : m <= Lb => a[m] = b[m]
      BY <1>1, <1>4
    <2>2. CASE La = Lb
      <3>1. a = b
        BY <1>1, <2>1, <2>2, SeqEqual DEF Texts
      <3> QED  BY <1>1, <1>2, <1>4, <2>2, <3>1
    <2>3. CASE La < Lb
      <3>1. La + 1 \in Nat \ {0} /\ La + 1 \in 1 .. Lb /\ ~(La + 1 <= La) /\ La + 1 <= Lb
        BY <1>1, <2>3
      <3>2. b[La + 1] \in Nat /\ Padded(a, La + 1) = -1 /\ Padded(b, La + 1) = b[La + 1]
        BY <1>1, <1>3, <3>1
      <3>3. \A m \in Nat \ {0} : m < La + 1 => Padded(a, m) = Padded(b, m)
        BY <1>1, <1>3, <2>1, <2>3
      <3>4. FirstDiffer(a, b, La + 1)
        BY <3>2, <3>3 DEF FirstDiffer
      <3>5. ByteCmp(a, b) < 0 /\ ~(ByteCmp(a, b) > 0) /\ ByteCmp(a, b) \in Int
        BY <1>1, <1>2, <1>4, <2>3
      <3>6. Padded(a, La + 1) < Padded(b, La + 1) /\ ~(Padded(a, La + 1) > Padded(b, La + 1))
        BY <3>2
      <3>7. a # b
        BY <2>3, <1>1
      <3> QED  BY <3>1, <3>4, <3>5, <3>6, <3>7
    <2>4. CASE Lb < La
      <3>1. Lb + 1 \in Nat \ {0} /\ Lb + 1 \in 1 .. La /\ ~(Lb + 1 <= Lb) /\ Lb + 1 <= La
        BY <1>1, <2>4
      <3>2. a[Lb + 1] \in Nat /\ Padded(b, Lb + 1) = -1 /\ Padded(a, Lb + 1) = a[Lb + 1]
        BY <1>1, <1>3, <3>1
      <3>3. \A m \in Nat \ {0} : m < Lb + 1 => Padded(a, m) = Padded(b, m)
        BY <1>1, <1>3, <2>1, <2>4
      <3>4. FirstDiffer(a, b, Lb + 1)
        BY <3>2, <3>3 DEF FirstDiffer
      <3>5. ByteCmp(a, b) > 0 /\ ~(ByteCmp(a, b) < 0) /\ ByteCmp(a, b) \in Int
        BY <1>1, <1>2, <1>4, <2>4
      <3>6. Padded(a, Lb + 1) > Padded(b, Lb + 1) /\ ~(Padded(a, Lb + 1) < Padded(b, Lb + 1))
        BY <3>2
      <3>7. a # b
        BY <2>4, <1>1
      <3> QED  BY <3>1, <3>4, <3>5, <3>6, <3>7
    <2> QED  BY <1>0, <2>2, <2>3, <2>4
  <1>5. CASE differ # {}
    <2>1. differ \subseteq Nat
      BY <1>1
    <2>2. first \in differ /\ \A m \in differ : first <= m
      <3> HIDE DEF differ
      <3>1. \E k \in differ : \A m \in differ : k <= m
        BY <1>5, <2>1, Least
      <3> QED  BY <3>1
    <2> HIDE DEF first
    <2>3. first \in 1 .. La /\ first \in 1 .. Lb /\ first \in Nat \ {0} /\ a[first] # b[first]
          /\ first <= La /\ first <= Lb
      BY <1>1, <2>2
    <2>4. Padded(a, first) = a[first] /\ Padded(b, first) = b[first]
          /\ a[first] \in Nat /\ b[first] \in Nat
      BY <1>1, <1>3, <2>3
    <2>5. \A m \in Nat \ {0} : m < first => Padded(a, m) = Padded(b, m)
      <3> SUFFICES ASSUME NEW m \in Nat \ {0}, m < first
                   PROVE  Padded(a, m) = Padded(b, m)
        OBVIOUS
      <3>1. m \in 1 .. La /\ m \in 1 .. Lb /\ m <= La /\ m <= Lb
        BY <1>1, <2>3
      <3>2. m \notin differ
        BY <2>2, <2>3
      <3>3. a[m] = b[m]
        BY <1>1, <3>1, <3>2
      <3> QED  BY <1>3, <3>1, <3>3
    <2>6. FirstDiffer(a, b, first)
      BY <2>3, <2>4, <2>5 DEF FirstDiffer
    <2>7. ByteCmp(a, b) = a[first] - b[first]
      BY <1>2, <1>5
    <2>8. a # b
      BY <2>3
    <2> QED  BY <2>3, <2>4, <2>6, <2>7, <2>8
  <1> QED  BY <1>4, <1>5

(* What is left of a text is a number. *)
LEMMA PaddedFacts ==
  ASSUME NEW s \in Texts, NEW k \in Nat \ {0}
  PROVE  Padded(s, k) \in Int
  <1>1. Len(s) \in Nat /\ \A i \in 1 .. Len(s) : s[i] \in Nat
    BY TextFacts
  <1>2. k <= Len(s) => k \in 1 .. Len(s)
    BY <1>1
  <1> QED  BY <1>1, <1>2 DEF Padded

(* Texts are ordered by their bytes. *)
LEMMA ByteCmpComposes ==
  ASSUME NEW a \in Texts, NEW b \in Texts, NEW c \in Texts
  PROVE  Composes(ByteCmp(a, b), ByteCmp(b, c), ByteCmp(a, c))
  <1> DEFINE x == ByteCmp(a, b)
             y == ByteCmp(b, c)
             z == ByteCmp(a, c)
  <1>1. x \in Int /\ y \in Int /\ z \in Int
    BY ByteCmpFacts
  <1>2. CASE a = b
    <2>1. x = 0 /\ y = z
      BY <1>2, ByteCmpFacts
    <2> HIDE DEF x, y, z
    <2> QED  BY <1>1, <2>1 DEF Composes, x, y, z
  <1>3. CASE b = c
    <2>1. y = 0 /\ x = z
      BY <1>3, ByteCmpFacts
    <2> HIDE DEF x, y, z
    <2> QED  BY <1>1, <2>1 DEF Composes, x, y, z
  <1>4. CASE a # b /\ b # c
    <2>1. PICK k \in Nat \ {0} : /\ FirstDiffer(a, b, k)
                                 /\ x < 0 <=> Padded(a, k) < Padded(b, k)
                                 /\ x > 0 <=> Padded(a, k) > Padded(b, k)
      BY <1>4, ByteCmpFacts
    <2>2. PICK m \in Nat \ {0} : /\ FirstDiffer(b, c, m)
                                 /\ y < 0 <=> Padded(b, m) < Padded(c, m)
                                 /\ y > 0 <=> Padded(b, m) > Padded(c, m)
      BY <1>4, ByteCmpFacts
    <2>3. \A i \in Nat \ {0} : Padded(a, i) \in Int /\ Padded(b, i) \in Int /\ Padded(c, i) \in Int
      BY PaddedFacts
    <2>4. x # 0 /\ y # 0
      BY <1>1, <2>1, <2>2, <2>3 DEF FirstDiffer
    <2>5. CASE x < 0 /\ y < 0
      <3> DEFINE n == IF k < m THEN k ELSE m
      <3>1. n \in Nat \ {0} /\ n <= k /\ n <= m /\ (n = k \/ n = m)
        OBVIOUS
      <3>2. Padded(a, n) < Padded(c, n)
        BY <2>1, <2>2, <2>3, <2>5 DEF FirstDiffer
      <3>3. \A i \in Nat \ {0} : i < n => Padded(a, i) = Padded(c, i)
        BY <2>1, <2>2 DEF FirstDiffer
      <3>4. a # c
        BY <2>3, <3>1, <3>2
      <3>5. PICK j \in Nat \ {0} : FirstDiffer(a, c, j) /\ (z < 0 <=> Padded(a, j) < Padded(c, j))
        BY <3>4, ByteCmpFacts
      <3> HIDE DEF n
      <3>6. Padded(a, n) # Padded(c, n)
        BY <2>3, <3>1, <3>2
      <3>7. j = n
        BY <3>1, <3>3, <3>5, <3>6 DEF FirstDiffer
      <3>8. z < 0
        BY <3>2, <3>5, <3>7
      <3> HIDE DEF x, y, z
      <3> QED  BY <1>1, <2>5, <3>8 DEF Composes, x, y, z
    <2>6. CASE x > 0 /\ y > 0
      <3> DEFINE n == IF k < m THEN k ELSE m
      <3>1. n \in Nat \ {0} /\ n <= k /\ n <= m /\ (n = k \/ n = m)
        OBVIOUS
      <3>2. Padded(a, n) > Padded(c, n)
        BY <2>1, <2>2, <2>3, <2>6 DEF FirstDiffer
      <3>3. \A i \in Nat \ {0} : i < n => Padded(a, i) = Padded(c, i)
        BY <2>1, <2>2 DEF FirstDiffer
      <3>4. a # c
        BY <2>3, <3>1, <3>2
      <3>5. PICK j \in Nat \ {0} : FirstDiffer(a, c, j) /\ (z > 0 <=> Padded(a, j) > Padded(c, j))
        BY <3>4, ByteCmpFacts
      <3> HIDE DEF n
      <3>6. Padded(a, n) # Padded(c, n)
        BY <2>3, <3>1, <3>2
      <3>7. j = n
        BY <3>1, <3>3, <3>5, <3>6 DEF FirstDiffer
      <3>8. z > 0
        BY <3>2, <3>5, <3>7
      <3> HIDE DEF x, y, z
      <3> QED  BY <1>1, <2>6, <3>8 DEF Composes, x, y, z
    <2>7. CASE (x < 0 /\ y > 0) \/ (x > 0 /\ y < 0)
      <3> HIDE DEF x, y, z
      <3> QED  BY <1>1, <2>7 DEF Composes, x, y, z
    <2>8. \/ x < 0 /\ y < 0
          \/ x > 0 /\ y > 0
          \/ (x < 0 /\ y > 0) \/ (x > 0 /\ y < 0)
      <3> HIDE DEF x, y
      <3> QED  BY <1>1, <2>4
    <2> QED  BY <2>5, <2>6, <2>7, <2>8
  <1> QED  BY <1>2, <1>3, <1>4

(* The number of bytes from i on that a property, given as a set of places, holds of *)
(* without a gap.                                                                    *)
LEMMA RunFacts ==
  ASSUME NEW L \in Nat, NEW i \in 1 .. L, NEW S \in SUBSET (i .. L)
  PROVE  Cardinality(S) \in 0 .. L + 1 - i /\ (S # {} => Cardinality(S) >= 1)
  <1>1. IsFiniteSet(i .. L) /\ Cardinality(i .. L) = L - i + 1
    BY FS_Interval
  <1>2. IsFiniteSet(S) /\ Cardinality(S) <= L - i + 1
    BY <1>1, FS_Subset
  <1>3. Cardinality(S) \in Nat
    BY <1>2, FS_CardinalityType
  <1>4. Cardinality(S) = 0 <=> S = {}
    BY <1>2, FS_EmptySet
  <1>5. Cardinality(S) \in 0 .. L + 1 - i
    BY <1>2, <1>3
  <1>6. Cardinality(S) = 0 \/ Cardinality(S) >= 1
    BY <1>3
  <1> QED  BY <1>4, <1>5, <1>6

(* The digits at a place are some bytes of the text from there on. *)
LEMMA TakeDigitsFacts ==
  ASSUME NEW s \in Texts, NEW i \in 1 .. Len(s), IsDigit(s[i])
  PROVE  TakeDigits(s, i) \in Texts /\ Len(TakeDigits(s, i)) \in 1 .. Len(s) + 1 - i
  <1> DEFINE L == Len(s)
             ends == {k \in i .. L : \A m \in i .. k : IsDigit(s[m])}
             n == Cardinality(ends)
  <1>1. L \in Nat /\ \A m \in 1 .. L : s[m] \in Nat
    BY TextFacts
  <1>2. i \in ends
    BY <1>1
  <1>3. ends \in SUBSET (i .. L)
    OBVIOUS
  <1> HIDE DEF ends, L
  <1>4. n \in 1 .. L + 1 - i
    <2>1. i \in 1 .. L
      BY DEF L
    <2>2. Cardinality(ends) \in 0 .. L + 1 - i /\ Cardinality(ends) >= 1
      BY <1>1, <1>2, <1>3, <2>1, RunFacts
    <2> QED  BY <1>1, <2>1, <2>2
  <1>5. TakeDigits(s, i) = SubSeq(s, i, i + n - 1)
    BY DEF TakeDigits, ends, L
  <1> HIDE DEF n
  <1>6. /\ i \in Int /\ i + n - 1 \in Int /\ i <= i + n - 1 /\ (i + n - 1) - i + 1 = n
        /\ \A m \in i .. i + n - 1 : s[m] \in Nat
    <2>1. i \in 1 .. L
      BY DEF L
    <2> QED  BY <1>1, <1>4, <2>1
  <1>7. SubSeq(s, i, i + n - 1) \in Seq(Nat) /\ Len(SubSeq(s, i, i + n - 1)) = n
    BY <1>6, SubSeqProperties
  <1> QED  BY <1>4, <1>5, <1>7 DEF Texts, L

(* What is left without zeros is a text. *)
LEMMA TrimZerosFacts ==
  ASSUME NEW s \in Texts
  PROVE  TrimZeros(s) \in Texts /\ Len(TrimZeros(s)) \in Nat
  <1> DEFINE zeros == {k \in DOMAIN s : \A m \in 1 .. k : s[m] = 48}
             L == Len(s)
             n == Cardinality(zeros)
  <1>1. L \in Nat /\ DOMAIN s = 1 .. L /\ \A m \in 1 .. L : s[m] \in Nat
    BY TextFacts
  <1>2. TrimZeros(s) = IF zeros = DOMAIN s THEN <<48>> ELSE SubSeq(s, n + 1, L)
    BY DEF TrimZeros
  <1>3. n \in Nat
    <2>1. IsFiniteSet(1 .. L)
      BY <1>1, FS_Interval
    <2>2. zeros \in SUBSET (1 .. L)
      BY <1>1
    <2> HIDE DEF zeros
    <2> QED  BY <2>1, <2>2, FS_Subset, FS_CardinalityType
  <1> HIDE DEF zeros, n, L
  <1>4. SubSeq(s, n + 1, L) \in Texts
    <2>1. n + 1 \in Int /\ L \in Int /\ \A m \in n + 1 .. L : s[m] \in Nat
      BY <1>1, <1>3
    <2> QED  BY <2>1, SubSeqProperties DEF Texts
  <1>5. <<48>> \in Texts
    BY DEF Texts
  <1>6. TrimZeros(s) \in Texts
    BY <1>2, <1>4, <1>5
  <1> QED  BY <1>6, TextFacts

(* Numbers are ordered by their value, then by their length. *)
LEMMA DigitsCmpFacts ==
  ASSUME NEW a \in Texts, NEW b \in Texts, NEW c \in Texts
  PROVE  /\ DigitsCmp(a, b) \in Int /\ DigitsCmp(a, a) = 0
         /\ Composes(DigitsCmp(a, b), DigitsCmp(b, c), DigitsCmp(a, c))
  <1> DEFINE Value(u, v) == ByteCmp(TrimZeros(u), TrimZeros(v))
             Long(u, v) == Len(TrimZeros(u)) - Len(TrimZeros(v))
             Same(u, v) == Len(u) - Len(v)
  <1>1. \A u, v \in Texts : /\ Value(u, v) \in Int /\ Long(u, v) \in Int /\ Same(u, v) \in Int
                            /\ Value(u, u) = 0 /\ Long(u, u) = 0 /\ Same(u, u) = 0
    <2> SUFFICES ASSUME NEW u \in Texts, NEW v \in Texts
                 PROVE  /\ Value(u, v) \in Int /\ Long(u, v) \in Int /\ Same(u, v) \in Int
                        /\ Value(u, u) = 0 /\ Long(u, u) = 0 /\ Same(u, u) = 0
      OBVIOUS
    <2>1. /\ Len(u) \in Nat /\ Len(v) \in Nat
          /\ TrimZeros(u) \in Texts /\ TrimZeros(v) \in Texts
          /\ Len(TrimZeros(u)) \in Nat /\ Len(TrimZeros(v)) \in Nat
      BY TextFacts, TrimZerosFacts
    <2>2. Value(u, v) \in Int /\ Value(u, u) = 0
      BY <2>1, ByteCmpFacts
    <2> QED  BY <2>1, <2>2
  <1>2. \A u, v : DigitsCmp(u, v) = Then(Long(u, v), Then(Value(u, v), Same(u, v)))
    BY DEF DigitsCmp
  <1>3. Composes(Value(a, b), Value(b, c), Value(a, c))
    BY TrimZerosFacts, ByteCmpComposes
  <1>4. Composes(Long(a, b), Long(b, c), Long(a, c))
    <2>1. /\ Len(TrimZeros(a)) \in Int /\ Len(TrimZeros(b)) \in Int
          /\ Len(TrimZeros(c)) \in Int
      BY TrimZerosFacts
    <2> QED  BY <2>1, DifferencesCompose
  <1>5. Composes(Same(a, b), Same(b, c), Same(a, c))
    <2>1. Len(a) \in Int /\ Len(b) \in Int /\ Len(c) \in Int
      BY TextFacts
    <2> QED  BY <2>1, DifferencesCompose
  <1> HIDE DEF Value, Long, Same
  <1>6. \A u, v \in Texts : Then(Value(u, v), Same(u, v)) \in Int
    BY <1>1 DEF Then
  <1>7. Composes(Then(Value(a, b), Same(a, b)), Then(Value(b, c), Same(b, c)),
                 Then(Value(a, c), Same(a, c)))
    BY <1>1, <1>3, <1>5, ThenComposes
  <1>8. Composes(DigitsCmp(a, b), DigitsCmp(b, c), DigitsCmp(a, c))
    BY <1>1, <1>2, <1>4, <1>6, <1>7, ThenComposes
  <1>9. DigitsCmp(a, b) \in Int /\ DigitsCmp(a, a) = 0
    BY <1>1, <1>2, <1>6 DEF Then
  <1> QED  BY <1>8, <1>9

(* Letters are ordered without their case; a digit is to any other byte what *)
(* every other digit is.                                                     *)
LEMMA LetterCmpFacts ==
  ASSUME NEW x \in Nat, NEW y \in Nat, NEW z \in Nat
  PROVE  /\ LetterCmp(x, y) \in Int /\ LetterCmp(x, x) = 0
         /\ Composes(LetterCmp(x, y), LetterCmp(y, z), LetterCmp(x, z))
         /\ IsDigit(x) /\ IsDigit(y) /\ ~IsDigit(z) =>
              \/ /\ LetterCmp(x, z) < 0 /\ LetterCmp(y, z) < 0
                 /\ LetterCmp(z, x) > 0 /\ LetterCmp(z, y) > 0
              \/ /\ LetterCmp(x, z) > 0 /\ LetterCmp(y, z) > 0
                 /\ LetterCmp(z, x) < 0 /\ LetterCmp(z, y) < 0
  <1>1. LowerCase(x) \in Nat /\ LowerCase(y) \in Nat /\ LowerCase(z) \in Nat
    BY LowerFacts
  <1>2. Composes(LetterCmp(x, y), LetterCmp(y, z), LetterCmp(x, z))
    <2>1. LowerCase(x) \in Int /\ LowerCase(y) \in Int /\ LowerCase(z) \in Int
      BY <1>1
    <2> QED  BY <2>1, DifferencesCompose DEF LetterCmp
  <1>3. LetterCmp(x, y) \in Int /\ LetterCmp(x, x) = 0
    BY <1>1 DEF LetterCmp
  <1> QED  BY <1>2, <1>3 DEF LetterCmp, LowerCase, IsDigit

(* The natural order from byte i of a and byte j of b on; f gives the rest. *)
Pair(i, j) == [i |-> i, j |-> j]

NaturalAt(f, a, b, i, j) ==
  IF i > Len(a) /\ j > Len(b) THEN ByteCmp(a, b)
  ELSE IF i > Len(a) THEN -1
  ELSE IF j > Len(b) THEN 1
  ELSE IF IsDigit(a[i]) /\ IsDigit(b[j])
  THEN Then(DigitsCmp(TakeDigits(a, i), TakeDigits(b, j)),
            f[Pair(i + Len(TakeDigits(a, i)), j + Len(TakeDigits(b, j)))])
  ELSE Then(LetterCmp(a[i], b[j]), f[Pair(i + 1, j + 1)])

(* Each step is nearer to the ends of both. *)
LEMMA NaturalSteps ==
  ASSUME NEW a \in Texts, NEW i \in 1 .. Len(a)
  PROVE  /\ a[i] \in Nat /\ i + 1 \in 1 .. Len(a) + 1
         /\ Len(a) + 1 - (i + 1) < Len(a) + 1 - i
         /\ IsDigit(a[i]) =>
              /\ TakeDigits(a, i) \in Texts /\ i + Len(TakeDigits(a, i)) \in 1 .. Len(a) + 1
              /\ Len(a) + 1 - (i + Len(TakeDigits(a, i))) < Len(a) + 1 - i
  <1>1. Len(a) \in Nat /\ \A m \in 1 .. Len(a) : a[m] \in Nat
    BY TextFacts
  <1>2. CASE IsDigit(a[i])
    <2>1. TakeDigits(a, i) \in Texts /\ Len(TakeDigits(a, i)) \in 1 .. Len(a) + 1 - i
      BY <1>2, TakeDigitsFacts
    <2> QED  BY <1>1, <2>1
  <1>3. CASE ~IsDigit(a[i])
    BY <1>1, <1>3
  <1> QED  BY <1>2, <1>3

(* Says all there is to say of f: it gives the natural order of a and b. *)
Natural(f, a, b) ==
  \A i \in 1 .. Len(a) + 1, j \in 1 .. Len(b) + 1 :
    f[Pair(i, j)] \in Int /\ f[Pair(i, j)] = NaturalAt(f, a, b, i, j)

(* The natural order is well defined. *)
LEMMA NaturalFacts ==
  ASSUME NEW a \in Texts, NEW b \in Texts
  PROVE  \E f : Natural(f, a, b) /\ NaturalCmp(a, b) = f[Pair(1, 1)]
  <1> DEFINE La == Len(a)
             Lb == Len(b)
             D == [i : 1 .. La + 1, j : 1 .. Lb + 1]
             V == Int
             mu == [s \in D |-> La + 1 - s.i]
             At(f, s) == NaturalAt(f, a, b, s.i, s.j)
             G == [f \in [D -> V] |-> [s \in D |-> At(f, s)]]
  <1>1. La \in Nat /\ Lb \in Nat
    BY TextFacts
  <1>2. \A s \in D : /\ s.i \in 1 .. La + 1 /\ s.j \in 1 .. Lb + 1
                     /\ ~(s.i > La) => s.i \in 1 .. La
                     /\ ~(s.j > Lb) => s.j \in 1 .. Lb
    BY <1>1
  <1>3. \A i \in 1 .. La + 1, j \in 1 .. Lb + 1 :
          Pair(i, j) \in D /\ Pair(i, j).i = i /\ Pair(i, j).j = j
    BY DEF Pair
  <1>4. \A s \in D : mu[s] = La + 1 - s.i /\ mu[s] \in Nat /\ mu[s] < La + 1
    BY <1>1, <1>2
  <1>5. ASSUME NEW s \in D, ~(s.i > La), ~(s.j > Lb)
        PROVE  /\ a[s.i] \in Nat /\ b[s.j] \in Nat
               /\ Pair(s.i + 1, s.j + 1) \in D
               /\ mu[Pair(s.i + 1, s.j + 1)] < mu[s]
               /\ IsDigit(a[s.i]) /\ IsDigit(b[s.j]) =>
                    LET na == TakeDigits(a, s.i)
                        nb == TakeDigits(b, s.j)
                    IN  /\ na \in Texts /\ nb \in Texts
                        /\ Pair(s.i + Len(na), s.j + Len(nb)) \in D
                        /\ mu[Pair(s.i + Len(na), s.j + Len(nb))] < mu[s]
    <2>1. s.i \in 1 .. La /\ s.j \in 1 .. Lb
      BY <1>2, <1>5
    <2> DEFINE na == TakeDigits(a, s.i)
               nb == TakeDigits(b, s.j)
    <2>2. /\ a[s.i] \in Nat /\ s.i + 1 \in 1 .. La + 1 /\ La + 1 - (s.i + 1) < La + 1 - s.i
          /\ IsDigit(a[s.i]) => /\ na \in Texts /\ s.i + Len(na) \in 1 .. La + 1
                                /\ La + 1 - (s.i + Len(na)) < La + 1 - s.i
      BY <2>1, NaturalSteps
    <2>3. /\ b[s.j] \in Nat /\ s.j + 1 \in 1 .. Lb + 1
          /\ IsDigit(b[s.j]) => nb \in Texts /\ s.j + Len(nb) \in 1 .. Lb + 1
      BY <2>1, NaturalSteps
    <2> HIDE DEF na, nb, D, mu, La, Lb
    <2>4. /\ a[s.i] \in Nat /\ b[s.j] \in Nat
          /\ Pair(s.i + 1, s.j + 1) \in D /\ mu[Pair(s.i + 1, s.j + 1)] < mu[s]
      <3>1. /\ Pair(s.i + 1, s.j + 1) \in D /\ Pair(s.i + 1, s.j + 1).i = s.i + 1
        BY <1>3, <2>2, <2>3
      <3> QED  BY <1>4, <2>2, <2>3, <3>1
    <2>5. IsDigit(a[s.i]) /\ IsDigit(b[s.j]) =>
            /\ na \in Texts /\ nb \in Texts
            /\ Pair(s.i + Len(na), s.j + Len(nb)) \in D
            /\ mu[Pair(s.i + Len(na), s.j + Len(nb))] < mu[s]
      <3> SUFFICES ASSUME IsDigit(a[s.i]), IsDigit(b[s.j])
                   PROVE  /\ Pair(s.i + Len(na), s.j + Len(nb)) \in D
                          /\ mu[Pair(s.i + Len(na), s.j + Len(nb))] < mu[s]
        BY <2>2, <2>3
      <3>1. /\ Pair(s.i + Len(na), s.j + Len(nb)) \in D
            /\ Pair(s.i + Len(na), s.j + Len(nb)).i = s.i + Len(na)
        BY <1>3, <2>2, <2>3
      <3> QED  BY <1>4, <2>2, <3>1
    <2> QED  BY <2>4, <2>5 DEF na, nb
  <1> HIDE DEF D, mu
  <1>6. ASSUME NEW f, NEW s \in D, \A r \in D : mu[r] < mu[s] => f[r] \in Int
        PROVE  At(f, s) \in V
    <2>1. ByteCmp(a, b) \in Int
      BY ByteCmpFacts
    <2>2. CASE s.i > La \/ s.j > Lb
      BY <2>1, <2>2 DEF NaturalAt
    <2>3. CASE ~(s.i > La) /\ ~(s.j > Lb) /\ IsDigit(a[s.i]) /\ IsDigit(b[s.j])
      <3> DEFINE na == TakeDigits(a, s.i)
                 nb == TakeDigits(b, s.j)
      <3>1. /\ na \in Texts /\ nb \in Texts /\ Pair(s.i + Len(na), s.j + Len(nb)) \in D
            /\ mu[Pair(s.i + Len(na), s.j + Len(nb))] < mu[s]
        BY <1>5, <2>3
      <3>2. DigitsCmp(na, nb) \in Int
        BY <3>1, DigitsCmpFacts
      <3>3. f[Pair(s.i + Len(na), s.j + Len(nb))] \in Int
        BY <1>6, <3>1
      <3>4. At(f, s) = Then(DigitsCmp(na, nb), f[Pair(s.i + Len(na), s.j + Len(nb))])
        BY <2>3 DEF NaturalAt
      <3> HIDE DEF na, nb
      <3> QED  BY <3>2, <3>3, <3>4 DEF Then
    <2>4. CASE ~(s.i > La) /\ ~(s.j > Lb) /\ ~(IsDigit(a[s.i]) /\ IsDigit(b[s.j]))
      <3>1. /\ a[s.i] \in Nat /\ b[s.j] \in Nat /\ Pair(s.i + 1, s.j + 1) \in D
            /\ mu[Pair(s.i + 1, s.j + 1)] < mu[s]
        BY <1>5, <2>4
      <3>2. LetterCmp(a[s.i], b[s.j]) \in Int
        BY <3>1, LetterCmpFacts
      <3>3. f[Pair(s.i + 1, s.j + 1)] \in Int
        BY <1>6, <3>1
      <3>4. At(f, s) = Then(LetterCmp(a[s.i], b[s.j]), f[Pair(s.i + 1, s.j + 1)])
        BY <2>4 DEF NaturalAt
      <3> QED  BY <3>2, <3>3, <3>4 DEF Then
    <2> QED  BY <2>2, <2>3, <2>4
  <1>7. ASSUME NEW f \in [D -> V], NEW g \in [D -> V], NEW s \in D,
               \A r \in D : mu[r] < mu[s] => f[r] = g[r]
        PROVE  At(f, s) = At(g, s)
    <2>1. CASE s.i > La \/ s.j > Lb
      BY <2>1 DEF NaturalAt
    <2>2. CASE ~(s.i > La) /\ ~(s.j > Lb) /\ IsDigit(a[s.i]) /\ IsDigit(b[s.j])
      <3> DEFINE r == Pair(s.i + Len(TakeDigits(a, s.i)), s.j + Len(TakeDigits(b, s.j)))
      <3>1. r \in D /\ mu[r] < mu[s]
        BY <1>5, <2>2
      <3>2. f[r] = g[r]
        BY <1>7, <3>1
      <3> QED  BY <2>2, <3>2, Zenon DEF NaturalAt
    <2>3. CASE ~(s.i > La) /\ ~(s.j > Lb) /\ ~(IsDigit(a[s.i]) /\ IsDigit(b[s.j]))
      <3> DEFINE r == Pair(s.i + 1, s.j + 1)
      <3>1. r \in D /\ mu[r] < mu[s]
        BY <1>5, <2>3
      <3>2. f[r] = g[r]
        BY <1>7, <3>1
      <3> QED  BY <2>3, <3>2, Zenon DEF NaturalAt
    <2> QED  BY <2>1, <2>2, <2>3
  <1> HIDE DEF At
  <1>8. Recursive(G, D, V, mu)
    <2>1. G \in [[D -> V] -> [D -> V]]
      <3>1. \A f \in [D -> V], s \in D : At(f, s) \in V
        BY <1>6
      <3> QED  BY <3>1
    <2>2. \A f \in [D -> V], s \in D : G[f][s] = At(f, s)
      OBVIOUS
    <2>3. V # {} /\ mu \in [D -> Nat]
      BY <1>4 DEF mu
    <2> HIDE DEF G, V
    <2>4. ASSUME NEW f \in [D -> V], NEW g \in [D -> V], NEW s \in D,
                 \A r \in D : mu[r] < mu[s] => f[r] = g[r]
          PROVE  G[f][s] = G[g][s]
      BY <1>7, <2>2, <2>4
    <2>5. \E K \in Nat : \A s \in D : mu[s] < K
      <3>1. La + 1 \in Nat
        BY <1>1
      <3> QED  BY <1>4, <3>1
    <2> QED  BY <2>1, <2>3, <2>4, <2>5 DEF Recursive
  <1>9. PICK g \in [D -> V] : G[g] = g
    BY <1>8, Recursion
  <1>10. g = [s \in D |-> At(g, s)]
    BY <1>9
  <1> DEFINE f == CHOOSE h : h = [s \in D |-> At(h, s)]
  <1>11. f = [s \in D |-> At(f, s)]
    BY <1>10
  <1>12. NaturalCmp(a, b) = f[Pair(1, 1)]
    BY DEF NaturalCmp, At, NaturalAt, Pair, D
  <1> HIDE DEF f
  <1>13. \A s \in D : f[s] = At(f, s)
    BY <1>11
  <1> DEFINE T == {n \in Nat : \A s \in D : mu[s] < n => f[s] \in Int}
  <1>14. 0 \in T
    BY <1>4
  <1>15. ASSUME NEW n \in Nat, n \in T
         PROVE  n + 1 \in T
    <2> SUFFICES ASSUME NEW s \in D, mu[s] < n + 1 PROVE f[s] \in Int
      OBVIOUS
    <2>1. \A r \in D : mu[r] < mu[s] => mu[r] < n
      BY <1>4
    <2>2. At(f, s) \in Int
      BY <1>6, <1>15, <2>1
    <2> QED  BY <1>13, <2>2
  <1>16. ASSUME NEW s \in D PROVE f[s] \in Int
    <2>1. Nat \subseteq T
      <3> HIDE DEF T
      <3> QED  BY <1>14, <1>15, Induction
    <2>2. La + 1 \in Nat /\ mu[s] < La + 1
      BY <1>1, <1>4
    <2> QED  BY <2>1, <2>2
  <1>17. ASSUME NEW i \in 1 .. La + 1, NEW j \in 1 .. Lb + 1
         PROVE  f[Pair(i, j)] \in Int /\ f[Pair(i, j)] = NaturalAt(f, a, b, i, j)
    <2>1. Pair(i, j) \in D /\ Pair(i, j).i = i /\ Pair(i, j).j = j
      BY <1>3
    <2>2. At(f, Pair(i, j)) = NaturalAt(f, a, b, i, j)
      BY <2>1 DEF At
    <2> QED  BY <1>13, <1>16, <2>1, <2>2
  <1> QED  BY <1>12, <1>17 DEF Natural

(* What is no difference for the natural order is none. *)
LEMMA NaturalDistinguishes ==
  ASSUME NEW a \in Texts, NEW b \in Texts, NaturalCmp(a, b) = 0
  PROVE  a = b
  <1>1. PICK f : Natural(f, a, b) /\ NaturalCmp(a, b) = f[Pair(1, 1)]
    BY NaturalFacts
  <1> DEFINE La == Len(a)
             Lb == Len(b)
             T == {n \in Nat : \A i \in 1 .. La + 1, j \in 1 .. Lb + 1 :
                                 La + 1 - i < n /\ f[Pair(i, j)] = 0 => a = b}
  <1>2. La \in Nat /\ Lb \in Nat
    BY TextFacts
  <1>3. 0 \in T
    BY <1>2
  <1>4. ASSUME NEW n \in Nat, n \in T
        PROVE  n + 1 \in T
    <2> SUFFICES ASSUME NEW i \in 1 .. La + 1, NEW j \in 1 .. Lb + 1,
                        La + 1 - i < n + 1, f[Pair(i, j)] = 0
                 PROVE  a = b
      OBVIOUS
    <2>1. f[Pair(i, j)] = NaturalAt(f, a, b, i, j)
      BY <1>1 DEF Natural
    <2>2. CASE i > La /\ j > Lb
      <3>1. ByteCmp(a, b) = 0
        BY <2>1, <2>2 DEF NaturalAt
      <3> SUFFICES ASSUME a # b PROVE FALSE
        OBVIOUS
      <3>2. PICK k \in Nat \ {0} : /\ FirstDiffer(a, b, k)
                                   /\ ByteCmp(a, b) < 0 <=> Padded(a, k) < Padded(b, k)
                                   /\ ByteCmp(a, b) > 0 <=> Padded(a, k) > Padded(b, k)
        BY ByteCmpFacts
      <3>3. Padded(a, k) \in Int /\ Padded(b, k) \in Int /\ Padded(a, k) # Padded(b, k)
        BY <3>2, PaddedFacts DEF FirstDiffer
      <3> QED  BY <3>1, <3>2, <3>3
    <2>3. CASE (i > La /\ ~(j > Lb)) \/ (~(i > La) /\ j > Lb)
      BY <2>1, <2>3 DEF NaturalAt
    <2>4. CASE ~(i > La) /\ ~(j > Lb)
      <3>1. i \in 1 .. La /\ j \in 1 .. Lb
        BY <1>2, <2>4
      <3>2. /\ i + 1 \in 1 .. La + 1 /\ La + 1 - (i + 1) < La + 1 - i
            /\ IsDigit(a[i]) => /\ i + Len(TakeDigits(a, i)) \in 1 .. La + 1
                                /\ La + 1 - (i + Len(TakeDigits(a, i))) < La + 1 - i
            /\ j + 1 \in 1 .. Lb + 1
            /\ IsDigit(b[j]) => j + Len(TakeDigits(b, j)) \in 1 .. Lb + 1
        BY <3>1, NaturalSteps
      <3> HIDE DEF La, Lb
      <3>3. ASSUME NEW u \in 1 .. La + 1, NEW v \in 1 .. Lb + 1, La + 1 - u < La + 1 - i,
                   f[Pair(u, v)] = 0
            PROVE  a = b
        <4>1. La + 1 - u < n
          BY <1>2, <3>3
        <4> QED  BY <1>4, <3>3, <4>1
      <3>4. CASE IsDigit(a[i]) /\ IsDigit(b[j])
        <4> DEFINE u == i + Len(TakeDigits(a, i))
                   v == j + Len(TakeDigits(b, j))
        <4>1. f[Pair(u, v)] = 0
          BY <2>1, <2>4, <3>4 DEF NaturalAt, Then, La, Lb
        <4>2. u \in 1 .. La + 1 /\ v \in 1 .. Lb + 1 /\ La + 1 - u < La + 1 - i
          BY <3>2, <3>4
        <4> HIDE DEF u, v
        <4> QED  BY <3>3, <4>1, <4>2
      <3>5. CASE ~(IsDigit(a[i]) /\ IsDigit(b[j]))
        <4>1. f[Pair(i + 1, j + 1)] = 0
          BY <2>1, <2>4, <3>5 DEF NaturalAt, Then, La, Lb
        <4> QED  BY <3>2, <3>3, <4>1
      <3> QED  BY <3>4, <3>5
    <2> QED  BY <2>2, <2>3, <2>4
  <1>5. Nat \subseteq T
    <2> HIDE DEF T
    <2> QED  BY <1>3, <1>4, Induction
  <1>6. La + 1 \in Nat /\ 1 \in 1 .. La + 1 /\ 1 \in 1 .. Lb + 1 /\ La + 1 - 1 < La + 1
    BY <1>2
  <1>7. f[Pair(1, 1)] = 0
    BY <1>1
  <1> HIDE DEF La, Lb
  <1> QED  BY <1>5, <1>6, <1>7

(* Nor is there one between a text and itself. *)
LEMMA NaturalIsReflexive ==
  ASSUME NEW a \in Texts
  PROVE  NaturalCmp(a, a) = 0
  <1>1. PICK f : Natural(f, a, a) /\ NaturalCmp(a, a) = f[Pair(1, 1)]
    BY NaturalFacts
  <1> DEFINE La == Len(a)
             T == {n \in Nat : \A i \in 1 .. La + 1 : La + 1 - i < n => f[Pair(i, i)] = 0}
  <1>2. La \in Nat /\ \A i \in 1 .. La : a[i] \in Nat
    BY TextFacts
  <1>3. 0 \in T
    BY <1>2
  <1>4. ASSUME NEW n \in Nat, n \in T
        PROVE  n + 1 \in T
    <2> SUFFICES ASSUME NEW i \in 1 .. La + 1, La + 1 - i < n + 1
                 PROVE  f[Pair(i, i)] = 0
      OBVIOUS
    <2>1. f[Pair(i, i)] = NaturalAt(f, a, a, i, i)
      BY <1>1 DEF Natural
    <2>2. CASE i > La
      BY <2>1, <2>2, ByteCmpFacts DEF NaturalAt
    <2>3. CASE ~(i > La)
      <3>1. i \in 1 .. La
        BY <1>2, <2>3
      <3>2. /\ a[i] \in Nat /\ i + 1 \in 1 .. La + 1 /\ La + 1 - (i + 1) < La + 1 - i
            /\ IsDigit(a[i]) => /\ TakeDigits(a, i) \in Texts
                                /\ i + Len(TakeDigits(a, i)) \in 1 .. La + 1
                                /\ La + 1 - (i + Len(TakeDigits(a, i))) < La + 1 - i
        BY <3>1, NaturalSteps
      <3> HIDE DEF La
      <3>3. ASSUME NEW u \in 1 .. La + 1, La + 1 - u < La + 1 - i
            PROVE  f[Pair(u, u)] = 0
        <4>1. La + 1 - u < n
          BY <1>2, <3>3
        <4> QED  BY <1>4, <3>3, <4>1
      <3>4. CASE IsDigit(a[i])
        <4> DEFINE na == TakeDigits(a, i)
        <4>1. f[Pair(i + Len(na), i + Len(na))] = 0
          BY <3>2, <3>3, <3>4
        <4>2. DigitsCmp(na, na) = 0
          BY <3>2, <3>4, DigitsCmpFacts
        <4>3. f[Pair(i, i)] = Then(DigitsCmp(na, na), f[Pair(i + Len(na), i + Len(na))])
          BY <2>1, <2>3, <3>4 DEF NaturalAt, La
        <4> HIDE DEF na
        <4> QED  BY <4>1, <4>2, <4>3 DEF Then
      <3>5. CASE ~IsDigit(a[i])
        <4>1. f[Pair(i + 1, i + 1)] = 0
          BY <3>2, <3>3
        <4>2. LetterCmp(a[i], a[i]) = 0
          BY <3>2, LetterCmpFacts
        <4>3. f[Pair(i, i)] = Then(LetterCmp(a[i], a[i]), f[Pair(i + 1, i + 1)])
          BY <2>1, <2>3, <3>5 DEF NaturalAt, La
        <4> QED  BY <4>1, <4>2, <4>3 DEF Then
      <3> QED  BY <3>4, <3>5
    <2> QED  BY <2>2, <2>3
  <1>5. Nat \subseteq T
    <2> HIDE DEF T
    <2> QED  BY <1>3, <1>4, Induction
  <1>6. La + 1 \in Nat /\ 1 \in 1 .. La + 1 /\ La + 1 - 1 < La + 1
    BY <1>2
  <1> HIDE DEF La
  <1> QED  BY <1>1, <1>5, <1>6

(* What is said at three places of three texts composes if what is said at the *)
(* next places does.                                                           *)
LEMMA NaturalStepComposes ==
  ASSUME NEW a \in Texts, NEW b \in Texts, NEW c \in Texts, NEW f, NEW g, NEW h,
         Natural(f, a, b), Natural(g, b, c), Natural(h, a, c),
         NEW i \in 1 .. Len(a) + 1, NEW j \in 1 .. Len(b) + 1, NEW k \in 1 .. Len(c) + 1,
         \A u \in 1 .. Len(a) + 1, v \in 1 .. Len(b) + 1, w \in 1 .. Len(c) + 1 :
           Len(a) + 1 - u < Len(a) + 1 - i =>
             Composes(f[Pair(u, v)], g[Pair(v, w)], h[Pair(u, w)])
  PROVE  Composes(f[Pair(i, j)], g[Pair(j, k)], h[Pair(i, k)])
  <1> DEFINE La == Len(a)
             Lb == Len(b)
             Lc == Len(c)
             x == f[Pair(i, j)]
             y == g[Pair(j, k)]
             z == h[Pair(i, k)]
  <1>1. La \in Nat /\ Lb \in Nat /\ Lc \in Nat
    BY TextFacts
  <1>2. /\ x = NaturalAt(f, a, b, i, j) /\ x \in Int
        /\ y = NaturalAt(g, b, c, j, k) /\ y \in Int
        /\ z = NaturalAt(h, a, c, i, k) /\ z \in Int
    BY DEF Natural
  <1>3. CASE i > La /\ j > Lb /\ k > Lc
    <2>1. x = ByteCmp(a, b) /\ y = ByteCmp(b, c) /\ z = ByteCmp(a, c)
      BY <1>2, <1>3 DEF NaturalAt
    <2> QED  BY <2>1, ByteCmpComposes
  <1>4. CASE (i > La \/ j > Lb \/ k > Lc) /\ ~(i > La /\ j > Lb /\ k > Lc)
    <2>1. /\ i > La /\ ~(j > Lb) => x = -1
          /\ ~(i > La) /\ j > Lb => x = 1
          /\ j > Lb /\ ~(k > Lc) => y = -1
          /\ ~(j > Lb) /\ k > Lc => y = 1
          /\ i > La /\ ~(k > Lc) => z = -1
          /\ ~(i > La) /\ k > Lc => z = 1
      BY <1>2 DEF NaturalAt
    <2> HIDE DEF x, y, z
    <2> QED  BY <1>2, <1>4, <2>1 DEF Composes, x, y, z
  <1>5. CASE ~(i > La) /\ ~(j > Lb) /\ ~(k > Lc)
    <2>1. i \in 1 .. La /\ j \in 1 .. Lb /\ k \in 1 .. Lc
      BY <1>1, <1>5
    <2> DEFINE na == TakeDigits(a, i)
               nb == TakeDigits(b, j)
               nc == TakeDigits(c, k)
               da == IsDigit(a[i])
               db == IsDigit(b[j])
               dc == IsDigit(c[k])
    <2>2. /\ a[i] \in Nat /\ i + 1 \in 1 .. La + 1 /\ La + 1 - (i + 1) < La + 1 - i
          /\ da => /\ na \in Texts /\ i + Len(na) \in 1 .. La + 1
                   /\ La + 1 - (i + Len(na)) < La + 1 - i
          /\ b[j] \in Nat /\ j + 1 \in 1 .. Lb + 1
          /\ db => nb \in Texts /\ j + Len(nb) \in 1 .. Lb + 1
          /\ c[k] \in Nat /\ k + 1 \in 1 .. Lc + 1
          /\ dc => nc \in Texts /\ k + Len(nc) \in 1 .. Lc + 1
      BY <2>1, NaturalSteps
    <2>3. \A u \in 1 .. La + 1, v \in 1 .. Lb + 1, w \in 1 .. Lc + 1 :
            /\ f[Pair(u, v)] \in Int /\ g[Pair(v, w)] \in Int /\ h[Pair(u, w)] \in Int
            /\ La + 1 - u < La + 1 - i => Composes(f[Pair(u, v)], g[Pair(v, w)], h[Pair(u, w)])
      BY DEF Natural
    <2>4. /\ da /\ db => x = Then(DigitsCmp(na, nb), f[Pair(i + Len(na), j + Len(nb))])
          /\ ~(da /\ db) => x = Then(LetterCmp(a[i], b[j]), f[Pair(i + 1, j + 1)])
      BY <1>2, <1>5 DEF NaturalAt
    <2>5. /\ db /\ dc => y = Then(DigitsCmp(nb, nc), g[Pair(j + Len(nb), k + Len(nc))])
          /\ ~(db /\ dc) => y = Then(LetterCmp(b[j], c[k]), g[Pair(j + 1, k + 1)])
      BY <1>2, <1>5 DEF NaturalAt
    <2>6. /\ da /\ dc => z = Then(DigitsCmp(na, nc), h[Pair(i + Len(na), k + Len(nc))])
          /\ ~(da /\ dc) => z = Then(LetterCmp(a[i], c[k]), h[Pair(i + 1, k + 1)])
      BY <1>2, <1>5 DEF NaturalAt
    <2> HIDE DEF La, Lb, Lc, na, nb, nc
    <2>7. CASE da /\ db /\ dc
      <3> DEFINE u == i + Len(na)
                 v == j + Len(nb)
                 w == k + Len(nc)
      <3>1. u \in 1 .. La + 1 /\ v \in 1 .. Lb + 1 /\ w \in 1 .. Lc + 1 /\ La + 1 - u < La + 1 - i
        BY <2>2, <2>7
      <3> HIDE DEF u, v, w
      <3>2. /\ f[Pair(u, v)] \in Int /\ g[Pair(v, w)] \in Int /\ h[Pair(u, w)] \in Int
            /\ Composes(f[Pair(u, v)], g[Pair(v, w)], h[Pair(u, w)])
        BY <2>3, <3>1
      <3>3. /\ DigitsCmp(na, nb) \in Int /\ DigitsCmp(nb, nc) \in Int /\ DigitsCmp(na, nc) \in Int
            /\ Composes(DigitsCmp(na, nb), DigitsCmp(nb, nc), DigitsCmp(na, nc))
        BY <2>2, <2>7, DigitsCmpFacts
      <3>4. /\ x = Then(DigitsCmp(na, nb), f[Pair(u, v)])
            /\ y = Then(DigitsCmp(nb, nc), g[Pair(v, w)])
            /\ z = Then(DigitsCmp(na, nc), h[Pair(u, w)])
        BY <2>4, <2>5, <2>6, <2>7 DEF u, v, w
      <3> HIDE DEF x, y, z
      <3>5. Composes(x, y, z)
        BY <3>2, <3>3, <3>4, ThenComposes
      <3> QED  BY <3>5 DEF x, y, z
    <2>8. /\ LetterCmp(a[i], b[j]) \in Int /\ LetterCmp(b[j], c[k]) \in Int
          /\ LetterCmp(a[i], c[k]) \in Int
          /\ Composes(LetterCmp(a[i], b[j]), LetterCmp(b[j], c[k]), LetterCmp(a[i], c[k]))
      BY <2>2, LetterCmpFacts
    <2>9. CASE ~(da /\ db) /\ ~(db /\ dc) /\ ~(da /\ dc)
      <3>1. /\ f[Pair(i + 1, j + 1)] \in Int /\ g[Pair(j + 1, k + 1)] \in Int
            /\ h[Pair(i + 1, k + 1)] \in Int
            /\ Composes(f[Pair(i + 1, j + 1)], g[Pair(j + 1, k + 1)], h[Pair(i + 1, k + 1)])
        BY <2>2, <2>3
      <3>2. /\ x = Then(LetterCmp(a[i], b[j]), f[Pair(i + 1, j + 1)])
            /\ y = Then(LetterCmp(b[j], c[k]), g[Pair(j + 1, k + 1)])
            /\ z = Then(LetterCmp(a[i], c[k]), h[Pair(i + 1, k + 1)])
        BY <2>4, <2>5, <2>6, <2>9
      <3> HIDE DEF x, y, z
      <3>3. Composes(x, y, z)
        BY <2>8, <3>1, <3>2, ThenComposes
      <3> QED  BY <3>3 DEF x, y, z
    <2>10. CASE da /\ db /\ ~dc
      <3>1. \/ LetterCmp(a[i], c[k]) < 0 /\ LetterCmp(b[j], c[k]) < 0
            \/ LetterCmp(a[i], c[k]) > 0 /\ LetterCmp(b[j], c[k]) > 0
        BY <2>2, <2>10, LetterCmpFacts
      <3>2. (y < 0 /\ z < 0) \/ (y > 0 /\ z > 0)
        BY <2>5, <2>6, <2>10, <3>1 DEF Then
      <3> HIDE DEF x, y, z
      <3> QED  BY <1>2, <3>2 DEF Composes, x, y, z
    <2>11. CASE ~da /\ db /\ dc
      <3>1. \/ LetterCmp(a[i], b[j]) < 0 /\ LetterCmp(a[i], c[k]) < 0
            \/ LetterCmp(a[i], b[j]) > 0 /\ LetterCmp(a[i], c[k]) > 0
        BY <2>2, <2>11, LetterCmpFacts
      <3>2. (x < 0 /\ z < 0) \/ (x > 0 /\ z > 0)
        BY <2>4, <2>6, <2>11, <3>1 DEF Then
      <3> HIDE DEF x, y, z
      <3> QED  BY <1>2, <3>2 DEF Composes, x, y, z
    <2>12. CASE da /\ ~db /\ dc
      <3>1. \/ LetterCmp(a[i], b[j]) < 0 /\ LetterCmp(b[j], c[k]) > 0
            \/ LetterCmp(a[i], b[j]) > 0 /\ LetterCmp(b[j], c[k]) < 0
        BY <2>2, <2>12, LetterCmpFacts
      <3>2. (x < 0 /\ y > 0) \/ (x > 0 /\ y < 0)
        BY <2>4, <2>5, <2>12, <3>1 DEF Then
      <3> HIDE DEF x, y, z
      <3> QED  BY <1>2, <3>2 DEF Composes, x, y, z
    <2> QED  BY <2>7, <2>9, <2>10, <2>11, <2>12
  <1> QED  BY <1>3, <1>4, <1>5

(* The natural order is a total order of the names (natural_cmp): it never calls *)
(* two names the same, nothing comes before itself, and what comes before what   *)
(* comes before a name comes before the name, whatever digits and letters they   *)
(* are made of.                                                                  *)
THEOREM NaturalCmpIsAnOrder ==
  ASSUME NEW a \in Texts, NEW b \in Texts, NEW c \in Texts
  PROVE  /\ NaturalCmp(a, b) \in Int
         /\ NaturalCmp(a, b) = 0 <=> a = b
         /\ Composes(NaturalCmp(a, b), NaturalCmp(b, c), NaturalCmp(a, c))
  <1>1. PICK f : Natural(f, a, b) /\ NaturalCmp(a, b) = f[Pair(1, 1)]
    BY NaturalFacts
  <1>2. PICK g : Natural(g, b, c) /\ NaturalCmp(b, c) = g[Pair(1, 1)]
    BY NaturalFacts
  <1>3. PICK h : Natural(h, a, c) /\ NaturalCmp(a, c) = h[Pair(1, 1)]
    BY NaturalFacts
  <1> DEFINE La == Len(a)
             Lb == Len(b)
             Lc == Len(c)
             All(n) == \A i \in 1 .. La + 1, j \in 1 .. Lb + 1, k \in 1 .. Lc + 1 :
                         La + 1 - i < n =>
                           Composes(f[Pair(i, j)], g[Pair(j, k)], h[Pair(i, k)])
             T == {n \in Nat : All(n)}
  <1>4. La \in Nat /\ Lb \in Nat /\ Lc \in Nat
    BY TextFacts
  <1>5. 0 \in T
    BY <1>4
  <1>6. ASSUME NEW n \in Nat, n \in T
        PROVE  n + 1 \in T
    <2> SUFFICES ASSUME NEW i \in 1 .. La + 1, NEW j \in 1 .. Lb + 1, NEW k \in 1 .. Lc + 1,
                        La + 1 - i < n + 1
                 PROVE  Composes(f[Pair(i, j)], g[Pair(j, k)], h[Pair(i, k)])
      OBVIOUS
    <2>1. \A u \in 1 .. La + 1 : La + 1 - u < La + 1 - i => La + 1 - u < n
      BY <1>4
    <2>2. \A u \in 1 .. La + 1, v \in 1 .. Lb + 1, w \in 1 .. Lc + 1 :
            La + 1 - u < La + 1 - i => Composes(f[Pair(u, v)], g[Pair(v, w)], h[Pair(u, w)])
      BY <1>6, <2>1
    <2> QED  BY <1>1, <1>2, <1>3, <2>2, NaturalStepComposes
  <1>7. Nat \subseteq T
    <2> HIDE DEF T
    <2> QED  BY <1>5, <1>6, Induction
  <1>8. /\ La + 1 \in Nat /\ La + 1 - 1 < La + 1
        /\ 1 \in 1 .. La + 1 /\ 1 \in 1 .. Lb + 1 /\ 1 \in 1 .. Lc + 1
    BY <1>4
  <1> HIDE DEF La, Lb, Lc
  <1>9. Composes(NaturalCmp(a, b), NaturalCmp(b, c), NaturalCmp(a, c))
    BY <1>1, <1>2, <1>3, <1>7, <1>8
  <1>10. NaturalCmp(a, b) \in Int
    BY <1>1, <1>8 DEF Natural, La, Lb
  <1>11. NaturalCmp(a, b) = 0 <=> a = b
    BY NaturalDistinguishes, NaturalIsReflexive
  <1> QED  BY <1>9, <1>10, <1>11

(* What follows the last dot of a name is a text. *)
LEMMA ExtFacts ==
  ASSUME NEW e \in Entries
  PROVE  Ext(e) \in Texts
  <1> DEFINE s == e.name
             dots == {i \in DOMAIN s : s[i] = Dot}
             last == CHOOSE i \in dots : \A k \in dots : k <= i
             L == Len(s)
  <1>1. s \in Texts
    BY ViewsAssumption DEF Texts
  <1> HIDE DEF s
  <1>2. L \in Nat /\ DOMAIN s = 1 .. L /\ \A i \in 1 .. L : s[i] \in Nat
    BY <1>1, TextFacts
  <1>3. CASE e.dir \/ dots = {} \/ last = 1 \/ last = L
    <2>1. Ext(e) = <<>>
      BY <1>3 DEF Ext, s
    <2> QED  BY <2>1 DEF Texts
  <1>4. CASE ~(e.dir \/ dots = {} \/ last = 1 \/ last = L)
    <2>1. Ext(e) = SubSeq(s, last + 1, L)
      BY <1>4 DEF Ext, s
    <2>2. dots \subseteq 1 .. L /\ dots # {}
      BY <1>2, <1>4
    <2> HIDE DEF dots, L
    <2>3. \E i \in dots : \A k \in dots : k <= i
      <3> DEFINE T == {L - i : i \in dots}
      <3>1. T \subseteq Nat /\ T # {}
        <4>1. \A i \in dots : i \in 1 .. L
          BY <2>2
        <4>2. \A i \in dots : L - i \in Nat
          BY <1>2, <4>1
        <4> QED  BY <2>2, <4>2
      <3>2. PICK n \in T : \A m \in T : n <= m
        <4> HIDE DEF T
        <4> QED  BY <3>1, Least
      <3>3. PICK i \in dots : n = L - i
        OBVIOUS
      <3>4. \A k \in dots : L - i <= L - k
        BY <3>2, <3>3
      <3>5. \A k \in dots : k <= i
        BY <1>2, <2>2, <3>4
      <3> QED  BY <3>5
    <2>4. last \in 1 .. L
      BY <2>2, <2>3
    <2> HIDE DEF last
    <2>5. last + 1 \in Int /\ L \in Int /\ \A m \in last + 1 .. L : s[m] \in Nat
      BY <1>2, <2>4
    <2> QED  BY <2>1, <2>5, SubSeqProperties DEF Texts
  <1> QED  BY <1>3, <1>4

(* The order of a view, whatever it is chosen to be, is one of its entries: two   *)
(* are never the same in it, and what comes before what comes before an entry     *)
(* comes before the entry (entry_cmp).                                            *)
THEOREM EntryCmpIsAnOrder ==
  ASSUME NEW a \in Entries, NEW b \in Entries, NEW c \in Entries, NEW order
  PROVE  /\ EntryCmp(a, b, order) \in Int
         /\ EntryCmp(a, b, order) = 0 <=> a = b
         /\ Composes(EntryCmp(a, b, order), EntryCmp(b, c, order), EntryCmp(a, c, order))
  <1> DEFINE side(e) == IF e.dir THEN 0 ELSE 1
             Side(u, v) == side(u) - side(v)
             Key(u, v) == CASE order.key = "Size" -> u.size - v.size
                            [] order.key = "Type" -> ByteCmp(Lowered(Ext(u)), Lowered(Ext(v)))
                            [] OTHER -> 0
             Name(u, v) == NaturalCmp(u.name, v.name)
             Up(u, v) == Then(Side(u, v), Then(Key(u, v), Name(u, v)))
  <1>1. \A u \in Entries : u.name \in Texts /\ u.size \in Nat /\ u.dir \in BOOLEAN
    BY ViewsAssumption DEF Texts
  <1>2. \A u \in Entries : Lowered(Ext(u)) \in Texts
    BY ExtFacts, LoweredFacts
  <1>3. ASSUME NEW u \in Entries, NEW v \in Entries, NEW w \in Entries
        PROVE  /\ Side(u, v) \in Int /\ Side(u, u) = 0
               /\ Composes(Side(u, v), Side(v, w), Side(u, w))
    <2>1. side(u) \in Int /\ side(v) \in Int /\ side(w) \in Int
      OBVIOUS
    <2> HIDE DEF side
    <2>2. Composes(Side(u, v), Side(v, w), Side(u, w))
      BY <2>1, DifferencesCompose
    <2>3. Side(u, v) \in Int /\ Side(u, u) = 0
      BY <2>1
    <2> QED  BY <2>2, <2>3
  <1>4. ASSUME NEW u \in Entries, NEW v \in Entries, NEW w \in Entries
        PROVE  /\ Key(u, v) \in Int /\ Key(u, u) = 0
               /\ Composes(Key(u, v), Key(v, w), Key(u, w))
    <2>1. CASE order.key = "Size"
      <3>1. /\ Key(u, v) = u.size - v.size /\ Key(v, w) = v.size - w.size
            /\ Key(u, w) = u.size - w.size /\ Key(u, u) = u.size - u.size
        BY <2>1
      <3>2. u.size \in Int /\ v.size \in Int /\ w.size \in Int
        BY <1>1
      <3>3. Composes(u.size - v.size, v.size - w.size, u.size - w.size)
        BY <3>2, DifferencesCompose
      <3> HIDE DEF Key
      <3> QED  BY <3>1, <3>2, <3>3
    <2>2. CASE order.key = "Type"
      <3> DEFINE K(e) == Lowered(Ext(e))
      <3>1. /\ Key(u, v) = ByteCmp(K(u), K(v)) /\ Key(v, w) = ByteCmp(K(v), K(w))
            /\ Key(u, w) = ByteCmp(K(u), K(w)) /\ Key(u, u) = ByteCmp(K(u), K(u))
        BY <2>2
      <3>2. K(u) \in Texts /\ K(v) \in Texts /\ K(w) \in Texts
        BY <1>2
      <3> HIDE DEF Key, K
      <3>3. Composes(ByteCmp(K(u), K(v)), ByteCmp(K(v), K(w)), ByteCmp(K(u), K(w)))
        BY <3>2, ByteCmpComposes
      <3>4. ByteCmp(K(u), K(v)) \in Int /\ ByteCmp(K(u), K(u)) = 0
        BY <3>2, ByteCmpFacts
      <3> QED  BY <3>1, <3>3, <3>4
    <2>3. CASE order.key # "Size" /\ order.key # "Type"
      <3>1. Key(u, v) = 0 /\ Key(v, w) = 0 /\ Key(u, w) = 0 /\ Key(u, u) = 0
        BY <2>3
      <3> HIDE DEF Key
      <3> QED  BY <3>1 DEF Composes
    <2> QED  BY <2>1, <2>2, <2>3
  <1>5. ASSUME NEW u \in Entries, NEW v \in Entries, NEW w \in Entries
        PROVE  /\ Name(u, v) \in Int /\ (Name(u, v) = 0 <=> u = v)
               /\ Composes(Name(u, v), Name(v, w), Name(u, w))
    <2>1. u.name = v.name <=> u = v
      BY ViewsAssumption
    <2> QED  BY <1>1, <2>1, NaturalCmpIsAnOrder
  <1>6. \A u, v : EntryCmp(u, v, order) = IF order.ascending THEN Up(u, v) ELSE -Up(u, v)
    BY DEF EntryCmp
  <1> HIDE DEF Side, Key, Name
  <1>7. ASSUME NEW u \in Entries, NEW v \in Entries
        PROVE  /\ Then(Key(u, v), Name(u, v)) \in Int /\ Up(u, v) \in Int
               /\ Up(u, v) = 0 <=> u = v
    <2>1. Side(u, v) \in Int /\ Key(u, v) \in Int /\ Name(u, v) \in Int
      BY <1>3, <1>4, <1>5
    <2>2. u = v => Side(u, v) = 0 /\ Key(u, v) = 0
      BY <1>3, <1>4
    <2>3. Name(u, v) = 0 <=> u = v
      BY <1>5
    <2> QED  BY <2>1, <2>2, <2>3 DEF Then
  <1>8. Composes(Then(Key(a, b), Name(a, b)), Then(Key(b, c), Name(b, c)),
                 Then(Key(a, c), Name(a, c)))
    BY <1>4, <1>5, ThenComposes
  <1>9. Composes(Up(a, b), Up(b, c), Up(a, c))
    BY <1>3, <1>7, <1>8, ThenComposes
  <1> HIDE DEF Up
  <1>10. Up(a, b) \in Int /\ Up(b, c) \in Int /\ Up(a, c) \in Int /\ (Up(a, b) = 0 <=> a = b)
    BY <1>7
  <1>11. CASE order.ascending
    BY <1>6, <1>9, <1>10, <1>11
  <1>12. CASE ~order.ascending
    <2>1. Composes(-Up(a, b), -Up(b, c), -Up(a, c))
      BY <1>9, <1>10, ReversedComposes
    <2> QED  BY <1>6, <1>10, <1>12, <2>1
  <1> QED  BY <1>11, <1>12

------------------------------------------------------------------------------
(* The sorted view.                                                        *)

Sorted(s, order) ==
  \A i, j \in 1 .. Len(s) : i < j => EntryCmp(s[i], s[j], order) < 0

(* What is after an entry is not before it. *)
LEMMA NotBoth ==
  ASSUME NEW a \in Entries, NEW b \in Entries, NEW order, EntryCmp(a, b, order) > 0
  PROVE  EntryCmp(b, a, order) < 0
  <1>1. EntryCmp(a, b, order) \in Int /\ EntryCmp(b, a, order) \in Int
    BY EntryCmpIsAnOrder
  <1>2. EntryCmp(a, a, order) = 0
    BY EntryCmpIsAnOrder
  <1>3. Composes(EntryCmp(a, b, order), EntryCmp(b, a, order), EntryCmp(a, a, order))
    BY EntryCmpIsAnOrder
  <1> QED  BY <1>1, <1>2, <1>3 DEF Composes

(* What is before what is before an entry is before the entry. *)
LEMMA Before ==
  ASSUME NEW a \in Entries, NEW b \in Entries, NEW c \in Entries, NEW order,
         EntryCmp(a, b, order) < 0, EntryCmp(b, c, order) < 0
  PROVE  EntryCmp(a, c, order) < 0
  <1>1. /\ EntryCmp(a, b, order) \in Int /\ EntryCmp(b, c, order) \in Int
        /\ EntryCmp(a, c, order) \in Int
    BY EntryCmpIsAnOrder
  <1>2. Composes(EntryCmp(a, b, order), EntryCmp(b, c, order), EntryCmp(a, c, order))
    BY EntryCmpIsAnOrder
  <1> QED  BY <1>1, <1>2 DEF Composes

(* A new entry goes before the first that is after it. *)
LEMMA InsertPlace ==
  ASSUME NEW order, NEW s \in Seq(Entries), NEW e
  PROVE  \E at \in 1 .. Len(s) + 1 :
           /\ Insert(s, e, order) = InsertAt(s, at, e)
           /\ \A i \in 1 .. Len(s) : i < at => ~(EntryCmp(s[i], e, order) > 0)
           /\ at <= Len(s) => EntryCmp(s[at], e, order) > 0
  <1> DEFINE L == Len(s)
             greater == {i \in DOMAIN s : EntryCmp(s[i], e, order) > 0}
             at == CHOOSE i \in greater \cup {L + 1} : \A k \in greater : i <= k
  <1>1. L \in Nat /\ DOMAIN s = 1 .. L
    BY LenProperties
  <1>2. greater \subseteq 1 .. L
    BY <1>1
  <1>3. Insert(s, e, order) = InsertAt(s, at, e)
    BY DEF Insert
  <1>4. \E i \in greater \cup {L + 1} : \A k \in greater : i <= k
    <2>1. greater \cup {L + 1} \subseteq Nat /\ greater \cup {L + 1} # {}
      BY <1>1, <1>2
    <2> HIDE DEF greater
    <2> QED  BY <2>1, Least
  <1>5. at \in greater \cup {L + 1} /\ \A k \in greater : at <= k
    <2> HIDE DEF greater
    <2> QED  BY <1>4
  <1> HIDE DEF at
  <1>6. at \in 1 .. L + 1
    BY <1>1, <1>2, <1>5
  <1>7. ASSUME NEW i \in 1 .. L, i < at
        PROVE  ~(EntryCmp(s[i], e, order) > 0)
    <2>1. i \notin greater
      BY <1>5, <1>6, <1>7
    <2> QED  BY <1>1, <2>1
  <1>8. at <= L => EntryCmp(s[at], e, order) > 0
    BY <1>1, <1>5
  <1> QED  BY <1>3, <1>6, <1>7, <1>8

(* So a view with an entry more is a view, ... *)
LEMMA InsertIsView ==
  ASSUME NEW order, NEW s \in Seq(Entries), NEW e \in Entries
  PROVE  Insert(s, e, order) \in Seq(Entries)
  BY InsertPlace, Inserted

(* ... and in a sorted one all before it are before and all after it after. *)
LEMMA InsertOrder ==
  ASSUME NEW order, NEW s \in Seq(Entries), Sorted(s, order), NEW e \in Entries, e \notin ToSet(s)
  PROVE  \E at \in 1 .. Len(s) + 1 :
           /\ Insert(s, e, order) = InsertAt(s, at, e)
           /\ \A i \in 1 .. Len(s) : i < at => EntryCmp(s[i], e, order) < 0
           /\ \A i \in 1 .. Len(s) : at <= i => EntryCmp(e, s[i], order) < 0
  <1> DEFINE L == Len(s)
  <1>1. /\ L \in Nat /\ DOMAIN s = 1 .. L
        /\ \A i \in 1 .. L : s[i] \in Entries /\ s[i] # e
    <2>1. L \in Nat /\ DOMAIN s = 1 .. L /\ \A i \in 1 .. L : s[i] \in Entries
      BY LenProperties, ElementOfSeq
    <2> QED  BY <2>1 DEF ToSet
  <1>2. PICK at \in 1 .. L + 1 :
          /\ Insert(s, e, order) = InsertAt(s, at, e)
          /\ \A i \in 1 .. L : i < at => ~(EntryCmp(s[i], e, order) > 0)
          /\ at <= L => EntryCmp(s[at], e, order) > 0
    BY InsertPlace
  <1>3. ASSUME NEW i \in 1 .. L, i < at
        PROVE  EntryCmp(s[i], e, order) < 0
    <2>1. EntryCmp(s[i], e, order) \in Int /\ EntryCmp(s[i], e, order) # 0
      BY <1>1, EntryCmpIsAnOrder
    <2> QED  BY <1>2, <1>3, <2>1
  <1>4. ASSUME NEW i \in 1 .. L, at <= i
        PROVE  EntryCmp(e, s[i], order) < 0
    <2>1. at \in 1 .. L
      BY <1>1, <1>2, <1>4
    <2>2. EntryCmp(e, s[at], order) < 0
      BY <1>1, <1>2, <2>1, NotBoth
    <2>3. CASE i = at
      BY <2>2, <2>3
    <2>4. CASE at < i
      <3>1. EntryCmp(s[at], s[i], order) < 0
        BY <2>1, <2>4 DEF Sorted
      <3> QED  BY <1>1, <2>1, <2>2, <3>1, Before
    <2> QED  BY <1>2, <1>4, <2>3, <2>4
  <1> QED  BY <1>2, <1>3, <1>4

(* An entry more in a sorted view is a sorted view of one entry more. *)
LEMMA InsertFacts ==
  ASSUME NEW order, NEW s \in Seq(Entries), Sorted(s, order), NEW e \in Entries, e \notin ToSet(s)
  PROVE  /\ Insert(s, e, order) \in Seq(Entries) /\ Sorted(Insert(s, e, order), order)
         /\ ToSet(Insert(s, e, order)) = ToSet(s) \cup {e}
  <1> DEFINE L == Len(s)
             r == Insert(s, e, order)
  <1>1. PICK at \in 1 .. L + 1 :
          /\ r = InsertAt(s, at, e)
          /\ \A i \in 1 .. L : i < at => EntryCmp(s[i], e, order) < 0
          /\ \A i \in 1 .. L : at <= i => EntryCmp(e, s[i], order) < 0
    BY InsertOrder
  <1>2. L \in Nat /\ DOMAIN s = 1 .. L
    BY LenProperties
  <1>3. /\ r \in Seq(Entries) /\ Len(r) = L + 1
        /\ \A i \in 1 .. L + 1 : r[i] = IF i < at THEN s[i] ELSE IF i = at THEN e ELSE s[i - 1]
    <2> DEFINE q == InsertAt(s, at, e)
    <2>1. /\ q \in Seq(Entries) /\ Len(q) = L + 1
          /\ \A i \in 1 .. L + 1 : q[i] = IF i < at THEN s[i] ELSE IF i = at THEN e ELSE s[i - 1]
      BY Inserted
    <2>2. r = q
      BY <1>1
    <2> HIDE DEF r, q
    <2> QED  BY <2>1, <2>2
  <1> HIDE DEF L, r
  <1>4. ASSUME NEW i \in 1 .. L + 1, NEW j \in 1 .. L + 1, i < j
        PROVE  EntryCmp(r[i], r[j], order) < 0
    <2>0. \A u, v \in 1 .. L : u < v => EntryCmp(s[u], s[v], order) < 0
      BY DEF Sorted, L
    <2>1. CASE j < at
      <3>1. r[i] = s[i] /\ r[j] = s[j] /\ i \in 1 .. L /\ j \in 1 .. L
        BY <1>2, <1>3, <1>4, <2>1
      <3> QED  BY <1>4, <2>0, <3>1
    <2>2. CASE j = at
      <3>1. r[i] = s[i] /\ r[j] = e /\ i \in 1 .. L /\ i < at
        BY <1>2, <1>3, <1>4, <2>2
      <3> QED  BY <1>1, <3>1
    <2>3. CASE at < j /\ i < at
      <3>1. r[i] = s[i] /\ r[j] = s[j - 1] /\ i \in 1 .. L /\ j - 1 \in 1 .. L /\ i < j - 1
        BY <1>2, <1>3, <1>4, <2>3
      <3> QED  BY <2>0, <3>1
    <2>4. CASE at < j /\ i = at
      <3>1. r[i] = e /\ r[j] = s[j - 1] /\ j - 1 \in 1 .. L /\ at <= j - 1
        BY <1>2, <1>3, <1>4, <2>4
      <3> QED  BY <1>1, <3>1
    <2>5. CASE at < i
      <3>1. r[i] = s[i - 1] /\ r[j] = s[j - 1] /\ i - 1 \in 1 .. L /\ j - 1 \in 1 .. L /\ i - 1 < j - 1
        BY <1>2, <1>3, <1>4, <2>5
      <3> QED  BY <2>0, <3>1
    <2>6. j < at \/ j = at \/ (at < j /\ i < at) \/ (at < j /\ i = at) \/ at < i
      OBVIOUS
    <2> QED  BY <2>1, <2>2, <2>3, <2>4, <2>5, <2>6
  <1>5. ToSet(r) = {r[i] : i \in 1 .. L + 1} /\ ToSet(s) = {s[i] : i \in 1 .. L}
    <2>1. DOMAIN r = 1 .. L + 1
      BY <1>3, LenProperties
    <2> QED  BY <1>2, <2>1 DEF ToSet
  <1>6. \A i \in 1 .. L + 1 : r[i] \in {s[j] : j \in 1 .. L} \cup {e}
    <2> SUFFICES ASSUME NEW i \in 1 .. L + 1 PROVE r[i] \in {s[j] : j \in 1 .. L} \cup {e}
      OBVIOUS
    <2>1. \/ i < at /\ i \in 1 .. L
          \/ i = at
          \/ at < i /\ i - 1 \in 1 .. L
      BY <1>2
    <2> QED  BY <1>3, <2>1
  <1>7. \A j \in 1 .. L : \E i \in 1 .. L + 1 : r[i] = s[j]
    <2> SUFFICES ASSUME NEW j \in 1 .. L PROVE \E i \in 1 .. L + 1 : r[i] = s[j]
      OBVIOUS
    <2>1. CASE j < at
      <3>1. j \in 1 .. L + 1
        BY <1>2
      <3> QED  BY <1>3, <2>1, <3>1
    <2>2. CASE ~(j < at)
      <3>1. j + 1 \in 1 .. L + 1 /\ ~(j + 1 < at) /\ j + 1 # at /\ (j + 1) - 1 = j
        BY <1>2, <2>2
      <3> QED  BY <1>3, <3>1
    <2> QED  BY <2>1, <2>2
  <1>8. r[at] = e
    BY <1>3
  <1>9. ToSet(r) = ToSet(s) \cup {e}
    BY <1>5, <1>6, <1>7, <1>8
  <1>10. Sorted(r, order)
    BY <1>3, <1>4 DEF Sorted
  <1> QED  BY <1>3, <1>9, <1>10 DEF r

(* A set's elements can be taken one after another. *)
LEMMA SetToSeqFacts ==
  ASSUME NEW S, IsFiniteSet(S)
  PROVE  /\ SetToSeq(S) \in Seq(S) /\ Len(SetToSeq(S)) = Cardinality(S)
         /\ ToSet(SetToSeq(S)) = S
         /\ \A i, j \in 1 .. Len(SetToSeq(S)) : SetToSeq(S)[i] = SetToSeq(S)[j] => i = j
  <1> DEFINE n == Cardinality(S)
             f == SetToSeq(S)
  <1>1. n \in Nat /\ ExistsBijection(1 .. n, S)
    BY FS_CardinalityType
  <1>2. PICK g \in [1 .. n -> S] : IsInjective(g)
    BY <1>1 DEF ExistsBijection, Bijection, Injection, IsInjective
  <1>3. f \in [1 .. n -> S] /\ IsInjective(f)
    BY <1>2 DEF SetToSeq
  <1> HIDE DEF f
  <1>4. f \in Seq(S) /\ Len(f) = n /\ DOMAIN f = 1 .. n
    BY <1>1, <1>3
  <1>5. f \in Injection(1 .. n, S)
    BY <1>3 DEF Injection, IsInjective
  <1>6. Cardinality(1 .. n) = n
    BY <1>1, FS_Interval
  <1>7. f \in Surjection(1 .. n, S)
    BY <1>5, <1>6, FS_Injection
  <1>8. ToSet(f) = S
    BY <1>3, <1>4, <1>7 DEF Surjection, ToSet
  <1>9. \A i, j \in 1 .. n : f[i] = f[j] => i = j
    BY <1>3, <1>4 DEF IsInjective
  <1> QED  BY <1>4, <1>8, <1>9 DEF f

(* The entries that the query in a text is for. *)
Matching(S, text, hidden) ==
  {e \in S : /\ hidden \/ ~e.hidden
             /\ Satisfies(Trimmed(text), e.name, Matched(Trimmed(text), e.name))}

(* A view holds the entries that match, in the order chosen. *)
LEMMA BuildFacts ==
  ASSUME NEW S, IsFiniteSet(S), S \subseteq Entries, NEW order, NEW query \in Texts, NEW hidden
  PROVE  /\ BuildViewOf(S, order, query, hidden) \in Seq(Entries)
         /\ Sorted(BuildViewOf(S, order, query, hidden), order)
         /\ ToSet(BuildViewOf(S, order, query, hidden)) = Matching(S, query, hidden)
  <1> DEFINE matching == Matching(S, query, hidden)
             es == SetToSeq(matching)
             N == Len(es)
             V == Seq(Entries)
             v == <<>>
             F == [n \in 1 .. N |-> [s \in V |-> Insert(s, es[n], order)]]
             Builds(f) == f = [n \in 0 .. N |->
                                 IF n = 0 THEN v ELSE Insert(f[n - 1], es[n], order)]
             f == CHOOSE g : Builds(g)
  <1>1. IsFiniteSet(matching) /\ matching \subseteq Entries
    BY FS_Subset DEF Matching
  <1>2. BuildViewOf(S, order, query, hidden) = f[N]
    BY DEF BuildViewOf, Matching
  <1> HIDE DEF matching
  <1>3. /\ es \in Seq(matching) /\ ToSet(es) = matching
        /\ \A i, j \in 1 .. N : es[i] = es[j] => i = j
    BY <1>1, SetToSeqFacts
  <1> HIDE DEF es
  <1>4. N \in Nat /\ DOMAIN es = 1 .. N /\ \A n \in 1 .. N : es[n] \in matching
    BY <1>3, LenProperties, ElementOfSeq
  <1>5. v \in V /\ \A n \in 1 .. N, s \in V : Insert(s, es[n], order) \in V
    <2>1. \A n \in 1 .. N : es[n] \in Entries
      BY <1>1, <1>4
    <2> QED  BY <2>1, InsertIsView
  <1>6. F \in Steps(V, N) /\ \A n \in 1 .. N, s \in V : F[n][s] = Insert(s, es[n], order)
    BY <1>5 DEF Steps
  <1> HIDE DEF V, v, F, N
  <1>7. \E g : Builds(g)
    <2>1. PICK g \in [0 .. N -> V] :
            g = [n \in 0 .. N |-> IF n = 0 THEN v ELSE F[n][g[n - 1]]]
      BY <1>4, <1>5, <1>6, Iteration
    <2>2. ASSUME NEW n \in 0 .. N, n # 0
          PROVE  F[n][g[n - 1]] = Insert(g[n - 1], es[n], order)
      <3>1. n \in 1 .. N /\ n - 1 \in 0 .. N
        BY <1>4, <2>2
      <3> QED  BY <1>6, <2>1, <3>1
    <2>3. Builds(g)
      BY <2>1, <2>2
    <2> QED  BY <2>3
  <1>8. Builds(f)
    BY <1>7
  <1> HIDE DEF f
  <1> DEFINE Right(n) == /\ f[n] \in Seq(Entries) /\ Sorted(f[n], order)
                         /\ ToSet(f[n]) = {es[i] : i \in 1 .. n}
             T == {n \in Nat : n \in 0 .. N => Right(n)}
  <1>9. 0 \in T
    <2>1. f[0] = <<>>
      BY <1>4, <1>8 DEF v
    <2>2. <<>> \in Seq(Entries) /\ Len(<<>>) = 0 /\ DOMAIN <<>> = 1 .. 0
      OBVIOUS
    <2>3. Sorted(<<>>, order) /\ ToSet(<<>>) = {}
      BY <2>2 DEF Sorted, ToSet
    <2>4. {es[i] : i \in 1 .. 0} = {}
      OBVIOUS
    <2>5. Right(0)
      BY <2>1, <2>2, <2>3, <2>4
    <2> HIDE DEF Right
    <2> QED  BY <2>5
  <1>10. ASSUME NEW n \in Nat, n \in T
         PROVE  n + 1 \in T
    <2> SUFFICES ASSUME n + 1 \in 0 .. N PROVE Right(n + 1)
      OBVIOUS
    <2>1. /\ n \in 0 .. N /\ n + 1 \in 1 .. N /\ (n + 1) - 1 = n /\ n + 1 # 0
          /\ 1 .. n + 1 = (1 .. n) \cup {n + 1} /\ n + 1 \notin 1 .. n
          /\ \A i \in 1 .. n : i \in 1 .. N
      BY <1>4
    <2>2. Right(n)
      BY <1>10, <2>1
    <2>3. f[n + 1] = Insert(f[n], es[n + 1], order)
      BY <1>8, <2>1
    <2>4. es[n + 1] \in Entries
      BY <1>1, <1>4, <2>1
    <2>5. es[n + 1] \notin ToSet(f[n])
      <3>1. \A i \in 1 .. n : es[i] # es[n + 1]
        BY <1>3, <2>1 DEF N
      <3> QED  BY <2>2, <3>1
    <2>6. /\ f[n + 1] \in Seq(Entries) /\ Sorted(f[n + 1], order)
          /\ ToSet(f[n + 1]) = ToSet(f[n]) \cup {es[n + 1]}
      BY <2>2, <2>3, <2>4, <2>5, InsertFacts
    <2>7. ToSet(f[n + 1]) = {es[i] : i \in 1 .. n + 1}
      BY <2>1, <2>2, <2>6
    <2> QED  BY <2>6, <2>7
  <1>11. Right(N)
    <2>1. Nat \subseteq T
      <3> HIDE DEF T
      <3> QED  BY <1>9, <1>10, Induction
    <2>2. N \in 0 .. N /\ N \in Nat
      BY <1>4
    <2> QED  BY <2>1, <2>2
  <1>12. {es[i] : i \in 1 .. N} = matching
    BY <1>3, <1>4 DEF ToSet
  <1> QED  BY <1>2, <1>11, <1>12 DEF matching

------------------------------------------------------------------------------
(* The suffix that the index is searched with.                             *)

(* What a text ends with is its suffix. *)
LEMMA SuffixFacts ==
  ASSUME NEW s \in Texts, NEW t \in Texts, Len(s) <= Len(t),
         \A i \in 1 .. Len(s) : s[i] = t[Len(t) - Len(s) + i]
  PROVE  IsSuffix(s, t)
  <1> DEFINE m == Len(s)
             n == Len(t)
             r == Reverse(s)
             u == Reverse(t)
  <1>1. /\ m \in Nat /\ n \in Nat
        /\ \A i \in 1 .. m : s[i] \in Nat
        /\ \A i \in 1 .. n : t[i] \in Nat
    BY TextFacts
  <1>2. /\ r \in [1 .. m -> Nat] /\ \A i \in 1 .. m : r[i] = s[(m - i) + 1]
        /\ u \in [1 .. n -> Nat] /\ \A i \in 1 .. n : u[i] = t[(n - i) + 1]
    <2>1. /\ \A i \in 1 .. m : (m - i) + 1 \in 1 .. m
          /\ \A i \in 1 .. n : (n - i) + 1 \in 1 .. n
      BY <1>1
    <2>2. r = [i \in 1 .. m |-> s[(m - i) + 1]] /\ u = [i \in 1 .. n |-> t[(n - i) + 1]]
      BY DEF Reverse
    <2> HIDE DEF r, u, m, n
    <2> QED  BY <1>1, <2>1, <2>2
  <1>3. r \in Texts /\ Len(r) = m /\ u \in Texts /\ Len(u) = n
    <2> HIDE DEF r, u
    <2> QED  BY <1>1, <1>2, IsText
  <1>4. m <= n /\ \A i \in 1 .. m : s[i] = t[n - m + i]
    OBVIOUS
  <1> HIDE DEF m, n, r, u
  <1>5. \A i \in 1 .. m : r[i] = u[i]
    <2> SUFFICES ASSUME NEW i \in 1 .. m PROVE r[i] = u[i]
      OBVIOUS
    <2>1. /\ i \in 1 .. n /\ (m - i) + 1 \in 1 .. m
          /\ n - m + ((m - i) + 1) = (n - i) + 1
      BY <1>1, <1>4
    <2> QED  BY <1>2, <1>4, <2>1
  <1>6. /\ SubSeq(r, 1, m) \in Seq(Nat) /\ Len(SubSeq(r, 1, m)) = m
        /\ \A i \in 1 .. m : SubSeq(r, 1, m)[i] = r[i]
    <2>1. 1 \in Int /\ m \in Int /\ \A i \in 1 .. m : r[i] \in Nat
      BY <1>1, <1>2
    <2>2. /\ SubSeq(r, 1, m) \in Seq(Nat)
          /\ Len(SubSeq(r, 1, m)) = IF 1 <= m THEN m - 1 + 1 ELSE 0
          /\ \A i \in 1 .. m - 1 + 1 : SubSeq(r, 1, m)[i] = r[1 + i - 1]
      BY <2>1, SubSeqProperties
    <2>3. m - 1 + 1 = m /\ \A i \in 1 .. m : 1 + i - 1 = i
      BY <1>1
    <2> QED  BY <1>1, <2>2, <2>3
  <1>7. /\ SubSeq(u, 1, m) \in Seq(Nat) /\ Len(SubSeq(u, 1, m)) = m
        /\ \A i \in 1 .. m : SubSeq(u, 1, m)[i] = u[i]
    <2>1. 1 \in Int /\ m \in Int /\ \A i \in 1 .. m : u[i] \in Nat
      BY <1>1, <1>2, <1>4
    <2>2. /\ SubSeq(u, 1, m) \in Seq(Nat)
          /\ Len(SubSeq(u, 1, m)) = IF 1 <= m THEN m - 1 + 1 ELSE 0
          /\ \A i \in 1 .. m - 1 + 1 : SubSeq(u, 1, m)[i] = u[1 + i - 1]
      BY <2>1, SubSeqProperties
    <2>3. m - 1 + 1 = m /\ \A i \in 1 .. m : 1 + i - 1 = i
      BY <1>1
    <2> QED  BY <1>1, <2>2, <2>3
  <1>8. SubSeq(r, 1, m) = SubSeq(u, 1, m)
    BY <1>5, <1>6, <1>7, SeqEqual
  <1>9. IsPrefix(r, u)
    BY <1>3, <1>4, <1>8 DEF IsPrefix
  <1> QED  BY <1>9 DEF IsSuffix, r, u

(* A star and bytes that are no wildcards match what ends with those bytes. *)
LEMMA SuffixGlobs ==
  ASSUME NEW pat \in Texts, NEW text \in Texts, Globs(pat, text),
         Len(pat) >= 1, pat[1] = Star,
         \A i \in 2 .. Len(pat) : pat[i] \notin {Star, AnyByte}
  PROVE  /\ Len(pat) - 1 <= Len(text)
         /\ \A i \in 2 .. Len(pat) : pat[i] = text[i + Len(text) - Len(pat)]
  <1> DEFINE P == Len(pat)
             T == Len(text)
  <1>1. PICK g : MatchStarts(g, pat, text) /\ Globs(pat, text) = (1 \in g[1])
    BY GlobsFacts
  <1>2. P \in Nat /\ T \in Nat /\ P >= 1
    BY TextFacts
  <1>3. /\ g[P + 1] = {T + 1}
        /\ \A i \in 2 .. P :
             g[i] = {j \in 1 .. T : j + 1 \in g[i + 1] /\ pat[i] \in {AnyByte, text[j]}}
    <2>1. \A i \in 2 .. P : i \in 1 .. P
      BY <1>2
    <2>2. \A i \in 1 .. P :
            g[i] = IF pat[i] = Star
                   THEN {j \in 1 .. T + 1 : \E k \in g[i + 1] : j <= k}
                   ELSE {j \in 1 .. T : j + 1 \in g[i + 1] /\ pat[i] \in {AnyByte, text[j]}}
      BY <1>1 DEF MatchStarts
    <2>3. \A i \in 2 .. P : pat[i] # Star
      OBVIOUS
    <2> QED  BY <1>1, <2>1, <2>2, <2>3 DEF MatchStarts
  <1> DEFINE Ends(i) == \A j \in g[i] : /\ j \in Nat /\ j + P = i + T
                                        /\ \A m \in i .. P : pat[m] = text[m + T - P]
             U == {n \in Nat : n + 1 <= P => Ends(P + 1 - n)}
  <1>4. \A i \in 2 .. P : pat[i] # AnyByte
    OBVIOUS
  <1>5. 1 \in g[1] /\ \E k \in g[2] : 1 <= k
    <2>1. 1 \in g[1]
      BY <1>1
    <2>2. 1 \in 1 .. P
      BY <1>2
    <2>3. g[1] = {j \in 1 .. T + 1 : \E k \in g[1 + 1] : j <= k}
      BY <1>1, <2>2 DEF MatchStarts
    <2> QED  BY <2>1, <2>3
  <1> HIDE DEF P, T
  <1>6. 0 \in U
    <2>1. P + 1 - 0 = P + 1 /\ P + 1 .. P = {}
      BY <1>2
    <2> QED  BY <1>2, <1>3, <2>1
  <1>7. ASSUME NEW n \in Nat, n \in U
        PROVE  n + 1 \in U
    <2> SUFFICES ASSUME (n + 1) + 1 <= P PROVE Ends(P + 1 - (n + 1))
      OBVIOUS
    <2> DEFINE i == P - n
    <2>1. i \in 2 .. P /\ P + 1 - (n + 1) = i /\ P + 1 - n = i + 1 /\ n + 1 <= P
      BY <1>2
    <2> HIDE DEF i
    <2>2. Ends(i + 1)
      BY <1>7, <2>1
    <2>3. ASSUME NEW j \in g[i]
          PROVE  /\ j \in Nat /\ j + P = i + T
                 /\ \A m \in i .. P : pat[m] = text[m + T - P]
      <3>1. j \in 1 .. T /\ j + 1 \in g[i + 1] /\ pat[i] = text[j]
        BY <1>3, <1>4, <2>1
      <3>2. /\ (j + 1) + P = (i + 1) + T
            /\ \A m \in i + 1 .. P : pat[m] = text[m + T - P]
        BY <2>2, <3>1
      <3>3. j \in Nat /\ j + P = i + T /\ i + T - P = j
        BY <1>2, <2>1, <3>1, <3>2
      <3>4. i .. P = {i} \cup (i + 1 .. P)
        BY <1>2, <2>1
      <3> QED  BY <3>1, <3>2, <3>3, <3>4
    <2>4. Ends(i)
      BY <2>3
    <2> QED  BY <2>1, <2>4
  <1>8. Ends(2) \/ P = 1
    <2>1. Nat \subseteq U
      <3> HIDE DEF U
      <3> QED  BY <1>6, <1>7, Induction
    <2>2. P - 1 \in Nat /\ (P - 1) + 1 <= P /\ P + 1 - (P - 1) = 2
      BY <1>2
    <2> QED  BY <2>1, <2>2
  <1>9. CASE P = 1
    <2>1. 2 .. P = {} /\ P - 1 <= T
      BY <1>2, <1>9
    <2> QED  BY <2>1 DEF P, T
  <1>10. CASE Ends(2)
    <2>1. PICK k \in g[2] : 1 <= k
      BY <1>5
    <2>2. k \in Nat /\ k + P = 2 + T /\ \A m \in 2 .. P : pat[m] = text[m + T - P]
      BY <1>10, <2>1
    <2>3. P - 1 <= T
      BY <1>2, <2>1, <2>2
    <2> QED  BY <2>2, <2>3 DEF P, T
  <1> QED  BY <1>8, <1>9, <1>10

(* The text of such a clause is the end of every path that satisfies the query. *)
LEMMA SuffixClause ==
  ASSUME NEW q \in Texts, NEW path \in Texts, Star \notin ToSet(path),
         Satisfies(q, path, Matched(q, path)),
         NEW c \in Clauses(q), IsSuffixClause(c)
  PROVE  LET s == Tail(c[1].atom)
             N == Normalized(path)
         IN  /\ s \in Texts /\ Slash \notin ToSet(s) /\ Len(s) <= Len(N)
             /\ \A i \in 1 .. Len(s) : s[i] = N[Len(N) - Len(s) + i]
  <1> DEFINE t == c[1]
             s == Tail(t.atom)
             N == Normalized(path)
  <1>1. c \in Seq(TermSet) /\ ToSet(c) \subseteq TermSet /\ Len(c) = 1
    BY ClauseFacts DEF IsSuffixClause
  <1>2. ToSet(c) = {t} /\ t \in TermSet
    <2>1. DOMAIN c = 1 .. 1 /\ 1 .. 1 = {1}
      BY <1>1, LenProperties
    <2>2. ToSet(c) = {c[1]}
      BY <2>1 DEF ToSet
    <2> QED  BY <1>1, <2>2
  <1>3. /\ ~t.exclude /\ t.wild /\ Len(t.atom) > 1 /\ Head(t.atom) = Star
        /\ ToSet(s) \cap {Star, AnyByte, Slash} = {}
    BY DEF IsSuffixClause
  <1>4. t.atom \in Texts /\ Len(t.atom) \in Nat
    <2>1. t.atom \in Texts
      BY <1>2 DEF TermSet
    <2> QED  BY <2>1, TextFacts
  <1>5. t.atom \in Matched(q, path)
    <2>1. \E x \in ToSet(c) : x.exclude # (IF x.wild THEN x.atom \in Matched(q, path)
                                           ELSE HasPart(N, x.atom))
      BY DEF Satisfies
    <2>2. t.exclude # (IF t.wild THEN t.atom \in Matched(q, path) ELSE HasPart(N, t.atom))
      BY <1>2, <2>1
    <2>3. t.exclude = FALSE
      BY <1>2, <1>3 DEF TermSet
    <2> SUFFICES ASSUME t.atom \notin Matched(q, path) PROVE FALSE
      OBVIOUS
    <2>4. (t.atom \in Matched(q, path)) = FALSE
      OBVIOUS
    <2> HIDE DEF t, N
    <2>5. (IF t.wild THEN t.atom \in Matched(q, path) ELSE HasPart(N, t.atom)) = FALSE
      BY <1>3, <2>4, Zenon
    <2> QED  BY <2>2, <2>3, <2>5, Zenon
  <1>6. N \in Texts /\ Star \notin ToSet(N) /\ Len(N) \in Nat
    BY NormalizedFacts, NoNewStars, TextFacts
  <1>7. Globs(t.atom, N)
    <2>1. WildcardMatch(t.atom, N)
      BY <1>5 DEF Matched
    <2> HIDE DEF N
    <2> QED  BY <1>4, <1>6, <2>1, WildcardMatchIsRight
  <1> DEFINE p == t.atom
  <1>8. /\ s \in Texts /\ Len(s) = Len(p) - 1
        /\ \A i \in 1 .. Len(p) - 1 : s[i] = p[i + 1]
        /\ p[1] = Star
    <2>1. p # <<>>
      BY <1>3
    <2> HIDE DEF t
    <2> QED  BY <1>3, <1>4, <2>1, HeadTailProperties DEF Texts
  <1>9. ToSet(s) = {s[i] : i \in 1 .. Len(s)} /\ Len(s) \in Nat
    BY <1>8, TextFacts
  <1> HIDE DEF t, s, N
  <1>10. \A i \in 2 .. Len(p) : p[i] \notin {Star, AnyByte}
    <2> SUFFICES ASSUME NEW i \in 2 .. Len(p) PROVE p[i] \notin {Star, AnyByte}
      OBVIOUS
    <2>1. i - 1 \in 1 .. Len(p) - 1 /\ (i - 1) + 1 = i
      BY <1>4
    <2>2. p[i] \in ToSet(s)
      BY <1>8, <1>9, <2>1
    <2> QED  BY <1>3, <2>2
  <1>11. /\ Len(p) - 1 <= Len(N)
         /\ \A i \in 2 .. Len(p) : p[i] = N[i + Len(N) - Len(p)]
    <2>1. p \in Texts /\ Globs(p, N) /\ Len(p) >= 1 /\ p[1] = Star
      BY <1>3, <1>4, <1>7, <1>8
    <2> HIDE DEF p
    <2> QED  BY <1>6, <1>10, <2>1, SuffixGlobs
  <1>12. \A i \in 1 .. Len(s) : s[i] = N[Len(N) - Len(s) + i]
    <2> SUFFICES ASSUME NEW i \in 1 .. Len(s) PROVE s[i] = N[Len(N) - Len(s) + i]
      OBVIOUS
    <2>1. /\ i \in 1 .. Len(p) - 1 /\ i + 1 \in 2 .. Len(p)
          /\ (i + 1) + Len(N) - Len(p) = Len(N) - Len(s) + i
      BY <1>4, <1>6, <1>8
    <2> QED  BY <1>8, <1>11, <2>1
  <1>13. Slash \notin ToSet(s)
    BY <1>3
  <1> QED  BY <1>8, <1>11, <1>12, <1>13 DEF t, s, N

(* What a query requires of a name that is listed, the name has if its path *)
(* satisfies the query.                                                     *)
LEMMA SuffixLosesNone ==
  ASSUME NEW q \in Texts, NEW e \in Entries,
         Satisfies(q, ShownPath \o e.name, Matched(q, ShownPath \o e.name))
  PROVE  IsSuffix(RequiredNameSuffix(q), Lowered(e.name))
  <1> DEFINE path == ShownPath \o e.name
             N == Normalized(path)
             low == Lowered(e.name)
             fits == {i \in DOMAIN Tokens(q) : IsSuffixClause(Tokens(q)[i])}
             first == CHOOSE i \in fits : \A k \in fits : i <= k
             H == Len(ShownPath)
             n == Len(e.name)
  <1>1. /\ e.name \in Texts /\ ToSet(e.name) \cap {Star, AnyByte, Slash, Backslash} = {}
        /\ ShownPath \in Texts /\ ShownPath # <<>>
        /\ Star \notin ToSet(ShownPath) /\ Last(ShownPath) = Backslash
    BY ViewsAssumption DEF Texts
  <1>2. /\ n \in Nat /\ \A i \in 1 .. n : e.name[i] \in Nat
        /\ ToSet(e.name) = {e.name[i] : i \in 1 .. n}
        /\ H \in Nat /\ \A i \in 1 .. H : ShownPath[i] \in Nat
        /\ ToSet(ShownPath) = {ShownPath[i] : i \in 1 .. H}
    BY <1>1, TextFacts
  <1>3. H >= 1 /\ ShownPath[H] = Backslash
    BY <1>1, <1>2, EmptySeq DEF Last, Texts
  <1>4. /\ path \in Texts /\ Len(path) = H + n
        /\ \A i \in 1 .. H + n : path[i] = IF i <= H THEN ShownPath[i] ELSE e.name[i - H]
    BY <1>1, ConcatProperties DEF Texts
  <1>5. low \in Texts /\ Len(low) = n /\ \A i \in 1 .. n : low[i] = LowerCase(e.name[i])
    BY <1>1, LoweredFacts
  <1> HIDE DEF path, low, H, n
  <1>6. /\ N \in Texts /\ Len(N) = H + n
        /\ \A i \in 1 .. H + n : N[i] = IF path[i] = Backslash THEN Slash ELSE LowerCase(path[i])
    BY <1>4, NormalizedFacts
  <1>7. Star \notin ToSet(path)
    <2>1. ToSet(path) = {path[i] : i \in 1 .. H + n}
      BY <1>4, TextFacts
    <2>2. ASSUME NEW i \in 1 .. H + n PROVE path[i] # Star
      <3>1. CASE i <= H
        <4>1. i \in 1 .. H /\ path[i] = ShownPath[i]
          BY <1>2, <1>4, <3>1
        <4> QED  BY <1>1, <1>2, <4>1
      <3>2. CASE ~(i <= H)
        <4>1. i - H \in 1 .. n /\ path[i] = e.name[i - H]
          BY <1>2, <1>4, <3>2
        <4> QED  BY <1>1, <1>2, <4>1
      <3> QED  BY <3>1, <3>2
    <2> QED  BY <2>1, <2>2
  <1> HIDE DEF N
  <1>8. CASE fits = {}
    <2>1. RequiredNameSuffix(q) = <<>>
      BY <1>8 DEF RequiredNameSuffix
    <2>2. <<>> \in Texts /\ Len(<<>>) = 0 /\ 1 .. 0 = {}
      BY DEF Texts
    <2>3. IsSuffix(<<>>, low)
      BY <1>2, <1>5, <2>2, SuffixFacts
    <2> QED  BY <2>1, <2>3 DEF low
  <1>9. CASE fits # {}
    <2> DEFINE c == Tokens(q)[first]
               s == Tail(c[1].atom)
    <2>1. first \in fits
      <3>1. DOMAIN Tokens(q) \subseteq Nat
        BY TokensFacts, LenProperties
      <3>2. fits \subseteq Nat
        BY <3>1
      <3> HIDE DEF fits
      <3>3. \E i \in fits : \A k \in fits : i <= k
        BY <1>9, <3>2, Least
      <3> QED  BY <3>3
    <2>2. RequiredNameSuffix(q) = s
      BY <1>9 DEF RequiredNameSuffix
    <2> HIDE DEF first
    <2>3. IsSuffixClause(c) /\ first \in DOMAIN Tokens(q)
      BY <2>1
    <2>4. c \in Clauses(q)
      <3>1. c # <<>>
        <4>1. Len(c) = 1
          BY <2>3 DEF IsSuffixClause
        <4> HIDE DEF c
        <4> QED  BY <4>1
      <3>2. c \in ToSet(Tokens(q))
        BY <2>3 DEF ToSet
      <3> QED  BY <3>1, <3>2 DEF Clauses
    <2> HIDE DEF fits, c
    <2>5. Satisfies(q, path, Matched(q, path))
      BY DEF path
    <2>6. /\ s \in Texts /\ Slash \notin ToSet(s) /\ Len(s) <= Len(N)
          /\ \A i \in 1 .. Len(s) : s[i] = N[Len(N) - Len(s) + i]
      BY <1>4, <1>7, <2>3, <2>4, <2>5, SuffixClause DEF N
    <2>7. Len(s) \in Nat /\ ToSet(s) = {s[i] : i \in 1 .. Len(s)}
      BY <2>6, TextFacts
    <2> HIDE DEF s
    <2>8. \A i \in 1 .. Len(s) : s[i] = N[(H + n) - Len(s) + i]
      <3>1. Len(N) = H + n
        BY <1>6
      <3>2. \A i \in 1 .. Len(s) : s[i] = N[Len(N) - Len(s) + i]
        BY <2>6
      <3> QED  BY <3>1, <3>2
    <2>9. Len(s) <= n
      <3> SUFFICES ASSUME Len(s) > n PROVE FALSE
        BY <1>2, <2>7
      <3> DEFINE i == Len(s) - n
      <3>1. i \in 1 .. Len(s) /\ (H + n) - Len(s) + i = H /\ H \in 1 .. H + n /\ H <= H
        BY <1>2, <1>3, <2>7
      <3>2. s[i] = N[H]
        BY <2>8, <3>1
      <3>3. N[H] = Slash
        BY <1>3, <1>4, <1>6, <3>1
      <3> HIDE DEF i
      <3> QED  BY <2>6, <2>7, <3>1, <3>2, <3>3
    <2>10. ASSUME NEW i \in 1 .. Len(s)
          PROVE  s[i] = low[Len(low) - Len(s) + i]
      <3> DEFINE k == n - Len(s) + i
      <3>1. /\ k \in 1 .. n /\ (H + n) - Len(s) + i = H + k /\ H + k \in 1 .. H + n
            /\ ~(H + k <= H) /\ (H + k) - H = k
        BY <1>2, <2>7, <2>9
      <3>2. s[i] = N[H + k]
        BY <2>8, <3>1
      <3> HIDE DEF k
      <3>3. path[H + k] = e.name[k]
        BY <1>4, <3>1
      <3>4. e.name[k] # Backslash
        BY <1>1, <1>2, <3>1
      <3>5. N[H + k] = LowerCase(e.name[k])
        BY <1>6, <3>1, <3>3, <3>4
      <3>6. s[i] = low[k]
        BY <1>5, <3>1, <3>2, <3>5
      <3> QED  BY <1>5, <3>6 DEF k
    <2>11. IsSuffix(s, low)
      BY <1>5, <2>6, <2>9, <2>10, SuffixFacts
    <2> QED  BY <2>2, <2>11 DEF low
  <1> QED  BY <1>8, <1>9

------------------------------------------------------------------------------
(* The specification.                                                      *)

(* The view shows what the folder and the box hold. *)
ViewsInv ==
  /\ IsFiniteSet(listed) /\ listed \subseteq Entries /\ filter \in Texts
  /\ view = BuildViewOf(listed, spec, filter, showHidden)

(* What is left without the blanks around it is a text. *)
LEMMA TrimmedFacts ==
  ASSUME NEW s \in Texts
  PROVE  Trimmed(s) \in Texts
  <1> DEFINE before == {i \in DOMAIN s : \A k \in 1 .. i : s[k] \in Blanks}
             after == {i \in DOMAIN s : \A k \in i .. Len(s) : s[k] \in Blanks}
             L == Len(s)
             b == Cardinality(before)
             a == Cardinality(after)
  <1>1. L \in Nat /\ DOMAIN s = 1 .. L /\ \A m \in 1 .. L : s[m] \in Nat
    BY TextFacts
  <1>2. Trimmed(s) = SubSeq(s, b + 1, L - a)
    BY DEF Trimmed
  <1>3. before \in SUBSET (1 .. L) /\ after \in SUBSET (1 .. L)
    BY <1>1
  <1>4. b \in Nat /\ a \in Nat
    <2>1. IsFiniteSet(1 .. L)
      BY <1>1, FS_Interval
    <2> HIDE DEF before, after
    <2> QED  BY <1>3, <2>1, FS_Subset, FS_CardinalityType
  <1> HIDE DEF b, a, before, after, L
  <1>5. b + 1 \in Int /\ L - a \in Int /\ \A m \in b + 1 .. L - a : s[m] \in Nat
    BY <1>1, <1>4
  <1> QED  BY <1>2, <1>5, SubSeqProperties DEF Texts

(* The patterns a name matches are those that stand for it. *)
LEMMA MatchedAreGlobbed ==
  ASSUME NEW q \in Texts, NEW e \in Entries
  PROVE  Matched(q, e.name) = Globbed(q, e.name)
  <1>1. e.name \in Texts /\ Star \notin ToSet(e.name)
    BY ViewsAssumption DEF Texts
  <1>2. Normalized(e.name) \in Texts /\ Star \notin ToSet(Normalized(e.name))
    BY <1>1, NormalizedFacts, NoNewStars
  <1>3. \A p \in Patterns(q) :
          WildcardMatch(p, Normalized(e.name)) <=> Globs(p, Normalized(e.name))
    BY <1>2, PatternFacts, WildcardMatchIsRight
  <1> QED  BY <1>3 DEF Matched, Globbed

(* A view that shows what it is to show is right. *)
LEMMA InvGivesProperty ==
  ASSUME ViewsInv
  PROVE  ViewIsSortedAndFiltered
  <1>1. /\ IsFiniteSet(listed) /\ listed \subseteq Entries /\ filter \in Texts
        /\ view = BuildViewOf(listed, spec, filter, showHidden)
    BY DEF ViewsInv
  <1>2. /\ view \in Seq(Entries) /\ Sorted(view, spec)
        /\ ToSet(view) = Matching(listed, filter, showHidden)
    <2> DEFINE v == BuildViewOf(listed, spec, filter, showHidden)
    <2>1. v \in Seq(Entries)
      BY <1>1, BuildFacts
    <2>2. Sorted(v, spec)
      BY <1>1, BuildFacts
    <2>3. ToSet(v) = Matching(listed, filter, showHidden)
      BY <1>1, BuildFacts
    <2> HIDE DEF v
    <2>4. view = v
      BY <1>1 DEF v
    <2> QED  BY <2>1, <2>2, <2>3, <2>4
  <1> DEFINE q == Trimmed(filter)
  <1>7. q \in Texts
    BY <1>1, TrimmedFacts
  <1>8. ToSet(view) = {e \in listed : /\ showHidden \/ ~e.hidden
                                      /\ Satisfies(q, e.name, Matched(q, e.name))}
    BY <1>2 DEF Matching
  <1> HIDE DEF q
  <1>3. \A e \in listed : Matched(q, e.name) = Globbed(q, e.name)
    BY <1>1, <1>7, MatchedAreGlobbed
  <1>4. ToSet(view) = {e \in listed : /\ showHidden \/ ~e.hidden
                                      /\ Satisfies(q, e.name, Globbed(q, e.name))}
    BY <1>3, <1>8
  <1>5. \A i, j \in DOMAIN view : i < j => EntryCmp(view[i], view[j], spec) < 0
    <2>1. DOMAIN view = 1 .. Len(view)
      BY <1>2, LenProperties
    <2> QED  BY <1>2, <2>1 DEF Sorted
  <1>6. ASSUME NEW e \in listed,
               Satisfies(q, ShownPath \o e.name, Matched(q, ShownPath \o e.name))
        PROVE  IsSuffix(RequiredNameSuffix(q), Lowered(e.name))
    BY <1>1, <1>6, <1>7, SuffixLosesNone
  <1> QED  BY <1>4, <1>5, <1>6 DEF ViewIsSortedAndFiltered, q

(* An empty folder is shown empty. *)
LEMMA ViewsStart ==
  ASSUME ViewsInit
  PROVE  ViewsInv
  <1>1. /\ listed = {} /\ filter = <<>> /\ showHidden = FALSE /\ view = <<>>
    BY DEF ViewsInit
  <1>2. IsFiniteSet(listed) /\ listed \subseteq Entries /\ filter \in Texts
    BY <1>1, FS_EmptySet DEF Texts
  <1> DEFINE v == BuildViewOf(listed, spec, filter, showHidden)
  <1>3. v \in Seq(Entries) /\ ToSet(v) = {}
    <2>1. v \in Seq(Entries) /\ ToSet(v) = Matching(listed, filter, showHidden)
      BY <1>2, BuildFacts
    <2>2. Matching(listed, filter, showHidden) = {}
      BY <1>1 DEF Matching
    <2> QED  BY <2>1, <2>2
  <1> HIDE DEF v
  <1>4. Len(v) \in Nat /\ DOMAIN v = 1 .. Len(v)
    BY <1>3, LenProperties
  <1>5. Len(v) = 0
    <2>1. Len(v) # 0 => 1 \in DOMAIN v
      BY <1>4
    <2>2. 1 \in DOMAIN v => v[1] \in ToSet(v)
      BY DEF ToSet
    <2> QED  BY <1>3, <2>1, <2>2
  <1>6. v = <<>>
    BY <1>3, <1>5, EmptySeq
  <1> QED  BY <1>1, <1>2, <1>6 DEF ViewsInv, v

(* Every change is shown. *)
LEMMA ViewsStep ==
  ASSUME ViewsInv, [ViewsNext]_viewsVars
  PROVE  ViewsInv'
  <1>1. IsFiniteSet(listed) /\ listed \subseteq Entries /\ filter \in Texts
    BY DEF ViewsInv
  <1>2. ASSUME NEW e \in Entries, Arrive(e) PROVE ViewsInv'
    <2>1. /\ listed' = listed \cup {e} /\ filter' = filter
          /\ view' = BuildViewOf(listed', spec', filter', showHidden')
      BY <1>2 DEF Arrive, Shows
    <2>2. IsFiniteSet(listed \cup {e})
      BY <1>1, FS_AddElement
    <2> QED  BY <1>1, <2>1, <2>2 DEF ViewsInv
  <1>3. ASSUME NEW b \in FilterBytes, TypeByte(b) PROVE ViewsInv'
    <2>1. /\ listed' = listed /\ filter' = Append(filter, b)
          /\ view' = BuildViewOf(listed', spec', filter', showHidden')
      BY <1>3 DEF TypeByte, Shows
    <2>2. b \in Nat
      BY ViewsAssumption
    <2>3. Append(filter, b) \in Texts
      BY <1>1, <2>2, AppendProperties DEF Texts
    <2> QED  BY <1>1, <2>1, <2>3 DEF ViewsInv
  <1>4. ASSUME Arrange PROVE ViewsInv'
    <2>1. /\ listed' = listed /\ filter' = filter
          /\ view' = BuildViewOf(listed', spec', filter', showHidden')
      BY <1>4 DEF Arrange, Shows
    <2> QED  BY <1>1, <2>1 DEF ViewsInv
  <1>5. ASSUME UNCHANGED viewsVars PROVE ViewsInv'
    BY <1>5 DEF ViewsInv, viewsVars
  <1> QED  BY <1>2, <1>3, <1>4, <1>5 DEF ViewsNext

(* For any folder, any filter and any order that is chosen: the entries that the *)
(* filter is for are shown and no other, each pair of rows is in the order       *)
(* chosen, and the suffix the index is searched with loses no path that the      *)
(* filter is for (build_view, wildcard_match, natural_cmp, entry_cmp,            *)
(* required_name_suffix).                                                        *)
THEOREM ViewIsRight == ViewsSpec => []ViewIsSortedAndFiltered
  <1>1. ViewsInit => ViewsInv
    BY ViewsStart
  <1>2. ViewsInv /\ [ViewsNext]_viewsVars => ViewsInv'
    BY ViewsStep
  <1>3. ViewsInv => ViewIsSortedAndFiltered
    BY InvGivesProperty
  <1> QED  BY <1>1, <1>2, <1>3, PTL DEF ViewsSpec
==============================================================================
