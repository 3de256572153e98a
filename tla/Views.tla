--------------------------------- MODULE Views ---------------------------------
(***************************************************************************)
(* The view of a folder's entries: the query that filters them, and the    *)
(* order they are sorted in (crates/sc-core/src/query.rs, sort.rs).        *)
(* Entries arrive, the user types into the filter box and chooses the      *)
(* order, and the view is built anew each time.                            *)
(*                                                                         *)
(* Names and queries are sequences of bytes in ASCII. The sort of the      *)
(* library is external: here it inserts each entry before the first one    *)
(* that is greater.                                                        *)
(***************************************************************************)
EXTENDS Integers, Sequences, FiniteSets, SequencesExt

CONSTANTS
  Entries,      \* records of name, dir, hidden, size: what folders can hold
  FilterBytes,  \* what is typed
  ShownPath,    \* the path of the folder, with its last separator
  MaxInputs     \* bound: entries in the folder and bytes in the box

Space == 32
Bang == 33
Quote == 34
Star == 42
Dot == 46
Slash == 47
AnyByte == 63
Backslash == 92
Bar == 124
Blanks == {Space} \cup 9..13

\* A folder holds a name once, and no name has a wildcard or a separator.
ASSUME ViewsAssumption ==
  /\ MaxInputs \in Nat /\ FilterBytes \subseteq Nat
  /\ Entries \subseteq [name : Seq(Nat), dir : BOOLEAN, hidden : BOOLEAN, size : Nat]
  /\ \A e, f \in Entries : e.name = f.name => e = f
  /\ \A e \in Entries : ToSet(e.name) \cap {Star, AnyByte, Slash, Backslash} = {}
  /\ ShownPath \in Seq(Nat) /\ ShownPath # <<>>
  /\ Star \notin ToSet(ShownPath) /\ Last(ShownPath) = Backslash

VARIABLES
  listed,     \* the entries of the folder
  filter,     \* the text of the filter box
  spec,       \* SortSpec
  showHidden,
  view        \* what is shown

viewsVars == <<listed, filter, spec, showHidden, view>>

------------------------------------------------------------------------------
(* Queries.                                                                *)

LowerCase(b) == IF b \in 65..90 THEN b + 32 ELSE b
Lowered(s) == [i \in DOMAIN s |-> LowerCase(s[i])]

\* normalize
Normalized(s) == [i \in DOMAIN s |-> IF s[i] = Backslash THEN Slash ELSE LowerCase(s[i])]

\* str::trim, of what build_view and search_names are given
Trimmed(s) ==
  LET before == {i \in DOMAIN s : \A k \in 1..i : s[k] \in Blanks}
      after == {i \in DOMAIN s : \A k \in i..Len(s) : s[k] \in Blanks}
  IN  SubSeq(s, Cardinality(before) + 1, Len(s) - Cardinality(after))

\* The non-empty pieces of s between the bytes of seps; what is between quotes
\* is never split, and the quotes are left out, if quoting says so.
Pieces(s, seps, quoting) ==
  LET cut(st) == IF st.cur = <<>> THEN st.out ELSE Append(st.out, st.cur)
      step(st, b) ==
        IF quoting /\ b = Quote THEN [st EXCEPT !.quoted = ~@]
        ELSE IF b \in seps /\ ~st.quoted THEN [st EXCEPT !.out = cut(st), !.cur = <<>>]
        ELSE [st EXCEPT !.cur = Append(@, b)]
      after[n \in 0..Len(s)] ==
        IF n = 0 THEN [out |-> <<>>, cur |-> <<>>, quoted |-> FALSE]
        ELSE step(after[n - 1], s[n])
  IN  cut(after[Len(s)])

\* parse_term, parse_atom
Term(raw) ==
  LET body == Normalized(IF Head(raw) = Bang THEN Tail(raw) ELSE raw)
  IN  [exclude |-> Head(raw) = Bang, atom |-> body, wild |-> ToSet(body) \cap {Star, AnyByte} # {}]

Terms(token) == LET ps == Pieces(token, {Bar}, FALSE) IN [i \in DOMAIN ps |-> Term(ps[i])]

\* Query::parse: all of the clauses, any of the terms of each. A token without
\* a term is none.
Tokens(q) == LET ts == Pieces(q, Blanks, TRUE) IN [i \in DOMAIN ts |-> Terms(ts[i])]
Clauses(q) == ToSet(Tokens(q)) \ {<<>>}

\* wildcard_match: where it is in pattern and text, the last star it met, 0 if
\* none, and the byte from which on that star was last left.
WildcardMatch(pat, text) ==
  LET points == {s \in [p : 1..Len(pat) + 1, t : 1..Len(text) + 1,
                        star : 0..Len(pat), from : 1..Len(text) + 1] : s.from <= s.t}
      run[s \in points] ==
        IF s.t > Len(text) THEN \A i \in s.p..Len(pat) : pat[i] = Star
        ELSE IF s.p <= Len(pat) /\ pat[s.p] \in {AnyByte, text[s.t]}
        THEN run[[s EXCEPT !.p = @ + 1, !.t = @ + 1]]
        ELSE IF s.p <= Len(pat) /\ pat[s.p] = Star
        THEN run[[s EXCEPT !.p = @ + 1, !.star = s.p, !.from = s.t]]
        ELSE /\ s.star # 0
             /\ run[[s EXCEPT !.p = s.star + 1, !.t = s.from + 1, !.from = @ + 1]]
  IN  run[[p |-> 1, t |-> 1, star |-> 0, from |-> 1]]

HasPart(text, part) ==
  \E i \in 0..Len(text) - Len(part) : SubSeq(text, i + 1, i + Len(part)) = part

\* The patterns among the terms of a query, and those the text matches.
Patterns(q) ==
  {t.atom : t \in {t \in UNION {ToSet(c) : c \in Clauses(q)} : t.wild}}

Matched(q, text) == {p \in Patterns(q) : WildcardMatch(p, Normalized(text))}

\* Query::matches, of a text that matches the patterns given.
Satisfies(q, text, matched) ==
  LET norm == Normalized(text)
      holds(t) == t.exclude # (IF t.wild THEN t.atom \in matched ELSE HasPart(norm, t.atom))
  IN  \A c \in Clauses(q) : \E t \in ToSet(c) : holds(t)

\* A star and a name's end, as the only term of a clause.
IsSuffixClause(c) ==
  /\ Len(c) = 1 /\ ~c[1].exclude /\ c[1].wild
  /\ Len(c[1].atom) > 1 /\ Head(c[1].atom) = Star
  /\ ToSet(Tail(c[1].atom)) \cap {Star, AnyByte, Slash} = {}

\* required_name_suffix: of the first clause of that kind.
RequiredNameSuffix(q) ==
  LET fits == {i \in DOMAIN Tokens(q) : IsSuffixClause(Tokens(q)[i])}
      first == CHOOSE i \in fits : \A k \in fits : i <= k
  IN  IF fits = {} THEN <<>> ELSE Tail(Tokens(q)[first][1].atom)

------------------------------------------------------------------------------
(* The order: below 0 for less, above for greater.                         *)

Then(x, y) == IF x # 0 THEN x ELSE y

\* Ordering of slices of bytes.
ByteCmp(a, b) ==
  LET differ == {k \in DOMAIN a \cap DOMAIN b : a[k] # b[k]}
      first == CHOOSE k \in differ : \A m \in differ : k <= m
  IN  IF differ = {} THEN Len(a) - Len(b) ELSE a[first] - b[first]

IsDigit(b) == b \in 48..57

\* take_digits, from position i on
TakeDigits(s, i) ==
  LET ends == {k \in i..Len(s) : \A m \in i..k : IsDigit(s[m])}
  IN  SubSeq(s, i, i + Cardinality(ends) - 1)

\* trim_zeros: of zeros only, the last is left.
TrimZeros(s) ==
  LET zeros == {k \in DOMAIN s : \A m \in 1..k : s[m] = 48}
  IN  IF zeros = DOMAIN s THEN <<48>> ELSE SubSeq(s, Cardinality(zeros) + 1, Len(s))

DigitsCmp(na, nb) ==
  LET sa == TrimZeros(na)
      sb == TrimZeros(nb)
  IN  Then(Len(sa) - Len(sb), Then(ByteCmp(sa, sb), Len(na) - Len(nb)))

\* Wrong: bytes that differ in more than their case are compared as they are.
LetterCmpOfBytes(x, y) == IF LowerCase(x) = LowerCase(y) THEN 0 ELSE x - y

LetterCmp(x, y) == LowerCase(x) - LowerCase(y)

\* natural_cmp, from byte i of a and byte j of b on: case is the last thing
\* that counts.
NaturalCmp(a, b) ==
  LET run[s \in [i : 1..Len(a) + 1, j : 1..Len(b) + 1]] ==
        IF s.i > Len(a) /\ s.j > Len(b) THEN ByteCmp(a, b)
        ELSE IF s.i > Len(a) THEN -1
        ELSE IF s.j > Len(b) THEN 1
        ELSE IF IsDigit(a[s.i]) /\ IsDigit(b[s.j])
        THEN LET na == TakeDigits(a, s.i)
                 nb == TakeDigits(b, s.j)
             IN  Then(DigitsCmp(na, nb), run[[i |-> s.i + Len(na), j |-> s.j + Len(nb)]])
        ELSE Then(LetterCmp(a[s.i], b[s.j]), run[[i |-> s.i + 1, j |-> s.j + 1]])
  IN  run[[i |-> 1, j |-> 1]]

\* FsEntry::ext
Ext(e) ==
  LET dots == {i \in DOMAIN e.name : e.name[i] = Dot}
      last == CHOOSE i \in dots : \A k \in dots : k <= i
  IN  IF e.dir \/ dots = {} \/ last = 1 \/ last = Len(e.name) THEN <<>>
      ELSE SubSeq(e.name, last + 1, Len(e.name))

\* entry_cmp. The two times are numbers like the size.
EntryCmp(a, b, order) ==
  LET side(e) == IF e.dir THEN 0 ELSE 1
      byKey == CASE order.key = "Size" -> a.size - b.size
                 [] order.key = "Type" -> ByteCmp(Lowered(Ext(a)), Lowered(Ext(b)))
                 [] OTHER -> 0
      ord == Then(side(a) - side(b), Then(byKey, NaturalCmp(a.name, b.name)))
  IN  IF order.ascending THEN ord ELSE -ord

Insert(sorted, e, order) ==
  LET greater == {i \in DOMAIN sorted : EntryCmp(sorted[i], e, order) > 0}
      at == CHOOSE i \in greater \cup {Len(sorted) + 1} : \A k \in greater : i <= k
  IN  InsertAt(sorted, at, e)

\* Wrong: what is typed is the query, blanks and all.
BuildViewAsTyped(entries, order, text, hidden) ==
  LET matching == {e \in entries : /\ hidden \/ ~e.hidden
                                   /\ Satisfies(text, e.name, Matched(text, e.name))}
      es == SetToSeq(matching)
      upTo[n \in 0..Len(es)] ==
        IF n = 0 THEN <<>> ELSE Insert(upTo[n - 1], es[n], order)
  IN  upTo[Len(es)]

\* build_view, of the text of the filter box
BuildViewOf(entries, order, text, hidden) ==
  LET query == Trimmed(text)
      matching == {e \in entries : /\ hidden \/ ~e.hidden
                                   /\ Satisfies(query, e.name, Matched(query, e.name))}
      es == SetToSeq(matching)
      upTo[n \in 0..Len(es)] ==
        IF n = 0 THEN <<>> ELSE Insert(upTo[n - 1], es[n], order)
  IN  upTo[Len(es)]

------------------------------------------------------------------------------
(* The user and the folder.                                                *)

Shows == view' = BuildViewOf(listed', spec', filter', showHidden')
Room == Cardinality(listed) + Len(filter) < MaxInputs

Arrive(e) ==
  /\ Room /\ listed' = listed \cup {e}
  /\ UNCHANGED <<filter, spec, showHidden>> /\ Shows

TypeByte(b) ==
  /\ Room /\ filter' = Append(filter, b)
  /\ UNCHANGED <<listed, spec, showHidden>> /\ Shows

\* Another column, or the same again; hidden files shown or not.
Arrange ==
  /\ \/ \E key \in {"Name", "Size", "Type"} : \E up \in BOOLEAN :
          spec' = [key |-> key, ascending |-> up] /\ UNCHANGED showHidden
     \/ showHidden' = ~showHidden /\ UNCHANGED spec
  /\ UNCHANGED <<listed, filter>> /\ Shows

ViewsInit ==
  /\ listed = {} /\ filter = <<>> /\ showHidden = FALSE /\ view = <<>>
  /\ spec = [key |-> "Name", ascending |-> TRUE]

ViewsNext ==
  \/ \E e \in Entries : Arrive(e)
  \/ \E b \in FilterBytes : TypeByte(b)
  \/ Arrange

ViewsSpec == ViewsInit /\ [][ViewsNext]_viewsVars

------------------------------------------------------------------------------
(* Properties.                                                             *)

\* What a wildcard stands for, a star for any bytes and ? for one: starts[i]
\* are the places in the text from which on it is the pattern's bytes from i on.
Globs(pat, text) ==
  LET starts[i \in 1..Len(pat) + 1] ==
        IF i > Len(pat) THEN {Len(text) + 1}
        ELSE IF pat[i] = Star
        THEN {j \in 1..Len(text) + 1 : \E k \in starts[i + 1] : j <= k}
        ELSE {j \in 1..Len(text) : j + 1 \in starts[i + 1] /\ pat[i] \in {AnyByte, text[j]}}
  IN  1 \in starts[1]

Globbed(q, name) == {p \in Patterns(q) : Globs(p, Normalized(name))}

\* Each entry that the query in the box is for is shown and no other, blanks
\* around it left out even where a quote is open; any two rows, not
\* only neighbours, are in the order that was chosen, so that the comparison
\* is one of a total order; and the suffix the index is searched with first
\* loses no path that matches (build_view, wildcard_match, natural_cmp,
\* required_name_suffix).
ViewIsSortedAndFiltered ==
  LET query == Trimmed(filter) IN
  /\ ToSet(view) = {e \in listed : /\ showHidden \/ ~e.hidden
                                   /\ Satisfies(query, e.name, Globbed(query, e.name))}
  /\ \A i, j \in DOMAIN view : i < j => EntryCmp(view[i], view[j], spec) < 0
  /\ \A e \in listed :
       LET path == ShownPath \o e.name IN
       Satisfies(query, path, Matched(query, path)) =>
         IsSuffix(RequiredNameSuffix(query), Lowered(e.name))
==============================================================================
