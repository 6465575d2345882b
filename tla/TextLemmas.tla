----------------------------- MODULE TextLemmas -----------------------------
(***************************************************************************)
(* Lemmas about texts: induction, what Read computes, what search and      *)
(* replace does at the beginning of a text.                                *)
(***************************************************************************)
EXTENDS TextRewriting, WellFoundedInduction, SequenceTheorems, TLAPS

-----------------------------------------------------------------------------
(* Induction *)

LEMMA Least ==
  ASSUME NEW S \in SUBSET Nat, S # {}
  PROVE  \E n \in S : \A k \in S : n <= k
<1> DEFINE Less == {ss \in Nat \X Nat : ss[1] < ss[2]}
<1>1. IsWellFoundedOn(Less, Nat)
  BY NatLessThanWellFounded DEF OpToRel
<1>2. \A k, n \in Nat : k < n => <<k, n>> \in Less
  OBVIOUS
<1>3. \A k, n \in Nat : ~(k < n) => n <= k
  OBVIOUS
<1> HIDE DEF Less
<1>4. \E n \in S : \A k \in S : <<k, n>> \notin Less
  BY <1>1, WFMin
<1> QED  BY <1>2, <1>3, <1>4

LEMMA Induction ==
  ASSUME NEW S, 0 \in S, \A n \in Nat : n \in S => n + 1 \in S
  PROVE  Nat \subseteq S
<1> DEFINE T == {n \in Nat : n \notin S}
<1> SUFFICES ASSUME T # {} PROVE FALSE
  OBVIOUS
<1>1. PICK n \in T : \A k \in T : n <= k
  BY Least
<1>2. n - 1 \in Nat /\ n - 1 \notin T
  BY <1>1
<1> QED  BY <1>1, <1>2

-----------------------------------------------------------------------------
(* Texts *)

LEMMA ConcatFacts ==
  ASSUME NEW s \in Text, NEW t \in Text
  PROVE  /\ s \o t \in Text
         /\ Len(s \o t) = Len(s) + Len(t)
         /\ \A i \in 1..Len(s) : (s \o t)[i] = s[i]
         /\ \A i \in 1..Len(t) : (s \o t)[Len(s) + i] = t[i]
         /\ \A i \in (Len(s) + 1)..(Len(s) + Len(t)) : (s \o t)[i] = t[i - Len(s)]
BY ConcatProperties, LenProperties DEF Text

LEMMA TextFacts ==
  ASSUME NEW t \in Text
  PROVE  /\ Len(t) \in Nat /\ DOMAIN t = 1..Len(t)
         /\ \A i \in 1..Len(t) : t[i] \in Symbols
         /\ Len(t) = 0 <=> t = <<>>
BY LenProperties, EmptySeq DEF Text

LEMMA TextEqual ==
  ASSUME NEW s \in Text, NEW t \in Text, Len(s) = Len(t),
         \A i \in 1..Len(s) : s[i] = t[i]
  PROVE  s = t
BY SeqEqual DEF Text

LEMMA SymbolFacts ==
  ASSUME NEW x \in Symbols
  PROVE  <<x>> \in Text /\ Len(<<x>>) = 1 /\ <<x>>[1] = x
BY DEF Text

\* Concatenation by a name, which the provers do not look into.
Cat(s, t) == s \o t

LEMMA CatFacts ==
  ASSUME NEW s \in Text, NEW t \in Text
  PROVE  /\ Cat(s, t) \in Text
         /\ Len(Cat(s, t)) = Len(s) + Len(t)
         /\ \A i \in 1..Len(s) : Cat(s, t)[i] = s[i]
         /\ \A i \in 1..Len(t) : Cat(s, t)[Len(s) + i] = t[i]
         /\ \A i \in (Len(s) + 1)..(Len(s) + Len(t)) : Cat(s, t)[i] = t[i - Len(s)]
BY ConcatFacts DEF Cat

LEMMA CatAssoc ==
  ASSUME NEW s \in Text, NEW t \in Text, NEW u \in Text
  PROVE  Cat(Cat(s, t), u) = Cat(s, Cat(t, u))
BY ConcatAssociative DEF Text, Cat

LEMMA CatEmpty ==
  ASSUME NEW t \in Text
  PROVE  Cat(t, <<>>) = t /\ Cat(<<>>, t) = t
BY ConcatEmptySeq DEF Text, Cat

Cons(x, t) == Cat(<<x>>, t)

LEMMA HeadFacts ==
  ASSUME NEW t \in Text, NEW x \in Symbols
  PROVE  /\ <<x>> \in Text /\ Cons(x, t) \in Text /\ Cons(x, t) # <<>>
         /\ Len(Cons(x, t)) = Len(t) + 1 /\ 1 \in 1..Len(Cons(x, t))
         /\ Cons(x, t)[1] = x /\ \A i \in 1..Len(t) : Cons(x, t)[i + 1] = t[i]
<1> DEFINE h == <<x>>
<1>1. h \in Text /\ Len(h) = 1 /\ h[1] = x
  BY SymbolFacts
<1> HIDE DEF h
<1>2. /\ Cat(h, t) \in Text /\ Len(Cat(h, t)) = Len(h) + Len(t)
      /\ \A i \in 1..Len(h) : Cat(h, t)[i] = h[i]
      /\ \A i \in 1..Len(t) : Cat(h, t)[Len(h) + i] = t[i]
  BY <1>1, CatFacts
<1>3. /\ Len(Cat(h, t)) = Len(t) + 1 /\ 1 \in 1..Len(Cat(h, t)) /\ Cat(h, t)[1] = x
      /\ \A i \in 1..Len(t) : Cat(h, t)[i + 1] = t[i]
  <2>1. Len(t) \in Nat
    BY TextFacts
  <2>2. \A i \in 1..Len(t) : 1 + i = i + 1
    OBVIOUS
  <2> QED  BY <1>1, <1>2, <2>1, <2>2
<1>4. Cat(h, t) # <<>>
  BY <1>2, <1>3, TextFacts
<1> QED  BY <1>1, <1>2, <1>3, <1>4 DEF h, Cons

LEMMA ConsCat ==
  ASSUME NEW s \in Text, NEW t \in Text, NEW x \in Symbols
  PROVE  Cat(Cons(x, s), t) = Cons(x, Cat(s, t))
<1> DEFINE h == <<x>>
<1>1. h \in Text
  BY SymbolFacts
<1> HIDE DEF h
<1>2. Cat(Cat(h, s), t) = Cat(h, Cat(s, t))
  BY <1>1, CatAssoc
<1> QED  BY <1>2, Zenon DEF h, Cons

\* A text without its first k symbols.
From(t, k) == SubSeq(t, k, Len(t))

LEMMA FromFacts ==
  ASSUME NEW t \in Text, NEW k \in 1..(Len(t) + 1)
  PROVE  /\ From(t, k) \in Text
         /\ Len(From(t, k)) = Len(t) - k + 1
         /\ \A i \in 1..(Len(t) - k + 1) : From(t, k)[i] = t[k + i - 1]
<1>1. k \in Int /\ Len(t) \in Int /\ \A i \in k..Len(t) : t[i] \in Symbols
  BY TextFacts
<1> QED  BY <1>1, SubSeqProperties, TextFacts DEF Text, From

\* A text is its first symbol and the rest.
LEMMA HeadAndRest ==
  ASSUME NEW t \in Text, t # <<>>
  PROVE  /\ t[1] \in Symbols /\ From(t, 2) \in Text /\ Len(From(t, 2)) = Len(t) - 1
         /\ t = Cons(t[1], From(t, 2))
<1>1. Len(t) \in Nat \ {0} /\ t[1] \in Symbols
  BY TextFacts
<1>2. /\ From(t, 2) \in Text /\ Len(From(t, 2)) = Len(t) - 1
      /\ \A i \in 1..(Len(t) - 1) : From(t, 2)[i] = t[i + 1]
  BY <1>1, FromFacts
<1> DEFINE u == Cons(t[1], From(t, 2))
<1>3. /\ u \in Text /\ Len(u) = Len(t) /\ u[1] = t[1]
      /\ \A i \in 2..Len(t) : u[i] = From(t, 2)[i - 1]
  <2>1. /\ u \in Text /\ Len(u) = Len(From(t, 2)) + 1 /\ u[1] = t[1]
        /\ \A i \in 1..Len(From(t, 2)) : u[i + 1] = From(t, 2)[i]
    BY <1>1, <1>2, HeadFacts
  <2> HIDE DEF u
  <2>2. ASSUME NEW i \in 2..Len(t) PROVE u[i] = From(t, 2)[i - 1]
    <3>1. i - 1 \in 1..Len(From(t, 2)) /\ (i - 1) + 1 = i
      BY <1>1, <1>2
    <3> QED  BY <2>1, <3>1
  <2> QED  BY <1>1, <1>2, <2>1, <2>2
<1>4. \A i \in 1..Len(u) : u[i] = t[i]
  BY <1>1, <1>2, <1>3
<1> QED  BY <1>1, <1>2, <1>3, <1>4, TextEqual

LEMMA FromFrom ==
  ASSUME NEW t \in Text, Len(t) >= 2
  PROVE  From(t, 3) = From(From(t, 2), 2)
<1> DEFINE u == From(t, 2)
<1>1. /\ u \in Text /\ Len(u) = Len(t) - 1 /\ Len(t) \in Nat
      /\ \A i \in 1..(Len(t) - 1) : u[i] = t[i + 1]
  BY FromFacts, TextFacts
<1>2. /\ From(t, 3) \in Text /\ Len(From(t, 3)) = Len(t) - 2
      /\ \A i \in 1..(Len(t) - 2) : From(t, 3)[i] = t[i + 2]
  <2> DEFINE k == 3
  <2>0. k \in 1..(Len(t) + 1)
    BY <1>1
  <2> HIDE DEF k
  <2>1. /\ From(t, k) \in Text /\ Len(From(t, k)) = Len(t) - k + 1
        /\ \A i \in 1..(Len(t) - k + 1) : From(t, k)[i] = t[k + i - 1]
    BY <2>0, FromFacts
  <2> USE DEF k
  <2>2. Len(t) - 3 + 1 = Len(t) - 2 /\ \A i \in Nat : 3 + i - 1 = i + 2
    BY <1>1
  <2> QED  BY <2>1, <2>2
<1> HIDE DEF u
<1>3. /\ From(u, 2) \in Text /\ Len(From(u, 2)) = Len(t) - 2
      /\ \A i \in 1..(Len(t) - 2) : From(u, 2)[i] = u[i + 1]
  BY <1>1, FromFacts
<1>4. \A i \in 1..(Len(t) - 2) : From(t, 3)[i] = From(u, 2)[i]
  <2> SUFFICES ASSUME NEW i \in 1..(Len(t) - 2) PROVE From(t, 3)[i] = From(u, 2)[i]
    OBVIOUS
  <2>1. i + 1 \in 1..(Len(t) - 1) /\ i + 1 + 1 = i + 2
    BY <1>1
  <2> QED  BY <1>1, <1>2, <1>3, <2>1
<1>5. From(t, 3) = From(u, 2)
  BY <1>2, <1>3, <1>4, TextEqual
<1> QED  BY <1>5 DEF u

\* The first n symbols of a text.
LEMMA SubSeqFacts ==
  ASSUME NEW t \in Text, NEW n \in 0..Len(t)
  PROVE  /\ SubSeq(t, 1, n) \in Text /\ Len(SubSeq(t, 1, n)) = n
         /\ \A i \in 1..n : SubSeq(t, 1, n)[i] = t[i]
<1>1. Len(t) \in Nat /\ \A i \in 1..n : t[i] \in Symbols
  BY TextFacts
<1> QED  BY <1>1, SubSeqProperties DEF Text

LEMMA FromConcat ==
  ASSUME NEW s \in Text, NEW t \in Text
  PROVE  From(Cat(s, t), Len(s) + 1) = t
<1>1. /\ Cat(s, t) \in Text /\ Len(s) \in Nat /\ Len(t) \in Nat
      /\ Len(Cat(s, t)) = Len(s) + Len(t)
      /\ \A i \in 1..Len(t) : (Cat(s, t))[Len(s) + i] = t[i]
  BY CatFacts, TextFacts
<1> DEFINE st == Cat(s, t)
           k == Len(s) + 1
<1>2. k \in 1..(Len(st) + 1) /\ Len(st) - k + 1 = Len(t)
  BY <1>1
<1>3. /\ From(st, k) \in Text /\ Len(From(st, k)) = Len(t)
      /\ \A i \in 1..Len(t) : From(st, k)[i] = st[k + i - 1]
  <2> HIDE DEF st, k
  <2> QED  BY <1>1, <1>2, FromFacts DEF st
<1>4. \A i \in 1..Len(t) : From(st, k)[i] = t[i]
  BY <1>1, <1>3
<1> HIDE DEF st, k
<1>5. From(st, k) = t
  BY <1>1, <1>3, <1>4, TextEqual
<1> QED  BY <1>5 DEF st, k

LEMMA TailOfCat ==
  ASSUME NEW t \in Text, NEW x \in Symbols
  PROVE  From(Cons(x, t), 2) = t
<1>1. <<x>> \in Text /\ Len(<<x>>) + 1 = 2
  BY SymbolFacts
<1>2. From(Cons(x, t), Len(<<x>>) + 1) = t
  BY <1>1, FromConcat, Zenon DEF Cons
<1> QED  BY <1>1, <1>2, Zenon

LEMMA TextInduction ==
  ASSUME NEW S, <<>> \in S,
         \A t \in Text, x \in Symbols : t \in S => Cons(x, t) \in S
  PROVE  Text \subseteq S
<1> DEFINE N == {n \in Nat : \A t \in Text : Len(t) = n => t \in S}
<1>1. 0 \in N
  BY TextFacts
<1>2. ASSUME NEW n \in Nat, n \in N
      PROVE  n + 1 \in N
  <2> SUFFICES ASSUME NEW t \in Text, Len(t) = n + 1
               PROVE  t \in S
    OBVIOUS
  <2>1. t # <<>>
    BY TextFacts
  <2>2. /\ t[1] \in Symbols /\ From(t, 2) \in Text /\ Len(From(t, 2)) = Len(t) - 1
        /\ t = Cons(t[1], From(t, 2))
    BY <2>1, HeadAndRest
  <2>3. From(t, 2) \in S
    BY <1>2, <2>2
  <2> QED  BY <2>2, <2>3
<1>3. Nat \subseteq N
  <2> HIDE DEF N
  <2> QED  BY <1>1, <1>2, Induction
<1> QED  BY <1>3, TextFacts

\* A text is its first symbol and the rest in one way.
LEMMA ConsOne ==
  ASSUME NEW x \in Symbols, NEW s \in Text, NEW y \in Symbols, NEW t \in Text,
         Cons(x, s) = Cons(y, t)
  PROVE  x = y /\ s = t
<1>1. Cons(x, s)[1] = x /\ Cons(y, t)[1] = y
  BY HeadFacts
<1>2. From(Cons(x, s), 2) = s /\ From(Cons(y, t), 2) = t
  BY TailOfCat
<1> QED  BY <1>1, <1>2

LEMMA StrongInduction ==
  ASSUME NEW S,
         \A t \in Text : (\A s \in Text : Len(s) < Len(t) => s \in S) => t \in S
  PROVE  Text \subseteq S
<1> DEFINE N == {n \in Nat : \A t \in Text : Len(t) <= n => t \in S}
<1>1. 0 \in N
  BY TextFacts
<1>2. ASSUME NEW n \in Nat, n \in N
      PROVE  n + 1 \in N
  <2> SUFFICES ASSUME NEW t \in Text, Len(t) <= n + 1
               PROVE  t \in S
    OBVIOUS
  <2>1. ASSUME NEW s \in Text, Len(s) < Len(t)
        PROVE  s \in S
    <3>1. Len(s) <= n
      BY <2>1, TextFacts
    <3> QED  BY <1>2, <3>1
  <2> QED  BY <2>1
<1>3. Nat \subseteq N
  <2> HIDE DEF N
  <2> QED  BY <1>1, <1>2, Induction
<1> QED  BY <1>3, TextFacts

-----------------------------------------------------------------------------
(* Read *)

\* Steps over n places: each goes on at a later place.
IsSteps(step, n) ==
  /\ step \in [1..n -> [put : Text, next : 1..(n + 1)]]
  /\ \A i \in 1..n : step[i].next > i

\* The equation that Read solves.
Reading(f, n, step, i) == IF i > n THEN <<>> ELSE step[i].put \o f[step[i].next]

LEMMA ReadingEnds ==
  ASSUME NEW n \in Nat, NEW step, NEW f, NEW i \in Nat, i > n
  PROVE  Reading(f, n, step, i) = <<>>
BY Zenon DEF Reading

LEMMA ReadingPuts ==
  ASSUME NEW n \in Nat, NEW step, NEW f, NEW i \in 1..n
  PROVE  Reading(f, n, step, i) = step[i].put \o f[step[i].next]
<1>1. ~(i > n)
  OBVIOUS
<1> QED  BY <1>1, Zenon DEF Reading

LEMMA StepFacts ==
  ASSUME NEW n \in Nat, NEW step, IsSteps(step, n), NEW i \in 1..n
  PROVE  step[i].put \in Text /\ step[i].next \in (i + 1)..(n + 1)
BY DEF IsSteps

LEMMA ReadingAgrees ==
  ASSUME NEW n \in Nat, NEW step, NEW f, NEW g, NEW i \in 1..n,
         f[step[i].next] = g[step[i].next]
  PROVE  Reading(f, n, step, i) = Reading(g, n, step, i)
BY Zenon DEF Reading

LEMMA ReadExists ==
  ASSUME NEW n \in Nat, NEW step, IsSteps(step, n)
  PROVE  \E f \in [1..(n + 1) -> Text] : \A i \in 1..(n + 1) : f[i] = Reading(f, n, step, i)
<1> DEFINE Solved(k) ==
             \E f \in [(n + 1 - k)..(n + 1) -> Text] :
               \A i \in (n + 1 - k)..(n + 1) : f[i] = Reading(f, n, step, i)
           S == {k \in Nat : k <= n => Solved(k)}
<1>1. 0 \in S
  <2> DEFINE f == [i \in (n + 1 - 0)..(n + 1) |-> <<>>]
  <2>1. f \in [(n + 1 - 0)..(n + 1) -> Text]
    BY TextFacts, EmptySeq DEF Text
  <2>2. \A i \in (n + 1 - 0)..(n + 1) : f[i] = <<>>
    OBVIOUS
  <2> HIDE DEF f
  <2>3. \A i \in (n + 1 - 0)..(n + 1) : Reading(f, n, step, i) = <<>>
    BY ReadingEnds
  <2> QED  BY <2>1, <2>2, <2>3
<1>2. ASSUME NEW k \in Nat, k \in S PROVE k + 1 \in S
  <2> SUFFICES ASSUME k + 1 <= n PROVE Solved(k + 1)
    OBVIOUS
  <2> DEFINE j == n - k
  <2>1. j \in 1..n /\ n + 1 - (k + 1) = j /\ n + 1 - k = j + 1
    OBVIOUS
  <2>2. PICK f \in [(j + 1)..(n + 1) -> Text] :
          \A i \in (j + 1)..(n + 1) : f[i] = Reading(f, n, step, i)
    BY <1>2, <2>1
  <2> HIDE DEF j
  <2>3. /\ step[j].put \in Text /\ step[j].next \in (j + 1)..(n + 1)
        /\ \A i \in (j + 1)..n : step[i].next \in (j + 1)..(n + 1)
    BY <2>1 DEF IsSteps
  <2> DEFINE v == step[j].put \o f[step[j].next]
             g == [i \in j..(n + 1) |-> IF i = j THEN v ELSE f[i]]
  <2>4. v \in Text
    BY <2>2, <2>3, ConcatFacts
  <2>5. Reading(f, n, step, j) = v
    BY <2>1, ReadingPuts, Zenon
  <2> HIDE DEF v
  <2>6. g \in [j..(n + 1) -> Text]
    BY <2>1, <2>2, <2>4
  <2>7. /\ g[j] = v
        /\ \A i \in (j + 1)..(n + 1) : g[i] = f[i]
    BY <2>1
  <2> HIDE DEF g
  <2>8. ASSUME NEW i \in j..(n + 1) PROVE g[i] = Reading(g, n, step, i)
    <3>1. CASE i = j
      <4>1. f[step[j].next] = g[step[j].next]
        BY <2>3, <2>7
      <4> QED  BY <2>1, <2>5, <2>7, <3>1, <4>1, ReadingAgrees
    <3>2. CASE i \in (j + 1)..n
      <4>1. f[step[i].next] = g[step[i].next] /\ i \in 1..n
        BY <2>1, <2>3, <2>7, <3>2
      <4> QED  BY <2>1, <2>2, <2>7, <3>2, <4>1, ReadingAgrees
    <3>3. CASE i = n + 1
      BY <2>1, <2>2, <2>7, <3>3, ReadingEnds
    <3> QED  BY <2>1, <3>1, <3>2, <3>3
  <2> QED  BY <2>1, <2>6, <2>8
<1> HIDE DEF S
<1>3. n \in S
  BY <1>1, <1>2, Induction
<1>4. n + 1 - n = 1
  OBVIOUS
<1> QED  BY <1>3, <1>4 DEF S

\* What solves the equation is what Read computes.
LEMMA ReadIs ==
  ASSUME NEW n \in Nat, NEW step, IsSteps(step, n),
         NEW g \in [1..(n + 1) -> Text], \A i \in 1..(n + 1) : g[i] = Reading(g, n, step, i)
  PROVE  Read(n, step) = g[1]
<1> DEFINE F == CHOOSE f : f = [i \in 1..(n + 1) |-> Reading(f, n, step, i)]
<1>1. g = [i \in 1..(n + 1) |-> Reading(g, n, step, i)]
  OBVIOUS
<1>2. F = [i \in 1..(n + 1) |-> Reading(F, n, step, i)]
  BY <1>1, Zenon
<1>3. Read(n, step) = F[1]
  BY DEF Read, Reading
<1> HIDE DEF F
<1> DEFINE S == {k \in Nat : k <= n => \A i \in (n + 1 - k)..(n + 1) : F[i] = g[i]}
<1>4. 0 \in S
  <2>1. F[n + 1] = Reading(F, n, step, n + 1) /\ g[n + 1] = Reading(g, n, step, n + 1)
    BY <1>2
  <2>2. F[n + 1] = g[n + 1]
    BY <2>1, ReadingEnds
  <2> QED  BY <2>2
<1>5. ASSUME NEW k \in Nat, k \in S PROVE k + 1 \in S
  <2> SUFFICES ASSUME k + 1 <= n PROVE \A i \in (n - k)..(n + 1) : F[i] = g[i]
    OBVIOUS
  <2>1. \A i \in (n + 1 - k)..(n + 1) : F[i] = g[i]
    BY <1>5
  <2>2. n - k \in 1..n /\ step[n - k].next \in (n + 1 - k)..(n + 1)
    BY DEF IsSteps
  <2>3. F[n - k] = g[n - k]
    <3>1. F[n - k] = Reading(F, n, step, n - k) /\ g[n - k] = Reading(g, n, step, n - k)
      BY <1>2, <2>2
    <3>2. F[step[n - k].next] = g[step[n - k].next]
      BY <2>1, <2>2
    <3> QED  BY <2>2, <3>1, <3>2, ReadingAgrees
  <2> QED  BY <2>1, <2>3
<1> HIDE DEF S
<1>6. n \in S
  BY <1>4, <1>5, Induction
<1>7. F[1] = g[1]
  BY <1>6 DEF S
<1> QED  BY <1>3, <1>7

LEMMA ReadFacts ==
  ASSUME NEW n \in Nat, NEW step, IsSteps(step, n)
  PROVE  /\ Read(n, step) \in Text
         /\ n = 0 => Read(n, step) = <<>>
<1>1. PICK f \in [1..(n + 1) -> Text] : \A i \in 1..(n + 1) : f[i] = Reading(f, n, step, i)
  BY ReadExists
<1>2. Read(n, step) = f[1]
  BY <1>1, ReadIs
<1>3. n = 0 => Reading(f, n, step, 1) = <<>>
  BY ReadingEnds
<1> QED  BY <1>1, <1>2, <1>3

\* The steps that are left after the first one.
IsRest(step, n, rest, m) ==
  /\ m = n + 1 - step[1].next
  /\ \A i \in 1..m : /\ rest[i].put = step[i + n - m].put
                     /\ rest[i].next = step[i + n - m].next - (n - m)

ReadsOn(n, step, m, rest) == Read(n, step) = Cat(step[1].put, Read(m, rest))

\* After its first step, Read reads on from there.
LEMMA ReadStep ==
  ASSUME NEW n \in Nat, n > 0, NEW step, IsSteps(step, n),
         NEW m \in Nat, NEW rest, IsSteps(rest, m), IsRest(step, n, rest, m)
  PROVE  ReadsOn(n, step, m, rest)
<1>0. /\ m = n + 1 - step[1].next
      /\ \A i \in 1..m : /\ rest[i].put = step[i + n - m].put
                         /\ rest[i].next = step[i + n - m].next - (n - m)
  BY Zenon DEF IsRest
<1>1. PICK f \in [1..(n + 1) -> Text] : \A i \in 1..(n + 1) : f[i] = Reading(f, n, step, i)
  BY ReadExists
<1>2. step[1].next \in 2..(n + 1) /\ step[1].put \in Text
  BY StepFacts
<1>3. m < n /\ n - m + 1 = step[1].next
  <2> DEFINE k == step[1].next
  <2>1. m = n + 1 - k /\ k \in 2..(n + 1)
    BY <1>0, <1>2, Zenon
  <2> HIDE DEF k
  <2>2. m < n /\ n - m + 1 = k
    BY <2>1
  <2> QED  BY <2>2, Zenon DEF k
<1>a. m < n
  BY <1>3, Zenon
<1>4. Read(n, step) = step[1].put \o f[step[1].next]
  <2>1. Read(n, step) = f[1]
    BY <1>1, ReadIs
  <2>2. f[1] = Reading(f, n, step, 1) /\ Reading(f, n, step, 1) = step[1].put \o f[step[1].next]
    <3>1. 1 \in 1..n /\ 1 \in 1..(n + 1)
      OBVIOUS
    <3>2. f[1] = Reading(f, n, step, 1)
      BY <1>1, <3>1
    <3>3. \A i \in 1..n : Reading(f, n, step, i) = step[i].put \o f[step[i].next]
      BY ReadingPuts, Zenon
    <3> QED  BY <3>1, <3>2, <3>3, Zenon
  <2> QED  BY <2>1, <2>2, Zenon
<1> DEFINE g == [i \in 1..(m + 1) |-> f[i + n - m]]
<1>5. g \in [1..(m + 1) -> Text] /\ \A i \in 1..(m + 1) : g[i] = f[i + n - m]
  <2>1. \A i \in 1..(m + 1) : i + n - m \in 1..(n + 1)
    BY <1>a
  <2>2. \A j \in 1..(n + 1) : f[j] \in Text
    OBVIOUS
  <2> QED  BY <2>1, <2>2, Zenon
<1>6. g[1] = f[step[1].next]
  <2>1. 1 \in 1..(m + 1) /\ 1 + n - m = n - m + 1
    OBVIOUS
  <2>2. g[1] = f[1 + n - m]
    BY <1>5, <2>1, Zenon
  <2> QED  BY <1>3, <2>1, <2>2, Zenon
<1> HIDE DEF g
<1>7. ASSUME NEW i \in 1..(m + 1) PROVE g[i] = Reading(g, m, rest, i)
  <2>1. PICK j \in 1..(n + 1) : j = i + n - m
    <3>1. i + n - m \in 1..(n + 1)
      BY <1>a
    <3> QED  BY <3>1, Zenon
  <2>2. g[i] = f[j] /\ f[j] = Reading(f, n, step, j)
    BY <1>1, <1>5, <2>1
  <2>3. CASE i > m
    <3>1. j > n /\ j \in Nat
      BY <1>a, <2>1, <2>3
    <3>2. Reading(f, n, step, j) = <<>> /\ Reading(g, m, rest, i) = <<>>
      BY <2>3, <3>1, ReadingEnds
    <3> QED  BY <2>2, <3>2
  <2>4. CASE i \in 1..m
    <3>1. j \in 1..n
      BY <1>a, <2>1, <2>4
    <3>2. rest[i].put = step[j].put /\ rest[i].next = step[j].next - (n - m)
      BY <1>0, <2>1, <2>4, Zenon
    <3>3. rest[i].next \in (i + 1)..(m + 1)
      BY <2>4, StepFacts
    <3>4. step[j].next \in (j + 1)..(n + 1)
      BY <3>1, StepFacts
    <3>5. rest[i].next + n - m = step[j].next /\ rest[i].next \in 1..(m + 1)
      <4> DEFINE a == rest[i].next
                 b == step[j].next
      <4>1. a = b - (n - m) /\ a \in (i + 1)..(m + 1) /\ b \in (j + 1)..(n + 1)
        BY <3>2, <3>3, <3>4, Zenon
      <4> HIDE DEF a, b
      <4>2. a \in Int /\ b \in Int /\ a = b - (n - m) /\ 1 <= a /\ a <= m + 1
        BY <4>1
      <4>3. a + n - m = b /\ a \in 1..(m + 1)
        BY <4>2
      <4> QED  BY <4>3, Zenon DEF a, b
    <3>6. g[rest[i].next] = f[step[j].next]
      BY <1>5, <3>5
    <3>7. Reading(f, n, step, j) = step[j].put \o f[step[j].next]
      BY <3>1, ReadingPuts, Zenon
    <3>8. Reading(g, m, rest, i) = rest[i].put \o g[rest[i].next]
      BY <2>4, ReadingPuts, Zenon
    <3> QED  BY <2>2, <3>2, <3>6, <3>7, <3>8, Zenon
  <2> QED  BY <2>3, <2>4
<1>8. Read(m, rest) = g[1]
  BY <1>5, <1>7, ReadIs
<1> QED  BY <1>4, <1>6, <1>8, Zenon DEF ReadsOn, Cat

\* A first step that goes to the end.
LEMMA ReadLast ==
  ASSUME NEW n \in Nat, n > 0, NEW step, IsSteps(step, n), step[1].next = n + 1
  PROVE  Read(n, step) = step[1].put
<1>1. PICK f \in [1..(n + 1) -> Text] : \A i \in 1..(n + 1) : f[i] = Reading(f, n, step, i)
  BY ReadExists
<1>2. Read(n, step) = f[1]
  BY <1>1, ReadIs
<1>3. f[n + 1] = <<>>
  BY <1>1, ReadingEnds
<1>4. step[1].put \in Text /\ 1 \in 1..n
  <2>1. 1 \in 1..n
    OBVIOUS
  <2> QED  BY <2>1, StepFacts
<1>5. f[1] = Reading(f, n, step, 1)
  BY <1>1
<1>6. Reading(f, n, step, 1) = step[1].put \o <<>>
  <2>1. Reading(f, n, step, 1) = step[1].put \o f[step[1].next]
    BY <1>4, ReadingPuts, Zenon
  <2> QED  BY <1>3, <2>1, Zenon
<1>7. step[1].put \o <<>> = step[1].put
  BY <1>4, CatEmpty, Zenon DEF Cat
<1> QED  BY <1>2, <1>5, <1>6, <1>7, Zenon

-----------------------------------------------------------------------------
(* Search and replace *)

LEMMA AtFrom ==
  ASSUME NEW t \in Text, NEW part \in Text, NEW k \in 1..(Len(t) + 1),
         NEW i \in 1..(Len(t) - k + 1)
  PROVE  At(From(t, k), i, part) <=> At(t, k + i - 1, part)
<1>1. /\ From(t, k) \in Text /\ Len(From(t, k)) = Len(t) - k + 1 /\ Len(t) \in Nat
      /\ \A j \in 1..(Len(t) - k + 1) : From(t, k)[j] = t[k + j - 1]
      /\ Len(part) \in Nat /\ DOMAIN part = 1..Len(part)
  BY FromFacts, TextFacts
<1>2. CASE i + Len(part) - 1 > Len(t) - k + 1
  BY <1>1, <1>2 DEF At
<1>3. CASE i + Len(part) - 1 <= Len(t) - k + 1
  <2>1. \A j \in 1..Len(part) : From(t, k)[i + j - 1] = t[k + i - 1 + j - 1]
    <3> SUFFICES ASSUME NEW j \in 1..Len(part)
                 PROVE  From(t, k)[i + j - 1] = t[k + i - 1 + j - 1]
      OBVIOUS
    <3>1. i + j - 1 \in 1..(Len(t) - k + 1) /\ k + (i + j - 1) - 1 = k + i - 1 + j - 1
      BY <1>1, <1>3
    <3> QED  BY <1>1, <3>1
  <2>2. k + i - 1 + Len(part) - 1 <= Len(t)
    BY <1>1, <1>3
  <2>3. At(From(t, k), i, part) <=> \A j \in 1..Len(part) : From(t, k)[i + j - 1] = part[j]
    BY <1>1, <1>3, Zenon DEF At
  <2>4. At(t, k + i - 1, part) <=> \A j \in 1..Len(part) : t[k + i - 1 + j - 1] = part[j]
    BY <1>1, <2>2, Zenon DEF At
  <2> QED  BY <2>1, <2>3, <2>4, Zenon
<1>4. \/ i + Len(part) - 1 > Len(t) - k + 1
      \/ i + Len(part) - 1 <= Len(t) - k + 1
  BY <1>1
<1> QED  BY <1>2, <1>3, <1>4, Zenon

\* A text is where it begins.
LEMMA AtCat ==
  ASSUME NEW s \in Text, NEW t \in Text
  PROVE  At(Cat(s, t), 1, s)
<1>1. /\ Len(Cat(s, t)) = Len(s) + Len(t) /\ \A i \in 1..Len(s) : Cat(s, t)[i] = s[i]
      /\ Len(s) \in Nat /\ Len(t) \in Nat /\ DOMAIN s = 1..Len(s)
  BY CatFacts, TextFacts
<1> QED  BY <1>1 DEF At

\* A text that begins with part is part and the rest.
LEMMA AtIsCat ==
  ASSUME NEW t \in Text, t # <<>>, NEW part \in Text, At(t, 1, part)
  PROVE  /\ From(t, Len(part) + 1) \in Text /\ t = Cat(part, From(t, Len(part) + 1))
         /\ Len(From(t, Len(part) + 1)) = Len(t) - Len(part)
<1> DEFINE n == Len(part)
           r == From(t, n + 1)
           u == Cat(part, r)
<1>1. Len(t) \in Nat /\ n \in Nat /\ DOMAIN part = 1..n
  BY TextFacts
<1>2. n <= Len(t) /\ \A i \in 1..n : t[i] = part[i]
  <2> HIDE DEF n
  <2>1. 1 + n - 1 <= Len(t) /\ \A i \in 1..n : t[1 + i - 1] = part[i]
    BY <1>1 DEF At, n
  <2>2. \A i \in 1..n : 1 + i - 1 = i
    BY <1>1
  <2> QED  BY <1>1, <2>1, <2>2
<1>3. n + 1 \in 1..(Len(t) + 1)
  BY <1>1, <1>2
<1>4. /\ r \in Text /\ Len(r) = Len(t) - (n + 1) + 1
      /\ \A i \in 1..(Len(t) - (n + 1) + 1) : r[i] = t[n + 1 + i - 1]
  BY <1>3, FromFacts
<1> HIDE DEF r
<1>5. /\ u \in Text /\ Len(u) = n + Len(r) /\ \A i \in 1..n : u[i] = part[i]
      /\ \A i \in (n + 1)..(n + Len(r)) : u[i] = r[i - n]
  BY <1>4, CatFacts
<1> HIDE DEF u, n
<1>6. Len(u) = Len(t) /\ Len(r) = Len(t) - n
  BY <1>1, <1>2, <1>4, <1>5
<1>7. ASSUME NEW i \in 1..Len(t) PROVE t[i] = u[i]
  <2>1. CASE i <= n
    BY <1>1, <1>2, <1>5, <2>1
  <2>2. CASE i > n
    <3>1. i - n \in 1..(Len(t) - (n + 1) + 1) /\ n + 1 + (i - n) - 1 = i
      BY <1>1, <1>2, <2>2
    <3>2. r[i - n] = t[i]
      BY <1>4, <3>1
    <3>3. i \in (n + 1)..(n + Len(r))
      BY <1>1, <1>6, <2>2
    <3> QED  BY <1>5, <3>2, <3>3
  <2> QED  BY <1>1, <2>1, <2>2
<1>8. t = u
  BY <1>5, <1>6, <1>7, TextEqual
<1> QED  BY <1>4, <1>6, <1>8 DEF u, r, n

ReplaceStep(old, new, t) ==
  [i \in DOMAIN t |->
     IF At(t, i, old) THEN [put |-> new, next |-> i + Len(old)] ELSE Copy(t, i)]

LEMMA ReplaceSteps ==
  ASSUME NEW old \in Text, old # <<>>, NEW new \in Text, NEW t \in Text
  PROVE  /\ IsSteps(ReplaceStep(old, new, t), Len(t))
         /\ \A i \in 1..Len(t) :
              /\ At(t, i, old) => /\ ReplaceStep(old, new, t)[i].put = new
                                  /\ ReplaceStep(old, new, t)[i].next = i + Len(old)
              /\ ~At(t, i, old) => /\ ReplaceStep(old, new, t)[i].put = <<t[i]>>
                                   /\ ReplaceStep(old, new, t)[i].next = i + 1
<1> DEFINE step == ReplaceStep(old, new, t)
<1>1. /\ Len(t) \in Nat /\ DOMAIN t = 1..Len(t) /\ Len(old) \in Nat \ {0}
      /\ \A i \in 1..Len(t) : t[i] \in Symbols
  BY TextFacts
<1>2. \A i \in 1..Len(t) : At(t, i, old) => i + Len(old) \in (i + 1)..(Len(t) + 1)
  BY <1>1 DEF At
<1>3. \A i \in 1..Len(t) : <<t[i]>> \in Text
  BY <1>1, SymbolFacts
<1>4. ASSUME NEW i \in 1..Len(t)
      PROVE  /\ step[i] \in [put : Text, next : 1..(Len(t) + 1)] /\ step[i].next > i
             /\ At(t, i, old) => step[i].put = new /\ step[i].next = i + Len(old)
             /\ ~At(t, i, old) => step[i].put = <<t[i]>> /\ step[i].next = i + 1
  <2>1. CASE At(t, i, old)
    <3>1. step[i] = [put |-> new, next |-> i + Len(old)]
      BY <1>1, <2>1 DEF ReplaceStep
    <3> QED  BY <1>1, <1>2, <2>1, <3>1
  <2>2. CASE ~At(t, i, old)
    <3>1. step[i] = [put |-> <<t[i]>>, next |-> i + 1]
      BY <1>1, <2>2 DEF ReplaceStep, Copy
    <3> QED  BY <1>1, <1>3, <2>2, <3>1
  <2> QED  BY <2>1, <2>2
<1>5. step = [i \in 1..Len(t) |-> step[i]]
  BY <1>1 DEF ReplaceStep
<1> QED  BY <1>4, <1>5 DEF IsSteps

LEMMA ReplaceReads ==
  ASSUME NEW old, NEW new, NEW t
  PROVE  strReplace(old, new, t) = Read(Len(t), ReplaceStep(old, new, t))
BY DEF strReplace, ReplaceStep

LEMMA ReplaceType ==
  ASSUME NEW old \in Text, old # <<>>, NEW new \in Text, NEW t \in Text
  PROVE  strReplace(old, new, t) \in Text
<1>1. IsSteps(ReplaceStep(old, new, t), Len(t)) /\ Len(t) \in Nat
  BY ReplaceSteps, TextFacts
<1> QED  BY <1>1, ReadFacts, ReplaceReads

LEMMA ReplaceEmpty ==
  ASSUME NEW old \in Text, old # <<>>, NEW new \in Text
  PROVE  strReplace(old, new, <<>>) = <<>>
<1>1. <<>> \in Text /\ Len(<<>>) = 0
  BY EmptySeq DEF Text
<1>2. IsSteps(ReplaceStep(old, new, <<>>), 0)
  BY <1>1, ReplaceSteps
<1> QED  BY <1>1, <1>2, ReadFacts, ReplaceReads

\* The step at the beginning of a text, and what is left after it.
LEMMA ReplaceRest ==
  ASSUME NEW old \in Text, old # <<>>, NEW new \in Text, NEW t \in Text, t # <<>>
  PROVE  strReplace(old, new, t) =
           Cat(ReplaceStep(old, new, t)[1].put,
               strReplace(old, new, From(t, ReplaceStep(old, new, t)[1].next)))
<1> DEFINE step == ReplaceStep(old, new, t)
           k == step[1].next
           rest == ReplaceStep(old, new, From(t, k))
           n == Len(t)
           m == Len(From(t, k))
<1>1. n \in Nat /\ n > 0
  BY TextFacts
<1>2. IsSteps(step, n)
  BY ReplaceSteps
<1>3. k \in 2..(n + 1) /\ k \in 1..(n + 1)
  <2> HIDE DEF step
  <2>1. step[1].next \in 2..(n + 1)
    BY <1>1, <1>2, StepFacts
  <2> QED  BY <2>1 DEF step
<1> HIDE DEF k
<1>4. From(t, k) \in Text /\ m = n - k + 1 /\ m \in Nat
  BY <1>1, <1>3, FromFacts
<1>5. IsSteps(rest, m)
  BY <1>4, ReplaceSteps
<1>6. ASSUME NEW i \in 1..m
      PROVE  /\ rest[i].put = step[i + n - m].put
             /\ rest[i].next = step[i + n - m].next - (n - m)
  <2>1. PICK j \in 1..n : j = i + n - m
    BY <1>1, <1>3, <1>4
  <2>2. j = k + i - 1 /\ i \in 1..(n - k + 1)
    BY <1>1, <1>3, <1>4, <2>1
  <2>3. From(t, k)[i] = t[j] /\ (At(From(t, k), i, old) <=> At(t, j, old))
    BY <1>3, <2>2, FromFacts, AtFrom
  <2>4. /\ At(t, j, old) => step[j].put = new /\ step[j].next = j + Len(old)
        /\ ~At(t, j, old) => step[j].put = <<t[j]>> /\ step[j].next = j + 1
    BY ReplaceSteps
  <2>5. /\ At(From(t, k), i, old) => rest[i].put = new /\ rest[i].next = i + Len(old)
        /\ ~At(From(t, k), i, old) => rest[i].put = <<From(t, k)[i]>> /\ rest[i].next = i + 1
    BY <1>4, ReplaceSteps
  <2> HIDE DEF step, rest, n
  <2>6. rest[i].put = step[j].put
    BY <2>3, <2>4, <2>5
  <2>7. rest[i].next = step[j].next - (n - m)
    <3>1. Len(old) \in Nat
      BY TextFacts
    <3>2. CASE At(t, j, old)
      <4>1. rest[i].next = i + Len(old) /\ step[j].next = j + Len(old)
        BY <2>3, <2>4, <2>5, <3>2
      <4> QED  BY <1>1, <1>4, <2>1, <3>1, <4>1
    <3>3. CASE ~At(t, j, old)
      <4>1. rest[i].next = i + 1 /\ step[j].next = j + 1
        BY <2>3, <2>4, <2>5, <3>3
      <4> QED  BY <1>1, <1>4, <2>1, <4>1
    <3> QED  BY <3>2, <3>3
  <2> QED  BY <2>1, <2>6, <2>7
<1>7. m = n + 1 - step[1].next
  BY <1>1, <1>3, <1>4 DEF k
<1> HIDE DEF step, rest, n, m
<1>8. Read(n, step) = Cat(step[1].put, Read(m, rest))
  <2>1. IsRest(step, n, rest, m)
    BY <1>6, <1>7 DEF IsRest
  <2>2. m \in Nat
    BY <1>4
  <2>3. ReadsOn(n, step, m, rest)
    BY <1>1, <1>2, <1>5, <2>1, <2>2, ReadStep, Zenon
  <2> QED  BY <2>3, Zenon DEF ReadsOn
<1> QED  BY <1>8, ReplaceReads, Zenon DEF step, rest, n, m, k

\* A text that begins with what is searched.
LEMMA ReplaceMatch ==
  ASSUME NEW old \in Text, old # <<>>, NEW new \in Text, NEW t \in Text
  PROVE  strReplace(old, new, Cat(old, t)) = Cat(new, strReplace(old, new, t))
<1> DEFINE u == Cat(old, t)
           step == ReplaceStep(old, new, u)
<1>1. /\ u \in Text /\ Len(u) = Len(old) + Len(t)
      /\ \A i \in 1..Len(old) : u[i] = old[i]
      /\ Len(old) \in Nat \ {0} /\ Len(t) \in Nat /\ DOMAIN old = 1..Len(old)
  BY CatFacts, TextFacts
<1>2. From(u, Len(old) + 1) = t
  BY FromConcat
<1> HIDE DEF u
<1>3. u # <<>> /\ 1 \in 1..Len(u)
  BY <1>1, TextFacts
<1>4. At(u, 1, old)
  BY <1>1 DEF At
<1>5. step[1].put = new /\ step[1].next = Len(old) + 1
  BY <1>1, <1>3, <1>4, ReplaceSteps
<1>6. strReplace(old, new, u) = Cat(step[1].put, strReplace(old, new, From(u, step[1].next)))
  BY <1>1, <1>3, ReplaceRest, Zenon
<1> QED  BY <1>2, <1>5, <1>6, Zenon DEF u

\* A text that begins with something else.
LEMMA ReplaceCopy ==
  ASSUME NEW old \in Text, old # <<>>, NEW new \in Text, NEW t \in Text, NEW x \in Symbols,
         ~At(Cons(x, t), 1, old)
  PROVE  strReplace(old, new, Cons(x, t)) = Cons(x, strReplace(old, new, t))
<1> DEFINE u == Cons(x, t)
           step == ReplaceStep(old, new, u)
<1>1. /\ u \in Text /\ Len(u) = Len(t) + 1 /\ u[1] = x /\ Len(t) \in Nat
  BY HeadFacts, TextFacts
<1>2. From(u, 2) = t
  BY TailOfCat
<1>3. ~At(u, 1, old)
  OBVIOUS
<1> HIDE DEF u
<1>4. u # <<>> /\ 1 \in 1..Len(u)
  BY <1>1, TextFacts
<1>5. step[1].put = <<x>> /\ step[1].next = 2
  BY <1>1, <1>3, <1>4, ReplaceSteps
<1>6. strReplace(old, new, u) = Cat(step[1].put, strReplace(old, new, From(u, step[1].next)))
  BY <1>1, <1>4, ReplaceRest, Zenon
<1> QED  BY <1>2, <1>5, <1>6, Zenon DEF u, Cons

\* The symbols of s rule out that old begins in s, whatever follows s.
Clear(old, s) ==
  \A i \in 1..Len(s) : \E d \in 1..Len(old) : i + d - 1 <= Len(s) /\ s[i + d - 1] # old[d]

LEMMA ClearConcat ==
  ASSUME NEW old \in Text, NEW s \in Text, NEW t \in Text, Clear(old, s), Clear(old, t)
  PROVE  Clear(old, Cat(s, t))
<1> DEFINE st == Cat(s, t)
<1>1. /\ Len(st) = Len(s) + Len(t) /\ Len(s) \in Nat /\ Len(t) \in Nat /\ Len(old) \in Nat
      /\ \A i \in 1..Len(s) : st[i] = s[i]
      /\ \A i \in 1..Len(t) : st[Len(s) + i] = t[i]
  BY CatFacts, TextFacts
<1> HIDE DEF st
<1>2. ASSUME NEW i \in 1..Len(st)
      PROVE  \E d \in 1..Len(old) : i + d - 1 <= Len(st) /\ st[i + d - 1] # old[d]
  <2>1. CASE i <= Len(s)
    <3>1. PICK d \in 1..Len(old) : i + d - 1 <= Len(s) /\ s[i + d - 1] # old[d]
      BY <1>1, <2>1 DEF Clear
    <3>2. i + d - 1 \in 1..Len(s)
      BY <1>1, <2>1, <3>1
    <3>3. st[i + d - 1] = s[i + d - 1]
      BY <1>1, <3>2
    <3> QED  BY <1>1, <3>1, <3>3
  <2>2. CASE i > Len(s)
    <3>1. PICK j \in 1..Len(t) : i = Len(s) + j
      BY <1>1, <2>2
    <3>2. PICK d \in 1..Len(old) : j + d - 1 <= Len(t) /\ t[j + d - 1] # old[d]
      BY <1>1, <3>1 DEF Clear
    <3>3. st[Len(s) + (j + d - 1)] = t[j + d - 1] /\ Len(s) + (j + d - 1) = i + d - 1
      <4>1. j + d - 1 \in 1..Len(t) /\ Len(s) + (j + d - 1) = i + d - 1
        BY <1>1, <3>1, <3>2
      <4> QED  BY <1>1, <4>1, Zenon
    <3> QED  BY <1>1, <3>1, <3>2, <3>3
  <2> QED  BY <1>1, <2>1, <2>2
<1>3. Clear(old, st)
  BY <1>2 DEF Clear
<1> QED  BY <1>3 DEF st

\* A symbol that is not in old ends every place.
LEMMA ClearBefore ==
  ASSUME NEW old \in Text, old # <<>>, NEW s \in Text, NEW x \in Symbols,
         ~Occurs(old, s), \A d \in 1..Len(old) : old[d] # x
  PROVE  Clear(old, Cat(s, <<x>>))
<1> DEFINE sx == Cat(s, <<x>>)
<1>1. /\ Len(sx) = Len(s) + 1 /\ sx[Len(s) + 1] = x
      /\ \A i \in 1..Len(s) : sx[i] = s[i]
      /\ Len(s) \in Nat /\ Len(old) \in Nat /\ DOMAIN s = 1..Len(s) /\ DOMAIN old = 1..Len(old)
  <2> DEFINE h == <<x>>
  <2>1. h \in Text /\ Len(h) = 1 /\ h[1] = x
    BY SymbolFacts
  <2> HIDE DEF h
  <2>2. /\ Len(Cat(s, h)) = Len(s) + Len(h)
        /\ \A i \in 1..Len(s) : Cat(s, h)[i] = s[i]
        /\ \A i \in 1..Len(h) : Cat(s, h)[Len(s) + i] = h[i]
    BY <2>1, CatFacts
  <2>3. Len(Cat(s, h)) = Len(s) + 1 /\ Cat(s, h)[Len(s) + 1] = x
    BY <2>1, <2>2
  <2> QED  BY <2>2, <2>3, TextFacts DEF h
<1> HIDE DEF sx
<1>2. ASSUME NEW i \in 1..Len(sx), Len(old) # 0
      PROVE  \E d \in 1..Len(old) : i + d - 1 <= Len(sx) /\ sx[i + d - 1] # old[d]
  <2>1. CASE i + Len(old) - 1 <= Len(s)
    <3>1. i \in 1..Len(s)
      BY <1>1, <1>2, <2>1
    <3>2. ~At(s, i, old)
      BY <1>1, <3>1 DEF Occurs, Places
    <3>3. PICK d \in 1..Len(old) : s[i + d - 1] # old[d]
      BY <1>1, <2>1, <3>2 DEF At
    <3>4. i + d - 1 \in 1..Len(s)
      BY <1>1, <2>1
    <3> QED  BY <1>1, <3>3, <3>4
  <2>2. CASE i + Len(old) - 1 > Len(s)
    <3>1. PICK d \in 1..Len(old) : i + d - 1 = Len(s) + 1
      <4>1. Len(s) + 1 - i + 1 \in 1..Len(old)
        BY <1>1, <2>2
      <4>2. i + (Len(s) + 1 - i + 1) - 1 = Len(s) + 1
        BY <1>1
      <4> QED  BY <4>1, <4>2
    <3> QED  BY <1>1, <3>1
  <2> QED  BY <1>1, <2>1, <2>2
<1>3. Len(old) # 0
  BY TextFacts
<1>4. Clear(old, sx)
  BY <1>2, <1>3 DEF Clear
<1> QED  BY <1>4 DEF sx

LEMMA ClearPlaces ==
  ASSUME NEW old \in Text, NEW s \in Text, NEW t \in Text, Clear(old, s), NEW i \in 1..Len(s)
  PROVE  ~At(Cat(s, t), i, old)
<1> DEFINE st == Cat(s, t)
<1>1. /\ Len(s) \in Nat /\ Len(old) \in Nat /\ DOMAIN old = 1..Len(old)
      /\ \A j \in 1..Len(s) : st[j] = s[j]
  BY CatFacts, TextFacts
<1> HIDE DEF st
<1>2. PICK d \in 1..Len(old) : i + d - 1 <= Len(s) /\ s[i + d - 1] # old[d]
  BY DEF Clear
<1>3. st[i + d - 1] # old[d]
  BY <1>1, <1>2
<1>4. ~At(st, i, old)
  BY <1>1, <1>3 DEF At
<1> QED  BY <1>4 DEF st

LEMMA ClearTail ==
  ASSUME NEW old \in Text, NEW s \in Text, NEW x \in Symbols, Clear(old, Cons(x, s))
  PROVE  Clear(old, s)
<1> DEFINE xs == Cons(x, s)
<1>1. /\ Len(xs) = Len(s) + 1 /\ \A i \in 1..Len(s) : xs[i + 1] = s[i]
      /\ Len(s) \in Nat /\ Len(old) \in Nat
  BY HeadFacts, TextFacts
<1>2. Clear(old, xs)
  OBVIOUS
<1> HIDE DEF xs
<1>3. ASSUME NEW i \in 1..Len(s)
      PROVE  \E d \in 1..Len(old) : i + d - 1 <= Len(s) /\ s[i + d - 1] # old[d]
  <2>0. i + 1 \in 1..Len(xs)
    BY <1>1
  <2>1. PICK d \in 1..Len(old) : i + 1 + d - 1 <= Len(xs) /\ xs[i + 1 + d - 1] # old[d]
    BY <1>2, <2>0 DEF Clear
  <2>2. xs[(i + d - 1) + 1] = s[i + d - 1] /\ i + 1 + d - 1 = (i + d - 1) + 1
    BY <1>1, <2>1
  <2> QED  BY <1>1, <2>1, <2>2
<1> QED  BY <1>3 DEF Clear

\* Whether a text begins with part, or has it later on.
LEMMA OccursTail ==
  ASSUME NEW part \in Text, NEW t \in Text, NEW x \in Symbols
  PROVE  Occurs(part, Cons(x, t)) <=> At(Cons(x, t), 1, part) \/ Occurs(part, t)
<1> DEFINE u == Cons(x, t)
<1>1. /\ u \in Text /\ Len(u) = Len(t) + 1 /\ Len(t) \in Nat
      /\ DOMAIN u = 1..Len(u) /\ DOMAIN t = 1..Len(t)
  BY HeadFacts, TextFacts
<1>2. From(u, 2) = t
  BY TailOfCat
<1> HIDE DEF u
<1>3. \A i \in 1..Len(t) : At(t, i, part) <=> At(u, i + 1, part)
  <2>1. \A i \in 1..(Len(u) - 2 + 1) : At(From(u, 2), i, part) <=> At(u, 2 + i - 1, part)
    BY <1>1, AtFrom
  <2> QED  BY <1>1, <1>2, <2>1
<1>4. Occurs(part, u) => At(u, 1, part) \/ Occurs(part, t)
  <2> SUFFICES ASSUME NEW i \in 1..Len(u), At(u, i, part), i # 1
               PROVE  Occurs(part, t)
    BY <1>1 DEF Occurs, Places
  <2>1. i - 1 \in 1..Len(t) /\ (i - 1) + 1 = i
    BY <1>1
  <2> QED  BY <1>1, <1>3, <2>1 DEF Occurs, Places
<1>5. At(u, 1, part) \/ Occurs(part, t) => Occurs(part, u)
  BY <1>1, <1>3 DEF Occurs, Places
<1>6. Occurs(part, u) <=> At(u, 1, part) \/ Occurs(part, t)
  BY <1>4, <1>5
<1> QED  BY <1>6 DEF u

\* Nothing is replaced in a text that old cannot begin in.
LEMMA OccursCat ==
  ASSUME NEW part \in Text, NEW s \in Text, NEW t \in Text, Occurs(part, t)
  PROVE  Occurs(part, Cat(s, t))
<1> DEFINE S == {u \in Text : Occurs(part, Cat(u, t))}
<1>1. <<>> \in S
  <2>1. <<>> \in Text /\ Cat(<<>>, t) = t
    BY CatEmpty, EmptySeq DEF Text
  <2> QED  BY <2>1
<1>2. ASSUME NEW u \in Text, NEW x \in Symbols, u \in S PROVE Cons(x, u) \in S
  <2>1. Cons(x, u) \in Text
    BY HeadFacts
  <2>2. Cat(Cons(x, u), t) = Cons(x, Cat(u, t))
    BY ConsCat
  <2>3. Cat(u, t) \in Text
    BY CatFacts
  <2>4. Occurs(part, Cons(x, Cat(u, t)))
    BY <1>2, <2>3, OccursTail
  <2> QED  BY <2>1, <2>2, <2>4, Zenon
<1>3. Text \subseteq S
  <2> HIDE DEF S
  <2> QED  BY <1>1, <1>2, TextInduction
<1> QED  BY <1>3

LEMMA ReplaceClear ==
  ASSUME NEW old \in Text, old # <<>>, NEW new \in Text, NEW s \in Text, NEW t \in Text,
         Clear(old, s)
  PROVE  strReplace(old, new, Cat(s, t)) = Cat(s, strReplace(old, new, t))
<1> DEFINE rest == strReplace(old, new, t)
           Skips(u) == strReplace(old, new, Cat(u, t)) = Cat(u, rest)
           S == {u \in Text : Clear(old, u) => Skips(u)}
<1>0. rest \in Text
  BY ReplaceType
<1>1. <<>> \in S
  <2>1. <<>> \in Text
    BY EmptySeq DEF Text
  <2>2. Skips(<<>>)
    BY <1>0, CatEmpty, Zenon
  <2> QED  BY <2>1, <2>2, Zenon
<1>2. ASSUME NEW u \in Text, NEW x \in Symbols, u \in S
      PROVE  Cons(x, u) \in S
  <2>1. <<x>> \in Text /\ Cons(x, u) \in Text /\ 1 \in 1..Len(Cons(x, u))
    BY HeadFacts
  <2>2. SUFFICES ASSUME Clear(old, Cons(x, u))
                 PROVE  Skips(Cons(x, u))
    BY <2>1, Zenon
  <2> DEFINE ut == Cat(u, t)
  <2>3. ut \in Text
    BY CatFacts
  <2>4. Cat(Cons(x, u), t) = Cons(x, ut)
    BY ConsCat
  <2>5. strReplace(old, new, ut) = Cat(u, rest)
    BY <1>2, <2>2, ClearTail, Zenon
  <2> HIDE DEF S, Skips, ut, rest
  <2>6. ~At(Cons(x, ut), 1, old)
    BY <2>1, <2>2, <2>4, ClearPlaces
  <2>7. strReplace(old, new, Cons(x, ut)) = Cons(x, strReplace(old, new, ut))
    BY <2>3, <2>6, ReplaceCopy
  <2>8. Cons(x, Cat(u, rest)) = Cat(Cons(x, u), rest)
    BY <1>0, ConsCat
  <2> QED  BY <2>4, <2>5, <2>7, <2>8, Zenon DEF Skips, rest
<1>3. Text \subseteq S
  <2> HIDE DEF S
  <2> QED  BY <1>1, <1>2, TextInduction
<1> QED  BY <1>3, Zenon

LEMMA ClearNothing ==
  ASSUME NEW old \in Text, old # <<>>, NEW new \in Text, NEW s \in Text, Clear(old, s)
  PROVE  strReplace(old, new, s) = s
<1>1. <<>> \in Text /\ Cat(s, <<>>) = s /\ strReplace(old, new, <<>>) = <<>>
  BY CatEmpty, ReplaceEmpty, EmptySeq DEF Text
<1>2. strReplace(old, new, Cat(s, <<>>)) = Cat(s, strReplace(old, new, <<>>))
  BY <1>1, ReplaceClear
<1> QED  BY <1>1, <1>2

\* A text without old is left alone.
LEMMA ReplaceNothing ==
  ASSUME NEW old \in Text, old # <<>>, NEW new \in Text, NEW s \in Text, ~Occurs(old, s)
  PROVE  strReplace(old, new, s) = s
<1> DEFINE S == {u \in Text : ~Occurs(old, u) => strReplace(old, new, u) = u}
<1>1. <<>> \in S
  BY ReplaceEmpty, EmptySeq DEF Text
<1>2. ASSUME NEW u \in Text, NEW x \in Symbols, u \in S
      PROVE  Cons(x, u) \in S
  <2>1. <<x>> \in Text /\ Cons(x, u) \in Text /\ 1 \in 1..Len(Cons(x, u))
    BY HeadFacts
  <2>2. SUFFICES ASSUME ~Occurs(old, Cons(x, u))
                 PROVE  strReplace(old, new, Cons(x, u)) = Cons(x, u)
    BY <2>1, Zenon
  <2>3. ~At(Cons(x, u), 1, old) /\ ~Occurs(old, u)
    BY <2>2, OccursTail
  <2>4. strReplace(old, new, u) = u
    BY <1>2, <2>3, Zenon
  <2> HIDE DEF S
  <2>5. strReplace(old, new, Cons(x, u)) = Cons(x, strReplace(old, new, u))
    BY <2>3, ReplaceCopy
  <2> QED  BY <2>4, <2>5, Zenon
<1>3. Text \subseteq S
  <2> HIDE DEF S
  <2> QED  BY <1>1, <1>2, TextInduction
<1> QED  BY <1>3, Zenon

-----------------------------------------------------------------------------
(* Patterns in what String.prototype.replace puts in *)

PatternSymbols == {"$", "&", "BT", "'"}

Meaning(before, match, after) ==
  [c \in PatternSymbols |-> CASE c = "$" -> <<"$">> [] c = "&" -> match
                              [] c = "BT" -> before [] OTHER -> after]

LEMMA MeaningFacts ==
  ASSUME NEW before \in Text, NEW match \in Text, NEW after \in Text
  PROVE  /\ Meaning(before, match, after) \in [PatternSymbols -> Text]
         /\ Meaning(before, match, after)["$"] = <<"$">>
         /\ Meaning(before, match, after)["&"] = match
         /\ Meaning(before, match, after)["BT"] = before
         /\ Meaning(before, match, after)["'"] = after
<1>1. <<"$">> \in Text
  BY SymbolsAssumption, SymbolFacts DEF CodeSymbols
<1> QED  BY <1>1 DEF Meaning, PatternSymbols

SubstituteStep(new, meaning) ==
  [i \in DOMAIN new |-> IF PatternAt(new, i) THEN [put |-> meaning[new[i + 1]], next |-> i + 2]
                        ELSE Copy(new, i)]

LEMMA SubstituteReads ==
  ASSUME NEW new, NEW before, NEW match, NEW after
  PROVE  Substituted(new, before, match, after) =
           Read(Len(new), SubstituteStep(new, Meaning(before, match, after)))
BY DEF Substituted, SubstituteStep, Meaning, PatternSymbols

LEMMA SubstituteSteps ==
  ASSUME NEW t \in Text, NEW meaning \in [PatternSymbols -> Text]
  PROVE  /\ IsSteps(SubstituteStep(t, meaning), Len(t))
         /\ \A i \in 1..Len(t) :
              /\ PatternAt(t, i) => /\ SubstituteStep(t, meaning)[i].put = meaning[t[i + 1]]
                                    /\ SubstituteStep(t, meaning)[i].next = i + 2
              /\ ~PatternAt(t, i) => /\ SubstituteStep(t, meaning)[i].put = <<t[i]>>
                                     /\ SubstituteStep(t, meaning)[i].next = i + 1
<1> DEFINE step == SubstituteStep(t, meaning)
<1>1. /\ Len(t) \in Nat /\ DOMAIN t = 1..Len(t)
      /\ \A i \in 1..Len(t) : t[i] \in Symbols
  BY TextFacts
<1>2. \A i \in 1..Len(t) : PatternAt(t, i) => /\ i + 2 \in (i + 1)..(Len(t) + 1)
                                              /\ meaning[t[i + 1]] \in Text
  BY <1>1 DEF PatternAt, PatternSymbols
<1>3. \A i \in 1..Len(t) : <<t[i]>> \in Text
  BY <1>1, SymbolFacts
<1>4. ASSUME NEW i \in 1..Len(t)
      PROVE  /\ step[i] \in [put : Text, next : 1..(Len(t) + 1)] /\ step[i].next > i
             /\ PatternAt(t, i) => step[i].put = meaning[t[i + 1]] /\ step[i].next = i + 2
             /\ ~PatternAt(t, i) => step[i].put = <<t[i]>> /\ step[i].next = i + 1
  <2>1. CASE PatternAt(t, i)
    <3>1. step[i] = [put |-> meaning[t[i + 1]], next |-> i + 2]
      BY <1>1, <2>1 DEF SubstituteStep
    <3> QED  BY <1>1, <1>2, <2>1, <3>1
  <2>2. CASE ~PatternAt(t, i)
    <3>1. step[i] = [put |-> <<t[i]>>, next |-> i + 1]
      BY <1>1, <2>2 DEF SubstituteStep, Copy
    <3> QED  BY <1>1, <1>3, <2>2, <3>1
  <2> QED  BY <2>1, <2>2
<1>5. step = [i \in 1..Len(t) |-> step[i]]
  BY <1>1 DEF SubstituteStep
<1> QED  BY <1>4, <1>5 DEF IsSteps

LEMMA PatternFrom ==
  ASSUME NEW t \in Text, NEW k \in 1..(Len(t) + 1), NEW i \in 1..(Len(t) - k + 1)
  PROVE  /\ PatternAt(From(t, k), i) <=> PatternAt(t, k + i - 1)
         /\ PatternAt(t, k + i - 1) => From(t, k)[i + 1] = t[k + i]
<1>1. /\ Len(From(t, k)) = Len(t) - k + 1 /\ Len(t) \in Nat
      /\ \A j \in 1..(Len(t) - k + 1) : From(t, k)[j] = t[k + j - 1]
  BY FromFacts, TextFacts
<1>2. From(t, k)[i] = t[k + i - 1]
  BY <1>1
<1>3. i < Len(t) - k + 1 <=> k + i - 1 < Len(t)
  BY <1>1
<1>4. i < Len(t) - k + 1 => From(t, k)[i + 1] = t[k + i - 1 + 1] /\ k + i - 1 + 1 = k + i
  <2>1. k + (i + 1) - 1 = k + i - 1 + 1
    OBVIOUS
  <2> QED  BY <1>1, <2>1
<1> QED  BY <1>1, <1>2, <1>3, <1>4 DEF PatternAt

LEMMA SubstituteRest ==
  ASSUME NEW t \in Text, t # <<>>, NEW before \in Text, NEW match \in Text, NEW after \in Text
  PROVE  Substituted(t, before, match, after) =
           Cat(SubstituteStep(t, Meaning(before, match, after))[1].put,
               Substituted(From(t, SubstituteStep(t, Meaning(before, match, after))[1].next),
                           before, match, after))
<1> DEFINE meaning == Meaning(before, match, after)
           step == SubstituteStep(t, meaning)
           k == step[1].next
           rest == SubstituteStep(From(t, k), meaning)
           n == Len(t)
           m == Len(From(t, k))
<1>0. meaning \in [PatternSymbols -> Text]
  BY MeaningFacts
<1> HIDE DEF meaning
<1>1. n \in Nat /\ n > 0
  BY TextFacts
<1>2. IsSteps(step, n)
  BY <1>0, SubstituteSteps
<1>3. k \in 2..(n + 1) /\ k \in 1..(n + 1)
  <2> HIDE DEF step
  <2>1. step[1].next \in 2..(n + 1)
    BY <1>1, <1>2, StepFacts
  <2> QED  BY <2>1 DEF step
<1> HIDE DEF k
<1>4. From(t, k) \in Text /\ m = n - k + 1 /\ m \in Nat
  BY <1>1, <1>3, FromFacts
<1>5. IsSteps(rest, m)
  BY <1>0, <1>4, SubstituteSteps
<1>6. ASSUME NEW i \in 1..m
      PROVE  /\ rest[i].put = step[i + n - m].put
             /\ rest[i].next = step[i + n - m].next - (n - m)
  <2>1. PICK j \in 1..n : j = i + n - m
    BY <1>1, <1>3, <1>4
  <2>2. j = k + i - 1 /\ i \in 1..(n - k + 1)
    BY <1>1, <1>3, <1>4, <2>1
  <2>3. /\ From(t, k)[i] = t[j] /\ (PatternAt(From(t, k), i) <=> PatternAt(t, j))
        /\ PatternAt(t, j) => From(t, k)[i + 1] = t[j + 1]
    <3>1. k + i = j + 1
      BY <1>3, <2>2
    <3> QED  BY <1>3, <2>2, <3>1, FromFacts, PatternFrom
  <2>4. /\ PatternAt(t, j) => step[j].put = meaning[t[j + 1]] /\ step[j].next = j + 2
        /\ ~PatternAt(t, j) => step[j].put = <<t[j]>> /\ step[j].next = j + 1
    BY <1>0, SubstituteSteps
  <2>5. /\ PatternAt(From(t, k), i) => /\ rest[i].put = meaning[From(t, k)[i + 1]]
                                       /\ rest[i].next = i + 2
        /\ ~PatternAt(From(t, k), i) => rest[i].put = <<From(t, k)[i]>> /\ rest[i].next = i + 1
    BY <1>0, <1>4, SubstituteSteps
  <2> HIDE DEF step, rest, n
  <2>6. rest[i].put = step[j].put
    BY <2>3, <2>4, <2>5
  <2>7. \/ rest[i].next = i + 2 /\ step[j].next = j + 2
        \/ rest[i].next = i + 1 /\ step[j].next = j + 1
    BY <2>3, <2>4, <2>5
  <2>8. rest[i].next = step[j].next - (n - m)
    BY <1>1, <1>4, <2>1, <2>7
  <2> QED  BY <2>1, <2>6, <2>8
<1>7. m = n + 1 - step[1].next
  BY <1>1, <1>3, <1>4 DEF k
<1> HIDE DEF step, rest, n, m
<1>8. Read(n, step) = Cat(step[1].put, Read(m, rest))
  <2>1. IsRest(step, n, rest, m)
    BY <1>6, <1>7 DEF IsRest
  <2>2. m \in Nat
    BY <1>4
  <2>3. ReadsOn(n, step, m, rest)
    BY <1>1, <1>2, <1>5, <2>1, <2>2, ReadStep, Zenon
  <2> QED  BY <2>3, Zenon DEF ReadsOn
<1> QED  BY <1>8, SubstituteReads, Zenon DEF step, rest, n, m, k, meaning

LEMMA SubstituteType ==
  ASSUME NEW t \in Text, NEW before \in Text, NEW match \in Text, NEW after \in Text
  PROVE  /\ Substituted(t, before, match, after) \in Text
         /\ Substituted(<<>>, before, match, after) = <<>>
<1> DEFINE meaning == Meaning(before, match, after)
<1>0. meaning \in [PatternSymbols -> Text]
  BY MeaningFacts
<1> HIDE DEF meaning
<1>1. <<>> \in Text /\ Len(<<>>) = 0
  BY EmptySeq DEF Text
<1>2. IsSteps(SubstituteStep(t, meaning), Len(t)) /\ Len(t) \in Nat
  BY <1>0, SubstituteSteps, TextFacts
<1>3. IsSteps(SubstituteStep(<<>>, meaning), 0)
  BY <1>0, <1>1, SubstituteSteps
<1>4. Read(Len(t), SubstituteStep(t, meaning)) \in Text
  BY <1>2, ReadFacts
<1>5. Read(0, SubstituteStep(<<>>, meaning)) = <<>>
  BY <1>3, ReadFacts
<1> QED  BY <1>1, <1>4, <1>5, SubstituteReads DEF meaning

\* A symbol that begins no pattern,
LEMMA SubstituteCopy ==
  ASSUME NEW t \in Text, NEW x \in Symbols, ~PatternAt(Cons(x, t), 1),
         NEW before \in Text, NEW match \in Text, NEW after \in Text
  PROVE  Substituted(Cons(x, t), before, match, after)
           = Cons(x, Substituted(t, before, match, after))
<1> DEFINE u == Cons(x, t)
           meaning == Meaning(before, match, after)
           step == SubstituteStep(u, meaning)
<1>1. u \in Text /\ u # <<>> /\ u[1] = x /\ 1 \in 1..Len(u)
  BY HeadFacts, TextFacts
<1>2. From(u, 2) = t
  BY TailOfCat
<1>3. meaning \in [PatternSymbols -> Text] /\ ~PatternAt(u, 1)
  BY MeaningFacts
<1> HIDE DEF u, meaning
<1>4. step[1].put = <<x>> /\ step[1].next = 2
  BY <1>1, <1>3, SubstituteSteps
<1>5. Substituted(u, before, match, after)
        = Cat(step[1].put, Substituted(From(u, step[1].next), before, match, after))
  BY <1>1, SubstituteRest DEF meaning
<1> QED  BY <1>2, <1>4, <1>5, Zenon DEF u, Cons

\* and a pattern.
LEMMA SubstitutePattern ==
  ASSUME NEW t \in Text, NEW c \in PatternSymbols,
         NEW before \in Text, NEW match \in Text, NEW after \in Text
  PROVE  Substituted(Cons("$", Cons(c, t)), before, match, after)
           = Cat(Meaning(before, match, after)[c], Substituted(t, before, match, after))
<1> DEFINE ct == Cons(c, t)
           u == Cons("$", ct)
           meaning == Meaning(before, match, after)
           step == SubstituteStep(u, meaning)
<1>0. c \in Symbols /\ "$" \in Symbols
  BY SymbolsAssumption DEF CodeSymbols, PatternSymbols
<1>1. ct \in Text /\ Len(ct) = Len(t) + 1 /\ ct[1] = c /\ Len(t) \in Nat /\ From(ct, 2) = t
  BY <1>0, HeadFacts, TextFacts, TailOfCat
<1> HIDE DEF ct
<1>2. /\ u \in Text /\ Len(u) = Len(ct) + 1 /\ u[1] = "$" /\ u # <<>>
      /\ \A i \in 1..Len(ct) : u[i + 1] = ct[i]
  BY <1>0, <1>1, HeadFacts, TextFacts
<1>3. meaning \in [PatternSymbols -> Text]
  BY MeaningFacts
<1> HIDE DEF u, meaning
<1>4. u[2] = c
  BY <1>1, <1>2
<1>5. From(u, 3) = t
  <2>1. From(u, 2) = ct
    BY <1>0, <1>1, TailOfCat DEF u
  <2>2. From(u, 3) = From(From(u, 2), 2)
    BY <1>1, <1>2, FromFrom
  <2> QED  BY <1>1, <2>1, <2>2
<1>6. PatternAt(u, 1) /\ 1 \in 1..Len(u)
  BY <1>1, <1>2, <1>4 DEF PatternAt, PatternSymbols
<1>7. step[1].put = meaning[c] /\ step[1].next = 3
  <2>1. u \in Text /\ 1 \in 1..Len(u) /\ PatternAt(u, 1)
    BY <1>2, <1>6, Zenon
  <2>2. step[1].put = meaning[u[1 + 1]] /\ step[1].next = 1 + 2
    BY <1>3, <2>1, SubstituteSteps, Zenon
  <2> HIDE DEF step
  <2>3. 1 + 1 = 2 /\ 1 + 2 = 3
    OBVIOUS
  <2> QED  BY <1>4, <2>2, <2>3, Zenon
<1>8. Substituted(u, before, match, after)
        = Cat(step[1].put, Substituted(From(u, step[1].next), before, match, after))
  BY <1>2, SubstituteRest DEF meaning
<1> QED  BY <1>5, <1>7, <1>8, Zenon DEF u, ct, meaning

LEMMA PatternHead ==
  ASSUME NEW t \in Text, NEW x \in Symbols
  PROVE  PatternAt(Cons(x, t), 1) <=> x = "$" /\ t # <<>> /\ t[1] \in PatternSymbols
<1> DEFINE u == Cons(x, t)
<1>1. /\ Len(u) = Len(t) + 1 /\ u[1] = x /\ \A i \in 1..Len(t) : u[i + 1] = t[i]
      /\ Len(t) \in Nat /\ (Len(t) = 0 <=> t = <<>>)
  BY HeadFacts, TextFacts
<1> HIDE DEF u
<1>2. t # <<>> => u[2] = t[1] /\ 1 < Len(u)
  BY <1>1
<1>3. t = <<>> => ~(1 < Len(u))
  BY <1>1
<1>4. PatternAt(u, 1) <=> x = "$" /\ t # <<>> /\ t[1] \in PatternSymbols
  BY <1>1, <1>2, <1>3 DEF PatternAt, PatternSymbols
<1> QED  BY <1>4 DEF u

LEMMA PatternTail ==
  ASSUME NEW t \in Text, NEW x \in Symbols
  PROVE  HasPattern(Cons(x, t)) <=> PatternAt(Cons(x, t), 1) \/ HasPattern(t)
<1> DEFINE u == Cons(x, t)
<1>1. /\ u \in Text /\ Len(u) = Len(t) + 1 /\ Len(t) \in Nat /\ DOMAIN u = 1..Len(u)
      /\ DOMAIN t = 1..Len(t) /\ \A i \in 1..Len(t) : u[i + 1] = t[i]
  BY HeadFacts, TextFacts
<1> HIDE DEF u
<1>2. \A i \in 1..Len(t) : PatternAt(t, i) <=> PatternAt(u, i + 1)
  <2> SUFFICES ASSUME NEW i \in 1..Len(t)
               PROVE  PatternAt(t, i) <=> PatternAt(u, i + 1)
    OBVIOUS
  <2>1. u[i + 1] = t[i] /\ (i < Len(t) => u[i + 1 + 1] = t[i + 1])
    BY <1>1
  <2>2. i < Len(t) <=> i + 1 < Len(u)
    BY <1>1
  <2> QED  BY <2>1, <2>2 DEF PatternAt
<1>3. ASSUME NEW i \in 1..Len(u), PatternAt(u, i), i # 1
      PROVE  HasPattern(t)
  <2>1. PICK j \in 1..Len(t) : i = j + 1
    <3>1. i - 1 \in 1..Len(t) /\ i = (i - 1) + 1
      BY <1>1, <1>3
    <3> QED  BY <3>1
  <2> QED  BY <1>1, <1>2, <1>3, <2>1 DEF HasPattern
<1>4. HasPattern(t) => HasPattern(u)
  <2> SUFFICES ASSUME NEW j \in 1..Len(t), PatternAt(t, j)
               PROVE  HasPattern(u)
    BY <1>1 DEF HasPattern
  <2>1. j + 1 \in 1..Len(u) /\ PatternAt(u, j + 1)
    BY <1>1, <1>2
  <2> QED  BY <1>1, <2>1 DEF HasPattern
<1>5. 1 \in 1..Len(u)
  BY <1>1
<1>6. HasPattern(u) <=> PatternAt(u, 1) \/ HasPattern(t)
  BY <1>1, <1>3, <1>4, <1>5 DEF HasPattern
<1> QED  BY <1>6 DEF u

\* A text without patterns is put in as it is.
LEMMA SubstituteNothing ==
  ASSUME NEW before \in Text, NEW match \in Text, NEW after \in Text,
         NEW new \in Text, ~HasPattern(new)
  PROVE  Substituted(new, before, match, after) = new
<1> DEFINE S == {t \in Text : ~HasPattern(t) => Substituted(t, before, match, after) = t}
<1>1. <<>> \in S
  BY SubstituteType, EmptySeq DEF Text
<1>2. ASSUME NEW t \in Text, NEW x \in Symbols, t \in S
      PROVE  Cons(x, t) \in S
  <2>1. Cons(x, t) \in Text
    BY HeadFacts
  <2>2. SUFFICES ASSUME ~HasPattern(Cons(x, t))
                 PROVE  Substituted(Cons(x, t), before, match, after) = Cons(x, t)
    BY <2>1
  <2>3. ~PatternAt(Cons(x, t), 1) /\ ~HasPattern(t)
    BY <2>2, PatternTail
  <2>4. Substituted(t, before, match, after) = t
    BY <1>2, <2>3
  <2> HIDE DEF S
  <2> QED  BY <2>3, <2>4, SubstituteCopy
<1>3. Text \subseteq S
  <2> HIDE DEF S
  <2> QED  BY <1>1, <1>2, TextInduction
<1> QED  BY <1>3

\* String.prototype.replace, when the text is known up to the first place.
LEMMA JsReplaceFirst ==
  ASSUME NEW old \in Text, old # <<>>, NEW new \in Text, NEW s \in Text, NEW t \in Text,
         Clear(old, s)
  PROVE  jsReplace(old, new, Cat(s, Cat(old, t)))
           = Cat(s, Cat(Substituted(new, s, old, t), t))
<1> DEFINE ot == Cat(old, t)
           u == Cat(s, ot)
           i == Len(s) + 1
<1>1. /\ ot \in Text /\ Len(ot) = Len(old) + Len(t)
      /\ \A k \in 1..Len(old) : ot[k] = old[k]
      /\ Len(s) \in Nat /\ Len(t) \in Nat /\ Len(old) \in Nat \ {0}
      /\ DOMAIN old = 1..Len(old)
  BY CatFacts, TextFacts
<1>2. u = Cat(Cat(s, old), t) /\ Cat(s, old) \in Text /\ Len(Cat(s, old)) = Len(s) + Len(old)
  BY CatAssoc, CatFacts
<1> HIDE DEF ot
<1>3. /\ u \in Text /\ Len(u) = Len(s) + Len(ot) /\ DOMAIN u = 1..Len(u)
      /\ \A k \in 1..Len(s) : u[k] = s[k]
      /\ \A k \in 1..Len(ot) : u[Len(s) + k] = ot[k]
  <2>1. ot \in Text
    BY <1>1
  <2>2. /\ u \in Text /\ Len(u) = Len(s) + Len(ot)
        /\ \A k \in 1..Len(s) : u[k] = s[k]
        /\ \A k \in 1..Len(ot) : u[Len(s) + k] = ot[k]
    BY <2>1, CatFacts
  <2> HIDE DEF u
  <2>3. DOMAIN u = 1..Len(u)
    BY <2>2, TextFacts
  <2> QED  BY <2>2, <2>3, Zenon
<1>4. \A k \in 1..Len(s) : ~At(u, k, old)
  BY <1>1, ClearPlaces
<1>5. From(u, Len(Cat(s, old)) + 1) = t
  BY <1>2, FromConcat
<1> HIDE DEF u
<1>6. At(u, i, old)
  <2>1. \A k \in 1..Len(old) : u[i + k - 1] = old[k]
    <3> SUFFICES ASSUME NEW k \in 1..Len(old) PROVE u[i + k - 1] = old[k]
      OBVIOUS
    <3>1. k \in 1..Len(ot) /\ Len(s) + k = i + k - 1
      BY <1>1
    <3> QED  BY <1>1, <1>3, <3>1
  <2>2. i + Len(old) - 1 <= Len(u)
    BY <1>1, <1>3
  <2> QED  BY <1>1, <2>1, <2>2, Zenon DEF At
<1>7. i \in 1..Len(u)
  BY <1>1, <1>3
<1>8. /\ i \in Places(old, u)
      /\ \A k \in Places(old, u) : i <= k
  <2>1. \A k \in 1..Len(u) : ~(k \in 1..Len(s)) => i <= k
    BY <1>1, <1>3
  <2> HIDE DEF i
  <2> QED  BY <1>3, <1>4, <1>6, <1>7, <2>1 DEF Places
<1>9. (CHOOSE k \in Places(old, u) : \A l \in Places(old, u) : k <= l) = i
  <2>1. Places(old, u) \subseteq Nat
    BY <1>3 DEF Places
  <2>2. \A k, l \in Nat : k <= l /\ l <= k => k = l
    OBVIOUS
  <2> HIDE DEF i
  <2>3. \A k \in Places(old, u) : (\A l \in Places(old, u) : k <= l) => k = i
    BY <1>8, <2>1, <2>2
  <2> QED  BY <1>8, <2>3
<1>10. SubSeq(u, 1, i - 1) = s
  <2>1. i - 1 = Len(s)
    BY <1>1
  <2>2. SubSeq(u, 1, Len(s)) \in Text /\ Len(SubSeq(u, 1, Len(s))) = Len(s)
        /\ \A k \in 1..Len(s) : SubSeq(u, 1, Len(s))[k] = s[k]
    BY <1>1, <1>3, SubSeqFacts
  <2>3. SubSeq(u, 1, Len(s)) = s
    BY <2>2, TextEqual
  <2> QED  BY <2>1, <2>3
<1>11. SubSeq(u, i + Len(old), Len(u)) = t
  <2>1. i + Len(old) = Len(Cat(s, old)) + 1
    BY <1>1, <1>2
  <2> QED  BY <1>5, <2>1 DEF From
<1>12. Occurs(old, u)
  BY <1>8 DEF Occurs
<1> DEFINE new2 == Substituted(new, s, old, t)
<1>13. new2 \in Text
  BY SubstituteType
<1> HIDE DEF i
<1>14. jsReplace(old, new, u) = Cat(Cat(s, new2), t)
  BY <1>9, <1>10, <1>11, <1>12, Zenon DEF jsReplace, Cat
<1>15. Cat(Cat(s, new2), t) = Cat(s, Cat(new2, t))
  <2> HIDE DEF new2
  <2> QED  BY <1>13, CatAssoc
<1> QED  BY <1>14, <1>15 DEF u, ot

-----------------------------------------------------------------------------
(* Literals *)

IsEscapes(escapes) ==
  /\ escapes.lead \in Symbols
  /\ DOMAIN escapes.meaning \subseteq Symbols
  /\ \A c \in DOMAIN escapes.meaning : escapes.meaning[c] \in Symbols

LiteralStep(text, escapes, closing) ==
  LET end == Len(text) + 1
  IN [i \in 1..end |->
       CASE i = end -> [put |-> <<"unterminated">>, next |-> end + 1]
         [] i # end /\ EscapeAt(text, i, escapes) ->
              [put |-> <<escapes.meaning[text[i + 1]]>>, next |-> i + 2]
         [] i # end /\ ~EscapeAt(text, i, escapes) /\ At(text, i, closing) ->
              [put |-> <<>>, next |-> end + 1]
         [] OTHER -> Copy(text, i)]

LEMMA LiteralReads ==
  ASSUME NEW text, NEW escapes, NEW closing
  PROVE  Literal(text, escapes, closing)
           = Read(Len(text) + 1, LiteralStep(text, escapes, closing))
BY DEF Literal, LiteralStep

\* The four kinds of steps.
Ends(t, e, c, i) ==
  /\ LiteralStep(t, e, c)[i].put = <<"unterminated">>
  /\ LiteralStep(t, e, c)[i].next = Len(t) + 2

Escapes(t, e, c, i) ==
  /\ LiteralStep(t, e, c)[i].put = <<e.meaning[t[i + 1]]>>
  /\ LiteralStep(t, e, c)[i].next = i + 2

Closes(t, e, c, i) ==
  /\ LiteralStep(t, e, c)[i].put = <<>>
  /\ LiteralStep(t, e, c)[i].next = Len(t) + 2

Copies(t, e, c, i) ==
  /\ LiteralStep(t, e, c)[i].put = <<t[i]>>
  /\ LiteralStep(t, e, c)[i].next = i + 1

LEMMA LiteralSteps ==
  ASSUME NEW t \in Text, NEW e, IsEscapes(e), NEW c \in Text
  PROVE  /\ IsSteps(LiteralStep(t, e, c), Len(t) + 1)
         /\ Ends(t, e, c, Len(t) + 1)
         /\ \A i \in 1..Len(t) :
              /\ EscapeAt(t, i, e) => Escapes(t, e, c, i)
              /\ ~EscapeAt(t, i, e) /\ At(t, i, c) => Closes(t, e, c, i)
              /\ ~EscapeAt(t, i, e) /\ ~At(t, i, c) => Copies(t, e, c, i)
<1> DEFINE step == LiteralStep(t, e, c)
           end == Len(t) + 1
<1>1. /\ Len(t) \in Nat /\ \A i \in 1..Len(t) : t[i] \in Symbols
  BY TextFacts
<1>2. /\ "unterminated" \in Symbols /\ <<"unterminated">> \in Text /\ <<>> \in Text
  BY SymbolsAssumption, SymbolFacts, EmptySeq DEF CodeSymbols, Text
<1>3. \A i \in 1..Len(t) : EscapeAt(t, i, e) => /\ i + 2 \in (i + 1)..(end + 1)
                                                /\ <<e.meaning[t[i + 1]]>> \in Text
  BY <1>1, SymbolFacts DEF EscapeAt, IsEscapes
<1>4. \A i \in 1..Len(t) : <<t[i]>> \in Text
  BY <1>1, SymbolFacts
<1>5. /\ step[end] = [put |-> <<"unterminated">>, next |-> end + 1]
      /\ end + 1 = Len(t) + 2 /\ end \in 1..end
  BY <1>1 DEF LiteralStep
<1>6. ASSUME NEW i \in 1..Len(t)
      PROVE  /\ step[i] \in [put : Text, next : 1..(end + 1)] /\ step[i].next > i
             /\ EscapeAt(t, i, e) => Escapes(t, e, c, i)
             /\ ~EscapeAt(t, i, e) /\ At(t, i, c) => Closes(t, e, c, i)
             /\ ~EscapeAt(t, i, e) /\ ~At(t, i, c) => Copies(t, e, c, i)
  <2>0. i # end /\ i \in 1..end /\ i \in Nat
    BY <1>1
  <2>1. CASE EscapeAt(t, i, e)
    <3>1. step[i] = [put |-> <<e.meaning[t[i + 1]]>>, next |-> i + 2]
      BY <2>0, <2>1 DEF LiteralStep
    <3> QED  BY <1>1, <1>3, <2>1, <3>1 DEF Escapes
  <2>2. CASE ~EscapeAt(t, i, e) /\ At(t, i, c)
    <3>1. step[i] = [put |-> <<>>, next |-> end + 1]
      BY <2>0, <2>2 DEF LiteralStep
    <3> QED  BY <1>1, <1>2, <2>2, <3>1 DEF Closes
  <2>3. CASE ~EscapeAt(t, i, e) /\ ~At(t, i, c)
    <3>1. step[i] = [put |-> <<t[i]>>, next |-> i + 1]
      BY <2>0, <2>3 DEF LiteralStep, Copy
    <3> QED  BY <1>1, <1>4, <2>3, <3>1 DEF Copies
  <2> QED  BY <2>1, <2>2, <2>3
<1>7. step = [i \in 1..end |-> step[i]]
  BY DEF LiteralStep
<1>8. \A i \in 1..end : i \in 1..Len(t) \/ i = end
  BY <1>1
<1>9. \A i \in 1..end : step[i] \in [put : Text, next : 1..(end + 1)] /\ step[i].next > i
  <2>1. step[end] \in [put : Text, next : 1..(end + 1)] /\ step[end].next > end
    BY <1>1, <1>2, <1>5
  <2> QED  BY <1>6, <1>8, <2>1
<1>10. IsSteps(step, end)
  BY <1>7, <1>9 DEF IsSteps
<1>11. Ends(t, e, c, end)
  BY <1>5 DEF Ends
<1> QED  BY <1>6, <1>10, <1>11

LEMMA EscapeFrom ==
  ASSUME NEW t \in Text, NEW k \in 1..(Len(t) + 1), NEW i \in 1..(Len(t) - k + 1), NEW e
  PROVE  /\ EscapeAt(From(t, k), i, e) <=> EscapeAt(t, k + i - 1, e)
         /\ EscapeAt(t, k + i - 1, e) => From(t, k)[i + 1] = t[k + i]
<1>1. /\ Len(From(t, k)) = Len(t) - k + 1 /\ Len(t) \in Nat
      /\ \A j \in 1..(Len(t) - k + 1) : From(t, k)[j] = t[k + j - 1]
  BY FromFacts, TextFacts
<1>2. From(t, k)[i] = t[k + i - 1]
  BY <1>1
<1>3. i < Len(t) - k + 1 <=> k + i - 1 < Len(t)
  BY <1>1
<1>4. i < Len(t) - k + 1 => From(t, k)[i + 1] = t[k + i - 1 + 1] /\ k + i - 1 + 1 = k + i
  <2>1. k + (i + 1) - 1 = k + i - 1 + 1
    OBVIOUS
  <2> QED  BY <1>1, <2>1
<1> QED  BY <1>1, <1>2, <1>3, <1>4 DEF EscapeAt

LEMMA LiteralRest ==
  ASSUME NEW t \in Text, t # <<>>, NEW e, IsEscapes(e), NEW c \in Text,
         LiteralStep(t, e, c)[1].next <= Len(t) + 1
  PROVE  Literal(t, e, c) = Cat(LiteralStep(t, e, c)[1].put,
                                Literal(From(t, LiteralStep(t, e, c)[1].next), e, c))
<1> DEFINE step == LiteralStep(t, e, c)
           k == step[1].next
           rest == LiteralStep(From(t, k), e, c)
           n == Len(t) + 1
           m == Len(From(t, k)) + 1
<1>1. Len(t) \in Nat /\ Len(t) > 0 /\ n \in Nat /\ n > 0
  BY TextFacts
<1>2. IsSteps(step, n)
  BY LiteralSteps
<1>3. k \in 2..n /\ k \in 1..(Len(t) + 1)
  <2>1. step[1].next <= n
    OBVIOUS
  <2> HIDE DEF step
  <2>2. step[1].next \in 2..(n + 1)
    BY <1>1, <1>2, StepFacts
  <2> QED  BY <1>1, <2>1, <2>2 DEF step
<1> HIDE DEF k
<1>4. From(t, k) \in Text /\ Len(From(t, k)) = n - k /\ m = n - k + 1 /\ m \in Nat
  <2>1. From(t, k) \in Text /\ Len(From(t, k)) = Len(t) - k + 1
    BY <1>3, FromFacts
  <2> QED  BY <1>1, <1>3, <2>1
<1>5. IsSteps(rest, m)
  BY <1>4, LiteralSteps
<1>6. ASSUME NEW i \in 1..m
      PROVE  /\ rest[i].put = step[i + n - m].put
             /\ rest[i].next = step[i + n - m].next - (n - m)
  <2>1. PICK j \in 1..n : j = i + n - m /\ j = k + i - 1
    <3>1. k + i - 1 \in 1..n /\ k + i - 1 = i + n - m
      BY <1>1, <1>3, <1>4
    <3> QED  BY <3>1
  <2>2. CASE i = m
    <3>1. j = n /\ i = Len(From(t, k)) + 1 /\ j = Len(t) + 1
      BY <1>1, <1>3, <1>4, <2>1, <2>2
    <3>2. Ends(t, e, c, j) /\ Ends(From(t, k), e, c, i)
      BY <1>4, <3>1, LiteralSteps
    <3>3. /\ rest[i].put = step[j].put
          /\ rest[i].next = Len(From(t, k)) + 2 /\ step[j].next = Len(t) + 2
      BY <3>2 DEF Ends
    <3> HIDE DEF step, rest
    <3> QED  BY <1>1, <1>3, <1>4, <2>1, <3>3
  <2>3. CASE i # m
    <3>1. /\ i \in 1..Len(From(t, k)) /\ j \in 1..Len(t) /\ i \in 1..(Len(t) - k + 1)
      <4>1. i \in 1..(m - 1) /\ m - 1 = Len(From(t, k)) /\ m - 1 = Len(t) - k + 1
        BY <1>1, <1>3, <1>4, <2>3
      <4>2. j \in 1..Len(t)
        BY <1>1, <1>3, <2>1, <4>1
      <4> QED  BY <4>1, <4>2
    <3>2. /\ From(t, k)[i] = t[j] /\ (At(From(t, k), i, c) <=> At(t, j, c))
          /\ EscapeAt(From(t, k), i, e) <=> EscapeAt(t, j, e)
          /\ EscapeAt(t, j, e) => From(t, k)[i + 1] = t[j + 1]
      <4>1. k + i = j + 1
        BY <1>3, <2>1
      <4>2. From(t, k)[i] = t[k + i - 1]
        BY <1>3, <3>1, FromFacts
      <4>3. At(From(t, k), i, c) <=> At(t, k + i - 1, c)
        BY <1>3, <3>1, AtFrom
      <4>4. /\ EscapeAt(From(t, k), i, e) <=> EscapeAt(t, k + i - 1, e)
            /\ EscapeAt(t, k + i - 1, e) => From(t, k)[i + 1] = t[k + i]
        BY <1>3, <3>1, EscapeFrom
      <4> QED  BY <2>1, <4>1, <4>2, <4>3, <4>4
    <3>3. /\ EscapeAt(t, j, e) => Escapes(t, e, c, j)
          /\ ~EscapeAt(t, j, e) /\ At(t, j, c) => Closes(t, e, c, j)
          /\ ~EscapeAt(t, j, e) /\ ~At(t, j, c) => Copies(t, e, c, j)
      BY <3>1, LiteralSteps
    <3>4. /\ EscapeAt(t, j, e) => Escapes(From(t, k), e, c, i)
          /\ ~EscapeAt(t, j, e) /\ At(t, j, c) => Closes(From(t, k), e, c, i)
          /\ ~EscapeAt(t, j, e) /\ ~At(t, j, c) => Copies(From(t, k), e, c, i)
      BY <1>4, <3>1, <3>2, LiteralSteps
    <3>5. /\ rest[i].put = step[j].put
          /\ \/ rest[i].next = i + 2 /\ step[j].next = j + 2
             \/ rest[i].next = Len(From(t, k)) + 2 /\ step[j].next = Len(t) + 2
             \/ rest[i].next = i + 1 /\ step[j].next = j + 1
      <4>1. CASE EscapeAt(t, j, e)
        BY <3>2, <3>3, <3>4, <4>1 DEF Escapes
      <4>2. CASE ~EscapeAt(t, j, e) /\ At(t, j, c)
        BY <3>3, <3>4, <4>2 DEF Closes
      <4>3. CASE ~EscapeAt(t, j, e) /\ ~At(t, j, c)
        BY <3>2, <3>3, <3>4, <4>3 DEF Copies
      <4> QED  BY <4>1, <4>2, <4>3
    <3> DEFINE a == rest[i].next
               b == step[j].next
               p == Len(From(t, k)) + 2
               q == Len(t) + 2
    <3>a. (a = i + 2 /\ b = j + 2) \/ (a = p /\ b = q) \/ (a = i + 1 /\ b = j + 1)
      BY <3>5, Zenon
    <3> HIDE DEF step, rest, n, m
    <3>6. p \in Int /\ q \in Int /\ p = q - (n - m)
      <4>1. /\ Len(t) \in Nat /\ Len(From(t, k)) = n - k /\ m = n - k + 1
            /\ n = Len(t) + 1 /\ k \in 2..n
        BY <1>1, <1>3, <1>4 DEF n, m
      <4>2. Len(t) \in Nat /\ Len(From(t, k)) \in Int /\ Len(From(t, k)) = Len(t) - (n - m)
        <5> DEFINE l == Len(t)
                   h == Len(From(t, k))
        <5>1. l \in Nat /\ h = n - k /\ m = n - k + 1 /\ n = l + 1 /\ k \in 2..n
          BY <4>1, Zenon
        <5> HIDE DEF l, h
        <5>2. l \in Nat /\ h \in Int /\ h = l - (n - m)
          BY <5>1
        <5> QED  BY <5>2, Zenon DEF l, h
      <4>3. n \in Nat /\ m \in Int
        BY <4>1
      <4> QED  BY <4>2, <4>3
    <3>7. j \in Nat /\ j = i + n - m /\ n \in Nat /\ m \in Nat /\ i \in Nat
      <4>1. i \in 1..m /\ m \in Nat /\ n \in Nat
        BY <1>1, <1>4 DEF n, m
      <4> QED  BY <2>1, <4>1 DEF n, m
    <3>8. i + 2 = j + 2 - (n - m) /\ i + 1 = j + 1 - (n - m)
      BY <3>7
    <3>9. rest[i].put = step[j].put /\ rest[i].next = step[j].next - (n - m)
      <4> HIDE DEF a, b, p, q
      <4>1. a = b - (n - m)
        <5>1. CASE a = i + 2 /\ b = j + 2
          BY <3>7, <3>8, <5>1
        <5>2. CASE a = p /\ b = q
          BY <3>6, <3>7, <5>2
        <5>3. CASE a = i + 1 /\ b = j + 1
          BY <3>7, <3>8, <5>3
        <5> QED  BY <3>a, <5>1, <5>2, <5>3
      <4> QED  BY <3>5, <4>1, Zenon DEF a, b
    <3> QED  BY <3>7, <3>9
  <2> QED  BY <2>2, <2>3
<1>7. m = n + 1 - step[1].next
  BY <1>1, <1>3, <1>4 DEF k
<1> HIDE DEF step, rest, n, m
<1>8. Read(n, step) = Cat(step[1].put, Read(m, rest))
  <2>1. IsRest(step, n, rest, m)
    BY <1>6, <1>7 DEF IsRest
  <2>2. m \in Nat
    BY <1>4
  <2>3. ReadsOn(n, step, m, rest)
    BY <1>1, <1>2, <1>5, <2>1, <2>2, ReadStep, Zenon
  <2> QED  BY <2>3, Zenon DEF ReadsOn
<1> QED  BY <1>8, LiteralReads, Zenon DEF step, rest, n, m, k

\* A literal that is not closed.
LEMMA LiteralEmpty ==
  ASSUME NEW e, IsEscapes(e), NEW c \in Text
  PROVE  Literal(<<>>, e, c) = <<"unterminated">>
<1> DEFINE step == LiteralStep(<<>>, e, c)
<1>1. <<>> \in Text /\ Len(<<>>) + 1 = 1 /\ Len(<<>>) + 2 = 2
  BY EmptySeq DEF Text
<1>2. IsSteps(step, 1) /\ Ends(<<>>, e, c, 1)
  BY <1>1, LiteralSteps
<1>3. step[1].put = <<"unterminated">> /\ step[1].next = 2
  BY <1>1, <1>2 DEF Ends
<1>4. <<"unterminated">> \in Text
  BY SymbolsAssumption, SymbolFacts DEF CodeSymbols
<1> HIDE DEF step
<1>5. Read(1, step) = step[1].put
  <2>1. 1 \in Nat /\ 1 > 0 /\ step[1].next = 1 + 1
    BY <1>3
  <2> QED  BY <1>2, <2>1, ReadLast
<1> QED  BY <1>1, <1>3, <1>5, LiteralReads DEF step

\* A text that begins with what closes the literal,
LEMMA LiteralClose ==
  ASSUME NEW t \in Text, t # <<>>, NEW e, IsEscapes(e), NEW c \in Text,
         ~EscapeAt(t, 1, e), At(t, 1, c)
  PROVE  Literal(t, e, c) = <<>>
<1> DEFINE step == LiteralStep(t, e, c)
           n == Len(t) + 1
<1>1. 1 \in 1..Len(t) /\ Len(t) \in Nat
  BY TextFacts
<1>2. IsSteps(step, n) /\ Closes(t, e, c, 1)
  BY <1>1, LiteralSteps
<1>3. step[1].put = <<>> /\ step[1].next = n + 1
  BY <1>1, <1>2 DEF Closes
<1>4. n \in Nat /\ n > 0
  BY <1>1
<1> HIDE DEF step, n
<1>5. Read(n, step) = step[1].put
  BY <1>2, <1>3, <1>4, ReadLast
<1> QED  BY <1>3, <1>5, LiteralReads DEF step, n

\* a symbol that stands for itself,
LEMMA LiteralCopy ==
  ASSUME NEW t \in Text, NEW x \in Symbols, NEW e, IsEscapes(e), NEW c \in Text,
         ~EscapeAt(Cons(x, t), 1, e), ~At(Cons(x, t), 1, c)
  PROVE  Literal(Cons(x, t), e, c) = Cons(x, Literal(t, e, c))
<1> DEFINE u == Cons(x, t)
           step == LiteralStep(u, e, c)
<1>1. u \in Text /\ u # <<>> /\ u[1] = x /\ 1 \in 1..Len(u) /\ Len(u) \in Nat
  BY HeadFacts, TextFacts
<1>2. From(u, 2) = t
  BY TailOfCat
<1>3. ~EscapeAt(u, 1, e) /\ ~At(u, 1, c)
  OBVIOUS
<1> HIDE DEF u
<1>4. Copies(u, e, c, 1)
  BY <1>1, <1>3, LiteralSteps
<1>5. step[1].put = <<x>> /\ step[1].next = 2 /\ step[1].next <= Len(u) + 1
  BY <1>1, <1>4 DEF Copies
<1>6. Literal(u, e, c) = Cat(step[1].put, Literal(From(u, step[1].next), e, c))
  BY <1>1, <1>5, LiteralRest
<1> QED  BY <1>2, <1>5, <1>6, Zenon DEF u, Cons

\* and an escape.
LEMMA LiteralEscape ==
  ASSUME NEW t \in Text, NEW e, IsEscapes(e), NEW x \in DOMAIN e.meaning, NEW c \in Text
  PROVE  Literal(Cons(e.lead, Cons(x, t)), e, c)
           = Cons(e.meaning[x], Literal(t, e, c))
<1> DEFINE xt == Cons(x, t)
           lead == e.lead
           u == Cons(lead, xt)
           step == LiteralStep(u, e, c)
<1>0. x \in Symbols /\ lead \in Symbols
  BY DEF IsEscapes
<1> HIDE DEF lead
<1>1. xt \in Text /\ Len(xt) = Len(t) + 1 /\ xt[1] = x /\ Len(t) \in Nat /\ From(xt, 2) = t
  BY <1>0, HeadFacts, TextFacts, TailOfCat
<1> HIDE DEF xt
<1>2. /\ u \in Text /\ Len(u) = Len(xt) + 1 /\ u[1] = lead /\ u # <<>>
      /\ \A i \in 1..Len(xt) : u[i + 1] = xt[i]
  BY <1>0, <1>1, HeadFacts, TextFacts
<1>3. From(u, 2) = xt
  BY <1>0, <1>1, TailOfCat
<1> HIDE DEF u
<1>4. u[2] = x /\ 1 \in 1..Len(u) /\ 1 < Len(u) /\ 3 <= Len(u) + 1
  BY <1>1, <1>2
<1>5. From(u, 3) = t
  BY <1>1, <1>2, <1>3, FromFrom
<1>6. EscapeAt(u, 1, e)
  BY <1>2, <1>4 DEF EscapeAt, lead
<1>7. Escapes(u, e, c, 1)
  BY <1>2, <1>4, <1>6, LiteralSteps
<1>8. step[1].put = <<e.meaning[x]>> /\ step[1].next = 3 /\ step[1].next <= Len(u) + 1
  BY <1>4, <1>7 DEF Escapes
<1>9. Literal(u, e, c) = Cat(step[1].put, Literal(From(u, step[1].next), e, c))
  BY <1>2, <1>8, LiteralRest
<1> QED  BY <1>5, <1>8, <1>9, Zenon DEF u, xt, lead, Cons

=============================================================================
