------------------------ MODULE StdinArrivesProofs -------------------------
(***************************************************************************)
(* Proofs about the literals with the stdin data in generated programs,    *)
(* for all texts over all sets of symbols: which data the program reads.   *)
(***************************************************************************)
EXTENDS TextRewritingProofs

-----------------------------------------------------------------------------
(* Reading literals *)

LEMMA LiteralType ==
  ASSUME NEW t \in Text, NEW e, IsEscapes(e), NEW c \in Text
  PROVE  Literal(t, e, c) \in Text
<1>1. Len(t) + 1 \in Nat /\ IsSteps(LiteralStep(t, e, c), Len(t) + 1)
  BY LiteralSteps, TextFacts
<1> QED  BY <1>1, ReadFacts, LiteralReads

LEMMA EscapesFacts ==
  /\ IsEscapes(Backslash) /\ Backslash.lead = Slash
  /\ DOMAIN Backslash.meaning = {Slash, Single, Double, Letter}
  /\ Backslash.meaning[Slash] = Slash /\ Backslash.meaning[Single] = Single
  /\ Backslash.meaning[Double] = Double /\ Backslash.meaning[Letter] = Line
  /\ IsEscapes(Doubled) /\ Doubled.lead = Double
  /\ DOMAIN Doubled.meaning = {Double} /\ Doubled.meaning[Double] = Double
  /\ IsEscapes(Raw) /\ DOMAIN Raw.meaning = {}
<1> DEFINE b == [c \in {Slash, Single, Double, Letter} |-> IF c = Letter THEN Line ELSE c]
           d == [c \in {Double} |-> c]
           n == [c \in {} |-> c]
<1>1. Backslash = [lead |-> Slash, meaning |-> b]
  BY Zenon DEF Backslash, Slash, Single, Double, Letter, Line
<1>2. Doubled = [lead |-> Double, meaning |-> d]
  BY Zenon DEF Doubled, Double
<1>3. Raw = [lead |-> Slash, meaning |-> n]
  BY Zenon DEF Raw, Slash
<1>4. /\ Backslash.lead = Slash /\ Backslash.meaning = b
      /\ Doubled.lead = Double /\ Doubled.meaning = d
      /\ Raw.lead = Slash /\ Raw.meaning = n
  <2> HIDE DEF b, d, n
  <2> QED  BY <1>1, <1>2, <1>3
<1>5. /\ DOMAIN b = {Slash, Single, Double, Letter} /\ b[Slash] = Slash /\ b[Single] = Single
      /\ b[Double] = Double /\ b[Letter] = Line
      /\ DOMAIN d = {Double} /\ d[Double] = Double /\ DOMAIN n = {}
  BY NameFacts
<1> HIDE DEF b, d, n
<1>6. IsEscapes(Backslash)
  BY <1>4, <1>5, NameFacts DEF IsEscapes
<1>7. IsEscapes(Doubled)
  BY <1>4, <1>5, NameFacts DEF IsEscapes
<1>8. IsEscapes(Raw)
  BY <1>4, <1>5, NameFacts DEF IsEscapes
<1> QED  BY <1>4, <1>5, <1>6, <1>7, <1>8

\* A symbol that begins neither an escape nor what closes the literal.
LEMMA LiteralPlain ==
  ASSUME NEW t \in Text, NEW x \in Symbols, NEW e, IsEscapes(e), NEW c \in Text, c # <<>>,
         x # e.lead, x # c[1]
  PROVE  Literal(Cons(x, t), e, c) = Cons(x, Literal(t, e, c))
<1> DEFINE u == Cons(x, t)
<1>1. u[1] = x /\ 1 \in DOMAIN c
  <2>1. DOMAIN c = 1..Len(c) /\ Len(c) \in Nat \ {0}
    BY TextFacts
  <2>2. u[1] = x
    BY HeadFacts
  <2> HIDE DEF u
  <2> QED  BY <2>1, <2>2
<1>2. ~EscapeAt(u, 1, e) /\ ~At(u, 1, c)
  <2> HIDE DEF u
  <2>1. ~EscapeAt(u, 1, e)
    BY <1>1 DEF EscapeAt
  <2>2. At(u, 1, c) => u[1 + 1 - 1] = c[1]
    BY <1>1 DEF At
  <2> QED  BY <1>1, <2>1, <2>2
<1> QED  BY <1>2, LiteralCopy

\* One that is no escape is closed by one symbol.
LEMMA LiteralCloseSymbol ==
  ASSUME NEW t \in Text, NEW x \in Symbols, NEW e, IsEscapes(e),
         x = e.lead => t # <<>> /\ t[1] \notin DOMAIN e.meaning
  PROVE  Literal(Cons(x, t), e, <<x>>) = <<>>
<1> DEFINE u == Cons(x, t)
           c == <<x>>
<1>1. /\ u \in Text /\ u # <<>> /\ u[1] = x /\ c \in Text /\ Len(c) = 1 /\ c[1] = x
      /\ DOMAIN c = 1..1 /\ Len(u) = Len(t) + 1 /\ Len(t) \in Nat
      /\ \A i \in 1..Len(t) : u[i + 1] = t[i]
  BY HeadFacts, SymbolFacts, TextFacts
<1>2. t # <<>> => u[2] = t[1]
  <2> HIDE DEF u
  <2> QED  BY <1>1, TextFacts
<1> HIDE DEF u, c
<1>3. ~EscapeAt(u, 1, e)
  BY <1>1, <1>2 DEF EscapeAt
<1>4. At(u, 1, c)
  BY <1>1 DEF At
<1>5. Literal(u, e, c) = <<>>
  BY <1>1, <1>3, <1>4, LiteralClose
<1> QED  BY <1>5 DEF u, c

\* C#: a verbatim string.
Twice(t) == strReplace(<<Double>>, <<Double, Double>>, t)

LEMMA TwiceFacts ==
  ASSUME NEW t \in Text
  PROVE  /\ Twice(t) \in Text /\ Twice(<<>>) = <<>>
         /\ Twice(Cons(Double, t)) = Cons(Double, Cons(Double, Twice(t)))
         /\ \A x \in Symbols : x # Double => Twice(Cons(x, t)) = Cons(x, Twice(t))
<1> DEFINE new == <<Double, Double>>
           old == <<Double>>
           c == <<Double>>
           rest == strReplace(old, new, t)
<1>1. Double \in Symbols /\ c \in Text
  BY NameFacts, SymbolFacts
<1>2. new \in Text /\ new = Cons(Double, c)
  BY <1>1, Pair
<1>3. old \in Text /\ old # <<>>
  BY <1>1, SymbolFacts, TextFacts
<1>4. rest \in Text /\ strReplace(old, new, <<>>) = <<>>
  <2> HIDE DEF old, new
  <2> QED  BY <1>2, <1>3, ReplaceType, ReplaceEmpty
<1>5. Cat(new, rest) = Cons(Double, Cons(Double, rest))
  <2>1. Cat(c, rest) = Cons(Double, rest)
    BY DEF Cons
  <2> HIDE DEF rest, new, c
  <2> QED  BY <1>1, <1>2, <1>4, <2>1, ConsCat
<1>6. ASSUME NEW x \in Symbols
      PROVE  /\ x = Double => strReplace(old, new, Cons(x, t)) = Cat(new, rest)
             /\ x # Double => strReplace(old, new, Cons(x, t)) = Cons(x, rest)
  <2> HIDE DEF new
  <2> QED  BY <1>1, <1>2, ReplaceSymbol
<1> QED  BY <1>1, <1>4, <1>5, <1>6 DEF Twice

LEMMA TwiceReads ==
  ASSUME NEW t \in Text, NEW u \in Text
  PROVE  Literal(Cat(Twice(t), u), Doubled, <<Double>>)
           = Cat(t, Literal(u, Doubled, <<Double>>))
<1> DEFINE c == <<Double>>
           L(v) == Literal(v, Doubled, c)
           S == {v \in Text : L(Cat(Twice(v), u)) = Cat(v, L(u))}
<1>0. Double \in Symbols /\ c \in Text /\ c # <<>> /\ c[1] = Double
  BY NameFacts, SymbolFacts, TextFacts
<1> HIDE DEF c
<1>1. \A v \in Text : L(v) \in Text
  BY <1>0, LiteralType, EscapesFacts
<1>2. \A v \in Text : L(Cons(Double, Cons(Double, v))) = Cons(Double, L(v))
  BY <1>0, LiteralEscape, EscapesFacts
<1>3. \A v \in Text, x \in Symbols : x # Double => L(Cons(x, v)) = Cons(x, L(v))
  BY <1>0, LiteralPlain, EscapesFacts
<1> HIDE DEF L
<1>4. <<>> \in S
  <2>1. <<>> \in Text
    BY EmptySeq DEF Text
  <2>2. Twice(<<>>) = <<>>
    BY <2>1, TwiceFacts
  <2>3. Cat(Twice(<<>>), u) = u /\ Cat(<<>>, L(u)) = L(u)
    BY <1>1, <2>2, CatEmpty
  <2> QED  BY <2>1, <2>3
<1>5. ASSUME NEW v \in Text, NEW x \in Symbols, v \in S
      PROVE  Cons(x, v) \in S
  <2> DEFINE w == Twice(v)
             wu == Cat(w, u)
  <2>1. w \in Text /\ wu \in Text /\ Cons(x, v) \in Text /\ L(u) \in Text
    BY <1>1, TwiceFacts, CatFacts, HeadFacts
  <2>2. L(wu) = Cat(v, L(u))
    BY <1>5
  <2>3. Cat(Cons(x, v), L(u)) = Cons(x, L(wu))
    BY <2>1, <2>2, ConsCat
  <2>4. CASE x = Double
    <3>1. Twice(Cons(x, v)) = Cons(Double, Cons(Double, w))
      BY <2>4, TwiceFacts
    <3> HIDE DEF w
    <3>2. Cat(Cons(Double, Cons(Double, w)), u) = Cons(Double, Cons(Double, wu))
      <4>1. Cons(Double, w) \in Text
        BY <1>0, <2>1, HeadFacts
      <4>2. Cat(Cons(Double, w), u) = Cons(Double, wu)
        BY <1>0, <2>1, ConsCat
      <4>3. Cat(Cons(Double, Cons(Double, w)), u) = Cons(Double, Cat(Cons(Double, w), u))
        BY <1>0, <2>1, <4>1, ConsCat
      <4> QED  BY <4>2, <4>3
    <3> HIDE DEF wu
    <3> QED  BY <1>2, <2>1, <2>3, <2>4, <3>1, <3>2
  <2>5. CASE x # Double
    <3>1. Twice(Cons(x, v)) = Cons(x, w)
      BY <2>5, TwiceFacts
    <3> HIDE DEF w
    <3>2. Cat(Cons(x, w), u) = Cons(x, wu)
      BY <2>1, ConsCat
    <3> HIDE DEF wu
    <3> QED  BY <1>3, <2>1, <2>3, <2>5, <3>1, <3>2
  <2> QED  BY <2>4, <2>5
<1>6. Text \subseteq S
  <2> HIDE DEF S
  <2> QED  BY <1>4, <1>5, TextInduction
<1> QED  BY <1>6 DEF L, c
\* A JSON string, and JSON in a string literal without quotes.
LEMMA JsonReads ==
  ASSUME NEW t \in Text, NEW u \in Text
  PROVE  Literal(Cat(json(t), u), Backslash, <<Double>>)
           = Cat(t, Literal(u, Backslash, <<Double>>))
<1> DEFINE c == <<Double>>
           L(v) == Literal(v, Backslash, c)
           S == {v \in Text : L(Cat(json(v), u)) = Cat(v, L(u))}
<1>0. /\ c \in Text /\ c # <<>> /\ c[1] = Double /\ <<>> \in Text
      /\ Double \in Symbols /\ Slash \in Symbols /\ Letter \in Symbols /\ Line \in Symbols
      /\ Slash # Double
  BY NameFacts, SymbolFacts, TextFacts, EmptySeq DEF Text
<1> HIDE DEF c
<1>1. \A v \in Text : L(v) \in Text
  BY <1>0, LiteralType, EscapesFacts
<1>2. \A v \in Text : /\ L(Cons(Slash, Cons(Slash, v))) = Cons(Slash, L(v))
                      /\ L(Cons(Slash, Cons(Double, v))) = Cons(Double, L(v))
                      /\ L(Cons(Slash, Cons(Letter, v))) = Cons(Line, L(v))
  BY <1>0, LiteralEscape, EscapesFacts
<1>3. \A v \in Text, x \in Symbols : x # Double /\ x # Slash => L(Cons(x, v)) = Cons(x, L(v))
  BY <1>0, LiteralPlain, EscapesFacts
<1> HIDE DEF L
<1>4. <<>> \in S
  <2>1. json(<<>>) = <<>>
    BY <1>0, JsonFacts
  <2>2. Cat(json(<<>>), u) = u /\ Cat(<<>>, L(u)) = L(u)
    BY <1>1, <2>1, CatEmpty
  <2> QED  BY <1>0, <2>2
<1>5. ASSUME NEW v \in Text, NEW x \in Symbols, v \in S
      PROVE  Cons(x, v) \in S
  <2> DEFINE w == json(v)
             wu == Cat(w, u)
  <2>1. w \in Text /\ wu \in Text /\ Cons(x, v) \in Text /\ L(u) \in Text
    BY <1>1, JsonFacts, CatFacts, HeadFacts
  <2>2. L(wu) = Cat(v, L(u))
    BY <1>5
  <2>3. Cat(Cons(x, v), L(u)) = Cons(x, L(wu))
    BY <2>1, <2>2, ConsCat
  <2>4. \A y, z \in Symbols : Cat(Cons(y, Cons(z, w)), u) = Cons(y, Cons(z, wu))
    <3> SUFFICES ASSUME NEW y \in Symbols, NEW z \in Symbols
                 PROVE  Cat(Cons(y, Cons(z, w)), u) = Cons(y, Cons(z, wu))
      OBVIOUS
    <3> HIDE DEF w
    <3>1. Cons(z, w) \in Text
      BY <2>1, HeadFacts
    <3>2. Cat(Cons(z, w), u) = Cons(z, wu)
      BY <2>1, ConsCat
    <3>3. Cat(Cons(y, Cons(z, w)), u) = Cons(y, Cat(Cons(z, w), u))
      BY <3>1, ConsCat
    <3> QED  BY <3>2, <3>3
  <2>5. \A y \in Symbols : Cat(Cons(y, w), u) = Cons(y, wu)
    <3> HIDE DEF w
    <3> QED  BY <2>1, ConsCat
  <2>6. /\ x = Slash => json(Cons(x, v)) = Cons(Slash, Cons(Slash, w))
        /\ x = Double => json(Cons(x, v)) = Cons(Slash, Cons(Double, w))
        /\ x = Line => json(Cons(x, v)) = Cons(Slash, Cons(Letter, w))
        /\ x \notin {Slash, Double, Line} => json(Cons(x, v)) = Cons(x, w)
    BY JsonFacts
  <2> HIDE DEF w, wu
  <2>7. L(Cat(json(Cons(x, v)), u)) = Cons(x, L(wu))
    BY <1>0, <1>2, <1>3, <2>1, <2>4, <2>5, <2>6
  <2> QED  BY <2>1, <2>3, <2>7
<1>6. Text \subseteq S
  <2> HIDE DEF S
  <2> QED  BY <1>4, <1>5, TextInduction
<1> QED  BY <1>6 DEF L, c

LEMMA JsStdinReads ==
  ASSUME NEW t \in Text, NEW u \in Text, ~Occurs(<<Single>>, t)
  PROVE  Literal(Cat(jsStdin(t), u), Backslash, <<Single>>)
           = Cat(json(t), Literal(u, Backslash, <<Single>>))
<1> DEFINE c == <<Single>>
           L(v) == Literal(v, Backslash, c)
           S == {v \in Text : ~Occurs(c, v) => L(Cat(jsStdin(v), u)) = Cat(json(v), L(u))}
<1>0. /\ c \in Text /\ c # <<>> /\ c[1] = Single /\ Len(c) = 1 /\ DOMAIN c = 1..1
      /\ <<>> \in Text
      /\ Double \in Symbols /\ Slash \in Symbols /\ Letter \in Symbols /\ Line \in Symbols
      /\ Single \notin {Slash, Double, Letter, Line} /\ Slash \notin {Double, Letter}
      /\ Single \in Symbols
  BY NameFacts, SymbolFacts, TextFacts, EmptySeq DEF Text
<1> HIDE DEF c
<1>1. \A v \in Text : L(v) \in Text
  BY <1>0, LiteralType, EscapesFacts
<1>2. \A v \in Text : L(Cons(Slash, Cons(Slash, v))) = Cons(Slash, L(v))
  BY <1>0, LiteralEscape, EscapesFacts
<1>3. \A v \in Text, x \in Symbols : x # Single /\ x # Slash => L(Cons(x, v)) = Cons(x, L(v))
  BY <1>0, LiteralPlain, EscapesFacts
<1> HIDE DEF L
<1>4. <<>> \in S
  <2>1. json(<<>>) = <<>> /\ jsStdin(<<>>) = <<>>
    BY <1>0, JsonFacts, JsStdinFacts
  <2>2. Cat(jsStdin(<<>>), u) = u /\ Cat(json(<<>>), L(u)) = L(u)
    BY <1>1, <2>1, CatEmpty
  <2> QED  BY <1>0, <2>2
<1>5. ASSUME NEW v \in Text, NEW x \in Symbols, v \in S
      PROVE  Cons(x, v) \in S
  <2>0. Cons(x, v) \in Text
    BY HeadFacts
  <2> SUFFICES ASSUME ~Occurs(c, Cons(x, v))
               PROVE  L(Cat(jsStdin(Cons(x, v)), u)) = Cat(json(Cons(x, v)), L(u))
    BY <2>0
  <2>1. ~Occurs(c, v) /\ x # Single
    <3>1. ~Occurs(c, v) /\ ~At(Cons(x, v), 1, c)
      BY <1>0, OccursTail
    <3>2. Cons(x, v)[1] = x /\ Len(Cons(x, v)) = Len(v) + 1 /\ Len(v) \in Nat
      BY HeadFacts, TextFacts
    <3> DEFINE xv == Cons(x, v)
    <3> HIDE DEF xv
    <3>3. xv[1] = x /\ Len(xv) = Len(v) + 1 /\ Len(v) \in Nat /\ ~At(xv, 1, c)
      BY <3>1, <3>2 DEF xv
    <3> QED  BY <1>0, <3>1, <3>3 DEF At
  <2> DEFINE w == jsStdin(v)
             j == json(v)
             wu == Cat(w, u)
             ju == Cat(j, L(u))
  <2>2. w \in Text /\ j \in Text /\ wu \in Text /\ ju \in Text /\ L(u) \in Text
    BY <1>1, JsonFacts, JsStdinFacts, CatFacts
  <2>3. L(wu) = ju
    BY <1>5, <2>1
  <2>4. /\ x = Slash => /\ json(Cons(x, v)) = Cons(Slash, Cons(Slash, j))
                        /\ jsStdin(Cons(x, v))
                             = Cons(Slash, Cons(Slash, Cons(Slash, Cons(Slash, w))))
        /\ x = Double => /\ json(Cons(x, v)) = Cons(Slash, Cons(Double, j))
                         /\ jsStdin(Cons(x, v)) = Cons(Slash, Cons(Slash, Cons(Double, w)))
        /\ x = Line => /\ json(Cons(x, v)) = Cons(Slash, Cons(Letter, j))
                       /\ jsStdin(Cons(x, v)) = Cons(Slash, Cons(Slash, Cons(Letter, w)))
        /\ x \notin {Slash, Double, Line} => /\ json(Cons(x, v)) = Cons(x, j)
                                             /\ jsStdin(Cons(x, v)) = Cons(x, w)
    BY JsonFacts, JsStdinFacts
  <2> HIDE DEF w, j
  <2>5. \A y \in Symbols, s \in Text, z \in Text :
          Cons(y, s) \in Text /\ Cat(Cons(y, s), z) = Cons(y, Cat(s, z)) /\ Cat(s, z) \in Text
    BY ConsCat, HeadFacts, CatFacts
  <2> HIDE DEF L, S
  <2>6. CASE x = Slash
    <3>1. Cat(json(Cons(x, v)), L(u)) = Cons(Slash, Cons(Slash, ju))
      BY <1>0, <2>2, <2>4, <2>5, <2>6
    <3>2. Cat(jsStdin(Cons(x, v)), u) = Cons(Slash, Cons(Slash, Cons(Slash, Cons(Slash, wu))))
      BY <1>0, <2>2, <2>4, <2>5, <2>6
    <3> HIDE DEF wu, ju
    <3>3. Cons(Slash, Cons(Slash, wu)) \in Text
      BY <1>0, <2>2, <2>5
    <3> QED  BY <1>2, <2>2, <2>3, <3>1, <3>2, <3>3
  <2>7. CASE x = Double
    <3>1. Cat(json(Cons(x, v)), L(u)) = Cons(Slash, Cons(Double, ju))
      BY <1>0, <2>2, <2>4, <2>5, <2>7
    <3>2. Cat(jsStdin(Cons(x, v)), u) = Cons(Slash, Cons(Slash, Cons(Double, wu)))
      BY <1>0, <2>2, <2>4, <2>5, <2>7
    <3> HIDE DEF wu, ju
    <3>3. Cons(Double, wu) \in Text
      BY <1>0, <2>2, <2>5
    <3> QED  BY <1>0, <1>2, <1>3, <2>2, <2>3, <3>1, <3>2, <3>3
  <2>8. CASE x = Line
    <3>1. Cat(json(Cons(x, v)), L(u)) = Cons(Slash, Cons(Letter, ju))
      BY <1>0, <2>2, <2>4, <2>5, <2>8
    <3>2. Cat(jsStdin(Cons(x, v)), u) = Cons(Slash, Cons(Slash, Cons(Letter, wu)))
      BY <1>0, <2>2, <2>4, <2>5, <2>8
    <3> HIDE DEF wu, ju
    <3>3. Cons(Letter, wu) \in Text
      BY <1>0, <2>2, <2>5
    <3> QED  BY <1>0, <1>2, <1>3, <2>2, <2>3, <3>1, <3>2, <3>3
  <2>9. CASE x \notin {Slash, Double, Line}
    <3>1. Cat(json(Cons(x, v)), L(u)) = Cons(x, ju)
      BY <2>2, <2>4, <2>5, <2>9
    <3>2. Cat(jsStdin(Cons(x, v)), u) = Cons(x, wu)
      BY <2>2, <2>4, <2>5, <2>9
    <3> HIDE DEF wu, ju
    <3> QED  BY <1>3, <2>1, <2>2, <2>3, <2>9, <3>1, <3>2
  <2> QED  BY <2>6, <2>7, <2>8, <2>9
<1>6. Text \subseteq S
  <2> HIDE DEF S
  <2> QED  BY <1>4, <1>5, TextInduction
<1> QED  BY <1>6 DEF L, c
\* C++: a raw string.
Paren == ")"
RawClosing == <<")">> \o Delimiter \o <<"\"">>

LEMMA RawFacts ==
  /\ Delimiter \in Text /\ Delimiter # <<>> /\ Len(Delimiter) = 2 /\ DOMAIN Delimiter = 1..2
  /\ Paren \in Symbols /\ Delimiter[1] # Paren /\ Delimiter[2] # Paren
  /\ RawClosing \in Text /\ RawClosing # <<>> /\ Len(RawClosing) = 4
  /\ DOMAIN RawClosing = 1..4 /\ RawClosing[1] = Paren
  /\ RawClosing[2] = Delimiter[1] /\ RawClosing[3] = Delimiter[2]
  /\ \A i \in 1..4 : RawClosing[i] # "CR"
<1>1. {"____d_e", "_l_i_m"} \subseteq Symbols /\ Paren \in Symbols
  BY Zenon, CodeSymbolFacts DEF CodeSymbols, Paren
<1>2. /\ Delimiter \in Text /\ Delimiter # <<>> /\ Len(Delimiter) = 2
      /\ DOMAIN Delimiter = 1..2 /\ Delimiter[1] = "____d_e" /\ Delimiter[2] = "_l_i_m"
  BY <1>1 DEF Delimiter, Text
<1>3. /\ Delimiter[1] # Paren /\ Delimiter[2] # Paren
      /\ "CR" \notin {Paren, Delimiter[1], Delimiter[2], Double}
  BY <1>2 DEF Paren, Double
<1> DEFINE p == <<Paren>>
           q == <<Double>>
<1>4. RawClosing = Cat(Cat(p, Delimiter), q)
  BY Zenon DEF RawClosing, Paren, Double, Cat
<1>5. p \in Text /\ Len(p) = 1 /\ p[1] = Paren /\ q \in Text /\ Len(q) = 1 /\ q[1] = Double
  BY <1>1, NameFacts, SymbolFacts
<1> HIDE DEF p, q
<1> DEFINE pd == Cat(p, Delimiter)
<1>6. /\ pd \in Text /\ Len(pd) = 3 /\ pd[1] = Paren
      /\ pd[2] = Delimiter[1] /\ pd[3] = Delimiter[2]
  <2>1. /\ pd \in Text /\ Len(pd) = Len(p) + Len(Delimiter)
        /\ \A i \in 1..Len(p) : pd[i] = p[i]
        /\ \A i \in 1..Len(Delimiter) : pd[Len(p) + i] = Delimiter[i]
    BY <1>2, <1>5, CatFacts
  <2> HIDE DEF pd
  <2> QED  BY <1>2, <1>5, <2>1
<1> HIDE DEF pd
<1>7. /\ Cat(pd, q) \in Text /\ Len(Cat(pd, q)) = 4
      /\ \A i \in 1..3 : Cat(pd, q)[i] = pd[i]
      /\ Cat(pd, q)[4] = Double
  <2>1. /\ Cat(pd, q) \in Text /\ Len(Cat(pd, q)) = Len(pd) + Len(q)
        /\ \A i \in 1..Len(pd) : Cat(pd, q)[i] = pd[i]
        /\ \A i \in 1..Len(q) : Cat(pd, q)[Len(pd) + i] = q[i]
    BY <1>5, <1>6, CatFacts
  <2> QED  BY <1>5, <1>6, <2>1
<1>8. RawClosing = Cat(pd, q)
  BY <1>4 DEF pd
<1>9. /\ RawClosing \in Text /\ Len(RawClosing) = 4 /\ RawClosing[4] = Double
      /\ \A i \in 1..3 : RawClosing[i] = pd[i]
  BY <1>7, <1>8
<1>10. RawClosing # <<>> /\ DOMAIN RawClosing = 1..4
  BY <1>9, TextFacts
<1>11. \A i \in 1..4 : RawClosing[i] # "CR"
  BY <1>3, <1>6, <1>9
<1> QED  BY <1>1, <1>2, <1>3, <1>6, <1>9, <1>10, <1>11

LEMMA RawClose ==
  ASSUME NEW v \in Text
  PROVE  Literal(Cat(RawClosing, v), Raw, RawClosing) = <<>>
<1> DEFINE u == Cat(RawClosing, v)
<1>1. u \in Text /\ u # <<>> /\ At(u, 1, RawClosing)
  BY RawFacts, AtCat, CatFacts, TextFacts
<1> HIDE DEF u
<1>2. ~EscapeAt(u, 1, Raw)
  BY EscapesFacts DEF EscapeAt
<1>3. Literal(u, Raw, RawClosing) = <<>>
  BY <1>1, <1>2, RawFacts, EscapesFacts, LiteralClose
<1> QED  BY <1>3 DEF u

LEMMA RawReads ==
  ASSUME NEW t \in Text, ~Occurs(Delimiter, t), NEW v \in Text
  PROVE  Literal(Cat(t, Cat(RawClosing, v)), Raw, RawClosing) = t
<1> DEFINE C == RawClosing
           u == Cat(C, v)
           L(w) == Literal(w, Raw, C)
           S == {w \in Text : ~Occurs(Delimiter, w) => L(Cat(w, u)) = w}
<1>0. u \in Text /\ <<>> \in Text /\ L(u) = <<>>
  BY RawFacts, RawClose, CatFacts, EmptySeq DEF Text
<1> DEFINE p == <<Paren>>
           r == Cat(From(C, 2), v)
<1>1. p \in Text /\ r \in Text /\ u = Cat(p, r)
  <2>1. From(C, 2) \in Text /\ C = Cons(Paren, From(C, 2)) /\ p \in Text
    BY RawFacts, HeadAndRest, SymbolFacts
  <2>2. C = Cat(p, From(C, 2))
    BY <2>1 DEF Cons
  <2> HIDE DEF C, p
  <2> QED  BY <2>1, <2>2, CatFacts, CatAssoc
<1>2. <<>> \in S
  <2>1. Cat(<<>>, u) = u
    BY <1>0, CatEmpty
  <2> QED  BY <1>0, <2>1
<1> HIDE DEF u, r
<1>3. ASSUME NEW w \in Text, NEW x \in Symbols, w \in S
      PROVE  Cons(x, w) \in S
  <2>1. Cons(x, w) \in Text
    BY HeadFacts
  <2> SUFFICES ASSUME ~Occurs(Delimiter, Cons(x, w))
               PROVE  L(Cat(Cons(x, w), u)) = Cons(x, w)
    BY <2>1
  <2>2. ~Occurs(Delimiter, w)
    BY RawFacts, OccursTail
  <2> DEFINE wu == Cat(w, u)
             wp == Cat(w, p)
             xs == Cons(x, wu)
  <2>3. L(wu) = w
    BY <1>3, <2>2
  <2>4. wu \in Text /\ wp \in Text /\ Cat(Cons(x, w), u) = xs /\ wu = Cat(wp, r)
    BY <1>0, <1>1, CatFacts, ConsCat, CatAssoc
  <2>5. ~At(wu, 1, Delimiter)
    <3>1. Clear(Delimiter, wp)
      BY <2>2, RawFacts, ClearBefore
    <3>2. 1 \in 1..Len(wp)
      <4>1. Len(wp) = Len(w) + Len(p) /\ Len(p) = 1 /\ Len(w) \in Nat
        BY <1>1, RawFacts, SymbolFacts, CatFacts, TextFacts
      <4> HIDE DEF wp
      <4> QED  BY <4>1
    <3> HIDE DEF wp, wu
    <3>3. ~At(Cat(wp, r), 1, Delimiter)
      BY <1>1, <2>4, <3>1, <3>2, RawFacts, ClearPlaces
    <3> QED  BY <2>4, <3>3
  <2> HIDE DEF wu, wp
  <2>6. ~At(xs, 1, C)
    <3>1. Len(xs) = Len(wu) + 1 /\ Len(wu) \in Nat /\ \A i \in 1..Len(wu) : xs[i + 1] = wu[i]
      BY <2>4, HeadFacts, TextFacts
    <3> HIDE DEF xs
    <3>2. ASSUME At(xs, 1, C)
          PROVE  At(wu, 1, Delimiter)
      <4>1. 4 <= Len(xs) /\ xs[1 + 2 - 1] = C[2] /\ xs[1 + 3 - 1] = C[3]
        BY <3>1, <3>2, RawFacts DEF At
      <4>2. Len(wu) >= 3 /\ wu[1] = Delimiter[1] /\ wu[2] = Delimiter[2]
        BY <3>1, <4>1, RawFacts
      <4> QED  BY <3>1, <4>2, RawFacts DEF At
    <3> QED  BY <2>5, <3>2
  <2>7. ~EscapeAt(xs, 1, Raw)
    BY EscapesFacts DEF EscapeAt
  <2>8. L(xs) = Cons(x, L(wu))
    BY <2>4, <2>6, <2>7, RawFacts, EscapesFacts, LiteralCopy
  <2> QED  BY <2>3, <2>4, <2>8
<1>4. Text \subseteq S
  <2> HIDE DEF S
  <2> QED  BY <1>2, <1>3, TextInduction
<1> QED  BY <1>4 DEF u

\* What is read from a raw string is no longer than the text in it,
LEMMA RawLength ==
  ASSUME NEW t \in Text, NEW v \in Text
  PROVE  Len(Literal(Cat(t, Cat(RawClosing, v)), Raw, RawClosing)) <= Len(t)
<1> DEFINE C == RawClosing
           u == Cat(C, v)
           L(w) == Literal(w, Raw, C)
           S == {w \in Text : Len(L(Cat(w, u))) <= Len(w)}
<1>0. u \in Text /\ <<>> \in Text /\ L(u) = <<>> /\ Len(<<>>) = 0
  BY RawFacts, RawClose, CatFacts, EmptySeq DEF Text
<1>1. \A w \in Text : L(w) \in Text
  BY RawFacts, EscapesFacts, LiteralType
<1>2. <<>> \in S
  <2>1. Cat(<<>>, u) = u
    BY <1>0, CatEmpty
  <2> QED  BY <1>0, <2>1
<1> HIDE DEF u
<1>3. ASSUME NEW w \in Text, NEW x \in Symbols, w \in S
      PROVE  Cons(x, w) \in S
  <2> DEFINE wu == Cat(w, u)
             xs == Cons(x, wu)
  <2>1. /\ Cons(x, w) \in Text /\ Len(Cons(x, w)) = Len(w) + 1 /\ Len(w) \in Nat
        /\ wu \in Text /\ Cat(Cons(x, w), u) = xs /\ xs \in Text /\ xs # <<>>
    BY <1>0, HeadFacts, TextFacts, CatFacts, ConsCat
  <2>2. Len(L(wu)) <= Len(w)
    BY <1>3
  <2> HIDE DEF wu
  <2>3. ~EscapeAt(xs, 1, Raw)
    BY EscapesFacts DEF EscapeAt
  <2>4. CASE At(xs, 1, C)
    <3>1. L(xs) = <<>>
      BY <2>1, <2>3, <2>4, RawFacts, EscapesFacts, LiteralClose
    <3> QED  BY <1>0, <2>1, <3>1
  <2>5. CASE ~At(xs, 1, C)
    <3>1. L(xs) = Cons(x, L(wu))
      BY <2>1, <2>3, <2>5, RawFacts, EscapesFacts, LiteralCopy
    <3> HIDE DEF L
    <3>2. Len(L(xs)) = Len(L(wu)) + 1 /\ Len(L(wu)) \in Nat
      BY <1>1, <2>1, <3>1, HeadFacts, TextFacts
    <3> HIDE DEF xs
    <3> QED  BY <2>1, <2>2, <3>2
  <2> QED  BY <2>4, <2>5
<1>4. Text \subseteq S
  <2> HIDE DEF S
  <2> QED  BY <1>2, <1>3, TextInduction
<1> QED  BY <1>4 DEF u

\* and a text that the delimiter is removed from is shorter.
LEMMA RemovalLength ==
  ASSUME NEW t \in Text
  PROVE  /\ Len(strReplace(Delimiter, <<>>, t)) <= Len(t)
         /\ Occurs(Delimiter, t) => Len(strReplace(Delimiter, <<>>, t)) < Len(t)
<1> DEFINE D == Delimiter
           R(w) == strReplace(D, <<>>, w)
           Shorter(w) == Len(R(w)) <= Len(w) /\ (Occurs(D, w) => Len(R(w)) < Len(w))
           S == {w \in Text : Shorter(w)}
<1>0. <<>> \in Text /\ R(<<>>) = <<>> /\ Len(<<>>) = 0 /\ \A w \in Text : R(w) \in Text
  BY RawFacts, ReplaceType, ReplaceEmpty, EmptySeq DEF Text
<1>1. ASSUME NEW w \in Text, \A s \in Text : Len(s) < Len(w) => s \in S
      PROVE  w \in S
  <2>1. CASE w = <<>>
    <3>1. ~Occurs(D, <<>>)
      <4>1. DOMAIN <<>> = {}
        OBVIOUS
      <4> QED  BY <4>1 DEF Occurs, Places
    <3> QED  BY <1>0, <2>1, <3>1
  <2>2. CASE At(w, 1, D)
    <3>1. Len(w) >= 2 /\ Len(w) \in Nat /\ w[1] = D[1] /\ w[2] = D[2]
      <4>1. 1 + Len(D) - 1 <= Len(w) /\ w[1 + 1 - 1] = D[1] /\ w[1 + 2 - 1] = D[2]
        BY <2>2, RawFacts DEF At
      <4> QED  BY <4>1, RawFacts, TextFacts
    <3> DEFINE s == From(w, 3)
    <3>2. s \in Text /\ Len(s) = Len(w) - 2 /\ \A i \in 1..Len(s) : s[i] = w[i + 2]
      <4> DEFINE k == 3
      <4>1. k \in 1..(Len(w) + 1)
        BY <3>1
      <4> HIDE DEF k
      <4>2. /\ From(w, k) \in Text /\ Len(From(w, k)) = Len(w) - k + 1
            /\ \A i \in 1..(Len(w) - k + 1) : From(w, k)[i] = w[k + i - 1]
        BY <4>1, FromFacts
      <4> QED  BY <3>1, <4>2 DEF k
    <3> HIDE DEF s
    <3>3. w = Cat(D, s)
      <4> DEFINE u == Cat(D, s)
      <4>1. /\ u \in Text /\ Len(u) = Len(D) + Len(s) /\ \A i \in 1..Len(D) : u[i] = D[i]
            /\ \A i \in (Len(D) + 1)..(Len(D) + Len(s)) : u[i] = s[i - Len(D)]
        BY <3>2, RawFacts, CatFacts
      <4> HIDE DEF u
      <4>2. \A i \in 1..Len(w) : w[i] = u[i]
        <5> SUFFICES ASSUME NEW i \in 1..Len(w) PROVE w[i] = u[i]
          OBVIOUS
        <5>1. CASE i \in {1, 2}
          BY <3>1, <4>1, <5>1, RawFacts
        <5>2. CASE i \notin {1, 2}
          <6>1. i - 2 \in 1..Len(s) /\ i \in (Len(D) + 1)..(Len(D) + Len(s))
            BY <3>1, <3>2, <5>2, RawFacts
          <6>2. u[i] = s[i - 2]
            BY <4>1, <6>1, RawFacts
          <6>3. s[i - 2] = w[(i - 2) + 2]
            BY <3>2, <6>1
          <6> QED  BY <6>2, <6>3
        <5> QED  BY <5>1, <5>2
      <4>3. Len(w) = Len(u)
        BY <3>1, <3>2, <4>1, RawFacts
      <4>4. w = u
        BY <4>1, <4>2, <4>3, TextEqual
      <4> QED  BY <4>4 DEF u
    <3>4. R(w) = R(s)
      <4>1. strReplace(D, <<>>, Cat(D, s)) = Cat(<<>>, strReplace(D, <<>>, s))
        BY <1>0, <3>2, RawFacts, ReplaceMatch
      <4> QED  BY <1>0, <3>2, <3>3, <4>1, CatEmpty
    <3>5. Len(R(s)) <= Len(s)
      BY <1>1, <3>1, <3>2
    <3>6. Len(R(s)) \in Nat
      BY <1>0, <3>2, TextFacts
    <3> HIDE DEF R
    <3> QED  BY <3>1, <3>2, <3>4, <3>5, <3>6
  <2>3. CASE w # <<>> /\ ~At(w, 1, D)
    <3> DEFINE x == w[1]
               s == From(w, 2)
    <3>1. /\ x \in Symbols /\ s \in Text /\ Len(s) = Len(w) - 1 /\ w = Cons(x, s)
          /\ Len(w) \in Nat
      BY <2>3, HeadAndRest, TextFacts
    <3> HIDE DEF x, s
    <3>2. R(w) = Cons(x, R(s))
      BY <1>0, <2>3, <3>1, RawFacts, ReplaceCopy
    <3>3. Occurs(D, w) <=> Occurs(D, s)
      BY <2>3, <3>1, RawFacts, OccursTail
    <3>4. Shorter(s)
      BY <1>1, <3>1
    <3>5. Len(R(w)) = Len(R(s)) + 1 /\ Len(R(s)) \in Nat
      <4>1. R(s) \in Text
        BY <1>0, <3>1
      <4> HIDE DEF R
      <4> QED  BY <3>1, <3>2, <4>1, HeadFacts, TextFacts
    <3> HIDE DEF R
    <3> QED  BY <3>1, <3>3, <3>4, <3>5
  <2> QED  BY <2>1, <2>2, <2>3
<1>2. Text \subseteq S
  <2> HIDE DEF S
  <2> QED  BY <1>1, StrongInduction
<1> QED  BY <1>2
(* The newlines of a raw string *)

Return == "CR"
Ending == <<"CR", "LF">>

LEMMA EndingFacts ==
  /\ Ending \in Text /\ Ending # <<>> /\ Len(Ending) = 2 /\ DOMAIN Ending = 1..2
  /\ Ending[1] = Return /\ Ending[2] = Line /\ Return \in Symbols /\ Line \in Symbols
  /\ Return # Line
  /\ \A t \in Text : Cat(Ending, t) = Cons(Return, Cons(Line, t)) /\ Cat(<<"LF">>, t) = Cons(Line, t)
<1>1. Return \in Symbols /\ Line \in Symbols
  BY Zenon, CodeSymbolFacts, NameFacts DEF CodeSymbols, Return
<1>2. Ending = <<Return, Line>> /\ Return # Line
  BY DEF Ending, Return, Line
<1>3. /\ Ending \in Text /\ Ending # <<>> /\ Len(Ending) = 2 /\ DOMAIN Ending = 1..2
      /\ Ending[1] = Return /\ Ending[2] = Line
  BY <1>1, <1>2 DEF Text
<1> DEFINE l == <<Line>>
<1>4. l \in Text /\ \A t : Cat(l, t) = Cons(Line, t)
  BY <1>1, SymbolFacts DEF Cons
<1>5. Ending = Cons(Return, l)
  BY <1>1, <1>2, Pair
<1>6. <<"LF">> = l
  BY Zenon DEF Line
<1> HIDE DEF l
<1>7. \A t \in Text : Cat(Ending, t) = Cons(Return, Cons(Line, t))
  BY <1>1, <1>4, <1>5, ConsCat
<1> QED  BY <1>1, <1>2, <1>3, <1>4, <1>6, <1>7

LEMMA AtEnding ==
  ASSUME NEW x \in Symbols, NEW t \in Text
  PROVE  At(Cons(x, t), 1, Ending) <=> x = Return /\ t # <<>> /\ t[1] = Line
<1> DEFINE u == Cons(x, t)
<1>1. /\ Len(u) = Len(t) + 1 /\ u[1] = x /\ Len(t) \in Nat /\ (t = <<>> <=> Len(t) = 0)
      /\ \A i \in 1..Len(t) : u[i + 1] = t[i]
  BY HeadFacts, TextFacts
<1> HIDE DEF u
<1>2. Len(t) >= 1 => u[2] = t[1]
  BY <1>1
<1>3. At(u, 1, Ending) <=> Len(u) >= 2 /\ u[1] = Return /\ u[2] = Line
  <2>1. At(u, 1, Ending) <=>
          1 + 2 - 1 <= Len(u) /\ \A k \in 1..2 : u[1 + k - 1] = Ending[k]
    BY EndingFacts DEF At
  <2> QED  BY <1>1, <2>1, EndingFacts
<1> QED  BY <1>1, <1>2, <1>3 DEF u

LEMMA RawNewlinesFacts ==
  ASSUME NEW t \in Text, NEW x \in Symbols
  PROVE  /\ RawNewlines(<<>>) = <<>> /\ RawNewlines(t) \in Text
         /\ ~At(Cons(x, t), 1, Ending) => RawNewlines(Cons(x, t)) = Cons(x, RawNewlines(t))
         /\ RawNewlines(Cons(Return, Cons(Line, t))) = Cons(Line, RawNewlines(t))
         /\ ~Occurs(Ending, t) => RawNewlines(t) = t
<1> DEFINE new == <<"LF">>
<1>1. \A u : RawNewlines(u) = strReplace(Ending, new, u)
  BY Zenon DEF RawNewlines, Ending
<1>2. new \in Text
  BY NameFacts, SymbolFacts DEF Line
<1>3. \A u \in Text : Cat(new, u) = Cons(Line, u)
  BY EndingFacts
<1> HIDE DEF new
<1>4. RawNewlines(t) \in Text /\ RawNewlines(<<>>) = <<>>
  BY <1>1, <1>2, EndingFacts, ReplaceType, ReplaceEmpty
<1>5. ~At(Cons(x, t), 1, Ending) => RawNewlines(Cons(x, t)) = Cons(x, RawNewlines(t))
  BY <1>1, <1>2, EndingFacts, ReplaceCopy
<1>6. strReplace(Ending, new, Cat(Ending, t)) = Cat(new, strReplace(Ending, new, t))
  BY <1>2, EndingFacts, ReplaceMatch
<1>7. RawNewlines(Cons(Return, Cons(Line, t))) = Cons(Line, RawNewlines(t))
  BY <1>1, <1>3, <1>4, <1>6, EndingFacts
<1>8. ~Occurs(Ending, t) => RawNewlines(t) = t
  BY <1>1, <1>2, EndingFacts, ReplaceNothing
<1> QED  BY <1>4, <1>5, <1>7, <1>8

\* What follows a text and does not begin with a newline does not change how it is read.
LEMMA RawNewlinesCat ==
  ASSUME NEW w \in Text, NEW u \in Text, u # <<>>, u[1] # Line
  PROVE  RawNewlines(Cat(w, u)) = Cat(RawNewlines(w), RawNewlines(u))
<1> DEFINE S == {t \in Text : RawNewlines(Cat(t, u)) = Cat(RawNewlines(t), RawNewlines(u))}
           n == RawNewlines(u)
<1>1. n \in Text /\ \A t \in Text : RawNewlines(t) \in Text /\ Cat(t, u) \in Text
  BY RawNewlinesFacts, NameFacts, CatFacts
<1>2. ASSUME NEW t \in Text, \A s \in Text : Len(s) < Len(t) => s \in S
      PROVE  t \in S
  <2>1. CASE t = <<>>
    <3>1. Cat(<<>>, u) = u /\ Cat(<<>>, n) = n /\ RawNewlines(<<>>) = <<>>
      BY <1>1, CatEmpty, RawNewlinesFacts, NameFacts
    <3> QED  BY <2>1, <3>1
  <2>2. CASE t # <<>>
    <3> DEFINE x == t[1]
               s == From(t, 2)
    <3>1. x \in Symbols /\ s \in Text /\ t = Cons(x, s) /\ Len(s) = Len(t) - 1 /\ Len(t) \in Nat
      BY <2>2, HeadAndRest, TextFacts
    <3> HIDE DEF x, s
    <3> DEFINE su == Cat(s, u)
    <3>2. su \in Text /\ Cat(t, u) = Cons(x, su)
      BY <1>1, <3>1, ConsCat
    <3>3. CASE ~At(t, 1, Ending)
      <4>1. ~At(Cons(x, su), 1, Ending)
        <5>1. x = Return => s = <<>> \/ s[1] # Line
          BY <3>1, <3>3, AtEnding
        <5>2. s = <<>> => su = u
          BY CatEmpty
        <5>3. s # <<>> => su[1] = s[1]
          BY <3>1, CatFacts, TextFacts
        <5> HIDE DEF su
        <5> QED  BY <3>1, <3>2, <5>1, <5>2, <5>3, AtEnding
      <4>2. RawNewlines(Cat(t, u)) = Cons(x, RawNewlines(su))
        <5> HIDE DEF su
        <5> QED  BY <3>1, <3>2, <4>1, RawNewlinesFacts
      <4>3. RawNewlines(su) = Cat(RawNewlines(s), n)
        BY <1>2, <3>1
      <4>4. RawNewlines(t) = Cons(x, RawNewlines(s))
        BY <3>1, <3>3, RawNewlinesFacts
      <4>5. Cat(Cons(x, RawNewlines(s)), n) = Cons(x, Cat(RawNewlines(s), n))
        BY <1>1, <3>1, ConsCat
      <4> QED  BY <4>2, <4>3, <4>4, <4>5
    <3>4. CASE At(t, 1, Ending)
      <4>1. x = Return /\ s # <<>> /\ s[1] = Line
        BY <3>1, <3>4, AtEnding
      <4> DEFINE q == From(s, 2)
                 qu == Cat(q, u)
      <4>2. q \in Text /\ s = Cons(Line, q) /\ Len(q) = Len(s) - 1
        BY <3>1, <4>1, HeadAndRest
      <4> HIDE DEF q
      <4>3. qu \in Text /\ su = Cons(Line, qu)
        BY <1>1, <4>2, EndingFacts, ConsCat
      <4> HIDE DEF su
      <4>4. RawNewlines(Cat(t, u)) = Cons(Line, RawNewlines(qu))
        <5> HIDE DEF qu
        <5> QED  BY <3>2, <4>1, <4>3, RawNewlinesFacts, NameFacts
      <4>5. RawNewlines(qu) = Cat(RawNewlines(q), n)
        BY <1>2, <3>1, <4>2
      <4>6. RawNewlines(t) = Cons(Line, RawNewlines(q))
        BY <3>1, <4>1, <4>2, RawNewlinesFacts, NameFacts
      <4>7. Cat(Cons(Line, RawNewlines(q)), n) = Cons(Line, Cat(RawNewlines(q), n))
        BY <1>1, <4>2, EndingFacts, ConsCat
      <4> QED  BY <4>4, <4>5, <4>6, <4>7
    <3> QED  BY <3>3, <3>4
  <2> QED  BY <2>1, <2>2
<1>3. Text \subseteq S
  <2> HIDE DEF S
  <2> QED  BY <1>2, StrongInduction
<1> QED  BY <1>3

\* Reading makes a text shorter where it reads CR LF.
LEMMA RawNewlinesLength ==
  ASSUME NEW w \in Text
  PROVE  /\ Len(RawNewlines(w)) <= Len(w)
         /\ Occurs(Ending, w) => Len(RawNewlines(w)) < Len(w)
<1> DEFINE Shorter(t) == /\ Len(RawNewlines(t)) <= Len(t)
                         /\ Occurs(Ending, t) => Len(RawNewlines(t)) < Len(t)
           S == {t \in Text : Shorter(t)}
<1>1. \A t \in Text : RawNewlines(t) \in Text /\ Len(RawNewlines(t)) \in Nat
  BY RawNewlinesFacts, NameFacts, TextFacts
<1>2. ASSUME NEW t \in Text, \A s \in Text : Len(s) < Len(t) => s \in S
      PROVE  t \in S
  <2>1. CASE t = <<>>
    <3>1. ~Occurs(Ending, <<>>)
      <4>1. DOMAIN <<>> = {}
        OBVIOUS
      <4> QED  BY <4>1 DEF Occurs, Places
    <3>2. RawNewlines(<<>>) = <<>> /\ Len(<<>>) = 0
      BY RawNewlinesFacts, NameFacts
    <3> QED  BY <2>1, <3>1, <3>2
  <2>2. CASE t # <<>>
    <3> DEFINE x == t[1]
               s == From(t, 2)
    <3>1. x \in Symbols /\ s \in Text /\ t = Cons(x, s) /\ Len(s) = Len(t) - 1 /\ Len(t) \in Nat
      BY <2>2, HeadAndRest, TextFacts
    <3> HIDE DEF x, s
    <3>3. CASE ~At(t, 1, Ending)
      <4>1. RawNewlines(t) = Cons(x, RawNewlines(s))
        BY <3>1, <3>3, RawNewlinesFacts
      <4>2. Occurs(Ending, t) <=> Occurs(Ending, s)
        BY <3>1, <3>3, EndingFacts, OccursTail
      <4>3. Shorter(s)
        BY <1>2, <3>1
      <4>4. Len(RawNewlines(t)) = Len(RawNewlines(s)) + 1
        BY <1>1, <3>1, <4>1, HeadFacts
      <4> QED  BY <1>1, <3>1, <4>2, <4>3, <4>4
    <3>4. CASE At(t, 1, Ending)
      <4>1. x = Return /\ s # <<>> /\ s[1] = Line
        BY <3>1, <3>4, AtEnding
      <4> DEFINE q == From(s, 2)
      <4>2. q \in Text /\ s = Cons(Line, q) /\ Len(q) = Len(s) - 1
        BY <3>1, <4>1, HeadAndRest
      <4> HIDE DEF q
      <4>3. RawNewlines(t) = Cons(Line, RawNewlines(q))
        BY <3>1, <4>1, <4>2, RawNewlinesFacts, NameFacts
      <4>4. Shorter(q)
        BY <1>2, <3>1, <4>2
      <4>5. Len(RawNewlines(t)) = Len(RawNewlines(q)) + 1
        <5> DEFINE n == RawNewlines(q)
        <5>1. n \in Text /\ RawNewlines(t) = Cons(Line, n) /\ Line \in Symbols
          BY <1>1, <4>2, <4>3, EndingFacts
        <5> HIDE DEF n
        <5> QED  BY <5>1, HeadFacts DEF n
      <4> QED  BY <1>1, <3>1, <4>2, <4>4, <4>5
    <3> QED  BY <3>3, <3>4
  <2> QED  BY <2>1, <2>2
<1>3. Text \subseteq S
  <2> HIDE DEF S
  <2> QED  BY <1>2, StrongInduction
<1> QED  BY <1>3

LEMMA RawNewlinesClosing ==
  ASSUME NEW b \in Text, NEW v \in Text
  PROVE  RawNewlines(Cat(b, Cat(RawClosing, v)))
           = Cat(RawNewlines(b), Cat(RawClosing, RawNewlines(v)))
<1> DEFINE C == RawClosing
           u == Cat(C, v)
           new == <<"LF">>
<1>1. /\ C \in Text /\ u \in Text /\ u # <<>> /\ u[1] = C[1] /\ C[1] = Paren
      /\ Len(C) = 4 /\ \A i \in 1..4 : C[i] # Return
  <2>1. /\ C \in Text /\ C[1] = Paren /\ Len(C) = 4 /\ \A i \in 1..4 : C[i] # Return
    BY RawFacts DEF Return
  <2> HIDE DEF C
  <2>2. /\ u \in Text /\ Len(u) = Len(C) + Len(v) /\ Len(v) \in Nat
        /\ \A i \in 1..Len(C) : u[i] = C[i]
    BY <2>1, CatFacts, TextFacts
  <2> HIDE DEF u
  <2>3. Len(u) # 0 /\ 1 \in 1..Len(C)
    BY <2>1, <2>2
  <2> QED  BY <2>1, <2>2, <2>3, TextFacts
<1>2. Paren # Line
  BY DEF Paren, Line
<1> HIDE DEF C
<1>3. RawNewlines(u) = Cat(C, RawNewlines(v))
  <2>1. \A t : RawNewlines(t) = strReplace(Ending, new, t)
    BY Zenon DEF RawNewlines, Ending
  <2>2. new \in Text
    BY NameFacts, SymbolFacts DEF Line
  <2>3. Clear(Ending, C)
    BY <1>1, EndingFacts, ClearFirst
  <2> HIDE DEF new
  <2> QED  BY <1>1, <2>1, <2>2, <2>3, EndingFacts, ReplaceClear
<1> HIDE DEF u
<1>4. RawNewlines(Cat(b, u)) = Cat(RawNewlines(b), RawNewlines(u))
  BY <1>1, <1>2, RawNewlinesCat
<1> QED  BY <1>3, <1>4 DEF u, C

-----------------------------------------------------------------------------
(* Literals of Python *)

\* Python: a string in three quotes, which a text with quotes at its end may close early.
Quotes == <<"'", "'", "'">>

LEMMA QuotesFacts ==
  /\ Quotes \in Text /\ Quotes # <<>> /\ Len(Quotes) = 3 /\ DOMAIN Quotes = 1..3
  /\ \A k \in 1..3 : Quotes[k] = Single
  /\ \A t \in Text :
       /\ Cat(Quotes, t) = Cons(Single, Cons(Single, Cons(Single, t)))
       /\ Cat(<<"\\", "'", "\\", "'", "\\", "'">>, t) =
            Cons(Slash, Cons(Single, Cons(Slash, Cons(Single, Cons(Slash, Cons(Single, t))))))
<1>1. Single \in Symbols /\ Slash \in Symbols
  BY NameFacts
<1>2. Quotes = <<Single, Single, Single>>
  BY DEF Quotes, Single
<1>3. /\ Quotes \in Text /\ Quotes # <<>> /\ Len(Quotes) = 3 /\ DOMAIN Quotes = 1..3
      /\ \A k \in 1..3 : Quotes[k] = Single
  BY <1>1, <1>2 DEF Text
<1> DEFINE q == <<Single>>
           p == <<Slash>>
           a == <<Single, Single>>
           e == <<Slash, Single>>
<1>4. q \in Text /\ p \in Text /\ a \in Text /\ e \in Text
  BY <1>1 DEF Text
<1>5. Quotes = Cat(q, Cat(q, q))
  <2>1. <<Single, Single, Single>> = <<Single>> \o (<<Single>> \o <<Single>>)
    OBVIOUS
  <2> QED  BY <1>2, <2>1, Zenon DEF Cat
<1>6. <<"\\", "'", "\\", "'", "\\", "'">> = Cat(p, Cat(q, Cat(p, Cat(q, Cat(p, q)))))
  <2>1. <<Slash, Single, Slash, Single, Slash, Single>>
          = <<Slash>> \o (<<Single>> \o (<<Slash>> \o (<<Single>> \o (<<Slash>> \o <<Single>>))))
    OBVIOUS
  <2> QED  BY <2>1, Zenon DEF Cat, Slash, Single
<1>7. \A t : Cat(q, t) = Cons(Single, t) /\ Cat(p, t) = Cons(Slash, t)
  BY DEF Cons
<1>8. /\ Quotes = Cons(Single, Cons(Single, q))
      /\ <<"\\", "'", "\\", "'", "\\", "'">>
           = Cons(Slash, Cons(Single, Cons(Slash, Cons(Single, Cons(Slash, q)))))
  <2> HIDE DEF q, p
  <2>1. Quotes = Cons(Single, Cons(Single, q))
    BY <1>5, <1>7
  <2>2. <<"\\", "'", "\\", "'", "\\", "'">>
          = Cons(Slash, Cons(Single, Cons(Slash, Cons(Single, Cons(Slash, q)))))
    <3> DEFINE e1 == Cat(p, q)
               e2 == Cat(q, e1)
               e3 == Cat(p, e2)
               e4 == Cat(q, e3)
               e5 == Cat(p, e4)
    <3>1. e1 = Cons(Slash, q) /\ e2 = Cons(Single, e1) /\ e3 = Cons(Slash, e2)
      BY <1>7, Zenon
    <3>2. e4 = Cons(Single, e3) /\ e5 = Cons(Slash, e4)
      BY <1>7, Zenon
    <3>3. <<"\\", "'", "\\", "'", "\\", "'">> = e5
      BY <1>6, Zenon
    <3> HIDE DEF e1, e2, e3, e4, e5
    <3> QED  BY <3>1, <3>2, <3>3, Zenon
  <2> QED  BY <2>1, <2>2, Zenon
<1> HIDE DEF q, p
<1>9. \A y \in Symbols, s \in Text, z \in Text :
        Cons(y, s) \in Text /\ Cat(Cons(y, s), z) = Cons(y, Cat(s, z)) /\ Cat(s, z) \in Text
  BY ConsCat, HeadFacts, CatFacts
<1>10. ASSUME NEW t \in Text
       PROVE  /\ Cat(Cons(Single, Cons(Single, q)), t) = Cons(Single, Cons(Single, Cons(Single, t)))
              /\ Cat(Cons(Slash, Cons(Single, Cons(Slash, Cons(Single, Cons(Slash, q))))), t) =
                   Cons(Slash, Cons(Single, Cons(Slash, Cons(Single, Cons(Slash, Cons(Single, t))))))
  BY <1>1, <1>4, <1>7, <1>9
<1> QED  BY <1>3, <1>8, <1>10

EndsWith(t, n) ==
  /\ \A i \in 1..n : t[Len(t) + 1 - i] = "'"
  /\ n < Len(t) => t[Len(t) - n] # "'"

LEMMA EndQuotesIs ==
  ASSUME NEW t \in Text
  PROVE  /\ EndQuotes(t) \in 0..Len(t) /\ EndsWith(t, EndQuotes(t))
         /\ \A n \in 0..Len(t) : EndsWith(t, n) => EndQuotes(t) = n
<1> DEFINE T == {n \in Nat : n < Len(t) => t[Len(t) - n] # "'"}
<1>1. Len(t) \in Nat /\ Len(t) \in T
  BY TextFacts
<1>2. PICK n \in T : \A k \in T : n <= k
  <2>1. T \subseteq Nat /\ T # {}
    BY <1>1
  <2> HIDE DEF T
  <2> QED  BY <2>1, Least
<1>3. n \in 0..Len(t)
  BY <1>1, <1>2
<1>4. EndsWith(t, n)
  <2>1. ASSUME NEW i \in 1..n
        PROVE  t[Len(t) + 1 - i] = "'"
    <3>1. i - 1 \in Nat /\ i - 1 \notin T
      BY <1>2, <1>3, <2>1
    <3>2. t[Len(t) - (i - 1)] = "'"
      BY <3>1
    <3>3. Len(t) - (i - 1) = Len(t) + 1 - i
      BY <1>1, <1>3
    <3> QED  BY <3>2, <3>3
  <2> QED  BY <1>2, <2>1 DEF EndsWith
<1>5. ASSUME NEW a \in 0..Len(t), NEW b \in 0..Len(t), EndsWith(t, a), EndsWith(t, b), a < b
      PROVE  FALSE
  <2>1. a + 1 \in 1..b /\ Len(t) + 1 - (a + 1) = Len(t) - a
    BY <1>1, <1>5
  <2> QED  BY <1>1, <1>5, <2>1 DEF EndsWith
<1>6. EndQuotes(t) = CHOOSE m \in 0..Len(t) : EndsWith(t, m)
  BY Zenon DEF EndQuotes, EndsWith
<1>7. EndQuotes(t) \in 0..Len(t) /\ EndsWith(t, EndQuotes(t))
  BY <1>3, <1>4, <1>6
<1> QED  BY <1>1, <1>5, <1>7

LEMMA EndQuotesFacts ==
  ASSUME NEW t \in Text, NEW x \in Symbols
  PROVE  /\ EndQuotes(<<>>) = 0 /\ EndQuotes(t) \in 0..Len(t)
         /\ x = Single /\ EndQuotes(t) = Len(t)
              => EndQuotes(Cons(x, t)) = Len(t) + 1
         /\ x # Single \/ EndQuotes(t) < Len(t) => EndQuotes(Cons(x, t)) = EndQuotes(t)
<1> DEFINE u == Cons(x, t)
           n == EndQuotes(t)
<1>1. /\ u \in Text /\ Len(u) = Len(t) + 1 /\ u[1] = x /\ Len(t) \in Nat
      /\ \A i \in 1..Len(t) : u[i + 1] = t[i]
  BY HeadFacts, TextFacts
<1>2. n \in 0..Len(t) /\ EndsWith(t, n)
  BY EndQuotesIs
<1>3. EndQuotes(<<>>) = 0
  <2>1. <<>> \in Text /\ Len(<<>>) = 0
    BY EmptySeq DEF Text
  <2> QED  BY <2>1, EndQuotesIs
<1>4. \A m \in 0..Len(u) : EndsWith(u, m) => EndQuotes(u) = m
  BY <1>1, EndQuotesIs
<1> HIDE DEF u, n
<1>5. \A i \in 1..n : u[Len(u) + 1 - i] = "'"
  <2> SUFFICES ASSUME NEW i \in 1..n PROVE u[Len(u) + 1 - i] = "'"
    OBVIOUS
  <2>1. t[Len(t) + 1 - i] = "'"
    BY <1>2 DEF EndsWith
  <2>0. Len(t) + 1 - i \in 1..Len(t)
    BY <1>1, <1>2
  <2>2. PICK j \in 1..Len(t) : j = Len(t) + 1 - i
    BY <2>0
  <2>3. Len(u) + 1 - i = j + 1 /\ u[j + 1] = t[j]
    BY <1>1, <1>2, <2>2
  <2> QED  BY <2>1, <2>2, <2>3
<1>6. ASSUME x = Single, n = Len(t)
      PROVE  EndQuotes(u) = Len(t) + 1
  <2>1. \A i \in 1..(n + 1) : u[Len(u) + 1 - i] = "'"
    <3> SUFFICES ASSUME NEW i \in 1..(n + 1) PROVE u[Len(u) + 1 - i] = "'"
      OBVIOUS
    <3>1. CASE i = n + 1
      <4>1. Len(u) + 1 - i = 1
        BY <1>1, <1>6, <3>1
      <4> QED  BY <1>1, <1>6, <4>1 DEF Single
    <3>2. CASE i # n + 1
      <4>1. i \in 1..n
        BY <1>2, <3>2
      <4> QED  BY <1>5, <4>1
    <3> QED  BY <3>1, <3>2
  <2>2. n + 1 \in 0..Len(u) /\ ~(n + 1 < Len(u))
    BY <1>1, <1>6
  <2>3. EndsWith(u, n + 1)
    BY <2>1, <2>2 DEF EndsWith
  <2> QED  BY <1>4, <1>6, <2>2, <2>3
<1>7. ASSUME x # Single \/ n < Len(t)
      PROVE  EndQuotes(u) = n
  <2>1. n \in 0..Len(u)
    BY <1>1, <1>2
  <2>2. u[Len(u) - n] # "'"
    <3>1. CASE n < Len(t)
      <4>0. Len(t) - n \in 1..Len(t)
        BY <1>1, <1>2, <3>1
      <4>1. PICK j \in 1..Len(t) : j = Len(t) - n
        BY <4>0
      <4>2. Len(u) - n = j + 1 /\ u[j + 1] = t[j]
        BY <1>1, <1>2, <4>1
      <4>3. t[Len(t) - n] # "'"
        BY <1>2, <3>1 DEF EndsWith
      <4> QED  BY <4>1, <4>2, <4>3
    <3>2. CASE ~(n < Len(t))
      <4>1. Len(u) - n = 1 /\ x # Single
        BY <1>1, <1>2, <1>7, <3>2
      <4> QED  BY <1>1, <4>1 DEF Single
    <3> QED  BY <3>1, <3>2
  <2>3. EndsWith(u, n)
    BY <1>5, <2>2 DEF EndsWith
  <2> QED  BY <1>4, <2>1, <2>3
<1> QED  BY <1>2, <1>3, <1>6, <1>7 DEF u, n

\* The first three symbols of a text.
LEMMA ThreeFacts ==
  ASSUME NEW s \in Text, NEW a \in Symbols
  PROVE  /\ Cons(a, s) \in Text /\ Len(Cons(a, s)) = Len(s) + 1 /\ Cons(a, s)[1] = a
         /\ Len(s) >= 1 => Cons(a, s)[2] = s[1]
         /\ Len(s) >= 2 => Cons(a, s)[3] = s[2]
         /\ Len(s) \in Nat
<1> DEFINE u == Cons(a, s)
<1>1. /\ u \in Text /\ Len(u) = Len(s) + 1 /\ u[1] = a /\ Len(s) \in Nat
      /\ \A i \in 1..Len(s) : u[i + 1] = s[i]
  BY HeadFacts, TextFacts
<1> HIDE DEF u
<1>2. Len(s) >= 1 => u[1 + 1] = s[1]
  BY <1>1
<1>3. Len(s) >= 2 => u[2 + 1] = s[2]
  BY <1>1
<1> QED  BY <1>1, <1>2, <1>3 DEF u

LEMMA AtQuotesIs ==
  ASSUME NEW s \in Text
  PROVE  At(s, 1, Quotes) <=> Len(s) >= 3 /\ s[1] = Single /\ s[2] = Single /\ s[3] = Single
<1>1. Len(s) \in Nat
  BY TextFacts
<1>2. ASSUME At(s, 1, Quotes)
      PROVE  Len(s) >= 3 /\ s[1] = Single /\ s[2] = Single /\ s[3] = Single
  <2>1. 1 + 3 - 1 <= Len(s) /\ s[1 + 1 - 1] = Single /\ s[1 + 2 - 1] = Single
        /\ s[1 + 3 - 1] = Single
    BY <1>2, QuotesFacts DEF At
  <2> QED  BY <1>1, <2>1
<1>3. ASSUME Len(s) >= 3, s[1] = Single, s[2] = Single, s[3] = Single
      PROVE  At(s, 1, Quotes)
  <2>1. \A k \in 1..3 : 1 + k - 1 = k /\ s[k] = Single
    BY <1>3
  <2> QED  BY <1>1, <1>3, <2>1, QuotesFacts DEF At
<1> QED  BY <1>2, <1>3

LEMMA AtQuotes ==
  ASSUME NEW x \in Symbols, NEW t \in Text
  PROVE  /\ x # Single => ~At(Cons(x, t), 1, Quotes)
         /\ t = <<>> => ~At(Cons(x, t), 1, Quotes)
         /\ t # <<>> /\ t[1] # Single => ~At(Cons(x, t), 1, Quotes)
<1> DEFINE u == Cons(x, t)
<1>1. /\ u \in Text /\ Len(u) = Len(t) + 1 /\ u[1] = x
      /\ Len(t) >= 1 => u[2] = t[1]
      /\ Len(t) \in Nat /\ (t = <<>> <=> Len(t) = 0)
  BY ThreeFacts, TextFacts
<1> HIDE DEF u
<1>2. At(u, 1, Quotes) <=> Len(u) >= 3 /\ u[1] = Single /\ u[2] = Single /\ u[3] = Single
  BY <1>1, AtQuotesIs
<1> QED  BY <1>1, <1>2 DEF u

LEMMA AtQuotesTwo ==
  ASSUME NEW x \in Symbols, NEW y \in Symbols, NEW t \in Text
  PROVE  At(Cons(x, Cons(y, t)), 1, Quotes)
           <=> x = Single /\ y = Single /\ t # <<>> /\ t[1] = Single
<1> DEFINE b == Cons(y, t)
           a == Cons(x, b)
<1>1. /\ b \in Text /\ Len(b) = Len(t) + 1 /\ b[1] = y /\ Len(t) \in Nat
      /\ Len(t) >= 1 => b[2] = t[1]
      /\ (t = <<>> <=> Len(t) = 0)
  BY ThreeFacts, TextFacts
<1> HIDE DEF b
<1>2. /\ a \in Text /\ Len(a) = Len(b) + 1 /\ a[1] = x
      /\ Len(b) >= 1 => a[2] = b[1]
      /\ Len(b) >= 2 => a[3] = b[2]
  BY <1>1, ThreeFacts
<1> HIDE DEF a
<1>3. At(a, 1, Quotes) <=> Len(a) >= 3 /\ a[1] = Single /\ a[2] = Single /\ a[3] = Single
  BY <1>2, AtQuotesIs
<1> QED  BY <1>1, <1>2, <1>3 DEF a, b
LEMMA PyStdinFacts ==
  ASSUME NEW t \in Text, NEW x \in Symbols
  PROVE  /\ pyStdin(<<>>) = <<>> /\ pyStdin(t) \in Text
         /\ ~At(Cons(x, t), 1, Quotes) => pyStdin(Cons(x, t)) = Cons(x, pyStdin(t))
         /\ pyStdin(Cons(Single, Cons(Single, Cons(Single, t))))
              = Cons(Slash, Cons(Single, Cons(Slash, Cons(Single, Cons(Slash,
                  Cons(Single, pyStdin(t)))))))
<1> DEFINE new == <<"\\", "'", "\\", "'", "\\", "'">>
<1>1. \A u : pyStdin(u) = strReplace(Quotes, new, u)
  BY Zenon DEF pyStdin, Quotes
<1>2. new \in Text
  BY NameFacts DEF Single, Slash, Text
<1>3. \A u \in Text :
        Cat(new, u) = Cons(Slash, Cons(Single, Cons(Slash, Cons(Single, Cons(Slash, Cons(Single, u))))))
  BY QuotesFacts, Zenon
<1> HIDE DEF new
<1>4. pyStdin(t) \in Text /\ pyStdin(<<>>) = <<>>
  BY <1>1, <1>2, QuotesFacts, ReplaceType, ReplaceEmpty
<1>5. ~At(Cons(x, t), 1, Quotes) => pyStdin(Cons(x, t)) = Cons(x, pyStdin(t))
  BY <1>1, <1>2, QuotesFacts, ReplaceCopy
<1>6. strReplace(Quotes, new, Cat(Quotes, t)) = Cat(new, strReplace(Quotes, new, t))
  BY <1>2, QuotesFacts, ReplaceMatch
<1>7. Cat(Quotes, t) = Cons(Single, Cons(Single, Cons(Single, t)))
  BY QuotesFacts
<1>8. pyStdin(Cons(Single, Cons(Single, Cons(Single, t)))) = Cat(new, pyStdin(t))
  BY <1>1, <1>6, <1>7
<1> QED  BY <1>3, <1>4, <1>5, <1>8

LEMMA PyReads ==
  ASSUME NEW t \in Text, ~Occurs(<<Slash>>, t), EndQuotes(t) % 3 = 0, NEW v \in Text
  PROVE  Literal(Cat(pyStdin(t), Cat(Quotes, v)), Backslash, Quotes) = t
<1> DEFINE c == <<Slash>>
           u == Cat(Quotes, v)
           L(w) == Literal(w, Backslash, Quotes)
           Reads(w) == L(Cat(pyStdin(w), u)) = w
           Fits(w) == ~Occurs(c, w) /\ EndQuotes(w) % 3 = 0
           S == {w \in Text : Fits(w) => Reads(w)}
<1>0. /\ u \in Text /\ <<>> \in Text /\ L(u) = <<>>
      /\ c \in Text /\ Len(c) = 1 /\ DOMAIN c = 1..1 /\ c[1] = Slash
  <2>1. u \in Text /\ u # <<>> /\ At(u, 1, Quotes)
    BY QuotesFacts, AtCat, CatFacts, TextFacts
  <2>2. u[1] = Single
    BY <2>1, AtQuotesIs
  <2> HIDE DEF u
  <2>3. ~EscapeAt(u, 1, Backslash)
    BY <2>2, EscapesFacts, NameFacts DEF EscapeAt
  <2>4. L(u) = <<>>
    BY <2>1, <2>3, QuotesFacts, EscapesFacts, LiteralClose
  <2> QED  BY <2>1, <2>4, NameFacts, SymbolFacts, TextFacts, EmptySeq DEF Text
<1> HIDE DEF u, c
<1>1. \A w \in Text : L(Cons(Slash, Cons(Single, w))) = Cons(Single, L(w))
  BY QuotesFacts, EscapesFacts, LiteralEscape
<1>2. \A w \in Text, x \in Symbols :
        x # Slash /\ ~At(Cons(x, w), 1, Quotes) => L(Cons(x, w)) = Cons(x, L(w))
  <2> SUFFICES ASSUME NEW w \in Text, NEW x \in Symbols, x # Slash, ~At(Cons(x, w), 1, Quotes)
               PROVE  L(Cons(x, w)) = Cons(x, L(w))
    OBVIOUS
  <2>1. Cons(x, w)[1] = x
    BY HeadFacts
  <2>2. ~EscapeAt(Cons(x, w), 1, Backslash)
    BY <2>1, EscapesFacts DEF EscapeAt
  <2> QED  BY <2>2, QuotesFacts, EscapesFacts, LiteralCopy
<1> HIDE DEF L
<1>3. ASSUME NEW w \in Text, NEW x \in Symbols
      PROVE  /\ Cons(x, w) \in Text /\ Len(Cons(x, w)) = Len(w) + 1 /\ Len(w) \in Nat
             /\ ~Occurs(c, Cons(x, w)) => x # Slash /\ ~Occurs(c, w)
  <2> DEFINE xw == Cons(x, w)
  <2>1. xw \in Text /\ Len(xw) = Len(w) + 1 /\ Len(w) \in Nat /\ xw[1] = x
    BY HeadFacts, TextFacts
  <2>2. ~Occurs(c, xw) => ~Occurs(c, w) /\ ~At(xw, 1, c)
    BY <1>0, OccursTail
  <2> HIDE DEF xw
  <2>3. x = Slash => At(xw, 1, c)
    BY <1>0, <2>1 DEF At
  <2> QED  BY <2>1, <2>2, <2>3 DEF xw
<1>4. \A w \in Text : pyStdin(w) \in Text /\ pyStdin(<<>>) = <<>>
  BY PyStdinFacts, NameFacts
<1>5. \A y \in Symbols, s \in Text, z \in Text :
        Cons(y, s) \in Text /\ Cat(Cons(y, s), z) = Cons(y, Cat(s, z)) /\ Cat(s, z) \in Text
  BY ConsCat, HeadFacts, CatFacts
<1>6. ASSUME NEW w \in Text, \A s \in Text : Len(s) < Len(w) => s \in S
      PROVE  w \in S
  <2> SUFFICES ASSUME Fits(w) PROVE Reads(w)
    OBVIOUS
  <2>1. CASE w = <<>>
    <3>1. Cat(<<>>, u) = u
      BY <1>0, CatEmpty
    <3> QED  BY <1>0, <1>4, <2>1, <3>1
  <2>2. CASE w # <<>>
    <3> DEFINE x == w[1]
               s == From(w, 2)
    <3>1. x \in Symbols /\ s \in Text /\ w = Cons(x, s)
      BY <2>2, HeadAndRest
    <3> HIDE DEF x, s
    <3>2. /\ Len(w) = Len(s) + 1 /\ Len(s) \in Nat
          /\ x # Slash /\ ~Occurs(c, s)
      BY <1>3, <3>1
    <3>3. /\ EndQuotes(s) \in 0..Len(s)
          /\ x = Single /\ EndQuotes(s) = Len(s) => EndQuotes(w) = Len(s) + 1
          /\ x # Single \/ EndQuotes(s) < Len(s) => EndQuotes(w) = EndQuotes(s)
      BY <3>1, EndQuotesFacts
    <3>4. CASE At(w, 1, Quotes)
      <4>0. Len(w) >= 3 /\ w[1] = Single /\ w[2] = Single /\ w[3] = Single
        BY <3>4, AtQuotesIs
      <4>1. /\ x = Single /\ s # <<>> /\ Len(s) >= 2 /\ s[1] = Single /\ s[2] = Single
        <5>1. Cons(x, s)[1] = x /\ (Len(s) >= 1 => Cons(x, s)[2] = s[1])
              /\ (Len(s) >= 2 => Cons(x, s)[3] = s[2])
          BY <3>1, ThreeFacts
        <5> QED  BY <3>1, <3>2, <4>0, <5>1, TextFacts
      <4> DEFINE s2 == From(s, 2)
      <4>2. s2 \in Text /\ s = Cons(Single, s2)
        BY <3>1, <4>1, HeadAndRest
      <4> HIDE DEF s2
      <4>3. Len(s) = Len(s2) + 1 /\ Len(s2) \in Nat /\ ~Occurs(c, s2)
        BY <1>3, <3>2, <4>2, NameFacts
      <4>4. s2 # <<>> /\ s2[1] = Single
        <5>1. Len(s2) >= 1 => Cons(Single, s2)[2] = s2[1]
          BY <4>2, ThreeFacts, NameFacts
        <5> QED  BY <4>1, <4>2, <4>3, <5>1, TextFacts
      <4> DEFINE r == From(s2, 2)
      <4>5. r \in Text /\ s2 = Cons(Single, r)
        BY <4>2, <4>4, HeadAndRest
      <4> HIDE DEF r
      <4>6. Len(s2) = Len(r) + 1 /\ Len(r) \in Nat /\ ~Occurs(c, r)
        BY <1>3, <4>3, <4>5, NameFacts
      <4>7. /\ EndQuotes(r) \in 0..Len(r)
            /\ EndQuotes(r) = Len(r) => EndQuotes(s2) = Len(r) + 1
            /\ EndQuotes(r) < Len(r) => EndQuotes(s2) = EndQuotes(r)
        BY <4>5, EndQuotesFacts, NameFacts
      <4>8. /\ EndQuotes(s2) = Len(s2) => EndQuotes(s) = Len(s2) + 1
            /\ EndQuotes(s2) < Len(s2) => EndQuotes(s) = EndQuotes(s2)
        BY <4>2, EndQuotesFacts, NameFacts
      <4>9. EndQuotes(w) = EndQuotes(r) \/ EndQuotes(w) = EndQuotes(r) + 3
        BY <3>2, <3>3, <4>1, <4>3, <4>6, <4>7, <4>8
      <4>10. EndQuotes(r) % 3 = 0
        BY <4>7, <4>9
      <4>11. Reads(r)
        BY <1>6, <3>2, <4>3, <4>5, <4>6, <4>10
      <4> DEFINE p == pyStdin(r)
                 pu == Cat(p, u)
      <4>12. w = Cons(Single, Cons(Single, Cons(Single, r)))
        BY <3>1, <4>1, <4>2, <4>5
      <4>13. pyStdin(w) = Cons(Slash, Cons(Single, Cons(Slash, Cons(Single, Cons(Slash,
                            Cons(Single, p))))))
        BY <4>5, <4>12, PyStdinFacts, NameFacts
      <4>14. p \in Text /\ pu \in Text /\ L(pu) = r
        BY <1>0, <1>4, <4>5, <4>11, CatFacts
      <4> HIDE DEF p
      <4>15. Cat(pyStdin(w), u) = Cons(Slash, Cons(Single, Cons(Slash, Cons(Single, Cons(Slash,
                                    Cons(Single, pu))))))
        BY <1>0, <1>5, <4>13, <4>14, NameFacts
      <4> HIDE DEF pu
      <4>16. L(Cat(pyStdin(w), u)) = Cons(Single, Cons(Single, Cons(Single, L(pu))))
        <5> DEFINE p1 == Cons(Slash, Cons(Single, pu))
                   p2 == Cons(Slash, Cons(Single, p1))
        <5>1. p1 \in Text /\ L(p1) = Cons(Single, L(pu))
          BY <1>1, <1>5, <4>14, NameFacts
        <5> HIDE DEF p1
        <5>2. p2 \in Text /\ L(p2) = Cons(Single, L(p1))
          BY <1>1, <1>5, <4>14, <5>1, NameFacts
        <5> HIDE DEF p2
        <5>3. L(Cons(Slash, Cons(Single, p2))) = Cons(Single, L(p2))
          BY <1>1, <5>2
        <5> QED  BY <4>15, <5>1, <5>2, <5>3 DEF p1, p2
      <4> QED  BY <4>12, <4>14, <4>16
    <3>5. CASE ~At(w, 1, Quotes)
      <4> DEFINE p == pyStdin(s)
                 pu == Cat(p, u)
      <4>1. pyStdin(w) = Cons(x, p)
        BY <3>1, <3>5, PyStdinFacts
      <4>2. p \in Text /\ pu \in Text /\ Cat(pyStdin(w), u) = Cons(x, pu)
        <5>1. p \in Text
          BY <1>4, <3>1
        <5> HIDE DEF p
        <5> QED  BY <1>0, <1>5, <3>1, <4>1, <5>1
      <4>3. x = Single => EndQuotes(s) < Len(s)
        <5> SUFFICES ASSUME x = Single, EndQuotes(s) = Len(s) PROVE FALSE
          BY <3>2, <3>3
        <5>1. EndQuotes(w) = Len(w) /\ Len(w) % 3 = 0 /\ Len(w) >= 3
          BY <3>2, <3>3
        <5>2. EndsWith(w, Len(w))
          BY <5>1, EndQuotesIs
        <5>3. w[Len(w) + 1 - Len(w)] = "'"
          BY <5>1, <5>2, <3>2 DEF EndsWith
        <5>4. Len(w) - 1 \in 1..Len(w) /\ Len(w) + 1 - (Len(w) - 1) = 2
          BY <3>2, <5>1
        <5>5. Len(w) - 2 \in 1..Len(w) /\ Len(w) + 1 - (Len(w) - 2) = 3
          BY <3>2, <5>1
        <5>6. w[2] = "'"
          BY <5>2, <5>4 DEF EndsWith
        <5>7. w[3] = "'"
          BY <5>2, <5>5 DEF EndsWith
        <5>8. w[1] = "'"
          <6>1. Len(w) + 1 - Len(w) = 1
            BY <3>2
          <6> QED  BY <5>3, <6>1
        <5> QED  BY <3>5, <5>1, <5>6, <5>7, <5>8, AtQuotesIs DEF Single
      <4>4. EndQuotes(s) % 3 = 0
        BY <3>2, <3>3, <4>3
      <4>5. L(pu) = s
        BY <1>6, <3>1, <3>2, <4>4
      <4>6. ~At(Cons(x, pu), 1, Quotes)
        <5>1. CASE x # Single
          <6> HIDE DEF pu
          <6> QED  BY <3>1, <4>2, <5>1, AtQuotes
        <5>2. CASE x = Single
          <6> DEFINE y == s[1]
                     r == From(s, 2)
                     q == pyStdin(r)
                     qu == Cat(q, u)
          <6>0. s # <<>>
            BY <3>1, <3>2, <3>3, <4>3, <5>2, TextFacts
          <6>1. y \in Symbols /\ r \in Text /\ s = Cons(y, r)
            BY <3>1, <6>0, HeadAndRest
          <6> HIDE DEF y, r
          <6>2. q \in Text /\ qu \in Text
            BY <1>0, <1>4, <6>1, CatFacts
          <6>3. ~(y = Single /\ r # <<>> /\ r[1] = Single)
            BY <3>1, <3>5, <5>2, <6>1, AtQuotesTwo
          <6>4. ~At(s, 1, Quotes)
            <7>1. y # Single \/ r = <<>> \/ r[1] # Single
              BY <6>3
            <7> QED  BY <6>1, <7>1, AtQuotes
          <6>5. p = Cons(y, q)
            BY <6>1, <6>4, PyStdinFacts
          <6>6. pu = Cons(y, qu)
            <7> HIDE DEF p, q
            <7> QED  BY <1>0, <1>5, <6>1, <6>2, <6>5
          <6>7. y = Single => r # <<>> /\ r[1] # Single
            <7> SUFFICES ASSUME y = Single, r = <<>> PROVE FALSE
              BY <6>3
            <7>1. EndQuotes(r) = 0 /\ Len(r) = 0
              BY <6>1, EndQuotesFacts, TextFacts
            <7>2. EndQuotes(s) = 1
              BY <6>1, <7>1, EndQuotesFacts
            <7> QED  BY <4>4, <7>2
          <6>8. y = Single => qu[1] # Single
            <7> SUFFICES ASSUME y = Single PROVE qu[1] # Single
              OBVIOUS
            <7> DEFINE z == r[1]
                       r2 == From(r, 2)
                       q2 == pyStdin(r2)
            <7>1. z \in Symbols /\ r2 \in Text /\ r = Cons(z, r2) /\ z # Single
              BY <6>1, <6>7, HeadAndRest
            <7> HIDE DEF z, r2
            <7>2. ~At(r, 1, Quotes)
              BY <7>1, AtQuotes
            <7>3. q = Cons(z, q2) /\ q2 \in Text
              BY <1>4, <7>1, <7>2, PyStdinFacts
            <7> HIDE DEF q2, q
            <7>4. qu = Cons(z, Cat(q2, u)) /\ Cat(q2, u) \in Text
              BY <1>0, <1>5, <7>1, <7>3
            <7> HIDE DEF qu
            <7>5. qu[1] = z
              BY <7>1, <7>4, HeadFacts
            <7> QED  BY <7>1, <7>5
          <6> HIDE DEF qu, pu
          <6>9. ~(y = Single /\ qu # <<>> /\ qu[1] = Single)
            BY <6>8
          <6> QED  BY <3>1, <6>1, <6>2, <6>6, <6>9, AtQuotesTwo
        <5> QED  BY <5>1, <5>2
      <4>7. L(Cons(x, pu)) = Cons(x, L(pu))
        BY <1>2, <3>1, <3>2, <4>2, <4>6
      <4> QED  BY <3>1, <4>2, <4>5, <4>7
    <3> QED  BY <3>4, <3>5
  <2> QED  BY <2>1, <2>2
<1>7. Text \subseteq S
  <2> HIDE DEF S
  <2> QED  BY <1>6, StrongInduction
<1> QED  BY <1>7 DEF L, u, c
-----------------------------------------------------------------------------
(* Stdin data in the compiled languages *)

LEMMA ReceivedIs ==
  ASSUME NEW r, NEW code
  PROVE  /\ r.module = "java" => Received(r, code) = r.text
         /\ r.module = "python" =>
              Received(r, code) = Literal(Newlines(From(code, 2)), Backslash, Quotes)
         /\ r.module = "csharp" =>
              Received(r, code) = Literal(From(code, Len(r.source) + 3), Doubled, <<Double>>)
         /\ r.module = "cxx" =>
              Received(r, code) =
                Literal(RawNewlines(From(code, Len(r.source) + 4)), Raw, RawClosing)
         /\ r.module = "javascript" =>
              Received(r, code) =
                Literal(Literal(From(code, 2), Backslash, <<Single>>), Backslash, <<Double>>)
<1> DEFINE rest == SubSeq(code, LiteralStart(r), Len(code))
<1>1. /\ LiteralStart(r) = CASE r.module = "csharp" -> Len(r.source) + 3
                             [] r.module = "cxx"    -> Len(r.source) + 4
                             [] OTHER               -> 2
      /\ rest = From(code, LiteralStart(r))
  BY Zenon DEF LiteralStart, From
<1>2. /\ r.module = "csharp" => LiteralStart(r) = Len(r.source) + 3
      /\ r.module = "cxx" => LiteralStart(r) = Len(r.source) + 4
      /\ r.module \notin {"csharp", "cxx"} => LiteralStart(r) = 2
  BY <1>1
<1>3. CASE r.module = "java"
  <2>1. r.module \notin {"python", "csharp", "cxx", "javascript"}
    BY <1>3
  <2>2. Received(r, code) = r.text
    BY <1>3, <2>1, Zenon DEF Received
  <2> QED  BY <2>1, <2>2
<1>4. CASE r.module = "python"
  <2>1. r.module \notin {"java", "csharp", "cxx", "javascript"}
    BY <1>4
  <2>2. Received(r, code) = Literal(Newlines(rest), Backslash, Quotes)
    BY <1>4, <2>1, Zenon DEF Received, Quotes
  <2>3. rest = From(code, 2)
    BY <1>1, <1>2, <2>1
  <2> HIDE DEF rest
  <2> QED  BY <2>1, <2>2, <2>3
<1>5. CASE r.module = "csharp"
  <2>1. r.module \notin {"java", "python", "cxx", "javascript"}
    BY <1>5
  <2>2. Received(r, code) = Literal(rest, Doubled, <<Double>>)
    BY <1>5, <2>1, Zenon DEF Received, Double
  <2>3. rest = From(code, Len(r.source) + 3)
    BY <1>1, <1>2, <1>5
  <2> HIDE DEF rest
  <2> QED  BY <2>1, <2>2, <2>3
<1>6. CASE r.module = "cxx"
  <2>1. r.module \notin {"java", "python", "csharp", "javascript"}
    BY <1>6
  <2>2. Received(r, code) = Literal(RawNewlines(rest), Raw, RawClosing)
    BY <1>6, <2>1, Zenon DEF Received, RawClosing
  <2>3. rest = From(code, Len(r.source) + 4)
    BY <1>1, <1>2, <1>6
  <2> HIDE DEF rest
  <2> QED  BY <2>1, <2>2, <2>3
<1>7. CASE r.module = "javascript"
  <2>1. r.module \notin {"java", "python", "csharp", "cxx"}
    BY <1>7
  <2>2. Received(r, code) = Literal(Literal(rest, Backslash, <<Single>>), Backslash, <<Double>>)
    BY <1>7, <2>1, Zenon DEF Received, Single, Double
  <2>3. rest = From(code, 2)
    BY <1>1, <1>2, <2>1
  <2> HIDE DEF rest
  <2> QED  BY <2>1, <2>2, <2>3
<1> QED  BY <1>3, <1>4, <1>5, <1>6, <1>7

RestIs(x, m, h, b, c, d, a) ==
  From(Cat(Cat(Cat(x, m), Cat(Cat(Cat(h, b), c), d)), a), Len(x) + 3) = Cat(b, Cat(c, Cat(d, a)))

\* The literal begins after the first symbol of what is put in.
LEMMA CompiledRest ==
  ASSUME NEW x \in Text, NEW m \in Text, NEW h \in Text, NEW b \in Text, NEW c \in Text,
         NEW d \in Text, NEW a \in Text, Len(m) = 1, Len(h) = 1
  PROVE  RestIs(x, m, h, b, c, d, a)
<1> DEFINE u == Cat(b, Cat(c, Cat(d, a)))
           xm == Cat(x, m)
           s == Cat(xm, h)
           y == Cat(Cat(Cat(h, b), c), d)
<1>1. Cat(Cat(Cat(Cat(h, b), c), d), a) = Cat(h, u)
  BY CatFive
<1>2. y \in Text /\ xm \in Text /\ u \in Text /\ s \in Text
  BY CatFacts
<1>3. Len(s) = Len(x) + 2
  <2>1. Len(xm) = Len(x) + Len(m) /\ Len(x) \in Nat
    BY CatFacts, TextFacts
  <2> HIDE DEF xm
  <2>2. Len(s) = Len(xm) + Len(h)
    BY <1>2, CatFacts
  <2> HIDE DEF s
  <2> QED  BY <2>1, <2>2
<1> HIDE DEF u, y
<1>4. Cat(Cat(xm, y), a) = Cat(xm, Cat(y, a)) /\ Cat(y, a) = Cat(h, u)
  BY <1>1, <1>2, CatAssoc DEF y
<1>5. Cat(xm, Cat(h, u)) = Cat(s, u)
  BY <1>2, CatAssoc
<1> HIDE DEF s, xm
<1>6. From(Cat(s, u), Len(s) + 1) = u
  BY <1>2, FromConcat
<1>7. Len(s) + 1 = Len(x) + 3
  BY <1>3, TextFacts
<1>8. From(Cat(Cat(xm, y), a), Len(x) + 3) = u
  BY <1>4, <1>5, <1>6, <1>7
<1> QED  BY <1>8 DEF xm, y, u, RestIs

LEMMA CsReceived ==
  ASSUME NEW r \in RequestType, r.kind = "io", r.module = "csharp",
         ~Occurs(Markers["main"], r.source)
  PROVE  Received(r, Generated(r)) = r.text
<1> DEFINE m == CompiledBetween
           a == CompiledAfter
           h == <<"@\"">>
           b == Twice(r.text)
           c == <<Double, ";">>
           d == Invocation
           x == r.source
           y == CsMain(r)
           u == Cat(c, Cat(d, a))
<1>0. r.module \in Compiled /\ r.kind # "tests" /\ r.module # "cxx"
  BY DEF Compiled
<1>1. /\ x \in Text /\ y \in Text /\ m \in Text /\ a \in Text /\ b \in Text /\ d \in Text
      /\ r.text \in Text
  <2>1. r.text \in Text /\ x \in Text
    BY RequestFacts
  <2>2. y \in Text
    BY <1>0, CompiledFills, Zenon DEF CompiledMain
  <2>3. m \in Text /\ a \in Text
    BY TemplateTexts, Zenon
  <2> QED  BY <2>1, <2>2, <2>3, TwiceFacts, CodeFacts
<1>2. h \in Text /\ Len(h) = 1 /\ Len(m) = 1
  <2> DEFINE A == "@\""
             B == "main() {"
  <2>1. {A, B} \subseteq Symbols
    BY Zenon, CodeSymbolFacts DEF CodeSymbols
  <2> HIDE DEF A, B
  <2>2. <<A>> \in Text /\ Len(<<A>>) = 1 /\ Len(<<B>>) = 1
    BY <2>1, SymbolFacts
  <2> QED  BY <2>2, Zenon DEF A, B, CompiledBetween
<1>3. c \in Text /\ c = Cons(Double, <<";">>) /\ <<";">> \in Text /\ ";" # Double
  <2>1. ";" \in Symbols
    BY Zenon, CodeSymbolFacts DEF CodeSymbols
  <2>2. ";" # Double
    BY DEF Double
  <2> QED  BY <2>1, <2>2, NameFacts, Pair, SymbolFacts
<1>4. y = Cat(Cat(Cat(h, b), c), d)
  BY Zenon DEF CsMain, Cat, Twice, Double
<1>5. Generated(r) = InPlace(r) /\ InPlace(r) = Cat(Cat(Cat(x, m), y), a)
  <2>1. CompiledPrefix(r) = x /\ CompiledMain(r) = y
    BY <1>0, Zenon DEF CompiledPrefix, CompiledMain
  <2>2. Fills(r) = << <<"prefix", x>>, <<"main", y>> >>
    BY <1>0, <2>1, CompiledFills, Zenon
  <2>3. Clear(Markers["main"], Cat(x, CompiledBetween))
    BY <1>0, <2>1, PrefixClear, Zenon
  <2> QED  BY <1>0, <1>1, <2>2, <2>3, CompiledGenerated, Zenon
<1> HIDE DEF m, a, h, b, c, d, x, y
<1>6. From(Generated(r), Len(x) + 3) = Cat(b, u)
  <2>1. From(Cat(Cat(Cat(x, m), Cat(Cat(Cat(h, b), c), d)), a), Len(x) + 3)
          = Cat(b, Cat(c, Cat(d, a)))
    <3>1. RestIs(x, m, h, b, c, d, a)
      BY <1>1, <1>2, <1>3, CompiledRest
    <3> QED  BY <3>1, Zenon DEF RestIs
  <2> QED  BY <1>4, <1>5, <2>1
<1>7. u \in Text
  BY <1>1, <1>3, CatFacts
<1>8. Literal(u, Doubled, <<Double>>) = <<>>
  <2> DEFINE semi == ";"
             p == <<semi>>
             w == Cat(d, a)
             t == Cons(semi, w)
  <2>1. p \in Text /\ semi \in Symbols /\ semi # Double /\ c = Cons(Double, p)
    <3>1. semi \in Symbols
      BY Zenon, CodeSymbolFacts DEF CodeSymbols
    <3> QED  BY <1>3, <3>1
  <2>2. Cat(p, w) = t
    BY DEF Cons
  <2> HIDE DEF semi, p
  <2>3. w \in Text
    BY <1>1, CatFacts
  <2>4. u = Cat(c, w)
    OBVIOUS
  <2> HIDE DEF w, u
  <2>5. t \in Text /\ t # <<>> /\ t[1] = semi
    BY <2>1, <2>3, HeadFacts
  <2>6. u = Cons(Double, t)
    <3>1. Cat(Cons(Double, p), w) = Cons(Double, Cat(p, w))
      BY <2>1, <2>3, NameFacts, ConsCat
    <3> QED  BY <2>1, <2>2, <2>4, <3>1
  <2> HIDE DEF t
  <2> QED  BY <2>1, <2>5, <2>6, NameFacts, EscapesFacts, LiteralCloseSymbol
<1> HIDE DEF u
<1>9. Literal(Cat(b, u), Doubled, <<Double>>) = r.text
  <2>1. Literal(Cat(Twice(r.text), u), Doubled, <<Double>>)
          = Cat(r.text, Literal(u, Doubled, <<Double>>))
    BY <1>1, <1>7, TwiceReads
  <2> QED  BY <1>1, <1>8, <2>1, CatEmpty DEF b
<1>10. Received(r, Generated(r)) = Literal(From(Generated(r), Len(x) + 3), Doubled, <<Double>>)
  BY ReceivedIs, Zenon DEF x
<1> QED  BY <1>6, <1>9, <1>10

\* In C++, what is read is read from the text without the delimiter, its CR LF as LF.
LEMMA CxxReceived ==
  ASSUME NEW r \in RequestType, r.kind = "io", r.module = "cxx",
         ~Occurs(Markers["main"], r.source)
  PROVE  \E v \in Text : Received(r, Generated(r)) =
           Literal(Cat(RawNewlines(strReplace(Delimiter, <<>>, r.text)), Cat(RawClosing, v)),
                   Raw, RawClosing)
<1> DEFINE m == CompiledBetween
           a == CompiledAfter
           h == <<"R\"delim(">>
           b == strReplace(Delimiter, <<>>, r.text)
           P == <<Paren>>
           Q == <<Double>>
           S == <<";">>
           V == Invocation
           i == <<"#include \"redirect.h\"">>
           x == CxxPrefix(r)
           y == CxxMain(r)
<1>0. r.module \in Compiled /\ r.kind # "tests" /\ r.module # "csharp"
  BY DEF Compiled
<1>1. /\ r.source \in Text /\ y \in Text /\ m \in Text /\ a \in Text /\ b \in Text
      /\ V \in Text /\ i \in Text /\ x \in Text
  <2>1. r.text \in Text /\ r.source \in Text
    BY RequestFacts
  <2>2. y \in Text /\ x \in Text
    BY <1>0, CompiledFills, Zenon DEF CompiledMain, CompiledPrefix
  <2>3. m \in Text /\ a \in Text
    BY TemplateTexts, Zenon
  <2>4. i \in Text
    BY TemplateSymbol, Zenon
  <2>5. b \in Text
    BY <2>1, FillTexts
  <2>6. V \in Text
    BY <2>1, CodeFacts
  <2> QED  BY <2>1, <2>2, <2>3, <2>4, <2>5, <2>6, Zenon
<1>2. h \in Text /\ Len(h) = 1 /\ Len(m) = 1 /\ Len(i) = 1
  <2> DEFINE A == "R\"delim("
             B == "main() {"
             C == "#include \"redirect.h\""
  <2>1. {A, B, C} \subseteq Symbols
    BY Zenon, CodeSymbolFacts DEF CodeSymbols
  <2> HIDE DEF A, B, C
  <2>2. <<A>> \in Text /\ Len(<<A>>) = 1 /\ Len(<<B>>) = 1 /\ Len(<<C>>) = 1
    BY <2>1, SymbolFacts
  <2> QED  BY <2>2, Zenon DEF A, B, C, CompiledBetween
<1>3. P \in Text /\ Q \in Text /\ S \in Text /\ Delimiter \in Text /\ <<Double, ";">> = Cat(Q, S)
  <2>1. ";" \in Symbols
    BY Zenon, CodeSymbolFacts DEF CodeSymbols
  <2>2. <<Double, ";">> = Cons(Double, S)
    BY <2>1, NameFacts, Pair
  <2> QED  BY <2>1, <2>2, NameFacts, RawFacts, SymbolFacts DEF Cons
<1>4. y = Cat(Cat(Cat(Cat(Cat(h, b), P), Delimiter), Cat(Q, S)), V)
  BY <1>3, Zenon DEF CxxMain, Cat, Paren, Double
<1>5. RawClosing = Cat(Cat(P, Delimiter), Q) /\ x = Cat(r.source, i)
  BY Zenon DEF RawClosing, Cat, Paren, Double, CxxPrefix
<1>6. Generated(r) = InPlace(r) /\ InPlace(r) = Cat(Cat(Cat(x, m), y), a)
  <2>1. CompiledPrefix(r) = x /\ CompiledMain(r) = y
    BY <1>0, Zenon DEF CompiledPrefix, CompiledMain
  <2>2. Fills(r) = << <<"prefix", x>>, <<"main", y>> >>
    BY <1>0, <2>1, CompiledFills, Zenon
  <2>3. Clear(Markers["main"], Cat(x, CompiledBetween))
    BY <1>0, <2>1, PrefixClear, Zenon
  <2> QED  BY <1>0, <1>1, <2>2, <2>3, CompiledGenerated, Zenon
<1> HIDE DEF m, a, h, b, P, Q, S, V, i, x, y
<1>7. Len(x) = Len(r.source) + 1 /\ Len(r.source) \in Nat
  <2>1. Len(Cat(r.source, i)) = Len(r.source) + Len(i) /\ Len(r.source) \in Nat
    BY <1>1, CatFacts, TextFacts
  <2> QED  BY <1>2, <1>5, <2>1
<1>8. y = Cat(Cat(Cat(h, b), RawClosing), Cat(S, V))
  <2> DEFINE hb == Cat(h, b)
             pd == Cat(P, Delimiter)
  <2>a. P \in Text /\ Q \in Text /\ S \in Text /\ Delimiter \in Text
    BY <1>3, Zenon
  <2>1. hb \in Text /\ pd \in Text
    BY <1>1, <1>2, <2>a, CatFacts
  <2> HIDE DEF hb
  <2>2. Cat(Cat(hb, P), Delimiter) = Cat(hb, pd)
    <3>1. hb \in Text /\ P \in Text /\ Delimiter \in Text
      BY <2>a, <2>1, Zenon
    <3>2. Cat(Cat(hb, P), Delimiter) = Cat(hb, Cat(P, Delimiter))
      BY <3>1, CatAssoc, Zenon
    <3> QED  BY <3>2, Zenon DEF pd
  <2> HIDE DEF pd
  <2>3. Cat(hb, pd) \in Text /\ Cat(pd, Q) \in Text
    BY <2>a, <2>1, CatFacts
  <2>4. Cat(Cat(hb, pd), Cat(Q, S)) = Cat(Cat(Cat(hb, pd), Q), S)
    <3> DEFINE k == Cat(hb, pd)
    <3>1. k \in Text /\ Q \in Text /\ S \in Text
      BY <2>a, <2>3, Zenon
    <3> HIDE DEF k
    <3>2. Cat(Cat(k, Q), S) = Cat(k, Cat(Q, S))
      BY <3>1, CatAssoc, Zenon
    <3> QED  BY <3>2, Zenon DEF k
  <2>5. Cat(Cat(hb, pd), Q) = Cat(hb, Cat(pd, Q))
    <3>1. hb \in Text /\ pd \in Text /\ Q \in Text
      BY <2>a, <2>1, Zenon
    <3> QED  BY <3>1, CatAssoc, Zenon
  <2>6. Cat(Cat(Cat(hb, Cat(pd, Q)), S), V) = Cat(Cat(hb, Cat(pd, Q)), Cat(S, V))
    <3> DEFINE k == Cat(hb, Cat(pd, Q))
    <3>1. k \in Text
      BY <2>1, <2>3, CatFacts
    <3> HIDE DEF k
    <3>2. S \in Text /\ V \in Text
      BY <1>1, <1>3
    <3>3. Cat(Cat(k, S), V) = Cat(k, Cat(S, V))
      BY <3>1, <3>2, CatAssoc, Zenon
    <3> QED  BY <3>3 DEF k
  <2>7. RawClosing = Cat(pd, Q) /\ y = Cat(Cat(Cat(Cat(hb, P), Delimiter), Cat(Q, S)), V)
    BY <1>4, <1>5 DEF hb, pd
  <2>8. y = Cat(Cat(hb, RawClosing), Cat(S, V))
    BY <2>2, <2>4, <2>5, <2>6, <2>7
  <2> QED  BY <2>8 DEF hb
<1> DEFINE sv == Cat(S, V)
           v == Cat(sv, a)
<1>9. sv \in Text /\ v \in Text
  BY <1>1, <1>3, CatFacts
<1>10. y = Cat(Cat(Cat(h, b), RawClosing), sv)
  BY <1>8
<1> HIDE DEF sv
<1>11. From(Generated(r), Len(x) + 3) = Cat(b, Cat(RawClosing, v))
  <2>1. From(Cat(Cat(Cat(x, m), Cat(Cat(Cat(h, b), RawClosing), sv)), a), Len(x) + 3)
          = Cat(b, Cat(RawClosing, Cat(sv, a)))
    <3>1. RestIs(x, m, h, b, RawClosing, sv, a)
      BY <1>1, <1>2, <1>9, RawFacts, CompiledRest
    <3> QED  BY <3>1, Zenon DEF RestIs
  <2> QED  BY <1>6, <1>10, <2>1
<1>12. Len(x) + 3 = Len(r.source) + 4
  BY <1>7
<1>13. Received(r, Generated(r))
         = Literal(RawNewlines(From(Generated(r), Len(r.source) + 4)), Raw, RawClosing)
  BY ReceivedIs, Zenon
<1> HIDE DEF v
<1>14. Received(r, Generated(r))
         = Literal(RawNewlines(Cat(b, Cat(RawClosing, v))), Raw, RawClosing)
  BY <1>11, <1>12, <1>13
<1>15. RawNewlines(Cat(b, Cat(RawClosing, v)))
         = Cat(RawNewlines(b), Cat(RawClosing, RawNewlines(v)))
  BY <1>1, <1>9, RawNewlinesClosing
<1>16. RawNewlines(v) \in Text
  BY <1>9, RawNewlinesFacts, NameFacts
<1> QED  BY <1>14, <1>15, <1>16 DEF b

\* Exactly the texts without the delimiter and without CR LF arrive.
LEMMA CxxArrives ==
  ASSUME NEW r \in RequestType, r.kind = "io", r.module = "cxx",
         ~Occurs(Markers["main"], r.source)
  PROVE  Received(r, Generated(r)) = r.text
           <=> ~Occurs(Delimiter, r.text) /\ ~Occurs(Ending, r.text)
<1> DEFINE t == r.text
           b == strReplace(Delimiter, <<>>, t)
           n == RawNewlines(b)
<1>1. t \in Text /\ b \in Text /\ n \in Text
  BY RequestFacts, FillTexts, RawNewlinesFacts, NameFacts
<1>2. PICK v \in Text :
        Received(r, Generated(r)) = Literal(Cat(n, Cat(RawClosing, v)), Raw, RawClosing)
  BY CxxReceived
<1>3. ~Occurs(Delimiter, t) => b = t
  BY <1>1, RawFacts, ReplaceNothing, EmptySeq DEF Text
<1>4. ASSUME ~Occurs(Delimiter, t), ~Occurs(Ending, t)
      PROVE  Received(r, Generated(r)) = t
  <2>1. n = t
    BY <1>1, <1>3, <1>4, RawNewlinesFacts, NameFacts
  <2>2. Literal(Cat(t, Cat(RawClosing, v)), Raw, RawClosing) = t
    BY <1>1, <1>4, RawReads
  <2> QED  BY <1>2, <2>1, <2>2
<1>5. ASSUME Occurs(Delimiter, t) \/ Occurs(Ending, t)
      PROVE  Received(r, Generated(r)) # t
  <2>1. Len(n) < Len(t)
    <3>1. Len(b) <= Len(t) /\ (Occurs(Delimiter, t) => Len(b) < Len(t))
      BY <1>1, RemovalLength
    <3>2. Len(n) <= Len(b) /\ (Occurs(Ending, b) => Len(n) < Len(b))
      BY <1>1, RawNewlinesLength
    <3>3. Len(n) \in Nat /\ Len(b) \in Nat /\ Len(t) \in Nat
      BY <1>1, TextFacts
    <3> HIDE DEF t, b, n
    <3> QED  BY <1>3, <1>5, <3>1, <3>2, <3>3
  <2> HIDE DEF n
  <2> DEFINE l == Literal(Cat(n, Cat(RawClosing, v)), Raw, RawClosing)
  <2>2. Len(l) <= Len(n)
    BY <1>1, RawLength
  <2>3. l \in Text
    <3>1. Cat(n, Cat(RawClosing, v)) \in Text
      BY <1>1, RawFacts, CatFacts
    <3> QED  BY <3>1, RawFacts, EscapesFacts, LiteralType
  <2>4. Received(r, Generated(r)) = l
    BY <1>2 DEF n
  <2> HIDE DEF l
  <2>5. Len(l) \in Nat /\ Len(n) \in Nat /\ Len(t) \in Nat
    BY <1>1, <2>3, TextFacts
  <2>6. l # t
    BY <2>1, <2>2, <2>5
  <2> QED  BY <2>4, <2>6
<1> QED  BY <1>4, <1>5
-----------------------------------------------------------------------------
(* Stdin data in Python *)

Without(x, s) == \A i \in 1..Len(s) : s[i] # x

LEMMA WithoutOccurs ==
  ASSUME NEW x \in Symbols, NEW t \in Text
  PROVE  ~Occurs(<<x>>, t) <=> Without(x, t)
<1> DEFINE c == <<x>>
<1>1. c \in Text /\ Len(c) = 1 /\ c[1] = x /\ DOMAIN c = 1..1
  BY SymbolFacts, TextFacts
<1> HIDE DEF c
<1>2. Len(t) \in Nat /\ DOMAIN t = 1..Len(t)
  BY TextFacts
<1>3. ASSUME NEW i \in 1..Len(t)
      PROVE  At(t, i, c) <=> t[i] = x
  <2>1. i + 1 - 1 = i
    BY <1>2
  <2> QED  BY <1>1, <1>2, <2>1 DEF At
<1>4. ~Occurs(c, t) <=> \A i \in 1..Len(t) : ~At(t, i, c)
  BY <1>2 DEF Occurs, Places
<1> QED  BY <1>3, <1>4 DEF Without, c

LEMMA WithoutCat ==
  ASSUME NEW x, NEW s \in Text, NEW t \in Text, Without(x, s), Without(x, t)
  PROVE  Without(x, Cat(s, t))
<1> DEFINE u == Cat(s, t)
<1>1. /\ Len(u) = Len(s) + Len(t) /\ Len(s) \in Nat /\ Len(t) \in Nat
      /\ \A i \in 1..Len(s) : u[i] = s[i]
      /\ \A i \in (Len(s) + 1)..(Len(s) + Len(t)) : u[i] = t[i - Len(s)]
  BY CatFacts, TextFacts
<1> HIDE DEF u
<1>2. ASSUME NEW i \in 1..Len(u)
      PROVE  u[i] # x
  <2>1. CASE i \in 1..Len(s)
    BY <1>1, <2>1 DEF Without
  <2>2. CASE i \notin 1..Len(s)
    <3>1. i \in (Len(s) + 1)..(Len(s) + Len(t)) /\ i - Len(s) \in 1..Len(t)
      BY <1>1, <2>2
    <3> QED  BY <1>1, <3>1 DEF Without
  <2> QED  BY <2>1, <2>2
<1> QED  BY <1>2 DEF Without, u

LEMMA WithoutCons ==
  ASSUME NEW x, NEW y \in Symbols, NEW t \in Text
  PROVE  Without(x, Cons(y, t)) <=> y # x /\ Without(x, t)
<1> DEFINE u == Cons(y, t)
<1>1. /\ Len(u) = Len(t) + 1 /\ u[1] = y /\ Len(t) \in Nat
      /\ \A i \in 1..Len(t) : u[i + 1] = t[i]
  BY HeadFacts, TextFacts
<1> HIDE DEF u
<1>2. ASSUME Without(x, u)
      PROVE  y # x /\ Without(x, t)
  <2>1. \A i \in 1..Len(t) : i + 1 \in 1..Len(u)
    BY <1>1
  <2> QED  BY <1>1, <1>2, <2>1 DEF Without
<1>3. ASSUME y # x, Without(x, t)
      PROVE  Without(x, u)
  <2>1. ASSUME NEW i \in 1..Len(u), i # 1
        PROVE  u[i] # x
    <3>1. i - 1 \in 1..Len(t) /\ (i - 1) + 1 = i
      BY <1>1, <2>1
    <3> QED  BY <1>1, <1>3, <3>1 DEF Without
  <2> QED  BY <1>1, <1>3, <2>1 DEF Without
<1> QED  BY <1>2, <1>3 DEF u

LEMMA PyStdinWithout ==
  ASSUME NEW x \in Symbols, x # Slash, x # Single, NEW t \in Text, Without(x, t)
  PROVE  Without(x, pyStdin(t))
<1> DEFINE S == {w \in Text : Without(x, w) => Without(x, pyStdin(w))}
<1>1. \A w \in Text : pyStdin(w) \in Text /\ pyStdin(<<>>) = <<>>
  BY PyStdinFacts, NameFacts
<1>2. \A y \in Symbols, w \in Text :
        Cons(y, w) \in Text /\ (Without(x, Cons(y, w)) <=> y # x /\ Without(x, w))
  BY WithoutCons, HeadFacts
<1>3. ASSUME NEW w \in Text, \A s \in Text : Len(s) < Len(w) => s \in S
      PROVE  w \in S
  <2> SUFFICES ASSUME Without(x, w) PROVE Without(x, pyStdin(w))
    OBVIOUS
  <2>1. CASE w = <<>>
    BY <1>1, <2>1
  <2>2. CASE w # <<>>
    <3> DEFINE y == w[1]
               s == From(w, 2)
    <3>1. y \in Symbols /\ s \in Text /\ w = Cons(y, s) /\ Len(s) = Len(w) - 1 /\ Len(w) \in Nat
      BY <2>2, HeadAndRest, TextFacts
    <3> HIDE DEF y, s
    <3>2. y # x /\ Without(x, s)
      BY <1>2, <3>1
    <3>3. CASE ~At(w, 1, Quotes)
      <4>1. pyStdin(w) = Cons(y, pyStdin(s))
        BY <3>1, <3>3, PyStdinFacts
      <4>2. Without(x, pyStdin(s))
        BY <1>3, <3>1, <3>2
      <4> QED  BY <1>1, <1>2, <3>1, <3>2, <4>1, <4>2
    <3>4. CASE At(w, 1, Quotes)
      <4>0. Len(w) >= 3 /\ w[1] = Single /\ w[2] = Single /\ w[3] = Single
        BY <3>4, AtQuotesIs
      <4>1. y = Single /\ Len(s) >= 2 /\ s[1] = Single /\ s[2] = Single /\ s # <<>>
        <5>1. Cons(y, s)[1] = y /\ (Len(s) >= 1 => Cons(y, s)[2] = s[1])
              /\ (Len(s) >= 2 => Cons(y, s)[3] = s[2])
          BY <3>1, ThreeFacts
        <5> QED  BY <3>1, <4>0, <5>1, TextFacts
      <4> DEFINE s2 == From(s, 2)
      <4>2. s2 \in Text /\ s = Cons(Single, s2) /\ Len(s2) = Len(s) - 1
        BY <3>1, <4>1, HeadAndRest
      <4> HIDE DEF s2
      <4>3. s2 # <<>> /\ s2[1] = Single
        <5>1. Len(s2) >= 1 => Cons(Single, s2)[2] = s2[1]
          BY <4>2, ThreeFacts, NameFacts
        <5> QED  BY <4>1, <4>2, <5>1, <3>1, TextFacts
      <4> DEFINE q == From(s2, 2)
      <4>4. q \in Text /\ s2 = Cons(Single, q) /\ Len(q) = Len(s2) - 1
        BY <4>2, <4>3, HeadAndRest
      <4> HIDE DEF q
      <4>5. Without(x, q)
        BY <1>2, <3>2, <4>2, <4>4, NameFacts
      <4>6. Without(x, pyStdin(q))
        BY <1>3, <3>1, <4>2, <4>4, <4>5
      <4> DEFINE p == pyStdin(q)
      <4>7. pyStdin(w) = Cons(Slash, Cons(Single, Cons(Slash, Cons(Single, Cons(Slash,
                           Cons(Single, p))))))
        BY <3>1, <4>1, <4>2, <4>4, PyStdinFacts, NameFacts
      <4>8. p \in Text /\ Without(x, p)
        BY <1>1, <4>4, <4>6
      <4> HIDE DEF p
      <4> QED  BY <1>2, <4>7, <4>8, NameFacts
    <3> QED  BY <3>3, <3>4
  <2> QED  BY <2>1, <2>2
<1>4. Text \subseteq S
  <2> HIDE DEF S
  <2> QED  BY <1>3, StrongInduction
<1> QED  BY <1>4

\* A text without carriage returns is read as it is.
LEMMA NewlinesAfter ==
  ASSUME NEW s \in Text, Without("CR", s), NEW t \in Text
  PROVE  \E v \in Text : Newlines(Cat(s, t)) = Cat(s, v)
<1> DEFINE old == <<"CR", "LF">>
           c == <<"CR">>
           n == <<"LF">>
           a == strReplace(old, n, t)
           v == strReplace(c, n, a)
<1>1. "CR" \in Symbols /\ "LF" \in Symbols
  BY Zenon, CodeSymbolFacts DEF CodeSymbols
<1>2. /\ old \in Text /\ old # <<>> /\ old[1] = "CR" /\ c \in Text /\ c # <<>> /\ c[1] = "CR"
      /\ n \in Text
  BY <1>1 DEF Text
<1>3. \A u : Newlines(u) = strReplace(c, n, strReplace(old, n, u))
  BY Zenon DEF Newlines
<1> HIDE DEF old, c, n
<1>4. Clear(old, s) /\ Clear(c, s)
  BY <1>2, ClearFirst DEF Without
<1>5. a \in Text
  BY <1>2, ReplaceType
<1>6. strReplace(old, n, Cat(s, t)) = Cat(s, a)
  BY <1>2, <1>4, ReplaceClear
<1> HIDE DEF a
<1>7. v \in Text /\ strReplace(c, n, Cat(s, a)) = Cat(s, v)
  BY <1>2, <1>4, <1>5, ReplaceType, ReplaceClear
<1> QED  BY <1>3, <1>6, <1>7

\* The stdin data goes in last: what it does to the source comes after the literal.
LEMMA PyGeneratedBegins ==
  ASSUME NEW r \in RequestType, r.kind = "io", r.module = "python"
  PROVE  \E z \in Text : Generated(r) = Cat(PyBefore, Cat(pyStdin(r.text), Cat(PyBetween, z)))
<1> DEFINE M == Markers["stdin"]
           N == Markers["code"]
           b == PyBefore
           m == PyBetween
           a == <<>>
           x == pyStdin(r.text)
           y == Code(r)
           z == strReplace(M, x, y)
<1>0. "code" \in Slots /\ "stdin" \in Slots /\ "stdin" # "code"
  BY DEF Slots
<1>1. M \in Text /\ N \in Text /\ M # <<>> /\ N # <<>>
  BY <1>0, MarkerFacts, Zenon
<1>2. b \in Text /\ m \in Text /\ a \in Text /\ x \in Text /\ y \in Text
  BY TemplateTexts, RequestFacts, FillTexts, CodeFacts, Zenon
<1>3. Clear(M, b) /\ Clear(N, b) /\ Clear(M, m) /\ Clear(N, a)
  BY <1>0, TemplateTexts, Zenon
<1>4. ~Occurs(N, M)
  BY MarkersDiffer
<1>5. Clear(N, Cat(M, m))
  BY <1>0, <1>1, <1>4, TemplateTexts, Zenon
<1>6. r.kind # "tests" /\ r.module # "javascript"
  OBVIOUS
<1>7. Fills(r) = << <<"code", y>>, <<"stdin", x>> >>
  BY <1>6, Zenon DEF Fills, pyIOCapture
<1>8. Template(r.module, r.kind) = Parts(b, "stdin", m, "code", a)
  BY <1>6, TemplateIs, Zenon
<1>9. Cat(y, a) = y
  BY <1>2, CatEmpty
<1> HIDE DEF b, m, a, x, y
<1>10. Generated(r) = Replace(r.module, <<"stdin", x>>, Replace(r.module, <<"code", y>>,
                        Cat(Cat(Cat(Cat(b, M), m), N), a)))
  <2>1. FillsIn(r, b, "stdin", m, "code", a, <<"code", y>>, <<"stdin", x>>)
    BY <1>7, <1>8, GeneratedSteps
  <2> QED  BY <2>1, Zenon DEF FillsIn
<1> DEFINE s == Cat(Cat(b, M), m)
<1>11. /\ s \in Text /\ Clear(N, s) /\ Cat(Cat(s, N), a) = Cat(s, Cat(N, a))
       /\ Cat(s, Cat(y, a)) = Cat(b, Cat(M, Cat(m, y)))
  <2> HIDE DEF M, N
  <2>1. Cat(M, m) \in Text /\ s = Cat(b, Cat(M, m)) /\ s \in Text
    BY <1>1, <1>2, CatFacts, CatAssoc
  <2>2. Clear(N, Cat(b, Cat(M, m)))
    BY <1>1, <1>2, <1>3, <1>5, <2>1, ClearConcat
  <2>3. Cat(Cat(Cat(Cat(b, M), m), y), a) = Cat(b, Cat(M, Cat(m, Cat(y, a))))
    BY <1>1, <1>2, CatFive
  <2>4. Cat(s, Cat(y, a)) = Cat(Cat(s, y), a)
    BY <1>2, <2>1, CatAssoc
  <2>5. Cat(Cat(s, N), a) = Cat(s, Cat(N, a))
    BY <1>1, <1>2, <2>1, CatAssoc
  <2> QED  BY <1>9, <2>1, <2>2, <2>3, <2>4, <2>5
<1>12. Cat(Cat(Cat(Cat(b, M), m), N), a) = Cat(s, Cat(N, a))
  BY <1>11
<1> HIDE DEF s
<1>13. FillsSlot(r.module, "code", y, s, a)
  BY <1>1, <1>2, <1>3, <1>6, <1>11, ReplaceSlot
<1>14. Replace(r.module, <<"code", y>>, Cat(s, Cat(N, a))) = Cat(s, Cat(y, a))
  BY <1>13, Zenon DEF FillsSlot
<1>15. Generated(r) = Replace(r.module, <<"stdin", x>>, Cat(b, Cat(M, Cat(m, y))))
  BY <1>10, <1>11, <1>12, <1>14, Zenon
<1>16. Generated(r) = strReplace(M, x, Cat(b, Cat(M, Cat(m, y))))
  <2>1. <<"stdin", x>>[1] = "stdin" /\ <<"stdin", x>>[2] = x
    OBVIOUS
  <2> QED  BY <1>6, <1>15, <2>1, Zenon DEF Replace
<1> HIDE DEF M
<1> DEFINE my == Cat(m, y)
           Mmy == Cat(M, my)
<1>17. my \in Text /\ Mmy \in Text
  BY <1>1, <1>2, CatFacts
<1>18. strReplace(M, x, my) = Cat(m, z) /\ z \in Text
  BY <1>1, <1>2, <1>3, ReplaceClear, ReplaceType
<1> HIDE DEF my, z
<1>19. strReplace(M, x, Mmy) = Cat(x, Cat(m, z))
  BY <1>1, <1>2, <1>17, <1>18, ReplaceMatch
<1> HIDE DEF Mmy
<1>20. strReplace(M, x, Cat(b, Mmy)) = Cat(b, Cat(x, Cat(m, z)))
  BY <1>1, <1>2, <1>3, <1>17, <1>19, ReplaceClear
<1>21. Generated(r) = Cat(b, Cat(x, Cat(m, z)))
  BY <1>16, <1>20 DEF Mmy, my
<1> QED  BY <1>18, <1>21, Zenon DEF b, x, m

LEMMA PyReceived ==
  ASSUME NEW r \in RequestType, r.kind = "io", r.module = "python",
         ~Occurs(<<Slash>>, r.text), ~Occurs(<<"CR">>, r.text), EndQuotes(r.text) % 3 = 0
  PROVE  Received(r, Generated(r)) = r.text
<1> DEFINE t == r.text
           x == pyStdin(t)
           b == PyBefore
           m == PyBetween
           p == <<")">>
<1>0. t \in Text /\ x \in Text /\ b \in Text /\ m \in Text /\ p \in Text
  <2>1. ")" \in Symbols
    BY Zenon, CodeSymbolFacts DEF CodeSymbols
  <2>2. t \in Text
    BY RequestFacts
  <2>3. b \in Text /\ m \in Text
    BY TemplateTexts, Zenon
  <2> QED  BY <2>1, <2>2, <2>3, FillTexts, SymbolFacts
<1>1. PICK z \in Text : Generated(r) = Cat(b, Cat(x, Cat(m, z)))
  BY PyGeneratedBegins
<1>2. Len(b) = 1
  BY DEF PyBefore
<1>3. m = Cat(Quotes, p)
  <2>1. <<"'", "'", "'", ")">> = <<"'", "'", "'">> \o <<")">>
    OBVIOUS
  <2> QED  BY <2>1, Zenon DEF PyBetween, Quotes, Cat
<1>4. "CR" \in Symbols /\ "CR" # Slash /\ "CR" # Single
  <2>1. "CR" \in Symbols
    BY Zenon, CodeSymbolFacts DEF CodeSymbols
  <2> QED  BY <2>1 DEF Slash, Single
<1>5. Without("CR", x) /\ Without("CR", Quotes)
  <2>1. Without("CR", t)
    BY <1>0, <1>4, WithoutOccurs
  <2>2. Without("CR", x)
    BY <1>0, <1>4, <2>1, PyStdinWithout
  <2>3. Without("CR", Quotes)
    BY <1>4, QuotesFacts DEF Without
  <2> QED  BY <2>2, <2>3
<1> HIDE DEF b, m, p, x
<1> DEFINE pz == Cat(p, z)
           xq == Cat(x, Quotes)
           u == Cat(x, Cat(m, z))
<1>6. pz \in Text /\ xq \in Text /\ u \in Text /\ Without("CR", xq)
  BY <1>0, <1>5, QuotesFacts, CatFacts, WithoutCat
<1>7. u = Cat(xq, pz)
  <2>1. Cat(m, z) = Cat(Quotes, pz)
    BY <1>0, <1>3, QuotesFacts, CatAssoc
  <2> HIDE DEF pz
  <2>2. Cat(x, Cat(Quotes, pz)) = Cat(xq, pz)
    BY <1>0, <1>6, QuotesFacts, CatAssoc
  <2> QED  BY <2>1, <2>2
<1>8. From(Generated(r), 2) = u
  <2> HIDE DEF u
  <2>1. From(Cat(b, u), Len(b) + 1) = u
    BY <1>0, <1>6, FromConcat
  <2>2. Generated(r) = Cat(b, u)
    BY <1>1 DEF u
  <2>3. Len(b) + 1 = 2
    BY <1>2 DEF b
  <2> QED  BY <2>1, <2>2, <2>3
<1> HIDE DEF pz, u
<1>9. PICK v \in Text : Newlines(u) = Cat(xq, v)
  <2> HIDE DEF xq
  <2> QED  BY <1>6, <1>7, NewlinesAfter
<1>10. Cat(xq, v) = Cat(x, Cat(Quotes, v))
  BY <1>0, QuotesFacts, CatAssoc
<1>11. Received(r, Generated(r)) = Literal(Newlines(u), Backslash, Quotes)
  BY <1>8, ReceivedIs
<1> USE DEF x
<1>12. Literal(Cat(x, Cat(Quotes, v)), Backslash, Quotes) = t
  BY <1>0, PyReads
<1> QED  BY <1>9, <1>10, <1>11, <1>12

-----------------------------------------------------------------------------
(* JavaScript: JSON in a string literal, put in by String.prototype.replace *)

\* The first place decides what is replaced.
LEMMA JsReplaceAt ==
  ASSUME NEW old \in Text, old # <<>>, NEW new \in Text, ~HasPattern(new), NEW t \in Text,
         NEW i \in 1..Len(t), At(t, i, old), \A k \in 1..(i - 1) : ~At(t, k, old)
  PROVE  /\ i + Len(old) \in 1..(Len(t) + 1)
         /\ jsReplace(old, new, t)
              = Cat(SubSeq(t, 1, i - 1), Cat(new, From(t, i + Len(old))))
<1>1. Len(t) \in Nat /\ DOMAIN t = 1..Len(t) /\ Len(old) \in Nat
  BY TextFacts
<1>2. i + Len(old) \in 1..(Len(t) + 1)
  BY <1>1 DEF At
<1>3. i \in Places(old, t) /\ \A k \in Places(old, t) : i <= k
  <2>1. \A k \in 1..Len(t) : ~(k \in 1..(i - 1)) => i <= k
    BY <1>1
  <2> QED  BY <1>1, <2>1 DEF Places
<1>4. (CHOOSE k \in Places(old, t) : \A l \in Places(old, t) : k <= l) = i
  <2>1. Places(old, t) \subseteq Nat
    BY <1>1 DEF Places
  <2>2. \A k, l \in Nat : k <= l /\ l <= k => k = l
    OBVIOUS
  <2>3. \A k \in Places(old, t) : (\A l \in Places(old, t) : k <= l) => k = i
    BY <1>3, <2>1, <2>2
  <2> QED  BY <1>3, <2>3
<1>5. Occurs(old, t)
  BY <1>3 DEF Occurs
<1> DEFINE before == SubSeq(t, 1, i - 1)
           after == From(t, i + Len(old))
<1>6. before \in Text /\ after \in Text
  <2>1. i - 1 \in 0..Len(t)
    BY <1>1
  <2>2. before \in Text
    BY <2>1, SubSeqFacts
  <2>3. after \in Text
    BY <1>2, FromFacts
  <2> QED  BY <2>2, <2>3
<1>7. Substituted(new, before, old, after) = new
  BY <1>6, SubstituteNothing
<1>8. after = SubSeq(t, i + Len(old), Len(t))
  BY DEF From
<1> HIDE DEF after
<1>9. jsReplace(old, new, t) = Cat(Cat(before, new), after)
  BY <1>4, <1>5, <1>7, <1>8, Zenon DEF jsReplace, Cat
<1> HIDE DEF before
<1>10. Cat(Cat(before, new), after) = Cat(before, Cat(new, after))
  BY <1>6, CatAssoc
<1> QED  BY <1>2, <1>9, <1>10 DEF before, after

\* The least place of a text that occurs.
LEMMA FirstPlace ==
  ASSUME NEW old \in Text, NEW t \in Text, Occurs(old, t)
  PROVE  \E i \in 1..Len(t) : At(t, i, old) /\ \A k \in 1..(i - 1) : ~At(t, k, old)
<1>1. Len(t) \in Nat /\ DOMAIN t = 1..Len(t)
  BY TextFacts
<1>2. Places(old, t) \in SUBSET Nat /\ Places(old, t) # {}
  BY <1>1 DEF Places, Occurs
<1>3. PICK i \in Places(old, t) : \A k \in Places(old, t) : i <= k
  BY <1>2, Least
<1>4. i \in 1..Len(t) /\ At(t, i, old)
  BY <1>1 DEF Places
<1>5. ASSUME NEW k \in 1..(i - 1) PROVE ~At(t, k, old)
  <2>1. k \in 1..Len(t) /\ ~(i <= k)
    BY <1>1, <1>4
  <2> QED  BY <1>1, <1>3, <2>1 DEF Places
<1> QED  BY <1>4, <1>5

\* A symbol at which the text does not begin is left alone,
LEMMA JsReplaceSkip ==
  ASSUME NEW old \in Text, old # <<>>, NEW new \in Text, ~HasPattern(new),
         NEW t \in Text, NEW x \in Symbols, ~At(Cons(x, t), 1, old)
  PROVE  jsReplace(old, new, Cons(x, t)) = Cons(x, jsReplace(old, new, t))
<1> DEFINE u == Cons(x, t)
<1>1. /\ u \in Text /\ Len(u) = Len(t) + 1 /\ Len(t) \in Nat /\ Len(old) \in Nat /\ u[1] = x
      /\ \A k \in 1..Len(t) : u[k + 1] = t[k]
  BY HeadFacts, TextFacts
<1>2. From(u, 2) = t
  BY TailOfCat
<1>3. ~At(u, 1, old)
  OBVIOUS
<1>4. Occurs(old, u) <=> Occurs(old, t)
  BY OccursTail
<1> HIDE DEF u
<1>5. \A k \in 1..Len(t) : At(t, k, old) <=> At(u, k + 1, old)
  <2> SUFFICES ASSUME NEW k \in 1..Len(t) PROVE At(t, k, old) <=> At(u, k + 1, old)
    OBVIOUS
  <2>1. 2 \in 1..(Len(u) + 1) /\ k \in 1..(Len(u) - 2 + 1)
    BY <1>1
  <2>2. At(From(u, 2), k, old) <=> At(u, 2 + k - 1, old)
    BY <1>1, <2>1, AtFrom
  <2>3. 2 + k - 1 = k + 1
    OBVIOUS
  <2> QED  BY <1>2, <2>2, <2>3
<1>6. CASE ~Occurs(old, t)
  BY <1>4, <1>6 DEF jsReplace, u
<1>7. CASE Occurs(old, t)
  <2>1. PICK i \in 1..Len(t) : At(t, i, old) /\ \A k \in 1..(i - 1) : ~At(t, k, old)
    BY <1>7, FirstPlace
  <2> DEFINE j == i + 1
             s == SubSeq(t, 1, i - 1)
             v == SubSeq(u, 1, j - 1)
             a == From(t, i + Len(old))
  <2>2. j \in 1..Len(u) /\ At(u, j, old)
    BY <1>1, <1>5, <2>1
  <2>3. \A k \in 1..(j - 1) : ~At(u, k, old)
    <3> SUFFICES ASSUME NEW k \in 1..(j - 1) PROVE ~At(u, k, old)
      OBVIOUS
    <3>1. CASE k = 1
      BY <1>3, <3>1
    <3>2. CASE k # 1
      <4>1. k - 1 \in 1..(i - 1) /\ k - 1 \in 1..Len(t) /\ k - 1 + 1 = k
        BY <1>1, <2>1, <3>2
      <4>2. ~At(t, k - 1, old)
        BY <2>1, <4>1
      <4>3. At(t, k - 1, old) <=> At(u, k - 1 + 1, old)
        BY <1>5, <4>1
      <4> QED  BY <4>1, <4>2, <4>3
    <3> QED  BY <3>1, <3>2
  <2>4. /\ jsReplace(old, new, t) = Cat(s, Cat(new, a))
        /\ i + Len(old) \in 1..(Len(t) + 1)
    BY <2>1, JsReplaceAt
  <2>5. jsReplace(old, new, u) = Cat(v, Cat(new, From(u, j + Len(old))))
    <3> HIDE DEF j
    <3> QED  BY <1>1, <2>2, <2>3, JsReplaceAt
  <2>6. From(u, j + Len(old)) = a
    <3> DEFINE k == i + Len(old)
    <3>1. k \in 1..(Len(t) + 1) /\ k + 1 \in 1..(Len(u) + 1) /\ j + Len(old) = k + 1
      BY <1>1, <2>4
    <3> HIDE DEF k, j
    <3>2. /\ From(t, k) \in Text /\ Len(From(t, k)) = Len(t) - k + 1
          /\ \A l \in 1..(Len(t) - k + 1) : From(t, k)[l] = t[k + l - 1]
      BY <3>1, FromFacts
    <3>3. /\ From(u, k + 1) \in Text /\ Len(From(u, k + 1)) = Len(u) - (k + 1) + 1
          /\ \A l \in 1..(Len(u) - (k + 1) + 1) : From(u, k + 1)[l] = u[k + 1 + l - 1]
      BY <1>1, <3>1, FromFacts
    <3>4. ASSUME NEW l \in 1..(Len(t) - k + 1)
          PROVE  From(t, k)[l] = From(u, k + 1)[l]
      <4>1. k + l - 1 \in 1..Len(t) /\ k + l - 1 + 1 = k + 1 + l - 1
            /\ l \in 1..(Len(u) - (k + 1) + 1)
        BY <1>1, <3>1
      <4>2. u[k + l - 1 + 1] = t[k + l - 1]
        BY <1>1, <4>1
      <4> QED  BY <3>2, <3>3, <4>1, <4>2
    <3>5. From(t, k) = From(u, k + 1)
      <4>1. Len(From(t, k)) = Len(From(u, k + 1))
        BY <1>1, <3>1, <3>2, <3>3
      <4> QED  BY <3>2, <3>3, <3>4, <4>1, TextEqual
    <3> QED  BY <3>1, <3>5 DEF k
  <2>7. s \in Text /\ a \in Text /\ v = Cons(x, s)
    <3>1. i - 1 \in 0..Len(t) /\ i \in 0..Len(u) /\ j - 1 = i /\ i \in Nat
      BY <1>1, <2>1
    <3>2. /\ s \in Text /\ Len(s) = i - 1
          /\ \A l \in 1..(i - 1) : s[l] = t[l]
      BY <3>1, SubSeqFacts
    <3>3. /\ v \in Text /\ Len(v) = i
          /\ \A l \in 1..i : v[l] = u[l]
      <4> HIDE DEF j
      <4> QED  BY <1>1, <3>1, SubSeqFacts
    <3>4. a \in Text
      BY <2>4, FromFacts
    <3> DEFINE w == Cons(x, s)
    <3> HIDE DEF s, v, a
    <3>5. w \in Text /\ Len(w) = Len(s) + 1 /\ w[1] = x /\ \A l \in 1..Len(s) : w[l + 1] = s[l]
      BY <3>2, HeadFacts
    <3> HIDE DEF w
    <3>6. ASSUME NEW l \in 1..i PROVE v[l] = w[l]
      <4>1. CASE l = 1
        BY <1>1, <3>3, <3>5, <4>1
      <4>2. CASE l # 1
        <5>1. l - 1 \in 1..(i - 1) /\ l - 1 \in 1..Len(t) /\ l - 1 + 1 = l
          BY <1>1, <2>1, <4>2
        <5>2. w[l - 1 + 1] = s[l - 1] /\ u[l - 1 + 1] = t[l - 1]
          BY <1>1, <3>2, <3>5, <5>1
        <5> QED  BY <3>2, <3>3, <5>1, <5>2
      <4> QED  BY <4>1, <4>2
    <3>7. v = w
      BY <3>1, <3>2, <3>3, <3>5, <3>6, TextEqual
    <3> QED  BY <3>2, <3>4, <3>7 DEF w
  <2> DEFINE na == Cat(new, a)
  <2>8. na \in Text
    BY <2>7, CatFacts
  <2> HIDE DEF v, s, a, na, j
  <2>9. Cat(Cons(x, s), na) = Cons(x, Cat(s, na))
    BY <2>7, <2>8, ConsCat
  <2> QED  BY <2>4, <2>5, <2>6, <2>7, <2>9 DEF na, u
<1> QED  BY <1>6, <1>7

\* and one at which it begins is replaced.
LEMMA JsReplaceStart ==
  ASSUME NEW old \in Text, old # <<>>, NEW new \in Text, ~HasPattern(new),
         NEW t \in Text, At(t, 1, old)
  PROVE  \E u \in Text : jsReplace(old, new, t) = Cat(new, u)
<1>1. Len(t) \in Nat /\ Len(old) \in Nat \ {0}
  BY TextFacts
<1>2. 1 \in 1..Len(t) /\ \A k \in 1..(1 - 1) : ~At(t, k, old)
  BY <1>1 DEF At
<1>3. /\ 1 + Len(old) \in 1..(Len(t) + 1)
      /\ jsReplace(old, new, t) = Cat(SubSeq(t, 1, 1 - 1), Cat(new, From(t, 1 + Len(old))))
  BY <1>2, JsReplaceAt
<1> DEFINE u == From(t, 1 + Len(old))
           s == SubSeq(t, 1, 1 - 1)
<1>4. u \in Text
  BY <1>3, FromFacts
<1>5. s = <<>>
  <2>1. 0 \in 0..Len(t) /\ 1 - 1 = 0
    BY <1>1
  <2>2. SubSeq(t, 1, 0) \in Text /\ Len(SubSeq(t, 1, 0)) = 0
    BY <2>1, SubSeqFacts
  <2>3. SubSeq(t, 1, 0) = <<>>
    BY <2>2, TextFacts
  <2> QED  BY <2>1, <2>3
<1> HIDE DEF u, s
<1>6. Cat(new, u) \in Text
  BY <1>4, CatFacts
<1>7. Cat(s, Cat(new, u)) = Cat(new, u)
  BY <1>5, <1>6, CatEmpty
<1> QED  BY <1>3, <1>4, <1>7 DEF u, s

JsPut(r) == Substituted(jsStdin(r.text), JsBefore, Markers["stdin"],
                        Cat(JsBetween, Cat(Markers["code"], JsAfter)))

\* The stdin data goes in first, the code after it.
LEMMA JsGeneratedBegins ==
  ASSUME NEW r \in RequestType, r.kind = "io", r.module = "javascript"
  PROVE  /\ JsPut(r) \in Text
         /\ Generated(r) = jsReplace(Markers["code"], Code(r), Cat(JsBefore, Cat(JsPut(r),
                             Cat(JsBetween, Cat(Markers["code"], JsAfter)))))
<1> DEFINE M == Markers["stdin"]
           N == Markers["code"]
           b == JsBefore
           m == JsBetween
           a == JsAfter
           x == jsStdin(r.text)
           y == Code(r)
<1>0. "code" \in Slots /\ "stdin" \in Slots /\ "stdin" # "code"
  BY DEF Slots
<1>1. M \in Text /\ N \in Text /\ M # <<>> /\ N # <<>>
  BY <1>0, MarkerFacts, Zenon
<1>2. b \in Text /\ m \in Text /\ a \in Text /\ x \in Text /\ y \in Text
  BY TemplateTexts, RequestFacts, FillTexts, CodeFacts, Zenon
<1>3. Clear(M, b)
  BY <1>0, TemplateTexts, Zenon
<1>4. r.kind # "tests"
  OBVIOUS
<1>5. Fills(r) = << <<"stdin", x>>, <<"code", y>> >>
  BY <1>4, Zenon DEF Fills, jsIOCapture
<1>6. Template(r.module, r.kind) = Parts(b, "stdin", m, "code", a)
  BY <1>4, TemplateIs, Zenon
<1> DEFINE T == Cat(m, Cat(N, a))
<1>7. T \in Text /\ Cat(Cat(Cat(Cat(b, M), m), N), a) = Cat(b, Cat(M, T))
  <2> HIDE DEF b, m, a, M, N
  <2>1. Cat(Cat(Cat(Cat(b, M), m), N), a) = Cat(b, Cat(M, Cat(m, Cat(N, a))))
    BY <1>1, <1>2, CatFive
  <2>2. Cat(N, a) \in Text
    BY <1>1, <1>2, CatFacts
  <2>3. T \in Text
    BY <1>2, <2>2, CatFacts
  <2> QED  BY <2>1, <2>3
<1>8. FillsIn(r, b, "stdin", m, "code", a, <<"stdin", x>>, <<"code", y>>)
  <2> HIDE DEF b, m, a, x, y, T
  <2> QED  BY <1>5, <1>6, GeneratedSteps
<1> DEFINE p == Substituted(x, b, M, T)
<1>9. jsReplace(M, x, Cat(b, Cat(M, T))) = Cat(b, Cat(p, T)) /\ p \in Text
  <2> HIDE DEF b, M, x, T
  <2> QED  BY <1>1, <1>2, <1>3, <1>7, JsReplaceFirst, SubstituteType
<1>10. p = JsPut(r)
  BY Zenon DEF JsPut
<1> HIDE DEF b, m, a, x, y, T, p
<1>11. Generated(r) = Replace(r.module, <<"code", y>>, Replace(r.module, <<"stdin", x>>,
                         Cat(b, Cat(M, T))))
  BY <1>7, <1>8, Zenon DEF FillsIn
<1>12. \A slot, new, t : Replace(r.module, <<slot, new>>, t) = jsReplace(Markers[slot], new, t)
  <2> SUFFICES ASSUME NEW slot, NEW new, NEW t
               PROVE  Replace(r.module, <<slot, new>>, t) = jsReplace(Markers[slot], new, t)
    OBVIOUS
  <2>1. <<slot, new>>[1] = slot /\ <<slot, new>>[2] = new
    OBVIOUS
  <2> QED  BY <2>1, Zenon DEF Replace
<1>13. Generated(r) = jsReplace(N, y, Cat(b, Cat(p, T)))
  <2> DEFINE u == Cat(b, Cat(M, T))
             v == Cat(b, Cat(p, T))
  <2>1. Replace(r.module, <<"stdin", x>>, u) = jsReplace(M, x, u)
    <3> HIDE DEF u
    <3> QED  BY <1>12, Zenon
  <2>2. Replace(r.module, <<"code", y>>, v) = jsReplace(N, y, v)
    <3> HIDE DEF v
    <3> QED  BY <1>12, Zenon
  <2>3. jsReplace(M, x, u) = v
    BY <1>9
  <2>4. Generated(r) = Replace(r.module, <<"code", y>>, Replace(r.module, <<"stdin", x>>, u))
    BY <1>11
  <2> HIDE DEF u, v, M, N
  <2>5. Generated(r) = jsReplace(N, y, v)
    BY <2>1, <2>2, <2>3, <2>4, Zenon
  <2> QED  BY <2>5 DEF v
<1> QED  BY <1>9, <1>10, <1>13, Zenon DEF b, m, a, y, T

LEMMA Four ==
  ASSUME NEW x \in Symbols, NEW y \in Symbols, NEW z \in Symbols, NEW w \in Symbols
  PROVE  <<x, y, z, w>> = Cons(x, Cons(y, Cons(z, <<w>>)))
<1> DEFINE p == <<x, y, z, w>>
           s == <<z, w>>
           t == Cons(y, s)
           u == Cons(x, t)
<1>1. p \in Text /\ Len(p) = 4 /\ p[1] = x /\ p[2] = y /\ p[3] = z /\ p[4] = w
  BY DEF Text
<1>2. s = Cons(z, <<w>>) /\ s \in Text /\ Len(s) = 2 /\ s[1] = z /\ s[2] = w
  BY Pair
<1> HIDE DEF p, s
<1>3. t \in Text /\ Len(t) = 3 /\ t[1] = y /\ \A i \in 1..2 : t[i + 1] = s[i]
  <2>1. t \in Text /\ Len(t) = Len(s) + 1 /\ t[1] = y /\ \A i \in 1..Len(s) : t[i + 1] = s[i]
    BY <1>2, HeadFacts
  <2> HIDE DEF t
  <2> QED  BY <1>2, <2>1
<1> HIDE DEF t
<1>4. u \in Text /\ Len(u) = 4 /\ u[1] = x /\ \A i \in 1..3 : u[i + 1] = t[i]
  <2>1. u \in Text /\ Len(u) = Len(t) + 1 /\ u[1] = x /\ \A i \in 1..Len(t) : u[i + 1] = t[i]
    BY <1>3, HeadFacts
  <2> HIDE DEF u
  <2> QED  BY <1>3, <2>1
<1> HIDE DEF u
<1>5. t[2] = z /\ t[3] = w
  <2>1. t[1 + 1] = s[1] /\ t[2 + 1] = s[2]
    BY <1>3
  <2> QED  BY <1>2, <2>1
<1>6. u[2] = y /\ u[3] = z /\ u[4] = w
  <2>1. u[1 + 1] = t[1] /\ u[2 + 1] = t[2] /\ u[3 + 1] = t[3]
    BY <1>4
  <2> QED  BY <1>3, <1>5, <2>1
<1>7. p = u
  <2>1. \A i \in 1..4 : i = 1 \/ i = 2 \/ i = 3 \/ i = 4
    OBVIOUS
  <2> QED  BY <1>1, <1>4, <1>6, <2>1, TextEqual
<1> QED  BY <1>2, <1>7 DEF p, t, u

Brace == "}"
Redirect == "redirect"

\* The text after the stdin data closes the JSON string and the string literal.
LEMMA BetweenFacts ==
  /\ Brace \in Symbols /\ Redirect \in Symbols /\ Brace \notin {Slash, Double, Single, Dollar}
  /\ <<Redirect>> \in Text
  /\ JsBetween = Cons(Double, Cons(Brace, Cons(Single, <<Redirect>>)))
<1>1. Brace \in Symbols /\ Redirect \in Symbols
  BY Zenon, SymbolsAssumption DEF CodeSymbols, Braces, Brace, Redirect
<1>2. Brace \notin {Slash, Double, Single, Dollar}
  BY Zenon DEF Brace, Slash, Double, Single, Dollar
<1>3. JsBetween = <<Double, Brace, Single, Redirect>>
  BY Zenon DEF JsBetween, Double, Brace, Single, Redirect
<1>4. <<Redirect>> \in Text
  BY <1>1, SymbolFacts
<1>5. <<Double, Brace, Single, Redirect>>
        = Cons(Double, Cons(Brace, Cons(Single, <<Redirect>>)))
  BY <1>1, NameFacts, Four
<1> QED  BY <1>1, <1>2, <1>3, <1>4, <1>5, Zenon

JsInner(t) == Literal(t, Backslash, <<Single>>)
JsOuter(t) == Literal(t, Backslash, <<Double>>)

LEMMA BetweenReads ==
  ASSUME NEW z \in Text
  PROVE  JsInner(Cat(JsBetween, z)) = Cons(Double, <<Brace>>)
<1>1. /\ {Double, Brace, Single, Slash} \subseteq Symbols /\ <<Redirect>> \in Text
      /\ Single \notin {Slash, Double, Brace} /\ Slash \notin {Double, Brace}
      /\ <<Single>> \in Text /\ <<Single>> # <<>> /\ <<Single>>[1] = Single
      /\ IsEscapes(Backslash) /\ Backslash.lead = Slash
  BY BetweenFacts, NameFacts, SymbolFacts, EscapesFacts
<1> DEFINE v == Cat(<<Redirect>>, z)
<1>2. v \in Text /\ Cons(Single, v) \in Text /\ Cons(Brace, Cons(Single, v)) \in Text
  BY <1>1, CatFacts, HeadFacts
<1>3. Cat(JsBetween, z) = Cons(Double, Cons(Brace, Cons(Single, v)))
  <2> DEFINE R == <<Redirect>>
             sR == Cons(Single, R)
             bsR == Cons(Brace, sR)
  <2>1. R \in Text /\ sR \in Text /\ bsR \in Text
    BY <1>1, HeadFacts
  <2>2. JsBetween = Cons(Double, bsR)
    BY BetweenFacts
  <2> HIDE DEF R
  <2>3. Cat(sR, z) = Cons(Single, Cat(R, z))
    BY <1>1, <2>1, ConsCat
  <2> HIDE DEF sR
  <2>4. Cat(bsR, z) = Cons(Brace, Cat(sR, z))
    BY <1>1, <2>1, ConsCat
  <2> HIDE DEF bsR
  <2>5. Cat(Cons(Double, bsR), z) = Cons(Double, Cat(bsR, z))
    BY <1>1, <2>1, ConsCat
  <2> QED  BY <2>2, <2>3, <2>4, <2>5 DEF R
<1> HIDE DEF v
<1>4. JsInner(Cons(Single, v)) = <<>>
  BY <1>1, <1>2, LiteralCloseSymbol DEF JsInner
<1>5. JsInner(Cons(Brace, Cons(Single, v))) = Cons(Brace, <<>>)
  BY <1>1, <1>2, <1>4, LiteralPlain DEF JsInner
<1>6. JsInner(Cons(Double, Cons(Brace, Cons(Single, v)))) = Cons(Double, Cons(Brace, <<>>))
  BY <1>1, <1>2, <1>5, LiteralPlain DEF JsInner
<1>7. Cons(Brace, <<>>) = <<Brace>>
  <2>1. <<Brace>> \in Text
    BY <1>1, SymbolFacts
  <2>2. Cat(<<Brace>>, <<>>) = <<Brace>>
    BY <2>1, CatEmpty
  <2> QED  BY <2>2 DEF Cons
<1> QED  BY <1>3, <1>6, <1>7

\* Reading on at the end of the stdin data yields nothing.
LEMMA BetweenEnds ==
  ASSUME NEW z \in Text
  PROVE  JsOuter(JsInner(Cat(JsBetween, z))) = <<>>
<1>1. /\ Double \in Symbols /\ <<Brace>> \in Text /\ Double # Slash
      /\ IsEscapes(Backslash) /\ Backslash.lead = Slash
  BY BetweenFacts, NameFacts, SymbolFacts, EscapesFacts
<1>2. Literal(Cons(Double, <<Brace>>), Backslash, <<Double>>) = <<>>
  BY <1>1, LiteralCloseSymbol
<1> QED  BY <1>2, BetweenReads DEF JsOuter

\* Stdin data without quotes and $ patterns arrives, whatever the source is.
LEMMA JsReceived ==
  ASSUME NEW r \in RequestType, r.kind = "io", r.module = "javascript",
         ~Occurs(<<Single>>, r.text), ~HasPattern(r.text)
  PROVE  Received(r, Generated(r)) = r.text
<1> DEFINE N == Markers["code"]
           b == JsBefore
           m == JsBetween
           a == JsAfter
           t == r.text
           x == jsStdin(t)
           y == Code(r)
           Na == Cat(N, a)
           T == Cat(m, Na)
<1>0. "code" \in Slots
  BY DEF Slots
<1>1. N \in Text /\ N # <<>>
  BY <1>0, MarkerFacts, Zenon
<1>2. b \in Text /\ m \in Text /\ a \in Text /\ x \in Text /\ y \in Text /\ t \in Text
  BY TemplateTexts, RequestFacts, FillTexts, CodeFacts, Zenon
<1>3. Clear(N, b)
  BY <1>0, TemplateTexts, Zenon
<1>4. ~HasPattern(x)
  BY <1>2, JsStdinPattern
<1>5. ~Occurs(N, x)
  <2> HIDE DEF x
  <2> QED  BY <1>2, <1>4, NoMarker
<1>6. Clear(N, Cat(x, m))
  BY <1>0, <1>2, <1>5, TemplateTexts, Zenon
<1>7. Len(b) = 1
  BY DEF JsBefore
<1>8. Na \in Text /\ T \in Text
  <2> HIDE DEF N, a, m
  <2>1. Na \in Text
    BY <1>1, <1>2, CatFacts
  <2> HIDE DEF Na
  <2> QED  BY <1>2, <2>1, CatFacts
<1>9. JsPut(r) = x
  <2>1. Markers["stdin"] \in Text
    BY MarkerFacts, Zenon DEF Slots
  <2>2. JsPut(r) = Substituted(x, b, Markers["stdin"], T)
    BY Zenon DEF JsPut
  <2> HIDE DEF x, b, T
  <2> QED  BY <1>2, <1>4, <1>8, <2>1, <2>2, SubstituteNothing
<1>10. Generated(r) = jsReplace(N, y, Cat(b, Cat(x, T)))
  <2>1. Generated(r) = jsReplace(N, y, Cat(b, Cat(JsPut(r), T)))
    BY JsGeneratedBegins
  <2> QED  BY <1>9, <2>1, Zenon
<1> HIDE DEF N, b, m, a, x, y
<1> DEFINE xm == Cat(x, m)
           s == Cat(b, xm)
           z == Cat(Substituted(y, s, N, a), a)
           u == Cat(x, Cat(m, z))
<1>11. xm \in Text /\ s \in Text /\ z \in Text /\ Clear(N, s)
  <2>1. xm \in Text
    BY <1>2, CatFacts
  <2> HIDE DEF xm
  <2>2. s \in Text /\ Clear(N, s)
    BY <1>1, <1>2, <1>3, <1>6, <2>1, CatFacts, ClearConcat DEF xm
  <2> HIDE DEF s
  <2>3. Substituted(y, s, N, a) \in Text
    BY <1>1, <1>2, <2>2, SubstituteType
  <2> QED  BY <1>2, <2>1, <2>2, <2>3, CatFacts
<1>12. Cat(b, Cat(x, T)) = Cat(s, Na)
  <2> HIDE DEF Na
  <2>1. Cat(xm, Na) = Cat(x, Cat(m, Na))
    BY <1>2, <1>8, CatAssoc
  <2> HIDE DEF xm
  <2>2. Cat(Cat(b, xm), Na) = Cat(b, Cat(xm, Na))
    BY <1>2, <1>8, <1>11, CatAssoc
  <2> QED  BY <2>1, <2>2
<1>13. jsReplace(N, y, Cat(s, Na)) = Cat(s, z)
  <2> HIDE DEF s
  <2> QED  BY <1>1, <1>2, <1>11, JsReplaceFirst
<1> HIDE DEF T, Na, z
<1>14. Cat(s, z) = Cat(b, u) /\ u \in Text
  <2>1. Cat(xm, z) = Cat(x, Cat(m, z))
    BY <1>2, <1>11, CatAssoc
  <2>2. Cat(m, z) \in Text /\ u \in Text
    BY <1>2, <1>11, CatFacts
  <2> HIDE DEF xm
  <2>3. Cat(Cat(b, xm), z) = Cat(b, Cat(xm, z))
    BY <1>2, <1>11, CatAssoc
  <2> QED  BY <2>1, <2>2, <2>3
<1> HIDE DEF s
<1>15. From(Generated(r), 2) = u
  <2> HIDE DEF u
  <2>1. From(Cat(b, u), Len(b) + 1) = u
    BY <1>2, <1>14, FromConcat
  <2>2. Generated(r) = Cat(b, u)
    BY <1>10, <1>12, <1>13, <1>14
  <2>3. Len(b) + 1 = 2
    BY <1>7 DEF b
  <2> QED  BY <2>1, <2>2, <2>3
<1> DEFINE mz == Cat(m, z)
<1>16. mz \in Text
  BY <1>2, <1>11, CatFacts
<1>17. JsInner(mz) = Cons(Double, <<Brace>>)
  BY <1>11, BetweenReads DEF m
<1>18. JsInner(u) = Cat(json(t), Cons(Double, <<Brace>>))
  <2> HIDE DEF mz
  <2>1. JsInner(Cat(jsStdin(t), mz)) = Cat(json(t), JsInner(mz))
    BY <1>2, <1>16, JsStdinReads DEF JsInner
  <2> QED  BY <1>17, <2>1 DEF x, mz
<1>19. JsOuter(Cat(json(t), Cons(Double, <<Brace>>))) = t
  <2> DEFINE e == Cons(Double, <<Brace>>)
  <2>1. e \in Text
    BY BetweenFacts, NameFacts, SymbolFacts, HeadFacts
  <2>2. JsOuter(e) = <<>>
    BY <1>11, <1>17, BetweenEnds DEF mz, m
  <2> HIDE DEF e, t
  <2>3. JsOuter(Cat(json(t), e)) = Cat(t, JsOuter(e))
    BY <1>2, <2>1, JsonReads DEF JsOuter
  <2>4. Cat(t, <<>>) = t
    BY <1>2, CatEmpty
  <2> QED  BY <2>2, <2>3, <2>4 DEF e
<1>20. Received(r, Generated(r)) = JsOuter(JsInner(From(Generated(r), 2)))
  BY ReceivedIs DEF JsInner, JsOuter
<1> QED  BY <1>15, <1>18, <1>19, <1>20

\* Stdin data with quotes or $ patterns does not arrive: reading puts out dollars only where
\* they are read.
JsRead(t) == JsOuter(JsInner(t))

LEMMA JsReadFacts ==
  ASSUME NEW t \in Text
  PROVE  /\ JsRead(t) \in Text
         /\ JsRead(Cons(Slash, Cons(Slash, Cons(Slash, Cons(Slash, t))))) = Cons(Slash, JsRead(t))
         /\ JsRead(Cons(Slash, Cons(Slash, Cons(Double, t)))) = Cons(Double, JsRead(t))
         /\ JsRead(Cons(Slash, Cons(Slash, Cons(Letter, t)))) = Cons(Line, JsRead(t))
         /\ \A x \in Symbols \ {Slash, Double, Single} : JsRead(Cons(x, t)) = Cons(x, JsRead(t))
         /\ JsRead(Cons(Single, t)) = <<"unterminated">>
<1>1. /\ {Slash, Double, Single, Letter, Line} \subseteq Symbols
      /\ Single \notin {Slash, Double, Letter} /\ Slash \notin {Double, Letter}
      /\ <<Single>> \in Text /\ <<Single>> # <<>> /\ <<Single>>[1] = Single
      /\ <<Double>> \in Text /\ <<Double>> # <<>> /\ <<Double>>[1] = Double
  BY NameFacts, SymbolFacts
<1>2. /\ IsEscapes(Backslash) /\ Backslash.lead = Slash
      /\ DOMAIN Backslash.meaning = {Slash, Single, Double, Letter}
      /\ Backslash.meaning[Slash] = Slash
      /\ Backslash.meaning[Double] = Double /\ Backslash.meaning[Letter] = Line
  BY EscapesFacts
<1>3. \A v \in Text : JsInner(v) \in Text /\ JsOuter(v) \in Text
  BY <1>1, <1>2, LiteralType DEF JsInner, JsOuter
<1>4. \A v \in Text : /\ JsInner(Cons(Slash, Cons(Slash, v))) = Cons(Slash, JsInner(v))
                      /\ \A x \in Symbols : x # Slash /\ x # Single
                           => JsInner(Cons(x, v)) = Cons(x, JsInner(v))
  BY <1>1, <1>2, LiteralEscape, LiteralPlain DEF JsInner
<1>5. \A v \in Text : /\ JsOuter(Cons(Slash, Cons(Slash, v))) = Cons(Slash, JsOuter(v))
                      /\ JsOuter(Cons(Slash, Cons(Double, v))) = Cons(Double, JsOuter(v))
                      /\ JsOuter(Cons(Slash, Cons(Letter, v))) = Cons(Line, JsOuter(v))
                      /\ \A x \in Symbols : x # Slash /\ x # Double
                           => JsOuter(Cons(x, v)) = Cons(x, JsOuter(v))
  BY <1>1, <1>2, LiteralEscape, LiteralPlain DEF JsOuter
<1>6. JsInner(Cons(Single, t)) = <<>>
  BY <1>1, <1>2, LiteralCloseSymbol DEF JsInner
<1>7. JsOuter(<<>>) = <<"unterminated">>
  BY <1>1, <1>2, LiteralEmpty DEF JsOuter
<1> DEFINE j == JsInner(t)
<1>8. j \in Text /\ JsInner(t) = j
  BY <1>3
<1>9. \A x \in Symbols, v \in Text : Cons(x, v) \in Text
  BY HeadFacts
<1> HIDE DEF j
<1>10. JsInner(Cons(Slash, Cons(Slash, Cons(Slash, Cons(Slash, t))))) = Cons(Slash, Cons(Slash, j))
  <2> DEFINE v == Cons(Slash, Cons(Slash, t))
  <2>1. v \in Text /\ JsInner(v) = Cons(Slash, j)
    BY <1>1, <1>4, <1>8, <1>9
  <2> HIDE DEF v
  <2>2. JsInner(Cons(Slash, Cons(Slash, v))) = Cons(Slash, JsInner(v))
    BY <1>4, <2>1
  <2> QED  BY <2>1, <2>2 DEF v
<1>11. \A x \in {Double, Letter} : JsInner(Cons(Slash, Cons(Slash, Cons(x, t)))) = Cons(Slash, Cons(x, j))
  <2> SUFFICES ASSUME NEW x \in {Double, Letter}
               PROVE  JsInner(Cons(Slash, Cons(Slash, Cons(x, t)))) = Cons(Slash, Cons(x, j))
    OBVIOUS
  <2> DEFINE v == Cons(x, t)
  <2>1. v \in Text /\ JsInner(v) = Cons(x, j)
    BY <1>1, <1>4, <1>8, <1>9
  <2> HIDE DEF v
  <2>2. JsInner(Cons(Slash, Cons(Slash, v))) = Cons(Slash, JsInner(v))
    BY <1>4, <2>1
  <2> QED  BY <2>1, <2>2 DEF v
<1>12. \A x \in Symbols \ {Slash, Double, Single} : JsInner(Cons(x, t)) = Cons(x, j)
  BY <1>4, <1>8
<1>13. JsRead(t) = JsOuter(j) /\ JsRead(t) \in Text
  BY <1>3, <1>8 DEF JsRead
<1>14. JsRead(Cons(Single, t)) = <<"unterminated">>
  BY <1>6, <1>7 DEF JsRead
<1>15. \A x \in Symbols \ {Slash, Double, Single} : JsRead(Cons(x, t)) = Cons(x, JsRead(t))
  BY <1>5, <1>8, <1>12, <1>13 DEF JsRead
<1>16. JsRead(Cons(Slash, Cons(Slash, Cons(Slash, Cons(Slash, t))))) = Cons(Slash, JsRead(t))
  BY <1>5, <1>8, <1>10, <1>13 DEF JsRead
<1>17. /\ JsRead(Cons(Slash, Cons(Slash, Cons(Double, t)))) = Cons(Double, JsRead(t))
       /\ JsRead(Cons(Slash, Cons(Slash, Cons(Letter, t)))) = Cons(Line, JsRead(t))
  BY <1>5, <1>8, <1>11, <1>13 DEF JsRead
<1> QED  BY <1>13, <1>14, <1>15, <1>16, <1>17

LEMMA DollarLiteral ==
  ASSUME NEW c \in {Single, Double}, NEW t \in Text, NEW w \in Text,
         Literal(t, Backslash, <<c>>) = Cons(Dollar, w)
  PROVE  \E u \in Text : t = Cons(Dollar, u) /\ w = Literal(u, Backslash, <<c>>)
<1> DEFINE L(v) == Literal(v, Backslash, <<c>>)
<1>1. /\ {Slash, Double, Single, Letter, Line, Dollar} \subseteq Symbols
      /\ c \in Symbols /\ c # Slash /\ c # Dollar
      /\ Dollar \notin {Slash, Double, Single, Letter, Line}
      /\ <<c>> \in Text /\ <<c>> # <<>> /\ <<c>>[1] = c
  BY NameFacts, SymbolFacts
<1>2. /\ IsEscapes(Backslash) /\ Backslash.lead = Slash
      /\ DOMAIN Backslash.meaning = {Slash, Single, Double, Letter}
      /\ \A x \in {Slash, Single, Double, Letter} :
           Backslash.meaning[x] \in {Slash, Single, Double, Line}
  BY EscapesFacts
<1>3. \A v \in Text : L(v) \in Text
  BY <1>1, <1>2, LiteralType
<1>4. t # <<>>
  <2>1. L(<<>>) = <<"unterminated">>
    BY <1>1, <1>2, LiteralEmpty
  <2>2. <<"unterminated">>[1] # Dollar
    BY DEF Dollar
  <2>3. Cons(Dollar, w)[1] = Dollar
    BY <1>1, HeadFacts
  <2> QED  BY <2>1, <2>2, <2>3
<1> DEFINE x == t[1]
           u == From(t, 2)
<1>5. x \in Symbols /\ u \in Text /\ t = Cons(x, u)
  BY <1>4, HeadAndRest
<1> HIDE DEF x, u
<1>6. \A y \in Symbols, v \in Text : L(t) = Cons(y, v) => y = Dollar /\ v = w
  BY <1>1, ConsOne
<1>7. x # c
  <2> SUFFICES ASSUME x = c PROVE FALSE
    OBVIOUS
  <2>1. L(Cons(c, u)) = <<>>
    BY <1>1, <1>2, <1>5, LiteralCloseSymbol
  <2>2. Cons(Dollar, w) # <<>>
    BY <1>1, HeadFacts
  <2> QED  BY <1>5, <2>1, <2>2
<1>8. x # Slash
  <2> SUFFICES ASSUME x = Slash PROVE FALSE
    OBVIOUS
  <2>1. CASE u # <<>> /\ u[1] \in DOMAIN Backslash.meaning
    <3> DEFINE y == u[1]
               v == From(u, 2)
    <3>1. y \in DOMAIN Backslash.meaning /\ v \in Text /\ u = Cons(y, v)
      BY <1>5, <2>1, HeadAndRest
    <3> HIDE DEF y, v
    <3>2. L(Cons(Slash, Cons(y, v))) = Cons(Backslash.meaning[y], L(v))
      BY <1>1, <1>2, <3>1, LiteralEscape
    <3>3. Backslash.meaning[y] \in {Slash, Single, Double, Line}
      BY <1>2, <3>1
    <3>4. L(t) = Cons(Backslash.meaning[y], L(v))
      BY <1>5, <3>1, <3>2
    <3>5. L(v) \in Text
      BY <1>3, <3>1
    <3> HIDE DEF L
    <3> QED  BY <1>1, <1>6, <3>3, <3>4, <3>5
  <2>2. CASE u = <<>> \/ u[1] \notin DOMAIN Backslash.meaning
    <3>1. /\ t[1] = Slash /\ Len(t) = Len(u) + 1 /\ Len(u) \in Nat
          /\ \A i \in 1..Len(u) : t[i + 1] = u[i]
      <4> DEFINE k == Cons(Slash, u)
      <4>1. /\ k[1] = Slash /\ Len(k) = Len(u) + 1
            /\ \A i \in 1..Len(u) : k[i + 1] = u[i]
        BY <1>1, <1>5, HeadFacts
      <4>2. k = t
        BY <1>5
      <4>3. Len(u) \in Nat
        BY <1>5, TextFacts
      <4> HIDE DEF k
      <4> QED  BY <4>1, <4>2, <4>3
    <3>2. u # <<>> => t[2] = u[1]
      <4>1. u # <<>> => 1 \in 1..Len(u)
        BY <1>5, <3>1, TextFacts
      <4> QED  BY <3>1, <4>1
    <3>3. u = <<>> => Len(t) = 1
      BY <1>5, <3>1, TextFacts
    <3>4. ~EscapeAt(t, 1, Backslash)
      BY <2>2, <3>2, <3>3 DEF EscapeAt
    <3>5. ~At(t, 1, <<c>>)
      <4> DEFINE p == <<c>>
      <4>1. 1 \in DOMAIN p /\ p[1] = c
        OBVIOUS
      <4> HIDE DEF p
      <4>2. At(t, 1, p) => t[1 + 1 - 1] = c
        BY <4>1 DEF At
      <4> QED  BY <1>1, <3>1, <4>2 DEF p
    <3>6. L(Cons(Slash, u)) = Cons(Slash, L(u))
      BY <1>1, <1>2, <1>5, <3>4, <3>5, LiteralCopy
    <3>7. L(t) = Cons(Slash, L(u)) /\ L(u) \in Text
      BY <1>3, <1>5, <3>6
    <3> HIDE DEF L
    <3> QED  BY <1>1, <1>6, <3>7
  <2> QED  BY <2>1, <2>2
<1>9. L(Cons(x, u)) = Cons(x, L(u))
  BY <1>1, <1>2, <1>5, <1>7, <1>8, LiteralPlain
<1>10. L(t) = Cons(x, L(u)) /\ L(u) \in Text
  BY <1>3, <1>5, <1>9
<1>11. x = Dollar /\ L(u) = w
  <2> HIDE DEF L
  <2> QED  BY <1>5, <1>6, <1>10
<1> QED  BY <1>5, <1>11

\* Two dollars are read only where two dollars are.
LEMMA DollarsRead ==
  ASSUME NEW t \in Text, NEW w \in Text, JsRead(t) = Cons(Dollar, Cons(Dollar, w))
  PROVE  \E u \in Text : t = Cons(Dollar, Cons(Dollar, u))
<1>1. \A v \in Text : JsInner(v) \in Text /\ JsOuter(v) \in Text
  <2>1. IsEscapes(Backslash) /\ <<Single>> \in Text /\ <<Double>> \in Text
    BY EscapesFacts, NameFacts, SymbolFacts
  <2> QED  BY <2>1, LiteralType DEF JsInner, JsOuter
<1>2. \A v, z \in Text : /\ JsInner(v) = Cons(Dollar, z)
                              => \E u \in Text : v = Cons(Dollar, u) /\ z = JsInner(u)
                         /\ JsOuter(v) = Cons(Dollar, z)
                              => \E u \in Text : v = Cons(Dollar, u) /\ z = JsOuter(u)
  <2>1. ASSUME NEW v \in Text, NEW z \in Text, JsInner(v) = Cons(Dollar, z)
        PROVE  \E u \in Text : v = Cons(Dollar, u) /\ z = JsInner(u)
    BY <2>1, DollarLiteral DEF JsInner
  <2>2. ASSUME NEW v \in Text, NEW z \in Text, JsOuter(v) = Cons(Dollar, z)
        PROVE  \E u \in Text : v = Cons(Dollar, u) /\ z = JsOuter(u)
    BY <2>2, DollarLiteral DEF JsOuter
  <2> QED  BY <2>1, <2>2, Zenon
<1> DEFINE dw == Cons(Dollar, w)
<1>3. Dollar \in Symbols /\ dw \in Text
  BY NameFacts, HeadFacts
<1>4. JsOuter(JsInner(t)) = Cons(Dollar, dw) /\ JsInner(t) \in Text
  BY <1>1 DEF JsRead
<1>5. PICK a \in Text : JsInner(t) = Cons(Dollar, a) /\ dw = JsOuter(a)
  <2> HIDE DEF dw
  <2> QED  BY <1>2, <1>3, <1>4
<1>6. PICK b \in Text : a = Cons(Dollar, b) /\ w = JsOuter(b)
  BY <1>2, <1>5
<1>7. PICK e \in Text : t = Cons(Dollar, e) /\ a = JsInner(e)
  BY <1>2, <1>5
<1>8. JsInner(e) = Cons(Dollar, b)
  BY <1>6, <1>7
<1>9. \E f \in Text : e = Cons(Dollar, f)
  BY <1>2, <1>6, <1>7, <1>8
<1> QED  BY <1>7, <1>9

\* What the stdin data becomes by its $ patterns, and the program by the code y.
JsRest == Cat(JsBetween, Cat(Markers["code"], JsAfter))
JsFilled(q) == Substituted(jsStdin(q), JsBefore, Markers["stdin"], JsRest)

LEMMA JsRestFacts ==
  /\ JsRest \in Text /\ JsBefore \in Text /\ JsBetween \in Text /\ JsAfter \in Text
  /\ Markers["code"] \in Text /\ Markers["code"] # <<>> /\ Markers["stdin"] \in Text
<1> DEFINE N == Markers["code"]
           Na == Cat(N, JsAfter)
<1>1. N \in Text /\ N # <<>> /\ Markers["stdin"] \in Text
  BY MarkerFacts, Zenon DEF Slots
<1>2. JsBefore \in Text /\ JsBetween \in Text /\ JsAfter \in Text
  BY TemplateTexts, Zenon
<1> HIDE DEF N
<1>3. Na \in Text
  BY <1>1, <1>2, CatFacts
<1>4. JsRest = Cat(JsBetween, Na)
  BY DEF JsRest, N
<1> HIDE DEF Na
<1>5. JsRest \in Text
  BY <1>2, <1>3, <1>4, CatFacts
<1> QED  BY <1>1, <1>2, <1>5 DEF N

LEMMA JsFilledPlain ==
  ASSUME NEW q \in Text
  PROVE  /\ JsFilled(q) \in Text /\ JsFilled(<<>>) = <<>>
         /\ JsFilled(Cons(Slash, q))
              = Cons(Slash, Cons(Slash, Cons(Slash, Cons(Slash, JsFilled(q)))))
         /\ JsFilled(Cons(Double, q)) = Cons(Slash, Cons(Slash, Cons(Double, JsFilled(q))))
         /\ JsFilled(Cons(Line, q)) = Cons(Slash, Cons(Slash, Cons(Letter, JsFilled(q))))
         /\ \A x \in Symbols \ {Slash, Double, Line, Dollar} :
              JsFilled(Cons(x, q)) = Cons(x, JsFilled(q))
         /\ ~PatternAt(Cons(Dollar, q), 1)
              => JsFilled(Cons(Dollar, q)) = Cons(Dollar, JsFilled(q))
<1> DEFINE F(t) == Substituted(t, JsBefore, Markers["stdin"], JsRest)
           j == jsStdin(q)
<1>1. j \in Text /\ jsStdin(<<>>) = <<>> /\ JsFilled(q) = F(j)
  BY JsStdinFacts DEF JsFilled
<1>2. \A t \in Text : F(t) \in Text /\ F(<<>>) = <<>>
  BY JsRestFacts, SubstituteType
<1>3. \A t \in Text, x \in Symbols : ~PatternAt(Cons(x, t), 1) => F(Cons(x, t)) = Cons(x, F(t))
  BY JsRestFacts, SubstituteCopy
<1>4. {Slash, Double, Line, Letter, Dollar} \subseteq Symbols /\ Dollar = "$"
      /\ Dollar \notin {Slash, Double, Line, Letter} /\ Slash \notin PatternSymbols
  BY NameFacts DEF Dollar, Slash, PatternSymbols
<1>5. \A t \in Text, x \in Symbols \ {Dollar} : F(Cons(x, t)) = Cons(x, F(t))
  BY <1>3, <1>4, PatternHead
<1>6. \A t : JsFilled(t) = F(jsStdin(t))
  BY DEF JsFilled
<1>7. /\ jsStdin(Cons(Slash, q)) = Cons(Slash, Cons(Slash, Cons(Slash, Cons(Slash, j))))
      /\ jsStdin(Cons(Double, q)) = Cons(Slash, Cons(Slash, Cons(Double, j)))
      /\ jsStdin(Cons(Line, q)) = Cons(Slash, Cons(Slash, Cons(Letter, j)))
      /\ \A x \in Symbols \ {Slash, Double, Line} : jsStdin(Cons(x, q)) = Cons(x, j)
  BY JsStdinFacts
<1>8. \A x \in Symbols, t \in Text : Cons(x, t) \in Text
  BY HeadFacts
<1>9. ~PatternAt(Cons(Dollar, q), 1) => ~PatternAt(Cons(Dollar, j), 1)
  <2> SUFFICES ASSUME ~PatternAt(Cons(Dollar, q), 1) PROVE ~PatternAt(Cons(Dollar, j), 1)
    OBVIOUS
  <2>1. q = <<>> \/ q[1] \notin PatternSymbols
    BY <1>4, PatternHead
  <2>2. j = <<>> \/ j[1] \notin PatternSymbols
    BY <1>1, <1>4, <2>1, JsStdinFirst
  <2> HIDE DEF j
  <2> QED  BY <1>1, <1>4, <2>2, PatternHead
<1> HIDE DEF F, j
<1>10. JsFilled(Cons(Slash, q)) = Cons(Slash, Cons(Slash, Cons(Slash, Cons(Slash, F(j)))))
  <2> DEFINE a == Cons(Slash, j)
             b == Cons(Slash, a)
             c == Cons(Slash, b)
  <2>1. a \in Text /\ b \in Text /\ c \in Text
    BY <1>1, <1>4, <1>8
  <2>2. F(a) = Cons(Slash, F(j))
    BY <1>1, <1>4, <1>5
  <2> HIDE DEF a
  <2>3. F(b) = Cons(Slash, F(a))
    BY <1>4, <1>5, <2>1
  <2> HIDE DEF b
  <2>4. F(c) = Cons(Slash, F(b))
    BY <1>4, <1>5, <2>1
  <2> HIDE DEF c
  <2>5. F(Cons(Slash, c)) = Cons(Slash, F(c))
    BY <1>4, <1>5, <2>1
  <2>6. jsStdin(Cons(Slash, q)) = Cons(Slash, c)
    BY <1>7 DEF a, b, c
  <2> QED  BY <1>6, <2>2, <2>3, <2>4, <2>5, <2>6
<1>11. \A y \in {Double, Letter} :
         F(Cons(Slash, Cons(Slash, Cons(y, j)))) = Cons(Slash, Cons(Slash, Cons(y, F(j))))
  <2> SUFFICES ASSUME NEW y \in {Double, Letter}
               PROVE  F(Cons(Slash, Cons(Slash, Cons(y, j)))) = Cons(Slash, Cons(Slash, Cons(y, F(j))))
    OBVIOUS
  <2> DEFINE a == Cons(y, j)
             b == Cons(Slash, a)
  <2>1. a \in Text /\ b \in Text
    BY <1>1, <1>4, <1>8
  <2>2. F(a) = Cons(y, F(j))
    BY <1>1, <1>4, <1>5
  <2> HIDE DEF a
  <2>3. F(b) = Cons(Slash, F(a))
    BY <1>4, <1>5, <2>1
  <2> HIDE DEF b
  <2>4. F(Cons(Slash, b)) = Cons(Slash, F(b))
    BY <1>4, <1>5, <2>1
  <2> QED  BY <2>2, <2>3, <2>4 DEF a, b
<1>12. /\ JsFilled(Cons(Double, q)) = Cons(Slash, Cons(Slash, Cons(Double, F(j))))
       /\ JsFilled(Cons(Line, q)) = Cons(Slash, Cons(Slash, Cons(Letter, F(j))))
  BY <1>6, <1>7, <1>11
<1>13. \A x \in Symbols \ {Slash, Double, Line, Dollar} : JsFilled(Cons(x, q)) = Cons(x, F(j))
  BY <1>1, <1>5, <1>6, <1>7
<1>14. ~PatternAt(Cons(Dollar, q), 1) => JsFilled(Cons(Dollar, q)) = Cons(Dollar, F(j))
  <2>1. jsStdin(Cons(Dollar, q)) = Cons(Dollar, j)
    BY <1>4, <1>7
  <2> QED  BY <1>1, <1>3, <1>4, <1>6, <1>9, <2>1
<1> QED  BY <1>1, <1>2, <1>6, <1>10, <1>12, <1>13, <1>14

LEMMA JsFilledPattern ==
  ASSUME NEW q \in Text
  PROVE  /\ JsFilled(Cons(Dollar, Cons(Dollar, q))) = Cons(Dollar, JsFilled(q))
         /\ JsFilled(Cons(Dollar, Cons("&", q))) = Cat(Markers["stdin"], JsFilled(q))
         /\ JsFilled(Cons(Dollar, Cons("BT", q))) = Cat(JsBefore, JsFilled(q))
         /\ JsFilled(Cons(Dollar, Cons("'", q))) = Cat(JsRest, JsFilled(q))
<1> DEFINE M == Markers["stdin"]
           F(t) == Substituted(t, JsBefore, M, JsRest)
           j == jsStdin(q)
<1>1. j \in Text /\ M \in Text /\ JsBefore \in Text /\ JsRest \in Text
  BY JsStdinFacts, JsRestFacts
<1>2. /\ PatternSymbols \subseteq Symbols /\ Dollar = "$" /\ Dollar \in Symbols
      /\ \A c \in PatternSymbols : c \notin {Slash, Double, Line}
      /\ Dollar \notin {Slash, Double, Line}
  <2>1. PatternSymbols \subseteq Symbols
    BY Zenon, CodeSymbolFacts DEF CodeSymbols, PatternSymbols
  <2> QED  BY <2>1, NameFacts DEF Dollar, PatternSymbols, Slash, Double, Line
<1>3. \A c \in PatternSymbols : jsStdin(Cons(Dollar, Cons(c, q))) = Cons(Dollar, Cons(c, j))
  <2> SUFFICES ASSUME NEW c \in PatternSymbols
               PROVE  jsStdin(Cons(Dollar, Cons(c, q))) = Cons(Dollar, Cons(c, j))
    OBVIOUS
  <2> DEFINE k == Cons(c, q)
  <2>1. k \in Text /\ jsStdin(k) = Cons(c, j)
    BY <1>2, HeadFacts, JsStdinFacts
  <2> HIDE DEF k, j
  <2>2. jsStdin(Cons(Dollar, k)) = Cons(Dollar, jsStdin(k))
    BY <1>2, <2>1, JsStdinFacts
  <2> QED  BY <2>1, <2>2 DEF k
<1>4. \A t : JsFilled(t) = F(jsStdin(t))
  BY DEF JsFilled
<1> HIDE DEF j, M
<1> DEFINE meaning == Meaning(JsBefore, M, JsRest)
<1>5. \A c \in PatternSymbols : F(Cons(Dollar, Cons(c, j))) = Cat(meaning[c], F(j))
  BY <1>1, <1>2, SubstitutePattern
<1>6. /\ meaning[Dollar] = <<Dollar>> /\ meaning["&"] = M /\ meaning["BT"] = JsBefore
      /\ meaning["'"] = JsRest
  BY <1>1, <1>2, MeaningFacts
<1> HIDE DEF F, meaning
<1>7. Dollar \in PatternSymbols /\ {"&", "BT", "'"} \subseteq PatternSymbols
  BY DEF PatternSymbols, Dollar
<1>8. \A c \in PatternSymbols : JsFilled(Cons(Dollar, Cons(c, q))) = Cat(meaning[c], JsFilled(q))
  BY <1>3, <1>4, <1>5 DEF j
<1>9. Cat(<<Dollar>>, JsFilled(q)) = Cons(Dollar, JsFilled(q))
  BY DEF Cons
<1> QED  BY <1>6, <1>7, <1>8, <1>9 DEF M

LEMMA JsReplaceType ==
  ASSUME NEW old \in Text, old # <<>>, NEW new \in Text, ~HasPattern(new), NEW t \in Text
  PROVE  jsReplace(old, new, t) \in Text
<1>1. CASE ~Occurs(old, t)
  BY <1>1 DEF jsReplace
<1>2. CASE Occurs(old, t)
  <2>1. PICK i \in 1..Len(t) : At(t, i, old) /\ \A k \in 1..(i - 1) : ~At(t, k, old)
    BY <1>2, FirstPlace
  <2> DEFINE s == SubSeq(t, 1, i - 1)
             a == From(t, i + Len(old))
  <2>2. i + Len(old) \in 1..(Len(t) + 1) /\ jsReplace(old, new, t) = Cat(s, Cat(new, a))
    BY <2>1, JsReplaceAt
  <2>3. i - 1 \in 0..Len(t)
    BY TextFacts
  <2>4. s \in Text /\ a \in Text
    BY <2>2, <2>3, SubSeqFacts, FromFacts
  <2> HIDE DEF s, a
  <2>5. Cat(new, a) \in Text
    BY <2>4, CatFacts
  <2> QED  BY <2>2, <2>4, <2>5, CatFacts
<1> QED  BY <1>1, <1>2

JsCode(y, t) == jsReplace(Markers["code"], y, t)

\* The marker of the code is not at the beginning of
LEMMA JsCodeFacts ==
  ASSUME NEW y \in Text, ~HasPattern(y), NEW t \in Text
  PROVE  /\ JsCode(y, t) \in Text
         /\ \A x \in Symbols : x # Dollar \/ t = <<>> \/ t[1] # Dollar \/ t[2] # "code"
              => JsCode(y, Cons(x, t)) = Cons(x, JsCode(y, t))
         /\ At(t, 1, Markers["code"]) => \E u \in Text : JsCode(y, t) = Cat(y, u)
<1> DEFINE N == Markers["code"]
<1>1. N \in Text /\ N # <<>>
  BY JsRestFacts
<1>2. DOMAIN N = 1..5 /\ Len(N) = 5 /\ N[1] = Dollar /\ N[2] = Dollar /\ N[3] = "code"
  BY <1>1, MarkerSymbols, TextFacts DEF Dollar
<1> HIDE DEF N
<1>3. ASSUME NEW x \in Symbols, x # Dollar \/ t = <<>> \/ t[1] # Dollar \/ t[2] # "code"
      PROVE  ~At(Cons(x, t), 1, N)
  <2> DEFINE u == Cons(x, t)
  <2>1. /\ u[1] = x /\ Len(u) = Len(t) + 1 /\ Len(t) \in Nat
        /\ \A i \in 1..Len(t) : u[i + 1] = t[i]
    BY HeadFacts, TextFacts
  <2>2. t = <<>> => Len(t) = 0
    BY TextFacts
  <2> HIDE DEF u
  <2>3. SUFFICES ASSUME At(u, 1, N) PROVE FALSE
    BY DEF u
  <2>4. u[1 + 1 - 1] = N[1] /\ u[1 + 2 - 1] = N[2] /\ u[1 + 3 - 1] = N[3] /\ 1 + 5 - 1 <= Len(u)
    BY <1>2, <2>3 DEF At
  <2>5. u[1 + 1] = t[1] /\ u[2 + 1] = t[2]
    BY <2>1, <2>4
  <2> QED  BY <1>2, <1>3, <2>1, <2>2, <2>4, <2>5
<1>4. \A x \in Symbols : ~At(Cons(x, t), 1, N) => JsCode(y, Cons(x, t)) = Cons(x, JsCode(y, t))
  BY <1>1, JsReplaceSkip DEF JsCode, N
<1>5. JsCode(y, t) \in Text
  BY <1>1, JsReplaceType DEF JsCode, N
<1>6. At(t, 1, N) => \E u \in Text : JsCode(y, t) = Cat(y, u)
  BY <1>1, JsReplaceStart DEF JsCode, N
<1> QED  BY <1>3, <1>4, <1>5, <1>6 DEF N

\* Reading ends at the end of the literal.
LEMMA JsEnds ==
  ASSUME NEW y \in Text, ~HasPattern(y), NEW z \in Text
  PROVE  JsRead(JsCode(y, Cat(JsBetween, z))) = <<>>
<1>1. \A v \in Text : Cat(JsBetween, v) =
        Cons(Double, Cons(Brace, Cons(Single, Cons(Redirect, v))))
  <2> SUFFICES ASSUME NEW v \in Text
               PROVE  Cat(JsBetween, v) = Cons(Double, Cons(Brace, Cons(Single, Cons(Redirect, v))))
    OBVIOUS
  <2> DEFINE R == <<Redirect>>
             sR == Cons(Single, R)
             bsR == Cons(Brace, sR)
  <2>1. R \in Text /\ sR \in Text /\ bsR \in Text /\ {Double, Brace, Single} \subseteq Symbols
    BY BetweenFacts, NameFacts, HeadFacts
  <2>2. JsBetween = Cons(Double, bsR) /\ Cat(R, v) = Cons(Redirect, v)
    BY BetweenFacts DEF Cons
  <2> HIDE DEF R
  <2>3. Cat(sR, v) = Cons(Single, Cat(R, v))
    BY <2>1, ConsCat
  <2> HIDE DEF sR
  <2>4. Cat(bsR, v) = Cons(Brace, Cat(sR, v))
    BY <2>1, ConsCat
  <2> HIDE DEF bsR
  <2>5. Cat(Cons(Double, bsR), v) = Cons(Double, Cat(bsR, v))
    BY <2>1, ConsCat
  <2> QED  BY <2>2, <2>3, <2>4, <2>5
<1> DEFINE c == JsCode(y, z)
           t1 == Cons(Redirect, z)
           t2 == Cons(Single, t1)
           t3 == Cons(Brace, t2)
<1>2. {Redirect, Single, Brace, Double} \subseteq Symbols \ {Dollar}
  <2>1. Redirect # Dollar
    BY DEF Redirect, Dollar
  <2> QED  BY <2>1, BetweenFacts, NameFacts
<1>3. c \in Text /\ t1 \in Text /\ t2 \in Text /\ t3 \in Text
  BY <1>2, JsCodeFacts, HeadFacts
<1>4. JsCode(y, t1) = Cons(Redirect, c)
  BY <1>2, JsCodeFacts
<1> HIDE DEF c, t1
<1>5. JsCode(y, t2) = Cons(Single, Cons(Redirect, c))
  BY <1>2, <1>3, <1>4, JsCodeFacts
<1> HIDE DEF t2
<1>6. JsCode(y, t3) = Cons(Brace, Cons(Single, Cons(Redirect, c)))
  BY <1>2, <1>3, <1>5, JsCodeFacts
<1> HIDE DEF t3
<1>7. JsCode(y, Cons(Double, t3)) = Cons(Double, Cons(Brace, Cons(Single, Cons(Redirect, c))))
  BY <1>2, <1>3, <1>6, JsCodeFacts
<1>8. Cat(JsBetween, z) = Cons(Double, t3)
  BY <1>1 DEF t1, t2, t3
<1>9. JsCode(y, Cat(JsBetween, z)) = Cat(JsBetween, c)
  BY <1>1, <1>3, <1>7, <1>8
<1> QED  BY <1>3, <1>9, BetweenEnds DEF JsRead

JsShown(y, t) == JsRead(JsCode(y, t))

LEMMA JsShownFacts ==
  ASSUME NEW y \in Text, ~HasPattern(y), Len(y) >= 2, NEW t \in Text
  PROVE  /\ JsShown(y, t) \in Text
         /\ JsShown(y, Cons(Slash, Cons(Slash, Cons(Slash, Cons(Slash, t)))))
              = Cons(Slash, JsShown(y, t))
         /\ JsShown(y, Cons(Slash, Cons(Slash, Cons(Double, t)))) = Cons(Double, JsShown(y, t))
         /\ JsShown(y, Cons(Slash, Cons(Slash, Cons(Letter, t)))) = Cons(Line, JsShown(y, t))
         /\ \A x \in Symbols \ {Slash, Double, Single, Dollar} :
              JsShown(y, Cons(x, t)) = Cons(x, JsShown(y, t))
         /\ JsShown(y, Cons(Single, t)) = <<"unterminated">>
         /\ t = <<>> \/ t[1] # Dollar \/ t[2] # "code"
              => JsShown(y, Cons(Dollar, t)) = Cons(Dollar, JsShown(y, t))
         /\ \/ JsShown(y, Cons(Dollar, t)) = Cons(Dollar, JsShown(y, t))
            \/ \A w \in Text : JsShown(y, Cons(Dollar, t)) # Cons(Dollar, Cons(Dollar, w))
<1> DEFINE C(v) == JsCode(y, v)
           c == C(t)
<1>1. {Slash, Double, Single, Letter, Line, Dollar} \subseteq Symbols
      /\ Dollar \notin {Slash, Double, Single, Letter, Line} /\ Slash # Single
  BY NameFacts
<1>2. \A v \in Text : /\ C(v) \in Text
                      /\ \A x \in Symbols \ {Dollar} : C(Cons(x, v)) = Cons(x, C(v))
  BY JsCodeFacts
<1>3. \A x \in Symbols, v \in Text : Cons(x, v) \in Text
  BY HeadFacts
<1>4. c \in Text /\ C(t) = c
  BY <1>2
<1> HIDE DEF C, c
<1>5. ASSUME NEW x \in Symbols \ {Dollar}
      PROVE  C(Cons(Slash, Cons(Slash, Cons(x, t)))) = Cons(Slash, Cons(Slash, Cons(x, c)))
  <2> DEFINE u == Cons(x, t)
             v == Cons(Slash, u)
  <2>1. u \in Text /\ v \in Text /\ C(u) = Cons(x, c)
    BY <1>1, <1>2, <1>3, <1>4
  <2> HIDE DEF u
  <2>2. C(v) = Cons(Slash, C(u))
    BY <1>1, <1>2, <2>1
  <2> HIDE DEF v
  <2>3. C(Cons(Slash, v)) = Cons(Slash, C(v))
    BY <1>1, <1>2, <2>1
  <2> QED  BY <2>1, <2>2, <2>3 DEF u, v
<1>6. C(Cons(Slash, Cons(Slash, Cons(Slash, Cons(Slash, t)))))
        = Cons(Slash, Cons(Slash, Cons(Slash, Cons(Slash, c))))
  <2> DEFINE v == Cons(Slash, Cons(Slash, Cons(Slash, t)))
  <2>1. v \in Text
    BY <1>1, <1>3
  <2>2. C(v) = Cons(Slash, Cons(Slash, Cons(Slash, c)))
    BY <1>1, <1>5
  <2> HIDE DEF v
  <2>3. C(Cons(Slash, v)) = Cons(Slash, C(v))
    BY <1>1, <1>2, <2>1
  <2> QED  BY <2>2, <2>3 DEF v
<1>7. \A v : JsShown(y, v) = JsRead(C(v))
  BY DEF JsShown, C
<1>8. /\ JsRead(c) \in Text
      /\ JsRead(Cons(Slash, Cons(Slash, Cons(Slash, Cons(Slash, c))))) = Cons(Slash, JsRead(c))
      /\ JsRead(Cons(Slash, Cons(Slash, Cons(Double, c)))) = Cons(Double, JsRead(c))
      /\ JsRead(Cons(Slash, Cons(Slash, Cons(Letter, c)))) = Cons(Line, JsRead(c))
      /\ \A x \in Symbols \ {Slash, Double, Single} : JsRead(Cons(x, c)) = Cons(x, JsRead(c))
      /\ JsRead(Cons(Single, c)) = <<"unterminated">>
  BY <1>4, JsReadFacts
<1>9. JsShown(y, t) = JsRead(c) /\ JsShown(y, t) \in Text
  BY <1>4, <1>7, <1>8
<1>10. JsShown(y, Cons(Slash, Cons(Slash, Cons(Slash, Cons(Slash, t))))) = Cons(Slash, JsShown(y, t))
  BY <1>6, <1>7, <1>8, <1>9
<1>11. /\ JsShown(y, Cons(Slash, Cons(Slash, Cons(Double, t)))) = Cons(Double, JsShown(y, t))
       /\ JsShown(y, Cons(Slash, Cons(Slash, Cons(Letter, t)))) = Cons(Line, JsShown(y, t))
  BY <1>1, <1>5, <1>7, <1>8, <1>9
<1>12. /\ \A x \in Symbols \ {Slash, Double, Single, Dollar} :
            JsShown(y, Cons(x, t)) = Cons(x, JsShown(y, t))
       /\ JsShown(y, Cons(Single, t)) = <<"unterminated">>
  BY <1>1, <1>2, <1>4, <1>7, <1>8, <1>9
<1>13. C(Cons(Dollar, t)) = Cons(Dollar, c)
         => JsShown(y, Cons(Dollar, t)) = Cons(Dollar, JsShown(y, t))
  BY <1>1, <1>7, <1>8, <1>9
<1>14. t = <<>> \/ t[1] # Dollar \/ t[2] # "code" => C(Cons(Dollar, t)) = Cons(Dollar, c)
  BY <1>1, JsCodeFacts DEF C, c
<1>15. ASSUME ~At(Cons(Dollar, t), 1, Markers["code"])
       PROVE  C(Cons(Dollar, t)) = Cons(Dollar, c)
  <2>1. Markers["code"] \in Text /\ Markers["code"] # <<>>
    BY JsRestFacts
  <2> QED  BY <1>1, <1>15, <2>1, JsReplaceSkip DEF C, c, JsCode
<1>16. ASSUME At(Cons(Dollar, t), 1, Markers["code"]), NEW w \in Text,
              JsShown(y, Cons(Dollar, t)) = Cons(Dollar, Cons(Dollar, w))
       PROVE  FALSE
  <2>1. Cons(Dollar, t) \in Text
    BY <1>1, <1>3
  <2>2. PICK u \in Text : C(Cons(Dollar, t)) = Cat(y, u)
    BY <1>16, <2>1, JsCodeFacts DEF C
  <2> DEFINE yu == Cat(y, u)
  <2>3. yu \in Text /\ Len(y) \in Nat /\ \A i \in 1..Len(y) : yu[i] = y[i]
    BY CatFacts, TextFacts
  <2>4. JsRead(yu) = Cons(Dollar, Cons(Dollar, w))
    BY <1>7, <1>16, <2>2
  <2> HIDE DEF yu
  <2>5. PICK k \in Text : yu = Cons(Dollar, Cons(Dollar, k))
    BY <2>3, <2>4, DollarsRead
  <2> DEFINE dk == Cons(Dollar, k)
  <2>6. /\ dk \in Text /\ dk[1] = Dollar /\ Len(dk) = Len(k) + 1 /\ Len(k) \in Nat
    BY <1>1, HeadFacts, TextFacts
  <2> HIDE DEF dk
  <2>7. yu[1] = Dollar /\ yu[1 + 1] = dk[1]
    <3>1. yu = Cons(Dollar, dk)
      BY <2>5 DEF dk
    <3> DEFINE ddk == Cons(Dollar, dk)
    <3>2. ddk[1] = Dollar /\ \A i \in 1..Len(dk) : ddk[i + 1] = dk[i]
      BY <1>1, <2>6, HeadFacts
    <3>3. yu = ddk /\ 1 \in 1..Len(dk)
      BY <2>6, <3>1
    <3> HIDE DEF ddk
    <3> QED  BY <3>2, <3>3
  <2>8. y[1] = Dollar /\ y[1 + 1] = Dollar
    BY <2>3, <2>6, <2>7
  <2>9. PatternAt(y, 1) /\ 1 \in DOMAIN y
    BY <2>3, <2>8, TextFacts DEF PatternAt, Dollar
  <2> QED  BY <2>9 DEF HasPattern
<1>17. \/ JsShown(y, Cons(Dollar, t)) = Cons(Dollar, JsShown(y, t))
       \/ \A w \in Text : JsShown(y, Cons(Dollar, t)) # Cons(Dollar, Cons(Dollar, w))
  BY <1>13, <1>15, <1>16
<1> QED  BY <1>9, <1>10, <1>11, <1>12, <1>13, <1>14, <1>17

\* What the program reads of the stdin data q, if the code is y.
JsResult(y, q) == JsShown(y, Cat(JsFilled(q), JsRest))

LEMMA JsResultPlain ==
  ASSUME NEW y \in Text, ~HasPattern(y), Len(y) >= 2, NEW q \in Text
  PROVE  /\ JsResult(y, q) \in Text /\ JsResult(y, <<>>) = <<>>
         /\ \A x \in Symbols \ {Single, Dollar} :
              JsResult(y, Cons(x, q)) = Cons(x, JsResult(y, q))
         /\ JsResult(y, Cons(Single, q)) = <<"unterminated">>
         /\ ~PatternAt(Cons(Dollar, q), 1)
              => JsResult(y, Cons(Dollar, q)) = Cons(Dollar, JsResult(y, q))
<1> DEFINE f == JsFilled(q)
           v == Cat(f, JsRest)
           R(t) == JsResult(y, t)
<1>1. {Slash, Double, Single, Letter, Line, Dollar} \subseteq Symbols
      /\ Single \notin {Slash, Double, Letter, Line, Dollar} /\ Dollar \notin {Slash, Double}
      /\ Slash \notin {Double, Line} /\ Double # Line
  BY NameFacts
<1>2. f \in Text /\ v \in Text /\ JsRest \in Text
  BY JsFilledPlain, JsRestFacts, CatFacts
<1>3. R(q) = JsShown(y, v) /\ \A t : R(t) = JsShown(y, Cat(JsFilled(t), JsRest))
  BY DEF JsResult
<1>4. /\ JsShown(y, v) \in Text
      /\ JsShown(y, Cons(Slash, Cons(Slash, Cons(Slash, Cons(Slash, v)))))
           = Cons(Slash, JsShown(y, v))
      /\ JsShown(y, Cons(Slash, Cons(Slash, Cons(Double, v)))) = Cons(Double, JsShown(y, v))
      /\ JsShown(y, Cons(Slash, Cons(Slash, Cons(Letter, v)))) = Cons(Line, JsShown(y, v))
      /\ \A x \in Symbols \ {Slash, Double, Single, Dollar} :
           JsShown(y, Cons(x, v)) = Cons(x, JsShown(y, v))
      /\ JsShown(y, Cons(Single, v)) = <<"unterminated">>
      /\ v = <<>> \/ v[1] # Dollar \/ v[2] # "code"
           => JsShown(y, Cons(Dollar, v)) = Cons(Dollar, JsShown(y, v))
  BY <1>2, JsShownFacts
<1>5. \A x \in Symbols, t \in Text :
        Cons(x, t) \in Text /\ Cat(Cons(x, t), JsRest) = Cons(x, Cat(t, JsRest))
  BY <1>2, HeadFacts, ConsCat
<1>6. /\ JsFilled(Cons(Slash, q)) = Cons(Slash, Cons(Slash, Cons(Slash, Cons(Slash, f))))
      /\ JsFilled(Cons(Double, q)) = Cons(Slash, Cons(Slash, Cons(Double, f)))
      /\ JsFilled(Cons(Line, q)) = Cons(Slash, Cons(Slash, Cons(Letter, f)))
      /\ \A x \in Symbols \ {Slash, Double, Line, Dollar} : JsFilled(Cons(x, q)) = Cons(x, f)
      /\ ~PatternAt(Cons(Dollar, q), 1) => JsFilled(Cons(Dollar, q)) = Cons(Dollar, f)
      /\ JsFilled(<<>>) = <<>>
  BY JsFilledPlain
<1> HIDE DEF f, R
<1>7. Cat(f, JsRest) = v
  OBVIOUS
<1> HIDE DEF v
<1>8. \A a, b, c \in Symbols : /\ Cons(c, f) \in Text
                               /\ Cons(b, Cons(c, f)) \in Text
                               /\ Cat(Cons(a, Cons(b, Cons(c, f))), JsRest)
                                    = Cons(a, Cons(b, Cons(c, v)))
  <2> SUFFICES ASSUME NEW a \in Symbols, NEW b \in Symbols, NEW c \in Symbols
               PROVE  /\ Cons(c, f) \in Text
                      /\ Cons(b, Cons(c, f)) \in Text
                      /\ Cat(Cons(a, Cons(b, Cons(c, f))), JsRest) = Cons(a, Cons(b, Cons(c, v)))
    OBVIOUS
  <2> DEFINE cf == Cons(c, f)
             bcf == Cons(b, cf)
  <2>1. cf \in Text /\ bcf \in Text /\ Cat(cf, JsRest) = Cons(c, v)
    BY <1>2, <1>5, <1>7
  <2> HIDE DEF cf
  <2>2. Cat(bcf, JsRest) = Cons(b, Cat(cf, JsRest))
    BY <1>5, <2>1
  <2> HIDE DEF bcf
  <2>3. Cat(Cons(a, bcf), JsRest) = Cons(a, Cat(bcf, JsRest))
    BY <1>5, <2>1
  <2> QED  BY <2>1, <2>2, <2>3 DEF cf, bcf
<1>9. R(<<>>) = <<>>
  <2> DEFINE z == Cat(Markers["code"], JsAfter)
  <2>1. z \in Text
    BY JsRestFacts, CatFacts
  <2>2. Cat(<<>>, JsRest) = Cat(JsBetween, z)
    BY <1>2, CatEmpty DEF JsRest
  <2> HIDE DEF z
  <2>3. JsShown(y, Cat(JsBetween, z)) = <<>>
    BY <2>1, JsEnds DEF JsShown
  <2> QED  BY <1>3, <1>6, <2>2, <2>3
<1>10. R(Cons(Slash, q)) = Cons(Slash, R(q))
  <2> DEFINE u == Cons(Slash, Cons(Slash, Cons(Slash, f)))
             w == Cons(Slash, Cons(Slash, Cons(Slash, v)))
  <2>1. u \in Text /\ Cat(u, JsRest) = w
    <3>1. u \in Text
      BY <1>1, <1>2, HeadFacts
    <3> QED  BY <1>1, <1>8, <3>1
  <2>2. JsFilled(Cons(Slash, q)) = Cons(Slash, u)
    BY <1>6
  <2>3. JsShown(y, Cons(Slash, w)) = Cons(Slash, JsShown(y, v))
    BY <1>4
  <2> HIDE DEF u, w
  <2>4. Cat(Cons(Slash, u), JsRest) = Cons(Slash, w)
    BY <1>1, <1>5, <2>1
  <2> QED  BY <1>3, <2>2, <2>3, <2>4
<1>11. R(Cons(Double, q)) = Cons(Double, R(q)) /\ R(Cons(Line, q)) = Cons(Line, R(q))
  BY <1>1, <1>3, <1>4, <1>6, <1>8
<1>12. \A x \in Symbols : Cat(Cons(x, f), JsRest) = Cons(x, v)
  BY <1>2, <1>5, <1>7
<1>13. \A x \in Symbols \ {Slash, Double, Line, Single, Dollar} : R(Cons(x, q)) = Cons(x, R(q))
  BY <1>3, <1>4, <1>6, <1>12
<1>14. R(Cons(Single, q)) = <<"unterminated">>
  BY <1>1, <1>3, <1>4, <1>6, <1>12
<1>15. ASSUME ~PatternAt(Cons(Dollar, q), 1)
       PROVE  R(Cons(Dollar, q)) = Cons(Dollar, R(q))
  <2>1. q = <<>> \/ q[1] \notin PatternSymbols
    BY <1>1, <1>15, PatternHead DEF Dollar
  <2>2. Dollar \in PatternSymbols
    BY DEF Dollar, PatternSymbols
  <2>3. v[1] # Dollar
    <3>1. CASE q = <<>>
      <4> DEFINE Na == Cat(Markers["code"], JsAfter)
      <4>1. v = Cat(JsBetween, Na) /\ Na \in Text
        BY <1>2, <1>6, <1>7, <3>1, CatEmpty, CatFacts, JsRestFacts DEF f, JsRest
      <4> HIDE DEF Na
      <4>2. \E k \in Text : JsBetween = Cons(Double, k)
        BY <1>1, BetweenFacts, HeadFacts
      <4>3. PICK k \in Text : JsBetween = Cons(Double, k)
        BY <4>2
      <4>4. v = Cons(Double, Cat(k, Na)) /\ Cat(k, Na) \in Text
        BY <1>1, <4>1, <4>3, ConsCat, CatFacts
      <4> QED  BY <1>1, <4>4, HeadFacts
    <3>2. CASE q # <<>>
      <4> DEFINE x == q[1]
                 p == From(q, 2)
                 g == JsFilled(p)
      <4>1. x \in Symbols /\ p \in Text /\ q = Cons(x, p) /\ x # Dollar
        BY <2>1, <2>2, <3>2, HeadAndRest
      <4>2. g \in Text
        BY <4>1, JsFilledPlain
      <4> HIDE DEF x
      <4>3. f \in {Cons(Slash, Cons(Slash, Cons(Slash, Cons(Slash, g)))),
                   Cons(Slash, Cons(Slash, Cons(Double, g))),
                   Cons(Slash, Cons(Slash, Cons(Letter, g))), Cons(x, g)}
        <5>1. f = JsFilled(Cons(x, p))
          BY <4>1 DEF f
        <5> HIDE DEF p
        <5>2. /\ JsFilled(Cons(Slash, p)) = Cons(Slash, Cons(Slash, Cons(Slash, Cons(Slash, g))))
              /\ JsFilled(Cons(Double, p)) = Cons(Slash, Cons(Slash, Cons(Double, g)))
              /\ JsFilled(Cons(Line, p)) = Cons(Slash, Cons(Slash, Cons(Letter, g)))
              /\ \A z \in Symbols \ {Slash, Double, Line, Dollar} : JsFilled(Cons(z, p)) = Cons(z, g)
          BY <4>1, JsFilledPlain
        <5> HIDE DEF g
        <5> QED  BY <4>1, <5>1, <5>2
      <4> HIDE DEF g, p
      <4>4. \E z \in Symbols \ {Dollar}, k \in Text : f = Cons(z, k)
        <5>1. /\ Cons(Slash, Cons(Slash, Cons(Slash, g))) \in Text
              /\ Cons(Slash, Cons(Double, g)) \in Text
              /\ Cons(Slash, Cons(Letter, g)) \in Text
          BY <1>1, <4>2, HeadFacts
        <5>2. Slash # Dollar
          BY <1>1
        <5> QED  BY <1>1, <4>1, <4>2, <4>3, <5>1, <5>2
      <4>5. PICK z \in Symbols \ {Dollar}, k \in Text : f = Cons(z, k)
        BY <4>4
      <4>6. v = Cons(z, Cat(k, JsRest)) /\ Cat(k, JsRest) \in Text
        BY <1>2, <1>5, <1>7, <4>5, CatFacts
      <4> QED  BY <4>6, HeadFacts
    <3> QED  BY <3>1, <3>2
  <2>4. JsFilled(Cons(Dollar, q)) = Cons(Dollar, f)
    BY <1>6, <1>15
  <2>5. JsShown(y, Cons(Dollar, v)) = Cons(Dollar, JsShown(y, v))
    BY <1>4, <2>3
  <2> QED  BY <1>1, <1>3, <1>12, <2>4, <2>5
<1>16. R(q) \in Text
  BY <1>3, <1>4
<1>17. \A x \in Symbols \ {Single, Dollar} : R(Cons(x, q)) = Cons(x, R(q))
  BY <1>10, <1>11, <1>13
<1> QED  BY <1>9, <1>14, <1>15, <1>16, <1>17 DEF R

LEMMA HeadAndSymbols ==
  ASSUME NEW t \in Text, Len(t) >= 1
  PROVE  /\ From(t, 2) \in Text /\ t = Cons(t[1], From(t, 2)) /\ Len(From(t, 2)) = Len(t) - 1
         /\ \A i \in 1..(Len(t) - 1) : From(t, 2)[i] = t[i + 1]
<1> DEFINE u == From(t, 2)
<1>1. t # <<>> /\ 2 \in 1..(Len(t) + 1) /\ Len(t) - 2 + 1 = Len(t) - 1 /\ Len(t) \in Nat
  BY TextFacts
<1>2. t = Cons(t[1], u) /\ Len(u) = Len(t) - 1
  BY <1>1, HeadAndRest
<1>3. u \in Text /\ \A i \in 1..(Len(t) - 2 + 1) : u[i] = t[2 + i - 1]
  BY <1>1, FromFacts
<1> HIDE DEF u
<1>4. \A i \in 1..(Len(t) - 1) : u[i] = t[i + 1]
  <2>1. \A i \in 1..(Len(t) - 1) : 2 + i - 1 = i + 1 /\ i \in 1..(Len(t) - 2 + 1)
    BY <1>1, <1>2
  <2> QED  BY <1>3, <2>1
<1> QED  BY <1>2, <1>3, <1>4 DEF u

LEMMA JsResultPattern ==
  ASSUME NEW y \in Text, ~HasPattern(y), Len(y) >= 2, NEW q \in Text
  PROVE  /\ \/ JsResult(y, Cons(Dollar, Cons(Dollar, q))) = Cons(Dollar, JsResult(y, q))
            \/ \A w \in Text :
                 JsResult(y, Cons(Dollar, Cons(Dollar, q))) # Cons(Dollar, Cons(Dollar, w))
         /\ \E w \in Text : JsResult(y, Cons(Dollar, Cons("&", q)))
                              = Cons(Dollar, Cons(Dollar, Cons("stdin", w)))
         /\ \E w \in Text, x \in Symbols \ {Dollar} :
              JsResult(y, Cons(Dollar, Cons("BT", q))) = Cons(x, w)
         /\ JsResult(y, Cons(Dollar, Cons("'", q))) = <<>>
<1> DEFINE f == JsFilled(q)
           v == Cat(f, JsRest)
           M == Markers["stdin"]
           Na == Cat(Markers["code"], JsAfter)
           S(t) == JsShown(y, t)
<1>1. /\ f \in Text /\ v \in Text /\ JsRest \in Text /\ Na \in Text /\ M \in Text
      /\ JsBefore \in Text /\ JsBetween \in Text /\ Dollar \in Symbols
  BY JsFilledPlain, JsRestFacts, CatFacts, NameFacts
<1>2. \A t : JsResult(y, t) = S(Cat(JsFilled(t), JsRest))
  BY DEF JsResult
<1>3. /\ JsFilled(Cons(Dollar, Cons(Dollar, q))) = Cons(Dollar, f)
      /\ JsFilled(Cons(Dollar, Cons("&", q))) = Cat(M, f)
      /\ JsFilled(Cons(Dollar, Cons("BT", q))) = Cat(JsBefore, f)
      /\ JsFilled(Cons(Dollar, Cons("'", q))) = Cat(JsRest, f)
  BY JsFilledPattern
<1>4. \A t \in Text :
        /\ S(t) \in Text
        /\ \A x \in Symbols \ {Slash, Double, Single, Dollar} : S(Cons(x, t)) = Cons(x, S(t))
        /\ t = <<>> \/ t[1] # Dollar \/ t[2] # "code" => S(Cons(Dollar, t)) = Cons(Dollar, S(t))
        /\ \/ S(Cons(Dollar, t)) = Cons(Dollar, S(t))
           \/ \A w \in Text : S(Cons(Dollar, t)) # Cons(Dollar, Cons(Dollar, w))
  BY JsShownFacts
<1>5. JsResult(y, q) = S(v)
  BY <1>2
<1> HIDE DEF S, M
<1>6. \A t \in Text : Cat(Cat(t, f), JsRest) = Cat(t, v)
  <2> HIDE DEF f
  <2> QED  BY <1>1, CatAssoc
<1> HIDE DEF f
<1>7. \/ JsResult(y, Cons(Dollar, Cons(Dollar, q))) = Cons(Dollar, JsResult(y, q))
      \/ \A w \in Text :
           JsResult(y, Cons(Dollar, Cons(Dollar, q))) # Cons(Dollar, Cons(Dollar, w))
  <2>1. Cat(Cons(Dollar, f), JsRest) = Cons(Dollar, v)
    BY <1>1, ConsCat
  <2> HIDE DEF v
  <2> QED  BY <1>1, <1>2, <1>3, <1>4, <1>5, <2>1
<1> HIDE DEF v
<1>8. \E w \in Text : JsResult(y, Cons(Dollar, Cons("&", q)))
                        = Cons(Dollar, Cons(Dollar, Cons("stdin", w)))
  <2>1. Len(M) = 5 /\ M[1] = Dollar /\ M[2] = Dollar /\ M[3] = "stdin"
    BY MarkerSymbols DEF M, Dollar
  <2> DEFINE m1 == From(M, 2)
             m2 == From(m1, 2)
             m3 == From(m2, 2)
  <2>2. m1 \in Text /\ M = Cons(Dollar, m1) /\ Len(m1) = 4 /\ \A i \in 1..4 : m1[i] = M[i + 1]
    <3>1. M \in Text /\ Len(M) >= 1 /\ Len(M) - 1 = 4
      BY <1>1, <2>1
    <3>2. /\ From(M, 2) \in Text /\ M = Cons(M[1], From(M, 2)) /\ Len(From(M, 2)) = Len(M) - 1
          /\ \A i \in 1..(Len(M) - 1) : From(M, 2)[i] = M[i + 1]
      BY <3>1, HeadAndSymbols
    <3> QED  BY <1>1, <2>1, <3>1, <3>2
  <2> HIDE DEF m1
  <2>3. m1[1] = Dollar /\ m1[2] = "stdin"
    <3>1. m1[1] = M[1 + 1] /\ m1[2] = M[2 + 1]
      BY <2>2
    <3> QED  BY <2>1, <3>1
  <2>4. m2 \in Text /\ m1 = Cons(Dollar, m2) /\ Len(m2) = 3 /\ \A i \in 1..3 : m2[i] = m1[i + 1]
    <3>1. m1 \in Text /\ Len(m1) >= 1 /\ Len(m1) - 1 = 3
      BY <2>2, <2>3
    <3>2. /\ From(m1, 2) \in Text /\ m1 = Cons(m1[1], From(m1, 2)) /\ Len(From(m1, 2)) = Len(m1) - 1
          /\ \A i \in 1..(Len(m1) - 1) : From(m1, 2)[i] = m1[i + 1]
      BY <3>1, HeadAndSymbols
    <3> QED  BY <2>2, <2>3, <3>1, <3>2
  <2> HIDE DEF m2
  <2>5. m2[1] = "stdin"
    <3>1. m2[1] = m1[1 + 1]
      BY <2>4
    <3> QED  BY <2>3, <3>1
  <2>6. "stdin" \in Symbols \ {Slash, Double, Single, Dollar} /\ "stdin" # "code"
    BY CodeSymbolFacts DEF Slots, Slash, Double, Single, Dollar
  <2>7. m3 \in Text /\ m2 = Cons("stdin", m3)
    <3>1. Len(m2) >= 1
      BY <2>4
    <3>2. From(m2, 2) \in Text /\ m2 = Cons(m2[1], From(m2, 2))
      BY <2>4, <3>1, HeadAndSymbols
    <3> QED  BY <2>5, <3>2
  <2> HIDE DEF m3
  <2> DEFINE x == "stdin"
             u3 == Cat(m3, v)
             u2 == Cons(x, u3)
             u1 == Cons(Dollar, u2)
  <2>8. u3 \in Text /\ u2 \in Text /\ u1 \in Text /\ m2 = Cons(x, m3)
    BY <1>1, <2>6, <2>7, CatFacts, HeadFacts
  <2>9. x \in Symbols \ {Slash, Double, Single, Dollar} /\ x # "code"
    BY <2>6
  <2> HIDE DEF x
  <2>10. Cat(M, v) = Cons(Dollar, u1)
    <3>1. Cat(m2, v) = u2
      BY <1>1, <2>7, <2>8, <2>9, ConsCat
    <3>2. Cat(m1, v) = Cons(Dollar, Cat(m2, v))
      BY <1>1, <2>4, ConsCat
    <3>3. Cat(M, v) = Cons(Dollar, Cat(m1, v))
      BY <1>1, <2>2, ConsCat
    <3> QED  BY <3>1, <3>2, <3>3
  <2>11. u2[1] = x /\ x # Dollar
    BY <2>8, <2>9, HeadFacts
  <2>12. u1[1] = Dollar /\ u1[2] # "code"
    <3> HIDE DEF u2
    <3>1. u1[1] = Dollar /\ Len(u1) = Len(u2) + 1 /\ \A i \in 1..Len(u2) : u1[i + 1] = u2[i]
      BY <1>1, <2>8, HeadFacts
    <3> HIDE DEF u1
    <3>2. 1 \in 1..Len(u2)
      <4> HIDE DEF u3
      <4>1. 1 \in 1..Len(Cons(x, u3))
        BY <2>8, <2>9, HeadFacts
      <4> QED  BY <4>1 DEF u2
    <3>3. u1[1 + 1] = u2[1]
      BY <3>1, <3>2
    <3> QED  BY <2>9, <2>11, <3>1, <3>3
  <2> HIDE DEF u3
  <2>13. S(u2) = Cons(x, S(u3)) /\ S(u3) \in Text
    BY <1>4, <2>8, <2>9
  <2> HIDE DEF u2
  <2>14. S(u1) = Cons(Dollar, S(u2))
    BY <1>4, <2>8, <2>11
  <2> HIDE DEF u1
  <2>15. S(Cons(Dollar, u1)) = Cons(Dollar, S(u1))
    BY <1>4, <2>8, <2>12
  <2>16. JsResult(y, Cons(Dollar, Cons("&", q))) = S(Cat(M, v))
    BY <1>1, <1>2, <1>3, <1>6
  <2> QED  BY <2>10, <2>13, <2>14, <2>15, <2>16 DEF x
<1>9. \E w \in Text, x \in Symbols \ {Dollar} :
        JsResult(y, Cons(Dollar, Cons("BT", q))) = Cons(x, w)
  <2>1. JsBefore # <<>> /\ JsBefore[1] \notin {Slash, Double, Single, Dollar}
    <3>1. JsBefore # <<>>
      BY Zenon DEF JsBefore
    <3> DEFINE b == "JSON.parse('{\"data\":\""
    <3>2. b \notin {Slash, Double, Single, Dollar}
      BY Zenon DEF Slash, Double, Single, Dollar
    <3>3. JsBefore = <<b>>
      BY Zenon DEF JsBefore
    <3> HIDE DEF b
    <3> QED  BY <3>2, <3>3
  <2>2. PICK x \in Symbols \ {Slash, Double, Single, Dollar}, k \in Text : JsBefore = Cons(x, k)
    BY <1>1, <2>1, HeadAndRest
  <2>3. Cat(JsBefore, v) = Cons(x, Cat(k, v)) /\ Cat(k, v) \in Text
    BY <1>1, <2>2, ConsCat, CatFacts
  <2> DEFINE kv == Cat(k, v)
  <2>4. kv \in Text /\ Cat(JsBefore, v) = Cons(x, kv)
    BY <2>3
  <2> HIDE DEF kv
  <2>5. S(Cons(x, kv)) = Cons(x, S(kv)) /\ S(kv) \in Text
    BY <1>4, <2>2, <2>4
  <2>6. JsResult(y, Cons(Dollar, Cons("BT", q))) = S(Cat(JsBefore, v))
    BY <1>1, <1>2, <1>3, <1>6
  <2> QED  BY <2>2, <2>4, <2>5, <2>6
<1>10. JsResult(y, Cons(Dollar, Cons("'", q))) = <<>>
  <2> DEFINE z == Cat(Na, v)
  <2>1. JsRest = Cat(JsBetween, Na)
    BY DEF JsRest
  <2> HIDE DEF Na
  <2>2. z \in Text /\ Cat(Cat(JsBetween, Na), v) = Cat(JsBetween, z)
    BY <1>1, CatFacts, CatAssoc
  <2> HIDE DEF z
  <2>3. S(Cat(JsBetween, z)) = <<>>
    BY <2>2, JsEnds DEF S, JsShown
  <2>4. JsResult(y, Cons(Dollar, Cons("'", q))) = S(Cat(JsRest, v))
    BY <1>1, <1>2, <1>3, <1>6
  <2> QED  BY <2>1, <2>2, <2>3, <2>4
<1> QED  BY <1>7, <1>8, <1>9, <1>10

\* Texts of dollars only.
Dollars == {d \in Text : \A i \in 1..Len(d) : d[i] = Dollar}

LEMMA DollarsFacts ==
  /\ <<>> \in Dollars
  /\ \A d \in Dollars : /\ d \in Text /\ Cons(Dollar, d) \in Dollars
                        /\ d = <<>> \/ \E e \in Dollars : d = Cons(Dollar, e)
<1>0. Dollar \in Symbols /\ <<>> \in Text /\ Len(<<>>) = 0
  BY NameFacts, EmptySeq DEF Text
<1>1. <<>> \in Dollars
  BY <1>0 DEF Dollars
<1>2. ASSUME NEW d \in Dollars
      PROVE  Cons(Dollar, d) \in Dollars
  <2> DEFINE u == Cons(Dollar, d)
  <2>1. d \in Text /\ Len(d) \in Nat /\ \A i \in 1..Len(d) : d[i] = Dollar
    BY TextFacts DEF Dollars
  <2>2. u \in Text /\ Len(u) = Len(d) + 1 /\ u[1] = Dollar
        /\ \A i \in 1..Len(d) : u[i + 1] = d[i]
    BY <1>0, <2>1, HeadFacts
  <2> HIDE DEF u
  <2>3. ASSUME NEW i \in 1..Len(u) PROVE u[i] = Dollar
    <3>1. CASE i = 1
      BY <2>2, <3>1
    <3>2. CASE i # 1
      <4>1. i - 1 \in 1..Len(d) /\ i - 1 + 1 = i
        BY <2>1, <2>2, <3>2
      <4>2. u[i - 1 + 1] = d[i - 1]
        BY <2>2, <4>1
      <4> QED  BY <2>1, <4>1, <4>2
    <3> QED  BY <3>1, <3>2
  <2> QED  BY <2>2, <2>3 DEF u, Dollars
<1>3. ASSUME NEW d \in Dollars, d # <<>>
      PROVE  \E e \in Dollars : d = Cons(Dollar, e)
  <2> DEFINE e == From(d, 2)
  <2>1. d \in Text /\ Len(d) \in Nat \ {0} /\ \A i \in 1..Len(d) : d[i] = Dollar
    BY <1>3, TextFacts DEF Dollars
  <2>2. e \in Text /\ Len(e) = Len(d) - 1 /\ d = Cons(d[1], e)
    BY <1>3, <2>1, HeadAndRest
  <2>3. \A i \in 1..(Len(d) - 2 + 1) : e[i] = d[2 + i - 1]
    <3>1. 2 \in 1..(Len(d) + 1)
      BY <2>1
    <3> QED  BY <2>1, <3>1, FromFacts
  <2>4. d[1] = Dollar
    BY <2>1
  <2> HIDE DEF e
  <2>5. \A i \in 1..Len(e) : e[i] = Dollar
    BY <2>1, <2>2, <2>3
  <2> QED  BY <2>2, <2>4, <2>5 DEF Dollars
<1> QED  BY <1>1, <1>2, <1>3 DEF Dollars

\* A dollar after dollars is a dollar before them.
LEMMA DollarsCat ==
  ASSUME NEW d \in Dollars, NEW q \in Text
  PROVE  /\ Cat(d, q) \in Text
         /\ Cat(d, Cons(Dollar, q)) = Cons(Dollar, Cat(d, q))
         /\ Cat(Cons(Dollar, d), q) = Cons(Dollar, Cat(d, q))
<1>0. Dollar \in Symbols /\ Cons(Dollar, q) \in Text /\ d \in Text
  BY NameFacts, HeadFacts DEF Dollars
<1> DEFINE T == {t \in Text : t \in Dollars
                   => Cat(t, Cons(Dollar, q)) = Cons(Dollar, Cat(t, q))}
<1>1. <<>> \in T
  <2>1. Cat(<<>>, Cons(Dollar, q)) = Cons(Dollar, q) /\ Cat(<<>>, q) = q
    BY <1>0, CatEmpty
  <2> QED  BY <2>1, EmptySeq DEF Text
<1>2. ASSUME NEW t \in Text, NEW x \in Symbols, t \in T
      PROVE  Cons(x, t) \in T
  <2>1. Cons(x, t) \in Text
    BY HeadFacts
  <2>2. SUFFICES ASSUME Cons(x, t) \in Dollars
                 PROVE  Cat(Cons(x, t), Cons(Dollar, q)) = Cons(Dollar, Cat(Cons(x, t), q))
    BY <2>1
  <2>3. PICK e \in Dollars : Cons(x, t) = Cons(Dollar, e)
    BY <2>1, <2>2, DollarsFacts, HeadFacts
  <2>4. x = Dollar /\ t = e
    BY <1>0, <2>3, ConsOne DEF Dollars
  <2>5. Cat(t, Cons(Dollar, q)) = Cons(Dollar, Cat(t, q))
    BY <1>2, <2>3, <2>4
  <2>6. /\ Cat(Cons(Dollar, t), Cons(Dollar, q)) = Cons(Dollar, Cat(t, Cons(Dollar, q)))
        /\ Cat(Cons(Dollar, t), q) = Cons(Dollar, Cat(t, q))
    BY <1>0, ConsCat
  <2> QED  BY <2>4, <2>5, <2>6
<1>3. Text \subseteq T
  <2> HIDE DEF T
  <2> QED  BY <1>1, <1>2, TextInduction
<1>4. Cat(Cons(Dollar, d), q) = Cons(Dollar, Cat(d, q))
  BY <1>0, ConsCat
<1> QED  BY <1>0, <1>3, <1>4, CatFacts

\* Stdin data that does not arrive, not even with dollars before it.
JsBad(t) == Occurs(<<Single>>, t) \/ HasPattern(t)

JsLosing(y, t) ==
  \A d \in Dollars : d # <<>> \/ JsBad(t) => JsResult(y, t) # Cat(d, t)

LEMMA JsBadFacts ==
  /\ ~JsBad(<<>>)
  /\ \A t \in Text, x \in Symbols :
       JsBad(Cons(x, t)) => x = Single \/ PatternAt(Cons(x, t), 1) \/ JsBad(t)
<1> DEFINE c == <<Single>>
<1>1. c \in Text /\ c[1] = Single /\ DOMAIN c = 1..1 /\ <<>> \in Text
  BY NameFacts, SymbolFacts, TextFacts, EmptySeq DEF Text
<1> HIDE DEF c
<1>2. ~JsBad(<<>>)
  <2>1. DOMAIN <<>> = {}
    OBVIOUS
  <2> QED  BY <2>1 DEF JsBad, Occurs, Places, HasPattern
<1>3. ASSUME NEW t \in Text, NEW x \in Symbols, JsBad(Cons(x, t)), x # Single
      PROVE  PatternAt(Cons(x, t), 1) \/ JsBad(t)
  <2> DEFINE u == Cons(x, t)
  <2>1. Occurs(c, u) <=> At(u, 1, c) \/ Occurs(c, t)
    BY <1>1, OccursTail
  <2>2. HasPattern(u) <=> PatternAt(u, 1) \/ HasPattern(t)
    BY PatternTail
  <2>3. u[1] = x
    BY HeadFacts
  <2>4. Occurs(c, u) \/ HasPattern(u)
    BY <1>3 DEF JsBad, c
  <2> HIDE DEF u
  <2>5. ~At(u, 1, c)
    <3>1. At(u, 1, c) => u[1 + 1 - 1] = c[1]
      BY <1>1 DEF At
    <3> QED  BY <1>1, <1>3, <2>3, <3>1
  <2>6. PatternAt(u, 1) \/ JsBad(t)
    BY <2>1, <2>2, <2>4, <2>5 DEF JsBad, c
  <2> QED  BY <2>6 DEF u
<1> QED  BY <1>2, <1>3

\* Dollars before a symbol begin with a dollar or with the symbol.
LEMMA DollarsHead ==
  ASSUME NEW d \in Dollars, NEW x \in Symbols, NEW t \in Text
  PROVE  /\ d = <<>> => Cat(d, Cons(x, t)) = Cons(x, t)
         /\ d # <<>> => \E e \in Dollars : /\ Cat(d, Cons(x, t)) = Cons(Dollar, Cat(e, Cons(x, t)))
                                           /\ Cat(e, Cons(x, t)) \in Text
<1> DEFINE u == Cons(x, t)
<1>1. u \in Text
  BY HeadFacts
<1> HIDE DEF u
<1>2. d = <<>> => Cat(d, u) = u
  BY <1>1, CatEmpty
<1>3. ASSUME d # <<>>
      PROVE  \E e \in Dollars : Cat(d, u) = Cons(Dollar, Cat(e, u)) /\ Cat(e, u) \in Text
  <2>1. PICK e \in Dollars : d = Cons(Dollar, e)
    BY <1>3, DollarsFacts
  <2>2. Cat(Cons(Dollar, e), u) = Cons(Dollar, Cat(e, u)) /\ Cat(e, u) \in Text
    BY <1>1, DollarsCat
  <2> QED  BY <2>1, <2>2
<1> QED  BY <1>2, <1>3 DEF u

LEMMA JsLosingPattern ==
  ASSUME NEW y \in Text, ~HasPattern(y), Len(y) >= 2,
         NEW o \in Text, JsLosing(y, o), NEW z \in PatternSymbols
  PROVE  JsLosing(y, Cons(Dollar, Cons(z, o)))
<1> DEFINE R(t) == JsResult(y, t)
           p == Cons(z, o)
           q == Cons(Dollar, p)
<1>1. Dollar \in Symbols /\ z \in Symbols
  BY NameFacts, Zenon, CodeSymbolFacts DEF CodeSymbols, PatternSymbols
<1>2. p \in Text /\ q \in Text /\ R(o) \in Text
  BY <1>1, HeadFacts, JsResultPlain
<1>3. SUFFICES ASSUME NEW d \in Dollars, R(q) = Cat(d, q)
               PROVE  FALSE
  BY DEF JsLosing
<1>4. Cat(d, q) = Cons(Dollar, Cat(d, p)) /\ Cat(d, p) \in Text
  BY <1>2, DollarsCat
<1>5. CASE z = Dollar
  <2>1. \/ R(q) = Cons(Dollar, R(o))
        \/ \A w \in Text : R(q) # Cons(Dollar, Cons(Dollar, w))
    BY <1>5, JsResultPattern
  <2>2. /\ Cat(d, p) = Cons(Dollar, Cat(d, o)) /\ Cat(d, o) \in Text
        /\ Cat(d, p) = Cat(Cons(Dollar, d), o)
        /\ Cons(Dollar, d) \in Dollars /\ Cons(Dollar, d) # <<>>
    <3>1. d \in Text /\ Cons(Dollar, d) \in Dollars
      BY DollarsFacts
    <3>2. Cons(Dollar, d) # <<>>
      BY <1>1, <3>1, HeadFacts
    <3>3. /\ Cat(d, Cons(Dollar, o)) = Cons(Dollar, Cat(d, o)) /\ Cat(d, o) \in Text
          /\ Cat(Cons(Dollar, d), o) = Cons(Dollar, Cat(d, o))
      BY DollarsCat
    <3>4. p = Cons(Dollar, o)
      BY <1>5
    <3> HIDE DEF p
    <3> QED  BY <3>1, <3>2, <3>3, <3>4
  <2> HIDE DEF R, q
  <2>3. R(q) = Cons(Dollar, Cons(Dollar, Cat(d, o)))
    BY <1>3, <1>4, <2>2
  <2>4. R(q) = Cons(Dollar, R(o))
    BY <2>1, <2>2, <2>3
  <2>5. R(o) = Cat(d, p)
    <3> DEFINE a == R(o)
               b == Cat(d, p)
    <3>1. a \in Text /\ b \in Text /\ Cons(Dollar, a) = Cons(Dollar, b)
      BY <1>2, <1>3, <1>4, <2>4 DEF R
    <3> HIDE DEF a, b
    <3>2. a = b
      BY <1>1, <3>1, ConsOne
    <3> QED  BY <3>2 DEF a, b
  <2>6. R(o) # Cat(Cons(Dollar, d), o)
    BY <2>2 DEF JsLosing, R
  <2> QED  BY <2>2, <2>5, <2>6
<1>6. CASE z = "&"
  <2>0. "&" # Dollar /\ "stdin" # Dollar /\ "stdin" # "&" /\ "stdin" \in Symbols
    BY CodeSymbolFacts DEF Dollar, Slots
  <2>1. PICK w \in Text : R(q) = Cons(Dollar, Cons(Dollar, Cons("stdin", w)))
    BY <1>6, JsResultPattern
  <2> DEFINE s == "stdin"
             sw == Cons(s, w)
             dsw == Cons(Dollar, sw)
  <2>2. sw \in Text /\ dsw \in Text /\ R(q) = Cons(Dollar, dsw) /\ s \in Symbols
        /\ z # Dollar /\ s # Dollar /\ s # z
    BY <1>1, <1>6, <2>0, <2>1, HeadFacts
  <2> HIDE DEF s, dsw, q
  <2>3. dsw = Cat(d, p)
    <3> DEFINE b == Cat(d, p)
    <3>1. b \in Text /\ Cons(Dollar, dsw) = Cons(Dollar, b)
      BY <1>3, <1>4, <2>2
    <3> HIDE DEF b
    <3>2. dsw = b
      BY <1>1, <2>2, <3>1, ConsOne
    <3> QED  BY <3>2 DEF b
  <2>4. CASE d = <<>>
    <3>1. dsw = Cons(z, o)
      BY <1>1, <2>3, <2>4, DollarsHead
    <3> QED  BY <1>1, <2>2, <3>1, ConsOne DEF dsw
  <2>5. CASE d # <<>>
    <3>1. PICK e \in Dollars : Cat(d, p) = Cons(Dollar, Cat(e, p)) /\ Cat(e, p) \in Text
      BY <1>1, <2>5, DollarsHead
    <3>2. sw = Cat(e, p)
      <4> HIDE DEF sw, p
      <4> QED  BY <1>1, <2>2, <2>3, <3>1, ConsOne DEF dsw
    <3>3. CASE e = <<>>
      <4>1. sw = Cons(z, o)
        BY <1>1, <3>2, <3>3, DollarsHead
      <4> QED  BY <1>1, <2>2, <4>1, ConsOne DEF sw
    <3>4. CASE e # <<>>
      <4>1. PICK f \in Dollars : Cat(e, p) = Cons(Dollar, Cat(f, p)) /\ Cat(f, p) \in Text
        BY <1>1, <3>4, DollarsHead
      <4> HIDE DEF p
      <4> QED  BY <1>1, <2>2, <3>2, <4>1, ConsOne DEF sw
    <3> QED  BY <3>3, <3>4
  <2> QED  BY <2>4, <2>5
<1>7. CASE z = "BT"
  <2>1. PICK w \in Text, x \in Symbols \ {Dollar} : R(q) = Cons(x, w)
    BY <1>7, JsResultPattern
  <2> HIDE DEF R, q, p
  <2> QED  BY <1>1, <1>3, <1>4, <2>1, ConsOne
<1>8. CASE z = "'"
  <2>1. R(q) = <<>>
    BY <1>8, JsResultPattern
  <2>2. Cons(Dollar, Cat(d, p)) # <<>>
    <3> HIDE DEF p
    <3> QED  BY <1>1, <1>4, HeadFacts
  <2> HIDE DEF R, q, p
  <2> QED  BY <1>3, <1>4, <2>1, <2>2
<1> QED  BY <1>5, <1>6, <1>7, <1>8 DEF PatternSymbols, Dollar

LEMMA JsLosingPlain ==
  ASSUME NEW y \in Text, ~HasPattern(y), Len(y) >= 2,
         NEW p \in Text, JsLosing(y, p), NEW x \in Symbols, ~PatternAt(Cons(x, p), 1)
  PROVE  JsLosing(y, Cons(x, p))
<1> DEFINE R(t) == JsResult(y, t)
           q == Cons(x, p)
<1>1. Dollar \in Symbols /\ Single \in Symbols /\ Single # Dollar
  BY NameFacts
<1>2. q \in Text /\ R(p) \in Text
  BY HeadFacts, JsResultPlain
<1>3. SUFFICES ASSUME NEW d \in Dollars, d # <<>> \/ JsBad(q), R(q) = Cat(d, q)
               PROVE  FALSE
  BY DEF JsLosing
<1>4. /\ d = <<>> => Cat(d, q) = q
      /\ d # <<>> => \E e \in Dollars : Cat(d, q) = Cons(Dollar, Cat(e, q)) /\ Cat(e, q) \in Text
  BY DollarsHead
<1>5. JsBad(q) => x = Single \/ JsBad(p)
  BY JsBadFacts
<1>6. CASE x = Single
  <2>1. R(q) = <<"unterminated">>
    BY <1>6, JsResultPlain
  <2>2. <<"unterminated">>[1] \notin {Dollar, Single}
    BY DEF Dollar, Single
  <2>3. Cat(d, q)[1] \in {Dollar, Single}
    <3>1. q[1] = Single
      BY <1>6, HeadFacts
    <3> HIDE DEF q, R
    <3>2. \A e : Cat(e, q) \in Text => Cons(Dollar, Cat(e, q))[1] = Dollar
      BY <1>1, HeadFacts
    <3> QED  BY <1>4, <3>1, <3>2
  <2> HIDE DEF q, R
  <2> QED  BY <1>3, <2>1, <2>2, <2>3
<1>7. CASE x = Dollar
  <2>1. R(q) = Cons(Dollar, R(p))
    BY <1>7, JsResultPlain
  <2>2. Cat(d, q) = Cons(Dollar, Cat(d, p)) /\ Cat(d, p) \in Text
    BY <1>7, DollarsCat
  <2>3. R(p) = Cat(d, p)
    <3> DEFINE a == R(p)
               b == Cat(d, p)
    <3>1. a \in Text /\ b \in Text /\ Cons(Dollar, a) = Cons(Dollar, b)
      BY <1>2, <1>3, <2>1, <2>2
    <3> HIDE DEF a, b
    <3>2. a = b
      BY <1>1, <3>1, ConsOne
    <3> QED  BY <3>2 DEF a, b
  <2>4. d # <<>> \/ JsBad(p)
    BY <1>1, <1>3, <1>5, <1>7
  <2> QED  BY <2>3, <2>4 DEF JsLosing
<1>8. CASE x # Single /\ x # Dollar
  <2>1. R(q) = Cons(x, R(p))
    BY <1>8, JsResultPlain
  <2>2. d = <<>>
    <3> SUFFICES ASSUME d # <<>> PROVE FALSE
      OBVIOUS
    <3>1. PICK e \in Dollars : Cat(d, q) = Cons(Dollar, Cat(e, q)) /\ Cat(e, q) \in Text
      BY <1>4
    <3> HIDE DEF R, q
    <3> QED  BY <1>1, <1>2, <1>3, <1>8, <2>1, <3>1, ConsOne
  <2>3. R(p) = p
    <3>1. R(q) = q
      BY <1>3, <1>4, <2>2
    <3> QED  BY <1>2, <2>1, <3>1, ConsOne
  <2>4. JsBad(p)
    BY <1>3, <1>5, <1>8, <2>2
  <2>5. Cat(<<>>, p) = p
    BY CatEmpty
  <2> QED  BY <2>2, <2>3, <2>4, <2>5 DEF JsLosing
<1> QED  BY <1>6, <1>7, <1>8

LEMMA JsLost ==
  ASSUME NEW y \in Text, ~HasPattern(y), Len(y) >= 2, NEW t \in Text, JsBad(t)
  PROVE  JsResult(y, t) # t
<1> DEFINE S == {q \in Text : JsLosing(y, q)}
<1>1. JsLosing(y, <<>>)
  <2>1. JsResult(y, <<>>) = <<>> /\ \A d \in Dollars : Cat(d, <<>>) = d
    BY JsResultPlain, DollarsFacts, CatEmpty
  <2> QED  BY <2>1, JsBadFacts DEF JsLosing
<1>2. ASSUME NEW q \in Text, \A s \in Text : Len(s) < Len(q) => s \in S
      PROVE  q \in S
  <2> SUFFICES ASSUME q # <<>> PROVE JsLosing(y, q)
    BY <1>1
  <2> DEFINE x == q[1]
             p == From(q, 2)
  <2>1. x \in Symbols /\ p \in Text /\ q = Cons(x, p) /\ Len(p) = Len(q) - 1 /\ Len(q) \in Nat
    BY HeadAndRest, TextFacts
  <2> HIDE DEF x, p
  <2>2. JsLosing(y, p)
    BY <1>2, <2>1
  <2>3. CASE ~PatternAt(q, 1)
    BY <2>1, <2>2, <2>3, JsLosingPlain
  <2>4. CASE PatternAt(q, 1)
    <3>1. x = Dollar /\ p # <<>> /\ p[1] \in PatternSymbols
      BY <2>1, <2>4, PatternHead DEF Dollar
    <3> DEFINE z == p[1]
               o == From(p, 2)
    <3>2. o \in Text /\ p = Cons(z, o) /\ Len(o) = Len(p) - 1
      BY <2>1, <3>1, HeadAndRest
    <3>3. Len(o) < Len(q)
      BY <2>1, <3>2
    <3> HIDE DEF z, o
    <3>4. JsLosing(y, o)
      BY <1>2, <3>2, <3>3
    <3>5. JsLosing(y, Cons(Dollar, Cons(z, o)))
      BY <3>1, <3>2, <3>4, JsLosingPattern DEF z
    <3> QED  BY <2>1, <3>1, <3>2, <3>5
  <2> QED  BY <2>3, <2>4
<1>3. Text \subseteq S
  <2> HIDE DEF S
  <2> QED  BY <1>2, StrongInduction
<1>4. JsLosing(y, t)
  BY <1>3
<1>5. <<>> \in Dollars /\ Cat(<<>>, t) = t
  BY DollarsFacts, CatEmpty
<1> QED  BY <1>4, <1>5 DEF JsLosing

LEMMA JsArrives ==
  ASSUME NEW r \in RequestType, r.kind = "io", r.module = "javascript", ~HasPattern(r.source)
  PROVE  Received(r, Generated(r)) = r.text
           <=> ~Occurs(<<Single>>, r.text) /\ ~HasPattern(r.text)
<1> DEFINE t == r.text
           y == Code(r)
           v == Cat(JsFilled(t), JsRest)
<1>1. t \in Text /\ r.source \in Text
  BY RequestFacts
<1>2. y \in Text /\ ~HasPattern(y)
  BY <1>1, CodeFacts, CodePattern
<1>3. Len(y) >= 2
  <2> DEFINE i == Invocation
             li == Cons(Line, i)
  <2>1. /\ i \in Text /\ Line \in Symbols /\ CodeEnd \in Text /\ CodeEnd = Cons(Line, li)
        /\ y = Cat(r.source, CodeEnd)
    BY <1>1, CodeFacts, NameFacts
  <2> HIDE DEF i, y
  <2>2. li \in Text /\ Len(li) = Len(i) + 1 /\ Len(i) \in Nat
    BY <2>1, HeadFacts, TextFacts
  <2> HIDE DEF li
  <2>3. Len(CodeEnd) = Len(li) + 1
    <3>1. Len(Cons(Line, li)) = Len(li) + 1
      BY <2>1, <2>2, HeadFacts
    <3> QED  BY <2>1, <3>1
  <2>4. Len(Cat(r.source, CodeEnd)) = Len(r.source) + Len(CodeEnd) /\ Len(r.source) \in Nat
    BY <1>1, <2>1, CatFacts, TextFacts
  <2>5. Len(CodeEnd) >= 2
    BY <2>2, <2>3
  <2>6. Len(Cat(r.source, CodeEnd)) >= 2
    <3> DEFINE m == Len(r.source)
               n == Len(CodeEnd)
               k == Len(Cat(r.source, CodeEnd))
    <3>1. m \in Nat /\ n \in Nat /\ n >= 2 /\ k = m + n
      BY <2>1, <2>4, <2>5, TextFacts
    <3> HIDE DEF m, n, k
    <3>2. k >= 2
      BY <3>1
    <3> QED  BY <3>2 DEF k
  <2> QED  BY <2>1, <2>6
<1>4. v \in Text
  BY <1>1, JsFilledPlain, JsRestFacts, CatFacts
<1>5. Generated(r) = JsCode(y, Cat(JsBefore, v))
  <2>1. JsPut(r) = JsFilled(t)
    BY Zenon DEF JsPut, JsFilled, JsRest
  <2>2. Generated(r) = jsReplace(Markers["code"], y, Cat(JsBefore, Cat(JsPut(r), JsRest)))
    <3>1. Generated(r) = jsReplace(Markers["code"], Code(r), Cat(JsBefore, Cat(JsPut(r),
                             Cat(JsBetween, Cat(Markers["code"], JsAfter)))))
      BY JsGeneratedBegins
    <3> QED  BY <3>1, Zenon DEF JsRest
  <2> QED  BY <2>1, <2>2, Zenon DEF JsCode
<1> HIDE DEF t, y, v
<1> DEFINE b == "JSON.parse('{\"data\":\""
<1>6. b \in Symbols /\ b # Dollar
  <2>1. b \in Symbols
    BY Zenon, CodeSymbolFacts DEF CodeSymbols
  <2>2. b # Dollar
    BY Zenon DEF Dollar
  <2> QED  BY <2>1, <2>2
<1>7. JsBefore = <<b>>
  BY Zenon DEF JsBefore
<1> HIDE DEF b
<1>8. Generated(r) = Cons(b, JsCode(y, v)) /\ JsCode(y, v) \in Text
  <2>1. Cat(JsBefore, v) = Cons(b, v)
    BY <1>7 DEF Cons
  <2>2. JsCode(y, Cons(b, v)) = Cons(b, JsCode(y, v)) /\ JsCode(y, v) \in Text
    BY <1>2, <1>4, <1>6, JsCodeFacts
  <2> QED  BY <1>5, <2>1, <2>2
<1>9. From(Generated(r), 2) = JsCode(y, v)
  BY <1>6, <1>8, TailOfCat
<1>10. Received(r, Generated(r)) = JsResult(y, t)
  <2>1. Received(r, Generated(r)) = JsOuter(JsInner(From(Generated(r), 2)))
    BY ReceivedIs DEF JsInner, JsOuter
  <2> QED  BY <1>9, <2>1 DEF JsResult, JsShown, JsRead, v
<1>11. JsBad(t) => JsResult(y, t) # t
  BY <1>1, <1>2, <1>3, JsLost DEF t
<1>12. ~Occurs(<<Single>>, t) /\ ~HasPattern(t) => Received(r, Generated(r)) = t
  BY JsReceived DEF t
<1> QED  BY <1>10, <1>11, <1>12 DEF JsBad, t

-----------------------------------------------------------------------------
(* The stdin data of all modules *)

LEMMA ArrivesOf ==
  ASSUME NEW r \in RequestType, r.kind = "io",
         r.module \in Compiled => ~Occurs(Markers["main"], r.source)
  PROVE  /\ Encodable(r.module, r.text) => Received(r, Generated(r)) = r.text
         /\ /\ r.module # "python" /\ (r.module = "javascript" => ~HasPattern(r.source))
            /\ Received(r, Generated(r)) = r.text
            => Encodable(r.module, r.text)
<1> DEFINE arrives == Received(r, Generated(r)) = r.text
           e == Encodable(r.module, r.text)
<1>1. r.module \in {"cxx", "csharp", "java", "javascript", "python"}
  BY RequestFacts
<1>2. CASE r.module = "java"
  <2>1. e
    BY <1>2, Zenon DEF Encodable
  <2>2. arrives
    BY <1>2, ReceivedIs
  <2> QED  BY <2>1, <2>2
<1>3. CASE r.module = "csharp"
  <2>1. e
    BY <1>3, Zenon DEF Encodable
  <2>2. arrives
    BY <1>3, CsReceived DEF Compiled
  <2> QED  BY <2>1, <2>2
<1>4. CASE r.module = "cxx"
  <2>1. e <=> ~Occurs(Delimiter, r.text) /\ ~Occurs(Ending, r.text)
    BY <1>4, Zenon DEF Encodable, Ending
  <2>2. arrives <=> ~Occurs(Delimiter, r.text) /\ ~Occurs(Ending, r.text)
    BY <1>4, CxxArrives DEF Compiled
  <2> QED  BY <2>1, <2>2
<1>5. CASE r.module = "python"
  <2>1. e <=> ~Occurs(<<Slash>>, r.text) /\ ~Occurs(<<"CR">>, r.text) /\ EndQuotes(r.text) % 3 = 0
    BY <1>5, Zenon DEF Encodable, Slash
  <2>2. e => arrives
    BY <1>5, <2>1, PyReceived
  <2> QED  BY <1>5, <2>2
<1>6. CASE r.module = "javascript"
  <2>1. e <=> ~Occurs(<<Single>>, r.text) /\ ~HasPattern(r.text)
    BY <1>6, Zenon DEF Encodable, Single
  <2>2. e => arrives
    BY <1>6, <2>1, JsReceived
  <2>3. ~HasPattern(r.source) => (arrives <=> e)
    BY <1>6, <2>1, JsArrives
  <2> QED  BY <1>6, <2>2, <2>3
<1> QED  BY <1>1, <1>2, <1>3, <1>4, <1>5, <1>6

\* The program reads its stdin data through every encoding and literal, for every text
\* that Encodable admits and every source (in C++, C# and Java, without the marker of
\* main): CodegenIOCapture of the five modules.
THEOREM StdinArrivesHolds == Spec => []StdinArrives
<1>1. Rewritten => StdinArrives
  <2> SUFFICES ASSUME Rewritten, done, input.kind = "io",
                      Encodable(input.module, input.text),
                      input.module \in Compiled => ~Occurs(Markers["main"], input.source)
               PROVE  Received(input, output) = input.text
    BY Zenon DEF StdinArrives
  <2>1. output = Generated(input) /\ input \in RequestType
    BY RequestsAssumption DEF Rewritten
  <2> QED  BY <2>1, ArrivesOf, Zenon
<1> QED  BY <1>1, RewrittenHolds, PTL

\* Encodable leaves out no more than it has to: of a C++ request (and of a C# or Java one,
\* where every text is encodable), and of a JavaScript request whose source has no $
\* patterns, no stdin data arrives that it does not admit.  In Python some of it does.
THEOREM EncodableIsNecessary ==
  ASSUME NEW r \in RequestType, r.kind = "io", r.module # "python",
         r.module \in Compiled => ~Occurs(Markers["main"], r.source),
         r.module = "javascript" => ~HasPattern(r.source),
         Received(r, Generated(r)) = r.text
  PROVE  Encodable(r.module, r.text)
BY ArrivesOf, Zenon
=============================================================================
