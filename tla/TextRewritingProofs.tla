------------------------ MODULE TextRewritingProofs ------------------------
(***************************************************************************)
(* Proofs about the escapes, the templates and the regex tokens, for all   *)
(* texts over all sets of symbols: every text of a generated program is in *)
(* its own place, and every token of a pattern means what it should.       *)
(***************************************************************************)
EXTENDS TextLemmas

-----------------------------------------------------------------------------
(* Escapes, symbol by symbol *)

LEMMA CodeSymbolFacts == CodeSymbols \subseteq Symbols /\ Slots \subseteq Symbols
BY SymbolsAssumption

LEMMA Pair ==
  ASSUME NEW x \in Symbols, NEW y \in Symbols
  PROVE  <<x, y>> = Cons(x, <<y>>) /\ <<x, y>> \in Text /\ Len(<<x, y>>) = 2
<1>1. <<x, y>> \in Text /\ Len(<<x, y>>) = 2 /\ <<y>> \in Text /\ Len(<<y>>) = 1
  BY DEF Text
<1> DEFINE p == <<x, y>>
           q == <<y>>
           u == Cons(x, q)
<1>2. p[1] = x /\ p[2] = y /\ q[1] = y
  OBVIOUS
<1>3. u \in Text /\ Len(u) = Len(q) + 1 /\ u[1] = x /\ \A i \in 1..Len(q) : u[i + 1] = q[i]
  BY <1>1, HeadFacts
<1> HIDE DEF p, q, u
<1>4. Len(u) = 2 /\ u[2] = y
  BY <1>1, <1>2, <1>3 DEF q
<1>5. \A i \in 1..Len(p) : p[i] = u[i]
  BY <1>1, <1>2, <1>3, <1>4 DEF p
<1>6. p = u
  BY <1>1, <1>3, <1>4, <1>5, TextEqual DEF p
<1> QED  BY <1>1, <1>6 DEF p, q, u

\* A replaced symbol, and another one.
LEMMA ReplaceSymbol ==
  ASSUME NEW a \in Symbols, NEW new \in Text, NEW x \in Symbols, NEW t \in Text
  PROVE  /\ x = a => strReplace(<<a>>, new, Cons(x, t)) = Cat(new, strReplace(<<a>>, new, t))
         /\ x # a => strReplace(<<a>>, new, Cons(x, t)) = Cons(x, strReplace(<<a>>, new, t))
<1> DEFINE old == <<a>>
           u == Cons(x, t)
<1>1. old \in Text /\ Len(old) = 1 /\ old[1] = a /\ old # <<>> /\ DOMAIN old = 1..1
  BY SymbolFacts, TextFacts
<1>2. u[1] = x
  BY HeadFacts
<1>3. x # a => ~At(u, 1, old)
  <2> HIDE DEF u, old
  <2> QED  BY <1>1, <1>2 DEF At
<1> HIDE DEF old
<1>4. x # a => strReplace(old, new, Cons(x, t)) = Cons(x, strReplace(old, new, t))
  BY <1>1, <1>3, ReplaceCopy
<1>5. x = a => strReplace(old, new, Cat(old, t)) = Cat(new, strReplace(old, new, t))
  BY <1>1, ReplaceMatch
<1>6. Cat(old, t) = Cons(a, t)
  BY DEF Cons, old
<1> QED  BY <1>4, <1>5, <1>6 DEF old

\* The symbols of literals by names, which the provers do not look into.
Slash  == "\\"
Double == "\""
Line   == "LF"
Letter == "n"
Single == "'"
Dollar == "$"

LEMMA NameFacts ==
  /\ {Slash, Double, Line, Letter, Single, Dollar} \subseteq Symbols
  /\ Slash \notin {Double, Line, Letter, Single, Dollar}
  /\ Double \notin {Line, Letter, Single, Dollar}
  /\ Line \notin {Letter, Single, Dollar}
  /\ Letter \notin {Single, Dollar}
  /\ Single # Dollar
BY CodeSymbolFacts DEF CodeSymbols, Slash, Double, Line, Letter, Single, Dollar

\* A symbol that is replaced by a backslash and a symbol.
Escape(a, b, t) == strReplace(<<a>>, <<Slash, b>>, t)

LEMMA EscapeFacts ==
  ASSUME NEW a \in Symbols, NEW b \in Symbols, NEW t \in Text
  PROVE  /\ Escape(a, b, t) \in Text
         /\ Escape(a, b, <<>>) = <<>>
         /\ Escape(a, b, Cons(a, t)) = Cons(Slash, Cons(b, Escape(a, b, t)))
         /\ \A x \in Symbols : x # a => Escape(a, b, Cons(x, t)) = Cons(x, Escape(a, b, t))
<1> DEFINE new == <<Slash, b>>
           old == <<a>>
           rest == strReplace(old, new, t)
           c == <<b>>
<1>1. Slash \in Symbols /\ c \in Text
  BY NameFacts, SymbolFacts
<1>2. new \in Text /\ new = Cons(Slash, c)
  BY <1>1, Pair
<1>3. old \in Text /\ old # <<>>
  BY SymbolFacts, TextFacts
<1>4. rest \in Text /\ strReplace(old, new, <<>>) = <<>>
  <2> HIDE DEF old, new
  <2> QED  BY <1>2, <1>3, ReplaceType, ReplaceEmpty
<1>5. Cat(new, rest) = Cons(Slash, Cons(b, rest))
  <2>1. Cat(c, rest) = Cons(b, rest)
    BY DEF Cons
  <2> HIDE DEF rest, new, c
  <2> QED  BY <1>1, <1>2, <1>4, <2>1, ConsCat
<1>6. ASSUME NEW x \in Symbols
      PROVE  /\ x = a => strReplace(old, new, Cons(x, t)) = Cat(new, rest)
             /\ x # a => strReplace(old, new, Cons(x, t)) = Cons(x, rest)
  <2> HIDE DEF new
  <2> QED  BY <1>2, ReplaceSymbol
<1> QED  BY <1>4, <1>5, <1>6 DEF Escape

LEMMA EscapeType ==
  ASSUME NEW a \in Symbols, NEW b \in Symbols, NEW t \in Text
  PROVE  Escape(a, b, t) \in Text
BY EscapeFacts

LEMMA EscapeEmpty ==
  ASSUME NEW a \in Symbols, NEW b \in Symbols
  PROVE  Escape(a, b, <<>>) = <<>>
BY EscapeFacts, EmptySeq DEF Text

LEMMA EscapeOne ==
  ASSUME NEW a \in Symbols, NEW b \in Symbols, NEW t \in Text
  PROVE  Escape(a, b, Cons(a, t)) = Cons(Slash, Cons(b, Escape(a, b, t)))
BY EscapeFacts

LEMMA EscapeOther ==
  ASSUME NEW a \in Symbols, NEW b \in Symbols, NEW t \in Text, NEW x \in Symbols, x # a
  PROVE  Escape(a, b, Cons(x, t)) = Cons(x, Escape(a, b, t))
BY EscapeFacts

LEMMA JsonFacts ==
  ASSUME NEW t \in Text
  PROVE  /\ json(t) \in Text /\ json(<<>>) = <<>>
         /\ json(Cons(Slash, t)) = Cons(Slash, Cons(Slash, json(t)))
         /\ json(Cons(Double, t)) = Cons(Slash, Cons(Double, json(t)))
         /\ json(Cons(Line, t)) = Cons(Slash, Cons(Letter, json(t)))
         /\ \A x \in Symbols \ {Slash, Double, Line} : json(Cons(x, t)) = Cons(x, json(t))
<1>0. \A u : json(u) = Escape(Line, Letter, Escape(Double, Double, Escape(Slash, Slash, u)))
  BY DEF json, Escape, Line, Letter, Double, Slash
<1> DEFINE s == Escape(Slash, Slash, t)
           q == Escape(Double, Double, s)
           j == Escape(Line, Letter, q)
<1>1. s \in Text /\ q \in Text /\ j \in Text
  BY NameFacts, EscapeType
<1>2. json(<<>>) = <<>>
  BY <1>0, NameFacts, EscapeEmpty
<1>3. /\ Cons(Slash, s) \in Text /\ Cons(Slash, q) \in Text /\ Cons(Double, q) \in Text
  BY <1>1, NameFacts, HeadFacts
<1>4. json(Cons(Slash, t)) = Cons(Slash, Cons(Slash, j))
  <2>1. Escape(Slash, Slash, Cons(Slash, t)) = Cons(Slash, Cons(Slash, s))
    BY NameFacts, EscapeOne
  <2> HIDE DEF s
  <2>2. Escape(Double, Double, Cons(Slash, Cons(Slash, s))) = Cons(Slash, Cons(Slash, q))
    BY <1>1, <1>3, NameFacts, EscapeOther
  <2> HIDE DEF q
  <2>3. Escape(Line, Letter, Cons(Slash, Cons(Slash, q))) = Cons(Slash, Cons(Slash, j))
    BY <1>1, <1>3, NameFacts, EscapeOther
  <2> HIDE DEF j
  <2> QED  BY <1>0, <2>1, <2>2, <2>3
<1>5. json(Cons(Double, t)) = Cons(Slash, Cons(Double, j))
  <2>1. Escape(Slash, Slash, Cons(Double, t)) = Cons(Double, s)
    BY NameFacts, EscapeOther
  <2> HIDE DEF s
  <2>2. Escape(Double, Double, Cons(Double, s)) = Cons(Slash, Cons(Double, q))
    BY <1>1, NameFacts, EscapeOne
  <2> HIDE DEF q
  <2>3. Escape(Line, Letter, Cons(Slash, Cons(Double, q))) = Cons(Slash, Cons(Double, j))
    BY <1>1, <1>3, NameFacts, EscapeOther
  <2> HIDE DEF j
  <2> QED  BY <1>0, <2>1, <2>2, <2>3
<1>6. ASSUME NEW x \in Symbols, x # Slash, x # Double
      PROVE  /\ x = Line => json(Cons(x, t)) = Cons(Slash, Cons(Letter, j))
             /\ x # Line => json(Cons(x, t)) = Cons(x, j)
  <2>1. Escape(Slash, Slash, Cons(x, t)) = Cons(x, s)
    BY <1>6, NameFacts, EscapeOther
  <2> HIDE DEF s
  <2>2. Escape(Double, Double, Cons(x, s)) = Cons(x, q)
    BY <1>1, <1>6, NameFacts, EscapeOther
  <2> HIDE DEF q
  <2>3. x = Line => Escape(Line, Letter, Cons(x, q)) = Cons(Slash, Cons(Letter, j))
    BY <1>1, NameFacts, EscapeOne
  <2>4. x # Line => Escape(Line, Letter, Cons(x, q)) = Cons(x, j)
    BY <1>1, NameFacts, EscapeOther
  <2> HIDE DEF j
  <2> QED  BY <1>0, <2>1, <2>2, <2>3, <2>4
<1>7. json(t) = j
  BY <1>0
<1> HIDE DEF j
<1> QED  BY <1>1, <1>2, <1>4, <1>5, <1>6, <1>7, NameFacts

LEMMA JsStdinFacts ==
  ASSUME NEW t \in Text
  PROVE  /\ jsStdin(t) \in Text /\ jsStdin(<<>>) = <<>>
         /\ jsStdin(Cons(Slash, t))
              = Cons(Slash, Cons(Slash, Cons(Slash, Cons(Slash, jsStdin(t)))))
         /\ jsStdin(Cons(Double, t)) = Cons(Slash, Cons(Slash, Cons(Double, jsStdin(t))))
         /\ jsStdin(Cons(Line, t)) = Cons(Slash, Cons(Slash, Cons(Letter, jsStdin(t))))
         /\ \A x \in Symbols \ {Slash, Double, Line} :
              jsStdin(Cons(x, t)) = Cons(x, jsStdin(t))
<1>0. \A u : jsStdin(u) = Escape(Slash, Slash, json(u))
  BY DEF jsStdin, Escape, Slash
<1> DEFINE j == json(t)
           s == Escape(Slash, Slash, j)
<1>1. j \in Text /\ s \in Text /\ json(<<>>) = <<>>
  BY NameFacts, JsonFacts, EscapeType
<1>2. jsStdin(<<>>) = <<>>
  BY <1>0, <1>1, NameFacts, EscapeEmpty
<1>3. \A x \in Symbols \ {Slash, Double, Line} : json(Cons(x, t)) = Cons(x, j)
  BY JsonFacts
<1>4. /\ json(Cons(Slash, t)) = Cons(Slash, Cons(Slash, j))
      /\ json(Cons(Double, t)) = Cons(Slash, Cons(Double, j))
      /\ json(Cons(Line, t)) = Cons(Slash, Cons(Letter, j))
  BY JsonFacts
<1> HIDE DEF j
<1>5. \A x \in Symbols \ {Slash} :
        /\ Cons(x, j) \in Text
        /\ Escape(Slash, Slash, Cons(x, j)) = Cons(x, s)
  <2> SUFFICES ASSUME NEW x \in Symbols, x # Slash
               PROVE  /\ Cons(x, j) \in Text
                      /\ Escape(Slash, Slash, Cons(x, j)) = Cons(x, s)
    OBVIOUS
  <2>1. Cons(x, j) \in Text
    BY <1>1, HeadFacts
  <2>2. Slash \in Symbols
    BY NameFacts
  <2>3. Escape(Slash, Slash, Cons(x, j)) = Cons(x, s)
    BY <1>1, <2>2, EscapeOther
  <2> QED  BY <2>1, <2>3
<1>6. /\ Cons(Slash, j) \in Text
      /\ Escape(Slash, Slash, Cons(Slash, j)) = Cons(Slash, Cons(Slash, s))
  <2>1. Slash \in Symbols /\ j \in Text
    BY <1>1, NameFacts
  <2>2. Cons(Slash, j) \in Text
    BY <2>1, HeadFacts
  <2>3. Escape(Slash, Slash, Cons(Slash, j)) = Cons(Slash, Cons(Slash, s))
    BY <2>1, EscapeOne
  <2> QED  BY <2>2, <2>3
<1>7. \A u \in Text :
        Escape(Slash, Slash, Cons(Slash, u)) = Cons(Slash, Cons(Slash, Escape(Slash, Slash, u)))
  BY NameFacts, EscapeOne
<1>8. s = jsStdin(t)
  BY <1>0 DEF j
<1> HIDE DEF s
<1>9. jsStdin(Cons(Slash, t)) = Cons(Slash, Cons(Slash, Cons(Slash, Cons(Slash, s))))
  BY <1>0, <1>4, <1>6, <1>7
<1>10. \A x \in Symbols \ {Slash} :
         Escape(Slash, Slash, Cons(Slash, Cons(x, j))) = Cons(Slash, Cons(Slash, Cons(x, s)))
  BY <1>5, <1>7
<1>11. /\ jsStdin(Cons(Double, t)) = Cons(Slash, Cons(Slash, Cons(Double, s)))
       /\ jsStdin(Cons(Line, t)) = Cons(Slash, Cons(Slash, Cons(Letter, s)))
  BY <1>0, <1>4, <1>10, NameFacts
<1>12. \A x \in Symbols \ {Slash, Double, Line} : jsStdin(Cons(x, t)) = Cons(x, s)
  BY <1>0, <1>3, <1>5
<1> QED  BY <1>1, <1>2, <1>8, <1>9, <1>11, <1>12

-----------------------------------------------------------------------------
(* Replacing the slots of a template *)

LEMMA FilledIs ==
  ASSUME NEW t, NEW fill
  PROVE  Filled(t, fill)
           = Cat(Cat(Cat(Cat(t.before, fill[t.first]), t.between), fill[t.second]), t.after)
BY Zenon DEF Filled, Cat

FillsSlot(module, slot, new, s, t) ==
  Replace(module, <<slot, new>>, Cat(s, Cat(Markers[slot], t))) = Cat(s, Cat(new, t))

\* A marker that stands in one place.
LEMMA ReplaceSlot ==
  ASSUME NEW module, NEW slot, NEW new \in Text, NEW s \in Text, NEW t \in Text,
         Markers[slot] \in Text, Markers[slot] # <<>>, Clear(Markers[slot], s),
         module = "javascript" => ~HasPattern(new),
         module # "javascript" => Clear(Markers[slot], t)
  PROVE  FillsSlot(module, slot, new, s, t)
<1> USE DEF FillsSlot
<1> DEFINE old == Markers[slot]
           u == Cat(old, t)
<1>1. old \in Text /\ old # <<>> /\ Clear(old, s) /\ u \in Text
  BY CatFacts
<1>2. <<slot, new>>[1] = slot /\ <<slot, new>>[2] = new
  OBVIOUS
<1>3. CASE module = "javascript"
  <2>1. Substituted(new, s, old, t) = new
    BY <1>3, SubstituteNothing
  <2> HIDE DEF old
  <2>2. jsReplace(old, new, Cat(s, Cat(old, t))) = Cat(s, Cat(new, t))
    BY <1>1, <2>1, JsReplaceFirst
  <2> QED  BY <1>2, <1>3, <2>2, Zenon DEF Replace, old
<1>4. CASE module # "javascript"
  <2>1. Clear(old, t)
    BY <1>4
  <2> HIDE DEF old
  <2>2. strReplace(old, new, t) = t
    BY <1>1, <2>1, ClearNothing
  <2>3. strReplace(old, new, u) = Cat(new, t)
    BY <1>1, <2>2, ReplaceMatch
  <2> HIDE DEF u
  <2>4. strReplace(old, new, Cat(s, u)) = Cat(s, Cat(new, t))
    BY <1>1, <2>3, ReplaceClear
  <2> QED  BY <1>2, <1>4, <2>4, Zenon DEF Replace, old, u
<1> QED  BY <1>3, <1>4

LEMMA CatFive ==
  ASSUME NEW a \in Text, NEW b \in Text, NEW c \in Text, NEW d \in Text, NEW e \in Text
  PROVE  /\ Cat(Cat(Cat(Cat(a, b), c), d), e) = Cat(a, Cat(b, Cat(c, Cat(d, e))))
         /\ Cat(Cat(Cat(Cat(a, b), c), d), e) = Cat(Cat(Cat(a, b), c), Cat(d, e))
<1>1. Cat(a, b) \in Text /\ Cat(d, e) \in Text /\ Cat(c, Cat(d, e)) \in Text
  BY CatFacts
<1>2. Cat(Cat(a, b), c) \in Text
  BY <1>1, CatFacts
<1>3. Cat(Cat(Cat(Cat(a, b), c), d), e) = Cat(Cat(Cat(a, b), c), Cat(d, e))
  BY <1>2, CatAssoc
<1>4. Cat(Cat(Cat(a, b), c), Cat(d, e)) = Cat(Cat(a, b), Cat(c, Cat(d, e)))
  BY <1>1, CatAssoc
<1>5. Cat(Cat(a, b), Cat(c, Cat(d, e))) = Cat(a, Cat(b, Cat(c, Cat(d, e))))
  BY <1>1, CatAssoc
<1> QED  BY <1>3, <1>4, <1>5

FillsBoth(module, first, x, second, y, b, m, a) ==
  Replace(module, <<second, y>>, Replace(module, <<first, x>>,
    Cat(Cat(Cat(Cat(b, Markers[first]), m), Markers[second]), a)))
      = Cat(Cat(Cat(Cat(b, x), m), y), a)

\* The two fills of a template, in the order of the slots,
LEMMA FirstThenSecond ==
  ASSUME NEW module, NEW b \in Text, NEW m \in Text, NEW a \in Text,
         NEW first, NEW second, NEW x \in Text, NEW y \in Text,
         Markers[first] \in Text, Markers[first] # <<>>,
         Markers[second] \in Text, Markers[second] # <<>>,
         Clear(Markers[first], b), Clear(Markers[second], Cat(Cat(b, x), m)),
         module = "javascript" => ~HasPattern(x) /\ ~HasPattern(y),
         module # "javascript" => /\ Clear(Markers[first], Cat(m, Cat(Markers[second], a)))
                                  /\ Clear(Markers[second], a)
  PROVE  FillsBoth(module, first, x, second, y, b, m, a)
<1> DEFINE M == Markers[first]
           N == Markers[second]
           t == Cat(m, Cat(N, a))
           s == Cat(Cat(b, x), m)
<1>1. M \in Text /\ N \in Text /\ M # <<>> /\ N # <<>> /\ t \in Text /\ s \in Text
  BY CatFacts
<1>2. Clear(M, b) /\ Clear(N, s)
  OBVIOUS
<1>3. module # "javascript" => Clear(M, t) /\ Clear(N, a)
  OBVIOUS
<1> HIDE DEF M, N
<1>0. M \in Text /\ N \in Text
  BY <1>1
<1>4. Cat(Cat(Cat(Cat(b, M), m), N), a) = Cat(b, Cat(M, t))
  BY <1>0, CatFive
<1>5. Cat(b, Cat(x, t)) = Cat(s, Cat(N, a))
  <2>1. Cat(Cat(Cat(Cat(b, x), m), N), a) = Cat(b, Cat(x, t))
    BY <1>0, CatFive
  <2>2. Cat(Cat(Cat(Cat(b, x), m), N), a) = Cat(s, Cat(N, a))
    BY <1>0, CatFive
  <2> QED  BY <2>1, <2>2
<1>6. Cat(s, Cat(y, a)) = Cat(Cat(s, y), a)
  BY CatFive
<1> USE DEF M, N
<1> HIDE DEF t, s
<1>7. FillsSlot(module, first, x, b, t)
  BY <1>1, <1>2, <1>3, ReplaceSlot
<1>8. FillsSlot(module, second, y, s, a)
  BY <1>1, <1>2, <1>3, ReplaceSlot
<1> HIDE DEF M, N
<1>9. Replace(module, <<first, x>>, Cat(b, Cat(M, t))) = Cat(b, Cat(x, t))
  BY <1>7, Zenon DEF FillsSlot, M
<1>10. Replace(module, <<second, y>>, Cat(s, Cat(N, a))) = Cat(s, Cat(y, a))
  BY <1>8, Zenon DEF FillsSlot, N
<1> QED  BY <1>4, <1>5, <1>6, <1>9, <1>10 DEF M, N, s, FillsBoth

FillsBackwards(module, first, x, second, y, b, m, a) ==
  Replace(module, <<first, x>>, Replace(module, <<second, y>>,
    Cat(Cat(Cat(Cat(b, Markers[first]), m), Markers[second]), a)))
      = Cat(Cat(Cat(Cat(b, x), m), y), a)

\* and the other way round.
LEMMA SecondThenFirst ==
  ASSUME NEW module, NEW b \in Text, NEW m \in Text, NEW a \in Text,
         NEW first, NEW second, NEW x \in Text, NEW y \in Text,
         Markers[first] \in Text, Markers[first] # <<>>,
         Markers[second] \in Text, Markers[second] # <<>>,
         Clear(Markers[first], b), Clear(Markers[second], Cat(Cat(b, Markers[first]), m)),
         module # "javascript", Clear(Markers[second], a),
         Clear(Markers[first], Cat(m, Cat(y, a)))
  PROVE  FillsBackwards(module, first, x, second, y, b, m, a)
<1> DEFINE M == Markers[first]
           N == Markers[second]
           t == Cat(m, Cat(y, a))
           s == Cat(Cat(b, M), m)
<1>1. M \in Text /\ N \in Text /\ M # <<>> /\ N # <<>> /\ t \in Text /\ s \in Text
  BY CatFacts
<1>2. Clear(M, b) /\ Clear(N, s) /\ Clear(M, t) /\ Clear(N, a)
  OBVIOUS
<1> HIDE DEF M, N
<1>0. M \in Text /\ N \in Text
  BY <1>1
<1>4. Cat(Cat(s, N), a) = Cat(s, Cat(N, a))
  BY <1>0, CatFive
<1>5. Cat(s, Cat(y, a)) = Cat(b, Cat(M, t))
  <2>1. Cat(Cat(Cat(Cat(b, M), m), y), a) = Cat(b, Cat(M, t))
    BY <1>0, CatFive
  <2>2. Cat(Cat(Cat(Cat(b, M), m), y), a) = Cat(s, Cat(y, a))
    BY <1>0, CatFive
  <2> QED  BY <2>1, <2>2
<1>6. Cat(b, Cat(x, t)) = Cat(Cat(Cat(Cat(b, x), m), y), a)
  BY CatFive
<1> USE DEF M, N
<1> HIDE DEF t, s
<1>7. FillsSlot(module, second, y, s, a)
  BY <1>1, <1>2, ReplaceSlot
<1>8. FillsSlot(module, first, x, b, t)
  BY <1>1, <1>2, ReplaceSlot
<1> HIDE DEF M, N
<1>9. Replace(module, <<second, y>>, Cat(s, Cat(N, a))) = Cat(s, Cat(y, a))
  BY <1>7, Zenon DEF FillsSlot, N
<1>10. Replace(module, <<first, x>>, Cat(b, Cat(M, t))) = Cat(b, Cat(x, t))
  BY <1>8, Zenon DEF FillsSlot, M
<1> QED  BY <1>4, <1>5, <1>6, <1>9, <1>10 DEF M, N, s, FillsBackwards

-----------------------------------------------------------------------------
(* The markers and the templates *)

LEMMA MarkerFacts ==
  /\ \A slot \in Slots : Markers[slot] \in Text /\ Markers[slot] # <<>>
  /\ \A slot \in {"prefix", "main"} : Markers[slot] = <<"//$$__", slot>>
  /\ \A slot \in {"code", "stdin", "cases"} : Markers[slot] = <<"$", "$", slot, "$", "$">>
<1>1. ASSUME NEW slot \in {"prefix", "main"}
      PROVE  /\ Markers[slot] = <<"//$$__", slot>>
             /\ Markers[slot] \in Text /\ Markers[slot] # <<>>
  <2>1. Markers[slot] = <<"//$$__", slot>>
    BY DEF Markers, Slots
  <2>2. slot \in Symbols /\ "//$$__" \in Symbols
    BY CodeSymbolFacts DEF CodeSymbols, Slots
  <2> QED  BY <2>1, <2>2 DEF Text
<1>2. ASSUME NEW slot \in {"code", "stdin", "cases"}
      PROVE  /\ Markers[slot] = <<"$", "$", slot, "$", "$">>
             /\ Markers[slot] \in Text /\ Markers[slot] # <<>>
  <2>1. Markers[slot] = <<"$", "$", slot, "$", "$">>
    BY DEF Markers, Slots
  <2>2. slot \in Symbols /\ "$" \in Symbols
    BY CodeSymbolFacts DEF CodeSymbols, Slots
  <2> QED  BY <2>1, <2>2 DEF Text
<1> QED  BY <1>1, <1>2 DEF Slots

\* What a marker is made of.
LEMMA MarkerSymbols ==
  /\ \A slot \in {"prefix", "main"} :
       /\ Len(Markers[slot]) = 2
       /\ Markers[slot][1] = "//$$__" /\ Markers[slot][2] = slot
  /\ \A slot \in {"code", "stdin", "cases"} :
       /\ Len(Markers[slot]) = 5
       /\ \A d \in {1, 2, 4, 5} : Markers[slot][d] = "$"
       /\ Markers[slot][3] = slot
<1>1. ASSUME NEW slot \in {"prefix", "main"}
      PROVE  /\ Len(Markers[slot]) = 2
             /\ Markers[slot][1] = "//$$__" /\ Markers[slot][2] = slot
  <2>1. Markers[slot] = <<"//$$__", slot>>
    BY MarkerFacts
  <2> QED  BY <2>1
<1>2. ASSUME NEW slot \in {"code", "stdin", "cases"}
      PROVE  /\ Len(Markers[slot]) = 5
             /\ \A d \in {1, 2, 4, 5} : Markers[slot][d] = "$"
             /\ Markers[slot][3] = slot
  <2>1. Markers[slot] = <<"$", "$", slot, "$", "$">>
    BY MarkerFacts
  <2> QED  BY <2>1
<1> QED  BY <1>1, <1>2

LEMMA ClearFirst ==
  ASSUME NEW old \in Text, old # <<>>, NEW s \in Text, \A i \in 1..Len(s) : s[i] # old[1]
  PROVE  Clear(old, s)
<1>1. Len(old) \in Nat \ {0} /\ Len(s) \in Nat
  BY TextFacts
<1>2. \A i \in 1..Len(s) : i + 1 - 1 = i /\ i <= Len(s)
  BY <1>1
<1> QED  BY <1>1, <1>2 DEF Clear

\* A symbol that no marker begins with.
LEMMA ClearSymbol ==
  ASSUME NEW slot \in Slots, NEW x \in Symbols, x \notin {"//$$__", "$"}
  PROVE  <<x>> \in Text /\ Clear(Markers[slot], <<x>>)
<1>1. Markers[slot] \in Text /\ Markers[slot] # <<>>
  BY MarkerFacts
<1>2. Markers[slot][1] \in {"//$$__", "$"}
  BY MarkerSymbols DEF Slots
<1> DEFINE s == <<x>>
<1>3. s \in Text /\ Len(s) = 1 /\ s[1] = x
  BY SymbolFacts
<1> HIDE DEF s
<1>4. \A i \in 1..Len(s) : s[i] # Markers[slot][1]
  BY <1>2, <1>3
<1>5. Clear(Markers[slot], s)
  BY <1>1, <1>3, <1>4, ClearFirst
<1> QED  BY <1>3, <1>5 DEF s

\* A symbol that is in no marker ends a text without the marker.
LEMMA ClearAfter ==
  ASSUME NEW slot \in Slots, NEW t \in Text, ~Occurs(Markers[slot], t),
         NEW x \in Symbols \ ({"//$$__", "$"} \cup Slots)
  PROVE  Clear(Markers[slot], Cat(t, <<x>>))
<1> DEFINE old == Markers[slot]
<1>1. old \in Text /\ old # <<>> /\ Len(old) \in Nat
  BY MarkerFacts, TextFacts
<1>2. ASSUME NEW d \in 1..Len(old)
      PROVE  old[d] # x
  <2>1. CASE slot \in {"prefix", "main"}
    <3>0. Len(old) = 2
      BY <2>1, MarkerSymbols
    <3>1. d \in {1, 2}
      <4> HIDE DEF old
      <4> QED  BY <3>0
    <3> QED  BY <2>1, <3>1, MarkerSymbols DEF Slots
  <2>2. CASE slot \in {"code", "stdin", "cases"}
    <3>0. Len(old) = 5
      BY <2>2, MarkerSymbols
    <3>1. d \in {1, 2, 3, 4, 5}
      <4> HIDE DEF old
      <4> QED  BY <3>0
    <3> QED  BY <2>2, <3>1, MarkerSymbols DEF Slots
  <2> QED  BY <2>1, <2>2 DEF Slots
<1> HIDE DEF old
<1>3. ~Occurs(old, t)
  BY DEF old
<1>4. Clear(old, Cat(t, <<x>>))
  BY <1>1, <1>2, <1>3, ClearBefore
<1> QED  BY <1>4 DEF old

LEMMA ClearBeforeText ==
  ASSUME NEW slot \in Slots, NEW t \in Text, ~Occurs(Markers[slot], t),
         NEW s \in Text, s # <<>>, Clear(Markers[slot], s),
         s[1] \notin {"//$$__", "$"} \cup Slots
  PROVE  Clear(Markers[slot], Cat(t, s))
<1> DEFINE old == Markers[slot]
           x == s[1]
           u == From(s, 2)
           h == <<x>>
<1>1. x \in Symbols /\ u \in Text /\ s = Cons(x, u) /\ h \in Text /\ old \in Text
  BY HeadAndRest, SymbolFacts, MarkerFacts
<1>2. Clear(old, Cat(t, h))
  BY <1>1, ClearAfter
<1>3. s = Cat(h, u)
  BY <1>1 DEF Cons
<1> HIDE DEF x, u, h
<1>4. Clear(old, u)
  BY <1>1, ClearTail
<1> HIDE DEF old
<1>5. Cat(t, h) \in Text /\ Cat(Cat(t, h), u) = Cat(t, s)
  BY <1>1, <1>3, CatFacts, CatAssoc
<1>6. Clear(old, Cat(Cat(t, h), u))
  BY <1>1, <1>2, <1>4, <1>5, ClearConcat
<1> QED  BY <1>5, <1>6 DEF old

\* No marker is another one.
LEMMA MarkersDiffer ==
  ASSUME NEW slot \in {"code", "stdin", "cases"}, NEW other \in {"code", "stdin", "cases"},
         slot # other
  PROVE  ~Occurs(Markers[slot], Markers[other])
<1> DEFINE old == Markers[slot]
           t == Markers[other]
<1>1. /\ old \in Text /\ t \in Text /\ Len(old) = 5 /\ Len(t) = 5 /\ old[3] # t[3]
      /\ DOMAIN old = 1..5 /\ DOMAIN t = 1..5
  BY MarkerFacts, MarkerSymbols, TextFacts DEF Slots
<1> HIDE DEF old, t
<1>2. ASSUME NEW i \in 1..5, At(t, i, old)
      PROVE  FALSE
  <2>1. i = 1
    BY <1>1, <1>2 DEF At
  <2>2. t[1 + 3 - 1] = old[3]
    BY <1>1, <1>2, <2>1 DEF At
  <2> QED  BY <1>1, <2>2
<1>3. ~Occurs(old, t)
  BY <1>1, <1>2 DEF Occurs, Places
<1> QED  BY <1>3 DEF old, t

LEMMA ClearMain == Clear(Markers["prefix"], Markers["main"])
<1> DEFINE old == Markers["prefix"]
           t == Markers["main"]
<1>1. /\ Len(old) = 2 /\ Len(t) = 2 /\ old[1] = "//$$__" /\ old[2] = "prefix"
      /\ t[2] = "main"
  BY MarkerSymbols
<1> HIDE DEF old, t
<1>2. ASSUME NEW i \in 1..Len(t)
      PROVE  \E d \in 1..Len(old) : i + d - 1 <= Len(t) /\ t[i + d - 1] # old[d]
  <2>1. CASE i = 1
    <3>1. 2 \in 1..Len(old) /\ i + 2 - 1 = 2
      BY <1>1, <2>1
    <3> QED  BY <1>1, <3>1
  <2>2. CASE i = 2
    <3>1. 1 \in 1..Len(old) /\ i + 1 - 1 = 2
      BY <1>1, <2>2
    <3> QED  BY <1>1, <3>1
  <2> QED  BY <1>1, <2>1, <2>2
<1>3. Clear(old, t)
  BY <1>2 DEF Clear
<1> QED  BY <1>3 DEF old, t

-----------------------------------------------------------------------------
(* Every module's templates *)

InPlace(r) ==
  LET fills == Fills(r)
      template == Template(r.module, r.kind)
  IN Filled(template, [slot \in {template.first, template.second} |->
       IF slot = fills[1][1] THEN fills[1][2] ELSE fills[2][2]])

LEMMA RequestFacts ==
  ASSUME NEW r \in RequestType
  PROVE  /\ r.source \in Text /\ r.text \in Text
         /\ r.module \in {"cxx", "csharp", "java", "javascript", "python"}
         /\ r.kind \in {"io", "tests"}
BY DEF RequestType, Compiled

\* The texts of the templates by names, which the provers do not look into.
CompiledBetween == <<"main() {">>
CompiledAfter   == <<"}">>
TestsBefore     == <<"buffer output">>
TestsBetween    == <<"vectors = []">>
TestsAfter      == <<"print vectors">>
JsBefore        == <<"JSON.parse('{\"data\":\"">>
JsBetween       == <<"\"", "}", "'", "redirect">>
JsAfter         == <<"}());">>
PyBefore        == <<"StringIO('''">>
PyBetween       == <<"'", "'", "'", ")">>

Parts(b, first, m, second, a) ==
  [before |-> b, first |-> first, between |-> m, second |-> second, after |-> a]

LEMMA TemplateIs ==
  ASSUME NEW module, NEW kind
  PROVE  /\ module \in Compiled => Template(module, kind) =
              Parts(<<>>, "prefix", CompiledBetween, "main", CompiledAfter)
         /\ module \notin Compiled /\ kind = "tests" => Template(module, kind) =
              Parts(TestsBefore, "code", TestsBetween, "cases", TestsAfter)
         /\ module = "javascript" /\ kind # "tests" => Template(module, kind) =
              Parts(JsBefore, "stdin", JsBetween, "code", JsAfter)
         /\ module = "python" /\ kind # "tests" => Template(module, kind) =
              Parts(PyBefore, "stdin", PyBetween, "code", <<>>)
<1>1. "javascript" \notin Compiled /\ "python" \notin Compiled /\ "python" # "javascript"
  BY DEF Compiled
<1> QED  BY <1>1, Zenon
         DEF Template, Parts, CompiledBetween, CompiledAfter, TestsBefore, TestsBetween,
             TestsAfter, JsBefore, JsBetween, JsAfter, PyBefore, PyBetween

\* A symbol of the templates,
LEMMA TemplateSymbol ==
  ASSUME NEW x \in {"main() {", "}", "buffer output", "vectors = []", "print vectors",
                    "JSON.parse('{\"data\":\"", "\"", "}());", "StringIO('''", "LF",
                    "invocation", "#include \"redirect.h\""}
  PROVE  /\ x \in Symbols /\ <<x>> \in Text
         /\ \A slot \in Slots :
              /\ Clear(Markers[slot], <<x>>)
              /\ \A t \in Text : ~Occurs(Markers[slot], t) => Clear(Markers[slot], Cat(t, <<x>>))
<1>1. x \in Symbols
  BY Zenon, SymbolsAssumption DEF CodeSymbols, Braces
<1>2. x \notin {"//$$__", "$"}
  BY Zenon
<1>3. x \notin Slots
  BY Zenon DEF Slots
<1>4. x \in Symbols \ ({"//$$__", "$"} \cup Slots)
  BY <1>1, <1>2, <1>3, Zenon
<1>5. /\ <<x>> \in Text
      /\ \A slot \in Slots : Clear(Markers[slot], <<x>>)
  BY <1>1, <1>2, ClearSymbol, SymbolFacts, Zenon
<1>6. \A slot \in Slots, t \in Text :
        ~Occurs(Markers[slot], t) => Clear(Markers[slot], Cat(t, <<x>>))
  BY <1>4, ClearAfter, Zenon
<1> QED  BY <1>1, <1>5, <1>6, Zenon

\* and their texts.
LEMMA TemplateTexts ==
  /\ {<<>>, CompiledBetween, CompiledAfter, TestsBefore, TestsBetween, TestsAfter, JsBefore,
      JsBetween, JsAfter, PyBefore, PyBetween} \subseteq Text
  /\ \A slot \in Slots :
       /\ \A s \in {<<>>, CompiledBetween, CompiledAfter, TestsBefore, TestsBetween, TestsAfter,
                    JsBefore, JsBetween, JsAfter, PyBefore, PyBetween} : Clear(Markers[slot], s)
       /\ \A s \in {CompiledBetween, TestsBetween, TestsAfter, JsBetween, PyBetween}, t \in Text :
            ~Occurs(Markers[slot], t) => Clear(Markers[slot], Cat(t, s))
<1>1. <<>> \in Text /\ Len(<<>>) = 0
  BY EmptySeq DEF Text
<1>2. \A slot \in Slots : Clear(Markers[slot], <<>>)
  BY <1>1 DEF Clear
<1> DEFINE X == Symbols \ ({"//$$__", "$"} \cup Slots)
           Fits(s) == /\ s \in Text
                      /\ \A slot \in Slots :
                           /\ Clear(Markers[slot], s)
                           /\ \A t \in Text : ~Occurs(Markers[slot], t)
                                              => Clear(Markers[slot], Cat(t, s))
<1>3. ASSUME NEW x \in X, NEW y \in X, NEW z \in X, NEW w \in X
      PROVE  Fits(<<x, y, z, w>>)
  <2> DEFINE s == <<x, y, z, w>>
  <2>1. s \in Text /\ Len(s) = 4 /\ \A i \in 1..4 : s[i] \notin {"//$$__", "$"} \cup Slots
    BY DEF Text
  <2>0. s # <<>>
    OBVIOUS
  <2> HIDE DEF s
  <2>2. \A slot \in Slots : /\ Markers[slot] \in Text /\ Markers[slot] # <<>>
                            /\ Markers[slot][1] \in {"//$$__", "$"}
    BY MarkerFacts, MarkerSymbols DEF Slots
  <2>3. ASSUME NEW slot \in Slots
        PROVE  Clear(Markers[slot], s)
    <3>1. \A i \in 1..Len(s) : s[i] # Markers[slot][1]
      BY <2>1, <2>2
    <3> QED  BY <2>1, <2>2, <3>1, ClearFirst
  <2>4. s[1] \notin {"//$$__", "$"} \cup Slots
    BY <2>1
  <2>5. \A slot \in Slots : \A t \in Text :
          ~Occurs(Markers[slot], t) => Clear(Markers[slot], Cat(t, s))
    BY <2>0, <2>1, <2>3, <2>4, ClearBeforeText
  <2> QED  BY <2>1, <2>3, <2>5 DEF s
<1>4. {"\"", "}", "'", "redirect", ")"} \subseteq X
  BY Zenon, SymbolsAssumption DEF CodeSymbols, Braces, Slots
<1>5. Fits(JsBetween) /\ Fits(PyBetween)
  <2> DEFINE Q == "\""
             B == "}"
             A == "'"
             R == "redirect"
             P == ")"
  <2>1. Q \in X /\ B \in X /\ A \in X /\ R \in X /\ P \in X
    BY <1>4, Zenon
  <2>2. JsBetween = <<Q, B, A, R>> /\ PyBetween = <<A, A, A, P>>
    BY Zenon DEF JsBetween, PyBetween
  <2> HIDE DEF Fits
  <2>3. \A x, y, z, w \in X : Fits(<<x, y, z, w>>)
    BY <1>3, Zenon
  <2> HIDE DEF Q, B, A, R, P, X
  <2>4. Fits(JsBetween)
    BY <2>1, <2>2, <2>3
  <2>5. Fits(PyBetween)
    BY <2>1, <2>2, <2>3
  <2> QED  BY <2>4, <2>5
<1>6. \A s \in {CompiledBetween, CompiledAfter, TestsBefore, TestsBetween, TestsAfter,
                JsBefore, JsAfter, PyBefore} :
        s \in Text /\ \A slot \in Slots : Clear(Markers[slot], s)
  BY TemplateSymbol, Zenon DEF CompiledBetween, CompiledAfter, TestsBefore, TestsBetween,
                               TestsAfter, JsBefore, JsAfter, PyBefore
<1>7. \A slot \in Slots : \A s \in {CompiledBetween, TestsBetween, TestsAfter}, t \in Text :
            ~Occurs(Markers[slot], t) => Clear(Markers[slot], Cat(t, s))
  BY TemplateSymbol, Zenon DEF CompiledBetween, TestsBetween, TestsAfter
<1> QED  BY <1>1, <1>2, <1>5, <1>6, <1>7, Zenon
\* The fills of a template, one after the other.
FillsIn(r, b, first, m, second, a, f, g) ==
  Generated(r) = Replace(r.module, g, Replace(r.module, f,
    Cat(Cat(Cat(Cat(b, Markers[first]), m), Markers[second]), a)))

LEMMA GeneratedSteps ==
  ASSUME NEW r, NEW b, NEW first, NEW m, NEW second, NEW a, NEW f, NEW g,
         Template(r.module, r.kind) = Parts(b, first, m, second, a), Fills(r) = <<f, g>>
  PROVE  FillsIn(r, b, first, m, second, a, f, g)
<1> DEFINE t == Parts(b, first, m, second, a)
           fills == Fills(r)
<1>1. t.before = b /\ t.first = first /\ t.between = m /\ t.second = second /\ t.after = a
  BY DEF Parts
<1>2. fills[1] = f /\ fills[2] = g
  OBVIOUS
<1>3. Generated(r) = Replace(r.module, fills[2], Replace(r.module, fills[1], Filled(t, Markers)))
  BY Zenon DEF Generated
<1> HIDE DEF t, fills
<1>4. Filled(t, Markers) = Cat(Cat(Cat(Cat(b, Markers[first]), m), Markers[second]), a)
  BY <1>1, FilledIs, Zenon
<1> QED  BY <1>2, <1>3, <1>4, Zenon DEF FillsIn

\* The generated program of the fills of a template.
LEMMA GeneratedIs ==
  ASSUME NEW r, NEW b, NEW first, NEW m, NEW second, NEW a, NEW x, NEW y, first # second,
         Template(r.module, r.kind) = Parts(b, first, m, second, a)
  PROVE  /\ /\ Fills(r) = << <<first, x>>, <<second, y>> >>
            /\ FillsBoth(r.module, first, x, second, y, b, m, a)
            => Generated(r) = InPlace(r) /\ InPlace(r) = Cat(Cat(Cat(Cat(b, x), m), y), a)
         /\ /\ Fills(r) = << <<second, y>>, <<first, x>> >>
            /\ FillsBackwards(r.module, first, x, second, y, b, m, a)
            => Generated(r) = InPlace(r) /\ InPlace(r) = Cat(Cat(Cat(Cat(b, x), m), y), a)
<1> DEFINE t == Parts(b, first, m, second, a)
           fills == Fills(r)
           fill == [slot \in {t.first, t.second} |->
                     IF slot = fills[1][1] THEN fills[1][2] ELSE fills[2][2]]
<1>1. t.before = b /\ t.first = first /\ t.between = m /\ t.second = second /\ t.after = a
  BY DEF Parts
<1>2. InPlace(r) = Filled(t, fill)
  BY Zenon DEF InPlace
<1>3. Generated(r) = Replace(r.module, fills[2], Replace(r.module, fills[1], Filled(t, Markers)))
  BY Zenon DEF Generated
<1>4. ASSUME \/ fills = << <<first, x>>, <<second, y>> >>
             \/ fills = << <<second, y>>, <<first, x>> >>
      PROVE  fill[first] = x /\ fill[second] = y
  <2> HIDE DEF t, fills
  <2> QED  BY <1>1, <1>4
<1> HIDE DEF t, fills, fill
<1>5. Filled(t, Markers) = Cat(Cat(Cat(Cat(b, Markers[first]), m), Markers[second]), a)
  BY <1>1, FilledIs, Zenon
<1>6. Filled(t, fill) = Cat(Cat(Cat(Cat(b, fill[first]), m), fill[second]), a)
  BY <1>1, FilledIs, Zenon
<1>7. ASSUME fills = << <<first, x>>, <<second, y>> >>,
             FillsBoth(r.module, first, x, second, y, b, m, a)
      PROVE  Generated(r) = InPlace(r) /\ InPlace(r) = Cat(Cat(Cat(Cat(b, x), m), y), a)
  <2>1. fills[1] = <<first, x>> /\ fills[2] = <<second, y>>
    BY <1>7
  <2>2. fill[first] = x /\ fill[second] = y
    BY <1>4, <1>7
  <2> QED  BY <1>2, <1>3, <1>5, <1>6, <1>7, <2>1, <2>2, Zenon DEF FillsBoth
<1>8. ASSUME fills = << <<second, y>>, <<first, x>> >>,
             FillsBackwards(r.module, first, x, second, y, b, m, a)
      PROVE  Generated(r) = InPlace(r) /\ InPlace(r) = Cat(Cat(Cat(Cat(b, x), m), y), a)
  <2>1. fills[1] = <<second, y>> /\ fills[2] = <<first, x>>
    BY <1>8
  <2>2. fill[first] = x /\ fill[second] = y
    BY <1>4, <1>8
  <2> QED  BY <1>2, <1>3, <1>5, <1>6, <1>8, <2>1, <2>2, Zenon DEF FillsBackwards
<1> QED  BY <1>7, <1>8, Zenon DEF fills

LEMMA GeneratedInOrder ==
  ASSUME NEW r, NEW b, NEW first, NEW m, NEW second, NEW a, NEW x, NEW y, first # second,
         Template(r.module, r.kind) = Parts(b, first, m, second, a),
         Fills(r) = << <<first, x>>, <<second, y>> >>,
         FillsBoth(r.module, first, x, second, y, b, m, a)
  PROVE  Generated(r) = InPlace(r) /\ InPlace(r) = Cat(Cat(Cat(Cat(b, x), m), y), a)
BY GeneratedIs

LEMMA GeneratedBackwards ==
  ASSUME NEW r, NEW b, NEW first, NEW m, NEW second, NEW a, NEW x, NEW y, first # second,
         Template(r.module, r.kind) = Parts(b, first, m, second, a),
         Fills(r) = << <<second, y>>, <<first, x>> >>,
         FillsBackwards(r.module, first, x, second, y, b, m, a)
  PROVE  Generated(r) = InPlace(r) /\ InPlace(r) = Cat(Cat(Cat(Cat(b, x), m), y), a)
BY GeneratedIs

\* A later marker is not in a text that is followed by the text between the slots.
LEMMA CompiledGenerated ==
  ASSUME NEW r, NEW x \in Text, NEW y \in Text, r.module \in Compiled,
         Fills(r) = << <<"prefix", x>>, <<"main", y>> >>,
         Clear(Markers["main"], Cat(x, CompiledBetween))
  PROVE  /\ Generated(r) = InPlace(r)
         /\ InPlace(r) = Cat(Cat(Cat(x, CompiledBetween), y), CompiledAfter)
<1> DEFINE M == Markers["prefix"]
           N == Markers["main"]
           m == CompiledBetween
           a == CompiledAfter
           e == <<>>
<1>0. "prefix" \in Slots /\ "main" \in Slots /\ "prefix" # "main"
  BY DEF Slots
<1>1. M \in Text /\ N \in Text /\ M # <<>> /\ N # <<>>
  BY <1>0, MarkerFacts, Zenon
<1>2. e \in Text /\ m \in Text /\ a \in Text
  BY TemplateTexts, Zenon
<1>3. Clear(M, e) /\ Clear(M, m) /\ Clear(M, a) /\ Clear(N, a)
  BY <1>0, TemplateTexts, Zenon
<1>4. Clear(M, N)
  BY ClearMain
<1>5. r.module # "javascript"
  BY DEF Compiled
<1>6. Cat(e, x) = x
  BY CatEmpty
<1> HIDE DEF m, a, e
<1>7. Clear(M, Cat(m, Cat(N, a)))
  <2> HIDE DEF M, N
  <2>1. Cat(N, a) \in Text /\ Clear(M, Cat(N, a))
    BY <1>1, <1>2, <1>3, <1>4, CatFacts, ClearConcat
  <2> QED  BY <1>1, <1>2, <1>3, <2>1, ClearConcat
<1>8. Clear(N, Cat(Cat(e, x), m))
  BY <1>6, Zenon DEF m
<1>9. FillsBoth(r.module, "prefix", x, "main", y, e, m, a)
  BY <1>1, <1>2, <1>3, <1>5, <1>7, <1>8, FirstThenSecond, Zenon
<1>10. Template(r.module, r.kind) = Parts(e, "prefix", m, "main", a)
  BY TemplateIs, Zenon DEF m, a, e
<1>11. Generated(r) = InPlace(r) /\ InPlace(r) = Cat(Cat(Cat(Cat(e, x), m), y), a)
  BY <1>0, <1>9, <1>10, GeneratedInOrder
<1> QED  BY <1>6, <1>11, Zenon DEF m, a
\* What is done to make a text part of another one leaves it a text.
LEMMA FillTexts ==
  ASSUME NEW s \in Text, NEW t \in Text
  PROVE  /\ pyStdin(t) \in Text /\ jsStdin(t) \in Text
         /\ strReplace(<<"\"">>, <<"\"", "\"">>, t) \in Text
         /\ strReplace(Delimiter, <<>>, t) \in Text
<1>1. /\ <<"'", "'", "'">> \in Text /\ <<"'", "'", "'">> # <<>>
      /\ <<"\\", "'", "\\", "'", "\\", "'">> \in Text
  BY NameFacts DEF Single, Slash, Text
<1>2. <<Double>> \in Text /\ <<Double>> # <<>> /\ <<Double, Double>> \in Text
  BY NameFacts DEF Text
<1>3. Delimiter \in Text /\ Delimiter # <<>> /\ <<>> \in Text
  <2>1. {"____d_e", "_l_i_m"} \subseteq Symbols
    BY Zenon, CodeSymbolFacts DEF CodeSymbols
  <2> QED  BY <2>1 DEF Delimiter, Text
<1>4. pyStdin(t) \in Text
  BY <1>1, ReplaceType, Zenon DEF pyStdin
<1>5. strReplace(<<Double>>, <<Double, Double>>, t) \in Text
  BY <1>2, ReplaceType, Zenon
<1>6. strReplace(Delimiter, <<>>, t) \in Text
  BY <1>3, ReplaceType, Zenon
<1>7. jsStdin(t) \in Text
  BY JsStdinFacts
<1> QED  BY <1>4, <1>5, <1>6, <1>7, Zenon DEF Double

\* What follows the source where it runs.
CodeEnd == Cat(<<Line, Line>>, Invocation)

LEMMA CodeFacts ==
  ASSUME NEW r, r.source \in Text
  PROVE  /\ CodeEnd \in Text /\ CodeEnd = Cons(Line, Cons(Line, Invocation))
         /\ Invocation \in Text
         /\ Code(r) = Cat(r.source, CodeEnd) /\ Code(r) \in Text
<1>1. Line \in Symbols /\ Invocation \in Text
  <2>1. "invocation" \in Symbols
    BY Zenon, CodeSymbolFacts DEF CodeSymbols
  <2> QED  BY <2>1, NameFacts DEF Invocation, Text
<1>2. <<Line>> \in Text /\ <<Line, Line>> = Cons(Line, <<Line>>) /\ <<Line, Line>> \in Text
  BY <1>1, Pair, SymbolFacts
<1> DEFINE h == <<Line>>
           l == <<Line, Line>>
<1>3. CodeEnd = Cat(Cons(Line, h), Invocation) /\ CodeEnd = Cat(l, Invocation)
  BY <1>2 DEF CodeEnd
<1>4. Cat(h, Invocation) = Cons(Line, Invocation)
  BY DEF Cons
<1>5. Code(r) = Cat(Cat(r.source, l), Invocation)
  BY Zenon DEF Code, Line, Cat
<1> HIDE DEF h, l
<1>6. h \in Text /\ l \in Text
  BY <1>2 DEF h, l
<1>7. Cat(Cons(Line, h), Invocation) = Cons(Line, Cat(h, Invocation))
  BY <1>1, <1>6, ConsCat
<1>8. Cat(Cat(r.source, l), Invocation) = Cat(r.source, Cat(l, Invocation))
  BY <1>1, <1>6, CatAssoc
<1>9. CodeEnd \in Text
  BY <1>1, <1>3, <1>6, CatFacts
<1>10. Code(r) \in Text
  BY <1>3, <1>5, <1>8, <1>9, CatFacts
<1> QED  BY <1>1, <1>3, <1>4, <1>5, <1>7, <1>8, <1>9, <1>10

LEMMA CodeEndClear ==
  ASSUME NEW slot \in Slots, NEW t \in Text, ~Occurs(Markers[slot], t)
  PROVE  Clear(Markers[slot], Cat(t, CodeEnd))
<1> DEFINE old == Markers[slot]
           h == <<Line>>
           g == <<"invocation">>
<1>1. old \in Text /\ h \in Text /\ g \in Text /\ Line \in Symbols
  BY MarkerFacts, NameFacts, SymbolFacts, TemplateSymbol, Zenon
<1>2. Clear(old, h) /\ Clear(old, g) /\ Clear(old, Cat(t, h))
  BY TemplateSymbol, Zenon DEF Line
<1>3. CodeEnd = Cat(h, Cat(h, g)) /\ CodeEnd \in Text
  <2>1. CodeEnd = Cat(Cat(h, h), g)
    <3>1. <<Line, Line>> = <<Line>> \o <<Line>>
      OBVIOUS
    <3> QED  BY <3>1, Zenon DEF CodeEnd, Invocation, Cat
  <2> HIDE DEF h, g
  <2>2. Cat(Cat(h, h), g) = Cat(h, Cat(h, g))
    BY <1>1, CatAssoc
  <2>3. Cat(h, g) \in Text /\ Cat(h, Cat(h, g)) \in Text
    BY <1>1, CatFacts
  <2> QED  BY <2>1, <2>2, <2>3
<1> HIDE DEF h, g, old
<1>4. Cat(h, g) \in Text /\ Clear(old, Cat(h, g))
  BY <1>1, <1>2, CatFacts, ClearConcat
<1>5. Cat(t, h) \in Text /\ Cat(Cat(t, h), Cat(h, g)) = Cat(t, CodeEnd)
  BY <1>1, <1>3, <1>4, CatFacts, CatAssoc
<1>6. Clear(old, Cat(Cat(t, h), Cat(h, g)))
  BY <1>1, <1>2, <1>4, <1>5, ClearConcat
<1> QED  BY <1>5, <1>6 DEF old

\* Texts without $ patterns.
LEMMA PatternCat ==
  ASSUME NEW s \in Text, NEW t \in Text, ~HasPattern(s), ~HasPattern(t),
         t # <<>> => t[1] \notin PatternSymbols
  PROVE  ~HasPattern(Cat(s, t))
<1> DEFINE S == {u \in Text : ~HasPattern(u) => ~HasPattern(Cat(u, t))}
<1>1. <<>> \in S
  <2>1. Cat(<<>>, t) = t /\ <<>> \in Text
    BY CatEmpty, EmptySeq DEF Text
  <2> QED  BY <2>1
<1>2. ASSUME NEW u \in Text, NEW x \in Symbols, u \in S
      PROVE  Cons(x, u) \in S
  <2> DEFINE xu == Cons(x, u)
             ut == Cat(u, t)
  <2>1. xu \in Text /\ ut \in Text /\ Cat(xu, t) = Cons(x, ut)
    BY HeadFacts, CatFacts, ConsCat
  <2>2. ASSUME ~HasPattern(xu)
        PROVE  ~HasPattern(Cons(x, ut))
    <3>1. ~HasPattern(u) /\ ~HasPattern(ut) /\ ~PatternAt(xu, 1)
      BY <1>2, <2>2, PatternTail
    <3>2. x = "$" => u = <<>> \/ u[1] \notin PatternSymbols
      BY <3>1, PatternHead
    <3>3. u = <<>> => ut = t
      BY CatEmpty
    <3>4. u # <<>> => ut[1] = u[1]
      BY CatFacts, TextFacts
    <3>5. x = "$" => ut = <<>> \/ ut[1] \notin PatternSymbols
      BY <3>2, <3>3, <3>4
    <3> HIDE DEF ut
    <3>6. ~PatternAt(Cons(x, ut), 1)
      BY <2>1, <3>5, PatternHead
    <3> QED  BY <2>1, <3>1, <3>6, PatternTail
  <2> QED  BY <2>1, <2>2
<1>3. Text \subseteq S
  <2> HIDE DEF S
  <2> QED  BY <1>1, <1>2, TextInduction
<1> QED  BY <1>3

LEMMA CodePattern ==
  ASSUME NEW r, r.source \in Text, ~HasPattern(r.source)
  PROVE  ~HasPattern(Code(r))
<1> DEFINE t == Cons(Line, Invocation)
<1>1. Invocation \in Text /\ Len(Invocation) = 1 /\ Line \in Symbols /\ Line \notin PatternSymbols
      /\ Line # "$"
  BY CodeFacts, NameFacts DEF Invocation, PatternSymbols, Line
<1>2. ~HasPattern(Invocation)
  BY DEF Invocation, HasPattern, PatternAt
<1>3. t \in Text /\ t[1] = Line /\ ~HasPattern(t)
  BY <1>1, <1>2, HeadFacts, PatternHead, PatternTail
<1> HIDE DEF t
<1>4. Cons(Line, t)[1] = Line /\ ~HasPattern(Cons(Line, t)) /\ Cons(Line, t) \in Text
  BY <1>1, <1>3, HeadFacts, PatternHead, PatternTail
<1>5. CodeEnd = Cons(Line, t)
  BY CodeFacts DEF t
<1>6. Code(r) = Cat(r.source, CodeEnd)
  BY CodeFacts
<1> QED  BY <1>1, <1>4, <1>5, <1>6, PatternCat

LEMMA NoMarker ==
  ASSUME NEW t \in Text, ~HasPattern(t), NEW slot \in {"code", "stdin", "cases"}
  PROVE  ~Occurs(Markers[slot], t)
<1> DEFINE old == Markers[slot]
<1>1. Len(old) = 5 /\ old[1] = "$" /\ old[2] = "$" /\ DOMAIN old = 1..5
  BY MarkerSymbols, MarkerFacts, TextFacts DEF Slots
<1> HIDE DEF old
<1>2. ASSUME NEW i \in DOMAIN t, At(t, i, old)
      PROVE  HasPattern(t)
  <2>1. DOMAIN t = 1..Len(t) /\ Len(t) \in Nat
    BY TextFacts
  <2>2. i + 1 <= Len(t) /\ t[i] = "$" /\ t[i + 1] = "$"
    <3>1. t[i + 1 - 1] = old[1] /\ t[i + 2 - 1] = old[2] /\ i + 5 - 1 <= Len(t)
      BY <1>1, <1>2 DEF At
    <3> QED  BY <1>1, <2>1, <3>1
  <2> QED  BY <2>1, <2>2 DEF HasPattern, PatternAt
<1> QED  BY <1>2 DEF Occurs, Places, old

\* The first symbol of an escaped text.
LEMMA JsStdinFirst ==
  ASSUME NEW u \in Text, u # <<>>
  PROVE  jsStdin(u)[1] \in {u[1], Slash}
<1> DEFINE j == jsStdin(u)
           y == u[1]
           v == From(u, 2)
           k == jsStdin(v)
<1>1. y \in Symbols /\ v \in Text /\ u = Cons(y, v) /\ k \in Text
  BY HeadAndRest, JsStdinFacts
<1>2. /\ y = Slash => j = Cons(Slash, Cons(Slash, Cons(Slash, Cons(Slash, k))))
      /\ y = Double => j = Cons(Slash, Cons(Slash, Cons(Double, k)))
      /\ y = Line => j = Cons(Slash, Cons(Slash, Cons(Letter, k)))
      /\ y \notin {Slash, Double, Line} => j = Cons(y, k)
  BY <1>1, JsStdinFacts
<1>3. \A z \in Symbols, w \in Text : Cons(z, w) \in Text /\ Cons(z, w)[1] = z
  BY HeadFacts
<1>4. j[1] \in {y, Slash}
  <2> HIDE DEF j, k, v, y
  <2> QED  BY <1>1, <1>2, <1>3, NameFacts
<1> QED  BY <1>4

\* Escaping makes no $ pattern.
LEMMA JsStdinPattern ==
  ASSUME NEW t \in Text, ~HasPattern(t)
  PROVE  ~HasPattern(jsStdin(t))
<1> DEFINE S == {u \in Text : ~HasPattern(u) => ~HasPattern(jsStdin(u))}
<1>0. /\ Dollar = "$" /\ Slash \notin PatternSymbols /\ Double \notin PatternSymbols
      /\ Letter \notin PatternSymbols
  BY DEF Dollar, Slash, Double, Letter, PatternSymbols
<1>1. <<>> \in S
  BY JsStdinFacts, EmptySeq DEF Text
<1>2. ASSUME NEW u \in Text, NEW x \in Symbols, u \in S
      PROVE  Cons(x, u) \in S
  <2> DEFINE j == jsStdin(u)
  <2>1. j \in Text /\ Cons(x, u) \in Text
    BY JsStdinFacts, HeadFacts
  <2>2. SUFFICES ASSUME ~HasPattern(Cons(x, u))
                 PROVE  ~HasPattern(jsStdin(Cons(x, u)))
    BY <2>1
  <2>3. ~HasPattern(j) /\ ~HasPattern(u)
    BY <1>2, <2>2, PatternTail
  <2>4. \A y \in Symbols \ {Dollar}, v \in Text :
          ~HasPattern(v) => Cons(y, v) \in Text /\ ~HasPattern(Cons(y, v))
    BY <1>0, HeadFacts, PatternHead, PatternTail
  <2>5. jsStdin(u) = j
    OBVIOUS
  <2>6. CASE x \in {Slash, Double, Line}
    <3> HIDE DEF j
    <3>1. /\ x = Slash => jsStdin(Cons(x, u)) = Cons(Slash, Cons(Slash, Cons(Slash, Cons(Slash, j))))
          /\ x = Double => jsStdin(Cons(x, u)) = Cons(Slash, Cons(Slash, Cons(Double, j)))
          /\ x = Line => jsStdin(Cons(x, u)) = Cons(Slash, Cons(Slash, Cons(Letter, j)))
      BY <2>5, JsStdinFacts
    <3>2. Slash \in Symbols \ {Dollar} /\ Double \in Symbols \ {Dollar} /\ Letter \in Symbols \ {Dollar}
      BY NameFacts
    <3> QED  BY <2>1, <2>3, <2>4, <2>6, <3>1, <3>2
  <2>7. CASE x \notin {Slash, Double, Line}
    <3>1. jsStdin(Cons(x, u)) = Cons(x, j)
      BY <2>7, JsStdinFacts
    <3>2. x = "$" => u = <<>> \/ u[1] \notin PatternSymbols
      BY <2>2, PatternHead, PatternTail
    <3>3. u = <<>> => j = <<>>
      BY JsStdinFacts
    <3>4. u # <<>> => j[1] \in {u[1], Slash}
      BY JsStdinFirst
    <3> HIDE DEF j
    <3>5. x = "$" => j = <<>> \/ j[1] \notin PatternSymbols
      BY <1>0, <3>2, <3>3, <3>4
    <3>6. ~PatternAt(Cons(x, j), 1)
      BY <2>1, <3>5, PatternHead
    <3> QED  BY <2>1, <2>3, <3>1, <3>6, PatternTail
  <2> QED  BY <2>6, <2>7
<1>3. Text \subseteq S
  <2> HIDE DEF S
  <2> QED  BY <1>1, <1>2, TextInduction
<1> QED  BY <1>3
\* Every module's generated program has its texts in place.
LEMMA TestsGenerated ==
  ASSUME NEW r \in RequestType, r.kind = "tests", r.module \notin Compiled, Inert(r)
  PROVE  Generated(r) = InPlace(r)
<1> DEFINE M == Markers["code"]
           N == Markers["cases"]
           b == TestsBefore
           m == TestsBetween
           a == TestsAfter
           x == r.source
           y == r.text
<1>0. "code" \in Slots /\ "cases" \in Slots /\ "code" # "cases"
  BY DEF Slots
<1>1. M \in Text /\ N \in Text /\ M # <<>> /\ N # <<>>
  BY <1>0, MarkerFacts, Zenon
<1>2. b \in Text /\ m \in Text /\ a \in Text /\ x \in Text /\ y \in Text
  BY TemplateTexts, RequestFacts, Zenon
<1>3. Clear(M, b) /\ Clear(N, b) /\ Clear(M, m) /\ Clear(N, a)
  BY <1>0, TemplateTexts, Zenon
<1>4. r.module = "javascript" => ~HasPattern(x) /\ ~HasPattern(y)
  BY DEF Inert
<1>5. ~Occurs(N, x)
  <2>1. r.module # "javascript" => ~Occurs(N, x)
    BY DEF Inert, LaterMarker
  <2>2. r.module = "javascript" => ~Occurs(N, x)
    BY <1>2, <1>4, NoMarker
  <2> QED  BY <2>1, <2>2
<1>6. Clear(N, Cat(x, m))
  BY <1>0, <1>2, <1>5, TemplateTexts, Zenon
<1>7. ~Occurs(M, N)
  BY MarkersDiffer
<1>8. Clear(M, Cat(N, a))
  BY <1>0, <1>1, <1>7, TemplateTexts, Zenon
<1>9. Fills(r) = << <<"code", x>>, <<"cases", y>> >>
  BY Zenon DEF Fills, UnitTests
<1>10. Template(r.module, r.kind) = Parts(b, "code", m, "cases", a)
  BY TemplateIs, Zenon
<1> HIDE DEF b, m, a, x, y
<1>11. Clear(M, Cat(m, Cat(N, a))) /\ Clear(N, Cat(Cat(b, x), m))
  <2> HIDE DEF M, N
  <2>1. Cat(N, a) \in Text /\ Cat(x, m) \in Text /\ Cat(Cat(b, x), m) = Cat(b, Cat(x, m))
    BY <1>1, <1>2, CatFacts, CatAssoc
  <2>2. Clear(M, Cat(m, Cat(N, a)))
    BY <1>1, <1>2, <1>3, <1>8, <2>1, ClearConcat
  <2>3. Clear(N, Cat(b, Cat(x, m)))
    BY <1>1, <1>2, <1>3, <1>6, <2>1, ClearConcat
  <2> QED  BY <2>1, <2>2, <2>3
<1>12. FillsBoth(r.module, "code", x, "cases", y, b, m, a)
  BY <1>1, <1>2, <1>3, <1>4, <1>11, FirstThenSecond, Zenon
<1> QED  BY <1>0, <1>9, <1>10, <1>12, GeneratedInOrder

LEMMA JsGenerated ==
  ASSUME NEW r \in RequestType, r.kind = "io", r.module = "javascript", Inert(r)
  PROVE  Generated(r) = InPlace(r)
<1> DEFINE M == Markers["stdin"]
           N == Markers["code"]
           b == JsBefore
           m == JsBetween
           a == JsAfter
           x == jsStdin(r.text)
           y == Code(r)
<1>0. "code" \in Slots /\ "stdin" \in Slots /\ "stdin" # "code"
  BY DEF Slots
<1>1. M \in Text /\ N \in Text /\ M # <<>> /\ N # <<>>
  BY <1>0, MarkerFacts, Zenon
<1>2. b \in Text /\ m \in Text /\ a \in Text /\ x \in Text /\ y \in Text
  BY TemplateTexts, RequestFacts, FillTexts, CodeFacts, Zenon
<1>3. Clear(M, b) /\ Clear(N, b)
  BY <1>0, TemplateTexts, Zenon
<1>4. ~HasPattern(r.source) /\ ~HasPattern(r.text)
  BY DEF Inert
<1>5. ~HasPattern(x) /\ ~HasPattern(y)
  BY <1>4, RequestFacts, JsStdinPattern, CodePattern
<1>6. ~Occurs(N, x)
  <2> HIDE DEF x
  <2> QED  BY <1>2, <1>5, NoMarker
<1>7. Clear(N, Cat(x, m))
  BY <1>0, <1>2, <1>6, TemplateTexts, Zenon
<1>8. Fills(r) = << <<"stdin", x>>, <<"code", y>> >>
  <2>1. r.kind # "tests"
    OBVIOUS
  <2> QED  BY <2>1, Zenon DEF Fills, jsIOCapture
<1>9. Template(r.module, r.kind) = Parts(b, "stdin", m, "code", a)
  <2>1. r.kind # "tests"
    OBVIOUS
  <2> QED  BY <2>1, TemplateIs, Zenon
<1> HIDE DEF b, m, a, x, y
<1>10. Clear(N, Cat(Cat(b, x), m))
  <2> HIDE DEF M, N
  <2>1. Cat(x, m) \in Text /\ Cat(Cat(b, x), m) = Cat(b, Cat(x, m))
    BY <1>1, <1>2, CatFacts, CatAssoc
  <2>2. Clear(N, Cat(b, Cat(x, m)))
    BY <1>1, <1>2, <1>3, <1>7, <2>1, ClearConcat
  <2> QED  BY <2>1, <2>2
<1>11. FillsBoth(r.module, "stdin", x, "code", y, b, m, a)
  BY <1>1, <1>2, <1>3, <1>5, <1>10, FirstThenSecond, Zenon
<1> QED  BY <1>0, <1>8, <1>9, <1>11, GeneratedInOrder

LEMMA PyGenerated ==
  ASSUME NEW r \in RequestType, r.kind = "io", r.module = "python", Inert(r)
  PROVE  Generated(r) = InPlace(r)
<1> DEFINE M == Markers["stdin"]
           N == Markers["code"]
           b == PyBefore
           m == PyBetween
           a == <<>>
           x == pyStdin(r.text)
           y == Code(r)
<1>0. "code" \in Slots /\ "stdin" \in Slots /\ "stdin" # "code"
  BY DEF Slots
<1>1. M \in Text /\ N \in Text /\ M # <<>> /\ N # <<>>
  BY <1>0, MarkerFacts, Zenon
<1>2. b \in Text /\ m \in Text /\ a \in Text /\ x \in Text /\ y \in Text
  BY TemplateTexts, RequestFacts, FillTexts, CodeFacts, Zenon
<1>3. Clear(M, b) /\ Clear(N, b) /\ Clear(M, m) /\ Clear(N, a)
  BY <1>0, TemplateTexts, Zenon
<1>4. ~Occurs(M, r.source)
  BY DEF Inert, LaterMarker, Compiled
<1>5. Clear(M, y)
  <2>1. Clear(M, Cat(r.source, CodeEnd))
    BY <1>0, <1>4, RequestFacts, CodeEndClear, Zenon
  <2> QED  BY <2>1, CodeFacts, RequestFacts, Zenon
<1>6. ~Occurs(N, M)
  BY MarkersDiffer
<1>7. Clear(N, Cat(M, m))
  BY <1>0, <1>1, <1>6, TemplateTexts, Zenon
<1>8. Fills(r) = << <<"code", y>>, <<"stdin", x>> >>
  <2>1. r.kind # "tests" /\ r.module # "javascript"
    OBVIOUS
  <2> QED  BY <2>1, Zenon DEF Fills, pyIOCapture
<1>9. Template(r.module, r.kind) = Parts(b, "stdin", m, "code", a)
  <2>1. r.kind # "tests"
    OBVIOUS
  <2> QED  BY <2>1, TemplateIs, Zenon
<1>10. Cat(y, a) = y
  BY <1>2, CatEmpty
<1> HIDE DEF b, m, a, x, y
<1>11. Clear(M, Cat(m, Cat(y, a))) /\ Clear(N, Cat(Cat(b, M), m))
  <2> HIDE DEF M, N
  <2>1. Cat(M, m) \in Text /\ Cat(Cat(b, M), m) = Cat(b, Cat(M, m))
    BY <1>1, <1>2, CatFacts, CatAssoc
  <2>2. Clear(M, Cat(m, y))
    BY <1>1, <1>2, <1>3, <1>5, ClearConcat
  <2>3. Clear(N, Cat(b, Cat(M, m)))
    BY <1>1, <1>2, <1>3, <1>7, <2>1, ClearConcat
  <2> QED  BY <1>10, <2>1, <2>2, <2>3
<1>12. r.module # "javascript"
  OBVIOUS
<1>13. FillsBackwards(r.module, "stdin", x, "code", y, b, m, a)
  BY <1>1, <1>2, <1>3, <1>11, <1>12, SecondThenFirst, Zenon
<1> QED  BY <1>0, <1>8, <1>9, <1>13, GeneratedBackwards
\* What the modules of compiled languages put in.
CsMain(r) == <<"@\"">> \o strReplace(<<"\"">>, <<"\"", "\"">>, r.text)
             \o <<"\"", ";">> \o Invocation

CxxPrefix(r) == r.source \o <<"#include \"redirect.h\"">>

CxxMain(r) == <<"R\"delim(">> \o strReplace(Delimiter, <<>>, r.text)
              \o <<")">> \o Delimiter \o <<"\"", ";">> \o Invocation

CompiledPrefix(r) == IF r.kind = "io" /\ r.module = "cxx" THEN CxxPrefix(r) ELSE r.source

CompiledMain(r) == IF r.kind = "tests" THEN r.text
                   ELSE IF r.module = "csharp" THEN CsMain(r)
                   ELSE IF r.module = "cxx" THEN CxxMain(r) ELSE Invocation

LEMMA CompiledFills ==
  ASSUME NEW r \in RequestType, r.module \in Compiled
  PROVE  /\ Fills(r) = << <<"prefix", CompiledPrefix(r)>>, <<"main", CompiledMain(r)>> >>
         /\ CompiledPrefix(r) \in Text /\ CompiledMain(r) \in Text
<1>1. r.source \in Text /\ r.text \in Text /\ r.kind \in {"io", "tests"}
  BY RequestFacts
<1>2. \A s, t \in Text : s \o t \in Text
  BY ConcatProperties DEF Text
<1>3. /\ {<<"@\"">>, <<"\"", ";">>, <<"R\"delim(">>, <<")">>, <<"#include \"redirect.h\"">>}
           \subseteq Text
      /\ Delimiter \in Text /\ Invocation \in Text
  <2> DEFINE A == "@\""
             B == "\""
             C == ";"
             D == "R\"delim("
             E == ")"
             F == "#include \"redirect.h\""
             G == "invocation"
             H == "____d_e"
             I == "_l_i_m"
  <2>1. {A, B, C, D, E, F, G, H, I} \subseteq Symbols
    BY Zenon, CodeSymbolFacts DEF CodeSymbols
  <2>2. Delimiter = <<H, I>> /\ Invocation = <<G>>
    BY DEF Delimiter, Invocation
  <2> HIDE DEF A, B, C, D, E, F, G, H, I
  <2>3. {<<A>>, <<B, C>>, <<D>>, <<E>>, <<F>>} \subseteq Text /\ <<H, I>> \in Text /\ <<G>> \in Text
    BY <2>1 DEF Text
  <2> QED  BY <2>2, <2>3, Zenon DEF A, B, C, D, E, F, G, H, I
<1>4. /\ strReplace(<<"\"">>, <<"\"", "\"">>, r.text) \in Text
      /\ strReplace(Delimiter, <<>>, r.text) \in Text
  BY <1>1, FillTexts, Zenon
<1>5. CsMain(r) \in Text
  BY <1>2, <1>3, <1>4, Zenon DEF CsMain
<1>6. CxxMain(r) \in Text
  BY <1>2, <1>3, <1>4, Zenon DEF CxxMain
<1>7. CxxPrefix(r) \in Text
  BY <1>1, <1>2, <1>3, Zenon DEF CxxPrefix
<1>8. CASE r.kind = "tests"
  <2>1. CompiledPrefix(r) = r.source /\ CompiledMain(r) = r.text
    BY <1>8 DEF CompiledPrefix, CompiledMain
  <2>2. Fills(r) = << <<"prefix", r.source>>, <<"main", r.text>> >>
    BY <1>8, Zenon DEF Fills, UnitTests
  <2> QED  BY <1>1, <2>1, <2>2, Zenon
<1>9. CASE r.kind = "io"
  <2>0. r.kind # "tests"
    BY <1>9
  <2>1. CASE r.module = "csharp"
    <3>1. CompiledPrefix(r) = r.source /\ CompiledMain(r) = CsMain(r)
      BY <2>0, <2>1 DEF CompiledPrefix, CompiledMain
    <3>2. r.module \notin {"javascript", "python", "cxx", "java"}
      BY <2>1
    <3>3. Fills(r) = csIOCapture(r)
      BY <2>0, <2>1, <3>2, Zenon DEF Fills
    <3>4. Fills(r) = << <<"prefix", r.source>>, <<"main", CsMain(r)>> >>
      BY <3>3, Zenon DEF csIOCapture, CsMain
    <3> QED  BY <1>1, <1>5, <3>1, <3>4, Zenon
  <2>2. CASE r.module = "cxx"
    <3>1. CompiledPrefix(r) = CxxPrefix(r) /\ CompiledMain(r) = CxxMain(r)
      BY <1>9, <2>0, <2>2 DEF CompiledPrefix, CompiledMain
    <3>2. r.module \notin {"javascript", "python", "csharp", "java"}
      BY <2>2
    <3>3. Fills(r) = cxxIOCapture(r)
      BY <2>0, <2>2, <3>2, Zenon DEF Fills
    <3>4. Fills(r) = << <<"prefix", CxxPrefix(r)>>, <<"main", CxxMain(r)>> >>
      BY <3>3, Zenon DEF cxxIOCapture, CxxMain, CxxPrefix
    <3> QED  BY <1>6, <1>7, <3>1, <3>4, Zenon
  <2>3. CASE r.module = "java"
    <3>1. CompiledPrefix(r) = r.source /\ CompiledMain(r) = Invocation
      BY <2>0, <2>3 DEF CompiledPrefix, CompiledMain
    <3>2. r.module \notin {"javascript", "python", "csharp", "cxx"}
      BY <2>3
    <3>3. Fills(r) = javaIOCapture(r)
      BY <2>0, <2>3, <3>2, Zenon DEF Fills
    <3>4. Fills(r) = << <<"prefix", r.source>>, <<"main", Invocation>> >>
      BY <3>3, Zenon DEF javaIOCapture
    <3> QED  BY <1>1, <1>3, <3>1, <3>4, Zenon
  <2> QED  BY <2>1, <2>2, <2>3 DEF Compiled
<1> QED  BY <1>1, <1>8, <1>9

\* The include is the last line of the prefix.
LEMMA PrefixClear ==
  ASSUME NEW r \in RequestType, r.module \in Compiled, ~Occurs(Markers["main"], r.source)
  PROVE  Clear(Markers["main"], Cat(CompiledPrefix(r), CompiledBetween))
<1> DEFINE N == Markers["main"]
           i == <<"#include \"redirect.h\"">>
           m == CompiledBetween
           s == r.source
<1>0. "main" \in Slots
  BY DEF Slots
<1>1. N \in Text /\ i \in Text /\ m \in Text /\ s \in Text
  BY <1>0, MarkerFacts, TemplateTexts, TemplateSymbol, RequestFacts, Zenon
<1>2. Clear(N, m) /\ Clear(N, Cat(s, m)) /\ Clear(N, Cat(s, i))
  <2>1. Clear(N, m)
    BY <1>0, TemplateTexts, Zenon
  <2>2. Clear(N, Cat(s, m))
    BY <1>0, <1>1, TemplateTexts, Zenon
  <2>3. Clear(N, Cat(s, i))
    BY <1>0, <1>1, TemplateSymbol, Zenon
  <2> QED  BY <2>1, <2>2, <2>3, Zenon
<1>3. CxxPrefix(r) = Cat(s, i)
  BY Zenon DEF CxxPrefix, Cat
<1> HIDE DEF N, i, m, s
<1>4. Clear(N, Cat(Cat(s, i), m))
  BY <1>1, <1>2, CatFacts, ClearConcat
<1>5. CompiledPrefix(r) = Cat(s, i) \/ CompiledPrefix(r) = s
  BY <1>3, Zenon DEF CompiledPrefix, s
<1>6. Clear(N, Cat(CompiledPrefix(r), m))
  BY <1>2, <1>4, <1>5, Zenon
<1> QED  BY <1>6, Zenon DEF N, m

LEMMA TextsInPlaceOf ==
  ASSUME NEW r \in RequestType, Inert(r)
  PROVE  Generated(r) = InPlace(r)
<1>1. CASE r.module \in Compiled
  <2>1. ~Occurs(Markers["main"], r.source)
    BY <1>1 DEF Inert, LaterMarker, Compiled
  <2> QED  BY <1>1, <2>1, PrefixClear, CompiledFills, CompiledGenerated, Zenon
<1>2. CASE r.module \notin Compiled /\ r.kind = "tests"
  BY <1>2, TestsGenerated
<1>3. CASE r.module \notin Compiled /\ r.kind # "tests"
  <2>1. r.kind = "io" /\ r.module \in {"javascript", "python"}
    BY <1>3, RequestFacts DEF Compiled
  <2> QED  BY <2>1, JsGenerated, PyGenerated
<1> QED  BY <1>1, <1>2, <1>3

-----------------------------------------------------------------------------
(* One rule after the other *)

IsRules(rules) ==
  /\ Len(rules) \in Nat
  /\ \A k \in 1..Len(rules) : /\ Token(rules[k][1]) \in Text /\ Token(rules[k][1]) # <<>>
                              /\ rules[k][2] \in Text

Applied(rules, k, t) == strReplace(Token(rules[k][1]), rules[k][2], t)

\* The equation that Expand solves.
Stage(f, rules, p, k) == IF k = 0 THEN p ELSE Applied(rules, k, f[k - 1])

\* What the rules make of a pattern, one after the other.
IsStages(f, rules, p) ==
  /\ f \in [0..Len(rules) -> Text]
  /\ \A k \in 0..Len(rules) : f[k] = Stage(f, rules, p, k)

LEMMA AppliedType ==
  ASSUME NEW rules, IsRules(rules), NEW k \in 1..Len(rules), NEW t \in Text
  PROVE  Applied(rules, k, t) \in Text
<1>1. Token(rules[k][1]) \in Text /\ Token(rules[k][1]) # <<>> /\ rules[k][2] \in Text
  BY DEF IsRules
<1> QED  BY <1>1, ReplaceType, Zenon DEF Applied

LEMMA StagesExist ==
  ASSUME NEW rules, IsRules(rules), NEW p \in Text
  PROVE  \E f : IsStages(f, rules, p)
<1> DEFINE n == Len(rules)
           Solved(m) == \E f \in [0..m -> Text] :
                          \A k \in 0..m : f[k] = Stage(f, rules, p, k)
           S == {m \in Nat : m <= n => Solved(m)}
<1>0. n \in Nat
  BY DEF IsRules
<1>1. 0 \in S
  <2> DEFINE f == [k \in 0..0 |-> p]
  <2>1. f \in [0..0 -> Text] /\ f[0] = p
    OBVIOUS
  <2> HIDE DEF f
  <2>2. Stage(f, rules, p, 0) = p
    BY Zenon DEF Stage
  <2>3. \A k \in 0..0 : f[k] = Stage(f, rules, p, k)
    BY <2>1, <2>2
  <2> QED  BY <2>1, <2>3
<1>2. ASSUME NEW m \in Nat, m \in S PROVE m + 1 \in S
  <2> SUFFICES ASSUME m + 1 <= n PROVE Solved(m + 1)
    OBVIOUS
  <2>1. PICK f \in [0..m -> Text] : \A k \in 0..m : f[k] = Stage(f, rules, p, k)
    BY <1>0, <1>2
  <2> DEFINE v == Applied(rules, m + 1, f[m])
             g == [k \in 0..(m + 1) |-> IF k = m + 1 THEN v ELSE f[k]]
  <2>2. v \in Text
    <3>1. m + 1 \in 1..n /\ f[m] \in Text
      BY <1>0
    <3> QED  BY <3>1, AppliedType
  <2> HIDE DEF v
  <2>3. /\ g \in [0..(m + 1) -> Text] /\ g[m + 1] = v
        /\ \A k \in 0..m : g[k] = f[k]
    BY <2>2
  <2> HIDE DEF g
  <2>4. ASSUME NEW k \in 0..(m + 1) PROVE g[k] = Stage(g, rules, p, k)
    <3>1. CASE k = 0
      <4>1. f[0] = Stage(f, rules, p, 0) /\ g[0] = f[0]
        BY <2>1, <2>3
      <4> QED  BY <3>1, <4>1, Zenon DEF Stage
    <3>2. CASE k \in 1..m
      <4>1. f[k] = Stage(f, rules, p, k) /\ g[k] = f[k] /\ g[k - 1] = f[k - 1] /\ k # 0
        BY <2>1, <2>3, <3>2
      <4> QED  BY <4>1, Zenon DEF Stage
    <3>3. CASE k = m + 1
      <4>1. k # 0 /\ k - 1 = m /\ g[k - 1] = f[m]
        BY <2>3, <3>3
      <4>2. Stage(g, rules, p, k) = Applied(rules, k, f[m])
        BY <4>1, Zenon DEF Stage
      <4> QED  BY <2>3, <3>3, <4>2 DEF v
    <3> QED  BY <3>1, <3>2, <3>3
  <2> QED  BY <2>3, <2>4
<1>3. n \in S
  <2> HIDE DEF S
  <2> QED  BY <1>0, <1>1, <1>2, Induction
<1> QED  BY <1>3 DEF IsStages

LEMMA StagesAre ==
  ASSUME NEW rules, IsRules(rules), NEW p \in Text, NEW f, IsStages(f, rules, p)
  PROVE  Expand(rules, p) = f[Len(rules)]
<1> DEFINE n == Len(rules)
           F == CHOOSE g : g = [k \in 0..n |-> Stage(g, rules, p, k)]
           S == {m \in Nat : m <= n => F[m] = f[m]}
<1>0. n \in Nat
  BY DEF IsRules
<1>1. f = [k \in 0..n |-> Stage(f, rules, p, k)]
  BY DEF IsStages
<1>2. F = [k \in 0..n |-> Stage(F, rules, p, k)]
  BY <1>1, Zenon
<1>3. Expand(rules, p) = F[n]
  BY Zenon DEF Expand, Stage, Applied
<1> HIDE DEF F
<1>4. \A k \in 0..n : F[k] = Stage(F, rules, p, k) /\ f[k] = Stage(f, rules, p, k)
  BY <1>1, <1>2
<1>5. 0 \in S
  <2>1. F[0] = f[0]
    <3>1. 0 \in 0..n
      BY <1>0
    <3> QED  BY <1>4, <3>1, Zenon DEF Stage
  <2> QED  BY <2>1
<1>6. ASSUME NEW m \in Nat, m \in S PROVE m + 1 \in S
  <2> SUFFICES ASSUME m + 1 <= n PROVE F[m + 1] = f[m + 1]
    OBVIOUS
  <2> DEFINE j == m + 1
  <2>1. F[m] = f[m] /\ j \in 0..n /\ j # 0 /\ j - 1 = m
    BY <1>0, <1>6
  <2> HIDE DEF S, j
  <2>2. F[j] = Applied(rules, j, F[m])
    BY <1>4, <2>1, Zenon DEF Stage
  <2>3. f[j] = Applied(rules, j, f[m])
    BY <1>4, <2>1, Zenon DEF Stage
  <2> QED  BY <2>1, <2>2, <2>3 DEF j
<1>7. n \in S
  <2> HIDE DEF S
  <2> QED  BY <1>0, <1>5, <1>6, Induction
<1> QED  BY <1>0, <1>3, <1>7

\* Expand by its equations.
LEMMA ExpandStages ==
  ASSUME NEW rules, IsRules(rules), NEW p \in Text
  PROVE  \E f \in [0..Len(rules) -> Text] :
           /\ f[0] = p /\ Expand(rules, p) = f[Len(rules)]
           /\ \A k \in 1..Len(rules) : f[k] = Applied(rules, k, f[k - 1])
<1>1. PICK f : IsStages(f, rules, p)
  BY StagesExist
<1>2. Expand(rules, p) = f[Len(rules)]
  BY <1>1, StagesAre
<1>3. f \in [0..Len(rules) -> Text] /\ \A k \in 0..Len(rules) : f[k] = Stage(f, rules, p, k)
  BY <1>1, Zenon DEF IsStages
<1>4. Len(rules) \in Nat
  BY DEF IsRules
<1>5. f[0] = p
  <2>1. 0 \in 0..Len(rules)
    BY <1>4
  <2> QED  BY <1>3, <2>1, Zenon DEF Stage
<1>6. ASSUME NEW k \in 1..Len(rules) PROVE f[k] = Applied(rules, k, f[k - 1])
  <2>1. k \in 0..Len(rules) /\ k # 0
    BY <1>4
  <2> QED  BY <1>3, <2>1, Zenon DEF Stage
<1> QED  BY <1>2, <1>3, <1>5, <1>6, Zenon

-----------------------------------------------------------------------------
(* The tokens and their rules *)

\* The token that the k-th rule replaces.
NameOf(k) == Rules[k][1]
Mark(k) == Token(NameOf(k))

LEMMA RulesLength == Len(Rules) = 20 /\ DOMAIN Rules = 1..20
BY DEF Rules

\* The braces by names, which the provers do not look into.
Open  == "{"
Close == "}"
PlainOpen  == "\\{"
PlainClose == "\\}"

LEMMA BraceFacts ==
  /\ Open \in Symbols /\ Close \in Symbols /\ Open # Close
  /\ Open \notin TokenNames /\ Close \notin TokenNames /\ TokenNames \subseteq Symbols
BY SymbolsAssumption DEF Braces, TokenNames, Open, Close

LEMMA PlainFacts ==
  /\ PlainOpen \in Symbols /\ PlainClose \in Symbols
  /\ PlainOpen \notin TokenNames /\ PlainClose \notin TokenNames
  /\ PlainOpen \notin {Open, Close} /\ PlainClose \notin {Open, Close}
BY SymbolsAssumption DEF RegexSymbols, TokenNames, Open, Close, PlainOpen, PlainClose

LEMMA NamesAre ==
  /\ NameOf(1) = "a-int" /\ NameOf(2) = "a-float" /\ NameOf(3) = "any"
  /\ NameOf(4) = "int" /\ NameOf(5) = "float" /\ NameOf(6) = "dollar"
  /\ NameOf(7) = "caret" /\ NameOf(8) = "asterisk" /\ NameOf(9) = "question"
  /\ NameOf(10) = "plus" /\ NameOf(11) = "minus" /\ NameOf(12) = "period"
  /\ NameOf(13) = "lparen" /\ NameOf(14) = "rparen" /\ NameOf(15) = "lbrace"
  /\ NameOf(16) = "rbrace" /\ NameOf(17) = "lbracket" /\ NameOf(18) = "rbracket"
  /\ NameOf(19) = "pipe" /\ NameOf(20) = "backslash"
BY DEF Rules, NameOf

LEMMA NamesIn == \A k \in 1..20 : NameOf(k) \in TokenNames /\ NameOf(k) \in Symbols
<1>1. \A k \in 1..20 : NameOf(k) \in TokenNames
  BY NamesAre DEF TokenNames
<1> QED  BY <1>1, BraceFacts

LEMMA NamesDiffer == \A k, l \in 1..20 : NameOf(k) = NameOf(l) => k = l
BY NamesAre

LEMMA NamesAll == \A w \in TokenNames : \E k \in 1..20 : NameOf(k) = w
BY NamesAre DEF TokenNames

LEMMA Triple ==
  ASSUME NEW x \in Symbols, NEW y \in Symbols, NEW z \in Symbols
  PROVE  <<x, y, z>> \in Text /\ <<x, y, z>> # <<>> /\ Len(<<x, y, z>>) = 3
BY DEF Text

LEMMA TokenFacts ==
  ASSUME NEW w \in Symbols
  PROVE  /\ Token(w) \in Text /\ Len(Token(w)) = 3 /\ Token(w) # <<>>
         /\ Token(w)[1] = Open /\ Token(w)[2] = w /\ Token(w)[3] = Close
         /\ Token(w) = Cons(Open, Cons(w, <<Close>>))
<1> DEFINE a == <<Close>>
           b == Cons(w, a)
           c == Cons(Open, b)
           t == Token(w)
<1>1. t \in Text /\ Len(t) = 3 /\ t # <<>>
  BY BraceFacts, Triple DEF Token, Open, Close
<1>2. t[1] = Open /\ t[2] = w /\ t[3] = Close
  BY DEF Token, Open, Close
<1>3. a \in Text /\ Len(a) = 1 /\ a[1] = Close
  BY BraceFacts, SymbolFacts
<1>4. b \in Text /\ Len(b) = Len(a) + 1 /\ b[1] = w /\ \A i \in 1..Len(a) : b[i + 1] = a[i]
  BY <1>3, HeadFacts
<1> HIDE DEF a, b
<1>5. c \in Text /\ Len(c) = Len(b) + 1 /\ c[1] = Open /\ \A i \in 1..Len(b) : c[i + 1] = b[i]
  BY <1>4, BraceFacts, HeadFacts
<1> HIDE DEF c, t
<1>6. b[2] = Close /\ Len(b) = 2
  <2>1. b[1 + 1] = a[1]
    BY <1>3, <1>4
  <2> QED  BY <1>3, <1>4, <2>1
<1>7. c[2] = w /\ c[3] = Close /\ Len(c) = 3
  <2>1. c[1 + 1] = b[1] /\ c[2 + 1] = b[2]
    BY <1>5, <1>6
  <2>2. c[2] = w /\ c[3] = Close
    BY <1>4, <1>6, <2>1
  <2> QED  BY <1>5, <1>6, <2>2
<1>8. \A i \in 1..3 : t[i] = c[i]
  BY <1>2, <1>5, <1>7
<1>9. t = c
  BY <1>1, <1>5, <1>7, <1>8, TextEqual
<1> QED  BY <1>1, <1>2, <1>9 DEF a, b, c, t

LEMMA MarkFacts ==
  ASSUME NEW k \in 1..20
  PROVE  /\ NameOf(k) \in Symbols /\ NameOf(k) \in TokenNames
         /\ Mark(k) \in Text /\ Mark(k) # <<>> /\ Len(Mark(k)) = 3
         /\ Mark(k)[1] = Open /\ Mark(k)[2] = NameOf(k) /\ Mark(k)[3] = Close
         /\ Mark(k) = Cons(Open, Cons(NameOf(k), <<Close>>))
BY NamesIn, TokenFacts DEF Mark

\* Where a token is.
LEMMA MarkAt ==
  ASSUME NEW t \in Text, NEW k \in 1..20, NEW i \in 1..Len(t)
  PROVE  At(t, i, Mark(k))
           <=> i + 2 <= Len(t) /\ t[i] = Open /\ t[i + 1] = NameOf(k) /\ t[i + 2] = Close
<1>1. /\ Mark(k) \in Text /\ Len(Mark(k)) = 3
      /\ Mark(k)[1] = Open /\ Mark(k)[2] = NameOf(k) /\ Mark(k)[3] = Close
      /\ Len(t) \in Nat
  BY MarkFacts, TextFacts
<1>2. DOMAIN Mark(k) = 1..3
  BY <1>1, TextFacts
<1>3. At(t, i, Mark(k)) <=> i + 2 <= Len(t) /\ \A j \in 1..3 : t[i + j - 1] = Mark(k)[j]
  BY <1>1, <1>2 DEF At
<1>4. (\A j \in 1..3 : t[i + j - 1] = Mark(k)[j])
        <=> t[i] = Open /\ t[i + 1] = NameOf(k) /\ t[i + 2] = Close
  <2>1. i + 1 - 1 = i /\ i + 2 - 1 = i + 1 /\ i + 3 - 1 = i + 2
    OBVIOUS
  <2>2. (\A j \in 1..3 : t[i + j - 1] = Mark(k)[j])
          <=> t[i + 1 - 1] = Mark(k)[1] /\ t[i + 2 - 1] = Mark(k)[2] /\ t[i + 3 - 1] = Mark(k)[3]
    OBVIOUS
  <2> QED  BY <1>1, <2>1, <2>2
<1> QED  BY <1>3, <1>4

\* The rules as what they are.
IsTokens(rules) ==
  /\ Len(rules) = 20 /\ DOMAIN rules = 1..20
  /\ \A k \in 1..20 : rules[k][1] = NameOf(k)
  /\ rules[1][2] = Cat(Mark(3), Mark(4))
  /\ rules[2][2] = Cat(Mark(3), Mark(5))
  /\ \A k \in 3..20 : \E x \in Symbols \ TokenNames :
       rules[k][2] = <<x>> /\ (x = Open => k = 15) /\ (x = Close => k = 16)

LEMMA SignFacts ==
  /\ Expansions \subseteq Symbols /\ Expansions \cap TokenNames = {}
  /\ Open \notin Expansions /\ Close \notin Expansions
BY SymbolsAssumption DEF Expansions, TokenNames, Open, Close

LEMMA RuleSigns ==
  /\ Rules[1][2] = Cat(Mark(3), Mark(4)) /\ Rules[2][2] = Cat(Mark(3), Mark(5))
  /\ \A k \in (3..20) \ {15, 16} : \E x \in Expansions : Rules[k][2] = <<x>>
  /\ Rules[15][2] = <<Open>> /\ Rules[16][2] = <<Close>>
<1>2. Rules[1][2] = Cat(Token("any"), Token("int"))
  BY DEF Rules, Cat
<1>3. Rules[2][2] = Cat(Token("any"), Token("float"))
  BY DEF Rules, Cat
<1>4. Rules[15][2] = <<Open>> /\ Rules[16][2] = <<Close>>
  BY DEF Rules, Open, Close
<1>5. /\ Rules[3][2] = <<"[\\s\\S]*?">> /\ Rules[4][2] = <<"(int)">> /\ Rules[5][2] = <<"(float)">>
      /\ Rules[6][2] = <<"\\$">> /\ Rules[7][2] = <<"\\^">> /\ Rules[8][2] = <<"\\*">>
      /\ Rules[9][2] = <<"\\?">> /\ Rules[10][2] = <<"\\+">> /\ Rules[11][2] = <<"\\-">>
      /\ Rules[12][2] = <<"\\.">> /\ Rules[13][2] = <<"\\(">> /\ Rules[14][2] = <<"\\)">>
      /\ Rules[17][2] = <<"\\[">> /\ Rules[18][2] = <<"\\]">> /\ Rules[19][2] = <<"\\|">>
      /\ Rules[20][2] = <<"\\\\">>
  BY DEF Rules
<1>6. \A k \in (3..20) \ {15, 16} : \E x \in Expansions : Rules[k][2] = <<x>>
  <2> SUFFICES ASSUME NEW k \in (3..20) \ {15, 16}
               PROVE  \E x \in Expansions : Rules[k][2] = <<x>>
    OBVIOUS
  <2>1. k \in {3, 4, 5, 6, 7, 8, 9, 10, 11, 12, 13, 14, 17, 18, 19, 20}
    OBVIOUS
  <2> QED  BY <1>5, <2>1 DEF Expansions
<1> QED  BY <1>2, <1>3, <1>4, <1>6, NamesAre DEF Mark

LEMMA RulesAreTokens == IsTokens(Rules)
<1>1. \A k \in 3..20 : \E x \in Symbols \ TokenNames :
        Rules[k][2] = <<x>> /\ (x = Open => k = 15) /\ (x = Close => k = 16)
  <2> SUFFICES ASSUME NEW k \in 3..20
               PROVE  \E x \in Symbols \ TokenNames :
                        Rules[k][2] = <<x>> /\ (x = Open => k = 15) /\ (x = Close => k = 16)
    OBVIOUS
  <2>1. CASE k \in (3..20) \ {15, 16}
    BY <2>1, RuleSigns, SignFacts
  <2>2. CASE k \in {15, 16}
    BY <2>2, RuleSigns, BraceFacts
  <2> QED  BY <2>1, <2>2
<1> QED  BY <1>1, RulesLength, RuleSigns DEF IsTokens, NameOf

LEMMA EscapedFacts ==
  /\ Len(Escaped) = 20 /\ DOMAIN Escaped = 1..20
  /\ \A k \in 1..20 : Escaped[k][1] = NameOf(k)
  /\ \A k \in (1..20) \ {15, 16} : Escaped[k] = Rules[k]
  /\ Escaped[15][2] = <<PlainOpen>> /\ Escaped[16][2] = <<PlainClose>>
<1> DEFINE a == <<"lbrace", <<"\\{">>>>
           b == <<"rbrace", <<"\\}">>>>
           e == [Rules EXCEPT ![15] = a, ![16] = b]
<1>1. a[1] = "lbrace" /\ b[1] = "rbrace"
  OBVIOUS
<1>2. a[1] = NameOf(15) /\ b[1] = NameOf(16)
  BY <1>1, NamesAre
<1>3. a[2] = <<PlainOpen>> /\ b[2] = <<PlainClose>>
  BY DEF PlainOpen, PlainClose
<1>4. Escaped = e
  BY DEF Escaped
<1>5. Len(e) = 20 /\ DOMAIN e = 1..20
  BY DEF Rules
<1> HIDE DEF a, b
<1>6. e[15] = a /\ e[16] = b /\ \A k \in (1..20) \ {15, 16} : e[k] = Rules[k]
  BY RulesLength
<1> HIDE DEF e
<1>7. ASSUME NEW k \in 1..20 PROVE e[k][1] = NameOf(k)
  <2>1. CASE k \in {15, 16}
    BY <1>2, <1>6, <2>1
  <2>2. CASE k \notin {15, 16}
    BY <1>6, <2>2 DEF NameOf
  <2> QED  BY <2>1, <2>2
<1> QED  BY <1>3, <1>4, <1>5, <1>6, <1>7

LEMMA EscapedAreTokens == IsTokens(Escaped)
<1>1. \A k \in 3..20 : \E x \in Symbols \ TokenNames :
        Escaped[k][2] = <<x>> /\ (x = Open => k = 15) /\ (x = Close => k = 16)
  <2> SUFFICES ASSUME NEW k \in 3..20
               PROVE  \E x \in Symbols \ TokenNames :
                        Escaped[k][2] = <<x>> /\ (x = Open => k = 15) /\ (x = Close => k = 16)
    OBVIOUS
  <2>1. CASE k \in (3..20) \ {15, 16}
    BY <2>1, RuleSigns, SignFacts, EscapedFacts
  <2>2. CASE k \in {15, 16}
    BY <2>2, EscapedFacts, PlainFacts
  <2> QED  BY <2>1, <2>2
<1> QED  BY <1>1, EscapedFacts, RuleSigns DEF IsTokens

LEMMA TokensAreRules == ASSUME NEW rules, IsTokens(rules) PROVE IsRules(rules)
<1>1. /\ Len(rules) = 20 /\ \A k \in 1..20 : rules[k][1] = NameOf(k)
      /\ rules[1][2] = Cat(Mark(3), Mark(4)) /\ rules[2][2] = Cat(Mark(3), Mark(5))
      /\ \A k \in 3..20 : \E x \in Symbols \ TokenNames : rules[k][2] = <<x>>
  BY DEF IsTokens
<1>2. \A k \in 1..20 : Token(rules[k][1]) \in Text /\ Token(rules[k][1]) # <<>>
  BY <1>1, MarkFacts DEF Mark
<1>3. ASSUME NEW k \in 1..20 PROVE rules[k][2] \in Text
  <2>1. CASE k \in 3..20
    BY <1>1, <2>1, SymbolFacts
  <2>2. Mark(3) \in Text /\ Mark(4) \in Text /\ Mark(5) \in Text
    BY MarkFacts
  <2>3. Cat(Mark(3), Mark(4)) \in Text /\ Cat(Mark(3), Mark(5)) \in Text
    BY <2>2, CatFacts
  <2> QED  BY <1>1, <2>1, <2>3
<1> QED  BY <1>1, <1>2, <1>3 DEF IsRules

-----------------------------------------------------------------------------
(* What becomes of a token, rule by rule *)

\* A token that expands to a symbol, and any token, after k rules.
Simple(rules, k, j) == IF j <= k THEN rules[j][2] ELSE Mark(j)

After(rules, k, j) ==
  IF j \in 1..2 /\ j <= k THEN Cat(Simple(rules, k, 3), Simple(rules, k, j + 3))
  ELSE Simple(rules, k, j)

LEMMA SimpleSign ==
  ASSUME NEW rules, IsTokens(rules), NEW k \in 0..20, NEW j \in 3..20, j <= k
  PROVE  \E x \in Symbols \ TokenNames :
           /\ Simple(rules, k, j) = <<x>> /\ rules[j][2] = <<x>>
           /\ (x = Open => j = 15) /\ (x = Close => j = 16)
<1>1. Simple(rules, k, j) = rules[j][2]
  BY DEF Simple
<1>2. \E x \in Symbols \ TokenNames :
        rules[j][2] = <<x>> /\ (x = Open => j = 15) /\ (x = Close => j = 16)
  BY DEF IsTokens
<1> QED  BY <1>1, <1>2

LEMMA MarkClear ==
  ASSUME NEW k \in 1..20, NEW j \in 1..20, j # k
  PROVE  Clear(Mark(k), Mark(j))
<1> DEFINE a == Mark(k)
           b == Mark(j)
<1>1. /\ Len(a) = 3 /\ a[1] = Open /\ a[2] = NameOf(k)
      /\ Len(b) = 3 /\ b[2] = NameOf(j) /\ b[3] = Close
  BY MarkFacts
<1>2. NameOf(k) # NameOf(j) /\ NameOf(j) # Open /\ Close # Open
  BY NamesDiffer, NamesIn, BraceFacts
<1> HIDE DEF a, b
<1>3. ASSUME NEW i \in 1..Len(b)
      PROVE  \E d \in 1..Len(a) : i + d - 1 <= Len(b) /\ b[i + d - 1] # a[d]
  <2>1. CASE i = 1
    <3>1. i + 2 - 1 = 2 /\ 2 \in 1..Len(a)
      BY <1>1, <2>1
    <3> QED  BY <1>1, <1>2, <3>1
  <2>2. CASE i = 2
    <3>1. i + 1 - 1 = 2 /\ 1 \in 1..Len(a)
      BY <1>1, <2>2
    <3> QED  BY <1>1, <1>2, <3>1
  <2>3. CASE i = 3
    <3>1. i + 1 - 1 = 3 /\ 1 \in 1..Len(a)
      BY <1>1, <2>3
    <3> QED  BY <1>1, <1>2, <3>1
  <2> QED  BY <1>1, <2>1, <2>2, <2>3
<1> QED  BY <1>3 DEF Clear, a, b

LEMMA SignClear ==
  ASSUME NEW k \in 1..20, NEW x \in Symbols, x # Open
  PROVE  Clear(Mark(k), <<x>>)
<1> DEFINE a == Mark(k)
           b == <<x>>
<1>1. Len(a) = 3 /\ a[1] = Open
  BY MarkFacts
<1>2. Len(b) = 1 /\ b[1] = x
  BY SymbolFacts
<1> HIDE DEF a, b
<1>3. ASSUME NEW i \in 1..Len(b)
      PROVE  \E d \in 1..Len(a) : i + d - 1 <= Len(b) /\ b[i + d - 1] # a[d]
  <2>1. i = 1 /\ i + 1 - 1 = 1 /\ 1 \in 1..Len(a)
    BY <1>1, <1>2
  <2> QED  BY <1>1, <1>2, <2>1
<1> QED  BY <1>3 DEF Clear, a, b

\* The k-th rule makes one text of another, whatever follows.
Turns(rules, k, s, u) ==
  \A t \in Text : strReplace(Mark(k), rules[k][2], Cat(s, t))
                    = Cat(u, strReplace(Mark(k), rules[k][2], t))

LEMMA PutType ==
  ASSUME NEW rules, IsTokens(rules), NEW k \in 1..20
  PROVE  rules[k][2] \in Text
<1>1. IsRules(rules) /\ Len(rules) = 20
  BY TokensAreRules DEF IsTokens
<1> QED  BY <1>1 DEF IsRules

LEMMA TurnsClear ==
  ASSUME NEW rules, IsTokens(rules), NEW k \in 1..20, NEW s \in Text, Clear(Mark(k), s)
  PROVE  Turns(rules, k, s, s)
<1>1. rules[k][2] \in Text /\ Mark(k) \in Text /\ Mark(k) # <<>>
  BY PutType, MarkFacts
<1> QED  BY <1>1, ReplaceClear DEF Turns

LEMMA TurnsMark ==
  ASSUME NEW rules, IsTokens(rules), NEW k \in 1..20
  PROVE  Turns(rules, k, Mark(k), rules[k][2])
<1>1. rules[k][2] \in Text /\ Mark(k) \in Text /\ Mark(k) # <<>>
  BY PutType, MarkFacts
<1> QED  BY <1>1, ReplaceMatch DEF Turns

LEMMA TurnsCat ==
  ASSUME NEW rules, IsTokens(rules), NEW k \in 1..20,
         NEW s \in Text, NEW u \in Text, Turns(rules, k, s, u),
         NEW q \in Text, NEW v \in Text, Turns(rules, k, q, v)
  PROVE  Turns(rules, k, Cat(s, q), Cat(u, v))
<1> SUFFICES ASSUME NEW t \in Text
             PROVE  strReplace(Mark(k), rules[k][2], Cat(Cat(s, q), t))
                      = Cat(Cat(u, v), strReplace(Mark(k), rules[k][2], t))
  BY Zenon DEF Turns
<1> DEFINE r == strReplace(Mark(k), rules[k][2], t)
<1>1. rules[k][2] \in Text /\ Mark(k) \in Text /\ Mark(k) # <<>>
  BY PutType, MarkFacts
<1>2. r \in Text
  BY <1>1, ReplaceType
<1>3. Cat(q, t) \in Text
  BY CatFacts
<1>4. Cat(Cat(s, q), t) = Cat(s, Cat(q, t))
  BY CatAssoc
<1>5. strReplace(Mark(k), rules[k][2], Cat(s, Cat(q, t)))
        = Cat(u, strReplace(Mark(k), rules[k][2], Cat(q, t)))
  BY <1>3, Zenon DEF Turns
<1>6. strReplace(Mark(k), rules[k][2], Cat(q, t)) = Cat(v, r)
  BY Zenon DEF Turns
<1> HIDE DEF r
<1>7. Cat(Cat(u, v), r) = Cat(u, Cat(v, r))
  BY <1>2, CatAssoc
<1> QED  BY <1>4, <1>5, <1>6, <1>7, Zenon DEF r

LEMMA SimpleType ==
  ASSUME NEW rules, IsTokens(rules), NEW k \in 0..20, NEW j \in 3..20
  PROVE  Simple(rules, k, j) \in Text
<1>1. CASE j > k
  <2>1. Simple(rules, k, j) = Mark(j)
    BY <1>1 DEF Simple
  <2> QED  BY <2>1, MarkFacts
<1>2. CASE j <= k
  <2>1. PICK x \in Symbols \ TokenNames :
         /\ Simple(rules, k, j) = <<x>> /\ rules[j][2] = <<x>>
         /\ (x = Open => j = 15) /\ (x = Close => j = 16)
    BY <1>2, SimpleSign, Zenon
  <2> QED  BY <2>1, SymbolFacts
<1> QED  BY <1>1, <1>2

\* An opening brace that has come out, or another token.
BraceOut(rules, k, j) == j = 15 /\ k >= 15 /\ rules[15][2] = <<Open>>

LEMMA SimpleTurns ==
  ASSUME NEW rules, IsTokens(rules), NEW k \in 0..19, NEW j \in 3..20, ~BraceOut(rules, k, j)
  PROVE  Turns(rules, k + 1, Simple(rules, k, j), Simple(rules, k + 1, j))
<1> DEFINE l == k + 1
<1>1. l \in 1..20 /\ k \in 0..20 /\ l \in 0..20 /\ j \in 1..20
  OBVIOUS
<1>2. CASE j > l
  <2>1. Simple(rules, k, j) = Mark(j) /\ Simple(rules, l, j) = Mark(j)
    BY <1>2 DEF Simple
  <2>2. j # l
    BY <1>2
  <2> HIDE DEF l
  <2>3. Clear(Mark(l), Mark(j)) /\ Mark(j) \in Text
    BY <1>1, <2>2, MarkClear, MarkFacts
  <2>4. Turns(rules, l, Mark(j), Mark(j))
    BY <1>1, <2>3, TurnsClear
  <2> QED  BY <2>1, <2>4 DEF l
<1>3. CASE j = l
  <2>1. Simple(rules, k, j) = Mark(j) /\ Simple(rules, l, j) = rules[j][2]
    BY <1>3 DEF Simple
  <2>2. Turns(rules, j, Mark(j), rules[j][2])
    BY <1>1, TurnsMark
  <2> QED  BY <1>3, <2>1, <2>2
<1>4. CASE j <= k
  <2>1. PICK x \in Symbols \ TokenNames :
         /\ Simple(rules, k, j) = <<x>> /\ rules[j][2] = <<x>>
         /\ (x = Open => j = 15) /\ (x = Close => j = 16)
    BY <1>1, <1>4, SimpleSign, Zenon
  <2>2. Simple(rules, l, j) = <<x>>
    BY <1>4, <2>1 DEF Simple
  <2>3. x # Open
    BY <1>4, <2>1 DEF BraceOut
  <2>4. Clear(Mark(l), <<x>>) /\ <<x>> \in Text
    BY <1>1, <2>3, SignClear, SymbolFacts
  <2> HIDE DEF l
  <2>5. Turns(rules, l, <<x>>, <<x>>)
    BY <1>1, <2>4, TurnsClear
  <2> QED  BY <2>1, <2>2, <2>5 DEF l
<1> QED  BY <1>2, <1>3, <1>4

LEMMA AfterType ==
  ASSUME NEW rules, IsTokens(rules), NEW k \in 0..20, NEW j \in 1..20
  PROVE  After(rules, k, j) \in Text
<1>1. CASE j \in 3..20
  <2>1. After(rules, k, j) = Simple(rules, k, j)
    BY <1>1 DEF After
  <2> QED  BY <1>1, <2>1, SimpleType
<1>2. CASE j \in 1..2 /\ j > k
  <2>1. After(rules, k, j) = Mark(j)
    BY <1>2 DEF After, Simple
  <2> QED  BY <2>1, MarkFacts
<1>3. CASE j \in 1..2 /\ j <= k
  <2> DEFINE i == j + 3
             a == Simple(rules, k, 3)
             b == Simple(rules, k, i)
  <2>1. i \in 3..20 /\ 3 \in 3..20
    BY <1>3
  <2>2. After(rules, k, j) = Cat(a, b)
    BY <1>3 DEF After
  <2> HIDE DEF i
  <2>3. a \in Text /\ b \in Text
    BY <2>1, SimpleType
  <2> HIDE DEF a, b
  <2> QED  BY <2>2, <2>3, CatFacts
<1> QED  BY <1>1, <1>2, <1>3

LEMMA AfterTurns ==
  ASSUME NEW rules, IsTokens(rules), NEW k \in 0..19, NEW j \in 1..20, ~BraceOut(rules, k, j)
  PROVE  Turns(rules, k + 1, After(rules, k, j), After(rules, k + 1, j))
<1> DEFINE l == k + 1
<1>1. l \in 1..20 /\ k \in 0..20 /\ l \in 0..20
  OBVIOUS
<1>2. CASE j \in 3..20
  <2>1. After(rules, k, j) = Simple(rules, k, j) /\ After(rules, l, j) = Simple(rules, l, j)
    BY <1>2 DEF After
  <2> QED  BY <1>2, <2>1, SimpleTurns
<1>3. CASE j \in 1..2 /\ j > l
  <2>1. After(rules, k, j) = Mark(j) /\ After(rules, l, j) = Mark(j)
    BY <1>3 DEF After, Simple
  <2>2. j # l
    BY <1>3
  <2> HIDE DEF l
  <2>3. Clear(Mark(l), Mark(j)) /\ Mark(j) \in Text
    BY <1>1, <2>2, MarkClear, MarkFacts
  <2>4. Turns(rules, l, Mark(j), Mark(j))
    BY <1>1, <2>3, TurnsClear
  <2> QED  BY <2>1, <2>4 DEF l
<1>4. CASE j \in 1..2 /\ j = l
  <2> DEFINE i == j + 3
  <2>1. After(rules, k, j) = Mark(j) /\ After(rules, l, j) = Cat(Mark(3), Mark(i))
    BY <1>4 DEF After, Simple
  <2>2. rules[j][2] = Cat(Mark(3), Mark(i))
    BY <1>4 DEF IsTokens
  <2>3. Turns(rules, j, Mark(j), rules[j][2])
    BY TurnsMark
  <2> QED  BY <1>4, <2>1, <2>2, <2>3
<1>5. CASE j \in 1..2 /\ j <= k
  <2> DEFINE i == j + 3
             a == Simple(rules, k, 3)
             b == Simple(rules, k, i)
             c == Simple(rules, l, 3)
             d == Simple(rules, l, i)
  <2>1. i \in 3..20 /\ 3 \in 3..20 /\ i # 15
    BY <1>5
  <2>2. ~BraceOut(rules, k, 3) /\ ~BraceOut(rules, k, i)
    BY <2>1 DEF BraceOut
  <2>3. After(rules, k, j) = Cat(a, b) /\ After(rules, l, j) = Cat(c, d)
    BY <1>5 DEF After
  <2> HIDE DEF i
  <2>4. Turns(rules, l, a, c) /\ Turns(rules, l, b, d)
    BY <2>1, <2>2, SimpleTurns
  <2> HIDE DEF l
  <2>5. a \in Text /\ b \in Text /\ c \in Text /\ d \in Text
    BY <1>1, <2>1, SimpleType
  <2> HIDE DEF a, b, c, d
  <2>6. Turns(rules, l, Cat(a, b), Cat(c, d))
    BY <1>1, <2>4, <2>5, TurnsCat
  <2> QED  BY <2>3, <2>6 DEF l
<1> QED  BY <1>2, <1>3, <1>4, <1>5

LEMMA BracesOut ==
  ASSUME NEW rules, NEW k \in 15..20
  PROVE  /\ After(rules, k, 15) = rules[15][2]
         /\ k >= 16 => After(rules, k, 16) = rules[16][2]
BY DEF After, Simple

\* A rule makes the next meaning of one, and Expand the last.
LEMMA AfterApplied ==
  ASSUME NEW rules, IsTokens(rules), NEW k \in 0..19, NEW j \in 1..20
  PROVE  Applied(rules, k + 1, After(rules, k, j)) = After(rules, k + 1, j)
<1> DEFINE l == k + 1
           e == rules[l][2]
           m == After(rules, k, j)
           n == After(rules, l, j)
<1>1. l \in 1..20 /\ k \in 0..20 /\ l \in 0..20
  OBVIOUS
<1>2. rules[l][1] = NameOf(l)
  BY <1>1 DEF IsTokens
<1>3. Applied(rules, l, m) = strReplace(Mark(l), e, m)
  BY <1>2, Zenon DEF Applied, Mark
<1> HIDE DEF l
<1>4. e \in Text /\ Mark(l) \in Text /\ Mark(l) # <<>> /\ Len(Mark(l)) = 3
  BY <1>1, PutType, MarkFacts
<1>5. m \in Text /\ n \in Text
  BY <1>1, AfterType
<1>6. <<>> \in Text
  BY EmptySeq DEF Text
<1>7. CASE ~BraceOut(rules, k, j)
  <2>1. Turns(rules, l, m, n)
    BY <1>7, AfterTurns DEF l
  <2> HIDE DEF m, n
  <2>2. strReplace(Mark(l), e, Cat(m, <<>>)) = Cat(n, strReplace(Mark(l), e, <<>>))
    BY <1>6, <2>1, Zenon DEF Turns
  <2>3. strReplace(Mark(l), e, <<>>) = <<>>
    BY <1>4, ReplaceEmpty
  <2>4. Cat(m, <<>>) = m /\ Cat(n, <<>>) = n
    BY <1>5, CatEmpty
  <2> QED  BY <1>3, <2>2, <2>3, <2>4, Zenon DEF l, m, n
<1>8. CASE BraceOut(rules, k, j)
  <2>1. j = 15 /\ k \in 15..20 /\ l \in 15..20 /\ rules[15][2] = <<Open>>
    BY <1>8 DEF BraceOut, l
  <2>2. m = <<Open>> /\ n = <<Open>>
    BY <2>1, BracesOut, Zenon
  <2> HIDE DEF m, n, e
  <2> DEFINE o == <<Open>>
  <2>3. Len(o) = 1 /\ o \in Text
    BY BraceFacts, SymbolFacts
  <2> HIDE DEF o
  <2>4. ~Occurs(Mark(l), o)
    <3>1. ASSUME NEW i \in DOMAIN o PROVE ~At(o, i, Mark(l))
      <4>1. i = 1 /\ i \in 1..Len(o)
        BY <2>3, TextFacts
      <4>2. At(o, i, Mark(l)) => i + 2 <= Len(o)
        BY <1>1, <2>3, <4>1, MarkAt, Zenon
      <4> QED  BY <2>3, <4>1, <4>2
    <3> QED  BY <3>1 DEF Occurs, Places
  <2>5. strReplace(Mark(l), e, o) = o
    BY <1>4, <2>3, <2>4, ReplaceNothing
  <2> QED  BY <1>3, <2>2, <2>5, Zenon DEF l, m, n, e, o
<1> QED  BY <1>7, <1>8

LEMMA ExpandMark ==
  ASSUME NEW rules, IsTokens(rules), NEW j \in 1..20
  PROVE  Expand(rules, Mark(j)) = After(rules, 20, j)
<1>1. IsRules(rules) /\ Len(rules) = 20
  BY TokensAreRules DEF IsTokens
<1>2. Mark(j) \in Text
  BY MarkFacts
<1>3. PICK f \in [0..Len(rules) -> Text] :
        /\ f[0] = Mark(j) /\ Expand(rules, Mark(j)) = f[Len(rules)]
        /\ \A k \in 1..Len(rules) : f[k] = Applied(rules, k, f[k - 1])
  BY <1>1, <1>2, ExpandStages, Zenon
<1> DEFINE S == {k \in Nat : k <= 20 => f[k] = After(rules, k, j)}
<1>4. 0 \in S
  BY <1>3 DEF After, Simple
<1>5. ASSUME NEW k \in Nat, k \in S PROVE k + 1 \in S
  <2> SUFFICES ASSUME k + 1 <= 20 PROVE f[k + 1] = After(rules, k + 1, j)
    OBVIOUS
  <2>1. f[k] = After(rules, k, j) /\ k \in 0..19
    BY <1>5
  <2>2. k + 1 \in 1..20 /\ k + 1 - 1 = k
    BY <2>1
  <2>3. f[k + 1] = Applied(rules, k + 1, f[k])
    BY <1>1, <1>3, <2>2
  <2>4. Applied(rules, k + 1, After(rules, k, j)) = After(rules, k + 1, j)
    BY <2>1, AfterApplied
  <2> QED  BY <2>1, <2>3, <2>4
<1>6. 20 \in S
  <2> HIDE DEF S
  <2> QED  BY <1>4, <1>5, Induction
<1> QED  BY <1>1, <1>3, <1>6

\* What a meaning begins with: a closing brace only after the rule of {rbrace}.
Begins(k, j, t) == \E x \in Symbols \ TokenNames, s \in Text :
                     t = Cons(x, s) /\ (x = Close => j = 16 /\ k >= 16)

LEMMA SimpleBegins ==
  ASSUME NEW rules, IsTokens(rules), NEW k \in 0..20, NEW j \in 3..20
  PROVE  Begins(k, j, Simple(rules, k, j))
<1>1. CASE j > k
  <2>1. Simple(rules, k, j) = Mark(j)
    BY <1>1 DEF Simple
  <2>2. Mark(j) = Cons(Open, Cons(NameOf(j), <<Close>>)) /\ NameOf(j) \in Symbols
    BY MarkFacts
  <2>3. Cons(NameOf(j), <<Close>>) \in Text
    BY <2>2, BraceFacts, SymbolFacts, HeadFacts
  <2>4. Open \in Symbols \ TokenNames /\ Open # Close
    BY BraceFacts
  <2> QED  BY <2>1, <2>2, <2>3, <2>4, Zenon DEF Begins
<1>2. CASE j <= k
  <2>1. PICK x \in Symbols \ TokenNames :
          /\ Simple(rules, k, j) = <<x>> /\ rules[j][2] = <<x>>
          /\ (x = Open => j = 15) /\ (x = Close => j = 16)
    BY <1>2, SimpleSign, Zenon
  <2>2. <<>> \in Text /\ <<x>> \in Text
    BY EmptySeq, SymbolFacts DEF Text
  <2>3. Cons(x, <<>>) = <<x>>
    BY <2>2, CatEmpty, Zenon DEF Cons
  <2>4. x = Close => j = 16 /\ k >= 16
    BY <1>2, <2>1
  <2> QED  BY <2>1, <2>2, <2>3, <2>4, Zenon DEF Begins
<1> QED  BY <1>1, <1>2

LEMMA AfterBegins ==
  ASSUME NEW rules, IsTokens(rules), NEW k \in 0..20, NEW j \in 1..20
  PROVE  Begins(k, j, After(rules, k, j))
<1>1. CASE j \in 3..20
  <2>1. After(rules, k, j) = Simple(rules, k, j)
    BY <1>1 DEF After
  <2> QED  BY <1>1, <2>1, SimpleBegins
<1>2. CASE j \in 1..2 /\ j > k
  <2>1. After(rules, k, j) = Mark(j)
    BY <1>2 DEF After, Simple
  <2>2. Mark(j) = Cons(Open, Cons(NameOf(j), <<Close>>)) /\ NameOf(j) \in Symbols
    BY MarkFacts
  <2>3. Cons(NameOf(j), <<Close>>) \in Text
    BY <2>2, BraceFacts, SymbolFacts, HeadFacts
  <2>4. Open \in Symbols \ TokenNames /\ Open # Close
    BY BraceFacts
  <2> QED  BY <2>1, <2>2, <2>3, <2>4, Zenon DEF Begins
<1>3. CASE j \in 1..2 /\ j <= k
  <2> DEFINE i == j + 3
             a == Simple(rules, k, 3)
             b == Simple(rules, k, i)
  <2>1. i \in 3..20 /\ 3 \in 3..20
    BY <1>3
  <2>2. After(rules, k, j) = Cat(a, b)
    BY <1>3 DEF After
  <2> HIDE DEF i
  <2>3. b \in Text
    BY <2>1, SimpleType
  <2>4. Begins(k, 3, a)
    BY <2>1, SimpleBegins
  <2> HIDE DEF a, b
  <2>5. PICK x \in Symbols \ TokenNames, s \in Text :
          a = Cons(x, s) /\ (x = Close => 3 = 16 /\ k >= 16)
    BY <2>4, Zenon DEF Begins
  <2>6. x # Close /\ x \in Symbols
    BY <2>5
  <2>7. Cat(a, b) = Cons(x, Cat(s, b))
    BY <2>3, <2>5, <2>6, ConsCat, Zenon
  <2>8. Cat(s, b) \in Text
    BY <2>3, CatFacts
  <2> QED  BY <2>2, <2>6, <2>7, <2>8, Zenon DEF Begins
<1> QED  BY <1>1, <1>2, <1>3

-----------------------------------------------------------------------------
(* All tokens at once *)

MarkedAt(t, i) == \E k \in 1..20 : At(t, i, Mark(k))

PassStep(f, t) ==
  [i \in DOMAIN t |->
     IF MarkedAt(t, i) THEN [put |-> f[t[i + 1]], next |-> i + 3] ELSE Copy(t, i)]

\* One pass that puts f in for the tokens.
Pass(f, t) == Read(Len(t), PassStep(f, t))

LEMMA MarkedFacts ==
  ASSUME NEW t \in Text, NEW i \in 1..Len(t), MarkedAt(t, i)
  PROVE  i + 2 <= Len(t) /\ t[i + 1] \in TokenNames
<1>1. PICK k \in 1..20 : At(t, i, Mark(k))
  BY DEF MarkedAt
<1>2. i + 2 <= Len(t) /\ t[i + 1] = NameOf(k)
  BY <1>1, MarkAt
<1> QED  BY <1>2, NamesIn

LEMMA MarkedFrom ==
  ASSUME NEW t \in Text, NEW k \in 1..(Len(t) + 1), NEW i \in 1..(Len(t) - k + 1)
  PROVE  MarkedAt(From(t, k), i) <=> MarkedAt(t, k + i - 1)
<1>1. \A j \in 1..20 : At(From(t, k), i, Mark(j)) <=> At(t, k + i - 1, Mark(j))
  BY AtFrom, MarkFacts
<1> QED  BY <1>1, Zenon DEF MarkedAt

LEMMA PassSteps ==
  ASSUME NEW f \in [TokenNames -> Text], NEW t \in Text
  PROVE  /\ IsSteps(PassStep(f, t), Len(t))
         /\ \A i \in 1..Len(t) :
              /\ MarkedAt(t, i) => /\ PassStep(f, t)[i].put = f[t[i + 1]]
                                   /\ PassStep(f, t)[i].next = i + 3
              /\ ~MarkedAt(t, i) => /\ PassStep(f, t)[i].put = <<t[i]>>
                                    /\ PassStep(f, t)[i].next = i + 1
<1> DEFINE step == PassStep(f, t)
<1>1. /\ Len(t) \in Nat /\ DOMAIN t = 1..Len(t)
      /\ \A i \in 1..Len(t) : t[i] \in Symbols
  BY TextFacts
<1>2. \A i \in 1..Len(t) : MarkedAt(t, i) => /\ i + 3 \in (i + 1)..(Len(t) + 1)
                                             /\ f[t[i + 1]] \in Text
  BY <1>1, MarkedFacts
<1>3. \A i \in 1..Len(t) : <<t[i]>> \in Text
  BY <1>1, SymbolFacts
<1>4. ASSUME NEW i \in 1..Len(t)
      PROVE  /\ step[i] \in [put : Text, next : 1..(Len(t) + 1)] /\ step[i].next > i
             /\ MarkedAt(t, i) => step[i].put = f[t[i + 1]] /\ step[i].next = i + 3
             /\ ~MarkedAt(t, i) => step[i].put = <<t[i]>> /\ step[i].next = i + 1
  <2>1. CASE MarkedAt(t, i)
    <3>1. step[i] = [put |-> f[t[i + 1]], next |-> i + 3]
      BY <1>1, <2>1 DEF PassStep
    <3> QED  BY <1>1, <1>2, <2>1, <3>1
  <2>2. CASE ~MarkedAt(t, i)
    <3>1. step[i] = [put |-> <<t[i]>>, next |-> i + 1]
      BY <1>1, <2>2 DEF PassStep, Copy
    <3> QED  BY <1>1, <1>3, <2>2, <3>1
  <2> QED  BY <2>1, <2>2
<1>5. step = [i \in 1..Len(t) |-> step[i]]
  BY <1>1 DEF PassStep
<1> QED  BY <1>4, <1>5 DEF IsSteps

LEMMA PassType ==
  ASSUME NEW f \in [TokenNames -> Text], NEW t \in Text
  PROVE  Pass(f, t) \in Text /\ Pass(f, <<>>) = <<>>
<1>1. <<>> \in Text /\ Len(<<>>) = 0
  BY EmptySeq DEF Text
<1>2. IsSteps(PassStep(f, t), Len(t)) /\ Len(t) \in Nat
  BY PassSteps, TextFacts
<1>3. IsSteps(PassStep(f, <<>>), 0)
  BY <1>1, PassSteps
<1>4. Read(Len(t), PassStep(f, t)) \in Text
  BY <1>2, ReadFacts
<1>5. Read(0, PassStep(f, <<>>)) = <<>>
  BY <1>3, ReadFacts
<1> QED  BY <1>1, <1>4, <1>5 DEF Pass

LEMMA PassRest ==
  ASSUME NEW f \in [TokenNames -> Text], NEW t \in Text, t # <<>>
  PROVE  Pass(f, t) = Cat(PassStep(f, t)[1].put, Pass(f, From(t, PassStep(f, t)[1].next)))
<1> DEFINE step == PassStep(f, t)
           k == step[1].next
           rest == PassStep(f, From(t, k))
           n == Len(t)
           m == Len(From(t, k))
<1>1. n \in Nat /\ n > 0
  BY TextFacts
<1>2. IsSteps(step, n)
  BY PassSteps
<1>3. k \in 2..(n + 1) /\ k \in 1..(n + 1)
  <2> HIDE DEF step
  <2>1. step[1].next \in 2..(n + 1)
    BY <1>1, <1>2, StepFacts
  <2> QED  BY <2>1 DEF step
<1> HIDE DEF k
<1>4. From(t, k) \in Text /\ m = n - k + 1 /\ m \in Nat
  BY <1>1, <1>3, FromFacts
<1>5. IsSteps(rest, m)
  BY <1>4, PassSteps
<1>6. ASSUME NEW i \in 1..m
      PROVE  /\ rest[i].put = step[i + n - m].put
             /\ rest[i].next = step[i + n - m].next - (n - m)
  <2>1. PICK j \in 1..n : j = i + n - m
    BY <1>1, <1>3, <1>4
  <2>2. j = k + i - 1 /\ i \in 1..(n - k + 1)
    BY <1>1, <1>3, <1>4, <2>1
  <2>3. From(t, k)[i] = t[j] /\ (MarkedAt(From(t, k), i) <=> MarkedAt(t, j))
    BY <1>3, <2>2, FromFacts, MarkedFrom
  <2>4. MarkedAt(t, j) => From(t, k)[i + 1] = t[j + 1]
    <3>1. SUFFICES ASSUME MarkedAt(t, j) PROVE From(t, k)[i + 1] = t[j + 1]
      OBVIOUS
    <3>2. i + 2 <= m
      BY <1>4, <2>3, <3>1, MarkedFacts
    <3> DEFINE i1 == i + 1
    <3>3. i1 \in 1..(n - k + 1) /\ k + i1 - 1 = j + 1
      BY <1>1, <1>3, <1>4, <2>2, <3>2
    <3> HIDE DEF i1
    <3>4. From(t, k)[i1] = t[k + i1 - 1]
      BY <1>3, <3>3, FromFacts
    <3> QED  BY <3>3, <3>4 DEF i1
  <2>5. /\ MarkedAt(t, j) => step[j].put = f[t[j + 1]] /\ step[j].next = j + 3
        /\ ~MarkedAt(t, j) => step[j].put = <<t[j]>> /\ step[j].next = j + 1
    BY PassSteps
  <2>6. /\ MarkedAt(From(t, k), i) => /\ rest[i].put = f[From(t, k)[i + 1]]
                                      /\ rest[i].next = i + 3
        /\ ~MarkedAt(From(t, k), i) => rest[i].put = <<From(t, k)[i]>> /\ rest[i].next = i + 1
    BY <1>4, PassSteps
  <2> HIDE DEF step, rest, n
  <2>7. rest[i].put = step[j].put
    BY <2>3, <2>4, <2>5, <2>6
  <2>8. \/ rest[i].next = i + 3 /\ step[j].next = j + 3
        \/ rest[i].next = i + 1 /\ step[j].next = j + 1
    BY <2>3, <2>5, <2>6
  <2>9. rest[i].next = step[j].next - (n - m)
    BY <1>1, <1>4, <2>1, <2>8
  <2> QED  BY <2>1, <2>7, <2>9
<1>7. m = n + 1 - step[1].next
  BY <1>1, <1>3, <1>4 DEF k
<1> HIDE DEF step, rest, n, m
<1>8. Read(n, step) = Cat(step[1].put, Read(m, rest))
  <2>1. IsRest(step, n, rest, m)
    BY <1>6, <1>7 DEF IsRest
  <2>2. m \in Nat
    BY <1>4
  <2>3. ReadsOn(n, step, m, rest)
    BY <1>1, <1>2, <1>5, <2>1, <2>2, ReadStep, Zenon
  <2> QED  BY <2>3, Zenon DEF ReadsOn
<1> QED  BY <1>8, Zenon DEF Pass, step, rest, n, m, k

\* A token,
LEMMA PassMark ==
  ASSUME NEW f \in [TokenNames -> Text], NEW t \in Text, NEW j \in 1..20
  PROVE  Pass(f, Cat(Mark(j), t)) = Cat(f[NameOf(j)], Pass(f, t))
<1> DEFINE a == Mark(j)
           u == Cat(a, t)
           step == PassStep(f, u)
<1>1. a \in Text /\ Len(a) = 3 /\ a[2] = NameOf(j)
  BY MarkFacts
<1>2. /\ u \in Text /\ Len(u) = Len(a) + Len(t) /\ \A i \in 1..Len(a) : u[i] = a[i]
      /\ Len(t) \in Nat
  BY <1>1, CatFacts, TextFacts
<1>3. From(u, Len(a) + 1) = t
  BY <1>1, FromConcat
<1>4. At(u, 1, a)
  BY <1>1, AtCat
<1>5. MarkedAt(u, 1)
  BY <1>4 DEF MarkedAt
<1> HIDE DEF u, a
<1>6. u # <<>> /\ 1 \in 1..Len(u) /\ From(u, 4) = t /\ u[2] = NameOf(j)
  BY <1>1, <1>2, <1>3, TextFacts
<1>7. step[1].put = f[NameOf(j)] /\ step[1].next = 4
  <2>1. step[1].put = f[u[1 + 1]] /\ step[1].next = 1 + 3
    BY <1>2, <1>5, <1>6, PassSteps
  <2> QED  BY <1>6, <2>1
<1>8. Pass(f, u) = Cat(step[1].put, Pass(f, From(u, step[1].next)))
  BY <1>2, <1>6, PassRest, Zenon
<1> QED  BY <1>6, <1>7, <1>8, Zenon DEF u, a

\* and a symbol that begins none.
LEMMA PassCopy ==
  ASSUME NEW f \in [TokenNames -> Text], NEW t \in Text, NEW x \in Symbols,
         ~MarkedAt(Cons(x, t), 1)
  PROVE  Pass(f, Cons(x, t)) = Cons(x, Pass(f, t))
<1> DEFINE u == Cons(x, t)
           step == PassStep(f, u)
<1>1. u \in Text /\ u # <<>> /\ u[1] = x /\ 1 \in 1..Len(u)
  BY HeadFacts, TextFacts
<1>2. From(u, 2) = t
  BY TailOfCat
<1>3. ~MarkedAt(u, 1)
  OBVIOUS
<1> HIDE DEF u
<1>4. step[1].put = <<x>> /\ step[1].next = 2
  BY <1>1, <1>3, PassSteps
<1>5. Pass(f, u) = Cat(step[1].put, Pass(f, From(u, step[1].next)))
  BY <1>1, PassRest, Zenon
<1> QED  BY <1>2, <1>4, <1>5, Zenon DEF u, Cons

\* A text begins with a token, or with a symbol that begins none, or is empty.
MarkBegins(t) == \E j \in 1..20, r \in Text : t = Cat(Mark(j), r) /\ Len(r) < Len(t)

SymbolBegins(t) == \E x \in Symbols, r \in Text :
                     t = Cons(x, r) /\ ~MarkedAt(Cons(x, r), 1) /\ Len(r) < Len(t)

LEMMA TextBegins ==
  ASSUME NEW t \in Text, t # <<>>
  PROVE  MarkBegins(t) \/ SymbolBegins(t)
<1>0. Len(t) \in Nat /\ Len(t) > 0
  BY TextFacts
<1>1. CASE MarkedAt(t, 1)
  <2>1. PICK j \in 1..20 : At(t, 1, Mark(j))
    BY <1>1 DEF MarkedAt
  <2> DEFINE r == From(t, Len(Mark(j)) + 1)
  <2>2. Mark(j) \in Text /\ Len(Mark(j)) = 3
    BY MarkFacts
  <2>3. r \in Text /\ t = Cat(Mark(j), r) /\ Len(r) = Len(t) - Len(Mark(j))
    BY <2>1, <2>2, AtIsCat
  <2> HIDE DEF r
  <2>4. Len(r) < Len(t)
    BY <1>0, <2>2, <2>3
  <2> QED  BY <2>3, <2>4, Zenon DEF MarkBegins
<1>2. CASE ~MarkedAt(t, 1)
  <2> DEFINE x == t[1]
             r == From(t, 2)
  <2>1. x \in Symbols /\ r \in Text /\ Len(r) = Len(t) - 1 /\ t = Cons(x, r)
    BY HeadAndRest
  <2> HIDE DEF x, r
  <2>2. Len(r) < Len(t)
    BY <1>0, <2>1
  <2>3. ~MarkedAt(Cons(x, r), 1)
    BY <1>2, <2>1, Zenon
  <2> QED  BY <2>1, <2>2, <2>3, Zenon DEF SymbolBegins
<1> QED  BY <1>1, <1>2

\* Induction over the tokens and the symbols between them.
LEMMA PassInduction ==
  ASSUME NEW S, <<>> \in S,
         \A j \in 1..20, r \in Text : r \in S => Cat(Mark(j), r) \in S,
         \A x \in Symbols, r \in Text : ~MarkedAt(Cons(x, r), 1) /\ r \in S => Cons(x, r) \in S
  PROVE  Text \subseteq S
<1>1. ASSUME NEW t \in Text, \A s \in Text : Len(s) < Len(t) => s \in S
      PROVE  t \in S
  <2>1. CASE t = <<>>
    BY <2>1
  <2>2. CASE t # <<>> /\ MarkBegins(t)
    BY <1>1, <2>2, Zenon DEF MarkBegins
  <2>3. CASE t # <<>> /\ SymbolBegins(t)
    BY <1>1, <2>3, Zenon DEF SymbolBegins
  <2> QED  BY <2>1, <2>2, <2>3, TextBegins, Zenon
<1> QED  BY <1>1, StrongInduction, Zenon

IndexOf(w) == CHOOSE j \in 1..20 : NameOf(j) = w

\* What every token has become after k rules.
Gives(rules, k) == [w \in TokenNames |-> After(rules, k, IndexOf(w))]

LEMMA GivesFacts ==
  ASSUME NEW rules, IsTokens(rules), NEW k \in 0..20
  PROVE  /\ Gives(rules, k) \in [TokenNames -> Text]
         /\ \A j \in 1..20 : Gives(rules, k)[NameOf(j)] = After(rules, k, j)
<1>1. \A w \in TokenNames : IndexOf(w) \in 1..20 /\ NameOf(IndexOf(w)) = w
  BY NamesAll DEF IndexOf
<1>2. \A w \in TokenNames : After(rules, k, IndexOf(w)) \in Text
  BY <1>1, AfterType
<1>3. ASSUME NEW j \in 1..20 PROVE Gives(rules, k)[NameOf(j)] = After(rules, k, j)
  <2>1. NameOf(j) \in TokenNames
    BY NamesIn
  <2>2. IndexOf(NameOf(j)) = j
    BY <1>1, <2>1, NamesDiffer
  <2> QED  BY <2>1, <2>2 DEF Gives
<1> QED  BY <1>2, <1>3 DEF Gives

LEMMA GivesType ==
  ASSUME NEW rules, IsTokens(rules), NEW k \in 0..20
  PROVE  Gives(rules, k) \in [TokenNames -> Text]
BY GivesFacts

LEMMA PassGives ==
  ASSUME NEW rules, IsTokens(rules), NEW k \in 0..20, NEW j \in 1..20, NEW t \in Text
  PROVE  Pass(Gives(rules, k), Cat(Mark(j), t))
           = Cat(After(rules, k, j), Pass(Gives(rules, k), t))
<1>1. Gives(rules, k) \in [TokenNames -> Text] /\ Gives(rules, k)[NameOf(j)] = After(rules, k, j)
  BY GivesFacts
<1> QED  BY <1>1, PassMark, Zenon

\* OnePass puts in what every token has become in the end.
LEMMA OnePassIs ==
  ASSUME NEW rules, IsTokens(rules), NEW p \in Text
  PROVE  OnePass(rules, p) = Pass(Gives(rules, 20), p)
<1> DEFINE tokenAt(i) == \E k \in DOMAIN rules : At(p, i, Token(rules[k][1]))
           step == [i \in DOMAIN p |->
                      IF tokenAt(i) THEN [put |-> Expand(rules, Token(p[i + 1])), next |-> i + 3]
                      ELSE Copy(p, i)]
           f == Gives(rules, 20)
<1>1. DOMAIN p = 1..Len(p)
  BY TextFacts
<1>2. DOMAIN rules = 1..20 /\ \A k \in 1..20 : rules[k][1] = NameOf(k)
  BY DEF IsTokens
<1>3. ASSUME NEW i \in DOMAIN p PROVE tokenAt(i) <=> MarkedAt(p, i)
  BY <1>2 DEF MarkedAt, Mark
<1>4. ASSUME NEW i \in DOMAIN p, MarkedAt(p, i) PROVE Expand(rules, Token(p[i + 1])) = f[p[i + 1]]
  <2>1. PICK k \in 1..20 : At(p, i, Mark(k))
    BY <1>4 DEF MarkedAt
  <2>2. p[i + 1] = NameOf(k)
    BY <1>1, <2>1, MarkAt
  <2>3. Expand(rules, Mark(k)) = After(rules, 20, k) /\ f[NameOf(k)] = After(rules, 20, k)
    BY ExpandMark, GivesFacts
  <2> QED  BY <2>2, <2>3, Zenon DEF Mark
<1>5. OnePass(rules, p) = Read(Len(p), step)
  BY Zenon DEF OnePass
<1> HIDE DEF tokenAt, f
<1>6. step = PassStep(f, p)
  BY <1>3, <1>4, Zenon DEF PassStep
<1> QED  BY <1>5, <1>6, Zenon DEF Pass, f

\* Before the first rule a pattern is as it is.
LEMMA PassNothing ==
  ASSUME NEW rules, IsTokens(rules), NEW p \in Text
  PROVE  Pass(Gives(rules, 0), p) = p
<1> DEFINE f == Gives(rules, 0)
           S == {t \in Text : Pass(f, t) = t}
<1>0. f \in [TokenNames -> Text]
  BY GivesType
<1>1. <<>> \in S
  <2>1. <<>> \in Text
    BY EmptySeq DEF Text
  <2> QED  BY <1>0, <2>1, PassType
<1>2. ASSUME NEW j \in 1..20, NEW r \in Text, r \in S PROVE Cat(Mark(j), r) \in S
  <2>1. Mark(j) \in Text
    BY MarkFacts
  <2>2. Cat(Mark(j), r) \in Text
    BY <2>1, CatFacts
  <2>3. Pass(f, Cat(Mark(j), r)) = Cat(After(rules, 0, j), Pass(f, r))
    BY PassGives
  <2>4. After(rules, 0, j) = Mark(j)
    BY DEF After, Simple
  <2> QED  BY <1>2, <2>2, <2>3, <2>4, Zenon
<1>3. ASSUME NEW x \in Symbols, NEW r \in Text, ~MarkedAt(Cons(x, r), 1) /\ r \in S
      PROVE  Cons(x, r) \in S
  <2>1. Cons(x, r) \in Text
    BY HeadFacts
  <2> HIDE DEF f
  <2>2. Pass(f, Cons(x, r)) = Cons(x, Pass(f, r))
    BY <1>0, <1>3, PassCopy
  <2> QED  BY <1>3, <2>1, <2>2, Zenon
<1>4. Text \subseteq S
  <2> HIDE DEF S
  <2> QED  BY <1>1, <1>2, <1>3, PassInduction
<1> QED  BY <1>4

-----------------------------------------------------------------------------
(* One rule after the other is all tokens at once *)

LEMMA MarkedCons ==
  ASSUME NEW j \in 1..20, NEW r \in Text
  PROVE  /\ Cons(Open, Cons(NameOf(j), Cons(Close, r))) = Cat(Mark(j), r)
         /\ At(Cons(Open, Cons(NameOf(j), Cons(Close, r))), 1, Mark(j))
<1> DEFINE c == <<Close>>
           n == NameOf(j)
           b == Cons(n, c)
<1>1. Mark(j) = Cons(Open, b) /\ n \in Symbols /\ Mark(j) \in Text
  BY MarkFacts
<1>2. c \in Text /\ Open \in Symbols
  BY BraceFacts, SymbolFacts
<1> HIDE DEF c, n
<1>3. b \in Text
  BY <1>1, <1>2, HeadFacts
<1>4. Cat(b, r) = Cons(n, Cat(c, r))
  BY <1>1, <1>2, ConsCat
<1> HIDE DEF b
<1>5. Cat(Cons(Open, b), r) = Cons(Open, Cat(b, r))
  BY <1>2, <1>3, ConsCat
<1>6. Cons(Open, Cons(NameOf(j), Cons(Close, r))) = Cat(Mark(j), r)
  BY <1>1, <1>4, <1>5, Zenon DEF c, n, Cons
<1>7. At(Cat(Mark(j), r), 1, Mark(j))
  BY <1>1, AtCat
<1> QED  BY <1>6, <1>7

\* What comes out of a token does not begin with a name.
LEMMA PassBegins ==
  ASSUME NEW rules, IsTokens(rules), NEW k \in 0..20, NEW j \in 1..20, NEW r \in Text
  PROVE  Begins(k, j, Pass(Gives(rules, k), Cat(Mark(j), r)))
<1> DEFINE a == After(rules, k, j)
           q == Pass(Gives(rules, k), r)
<1>1. Pass(Gives(rules, k), Cat(Mark(j), r)) = Cat(a, q)
  BY PassGives
<1>2. q \in Text
  BY GivesType, PassType
<1>3. Begins(k, j, a)
  BY AfterBegins
<1> HIDE DEF a, q
<1>4. PICK x \in Symbols \ TokenNames, s \in Text :
        a = Cons(x, s) /\ (x = Close => j = 16 /\ k >= 16)
  BY <1>3, Zenon DEF Begins
<1>5. x \in Symbols
  OBVIOUS
<1>6. Cat(a, q) = Cons(x, Cat(s, q))
  BY <1>2, <1>4, <1>5, ConsCat, Zenon
<1>7. Cat(s, q) \in Text
  BY <1>2, CatFacts
<1> QED  BY <1>1, <1>4, <1>6, <1>7, Zenon DEF Begins

LEMMA BeginsHead ==
  ASSUME NEW k, NEW j, NEW t, Begins(k, j, t)
  PROVE  t[1] \notin TokenNames /\ (t[1] = Close => j = 16 /\ k >= 16)
<1>1. PICK x \in Symbols \ TokenNames, s \in Text :
        t = Cons(x, s) /\ (x = Close => j = 16 /\ k >= 16)
  BY Zenon DEF Begins
<1>2. x \in Symbols /\ x \notin TokenNames
  OBVIOUS
<1>3. Cons(x, s)[1] = x
  BY <1>2, HeadFacts
<1> QED  BY <1>1, <1>2, <1>3

\* What begins with a closing brace: it was there, or it came out of {rbrace}.
LEMMA PassCloses ==
  ASSUME NEW k \in 0..20, NEW r \in Text, NEW n \in Nat \ {0},
         Len(Pass(Gives(Rules, k), r)) = n, Pass(Gives(Rules, k), r)[1] = Close
  PROVE  /\ \E s \in Text : Pass(Gives(Rules, 20), r) = Cons(Close, s)
         /\ k >= 16 \/ \E s \in Text : r = Cons(Close, s)
<1> DEFINE q(i) == Pass(Gives(Rules, i), r)
<1>0. IsTokens(Rules) /\ k \in 0..20 /\ 20 \in 0..20
  BY RulesAreTokens
<1>1. r # <<>>
  <2>1. SUFFICES ASSUME r = <<>> PROVE FALSE
    OBVIOUS
  <2>2. Pass(Gives(Rules, k), <<>>) = <<>>
    BY <1>0, GivesType, PassType
  <2>3. Len(<<>>) = 0
    OBVIOUS
  <2> QED  BY <2>1, <2>2, <2>3
<1>2. CASE MarkBegins(r)
  <2>1. PICK j \in 1..20, s \in Text : r = Cat(Mark(j), s)
    BY <1>2, Zenon DEF MarkBegins
  <2>2. Begins(k, j, q(k))
    BY <1>0, <2>1, PassBegins
  <2>3. j = 16 /\ k >= 16
    BY <2>2, BeginsHead
  <2>4. After(Rules, 20, 16) = <<Close>>
    <3>1. After(Rules, 20, 16) = Rules[16][2]
      BY BracesOut
    <3> QED  BY <3>1, RuleSigns, Zenon
  <2> DEFINE v == Pass(Gives(Rules, 20), s)
  <2>5. v \in Text
    BY <1>0, GivesType, PassType
  <2>6. q(20) = Cat(After(Rules, 20, j), v)
    BY <1>0, <2>1, PassGives
  <2> HIDE DEF v
  <2>7. q(20) = Cons(Close, v)
    BY <2>3, <2>4, <2>6, Zenon DEF Cons
  <2> QED  BY <2>3, <2>5, <2>7
<1>3. CASE SymbolBegins(r)
  <2>1. PICK x \in Symbols, s \in Text : r = Cons(x, s) /\ ~MarkedAt(Cons(x, s), 1)
    BY <1>3, Zenon DEF SymbolBegins
  <2> DEFINE v == Pass(Gives(Rules, 20), s)
             u == Pass(Gives(Rules, k), s)
  <2>2. v \in Text /\ u \in Text
    BY <1>0, GivesType, PassType
  <2>3. q(20) = Cons(x, v)
    BY <1>0, <2>1, GivesType, PassCopy
  <2>4. q(k) = Cons(x, u)
    BY <1>0, <2>1, GivesType, PassCopy
  <2> HIDE DEF v, u
  <2>5. Cons(x, u)[1] = x
    BY <2>2, HeadFacts
  <2>6. x = Close
    BY <2>4, <2>5
  <2> QED  BY <2>1, <2>2, <2>3, <2>6
<1> QED  BY <1>1, <1>2, <1>3, TextBegins

\* A token that stands behind a brace after k rules stands there in the end, too; and it
\* stood there before them, or its closing brace came out of {rbrace}.
LEMMA MarkStays ==
  ASSUME NEW k \in 0..20, NEW j \in 1..20, NEW t \in Text,
         At(Cons(Open, Pass(Gives(Rules, k), t)), 1, Mark(j))
  PROVE  /\ At(Cons(Open, Pass(Gives(Rules, 20), t)), 1, Mark(j))
         /\ k >= 16 \/ MarkedAt(Cons(Open, t), 1)
<1> DEFINE q == Pass(Gives(Rules, k), t)
           u == Cons(Open, q)
<1>0. IsTokens(Rules) /\ k \in 0..20 /\ 20 \in 0..20 /\ Open \in Symbols
  BY RulesAreTokens, BraceFacts
<1>1. q \in Text
  BY <1>0, GivesType, PassType
<1> HIDE DEF q
<1>2. /\ u \in Text /\ Len(u) = Len(q) + 1 /\ Len(q) \in Nat /\ 1 \in 1..Len(u)
      /\ \A i \in 1..Len(q) : u[i + 1] = q[i]
  BY <1>0, <1>1, HeadFacts, TextFacts
<1>3. At(u, 1, Mark(j))
  BY DEF q
<1> HIDE DEF u
<1>4. 1 + 2 <= Len(u) /\ u[1 + 1] = NameOf(j) /\ u[1 + 2] = Close
  BY <1>2, <1>3, MarkAt
<1>5. Len(q) >= 2 /\ q[1] = NameOf(j) /\ q[2] = Close
  <2>1. 1 \in 1..Len(q) /\ 2 \in 1..Len(q)
    BY <1>2, <1>4
  <2>2. u[1 + 1] = q[1] /\ u[2 + 1] = q[2]
    BY <1>2, <2>1
  <2> QED  BY <1>2, <1>4, <2>1, <2>2
<1>6. NameOf(j) \in TokenNames
  BY NamesIn
<1>7. t # <<>>
  <2>1. SUFFICES ASSUME t = <<>> PROVE FALSE
    OBVIOUS
  <2>2. Pass(Gives(Rules, k), <<>>) = <<>>
    BY <1>0, GivesType, PassType
  <2>3. Len(<<>>) = 0
    OBVIOUS
  <2> QED  BY <1>5, <2>1, <2>2, <2>3 DEF q
<1>8. ~MarkBegins(t)
  <2> SUFFICES ASSUME MarkBegins(t) PROVE FALSE
    OBVIOUS
  <2>1. PICK i \in 1..20, s \in Text : t = Cat(Mark(i), s)
    BY Zenon DEF MarkBegins
  <2>2. Begins(k, i, q)
    BY <1>0, <2>1, PassBegins DEF q
  <2> QED  BY <1>5, <1>6, <2>2, BeginsHead
<1>9. PICK x \in Symbols, r \in Text : t = Cons(x, r) /\ ~MarkedAt(Cons(x, r), 1)
  BY <1>7, <1>8, TextBegins, Zenon DEF SymbolBegins
<1> DEFINE p == Pass(Gives(Rules, k), r)
<1>10. q = Cons(x, p)
  BY <1>0, <1>9, GivesType, PassCopy DEF q
<1>11. p \in Text
  BY <1>0, GivesType, PassType
<1> HIDE DEF p
<1>12. /\ q[1] = x /\ Len(q) = Len(p) + 1 /\ Len(p) \in Nat
       /\ \A i \in 1..Len(p) : q[i + 1] = p[i]
  BY <1>10, <1>11, HeadFacts, TextFacts
<1>13. x = NameOf(j) /\ Len(p) \in Nat \ {0} /\ p[1] = Close
  <2>1. Len(p) \in Nat \ {0} /\ 1 \in 1..Len(p)
    BY <1>5, <1>12
  <2>2. q[1 + 1] = p[1]
    BY <1>12, <2>1
  <2> QED  BY <1>5, <1>12, <2>1, <2>2
<1>14. /\ \E s \in Text : Pass(Gives(Rules, 20), r) = Cons(Close, s)
       /\ k >= 16 \/ \E s \in Text : r = Cons(Close, s)
  BY <1>13, PassCloses DEF p
<1>15. At(Cons(Open, Pass(Gives(Rules, 20), t)), 1, Mark(j))
  <2>1. Pass(Gives(Rules, 20), Cons(x, r)) = Cons(x, Pass(Gives(Rules, 20), r))
    BY <1>0, <1>9, GivesType, PassCopy
  <2>2. PICK s \in Text : Pass(Gives(Rules, 20), r) = Cons(Close, s)
    BY <1>14
  <2>3. At(Cons(Open, Cons(NameOf(j), Cons(Close, s))), 1, Mark(j))
    BY MarkedCons
  <2> QED  BY <1>9, <1>13, <2>1, <2>2, <2>3, Zenon
<1>16. ASSUME NEW s \in Text, r = Cons(Close, s) PROVE MarkedAt(Cons(Open, t), 1)
  <2>1. At(Cons(Open, Cons(NameOf(j), Cons(Close, s))), 1, Mark(j))
    BY MarkedCons
  <2> QED  BY <1>9, <1>13, <1>16, <2>1, Zenon DEF MarkedAt
<1> QED  BY <1>14, <1>15, <1>16

\* A brace of {lbrace} or {rbrace} completes a token of the k-th rule.
Joined(k, t) == k >= 16 /\ Occurs(Mark(k), Pass(Gives(Rules, 20), t))

LEMMA JoinedMark ==
  ASSUME NEW k \in 1..20, NEW j \in 1..20, NEW r \in Text, Joined(k, r)
  PROVE  Joined(k, Cat(Mark(j), r))
<1> DEFINE q == Pass(Gives(Rules, 20), r)
           a == After(Rules, 20, j)
<1>0. IsTokens(Rules) /\ 20 \in 0..20 /\ Mark(k) \in Text
  BY RulesAreTokens, MarkFacts
<1>1. q \in Text /\ a \in Text
  BY <1>0, GivesType, PassType, AfterType
<1>2. Pass(Gives(Rules, 20), Cat(Mark(j), r)) = Cat(a, q)
  BY <1>0, PassGives
<1>3. k >= 16 /\ Occurs(Mark(k), q)
  BY DEF Joined
<1> HIDE DEF q, a
<1>4. Occurs(Mark(k), Cat(a, q))
  BY <1>0, <1>1, <1>3, OccursCat
<1> QED  BY <1>2, <1>3, <1>4 DEF Joined

LEMMA JoinedCons ==
  ASSUME NEW k \in 1..20, NEW x \in Symbols, NEW r \in Text, ~MarkedAt(Cons(x, r), 1),
         Joined(k, r) \/ (k >= 16 /\ At(Cons(x, Pass(Gives(Rules, 20), r)), 1, Mark(k)))
  PROVE  Joined(k, Cons(x, r))
<1> DEFINE q == Pass(Gives(Rules, 20), r)
<1>0. IsTokens(Rules) /\ 20 \in 0..20 /\ Mark(k) \in Text
  BY RulesAreTokens, MarkFacts
<1>1. Gives(Rules, 20) \in [TokenNames -> Text]
  BY <1>0, GivesType
<1>2. q \in Text
  BY <1>1, PassType
<1>3. Pass(Gives(Rules, 20), Cons(x, r)) = Cons(x, q)
  BY <1>1, PassCopy
<1>4. k >= 16 /\ (Occurs(Mark(k), q) \/ At(Cons(x, q), 1, Mark(k)))
  BY DEF Joined
<1> HIDE DEF q
<1>5. Occurs(Mark(k), Cons(x, q))
  BY <1>0, <1>2, <1>4, OccursTail
<1> QED  BY <1>3, <1>4, <1>5 DEF Joined

\* The next rule makes the next meaning of every token of a pattern, and nothing else.
Advances(k, t) ==
  strReplace(Mark(k + 1), Rules[k + 1][2], Pass(Gives(Rules, k), t))
    = Pass(Gives(Rules, k + 1), t)

LEMMA AdvancesMark ==
  ASSUME NEW k \in 0..19, NEW j \in 1..20, NEW r \in Text,
         ~Joined(k + 1, Cat(Mark(j), r)), Advances(k, r)
  PROVE  Advances(k, Cat(Mark(j), r))
<1> DEFINE l == k + 1
           q == Pass(Gives(Rules, k), r)
           v == Pass(Gives(Rules, l), r)
           a == After(Rules, k, j)
           b == After(Rules, l, j)
           rep(t) == strReplace(Mark(l), Rules[l][2], t)
<1>0. IsTokens(Rules) /\ k \in 0..20 /\ l \in 0..20 /\ l \in 1..20 /\ 20 \in 0..20
  BY RulesAreTokens
<1>1. q \in Text /\ v \in Text /\ a \in Text /\ b \in Text
  BY <1>0, GivesType, PassType, AfterType
<1>2. Pass(Gives(Rules, k), Cat(Mark(j), r)) = Cat(a, q)
  BY <1>0, PassGives
<1>3. Pass(Gives(Rules, l), Cat(Mark(j), r)) = Cat(b, v)
  <2> HIDE DEF l
  <2> QED  BY <1>0, PassGives
<1>4. rep(q) = v
  BY Zenon DEF Advances
<1>5. rep(Cat(a, q)) = Cat(b, v)
  <2>1. CASE ~BraceOut(Rules, k, j)
    <3>1. Turns(Rules, l, a, b)
      BY <1>0, <2>1, AfterTurns
    <3> HIDE DEF a, b, v, q, l
    <3>2. rep(Cat(a, q)) = Cat(b, rep(q))
      BY <1>1, <3>1, Zenon DEF Turns
    <3> QED  BY <1>4, <3>2, Zenon
  <2>2. CASE BraceOut(Rules, k, j)
    <3>1. j = 15 /\ k \in 15..20 /\ l \in 15..20 /\ Rules[15][2] = <<Open>>
      BY <2>2 DEF BraceOut
    <3>2. a = <<Open>> /\ b = <<Open>>
      BY <3>1, BracesOut, Zenon
    <3>3. ~At(Cons(Open, q), 1, Mark(l))
      <4> SUFFICES ASSUME At(Cons(Open, q), 1, Mark(l)) PROVE FALSE
        OBVIOUS
      <4>1. At(Cons(Open, Pass(Gives(Rules, 20), r)), 1, Mark(l))
        <5> HIDE DEF l
        <5> QED  BY <1>0, MarkStays
      <4>2. After(Rules, 20, 15) = <<Open>>
        <5>1. After(Rules, 20, 15) = Rules[15][2]
          BY BracesOut
        <5> QED  BY <3>1, <5>1, Zenon
      <4> DEFINE p == Pass(Gives(Rules, 20), r)
      <4>3. Pass(Gives(Rules, 20), Cat(Mark(j), r)) = Cons(Open, p)
        BY <1>0, <3>1, <4>2, PassGives DEF Cons
      <4>4. p \in Text
        BY <1>0, GivesType, PassType
      <4> HIDE DEF p, l
      <4>5. At(Cons(Open, p), 1, Mark(l)) /\ Mark(l) \in Text /\ Open \in Symbols
        BY <1>0, <4>1, MarkFacts, BraceFacts DEF p
      <4>6. Occurs(Mark(l), Cons(Open, p))
        BY <4>4, <4>5, OccursTail
      <4>7. l >= 16
        BY <3>1 DEF l
      <4>8. Joined(l, Cat(Mark(j), r))
        BY <4>3, <4>6, <4>7 DEF Joined
      <4> QED  BY <4>8 DEF l
    <3> HIDE DEF l, q
    <3>4. Mark(l) \in Text /\ Mark(l) # <<>> /\ Rules[l][2] \in Text /\ Open \in Symbols
      BY <1>0, MarkFacts, PutType, BraceFacts
    <3>5. rep(Cons(Open, q)) = Cons(Open, rep(q))
      BY <1>1, <3>3, <3>4, ReplaceCopy
    <3> QED  BY <1>4, <3>2, <3>5, Zenon DEF Cons
  <2> QED  BY <2>1, <2>2
<1> QED  BY <1>2, <1>3, <1>5, Zenon DEF Advances

LEMMA AdvancesCons ==
  ASSUME NEW k \in 0..19, NEW x \in Symbols, NEW r \in Text, ~MarkedAt(Cons(x, r), 1),
         ~Joined(k + 1, Cons(x, r)), Advances(k, r)
  PROVE  Advances(k, Cons(x, r))
<1> DEFINE l == k + 1
           q == Pass(Gives(Rules, k), r)
           v == Pass(Gives(Rules, l), r)
           rep(t) == strReplace(Mark(l), Rules[l][2], t)
<1>0. IsTokens(Rules) /\ k \in 0..20 /\ l \in 0..20 /\ l \in 1..20
  BY RulesAreTokens
<1>1. q \in Text
  BY <1>0, GivesType, PassType
<1>2. Pass(Gives(Rules, k), Cons(x, r)) = Cons(x, q)
  BY <1>0, GivesType, PassCopy
<1>3. Pass(Gives(Rules, l), Cons(x, r)) = Cons(x, v)
  <2> HIDE DEF l
  <2> QED  BY <1>0, GivesType, PassCopy
<1>4. rep(q) = v
  BY Zenon DEF Advances
<1>5. ~At(Cons(x, q), 1, Mark(l))
  <2> SUFFICES ASSUME At(Cons(x, q), 1, Mark(l)) PROVE FALSE
    OBVIOUS
  <2>1. Cons(x, q) \in Text /\ 1 \in 1..Len(Cons(x, q)) /\ Cons(x, q)[1] = x
    BY <1>1, HeadFacts
  <2>2. x = Open
    <3> DEFINE u == Cons(x, q)
    <3>1. u \in Text /\ 1 \in 1..Len(u) /\ u[1] = x /\ At(u, 1, Mark(l))
      BY <2>1
    <3> HIDE DEF u, l
    <3> QED  BY <1>0, <3>1, MarkAt
  <2>3. /\ At(Cons(Open, Pass(Gives(Rules, 20), r)), 1, Mark(l))
        /\ k >= 16 \/ MarkedAt(Cons(Open, r), 1)
    <3> HIDE DEF l
    <3> QED  BY <1>0, <2>2, MarkStays
  <2>4. l >= 16
    BY <2>2, <2>3
  <2> HIDE DEF l
  <2>5. Joined(l, Cons(x, r))
    BY <1>0, <2>2, <2>3, <2>4, JoinedCons
  <2> QED  BY <2>5 DEF l
<1> HIDE DEF l, q
<1>6. Mark(l) \in Text /\ Mark(l) # <<>> /\ Rules[l][2] \in Text
  BY <1>0, MarkFacts, PutType
<1>7. rep(Cons(x, q)) = Cons(x, rep(q))
  BY <1>1, <1>5, <1>6, ReplaceCopy
<1> QED  BY <1>2, <1>3, <1>4, <1>7, Zenon DEF Advances, l, q

LEMMA PassAdvances ==
  ASSUME NEW k \in 0..19, NEW p \in Text, ~Joined(k + 1, p)
  PROVE  Advances(k, p)
<1> DEFINE S == {t \in Text : ~Joined(k + 1, t) => Advances(k, t)}
<1>0. k + 1 \in 1..20
  OBVIOUS
<1>1. <<>> \in S
  <2> DEFINE l == k + 1
  <2>1. <<>> \in Text /\ IsTokens(Rules) /\ k \in 0..20 /\ l \in 0..20 /\ l \in 1..20
    BY EmptySeq, RulesAreTokens DEF Text
  <2> HIDE DEF l
  <2>2. Mark(l) \in Text /\ Mark(l) # <<>> /\ Rules[l][2] \in Text
    BY <2>1, MarkFacts, PutType
  <2>3. Pass(Gives(Rules, k), <<>>) = <<>> /\ Pass(Gives(Rules, l), <<>>) = <<>>
    BY <2>1, GivesType, PassType
  <2>4. strReplace(Mark(l), Rules[l][2], <<>>) = <<>>
    BY <2>2, ReplaceEmpty
  <2>5. Advances(k, <<>>)
    BY <2>3, <2>4, Zenon DEF Advances, l
  <2> QED  BY <2>1, <2>5
<1>2. ASSUME NEW j \in 1..20, NEW r \in Text, r \in S PROVE Cat(Mark(j), r) \in S
  <2>1. Cat(Mark(j), r) \in Text
    <3>1. Mark(j) \in Text
      BY MarkFacts
    <3> QED  BY <3>1, CatFacts
  <2>2. ASSUME ~Joined(k + 1, Cat(Mark(j), r)) PROVE Advances(k, Cat(Mark(j), r))
    <3>1. ~Joined(k + 1, r)
      BY <1>0, <2>2, JoinedMark
    <3> QED  BY <1>2, <2>2, <3>1, AdvancesMark
  <2> QED  BY <2>1, <2>2
<1>3. ASSUME NEW x \in Symbols, NEW r \in Text, ~MarkedAt(Cons(x, r), 1) /\ r \in S
      PROVE  Cons(x, r) \in S
  <2>1. Cons(x, r) \in Text
    BY HeadFacts
  <2>2. ASSUME ~Joined(k + 1, Cons(x, r)) PROVE Advances(k, Cons(x, r))
    <3>1. ~Joined(k + 1, r)
      <4> DEFINE l == k + 1
      <4>1. ~MarkedAt(Cons(x, r), 1) /\ l \in 1..20
        BY <1>0, <1>3
      <4> HIDE DEF l, S
      <4>2. Joined(l, r) => Joined(l, Cons(x, r))
        BY <4>1, JoinedCons
      <4> QED  BY <2>2, <4>2 DEF l
    <3> QED  BY <1>3, <2>2, <3>1, AdvancesCons
  <2> QED  BY <2>1, <2>2
<1>4. Text \subseteq S
  <2> HIDE DEF S
  <2> QED  BY <1>1, <1>2, <1>3, PassInduction
<1> QED  BY <1>4

\* The tokens do not disturb each other, unless braces complete one.
LEMMA ExpandIsOnePass ==
  ASSUME NEW p \in Text,
         \A k \in 16..20 : ~Occurs(Token(Rules[k][1]), OnePass(Rules, p))
  PROVE  expandRegex(p) = OnePass(Rules, p)
<1>0. IsTokens(Rules) /\ IsRules(Rules) /\ Len(Rules) = 20
  BY RulesAreTokens, TokensAreRules, RulesLength
<1>1. OnePass(Rules, p) = Pass(Gives(Rules, 20), p)
  BY <1>0, OnePassIs
<1>2. \A k \in 1..20 : ~Joined(k, p)
  BY <1>1 DEF Joined, Mark, NameOf
<1>3. \A k \in Nat : k + 1 <= 20 => k + 1 \in 1..20 /\ k + 1 - 1 = k
  OBVIOUS
<1>4. PICK f \in [0..Len(Rules) -> Text] :
        /\ f[0] = p /\ Expand(Rules, p) = f[Len(Rules)]
        /\ \A k \in 1..Len(Rules) : f[k] = Applied(Rules, k, f[k - 1])
  BY <1>0, ExpandStages, Zenon
<1> DEFINE S == {k \in Nat : k <= 20 => f[k] = Pass(Gives(Rules, k), p)}
<1>5. 0 \in S
  BY <1>0, <1>4, PassNothing
<1>6. ASSUME NEW k \in Nat, k \in S PROVE k + 1 \in S
  <2> SUFFICES ASSUME k + 1 <= 20 PROVE f[k + 1] = Pass(Gives(Rules, k + 1), p)
    OBVIOUS
  <2>1. f[k] = Pass(Gives(Rules, k), p) /\ k \in 0..19
    BY <1>6
  <2> HIDE DEF S
  <2>2. k + 1 \in 1..20 /\ k + 1 - 1 = k
    BY <1>3, Zenon
  <2>3. f[k + 1] = Applied(Rules, k + 1, f[k])
    BY <1>0, <1>4, <2>2
  <2>4. Advances(k, p)
    BY <1>2, <2>1, <2>2, PassAdvances
  <2> QED  BY <2>1, <2>3, <2>4, Zenon DEF Advances, Applied, Mark, NameOf
<1>7. 20 \in S
  <2> HIDE DEF S
  <2> QED  BY <1>5, <1>6, Induction
<1>8. Expand(Rules, p) = Pass(Gives(Rules, 20), p)
  BY <1>0, <1>4, <1>7
<1> QED  BY <1>1, <1>8, Zenon DEF expandRegex

-----------------------------------------------------------------------------
(* Braces that stand for themselves *)

\* What a brace that stands for itself is escaped to.
Plain(x) == IF x = Open THEN PlainOpen ELSE IF x = Close THEN PlainClose ELSE x

LEMMA PlainIs ==
  /\ Plain(Open) = PlainOpen /\ Plain(Close) = PlainClose
  /\ Plain(PlainOpen) = PlainOpen /\ Plain(PlainClose) = PlainClose
  /\ \A x \in Symbols : Plain(x) \in Symbols /\ Plain(x) # Open /\ Plain(x) # Close
BY BraceFacts, PlainFacts DEF Plain

\* Two texts that differ in escapes of braces only.
Shaped(a, b) == Len(a) = Len(b) /\ \A i \in 1..Len(a) : Plain(a[i]) = Plain(b[i])

LEMMA ShapedCat ==
  ASSUME NEW a \in Text, NEW b \in Text, Shaped(a, b),
         NEW c \in Text, NEW d \in Text, Shaped(c, d)
  PROVE  Shaped(Cat(a, c), Cat(b, d))
<1> DEFINE u == Cat(a, c)
           v == Cat(b, d)
<1>1. /\ Len(u) = Len(a) + Len(c) /\ \A i \in 1..Len(a) : u[i] = a[i]
      /\ \A i \in (Len(a) + 1)..(Len(a) + Len(c)) : u[i] = c[i - Len(a)]
  BY CatFacts
<1>2. /\ Len(v) = Len(b) + Len(d) /\ \A i \in 1..Len(b) : v[i] = b[i]
      /\ \A i \in (Len(b) + 1)..(Len(b) + Len(d)) : v[i] = d[i - Len(b)]
  BY CatFacts
<1>3. Len(a) \in Nat /\ Len(c) \in Nat
  BY TextFacts
<1>4. /\ Len(b) = Len(a) /\ \A i \in 1..Len(a) : Plain(a[i]) = Plain(b[i])
      /\ Len(d) = Len(c) /\ \A i \in 1..Len(c) : Plain(c[i]) = Plain(d[i])
  BY DEF Shaped
<1> HIDE DEF u, v
<1>5. ASSUME NEW i \in 1..Len(u) PROVE Plain(u[i]) = Plain(v[i])
  <2>1. CASE i <= Len(a)
    <3>1. i \in 1..Len(a)
      BY <1>1, <1>3, <2>1
    <3>2. u[i] = a[i] /\ v[i] = b[i] /\ Plain(a[i]) = Plain(b[i])
      BY <1>1, <1>2, <1>4, <3>1
    <3> QED  BY <3>2
  <2>2. CASE i > Len(a)
    <3>1. i \in (Len(a) + 1)..(Len(a) + Len(c)) /\ i - Len(a) \in 1..Len(c)
      BY <1>1, <1>3, <2>2
    <3>2. u[i] = c[i - Len(a)] /\ v[i] = d[i - Len(a)]
      BY <1>1, <1>2, <1>4, <3>1
    <3>3. Plain(c[i - Len(a)]) = Plain(d[i - Len(a)])
      BY <1>4, <3>1
    <3> QED  BY <3>2, <3>3
  <2> QED  BY <1>3, <2>1, <2>2
<1>6. Len(u) = Len(v)
  BY <1>1, <1>2, <1>4
<1> QED  BY <1>5, <1>6 DEF Shaped, u, v

LEMMA ShapedSelf == ASSUME NEW t \in Text PROVE Shaped(t, t)
BY DEF Shaped

LEMMA ShapedSymbol ==
  ASSUME NEW x \in Symbols, NEW y \in Symbols, Plain(x) = Plain(y)
  PROVE  Shaped(<<x>>, <<y>>)
<1> DEFINE a == <<x>>
           b == <<y>>
<1>1. Len(a) = 1 /\ a[1] = x /\ Len(b) = 1 /\ b[1] = y
  BY SymbolFacts
<1> HIDE DEF a, b
<1>2. Shaped(a, b)
  BY <1>1 DEF Shaped
<1> QED  BY <1>2 DEF a, b

LEMMA ShapedAfter ==
  ASSUME NEW j \in 1..20
  PROVE  Shaped(After(Rules, 20, j), After(Escaped, 20, j))
<1>0. IsTokens(Rules) /\ IsTokens(Escaped)
  BY RulesAreTokens, EscapedAreTokens
<1>1. After(Rules, 20, j) \in Text
  BY <1>0, AfterType
<1>2. CASE j \notin {15, 16}
  <2>1. Escaped[j] = Rules[j] /\ Escaped[3] = Rules[3]
    BY <1>2, EscapedFacts
  <2>2. After(Escaped, 20, j) = After(Rules, 20, j)
    <3>1. CASE j \in 3..20
      BY <2>1, <3>1 DEF After, Simple
    <3>2. CASE j \in 1..2
      <4> DEFINE i == j + 3
      <4>1. i \in (1..20) \ {15, 16} /\ i <= 20
        BY <3>2
      <4>2. Escaped[i] = Rules[i]
        BY <4>1, EscapedFacts
      <4>3. Simple(Escaped, 20, i) = Simple(Rules, 20, i)
        BY <4>1, <4>2 DEF Simple
      <4>4. Simple(Escaped, 20, 3) = Simple(Rules, 20, 3)
        BY <2>1 DEF Simple
      <4> HIDE DEF i
      <4>5. j \in 1..2 /\ j <= 20
        BY <3>2
      <4> QED  BY <4>3, <4>4, <4>5, Zenon DEF After, i
    <3> QED  BY <3>1, <3>2
  <2> QED  BY <1>1, <2>2, ShapedSelf
<1>3. CASE j = 15
  <2>1. After(Rules, 20, 15) = <<Open>>
    <3>1. After(Rules, 20, 15) = Rules[15][2]
      BY BracesOut
    <3> QED  BY <3>1, RuleSigns, Zenon
  <2>2. After(Escaped, 20, 15) = <<PlainOpen>>
    <3>1. After(Escaped, 20, 15) = Escaped[15][2]
      BY BracesOut
    <3> QED  BY <3>1, EscapedFacts, Zenon
  <2>3. Shaped(<<Open>>, <<PlainOpen>>)
    BY BraceFacts, PlainFacts, PlainIs, ShapedSymbol
  <2> QED  BY <1>3, <2>1, <2>2, <2>3, Zenon
<1>4. CASE j = 16
  <2>1. After(Rules, 20, 16) = <<Close>>
    <3>1. After(Rules, 20, 16) = Rules[16][2]
      BY BracesOut
    <3> QED  BY <3>1, RuleSigns, Zenon
  <2>2. After(Escaped, 20, 16) = <<PlainClose>>
    <3>1. After(Escaped, 20, 16) = Escaped[16][2]
      BY BracesOut
    <3> QED  BY <3>1, EscapedFacts, Zenon
  <2>3. Shaped(<<Close>>, <<PlainClose>>)
    BY BraceFacts, PlainFacts, PlainIs, ShapedSymbol
  <2> QED  BY <1>4, <2>1, <2>2, <2>3, Zenon
<1> QED  BY <1>2, <1>3, <1>4

\* With the braces escaped, a pattern has the same shape.
LEMMA ShapedPasses ==
  ASSUME NEW p \in Text
  PROVE  Shaped(Pass(Gives(Rules, 20), p), Pass(Gives(Escaped, 20), p))
<1> DEFINE f == Gives(Rules, 20)
           g == Gives(Escaped, 20)
           S == {t \in Text : Shaped(Pass(f, t), Pass(g, t))}
<1>0. IsTokens(Rules) /\ IsTokens(Escaped) /\ 20 \in 0..20
  BY RulesAreTokens, EscapedAreTokens
<1>1. f \in [TokenNames -> Text] /\ g \in [TokenNames -> Text]
  BY <1>0, GivesType
<1>2. <<>> \in S
  <2> HIDE DEF f, g
  <2>1. <<>> \in Text
    BY EmptySeq DEF Text
  <2>2. Pass(f, <<>>) = <<>> /\ Pass(g, <<>>) = <<>>
    BY <1>1, <2>1, PassType
  <2>3. Shaped(<<>>, <<>>)
    BY <2>1, ShapedSelf
  <2> QED  BY <2>1, <2>2, <2>3, Zenon
<1>3. ASSUME NEW j \in 1..20, NEW r \in Text, r \in S PROVE Cat(Mark(j), r) \in S
  <2> DEFINE a == After(Rules, 20, j)
             b == After(Escaped, 20, j)
  <2>1. Mark(j) \in Text
    BY MarkFacts
  <2>2. Cat(Mark(j), r) \in Text
    BY <2>1, CatFacts
  <2>3. /\ Pass(f, Cat(Mark(j), r)) = Cat(a, Pass(f, r))
        /\ Pass(g, Cat(Mark(j), r)) = Cat(b, Pass(g, r))
    BY <1>0, PassGives
  <2>4. a \in Text /\ b \in Text /\ Shaped(a, b)
    BY <1>0, AfterType, ShapedAfter
  <2> HIDE DEF f, g, a, b
  <2>5. Pass(f, r) \in Text /\ Pass(g, r) \in Text /\ Shaped(Pass(f, r), Pass(g, r))
    BY <1>1, <1>3, PassType
  <2>6. Shaped(Cat(a, Pass(f, r)), Cat(b, Pass(g, r)))
    BY <2>4, <2>5, ShapedCat
  <2> QED  BY <2>2, <2>3, <2>6, Zenon
<1>4. ASSUME NEW x \in Symbols, NEW r \in Text, ~MarkedAt(Cons(x, r), 1) /\ r \in S
      PROVE  Cons(x, r) \in S
  <2> HIDE DEF f, g
  <2>1. Cons(x, r) \in Text /\ <<x>> \in Text
    BY HeadFacts
  <2>2. Pass(f, Cons(x, r)) = Cons(x, Pass(f, r)) /\ Pass(g, Cons(x, r)) = Cons(x, Pass(g, r))
    BY <1>1, <1>4, PassCopy
  <2>3. Pass(f, r) \in Text /\ Pass(g, r) \in Text /\ Shaped(Pass(f, r), Pass(g, r))
    BY <1>1, <1>4, PassType
  <2>4. Shaped(<<x>>, <<x>>)
    BY <2>1, ShapedSelf
  <2>5. Shaped(Cons(x, Pass(f, r)), Cons(x, Pass(g, r)))
    BY <2>1, <2>3, <2>4, ShapedCat DEF Cons
  <2> QED  BY <2>1, <2>2, <2>5, Zenon
<1>5. Text \subseteq S
  <2> HIDE DEF S
  <2> QED  BY <1>2, <1>3, <1>4, PassInduction
<1> QED  BY <1>5

-----------------------------------------------------------------------------
(* What a regex engine makes of braces *)

\* The symbols of the quantifier by names.
Digit  == "2"
Repeat == "{2}"

LEMMA QuantifierFacts ==
  /\ Quantifier \in Text /\ Quantifier # <<>> /\ Len(Quantifier) = 3
  /\ Repeat \in Symbols /\ Repeat # Open /\ Repeat # Close
<1>1. Digit \in Symbols /\ Repeat \in Symbols /\ Repeat # Open /\ Repeat # Close
  BY SymbolsAssumption DEF RegexSymbols, Digit, Repeat, Open, Close
<1>2. /\ <<Open, Digit, Close>> \in Text /\ <<Open, Digit, Close>> # <<>>
      /\ Len(<<Open, Digit, Close>>) = 3
  BY <1>1, BraceFacts, Triple
<1>3. Quantifier = <<Open, Digit, Close>>
  BY DEF Quantifier, Open, Digit, Close
<1> QED  BY <1>1, <1>2, <1>3

\* The three replacements of Regex.
Quantified(t) == strReplace(Quantifier, <<Repeat>>, t)
Closed(t)     == strReplace(<<Close>>, <<PlainClose>>, t)
Opened(t)     == strReplace(<<Open>>, <<PlainOpen>>, t)

LEMMA RegexIs == ASSUME NEW t PROVE Regex(t) = Opened(Closed(Quantified(t)))
BY Zenon DEF Regex, Quantified, Closed, Opened, Open, Close, PlainOpen, PlainClose, Repeat

LEMMA RegexTypes ==
  ASSUME NEW t \in Text
  PROVE  Quantified(t) \in Text /\ Closed(t) \in Text /\ Opened(t) \in Text
<1>1. /\ <<Repeat>> \in Text /\ <<Close>> \in Text /\ <<PlainClose>> \in Text
      /\ <<Open>> \in Text /\ <<PlainOpen>> \in Text
  BY QuantifierFacts, BraceFacts, PlainFacts, SymbolFacts
<1>2. <<Close>> # <<>> /\ <<Open>> # <<>>
  OBVIOUS
<1> QED  BY <1>1, <1>2, QuantifierFacts, ReplaceType DEF Quantified, Closed, Opened

\* A symbol in the text without quantifiers.
LEMMA EscapedSymbol ==
  ASSUME NEW x \in Symbols, NEW t \in Text
  PROVE  Opened(Closed(Cons(x, t))) = Cons(Plain(x), Opened(Closed(t)))
<1> DEFINE c == Closed(t)
<1>1. c \in Text
  BY RegexTypes
<1>2. <<PlainClose>> \in Text /\ <<PlainOpen>> \in Text
      /\ Open \in Symbols /\ Close \in Symbols /\ PlainClose \in Symbols /\ PlainOpen \in Symbols
      /\ Open # Close /\ PlainClose # Open
  BY BraceFacts, PlainFacts, SymbolFacts
<1>3. CASE x = Open
  <2>1. Closed(Cons(x, t)) = Cons(x, c)
    BY <1>2, <1>3, ReplaceSymbol DEF Closed
  <2> HIDE DEF c
  <2>2. Opened(Cons(x, c)) = Cat(<<PlainOpen>>, Opened(c))
    BY <1>1, <1>2, <1>3, ReplaceSymbol DEF Opened
  <2> QED  BY <1>3, <2>1, <2>2, PlainIs, Zenon DEF Cons, c
<1>4. CASE x = Close
  <2>1. Closed(Cons(x, t)) = Cat(<<PlainClose>>, c)
    BY <1>2, <1>4, ReplaceSymbol DEF Closed
  <2> HIDE DEF c
  <2>2. Opened(Cons(PlainClose, c)) = Cons(PlainClose, Opened(c))
    BY <1>1, <1>2, ReplaceSymbol DEF Opened
  <2> QED  BY <1>4, <2>1, <2>2, PlainIs, Zenon DEF Cons, c
<1>5. CASE x # Open /\ x # Close
  <2>1. Closed(Cons(x, t)) = Cons(x, c)
    BY <1>2, <1>5, ReplaceSymbol DEF Closed
  <2> HIDE DEF c
  <2>2. Opened(Cons(x, c)) = Cons(x, Opened(c))
    BY <1>1, <1>2, <1>5, ReplaceSymbol DEF Opened
  <2>3. Plain(x) = x
    BY <1>5 DEF Plain
  <2> QED  BY <2>1, <2>2, <2>3, Zenon DEF c
<1> QED  BY <1>3, <1>4, <1>5

LEMMA RegexSymbol ==
  ASSUME NEW x \in Symbols, NEW t \in Text, ~At(Cons(x, t), 1, Quantifier)
  PROVE  Regex(Cons(x, t)) = Cons(Plain(x), Regex(t))
<1> DEFINE q == Quantified(t)
<1>1. <<Repeat>> \in Text /\ q \in Text
  BY QuantifierFacts, SymbolFacts, RegexTypes
<1>2. Quantified(Cons(x, t)) = Cons(x, q)
  BY <1>1, QuantifierFacts, ReplaceCopy DEF Quantified
<1> HIDE DEF q
<1>3. Opened(Closed(Cons(x, q))) = Cons(Plain(x), Opened(Closed(q)))
  BY <1>1, EscapedSymbol
<1> QED  BY <1>2, <1>3, RegexIs, Zenon DEF q

LEMMA RegexQuantifier ==
  ASSUME NEW t \in Text
  PROVE  Regex(Cat(Quantifier, t)) = Cons(Repeat, Regex(t))
<1> DEFINE q == Quantified(t)
<1>1. <<Repeat>> \in Text /\ q \in Text /\ Repeat \in Symbols
  BY QuantifierFacts, SymbolFacts, RegexTypes
<1>2. Quantified(Cat(Quantifier, t)) = Cat(<<Repeat>>, q)
  BY <1>1, QuantifierFacts, ReplaceMatch DEF Quantified
<1> HIDE DEF q
<1>3. Opened(Closed(Cons(Repeat, q))) = Cons(Plain(Repeat), Opened(Closed(q)))
  BY <1>1, EscapedSymbol
<1>4. Plain(Repeat) = Repeat
  BY QuantifierFacts DEF Plain
<1> QED  BY <1>2, <1>3, <1>4, RegexIs, Zenon DEF q, Cons

\* Digit texts that a regex engine does not tell apart: braces escaped or not, with the
\* quantifiers in the same places.
Like(a, b) ==
  /\ Len(a) = Len(b)
  /\ \A i \in 1..Len(a) : /\ Plain(a[i]) = Plain(b[i])
                          /\ At(a, i, Quantifier) <=> At(b, i, Quantifier)

LEMMA LikeFrom ==
  ASSUME NEW a \in Text, NEW b \in Text, Like(a, b), NEW k \in 1..(Len(a) + 1)
  PROVE  Like(From(a, k), From(b, k))
<1> DEFINE n == Len(a) - k + 1
           u == From(a, k)
           v == From(b, k)
<1>1. /\ Len(a) \in Nat /\ Len(b) = Len(a)
      /\ \A i \in 1..Len(a) : /\ Plain(a[i]) = Plain(b[i])
                              /\ At(a, i, Quantifier) <=> At(b, i, Quantifier)
  BY TextFacts DEF Like
<1>2. Len(u) = n /\ \A i \in 1..n : u[i] = a[k + i - 1]
  BY FromFacts
<1>3. Len(v) = n /\ \A i \in 1..n : v[i] = b[k + i - 1]
  BY <1>1, FromFacts
<1>4. ASSUME NEW i \in 1..n
      PROVE  /\ At(u, i, Quantifier) <=> At(a, k + i - 1, Quantifier)
             /\ At(v, i, Quantifier) <=> At(b, k + i - 1, Quantifier)
  BY <1>1, QuantifierFacts, AtFrom
<1> HIDE DEF u, v
<1>5. ASSUME NEW i \in 1..n
      PROVE  /\ Plain(u[i]) = Plain(v[i])
             /\ At(u, i, Quantifier) <=> At(v, i, Quantifier)
  <2> DEFINE j == k + i - 1
  <2>1. j \in 1..Len(a)
    BY <1>1
  <2>2. u[i] = a[j] /\ v[i] = b[j]
    BY <1>2, <1>3
  <2>3. At(u, i, Quantifier) <=> At(a, j, Quantifier)
    BY <1>4
  <2>4. At(v, i, Quantifier) <=> At(b, j, Quantifier)
    BY <1>4
  <2> HIDE DEF j
  <2> QED  BY <1>1, <2>1, <2>2, <2>3, <2>4
<1> HIDE DEF n
<1>6. Like(u, v)
  BY <1>2, <1>3, <1>5, Zenon DEF Like
<1> QED  BY <1>6 DEF u, v

LEMMA LikeRegex ==
  ASSUME NEW a \in Text, NEW b \in Text, Like(a, b)
  PROVE  Regex(a) = Regex(b)
<1> DEFINE S == {t \in Text : \A s \in Text : Like(t, s) => Regex(t) = Regex(s)}
<1>1. ASSUME NEW t \in Text, \A s \in Text : Len(s) < Len(t) => s \in S
      PROVE  t \in S
  <2> SUFFICES ASSUME NEW s \in Text, Like(t, s) PROVE Regex(t) = Regex(s)
    OBVIOUS
  <2>1. Len(t) \in Nat /\ Len(s) = Len(t)
    BY TextFacts DEF Like
  <2>2. CASE t = <<>>
    <3>1. s = <<>>
      BY <2>1, <2>2, TextFacts
    <3> QED  BY <2>2, <3>1
  <2>3. CASE t # <<>>
    <3>1. s # <<>> /\ 1 \in 1..Len(t)
      BY <2>1, <2>3, TextFacts
    <3>2. Plain(t[1]) = Plain(s[1]) /\ (At(t, 1, Quantifier) <=> At(s, 1, Quantifier))
      BY <3>1 DEF Like
    <3>3. CASE At(t, 1, Quantifier)
      <4> DEFINE u == From(t, Len(Quantifier) + 1)
                 v == From(s, Len(Quantifier) + 1)
      <4>0. At(s, 1, Quantifier)
        BY <3>2, <3>3
      <4>1. u \in Text /\ t = Cat(Quantifier, u) /\ Len(u) = Len(t) - Len(Quantifier)
        BY <2>3, <3>3, QuantifierFacts, AtIsCat
      <4>2. v \in Text /\ s = Cat(Quantifier, v)
        BY <3>1, <4>0, QuantifierFacts, AtIsCat
      <4>3. Len(Quantifier) = 3
        BY QuantifierFacts
      <4>4. Len(u) < Len(t) /\ Len(Quantifier) + 1 \in 1..(Len(t) + 1)
        <5>1. Len(u) \in Nat
          BY <4>1, TextFacts
        <5> HIDE DEF u
        <5> QED  BY <2>1, <4>1, <4>3, <5>1
      <4>5. Like(u, v)
        BY <4>4, LikeFrom
      <4> HIDE DEF u, v
      <4>6. Regex(u) = Regex(v)
        BY <1>1, <4>1, <4>2, <4>4, <4>5
      <4>7. Regex(Cat(Quantifier, u)) = Cons(Repeat, Regex(u))
        BY <4>1, RegexQuantifier
      <4>8. Regex(Cat(Quantifier, v)) = Cons(Repeat, Regex(v))
        BY <4>2, RegexQuantifier
      <4> QED  BY <4>1, <4>2, <4>6, <4>7, <4>8, Zenon
    <3>4. CASE ~At(t, 1, Quantifier)
      <4> DEFINE u == From(t, 2)
                 v == From(s, 2)
                 x == t[1]
                 y == s[1]
      <4>1. x \in Symbols /\ u \in Text /\ Len(u) = Len(t) - 1 /\ t = Cons(x, u)
        BY <2>3, HeadAndRest
      <4>2. y \in Symbols /\ v \in Text /\ s = Cons(y, v)
        BY <3>1, HeadAndRest
      <4>3. 2 \in 1..(Len(t) + 1)
        BY <2>1, <3>1
      <4>4. Like(u, v)
        BY <4>3, LikeFrom
      <4> HIDE DEF u, v, x, y
      <4>5. Len(u) < Len(t)
        BY <2>1, <4>1
      <4>6. Regex(u) = Regex(v)
        BY <1>1, <4>1, <4>2, <4>4, <4>5
      <4>7. ~At(Cons(x, u), 1, Quantifier)
        BY <3>4, <4>1
      <4>8. ~At(Cons(y, v), 1, Quantifier)
        BY <3>2, <3>4, <4>2
      <4>9. Regex(Cons(x, u)) = Cons(Plain(x), Regex(u))
        BY <4>1, <4>7, RegexSymbol
      <4>10. Regex(Cons(y, v)) = Cons(Plain(y), Regex(v))
        BY <4>2, <4>8, RegexSymbol
      <4>11. Plain(x) = Plain(y)
        BY <3>2 DEF x, y
      <4> QED  BY <4>1, <4>2, <4>6, <4>9, <4>10, <4>11, Zenon
    <3> QED  BY <3>3, <3>4
  <2> QED  BY <2>2, <2>3
<1>2. Text \subseteq S
  <2> HIDE DEF S
  <2> QED  BY <1>1, StrongInduction
<1> QED  BY <1>2

\* Escaping the braces changes nothing, unless they complete a quantifier.
LEMMA EscapedReadsAlike ==
  ASSUME NEW p \in Text,
         Places(Quantifier, OnePass(Rules, p)) = Places(Quantifier, OnePass(Escaped, p))
  PROVE  Regex(OnePass(Rules, p)) = Regex(OnePass(Escaped, p))
<1> DEFINE a == OnePass(Rules, p)
           b == OnePass(Escaped, p)
<1>0. IsTokens(Rules) /\ IsTokens(Escaped) /\ 20 \in 0..20
  BY RulesAreTokens, EscapedAreTokens
<1>1. a = Pass(Gives(Rules, 20), p) /\ b = Pass(Gives(Escaped, 20), p)
  BY <1>0, OnePassIs
<1>2. Shaped(a, b)
  BY <1>1, ShapedPasses, Zenon
<1>3. a \in Text /\ b \in Text
  BY <1>0, <1>1, GivesType, PassType
<1>4. Places(Quantifier, a) = Places(Quantifier, b)
  OBVIOUS
<1> HIDE DEF a, b
<1>5. Like(a, b)
  <2>1. Len(a) = Len(b) /\ \A i \in 1..Len(a) : Plain(a[i]) = Plain(b[i])
    BY <1>2, Zenon DEF Shaped
  <2>2. DOMAIN a = 1..Len(a) /\ DOMAIN b = 1..Len(a)
    BY <1>3, <2>1, TextFacts
  <2>3. ASSUME NEW i \in 1..Len(a) PROVE At(a, i, Quantifier) <=> At(b, i, Quantifier)
    <3>1. i \in Places(Quantifier, a) <=> i \in Places(Quantifier, b)
      BY <1>4
    <3> QED  BY <2>2, <3>1, Zenon DEF Places
  <2> QED  BY <2>1, <2>3, Zenon DEF Like
<1>6. Regex(a) = Regex(b)
  BY <1>3, <1>5, LikeRegex
<1> QED  BY <1>6 DEF a, b

-----------------------------------------------------------------------------
(* The specification *)

\* The output is what the input is rewritten to, and nothing else.
Rewritten ==
  /\ input \in [kind : {"match"}, pattern : Patterns] \cup Requests
  /\ done \in BOOLEAN
  /\ done => output = IF input.kind = "match" THEN expandRegex(input.pattern)
                      ELSE Generated(input)

\* Every behaviour: an input is rewritten once, as a whole, by the handler of its kind
\* (Utility.expandRegex, CodegenIOCapture, CodegenUnitTests).
THEOREM RewrittenHolds == Spec => []Rewritten
<1>1. Init => Rewritten
  BY DEF Init, Rewritten
<1>2. Rewritten /\ [Next]_vars => Rewritten'
  <2> SUFFICES ASSUME Rewritten, [Next]_vars PROVE Rewritten'
    OBVIOUS
  <2>1. CASE ExpandTokens
    BY <2>1 DEF Rewritten, ExpandTokens, Rewrite
  <2>2. CASE CodegenIOCapture
    <3>1. input.kind = "io" /\ done' = TRUE /\ output' = Generated(input) /\ input' = input
      BY <2>2 DEF CodegenIOCapture, Codegen, Rewrite
    <3> QED  BY <3>1 DEF Rewritten
  <2>3. CASE CodegenUnitTests
    <3>1. input.kind = "tests" /\ done' = TRUE /\ output' = Generated(input) /\ input' = input
      BY <2>3 DEF CodegenUnitTests, Codegen, Rewrite
    <3> QED  BY <3>1 DEF Rewritten
  <2>4. CASE UNCHANGED vars
    BY <2>4 DEF Rewritten, vars
  <2> QED  BY <2>1, <2>2, <2>3, <2>4 DEF Next
<1> QED  BY <1>1, <1>2, PTL DEF Spec

\* Every text of a generated program is in its own place, once and unchanged, in every
\* module and for every source and text without markers and $ patterns
\* (CodegenIOCapture, CodegenUnitTests of the five modules).
THEOREM TextsInPlaceHolds == Spec => []TextsInPlace
<1>1. Rewritten => TextsInPlace
  <2> SUFFICES ASSUME Rewritten, done, input.kind # "match", Inert(input)
               PROVE  output = InPlace(input)
    BY Zenon DEF TextsInPlace, InPlace
  <2>1. output = Generated(input) /\ input \in RequestType
    BY RequestsAssumption DEF Rewritten
  <2> QED  BY <2>1, TextsInPlaceOf
<1> QED  BY <1>1, RewrittenHolds, PTL

\* Every token of a pattern means what its comment says, for every pattern over every set
\* of symbols: the rules, one after the other, do what they do to all tokens at once, and
\* the braces that come out unescaped stand for themselves, unless they complete a token
\* or a quantifier (Utility.expandRegex).
THEOREM TokensDenoteHolds == Spec => []TokensDenote
<1>1. Rewritten => TokensDenote
  <2> DEFINE plain == OnePass(Rules, input.pattern)
             escaped == OnePass(Escaped, input.pattern)
  <2>1. SUFFICES ASSUME Rewritten, done, input.kind = "match",
                        \A k \in 16..20 : ~Occurs(Token(Rules[k][1]), plain),
                        Places(Quantifier, plain) = Places(Quantifier, escaped)
                 PROVE  Regex(output) = Regex(escaped)
    BY Zenon DEF TokensDenote
  <2>2. input \in [kind : {"match"}, pattern : Patterns] \/ input \in Requests
    BY <2>1 DEF Rewritten
  <2>3. input \notin Requests
    <3>1. SUFFICES ASSUME input \in RequestType PROVE FALSE
      BY RequestsAssumption
    <3> QED  BY <2>1, <3>1 DEF RequestType
  <2>4. input.pattern \in Text
    BY <2>2, <2>3, PatternsAssumption
  <2>5. output = expandRegex(input.pattern)
    BY <2>1 DEF Rewritten
  <2>6. expandRegex(input.pattern) = plain
    BY <2>1, <2>4, ExpandIsOnePass
  <2>7. Regex(plain) = Regex(escaped)
    BY <2>1, <2>4, EscapedReadsAlike
  <2> QED  BY <2>5, <2>6, <2>7
<1> QED  BY <1>1, RewrittenHolds, PTL
=============================================================================
