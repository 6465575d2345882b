-------------------------- MODULE MC_TextRewriting --------------------------
EXTENDS TextRewriting, SequencesExt, TLC

\* The symbols that the code knows, and source text.
McSymbols == UNION {Braces, TokenNames, Expansions, RegexSymbols, Slots, CodeSymbols, {"class"}}

\* Texts joined from at most n pieces.
Texts(pieces, n) == {FlattenSeq(s) : s \in SeqOf(pieces, n)}

\* Every token, and what tokens of each role and pieces of tokens can be joined to.
McPatterns ==
  {Token(Rules[k][1]) : k \in DOMAIN Rules} \cup
  Texts({Token(w) : w \in {"a-int", "int", "lbrace", "rbrace", "pipe"}}
        \cup {Quantifier} \cup {<<c>> : c \in {"{", "}", "int", "rbrace", "pipe", "2"}}, 4)

\* The characters that an encoding treats.
Chars == [javascript |-> {"'", "\"", "\\", "LF", "$", "&"},
          python     |-> {"'", "\\", "n", "CR", "LF"},
          csharp     |-> {"\"", "\\", "CR", "LF", ";"},
          cxx        |-> {")", "\"", "CR", "LF", Delimiter[1], Delimiter[2]},
          java       |-> {"\"", "\\"}]

Modules == DOMAIN Chars

Plain == <<"class">>

\* Texts with the markers in them, one also as a text that $ patterns turn into one.
Marked == {Markers[slot] : slot \in DOMAIN Markers}
          \cup {<<"$", "$">> \o Markers["code"] \o <<"$", "$">>}

\* A source that puts stdin data back, although its $ patterns had turned it into a marker.
Twofold(text) == FlattenSeq([i \in DOMAIN text |->
                   IF text[i] = "$" THEN <<"$", "$">> ELSE <<text[i]>>])
Restoring == Twofold(Twofold(Markers["code"])) \o <<"\"", "'">>

Calls(module, kind, sources, texts) ==
  [module : {module}, kind : {kind}, source : sources, text : texts]

McRequests ==
  UNION ({Calls(m, "io", {Plain}, SeqOf(Chars[m], 4)) : m \in Modules}
         \cup {Calls(m, k, {Plain \o t : t \in Marked \cup {<<>>}}, Marked \cup {Plain}) :
                 m \in Modules, k \in {"io", "tests"}}
         \cup {Calls("javascript", k, SeqOf({"$", "&", "BT", "'"}, 3), {Plain, <<"$", "&">>}) :
                 k \in {"io", "tests"}}
         \cup {Calls("javascript", "io", {Restoring}, Marked)})

\* Short stdin data for a plain source.
ShortRequests == UNION {Calls(m, "io", {Plain}, SeqOf(Chars[m], 2)) : m \in Modules}
=============================================================================
