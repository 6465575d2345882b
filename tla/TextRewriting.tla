--------------------------- MODULE TextRewriting ---------------------------
(***************************************************************************)
(* The texts that are rewritten by search and replace: the regex tokens of *)
(* I/O matching (Utility.expandRegex, core) and the harness templates that *)
(* every language module fills in (CodegenIOCapture, CodegenUnitTests).    *)
(* A text is a sequence of symbols: a symbol is a character that matters,  *)
(* or a run of characters that no rewriting looks into.                    *)
(***************************************************************************)
EXTENDS Integers, Sequences

CONSTANTS
  Symbols,    \* what texts are made of
  Patterns,   \* regular expressions with tokens
  Requests    \* code generation: what for which module; text: stdin data or test cases

VARIABLES
  input,      \* what is to be rewritten, with its kind
  done,       \* has it been rewritten?
  output      \* the text that it was rewritten to

vars == <<input, done, output>>

Text == Seq(Symbols)

\* The symbols that the code knows: of tokens and what they expand to,
Braces == {"{", "}"}
TokenNames == {"a-int", "a-float", "any", "int", "float", "dollar", "caret", "asterisk",
               "question", "plus", "minus", "period", "lparen", "rparen", "lbrace", "rbrace",
               "lbracket", "rbracket", "pipe", "backslash"}
Expansions == {"[\\s\\S]*?", "(int)", "(float)", "\\$", "\\^", "\\*", "\\?", "\\+", "\\-",
               "\\.", "\\(", "\\)", "\\[", "\\]", "\\|", "\\\\"}
\* of a regex engine's reading of braces, and of templates, encodings and literals.
RegexSymbols == {"2", "{2}", "\\{", "\\}"}
Slots == {"prefix", "main", "code", "stdin", "cases"}
CodeSymbols == {"//$$__", "$", "&", "BT", "'", "\"", "\\", "LF", "CR", "n", ")", ";", "@\"",
                "main() {", "buffer output", "vectors = []", "print vectors",
                "JSON.parse('{\"data\":\"", "redirect", "}());", "StringIO('''", "invocation",
                "#include \"redirect.h\"", "R\"delim(", "____d_e", "_l_i_m", "unterminated"}

ASSUME SymbolsAssumption ==
  Braces \cup TokenNames \cup Expansions \cup RegexSymbols \cup Slots \cup CodeSymbols
    \subseteq Symbols

Compiled == {"cxx", "csharp", "java"}

RequestType == [module : Compiled \cup {"javascript", "python"}, kind : {"io", "tests"},
                source : Text, text : Text]

ASSUME PatternsAssumption == Patterns \subseteq Text
ASSUME RequestsAssumption == Requests \subseteq RequestType

-----------------------------------------------------------------------------
(* Search and replace *)

At(text, i, part) == /\ i + Len(part) - 1 <= Len(text)
                     /\ \A k \in DOMAIN part : text[i + k - 1] = part[k]

Places(part, text) == {i \in DOMAIN text : At(text, i, part)}

Occurs(part, text) == Places(part, text) # {}

\* Reads n places from left to right: each step puts out a text and says where to go on.
Read(n, step) ==
  LET from[i \in 1..(n + 1)] == IF i > n THEN <<>> ELSE step[i].put \o from[step[i].next]
  IN from[1]

Copy(text, i) == [put |-> <<text[i]>>, next |-> i + 1]

\* strReplace of C++, replace of Python, C#, Java and /.../g: one pass, left to right.
strReplace(old, new, text) ==
  Read(Len(text), [i \in DOMAIN text |->
    IF At(text, i, old) THEN [put |-> new, next |-> i + Len(old)] ELSE Copy(text, i)])

PatternAt(new, i) ==
  i < Len(new) /\ new[i] = "$" /\ new[i + 1] \in {"$", "&", "BT", "'"}

HasPattern(new) == \E i \in DOMAIN new : PatternAt(new, i)

\* String.prototype.replace reads $ patterns in the text it puts in (BT: a backtick),
Substituted(new, before, match, after) ==
  LET meaning == [c \in {"$", "&", "BT", "'"} |-> CASE c = "$" -> <<"$">> [] c = "&" -> match
                                                    [] c = "BT" -> before [] OTHER -> after]
  IN Read(Len(new), [i \in DOMAIN new |->
       IF PatternAt(new, i) THEN [put |-> meaning[new[i + 1]], next |-> i + 2]
       ELSE Copy(new, i)])

\* and replaces the first place only.
jsReplace(old, new, text) ==
  IF ~Occurs(old, text) THEN text
  ELSE LET i == CHOOSE k \in Places(old, text) : \A l \in Places(old, text) : k <= l
           before == SubSeq(text, 1, i - 1)
           after == SubSeq(text, i + Len(old), Len(text))
       IN before \o Substituted(new, before, old, after) \o after

-----------------------------------------------------------------------------
(* Regex tokens *)

Token(word) == <<"{", word, "}">>

\* '\{' and '\}' are plain braces in a JavaScript string; the other outputs are opaque.
Rules ==
  << <<"a-int", Token("any") \o Token("int")>>, <<"a-float", Token("any") \o Token("float")>>,
     <<"any", <<"[\\s\\S]*?">>>>, <<"int", <<"(int)">>>>, <<"float", <<"(float)">>>>,
     <<"dollar", <<"\\$">>>>, <<"caret", <<"\\^">>>>, <<"asterisk", <<"\\*">>>>,
     <<"question", <<"\\?">>>>, <<"plus", <<"\\+">>>>, <<"minus", <<"\\-">>>>,
     <<"period", <<"\\.">>>>, <<"lparen", <<"\\(">>>>, <<"rparen", <<"\\)">>>>,
     <<"lbrace", <<"{">>>>, <<"rbrace", <<"}">>>>, <<"lbracket", <<"\\[">>>>,
     <<"rbracket", <<"\\]">>>>, <<"pipe", <<"\\|">>>>, <<"backslash", <<"\\\\">>>> >>

\* One kind of token after the other.
Expand(rules, pattern) ==
  LET after[k \in 0..Len(rules)] ==
        IF k = 0 THEN pattern ELSE strReplace(Token(rules[k][1]), rules[k][2], after[k - 1])
  IN after[Len(rules)]

\* Fault: the tokens that expand to tokens come last.
FaultOrder(pattern) == Expand(SubSeq(Rules, 3, 20) \o SubSeq(Rules, 1, 2), pattern)

expandRegex(pattern) == Expand(Rules, pattern)

Rewrite(text) == ~done /\ done' = TRUE /\ output' = text /\ UNCHANGED input

ExpandTokens == input.kind = "match" /\ Rewrite(expandRegex(input.pattern))

-----------------------------------------------------------------------------
(* The templates: texts with two slots to fill *)

Template(module, kind) ==
  LET of(before, first, between, second, after) ==
        [before |-> before, first |-> first, between |-> between, second |-> second,
         after |-> after]
  IN IF module \in Compiled THEN of(<<>>, "prefix", <<"main() {">>, "main", <<"}">>)
     ELSE IF kind = "tests"
     THEN of(<<"buffer output">>, "code", <<"vectors = []">>, "cases", <<"print vectors">>)
     ELSE IF module = "javascript"
     THEN of(<<"JSON.parse('{\"data\":\"">>, "stdin", <<"\"", "}", "'", "redirect">>,
             "code", <<"}());">>)
     ELSE of(<<"StringIO('''">>, "stdin", <<"'", "'", "'", ")">>, "code", <<>>)

\* The text that marks a slot.
Markers == [slot \in Slots |->
  IF slot \in {"prefix", "main"} THEN <<"//$$__", slot>> ELSE <<"$", "$", slot, "$", "$">>]

Filled(t, fill) == t.before \o fill[t.first] \o t.between \o fill[t.second] \o t.after

-----------------------------------------------------------------------------
(* What the handlers put in: <<slot, text>>, in the order of the replacements *)

Invocation == <<"invocation">>

json(text) ==
  LET slashes == strReplace(<<"\\">>, <<"\\", "\\">>, text)
      quotes  == strReplace(<<"\"">>, <<"\\", "\"">>, slashes)
  IN strReplace(<<"LF">>, <<"\\", "n">>, quotes)

\* Fault: the JSON goes into the string literal as it is.
FaultPlainJson(text) == json(text)

\* JSON inside a string literal: its backslashes are doubled, ' is left alone.
jsStdin(text) == strReplace(<<"\\">>, <<"\\", "\\">>, json(text))

Code(r) == r.source \o <<"LF", "LF">> \o Invocation

jsIOCapture(r) == << <<"stdin", jsStdin(r.text)>>, <<"code", Code(r)>> >>

pyStdin(text) == strReplace(<<"'", "'", "'">>, <<"\\", "'", "\\", "'", "\\", "'">>, text)

\* Fault: the stdin data goes in first.
FaultStdinFirst(r) == << <<"stdin", pyStdin(r.text)>>, <<"code", Code(r)>> >>

pyIOCapture(r) == << <<"code", Code(r)>>, <<"stdin", pyStdin(r.text)>> >>

\* A verbatim string.
csIOCapture(r) ==
  << <<"prefix", r.source>>,
     <<"main", <<"@\"">> \o strReplace(<<"\"">>, <<"\"", "\"">>, r.text)
               \o <<"\"", ";">> \o Invocation>> >>

\* The delimiter of the raw string, in two halves: a removal may join two of them.
Delimiter == <<"____d_e", "_l_i_m">>

cxxIOCapture(r) ==
  << <<"prefix", r.source \o <<"#include \"redirect.h\"">> >>,
     <<"main", <<"R\"delim(">> \o strReplace(Delimiter, <<>>, r.text)
               \o <<")">> \o Delimiter \o <<"\"", ";">> \o Invocation>> >>

\* The stdin data is not in the code: it is written to a resource file.
javaIOCapture(r) == << <<"prefix", r.source>>, <<"main", Invocation>> >>

\* In JavaScript, the texts of the cases have gone through a replacement of their own,
\* of the invocation into the template of one case (LanguageModuleImp.ts:87): r.text is
\* what came out of it, and $ patterns in an invocation are not followed back to it.
UnitTests(r) == IF r.module \in Compiled
                THEN << <<"prefix", r.source>>, <<"main", r.text>> >>
                ELSE << <<"code", r.source>>, <<"cases", r.text>> >>

Fills(r) == IF r.kind = "tests" THEN UnitTests(r)
            ELSE CASE r.module = "javascript" -> jsIOCapture(r)
                   [] r.module = "python"     -> pyIOCapture(r)
                   [] r.module = "csharp"     -> csIOCapture(r)
                   [] r.module = "cxx"        -> cxxIOCapture(r)
                   [] r.module = "java"       -> javaIOCapture(r)

Replace(module, fill, text) ==
  IF module = "javascript" THEN jsReplace(Markers[fill[1]], fill[2], text)
  ELSE strReplace(Markers[fill[1]], fill[2], text)

Generated(r) ==
  LET fills == Fills(r)
  IN Replace(r.module, fills[2],
       Replace(r.module, fills[1], Filled(Template(r.module, r.kind), Markers)))

Codegen(kind) == input.kind = kind /\ Rewrite(Generated(input))

CodegenIOCapture == Codegen("io")
CodegenUnitTests == Codegen("tests")

-----------------------------------------------------------------------------
Init == /\ input \in [kind : {"match"}, pattern : Patterns] \cup Requests
        /\ done = FALSE /\ output = <<>>

Next == ExpandTokens \/ CodegenIOCapture \/ CodegenUnitTests

Spec == Init /\ [][Next]_vars

-----------------------------------------------------------------------------
(* What a regex engine makes of a pattern *)

Quantifier == <<"{", "2", "}">>

\* A brace that is not part of a quantifier stands for itself.
Regex(text) ==
  LET quantified == strReplace(Quantifier, <<"{2}">>, text)
  IN strReplace(<<"{">>, <<"\\{">>, strReplace(<<"}">>, <<"\\}">>, quantified))

\* All tokens of a pattern at once, with the given rules.
OnePass(rules, pattern) ==
  LET tokenAt(i) == \E k \in DOMAIN rules : At(pattern, i, Token(rules[k][1]))
  IN Read(Len(pattern), [i \in DOMAIN pattern |->
       IF tokenAt(i) THEN [put |-> Expand(rules, Token(pattern[i + 1])), next |-> i + 3]
       ELSE Copy(pattern, i)])

\* {lbrace} and {rbrace} as the comments on them say: the braces themselves.
Escaped == [Rules EXCEPT ![15] = <<"lbrace", <<"\\{">>>>, ![16] = <<"rbrace", <<"\\}">>>>]

-----------------------------------------------------------------------------
(* What a compiler makes of a literal: the text up to closing *)

EscapeAt(text, i, escapes) ==
  i < Len(text) /\ text[i] = escapes.lead /\ text[i + 1] \in DOMAIN escapes.meaning

Literal(text, escapes, closing) ==
  LET end == Len(text) + 1
  IN Read(end, [i \in 1..end |->
       CASE i = end -> [put |-> <<"unterminated">>, next |-> end + 1]
         [] i # end /\ EscapeAt(text, i, escapes) ->
              [put |-> <<escapes.meaning[text[i + 1]]>>, next |-> i + 2]
         [] i # end /\ ~EscapeAt(text, i, escapes) /\ At(text, i, closing) ->
              [put |-> <<>>, next |-> end + 1]
         [] OTHER -> Copy(text, i)])

Backslash == [lead |-> "\\", meaning |-> [c \in {"\\", "'", "\"", "n"} |->
                                            IF c = "n" THEN "LF" ELSE c]]
Doubled   == [lead |-> "\"", meaning |-> [c \in {"\""} |-> c]]
Raw       == [lead |-> "\\", meaning |-> [c \in {} |-> c]]

\* A Python source is read with universal newlines.
Newlines(text) == strReplace(<<"CR">>, <<"LF">>, strReplace(<<"CR", "LF">>, <<"LF">>, text))

\* A C++ compiler reads CR LF as LF in a raw string, too (GCC, current Clang); CR alone stays.
RawNewlines(text) == strReplace(<<"CR", "LF">>, <<"LF">>, text)

\* Where the literal with the stdin data begins, if the source is in its place.
LiteralStart(r) == CASE r.module = "csharp" -> Len(r.source) + 3
                     [] r.module = "cxx"    -> Len(r.source) + 4
                     [] OTHER               -> 2

\* The stdin data that the generated program reads; in Java, from the resource file.
Received(r, code) ==
  LET rest == SubSeq(code, LiteralStart(r), Len(code))
  IN CASE r.module = "java"   -> r.text
       [] r.module = "python" -> Literal(Newlines(rest), Backslash, <<"'", "'", "'">>)
       [] r.module = "csharp" -> Literal(rest, Doubled, <<"\"">>)
       [] r.module = "cxx"    -> Literal(RawNewlines(rest), Raw, <<")">> \o Delimiter \o <<"\"">>)
       [] OTHER -> Literal(Literal(rest, Backslash, <<"'">>), Backslash, <<"\"">>)

-----------------------------------------------------------------------------
(* Properties *)

\* expandRegex replaces one kind of token after the other (Utility.ts:8-27), and every
\* token still means what its comment says, wherever it stands and whatever else is in
\* the pattern: unless braces of {lbrace} and {rbrace}, which come out unescaped
\* (Utility.ts:22), complete a quantifier, or a token that is replaced after them.
TokensDenote ==
  done /\ input.kind = "match" =>
    LET plain == OnePass(Rules, input.pattern)
        escaped == OnePass(Escaped, input.pattern)
        completes == \/ \E k \in 16..20 : Occurs(Token(Rules[k][1]), plain)
                     \/ Places(Quantifier, plain) # Places(Quantifier, escaped)
    IN ~completes => Regex(output) = Regex(escaped)

\* How many quotes a text ends with.
EndQuotes(text) == CHOOSE n \in 0..Len(text) :
  /\ \A i \in 1..n : text[Len(text) + 1 - i] = "'"
  /\ n < Len(text) => text[Len(text) - n] # "'"

\* Stdin data that its module's encoding can carry.
Encodable(module, text) ==
  CASE module = "javascript" -> ~Occurs(<<"'">>, text) /\ ~HasPattern(text)
    [] module = "python"     -> /\ ~Occurs(<<"\\">>, text) /\ ~Occurs(<<"CR">>, text)
                                /\ EndQuotes(text) % 3 = 0
    [] module = "cxx"        -> ~Occurs(Delimiter, text) /\ ~Occurs(<<"CR", "LF">>, text)
    [] OTHER                 -> TRUE

\* The marker that is searched in a text which may come from the client.
LaterMarker(r) == IF r.module \in Compiled THEN Markers["main"]
                  ELSE Markers[IF r.kind = "io" THEN "stdin" ELSE "cases"]

\* The program reads the stdin data of its request, character for character, through
\* every encoding and literal that is in between, if it is data that Encodable allows.
\* A source that contains the marker of main is left out: it gets the literal, too.
StdinArrives ==
  /\ done /\ input.kind = "io" /\ Encodable(input.module, input.text)
  /\ input.module \in Compiled => ~Occurs(Markers["main"], input.source)
  => Received(input, output) = input.text

\* server.proto:48 promises the string of a request "(including any newlines)" as the
\* stdin data, whatever is in it; what the five modules' encodings lose does not arrive.
StdinReachesProgram == done /\ input.kind = "io" => Received(input, output) = input.text

\* Texts that no replacement reads anything into: in JavaScript those without $ patterns,
\* elsewhere a source without the marker that is replaced after it went in.
Inert(r) ==
  IF r.module = "javascript" THEN ~HasPattern(r.source) /\ ~HasPattern(r.text)
  ELSE ~Occurs(LaterMarker(r), r.source)

\* The generated program is the template with each text in its own place, once and
\* unchanged, although each replacement searches what the one before has put in.
TextsInPlace ==
  done /\ input.kind # "match" /\ Inert(input) =>
    LET fills == Fills(input)
        template == Template(input.module, input.kind)
    IN output = Filled(template, [slot \in {template.first, template.second} |->
                  IF slot = fills[1][1] THEN fills[1][2] ELSE fills[2][2]])
=============================================================================
