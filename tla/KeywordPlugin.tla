---------------------------- MODULE KeywordPlugin ----------------------------
(***************************************************************************)
(* pj_jit_type_keyword_plugin (src/pj_keyword_plugin.cpp) up to the        *)
(* declaration that follows, and parse_type (src/pj_types.cpp): whether a  *)
(* keyword is taken, and which type the text behind it names.              *)
(*                                                                         *)
(* The text is a sequence of tokens: " ", which stands for space of any    *)
(* kind and comments where lex_read_space is asked to skip them, the names *)
(* and brackets of types, the keyword "typed" in two halves, and "other".  *)
(* No name of a type is a prefix of another, so that starts_with finds     *)
(* whole tokens.  A place in the text is the number of tokens before it.   *)
(* The lexer has read the text up to lex.end, and reads on in chunks, cut  *)
(* anywhere.                                                               *)
(***************************************************************************)
EXTENDS Naturals, Sequences

CONSTANTS
  Sources,   \* the inputs
  NoType     \* a null Type *

ScalarNames == {"Any", "Opaque", "String", "Double", "Int", "UnsignedInt"}

Constructors == {"Array[", "Hash["}

Tokens == ScalarNames \union Constructors \union {" ", "]", "ty", "ped", "other"}

\* A type: the constructors from the outside in and the scalar inside.
Types == [shape : Seq(Constructors), name : ScalarNames]

Type(shape, name) == [shape |-> shape, name |-> name]

\* A keyword, whether the hint is set, and the text behind the keyword
Inputs == [text    : Seq(Tokens),
           keyword : {"typed", "for", "while"},
           hint    : {"on", "off", "absent"}]

ASSUME SourcesAssumption == Sources \subseteq Inputs

ASSUME NoTypeAssumption == NoType \notin Types

VARIABLES
  source,    \* the input
  lex,       \* the lexer: ptr is bufptr, end is bufend
  s,         \* how far S_lex_to_whitespace or S_peek_to_whitespace is from ptr,
  width,     \* and how many characters that is
  pc,
  str,       \* parse_type_part: where the string begins that is left to it,
  open,      \* the calls of parse_nested it is in,
  type,      \* and the type it returns
  outcome    \* "none" at first, "declined", "next", "croak" or "taken"

vars == <<source, lex, s, width, pc, str, open, type, outcome>>

parsing == <<str, open, type>>

Text == source.text

End == Len(Text)

SpaceAt(i) == i < End /\ Text[i + 1] = " "

\* How many characters a token has
Width(token) ==
  CASE token \in {" ", "]"} -> 1
    [] token = "ty" -> 2
    [] token \in {"Any", "Int", "ped"} -> 3
    [] token \in {"Hash[", "other"} -> 5
    [] token \in {"Opaque", "String", "Double", "Array["} -> 6
    [] token = "UnsignedInt" -> 11

-----------------------------------------------------------------------------
(* perl's lexer *)

Lexers == [ptr : 0..End, end : 0..End]

\* From i on there is space up to j, and no more.
WordBegins(i, j) ==
  /\ i <= j /\ \A k \in i..(j - 1) : SpaceAt(k)
  /\ ~ SpaceAt(j)

\* lex_read_space(0): what it may leave; it reads chunks until there is a word.
ReadSpace(l) ==
  {r \in Lexers :
     /\ WordBegins(l.ptr, r.ptr)
     /\ IF r.ptr < l.end THEN r.end = l.end
        ELSE r.ptr < r.end \/ (r.ptr = End /\ r.end = End)}

\* lex_peek_unichar(0) finds no character.
AtEnd(l) == l.ptr = End

\* lex_read_to, at characters on
ReadTo(l, at) == [l EXCEPT !.ptr = @ + at]

\* Faulty variant: without LEX_KEEP_PREVIOUS
NextChunkDropping(l) == {[ptr |-> l.end, end |-> e] : e \in (l.end + 1)..End}

\* lex_next_chunk(LEX_KEEP_PREVIOUS): what it may leave
NextChunk(l) == {[l EXCEPT !.end = e] : e \in (l.end + 1)..End}

-----------------------------------------------------------------------------
Init ==
  /\ source \in Sources
  /\ \E e \in 0..End : lex = [ptr |-> 0, end |-> e]
  /\ s = 0 /\ width = 0
  /\ pc = "dispatch"
  /\ str = 0 /\ open = <<>> /\ type = NoType
  /\ outcome = "none"

Ending(what) == pc' = "done" /\ outcome' = what

GoingOn(where) == pc' = where /\ UNCHANGED outcome

\* The entry of the hook: only whether the hint is there is asked, not what it
\* says; without it the plugins installed before are not asked either.
Dispatch ==
  /\ pc = "dispatch"
  /\ IF source.hint = "absent" THEN Ending("declined")
     ELSE CASE source.keyword = "typed" -> GoingOn("type")
            [] source.keyword = "for"   -> GoingOn("keyword")
            [] OTHER -> Ending("next")
  /\ UNCHANGED <<source, lex, s, width, parsing>>

\* S_parse_typed_keyword, up to the peek
ParseTypedKeyword ==
  /\ pc = "keyword"
  /\ lex' \in ReadSpace(lex)
  /\ IF AtEnd(lex') THEN Ending("next") ELSE GoingOn("peek")
  /\ UNCHANGED <<source, s, width, parsing>>

\* S_parse_type, up to the name
ParseTypeBegins ==
  /\ pc = "type"
  /\ IF ~ SpaceAt(lex.ptr) THEN Ending("croak") /\ UNCHANGED lex
     ELSE /\ lex' \in ReadSpace(lex)
          /\ IF AtEnd(lex') THEN Ending("croak") ELSE GoingOn("lex")
  /\ UNCHANGED <<source, s, width, parsing>>

Scanning == pc \in {"peek", "lex"}

InBuffer == lex.ptr + s < lex.end

\* Only where InBuffer holds
Token == Text[lex.ptr + s + 1]

\* The word that was scanned is the second half of for typed.
IsTyped == s = 2 /\ Text[lex.ptr + 1] = "ty" /\ Text[lex.ptr + 2] = "ped"

\* The peek gives up at the seventh character of a word.
TooLong == pc = "peek" /\ width + Width(Token) > 6

ScanWord ==
  /\ Scanning
  /\ InBuffer /\ Token # " "
  /\ IF TooLong
       THEN Ending("next") /\ s' = 0 /\ width' = 0
       ELSE GoingOn(pc) /\ s' = s + 1 /\ width' = width + Width(Token)
  /\ UNCHANGED <<source, lex, parsing>>

\* Faulty variant: what was peeked at is read in any case.
PeekEndsReading ==
  /\ pc = "peek"
  /\ InBuffer /\ Token = " "
  /\ lex' = ReadTo(lex, s)
  /\ IF IsTyped THEN GoingOn("type") ELSE Ending("next")
  /\ s' = 0 /\ width' = 0
  /\ UNCHANGED <<source, parsing>>

\* The space behind the word after "for": only "typed" is read.
PeekEnds ==
  /\ pc = "peek"
  /\ InBuffer /\ Token = " "
  /\ IF IsTyped
       THEN lex' = ReadTo(lex, s) /\ GoingOn("type")
       ELSE Ending("next") /\ UNCHANGED lex
  /\ s' = 0 /\ width' = 0
  /\ UNCHANGED <<source, parsing>>

\* The space behind the name of the type, which goes to parse_type
LexEnds ==
  /\ pc = "lex"
  /\ InBuffer /\ Token = " "
  /\ lex' = ReadTo(lex, s)
  /\ str' = lex.ptr
  /\ GoingOn("part")
  /\ s' = 0 /\ width' = 0
  /\ UNCHANGED <<source, open, type>>

\* The end of the buffer: a chunk more, from where the scan goes on
ScanChunk ==
  /\ Scanning
  /\ ~ InBuffer
  /\ lex' \in NextChunk(lex)
  /\ UNCHANGED <<source, s, width, pc, parsing, outcome>>

\* The end of the text is no whitespace.
ScanEnd ==
  /\ Scanning
  /\ ~ InBuffer /\ lex.end = End
  /\ IF pc = "peek" THEN Ending("next") /\ UNCHANGED lex
     ELSE Ending("croak") /\ lex' \in ReadSpace(ReadTo(lex, s))
  /\ s' = 0 /\ width' = 0
  /\ UNCHANGED <<source, parsing>>

-----------------------------------------------------------------------------
(* parse_type: the string from str to where the lexer has read up to       *)

StrStarts(names) == str < lex.ptr /\ Text[str + 1] \in names

\* A null pointer goes up to the plugin; what was parsed is deleted.
Fails ==
  /\ Ending("croak")
  /\ open' = <<>> /\ type' = NoType
  /\ UNCHANGED <<source, lex, s, width, str>>

Reading == str' = str + 1 /\ UNCHANGED <<source, lex, s, width>>

\* PARSE_SCALAR
ParseScalar ==
  /\ pc = "part" /\ StrStarts(ScalarNames)
  /\ type' = Type(<<>>, Text[str + 1])
  /\ GoingOn("rest")
  /\ UNCHANGED open
  /\ Reading

\* PARSE_NESTED, up to the call for the element
ParseNested ==
  /\ pc = "part" /\ StrStarts(Constructors)
  /\ open' = Append(open, Text[str + 1])
  /\ GoingOn("part")
  /\ UNCHANGED type
  /\ Reading

ParseNothing ==
  /\ pc = "part" /\ ~ StrStarts(ScalarNames \union Constructors)
  /\ Fails

\* The element of the innermost parse_nested is there, and its bracket too.
ParseClosed ==
  /\ pc = "rest" /\ open # <<>> /\ StrStarts({"]"})
  /\ type' = Type(<<open[Len(open)]>> \o type.shape, type.name)
  /\ open' = SubSeq(open, 1, Len(open) - 1)
  /\ GoingOn("rest")
  /\ Reading

ParseUnclosed ==
  /\ pc = "rest" /\ open # <<>> /\ ~ StrStarts({"]"})
  /\ Fails

\* Faulty variant: what is left of the string is not looked at.
ParseTypeEndsAnyway ==
  /\ pc = "rest" /\ open = <<>>
  /\ Ending("taken")
  /\ UNCHANGED <<source, lex, s, width, parsing>>

\* The end of parse_type: the whole of the string must name the type.
ParseTypeEnds ==
  /\ pc = "rest" /\ open = <<>>
  /\ IF str = lex.ptr
       THEN Ending("taken") /\ UNCHANGED <<source, lex, s, width, parsing>>
       ELSE Fails

Next ==
  \/ Dispatch \/ ParseTypedKeyword \/ ParseTypeBegins
  \/ ScanWord \/ PeekEnds \/ LexEnds \/ ScanChunk \/ ScanEnd
  \/ ParseScalar \/ ParseNested \/ ParseNothing
  \/ ParseClosed \/ ParseUnclosed \/ ParseTypeEnds

Spec == Init /\ [][Next]_vars
-----------------------------------------------------------------------------
(***************************************************************************)
(* The reference: the text as one string, and the names of types.          *)
(***************************************************************************)

\* Scalar::to_string, Array::to_string and Hash::to_string
Name(t) ==
  [k \in 1..(Len(t.shape) + 1 + Len(t.shape)) |->
     IF k <= Len(t.shape) THEN t.shape[k]
     ELSE IF k = Len(t.shape) + 1 THEN t.name ELSE "]"]

\* At i the text is this word and a space.
Reads(i, word) ==
  /\ SpaceAt(i + Len(word))
  /\ \A k \in 1..Len(word) : Text[i + k] = word[k]

\* Where the keyword "typed" ends, if it is there
TypedEnds ==
  {b \in 0..End :
     \/ source.keyword = "typed" /\ b = 0
     \/ source.keyword = "for" /\ b >= 2 /\ WordBegins(0, b - 2) /\ Reads(b - 2, <<"ty", "ped">>)}

Wanted == source.hint # "absent" /\ TypedEnds # {}

\* Where a word stands behind it, with space between
TypeBegins == {i \in 0..End : \E b \in TypedEnds : SpaceAt(b) /\ WordBegins(b, i)}

\* The types that the words cut out of the text at i could be
TypesAt(i) == {Type(SubSeq(Text, i + 1, j), Text[j + 1]) : j \in i..(End - 1)} \intersect Types

\* The types whose names stand behind typed
Named == {t \in UNION {TypesAt(i) : i \in TypeBegins} : \E i \in TypeBegins : Reads(i, Name(t))}

\* Every variable has its type; the scan stays within the buffer, and a type is
\* there while one is parsed and when the plugin took it, and at no other time.
TypeOK ==
  /\ source \in Inputs
  /\ lex \in Lexers
  /\ s \in Nat /\ lex.ptr + s <= lex.end
  /\ width \in Nat
  /\ pc \in {"dispatch", "keyword", "peek", "type", "lex", "part", "rest", "done"}
  /\ str \in 0..lex.ptr
  /\ open \in Seq(Constructors)
  /\ type \in Types \union {NoType}
  /\ type # NoType <=> pc = "rest" \/ outcome = "taken"
  /\ outcome \in {"none", "declined", "next", "croak", "taken"}
  /\ outcome # "none" <=> pc = "done"

\* However the text is cut into chunks, the hook takes what reads as typed and
\* a type's name with space around it, finds that type, and croaks at anything
\* else behind typed.
ReadsAsWritten ==
  pc = "done" =>
    IF ~ Wanted THEN outcome \in {"declined", "next"}
    ELSE IF Named = {} THEN outcome = "croak"
    ELSE outcome = "taken" /\ type \in Named

\* What is not taken is left to perl and the other plugins as it was, but for
\* the space in front of it; a type is taken with its name and no more, and space
\* follows.
LeftAsFound ==
  /\ outcome \in {"declined", "next"} =>
       lex.ptr = 0 \/ (source.keyword = "for" /\ WordBegins(0, lex.ptr))
  /\ outcome = "taken" =>
       \E i \in TypeBegins : Reads(i, Name(type)) /\ lex.ptr = i + Len(Name(type))
-----------------------------------------------------------------------------
(* The invariant behind them: what each part of the hook has found out.    *)

\* From i to j there is no space.
InWord(i, j) == \A k \in i..(j - 1) : ~ SpaceAt(k)

\* Nothing is scanned outside the scans, and nothing is read before them.
HookStage ==
  /\ ~ Scanning => s = 0 /\ width = 0
  /\ pc \in {"dispatch", "keyword"} => lex.ptr = 0
  /\ pc = "keyword" => source.keyword = "for"
  /\ pc \notin {"dispatch", "done"} => source.hint # "absent"
  /\ pc = "type" => lex.ptr \in TypedEnds
  /\ pc \notin {"part", "rest"} => open = <<>>

\* A scan is in a word, that of the peek behind "for" and that of the type behind
\* "typed"; the peek has the characters of its tokens.
ScanStage ==
  /\ Scanning => lex.ptr < End /\ InWord(lex.ptr, lex.ptr + s)
  /\ pc = "peek" => source.keyword = "for" /\ WordBegins(0, lex.ptr)
  /\ pc = "peek" /\ s = 0 => width = 0
  /\ pc = "peek" /\ s = 1 => width = Width(Text[lex.ptr + 1])
  /\ pc = "lex" => lex.ptr \in TypeBegins

\* On the way down only constructors were read, one for each call ...
Descending(i) ==
  /\ str = i + Len(open)
  /\ \A k \in 1..Len(open) : Text[i + k] = open[k]

\* ... and on the way up the name of the type that is returned, too.
Returning(i) ==
  /\ str = i + Len(open) + Len(Name(type))
  /\ \A k \in 1..Len(open) : Text[i + k] = open[k]
  /\ \A k \in 1..Len(Name(type)) : Text[i + Len(open) + k] = Name(type)[k]

\* What is parsed is the word behind "typed".
ParseStage ==
  pc \in {"part", "rest"} =>
    \E i \in TypeBegins :
      /\ InWord(i, lex.ptr) /\ SpaceAt(lex.ptr)
      /\ i <= lex.ptr
      /\ pc = "part" => Descending(i)
      /\ pc = "rest" => Returning(i)

IInv == TypeOK /\ HookStage /\ ScanStage /\ ParseStage /\ ReadsAsWritten /\ LeftAsFound
=============================================================================
