------------------------ MODULE KeywordPlugin_proofs ------------------------
(***************************************************************************)
(* Theorems about KeywordPlugin, for any texts and chunks: the plugin      *)
(* takes what reads as typed and a type's name, and leaves the rest.       *)
(*                                                                         *)
(* Behind a place there is one first word (WordBeginsOnce), so that what   *)
(* the scans found is what the reference means.  The recursion of          *)
(* parse_type_part is a run of steps, and its induction the invariant      *)
(* ParseStage: the calls that are open and the name of the type that was   *)
(* returned are what was read of the word.                                 *)
(***************************************************************************)
EXTENDS KeywordPlugin, SequenceTheorems, TLAPS

-----------------------------------------------------------------------------
(* Tokens and names                                                        *)

LEMMA TokenKinds ==
  /\ " " \notin ScalarNames /\ " " \notin Constructors
  /\ "]" \notin ScalarNames /\ "]" \notin Constructors
  /\ ScalarNames \intersect Constructors = {}
  /\ "]" # " "
BY DEF ScalarNames, Constructors

LEMMA TextSequence ==
  ASSUME source \in Inputs
  PROVE  /\ Text \in Seq(Tokens)
         /\ End \in Nat
         /\ \A i \in 1..End : Text[i] \in Tokens
<1>1. Text \in Seq(Tokens)
  BY DEF Inputs, Text
<1> QED BY <1>1, LenProperties, ElementOfSeq DEF End

LEMMA TypeFields ==
  ASSUME NEW t \in Types
  PROVE  /\ t.shape \in Seq(Constructors) /\ t.name \in ScalarNames
         /\ Len(t.shape) \in Nat
         /\ \A k \in 1..Len(t.shape) : t.shape[k] \in Constructors
<1>1. t.shape \in Seq(Constructors) /\ t.name \in ScalarNames
  BY DEF Types
<1> QED BY <1>1, LenProperties, ElementOfSeq

LEMMA TypeParts ==
  ASSUME NEW shape \in Seq(Constructors), NEW name \in ScalarNames
  PROVE  /\ Type(shape, name) \in Types
         /\ Type(shape, name).shape = shape
         /\ Type(shape, name).name = name
BY DEF Types, Type

\* A name is as long as its brackets ask for; it has constructors, one scalar and
\* brackets, in this order.
LEMMA NameSequence ==
  ASSUME NEW t \in Types
  PROVE  /\ Len(Name(t)) = Len(t.shape) + 1 + Len(t.shape)
         /\ Name(t)[Len(t.shape) + 1] = t.name
         /\ \A k \in 1..Len(t.shape) : Name(t)[k] = t.shape[k]
         /\ \A k \in (Len(t.shape) + 2)..(Len(t.shape) + 1 + Len(t.shape)) : Name(t)[k] = "]"
<1> DEFINE n == Len(t.shape)
           m == n + 1 + n
           S == Constructors \union ScalarNames \union {"]"}
<1>1. n \in Nat /\ m \in Nat /\ m >= n + 1
  BY TypeFields
<1>2. /\ Name(t) = [k \in 1..m |-> IF k <= n THEN t.shape[k]
                                   ELSE IF k = n + 1 THEN t.name ELSE "]"]
  BY DEF Name
<1>3. Name(t) \in [1..m -> S]
  <2>1. \A k \in 1..m : k <= n => t.shape[k] \in S
    BY <1>1, TypeFields
  <2>2. t.name \in S
    BY TypeFields
  <2> QED BY <1>2, <2>1, <2>2
<1>4. Name(t) \in Seq(S)
  BY <1>1, <1>3, SeqDef
<1>5. Len(Name(t)) = m
  <2>1. Len(Name(t)) \in Nat /\ DOMAIN Name(t) = 1..Len(Name(t))
    BY <1>4, LenProperties
  <2>2. DOMAIN Name(t) = 1..m
    BY <1>3
  <2>3. \A k \in Nat : 1..k = 1..m => k = m
    <3> HIDE DEF m
    <3> QED BY <1>1
  <2> QED BY <2>1, <2>2, <2>3
<1> HIDE DEF S
<1> QED BY <1>1, <1>2, <1>5

\* Which kind of token stands where in a name
LEMMA NameKinds ==
  ASSUME NEW t \in Types, NEW k \in 1..Len(Name(t))
  PROVE  /\ Name(t)[k] # " "
         /\ Name(t)[k] \in Constructors <=> k <= Len(t.shape)
         /\ Name(t)[k] \in ScalarNames <=> k = Len(t.shape) + 1
         /\ Name(t)[k] = "]" <=> k > Len(t.shape) + 1
<1> DEFINE n == Len(t.shape)
           token == Name(t)[k]
<1>1. n \in Nat /\ k \in Int /\ k >= 1 /\ k <= n + 1 + n
  BY TypeFields, NameSequence
<1>2. k <= n => token \in Constructors
  BY <1>1, TypeFields, NameSequence
<1>3. k = n + 1 => token \in ScalarNames
  BY <1>1, TypeFields, NameSequence
<1>4. k > n + 1 => token = "]"
  <2>1. k > n + 1 => k \in (n + 2)..(n + 1 + n)
    BY <1>1
  <2> QED BY <2>1, NameSequence
<1>5. k <= n \/ k = n + 1 \/ k > n + 1
  BY <1>1
<1>6. ~ (k <= n /\ k = n + 1) /\ ~ (k <= n /\ k > n + 1) /\ ~ (k = n + 1 /\ k > n + 1)
  BY <1>1
<1> HIDE DEF n, token
<1>7. /\ token # " "
      /\ token \in Constructors <=> k <= n
      /\ token \in ScalarNames <=> k = n + 1
      /\ token = "]" <=> k > n + 1
  BY <1>2, <1>3, <1>4, <1>5, <1>6, TokenKinds
<1> QED BY <1>7 DEF n, token

-----------------------------------------------------------------------------
(* Words                                                                   *)

\* Behind a place there is one first word.
LEMMA WordBeginsOnce ==
  ASSUME NEW b \in Nat, NEW i \in Nat, NEW j \in Nat, WordBegins(b, i), WordBegins(b, j)
  PROVE  i = j
BY DEF WordBegins

LEMMA TypedEndsOnce ==
  ASSUME source \in Inputs, NEW b \in TypedEnds, NEW c \in TypedEnds
  PROVE  b = c
<1>1. CASE source.keyword = "typed"
  BY <1>1 DEF TypedEnds
<1>2. CASE source.keyword # "typed"
  <2>1. /\ b \in Nat /\ b >= 2 /\ WordBegins(0, b - 2)
        /\ c \in Nat /\ c >= 2 /\ WordBegins(0, c - 2)
    BY <1>2, TextSequence DEF TypedEnds
  <2>2. b - 2 = c - 2
    <3>1. b - 2 \in Nat /\ c - 2 \in Nat
      BY <2>1
    <3> HIDE DEF WordBegins
    <3> QED BY <2>1, <3>1, WordBeginsOnce
  <2> QED BY <2>1, <2>2
<1> QED BY <1>1, <1>2

LEMMA TypeBeginsOnce ==
  ASSUME source \in Inputs, NEW i \in TypeBegins, NEW j \in TypeBegins
  PROVE  i = j
<1>1. PICK b \in TypedEnds : WordBegins(b, i)
  BY DEF TypeBegins
<1>2. PICK c \in TypedEnds : WordBegins(c, j)
  BY DEF TypeBegins
<1>3. b = c /\ b \in Nat /\ i \in Nat /\ j \in Nat
  BY TypedEndsOnce, TextSequence DEF TypedEnds, TypeBegins
<1> QED BY <1>1, <1>2, <1>3, WordBeginsOnce

\* A type that is read where a word begins ends where the word ends.
LEMMA WordEndsOnce ==
  ASSUME NEW i \in Nat, NEW p \in Nat, i <= p, InWord(i, p), SpaceAt(p),
         NEW t \in Types, Reads(i, Name(t))
  PROVE  i + Len(Name(t)) = p
<1> DEFINE n == Len(Name(t))
<1>1. n \in Nat
  BY TypeFields, NameSequence
<1>2. SpaceAt(i + n) /\ \A k \in 1..n : Text[i + k] = Name(t)[k]
  BY DEF Reads
<1>3. ~ i + n < p
  BY <1>1, <1>2 DEF InWord
<1>4. ASSUME p < i + n PROVE FALSE
  <2>1. p - i + 1 \in 1..n /\ i + (p - i + 1) = p + 1
    BY <1>1, <1>4
  <2>2. Text[p + 1] = Name(t)[p - i + 1]
    BY <1>2, <2>1
  <2> QED BY <2>1, <2>2, NameKinds DEF SpaceAt
<1> QED BY <1>1, <1>3, <1>4

\* The reference cuts every name out of the text that can be read there.
LEMMA NameCutOut ==
  ASSUME source \in Inputs, NEW i \in TypeBegins, NEW t \in Types, Reads(i, Name(t))
  PROVE  t \in Named
<1> DEFINE n == Len(t.shape)
           j == i + n
<1>1. /\ n \in Nat /\ i \in Nat /\ End \in Nat
      /\ Len(Name(t)) = n + 1 + n
  BY TypeFields, NameSequence, TextSequence DEF TypeBegins
<1>2. /\ i + (n + 1 + n) < End
      /\ \A k \in 1..(n + 1 + n) : Text[i + k] = Name(t)[k]
  <2>1. /\ SpaceAt(i + Len(Name(t)))
        /\ \A k \in 1..Len(Name(t)) : Text[i + k] = Name(t)[k]
    BY DEF Reads
  <2>2. i + Len(Name(t)) < End
    BY <2>1 DEF SpaceAt
  <2> QED BY <1>1, <2>1, <2>2
<1>3. Text[j + 1] = t.name
  <2>1. n + 1 \in 1..(n + 1 + n) /\ i + (n + 1) = j + 1
    BY <1>1
  <2>2. Text[i + (n + 1)] = Name(t)[n + 1]
    BY <1>2, <2>1
  <2> QED BY <2>1, <2>2, NameSequence
<1>4. SubSeq(Text, i + 1, j) = t.shape
  <2>1. \A k \in (i + 1)..j : Text[k] \in Tokens
    BY <1>1, <1>2, TextSequence
  <2>2. /\ SubSeq(Text, i + 1, j) \in Seq(Tokens)
        /\ Len(SubSeq(Text, i + 1, j)) = n
        /\ \A k \in 1..n : SubSeq(Text, i + 1, j)[k] = Text[i + k]
    <3>1. /\ i + 1 \in Int /\ j \in Int
          /\ j - (i + 1) + 1 = n
          /\ \A k \in 1..n : (i + 1) + k - 1 = i + k
      BY <1>1
    <3>2. /\ SubSeq(Text, i + 1, j) \in Seq(Tokens)
          /\ Len(SubSeq(Text, i + 1, j)) = IF i + 1 <= j THEN j - (i + 1) + 1 ELSE 0
          /\ \A k \in 1..(j - (i + 1) + 1) : SubSeq(Text, i + 1, j)[k] = Text[(i + 1) + k - 1]
      BY <2>1, <3>1, SubSeqProperties
    <3> QED BY <1>1, <3>1, <3>2
  <2>3. t.shape \in Seq(Tokens)
    BY TypeFields, SeqMonotonic DEF Tokens
  <2>4. \A k \in 1..n : SubSeq(Text, i + 1, j)[k] = t.shape[k]
    <3> SUFFICES ASSUME NEW k \in 1..n
                 PROVE  Text[i + k] = t.shape[k]
      BY <2>2
    <3>1. k \in 1..(n + 1 + n)
      BY <1>1
    <3> QED BY <1>2, <3>1, NameSequence
  <2> QED BY <2>2, <2>3, <2>4, SeqEqual
<1>5. t = Type(t.shape, t.name)
  BY DEF Types, Type
<1>6. j \in i..(End - 1)
  BY <1>1, <1>2
<1>7. t \in TypesAt(i)
  BY <1>3, <1>4, <1>5, <1>6 DEF TypesAt
<1> QED BY <1>7 DEF Named

\* If the reference finds a name, it is read where the word begins.
LEMMA NamedHere ==
  ASSUME source \in Inputs, NEW i \in TypeBegins, NEW t \in Named
  PROVE  t \in Types /\ Reads(i, Name(t))
<1>1. t \in Types
  BY DEF Named, TypesAt
<1>2. PICK j \in TypeBegins : Reads(j, Name(t))
  BY DEF Named
<1>3. i = j
  BY TypeBeginsOnce
<1> QED BY <1>1, <1>2, <1>3

-----------------------------------------------------------------------------
(* The lexer, and what the steps leave alone                               *)

LEMMA LexerFields ==
  ASSUME TypeOK
  PROVE  /\ End \in Nat
         /\ lex.ptr \in 0..End /\ lex.end \in 0..End
         /\ s \in Nat /\ lex.ptr + s <= lex.end
         /\ str \in 0..lex.ptr
         /\ \A i \in 1..End : Text[i] \in Tokens
BY TextSequence DEF TypeOK, Lexers

LEMMA ReadSpaceLeaves ==
  ASSUME End \in Nat, NEW l \in Lexers, NEW r \in ReadSpace(l)
  PROVE  /\ r \in Lexers
         /\ r.ptr \in 0..End /\ r.end \in 0..End /\ r.ptr <= r.end
         /\ WordBegins(l.ptr, r.ptr) /\ l.ptr <= r.ptr
<1>1. /\ r \in Lexers
      /\ WordBegins(l.ptr, r.ptr)
      /\ IF r.ptr < l.end THEN r.end = l.end
         ELSE r.ptr < r.end \/ (r.ptr = End /\ r.end = End)
  BY DEF ReadSpace
<1>2. r.ptr \in 0..End /\ r.end \in 0..End
  BY <1>1 DEF Lexers
<1>3. l.ptr <= r.ptr
  BY <1>1 DEF WordBegins
<1> QED BY <1>1, <1>2, <1>3

LEMMA ReadToLeaves ==
  ASSUME End \in Nat, NEW l \in Lexers, NEW n \in Nat, l.ptr + n <= l.end
  PROVE  /\ ReadTo(l, n) \in Lexers
         /\ ReadTo(l, n).ptr = l.ptr + n
         /\ ReadTo(l, n).end = l.end
BY DEF ReadTo, Lexers

LEMMA NextChunkLeaves ==
  ASSUME End \in Nat, NEW l \in Lexers, NEW r \in NextChunk(l)
  PROVE  /\ r \in Lexers
         /\ r.ptr = l.ptr /\ r.end > l.end
BY DEF NextChunk, Lexers

\* The source stays, and what is defined by it.
LEMMA SourceKept ==
  ASSUME UNCHANGED source
  PROVE  /\ UNCHANGED <<Text, End, Lexers, TypedEnds, TypeBegins, Named, Wanted>>
         /\ \A i : SpaceAt(i)' <=> SpaceAt(i)
         /\ \A i, j : InWord(i, j)' <=> InWord(i, j)
         /\ \A i, j : WordBegins(i, j)' <=> WordBegins(i, j)
         /\ \A i, word : Reads(i, word)' <=> Reads(i, word)
<1>1. UNCHANGED <<Text, End, Lexers>>
  BY DEF Text, End, Lexers
<1>2. \A i : SpaceAt(i)' <=> SpaceAt(i)
  BY <1>1 DEF SpaceAt
<1>3. \A i, j : InWord(i, j)' <=> InWord(i, j)
  BY <1>2 DEF InWord
<1>4. \A i, j : WordBegins(i, j)' <=> WordBegins(i, j)
  BY <1>2 DEF WordBegins
<1>5. \A i, word : Reads(i, word)' <=> Reads(i, word)
  BY <1>1, <1>2 DEF Reads
<1>6. UNCHANGED TypedEnds
  BY <1>1, <1>4, <1>5 DEF TypedEnds
<1>7. UNCHANGED TypeBegins
  BY <1>1, <1>2, <1>4, <1>6 DEF TypeBegins
<1>8. \A i : TypesAt(i)' = TypesAt(i)
  BY <1>1 DEF TypesAt
<1>9. UNCHANGED Named
  BY <1>5, <1>7, <1>8 DEF Named
<1>10. UNCHANGED Wanted
  BY <1>6 DEF Wanted
<1> QED BY <1>1, <1>2, <1>3, <1>4, <1>5, <1>6, <1>7, <1>9, <1>10

\* A step inside the hook has nothing to answer for yet.
LEMMA GoingOnKeeps ==
  ASSUME TypeOK', HookStage', ScanStage', ParseStage', pc' # "done"
  PROVE  IInv'
<1>1. outcome' = "none"
  BY DEF TypeOK
<1> QED BY <1>1 DEF IInv, ReadsAsWritten, LeftAsFound

\* The last step has nothing left to say of the hook.
LEMMA EndingKeeps ==
  ASSUME TypeOK', ReadsAsWritten', LeftAsFound', pc' = "done",
         s' = 0, width' = 0, open' = <<>>
  PROVE  IInv'
BY DEF IInv, HookStage, ScanStage, ParseStage, Scanning

\* It croaks where the reference finds no name ...
LEMMA CroakKeeps ==
  ASSUME TypeOK', Wanted', Named' = {}, pc' = "done", outcome' = "croak",
         s' = 0, width' = 0, open' = <<>>
  PROVE  IInv'
BY EndingKeeps DEF ReadsAsWritten, LeftAsFound

\* ... and declines where it is not asked for.
LEMMA DeclineKeeps ==
  ASSUME TypeOK', ~ Wanted', pc' = "done", outcome' \in {"declined", "next"},
         s' = 0, width' = 0, open' = <<>>,
         lex'.ptr = 0 \/ (source'.keyword = "for" /\ WordBegins(0, lex.ptr)')
  PROVE  IInv'
BY EndingKeeps DEF ReadsAsWritten, LeftAsFound
-----------------------------------------------------------------------------
(* The hook, step by step                                                  *)

LEMMA InitKeyword == Init => IInv
<1> SUFFICES ASSUME Init PROVE IInv
  OBVIOUS
<1>1. source \in Inputs
  BY SourcesAssumption DEF Init
<1>2. /\ s = 0 /\ width = 0 /\ pc = "dispatch" /\ outcome = "none" /\ str = 0
      /\ open = <<>> /\ open \in Seq(Constructors) /\ type = NoType
  BY EmptySeq DEF Init
<1>3. lex \in Lexers /\ lex.ptr = 0 /\ lex.end \in Nat
  <2>1. PICK e \in 0..End : lex = [ptr |-> 0, end |-> e]
    BY DEF Init
  <2> QED BY <1>1, <2>1, TextSequence DEF Lexers
<1>4. TypeOK
  <2>1. lex.ptr + s <= lex.end /\ str \in 0..lex.ptr /\ s \in Nat /\ width \in Nat
    BY <1>2, <1>3
  <2> QED BY <1>1, <1>2, <1>3, <2>1 DEF TypeOK
<1>5. HookStage /\ ScanStage /\ ParseStage
  BY <1>2, <1>3 DEF HookStage, ScanStage, ParseStage, Scanning
<1> QED BY <1>2, <1>4, <1>5 DEF IInv, ReadsAsWritten, LeftAsFound

LEMMA DispatchKeeps ==
  ASSUME IInv, Dispatch
  PROVE  IInv'
<1>1. TypeOK /\ HookStage /\ pc = "dispatch" /\ outcome = "none"
      /\ UNCHANGED <<source, lex, s, width, str, open, type>>
  BY DEF IInv, TypeOK, Dispatch, parsing
<1>2. s = 0 /\ width = 0 /\ lex.ptr = 0 /\ open = <<>>
  BY <1>1 DEF HookStage, Scanning
<1>3. \/ source.hint = "absent" /\ pc' = "done" /\ outcome' = "declined"
      \/ /\ source.hint # "absent" /\ source.keyword = "typed"
         /\ pc' = "type" /\ outcome' = "none"
      \/ /\ source.hint # "absent" /\ source.keyword = "for"
         /\ pc' = "keyword" /\ outcome' = "none"
      \/ source.keyword = "while" /\ pc' = "done" /\ outcome' = "next"
  BY <1>1 DEF Dispatch, Ending, GoingOn, TypeOK, Inputs
<1>4. TypeOK'
  BY <1>1, <1>3, SourceKept DEF TypeOK
<1>5. CASE pc' = "done"
  <2>1. ~ Wanted'
    <3>1. source.hint = "absent" \/ source.keyword = "while"
      BY <1>3, <1>5
    <3>2. source.keyword = "while" => TypedEnds = {}
      BY DEF TypedEnds
    <3> QED BY <1>1, <3>1, <3>2, SourceKept DEF Wanted
  <2> QED BY <1>1, <1>2, <1>3, <1>4, <1>5, <2>1, DeclineKeeps
<1>6. CASE pc' # "done"
  <2>1. source.keyword = "typed" => 0 \in TypedEnds
    <3>1. 0 \in 0..End
      BY <1>1, LexerFields
    <3> QED BY <3>1 DEF TypedEnds
  <2>2. pc' = "type" => lex'.ptr \in TypedEnds'
    BY <1>1, <1>2, <1>3, <2>1, SourceKept
  <2>3. HookStage' /\ ScanStage' /\ ParseStage'
    BY <1>1, <1>2, <1>3, <1>6, <2>2 DEF HookStage, ScanStage, ParseStage, Scanning
  <2> QED BY <1>4, <1>6, <2>3, GoingOnKeeps
<1> QED BY <1>5, <1>6

LEMMA ParseTypedKeywordKeeps ==
  ASSUME IInv, ParseTypedKeyword
  PROVE  IInv'
<1>1. TypeOK /\ HookStage /\ pc = "keyword" /\ outcome = "none"
      /\ UNCHANGED <<source, s, width, str, open, type>>
      /\ lex' \in ReadSpace(lex)
  BY DEF IInv, TypeOK, ParseTypedKeyword, parsing
<1>2. /\ s = 0 /\ width = 0 /\ lex.ptr = 0 /\ open = <<>>
      /\ source.keyword = "for" /\ source.hint # "absent"
  BY <1>1 DEF HookStage, Scanning
<1>3. IF lex'.ptr = End THEN pc' = "done" /\ outcome' = "next"
      ELSE pc' = "peek" /\ outcome' = "none"
  BY <1>1, SourceKept DEF ParseTypedKeyword, Ending, GoingOn, AtEnd
<1>4. /\ lex' \in Lexers /\ lex'.ptr \in 0..End /\ lex'.end \in 0..End /\ lex'.ptr <= lex'.end
      /\ WordBegins(0, lex'.ptr) /\ End \in Nat
      /\ str \in 0..lex.ptr
  BY <1>1, <1>2, LexerFields, ReadSpaceLeaves DEF TypeOK
<1>5. TypeOK'
  <2>1. lex'.ptr + s' <= lex'.end /\ str' \in 0..lex'.ptr /\ lex' \in Lexers'
    BY <1>1, <1>2, <1>4, SourceKept
  <2> QED BY <1>1, <1>3, <2>1 DEF TypeOK
<1>6. WordBegins(0, lex.ptr)'
  BY <1>1, <1>4, SourceKept DEF WordBegins
<1>7. CASE lex'.ptr = End
  <2>1. TypedEnds = {}
    <3> SUFFICES ASSUME NEW b \in TypedEnds PROVE FALSE
      OBVIOUS
    <3>1. b \in 0..End /\ b >= 2 /\ WordBegins(0, b - 2)
      BY <1>2 DEF TypedEnds
    <3>2. b - 2 \in Nat /\ End \in Nat /\ WordBegins(0, End)
      BY <1>4, <1>7, <3>1
    <3>3. b - 2 = End
      BY <3>1, <3>2, WordBeginsOnce
    <3> QED BY <1>4, <3>1, <3>3
  <2>2. ~ Wanted'
    BY <1>1, <2>1, SourceKept DEF Wanted
  <2> QED BY <1>1, <1>2, <1>3, <1>5, <1>6, <1>7, <2>2, DeclineKeeps
<1>8. CASE lex'.ptr # End
  <2>1. ScanStage'
    <3>1. lex'.ptr < End'
      BY <1>1, <1>4, <1>8, SourceKept
    <3>2. InWord(lex.ptr, lex.ptr + s)'
      BY <1>1, <1>2, <1>4 DEF InWord
    <3> QED BY <1>1, <1>2, <1>3, <1>6, <1>8, <3>1, <3>2 DEF ScanStage, Scanning
  <2>2. HookStage' /\ ParseStage'
    BY <1>1, <1>2, <1>3, <1>8 DEF HookStage, ParseStage, Scanning
  <2> QED BY <1>3, <1>5, <1>8, <2>1, <2>2, GoingOnKeeps
<1> QED BY <1>7, <1>8

LEMMA ParseTypeBeginsKeeps ==
  ASSUME IInv, ParseTypeBegins
  PROVE  IInv'
<1>1. TypeOK /\ HookStage /\ pc = "type" /\ outcome = "none"
      /\ UNCHANGED <<source, s, width, str, open, type>>
  BY DEF IInv, TypeOK, ParseTypeBegins, parsing
<1>2. /\ s = 0 /\ width = 0 /\ open = <<>>
      /\ lex.ptr \in TypedEnds /\ source.hint # "absent"
  BY <1>1 DEF HookStage, Scanning
<1>3. Wanted'
  BY <1>1, <1>2, SourceKept DEF Wanted
<1>4. CASE ~ SpaceAt(lex.ptr)
  <2>1. lex' = lex /\ pc' = "done" /\ outcome' = "croak"
    BY <1>4 DEF ParseTypeBegins, Ending
  <2>2. TypeOK'
    BY <1>1, <2>1, SourceKept DEF TypeOK
  <2>3. TypeBegins = {}
    BY <1>1, <1>2, <1>4, TypedEndsOnce DEF TypeBegins, TypeOK
  <2>4. Named' = {}
    BY <1>1, <2>3, SourceKept DEF Named
  <2> QED BY <1>1, <1>2, <1>3, <2>1, <2>2, <2>4, CroakKeeps
<1>5. CASE SpaceAt(lex.ptr)
  <2>1. lex' \in ReadSpace(lex)
    BY <1>5 DEF ParseTypeBegins
  <2>2. IF lex'.ptr = End THEN pc' = "done" /\ outcome' = "croak"
        ELSE pc' = "lex" /\ outcome' = "none"
    BY <1>1, <1>5, SourceKept DEF ParseTypeBegins, Ending, GoingOn, AtEnd
  <2>3. /\ lex' \in Lexers /\ lex'.ptr \in 0..End /\ lex'.end \in 0..End /\ lex'.ptr <= lex'.end
        /\ WordBegins(lex.ptr, lex'.ptr) /\ lex.ptr <= lex'.ptr
        /\ lex.ptr \in 0..End /\ End \in Nat
        /\ str \in 0..lex.ptr
    BY <1>1, <2>1, LexerFields, ReadSpaceLeaves DEF TypeOK
  <2>4. TypeOK'
    <3>1. lex'.ptr + s' <= lex'.end /\ str' \in 0..lex'.ptr /\ lex' \in Lexers'
      BY <1>1, <1>2, <2>3, SourceKept
    <3> QED BY <1>1, <2>2, <3>1 DEF TypeOK
  <2>5. lex'.ptr \in TypeBegins
    BY <1>2, <1>5, <2>3 DEF TypeBegins
  <2>6. CASE lex'.ptr = End
    <3>1. Named = {}
      <4> SUFFICES ASSUME NEW t \in Named PROVE FALSE
        OBVIOUS
      <4>1. t \in Types /\ Reads(End, Name(t))
        BY <1>1, <2>5, <2>6, NamedHere DEF TypeOK
      <4>2. SpaceAt(End + Len(Name(t))) /\ Len(Name(t)) \in Nat
        BY <4>1, TypeFields, NameSequence DEF Reads
      <4>3. End + Len(Name(t)) < End
        BY <4>2 DEF SpaceAt
      <4>4. End \in Nat
        BY <2>3
      <4> QED BY <4>2, <4>3, <4>4
    <3>2. Named' = {}
      BY <1>1, <3>1, SourceKept
    <3> QED BY <1>1, <1>2, <1>3, <2>2, <2>4, <2>6, <3>2, CroakKeeps
  <2>7. CASE lex'.ptr # End
    <3>1. ScanStage'
      <4>1. lex'.ptr < End'
        BY <1>1, <2>3, <2>7, SourceKept
      <4>3. InWord(lex.ptr, lex.ptr + s)'
        BY <1>1, <1>2, <2>3 DEF InWord
      <4>2. lex'.ptr \in TypeBegins'
        BY <1>1, <2>5, SourceKept
      <4> QED BY <1>1, <1>2, <2>2, <2>7, <4>1, <4>2, <4>3 DEF ScanStage, Scanning
    <3>2. HookStage' /\ ParseStage'
      BY <1>1, <1>2, <2>2, <2>7 DEF HookStage, ParseStage, Scanning
    <3> QED BY <2>2, <2>4, <2>7, <3>1, <3>2, GoingOnKeeps
  <2> QED BY <2>6, <2>7
<1> QED BY <1>4, <1>5

\* Where the first word behind "for" begins, "typed" is read or nowhere.
LEMMA TypedHere ==
  ASSUME source \in Inputs, source.keyword = "for", NEW p \in Nat, WordBegins(0, p)
  PROVE  /\ TypedEnds # {} => /\ Text[p + 1] = "ty" /\ Text[p + 2] = "ped"
                              /\ SpaceAt(p + 2)
         /\ Text[p + 1] = "ty" /\ Text[p + 2] = "ped" /\ SpaceAt(p + 2) => p + 2 \in TypedEnds
<1> DEFINE word == <<"ty", "ped">>
<1>1. Len(word) = 2 /\ word[1] = "ty" /\ word[2] = "ped"
  OBVIOUS
<1>2. Reads(p, word) <=> Text[p + 1] = "ty" /\ Text[p + 2] = "ped" /\ SpaceAt(p + 2)
  <2>1. Reads(p, word) <=> /\ SpaceAt(p + 2)
                           /\ \A k \in 1..2 : Text[p + k] = word[k]
    BY <1>1 DEF Reads
  <2>2. (\A k \in 1..2 : Text[p + k] = word[k]) <=> Text[p + 1] = "ty" /\ Text[p + 2] = "ped"
    <3>1. \A k : k \in 1..2 <=> k = 1 \/ k = 2
      OBVIOUS
    <3> HIDE DEF word
    <3> QED BY <1>1, <3>1
  <2> QED BY <2>1, <2>2
<1>3. TypedEnds # {} => Reads(p, word)
  <2> SUFFICES ASSUME NEW b \in TypedEnds PROVE Reads(p, word)
    OBVIOUS
  <2>1. b \in Nat /\ b >= 2 /\ WordBegins(0, b - 2) /\ Reads(b - 2, word)
    BY TextSequence DEF TypedEnds
  <2>2. b - 2 \in Nat
    BY <2>1
  <2>3. b - 2 = p
    BY <2>1, <2>2, WordBeginsOnce
  <2> QED BY <2>1, <2>3
<1>4. Reads(p, word) /\ SpaceAt(p + 2) => p + 2 \in TypedEnds
  <2> SUFFICES ASSUME Reads(p, word), SpaceAt(p + 2) PROVE p + 2 \in TypedEnds
    OBVIOUS
  <2>1. p + 2 \in 0..End /\ p + 2 >= 2 /\ (p + 2) - 2 = p
    <3>1. End \in Nat
      BY TextSequence
    <3>2. p + 2 < End
      BY DEF SpaceAt
    <3> QED BY <3>1, <3>2
  <2> HIDE DEF word
  <2>2. WordBegins(0, (p + 2) - 2) /\ Reads((p + 2) - 2, word)
    BY <2>1
  <2> QED BY <2>1, <2>2 DEF TypedEnds, word
<1> QED BY <1>2, <1>3, <1>4

LEMMA Widths ==
  /\ \A token \in Tokens : Width(token) \in Nat
  /\ Width("ty") = 2 /\ Width("ped") = 3
BY DEF Tokens, ScalarNames, Constructors, Width

\* What a scan stands at
LEMMA ScanFields ==
  ASSUME IInv, Scanning
  PROVE  /\ TypeOK /\ HookStage /\ ScanStage /\ source \in Inputs
         /\ outcome = "none" /\ open = <<>> /\ type = NoType /\ source.hint # "absent"
         /\ End \in Nat /\ lex.ptr \in Nat /\ lex.end \in Nat /\ s \in Nat /\ width \in Nat
         /\ lex.ptr < End /\ lex.end <= End /\ lex.ptr + s <= lex.end
         /\ str \in 0..lex.ptr
         /\ InWord(lex.ptr, lex.ptr + s)
         /\ Token \in Tokens \/ ~ InBuffer
         /\ InBuffer => (SpaceAt(lex.ptr + s) <=> Token = " ")
<1>1. TypeOK /\ HookStage /\ ScanStage
  BY DEF IInv
<1>2. /\ End \in Nat /\ lex.ptr \in Nat /\ lex.end \in Nat /\ s \in Nat /\ width \in Nat
      /\ lex.end <= End /\ lex.ptr + s <= lex.end /\ str \in 0..lex.ptr
      /\ \A i \in 1..End : Text[i] \in Tokens
  BY <1>1, LexerFields DEF TypeOK
<1>3. /\ source \in Inputs /\ outcome = "none" /\ open = <<>> /\ type = NoType
      /\ source.hint # "absent" /\ lex.ptr < End /\ InWord(lex.ptr, lex.ptr + s)
  BY <1>1 DEF TypeOK, HookStage, ScanStage, Scanning
<1>4. Token \in Tokens \/ ~ InBuffer
  BY <1>2 DEF Token, InBuffer
<1>5. InBuffer => (SpaceAt(lex.ptr + s) <=> Token = " ")
  <2>1. InBuffer => lex.ptr + s < End
    BY <1>2 DEF InBuffer
  <2> QED BY <2>1 DEF Token, SpaceAt
<1> QED BY <1>1, <1>2, <1>3, <1>4, <1>5

LEMMA ScanWordKeeps ==
  ASSUME IInv, ScanWord
  PROVE  IInv'
<1>1. /\ Scanning /\ InBuffer /\ Token # " "
      /\ UNCHANGED <<source, lex, str, open, type>>
  BY DEF ScanWord, parsing
<1>2. /\ TypeOK /\ HookStage /\ ScanStage /\ source \in Inputs
      /\ outcome = "none" /\ open = <<>> /\ type = NoType /\ source.hint # "absent"
      /\ End \in Nat /\ lex.ptr \in Nat /\ lex.end \in Nat /\ s \in Nat /\ width \in Nat
      /\ lex.ptr < End /\ lex.end <= End /\ lex.ptr + s < lex.end
      /\ InWord(lex.ptr, lex.ptr + s)
      /\ Token \in Tokens /\ ~ SpaceAt(lex.ptr + s)
  BY <1>1, ScanFields DEF InBuffer
<1>3. CASE TooLong
  <2>1. /\ pc' = "done" /\ outcome' = "next" /\ s' = 0 /\ width' = 0
        /\ pc = "peek" /\ width + Width(Token) > 6
    BY <1>3 DEF ScanWord, TooLong, Ending
  <2>2. TypeOK'
    <3>1. lex.ptr + 0 <= lex.end
      BY <1>2
    <3> QED BY <1>1, <1>2, <2>1, <3>1, SourceKept DEF TypeOK
  <2>3. source.keyword = "for" /\ WordBegins(0, lex.ptr)
    BY <1>2, <2>1 DEF ScanStage
  <2>4. TypedEnds = {}
    <3> SUFFICES ASSUME TypedEnds # {} PROVE FALSE
      OBVIOUS
    <3>1. Text[lex.ptr + 1] = "ty" /\ Text[lex.ptr + 2] = "ped" /\ SpaceAt(lex.ptr + 2)
      BY <1>2, <2>3, TypedHere
    <3>2. s # 0
      <4> SUFFICES ASSUME s = 0 PROVE FALSE
        OBVIOUS
      <4>1. width = 0 /\ Token = "ty"
        BY <1>2, <2>1, <3>1 DEF ScanStage, Token
      <4> QED BY <2>1, <4>1, Widths
    <3>3. s # 1
      <4> SUFFICES ASSUME s = 1 PROVE FALSE
        OBVIOUS
      <4>1. width = Width("ty") /\ Token = "ped"
        BY <1>2, <2>1, <3>1 DEF ScanStage, Token
      <4> QED BY <2>1, <4>1, Widths
    <3>4. s # 2
      BY <1>2, <3>1
    <3>5. ~ s > 2
      BY <1>2, <3>1 DEF InWord
    <3> QED BY <1>2, <3>2, <3>3, <3>4, <3>5
  <2>5. ~ Wanted' /\ source'.keyword = "for" /\ WordBegins(0, lex.ptr)'
    BY <1>1, <2>3, <2>4, SourceKept DEF Wanted, WordBegins
  <2> QED BY <1>1, <1>2, <2>1, <2>2, <2>5, DeclineKeeps
<1>4. CASE ~ TooLong
  <2>1. /\ pc' = pc /\ outcome' = "none"
        /\ s' = s + 1 /\ width' = width + Width(Token)
    BY <1>2, <1>4 DEF ScanWord, GoingOn
  <2>2. TypeOK'
    <3>1. lex.ptr + (s + 1) <= lex.end /\ s + 1 \in Nat
      BY <1>2
    <3>2. width + Width(Token) \in Nat
      BY <1>2, Widths
    <3> QED BY <1>1, <1>2, <2>1, <3>1, <3>2, SourceKept DEF TypeOK
  <2>3. ScanStage'
    <3>1. InWord(lex.ptr, lex.ptr + s)'
      <4>1. \A k \in lex.ptr..((lex.ptr + (s + 1)) - 1) : ~ SpaceAt(k)
        BY <1>2 DEF InWord
      <4>2. lex'.ptr = lex.ptr /\ s' = s + 1
        BY <1>1, <2>1
      <4>3. \A k : SpaceAt(k)' <=> SpaceAt(k)
        BY <1>1, SourceKept
      <4>4. \A k \in lex'.ptr..((lex'.ptr + s') - 1) : ~ SpaceAt(k)'
        BY <4>1, <4>2, <4>3
      <4> QED BY <4>4 DEF InWord
    <3>2. pc = "peek" => source'.keyword = "for" /\ WordBegins(0, lex.ptr)'
      BY <1>1, <1>2, SourceKept DEF ScanStage, WordBegins
    <3>3. s' # 0
      BY <1>2, <2>1
    <3>4. pc = "peek" /\ s' = 1 => width' = Width(Text[lex.ptr + 1])'
      <4> SUFFICES ASSUME pc = "peek", s' = 1 PROVE width' = Width(Text[lex.ptr + 1])
        BY <1>1, SourceKept DEF Width
      <4>1. s = 0 /\ lex.ptr + s + 1 = lex.ptr + 1
        BY <1>2, <2>1
      <4>2. width = 0 /\ Token = Text[lex.ptr + 1]
        BY <1>2, <4>1 DEF ScanStage, Token
      <4> QED BY <1>2, <2>1, <4>2, Widths
    <3>5. pc = "lex" => lex'.ptr \in TypeBegins'
      BY <1>1, <1>2, SourceKept DEF ScanStage
    <3>6. lex'.ptr < End'
      BY <1>1, <1>2, SourceKept
    <3> QED BY <2>1, <3>1, <3>2, <3>3, <3>4, <3>5, <3>6 DEF ScanStage
  <2>4. HookStage' /\ ParseStage'
    BY <1>1, <1>2, <2>1 DEF HookStage, ParseStage, Scanning
  <2> QED BY <1>1, <2>1, <2>2, <2>3, <2>4, GoingOnKeeps DEF Scanning
<1> QED BY <1>3, <1>4

LEMMA ScanChunkKeeps ==
  ASSUME IInv, ScanChunk
  PROVE  IInv'
<1>1. /\ Scanning /\ ~ InBuffer /\ lex' \in NextChunk(lex)
      /\ UNCHANGED <<source, s, width, pc, str, open, type, outcome>>
  BY DEF ScanChunk, parsing
<1>2. /\ TypeOK /\ HookStage /\ ScanStage
      /\ outcome = "none" /\ End \in Nat
      /\ lex.ptr \in Nat /\ lex.end \in Nat /\ s \in Nat /\ lex.ptr + s <= lex.end
  BY <1>1, ScanFields
<1>3. lex' \in Lexers /\ lex'.ptr = lex.ptr /\ lex'.end > lex.end
  BY <1>1, <1>2, NextChunkLeaves DEF TypeOK
<1>4. TypeOK'
  <2>1. lex'.ptr + s' <= lex'.end /\ lex' \in Lexers'
    <3>1. lex'.end \in Nat
      BY <1>2, <1>3 DEF Lexers
    <3> QED BY <1>1, <1>2, <1>3, <3>1, SourceKept
  <2> QED BY <1>1, <1>2, <1>3, <2>1 DEF TypeOK
<1>5. HookStage'
  BY <1>1, <1>2, <1>3 DEF HookStage, Scanning
<1>6. ScanStage'
  <2>1. /\ Text' = Text /\ End' = End /\ TypeBegins' = TypeBegins
        /\ InWord(lex.ptr, lex.ptr + s)' <=> InWord(lex.ptr, lex.ptr + s)
        /\ WordBegins(0, lex.ptr)' <=> WordBegins(0, lex.ptr)
    BY <1>1, <1>3, SourceKept DEF InWord, WordBegins
  <2>2. Width(Text[lex.ptr + 1])' = Width(Text[lex.ptr + 1])
    BY <1>3, <2>1 DEF Width
  <2> QED BY <1>1, <1>2, <1>3, <2>1, <2>2 DEF ScanStage, Scanning
<1>7. ParseStage' /\ pc' # "done"
  BY <1>1 DEF ParseStage, Scanning
<1> QED BY <1>4, <1>5, <1>6, <1>7, GoingOnKeeps

\* A scan that is over has read ahead of a space or to the end of the text.
LEMMA PeekEndsKeeps ==
  ASSUME IInv, PeekEnds
  PROVE  IInv'
<1>1. /\ Scanning /\ pc = "peek" /\ InBuffer /\ Token = " "
      /\ UNCHANGED <<source, str, open, type>>
      /\ s' = 0 /\ width' = 0
  BY DEF PeekEnds, Scanning, parsing
<1>2. /\ TypeOK /\ HookStage /\ ScanStage /\ source \in Inputs
      /\ outcome = "none" /\ open = <<>> /\ type = NoType /\ source.hint # "absent"
      /\ End \in Nat /\ lex.ptr \in Nat /\ lex.end \in Nat /\ s \in Nat
      /\ lex.end <= End /\ lex.ptr + s <= lex.end /\ str \in 0..lex.ptr
      /\ InWord(lex.ptr, lex.ptr + s) /\ SpaceAt(lex.ptr + s)
  BY <1>1, ScanFields
<1>3. lex \in Lexers /\ source.keyword = "for" /\ WordBegins(0, lex.ptr)
  BY <1>1, <1>2 DEF TypeOK, ScanStage
<1>4. CASE IsTyped
  <2>1. /\ lex' = ReadTo(lex, s) /\ pc' = "type" /\ outcome' = "none"
        /\ s = 2 /\ Text[lex.ptr + 1] = "ty" /\ Text[lex.ptr + 2] = "ped"
    BY <1>2, <1>4 DEF PeekEnds, GoingOn, IsTyped
  <2>2. lex' \in Lexers /\ lex'.ptr = lex.ptr + s /\ lex'.end = lex.end
    BY <1>2, <1>3, <2>1, ReadToLeaves
  <2>3. TypeOK'
    <3>1. lex'.ptr + 0 <= lex'.end /\ str \in 0..lex'.ptr
      BY <1>2, <2>2
    <3> QED BY <1>1, <1>2, <2>1, <2>2, <3>1, SourceKept DEF TypeOK
  <2>4. lex'.ptr \in TypedEnds'
    BY <1>1, <1>2, <1>3, <2>1, <2>2, TypedHere, SourceKept
  <2>5. HookStage' /\ ScanStage' /\ ParseStage'
    BY <1>1, <1>2, <2>1, <2>4 DEF HookStage, ScanStage, ParseStage, Scanning
  <2> QED BY <2>1, <2>3, <2>5, GoingOnKeeps
<1>5. CASE ~ IsTyped
  <2>1. lex' = lex /\ pc' = "done" /\ outcome' = "next"
    BY <1>5 DEF PeekEnds, Ending
  <2>2. TypeOK'
    <3>1. lex.ptr + 0 <= lex.end
      BY <1>2
    <3> QED BY <1>1, <1>2, <1>3, <2>1, <3>1, SourceKept DEF TypeOK
  <2>3. TypedEnds = {}
    <3> SUFFICES ASSUME TypedEnds # {} PROVE FALSE
      OBVIOUS
    <3>1. Text[lex.ptr + 1] = "ty" /\ Text[lex.ptr + 2] = "ped" /\ SpaceAt(lex.ptr + 2)
      BY <1>2, <1>3, TypedHere
    <3>2. s # 0 /\ s # 1
      <4>1. s = 0 => Token = "ty"
        BY <1>2, <3>1 DEF Token
      <4>2. s = 1 => Token = "ped"
        BY <1>2, <3>1 DEF Token
      <4> QED BY <1>1, <4>1, <4>2
    <3>3. s # 2
      BY <1>5, <3>1 DEF IsTyped
    <3>4. ~ s > 2
      BY <1>2, <3>1 DEF InWord
    <3> QED BY <1>2, <3>2, <3>3, <3>4
  <2>4. ~ Wanted' /\ source'.keyword = "for" /\ WordBegins(0, lex.ptr)'
    BY <1>1, <1>3, <2>1, <2>3, SourceKept DEF Wanted, WordBegins
  <2> QED BY <1>1, <1>2, <2>1, <2>2, <2>4, DeclineKeeps
<1> QED BY <1>4, <1>5

LEMMA LexEndsKeeps ==
  ASSUME IInv, LexEnds
  PROVE  IInv'
<1>1. /\ Scanning /\ pc = "lex" /\ InBuffer /\ Token = " "
      /\ UNCHANGED <<source, open, type, outcome>>
      /\ lex' = ReadTo(lex, s) /\ str' = lex.ptr /\ pc' = "part"
      /\ s' = 0 /\ width' = 0
  BY DEF LexEnds, Scanning, GoingOn
<1>2. /\ TypeOK /\ HookStage /\ ScanStage /\ source \in Inputs
      /\ outcome = "none" /\ open = <<>> /\ type = NoType /\ source.hint # "absent"
      /\ End \in Nat /\ lex.ptr \in Nat /\ lex.end \in Nat /\ s \in Nat
      /\ lex.end <= End /\ lex.ptr + s <= lex.end
      /\ InWord(lex.ptr, lex.ptr + s) /\ SpaceAt(lex.ptr + s)
  BY <1>1, ScanFields
<1>3. lex \in Lexers /\ lex.ptr \in TypeBegins
  BY <1>1, <1>2 DEF TypeOK, ScanStage
<1>4. lex' \in Lexers /\ lex'.ptr = lex.ptr + s /\ lex'.end = lex.end
  BY <1>1, <1>2, <1>3, ReadToLeaves
<1>5. TypeOK'
  <2>1. lex'.ptr + 0 <= lex'.end /\ lex.ptr \in 0..lex'.ptr
    BY <1>2, <1>4
  <2> QED BY <1>1, <1>2, <1>4, <2>1, SourceKept DEF TypeOK
<1>6. ParseStage'
  <2>1. PICK i : i = lex.ptr
    OBVIOUS
  <2>2. /\ i \in TypeBegins' /\ i \in Nat /\ i <= lex'.ptr
        /\ InWord(i, lex'.ptr) /\ SpaceAt(lex'.ptr)
        /\ Text' = Text /\ End' = End
    <3>1. i \in Nat /\ i <= lex'.ptr
      BY <1>2, <1>4, <2>1
    <3>2. InWord(i, lex'.ptr) /\ SpaceAt(lex'.ptr)
      BY <1>2, <1>4, <2>1
    <3>3. i \in TypeBegins' /\ Text' = Text /\ End' = End
      BY <1>1, <1>3, <2>1, SourceKept
    <3> QED BY <3>1, <3>2, <3>3
  <2>3. InWord(i, lex.ptr)' /\ SpaceAt(lex.ptr)'
    BY <2>2 DEF InWord, SpaceAt
  <2>4. Descending(i)'
    <3>1. Len(open') = 0
      BY <1>1, <1>2, EmptySeq
    <3>2. str' = i + Len(open')
      <4>1. i \in Nat /\ str' = i
        BY <1>1, <2>1, <2>2
      <4> QED BY <3>1, <4>1
    <3>3. \A k \in 1..Len(open') : FALSE
      BY <3>1
    <3> QED BY <3>2, <3>3 DEF Descending
  <2> QED BY <1>1, <2>2, <2>3, <2>4 DEF ParseStage
<1>7. HookStage' /\ ScanStage' /\ pc' # "done"
  BY <1>1, <1>2 DEF HookStage, ScanStage, Scanning
<1> QED BY <1>5, <1>6, <1>7, GoingOnKeeps

\* No name is read where the word behind "typed" begins.
LEMMA NoName ==
  ASSUME source \in Inputs, source.hint # "absent", NEW i \in TypeBegins,
         \A t \in Types : ~ Reads(i, Name(t))
  PROVE  Named = {} /\ Wanted
<1>1. Named = {}
  BY NamedHere
<1>2. Wanted
  BY DEF TypeBegins, Wanted
<1> QED BY <1>1, <1>2

LEMMA ScanEndKeeps ==
  ASSUME IInv, ScanEnd
  PROVE  IInv'
<1>1. /\ Scanning /\ ~ InBuffer /\ lex.end = End
      /\ UNCHANGED <<source, str, open, type>>
      /\ s' = 0 /\ width' = 0 /\ pc' = "done"
  BY DEF ScanEnd, Ending, parsing
<1>2. /\ TypeOK /\ HookStage /\ ScanStage /\ source \in Inputs
      /\ outcome = "none" /\ open = <<>> /\ type = NoType /\ source.hint # "absent"
      /\ End \in Nat /\ lex.ptr \in Nat /\ s \in Nat /\ str \in 0..lex.ptr
      /\ lex.ptr + s = End
      /\ InWord(lex.ptr, lex.ptr + s)
  <2>1. /\ End \in Nat /\ lex.ptr \in Nat /\ s \in Nat
        /\ lex.ptr + s <= lex.end /\ ~ lex.ptr + s < lex.end
    BY <1>1, ScanFields DEF InBuffer
  <2>2. lex.ptr + s = End
    BY <1>1, <2>1
  <2> QED BY <1>1, <2>1, <2>2, ScanFields
<1>3. lex \in Lexers
  BY <1>2 DEF TypeOK
<1>4. \A k \in Nat : k >= lex.ptr => ~ SpaceAt(k)
  <2> SUFFICES ASSUME NEW k \in Nat, k >= lex.ptr, SpaceAt(k) PROVE FALSE
    OBVIOUS
  <2>1. k < lex.ptr + s
    BY <1>2 DEF SpaceAt
  <2>2. k \in lex.ptr..((lex.ptr + s) - 1)
    BY <1>2, <2>1
  <2> QED BY <1>2, <2>2 DEF InWord
<1>5. CASE pc = "peek"
  <2>1. lex' = lex /\ outcome' = "next"
    BY <1>5 DEF ScanEnd, Ending
  <2>2. TypeOK'
    <3>1. lex.ptr + 0 <= lex.end
      BY <1>1, <1>2
    <3> QED BY <1>1, <1>2, <1>3, <2>1, <3>1, SourceKept DEF TypeOK
  <2>3. source.keyword = "for" /\ WordBegins(0, lex.ptr)
    BY <1>2, <1>5 DEF ScanStage
  <2>4. TypedEnds = {}
    <3>1. ~ SpaceAt(lex.ptr + 2)
      BY <1>2, <1>4
    <3> QED BY <1>2, <2>3, <3>1, TypedHere
  <2>5. ~ Wanted' /\ source'.keyword = "for" /\ WordBegins(0, lex.ptr)'
    BY <1>1, <2>1, <2>3, <2>4, SourceKept DEF Wanted, WordBegins
  <2> QED BY <1>1, <1>2, <2>1, <2>2, <2>5, DeclineKeeps
<1>6. CASE pc = "lex"
  <2>1. lex' \in ReadSpace(ReadTo(lex, s)) /\ outcome' = "croak"
    BY <1>6 DEF ScanEnd, Ending
  <2>2. ReadTo(lex, s) \in Lexers /\ ReadTo(lex, s).ptr = lex.ptr + s
    BY <1>1, <1>2, <1>3, ReadToLeaves
  <2>3. /\ lex' \in Lexers /\ lex'.ptr \in 0..End /\ lex'.end \in 0..End
        /\ lex'.ptr <= lex'.end /\ lex.ptr + s <= lex'.ptr
    BY <1>2, <2>1, <2>2, ReadSpaceLeaves
  <2>4. TypeOK'
    <3>1. lex'.ptr + 0 <= lex'.end /\ str \in 0..lex'.ptr
      BY <1>2, <2>3
    <3> QED BY <1>1, <1>2, <2>1, <2>3, <3>1, SourceKept DEF TypeOK
  <2>5. lex.ptr \in TypeBegins
    BY <1>2, <1>6 DEF ScanStage
  <2>6. \A t \in Types : ~ Reads(lex.ptr, Name(t))
    <3> SUFFICES ASSUME NEW t \in Types, SpaceAt(lex.ptr + Len(Name(t))) PROVE FALSE
      BY DEF Reads
    <3>1. Len(Name(t)) \in Nat
      BY TypeFields, NameSequence
    <3> HIDE DEF Name
    <3>2. lex.ptr + Len(Name(t)) \in Nat /\ lex.ptr + Len(Name(t)) >= lex.ptr
      BY <1>2, <3>1
    <3> QED BY <1>4, <3>2
  <2>7. Named' = {} /\ Wanted'
    BY <1>1, <1>2, <2>5, <2>6, NoName, SourceKept
  <2> QED BY <1>1, <1>2, <2>1, <2>4, <2>7, CroakKeeps
<1> QED BY <1>1, <1>5, <1>6 DEF Scanning
-----------------------------------------------------------------------------
(* parse_type, step by step                                                *)

LEMMA NameOfScalar ==
  ASSUME NEW name \in ScalarNames
  PROVE  /\ Type(<<>>, name) \in Types
         /\ Len(Name(Type(<<>>, name))) = 1
         /\ Name(Type(<<>>, name))[1] = name
<1> DEFINE t == Type(<<>>, name)
<1>1. <<>> \in Seq(Constructors) /\ Len(<<>>) = 0
  BY EmptySeq
<1>2. t \in Types /\ t.shape = <<>> /\ t.name = name
  BY <1>1, TypeParts
<1> HIDE DEF t
<1>3. Len(t.shape) = 0
  BY <1>1, <1>2
<1>4. Len(Name(t)) = 1 /\ Name(t)[1] = name
  <2>1. Len(t.shape) + 1 = 1 /\ Len(t.shape) + 1 + Len(t.shape) = 1
    BY <1>3
  <2>2. Len(Name(t)) = Len(t.shape) + 1 + Len(t.shape) /\ Name(t)[Len(t.shape) + 1] = t.name
    BY <1>2, NameSequence
  <2> QED BY <1>2, <2>1, <2>2
<1> QED BY <1>2, <1>4 DEF t

LEMMA NameOfNested ==
  ASSUME NEW c \in Constructors, NEW t \in Types
  PROVE  LET u == Type(<<c>> \o t.shape, t.name)
             n == Len(Name(t))
         IN  /\ u \in Types
             /\ Len(Name(u)) = n + 2
             /\ Name(u)[1] = c
             /\ \A k \in 1..n : Name(u)[k + 1] = Name(t)[k]
             /\ Name(u)[n + 2] = "]"
<1> DEFINE u == Type(<<c>> \o t.shape, t.name)
           m == Len(t.shape)
           n == Len(Name(t))
<1>1. /\ t.shape \in Seq(Constructors) /\ t.name \in ScalarNames /\ m \in Nat
      /\ n = m + 1 + m
  BY TypeFields, NameSequence
<1>2. <<c>> \in Seq(Constructors) /\ Len(<<c>>) = 1 /\ <<c>>[1] = c
  OBVIOUS
<1>3. /\ <<c>> \o t.shape \in Seq(Constructors)
      /\ Len(<<c>> \o t.shape) = m + 1
      /\ \A k \in 1..(m + 1) :
           (<<c>> \o t.shape)[k] = IF k <= 1 THEN <<c>>[k] ELSE t.shape[k - 1]
  <2>1. /\ <<c>> \o t.shape \in Seq(Constructors)
        /\ Len(<<c>> \o t.shape) = Len(<<c>>) + Len(t.shape)
        /\ \A k \in 1..(Len(<<c>>) + Len(t.shape)) :
             (<<c>> \o t.shape)[k] =
                IF k <= Len(<<c>>) THEN <<c>>[k] ELSE t.shape[k - Len(<<c>>)]
    BY <1>1, <1>2, ConcatProperties
  <2>2. Len(<<c>>) + Len(t.shape) = m + 1
    BY <1>1, <1>2
  <2> QED BY <1>2, <2>1, <2>2
<1>4. u \in Types /\ u.shape = <<c>> \o t.shape /\ u.name = t.name
  BY <1>1, <1>3, TypeParts
<1>5. /\ Len(u.shape) = m + 1
      /\ u.shape[1] = c
      /\ \A k \in 1..m : u.shape[k + 1] = t.shape[k]
  <2>1. 1 \in 1..(m + 1)
    BY <1>1
  <2>2. ASSUME NEW k \in 1..m PROVE u.shape[k + 1] = t.shape[k]
    <3>1. k + 1 \in 1..(m + 1) /\ ~ k + 1 <= 1 /\ (k + 1) - 1 = k
      BY <1>1
    <3> QED BY <1>3, <1>4, <3>1
  <2> QED BY <1>2, <1>3, <1>4, <2>1, <2>2
<1> HIDE DEF u
<1>6. /\ Len(Name(u)) = (m + 1) + 1 + (m + 1)
      /\ Name(u)[(m + 1) + 1] = t.name
      /\ \A k \in 1..(m + 1) : Name(u)[k] = u.shape[k]
      /\ \A k \in ((m + 1) + 2)..((m + 1) + 1 + (m + 1)) : Name(u)[k] = "]"
  BY <1>4, <1>5, NameSequence
<1>7. /\ Name(t)[m + 1] = t.name
      /\ \A k \in 1..m : Name(t)[k] = t.shape[k]
      /\ \A k \in (m + 2)..(m + 1 + m) : Name(t)[k] = "]"
  BY NameSequence
<1>8. Len(Name(u)) = n + 2
  BY <1>1, <1>6
<1>9. Name(u)[1] = c
  <2>1. 1 \in 1..(m + 1)
    BY <1>1
  <2> QED BY <1>5, <1>6, <2>1
<1>10. Name(u)[n + 2] = "]"
  <2>1. n + 2 \in ((m + 1) + 2)..((m + 1) + 1 + (m + 1))
    BY <1>1
  <2> QED BY <1>6, <2>1
<1>11. ASSUME NEW k \in 1..n PROVE Name(u)[k + 1] = Name(t)[k]
  <2>1. CASE k <= m
    <3>1. k \in 1..m /\ k + 1 \in 1..(m + 1)
      BY <1>1, <2>1
    <3> QED BY <1>5, <1>6, <1>7, <3>1
  <2>2. CASE k = m + 1
    BY <1>6, <1>7, <2>2
  <2>3. CASE k > m + 1
    <3>1. k \in (m + 2)..(m + 1 + m) /\ k + 1 \in ((m + 1) + 2)..((m + 1) + 1 + (m + 1))
      BY <1>1, <2>3
    <3> QED BY <1>6, <1>7, <3>1
  <2> QED BY <1>1, <2>1, <2>2, <2>3
<1> QED BY <1>4, <1>8, <1>9, <1>10, <1>11 DEF u

\* What parse_type works on
LEMMA ParseFields ==
  ASSUME IInv, pc \in {"part", "rest"}
  PROVE  /\ TypeOK /\ source \in Inputs /\ source.hint # "absent" /\ outcome = "none"
         /\ s = 0 /\ width = 0
         /\ End \in Nat /\ lex \in Lexers /\ lex.ptr \in Nat /\ lex.end \in Nat
         /\ lex.ptr <= lex.end /\ str \in Nat /\ str <= lex.ptr
         /\ open \in Seq(Constructors) /\ Len(open) \in Nat
         /\ \A k \in 1..Len(open) : open[k] \in Constructors
         /\ \E i \in TypeBegins :
              /\ i \in Nat /\ i <= lex.ptr /\ InWord(i, lex.ptr) /\ SpaceAt(lex.ptr)
              /\ pc = "part" => Descending(i)
              /\ pc = "rest" => Returning(i)
         /\ pc = "rest" => type \in Types
         /\ pc = "part" => type = NoType
<1>1. TypeOK /\ HookStage /\ ParseStage
  BY DEF IInv
<1>2. /\ s = 0 /\ width = 0 /\ source.hint # "absent"
      /\ source \in Inputs /\ lex \in Lexers /\ outcome = "none"
      /\ pc = "rest" => type \in Types
      /\ pc = "part" => type = NoType
  BY <1>1 DEF HookStage, Scanning, TypeOK
<1>3. /\ End \in Nat /\ lex.ptr \in Nat /\ lex.end \in Nat
      /\ str \in Nat /\ str <= lex.ptr
  BY <1>1, LexerFields
<1>4. lex.ptr <= lex.end
  BY <1>1, <1>2, <1>3 DEF TypeOK
<1>5. open \in Seq(Constructors)
  BY <1>1 DEF TypeOK
<1>6. Len(open) \in Nat /\ \A k \in 1..Len(open) : open[k] \in Constructors
  BY <1>5, LenProperties, ElementOfSeq
<1>7. PICK i \in TypeBegins :
        /\ i <= lex.ptr /\ InWord(i, lex.ptr) /\ SpaceAt(lex.ptr)
        /\ pc = "part" => Descending(i)
        /\ pc = "rest" => Returning(i)
  BY <1>1 DEF ParseStage
<1>8. i \in Nat
  BY <1>3 DEF TypeBegins
<1> QED BY <1>1, <1>2, <1>3, <1>4, <1>5, <1>6, <1>7, <1>8

\* parse_type returns null where no name is read.
LEMMA FailsKeeps ==
  ASSUME TypeOK, source \in Inputs, source.hint # "absent", s = 0, width = 0,
         NEW i \in TypeBegins, \A t \in Types : ~ Reads(i, Name(t)),
         Fails
  PROVE  IInv'
<1>1. /\ UNCHANGED <<source, lex, s, width, str>>
      /\ pc' = "done" /\ outcome' = "croak"
      /\ open' = <<>> /\ type' = NoType
  BY DEF Fails, Ending
<1>2. TypeOK'
  <2>1. open' \in Seq(Constructors)
    BY <1>1, EmptySeq
  <2> QED BY <1>1, <2>1, SourceKept DEF TypeOK
<1>3. Named' = {} /\ Wanted'
  BY <1>1, NoName, SourceKept
<1> QED BY <1>1, <1>2, <1>3, CroakKeeps

\* A step of parse_type that stays inside
LEMMA ParsingKeeps ==
  ASSUME IInv, pc \in {"part", "rest"}, pc' \in {"part", "rest"},
         UNCHANGED <<source, lex, s, width, outcome>>,
         str < lex.ptr, str' = str + 1,
         open' \in Seq(Constructors),
         pc' = "part" => type' = NoType,
         pc' = "rest" => type' \in Types,
         NEW i \in TypeBegins,
         i <= lex.ptr, InWord(i, lex.ptr), SpaceAt(lex.ptr),
         pc' = "part" => Descending(i)',
         pc' = "rest" => Returning(i)'
  PROVE  IInv'
<1>1. /\ TypeOK /\ HookStage /\ s = 0 /\ width = 0 /\ outcome = "none"
      /\ str \in Nat /\ lex.ptr \in Nat /\ source.hint # "absent"
  BY ParseFields DEF IInv
<1>2. TypeOK'
  <2>1. str + 1 \in 0..lex.ptr
    BY <1>1
  <2> QED BY <1>1, <2>1, NoTypeAssumption, SourceKept DEF TypeOK
<1>3. HookStage' /\ ScanStage' /\ pc' # "done"
  BY <1>1 DEF HookStage, ScanStage, Scanning
<1>4. InWord(i, lex.ptr)' /\ SpaceAt(lex.ptr)'
  BY SourceKept DEF InWord, SpaceAt
<1>5. i \in TypeBegins'
  BY SourceKept
<1>6. ParseStage'
  BY <1>4, <1>5 DEF ParseStage
<1> QED BY <1>2, <1>3, <1>6, GoingOnKeeps

LEMMA ParseScalarKeeps ==
  ASSUME IInv, ParseScalar
  PROVE  IInv'
<1> DEFINE x == Text[str + 1]
           d == Len(open)
<1>1. /\ pc = "part" /\ str < lex.ptr /\ x \in ScalarNames
      /\ type' = Type(<<>>, x) /\ pc' = "rest" /\ str' = str + 1
      /\ UNCHANGED <<source, lex, s, width, open, outcome>>
  BY DEF ParseScalar, StrStarts, Reading, GoingOn
<1>2. /\ open \in Seq(Constructors) /\ d \in Nat
      /\ source \in Inputs /\ End \in Nat
  BY <1>1, ParseFields
<1>3. PICK i \in TypeBegins :
        i \in Nat /\ i <= lex.ptr /\ InWord(i, lex.ptr) /\ SpaceAt(lex.ptr) /\ Descending(i)
  BY <1>1, ParseFields
<1>4. /\ type' \in Types /\ Len(Name(type')) = 1 /\ Name(type')[1] = x
  BY <1>1, NameOfScalar
<1>5. str = i + d /\ \A k \in 1..d : Text[i + k] = open[k]
  BY <1>3 DEF Descending
<1>6. Returning(i)'
  <2>1. Text' = Text /\ open' = open
    BY <1>1, SourceKept
  <2>2. str' = i + d + 1
    BY <1>1, <1>5
  <2>3. \A k \in 1..1 : Text[i + d + k] = Name(type')[k]
    <3>1. Text[i + d + 1] = x
      BY <1>5
    <3>2. \A k : k \in 1..1 => k = 1
      OBVIOUS
    <3> QED BY <1>4, <3>1, <3>2
  <2> QED BY <1>4, <1>5, <2>1, <2>2, <2>3 DEF Returning
<1> QED BY <1>1, <1>2, <1>3, <1>4, <1>6, ParsingKeeps

LEMMA ParseNestedKeeps ==
  ASSUME IInv, ParseNested
  PROVE  IInv'
<1> DEFINE x == Text[str + 1]
           d == Len(open)
<1>1. /\ pc = "part" /\ str < lex.ptr /\ x \in Constructors
      /\ open' = Append(open, x) /\ pc' = "part" /\ str' = str + 1
      /\ UNCHANGED <<source, lex, s, width, type, outcome>>
  BY DEF ParseNested, StrStarts, Reading, GoingOn
<1>2. open \in Seq(Constructors) /\ d \in Nat /\ type = NoType
  BY <1>1, ParseFields
<1>3. PICK i \in TypeBegins :
        i \in Nat /\ i <= lex.ptr /\ InWord(i, lex.ptr) /\ SpaceAt(lex.ptr) /\ Descending(i)
  BY <1>1, ParseFields
<1>4. /\ open' \in Seq(Constructors) /\ Len(open') = d + 1
      /\ \A k \in 1..d : open'[k] = open[k]
      /\ open'[d + 1] = x
  BY <1>1, <1>2, AppendProperties
<1>5. str = i + d /\ \A k \in 1..d : Text[i + k] = open[k]
  BY <1>3 DEF Descending
<1>6. Descending(i)'
  <2>1. Text' = Text
    BY <1>1, SourceKept
  <2>2. str' = i + (d + 1)
    BY <1>1, <1>2, <1>3, <1>5
  <2>3. ASSUME NEW k \in 1..(d + 1) PROVE Text[i + k] = open'[k]
    <3>1. CASE k \in 1..d
      BY <1>4, <1>5, <3>1
    <3>2. CASE k = d + 1
      <4>1. i + k = str + 1
        BY <1>2, <1>3, <1>5, <3>2
      <4> QED BY <1>4, <3>2, <4>1
    <3> QED BY <1>2, <3>1, <3>2
  <2> QED BY <1>4, <2>1, <2>2, <2>3 DEF Descending
<1> QED BY <1>1, <1>2, <1>3, <1>4, <1>6, ParsingKeeps

LEMMA ParseNothingKeeps ==
  ASSUME IInv, ParseNothing
  PROVE  IInv'
<1> DEFINE d == Len(open)
<1>1. /\ pc = "part" /\ Fails
      /\ str < lex.ptr => Text[str + 1] \notin ScalarNames /\ Text[str + 1] \notin Constructors
  BY DEF ParseNothing, StrStarts
<1>2. /\ TypeOK /\ source \in Inputs /\ source.hint # "absent" /\ s = 0 /\ width = 0
      /\ d \in Nat /\ lex.ptr \in Nat /\ str <= lex.ptr
      /\ \A k \in 1..d : open[k] \in Constructors
  BY <1>1, ParseFields
<1>3. PICK i \in TypeBegins :
        i \in Nat /\ i <= lex.ptr /\ InWord(i, lex.ptr) /\ SpaceAt(lex.ptr) /\ Descending(i)
  BY <1>1, ParseFields
<1>4. str = i + d /\ \A k \in 1..d : Text[i + k] = open[k]
  BY <1>3 DEF Descending
<1>5. ASSUME NEW t \in Types, Reads(i, Name(t)) PROVE FALSE
  <2> DEFINE m == Len(t.shape)
             n == Len(Name(t))
  <2>1. m \in Nat /\ n = m + 1 + m
    BY TypeFields, NameSequence
  <2>2. i + n = lex.ptr
    BY <1>2, <1>3, <1>5, WordEndsOnce
  <2>3. \A k \in 1..n : /\ Text[i + k] = Name(t)[k]
                        /\ k <= m => Name(t)[k] \in Constructors
                        /\ k = m + 1 => Name(t)[k] \in ScalarNames
    BY <1>5, NameKinds DEF Reads
  <2> HIDE DEF n
  <2>4. CASE m + 1 <= d
    <3>1. m + 1 \in 1..d /\ m + 1 \in 1..n
      BY <1>2, <2>1, <2>4
    <3> QED BY <1>2, <1>4, <2>3, <3>1, TokenKinds
  <2>5. CASE d < m + 1
    <3>1. d + 1 \in 1..n /\ str < lex.ptr /\ str + 1 = i + (d + 1) /\ (d + 1 <= m \/ d + 1 = m + 1)
      BY <1>2, <1>3, <1>4, <2>1, <2>2, <2>5
    <3>2. Text[str + 1] = Name(t)[d + 1]
      BY <2>3, <3>1
    <3> QED BY <1>1, <2>3, <3>1, <3>2
  <2> QED BY <1>2, <2>1, <2>4, <2>5
<1> QED BY <1>1, <1>2, <1>3, <1>5, FailsKeeps

LEMMA ParseClosedKeeps ==
  ASSUME IInv, ParseClosed
  PROVE  IInv'
<1> DEFINE d == Len(open)
           c == open[d]
           n == Len(Name(type))
           u == Type(<<c>> \o type.shape, type.name)
<1>1. /\ pc = "rest" /\ open # <<>> /\ str < lex.ptr /\ Text[str + 1] = "]"
      /\ type' = u /\ open' = SubSeq(open, 1, d - 1) /\ pc' = "rest" /\ str' = str + 1
      /\ UNCHANGED <<source, lex, s, width, outcome>>
  BY DEF ParseClosed, StrStarts, Reading, GoingOn
<1>2. /\ open \in Seq(Constructors) /\ d \in Nat /\ type \in Types
      /\ \A k \in 1..d : open[k] \in Constructors
  BY <1>1, ParseFields
<1>3. PICK i \in TypeBegins :
        i \in Nat /\ i <= lex.ptr /\ InWord(i, lex.ptr) /\ SpaceAt(lex.ptr) /\ Returning(i)
  BY <1>1, ParseFields
<1>4. d >= 1 /\ c \in Constructors
  <2>1. d \in Nat \ {0}
    BY <1>1, <1>2, EmptySeq
  <2>2. d \in 1..d
    BY <2>1
  <2> QED BY <1>2, <2>1, <2>2
<1>5. /\ open' \in Seq(Constructors) /\ Len(open') = d - 1
      /\ \A k \in 1..(d - 1) : open'[k] = open[k]
  <2>1. \A k \in 1..(d - 1) : open[k] \in Constructors
    BY <1>2
  <2>2. /\ SubSeq(open, 1, d - 1) \in Seq(Constructors)
        /\ Len(SubSeq(open, 1, d - 1)) = IF 1 <= d - 1 THEN (d - 1) - 1 + 1 ELSE 0
        /\ \A k \in 1..((d - 1) - 1 + 1) : SubSeq(open, 1, d - 1)[k] = open[1 + k - 1]
    <3>1. 1 \in Int /\ d - 1 \in Int
      BY <1>2
    <3> QED BY <2>1, <3>1, SubSeqProperties
  <2>3. Len(open') = d - 1
    BY <1>1, <1>2, <1>4, <2>2
  <2>4. ASSUME NEW k \in 1..(d - 1) PROVE open'[k] = open[k]
    <3>1. k \in 1..((d - 1) - 1 + 1) /\ 1 + k - 1 = k
      BY <1>2
    <3> QED BY <1>1, <2>2, <3>1
  <2> QED BY <1>1, <2>2, <2>3, <2>4
<1>6. /\ u \in Types /\ Len(Name(u)) = n + 2
      /\ Name(u)[1] = c
      /\ \A k \in 1..n : Name(u)[k + 1] = Name(type)[k]
      /\ Name(u)[n + 2] = "]"
  BY <1>2, <1>4, NameOfNested
<1>7. n \in Nat
  BY <1>2, TypeFields, NameSequence
<1> HIDE DEF u, n
<1>8. /\ str = i + d + n
      /\ \A k \in 1..d : Text[i + k] = open[k]
      /\ \A k \in 1..n : Text[i + d + k] = Name(type)[k]
  BY <1>3 DEF Returning, n
<1>9. Returning(i)'
  <2>1. Text' = Text
    BY <1>1, SourceKept
  <2>2. str' = i + (d - 1) + (n + 2)
    BY <1>1, <1>2, <1>3, <1>7, <1>8
  <2>3. \A k \in 1..(d - 1) : Text[i + k] = open'[k]
    BY <1>2, <1>5, <1>8
  <2>4. ASSUME NEW k \in 1..(n + 2) PROVE Text[i + (d - 1) + k] = Name(u)[k]
    <3>1. CASE k = 1
      <4>1. i + (d - 1) + k = i + d /\ d \in 1..d
        BY <1>2, <1>3, <1>4, <3>1
      <4> QED BY <1>6, <1>8, <3>1, <4>1
    <3>2. CASE k \in 2..(n + 1)
      <4>1. PICK j \in 1..n : k = j + 1
        <5>1. k - 1 \in 1..n /\ k = (k - 1) + 1
          BY <1>7, <3>2
        <5> QED BY <5>1
      <4>2. i + (d - 1) + k = i + d + j
        BY <1>2, <1>3, <4>1
      <4> QED BY <1>6, <1>8, <4>1, <4>2
    <3>3. CASE k = n + 2
      <4>1. i + (d - 1) + k = str + 1
        BY <1>2, <1>3, <1>7, <1>8, <3>3
      <4> QED BY <1>1, <1>6, <3>3, <4>1
    <3> QED BY <1>7, <3>1, <3>2, <3>3
  <2> QED BY <1>1, <1>5, <1>6, <2>1, <2>2, <2>3, <2>4 DEF Returning
<1> QED BY <1>1, <1>3, <1>5, <1>6, <1>9, ParsingKeeps

\* A name that is read where the parse began has its scalar where the one of the
\* type that was parsed is.
LEMMA SameScalar ==
  ASSUME IInv, pc = "rest", NEW i \in TypeBegins, i \in Nat, i <= lex.ptr,
         InWord(i, lex.ptr), SpaceAt(lex.ptr), Returning(i),
         NEW t \in Types, Reads(i, Name(t))
  PROVE  /\ Len(t.shape) = Len(open) + Len(type.shape)
         /\ i + Len(Name(t)) = lex.ptr
<1> DEFINE d == Len(open)
           q == Len(type.shape)
           m == Len(t.shape)
           p == d + q + 1
<1>1. /\ d \in Nat /\ lex.ptr \in Nat /\ str <= lex.ptr /\ type \in Types
      /\ \A k \in 1..d : open[k] \in Constructors
  BY ParseFields
<1>2. q \in Nat /\ m \in Nat /\ Len(Name(type)) = q + 1 + q /\ Len(Name(t)) = m + 1 + m
  BY <1>1, TypeFields, NameSequence
<1>3. i + Len(Name(t)) = lex.ptr
  BY <1>1, WordEndsOnce
<1>4. /\ str = i + d + (q + 1 + q)
      /\ \A k \in 1..d : Text[i + k] = open[k]
      /\ \A k \in 1..(q + 1 + q) : Text[i + d + k] = Name(type)[k]
  BY <1>2 DEF Returning
<1>5. \A k \in 1..(m + 1 + m) : /\ Text[i + k] = Name(t)[k]
                                /\ k <= m => Name(t)[k] \in Constructors
                                /\ k = m + 1 => Name(t)[k] \in ScalarNames
  BY <1>2, NameKinds DEF Reads
<1>6. d + (q + 1 + q) <= m + 1 + m
  <2>1. i + d + (q + 1 + q) <= i + (m + 1 + m)
    BY <1>1, <1>2, <1>3, <1>4
  <2>2. i \in Nat
    OBVIOUS
  <2> HIDE DEF d, q, m
  <2> QED BY <1>1, <1>2, <2>1, <2>2
<1>7. Text[i + p] \in ScalarNames
  <2>1. q + 1 \in 1..(q + 1 + q) /\ i + d + (q + 1) = i + p
    <3>1. i \in Nat /\ d \in Nat /\ q \in Nat
      BY <1>1, <1>2
    <3> HIDE DEF d, q
    <3> QED BY <3>1
  <2>2. Name(type)[q + 1] \in ScalarNames
    BY <1>1, <1>2, <2>1, NameKinds
  <2> QED BY <1>4, <2>1, <2>2
<1>8. ASSUME NEW k \in 1..(d + q) PROVE Text[i + k] \in Constructors
  <2>1. CASE k <= d
    BY <1>1, <1>4, <2>1
  <2>2. CASE k > d
    <3>1. PICK j \in 1..q : k = d + j
      <4>1. k - d \in 1..q /\ k = d + (k - d)
        BY <1>1, <1>2, <2>2
      <4> QED BY <4>1
    <3>2. j \in 1..(q + 1 + q) /\ i + d + j = i + k
      BY <1>1, <1>2, <3>1
    <3>3. Name(type)[j] \in Constructors
      <4>1. j \in 1..Len(Name(type)) /\ j <= q
        BY <1>2, <3>1, <3>2
      <4> QED BY <1>1, <4>1, NameKinds
    <3> QED BY <1>4, <3>2, <3>3
  <2> QED BY <1>1, <2>1, <2>2
<1>9. ~ p < m + 1
  <2> SUFFICES ASSUME p < m + 1 PROVE FALSE
    OBVIOUS
  <2>1. p \in 1..(m + 1 + m) /\ p <= m
    BY <1>1, <1>2
  <2> QED BY <1>5, <1>7, <2>1, TokenKinds
<1>10. ~ p > m + 1
  <2> SUFFICES ASSUME p > m + 1 PROVE FALSE
    OBVIOUS
  <2>1. m + 1 \in 1..(m + 1 + m) /\ m + 1 \in 1..(d + q)
    BY <1>1, <1>2
  <2> QED BY <1>5, <1>8, <2>1, TokenKinds
<1>11. m = d + q
  <2>1. d \in Nat /\ q \in Nat /\ m \in Nat
    BY <1>1, <1>2
  <2>2. ~ d + q + 1 < m + 1 /\ ~ d + q + 1 > m + 1
    BY <1>9, <1>10
  <2> HIDE DEF d, q, m
  <2> QED BY <2>1, <2>2
<1> QED BY <1>3, <1>11

LEMMA ParseUnclosedKeeps ==
  ASSUME IInv, ParseUnclosed
  PROVE  IInv'
<1> DEFINE d == Len(open)
           q == Len(type.shape)
<1>1. /\ pc = "rest" /\ open # <<>> /\ Fails
      /\ str < lex.ptr => Text[str + 1] # "]"
  BY DEF ParseUnclosed, StrStarts
<1>2. /\ TypeOK /\ source \in Inputs /\ source.hint # "absent" /\ s = 0 /\ width = 0
      /\ open \in Seq(Constructors) /\ d \in Nat /\ type \in Types
  BY <1>1, ParseFields
<1>3. PICK i \in TypeBegins :
        i \in Nat /\ i <= lex.ptr /\ InWord(i, lex.ptr) /\ SpaceAt(lex.ptr) /\ Returning(i)
  BY <1>1, ParseFields
<1>4. q \in Nat /\ d >= 1 /\ str = i + d + (q + 1 + q)
  <2>1. q \in Nat /\ Len(Name(type)) = q + 1 + q
    BY <1>2, TypeFields, NameSequence
  <2>2. d \in Nat \ {0}
    BY <1>1, <1>2, EmptySeq
  <2> QED BY <1>3, <2>1, <2>2 DEF Returning
<1>5. ASSUME NEW t \in Types, Reads(i, Name(t)) PROVE FALSE
  <2> DEFINE n == Len(Name(t))
             k == d + (q + 1 + q) + 1
  <2>1. Len(t.shape) = d + q /\ i + n = lex.ptr
    BY <1>1, <1>3, <1>5, SameScalar
  <2>2. n = (d + q) + 1 + (d + q)
    BY <2>1, NameSequence
  <2>3. k \in 1..n /\ k > (d + q) + 1 /\ str < lex.ptr /\ str + 1 = i + k
    <3>1. /\ i \in Nat /\ d \in Nat /\ q \in Nat /\ d >= 1
          /\ str = i + d + (q + 1 + q)
          /\ i + ((d + q) + 1 + (d + q)) = lex.ptr
      BY <1>2, <1>3, <1>4, <2>1, <2>2
    <3>2. k \in 1..((d + q) + 1 + (d + q)) /\ k > (d + q) + 1 /\ str < lex.ptr /\ str + 1 = i + k
      <4> HIDE DEF d, q
      <4> QED BY <3>1
    <3> QED BY <2>2, <3>2
  <2>4. Text[i + k] = Name(t)[k] /\ Name(t)[k] = "]"
    BY <1>5, <2>1, <2>3, NameKinds DEF Reads
  <2> QED BY <1>1, <2>3, <2>4
<1> QED BY <1>1, <1>2, <1>3, <1>5, FailsKeeps

LEMMA ParseTypeEndsKeeps ==
  ASSUME IInv, ParseTypeEnds
  PROVE  IInv'
<1> DEFINE q == Len(type.shape)
<1>1. pc = "rest" /\ open = <<>> /\ Len(open) = 0
  BY EmptySeq DEF ParseTypeEnds
<1>2. /\ TypeOK /\ source \in Inputs /\ source.hint # "absent" /\ s = 0 /\ width = 0
      /\ type \in Types /\ lex.ptr \in Nat /\ outcome = "none"
  BY <1>1, ParseFields
<1>3. PICK i \in TypeBegins :
        i \in Nat /\ i <= lex.ptr /\ InWord(i, lex.ptr) /\ SpaceAt(lex.ptr) /\ Returning(i)
  BY <1>1, ParseFields
<1>4. q \in Nat /\ Len(Name(type)) = q + 1 + q
  BY <1>2, TypeFields, NameSequence
<1>5. /\ str = i + Len(Name(type))
      /\ \A k \in 1..Len(Name(type)) : Text[i + k] = Name(type)[k]
  <2>1. i + Len(open) = i
    BY <1>1, <1>3
  <2>2. /\ str = i + Len(open) + Len(Name(type))
        /\ \A k \in 1..Len(Name(type)) : Text[i + Len(open) + k] = Name(type)[k]
    BY <1>3 DEF Returning
  <2> QED BY <2>1, <2>2
<1>6. CASE str = lex.ptr
  <2>1. /\ UNCHANGED <<source, lex, s, width, str, open, type>>
        /\ pc' = "done" /\ outcome' = "taken"
    BY <1>6 DEF ParseTypeEnds, Ending, parsing
  <2>2. Reads(i, Name(type))
    BY <1>3, <1>5, <1>6 DEF Reads
  <2>3. type \in Named /\ Wanted
    <3>1. Wanted
      BY <1>2 DEF TypeBegins, Wanted
    <3> QED BY <1>2, <2>2, <3>1, NameCutOut
  <2>4. TypeOK'
    BY <1>2, <2>1, NoTypeAssumption, SourceKept DEF TypeOK
  <2>5. ReadsAsWritten'
    <3>1. type' \in Named' /\ Wanted'
      BY <2>1, <2>3, SourceKept
    <3> QED BY <2>1, <3>1 DEF ReadsAsWritten
  <2>6. LeftAsFound'
    <3>1. i \in TypeBegins' /\ lex'.ptr = i + Len(Name(type'))
      BY <1>5, <1>6, <2>1, SourceKept
    <3>2. Reads(i, Name(type))'
      BY <2>1, <2>2, SourceKept DEF Reads, SpaceAt
    <3> QED BY <2>1, <3>1, <3>2 DEF LeftAsFound
  <2> QED BY <1>1, <1>2, <2>1, <2>4, <2>5, <2>6, EndingKeeps
<1>7. CASE str # lex.ptr
  <2>1. Fails
    BY <1>7 DEF ParseTypeEnds
  <2>2. ASSUME NEW t \in Types, Reads(i, Name(t)) PROVE FALSE
    <3>1. Len(t.shape) = q /\ i + Len(Name(t)) = lex.ptr
      <4>1. Len(t.shape) = Len(open) + q /\ i + Len(Name(t)) = lex.ptr
        BY <1>1, <1>3, <2>2, SameScalar
      <4> QED BY <1>1, <1>4, <4>1
    <3>2. Len(Name(t)) = Len(Name(type))
      BY <1>4, <3>1, NameSequence
    <3> QED BY <1>5, <1>7, <3>1, <3>2
  <2> QED BY <1>2, <1>3, <2>1, <2>2, FailsKeeps
<1> QED BY <1>6, <1>7

-----------------------------------------------------------------------------
(* The theorems                                                            *)

LEMMA StepKeeps == IInv /\ [Next]_vars => IInv'
<1> SUFFICES ASSUME IInv, [Next]_vars PROVE IInv'
  OBVIOUS
<1>1. CASE UNCHANGED vars
  <2>1. UNCHANGED <<source, lex, s, width, pc, str, open, type, outcome>>
    BY <1>1 DEF vars
  <2>2. /\ UNCHANGED <<Text, End, Lexers, TypedEnds, TypeBegins, Named, Wanted>>
        /\ \A i : SpaceAt(i)' <=> SpaceAt(i)
    BY <2>1, SourceKept
  <2>3. TypeOK' /\ HookStage'
    BY <2>1, <2>2 DEF IInv, TypeOK, HookStage, Scanning
  <2>4. WordBegins(0, lex.ptr)' <=> WordBegins(0, lex.ptr)
    BY <2>1, <2>2 DEF WordBegins
  <2>5. ScanStage'
    BY <2>1, <2>2, <2>4 DEF IInv, ScanStage, Scanning, InWord, Width
  <2>6. \A i : /\ Descending(i)' <=> Descending(i)
               /\ Returning(i)' <=> Returning(i)
    BY <2>1, <2>2 DEF Descending, Returning
  <2>7. ParseStage'
    BY <2>1, <2>2, <2>6 DEF IInv, ParseStage, InWord, SpaceAt
  <2>8. ReadsAsWritten'
    BY <2>1, <2>2 DEF IInv, ReadsAsWritten
  <2>9. LeftAsFound'
    BY <2>1, <2>2, <2>4 DEF IInv, LeftAsFound, Reads, SpaceAt
  <2> QED BY <2>3, <2>5, <2>7, <2>8, <2>9 DEF IInv
<1> QED BY <1>1, DispatchKeeps, ParseTypedKeywordKeeps, ParseTypeBeginsKeeps, ScanWordKeeps,
      PeekEndsKeeps, LexEndsKeeps, ScanChunkKeeps, ScanEndKeeps, ParseScalarKeeps,
      ParseNestedKeeps, ParseNothingKeeps, ParseClosedKeeps, ParseUnclosedKeeps,
      ParseTypeEndsKeeps DEF Next

THEOREM KeywordInvariant == Spec => []IInv
BY InitKeyword, StepKeeps, PTL DEF Spec

\* The scan stays within the buffer, and a type is there while one is parsed and
\* when the plugin took it, for any texts and chunks.
THEOREM KeywordTypeCorrect == Spec => []TypeOK
<1>1. IInv => TypeOK
  BY DEF IInv
<1> QED BY <1>1, KeywordInvariant, PTL

\* However the text is cut into chunks, the hook takes what reads as typed and a
\* type's name, of any depth, finds that type, and croaks at anything else.
THEOREM ReadsAsWrittenCorrect == Spec => []ReadsAsWritten
<1>1. IInv => ReadsAsWritten
  BY DEF IInv
<1> QED BY <1>1, KeywordInvariant, PTL

\* What is not taken is left to perl and the other plugins as it was, but for the
\* space in front of it, and a type is taken with its name and no more.
THEOREM LeftAsFoundCorrect == Spec => []LeftAsFound
<1>1. IInv => LeftAsFound
  BY DEF IInv
<1> QED BY <1>1, KeywordInvariant, PTL

\* The names that the reference cuts out of the text are all there are: where the
\* hint is set, a type is taken exactly if some type's name stands behind typed.
THEOREM EveryNameTaken ==
  Spec => [](pc = "done" =>
               (outcome = "taken" <=>
                  /\ source.hint # "absent"
                  /\ \E i \in TypeBegins : \E t \in Types : Reads(i, Name(t))))
<1> DEFINE Read == \E i \in TypeBegins : \E t \in Types : Reads(i, Name(t))
<1>1. IInv => (pc = "done" => (outcome = "taken" <=> source.hint # "absent" /\ Read))
  <2> SUFFICES ASSUME IInv, pc = "done"
               PROVE  outcome = "taken" <=> source.hint # "absent" /\ Read
    OBVIOUS
  <2>1. ReadsAsWritten /\ source \in Inputs
    BY DEF IInv, TypeOK
  <2>2. ASSUME outcome = "taken" PROVE source.hint # "absent" /\ Read
    <3>1. Wanted /\ Named # {}
      BY <2>1, <2>2 DEF ReadsAsWritten
    <3>2. Named # {} => Read
      BY DEF Named, TypesAt
    <3> QED BY <3>1, <3>2 DEF Wanted
  <2>3. ASSUME source.hint # "absent", Read PROVE outcome = "taken"
    <3>1. PICK i \in TypeBegins, t \in Types : Reads(i, Name(t))
      BY <2>3
    <3>2. t \in Named
      BY <2>1, <3>1, NameCutOut
    <3>3. Wanted
      BY <2>3, <3>1 DEF Wanted, TypeBegins
    <3> QED BY <2>1, <3>2, <3>3 DEF ReadsAsWritten
  <2> QED BY <2>2, <2>3
<1> QED BY <1>1, KeywordInvariant, PTL
=============================================================================
