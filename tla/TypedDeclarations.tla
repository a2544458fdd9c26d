-------------------------- MODULE TypedDeclarations --------------------------
(***************************************************************************)
(* Typed declarations of one sub: "typed T my-list" and "for typed T $x"   *)
(* of src/pj_keyword_plugin.cpp while perl compiles it, the declaration    *)
(* terms get_declaration (src/pj_optree.cpp) makes when it is searched,    *)
(* and who deletes the Type objects that both hold.                        *)
(*                                                                         *)
(* The plugin calls perl's parser, which calls the plugin again for a      *)
(* declaration inside an initializer: parse is that C++ stack.  It then    *)
(* walks the whole tree it was given and takes every "my" in it for its    *)
(* own.  All entries of a declaration share one Type, which one of them    *)
(* owns.  A "my" inside an anonymous sub belongs to another CV and is not  *)
(* in the tree.                                                            *)
(*                                                                         *)
(* Declared types are scalar.  A composite one is shared in the same way,  *)
(* or does not match the variable and makes get_declaration croak.         *)
(***************************************************************************)
EXTENDS Naturals, Sequences

CONSTANTS
  Pads,        \* the "my" variables of the sub, by op_targ
  Aggregates,  \* those that are arrays or hashes
  Types,       \* the Type objects parse_type makes, one for each declaration
  Searches,    \* the calls of pj_find_jit_candidates on the sub
  NoType,      \* a null Type *, or one nobody else holds
  NoPad        \* no loop variable

ASSUME TypedConstants ==
  /\ Aggregates \subseteq Pads
  /\ NoType \notin Types
  /\ NoPad \notin Pads

VARIABLES
  parse,       \* the active S_parse_typed_declaration and S_parse_typed_loop;
               \* those a croak left stay here when the sub is freed
  met,         \* the variables perl has given a pad entry
  decl_map,    \* the declaration map of the CV; an absent entry has no type
  heap,        \* "unborn", "live" or "deleted" for every Type
  variables,   \* per search: the declaration term of each variable
  phase,       \* "parse", "run" once the sub is compiled, then "freed"
  twice,       \* an object was deleted a second time
  crashed,     \* the back of an empty vector was taken
  nested,      \* history: the types of declarations inside an initializer
  inner,       \* history: the variables declared there without a type
  said         \* history: the type the source gives a variable

vars == <<parse, met, decl_map, heap, variables, phase, twice, crashed, nested, inner, said>>

\* One call: its type, the variable of a typed loop, the declarations met in
\* the tree parsed so far, and whether perl is still at the list of names.
Frame == [type : Types, loop : Pads \union {NoPad}, ops : SUBSET Pads, named : BOOLEAN]

\* TypedPadSvOp
Entry == [type : Types \union {NoType}, owns : BOOLEAN]

\* VariableDeclaration
Term == [state : {"none", "live", "deleted"}, type : Types \union {NoType}]

NoEntry == [type |-> NoType, owns |-> FALSE]
NoTerm  == [state |-> "none", type |-> NoType]

Top  == parse[Len(parse)]
Rest == SubSeq(parse, 1, Len(parse) - 1)

Init ==
  /\ parse = <<>>
  /\ met = {}
  /\ decl_map = [p \in Pads |-> NoEntry]
  /\ heap = [t \in Types |-> "unborn"]
  /\ variables = [s \in Searches |-> [p \in Pads |-> NoTerm]]
  /\ phase = "parse"
  /\ twice = FALSE
  /\ crashed = FALSE
  /\ nested = {}
  /\ inner = {}
  /\ said = [p \in Pads |-> NoType]
-----------------------------------------------------------------------------
(* The plugin.                                                             *)

Parsing == phase = "parse" /\ ~ crashed

\* A keyword stands where perl parses a statement or an expression.
AtKeyword == parse # <<>> => ~ Top.named

\* A declaration is open, and perl is at its initializer.
InInitializer == AtKeyword /\ \E i \in 1..Len(parse) : parse[i].loop = NoPad

\* S_parse_type, and the call of perl's parser.
Begin(t, loop, named) ==
  /\ Parsing /\ AtKeyword
  /\ heap[t] = "unborn"
  /\ heap' = [heap EXCEPT ![t] = "live"]
  /\ parse' = Append(parse, [type |-> t, loop |-> loop, ops |-> {}, named |-> named])
  /\ nested' = IF InInitializer THEN nested \union {t} ELSE nested
  /\ UNCHANGED <<decl_map, variables, phase, twice, crashed, inner>>

BeginDeclaration(t) == Begin(t, NoPad, TRUE) /\ UNCHANGED <<met, said>>

BeginLoop(t, p) ==
  /\ p \in Pads \ met
  /\ met' = met \union {p}
  /\ said' = [said EXCEPT ![p] = t]
  /\ Begin(t, p, FALSE)

\* Perl parses a "my": a name of the list, or a variable anywhere else.
Introduce(p) ==
  /\ Parsing
  /\ p \in Pads \ met
  /\ met' = met \union {p}
  /\ parse' = IF parse = <<>> THEN parse
              ELSE [parse EXCEPT ![Len(parse)] =
                      [type |-> @.type, loop |-> @.loop, ops |-> @.ops \union {p},
                       named |-> @.named]]
  /\ said' = [said EXCEPT ![p] = IF AtKeyword THEN NoType ELSE Top.type]
  /\ inner' = IF InInitializer THEN inner \union {p} ELSE inner
  /\ UNCHANGED <<decl_map, heap, variables, phase, twice, crashed, nested>>

\* The names are over, an initializer follows.
Initializer ==
  /\ Parsing
  /\ parse # <<>> /\ Top.named
  /\ parse' = [parse EXCEPT ![Len(parse)] =
                 [type |-> @.type, loop |-> @.loop, ops |-> @.ops, named |-> FALSE]]
  /\ UNCHANGED <<met, decl_map, heap, variables, phase, twice, crashed, nested, inner, said>>

\* The parser returns; the tree becomes a part of the one around it.
Returned ==
  IF Len(parse) = 1 THEN <<>>
  ELSE [Rest EXCEPT ![Len(Rest)] =
          [type |-> @.type, loop |-> @.loop, ops |-> @.ops \union Top.ops,
           named |-> @.named]]

Return ==
  /\ Parsing
  /\ parse # <<>>
  /\ parse' = Returned
  /\ UNCHANGED <<met, variables, phase, twice, nested, inner, said>>

\* Faulty variant: every entry owns the type.
EndDeclarationAllOwn(owner) ==
  /\ Return /\ Top.loop = NoPad
  /\ owner \in Top.ops
  /\ decl_map' = [p \in Pads |-> IF p \in Top.ops THEN [type |-> Top.type, owns |-> TRUE]
                                 ELSE decl_map[p]]
  /\ UNCHANGED <<heap, crashed>>

\* Faulty variant: only the last declaration gets the type.
EndDeclarationLastOnly(owner) ==
  /\ Return /\ Top.loop = NoPad
  /\ owner \in Top.ops
  /\ decl_map' = [decl_map EXCEPT ![owner] = [type |-> Top.type, owns |-> TRUE]]
  /\ UNCHANGED <<heap, crashed>>

\* Faulty variant: the size of the map is asked before the entries are added.
EndDeclarationChecksFirst(owner) ==
  /\ Return /\ Top.loop = NoPad
  /\ owner \in Top.ops
  /\ LET first == \A p \in Pads : decl_map[p].type = NoType
     IN /\ decl_map' = [p \in Pads |-> IF p \notin Top.ops THEN decl_map[p]
                          ELSE [type |-> Top.type, owns |-> ~ first /\ p = owner]]
        /\ heap' = IF first THEN [heap EXCEPT ![Top.type] = "deleted"] ELSE heap
  /\ UNCHANGED crashed

\* Faulty variant: what an overwritten entry had is deleted, whether it owned it
\* or not.
EndDeclarationFreesOld(owner) ==
  /\ Parsing /\ parse # <<>> /\ parse' = Returned
  /\ Top.loop = NoPad
  /\ owner \in Top.ops
  /\ LET old(t) == {p \in Top.ops : decl_map[p].type = t}
     IN /\ heap' = [t \in Types |-> IF old(t) # {} THEN "deleted" ELSE heap[t]]
        /\ twice' = (twice \/ \E t \in Types : \E p, q \in old(t) : p # q)
  /\ decl_map' = [p \in Pads |->
                    IF p \in Top.ops THEN [type |-> Top.type, owns |-> p = owner]
                    ELSE decl_map[p]]
  /\ UNCHANGED <<met, variables, phase, crashed, nested, inner, said>>

\* S_parse_typed_declaration after parse_fullexpr: all the declarations of the
\* tree get the type, and the last one the walk met, which is any of them,
\* owns it.  What an overwritten entry owned is not deleted.
EndDeclaration(owner) ==
  /\ Return /\ Top.loop = NoPad
  /\ owner \in Top.ops
  /\ decl_map' = [p \in Pads |->
                    IF p \in Top.ops THEN [type |-> Top.type, owns |-> p = owner]
                    ELSE decl_map[p]]
  /\ UNCHANGED <<heap, crashed>>

\* The same for "typed T ()": the type is deleted if the map is empty; if it is
\* not, the back of an empty vector is read through a null pointer.
EndEmptyDeclaration ==
  /\ Return /\ Top.loop = NoPad
  /\ Top.ops = {}
  /\ IF \A p \in Pads : decl_map[p].type = NoType
       THEN heap' = [heap EXCEPT ![Top.type] = "deleted"] /\ UNCHANGED crashed
       ELSE crashed' = TRUE /\ UNCHANGED heap
  /\ UNCHANGED decl_map

\* Faulty variant: set_type_ownership is left out.
EndLoopUnowned ==
  /\ Return /\ Top.loop # NoPad
  /\ decl_map' = [decl_map EXCEPT ![Top.loop] = [type |-> Top.type, owns |-> FALSE]]
  /\ UNCHANGED <<heap, crashed>>

\* S_parse_typed_loop after parse_fullstmt: the ENTERITER is the declaration,
\* and no walk finds it.
EndLoop ==
  /\ Return /\ Top.loop # NoPad
  /\ decl_map' = [decl_map EXCEPT ![Top.loop] = [type |-> Top.type, owns |-> TRUE]]
  /\ UNCHANGED <<heap, crashed>>

Compiled ==
  /\ Parsing
  /\ parse = <<>>
  /\ phase' = "run"
  /\ UNCHANGED <<parse, met, decl_map, heap, variables, twice, crashed, nested, inner, said>>
-----------------------------------------------------------------------------
(* The searches of the compiled sub, and its end.                          *)

\* Faulty variant: the term takes the type over from the map's entry, which
\* goes on as its owner.
DeclareTakesType(s, p) ==
  /\ phase = "run"
  /\ p \in met
  /\ variables[s][p].state = "none"
  /\ variables' = [variables EXCEPT ![s][p] =
       [state |-> "live", type |-> IF p \in Aggregates THEN NoType ELSE decl_map[p].type]]
  /\ decl_map' = [decl_map EXCEPT ![p] = [type |-> NoType, owns |-> @.owns]]
  /\ UNCHANGED <<parse, met, heap, phase, twice, crashed, nested, inner, said>>

\* get_declaration meets a variable for the first time: its term shares the
\* type of the map, wraps it in a new Array or Hash, or has one of its own.
Declare(s, p) ==
  /\ phase = "run"
  /\ p \in met
  /\ variables[s][p].state = "none"
  /\ variables' = [variables EXCEPT ![s][p] =
       [state |-> "live", type |-> IF p \in Aggregates THEN NoType ELSE decl_map[p].type]]
  /\ UNCHANGED <<parse, met, decl_map, heap, phase, twice, crashed, nested, inner, said>>

\* pj_free_term_vector reaches the declaration in the kids of an OP_NULL that
\* becomes an Optree; ~Term deletes its type.  The finder keeps the pointer,
\* and may come to it again.
DeleteTerm(s, p) ==
  /\ phase = "run"
  /\ variables[s][p].state # "none"
  /\ LET term == variables[s][p]
     IN /\ variables' = [variables EXCEPT ![s][p] = [state |-> "deleted", type |-> term.type]]
        /\ heap' = [t \in Types |-> IF t = term.type THEN "deleted" ELSE heap[t]]
        /\ twice' = (twice \/ term.state = "deleted"
                           \/ \E t \in Types : t = term.type /\ heap[t] = "deleted")
  /\ UNCHANGED <<parse, met, decl_map, phase, crashed, nested, inner, said>>

Owners(t) == {p \in Pads : decl_map[p].owns /\ decl_map[p].type = t}

\* pj_type_annotate_mg_free, when the sub goes or its compilation croaks: every
\* entry that owns its type deletes it.
FreeSub ==
  /\ phase # "freed" /\ ~ crashed
  /\ phase' = "freed"
  /\ heap' = [t \in Types |-> IF Owners(t) # {} THEN "deleted" ELSE heap[t]]
  /\ twice' = (twice \/ \E t \in Types :
                 \/ Owners(t) # {} /\ heap[t] = "deleted"
                 \/ \E p, q \in Owners(t) : p # q)
  /\ UNCHANGED <<parse, met, decl_map, variables, crashed, nested, inner, said>>

Next ==
  \/ \E t \in Types : BeginDeclaration(t)
  \/ \E t \in Types, p \in Pads : BeginLoop(t, p)
  \/ \E p \in Pads : Introduce(p)
  \/ Initializer
  \/ \E p \in Pads : EndDeclaration(p)
  \/ EndEmptyDeclaration
  \/ EndLoop
  \/ Compiled
  \/ \E s \in Searches, p \in Pads : Declare(s, p)
  \/ \E s \in Searches, p \in Pads : DeleteTerm(s, p)
  \/ FreeSub

Spec == Init /\ [][Next]_vars

-----------------------------------------------------------------------------
(* What makes the map right.                                               *)

Frames == 1..Len(parse)

\* The state is well formed: an entry without a type owns nothing, only
\* variables perl has met have one, and terms are made from compiled subs.
TypeOK ==
  /\ parse \in Seq(Frame)
  /\ \A i \in Frames : parse[i].loop # NoPad => ~ parse[i].named
  /\ met \subseteq Pads
  /\ decl_map \in [Pads -> Entry]
  /\ \A p \in Pads : decl_map[p].type = NoType => ~ decl_map[p].owns
  /\ \A p \in Pads : decl_map[p].type # NoType => p \in met
  /\ heap \in [Types -> {"unborn", "live", "deleted"}]
  /\ variables \in [Searches -> [Pads -> Term]]
  /\ \A s \in Searches, p \in Pads :
       variables[s][p].state # "none" => phase # "parse" /\ p \in met
  /\ phase \in {"parse", "run", "freed"}
  /\ twice \in BOOLEAN /\ crashed \in BOOLEAN
  /\ nested \subseteq Types /\ inner \subseteq Pads
  /\ said \in [Pads -> Types \union {NoType}]

\* A type has at most one owner in the map, however declarations nest and
\* overwrite each other's entries (src/pj_keyword_plugin.cpp:219-231).
OneOwner == \A t \in Types : \A p, q \in Owners(t) : p = q

\* A type in the map has an owner there: a declaration around another one
\* takes over all of its entries or none, so that the owner of a type that is
\* still in use is never overwritten (src/pj_keyword_plugin.cpp:222).
OwnerKept ==
  \A p \in Pads : decl_map[p].type # NoType => Owners(decl_map[p].type) # {}

Deleted == {sp \in Searches \X Pads : variables[sp[1]][sp[2]].state = "deleted"}

\* Until the sub goes, every type in the map is alive, provided that no
\* declaration term was deleted (src/pj_optree.cpp:211 reads it).
MapLive ==
  phase # "freed" /\ Deleted = {} =>
    \A p \in Pads : decl_map[p].type # NoType => heap[decl_map[p].type] = "live"

\* Nothing is deleted twice unless a declaration term was deleted, which shares
\* its type with the map (src/pj_optree.cpp:278, src/pj_keyword_plugin.h:21).
DeletedOnce == twice => Deleted # {}

\* After the sub is gone a type is left over only if its declaration stood in
\* an initializer, or if it was being parsed when compilation was given up.
LeakOnlyNested ==
  phase = "freed" =>
    \A t \in Types : heap[t] = "live" => t \in nested \/ \E i \in Frames : parse[i].type = t

\* Declared in the initializer of another declaration, whose walk takes it for
\* its own (src/pj_keyword_plugin.cpp:219-225): typed there, or by a plain "my".
Overruled(p) == p \in inner \/ said[p] \in nested

\* A variable that is not overruled has the type its declaration gives it, and
\* none if that gives none, whatever declarations and loops stand around and
\* inside it.
SaidUnlessNested ==
  phase = "run" => \A p \in Pads : ~ Overruled(p) => decl_map[p].type = said[p]

\* doc/types.txt: "a variable with an explicit declaration is always treated
\* with the declared semantics".  A declaration in an initializer is overruled
\* by the one around it.
DeclaredSemantics ==
  phase = "run" => \A p \in Pads : said[p] # NoType => decl_map[p].type = said[p]
-----------------------------------------------------------------------------
(* The invariant behind them.                                              *)

\* A declaration is inside a frame's tree with all of its entries or with none.
Whole(ops) ==
  \A p, q \in Pads :
    decl_map[p].type # NoType /\ decl_map[p].type = decl_map[q].type => (p \in ops <=> q \in ops)

FramesWhole == \A i \in Frames : Whole(parse[i].ops)

\* Every variable is in one frame, and has been met.
FramesApart ==
  /\ \A i \in Frames : parse[i].ops \subseteq met
  /\ \A i \in Frames : parse[i].loop # NoPad => parse[i].loop \in met
  /\ \A i, j \in Frames : i # j => parse[i].ops \cap parse[j].ops = {}
  /\ \A i, j \in Frames : i # j /\ parse[i].loop # NoPad => parse[i].loop # parse[j].loop
  /\ \A i, j \in Frames : parse[i].loop \notin parse[j].ops

\* The type of an open frame is alive, its own and in no entry; the variable of
\* an open loop has no entry.
FramesFresh ==
  /\ \A i, j \in Frames : i # j => parse[i].type # parse[j].type
  /\ \A i \in Frames : phase = "parse" => heap[parse[i].type] = "live"
  /\ \A i \in Frames, p \in Pads : decl_map[p].type # parse[i].type
  /\ \A i \in Frames : parse[i].loop # NoPad => decl_map[parse[i].loop].type = NoType

\* An unborn type is nowhere.
UnbornUnknown ==
  \A t \in Types : heap[t] = "unborn" =>
    /\ \A i \in Frames : parse[i].type # t
    /\ \A p \in Pads : decl_map[p].type # t

IInv ==
  /\ TypeOK /\ OneOwner /\ OwnerKept /\ MapLive /\ DeletedOnce
  /\ FramesWhole /\ FramesApart /\ FramesFresh /\ UnbornUnknown

\* What is parsed inside a declaration is nested: the calls above it ...
CallsNested ==
  \A i, j \in Frames : i < j /\ parse[i].loop = NoPad => parse[j].type \in nested

\* ... and those that have returned to it, or to a call above it.
EntriesNested ==
  \A i, j \in Frames : i <= j /\ parse[i].loop = NoPad =>
    \A p \in parse[j].ops : decl_map[p].type # NoType => decl_map[p].type \in nested

\* The sub is compiled when nothing is parsed any more, and never after a crash.
CompiledWhole ==
  /\ phase = "run" => parse = <<>>
  /\ crashed => phase = "parse"

\* A live type that was not nested is being parsed, or an entry has it.
LiveHeld ==
  phase # "freed" /\ ~ crashed =>
    \A t \in Types : heap[t] = "live" /\ t \notin nested =>
      (\E i \in Frames : parse[i].type = t) \/ (\E p \in Pads : decl_map[p].type = t)

\* A variable that was declared with a type has it, or its declaration is still
\* being parsed.
Declaring(p) ==
  \E i \in Frames : /\ parse[i].type = said[p]
                    /\ parse[i].loop = p \/ (parse[i].loop = NoPad /\ p \in parse[i].ops)

SaidHeld ==
  ~ crashed =>
    \A p \in Pads : said[p] # NoType /\ said[p] \notin nested =>
      decl_map[p].type = said[p] \/ Declaring(p)

\* A variable declared without a type is in the tree of a declaration, or has an
\* entry, only if it stood in an initializer; that of a typed loop has a type.
UntypedInner ==
  /\ \A i, j \in Frames : i <= j /\ parse[i].loop = NoPad =>
       \A p \in parse[j].ops : said[p] = NoType => p \in inner
  /\ \A p \in Pads : decl_map[p].type # NoType /\ said[p] = NoType => p \in inner
  /\ \A i \in Frames : parse[i].loop # NoPad => said[parse[i].loop] # NoType

NestingInv ==
  /\ CallsNested /\ EntriesNested /\ CompiledWhole /\ LiveHeld /\ SaidHeld
  /\ UntypedInner /\ LeakOnlyNested
=============================================================================
