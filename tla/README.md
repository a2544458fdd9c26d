# Perl::JIT, modelled in TLA+

Perl::JIT is a perl extension that compiles parts of perl subs to machine code
with LLVM.  This directory holds a verification development of its compiler
front end and emitter: TLA+ modules translated from the C++ and perl sources
under `src/Perl-JIT/`, TLC configurations that check them on small instances,
and TLAPS proofs for the six components whose properties are proved at any size.

All paths below are relative to `src/Perl-JIT/`.

## 1. The system

Everything runs inside one perl interpreter, on one thread; the difficulty is
not concurrency but shared mutable state between recursive and re-entrant
passes over one op tree, and edits that are recorded in one pass and carried
out in another.

| part | state it keeps | operations | who calls it |
|---|---|---|---|
| keyword plugin, `src/pj_keyword_plugin.cpp` | a map from pad offsets to types, hung on the CV being compiled | `typed T my-list`, `for typed T $x`, free with the CV | perl's parser, possibly nested |
| candidate finder, `src/pj_optree.cpp`, with `src/OPTreeVisitor.cpp` | backlog of the walk; last nextstate, current sequence, skip flag, candidates, declared variables | `visit_op`, `pj_build_ast` and its helpers | `pj_find_jit_candidates`, and itself, below ops that have no AST |
| loop control tracker, `src/LoopCtlTracker.cpp` | hash map from labels to stacks of scopes | `push_loop_scope`, `add_loop_control_node`, `pop_loop_scope` | `pj_build_loop`, `pj_build_ast` |
| AST terms, `src/pj_ast_terms.cpp` | a heap of terms: class, op, kids or members, type | constructors, destructors, `get_kids`, `dump` | finder, emitter, perl code |
| type lattice, `src/pj_types.cpp` | none (a map inside one call) | `minimal_covering_type`, parsing and printing | perl code, keyword plugin, finder |
| emitter, `src/pj_emit.cpp`, `src/pj_snippets.cpp`, `src/pj_perlapi.cpp` | LLVM builder and current function, subtrees of the JIT op being made, the log of edits, error text | `process_jit_candidates`, `_jit_trees`, `_jit_emit*` | `_jit_sub`, and itself, for the kids of ops it cannot compile |
| log replay, `lib/Perl/JIT/Emit.pm` | the log | `jit_sub` | the user |
| JIT op registry and context, `src/pj_emit.cpp` | the set `jit_ops`, one `Cxt` per interpreter, engines held by JIT ops | `create_module`, op free hook, cleanup at exit | perl's op allocator, interpreter exit |
| op tables, `author_tools/regen_opcodes.pl` and `*-gen.inc` | none | two classifying switches, flags of ops | finder, emitter |

How they interact: the plugin annotates a CV while perl compiles it.  Later
`jit_sub` calls `_jit_sub`, which asks the finder for the candidates of the
CV (terms over the op tree, one *statement sequence* per stretch of
statements), drives the emitter over them, and gets back a *log* of `detach`
and `replace` entries.  `jit_sub` then carries the log out with B::Replace.
While the emitter runs, the op tree is only read, except that `op_next`
pointers of trees it will call are cleared at once.

What makes it hard, and what each part owes its callers:

* **Re-entrancy.** Below an op without an AST the finder starts a new search on
  itself, in the middle of building a term; the emitter makes a second emitter
  for the kids of such an op, which shares the builder, the current function
  and the log.  Owed: every op is compiled once, whatever interleaving of walk
  and re-entrant search; what the inner emitter does leaves the outer one where
  it was.
* **State that outlives its reader's assumption.** `last_nextstate`, the skip
  flag and the current sequence are written by one visit and read by another.
  Owed: a loop finds its own label, statements are joined only with their
  neighbours.
* **Decisions that are put off.** The target of `next`/`last`/`redo` is decided
  when the loop closes, not when the statement is met.  Owed: the same target as
  lexical scoping would give at once; every statement whose loop is known gets
  it; the user is warned of the others.
* **A log written against one tree and applied to another.** Owed: each entry
  finds its ops where it looks for them; an op that leaves the tree is run by
  something that stays in it.
* **Partial failure.** A function may turn out to be impossible half-way, after
  edits were logged for it; `_jit_sub` may croak with JIT ops already made.
* **Terms that change hands.** Terms are held by plain pointers, moved from one
  parent to another, and deleted in some branches.  Owed: each is deleted at most
  once, never while something still points to it, and none is lost.
* **Code that must outlive its maker.** A JIT op may be freed before or after the
  interpreter's context is gone, by a hook that knows it by its address only.
  Owed: the engine is there as long as any JIT op, and no longer.
* **A moving buffer.** The keyword plugin scans a text that perl's lexer hands out
  in chunks and moves while it does.  Owed: the chunks make no difference; what is
  not taken is left as it was.
* **Iteration over a hash map.** The covering type is folded in the map's order.
  Owed: the result does not depend on it.

The full list, at its lines, is `hazards` in `PROJECT.json`.

## 2. Modules

| module | models | kind |
|---|---|---|
| `LoopTargets` | what resolving a jump means: brackets and the innermost loop that answers | abstract specification |
| `LoopControl` | `LoopCtlTracker`, as `pj_build_loop`, `pj_build_ast` and `pj_find_jit_candidates` drive it | component, implements `LoopTargets` |
| `LoopControl_proofs` | theorems about `LoopControl` and that it implements `LoopTargets` | proofs |
| `Terms` | the classes of AST terms: members, destructors, `dump`, over a heap | operators |
| `CandidateFinder` | `OPTreeJITCandidateFinder`, `OPTreeVisitor::visit` and `pj_build_ast` with its helpers | component, over `Terms` |
| `MCCandidateFinder` | the op trees perl makes of a grammar of small subs | instance |
| `Emit` | `Emitter`, with the log and its replay by `Emit.pm` | component |
| `Emit_proofs` | theorems about `Emit`: the calls, the Emitters and the functions being made | proofs |
| `EmitLog_proofs` | theorems about `Emit`: the log and its replay | proofs |
| `EmitKept_proofs` | theorems about `Emit`: that no op of the sub is lost | proofs |
| `MCEmit` | the candidate lists of small subs, laid out by paths | instance |
| `JitOps` | the context, its engine, Emitters, JIT ops, their registry and the op free hook | component |
| `JitOps_proofs` | theorems about `JitOps` | proofs |
| `KeywordPlugin` | the plugin from the keyword to the type, parsing and printing of types | component |
| `KeywordPlugin_proofs` | theorems about `KeywordPlugin` | proofs |
| `MCKeywordPlugin` | texts of up to four tokens and all names of types, cut in every way | instance |
| `TypedDeclarations` | the nested calls of the plugin, the declaration map and the declaration terms that share its types | component |
| `TypedDeclarations_proofs` | theorems about `TypedDeclarations`: the map and its owners, what nesting overrules and leaks | proofs |
| `MCTypedDeclarations` | three variables, one of them an array, and three types | instance |
| `TypeCover` | `minimal_covering_type` and its reference | component |
| `TypeCover_proofs` | theorems about `TypeCover` | proofs |
| `MCTypeCover` | vectors of types | instance |

Operators whose names say what they get wrong (`OpenLoopNamedOnly`,
`CoverTagsIntWins`, ...), each preceded by the words "Faulty variant", are not
part of any specification.  They are plausible mistakes in the definition that
follows them; `mutants` in `PROJECT.json` pairs each with the property that
finds it.

### LoopControl

`index` is the map from labels to stacks of `LoopCtlStatementList`, `keys` its
key set, kept apart because `operator[]` creates entries and the final warning
is decided by the keys alone (`pj_optree.cpp:1516`).  `open` is the C++ stack of
`pj_build_loop` frames.  `OpenLoop` is the part of `pj_build_loop` before it
recurses (both pushes of a labelled loop), `CloseLoop` the part after it (both
pops with their fix-ups and erasures), `AddNode` a loop control statement with
its `add_loop_control_node`, `AddDynamic` one whose label is an expression,
`Finish` the end of `pj_find_jit_candidates`.  The field `depth` of a scope is
history: no action reads it.

The table of ops checked in at this commit lists neither OP_NEXT, OP_LAST nor
OP_REDO, so that the tracker's second half is reached only with a table that
has them (their lines in `author_tools/opcodes:193` are commented out, while
`t/045_ast_loop_control.t` expects them).  The constant `Admitted` says which
table is meant; the runs and theorems cover both.

### Terms and CandidateFinder

A term is a record of its class, its op, its kids and how often it was deleted,
and stands at an index of a heap.  The classes fall into families by what their
members, destructors and `dump` do: operators, loops, lists, transformations,
calls, sorts, statements, and terms without kids.  `Deleted` follows destructors
(only those of operators and lists take their kids along), `Reached` all pointers,
and `Dumped` follows `dump`, which may meet a NULL, stop short, or abort.

An op is a record of its kind, identity, name, flags, kids and replacement (a
substitution's code, which is no kid of it); the kinds are what the code tells apart.
`backlog` is the visitor's list; one round of its loop on the root op is the action `VisitNext`.  Everything below a visit (`pj_build_ast`,
a re-entrant visit) is one call in the code and one step in the model, written as
mutually recursive operators over the record `finder`, which has one field per
member of the class plus history (`built`: which op went through `pj_build_ast`,
in order; `loops`: which label was read for which loop).  What the
search comes to grief on is named by `failed`: a null `last_nextstate`, or, where
`asserts` says that the build has assertions (`Build.PL:38`), the one that a sort has a
comparison (`src/pj_optree.cpp:906`).

The order in which C++ evaluates the arguments of a constructor is not defined;
where two of them build terms it decides in which order, and what a re-entrant
search finds.  `backwards` says which way the compiler goes, and both are checked.
`pj_build_ast` returns NULL for one shape of loop only (`src/pj_optree.cpp:560`),
which perl does not compile; its callers' unwinding is therefore left out.  The
declarations' types are the business of `TypedDeclarations`, and the scopes of
`LoopControl`: a loop here leaves only the label it read.

### Emit

A term is the path that leads to it from the list of candidates, and `sub` says of
each path what stands there; perl's order of execution can be read off the paths.
An op that serves several terms (the `$x = ... + ...` that writes to `$x` itself) is
`shared`: `OpOf` is the path of the term whose op it is, and `Targets` are these ops.

The recursion of `pj_emit.cpp` is in steps.  `calls` is the C++ stack: a call of
`process_jit_candidates` with its queue (`process`), its case of a statement sequence
(`sequence`), `_jit_trees` with the trees of the function (`trees`), and of
`_jit_emit` on a term (`emit`), waiting for an operand (`binop`) or for the search of
the kids of an op that stays perl's (`kids`).  Each call knows the Emitter it is a
member function of (`this`, which counts them from the outside) and the function it
emits for (`fn`).  A call that returns leaves its `bool` in `ok` or the type of its
`EmitValue` in `value`.

`subtrees` is the member of that name of each Emitter alive.  What the Emitters share
is one variable each: `log`, the function the builder stands in (`cur`), the
instructions of each function (`fns`), the JIT ops made (`jits`) and the ops whose
`op_next` was cleared.  `work` says which instructions were emitted on behalf of each function (`fns` says which
it holds), `ran` which trees it runs and `failed` which ones were given up: history.
When the outermost call has returned, `Apply` replays one log entry at a time on `up`,
the op tree as a map from ops to the op above, the way B::Replace (external) does.

A value is what type it has: a double, an integer, a scalar, or none for one that
could not be emitted.  `ToNv` is the coercion, an `SvNV` for a scalar, which may
run a magic's code and is therefore an instruction whose order counts.  What
`verifyFunction` makes of a malformed function is left out.

### JitOps

`context` is the `my_cxt_t`: whether it is there, the state of its module pointer
and whether it holds the engine and the PerlAPI.  `uses` is the use count of the
`shared_ptr` to the one engine, `emitters` the nesting of `Emitter` objects, each
with a copy of it, `jit_ops` the set of addresses and `heap` what stands at each
address.  `JitSubFirst`, `JitSubNoEngine` and `JitSubAgain` are the three ways
through `create_module`, `JitTrees` makes a JIT op, `EndJitSub` ends `_jit_sub`
either with a log that is carried out or with a croak that drops it, `Compile`
and `FreeOp` are perl's allocator with the free hook, `Cleanup` the exit handler.

Nothing is ever erased from `jit_ops`.  When the address of a JIT op that was
freed is given to an OP_STUB or OP_LIST of perl's own, the hook runs the
destructor on it once that is freed (`ReleaseStray`: whatever the two words behind
the op hold).  The model does so too, `recycled` remembers that it came to this,
and the properties hold until then (`NoneRecycled`).

### KeywordPlugin

The text behind a keyword is a sequence of tokens.  The lexer is two places in it,
`bufptr` and `bufend`; it reads on in chunks, cut anywhere.  `Dispatch` is the entry
of the hook with the test of the hint, `ParseTypedKeyword` and `ParseTypeBegins` what
comes before a scan; `ScanWord`, `ScanChunk`, `ScanEnd` and `PeekEnds` or `LexEnds`
are the loop of `S_peek_to_whitespace` and `S_lex_to_whitespace`, a step for a token
or chunk.

`parse_type` of `src/pj_types.cpp` is a recursion, in steps: `open` is the C++ stack
of `parse_nested` calls, `str` where the string begins that is left to the innermost
one, `type` what it returns.  `ParseScalar` and `ParseNested` are the cases of
`parse_type_part`, `ParseClosed` the bracket behind an element, `ParseTypeEnds` the
return to the hook; a null type goes up through all the calls at once (`Fails`).

The reference knows neither chunks nor steps: it cuts words out of the text and
compares them with the name that `to_string` prints of a type (`Name`).

### TypedDeclarations

`parse` is the C++ stack of `S_parse_typed_declaration` and
`S_parse_typed_loop`: either calls perl's parser, which may call the plugin
again.  `Begin...` is the part before the parser is called, `End...` the part
after it returned, which annotates every `my` of the tree it got (`ops`), the
initializer's too.  What perl's parser does in between (`Introduce`,
`Initializer`, `Compiled`) is external and free.  That the type was found is what
`KeywordPlugin` ends with.  `decl_map` has an entry for
each variable, which may own its type; `heap` says what became of each `Type`.
`Declare` is the first `get_declaration` of a search for a variable, `DeleteTerm`
a declaration in the kids that `pj_free_term_vector` frees, `FreeSub` the magic's
free hook, with which a croak in the middle of compilation ends as well.  The
walk meets declarations in its own order; which of them is the last, and thus
the owner, is left open.  `twice` and `crashed` record a second deletion and the
use of an empty vector's back; `nested`, `inner` and `said` are history: which types
and which plain `my` variables were declared in an initializer, and the type the source
gives each variable.

### TypeCover

A type is its shape (array and hash constructors from the outside in) and the
tag inside.  `UniqueTypes` is the map keyed by printed names, `Fold(t)` one
iteration of the loop, for any entry not seen yet: TLC and the proofs thus cover
all orders of the hash map.  The reference is `Holders`: which type holds the
values of which, written from `t/021_covering_types.t` and `doc/types.txt`.

## 3. Runs

| run | instance | distinct states | shows |
|---|---|---|---|
| `loop_control` | 3 loops, 2 jumps, 2 names, `FairSpec` | 66310 | the tracker mirrors the open loops; each jump waits once; implements `LoopTargets`; every filed jump is resolved; the warning is justified and misses no unknown label |
| `finder` | 5477 subs, each in both orders of evaluation and with and without assertions | 181082 | every root op and every loop is built once, but for those named below; own labels; sequences are stretches of siblings; no term is deleted twice or while pointed to, none is lost, each candidate can be dumped |
| `emit` | 4724 candidate lists | 167104 | the log replays; JIT ops own what they run; no op and none of its work is lost unless a function was given up, a nested one took the work along, or the work was to store a sum; work is done in perl's order; a NULL type is met only where an operand has no value |
| `cover` | vectors of up to three types, and t/021's | 26527 | the least covering type, in any order |
| `typed` | 3 variables, 3 types, 2 searches | 806908 | types in the map have one owner and live; deleted once unless a term took them along; what is leaked, and what has another type than its declaration gives it, or one though that gives none, was declared in an initializer |
| `jit_ops` | 3 addresses, Emitters 3 deep | 37786 | the use count is the number of holders; code outlives the context and goes with the last JIT op |
| `plugin` | texts of up to 4 of 7 tokens, all names two deep, cut in chunks in every way | 121899 | exactly what reads as typed with a type's name is taken, whatever the chunks; the rest is left |
| five runs that end in a violation | as above | | section 5 |

`EachOpOnce` speaks of the ops that start an AST (`IsRootOp`) and of loops.  It says that
they are built once, or not at all if they are lost behind an Empty term or an
initializer (`LostOps`, section 5) or no call is made for them (`PassedOver`: the
assignment in `||=`, the scope or stub that is a loop's body, the stub of an empty
block, the code a substitution evaluates).  It says nothing of what becomes an Empty
term, and of the ops below a null that fell back to an Optree, which are searched again
(`SearchedTwice`).

`CodeKept` compares the sub before and after by what the functions hold (`Does`: their
instructions and the trees they call, `fns`), not by what was emitted on their behalf.
An op that is gone must be done (`Works`) by the JIT op of a function around it that
is in the program, or be one of two exceptions which the code makes and section 5
describes: its instruction strayed into the function of a nested tree (`Strayed`), or it
is an assignment by OPpTARGET_MY whose sum was compiled and whose target is not set
(`Unassigned`).  `NothingDropped` of `Emit` asks the same of every sub, one with a
function that was given up too.

`SaidUnlessNested` holds for typed variables and untyped ones.  It excepts those that are
declared in the initializer of another declaration (`Overruled`), which takes them for
its own, whether they have a type of their own or none.

Why the bounds are enough.  Three loops give a named loop inside a named loop of
the same or another name with an unlabelled one in between, before or after, and
two jumps can wait in one scope, in two of one stack, or in two stacks.  The
finder's subs nest two levels with up to two statements in each block: enough
for each construct to stand before, behind and inside each other, and for a
re-entrant search to find a sequence open.  Its expressions put every case of
`pj_build_ast` around two operands of each sort (among them declarations and
elements that fall back), twice nested where a case moves terms, and follow them
by a statement that uses what they declared.  Candidate lists nest additions and
foreign ops three levels deep, so that an inner function is made while an outer
one is open, on either side of an operand that was already emitted, and in a branch of
a condition; the operands include an assignment that shares its op with an addition,
or with a call whose own operands can be compiled.  Three
declarations give one in the initializer of another with a third around, inside
or beside them, as declaration or as loop; with three variables one of them can annotate two others at once.
The three types are alike, and so are the two scalar variables and the searches:
symmetry over them is sound, for only invariants are checked.  Vectors of
three types cover all orders in which a fold can go wrong; composites of two
levels reach the recursion.  Three addresses give a JIT op in a sub, one in a log
and an op of perl's own at the same time; three Emitters are one more than needed
for two to hold the engine besides the context.  Four tokens are `typed` in its
halves with space on both sides, or a constructor with its type and bracket, and
the longer texts that matter, names of types and `for typed`, are added; a chunk may
end before and behind each token.

`CHECK_DEADLOCK FALSE` stands in every configuration because every one of these
passes ends.

Fairness: only `LoopControl` has any.  `FairSpec` asks for weak fairness of
`CloseLoop` and `Finish`: `pj_build_loop` recurses over a finite op tree and
returns, and the driver reaches its end.  Opening loops and meeting jumps is the
environment's choice and has none.

## 4. Proofs

`LoopControl_proofs` holds for any sets of loops, jumps and names, and any depth of
nesting.  It assumes `LoopControlConstants`
only: the sentinels are no labels and no loops.

* `ScopesMirrorLoops` is inductive with `TypeOK`.
* `WaitsOnce` is not: it needs that a statement which was not filed has no target
  (`OnlyFiledTargeted`).
* The warning needs to know who left an entry without scopes
  (`EmptyEntryExplained`), and that the entry of an unknown label is never erased
  (`UnknownLabelKept`), which in turn needs that open loops are on record with
  their labels (`OpenLoopsBuilt`): a loop that could erase it would answer to it.
* `IInv` is their conjunction (`InvariantCorrect`).
* `ResolutionIsLexical`: under the mapping that sends a waiting statement to the
  loop that pushed its scope, every step is a step of `LoopTargets` or a stutter.
  The heart is `AddMaps`: the last scope of a label's stack belongs to the
  innermost open loop that answers to the label, which is `ScopesMirrorLoops`;
  and `CloseMaps`: the statements that get a target at a pop are those that were
  mapped to this loop.

`TypeCover_proofs` holds for any set of shapes and inputs, assuming only that
they are well formed.  The invariant `IInv` strengthens `LeastSoFar` by what the
fold needs of the type in hand: it exists as soon as one type was seen, it is
none of the tags for which the code aborts, and if it is a composite it is one of
the given ones.  The table of pairs of tags is proved row by row (`TagCover`),
the rest is transitivity of `Holds`.

`TypedDeclarations_proofs` holds for any variables, types and searches, and any
depth of nesting, assuming that the sentinels are no types and no variables.
`OneOwner` and `OwnerKept` are not inductive: a declaration that overwrites the
owner of a type and leaves another of its entries would break the second.
`FramesWhole` says that it cannot, for a tree that is being parsed contains all
the entries of an earlier declaration or none; it is kept because the calls on
the stack have trees, loop variables and types of their own (`FramesApart`,
`FramesFresh`).  `DeletedOnce` then follows at the end of the sub from
`OneOwner` and `MapLive`.

Its second half, on what nesting overrules and leaks, builds on that invariant.  The end
of a declaration gives its type to every variable in its tree, and whatever it overwrites there was nested:
a call inside that of a declaration makes a nested type (`CallsNested`), and where a
variable in such a tree has an entry already, its type is nested (`EntriesNested`),
for the declaration that made it has returned into this one's initializer.  A loop's
variable has no entry yet.  With `OwnerKept` it follows
that a type that is alive is in the map, in a call that is not over, or nested
(`LiveHeld`), which at the end of the sub is `LeakOnlyNested`.  In the same way a
variable has the type its declaration says, is being declared, or was nested
(`SaidHeld`); and a variable without a type is in the tree of a declaration, or has an
entry, only if it stood in an initializer (`UntypedInner`: the names of the declaration
itself have its type).  When the sub runs there are no calls left (`CompiledWhole`),
which gives `SaidUnlessNested`.

`KeywordPlugin_proofs` holds for texts of any length, cut anywhere, and types of any
depth, assuming that the sources are texts of the tokens and that the null type is no
type.  The place where a type's name begins is unique (`WordBeginsOnce`: there is one
first word behind a place), so that what the scans find and what the reference cuts
out can be compared; `ScanStage` says that a scan has not met space, whatever chunks
came in between.  There is no induction over types: the recursion of `parse_type` is a
stack, and the invariant `ParseStage` says of the text read so far that it is the
constructors on the stack (`Descending`), and on the way back also the printed name of
the type in hand (`Returning`).  That a failed parse means that no type's name stands
there is the hard half: from such a name it follows which token stands at each place
(`Descending` again, from the front; the scalar ends the constructors).
`EveryNameTaken` says that the reference loses no name by cutting words.

`JitOps_proofs` holds for any finite set of addresses (`AddressFinite`) and any
bound on the nesting of Emitters (`SomeEmitters`).  `UsesCounted` alone is not
inductive: a release must not find the count at zero, which it follows from only
if the one who releases is counted (`Recorded`: the hook looks at JIT ops and
nothing else; `ContextWhole`: an Emitter holds the engine exactly if the context
does, for neither changes under it).  `EngineHeld` ties the engine to the count;
`CodeOutlivesContext`, `EngineGoes` and `CrashExplained` then follow from the
number of holders being zero or not, which is where the cardinality of a finite
set that gains or loses one address comes in.

`Emit_proofs` holds for any set of candidate lists, of any length and depth, assuming
`SubsAssumption` only: each is a tree of terms of the shapes the finder builds
(`IsTree`).  There is no induction over terms: the recursion is the stack of calls,
and the invariant says what the calls on it owe each other.

* `Stack`: each call is well formed (`CallWhole`), was called by the one below it for
  a reason (`Called`), and lies inside every call below it (`Inside`): its term is
  below, its Emitter as new or newer, newer in particular when a search goes on under
  an emission.  Two emissions of one Emitter are for one function.  All the rest leans
  on this.
* `SubtreesRun` strengthens `OwnsWhatItRuns`: while a function is being made the
  subtrees of its Emitter are the trees it runs so far.  That a nested Emitter leaves
  them alone is `Inside`; that a function which is given up leaves nothing behind is in
  `TypeOK`, where an Emitter between two trees has no subtrees.  A function whose JIT
  op is made is emitted for no longer, so that what the op owns stays what it runs.
* `WorkBehind` strengthens `PerlOrder`: what was emitted for a function stands to the
  left of what the calls that emit for it still have to do, or below what they have
  done (`Behind`).  An instruction then comes behind all those before it.
* `ValuesExplained` and `FailureExplained` strengthen `NullTypeExplained`: a null type
  was returned for a term that has no value, and a search failed only because there is
  a statement sequence below the op it was for.  The type of a left operand waits in
  the call of the addition while anything at all is compiled for the right one.
* `ClearedLogged` needs that the log only grows until it is applied (`LogGrows`), and
  that a shared op is that of the term above.

`IInv` is their conjunction.  TLC finds it to hold in all states of the instance of
the run `emit`; it is no property of that run, which has its parts that matter.

`EmitLog_proofs` builds on that invariant and adds `LogInv`, under the same assumption.
`LogReplays` says of the next entry that its op is in the sub; what makes it so was
decided long before, when the entry was logged.

* While terms are emitted: each call cuts something out of the tree, itself or by the
  calls it makes, and what it cuts (`Scope`) is below what the call under it is busy
  with and apart from everything that one is still to turn to (`ApartStack`).  What an
  edit in the log cuts is, in the same way, behind every call on the stack
  (`LogPassed`).
* Therefore no edit cuts an op below one that an earlier edit cut (`InnerFirst`): the
  log takes the tree apart from the inside.
* While the log is replayed: the ops from one that is still to be cut up to the root
  stand where perl put them (`Stands`), for what an edit moves is not above a later
  one.
* `InProgram` is a recursive function over the tree as it is then, which may be any
  graph as far as the types know.  That it is defined on a path to the root is proved
  without induction: the ops from which one gets to the root form a set that is closed
  (`EndsExist`), and of the ops on a path that do not get there the one next to the
  root could be taken, which does.

TLC finds `LogInv`, too, to hold in all states of the instance of the run `emit`.

`EmitKept_proofs` adds `KeptInv`, and proves `CodeKept` from the three.  `LogReplays`
speaks of the ops above an entry, which the entries before it leave alone; `CodeKept`
of all ops after all entries, of JIT ops that end up in other JIT ops, and of which
term was compiled into which function.  Two conditions of `IsTree` are needed for it
alone: variables, constants, globals and optrees have no kids, and what an assignment
by OPpTARGET_MY assigns to shares its op as well (`src/pj_optree.cpp:342-355`).

* Of the terms, while they are emitted: a finished emission covers all terms below it
  (`Compiled`): for each with an op an instruction was emitted on behalf of the function
  (`work`), or that of the addition a constant is taken by, or the function calls a tree
  it is in.  The value of a call, the
  left operand of an addition and the tree of each function made are finished
  emissions.
* No addition is done by two functions or twice (`AddedOnce`), so that a sum inside
  another one's place that has a function of its own must be in a tree the outer
  function calls.  No function is forgotten (`FunctionsAccounted`).
* Of the ops: a function calls trees of its own subtree, none of which is a sum or a
  statement it would then replace (`RunsWhole`).  The log still holds an edit for each
  of them that stands, and a replacement for each function made, the latter behind the
  detaches (`LogWhole`).
* While the log is carried out each op stands where perl put it, waits detached for a
  JIT op that is still to come, is below that JIT op, or was replaced by it; a JIT op
  stands in the place of what it replaced (`Placed`).
* At the end the log is empty, so that no op waits.  An op which all functions around it
  merely call (`KeptOp`) has another such op, or the root, above it, JIT ops left
  aside (`KeptStep`).  Were one not in the program, the highest of them would have one
  above it that is not either (`KeptIsInProgram`: well-foundedness of the natural
  numbers takes the place of induction).  An op that some function around it does not
  call was emitted for it or is an assignment of its sum, and the JIT op of that function
  is itself in the program.
* Of the builder, as long as no function was given up: it stands in the innermost
  function that is being made, or in one made since for a part of its tree
  (`BuilderStands`).  Each instruction is therefore in the function it was emitted for,
  or in one for a part of the same tree (`NotLost`), which is what `Works` and `Strayed`
  ask for at the end.

TLC finds the parts of `KeptInv` to hold in all states of the same instance.

Only model-checked:

* `EventuallyResolved`: liveness.
* All of `CandidateFinder`, which is recursions over terms and op trees.
* The properties of section 5, which do not hold.

## 5. Where code and repository disagree

Each of the following has a run that ends in a violation of the property named.

* `NextstateKnown`: `pj_build_loop` may find no `last_nextstate`
  (`src/pj_optree.cpp:587`), against the assertion `src/LoopCtlTracker.cpp:17`.
* `StatementsKept`: what follows an empty block, or a C-style for, in a block is not
  built (`src/pj_optree.cpp:392`), against `t/031_ast_blocks.t`.
* `FunctionsWhole`: after a nested tree the outer function goes on in the inner one
  (`src/pj_emit.cpp:416`), against `t/110_non_jittable.t:51`.
* `NothingDropped` of `Emit`: a function that is given up leaves its subtrees detached
  (`src/pj_emit.cpp:256`), against `t/110_non_jittable.t:28`.
* `DeclaredSemantics`: a typed declaration in the initializer of another one is
  overwritten with the outer type (`src/pj_keyword_plugin.cpp:225`), against
  `doc/types.txt:9`.

Smaller disagreements met on the way, with no run of their own:

* A sequence of jittable statements makes `_jit_sub` croak
  (`src/pj_emit.cpp:541`), while `t/115_sequences.t:6` expects it compiled; an
  addition to an Opaque variable is compiled (`src/pj_emit.cpp:453`), which
  `t/110_non_jittable.t:65` says is not.
* A declaration below a fallback is deleted with the terms there
  (`src/pj_optree.cpp:1195`) while `variables` and candidates still point to it:
  `PointersLive` and `DumpWhole` except it (`DoomedDeclarations`).
* The comparison of a sort is asserted (`src/pj_optree.cpp:906`) whether it has one or
  not, so that in a build with assertions the search dies of a plain `sort @x`, which
  `t/046_ast_sort.t` ("Simple bare sort") expects to be built.  `DumpWhole` and
  `EachOpOnce` say nothing of such a sub in such a build.
* The code that a substitution evaluates (`s/.../.../e`) is visited by
  `src/OPTreeVisitor.cpp:43` only if the visit goes below the substitution, and the
  finder never does: a substitution starts an AST, and `pj_build_ast` leaves its
  replacement out (`src/pj_optree.cpp:1434`).
* A `my` without a type in the initializer of a typed declaration has the outer type
  (`src/pj_keyword_plugin.cpp:225`), while `doc/types.txt:3` says that it is of
  unspecified type: the exception `inner` of `SaidUnlessNested`.
* A declaration made on behalf of a use (`src/pj_optree.cpp:352` and `:1066`) has no
  op, while `get_pad_index` reads one (`src/pj_ast_terms.h:215`).
* An op whose operand is missing (`rand` without one, `src/pj_optree.cpp:978`) has a
  NULL kid, which `dump` expects and `process_jit_candidates`
  (`src/pj_emit.cpp:258`) does not.
* `S_sigil_character` has no case for the sigil of subs, so that the dump of `\&f`
  aborts (`src/pj_ast_terms.cpp:416`): the exception in `DumpWhole`.
* `ListTransformation::get_kids` is not const (`src/pj_ast_terms.h:431`) and does not
  override `Term`'s; `SubCall` and `Sort` have none.  The emitter never finds what
  could be compiled below them.
* Without the hint the plugin declines by itself (`src/pj_keyword_plugin.cpp:315`);
  the plugins installed before it, which `PJ_next_keyword_plugin` is kept for
  (`src/pj_global_state.cpp:10`), are not asked.
* An integer constant is coerced by `CreateFPCast` (`src/pj_emit.cpp:708`), which for
  two types of the same width is a bit cast and no conversion.
* The initializer of a C-style for is built before its loop's label is read, so
  that a `do` block in it replaces the label (`src/pj_optree.cpp:1447`,
  `src/LoopCtlTracker.cpp:10`); of a run of nextstates the first is remembered,
  not the last (`src/pj_optree.cpp:374` and `:382`).
* The walk is breadth-first, not depth-first as `src/OPTreeVisitor.h:18` says.
* Where perl writes the result of an op straight to a variable (OPpTARGET_MY), the
  finder makes an assignment that has the same op as what it assigns
  (`src/pj_optree.cpp:343`).  For `$y + ($x = $a + 1)` a nested Emitter compiles the
  `$a + 1` and logs its JIT op in the place of that op (`src/pj_emit.cpp:272`); the
  outer function then logs the detach of the op that is gone and calls it
  (`src/pj_emit.cpp:531`).  `LogReplays` and `CodeKept` except it (`Targets`,
  `TargetCalled`), and `NothingDropped` too.
* The cases of `_jit_emit_return` lack their breaks, so that OPpTARGET_MY is not
  honoured (`src/pj_emit.cpp:593`): the sum goes to a new mortal and the variable is not
  set, which `t/100_add.t` expects.  `CodeKept` excepts the assignment
  (`Unassigned`).
* `pj_any_type` with a numeric type reaches `abort()` although `src/pj_types.cpp:40`
  calls it the same as unspecified; the covering type of two arrays of unordered
  element types is one of the two (`src/pj_types.cpp:71`), so that Array[Int] and
  Array[UnsignedInt] give whichever comes second (`Ordered` in `TypeCover` leaves
  them out).
* `no Perl::JIT` sets the hint to 0, while the plugin only asks whether the hint
  exists (`src/pj_keyword_plugin.cpp:316`).

## 6. Not modelled

* `LoopControlStatement::dump` and the other terms' wording: a dump is what it gets
  to.  Accessors that read a field; values of constants; `clone` of composite types.
* A type that does not fit its variable, for which `get_declaration` croaks.
* The unwinding in `pj_build_ast` after a NULL, which no tree of perl's reaches.
* The code of the snippets (`src/pj_snippets.cpp`), which a value's type and one
  instruction stand for, and the declarations in `src/pj_perlapi.cpp`.
* The constants exported to perl and the global state, the op table generator, the
  former emitter `lib/Perl/JIT/Emit_old.pm`, the op class copied from B, the build,
  ppport.h: no state of their own, generated, dead or not this system's.
* LLVM, perl itself and B::Replace are external.
* ithreads: the op tree of a cloned interpreter is shared and perl's own; nothing
  in this code clones its context, and the mutex around it is not modelled.

## 7. What remains

1. Proofs about `CandidateFinder`.  `pj_build_ast` and its helpers would have to be
   taken apart into calls on a stack, as in `Emit` and `KeywordPlugin`: `LabelIsOwn` and
   `SequenceIsStretch` first.
2. A composition of `CandidateFinder` and `LoopControl`: the finder's loops as the
   environment of the tracker.
3. The structural part of `Terms` (what `Deleted` and `Unnested` leave alone) as
   lemmas, once `Deleted` is written without recursion.
