-------------------------------- MODULE Emit --------------------------------
(***************************************************************************)
(* The Emitter of src/pj_emit.cpp and jit_sub of lib/Perl/JIT/Emit.pm: how *)
(* the candidates of one sub are turned into functions, JIT ops and a log  *)
(* of edits, and what the edits make of the op tree of the sub.            *)
(*                                                                         *)
(* A term is the path that leads to it from the list of candidates, which  *)
(* is the empty path; its i-th kid is the path with i behind it.  sub says *)
(* of each its kind, its context, whether it has the assignment form, and  *)
(* whether its op is that of the term above:                               *)
(*   lexical, opaque, decl, global   variables; opaque is one typed Opaque *)
(*   const, integer, string   a double, an IV or UV, another constant      *)
(*   add              Binop pj_binop_add, the one op in Jittable_Ops       *)
(*   op               any other term whose get_kids has its kids           *)
(*   and, cond        ops of those: a short-circuiting LOGOP, a COND_EXPR  *)
(*   optree           a term without kids: Optree, SubCall, Sort, Map      *)
(*   sequence, statement    as in CandidateFinder; no op, a nextstate      *)
(* The op table gives add PJ_ASTf_OVERLOAD.                                *)
(*                                                                         *)
(* B::Replace, which carries out the edits, and LLVM are external.  What   *)
(* verifyFunction does about a malformed function is left out: the         *)
(* emission goes on.                                                       *)
(***************************************************************************)
EXTENDS Naturals, Sequences, FiniteSets

CONSTANTS
  Subs       \* the candidate lists pj_find_jit_candidates can return

Variables == {"lexical", "opaque", "decl"}

Constants == {"const", "integer", "string"}

Kinds == Variables \union Constants
           \union {"candidates", "global", "add", "op", "and", "cond", "optree", "sequence", "statement"}

Paths == Seq(Nat \ {0})

Nodes == [kind : Kinds, ctx : {"scalar", "void", "caller"}, assign : BOOLEAN,
          shared : BOOLEAN, size : Nat]

\* p is q or below it.
Below(p, q) == Len(q) <= Len(p) /\ \A i \in 1..Len(q) : p[i] = q[i]

\* The path of the first n steps of p
Upto(p, n) == SubSeq(p, 1, n)

IsTree(s) ==
  /\ <<>> \in DOMAIN s /\ DOMAIN s \subseteq Paths
  /\ s \in [DOMAIN s -> Nodes]
  /\ \A p \in DOMAIN s :
       /\ \A i \in 1..s[p].size : Append(p, i) \in DOMAIN s
       /\ \A n \in 0..(Len(p) - 1) : Upto(p, n) \in DOMAIN s /\ p[n + 1] <= s[Upto(p, n)].size
       /\ s[p].kind = "candidates" <=> p = <<>>
       /\ s[p].kind \in {"add", "and"} => s[p].size = 2
       /\ s[p].kind \in Variables \union Constants \union {"global", "optree"} => s[p].size = 0
       /\ s[p].kind = "cond" => s[p].size = 3
       /\ s[p].kind = "statement" => s[p].size = 1 /\ s[p].ctx # "scalar"
       /\ s[p].shared => LET over == Upto(p, Len(p) - 1)
                         IN /\ s[over].kind = "op" /\ s[over].size = 2 /\ ~ s[over].shared
                            /\ s[Append(over, 1)].shared
                            /\ \/ p[Len(p)] = 1 /\ s[p].kind = "lexical"
                               \/ p[Len(p)] = 2 /\ s[p].kind \in {"add", "op"}
       /\ s[p].kind = "sequence" => s[p].size > 0
                                    /\ s[Upto(p, Len(p) - 1)].kind \in {"candidates", "op"}
       /\ \A i \in 1..s[p].size : s[Append(p, i)].kind = "statement" <=> s[p].kind = "sequence"

ASSUME SubsAssumption == \A s \in Subs : IsTree(s)

VARIABLES
  sub,       \* the candidates and the terms below them
  calls,     \* the active calls, the innermost last
  subtrees,  \* the member of this name of each Emitter alive, the innermost last
  value,     \* the type of the EmitValue last returned, "none" for a null one
  ok,        \* the bool last returned
  log,       \* ops, the edits so far
  cleared,   \* the ops whose op_next was cleared
  fns,       \* the functions made, as the instructions in each
  cur,       \* the one the builder inserts into
  work,      \* history: the instructions emitted for each function,
  ran,       \* history: and the trees it runs
  jits,      \* the JIT ops made
  failed,    \* history: the functions given up
  pc,        \* "emit", "apply", then "done"; "croaked" or "crashed"
  up         \* the op above each op: what B::Replace has made of the tree

vars == <<sub, calls, subtrees, value, ok, log, cleared, fns, cur, work, ran, jits, failed, pc, up>>

code == <<fns, cur, work, ran>>

edits == <<log, cleared>>

made == <<jits, failed>>

Terms == DOMAIN sub

Kind(p) == sub[p].kind

Kids(p) == [i \in 1..sub[p].size |-> Append(p, i)]

\* get_perl_op of a term that has one
OpOf(p) == IF sub[p].shared THEN Upto(p, Len(p) - 1) ELSE p

\* Where an op is that no op is above: the sub's root, detached, freed.
Root  == <<>>
Loose == <<0, 0, 0>>
Freed == <<0, 0, 0, 0>>

JitOp(f) == <<0, f>>

KnownOp(p) == Kind(p) = "add"

Overloaded(p) == Kind(p) = "add"

\* needs_excessive_magic: it looks below overloaded ops only.
NeedsMagic(p) ==
  \E q \in Terms :
    /\ Below(q, p) /\ Kind(q) = "opaque"
    /\ \A n \in Len(p)..(Len(q) - 1) : KnownOp(Upto(q, n)) /\ Overloaded(Upto(q, n))

\* is_jittable, of a term that is neither statement nor sequence, and of any
JittableTerm(p) ==
  \/ Kind(p) \in Variables \union Constants
  \/ KnownOp(p) /\ (Overloaded(p) \/ ~ NeedsMagic(p))

JittableStatement(p) == Kind(p) = "statement" /\ JittableTerm(Append(p, 1))

Jittable(p) ==
  \/ JittableTerm(p) \/ JittableStatement(p)
  \/ /\ Kind(p) = "sequence"
     /\ 2 * Cardinality({i \in 1..sub[p].size : JittableStatement(Append(p, i))}) >= sub[p].size

\* _jit_clear_op_next: the ops whose op_next leaves the tree
Exits(p) ==
  {OpOf(q) : q \in {q \in Terms :
     /\ Below(q, p) /\ Kind(q) # "cond"
     /\ \A n \in Len(p)..(Len(q) - 1) :
          \/ Kind(Upto(q, n)) = "and"  /\ q[n + 1] = 2
          \/ Kind(Upto(q, n)) = "cond" /\ q[n + 1] \in {2, 3}}}

-----------------------------------------------------------------------------
(* Calls: what each knows when it goes on.  this is the Emitter it is a    *)
(* member function of, term what it is about, fn the function it emits for *)

\* process_jit_candidates of the kids of p
Process(this, p) == [at |-> "process", this |-> this, term |-> p, queue |-> Kids(p)]

\* The case of a statement sequence: seq is the kids from first to next - 1.
Sequence(this, p) == [at |-> "sequence", this |-> this, term |-> p, first |-> 1, next |-> 1]

\* _jit_trees of the tree p, or of statements of the sequence p
Trees(this, p, asts, f) ==
  [at |-> "trees", this |-> this, term |-> p, asts |-> asts, n |-> 1, fn |-> f]

Emit(this, p, f) == [at |-> "emit", this |-> this, term |-> p, fn |-> f]

\* left is the value of the left operand once it is there.
Binop(this, p, f) == [at |-> "binop", this |-> this, term |-> p, fn |-> f, left |-> "pending"]

JitKids(this, p, f) == [at |-> "kids", this |-> this, term |-> p, fn |-> f]

Top == calls[Len(calls)]

Outer == SubSeq(calls, 1, Len(calls) - 1)

\* The innermost call goes on as this, and calls that.
Continue(this, that) == calls' = Append(Append(Outer, this), that)

At(where) == pc = "emit" /\ Top.at = where

Instructions(p, whats) == [i \in 1..Len(whats) |-> [what |-> whats[i], term |-> p]]

\* Builder calls: the instructions go where the builder stands, whatever function
\* f they were meant for.
Insert(f, list) ==
  /\ fns' = [fns EXCEPT ![cur] = @ \o list]
  /\ work' = [work EXCEPT ![f] = @ \o list]

-----------------------------------------------------------------------------
(* The op tree perl compiled                                               *)

HasOp(p) == Kind(p) \notin {"candidates", "sequence"}

Ops == {OpOf(p) : p \in {q \in Terms : HasOp(q)}}

\* The op above this one; that of a statement stands beside its nextstate.
Above(p) ==
  LET over == {n \in 0..(Len(p) - 1) :
                 LET q == Upto(p, n)
                 IN n = 0 \/ (HasOp(q) /\ Kind(q) # "statement" /\ OpOf(q) = q)}
  IN Upto(p, CHOOSE n \in over : \A m \in over : m <= n)

Init ==
  /\ sub \in Subs
  /\ calls = <<Process(1, <<>>)>>
  /\ subtrees = <<<<>>>>
  /\ value = "none" /\ ok = TRUE
  /\ log = <<>> /\ cleared = {}
  /\ fns = <<>> /\ cur = 0 /\ work = <<>> /\ ran = <<>>
  /\ jits = <<>> /\ failed = {}
  /\ pc = "emit"
  /\ up = [op \in Ops |-> Above(op)]

-----------------------------------------------------------------------------
(* process_jit_candidates                                                  *)

Queued == Top.queue

Dequeued(more) == [Top EXCEPT !.queue = more \o Tail(@)]

\* _jit_trees, up to the first _jit_emit_root
JitTrees(frame, p, asts) ==
  LET f == Len(fns) + 1
  IN /\ calls' = Append(Append(Append(Outer, frame), Trees(Top.this, p, asts, f)),
                        Emit(Top.this, asts[1], f))
     /\ fns' = Append(fns, <<>>) /\ cur' = f
     /\ work' = Append(work, <<>>) /\ ran' = Append(ran, <<>>)

Goes(where) == At(where) /\ ok

ProcessVariable ==
  /\ Goes("process") /\ Queued # <<>>
  /\ Kind(Head(Queued)) \in Variables \union Constants \union {"global"}
  /\ calls' = Append(Outer, Dequeued(<<>>))
  /\ UNCHANGED <<sub, subtrees, value, ok, edits, code, made, pc, up>>

ProcessSequence ==
  /\ Goes("process") /\ Queued # <<>>
  /\ Kind(Head(Queued)) = "sequence"
  /\ Continue(Dequeued(<<>>), Sequence(Top.this, Head(Queued)))
  /\ UNCHANGED <<sub, subtrees, value, ok, edits, code, made, pc, up>>

IsOther(p) == Kind(p) \notin Variables \union Constants \union {"global", "sequence"}

\* jit_tree, up to the emission
ProcessTree ==
  /\ Goes("process") /\ Queued # <<>>
  /\ IsOther(Head(Queued)) /\ Jittable(Head(Queued))
  /\ JitTrees(Dequeued(<<>>), Head(Queued), <<Head(Queued)>>)
  /\ UNCHANGED <<sub, subtrees, value, ok, edits, made, pc, up>>

ProcessKids ==
  /\ Goes("process") /\ Queued # <<>>
  /\ IsOther(Head(Queued)) /\ ~ Jittable(Head(Queued))
  /\ calls' = Append(Outer, Dequeued(Kids(Head(Queued))))
  /\ UNCHANGED <<sub, subtrees, value, ok, edits, code, made, pc, up>>

\* The search is over, or a sequence could not be compiled: the Emitter goes with
\* the call that made it, and the log of the first one to jit_sub.
ProcessReturns ==
  /\ At("process") /\ (Queued = <<>> \/ ~ ok)
  /\ calls' = Outer
  /\ IF Outer = <<>>
       THEN pc' = (IF ok THEN "apply" ELSE "croaked") /\ UNCHANGED subtrees
       ELSE subtrees' = SubSeq(subtrees, 1, Outer[Len(Outer)].this) /\ UNCHANGED pc
  /\ UNCHANGED <<sub, value, ok, edits, code, made, up>>

Next1 == Append(Top.term, Top.next)

More == Top.next <= sub[Top.term].size

\* A jittable statement goes to those before it.
SequenceTakes ==
  /\ Goes("sequence") /\ More /\ Jittable(Next1)
  /\ calls' = Append(Outer, [Top EXCEPT !.next = @ + 1])
  /\ UNCHANGED <<sub, subtrees, value, ok, edits, code, made, pc, up>>

\* jit_statement_sequence, up to the emission
SequenceFlushes ==
  /\ Goes("sequence") /\ Top.first < Top.next
  /\ More => ~ Jittable(Next1)
  /\ JitTrees([Top EXCEPT !.first = Top.next], Top.term,
              [i \in 1..(Top.next - Top.first) |-> Append(Top.term, Top.first + i - 1)])
  /\ UNCHANGED <<sub, subtrees, value, ok, edits, made, pc, up>>

\* The others are searched by this Emitter.
SequenceSearches ==
  /\ Goes("sequence") /\ Top.first = Top.next
  /\ More /\ ~ Jittable(Next1)
  /\ Continue([Top EXCEPT !.first = @ + 1, !.next = @ + 1], Process(Top.this, Next1))
  /\ UNCHANGED <<sub, subtrees, value, ok, edits, code, made, pc, up>>

SequenceReturns ==
  /\ At("sequence") /\ (~ ok \/ (Top.first = Top.next /\ ~ More))
  /\ calls' = Outer
  /\ UNCHANGED <<sub, subtrees, value, ok, edits, code, made, pc, up>>

-----------------------------------------------------------------------------
(* _jit_emit                                                               *)

Returning(type) == calls' = Outer /\ value' = type

\* Faulty variant: the cases of IVs and UVs are missing.
ConstTypeDoublesOnly(p) == IF Kind(p) = "const" THEN "double" ELSE "none"

\* _jit_emit_const; any other constant is an error
ConstType(p) ==
  CASE Kind(p) = "const"   -> "double"
    [] Kind(p) = "integer" -> "integer"
    [] OTHER -> "none"

EmitConst ==
  /\ At("emit") /\ Kind(Top.term) \in Constants
  /\ Returning(ConstType(Top.term))
  /\ UNCHANGED <<sub, subtrees, ok, edits, code, made, pc, up>>

\* _jit_get_lexical_sv, _jit_get_lexical_declaration_sv
GetLexical ==
  /\ At("emit") /\ Kind(Top.term) \in Variables
  /\ Insert(Top.fn, Instructions(Top.term, <<"load">>))
  /\ Returning("scalar")
  /\ UNCHANGED <<sub, subtrees, ok, edits, cur, ran, made, pc, up>>

\* Faulty variant: the right operand is emitted first.
OperandRightFirst(p, left) == Append(p, IF left = "pending" THEN 2 ELSE 1)

\* The operand _jit_emit_binop emits
Operand(p, left) == Append(p, IF left = "pending" THEN 1 ELSE 2)

EmitBinop ==
  /\ At("emit") /\ Kind(Top.term) = "add"
  /\ Continue(Binop(Top.this, Top.term, Top.fn),
              Emit(Top.this, Operand(Top.term, "pending"), Top.fn))
  /\ UNCHANGED <<sub, subtrees, value, ok, edits, code, made, pc, up>>

BinopRight ==
  /\ At("binop") /\ Top.left = "pending"
  /\ Continue([Top EXCEPT !.left = value],
              Emit(Top.this, Operand(Top.term, value), Top.fn))
  /\ UNCHANGED <<sub, subtrees, value, ok, edits, code, made, pc, up>>

\* Both operands are coerced once both were emitted; the null type of one that
\* could not be emitted is dereferenced there.
BinopCrashes ==
  /\ At("binop") /\ Top.left # "pending" /\ "none" \in {Top.left, value}
  /\ pc' = "crashed"
  /\ UNCHANGED <<sub, calls, subtrees, value, ok, edits, code, made, up>>

\* _to_nv_value: a scalar is asked for its NV; the cast of an integer, which only
\* a constant is, is folded.
ToNv(type) == IF type = "scalar" THEN <<"SvNV">> ELSE <<>>

\* _jit_assign_sv of the sum, if the left operand is a perl scalar
Assigns == sub[Top.term].assign /\ Top.left = "scalar"

BinopAdds ==
  /\ At("binop") /\ Top.left # "pending" /\ "none" \notin {Top.left, value}
  /\ Insert(Top.fn, Instructions(Top.term, ToNv(Top.left) \o ToNv(value) \o <<"fadd">>
                                             \o (IF Assigns THEN <<"assign">> ELSE <<>>)))
  /\ Returning(IF sub[Top.term].assign /\ ~ Assigns THEN "none" ELSE "double")
  /\ UNCHANGED <<sub, subtrees, ok, edits, cur, ran, made, pc, up>>

IsTreeOfOps(p) == Kind(p) \notin Variables \union Constants \union {"add"}

\* Faulty variant: the nested Emitter works on the subtrees of the outer one.
EmitOptreeSharedSubtrees ==
  /\ At("emit") /\ IsTreeOfOps(Top.term)
  /\ Continue(JitKids(Top.this, Top.term, Top.fn), Process(Top.this, Top.term))
  /\ UNCHANGED <<sub, subtrees, value, ok, edits, code, made, pc, up>>

\* _jit_emit_optree_jit_kids: a second Emitter, with subtrees of its own,
\* sharing the log and the builder.
EmitOptreeJitKids ==
  /\ At("emit") /\ IsTreeOfOps(Top.term)
  /\ Continue(JitKids(Top.this, Top.term, Top.fn), Process(Top.this + 1, Top.term))
  /\ subtrees' = Append(subtrees, <<>>)
  /\ UNCHANGED <<sub, value, ok, edits, code, made, pc, up>>

JitKidsFail ==
  /\ At("kids") /\ ~ ok
  /\ Returning("none") /\ ok' = TRUE
  /\ UNCHANGED <<sub, subtrees, edits, code, made, pc, up>>

\* detach_tree, replace_sequence
Detach(op) == [kind |-> "detach", cut |-> <<op>>, by |-> op]

Replace(cut, f) == [kind |-> "replace", cut |-> cut, by |-> JitOp(f)]

\* The call of the tree, and what it leaves on the stack
RunTree(p) ==
  /\ Insert(Top.fn, Instructions(p, IF sub[p].ctx = "scalar" THEN <<"run", "pop">> ELSE <<"run">>))
  /\ ran' = [ran EXCEPT ![Top.fn] = Append(@, OpOf(p))]
  /\ Returning(IF sub[p].ctx = "scalar" THEN "scalar" ELSE "none")

\* Faulty variant: the tree is not remembered as a kid of the JIT op.
EmitOptreeUnlisted ==
  /\ Goes("kids")
  /\ log' = Append(log, Detach(OpOf(Top.term)))
  /\ cleared' = cleared \union Exits(Top.term)
  /\ RunTree(Top.term)
  /\ UNCHANGED <<sub, subtrees, ok, cur, made, pc, up>>

\* Faulty variant: the tree is not detached.
EmitOptreeAttached ==
  /\ Goes("kids")
  /\ cleared' = cleared \union Exits(Top.term)
  /\ subtrees' = [subtrees EXCEPT ![Top.this] = Append(@, OpOf(Top.term))]
  /\ RunTree(Top.term)
  /\ UNCHANGED <<sub, ok, log, cur, made, pc, up>>

\* Faulty variant: the detaching goes in front of the edits of the kids.
EmitOptreeDetachedFirst ==
  /\ Goes("kids")
  /\ log' = <<Detach(OpOf(Top.term))>> \o log
  /\ cleared' = cleared \union Exits(Top.term)
  /\ subtrees' = [subtrees EXCEPT ![Top.this] = Append(@, OpOf(Top.term))]
  /\ RunTree(Top.term)
  /\ UNCHANGED <<sub, ok, cur, made, pc, up>>

\* _jit_emit_optree
EmitOptree ==
  /\ Goes("kids")
  /\ log' = Append(log, Detach(OpOf(Top.term)))
  /\ cleared' = cleared \union Exits(Top.term)
  /\ subtrees' = [subtrees EXCEPT ![Top.this] = Append(@, OpOf(Top.term))]
  /\ RunTree(Top.term)
  /\ UNCHANGED <<sub, ok, cur, made, pc, up>>

-----------------------------------------------------------------------------
(* _jit_trees, behind the first _jit_emit_root                             *)

Root1 == Top.asts[Top.n]

\* _jit_emit_return; without its missing breaks the value would go to the
\* op's target
ReturnCode == IF sub[Root1].ctx = "scalar" THEN <<"mortal", "push">> ELSE <<>>

Valid == value # "none" /\ sub[Root1].ctx # "caller"

IsStatements == Kind(Top.asts[1]) = "statement"

\* From the op of the first statement to that of the last, or the op of the tree
Replaced ==
  IF IsStatements
    THEN [i \in 1..(2 * Len(Top.asts) - 1) |->
            IF i % 2 = 1 THEN OpOf(Append(Top.asts[(i + 1) \div 2], 1))
            ELSE Top.asts[(i \div 2) + 1]]
    ELSE <<OpOf(Top.asts[1])>>

\* Faulty variant: the subtrees of a function that is given up are kept.
JitTreesFailKeepingSubtrees ==
  /\ At("trees") /\ ~ Valid
  /\ Insert(Top.fn, Instructions(Root, <<"ret">>))
  /\ failed' = failed \union {Top.fn}
  /\ calls' = Outer
  /\ ok' = ~ IsStatements
  /\ UNCHANGED <<sub, subtrees, value, edits, cur, ran, jits, pc, up>>

\* What jit_tree returns is ignored, what jit_statement_sequence does is not.
JitTreesFail ==
  /\ At("trees") /\ ~ Valid
  /\ Insert(Top.fn, Instructions(Root, <<"ret">>))
  /\ failed' = failed \union {Top.fn}
  /\ subtrees' = [subtrees EXCEPT ![Top.this] = <<>>]
  /\ calls' = Outer
  /\ ok' = ~ IsStatements
  /\ UNCHANGED <<sub, value, edits, cur, ran, jits, pc, up>>

\* Behind the last root the JIT op is made, and put in the place of what it does;
\* statements do not come that far, for they leave no value.
JitTreesGoOn ==
  /\ At("trees") /\ Valid
  /\ IF Top.n < Len(Top.asts)
       THEN /\ Insert(Top.fn, Instructions(Root1, ReturnCode))
            /\ Continue([Top EXCEPT !.n = @ + 1], Emit(Top.this, Top.asts[Top.n + 1], Top.fn))
            /\ UNCHANGED <<subtrees, log, jits>>
       ELSE /\ Insert(Top.fn, Instructions(Root1, ReturnCode) \o Instructions(Root, <<"ret">>))
            /\ jits' = Append(jits, [fn |-> Top.fn, kids |-> subtrees[Top.this]])
            /\ subtrees' = [subtrees EXCEPT ![Top.this] = <<>>]
            /\ log' = Append(log, Replace(Replaced, Top.fn))
            /\ calls' = Outer
  /\ UNCHANGED <<sub, value, ok, cleared, cur, ran, failed, pc, up>>

-----------------------------------------------------------------------------
(* jit_sub                                                                 *)

\* The JIT op made for the function of this id.
MadeBy(id) == CHOOSE j \in 1..Len(jits) : JitOp(jits[j].fn) = id

Listed(ids) == {ids[i] : i \in 1..Len(ids)}

\* The log entry B::Replace turns to next.
Entry == Head(log)

\* A JIT op comes into the tree with the subtrees _jit_trees linked below it.
Applied ==
  IF Entry.kind = "detach" THEN [up EXCEPT ![Entry.by] = IF up[Entry.by] = Freed THEN Freed ELSE Loose]
  ELSE LET kids == Listed(jits[MadeBy(Entry.by)].kids)
       IN [id \in DOMAIN up \union {Entry.by} |->
             IF id = Entry.by THEN up[Entry.cut[1]]
             ELSE IF id \in Listed(Entry.cut) THEN Freed
             ELSE IF id \in kids /\ up[id] = Loose THEN Entry.by
             ELSE up[id]]

Apply ==
  /\ pc = "apply" /\ log # <<>>
  /\ up' = Applied
  /\ log' = Tail(log)
  /\ UNCHANGED <<sub, calls, subtrees, value, ok, cleared, code, made, pc>>

Finish ==
  /\ pc = "apply" /\ log = <<>>
  /\ pc' = "done"
  /\ UNCHANGED <<sub, calls, subtrees, value, ok, edits, code, made, up>>

Next ==
  \/ ProcessVariable \/ ProcessSequence \/ ProcessTree \/ ProcessKids \/ ProcessReturns
  \/ SequenceTakes \/ SequenceFlushes \/ SequenceSearches \/ SequenceReturns
  \/ EmitConst \/ GetLexical \/ EmitBinop \/ BinopRight \/ BinopCrashes \/ BinopAdds
  \/ EmitOptreeJitKids \/ JitKidsFail \/ EmitOptree
  \/ JitTreesFail \/ JitTreesGoOn
  \/ Apply \/ Finish

Spec == Init /\ [][Next]_vars
-----------------------------------------------------------------------------
Emitters == 1..Len(subtrees)

Calls ==
  [at : {"process"}, this : Emitters, term : Terms, queue : Seq(Terms)]
  \union [at : {"sequence"}, this : Emitters, term : Terms, first : Nat, next : Nat]
  \union [at : {"trees"}, this : Emitters, term : Terms, asts : Seq(Terms), n : Nat, fn : 1..Len(fns)]
  \union [at : {"emit", "kids"}, this : Emitters, term : Terms, fn : 1..Len(fns)]
  \union [at : {"binop"}, this : Emitters, term : Terms, fn : 1..Len(fns),
          left : {"pending", "none", "double", "integer", "scalar"}]

Instruction == [what : {"load", "SvNV", "fadd", "assign", "run", "pop", "mortal", "push", "ret"},
                term : Terms]

Edits == [kind : {"detach", "replace"}, cut : Seq(Ops) \ {<<>>},
          by : Ops \union {JitOp(f) : f \in 1..Len(fns)}]

\* Every variable has its type, the log names ops of the sub and JIT ops made, and
\* an Emitter that is between two trees has no subtree that waits for a JIT op.
TypeOK ==
  /\ pc \in {"emit", "apply", "done", "croaked", "crashed"}
  /\ value \in {"none", "double", "integer", "scalar"}
  /\ ok \in BOOLEAN
  /\ fns \in Seq(Seq(Instruction)) /\ cur \in 0..Len(fns)
  /\ work \in Seq(Seq(Instruction)) /\ Len(work) = Len(fns)
  /\ ran \in Seq(Seq(Ops)) /\ Len(ran) = Len(fns)
  /\ calls \in Seq(Calls) /\ (pc \in {"emit", "crashed"} <=> calls # <<>>)
  /\ subtrees \in Seq(Seq(Ops))
  /\ calls # <<>> => Top.this = Len(subtrees)
  /\ calls # <<>> /\ Top.at \in {"process", "sequence"} => subtrees[Top.this] = <<>>
  /\ cleared \subseteq Ops
  /\ jits \in Seq([fn : 1..Len(fns), kids : Seq(Ops)])
  /\ failed \subseteq 1..Len(fns)
  /\ log \in Seq(Edits)
  /\ Ops \subseteq DOMAIN up
  /\ \A id \in DOMAIN up : up[id] \in DOMAIN up \union {Root, Loose, Freed}

\* The root, or what else is above all the ops above this one.
InProgram(id) ==
  LET Ends[op \in DOMAIN up \union {Root, Loose, Freed}] ==
        IF op \in {Root, Loose, Freed} THEN op ELSE Ends[up[op]]
  IN Ends[id] = Root

\* The ops that are an assignment and what is assigned at once (OPpTARGET_MY)
Targets == {OpOf(p) : p \in {q \in Terms : sub[q].shared}}

\* Each edit of the log finds its ops where B::Replace looks for them, in the
\* tree of the sub: whatever was edited before has not taken them out of it.  The
\* exception is an assignment by OPpTARGET_MY that a function is to call: the JIT
\* op for what is assigned has taken the place of the one op that is both.
LogReplays ==
  pc = "apply" /\ log # <<>> => \A op \in Listed(Entry.cut) :
    InProgram(op) \/ (Entry.kind = "detach" /\ op \in Targets /\ up[op] = Freed)

\* Perl frees a tree with the op above it: each JIT op has below it the trees its
\* function runs, all of them and no other, in that order.
OwnsWhatItRuns == \A j \in 1..Len(jits) : jits[j].kids = ran[jits[j].fn]

\* The functions that became JIT ops, and the tree each was made for: the sum that
\* all its sums are part of
Made == {jits[j].fn : j \in 1..Len(jits)}

Additions(f) == {n.term : n \in {m \in Listed(work[f]) : m.what = "fadd"}}

TreeOf(f) == CHOOSE p \in Additions(f) : \A q \in Additions(f) : Below(q, p)

PlaceOf(f) == OpOf(TreeOf(f))

\* The instructions in body do what the term p is for: a sum is added up, a variable
\* fetched.  A constant is part of what takes it.
Does(body, p) ==
  \E n \in Listed(body) : n.term = p /\ n.what = (IF Kind(p) = "add" THEN "fadd" ELSE "load")

DoesOp(body, id) == Does(body, id) \/ (Kind(id) \in Constants /\ Does(body, Upto(id, Len(id) - 1)))

\* The functions that the op tree of the sub comes to call
Standing == {f \in Made : JitOp(f) \in DOMAIN up /\ InProgram(JitOp(f))}

Works(id) == InProgram(id) \/ \E f \in Standing : DoesOp(fns[f], id)

\* The builder stood elsewhere: the instructions for the op are in a function made
\* for part of the tree of the one they were meant for.
Strayed(id) ==
  \E f \in Standing, g \in Made :
    /\ f # g /\ Below(PlaceOf(g), PlaceOf(f))
    /\ DoesOp(work[f], id) /\ DoesOp(fns[g], id)

\* An assignment by OPpTARGET_MY of a sum that was compiled: nothing sets the target.
Unassigned(id) == id \in Targets /\ \E f \in Standing : PlaceOf(f) = id

Remains(id) == Works(id) \/ Strayed(id) \/ Unassigned(id)

TargetCalled == \E f \in 1..Len(ran) : Listed(ran[f]) \intersect Targets # {}

\* When every tree could be compiled, and no function calls an assignment by
\* OPpTARGET_MY, each op of the sub is still run once the log is applied: it stands
\* in the tree of the sub, or a JIT op there has a function that holds its work.  The
\* exceptions: work that went into a function for part of the same tree, and an
\* assignment by OPpTARGET_MY, of which only the sum is compiled.
CodeKept == pc = "done" /\ failed = {} /\ ~ TargetCalled => \A id \in Ops : Remains(id)

\* Left to right, innermost first: the order in which perl runs the tree.
LeftOf(p, q) ==
  \E i \in 1..Len(p) : i <= Len(q) /\ p[i] < q[i] /\ \A k \in 1..(i - 1) : p[k] = q[k]

RunsBefore(p, q) == (Below(p, q) /\ p # q) \/ LeftOf(p, q)

\* A function does its work in the order in which perl runs the ops of the tree.
PerlOrder ==
  \A f \in 1..Len(work) : \A i, j \in 1..Len(work[f]) :
    i < j /\ {work[f][i].what, work[f][j].what} \subseteq {"run", "load", "fadd"} =>
      ~ RunsBefore(work[f][j].term, work[f][i].term)

\* No next pointer of the sub is cleared, which happens at once, without an edit
\* in the log that takes the op out of the sub's own flow.
ClearedLogged ==
  pc = "emit" => \A id \in cleared : \E i \in 1..Len(log), p, q \in Terms :
    /\ log[i].kind = "detach" /\ log[i].by = OpOf(p)
    /\ id = OpOf(q) /\ Below(q, p)

\* What gives an addition no value to add: a string, an assignment to what is no
\* perl scalar, and a tree that leaves none on the stack or is searched in vain.
HasNoValue(p) ==
  \/ Kind(p) = "string"
  \/ Kind(p) = "add" /\ sub[p].assign /\ Kind(Append(p, 1)) \in Constants \union {"add"}
  \/ /\ IsTreeOfOps(p)
     /\ sub[p].ctx # "scalar" \/ \E q \in Terms : Below(q, p) /\ Kind(q) = "sequence"

\* The null type of an operand is dereferenced in no sub but one that adds
\* something without a value: every other operand's type reaches the addition,
\* whatever was compiled in between.
NullTypeExplained ==
  pc = "crashed" => \E p \in Terms :
    Kind(p) = "add" /\ \E i \in {1, 2} : HasNoValue(Append(p, i))
-----------------------------------------------------------------------------
(* The invariant behind them, first the stack of calls.                    *)

Emissions == {"trees", "emit", "binop", "kids"}

\* What a call does not forget
CallWhole(c) ==
  /\ c.at = "process" => \A k \in 1..Len(c.queue) :
       Below(c.queue[k], c.term) /\ Kind(c.queue[k]) \notin {"candidates", "statement"}
  /\ c.at = "sequence" => /\ Kind(c.term) = "sequence"
                          /\ c.first \in 1..c.next /\ c.next <= sub[c.term].size + 1
  /\ c.at = "trees" => /\ c.n = 1 /\ c.asts # <<>> /\ Below(c.asts[1], c.term)
                       /\ HasOp(c.asts[1])
                       /\ Kind(c.asts[1]) # "statement" => Len(c.asts) = 1
  /\ c.at \in {"emit", "kids"} => HasOp(c.term)
  /\ c.at = "binop" => Kind(c.term) = "add"
  /\ c.at = "kids" => IsTreeOfOps(c.term)

\* The term a call waits for
Emitted(c) == IF c.at = "trees" THEN c.asts[1] ELSE Operand(c.term, c.left)

\* c has called d.
Called(c, d) ==
  \/ /\ c.at = "process" /\ d.at \in {"sequence", "trees"} /\ d.this = c.this
     /\ d.at = "trees" => Kind(d.asts[1]) # "statement"
  \/ c.at = "sequence" /\ d.at \in {"process", "trees"} /\ d.this = c.this
  \/ /\ c.at \in {"trees", "binop"} /\ d.at \in {"emit", "binop", "kids"}
     /\ d.this = c.this /\ d.fn = c.fn /\ d.term = Emitted(c)
  \/ c.at = "kids" /\ d.at = "process" /\ d.this = c.this + 1

\* d is somewhere inside c: it is about less, its Emitter is as new or newer, and
\* an Emitter emits for one function at a time.
Inside(c, d) ==
  /\ Below(d.term, c.term)
  /\ c.this <= d.this
  /\ c.at = "kids" => c.this < d.this
  /\ c.at \in Emissions /\ d.at \in {"process", "sequence", "trees"} => c.this < d.this
  /\ c.at \in Emissions /\ d.at \in Emissions => (c.this = d.this <=> c.fn = d.fn)
  /\ c.at \in {"trees", "binop"} /\ d.at \in Emissions /\ c.this = d.this =>
       Below(d.term, Emitted(c))

Stack(s) ==
  /\ \A i \in 1..Len(s) : CallWhole(s[i])
  /\ \A i \in 1..(Len(s) - 1) : Called(s[i], s[i + 1])
  /\ \A i, j \in 1..Len(s) : i < j => Inside(s[i], s[j])
  /\ s # <<>> => s[1].at = "process" /\ s[1].this = 1

Frames == 1..Len(calls)

\* The subtrees of an Emitter are those its function runs, and a function is
\* emitted for no longer once its JIT op is made.
SubtreesRun ==
  /\ \A i \in Frames : calls[i].at = "trees" => ran[calls[i].fn] = subtrees[calls[i].this]
  /\ \A j \in 1..Len(jits), i \in Frames : calls[i].at \in Emissions => jits[j].fn # calls[i].fn

\* What a value that was returned says of its term
Explains(p, type) ==
  /\ type = "none" => HasNoValue(p)
  /\ type \in {"double", "integer"} => Kind(p) \in Constants \union {"add"}
  /\ type # "none" => Kind(p) # "statement"

ValuesExplained ==
  /\ calls # <<>> /\ Top.at \in {"trees", "binop"} => Explains(Emitted(Top), value)
  /\ \A i \in Frames : calls[i].at = "binop" /\ calls[i].left # "pending" =>
       Explains(Append(calls[i].term, 1), calls[i].left)

\* A search fails for a sequence only.
FailureExplained ==
  ~ ok /\ calls # <<>> =>
    /\ Top.at \in {"process", "sequence", "kids"}
    /\ \A i \in Frames : calls[i].at = "kids" =>
         \E q \in Terms : Below(q, calls[i].term) /\ Kind(q) = "sequence"

\* What was emitted for a function stands to the left of what is to come.
Behind(p, c) ==
  CASE c.at = "trees" -> Below(p, c.asts[1])
    [] c.at = "binop" -> \/ LeftOf(p, c.term)
                         \/ Below(p, Append(c.term, 1))
                         \/ c.left # "pending" /\ Below(p, Append(c.term, 2))
    [] OTHER -> LeftOf(p, c.term)

WorkBehind ==
  \A i \in Frames : calls[i].at \in Emissions =>
    \A k \in 1..Len(work[calls[i].fn]) : Behind(work[calls[i].fn][k].term, calls[i])

IInv ==
  /\ IsTree(sub) /\ TypeOK /\ Stack(calls)
  /\ SubtreesRun /\ OwnsWhatItRuns
  /\ ValuesExplained /\ FailureExplained /\ NullTypeExplained
  /\ WorkBehind /\ PerlOrder
  /\ ClearedLogged
-----------------------------------------------------------------------------
(* The invariant behind LogReplays: what the log holds beside the calls.   *)

\* Neither of the two is the other or below it.
Apart(p, q) == ~ Below(p, q) /\ ~ Below(q, p)

\* What a call is still to turn to
Ahead(c) == {q \in Terms :
  \/ c.at = "process" /\ q \in Listed(c.queue)
  \/ c.at = "sequence" /\ \E n \in c.first..sub[c.term].size : q = Append(c.term, n)
  \/ c.at = "emit" /\ q = c.term
  \/ c.at = "binop" /\ c.left = "pending" /\ q = Append(c.term, 2)}

\* What a call cuts out of the tree, itself or by the calls it makes, is its scope or
\* below; what the calls it makes cut is the inner term or below.
Scope(c) == IF c.at = "trees" THEN OpOf(c.asts[1]) ELSE c.term

Inner(c) == IF c.at \in {"trees", "binop"} THEN Emitted(c) ELSE c.term

\* The op that goes when this term of a queue is compiled
CutFor(p) == IF Kind(p) = "add" THEN OpOf(p) ELSE p

\* What a call will search is in separate trees, and what it emits has an op of its
\* own, or is an addition.
FrameApart(c) ==
  /\ c.at = "process" => \A k \in 1..Len(c.queue) :
       /\ c.queue[k] # c.term
       /\ \A l \in (k + 1)..Len(c.queue) : Apart(CutFor(c.queue[k]), c.queue[l])
  /\ c.at = "trees" => Kind(c.asts[1]) \in {"add", "statement"}
  /\ c.at \in {"emit", "kids"} => Kind(c.term) = "add" \/ ~ sub[c.term].shared

\* A call inside another cuts nothing that the other one is still to turn to; what a
\* search cuts is below its term, or one with what is assigned to it.
Within(c, d) ==
  /\ Below(Scope(d), Inner(c))
  /\ \A q \in Ahead(c) : Apart(Scope(d), q)
  /\ c.at = "process" /\ Scope(d) = c.term => d.at = "trees" /\ c.term \in Targets

ApartStack(s) ==
  /\ \A i \in 1..Len(s) : FrameApart(s[i])
  /\ \A i, j \in 1..Len(s) : i < j => Within(s[i], s[j])
  /\ \A i \in 1..(Len(s) - 1) : s[i].at = "kids" => s[i + 1].term = s[i].term

\* What an edit of the log cuts is not in what a call is still to turn to, and does
\* not have below it what the call is still to cut.
Passed(e, c) ==
  LET op == e.cut[1]
  IN /\ \A q \in Ahead(c) : Apart(op, q)
     /\ c.at = "trees" /\ Kind(c.asts[1]) # "statement" => ~ Below(Scope(c), op)
     /\ c.at = "kids" => \/ ~ Below(c.term, op)
                         \/ c.term = op /\ op \in Targets /\ e.kind = "replace"

LogPassed(l, s) == \A i \in 1..Len(l), n \in 1..Len(s) : Passed(l[i], s[n])

\* An edit cuts one op, and JIT ops are put in the place of others.
EditWhole(e) ==
  /\ Len(e.cut) = 1
  /\ e.kind = "replace" => e.by \notin Ops
  /\ e.kind = "detach" => e.by = e.cut[1]

\* No op that an edit cuts is below one that an earlier edit cuts.
Precedes(d, e) ==
  \/ ~ Below(e.cut[1], d.cut[1])
  \/ /\ e.cut[1] = d.cut[1] /\ d.cut[1] \in Targets
     /\ d.kind = "replace" /\ e.kind = "detach"

InnerFirst(l) ==
  /\ \A i \in 1..Len(l) : EditWhole(l[i])
  /\ \A i, j \in 1..Len(l) : i < j => Precedes(l[i], l[j])

\* The ops from one that is still to be cut to the root stand where perl put them.
Stands(e) ==
  \A op \in Ops :
    Below(e.cut[1], op) /\ (Kind(op) # "statement" \/ op = e.cut[1]) =>
      \/ up[op] = Above(op)
      \/ op = e.cut[1] /\ op \in Targets /\ e.kind = "detach" /\ up[op] = Freed

LogInv ==
  /\ ApartStack(calls) /\ LogPassed(log, calls) /\ InnerFirst(log)
  /\ pc = "emit" => up = [op \in Ops |-> Above(op)]
  /\ pc \in {"emit", "apply"} => \A j \in 1..Len(log) : Stands(log[j])
-----------------------------------------------------------------------------
(* The invariant behind CodeKept: what becomes of each term and each op.   *)

\* What a function was meant to do for a term: the instructions for it were emitted,
\* or the addition that takes the constant, or it is in a tree the function runs.
Worked(p, f) == Does(work[f], p)

Covered(p, f) ==
  \/ Worked(p, f)
  \/ Kind(p) \in Constants /\ Worked(Upto(p, Len(p) - 1), f)
  \/ \E op \in Listed(ran[f]) : Below(p, op)

\* The function does all that is below a term; a constant is left to what takes it.
CoveredBelow(p, f) ==
  /\ \A q \in Terms : Below(q, p) /\ HasOp(q) =>
       Covered(q, f) \/ (q = p /\ Kind(p) \in Constants)
  /\ Kind(p) = "add" => p \in Additions(f)

\* Each operand that has a value was compiled, and so was the tree of each function
\* that was made.
Compiled ==
  /\ calls # <<>> /\ Top.at \in {"trees", "binop"} /\ value # "none" =>
       CoveredBelow(Emitted(Top), Top.fn)
  /\ \A i \in Frames : calls[i].at = "binop" /\ calls[i].left \notin {"pending", "none"} =>
       CoveredBelow(Append(calls[i].term, 1), calls[i].fn)
  /\ \A f \in Made : /\ Kind(TreeOf(f)) = "add" /\ TreeOf(f) \in Terms
                     /\ CoveredBelow(TreeOf(f), f)

\* No addition is done twice, by one function or by two.
AddedOnce ==
  /\ \A f, g \in 1..Len(work) : f # g => Additions(f) \intersect Additions(g) = {}
  /\ \A f \in 1..Len(work), i \in Frames : \A p \in Additions(f) :
       /\ \A q \in Ahead(calls[i]) : ~ Below(p, q)
       /\ calls[i].at = "binop" => p # calls[i].term

\* Every function is being made, was given up, or became a JIT op.
FunctionsAccounted ==
  \A f \in 1..Len(fns) :
    f \in failed \union Made \/ \E i \in Frames : calls[i].at = "trees" /\ calls[i].fn = f

\* The trees a function runs are in the tree it is for, and none is a sum.
RunsWhole ==
  /\ \A f \in 1..Len(ran) : \A op \in Listed(ran[f]) : IsTreeOfOps(op)
  /\ \A i \in Frames : calls[i].at = "trees" => \A op \in Listed(ran[calls[i].fn]) :
       /\ Below(op, OpOf(calls[i].asts[1]))
       /\ Kind(op) = "statement" => Kind(calls[i].asts[1]) = "statement"
  /\ \A f \in Made : \A op \in Listed(ran[f]) :
       Below(op, PlaceOf(f)) /\ Kind(op) # "statement"

\* The replacements in the log are those of the functions made, of each until it is
\* carried out; a tree is detached by a function that is to run it, before its JIT op
\* comes into the sub.
LogWhole ==
  /\ \A i \in 1..Len(log) : log[i].kind = "replace" =>
       \E f \in Made : log[i] = Replace(<<PlaceOf(f)>>, f)
  /\ \A f \in Made : JitOp(f) \in DOMAIN up \/ \E i \in 1..Len(log) : log[i].by = JitOp(f)
  /\ \A i \in 1..Len(log) : log[i].kind = "detach" =>
       \E f \in 1..Len(ran) :
         /\ log[i].by \in Listed(ran[f])
         /\ f \in Made => \E k \in (i + 1)..Len(log) : log[k].by = JitOp(f)
  /\ \A f \in 1..Len(ran) : \A op \in Listed(ran[f]) :
       up[op] # Above(op) \/ \E i \in 1..Len(log) : log[i] = Detach(op)
  /\ pc = "done" => log = <<>>

\* While the log is carried out an op stands where perl put it, waits for the JIT op
\* that runs it, is below that, or was replaced by the JIT op that does its work.
Placed ==
  /\ \A id \in DOMAIN up : \/ id \in Ops
                          \/ \E f \in Made : id = JitOp(f) /\ up[id] = Above(PlaceOf(f))
  /\ failed = {} /\ pc \in {"apply", "done"} => \A op \in Ops :
       \/ up[op] = Above(op)
       \/ /\ up[op] = Loose
          /\ \E f \in Made : /\ op \in Listed(ran[f])
                            /\ \E i \in 1..Len(log) : log[i].by = JitOp(f)
       \/ \E f \in Made : /\ JitOp(f) \in DOMAIN up
                         /\ \/ up[op] = JitOp(f) /\ op \in Listed(ran[f])
                            \/ up[op] = Freed /\ op = PlaceOf(f)

\* The builder stands in the innermost function, or in one that was made since for
\* part of its tree.
BuilderStands ==
  \A i \in Frames : calls[i].at = "trees" =>
    \/ cur = calls[i].fn
    \/ cur \in Made /\ Below(PlaceOf(cur), Scope(calls[i]))
    \/ \E j \in Frames : i < j /\ calls[j].at = "trees" /\ calls[j].fn = cur

\* Function g is for part of the tree that f is for.
PartOf(g, f) ==
  /\ g \in Made
  /\ f \in Made => Below(PlaceOf(g), PlaceOf(f))
  /\ \A i \in Frames : calls[i].at = "trees" /\ calls[i].fn = f => Below(PlaceOf(g), Scope(calls[i]))

\* So each instruction is in the function it is for or in one for part of its tree.
NotLost ==
  \A f \in 1..Len(work) : \A n \in Listed(work[f]) :
    n \in Listed(fns[f]) \/ \E g \in 1..Len(fns) : PartOf(g, f) /\ n \in Listed(fns[g])

KeptInv ==
  /\ Compiled /\ AddedOnce /\ FunctionsAccounted /\ RunsWhole /\ LogWhole /\ Placed
  /\ failed = {} => BuilderStands /\ NotLost
-----------------------------------------------------------------------------
\* What the repository's tests say of the same code.

\* t/110_non_jittable.t:51: srand($a + 4) + 8 is compiled and returns 54.  A
\* function that became a JIT op has one return, at its end.
FunctionsWhole ==
  \A j \in 1..Len(jits) :
    LET body == fns[jits[j].fn]
    IN \A i \in 1..Len(body) : body[i].what = "ret" <=> i = Len(body)

\* t/110_non_jittable.t:28: the JIT does not break the optree.
NothingDropped == pc = "done" /\ ~ TargetCalled => \A id \in Ops : Remains(id)
=============================================================================
