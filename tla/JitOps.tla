------------------------------- MODULE JitOps -------------------------------
(***************************************************************************)
(* Who keeps the machine code alive (src/pj_emit.cpp): the context and its *)
(* module, the Emitters, the JIT ops with their shared_ptr to the one      *)
(* ExecutionEngine, the registry jit_ops and the hook that perl calls when *)
(* an op is freed.                                                         *)
(*                                                                         *)
(* Memory is a set of addresses that perl's allocator gives out again.     *)
(* JIT ops have the types OP_STUB and OP_LIST, as have some of perl's own. *)
(* Perl runs nothing between the start and the end of _jit_sub, and frees  *)
(* ops, but calls no code, once the exit handlers were called; there is    *)
(* one interpreter.                                                        *)
(***************************************************************************)
EXTENDS Integers, FiniteSets

CONSTANTS
  Address,      \* where ops are allocated
  MaxEmitters   \* bound on the nesting of Emitters

ASSUME AddressFinite == IsFiniteSet(Address)
ASSUME SomeEmitters == MaxEmitters \in Nat

VARIABLES
  context,    \* the my_cxt_t
  engine,     \* the ExecutionEngine, which owns the module
  uses,       \* the use count of its shared_ptr
  emitters,   \* how many Emitters are on the C++ stack
  jit_ops,    \* the addresses ever given to a JIT op
  heap,       \* what stands at each address
  crashed,    \* undefined behaviour took place
  recycled    \* history: addresses given to a typed op of perl's after a JIT op

vars == <<context, engine, uses, emitters, jit_ops, heap, crashed, recycled>>

\* A JIT op is in the log of the _jit_sub at work, in a sub, or was lost with
\* its log.  The others are "typed", an OP_STUB or OP_LIST of perl's, or not.
Jit == {"logged", "linked", "lost"}
Own == {"typed", "other"}

JitOps == {a \in Address : heap[a] \in Jit}

\* The module pointer is NULL, points to the engine's module, or to a module
\* that was deleted because there is no engine.
NewContext ==
  [alive |-> TRUE, module |-> "null", engine |-> FALSE, pa |-> FALSE]

Init ==
  /\ context = NewContext
  /\ engine = "none"
  /\ uses = 0
  /\ emitters = 0
  /\ jit_ops = {}
  /\ heap \in [Address -> Own \union {"free"}]
  /\ crashed = FALSE
  /\ recycled = {}

\* An Emitter copies the context's shared_ptr, which may be empty.
Share == IF context.engine THEN 1 ELSE 0

Retain(n) == uses' = uses + n

\* The release of a shared_ptr to the engine; the last one deletes the engine,
\* one more is undefined behaviour.
Release ==
  \/ /\ uses = 0
     /\ crashed' = TRUE
     /\ UNCHANGED <<uses, engine>>
  \/ /\ uses > 0
     /\ uses' = uses - 1
     /\ engine' = IF uses = 1 THEN "deleted" ELSE engine
     /\ UNCHANGED crashed

ReleaseShare ==
  IF context.engine THEN Release ELSE UNCHANGED <<uses, engine, crashed>>

Idle == ~ crashed /\ emitters = 0

\* pj_jit_sub with create_module's first call: module, engine and PerlAPI are
\* made, and the Emitter takes its share.
JitSubFirst ==
  /\ Idle
  /\ context.alive /\ context.module = "null"
  /\ context' = [context EXCEPT !.module = "live", !.engine = TRUE, !.pa = TRUE]
  /\ engine' = "live"
  /\ uses' = 2
  /\ emitters' = 1
  /\ UNCHANGED <<jit_ops, heap, crashed, recycled>>

\* The same where no engine can be made: the module is deleted, its pointer
\* stays, and create_module croaks.
JitSubNoEngine ==
  /\ Idle
  /\ context.alive /\ context.module = "null"
  /\ context' = [context EXCEPT !.module = "deleted"]
  /\ UNCHANGED <<engine, uses, emitters, jit_ops, heap, crashed, recycled>>

\* create_module finds a module and returns at once.
JitSubAgain ==
  /\ Idle
  /\ context.alive /\ context.module # "null"
  /\ emitters' = 1
  /\ Retain(Share)
  /\ UNCHANGED <<context, engine, jit_ops, heap, crashed, recycled>>

\* The Emitter for the kids of a term, and its end
OpenNested ==
  /\ ~ crashed
  /\ emitters \in 1..MaxEmitters - 1
  /\ emitters' = emitters + 1
  /\ Retain(Share)
  /\ UNCHANGED <<context, engine, jit_ops, heap, crashed, recycled>>

CloseNested ==
  /\ ~ crashed
  /\ emitters > 1
  /\ emitters' = emitters - 1
  /\ ReleaseShare
  /\ UNCHANGED <<context, jit_ops, heap, recycled>>

\* Faulty variant: the new op is not recorded.
JitTreesUnrecorded(a) ==
  /\ ~ crashed
  /\ emitters > 0 /\ heap[a] = "free"
  /\ IF context.pa
       THEN /\ heap' = [heap EXCEPT ![a] = "logged"]
            /\ Retain(1)
            /\ UNCHANGED crashed
       ELSE crashed' = TRUE /\ UNCHANGED <<heap, uses>>
  /\ UNCHANGED <<context, engine, emitters, jit_ops, recycled>>

\* _jit_trees: the function is created in the module with types of the PerlAPI;
\* the new op takes a share of the engine and is recorded.
JitTrees(a) ==
  /\ ~ crashed
  /\ emitters > 0 /\ heap[a] = "free"
  /\ IF context.pa
       THEN /\ heap' = [heap EXCEPT ![a] = "logged"]
            /\ jit_ops' = jit_ops \union {a}
            /\ Retain(1)
            /\ UNCHANGED crashed
       ELSE crashed' = TRUE /\ UNCHANGED <<heap, jit_ops, uses>>
  /\ UNCHANGED <<context, engine, emitters, recycled>>

\* What becomes of the log's JIT ops
Logged(fate) ==
  heap' = [a \in Address |-> IF heap[a] = "logged" THEN fate ELSE heap[a]]

\* Faulty variant: the croak skips the Emitter's destructor.
EndJitSubLeaking(fate) ==
  /\ ~ crashed
  /\ emitters = 1
  /\ emitters' = 0
  /\ Logged(fate)
  /\ IF fate = "lost" THEN UNCHANGED <<uses, engine, crashed>> ELSE ReleaseShare
  /\ UNCHANGED <<context, jit_ops, recycled>>

\* Faulty variant: the log stays behind.
EndJitSubKeepsLog(fate) ==
  /\ ~ crashed
  /\ emitters = 1
  /\ emitters' = 0
  /\ ReleaseShare
  /\ UNCHANGED <<context, jit_ops, heap, recycled>>

\* pj_jit_sub returns the log, from which jit_sub puts the ops into the sub, or
\* drops it and croaks: the ops in it stay where they are.
EndJitSub(fate) ==
  /\ ~ crashed
  /\ emitters = 1
  /\ emitters' = 0
  /\ Logged(fate)
  /\ ReleaseShare
  /\ UNCHANGED <<context, jit_ops, recycled>>

\* Perl compiles an op of its own.
Compile(a, kind) ==
  /\ Idle
  /\ heap[a] = "free"
  /\ heap' = [heap EXCEPT ![a] = kind]
  /\ recycled' = IF a \in jit_ops /\ kind = "typed"
                   THEN recycled \union {a} ELSE recycled
  /\ UNCHANGED <<context, engine, uses, emitters, jit_ops, crashed>>

\* The destructor of an op that is no JIT op releases whatever the two words
\* behind it hold: null, a former pointer to the engine, or anything.
ReleaseStray ==
  \/ UNCHANGED <<uses, engine, crashed>>
  \/ Release
  \/ crashed' = TRUE /\ UNCHANGED <<uses, engine>>

\* Faulty variant: the hook asks for the type only.
FreeOpByType(a) ==
  /\ Idle
  /\ heap[a] \in {"linked"} \union Own
  /\ heap' = [heap EXCEPT ![a] = "free"]
  /\ CASE heap[a] = "linked" -> Release
       [] heap[a] = "typed"  -> ReleaseStray
       [] OTHER -> UNCHANGED <<uses, engine, crashed>>
  /\ UNCHANGED <<context, emitters, jit_ops, recycled>>

\* Perl frees an op of a sub; free_execution_engine looks at its type and at
\* jit_ops, from which nothing is ever erased.
FreeOp(a) ==
  /\ Idle
  /\ heap[a] \in {"linked"} \union Own
  /\ heap' = [heap EXCEPT ![a] = "free"]
  /\ CASE a \in jit_ops /\ heap[a] = "linked" -> Release
       [] a \in jit_ops /\ heap[a] = "typed"  -> ReleaseStray
       [] OTHER -> UNCHANGED <<uses, engine, crashed>>
  /\ UNCHANGED <<context, emitters, jit_ops, recycled>>

\* Faulty variant: the engine is deleted with the context.
CleanupDeletes ==
  /\ Idle
  /\ context.alive
  /\ context' = [context EXCEPT !.alive = FALSE, !.engine = FALSE, !.pa = FALSE]
  /\ engine' = IF context.engine THEN "deleted" ELSE engine
  /\ uses' = uses - Share
  /\ UNCHANGED <<emitters, jit_ops, heap, crashed, recycled>>

\* cleanup_emitter at exit: ~Cxt deletes the PerlAPI and the pass manager and
\* gives up the context's share.
Cleanup ==
  /\ Idle
  /\ context.alive
  /\ context' = [context EXCEPT !.alive = FALSE, !.engine = FALSE, !.pa = FALSE]
  /\ ReleaseShare
  /\ UNCHANGED <<emitters, jit_ops, heap, recycled>>

Next ==
  \/ JitSubFirst \/ JitSubNoEngine \/ JitSubAgain
  \/ OpenNested \/ CloseNested
  \/ \E a \in Address : JitTrees(a) \/ FreeOp(a)
  \/ \E fate \in {"linked", "lost"} : EndJitSub(fate)
  \/ \E a \in Address, kind \in Own : Compile(a, kind)
  \/ Cleanup

Spec == Init /\ [][Next]_vars
-----------------------------------------------------------------------------
\* Every variable has its type, and only a _jit_sub at work has a log.
TypeOK ==
  /\ context \in [alive : BOOLEAN, module : {"null", "live", "deleted"},
                  engine : BOOLEAN, pa : BOOLEAN]
  /\ engine \in {"none", "live", "deleted"}
  /\ uses \in Nat
  /\ emitters \in Nat
  /\ jit_ops \subseteq Address
  /\ heap \in [Address -> Jit \union Own \union {"free"}]
  /\ crashed \in BOOLEAN
  /\ recycled \subseteq Address
  /\ emitters = 0 => \A a \in Address : heap[a] # "logged"

\* No JIT op's address was given to an OP_STUB or OP_LIST of perl's own, which
\* the hook cannot tell from the JIT op.  What follows holds until then.
NoneRecycled == recycled = {}

\* The use count is the number of those that hold the engine: the context, every
\* Emitter made from it, and every JIT op, also one that was lost with its log.
UsesCounted ==
  NoneRecycled =>
    uses = Cardinality(JitOps) + (IF context.engine THEN 1 + emitters ELSE 0)

\* The code of every JIT op is there, before and after the context is gone.
CodeOutlivesContext == NoneRecycled /\ JitOps # {} => engine = "live"

\* Nothing undefined happens but after an engine could not be made: the next
\* _jit_sub with something to compile goes on without one.
CrashExplained == NoneRecycled /\ crashed => context.module = "deleted"

\* The engine goes with the last JIT op after the context: only a JIT op that
\* was lost with the log of a sub that croaked keeps it.
EngineGoes == NoneRecycled /\ ~ context.alive /\ JitOps = {} => engine # "live"

\* What the proofs rest on: the context has an engine exactly while it is alive
\* and has a live module ...
ContextWhole ==
  /\ context.engine <=> context.alive /\ context.module = "live"
  /\ context.pa = context.engine
  /\ emitters > 0 => context.alive /\ context.module # "null"
  /\ JitOps # {} => context.module # "null"

\* ... every JIT op is recorded, nothing else that the hook looks at is, and the
\* engine is there as long as somebody holds it.
Recorded ==
  /\ JitOps \subseteq jit_ops
  /\ NoneRecycled => \A a \in jit_ops : heap[a] # "typed"

EngineHeld == NoneRecycled => (engine = "live" <=> uses > 0)

IInv ==
  /\ TypeOK
  /\ ContextWhole
  /\ Recorded
  /\ UsesCounted
  /\ EngineHeld
  /\ CrashExplained
=============================================================================
