---------------------------- MODULE JitOps_proofs ----------------------------
(***************************************************************************)
(* Proofs about JitOps: the use count of the engine is the number of its   *)
(* holders for any memory and any nesting of Emitters, so that the code of *)
(* a JIT op outlives the context and goes with the last of them.           *)
(***************************************************************************)
EXTENDS JitOps, FiniteSetTheorems, TLAPS

\* What Release does while somebody holds the engine.
LEMMA ReleaseHeld ==
  ASSUME IInv, NoneRecycled, uses > 0, Release
  PROVE  /\ uses' = uses - 1 /\ uses' \in Nat
         /\ engine' \in {"none", "live", "deleted"}
         /\ engine' = "live" <=> uses' > 0
         /\ UNCHANGED crashed
  BY DEF IInv, TypeOK, EngineHeld, Release

\* What it does in any case.
LEMMA ReleaseType ==
  ASSUME IInv, Release
  PROVE  /\ uses' \in Nat
         /\ engine' \in {"none", "live", "deleted"}
         /\ crashed' \in BOOLEAN
<1>1. uses' \in Nat /\ engine' \in {"none", "live", "deleted"}
  BY DEF IInv, TypeOK, Release
<1>2. crashed \in BOOLEAN
  BY DEF IInv, TypeOK
<1>3. crashed' = TRUE \/ crashed' = crashed
  BY Zenon DEF Release
<1>4. crashed' \in BOOLEAN
  BY <1>2, <1>3, Zenon
<1>5. QED
  BY <1>1, <1>4

\* The JIT ops are finitely many.
LEMMA JitOpsFinite == IsFiniteSet(JitOps) /\ Cardinality(JitOps) \in Nat
  BY AddressFinite, FS_Subset, FS_CardinalityType DEF JitOps

\* A new JIT op is one more ...
LEMMA OneMore ==
  ASSUME TypeOK, NEW a \in Address, heap[a] \notin Jit,
         NEW kind \in Jit, heap' = [heap EXCEPT ![a] = kind]
  PROVE  /\ JitOps' = JitOps \union {a}
         /\ Cardinality(JitOps') = Cardinality(JitOps) + 1
<1>1. JitOps' = JitOps \union {a} /\ a \notin JitOps
  BY DEF TypeOK, JitOps
<1>2. QED
  BY <1>1, JitOpsFinite, FS_AddElement

\* ... and one that is freed is one less, of at least one.
LEMMA OneLess ==
  ASSUME TypeOK, NEW a \in Address, heap[a] \in Jit,
         heap' = [heap EXCEPT ![a] = "free"]
  PROVE  /\ JitOps' = JitOps \ {a}
         /\ Cardinality(JitOps') = Cardinality(JitOps) - 1
         /\ Cardinality(JitOps) > 0
<1>1. JitOps' = JitOps \ {a} /\ a \in JitOps
  BY DEF TypeOK, JitOps, Jit
<1>2. Cardinality(JitOps) # 0
  BY <1>1, JitOpsFinite, FS_EmptySet
<1>3. Cardinality(JitOps \ {a}) = Cardinality(JitOps) - 1
  BY <1>1, JitOpsFinite, FS_RemoveElement
<1>4. Cardinality(JitOps) > 0
  BY <1>2, JitOpsFinite
<1>5. QED
  BY <1>1, <1>3, <1>4

\* An op of perl's that comes or goes makes no difference.
LEMMA SameOps ==
  ASSUME TypeOK, NEW a \in Address, heap[a] \notin Jit,
         NEW kind \in Own \union {"free"}, heap' = [heap EXCEPT ![a] = kind]
  PROVE  JitOps' = JitOps
  BY DEF TypeOK, JitOps, Jit, Own

LEMMA InitIInv == Init => IInv
<1> SUFFICES ASSUME Init PROVE IInv
  OBVIOUS
<1>1. JitOps = {}
  BY DEF Init, JitOps, Jit, Own
<1>2. TypeOK
  BY DEF Init, TypeOK, NewContext, Jit, Own
<1>3. QED
  BY <1>1, <1>2, FS_EmptySet
     DEF Init, IInv, ContextWhole, Recorded, UsesCounted, EngineHeld, CrashExplained,
         NewContext

\* The first _jit_sub: the context and the Emitter hold the new engine.
LEMMA FirstKeeps ==
  ASSUME IInv, JitSubFirst PROVE IInv'
<1>1. TypeOK'
  BY DEF IInv, JitSubFirst, Idle, TypeOK
<1>2. JitOps = {} /\ JitOps' = JitOps /\ Cardinality(JitOps) = 0
  BY FS_EmptySet DEF IInv, JitSubFirst, ContextWhole, JitOps
<1>3. ContextWhole' /\ Recorded'
  BY <1>2 DEF IInv, JitSubFirst, Idle, TypeOK, ContextWhole, Recorded, NoneRecycled
<1>4. UsesCounted' /\ EngineHeld'
  BY <1>2 DEF IInv, JitSubFirst, TypeOK, UsesCounted, EngineHeld
<1>5. CrashExplained'
  BY DEF IInv, JitSubFirst, Idle, CrashExplained
<1>6. QED
  BY <1>1, <1>3, <1>4, <1>5 DEF IInv

\* A _jit_sub that finds no engine
LEMMA NoEngineKeeps ==
  ASSUME IInv, JitSubNoEngine PROVE IInv'
<1>1. TypeOK'
  BY DEF IInv, JitSubNoEngine, Idle, TypeOK
<1>2. JitOps' = JitOps
  BY DEF JitSubNoEngine, JitOps
<1>3. ContextWhole' /\ Recorded'
  BY <1>2 DEF IInv, JitSubNoEngine, Idle, TypeOK, ContextWhole, Recorded, NoneRecycled
<1>4. UsesCounted'
  BY <1>2 DEF IInv, JitSubNoEngine, TypeOK, UsesCounted, NoneRecycled
<1>5. EngineHeld' /\ CrashExplained'
  BY DEF IInv, JitSubNoEngine, TypeOK, EngineHeld, CrashExplained, NoneRecycled
<1>6. QED
  BY <1>1, <1>3, <1>4, <1>5 DEF IInv

\* One Emitter more, of a later _jit_sub or of the kids of a term
LEMMA EmitterKeeps ==
  ASSUME IInv, JitSubAgain \/ OpenNested PROVE IInv'
<1>1. /\ emitters' = emitters + 1
      /\ uses' = uses + Share
      /\ context.alive /\ context.module # "null"
      /\ UNCHANGED <<context, engine, jit_ops, heap, crashed, recycled>>
  BY DEF IInv, TypeOK, ContextWhole, JitSubAgain, OpenNested, Idle, Retain
<1>2. TypeOK'
  BY <1>1 DEF IInv, TypeOK, Share
<1>3. JitOps' = JitOps
  BY <1>1 DEF JitOps
<1>4. ContextWhole' /\ Recorded'
  BY <1>1, <1>3 DEF IInv, ContextWhole, Recorded, NoneRecycled
<1>5. UsesCounted'
  BY <1>1, <1>3, JitOpsFinite DEF IInv, TypeOK, UsesCounted, Share, NoneRecycled
<1>6. EngineHeld'
  <2> SUFFICES ASSUME NoneRecycled PROVE engine = "live" <=> uses' > 0
    BY <1>1 DEF EngineHeld, NoneRecycled
  <2>1. CASE context.engine
    BY <2>1, <1>1, JitOpsFinite DEF IInv, TypeOK, UsesCounted, EngineHeld, Share
  <2>2. CASE ~ context.engine
    BY <2>2, <1>1 DEF IInv, TypeOK, EngineHeld, Share
  <2>3. QED
    BY <2>1, <2>2
<1>7. CrashExplained'
  BY <1>1 DEF IInv, CrashExplained, NoneRecycled
<1>8. QED
  BY <1>2, <1>4, <1>5, <1>6, <1>7 DEF IInv

\* One Emitter less; the ops of the log, if any, stay JIT ops.
LEMMA EmitterGoes ==
  ASSUME IInv, emitters > 0, emitters' = emitters - 1, ReleaseShare,
         UNCHANGED <<context, jit_ops, recycled>>,
         JitOps' = JitOps,
         \A a \in Address : heap[a] # "typed" => heap'[a] # "typed",
         heap' \in [Address -> Jit \union Own \union {"free"}],
         emitters' = 0 => \A a \in Address : heap'[a] # "logged"
  PROVE  IInv'
<1>1. ~ context.engine => UNCHANGED <<uses, engine, crashed>>
  BY DEF ReleaseShare
<1>2. context.engine => Release
  BY DEF ReleaseShare
<1>3. uses' \in Nat /\ engine' \in {"none", "live", "deleted"} /\ crashed' \in BOOLEAN
  <2>1. CASE context.engine
    BY <1>2, <2>1, ReleaseType
  <2>2. CASE ~ context.engine
    BY <1>1, <2>2 DEF IInv, TypeOK
  <2>3. QED
    BY <2>1, <2>2
<1>4. TypeOK'
  BY <1>3 DEF IInv, TypeOK
<1>5. ContextWhole' /\ Recorded'
  BY DEF IInv, TypeOK, ContextWhole, Recorded, NoneRecycled
<1>6. ASSUME NoneRecycled
      PROVE  UsesCounted' /\ EngineHeld' /\ CrashExplained'
  <2>1. CASE context.engine
    <3>1. uses = Cardinality(JitOps) + 1 + emitters
      BY <1>6, <2>1, JitOpsFinite DEF IInv, TypeOK, UsesCounted
    <3>2. uses > 0
      BY <3>1, JitOpsFinite DEF IInv, TypeOK
    <3>3. /\ uses' = uses - 1
          /\ engine' = "live" <=> uses' > 0
          /\ UNCHANGED crashed
      BY <1>2, <1>6, <2>1, <3>2, ReleaseHeld
    <3>4. UsesCounted'
      BY <2>1, <3>1, <3>3, JitOpsFinite DEF IInv, TypeOK, UsesCounted
    <3>5. EngineHeld' /\ CrashExplained'
      BY <1>6, <3>3 DEF IInv, EngineHeld, CrashExplained, NoneRecycled
    <3>6. QED
      BY <3>4, <3>5
  <2>2. CASE ~ context.engine
    BY <1>1, <1>6, <2>2 DEF IInv, UsesCounted, EngineHeld, CrashExplained, NoneRecycled
  <2>3. QED
    BY <2>1, <2>2
<1>7. ~ NoneRecycled => UsesCounted' /\ EngineHeld' /\ CrashExplained'
  BY DEF UsesCounted, EngineHeld, CrashExplained, NoneRecycled
<1>8. QED
  BY <1>4, <1>5, <1>6, <1>7 DEF IInv

LEMMA CloseKeeps ==
  ASSUME IInv, CloseNested PROVE IInv'
<1>1. JitOps' = JitOps /\ UNCHANGED heap
  BY DEF CloseNested, JitOps
<1>2. emitters > 0 /\ emitters' = emitters - 1 /\ emitters' # 0
  BY DEF IInv, TypeOK, CloseNested
<1>3. heap' \in [Address -> Jit \union Own \union {"free"}]
  BY <1>1 DEF IInv, TypeOK
<1>4. QED
  BY <1>1, <1>2, <1>3, EmitterGoes DEF CloseNested

LEMMA EndKeeps ==
  ASSUME IInv, NEW fate \in {"linked", "lost"}, EndJitSub(fate) PROVE IInv'
<1>1. heap' = [a \in Address |-> IF heap[a] = "logged" THEN fate ELSE heap[a]]
  BY DEF EndJitSub, Logged
<1>2. heap \in [Address -> Jit \union Own \union {"free"}]
  BY DEF IInv, TypeOK
<1>3. heap' \in [Address -> Jit \union Own \union {"free"}]
  BY <1>1, <1>2 DEF Jit
<1>4. JitOps' = JitOps
  BY <1>1, <1>2 DEF JitOps, Jit
<1>5. \A a \in Address : heap[a] # "typed" => heap'[a] # "typed"
  BY <1>1
<1>6. \A a \in Address : heap'[a] # "logged"
  BY <1>1
<1>7. emitters > 0 /\ emitters' = emitters - 1
  BY DEF EndJitSub
<1>8. QED
  BY <1>3, <1>4, <1>5, <1>6, <1>7, EmitterGoes DEF EndJitSub

\* A new JIT op holds the engine, which is there; without one the context has no
\* engine.
LEMMA JitTreesKeeps ==
  ASSUME IInv, NEW a \in Address, JitTrees(a) PROVE IInv'
<1>1. CASE context.pa
  <2>1. /\ heap[a] = "free" /\ heap' = [heap EXCEPT ![a] = "logged"]
        /\ jit_ops' = jit_ops \union {a}
        /\ uses' = uses + 1
        /\ emitters > 0 /\ context.engine /\ context.module = "live"
        /\ UNCHANGED <<context, engine, emitters, recycled, crashed>>
    BY <1>1 DEF IInv, ContextWhole, JitTrees, Retain
  <2>2. TypeOK'
    BY <2>1 DEF IInv, TypeOK, Jit
  <2>3. /\ JitOps' = JitOps \union {a}
        /\ Cardinality(JitOps') = Cardinality(JitOps) + 1
    BY <2>1, OneMore DEF IInv, Jit
  <2>4. ContextWhole' /\ Recorded'
    BY <2>1, <2>3 DEF IInv, TypeOK, ContextWhole, Recorded, NoneRecycled
  <2>5. UsesCounted'
    BY <2>1, <2>3, JitOpsFinite DEF IInv, TypeOK, UsesCounted, NoneRecycled
  <2>6. EngineHeld'
    BY <2>1, JitOpsFinite DEF IInv, TypeOK, UsesCounted, EngineHeld, NoneRecycled
  <2>7. CrashExplained'
    BY <2>1 DEF IInv, CrashExplained, NoneRecycled
  <2>8. QED
    BY <2>2, <2>4, <2>5, <2>6, <2>7 DEF IInv
<1>2. CASE ~ context.pa
  <2>1. /\ crashed' = TRUE
        /\ UNCHANGED <<context, engine, uses, emitters, jit_ops, heap, recycled>>
    BY <1>2 DEF JitTrees
  <2>2. context.module = "deleted"
    BY <1>2 DEF IInv, TypeOK, ContextWhole, JitTrees
  <2>3. crashed' \in BOOLEAN
    BY <2>1, Zenon
  <2>4. TypeOK'
    BY <2>1, <2>3 DEF IInv, TypeOK
  <2>5. JitOps' = JitOps
    BY <2>1 DEF JitOps
  <2>6. ContextWhole' /\ Recorded' /\ UsesCounted' /\ EngineHeld'
    BY <2>1, <2>5 DEF IInv, ContextWhole, Recorded, UsesCounted, EngineHeld, NoneRecycled
  <2>7. CrashExplained'
    BY <2>1, <2>2 DEF CrashExplained
  <2>8. QED
    BY <2>4, <2>6, <2>7 DEF IInv
<1>3. QED
  BY <1>1, <1>2

\* An op of perl's at the address of a former JIT op ends what we know.
LEMMA CompileKeeps ==
  ASSUME IInv, NEW a \in Address, NEW kind \in Own, Compile(a, kind) PROVE IInv'
<1>1. /\ heap[a] = "free" /\ heap' = [heap EXCEPT ![a] = kind]
      /\ UNCHANGED <<context, engine, uses, emitters, jit_ops, crashed>>
  BY DEF Compile
<1>2. JitOps' = JitOps
  BY <1>1, SameOps DEF IInv, Jit
<1>3. recycled' \subseteq Address /\ recycled \subseteq recycled'
  BY DEF Compile, IInv, TypeOK
<1>4. heap' \in [Address -> Jit \union Own \union {"free"}]
  BY <1>1 DEF IInv, TypeOK
<1>5. \A b \in Address : heap[b] # "logged" => heap'[b] # "logged"
  BY <1>1 DEF IInv, TypeOK, Own
<1>6. TypeOK'
  BY <1>1, <1>3, <1>4, <1>5 DEF IInv, TypeOK
<1>7. ASSUME NoneRecycled' PROVE NoneRecycled /\ (\A b \in jit_ops : heap'[b] # "typed")
  <2>1. NoneRecycled
    BY <1>3, <1>7 DEF NoneRecycled
  <2>2. a \notin jit_ops \/ kind # "typed"
    BY <1>7 DEF Compile, NoneRecycled
  <2>3. \A b \in jit_ops : b \in Address /\ heap[b] # "typed"
    BY <2>1 DEF IInv, TypeOK, Recorded
  <2>4. QED
    BY <1>1, <2>1, <2>2, <2>3 DEF IInv, TypeOK
<1>8. ContextWhole' /\ Recorded'
  BY <1>1, <1>2, <1>7 DEF IInv, ContextWhole, Recorded
<1>9. UsesCounted' /\ EngineHeld' /\ CrashExplained'
  BY <1>1, <1>2, <1>7 DEF IInv, UsesCounted, EngineHeld, CrashExplained
<1>10. QED
  BY <1>6, <1>8, <1>9 DEF IInv

\* The hook releases what a JIT op held, and nothing else.
LEMMA FreeKeeps ==
  ASSUME IInv, NEW a \in Address, FreeOp(a) PROVE IInv'
<1>1. /\ heap[a] \in {"linked"} \union Own
      /\ heap' = [heap EXCEPT ![a] = "free"]
      /\ UNCHANGED <<context, emitters, jit_ops, recycled>>
  BY DEF FreeOp
<1>2. uses' \in Nat /\ engine' \in {"none", "live", "deleted"} /\ crashed' \in BOOLEAN
  <2>1. CASE Release
    BY <2>1, ReleaseType
  <2>2. CASE UNCHANGED <<uses, engine, crashed>>
    BY <2>2 DEF IInv, TypeOK
  <2>3. CASE crashed' = TRUE /\ UNCHANGED <<uses, engine>>
    <3>1. crashed' \in BOOLEAN
      BY <2>3, Zenon
    <3>2. QED
      BY <2>3, <3>1 DEF IInv, TypeOK
  <2>4. QED
    BY <2>1, <2>2, <2>3 DEF FreeOp, ReleaseStray
<1>3. heap' \in [Address -> Jit \union Own \union {"free"}]
  BY <1>1 DEF IInv, TypeOK
<1>4. \A b \in Address : heap'[b] = heap[b] \/ heap'[b] = "free"
  BY <1>1 DEF IInv, TypeOK
<1>5. TypeOK'
  BY <1>1, <1>2, <1>3, <1>4 DEF IInv, TypeOK
<1>6. JitOps' \subseteq JitOps
  BY <1>1 DEF IInv, TypeOK, JitOps, Jit
<1>7. ContextWhole'
  BY <1>1, <1>6 DEF IInv, ContextWhole
<1>8. Recorded'
  BY <1>1, <1>4, <1>6 DEF IInv, TypeOK, Recorded, NoneRecycled
<1>9. ASSUME NoneRecycled
      PROVE  UsesCounted' /\ EngineHeld' /\ CrashExplained'
  <2>1. CASE heap[a] = "linked"
    <3>1. a \in jit_ops /\ heap[a] \in Jit
      BY <2>1 DEF IInv, Recorded, JitOps, Jit
    <3>2. Release
      BY <2>1, <3>1 DEF FreeOp
    <3>3. /\ JitOps' = JitOps \ {a}
          /\ Cardinality(JitOps') = Cardinality(JitOps) - 1
          /\ Cardinality(JitOps) > 0
      BY <1>1, <3>1, OneLess DEF IInv
    <3>4. uses > 0
      BY <1>9, <3>3, JitOpsFinite DEF IInv, TypeOK, UsesCounted
    <3>5. /\ uses' = uses - 1
          /\ engine' = "live" <=> uses' > 0
          /\ UNCHANGED crashed
      BY <1>9, <3>2, <3>4, ReleaseHeld
    <3>6. UsesCounted'
      BY <1>1, <1>9, <3>3, <3>5, JitOpsFinite DEF IInv, TypeOK, UsesCounted
    <3>7. EngineHeld' /\ CrashExplained'
      BY <1>1, <1>9, <3>5 DEF IInv, EngineHeld, CrashExplained, NoneRecycled
    <3>8. QED
      BY <3>6, <3>7
  <2>2. CASE heap[a] \in Own
    <3>1. ~ (a \in jit_ops /\ heap[a] = "typed") /\ heap[a] # "linked"
      BY <1>9, <2>2 DEF IInv, Recorded, Own
    <3>2. UNCHANGED <<uses, engine, crashed>>
      BY <3>1 DEF FreeOp
    <3>3. JitOps' = JitOps
      BY <1>1, <2>2, SameOps DEF IInv, Own, Jit
    <3>4. QED
      BY <1>1, <1>9, <3>2, <3>3
         DEF IInv, UsesCounted, EngineHeld, CrashExplained, NoneRecycled
  <2>3. QED
    BY <1>1, <2>1, <2>2
<1>10. ~ NoneRecycled => UsesCounted' /\ EngineHeld' /\ CrashExplained'
  BY <1>1 DEF UsesCounted, EngineHeld, CrashExplained, NoneRecycled
<1>11. QED
  BY <1>5, <1>7, <1>8, <1>9, <1>10 DEF IInv

\* The context gives up its share.
LEMMA CleanupKeeps ==
  ASSUME IInv, Cleanup PROVE IInv'
<1>1. /\ emitters = 0 /\ context.alive
      /\ ~ context'.alive /\ ~ context'.engine /\ ~ context'.pa
      /\ context'.module = context.module
      /\ context' \in [alive : BOOLEAN, module : {"null", "live", "deleted"},
                        engine : BOOLEAN, pa : BOOLEAN]
      /\ UNCHANGED <<emitters, jit_ops, heap, recycled>>
  BY DEF Cleanup, Idle, IInv, TypeOK
<1>2. ~ context.engine => UNCHANGED <<uses, engine, crashed>>
  BY DEF Cleanup, ReleaseShare
<1>3. context.engine => Release
  BY DEF Cleanup, ReleaseShare
<1>4. uses' \in Nat /\ engine' \in {"none", "live", "deleted"} /\ crashed' \in BOOLEAN
  <2>1. CASE context.engine
    BY <1>3, <2>1, ReleaseType
  <2>2. CASE ~ context.engine
    BY <1>2, <2>2 DEF IInv, TypeOK
  <2>3. QED
    BY <2>1, <2>2
<1>5. TypeOK'
  BY <1>1, <1>4 DEF IInv, TypeOK
<1>6. JitOps' = JitOps
  BY <1>1 DEF JitOps
<1>7. ContextWhole' /\ Recorded'
  BY <1>1, <1>6 DEF IInv, TypeOK, ContextWhole, Recorded, NoneRecycled
<1>8. ASSUME NoneRecycled
      PROVE  UsesCounted' /\ EngineHeld' /\ CrashExplained'
  <2>1. CASE context.engine
    <3>1. uses = Cardinality(JitOps) + 1
      BY <1>1, <1>8, <2>1, JitOpsFinite DEF IInv, TypeOK, UsesCounted
    <3>2. uses > 0
      BY <3>1, JitOpsFinite
    <3>3. /\ uses' = uses - 1
          /\ engine' = "live" <=> uses' > 0
          /\ UNCHANGED crashed
      BY <1>3, <1>8, <2>1, <3>2, ReleaseHeld
    <3>4. UsesCounted'
      BY <1>1, <1>6, <3>1, <3>3, JitOpsFinite DEF UsesCounted
    <3>5. EngineHeld' /\ CrashExplained'
      BY <1>1, <1>8, <3>3 DEF IInv, EngineHeld, CrashExplained, NoneRecycled
    <3>6. QED
      BY <3>4, <3>5
  <2>2. CASE ~ context.engine
    BY <1>1, <1>2, <1>6, <1>8, <2>2
       DEF IInv, UsesCounted, EngineHeld, CrashExplained, NoneRecycled
  <2>3. QED
    BY <2>1, <2>2
<1>9. ~ NoneRecycled => UsesCounted' /\ EngineHeld' /\ CrashExplained'
  BY <1>1 DEF UsesCounted, EngineHeld, CrashExplained, NoneRecycled
<1>10. QED
  BY <1>5, <1>7, <1>8, <1>9 DEF IInv

LEMMA NextIInv == IInv /\ [Next]_vars => IInv'
<1> SUFFICES ASSUME IInv, [Next]_vars PROVE IInv'
  OBVIOUS
<1>1. CASE JitSubFirst
  BY <1>1, FirstKeeps
<1>2. CASE JitSubNoEngine
  BY <1>2, NoEngineKeeps
<1>3. CASE JitSubAgain \/ OpenNested
  BY <1>3, EmitterKeeps
<1>4. CASE CloseNested
  BY <1>4, CloseKeeps
<1>5. ASSUME NEW a \in Address, JitTrees(a) PROVE IInv'
  BY <1>5, JitTreesKeeps
<1>6. ASSUME NEW a \in Address, FreeOp(a) PROVE IInv'
  BY <1>6, FreeKeeps
<1>7. ASSUME NEW fate \in {"linked", "lost"}, EndJitSub(fate) PROVE IInv'
  BY <1>7, EndKeeps
<1>8. ASSUME NEW a \in Address, NEW kind \in Own, Compile(a, kind) PROVE IInv'
  BY <1>8, CompileKeeps
<1>9. CASE Cleanup
  BY <1>9, CleanupKeeps
<1>10. CASE UNCHANGED vars
  BY <1>10
     DEF vars, IInv, TypeOK, ContextWhole, Recorded, UsesCounted, EngineHeld,
         CrashExplained, JitOps, NoneRecycled
<1>11. QED
  BY <1>1, <1>2, <1>3, <1>4, <1>5, <1>6, <1>7, <1>8, <1>9, <1>10 DEF Next

\* The strengthened invariant is inductive.
THEOREM HoldersInvariant == Spec => []IInv
BY InitIInv, NextIInv, PTL DEF Spec

\* Type correctness for any memory and any nesting of Emitters; only a _jit_sub
\* at work has a log.
THEOREM HoldersTypeCorrect == Spec => []TypeOK
<1>1. IInv => TypeOK
  BY DEF IInv
<1>2. QED
  BY <1>1, HoldersInvariant, PTL

\* free_execution_engine, the Emitters and ~Cxt release exactly what was taken.
THEOREM UsesCorrect == Spec => []UsesCounted
<1>1. IInv => UsesCounted
  BY DEF IInv
<1>2. QED
  BY <1>1, HoldersInvariant, PTL

\* The code of a JIT op outlives the context that made it.
THEOREM CodeCorrect == Spec => []CodeOutlivesContext
<1>1. IInv => CodeOutlivesContext
  <2> SUFFICES ASSUME IInv, NoneRecycled, JitOps # {} PROVE engine = "live"
    BY DEF CodeOutlivesContext
  <2>1. Cardinality(JitOps) # 0
    BY JitOpsFinite, FS_EmptySet
  <2>2. uses > 0
    BY <2>1, JitOpsFinite DEF IInv, TypeOK, UsesCounted
  <2>3. QED
    BY <2>2 DEF IInv, EngineHeld
<1>2. QED
  BY <1>1, HoldersInvariant, PTL

\* The only undefined behaviour is that of a _jit_sub after create_module failed.
THEOREM CrashCorrect == Spec => []CrashExplained
<1>1. IInv => CrashExplained
  BY DEF IInv
<1>2. QED
  BY <1>1, HoldersInvariant, PTL

\* After cleanup_emitter the last JIT op takes the engine along.
THEOREM EngineGoesCorrect == Spec => []EngineGoes
<1>1. IInv => EngineGoes
  <2> SUFFICES ASSUME IInv, NoneRecycled, ~ context.alive, JitOps = {}
               PROVE  engine # "live"
    BY DEF EngineGoes
  <2>1. ~ context.engine /\ Cardinality(JitOps) = 0
    BY FS_EmptySet DEF IInv, ContextWhole
  <2>2. uses = 0
    BY <2>1 DEF IInv, UsesCounted
  <2>3. QED
    BY <2>2 DEF IInv, EngineHeld
<1>2. QED
  BY <1>1, HoldersInvariant, PTL
=============================================================================
