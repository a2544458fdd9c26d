--------------------------- MODULE EmitKept_proofs ---------------------------
(***************************************************************************)
(* That no op of the sub is lost when the edits of Emit are carried out,   *)
(* for every value of Subs.                                                *)
(***************************************************************************)
EXTENDS EmitLog_proofs

-----------------------------------------------------------------------------
(* Lists and trees *)

LEMMA ListedBoth ==
  ASSUME NEW S, NEW s \in Seq(S), NEW t \in Seq(S)
  PROVE  Listed(s \o t) = Listed(s) \union Listed(t)
  <1> DEFINE v == s \o t
  <1>1. /\ Len(v) = Len(s) + Len(t) /\ Len(s) \in Nat /\ Len(t) \in Nat
        /\ \A n \in 1..(Len(s) + Len(t)) :
             v[n] = IF n <= Len(s) THEN s[n] ELSE t[n - Len(s)]
    BY ConcatProperties
  <1> HIDE DEF v
  <1>2. ASSUME NEW i \in 1..Len(v)
        PROVE  v[i] \in Listed(s) \union Listed(t)
    <2>1. CASE i <= Len(s)
      BY <1>1, <2>1 DEF Listed
    <2>2. CASE ~ i <= Len(s)
      <3>1. i - Len(s) \in 1..Len(t) /\ v[i] = t[i - Len(s)]
        BY <1>1, <2>2
      <3> QED BY <3>1 DEF Listed
    <2> QED BY <2>1, <2>2
  <1>3. ASSUME NEW i \in 1..Len(s)
        PROVE  s[i] \in Listed(v)
    <2>1. i \in 1..Len(v) /\ v[i] = s[i]
      BY <1>1
    <2> QED BY <2>1 DEF Listed
  <1>4. ASSUME NEW i \in 1..Len(t)
        PROVE  t[i] \in Listed(v)
    <2>1. /\ i + Len(s) \in 1..Len(v) /\ i + Len(s) \in 1..(Len(s) + Len(t))
          /\ ~ (i + Len(s) <= Len(s)) /\ (i + Len(s)) - Len(s) = i
      BY <1>1
    <2>2. v[i + Len(s)] = t[i]
      BY <1>1, <2>1
    <2> QED BY <2>1, <2>2 DEF Listed
  <1> QED BY <1>2, <1>3, <1>4 DEF Listed, v

LEMMA ListedOne ==
  ASSUME NEW S, NEW s \in Seq(S), NEW x
  PROVE  Listed(Append(s, x)) = Listed(s) \union {x}
  <1> DEFINE v == Append(s, x)
  <1>1. /\ Len(v) = Len(s) + 1 /\ Len(s) \in Nat
        /\ \A i \in 1..Len(s) : v[i] = s[i]
        /\ v[Len(s) + 1] = x
        /\ \A i \in 1..Len(v) : i \in 1..Len(s) \/ i = Len(s) + 1
        /\ Len(s) + 1 \in 1..Len(v) /\ \A i \in 1..Len(s) : i \in 1..Len(v)
    OBVIOUS
  <1> HIDE DEF v
  <1> QED BY <1>1 DEF Listed, v

\* What is below a term and is not the term is below one of its kids.
LEMMA BelowKid ==
  ASSUME IsTree(sub), NEW p \in Terms, NEW q \in Terms, Below(q, p), q # p
  PROVE  \E k \in 1..sub[p].size : Append(p, k) \in Terms /\ Below(q, Append(p, k))
  <1>1. p \in Paths /\ q \in Paths /\ sub[p].size \in Nat
    BY TermsArePaths
  <1>2. PICK n \in Nat : n = Len(p)
    BY <1>1 DEF Paths
  <1>3. n < Len(q) /\ Len(q) \in Nat /\ \A i \in 1..n : q[i] = p[i]
    <2>1. n <= Len(q) /\ Len(q) \in Nat /\ \A i \in 1..n : q[i] = p[i]
      BY <1>1, <1>2 DEF Below, Paths
    <2>2. n # Len(q)
      BY <1>1, <1>2, <2>1, SeqEqual DEF Paths
    <2> QED BY <2>1, <2>2
  <1>4. Upto(q, n) = p
    <2>1. /\ Upto(q, n) \in Paths /\ Len(Upto(q, n)) = n
          /\ \A i \in 1..n : Upto(q, n)[i] = q[i]
      <3>1. \A i \in 1..n : q[i] \in Nat \ {0}
        BY <1>1, <1>3 DEF Paths
      <3> QED BY <3>1, SubSeqProperties DEF Upto, Paths
    <2> QED BY <1>1, <1>2, <1>3, <2>1, SeqEqual DEF Paths
  <1>5. PICK k \in Nat \ {0} : k = q[n + 1] /\ k <= sub[p].size
    <2>1. n \in 0..(Len(q) - 1) /\ q[n + 1] \in Nat \ {0}
      BY <1>1, <1>3 DEF Paths
    <2>2. q[n + 1] <= sub[Upto(q, n)].size
      BY <2>1 DEF IsTree, Terms
    <2> QED BY <1>4, <2>1, <2>2
  <1>6. k \in 1..sub[p].size /\ Append(p, k) \in Terms
    BY <1>1, <1>5, KidTerm
  <1>7. Below(q, Append(p, k))
    <2> DEFINE r == Append(p, k)
    <2>1. /\ r \in Paths /\ Len(r) = n + 1 /\ r[n + 1] = k
          /\ \A i \in 1..n : r[i] = p[i]
      BY <1>1, <1>2, KidPath
    <2> HIDE DEF r
    <2>2. Below(q, r)
      BY <1>3, <1>5, <2>1 DEF Below
    <2> QED BY <2>2 DEF r
  <1> QED BY <1>6, <1>7

LEMMA BelowLeaf ==
  ASSUME IsTree(sub), NEW p \in Terms, NEW q \in Terms, Below(q, p), sub[p].size = 0
  PROVE  q = p
  BY BelowKid

LEMMA BelowSum ==
  ASSUME IsTree(sub), NEW p \in Terms, NEW q \in Terms, Below(q, p), q # p, sub[p].size = 2
  PROVE  /\ Append(p, 1) \in Terms /\ Append(p, 2) \in Terms
         /\ Below(q, Append(p, 1)) \/ Below(q, Append(p, 2))
  <1>1. PICK k \in 1..2 : Append(p, k) \in Terms /\ Below(q, Append(p, k))
    BY BelowKid
  <1>2. 1 \in 1..sub[p].size /\ 2 \in 1..sub[p].size
    OBVIOUS
  <1>3. k = 1 \/ k = 2
    OBVIOUS
  <1> QED BY <1>1, <1>2, <1>3, KidTerm

LEMMA UptoKid ==
  ASSUME NEW p \in Paths, NEW k \in Nat \ {0}
  PROVE  Upto(Append(p, k), Len(Append(p, k)) - 1) = p
  <1> DEFINE v == Append(p, k)
  <1>1. /\ v \in Paths /\ Len(v) = Len(p) + 1 /\ Len(p) \in Nat
        /\ \A i \in 1..Len(p) : v[i] = p[i]
    BY KidPath DEF Paths
  <1> HIDE DEF v
  <1>2. Len(v) - 1 = Len(p) /\ \A i \in 1..Len(p) : v[i] \in Nat \ {0}
    BY <1>1 DEF Paths
  <1>3. /\ Upto(v, Len(p)) \in Paths /\ Len(Upto(v, Len(p))) = Len(p)
        /\ \A i \in 1..Len(p) : Upto(v, Len(p))[i] = v[i]
    BY <1>1, <1>2, SubSeqProperties DEF Upto, Paths
  <1>4. Upto(v, Len(v) - 1) = p
    BY <1>1, <1>2, <1>3, SeqEqual DEF Paths
  <1> QED BY <1>4 DEF v

-----------------------------------------------------------------------------
(* What a function does, by the instructions w it has and the ops r it runs *)

SummedIn(w) == {n.term : n \in {m \in w : m.what = "fadd"}}

WorkedIn(p, w) == \E n \in w : n.term = p /\ n.what = (IF Kind(p) = "add" THEN "fadd" ELSE "load")

CoveredIn(p, w, r) ==
  \/ WorkedIn(p, w)
  \/ Kind(p) \in Constants /\ WorkedIn(Upto(p, Len(p) - 1), w)
  \/ \E op \in r : Below(p, op)

DoneIn(p, w, r) ==
  /\ \A q \in Terms : Below(q, p) /\ HasOp(q) =>
       CoveredIn(q, w, r) \/ (q = p /\ Kind(p) \in Constants)
  /\ Kind(p) = "add" => p \in SummedIn(w)

LEMMA DoneNow ==
  ASSUME NEW p, NEW f
  PROVE  /\ Additions(f) = SummedIn(Listed(work[f]))
         /\ Worked(p, f) <=> WorkedIn(p, Listed(work[f]))
         /\ Covered(p, f) <=> CoveredIn(p, Listed(work[f]), Listed(ran[f]))
         /\ CoveredBelow(p, f) <=> DoneIn(p, Listed(work[f]), Listed(ran[f]))
  BY DEF Additions, SummedIn, Worked, Does, WorkedIn, Covered, CoveredIn, CoveredBelow, DoneIn

LEMMA DoneNext ==
  ASSUME sub' = sub, NEW p, NEW f
  PROVE  /\ Additions(f)' = SummedIn(Listed(work'[f]))
         /\ CoveredBelow(p, f)' <=> DoneIn(p, Listed(work'[f]), Listed(ran'[f]))
  <1>1. Additions(f)' = SummedIn(Listed(work'[f]))
    BY DEF Additions, SummedIn, Listed
  <1>2. \A q : /\ Kind(q)' = Kind(q) /\ (HasOp(q)' <=> HasOp(q))
               /\ \A m : Below(q, m)' <=> Below(q, m)
    BY DEF Kind, HasOp, Below
  <1>3. \A q : Worked(q, f)' <=> WorkedIn(q, Listed(work'[f]))
    BY <1>2 DEF Worked, Does, WorkedIn, Listed
  <1>4. \A q : Covered(q, f)' <=> CoveredIn(q, Listed(work'[f]), Listed(ran'[f]))
    BY <1>2, <1>3 DEF Covered, CoveredIn, Listed, Constants, Upto
  <1>5. Terms' = Terms
    BY DEF Terms
  <1>6. CoveredBelow(p, f)' <=> DoneIn(p, Listed(work'[f]), Listed(ran'[f]))
    BY <1>1, <1>2, <1>4, <1>5 DEF CoveredBelow, DoneIn, Constants
  <1> QED BY <1>1, <1>6

LEMMA DoneMore ==
  ASSUME NEW w, NEW w2, w \subseteq w2, NEW r, NEW r2, r \subseteq r2
  PROVE  /\ SummedIn(w) \subseteq SummedIn(w2)
         /\ \A p : DoneIn(p, w, r) => DoneIn(p, w2, r2)
  <1>1. SummedIn(w) \subseteq SummedIn(w2)
    BY DEF SummedIn
  <1>2. \A q : WorkedIn(q, w) => WorkedIn(q, w2)
    BY DEF WorkedIn
  <1>3. \A q : CoveredIn(q, w, r) => CoveredIn(q, w2, r2)
    BY <1>2 DEF CoveredIn
  <1> QED BY <1>1, <1>3 DEF DoneIn

-----------------------------------------------------------------------------
(* What a step adds to the work of the functions *)

\* The instructions of a function from one state to the next
LEMMA Inserted ==
  ASSUME IInv, NEW list, Inserts(list)
  PROVE  /\ calls # <<>> /\ Top.fn \in 1..FunctionsMade /\ calls' = Outer
         /\ Listed(work'[Top.fn]) = Listed(work[Top.fn]) \union Listed(list)
         /\ \A f \in 1..FunctionsMade : f # Top.fn => work'[f] = work[f]
  <1>1. calls # <<>> /\ list \in Seq(Instruction) /\ calls' = Outer
    BY DEF Inserts
  <1>2. /\ Top.fn \in 1..Len(work) /\ work[Top.fn] \in Seq(Instruction)
        /\ work'[Top.fn] = work[Top.fn] \o list
        /\ \A g \in 1..Len(work) : g # Top.fn => work'[g] = work[g]
    BY InsertsInto
  <1>3. Len(work) = FunctionsMade
    BY <1>1, Here
  <1>4. PICK w : w = work[Top.fn]
    OBVIOUS
  <1>5. Listed(w \o list) = Listed(w) \union Listed(list)
    <2> HIDE DEF Instruction
    <2> QED BY <1>1, <1>2, <1>4, ListedBoth
  <1> QED BY <1>1, <1>2, <1>3, <1>4, <1>5

LEMMA ListedInstructions ==
  ASSUME NEW p \in Terms, NEW whats \in Seq(Whats)
  PROVE  /\ \A n \in Listed(Instructions(p, whats)) : n.term = p /\ n.what \in Listed(whats)
         /\ \A v \in Listed(whats) :
              \E n \in Listed(Instructions(p, whats)) : n.term = p /\ n.what = v
  <1> DEFINE list == Instructions(p, whats)
  <1>1. /\ Len(list) = Len(whats)
        /\ \A i \in 1..Len(whats) : list[i].term = p /\ list[i].what = whats[i]
    BY InstructionsAre
  <1> HIDE DEF list
  <1> QED BY <1>1 DEF Listed, list

LEMMA GetLexicalAdds ==
  ASSUME IInv, GetLexical
  PROVE  \E list : /\ Inserts(list)
                   /\ \A n \in Listed(list) : n.term = Top.term /\ n.what # "fadd"
                   /\ \E n \in Listed(list) : n.term = Top.term /\ n.what = "load"
  <1>1. Inserts(Instructions(Top.term, <<"load">>)) /\ Top.term \in Terms
    BY GetLexicalInserts, Here DEF Inserts
  <1>2. PICK w \in Seq(Whats) : w = <<"load">>
    <2> DEFINE w == <<"load">>
    <2>1. w \in Seq(Whats)
      BY WhatsOf
    <2> HIDE DEF w
    <2> QED BY <2>1 DEF w
  <1>3. Listed(w) = {"load"}
    BY <1>2 DEF Listed
  <1>4. /\ \A n \in Listed(Instructions(Top.term, w)) : n.term = Top.term /\ n.what \in Listed(w)
        /\ \A v \in Listed(w) :
             \E n \in Listed(Instructions(Top.term, w)) : n.term = Top.term /\ n.what = v
    BY <1>1, ListedInstructions
  <1> QED BY <1>1, <1>2, <1>3, <1>4

LEMMA BinopAddsAdds ==
  ASSUME IInv, BinopAdds
  PROVE  \E list : /\ Inserts(list)
                   /\ \A n \in Listed(list) : n.term = Top.term
                   /\ \E n \in Listed(list) : n.term = Top.term /\ n.what = "fadd"
  <1> DEFINE a == ToNv(Top.left) \o ToNv(value)
             c == IF Assigns THEN <<"assign">> ELSE <<>>
             w == a \o <<"fadd">> \o c
  <1>1. /\ calls # <<>> /\ Top.at = "binop" /\ calls' = Outer
        /\ Insert(Top.fn, Instructions(Top.term, w))
    BY DEF IInv, TypeOK, BinopAdds, At, Returning
  <1>2. a \in Seq(Whats) /\ <<"fadd">> \in Seq(Whats) /\ c \in Seq(Whats)
    <2>1. ToNv(Top.left) \in Seq(Whats) /\ ToNv(value) \in Seq(Whats)
      BY WhatsOf DEF ToNv
    <2> QED BY <2>1, WhatsOf, ConcatProperties
  <1> HIDE DEF a, c
  <1>3. PICK b \in Seq(Whats) : b = <<"fadd">>
    BY <1>2
  <1>4. "fadd" \in Listed(b)
    BY <1>3 DEF Listed
  <1>5. PICK d \in Seq(Whats) : d = a \o b /\ Listed(d) = Listed(a) \union Listed(b)
    BY <1>2, ListedBoth, ConcatProperties
  <1>6. PICK e \in Seq(Whats) : e = d \o c /\ Listed(e) = Listed(d) \union Listed(c)
    BY <1>2, ListedBoth, ConcatProperties
  <1>7. w \in Seq(Whats) /\ "fadd" \in Listed(w)
    BY <1>3, <1>4, <1>5, <1>6
  <1> HIDE DEF w
  <1>8. Top.term \in Terms /\ Inserts(Instructions(Top.term, w))
    BY <1>1, <1>7, Here, InsertsAboutTerm
  <1>9. /\ \A n \in Listed(Instructions(Top.term, w)) : n.term = Top.term
        /\ \E n \in Listed(Instructions(Top.term, w)) : n.term = Top.term /\ n.what = "fadd"
    BY <1>7, <1>8, ListedInstructions
  <1> QED BY <1>8, <1>9

LEMMA EmitOptreeAdds ==
  ASSUME IInv, EmitOptree
  PROVE  \E list : /\ Inserts(list)
                   /\ \A n \in Listed(list) : n.term = Top.term /\ n.what # "fadd"
  <1> DEFINE w == IF sub[Top.term].ctx = "scalar" THEN <<"run", "pop">> ELSE <<"run">>
  <1>1. /\ calls # <<>> /\ Top.at = "kids" /\ calls' = Outer
        /\ Insert(Top.fn, Instructions(Top.term, w))
    BY DEF IInv, TypeOK, EmitOptree, RunTree, Goes, At, Returning
  <1>2. w \in Seq(Whats)
    BY WhatsOf
  <1>3. "fadd" \notin Listed(w)
    <2>1. CASE sub[Top.term].ctx = "scalar"
      <3>1. w = <<"run", "pop">>
        BY <2>1
      <3>2. Len(w) = 2 /\ w[1] = "run" /\ w[2] = "pop"
        BY <3>1
      <3> HIDE DEF w
      <3> QED BY <3>2 DEF Listed
    <2>2. CASE sub[Top.term].ctx # "scalar"
      <3>1. w = <<"run">>
        BY <2>2
      <3>2. Len(w) = 1 /\ w[1] = "run"
        BY <3>1
      <3> HIDE DEF w
      <3> QED BY <3>2 DEF Listed
    <2> QED BY <2>1, <2>2
  <1> HIDE DEF w
  <1>4. Top.term \in Terms /\ Inserts(Instructions(Top.term, w))
    BY <1>1, <1>2, Here, InsertsAboutTerm
  <1>5. \A n \in Listed(Instructions(Top.term, w)) : n.term = Top.term /\ n.what # "fadd"
    BY <1>2, <1>3, <1>4, ListedInstructions
  <1> QED BY <1>4, <1>5

\* What a step adds to what a function has done
LEMMA NextDone ==
  ASSUME IInv, [Next]_vars, NEW f \in 1..FunctionsMade
  PROVE  /\ Listed(work[f]) \subseteq Listed(work'[f])
         /\ Listed(ran[f]) \subseteq Listed(ran'[f])
         /\ \/ SummedIn(Listed(work'[f])) = SummedIn(Listed(work[f]))
            \/ /\ BinopAdds /\ f = Top.fn
               /\ SummedIn(Listed(work'[f])) = SummedIn(Listed(work[f])) \union {Top.term}
         /\ \/ Listed(ran'[f]) = Listed(ran[f])
            \/ /\ EmitOptree /\ f = Top.fn
               /\ Listed(ran'[f]) = Listed(ran[f]) \union {OpOf(Top.term)}
  <1>1. ASSUME NEW list, Inserts(list), \A n \in Listed(list) : n.what # "fadd"
        PROVE  /\ Listed(work[f]) \subseteq Listed(work'[f])
               /\ SummedIn(Listed(work'[f])) = SummedIn(Listed(work[f]))
    <2>1. CASE f = Top.fn
      <3>1. Listed(work'[f]) = Listed(work[f]) \union Listed(list)
        BY <1>1, <2>1, Inserted
      <3> QED BY <1>1, <3>1 DEF SummedIn
    <2>2. CASE f # Top.fn
      <3>1. work'[f] = work[f]
        BY <1>1, <2>2, Inserted
      <3> QED BY <3>1 DEF Listed
    <2> QED BY <2>1, <2>2
  <1>2. /\ Listed(work[f]) \subseteq Listed(work'[f])
        /\ \/ SummedIn(Listed(work'[f])) = SummedIn(Listed(work[f]))
           \/ /\ BinopAdds /\ f = Top.fn
              /\ SummedIn(Listed(work'[f])) = SummedIn(Listed(work[f])) \union {Top.term}
    <2>1. CASE work'[f] = work[f]
      BY <2>1 DEF Listed
    <2>2. CASE GetLexical
      BY <1>1, <2>2, GetLexicalAdds
    <2>3. CASE EmitOptree
      BY <1>1, <2>3, EmitOptreeAdds
    <2>4. CASE JitTreesFail \/ JitTreesGoOn
      <3>1. PICK list : Inserts(list)
        BY <2>4, Inserting
      <3>2. Top.at = "trees"
        BY <2>4 DEF JitTreesFail, JitTreesGoOn, At
      <3>3. \A n \in Listed(list) : n.what # "fadd"
        BY <3>1, <3>2 DEF Inserts, Listed
      <3> QED BY <1>1, <3>1, <3>3
    <2>5. CASE BinopAdds
      <3>1. PICK list : /\ Inserts(list)
                        /\ \A n \in Listed(list) : n.term = Top.term
                        /\ \E n \in Listed(list) : n.term = Top.term /\ n.what = "fadd"
        BY <2>5, BinopAddsAdds
      <3>2. CASE f = Top.fn
        <4>1. Listed(work'[f]) = Listed(work[f]) \union Listed(list)
          BY <3>1, <3>2, Inserted
        <4> QED BY <2>5, <3>1, <3>2, <4>1 DEF SummedIn
      <3>3. CASE f # Top.fn
        <4>1. work'[f] = work[f]
          BY <3>1, <3>3, Inserted
        <4> QED BY <4>1 DEF Listed
      <3> QED BY <3>2, <3>3
    <2>6. CASE ProcessTree \/ SequenceFlushes
      <3>1. \/ work'[f] = work[f]
            \/ \E list : Inserts(list)
        BY NextWork
      <3>2. ~ \E list : Inserts(list)
        BY <2>6, Starting DEF Inserts, Emissions
      <3> QED BY <2>1, <3>1, <3>2
    <2> QED BY <2>1, <2>2, <2>3, <2>4, <2>5, <2>6, Changes
  <1>3. /\ Listed(ran[f]) \subseteq Listed(ran'[f])
        /\ \/ Listed(ran'[f]) = Listed(ran[f])
           \/ /\ EmitOptree /\ f = Top.fn
              /\ Listed(ran'[f]) = Listed(ran[f]) \union {OpOf(Top.term)}
    <2>1. CASE ran'[f] = ran[f]
      BY <2>1 DEF Listed
    <2>2. CASE EmitOptree /\ f = Top.fn /\ ran'[f] = Append(ran[f], OpOf(Top.term))
      <3>1. PICK r : r = ran[f]
        OBVIOUS
      <3>2. r \in Seq(Ops)
        BY <3>1 DEF IInv, TypeOK, FunctionsMade
      <3>3. Listed(Append(r, OpOf(Top.term))) = Listed(r) \union {OpOf(Top.term)}
        BY <3>2, ListedOne
      <3> QED BY <2>2, <3>1, <3>3
    <2> QED BY <2>1, <2>2, NextRan
  <1> QED BY <1>2, <1>3

\* A new function has nothing yet.
LEMMA NewFunction ==
  ASSUME IInv, [Next]_vars, NEW f \in 1..Len(fns'), f \notin 1..FunctionsMade
  PROVE  /\ ProcessTree \/ SequenceFlushes
         /\ f = Len(fns) + 1
         /\ Listed(work'[f]) = {} /\ Listed(ran'[f]) = {}
  <1>1. ProcessTree \/ SequenceFlushes
    BY FunctionsKept DEF FunctionsMade
  <1>2. f = Len(fns) + 1
    <2> DEFINE S == Seq(Instruction)
    <2>1. fns \in Seq(S) /\ fns' = Append(fns, <<>>)
      BY <1>1, Starting, Here
    <2> HIDE DEF S
    <2>2. Len(fns') = Len(fns) + 1 /\ Len(fns) \in Nat
      BY <2>1
    <2> QED BY <2>2 DEF FunctionsMade
  <1>3. Len(work'[f]) = 0
    <2>1. f \in 1..Len(work')
      BY NextFits DEF Fits
    <2> QED BY <2>1, NextWork
  <1>4. ran'[f] = <<>>
    BY <1>1, <1>2, NextRan DEF FunctionsMade
  <1> QED BY <1>1, <1>2, <1>3, <1>4 DEF Listed

\* The functions that are JIT ops are emitted for no longer.
LEMMA MadeIsOver ==
  ASSUME IInv, NEW f \in Made
  PROVE  /\ f \in 1..FunctionsMade /\ f \in 1..Len(fns) /\ f \in 1..Len(work) /\ f \in 1..Len(ran)
         /\ \A i \in Frames : calls[i].at \in Emissions => f # calls[i].fn
         /\ calls # <<>> /\ Top.at \in Emissions => f # Top.fn
  <1>1. PICK j \in 1..Len(jits) : f = jits[j].fn
    BY DEF Made
  <1>2. f \in 1..Len(fns) /\ Len(work) = Len(fns) /\ Len(ran) = Len(fns)
    <2> DEFINE J == [fn : 1..Len(fns), kids : Seq(Ops)]
    <2>1. jits \in Seq(J) /\ Len(work) = Len(fns) /\ Len(ran) = Len(fns)
      BY DEF IInv, TypeOK
    <2>2. jits[j] \in J
      <3> HIDE DEF J
      <3> QED BY <1>1, <2>1
    <2> QED BY <1>1, <2>1, <2>2
  <1>3. \A i \in Frames : calls[i].at \in Emissions => f # calls[i].fn
    BY <1>1 DEF IInv, SubtreesRun
  <1>4. calls # <<>> => Len(calls) \in Frames /\ calls[Len(calls)] = Top
    BY TopAndOuter DEF Frames, Top, IInv
  <1> QED BY <1>2, <1>3, <1>4 DEF FunctionsMade

LEMMA MadeIsDone ==
  ASSUME IInv, [Next]_vars, NEW f \in Made
  PROVE  /\ work'[f] = work[f] /\ ran'[f] = ran[f]
         /\ f \in 1..FunctionsMade /\ f \in 1..Len(fns')
  <1>1. f \in 1..FunctionsMade /\ (calls # <<>> /\ Top.at \in Emissions => f # Top.fn)
    BY MadeIsOver
  <1>2. work'[f] = work[f]
    BY <1>1, NextWork DEF Inserts
  <1>3. ran'[f] = ran[f]
    <2>1. EmitOptree => calls # <<>> /\ Top.at \in Emissions
      BY SubtreeKept DEF Emissions
    <2> QED BY <1>1, <2>1, NextRan
  <1>4. f \in 1..Len(fns')
    <2>1. FunctionsMade <= Len(fns') /\ FunctionsMade \in Nat /\ Len(fns') \in Nat
      BY NextFits DEF Fits, FunctionsMade, IInv, TypeOK
    <2> QED BY <1>1, <2>1
  <1> QED BY <1>1, <1>2, <1>3, <1>4

LEMMA NextMade ==
  ASSUME IInv, [Next]_vars
  PROVE  /\ ~ JitTreesGoOn => jits' = jits /\ Made' = Made
         /\ JitTreesGoOn => Made' = Made \union {Top.fn}
  <1>1. ~ JitTreesGoOn => jits' = jits /\ Made' = Made
    BY Changes DEF Made
  <1>2. ASSUME JitTreesGoOn
        PROVE  Made' = Made \union {Top.fn}
    <2> DEFINE j == [fn |-> Top.fn, kids |-> subtrees[Top.this]]
    <2>1. jits' = Append(jits, j) /\ j.fn = Top.fn
      BY <1>2, JitTreesGoOnMakes
    <2> HIDE DEF j
    <2>2. jits \in Seq([fn : 1..Len(fns), kids : Seq(Ops)])
      BY DEF IInv, TypeOK
    <2>3. /\ Len(jits') = Len(jits) + 1 /\ Len(jits) \in Nat
          /\ \A i \in 1..Len(jits) : jits'[i] = jits[i]
          /\ jits'[Len(jits) + 1] = j
      BY <2>1, <2>2
    <2>4. /\ \A i \in 1..Len(jits') : i \in 1..Len(jits) \/ i = Len(jits) + 1
          /\ Len(jits) + 1 \in 1..Len(jits') /\ \A i \in 1..Len(jits) : i \in 1..Len(jits')
      BY <2>3
    <2> QED BY <2>1, <2>3, <2>4 DEF Made
  <1> QED BY <1>1, <1>2

-----------------------------------------------------------------------------
(* Compiled: what returns with a value is done *)

LEMMA WorkAt ==
  ASSUME IInv, NEW f \in 1..FunctionsMade
  PROVE  /\ \A n \in Listed(work[f]) : n.term \in Terms
         /\ Additions(f) \subseteq Terms /\ Additions(f) \subseteq Paths
  <1>1. \A k \in 1..Len(work[f]) : work[f][k].term \in Terms /\ work[f][k].term \in Paths
    BY WorkIsTyped
  <1> QED BY <1>1 DEF Listed, Additions

\* The calls and what they emit for
LEMMA EmissionHere ==
  ASSUME IInv, NEW i \in Frames, calls[i].at \in Emissions
  PROVE  /\ calls # <<>> /\ calls[i].fn \in 1..FunctionsMade /\ calls[i].term \in Terms
         /\ CallWhole(calls[i]) /\ calls[i] \in CallsUpTo(EmittersAlive, FunctionsMade)
         /\ calls[i].at = "binop" => Kind(calls[i].term) = "add"
  <1>1. calls # <<>>
    BY DEF Frames
  <1>2. i = Len(calls) \/ i \in 1..Len(Outer)
    BY <1>1, TopAndOuter DEF Frames, IInv
  <1>3. CASE i = Len(calls)
    <2>1. calls[i] = Top
      BY <1>3 DEF Top
    <2> QED BY <1>1, <2>1, Here, EmissionOfTop DEF CallWhole
  <1>4. CASE i \in 1..Len(Outer)
    <2>1. Outer[i] = calls[i]
      BY <1>1, <1>4, TopAndOuter DEF IInv
    <2> QED BY <1>1, <1>4, <2>1, OuterEmission DEF CallWhole
  <1> QED BY <1>2, <1>3, <1>4

LEMMA TopIsFrame ==
  ASSUME IInv, calls # <<>>
  PROVE  Len(calls) \in Frames /\ calls[Len(calls)] = Top
  BY TopAndOuter DEF Frames, Top, IInv

LEMMA ReturnsDone ==
  ASSUME IInv, Compiled, [Next]_vars, value' # "none",
         EmitConst \/ GetLexical \/ BinopAdds \/ JitKidsFail \/ EmitOptree
  PROVE  DoneIn(Top.term, Listed(work'[Top.fn]), Listed(ran'[Top.fn]))
  <1> DEFINE p == Top.term
             w == Listed(work'[Top.fn])
             r == Listed(ran'[Top.fn])
  <1>1. CASE EmitConst
    <2>1. calls # <<>> /\ Kind(p) \in Constants
      BY <1>1 DEF EmitConst, At, IInv, TypeOK
    <2>2. p \in Terms /\ sub[p].size = 0 /\ IsTree(sub)
      BY <2>1, Here DEF IsTree, Terms, Kind
    <2>3. \A q \in Terms : Below(q, p) => q = p
      BY <2>2, BelowLeaf
    <2>4. Kind(p) # "add"
      BY <2>1 DEF Constants
    <2> QED BY <2>1, <2>3, <2>4 DEF DoneIn
  <1>2. CASE GetLexical
    <2>1. calls # <<>> /\ Kind(p) \in Variables
      BY <1>2 DEF GetLexical, At, IInv, TypeOK
    <2>2. p \in Terms /\ sub[p].size = 0 /\ IsTree(sub)
      BY <2>1, Here DEF IsTree, Terms, Kind
    <2>3. \A q \in Terms : Below(q, p) => q = p
      BY <2>2, BelowLeaf
    <2>4. Kind(p) # "add"
      BY <2>1 DEF Variables
    <2>5. PICK list : Inserts(list) /\ \E n \in Listed(list) : n.term = p /\ n.what = "load"
      BY <1>2, GetLexicalAdds
    <2>6. \E n \in w : n.term = p /\ n.what = "load"
      BY <2>5, Inserted
    <2>7. WorkedIn(p, w)
      BY <2>4, <2>6 DEF WorkedIn
    <2> QED BY <2>3, <2>4, <2>7 DEF DoneIn, CoveredIn
  <1>3. CASE BinopAdds
    <2>1. /\ calls # <<>> /\ Top.at = "binop" /\ Top.left \notin {"pending", "none"}
          /\ value # "none"
      BY <1>3 DEF BinopAdds, At, IInv, TypeOK
    <2>2. Kind(p) = "add" /\ p \in Terms /\ Top.fn \in 1..FunctionsMade /\ IsTree(sub)
      BY <2>1, TopIsFrame, EmissionHere, Here DEF Emissions
    <2>3. sub[p].size = 2
      BY <2>2 DEF IsTree, Terms, Kind
    <2>4. Emitted(Top) = Append(p, 2)
      BY <2>1 DEF Emitted, Operand
    <2>5. CoveredBelow(Append(p, 2), Top.fn) /\ CoveredBelow(Append(p, 1), Top.fn)
      BY <2>1, <2>4, TopIsFrame DEF Compiled
    <2>6. DoneIn(Append(p, 2), w, r) /\ DoneIn(Append(p, 1), w, r)
      BY <2>2, <2>5, DoneNow, DoneMore, NextDone
    <2>7. PICK list : Inserts(list) /\ \E n \in Listed(list) : n.term = p /\ n.what = "fadd"
      BY <1>3, BinopAddsAdds
    <2>8. \E n \in w : n.term = p /\ n.what = "fadd"
      BY <2>7, Inserted
    <2>9. WorkedIn(p, w) /\ p \in SummedIn(w)
      BY <2>2, <2>8 DEF WorkedIn, SummedIn
    <2>10. ASSUME NEW q \in Terms, Below(q, p), HasOp(q)
           PROVE  CoveredIn(q, w, r)
      <3>1. CASE q = p
        BY <2>9, <3>1 DEF CoveredIn
      <3>2. ASSUME NEW k \in {1, 2}, Below(q, Append(p, k)), q # p
            PROVE  CoveredIn(q, w, r)
        <4>1. CASE q = Append(p, k) /\ Kind(q) \in Constants
          <5>1. Upto(Append(p, k), Len(Append(p, k)) - 1) = p
            BY <2>2, TermsArePaths, UptoKid
          <5> QED BY <2>9, <4>1, <5>1 DEF CoveredIn
        <4>2. CASE ~ (q = Append(p, k) /\ Kind(q) \in Constants)
          BY <2>6, <2>10, <3>2, <4>2 DEF DoneIn
        <4> QED BY <4>1, <4>2
      <3> QED BY <2>2, <2>3, <2>10, <3>1, <3>2, BelowSum
    <2> QED BY <2>9, <2>10 DEF DoneIn
  <1>4. CASE JitKidsFail
    BY <1>4 DEF JitKidsFail, Returning
  <1>5. CASE EmitOptree
    <2>1. calls # <<>> /\ Top.at = "kids"
      BY <1>5, SubtreeKept
    <2>2. p \in Terms /\ IsTreeOfOps(p) /\ Top.fn \in 1..FunctionsMade /\ IsTree(sub)
      BY <2>1, TopIsFrame, EmissionHere, Here DEF Emissions, CallWhole
    <2>3. OpOf(p) \in r
      <3>1. PICK t : t = ran[Top.fn]
        OBVIOUS
      <3>2. t \in Seq(Ops)
        BY <2>2, <3>1 DEF IInv, TypeOK, FunctionsMade
      <3>3. ran'[Top.fn] = Append(t, OpOf(p))
        BY <1>5, <3>1, NextRan
      <3> QED BY <3>2, <3>3, ListedOne
    <2>4. ASSUME NEW q \in Terms, Below(q, p)
          PROVE  CoveredIn(q, w, r)
      <3>1. Below(p, OpOf(p)) /\ OpOf(p) \in Paths /\ q \in Paths /\ p \in Paths
        BY <2>2, OpOfIs, TermsArePaths
      <3>2. Below(q, OpOf(p))
        BY <2>4, <3>1, BelowBelow
      <3> QED BY <2>3, <3>2 DEF CoveredIn
    <2> QED BY <2>2, <2>4 DEF DoneIn, IsTreeOfOps
  <1> QED BY <1>1, <1>2, <1>3, <1>4, <1>5

\* The tree of the function whose JIT op is made
LEMMA NewTree ==
  ASSUME IInv, LogInv, Compiled, JitTreesGoOn
  PROVE  /\ TreeOf(Top.fn) = Top.asts[1] /\ Kind(Top.asts[1]) = "add" /\ Top.asts[1] \in Terms
         /\ CoveredBelow(Top.asts[1], Top.fn)
         /\ calls # <<>> /\ Top.at = "trees" /\ Top.fn \in 1..FunctionsMade
         /\ Replaced = <<OpOf(Top.asts[1])>>
  <1> DEFINE p == Top.asts[1]
             f == Top.fn
  <1>1. calls # <<>> /\ Top.at = "trees" /\ Kind(p) # "statement"
    BY JitTreesGoOnMakes
  <1>2. Kind(p) = "add"
    BY <1>1, LogHere DEF FrameApart
  <1>3. Emitted(Top) = p /\ value # "none"
    BY <1>1 DEF Emitted, JitTreesGoOn, Valid
  <1>4. CoveredBelow(p, f)
    BY <1>1, <1>3 DEF Compiled
  <1>5. p \in Additions(f)
    BY <1>2, <1>4 DEF CoveredBelow
  <1>6. f \in 1..FunctionsMade /\ p \in Terms
    BY <1>1, TreesOfTop
  <1>7. ASSUME NEW q \in Additions(f)
        PROVE  Below(q, p) /\ q \in Paths
    <2>1. PICK k \in 1..Len(work[f]) : q = work[f][k].term
      BY DEF Additions, Listed
    <2>2. Behind(q, Top)
      BY <1>1, <2>1, TopIsFrame DEF IInv, WorkBehind, Emissions
    <2> QED BY <1>1, <1>6, <2>2, WorkAt DEF Behind
  <1>8. ASSUME NEW q \in Additions(f), \A s \in Additions(f) : Below(s, q)
        PROVE  q = p
    BY <1>5, <1>7, <1>8, BelowBoth
  <1>9. TreeOf(f) = p
    BY <1>5, <1>7, <1>8 DEF TreeOf
  <1>10. Replaced = <<OpOf(p)>>
    BY <1>1 DEF Replaced, IsStatements
  <1> QED BY <1>1, <1>2, <1>4, <1>6, <1>9, <1>10

LEMMA SameTreeOf ==
  ASSUME sub' = sub, NEW f, work'[f] = work[f]
  PROVE  Additions(f)' = Additions(f) /\ TreeOf(f)' = TreeOf(f) /\ PlaceOf(f)' = PlaceOf(f)
  <1>1. Additions(f)' = Additions(f)
    BY DEF Additions, Listed
  <1>2. TreeOf(f)' = TreeOf(f)
    BY <1>1 DEF TreeOf
  <1> QED BY <1>1, <1>2 DEF PlaceOf, OpOf

LEMMA NewPlace ==
  ASSUME IInv, LogInv, Compiled, [Next]_vars, JitTreesGoOn, NEW f, f = Top.fn
  PROVE  /\ TreeOf(f)' = Top.asts[1] /\ PlaceOf(f)' = OpOf(Top.asts[1])
         /\ PlaceOf(f) = OpOf(Top.asts[1])
         /\ ran'[f] = ran[f]
  <1>1. /\ TreeOf(f) = Top.asts[1] /\ f \in 1..FunctionsMade
        /\ calls # <<>> /\ Top.at = "trees"
    BY NewTree
  <1>2. sub' = sub
    BY NextFits
  <1>3. Additions(f)' = SummedIn(Listed(work'[f])) /\ Additions(f) = SummedIn(Listed(work[f]))
    BY <1>2, DoneNow, DoneNext
  <1>4. ~ BinopAdds /\ ~ EmitOptree
    BY <1>1 DEF BinopAdds, EmitOptree, Goes, At
  <1>5. Additions(f)' = Additions(f)
    BY <1>1, <1>3, <1>4, NextDone
  <1>6. TreeOf(f)' = TreeOf(f)
    BY <1>5 DEF TreeOf
  <1>7. ran'[f] = ran[f]
    BY <1>1, <1>4, NextRan
  <1> QED BY <1>1, <1>2, <1>6, <1>7 DEF PlaceOf, OpOf

LEMMA NextCompiled ==
  ASSUME IInv, LogInv, Compiled, [Next]_vars
  PROVE  Compiled'
  <1>1. /\ calls # <<>> /\ Top.at \in {"trees", "binop"} /\ value # "none" =>
             CoveredBelow(Emitted(Top), Top.fn)
        /\ \A i \in Frames : calls[i].at = "binop" /\ calls[i].left \notin {"pending", "none"} =>
             CoveredBelow(Append(calls[i].term, 1), calls[i].fn)
        /\ \A f \in Made : /\ Kind(TreeOf(f)) = "add" /\ TreeOf(f) \in Terms
                           /\ CoveredBelow(TreeOf(f), f)
    BY DEF Compiled
  <1>2. sub' = sub
    BY NextFits
  <1>3. ASSUME NEW p, NEW f \in 1..FunctionsMade, CoveredBelow(p, f)
        PROVE  DoneIn(p, Listed(work'[f]), Listed(ran'[f]))
    BY <1>3, DoneNow, DoneMore, NextDone
  <1>4. ASSUME calls' # <<>>, NEW t, t = calls'[Len(calls')], t.at \in {"trees", "binop"},
               value' # "none"
        PROVE  DoneIn(Emitted(t), Listed(work'[t.fn]), Listed(ran'[t.fn]))
    <2>1. CASE UNCHANGED <<calls, value, ok>>
      <3>1. calls # <<>> /\ t = Top
        BY <1>4, <2>1 DEF Top
      <3>2. Top.fn \in 1..FunctionsMade
        BY <1>4, <3>1, EmissionOfTop DEF Emissions
      <3> QED BY <1>1, <1>3, <1>4, <2>1, <3>1, <3>2
    <2>2. CASE calls' = Outer /\ calls # <<>>
      <3>1. Called(t, Top)
        BY <1>4, <2>2, Here, CallReturns
      <3>2. Top.term = Emitted(t) /\ Top.at \in {"emit", "binop", "kids"} /\ t.fn = Top.fn
        BY <1>4, <3>1 DEF Called
      <3>3. ~ ProcessReturns
        BY <3>2 DEF ProcessReturns, At
      <3>4. CASE UNCHANGED <<calls, value, ok>>
        BY <2>1, <3>4
      <3>5. CASE EmitConst \/ GetLexical \/ BinopAdds \/ JitKidsFail \/ EmitOptree
        <4>1. DoneIn(Top.term, Listed(work'[Top.fn]), Listed(ran'[Top.fn]))
          BY <1>4, <3>5, ReturnsDone
        <4> QED BY <3>2, <4>1
      <3> QED BY <1>4, <3>3, <3>4, <3>5, NextTop
    <2>3. EmitConst \/ GetLexical \/ BinopAdds \/ JitKidsFail \/ EmitOptree =>
            calls' = Outer /\ calls # <<>>
      BY DEF EmitConst, GetLexical, BinopAdds, JitKidsFail, EmitOptree, RunTree, Returning,
             Goes, At, IInv, TypeOK
    <2>4. ProcessReturns => calls # <<>>
      BY DEF ProcessReturns, At, IInv, TypeOK
    <2> QED BY <1>4, <2>1, <2>2, <2>3, <2>4, NextTop
  <1>5. ASSUME NEW i \in 1..Len(calls'), NEW x, x = calls'[i], x.at = "binop",
               x.left \notin {"pending", "none"}
        PROVE  DoneIn(Append(x.term, 1), Listed(work'[x.fn]), Listed(ran'[x.fn]))
    <2>1. x.at \in Emissions
      BY <1>5 DEF Emissions
    <2>2. CASE calls # <<>> /\ i \in Frames /\ x = calls[i]
      <3>1. x.fn \in 1..FunctionsMade
        BY <2>1, <2>2, EmissionHere
      <3> QED BY <1>1, <1>3, <1>5, <2>2, <3>1
    <2>3. CASE UNCHANGED calls
      <3>1. i \in Frames /\ x = calls[i]
        BY <1>5, <2>3 DEF Frames
      <3>2. calls # <<>>
        BY <3>1 DEF Frames
      <3> QED BY <2>2, <3>1, <3>2
    <2>4. CASE EmitBinop /\ x.left = "pending"
      BY <1>5, <2>4
    <2>5. CASE BinopRight /\ x.term = Top.term /\ x.left = value /\ x.fn = Top.fn
      <3>1. calls # <<>> /\ Top.at = "binop" /\ Top.left = "pending"
        BY <2>5 DEF BinopRight, At, IInv, TypeOK
      <3>2. Emitted(Top) = Append(Top.term, 1)
        BY <3>1 DEF Emitted, Operand
      <3>3. Top.fn \in 1..FunctionsMade
        BY <3>1, EmissionOfTop DEF Emissions
      <3>4. CoveredBelow(Append(x.term, 1), x.fn)
        BY <1>1, <1>5, <2>5, <3>1, <3>2
      <3> QED BY <1>3, <2>5, <3>3, <3>4
    <2> QED BY <1>5, <2>1, <2>2, <2>3, <2>4, <2>5, NextEmissions
  <1>6. ASSUME NEW f \in Made'
        PROVE  /\ Kind(TreeOf(f)') = "add" /\ TreeOf(f)' \in Terms
               /\ DoneIn(TreeOf(f)', Listed(work'[f]), Listed(ran'[f]))
    <2>1. CASE f \in Made
      <3>1. work'[f] = work[f] /\ ran'[f] = ran[f] /\ f \in 1..FunctionsMade
        BY <2>1, MadeIsDone
      <3>2. TreeOf(f)' = TreeOf(f)
        BY <1>2, <3>1, SameTreeOf
      <3> QED BY <1>1, <1>3, <2>1, <3>1, <3>2
    <2>2. CASE JitTreesGoOn /\ f = Top.fn
      <3>1. /\ TreeOf(f) = Top.asts[1] /\ Kind(Top.asts[1]) = "add" /\ Top.asts[1] \in Terms
            /\ CoveredBelow(Top.asts[1], f) /\ f \in 1..FunctionsMade
            /\ calls # <<>> /\ Top.at = "trees"
        BY <2>2, NewTree
      <3>3. TreeOf(f)' = Top.asts[1]
        BY <2>2, NewPlace
      <3> QED BY <1>3, <3>1, <3>3
    <2> QED BY <2>1, <2>2, NextMade
  <1>7. /\ Terms' = Terms
        /\ \A p : Kind(p)' = Kind(p)
        /\ \A p, f : CoveredBelow(p, f)' <=> DoneIn(p, Listed(work'[f]), Listed(ran'[f]))
    BY <1>2, DoneNext DEF Terms, Kind
  <1>8. calls' # <<>> /\ Top'.at \in {"trees", "binop"} /\ value' # "none" =>
             CoveredBelow(Emitted(Top), Top.fn)'
    <2> SUFFICES ASSUME calls' # <<>>, Top'.at \in {"trees", "binop"}, value' # "none"
                 PROVE  CoveredBelow(Emitted(Top), Top.fn)'
      OBVIOUS
    <2>1. PICK t : t = calls'[Len(calls')]
      OBVIOUS
    <2>2. t = Top'
      BY <2>1 DEF Top
    <2>3. DoneIn(Emitted(t), Listed(work'[t.fn]), Listed(ran'[t.fn]))
      BY <1>4, <2>1, <2>2
    <2>4. Emitted(Top)' = Emitted(t)
      BY <2>2 DEF Emitted, Operand
    <2>5. PICK p, f : p = Emitted(t) /\ f = t.fn
      OBVIOUS
    <2>6. CoveredBelow(p, f)'
      BY <1>7, <2>3, <2>5
    <2> QED BY <1>2, <2>2, <2>4, <2>5, <2>6 DEF CoveredBelow, Covered, Worked, Additions
  <1>9. \A i \in 1..Len(calls') : calls'[i].at = "binop" /\ calls'[i].left \notin {"pending", "none"} =>
             CoveredBelow(Append(calls[i].term, 1), calls[i].fn)'
    BY <1>5, <1>7
  <1>10. \A f \in Made' : /\ Kind(TreeOf(f))' = "add" /\ (TreeOf(f) \in Terms)'
                          /\ CoveredBelow(TreeOf(f), f)'
    BY <1>6, <1>7
  <1> QED BY <1>8, <1>9, <1>10 DEF Compiled, Frames

-----------------------------------------------------------------------------
(* AddedOnce: an addition is done where no other call turns to it *)

LEMMA NextAdditions ==
  ASSUME IInv, [Next]_vars, NEW f \in 1..Len(work'), NEW p \in Additions(f)'
  PROVE  \/ f \in 1..FunctionsMade /\ f \in 1..Len(work) /\ p \in Additions(f)
         \/ BinopAdds /\ f = Top.fn /\ p = Top.term
  <1>1. sub' = sub /\ f \in 1..Len(fns') /\ Len(work) = FunctionsMade
    BY NextFits DEF Fits, IInv, TypeOK, FunctionsMade
  <1>2. p \in SummedIn(Listed(work'[f]))
    BY <1>1, DoneNext
  <1>3. CASE f \in 1..FunctionsMade
    <2>1. \/ p \in SummedIn(Listed(work[f]))
          \/ BinopAdds /\ f = Top.fn /\ p \in SummedIn(Listed(work[f])) \union {Top.term}
      BY <1>2, <1>3, NextDone
    <2>2. Additions(f) = SummedIn(Listed(work[f]))
      BY DoneNow
    <2> QED BY <1>1, <1>3, <2>1, <2>2
  <1>4. CASE f \notin 1..FunctionsMade
    BY <1>1, <1>2, <1>4, NewFunction DEF SummedIn
  <1> QED BY <1>3, <1>4

LEMMA AheadOfNext ==
  ASSUME sub' = sub, NEW c
  PROVE  Ahead(c)' = Ahead(c)
  BY DEF Ahead, Terms, Listed

LEMMA NextAddedOnce ==
  ASSUME IInv, LogInv, AddedOnce, [Next]_vars
  PROVE  AddedOnce'
  <1>1. /\ \A f, g \in 1..Len(work) : f # g => Additions(f) \intersect Additions(g) = {}
        /\ \A f \in 1..Len(work), i \in Frames : \A p \in Additions(f) :
             /\ \A q \in Ahead(calls[i]) : ~ Below(p, q)
             /\ calls[i].at = "binop" => p # calls[i].term
    BY DEF AddedOnce
  <1>2. sub' = sub
    BY NextFits
  <1>3. BinopAdds => /\ calls # <<>> /\ Top.at = "binop" /\ calls' = Outer
                     /\ Len(calls) \in Frames /\ calls[Len(calls)] = Top
    BY TopIsFrame DEF BinopAdds, Returning, At, IInv, TypeOK
  <1>4. \A f, g \in 1..Len(work') : f # g => Additions(f)' \intersect Additions(g)' = {}
    BY <1>1, <1>3, NextAdditions
  <1>5. ASSUME NEW f \in 1..Len(work), NEW p \in Additions(f), f \in 1..FunctionsMade,
               NEW i \in 1..Len(calls'), NEW x, x = calls'[i]
        PROVE  /\ \A q \in Ahead(x) : ~ Below(p, q)
               /\ x.at = "binop" => p # x.term
    <2>1. CASE i \in Frames /\ x = calls[i]
      BY <1>1, <1>5, <2>1
    <2>2. CASE calls # <<>> /\ Fresh(Top, x)
      <3>1. \A q \in Ahead(Top) : ~ Below(p, q)
        BY <1>1, <1>5, <2>2, TopIsFrame
      <3>2. p \in Paths /\ Terms \subseteq Paths /\ Top.term \in Terms
        BY <1>5, <2>2, WorkAt, Here, TermsArePaths
      <3>3. ASSUME NEW q \in Ahead(x)
            PROVE  ~ Below(p, q)
        <4>1. PICK a \in Ahead(Top) : Below(q, a)
          BY <2>2, <3>3 DEF Fresh
        <4>2. a \in Paths /\ q \in Paths
          BY <3>2 DEF Ahead
        <4> QED BY <3>1, <3>2, <4>1, <4>2, BelowBelow
      <3>4. ASSUME x.at = "binop"
            PROVE  p # x.term
        <4>1. x.at \in Emissions
          BY <3>4 DEF Emissions
        <4>2. CASE EmitBinop /\ x.term = Top.term
          <5>1. Top.at = "emit"
            BY <4>2 DEF EmitBinop, At
          <5>2. Top.term \in Ahead(Top)
            BY <3>2, <5>1 DEF Ahead
          <5> QED BY <3>1, <3>2, <4>2, <5>2, BelowItself
        <4>3. CASE BinopRight /\ x.term = Top.term
          <5>1. Top.at = "binop"
            BY <4>3 DEF BinopRight, At
          <5> QED BY <1>1, <1>5, <2>2, <4>3, <5>1, TopIsFrame
        <4>4. CASE UNCHANGED calls
          BY <1>1, <1>5, <3>4, <4>4 DEF Frames
        <4> QED BY <1>5, <2>1, <3>4, <4>1, <4>2, <4>3, <4>4, NextEmissions
      <3> QED BY <3>3, <3>4
    <2>3. FreshCalls
      BY NextLogged DEF Logged
    <2>4. calls # <<>> => Len(Outer) = Len(calls) - 1 /\ \A n \in 1..Len(Outer) : Outer[n] = calls[n]
      BY TopAndOuter DEF IInv
    <2>5. CASE calls # <<>> /\ i \in 1..Len(Outer) /\ x = Outer[i]
      <3>1. i \in Frames
        BY <2>4, <2>5 DEF Frames, IInv, TypeOK
      <3> QED BY <2>1, <2>4, <2>5, <3>1
    <2>6. CASE calls' = calls
      BY <1>5, <2>1, <2>6 DEF Frames
    <2> QED BY <1>5, <2>2, <2>3, <2>5, <2>6 DEF FreshCalls
  <1>6. ASSUME BinopAdds, NEW i \in 1..Len(calls'), NEW x, x = calls'[i]
        PROVE  /\ \A q \in Ahead(x) : ~ Below(Top.term, q)
               /\ x.at = "binop" => Top.term # x.term
    <2>1. calls # <<>> /\ Top.at = "binop" /\ i \in 1..Len(Outer) /\ x = Outer[i]
      BY <1>3, <1>6
    <2>2. Within(x, Top)
      BY <2>1, LogHere
    <2>3. Scope(Top) = Top.term
      BY <2>1 DEF Scope
    <2>4. \A q \in Ahead(x) : ~ Below(Top.term, q)
      BY <2>2, <2>3 DEF Within, Apart
    <2>5. ASSUME x.at = "binop"
          PROVE  Top.term # x.term
      <3>1. x.term \in Paths
        BY <2>1, <2>5, OuterEmission, Here, TermsArePaths DEF Emissions
      <3>2. Below(Top.term, Inner(x)) /\ Inner(x) = Emitted(x)
        BY <2>2, <2>3, <2>5 DEF Within, Inner
      <3>3. PICK k \in {1, 2} : Emitted(x) = Append(x.term, k)
        BY <2>5 DEF Emitted, Operand
      <3>4. k \in Nat \ {0}
        OBVIOUS
      <3> QED BY <3>1, <3>2, <3>3, <3>4, KidNotTerm
    <2> QED BY <2>4, <2>5
  <1>7. ASSUME NEW f \in 1..Len(work'), NEW p \in Additions(f)',
               NEW i \in 1..Len(calls'), NEW x, x = calls'[i]
        PROVE  /\ \A q \in Ahead(x) : ~ Below(p, q)
               /\ x.at = "binop" => p # x.term
    BY <1>5, <1>6, <1>7, NextAdditions
  <1>8. \A f \in 1..Len(work'), i \in 1..Len(calls') : \A p \in Additions(f)' :
          /\ \A q \in Ahead(calls[i])' : ~ Below(p, q)
          /\ calls'[i].at = "binop" => p # calls'[i].term
    <2>1. \A i : Ahead(calls[i])' = Ahead(calls'[i])
      BY <1>2 DEF Ahead, Terms, Listed
    <2> QED BY <1>7, <2>1
  <1> QED BY <1>4, <1>8 DEF AddedOnce, Frames

-----------------------------------------------------------------------------
(* FunctionsAccounted: a function is being made until it is given up or made *)

LEMMA NextShape ==
  ASSUME IInv, [Next]_vars
  PROVE  \/ calls' = calls
         \/ /\ calls # <<>>
            /\ \/ calls' = Outer
               \/ \E c : calls' = Append(Outer, c)
               \/ \E c, d : calls' = Append(Append(Outer, c), d)
               \/ \E c, d, g : calls' = Append(Append(Append(Outer, c), d), g)
  <1>1. CASE ProcessVariable \/ ProcessKids \/ SequenceTakes \/ ProcessSequence \/ SequenceSearches
    BY <1>1, SearchGoesOn
  <1>2. CASE ProcessTree \/ SequenceFlushes
    BY <1>2, Starting DEF ProcessTree, SequenceFlushes, JitTrees
  <1>3. CASE ProcessReturns \/ SequenceReturns \/ EmitConst \/ GetLexical \/ BinopAdds
             \/ JitKidsFail \/ EmitOptree \/ JitTreesFail
    BY <1>3 DEF ProcessReturns, SequenceReturns, EmitConst, GetLexical, BinopAdds, JitKidsFail,
                EmitOptree, JitTreesFail, RunTree, Returning, At, Goes, IInv, TypeOK
  <1>4. CASE EmitBinop \/ BinopRight \/ EmitOptreeJitKids
    BY <1>4 DEF EmitBinop, BinopRight, EmitOptreeJitKids, Continue, At, IInv, TypeOK
  <1>5. CASE JitTreesGoOn
    BY <1>5, JitTreesGoOnMakes
  <1>6. CASE BinopCrashes \/ Apply \/ Finish \/ UNCHANGED vars
    BY <1>6 DEF BinopCrashes, Apply, Finish, vars
  <1> QED BY <1>1, <1>2, <1>3, <1>4, <1>5, <1>6 DEF Next

\* The calls below the innermost one stay.
LEMMA OuterStays ==
  ASSUME IInv, [Next]_vars, calls' # calls, NEW i \in 1..Len(Outer)
  PROVE  calls # <<>> /\ i \in 1..Len(calls') /\ calls'[i] = Outer[i]
  <1>1. calls # <<>>
    BY NextShape
  <1>2. PICK S : Outer \in Seq(S)
    BY <1>1, TopAndOuter DEF IInv
  <1>3. CASE calls' = Outer
    BY <1>1, <1>3
  <1>4. ASSUME NEW c, calls' = Append(Outer, c)
        PROVE  i \in 1..Len(calls') /\ calls'[i] = Outer[i]
    BY <1>2, <1>4
  <1>5. ASSUME NEW c, NEW d, calls' = Append(Append(Outer, c), d)
        PROVE  i \in 1..Len(calls') /\ calls'[i] = Outer[i]
    BY <1>2, <1>5
  <1>6. ASSUME NEW c, NEW d, NEW g, calls' = Append(Append(Append(Outer, c), d), g)
        PROVE  i \in 1..Len(calls') /\ calls'[i] = Outer[i]
    BY <1>2, <1>6
  <1> QED BY <1>1, <1>3, <1>4, <1>5, <1>6, NextShape

LEMMA NewTrees ==
  ASSUME IInv, ProcessTree \/ SequenceFlushes
  PROVE  \E i \in 1..Len(calls') : calls'[i].at = "trees" /\ calls'[i].fn = Len(fns) + 1
  <1>1. PICK S : Outer \in Seq(S)
    BY Starting, TopAndOuter DEF IInv
  <1>2. PICK c, d, g : /\ calls' = Append(Append(Append(Outer, c), d), g)
                       /\ d.at = "trees" /\ d.fn = Len(fns) + 1
    <2>1. ASSUME NEW c, NEW p, NEW asts, JitTrees(c, p, asts)
          PROVE  \E d, g : /\ calls' = Append(Append(Append(Outer, c), d), g)
                           /\ d.at = "trees" /\ d.fn = Len(fns) + 1
      <3> DEFINE d == Trees(Top.this, p, asts, Len(fns) + 1)
                 g == Emit(Top.this, asts[1], Len(fns) + 1)
      <3>1. calls' = Append(Append(Append(Outer, c), d), g)
        BY <2>1 DEF JitTrees
      <3>2. d.at = "trees" /\ d.fn = Len(fns) + 1
        BY DEF Trees
      <3> HIDE DEF d, g
      <3> QED BY <3>1, <3>2
    <2>2. \E c, p, asts : JitTrees(c, p, asts)
      BY DEF ProcessTree, SequenceFlushes
    <2> QED BY <2>1, <2>2
  <1>3. Len(Outer) + 2 \in 1..Len(calls') /\ calls'[Len(Outer) + 2] = d
    BY <1>1, <1>2
  <1> QED BY <1>2, <1>3

LEMMA NextFunctionsAccounted ==
  ASSUME IInv, FunctionsAccounted, [Next]_vars
  PROVE  FunctionsAccounted'
  <1>1. failed \subseteq failed' /\ Made \subseteq Made'
    BY Changes, NextMade DEF JitTreesFail
  <1>2. ASSUME NEW f \in 1..Len(fns')
        PROVE  \/ f \in failed' \union Made'
               \/ \E i \in 1..Len(calls') : calls'[i].at = "trees" /\ calls'[i].fn = f
    <2>1. CASE f \notin 1..FunctionsMade
      BY <2>1, NewFunction, NewTrees
    <2>2. CASE f \in failed \union Made
      BY <1>1, <2>2
    <2>3. ASSUME NEW i \in Frames, calls[i].at = "trees", calls[i].fn = f
          PROVE  \/ f \in failed' \union Made'
                 \/ \E n \in 1..Len(calls') : calls'[n].at = "trees" /\ calls'[n].fn = f
      <3>1. calls # <<>>
        BY DEF Frames
      <3>2. CASE calls' = calls
        BY <2>3, <3>2 DEF Frames
      <3>3. CASE calls' # calls /\ i \in 1..Len(Outer)
        <4>1. Outer[i] = calls[i]
          BY <3>1, <3>3, TopAndOuter DEF IInv
        <4> QED BY <2>3, <3>3, <4>1, OuterStays
      <3>4. CASE calls' # calls /\ i = Len(calls)
        <4>1. Top.at = "trees" /\ Top.fn = f
          BY <2>3, <3>4 DEF Top
        <4>2. JitTreesFail \/ JitTreesGoOn
          BY <3>4, <4>1 DEF Next, vars, At, Goes, ProcessVariable, ProcessSequence, ProcessTree,
             ProcessKids, ProcessReturns, SequenceTakes, SequenceFlushes, SequenceSearches,
             SequenceReturns, EmitConst, GetLexical, EmitBinop, BinopRight, BinopCrashes, BinopAdds,
             EmitOptreeJitKids, JitKidsFail, EmitOptree, Apply, Finish
        <4>3. JitTreesFail => f \in failed'
          BY <4>1 DEF JitTreesFail
        <4>4. JitTreesGoOn => f \in Made'
          BY <4>1, NextMade
        <4> QED BY <4>2, <4>3, <4>4
      <3>5. i = Len(calls) \/ i \in 1..Len(Outer)
        BY <3>1, TopAndOuter DEF Frames, IInv
      <3> QED BY <3>2, <3>3, <3>4, <3>5
    <2> QED BY <2>1, <2>2, <2>3 DEF FunctionsAccounted, FunctionsMade
  <1> QED BY <1>2 DEF FunctionsAccounted, Frames

-----------------------------------------------------------------------------
(* RunsWhole: what a function runs is in its tree *)

\* The trees frame that a statement is run for emits it itself.
LEMMA StatementOfTrees ==
  ASSUME IInv, calls # <<>>, Top.at = "kids", Kind(Top.term) = "statement",
         NEW i \in 1..Len(Outer), Outer[i].at = "trees", Outer[i].fn = Top.fn
  PROVE  Outer[i].asts[1] = Top.term
  <1> DEFINE n == Len(Outer)
  <1>1. /\ IsTree(sub) /\ TypeOK /\ Stack(calls)
        /\ Stack(Outer) /\ Called(Outer[n], Top) /\ n \in 1..Len(Outer)
        /\ CallWhole(Outer[n]) /\ Outer[n] \in CallsUpTo(EmittersAlive, FunctionsMade)
    <2>1. IsTree(sub) /\ TypeOK /\ Stack(calls)
      BY Here
    <2>2. Outer # <<>> /\ n \in 1..Len(Outer)
      BY <2>1, TopAndOuter
    <2> QED BY <2>1, <2>2, CallReturns
  <1>2. Outer[n].at \in {"trees", "binop"} /\ Outer[n].fn = Top.fn /\ Top.term = Emitted(Outer[n])
    BY <1>1 DEF Called
  <1>3. CASE Outer[n].at = "trees"
    <2>1. i < n => Inside(Outer[i], Outer[n])
      BY <1>1 DEF Stack
    <2>2. i < n => Outer[i].this < Outer[n].this /\ Outer[i].this = Outer[n].this
      BY <1>2, <1>3, <2>1 DEF Inside, Emissions
    <2>3. Outer[i].this \in Nat /\ Outer[n].this \in Nat
      BY <1>1, CallReturns
    <2>4. i = n
      BY <1>1, <2>2, <2>3
    <2> QED BY <1>2, <1>3, <2>4 DEF Emitted
  <1>4. CASE Outer[n].at = "binop"
    <2>1. PICK k \in {1, 2} : Top.term = Append(Outer[n].term, k)
      BY <1>2, <1>4 DEF Emitted, Operand
    <2>2. Kind(Outer[n].term) = "add" /\ Outer[n].term \in Terms
      BY <1>1, <1>4, CallFields DEF CallWhole
    <2>3. k \in 1..sub[Outer[n].term].size
      BY <1>1, <2>2 DEF IsTree, Terms, Kind
    <2> QED BY <1>1, <2>1, <2>2, <2>3, KidTerm
  <1> QED BY <1>2, <1>3, <1>4

LEMMA RunsInTree ==
  ASSUME IInv, EmitOptree, NEW i \in 1..Len(Outer), NEW x, x = Outer[i],
         x.at = "trees", x.fn = Top.fn
  PROVE  /\ Below(OpOf(Top.term), OpOf(x.asts[1]))
         /\ Kind(OpOf(Top.term)) = "statement" => Kind(x.asts[1]) = "statement"
  <1>1. calls # <<>> /\ Top.at = "kids" /\ IsTree(sub) /\ Top.term \in Terms
    BY SubtreeKept, Here
  <1>2. /\ Inside(x, Top) /\ CallWhole(x) /\ x \in CallsUpTo(EmittersAlive, FunctionsMade)
        /\ x.this = Top.this
    BY <1>1, OuterEmission DEF Emissions
  <1>3. Emitted(x) = x.asts[1] /\ x.asts[1] \in Terms
    BY <1>1, <1>2, EmittedTerm DEF Emitted
  <1>4. Below(Top.term, x.asts[1])
    BY <1>1, <1>2, <1>3 DEF Inside, Emissions
  <1>5. /\ Top.term \in Paths /\ x.asts[1] \in Paths
        /\ OpOf(Top.term) \in Paths /\ OpOf(x.asts[1]) \in Paths
        /\ Below(x.asts[1], OpOf(x.asts[1]))
    BY <1>1, <1>3, OpOfIs, TermsArePaths
  <1>6. Below(OpOf(Top.term), OpOf(x.asts[1]))
    <2>1. CASE Top.term = x.asts[1]
      BY <1>5, <2>1, BelowItself
    <2>2. CASE Top.term # x.asts[1]
      <3>1. Below(OpOf(Top.term), x.asts[1])
        BY <1>1, <1>3, <1>4, <2>2, OpOfBelow
      <3> QED BY <1>5, <3>1, BelowBelow
    <2> QED BY <2>1, <2>2
  <1>7. ASSUME Kind(OpOf(Top.term)) = "statement"
        PROVE  Kind(x.asts[1]) = "statement"
    <2>1. OpOf(Top.term) = Top.term
      BY <1>1, <1>7, OpOfIs
    <2> QED BY <1>1, <1>7, <2>1, StatementOfTrees
  <1> QED BY <1>6, <1>7

LEMMA NextRunsWhole ==
  ASSUME IInv, LogInv, Compiled, RunsWhole, [Next]_vars
  PROVE  RunsWhole'
  <1>1. /\ \A f \in 1..Len(ran) : \A op \in Listed(ran[f]) : IsTreeOfOps(op)
        /\ \A i \in Frames : calls[i].at = "trees" => \A op \in Listed(ran[calls[i].fn]) :
             /\ Below(op, OpOf(calls[i].asts[1]))
             /\ Kind(op) = "statement" => Kind(calls[i].asts[1]) = "statement"
        /\ \A f \in Made : \A op \in Listed(ran[f]) :
             Below(op, PlaceOf(f)) /\ Kind(op) # "statement"
    BY DEF RunsWhole
  <1>2. /\ sub' = sub /\ Len(ran') = Len(fns') /\ Len(ran) = FunctionsMade
    BY NextFits, NextFunctions DEF IInv, TypeOK, FunctionsMade
  <1>3. ASSUME NEW f \in 1..Len(ran'), NEW op \in Listed(ran'[f])
        PROVE  IsTreeOfOps(op)
    <2>1. CASE f \notin 1..FunctionsMade
      BY <1>2, <1>3, <2>1, NewFunction
    <2>2. CASE f \in 1..FunctionsMade /\ op \in Listed(ran[f])
      BY <1>1, <1>2, <2>2
    <2>3. CASE EmitOptree /\ op = OpOf(Top.term)
      <3>1. calls # <<>> /\ Top.at = "kids" /\ Top.term \in Terms /\ IsTree(sub) /\ CallWhole(Top)
        BY <2>3, SubtreeKept, Here
      <3>2. OpOf(Top.term) = Top.term /\ IsTreeOfOps(Top.term)
        BY <3>1, OpOfIs, LogHere DEF CallWhole, FrameApart, IsTreeOfOps
      <3> QED BY <2>3, <3>2
    <2>4. f \in 1..FunctionsMade => \/ op \in Listed(ran[f])
                                    \/ EmitOptree /\ op \in Listed(ran[f]) \union {OpOf(Top.term)}
      BY <1>3, NextDone
    <2> QED BY <2>1, <2>2, <2>3, <2>4
  <1>4. ASSUME NEW i \in 1..Len(calls'), NEW x, x = calls'[i], x.at = "trees",
               NEW op \in Listed(ran'[x.fn])
        PROVE  /\ Below(op, OpOf(x.asts[1]))
               /\ Kind(op) = "statement" => Kind(x.asts[1]) = "statement"
    <2>1. x.at \in Emissions
      BY <1>4 DEF Emissions
    <2>2. CASE calls # <<>> /\ i \in 1..Len(Outer) /\ i \in Frames /\ x = Outer[i] /\ x = calls[i]
      <3>1. x.fn \in 1..FunctionsMade
        BY <2>1, <2>2, OuterEmission
      <3>2. CASE op \in Listed(ran[x.fn])
        BY <1>1, <1>4, <2>2, <3>2
      <3>3. CASE EmitOptree /\ x.fn = Top.fn /\ op = OpOf(Top.term)
        BY <1>4, <2>2, <3>3, RunsInTree
      <3>4. \/ op \in Listed(ran[x.fn])
            \/ EmitOptree /\ x.fn = Top.fn /\ op \in Listed(ran[x.fn]) \union {OpOf(Top.term)}
        BY <1>4, <3>1, NextDone
      <3> QED BY <3>2, <3>3, <3>4
    <2>3. CASE UNCHANGED <<calls, ran>>
      BY <1>1, <1>4, <2>3 DEF Frames
    <2>4. CASE (ProcessTree \/ SequenceFlushes) /\ x.fn = Len(fns) + 1
      <3>1. ran'[x.fn] = <<>>
        BY <2>4, NextRan DEF FunctionsMade
      <3> QED BY <1>4, <3>1 DEF Listed
    <2> QED BY <1>4, <2>1, <2>2, <2>3, <2>4, NextEmissions
  <1>5. ASSUME NEW f \in Made', NEW op \in Listed(ran'[f])
        PROVE  Below(op, PlaceOf(f)') /\ Kind(op) # "statement"
    <2>1. CASE f \in Made
      <3>1. work'[f] = work[f] /\ ran'[f] = ran[f]
        BY <2>1, MadeIsDone
      <3>2. PlaceOf(f)' = PlaceOf(f)
        BY <1>2, <3>1, SameTreeOf
      <3> QED BY <1>1, <1>5, <2>1, <3>1, <3>2
    <2>2. CASE JitTreesGoOn /\ f = Top.fn
      <3>1. PlaceOf(f)' = OpOf(Top.asts[1]) /\ ran'[f] = ran[f]
        BY <2>2, NewPlace
      <3>2. calls # <<>> /\ Top.at = "trees" /\ Kind(Top.asts[1]) = "add"
        BY <2>2, NewTree
      <3> QED BY <1>1, <1>5, <2>2, <3>1, <3>2, TopIsFrame
    <2> QED BY <1>5, <2>1, <2>2, NextMade
  <1>6. /\ \A op : Kind(op)' = Kind(op) /\ IsTreeOfOps(op)' = IsTreeOfOps(op) /\ OpOf(op)' = OpOf(op)
    BY <1>2 DEF Kind, IsTreeOfOps, OpOf, Variables, Constants
  <1>7. \A f \in 1..Len(ran') : \A op \in Listed(ran[f])' : IsTreeOfOps(op)'
    BY <1>3, <1>6 DEF Listed
  <1>8. \A i \in 1..Len(calls') : calls'[i].at = "trees" => \A op \in Listed(ran[calls[i].fn])' :
             /\ Below(op, OpOf(calls[i].asts[1]))'
             /\ Kind(op)' = "statement" => Kind(calls[i].asts[1])' = "statement"
    <2>1. \A i : /\ Listed(ran[calls[i].fn])' = Listed(ran'[calls'[i].fn])
                 /\ OpOf(calls[i].asts[1])' = OpOf(calls'[i].asts[1])
                 /\ Kind(calls[i].asts[1])' = Kind(calls'[i].asts[1])
      BY <1>2 DEF Listed, OpOf, Kind
    <2>2. ASSUME NEW i \in 1..Len(calls'), calls'[i].at = "trees", NEW op \in Listed(ran[calls[i].fn])'
          PROVE  /\ Below(op, OpOf(calls[i].asts[1])')
                 /\ Kind(op)' = "statement" => Kind(calls[i].asts[1])' = "statement"
      BY <1>4, <1>6, <2>1, <2>2
    <2> QED BY <2>2 DEF Below
  <1>9. \A f \in Made' : \A op \in Listed(ran[f])' : Below(op, PlaceOf(f)') /\ Kind(op)' # "statement"
    BY <1>5, <1>6 DEF Listed
  <1>10. \A f \in Made' : \A op \in Listed(ran[f])' : Below(op, PlaceOf(f))' /\ Kind(op)' # "statement"
    BY <1>9 DEF Below
  <1> QED BY <1>7, <1>8, <1>10 DEF RunsWhole, Frames

-----------------------------------------------------------------------------
(* LogWhole: what the log says of the functions *)

LEMMA JitOpsDiffer ==
  ASSUME NEW f, NEW g, JitOp(f) = JitOp(g)
  PROVE  f = g
  BY DEF JitOp

LEMMA KidsOfJit ==
  ASSUME IInv, NEW f \in Made
  PROVE  jits[MadeBy(JitOp(f))].kids = ran[f]
  <1>1. \E j \in 1..Len(jits) : JitOp(jits[j].fn) = JitOp(f)
    BY DEF Made
  <1>2. PICK j : j = MadeBy(JitOp(f))
    OBVIOUS
  <1>3. j \in 1..Len(jits) /\ JitOp(jits[j].fn) = JitOp(f)
    BY <1>1, <1>2 DEF MadeBy
  <1>4. jits[j].fn = f
    BY <1>3, JitOpsDiffer
  <1> QED BY <1>2, <1>3, <1>4 DEF IInv, OwnsWhatItRuns

\* What an edit makes of the op tree
LEMMA Carried ==
  ASSUME IInv, LogInv, Apply
  PROVE  /\ Entry \in Edits /\ EditWhole(Entry) /\ log \in Seq(Edits) /\ log # <<>>
         /\ log' = Tail(log) /\ Entry = log[1]
         /\ Ops \subseteq DOMAIN up
         /\ \/ /\ Entry.kind = "detach" /\ Entry.by \in Ops
               /\ DOMAIN up' = DOMAIN up
               /\ \A id \in DOMAIN up :
                    up'[id] = IF id = Entry.by THEN IF up[id] = Freed THEN Freed ELSE Loose
                              ELSE up[id]
            \/ /\ Entry.kind = "replace" /\ Entry.by \notin Ops
               /\ DOMAIN up' = DOMAIN up \union {Entry.by}
               /\ \A id \in DOMAIN up' :
                    up'[id] = IF id = Entry.by THEN up[Entry.cut[1]]
                              ELSE IF id = Entry.cut[1] THEN Freed
                              ELSE IF /\ id \in Listed(jits[MadeBy(Entry.by)].kids)
                                      /\ up[id] = Loose THEN Entry.by
                              ELSE up[id]
  <1>1. up' = Applied /\ Ops \subseteq DOMAIN up /\ log # <<>> /\ log' = Tail(log)
    BY DEF Apply, IInv, TypeOK
  <1>2. log \in Seq(Edits) /\ InnerFirst(log)
    BY DEF IInv, TypeOK, LogInv
  <1>3. 1 \in 1..Len(log) /\ Entry = log[1] /\ Entry \in Edits
    <2> HIDE DEF Edits
    <2> QED BY <1>1, <1>2 DEF Entry
  <1>4. EditWhole(Entry)
    BY <1>2, <1>3 DEF InnerFirst
  <1>5. /\ Entry.kind \in {"detach", "replace"} /\ Entry.cut \in Seq(Ops) /\ Len(Entry.cut) = 1
        /\ Entry.cut[1] \in Ops
        /\ Entry.kind = "replace" => Entry.by \notin Ops
        /\ Entry.kind = "detach" => Entry.by = Entry.cut[1]
    <2>1. Entry.kind \in {"detach", "replace"} /\ Entry.cut \in Seq(Ops)
      BY <1>3 DEF Edits
    <2> QED BY <1>4, <2>1 DEF EditWhole
  <1>6. Listed(Entry.cut) = {Entry.cut[1]}
    BY <1>5 DEF Listed
  <1>7. CASE Entry.kind = "detach"
    <2>1. up' = [up EXCEPT ![Entry.by] = IF up[Entry.by] = Freed THEN Freed ELSE Loose]
      BY <1>1, <1>7 DEF Applied
    <2>2. /\ DOMAIN up' = DOMAIN up
          /\ \A id \in DOMAIN up :
               up'[id] = IF id = Entry.by THEN IF up[id] = Freed THEN Freed ELSE Loose ELSE up[id]
      BY <1>1, <1>5, <1>7, <2>1
    <2> QED BY <1>1, <1>2, <1>3, <1>4, <1>5, <1>7, <2>2
  <1>8. CASE Entry.kind = "replace"
    <2> DEFINE kids == Listed(jits[MadeBy(Entry.by)].kids)
    <2>1. up' = [id \in DOMAIN up \union {Entry.by} |->
                   IF id = Entry.by THEN up[Entry.cut[1]]
                   ELSE IF id \in Listed(Entry.cut) THEN Freed
                   ELSE IF id \in kids /\ up[id] = Loose THEN Entry.by
                   ELSE up[id]]
      BY <1>1, <1>5, <1>8 DEF Applied
    <2> HIDE DEF kids
    <2>2. /\ DOMAIN up' = DOMAIN up \union {Entry.by}
          /\ \A id \in DOMAIN up' :
               up'[id] = IF id = Entry.by THEN up[Entry.cut[1]]
                         ELSE IF id = Entry.cut[1] THEN Freed
                         ELSE IF id \in kids /\ up[id] = Loose THEN Entry.by
                         ELSE up[id]
      BY <1>6, <2>1
    <2> QED BY <1>1, <1>2, <1>3, <1>4, <1>5, <1>8, <2>2 DEF kids
  <1> QED BY <1>5, <1>7, <1>8

\* The trees that the functions run after a step
LEMMA NextRuns ==
  ASSUME IInv, [Next]_vars
  PROVE  /\ \A f \in 1..Len(ran) : f \in 1..Len(ran') /\ Listed(ran[f]) \subseteq Listed(ran'[f])
         /\ \A f \in 1..Len(ran') : \A op \in Listed(ran'[f]) :
              \/ f \in 1..Len(ran) /\ op \in Listed(ran[f])
              \/ EmitOptree /\ f = Top.fn /\ op = OpOf(Top.term)
  <1>1. /\ Len(ran) = FunctionsMade /\ Len(ran') = Len(fns') /\ FunctionsMade <= Len(fns')
        /\ FunctionsMade \in Nat /\ Len(fns') \in Nat
    <2>1. FunctionsMade <= Len(fns') /\ fns' \in Seq(Seq(Instruction))
      BY NextFits DEF Fits
    <2>2. Len(ran) = FunctionsMade /\ fns \in Seq(Seq(Instruction))
      BY DEF IInv, TypeOK, FunctionsMade
    <2>3. FunctionsMade \in Nat /\ Len(fns') \in Nat
      BY <2>1, <2>2 DEF FunctionsMade
    <2>4. Len(ran') = Len(fns')
      BY NextFunctions
    <2> QED BY <2>1, <2>2, <2>3, <2>4
  <1>2. ASSUME NEW f \in 1..Len(ran)
        PROVE  f \in 1..Len(ran') /\ Listed(ran[f]) \subseteq Listed(ran'[f])
    <2>1. f \in 1..FunctionsMade /\ f \in 1..Len(ran')
      BY <1>1, <1>2
    <2> QED BY <2>1, NextDone
  <1>3. ASSUME NEW f \in 1..Len(ran'), NEW op \in Listed(ran'[f])
        PROVE  \/ f \in 1..Len(ran) /\ op \in Listed(ran[f])
               \/ EmitOptree /\ f = Top.fn /\ op = OpOf(Top.term)
    <2>1. CASE f \notin 1..FunctionsMade
      BY <1>1, <1>3, <2>1, NewFunction
    <2>2. CASE f \in 1..FunctionsMade
      <3>1. \/ op \in Listed(ran[f])
            \/ EmitOptree /\ f = Top.fn /\ op \in Listed(ran[f]) \union {OpOf(Top.term)}
        BY <1>3, <2>2, NextDone
      <3> QED BY <1>1, <2>2, <3>1
    <2> QED BY <2>1, <2>2
  <1> QED BY <1>2, <1>3

\* LogWhole of the next state, part by part
ReplacesMade ==
  \A i \in 1..Len(log') : log'[i].kind = "replace" =>
    \E f \in Made' : log'[i] = Replace(<<PlaceOf(f)'>>, f)

MadeInLog ==
  \A f \in Made' : JitOp(f) \in DOMAIN up' \/ \E i \in 1..Len(log') : log'[i].by = JitOp(f)

DetachedFirst ==
  \A i \in 1..Len(log') : log'[i].kind = "detach" =>
    \E f \in 1..Len(ran') :
      /\ log'[i].by \in Listed(ran'[f])
      /\ f \in Made' => \E k \in (i + 1)..Len(log') : log'[k].by = JitOp(f)

RunsDetached ==
  \A f \in 1..Len(ran') : \A op \in Listed(ran'[f]) :
    up'[op] # Above(op) \/ \E i \in 1..Len(log') : log'[i] = Detach(op)

\* The same of this state
LEMMA LogWholeHere ==
  ASSUME LogWhole
  PROVE  /\ \A i \in 1..Len(log) : log[i].kind = "replace" =>
              \E f \in Made : log[i] = Replace(<<PlaceOf(f)>>, f)
         /\ \A f \in Made : JitOp(f) \in DOMAIN up \/ \E i \in 1..Len(log) : log[i].by = JitOp(f)
         /\ \A i \in 1..Len(log) : log[i].kind = "detach" =>
              \E f \in 1..Len(ran) :
                /\ log[i].by \in Listed(ran[f])
                /\ f \in Made => \E k \in (i + 1)..Len(log) : log[k].by = JitOp(f)
         /\ \A f \in 1..Len(ran) : \A op \in Listed(ran[f]) :
              up[op] # Above(op) \/ \E i \in 1..Len(log) : log[i] = Detach(op)
  BY DEF LogWhole

LEMMA LogStays ==
  ASSUME IInv, LogWhole, [Next]_vars, log' = log, up' = up, ~ EmitOptree, ~ JitTreesGoOn
  PROVE  ReplacesMade /\ MadeInLog /\ DetachedFirst /\ RunsDetached
  <1>1. Made' = Made /\ sub' = sub
    BY NextMade, NextFits
  <1>2. \A f \in Made : PlaceOf(f)' = PlaceOf(f)
    BY <1>1, MadeIsDone, SameTreeOf
  <1>3. ReplacesMade /\ MadeInLog
    BY <1>1, <1>2, LogWholeHere DEF ReplacesMade, MadeInLog
  <1>4. DetachedFirst
    BY <1>1, NextRuns, LogWholeHere DEF DetachedFirst
  <1>5. RunsDetached
    BY <1>1, NextRuns, LogWholeHere DEF RunsDetached
  <1> QED BY <1>3, <1>4, <1>5

\* The log with one edit more
LEMMA OneMore ==
  ASSUME NEW e, log \in Seq(Edits), log' = Append(log, e)
  PROVE  /\ Len(log') = Len(log) + 1 /\ Len(log) \in Nat
         /\ \A i \in 1..Len(log) : i \in 1..Len(log') /\ log'[i] = log[i]
         /\ log'[Len(log')] = e /\ Len(log') \in 1..Len(log')
         /\ \A i \in 1..Len(log') : i \in 1..Len(log) \/ i = Len(log')
         /\ \A i \in 1..Len(log) : /\ Len(log') \in (i + 1)..Len(log')
                                   /\ \A k \in (i + 1)..Len(log) :
                                        k \in (i + 1)..Len(log') /\ log'[k] = log[k]
  <1> HIDE DEF Edits
  <1>1. /\ Len(log') = Len(log) + 1 /\ Len(log) \in Nat
        /\ \A i \in 1..Len(log) : log'[i] = log[i]
        /\ log'[Len(log) + 1] = e
    OBVIOUS
  <1> QED BY <1>1

LEMMA EmitOptreeLogs ==
  ASSUME IInv, LogInv, LogWhole, [Next]_vars, EmitOptree
  PROVE  ReplacesMade /\ MadeInLog /\ DetachedFirst /\ RunsDetached
  <1>1. ~ JitTreesGoOn /\ sub' = sub /\ calls # <<>> /\ Top.at = "kids"
    BY SubtreeKept, NextFits DEF JitTreesGoOn, At
  <1>2. Made' = Made /\ up' = up
    BY <1>1, NextMade DEF EmitOptree, made
  <1>3. \A f \in Made : PlaceOf(f)' = PlaceOf(f)
    BY <1>1, MadeIsDone, SameTreeOf
  <1>4. PICK op, e : op = OpOf(Top.term) /\ e = Detach(op)
    OBVIOUS
  <1>5. e.kind = "detach" /\ e.by = op
    BY <1>4 DEF Detach
  <1>6. PICK f0 : f0 = Top.fn
    OBVIOUS
  <1>7. /\ f0 \in 1..Len(ran') /\ op \in Listed(ran'[f0]) /\ f0 \notin Made
    <2>1. f0 \in 1..FunctionsMade /\ f0 \notin Made
      BY <1>1, <1>6, EmissionOfTop, MadeIsOver DEF Emissions
    <2>2. f0 \in 1..Len(ran) /\ ran[f0] \in Seq(Ops)
      BY <2>1 DEF IInv, TypeOK, FunctionsMade
    <2>3. PICK t : t = ran[f0]
      OBVIOUS
    <2>4. ran'[f0] = Append(t, op)
      BY <1>4, <1>6, <2>3, NextRan
    <2>5. op \in Listed(ran'[f0])
      BY <2>2, <2>3, <2>4, ListedOne
    <2> QED BY <2>1, <2>2, <2>5, NextRuns
  <1>8. log' = Append(log, e) /\ log \in Seq(Edits)
    BY <1>4 DEF EmitOptree, IInv, TypeOK
  <1>9. /\ Len(log') = Len(log) + 1 /\ Len(log) \in Nat
        /\ \A i \in 1..Len(log) : i \in 1..Len(log') /\ log'[i] = log[i]
        /\ log'[Len(log')] = e /\ Len(log') \in 1..Len(log')
        /\ \A i \in 1..Len(log') : i \in 1..Len(log) \/ i = Len(log')
        /\ \A i \in 1..Len(log) : /\ Len(log') \in (i + 1)..Len(log')
                                  /\ \A k \in (i + 1)..Len(log) :
                                       k \in (i + 1)..Len(log') /\ log'[k] = log[k]
    BY <1>8, OneMore
  <1>10. ReplacesMade
    BY <1>2, <1>3, <1>5, <1>9, LogWholeHere DEF ReplacesMade
  <1>11. MadeInLog
    BY <1>2, <1>9, LogWholeHere DEF MadeInLog
  <1>12. DetachedFirst
    <2>1. ASSUME NEW i \in 1..Len(log'), log'[i].kind = "detach"
          PROVE  \E f \in 1..Len(ran') :
                   /\ log'[i].by \in Listed(ran'[f])
                   /\ f \in Made' => \E k \in (i + 1)..Len(log') : log'[k].by = JitOp(f)
      <3>1. CASE i = Len(log')
        BY <1>2, <1>5, <1>7, <1>9, <3>1
      <3>2. CASE i \in 1..Len(log)
        <4>1. PICK f \in 1..Len(ran) :
                /\ log[i].by \in Listed(ran[f])
                /\ f \in Made => \E k \in (i + 1)..Len(log) : log[k].by = JitOp(f)
          BY <1>9, <2>1, <3>2, LogWholeHere
        <4>2. f \in Made' => \E k \in (i + 1)..Len(log') : log'[k].by = JitOp(f)
          BY <1>2, <1>9, <3>2, <4>1
        <4>3. f \in 1..Len(ran') /\ log'[i].by \in Listed(ran'[f])
          BY <1>9, <3>2, <4>1, NextRuns
        <4> QED BY <4>2, <4>3
      <3> QED BY <1>9, <3>1, <3>2
    <2> QED BY <2>1 DEF DetachedFirst
  <1>13. RunsDetached
    <2>1. ASSUME NEW f \in 1..Len(ran'), NEW o \in Listed(ran'[f])
          PROVE  up'[o] # Above(o) \/ \E i \in 1..Len(log') : log'[i] = Detach(o)
      <3>1. CASE f \in 1..Len(ran) /\ o \in Listed(ran[f])
        <4>1. up[o] # Above(o) \/ \E i \in 1..Len(log) : log[i] = Detach(o)
          BY <3>1, LogWholeHere
        <4> QED BY <1>2, <1>9, <4>1
      <3>2. CASE o = op
        BY <1>4, <1>9, <3>2
      <3> QED BY <1>4, <2>1, <3>1, <3>2, NextRuns
    <2> QED BY <2>1 DEF RunsDetached
  <1> QED BY <1>10, <1>11, <1>12, <1>13

LEMMA JitTreesGoOnLogs ==
  ASSUME IInv, LogInv, Compiled, LogWhole, [Next]_vars, JitTreesGoOn
  PROVE  ReplacesMade /\ MadeInLog /\ DetachedFirst /\ RunsDetached
  <1>1. sub' = sub /\ calls # <<>> /\ Top.at = "trees"
    BY NextFits, NewTree
  <1>2. PICK f0 : f0 = Top.fn
    OBVIOUS
  <1>3. Made' = Made \union {f0} /\ up' = up /\ ~ EmitOptree
    BY <1>1, <1>2, NextMade DEF JitTreesGoOn, EmitOptree, Goes, At
  <1>4. /\ \A f \in Made : PlaceOf(f)' = PlaceOf(f)
        /\ PlaceOf(f0)' = OpOf(Top.asts[1])
    BY <1>1, <1>2, MadeIsDone, SameTreeOf, NewPlace
  <1>5. PICK e : e = Replace(<<OpOf(Top.asts[1])>>, f0)
    OBVIOUS
  <1>6. e.kind = "replace" /\ e.by = JitOp(f0)
    BY <1>5 DEF Replace
  <1>7. log' = Append(log, e) /\ log \in Seq(Edits)
    BY <1>2, <1>5, JitTreesGoOnMakes, NewTree DEF IInv, TypeOK
  <1>8. /\ Len(log') = Len(log) + 1 /\ Len(log) \in Nat
        /\ \A i \in 1..Len(log) : i \in 1..Len(log') /\ log'[i] = log[i]
        /\ log'[Len(log')] = e /\ Len(log') \in 1..Len(log')
        /\ \A i \in 1..Len(log') : i \in 1..Len(log) \/ i = Len(log')
        /\ \A i \in 1..Len(log) : /\ Len(log') \in (i + 1)..Len(log')
                                  /\ \A k \in (i + 1)..Len(log) :
                                       k \in (i + 1)..Len(log') /\ log'[k] = log[k]
    BY <1>7, OneMore
  <1>9. ReplacesMade
    <2>1. ASSUME NEW i \in 1..Len(log'), log'[i].kind = "replace"
          PROVE  \E f \in Made' : log'[i] = Replace(<<PlaceOf(f)'>>, f)
      <3>1. CASE i = Len(log')
        BY <1>3, <1>4, <1>5, <1>8, <3>1
      <3>2. CASE i \in 1..Len(log)
        <4>1. PICK f \in Made : log[i] = Replace(<<PlaceOf(f)>>, f)
          BY <1>8, <2>1, <3>2, LogWholeHere
        <4> QED BY <1>3, <1>4, <1>8, <3>2, <4>1
      <3> QED BY <1>8, <3>1, <3>2
    <2> QED BY <2>1 DEF ReplacesMade
  <1>10. MadeInLog
    BY <1>3, <1>6, <1>8, LogWholeHere DEF MadeInLog
  <1>11. DetachedFirst
    <2>1. ASSUME NEW i \in 1..Len(log'), log'[i].kind = "detach"
          PROVE  \E f \in 1..Len(ran') :
                   /\ log'[i].by \in Listed(ran'[f])
                   /\ f \in Made' => \E k \in (i + 1)..Len(log') : log'[k].by = JitOp(f)
      <3>1. i \in 1..Len(log)
        BY <1>6, <1>8, <2>1
      <3>2. PICK f \in 1..Len(ran) :
              /\ log[i].by \in Listed(ran[f])
              /\ f \in Made => \E k \in (i + 1)..Len(log) : log[k].by = JitOp(f)
        BY <1>8, <2>1, <3>1, LogWholeHere
      <3>3. f \in Made' => \E k \in (i + 1)..Len(log') : log'[k].by = JitOp(f)
        BY <1>3, <1>6, <1>8, <3>1, <3>2
      <3>4. f \in 1..Len(ran') /\ log'[i].by \in Listed(ran'[f])
        BY <1>8, <3>1, <3>2, NextRuns
      <3> QED BY <3>3, <3>4
    <2> QED BY <2>1 DEF DetachedFirst
  <1>12. RunsDetached
    <2>1. ASSUME NEW f \in 1..Len(ran'), NEW o \in Listed(ran'[f])
          PROVE  up'[o] # Above(o) \/ \E i \in 1..Len(log') : log'[i] = Detach(o)
      <3>1. f \in 1..Len(ran) /\ o \in Listed(ran[f])
        BY <1>3, <2>1, NextRuns
      <3>2. up[o] # Above(o) \/ \E i \in 1..Len(log) : log[i] = Detach(o)
        BY <3>1, LogWholeHere
      <3> QED BY <1>3, <1>8, <3>2
    <2> QED BY <2>1 DEF RunsDetached
  <1> QED BY <1>9, <1>10, <1>11, <1>12

\* The log without its first edit
LEMMA OneLess ==
  ASSUME log \in Seq(Edits), log # <<>>, log' = Tail(log)
  PROVE  /\ \A i \in 1..Len(log') : i + 1 \in 1..Len(log) /\ log'[i] = log[i + 1]
         /\ \A i \in 1..Len(log) : \/ i = 1
                                   \/ i - 1 \in 1..Len(log') /\ log'[i - 1] = log[i]
         /\ \A i \in 1..Len(log') : \A k \in ((i + 1) + 1)..Len(log) :
              k - 1 \in (i + 1)..Len(log') /\ log'[k - 1] = log[k]
  <1> HIDE DEF Edits
  <1>1. /\ Len(log) \in Nat \ {0} /\ Len(log') = Len(log) - 1
        /\ \A i \in 1..Len(log') : log'[i] = log[i + 1]
    OBVIOUS
  <1>2. \A i \in 1..Len(log') : i + 1 \in 1..Len(log) /\ log'[i] = log[i + 1]
    BY <1>1
  <1>3. ASSUME NEW i \in 1..Len(log), i # 1
        PROVE  i - 1 \in 1..Len(log') /\ log'[i - 1] = log[i]
    <2>1. i - 1 \in 1..Len(log') /\ (i - 1) + 1 = i
      BY <1>1, <1>3
    <2> QED BY <1>1, <2>1
  <1>4. ASSUME NEW i \in 1..Len(log'), NEW k \in ((i + 1) + 1)..Len(log)
        PROVE  k - 1 \in (i + 1)..Len(log') /\ log'[k - 1] = log[k]
    <2>1. k \in 1..Len(log) /\ k # 1 /\ k - 1 \in (i + 1)..Len(log')
      BY <1>1, <1>4
    <2> QED BY <1>3, <2>1
  <1> QED BY <1>2, <1>3, <1>4

LEMMA RunsOps ==
  ASSUME IInv, NEW f \in 1..Len(ran)
  PROVE  Listed(ran[f]) \subseteq Ops
  <1>1. ran[f] \in Seq(Ops)
    BY DEF IInv, TypeOK
  <1> QED BY <1>1 DEF Listed

LEMMA ApplyLogs ==
  ASSUME IInv, LogInv, LogWhole, [Next]_vars, Apply
  PROVE  ReplacesMade /\ MadeInLog /\ DetachedFirst /\ RunsDetached
  <1>1. Made' = Made /\ sub' = sub /\ ran' = ran /\ IsTree(sub)
    BY NextFits DEF Apply, Made, made, code, IInv
  <1>2. \A f \in Made : PlaceOf(f)' = PlaceOf(f)
    BY <1>1, MadeIsDone, SameTreeOf
  <1>3. log \in Seq(Edits) /\ log # <<>> /\ log' = Tail(log) /\ Entry = log[1] /\ Ops \subseteq DOMAIN up
    BY Carried
  <1>4. /\ \A i \in 1..Len(log') : i + 1 \in 1..Len(log) /\ log'[i] = log[i + 1]
        /\ \A i \in 1..Len(log) : \/ i = 1
                                  \/ i - 1 \in 1..Len(log') /\ log'[i - 1] = log[i]
        /\ \A i \in 1..Len(log') : \A k \in ((i + 1) + 1)..Len(log) :
             k - 1 \in (i + 1)..Len(log') /\ log'[k - 1] = log[k]
    BY <1>3, OneLess
  <1>5. ReplacesMade
    <2>1. ASSUME NEW i \in 1..Len(log'), log'[i].kind = "replace"
          PROVE  \E f \in Made' : log'[i] = Replace(<<PlaceOf(f)'>>, f)
      <3>1. i + 1 \in 1..Len(log) /\ log'[i] = log[i + 1]
        BY <1>4
      <3>2. PICK f \in Made : log[i + 1] = Replace(<<PlaceOf(f)>>, f)
        BY <2>1, <3>1, LogWholeHere
      <3> QED BY <1>1, <1>2, <3>1, <3>2
    <2> QED BY <2>1 DEF ReplacesMade
  <1>6. MadeInLog
    <2>1. ASSUME NEW f \in Made
          PROVE  JitOp(f) \in DOMAIN up' \/ \E i \in 1..Len(log') : log'[i].by = JitOp(f)
      <3>1. CASE JitOp(f) \in DOMAIN up
        BY <3>1, Carried
      <3>2. ASSUME NEW i \in 1..Len(log), log[i].by = JitOp(f)
            PROVE  JitOp(f) \in DOMAIN up' \/ \E n \in 1..Len(log') : log'[n].by = JitOp(f)
        <4>1. CASE i = 1
          <5>1. Entry.by = JitOp(f) /\ JitOp(f) \notin Ops
            BY <1>1, <1>3, <3>2, <4>1, JitOpIsNew
          <5> QED BY <5>1, Carried
        <4>2. CASE i # 1
          BY <1>4, <3>2, <4>2
        <4> QED BY <4>1, <4>2
      <3> QED BY <3>1, <3>2, LogWholeHere
    <2> QED BY <1>1, <2>1 DEF MadeInLog
  <1>7. DetachedFirst
    <2>1. ASSUME NEW i \in 1..Len(log'), log'[i].kind = "detach"
          PROVE  \E f \in 1..Len(ran') :
                   /\ log'[i].by \in Listed(ran'[f])
                   /\ f \in Made' => \E k \in (i + 1)..Len(log') : log'[k].by = JitOp(f)
      <3>1. i + 1 \in 1..Len(log) /\ log'[i] = log[i + 1]
        BY <1>4
      <3>2. PICK f \in 1..Len(ran) :
              /\ log[i + 1].by \in Listed(ran[f])
              /\ f \in Made => \E k \in ((i + 1) + 1)..Len(log) : log[k].by = JitOp(f)
        BY <2>1, <3>1, LogWholeHere
      <3>3. f \in Made' => \E k \in (i + 1)..Len(log') : log'[k].by = JitOp(f)
        BY <1>1, <1>4, <3>2
      <3> QED BY <1>1, <3>1, <3>2, <3>3
    <2> QED BY <2>1 DEF DetachedFirst
  <1>8. RunsDetached
    <2>1. ASSUME NEW f \in 1..Len(ran), NEW op \in Listed(ran[f])
          PROVE  up'[op] # Above(op) \/ \E i \in 1..Len(log') : log'[i] = Detach(op)
      <3>1. op \in Ops /\ op \in DOMAIN up
        BY <1>3, RunsOps
      <3>2. Above(op) \in Ops \union {Root} /\ Above(op) # Loose /\ Above(op) # Freed
        BY <1>1, <3>1, AboveIsThere
      <3>3. CASE up[op] # Above(op)
        <4>1. CASE Entry.kind = "detach"
          BY <3>1, <3>2, <3>3, <4>1, Carried
        <4>2. CASE Entry.kind = "replace"
          <5>1. /\ Entry.by \notin Ops
                /\ \/ up'[op] = Freed \/ up'[op] = Entry.by \/ up'[op] = up[op]
            BY <3>1, <4>2, Carried
          <5>2. Entry.by # Root
            <6>1. PICK g : Entry = Replace(<<PlaceOf(g)>>, g)
              BY <1>3, <4>2, LogWholeHere, Carried
            <6>2. Entry.by = JitOp(g)
              BY <6>1 DEF Replace
            <6> QED BY <6>2 DEF JitOp, Root
          <5> QED BY <3>2, <3>3, <5>1, <5>2
        <4> QED BY <4>1, <4>2, Carried
      <3>4. ASSUME NEW i \in 1..Len(log), log[i] = Detach(op)
            PROVE  up'[op] # Above(op) \/ \E n \in 1..Len(log') : log'[n] = Detach(op)
        <4>1. CASE i = 1
          <5>1. Entry = Detach(op)
            BY <1>3, <3>4, <4>1
          <5>2. Entry.kind = "detach" /\ Entry.by = op
            BY <5>1 DEF Detach
          <5> QED BY <3>1, <3>2, <5>2, Carried
        <4>2. CASE i # 1
          BY <1>4, <3>4, <4>2
        <4> QED BY <4>1, <4>2
      <3> QED BY <3>3, <3>4, LogWholeHere
    <2> QED BY <1>1, <2>1 DEF RunsDetached
  <1> QED BY <1>5, <1>6, <1>7, <1>8

LEMMA NextLogWhole ==
  ASSUME IInv, LogInv, Compiled, LogWhole, [Next]_vars
  PROVE  LogWhole'
  <1>1. sub' = sub
    BY NextFits
  <1>2. ReplacesMade /\ MadeInLog /\ DetachedFirst /\ RunsDetached
    <2>1. CASE ~ EmitOptree /\ ~ JitTreesGoOn /\ ~ Apply
      <3>1. log' = log /\ up' = up
        BY <2>1, Changes
      <3> QED BY <2>1, <3>1, LogStays
    <2> QED BY <2>1, EmitOptreeLogs, JitTreesGoOnLogs, ApplyLogs
  <1>3. \A op : Above(op)' = Above(op)
    BY <1>1, LogOfNext
  <1>4. \A i \in 1..Len(log') : log'[i].kind = "replace" =>
          \E f \in Made' : log'[i] = Replace(<<PlaceOf(f)>>, f)'
    BY <1>2 DEF ReplacesMade, Replace, JitOp
  <1>5. \A f \in 1..Len(ran') : \A op \in Listed(ran[f])' :
          up'[op] # Above(op)' \/ \E i \in 1..Len(log') : log'[i] = Detach(op)
    BY <1>2, <1>3 DEF RunsDetached, Listed
  <1>6. \A i \in 1..Len(log') : log'[i].kind = "detach" =>
          \E f \in 1..Len(ran') :
            /\ log'[i].by \in Listed(ran[f])'
            /\ f \in Made' => \E k \in (i + 1)..Len(log') : log'[k].by = JitOp(f)
    BY <1>2 DEF DetachedFirst, Listed
  <1>7. pc' = "done" => log' = <<>>
    <2>1. CASE pc = "done"
      <3>1. UNCHANGED vars
        BY <2>1, OnlyApply DEF Apply, Finish
      <3> QED BY <2>1, <3>1 DEF vars, LogWhole, edits
    <2>2. CASE pc # "done" /\ pc' = "done"
      <3>1. Finish
        BY <2>2, Changes DEF ProcessReturns, BinopCrashes
      <3> QED BY <3>1 DEF Finish, edits
    <2> QED BY <2>1, <2>2
  <1> QED BY <1>2, <1>4, <1>5, <1>6, <1>7 DEF LogWhole, MadeInLog, JitOp, Detach

-----------------------------------------------------------------------------
(* Placed: where the ops are while the log is carried out *)

LEMMA PlaceIsOp ==
  ASSUME IInv, Compiled, NEW f \in Made
  PROVE  /\ PlaceOf(f) \in Ops /\ PlaceOf(f) \in Terms /\ PlaceOf(f) \in Paths
         /\ TreeOf(f) \in Terms /\ TreeOf(f) \in Paths /\ Kind(TreeOf(f)) = "add"
         /\ HasOp(TreeOf(f)) /\ Below(TreeOf(f), PlaceOf(f))
  <1>1. IsTree(sub)
    BY DEF IInv
  <1>2. TreeOf(f) \in Terms /\ Kind(TreeOf(f)) = "add"
    BY DEF Compiled
  <1>3. HasOp(TreeOf(f))
    BY <1>2 DEF HasOp
  <1> QED BY <1>1, <1>2, <1>3, OpOfTerm, OpOfIs, TermsArePaths DEF PlaceOf

\* Once the emission is over each function became a JIT op, or was given up.
LEMMA AllMade ==
  ASSUME IInv, FunctionsAccounted, pc \in {"apply", "done"}, failed = {}, NEW f \in 1..Len(ran)
  PROVE  f \in Made
  <1>1. calls = <<>> /\ Len(ran) = Len(fns)
    BY DEF IInv, TypeOK
  <1>2. Frames = {}
    BY <1>1 DEF Frames
  <1> QED BY <1>1, <1>2 DEF FunctionsAccounted

LEMMA PlacesDiffer ==
  ASSUME NEW f
  PROVE  JitOp(f) # Freed /\ JitOp(f) # Loose /\ JitOp(f) # Root /\ Loose # Freed
  BY DEF JitOp, Freed, Loose, Root

\* The JIT ops stand in the places they were made for.
JitOpsPlaced ==
  \A id \in DOMAIN up' : id \in Ops \/ \E f \in Made' : id = JitOp(f) /\ up'[id] = Above(PlaceOf(f)')

LEMMA NextJitOpsPlaced ==
  ASSUME IInv, LogInv, Compiled, LogWhole, Placed, [Next]_vars
  PROVE  JitOpsPlaced
  <1>1. /\ sub' = sub /\ Made \subseteq Made'
        /\ \A f \in Made : PlaceOf(f)' = PlaceOf(f)
    BY NextFits, NextMade, MadeIsDone, SameTreeOf
  <1>2. \A id \in DOMAIN up : id \in Ops \/ \E f \in Made : id = JitOp(f) /\ up[id] = Above(PlaceOf(f))
    BY DEF Placed
  <1>3. CASE up' = up
    BY <1>1, <1>2, <1>3 DEF JitOpsPlaced
  <1>4. CASE Apply
    <2>1. ASSUME NEW id \in DOMAIN up', id \notin Ops
          PROVE  \E f \in Made' : id = JitOp(f) /\ up'[id] = Above(PlaceOf(f)')
      <3>1. CASE id \in DOMAIN up /\ up'[id] = up[id]
        BY <1>1, <1>2, <2>1, <3>1
      <3>2. CASE Entry.kind = "detach"
        <4>1. id \in DOMAIN up /\ up'[id] = up[id]
          BY <1>4, <2>1, <3>2, Carried
        <4> QED BY <3>1, <4>1
      <3>3. CASE Entry.kind = "replace"
        <4>1. Entry = log[1] /\ 1 \in 1..Len(log) /\ pc = "apply"
          <5>1. Entry = log[1] /\ log \in Seq(Edits) /\ log # <<>>
            BY <1>4, Carried
          <5>2. 1 \in 1..Len(log)
            <6> HIDE DEF Edits
            <6> QED BY <5>1
          <5> QED BY <1>4, <5>1, <5>2 DEF Apply
        <4>2. PICK g \in Made : Entry = Replace(<<PlaceOf(g)>>, g)
          BY <3>3, <4>1, LogWholeHere
        <4>3. Entry.by = JitOp(g) /\ Entry.cut[1] = PlaceOf(g)
          BY <4>2 DEF Replace
        <4>4. PlaceOf(g) \in Ops /\ PlaceOf(g) \in Paths
          BY PlaceIsOp
        <4>5. CASE id = Entry.by
          <5>1. up'[id] = up[PlaceOf(g)]
            BY <1>4, <2>1, <3>3, <4>3, <4>5, Carried
          <5>2. Stands(Entry)
            BY <4>1 DEF LogInv
          <5>3. up[PlaceOf(g)] = Above(PlaceOf(g))
            BY <3>3, <4>3, <4>4, <5>2, BelowItself DEF Stands
          <5> QED BY <1>1, <4>3, <4>5, <5>1, <5>3
        <4>6. CASE id # Entry.by
          <5>1. id # Entry.cut[1] /\ id \in DOMAIN up
            BY <1>4, <2>1, <3>3, <4>3, <4>4, <4>6, Carried
          <5>2. id \notin Listed(jits[MadeBy(Entry.by)].kids)
            <6>1. g \in 1..Len(ran)
              BY MadeIsOver
            <6>2. Listed(ran[g]) \subseteq Ops
              BY <6>1, RunsOps
            <6> QED BY <2>1, <4>3, <6>2, KidsOfJit
          <5>3. up'[id] = up[id]
            BY <1>4, <2>1, <3>3, <4>6, <5>1, <5>2, Carried
          <5> QED BY <3>1, <5>1, <5>3
        <4> QED BY <4>5, <4>6
      <3> QED BY <1>4, <3>2, <3>3, Carried
    <2> QED BY <2>1 DEF JitOpsPlaced
  <1> QED BY <1>3, <1>4, Changes

\* Where an op is
PlacedOp(op, u, l) ==
  \/ u[op] = Above(op)
  \/ /\ u[op] = Loose
     /\ \E f \in Made : /\ op \in Listed(ran[f])
                       /\ \E i \in 1..Len(l) : l[i].by = JitOp(f)
  \/ \E f \in Made : /\ JitOp(f) \in DOMAIN u
                    /\ \/ u[op] = JitOp(f) /\ op \in Listed(ran[f])
                       \/ u[op] = Freed /\ op = PlaceOf(f)

LEMMA StaysPlaced ==
  ASSUME IInv, LogInv, Compiled, LogWhole, Apply, NEW op \in Ops, PlacedOp(op, up, log),
         up'[op] = up[op],
         up[op] # Loose \/ ~ \E f \in Made : op \in Listed(ran[f]) /\ Entry.by = JitOp(f)
  PROVE  PlacedOp(op, up', log')
  <1>1. /\ log \in Seq(Edits) /\ log # <<>> /\ log' = Tail(log) /\ Entry = log[1]
        /\ DOMAIN up \subseteq DOMAIN up'
    BY Carried
  <1>2. \A i \in 1..Len(log) : i = 1 \/ (i - 1 \in 1..Len(log') /\ log'[i - 1] = log[i])
    BY <1>1, OneLess
  <1>3. CASE up[op] = Above(op)
    BY <1>3 DEF PlacedOp
  <1>4. ASSUME up[op] = Loose, NEW f \in Made, op \in Listed(ran[f]),
               NEW i \in 1..Len(log), log[i].by = JitOp(f)
        PROVE  PlacedOp(op, up', log')
    <2>1. i # 1
      BY <1>1, <1>4
    <2>2. i - 1 \in 1..Len(log') /\ log'[i - 1].by = JitOp(f)
      BY <1>2, <1>4, <2>1
    <2> QED BY <1>4, <2>2 DEF PlacedOp
  <1>5. ASSUME NEW f \in Made, JitOp(f) \in DOMAIN up,
               (up[op] = JitOp(f) /\ op \in Listed(ran[f])) \/ (up[op] = Freed /\ op = PlaceOf(f))
        PROVE  PlacedOp(op, up', log')
    BY <1>1, <1>5 DEF PlacedOp
  <1> QED BY <1>3, <1>4, <1>5 DEF PlacedOp

LEMMA ApplyPlaces ==
  ASSUME IInv, LogInv, Compiled, LogWhole, FunctionsAccounted, Apply, failed = {},
         NEW op \in Ops, PlacedOp(op, up, log)
  PROVE  PlacedOp(op, up', log')
  <1>1. /\ log \in Seq(Edits) /\ log # <<>> /\ log' = Tail(log) /\ Entry = log[1]
        /\ DOMAIN up \subseteq DOMAIN up' /\ op \in DOMAIN up /\ op \in DOMAIN up'
    BY Carried
  <1>2. 1 \in 1..Len(log)
    <2> HIDE DEF Edits
    <2> QED BY <1>1
  <1>3. \A i \in 1..Len(log) : i = 1 \/ (i - 1 \in 1..Len(log') /\ log'[i - 1] = log[i])
    BY <1>1, OneLess
  <1>4. IsTree(sub) /\ pc = "apply" /\ Len(log) \in Nat
    <2> HIDE DEF Edits
    <2> QED BY <1>1 DEF IInv, Apply
  <1>5. CASE Entry.kind = "detach"
    <2>1. \A f : Entry.by # JitOp(f)
      BY <1>4, <1>5, JitOpIsNew, Carried
    <2>2. CASE op # Entry.by
      <3>1. up'[op] = up[op]
        BY <1>1, <1>5, <2>2, Carried
      <3> QED BY <2>1, <3>1, StaysPlaced
    <2>3. CASE op = Entry.by /\ up[op] = Freed
      <3>1. up'[op] = up[op]
        BY <1>1, <1>5, <2>3, Carried
      <3> QED BY <2>1, <3>1, StaysPlaced
    <2>4. CASE op = Entry.by /\ up[op] # Freed
      <3>1. up'[op] = Loose
        BY <1>1, <1>5, <2>4, Carried
      <3>2. PICK f \in 1..Len(ran) :
              /\ log[1].by \in Listed(ran[f])
              /\ f \in Made => \E k \in (1 + 1)..Len(log) : log[k].by = JitOp(f)
        BY <1>1, <1>2, <1>5, LogWholeHere
      <3>3. f \in Made
        BY <1>4, AllMade
      <3>4. PICK k \in (1 + 1)..Len(log) : log[k].by = JitOp(f)
        BY <3>2, <3>3
      <3>5. k \in 1..Len(log) /\ k # 1
        BY <1>4
      <3>6. k - 1 \in 1..Len(log') /\ log'[k - 1].by = JitOp(f)
        BY <1>3, <3>4, <3>5
      <3>7. op \in Listed(ran[f])
        BY <1>1, <2>4, <3>2
      <3> QED BY <3>1, <3>3, <3>6, <3>7 DEF PlacedOp
    <2> QED BY <2>2, <2>3, <2>4
  <1>6. CASE Entry.kind = "replace"
    <2>1. PICK g \in Made : Entry = Replace(<<PlaceOf(g)>>, g)
      BY <1>1, <1>2, <1>6, LogWholeHere
    <2>2. Entry.by = JitOp(g) /\ Entry.cut[1] = PlaceOf(g)
      BY <2>1 DEF Replace
    <2>3. /\ Listed(jits[MadeBy(Entry.by)].kids) = Listed(ran[g])
          /\ JitOp(g) \in DOMAIN up' /\ op # Entry.by
      BY <1>4, <1>6, <2>2, KidsOfJit, JitOpIsNew, Carried
    <2>4. CASE op = PlaceOf(g)
      <3>1. up'[op] = Freed
        BY <1>1, <1>6, <2>2, <2>3, <2>4, Carried
      <3> QED BY <2>3, <2>4, <3>1 DEF PlacedOp
    <2>5. CASE op # PlaceOf(g) /\ op \in Listed(ran[g]) /\ up[op] = Loose
      <3>1. up'[op] = JitOp(g)
        BY <1>1, <1>6, <2>2, <2>3, <2>5, Carried
      <3> QED BY <2>3, <2>5, <3>1 DEF PlacedOp
    <2>6. CASE op # PlaceOf(g) /\ ~ (op \in Listed(ran[g]) /\ up[op] = Loose)
      <3>1. up'[op] = up[op]
        BY <1>1, <1>6, <2>2, <2>3, <2>6, Carried
      <3>2. ASSUME NEW f \in Made, op \in Listed(ran[f]), Entry.by = JitOp(f)
            PROVE  up[op] # Loose
        BY <2>2, <2>6, <3>2, JitOpsDiffer
      <3> QED BY <3>1, <3>2, StaysPlaced
    <2> QED BY <2>4, <2>5, <2>6
  <1> QED BY <1>5, <1>6, Carried

LEMMA NextPlaced ==
  ASSUME IInv, LogInv, Compiled, FunctionsAccounted, LogWhole, Placed, [Next]_vars
  PROVE  Placed'
  <1>1. sub' = sub
    BY NextFits
  <1>2. /\ Ops' = Ops /\ \A op : Above(op)' = Above(op)
    BY <1>1, LogOfNext
  <1>3. JitOpsPlaced
    BY NextJitOpsPlaced
  <1>4. ASSUME failed' = {}, pc' \in {"apply", "done"}, NEW op \in Ops
        PROVE  PlacedOp(op, up, log)'
    <2>1. CASE pc = "emit"
      <3>1. ProcessReturns
        BY <1>4, <2>1, Changes DEF Finish, BinopCrashes
      <3>2. up' = [o \in Ops |-> Above(o)]
        BY <2>1, <3>1 DEF ProcessReturns, LogInv
      <3>3. up'[op] = Above(op)'
        BY <1>2, <1>4, <3>2
      <3> QED BY <3>3 DEF PlacedOp
    <2>2. CASE pc # "emit"
      <3>1. Apply \/ Finish \/ UNCHANGED vars
        BY <2>2, OnlyApply
      <3>2. /\ UNCHANGED <<failed, jits, work, ran>> /\ pc \in {"apply", "done"}
            /\ Apply \/ UNCHANGED <<up, log>>
        BY <1>4, <3>1 DEF Apply, Finish, vars, code, made, edits
      <3>3. PlacedOp(op, up, log)
        BY <1>4, <3>2 DEF Placed, PlacedOp
      <3>4. PlacedOp(op, up', log')
        BY <1>4, <3>2, <3>3, ApplyPlaces
      <3>5. /\ Made' = Made /\ \A f : Listed(ran[f])' = Listed(ran[f])
            /\ \A f : PlaceOf(f)' = PlaceOf(f) /\ JitOp(f)' = JitOp(f)
        <4>1. \A f : PlaceOf(f)' = PlaceOf(f)
          BY <1>1, <3>2, SameTreeOf
        <4> QED BY <3>2, <4>1 DEF Made, Listed, JitOp
      <3> QED BY <1>2, <3>4, <3>5 DEF PlacedOp, Loose, Freed
    <2> QED BY <2>1, <2>2
  <1>5. \A id \in DOMAIN up' : id \in Ops' \/ \E f \in Made' : id = JitOp(f) /\ up'[id] = Above(PlaceOf(f))'
    <2>1. \A f : Above(PlaceOf(f))' = Above(PlaceOf(f)')
      BY <1>1 DEF Above, HasOp, Kind, OpOf
    <2> QED BY <1>2, <1>3, <2>1 DEF JitOpsPlaced
  <1>6. failed' = {} /\ pc' \in {"apply", "done"} => \A op \in Ops' : PlacedOp(op, up, log)'
    BY <1>2, <1>4
  <1> QED BY <1>5, <1>6 DEF Placed, PlacedOp, JitOp

-----------------------------------------------------------------------------
(* BuilderStands and NotLost: where the instructions go *)

\* The call that the function on top is emitted for, and those in it
LEMMA TreesOfFunction ==
  ASSUME IInv, FunctionsAccounted, failed = {}, calls # <<>>, Top.at \in Emissions
  PROVE  /\ \E i \in Frames : calls[i].at = "trees" /\ calls[i].fn = Top.fn
         /\ \A i, j \in Frames :
              /\ calls[i].at = "trees" /\ calls[j].at = "trees" /\ calls[i].fn = Top.fn
              => ~ i < j
  <1>1. Top.fn \in 1..FunctionsMade /\ Top.fn \in 1..Len(fns)
    BY EmissionOfTop DEF FunctionsMade
  <1>2. Top.fn \notin Made
    BY MadeIsOver
  <1>3. \E i \in Frames : calls[i].at = "trees" /\ calls[i].fn = Top.fn
    BY <1>1, <1>2 DEF FunctionsAccounted
  <1>4. ASSUME NEW i \in Frames, NEW j \in Frames, calls[i].at = "trees", calls[j].at = "trees",
               calls[i].fn = Top.fn, i < j
        PROVE  FALSE
    <2>1. PICK c, d, t : c = calls[i] /\ d = calls[j] /\ t = Top
      OBVIOUS
    <2>2. Inside(c, d)
      BY <1>4, <2>1 DEF IInv, Stack, Frames
    <2>3. c.this < d.this
      BY <1>4, <2>1, <2>2 DEF Inside, Emissions
    <2>4. /\ c \in CallsUpTo(EmittersAlive, FunctionsMade)
          /\ d \in CallsUpTo(EmittersAlive, FunctionsMade)
          /\ t \in CallsUpTo(EmittersAlive, FunctionsMade)
      BY <1>4, <2>1, EmissionHere, Here DEF Emissions
    <2>5. c.this \in Nat /\ d.this \in Nat /\ t.this \in Nat
      BY <2>4, CallFields
    <2>6. i \in 1..Len(Outer) /\ (j \in 1..Len(Outer) \/ j = Len(calls))
      BY <1>4, TopAndOuter DEF Frames, IInv
    <2>7. c = Outer[i]
      BY <2>1, <2>6, TopAndOuter DEF IInv
    <2>8. Inside(c, t)
      BY <2>1, <2>6, <2>7, CallReturns, Here
    <2>9. c.this = t.this
      BY <1>4, <2>1, <2>8 DEF Inside, Emissions
    <2>10. CASE j = Len(calls)
      <3>1. d = t
        BY <2>1, <2>10 DEF Top
      <3> QED BY <2>3, <2>5, <2>9, <3>1
    <2>11. CASE j \in 1..Len(Outer)
      <3>1. d = Outer[j]
        BY <2>1, <2>11, TopAndOuter DEF IInv
      <3>2. Inside(d, t)
        BY <2>1, <2>11, <3>1, CallReturns, Here
      <3>3. d.this <= t.this
        BY <3>2 DEF Inside
      <3> QED BY <2>3, <2>5, <2>9, <3>3
    <2> QED BY <2>6, <2>10, <2>11
  <1> QED BY <1>3, <1>4

\* Where the builder stands when something is inserted
LEMMA BuilderAt ==
  ASSUME IInv, FunctionsAccounted, BuilderStands, failed = {}, calls # <<>>, Top.at \in Emissions
  PROVE  /\ cur \in 1..Len(fns)
         /\ \/ cur = Top.fn
            \/ /\ cur \in Made
               /\ \A i \in Frames : calls[i].at = "trees" /\ calls[i].fn = Top.fn =>
                    Below(PlaceOf(cur), Scope(calls[i]))
  <1>1. ASSUME NEW i \in Frames, calls[i].at = "trees", calls[i].fn = Top.fn
        PROVE  cur = Top.fn \/ (cur \in Made /\ Below(PlaceOf(cur), Scope(calls[i])))
    BY <1>1, TreesOfFunction DEF BuilderStands
  <1>2. Top.fn \in 1..Len(fns)
    BY EmissionOfTop DEF FunctionsMade
  <1>3. cur \in Made => cur \in 1..Len(fns)
    BY MadeIsOver
  <1> QED BY <1>1, <1>2, <1>3, TreesOfFunction

\* What is inserted is where the builder stands.
LEMMA InsertedAt ==
  ASSUME IInv, NEW list, Inserts(list), cur \in 1..Len(fns)
  PROVE  /\ Listed(fns'[cur]) = Listed(fns[cur]) \union Listed(list)
         /\ \A f \in 1..Len(fns) : f # cur => fns'[f] = fns[f]
  <1> DEFINE I == Seq(Instruction)
  <1>1. fns \in Seq(I) /\ list \in I /\ fns' = [fns EXCEPT ![cur] = fns[cur] \o list]
    BY Here DEF Inserts, Insert
  <1>2. \A x \in I : x \o list \in I /\ Listed(x \o list) = Listed(x) \union Listed(list)
    <2> HIDE DEF Instruction
    <2> QED BY <1>1, ListedBoth, ConcatProperties
  <1> HIDE DEF I
  <1>3. fns[cur] \in I /\ fns[cur] \o list \in I
    BY <1>1, <1>2
  <1>4. fns'[cur] = fns[cur] \o list /\ \A f \in 1..Len(fns) : f # cur => fns'[f] = fns[f]
    BY <1>1, <1>3, ExceptSeq
  <1> QED BY <1>2, <1>3, <1>4

\* No function loses what it holds.
LEMMA NextHeld ==
  ASSUME IInv, [Next]_vars, NEW f \in 1..Len(fns)
  PROVE  Listed(fns[f]) \subseteq Listed(fns'[f])
  <1>1. CASE ProcessTree \/ SequenceFlushes
    <2> DEFINE S == Seq(Instruction)
    <2>1. fns \in Seq(S) /\ fns' = Append(fns, <<>>)
      BY <1>1, Starting, Here
    <2> HIDE DEF S
    <2>2. fns'[f] = fns[f]
      BY <2>1
    <2> QED BY <2>2 DEF Listed
  <1>2. ASSUME NEW list, Inserts(list)
        PROVE  Listed(fns[f]) \subseteq Listed(fns'[f])
    <2>1. CASE cur \in 1..Len(fns) /\ f # cur
      BY <1>2, <2>1, InsertedAt DEF Listed
    <2>2. CASE cur \in 1..Len(fns) /\ f = cur
      BY <1>2, <2>2, InsertedAt
    <2>3. CASE cur \notin 1..Len(fns)
      <3> DEFINE S == Seq(Instruction)
      <3>1. fns \in Seq(S) /\ fns' = [fns EXCEPT ![cur] = fns[cur] \o list]
        BY <1>2, Here DEF Inserts, Insert
      <3> HIDE DEF S
      <3>2. fns'[f] = fns[f]
        BY <2>3, <3>1
      <3> QED BY <3>2 DEF Listed
    <2> QED BY <2>1, <2>2, <2>3
  <1>3. CASE fns' = fns
    BY <1>3 DEF Listed
  <1> QED BY <1>1, <1>2, <1>3, Changes, Inserting

\* The calls of _jit_trees in the next state are those before, or one for a new function.
LEMMA NextTrees ==
  ASSUME IInv, [Next]_vars, NEW i \in 1..Len(calls'), NEW x, x = calls'[i], x.at = "trees"
  PROVE  \/ i \in Frames /\ x = calls[i]
         \/ (ProcessTree \/ SequenceFlushes) /\ x.fn = Len(fns) + 1
  BY NextEmissions DEF Emissions, Frames

\* Those before stay, but for the one whose function is finished.
LEMMA TreesStay ==
  ASSUME IInv, [Next]_vars, NEW i \in Frames, calls[i].at = "trees",
         ~ JitTreesFail, ~ JitTreesGoOn \/ i # Len(calls)
  PROVE  i \in 1..Len(calls') /\ calls'[i] = calls[i]
  <1>1. calls # <<>>
    BY DEF Frames
  <1>2. CASE calls' = calls
    BY <1>2 DEF Frames
  <1>3. CASE calls' # calls /\ i \in 1..Len(Outer)
    <2>1. Outer[i] = calls[i]
      BY <1>1, <1>3, TopAndOuter DEF IInv
    <2> QED BY <1>3, <2>1, OuterStays
  <1>4. CASE calls' # calls /\ i = Len(calls)
    <2>1. Top.at = "trees"
      BY <1>4 DEF Top
    <2> QED BY <1>4, <2>1 DEF Next, vars, At, Goes, ProcessVariable, ProcessSequence, ProcessTree,
             ProcessKids, ProcessReturns, SequenceTakes, SequenceFlushes, SequenceSearches,
             SequenceReturns, EmitConst, GetLexical, EmitBinop, BinopRight, BinopCrashes, BinopAdds,
             EmitOptreeJitKids, JitKidsFail, EmitOptree, Apply, Finish
  <1>5. i = Len(calls) \/ i \in 1..Len(Outer)
    BY <1>1, TopAndOuter DEF Frames, IInv
  <1> QED BY <1>2, <1>3, <1>4, <1>5

\* The places of the functions made stay, and a new one is in the tree of each call
\* around it.
LEMMA NextPlaces ==
  ASSUME IInv, LogInv, Compiled, [Next]_vars
  PROVE  /\ sub' = sub
         /\ \A f \in Made : f \in Made' /\ PlaceOf(f)' = PlaceOf(f)
         /\ JitTreesGoOn => /\ calls # <<>> /\ Top.at = "trees"
                            /\ \A f : f = Top.fn => f \in Made' /\ PlaceOf(f)' = Scope(Top)
                            /\ \A i \in Frames : calls[i].at = "trees" /\ i # Len(calls) =>
                                 Below(Scope(Top), Scope(calls[i]))
  <1>1. sub' = sub
    BY NextFits
  <1>2. ASSUME NEW f \in Made
        PROVE  f \in Made' /\ PlaceOf(f)' = PlaceOf(f)
    BY <1>1, MadeIsDone, SameTreeOf, NextMade
  <1>3. ASSUME JitTreesGoOn, NEW f, f = Top.fn
        PROVE  /\ calls # <<>> /\ Top.at = "trees"
               /\ f \in Made' /\ PlaceOf(f)' = Scope(Top)
    <2>1. calls # <<>> /\ Top.at = "trees" /\ PlaceOf(f)' = OpOf(Top.asts[1])
      BY <1>3, NewTree, NewPlace
    <2> QED BY <1>3, <2>1, NextMade DEF Scope
  <1>4. ASSUME JitTreesGoOn, NEW i \in Frames, calls[i].at = "trees", i # Len(calls)
        PROVE  Below(Scope(Top), Scope(calls[i]))
    <2>1. PICK c : c = calls[i]
      OBVIOUS
    <2>2. i \in 1..Len(Outer) /\ c = Outer[i] /\ IsTree(sub)
      BY <1>3, <1>4, <2>1, TopAndOuter DEF Frames, IInv
    <2>3. Below(Scope(Top), Inner(c))
      BY <1>3, <1>4, <2>2, LogHere DEF Within
    <2>4. c \in CallsUpTo(EmittersAlive, FunctionsMade) /\ CallWhole(c)
      BY <1>4, <2>1, EmissionHere DEF Emissions
    <2>5. Inner(c) = c.asts[1] /\ Scope(c) = OpOf(c.asts[1])
      BY <1>4, <2>1 DEF Inner, Emitted, Scope
    <2>6. c.asts[1] \in Terms /\ Scope(c) \in Paths /\ Inner(c) \in Paths
      BY <2>2, <2>4, <2>5, ScopeIs
    <2>7. Below(Inner(c), Scope(c))
      BY <2>2, <2>5, <2>6, OpOfIs
    <2>8. Scope(Top) \in Paths
      <3>1. PICK t : t = Top
        OBVIOUS
      <3>2. t \in CallsUpTo(EmittersAlive, FunctionsMade) /\ CallWhole(t)
        BY <1>4, <3>1, NewTree, Here
      <3>3. Scope(t) \in Paths
        BY <2>2, <3>2, ScopeIs
      <3> QED BY <3>1, <3>3
    <2>9. PICK a, b, d : a = Scope(Top) /\ b = Inner(c) /\ d = Scope(c)
      OBVIOUS
    <2>10. Below(a, d)
      BY <2>3, <2>6, <2>7, <2>8, <2>9, BelowBelow
    <2> QED BY <2>1, <2>9, <2>10
  <1> QED BY <1>1, <1>2, <1>3, <1>4

LEMMA NextBuilderStands ==
  ASSUME IInv, LogInv, Compiled, FunctionsAccounted, BuilderStands, failed = {}, failed' = {},
         [Next]_vars
  PROVE  BuilderStands'
  <1>1. ~ JitTreesFail
    BY DEF JitTreesFail
  <1>2. ASSUME NEW i \in 1..Len(calls'), NEW x, x = calls'[i], x.at = "trees"
        PROVE  \/ cur' = x.fn
               \/ cur' \in Made' /\ Below(PlaceOf(cur)', Scope(x)')
               \/ \E j \in 1..Len(calls') : i < j /\ calls'[j].at = "trees" /\ calls'[j].fn = cur'
    <2>1. CASE (ProcessTree \/ SequenceFlushes) /\ x.fn = Len(fns) + 1
      BY <2>1, Starting
    <2>2. CASE (ProcessTree \/ SequenceFlushes) /\ i \in Frames /\ x = calls[i]
      <3>1. PICK j \in 1..Len(calls') : calls'[j].at = "trees" /\ calls'[j].fn = Len(fns) + 1
        BY <2>2, NewTrees
      <3>2. x.fn \in 1..Len(fns)
        BY <1>2, <2>2, EmissionHere DEF Emissions, FunctionsMade
      <3>3. j \notin Frames \/ calls'[j] # calls[j]
        BY <3>1, EmissionHere DEF Emissions, FunctionsMade
      <3>4. i < j
        <4>1. calls # <<>> /\ Top.at \in {"process", "sequence"}
          BY <2>2, Starting
        <4>2. i # Len(calls)
          BY <1>2, <2>2, <4>1 DEF Top
        <4>3. \A k \in Frames : k # Len(calls) => calls'[k] = calls[k]
          BY <4>1, TopAndOuter, OuterStays, Starting DEF Frames, IInv
        <4>4. ~ j < Len(calls)
          BY <3>3, <4>3 DEF Frames
        <4> QED BY <2>2, <4>2, <4>4 DEF Frames
      <3>5. cur' = Len(fns) + 1
        BY <2>2, Starting
      <3> QED BY <3>1, <3>4, <3>5
    <2>3. CASE ~ (ProcessTree \/ SequenceFlushes) /\ i \in Frames /\ x = calls[i]
      <3>1. cur' = cur
        BY <2>3, FunctionsKept
      <3>2. Scope(x)' = Scope(x)
        BY NextPlaces DEF Scope, OpOf
      <3>3. CASE cur = x.fn
        BY <3>1, <3>3
      <3>4. CASE cur \in Made /\ Below(PlaceOf(cur), Scope(x))
        BY <3>1, <3>2, <3>4, NextPlaces
      <3>5. ASSUME NEW j \in Frames, i < j, calls[j].at = "trees", calls[j].fn = cur
            PROVE  \/ cur' \in Made' /\ Below(PlaceOf(cur)', Scope(x)')
                   \/ \E k \in 1..Len(calls') :
                        i < k /\ calls'[k].at = "trees" /\ calls'[k].fn = cur'
        <4>1. CASE JitTreesGoOn /\ j = Len(calls)
          <5>1. calls[j] = Top /\ i # Len(calls) /\ cur = Top.fn
            BY <3>5, <4>1 DEF Top, Frames
          <5>2. cur \in Made' /\ Below(Scope(Top), Scope(x))
            BY <1>2, <2>3, <4>1, <5>1, NextPlaces
          <5>3. PICK f : f = Top.fn
            OBVIOUS
          <5>4. PlaceOf(f)' = Scope(Top) /\ f = cur'
            BY <3>1, <4>1, <5>1, <5>3, NextPlaces
          <5>5. PlaceOf(cur)' = PlaceOf(f)'
            BY <5>4
          <5> QED BY <3>1, <3>2, <5>2, <5>4, <5>5
        <4>2. CASE ~ (JitTreesGoOn /\ j = Len(calls))
          <5>1. j \in 1..Len(calls') /\ calls'[j] = calls[j]
            BY <1>1, <3>5, <4>2, TreesStay
          <5> QED BY <3>1, <3>5, <5>1
        <4> QED BY <4>1, <4>2
      <3> QED BY <1>2, <2>3, <3>3, <3>4, <3>5 DEF BuilderStands
    <2> QED BY <1>2, <2>1, <2>2, <2>3, NextTrees
  <1>3. \A i, x : x = calls'[i] => Scope(calls[i])' = Scope(x)'
    BY DEF Scope, OpOf
  <1> QED BY <1>2, <1>3 DEF BuilderStands, Frames, Below

\* What is part of the tree of a function stays so.
LEMMA StaysPartOf ==
  ASSUME IInv, LogInv, Compiled, [Next]_vars, NEW f \in 1..Len(fns), NEW g, PartOf(g, f),
         \A i \in Frames : calls[i].at = "trees" /\ calls[i].fn = f => Below(PlaceOf(g), Scope(calls[i]))
  PROVE  PartOf(g, f)'
  <1>1. g \in Made /\ g \in Made' /\ PlaceOf(g)' = PlaceOf(g) /\ sub' = sub
    BY NextPlaces DEF PartOf
  <1>2. ASSUME f \in Made'
        PROVE  Below(PlaceOf(g)', PlaceOf(f)')
    <2>1. CASE f \in Made
      BY <1>1, <2>1, NextPlaces DEF PartOf
    <2>2. CASE JitTreesGoOn /\ f = Top.fn
      <3>1. calls # <<>> /\ Top.at = "trees" /\ PlaceOf(f)' = Scope(Top)
        BY <2>2, NextPlaces
      <3>2. Below(PlaceOf(g), Scope(Top))
        BY <2>2, <3>1, TopIsFrame
      <3> QED BY <1>1, <3>1, <3>2
    <2> QED BY <1>2, <2>1, <2>2, NextMade
  <1>3. ASSUME NEW i \in 1..Len(calls'), NEW x, x = calls'[i], x.at = "trees", x.fn = f
        PROVE  Below(PlaceOf(g)', Scope(x)')
    <2>1. Scope(x)' = Scope(x)
      BY <1>1 DEF Scope, OpOf
    <2>2. i \in Frames /\ x = calls[i]
      <3>1. Len(fns) + 1 # f
        BY DEF IInv, TypeOK
      <3> QED BY <1>3, <3>1, NextTrees
    <2> QED BY <1>1, <1>3, <2>1, <2>2
  <1>4. \A i, x : x = calls'[i] => Scope(calls[i])' = Scope(x)'
    BY DEF Scope, OpOf
  <1> QED BY <1>1, <1>2, <1>3, <1>4 DEF PartOf, Frames, Below

LEMMA NextNotLost ==
  ASSUME IInv, LogInv, Compiled, FunctionsAccounted, BuilderStands, NotLost, failed = {},
         [Next]_vars
  PROVE  NotLost'
  <1>1. Len(work') = Len(fns') /\ Len(work) = Len(fns) /\ Len(fns) \in Nat /\ Len(fns') \in Nat
        /\ Len(fns) <= Len(fns')
    BY NextFits DEF Fits, FunctionsMade, IInv, TypeOK
  <1>2. ASSUME NEW f \in 1..Len(fns'), NEW n \in Listed(work'[f])
        PROVE  n \in Listed(fns'[f]) \/ \E g \in 1..Len(fns') : PartOf(g, f)' /\ n \in Listed(fns'[g])
    <2>1. CASE f \notin 1..Len(fns)
      BY <1>2, <2>1, NewFunction DEF FunctionsMade
    <2>2. CASE f \in 1..Len(fns) /\ n \in Listed(work[f])
      <3>1. CASE n \in Listed(fns[f])
        BY <2>2, <3>1, NextHeld
      <3>2. ASSUME NEW g \in 1..Len(fns), PartOf(g, f), n \in Listed(fns[g])
            PROVE  g \in 1..Len(fns') /\ PartOf(g, f)' /\ n \in Listed(fns'[g])
        <4>1. PartOf(g, f)'
          BY <2>2, <3>2, StaysPartOf DEF PartOf
        <4>2. n \in Listed(fns'[g])
          BY <3>2, NextHeld
        <4> QED BY <1>1, <4>1, <4>2
      <3> QED BY <1>1, <2>2, <3>1, <3>2 DEF NotLost
    <2>3. ASSUME f \in 1..Len(fns), n \notin Listed(work[f]), f = Top.fn,
                 NEW list, Inserts(list)
          PROVE  n \in Listed(fns'[f]) \/ \E g \in 1..Len(fns') : PartOf(g, f)' /\ n \in Listed(fns'[g])
      <3>1. calls # <<>> /\ Top.at \in Emissions
        BY <2>3 DEF Inserts
      <3>2. n \in Listed(list)
        BY <1>2, <2>3, Inserted
      <3>3. cur \in 1..Len(fns) /\ n \in Listed(fns'[cur])
        BY <2>3, <3>1, <3>2, BuilderAt, InsertedAt
      <3>4. CASE cur = Top.fn
        BY <2>3, <3>3, <3>4
      <3>5. CASE /\ cur \in Made
                 /\ \A i \in Frames : calls[i].at = "trees" /\ calls[i].fn = Top.fn =>
                      Below(PlaceOf(cur), Scope(calls[i]))
        <4>1. f \notin Made
          BY <2>3, <3>1, MadeIsOver
        <4>2. PartOf(cur, f)
          BY <2>3, <3>5, <4>1 DEF PartOf
        <4>3. PICK g : g = cur
          OBVIOUS
        <4>4. PartOf(g, f)'
          BY <2>3, <3>5, <4>2, <4>3, StaysPartOf
        <4> QED BY <1>1, <3>3, <4>3, <4>4
      <3> QED BY <3>1, <3>4, <3>5, BuilderAt
    <2>4. f \in 1..Len(fns) =>
            work'[f] = work[f] \/ (f = Top.fn /\ \E list : Inserts(list))
      BY NextWork DEF FunctionsMade
    <2> QED BY <1>2, <2>1, <2>2, <2>3, <2>4
  <1>3. \A f : Listed(work[f])' = Listed(work'[f]) /\ Listed(fns[f])' = Listed(fns'[f])
    BY DEF Listed
  <1> QED BY <1>1, <1>2, <1>3 DEF NotLost

-----------------------------------------------------------------------------
(* The invariant *)

LEMMA InitKept ==
  ASSUME Init
  PROVE  KeptInv
  <1>1. /\ calls = <<Process(1, <<>>)>> /\ log = <<>> /\ fns = <<>> /\ work = <<>> /\ ran = <<>>
        /\ jits = <<>> /\ pc = "emit" /\ up = [op \in Ops |-> Above(op)]
    BY DEF Init
  <1>2. /\ 1..Len(log) = {} /\ 1..Len(fns) = {} /\ 1..Len(work) = {} /\ 1..Len(ran) = {}
        /\ Made = {} /\ DOMAIN up = Ops
    BY <1>1 DEF Made
  <1>3. /\ Len(calls) = 1 /\ Frames = {1} /\ calls[1].at = "process" /\ Top.at = "process"
    BY <1>1 DEF Frames, Process, Top
  <1>4. Compiled
    BY <1>2, <1>3 DEF Compiled
  <1>5. AddedOnce /\ FunctionsAccounted
    BY <1>2 DEF AddedOnce, FunctionsAccounted
  <1>6. RunsWhole
    BY <1>2, <1>3 DEF RunsWhole
  <1>7. LogWhole
    BY <1>1, <1>2 DEF LogWhole
  <1>8. Placed
    BY <1>1, <1>2 DEF Placed
  <1>9. BuilderStands /\ NotLost
    BY <1>2, <1>3 DEF BuilderStands, NotLost
  <1> QED BY <1>4, <1>5, <1>6, <1>7, <1>8, <1>9 DEF KeptInv

LEMMA NextKept ==
  ASSUME IInv, LogInv, KeptInv, [Next]_vars
  PROVE  KeptInv'
  <1>1. Compiled /\ AddedOnce /\ FunctionsAccounted /\ RunsWhole /\ LogWhole /\ Placed
    BY DEF KeptInv
  <1>2. Compiled' /\ AddedOnce' /\ FunctionsAccounted'
    BY <1>1, NextCompiled, NextAddedOnce, NextFunctionsAccounted
  <1>3. RunsWhole' /\ LogWhole' /\ Placed'
    BY <1>1, NextRunsWhole, NextLogWhole, NextPlaced
  <1>4. ASSUME failed' = {}
        PROVE  BuilderStands' /\ NotLost'
    <2>1. failed = {}
      BY <1>4, Changes DEF JitTreesFail
    <2>2. BuilderStands /\ NotLost
      BY <2>1 DEF KeptInv
    <2> QED BY <1>1, <1>4, <2>1, <2>2, NextBuilderStands, NextNotLost
  <1> QED BY <1>2, <1>3, <1>4 DEF KeptInv

\* Each term that was compiled is done by one function, each function has become a
\* JIT op or was given up, and while the log is carried out each op stands where perl
\* put it, waits for the JIT op that runs it, or was replaced by the one that does its
\* work; and what was emitted is in the function it is for or in one for part of its
\* tree, if all could be compiled: for every value of Subs.
THEOREM KeptInvariant == Spec => []KeptInv
  <1>1. Init => KeptInv
    BY InitKept
  <1>2. IInv /\ LogInv /\ KeptInv /\ [Next]_vars => KeptInv'
    BY NextKept
  <1> QED BY <1>1, <1>2, EmitInvariant, LogInvariant, PTL DEF Spec

-----------------------------------------------------------------------------
(* What is left of the code *)

LEMMA OpIs ==
  ASSUME IsTree(sub), NEW x \in Ops
  PROVE  /\ x \in Terms /\ x \in Paths /\ x # <<>> /\ HasOp(x)
         /\ ~ sub[x].shared /\ OpOf(x) = x
  <1>1. PICK p \in Terms : HasOp(p) /\ x = OpOf(p)
    BY DEF Ops
  <1>2. x \in Terms /\ x \in Paths /\ x # <<>>
    BY OpsAreTerms, TermsArePaths
  <1>3. CASE sub[p].shared
    <2>1. Kind(x) = "op" /\ ~ sub[x].shared
      BY <1>1, <1>3, OpOfIs
    <2> QED BY <1>2, <2>1 DEF HasOp, OpOf
  <1>4. CASE ~ sub[p].shared
    <2>1. x = p
      BY <1>1, <1>4 DEF OpOf
    <2> QED BY <1>1, <1>2, <1>4, <2>1 DEF OpOf
  <1> QED BY <1>3, <1>4

\* The op above one that is below another is not above that one.
LEMMA AboveBelow ==
  ASSUME IsTree(sub), NEW x \in Terms, NEW r \in Ops, Kind(r) # "statement",
         Below(x, r), x # r
  PROVE  Below(Above(x), r) /\ Above(x) \in Ops /\ Above(x) # Root
  <1>1. x \in Paths /\ r \in Paths /\ r # <<>> /\ HasOp(r) /\ OpOf(r) = r
    BY OpIs, TermsArePaths
  <1>2. PICK n \in Nat : n = Len(r)
    BY <1>1 DEF Paths
  <1>3. n < Len(x) /\ Len(x) \in Nat /\ n > 0 /\ \A i \in 1..n : x[i] = r[i]
    <2>1. n <= Len(x) /\ Len(x) \in Nat /\ \A i \in 1..n : x[i] = r[i]
      BY <1>1, <1>2 DEF Below, Paths
    <2>2. n # Len(x)
      BY <1>1, <1>2, <2>1, SeqEqual DEF Paths
    <2>3. n # 0
      BY <1>1, <1>2 DEF Paths
    <2> QED BY <2>1, <2>2, <2>3
  <1>4. Upto(x, n) = r
    <2>1. /\ Upto(x, n) \in Paths /\ Len(Upto(x, n)) = n
          /\ \A i \in 1..n : Upto(x, n)[i] = x[i]
      <3>1. \A i \in 1..n : x[i] \in Nat \ {0}
        BY <1>1, <1>3 DEF Paths
      <3> QED BY <3>1, SubSeqProperties DEF Upto, Paths
    <2> QED BY <1>1, <1>2, <1>3, <2>1, SeqEqual DEF Paths
  <1>5. x # <<>>
    BY <1>3
  <1>6. n <= Len(Above(x))
    <2>1. n \in 0..(Len(x) - 1)
      BY <1>3
    <2> QED BY <1>1, <1>4, <1>5, <2>1, AboveIs
  <1>7. Above(x) # Root
    BY <1>3, <1>6 DEF Root
  <1>8. Above(x) \in Ops /\ Below(x, Above(x))
    BY <1>5, <1>7, AboveIs
  <1>9. Above(x) \in Paths
    BY <1>8, OpIs
  <1>10. Below(Above(x), r)
    <2>1. PICK a \in Paths : a = Above(x)
      BY <1>9
    <2>2. Below(x, a) /\ n <= Len(a)
      BY <1>6, <1>8, <2>1
    <2>3. Below(a, r)
      BY <1>2, <1>3, <2>2 DEF Below, Paths
    <2> QED BY <2>1, <2>3
  <1> QED BY <1>7, <1>8, <1>10

\* An op below that of a sum is below the sum: what is assigned to has no op of
\* its own.
LEMMA BelowTree ==
  ASSUME IsTree(sub), NEW t \in Terms, Kind(t) = "add", NEW x \in Ops,
         Below(x, OpOf(t)), x # OpOf(t)
  PROVE  Below(x, t) /\ x # t
  <1>1. x \in Terms /\ ~ sub[x].shared
    BY OpIs
  <1>2. CASE ~ sub[t].shared
    BY <1>2 DEF OpOf
  <1>3. CASE sub[t].shared
    <2>1. PICK o \in Terms : o = OpOf(t) /\ o \in Paths
      BY OpOfIs
    <2>2. sub[o].size = 2 /\ t = Append(o, 2)
      BY <1>3, <2>1, OpOfIs
    <2>3. Append(o, 1) \in Terms /\ Append(o, 2) \in Terms
          /\ (Below(x, Append(o, 1)) \/ Below(x, Append(o, 2)))
      BY <1>1, <2>1, <2>2, BelowSum
    <2>4. ~ Below(x, Append(o, 1))
      <3>1. PICK l \in Terms : l = Append(o, 1)
        BY <2>3
      <3>2. sub[l].shared
        BY <1>3, <2>1, <3>1 DEF IsTree, Terms, OpOf
      <3>3. l[Len(l)] = 1
        <4>1. 1 \in Nat \ {0}
          OBVIOUS
        <4> QED BY <2>1, <3>1, <4>1, KidPath
      <3>4. sub[l].kind = "lexical"
        BY <3>2, <3>3 DEF IsTree, Terms
      <3>5. sub[l].size = 0
        BY <3>4 DEF IsTree, Terms, Variables
      <3>6. Below(x, l) => x = l
        BY <1>1, <3>5, BelowLeaf
      <3> QED BY <1>1, <3>1, <3>2, <3>6
    <2> QED BY <1>1, <1>3, <2>2, <2>3, <2>4
  <1> QED BY <1>2, <1>3

-----------------------------------------------------------------------------
(* The end of a sub in which every tree could be compiled *)

AtEnd == pc = "done" /\ failed = {} /\ ~ TargetCalled

\* The trees that a function runs at the end
LEMMA RunsAtEnd ==
  ASSUME IInv, KeptInv, AtEnd, NEW f \in Made, NEW r \in Listed(ran[f])
  PROVE  /\ f \in 1..Len(ran) /\ r \in Ops /\ r \in Terms /\ r \in Paths /\ OpOf(r) = r
         /\ IsTreeOfOps(r) /\ Kind(r) # "statement" /\ Kind(r) # "add"
         /\ Below(r, PlaceOf(f))
         /\ up[r] # Above(r)
         /\ \A g \in Made : r # PlaceOf(g)
  <1>1. f \in 1..Len(ran) /\ IsTree(sub)
    BY MadeIsOver DEF IInv
  <1>2. r \in Ops
    BY <1>1, RunsOps
  <1>3. r \in Terms /\ r \in Paths /\ OpOf(r) = r
    BY <1>1, <1>2, OpIs
  <1>4. IsTreeOfOps(r) /\ Kind(r) # "statement" /\ Below(r, PlaceOf(f))
    BY <1>1 DEF KeptInv, RunsWhole
  <1>5. Kind(r) # "add"
    BY <1>4 DEF IsTreeOfOps
  <1>6. up[r] # Above(r)
    <2>1. log = <<>> /\ (up[r] # Above(r) \/ \E i \in 1..Len(log) : log[i] = Detach(r))
      BY <1>1 DEF KeptInv, LogWhole, AtEnd
    <2> QED BY <2>1
  <1>7. r \notin Targets
    BY <1>1 DEF AtEnd, TargetCalled
  <1>8. ASSUME NEW g \in Made
        PROVE  r # PlaceOf(g)
    <2>1. TreeOf(g) \in Terms /\ Kind(TreeOf(g)) = "add"
      BY PlaceIsOp DEF KeptInv
    <2>2. CASE sub[TreeOf(g)].shared
      BY <1>1, <1>7, <2>1, <2>2, OpOfIs DEF PlaceOf
    <2>3. CASE ~ sub[TreeOf(g)].shared
      BY <1>5, <2>1, <2>3 DEF PlaceOf, OpOf
    <2> QED BY <2>2, <2>3
  <1> QED BY <1>1, <1>2, <1>3, <1>4, <1>5, <1>6, <1>8

\* The place of a function below that of another is in a tree the other one runs.
LEMMA PlaceInRun ==
  ASSUME IInv, KeptInv, AtEnd, NEW f \in Made, NEW g \in Made,
         Below(PlaceOf(f), PlaceOf(g)), PlaceOf(f) # PlaceOf(g)
  PROVE  \E r \in Listed(ran[g]) : Below(PlaceOf(f), r)
  <1>1. PICK p, t : p = TreeOf(f) /\ t = TreeOf(g)
    OBVIOUS
  <1>2. /\ p \in Terms /\ p \in Paths /\ Kind(p) = "add" /\ HasOp(p)
        /\ t \in Terms /\ t \in Paths /\ Kind(t) = "add"
        /\ PlaceOf(f) = OpOf(p) /\ PlaceOf(g) = OpOf(t) /\ OpOf(p) \in Ops /\ OpOf(p) \in Paths
        /\ IsTree(sub) /\ Below(p, OpOf(p))
    BY <1>1, PlaceIsOp DEF KeptInv, PlaceOf, IInv
  <1>3. CoveredBelow(t, g) /\ p \in Additions(f)
    BY <1>1, <1>2 DEF KeptInv, Compiled, CoveredBelow
  <1>4. Below(OpOf(p), t)
    BY <1>2, BelowTree
  <1>5. Below(p, t)
    BY <1>2, <1>4, BelowBelow
  <1>6. Covered(p, g)
    BY <1>2, <1>3, <1>5 DEF CoveredBelow, Constants
  <1>7. ~ Worked(p, g)
    <2>1. p \notin Additions(g)
      <3>1. f # g /\ f \in 1..Len(work) /\ g \in 1..Len(work)
        BY MadeIsOver
      <3> QED BY <1>3, <3>1 DEF KeptInv, AddedOnce
    <2> QED BY <1>2, <2>1 DEF Worked, Does, Additions
  <1>8. PICK r \in Listed(ran[g]) : Below(p, r)
    BY <1>2, <1>6, <1>7 DEF Covered, Constants
  <1>9. r \in Terms /\ r # p
    BY <1>2, RunsAtEnd
  <1>10. Below(OpOf(p), r)
    BY <1>2, <1>8, <1>9, OpOfBelow
  <1> QED BY <1>2, <1>8, <1>10

\* An op that each function it is in the tree of runs
KeptOp(x) == \A g \in Made : Below(x, PlaceOf(g)) => \E r \in Listed(ran[g]) : Below(x, r)

\* So is the op above it, if it is not itself what the function runs.
LEMMA AboveKept ==
  ASSUME IInv, KeptInv, AtEnd, NEW x \in Ops, Above(x) # Root,
         \A g \in Made : Below(x, PlaceOf(g)) /\ Below(Above(x), PlaceOf(g)) =>
           \E r \in Listed(ran[g]) : Below(x, r) /\ x # r
  PROVE  KeptOp(Above(x)) /\ Above(x) \in Ops /\ Len(Above(x)) < Len(x)
  <1>1. IsTree(sub) /\ x \in Terms /\ x \in Paths /\ x # <<>>
    BY OpIs DEF IInv
  <1>2. Above(x) \in Ops /\ Below(x, Above(x)) /\ Len(Above(x)) < Len(x)
    BY <1>1, AboveIs
  <1>3. Above(x) \in Paths
    BY <1>1, <1>2, OpIs
  <1>4. ASSUME NEW g \in Made, Below(Above(x), PlaceOf(g))
        PROVE  \E r \in Listed(ran[g]) : Below(Above(x), r)
    <2>1. PlaceOf(g) \in Paths
      BY PlaceIsOp DEF KeptInv
    <2>2. Below(x, PlaceOf(g))
      BY <1>1, <1>2, <1>3, <1>4, <2>1, BelowBelow
    <2>3. PICK r \in Listed(ran[g]) : Below(x, r) /\ x # r
      BY <1>4, <2>2
    <2>4. r \in Ops /\ Kind(r) # "statement"
      BY RunsAtEnd
    <2> QED BY <1>1, <2>3, <2>4, AboveBelow
  <1> QED BY <1>2, <1>4 DEF KeptOp

\* So is the op above the place of a function.
LEMMA PlaceKept ==
  ASSUME IInv, KeptInv, AtEnd, NEW f \in Made, Above(PlaceOf(f)) # Root
  PROVE  /\ KeptOp(Above(PlaceOf(f))) /\ Above(PlaceOf(f)) \in Ops
         /\ Len(Above(PlaceOf(f))) < Len(PlaceOf(f))
  <1>1. PICK x : x = PlaceOf(f)
    OBVIOUS
  <1>2. x \in Ops /\ x \in Terms /\ x \in Paths /\ x # <<>> /\ IsTree(sub)
    BY <1>1, PlaceIsOp, OpsAreTerms DEF KeptInv, IInv
  <1>3. Above(x) \in Ops /\ Len(Above(x)) < Len(x)
    BY <1>1, <1>2, AboveIs
  <1>4. ASSUME NEW g \in Made, Below(x, PlaceOf(g)), Below(Above(x), PlaceOf(g))
        PROVE  \E r \in Listed(ran[g]) : Below(x, r) /\ x # r
    <2>1. x # PlaceOf(g)
      <3>1. Len(x) \in Nat /\ Len(Above(x)) \in Nat
        BY <1>2, <1>3, OpsAreTerms, TermsArePaths DEF Paths
      <3> QED BY <1>3, <1>4, <3>1 DEF Below
    <2>2. PICK r \in Listed(ran[g]) : Below(x, r)
      BY <1>1, <1>4, <2>1, PlaceInRun
    <2> QED BY <1>1, <2>2, RunsAtEnd
  <1> QED BY <1>1, <1>2, <1>4, AboveKept

\* What is above x in the program is the root, or an op that is kept, nearer to it.
KeptOver(a, x) == a = Root \/ (a \in Ops /\ KeptOp(a) /\ Len(a) < Len(x))

\* An op that is kept stands in the program, or is run by a JIT op that stands there.
LEMMA KeptStep ==
  ASSUME IInv, KeptInv, AtEnd, NEW x \in Ops, KeptOp(x)
  PROVE  \/ up[x] = Above(x) /\ KeptOver(Above(x), x)
         \/ \E f \in Made :
              /\ up[x] = JitOp(f) /\ JitOp(f) \in DOMAIN up /\ up[JitOp(f)] = Above(PlaceOf(f))
              /\ KeptOver(Above(PlaceOf(f)), x)
  <1>1. IsTree(sub) /\ x \in Paths /\ x \in Terms
    BY OpIs DEF IInv
  <1>2. CASE up[x] = Above(x)
    <2>1. ASSUME NEW g \in Made, Below(x, PlaceOf(g)), Below(Above(x), PlaceOf(g))
          PROVE  \E r \in Listed(ran[g]) : Below(x, r) /\ x # r
      <3>1. PICK r \in Listed(ran[g]) : Below(x, r)
        BY <2>1 DEF KeptOp
      <3> QED BY <1>2, <3>1, RunsAtEnd
    <2>2. Above(x) = Root \/ (KeptOp(Above(x)) /\ Above(x) \in Ops /\ Len(Above(x)) < Len(x))
      BY <2>1, AboveKept
    <2> QED BY <1>2, <2>2 DEF KeptOver
  <1>3. ASSUME NEW f \in Made, JitOp(f) \in DOMAIN up, up[x] = JitOp(f), x \in Listed(ran[f])
        PROVE  /\ up[JitOp(f)] = Above(PlaceOf(f))
               /\ KeptOver(Above(PlaceOf(f)), x)
    <2>1. up[JitOp(f)] = Above(PlaceOf(f))
      <3>1. JitOp(f) \notin Ops
        BY <1>1, JitOpIsNew
      <3>2. PICK g \in Made : JitOp(f) = JitOp(g) /\ up[JitOp(f)] = Above(PlaceOf(g))
        BY <1>3, <3>1 DEF KeptInv, Placed
      <3> QED BY <3>2, JitOpsDiffer
    <2>2. Len(PlaceOf(f)) <= Len(x)
      BY <1>3, RunsAtEnd DEF Below
    <2>3. ASSUME Above(PlaceOf(f)) # Root
          PROVE  Len(Above(PlaceOf(f))) < Len(x)
      <3>1. Above(PlaceOf(f)) \in Ops /\ Len(Above(PlaceOf(f))) < Len(PlaceOf(f))
        BY <2>3, PlaceKept
      <3>2. PICK a, b : a = Above(PlaceOf(f)) /\ b = PlaceOf(f)
        OBVIOUS
      <3>3. a \in Paths /\ b \in Paths
        BY <1>1, <3>1, <3>2, OpsAreTerms, TermsArePaths, PlaceIsOp DEF KeptInv
      <3>4. Len(a) \in Nat /\ Len(b) \in Nat /\ Len(x) \in Nat
        BY <1>1, <3>3 DEF Paths
      <3> QED BY <2>2, <3>1, <3>2, <3>4
    <2>4. Above(PlaceOf(f)) = Root \/ (KeptOp(Above(PlaceOf(f))) /\ Above(PlaceOf(f)) \in Ops)
      BY PlaceKept
    <2> QED BY <2>1, <2>3, <2>4 DEF KeptOver
  <1>4. ASSUME NEW f \in Made, up[x] = Freed, x = PlaceOf(f)
        PROVE  FALSE
    <2>1. Below(x, x)
      BY <1>1, BelowItself
    <2>2. PICK r \in Listed(ran[f]) : Below(x, r)
      BY <1>4, <2>1 DEF KeptOp
    <2>3. r \in Paths /\ Below(r, x) /\ r # x
      BY <1>4, RunsAtEnd
    <2> QED BY <1>1, <2>2, <2>3, BelowBoth
  <1>5. ASSUME NEW f \in Made, NEW i \in 1..Len(log)
        PROVE  FALSE
    BY <1>5 DEF KeptInv, LogWhole, AtEnd
  <1>6. \/ up[x] = Above(x)
        \/ \E f \in Made : \E i \in 1..Len(log) : log[i].by = JitOp(f)
        \/ \E f \in Made : JitOp(f) \in DOMAIN up /\ up[x] = JitOp(f) /\ x \in Listed(ran[f])
        \/ \E f \in Made : up[x] = Freed /\ x = PlaceOf(f)
    BY DEF KeptInv, Placed, AtEnd
  <1> QED BY <1>2, <1>3, <1>4, <1>5, <1>6

\* An op that is kept stands in the program: of those that did not, the one highest
\* in the tree would have another above it.
LEMMA KeptIsInProgram ==
  ASSUME IInv, KeptInv, AtEnd
  PROVE  /\ \A x \in Ops : KeptOp(x) => InProgram(x)
         /\ \A f \in Made : InProgram(JitOp(f)) /\ JitOp(f) \in DOMAIN up
  <1>1. /\ IsTree(sub) /\ Ops \subseteq DOMAIN up
        /\ \A id \in DOMAIN up : up[id] \in DOMAIN up \union Ended
    BY DEF IInv, TypeOK, Ended
  <1>2. PICK f : /\ \A id : InProgram(id) <=> f[id] = Root
                 /\ f[Root] = Root
                 /\ \A id \in DOMAIN up \ Ended : f[id] = f[up[id]]
    BY <1>1, ProgramEnds
  <1>3. ASSUME NEW op \in Ops
        PROVE  op \notin Ended /\ Len(op) \in Nat
    <2>1. op \in Paths /\ op # <<>>
      BY <1>1, OpIs
    <2>2. Loose \notin Paths /\ Freed \notin Paths
      BY NoPlaces
    <2> QED BY <2>1, <2>2 DEF Ended, Root, Paths
  <1>4. ASSUME NEW g \in Made, JitOp(g) \in DOMAIN up
        PROVE  f[JitOp(g)] = f[up[JitOp(g)]]
    <2>1. JitOp(g) \notin Ended
      BY PlacesDiffer DEF Ended
    <2> QED BY <1>2, <1>4, <2>1
  <1> DEFINE lost == {x \in Ops : KeptOp(x) /\ f[x] # Root}
             sizes == {n \in Nat : \E x \in lost : n = Len(x)}
  <1>5. ASSUME NEW c \in lost
        PROVE  FALSE
    <2>1. sizes \subseteq Nat /\ Len(c) \in sizes
      BY <1>3
    <2>2. PICK n \in sizes : \A m \in sizes : <<m, n>> \notin OpToRel(<, Nat)
      BY <2>1, NatLessThanWellFounded, WFMin
    <2>3. PICK x \in lost : n = Len(x)
      OBVIOUS
    <2>4. ASSUME NEW a \in Ops, KeptOp(a), Len(a) < Len(x)
          PROVE  f[a] = Root
      <3>1. Len(a) \in Nat /\ Len(x) \in Nat
        BY <1>3
      <3>2. <<Len(a), n>> \in OpToRel(<, Nat)
        BY <2>3, <2>4, <3>1 DEF OpToRel
      <3>3. a \notin lost
        BY <2>2, <3>1, <3>2
      <3> QED BY <2>4, <3>3
    <2>5. x \in Ops /\ KeptOp(x) /\ f[x] # Root /\ f[x] = f[up[x]]
      BY <1>1, <1>2, <1>3
    <2>6. CASE up[x] = Above(x) /\ KeptOver(Above(x), x)
      BY <1>2, <2>4, <2>5, <2>6 DEF KeptOver
    <2>7. ASSUME NEW g \in Made,
                 up[x] = JitOp(g), JitOp(g) \in DOMAIN up, up[JitOp(g)] = Above(PlaceOf(g)),
                 KeptOver(Above(PlaceOf(g)), x)
          PROVE  FALSE
      <3>1. f[x] = f[Above(PlaceOf(g))]
        BY <1>4, <2>5, <2>7
      <3> QED BY <1>2, <2>4, <2>5, <2>7, <3>1 DEF KeptOver
    <2> QED BY <2>5, <2>6, <2>7, KeptStep
  <1>6. \A x \in Ops : KeptOp(x) => f[x] = Root
    BY <1>5
  <1>7. ASSUME NEW g \in Made
        PROVE  f[JitOp(g)] = Root /\ JitOp(g) \in DOMAIN up
    <2>1. JitOp(g) \in DOMAIN up
      BY DEF KeptInv, LogWhole, AtEnd
    <2>2. PICK h \in Made : JitOp(g) = JitOp(h) /\ up[JitOp(g)] = Above(PlaceOf(h))
      BY <1>1, <2>1, JitOpIsNew DEF KeptInv, Placed
    <2>3. f[JitOp(g)] = f[Above(PlaceOf(h))]
      BY <1>4, <2>1, <2>2
    <2>4. Above(PlaceOf(h)) = Root \/ (KeptOp(Above(PlaceOf(h))) /\ Above(PlaceOf(h)) \in Ops)
      BY PlaceKept
    <2> QED BY <1>2, <1>6, <2>1, <2>3, <2>4
  <1> QED BY <1>2, <1>6, <1>7

\* An instruction for a term of its tree is in the function, or in one for part of it.
LEMMA FoundSomewhere ==
  ASSUME IInv, KeptInv, AtEnd, NEW g \in Made, NEW p, Does(work[g], p)
  PROVE  \/ Does(fns[g], p)
         \/ \E h \in Made : h # g /\ Below(PlaceOf(h), PlaceOf(g)) /\ Does(fns[h], p)
  <1>1. PICK n \in Listed(work[g]) :
               n.term = p /\ n.what = (IF Kind(p) = "add" THEN "fadd" ELSE "load")
    BY DEF Does
  <1>2. NotLost /\ g \in 1..Len(work)
    BY MadeIsOver DEF KeptInv, AtEnd
  <1>3. n \in Listed(fns[g]) \/ \E h \in 1..Len(fns) : PartOf(h, g) /\ n \in Listed(fns[h])
    BY <1>2 DEF NotLost
  <1>4. CASE n \in Listed(fns[g])
    BY <1>1, <1>4 DEF Does
  <1>5. ASSUME NEW h \in 1..Len(fns), PartOf(h, g), n \in Listed(fns[h])
        PROVE  \/ Does(fns[g], p)
               \/ \E k \in Made : k # g /\ Below(PlaceOf(k), PlaceOf(g)) /\ Does(fns[k], p)
    <2>1. h \in Made /\ Below(PlaceOf(h), PlaceOf(g))
      BY <1>5 DEF PartOf
    <2>2. Does(fns[h], p)
      BY <1>1, <1>5 DEF Does
    <2> QED BY <2>1, <2>2
  <1> QED BY <1>3, <1>4, <1>5

\* What becomes of an op a function that became a JIT op is made for and does not run
LEMMA DoneByFunction ==
  ASSUME IInv, KeptInv, AtEnd, NEW x \in Ops, NEW g \in Made, Below(x, PlaceOf(g)),
         ~ \E r \in Listed(ran[g]) : Below(x, r)
  PROVE  Remains(x)
  <1>1. PICK t : t = TreeOf(g)
    OBVIOUS
  <1>2. t \in Terms /\ Kind(t) = "add" /\ PlaceOf(g) = OpOf(t) /\ CoveredBelow(t, g)
    BY <1>1 DEF KeptInv, Compiled, PlaceOf
  <1>3. IsTree(sub) /\ x \in Terms /\ HasOp(x) /\ OpOf(x) = x
    BY OpIs DEF IInv
  <1>4. Made = Standing
    BY KeptIsInProgram DEF Standing
  <1>5. CASE x = OpOf(t) /\ sub[t].shared
    <2>1. x \in Targets
      BY <1>2, <1>5 DEF Targets
    <2> QED BY <1>2, <1>4, <1>5, <2>1 DEF Remains, Unassigned
  <1>6. CASE ~ (x = OpOf(t) /\ sub[t].shared)
    <2>1. Does(work[g], x) \/ (Kind(x) \in Constants /\ Does(work[g], Upto(x, Len(x) - 1)))
      <3>1. CASE x = OpOf(t)
        <4>1. x = t /\ t \in Additions(g)
          BY <1>2, <1>6, <3>1 DEF CoveredBelow, OpOf
        <4> QED BY <1>2, <4>1 DEF Does, Additions
      <3>2. CASE x # OpOf(t)
        <4>1. Below(x, t) /\ x # t
          BY <1>2, <1>3, <3>2, BelowTree
        <4>2. Covered(x, g)
          BY <1>2, <1>3, <4>1 DEF CoveredBelow
        <4> QED BY <4>2 DEF Covered, Worked
      <3> QED BY <3>1, <3>2
    <2>2. ASSUME NEW p, Does(work[g], p), p = x \/ (Kind(x) \in Constants /\ p = Upto(x, Len(x) - 1))
          PROVE  Remains(x)
      <3>1. DoesOp(work[g], x)
        BY <2>2 DEF DoesOp
      <3>2. CASE Does(fns[g], p)
        <4>1. DoesOp(fns[g], x)
          BY <2>2, <3>2 DEF DoesOp
        <4> QED BY <1>4, <4>1 DEF Remains, Works
      <3>3. ASSUME NEW h \in Made, h # g, Below(PlaceOf(h), PlaceOf(g)), Does(fns[h], p)
            PROVE  Remains(x)
        <4>1. DoesOp(fns[h], x)
          BY <2>2, <3>3 DEF DoesOp
        <4> QED BY <1>4, <3>1, <3>3, <4>1 DEF Remains, Strayed
      <3> QED BY <2>2, <3>2, <3>3, FoundSomewhere
    <2> QED BY <2>1, <2>2
  <1> QED BY <1>5, <1>6

LEMMA CodeKeptHere ==
  ASSUME IInv, KeptInv
  PROVE  CodeKept
  <1> SUFFICES ASSUME AtEnd, NEW id \in Ops
               PROVE  Remains(id)
    BY DEF CodeKept, AtEnd
  <1>1. CASE KeptOp(id)
    BY <1>1, KeptIsInProgram DEF Remains, Works
  <1>2. CASE ~ KeptOp(id)
    <2>1. PICK g \in Made : Below(id, PlaceOf(g)) /\ ~ \E r \in Listed(ran[g]) : Below(id, r)
      BY <1>2 DEF KeptOp
    <2> QED BY <2>1, DoneByFunction
  <1> QED BY <1>1, <1>2

\* The edits pj_emit.cpp logs lose nothing of the sub: when every tree could be
\* compiled, and no function calls an assignment by OPpTARGET_MY, each op still stands
\* in the tree once the log is applied, or the function of a JIT op that stands there
\* holds the instructions for it, however sums and other ops are nested.  But for two
\* cases: the instructions are in a function for part of the same tree, for the builder
\* is left there (pj_emit.cpp:305, :416), or the op is an assignment by OPpTARGET_MY
\* whose sum is compiled and not assigned (pj_emit.cpp:593).
THEOREM CodeKeptCorrect == Spec => []CodeKept
  <1>1. IInv /\ KeptInv => CodeKept
    BY CodeKeptHere
  <1> QED BY <1>1, EmitInvariant, KeptInvariant, PTL
=============================================================================
