-------------------------- MODULE EmitLog_proofs --------------------------
(***************************************************************************)
(* That the edits the Emitters of Emit log can be carried out one after    *)
(* the other, for every value of Subs.                                     *)
(***************************************************************************)
EXTENDS Emit_proofs

-----------------------------------------------------------------------------
(* Paths that are apart *)

LEMMA BelowBoth ==
  ASSUME NEW p \in Paths, NEW q \in Paths, Below(p, q), Below(q, p)
  PROVE  p = q
  <1>1. Len(p) = Len(q) /\ \A i \in 1..Len(p) : p[i] = q[i]
    BY DEF Below, Paths
  <1> QED BY <1>1, SeqEqual DEF Paths

\* What has two terms above it has one of them above the other.
LEMMA BelowCommon ==
  ASSUME NEW p \in Paths, NEW q \in Paths, NEW r \in Paths, Below(r, p), Below(r, q)
  PROVE  Below(p, q) \/ Below(q, p)
  <1>1. /\ Len(p) \in Nat /\ Len(q) \in Nat /\ Len(p) <= Len(r) /\ Len(q) <= Len(r)
        /\ \A i \in 1..Len(p) : r[i] = p[i]
        /\ \A i \in 1..Len(q) : r[i] = q[i]
    BY DEF Below, Paths
  <1>2. CASE Len(p) <= Len(q)
    BY <1>1, <1>2 DEF Below
  <1>3. CASE Len(q) <= Len(p)
    BY <1>1, <1>3 DEF Below
  <1> QED BY <1>1, <1>2, <1>3

\* What is apart from a term is apart from what is below it.
LEMMA ApartBelow ==
  ASSUME NEW p \in Paths, NEW q \in Paths, NEW r \in Paths, Apart(p, q), Below(r, q)
  PROVE  Apart(p, r) /\ Apart(r, p)
  <1>1. ~ Below(p, r)
    BY BelowBelow DEF Apart
  <1>2. ~ Below(r, p)
    BY BelowCommon DEF Apart
  <1> QED BY <1>1, <1>2 DEF Apart

LEMMA SiblingsApart ==
  ASSUME NEW p \in Paths, NEW i \in Nat \ {0}, NEW j \in Nat \ {0}, i # j
  PROVE  Apart(Append(p, i), Append(p, j)) /\ Append(p, i) # p
  <1> DEFINE q == Append(p, i)
             r == Append(p, j)
  <1>1. /\ q \in Paths /\ r \in Paths /\ Len(q) = Len(p) + 1 /\ Len(r) = Len(p) + 1
        /\ q[Len(p) + 1] = i /\ r[Len(p) + 1] = j /\ Len(p) \in Nat
    BY KidPath DEF Paths
  <1> HIDE DEF q, r
  <1>2. Len(p) + 1 \in 1..Len(q) /\ Len(p) + 1 \in 1..Len(r)
    BY <1>1
  <1>3. Apart(q, r)
    BY <1>1, <1>2 DEF Apart, Below
  <1>4. q # p
    BY <1>1
  <1> QED BY <1>3, <1>4 DEF q, r

LEMMA SameKid ==
  ASSUME NEW p \in Paths, NEW i \in Nat \ {0}, NEW q \in Paths, NEW j \in Nat \ {0},
         Append(p, i) = Append(q, j)
  PROVE  p = q /\ i = j
  <1> DEFINE r == Append(p, i)
             t == Append(q, j)
  <1>1. /\ Len(r) = Len(p) + 1 /\ r[Len(p) + 1] = i /\ \A k \in 1..Len(p) : r[k] = p[k]
        /\ Len(t) = Len(q) + 1 /\ t[Len(q) + 1] = j /\ \A k \in 1..Len(q) : t[k] = q[k]
    BY KidPath
  <1>2. r = t
    OBVIOUS
  <1> HIDE DEF r, t
  <1>3. Len(p) \in Nat /\ Len(q) \in Nat /\ Len(p) = Len(q)
    BY <1>1, <1>2 DEF Paths
  <1>4. \A k \in 1..Len(p) : p[k] = q[k]
    BY <1>1, <1>2, <1>3
  <1> QED BY <1>1, <1>2, <1>3, <1>4, SeqEqual DEF Paths

LEMMA KidNotTerm ==
  ASSUME NEW p \in Paths, NEW i \in Nat \ {0}
  PROVE  Append(p, i) # p /\ ~ Below(p, Append(p, i))
  <1>1. Len(Append(p, i)) = Len(p) + 1 /\ Len(p) \in Nat
    BY KidPath DEF Paths
  <1> QED BY <1>1 DEF Below

\* The term above one that is below another is still below it.
LEMMA OverBelow ==
  ASSUME NEW p \in Paths, NEW q \in Paths, Below(p, q), p # q
  PROVE  Len(p) > 0 /\ Upto(p, Len(p) - 1) \in Paths /\ Below(Upto(p, Len(p) - 1), q)
  <1>1. Len(p) \in Nat /\ Len(q) \in Nat /\ Len(q) <= Len(p) /\ \A i \in 1..Len(q) : p[i] = q[i]
    BY DEF Below, Paths
  <1>2. Len(q) # Len(p)
    BY <1>1 DEF Paths
  <1>3. Len(p) - 1 \in Nat /\ Len(p) > 0 /\ Len(q) <= Len(p) - 1
    BY <1>1, <1>2
  <1>4. PICK n \in Nat : n = Len(p) - 1
    BY <1>3
  <1>5. /\ Upto(p, n) \in Paths /\ Len(Upto(p, n)) = n
        /\ \A i \in 1..n : Upto(p, n)[i] = p[i]
    <2>1. \A i \in 1..n : p[i] \in Nat \ {0}
      BY <1>4 DEF Paths
    <2> QED BY <2>1, SubSeqProperties DEF Upto, Paths
  <1>6. Below(Upto(p, n), q)
    BY <1>1, <1>3, <1>4, <1>5 DEF Below
  <1> QED BY <1>3, <1>4, <1>5, <1>6

LEMMA BelowOver ==
  ASSUME NEW p \in Paths, Len(p) > 0
  PROVE  Below(p, Upto(p, Len(p) - 1)) /\ Upto(p, Len(p) - 1) # p
         /\ Upto(p, Len(p) - 1) \in Paths
  <1>1. PICK n \in Nat : n = Len(p) - 1
    BY DEF Paths
  <1>2. /\ Upto(p, n) \in Paths /\ Len(Upto(p, n)) = n
        /\ \A i \in 1..n : Upto(p, n)[i] = p[i]
    <2>1. \A i \in 1..n : p[i] \in Nat \ {0}
      BY <1>1 DEF Paths
    <2> QED BY <2>1, SubSeqProperties DEF Upto, Paths
  <1>3. Below(p, Upto(p, n)) /\ n <= Len(p) /\ n # Len(p)
    BY <1>1, <1>2 DEF Below, Paths
  <1> QED BY <1>1, <1>2, <1>3

\* The op of a term is its own or that of the term above.
LEMMA OpOfIs ==
  ASSUME IsTree(sub), NEW p \in Terms
  PROVE  /\ OpOf(p) \in Terms /\ OpOf(p) \in Paths /\ Below(p, OpOf(p))
         /\ sub[p].shared => /\ OpOf(p) \in Targets /\ OpOf(p) # p /\ ~ sub[OpOf(p)].shared
                             /\ Kind(OpOf(p)) = "op" /\ sub[OpOf(p)].size = 2
                             /\ Kind(p) \in {"lexical", "add", "op"}
                             /\ Kind(p) # "lexical" => p = Append(OpOf(p), 2)
         /\ ~ sub[p].shared => OpOf(p) = p
  <1>1. p \in Paths
    BY TermsArePaths
  <1>2. CASE ~ sub[p].shared
    BY <1>1, <1>2, BelowItself DEF OpOf
  <1>3. CASE sub[p].shared
    <2>1. p # <<>>
      <3>1. Kind(p) # "candidates"
        BY <1>3 DEF IsTree, Terms, Kind
      <3> QED BY <3>1 DEF IsTree, Terms, Kind
    <2>2. PICK n \in Nat : n = Len(p) - 1 /\ n \in 0..(Len(p) - 1) /\ n + 1 = Len(p)
      BY <1>1, <2>1 DEF Paths
    <2>3. Upto(p, n) \in Terms
      BY <2>2 DEF IsTree, Terms
    <2>4. OpOf(p) = Upto(p, n)
      BY <1>3, <2>2 DEF OpOf
    <2>5. Below(p, Upto(p, n)) /\ Upto(p, n) # p
      BY <1>1, <2>2, BelowOver
    <2>6. OpOf(p) \in Targets
      BY <1>3 DEF Targets
    <2>7. /\ sub[Upto(p, n)].kind = "op" /\ sub[Upto(p, n)].size = 2 /\ ~ sub[Upto(p, n)].shared
          /\ \/ p[Len(p)] = 1 /\ sub[p].kind = "lexical"
             \/ p[Len(p)] = 2 /\ sub[p].kind \in {"add", "op"}
      BY <1>3, <2>2 DEF IsTree, Terms
    <2>8. p[Len(p)] = 2 => p = Append(Upto(p, n), 2)
      <3>1. /\ Upto(p, n) \in Paths /\ Len(Upto(p, n)) = n
            /\ \A i \in 1..n : Upto(p, n)[i] = p[i]
        <4>1. \A i \in 1..n : p[i] \in Nat \ {0}
          BY <1>1, <2>2 DEF Paths
        <4> QED BY <4>1, SubSeqProperties DEF Upto, Paths
      <3> DEFINE q == Append(Upto(p, n), 2)
      <3>2. /\ q \in Paths /\ Len(q) = n + 1 /\ q[n + 1] = 2
            /\ \A i \in 1..n : q[i] = p[i]
        BY <3>1, KidPath
      <3> HIDE DEF q
      <3>3. ASSUME p[Len(p)] = 2
            PROVE  p = q
        <4>1. \A i \in 1..Len(p) : p[i] = q[i]
          BY <2>2, <3>2, <3>3
        <4> QED BY <1>1, <2>2, <3>2, <4>1, SeqEqual DEF Paths
      <3> QED BY <3>3 DEF q
    <2> QED BY <1>3, <2>3, <2>4, <2>5, <2>6, <2>7, <2>8, TermsArePaths DEF Kind
  <1> QED BY <1>2, <1>3

LEMMA OpOfBelow ==
  ASSUME IsTree(sub), NEW p \in Terms, NEW t \in Terms, Below(p, t), p # t
  PROVE  Below(OpOf(p), t)
  <1>1. p \in Paths /\ t \in Paths
    BY TermsArePaths
  <1>2. Below(Upto(p, Len(p) - 1), t)
    BY <1>1, OverBelow
  <1> QED BY <1>2 DEF OpOf

\* Terms side by side are apart, with the op that goes with a term in front.
LEMMA KidsApart ==
  ASSUME IsTree(sub), NEW p \in Terms
  PROVE  /\ \A k \in 1..sub[p].size : Append(p, k) # p /\ Below(Append(p, k), p)
         /\ \A k, l \in 1..sub[p].size : k < l => Apart(CutFor(Append(p, k)), Append(p, l))
  <1>1. p \in Paths /\ sub[p].size \in Nat
    BY TermsArePaths
  <1>2. ASSUME NEW k \in 1..sub[p].size
        PROVE  Append(p, k) # p /\ Below(Append(p, k), p)
    BY <1>1, <1>2, KidTerm, KidNotTerm
  <1>3. ASSUME NEW k \in 1..sub[p].size, NEW l \in 1..sub[p].size, k < l
        PROVE  Apart(CutFor(Append(p, k)), Append(p, l))
    <2> DEFINE q == Append(p, k)
    <2>1. q \in Terms /\ k \in Nat \ {0} /\ l \in Nat \ {0}
      BY <1>1, KidTerm
    <2>2. CutFor(q) = q
      <3>1. CASE sub[q].shared /\ Kind(q) = "add"
        <4>1. q = Append(OpOf(q), 2) /\ OpOf(q) \in Paths /\ sub[OpOf(q)].size = 2
          BY <2>1, <3>1, OpOfIs
        <4>2. OpOf(q) = p /\ k = 2
          <5>1. PICK o \in Paths : o = OpOf(q) /\ q = Append(o, 2)
            BY <4>1
          <5>2. Append(p, k) = Append(o, 2) /\ 2 \in Nat \ {0}
            BY <5>1
          <5>3. p = o /\ k = 2
            BY <1>1, <2>1, <5>2, SameKid
          <5> QED BY <5>1, <5>3
        <4> QED BY <1>1, <1>3, <4>1, <4>2
      <3>2. CASE ~ sub[q].shared
        BY <2>1, <3>2, OpOfIs DEF CutFor
      <3>3. CASE Kind(q) # "add"
        BY <3>3 DEF CutFor
      <3> QED BY <3>1, <3>2, <3>3
    <2>3. Apart(q, Append(p, l))
      BY <1>1, <1>3, <2>1, SiblingsApart
    <2> QED BY <2>2, <2>3
  <1> QED BY <1>2, <1>3

\* What is not a kid of an op with two kids has an op of its own.
LEMMA KidHasOwnOp ==
  ASSUME IsTree(sub), NEW p \in Terms, NEW k \in 1..sub[p].size, Kind(p) # "op"
  PROVE  ~ sub[Append(p, k)].shared
  <1> DEFINE q == Append(p, k)
  <1>1. q \in Terms /\ p \in Paths /\ k \in Nat \ {0}
    BY KidTerm, TermsArePaths
  <1>2. Upto(q, Len(q) - 1) = p /\ Len(q) > 0
    BY <1>1, KidPath DEF Upto, Paths
  <1> HIDE DEF q
  <1>3. ~ sub[q].shared
    BY <1>1, <1>2 DEF IsTree, Terms, Kind
  <1> QED BY <1>3 DEF q

-----------------------------------------------------------------------------
(* Calls that are apart *)

LEMMA ScopeIs ==
  ASSUME IsTree(sub), NEW e, NEW f, NEW c \in CallsUpTo(e, f), CallWhole(c)
  PROVE  /\ c.term \in Paths /\ Scope(c) \in Terms /\ Scope(c) \in Paths
         /\ Inner(c) \in Terms /\ Inner(c) \in Paths /\ Below(Inner(c), c.term)
         /\ Ahead(c) \subseteq Terms /\ \A q \in Ahead(c) : q \in Paths
  <1>1. c.term \in Terms /\ c.term \in Paths /\ Terms \subseteq Paths
    BY CallFields, TermsArePaths
  <1>2. Ahead(c) \subseteq Terms
    BY DEF Ahead
  <1>3. c.at = "trees" => c.asts[1] \in Terms
    BY CallFields DEF CallWhole
  <1>4. Scope(c) \in Terms
    BY <1>1, <1>3, OpOfIs DEF Scope
  <1>5. Inner(c) \in Terms /\ Below(Inner(c), c.term)
    BY <1>1, EmittedTerm, BelowItself DEF Inner
  <1> QED BY <1>1, <1>2, <1>4, <1>5

LEMMA ApartStackOf ==
  ASSUME NEW S, NEW o \in Seq(S), NEW c
  PROVE  ApartStack(Append(o, c)) <=>
           /\ ApartStack(o) /\ FrameApart(c)
           /\ \A i \in 1..Len(o) : Within(o[i], c)
           /\ o # <<>> /\ o[Len(o)].at = "kids" => c.term = o[Len(o)].term
  <1> DEFINE s == Append(o, c)
  <1>1. /\ Len(s) = Len(o) + 1 /\ Len(o) \in Nat /\ \A i \in 1..Len(o) : s[i] = o[i]
        /\ s[Len(o) + 1] = c /\ s # <<>> /\ (o # <<>> <=> Len(o) > 0)
        /\ Len(o) + 1 \in 1..Len(s)
    OBVIOUS
  <1>2. ASSUME ApartStack(s)
        PROVE  /\ ApartStack(o) /\ FrameApart(c)
               /\ \A i \in 1..Len(o) : Within(o[i], c)
               /\ o # <<>> /\ o[Len(o)].at = "kids" => c.term = o[Len(o)].term
    <2>1. /\ \A i \in 1..Len(s) : FrameApart(s[i])
          /\ \A i, j \in 1..Len(s) : i < j => Within(s[i], s[j])
          /\ \A i \in 1..(Len(s) - 1) : s[i].at = "kids" => s[i + 1].term = s[i].term
      BY <1>2 DEF ApartStack
    <2> HIDE DEF s
    <2>2. \A i \in 1..Len(o) : i \in 1..Len(s) /\ i < Len(o) + 1
      BY <1>1
    <2>3. FrameApart(c) /\ \A i \in 1..Len(o) : FrameApart(o[i])
      BY <1>1, <2>1, <2>2
    <2>4. \A i, j \in 1..Len(o) : i < j => Within(o[i], o[j])
      BY <1>1, <2>1, <2>2
    <2>5. \A i \in 1..Len(o) : Within(o[i], c)
      <3> SUFFICES ASSUME NEW i \in 1..Len(o)
                   PROVE  Within(o[i], c)
        OBVIOUS
      <3>1. Within(s[i], s[Len(o) + 1])
        BY <1>1, <2>1, <2>2
      <3> QED BY <1>1, <3>1
    <2>6. \A i \in 1..(Len(o) - 1) : o[i].at = "kids" => o[i + 1].term = o[i].term
      <3> SUFFICES ASSUME NEW i \in 1..(Len(o) - 1), o[i].at = "kids"
                   PROVE  o[i + 1].term = o[i].term
        OBVIOUS
      <3>1. i \in 1..Len(o) /\ i + 1 \in 1..Len(o) /\ i \in 1..(Len(s) - 1)
        BY <1>1
      <3>2. s[i] = o[i] /\ s[i + 1] = o[i + 1]
        BY <1>1, <3>1
      <3> QED BY <2>1, <3>1, <3>2
    <2>7. o # <<>> /\ o[Len(o)].at = "kids" => c.term = o[Len(o)].term
      <3> SUFFICES ASSUME o # <<>>, o[Len(o)].at = "kids"
                   PROVE  c.term = o[Len(o)].term
        OBVIOUS
      <3>1. Len(o) \in 1..Len(o) /\ Len(o) \in 1..(Len(s) - 1)
        BY <1>1
      <3>2. s[Len(o)] = o[Len(o)]
        BY <1>1, <3>1
      <3> QED BY <1>1, <2>1, <3>1, <3>2
    <2> QED BY <2>3, <2>4, <2>5, <2>6, <2>7 DEF ApartStack
  <1>3. ASSUME ApartStack(o), FrameApart(c), \A i \in 1..Len(o) : Within(o[i], c),
               o # <<>> /\ o[Len(o)].at = "kids" => c.term = o[Len(o)].term
        PROVE  ApartStack(s)
    <2>1. /\ \A i \in 1..Len(o) : FrameApart(o[i])
          /\ \A i, j \in 1..Len(o) : i < j => Within(o[i], o[j])
          /\ \A i \in 1..(Len(o) - 1) : o[i].at = "kids" => o[i + 1].term = o[i].term
      BY <1>3 DEF ApartStack
    <2> HIDE DEF s
    <2>2. \A i \in 1..Len(s) : i \in 1..Len(o) \/ i = Len(o) + 1
      BY <1>1
    <2>3. \A i \in 1..Len(s) : FrameApart(s[i])
      BY <1>1, <1>3, <2>1, <2>2
    <2>4. ASSUME NEW i \in 1..Len(s), NEW j \in 1..Len(s), i < j
          PROVE  Within(s[i], s[j])
      <3>1. i \in 1..Len(o) /\ s[i] = o[i]
        BY <1>1, <2>4
      <3>2. CASE j \in 1..Len(o)
        BY <1>1, <2>1, <2>4, <3>1, <3>2
      <3>3. CASE j = Len(o) + 1
        BY <1>1, <1>3, <3>1, <3>3
      <3> QED BY <2>2, <3>2, <3>3
    <2>5. ASSUME NEW i \in 1..(Len(s) - 1), s[i].at = "kids"
          PROVE  s[i + 1].term = s[i].term
      <3>1. i \in 1..Len(o) /\ s[i] = o[i]
        BY <1>1
      <3>2. CASE i = Len(o)
        BY <1>1, <1>3, <2>5, <3>1, <3>2
      <3>3. CASE i # Len(o)
        <4>1. i \in 1..(Len(o) - 1) /\ i + 1 \in 1..Len(o)
          BY <1>1, <3>1, <3>3
        <4> QED BY <1>1, <2>1, <2>5, <3>1, <4>1
      <3> QED BY <3>2, <3>3
    <2> QED BY <2>3, <2>4, <2>5 DEF ApartStack
  <1> QED BY <1>2, <1>3

LEMMA LogPassedOf ==
  ASSUME NEW S, NEW o \in Seq(S), NEW c, NEW l
  PROVE  LogPassed(l, Append(o, c)) <=>
           LogPassed(l, o) /\ \A i \in 1..Len(l) : Passed(l[i], c)
  <1> DEFINE s == Append(o, c)
  <1>1. /\ Len(s) = Len(o) + 1 /\ Len(o) \in Nat /\ \A i \in 1..Len(o) : s[i] = o[i]
        /\ s[Len(o) + 1] = c
        /\ \A n \in 1..Len(s) : n \in 1..Len(o) \/ n = Len(o) + 1
        /\ Len(o) + 1 \in 1..Len(s) /\ \A n \in 1..Len(o) : n \in 1..Len(s)
    OBVIOUS
  <1> HIDE DEF s
  <1>2. ASSUME LogPassed(l, s)
        PROVE  LogPassed(l, o) /\ \A i \in 1..Len(l) : Passed(l[i], c)
    <2>1. \A i \in 1..Len(l), n \in 1..Len(s) : Passed(l[i], s[n])
      BY <1>2 DEF LogPassed
    <2>2. \A i \in 1..Len(l), n \in 1..Len(o) : Passed(l[i], o[n])
      BY <1>1, <2>1
    <2>3. \A i \in 1..Len(l) : Passed(l[i], c)
      BY <1>1, <2>1
    <2> QED BY <2>2, <2>3 DEF LogPassed
  <1>3. ASSUME LogPassed(l, o), \A i \in 1..Len(l) : Passed(l[i], c)
        PROVE  LogPassed(l, s)
    <2>1. \A i \in 1..Len(l), n \in 1..Len(o) : Passed(l[i], o[n])
      BY <1>3 DEF LogPassed
    <2>2. \A i \in 1..Len(l), n \in 1..Len(s) : Passed(l[i], s[n])
      BY <1>1, <1>3, <2>1
    <2> QED BY <2>2 DEF LogPassed
  <1> QED BY <1>2, <1>3 DEF s


\* What x, a call that t goes on with or makes, can still turn to or cut is what t
\* could.
Fresh(t, x) ==
  /\ t.at # "trees"
  /\ Below(Scope(x), Scope(t))
  /\ \A q \in Ahead(x) : \E a \in Ahead(t) : Below(q, a)
  /\ x.at = "trees" => \E a \in Ahead(t) : Below(x.asts[1], a)
  /\ x.at = "kids" => \E a \in Ahead(t) : Below(x.term, a)

LEMMA WithinFresh ==
  ASSUME IsTree(sub), NEW e, NEW f,
         NEW c \in CallsUpTo(e, f), CallWhole(c), NEW t \in CallsUpTo(e, f), CallWhole(t),
         NEW d, NEW g, NEW x \in CallsUpTo(d, g), CallWhole(x), Within(c, t), Fresh(t, x)
  PROVE  Within(c, x)
  <1>1. /\ Scope(t) \in Paths /\ Scope(x) \in Paths /\ Inner(c) \in Paths
        /\ \A q \in Ahead(c) : q \in Paths
    BY ScopeIs
  <1>2. /\ Below(Scope(t), Inner(c)) /\ Below(Scope(x), Scope(t)) /\ t.at # "trees"
        /\ \A q \in Ahead(c) : Apart(Scope(t), q)
    BY DEF Within, Fresh
  <1>3. Below(Scope(x), Inner(c))
    BY <1>1, <1>2, BelowBelow
  <1>4. ASSUME NEW q \in Ahead(c)
        PROVE  Apart(Scope(x), q)
    <2>1. Apart(Scope(t), q) /\ q \in Paths
      BY <1>1, <1>2
    <2>2. Apart(q, Scope(t))
      BY <2>1 DEF Apart
    <2> QED BY <1>1, <1>2, <2>1, <2>2, ApartBelow
  <1>5. ASSUME c.at = "process", Scope(x) = c.term
        PROVE  FALSE
    <2>1. Inner(c) = c.term
      BY <1>5 DEF Inner
    <2>2. Scope(t) = Scope(x)
      BY <1>1, <1>2, <1>5, <2>1, BelowBoth
    <2> QED BY <1>2, <1>5, <2>2 DEF Within
  <1> QED BY <1>3, <1>4, <1>5 DEF Within

LEMMA PassedFresh ==
  ASSUME IsTree(sub), NEW e, NEW f, NEW t \in CallsUpTo(e, f), CallWhole(t),
         NEW d, NEW g, NEW x \in CallsUpTo(d, g), CallWhole(x),
         NEW edit, edit.cut[1] \in Ops, Passed(edit, t), Fresh(t, x)
  PROVE  Passed(edit, x)
  <1> DEFINE op == edit.cut[1]
  <1>1. /\ op \in Terms /\ op \in Paths /\ x.term \in Paths
        /\ \A a \in Ahead(t) : a \in Paths /\ Apart(op, a)
        /\ \A q \in Ahead(x) : q \in Paths
    BY OpsAreTerms, TermsArePaths, ScopeIs DEF Passed
  <1> HIDE DEF op
  <1>2. ASSUME NEW q \in Ahead(x)
        PROVE  Apart(op, q)
    <2>1. PICK a \in Ahead(t) : Below(q, a)
      BY DEF Fresh
    <2> QED BY <1>1, <2>1, ApartBelow
  <1>3. ASSUME x.at = "trees"
        PROVE  ~ Below(Scope(x), op)
    <2>1. PICK a \in Ahead(t) : Below(x.asts[1], a)
      BY <1>3 DEF Fresh
    <2>2. x.asts[1] \in Terms /\ x.asts[1] \in Paths
      BY <1>3, CallFields, TermsArePaths DEF CallWhole
    <2>3. ~ Below(x.asts[1], op)
      BY <1>1, <2>1, <2>2, ApartBelow DEF Apart
    <2>4. Below(x.asts[1], Scope(x)) /\ Scope(x) \in Paths
      BY <1>3, <2>2, OpOfIs DEF Scope
    <2> QED BY <1>1, <2>2, <2>3, <2>4, BelowBelow
  <1>4. ASSUME x.at = "kids"
        PROVE  ~ Below(x.term, op)
    <2>1. PICK a \in Ahead(t) : Below(x.term, a)
      BY <1>4 DEF Fresh
    <2> QED BY <1>1, <2>1, ApartBelow DEF Apart
  <1> QED BY <1>2, <1>3, <1>4 DEF Passed, op

\* What is known behind a step of the calls
LEMMA LogHere ==
  ASSUME IInv, LogInv, calls # <<>>
  PROVE  /\ ApartStack(Outer) /\ FrameApart(Top)
         /\ \A i \in 1..Len(Outer) : Within(Outer[i], Top)
         /\ Outer # <<>> /\ Outer[Len(Outer)].at = "kids" => Top.term = Outer[Len(Outer)].term
         /\ LogPassed(log, Outer) /\ \A i \in 1..Len(log) : Passed(log[i], Top)
         /\ \A i \in 1..Len(log) : log[i].cut[1] \in Ops /\ log[i] \in Edits
  <1> DEFINE S == CallsUpTo(EmittersAlive, FunctionsMade)
  <1>1. Outer \in Seq(S) /\ calls = Append(Outer, Top)
    BY Here, TopAndOuter
  <1>2. ApartStack(calls) /\ LogPassed(log, calls)
    BY DEF LogInv
  <1> HIDE DEF S
  <1>3. /\ ApartStack(Outer) /\ FrameApart(Top)
        /\ \A i \in 1..Len(Outer) : Within(Outer[i], Top)
        /\ Outer # <<>> /\ Outer[Len(Outer)].at = "kids" => Top.term = Outer[Len(Outer)].term
    BY <1>1, <1>2, ApartStackOf
  <1>4. LogPassed(log, Outer) /\ \A i \in 1..Len(log) : Passed(log[i], Top)
    BY <1>1, <1>2, LogPassedOf
  <1>5. ASSUME NEW i \in 1..Len(log)
        PROVE  log[i].cut[1] \in Ops /\ log[i] \in Edits
    <2>1. log \in Seq(Edits)
      BY DEF IInv, TypeOK
    <2>2. log[i] \in Edits
      <3> HIDE DEF Edits
      <3> QED BY <2>1
    <2>3. log[i].cut \in Seq(Ops) \ {<<>>}
      BY <2>2 DEF Edits
    <2> QED BY <2>2, <2>3
  <1> QED BY <1>3, <1>4, <1>5

\* A stack that leaves room for what comes of the call on top
LEMMA FreshOn ==
  ASSUME IInv, LogInv, calls # <<>>, NEW e, NEW g, NEW s \in Seq(CallsUpTo(e, g)),
         ApartStack(s), LogPassed(log, s),
         NEW x \in CallsUpTo(e, g), CallWhole(x), FrameApart(x), Fresh(Top, x),
         \A i \in 1..Len(s) : Within(s[i], x),
         s # <<>> /\ s[Len(s)].at = "kids" => x.term = s[Len(s)].term
  PROVE  ApartStack(Append(s, x)) /\ LogPassed(log, Append(s, x))
         /\ Append(s, x) \in Seq(CallsUpTo(e, g))
  <1>1. /\ IsTree(sub) /\ Top \in CallsUpTo(EmittersAlive, FunctionsMade) /\ CallWhole(Top)
        /\ \A i \in 1..Len(log) : Passed(log[i], Top) /\ log[i].cut[1] \in Ops
    BY Here, LogHere
  <1>2. \A i \in 1..Len(log) : Passed(log[i], x)
    BY <1>1, PassedFresh
  <1> DEFINE S == CallsUpTo(e, g)
  <1>3. s \in Seq(S) /\ x \in S
    OBVIOUS
  <1> HIDE DEF S
  <1>4. ApartStack(Append(s, x)) /\ LogPassed(log, Append(s, x)) /\ Append(s, x) \in Seq(S)
    BY <1>2, <1>3, ApartStackOf, LogPassedOf
  <1> QED BY <1>4 DEF S

LEMMA OuterWithin ==
  ASSUME IInv, LogInv, calls # <<>>, NEW e, NEW g, NEW x \in CallsUpTo(e, g), CallWhole(x),
         Fresh(Top, x)
  PROVE  \A i \in 1..Len(Outer) : Within(Outer[i], x)
  <1> SUFFICES ASSUME NEW i \in 1..Len(Outer)
               PROVE  Within(Outer[i], x)
    OBVIOUS
  <1>1. /\ IsTree(sub) /\ Top \in CallsUpTo(EmittersAlive, FunctionsMade) /\ CallWhole(Top)
        /\ Within(Outer[i], Top)
        /\ Outer[i] \in CallsUpTo(EmittersAlive, FunctionsMade) /\ CallWhole(Outer[i])
    BY Here, LogHere, CallReturns
  <1> QED BY <1>1, WithinFresh

-----------------------------------------------------------------------------
(* What each step makes of the calls *)

\* The calls under the one on top stay as they are, and what comes in its place, if
\* anything does, turns to and cuts no more than that one could.
FreshCalls ==
  calls' = calls \/
    /\ calls # <<>>
    /\ \A i \in 1..Len(calls') :
         (i \in 1..Len(Outer) /\ calls'[i] = Outer[i]) \/ Fresh(Top, calls'[i])

\* Behind a step the calls hold their distance to each other and to the log.
Logged == ApartStack(calls') /\ LogPassed(log', calls') /\ FreshCalls

\* The frames of the next state have their types.
NewCalls == CallsUpTo(Len(subtrees'), Len(fns'))

LEMMA LastFrame ==
  ASSUME NEW S, NEW T, NEW o \in Seq(S), NEW x, Append(o, x) \in Seq(T), Stack(Append(o, x))
  PROVE  o \in Seq(T) /\ x \in T /\ CallWhole(x) /\ Stack(o)
  <1>1. CallWhole(x) /\ Stack(o)
    BY StackOf
  <1>2. /\ Len(Append(o, x)) = Len(o) + 1 /\ Len(o) \in Nat
        /\ \A i \in 1..Len(o) : Append(o, x)[i] = o[i]
        /\ Append(o, x)[Len(o) + 1] = x
    OBVIOUS
  <1>3. \A i \in 1..(Len(o) + 1) : Append(o, x)[i] \in T
    BY <1>2
  <1>4. x \in T /\ \A i \in 1..Len(o) : o[i] \in T
    BY <1>2, <1>3
  <1>5. o \in Seq(T)
    BY <1>4
  <1> QED BY <1>1, <1>4, <1>5

LEMMA NewFrame ==
  ASSUME IInv, Fits, calls # <<>>, NEW x, calls' = Append(Outer, x)
  PROVE  Outer \in Seq(NewCalls) /\ x \in NewCalls /\ CallWhole(x)
  <1>1. Outer \in Seq(CallsUpTo(EmittersAlive, FunctionsMade))
    BY Here, TopAndOuter
  <1>2. Append(Outer, x) \in Seq(NewCalls) /\ Stack(Append(Outer, x))
    BY DEF Fits, NewCalls
  <1> HIDE DEF NewCalls
  <1> QED BY <1>1, <1>2, LastFrame

LEMMA TwoNewFrames ==
  ASSUME IInv, Fits, calls # <<>>, NEW x, NEW y, calls' = Append(Append(Outer, x), y)
  PROVE  /\ Outer \in Seq(NewCalls) /\ x \in NewCalls /\ y \in NewCalls
         /\ CallWhole(x) /\ CallWhole(y)
  <1> DEFINE S == CallsUpTo(EmittersAlive, FunctionsMade)
             o == Append(Outer, x)
  <1>1. Outer \in Seq(S)
    BY Here, TopAndOuter
  <1>2. Append(o, y) \in Seq(NewCalls) /\ Stack(Append(o, y))
    BY DEF Fits, NewCalls
  <1>3. o \in Seq(S \union {x})
    <2> HIDE DEF S
    <2>1. Outer \in Seq(S \union {x})
      BY <1>1
    <2> QED BY <2>1
  <1> HIDE DEF NewCalls, S, o
  <1>4. o \in Seq(NewCalls) /\ y \in NewCalls /\ CallWhole(y) /\ Stack(o)
    BY <1>2, <1>3, LastFrame
  <1>5. Outer \in Seq(NewCalls) /\ x \in NewCalls /\ CallWhole(x)
    BY <1>1, <1>4, LastFrame DEF o
  <1> QED BY <1>4, <1>5

LEMMA ThreeNewFrames ==
  ASSUME IInv, Fits, calls # <<>>, NEW x, NEW y, NEW z,
         calls' = Append(Append(Append(Outer, x), y), z)
  PROVE  /\ Outer \in Seq(NewCalls) /\ x \in NewCalls /\ y \in NewCalls /\ z \in NewCalls
         /\ CallWhole(x) /\ CallWhole(y) /\ CallWhole(z)
  <1> DEFINE S == CallsUpTo(EmittersAlive, FunctionsMade)
             o == Append(Outer, x)
             p == Append(o, y)
  <1>1. Outer \in Seq(S)
    BY Here, TopAndOuter
  <1>2. Append(p, z) \in Seq(NewCalls) /\ Stack(Append(p, z))
    BY DEF Fits, NewCalls
  <1>3. o \in Seq(S \union {x, y}) /\ p \in Seq(S \union {x, y})
    <2> HIDE DEF S
    <2>1. Outer \in Seq(S \union {x, y})
      BY <1>1
    <2>2. o \in Seq(S \union {x, y})
      BY <2>1
    <2> HIDE DEF o
    <2> QED BY <2>2
  <1> HIDE DEF NewCalls, S, o, p
  <1>4. p \in Seq(NewCalls) /\ z \in NewCalls /\ CallWhole(z) /\ Stack(p)
    BY <1>2, <1>3, LastFrame
  <1>5. o \in Seq(NewCalls) /\ y \in NewCalls /\ CallWhole(y) /\ Stack(o)
    BY <1>3, <1>4, LastFrame DEF p
  <1>6. Outer \in Seq(NewCalls) /\ x \in NewCalls /\ CallWhole(x)
    BY <1>1, <1>5, LastFrame DEF o
  <1> QED BY <1>4, <1>5, <1>6

\* The innermost call returns, and the log stays.
LEMMA ReturnsLogged ==
  ASSUME IInv, LogInv, calls # <<>>, calls' = Outer, log' = log
  PROVE  Logged
  BY LogHere DEF Logged, FreshCalls

LEMMA GoesOnLogged ==
  ASSUME IInv, LogInv, Fits, calls # <<>>, NEW x, calls' = Append(Outer, x), log' = log,
         FrameApart(x), Fresh(Top, x), x.term = Top.term
  PROVE  Logged
  <1>1. Outer \in Seq(NewCalls) /\ x \in NewCalls /\ CallWhole(x)
    BY NewFrame
  <1>2. \A i \in 1..Len(Outer) : Within(Outer[i], x)
    BY <1>1, OuterWithin DEF NewCalls
  <1>3. /\ ApartStack(Outer) /\ LogPassed(log, Outer)
        /\ Outer # <<>> /\ Outer[Len(Outer)].at = "kids" => x.term = Outer[Len(Outer)].term
    BY LogHere
  <1>4. ApartStack(Append(Outer, x)) /\ LogPassed(log, Append(Outer, x))
    BY <1>1, <1>2, <1>3, FreshOn DEF NewCalls
  <1>5. \A i \in 1..Len(Append(Outer, x)) :
          (i \in 1..Len(Outer) /\ Append(Outer, x)[i] = Outer[i]) \/ Append(Outer, x)[i] = x
    <2> HIDE DEF NewCalls
    <2> QED BY <1>1, FramesOf
  <1>6. FreshCalls
    BY <1>5 DEF FreshCalls
  <1> QED BY <1>4, <1>6 DEF Logged

LEMMA CallsLogged ==
  ASSUME IInv, LogInv, Fits, calls # <<>>, NEW x, NEW y,
         calls' = Append(Append(Outer, x), y), log' = log,
         FrameApart(x), Fresh(Top, x), x.term = Top.term,
         FrameApart(y), Fresh(Top, y), Within(x, y), x.at = "kids" => y.term = x.term
  PROVE  Logged
  <1>1. Outer \in Seq(NewCalls) /\ x \in NewCalls /\ CallWhole(x) /\ y \in NewCalls /\ CallWhole(y)
    BY TwoNewFrames
  <1>2. \A i \in 1..Len(Outer) : Within(Outer[i], x) /\ Within(Outer[i], y)
    BY <1>1, OuterWithin DEF NewCalls
  <1>3. /\ ApartStack(Outer) /\ LogPassed(log, Outer)
        /\ Outer # <<>> /\ Outer[Len(Outer)].at = "kids" => x.term = Outer[Len(Outer)].term
    BY LogHere
  <1> DEFINE s == Append(Outer, x)
  <1>4. ApartStack(s) /\ LogPassed(log, s) /\ s \in Seq(NewCalls)
    BY <1>1, <1>2, <1>3, FreshOn DEF NewCalls
  <1>5. /\ s[Len(s)] = x
        /\ \A i \in 1..Len(s) : (i \in 1..Len(Outer) /\ s[i] = Outer[i]) \/ s[i] = x
    <2> HIDE DEF NewCalls
    <2> QED BY <1>1, FramesOf, LastOf
  <1> HIDE DEF s
  <1>6. \A i \in 1..Len(s) : Within(s[i], y)
    BY <1>2, <1>5
  <1>7. ApartStack(Append(s, y)) /\ LogPassed(log, Append(s, y))
    BY <1>1, <1>4, <1>5, <1>6, FreshOn DEF NewCalls
  <1>8. \A i \in 1..Len(calls') :
          (i \in 1..Len(Outer) /\ calls'[i] = Outer[i]) \/ calls'[i] = x \/ calls'[i] = y
    <2> HIDE DEF NewCalls
    <2> QED BY <1>1, FramesOf
  <1>9. FreshCalls
    BY <1>8 DEF FreshCalls
  <1> QED BY <1>7, <1>9 DEF Logged, s

LEMMA TreesLogged ==
  ASSUME IInv, LogInv, Fits, calls # <<>>, NEW x, NEW y, NEW z,
         calls' = Append(Append(Append(Outer, x), y), z), log' = log,
         FrameApart(x), Fresh(Top, x), x.term = Top.term,
         FrameApart(y), Fresh(Top, y), Within(x, y), x.at # "kids",
         FrameApart(z), Fresh(Top, z), Within(x, z), Within(y, z), y.at # "kids"
  PROVE  Logged
  <1>1. /\ Outer \in Seq(NewCalls) /\ x \in NewCalls /\ CallWhole(x) /\ y \in NewCalls /\ CallWhole(y)
        /\ z \in NewCalls /\ CallWhole(z)
    BY ThreeNewFrames
  <1>2. \A i \in 1..Len(Outer) : /\ Within(Outer[i], x) /\ Within(Outer[i], y)
                                 /\ Within(Outer[i], z)
    BY <1>1, OuterWithin DEF NewCalls
  <1>3. /\ ApartStack(Outer) /\ LogPassed(log, Outer)
        /\ Outer # <<>> /\ Outer[Len(Outer)].at = "kids" => x.term = Outer[Len(Outer)].term
    BY LogHere
  <1> DEFINE s == Append(Outer, x)
             t == Append(s, y)
  <1>4. ApartStack(s) /\ LogPassed(log, s) /\ s \in Seq(NewCalls)
    BY <1>1, <1>2, <1>3, FreshOn DEF NewCalls
  <1>5. /\ s[Len(s)] = x
        /\ \A i \in 1..Len(s) : (i \in 1..Len(Outer) /\ s[i] = Outer[i]) \/ s[i] = x
    <2> HIDE DEF NewCalls
    <2> QED BY <1>1, FramesOf, LastOf
  <1> HIDE DEF s
  <1>6. \A i \in 1..Len(s) : Within(s[i], y) /\ Within(s[i], z)
    BY <1>2, <1>5
  <1>7. ApartStack(t) /\ LogPassed(log, t) /\ t \in Seq(NewCalls)
    BY <1>1, <1>4, <1>5, <1>6, FreshOn DEF NewCalls
  <1>8. /\ t[Len(t)] = y
        /\ \A i \in 1..Len(t) : (i \in 1..Len(s) /\ t[i] = s[i]) \/ t[i] = y
    <2> HIDE DEF NewCalls
    <2> QED BY <1>1, <1>4, FramesOf, LastOf
  <1> HIDE DEF t
  <1>9. \A i \in 1..Len(t) : Within(t[i], z)
    BY <1>6, <1>8
  <1>10. ApartStack(Append(t, z)) /\ LogPassed(log, Append(t, z))
    BY <1>1, <1>7, <1>8, <1>9, FreshOn DEF NewCalls
  <1>11. \A i \in 1..Len(calls') :
           \/ i \in 1..Len(Outer) /\ calls'[i] = Outer[i]
           \/ calls'[i] = x \/ calls'[i] = y \/ calls'[i] = z
    <2> HIDE DEF NewCalls
    <2> QED BY <1>1, FramesOf
  <1>12. FreshCalls
    BY <1>11 DEF FreshCalls
  <1> QED BY <1>10, <1>12 DEF Logged, s, t

LEMMA CutForIs ==
  ASSUME IsTree(sub), NEW p \in Terms
  PROVE  CutFor(p) \in Paths /\ Below(p, CutFor(p)) /\ Below(CutFor(p), OpOf(p))
  <1>1. p \in Paths /\ OpOf(p) \in Paths /\ Below(p, OpOf(p))
    BY TermsArePaths, OpOfIs
  <1> QED BY <1>1, BelowItself DEF CutFor

\* The first term of a queue, and those behind it
LEMMA HeadApart ==
  ASSUME IInv, LogInv, calls # <<>>, Top.at = "process", Queued # <<>>, NEW h, h = Head(Queued)
  PROVE  /\ h \in Terms /\ h \in Paths /\ h # Top.term /\ Below(h, Top.term) /\ h \in Ahead(Top)
         /\ Below(OpOf(h), Top.term) /\ Top.term \in Paths
         /\ \A l \in 2..Len(Queued) : Apart(CutFor(h), Queued[l]) /\ Apart(h, Queued[l])
         /\ Queued \in Seq(Terms) /\ Queued = Top.queue
  <1>1. Queued \in Seq(Terms) /\ Queued = Top.queue /\ Top.term \in Terms /\ Below(h, Top.term)
    BY Here, HeadOfQueue DEF Queued
  <1>2. 1 \in 1..Len(Queued) /\ h = Queued[1] /\ h \in Terms /\ Len(Queued) \in Nat
    BY <1>1
  <1>3. h \in Ahead(Top)
    BY <1>1, <1>2 DEF Ahead, Listed
  <1>4. /\ h # Top.term
        /\ \A l \in (1 + 1)..Len(Queued) : Apart(CutFor(h), Queued[l])
    BY <1>1, <1>2, LogHere DEF FrameApart
  <1>5. h \in Paths /\ Top.term \in Paths /\ \A l \in 1..Len(Queued) : Queued[l] \in Paths
    BY <1>1, <1>2, Here, TermsArePaths
  <1>6. Below(OpOf(h), Top.term)
    BY <1>1, <1>2, <1>4, Here, OpOfBelow
  <1>7. ASSUME NEW l \in 2..Len(Queued)
        PROVE  Apart(CutFor(h), Queued[l]) /\ Apart(h, Queued[l])
    <2>1. Apart(CutFor(h), Queued[l]) /\ Queued[l] \in Paths
      BY <1>2, <1>4, <1>5
    <2>2. CutFor(h) \in Paths /\ Below(h, CutFor(h))
      BY <1>2, Here, CutForIs
    <2>3. Apart(Queued[l], CutFor(h))
      BY <2>1 DEF Apart
    <2>4. Apart(h, Queued[l])
      BY <1>5, <2>1, <2>2, <2>3, ApartBelow
    <2> QED BY <2>1, <2>4
  <1> QED BY <1>1, <1>2, <1>3, <1>4, <1>5, <1>6, <1>7

\* What a search goes on with, whether it puts more in front of the queue or not
LEMMA DequeuedIs ==
  ASSUME IInv, calls # <<>>, Top.at = "process", Queued # <<>>, NEW more \in Seq(Terms)
  PROVE  LET d == Dequeued(more)
         IN /\ d.at = "process" /\ d.term = Top.term /\ d.queue \in Seq(Terms)
            /\ \A k \in 1..Len(d.queue) :
                 \/ k \in 1..Len(more) /\ d.queue[k] = more[k]
                 \/ /\ k > Len(more) /\ (k - Len(more)) + 1 \in 2..Len(Queued)
                    /\ d.queue[k] = Queued[(k - Len(more)) + 1]
  <1> DEFINE q == more \o Tail(Queued)
  <1>1. Queued \in Seq(Terms) /\ Tail(Queued) \in Seq(Terms)
        /\ Len(Tail(Queued)) = Len(Queued) - 1
        /\ \A k \in 1..Len(Tail(Queued)) : Tail(Queued)[k] = Queued[k + 1]
    BY Here, HeadOfQueue, HeadTailProperties
  <1>2. /\ q \in Seq(Terms) /\ Len(q) = Len(more) + Len(Tail(Queued))
        /\ \A k \in 1..(Len(more) + Len(Tail(Queued))) :
             q[k] = IF k <= Len(more) THEN more[k] ELSE Tail(Queued)[k - Len(more)]
    BY <1>1, ConcatProperties
  <1>3. ASSUME NEW k \in 1..Len(q)
        PROVE  \/ k \in 1..Len(more) /\ q[k] = more[k]
               \/ /\ k > Len(more) /\ (k - Len(more)) + 1 \in 2..Len(Queued)
                  /\ q[k] = Queued[(k - Len(more)) + 1]
    <2> HIDE DEF q
    <2>1. CASE k <= Len(more)
      BY <2>1, <1>1, <1>2, <1>3
    <2>2. CASE ~ k <= Len(more)
      <3>1. k - Len(more) \in 1..Len(Tail(Queued))
        BY <2>2, <1>1, <1>2, <1>3
      <3>2. (k - Len(more)) + 1 \in 2..Len(Queued)
        BY <3>1, <1>1
      <3>3. q[k] = Queued[(k - Len(more)) + 1]
        BY <2>2, <3>1, <1>1, <1>2
      <3> QED BY <2>2, <3>2, <3>3, <1>2
    <2> QED BY <2>1, <2>2
  <1>4. Dequeued(more) = [Top EXCEPT !.queue = q]
    BY DEF Dequeued, Queued
  <1> HIDE DEF q
  <1>5. /\ Dequeued(more).at = Top.at /\ Dequeued(more).term = Top.term
        /\ Dequeued(more).queue = q
    BY <1>2, <1>4, Here, QueueChanged
  <1> QED BY <1>2, <1>3, <1>5

LEMMA DequeuedApart ==
  ASSUME IInv, LogInv, calls # <<>>, Top.at = "process", Queued # <<>>,
         NEW h, h = Head(Queued), NEW more \in Seq(Terms),
         \A k \in 1..Len(more) :
            more[k] # Top.term /\ Below(more[k], h) /\ Below(CutFor(more[k]), h),
         \A k, l \in 1..Len(more) : k < l => Apart(CutFor(more[k]), more[l])
  PROVE  LET d == Dequeued(more)
         IN /\ d.at = "process" /\ d.term = Top.term /\ FrameApart(d) /\ Fresh(Top, d)
            /\ \A q \in Ahead(d) : \/ \E k \in 1..Len(more) : q = more[k]
                                   \/ Apart(CutFor(h), q) /\ Apart(h, q)
  <1> DEFINE d == Dequeued(more)
  <1>1. /\ d.at = "process" /\ d.term = Top.term /\ d.queue \in Seq(Terms)
        /\ \A k \in 1..Len(d.queue) :
             \/ k \in 1..Len(more) /\ d.queue[k] = more[k]
             \/ /\ k > Len(more) /\ (k - Len(more)) + 1 \in 2..Len(Queued)
                /\ d.queue[k] = Queued[(k - Len(more)) + 1]
    BY DequeuedIs
  <1> HIDE DEF d
  <1>2. /\ h \in Terms /\ h \in Paths /\ h # Top.term /\ Below(h, Top.term) /\ h \in Ahead(Top)
        /\ Top.term \in Paths
        /\ \A l \in 2..Len(Queued) : Apart(CutFor(h), Queued[l]) /\ Apart(h, Queued[l])
        /\ Queued \in Seq(Terms) /\ Queued = Top.queue /\ Len(Queued) \in Nat
    BY HeadApart
  <1>3. \A l \in 1..Len(Queued) : /\ Queued[l] \in Terms /\ Queued[l] \in Paths
                                  /\ Queued[l] # Top.term /\ Queued[l] \in Ahead(Top)
    <2> SUFFICES ASSUME NEW l \in 1..Len(Queued)
                 PROVE  /\ Queued[l] \in Terms /\ Queued[l] \in Paths
                        /\ Queued[l] # Top.term /\ Queued[l] \in Ahead(Top)
      OBVIOUS
    <2>1. Queued[l] \in Terms /\ Queued[l] \in Paths
      BY <1>2, Here, TermsArePaths
    <2>2. Queued[l] # Top.term
      BY <1>2, LogHere DEF FrameApart
    <2>3. Queued[l] \in Ahead(Top)
      BY <1>2, <2>1 DEF Ahead, Listed
    <2> QED BY <2>1, <2>2, <2>3
  <1>4. \A k, l \in 1..Len(Queued) : k < l => Apart(CutFor(Queued[k]), Queued[l])
    <2> SUFFICES ASSUME NEW k \in 1..Len(Queued), NEW l \in 1..Len(Queued), k < l
                 PROVE  Apart(CutFor(Queued[k]), Queued[l])
      OBVIOUS
    <2>1. l \in (k + 1)..Len(Queued)
      BY <1>2
    <2> QED BY <1>2, <2>1, LogHere DEF FrameApart
  <1>5. \A k \in 1..Len(more) : /\ more[k] \in Terms /\ more[k] \in Paths
                                /\ CutFor(more[k]) \in Paths
    BY Here, TermsArePaths, CutForIs
  <1>6. ASSUME NEW k \in 1..Len(d.queue)
        PROVE  d.queue[k] # d.term
    BY <1>1, <1>3, <1>6
  <1>7. ASSUME NEW k \in 1..Len(d.queue), NEW l \in (k + 1)..Len(d.queue)
        PROVE  Apart(CutFor(d.queue[k]), d.queue[l])
    <2>0. l \in 1..Len(d.queue) /\ k < l /\ k \in Nat /\ l \in Nat /\ Len(more) \in Nat
      BY <1>1
    <2>1. CASE k \in 1..Len(more) /\ l \in 1..Len(more) /\ d.queue[k] = more[k]
               /\ d.queue[l] = more[l]
      BY <2>0, <2>1
    <2>2. CASE k \in 1..Len(more) /\ d.queue[k] = more[k] /\ (l - Len(more)) + 1 \in 2..Len(Queued)
               /\ d.queue[l] = Queued[(l - Len(more)) + 1]
      <3>1. PICK w \in 2..Len(Queued) : d.queue[l] = Queued[w]
        BY <2>2
      <3>2. Apart(h, Queued[w]) /\ Queued[w] \in Paths
        BY <1>2, <1>3, <3>1
      <3>3. Apart(Queued[w], h)
        BY <3>2 DEF Apart
      <3>4. Below(CutFor(more[k]), h) /\ CutFor(more[k]) \in Paths
        BY <1>5, <2>2
      <3>5. Apart(CutFor(more[k]), Queued[w])
        BY <1>2, <3>2, <3>3, <3>4, ApartBelow
      <3> QED BY <2>2, <3>1, <3>5
    <2>3. CASE /\ (k - Len(more)) + 1 \in 2..Len(Queued) /\ (l - Len(more)) + 1 \in 2..Len(Queued)
               /\ d.queue[k] = Queued[(k - Len(more)) + 1] /\ d.queue[l] = Queued[(l - Len(more)) + 1]
      <3>1. PICK v \in 2..Len(Queued), w \in 2..Len(Queued) :
              d.queue[k] = Queued[v] /\ d.queue[l] = Queued[w] /\ v < w
        BY <2>0, <2>3
      <3>2. v \in 1..Len(Queued) /\ w \in 1..Len(Queued)
        BY <1>2
      <3> QED BY <1>4, <3>1, <3>2
    <2>4. /\ \/ k \in 1..Len(more) /\ d.queue[k] = more[k]
             \/ /\ k > Len(more) /\ (k - Len(more)) + 1 \in 2..Len(Queued)
                /\ d.queue[k] = Queued[(k - Len(more)) + 1]
          /\ \/ l \in 1..Len(more) /\ d.queue[l] = more[l]
             \/ /\ l > Len(more) /\ (l - Len(more)) + 1 \in 2..Len(Queued)
                /\ d.queue[l] = Queued[(l - Len(more)) + 1]
      BY <1>1, <2>0
    <2>5. ~ (k > Len(more) /\ l \in 1..Len(more))
      BY <2>0
    <2> QED BY <2>1, <2>2, <2>3, <2>4, <2>5
  <1>8. FrameApart(d)
    BY <1>1, <1>6, <1>7 DEF FrameApart
  <1>9. ASSUME NEW q \in Ahead(d)
        PROVE  /\ \/ \E k \in 1..Len(more) : q = more[k]
                  \/ Apart(CutFor(h), q) /\ Apart(h, q)
               /\ \E a \in Ahead(Top) : Below(q, a)
    <2>1. PICK k \in 1..Len(d.queue) : q = d.queue[k]
      BY <1>1, <1>9 DEF Ahead, Listed
    <2>2. CASE k \in 1..Len(more) /\ q = more[k]
      BY <1>2, <2>2
    <2>3. CASE (k - Len(more)) + 1 \in 2..Len(Queued) /\ q = Queued[(k - Len(more)) + 1]
      <3>1. PICK w \in 2..Len(Queued) : q = Queued[w]
        BY <2>3
      <3>2. w \in 1..Len(Queued)
        BY <1>2
      <3>3. Below(q, q) /\ q \in Ahead(Top)
        BY <1>3, <3>1, <3>2, BelowItself
      <3> QED BY <1>2, <3>1, <3>3
    <2> QED BY <1>1, <2>1, <2>2, <2>3
  <1>10. Scope(d) = Scope(Top) /\ Scope(Top) \in Paths
    BY <1>1, <1>2 DEF Scope
  <1>11. Fresh(Top, d)
    BY <1>1, <1>9, <1>10, BelowItself DEF Fresh
  <1> QED BY <1>1, <1>8, <1>9, <1>11 DEF d

LEMMA ProcessVariableLogged ==
  ASSUME IInv, LogInv, Fits, ProcessVariable
  PROVE  Logged
  <1>1. calls # <<>> /\ Top.at = "process" /\ Queued # <<>>
    BY DEF IInv, TypeOK, ProcessVariable, Goes, At
  <1>2. PICK m : m = <<>>
    OBVIOUS
  <1>3. /\ Dequeued(m).term = Top.term /\ FrameApart(Dequeued(m)) /\ Fresh(Top, Dequeued(m))
    BY <1>1, <1>2, NothingMore, DequeuedApart
  <1>4. calls' = Append(Outer, Dequeued(m)) /\ log' = log
    BY <1>2 DEF ProcessVariable, edits
  <1> QED BY <1>1, <1>3, <1>4, GoesOnLogged

\* A search of the kids of a term
LEMMA SearchOfKids ==
  ASSUME IsTree(sub), NEW p \in Terms, NEW d, d.at = "process", d.term = p, d.queue = Kids(p)
  PROVE  FrameApart(d) /\ \A q \in Ahead(d) : Below(q, p)
  <1>1. Kids(p) \in Seq(Terms) /\ Len(Kids(p)) = sub[p].size
        /\ \A k \in 1..sub[p].size : Kids(p)[k] = Append(p, k)
    BY KidsOf
  <1>2. /\ \A k \in 1..sub[p].size : Append(p, k) # p /\ Below(Append(p, k), p)
        /\ \A k, l \in 1..sub[p].size : k < l => Apart(CutFor(Append(p, k)), Append(p, l))
        /\ sub[p].size \in Nat
    BY KidsApart, TermsArePaths
  <1>3. ASSUME NEW k \in 1..Len(d.queue), NEW l \in (k + 1)..Len(d.queue)
        PROVE  Apart(CutFor(d.queue[k]), d.queue[l])
    <2>1. k \in 1..sub[p].size /\ l \in 1..sub[p].size /\ k < l
      BY <1>1, <1>2, <1>3
    <2>2. d.queue[k] = Append(p, k) /\ d.queue[l] = Append(p, l)
      BY <1>1, <2>1
    <2> QED BY <1>2, <2>1, <2>2
  <1>4. \A k \in 1..Len(d.queue) : d.queue[k] # d.term /\ Below(d.queue[k], p)
    BY <1>1, <1>2
  <1> QED BY <1>3, <1>4 DEF FrameApart, Ahead, Listed

LEMMA ProcessKidsLogged ==
  ASSUME IInv, LogInv, Fits, ProcessKids
  PROVE  Logged
  <1>1. calls # <<>> /\ Top.at = "process" /\ Queued # <<>>
    BY DEF IInv, TypeOK, ProcessKids, Goes, At
  <1>2. PICK h : h = Head(Queued)
    OBVIOUS
  <1>3. h \in Terms /\ h \in Paths /\ Below(h, Top.term) /\ IsTree(sub)
    BY <1>1, <1>2, HeadApart, Here
  <1>4. PICK m \in Seq(Terms) : /\ m = Kids(h) /\ Len(m) = sub[h].size
                                /\ \A k \in 1..sub[h].size : m[k] = Append(h, k)
    BY <1>3, KidsOf
  <1>5. /\ \A k \in 1..sub[h].size : Append(h, k) # h /\ Below(Append(h, k), h)
        /\ \A k, l \in 1..sub[h].size : k < l => Apart(CutFor(Append(h, k)), Append(h, l))
    BY <1>3, KidsApart
  <1>6. ASSUME NEW k \in 1..Len(m)
        PROVE  m[k] # Top.term /\ Below(m[k], h) /\ Below(CutFor(m[k]), h)
    <2>1. /\ k \in 1..sub[h].size /\ m[k] = Append(h, k) /\ m[k] \in Terms /\ m[k] \in Paths
          /\ k \in Nat \ {0}
      BY <1>3, <1>4, TermsArePaths
    <2>2. m[k] # h /\ Below(m[k], h) /\ ~ Below(h, m[k])
      BY <1>3, <1>5, <2>1, KidNotTerm
    <2>3. Below(OpOf(m[k]), h) /\ OpOf(m[k]) \in Paths
      BY <1>3, <2>1, <2>2, OpOfBelow, OpOfIs
    <2>4. CutFor(m[k]) \in Paths /\ Below(CutFor(m[k]), OpOf(m[k]))
      BY <1>3, <2>1, CutForIs
    <2> QED BY <1>3, <2>2, <2>3, <2>4, BelowBelow
  <1>7. \A k, l \in 1..Len(m) : k < l => Apart(CutFor(m[k]), m[l])
    BY <1>4, <1>5
  <1>8. /\ Dequeued(m).term = Top.term /\ FrameApart(Dequeued(m)) /\ Fresh(Top, Dequeued(m))
    BY <1>1, <1>2, <1>6, <1>7, DequeuedApart
  <1>9. calls' = Append(Outer, Dequeued(m)) /\ log' = log
    BY <1>2, <1>4 DEF ProcessKids, edits
  <1> QED BY <1>1, <1>8, <1>9, GoesOnLogged

\* What is left of the queue behind its head
LEMMA DequeuedHead ==
  ASSUME IInv, LogInv, calls # <<>>, Top.at = "process", Queued # <<>>, NEW h, h = Head(Queued),
         NEW m, m = <<>>
  PROVE  LET d == Dequeued(m)
         IN /\ d.at = "process" /\ d.term = Top.term /\ FrameApart(d) /\ Fresh(Top, d)
            /\ \A q \in Ahead(d) : Apart(CutFor(h), q) /\ Apart(h, q)
            /\ Inner(d) = Top.term
  <1>1. m \in Seq(Terms) /\ Len(m) = 0
    BY NothingMore
  <1>2. \A k \in 1..Len(m) : FALSE
    BY <1>1
  <1>3. LET d == Dequeued(m)
        IN /\ d.at = "process" /\ d.term = Top.term /\ FrameApart(d) /\ Fresh(Top, d)
           /\ \A q \in Ahead(d) : \/ \E k \in 1..Len(m) : q = m[k]
                                  \/ Apart(CutFor(h), q) /\ Apart(h, q)
    BY <1>1, <1>2, DequeuedApart
  <1> QED BY <1>2, <1>3 DEF Inner

LEMMA ProcessSequenceLogged ==
  ASSUME IInv, LogInv, Fits, ProcessSequence
  PROVE  Logged
  <1>1. calls # <<>> /\ Top.at = "process" /\ Queued # <<>>
    BY DEF IInv, TypeOK, ProcessSequence, Goes, At
  <1>2. PICK m : m = <<>>
    OBVIOUS
  <1>3. PICK h : h = Head(Queued)
    OBVIOUS
  <1>4. /\ h \in Terms /\ h \in Paths /\ Below(h, Top.term) /\ h # Top.term /\ h \in Ahead(Top)
        /\ IsTree(sub)
    BY <1>1, <1>3, HeadApart, Here
  <1> DEFINE x == Dequeued(m)
             y == Sequence(Top.this, h)
  <1>5. /\ x.at = "process" /\ x.term = Top.term /\ FrameApart(x) /\ Fresh(Top, x)
        /\ \A q \in Ahead(x) : Apart(h, q)
        /\ Inner(x) = Top.term
    BY <1>1, <1>2, <1>3, DequeuedHead
  <1>6. y.at = "sequence" /\ y.term = h /\ y.first = 1
    BY DEF Sequence
  <1>7. calls' = Append(Append(Outer, x), y) /\ log' = log
    BY <1>2, <1>3 DEF ProcessSequence, Continue, edits
  <1> HIDE DEF x, y
  <1>8. FrameApart(y) /\ Scope(y) = h /\ Scope(Top) = Top.term
    BY <1>1, <1>6 DEF FrameApart, Scope
  <1>9. \A q \in Ahead(y) : Below(q, h)
    <2>1. \A n \in 1..sub[h].size : Below(Append(h, n), h)
      BY <1>4, KidsApart
    <2> QED BY <1>6, <2>1 DEF Ahead
  <1>10. Fresh(Top, y)
    BY <1>1, <1>4, <1>6, <1>8, <1>9 DEF Fresh
  <1>11. Within(x, y)
    BY <1>4, <1>5, <1>8 DEF Within
  <1> QED BY <1>1, <1>5, <1>7, <1>8, <1>10, <1>11, CallsLogged

LEMMA JittableIsAdd ==
  ASSUME NEW p, IsOther(p), Jittable(p), Kind(p) # "statement"
  PROVE  Kind(p) = "add"
  BY DEF IsOther, Jittable, JittableTerm, JittableStatement, KnownOp

\* The calls of _jit_trees and _jit_emit that are made for a root
LEMMA RootApart ==
  ASSUME IsTree(sub), NEW asts \in Seq(Terms), asts # <<>>, Kind(asts[1]) \in {"add", "statement"},
         NEW this, NEW p, NEW f, NEW y, y = Trees(this, p, asts, f),
         NEW root, root = asts[1], NEW z, z = Emit(this, root, f)
  PROVE  /\ y.at = "trees" /\ y.asts = asts /\ z.at = "emit" /\ z.term = root
         /\ FrameApart(y) /\ FrameApart(z) /\ Within(y, z)
         /\ Scope(y) = OpOf(root) /\ Scope(z) = root
         /\ \A q \in Ahead(y) : FALSE
         /\ Kind(root) = "statement" => OpOf(root) = root
  <1>1. y.at = "trees" /\ y.asts = asts /\ z.at = "emit" /\ z.term = root
    BY DEF Trees, Emit
  <1>2. root \in Terms /\ root \in Paths
    BY TermsArePaths
  <1>3. Kind(root) = "statement" => OpOf(root) = root /\ ~ sub[root].shared
    BY <1>2, OpOfIs
  <1>4. FrameApart(y) /\ FrameApart(z)
    BY <1>1, <1>3 DEF FrameApart
  <1>5. Scope(y) = OpOf(root) /\ Scope(z) = root /\ Inner(y) = root
    BY <1>1 DEF Scope, Inner, Emitted
  <1>6. \A q \in Ahead(y) : FALSE
    BY <1>1, <1>2 DEF Ahead
  <1>7. Within(y, z)
    BY <1>1, <1>2, <1>5, <1>6, BelowItself DEF Within
  <1> QED BY <1>1, <1>3, <1>4, <1>5, <1>6, <1>7

LEMMA ProcessTreeLogged ==
  ASSUME IInv, LogInv, Fits, ProcessTree
  PROVE  Logged
  <1>1. calls # <<>> /\ Top.at = "process" /\ Queued # <<>>
    BY DEF IInv, TypeOK, ProcessTree, Goes, At
  <1>2. PICK m : m = <<>>
    OBVIOUS
  <1>3. PICK h : h = Head(Queued)
    OBVIOUS
  <1>4. /\ h \in Terms /\ h \in Paths /\ Below(h, Top.term) /\ h # Top.term /\ h \in Ahead(Top)
        /\ Below(OpOf(h), Top.term) /\ IsTree(sub)
    BY <1>1, <1>3, HeadApart, Here
  <1>5. Kind(h) = "add"
    <2>1. IsOther(h) /\ Jittable(h)
      BY <1>3 DEF ProcessTree
    <2>2. Kind(h) # "statement"
      BY <1>1, <1>3, Here, HeadOfQueue
    <2> QED BY <2>1, <2>2, JittableIsAdd
  <1>6. PICK a \in Seq(Terms) : a = <<h>> /\ a # <<>> /\ a[1] = h
    <2>1. <<h>> \in Seq(Terms) /\ <<h>> # <<>> /\ <<h>>[1] = h
      BY <1>4
    <2> QED BY <2>1
  <1>0. PICK f : f = Len(fns) + 1
    OBVIOUS
  <1> DEFINE x == Dequeued(m)
             y == Trees(Top.this, h, a, f)
             z == Emit(Top.this, h, f)
  <1>7. calls' = Append(Append(Append(Outer, x), y), z) /\ log' = log
    BY <1>0, <1>2, <1>3, <1>6 DEF ProcessTree, JitTrees, edits
  <1> HIDE DEF x
  <1>8. /\ x.at = "process" /\ x.term = Top.term /\ FrameApart(x) /\ Fresh(Top, x)
        /\ \A q \in Ahead(x) : Apart(CutFor(h), q) /\ Apart(h, q)
        /\ Inner(x) = Top.term
    BY <1>1, <1>2, <1>3, DequeuedHead DEF x
  <1>9. /\ y.at = "trees" /\ y.asts = a /\ z.at = "emit"
        /\ FrameApart(y) /\ FrameApart(z) /\ Within(y, z)
        /\ Scope(y) = OpOf(h) /\ Scope(z) = h
        /\ (\A q \in Ahead(y) : FALSE) /\ (\A q \in Ahead(z) : q = h)
    <2>1. Kind(a[1]) \in {"add", "statement"}
      BY <1>5, <1>6
    <2>2. y = Trees(Top.this, h, a, f) /\ z = Emit(Top.this, h, f)
      OBVIOUS
    <2> HIDE DEF y, z
    <2>3. a # <<>> /\ h = a[1] /\ IsTree(sub)
      BY <1>4, <1>6
    <2>4. /\ y.at = "trees" /\ y.asts = a /\ z.at = "emit"
          /\ FrameApart(y) /\ FrameApart(z) /\ Within(y, z)
      BY <2>1, <2>2, <2>3, RootApart
    <2>5. Scope(y) = OpOf(h) /\ Scope(z) = h
      BY <2>1, <2>2, <2>3, RootApart
    <2>6. \A q \in Ahead(y) : FALSE
      BY <2>1, <2>2, <2>3, RootApart
    <2>7. \A q \in Ahead(z) : q = h
      <3>1. z.at = "emit" /\ z.term = h
        BY <2>2 DEF Emit
      <3> QED BY <3>1 DEF Ahead
    <2> QED BY <2>4, <2>5, <2>6, <2>7
  <1> HIDE DEF y, z
  <1>10. Scope(Top) = Top.term /\ CutFor(h) = OpOf(h) /\ Below(h, h)
    BY <1>1, <1>4, <1>5, BelowItself DEF Scope, CutFor
  <1>11. Fresh(Top, y)
    BY <1>1, <1>4, <1>6, <1>9, <1>10 DEF Fresh
  <1>12. Fresh(Top, z)
    BY <1>1, <1>4, <1>9, <1>10 DEF Fresh
  <1>13. Within(x, y)
    <2>1. OpOf(h) = Top.term => Top.term \in Targets
      BY <1>4, OpOfIs
    <2> QED BY <1>4, <1>8, <1>9, <1>10, <2>1 DEF Within
  <1>14. Within(x, z)
    BY <1>4, <1>8, <1>9 DEF Within
  <1> QED BY <1>1, <1>7, <1>8, <1>9, <1>11, <1>12, <1>13, <1>14, TreesLogged

\* The kids of a term that a call about them leaves alone
LEMMA KidsApartFrom ==
  ASSUME IsTree(sub), NEW p \in Terms, NEW k \in 1..sub[p].size
  PROVE  /\ Append(p, k) \in Terms /\ Append(p, k) \in Paths /\ Below(Append(p, k), p)
         /\ Append(p, k) # p /\ k \in Nat \ {0} /\ p \in Paths
         /\ \A l \in 1..sub[p].size : l # k => Apart(Append(p, k), Append(p, l))
  <1>1. /\ Append(p, k) \in Terms /\ Append(p, k) \in Paths /\ Below(Append(p, k), p)
        /\ k \in Nat \ {0} /\ p \in Paths
    BY KidTerm, TermsArePaths
  <1>2. Append(p, k) # p
    BY <1>1, KidNotTerm
  <1>3. ASSUME NEW l \in 1..sub[p].size, l # k
        PROVE  Apart(Append(p, k), Append(p, l))
    <2>1. l \in Nat \ {0}
      BY KidTerm
    <2> QED BY <1>1, <1>3, <2>1, SiblingsApart
  <1> QED BY <1>1, <1>2, <1>3

\* What a sequence goes on with keeps statements that were ahead.
LEMMA StretchFresh ==
  ASSUME IInv, LogInv, calls # <<>>, Top.at = "sequence",
         NEW x, x.at = "sequence", x.term = Top.term, x.first \in Nat, x.first >= Top.first
  PROVE  /\ FrameApart(x) /\ Fresh(Top, x) /\ Inner(x) = Top.term /\ Scope(Top) = Top.term
         /\ Top.term \in Terms /\ Top.term \in Paths
         /\ \A q \in Ahead(x) : \E n \in x.first..sub[Top.term].size : q = Append(Top.term, n)
         /\ \A n \in Top.first..sub[Top.term].size :
              n \in 1..sub[Top.term].size /\ Append(Top.term, n) \in Ahead(Top)
  <1>1. /\ Top.term \in Terms /\ Top.term \in Paths /\ Top.first \in Nat \ {0}
        /\ sub[Top.term].size \in Nat
        /\ \A k \in 1..sub[Top.term].size : Append(Top.term, k) \in Terms
    BY StretchOfTop, Here, TermsArePaths
  <1>2. FrameApart(x) /\ Scope(x) = Top.term /\ Scope(Top) = Top.term /\ Inner(x) = Top.term
    BY DEF FrameApart, Scope, Inner
  <1>3. \A q \in Ahead(x) : \E n \in x.first..sub[Top.term].size : q = Append(Top.term, n)
    BY DEF Ahead
  <1>4. ASSUME NEW n \in Top.first..sub[Top.term].size
        PROVE  n \in 1..sub[Top.term].size /\ Append(Top.term, n) \in Ahead(Top)
    <2>1. n \in 1..sub[Top.term].size
      BY <1>1
    <2> QED BY <1>1, <2>1 DEF Ahead
  <1>5. ASSUME NEW q \in Ahead(x)
        PROVE  \E a \in Ahead(Top) : Below(q, a)
    <2>1. PICK n \in x.first..sub[Top.term].size : q = Append(Top.term, n)
      BY <1>3
    <2>2. n \in Top.first..sub[Top.term].size
      BY <1>1, <2>1
    <2>3. q \in Ahead(Top) /\ q \in Paths
      BY <1>4, <2>1, <2>2, Here, ScopeIs
    <2> QED BY <2>3, BelowItself
  <1>6. Fresh(Top, x)
    BY <1>1, <1>2, <1>5, BelowItself DEF Fresh
  <1> QED BY <1>1, <1>2, <1>3, <1>4, <1>6

LEMMA SequenceTakesLogged ==
  ASSUME IInv, LogInv, Fits, SequenceTakes
  PROVE  Logged
  <1>1. calls # <<>> /\ Top.at = "sequence"
    BY DEF IInv, TypeOK, SequenceTakes, Goes, At
  <1> DEFINE x == [Top EXCEPT !.next = @ + 1]
  <1>2. x = [Top EXCEPT !.next = @ + 1] /\ calls' = Append(Outer, x) /\ log' = log
    BY DEF SequenceTakes, edits
  <1> HIDE DEF x
  <1>3. x.at = "sequence" /\ x.term = Top.term /\ x.first = Top.first
    BY <1>1, <1>2, Here, StretchTakes
  <1>4. Top.first \in Nat /\ Top.first >= Top.first
    BY <1>1, StretchOfTop
  <1>5. FrameApart(x) /\ Fresh(Top, x)
    BY <1>1, <1>3, <1>4, StretchFresh
  <1> QED BY <1>1, <1>2, <1>3, <1>5, GoesOnLogged

\* A call about one statement of the stretch, and the sequence that goes on behind it
LEMMA StatementWithin ==
  ASSUME IInv, LogInv, calls # <<>>, Top.at = "sequence",
         NEW x, x.at = "sequence", x.term = Top.term, x.first \in Nat, x.first > Top.first,
         Top.first <= sub[Top.term].size, NEW y, Scope(y) = Append(Top.term, Top.first)
  PROVE  /\ Within(x, y) /\ Below(Scope(y), Scope(Top))
         /\ Append(Top.term, Top.first) \in Ahead(Top)
         /\ Append(Top.term, Top.first) \in Terms /\ Append(Top.term, Top.first) \in Paths
         /\ Kind(Append(Top.term, Top.first)) = "statement"
  <1>1. /\ Top.first \in Nat \ {0} /\ sub[Top.term].size \in Nat
        /\ Top.first \in 1..sub[Top.term].size
        /\ Kind(Append(Top.term, Top.first)) = "statement"
    BY StretchOfTop
  <1>2. x.first >= Top.first
    BY <1>1
  <1>3. /\ Inner(x) = Top.term /\ Scope(Top) = Top.term /\ Top.term \in Terms
        /\ \A q \in Ahead(x) : \E n \in x.first..sub[Top.term].size : q = Append(Top.term, n)
        /\ \A n \in Top.first..sub[Top.term].size : Append(Top.term, n) \in Ahead(Top)
    BY <1>2, StretchFresh
  <1>4. /\ Append(Top.term, Top.first) \in Terms /\ Append(Top.term, Top.first) \in Paths
        /\ Below(Append(Top.term, Top.first), Top.term)
        /\ \A l \in 1..sub[Top.term].size : l # Top.first =>
             Apart(Append(Top.term, Top.first), Append(Top.term, l))
    BY <1>1, <1>3, Here, KidsApartFrom
  <1>5. ASSUME NEW q \in Ahead(x)
        PROVE  Apart(Scope(y), q)
    <2>1. PICK n \in x.first..sub[Top.term].size : q = Append(Top.term, n)
      BY <1>3
    <2>2. n \in 1..sub[Top.term].size /\ n # Top.first
      BY <1>1, <2>1
    <2> QED BY <1>4, <2>1, <2>2
  <1>6. Within(x, y)
    BY <1>3, <1>4, <1>5 DEF Within
  <1>7. Append(Top.term, Top.first) \in Ahead(Top)
    BY <1>1, <1>3
  <1> QED BY <1>1, <1>3, <1>4, <1>6, <1>7

LEMMA SequenceFlushesLogged ==
  ASSUME IInv, LogInv, Fits, SequenceFlushes
  PROVE  Logged
  <1>1. calls # <<>> /\ Top.at = "sequence" /\ Top.first < Top.next
    BY DEF IInv, TypeOK, SequenceFlushes, Goes, At
  <1>2. PICK n \in Nat \ {0} : n = Top.next - Top.first
    BY <1>1, StretchOfTop
  <1> DEFINE s == [i \in 1..(Top.next - Top.first) |-> Append(Top.term, Top.first + (i - 1))]
  <1>3. \A i \in 1..n : Top.first + (i - 1) \in 1..sub[Top.term].size
    BY <1>1, <1>2, StretchOfTop
  <1>4. \A i \in 1..n : Append(Top.term, Top.first + (i - 1)) \in Terms
    BY <1>1, <1>3, StretchOfTop
  <1>5. s \in [1..n -> Terms] /\ s[1] = Append(Top.term, Top.first + (1 - 1))
    BY <1>2, <1>4
  <1>6. s \in Seq(Terms) /\ s # <<>>
    <2> HIDE DEF s
    <2> QED BY <1>5
  <1>7. Top.first + (1 - 1) = Top.first /\ Top.first <= sub[Top.term].size
        /\ Top.next \in Nat /\ Top.next > Top.first
    BY <1>1, StretchOfTop
  <1>8. PICK a \in Seq(Terms) : a = s /\ a # <<>> /\ a[1] = Append(Top.term, Top.first)
    BY <1>5, <1>6, <1>7
  <1>9. PICK root : root = a[1] /\ root = Append(Top.term, Top.first)
    BY <1>8
  <1>10. PICK f : f = Len(fns) + 1
    OBVIOUS
  <1>11. PICK x : x = [Top EXCEPT !.first = Top.next]
    OBVIOUS
  <1>12. PICK y : y = Trees(Top.this, Top.term, a, f)
    OBVIOUS
  <1>13. PICK z : z = Emit(Top.this, root, f)
    OBVIOUS
  <1>14. calls' = Append(Append(Append(Outer, x), y), z) /\ log' = log
    <2>1. JitTrees(x, Top.term, a) /\ log' = log
      BY <1>8, <1>11 DEF SequenceFlushes, edits
    <2> QED BY <2>1, <1>9, <1>10, <1>12, <1>13 DEF JitTrees
  <1> HIDE DEF s
  <1>15. x.at = "sequence" /\ x.term = Top.term /\ x.first = Top.next
    BY <1>1, <1>11, Here, StretchFlushed
  <1>16. Top.next >= Top.first /\ Top.first \in Nat \ {0} /\ IsTree(sub)
    BY <1>1, StretchOfTop, Here
  <1>17. FrameApart(x) /\ Fresh(Top, x)
    BY <1>1, <1>7, <1>15, <1>16, StretchFresh
  <1>18. Kind(root) = "statement" /\ root \in Terms
    <2>1. Top.first \in 1..sub[Top.term].size
      BY <1>1, <1>7, <1>16, StretchOfTop
    <2> QED BY <1>1, <1>9, <2>1, StretchOfTop
  <1>19. /\ y.at = "trees" /\ y.asts = a /\ z.at = "emit" /\ z.term = root
         /\ FrameApart(y) /\ FrameApart(z) /\ Within(y, z)
         /\ Scope(y) = OpOf(root) /\ Scope(z) = root
         /\ (\A q \in Ahead(y) : FALSE)
         /\ OpOf(root) = root
    <2>1. root = a[1] /\ a # <<>> /\ Kind(a[1]) \in {"add", "statement"}
      BY <1>8, <1>9, <1>18
    <2>2. y.at = "trees" /\ y.asts = a /\ z.at = "emit" /\ z.term = root
      BY <1>12, <1>13 DEF Trees, Emit
    <2>3. FrameApart(y) /\ FrameApart(z) /\ Within(y, z)
      BY <1>12, <1>13, <1>16, <2>1, RootApart
    <2>4. Scope(y) = OpOf(root) /\ Scope(z) = root
      BY <1>12, <1>13, <1>16, <2>1, RootApart
    <2>5. \A q \in Ahead(y) : FALSE
      BY <1>12, <1>13, <1>16, <2>1, RootApart
    <2>6. OpOf(root) = root
      BY <1>12, <1>13, <1>16, <1>18, <2>1, RootApart
    <2> QED BY <2>2, <2>3, <2>4, <2>5, <2>6
  <1>20. \A q \in Ahead(z) : q = root
    BY <1>19 DEF Ahead
  <1>21. Scope(y) = Append(Top.term, Top.first) /\ Scope(z) = Append(Top.term, Top.first)
    BY <1>9, <1>19
  <1>22. /\ Within(x, y) /\ Below(Scope(y), Scope(Top))
         /\ Within(x, z) /\ Below(Scope(z), Scope(Top))
         /\ root \in Ahead(Top) /\ root \in Paths
    BY <1>1, <1>7, <1>9, <1>15, <1>21, StatementWithin
  <1>23. Below(root, root)
    BY <1>22, BelowItself
  <1>24. Fresh(Top, y)
    BY <1>1, <1>8, <1>9, <1>19, <1>22, <1>23 DEF Fresh
  <1>25. Fresh(Top, z)
    BY <1>1, <1>19, <1>20, <1>22, <1>23 DEF Fresh
  <1> QED BY <1>1, <1>14, <1>15, <1>17, <1>19, <1>22, <1>24, <1>25, TreesLogged

LEMMA SequenceSearchesLogged ==
  ASSUME IInv, LogInv, Fits, SequenceSearches
  PROVE  Logged
  <1>1. calls # <<>> /\ Top.at = "sequence" /\ More /\ Top.first = Top.next
    BY DEF IInv, TypeOK, SequenceSearches, Goes, At
  <1>2. PICK x : x = [Top EXCEPT !.first = @ + 1, !.next = @ + 1]
    OBVIOUS
  <1>3. PICK y : y = Process(Top.this, Next1)
    OBVIOUS
  <1>4. calls' = Append(Append(Outer, x), y) /\ log' = log
    BY <1>2, <1>3 DEF SequenceSearches, Continue, edits
  <1>5. x.at = "sequence" /\ x.term = Top.term /\ x.first = Top.first + 1
    <2>1. Top \in [at : {"sequence"}, this : 1..EmittersAlive, term : Terms, first : Nat, next : Nat]
      BY <1>1, Here DEF CallsUpTo
    <2> QED BY <1>2, <2>1
  <1>6. /\ Top.first <= sub[Top.term].size /\ x.first \in Nat /\ x.first > Top.first
        /\ x.first >= Top.first /\ Next1 = Append(Top.term, Top.first)
    BY <1>1, <1>5, StretchOfTop DEF More, Next1
  <1>7. FrameApart(x) /\ Fresh(Top, x)
    BY <1>1, <1>5, <1>6, StretchFresh
  <1>8. y.at = "process" /\ y.term = Next1 /\ y.queue = Kids(Next1)
    BY <1>3 DEF Process
  <1>9. Scope(y) = Append(Top.term, Top.first)
    BY <1>6, <1>8 DEF Scope
  <1>10. /\ Within(x, y) /\ Below(Scope(y), Scope(Top)) /\ Next1 \in Ahead(Top) /\ Next1 \in Terms
    BY <1>1, <1>5, <1>6, <1>9, StatementWithin
  <1>11. FrameApart(y) /\ \A q \in Ahead(y) : Below(q, Next1)
    BY <1>1, <1>8, <1>10, Here, SearchOfKids
  <1>12. Fresh(Top, y)
    BY <1>1, <1>8, <1>10, <1>11 DEF Fresh
  <1> QED BY <1>1, <1>4, <1>5, <1>7, <1>10, <1>11, <1>12, CallsLogged

\* An operand of an addition is a term with an op of its own.
LEMMA OperandApart ==
  ASSUME IsTree(sub), NEW p \in Terms, Kind(p) = "add"
  PROVE  /\ \A k \in {1, 2} : /\ Append(p, k) \in Terms /\ Append(p, k) \in Paths
                              /\ Below(Append(p, k), p) /\ ~ sub[Append(p, k)].shared
         /\ Apart(Append(p, 1), Append(p, 2)) /\ p \in Paths
  <1>1. sub[p].size = 2
    BY DEF IsTree, Terms, Kind
  <1>2. 1 \in 1..sub[p].size /\ 2 \in 1..sub[p].size
    BY <1>1
  <1>3. ASSUME NEW k \in {1, 2}
        PROVE  /\ Append(p, k) \in Terms /\ Append(p, k) \in Paths
               /\ Below(Append(p, k), p) /\ ~ sub[Append(p, k)].shared
    <2>1. k \in 1..sub[p].size
      BY <1>2
    <2> QED BY <2>1, KidTerm, KidHasOwnOp
  <1>4. Apart(Append(p, 1), Append(p, 2))
    <2>1. \A l \in 1..sub[p].size : l # 1 => Apart(Append(p, 1), Append(p, l))
      BY <1>2, KidsApartFrom
    <2> QED BY <1>2, <2>1
  <1> QED BY <1>3, <1>4, TermsArePaths

\* The emission of an operand
LEMMA OperandLogged ==
  ASSUME IInv, LogInv, calls # <<>>, Kind(Top.term) = "add", Top.at \in {"emit", "binop"},
         NEW k \in {1, 2}, NEW x, x.at = "binop", x.term = Top.term,
         Emitted(x) = Append(Top.term, k), \A q \in Ahead(x) : k = 1 /\ q = Append(Top.term, 2),
         \E a \in Ahead(Top) : Below(Append(Top.term, 2), a) /\ Below(Append(Top.term, k), a),
         NEW y, y.at = "emit", y.term = Append(Top.term, k)
  PROVE  FrameApart(x) /\ Fresh(Top, x) /\ FrameApart(y) /\ Fresh(Top, y) /\ Within(x, y)
  <1>1. /\ Top.term \in Terms /\ Top.term \in Paths /\ IsTree(sub)
        /\ Append(Top.term, k) \in Paths /\ Below(Append(Top.term, k), Top.term)
        /\ ~ sub[Append(Top.term, k)].shared
        /\ Apart(Append(Top.term, 1), Append(Top.term, 2))
    BY Here, OperandApart
  <1>2. FrameApart(x) /\ FrameApart(y)
    BY <1>1 DEF FrameApart
  <1>3. Scope(x) = Top.term /\ Scope(y) = Append(Top.term, k) /\ Scope(Top) = Top.term
        /\ Inner(x) = Append(Top.term, k)
    BY DEF Scope, Inner
  <1>4. \A q \in Ahead(y) : q = Append(Top.term, k)
    BY DEF Ahead
  <1>5. Fresh(Top, x)
    BY <1>1, <1>3, BelowItself DEF Fresh
  <1>6. Fresh(Top, y)
    BY <1>1, <1>3, <1>4 DEF Fresh
  <1>7. Within(x, y)
    BY <1>1, <1>3, BelowItself DEF Within
  <1> QED BY <1>2, <1>5, <1>6, <1>7

LEMMA EmitBinopLogged ==
  ASSUME IInv, LogInv, Fits, EmitBinop
  PROVE  Logged
  <1>1. calls # <<>> /\ Top.at = "emit" /\ Kind(Top.term) = "add"
    BY DEF IInv, TypeOK, EmitBinop, At
  <1>2. PICK x : x = Binop(Top.this, Top.term, Top.fn)
    OBVIOUS
  <1>3. PICK y : y = Emit(Top.this, Operand(Top.term, "pending"), Top.fn)
    OBVIOUS
  <1>4. calls' = Append(Append(Outer, x), y) /\ log' = log
    BY <1>2, <1>3 DEF EmitBinop, Continue, edits
  <1>5. x.at = "binop" /\ x.term = Top.term /\ x.left = "pending"
    BY <1>2 DEF Binop
  <1>6. y.at = "emit" /\ y.term = Append(Top.term, 1)
    BY <1>3 DEF Emit, Operand
  <1>7. Emitted(x) = Append(Top.term, 1) /\ \A q \in Ahead(x) : q = Append(Top.term, 2)
    BY <1>5 DEF Emitted, Operand, Ahead
  <1>8. /\ Top.term \in Ahead(Top)
        /\ Below(Append(Top.term, 1), Top.term) /\ Below(Append(Top.term, 2), Top.term)
    BY <1>1, Here, OperandApart DEF Ahead
  <1>9. PICK k \in {1, 2} : k = 1
    OBVIOUS
  <1>10. FrameApart(x) /\ Fresh(Top, x) /\ FrameApart(y) /\ Fresh(Top, y) /\ Within(x, y)
    BY <1>1, <1>5, <1>6, <1>7, <1>8, <1>9, OperandLogged
  <1> QED BY <1>1, <1>4, <1>5, <1>10, CallsLogged

LEMMA BinopRightLogged ==
  ASSUME IInv, LogInv, Fits, BinopRight
  PROVE  Logged
  <1>1. calls # <<>> /\ Top.at = "binop" /\ Top.left = "pending" /\ Kind(Top.term) = "add"
    <2>1. calls # <<>> /\ Top.at = "binop" /\ Top.left = "pending"
      BY DEF IInv, TypeOK, BinopRight, At
    <2> QED BY <2>1, Here DEF CallWhole
  <1>2. PICK x : x = [Top EXCEPT !.left = value]
    OBVIOUS
  <1>3. PICK y : y = Emit(Top.this, Operand(Top.term, value), Top.fn)
    OBVIOUS
  <1>4. calls' = Append(Append(Outer, x), y) /\ log' = log
    BY <1>2, <1>3 DEF BinopRight, Continue, edits
  <1>5. value \in Types /\ value # "pending"
    BY DEF IInv, TypeOK, Types
  <1>6. x.at = "binop" /\ x.term = Top.term /\ x.left = value
    BY <1>1, <1>2, <1>5, Here, LeftChanged
  <1>7. y.at = "emit" /\ y.term = Append(Top.term, 2)
    BY <1>3, <1>5 DEF Emit, Operand
  <1>8. Emitted(x) = Append(Top.term, 2) /\ \A q \in Ahead(x) : FALSE
    BY <1>5, <1>6 DEF Emitted, Operand, Ahead
  <1>9. Append(Top.term, 2) \in Ahead(Top) /\ Below(Append(Top.term, 2), Append(Top.term, 2))
    BY <1>1, Here, OperandApart, BelowItself DEF Ahead
  <1>10. PICK k \in {1, 2} : k = 2
    OBVIOUS
  <1>11. FrameApart(x) /\ Fresh(Top, x) /\ FrameApart(y) /\ Fresh(Top, y) /\ Within(x, y)
    BY <1>1, <1>6, <1>7, <1>8, <1>9, <1>10, OperandLogged
  <1> QED BY <1>1, <1>4, <1>6, <1>11, CallsLogged

LEMMA EmitOptreeJitKidsLogged ==
  ASSUME IInv, LogInv, Fits, EmitOptreeJitKids
  PROVE  Logged
  <1>1. calls # <<>> /\ Top.at = "emit"
    BY DEF IInv, TypeOK, EmitOptreeJitKids, At
  <1>2. PICK x : x = JitKids(Top.this, Top.term, Top.fn)
    OBVIOUS
  <1>3. PICK y : y = Process(Top.this + 1, Top.term)
    OBVIOUS
  <1>4. calls' = Append(Append(Outer, x), y) /\ log' = log
    BY <1>2, <1>3 DEF EmitOptreeJitKids, Continue, edits
  <1>5. x.at = "kids" /\ x.term = Top.term
    BY <1>2 DEF JitKids
  <1>6. y.at = "process" /\ y.term = Top.term /\ y.queue = Kids(Top.term)
    BY <1>3 DEF Process
  <1>7. /\ Top.term \in Terms /\ Top.term \in Paths /\ IsTree(sub)
        /\ Kind(Top.term) = "add" \/ ~ sub[Top.term].shared
    BY <1>1, Here, TermsArePaths, LogHere DEF FrameApart
  <1>8. Top.term \in Ahead(Top) /\ Below(Top.term, Top.term)
    BY <1>1, <1>7, BelowItself DEF Ahead
  <1>9. Scope(x) = Top.term /\ Scope(y) = Top.term /\ Scope(Top) = Top.term /\ Inner(x) = Top.term
    BY <1>1, <1>5, <1>6 DEF Scope, Inner
  <1>10. \A q \in Ahead(x) : FALSE
    BY <1>5 DEF Ahead
  <1>11. FrameApart(y) /\ \A q \in Ahead(y) : Below(q, Top.term)
    BY <1>6, <1>7, SearchOfKids
  <1>12. FrameApart(x)
    BY <1>5, <1>7 DEF FrameApart
  <1>13. Fresh(Top, x)
    BY <1>1, <1>5, <1>8, <1>9, <1>10 DEF Fresh
  <1>14. Fresh(Top, y)
    BY <1>1, <1>6, <1>8, <1>9, <1>11 DEF Fresh
  <1>15. Within(x, y)
    BY <1>5, <1>8, <1>9, <1>10 DEF Within
  <1> QED BY <1>1, <1>4, <1>5, <1>6, <1>11, <1>12, <1>13, <1>14, <1>15, CallsLogged

-----------------------------------------------------------------------------
(* What is logged *)

\* A call of the stack and the one it has made
LEMMA CallerAndCalled ==
  ASSUME IInv, LogInv, calls # <<>>, NEW n \in 1..Len(Outer)
  PROVE  /\ calls[n] = Outer[n] /\ calls[n] \in CallsUpTo(EmittersAlive, FunctionsMade)
         /\ CallWhole(calls[n]) /\ FrameApart(calls[n]) /\ Within(calls[n], Top)
         /\ Called(calls[n], calls[n + 1])
         /\ calls[n].at = "kids" => calls[n + 1].term = calls[n].term
         /\ n + 1 \in 1..Len(Outer) \/ calls[n + 1] = Top
  <1>1. /\ Len(calls) \in Nat \ {0} /\ Len(Outer) = Len(calls) - 1 /\ Outer[n] = calls[n]
        /\ calls[Len(calls)] = Top
    BY Here, TopAndOuter DEF Top
  <1>2. n \in 1..(Len(calls) - 1) /\ n \in 1..Len(calls)
    BY <1>1
  <1>3. /\ Called(calls[n], calls[n + 1]) /\ FrameApart(calls[n])
        /\ calls[n].at = "kids" => calls[n + 1].term = calls[n].term
    BY <1>2, Here DEF Stack, LogInv, ApartStack
  <1>4. Within(calls[n], Top) /\ CallWhole(calls[n])
        /\ calls[n] \in CallsUpTo(EmittersAlive, FunctionsMade)
    BY <1>1, Here, LogHere, CallReturns
  <1>5. n + 1 \in 1..Len(Outer) \/ n + 1 = Len(calls)
    BY <1>1, <1>2
  <1> QED BY <1>1, <1>3, <1>4, <1>5

\* What the call on top cuts, no call outside it is still to cut or turn to.
LEMMA CutPassed ==
  ASSUME IInv, LogInv, calls # <<>>, Top.at \in {"trees", "kids"},
         NEW edit, edit.cut[1] = Scope(Top), Top.at = "trees" => edit.kind = "replace",
         NEW n \in 1..Len(Outer)
  PROVE  Passed(edit, Outer[n])
  <1> DEFINE c == calls[n]
             d == calls[n + 1]
             op == Scope(Top)
  <1>1. /\ c = Outer[n] /\ c \in CallsUpTo(EmittersAlive, FunctionsMade)
        /\ CallWhole(c) /\ FrameApart(c) /\ Within(c, Top) /\ Called(c, d)
        /\ c.at = "kids" => d.term = c.term
        /\ n + 1 \in 1..Len(Outer) \/ d = Top
    BY CallerAndCalled
  <1>2. /\ IsTree(sub) /\ op \in Paths /\ c.term \in Paths /\ Scope(c) \in Paths
        /\ Scope(Top) \in Terms
    BY <1>1, Here, ScopeIs
  <1> HIDE DEF op, c
  <1>3. \A q \in Ahead(c) : Apart(op, q)
    BY <1>1 DEF Within, op
  <1>4. ASSUME c.at = "trees", Kind(c.asts[1]) # "statement"
        PROVE  ~ Below(Scope(c), op)
    <2>1. PICK a \in Terms : a = c.asts[1] /\ Kind(a) = "add" /\ Below(a, OpOf(a)) /\ a \in Paths
                             /\ OpOf(a) \in Paths /\ Scope(c) = OpOf(a)
      <3>1. c.asts \in Seq(Terms) /\ c.asts # <<>>
        BY <1>1, <1>4, CallFields DEF CallWhole
      <3>2. c.asts[1] \in Terms /\ Kind(c.asts[1]) = "add" /\ Scope(c) = OpOf(c.asts[1])
        BY <1>1, <1>4, <3>1 DEF FrameApart, Scope
      <3> QED BY <1>2, <3>2, OpOfIs, TermsArePaths
    <2>2. d.at \in {"emit", "binop", "kids"} /\ d.term = a
      BY <1>1, <1>4, <2>1 DEF Called, Emitted
    <2>3. d.at = "binop" /\ n + 1 \in 1..Len(Outer)
      <3>1. d # Top
        <4>1. d = Top => CallWhole(d) /\ d.at = "kids"
          BY <2>2, Here
        <4> QED BY <2>1, <2>2, <4>1 DEF CallWhole, IsTreeOfOps
      <3>2. n + 1 \in 1..Len(Outer)
        BY <1>1, <3>1
      <3>3. CallWhole(d) /\ Called(d, calls[(n + 1) + 1])
        BY <3>2, CallerAndCalled
      <3>4. d.at # "emit"
        BY <3>3 DEF Called
      <3>5. d.at # "kids"
        BY <2>1, <2>2, <3>3 DEF CallWhole, IsTreeOfOps
      <3> QED BY <2>2, <3>2, <3>4, <3>5
    <2>4. Below(op, Inner(d))
      BY <2>3, CallerAndCalled DEF Within, op
    <2>5. PICK i \in {1, 2} : Inner(d) = Append(a, i)
      BY <2>2, <2>3 DEF Inner, Emitted, Operand
    <2>6. ~ Below(a, Append(a, i)) /\ Append(a, i) \in Paths
      BY <1>2, <2>1, KidNotTerm, OperandApart
    <2> QED BY <1>2, <2>1, <2>4, <2>5, <2>6, BelowBelow
  <1>5. ASSUME c.at = "kids", Below(c.term, op)
        PROVE  c.term = op /\ op \in Targets /\ edit.kind = "replace"
    <2>1. d.at = "process" /\ d.term = c.term
      BY <1>1, <1>5 DEF Called, Emissions
    <2>2. n + 1 \in 1..Len(Outer)
      BY <1>1, <2>1
    <2>3. Within(d, Top)
      BY <2>2, CallerAndCalled
    <2>4. Below(op, c.term)
      BY <2>1, <2>3 DEF Within, Inner, op
    <2>5. op = c.term
      BY <1>2, <1>5, <2>4, BelowBoth
    <2>6. Top.at = "trees" /\ c.term \in Targets
      BY <2>1, <2>3, <2>5 DEF Within, op
    <2> QED BY <2>5, <2>6
  <1> QED BY <1>1, <1>3, <1>4, <1>5 DEF Passed, op

\* A JIT op is no op of the sub.
LEMMA JitOpIsNew ==
  ASSUME IsTree(sub), NEW f
  PROVE  JitOp(f) \notin Ops
  <1>1. JitOp(f) \notin Paths
    <2>1. JitOp(f)[1] = 0 /\ Len(JitOp(f)) = 2
      BY DEF JitOp
    <2> QED BY <2>1 DEF Paths
  <1> QED BY <1>1, OpsAreTerms, TermsArePaths

\* The log grows by one edit, of what the call on top cuts, and the call returns.
LEMMA EditLogged ==
  ASSUME IInv, LogInv, calls # <<>>, Top.at \in {"trees", "kids"}, calls' = Outer,
         NEW edit, log' = Append(log, edit), edit.cut[1] = Scope(Top), EditWhole(edit),
         Top.at = "trees" => edit.kind = "replace" /\ Kind(Top.asts[1]) # "statement",
         Top.at = "kids" => edit.kind = "detach"
  PROVE  Logged /\ InnerFirst(log')
  <1>1. log \in Seq(Edits) /\ InnerFirst(log) /\ LogPassed(log, Outer) /\ ApartStack(Outer)
        /\ \A i \in 1..Len(log) : Passed(log[i], Top)
    BY LogHere DEF IInv, TypeOK, LogInv
  <1>2. /\ Len(log') = Len(log) + 1 /\ Len(log) \in Nat
        /\ \A i \in 1..Len(log) : log'[i] = log[i]
        /\ log'[Len(log) + 1] = edit
        /\ \A i \in 1..Len(log') : i \in 1..Len(log) \/ i = Len(log) + 1
    <2> HIDE DEF Edits
    <2> QED BY <1>1
  <1>3. \A n \in 1..Len(Outer) : Passed(edit, Outer[n])
    BY CutPassed
  <1>4. LogPassed(log', Outer)
    <2>1. ASSUME NEW i \in 1..Len(log'), NEW n \in 1..Len(Outer)
          PROVE  Passed(log'[i], Outer[n])
      <3>1. CASE i \in 1..Len(log)
        BY <1>1, <1>2, <3>1 DEF LogPassed
      <3>2. CASE i = Len(log) + 1
        BY <1>2, <1>3, <3>2
      <3> QED BY <1>2, <3>1, <3>2
    <2> QED BY <2>1 DEF LogPassed
  <1>5. ASSUME NEW i \in 1..Len(log)
        PROVE  Precedes(log[i], edit)
    <2>1. Passed(log[i], Top)
      BY <1>1
    <2>2. CASE Top.at = "trees"
      BY <2>1, <2>2 DEF Passed, Precedes
    <2>3. CASE Top.at = "kids"
      BY <2>1, <2>3 DEF Passed, Precedes, Scope
    <2> QED BY <2>2, <2>3
  <1>6. InnerFirst(log')
    <2>1. ASSUME NEW i \in 1..Len(log')
          PROVE  EditWhole(log'[i])
      BY <1>1, <1>2 DEF InnerFirst
    <2>2. ASSUME NEW i \in 1..Len(log'), NEW j \in 1..Len(log'), i < j
          PROVE  Precedes(log'[i], log'[j])
      <3>1. i \in 1..Len(log)
        BY <1>2, <2>2
      <3>2. CASE j \in 1..Len(log)
        BY <1>1, <1>2, <2>2, <3>1, <3>2 DEF InnerFirst
      <3>3. CASE j = Len(log) + 1
        BY <1>2, <1>5, <3>1, <3>3
      <3> QED BY <1>2, <3>2, <3>3
    <2> QED BY <2>1, <2>2 DEF InnerFirst
  <1> QED BY <1>1, <1>4, <1>6 DEF Logged, FreshCalls

LEMMA EmitOptreeLogged ==
  ASSUME IInv, LogInv, EmitOptree
  PROVE  Logged /\ InnerFirst(log') /\ \E op \in Ops : log' = Append(log, Detach(op))
  <1>1. calls # <<>> /\ Top.at = "kids"
    BY DEF IInv, TypeOK, EmitOptree, Goes, At
  <1>2. calls' = Outer
    BY DEF EmitOptree, RunTree, Returning
  <1>3. OpOf(Top.term) = Top.term /\ OpOf(Top.term) \in Ops
    <2>1. Kind(Top.term) # "add" /\ HasOp(Top.term) /\ Top.term \in Terms
      BY <1>1, Here DEF CallWhole, IsTreeOfOps
    <2>2. ~ sub[Top.term].shared
      BY <1>1, <2>1, LogHere DEF FrameApart
    <2> QED BY <2>1, <2>2, OpOfTerm DEF OpOf
  <1>4. PICK edit : edit = Detach(OpOf(Top.term))
    OBVIOUS
  <1>5. /\ edit.kind = "detach" /\ edit.cut = <<Top.term>> /\ edit.by = Top.term
        /\ edit.cut[1] = Top.term /\ Len(edit.cut) = 1
    BY <1>3, <1>4 DEF Detach
  <1>6. log' = Append(log, edit)
    BY <1>4 DEF EmitOptree
  <1>7. Scope(Top) = Top.term /\ EditWhole(edit)
    BY <1>1, <1>5 DEF Scope, EditWhole
  <1>8. Logged /\ InnerFirst(log')
    BY <1>1, <1>2, <1>5, <1>6, <1>7, EditLogged
  <1> QED BY <1>3, <1>4, <1>6, <1>8

LEMMA JitTreesGoOnLogged ==
  ASSUME IInv, LogInv, JitTreesGoOn
  PROVE  Logged /\ InnerFirst(log')
         /\ \E op \in Ops : log' = Append(log, Replace(<<op>>, Top.fn))
  <1>1. /\ calls # <<>> /\ Top.at = "trees" /\ calls' = Outer
        /\ log' = Append(log, Replace(Replaced, Top.fn)) /\ Kind(Top.asts[1]) # "statement"
    BY JitTreesGoOnMakes
  <1>2. PICK op : op = OpOf(Top.asts[1])
    OBVIOUS
  <1>3. op \in Ops /\ Scope(Top) = op /\ Replaced = <<op>>
    BY <1>1, <1>2, TreesOfTop, OpOfTerm DEF Scope, Replaced, IsStatements
  <1>4. PICK edit : edit = Replace(<<op>>, Top.fn)
    OBVIOUS
  <1>5. /\ edit.kind = "replace" /\ edit.cut = <<op>> /\ edit.by = JitOp(Top.fn)
        /\ edit.cut[1] = op /\ Len(edit.cut) = 1
    BY <1>4 DEF Replace
  <1>6. log' = Append(log, edit)
    BY <1>1, <1>3, <1>4
  <1>7. EditWhole(edit)
    BY <1>1, <1>5, Here, JitOpIsNew DEF EditWhole
  <1>8. Logged /\ InnerFirst(log')
    BY <1>1, <1>3, <1>5, <1>6, <1>7, EditLogged
  <1> QED BY <1>3, <1>4, <1>6, <1>8

-----------------------------------------------------------------------------
(* The invariant *)

LEMMA NextLogged ==
  ASSUME IInv, LogInv, [Next]_vars
  PROVE  Logged /\ InnerFirst(log')
  <1>1. Fits
    BY NextFits
  <1>2. ASSUME Logged, log' = log
        PROVE  Logged /\ InnerFirst(log')
    BY <1>2 DEF LogInv
  <1>3. ASSUME calls' = Outer, calls # <<>>, log' = log
        PROVE  Logged /\ InnerFirst(log')
    BY <1>2, <1>3, ReturnsLogged
  <1>4. ASSUME calls' = calls, log' = log
        PROVE  Logged /\ InnerFirst(log')
    BY <1>4 DEF LogInv, Logged, FreshCalls
  <1>5. CASE ProcessVariable
    BY <1>1, <1>2, <1>5, ProcessVariableLogged DEF ProcessVariable, edits
  <1>6. CASE ProcessSequence
    BY <1>1, <1>2, <1>6, ProcessSequenceLogged DEF ProcessSequence, edits
  <1>7. CASE ProcessTree
    BY <1>1, <1>2, <1>7, ProcessTreeLogged DEF ProcessTree, edits
  <1>8. CASE ProcessKids
    BY <1>1, <1>2, <1>8, ProcessKidsLogged DEF ProcessKids, edits
  <1>9. CASE ProcessReturns
    BY <1>3, <1>9 DEF ProcessReturns, edits, At, IInv, TypeOK
  <1>10. CASE SequenceTakes
    BY <1>1, <1>2, <1>10, SequenceTakesLogged DEF SequenceTakes, edits
  <1>11. CASE SequenceFlushes
    BY <1>1, <1>2, <1>11, SequenceFlushesLogged DEF SequenceFlushes, edits
  <1>12. CASE SequenceSearches
    BY <1>1, <1>2, <1>12, SequenceSearchesLogged DEF SequenceSearches, edits
  <1>13. CASE SequenceReturns
    BY <1>3, <1>13 DEF SequenceReturns, edits, At, IInv, TypeOK
  <1>14. CASE EmitConst
    BY <1>3, <1>14 DEF EmitConst, Returning, edits, At, IInv, TypeOK
  <1>15. CASE GetLexical
    BY <1>3, <1>15 DEF GetLexical, Returning, edits, At, IInv, TypeOK
  <1>16. CASE EmitBinop
    BY <1>1, <1>2, <1>16, EmitBinopLogged DEF EmitBinop, edits
  <1>17. CASE BinopRight
    BY <1>1, <1>2, <1>17, BinopRightLogged DEF BinopRight, edits
  <1>18. CASE BinopCrashes
    BY <1>4, <1>18 DEF BinopCrashes, edits
  <1>19. CASE BinopAdds
    BY <1>3, <1>19 DEF BinopAdds, Returning, edits, At, IInv, TypeOK
  <1>20. CASE EmitOptreeJitKids
    BY <1>1, <1>2, <1>20, EmitOptreeJitKidsLogged DEF EmitOptreeJitKids, edits
  <1>21. CASE JitKidsFail
    BY <1>3, <1>21 DEF JitKidsFail, Returning, edits, At, IInv, TypeOK
  <1>22. CASE EmitOptree
    BY <1>22, EmitOptreeLogged
  <1>23. CASE JitTreesFail
    BY <1>3, <1>23 DEF JitTreesFail, edits, At, IInv, TypeOK
  <1>24. CASE JitTreesGoOn
    BY <1>24, JitTreesGoOnLogged
  <1>25. CASE Apply
    <2>1. calls' = calls /\ calls = <<>> /\ log # <<>> /\ log' = Tail(log)
      BY <1>25 DEF Apply, IInv, TypeOK
    <2>2. log \in Seq(Edits) /\ InnerFirst(log)
      BY DEF IInv, TypeOK, LogInv
    <2>3. /\ Len(log') = Len(log) - 1 /\ Len(log) \in Nat
          /\ \A i \in 1..Len(log') : log'[i] = log[i + 1] /\ i + 1 \in 1..Len(log)
      <3> HIDE DEF Edits
      <3> QED BY <2>1, <2>2
    <2>4. InnerFirst(log')
      <3>1. \A i \in 1..Len(log') : EditWhole(log'[i])
        BY <2>2, <2>3 DEF InnerFirst
      <3>2. ASSUME NEW i \in 1..Len(log'), NEW j \in 1..Len(log'), i < j
            PROVE  Precedes(log'[i], log'[j])
        <4>1. /\ i + 1 \in 1..Len(log) /\ j + 1 \in 1..Len(log) /\ i + 1 < j + 1
              /\ log'[i] = log[i + 1] /\ log'[j] = log[j + 1]
          BY <2>3, <3>2
        <4>2. Precedes(log[i + 1], log[j + 1])
          BY <2>2, <4>1 DEF InnerFirst
        <4> QED BY <4>1, <4>2
      <3> QED BY <3>1, <3>2 DEF InnerFirst
    <2>5. Logged
      BY <2>1 DEF Logged, FreshCalls, ApartStack, LogPassed
    <2> QED BY <2>4, <2>5
  <1>26. CASE Finish
    BY <1>4, <1>26 DEF Finish, edits
  <1>27. CASE UNCHANGED vars
    BY <1>4, <1>27 DEF vars
  <1> QED BY <1>5, <1>6, <1>7, <1>8, <1>9, <1>10, <1>11, <1>12, <1>13, <1>14, <1>15, <1>16,
             <1>17, <1>18, <1>19, <1>20, <1>21, <1>22, <1>23, <1>24, <1>25, <1>26, <1>27 DEF Next

\* Where an op stands that is in no tree is no term.
LEMMA NoPlaces == Loose \notin Paths /\ Freed \notin Paths
  <1>1. Loose[1] = 0 /\ 1 \in 1..Len(Loose)
    BY DEF Loose
  <1>2. Freed[1] = 0 /\ Len(Freed) = 4
    BY DEF Freed
  <1>3. Loose \notin Paths
    <2>1. \A p \in Paths : \A i \in 1..Len(p) : p[i] # 0
      BY DEF Paths
    <2> QED BY <1>1, <2>1
  <1>4. Freed \notin Paths
    BY <1>2 DEF Paths
  <1> QED BY <1>3, <1>4

\* The op above an op is no place without an op.
LEMMA AboveIsThere ==
  ASSUME IsTree(sub), NEW op \in Ops
  PROVE  Above(op) \in Ops \union {Root} /\ Above(op) # Loose /\ Above(op) # Freed
  <1>1. op \in Terms /\ op # <<>>
    BY OpsAreTerms
  <1>2. Above(op) \in Ops \union {Root}
    BY <1>1, AboveIs
  <1>3. Above(op) \in Paths
    BY <1>2, OpsAreTerms, TermsArePaths DEF Root
  <1>4. Loose \notin Paths /\ Freed \notin Paths
    BY NoPlaces
  <1> QED BY <1>2, <1>3, <1>4

\* What an edit still to be carried out needs stands as long as no op below is cut.
LEMMA StandsLater ==
  ASSUME IInv, Apply, NEW e, Precedes(Entry, e), Stands(e), EditWhole(Entry), Entry \in Edits,
         NEW op \in Ops, Below(e.cut[1], op), Kind(op) # "statement" \/ op = e.cut[1]
  PROVE  \/ up'[op] = Above(op)
         \/ op = e.cut[1] /\ op \in Targets /\ e.kind = "detach" /\ up'[op] = Freed
  <1>1. \/ up[op] = Above(op)
        \/ op = e.cut[1] /\ op \in Targets /\ e.kind = "detach" /\ up[op] = Freed
    BY DEF Stands
  <1>2. up' = Applied /\ IsTree(sub) /\ Ops \subseteq DOMAIN up
    BY DEF Apply, IInv, TypeOK
  <1>3. up[op] # Loose
    BY <1>1, <1>2, AboveIsThere DEF Loose, Freed
  <1>4. /\ Entry.kind \in {"detach", "replace"} /\ Len(Entry.cut) = 1
        /\ Entry.kind = "replace" => Entry.by \notin Ops
        /\ Entry.kind = "detach" => Entry.by = Entry.cut[1]
    BY DEF EditWhole, Edits
  <1>5. Listed(Entry.cut) = {Entry.cut[1]}
    BY <1>4 DEF Listed
  <1>6. CASE Entry.kind = "detach"
    <2>1. PICK there \in {Loose, Freed} : up' = [up EXCEPT ![Entry.by] = there]
      BY <1>2, <1>6 DEF Applied
    <2>2. op # Entry.by
      BY <1>4, <1>6 DEF Precedes
    <2>3. up'[op] = up[op]
      BY <1>2, <2>1, <2>2
    <2> QED BY <1>1, <2>3
  <1>7. CASE Entry.kind = "replace"
    <2> DEFINE kids == Listed(jits[MadeBy(Entry.by)].kids)
    <2>1. up' = [id \in DOMAIN up \union {Entry.by} |->
                   IF id = Entry.by THEN up[Entry.cut[1]]
                   ELSE IF id \in Listed(Entry.cut) THEN Freed
                   ELSE IF id \in kids /\ up[id] = Loose THEN Entry.by
                   ELSE up[id]]
      BY <1>2, <1>7 DEF Applied
    <2> HIDE DEF kids
    <2>2. op \in DOMAIN up \union {Entry.by} /\ op # Entry.by
      BY <1>2, <1>4, <1>7
    <2>3. CASE op = Entry.cut[1]
      <3>1. op = e.cut[1] /\ op \in Targets /\ e.kind = "detach"
        BY <2>3 DEF Precedes
      <3>2. up'[op] = Freed
        BY <1>5, <2>1, <2>2, <2>3
      <3> QED BY <3>1, <3>2
    <2>4. CASE op # Entry.cut[1]
      <3>1. up'[op] = up[op]
        BY <1>3, <1>5, <2>1, <2>2, <2>4
      <3> QED BY <1>1, <3>1
    <2> QED BY <2>3, <2>4
  <1> QED BY <1>4, <1>6, <1>7

\* The tree of the next state is that of this one.
LEMMA LogOfNext ==
  ASSUME sub' = sub
  PROVE  /\ ApartStack(calls)' <=> ApartStack(calls')
         /\ LogPassed(log, calls)' <=> LogPassed(log', calls')
         /\ InnerFirst(log)' <=> InnerFirst(log')
         /\ Ops' = Ops /\ Targets' = Targets
         /\ \A op : Above(op)' = Above(op) /\ (Kind(op)' = Kind(op))
  <1>1. Ops' = Ops /\ Targets' = Targets
    BY DEF Ops, Targets, OpOf, HasOp, Terms, Kind, Upto
  <1>2. InnerFirst(log)' <=> InnerFirst(log')
    BY <1>1 DEF InnerFirst, EditWhole, Precedes, Below
  <1>3. LogPassed(log, calls)' <=> LogPassed(log', calls')
    BY <1>1 DEF LogPassed, Passed, Ahead, Scope, OpOf, Terms, Kind, Apart, Below, Listed, Upto
  <1>4. ApartStack(calls)' <=> ApartStack(calls')
    BY <1>1 DEF ApartStack, FrameApart, Within, Ahead, Scope, Inner, Emitted, Operand, CutFor,
                OpOf, Terms, Kind, Apart, Below, Listed, Upto
  <1>5. ASSUME NEW op
        PROVE  Above(op)' = Above(op) /\ Kind(op)' = Kind(op)
    BY DEF Above, HasOp, OpOf, Kind, Upto
  <1> QED BY <1>1, <1>2, <1>3, <1>4, <1>5

\* Once the calls are over the log is all that steps are about.
LEMMA OnlyApply ==
  ASSUME [Next]_vars, pc # "emit"
  PROVE  Apply \/ Finish \/ UNCHANGED vars
  BY DEF Next, At, Goes, ProcessVariable, ProcessSequence, ProcessTree, ProcessKids, ProcessReturns,
         SequenceTakes, SequenceFlushes, SequenceSearches, SequenceReturns, EmitConst, GetLexical,
         EmitBinop, BinopRight, BinopCrashes, BinopAdds, EmitOptreeJitKids, JitKidsFail, EmitOptree,
         JitTreesFail, JitTreesGoOn

LEMMA NextStands ==
  ASSUME IInv, LogInv, [Next]_vars, pc' \in {"emit", "apply"}, NEW j \in 1..Len(log'),
         NEW e, e = log'[j], NEW op \in Ops,
         Below(e.cut[1], op), Kind(op) # "statement" \/ op = e.cut[1]
  PROVE  \/ up'[op] = Above(op)
         \/ op = e.cut[1] /\ op \in Targets /\ e.kind = "detach" /\ up'[op] = Freed
  <1>1. pc = "emit" \/ pc = "apply"
    <2>1. pc' = pc \/ ProcessReturns \/ BinopCrashes \/ Finish
      BY Changes
    <2> QED BY <2>1 DEF ProcessReturns, BinopCrashes, Finish, At
  <1>2. CASE pc = "emit"
    <2>1. up' = up
      BY <1>2, Changes DEF Apply
    <2>2. up[op] = Above(op)
      BY <1>2 DEF LogInv
    <2> QED BY <2>1, <2>2
  <1>3. CASE pc = "apply"
    <2>1. log \in Seq(Edits) /\ InnerFirst(log) /\ \A i \in 1..Len(log) : Stands(log[i])
      BY <1>3 DEF IInv, TypeOK, LogInv
    <2>2. CASE UNCHANGED vars
      BY <2>1, <2>2 DEF vars, Stands
    <2>3. CASE Apply
      <3>1. log # <<>> /\ log' = Tail(log) /\ Entry = Head(log)
        BY <2>3 DEF Apply, Entry
      <3>2. /\ 1 \in 1..Len(log) /\ j + 1 \in 1..Len(log) /\ 1 < j + 1
            /\ e = log[j + 1] /\ Entry = log[1] /\ Entry \in Edits
        <4> HIDE DEF Edits
        <4> QED BY <2>1, <3>1
      <3>3. Precedes(Entry, e) /\ Stands(e) /\ EditWhole(Entry)
        BY <2>1, <3>2 DEF InnerFirst
      <3> QED BY <2>3, <3>2, <3>3, StandsLater
    <2> QED BY <1>3, <2>2, <2>3, OnlyApply DEF Finish
  <1> QED BY <1>1, <1>2, <1>3

LEMMA NextLogInv ==
  ASSUME IInv, LogInv, [Next]_vars
  PROVE  LogInv'
  <1>1. sub' = sub
    BY NextFits
  <1>2. ApartStack(calls)' /\ LogPassed(log, calls)' /\ InnerFirst(log)'
    BY <1>1, NextLogged, LogOfNext DEF Logged
  <1>3. /\ Ops' = Ops /\ Targets' = Targets
        /\ \A op : Above(op)' = Above(op) /\ (Kind(op)' = Kind(op))
    BY <1>1, LogOfNext
  <1>4. ASSUME pc' = "emit"
        PROVE  up' = [op \in Ops' |-> Above(op)']
    <2>1. pc = "emit" /\ up' = up
      BY <1>4, NextCalls, Changes DEF Apply
    <2> QED BY <1>3, <2>1 DEF LogInv
  <1>5. ASSUME pc' \in {"emit", "apply"}, NEW j \in 1..Len(log')
        PROVE  Stands(log[j])'
    <2>1. \A op \in Ops :
            Below(log'[j].cut[1], op) /\ (Kind(op) # "statement" \/ op = log'[j].cut[1]) =>
              \/ up'[op] = Above(op)
              \/ op = log'[j].cut[1] /\ op \in Targets /\ log'[j].kind = "detach" /\ up'[op] = Freed
      BY <1>5, NextStands
    <2> QED BY <1>3, <2>1 DEF Stands, Below, Freed
  <1> QED BY <1>2, <1>4, <1>5 DEF LogInv

LEMMA InitLogInv ==
  ASSUME Init
  PROVE  LogInv
  <1>1. IsTree(sub) /\ calls = <<Process(1, <<>>)>> /\ log = <<>> /\ pc = "emit"
        /\ up = [op \in Ops |-> Above(op)]
    BY SubsAssumption DEF Init
  <1>2. PICK c : c = Process(1, <<>>)
    OBVIOUS
  <1>3. c.at = "process" /\ c.term = <<>> /\ c.queue = Kids(<<>>)
    BY <1>2 DEF Process
  <1>4. FrameApart(c)
    BY <1>1, <1>3, TermsArePaths, SearchOfKids
  <1>5. Len(calls) = 1 /\ calls[1] = c
    BY <1>1, <1>2
  <1>6. ApartStack(calls)
    BY <1>4, <1>5 DEF ApartStack
  <1>7. LogPassed(log, calls) /\ InnerFirst(log)
    BY <1>1 DEF LogPassed, InnerFirst
  <1> QED BY <1>1, <1>6, <1>7 DEF LogInv

\* The edits stand beside the calls and among each other as LogInv says, for every
\* value of Subs: a nested Emitter logs only what the calls around it have behind
\* them, or still do with the whole of it.
THEOREM LogInvariant == Spec => []LogInv
  <1>1. Init => LogInv
    BY InitLogInv
  <1>2. IInv /\ LogInv /\ [Next]_vars => LogInv'
    BY NextLogInv
  <1> QED BY <1>1, <1>2, EmitInvariant, PTL DEF Spec

-----------------------------------------------------------------------------
(* What the log finds in the tree *)

\* The places without an op, where a walk up the tree ends
Ended == {Root, Loose, Freed}

\* A walk up the tree by u ends where every set ends that the walk cannot leave.
LEMMA EndsExist ==
  ASSUME NEW T, T = Ended, NEW D, D = DOMAIN up \union T, NEW u, u = up,
         \A id \in DOMAIN up : up[id] \in D
  PROVE  \E f : /\ f = [x \in D |-> f[x]]
                /\ \A x \in D : f[x] = IF x \in T THEN x ELSE f[u[x]]
  <1> DEFINE Closed(C) == C \subseteq D /\ \A x \in C \ T : u[x] \in C
             R(x) == {e \in T : \A C \in SUBSET D : Closed(C) /\ x \in C => e \in C}
             f == [x \in D |-> CHOOSE e : e \in R(x)]
  <1>0. T \subseteq D /\ \A x \in D \ T : u[x] \in D
    OBVIOUS
  <1>1. ASSUME NEW x \in T
        PROVE  R(x) = {x}
    <2>1. Closed({x}) /\ {x} \in SUBSET D
      BY <1>0
    <2>2. x \in R(x)
      OBVIOUS
    <2>3. \A e \in R(x) : e \in {x}
      BY <2>1
    <2> HIDE DEF R
    <2> QED BY <2>2, <2>3
  <1>2. ASSUME NEW x \in D \ T
        PROVE  R(x) = R(u[x])
    <2>1. ASSUME NEW e \in R(x), NEW C \in SUBSET D, Closed(C), u[x] \in C
          PROVE  e \in C
      <3>1. C \union {x} \in SUBSET D /\ Closed(C \union {x}) /\ x \in C \union {x}
        BY <1>0, <2>1
      <3>2. e \in C \union {x} /\ e # x
        BY <3>1
      <3> QED BY <3>2
    <2>2. ASSUME NEW e \in R(u[x]), NEW C \in SUBSET D, Closed(C), x \in C
          PROVE  e \in C
      BY <2>2
    <2> HIDE DEF Closed
    <2> QED BY <2>1, <2>2
  <1> HIDE DEF R
  <1>3. ASSUME NEW x \in D
        PROVE  f[x] = IF x \in T THEN x ELSE f[u[x]]
    <2>1. CASE x \in T
      BY <1>1, <2>1
    <2>2. CASE x \notin T
      BY <1>2, <2>2
    <2> QED BY <2>1, <2>2
  <1>4. f = [x \in D |-> f[x]]
    OBVIOUS
  <1> HIDE DEF f
  <1> QED BY <1>3, <1>4

\* Where the walk from an op of the tree ends is where it ends from the op above.
LEMMA ProgramEnds ==
  ASSUME \A id \in DOMAIN up : up[id] \in DOMAIN up \union Ended
  PROVE  \E f : /\ \A id : InProgram(id) <=> f[id] = Root
                /\ f[Root] = Root
                /\ \A id \in DOMAIN up \ Ended : f[id] = f[up[id]]
  <1> DEFINE D == DOMAIN up \union {Root, Loose, Freed}
             T == {Root, Loose, Freed}
             f == CHOOSE g : g = [x \in D |-> IF x \in T THEN x ELSE g[up[x]]]
  <1>1. T \subseteq D /\ \A x \in D \ T : up[x] \in D
    BY DEF Ended
  <1>2. \E g : g = [x \in D |-> IF x \in T THEN x ELSE g[up[x]]]
    <2> HIDE DEF D, T
    <2>1. PICK g : /\ g = [x \in D |-> g[x]]
                   /\ \A x \in D : g[x] = IF x \in T THEN x ELSE g[up[x]]
      <3>1. PICK t : t = T
        OBVIOUS
      <3>2. PICK d : d = D
        OBVIOUS
      <3>3. PICK u : u = up
        OBVIOUS
      <3>4. t = Ended /\ d = DOMAIN up \union t /\ \A id \in DOMAIN up : up[id] \in d
        BY <3>1, <3>2 DEF T, D, Ended
      <3>5. \E g : /\ g = [x \in d |-> g[x]]
                   /\ \A x \in d : g[x] = IF x \in t THEN x ELSE g[u[x]]
        BY <3>3, <3>4, EndsExist
      <3> QED BY <3>1, <3>2, <3>3, <3>5
    <2>2. g = [x \in D |-> IF x \in T THEN x ELSE g[up[x]]]
      BY <2>1
    <2> QED BY <2>2
  <1>3. f = [x \in D |-> IF x \in T THEN x ELSE f[up[x]]]
    <2> HIDE DEF D, T
    <2> QED BY <1>2
  <1>4. \A id : InProgram(id) <=> f[id] = Root
    BY DEF InProgram
  <1> HIDE DEF f
  <1> QED BY <1>3, <1>4 DEF Ended

\* An op is in the tree of the sub when it and those above stand where perl put them.
LEMMA StandingIsInProgram ==
  ASSUME IInv, NEW c \in Ops,
         \A op \in Ops : Below(c, op) /\ (Kind(op) # "statement" \/ op = c) => up[op] = Above(op)
  PROVE  InProgram(c)
  <1>1. /\ IsTree(sub) /\ Ops \subseteq DOMAIN up /\ Ops \subseteq Terms /\ Ops \subseteq Paths
        /\ \A id \in DOMAIN up : up[id] \in DOMAIN up \union Ended
    BY OpsAreTerms, TermsArePaths DEF IInv, TypeOK, Ended
  <1>2. PICK f : /\ \A id : InProgram(id) <=> f[id] = Root
                 /\ f[Root] = Root
                 /\ \A id \in DOMAIN up \ Ended : f[id] = f[up[id]]
    BY <1>1, ProgramEnds
  <1>3. ASSUME NEW op \in Ops
        PROVE  op \notin Ended /\ op # <<>> /\ op \in Paths /\ Len(op) \in Nat
    <2>1. op \in Paths /\ op # <<>>
      BY <1>1, OpsAreTerms
    <2>2. Loose \notin Paths /\ Freed \notin Paths
      BY NoPlaces
    <2> QED BY <2>1, <2>2 DEF Ended, Root, Paths
  <1> DEFINE Walked(op) == Below(c, op) /\ (Kind(op) # "statement" \/ op = c)
             lost == {op \in Ops : Walked(op) /\ f[op] # Root}
             sizes == {n \in Nat : \E op \in lost : n = Len(op)}
  <1>4. ASSUME c \in lost
        PROVE  FALSE
    <2>1. sizes \subseteq Nat /\ Len(c) \in sizes
      BY <1>3, <1>4
    <2>2. PICK n \in sizes : \A m \in sizes : <<m, n>> \notin OpToRel(<, Nat)
      BY <2>1, NatLessThanWellFounded, WFMin
    <2>3. PICK op \in lost : n = Len(op)
      OBVIOUS
    <2>4. op \in Ops /\ Walked(op) /\ f[op] # Root /\ up[op] = Above(op)
      BY <2>3
    <2>5. op \in Terms /\ op # <<>> /\ op \in DOMAIN up \ Ended
      BY <1>1, <1>3, <2>4
    <2>6. f[op] = f[Above(op)]
      BY <1>2, <2>4, <2>5
    <2>7. PICK a : a = Above(op)
      OBVIOUS
    <2>8. a # Root
      BY <1>2, <2>4, <2>6, <2>7
    <2>9. /\ a \in Ops /\ Kind(a) # "statement" /\ Below(op, a) /\ Len(a) < Len(op)
      BY <1>1, <2>5, <2>7, <2>8, AboveIs
    <2>10. Below(c, a)
      BY <1>1, <2>4, <2>9, BelowBelow
    <2>11. a \in lost /\ Len(a) \in Nat
      BY <1>3, <2>4, <2>6, <2>7, <2>9, <2>10
    <2>12. Len(a) \in sizes
      BY <2>11
    <2>13. <<Len(a), n>> \in OpToRel(<, Nat)
      BY <1>3, <2>3, <2>4, <2>9, <2>11 DEF OpToRel
    <2> QED BY <2>2, <2>12, <2>13
  <1>5. f[c] = Root
    BY <1>1, <1>4, BelowItself
  <1> QED BY <1>2, <1>5

LEMMA LogReplaysHere ==
  ASSUME IInv, LogInv
  PROVE  LogReplays
  <1> SUFFICES ASSUME pc = "apply", log # <<>>, NEW op \in Listed(Entry.cut)
               PROVE  InProgram(op) \/ (Entry.kind = "detach" /\ op \in Targets /\ up[op] = Freed)
    BY DEF LogReplays
  <1>1. 1 \in 1..Len(log) /\ Entry = log[1] /\ Entry \in Edits
    <2>1. log \in Seq(Edits)
      BY DEF IInv, TypeOK
    <2> HIDE DEF Edits
    <2> QED BY <2>1 DEF Entry
  <1>2. Stands(Entry) /\ Len(Entry.cut) = 1
    BY <1>1 DEF LogInv, InnerFirst, EditWhole
  <1>3. op = Entry.cut[1] /\ op \in Ops
    <2>1. op = Entry.cut[1]
      BY <1>2 DEF Listed
    <2> QED BY <1>1, <1>2, <2>1 DEF Edits
  <1>4. op \in Paths /\ Below(op, op)
    BY <1>3, OpsAreTerms, TermsArePaths, BelowItself DEF IInv
  <1>5. CASE up[op] = Above(op)
    <2>1. \A a \in Ops : Below(op, a) /\ (Kind(a) # "statement" \/ a = op) => up[a] = Above(a)
      BY <1>2, <1>3, <1>5 DEF Stands
    <2> QED BY <1>3, <2>1, StandingIsInProgram
  <1>6. CASE up[op] # Above(op)
    BY <1>2, <1>3, <1>4, <1>6 DEF Stands
  <1> QED BY <1>5, <1>6

\* detach_tree and replace_sequence log their edits in an order in which B::Replace
\* finds each op in the tree of the sub, whatever Emitters were nested and whatever
\* failed: the exception is an assignment by OPpTARGET_MY that a function calls.
THEOREM LogReplaysCorrect == Spec => []LogReplays
  <1>1. IInv /\ LogInv => LogReplays
    BY LogReplaysHere
  <1> QED BY <1>1, EmitInvariant, LogInvariant, PTL
=============================================================================
