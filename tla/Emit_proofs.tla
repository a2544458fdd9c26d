---------------------------- MODULE Emit_proofs ----------------------------
(***************************************************************************)
(* That every value of Subs keeps the invariant of Emit.                   *)
(***************************************************************************)
EXTENDS Emit, SequenceTheorems, WellFoundedInduction, TLAPS

-----------------------------------------------------------------------------
(* Paths *)

LEMMA BelowItself == \A p \in Paths : Below(p, p)
  BY DEF Below, Paths

LEMMA BelowBelow ==
  ASSUME NEW p \in Paths, NEW q \in Paths, NEW r \in Paths, Below(p, q), Below(q, r)
  PROVE  Below(p, r)
  BY DEF Below, Paths

LEMMA KidPath ==
  ASSUME NEW p \in Paths, NEW i \in Nat \ {0}
  PROVE  /\ Append(p, i) \in Paths /\ Len(Append(p, i)) = Len(p) + 1
         /\ Append(p, i)[Len(p) + 1] = i
         /\ \A k \in 1..Len(p) : Append(p, i)[k] = p[k]
         /\ Below(Append(p, i), p)
  BY DEF Below, Paths

\* What is left of a term is left of its kids.
LEMMA LeftOfKid ==
  ASSUME NEW w \in Paths, NEW p \in Paths, NEW i \in Nat \ {0}, LeftOf(w, p)
  PROVE  LeftOf(w, Append(p, i))
  <1> DEFINE q == Append(p, i)
  <1>1. q \in Paths /\ Len(q) = Len(p) + 1 /\ \A k \in 1..Len(p) : q[k] = p[k]
    BY KidPath
  <1>2. PICK m \in 1..Len(w) : m <= Len(p) /\ w[m] < p[m] /\ \A k \in 1..(m - 1) : w[k] = p[k]
    BY DEF LeftOf
  <1>3. m <= Len(q) /\ w[m] < q[m] /\ \A k \in 1..(m - 1) : w[k] = q[k]
    <2> HIDE DEF q
    <2> QED BY <1>1, <1>2 DEF Paths
  <1> QED BY <1>3 DEF LeftOf

\* What is below the first kid is left of the second.
LEMMA FirstLeftOfSecond ==
  ASSUME NEW w \in Paths, NEW p \in Paths, Below(w, Append(p, 1))
  PROVE  LeftOf(w, Append(p, 2))
  <1> DEFINE q == Append(p, 1)
             r == Append(p, 2)
  <1>1. q \in Paths /\ Len(q) = Len(p) + 1 /\ q[Len(p) + 1] = 1
        /\ \A k \in 1..Len(p) : q[k] = p[k]
    BY KidPath
  <1>2. r \in Paths /\ Len(r) = Len(p) + 1 /\ r[Len(p) + 1] = 2
        /\ \A k \in 1..Len(p) : r[k] = p[k]
    BY KidPath
  <1>3. Len(q) <= Len(w) /\ \A k \in 1..Len(q) : w[k] = q[k]
    BY DEF Below
  <1> HIDE DEF q, r
  <1>4. PICK n \in Nat : n = Len(p)
    BY DEF Paths
  <1>5. n + 1 \in 1..Len(w) /\ n + 1 <= Len(r) /\ w[n + 1] < r[n + 1]
    <2>1. q[n + 1] = 1 /\ r[n + 1] = 2 /\ Len(q) = n + 1 /\ Len(r) = n + 1
      BY <1>1, <1>2, <1>4
    <2>2. n + 1 \in 1..Len(q) /\ n + 1 \in 1..Len(w)
      BY <2>1, <1>3 DEF Paths
    <2>3. w[n + 1] = 1
      BY <2>1, <2>2, <1>3
    <2> QED BY <2>1, <2>2, <2>3
  <1>6. \A k \in 1..((n + 1) - 1) : w[k] = r[k]
    BY <1>1, <1>2, <1>3, <1>4
  <1>7. LeftOf(w, r)
    BY <1>5, <1>6 DEF LeftOf
  <1> QED BY <1>7 DEF r

\* Perl runs what is left of a term, and what is below it, not behind it.
LEMMA NotRunBefore ==
  ASSUME NEW w \in Paths, NEW p \in Paths, LeftOf(w, p) \/ Below(w, p)
  PROVE  ~ RunsBefore(p, w)
  <1>1. CASE LeftOf(w, p)
    <2>1. PICK m \in 1..Len(w) : m <= Len(p) /\ w[m] < p[m] /\ \A k \in 1..(m - 1) : w[k] = p[k]
      BY <1>1 DEF LeftOf
    <2>2. ~ Below(p, w)
      BY <2>1 DEF Below, Paths
    <2>3. ~ LeftOf(p, w)
      <3> SUFFICES ASSUME NEW n \in 1..Len(p), n <= Len(w), p[n] < w[n],
                          \A k \in 1..(n - 1) : p[k] = w[k]
                   PROVE  FALSE
        BY DEF LeftOf
      <3>1. m \in Nat /\ n \in Nat /\ p[n] \in Nat /\ w[n] \in Nat /\ p[m] \in Nat /\ w[m] \in Nat
        BY <2>1 DEF Paths
      <3>2. CASE n < m
        BY <3>1, <3>2, <2>1
      <3>3. CASE m < n
        BY <3>1, <3>3, <2>1
      <3>4. CASE m = n
        BY <3>1, <3>4, <2>1
      <3> QED BY <3>1, <3>2, <3>3, <3>4
    <2> QED BY <2>2, <2>3 DEF RunsBefore
  <1>2. CASE Below(w, p)
    <2>1. Len(p) <= Len(w) /\ \A k \in 1..Len(p) : w[k] = p[k]
      BY <1>2 DEF Below
    <2>2. ~ LeftOf(p, w)
      <3> SUFFICES ASSUME NEW n \in 1..Len(p), p[n] < w[n]
                   PROVE  FALSE
        BY DEF LeftOf
      <3>1. p[n] \in Nat /\ w[n] = p[n]
        BY <2>1 DEF Paths
      <3> QED BY <3>1
    <2>3. Below(p, w) => p = w
      BY <2>1 DEF Below, Paths
    <2> QED BY <2>2, <2>3 DEF RunsBefore
  <1> QED BY <1>1, <1>2
-----------------------------------------------------------------------------
(* Terms *)

LEMMA TermsArePaths ==
  ASSUME IsTree(sub)
  PROVE  /\ Terms \subseteq Paths /\ <<>> \in Terms
         /\ \A p \in Terms : sub[p] \in Nodes /\ sub[p].size \in Nat /\ Kind(p) \in Kinds
  BY DEF IsTree, Terms, Kind, Nodes

LEMMA KidTerm ==
  ASSUME IsTree(sub), NEW p \in Terms, NEW i \in 1..sub[p].size
  PROVE  /\ Append(p, i) \in Terms /\ i \in Nat \ {0}
         /\ Append(p, i) \in Paths /\ Below(Append(p, i), p)
         /\ Kind(Append(p, i)) = "statement" <=> Kind(p) = "sequence"
         /\ Kind(Append(p, i)) # "candidates"
         /\ Kind(Append(p, i)) = "sequence" => Kind(p) \in {"candidates", "op"}
  <1>1. p \in Paths /\ i \in Nat \ {0} /\ Append(p, i) \in Terms
    BY TermsArePaths DEF IsTree, Terms
  <1>2. /\ Append(p, i) \in Paths /\ Below(Append(p, i), p) /\ Len(Append(p, i)) = Len(p) + 1
        /\ \A k \in 1..Len(p) : Append(p, i)[k] = p[k]
    BY <1>1, KidPath
  <1>3. Kind(Append(p, i)) = "statement" <=> Kind(p) = "sequence"
    BY DEF IsTree, Terms, Kind
  <1>4. Append(p, i) # <<>>
    <2>1. Len(p) \in Nat
      BY <1>1 DEF Paths
    <2>2. Len(Append(p, i)) # 0
      BY <1>2, <2>1
    <2> QED BY <2>2
  <1>5. Kind(Append(p, i)) # "candidates"
    BY <1>1, <1>4 DEF IsTree, Terms, Kind
  <1>6. Upto(Append(p, i), Len(Append(p, i)) - 1) = p
    BY <1>1, <1>2 DEF Upto, Paths
  <1>7. Kind(Append(p, i)) = "sequence" => Kind(p) \in {"candidates", "op"}
    BY <1>1, <1>6 DEF IsTree, Terms, Kind
  <1> QED BY <1>1, <1>2, <1>3, <1>5, <1>7

LEMMA KidsOf ==
  ASSUME IsTree(sub), NEW p \in Terms
  PROVE  /\ Kids(p) \in Seq(Terms) /\ Len(Kids(p)) = sub[p].size
         /\ \A k \in 1..sub[p].size : Kids(p)[k] = Append(p, k)
  <1>1. sub[p].size \in Nat
    BY TermsArePaths
  <1>2. PICK n \in Nat : n = sub[p].size
    BY <1>1
  <1>3. \A k \in 1..n : Append(p, k) \in Terms
    BY KidTerm, <1>2
  <1>4. Kids(p) = [k \in 1..n |-> Append(p, k)]
    BY <1>2 DEF Kids
  <1>5. Kids(p) \in [1..n -> Terms]
    BY <1>3, <1>4
  <1>6. Kids(p) \in Seq(Terms) /\ Len(Kids(p)) = n
    BY <1>5
  <1>7. \A k \in 1..n : Kids(p)[k] = Append(p, k)
    BY <1>4
  <1> QED BY <1>2, <1>6, <1>7

LEMMA WholeQueue ==
  ASSUME IsTree(sub), NEW p \in Terms, Kind(p) # "sequence"
  PROVE  \A k \in 1..Len(Kids(p)) :
           Below(Kids(p)[k], p) /\ Kind(Kids(p)[k]) \notin {"candidates", "statement"}
  <1> SUFFICES ASSUME NEW k \in 1..Len(Kids(p))
               PROVE  Below(Kids(p)[k], p) /\ Kind(Kids(p)[k]) \notin {"candidates", "statement"}
    OBVIOUS
  <1>1. k \in 1..sub[p].size /\ Kids(p)[k] = Append(p, k)
    BY KidsOf
  <1> QED BY <1>1, KidTerm

LEMMA OpOfTerm ==
  ASSUME NEW p \in Terms, HasOp(p)
  PROVE  OpOf(p) \in Ops
  BY DEF Ops

LEMMA OpsAreTerms ==
  ASSUME IsTree(sub)
  PROVE  Ops \subseteq Terms /\ <<>> \notin Ops
  <1> SUFFICES ASSUME NEW p \in Terms, HasOp(p)
               PROVE  OpOf(p) \in Terms /\ OpOf(p) # <<>>
    BY DEF Ops
  <1>1. p \in Paths /\ p # <<>>
    BY TermsArePaths DEF IsTree, Terms, HasOp, Kind
  <1>2. CASE ~ sub[p].shared
    BY <1>1, <1>2 DEF OpOf
  <1>3. CASE sub[p].shared
    <2>1. Len(p) \in Nat /\ Len(p) > 0 /\ Len(p) - 1 \in 0..(Len(p) - 1)
      BY <1>1 DEF Paths
    <2>2. Upto(p, Len(p) - 1) \in Terms
      BY <2>1 DEF IsTree, Terms
    <2>3. Kind(Upto(p, Len(p) - 1)) = "op"
      BY <1>3 DEF IsTree, Terms, Kind
    <2>4. Upto(p, Len(p) - 1) # <<>>
      BY <2>2, <2>3 DEF IsTree, Terms, Kind
    <2> QED BY <1>3, <2>2, <2>4 DEF OpOf
  <1> QED BY <1>2, <1>3

\* A term in the tree of a term with an op that the walk over the exits comes to
\* has an op.
LEMMA ExitsAreOps ==
  ASSUME IsTree(sub), NEW p \in Terms, HasOp(p)
  PROVE  /\ Exits(p) \subseteq Ops
         /\ \A id \in Exits(p) : \E q \in Terms : id = OpOf(q) /\ Below(q, p)
  <1> SUFFICES ASSUME NEW q \in Terms, Below(q, p),
                      \A n \in Len(p)..(Len(q) - 1) : Kind(Upto(q, n)) \in {"and", "cond"}
               PROVE  HasOp(q)
    BY OpOfTerm DEF Exits
  <1>1. p \in Paths /\ q \in Paths /\ Len(p) \in Nat /\ Len(q) \in Nat
    BY TermsArePaths DEF Paths
  <1>2. CASE Len(q) = Len(p)
    <2>1. q = p
      BY <1>1, <1>2 DEF Below, Paths
    <2> QED BY <2>1
  <1>3. CASE Len(q) # Len(p)
    <2>1. Len(q) - 1 \in Len(p)..(Len(q) - 1)
      BY <1>1, <1>3 DEF Below
    <2>2. Kind(Upto(q, Len(q) - 1)) \in {"and", "cond"}
      BY <2>1
    <2>3. Kind(q) # "sequence"
      BY <2>2 DEF IsTree, Terms, Kind
    <2>4. Kind(q) # "candidates"
      <3>1. q # <<>>
        BY <1>1, <1>3 DEF Below, Paths
      <3> QED BY <3>1 DEF IsTree, Terms, Kind
    <2> QED BY <2>3, <2>4 DEF HasOp
  <1> QED BY <1>2, <1>3
-----------------------------------------------------------------------------
(* Calls *)

Types == {"none", "double", "integer", "scalar"}

\* The calls of so many Emitters that emit for so many functions
CallsUpTo(e, f) ==
  [at : {"process"}, this : 1..e, term : Terms, queue : Seq(Terms)]
  \union [at : {"sequence"}, this : 1..e, term : Terms, first : Nat, next : Nat]
  \union [at : {"trees"}, this : 1..e, term : Terms, asts : Seq(Terms), n : Nat, fn : 1..f]
  \union [at : {"emit", "kids"}, this : 1..e, term : Terms, fn : 1..f]
  \union [at : {"binop"}, this : 1..e, term : Terms, fn : 1..f, left : {"pending"} \union Types]

LEMMA CallsAre == Calls = CallsUpTo(Len(subtrees), Len(fns))
  BY DEF Calls, CallsUpTo, Emitters, Types

LEMMA CallsArePrimed ==
  ASSUME sub' = sub
  PROVE  Calls' = CallsUpTo(Len(subtrees'), Len(fns'))
  BY DEF Calls, CallsUpTo, Emitters, Types, Terms

LEMMA CallFields ==
  ASSUME NEW e, NEW f, NEW c \in CallsUpTo(e, f)
  PROVE  /\ c.at \in {"process", "sequence"} \union Emissions
         /\ c.this \in 1..e /\ c.term \in Terms
         /\ c.at \in Emissions => c.fn \in 1..f
         /\ c.at = "process" => c.queue \in Seq(Terms)
         /\ c.at = "sequence" => c.first \in Nat /\ c.next \in Nat
         /\ c.at = "trees" => c.asts \in Seq(Terms) /\ c.n \in Nat
         /\ c.at = "binop" => c.left \in {"pending"} \union Types
  BY DEF CallsUpTo, Emissions

LEMMA CallsGrow ==
  ASSUME NEW e \in Nat, NEW f \in Nat, NEW e2 \in Nat, NEW f2 \in Nat,
         NEW c \in CallsUpTo(e, f), c.this <= e2, f <= f2
  PROVE  c \in CallsUpTo(e2, f2)
  <1>1. c.this \in 1..e2
    BY CallFields
  <1>2. c.at \in Emissions => c.fn \in 1..f2
    BY CallFields
  <1>3. CASE c \in [at : {"process"}, this : 1..e, term : Terms, queue : Seq(Terms)]
    BY <1>1, <1>3 DEF CallsUpTo
  <1>4. CASE c \in [at : {"sequence"}, this : 1..e, term : Terms, first : Nat, next : Nat]
    BY <1>1, <1>4 DEF CallsUpTo
  <1>5. CASE c \in [at : {"trees"}, this : 1..e, term : Terms, asts : Seq(Terms), n : Nat, fn : 1..f]
    BY <1>1, <1>2, <1>5 DEF CallsUpTo, Emissions
  <1>6. CASE c \in [at : {"emit", "kids"}, this : 1..e, term : Terms, fn : 1..f]
    BY <1>1, <1>2, <1>6 DEF CallsUpTo, Emissions
  <1>7. CASE c \in [at : {"binop"}, this : 1..e, term : Terms, fn : 1..f,
                    left : {"pending"} \union Types]
    BY <1>1, <1>2, <1>7 DEF CallsUpTo, Emissions
  <1> QED BY <1>3, <1>4, <1>5, <1>6, <1>7 DEF CallsUpTo

LEMMA ProcessCall ==
  ASSUME IsTree(sub), NEW e, NEW f, NEW this \in 1..e, NEW p \in Terms
  PROVE  /\ Process(this, p) \in CallsUpTo(e, f)
         /\ Process(this, p).at = "process" /\ Process(this, p).this = this
         /\ Process(this, p).term = p /\ Process(this, p).queue = Kids(p)
  BY KidsOf DEF Process, CallsUpTo

LEMMA SequenceCall ==
  ASSUME NEW e, NEW f, NEW this \in 1..e, NEW p \in Terms
  PROVE  /\ Sequence(this, p) \in CallsUpTo(e, f)
         /\ Sequence(this, p).at = "sequence" /\ Sequence(this, p).this = this
         /\ Sequence(this, p).term = p
         /\ Sequence(this, p).first = 1 /\ Sequence(this, p).next = 1
  BY DEF Sequence, CallsUpTo

LEMMA TreesCall ==
  ASSUME NEW e, NEW f, NEW this \in 1..e, NEW p \in Terms, NEW asts \in Seq(Terms), NEW fn \in 1..f
  PROVE  /\ Trees(this, p, asts, fn) \in CallsUpTo(e, f)
         /\ Trees(this, p, asts, fn).at = "trees" /\ Trees(this, p, asts, fn).this = this
         /\ Trees(this, p, asts, fn).term = p /\ Trees(this, p, asts, fn).asts = asts
         /\ Trees(this, p, asts, fn).n = 1 /\ Trees(this, p, asts, fn).fn = fn
  BY DEF Trees, CallsUpTo

LEMMA EmitCall ==
  ASSUME NEW e, NEW f, NEW this \in 1..e, NEW p \in Terms, NEW fn \in 1..f
  PROVE  /\ Emit(this, p, fn) \in CallsUpTo(e, f)
         /\ Emit(this, p, fn).at = "emit" /\ Emit(this, p, fn).this = this
         /\ Emit(this, p, fn).term = p /\ Emit(this, p, fn).fn = fn
  BY DEF Emit, CallsUpTo

LEMMA BinopCall ==
  ASSUME NEW e, NEW f, NEW this \in 1..e, NEW p \in Terms, NEW fn \in 1..f
  PROVE  /\ Binop(this, p, fn) \in CallsUpTo(e, f)
         /\ Binop(this, p, fn).at = "binop" /\ Binop(this, p, fn).this = this
         /\ Binop(this, p, fn).term = p /\ Binop(this, p, fn).fn = fn
         /\ Binop(this, p, fn).left = "pending"
  BY DEF Binop, CallsUpTo

LEMMA JitKidsCall ==
  ASSUME NEW e, NEW f, NEW this \in 1..e, NEW p \in Terms, NEW fn \in 1..f
  PROVE  /\ JitKids(this, p, fn) \in CallsUpTo(e, f)
         /\ JitKids(this, p, fn).at = "kids" /\ JitKids(this, p, fn).this = this
         /\ JitKids(this, p, fn).term = p /\ JitKids(this, p, fn).fn = fn
  BY DEF JitKids, CallsUpTo

LEMMA QueueChanged ==
  ASSUME NEW e, NEW f, NEW c \in CallsUpTo(e, f), c.at = "process", NEW q \in Seq(Terms)
  PROVE  /\ [c EXCEPT !.queue = q] \in CallsUpTo(e, f)
         /\ [c EXCEPT !.queue = q].at = c.at /\ [c EXCEPT !.queue = q].this = c.this
         /\ [c EXCEPT !.queue = q].term = c.term /\ [c EXCEPT !.queue = q].queue = q
  <1>1. c \in [at : {"process"}, this : 1..e, term : Terms, queue : Seq(Terms)]
    BY DEF CallsUpTo
  <1> QED BY <1>1 DEF CallsUpTo

\* A search goes on as a search.
LEMMA StillProcess ==
  ASSUME NEW e, NEW f, NEW c \in CallsUpTo(e, f), c.at = "process", NEW m
  PROVE  [c EXCEPT !.queue = m].at = "process"
  <1>1. c \in [at : {"process"}, this : 1..e, term : Terms, queue : Seq(Terms)]
    BY DEF CallsUpTo
  <1> QED BY <1>1

LEMMA StillSequence ==
  ASSUME NEW e, NEW f, NEW c \in CallsUpTo(e, f), c.at = "sequence", NEW m, NEW n
  PROVE  /\ [c EXCEPT !.next = m].at = "sequence"
         /\ [c EXCEPT !.first = m].at = "sequence"
         /\ [c EXCEPT !.first = m, !.next = n].at = "sequence"
  <1>1. c \in [at : {"sequence"}, this : 1..e, term : Terms, first : Nat, next : Nat]
    BY DEF CallsUpTo
  <1> QED BY <1>1

LEMMA LeftChanged ==
  ASSUME NEW e, NEW f, NEW c \in CallsUpTo(e, f), c.at = "binop", NEW type \in Types
  PROVE  LET d == [c EXCEPT !.left = type]
         IN /\ d \in CallsUpTo(e, f)
            /\ d.at = c.at /\ d.this = c.this /\ d.term = c.term /\ d.fn = c.fn /\ d.left = type
  <1>1. c \in [at : {"binop"}, this : 1..e, term : Terms, fn : 1..f, left : {"pending"} \union Types]
    BY DEF CallsUpTo
  <1> QED BY <1>1 DEF CallsUpTo

LEMMA StretchTakes ==
  ASSUME NEW e, NEW f, NEW c \in CallsUpTo(e, f), c.at = "sequence",
         NEW d, d = [c EXCEPT !.next = @ + 1]
  PROVE  /\ d \in CallsUpTo(e, f) /\ d.at = c.at /\ d.this = c.this /\ d.term = c.term
         /\ d.first = c.first /\ d.next = c.next + 1
  <1> DEFINE R == [at : {"sequence"}, this : 1..e, term : Terms, first : Nat, next : Nat]
  <1>1. c \in R
    BY DEF CallsUpTo
  <1>2. c.first \in Nat /\ c.next \in Nat /\ c.first + 1 \in Nat /\ c.next + 1 \in Nat
    BY <1>1
  <1>3. d \in R
    BY <1>1, <1>2
  <1>4. R \subseteq CallsUpTo(e, f)
    BY DEF CallsUpTo
  <1>5. /\ d.at = c.at /\ d.this = c.this /\ d.term = c.term
        /\ d.first = c.first /\ d.next = c.next + 1
    BY <1>1
  <1> QED BY <1>3, <1>4, <1>5

LEMMA StretchFlushed ==
  ASSUME NEW e, NEW f, NEW c \in CallsUpTo(e, f), c.at = "sequence",
         NEW d, d = [c EXCEPT !.first = c.next]
  PROVE  /\ d \in CallsUpTo(e, f) /\ d.at = c.at /\ d.this = c.this /\ d.term = c.term
         /\ d.first = c.next /\ d.next = c.next
  <1> DEFINE R == [at : {"sequence"}, this : 1..e, term : Terms, first : Nat, next : Nat]
  <1>1. c \in R
    BY DEF CallsUpTo
  <1>2. c.first \in Nat /\ c.next \in Nat /\ c.first + 1 \in Nat /\ c.next + 1 \in Nat
    BY <1>1
  <1>3. d \in R
    BY <1>1, <1>2
  <1>4. R \subseteq CallsUpTo(e, f)
    BY DEF CallsUpTo
  <1>5. /\ d.at = c.at /\ d.this = c.this /\ d.term = c.term
        /\ d.first = c.next /\ d.next = c.next
    BY <1>1
  <1> QED BY <1>3, <1>4, <1>5

-----------------------------------------------------------------------------
(* The stack of calls *)

LEMMA StackPops ==
  ASSUME NEW S, NEW o \in Seq(S), NEW c, Stack(Append(o, c))
  PROVE  Stack(o)
  <1> DEFINE s == Append(o, c)
  <1>1. /\ Len(s) = Len(o) + 1 /\ Len(o) \in Nat /\ \A i \in 1..Len(o) : s[i] = o[i]
        /\ s # <<>>
    OBVIOUS
  <1>2. /\ \A i \in 1..Len(s) : CallWhole(s[i])
        /\ \A i \in 1..(Len(s) - 1) : Called(s[i], s[i + 1])
        /\ \A i, j \in 1..Len(s) : i < j => Inside(s[i], s[j])
        /\ s[1].at = "process" /\ s[1].this = 1
    BY <1>1 DEF Stack
  <1> HIDE DEF s
  <1>3. \A i \in 1..Len(o) : CallWhole(o[i])
    BY <1>1, <1>2
  <1>4. \A i \in 1..(Len(o) - 1) : Called(o[i], o[i + 1])
    <2> SUFFICES ASSUME NEW i \in 1..(Len(o) - 1)
                 PROVE  Called(o[i], o[i + 1])
      OBVIOUS
    <2>1. i \in 1..Len(o) /\ i + 1 \in 1..Len(o) /\ i \in 1..(Len(s) - 1)
      BY <1>1
    <2> QED BY <1>1, <1>2, <2>1
  <1>5. \A i, j \in 1..Len(o) : i < j => Inside(o[i], o[j])
    BY <1>1, <1>2
  <1>6. o # <<>> => o[1].at = "process" /\ o[1].this = 1
    BY <1>1, <1>2
  <1> QED BY <1>3, <1>4, <1>5, <1>6 DEF Stack

\* What is said of a stack with c on top, said of c and of what is under it.
LEMMA StackOf ==
  ASSUME NEW S, NEW o \in Seq(S), NEW c
  PROVE  Stack(Append(o, c)) <=>
           /\ Stack(o) /\ CallWhole(c)
           /\ o # <<>> => Called(o[Len(o)], c)
           /\ \A i \in 1..Len(o) : Inside(o[i], c)
           /\ o = <<>> => c.at = "process" /\ c.this = 1
  <1> DEFINE s == Append(o, c)
  <1>1. /\ Len(s) = Len(o) + 1 /\ Len(o) \in Nat /\ \A i \in 1..Len(o) : s[i] = o[i]
        /\ s[Len(o) + 1] = c /\ s # <<>> /\ (o # <<>> <=> Len(o) > 0)
        /\ Len(o) + 1 \in 1..Len(s)
    OBVIOUS
  <1>2. ASSUME Stack(s)
        PROVE  /\ CallWhole(c)
               /\ o # <<>> => Called(o[Len(o)], c)
               /\ \A i \in 1..Len(o) : Inside(o[i], c)
               /\ o = <<>> => c.at = "process" /\ c.this = 1
    <2>1. /\ \A i \in 1..Len(s) : CallWhole(s[i])
          /\ \A i \in 1..(Len(s) - 1) : Called(s[i], s[i + 1])
          /\ \A i, j \in 1..Len(s) : i < j => Inside(s[i], s[j])
          /\ s # <<>> => s[1].at = "process" /\ s[1].this = 1
      BY <1>2 DEF Stack
    <2> HIDE DEF s
    <2>2. CallWhole(c)
      BY <1>1, <2>1
    <2>3. o # <<>> => Called(o[Len(o)], c)
      BY <1>1, <2>1
    <2>4. \A i \in 1..Len(o) : Inside(o[i], c)
      BY <1>1, <2>1
    <2>5. o = <<>> => c.at = "process" /\ c.this = 1
      BY <1>1, <2>1 DEF s
    <2> QED BY <2>2, <2>3, <2>4, <2>5
  <1>3. ASSUME Stack(o), CallWhole(c),
               o # <<>> => Called(o[Len(o)], c),
               \A i \in 1..Len(o) : Inside(o[i], c),
               o = <<>> => c.at = "process" /\ c.this = 1
        PROVE  Stack(s)
    <2>1. /\ \A i \in 1..Len(o) : CallWhole(o[i])
          /\ \A i \in 1..(Len(o) - 1) : Called(o[i], o[i + 1])
          /\ \A i, j \in 1..Len(o) : i < j => Inside(o[i], o[j])
          /\ o # <<>> => o[1].at = "process" /\ o[1].this = 1
      BY <1>3 DEF Stack
    <2> HIDE DEF s
    <2>2. \A i \in 1..Len(s) : i \in 1..Len(o) \/ i = Len(o) + 1
      BY <1>1
    <2>3. \A i \in 1..Len(s) : CallWhole(s[i])
      BY <1>1, <1>3, <2>1, <2>2
    <2>4. \A i \in 1..(Len(s) - 1) : Called(s[i], s[i + 1])
      <3> SUFFICES ASSUME NEW i \in 1..(Len(s) - 1)
                   PROVE  Called(s[i], s[i + 1])
        OBVIOUS
      <3>1. CASE i = Len(o)
        BY <1>1, <1>3, <3>1
      <3>2. CASE i # Len(o)
        <4>1. i \in 1..(Len(o) - 1) /\ i \in 1..Len(o) /\ i + 1 \in 1..Len(o)
          BY <1>1, <3>2
        <4> QED BY <1>1, <2>1, <4>1
      <3> QED BY <3>1, <3>2
    <2>5. \A i, j \in 1..Len(s) : i < j => Inside(s[i], s[j])
      <3> SUFFICES ASSUME NEW i \in 1..Len(s), NEW j \in 1..Len(s), i < j
                   PROVE  Inside(s[i], s[j])
        OBVIOUS
      <3>1. CASE j = Len(o) + 1
        <4>1. i \in 1..Len(o)
          BY <1>1, <3>1
        <4> QED BY <1>1, <1>3, <3>1, <4>1
      <3>2. CASE j # Len(o) + 1
        <4>1. i \in 1..Len(o) /\ j \in 1..Len(o)
          BY <1>1, <3>2
        <4> QED BY <1>1, <2>1, <4>1
      <3> QED BY <3>1, <3>2
    <2>6. s[1].at = "process" /\ s[1].this = 1
      <3>1. CASE o = <<>>
        BY <1>1, <1>3, <3>1
      <3>2. CASE o # <<>>
        BY <1>1, <2>1, <3>2
      <3> QED BY <3>1, <3>2
    <2> QED BY <2>3, <2>4, <2>5, <2>6 DEF Stack
  <1> QED BY <1>2, <1>3, StackPops

LEMMA EmittedTerm ==
  ASSUME IsTree(sub), NEW e, NEW f, NEW c \in CallsUpTo(e, f), CallWhole(c),
         c.at \in {"trees", "binop"}
  PROVE  Emitted(c) \in Terms /\ Below(Emitted(c), c.term) /\ HasOp(Emitted(c))
  <1>1. CASE c.at = "trees"
    <2>1. c.asts \in Seq(Terms) /\ c.asts # <<>> /\ Below(c.asts[1], c.term) /\ HasOp(c.asts[1])
      BY <1>1, CallFields DEF CallWhole
    <2> QED BY <1>1, <2>1 DEF Emitted
  <1>2. CASE c.at = "binop"
    <2>1. c.term \in Terms /\ Kind(c.term) = "add"
      BY <1>2, CallFields DEF CallWhole
    <2>2. sub[c.term].size = 2
      BY <2>1 DEF IsTree, Terms, Kind
    <2>3. PICK i \in {1, 2} : Emitted(c) = Append(c.term, i)
      BY <1>2 DEF Emitted, Operand
    <2>4. i \in 1..sub[c.term].size
      BY <2>2
    <2>5. /\ Append(c.term, i) \in Terms /\ Below(Append(c.term, i), c.term)
          /\ Kind(Append(c.term, i)) \notin {"candidates", "sequence"}
      BY <2>1, <2>4, KidTerm
    <2> QED BY <2>3, <2>5 DEF HasOp
  <1> QED BY <1>1, <1>2

\* d goes on where c was.
Similar(c, d) ==
  /\ d.at = c.at \/ {c.at, d.at} \subseteq {"emit", "binop", "kids"}
  /\ d.this = c.this /\ d.term = c.term
  /\ c.at \in Emissions => d.fn = c.fn
  /\ c.at = "trees" => d.asts = c.asts

LEMMA StackGoesOn ==
  ASSUME NEW S, NEW o \in Seq(S), NEW c, NEW d, Stack(Append(o, c)),
         CallWhole(d), Similar(c, d)
  PROVE  Stack(Append(o, d))
  <1>1. /\ Stack(o) /\ CallWhole(c)
        /\ o # <<>> => Called(o[Len(o)], c)
        /\ \A i \in 1..Len(o) : Inside(o[i], c)
        /\ o = <<>> => c.at = "process" /\ c.this = 1
    BY StackOf
  <1>2. o # <<>> => Called(o[Len(o)], d)
    BY <1>1 DEF Called, Similar, Emissions
  <1>3. ASSUME NEW x, Inside(x, c)
        PROVE  Inside(x, d)
    BY <1>3 DEF Inside, Similar, Emissions
  <1>4. o = <<>> => d.at = "process" /\ d.this = 1
    BY <1>1 DEF Similar
  <1>5. \A i \in 1..Len(o) : Inside(o[i], d)
    BY <1>1, <1>3
  <1> QED BY <1>1, <1>2, <1>4, <1>5, StackOf

\* A call made by the one on top; a function is emitted for by one call of
\* _jit_trees.
LEMMA StackPushes ==
  ASSUME IsTree(sub), NEW e \in Nat, NEW f \in Nat, NEW o \in Seq(CallsUpTo(e, f)),
         NEW c \in CallsUpTo(e, f), NEW d \in CallsUpTo(e, f),
         Stack(Append(o, c)), CallWhole(d), Called(c, d), Below(d.term, c.term),
         d.at = "trees" => \A i \in 1..Len(o) : o[i].at \in Emissions => o[i].fn # d.fn
  PROVE  Stack(Append(Append(o, c), d))
  <1> DEFINE s == Append(o, c)
  <1>1. /\ Stack(o) /\ CallWhole(c)
        /\ o # <<>> => Called(o[Len(o)], c)
        /\ \A i \in 1..Len(o) : Inside(o[i], c)
    BY StackOf
  <1>2. /\ c.this \in Nat /\ d.this \in Nat /\ c.term \in Terms /\ d.term \in Terms
        /\ c.term \in Paths /\ d.term \in Paths
        /\ \A i \in 1..Len(o) : o[i].this \in Nat /\ o[i].term \in Paths
    BY CallFields, TermsArePaths
  <1>3. Inside(c, d)
    <2>1. CASE c.at \in {"trees", "binop"}
      <3>1. d.term = Emitted(c) /\ Below(d.term, d.term)
        BY <2>1, <1>2, BelowItself DEF Called
      <3> QED BY <2>1, <3>1, <1>2 DEF Inside, Called, Emissions
    <2>2. CASE c.at \notin {"trees", "binop"}
      BY <2>2, <1>2 DEF Inside, Called, Emissions
    <2> QED BY <2>1, <2>2
  <1>4. ASSUME NEW i \in 1..Len(o)
        PROVE  Inside(o[i], d)
    <2> DEFINE x == o[i]
    <2>1. Inside(x, c) /\ x.this \in Nat /\ x.term \in Paths
      BY <1>1, <1>2
    <2>2. d.at = "trees" => (x.at \in Emissions => x.fn # d.fn)
      OBVIOUS
    <2> HIDE DEF x
    <2>3. Below(d.term, x.term)
      BY <2>1, <1>2, BelowBelow DEF Inside
    <2>4. x.this <= d.this /\ (x.at = "kids" => x.this < d.this)
      BY <2>1, <1>2 DEF Inside, Called
    <2>5. x.at \in Emissions /\ d.at \in {"process", "sequence", "trees"} => x.this < d.this
      BY <2>1, <1>2 DEF Inside, Called, Emissions
    <2>6. x.at \in Emissions /\ d.at \in Emissions => (x.this = d.this <=> x.fn = d.fn)
      <3>1. CASE d.at = "trees"
        BY <2>2, <2>5, <3>1, <2>1, <1>2 DEF Emissions
      <3>2. CASE d.at # "trees"
        BY <2>1, <3>2 DEF Inside, Called, Emissions
      <3> QED BY <3>1, <3>2
    <2>7. x.at \in {"trees", "binop"} /\ d.at \in Emissions /\ x.this = d.this =>
            Below(d.term, Emitted(x))
      <3> SUFFICES ASSUME x.at \in {"trees", "binop"}, d.at \in Emissions, x.this = d.this
                   PROVE  Below(d.term, Emitted(x))
        OBVIOUS
      <3>1. d.at # "trees"
        BY <2>5, <2>1, <1>2 DEF Emissions
      <3>2. c.at \in {"trees", "binop"} /\ c.this = d.this /\ d.term = Emitted(c)
        BY <3>1 DEF Called, Emissions
      <3>3. Below(c.term, Emitted(x))
        BY <3>2, <2>1 DEF Inside, Emissions
      <3>4. CallWhole(x)
        BY <1>1 DEF Stack, x
      <3>5. x \in CallsUpTo(e, f)
        BY DEF x
      <3>6. Emitted(x) \in Paths
        BY <3>4, <3>5, EmittedTerm, TermsArePaths
      <3> QED BY <3>3, <3>6, <1>2, BelowBelow
    <2>8. Inside(x, d)
      BY <2>3, <2>4, <2>5, <2>6, <2>7 DEF Inside
    <2> QED BY <2>8 DEF x
  <1>5. /\ s \in Seq(CallsUpTo(e, f)) /\ s # <<>> /\ Len(s) = Len(o) + 1 /\ s[Len(s)] = c
        /\ \A i \in 1..Len(o) : s[i] = o[i]
    OBVIOUS
  <1> HIDE DEF s
  <1>6. \A i \in 1..Len(s) : Inside(s[i], d)
    <2> SUFFICES ASSUME NEW i \in 1..Len(s)
                 PROVE  Inside(s[i], d)
      OBVIOUS
    <2>1. CASE i = Len(s)
      BY <2>1, <1>5, <1>3
    <2>2. CASE i # Len(s)
      <3>1. i \in 1..Len(o)
        BY <2>2, <1>5
      <3> QED BY <3>1, <1>4, <1>5
    <2> QED BY <2>1, <2>2
  <1>7. Stack(s)
    BY DEF s
  <1>8. Stack(Append(s, d))
    BY <1>5, <1>6, <1>7, StackOf
  <1> QED BY <1>8 DEF s

-----------------------------------------------------------------------------
(* The stack from one state to the next *)

EmittersAlive == Len(subtrees)

FunctionsMade == Len(fns)

LEMMA TopAndOuter ==
  ASSUME TypeOK, calls # <<>>
  PROVE  /\ EmittersAlive \in Nat /\ FunctionsMade \in Nat
         /\ Top \in CallsUpTo(EmittersAlive, FunctionsMade)
         /\ Outer \in Seq(CallsUpTo(EmittersAlive, FunctionsMade))
         /\ calls = Append(Outer, Top)
         /\ Len(calls) \in Nat \ {0} /\ Len(Outer) = Len(calls) - 1
         /\ \A i \in 1..Len(Outer) : Outer[i] = calls[i]
         /\ Top.this = EmittersAlive
  <1> DEFINE S == CallsUpTo(EmittersAlive, FunctionsMade)
  <1>1. calls \in Seq(S)
    BY CallsAre DEF TypeOK, EmittersAlive, FunctionsMade
  <1>2. EmittersAlive \in Nat /\ FunctionsMade \in Nat /\ Top.this = EmittersAlive
    BY DEF TypeOK, EmittersAlive, FunctionsMade
  <1> HIDE DEF S
  <1>3. /\ Top \in S /\ Outer \in Seq(S) /\ calls = Append(Outer, Top)
        /\ Len(calls) \in Nat \ {0} /\ Len(Outer) = Len(calls) - 1
        /\ \A i \in 1..Len(Outer) : Outer[i] = calls[i]
    <2>1. Len(calls) \in Nat \ {0}
      BY <1>1
    <2>2. Top \in S
      BY <1>1, <2>1 DEF Top
    <2>3. /\ Outer \in Seq(S) /\ Len(Outer) = Len(calls) - 1
          /\ \A i \in 1..Len(Outer) : Outer[i] = calls[i]
      <3>1. PICK n \in Nat : n = Len(calls) - 1
        BY <2>1
      <3>2. \A i \in 1..n : calls[i] \in S
        BY <1>1, <3>1
      <3>3. /\ SubSeq(calls, 1, n) \in Seq(S) /\ Len(SubSeq(calls, 1, n)) = n
            /\ \A i \in 1..n : SubSeq(calls, 1, n)[i] = calls[i]
        BY <3>2, SubSeqProperties
      <3> QED BY <3>1, <3>3 DEF Outer
    <2>4. Append(Outer, Top) \in Seq(S) /\ Len(Append(Outer, Top)) = Len(calls)
      BY <2>1, <2>2, <2>3
    <2>5. \A i \in 1..Len(Append(Outer, Top)) : Append(Outer, Top)[i] = calls[i]
      BY <2>1, <2>3, <2>4 DEF Top
    <2>6. Append(Outer, Top) = calls
      BY <1>1, <2>4, <2>5, SeqEqual
    <2> QED BY <2>1, <2>2, <2>3, <2>6
  <1> QED BY <1>2, <1>3 DEF S

\* The innermost call goes on.
LEMMA GoesOn ==
  ASSUME IsTree(sub), TypeOK, Stack(calls), calls # <<>>,
         NEW e \in Nat, NEW f \in Nat, EmittersAlive <= e, FunctionsMade <= f,
         NEW c \in CallsUpTo(e, f), CallWhole(c), Similar(Top, c)
  PROVE  /\ Outer \in Seq(CallsUpTo(e, f))
         /\ Append(Outer, c) \in Seq(CallsUpTo(e, f)) /\ Stack(Append(Outer, c))
         /\ Append(Outer, c) # <<>>
         /\ Append(Outer, c)[Len(Append(Outer, c))] = c
  <1> DEFINE S == CallsUpTo(EmittersAlive, FunctionsMade)
             T == CallsUpTo(e, f)
  <1>1. /\ Outer \in Seq(S) /\ calls = Append(Outer, Top)
        /\ EmittersAlive \in Nat /\ FunctionsMade \in Nat
    BY TopAndOuter
  <1>2. Stack(Append(Outer, c))
    BY <1>1, StackGoesOn
  <1>3. \A x \in S : x \in T
    <2> SUFFICES ASSUME NEW x \in S
                 PROVE  x \in T
      OBVIOUS
    <2>1. x.this \in 1..EmittersAlive
      BY CallFields
    <2> QED BY <1>1, <2>1, CallsGrow
  <1>4. Outer \in Seq(T)
    <2> HIDE DEF S, T
    <2> QED BY <1>1, <1>3
  <1>5. Append(Outer, c) \in Seq(T) /\ Append(Outer, c) # <<>>
        /\ Append(Outer, c)[Len(Append(Outer, c))] = c
    <2>1. c \in T
      OBVIOUS
    <2> HIDE DEF T
    <2> QED BY <1>4, <2>1
  <1> QED BY <1>2, <1>4, <1>5

\* The innermost call goes on, and calls d.
LEMMA CallsAnother ==
  ASSUME IsTree(sub), TypeOK, Stack(calls), calls # <<>>,
         NEW e \in Nat, NEW f \in Nat, EmittersAlive <= e, FunctionsMade <= f,
         NEW c \in CallsUpTo(e, f), CallWhole(c), Similar(Top, c),
         NEW d \in CallsUpTo(e, f), CallWhole(d), Called(c, d), Below(d.term, c.term),
         d.at = "trees" => FunctionsMade < d.fn
  PROVE  LET s == Append(Append(Outer, c), d)
         IN s \in Seq(CallsUpTo(e, f)) /\ Stack(s) /\ s # <<>> /\ s[Len(s)] = d
  <1> DEFINE S == CallsUpTo(EmittersAlive, FunctionsMade)
             T == CallsUpTo(e, f)
             o == Append(Outer, c)
  <1>1. /\ Outer \in Seq(S) /\ FunctionsMade \in Nat
    BY TopAndOuter
  <1>2. Outer \in Seq(T) /\ o \in Seq(T) /\ Stack(o)
    BY GoesOn
  <1>3. d.at = "trees" => \A i \in 1..Len(Outer) : Outer[i].at \in Emissions => Outer[i].fn # d.fn
    <2> SUFFICES ASSUME d.at = "trees", NEW i \in 1..Len(Outer), Outer[i].at \in Emissions
                 PROVE  Outer[i].fn # d.fn
      OBVIOUS
    <2>1. Outer[i] \in S
      BY <1>1
    <2>2. Outer[i].fn \in 1..FunctionsMade
      BY <2>1, CallFields
    <2>3. d.fn \in 1..f
      BY CallFields DEF Emissions
    <2> QED BY <1>1, <2>2, <2>3
  <1>4. Stack(Append(o, d))
    BY <1>2, <1>3, StackPushes
  <1>5. d \in T
    OBVIOUS
  <1> HIDE DEF T, o
  <1>6. Append(o, d) \in Seq(T) /\ Append(o, d) # <<>> /\ Append(o, d)[Len(Append(o, d))] = d
    BY <1>2, <1>5
  <1> QED BY <1>4, <1>6 DEF T, o

\* The innermost call returns.
LEMMA CallReturns ==
  ASSUME IsTree(sub), TypeOK, Stack(calls), calls # <<>>
  PROVE  /\ Stack(Outer)
         /\ CallWhole(Top)
         /\ \A i \in 1..Len(Outer) : Inside(Outer[i], Top) /\ CallWhole(Outer[i])
         /\ Outer # <<>> => Called(Outer[Len(Outer)], Top)
         /\ Outer = <<>> => Top.at = "process" /\ Top.this = 1
         /\ \A i \in 1..Len(Outer) : Outer[i].this \in Nat /\ Outer[i].this <= EmittersAlive
                                     /\ Outer[i] \in CallsUpTo(EmittersAlive, FunctionsMade)
  <1>1. /\ Outer \in Seq(CallsUpTo(EmittersAlive, FunctionsMade)) /\ calls = Append(Outer, Top)
        /\ EmittersAlive \in Nat /\ Top.this = EmittersAlive
    BY TopAndOuter
  <1>2. /\ Stack(Outer) /\ CallWhole(Top)
        /\ Outer # <<>> => Called(Outer[Len(Outer)], Top)
        /\ \A i \in 1..Len(Outer) : Inside(Outer[i], Top)
        /\ Outer = <<>> => Top.at = "process" /\ Top.this = 1
    BY <1>1, StackOf
  <1>3. \A i \in 1..Len(Outer) : CallWhole(Outer[i])
    BY <1>2 DEF Stack
  <1>4. \A i \in 1..Len(Outer) : Outer[i].this \in 1..EmittersAlive
                                 /\ Outer[i] \in CallsUpTo(EmittersAlive, FunctionsMade)
    BY <1>1, CallFields
  <1> QED BY <1>1, <1>2, <1>3, <1>4

LEMMA TopGrows ==
  ASSUME TypeOK, calls # <<>>,
         NEW e \in Nat, NEW f \in Nat, EmittersAlive <= e, FunctionsMade <= f
  PROVE  Top \in CallsUpTo(e, f) /\ Top.this \in 1..e
  <1>1. /\ Top \in CallsUpTo(EmittersAlive, FunctionsMade)
        /\ EmittersAlive \in Nat /\ FunctionsMade \in Nat
    BY TopAndOuter
  <1>2. Top.this \in 1..EmittersAlive
    BY <1>1, CallFields
  <1> QED BY <1>1, <1>2, CallsGrow

\* Each term of the queue can be a candidate of its own.
LEMMA HeadOfQueue ==
  ASSUME IsTree(sub), TypeOK, calls # <<>>, CallWhole(Top), Top.at = "process", Queued # <<>>
  PROVE  /\ Queued \in Seq(Terms) /\ Head(Queued) \in Terms /\ Below(Head(Queued), Top.term)
         /\ Kind(Head(Queued)) \notin {"candidates", "statement"}
         /\ Top.term \in Terms
  <1>1. Top \in CallsUpTo(EmittersAlive, FunctionsMade)
    BY TopAndOuter
  <1>2. Queued \in Seq(Terms) /\ Top.term \in Terms
    BY <1>1, CallFields DEF Queued
  <1>3. Head(Queued) = Queued[1] /\ 1 \in 1..Len(Queued)
    BY <1>2
  <1> QED BY <1>2, <1>3 DEF CallWhole, Queued

LEMMA DequeuedCall ==
  ASSUME IsTree(sub), TypeOK, calls # <<>>, CallWhole(Top), Top.at = "process", Queued # <<>>,
         NEW more \in Seq(Terms),
         \A k \in 1..Len(more) : Below(more[k], Top.term)
                                 /\ Kind(more[k]) \notin {"candidates", "statement"},
         NEW e \in Nat, NEW f \in Nat, EmittersAlive <= e, FunctionsMade <= f
  PROVE  /\ Dequeued(more) \in CallsUpTo(e, f) /\ CallWhole(Dequeued(more))
         /\ Similar(Top, Dequeued(more))
         /\ Dequeued(more).at = "process" /\ Dequeued(more).this = Top.this
         /\ Dequeued(more).term = Top.term
  <1> DEFINE q == more \o Tail(Queued)
  <1>1. Top \in CallsUpTo(e, f)
    BY TopGrows
  <1>2. Queued \in Seq(Terms) /\ Tail(Queued) \in Seq(Terms)
        /\ Len(Tail(Queued)) = Len(Queued) - 1
        /\ \A k \in 1..Len(Tail(Queued)) : Tail(Queued)[k] = Queued[k + 1]
    BY HeadOfQueue, HeadTailProperties
  <1>3. \A k \in 1..Len(Queued) : Below(Queued[k], Top.term)
                                  /\ Kind(Queued[k]) \notin {"candidates", "statement"}
    BY DEF CallWhole, Queued
  <1>4. /\ q \in Seq(Terms) /\ Len(q) = Len(more) + Len(Tail(Queued))
        /\ \A k \in 1..(Len(more) + Len(Tail(Queued))) :
             q[k] = IF k <= Len(more) THEN more[k] ELSE Tail(Queued)[k - Len(more)]
    BY <1>2, ConcatProperties
  <1>5. \A k \in 1..Len(q) : Below(q[k], Top.term) /\ Kind(q[k]) \notin {"candidates", "statement"}
    <2> SUFFICES ASSUME NEW k \in 1..Len(q)
                 PROVE  Below(q[k], Top.term) /\ Kind(q[k]) \notin {"candidates", "statement"}
      OBVIOUS
    <2> HIDE DEF q
    <2>1. CASE k <= Len(more)
      BY <2>1, <1>2, <1>4
    <2>2. CASE ~ k <= Len(more)
      <3>1. k - Len(more) \in 1..Len(Tail(Queued))
        BY <2>2, <1>2, <1>4
      <3>2. (k - Len(more)) + 1 \in 1..Len(Queued)
        BY <3>1, <1>2
      <3>3. q[k] = Queued[(k - Len(more)) + 1]
        BY <2>2, <3>1, <1>2, <1>4
      <3> QED BY <3>2, <3>3, <1>3
    <2> QED BY <2>1, <2>2
  <1>6. Dequeued(more) = [Top EXCEPT !.queue = q]
    BY DEF Dequeued, Queued
  <1> HIDE DEF q
  <1>7. /\ Dequeued(more) \in CallsUpTo(e, f)
        /\ Dequeued(more).at = Top.at /\ Dequeued(more).this = Top.this
        /\ Dequeued(more).term = Top.term /\ Dequeued(more).queue = q
    BY <1>1, <1>4, <1>6, QueueChanged
  <1> QED BY <1>5, <1>7 DEF CallWhole, Similar, Emissions

\* What holds of the calls behind a step
Fits ==
  /\ subtrees' \in Seq(Seq(Ops))
  /\ fns' \in Seq(Seq(Instruction))
  /\ work' \in Seq(Seq(Instruction)) /\ Len(work') = Len(fns')
  /\ FunctionsMade <= Len(fns')
  /\ calls' \in Seq(CallsUpTo(Len(subtrees'), Len(fns')))
  /\ Stack(calls')
  /\ calls' # <<>> =>
       /\ calls'[Len(calls')].this = Len(subtrees')
       /\ calls'[Len(calls')].at \in {"process", "sequence"} => subtrees'[Len(subtrees')] = <<>>

LEMMA Here ==
  ASSUME IInv, calls # <<>>
  PROVE  /\ IsTree(sub) /\ TypeOK /\ Stack(calls) /\ CallWhole(Top)
         /\ EmittersAlive \in Nat /\ FunctionsMade \in Nat
         /\ EmittersAlive <= EmittersAlive /\ FunctionsMade <= FunctionsMade
         /\ EmittersAlive = Len(subtrees) /\ FunctionsMade = Len(fns)
         /\ Top \in CallsUpTo(EmittersAlive, FunctionsMade)
         /\ Top.this = EmittersAlive /\ Top.this \in 1..EmittersAlive /\ Top.term \in Terms
         /\ Top.at \in {"process", "sequence"} => subtrees[EmittersAlive] = <<>>
         /\ subtrees \in Seq(Seq(Ops)) /\ fns \in Seq(Seq(Instruction))
         /\ work \in Seq(Seq(Instruction)) /\ Len(work) = Len(fns)
  <1>1. IsTree(sub) /\ TypeOK /\ Stack(calls)
    BY DEF IInv
  <1>2. /\ CallWhole(Top)
        /\ EmittersAlive \in Nat /\ FunctionsMade \in Nat
        /\ Top \in CallsUpTo(EmittersAlive, FunctionsMade) /\ Top.this = EmittersAlive
    BY <1>1, CallReturns, TopAndOuter
  <1>3. Top.term \in Terms /\ Top.this \in 1..EmittersAlive
    BY <1>2, CallFields
  <1> QED BY <1>1, <1>2, <1>3 DEF TypeOK, EmittersAlive, FunctionsMade

LEMMA GoesOnFits ==
  ASSUME IInv, calls # <<>>,
         NEW c \in CallsUpTo(EmittersAlive, FunctionsMade), CallWhole(c), Similar(Top, c),
         calls' = Append(Outer, c), UNCHANGED <<subtrees, fns, work>>
  PROVE  Fits
  <1>1. /\ calls' \in Seq(CallsUpTo(EmittersAlive, FunctionsMade)) /\ Stack(calls')
        /\ calls'[Len(calls')] = c
    BY Here, GoesOn
  <1>2. c.this = EmittersAlive
        /\ (c.at \in {"process", "sequence"} => Top.at \in {"process", "sequence"})
    BY Here DEF Similar
  <1> QED BY <1>1, <1>2, Here DEF Fits

LEMMA CallsAnotherFits ==
  ASSUME IInv, calls # <<>>,
         NEW c \in CallsUpTo(EmittersAlive, FunctionsMade), CallWhole(c), Similar(Top, c),
         NEW d \in CallsUpTo(EmittersAlive, FunctionsMade), CallWhole(d), Called(c, d),
         Below(d.term, c.term), d.at # "trees", d.this = Top.this,
         d.at \in {"process", "sequence"} => Top.at \in {"process", "sequence"},
         calls' = Append(Append(Outer, c), d), UNCHANGED <<subtrees, fns, work>>
  PROVE  Fits
  <1>1. /\ calls' \in Seq(CallsUpTo(EmittersAlive, FunctionsMade)) /\ Stack(calls')
        /\ calls'[Len(calls')] = d
    BY Here, CallsAnother
  <1> QED BY <1>1, Here DEF Fits

\* A call returns in front of which there is another, of the same Emitter or of
\* the one around it.
LEMMA CallReturnsFits ==
  ASSUME IInv, calls # <<>>, Top.at # "process", calls' = Outer,
         subtrees' \in Seq(Seq(Ops)), Len(subtrees') = Len(subtrees),
         fns' \in Seq(Seq(Instruction)), Len(fns') = Len(fns),
         work' \in Seq(Seq(Instruction)), Len(work') = Len(work),
         Top.at \in {"sequence", "trees"} => subtrees'[EmittersAlive] = <<>>
  PROVE  Fits
  <1>1. /\ Outer \in Seq(CallsUpTo(EmittersAlive, FunctionsMade)) /\ Stack(Outer)
        /\ Outer # <<>> /\ Called(Outer[Len(Outer)], Top)
    BY Here, TopAndOuter, CallReturns
  <1> DEFINE c == Outer[Len(Outer)]
  <1>2. c.this = Top.this /\ (c.at \in {"process", "sequence"} => Top.at \in {"sequence", "trees"})
    BY <1>1 DEF Called
  <1> HIDE DEF c
  <1>3. /\ calls' \in Seq(CallsUpTo(Len(subtrees'), Len(fns'))) /\ Stack(calls')
        /\ calls'[Len(calls')] = c
    BY <1>1, Here DEF c
  <1> QED BY <1>2, <1>3, Here DEF Fits

LEMMA NothingMore ==
  ASSUME NEW m, m = <<>>
  PROVE  /\ m \in Seq(Terms) /\ Len(m) = 0
         /\ \A k \in 1..Len(m) : Below(m[k], Top.term) /\ Kind(m[k]) \notin {"candidates", "statement"}
  <1>1. m \in Seq(Terms) /\ Len(m) = 0
    OBVIOUS
  <1> QED BY <1>1

LEMMA ProcessVariableFits ==
  ASSUME IInv, ProcessVariable
  PROVE  Fits
  <1>1. calls # <<>> /\ Top.at = "process" /\ Queued # <<>>
    BY DEF IInv, TypeOK, ProcessVariable, Goes, At
  <1>2. PICK m : m = <<>>
    OBVIOUS
  <1>3. /\ Dequeued(m) \in CallsUpTo(EmittersAlive, FunctionsMade)
        /\ CallWhole(Dequeued(m)) /\ Similar(Top, Dequeued(m))
    BY <1>1, <1>2, NothingMore, Here, DequeuedCall
  <1>4. calls' = Append(Outer, Dequeued(m)) /\ UNCHANGED <<subtrees, fns, work>>
    BY <1>2 DEF ProcessVariable, code
  <1> QED BY <1>1, <1>3, <1>4, GoesOnFits

LEMMA ProcessKidsFits ==
  ASSUME IInv, ProcessKids
  PROVE  Fits
  <1>1. calls # <<>> /\ Top.at = "process" /\ Queued # <<>> /\ IsOther(Head(Queued))
    BY DEF IInv, TypeOK, ProcessKids, Goes, At
  <1> DEFINE h == Head(Queued)
             m == Kids(h)
  <1>2. /\ h \in Terms /\ Below(h, Top.term) /\ Kind(h) # "sequence" /\ Top.term \in Terms
    BY <1>1, Here, HeadOfQueue DEF IsOther
  <1>3. m \in Seq(Terms) /\ Len(m) = sub[h].size /\ \A k \in 1..sub[h].size : m[k] = Append(h, k)
    BY <1>2, Here, <1>1, KidsOf
  <1> HIDE DEF m, h
  <1>4. \A k \in 1..Len(m) : Below(m[k], Top.term) /\ Kind(m[k]) \notin {"candidates", "statement"}
    <2> SUFFICES ASSUME NEW k \in 1..Len(m)
                 PROVE  Below(m[k], Top.term) /\ Kind(m[k]) \notin {"candidates", "statement"}
      OBVIOUS
    <2>1. k \in 1..sub[h].size /\ m[k] = Append(h, k)
      BY <1>3
    <2>2. /\ Append(h, k) \in Paths /\ Below(Append(h, k), h)
          /\ Kind(Append(h, k)) \notin {"candidates", "statement"}
      BY <2>1, <1>1, <1>2, Here, KidTerm
    <2>3. h \in Paths /\ Top.term \in Paths
      BY <1>1, <1>2, Here, TermsArePaths
    <2> QED BY <2>1, <2>2, <2>3, <1>2, BelowBelow
  <1>5. /\ Dequeued(m) \in CallsUpTo(EmittersAlive, FunctionsMade)
        /\ CallWhole(Dequeued(m)) /\ Similar(Top, Dequeued(m))
    BY <1>1, <1>3, <1>4, Here, DequeuedCall
  <1>6. calls' = Append(Outer, Dequeued(m)) /\ UNCHANGED <<subtrees, fns, work>>
    BY DEF ProcessKids, code, m, h
  <1> QED BY <1>1, <1>5, <1>6, GoesOnFits

LEMMA ProcessSequenceFits ==
  ASSUME IInv, ProcessSequence
  PROVE  Fits
  <1>1. calls # <<>> /\ Top.at = "process" /\ Queued # <<>> /\ Kind(Head(Queued)) = "sequence"
    BY DEF IInv, TypeOK, ProcessSequence, Goes, At
  <1>2. PICK m : m = <<>>
    OBVIOUS
  <1> DEFINE c == Dequeued(m)
             d == Sequence(Top.this, Head(Queued))
  <1>3. /\ c \in CallsUpTo(EmittersAlive, FunctionsMade)
        /\ CallWhole(c) /\ Similar(Top, c)
        /\ c.at = "process" /\ c.this = Top.this /\ c.term = Top.term
    BY <1>1, <1>2, NothingMore, Here, DequeuedCall
  <1>4. Head(Queued) \in Terms /\ Below(Head(Queued), Top.term)
    BY <1>1, Here, HeadOfQueue
  <1>5. /\ d \in CallsUpTo(EmittersAlive, FunctionsMade)
        /\ d.at = "sequence" /\ d.this = Top.this
        /\ d.term = Head(Queued) /\ d.first = 1 /\ d.next = 1
    BY <1>1, <1>4, Here, SequenceCall
  <1>6. calls' = Append(Append(Outer, c), d) /\ UNCHANGED <<subtrees, fns, work>>
    BY <1>2 DEF ProcessSequence, Continue, code
  <1> HIDE DEF c, d
  <1>7. CallWhole(d)
    BY <1>1, <1>4, <1>5, Here, TermsArePaths DEF CallWhole
  <1>8. Called(c, d)
    BY <1>3, <1>5 DEF Called
  <1> QED BY <1>1, <1>3, <1>4, <1>5, <1>6, <1>7, <1>8, CallsAnotherFits

LEMMA JitTreesFits ==
  ASSUME IInv, calls # <<>>, Top.at \in {"process", "sequence"},
         NEW c \in CallsUpTo(EmittersAlive, FunctionsMade), CallWhole(c), Similar(Top, c),
         NEW p \in Terms, Below(p, Top.term),
         NEW asts \in Seq(Terms), asts # <<>>, Below(asts[1], p), HasOp(asts[1]),
         Kind(asts[1]) # "statement" => Len(asts) = 1,
         Top.at = "process" => Kind(asts[1]) # "statement",
         JitTrees(c, p, asts), UNCHANGED subtrees
  PROVE  Fits
  <1>0. PICK f \in Nat : f = FunctionsMade + 1
    BY Here
  <1> DEFINE T == CallsUpTo(EmittersAlive, f)
             d == Trees(Top.this, p, asts, f)
             root == asts[1]
             g == Emit(Top.this, root, f)
             s == Append(Append(Outer, c), d)
  <1>1. /\ f \in Nat /\ f \in 1..f /\ FunctionsMade < f /\ FunctionsMade <= f
        /\ EmittersAlive <= EmittersAlive /\ EmittersAlive \in Nat
        /\ Top.this \in 1..EmittersAlive /\ root \in Terms
    BY <1>0, Here
  <1>2. /\ calls' = Append(s, g)
        /\ fns' = Append(fns, <<>>) /\ work' = Append(work, <<>>)
    BY <1>0, Here DEF JitTrees
  <1>3. /\ d \in T /\ d.at = "trees" /\ d.this = Top.this
        /\ d.term = p /\ d.asts = asts /\ d.n = 1 /\ d.fn = f
    <2> QED BY <1>1 DEF Trees, CallsUpTo
  <1>4. g \in T /\ g.at = "emit" /\ g.this = Top.this /\ g.term = root /\ g.fn = f
    <2> HIDE DEF root
    <2> QED BY <1>1 DEF Emit, CallsUpTo
  <1>5. /\ c.this = Top.this /\ c.term = Top.term /\ c.at = Top.at
        /\ c.at \in {"process", "sequence"}
    BY DEF Similar
  <1>6. c \in T
    <2>1. c.this <= EmittersAlive
      BY <1>1, <1>5
    <2> QED BY <2>1, <1>1, Here, CallsGrow
  <1>7. CallWhole(d)
    <2> HIDE DEF d
    <2> QED BY <1>3 DEF CallWhole
  <1>8. CallWhole(g)
    <2> HIDE DEF g
    <2> QED BY <1>4 DEF CallWhole
  <1>9. Called(c, d)
    <2> HIDE DEF d
    <2> QED BY <1>3, <1>5 DEF Called
  <1>10. Called(d, g) /\ Below(g.term, d.term)
    <2> HIDE DEF d, g
    <2> QED BY <1>3, <1>4 DEF Called, Emitted
  <1>11. s \in Seq(T) /\ Stack(s) /\ Append(Outer, c) \in Seq(T)
    <2> HIDE DEF d
    <2>1. Below(d.term, c.term)
      BY <1>3, <1>5
    <2>2. s \in Seq(T) /\ Stack(s)
      BY <1>1, <1>3, <1>6, <1>7, <1>9, <2>1, Here, CallsAnother
    <2>3. Append(Outer, c) \in Seq(T)
      BY <1>1, <1>6, Here, GoesOn
    <2> QED BY <2>2, <2>3
  <1>12. Stack(Append(s, g))
    <2> HIDE DEF d, g
    <2> QED BY <1>1, <1>3, <1>4, <1>7, <1>8, <1>10, <1>11, Here, StackPushes
  <1>13. Append(s, g) \in Seq(T) /\ Append(s, g)[Len(Append(s, g))] = g
    <2> HIDE DEF s, g, T
    <2> QED BY <1>4, <1>11
  <1>14. /\ fns' \in Seq(Seq(Instruction)) /\ Len(fns') = f
         /\ work' \in Seq(Seq(Instruction)) /\ Len(work') = Len(fns')
    BY <1>0, <1>2, Here
  <1>15. Len(subtrees') = EmittersAlive /\ subtrees' \in Seq(Seq(Ops))
    BY Here
  <1> HIDE DEF s, g
  <1>16. calls' \in Seq(CallsUpTo(Len(subtrees'), Len(fns')))
    BY <1>2, <1>13, <1>14, <1>15
  <1>17. calls'[Len(calls')] = g /\ g.this = Len(subtrees') /\ g.at \notin {"process", "sequence"}
    BY <1>2, <1>4, <1>13, <1>15, Here
  <1>18. Stack(calls')
    BY <1>2, <1>12
  <1> QED BY <1>1, <1>14, <1>15, <1>16, <1>17, <1>18 DEF Fits

LEMMA ProcessTreeFits ==
  ASSUME IInv, ProcessTree
  PROVE  Fits
  <1>1. calls # <<>> /\ Top.at = "process" /\ Queued # <<>> /\ IsOther(Head(Queued))
    BY DEF IInv, TypeOK, ProcessTree, Goes, At
  <1>2. PICK m : m = <<>>
    OBVIOUS
  <1>3. /\ Dequeued(m) \in CallsUpTo(EmittersAlive, FunctionsMade)
        /\ CallWhole(Dequeued(m)) /\ Similar(Top, Dequeued(m))
    BY <1>1, <1>2, NothingMore, Here, DequeuedCall
  <1>4. PICK h \in Terms : h = Head(Queued)
    BY <1>1, Here, HeadOfQueue
  <1>5. Below(h, Top.term) /\ Kind(h) \notin {"candidates", "statement"}
    BY <1>1, <1>4, Here, HeadOfQueue
  <1> DEFINE a == <<h>>
  <1>6. a \in Seq(Terms)
    OBVIOUS
  <1>7. a # <<>> /\ a[1] = h /\ Len(a) = 1
    OBVIOUS
  <1>8. Below(h, h) /\ HasOp(h)
    BY <1>1, <1>4, <1>5, Here, TermsArePaths, BelowItself DEF HasOp, IsOther
  <1>9. JitTrees(Dequeued(m), h, a) /\ UNCHANGED subtrees
    BY <1>2, <1>4 DEF ProcessTree
  <1> HIDE DEF a
  <1> QED BY <1>1, <1>3, <1>5, <1>6, <1>7, <1>8, <1>9, JitTreesFits

LEMMA StretchOfTop ==
  ASSUME IInv, calls # <<>>, Top.at = "sequence"
  PROVE  /\ Kind(Top.term) = "sequence" /\ Top.term \in Terms
         /\ Top.first \in Nat \ {0} /\ Top.next \in Nat \ {0} /\ Top.first <= Top.next
         /\ sub[Top.term].size \in Nat /\ Top.next <= sub[Top.term].size + 1
         /\ \A k \in 1..sub[Top.term].size :
              /\ Append(Top.term, k) \in Terms /\ Below(Append(Top.term, k), Top.term)
              /\ Kind(Append(Top.term, k)) = "statement"
  <1>1. /\ Kind(Top.term) = "sequence" /\ Top.first \in 1..Top.next
        /\ Top.next <= sub[Top.term].size + 1
    BY Here DEF CallWhole
  <1>2. Top.first \in Nat /\ Top.next \in Nat /\ Top.term \in Terms
    BY Here, CallFields
  <1>3. sub[Top.term].size \in Nat
    BY <1>2, Here, TermsArePaths
  <1>4. \A k \in 1..sub[Top.term].size :
              /\ Append(Top.term, k) \in Terms /\ Below(Append(Top.term, k), Top.term)
              /\ Kind(Append(Top.term, k)) = "statement"
    BY <1>1, <1>2, Here, KidTerm
  <1> QED BY <1>1, <1>2, <1>3, <1>4

LEMMA SequenceTakesFits ==
  ASSUME IInv, SequenceTakes
  PROVE  Fits
  <1>1. calls # <<>> /\ Top.at = "sequence" /\ More
    BY DEF IInv, TypeOK, SequenceTakes, Goes, At
  <1> DEFINE c == [Top EXCEPT !.next = @ + 1]
  <1>0. c = [Top EXCEPT !.next = @ + 1]
    OBVIOUS
  <1> HIDE DEF c
  <1>2. /\ c \in CallsUpTo(EmittersAlive, FunctionsMade)
        /\ c.at = Top.at /\ c.this = Top.this /\ c.term = Top.term
        /\ c.first = Top.first /\ c.next = Top.next + 1
    BY <1>1, <1>0, Here, StretchTakes
  <1>3. calls' = Append(Outer, c) /\ UNCHANGED <<subtrees, fns, work>>
    BY DEF SequenceTakes, code, c
  <1>4. CallWhole(c)
    BY <1>1, <1>2, StretchOfTop DEF CallWhole, More
  <1>5. Similar(Top, c)
    BY <1>1, <1>2 DEF Similar, Emissions
  <1> QED BY <1>1, <1>2, <1>3, <1>4, <1>5, GoesOnFits

LEMMA SequenceSearchesFits ==
  ASSUME IInv, SequenceSearches
  PROVE  Fits
  <1>1. calls # <<>> /\ Top.at = "sequence" /\ More /\ Top.first = Top.next
    BY DEF IInv, TypeOK, SequenceSearches, Goes, At
  <1> DEFINE c == [Top EXCEPT !.first = @ + 1, !.next = @ + 1]
             d == Process(Top.this, Next1)
  <1>2. /\ c \in CallsUpTo(EmittersAlive, FunctionsMade)
        /\ c.at = Top.at /\ c.this = Top.this /\ c.term = Top.term
        /\ c.first = Top.first + 1 /\ c.next = Top.next + 1
    <2> DEFINE R == [at : {"sequence"}, this : 1..EmittersAlive, term : Terms,
                     first : Nat, next : Nat]
    <2>1. Top \in R
      BY <1>1, Here DEF CallsUpTo
    <2>2. Top.first + 1 \in Nat /\ Top.next + 1 \in Nat
      BY <2>1
    <2>3. c = [Top EXCEPT !.first = Top.first + 1, !.next = Top.next + 1]
      BY <2>1
    <2>4. c \in R
      BY <2>1, <2>2, <2>3
    <2>5. R \subseteq CallsUpTo(EmittersAlive, FunctionsMade)
      BY DEF CallsUpTo
    <2>6. /\ c.at = Top.at /\ c.this = Top.this /\ c.term = Top.term
          /\ c.first = Top.first + 1 /\ c.next = Top.next + 1
      BY <2>1, <2>3
    <2> QED BY <2>4, <2>5, <2>6
  <1> HIDE DEF c
  <1>3. /\ calls' = Append(Append(Outer, c), d) /\ UNCHANGED <<subtrees, fns, work>>
    BY DEF SequenceSearches, Continue, code, c
  <1>4. Next1 \in Terms /\ Below(Next1, Top.term) /\ Kind(Next1) = "statement"
    BY <1>1, StretchOfTop DEF Next1, More
  <1>5. /\ d \in CallsUpTo(EmittersAlive, FunctionsMade)
        /\ d.at = "process" /\ d.this = Top.this /\ d.term = Next1 /\ d.queue = Kids(Next1)
    BY <1>1, <1>4, Here, ProcessCall
  <1> HIDE DEF d
  <1>6. CallWhole(c)
    BY <1>1, <1>2, StretchOfTop DEF CallWhole, More
  <1>7. Similar(Top, c)
    BY <1>1, <1>2 DEF Similar, Emissions
  <1>8. CallWhole(d)
    <2>1. \A k \in 1..Len(Kids(Next1)) :
            Below(Kids(Next1)[k], Next1) /\ Kind(Kids(Next1)[k]) \notin {"candidates", "statement"}
      BY <1>1, <1>4, Here, WholeQueue
    <2> QED BY <1>5, <2>1 DEF CallWhole
  <1>9. Called(c, d)
    BY <1>1, <1>2, <1>5 DEF Called
  <1>10. Below(d.term, c.term)
    BY <1>2, <1>4, <1>5
  <1>11. d.at # "trees" /\ d.this = Top.this /\ Top.at \in {"process", "sequence"}
    BY <1>1, <1>5
  <1> QED BY <1>1, <1>2, <1>3, <1>5, <1>6, <1>7, <1>8, <1>9, <1>10, <1>11, CallsAnotherFits

LEMMA SequenceFlushesFits ==
  ASSUME IInv, SequenceFlushes
  PROVE  Fits
  <1>1. calls # <<>> /\ Top.at = "sequence" /\ Top.first < Top.next
    BY DEF IInv, TypeOK, SequenceFlushes, Goes, At
  <1> DEFINE c == [Top EXCEPT !.first = Top.next]
             a == [i \in 1..(Top.next - Top.first) |-> Append(Top.term, Top.first + (i - 1))]
  <1>0. c = [Top EXCEPT !.first = Top.next]
    OBVIOUS
  <1> HIDE DEF c
  <1>2. /\ c \in CallsUpTo(EmittersAlive, FunctionsMade)
        /\ c.at = Top.at /\ c.this = Top.this /\ c.term = Top.term
        /\ c.first = Top.next /\ c.next = Top.next
    BY <1>1, <1>0, Here, StretchFlushed
  <1>3. JitTrees(c, Top.term, a) /\ UNCHANGED subtrees
    BY DEF SequenceFlushes, c
  <1>4. PICK n \in Nat \ {0} : n = Top.next - Top.first
    BY <1>1, StretchOfTop
  <1>5. \A i \in 1..n : Top.first + (i - 1) \in 1..sub[Top.term].size
    BY <1>1, <1>4, StretchOfTop
  <1>6. \A i \in 1..n : Append(Top.term, Top.first + (i - 1)) \in Terms
    BY <1>1, <1>5, StretchOfTop
  <1>7. a \in [1..n -> Terms]
    BY <1>4, <1>6
  <1>8. a \in Seq(Terms) /\ Len(a) = n /\ a # <<>>
    <2> HIDE DEF a
    <2> QED BY <1>7
  <1>9. a[1] = Append(Top.term, Top.first + (1 - 1))
    BY <1>4
  <1>10. Below(a[1], Top.term) /\ Kind(a[1]) = "statement"
    BY <1>1, <1>4, <1>5, <1>9, StretchOfTop
  <1> HIDE DEF a
  <1>11. CallWhole(c)
    BY <1>1, <1>2, StretchOfTop DEF CallWhole
  <1>12. Similar(Top, c)
    BY <1>1, <1>2 DEF Similar, Emissions
  <1>13. Top.term \in Terms /\ Below(Top.term, Top.term) /\ HasOp(a[1])
    BY <1>1, <1>10, Here, TermsArePaths, BelowItself DEF HasOp
  <1> QED BY <1>1, <1>2, <1>3, <1>8, <1>10, <1>11, <1>12, <1>13, JitTreesFits

Whats == {"load", "SvNV", "fadd", "assign", "run", "pop", "mortal", "push", "ret"}

LEMMA InstructionsAre ==
  ASSUME NEW p \in Terms, NEW whats \in Seq(Whats)
  PROVE  /\ Instructions(p, whats) \in Seq(Instruction)
         /\ Len(Instructions(p, whats)) = Len(whats)
         /\ \A i \in 1..Len(whats) : /\ Instructions(p, whats)[i].term = p
                                     /\ Instructions(p, whats)[i].what = whats[i]
  <1>1. PICK n \in Nat : n = Len(whats)
    OBVIOUS
  <1>2. \A i \in 1..n : [what |-> whats[i], term |-> p] \in Instruction
    <2>1. \A i \in 1..n : whats[i] \in Whats
      BY <1>1
    <2>2. Instruction = [what : Whats, term : Terms]
      BY DEF Instruction, Whats
    <2> QED BY <2>1, <2>2
  <1>3. Instructions(p, whats) = [i \in 1..n |-> [what |-> whats[i], term |-> p]]
    BY <1>1 DEF Instructions
  <1> HIDE DEF Instruction
  <1>4. Instructions(p, whats) \in [1..n -> Instruction]
    BY <1>2, <1>3
  <1>5. Instructions(p, whats) \in Seq(Instruction) /\ Len(Instructions(p, whats)) = n
    BY <1>4
  <1>6. \A i \in 1..n : /\ Instructions(p, whats)[i].term = p
                        /\ Instructions(p, whats)[i].what = whats[i]
    BY <1>3
  <1> QED BY <1>1, <1>5, <1>6

LEMMA InsertFits ==
  ASSUME IInv, calls # <<>>, NEW f \in 1..FunctionsMade, NEW list \in Seq(Instruction),
         Insert(f, list)
  PROVE  /\ fns' \in Seq(Seq(Instruction)) /\ Len(fns') = Len(fns)
         /\ work' \in Seq(Seq(Instruction)) /\ Len(work') = Len(work)
         /\ f \in 1..Len(work) /\ work[f] \in Seq(Instruction)
         /\ work'[f] = work[f] \o list
         /\ \A g \in 1..Len(work) : g # f => work'[g] = work[g]
  <1> DEFINE I == Seq(Instruction)
  <1>1. /\ fns \in Seq(I) /\ work \in Seq(I) /\ list \in I
        /\ Len(work) = Len(fns) /\ f \in 1..Len(work)
    BY Here
  <1>2. \A x \in I : x \o list \in I
    BY ConcatProperties
  <1>3. /\ fns' = [fns EXCEPT ![cur] = fns[cur] \o list]
        /\ work' = [work EXCEPT ![f] = work[f] \o list]
    BY DEF Insert
  <1> HIDE DEF I
  <1>4. work[f] \in I /\ work[f] \o list \in I
    BY <1>1, <1>2
  <1>5. /\ work' \in Seq(I) /\ Len(work') = Len(work)
        /\ work'[f] = work[f] \o list
        /\ \A g \in 1..Len(work) : g # f => work'[g] = work[g]
    BY <1>1, <1>3, <1>4, ExceptSeq
  <1>6. CASE cur \in 1..Len(fns)
    <2>1. fns[cur] \o list \in I
      BY <1>1, <1>2, <1>6
    <2>2. fns' \in Seq(I) /\ Len(fns') = Len(fns)
      BY <1>1, <1>3, <1>6, <2>1, ExceptSeq
    <2> QED BY <1>1, <1>4, <1>5, <2>2 DEF I
  <1>7. CASE cur \notin 1..Len(fns)
    <2>1. fns' = fns
      BY <1>1, <1>3, <1>7
    <2> QED BY <1>1, <1>4, <1>5, <2>1 DEF I
  <1> QED BY <1>6, <1>7

LEMMA ProcessReturnsFits ==
  ASSUME IInv, ProcessReturns
  PROVE  Fits
  <1>1. calls # <<>> /\ Top.at = "process" /\ calls' = Outer
    BY DEF IInv, TypeOK, ProcessReturns, At
  <1>2. /\ Outer \in Seq(CallsUpTo(EmittersAlive, FunctionsMade)) /\ Stack(Outer)
        /\ Outer # <<>> => Called(Outer[Len(Outer)], Top)
        /\ \A i \in 1..Len(Outer) : /\ Outer[i].this \in Nat /\ Outer[i].this <= EmittersAlive
                                    /\ Inside(Outer[i], Top)
    BY <1>1, Here, TopAndOuter, CallReturns
  <1>3. UNCHANGED <<fns, work>>
    BY DEF ProcessReturns, code
  <1>4. CASE Outer = <<>>
    <2>1. UNCHANGED subtrees /\ calls' = <<>>
      BY <1>1, <1>4 DEF ProcessReturns
    <2>2. Stack(<<>>)
      BY <1>2, <1>4
    <2>3. calls' \in Seq(CallsUpTo(Len(subtrees'), Len(fns'))) /\ Stack(calls')
      BY <2>1, <2>2
    <2> QED BY <1>1, <1>3, <2>1, <2>3, Here DEF Fits
  <1>5. CASE Outer # <<>>
    <2> DEFINE c == Outer[Len(Outer)]
               n == c.this
               S == CallsUpTo(EmittersAlive, FunctionsMade)
               T == CallsUpTo(n, FunctionsMade)
    <2>1. Len(Outer) \in 1..Len(Outer)
      BY <1>2, <1>5
    <2>2. n \in 1..EmittersAlive /\ n \in Nat /\ n <= EmittersAlive /\ c \in S /\ EmittersAlive \in Nat
      BY <1>1, <1>2, <2>1, Here, CallFields
    <2>3. subtrees' = SubSeq(subtrees, 1, n)
      BY <1>5 DEF ProcessReturns
    <2>4. /\ subtrees' \in Seq(Seq(Ops)) /\ Len(subtrees') = n
          /\ \A i \in 1..n : subtrees'[i] = subtrees[i]
      <3> HIDE DEF n
      <3>1. subtrees \in Seq(Seq(Ops)) /\ Len(subtrees) = EmittersAlive
        BY <1>1, Here
      <3>2. \A i \in 1..n : subtrees[i] \in Seq(Ops)
        BY <2>2, <3>1
      <3> QED BY <2>2, <2>3, <3>2, SubSeqProperties
    <2>5. \A i \in 1..Len(Outer) : Outer[i].this <= n
      <3> SUFFICES ASSUME NEW i \in 1..Len(Outer)
                   PROVE  Outer[i].this <= n
        OBVIOUS
      <3>1. CASE i = Len(Outer)
        BY <2>2, <3>1
      <3>2. CASE i # Len(Outer)
        <4>1. i < Len(Outer)
          BY <2>1, <3>2
        <4>2. Inside(Outer[i], c)
          BY <1>2, <2>1, <4>1 DEF Stack
        <4> QED BY <4>2 DEF Inside
      <3> QED BY <3>1, <3>2
    <2>6. Outer \in Seq(T)
      <3>1. \A i \in 1..Len(Outer) : Outer[i] \in T
        <4> SUFFICES ASSUME NEW i \in 1..Len(Outer)
                     PROVE  Outer[i] \in T
          OBVIOUS
        <4>1. Outer[i] \in S /\ Outer[i].this <= n
          BY <1>2, <2>5
        <4> HIDE DEF n
        <4> QED BY <4>1, <2>2, <1>1, Here, CallsGrow
      <3> HIDE DEF T, S
      <3>2. Outer \in Seq(S)
        BY <1>2 DEF S
      <3> QED BY <3>1, <3>2
    <2>7. c.at \in {"process", "sequence"} => subtrees'[n] = <<>>
      <3> SUFFICES ASSUME c.at \in {"process", "sequence"}
                   PROVE  subtrees'[n] = <<>>
        OBVIOUS
      <3>1. n = EmittersAlive
        BY <1>1, <1>2, <1>5, Here DEF Called
      <3> QED BY <1>1, <2>2, <2>4, <3>1, Here
    <2> HIDE DEF n, T
    <2>8. calls' \in Seq(CallsUpTo(Len(subtrees'), Len(fns')))
      BY <1>1, <1>3, <2>4, <2>6, Here DEF T
    <2> QED BY <1>1, <1>2, <1>3, <2>4, <2>7, <2>8, Here DEF Fits, n
  <1> QED BY <1>4, <1>5

\* A call of a function that is emitted for
LEMMA EmissionOfTop ==
  ASSUME IInv, calls # <<>>, Top.at \in Emissions
  PROVE  Top.fn \in 1..FunctionsMade
  BY Here, CallFields

LEMMA WhatsOf ==
  /\ {"load", "SvNV", "fadd", "assign", "run", "pop", "mortal", "push", "ret"} \subseteq Whats
  /\ <<>> \in Seq(Whats)
  /\ \A v \in Whats : <<v>> \in Seq(Whats)
  /\ \A v, w \in Whats : <<v, w>> \in Seq(Whats)
  <1>1. {"load", "SvNV", "fadd", "assign", "run", "pop", "mortal", "push", "ret"} \subseteq Whats
    BY DEF Whats
  <1> QED BY <1>1

LEMMA SumOf ==
  ASSUME NEW l, NEW r, NEW code1 \in {<<>>, <<"assign">>}
  PROVE  ToNv(l) \o ToNv(r) \o <<"fadd">> \o code1 \in Seq(Whats)
  <1>1. ToNv(l) \in Seq(Whats) /\ ToNv(r) \in Seq(Whats)
    BY WhatsOf DEF ToNv
  <1>2. <<"fadd">> \in Seq(Whats) /\ code1 \in Seq(Whats)
    BY WhatsOf
  <1> QED BY <1>1, <1>2, ConcatProperties

LEMMA SequenceReturnsFits ==
  ASSUME IInv, SequenceReturns
  PROVE  Fits
  <1>1. /\ calls # <<>> /\ Top.at = "sequence" /\ calls' = Outer
        /\ UNCHANGED <<subtrees, fns, work>>
    BY DEF IInv, TypeOK, SequenceReturns, At, code
  <1> QED BY <1>1, Here, CallReturnsFits

LEMMA EmitConstFits ==
  ASSUME IInv, EmitConst
  PROVE  Fits
  <1>1. /\ calls # <<>> /\ Top.at = "emit" /\ calls' = Outer
        /\ UNCHANGED <<subtrees, fns, work>>
    BY DEF IInv, TypeOK, EmitConst, At, Returning, code
  <1> QED BY <1>1, Here, CallReturnsFits

LEMMA JitKidsFailFits ==
  ASSUME IInv, JitKidsFail
  PROVE  Fits
  <1>1. /\ calls # <<>> /\ Top.at = "kids" /\ calls' = Outer
        /\ UNCHANGED <<subtrees, fns, work>>
    BY DEF IInv, TypeOK, JitKidsFail, At, Returning, code
  <1> QED BY <1>1, Here, CallReturnsFits

\* What a call of _jit_trees holds; statements leave no value for it to go on with.
LEMMA TreesOfTop ==
  ASSUME IInv, calls # <<>>, Top.at = "trees"
  PROVE  /\ Top.n = 1 /\ Root1 = Top.asts[1] /\ Root1 \in Terms
         /\ Top.fn \in 1..FunctionsMade /\ HasOp(Root1) /\ Below(Root1, Top.term)
         /\ Root \in Terms
         /\ Valid => Len(Top.asts) = 1
  <1>1. /\ Top.n = 1 /\ Top.asts # <<>> /\ HasOp(Top.asts[1]) /\ Below(Top.asts[1], Top.term)
        /\ Kind(Top.asts[1]) # "statement" => Len(Top.asts) = 1
    BY Here DEF CallWhole
  <1>2. Top.asts \in Seq(Terms)
    BY Here, CallFields
  <1>3. Root1 = Top.asts[1] /\ Root1 \in Terms
    BY <1>1, <1>2 DEF Root1
  <1>4. Valid => Kind(Top.asts[1]) # "statement"
    BY DEF IInv, ValuesExplained, Explains, Emitted, Valid
  <1>5. Root \in Terms
    BY Here, TermsArePaths DEF Root
  <1> QED BY <1>1, <1>3, <1>4, <1>5, EmissionOfTop DEF Emissions

LEMMA SubtreesCleared ==
  ASSUME IInv, calls # <<>>, subtrees' = [subtrees EXCEPT ![Top.this] = <<>>]
  PROVE  /\ subtrees' \in Seq(Seq(Ops)) /\ Len(subtrees') = Len(subtrees)
         /\ subtrees'[EmittersAlive] = <<>>
         /\ \A i \in 1..Len(subtrees) : i # Top.this => subtrees'[i] = subtrees[i]
  <1> DEFINE S == Seq(Ops)
  <1>1. /\ subtrees \in Seq(S) /\ Top.this \in 1..Len(subtrees) /\ <<>> \in S
        /\ Top.this = EmittersAlive
    BY Here
  <1> HIDE DEF S
  <1>2. /\ subtrees' \in Seq(S) /\ Len(subtrees') = Len(subtrees)
        /\ subtrees'[EmittersAlive] = <<>>
        /\ \A i \in 1..Len(subtrees) : i # Top.this => subtrees'[i] = subtrees[i]
    BY <1>1, ExceptSeq
  <1> QED BY <1>2 DEF S

\* The way on behind the root that was emitted is that behind the last one.
LEMMA JitTreesGoOnMakes ==
  ASSUME IInv, JitTreesGoOn
  PROVE  /\ calls # <<>> /\ Top.at = "trees" /\ calls' = Outer
         /\ Insert(Top.fn, Instructions(Root1, ReturnCode) \o Instructions(Root, <<"ret">>))
         /\ jits' = Append(jits, [fn |-> Top.fn, kids |-> subtrees[Top.this]])
         /\ subtrees' = [subtrees EXCEPT ![Top.this] = <<>>]
         /\ log' = Append(log, Replace(Replaced, Top.fn))
         /\ Len(Top.asts) = 1 /\ Kind(Top.asts[1]) # "statement"
  <1>1. calls # <<>> /\ Top.at = "trees" /\ Valid
    BY DEF IInv, TypeOK, JitTreesGoOn, At
  <1>2. Top.n = 1 /\ Len(Top.asts) = 1
    BY <1>1, TreesOfTop
  <1>3. Kind(Top.asts[1]) # "statement"
    BY <1>1 DEF IInv, ValuesExplained, Explains, Emitted, Valid
  <1>4. ~ Top.n < Len(Top.asts)
    BY <1>2
  <1> QED BY <1>1, <1>2, <1>3, <1>4 DEF JitTreesGoOn

\* The instructions the call on top has inserted when it returns: they are about
\* its term, or end a function.
Inserts(list) ==
  /\ calls # <<>> /\ Top.at \in Emissions /\ Top.fn \in 1..FunctionsMade /\ calls' = Outer
  /\ list \in Seq(Instruction) /\ Insert(Top.fn, list)
  /\ \A k \in 1..Len(list) :
       /\ Top.at # "trees" => list[k].term = Top.term
       /\ Top.at = "trees" => list[k].what \notin {"run", "load", "fadd"}

LEMMA InsertsAboutTerm ==
  ASSUME IInv, calls # <<>>, Top.at \in {"emit", "binop", "kids"}, calls' = Outer,
         NEW whats \in Seq(Whats), Insert(Top.fn, Instructions(Top.term, whats))
  PROVE  Inserts(Instructions(Top.term, whats))
  <1>1. Top.term \in Terms /\ Top.fn \in 1..FunctionsMade /\ Top.at \in Emissions
    BY Here, EmissionOfTop DEF Emissions
  <1>2. /\ Instructions(Top.term, whats) \in Seq(Instruction)
        /\ Len(Instructions(Top.term, whats)) = Len(whats)
        /\ \A i \in 1..Len(whats) : Instructions(Top.term, whats)[i].term = Top.term
    BY <1>1, InstructionsAre
  <1> QED BY <1>1, <1>2 DEF Inserts

LEMMA GetLexicalInserts ==
  ASSUME IInv, GetLexical
  PROVE  Inserts(Instructions(Top.term, <<"load">>))
  <1>1. /\ calls # <<>> /\ Top.at = "emit" /\ calls' = Outer
        /\ Insert(Top.fn, Instructions(Top.term, <<"load">>))
    BY DEF IInv, TypeOK, GetLexical, At, Returning
  <1>2. PICK w \in Seq(Whats) : w = <<"load">>
    <2> DEFINE w == <<"load">>
    <2>1. w \in Seq(Whats)
      BY WhatsOf
    <2> HIDE DEF w
    <2> QED BY <2>1 DEF w
  <1> QED BY <1>1, <1>2, InsertsAboutTerm

LEMMA BinopAddsInserts ==
  ASSUME IInv, BinopAdds
  PROVE  \E list : Inserts(list)
  <1> DEFINE w == ToNv(Top.left) \o ToNv(value) \o <<"fadd">>
                    \o (IF Assigns THEN <<"assign">> ELSE <<>>)
  <1>1. /\ calls # <<>> /\ Top.at = "binop" /\ calls' = Outer
        /\ Insert(Top.fn, Instructions(Top.term, w))
    BY DEF IInv, TypeOK, BinopAdds, At, Returning
  <1>2. w \in Seq(Whats)
    BY SumOf
  <1> HIDE DEF w
  <1> QED BY <1>1, <1>2, InsertsAboutTerm

LEMMA EmitOptreeInserts ==
  ASSUME IInv, EmitOptree
  PROVE  \E list : Inserts(list)
  <1> DEFINE w == IF sub[Top.term].ctx = "scalar" THEN <<"run", "pop">> ELSE <<"run">>
  <1>1. /\ calls # <<>> /\ Top.at = "kids" /\ calls' = Outer
        /\ Insert(Top.fn, Instructions(Top.term, w))
    BY DEF IInv, TypeOK, EmitOptree, RunTree, Goes, At, Returning
  <1>2. w \in Seq(Whats)
    BY WhatsOf
  <1> HIDE DEF w
  <1> QED BY <1>1, <1>2, InsertsAboutTerm

LEMMA InsertsReturn ==
  ASSUME IInv, calls # <<>>, Top.at = "trees"
  PROVE  /\ Instructions(Root, <<"ret">>) \in Seq(Instruction)
         /\ Len(Instructions(Root, <<"ret">>)) = 1
         /\ Instructions(Root, <<"ret">>)[1].what = "ret"
  <1> DEFINE w == <<"ret">>
  <1>1. w \in Seq(Whats) /\ Len(w) = 1 /\ w[1] = "ret"
    BY WhatsOf
  <1> HIDE DEF w
  <1>2. /\ Instructions(Root, w) \in Seq(Instruction) /\ Len(Instructions(Root, w)) = 1
        /\ Instructions(Root, w)[1].what = "ret"
    BY <1>1, TreesOfTop, InstructionsAre
  <1> QED BY <1>2 DEF w

LEMMA JitTreesFailInserts ==
  ASSUME IInv, JitTreesFail
  PROVE  \E list : Inserts(list)
  <1> DEFINE b == Instructions(Root, <<"ret">>)
  <1>1. /\ calls # <<>> /\ Top.at = "trees" /\ calls' = Outer /\ Insert(Top.fn, b)
    BY DEF IInv, TypeOK, JitTreesFail, At
  <1>2. b \in Seq(Instruction) /\ Len(b) = 1 /\ b[1].what = "ret"
    BY <1>1, InsertsReturn
  <1> HIDE DEF b
  <1>3. \A k \in 1..Len(b) : b[k].what \notin {"run", "load", "fadd"}
    BY <1>2
  <1> QED BY <1>1, <1>2, <1>3, TreesOfTop DEF Inserts, Emissions

LEMMA JitTreesGoOnInserts ==
  ASSUME IInv, JitTreesGoOn
  PROVE  \E list : Inserts(list)
  <1> DEFINE a == Instructions(Root1, ReturnCode)
             b == Instructions(Root, <<"ret">>)
  <1>1. /\ calls # <<>> /\ Top.at = "trees" /\ calls' = Outer /\ Insert(Top.fn, a \o b)
    BY JitTreesGoOnMakes
  <1>2. b \in Seq(Instruction) /\ Len(b) = 1 /\ b[1].what = "ret"
    BY <1>1, InsertsReturn
  <1>3. ReturnCode \in Seq(Whats) /\ \A k \in 1..Len(ReturnCode) :
                                       ReturnCode[k] \notin {"run", "load", "fadd"}
    <2>1. CASE sub[Root1].ctx = "scalar"
      <3>1. ReturnCode = <<"mortal", "push">>
        BY <2>1 DEF ReturnCode
      <3>2. <<"mortal", "push">> \in Seq(Whats)
        BY WhatsOf
      <3> QED BY <3>1, <3>2
    <2>2. CASE sub[Root1].ctx # "scalar"
      <3>1. ReturnCode = <<>>
        BY <2>2 DEF ReturnCode
      <3> QED BY <3>1
    <2> QED BY <2>1, <2>2
  <1>4. /\ a \in Seq(Instruction)
        /\ \A k \in 1..Len(a) : a[k].what \notin {"run", "load", "fadd"}
    BY <1>1, <1>3, TreesOfTop, InstructionsAre
  <1> HIDE DEF a, b
  <1>5. /\ a \o b \in Seq(Instruction)
        /\ \A k \in 1..Len(a \o b) : (a \o b)[k].what \notin {"run", "load", "fadd"}
    <2>1. /\ a \o b \in Seq(Instruction) /\ Len(a \o b) = Len(a) + Len(b)
          /\ \A k \in 1..(Len(a) + Len(b)) :
               (a \o b)[k] = IF k <= Len(a) THEN a[k] ELSE b[k - Len(a)]
      BY <1>2, <1>4, ConcatProperties
    <2> SUFFICES ASSUME NEW k \in 1..Len(a \o b)
                 PROVE  (a \o b)[k].what \notin {"run", "load", "fadd"}
      BY <2>1
    <2>2. CASE k <= Len(a)
      BY <2>1, <2>2, <1>2, <1>4
    <2>3. CASE ~ k <= Len(a)
      <3>1. k - Len(a) = 1
        BY <2>1, <2>3, <1>2, <1>4
      <3>2. (a \o b)[k] = b[1]
        BY <2>1, <2>3, <3>1, <1>2, <1>4
      <3> QED BY <3>2, <1>2
    <2> QED BY <2>2, <2>3
  <1> QED BY <1>1, <1>5, TreesOfTop DEF Inserts, Emissions

\* What an insertion makes of the functions
LEMMA InsertsInto ==
  ASSUME IInv, NEW list, Inserts(list)
  PROVE  /\ fns' \in Seq(Seq(Instruction)) /\ Len(fns') = Len(fns)
         /\ work' \in Seq(Seq(Instruction)) /\ Len(work') = Len(work)
         /\ Top.fn \in 1..Len(work) /\ work[Top.fn] \in Seq(Instruction)
         /\ work'[Top.fn] = work[Top.fn] \o list
         /\ \A g \in 1..Len(work) : g # Top.fn => work'[g] = work[g]
  BY InsertFits DEF Inserts

LEMMA GetLexicalFits ==
  ASSUME IInv, GetLexical
  PROVE  Fits
  <1>1. calls # <<>> /\ Top.at = "emit" /\ calls' = Outer /\ UNCHANGED subtrees
    BY DEF IInv, TypeOK, GetLexical, At, Returning
  <1>2. \E list : Inserts(list)
    BY GetLexicalInserts
  <1> QED BY <1>1, <1>2, Here, InsertsInto, CallReturnsFits

LEMMA BinopAddsFits ==
  ASSUME IInv, BinopAdds
  PROVE  Fits
  <1>1. calls # <<>> /\ Top.at = "binop" /\ calls' = Outer /\ UNCHANGED subtrees
    BY DEF IInv, TypeOK, BinopAdds, At, Returning
  <1>2. \E list : Inserts(list)
    BY BinopAddsInserts
  <1> QED BY <1>1, <1>2, Here, InsertsInto, CallReturnsFits

LEMMA SubtreeKept ==
  ASSUME IInv, EmitOptree
  PROVE  /\ calls # <<>> /\ Top.at = "kids" /\ calls' = Outer /\ OpOf(Top.term) \in Ops
         /\ subtrees' \in Seq(Seq(Ops)) /\ Len(subtrees') = Len(subtrees)
         /\ Top.this \in 1..Len(subtrees)
         /\ subtrees'[Top.this] = Append(subtrees[Top.this], OpOf(Top.term))
         /\ \A i \in 1..Len(subtrees) : i # Top.this => subtrees'[i] = subtrees[i]
  <1>1. /\ calls # <<>> /\ Top.at = "kids" /\ calls' = Outer
        /\ subtrees' = [subtrees EXCEPT ![Top.this] = Append(@, OpOf(Top.term))]
    BY DEF IInv, TypeOK, EmitOptree, RunTree, Goes, At, Returning
  <1>2. OpOf(Top.term) \in Ops
    BY <1>1, Here, OpOfTerm DEF CallWhole
  <1> DEFINE n == Append(subtrees[Top.this], OpOf(Top.term))
             S == Seq(Ops)
  <1>3. subtrees \in Seq(S) /\ Top.this \in 1..Len(subtrees)
    BY <1>1, Here
  <1>4. n \in S
    BY <1>2, <1>3
  <1>5. subtrees' = [subtrees EXCEPT ![Top.this] = n]
    BY <1>1
  <1> HIDE DEF n, S
  <1>6. /\ subtrees' \in Seq(S) /\ Len(subtrees') = Len(subtrees)
        /\ subtrees'[Top.this] = n
        /\ \A i \in 1..Len(subtrees) : i # Top.this => subtrees'[i] = subtrees[i]
    BY <1>3, <1>4, <1>5, ExceptSeq
  <1> QED BY <1>1, <1>2, <1>3, <1>6 DEF n, S

LEMMA EmitOptreeFits ==
  ASSUME IInv, EmitOptree
  PROVE  Fits
  <1>1. \E list : Inserts(list)
    BY EmitOptreeInserts
  <1> QED BY <1>1, SubtreeKept, Here, InsertsInto, CallReturnsFits

LEMMA JitTreesFailFits ==
  ASSUME IInv, JitTreesFail
  PROVE  Fits
  <1>1. /\ calls # <<>> /\ Top.at = "trees" /\ calls' = Outer
        /\ subtrees' = [subtrees EXCEPT ![Top.this] = <<>>]
    BY DEF IInv, TypeOK, JitTreesFail, At
  <1>2. \E list : Inserts(list)
    BY JitTreesFailInserts
  <1> QED BY <1>1, <1>2, Here, InsertsInto, SubtreesCleared, CallReturnsFits

LEMMA JitTreesGoOnFits ==
  ASSUME IInv, JitTreesGoOn
  PROVE  Fits
  <1>1. /\ calls # <<>> /\ Top.at = "trees" /\ calls' = Outer
        /\ subtrees' = [subtrees EXCEPT ![Top.this] = <<>>]
    BY JitTreesGoOnMakes
  <1>2. \E list : Inserts(list)
    BY JitTreesGoOnInserts
  <1> QED BY <1>1, <1>2, Here, InsertsInto, SubtreesCleared, CallReturnsFits

LEMMA EmitBinopFits ==
  ASSUME IInv, EmitBinop
  PROVE  Fits
  <1> DEFINE c == Binop(Top.this, Top.term, Top.fn)
             d == Emit(Top.this, Operand(Top.term, "pending"), Top.fn)
  <1>1. /\ calls # <<>> /\ Top.at = "emit" /\ Kind(Top.term) = "add"
        /\ calls' = Append(Append(Outer, c), d) /\ UNCHANGED <<subtrees, fns, work>>
    BY DEF IInv, TypeOK, EmitBinop, At, Continue, code
  <1>2. Top.fn \in 1..FunctionsMade
    BY <1>1, EmissionOfTop DEF Emissions
  <1>3. /\ c \in CallsUpTo(EmittersAlive, FunctionsMade)
        /\ c.at = "binop" /\ c.this = Top.this /\ c.term = Top.term /\ c.fn = Top.fn
        /\ c.left = "pending"
    BY <1>1, <1>2, Here, BinopCall
  <1> HIDE DEF c
  <1>4. CallWhole(c)
    BY <1>1, <1>3, Here DEF CallWhole
  <1>5. /\ Operand(Top.term, "pending") = Emitted(c) /\ Emitted(c) \in Terms
        /\ Below(Emitted(c), c.term) /\ HasOp(Emitted(c))
    BY <1>1, <1>3, <1>4, Here, EmittedTerm DEF Emitted
  <1>6. /\ d \in CallsUpTo(EmittersAlive, FunctionsMade)
        /\ d.at = "emit" /\ d.this = Top.this /\ d.term = Emitted(c) /\ d.fn = Top.fn
    BY <1>1, <1>2, <1>5, Here, EmitCall
  <1> HIDE DEF d
  <1>7. CallWhole(d) /\ Called(c, d)
    BY <1>3, <1>5, <1>6 DEF CallWhole, Called
  <1>8. Similar(Top, c)
    BY <1>1, <1>3 DEF Similar, Emissions
  <1> QED BY <1>1, <1>3, <1>4, <1>5, <1>6, <1>7, <1>8, CallsAnotherFits

LEMMA BinopRightFits ==
  ASSUME IInv, BinopRight
  PROVE  Fits
  <1> DEFINE c == [Top EXCEPT !.left = value]
             d == Emit(Top.this, Operand(Top.term, value), Top.fn)
  <1>1. /\ calls # <<>> /\ Top.at = "binop" /\ value \in Types
        /\ calls' = Append(Append(Outer, c), d) /\ UNCHANGED <<subtrees, fns, work>>
    BY DEF IInv, TypeOK, BinopRight, At, Continue, code, Types
  <1>2. Top.fn \in 1..FunctionsMade
    BY <1>1, EmissionOfTop DEF Emissions
  <1>3. /\ c \in CallsUpTo(EmittersAlive, FunctionsMade)
        /\ c.at = "binop" /\ c.this = Top.this /\ c.term = Top.term /\ c.fn = Top.fn
        /\ c.left = value
    <2>1. Top \in CallsUpTo(EmittersAlive, FunctionsMade)
      BY <1>1, Here
    <2> QED BY <1>1, <2>1, LeftChanged
  <1> HIDE DEF c
  <1>4. CallWhole(c)
    BY <1>1, <1>3, Here DEF CallWhole
  <1>5. /\ Operand(Top.term, value) = Emitted(c) /\ Emitted(c) \in Terms
        /\ Below(Emitted(c), c.term) /\ HasOp(Emitted(c))
    BY <1>1, <1>3, <1>4, Here, EmittedTerm DEF Emitted
  <1>6. /\ d \in CallsUpTo(EmittersAlive, FunctionsMade)
        /\ d.at = "emit" /\ d.this = Top.this /\ d.term = Emitted(c) /\ d.fn = Top.fn
    BY <1>1, <1>2, <1>5, Here, EmitCall
  <1> HIDE DEF d
  <1>7. CallWhole(d) /\ Called(c, d)
    BY <1>3, <1>5, <1>6 DEF CallWhole, Called
  <1>8. Similar(Top, c)
    BY <1>1, <1>3 DEF Similar, Emissions
  <1> QED BY <1>1, <1>3, <1>4, <1>5, <1>6, <1>7, <1>8, CallsAnotherFits

LEMMA EmitOptreeJitKidsFits ==
  ASSUME IInv, EmitOptreeJitKids
  PROVE  Fits
  <1> DEFINE c == JitKids(Top.this, Top.term, Top.fn)
             d == Process(Top.this + 1, Top.term)
             s == Append(Append(Outer, c), d)
  <1>1. /\ calls # <<>> /\ Top.at = "emit" /\ IsTreeOfOps(Top.term)
        /\ calls' = s /\ subtrees' = Append(subtrees, <<>>) /\ UNCHANGED <<fns, work>>
    BY DEF IInv, TypeOK, EmitOptreeJitKids, At, Continue, code
  <1>2. Top.fn \in 1..FunctionsMade /\ HasOp(Top.term)
    BY <1>1, Here, EmissionOfTop DEF Emissions, CallWhole
  <1>3. PICK e \in Nat : e = EmittersAlive + 1
    BY <1>1, Here
  <1>4. /\ Top.this \in 1..e /\ Top.this + 1 \in 1..e /\ EmittersAlive <= e /\ Top.this + 1 = e
    BY <1>1, <1>3, Here
  <1>5. /\ c \in CallsUpTo(e, FunctionsMade)
        /\ c.at = "kids" /\ c.this = Top.this /\ c.term = Top.term /\ c.fn = Top.fn
    BY <1>1, <1>2, <1>4, Here, JitKidsCall
  <1>6. Kids(Top.term) \in Seq(Terms)
    BY <1>1, Here, KidsOf
  <1>7. /\ d \in CallsUpTo(e, FunctionsMade)
        /\ d.at = "process" /\ d.this = e /\ d.term = Top.term /\ d.queue = Kids(Top.term)
    BY <1>1, <1>4, <1>6, Here DEF Process, CallsUpTo
  <1> HIDE DEF c, d
  <1>8. CallWhole(c) /\ Similar(Top, c)
    BY <1>1, <1>2, <1>5 DEF CallWhole, Similar, Emissions
  <1>9. CallWhole(d)
    <2>1. \A k \in 1..Len(Kids(Top.term)) :
            Below(Kids(Top.term)[k], Top.term)
            /\ Kind(Kids(Top.term)[k]) \notin {"candidates", "statement"}
      BY <1>1, <1>2, Here, WholeQueue DEF HasOp
    <2> QED BY <1>7, <2>1 DEF CallWhole
  <1>10. Called(c, d) /\ Below(d.term, c.term) /\ d.at # "trees"
    BY <1>1, <1>4, <1>5, <1>7, Here, TermsArePaths, BelowItself DEF Called
  <1>11. s \in Seq(CallsUpTo(e, FunctionsMade)) /\ Stack(s) /\ s[Len(s)] = d
    BY <1>1, <1>3, <1>4, <1>5, <1>7, <1>8, <1>9, <1>10, Here, CallsAnother
  <1>12. subtrees' \in Seq(Seq(Ops)) /\ Len(subtrees') = e /\ subtrees'[e] = <<>>
    BY <1>1, <1>3, Here
  <1> HIDE DEF s
  <1> QED BY <1>1, <1>7, <1>11, <1>12, Here DEF Fits

LEMMA StuttersFits ==
  ASSUME IInv, UNCHANGED <<calls, subtrees, fns, work>>
  PROVE  Fits
  <1>1. /\ calls \in Seq(CallsUpTo(Len(subtrees), Len(fns)))
        /\ subtrees \in Seq(Seq(Ops)) /\ fns \in Seq(Seq(Instruction))
        /\ work \in Seq(Seq(Instruction)) /\ Len(work) = Len(fns) /\ Stack(calls)
        /\ Len(fns) \in Nat
    BY CallsAre DEF IInv, TypeOK
  <1>2. calls # <<>> => /\ calls[Len(calls)].this = Len(subtrees)
                        /\ calls[Len(calls)].at \in {"process", "sequence"} =>
                             subtrees[Len(subtrees)] = <<>>
    BY DEF IInv, TypeOK, Top
  <1> QED BY <1>1, <1>2 DEF Fits, FunctionsMade

\* Every step keeps the stack of calls whole.
LEMMA NextFits ==
  ASSUME IInv, [Next]_vars
  PROVE  Fits /\ sub' = sub
  <1>1. CASE ProcessVariable
    BY <1>1, ProcessVariableFits DEF ProcessVariable
  <1>2. CASE ProcessSequence
    BY <1>2, ProcessSequenceFits DEF ProcessSequence
  <1>3. CASE ProcessTree
    BY <1>3, ProcessTreeFits DEF ProcessTree
  <1>4. CASE ProcessKids
    BY <1>4, ProcessKidsFits DEF ProcessKids
  <1>5. CASE ProcessReturns
    BY <1>5, ProcessReturnsFits DEF ProcessReturns
  <1>6. CASE SequenceTakes
    BY <1>6, SequenceTakesFits DEF SequenceTakes
  <1>7. CASE SequenceFlushes
    BY <1>7, SequenceFlushesFits DEF SequenceFlushes
  <1>8. CASE SequenceSearches
    BY <1>8, SequenceSearchesFits DEF SequenceSearches
  <1>9. CASE SequenceReturns
    BY <1>9, SequenceReturnsFits DEF SequenceReturns
  <1>10. CASE EmitConst
    BY <1>10, EmitConstFits DEF EmitConst
  <1>11. CASE GetLexical
    BY <1>11, GetLexicalFits DEF GetLexical
  <1>12. CASE EmitBinop
    BY <1>12, EmitBinopFits DEF EmitBinop
  <1>13. CASE BinopRight
    BY <1>13, BinopRightFits DEF BinopRight
  <1>14. CASE BinopCrashes
    BY <1>14, StuttersFits DEF BinopCrashes, code
  <1>15. CASE BinopAdds
    BY <1>15, BinopAddsFits DEF BinopAdds
  <1>16. CASE EmitOptreeJitKids
    BY <1>16, EmitOptreeJitKidsFits DEF EmitOptreeJitKids
  <1>17. CASE JitKidsFail
    BY <1>17, JitKidsFailFits DEF JitKidsFail
  <1>18. CASE EmitOptree
    BY <1>18, EmitOptreeFits DEF EmitOptree
  <1>19. CASE JitTreesFail
    BY <1>19, JitTreesFailFits DEF JitTreesFail
  <1>20. CASE JitTreesGoOn
    BY <1>20, JitTreesGoOnFits DEF JitTreesGoOn
  <1>21. CASE Apply
    BY <1>21, StuttersFits DEF Apply, code
  <1>22. CASE Finish
    BY <1>22, StuttersFits DEF Finish, code
  <1>23. CASE UNCHANGED vars
    BY <1>23, StuttersFits DEF vars
  <1> QED BY <1>1, <1>2, <1>3, <1>4, <1>5, <1>6, <1>7, <1>8, <1>9, <1>10, <1>11, <1>12, <1>13,
             <1>14, <1>15, <1>16, <1>17, <1>18, <1>19, <1>20, <1>21, <1>22, <1>23 DEF Next

-----------------------------------------------------------------------------
(* Types *)

LEMMA AppendedNotEmpty ==
  ASSUME NEW S, NEW o \in Seq(S), NEW c, NEW d, NEW g
  PROVE  /\ Append(o, c) # <<>>
         /\ Append(Append(o, c), d) # <<>>
         /\ Append(Append(Append(o, c), d), g) # <<>>
  <1> DEFINE T == S \union {c, d, g}
  <1>1. o \in Seq(T) /\ c \in T /\ d \in T /\ g \in T
    OBVIOUS
  <1> HIDE DEF T
  <1>2. Append(o, c) \in Seq(T) /\ Append(o, c) # <<>>
    BY <1>1
  <1>3. Append(Append(o, c), d) \in Seq(T) /\ Append(Append(o, c), d) # <<>>
    BY <1>1, <1>2
  <1>4. Append(Append(Append(o, c), d), g) # <<>>
    BY <1>1, <1>3
  <1> QED BY <1>2, <1>3, <1>4

\* Which actions change what
LEMMA Changes ==
  ASSUME [Next]_vars
  PROVE  /\ pc' = pc \/ ProcessReturns \/ BinopCrashes \/ Finish
         /\ value' = value \/ EmitConst \/ GetLexical \/ BinopAdds \/ JitKidsFail \/ EmitOptree
         /\ ok' = ok \/ JitKidsFail \/ JitTreesFail
         /\ cur' = cur \/ ProcessTree \/ SequenceFlushes
         /\ ran' = ran \/ ProcessTree \/ SequenceFlushes \/ EmitOptree
         /\ UNCHANGED <<fns, work>> \/ ProcessTree \/ SequenceFlushes \/ GetLexical \/ BinopAdds
              \/ EmitOptree \/ JitTreesFail \/ JitTreesGoOn
         /\ jits' = jits \/ JitTreesGoOn
         /\ failed' = failed \/ JitTreesFail
         /\ cleared' = cleared \/ EmitOptree
         /\ log' = log \/ EmitOptree \/ JitTreesGoOn \/ Apply
         /\ up' = up \/ Apply
         /\ subtrees' = subtrees \/ ProcessReturns \/ EmitOptreeJitKids \/ EmitOptree
              \/ JitTreesFail \/ JitTreesGoOn
  <1>1. CASE ProcessVariable
    BY <1>1 DEF ProcessVariable, code, edits, made
  <1>2. CASE ProcessSequence
    BY <1>2 DEF ProcessSequence, code, edits, made
  <1>3. CASE ProcessTree
    BY <1>3 DEF ProcessTree, edits, made
  <1>4. CASE ProcessKids
    BY <1>4 DEF ProcessKids, code, edits, made
  <1>5. CASE ProcessReturns
    BY <1>5 DEF ProcessReturns, code, edits, made
  <1>6. CASE SequenceTakes
    BY <1>6 DEF SequenceTakes, code, edits, made
  <1>7. CASE SequenceFlushes
    BY <1>7 DEF SequenceFlushes, edits, made
  <1>8. CASE SequenceSearches
    BY <1>8 DEF SequenceSearches, code, edits, made
  <1>9. CASE SequenceReturns
    BY <1>9 DEF SequenceReturns, code, edits, made
  <1>10. CASE EmitConst
    BY <1>10 DEF EmitConst, code, edits, made
  <1>11. CASE GetLexical
    BY <1>11 DEF GetLexical, edits, made
  <1>12. CASE EmitBinop
    BY <1>12 DEF EmitBinop, code, edits, made
  <1>13. CASE BinopRight
    BY <1>13 DEF BinopRight, code, edits, made
  <1>14. CASE BinopCrashes
    BY <1>14 DEF BinopCrashes, code, edits, made
  <1>15. CASE BinopAdds
    BY <1>15 DEF BinopAdds, edits, made
  <1>16. CASE EmitOptreeJitKids
    BY <1>16 DEF EmitOptreeJitKids, code, edits, made
  <1>17. CASE JitKidsFail
    BY <1>17 DEF JitKidsFail, code, edits, made
  <1>18. CASE EmitOptree
    BY <1>18 DEF EmitOptree, made
  <1>19. CASE JitTreesFail
    BY <1>19 DEF JitTreesFail, edits
  <1>20. CASE JitTreesGoOn
    BY <1>20 DEF JitTreesGoOn
  <1>21. CASE Apply
    BY <1>21 DEF Apply, code, made
  <1>22. CASE Finish
    BY <1>22 DEF Finish, code, edits, made
  <1>23. CASE UNCHANGED vars
    BY <1>23 DEF vars
  <1> QED BY <1>1, <1>2, <1>3, <1>4, <1>5, <1>6, <1>7, <1>8, <1>9, <1>10, <1>11, <1>12, <1>13,
             <1>14, <1>15, <1>16, <1>17, <1>18, <1>19, <1>20, <1>21, <1>22, <1>23 DEF Next

\* There are calls as long as there is something to emit.
LEMMA NextCalls ==
  ASSUME IInv, [Next]_vars
  PROVE  /\ pc' \in {"emit", "apply", "done", "croaked", "crashed"}
         /\ pc' \in {"emit", "crashed"} <=> calls' # <<>>
         /\ pc' = "emit" => pc = "emit" /\ calls # <<>>
         /\ pc' = "crashed" /\ pc # "crashed" => BinopCrashes
  <1> DEFINE Goal == /\ pc' \in {"emit", "apply", "done", "croaked", "crashed"}
                     /\ pc' \in {"emit", "crashed"} <=> calls' # <<>>
                     /\ pc' = "emit" => pc = "emit" /\ calls # <<>>
                     /\ pc' = "crashed" /\ pc # "crashed" => BinopCrashes
  <1>1. /\ pc \in {"emit", "apply", "done", "croaked", "crashed"}
        /\ pc \in {"emit", "crashed"} <=> calls # <<>>
    BY DEF IInv, TypeOK
  <1>2. ASSUME pc = "emit", UNCHANGED pc,
               \/ \E c : calls' = Append(Outer, c)
               \/ \E c, d : calls' = Append(Append(Outer, c), d)
               \/ \E c, d, g : calls' = Append(Append(Append(Outer, c), d), g)
        PROVE  Goal
    <2>1. calls # <<>>
      BY <1>1, <1>2
    <2>2. Outer \in Seq(CallsUpTo(EmittersAlive, FunctionsMade))
      BY <2>1, Here, TopAndOuter
    <2>3. calls' # <<>>
      BY <1>2, <2>2, AppendedNotEmpty
    <2> QED BY <1>2, <2>1, <2>3
  <1>3. ASSUME pc = "emit", UNCHANGED pc, Top.at # "process", calls' = Outer
        PROVE  Goal
    <2>1. calls # <<>>
      BY <1>1, <1>3
    <2>2. Outer # <<>>
      BY <1>3, <2>1, Here, CallReturns
    <2> QED BY <1>3, <2>1, <2>2
  <1>4. CASE ProcessVariable \/ ProcessKids \/ SequenceTakes
    <2>1. pc = "emit" /\ UNCHANGED pc /\ \E c : calls' = Append(Outer, c)
      BY <1>4 DEF ProcessVariable, ProcessKids, SequenceTakes, Goes, At
    <2> QED BY <2>1, <1>2
  <1>5. CASE ProcessSequence \/ SequenceSearches \/ EmitBinop \/ BinopRight \/ EmitOptreeJitKids
    <2>1. pc = "emit" /\ UNCHANGED pc /\ \E c, d : calls' = Append(Append(Outer, c), d)
      BY <1>5 DEF ProcessSequence, SequenceSearches, EmitBinop, BinopRight, EmitOptreeJitKids,
                  Continue, Goes, At
    <2> QED BY <2>1, <1>2
  <1>6. CASE ProcessTree \/ SequenceFlushes
    <2>1. pc = "emit" /\ UNCHANGED pc
          /\ \E c, d, g : calls' = Append(Append(Append(Outer, c), d), g)
      BY <1>6 DEF ProcessTree, SequenceFlushes, JitTrees, Goes, At
    <2> QED BY <2>1, <1>2
  <1>7. CASE SequenceReturns \/ EmitConst \/ GetLexical \/ BinopAdds \/ JitKidsFail \/ EmitOptree
             \/ JitTreesFail
    <2>1. pc = "emit" /\ UNCHANGED pc /\ Top.at # "process" /\ calls' = Outer
      BY <1>7 DEF SequenceReturns, EmitConst, GetLexical, BinopAdds, JitKidsFail, EmitOptree,
                  JitTreesFail, Returning, RunTree, Goes, At
    <2> QED BY <2>1, <1>3
  <1>8. CASE JitTreesGoOn
    <2>1. pc = "emit" /\ UNCHANGED pc /\ Top.at # "process" /\ calls' = Outer
      BY <1>8, JitTreesGoOnMakes DEF JitTreesGoOn, At
    <2> QED BY <2>1, <1>3
  <1>9. CASE ProcessReturns
    BY <1>1, <1>9 DEF ProcessReturns, At
  <1>10. CASE BinopCrashes
    BY <1>1, <1>10 DEF BinopCrashes, At
  <1>11. CASE Apply \/ Finish \/ UNCHANGED vars
    BY <1>1, <1>11 DEF Apply, Finish, vars
  <1> QED BY <1>4, <1>5, <1>6, <1>7, <1>8, <1>9, <1>10, <1>11 DEF Next

LEMMA Inserting ==
  ASSUME IInv, GetLexical \/ BinopAdds \/ EmitOptree \/ JitTreesFail \/ JitTreesGoOn
  PROVE  \E list : Inserts(list)
  BY GetLexicalInserts, BinopAddsInserts, EmitOptreeInserts, JitTreesFailInserts,
     JitTreesGoOnInserts

LEMMA Starting ==
  ASSUME IInv, ProcessTree \/ SequenceFlushes
  PROVE  /\ calls # <<>> /\ Top.at \in {"process", "sequence"}
         /\ fns' = Append(fns, <<>>) /\ cur' = Len(fns) + 1
         /\ work' = Append(work, <<>>) /\ ran' = Append(ran, <<>>)
         /\ UNCHANGED <<subtrees, jits>>
  BY DEF IInv, TypeOK, ProcessTree, SequenceFlushes, JitTrees, Goes, At, made

LEMMA FunctionsKept ==
  ASSUME IInv, [Next]_vars, ~ ProcessTree, ~ SequenceFlushes
  PROVE  /\ Len(fns') = Len(fns) /\ Len(work') = Len(work) /\ cur' = cur
         /\ ran' = ran \/ EmitOptree
  <1>1. CASE GetLexical \/ BinopAdds \/ EmitOptree \/ JitTreesFail \/ JitTreesGoOn
    <2>1. Len(fns') = Len(fns) /\ Len(work') = Len(work)
      BY <1>1, Inserting, InsertsInto
    <2> QED BY <2>1, Changes
  <1>2. CASE ~ (GetLexical \/ BinopAdds \/ EmitOptree \/ JitTreesFail \/ JitTreesGoOn)
    BY <1>2, Changes
  <1> QED BY <1>1, <1>2

LEMMA NextValue ==
  ASSUME IInv, [Next]_vars
  PROVE  value' \in Types /\ ok' \in BOOLEAN
  <1>1. value \in Types /\ ok \in BOOLEAN
    BY DEF IInv, TypeOK, Types
  <1>2. EmitConst => value' \in Types
    BY DEF EmitConst, Returning, ConstType, Types
  <1>3. GetLexical => value' \in Types
    BY DEF GetLexical, Returning, Types
  <1>4. BinopAdds => value' \in Types
    BY DEF BinopAdds, Returning, Types
  <1>5. JitKidsFail => value' \in Types /\ ok' \in BOOLEAN
    BY DEF JitKidsFail, Returning, Types
  <1>6. EmitOptree => value' \in Types
    BY DEF EmitOptree, RunTree, Returning, Types
  <1>7. JitTreesFail => ok' \in BOOLEAN
    BY DEF JitTreesFail, IsStatements
  <1> QED BY <1>1, <1>2, <1>3, <1>4, <1>5, <1>6, <1>7, Changes

LEMMA NextFunctions ==
  ASSUME IInv, [Next]_vars
  PROVE  /\ cur' \in 0..Len(fns')
         /\ ran' \in Seq(Seq(Ops)) /\ Len(ran') = Len(fns')
         /\ failed' \subseteq 1..Len(fns')
  <1>1. /\ cur \in 0..Len(fns) /\ ran \in Seq(Seq(Ops)) /\ Len(ran) = Len(fns)
        /\ failed \subseteq 1..Len(fns) /\ fns \in Seq(Seq(Instruction)) /\ Len(fns) \in Nat
    BY DEF IInv, TypeOK
  <1>2. CASE ProcessTree \/ SequenceFlushes
    <2>1. fns' = Append(fns, <<>>) /\ cur' = Len(fns) + 1 /\ ran' = Append(ran, <<>>)
      BY <1>2, Starting
    <2>2. Len(fns') = Len(fns) + 1
      BY <1>1, <2>1
    <2>3. ran' \in Seq(Seq(Ops)) /\ Len(ran') = Len(fns) + 1
      BY <1>1, <2>1
    <2>4. failed' = failed
      BY <1>2 DEF ProcessTree, SequenceFlushes, made
    <2> QED BY <1>1, <2>1, <2>2, <2>3, <2>4
  <1>3. CASE ~ (ProcessTree \/ SequenceFlushes)
    <2>1. Len(fns') = Len(fns) /\ cur' = cur
      BY <1>3, FunctionsKept
    <2>2. CASE EmitOptree
      <3>1. calls # <<>> /\ OpOf(Top.term) \in Ops /\ Top.fn \in 1..FunctionsMade
        BY <2>2, SubtreeKept, EmissionOfTop DEF Emissions
      <3>2. /\ ran' = [ran EXCEPT ![Top.fn] = Append(ran[Top.fn], OpOf(Top.term))]
            /\ failed' = failed
        BY <2>2 DEF EmitOptree, RunTree, made
      <3> DEFINE n == Append(ran[Top.fn], OpOf(Top.term))
                 S == Seq(Ops)
      <3>3. Top.fn \in 1..Len(ran) /\ ran[Top.fn] \in Seq(Ops)
        BY <1>1, <3>1, Here
      <3>4. n \in S
        BY <3>1, <3>3
      <3>5. ran \in Seq(S) /\ ran' = [ran EXCEPT ![Top.fn] = n]
        BY <1>1, <3>2
      <3> HIDE DEF n, S
      <3>6. ran' \in Seq(S) /\ Len(ran') = Len(ran)
        BY <3>3, <3>4, <3>5, ExceptSeq
      <3> QED BY <1>1, <2>1, <3>2, <3>6 DEF S
    <2>3. CASE JitTreesFail
      <3>1. Top.fn \in 1..FunctionsMade
        BY <2>3, Inserting DEF Inserts
      <3>2. failed' = failed \union {Top.fn} /\ ran' = ran
        BY <2>3 DEF JitTreesFail
      <3> QED BY <1>1, <2>1, <3>1, <3>2 DEF FunctionsMade
    <2>4. CASE ~ EmitOptree /\ ~ JitTreesFail
      BY <1>1, <1>3, <2>1, <2>4, Changes
    <2> QED BY <2>2, <2>3, <2>4
  <1> QED BY <1>2, <1>3

JitsUpTo(f) == [fn : 1..f, kids : Seq(Ops)]

EditsUpTo(f) ==
  [kind : {"detach", "replace"}, cut : Seq(Ops) \ {<<>>}, by : Ops \union {JitOp(g) : g \in 1..f}]

LEMMA NextJits ==
  ASSUME IInv, [Next]_vars
  PROVE  jits' \in Seq(JitsUpTo(Len(fns')))
  <1>1. /\ jits \in Seq(JitsUpTo(Len(fns))) /\ Len(fns) \in Nat
    BY DEF IInv, TypeOK, JitsUpTo
  <1>2. Len(fns) <= Len(fns') /\ Len(fns') \in Nat
    BY NextFits DEF Fits, FunctionsMade
  <1> DEFINE S == JitsUpTo(Len(fns))
             T == JitsUpTo(Len(fns'))
  <1>3. \A x \in S : x \in T
    BY <1>1, <1>2 DEF JitsUpTo
  <1>4. jits \in Seq(T)
    <2> HIDE DEF S, T
    <2>1. jits \in Seq(S)
      BY <1>1 DEF S
    <2> QED BY <2>1, <1>3
  <1>5. CASE JitTreesGoOn
    <2>1. /\ calls # <<>> /\ Top.at = "trees"
          /\ jits' = Append(jits, [fn |-> Top.fn, kids |-> subtrees[Top.this]])
      BY <1>5, JitTreesGoOnMakes
    <2>2. Top.fn \in 1..FunctionsMade
      BY <2>1, EmissionOfTop DEF Emissions
    <2>3. Top.fn \in 1..Len(fns')
      BY <1>1, <1>2, <2>2 DEF FunctionsMade
    <2>4. subtrees[Top.this] \in Seq(Ops)
      BY <2>1, Here
    <2>5. [fn |-> Top.fn, kids |-> subtrees[Top.this]] \in T
      BY <2>3, <2>4 DEF JitsUpTo
    <2> HIDE DEF T
    <2>6. jits' \in Seq(T)
      BY <1>4, <2>1, <2>5
    <2> QED BY <2>6 DEF T
  <1>6. CASE ~ JitTreesGoOn
    BY <1>4, <1>6, Changes
  <1> QED BY <1>5, <1>6

LEMMA EditsAre == Edits = EditsUpTo(Len(fns))
  BY DEF Edits, EditsUpTo

LEMMA NextLog ==
  ASSUME IInv, [Next]_vars
  PROVE  log' \in Seq(EditsUpTo(Len(fns'))) /\ cleared' \subseteq Ops
  <1>1. log \in Seq(EditsUpTo(Len(fns))) /\ Len(fns) \in Nat /\ cleared \subseteq Ops
    BY EditsAre DEF IInv, TypeOK
  <1>2. Len(fns) <= Len(fns') /\ Len(fns') \in Nat
    BY NextFits DEF Fits, FunctionsMade
  <1> DEFINE S == EditsUpTo(Len(fns))
             T == EditsUpTo(Len(fns'))
  <1>3. \A x \in S : x \in T
    BY <1>1, <1>2 DEF EditsUpTo
  <1>4. log \in Seq(T)
    <2> HIDE DEF S, T
    <2>1. log \in Seq(S)
      BY <1>1 DEF S
    <2> QED BY <2>1, <1>3
  <1>5. CASE EmitOptree
    <2>1. /\ log' = Append(log, Detach(OpOf(Top.term)))
          /\ cleared' = cleared \union Exits(Top.term)
      BY <1>5 DEF EmitOptree
    <2>2. OpOf(Top.term) \in Ops /\ calls # <<>> /\ Top.at = "kids"
      BY <1>5, SubtreeKept
    <2>3. Detach(OpOf(Top.term)) \in T
      BY <2>2 DEF EditsUpTo, Detach
    <2>4. Exits(Top.term) \subseteq Ops
      BY <2>2, Here, ExitsAreOps DEF CallWhole
    <2> HIDE DEF T
    <2>5. log' \in Seq(T)
      BY <1>4, <2>1, <2>3
    <2> QED BY <1>1, <2>1, <2>4, <2>5 DEF T
  <1>6. CASE JitTreesGoOn
    <2>1. /\ calls # <<>> /\ Top.at = "trees" /\ Kind(Top.asts[1]) # "statement"
          /\ log' = Append(log, Replace(Replaced, Top.fn)) /\ cleared' = cleared
      BY <1>6, JitTreesGoOnMakes DEF JitTreesGoOn
    <2>2. Replaced = <<OpOf(Top.asts[1])>>
      BY <2>1 DEF Replaced, IsStatements
    <2>3. OpOf(Top.asts[1]) \in Ops
      BY <2>1, TreesOfTop, OpOfTerm
    <2>4. Top.fn \in 1..FunctionsMade
      BY <2>1, EmissionOfTop DEF Emissions
    <2>5. Top.fn \in 1..Len(fns')
      BY <1>1, <1>2, <2>4 DEF FunctionsMade
    <2>6. Replace(Replaced, Top.fn) \in T
      BY <2>2, <2>3, <2>5 DEF EditsUpTo, Replace
    <2> HIDE DEF T
    <2>7. log' \in Seq(T)
      BY <1>4, <2>1, <2>6
    <2> QED BY <1>1, <2>1, <2>7 DEF T
  <1>7. CASE Apply
    <2>1. log # <<>> /\ log' = Tail(log) /\ cleared' = cleared
      BY <1>7 DEF Apply
    <2> HIDE DEF T
    <2>2. log' \in Seq(T)
      BY <1>4, <2>1
    <2> QED BY <1>1, <2>1, <2>2 DEF T
  <1>8. CASE ~ EmitOptree /\ ~ JitTreesGoOn /\ ~ Apply
    BY <1>1, <1>4, <1>8, Changes
  <1> QED BY <1>5, <1>6, <1>7, <1>8

LEMMA NextUp ==
  ASSUME IInv, [Next]_vars
  PROVE  /\ Ops \subseteq DOMAIN up'
         /\ \A id \in DOMAIN up' : up'[id] \in DOMAIN up' \union {Root, Loose, Freed}
  <1>1. /\ Ops \subseteq DOMAIN up
        /\ \A id \in DOMAIN up : up[id] \in DOMAIN up \union {Root, Loose, Freed}
    BY DEF IInv, TypeOK
  <1>2. CASE Apply
    <2>1. up' = Applied /\ log # <<>>
      BY <1>2 DEF Apply
    <2>2. Entry.cut \in Seq(Ops) \ {<<>>}
      <3>1. log \in Seq(Edits)
        BY DEF IInv, TypeOK
      <3>2. Entry \in Edits
        <4> HIDE DEF Edits
        <4> QED BY <2>1, <3>1 DEF Entry
      <3> QED BY <3>2 DEF Edits
    <2>3. Entry.cut[1] \in DOMAIN up
      BY <1>1, <2>2
    <2>4. CASE Entry.kind = "detach"
      <3>1. PICK there \in {Loose, Freed} : up' = [up EXCEPT ![Entry.by] = there]
        BY <2>1, <2>4 DEF Applied
      <3> QED BY <1>1, <3>1
    <2>5. CASE Entry.kind # "detach"
      <3> DEFINE kids == Listed(jits[MadeBy(Entry.by)].kids)
      <3>1. up' = [id \in DOMAIN up \union {Entry.by} |->
                     IF id = Entry.by THEN up[Entry.cut[1]]
                     ELSE IF id \in Listed(Entry.cut) THEN Freed
                     ELSE IF id \in kids /\ up[id] = Loose THEN Entry.by
                     ELSE up[id]]
        BY <2>1, <2>5 DEF Applied
      <3> HIDE DEF kids
      <3> QED BY <1>1, <2>3, <3>1
    <2> QED BY <2>4, <2>5
  <1>3. CASE ~ Apply
    BY <1>1, <1>3, Changes
  <1> QED BY <1>2, <1>3

\* The calls of the next state are those of this state's tree.
LEMMA StackOfNext ==
  ASSUME sub' = sub
  PROVE  Stack(calls)' <=> Stack(calls')
  BY DEF Stack, CallWhole, Called, Inside, Emitted, Operand, Below, Kind, HasOp, IsTreeOfOps,
         Emissions, Variables, Constants

LEMMA NextType ==
  ASSUME IInv, [Next]_vars
  PROVE  IsTree(sub)' /\ TypeOK' /\ Stack(calls)'
  <1>1. sub' = sub /\ Fits
    BY NextFits
  <1>2. Stack(calls)' /\ IsTree(sub)'
    BY <1>1, StackOfNext DEF Fits, IInv, IsTree
  <1>3. Ops' = Ops /\ Instruction' = Instruction
    BY <1>1 DEF Ops, OpOf, HasOp, Terms, Kind, Instruction, Upto
  <1>4. Calls' = CallsUpTo(Len(subtrees'), Len(fns')) /\ Edits' = EditsUpTo(Len(fns'))
    BY <1>1, <1>3, CallsArePrimed DEF Edits, EditsUpTo
  <1>5. /\ subtrees' \in Seq(Seq(Ops')) /\ fns' \in Seq(Seq(Instruction'))
        /\ work' \in Seq(Seq(Instruction')) /\ Len(work') = Len(fns')
        /\ calls' \in Seq(Calls')
    BY <1>1, <1>3, <1>4 DEF Fits
  <1>6. calls' # <<>> => /\ Top'.this = Len(subtrees')
                         /\ Top'.at \in {"process", "sequence"} => subtrees'[Top'.this] = <<>>
    BY <1>1 DEF Fits, Top
  <1>7. /\ pc' \in {"emit", "apply", "done", "croaked", "crashed"}
        /\ pc' \in {"emit", "crashed"} <=> calls' # <<>>
    BY NextCalls
  <1>8. value' \in Types /\ ok' \in BOOLEAN
    BY NextValue
  <1>9. /\ cur' \in 0..Len(fns') /\ ran' \in Seq(Seq(Ops')) /\ Len(ran') = Len(fns')
        /\ failed' \subseteq 1..Len(fns')
    BY <1>3, NextFunctions
  <1>10. jits' \in Seq([fn : 1..Len(fns'), kids : Seq(Ops')])
    BY <1>3, NextJits DEF JitsUpTo
  <1>11. log' \in Seq(Edits') /\ cleared' \subseteq Ops'
    BY <1>3, <1>4, NextLog
  <1>12. /\ Ops' \subseteq DOMAIN up'
         /\ \A id \in DOMAIN up' : up'[id] \in DOMAIN up' \union {Root, Loose, Freed}
    BY <1>3, NextUp
  <1>13. TypeOK'
    BY <1>5, <1>6, <1>7, <1>8, <1>9, <1>10, <1>11, <1>12 DEF TypeOK, Types
  <1> QED BY <1>2, <1>13

-----------------------------------------------------------------------------
(* Subtrees *)

LEMMA FramesOf ==
  ASSUME NEW S, NEW o \in Seq(S), NEW c, NEW d, NEW g
  PROVE  /\ \A i \in 1..Len(Append(o, c)) :
              \/ i \in 1..Len(o) /\ Append(o, c)[i] = o[i]
              \/ Append(o, c)[i] = c
         /\ \A i \in 1..Len(Append(Append(o, c), d)) :
              \/ i \in 1..Len(o) /\ Append(Append(o, c), d)[i] = o[i]
              \/ Append(Append(o, c), d)[i] = c
              \/ Append(Append(o, c), d)[i] = d
         /\ \A i \in 1..Len(Append(Append(Append(o, c), d), g)) :
              \/ i \in 1..Len(o) /\ Append(Append(Append(o, c), d), g)[i] = o[i]
              \/ Append(Append(Append(o, c), d), g)[i] = c
              \/ Append(Append(Append(o, c), d), g)[i] = d
              \/ Append(Append(Append(o, c), d), g)[i] = g
  <1> DEFINE T == S \union {c, d, g}
  <1>1. o \in Seq(T) /\ c \in T /\ d \in T /\ g \in T
    OBVIOUS
  <1> HIDE DEF T
  <1>2. ASSUME NEW s \in Seq(T), NEW x \in T
        PROVE  /\ Append(s, x) \in Seq(T)
               /\ \A i \in 1..Len(Append(s, x)) :
                    (i \in 1..Len(s) /\ Append(s, x)[i] = s[i]) \/ Append(s, x)[i] = x
    OBVIOUS
  <1> DEFINE s1 == Append(o, c)
             s2 == Append(s1, d)
             s3 == Append(s2, g)
  <1>3. s1 \in Seq(T) /\ \A i \in 1..Len(s1) : (i \in 1..Len(o) /\ s1[i] = o[i]) \/ s1[i] = c
    BY <1>1, <1>2
  <1> HIDE DEF s1
  <1>4. s2 \in Seq(T) /\ \A i \in 1..Len(s2) : (i \in 1..Len(s1) /\ s2[i] = s1[i]) \/ s2[i] = d
    BY <1>1, <1>2, <1>3
  <1> HIDE DEF s2
  <1>5. s3 \in Seq(T) /\ \A i \in 1..Len(s3) : (i \in 1..Len(s2) /\ s3[i] = s2[i]) \/ s3[i] = g
    BY <1>1, <1>2, <1>4
  <1> HIDE DEF s3
  <1>6. \A i \in 1..Len(s2) : (i \in 1..Len(o) /\ s2[i] = o[i]) \/ s2[i] = c \/ s2[i] = d
    BY <1>3, <1>4
  <1>7. \A i \in 1..Len(s3) : (i \in 1..Len(o) /\ s3[i] = o[i]) \/ s3[i] = c \/ s3[i] = d \/ s3[i] = g
    BY <1>5, <1>6
  <1> QED BY <1>3, <1>6, <1>7 DEF s1, s2, s3

LEMMA LastOf ==
  ASSUME NEW S, NEW o \in Seq(S), NEW c, NEW d, NEW g
  PROVE  /\ Append(o, c)[Len(Append(o, c))] = c
         /\ Append(Append(o, c), d)[Len(Append(Append(o, c), d))] = d
         /\ Append(Append(Append(o, c), d), g)[Len(Append(Append(Append(o, c), d), g))] = g
  <1> DEFINE T == S \union {c, d, g}
  <1>1. o \in Seq(T) /\ c \in T /\ d \in T /\ g \in T
    OBVIOUS
  <1> HIDE DEF T
  <1>2. ASSUME NEW s \in Seq(T), NEW x \in T
        PROVE  Append(s, x) \in Seq(T) /\ Append(s, x)[Len(Append(s, x))] = x
    OBVIOUS
  <1>3. Append(o, c) \in Seq(T) /\ Append(Append(o, c), d) \in Seq(T)
    BY <1>1, <1>2
  <1> QED BY <1>1, <1>2, <1>3

\* A search goes on with searches.
LEMMA SearchGoesOn ==
  ASSUME IInv,
         ProcessVariable \/ ProcessKids \/ SequenceTakes \/ ProcessSequence \/ SequenceSearches
  PROVE  /\ calls # <<>>
         /\ \/ \E c : c.at \in {"process", "sequence"} /\ calls' = Append(Outer, c)
            \/ \E c, d : /\ {c.at, d.at} \subseteq {"process", "sequence"}
                         /\ calls' = Append(Append(Outer, c), d)
  <1> DEFINE Goal == /\ calls # <<>>
                     /\ \/ \E c : c.at \in {"process", "sequence"} /\ calls' = Append(Outer, c)
                        \/ \E c, d : /\ {c.at, d.at} \subseteq {"process", "sequence"}
                                     /\ calls' = Append(Append(Outer, c), d)
  <1>1. ASSUME calls # <<>>, NEW c, c.at \in {"process", "sequence"}, calls' = Append(Outer, c)
        PROVE  Goal
    BY <1>1
  <1>2. ASSUME calls # <<>>, NEW c, c.at \in {"process", "sequence"},
               NEW d, d.at \in {"process", "sequence"}, calls' = Append(Append(Outer, c), d)
        PROVE  Goal
    BY <1>2
  <1> HIDE DEF Goal
  <1>3. CASE ProcessVariable
    <2>1. /\ calls # <<>> /\ Top.at = "process" /\ calls' = Append(Outer, Dequeued(<<>>))
      BY <1>3 DEF ProcessVariable, Goes, At, IInv, TypeOK, Dequeued
    <2>2. Dequeued(<<>>).at = "process"
      BY <2>1, Here, StillProcess DEF Dequeued
    <2> QED BY <2>1, <2>2, <1>1
  <1>4. CASE ProcessKids
    <2> DEFINE m == Kids(Head(Queued))
    <2>1. /\ calls # <<>> /\ Top.at = "process" /\ calls' = Append(Outer, Dequeued(m))
      BY <1>4 DEF ProcessKids, Goes, At, IInv, TypeOK, Dequeued
    <2> HIDE DEF m
    <2>2. Dequeued(m).at = "process"
      BY <2>1, Here, StillProcess DEF Dequeued
    <2> QED BY <2>1, <2>2, <1>1
  <1>5. CASE SequenceTakes
    <2> DEFINE c == [Top EXCEPT !.next = Top.next + 1]
    <2>1. calls # <<>> /\ Top.at = "sequence" /\ calls' = Append(Outer, c)
      BY <1>5 DEF SequenceTakes, Goes, At, IInv, TypeOK
    <2>2. c.at = "sequence"
      BY <2>1, Here, StillSequence
    <2> HIDE DEF c
    <2> QED BY <2>1, <2>2, <1>1
  <1>6. CASE ProcessSequence
    <2> DEFINE d == Sequence(Top.this, Head(Queued))
    <2>1. /\ calls # <<>> /\ Top.at = "process" /\ calls' = Append(Append(Outer, Dequeued(<<>>)), d)
      BY <1>6 DEF ProcessSequence, Continue, Goes, At, IInv, TypeOK, Dequeued
    <2>2. d.at = "sequence"
      BY DEF Sequence
    <2> HIDE DEF d
    <2>3. Dequeued(<<>>).at = "process"
      BY <2>1, Here, StillProcess DEF Dequeued
    <2> QED BY <2>1, <2>2, <2>3, <1>2
  <1>7. CASE SequenceSearches
    <2> DEFINE c == [Top EXCEPT !.first = Top.first + 1, !.next = Top.next + 1]
               d == Process(Top.this, Next1)
    <2>1. calls # <<>> /\ Top.at = "sequence" /\ calls' = Append(Append(Outer, c), d)
      BY <1>7 DEF SequenceSearches, Continue, Goes, At, IInv, TypeOK
    <2>2. d.at = "process"
      BY DEF Process
    <2> HIDE DEF d
    <2>3. c.at = "sequence"
      BY <2>1, Here, StillSequence
    <2> HIDE DEF c
    <2> QED BY <2>1, <2>2, <2>3, <1>2
  <1> QED BY <1>3, <1>4, <1>5, <1>6, <1>7 DEF Goal

\* The calls of the next state that emit for a function: those under the one on
\* top, and what that one has become or made.
LEMMA NextEmissions ==
  ASSUME IInv, [Next]_vars, NEW i \in 1..Len(calls'), NEW x, x = calls'[i], x.at \in Emissions
  PROVE  \/ calls # <<>> /\ i \in 1..Len(Outer) /\ i \in Frames /\ x = Outer[i] /\ x = calls[i]
         \/ UNCHANGED <<calls, subtrees, value, fns, work, ran, jits>>
         \/ /\ EmitBinop /\ x.this = Top.this /\ x.fn = Top.fn
            /\ \/ x.at = "binop" /\ x.term = Top.term /\ x.left = "pending"
               \/ x.at = "emit" /\ x.term = Append(Top.term, 1)
         \/ /\ BinopRight /\ x.this = Top.this /\ x.fn = Top.fn
            /\ \/ x.at = "binop" /\ x.term = Top.term /\ x.left = value
               \/ x.at = "emit" /\ x.term = Append(Top.term, 2)
         \/ /\ EmitOptreeJitKids /\ x.this = Top.this /\ x.fn = Top.fn
            /\ x.at = "kids" /\ x.term = Top.term
         \/ /\ ProcessTree \/ SequenceFlushes
            /\ x.at \in {"trees", "emit"} /\ x.this = Top.this /\ x.fn = Len(fns) + 1
  <1> DEFINE Kept == calls # <<>> /\ i \in 1..Len(Outer) /\ i \in Frames
                     /\ x = Outer[i] /\ x = calls[i]
  <1>1. ASSUME calls # <<>>
        PROVE  /\ Outer \in Seq(CallsUpTo(EmittersAlive, FunctionsMade))
               /\ i \in 1..Len(Outer) /\ x = Outer[i] => Kept
    BY <1>1, Here, TopAndOuter DEF Frames
  <1>2. CASE ProcessVariable \/ ProcessKids \/ SequenceTakes \/ ProcessSequence \/ SequenceSearches
    <2>1. calls # <<>>
      BY <1>2, SearchGoesOn
    <2>2. CASE \E c : c.at \in {"process", "sequence"} /\ calls' = Append(Outer, c)
      BY <2>1, <2>2, <1>1, FramesOf DEF Emissions
    <2>3. CASE \E c, d : /\ {c.at, d.at} \subseteq {"process", "sequence"}
                         /\ calls' = Append(Append(Outer, c), d)
      BY <2>1, <2>3, <1>1, FramesOf DEF Emissions
    <2> QED BY <1>2, <2>2, <2>3, SearchGoesOn
  <1>4. CASE EmitBinop
    <2> DEFINE c == Binop(Top.this, Top.term, Top.fn)
               d == Emit(Top.this, Append(Top.term, 1), Top.fn)
    <2>1. calls # <<>> /\ calls' = Append(Append(Outer, c), d)
      BY <1>4 DEF EmitBinop, At, IInv, TypeOK, Continue, Operand
    <2>2. x = c \/ x = d \/ Kept
      <3> HIDE DEF c, d
      <3> QED BY <2>1, <1>1, FramesOf
    <2> QED BY <1>4, <2>2 DEF Binop, Emit
  <1>5. CASE BinopRight
    <2> DEFINE c == [Top EXCEPT !.left = value]
               d == Emit(Top.this, Append(Top.term, 2), Top.fn)
    <2>1. calls # <<>> /\ Top.at = "binop" /\ value \in Types
      BY <1>5 DEF BinopRight, At, IInv, TypeOK, Types
    <2>2. calls' = Append(Append(Outer, c), d)
      BY <1>5, <2>1 DEF BinopRight, Continue, Operand, Types
    <2>3. c.at = "binop" /\ c.this = Top.this /\ c.term = Top.term /\ c.fn = Top.fn /\ c.left = value
      <3>1. Top \in CallsUpTo(EmittersAlive, FunctionsMade)
        BY <2>1, Here
      <3> QED BY <2>1, <3>1, LeftChanged
    <2>4. x = c \/ x = d \/ Kept
      <3>1. calls # <<>> /\ calls' = Append(Append(Outer, c), d)
        BY <2>1, <2>2
      <3> HIDE DEF c, d
      <3> QED BY <3>1, <1>1, FramesOf
    <2>5. x = c => x.at = "binop" /\ x.this = Top.this /\ x.fn = Top.fn
                   /\ x.term = Top.term /\ x.left = value
      BY <2>3
    <2>6. x = d => x.at = "emit" /\ x.this = Top.this /\ x.fn = Top.fn
                   /\ x.term = Append(Top.term, 2)
      BY DEF Emit
    <2> HIDE DEF c, d
    <2> QED BY <1>5, <2>4, <2>5, <2>6
  <1>6. CASE EmitOptreeJitKids
    <2> DEFINE c == JitKids(Top.this, Top.term, Top.fn)
               d == Process(Top.this + 1, Top.term)
    <2>1. calls # <<>> /\ calls' = Append(Append(Outer, c), d)
      BY <1>6 DEF EmitOptreeJitKids, At, IInv, TypeOK, Continue
    <2>2. x = c \/ x = d \/ Kept
      <3> HIDE DEF c, d
      <3> QED BY <2>1, <1>1, FramesOf
    <2> QED BY <1>6, <2>2 DEF JitKids, Process, Emissions
  <1>7. ASSUME ProcessTree \/ SequenceFlushes, Top.at \in {"process", "sequence"}, calls # <<>>,
               NEW c, c.at = Top.at, NEW p, NEW asts, JitTrees(c, p, asts)
        PROVE  \/ Kept
               \/ x.at \in {"trees", "emit"} /\ x.this = Top.this /\ x.fn = Len(fns) + 1
    <2> DEFINE d == Trees(Top.this, p, asts, Len(fns) + 1)
               g == Emit(Top.this, asts[1], Len(fns) + 1)
    <2>1. calls' = Append(Append(Append(Outer, c), d), g)
      BY <1>7 DEF JitTrees
    <2>2. x = c \/ x = d \/ x = g \/ Kept
      <3> HIDE DEF d, g
      <3> QED BY <2>1, <1>1, <1>7, FramesOf
    <2> QED BY <1>7, <2>2 DEF Trees, Emit, Emissions
  <1>15. CASE ProcessTree
    <2>1. /\ calls # <<>> /\ Top.at = "process"
          /\ JitTrees(Dequeued(<<>>), Head(Queued), <<Head(Queued)>>)
      BY <1>15 DEF ProcessTree, Goes, At, IInv, TypeOK, Dequeued
    <2>2. Dequeued(<<>>).at = "process"
      BY <2>1, Here, StillProcess DEF Dequeued
    <2> QED BY <1>15, <2>1, <2>2, <1>7
  <1>16. CASE SequenceFlushes
    <2> DEFINE c == [Top EXCEPT !.first = Top.next]
               a == [k \in 1..(Top.next - Top.first) |-> Append(Top.term, Top.first + k - 1)]
    <2>1. calls # <<>> /\ Top.at = "sequence" /\ JitTrees(c, Top.term, a)
      BY <1>16 DEF SequenceFlushes, Goes, At, IInv, TypeOK
    <2> HIDE DEF a
    <2>2. c.at = "sequence"
      BY <2>1, Here, StillSequence
    <2> QED BY <1>16, <2>1, <2>2, <1>7
  <1>8. CASE ProcessReturns \/ SequenceReturns \/ EmitConst \/ GetLexical \/ BinopAdds
             \/ JitKidsFail \/ EmitOptree \/ JitTreesFail \/ JitTreesGoOn
    <2>1. calls # <<>> /\ calls' = Outer
      BY <1>8, JitTreesGoOnMakes
         DEF ProcessReturns, SequenceReturns, EmitConst, GetLexical, BinopAdds, JitKidsFail,
             EmitOptree, RunTree, JitTreesFail, Returning, Goes, At, IInv, TypeOK
    <2> QED BY <2>1, <1>1
  <1>9. CASE BinopCrashes \/ Apply \/ Finish \/ UNCHANGED vars
    BY <1>9 DEF BinopCrashes, Apply, Finish, vars, code, made
  <1> QED BY <1>2, <1>4, <1>5, <1>6, <1>8, <1>9, <1>15, <1>16 DEF Next

\* A call under the one on top that emits for a function does so for another
\* one, unless it is of the same Emitter.
LEMMA OuterEmission ==
  ASSUME IInv, calls # <<>>, NEW i \in 1..Len(Outer), NEW x, x = Outer[i], x.at \in Emissions
  PROVE  /\ i \in Frames /\ x = calls[i] /\ Inside(x, Top) /\ CallWhole(x)
         /\ x \in CallsUpTo(EmittersAlive, FunctionsMade)
         /\ x.fn \in 1..FunctionsMade /\ x.this \in 1..EmittersAlive /\ x.term \in Terms
         /\ x.this <= Top.this
         /\ Top.at \in Emissions => (x.this = Top.this <=> x.fn = Top.fn)
         /\ Top.at = "trees" => x.this # Top.this /\ x.fn # Top.fn
  <1>1. /\ i \in Frames /\ x = calls[i] /\ x \in CallsUpTo(EmittersAlive, FunctionsMade)
    BY Here, TopAndOuter DEF Frames
  <1>2. Inside(x, Top) /\ CallWhole(x)
    BY Here, CallReturns
  <1>3. x.fn \in 1..FunctionsMade /\ x.this \in 1..EmittersAlive /\ x.term \in Terms
    BY <1>1, CallFields
  <1>4. /\ x.this <= Top.this
        /\ Top.at \in Emissions => (x.this = Top.this <=> x.fn = Top.fn)
        /\ Top.at = "trees" => x.this < Top.this
    BY <1>2 DEF Inside, Emissions
  <1>5. Top.at = "trees" => x.this # Top.this
    BY <1>3, <1>4, Here
  <1> QED BY <1>1, <1>2, <1>3, <1>4, <1>5 DEF Emissions

\* What a step does to the trees a function runs
LEMMA NextRan ==
  ASSUME IInv, [Next]_vars
  PROVE  /\ \A f \in 1..FunctionsMade :
              \/ ran'[f] = ran[f]
              \/ EmitOptree /\ f = Top.fn /\ ran'[f] = Append(ran[f], OpOf(Top.term))
         /\ EmitOptree => ran'[Top.fn] = Append(ran[Top.fn], OpOf(Top.term))
         /\ ProcessTree \/ SequenceFlushes => ran'[FunctionsMade + 1] = <<>>
  <1>1. ran \in Seq(Seq(Ops)) /\ Len(ran) = FunctionsMade /\ Len(fns) = FunctionsMade
    BY DEF IInv, TypeOK, FunctionsMade
  <1>2. CASE ProcessTree \/ SequenceFlushes
    <2>1. ran' = Append(ran, <<>>)
      BY <1>2, Starting
    <2>2. \A f \in 1..FunctionsMade : ran'[f] = ran[f]
      BY <1>1, <2>1
    <2>3. ran'[FunctionsMade + 1] = <<>>
      BY <1>1, <2>1
    <2>4. ~ EmitOptree
      BY <1>2 DEF ProcessTree, SequenceFlushes, EmitOptree, Goes, At
    <2> QED BY <2>2, <2>3, <2>4
  <1>3. CASE EmitOptree
    <2>1. Top.fn \in 1..FunctionsMade
      BY <1>3, SubtreeKept, EmissionOfTop DEF Emissions
    <2>2. ran' = [ran EXCEPT ![Top.fn] = Append(ran[Top.fn], OpOf(Top.term))]
      BY <1>3 DEF EmitOptree, RunTree
    <2>3. ~ ProcessTree /\ ~ SequenceFlushes
      BY <1>3 DEF ProcessTree, SequenceFlushes, EmitOptree, Goes, At
    <2>4. /\ ran'[Top.fn] = Append(ran[Top.fn], OpOf(Top.term))
          /\ \A f \in 1..FunctionsMade : f # Top.fn => ran'[f] = ran[f]
      <3> DEFINE n == Append(ran[Top.fn], OpOf(Top.term))
      <3>1. ran' = [ran EXCEPT ![Top.fn] = n]
        BY <2>2
      <3> HIDE DEF n
      <3>2. ran'[Top.fn] = n /\ \A f \in 1..FunctionsMade : f # Top.fn => ran'[f] = ran[f]
        BY <1>1, <2>1, <3>1
      <3> QED BY <3>2 DEF n
    <2> QED BY <1>3, <2>3, <2>4
  <1>4. CASE ~ (ProcessTree \/ SequenceFlushes) /\ ~ EmitOptree
    BY <1>4, Changes
  <1> QED BY <1>2, <1>3, <1>4

\* What a step does to the subtrees of the Emitters that it leaves alive
LEMMA NextSubtrees ==
  ASSUME IInv, [Next]_vars, NEW e \in 1..Len(subtrees), e <= Len(subtrees')
  PROVE  \/ subtrees'[e] = subtrees[e] /\ (EmitOptree => e # Top.this)
         \/ EmitOptree /\ e = Top.this
            /\ subtrees'[e] = Append(subtrees[e], OpOf(Top.term))
         \/ (JitTreesFail \/ JitTreesGoOn) /\ Top.at = "trees" /\ e = Top.this
  <1>1. subtrees \in Seq(Seq(Ops)) /\ subtrees' \in Seq(Seq(Ops))
    BY NextFits DEF IInv, TypeOK, Fits
  <1>2. CASE EmitOptree
    BY <1>2, SubtreeKept
  <1>3. CASE JitTreesFail
    <2>1. /\ calls # <<>> /\ Top.at = "trees"
          /\ subtrees' = [subtrees EXCEPT ![Top.this] = <<>>]
      BY <1>3 DEF IInv, TypeOK, JitTreesFail, At
    <2>2. ~ EmitOptree
      BY <2>1 DEF EmitOptree, Goes, At
    <2> QED BY <1>3, <2>1, <2>2, SubtreesCleared
  <1>4. CASE JitTreesGoOn
    <2>1. /\ calls # <<>> /\ Top.at = "trees"
          /\ subtrees' = [subtrees EXCEPT ![Top.this] = <<>>]
      BY <1>4, JitTreesGoOnMakes
    <2>2. ~ EmitOptree
      BY <2>1 DEF EmitOptree, Goes, At
    <2> QED BY <1>4, <2>1, <2>2, SubtreesCleared
  <1>5. CASE ProcessReturns /\ ~ EmitOptree
    <2>1. \/ UNCHANGED subtrees
          \/ subtrees' = SubSeq(subtrees, 1, Outer[Len(Outer)].this) /\ calls # <<>> /\ Outer # <<>>
      BY <1>5 DEF ProcessReturns, At, IInv, TypeOK
    <2>2. CASE UNCHANGED subtrees
      BY <1>5, <2>2
    <2>3. CASE subtrees' = SubSeq(subtrees, 1, Outer[Len(Outer)].this) /\ calls # <<>> /\ Outer # <<>>
      <3>1. Outer \in Seq(CallsUpTo(EmittersAlive, FunctionsMade))
        BY <2>3, Here, TopAndOuter
      <3>2. Len(Outer) \in 1..Len(Outer)
        BY <2>3, <3>1
      <3>3. PICK n \in Nat : n = Outer[Len(Outer)].this /\ n <= EmittersAlive
        BY <2>3, <3>2, Here, CallReturns
      <3>4. \A k \in 1..n : subtrees[k] \in Seq(Ops)
        BY <1>1, <3>3 DEF EmittersAlive
      <3>5. Len(subtrees') = n /\ \A k \in 1..n : subtrees'[k] = subtrees[k]
        BY <2>3, <3>3, <3>4, SubSeqProperties
      <3> QED BY <1>5, <3>5
    <2> QED BY <2>1, <2>2, <2>3
  <1>6. CASE EmitOptreeJitKids
    <2>1. subtrees' = Append(subtrees, <<>>)
      BY <1>6 DEF EmitOptreeJitKids
    <2>2. ~ EmitOptree
      BY <1>6 DEF EmitOptreeJitKids, EmitOptree, Goes, At
    <2> QED BY <1>1, <2>1, <2>2
  <1>7. CASE UNCHANGED subtrees /\ ~ EmitOptree
    BY <1>7
  <1> QED BY <1>2, <1>3, <1>4, <1>5, <1>6, <1>7, Changes

LEMMA NextSubtreesRun ==
  ASSUME IInv, [Next]_vars
  PROVE  SubtreesRun' /\ OwnsWhatItRuns'
  <1>1. /\ \A i \in Frames : calls[i].at = "trees" => ran[calls[i].fn] = subtrees[calls[i].this]
        /\ \A j \in 1..Len(jits), i \in Frames : calls[i].at \in Emissions => jits[j].fn # calls[i].fn
        /\ \A j \in 1..Len(jits) : jits[j].kids = ran[jits[j].fn]
        /\ jits \in Seq(JitsUpTo(FunctionsMade)) /\ FunctionsMade = Len(fns)
    BY DEF IInv, SubtreesRun, OwnsWhatItRuns, TypeOK, JitsUpTo, FunctionsMade
  <1>2. \A j \in 1..Len(jits) : jits[j].fn \in 1..FunctionsMade
    <2>1. \A j \in 1..Len(jits) : jits[j] \in JitsUpTo(FunctionsMade)
      BY <1>1
    <2> QED BY <2>1 DEF JitsUpTo
  <1>3. calls # <<>> => Len(calls) \in Frames /\ calls[Len(calls)] = Top
    BY Here, TopAndOuter DEF Frames, Top
  <1>4. \A j \in 1..Len(jits') : \/ j \in 1..Len(jits) /\ jits'[j] = jits[j]
                                 \/ /\ JitTreesGoOn
                                    /\ jits'[j] = [fn |-> Top.fn, kids |-> subtrees[Top.this]]
    <2>1. CASE JitTreesGoOn
      <3> DEFINE new == [fn |-> Top.fn, kids |-> subtrees[Top.this]]
      <3>1. jits' = Append(jits, new)
        BY <2>1, JitTreesGoOnMakes
      <3> HIDE DEF new
      <3>2. \A j \in 1..Len(jits') : (j \in 1..Len(jits) /\ jits'[j] = jits[j]) \/ jits'[j] = new
        BY <1>1, <3>1, FramesOf
      <3> QED BY <2>1, <3>2 DEF new
    <2>2. CASE jits' = jits
      BY <2>2
    <2> QED BY <2>1, <2>2, Changes
  <1>5. ASSUME NEW i \in 1..Len(calls'), calls'[i].at = "trees"
        PROVE  ran'[calls'[i].fn] = subtrees'[calls'[i].this]
    <2>1. PICK x : x = calls'[i] /\ x.at = "trees" /\ x.at \in Emissions
      BY <1>5 DEF Emissions
    <2>2. CASE calls # <<>> /\ i \in 1..Len(Outer) /\ i \in Frames /\ x = Outer[i] /\ x = calls[i]
      <3>1. ran[x.fn] = subtrees[x.this]
        BY <1>1, <2>1, <2>2
      <3>2. /\ x.fn \in 1..FunctionsMade /\ x.this \in 1..EmittersAlive
            /\ Top.at \in Emissions => (x.this = Top.this <=> x.fn = Top.fn)
            /\ Top.at = "trees" => x.this # Top.this
        BY <2>1, <2>2, OuterEmission
      <3>3. x.this \in 1..Len(subtrees) /\ x.this <= Len(subtrees')
        <4>1. calls' \in Seq(CallsUpTo(Len(subtrees'), Len(fns')))
          BY NextFits DEF Fits
        <4>2. x \in CallsUpTo(Len(subtrees'), Len(fns'))
          BY <2>1, <4>1
        <4>3. x.this \in 1..Len(subtrees')
          BY <4>2, CallFields
        <4> QED BY <3>2, <4>3 DEF EmittersAlive
      <3>4. \/ ran'[x.fn] = ran[x.fn]
            \/ EmitOptree /\ x.fn = Top.fn /\ ran'[x.fn] = Append(ran[x.fn], OpOf(Top.term))
        BY <3>2, NextRan
      <3>5. \/ subtrees'[x.this] = subtrees[x.this] /\ (EmitOptree => x.this # Top.this)
            \/ EmitOptree /\ x.this = Top.this
               /\ subtrees'[x.this] = Append(subtrees[x.this], OpOf(Top.term))
            \/ (JitTreesFail \/ JitTreesGoOn) /\ Top.at = "trees" /\ x.this = Top.this
        BY <3>3, NextSubtrees
      <3>6. EmitOptree => /\ Top.at \in Emissions /\ Top.at # "trees"
                          /\ x.fn = Top.fn => ran'[x.fn] = Append(ran[x.fn], OpOf(Top.term))
        BY NextRan DEF EmitOptree, Goes, At, Emissions
      <3>7. ran'[x.fn] = subtrees'[x.this]
        <4>1. CASE EmitOptree /\ x.this = Top.this
          <5>1. x.fn = Top.fn
            BY <3>2, <3>6, <4>1
          <5>2. ran'[x.fn] = Append(ran[x.fn], OpOf(Top.term))
            BY <3>6, <4>1, <5>1
          <5>3. subtrees'[x.this] = Append(subtrees[x.this], OpOf(Top.term))
            BY <3>5, <3>6, <4>1
          <5> QED BY <3>1, <5>2, <5>3
        <4>2. CASE ~ (EmitOptree /\ x.this = Top.this)
          BY <3>1, <3>2, <3>4, <3>5, <3>6, <4>2
        <4> QED BY <4>1, <4>2
      <3> QED BY <2>1, <3>7
    <2>3. CASE UNCHANGED <<calls, subtrees, value, fns, work, ran, jits>>
      BY <1>1, <1>5, <2>3 DEF Frames
    <2>4. CASE /\ ProcessTree \/ SequenceFlushes
               /\ x.at \in {"trees", "emit"} /\ x.this = Top.this /\ x.fn = Len(fns) + 1
      <3>1. calls # <<>> /\ Top.at \in {"process", "sequence"} /\ UNCHANGED subtrees
        BY <2>4, Starting
      <3>2. subtrees[Top.this] = <<>>
        BY <3>1, Here
      <3>3. ran'[Len(fns) + 1] = <<>>
        BY <2>4, NextRan DEF FunctionsMade
      <3> QED BY <2>1, <2>4, <3>1, <3>2, <3>3
    <2> QED BY <2>1, <2>2, <2>3, <2>4, NextEmissions
  <1>6. ASSUME NEW j \in 1..Len(jits'), NEW i \in 1..Len(calls'), calls'[i].at \in Emissions
        PROVE  jits'[j].fn # calls'[i].fn
    <2>1. PICK x : x = calls'[i] /\ x.at \in Emissions
      BY <1>6
    <2>2. CASE calls # <<>> /\ i \in 1..Len(Outer) /\ i \in Frames /\ x = Outer[i] /\ x = calls[i]
      <3>1. CASE j \in 1..Len(jits) /\ jits'[j] = jits[j]
        BY <1>1, <2>1, <2>2, <3>1
      <3>2. CASE JitTreesGoOn /\ jits'[j] = [fn |-> Top.fn, kids |-> subtrees[Top.this]]
        <4>1. Top.at = "trees"
          BY <3>2, JitTreesGoOnMakes
        <4>2. x.fn # Top.fn
          BY <2>1, <2>2, <4>1, OuterEmission
        <4>3. jits'[j].fn = Top.fn
          BY <3>2
        <4> QED BY <2>1, <4>2, <4>3
      <3> QED BY <1>4, <3>1, <3>2
    <2>3. CASE UNCHANGED <<calls, subtrees, value, fns, work, ran, jits>>
      BY <1>1, <1>6, <2>3 DEF Frames
    <2>4. CASE (EmitBinop \/ BinopRight \/ EmitOptreeJitKids) /\ x.fn = Top.fn
      <3>1. calls # <<>> /\ Top.at \in Emissions /\ UNCHANGED jits
        BY <2>4 DEF EmitBinop, BinopRight, EmitOptreeJitKids, At, IInv, TypeOK, Emissions, made
      <3> QED BY <1>1, <1>3, <2>1, <2>4, <3>1
    <2>5. CASE (ProcessTree \/ SequenceFlushes) /\ x.fn = Len(fns) + 1
      <3>1. UNCHANGED jits
        BY <2>5, Starting
      <3> QED BY <1>1, <1>2, <2>1, <2>5, <3>1
    <2> QED BY <2>1, <2>2, <2>3, <2>4, <2>5, NextEmissions
  <1>7. ASSUME NEW j \in 1..Len(jits')
        PROVE  jits'[j].kids = ran'[jits'[j].fn]
    <2>1. CASE j \in 1..Len(jits) /\ jits'[j] = jits[j]
      <3>1. EmitOptree => jits[j].fn # Top.fn
        <4> SUFFICES ASSUME EmitOptree
                     PROVE  jits[j].fn # Top.fn
          OBVIOUS
        <4>1. calls # <<>> /\ Top.at \in Emissions
          BY SubtreeKept DEF Emissions
        <4> QED BY <1>1, <1>3, <2>1, <4>1
      <3> QED BY <1>1, <1>2, <2>1, <3>1, NextRan
    <2>2. CASE JitTreesGoOn /\ jits'[j] = [fn |-> Top.fn, kids |-> subtrees[Top.this]]
      <3>1. calls # <<>> /\ Top.at = "trees"
        BY <2>2, JitTreesGoOnMakes
      <3>2. ran' = ran
        BY <2>2 DEF JitTreesGoOn
      <3> QED BY <1>1, <1>3, <2>2, <3>1, <3>2
    <2> QED BY <1>4, <2>1, <2>2
  <1> QED BY <1>5, <1>6, <1>7 DEF SubtreesRun, OwnsWhatItRuns, Frames, Emissions

-----------------------------------------------------------------------------
(* Values *)

\* What the innermost call returns is what its term can give.
LEMMA ReturnsExplained ==
  ASSUME IInv, EmitConst \/ GetLexical \/ BinopAdds \/ JitKidsFail \/ EmitOptree
  PROVE  Explains(Top.term, value')
  <1>0. calls # <<>>
    BY SubtreeKept DEF EmitConst, GetLexical, BinopAdds, JitKidsFail, At, IInv, TypeOK
  <1>1. CASE EmitConst
    BY <1>1 DEF EmitConst, Returning, ConstType, Explains, HasNoValue, Constants
  <1>2. CASE GetLexical
    BY <1>2 DEF GetLexical, Returning, Explains, Variables
  <1>3. CASE BinopAdds
    <2>1. /\ Top.at = "binop" /\ Top.left \notin {"pending", "none"}
          /\ value' = IF sub[Top.term].assign /\ Top.left # "scalar" THEN "none" ELSE "double"
      BY <1>3 DEF BinopAdds, At, Returning, Assigns
    <2>2. Kind(Top.term) = "add" /\ Top.left \in {"double", "integer", "scalar"}
      BY <1>0, <2>1, Here, CallFields DEF CallWhole, Types
    <2>3. Len(calls) \in Frames /\ calls[Len(calls)] = Top
      BY <1>0, Here, TopAndOuter DEF Frames, Top
    <2>4. Explains(Append(Top.term, 1), Top.left)
      BY <2>1, <2>3 DEF IInv, ValuesExplained
    <2> QED BY <2>1, <2>2, <2>4 DEF Explains, HasNoValue
  <1>4. CASE JitKidsFail
    <2>1. Top.at = "kids" /\ ~ ok /\ value' = "none"
      BY <1>4 DEF JitKidsFail, At, Returning
    <2>2. IsTreeOfOps(Top.term)
      BY <1>0, <2>1, Here DEF CallWhole
    <2>3. Len(calls) \in Frames /\ calls[Len(calls)] = Top
      BY <1>0, Here, TopAndOuter DEF Frames, Top
    <2>4. \E q \in Terms : Below(q, Top.term) /\ Kind(q) = "sequence"
      BY <1>0, <2>1, <2>3 DEF IInv, FailureExplained
    <2> QED BY <2>1, <2>2, <2>4 DEF Explains, HasNoValue
  <1>5. CASE EmitOptree
    <2>1. Top.at = "kids" /\ value' = IF sub[Top.term].ctx = "scalar" THEN "scalar" ELSE "none"
      BY <1>5 DEF EmitOptree, RunTree, Goes, At, Returning
    <2>2. IsTreeOfOps(Top.term)
      BY <1>0, <2>1, Here DEF CallWhole
    <2>3. Top.term \in Terms /\ IsTree(sub)
      BY <1>0, Here
    <2>4. Kind(Top.term) = "statement" => sub[Top.term].ctx # "scalar"
      BY <2>3 DEF IsTree, Terms, Kind
    <2> QED BY <2>1, <2>2, <2>4 DEF Explains, HasNoValue
  <1> QED BY <1>1, <1>2, <1>3, <1>4, <1>5

LEMMA SameTree ==
  ASSUME sub' = sub
  PROVE  /\ \A p : HasNoValue(p)' <=> HasNoValue(p)
         /\ \A p, type : Explains(p, type)' <=> Explains(p, type)
  BY DEF Explains, HasNoValue, IsTreeOfOps, Below, Terms, Kind, Variables, Constants

\* Behind a step the innermost call emits for a function only where a call of
\* such has returned to it, or nothing has moved.
LEMMA NextTop ==
  ASSUME IInv, [Next]_vars, calls' # <<>>, calls'[Len(calls')].at \in {"trees", "binop", "kids"}
  PROVE  \/ UNCHANGED <<calls, value, ok>>
         \/ ProcessReturns /\ calls' = Outer
         \/ EmitConst \/ GetLexical \/ BinopAdds \/ JitKidsFail \/ EmitOptree
  <1>1. CASE ProcessVariable \/ ProcessKids \/ SequenceTakes \/ ProcessSequence \/ SequenceSearches
    <2>1. calls # <<>> /\ Outer \in Seq(CallsUpTo(EmittersAlive, FunctionsMade))
      BY <1>1, SearchGoesOn, Here, TopAndOuter
    <2>2. ASSUME NEW c, c.at \in {"process", "sequence"}, calls' = Append(Outer, c)
          PROVE  FALSE
      BY <2>1, <2>2, LastOf
    <2>3. ASSUME NEW c, NEW d, d.at \in {"process", "sequence"}, calls' = Append(Append(Outer, c), d)
          PROVE  FALSE
      BY <2>1, <2>3, LastOf
    <2> QED BY <1>1, <2>2, <2>3, SearchGoesOn
  <1>2. CASE EmitBinop \/ BinopRight \/ EmitOptreeJitKids
    <2>1. /\ calls # <<>>
          /\ \E c, d : d.at \in {"emit", "process"} /\ calls' = Append(Append(Outer, c), d)
      BY <1>2 DEF EmitBinop, BinopRight, EmitOptreeJitKids, Continue, Emit, Process, At, IInv, TypeOK
    <2>2. Outer \in Seq(CallsUpTo(EmittersAlive, FunctionsMade))
      BY <2>1, Here, TopAndOuter
    <2> QED BY <2>1, <2>2, LastOf
  <1>3. CASE ProcessTree \/ SequenceFlushes
    <2>1. /\ calls # <<>>
          /\ \E c, d, g : g.at = "emit" /\ calls' = Append(Append(Append(Outer, c), d), g)
      BY <1>3 DEF ProcessTree, SequenceFlushes, JitTrees, Emit, Goes, At, IInv, TypeOK
    <2>2. Outer \in Seq(CallsUpTo(EmittersAlive, FunctionsMade))
      BY <2>1, Here, TopAndOuter
    <2> QED BY <2>1, <2>2, LastOf
  <1>4. CASE SequenceReturns \/ JitTreesFail \/ JitTreesGoOn
    <2>1. calls # <<>> /\ Top.at \in {"sequence", "trees"} /\ calls' = Outer
      BY <1>4, JitTreesGoOnMakes DEF SequenceReturns, JitTreesFail, At, IInv, TypeOK
    <2> QED BY <2>1, Here, CallReturns DEF Called
  <1>5. CASE ProcessReturns
    BY <1>5 DEF ProcessReturns
  <1>6. CASE BinopCrashes \/ Apply \/ Finish \/ UNCHANGED vars
    BY <1>6 DEF BinopCrashes, Apply, Finish, vars
  <1> QED BY <1>1, <1>2, <1>3, <1>4, <1>5, <1>6 DEF Next

LEMMA NextValues ==
  ASSUME IInv, [Next]_vars
  PROVE  ValuesExplained'
  <1>1. /\ calls # <<>> /\ Top.at \in {"trees", "binop"} => Explains(Emitted(Top), value)
        /\ \A i \in Frames : calls[i].at = "binop" /\ calls[i].left # "pending" =>
             Explains(Append(calls[i].term, 1), calls[i].left)
    BY DEF IInv, ValuesExplained
  <1>2. /\ sub' = sub
        /\ \A p, type : Explains(p, type)' <=> Explains(p, type)
    BY NextFits, SameTree
  <1>3. ASSUME calls' # <<>>, NEW t, t = calls'[Len(calls')], t.at \in {"trees", "binop"}
        PROVE  Explains(Emitted(t), value')
    <2>1. CASE UNCHANGED <<calls, value, ok>>
      BY <1>1, <1>3, <2>1 DEF Top
    <2>2. CASE calls' = Outer /\ calls # <<>>
      <3>1. Called(t, Top)
        BY <1>3, <2>2, Here, CallReturns
      <3>2. Top.term = Emitted(t) /\ Top.at \in {"emit", "binop", "kids"}
        BY <1>3, <3>1 DEF Called
      <3>3. ~ ProcessReturns
        BY <3>2 DEF ProcessReturns, At
      <3>4. CASE UNCHANGED <<calls, value, ok>>
        BY <2>1, <3>4
      <3> QED BY <1>3, <2>1, <3>2, <3>3, NextTop, ReturnsExplained
    <2>3. EmitConst \/ GetLexical \/ BinopAdds \/ JitKidsFail \/ EmitOptree =>
            calls' = Outer /\ calls # <<>>
      BY DEF EmitConst, GetLexical, BinopAdds, JitKidsFail, EmitOptree, RunTree, Returning,
             Goes, At, IInv, TypeOK
    <2>4. ProcessReturns => calls # <<>>
      BY DEF ProcessReturns, At, IInv, TypeOK
    <2> QED BY <1>3, <2>1, <2>2, <2>3, <2>4, NextTop
  <1>4. ASSUME NEW i \in 1..Len(calls'), calls'[i].at = "binop", calls'[i].left # "pending"
        PROVE  Explains(Append(calls'[i].term, 1), calls'[i].left)
    <2>1. PICK x : x = calls'[i] /\ x.at = "binop" /\ x.at \in Emissions
      BY <1>4 DEF Emissions
    <2>2. CASE calls # <<>> /\ i \in Frames /\ x = calls[i]
      BY <1>1, <1>4, <2>1, <2>2
    <2>3. CASE UNCHANGED calls
      BY <1>1, <1>4, <2>3 DEF Frames
    <2>4. CASE EmitBinop /\ x.left = "pending"
      BY <1>4, <2>1, <2>4
    <2>5. CASE BinopRight /\ x.term = Top.term /\ x.left = value
      <3>1. calls # <<>> /\ Top.at = "binop" /\ Top.left = "pending"
        BY <2>5 DEF BinopRight, At, IInv, TypeOK
      <3>2. Emitted(Top) = Append(Top.term, 1)
        BY <3>1 DEF Emitted, Operand
      <3> QED BY <1>1, <2>1, <2>5, <3>1, <3>2
    <2> QED BY <2>1, <2>2, <2>3, <2>4, <2>5, NextEmissions
  <1>5. calls' # <<>> /\ Top'.at \in {"trees", "binop"} => Explains(Emitted(Top), value)'
    <2> SUFFICES ASSUME calls' # <<>>, Top'.at \in {"trees", "binop"}
                 PROVE  Explains(Emitted(Top), value)'
      OBVIOUS
    <2>1. PICK t : t = calls'[Len(calls')]
      OBVIOUS
    <2>2. t = Top'
      BY <2>1 DEF Top
    <2>3. Explains(Emitted(t), value')
      BY <1>3, <2>1, <2>2
    <2>4. Emitted(Top)' = Emitted(t)
      BY <2>2 DEF Emitted, Operand
    <2> QED BY <1>2, <2>3, <2>4
  <1>6. \A i \in 1..Len(calls') : calls'[i].at = "binop" /\ calls'[i].left # "pending" =>
             Explains(Append(calls[i].term, 1), calls[i].left)'
    BY <1>2, <1>4
  <1> QED BY <1>5, <1>6 DEF ValuesExplained, Frames

LEMMA NextFailure ==
  ASSUME IInv, [Next]_vars
  PROVE  FailureExplained'
  <1>1. sub' = sub
    BY NextFits
  <1>2. ASSUME ~ ok', calls' # <<>>
        PROVE  /\ calls'[Len(calls')].at \in {"process", "sequence", "kids"}
               /\ \A i \in 1..Len(calls') : calls'[i].at = "kids" =>
                    \E q \in Terms : Below(q, calls'[i].term) /\ Kind(q) = "sequence"
    <2>1. CASE ok' = ok
      <3>1. /\ calls # <<>> => /\ Top.at \in {"process", "sequence", "kids"}
                               /\ \A i \in Frames : calls[i].at = "kids" =>
                                    \E q \in Terms : Below(q, calls[i].term) /\ Kind(q) = "sequence"
            /\ ~ ok
        BY <1>2, <2>1 DEF IInv, FailureExplained
      <3>2. CASE UNCHANGED calls
        BY <1>2, <3>1, <3>2 DEF Top, Frames
      <3>3. CASE ProcessReturns \/ SequenceReturns
        <4>1. calls # <<>> /\ calls' = Outer /\ Top.at \in {"process", "sequence"}
          BY <3>3 DEF ProcessReturns, SequenceReturns, At, IInv, TypeOK
        <4>2. Called(Outer[Len(Outer)], Top)
          BY <1>2, <4>1, Here, CallReturns
        <4>3. Outer[Len(Outer)].at \in {"process", "sequence", "kids"}
          BY <4>1, <4>2 DEF Called
        <4>4. \A i \in 1..Len(Outer) : i \in Frames /\ Outer[i] = calls[i]
          BY <4>1, Here, TopAndOuter DEF Frames
        <4> QED BY <3>1, <4>1, <4>3, <4>4
      <3>4. ASSUME calls # <<>>
            PROVE  ~ (ProcessVariable \/ ProcessSequence \/ ProcessTree \/ ProcessKids
                      \/ SequenceTakes \/ SequenceFlushes \/ SequenceSearches
                      \/ EmitConst \/ GetLexical \/ EmitBinop \/ BinopRight \/ BinopAdds
                      \/ EmitOptreeJitKids \/ JitKidsFail \/ EmitOptree
                      \/ JitTreesFail \/ JitTreesGoOn)
        BY <1>2, <3>1, <3>4
           DEF ProcessVariable, ProcessSequence, ProcessTree, ProcessKids, SequenceTakes,
               SequenceFlushes, SequenceSearches, EmitConst, GetLexical, EmitBinop, BinopRight,
               BinopAdds, EmitOptreeJitKids, JitKidsFail, EmitOptree, JitTreesFail, JitTreesGoOn,
               Goes, At
      <3>5. calls = <<>> => UNCHANGED calls
        BY <1>2, NextCalls, NextFits DEF Next, Apply, Finish, vars, IInv, TypeOK,
           ProcessVariable, ProcessSequence, ProcessTree, ProcessKids, ProcessReturns,
           SequenceTakes, SequenceFlushes, SequenceSearches, SequenceReturns,
           EmitConst, GetLexical, EmitBinop, BinopRight, BinopCrashes,
           BinopAdds, EmitOptreeJitKids, JitKidsFail, EmitOptree, JitTreesFail, JitTreesGoOn,
           Goes, At
      <3>6. BinopCrashes \/ Apply \/ Finish \/ UNCHANGED vars => UNCHANGED calls
        BY DEF BinopCrashes, Apply, Finish, vars
      <3> QED BY <3>2, <3>3, <3>4, <3>5, <3>6 DEF Next
    <2>2. CASE JitTreesFail
      <3>1. /\ calls # <<>> /\ Top.at = "trees" /\ calls' = Outer /\ Kind(Top.asts[1]) = "statement"
        BY <1>2, <2>2 DEF JitTreesFail, At, IInv, TypeOK, IsStatements
      <3>2. Outer \in Seq(CallsUpTo(EmittersAlive, FunctionsMade)) /\ Outer # <<>>
        BY <1>2, <3>1, Here, TopAndOuter
      <3>3. PICK n \in 1..Len(Outer) : n = Len(Outer)
        BY <3>2
      <3>4. Outer[n].at = "sequence"
        BY <1>2, <3>1, <3>3, Here, CallReturns DEF Called
      <3>5. Outer[n].term \in Terms /\ Kind(Outer[n].term) = "sequence"
        BY <3>1, <3>3, <3>4, Here, CallReturns, CallFields DEF CallWhole
      <3>6. ASSUME NEW i \in 1..Len(Outer), Outer[i].at = "kids"
            PROVE  Below(Outer[n].term, Outer[i].term)
        <4>1. i < n
          BY <3>3, <3>4, <3>6
        <4> QED BY <3>1, <3>3, <4>1, Here, CallReturns DEF Stack, Inside
      <3> QED BY <3>1, <3>3, <3>4, <3>5, <3>6
    <2>3. CASE JitKidsFail
      BY <1>2, <2>3 DEF JitKidsFail
    <2> QED BY <2>1, <2>2, <2>3, Changes
  <1> QED BY <1>1, <1>2 DEF FailureExplained, Top, Frames, Below, Kind, Terms

LEMMA NextNullType ==
  ASSUME IInv, [Next]_vars
  PROVE  NullTypeExplained'
  <1>1. /\ sub' = sub
        /\ \A p : HasNoValue(p)' <=> HasNoValue(p)
    BY NextFits, SameTree
  <1>2. ASSUME pc' = "crashed"
        PROVE  \E p \in Terms : Kind(p) = "add" /\ \E i \in {1, 2} : HasNoValue(Append(p, i))
    <2>1. CASE pc = "crashed"
      BY <2>1 DEF IInv, NullTypeExplained
    <2>2. CASE pc # "crashed"
      <3>1. /\ calls # <<>> /\ Top.at = "binop" /\ Top.left # "pending"
            /\ Top.left = "none" \/ value = "none"
        BY <1>2, <2>2, NextCalls DEF BinopCrashes, At, IInv, TypeOK
      <3>2. Top.term \in Terms /\ Kind(Top.term) = "add"
        BY <3>1, Here DEF CallWhole
      <3>3. CASE Top.left = "none"
        <4>1. Len(calls) \in Frames /\ calls[Len(calls)] = Top
          BY <3>1, Here, TopAndOuter DEF Frames, Top
        <4>2. Explains(Append(Top.term, 1), "none")
          BY <3>1, <3>3, <4>1 DEF IInv, ValuesExplained
        <4> QED BY <3>2, <4>2 DEF Explains
      <3>4. CASE value = "none"
        <4>1. Explains(Emitted(Top), "none") /\ Emitted(Top) = Append(Top.term, 2)
          BY <3>1, <3>4 DEF IInv, ValuesExplained, Emitted, Operand
        <4> QED BY <3>2, <4>1 DEF Explains
      <3> QED BY <3>1, <3>3, <3>4
    <2> QED BY <2>1, <2>2
  <1> QED BY <1>1, <1>2 DEF NullTypeExplained, Terms, Kind

-----------------------------------------------------------------------------
(* The order of the work *)

LEMMA ConcatAt ==
  ASSUME NEW S, NEW s \in Seq(S), NEW t \in Seq(S), NEW v, v = s \o t, NEW k \in 1..Len(v)
  PROVE  \/ k \in 1..Len(s) /\ v[k] = s[k]
         \/ k > Len(s) /\ \E m \in 1..Len(t) : v[k] = t[m]
  <1>1. /\ Len(v) = Len(s) + Len(t) /\ Len(s) \in Nat /\ Len(t) \in Nat
        /\ \A n \in 1..(Len(s) + Len(t)) :
             v[n] = IF n <= Len(s) THEN s[n] ELSE t[n - Len(s)]
    BY ConcatProperties
  <1>2. CASE k <= Len(s)
    BY <1>1, <1>2
  <1>3. CASE ~ k <= Len(s)
    <2>1. k - Len(s) \in 1..Len(t) /\ v[k] = t[k - Len(s)] /\ k > Len(s)
      BY <1>1, <1>3
    <2> QED BY <2>1
  <1> QED BY <1>2, <1>3

\* What a step does to the work of a function
LEMMA NextWork ==
  ASSUME IInv, [Next]_vars
  PROVE  /\ \A f \in 1..FunctionsMade :
              \/ work'[f] = work[f]
              \/ f = Top.fn /\ \E list : Inserts(list) /\ work'[f] = work[f] \o list
         /\ \A f \in 1..Len(work') : f \in 1..FunctionsMade \/ Len(work'[f]) = 0
  <1>1. work \in Seq(Seq(Instruction)) /\ Len(work) = FunctionsMade
    BY DEF IInv, TypeOK, FunctionsMade
  <1>2. CASE ProcessTree \/ SequenceFlushes
    <2> DEFINE S == Seq(Instruction)
    <2>1. work' = Append(work, <<>>) /\ work \in Seq(S) /\ <<>> \in S
      BY <1>1, <1>2, Starting
    <2> HIDE DEF S
    <2>2. /\ \A f \in 1..FunctionsMade : work'[f] = work[f]
          /\ \A f \in 1..Len(work') : f \in 1..FunctionsMade \/ work'[f] = <<>>
      BY <1>1, <2>1
    <2> QED BY <2>2
  <1>3. CASE GetLexical \/ BinopAdds \/ EmitOptree \/ JitTreesFail \/ JitTreesGoOn
    <2>1. PICK list : Inserts(list)
      BY <1>3, Inserting
    <2>2. /\ Len(work') = Len(work) /\ work'[Top.fn] = work[Top.fn] \o list
          /\ \A g \in 1..Len(work) : g # Top.fn => work'[g] = work[g]
      BY <2>1, InsertsInto
    <2> QED BY <1>1, <2>1, <2>2
  <1>4. CASE UNCHANGED work
    BY <1>1, <1>4
  <1> QED BY <1>2, <1>3, <1>4, Changes

LEMMA WorkIsTyped ==
  ASSUME IInv, NEW f \in 1..FunctionsMade
  PROVE  /\ work[f] \in Seq(Instruction)
         /\ \A k \in 1..Len(work[f]) : work[f][k].term \in Terms /\ work[f][k].term \in Paths
  <1>1. work[f] \in Seq(Instruction)
    <2> HIDE DEF Instruction
    <2> QED BY DEF IInv, TypeOK, FunctionsMade
  <1>2. \A k \in 1..Len(work[f]) : work[f][k] \in Instruction
    <2> HIDE DEF Instruction
    <2> QED BY <1>1
  <1>3. Terms \subseteq Paths
    BY TermsArePaths DEF IInv
  <1> QED BY <1>1, <1>2, <1>3 DEF Instruction

\* What the innermost call inserts is behind every call that emits for the same
\* function.
LEMMA InsertsBehind ==
  ASSUME IInv, NEW list, Inserts(list), NEW i \in 1..Len(Outer), NEW x, x = Outer[i],
         x.at \in Emissions, x.fn = Top.fn
  PROVE  Behind(Top.term, x) /\ Top.at # "trees"
  <1>1. calls # <<>> /\ Top.at \in Emissions
    BY DEF Inserts
  <1>2. Top.at # "trees" /\ x.this = Top.this /\ Inside(x, Top) /\ CallWhole(x)
        /\ x \in CallsUpTo(EmittersAlive, FunctionsMade)
    BY <1>1, OuterEmission
  <1>3. x.this \in Nat
    BY <1>2, CallFields, Here, <1>1
  <1>4. x.at # "kids"
    BY <1>2, <1>3 DEF Inside
  <1>5. x.at # "emit"
    <2>1. \E c : Called(x, c)
      <3>1. i \in 1..(Len(calls) - 1) /\ x = calls[i]
        BY <1>1, Here, TopAndOuter
      <3>2. Called(calls[i], calls[i + 1])
        BY <1>1, <3>1, Here DEF Stack
      <3> QED BY <3>1, <3>2
    <2> QED BY <2>1 DEF Called
  <1>6. x.at \in {"trees", "binop"} /\ Below(Top.term, Emitted(x))
    BY <1>1, <1>2, <1>4, <1>5 DEF Inside, Emissions
  <1> QED BY <1>2, <1>6 DEF Behind, Emitted, Operand

LEMMA NextWorkBehind ==
  ASSUME IInv, [Next]_vars
  PROVE  WorkBehind'
  <1>1. \A i \in Frames : calls[i].at \in Emissions =>
          \A k \in 1..Len(work[calls[i].fn]) : Behind(work[calls[i].fn][k].term, calls[i])
    BY DEF IInv, WorkBehind
  <1>2. ASSUME NEW i \in 1..Len(calls'), NEW x, x = calls'[i], x.at \in Emissions,
               NEW k \in 1..Len(work'[x.fn])
        PROVE  Behind(work'[x.fn][k].term, x)
    <2>1. CASE calls # <<>> /\ i \in 1..Len(Outer) /\ i \in Frames /\ x = Outer[i] /\ x = calls[i]
      <3>1. x.fn \in 1..FunctionsMade
        BY <1>2, <2>1, OuterEmission
      <3>2. CASE work'[x.fn] = work[x.fn]
        BY <1>1, <1>2, <2>1, <3>2
      <3>3. ASSUME x.fn = Top.fn, NEW list, Inserts(list), work'[x.fn] = work[x.fn] \o list
            PROVE  Behind(work'[x.fn][k].term, x)
        <4>1. Behind(Top.term, x) /\ Top.at # "trees"
          BY <1>2, <2>1, <3>3, InsertsBehind
        <4>2. /\ list \in Seq(Instruction) /\ work[x.fn] \in Seq(Instruction)
              /\ \A m \in 1..Len(list) : list[m].term = Top.term
          BY <3>1, <3>3, <4>1, WorkIsTyped DEF Inserts
        <4>3. \/ k \in 1..Len(work[x.fn]) /\ work'[x.fn][k] = work[x.fn][k]
              \/ \E m \in 1..Len(list) : work'[x.fn][k] = list[m]
          <5> DEFINE w == work[x.fn]
                     v == work'[x.fn]
          <5>1. w \in Seq(Instruction) /\ list \in Seq(Instruction) /\ v = w \o list /\ k \in 1..Len(v)
            BY <1>2, <3>3, <4>2
          <5> HIDE DEF w, v
          <5>2. \/ k \in 1..Len(w) /\ v[k] = w[k]
                \/ k > Len(w) /\ \E m \in 1..Len(list) : v[k] = list[m]
            BY <5>1, ConcatAt
          <5> QED BY <5>2 DEF w, v
        <4>4. CASE k \in 1..Len(work[x.fn]) /\ work'[x.fn][k] = work[x.fn][k]
          BY <1>1, <1>2, <2>1, <4>4
        <4> QED BY <4>1, <4>2, <4>3, <4>4
      <3> QED BY <3>1, <3>2, <3>3, NextWork
    <2>2. CASE UNCHANGED <<calls, subtrees, value, fns, work, ran, jits>>
      BY <1>1, <1>2, <2>2 DEF Frames
    <2>3. ASSUME EmitBinop \/ BinopRight \/ EmitOptreeJitKids, x.fn = Top.fn
          PROVE  /\ calls # <<>> /\ Top.term \in Paths /\ work'[x.fn] = work[x.fn]
                 /\ work[x.fn][k].term \in Paths
                 /\ Top.at # "binop" => LeftOf(work[x.fn][k].term, Top.term)
                 /\ Top.at = "binop" /\ Top.left = "pending" =>
                      \/ LeftOf(work[x.fn][k].term, Top.term)
                      \/ Below(work[x.fn][k].term, Append(Top.term, 1))
      <3>1. calls # <<>> /\ Top.at \in {"emit", "binop"} /\ UNCHANGED work
        BY <2>3 DEF EmitBinop, BinopRight, EmitOptreeJitKids, At, IInv, TypeOK, code
      <3>2. Len(calls) \in Frames /\ calls[Len(calls)] = Top
        BY <3>1, Here, TopAndOuter DEF Frames, Top
      <3>3. Top.fn \in 1..FunctionsMade /\ Top.term \in Paths
        BY <3>1, Here, EmissionOfTop, TermsArePaths DEF Emissions
      <3>4. k \in 1..Len(work[x.fn]) /\ work[x.fn][k].term \in Paths
        BY <1>2, <2>3, <3>1, <3>3, WorkIsTyped
      <3>5. Behind(work[x.fn][k].term, Top)
        BY <1>1, <2>3, <3>1, <3>2, <3>4 DEF Emissions
      <3> QED BY <3>1, <3>3, <3>4, <3>5 DEF Behind
    <2>4. CASE /\ EmitBinop /\ x.this = Top.this /\ x.fn = Top.fn
               /\ \/ x.at = "binop" /\ x.term = Top.term /\ x.left = "pending"
                  \/ x.at = "emit" /\ x.term = Append(Top.term, 1)
      <3>1. Top.at # "binop"
        BY <2>4 DEF EmitBinop, At
      <3>2. LeftOf(work[x.fn][k].term, Top.term) /\ LeftOf(work[x.fn][k].term, Append(Top.term, 1))
        BY <2>3, <2>4, <3>1, LeftOfKid
      <3> QED BY <2>3, <2>4, <3>2 DEF Behind
    <2>5. CASE /\ BinopRight /\ x.this = Top.this /\ x.fn = Top.fn
               /\ \/ x.at = "binop" /\ x.term = Top.term /\ x.left = value
                  \/ x.at = "emit" /\ x.term = Append(Top.term, 2)
      <3>1. Top.at = "binop" /\ Top.left = "pending"
        BY <2>5 DEF BinopRight, At
      <3>2. \/ LeftOf(work[x.fn][k].term, Top.term)
            \/ Below(work[x.fn][k].term, Append(Top.term, 1))
        BY <2>3, <2>5, <3>1
      <3>3. LeftOf(work[x.fn][k].term, Append(Top.term, 2))
        BY <2>3, <2>5, <3>2, LeftOfKid, FirstLeftOfSecond
      <3> QED BY <2>3, <2>5, <3>2, <3>3 DEF Behind
    <2>6. CASE /\ EmitOptreeJitKids /\ x.this = Top.this /\ x.fn = Top.fn
               /\ x.at = "kids" /\ x.term = Top.term
      <3>1. Top.at # "binop"
        BY <2>6 DEF EmitOptreeJitKids, At
      <3> QED BY <2>3, <2>6, <3>1 DEF Behind
    <2>7. CASE /\ ProcessTree \/ SequenceFlushes
               /\ x.at \in {"trees", "emit"} /\ x.this = Top.this /\ x.fn = Len(fns) + 1
      <3>1. work \in Seq(Seq(Instruction)) /\ Len(work) = Len(fns) /\ work' = Append(work, <<>>)
        BY <2>7, Starting DEF IInv, TypeOK
      <3>2. x.fn \in 1..Len(work') /\ x.fn \notin 1..FunctionsMade
        BY <2>7, <3>1 DEF FunctionsMade
      <3>3. Len(work'[x.fn]) = 0
        BY <3>2, NextWork
      <3> QED BY <1>2, <3>3
    <2> QED BY <1>2, <2>1, <2>2, <2>4, <2>5, <2>6, <2>7, NextEmissions
  <1> QED BY <1>2 DEF WorkBehind, Frames, Emissions, Behind, LeftOf, Below

LEMMA NextPerlOrder ==
  ASSUME IInv, [Next]_vars
  PROVE  PerlOrder'
  <1>1. \A f \in 1..Len(work) : \A i, j \in 1..Len(work[f]) :
          i < j /\ {work[f][i].what, work[f][j].what} \subseteq {"run", "load", "fadd"} =>
            ~ RunsBefore(work[f][j].term, work[f][i].term)
    BY DEF IInv, PerlOrder
  <1>2. ASSUME NEW f \in 1..Len(work'), NEW i \in 1..Len(work'[f]), NEW j \in 1..Len(work'[f]), i < j,
               {work'[f][i].what, work'[f][j].what} \subseteq {"run", "load", "fadd"}
        PROVE  ~ RunsBefore(work'[f][j].term, work'[f][i].term)
    <2>1. f \in 1..FunctionsMade /\ FunctionsMade = Len(work)
      <3>1. FunctionsMade = Len(work)
        BY DEF IInv, TypeOK, FunctionsMade
      <3>2. f \in 1..FunctionsMade \/ Len(work'[f]) = 0
        BY NextWork
      <3>3. CASE Len(work'[f]) = 0
        BY <3>3
      <3> QED BY <3>1, <3>2, <3>3
    <2>2. CASE work'[f] = work[f]
      BY <1>1, <1>2, <2>1, <2>2
    <2>3. ASSUME f = Top.fn, NEW list, Inserts(list), work'[f] = work[f] \o list
          PROVE  ~ RunsBefore(work'[f][j].term, work'[f][i].term)
      <3> DEFINE w == work[f]
                 v == work'[f]
      <3>1. /\ calls # <<>> /\ Top.at \in Emissions /\ list \in Seq(Instruction)
            /\ w \in Seq(Instruction)
            /\ \A m \in 1..Len(list) :
                 /\ Top.at # "trees" => list[m].term = Top.term
                 /\ Top.at = "trees" => list[m].what \notin {"run", "load", "fadd"}
        BY <2>1, <2>3, WorkIsTyped DEF Inserts
      <3>2. \A k \in 1..Len(v) : \/ k \in 1..Len(w) /\ v[k] = w[k]
                                 \/ k > Len(w) /\ \E m \in 1..Len(list) : v[k] = list[m]
        <4>1. w \in Seq(Instruction) /\ list \in Seq(Instruction) /\ v = w \o list
          BY <2>3, <3>1
        <4> HIDE DEF w, v
        <4>2. ASSUME NEW k \in 1..Len(v)
              PROVE  \/ k \in 1..Len(w) /\ v[k] = w[k]
                     \/ k > Len(w) /\ \E m \in 1..Len(list) : v[k] = list[m]
          BY <4>1, ConcatAt
        <4> QED BY <4>2
      <3>3. Top.term \in Paths /\ \A k \in 1..Len(w) : w[k].term \in Paths
        BY <2>1, <3>1, Here, WorkIsTyped, TermsArePaths
      <3>4. \A k \in 1..Len(w) : Behind(w[k].term, Top)
        <4>1. Len(calls) \in Frames /\ calls[Len(calls)] = Top
          BY <3>1, Here, TopAndOuter DEF Frames, Top
        <4> QED BY <2>3, <3>1, <4>1 DEF IInv, WorkBehind
      <3>5. Len(w) \in Nat /\ i \in Nat /\ j \in Nat /\ i \in 1..Len(v) /\ j \in 1..Len(v)
        BY <1>2, <3>1
      <3>6. \A k \in 1..Len(w) : Top.at # "trees" =>
              LeftOf(w[k].term, Top.term) \/ Below(w[k].term, Top.term)
        <4> SUFFICES ASSUME NEW k \in 1..Len(w), Top.at # "trees"
                     PROVE  LeftOf(w[k].term, Top.term) \/ Below(w[k].term, Top.term)
          OBVIOUS
        <4>1. /\ Append(Top.term, 1) \in Paths /\ Below(Append(Top.term, 1), Top.term)
              /\ Append(Top.term, 2) \in Paths /\ Below(Append(Top.term, 2), Top.term)
          BY <3>3, KidPath
        <4>2. \A n \in {1, 2} : Below(w[k].term, Append(Top.term, n)) => Below(w[k].term, Top.term)
          BY <3>3, <4>1, BelowBelow
        <4> QED BY <3>4, <4>2 DEF Behind
      <3> HIDE DEF w, v
      <3>7. CASE j \in 1..Len(w) /\ v[j] = w[j]
        <4>1. i \in 1..Len(w) /\ v[i] = w[i]
          BY <1>2, <3>2, <3>5, <3>7
        <4> QED BY <1>1, <1>2, <2>1, <3>7, <4>1 DEF w, v
      <3>8. CASE j > Len(w) /\ \E m \in 1..Len(list) : v[j] = list[m]
        <4>1. Top.at # "trees" /\ v[j].term = Top.term
          BY <1>2, <3>1, <3>8 DEF v
        <4>2. CASE i \in 1..Len(w) /\ v[i] = w[i]
          <5>1. ~ RunsBefore(Top.term, w[i].term)
            BY <3>3, <3>6, <4>1, <4>2, NotRunBefore
          <5> QED BY <4>1, <4>2, <5>1 DEF v
        <4>3. CASE \E m \in 1..Len(list) : v[i] = list[m]
          <5>1. v[i].term = Top.term
            BY <3>1, <4>1, <4>3
          <5>2. ~ RunsBefore(Top.term, Top.term)
            BY <3>3, BelowItself, NotRunBefore
          <5> QED BY <4>1, <5>1, <5>2 DEF v
        <4> QED BY <3>2, <3>5, <4>2, <4>3
      <3> QED BY <3>2, <3>5, <3>7, <3>8
    <2> QED BY <2>1, <2>2, <2>3, NextWork
  <1> QED BY <1>2 DEF PerlOrder, RunsBefore, LeftOf, Below

-----------------------------------------------------------------------------
(* Edits *)

\* While there is something to emit the log only grows.
LEMMA LogGrows ==
  ASSUME IInv, [Next]_vars, pc = "emit"
  PROVE  /\ log' = log \/ \E e : log' = Append(log, e)
         /\ log \in Seq(Edits)
  <1>1. log \in Seq(Edits)
    BY DEF IInv, TypeOK
  <1>2. EmitOptree => \E e : log' = Append(log, e)
    BY DEF EmitOptree
  <1>3. JitTreesGoOn => \E e : log' = Append(log, e)
    BY JitTreesGoOnMakes
  <1>4. ~ Apply
    BY DEF Apply
  <1> QED BY <1>1, <1>2, <1>3, <1>4, Changes

LEMMA NextClearedLogged ==
  ASSUME IInv, [Next]_vars
  PROVE  ClearedLogged'
  <1>1. sub' = sub
    BY NextFits
  <1>2. ASSUME pc' = "emit", NEW id \in cleared'
        PROVE  \E i \in 1..Len(log'), p, q \in Terms :
                 /\ log'[i].kind = "detach" /\ log'[i].by = OpOf(p)
                 /\ id = OpOf(q) /\ Below(q, p)
    <2>1. pc = "emit" /\ calls # <<>>
      BY <1>2, NextCalls
    <2>2. \A k \in 1..Len(log) : k \in 1..Len(log') /\ log'[k] = log[k]
      <3> HIDE DEF Edits
      <3>1. CASE log' = log
        BY <3>1
      <3>2. ASSUME NEW e, log' = Append(log, e)
            PROVE  \A k \in 1..Len(log) : k \in 1..Len(log') /\ log'[k] = log[k]
        BY <2>1, <3>2, LogGrows
      <3> QED BY <2>1, <3>1, <3>2, LogGrows
    <2>3. CASE id \in cleared
      <3>1. PICK k \in 1..Len(log), p \in Terms, q \in Terms :
              /\ log[k].kind = "detach" /\ log[k].by = OpOf(p)
              /\ id = OpOf(q) /\ Below(q, p)
        BY <2>1, <2>3 DEF IInv, ClearedLogged
      <3> QED BY <2>2, <3>1
    <2>4. CASE id \notin cleared
      <3>1. EmitOptree
        BY <1>2, <2>4, Changes
      <3>2. /\ log' = Append(log, Detach(OpOf(Top.term))) /\ id \in Exits(Top.term)
            /\ Top.at = "kids"
        BY <1>2, <2>4, <3>1 DEF EmitOptree, Goes, At
      <3>3. PICK q \in Terms : id = OpOf(q) /\ Below(q, Top.term)
        BY <2>1, <3>2, Here, ExitsAreOps DEF CallWhole
      <3> DEFINE e == Detach(OpOf(Top.term))
      <3>4. e.kind = "detach" /\ e.by = OpOf(Top.term)
        BY DEF Detach
      <3> HIDE DEF e, Edits
      <3>5. Len(log) + 1 \in 1..Len(log') /\ log'[Len(log) + 1] = e
        BY <2>1, <3>2, LogGrows DEF e
      <3> QED BY <2>1, <3>3, <3>4, <3>5, Here
    <2> QED BY <2>3, <2>4
  <1> QED BY <1>1, <1>2 DEF ClearedLogged, Terms, OpOf, Upto, Below

-----------------------------------------------------------------------------
(* The first state *)

\* There is an op, or the root, that is the nearest above a term.
LEMMA AboveIs ==
  ASSUME IsTree(sub), NEW p \in Terms, p # <<>>
  PROVE  /\ Above(p) \in Ops \union {Root}
         /\ Above(p) # Root => /\ Kind(Above(p)) # "statement" /\ Below(p, Above(p))
                              /\ Len(Above(p)) < Len(p)
         /\ \A n \in 0..(Len(p) - 1) :
              /\ HasOp(Upto(p, n)) /\ Kind(Upto(p, n)) # "statement" /\ OpOf(Upto(p, n)) = Upto(p, n)
              => n <= Len(Above(p))
  <1> DEFINE Over(n) == LET q == Upto(p, n)
                        IN n = 0 \/ (HasOp(q) /\ Kind(q) # "statement" /\ OpOf(q) = q)
             over == {n \in 0..(Len(p) - 1) : Over(n)}
             last == CHOOSE n \in over : \A m \in over : m <= n
  <1>1. p \in Paths /\ Len(p) \in Nat \ {0}
    BY TermsArePaths DEF Paths
  <1>2. \E n \in over : \A m \in over : m <= n
    <2> DEFINE gaps == {g \in Nat : \E n \in over : g = Len(p) - n}
    <2>1. 0 \in over
      BY <1>1
    <2>2. over \subseteq 0..(Len(p) - 1)
      OBVIOUS
    <2> HIDE DEF over
    <2>3. Len(p) \in gaps
      BY <1>1, <2>1
    <2>4. gaps \subseteq Nat /\ gaps # {}
      BY <2>3
    <2>5. PICK g \in gaps : \A h \in gaps : <<h, g>> \notin OpToRel(<, Nat)
      BY <2>4, NatLessThanWellFounded, WFMin
    <2>6. PICK n \in over : g = Len(p) - n
      OBVIOUS
    <2>7. ASSUME NEW m \in over
          PROVE  m <= n
      <3>1. Len(p) - m \in gaps /\ Len(p) - m \in Nat /\ g \in Nat
        BY <1>1, <2>2
      <3>2. ~ (Len(p) - m < g)
        BY <2>5, <3>1 DEF OpToRel
      <3> QED BY <1>1, <2>2, <2>6, <3>2
    <2> QED BY <2>7
  <1>3. last \in over /\ \A m \in over : m <= last
    <2> HIDE DEF over
    <2> QED BY <1>2
  <1>4. Upto(p, 0) = <<>>
    BY <1>1 DEF Upto, Paths
  <1>5. /\ Upto(p, last) \in Ops \union {Root}
        /\ Upto(p, last) # Root => /\ Kind(Upto(p, last)) # "statement"
                                  /\ Below(p, Upto(p, last)) /\ Len(Upto(p, last)) < Len(p)
    <2>1. last \in 0..(Len(p) - 1) /\ Over(last)
      BY <1>3
    <2> HIDE DEF last
    <2>2. CASE last = 0
      BY <1>4, <2>2 DEF Root
    <2>3. CASE last # 0
      <3>1. /\ HasOp(Upto(p, last)) /\ OpOf(Upto(p, last)) = Upto(p, last)
            /\ Kind(Upto(p, last)) # "statement"
        BY <2>1, <2>3
      <3>2. Upto(p, last) \in Terms
        BY <2>1 DEF IsTree, Terms
      <3>3. PICK n \in Nat : n = last /\ n < Len(p)
        BY <1>1, <2>1
      <3>4. Len(Upto(p, n)) = n /\ \A i \in 1..n : Upto(p, n)[i] = p[i]
        <4>1. \A i \in 1..n : p[i] \in Nat \ {0}
          BY <1>1, <3>3 DEF Paths
        <4> QED BY <4>1, SubSeqProperties DEF Upto
      <3>5. Below(p, Upto(p, n)) /\ Len(Upto(p, n)) < Len(p)
        BY <1>1, <3>3, <3>4 DEF Below
      <3> QED BY <3>1, <3>2, <3>3, <3>5 DEF Ops
    <2> QED BY <2>2, <2>3
  <1>6. ASSUME NEW n \in 0..(Len(p) - 1), HasOp(Upto(p, n)), Kind(Upto(p, n)) # "statement",
               OpOf(Upto(p, n)) = Upto(p, n)
        PROVE  n <= Len(Upto(p, last))
    <2>1. n \in over
      BY <1>6
    <2>2. n <= last /\ last \in 0..(Len(p) - 1)
      <3> HIDE DEF last
      <3>1. last \in 0..(Len(p) - 1)
        BY <1>3
      <3> QED BY <1>3, <2>1, <3>1
    <2> HIDE DEF last
    <2>3. PICK m \in Nat : m = last /\ m < Len(p)
      BY <1>1, <2>2
    <2>4. Len(Upto(p, m)) = m
      <3>1. \A i \in 1..m : p[i] \in Nat \ {0}
        BY <1>1, <2>3 DEF Paths
      <3> QED BY <3>1, SubSeqProperties DEF Upto
    <2> QED BY <2>2, <2>3, <2>4
  <1>7. Above(p) = Upto(p, last)
    BY DEF Above
  <1> QED BY <1>5, <1>6, <1>7

LEMMA InitInv ==
  ASSUME Init
  PROVE  IInv
  <1>1. IsTree(sub)
    BY SubsAssumption DEF Init
  <1>2. <<>> \in Terms /\ Kind(<<>>) = "candidates"
    BY <1>1, TermsArePaths DEF IsTree, Terms, Kind
  <1> DEFINE c == Process(1, <<>>)
  <1>3. calls = <<c>> /\ subtrees = <<<<>>>> /\ pc = "emit" /\ ok
    BY DEF Init
  <1>4. /\ value = "none" /\ log = <<>> /\ cleared = {} /\ fns = <<>> /\ cur = 0
        /\ work = <<>> /\ ran = <<>> /\ jits = <<>> /\ failed = {}
        /\ up = [op \in Ops |-> Above(op)]
    BY DEF Init
  <1>5. /\ c.at = "process" /\ c.this = 1 /\ c.term = <<>> /\ c.queue = Kids(<<>>)
        /\ c \in CallsUpTo(1, 0)
    <2>1. Kids(<<>>) \in Seq(Terms)
      BY <1>1, <1>2, KidsOf
    <2> QED BY <1>2, <2>1 DEF Process, CallsUpTo
  <1> HIDE DEF c
  <1>6. /\ Len(calls) = 1 /\ calls # <<>> /\ Top = c /\ Frames = {1} /\ calls[1] = c
    BY <1>3 DEF Top, Frames
  <1>7. Len(subtrees) = 1 /\ subtrees[1] = <<>> /\ Len(fns) = 0
    BY <1>3, <1>4
  <1>8. calls \in Seq(Calls)
    <2>1. Calls = CallsUpTo(1, 0)
      BY <1>7, CallsAre
    <2> QED BY <1>3, <1>5, <2>1
  <1>9. Stack(calls)
    <2>1. CallWhole(c)
      BY <1>1, <1>2, <1>5, WholeQueue DEF CallWhole
    <2> QED BY <1>5, <1>6, <2>1 DEF Stack
  <1>10. /\ Ops \subseteq DOMAIN up
         /\ \A id \in DOMAIN up : up[id] \in DOMAIN up \union {Root, Loose, Freed}
    BY <1>1, <1>4, OpsAreTerms, AboveIs
  <1>11. TypeOK
    <2>1. subtrees \in Seq(Seq(Ops))
      BY <1>3
    <2>2. /\ fns \in Seq(Seq(Instruction)) /\ work \in Seq(Seq(Instruction))
          /\ ran \in Seq(Seq(Ops)) /\ Len(work) = Len(fns) /\ Len(ran) = Len(fns)
          /\ cur \in 0..Len(fns) /\ failed \subseteq 1..Len(fns)
      BY <1>4
    <2>3. log \in Seq(Edits) /\ cleared \subseteq Ops
      BY <1>4
    <2>4. jits \in Seq([fn : 1..Len(fns), kids : Seq(Ops)])
      BY <1>4
    <2>5. /\ pc \in {"emit", "apply", "done", "croaked", "crashed"}
          /\ pc \in {"emit", "crashed"} <=> calls # <<>>
          /\ value \in {"none", "double", "integer", "scalar"} /\ ok \in BOOLEAN
      BY <1>3, <1>4, <1>6 DEF Init
    <2> QED BY <1>5, <1>6, <1>7, <1>8, <1>10, <2>1, <2>2, <2>3, <2>4, <2>5 DEF TypeOK
  <1>12. SubtreesRun /\ OwnsWhatItRuns
    BY <1>4, <1>5, <1>6 DEF SubtreesRun, OwnsWhatItRuns, Emissions
  <1>13. ValuesExplained /\ FailureExplained /\ NullTypeExplained
    BY <1>3, <1>5, <1>6 DEF ValuesExplained, FailureExplained, NullTypeExplained
  <1>14. WorkBehind /\ PerlOrder /\ ClearedLogged
    BY <1>4, <1>5, <1>6 DEF WorkBehind, PerlOrder, ClearedLogged, Emissions
  <1> QED BY <1>1, <1>9, <1>11, <1>12, <1>13, <1>14 DEF IInv

LEMMA NextInv ==
  ASSUME IInv, [Next]_vars
  PROVE  IInv'
  BY NextType, NextSubtreesRun, NextValues, NextFailure, NextNullType, NextWorkBehind,
     NextPerlOrder, NextClearedLogged DEF IInv

-----------------------------------------------------------------------------
\* The whole invariant, for every candidate list, however deep: each call finds what
\* the one that made it has promised, across the nested Emitters and whatever
\* fails on the way.
THEOREM EmitInvariant == Spec => []IInv
  <1>1. Init => IInv
    BY InitInv
  <1>2. IInv /\ [Next]_vars => IInv'
    BY NextInv
  <1> QED BY <1>1, <1>2, PTL DEF Spec

\* _jit_emit and what it calls keep their variables in range: the log names ops of
\* the sub and JIT ops made, and an Emitter between two trees has no subtrees.
THEOREM EmitTypeCorrect == Spec => []TypeOK
  <1>1. IInv => TypeOK
    BY DEF IInv
  <1> QED BY <1>1, EmitInvariant, PTL

\* _jit_trees links below each JIT op the trees that its function runs, all of them
\* and no other, in that order, whatever Emitters were nested in between.
THEOREM OwnsWhatItRunsCorrect == Spec => []OwnsWhatItRuns
  <1>1. IInv => OwnsWhatItRuns
    BY DEF IInv
  <1> QED BY <1>1, EmitInvariant, PTL

\* _jit_emit does the work of a function in the order in which perl runs the ops.
THEOREM PerlOrderCorrect == Spec => []PerlOrder
  <1>1. IInv => PerlOrder
    BY DEF IInv
  <1> QED BY <1>1, EmitInvariant, PTL

\* _jit_clear_op_next clears no next pointer that no edit of the log accounts for.
THEOREM ClearedLoggedCorrect == Spec => []ClearedLogged
  <1>1. IInv => ClearedLogged
    BY DEF IInv
  <1> QED BY <1>1, EmitInvariant, PTL

\* _jit_emit_binop dereferences the null type of an operand in no sub but one that
\* adds something without a value.
THEOREM NullTypeExplainedCorrect == Spec => []NullTypeExplained
  <1>1. IInv => NullTypeExplained
    BY DEF IInv
  <1> QED BY <1>1, EmitInvariant, PTL
=============================================================================
