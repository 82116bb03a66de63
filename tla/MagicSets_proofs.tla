-------------------------- MODULE MagicSets_proofs --------------------------
(***************************************************************************)
(* The magic program, started from the goal, for every rule set, goal and  *)
(* order of the worklist: it says of the goal nothing that the rules do    *)
(* not say and, when every call has its arguments bound, all they say.     *)
(***************************************************************************)
EXTENDS MagicCorrectness, AdornProgram_proofs

(***************************************************************************)
(* What adorn_rule makes, literal by literal.                              *)
(***************************************************************************)

\* The literals of an adorned rule are those of the rule in the order of its sip.
HasOrder(r, c, h, op, o, n) ==
    /\ n >= 1 /\ o \in [1 .. n -> DOMAIN c.body] /\ DOMAIN r.body = 1 .. n
    /\ \A i \in 1 .. n :
          r.body[i] = Renamed(AdornBody(h, op, c.body, o, ignoring, c.body[o[i]]))
    /\ r.head.ad = h.ad /\ r.head.args = h.args

LEMMA AdornRuleLiterals ==
    ASSUME NEW c, IsRule(c), NEW a, IsAtom(a), HeadsRule(a, c),
           NEW h, h = [c.head EXCEPT !.ad = a.ad],
           NEW out \in AdornRule(c, h, a.op, ignoring)
    PROVE  \E o \in SipOrders(h, c.body, ignoring), n \in Nat :
              HasOrder(out.adorned, c, h, a.op, o, n)
<1> DEFINE Body(o, l) == AdornBody(h, a.op, c.body, o, ignoring, l)
<1> DEFINE Adorn(o) == [head |-> Renamed(h),
                        body |-> Map(LAMBDA i : Renamed(Body(o, c.body[i])), o)]
           Left(o)  == [c EXCEPT !.body = Map(LAMBDA l :
                            IF IsAdorned(Body(o, l)) THEN l ELSE Renamed(l), @)]
<1>0. PICK o \in SipOrders(h, c.body, ignoring) : out = [adorned |-> Adorn(o), left |-> Left(o)]
  BY Zenon DEF AdornRule
<1>1. out.adorned = Adorn(o)
  <2> HIDE DEF Adorn, Left
  <2> QED  BY <1>0
<1>2. PICK n \in Nat : n >= 1 /\ o \in [1 .. n -> DOMAIN c.body]
  BY OrderCovers DEF IsRule
<1> DEFINE s == [i \in 1 .. n |-> Renamed(Body(o, c.body[o[i]]))]
<1>3. s \o <<>> = s /\ Len(s) = n
  BY AppendNothing
<1>4. out.adorned.body = s /\ out.adorned.head = Renamed(h)
  BY <1>1, <1>2, <1>3 DEF Map
<1>5. Renamed(h).ad = h.ad /\ Renamed(h).args = h.args
  <2>1. IsAdLiteral(c.head)
    BY LiteralIsAdLiteral DEF IsRule
  <2>2. a.ad \in [DOMAIN c.head.args -> {"b", "f"}]
    BY <2>1 DEF HeadsRule, IsAtom, Arity, IsAdLiteral
  <2>3. IsAdLiteral(h)
    BY <2>1, <2>2, Readorned
  <2> QED  BY <2>3, RenamedType
<1>6. DOMAIN s = 1 .. n /\ \A i \in 1 .. n : s[i] = Renamed(Body(o, c.body[o[i]]))
  OBVIOUS
<1> HIDE DEF s
<1>7. HasOrder(out.adorned, c, h, a.op, o, n)
  BY <1>2, <1>4, <1>5, <1>6 DEF HasOrder
<1> QED  BY <1>7

\* What the magic program needs of an adorned rule: below a bound head all derived
\* literals are adorned; an argument is bound by the head or a literal before; and
\* where order matters, negation comes last.
BoundBefore(r, k, v) == v \in Args(r.head) \/ \E j \in 1 .. k - 1 : v \in Args(r.body[j])
IsGuarding(r, k) ==
    /\ BoundHead(r.head) /\ r.body[k].op \in derived => IsAdorned(r.body[k])
    /\ IsAdorned(r.body[k]) => IsDerived(r.body[k].op) \/ ~IsOldName(r.body[k].op)
    /\ \A n \in DOMAIN r.body[k].ad :
          r.body[k].ad[n] = "b" => BoundBefore(r, k, r.body[k].args[n])
Guarding(r) ==
    /\ \A k \in DOMAIN r.body : IsGuarding(r, k)
    /\ ~ignoring => \A j, k \in DOMAIN r.body : r.body[j].naf /\ j < k => r.body[k].naf

LEMMA AdornRuleGuards ==
    ASSUME NEW c, IsRule(c), NEW a, IsAtom(a), HeadsRule(a, c),
           NEW h, h = [c.head EXCEPT !.ad = a.ad],
           NEW out \in AdornRule(c, h, a.op, ignoring)
    PROVE  Guarding(out.adorned)
<1> DEFINE r == out.adorned
<1>1. PICK o \in SipOrders(h, c.body, ignoring), n \in Nat : HasOrder(r, c, h, a.op, o, n)
  BY AdornRuleLiterals, Zenon
<1>2. /\ n >= 1 /\ o \in [1 .. n -> DOMAIN c.body] /\ DOMAIN r.body = 1 .. n
      /\ \A i \in 1 .. n :
            r.body[i] = Renamed(AdornBody(h, a.op, c.body, o, ignoring, c.body[o[i]]))
      /\ r.head.ad = h.ad /\ r.head.args = h.args
  BY <1>1, Zenon DEF HasOrder
<1> HIDE DEF r
<1> DEFINE l(i) == c.body[o[i]]
           m(i) == AdornBody(h, a.op, c.body, o, ignoring, l(i))
<1>3. \A i, j \in 1 .. n : Same(l(i), l(j)) => i = j
  <2> DEFINE body == c.body
  <2>1. body \in Seq(ToSet(body)) /\ body # <<>> /\ o \in [1 .. n -> DOMAIN body]
        /\ o \in SipOrders(h, body, ignoring)
    BY <1>2 DEF IsRule
  <2> HIDE DEF body
  <2>2. \A i, j \in 1 .. n : Same(body[o[i]], body[o[j]]) => i = j
    BY <2>1, OrderDistinct
  <2> QED  BY <2>2 DEF body
<1>4. ASSUME NEW i \in 1 .. n
      PROVE  /\ IsLiteral(l(i)) /\ IsAdLiteral(l(i)) /\ l(i).ad = <<>> /\ IsAdLiteral(m(i))
             /\ m(i).op = l(i).op /\ m(i).args = l(i).args /\ m(i).naf = l(i).naf
             /\ r.body[i] = Renamed(m(i))
             /\ r.body[i].args = l(i).args /\ r.body[i].ad = m(i).ad /\ r.body[i].naf = l(i).naf
  <2>1. IsLiteral(l(i))
    BY <1>2 DEF IsRule
  <2>2. r.body[i] = Renamed(m(i))
    BY <1>2
  <2> HIDE DEF l
  <2>3. IsAdLiteral(l(i)) /\ l(i).ad = <<>>
    BY <2>1, LiteralIsAdLiteral
  <2>4. /\ IsAdLiteral(m(i)) /\ m(i).op = l(i).op /\ m(i).args = l(i).args /\ m(i).naf = l(i).naf
    BY <2>3, AdornBodyType
  <2> HIDE DEF m
  <2> QED  BY <2>1, <2>2, <2>3, <2>4, RenamedType
<1>5. ASSUME NEW k \in 1 .. n, BoundHead(r.head), r.body[k].op \in derived
      PROVE  IsAdorned(r.body[k])
  <2>1. BoundHead(h)
    BY <1>2, <1>5 DEF BoundHead
  <2>2. IsDerived(l(k).op)
    BY <1>4, <1>5, RenamedType DEF IsDerived
  <2>3. k \in Incoming(h, c.body, o, l(k))
    BY <1>2, <2>1 DEF Incoming
  <2> DEFINE j == CHOOSE x \in Incoming(h, c.body, o, l(k)) : TRUE
             ad == Bindings(h, a.op, c.body, o, j)
  <2>4. j \in Incoming(h, c.body, o, l(k))
    BY <2>3
  <2>5. c.body[o[j]].args = l(k).args
    BY <2>4 DEF Incoming, Occurrence
  <2>6. m(k) = [l(k) EXCEPT !.ad = ad]
    BY <2>2, <2>3 DEF AdornBody
  <2>7. DOMAIN ad = DOMAIN l(k).args
    BY <2>5 DEF Bindings
  <2> HIDE DEF ad, j
  <2>8. m(k).ad = ad
    <3>1. l(k) = Adorned(l(k).op, l(k).args, l(k).ad, l(k).naf)
      BY <1>4 DEF IsAdLiteral
    <3> HIDE DEF l
    <3> QED  BY <2>6, <3>1 DEF Adorned
  <2>9. 1 \in DOMAIN l(k).args
    BY <1>4, BridgeLen DEF IsAdLiteral
  <2>10. ad # <<>>
    BY <2>7, <2>9
  <2> HIDE DEF m
  <2> QED  BY <1>4, <2>8, <2>10 DEF IsAdorned
<1>6. ASSUME NEW k \in 1 .. n, IsAdorned(r.body[k])
      PROVE  IsDerived(r.body[k].op) \/ ~IsOldName(r.body[k].op)
  <2>1. m(k) # l(k)
    BY <1>4, <1>6 DEF IsAdorned
  <2>2. IsDerived(l(k).op)
    BY <2>1 DEF AdornBody
  <2> HIDE DEF m, l
  <2> QED  BY <1>4, <2>2, RenamedType DEF IsDerived, IsOldName
<1>7. ASSUME NEW k \in 1 .. n, NEW x \in DOMAIN r.body[k].ad, r.body[k].ad[x] = "b"
      PROVE  BoundBefore(r, k, r.body[k].args[x])
  <2> DEFINE v == r.body[k].args[x]
             q == l(k)
  <2>1. q.ad = <<>> /\ q = Adorned(q.op, q.args, q.ad, q.naf) /\ k \in DOMAIN o /\ q = c.body[o[k]]
    BY <1>2, <1>4 DEF IsLiteral
  <2>2. \A j \in DOMAIN o : Same(c.body[o[j]], q) => j = k
    BY <1>2, <1>3
  <2>3. AdornBody(h, a.op, c.body, o, ignoring, q).ad = r.body[k].ad /\ v = q.args[x]
    BY <1>4
  <2> HIDE DEF l, m, q
  <2>4. v \in Passed(h, c.body, o, k)
    BY <1>7, <2>1, <2>2, <2>3, BoundPassed DEF q
  <2>5. v \in FromHead(h) \/ \E j \in 1 .. k - 1 : v \in Args(c.body[o[j]])
    BY <2>4 DEF Passed
  <2>6. FromHead(h) \subseteq Args(h) \/ FromHead(h) \subseteq Distinguished(h)
    BY DEF FromHead
  <2>7. Distinguished(h) \subseteq Args(h)
    <3>1. DOMAIN h.ad = DOMAIN h.args
      <4>1. IsAdLiteral(c.head)
        BY LiteralIsAdLiteral DEF IsRule
      <4>2. a.ad \in [DOMAIN c.head.args -> {"b", "f"}]
        BY <4>1 DEF HeadsRule, IsAtom, Arity, IsAdLiteral
      <4>3. h.ad = a.ad /\ h.args = c.head.args
        BY <4>1, <4>2, Readorned
      <4> QED  BY <4>2, <4>3
    <3> QED  BY <3>1 DEF Distinguished, Args, ToSet
  <2>8. Args(h) = Args(r.head)
    BY <1>2 DEF Args
  <2>9. \A j \in 1 .. k - 1 : Args(c.body[o[j]]) = Args(r.body[j])
    BY <1>4 DEF Args, l
  <2> QED  BY <2>5, <2>6, <2>7, <2>8, <2>9 DEF BoundBefore
<1>8. ASSUME ~ignoring, NEW j \in 1 .. n, NEW k \in 1 .. n, r.body[j].naf, j < k
      PROVE  r.body[k].naf
  <2>1. Len(c.body) > 1
    <3>1. CASE ~(Len(c.body) > 1)
      <4>1. o = <<1>>
        BY <3>1 DEF SipOrders
      <4>2. DOMAIN o = {1} /\ DOMAIN o = 1 .. n
        BY <1>2, <4>1
      <4> QED  BY <1>8, <4>2
    <3> QED  BY <3>1
  <2>2. o \in Accepted(h, c.body, ignoring)
    BY <2>1 DEF SipOrders, FirstOf
  <2>3. NegationLast(c.body, o)
    BY <1>8, <2>2 DEF Accepted
  <2>4. l(j).naf
    BY <1>4, <1>8
  <2>5. l(k).naf
    BY <1>2, <1>8, <2>3, <2>4 DEF NegationLast
  <2> QED  BY <1>4, <2>5
<1> HIDE DEF l, m
<1> QED  BY <1>2, <1>5, <1>6, <1>7, <1>8 DEF Guarding, IsGuarding, r

(***************************************************************************)
(* What is handed over.                                                    *)
(***************************************************************************)

\* An adorned rule that is called for, and calls for what is called for.
IsCopy(r) == RenamedBody(r) /\ \E i \in DOMAIN given.rules : IsVersion(r, given.rules[i])
HasCalls(r, atoms) == Calls(r) \subseteq atoms /\ \E a \in atoms : a.ad = r.head.ad
IsWanted(r, atoms) == Guarding(r) /\ IsCopy(r) /\ HasCalls(r, atoms)
\* One that feeds a hybrid predicate is there for a literal of another.
HasHybrid(r) == \E p \in Hybrid : \E k \in DOMAIN r.body : r.body[k].op \in {p, DerivedName[p]}
HandedMagic(P, atoms) ==
    /\ Atom(AdornLiteral(goal)) \in atoms
    /\ \A r \in P : IsWanted(r, atoms) \/ \E q \in P : IsCopy(q) /\ HasHybrid(q)
MagicInv ==
    /\ Adorning => \A r \in program : Guarding(r) /\ \E a \in collection : a.ad = r.head.ad
    /\ answered # <<>> => HandedMagic(answered.adorned_program, answered.query_atoms)

LEMMA ProcessGuards ==
    ASSUME IInv, MagicInv, Process
    PROVE  MagicInv'
<1> DEFINE a == Head(to_do)
           made == Made(a)
           new == Taken(made)
<1>1. /\ Adorning /\ to_do # <<>> /\ \A i \in DOMAIN rs : made[i] # {}
      /\ Turn(a, new)
      /\ UNCHANGED <<given, derived, goal, ignoring, answered>>
  BY Zenon DEF Process
<1>2. Setting /\ RulesKept /\ Worklist
  BY DEF IInv
<1>3. \A i \in DOMAIN rs : new[i] \in made[i]
  BY <1>1, <1>2, TakenIs
<1>4. a \in collection /\ IsAtom(a)
  BY <1>1, <1>2 DEF Worklist
<1> HIDE DEF new, a
<1>5. ASSUME NEW i \in Hits(a)
      PROVE  Guarding(new[i].adorned) /\ new[i].adorned.head.ad = a.ad
  <2>1. i \in DOMAIN rs /\ HeadsRule(a, rs[i])
    BY DEF Hits
  <2>2. new[i] \in AdornRule(rs[i], [rs[i].head EXCEPT !.ad = a.ad], a.op, ignoring)
    BY <1>2, <1>3, <2>1, MadeIs
  <2>3. IsRule(rs[i])
    BY <1>2, <2>1 DEF RulesKept, IsLeft
  <2>4. Guarding(new[i].adorned)
    BY <1>4, <2>1, <2>2, <2>3, AdornRuleGuards
  <2> QED  BY <1>2, <1>3, <1>4, <2>1, <2>4, MadeType
<1>6. /\ program' = program \cup {new[i].adorned : i \in Unequal(a, new)}
      /\ collection \subseteq collection'
  BY <1>1, Zenon DEF Turn
<1>7. Unequal(a, new) \subseteq Hits(a)
  BY DEF Unequal
<1>8. \A r \in program' : Guarding(r) /\ \E x \in collection' : x.ad = r.head.ad
  BY <1>1, <1>4, <1>5, <1>6, <1>7 DEF MagicInv
<1>9. \A r \in program' : Guarding(r)'
  BY <1>1, <1>8 DEF Guarding, IsGuarding, BoundBefore, IsDerived
<1>10. answered' = <<>>
  BY <1>1 DEF Adorning
<1> QED  BY <1>8, <1>9, <1>10 DEF MagicInv

LEMMA FinishGuards ==
    ASSUME IInv, AnswersInv, MagicInv, Finish
    PROVE  MagicInv'
<1>1. /\ Adorning
      /\ program' = program \cup Bridges(program)
      /\ answered' = [adorned_program |-> program', query_atoms |-> collection]
      /\ UNCHANGED <<given, rs, derived, goal, ignoring, collection, marked, to_do>>
  BY DEF Finish
<1>2. AdornedRules /\ Versions /\ CallsQueued /\ InLoop
  BY <1>1, Zenon DEF IInv, AnswersInv
<1>3. \A r \in program : IsCopy(r)
  BY <1>2 DEF IsCopy, Versions, InLoop
<1>4. \A r \in program : IsWanted(r, collection)
  BY <1>1, <1>2, <1>3 DEF IsWanted, HasCalls, CallsQueued, MagicInv
<1>5. ASSUME NEW r \in Bridges(program) PROVE \E q \in program : IsCopy(q) /\ HasHybrid(q)
  <2>1. PICK p \in Hybrid, q \in program : r \in BridgesFor(p, q)
    BY BridgesIs
  <2>2. PICK k \in DOMAIN q.body : q.body[k].op \in {p, DerivedName[p]}
    BY <2>1 DEF BridgesFor
  <2> QED  BY <1>3, <2>2 DEF HasHybrid
<1>6. HandedMagic(program', collection)
  BY <1>1, <1>2, <1>4, <1>5 DEF HandedMagic, InLoop
<1>7. HandedMagic(answered.adorned_program, answered.query_atoms)'
  <2>1. answered'.adorned_program = program' /\ answered'.query_atoms = collection
    BY <1>1
  <2> QED  BY <1>1, <1>6, <2>1
           DEF HandedMagic, IsWanted, Guarding, IsGuarding, BoundBefore, IsDerived, IsCopy,
               RenamedBody, HasCalls, Calls, DerivedLits
<1>8. ~Adorning'
  BY <1>1 DEF Adorning
<1> QED  BY <1>7, <1>8 DEF MagicInv

THEOREM MagicInvariant == Spec => []MagicInv
<1>1. Init => MagicInv
  BY DEF Init, MagicInv, Adorning
<1>2. IInv /\ AnswersInv /\ MagicInv /\ [Next]_vars => MagicInv'
  <2> SUFFICES ASSUME IInv, AnswersInv, MagicInv, [Next]_vars PROVE MagicInv'
    OBVIOUS
  <2>1. ASSUME NEW g \in given.goals, NEW ignore \in given.modes, Ask(g, ignore)
        PROVE  MagicInv'
    <3>1. program' = {} /\ answered' = <<>>
      BY <2>1 DEF Ask
    <3> QED  BY <3>1 DEF MagicInv
  <2>2. CASE NoOrder
    <3>1. goal' = <<>> /\ answered' = <<>>
      BY <2>2 DEF NoOrder, Adorning
    <3> QED  BY <3>1 DEF MagicInv, Adorning
  <2>3. CASE UNCHANGED vars
    BY <2>3 DEF vars, MagicInv, Adorning, HandedMagic, IsWanted, Guarding, IsGuarding,
                BoundBefore, IsDerived, IsCopy, RenamedBody, HasCalls, Calls, DerivedLits
  <2> QED  BY <2>1, <2>2, <2>3, ProcessGuards, FinishGuards DEF Next
<1> QED  BY <1>1, <1>2, Invariant, AnswersInvariant, PTL DEF Spec

(***************************************************************************)
(* The rules of the magic program.                                         *)
(***************************************************************************)

LEMMA FewHas ==
    ASSUME NEW S, NEW a \in S, NEW b \in S, NEW s
    PROVE  /\ s = <<>> => s \in Seq(S) /\ ToSet(s) = {}
           /\ s = <<a>> => s \in Seq(S) /\ ToSet(s) = {a}
           /\ s = <<a, b>> => s \in Seq(S) /\ ToSet(s) = {a, b}
<1>1. CASE s = <<>>
  BY <1>1 DEF ToSet
<1>2. CASE s = <<a>>
  <2>1. DOMAIN s = {1} /\ s[1] = a /\ s \in Seq(S)
    BY <1>2
  <2>2. ToSet(s) = {a}
    BY <2>1 DEF ToSet
  <2>3. s # <<>> /\ s # <<a, b>>
    BY <1>2
  <2> QED  BY <2>1, <2>2, <2>3
<1>3. CASE s = <<a, b>>
  <2>1. DOMAIN s = {1, 2} /\ s[1] = a /\ s[2] = b /\ s \in Seq(S)
    BY <1>3
  <2>2. ToSet(s) = {a, b}
    BY <2>1 DEF ToSet
  <2>3. s # <<>> /\ s # <<a>>
    BY <1>3
  <2> QED  BY <2>1, <2>2, <2>3
<1> QED  BY <1>1, <1>2, <1>3, Zenon

\* A magic literal has the arguments of the literal, and says so of its fact.
LEMMA MagicInstance ==
    ASSUME NEW l, IsAdLiteral(l), NEW theta
    PROVE  /\ IsAdLiteral(MagicPred(l)) /\ MagicPred(l).args = l.args
           /\ MagicPred(l).naf = FALSE /\ MagicPred(l).op = MagicName[l.op]
           /\ Instance(MagicPred(l), theta) = MagicSeed(Instance(l, theta))
<1> DEFINE m == MagicPred(l)
           x == Instance(m, theta)
           y == Instance(l, theta)
           z == MagicSeed(y)
<1>1. m = Adorned(MagicName[l.op], l.args, <<>>, FALSE)
  BY DEF MagicPred, Lit
<1>2. m.op = MagicName[l.op] /\ m.args = l.args /\ m.naf = FALSE /\ m.ad = <<>>
  BY <1>1 DEF Adorned
<1>3. IsAdLiteral(m)
  BY <1>1, <1>2 DEF IsAdLiteral, IsAdorned
<1> HIDE DEF m
<1>4. IsFact(x) /\ x.op = MagicName[l.op] /\ x.args = y.args
  BY <1>2, <1>3, InstanceIsFact, SameArgs
<1>5. y.op = l.op /\ IsFact(y)
  BY InstanceIsFact
<1> HIDE DEF x, y
<1>6. z = [op |-> MagicName[y.op], args |-> y.args]
  BY DEF MagicSeed, MagicPred, Lit, Adorned, Fact
<1>7. IsFact(z) /\ z.op = MagicName[y.op] /\ z.args = y.args
  BY <1>5, <1>6 DEF IsFact, Fact
<1> HIDE DEF z
<1>8. x = z
  BY <1>4, <1>5, <1>7, SameFact
<1> QED  BY <1>2, <1>3, <1>8 DEF m, x, y, z

\* The literals around those of a rule, and those of the rules for its calls.
MayGuard(r, x) == BoundHead(r.head) /\ x = MagicPred(r.head)
IsCalled(r, k) == IsAdorned(r.body[k]) /\ r.body[k].op \notin NoMagic

LEMMA HeadGuard ==
    ASSUME NEW r, NEW S, MagicPred(r.head) \in S
    PROVE  /\ HeadMagic(r) \in Seq(S)
           /\ \A x : x \in ToSet(HeadMagic(r)) <=> MayGuard(r, x)
<1> DEFINE m == MagicPred(r.head)
<1>1. HeadMagic(r) = IF BoundHead(r.head) THEN <<m>> ELSE <<>>
  BY DEF HeadMagic, HasBound, BoundHead
<1> HIDE DEF m
<1>2. m \in S
  BY DEF m
<1>3. CASE BoundHead(r.head)
  <2>1. HeadMagic(r) \in Seq(S) /\ ToSet(HeadMagic(r)) = {m}
    BY <1>1, <1>2, <1>3, FewHas, Zenon
  <2> QED  BY <1>3, <2>1 DEF MayGuard, m
<1>4. CASE ~BoundHead(r.head)
  <2>1. HeadMagic(r) \in Seq(S) /\ ToSet(HeadMagic(r)) = {}
    BY <1>1, <1>2, <1>4, FewHas, Zenon
  <2> QED  BY <1>4, <2>1 DEF MayGuard
<1> QED  BY <1>3, <1>4

LEMMA GuardedIs ==
    ASSUME NEW r, IsAdRule(r)
    PROVE  /\ Guarded(r).head = r.head
           /\ \A x \in ToSet(Guarded(r).body) :
                 \/ x \in ToSet(r.body)
                 \/ MayGuard(r, x)
                 \/ \E k \in DOMAIN r.body : IsCalled(r, k) /\ x = MagicPred(r.body[k])
           /\ ToSet(r.body) \subseteq ToSet(Guarded(r).body)
<1> DEFINE n == Len(r.body)
           t(k) == IF k \in Positions(r) THEN <<MagicPred(r.body[k]), r.body[k]>>
                                         ELSE <<r.body[k]>>
           s == [k \in 1 .. n |-> t(k)]
           S == ToSet(r.body) \cup {MagicPred(l) : l \in ToSet(r.body)} \cup {MagicPred(r.head)}
           first == IF r.head.op \in NoMagic THEN <<>> ELSE HeadMagic(r)
<1>1. n \in Nat /\ DOMAIN r.body = 1 .. n
  BY DEF IsAdRule
<1>2. Guarded(r) = Clause(r.head, first \o FlattenSeq(s))
  BY <1>1 DEF Guarded
<1>3. Guarded(r).head = r.head /\ Guarded(r).body = first \o FlattenSeq(s)
  BY <1>2 DEF Clause
<1>4. ASSUME NEW k \in 1 .. n
      PROVE  /\ t(k) \in Seq(S) /\ r.body[k] \in ToSet(t(k)) /\ r.body[k] \in ToSet(r.body)
             /\ \A x \in ToSet(t(k)) :
                   x = r.body[k] \/ (IsCalled(r, k) /\ x = MagicPred(r.body[k]))
  <2>1. r.body[k] \in ToSet(r.body)
    BY <1>1 DEF ToSet
  <2> DEFINE l == r.body[k]
             m == MagicPred(l)
  <2>2. l \in S /\ m \in S
    BY <2>1
  <2>3. CASE k \in Positions(r)
    <3>1. t(k) = <<m, l>> /\ IsCalled(r, k)
      BY <2>3 DEF Positions, IsCalled
    <3> HIDE DEF l, m, S, t
    <3>2. t(k) \in Seq(S) /\ ToSet(t(k)) = {m, l}
      BY <2>2, <3>1, FewHas, Zenon
    <3> QED  BY <2>1, <3>1, <3>2 DEF l, m
  <2>4. CASE k \notin Positions(r)
    <3>1. t(k) = <<l>>
      BY <2>4
    <3> HIDE DEF l, m, S, t
    <3>2. t(k) \in Seq(S) /\ ToSet(t(k)) = {l}
      BY <2>2, <3>1, FewHas, Zenon
    <3> QED  BY <2>1, <3>2 DEF l
  <2> QED  BY <2>3, <2>4
<1>5. MagicPred(r.head) \in S
  OBVIOUS
<1> HIDE DEF S, t, n
<1>6. s \in [1 .. n -> Seq(S)] /\ \A k \in 1 .. n : s[k] = t(k)
  BY <1>4
<1> HIDE DEF s
<1>7. /\ FlattenSeq(s) \in Seq(S)
      /\ \A x : x \in ToSet(FlattenSeq(s)) <=> \E k \in 1 .. n : x \in ToSet(s[k])
  BY <1>1, <1>6, FlattenHas
<1>8. first \in Seq(S) /\ \A x \in ToSet(first) : MayGuard(r, x)
  <2>1. first = <<>> => first \in Seq(S) /\ ToSet(first) = {}
    BY <1>5, FewHas, Zenon
  <2>2. first = <<>> \/ first = HeadMagic(r)
    OBVIOUS
  <2> HIDE DEF first
  <2> QED  BY <1>5, <2>1, <2>2, HeadGuard
<1> HIDE DEF first
<1>9. ToSet(first \o FlattenSeq(s)) = ToSet(first) \cup ToSet(FlattenSeq(s))
  BY <1>7, <1>8, ConcatHas
<1>10. ASSUME NEW x \in ToSet(Guarded(r).body)
       PROVE  \/ x \in ToSet(r.body)
              \/ MayGuard(r, x)
              \/ \E k \in DOMAIN r.body : IsCalled(r, k) /\ x = MagicPred(r.body[k])
  <2>1. CASE x \in ToSet(first)
    BY <1>8, <2>1
  <2>2. CASE x \in ToSet(FlattenSeq(s))
    <3>1. PICK k \in 1 .. n : x \in ToSet(s[k])
      BY <1>7, <2>2
    <3>2. x = r.body[k] \/ (IsCalled(r, k) /\ x = MagicPred(r.body[k]))
      BY <1>4, <1>6, <3>1
    <3> QED  BY <1>1, <1>4, <3>2
  <2> QED  BY <1>3, <1>9, <2>1, <2>2
<1>11. ASSUME NEW x \in ToSet(r.body) PROVE x \in ToSet(Guarded(r).body)
  <2>1. PICK k \in 1 .. n : x = r.body[k]
    BY <1>1 DEF ToSet
  <2>2. x \in ToSet(s[k])
    BY <1>4, <1>6, <2>1
  <2> QED  BY <1>3, <1>7, <1>9, <2>2
<1> QED  BY <1>3, <1>10, <1>11

LEMMA MagicBodyIs ==
    ASSUME NEW r, IsAdRule(r), NEW i \in DOMAIN r.body
    PROVE  /\ \A x \in ToSet(MagicBody(r, i)) :
                 \/ MayGuard(r, x)
                 \/ \E k \in 1 .. i - 1 :
                       \/ x = r.body[k]
                       \/ IsCalled(r, k) /\ r.body[k].op \in derived /\ x = MagicPred(r.body[k])
           /\ \A k \in 1 .. i - 1 : r.body[k] \in ToSet(MagicBody(r, i))
           /\ BoundHead(r.head) => MagicPred(r.head) \in ToSet(MagicBody(r, i))
<1> DEFINE n == i - 1
           t(k) == PrevMagic(r.body[k])
           s == [k \in 1 .. n |-> t(k)]
           S == ToSet(r.body) \cup {MagicPred(l) : l \in ToSet(r.body)} \cup {MagicPred(r.head)}
<1>1. n \in Nat /\ \A k \in 1 .. n : k \in DOMAIN r.body
  BY DEF IsAdRule
<1>2. MagicBody(r, i) = HeadMagic(r) \o FlattenSeq(s)
  BY DEF MagicBody
<1>3. ASSUME NEW k \in 1 .. n
      PROVE  /\ t(k) \in Seq(S) /\ r.body[k] \in ToSet(t(k))
             /\ \A x \in ToSet(t(k)) :
                   \/ x = r.body[k]
                   \/ IsCalled(r, k) /\ r.body[k].op \in derived /\ x = MagicPred(r.body[k])
  <2> DEFINE l == r.body[k]
             m == MagicPred(l)
  <2>1. l \in S /\ m \in S
    BY <1>1 DEF ToSet
  <2>2. l.op \in derived /\ HasBound(l) /\ l.op \notin NoMagic
          => IsCalled(r, k) /\ r.body[k].op \in derived
    BY DEF HasBound, IsCalled, IsAdorned
  <2>3. t(k) \in {<<l>>, <<l, l>>}
          \/ (t(k) = <<l, m>> /\ IsCalled(r, k) /\ r.body[k].op \in derived)
    BY <2>2 DEF PrevMagic
  <2> HIDE DEF l, m, S, t
  <2>4. CASE t(k) = <<l>>
    <3>1. t(k) \in Seq(S) /\ ToSet(t(k)) = {l}
      BY <2>1, <2>4, FewHas, Zenon
    <3> QED  BY <3>1 DEF l
  <2>5. CASE t(k) = <<l, l>>
    <3>1. t(k) \in Seq(S) /\ ToSet(t(k)) = {l, l}
      BY <2>1, <2>5, FewHas, Zenon
    <3> QED  BY <3>1 DEF l
  <2>6. CASE t(k) = <<l, m>> /\ IsCalled(r, k) /\ r.body[k].op \in derived
    <3>1. t(k) \in Seq(S) /\ ToSet(t(k)) = {l, m}
      BY <2>1, <2>6, FewHas, Zenon
    <3> QED  BY <2>6, <3>1 DEF l, m
  <2> QED  BY <2>3, <2>4, <2>5, <2>6, Zenon
<1>4. MagicPred(r.head) \in S
  OBVIOUS
<1> HIDE DEF S, t
<1>5. s \in [1 .. n -> Seq(S)] /\ \A k \in 1 .. n : s[k] = t(k)
  BY <1>3
<1> HIDE DEF s, n
<1>6. /\ FlattenSeq(s) \in Seq(S)
      /\ \A x : x \in ToSet(FlattenSeq(s)) <=> \E k \in 1 .. n : x \in ToSet(s[k])
  BY <1>1, <1>5, FlattenHas
<1>7. HeadMagic(r) \in Seq(S) /\ \A x : x \in ToSet(HeadMagic(r)) <=> MayGuard(r, x)
  BY <1>4, HeadGuard
<1>8. ToSet(MagicBody(r, i)) = ToSet(HeadMagic(r)) \cup ToSet(FlattenSeq(s))
  BY <1>2, <1>6, <1>7, ConcatHas
<1>9. \A x \in ToSet(MagicBody(r, i)) :
         \/ MayGuard(r, x)
         \/ \E k \in 1 .. n :
               \/ x = r.body[k]
               \/ IsCalled(r, k) /\ r.body[k].op \in derived /\ x = MagicPred(r.body[k])
  BY <1>3, <1>5, <1>6, <1>7, <1>8
<1>10. \A k \in 1 .. n : r.body[k] \in ToSet(MagicBody(r, i))
  BY <1>3, <1>5, <1>6, <1>8
<1>11. BoundHead(r.head) => MagicPred(r.head) \in ToSet(MagicBody(r, i))
  BY <1>7, <1>8 DEF MayGuard
<1> QED  BY <1>9, <1>10, <1>11 DEF n

\* A rule whose body holds in a model it adds nothing to has its conclusion there,
\* though the substitution be of other variables too.
LEMMA Fires ==
    ASSUME NEW cs, NEW M, Immediate(cs, M) = M, NEW c \in cs, IsAdLiteral(c.head),
           \A l \in ToSet(c.body) : IsAdLiteral(l) /\ l.naf \in BOOLEAN,
           \A v \in VarsOfRule(c) : \E l \in ToSet(c.body) : l.naf = FALSE /\ v \in VarsOf(l),
           NEW theta, VarsOfRule(c) \subseteq DOMAIN theta, DOMAIN theta \subseteq Var,
           \A l \in ToSet(c.body) : Satisfied(l, theta, M)
    PROVE  Instance(c.head, theta) \in M
<1> DEFINE V == VarsOfRule(c)
           part == [v \in V |-> theta[v]]
<1>1. ASSUME NEW l, IsAdLiteral(l), VarsOf(l) \subseteq V
      PROVE  Instance(l, part) = Instance(l, theta)
  <2>1. ASSUME NEW i \in DOMAIN l.args
        PROVE  Value(l.args[i], part) = Value(l.args[i], theta)
    <3>1. l.args[i] \in Var => l.args[i] \in V
      BY <1>1 DEF VarsOf, Args, ToSet
    <3>2. DOMAIN part = V /\ \A v \in V : part[v] = theta[v]
      OBVIOUS
    <3> HIDE DEF part, V
    <3>3. l.args[i] \in DOMAIN part <=> l.args[i] \in DOMAIN theta
      BY <3>1, <3>2 DEF V
    <3> QED  BY <3>2, <3>3 DEF Value
  <2> DEFINE x == Instance(l, part)
             y == Instance(l, theta)
  <2>2. x.args = [i \in DOMAIN l.args |-> Value(l.args[i], part)]
        /\ IsFact(x) /\ x.op = l.op
    BY <1>1, InstanceIs
  <2>3. y.args = [i \in DOMAIN l.args |-> Value(l.args[i], theta)]
        /\ IsFact(y) /\ y.op = l.op
    BY <1>1, InstanceIs
  <2> HIDE DEF x, y, part
  <2>4. x.args = y.args
    BY <2>1, <2>2, <2>3
  <2>5. x = y
    BY <2>2, <2>3, <2>4, SameFact
  <2> QED  BY <2>5 DEF x, y
<1>2. /\ VarsOf(c.head) \subseteq V
      /\ \A k \in DOMAIN c.body : c.body[k] \in ToSet(c.body) /\ VarsOf(c.body[k]) \subseteq V
  BY DEF VarsOfRule, VarsOfAll, ToSet
<1>3. ASSUME NEW l \in ToSet(c.body)
      PROVE  /\ Satisfied(l, part, M)
             /\ Instance(l, part) = Instance(l, theta)
             /\ l.naf = FALSE => Instance(l, theta) \in M
  <2>1. PICK k \in DOMAIN c.body : l = c.body[k]
    BY DEF ToSet
  <2>2. Instance(l, part) = Instance(l, theta)
    BY <1>1, <1>2, <2>1
  <2>3. Satisfied(l, theta, M) /\ l.naf \in BOOLEAN
    OBVIOUS
  <2> HIDE DEF part
  <2> QED  BY <2>2, <2>3, SatisfiedIs
<1>4. ASSUME NEW v \in V PROVE theta[v] \in Terms(M)
  <2>1. PICK l \in ToSet(c.body) : l.naf = FALSE /\ v \in VarsOf(l)
    OBVIOUS
  <2> DEFINE x == Instance(l, theta)
  <2>2. x \in M
    BY <1>3, <2>1
  <2>3. PICK i \in DOMAIN l.args : l.args[i] = v
    BY <2>1 DEF VarsOf, Args, ToSet
  <2>4. x.args = [j \in DOMAIN l.args |-> Value(l.args[j], theta)]
    BY InstanceIs
  <2> HIDE DEF x
  <2>5. i \in DOMAIN x.args /\ x.args[i] = theta[v]
    BY <2>3, <2>4 DEF Value
  <2> QED  BY <2>2, <2>5, TermOf
<1>5. part \in [V -> Terms(M)]
  BY <1>4
<1>6. \A k \in DOMAIN c.body : Satisfied(c.body[k], part, M)
  BY <1>2, <1>3
<1>7. Instance(c.head, part) = Instance(c.head, theta)
  BY <1>1, <1>2
<1> HIDE DEF part
<1>8. part \in BodySolutions(c, M)
  BY <1>5, <1>6, Solves
<1> QED  BY <1>7, <1>8, Concludes

(***************************************************************************)
(* The names, and the facts no rule concludes.                             *)
(***************************************************************************)

MagicReady == Ready(given.facts) /\ MagicInv /\ ~ignoring /\ MagicPosed
UsedNames == {l.op : l \in BodyLiterals(given.rules)} \cup {goal.op}
MagicNames == {MagicName[p] : p \in derived \cup {goal.op}}

\* Without the mode for it there are no hybrid literals.
LEMMA CopyLiteral ==
    ASSUME MagicReady, NEW r, IsAdRule(r), IsCopy(r), NEW k \in DOMAIN r.body
    PROVE  /\ IsAdLiteral(r.body[k]) /\ r.body[k].naf \in BOOLEAN
           /\ r.body[k].op \in UsedNames /\ IsOldName(r.body[k].op) /\ r.body[k].op \notin Hybrid
           /\ r.body[k].naf => r.body[k].op \notin derived
<1> DEFINE m == r.body[k]
<1>1. PICK i \in DOMAIN given.rules : IsVersion(r, given.rules[i])
  BY DEF IsCopy
<1>2. PICK j \in DOMAIN given.rules[i].body :
         /\ Renamed(m).op = Renamed(given.rules[i].body[j]).op
         /\ m.naf = given.rules[i].body[j].naf
  BY <1>1, VersionMatches
<1> DEFINE l == given.rules[i].body[j]
<1>3. Ready(given.facts) /\ ~ignoring /\ MagicPosed
  BY DEF MagicReady
<1>4. IsAdLiteral(l) /\ IsOldName(l.op) /\ l.naf \in BOOLEAN /\ l \in BodyLiterals(given.rules)
  BY <1>3, OldNames, NamesUsed
<1>5. IsAdLiteral(m) /\ m.op \notin Hybrid
  BY DEF IsAdRule, IsCopy, RenamedBody
<1>6. l.op \notin Hybrid /\ (l.naf => l.op \notin derived)
  BY <1>3, <1>4 DEF Ready, WellPosed, MagicPosed
<1>7. Renamed(m).op = Renamed(l).op /\ m.naf = l.naf
  BY <1>2
<1> HIDE DEF l, m
<1>8. m.op = l.op
  BY <1>4, <1>5, <1>6, <1>7, RenamedType
<1> QED  BY <1>4, <1>5, <1>6, <1>7, <1>8 DEF m, UsedNames

LEMMA Copies ==
    ASSUME MagicReady, NEW r \in answered.adorned_program
    PROVE  /\ IsAdRule(r) /\ IsWanted(r, answered.query_atoms)
           /\ \A k \in DOMAIN r.body :
                 /\ IsAdLiteral(r.body[k]) /\ r.body[k].naf \in BOOLEAN
                 /\ r.body[k].op \in UsedNames /\ IsOldName(r.body[k].op)
                 /\ r.body[k].op \notin Hybrid
                 /\ r.body[k].naf => r.body[k].op \notin derived
                 /\ IsAdorned(r.body[k]) => r.body[k].op \in derived
<1> DEFINE P == answered.adorned_program
<1>1. /\ \A q \in P : IsAdRule(q)
      /\ IsWanted(r, answered.query_atoms) \/ \E q \in P : IsCopy(q) /\ HasHybrid(q)
  BY ReadyIs DEF MagicReady, Handed, MagicInv, HandedMagic, Ready
<1>2. ASSUME NEW q \in P, IsCopy(q), HasHybrid(q) PROVE FALSE
  <2>1. PICK p \in Hybrid : \E k \in DOMAIN q.body : q.body[k].op \in {p, DerivedName[p]}
    BY <1>2 DEF HasHybrid
  <2>2. PICK k \in DOMAIN q.body : q.body[k].op \in {p, DerivedName[p]}
    BY <2>1
  <2>3. IsOldName(q.body[k].op) /\ q.body[k].op \notin Hybrid
    BY <1>1, <1>2, CopyLiteral
  <2> QED  BY <2>2, <2>3 DEF IsOldName
<1>3. IsWanted(r, answered.query_atoms) /\ IsAdRule(r)
  BY <1>1, <1>2
<1>4. ASSUME NEW k \in DOMAIN r.body
      PROVE  /\ IsAdLiteral(r.body[k]) /\ r.body[k].naf \in BOOLEAN
             /\ r.body[k].op \in UsedNames /\ IsOldName(r.body[k].op)
             /\ r.body[k].op \notin Hybrid
             /\ r.body[k].naf => r.body[k].op \notin derived
  BY <1>3, CopyLiteral DEF IsWanted
<1>5. ASSUME NEW k \in DOMAIN r.body, IsAdorned(r.body[k]) PROVE r.body[k].op \in derived
  <2>1. IsGuarding(r, k)
    BY <1>3 DEF IsWanted, Guarding
  <2> QED  BY <1>4, <1>5, <2>1 DEF IsGuarding, IsDerived
<1> QED  BY <1>3, <1>4, <1>5

\* What the adorned program knows of a predicate that is not derived was given.
LEMMA BaseFact ==
    ASSUME MagicReady, NEW f \in AdornedModel(given.facts), f.op \notin derived, f.op \notin Hybrid,
           IsOldName(f.op)
    PROVE  f \in given.facts
<1>1. Ready(given.facts)
  BY DEF MagicReady
<1>2. f \in RulesModel(given.facts)
  <2>1. f \in BothNames(given.facts)
    BY <1>1, NoMore
  <2> QED  BY <1>1, <2>1, KnownIs DEF IsOldName
<1>3. ASSUME f.op \in Heads(given.rules) PROVE FALSE
  <2>1. PICK i \in DOMAIN given.rules : f.op = given.rules[i].head.op
    BY <1>3 DEF Heads
  <2>2. Renamed(given.rules[i].head).op \in derived
    BY <1>1 DEF Ready, WellPosed
  <2>3. IsAdLiteral(given.rules[i].head)
    BY <1>1, OldNames
  <2>4. Renamed(given.rules[i].head).op = f.op
    BY <2>1, <2>3, RenamedType
  <2> QED  BY <2>2, <2>4
<1> QED  BY <1>1, <1>2, <1>3, ModelFacts

\* The rules are safe, and so are their versions.
LEMMA CopySafe ==
    ASSUME MagicReady, NEW r \in answered.adorned_program, NEW v \in VarsOfRule(r)
    PROVE  \E k \in DOMAIN r.body : r.body[k].naf = FALSE /\ v \in VarsOf(r.body[k])
<1>1. PICK i \in DOMAIN given.rules : IsVersion(r, given.rules[i])
  BY Copies DEF IsWanted, IsCopy
<1> DEFINE c == given.rules[i]
<1>2. /\ VarsOfRule(r) = VarsOfRule(c)
      /\ \A k \in DOMAIN c.body : \E j \in DOMAIN r.body :
            /\ Renamed(r.body[j]).op = Renamed(c.body[k]).op
            /\ r.body[j].args = c.body[k].args /\ r.body[j].naf = c.body[k].naf
  BY <1>1, VersionMatches
<1>3. IsSafeBody(c) /\ \A k \in DOMAIN c.body : c.body[k].naf \in BOOLEAN
  BY OldNames DEF MagicReady, Ready, WellPosed
<1> HIDE DEF c
<1>4. PICK k \in DOMAIN c.body : c.body[k].naf = FALSE /\ v \in VarsOf(c.body[k])
  BY <1>2, <1>3 DEF IsSafeBody, VarsOfRule
<1>5. PICK j \in DOMAIN r.body : r.body[j].args = c.body[k].args /\ r.body[j].naf = c.body[k].naf
  BY <1>2
<1> QED  BY <1>4, <1>5 DEF VarsOf, Args

(***************************************************************************)
(* What the magic program says.                                            *)
(***************************************************************************)

MagicFacts == given.facts \cup {MagicSeed(goal)}
\* A fact of a magic predicate, or one the adorned program has too.
SoundFacts == {f \in MagicModel : f.op \in MagicNames \/ f \in AdornedModel(given.facts)}

LEMMA SeedIs ==
    ASSUME MagicReady
    PROVE  MagicFacts \subseteq MagicModel /\ MagicFacts \subseteq SoundFacts
<1>1. MagicFacts \subseteq MagicModel
  BY FactsInModel, RoundsAssumption DEF MagicModel, MagicFacts
<1>2. MagicSeed(goal).op = MagicName[goal.op]
  BY DEF MagicSeed, MagicPred, Lit, Adorned, Fact
<1>3. given.facts \subseteq AdornedModel(given.facts)
  BY ReadyIs DEF MagicReady
<1> QED  BY <1>1, <1>2, <1>3 DEF MagicNames, MagicFacts, SoundFacts

\* The rule itself, behind magic literals, concludes what the adorned program has.
LEMMA GuardedSound ==
    ASSUME MagicReady, NEW r \in answered.adorned_program,
           NEW J \in SUBSET SoundFacts, MagicFacts \subseteq J,
           NEW theta \in BodySolutions(Guarded(r), J)
    PROVE  Instance(r.head, theta) \in AdornedModel(given.facts)
<1> DEFINE c == Guarded(r)
<1>1. /\ IsAdRule(r)
      /\ \A k \in DOMAIN r.body :
            /\ IsAdLiteral(r.body[k]) /\ r.body[k].naf \in BOOLEAN
            /\ r.body[k].op \in UsedNames /\ IsOldName(r.body[k].op) /\ r.body[k].op \notin Hybrid
            /\ r.body[k].naf => r.body[k].op \notin derived
  BY Copies
<1>2. c.head = r.head /\ ToSet(r.body) \subseteq ToSet(c.body)
  BY <1>1, GuardedIs
<1>3. /\ theta \in [VarsOfRule(c) -> Terms(J)]
      /\ \A i \in DOMAIN c.body : Satisfied(c.body[i], theta, J)
  BY Solves
<1> HIDE DEF c
<1>4. ASSUME NEW k \in DOMAIN r.body
      PROVE  Satisfied(r.body[k], theta, J) /\ VarsOf(r.body[k]) \subseteq VarsOfRule(c)
  <2>1. r.body[k] \in ToSet(c.body)
    BY <1>2 DEF ToSet
  <2>2. PICK i \in DOMAIN c.body : c.body[i] = r.body[k]
    BY <2>1 DEF ToSet
  <2> QED  BY <1>3, <2>2 DEF VarsOfRule, VarsOfAll
<1>5. VarsOfRule(r) \subseteq DOMAIN theta /\ DOMAIN theta \subseteq Var
  <2>1. VarsOf(r.head) \subseteq VarsOfRule(c)
    BY <1>2 DEF VarsOfRule
  <2>2. DOMAIN theta = VarsOfRule(c)
    BY <1>3
  <2>3. VarsOfRule(c) \subseteq Var
    BY DEF VarsOfRule, VarsOfAll, VarsOf
  <2> QED  BY <1>4, <2>1, <2>2, <2>3 DEF VarsOfRule, VarsOfAll
<1>6. ASSUME NEW k \in DOMAIN r.body PROVE Satisfied(r.body[k], theta, AdornedModel(given.facts))
  <2> DEFINE m == r.body[k]
             x == Instance(m, theta)
  <2>1. IsFact(x) /\ x.op = m.op
    BY <1>1, InstanceIsFact
  <2>2. Satisfied(m, theta, J) /\ m.naf \in BOOLEAN /\ m.op \in UsedNames
    BY <1>1, <1>4
  <2>3. m.op \notin MagicNames
    BY <2>2 DEF UsedNames, MagicNames, MagicReady, MagicPosed
  <2>4. CASE m.naf = FALSE
    <3>1. x \in J
      BY <2>2, <2>4, SatisfiedIs
    <3>2. x \in AdornedModel(given.facts)
      BY <2>1, <2>3, <3>1 DEF SoundFacts
    <3> QED  BY <2>4, <3>2, SatisfiedIs
  <2>5. CASE m.naf = TRUE
    <3>1. x \notin given.facts
      BY <2>2, <2>5, SatisfiedIs DEF MagicFacts
    <3>2. m.op \notin derived /\ IsOldName(m.op) /\ m.op \notin Hybrid
      BY <1>1, <2>5
    <3>3. x \notin AdornedModel(given.facts)
      BY <2>1, <3>1, <3>2, BaseFact
    <3> QED  BY <2>5, <3>3, SatisfiedIs
  <2> QED  BY <2>2, <2>4, <2>5
<1>7. \A v \in VarsOfRule(r) : \E l \in ToSet(r.body) : l.naf = FALSE /\ v \in VarsOf(l)
  BY CopySafe DEF ToSet
<1>8. \A l \in ToSet(r.body) :
         IsAdLiteral(l) /\ l.naf \in BOOLEAN /\ Satisfied(l, theta, AdornedModel(given.facts))
  BY <1>1, <1>6 DEF ToSet
<1>9. Immediate(answered.adorned_program, AdornedModel(given.facts)) = AdornedModel(given.facts)
  BY ReadyIs DEF MagicReady
<1>10. IsAdLiteral(r.head)
  BY <1>1 DEF IsAdRule
<1> QED  BY <1>5, <1>7, <1>8, <1>9, <1>10, Fires, Zenon

\* The magic program makes facts of magic predicates and of the adorned program.
LEMMA MagicSound ==
    ASSUME MagicReady
    PROVE  MagicModel = SoundFacts
<1> DEFINE P == answered.adorned_program
           Q == MagicProgram(P)
<1>1. ASSUME NEW J \in SUBSET SoundFacts, MagicFacts \subseteq J,
             Immediate(Q, J) \subseteq MagicModel
      PROVE  Immediate(Q, J) \subseteq SoundFacts
  <2> SUFFICES ASSUME NEW x \in Immediate(Q, J), x \notin J
               PROVE  x.op \in MagicNames \/ x \in AdornedModel(given.facts)
    BY <1>1 DEF SoundFacts
  <2>1. PICK c \in Q : \E theta \in BodySolutions(c, J) : x = Instance(c.head, theta)
    BY Concludes
  <2>2. PICK theta \in BodySolutions(c, J) : x = Instance(c.head, theta)
    BY <2>1
  <2>3. PICK r \in P : c \in MagicRules(r) \cup {Guarded(r)}
    BY DEF MagicProgram
  <2>4. IsAdRule(r) /\ \A k \in DOMAIN r.body :
           IsAdLiteral(r.body[k]) /\ (IsAdorned(r.body[k]) => r.body[k].op \in derived)
    BY Copies
  <2>5. CASE c \in MagicRules(r)
    <3>1. PICK i \in Positions(r) : c = Clause(MagicPred(r.body[i]), MagicBody(r, i))
      BY <2>5 DEF MagicRules
    <3>2. i \in DOMAIN r.body /\ IsAdorned(r.body[i])
      BY DEF Positions
    <3> DEFINE m == r.body[i]
    <3>3. c.head = MagicPred(m)
      BY <3>1 DEF Clause
    <3>4. IsAdLiteral(m) /\ m.op \in derived
      BY <2>4, <3>2
    <3> HIDE DEF m
    <3>5. x.op = MagicName[m.op]
      BY <2>2, <3>3, <3>4, MagicInstance, InstanceIsFact
    <3> QED  BY <3>4, <3>5 DEF MagicNames
  <2>6. CASE c = Guarded(r)
    <3>1. c.head = r.head
      BY <2>4, <2>6, GuardedIs
    <3> QED  BY <1>1, <2>2, <2>6, <3>1, GuardedSound
  <2> QED  BY <2>3, <2>5, <2>6
<1> HIDE DEF Q
<1>2. MagicModel = LeastModel(Q, MagicFacts, Rounds)
  BY DEF MagicModel, MagicFacts, Q
<1>3. \A J \in SUBSET SoundFacts :
         MagicFacts \subseteq J /\ Immediate(Q, J) \subseteq LeastModel(Q, MagicFacts, Rounds)
             => Immediate(Q, J) \subseteq SoundFacts
  BY <1>1, <1>2
<1>4. MagicModel \subseteq SoundFacts
  BY <1>2, <1>3, SeedIs, ModelInduction, RoundsAssumption
<1> QED  BY <1>4 DEF SoundFacts

(***************************************************************************)
(* Where every call has its arguments bound, it says all that is called    *)
(* for.                                                                    *)
(***************************************************************************)

BoundReady == MagicReady /\ MagicSuffices /\ AllBound(answered.query_atoms)
\* What is called for, if it holds, is in the magic model.
CalledFacts == {f \in AdornedModel(given.facts) : MagicSeed(f) \in MagicModel => f \in MagicModel}

LEMMA AllArgsBound ==
    ASSUME BoundReady, NEW r \in answered.adorned_program
    PROVE  /\ BoundHead(r.head)
           /\ \A k \in DOMAIN r.body : IsAdorned(r.body[k]) =>
                 /\ r.body[k].naf = FALSE
                 /\ \A n \in DOMAIN r.body[k].args : r.body[k].ad[n] = "b" /\ n \in DOMAIN r.body[k].ad
<1>1. /\ IsAdRule(r) /\ HasCalls(r, answered.query_atoms)
      /\ \A k \in DOMAIN r.body :
            /\ IsAdLiteral(r.body[k]) /\ r.body[k].naf \in BOOLEAN
            /\ r.body[k].naf => r.body[k].op \notin derived
            /\ IsAdorned(r.body[k]) => r.body[k].op \in derived
  BY Copies DEF BoundReady, IsWanted
<1>2. \A a \in answered.query_atoms : \A i \in DOMAIN a.ad : a.ad[i] = "b"
  BY DEF BoundReady, AllBound
<1>3. BoundHead(r.head)
  <2>1. PICK a \in answered.query_atoms : a.ad = r.head.ad
    BY <1>1 DEF HasCalls
  <2>2. 1 \in DOMAIN r.head.ad
    BY <1>1, BridgeLen DEF IsAdRule, IsAdLiteral, Arity
  <2>3. a.ad[1] = "b"
    BY <1>2, <2>1, <2>2
  <2> QED  BY <2>1, <2>2, <2>3 DEF BoundHead
<1>4. ASSUME NEW k \in DOMAIN r.body, IsAdorned(r.body[k])
      PROVE  /\ r.body[k].naf = FALSE
             /\ \A n \in DOMAIN r.body[k].args :
                   r.body[k].ad[n] = "b" /\ n \in DOMAIN r.body[k].ad
  <2> DEFINE m == r.body[k]
  <2>1. m \in DerivedLits(r)
    BY <1>1, <1>4 DEF DerivedLits, IsDerived
  <2>2. Atom(m) \in Calls(r)
    BY <1>4, <2>1 DEF Calls
  <2>3. Atom(m) \in answered.query_atoms /\ Atom(m).ad = m.ad
    BY <1>1, <2>2 DEF HasCalls, Atom
  <2>4. IsAdLiteral(m) /\ Arity(m)
    BY <1>1, <1>4 DEF IsAdLiteral
  <2>5. \A n \in DOMAIN m.ad : m.ad[n] = "b"
    BY <1>2, <2>3
  <2>6. m.naf = FALSE
    BY <1>1, <1>4
  <2> HIDE DEF m
  <2>7. DOMAIN m.ad = DOMAIN m.args
    BY <2>4 DEF IsAdLiteral, Arity
  <2> QED  BY <2>5, <2>6, <2>7 DEF m
<1> QED  BY <1>3, <1>4

\* The literal at k holds in the magic model, where it has to, and is called for.
IsDone(r, theta, k) ==
    r.body[k].naf = FALSE =>
        /\ Instance(r.body[k], theta) \in MagicModel
        /\ IsAdorned(r.body[k]) => MagicSeed(Instance(r.body[k], theta)) \in MagicModel

\* What a rule's substitution covers.
LEMMA VarsCovered ==
    ASSUME NEW r, NEW theta, NEW K, theta \in [VarsOfRule(r) -> K]
    PROVE  /\ DOMAIN theta \subseteq Var /\ VarsOf(r.head) \subseteq DOMAIN theta
           /\ \A k \in DOMAIN r.body : VarsOf(r.body[k]) \subseteq DOMAIN theta
<1>1. DOMAIN theta = VarsOfRule(r)
  OBVIOUS
<1> QED  BY <1>1 DEF VarsOfRule, VarsOfAll, VarsOf

LEMMA MagicVars ==
    ASSUME NEW l, IsAdLiteral(l)
    PROVE  VarsOf(MagicPred(l)) = VarsOf(l) /\ Args(MagicPred(l)) = Args(l)
BY MagicInstance DEF VarsOf, Args

\* A literal is called for when what stands to its left holds.
LEMMA CallsOn ==
    ASSUME BoundReady, NEW r \in answered.adorned_program,
           NEW K, NEW theta \in [VarsOfRule(r) -> K],
           MagicSeed(Instance(r.head, theta)) \in MagicModel,
           NEW k \in DOMAIN r.body, IsAdorned(r.body[k]),
           \A j \in 1 .. k - 1 : IsDone(r, theta, j)
    PROVE  MagicSeed(Instance(r.body[k], theta)) \in MagicModel
<1> DEFINE Q == MagicProgram(answered.adorned_program)
           b == MagicBody(r, k)
           c == Clause(MagicPred(r.body[k]), b)
           g == MagicPred(r.head)
<1>1. /\ IsAdRule(r) /\ Guarding(r) /\ IsAdLiteral(r.head)
      /\ \A j \in DOMAIN r.body : IsAdLiteral(r.body[j]) /\ r.body[j].naf \in BOOLEAN
  BY Copies DEF BoundReady, IsWanted, IsAdRule
<1>2. /\ BoundHead(r.head) /\ r.body[k].naf = FALSE
      /\ \A n \in DOMAIN r.body[k].args : r.body[k].ad[n] = "b" /\ n \in DOMAIN r.body[k].ad
  BY AllArgsBound
<1>3. \A j \in 1 .. k - 1 : j \in DOMAIN r.body /\ j < k
  BY <1>1 DEF IsAdRule
<1>4. \A j \in 1 .. k - 1 : r.body[j].naf = FALSE
  <2>1. \A i, j \in DOMAIN r.body : r.body[i].naf /\ i < j => r.body[j].naf
    BY <1>1 DEF BoundReady, MagicReady, Guarding
  <2> QED  BY <1>1, <1>2, <1>3, <2>1
<1>5. c.head = MagicPred(r.body[k]) /\ c.body = b
  BY DEF Clause
<1>6. /\ \A x \in ToSet(b) : x = g \/ \E j \in 1 .. k - 1 :
             x = r.body[j] \/ (IsCalled(r, j) /\ x = MagicPred(r.body[j]))
      /\ \A j \in 1 .. k - 1 : r.body[j] \in ToSet(b)
      /\ g \in ToSet(b)
  BY <1>1, <1>2, MagicBodyIs DEF MayGuard
<1>7. c \in Q
  <2>1. k \in Positions(r)
    BY DEF Positions, BoundReady, MagicReady, MagicPosed
  <2>2. b # <<>>
    <3>1. ToSet(<<>>) = {}
      BY DEF ToSet
    <3> QED  BY <1>6, <3>1
  <2>3. c \in MagicRules(r)
    BY <2>1, <2>2 DEF MagicRules
  <2> QED  BY <2>3 DEF MagicProgram
<1>8. /\ DOMAIN theta \subseteq Var /\ VarsOf(r.head) \subseteq DOMAIN theta
      /\ \A j \in DOMAIN r.body : VarsOf(r.body[j]) \subseteq DOMAIN theta
  BY VarsCovered
<1> HIDE DEF b, c, g, Q
<1>9. IsAdLiteral(g) /\ g.naf = FALSE /\ VarsOf(g) = VarsOf(r.head) /\ Satisfied(g, theta, MagicModel)
  <2>1. IsAdLiteral(g) /\ g.naf = FALSE /\ Instance(g, theta) = MagicSeed(Instance(r.head, theta))
    BY <1>1, MagicInstance DEF g
  <2> QED  BY <1>1, <2>1, MagicVars, SatisfiedIs DEF g
<1>10. ASSUME NEW j \in 1 .. k - 1
       PROVE  /\ IsAdLiteral(r.body[j]) /\ r.body[j].naf = FALSE
              /\ Satisfied(r.body[j], theta, MagicModel)
  BY <1>1, <1>3, <1>4, SatisfiedIs DEF IsDone
<1>11. ASSUME NEW j \in 1 .. k - 1, IsCalled(r, j), NEW x, x = MagicPred(r.body[j])
       PROVE  /\ IsAdLiteral(x) /\ x.naf = FALSE /\ VarsOf(x) = VarsOf(r.body[j])
              /\ Satisfied(x, theta, MagicModel)
  <2>1. /\ IsAdLiteral(x) /\ x.naf = FALSE
        /\ Instance(x, theta) = MagicSeed(Instance(r.body[j], theta))
    BY <1>10, <1>11, MagicInstance
  <2>2. Instance(x, theta) \in MagicModel
    BY <1>10, <1>11, <2>1 DEF IsDone, IsCalled
  <2> QED  BY <1>10, <1>11, <2>1, <2>2, MagicVars, SatisfiedIs
<1>12. ASSUME NEW x \in ToSet(b)
       PROVE  /\ IsAdLiteral(x) /\ x.naf = FALSE /\ VarsOf(x) \subseteq DOMAIN theta
              /\ Satisfied(x, theta, MagicModel)
  <2>1. CASE x = g
    BY <1>8, <1>9, <2>1
  <2>2. ASSUME NEW j \in 1 .. k - 1, x = r.body[j] \/ (IsCalled(r, j) /\ x = MagicPred(r.body[j]))
        PROVE  /\ IsAdLiteral(x) /\ x.naf = FALSE /\ VarsOf(x) \subseteq DOMAIN theta
               /\ Satisfied(x, theta, MagicModel)
    BY <1>3, <1>8, <1>10, <1>11, <2>2
  <2> QED  BY <1>6, <2>1, <2>2
<1>13. IsAdLiteral(c.head) /\ VarsOf(c.head) = VarsOf(r.body[k])
       /\ Instance(c.head, theta) = MagicSeed(Instance(r.body[k], theta))
  BY <1>1, <1>5, MagicInstance, MagicVars
<1>14. ASSUME NEW v \in VarsOf(r.body[k]) PROVE \E x \in ToSet(b) : v \in VarsOf(x)
  <2>1. PICK n \in DOMAIN r.body[k].args : v = r.body[k].args[n]
    BY DEF VarsOf, Args, ToSet
  <2>2. IsGuarding(r, k)
    BY <1>1 DEF Guarding
  <2>3. BoundBefore(r, k, v)
    BY <1>2, <2>1, <2>2 DEF IsGuarding
  <2>4. v \in Var
    BY DEF VarsOf
  <2> QED  BY <1>6, <1>9, <2>3, <2>4 DEF BoundBefore, VarsOf
<1>15. ASSUME NEW v \in VarsOfRule(c)
       PROVE  v \in DOMAIN theta /\ \E x \in ToSet(b) : x.naf = FALSE /\ v \in VarsOf(x)
  <2>1. v \in VarsOf(r.body[k]) \/ \E x \in ToSet(b) : v \in VarsOf(x)
    BY <1>5, <1>13 DEF VarsOfRule, VarsOfAll, ToSet
  <2>2. PICK x \in ToSet(b) : v \in VarsOf(x)
    BY <1>14, <2>1
  <2> QED  BY <1>12, <2>2
<1>16. Immediate(Q, MagicModel) = MagicModel
  BY DEF BoundReady, MagicSuffices, Q
<1>17. /\ \A l \in ToSet(c.body) : IsAdLiteral(l) /\ l.naf \in BOOLEAN
       /\ \A l \in ToSet(c.body) : Satisfied(l, theta, MagicModel)
       /\ \A v \in VarsOfRule(c) : \E l \in ToSet(c.body) : l.naf = FALSE /\ v \in VarsOf(l)
       /\ VarsOfRule(c) \subseteq DOMAIN theta
  BY <1>5, <1>12, <1>15
<1>18. Instance(c.head, theta) \in MagicModel
  BY <1>7, <1>8, <1>13, <1>16, <1>17, Fires, Zenon
<1> QED  BY <1>13, <1>18

\* From left to right, each literal of the body is called for and holds.
LEMMA BodyDone ==
    ASSUME BoundReady, NEW r \in answered.adorned_program,
           NEW J \in SUBSET CalledFacts, NEW theta \in BodySolutions(r, J),
           MagicSeed(Instance(r.head, theta)) \in MagicModel
    PROVE  \A k \in DOMAIN r.body : IsDone(r, theta, k)
<1> DEFINE n == Len(r.body)
           S == {i \in 0 .. n : \A j \in 1 .. i : IsDone(r, theta, j)}
<1>1. /\ IsAdRule(r) /\ Guarding(r) /\ BoundHead(r.head)
      /\ \A j \in DOMAIN r.body :
            /\ IsAdLiteral(r.body[j]) /\ IsOldName(r.body[j].op) /\ r.body[j].op \notin Hybrid
  BY Copies, AllArgsBound DEF BoundReady, IsWanted
<1>2. n \in Nat /\ DOMAIN r.body = 1 .. n
  BY <1>1 DEF IsAdRule
<1>3. /\ theta \in [VarsOfRule(r) -> Terms(J)]
      /\ \A k \in DOMAIN r.body : Satisfied(r.body[k], theta, J)
  BY Solves
<1>4. MagicReady /\ given.facts \subseteq MagicModel
  BY SeedIs DEF BoundReady, MagicFacts
<1>5. ASSUME NEW k \in 1 .. n, \A j \in 1 .. k - 1 : IsDone(r, theta, j)
      PROVE  IsDone(r, theta, k)
  <2> DEFINE m == r.body[k]
             x == Instance(m, theta)
  <2>1. SUFFICES ASSUME m.naf = FALSE
                 PROVE  x \in MagicModel /\ (IsAdorned(m) => MagicSeed(x) \in MagicModel)
    BY DEF IsDone
  <2>2. x \in J /\ x \in CalledFacts
    <3>1. Satisfied(m, theta, J)
      BY <1>2, <1>3
    <3> QED  BY <2>1, <3>1, SatisfiedIs
  <2>3. CASE IsAdorned(m)
    <3>1. MagicSeed(x) \in MagicModel
      BY <1>2, <1>3, <1>5, <2>3, CallsOn
    <3> HIDE DEF x
    <3> QED  BY <2>2, <3>1 DEF CalledFacts
  <2>4. CASE ~IsAdorned(m)
    <3>1. IsGuarding(r, k)
      BY <1>1, <1>2 DEF Guarding
    <3>2. m.op \notin derived /\ IsOldName(m.op) /\ m.op \notin Hybrid /\ IsAdLiteral(m)
      BY <1>1, <1>2, <2>4, <3>1 DEF IsGuarding
    <3> HIDE DEF m
    <3>3. x.op = m.op
      BY <3>2, InstanceIsFact
    <3> HIDE DEF x
    <3>4. x \in given.facts
      BY <1>4, <2>2, <3>2, <3>3, BaseFact DEF CalledFacts
    <3> QED  BY <1>4, <2>4, <3>4
  <2> QED  BY <2>3, <2>4
<1>6. 0 \in S
  BY <1>2
<1>7. \A k \in 1 .. n : k - 1 \in S => k \in S
  <2> SUFFICES ASSUME NEW k \in 1 .. n, \A j \in 1 .. k - 1 : IsDone(r, theta, j)
               PROVE  \A j \in 1 .. k : IsDone(r, theta, j)
    BY <1>2
  <2>1. IsDone(r, theta, k)
    BY <1>5
  <2> QED  BY <1>2, <2>1
<1>8. 0 .. n \subseteq S
  <2> HIDE DEF S, n
  <2> QED  BY <1>2, <1>6, <1>7, UpTo
<1>9. n \in S
  BY <1>2, <1>8
<1> QED  BY <1>2, <1>9

\* So the rule itself concludes in the magic model what it concludes.
LEMMA GuardedComplete ==
    ASSUME BoundReady, NEW r \in answered.adorned_program,
           NEW J \in SUBSET CalledFacts, given.facts \subseteq J,
           NEW theta \in BodySolutions(r, J),
           MagicSeed(Instance(r.head, theta)) \in MagicModel
    PROVE  Instance(r.head, theta) \in MagicModel
<1> DEFINE Q == MagicProgram(answered.adorned_program)
           c == Guarded(r)
<1>1. /\ IsAdRule(r) /\ IsAdLiteral(r.head)
      /\ \A j \in DOMAIN r.body :
            /\ IsAdLiteral(r.body[j]) /\ r.body[j].naf \in BOOLEAN
            /\ r.body[j].op \in UsedNames /\ IsOldName(r.body[j].op) /\ r.body[j].op \notin Hybrid
            /\ r.body[j].naf => r.body[j].op \notin derived
  BY Copies DEF BoundReady, IsAdRule
<1>2. /\ theta \in [VarsOfRule(r) -> Terms(J)]
      /\ \A k \in DOMAIN r.body : Satisfied(r.body[k], theta, J)
  BY Solves
<1>3. /\ DOMAIN theta \subseteq Var /\ VarsOf(r.head) \subseteq DOMAIN theta
      /\ \A j \in DOMAIN r.body : VarsOf(r.body[j]) \subseteq DOMAIN theta
  BY <1>2, VarsCovered
<1>4. /\ c.head = r.head
      /\ \A x \in ToSet(c.body) :
            \/ x \in ToSet(r.body)
            \/ MayGuard(r, x)
            \/ \E k \in DOMAIN r.body : IsCalled(r, k) /\ x = MagicPred(r.body[k])
      /\ ToSet(r.body) \subseteq ToSet(c.body)
  BY <1>1, GuardedIs
<1>5. c \in Q
  BY DEF MagicProgram
<1> HIDE DEF c, Q
<1>6. \A k \in DOMAIN r.body : IsDone(r, theta, k)
  BY BodyDone
<1>7. ASSUME NEW k \in DOMAIN r.body PROVE Satisfied(r.body[k], theta, MagicModel)
  <2> DEFINE m == r.body[k]
             x == Instance(m, theta)
  <2>1. CASE m.naf = FALSE
    <3>1. x \in MagicModel
      BY <1>6, <2>1 DEF IsDone
    <3> QED  BY <2>1, <3>1, SatisfiedIs
  <2>2. CASE m.naf = TRUE
    <3>1. Satisfied(m, theta, J)
      BY <1>2
    <3>2. x \notin given.facts
      BY <2>2, <3>1, SatisfiedIs
    <3>3. m.op \notin derived /\ IsOldName(m.op) /\ m.op \notin Hybrid /\ m.op \in UsedNames
          /\ IsAdLiteral(m)
      BY <1>1, <2>2
    <3>4. m.op \notin MagicNames
      BY <3>3 DEF UsedNames, MagicNames, BoundReady, MagicReady, MagicPosed
    <3>5. x.op = m.op
      BY <3>3, InstanceIsFact
    <3> HIDE DEF m, x
    <3>6. x \notin AdornedModel(given.facts)
      BY <3>2, <3>3, <3>5, BaseFact DEF BoundReady
    <3>7. x \notin MagicModel
      BY <3>4, <3>5, <3>6, MagicSound DEF BoundReady, SoundFacts
    <3> QED  BY <2>2, <3>7, SatisfiedIs DEF m, x
  <2> QED  BY <1>1, <2>1, <2>2
<1>8. ASSUME NEW l, IsAdLiteral(l), MagicSeed(Instance(l, theta)) \in MagicModel,
             VarsOf(l) \subseteq DOMAIN theta, NEW x, x = MagicPred(l)
      PROVE  /\ IsAdLiteral(x) /\ x.naf = FALSE /\ VarsOf(x) \subseteq DOMAIN theta
             /\ Satisfied(x, theta, MagicModel)
  <2>1. IsAdLiteral(x) /\ x.naf = FALSE /\ Instance(x, theta) = MagicSeed(Instance(l, theta))
        /\ VarsOf(x) = VarsOf(l)
    BY <1>8, MagicInstance, MagicVars
  <2> QED  BY <1>8, <2>1, SatisfiedIs
<1>9. ASSUME NEW x \in ToSet(c.body)
      PROVE  /\ IsAdLiteral(x) /\ x.naf \in BOOLEAN /\ VarsOf(x) \subseteq DOMAIN theta
             /\ Satisfied(x, theta, MagicModel)
  <2>1. CASE x \in ToSet(r.body)
    BY <1>1, <1>3, <1>7, <2>1 DEF ToSet
  <2>2. CASE MayGuard(r, x)
    BY <1>1, <1>3, <1>8, <2>2 DEF MayGuard
  <2>3. ASSUME NEW k \in DOMAIN r.body, IsCalled(r, k), x = MagicPred(r.body[k])
        PROVE  /\ IsAdLiteral(x) /\ x.naf \in BOOLEAN /\ VarsOf(x) \subseteq DOMAIN theta
               /\ Satisfied(x, theta, MagicModel)
    <3>1. r.body[k].naf = FALSE
      BY <2>3, AllArgsBound DEF IsCalled
    <3>2. MagicSeed(Instance(r.body[k], theta)) \in MagicModel
      BY <1>6, <2>3, <3>1 DEF IsDone, IsCalled
    <3> QED  BY <1>1, <1>3, <1>8, <2>3, <3>2
  <2> QED  BY <1>4, <2>1, <2>2, <2>3
<1>10. VarsOfRule(c) \subseteq DOMAIN theta
  BY <1>3, <1>4, <1>9 DEF VarsOfRule, VarsOfAll, ToSet
<1>11. ASSUME NEW v \in VarsOfRule(c)
       PROVE  \E l \in ToSet(c.body) : l.naf = FALSE /\ v \in VarsOf(l)
  <2>1. v \in VarsOfRule(r)
    BY <1>2, <1>10
  <2>2. PICK k \in DOMAIN r.body : r.body[k].naf = FALSE /\ v \in VarsOf(r.body[k])
    BY <2>1, CopySafe DEF BoundReady
  <2> QED  BY <1>4, <2>2 DEF ToSet
<1>12. Immediate(Q, MagicModel) = MagicModel
  BY DEF BoundReady, MagicSuffices, Q
<1>13. IsAdLiteral(c.head)
  BY <1>1, <1>4
<1>14. Instance(c.head, theta) \in MagicModel
  BY <1>3, <1>5, <1>9, <1>10, <1>11, <1>12, <1>13, Fires, Zenon
<1> QED  BY <1>4, <1>14

LEMMA MagicComplete ==
    ASSUME BoundReady
    PROVE  AdornedModel(given.facts) = CalledFacts
<1> DEFINE P == answered.adorned_program
<1>1. given.facts \subseteq CalledFacts
  BY SeedIs, ReadyIs DEF BoundReady, MagicReady, MagicFacts, CalledFacts
<1>2. ASSUME NEW J \in SUBSET CalledFacts, given.facts \subseteq J,
             Immediate(P, J) \subseteq AdornedModel(given.facts)
      PROVE  Immediate(P, J) \subseteq CalledFacts
  <2> SUFFICES ASSUME NEW x \in Immediate(P, J), x \notin J, MagicSeed(x) \in MagicModel
               PROVE  x \in MagicModel
    BY <1>2 DEF CalledFacts
  <2>1. PICK r \in P : \E theta \in BodySolutions(r, J) : x = Instance(r.head, theta)
    BY Concludes
  <2>2. PICK theta \in BodySolutions(r, J) : x = Instance(r.head, theta)
    BY <2>1
  <2> QED  BY <1>2, <2>2, GuardedComplete
<1>3. \A J \in SUBSET CalledFacts :
         given.facts \subseteq J /\ Immediate(P, J) \subseteq LeastModel(P, given.facts, Rounds)
             => Immediate(P, J) \subseteq CalledFacts
  BY <1>2 DEF AdornedModel
<1> HIDE DEF P
<1>4. LeastModel(P, given.facts, Rounds) \subseteq CalledFacts
  BY <1>1, <1>3, ModelInduction, RoundsAssumption
<1> QED  BY <1>4 DEF AdornedModel, P, CalledFacts

(***************************************************************************)
(* The goal's answers.                                                     *)
(***************************************************************************)

\* A call with all arguments bound has no variable: what it asks is a fact.
LEMMA GoalGround ==
    ASSUME BoundReady, NEW theta, DOMAIN theta \subseteq VarsOf(goal)
    PROVE  MagicSeed(Instance(goal, theta)) = MagicSeed(goal)
<1> DEFINE a == AdornLiteral(goal)
           ad == [i \in DOMAIN goal.args |-> IF goal.args[i] \in Var THEN "f" ELSE "b"]
           y == Instance(goal, theta)
<1>1. IsLiteral(goal) /\ IsAdLiteral(goal) /\ Atom(a) \in answered.query_atoms
  BY ReadyIs, GoalName
     DEF BoundReady, MagicReady, Ready, MagicInv, HandedMagic, Handed
<1>2. IsAdLiteral(a) /\ Arity(a) /\ a.args = goal.args
  BY <1>1, AdornLiteralType
<1>3. Atom(a).ad = a.ad
  BY DEF Atom
<1>4. \A i \in DOMAIN a.ad : a.ad[i] = "b"
  BY <1>1, <1>3 DEF BoundReady, AllBound
<1>5. a = [goal EXCEPT !.ad = ad]
  BY DEF AdornLiteral
<1>6. a.ad = ad
  <2>1. goal = Adorned(goal.op, goal.args, goal.ad, goal.naf)
    BY <1>1 DEF IsAdLiteral
  <2> HIDE DEF ad, a
  <2> QED  BY <1>5, <2>1 DEF Adorned
<1>7. \A i \in DOMAIN goal.args : goal.args[i] \notin Var
  BY <1>4, <1>6
<1>8. \A i \in DOMAIN goal.args : Value(goal.args[i], theta) = goal.args[i]
  BY <1>7 DEF Value, VarsOf
<1>9. y.args = [i \in DOMAIN goal.args |-> Value(goal.args[i], theta)] /\ y.op = goal.op
  BY <1>1, InstanceIs
<1>10. goal.args = [i \in DOMAIN goal.args |-> goal.args[i]]
  BY <1>1 DEF IsLiteral
<1> HIDE DEF y
<1>11. y.args = goal.args
  BY <1>8, <1>9, <1>10
<1> QED  BY <1>9, <1>11 DEF MagicSeed, MagicPred, Lit, Adorned, Fact, y

\* The program magic_set_transformation makes, started from the goal, has no answer
\* of the goal that the caller's rules do not have, whatever the order of the worklist;
\* and it has all of them when every call has its arguments bound: where the rules
\* are safe and negation is on predicates that are not declared derived, no_magic is
\* empty, the magic names are new, and enough rounds are given to reach all models.
THEOREM MagicKeepsGoal ==
    Spec => [](WellPosed /\ RoundsSuffice /\ MagicPosed /\ MagicSuffices => MagicAgrees)
<1>1. IInv /\ AnswersInv /\ MagicInv
        => (WellPosed /\ RoundsSuffice /\ MagicPosed /\ MagicSuffices => MagicAgrees)
  <2> SUFFICES ASSUME IInv, AnswersInv, MagicInv, WellPosed, RoundsSuffice, MagicPosed,
                      MagicSuffices, Applies
               PROVE  /\ Solutions(goal, MagicModel) \subseteq Solutions(goal, RulesModel(given.facts))
                      /\ AllBound(answered.query_atoms) =>
                            Solutions(goal, MagicModel) = Solutions(goal, RulesModel(given.facts))
    BY DEF MagicAgrees, RulesModel
  <2>1. Ready(given.facts) /\ MagicReady
    BY GivenReady DEF MagicReady, Applies
  <2>2. /\ IsAdLiteral(goal)
        /\ Solutions(goal, AdornedModel(given.facts)) = Solutions(goal, RulesModel(given.facts))
    BY <2>1, GoalName, AnswersSame
  <2>3. \A K : Solutions(goal, K) =
           {theta \in [VarsOf(goal) -> Terms(K)] : Instance(goal, theta) \in K}
    BY DEF Solutions, Instance
  <2>4. ASSUME NEW theta \in Solutions(goal, MagicModel)
        PROVE  theta \in Solutions(goal, AdornedModel(given.facts))
    <3>1. theta \in [VarsOf(goal) -> Terms(MagicModel)] /\ Instance(goal, theta) \in MagicModel
      BY <2>3
    <3>2. Instance(goal, theta).op = goal.op
      BY <2>2, InstanceIsFact
    <3>3. goal.op \notin MagicNames
      BY <2>1 DEF MagicReady, MagicPosed, MagicNames
    <3>4. Instance(goal, theta) \in AdornedModel(given.facts)
      BY <2>1, <3>1, <3>2, <3>3, MagicSound DEF SoundFacts
    <3>5. theta \in [VarsOf(goal) -> Terms(AdornedModel(given.facts))]
      BY <2>2, <3>1, <3>4, TermsOfSolution
    <3> QED  BY <2>3, <3>4, <3>5
  <2>5. ASSUME AllBound(answered.query_atoms), NEW theta \in Solutions(goal, AdornedModel(given.facts))
        PROVE  theta \in Solutions(goal, MagicModel)
    <3>1. /\ theta \in [VarsOf(goal) -> Terms(AdornedModel(given.facts))]
          /\ Instance(goal, theta) \in AdornedModel(given.facts)
      BY <2>3
    <3>2. BoundReady
      BY <2>1, <2>5 DEF BoundReady
    <3>3. DOMAIN theta \subseteq VarsOf(goal)
      BY <3>1
    <3>4. MagicSeed(Instance(goal, theta)) \in MagicModel
      BY <2>1, <3>2, <3>3, GoalGround, SeedIs DEF MagicFacts
    <3>5. Instance(goal, theta) \in MagicModel
      BY <3>1, <3>2, <3>4, MagicComplete DEF CalledFacts
    <3>6. theta \in [VarsOf(goal) -> Terms(MagicModel)]
      BY <2>2, <3>1, <3>5, TermsOfSolution
    <3> QED  BY <2>3, <3>5, <3>6
  <2> QED  BY <2>2, <2>4, <2>5
<1> QED  BY <1>1, Invariant, AnswersInvariant, MagicInvariant, PTL
=============================================================================
