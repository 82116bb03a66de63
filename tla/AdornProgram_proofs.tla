------------------------ MODULE AdornProgram_proofs ------------------------
(***************************************************************************)
(* The worklist of adorn_program, for every rule set, goal and order of    *)
(* the worklist: no adorned predicate is forgotten, the program that is    *)
(* handed over is closed under the calls of its bodies, and it has the     *)
(* answers of the goal.                                                    *)
(***************************************************************************)
EXTENDS AdornCorrectness, FiniteSetTheorems, WellFoundedInduction, TLAPS

(***************************************************************************)
(* Sequences and literals.                                                 *)
(***************************************************************************)

LEMMA AppendNothing ==
    ASSUME NEW n \in Nat, NEW s, s = [i \in 1 .. n |-> s[i]]
    PROVE  /\ s \o <<>> = s
           /\ s \in Seq(ToSet(s)) /\ Len(s) = n
<1>1. s \in [1 .. n -> ToSet(s)]
  BY DEF ToSet
<1>2. s \in Seq(ToSet(s)) /\ Len(s) = n
  BY <1>1
<1> QED  BY <1>2

\* A sequence ranges over a finite set.
LEMMA RangeFinite ==
    ASSUME NEW S, NEW s \in Seq(S)
    PROVE  IsFiniteSet(ToSet(s)) /\ ToSet(s) \subseteq S
<1>1. DOMAIN s = 1 .. Len(s) /\ Len(s) \in Nat
  OBVIOUS
<1>2. IsFiniteSet(DOMAIN s)
  BY <1>1, FS_Interval
<1>3. s \in Surjection(DOMAIN s, ToSet(s))
  BY <1>1 DEF Surjection, ToSet
<1> QED  BY <1>1, <1>2, <1>3, FS_Surjection DEF ToSet

\* An adorned literal, the atom that stands for its predicate, an adorned rule.
IsAdLiteral(l) ==
    /\ l = Adorned(l.op, l.args, l.ad, l.naf)
    /\ l.args \in Seq(ToSet(l.args)) /\ Len(l.args) \in 1 .. Len(BridgeVars)
    /\ IsAdorned(l) => Arity(l)
IsAtom(a) ==
    /\ a = [op |-> a.op, args |-> a.args, ad |-> a.ad]
    /\ a.args \in Seq(ToSet(a.args)) /\ Len(a.args) \in 1 .. Len(BridgeVars) /\ Arity(a)
IsAdRule(r) ==
    /\ IsAdLiteral(r.head) /\ Arity(r.head)
    /\ r.body \in Seq(ToSet(r.body))
    /\ \A k \in DOMAIN r.body : IsAdLiteral(r.body[k])

LEMMA BridgeLen == Len(BridgeVars) \in Nat
BY ScenariosAssumption

LEMMA LiteralIsAdLiteral ==
    ASSUME NEW l, IsLiteral(l)
    PROVE  IsAdLiteral(l) /\ l.ad = <<>>
BY DEF IsLiteral, IsAdLiteral, IsAdorned, Lit, NotLit, Adorned

LEMMA FunctionOfArgs ==
    ASSUME NEW l, l.args \in Seq(ToSet(l.args)), NEW ad, ad \in [DOMAIN l.args -> {"b", "f"}]
    PROVE  Len(ad) = Len(l.args) /\ ad \in Seq({"b", "f"})
<1>1. DOMAIN l.args = 1 .. Len(l.args) /\ Len(l.args) \in Nat
  OBVIOUS
<1> QED  BY <1>1

\* Other adornments leave the rest of a literal.
LEMMA Readorned ==
    ASSUME NEW l, IsAdLiteral(l), NEW ad, ad \in [DOMAIN l.args -> {"b", "f"}],
           NEW m, m = [l EXCEPT !.ad = ad]
    PROVE  /\ IsAdLiteral(m) /\ Arity(m) /\ m.ad = ad
           /\ m.op = l.op /\ m.args = l.args /\ m.naf = l.naf
<1>1. m = Adorned(l.op, l.args, ad, l.naf)
  BY DEF IsAdLiteral, Adorned
<1>2. m.op = l.op /\ m.args = l.args /\ m.ad = ad /\ m.naf = l.naf
  BY <1>1 DEF Adorned
<1>3. Len(ad) = Len(l.args) /\ ad \in Seq({"b", "f"})
  BY FunctionOfArgs DEF IsAdLiteral
<1> QED  BY <1>1, <1>2, <1>3 DEF IsAdLiteral, Arity

LEMMA AdornLiteralType ==
    ASSUME NEW l, IsAdLiteral(l)
    PROVE  /\ IsAdLiteral(AdornLiteral(l)) /\ Arity(AdornLiteral(l))
           /\ AdornLiteral(l).op = l.op /\ AdornLiteral(l).args = l.args
<1> DEFINE ad == [i \in DOMAIN l.args |-> IF l.args[i] \in Var THEN "f" ELSE "b"]
<1>1. ad \in [DOMAIN l.args -> {"b", "f"}]
  OBVIOUS
<1>2. AdornLiteral(l) = [l EXCEPT !.ad = ad]
  BY DEF AdornLiteral
<1> HIDE DEF ad
<1> QED  BY <1>1, <1>2, Readorned

LEMMA AtomType ==
    ASSUME NEW l, IsAdLiteral(l), Arity(l)
    PROVE  IsAtom(Atom(l)) /\ Atom(l).op = l.op /\ Atom(l).args = l.args /\ Atom(l).ad = l.ad
BY DEF Atom, IsAtom, IsAdLiteral, Arity

\* A literal of a hybrid predicate with the other name is the same otherwise, and
\* is not renamed again.
LEMMA RenamedType ==
    ASSUME NEW l, IsAdLiteral(l)
    PROVE  /\ IsAdLiteral(Renamed(l))
           /\ Renamed(l).args = l.args /\ Renamed(l).ad = l.ad /\ Renamed(l).naf = l.naf
           /\ Renamed(Renamed(l)) = Renamed(l)
           /\ IsAdorned(Renamed(l)) = IsAdorned(l)
           /\ Renamed(l).op \notin Hybrid
           /\ Renamed(l).op = IF l.op \in Hybrid THEN DerivedName[l.op] ELSE l.op
<1>1. CASE l.op \in Hybrid
  <2>1. Renamed(l) = Adorned(DerivedName[l.op], l.args, l.ad, l.naf)
    BY <1>1 DEF Renamed, IsAdLiteral, Adorned
  <2>2. Renamed(l).op = DerivedName[l.op] /\ Renamed(l).args = l.args /\ Renamed(l).ad = l.ad
        /\ Renamed(l).naf = l.naf
    BY <2>1 DEF Adorned
  <2>3. Renamed(l).op \notin Hybrid
    BY <1>1, <2>2, HybridAssumption
  <2>4. IsAdLiteral(Renamed(l))
    BY <2>1, <2>2 DEF IsAdLiteral, IsAdorned, Arity
  <2>5. Renamed(Renamed(l)) = Renamed(l)
    BY <2>3 DEF Renamed
  <2> QED  BY <1>1, <2>2, <2>3, <2>4, <2>5 DEF IsAdorned
<1>2. CASE l.op \notin Hybrid
  BY <1>2 DEF Renamed
<1> QED  BY <1>1, <1>2

LEMMA RenamedLiteral ==
    ASSUME NEW l, IsLiteral(l)
    PROVE  IsLiteral(Renamed(l))
BY LiteralIsAdLiteral, RenamedType DEF IsAdLiteral, IsLiteral

(***************************************************************************)
(* Adorned rules.                                                          *)
(***************************************************************************)

\* An order is a sequence of positions of the body in which each literal occurs.
LEMMA OrderCovers ==
    ASSUME NEW h, NEW body, body \in Seq(ToSet(body)), body # <<>>, NEW ignore,
           NEW o \in SipOrders(h, body, ignore)
    PROVE  \E n \in Nat : /\ n >= 1 /\ o \in [1 .. n -> DOMAIN body]
                          /\ \A j \in DOMAIN body : \E i \in 1 .. n : Same(body[o[i]], body[j])
<1>1. DOMAIN body = 1 .. Len(body) /\ Len(body) \in Nat /\ Len(body) >= 1
  OBVIOUS
<1>2. CASE Len(body) > 1
  <2>1. o \in FullSips(h, body)
    BY <1>2 DEF SipOrders, FirstOf, Accepted
  <2>2. PICK n \in DOMAIN body : o \in [1 .. n -> DOMAIN body]
    BY <2>1 DEF FullSips
  <2>3. IsFullSip(h, body, o)
    BY <2>1 DEF FullSips
  <2>4. n \in Nat /\ n >= 1 /\ DOMAIN o = 1 .. n /\ Len(o) = n
    BY <1>1, <2>2
  <2>5. o[n] \in Rest(body, o, n) /\ Cardinality(Rest(body, o, n)) = 1
    BY <2>3, <2>4 DEF IsFullSip
  <2>6. Rest(body, o, n) \subseteq DOMAIN body
    BY DEF Rest
  <2>7. IsFiniteSet(Rest(body, o, n))
    <3>1. IsFiniteSet(DOMAIN body)
      BY <1>1, FS_Interval
    <3> QED  BY <2>6, <3>1, FS_Subset
  <2>8. Rest(body, o, n) = {o[n]}
    BY <2>5, <2>7, FS_Singleton
  <2>9. ASSUME NEW j \in DOMAIN body
        PROVE  \E i \in 1 .. n : Same(body[o[i]], body[j])
    <3>1. CASE j \in Rest(body, o, n)
      BY <2>4, <2>8, <3>1 DEF Same
    <3>2. CASE j \notin Rest(body, o, n)
      BY <2>4, <3>2 DEF Rest
    <3> QED  BY <3>1, <3>2
  <2> QED  BY <2>2, <2>4, <2>9
<1>3. CASE ~(Len(body) > 1)
  <2>1. o = <<1>>
    BY <1>3 DEF SipOrders
  <2>2. DOMAIN body = 1 .. 1
    BY <1>1, <1>3
  <2>3. o \in [1 .. 1 -> DOMAIN body]
    BY <2>1, <2>2
  <2>4. \A j \in DOMAIN body : Same(body[o[1]], body[j])
    BY <2>1, <2>2 DEF Same
  <2> QED  BY <2>3, <2>4
<1> QED  BY <1>2, <1>3

LEMMA AdornBodyType ==
    ASSUME NEW h, NEW newOp, NEW body, NEW o, NEW ignore, NEW l, IsAdLiteral(l),
           NEW m, m = AdornBody(h, newOp, body, o, ignore, l)
    PROVE  IsAdLiteral(m) /\ m.op = l.op /\ m.args = l.args /\ m.naf = l.naf
<1>1. CASE ~IsDerived(l.op)
  BY <1>1 DEF AdornBody
<1>2. CASE IsDerived(l.op) /\ Incoming(h, body, o, l) # {}
  <2> DEFINE k == CHOOSE i \in Incoming(h, body, o, l) : TRUE
             ad == Bindings(h, newOp, body, o, k)
  <2>1. k \in Incoming(h, body, o, l)
    BY <1>2
  <2>2. body[o[k]].args = l.args
    BY <2>1 DEF Incoming, Occurrence
  <2>3. ad \in [DOMAIN l.args -> {"b", "f"}]
    BY <2>2 DEF Bindings
  <2>4. m = [l EXCEPT !.ad = ad]
    BY <1>2 DEF AdornBody
  <2> HIDE DEF ad
  <2> QED  BY <2>3, <2>4, Readorned
<1>3. CASE IsDerived(l.op) /\ Incoming(h, body, o, l) = {} /\ ignore
  <2>1. AllFree(l) \in [DOMAIN l.args -> {"b", "f"}]
    BY DEF AllFree
  <2>2. m = [l EXCEPT !.ad = AllFree(l)]
    BY <1>3 DEF AdornBody
  <2> QED  BY <2>1, <2>2, Readorned
<1>4. CASE IsDerived(l.op) /\ Incoming(h, body, o, l) = {} /\ ~ignore
  BY <1>4 DEF AdornBody
<1> QED  BY <1>1, <1>2, <1>3, <1>4

\* What is left of a rule: literals may have got their other name.
IsLeft(d, c) ==
    /\ IsRule(d) /\ d.head = c.head /\ Len(d.body) = Len(c.body)
    /\ \A k \in DOMAIN d.body : d.body[k] \in {c.body[k], Renamed(c.body[k])}
\* Equal literals of a body are negated alike.
IsUnambiguous(body) ==
    \A j, k \in DOMAIN body : Same(body[j], body[k]) => body[j].naf = body[k].naf

\* adorn_rule makes a version of the rule under the adornment of its head.
LEMMA AdornRuleType ==
    ASSUME NEW c, IsRule(c), IsUnambiguous(c.body), NEW a, IsAtom(a), HeadsRule(a, c),
           NEW ignore, NEW h, h = [c.head EXCEPT !.ad = a.ad],
           NEW out \in AdornRule(c, h, a.op, ignore)
    PROVE  /\ IsAdRule(out.adorned) /\ out.adorned.head.ad = a.ad
           /\ IsVersion(out.adorned, c)
           /\ IsLeft(out.left, c)
<1> DEFINE Body(o, l) == AdornBody(h, a.op, c.body, o, ignore, l)
<1> DEFINE Adorn(o) == [head |-> Renamed(h),
                        body |-> Map(LAMBDA i : Renamed(Body(o, c.body[i])), o)]
           Left(o)  == [c EXCEPT !.body = Map(LAMBDA l :
                            IF IsAdorned(Body(o, l)) THEN l ELSE Renamed(l), @)]
<1>0. PICK o \in SipOrders(h, c.body, ignore) : out = [adorned |-> Adorn(o), left |-> Left(o)]
  BY Zenon DEF AdornRule
<1>1. out.adorned = Adorn(o) /\ out.left = Left(o)
  <2> HIDE DEF Adorn, Left
  <2> QED  BY <1>0
<1>2. PICK n \in Nat : /\ n >= 1 /\ o \in [1 .. n -> DOMAIN c.body]
                       /\ \A j \in DOMAIN c.body : \E i \in 1 .. n : Same(c.body[o[i]], c.body[j])
  BY OrderCovers DEF IsRule
<1>3. \A k \in DOMAIN c.body : IsLiteral(c.body[k]) /\ IsAdLiteral(c.body[k])
  BY LiteralIsAdLiteral DEF IsRule
<1> DEFINE s == [i \in 1 .. n |-> Renamed(Body(o, c.body[o[i]]))]
<1>4. s \o <<>> = s /\ s \in Seq(ToSet(s)) /\ Len(s) = n
  BY AppendNothing
<1>5. out.adorned.body = s /\ out.adorned.head = Renamed(h)
  BY <1>1, <1>2, <1>4 DEF Map
<1>6. ASSUME NEW i \in 1 .. n
      PROVE  /\ IsAdLiteral(s[i])
             /\ Renamed(s[i]).op = Renamed(c.body[o[i]]).op
             /\ s[i].args = c.body[o[i]].args /\ s[i].naf = c.body[o[i]].naf
  <2> DEFINE l == c.body[o[i]]
             m == Body(o, l)
  <2>1. IsAdLiteral(l)
    BY <1>2, <1>3
  <2>2. IsAdLiteral(m) /\ m.op = l.op /\ m.args = l.args /\ m.naf = l.naf
    <3> HIDE DEF l
    <3> QED  BY <2>1, AdornBodyType
  <2>3. s[i] = Renamed(m)
    OBVIOUS
  <2> HIDE DEF l, m, s
  <2>4. Renamed(s[i]).op = Renamed(l).op
    BY <2>1, <2>2, <2>3, RenamedType
  <2> QED  BY <2>2, <2>3, <2>4, RenamedType DEF l
<1>7. IsAdLiteral(Renamed(h)) /\ Arity(Renamed(h)) /\ Renamed(h).ad = a.ad
      /\ Renamed(h).op = Renamed(c.head).op /\ Renamed(h).args = c.head.args
  <2>1. IsAdLiteral(c.head)
    BY LiteralIsAdLiteral DEF IsRule
  <2>2. a.ad \in [DOMAIN c.head.args -> {"b", "f"}]
    BY <2>1 DEF HeadsRule, IsAtom, Arity, IsAdLiteral
  <2>3. IsAdLiteral(h) /\ Arity(h) /\ h.ad = a.ad /\ h.op = c.head.op /\ h.args = c.head.args
    BY <2>1, <2>2, Readorned
  <2>4. Renamed(h).ad = h.ad /\ Renamed(h).args = h.args /\ IsAdLiteral(Renamed(h))
        /\ Renamed(h).op = IF h.op \in Hybrid THEN DerivedName[h.op] ELSE h.op
    BY <2>3, RenamedType
  <2>5. Renamed(c.head).op = IF c.head.op \in Hybrid THEN DerivedName[c.head.op] ELSE c.head.op
    BY <2>1, RenamedType
  <2>6. Arity(Renamed(h))
    BY <2>3, <2>4 DEF Arity
  <2> QED  BY <2>3, <2>4, <2>5, <2>6
<1> HIDE DEF s, Body
<1>8. IsAdRule(out.adorned)
  BY <1>4, <1>5, <1>6, <1>7 DEF IsAdRule
<1>9. IsVersion(out.adorned, c)
  <2>1. ASSUME NEW x \in AtomsOf(s)
        PROVE  x \in AtomsOf(c.body)
    <3>1. PICK i \in 1 .. n : x = <<Renamed(s[i]).op, s[i].args, s[i].naf>>
      BY <1>4 DEF AtomsOf
    <3> QED  BY <1>2, <1>6, <3>1 DEF AtomsOf
  <2>2. ASSUME NEW x \in AtomsOf(c.body)
        PROVE  x \in AtomsOf(s)
    <3>1. PICK j \in DOMAIN c.body : x = <<Renamed(c.body[j]).op, c.body[j].args, c.body[j].naf>>
      BY DEF AtomsOf
    <3>2. PICK i \in 1 .. n : Same(c.body[o[i]], c.body[j])
      BY <1>2
    <3>3. o[i] \in DOMAIN c.body /\ c.body[o[i]].naf = c.body[j].naf
      BY <1>2, <3>2 DEF IsUnambiguous
    <3>4. Renamed(c.body[o[i]]).op = Renamed(c.body[j]).op
      BY <1>3, <3>2, <3>3, RenamedType DEF Same
    <3>5. x = <<Renamed(s[i]).op, s[i].args, s[i].naf>>
      BY <1>6, <3>1, <3>2, <3>3, <3>4 DEF Same
    <3> QED  BY <1>4, <3>5 DEF AtomsOf
  <2> QED  BY <1>5, <1>7, <2>1, <2>2 DEF IsVersion
<1>10. IsLeft(out.left, c)
  <2> DEFINE t == [i \in 1 .. Len(c.body) |->
                      IF IsAdorned(Body(o, c.body[i])) THEN c.body[i] ELSE Renamed(c.body[i])]
  <2>1. DOMAIN c.body = 1 .. Len(c.body) /\ Len(c.body) \in Nat /\ c.body # <<>>
    BY DEF IsRule
  <2>2. t \o <<>> = t /\ t \in Seq(ToSet(t)) /\ Len(t) = Len(c.body)
    BY <2>1, AppendNothing
  <2>3. out.left = [c EXCEPT !.body = t]
    BY <1>1, <2>1, <2>2 DEF Map
  <2>4. out.left = Clause(c.head, t)
    BY <2>3 DEF IsRule, Clause
  <2>5. out.left.head = c.head /\ out.left.body = t
    BY <2>4 DEF Clause
  <2>6. \A k \in 1 .. Len(c.body) : t[k] \in {c.body[k], Renamed(c.body[k])} /\ IsLiteral(t[k])
    BY <1>3, <2>1, RenamedLiteral
  <2>7. t # <<>>
    BY <2>1, <2>2
  <2> HIDE DEF t
  <2>8. DOMAIN t = 1 .. Len(c.body)
    BY <2>1, <2>2
  <2>9. IsRule(out.left)
    <3>1. IsLiteral(c.head)
      BY DEF IsRule
    <3>2. \A k \in DOMAIN t : IsLiteral(t[k])
      BY <2>6, <2>8
    <3> QED  BY <2>2, <2>4, <2>5, <2>7, <3>1, <3>2 DEF IsRule
  <2> QED  BY <2>2, <2>5, <2>6, <2>8, <2>9 DEF IsLeft
<1> QED  BY <1>5, <1>7, <1>8, <1>9, <1>10

(***************************************************************************)
(* What is passed sideways.                                                *)
(***************************************************************************)

\* No literal is chosen twice for an order.
LEMMA OrderDistinct ==
    ASSUME NEW h, NEW body, body \in Seq(ToSet(body)), body # <<>>, NEW ignore,
           NEW o \in SipOrders(h, body, ignore), NEW n \in Nat, o \in [1 .. n -> DOMAIN body]
    PROVE  \A i, j \in 1 .. n : Same(body[o[i]], body[o[j]]) => i = j
<1>1. CASE Len(body) > 1
  <2>1. o \in FullSips(h, body)
    BY <1>1 DEF SipOrders, FirstOf, Accepted
  <2>2. IsFullSip(h, body, o) /\ DOMAIN o = 1 .. n
    BY <2>1 DEF FullSips
  <2>3. \A i \in 1 .. n : \A k \in 1 .. i - 1 : ~Same(body[o[k]], body[o[i]])
    BY <2>2 DEF IsFullSip, Rest
  <2>4. ASSUME NEW i \in 1 .. n, NEW j \in 1 .. n, i < j
        PROVE  ~Same(body[o[i]], body[o[j]]) /\ ~Same(body[o[j]], body[o[i]])
    <3>1. i \in 1 .. j - 1
      BY <2>4
    <3> QED  BY <2>3, <3>1 DEF Same
  <2> QED  BY <2>4
<1>2. CASE ~(Len(body) > 1)
  <2>1. o = <<1>>
    BY <1>2 DEF SipOrders
  <2>2. DOMAIN o = {1} /\ DOMAIN o = 1 .. n
    BY <2>1
  <2>3. \A i \in 1 .. n : i = 1
    BY <2>2
  <2> QED  BY <2>3
<1> QED  BY <1>1, <1>2

\* A literal gets a "b" from the arc into its own position alone.
LEMMA BoundPassed ==
    ASSUME NEW h, NEW newOp, NEW body, NEW o, NEW ignore, NEW i \in DOMAIN o,
           NEW l, l = body[o[i]], l.ad = <<>>,
           \A j \in DOMAIN o : Same(body[o[j]], l) => j = i,
           NEW k \in DOMAIN AdornBody(h, newOp, body, o, ignore, l).ad,
           l = Adorned(l.op, l.args, l.ad, l.naf),
           AdornBody(h, newOp, body, o, ignore, l).ad[k] = "b"
    PROVE  l.args[k] \in Passed(h, body, o, i)
<1> DEFINE m == AdornBody(h, newOp, body, o, ignore, l)
           j == CHOOSE x \in Incoming(h, body, o, l) : TRUE
<1>0. \A ad : [l EXCEPT !.ad = ad].ad = ad
  BY DEF Adorned
<1>1. m = l => FALSE
  <2>1. m.ad = <<>> => k \notin DOMAIN m.ad
    OBVIOUS
  <2> QED  BY <2>1
<1>2. m = [l EXCEPT !.ad = AllFree(l)] => FALSE
  <2>1. DOMAIN AllFree(l) = DOMAIN l.args /\ \A x \in DOMAIN l.args : AllFree(l)[x] = "f"
    BY DEF AllFree
  <2> QED  BY <1>0, <2>1
<1>3. Incoming(h, body, o, l) # {} /\ m = [l EXCEPT !.ad = Bindings(h, newOp, body, o, j)]
  BY <1>1, <1>2, Zenon DEF AdornBody
<1>4. j = i
  <2>1. j \in Incoming(h, body, o, l)
    BY <1>3
  <2>2. j \in DOMAIN o /\ Same(body[o[j]], l)
    BY <2>1 DEF Incoming, Occurrence, Same
  <2> QED  BY <2>2
<1>5. m.ad = Bindings(h, newOp, body, o, i)
  BY <1>0, <1>3, <1>4
<1> HIDE DEF m, j
<1>6. k \in DOMAIN l.args /\ Bindings(h, newOp, body, o, i)[k] = "b"
  BY <1>5 DEF Bindings, m
<1> QED  BY <1>6 DEF Bindings

LEMMA AdornRuleBinds ==
    ASSUME NEW c, IsRule(c), NEW a, IsAtom(a), HeadsRule(a, c),
           NEW ignore, NEW h, h = [c.head EXCEPT !.ad = a.ad],
           NEW out \in AdornRule(c, h, a.op, ignore)
    PROVE  PassesBindings(out.adorned)
<1> DEFINE Body(o, l) == AdornBody(h, a.op, c.body, o, ignore, l)
<1> DEFINE Adorn(o) == [head |-> Renamed(h),
                        body |-> Map(LAMBDA i : Renamed(Body(o, c.body[i])), o)]
           Left(o)  == [c EXCEPT !.body = Map(LAMBDA l :
                            IF IsAdorned(Body(o, l)) THEN l ELSE Renamed(l), @)]
<1>0. PICK o \in SipOrders(h, c.body, ignore) : out = [adorned |-> Adorn(o), left |-> Left(o)]
  BY Zenon DEF AdornRule
<1>1. out.adorned = Adorn(o)
  <2> HIDE DEF Adorn, Left
  <2> QED  BY <1>0
<1>2. PICK n \in Nat : n >= 1 /\ o \in [1 .. n -> DOMAIN c.body]
  BY OrderCovers DEF IsRule
<1>3. \A i, j \in 1 .. n : Same(c.body[o[i]], c.body[o[j]]) => i = j
  <2> DEFINE body == c.body
  <2>1. body \in Seq(ToSet(body)) /\ body # <<>> /\ o \in [1 .. n -> DOMAIN body]
        /\ o \in SipOrders(h, body, ignore)
    BY <1>2 DEF IsRule
  <2> HIDE DEF body
  <2>2. \A i, j \in 1 .. n : Same(body[o[i]], body[o[j]]) => i = j
    BY <2>1, OrderDistinct
  <2> QED  BY <2>2 DEF body
<1> DEFINE s == [i \in 1 .. n |-> Renamed(Body(o, c.body[o[i]]))]
<1>4. s \o <<>> = s /\ s \in Seq(ToSet(s)) /\ Len(s) = n
  BY AppendNothing
<1>5. out.adorned.body = s /\ out.adorned.head = Renamed(h)
  BY <1>1, <1>2, <1>4 DEF Map
<1>6. ASSUME NEW i \in 1 .. n
      PROVE  /\ IsLiteral(c.body[o[i]]) /\ s[i].args = c.body[o[i]].args
             /\ s[i].ad = Body(o, c.body[o[i]]).ad
  <2> DEFINE l == c.body[o[i]]
             m == Body(o, l)
  <2>1. IsLiteral(l) /\ IsAdLiteral(l)
    BY <1>2, LiteralIsAdLiteral DEF IsRule
  <2>2. IsAdLiteral(m) /\ m.args = l.args
    <3> HIDE DEF l
    <3> QED  BY <2>1, AdornBodyType
  <2>3. s[i] = Renamed(m)
    OBVIOUS
  <2> HIDE DEF l, m, s
  <2> QED  BY <2>1, <2>2, <2>3, RenamedType DEF l, m
<1>7. Distinguished(Renamed(h)) = Distinguished(h)
  <2>1. h.args = c.head.args /\ h.ad = a.ad /\ IsAdLiteral(h)
    <3>1. IsAdLiteral(c.head)
      BY LiteralIsAdLiteral DEF IsRule
    <3>2. a.ad \in [DOMAIN c.head.args -> {"b", "f"}]
      BY <3>1 DEF HeadsRule, IsAtom, Arity, IsAdLiteral
    <3> QED  BY <3>1, <3>2, Readorned
  <2>2. Renamed(h).ad = h.ad /\ Renamed(h).args = h.args
    BY <2>1, RenamedType
  <2> QED  BY <2>2 DEF Distinguished
<1> HIDE DEF s, Body
<1>8. ASSUME Distinguished(h) # {}, NEW i \in 1 .. n, NEW k \in DOMAIN s[i].ad,
             s[i].ad[k] = "b", s[i].args[k] \in Var
      PROVE  s[i].args[k] \in Distinguished(h) \cup VarsOfAll(SubSeq(s, 1, i - 1))
  <2> DEFINE l == c.body[o[i]]
             v == s[i].args[k]
  <2>1. l.ad = <<>> /\ l = Adorned(l.op, l.args, l.ad, l.naf) /\ DOMAIN o = 1 .. n
    <3>1. IsLiteral(l)
      BY <1>6
    <3>2. DOMAIN o = 1 .. n
      BY <1>2
    <3> HIDE DEF l
    <3>3. l.ad = <<>>
      BY <3>1, LiteralIsAdLiteral
    <3> QED  BY <3>1, <3>2, <3>3 DEF IsLiteral
  <2>2. v \in Passed(h, c.body, o, i)
    <3>1. k \in DOMAIN Body(o, l).ad /\ Body(o, l).ad[k] = "b" /\ v = l.args[k]
      BY <1>6, <1>8
    <3>2. \A j \in DOMAIN o : Same(c.body[o[j]], l) => j = i
      BY <1>3, <2>1
    <3> HIDE DEF l, v
    <3> QED  BY <2>1, <3>1, <3>2, BoundPassed DEF Body, l
  <2> HIDE DEF l, v
  <2>3. v \in Distinguished(h) \/ \E j \in 1 .. i - 1 : v \in Args(c.body[o[j]])
    BY <1>8, <2>2 DEF Passed, FromHead
  <2>4. ASSUME NEW j \in 1 .. i - 1, v \in Args(c.body[o[j]])
        PROVE  v \in VarsOfAll(SubSeq(s, 1, i - 1))
    <3>1. j \in 1 .. n
      OBVIOUS
    <3>2. j \in DOMAIN SubSeq(s, 1, i - 1) /\ SubSeq(s, 1, i - 1)[j] = s[j]
      BY <1>4
    <3>3. v \in VarsOf(s[j])
      BY <1>6, <1>8, <2>4, <3>1 DEF VarsOf, Args, v
    <3> QED  BY <3>2, <3>3 DEF VarsOfAll
  <2> QED  BY <2>3, <2>4 DEF v
<1>9. DOMAIN s = 1 .. n
  BY <1>4
<1> QED  BY <1>5, <1>7, <1>8, <1>9 DEF PassesBindings, ArgumentsBound

(***************************************************************************)
(* The worklist.                                                           *)
(***************************************************************************)

CallOf(l) == Atom(IF IsAdorned(l) THEN l ELSE AdornLiteral(l))

LEMMA CallOfType ==
    ASSUME NEW l, IsAdLiteral(l)
    PROVE  IsAtom(CallOf(l)) /\ CallOf(l).op = l.op /\ CallOf(l).args = l.args
<1>1. CASE IsAdorned(l)
  BY <1>1, AtomType DEF CallOf, IsAdLiteral
<1>2. CASE ~IsAdorned(l)
  BY <1>2, AdornLiteralType, AtomType DEF CallOf
<1> QED  BY <1>1, <1>2

LEMMA CallsType ==
    ASSUME NEW r, IsAdRule(r)
    PROVE  IsFiniteSet(Calls(r)) /\ \A a \in Calls(r) : IsAtom(a)
<1>1. DerivedLits(r) \subseteq ToSet(r.body) /\ \A l \in DerivedLits(r) : IsAdLiteral(l)
  BY DEF DerivedLits, ToSet, IsAdRule
<1>2. IsFiniteSet(DerivedLits(r))
  <2>1. IsFiniteSet(ToSet(r.body))
    BY RangeFinite DEF IsAdRule
  <2> QED  BY <1>1, <2>1, FS_Subset
<1> DEFINE g == [l \in DerivedLits(r) |-> CallOf(l)]
<1>3. Calls(r) = {CallOf(l) : l \in DerivedLits(r)}
  BY DEF Calls, CallOf
<1>4. g \in Surjection(DerivedLits(r), Calls(r))
  BY <1>3 DEF Surjection
<1>5. IsFiniteSet(Calls(r))
  BY <1>2, <1>4, FS_Surjection
<1> QED  BY <1>1, <1>3, <1>5, CallOfType

\* A permutation of a finite set has all its elements.
LEMMA PermutationHasAll ==
    ASSUME NEW S, IsFiniteSet(S), NEW s \in SetToSeqs(S)
    PROVE  s \in Seq(S) /\ ToSet(s) = S
<1> DEFINE n == Cardinality(S)
<1>1. n \in Nat
  BY FS_CardinalityType
<1>2. s \in [1 .. n -> S] /\ \A i, j \in 1 .. n : i # j => s[i] # s[j]
  BY DEF SetToSeqs
<1>3. s \in Injection(1 .. n, S)
  BY <1>2 DEF Injection, IsInjective
<1>4. Cardinality(1 .. n) = n
  BY <1>1, FS_Interval
<1>5. s \in Surjection(1 .. n, S)
  BY <1>3, <1>4, FS_Injection
<1>6. ToSet(s) = S
  BY <1>2, <1>5 DEF Surjection, ToSet
<1> QED  BY <1>1, <1>2, <1>6

\* What is not marked is put in front, what was queued stays queued.
LEMMA RefillType ==
    ASSUME NEW all, IsFiniteSet(all), NEW done, NEW rest \in Seq(all),
           NEW out \in Refill(rest, all, done)
    PROVE  out \in Seq(all) /\ ToSet(out) = (all \ done) \cup ToSet(rest)
<1>1. PICK s \in SetToSeqs(all \ done) : out = s \o rest
  BY DEF Refill
<1>2. s \in Seq(all \ done) /\ ToSet(s) = all \ done
  BY <1>1, FS_Subset, PermutationHasAll
<1>3. s \in Seq(all)
  BY <1>2
<1>4. /\ Len(out) = Len(s) + Len(rest) /\ out \in Seq(all)
      /\ \A i \in 1 .. Len(s) : out[i] = s[i]
      /\ \A i \in 1 .. Len(rest) : out[Len(s) + i] = rest[i]
      /\ \A i \in 1 .. Len(out) : i <= Len(s) \/ (i - Len(s) \in 1 .. Len(rest) /\ out[i] = rest[i - Len(s)])
  BY <1>1, <1>3
<1>5. ToSet(out) = ToSet(s) \cup ToSet(rest)
  <2>1. ASSUME NEW x \in ToSet(s)
        PROVE  x \in ToSet(out)
    <3>1. PICK i \in 1 .. Len(s) : x = s[i]
      BY <1>3 DEF ToSet
    <3>2. i \in DOMAIN out /\ out[i] = x
      BY <1>3, <1>4, <3>1
    <3> QED  BY <3>2 DEF ToSet
  <2>2. ASSUME NEW x \in ToSet(rest)
        PROVE  x \in ToSet(out)
    <3>1. PICK i \in 1 .. Len(rest) : x = rest[i]
      BY DEF ToSet
    <3>2. Len(s) + i \in DOMAIN out /\ out[Len(s) + i] = x
      BY <1>3, <1>4, <3>1
    <3> QED  BY <3>2 DEF ToSet
  <2>3. ASSUME NEW x \in ToSet(out)
        PROVE  x \in ToSet(s) \cup ToSet(rest)
    <3>1. PICK i \in 1 .. Len(out) : x = out[i]
      BY <1>4 DEF ToSet
    <3>2. CASE i <= Len(s)
      <4>1. i \in DOMAIN s /\ x = s[i]
        BY <1>3, <1>4, <3>1, <3>2
      <4> QED  BY <4>1 DEF ToSet
    <3>3. CASE i - Len(s) \in DOMAIN rest /\ x = rest[i - Len(s)]
      BY <3>3 DEF ToSet
    <3> QED  BY <1>4, <3>1, <3>2, <3>3
  <2> QED  BY <2>1, <2>2, <2>3
<1> QED  BY <1>2, <1>4, <1>5

LEMMA LeastNumber ==
    ASSUME NEW T, T \subseteq Nat, T # {}
    PROVE  \E x \in T : \A y \in T : x <= y
<1>1. PICK x \in T : \A y \in T : <<y, x>> \notin OpToRel(<, Nat)
  BY NatLessThanWellFounded, WFMin
<1>2. ASSUME NEW y \in T
      PROVE  x <= y
  <2>1. ~(y < x)
    BY <1>1 DEF OpToRel
  <2> QED  BY <2>1
<1> QED  BY <1>2

\* The calls of finitely many rules are finitely many.
LEMMA CallsOfAll ==
    ASSUME NEW I, IsFiniteSet(I), NEW F, \A i \in I : IsAdRule(F[i].adorned)
    PROVE  /\ IsFiniteSet(UNION {Calls(F[i].adorned) : i \in I})
           /\ \A a \in UNION {Calls(F[i].adorned) : i \in I} : IsAtom(a)
<1> DEFINE U == {Calls(F[i].adorned) : i \in I}
           g == [i \in I |-> Calls(F[i].adorned)]
<1>1. g \in Surjection(I, U)
  BY DEF Surjection
<1>2. IsFiniteSet(U)
  BY <1>1, FS_Surjection
<1>3. \A T \in U : IsFiniteSet(T) /\ \A a \in T : IsAtom(a)
  BY CallsType
<1> HIDE DEF U
<1>4. IsFiniteSet(UNION U)
  BY <1>2, <1>3, FS_UNION
<1>5. \A a \in UNION U : IsAtom(a)
  BY <1>3
<1> QED  BY <1>4, <1>5 DEF U

(***************************************************************************)
(* The rules of the caller: what adorn_rule leaves of one is read by the   *)
(* goals after it.                                                         *)
(***************************************************************************)

\* The rules of a scenario.
LEMMA GivenRules ==
    ASSUME given \in Scenarios
    PROVE  /\ \E n \in Nat : DOMAIN given.rules = 1 .. n
           /\ \A i \in DOMAIN given.rules : IsRule(given.rules[i])
           /\ \A l, m \in BodyLiterals(given.rules) :
                 Renamed(l).op = Renamed(m).op /\ l.args = m.args => l.naf = m.naf
<1>1. given.rules \in Seq(ToSet(given.rules))
      /\ \A i \in DOMAIN given.rules : IsRule(given.rules[i])
  BY ScenariosAssumption
<1>2. Len(given.rules) \in Nat /\ DOMAIN given.rules = 1 .. Len(given.rules)
  BY <1>1
<1> QED  BY <1>1, <1>2, NegationAssumption

LEMMA LeftRule ==
    ASSUME NEW c, IsRule(c), NEW d, IsLeft(d, c)
    PROVE  /\ IsRule(d) /\ d.head = c.head /\ DOMAIN d.body = DOMAIN c.body
           /\ \A k \in DOMAIN c.body :
                 /\ IsAdLiteral(c.body[k]) /\ IsAdLiteral(d.body[k])
                 /\ d.body[k] \in {c.body[k], Renamed(c.body[k])}
                 /\ Renamed(d.body[k]) = Renamed(c.body[k])
                 /\ d.body[k].args = c.body[k].args /\ d.body[k].naf = c.body[k].naf
<1>1. DOMAIN d.body = DOMAIN c.body
  BY DEF IsLeft, IsRule
<1>2. ASSUME NEW k \in DOMAIN c.body
      PROVE  /\ IsAdLiteral(c.body[k]) /\ IsAdLiteral(d.body[k])
             /\ d.body[k] \in {c.body[k], Renamed(c.body[k])}
             /\ Renamed(d.body[k]) = Renamed(c.body[k])
             /\ d.body[k].args = c.body[k].args /\ d.body[k].naf = c.body[k].naf
  <2>1. IsAdLiteral(c.body[k]) /\ IsAdLiteral(d.body[k])
    BY <1>1, LiteralIsAdLiteral DEF IsLeft, IsRule
  <2>2. d.body[k] \in {c.body[k], Renamed(c.body[k])}
    BY <1>1 DEF IsLeft
  <2> QED  BY <2>1, <2>2, RenamedType
<1> QED  BY <1>1, <1>2 DEF IsLeft

\* What is left of what is left.
LEMMA LeftAgain ==
    ASSUME NEW c, IsRule(c), NEW d, IsLeft(d, c), NEW e, IsLeft(e, d)
    PROVE  IsLeft(e, c)
<1>1. IsRule(d) /\ IsRule(e) /\ e.head = c.head /\ DOMAIN e.body = DOMAIN c.body
  BY LeftRule
<1>2. Len(e.body) = Len(c.body)
  BY DEF IsLeft
<1>3. ASSUME NEW k \in DOMAIN e.body
      PROVE  e.body[k] \in {c.body[k], Renamed(c.body[k])}
  <2>1. /\ d.body[k] \in {c.body[k], Renamed(c.body[k])}
        /\ Renamed(d.body[k]) = Renamed(c.body[k])
    BY <1>1, LeftRule
  <2>2. e.body[k] \in {d.body[k], Renamed(d.body[k])}
    BY <1>1, LeftRule
  <2> QED  BY <2>1, <2>2
<1> QED  BY <1>1, <1>2, <1>3 DEF IsLeft

\* An adorned version of what is left is one of the rule.
LEMMA LeftVersion ==
    ASSUME NEW c, IsRule(c), NEW d, IsLeft(d, c), NEW q, IsVersion(q, d)
    PROVE  IsVersion(q, c)
<1>1. AtomsOf(d.body) = AtomsOf(c.body)
  <2>1. \A k \in DOMAIN c.body :
           <<Renamed(d.body[k]).op, d.body[k].args, d.body[k].naf>>
             = <<Renamed(c.body[k]).op, c.body[k].args, c.body[k].naf>>
    BY LeftRule
  <2>2. DOMAIN d.body = DOMAIN c.body
    BY LeftRule
  <2> QED  BY <2>1, <2>2 DEF AtomsOf
<1> QED  BY <1>1, LeftRule DEF IsVersion

LEMMA LeftUnambiguous ==
    ASSUME given \in Scenarios, NEW i \in DOMAIN given.rules, NEW d, IsLeft(d, given.rules[i])
    PROVE  IsUnambiguous(d.body)
<1> DEFINE c == given.rules[i]
<1>1. IsRule(c)
  BY GivenRules
<1>2. \A k \in DOMAIN c.body : c.body[k] \in BodyLiterals(given.rules)
  BY DEF BodyLiterals, ToSet
<1>3. ASSUME NEW j \in DOMAIN d.body, NEW k \in DOMAIN d.body, Same(d.body[j], d.body[k])
      PROVE  d.body[j].naf = d.body[k].naf
  <2> HIDE DEF c
  <2>1. j \in DOMAIN c.body /\ k \in DOMAIN c.body
    BY <1>1, LeftRule DEF c
  <2>2. Renamed(d.body[j]).op = Renamed(d.body[k]).op
    BY <1>1, <1>3, <2>1, LeftRule, RenamedType DEF c, Same
  <2>3. Renamed(c.body[j]).op = Renamed(c.body[k]).op /\ c.body[j].args = c.body[k].args
    BY <1>1, <1>3, <2>1, <2>2, LeftRule DEF c, Same
  <2>4. c.body[j].naf = c.body[k].naf
    BY <1>2, <2>1, <2>3, GivenRules
  <2> QED  BY <1>1, <2>1, <2>4, LeftRule DEF c
<1> QED  BY <1>3 DEF IsUnambiguous

\* Of two equal adorned rules each is a version of whatever the other is.
LEMMA SameVersion ==
    ASSUME given \in Scenarios,
           NEW i \in DOMAIN given.rules, NEW j \in DOMAIN given.rules,
           NEW q, IsAdRule(q), IsVersion(q, given.rules[i]),
           NEW r, IsAdRule(r), IsVersion(r, given.rules[j]), SameRule(q, r)
    PROVE  q.head.ad = r.head.ad /\ IsVersion(q, given.rules[j])
<1>1. Atom(q.head) = Atom(r.head)
      /\ [k \in DOMAIN q.body |-> Atom(q.body[k])] = [k \in DOMAIN r.body |-> Atom(r.body[k])]
  BY DEF SameRule
<1>2. q.head.op = r.head.op /\ q.head.args = r.head.args /\ q.head.ad = r.head.ad
  BY <1>1 DEF Atom
<1>3. DOMAIN q.body = DOMAIN r.body
  BY <1>1
<1>4. ASSUME NEW k \in DOMAIN q.body
      PROVE  <<Renamed(q.body[k]).op, q.body[k].args, q.body[k].naf>>
               = <<Renamed(r.body[k]).op, r.body[k].args, r.body[k].naf>>
  <2>1. Atom(q.body[k]) = Atom(r.body[k])
    BY <1>1, <1>3
  <2>2. q.body[k].op = r.body[k].op /\ q.body[k].args = r.body[k].args
    BY <2>1 DEF Atom
  <2>3. Renamed(q.body[k]).op = Renamed(r.body[k]).op
    BY <1>3, <2>2, RenamedType DEF IsAdRule
  <2> DEFINE AtomAt(ls, n) == <<Renamed(ls[n]).op, ls[n].args, ls[n].naf>>
  <2>4. AtomAt(q.body, k) \in AtomsOf(q.body) /\ AtomAt(r.body, k) \in AtomsOf(r.body)
    BY <1>3 DEF AtomsOf
  <2>5. /\ AtomAt(q.body, k) \in AtomsOf(given.rules[i].body)
        /\ AtomAt(r.body, k) \in AtomsOf(given.rules[j].body)
    BY <2>4, Zenon DEF IsVersion
  <2>6. /\ \E n \in DOMAIN given.rules[i].body : AtomAt(q.body, k) = AtomAt(given.rules[i].body, n)
        /\ \E n \in DOMAIN given.rules[j].body : AtomAt(r.body, k) = AtomAt(given.rules[j].body, n)
    BY <2>5, Zenon DEF AtomsOf
  <2>7. PICK n \in DOMAIN given.rules[i].body : AtomAt(q.body, k) = AtomAt(given.rules[i].body, n)
    BY <2>6, Zenon
  <2>8. PICK o \in DOMAIN given.rules[j].body : AtomAt(r.body, k) = AtomAt(given.rules[j].body, o)
    BY <2>6, Zenon
  <2>9. /\ given.rules[i].body[n] \in BodyLiterals(given.rules)
        /\ given.rules[j].body[o] \in BodyLiterals(given.rules)
    BY DEF BodyLiterals, ToSet
  <2>10. q.body[k].naf = r.body[k].naf
    BY <2>2, <2>3, <2>7, <2>8, <2>9, GivenRules
  <2> QED  BY <2>2, <2>3, <2>10
<1>5. AtomsOf(q.body) = AtomsOf(r.body)
  BY <1>3, <1>4 DEF AtomsOf
<1> QED  BY <1>2, <1>5 DEF IsVersion

(***************************************************************************)
(* The inductive invariant.  Closed is about the end of the loop; until    *)
(* then every call of the program so far is in the collection, and each    *)
(* marked predicate has its version of every rule it heads.                *)
(***************************************************************************)

Setting == given \in Scenarios /\ derived \cap Hybrid = {}
RulesKept == /\ DOMAIN rs = DOMAIN given.rules
             /\ \A i \in DOMAIN rs : IsLeft(rs[i], given.rules[i])
Worklist == /\ IsFiniteSet(collection) /\ \A a \in collection : IsAtom(a)
            /\ to_do \in Seq(collection) /\ marked \subseteq collection
AdornedRules == \A r \in program : IsAdRule(r)
Versions == \A r \in program : \E i \in DOMAIN given.rules : IsVersion(r, given.rules[i])
CallsQueued == \A r \in program : Calls(r) \subseteq collection
HasVersion(p, ad, i) == \E q \in p : q.head.ad = ad /\ IsVersion(q, given.rules[i])
MarkedDone == \A a \in marked : \A i \in DOMAIN given.rules :
                 HeadsRule(a, given.rules[i]) => HasVersion(program, a.ad, i)
IInv == /\ Setting /\ RulesKept /\ Worklist /\ NoneForgotten /\ AdornedRules
        /\ Adorning => Versions /\ CallsQueued /\ MarkedDone
        /\ Closed

LEMMA MadeIs ==
    ASSUME Setting, RulesKept, NEW a
    PROVE  /\ DOMAIN Made(a) = DOMAIN rs
           /\ \A i \in DOMAIN rs : Made(a)[i] =
                 IF HeadsRule(a, rs[i])
                   THEN AdornRule(rs[i], [rs[i].head EXCEPT !.ad = a.ad], a.op, ignoring)
                   ELSE {[left |-> rs[i]]}
<1> DEFINE m(i) == IF HeadsRule(a, rs[i])
                     THEN AdornRule(rs[i], [rs[i].head EXCEPT !.ad = a.ad], a.op, ignoring)
                     ELSE {[left |-> rs[i]]}
<1>1. PICK n \in Nat : DOMAIN rs = 1 .. n
  BY GivenRules DEF Setting, RulesKept
<1>2. Made(a) = [i \in 1 .. n |-> m(i)] \o <<>>
  BY <1>1 DEF Made, Map
<1> HIDE DEF m
<1> DEFINE s == [i \in 1 .. n |-> m(i)]
<1>3. s \o <<>> = s
  BY AppendNothing
<1>4. DOMAIN Made(a) = DOMAIN rs /\ \A i \in DOMAIN rs : Made(a)[i] = m(i)
  BY <1>1, <1>2, <1>3
<1> QED  BY <1>4 DEF m

\* What one turn makes of one rule.
LEMMA MadeType ==
    ASSUME Setting, RulesKept, NEW a, IsAtom(a), NEW i \in DOMAIN rs, NEW m \in Made(a)[i]
    PROVE  /\ IsLeft(m.left, given.rules[i])
           /\ HeadsRule(a, rs[i]) = HeadsRule(a, given.rules[i])
           /\ HeadsRule(a, rs[i]) => /\ IsAdRule(m.adorned) /\ m.adorned.head.ad = a.ad
                                     /\ IsVersion(m.adorned, given.rules[i])
<1> DEFINE c == given.rules[i]
<1>1. given \in Scenarios /\ i \in DOMAIN given.rules /\ IsLeft(rs[i], c)
  BY DEF Setting, RulesKept
<1>2. IsRule(c)
  BY <1>1, GivenRules
<1>3. IsRule(rs[i]) /\ rs[i].head = c.head /\ IsUnambiguous(rs[i].body)
  BY <1>1, <1>2, LeftRule, LeftUnambiguous
<1>4. HeadsRule(a, rs[i]) = HeadsRule(a, c)
  BY <1>3 DEF HeadsRule
<1> HIDE DEF c
<1>5. CASE HeadsRule(a, rs[i])
  <2> DEFINE h == [rs[i].head EXCEPT !.ad = a.ad]
  <2>1. m \in AdornRule(rs[i], h, a.op, ignoring)
    BY <1>5, MadeIs
  <2>2. /\ IsAdRule(m.adorned) /\ m.adorned.head.ad = a.ad
        /\ IsVersion(m.adorned, rs[i]) /\ IsLeft(m.left, rs[i])
    BY <1>3, <1>5, <2>1, AdornRuleType
  <2> QED  BY <1>1, <1>2, <1>4, <2>2, LeftAgain, LeftVersion DEF c
<1>6. CASE ~HeadsRule(a, rs[i])
  <2>1. m = [left |-> rs[i]]
    BY <1>6, MadeIs
  <2>2. m.left = rs[i]
    BY <2>1
  <2> QED  BY <1>1, <1>4, <1>6, <2>2 DEF c
<1> QED  BY <1>5, <1>6

\* The turn takes one of what each rule gives; a rule with a body has at most one.
LEMMA TakenIs ==
    ASSUME Setting, RulesKept, NEW a, \A i \in DOMAIN rs : Made(a)[i] # {},
           NEW new, new = Taken(Made(a))
    PROVE  \A i \in DOMAIN rs : new[i] \in Made(a)[i]
<1> DEFINE f(i) == CHOOSE m \in Made(a)[i] : TRUE
<1>1. PICK n \in Nat : DOMAIN rs = 1 .. n
  BY GivenRules DEF Setting, RulesKept
<1>2. DOMAIN Made(a) = 1 .. n
  BY <1>1, MadeIs
<1>3. new = [i \in 1 .. n |-> f(i)] \o <<>>
  BY <1>2 DEF Taken, Map
<1>4. \A i \in DOMAIN rs : f(i) \in Made(a)[i]
  OBVIOUS
<1> HIDE DEF f
<1> DEFINE s == [i \in 1 .. n |-> f(i)]
<1>5. s \o <<>> = s
  BY AppendNothing
<1>6. \A i \in DOMAIN rs : new[i] = f(i)
  BY <1>1, <1>3, <1>5
<1> QED  BY <1>4, <1>6

\* Of equal adorned rules the set keeps the first, so it has one for each.
LEMMA FirstKept ==
    ASSUME NEW a, Hits(a) \subseteq Nat, NEW new, NEW j \in Hits(a)
    PROVE  \E q \in program \cup {new[i].adorned : i \in Unequal(a, new)} :
              SameRule(q, new[j].adorned)
<1> DEFINE before(n) == program \cup {new[k].adorned : k \in {m \in Hits(a) : m < n}}
           T == {n \in Hits(a) : SameRule(new[n].adorned, new[j].adorned)}
<1>1. \A x, y, z : SameRule(x, x) /\ (SameRule(x, y) /\ SameRule(y, z) => SameRule(x, z))
  BY Zenon DEF SameRule
<1>2. j \in T /\ T \subseteq Nat
  BY <1>1
<1>3. PICK n \in T : \A y \in T : n <= y
  <2> HIDE DEF T
  <2> QED  BY <1>2, LeastNumber
<1>4. CASE \E q \in program : SameRule(q, new[j].adorned)
  BY <1>4
<1>5. CASE ~\E q \in program : SameRule(q, new[j].adorned)
  <2>1. ASSUME NEW x \in before(n), SameRule(x, new[n].adorned)
        PROVE  FALSE
    <3>1. SameRule(x, new[j].adorned)
      BY <1>1, <1>3, <2>1
    <3>2. x \notin program
      BY <1>5, <3>1
    <3>3. PICK k \in {m \in Hits(a) : m < n} : x = new[k].adorned
      BY <3>2
    <3>4. k \in T
      BY <3>1, <3>3
    <3>5. n <= k /\ k < n /\ k \in Nat /\ n \in Nat
      BY <1>2, <1>3, <3>3, <3>4
    <3> QED  BY <3>5
  <2>2. n \in Unequal(a, new)
    BY <1>3, <2>1 DEF Unequal
  <2> QED  BY <1>3, <2>2
<1> QED  BY <1>4, <1>5

(***************************************************************************)
(* Each action preserves the invariant.                                    *)
(***************************************************************************)

LEMMA InitInv == Init => IInv
<1> SUFFICES ASSUME Init PROVE IInv
  OBVIOUS
<1>1. Setting
  BY DEF Init, Setting
<1>2. RulesKept
  <2>1. ASSUME NEW i \in DOMAIN given.rules
        PROVE  IsLeft(given.rules[i], given.rules[i])
    BY GivenRules DEF IsLeft, Init
  <2> QED  BY <2>1 DEF RulesKept, Init
<1>3. Worklist
  BY FS_EmptySet DEF Init, Worklist
<1>4. NoneForgotten /\ AdornedRules /\ ~Adorning /\ Closed
  BY DEF Init, NoneForgotten, AdornedRules, Adorning, Closed
<1> QED  BY <1>1, <1>2, <1>3, <1>4 DEF IInv

LEMMA GoalIsLiteral ==
    ASSUME IInv, NEW g \in given.goals
    PROVE  IsLiteral(g)
BY ScenariosAssumption DEF IInv, Setting

LEMMA AskInv ==
    ASSUME IInv, NEW g, IsLiteral(g), NEW ignore, Ask(g, ignore)
    PROVE  IInv'
<1> DEFINE a == Atom(AdornLiteral(g))
<1>1. IsAtom(a)
  BY LiteralIsAdLiteral, AdornLiteralType, AtomType
<1> HIDE DEF a
<1>2. /\ given' = given /\ rs' = rs
      /\ derived' = IF given.preds = {} THEN DerivedPreds(given) ELSE given.preds
      /\ collection' = {a} /\ marked' = {} /\ to_do' = <<a>>
      /\ program' = {} /\ answered' = <<>>
  BY DEF Ask, a
<1>3. Setting'
  <2>1. DerivedPreds(given) \subseteq Heads(given.rules)
    BY DEF DerivedPreds
  <2>2. derived' \cap Hybrid = {}
    BY <1>2, <2>1, ScenariosAssumption DEF IInv, Setting
  <2> QED  BY <1>2, <2>2 DEF IInv, Setting
<1>4. RulesKept'
  BY <1>2 DEF IInv, RulesKept
<1>5. Worklist'
  <2>1. IsFiniteSet({a})
    BY FS_Singleton
  <2>2. <<a>> \in Seq({a})
    OBVIOUS
  <2>3. (IsFiniteSet(collection))' /\ (to_do \in Seq(collection))' /\ (marked \subseteq collection)'
    BY <1>2, <2>1, <2>2
  <2> QED  BY <1>1, <1>2, <2>3 DEF Worklist
<1>6. NoneForgotten'
  <2>1. a \in ToSet(<<a>>)
    BY DEF ToSet
  <2> QED  BY <1>2, <2>1 DEF NoneForgotten
<1>7. AdornedRules' /\ Versions' /\ CallsQueued' /\ MarkedDone' /\ Closed'
  BY <1>2 DEF AdornedRules, Versions, CallsQueued, MarkedDone, Closed
<1> QED  BY <1>3, <1>4, <1>5, <1>6, <1>7 DEF IInv

LEMMA ProcessInv ==
    ASSUME IInv, Process
    PROVE  IInv'
<1> DEFINE a == Head(to_do)
           made == Made(a)
           new == Taken(made)
           I == Hits(a)
           calls == UNION {Calls(new[i].adorned) : i \in I}
           rest == Tail(to_do)
<1>1. /\ Adorning /\ to_do # <<>> /\ \A i \in DOMAIN rs : made[i] # {}
      /\ program' = program \cup {new[i].adorned : i \in Unequal(a, new)}
      /\ rs' = [i \in DOMAIN rs |-> new[i].left]
      /\ collection' = collection \cup calls
      /\ marked' = marked \cup {a}
      /\ to_do' \in Refill(rest, collection', marked')
      /\ UNCHANGED <<given, derived, goal, ignoring, answered>>
  <2>1. /\ Adorning /\ to_do # <<>> /\ \A i \in DOMAIN rs : made[i] # {}
        /\ Turn(a, new)
        /\ UNCHANGED <<given, derived, goal, ignoring, answered>>
    BY Zenon DEF Process
  <2> QED  BY <2>1, Zenon DEF Turn
<1>2. /\ Setting /\ RulesKept /\ Worklist /\ NoneForgotten /\ AdornedRules
      /\ Versions /\ CallsQueued /\ MarkedDone /\ Closed
  BY <1>1, Zenon DEF IInv
<1>3. a \in collection /\ IsAtom(a) /\ Tail(to_do) \in Seq(collection)
      /\ ToSet(to_do) = {a} \cup ToSet(Tail(to_do))
  <2>1. /\ to_do \in Seq(collection) /\ to_do # <<>>
        /\ Len(to_do) \in Nat /\ Len(to_do) >= 1 /\ a = to_do[1]
        /\ Tail(to_do) \in Seq(collection) /\ Len(Tail(to_do)) = Len(to_do) - 1
        /\ \A i \in 1 .. Len(to_do) - 1 : Tail(to_do)[i] = to_do[i + 1]
    BY <1>1, <1>2 DEF Worklist
  <2>2. DOMAIN to_do = 1 .. Len(to_do) /\ DOMAIN Tail(to_do) = 1 .. Len(to_do) - 1
    BY <2>1
  <2>3. ASSUME NEW x \in ToSet(to_do)
        PROVE  x \in {a} \cup ToSet(Tail(to_do))
    <3>1. PICK i \in 1 .. Len(to_do) : x = to_do[i]
      BY <2>2, <2>3 DEF ToSet
    <3>2. CASE i = 1
      BY <2>1, <3>1, <3>2
    <3>3. CASE i # 1
      <4>1. i - 1 \in DOMAIN Tail(to_do) /\ Tail(to_do)[i - 1] = x
        BY <2>1, <2>2, <3>1, <3>3
      <4> QED  BY <4>1 DEF ToSet
    <3> QED  BY <3>2, <3>3
  <2>4. ASSUME NEW x \in ToSet(Tail(to_do))
        PROVE  x \in ToSet(to_do)
    <3>1. PICK i \in 1 .. Len(to_do) - 1 : x = Tail(to_do)[i]
      BY <2>2, <2>4 DEF ToSet
    <3>2. i + 1 \in DOMAIN to_do /\ x = to_do[i + 1]
      BY <2>1, <2>2, <3>1
    <3> QED  BY <3>2 DEF ToSet
  <2>5. a \in ToSet(to_do)
    BY <2>1, <2>2 DEF ToSet
  <2>6. a \in collection
    BY <2>1
  <2> QED  BY <1>2, <2>1, <2>3, <2>4, <2>5, <2>6 DEF Worklist
<1> HIDE DEF a
<1>4. \A i \in DOMAIN rs : new[i] \in made[i]
  BY <1>1, <1>2, TakenIs
<1>5. DOMAIN rs = DOMAIN given.rules /\ I = {i \in DOMAIN rs : HeadsRule(a, rs[i])}
  BY <1>2 DEF RulesKept, Hits
<1> HIDE DEF rest, new, made, I
<1>6. \A i \in DOMAIN rs :
         /\ IsLeft(new[i].left, given.rules[i])
         /\ HeadsRule(a, rs[i]) = HeadsRule(a, given.rules[i])
         /\ HeadsRule(a, rs[i]) => /\ IsAdRule(new[i].adorned) /\ new[i].adorned.head.ad = a.ad
                                   /\ IsVersion(new[i].adorned, given.rules[i])
  BY <1>2, <1>3, <1>4, MadeType DEF made
<1>7. IsFiniteSet(I) /\ I \subseteq Nat /\ I \subseteq DOMAIN given.rules
  <2>1. PICK n \in Nat : DOMAIN given.rules = 1 .. n
    BY <1>2, GivenRules DEF Setting
  <2>2. IsFiniteSet(1 .. n) /\ I \subseteq 1 .. n
    BY <1>5, <2>1, FS_Interval
  <2>3. IsFiniteSet(I)
    BY <2>2, FS_Subset
  <2> QED  BY <2>1, <2>2, <2>3
<1>8. \A i \in I : /\ IsAdRule(new[i].adorned) /\ new[i].adorned.head.ad = a.ad
                   /\ IsVersion(new[i].adorned, given.rules[i])
  BY <1>5, <1>6
<1>9. IsFiniteSet(calls) /\ \A x \in calls : IsAtom(x)
  BY <1>7, <1>8, CallsOfAll
<1>10. \A r \in program' : r \in program \/ \E i \in I : r = new[i].adorned
  <2>1. Unequal(a, new) \subseteq I
    BY DEF Unequal, I
  <2> QED  BY <1>1, <2>1
<1>11. Setting' /\ given' = given
  BY <1>1, <1>2 DEF Setting
<1>12. RulesKept'
  <2>1. rs' = [i \in DOMAIN rs |-> new[i].left] /\ given' = given
    BY <1>1
  <2>2. DOMAIN rs' = DOMAIN given.rules /\ \A i \in DOMAIN rs : rs'[i] = new[i].left
    BY <1>5, <2>1
  <2> QED  BY <1>5, <1>6, <2>1, <2>2 DEF RulesKept
<1>13. /\ IsFiniteSet(collection') /\ (\A x \in collection' : IsAtom(x))
       /\ marked' \subseteq collection' /\ rest \in Seq(collection')
  <2> HIDE DEF calls
  <2>1. IsFiniteSet(collection \cup calls)
    BY <1>2, <1>9, FS_Union DEF Worklist
  <2>2. \A x \in collection : x \in collection'
    BY <1>1
  <2>3. rest \in Seq(collection')
    BY <1>3, <2>2 DEF rest
  <2> QED  BY <1>1, <1>2, <1>3, <1>9, <2>1, <2>3 DEF Worklist
<1>14. to_do' \in Seq(collection')
       /\ ToSet(to_do') = (collection' \ marked') \cup ToSet(rest)
  <2> DEFINE all == collection'
             done == marked'
  <2>1. IsFiniteSet(all) /\ rest \in Seq(all) /\ to_do' \in Refill(rest, all, done)
    BY <1>1, <1>13
  <2> HIDE DEF all, done
  <2>2. to_do' \in Seq(all) /\ ToSet(to_do') = (all \ done) \cup ToSet(rest)
    BY <2>1, RefillType
  <2> QED  BY <2>2 DEF all, done
<1>15. Worklist'
  BY <1>13, <1>14 DEF Worklist
<1>16. NoneForgotten'
  BY <1>14 DEF NoneForgotten
<1>17. AdornedRules'
  BY <1>2, <1>8, <1>10 DEF AdornedRules
<1>18. Versions'
  BY <1>2, <1>7, <1>8, <1>10, <1>11 DEF Versions
<1>19. CallsQueued'
  <2>1. ASSUME NEW r \in program'
        PROVE  (Calls(r))' \subseteq collection'
    <3>1. (Calls(r))' = Calls(r)
      BY <1>1 DEF Calls, DerivedLits, IsDerived
    <3>2. CASE r \in program
      BY <1>1, <1>2, <3>1, <3>2 DEF CallsQueued
    <3>3. CASE \E i \in I : r = new[i].adorned
      BY <1>1, <3>1, <3>3
    <3> QED  BY <1>10, <3>2, <3>3
  <2> QED  BY <2>1 DEF CallsQueued
<1>20. MarkedDone'
  <2>1. ASSUME NEW x \in marked', NEW i \in DOMAIN given.rules, HeadsRule(x, given.rules[i])
        PROVE  HasVersion(program', x.ad, i)
    <3>1. CASE x \in marked
      <4>1. HasVersion(program, x.ad, i)
        BY <1>2, <2>1, <3>1 DEF MarkedDone
      <4> QED  BY <1>1, <4>1 DEF HasVersion
    <3>2. CASE x = a
      <4>1. i \in I
        BY <1>5, <1>6, <2>1, <3>2
      <4>2. PICK q \in program' : SameRule(q, new[i].adorned)
        BY <1>1, <1>7, <4>1, FirstKept DEF I
      <4>3. IsAdRule(q) /\ \E j \in DOMAIN given.rules : IsVersion(q, given.rules[j])
        BY <1>2, <1>7, <1>8, <1>10 DEF AdornedRules, Versions
      <4>4. q.head.ad = new[i].adorned.head.ad /\ IsVersion(q, given.rules[i])
        BY <1>2, <1>8, <4>1, <4>2, <4>3, SameVersion DEF Setting
      <4> QED  BY <1>8, <3>2, <4>1, <4>4 DEF HasVersion
    <3> QED  BY <1>1, <3>1, <3>2
  <2> QED  BY <1>11, <2>1 DEF MarkedDone, HasVersion
<1>21. Closed'
  BY <1>1 DEF Closed, Adorning
<1> QED  BY <1>11, <1>12, <1>15, <1>16, <1>17, <1>18, <1>19, <1>20, <1>21, Zenon DEF IInv

\* A rule without an order ends the loop; the rules before it have been adorned.
LEMMA NoOrderInv ==
    ASSUME IInv, NoOrder
    PROVE  IInv'
<1> DEFINE a == Head(to_do)
           made == Made(a)
           new(i) == CHOOSE m \in made[i] : TRUE
<1>1. /\ Adorning /\ to_do # <<>>
      /\ goal' = <<>> /\ to_do' = <<>> /\ program' = {}
      /\ UNCHANGED <<given, derived, ignoring, collection, marked, answered>>
  BY DEF NoOrder
<1>2. PICK stop \in DOMAIN rs :
         /\ \A i \in 1 .. stop - 1 : made[i] # {}
         /\ rs' = [i \in DOMAIN rs |-> IF i < stop THEN new(i).left ELSE rs[i]]
  BY Zenon DEF NoOrder
<1>3. Setting /\ RulesKept /\ Worklist
  BY DEF IInv
<1>4. IsAtom(a)
  BY <1>1, <1>3 DEF Worklist
<1>5. PICK n \in Nat : DOMAIN rs = 1 .. n
  BY <1>3, GivenRules DEF Setting, RulesKept
<1>6. ASSUME NEW i \in DOMAIN rs, i < stop
      PROVE  IsLeft(new(i).left, given.rules[i])
  <2>1. i \in 1 .. stop - 1
    BY <1>5, <1>6
  <2>2. new(i) \in made[i]
    BY <1>2, <2>1
  <2> HIDE DEF new, a
  <2> QED  BY <1>3, <1>4, <2>2, MadeType
<1> HIDE DEF new, made, a
<1>7. RulesKept'
  <2>1. DOMAIN rs' = DOMAIN rs
        /\ \A i \in DOMAIN rs : rs'[i] = IF i < stop THEN new(i).left ELSE rs[i]
    BY <1>2
  <2>2. \A i \in DOMAIN rs : IsLeft(rs'[i], given.rules[i])
    BY <1>3, <1>6, <2>1 DEF RulesKept
  <2> QED  BY <1>1, <1>3, <2>1, <2>2 DEF RulesKept
<1>8. Setting'
  BY <1>1, <1>3 DEF Setting
<1>9. Worklist'
  <2>1. <<>> \in Seq(collection)
    OBVIOUS
  <2>2. to_do' \in Seq(collection') /\ collection' = collection /\ marked' = marked
    BY <1>1, <2>1
  <2> QED  BY <1>3, <2>2 DEF Worklist
<1>10. AdornedRules' /\ ~Adorning' /\ NoneForgotten' /\ Closed'
  BY <1>1 DEF AdornedRules, Adorning, NoneForgotten, Closed
<1> QED  BY <1>7, <1>8, <1>9, <1>10 DEF IInv

(***************************************************************************)
(* The end of the loop.                                                    *)
(***************************************************************************)

\* The rule that feeds a hybrid predicate is adorned, and calls the facts only.
\* A bridge is made for an adorned literal.
BridgesFor(p, r) ==
    {Bridge(p, l.ad) : l \in {r.body[i] : i \in {k \in DOMAIN r.body :
        IsAdorned(r.body[k]) /\ r.body[k].op \in {p, DerivedName[p]}}}}

LEMMA BridgesIs ==
    ASSUME NEW rules, NEW b
    PROVE  b \in Bridges(rules) <=> \E p \in Hybrid, r \in rules : b \in BridgesFor(p, r)
<1>1. Bridges(rules) = UNION {BridgesFor(p, r) : p \in Hybrid, r \in rules}
  BY DEF Bridges, BridgesFor
<1> QED  BY <1>1

LEMMA BridgeType ==
    ASSUME NEW rules, \A r \in rules : IsAdRule(r), NEW b \in Bridges(rules)
    PROVE  IsAdRule(b) /\ \A k \in DOMAIN b.body : b.body[k].op \in Hybrid
<1>1. PICK p \in Hybrid, r \in rules : b \in BridgesFor(p, r)
  BY BridgesIs
<1>2. PICK k \in DOMAIN r.body : IsAdorned(r.body[k]) /\ b = Bridge(p, r.body[k].ad)
  <2> DEFINE K == {k \in DOMAIN r.body :
                      IsAdorned(r.body[k]) /\ r.body[k].op \in {p, DerivedName[p]}}
  <2>1. \E l \in {r.body[i] : i \in K} : b = Bridge(p, l.ad)
    BY <1>1, Zenon DEF BridgesFor
  <2>2. \E k \in K : b = Bridge(p, r.body[k].ad)
    <3> HIDE DEF K
    <3> QED  BY <2>1, Zenon
  <2> QED  BY <2>2
<1> DEFINE l == r.body[k]
           n == Len(l.ad)
           args == SubSeq(BridgeVars, 1, n)
           head == Adorned(DerivedName[p], args, l.ad, FALSE)
<1>3. IsAdLiteral(l) /\ Arity(l) /\ n \in 1 .. Len(BridgeVars)
  BY <1>2 DEF IsAdRule, IsAdLiteral, Arity
<1>4. args = [i \in 1 .. n |-> BridgeVars[i]]
  BY <1>3, BridgeLen, ScenariosAssumption
<1>5. args \in Seq(ToSet(args)) /\ Len(args) = n
  <2>1. n \in Nat /\ args = [i \in 1 .. n |-> args[i]]
    BY <1>3, <1>4, BridgeLen
  <2> HIDE DEF args
  <2> QED  BY <2>1, AppendNothing
<1>6. b.head = head /\ b.body = <<Lit(p, args)>>
  BY <1>2 DEF Bridge
<1> HIDE DEF args
<1>7. head.args = args /\ head.ad = l.ad /\ head.op = DerivedName[p] /\ head.naf = FALSE
  BY DEF Adorned
<1>8. IsAdLiteral(head) /\ Arity(head)
  <2>1. head = Adorned(head.op, head.args, head.ad, head.naf)
    BY <1>7
  <2>2. Len(head.args) = n /\ head.ad = l.ad /\ head.args \in Seq(ToSet(head.args))
    BY <1>5, <1>7
  <2>3. Arity(head) /\ Len(head.args) \in 1 .. Len(BridgeVars)
    BY <1>3, <2>2 DEF Arity
  <2> QED  BY <2>1, <2>2, <2>3 DEF IsAdLiteral
<1>9. Lit(p, args).args = args /\ Lit(p, args).ad = <<>> /\ Lit(p, args).op = p
      /\ Lit(p, args).naf = FALSE
  BY DEF Lit, Adorned
<1>10. IsAdLiteral(Lit(p, args))
  BY <1>3, <1>5, <1>9 DEF IsAdLiteral, IsAdorned, Lit
<1>11. DOMAIN b.body = {1} /\ b.body[1] = Lit(p, args) /\ b.body \in Seq(ToSet(b.body))
  <2>1. b.body[1] \in ToSet(b.body)
    BY <1>6 DEF ToSet
  <2> QED  BY <1>6, <2>1
<1> QED  BY <1>6, <1>8, <1>9, <1>10, <1>11 DEF IsAdRule

LEMMA BridgeBody ==
    ASSUME NEW rules, NEW b \in Bridges(rules)
    PROVE  \A k \in DOMAIN b.body : b.body[k].ad = <<>>
<1>1. PICK p \in Hybrid, r \in rules : b \in BridgesFor(p, r)
  BY BridgesIs
<1>2. PICK ad : b = Bridge(p, ad)
  BY <1>1 DEF BridgesFor
<1> QED  BY <1>2 DEF Bridge, Lit, Adorned

LEMMA FinishInv ==
    ASSUME IInv, Finish
    PROVE  IInv'
<1>1. /\ Adorning /\ to_do = <<>>
      /\ program' = program \cup Bridges(program)
      /\ answered' = [adorned_program |-> program', query_atoms |-> collection]
      /\ UNCHANGED <<given, rs, derived, goal, ignoring, collection, marked, to_do>>
  BY DEF Finish
<1>2. /\ Setting /\ RulesKept /\ Worklist /\ NoneForgotten /\ AdornedRules
      /\ Versions /\ CallsQueued /\ MarkedDone
  BY <1>1, Zenon DEF IInv
<1>3. answered' # <<>> /\ answered'.adorned_program = program'
  BY <1>1
<1>4. collection \subseteq marked
  <2>1. ToSet(<<>>) = {}
    BY DEF ToSet
  <2> QED  BY <1>1, <1>2, <2>1 DEF NoneForgotten
<1>5. AdornedRules'
  BY <1>1, <1>2, BridgeType DEF AdornedRules
<1>6. ASSUME NEW r \in program', NEW k \in DOMAIN r.body, r.body[k].op \in derived,
             NEW i \in DOMAIN given.rules, HeadsRule(r.body[k], given.rules[i])
      PROVE  HasVersion(program', (IF IsAdorned(r.body[k]) THEN r.body[k]
                                   ELSE AdornLiteral(r.body[k])).ad, i)
  <2> DEFINE l == r.body[k]
             m == IF IsAdorned(l) THEN l ELSE AdornLiteral(l)
             x == CallOf(l)
  <2>1. r \in program
    BY <1>1, <1>2, <1>6, BridgeType DEF AdornedRules, Setting
  <2>2. IsAdLiteral(l)
    BY <1>2, <2>1 DEF AdornedRules, IsAdRule
  <2>3. x \in Calls(r)
    BY <1>6 DEF CallOf, Calls, DerivedLits, IsDerived
  <2>4. x \in marked
    BY <1>2, <1>4, <2>1, <2>3 DEF CallsQueued
  <2>5. x.op = l.op /\ x.args = l.args /\ x.ad = m.ad
    <3>1. x.ad = m.ad
      BY DEF CallOf, Atom
    <3> HIDE DEF l
    <3> QED  BY <2>2, <3>1, CallOfType
  <2>6. HeadsRule(x, given.rules[i])
    BY <1>6, <2>5 DEF HeadsRule
  <2>7. HasVersion(program, x.ad, i)
    BY <1>2, <2>4, <2>6 DEF MarkedDone
  <2>8. HasVersion(program, m.ad, i)
    BY <2>5, <2>7
  <2> HIDE DEF m
  <2>9. HasVersion(program', m.ad, i)
    BY <1>1, <2>8 DEF HasVersion
  <2> QED  BY <2>9 DEF m
<1>7. Closed'
  <2>1. given' = given /\ derived' = derived
    BY <1>1
  <2> QED  BY <1>3, <1>6, <2>1 DEF Closed, HasVersion, IsVersion
<1>8. Setting' /\ RulesKept' /\ Worklist'
  BY <1>1, <1>2 DEF Setting, RulesKept, Worklist
<1>9. ~Adorning' /\ NoneForgotten'
  BY <1>3 DEF Adorning, NoneForgotten
<1> QED  BY <1>5, <1>7, <1>8, <1>9 DEF IInv

\* What a turn of the loop adds, and what Finish adds, passes bindings; nothing
\* else adds a rule.
LEMMA ProcessBinds ==
    ASSUME IInv, BoundIsBound, Process
    PROVE  BoundIsBound'
<1> DEFINE a == Head(to_do)
           made == Made(a)
           new == Taken(made)
<1>1. /\ Adorning /\ to_do # <<>> /\ \A i \in DOMAIN rs : made[i] # {}
      /\ Turn(a, new)
  BY Zenon DEF Process
<1>2. Setting /\ RulesKept /\ Worklist
  BY DEF IInv
<1>3. IsAtom(a)
  BY <1>1, <1>2 DEF Worklist
<1>4. \A i \in DOMAIN rs : new[i] \in made[i]
  BY <1>1, <1>2, TakenIs
<1> HIDE DEF new, a
<1>5. ASSUME NEW i \in Hits(a) PROVE PassesBindings(new[i].adorned)
  <2> DEFINE h == [rs[i].head EXCEPT !.ad = a.ad]
  <2>1. i \in DOMAIN rs /\ HeadsRule(a, rs[i])
    BY DEF Hits
  <2>2. new[i] \in AdornRule(rs[i], h, a.op, ignoring)
    BY <1>2, <1>4, <2>1, MadeIs
  <2>3. i \in DOMAIN given.rules /\ given \in Scenarios /\ IsLeft(rs[i], given.rules[i])
    BY <1>2, <2>1 DEF Setting, RulesKept
  <2>4. IsRule(rs[i])
    BY <2>3 DEF IsLeft
  <2> QED  BY <1>3, <2>1, <2>2, <2>4, AdornRuleBinds
<1>6. program' = program \cup {new[i].adorned : i \in Unequal(a, new)}
  BY <1>1, Zenon DEF Turn
<1>7. Unequal(a, new) \subseteq Hits(a)
  BY DEF Unequal
<1> QED  BY <1>5, <1>6, <1>7 DEF BoundIsBound

LEMMA FinishBinds ==
    ASSUME IInv, BoundIsBound, Finish
    PROVE  BoundIsBound'
<1>1. program' = program \cup Bridges(program)
  BY DEF Finish
<1>2. \A r \in program : IsAdRule(r)
  BY DEF IInv, AdornedRules
<1>3. ASSUME NEW b \in Bridges(program) PROVE PassesBindings(b)
  <2>1. \A k \in DOMAIN b.body : b.body[k].ad = <<>>
    BY <1>2, BridgeBody
  <2> QED  BY <2>1 DEF PassesBindings, ArgumentsBound
<1> QED  BY <1>1, <1>3 DEF BoundIsBound

(***************************************************************************)
(* The theorems.                                                           *)
(***************************************************************************)

LEMMA InvStep == IInv /\ [Next]_vars => IInv'
<1> SUFFICES ASSUME IInv, [Next]_vars PROVE IInv'
  OBVIOUS
<1>1. CASE \E g \in given.goals, ignore \in given.modes : Ask(g, ignore)
  BY <1>1, AskInv, GoalIsLiteral
<1>2. CASE Process
  BY <1>2, ProcessInv
<1>3. CASE NoOrder
  BY <1>3, NoOrderInv
<1>4. CASE Finish
  BY <1>4, FinishInv
<1>5. CASE UNCHANGED vars
  BY <1>5 DEF vars, IInv, Setting, RulesKept, Worklist, NoneForgotten, AdornedRules, Adorning,
              Versions, CallsQueued, MarkedDone, HasVersion, Calls, DerivedLits, IsDerived,
              Closed
<1> QED  BY <1>1, <1>2, <1>3, <1>4, <1>5 DEF Next

THEOREM Invariant == Spec => []IInv
BY InitInv, InvStep, PTL DEF Spec

\* The collection of adorn_program holds what the deque holds, and every adornment
\* it makes, of the bridges of hybrid predicates too, has a letter for each argument.
THEOREM AdornTypeCorrect == Spec => []AdornTypeOK
<1>1. IInv => AdornTypeOK
  <2> SUFFICES ASSUME IInv PROVE AdornTypeOK
    OBVIOUS
  <2>1. ToSet(to_do) \subseteq collection /\ marked \subseteq collection
    BY RangeFinite DEF IInv, Worklist
  <2>2. \A a \in collection : Arity(a)
    BY DEF IInv, Worklist, IsAtom
  <2>3. \A r \in program : Arity(r.head)
                           /\ \A i \in DOMAIN r.body : IsAdorned(r.body[i]) => Arity(r.body[i])
    BY DEF IInv, AdornedRules, IsAdRule, IsAdLiteral
  <2> QED  BY <2>1, <2>2, <2>3 DEF AdornTypeOK, IInv, Setting
<1> QED  BY <1>1, Invariant, PTL

\* Refilling the deque of adorn_program forgets no unmarked predicate, whatever the
\* order in which the set of the unmarked is iterated.
THEOREM EveryPredicateQueued == Spec => []NoneForgotten
<1>1. IInv => NoneForgotten
  BY DEF IInv
<1> QED  BY <1>1, Invariant, PTL

\* The adorned program that setup_ddl_and_adorn_program hands over has, for each
\* derived literal of a body, the version of every matching rule under the adornment
\* of that literal, though the rules were adorned for other goals before.
THEOREM ProgramClosed == Spec => []Closed
<1>1. IInv => Closed
  BY DEF IInv
<1> QED  BY <1>1, Invariant, PTL

\* Where the goal binds a variable of a rule's head, the variables the adorned rule
\* says are bound when a literal is called are bound: by the head, or by the literals
\* the sip puts before it.
THEOREM VariablesAreBound == Spec => []BoundIsBound
<1>1. Init => BoundIsBound
  BY DEF Init, BoundIsBound
<1>2. IInv /\ BoundIsBound /\ [Next]_vars => BoundIsBound'
  <2> SUFFICES ASSUME IInv, BoundIsBound, [Next]_vars PROVE BoundIsBound'
    OBVIOUS
  <2>1. CASE (\E g \in given.goals, ignore \in given.modes : Ask(g, ignore)) \/ NoOrder
    <3>1. program' = {}
      BY <2>1 DEF Ask, NoOrder
    <3> QED  BY <3>1 DEF BoundIsBound
  <2>2. CASE UNCHANGED vars
    BY <2>2 DEF vars, BoundIsBound
  <2> QED  BY <2>1, <2>2, ProcessBinds, FinishBinds DEF Next
<1> QED  BY <1>1, <1>2, Invariant, PTL DEF Spec

(***************************************************************************)
(* What is handed over, besides being closed.                              *)
(***************************************************************************)

IsBridge(b) == \E p \in Hybrid : \E ad : Len(ad) \in 1 .. Len(BridgeVars) /\ b = Bridge(p, ad)
HasRule(P, i) == \E q \in P : IsVersion(q, given.rules[i])
\* Hybrid literals have their other name and, where that is wanted, an adornment.
IsOldName(op) == \A p \in Hybrid : op # DerivedName[p]
RenamedBody(r) ==
    \A k \in DOMAIN r.body :
        /\ r.body[k].op \notin Hybrid
        /\ ignoring /\ r.body[k].op \in derived => IsAdorned(r.body[k])
        /\ IsAdorned(r.body[k]) => r.body[k].op \in derived \/ ~IsOldName(r.body[k].op)
IsMade(q) == \/ RenamedBody(q) /\ \E i \in DOMAIN given.rules : IsVersion(q, given.rules[i])
             \/ IsBridge(q)
Handed(P) ==
    /\ IsLiteral(goal)
    /\ \A q \in P : IsAdRule(q) /\ IsMade(q)
    /\ \A i \in DOMAIN given.rules : HeadsRule(goal, given.rules[i]) =>
          HasVersion(P, AdornLiteral(goal).ad, i)
    /\ \A q \in P : \A k \in DOMAIN q.body : \A p \in Hybrid :
          IsAdorned(q.body[k]) /\ q.body[k].op = DerivedName[p] => Bridge(p, q.body[k].ad) \in P
InLoop == /\ IsLiteral(goal) /\ Atom(AdornLiteral(goal)) \in collection
          /\ \A r \in program : RenamedBody(r)
AnswersInv == /\ Adorning => InLoop
              /\ answered # <<>> => Handed(answered.adorned_program)

LEMMA AdornRuleNames ==
    ASSUME NEW c, IsRule(c), NEW h, NEW newOp, NEW out \in AdornRule(c, h, newOp, ignoring)
    PROVE  RenamedBody(out.adorned)
<1> DEFINE Body(o, l) == AdornBody(h, newOp, c.body, o, ignoring, l)
<1> DEFINE Adorn(o) == [head |-> Renamed(h),
                        body |-> Map(LAMBDA i : Renamed(Body(o, c.body[i])), o)]
           Left(o)  == [c EXCEPT !.body = Map(LAMBDA l :
                            IF IsAdorned(Body(o, l)) THEN l ELSE Renamed(l), @)]
<1>0. PICK o \in SipOrders(h, c.body, ignoring) : out = [adorned |-> Adorn(o), left |-> Left(o)]
  BY Zenon DEF AdornRule
<1>1. out.adorned = Adorn(o)
  <2> HIDE DEF Adorn, Left
  <2> QED  BY <1>0
<1>2. PICK n \in Nat : n >= 1 /\ o \in [1 .. n -> DOMAIN c.body]
  BY OrderCovers DEF IsRule
<1> DEFINE s == [i \in 1 .. n |-> Renamed(Body(o, c.body[o[i]]))]
<1>3. s \o <<>> = s /\ Len(s) = n
  BY AppendNothing
<1>4. out.adorned.body = s
  BY <1>1, <1>2, <1>3 DEF Map
<1>5. ASSUME NEW i \in 1 .. n
      PROVE  /\ s[i].op \notin Hybrid /\ (ignoring /\ s[i].op \in derived => IsAdorned(s[i]))
             /\ IsAdorned(s[i]) => s[i].op \in derived \/ ~IsOldName(s[i].op)
  <2> DEFINE l == c.body[o[i]]
             m == Body(o, l)
  <2>1. IsAdLiteral(l) /\ IsLiteral(l)
    BY <1>2, LiteralIsAdLiteral DEF IsRule
  <2>2. s[i] = Renamed(m)
    OBVIOUS
  <2> HIDE DEF l
  <2>3. IsAdLiteral(m) /\ m.op = l.op /\ m.args = l.args
    BY <2>1, AdornBodyType
  <2> HIDE DEF s
  <2>4. ASSUME ignoring, IsDerived(l.op) PROVE IsAdorned(m)
    <3>1. \E ad : DOMAIN ad = DOMAIN l.args /\ m = [l EXCEPT !.ad = ad]
      <4>1. CASE Incoming(h, c.body, o, l) = {}
        <5>1. m = [l EXCEPT !.ad = AllFree(l)]
          BY <2>4, <4>1 DEF AdornBody
        <5> QED  BY <5>1 DEF AllFree
      <4>2. CASE Incoming(h, c.body, o, l) # {}
        <5> DEFINE k == CHOOSE i_1 \in Incoming(h, c.body, o, l) : TRUE
        <5>1. k \in Incoming(h, c.body, o, l)
          BY <4>2
        <5>2. c.body[o[k]].args = l.args
          BY <5>1 DEF Incoming, Occurrence
        <5>3. m = [l EXCEPT !.ad = Bindings(h, newOp, c.body, o, k)]
          BY <2>4, <4>2 DEF AdornBody
        <5> QED  BY <5>2, <5>3 DEF Bindings
      <4> QED  BY <4>1, <4>2
    <3>2. 1 \in DOMAIN l.args
      BY <2>1, BridgeLen DEF IsAdLiteral
    <3>3. m.ad # <<>>
      BY <2>1, <3>1, <3>2 DEF IsAdLiteral, Adorned
    <3> QED  BY <3>3 DEF IsAdorned
  <2>6. ASSUME ~IsDerived(l.op) PROVE ~IsAdorned(m)
    <3>1. m = l
      BY <2>6 DEF AdornBody
    <3>2. l.ad = <<>>
      BY <2>1, LiteralIsAdLiteral
    <3> QED  BY <3>1, <3>2 DEF IsAdorned
  <2> HIDE DEF m
  <2>5. ASSUME s[i].op \in derived PROVE IsDerived(l.op)
    BY <2>2, <2>3, <2>5, RenamedType DEF IsDerived
  <2>7. ASSUME IsAdorned(s[i]) PROVE s[i].op \in derived \/ ~IsOldName(s[i].op)
    <3>1. IsDerived(l.op)
      BY <2>2, <2>3, <2>6, <2>7, RenamedType
    <3>2. s[i].op = IF l.op \in Hybrid THEN DerivedName[l.op] ELSE l.op
      BY <2>2, <2>3, RenamedType
    <3> QED  BY <3>1, <3>2 DEF IsDerived, IsOldName
  <2> QED  BY <2>2, <2>3, <2>4, <2>5, <2>7, RenamedType
<1>6. DOMAIN s = 1 .. n
  OBVIOUS
<1> HIDE DEF s
<1> QED  BY <1>4, <1>5, <1>6 DEF RenamedBody

LEMMA ProcessHands ==
    ASSUME IInv, AnswersInv, Process
    PROVE  AnswersInv'
<1> DEFINE a == Head(to_do)
           made == Made(a)
           new == Taken(made)
<1>1. /\ Adorning /\ to_do # <<>> /\ \A i \in DOMAIN rs : made[i] # {}
      /\ Turn(a, new)
      /\ UNCHANGED <<given, derived, goal, ignoring, answered>>
  BY Zenon DEF Process
<1>2. Setting /\ RulesKept
  BY DEF IInv
<1>3. \A i \in DOMAIN rs : new[i] \in made[i]
  BY <1>1, <1>2, TakenIs
<1> HIDE DEF new, a
<1>4. ASSUME NEW i \in Hits(a) PROVE RenamedBody(new[i].adorned)
  <2>1. i \in DOMAIN rs /\ HeadsRule(a, rs[i])
    BY DEF Hits
  <2>2. new[i] \in AdornRule(rs[i], [rs[i].head EXCEPT !.ad = a.ad], a.op, ignoring)
    BY <1>2, <1>3, <2>1, MadeIs
  <2>3. IsRule(rs[i])
    BY <1>2, <2>1 DEF RulesKept, IsLeft
  <2> QED  BY <2>2, <2>3, AdornRuleNames
<1>5. /\ program' = program \cup {new[i].adorned : i \in Unequal(a, new)}
      /\ collection \subseteq collection'
  BY <1>1, Zenon DEF Turn
<1>6. Unequal(a, new) \subseteq Hits(a)
  BY DEF Unequal
<1>7. InLoop
  BY <1>1 DEF AnswersInv
<1>8. \A r \in program' : RenamedBody(r)
  BY <1>4, <1>5, <1>6, <1>7 DEF InLoop
<1>9. \A r \in program' : RenamedBody(r)'
  BY <1>1, <1>8 DEF RenamedBody
<1>10. InLoop'
  BY <1>1, <1>5, <1>7, <1>9 DEF InLoop
<1>11. answered' = <<>>
  BY <1>1 DEF Adorning
<1> QED  BY <1>10, <1>11 DEF AnswersInv

LEMMA FinishHands ==
    ASSUME IInv, AnswersInv, Finish
    PROVE  AnswersInv'
<1> DEFINE P == program'
<1>1. /\ Adorning /\ to_do = <<>>
      /\ program' = program \cup Bridges(program)
      /\ answered' = [adorned_program |-> program', query_atoms |-> collection]
      /\ UNCHANGED <<given, rs, derived, goal, ignoring, collection, marked, to_do>>
  BY DEF Finish
<1>2. /\ Setting /\ NoneForgotten /\ AdornedRules /\ Versions /\ MarkedDone
  BY <1>1, Zenon DEF IInv
<1>3. InLoop
  BY <1>1 DEF AnswersInv
<1>4. answered' # <<>> /\ answered'.adorned_program = P
  BY <1>1
<1>5. ASSUME NEW q \in P
      PROVE  IsAdRule(q) /\ IsMade(q)'
  <2>1. CASE q \in program
    <3>1. IsMade(q)
      BY <1>2, <1>3, <2>1 DEF IsMade, Versions, InLoop
    <3>2. IsMade(q)'
      BY <1>1, <3>1 DEF IsMade, RenamedBody
    <3> QED  BY <1>2, <2>1, <3>2 DEF AdornedRules
  <2>2. CASE q \in Bridges(program)
    <3>1. IsAdRule(q)
      BY <1>2, <2>2, BridgeType DEF AdornedRules
    <3>2. IsBridge(q)
      <4>1. PICK p \in Hybrid, r \in program :
                q \in BridgesFor(p, r)
        BY <2>2, BridgesIs
      <4>2. PICK k \in DOMAIN r.body : IsAdorned(r.body[k]) /\ q = Bridge(p, r.body[k].ad)
        BY <4>1 DEF BridgesFor
      <4>3. Len(r.body[k].ad) \in 1 .. Len(BridgeVars)
        BY <1>2, <4>2 DEF AdornedRules, IsAdRule, IsAdLiteral, Arity
      <4> QED  BY <4>2, <4>3 DEF IsBridge
    <3> QED  BY <3>1, <3>2 DEF IsMade
  <2> QED  BY <1>1, <2>1, <2>2
<1>6. ASSUME NEW i \in DOMAIN given.rules, HeadsRule(goal, given.rules[i])
      PROVE  HasVersion(P, AdornLiteral(goal).ad, i)
  <2> DEFINE a == Atom(AdornLiteral(goal))
  <2>1. collection \subseteq marked
    <3>1. ToSet(<<>>) = {}
      BY DEF ToSet
    <3> QED  BY <1>1, <1>2, <3>1 DEF NoneForgotten
  <2>2. a \in marked
    BY <1>3, <2>1 DEF InLoop
  <2>3. a.op = goal.op /\ a.args = goal.args /\ a.ad = AdornLiteral(goal).ad
    BY <1>3, LiteralIsAdLiteral, AdornLiteralType, AtomType DEF InLoop
  <2> HIDE DEF a
  <2>4. HeadsRule(a, given.rules[i])
    BY <1>6, <2>3 DEF HeadsRule
  <2>5. HasVersion(program, a.ad, i)
    BY <1>2, <2>2, <2>4 DEF MarkedDone
  <2> QED  BY <1>1, <2>3, <2>5 DEF HasVersion
<1>7. ASSUME NEW q \in P, NEW k \in DOMAIN q.body, NEW p \in Hybrid,
             IsAdorned(q.body[k]), q.body[k].op = DerivedName[p]
      PROVE  Bridge(p, q.body[k].ad) \in P
  <2>1. q \in program
    BY <1>1, <1>2, <1>7, BridgeBody DEF IsAdorned
  <2>2. Bridge(p, q.body[k].ad) \in BridgesFor(p, q)
    BY <1>7 DEF BridgesFor
  <2>3. Bridge(p, q.body[k].ad) \in Bridges(program)
    BY <2>1, <2>2, BridgesIs
  <2> QED  BY <1>1, <2>3
<1>8. IsLiteral(goal)
  BY <1>3 DEF InLoop
<1>9. given' = given /\ goal' = goal
  BY <1>1
<1> HIDE DEF P
<1>10. Handed(answered.adorned_program)'
  BY <1>4, <1>5, <1>6, <1>7, <1>8, <1>9 DEF Handed, HasVersion
<1>11. ~Adorning'
  BY <1>4 DEF Adorning
<1> QED  BY <1>10, <1>11 DEF AnswersInv

LEMMA AskHands ==
    ASSUME NEW g, IsLiteral(g), NEW ignore, Ask(g, ignore)
    PROVE  AnswersInv'
<1>1. /\ given' = given /\ goal' = g /\ collection' = {Atom(AdornLiteral(g))}
      /\ program' = {} /\ answered' = <<>>
  BY DEF Ask
<1>2. InLoop'
  BY <1>1 DEF InLoop
<1> QED  BY <1>1, <1>2 DEF AnswersInv

THEOREM AnswersInvariant == Spec => []AnswersInv
<1>1. Init => AnswersInv
  BY DEF Init, AnswersInv, Adorning
<1>2. IInv /\ AnswersInv /\ [Next]_vars => AnswersInv'
  <2> SUFFICES ASSUME IInv, AnswersInv, [Next]_vars PROVE AnswersInv'
    OBVIOUS
  <2>1. ASSUME NEW g \in given.goals, NEW ignore \in given.modes, Ask(g, ignore)
        PROVE  AnswersInv'
    BY <2>1, AskHands, GoalIsLiteral
  <2>2. CASE NoOrder
    <3>1. goal' = <<>> /\ answered' = <<>>
      BY <2>2 DEF NoOrder, Adorning
    <3> QED  BY <3>1 DEF AnswersInv, Adorning
  <2>3. CASE UNCHANGED vars
    BY <2>3 DEF vars, AnswersInv, Adorning, InLoop, RenamedBody, Handed, IsMade, HasVersion
  <2> QED  BY <2>1, <2>2, <2>3, ProcessHands, FinishHands DEF Next
<1> QED  BY <1>1, <1>2, Invariant, PTL DEF Spec

(***************************************************************************)
(* Induction up to a number; sequences put together.                       *)
(***************************************************************************)

LEMMA UpTo ==
    ASSUME NEW n \in Nat, NEW P, 0 \in P,
           \A k \in 1 .. n : k - 1 \in P => k \in P
    PROVE  0 .. n \subseteq P
<1> DEFINE Out == (0 .. n) \ P
<1>1. SUFFICES ASSUME Out # {}
               PROVE  FALSE
  OBVIOUS
<1>2. PICK k \in Out : \A m \in Out : k <= m
  <2>1. Out \subseteq Nat
    OBVIOUS
  <2> QED  BY <1>1, <2>1, LeastNumber
<1>3. k \in 1 .. n /\ k - 1 \in 0 .. n /\ ~(k <= k - 1)
  <2>1. k \in 0 .. n /\ k # 0
    BY <1>2
  <2> QED  BY <2>1
<1>4. k - 1 \notin Out
  BY <1>2, <1>3
<1> QED  BY <1>2, <1>3, <1>4

LEMMA ConcatHas ==
    ASSUME NEW S, NEW s \in Seq(S), NEW t \in Seq(S)
    PROVE  s \o t \in Seq(S) /\ ToSet(s \o t) = ToSet(s) \cup ToSet(t)
<1> DEFINE u == s \o t
<1>1. /\ Len(u) = Len(s) + Len(t) /\ u \in Seq(S)
      /\ \A i \in 1 .. Len(s) : u[i] = s[i]
      /\ \A i \in 1 .. Len(t) : u[Len(s) + i] = t[i]
      /\ \A i \in 1 .. Len(u) : i <= Len(s) \/ (i - Len(s) \in 1 .. Len(t) /\ u[i] = t[i - Len(s)])
      /\ Len(s) \in Nat /\ Len(t) \in Nat
      /\ DOMAIN s = 1 .. Len(s) /\ DOMAIN t = 1 .. Len(t) /\ DOMAIN u = 1 .. Len(u)
  OBVIOUS
<1> HIDE DEF u
<1>2. ASSUME NEW x \in ToSet(u) PROVE x \in ToSet(s) \cup ToSet(t)
  <2>1. PICK i \in 1 .. Len(u) : x = u[i]
    BY <1>1 DEF ToSet
  <2>2. CASE i <= Len(s)
    <3>1. i \in DOMAIN s /\ x = s[i]
      BY <1>1, <2>1, <2>2
    <3> QED  BY <3>1 DEF ToSet
  <2>3. CASE ~(i <= Len(s))
    <3>1. i - Len(s) \in DOMAIN t /\ x = t[i - Len(s)]
      BY <1>1, <2>1, <2>3
    <3> QED  BY <3>1 DEF ToSet
  <2> QED  BY <2>2, <2>3
<1>3. ASSUME NEW x \in ToSet(s) PROVE x \in ToSet(u)
  <2>1. PICK i \in 1 .. Len(s) : x = s[i]
    BY <1>1 DEF ToSet
  <2>2. i \in DOMAIN u /\ u[i] = x
    BY <1>1, <2>1
  <2> QED  BY <2>2 DEF ToSet
<1>4. ASSUME NEW x \in ToSet(t) PROVE x \in ToSet(u)
  <2>1. PICK i \in 1 .. Len(t) : x = t[i]
    BY <1>1 DEF ToSet
  <2>2. Len(s) + i \in DOMAIN u /\ u[Len(s) + i] = x
    BY <1>1, <2>1
  <2> QED  BY <2>2 DEF ToSet
<1> QED  BY <1>1, <1>2, <1>3, <1>4 DEF u

\* FlattenSeq, step by step.
FlatOf(s, f, i) == IF i = 1 THEN s[i] ELSE f[i - 1] \o s[i]
IsFlat(s, n, f) == f = [i \in 1 .. n |-> FlatOf(s, f, i)]

LEMMA FlatExists ==
    ASSUME NEW s, NEW n \in Nat
    PROVE  \E f : IsFlat(s, n, f)
<1> DEFINE P == {k \in 0 .. n : \E f : IsFlat(s, k, f)}
<1>1. 0 \in P
  <2> DEFINE f == [i \in 1 .. 0 |-> s]
  <2>1. IsFlat(s, 0, f)
    BY DEF IsFlat
  <2> QED  BY <2>1
<1>2. ASSUME NEW k \in 1 .. n, k - 1 \in P
      PROVE  k \in P
  <2>1. PICK less : IsFlat(s, k - 1, less)
    BY <1>2
  <2> DEFINE f == [i \in 1 .. k |-> FlatOf(s, less, i)]
  <2>2. ASSUME NEW i \in 1 .. k
        PROVE  FlatOf(s, less, i) = FlatOf(s, f, i)
    <3>1. CASE i = 1
      BY <3>1 DEF FlatOf
    <3>2. CASE i # 1
      <4>1. i - 1 \in 1 .. k - 1 /\ i - 1 \in 1 .. k
        BY <3>2
      <4>2. less[i - 1] = FlatOf(s, less, i - 1)
        BY <2>1, <4>1 DEF IsFlat
      <4>3. f[i - 1] = less[i - 1]
        BY <4>1, <4>2
      <4> QED  BY <3>2, <4>3 DEF FlatOf
    <3> QED  BY <3>1, <3>2
  <2>3. f = [i \in 1 .. k |-> FlatOf(s, f, i)]
    BY <2>2
  <2>4. IsFlat(s, k, f)
    BY <2>3 DEF IsFlat
  <2> QED  BY <2>4
<1> HIDE DEF P
<1>3. n \in P
  <2>1. 0 .. n \subseteq P
    BY <1>1, <1>2, UpTo
  <2> QED  BY <2>1
<1> QED  BY <1>3 DEF P

LEMMA FlattenHas ==
    ASSUME NEW S, NEW n \in Nat, NEW s \in [1 .. n -> Seq(S)]
    PROVE  /\ FlattenSeq(s) \in Seq(S)
           /\ \A x : x \in ToSet(FlattenSeq(s)) <=> \E i \in 1 .. n : x \in ToSet(s[i])
<1>1. Len(s) = n
  OBVIOUS
<1>2. CASE n = 0
  <2>1. FlattenSeq(s) = s /\ s = <<>>
    BY <1>1, <1>2 DEF FlattenSeq
  <2> QED  BY <1>2, <2>1 DEF ToSet
<1>3. CASE n # 0
  <2> DEFINE f == CHOOSE g : g = [i \in 1 .. n |-> FlatOf(s, g, i)]
  <2>1. FlattenSeq(s) = f[n]
    <3>1. f = CHOOSE g : g = [i \in 1 .. n |-> IF i = 1 THEN s[i] ELSE g[i - 1] \o s[i]]
      BY DEF FlatOf
    <3> HIDE DEF f
    <3> QED  BY <1>1, <1>3, <3>1 DEF FlattenSeq
  <2>2. f = [i \in 1 .. n |-> FlatOf(s, f, i)]
    <3>1. \E g : IsFlat(s, n, g)
      BY FlatExists
    <3>2. f = CHOOSE g : IsFlat(s, n, g)
      BY DEF IsFlat
    <3>3. IsFlat(s, n, f)
      <4> HIDE DEF f
      <4> QED  BY <3>1, <3>2
    <3> HIDE DEF f
    <3> QED  BY <3>3 DEF IsFlat
  <2> HIDE DEF f
  <2>3. f[1] = s[1] /\ \A i \in 2 .. n : f[i] = f[i - 1] \o s[i]
    <3>1. \A i \in 1 .. n : f[i] = FlatOf(s, f, i)
      BY <2>2
    <3>2. f[1] = s[1]
      <4>1. 1 \in 1 .. n /\ FlatOf(s, f, 1) = s[1]
        BY <1>3 DEF FlatOf
      <4> QED  BY <3>1, <4>1
    <3>3. ASSUME NEW i \in 2 .. n PROVE f[i] = f[i - 1] \o s[i]
      <4>1. i \in 1 .. n /\ i # 1
        OBVIOUS
      <4>2. FlatOf(s, f, i) = f[i - 1] \o s[i]
        BY <4>1 DEF FlatOf
      <4> QED  BY <3>1, <4>1, <4>2
    <3> QED  BY <3>2, <3>3
  <2> DEFINE Good(k) == /\ f[k] \in Seq(S)
                        /\ \A x : x \in ToSet(f[k]) <=> \E i \in 1 .. k : x \in ToSet(s[i])
             P == {k \in 0 .. n : k = 0 \/ Good(k)}
  <2>4. 0 \in P
    OBVIOUS
  <2>5. ASSUME NEW k \in 1 .. n, k - 1 \in P PROVE k \in P
    <3>1. CASE k = 1
      <4>1. f[1] = s[1] /\ s[1] \in Seq(S) /\ 1 .. 1 = {1}
        BY <2>3, <1>3
      <4> QED  BY <3>1, <4>1
    <3>2. CASE k # 1
      <4>1. k \in 2 .. n /\ k - 1 \in 1 .. n /\ k - 1 # 0
        BY <3>2
      <4>2. Good(k - 1)
        BY <2>5, <4>1
      <4>3. f[k] = f[k - 1] \o s[k] /\ s[k] \in Seq(S)
        BY <2>3, <4>1
      <4>4. f[k] \in Seq(S) /\ ToSet(f[k]) = ToSet(f[k - 1]) \cup ToSet(s[k])
        BY <4>2, <4>3, ConcatHas
      <4>5. 1 .. k = (1 .. k - 1) \cup {k}
        BY <4>1
      <4>6. \A x : x \in ToSet(f[k]) <=> \E i \in 1 .. k : x \in ToSet(s[i])
        BY <4>2, <4>4, <4>5
      <4> QED  BY <4>4, <4>6
    <3> QED  BY <3>1, <3>2
  <2> HIDE DEF P
  <2>6. 0 .. n \subseteq P
    BY <2>4, <2>5, UpTo
  <2>7. n \in P
    BY <2>6
  <2>8. Good(n)
    BY <1>3, <2>7 DEF P
  <2> QED  BY <2>1, <2>8
<1> QED  BY <1>2, <1>3

(***************************************************************************)
(* The rounds of a least model.                                            *)
(***************************************************************************)

RoundOf(cs, K, f, i) == IF i = 0 THEN K ELSE Immediate(cs, f[i - 1])
IsRounds(cs, K, n, f) == f = [i \in 0 .. n |-> RoundOf(cs, K, f, i)]

LEMMA RoundsExist ==
    ASSUME NEW cs, NEW K, NEW n \in Nat
    PROVE  \E f : IsRounds(cs, K, n, f)
<1> DEFINE P == {k \in 0 .. n : \E f : IsRounds(cs, K, k, f)}
<1>1. 0 \in P
  <2> DEFINE f == [i \in 0 .. 0 |-> K]
  <2>1. IsRounds(cs, K, 0, f)
    BY DEF IsRounds, RoundOf
  <2> QED  BY <2>1
<1>2. ASSUME NEW k \in 1 .. n, k - 1 \in P
      PROVE  k \in P
  <2>1. PICK less : IsRounds(cs, K, k - 1, less)
    BY <1>2
  <2> DEFINE f == [i \in 0 .. k |-> RoundOf(cs, K, less, i)]
  <2>2. ASSUME NEW i \in 0 .. k
        PROVE  RoundOf(cs, K, less, i) = RoundOf(cs, K, f, i)
    <3>1. CASE i = 0
      BY <3>1 DEF RoundOf
    <3>2. CASE i # 0
      <4>1. i - 1 \in 0 .. k - 1 /\ i - 1 \in 0 .. k
        BY <3>2
      <4>2. less[i - 1] = RoundOf(cs, K, less, i - 1)
        BY <2>1, <4>1 DEF IsRounds
      <4>3. f[i - 1] = less[i - 1]
        BY <4>1, <4>2
      <4> QED  BY <3>2, <4>3 DEF RoundOf
    <3> QED  BY <3>1, <3>2
  <2>4. f = [i \in 0 .. k |-> RoundOf(cs, K, f, i)]
    BY <2>2
  <2>5. IsRounds(cs, K, k, f)
    BY <2>4 DEF IsRounds
  <2> QED  BY <2>5
<1> HIDE DEF P
<1>3. n \in P
  <2>1. 0 .. n \subseteq P
    BY <1>1, <1>2, UpTo
  <2> QED  BY <2>1
<1> QED  BY <1>3 DEF P

LEMMA RoundsAre ==
    ASSUME NEW cs, NEW K, NEW n \in Nat
    PROVE  \E at : /\ at[0] = K /\ at[n] = LeastModel(cs, K, n)
                   /\ \A i \in 1 .. n : at[i] = Immediate(cs, at[i - 1])
<1>1. PICK f : f = [i \in 0 .. n |-> RoundOf(cs, K, f, i)]
  BY RoundsExist DEF IsRounds
<1> DEFINE at == CHOOSE g : g = [i \in 0 .. n |-> RoundOf(cs, K, g, i)]
<1>2. LeastModel(cs, K, n) = at[n]
  BY DEF LeastModel, RoundOf
<1>3. at = [i \in 0 .. n |-> RoundOf(cs, K, at, i)]
  BY <1>1
<1> HIDE DEF at
<1>4. at[0] = K /\ \A i \in 1 .. n : at[i] = Immediate(cs, at[i - 1])
  BY <1>3 DEF RoundOf
<1> QED  BY <1>2, <1>4

\* Whatever holds of the facts and, if of what is known, of what follows in a
\* round, holds of the least model.
LEMMA ModelInduction ==
    ASSUME NEW cs, NEW K, NEW n \in Nat, NEW T, K \subseteq T,
           \A J \in SUBSET T :
               K \subseteq J /\ Immediate(cs, J) \subseteq LeastModel(cs, K, n)
                   => Immediate(cs, J) \subseteq T
    PROVE  LeastModel(cs, K, n) \subseteq T /\ K \subseteq LeastModel(cs, K, n)
<1>1. PICK at : /\ at[0] = K /\ at[n] = LeastModel(cs, K, n)
                /\ \A i \in 1 .. n : at[i] = Immediate(cs, at[i - 1])
  BY RoundsAre
<1>2. \A J : J \subseteq Immediate(cs, J)
  BY DEF Immediate
<1> DEFINE Down == {k \in 0 .. n : at[n - k] \subseteq at[n]}
           Up == {k \in 0 .. n : at[k] \subseteq T /\ K \subseteq at[k]}
<1>3. 0 .. n \subseteq Down
  <2>1. 0 \in Down
    BY <1>1
  <2>2. ASSUME NEW k \in 1 .. n, k - 1 \in Down
        PROVE  k \in Down
    <3>1. n - (k - 1) \in 1 .. n /\ (n - (k - 1)) - 1 = n - k
      OBVIOUS
    <3>2. at[n - (k - 1)] = Immediate(cs, at[n - k])
      BY <1>1, <3>1
    <3>3. at[n - (k - 1)] \subseteq at[n]
      BY <2>2
    <3> QED  BY <1>2, <3>2, <3>3
  <2> HIDE DEF Down
  <2> QED  BY <2>1, <2>2, UpTo
<1>4. \A i \in 0 .. n : at[i] \subseteq at[n]
  <2>1. ASSUME NEW i \in 0 .. n PROVE at[i] \subseteq at[n]
    <3>1. n - i \in 0 .. n /\ n - (n - i) = i
      OBVIOUS
    <3> QED  BY <1>3, <3>1
  <2> QED  BY <2>1
<1>5. 0 .. n \subseteq Up
  <2>1. 0 \in Up
    BY <1>1
  <2>2. ASSUME NEW k \in 1 .. n, k - 1 \in Up
        PROVE  k \in Up
    <3>1. at[k - 1] \in SUBSET T /\ K \subseteq at[k - 1]
      BY <2>2
    <3>2. at[k] = Immediate(cs, at[k - 1])
      BY <1>1
    <3>3. Immediate(cs, at[k - 1]) \subseteq LeastModel(cs, K, n)
      BY <1>1, <1>4, <3>2
    <3>4. at[k] \subseteq T
      BY <3>1, <3>2, <3>3
    <3> QED  BY <1>2, <3>1, <3>2, <3>4
  <2> HIDE DEF Up
  <2> QED  BY <2>1, <2>2, UpTo
<1> QED  BY <1>1, <1>5

LEMMA FactsInModel ==
    ASSUME NEW cs, NEW K, NEW n \in Nat
    PROVE  K \subseteq LeastModel(cs, K, n)
<1>1. K \subseteq LeastModel(cs, K, n) \cup K
  OBVIOUS
<1> QED  BY <1>1, ModelInduction, Zenon

(***************************************************************************)
(* Facts and instances.                                                    *)
(***************************************************************************)

Instance(l, theta) == Fact(Ground(l, theta))
IsFact(f) == f = Fact(f) /\ f.args \in Seq(ToSet(f.args))

LEMMA InstanceIs ==
    ASSUME NEW l, IsAdLiteral(l), NEW theta
    PROVE  /\ IsFact(Instance(l, theta)) /\ Instance(l, theta).op = l.op
           /\ Instance(l, theta).args = [i \in DOMAIN l.args |-> Value(l.args[i], theta)]
           /\ Len(Instance(l, theta).args) = Len(l.args)
<1> DEFINE args == [i \in DOMAIN l.args |-> Value(l.args[i], theta)]
<1>1. Ground(l, theta) = Adorned(l.op, args, l.ad, l.naf)
  BY DEF Ground, IsAdLiteral, Adorned
<1>2. Instance(l, theta) = [op |-> l.op, args |-> args]
  BY <1>1 DEF Instance, Fact, Adorned
<1>3. DOMAIN l.args = 1 .. Len(l.args) /\ Len(l.args) \in Nat
  BY DEF IsAdLiteral
<1>4. args = [i \in 1 .. Len(l.args) |-> args[i]]
  BY <1>3
<1>5. args \in Seq(ToSet(args)) /\ Len(args) = Len(l.args)
  <2> HIDE DEF args
  <2> QED  BY <1>3, <1>4, AppendNothing
<1> HIDE DEF args
<1> QED  BY <1>2, <1>5 DEF IsFact, Fact, args

LEMMA RenamedFact ==
    ASSUME NEW f, IsFact(f)
    PROVE  /\ IsFact(Renamed(f)) /\ Renamed(f).args = f.args
           /\ Renamed(f).op = (IF f.op \in Hybrid THEN DerivedName[f.op] ELSE f.op)
           /\ f.op \notin Hybrid => Renamed(f) = f
<1>1. CASE f.op \in Hybrid
  <2>1. Renamed(f) = [op |-> DerivedName[f.op], args |-> f.args]
    BY <1>1 DEF Renamed, IsFact, Fact
  <2> QED  BY <1>1, <2>1 DEF IsFact, Fact
<1>2. CASE f.op \notin Hybrid
  BY <1>2 DEF Renamed
<1> QED  BY <1>1, <1>2

LEMMA SameFact ==
    ASSUME NEW f, IsFact(f), NEW g, IsFact(g), f.op = g.op, f.args = g.args
    PROVE  f = g
BY DEF IsFact, Fact

LEMMA InstanceIsFact ==
    ASSUME NEW l, IsAdLiteral(l), NEW theta
    PROVE  /\ IsFact(Instance(l, theta)) /\ Instance(l, theta).op = l.op
           /\ Len(Instance(l, theta).args) = Len(l.args)
BY InstanceIs

\* What one literal says under a substitution another says that differs from it in
\* the name alone.
LEMMA SameArgs ==
    ASSUME NEW l, IsAdLiteral(l), NEW m, IsAdLiteral(m), l.args = m.args, NEW theta
    PROVE  Instance(l, theta).args = Instance(m, theta).args
<1> DEFINE Values(args) == [i \in DOMAIN args |-> Value(args[i], theta)]
<1>1. Instance(l, theta).args = Values(l.args) /\ Instance(m, theta).args = Values(m.args)
  BY InstanceIs
<1> HIDE DEF Values
<1> QED  BY <1>1

LEMMA SameInstance ==
    ASSUME NEW l, IsAdLiteral(l), NEW m, IsAdLiteral(m), l.op = m.op, l.args = m.args,
           NEW theta
    PROVE  Instance(l, theta) = Instance(m, theta) /\ Instance(m, theta).op = m.op
<1> DEFINE x == Instance(l, theta)
           y == Instance(m, theta)
<1>1. IsFact(x) /\ x.op = l.op
  BY InstanceIsFact
<1>2. IsFact(y) /\ y.op = m.op
  BY InstanceIsFact
<1>3. x.args = y.args
  BY SameArgs
<1> HIDE DEF x, y
<1>4. x = y
  BY <1>1, <1>2, <1>3, SameFact
<1> QED  BY <1>2, <1>4 DEF x, y

VarsOfRule(c) == VarsOf(c.head) \cup VarsOfAll(c.body)

LEMMA Solves ==
    ASSUME NEW c, NEW K, NEW theta
    PROVE  theta \in BodySolutions(c, K) <=>
              /\ theta \in [VarsOfRule(c) -> Terms(K)]
              /\ \A i \in DOMAIN c.body :
                    Satisfied(c.body[i], theta, K)
BY Zenon DEF BodySolutions, VarsOfRule

\* A literal is satisfied by its instance, or without it if it is negated.
LEMMA SatisfiedIs ==
    ASSUME NEW l, NEW K, NEW theta
    PROVE  /\ l.naf = FALSE => (Satisfied(l, theta, K) <=> Instance(l, theta) \in K)
           /\ l.naf = TRUE => (Satisfied(l, theta, K) <=> Instance(l, theta) \notin K)
BY DEF Satisfied, Instance

LEMMA Concludes ==
    ASSUME NEW cs, NEW K, NEW x
    PROVE  x \in Immediate(cs, K) <=>
              \/ x \in K
              \/ \E c \in cs : \E theta \in BodySolutions(c, K) : x = Instance(c.head, theta)
BY DEF Immediate, Instance

LEMMA TermOf ==
    ASSUME NEW K, NEW f \in K, NEW i \in DOMAIN f.args
    PROVE  f.args[i] \in Terms(K)
BY DEF Terms, ToSet

\* A version has the variables of its rule, and their literals correspond.
LEMMA VersionMatches ==
    ASSUME NEW q, NEW c, IsVersion(q, c)
    PROVE  /\ VarsOfRule(q) = VarsOfRule(c)
           /\ \A j \in DOMAIN q.body : \E k \in DOMAIN c.body :
                 /\ Renamed(q.body[j]).op = Renamed(c.body[k]).op
                 /\ q.body[j].args = c.body[k].args /\ q.body[j].naf = c.body[k].naf
           /\ \A k \in DOMAIN c.body : \E j \in DOMAIN q.body :
                 /\ Renamed(q.body[j]).op = Renamed(c.body[k]).op
                 /\ q.body[j].args = c.body[k].args /\ q.body[j].naf = c.body[k].naf
<1>1. \A j \in DOMAIN q.body : \E k \in DOMAIN c.body :
         /\ Renamed(q.body[j]).op = Renamed(c.body[k]).op
         /\ q.body[j].args = c.body[k].args /\ q.body[j].naf = c.body[k].naf
  <2> TAKE j \in DOMAIN q.body
  <2>1. <<Renamed(q.body[j]).op, q.body[j].args, q.body[j].naf>> \in AtomsOf(c.body)
    BY DEF IsVersion, AtomsOf
  <2> QED  BY <2>1 DEF AtomsOf
<1>2. \A k \in DOMAIN c.body : \E j \in DOMAIN q.body :
         /\ Renamed(q.body[j]).op = Renamed(c.body[k]).op
         /\ q.body[j].args = c.body[k].args /\ q.body[j].naf = c.body[k].naf
  <2> TAKE k \in DOMAIN c.body
  <2>1. <<Renamed(c.body[k]).op, c.body[k].args, c.body[k].naf>> \in AtomsOf(q.body)
    BY DEF IsVersion, AtomsOf
  <2> QED  BY <2>1 DEF AtomsOf
<1>3. VarsOfAll(q.body) = VarsOfAll(c.body)
  <2>1. ASSUME NEW v \in VarsOfAll(q.body) PROVE v \in VarsOfAll(c.body)
    BY <1>1 DEF VarsOfAll, VarsOf, Args
  <2>2. ASSUME NEW v \in VarsOfAll(c.body) PROVE v \in VarsOfAll(q.body)
    BY <1>2 DEF VarsOfAll, VarsOf, Args
  <2> QED  BY <2>1, <2>2
<1>4. VarsOf(q.head) = VarsOf(c.head)
  BY DEF IsVersion, VarsOf, Args
<1> QED  BY <1>1, <1>2, <1>3, <1>4 DEF VarsOfRule

(***************************************************************************)
(* The two models, over any facts K with names of the caller.              *)
(***************************************************************************)

RulesModel(K) == LeastModel(Clauses(given.rules), K, Rounds)
AdornedModel(K) == LeastModel(answered.adorned_program, K, Rounds)
Ready(K) ==
    /\ IInv /\ AnswersInv /\ answered # <<>> /\ WellPosed
    /\ \A f \in K : IsFact(f) /\ IsOldName(f.op)
    /\ Immediate(Clauses(given.rules), RulesModel(K)) = RulesModel(K)
    /\ Immediate(answered.adorned_program, AdornedModel(K)) = AdornedModel(K)

LEMMA ReadyIs ==
    ASSUME NEW K, Ready(K)
    PROVE  /\ given \in Scenarios /\ Handed(answered.adorned_program)
           /\ \A i \in DOMAIN given.rules : IsRule(given.rules[i])
           /\ K \subseteq RulesModel(K) /\ K \subseteq AdornedModel(K)
           /\ \A f \in K : IsFact(f)
           /\ Immediate(Clauses(given.rules), RulesModel(K)) = RulesModel(K)
           /\ Immediate(answered.adorned_program, AdornedModel(K)) = AdornedModel(K)
<1>1. given \in Scenarios /\ Handed(answered.adorned_program)
  BY DEF Ready, IInv, AnswersInv, Setting
<1>2. \A i \in DOMAIN given.rules : IsRule(given.rules[i])
  BY <1>1, ScenariosAssumption
<1>3. \A f \in K : IsFact(f)
  BY DEF Ready
<1>4. K \subseteq RulesModel(K) /\ K \subseteq AdornedModel(K)
  BY FactsInModel, RoundsAssumption DEF RulesModel, AdornedModel
<1>5. /\ Immediate(Clauses(given.rules), RulesModel(K)) = RulesModel(K)
      /\ Immediate(answered.adorned_program, AdornedModel(K)) = AdornedModel(K)
  BY DEF Ready
<1> QED  BY <1>1, <1>2, <1>3, <1>4, <1>5

LEMMA GivenReady ==
    ASSUME IInv, AnswersInv, answered # <<>>, WellPosed, RoundsSuffice, NEW K, K = given.facts
    PROVE  Ready(K)
<1>1. given \in Scenarios
  BY DEF IInv, Setting
<1>2. \A f \in K : IsFact(f)
  BY <1>1, ScenariosAssumption DEF IsFact
<1>3. \A f \in K : IsOldName(f.op)
  BY DEF WellPosed, PredicatesOf, IsOldName
<1>4. /\ Immediate(Clauses(given.rules), RulesModel(K)) = RulesModel(K)
      /\ Immediate(answered.adorned_program, AdornedModel(K)) = AdornedModel(K)
  BY DEF RoundsSuffice, IsReached, RulesModel, AdornedModel
<1> QED  BY <1>2, <1>3, <1>4 DEF Ready

\* The names that occur.
LEMMA NamesUsed ==
    ASSUME NEW K, Ready(K), NEW i \in DOMAIN given.rules
    PROVE  /\ given.rules[i].head.op \in Heads(given.rules) \cap PredicatesOf(given)
           /\ \A k \in DOMAIN given.rules[i].body :
                 /\ given.rules[i].body[k] \in BodyLiterals(given.rules)
                 /\ given.rules[i].body[k].op \in PredicatesOf(given)
<1>1. IsRule(given.rules[i])
  BY ReadyIs
<1>2. given.rules[i].head.op \in Heads(given.rules)
  BY <1>1 DEF Heads, IsRule
<1>3. \A k \in DOMAIN given.rules[i].body : given.rules[i].body[k] \in BodyLiterals(given.rules)
  BY DEF BodyLiterals, ToSet
<1> QED  BY <1>2, <1>3 DEF PredicatesOf

\* What is known is a fact of a predicate in use; what no rule concludes was given.
LEMMA ModelFacts ==
    ASSUME NEW K, Ready(K)
    PROVE  \A f \in RulesModel(K) : /\ IsFact(f) /\ IsOldName(f.op)
                                    /\ f.op \notin Heads(given.rules) => f \in K
<1> DEFINE G == Clauses(given.rules)
           Fine(f) == /\ IsFact(f) /\ IsOldName(f.op)
                      /\ f.op \notin Heads(given.rules) => f \in K
           T == {f \in RulesModel(K) : Fine(f)}
<1>1. K \subseteq T
  <2>1. \A f \in K : IsFact(f) /\ IsOldName(f.op)
    BY DEF Ready
  <2> QED  BY <2>1, ReadyIs
<1>2. ASSUME NEW J \in SUBSET T, K \subseteq J, Immediate(G, J) \subseteq RulesModel(K)
      PROVE  Immediate(G, J) \subseteq T
  <2> SUFFICES ASSUME NEW x \in Immediate(G, J) PROVE Fine(x)
    BY <1>2
  <2>1. CASE x \in J
    BY <2>1
  <2>2. CASE x \notin J
    <3>1. PICK c \in G : \E theta \in BodySolutions(c, J) : x = Instance(c.head, theta)
      BY <2>2, Concludes
    <3>2. PICK theta : x = Instance(c.head, theta)
      BY <3>1
    <3>3. PICK i \in DOMAIN given.rules : c = given.rules[i]
      BY DEF Clauses
    <3>4. IsAdLiteral(c.head)
      BY <3>3, ReadyIs, LiteralIsAdLiteral DEF IsRule
    <3>5. IsFact(x) /\ x.op = c.head.op
      BY <3>2, <3>4, InstanceIs
    <3>6. IsOldName(c.head.op) /\ c.head.op \in Heads(given.rules)
      BY <3>3, NamesUsed DEF Ready, WellPosed, IsOldName
    <3> QED  BY <3>5, <3>6
  <2> QED  BY <2>1, <2>2
<1> HIDE DEF T
<1>3. RulesModel(K) \subseteq T
  BY <1>1, <1>2, ModelInduction, RoundsAssumption DEF RulesModel
<1> QED  BY <1>3 DEF T

\* A name made up for a hybrid predicate is known by the name only.
LEMMA NamesApart ==
    ASSUME NEW K, Ready(K), NEW p \in Hybrid
    PROVE  /\ DerivedName[p] \notin Hybrid
           /\ \A f \in RulesModel(K) : f.op # DerivedName[p]
           /\ \A i \in DOMAIN given.rules :
                 /\ given.rules[i].head.op # DerivedName[p]
                 /\ \A k \in DOMAIN given.rules[i].body : given.rules[i].body[k].op # DerivedName[p]
<1>1. DerivedName[p] \notin PredicatesOf(given)
  BY DEF Ready, WellPosed
<1>2. \A f \in RulesModel(K) : f.op # DerivedName[p]
  BY ModelFacts DEF IsOldName
<1> QED  BY <1>1, <1>2, NamesUsed, HybridAssumption

(***************************************************************************)
(* No more: what the adorned program knows the rules know, under the other *)
(* name for hybrid predicates.                                             *)
(***************************************************************************)

BothNames(K) == RulesModel(K) \cup {Renamed(f) : f \in RulesModel(K)}

LEMMA KnownIs ==
    ASSUME NEW K, Ready(K), NEW x \in BothNames(K)
    PROVE  /\ IsFact(x)
           /\ \E f \in RulesModel(K) : /\ f.args = x.args
                                   /\ (x = f \/ (f.op \in Hybrid /\ x.op = DerivedName[f.op]))
<1>1. CASE x \in RulesModel(K)
  <2>1. IsFact(x)
    BY <1>1, ModelFacts
  <2> QED  BY <1>1, <2>1
<1>2. CASE x \notin RulesModel(K)
  <2>1. PICK f \in RulesModel(K) : x = Renamed(f)
    BY <1>2 DEF BothNames
  <2>2. IsFact(f)
    BY ModelFacts
  <2>3. f.op \in Hybrid
    BY <1>2, <2>1, <2>2, RenamedFact
  <2> QED  BY <2>1, <2>2, <2>3, RenamedFact
<1> QED  BY <1>1, <1>2

\* An instance of a renamed literal is known where that of the literal is a fact.
LEMMA KnownFact ==
    ASSUME NEW K, Ready(K), NEW l, IsAdLiteral(l), IsOldName(l.op),
           NEW m, IsAdLiteral(m), m.op = Renamed(l).op, m.args = l.args,
           NEW theta, Instance(m, theta) \in BothNames(K)
    PROVE  Instance(l, theta) \in RulesModel(K)
<1> DEFINE y == Instance(m, theta)
           z == Instance(l, theta)
<1>1. IsFact(z) /\ z.op = l.op /\ z.args = y.args /\ y.op = m.op
  <2>1. IsFact(z) /\ z.op = l.op
    BY InstanceIsFact
  <2>2. y.op = m.op
    BY InstanceIsFact
  <2> QED  BY <2>1, <2>2, SameArgs
<1>2. m.op = IF l.op \in Hybrid THEN DerivedName[l.op] ELSE l.op
  BY RenamedType
<1>3. PICK f \in RulesModel(K) : /\ f.args = y.args
                                 /\ (y = f \/ (f.op \in Hybrid /\ y.op = DerivedName[f.op]))
  BY KnownIs
<1> HIDE DEF y, z
<1>4. IsFact(f)
  BY ModelFacts
<1>5. CASE y = f
  <2>1. l.op \notin Hybrid
    BY <1>1, <1>2, <1>5, NamesApart
  <2>2. z = f
    BY <1>1, <1>2, <1>4, <1>5, <2>1, SameFact
  <2> QED  BY <2>2 DEF z
<1>6. CASE f.op \in Hybrid /\ y.op = DerivedName[f.op]
  <2>1. l.op \in Hybrid
    BY <1>1, <1>2, <1>6 DEF IsOldName
  <2>2. f.op = l.op
    BY <1>1, <1>2, <1>6, <2>1, HybridAssumption
  <2>3. z.args = f.args /\ z.op = f.op
    BY <1>1, <1>3, <2>2
  <2>4. z = f
    BY <1>1, <1>4, <2>3, SameFact
  <2> QED  BY <2>4 DEF z
<1> QED  BY <1>3, <1>5, <1>6

LEMMA OldNames ==
    ASSUME NEW K, Ready(K), NEW i \in DOMAIN given.rules
    PROVE  /\ IsRule(given.rules[i])
           /\ IsAdLiteral(given.rules[i].head) /\ IsOldName(given.rules[i].head.op)
           /\ \A k \in DOMAIN given.rules[i].body :
                 /\ IsAdLiteral(given.rules[i].body[k]) /\ IsOldName(given.rules[i].body[k].op)
                 /\ given.rules[i].body[k].naf \in BOOLEAN
                 /\ given.rules[i].body[k].naf =>
                       given.rules[i].body[k].op \notin Heads(given.rules) \cup Hybrid
<1>1. IsRule(given.rules[i])
  BY ReadyIs
<1>2. IsLiteral(given.rules[i].head) /\ \A k \in DOMAIN given.rules[i].body :
         IsLiteral(given.rules[i].body[k]) /\ given.rules[i].body[k].naf \in BOOLEAN
  BY <1>1 DEF IsRule, IsLiteral
<1>3. IsAdLiteral(given.rules[i].head) /\ \A k \in DOMAIN given.rules[i].body :
         IsAdLiteral(given.rules[i].body[k])
  BY <1>2, LiteralIsAdLiteral
<1>4. \A k \in DOMAIN given.rules[i].body : given.rules[i].body[k].naf =>
         given.rules[i].body[k].op \notin Heads(given.rules) \cup Hybrid
  BY NamesUsed DEF Ready, WellPosed
<1> QED  BY <1>1, <1>2, <1>3, <1>4, NamesApart DEF IsOldName

\* What a version concludes from what is known, its rule concludes.
LEMMA VersionSound ==
    ASSUME NEW K, Ready(K), NEW J \in SUBSET BothNames(K), K \subseteq J,
           NEW i \in DOMAIN given.rules, NEW q, IsAdRule(q), RenamedBody(q),
           IsVersion(q, given.rules[i]), NEW theta \in BodySolutions(q, J)
    PROVE  Instance(q.head, theta) \in BothNames(K)
<1> DEFINE c == given.rules[i]
<1>1. /\ VarsOfRule(q) = VarsOfRule(c)
      /\ \A k \in DOMAIN c.body : \E j \in DOMAIN q.body :
            /\ Renamed(q.body[j]).op = Renamed(c.body[k]).op
            /\ q.body[j].args = c.body[k].args /\ q.body[j].naf = c.body[k].naf
  BY VersionMatches
<1>2. /\ theta \in [VarsOfRule(q) -> Terms(J)]
      /\ \A j \in DOMAIN q.body : Satisfied(q.body[j], theta, J)
  BY Solves
<1>3. Terms(J) \subseteq Terms(RulesModel(K))
  <2>1. ASSUME NEW x \in J PROVE ToSet(x.args) \subseteq Terms(RulesModel(K))
    <3>1. x \in BothNames(K)
      OBVIOUS
    <3>2. PICK f \in RulesModel(K) : f.args = x.args
      BY <3>1, KnownIs
    <3> QED  BY <3>2 DEF Terms
  <2> QED  BY <2>1 DEF Terms
<1>4. theta \in [VarsOfRule(c) -> Terms(RulesModel(K))]
  BY <1>1, <1>2, <1>3
<1>5. ASSUME NEW k \in DOMAIN c.body PROVE Satisfied(c.body[k], theta, RulesModel(K))
  <2> DEFINE l == c.body[k]
  <2>1. PICK j \in DOMAIN q.body :
            /\ Renamed(q.body[j]).op = Renamed(l).op
            /\ q.body[j].args = l.args /\ q.body[j].naf = l.naf
    BY <1>1
  <2> DEFINE m == q.body[j]
  <2>2. IsAdLiteral(m) /\ m.op \notin Hybrid
    BY DEF IsAdRule, RenamedBody
  <2>3. IsAdLiteral(l) /\ IsOldName(l.op) /\ l.naf \in BOOLEAN
        /\ (l.naf => l.op \notin Heads(given.rules) \cup Hybrid)
    BY OldNames
  <2>4. Satisfied(m, theta, J)
    BY <1>2
  <2>5. m.args = l.args /\ m.naf = l.naf /\ Renamed(m).op = Renamed(l).op
    BY <2>1
  <2> HIDE DEF c, l, m
  <2>6. m.op = Renamed(l).op
    BY <2>2, <2>5, RenamedType
  <2>7. CASE l.naf = FALSE
    <3>1. Instance(m, theta) \in J
      BY <2>3, <2>4, <2>5, <2>7, SatisfiedIs
    <3>2. Instance(l, theta) \in RulesModel(K)
      BY <2>2, <2>3, <2>5, <2>6, <3>1, KnownFact
    <3> QED  BY <2>3, <2>7, <3>2, SatisfiedIs DEF l
  <2>8. CASE l.naf = TRUE
    <3>1. Instance(m, theta) \notin J
      BY <2>3, <2>4, <2>5, <2>8, SatisfiedIs
    <3>2. m.op = l.op
      BY <2>3, <2>6, <2>8, RenamedType
    <3>3. Instance(m, theta) = Instance(l, theta) /\ Instance(l, theta).op = l.op
      BY <2>2, <2>3, <2>5, <3>2, SameInstance
    <3>4. Instance(l, theta) \notin RulesModel(K)
      BY <2>3, <2>8, <3>1, <3>3, ModelFacts
    <3> QED  BY <2>3, <2>8, <3>4, SatisfiedIs DEF l
  <2> QED  BY <2>3, <2>7, <2>8
<1>6. theta \in BodySolutions(c, RulesModel(K))
  <2> HIDE DEF c
  <2> QED  BY <1>4, <1>5, Solves
<1>7. c \in Clauses(given.rules)
  BY DEF Clauses
<1>8. Instance(c.head, theta) \in RulesModel(K)
  <2> HIDE DEF c
  <2> QED  BY <1>6, <1>7, ReadyIs, Concludes
<1>9. Instance(q.head, theta) = Renamed(Instance(c.head, theta))
  <2>1. q.head.op = Renamed(c.head).op /\ q.head.args = c.head.args
    BY DEF IsVersion
  <2>2. IsAdLiteral(c.head) /\ IsAdLiteral(q.head)
    BY OldNames DEF IsAdRule
  <2> HIDE DEF c
  <2>3. Renamed(c.head).op = IF c.head.op \in Hybrid THEN DerivedName[c.head.op] ELSE c.head.op
    BY <2>2, RenamedType
  <2> DEFINE x == Instance(q.head, theta)
             z == Instance(c.head, theta)
  <2>4. IsFact(x) /\ x.op = q.head.op /\ IsFact(z) /\ z.op = c.head.op /\ x.args = z.args
    <3>1. IsFact(x) /\ x.op = q.head.op
      BY <2>2, InstanceIsFact
    <3>2. IsFact(z) /\ z.op = c.head.op
      BY <2>2, InstanceIsFact
    <3> QED  BY <2>1, <2>2, <3>1, <3>2, SameArgs
  <2> HIDE DEF x, z
  <2>5. x = Renamed(z)
    BY <2>1, <2>3, <2>4, RenamedFact, SameFact
  <2> QED  BY <2>5 DEF x, z
<1> QED  BY <1>8, <1>9 DEF BothNames

BridgeArgs(ad) == SubSeq(BridgeVars, 1, Len(ad))

LEMMA BridgeArgsAre ==
    ASSUME NEW ad, Len(ad) \in 1 .. Len(BridgeVars)
    PROVE  /\ BridgeArgs(ad) \in Seq(ToSet(BridgeArgs(ad))) /\ Len(BridgeArgs(ad)) = Len(ad)
           /\ \A i \in 1 .. Len(ad) : BridgeArgs(ad)[i] = BridgeVars[i]
<1> DEFINE args == BridgeArgs(ad)
<1>1. args = [i \in 1 .. Len(ad) |-> BridgeVars[i]]
  BY BridgeLen, ScenariosAssumption DEF BridgeArgs
<1>2. Len(ad) \in Nat /\ args = [i \in 1 .. Len(ad) |-> args[i]]
  BY <1>1, BridgeLen
<1>3. \A i \in 1 .. Len(ad) : args[i] = BridgeVars[i]
  BY <1>1
<1> HIDE DEF args
<1>4. args \in Seq(ToSet(args)) /\ Len(args) = Len(ad)
  BY <1>2, AppendNothing
<1> QED  BY <1>3, <1>4 DEF args

LEMMA BridgeIs ==
    ASSUME NEW p \in Hybrid, NEW ad, Len(ad) \in 1 .. Len(BridgeVars), NEW args,
           args = BridgeArgs(ad)
    PROVE  /\ Bridge(p, ad) = [head |-> Adorned(DerivedName[p], args, ad, FALSE),
                               body |-> <<Lit(p, args)>>]
           /\ IsAdLiteral(Lit(p, args))
<1>1. Bridge(p, ad) = [head |-> Adorned(DerivedName[p], args, ad, FALSE),
                       body |-> <<Lit(p, args)>>]
  BY DEF Bridge, BridgeArgs
<1>2. args \in Seq(ToSet(args)) /\ Len(args) = Len(ad)
  BY BridgeArgsAre
<1>3. /\ Lit(p, args).args = args /\ Lit(p, args).ad = <<>>
      /\ Lit(p, args).op = p /\ Lit(p, args).naf = FALSE
  BY DEF Lit, Adorned
<1>4. IsAdLiteral(Lit(p, args))
  BY <1>2, <1>3 DEF IsAdLiteral, IsAdorned, Lit
<1> QED  BY <1>1, <1>4

\* The rule that feeds a hybrid predicate gives its facts the other name.
LEMMA BridgeSound ==
    ASSUME NEW K, Ready(K), NEW J \in SUBSET BothNames(K), NEW q, IsAdRule(q), IsBridge(q),
           NEW theta \in BodySolutions(q, J)
    PROVE  Instance(q.head, theta) \in BothNames(K)
<1>0. PICK p \in Hybrid :
         \E ad : Len(ad) \in 1 .. Len(BridgeVars) /\ q = Bridge(p, ad)
  BY DEF IsBridge
<1>1. PICK ad : Len(ad) \in 1 .. Len(BridgeVars) /\ q = Bridge(p, ad)
  BY <1>0
<1> DEFINE l == q.body[1]
           x == Instance(q.head, theta)
           y == Instance(l, theta)
<1>2. /\ q.head.op = DerivedName[p] /\ IsAdLiteral(l)
      /\ DOMAIN q.body = {1} /\ l.op = p /\ l.naf = FALSE /\ l.args = q.head.args
  <2> DEFINE args == BridgeArgs(ad)
  <2> HIDE DEF args
  <2>1. /\ q = [head |-> Adorned(DerivedName[p], args, ad, FALSE), body |-> <<Lit(p, args)>>]
        /\ IsAdLiteral(Lit(p, args))
    BY <1>1, BridgeIs DEF args
  <2>2. q.head = Adorned(DerivedName[p], args, ad, FALSE)
        /\ DOMAIN q.body = {1} /\ l = Lit(p, args)
    BY <2>1
  <2> HIDE DEF l
  <2> QED  BY <2>1, <2>2 DEF Lit, Adorned
<1>3. y \in J
  <2>1. Satisfied(l, theta, J)
    BY <1>2, Solves
  <2> HIDE DEF l
  <2> QED  BY <1>2, <2>1, SatisfiedIs
<1>4. IsAdLiteral(q.head)
  BY DEF IsAdRule
<1>5. IsFact(x) /\ x.op = DerivedName[p]
  BY <1>2, <1>4, InstanceIsFact
<1>6. IsFact(y) /\ y.op = p
  BY <1>2, InstanceIsFact
<1>7. x.args = y.args
  BY <1>2, <1>4, SameArgs
<1> HIDE DEF x, y, l
<1>8. PICK f \in RulesModel(K) : /\ f.args = y.args
                             /\ (y = f \/ (f.op \in Hybrid /\ y.op = DerivedName[f.op]))
  <2>1. y \in BothNames(K)
    BY <1>3
  <2> QED  BY <2>1, KnownIs
<1>9. y = f
  BY <1>6, <1>8, NamesApart
<1>10. x = Renamed(y)
  BY <1>5, <1>6, <1>7, RenamedFact, SameFact
<1> QED  BY <1>8, <1>9, <1>10 DEF BothNames, x

LEMMA NoMore ==
    ASSUME NEW K, Ready(K)
    PROVE  AdornedModel(K) \subseteq BothNames(K)
<1> DEFINE P == answered.adorned_program
<1>1. K \subseteq BothNames(K)
  BY ReadyIs DEF BothNames
<1>2. ASSUME NEW J \in SUBSET BothNames(K), K \subseteq J
      PROVE  Immediate(P, J) \subseteq BothNames(K)
  <2> SUFFICES ASSUME NEW x \in Immediate(P, J) PROVE x \in BothNames(K)
    OBVIOUS
  <2>1. CASE x \in J
    BY <2>1
  <2>2. CASE x \notin J
    <3>1. PICK q \in P : \E theta \in BodySolutions(q, J) : x = Instance(q.head, theta)
      BY <2>2, Concludes
    <3>2. PICK theta \in BodySolutions(q, J) : x = Instance(q.head, theta)
      BY <3>1
    <3>3. IsAdRule(q) /\ IsMade(q)
      BY ReadyIs DEF Handed
    <3>4. CASE IsBridge(q)
      BY <3>2, <3>3, <3>4, BridgeSound
    <3>5. CASE RenamedBody(q) /\ \E i \in DOMAIN given.rules : IsVersion(q, given.rules[i])
      BY <1>2, <3>2, <3>3, <3>5, VersionSound
    <3> QED  BY <3>3, <3>4, <3>5 DEF IsMade
  <2> QED  BY <2>1, <2>2
<1> HIDE DEF P
<1>3. LeastModel(P, K, Rounds) \subseteq BothNames(K)
  BY <1>1, <1>2, ModelInduction, RoundsAssumption
<1> QED  BY <1>3 DEF AdornedModel, P

(***************************************************************************)
(* No fewer: what the goal or a body of the adorned program asks for, and  *)
(* the rules know, the adorned program knows.                              *)
(***************************************************************************)

AskedFor(f) ==
    \/ f.op = goal.op /\ Len(f.args) = Len(goal.args)
    \/ \E q \in answered.adorned_program : \E k \in DOMAIN q.body :
          q.body[k].op = Renamed(f).op /\ Len(q.body[k].args) = Len(f.args)

LEMMA GoalName ==
    ASSUME NEW K, Ready(K)
    PROVE  IsAdLiteral(goal) /\ goal.op \notin Hybrid /\ IsOldName(goal.op) /\ Renamed(goal) = goal
<1>1. IsAdLiteral(goal)
  BY ReadyIs, LiteralIsAdLiteral DEF Handed
<1>2. goal.op \notin Hybrid /\ IsOldName(goal.op)
  BY DEF Ready, WellPosed, IsOldName
<1> QED  BY <1>1, <1>2 DEF Renamed

\* A rule that concludes what is asked for has a version.
LEMMA RuleAsked ==
    ASSUME NEW K, Ready(K), NEW i \in DOMAIN given.rules, NEW x, IsFact(x), AskedFor(x),
           x.op = given.rules[i].head.op, Len(x.args) = Len(given.rules[i].head.args)
    PROVE  HasRule(answered.adorned_program, i)
<1> DEFINE c == given.rules[i]
           P == answered.adorned_program
<1>1. CASE x.op = goal.op /\ Len(x.args) = Len(goal.args)
  <2>1. HeadsRule(goal, c)
    BY <1>1 DEF HeadsRule
  <2> QED  BY <2>1, ReadyIs DEF Handed, HasVersion, HasRule
<1>2. CASE \E q \in P : \E k \in DOMAIN q.body :
              q.body[k].op = Renamed(x).op /\ Len(q.body[k].args) = Len(x.args)
  <2>1. PICK q \in P : \E k \in DOMAIN q.body :
              q.body[k].op = Renamed(x).op /\ Len(q.body[k].args) = Len(x.args)
    BY <1>2
  <2>2. PICK k \in DOMAIN q.body :
              q.body[k].op = Renamed(x).op /\ Len(q.body[k].args) = Len(x.args)
    BY <2>1
  <2> DEFINE l == q.body[k]
  <2>3. IsAdLiteral(c.head)
    BY OldNames
  <2>4. Renamed(c.head).op = Renamed(x).op
    BY <2>3, RenamedType, RenamedFact
  <2>5. l.op \in derived
    BY <2>2, <2>4 DEF Ready, WellPosed
  <2>6. HeadsRule(l, c)
    <3>1. Len(c.head.args) = Len(l.args)
      BY <2>2
    <3>2. Renamed(x).op = IF x.op \in Hybrid THEN DerivedName[x.op] ELSE x.op
      BY RenamedFact
    <3>3. c.head.op = l.op \/ (c.head.op \in Hybrid /\ l.op = DerivedName[c.head.op])
      BY <2>2, <3>2
    <3> QED  BY <3>1, <3>3 DEF HeadsRule
  <2>7. \E r \in P : IsVersion(r, c)
    BY <2>5, <2>6 DEF Ready, IInv, Closed
  <2> QED  BY <2>7 DEF HasRule
<1> QED  BY <1>1, <1>2 DEF AskedFor

\* Where a version's literal has the other name of a hybrid predicate, the rule's
\* literal is of that predicate.
LEMMA HybridAsked ==
    ASSUME NEW K, Ready(K), NEW q \in answered.adorned_program, NEW k \in DOMAIN q.body,
           NEW p \in Hybrid, q.body[k].op = DerivedName[p]
    PROVE  Bridge(p, q.body[k].ad) \in answered.adorned_program
           /\ Len(q.body[k].ad) = Len(q.body[k].args)
           /\ Len(q.body[k].ad) \in 1 .. Len(BridgeVars)
<1> DEFINE l == q.body[k]
<1>1. Handed(answered.adorned_program)
  BY ReadyIs
<1>2. IsAdRule(q) /\ IsMade(q)
  BY <1>1 DEF Handed
<1>3. IsAdLiteral(l)
  BY <1>2 DEF IsAdRule
<1>4. RenamedBody(q) /\ \E i \in DOMAIN given.rules : IsVersion(q, given.rules[i])
  <2>1. ~IsBridge(q)
    <3> SUFFICES ASSUME IsBridge(q) PROVE FALSE
      OBVIOUS
    <3>0. PICK p_1 \in Hybrid :
             \E ad : Len(ad) \in 1 .. Len(BridgeVars) /\ q = Bridge(p_1, ad)
      BY DEF IsBridge
    <3>1. PICK ad : Len(ad) \in 1 .. Len(BridgeVars) /\ q = Bridge(p_1, ad)
      BY <3>0
    <3>2. q = [head |-> Adorned(DerivedName[p_1], BridgeArgs(ad), ad, FALSE),
               body |-> <<Lit(p_1, BridgeArgs(ad))>>]
      BY <3>1, BridgeIs
    <3>3. q.body[k].op = p_1
      <4>1. k = 1 /\ q.body[1] = Lit(p_1, BridgeArgs(ad))
        BY <3>2
      <4> QED  BY <4>1 DEF Lit, Adorned
    <3> QED  BY <3>3, NamesApart
  <2> QED  BY <1>2, <2>1 DEF IsMade
<1>5. PICK i \in DOMAIN given.rules : IsVersion(q, given.rules[i])
  BY <1>4
<1>6. PICK j \in DOMAIN given.rules[i].body : Renamed(l).op = Renamed(given.rules[i].body[j]).op
  BY <1>5, VersionMatches
<1> DEFINE m == given.rules[i].body[j]
<1>7. IsAdLiteral(m) /\ IsOldName(m.op) /\ m \in BodyLiterals(given.rules)
  BY OldNames, NamesUsed
<1> HIDE DEF m, l
<1>8. l.op \notin Hybrid /\ l.op = DerivedName[p]
  BY <1>4 DEF RenamedBody, l
<1>9. m.op \in Hybrid /\ DerivedName[m.op] = DerivedName[p]
  BY <1>3, <1>6, <1>7, <1>8, RenamedType DEF IsOldName, m
<1>10. m.op = p
  BY <1>9, HybridAssumption
<1>11. ignoring /\ DerivedName[p] \in derived
  BY <1>7, <1>9, <1>10 DEF Ready, WellPosed
<1>12. IsAdorned(l)
  BY <1>4, <1>8, <1>11 DEF RenamedBody, l
<1>13. Bridge(p, l.ad) \in answered.adorned_program
  BY <1>1, <1>8, <1>12 DEF Handed, l
<1> QED  BY <1>3, <1>12, <1>13 DEF IsAdLiteral, Arity, l

\* Of what was given, what is asked for is known under its other name.
LEMMA GivenAnswered ==
    ASSUME NEW K, Ready(K), NEW f \in K, AskedFor(f)
    PROVE  Renamed(f) \in AdornedModel(K)
<1> DEFINE P == answered.adorned_program
<1>1. IsFact(f) /\ f \in AdornedModel(K) /\ f \in RulesModel(K)
  BY ReadyIs
<1>2. CASE f.op \notin Hybrid
  BY <1>1, <1>2, RenamedFact
<1>3. CASE f.op \in Hybrid
  <2> DEFINE p == f.op
  <2>1. Renamed(f).op = DerivedName[p] /\ Renamed(f).args = f.args /\ IsFact(Renamed(f))
    BY <1>1, <1>3, RenamedFact
  <2>2. p # goal.op
    BY <1>3, GoalName
  <2>3. PICK q \in P : \E k \in DOMAIN q.body :
              q.body[k].op = DerivedName[p] /\ Len(q.body[k].args) = Len(f.args)
    BY <2>1, <2>2 DEF AskedFor
  <2>4. PICK k \in DOMAIN q.body :
              q.body[k].op = DerivedName[p] /\ Len(q.body[k].args) = Len(f.args)
    BY <2>3
  <2> DEFINE ad == q.body[k].ad
             args == BridgeArgs(ad)
             n == Len(ad)
             b == Bridge(p, ad)
             at(v) == CHOOSE i \in 1 .. n : BridgeVars[i] = v
             theta == [v \in ToSet(args) |-> f.args[at(v)]]
             l == Lit(p, args)
             h == Adorned(DerivedName[p], args, ad, FALSE)
  <2>5. b \in P /\ n = Len(f.args) /\ n \in 1 .. Len(BridgeVars)
    BY <1>3, <2>4, HybridAsked
  <2>6. /\ args \in Seq(ToSet(args)) /\ Len(args) = n
        /\ \A i \in 1 .. n : args[i] = BridgeVars[i]
    BY <2>5, BridgeArgsAre
  <2>7. b = [head |-> h, body |-> <<l>>] /\ IsAdLiteral(l)
    BY <1>3, <2>5, BridgeIs
  <2>8. IsAdLiteral(h)
    <3>1. IsAdRule(b)
      BY <2>5, ReadyIs DEF Handed
    <3>2. b.head = h
      BY <2>7
    <3> QED  BY <3>1, <3>2 DEF IsAdRule
  <2>9. /\ l.args = args /\ l.op = p /\ l.naf = FALSE /\ h.args = args /\ h.op = DerivedName[p]
    BY DEF Lit, Adorned
  <2> HIDE DEF l, h, args, ad, b, p
  <2>10. DOMAIN args = 1 .. n /\ DOMAIN f.args = 1 .. n /\ f.args \in Seq(ToSet(f.args))
         /\ n \in Nat /\ 1 .. n \subseteq DOMAIN BridgeVars
    <3>1. f.args \in Seq(ToSet(f.args))
      BY <1>1 DEF IsFact
    <3>2. n \in Nat /\ DOMAIN BridgeVars = 1 .. Len(BridgeVars)
      BY <2>5, BridgeLen, BridgeAssumption
    <3> QED  BY <2>5, <2>6, <3>1, <3>2
  <2>11. ASSUME NEW i \in 1 .. n PROVE theta[args[i]] = f.args[i] /\ args[i] \in ToSet(args)
    <3>1. BridgeVars[i] = args[i] /\ args[i] \in ToSet(args)
      BY <2>6, <2>10 DEF ToSet
    <3>2. at(args[i]) \in 1 .. n /\ BridgeVars[at(args[i])] = args[i]
      BY <3>1
    <3>3. at(args[i]) = i
      BY <2>10, <3>1, <3>2, BridgeAssumption
    <3> HIDE DEF at
    <3> QED  BY <3>1, <3>3
  <2>12. VarsOfRule(b) = ToSet(args)
    <3>1. ToSet(args) \subseteq Var
      <4>1. \A i \in 1 .. n : BridgeVars[i] \in Var
        BY <2>10, BridgeAssumption
      <4> QED  BY <2>6, <2>10, <4>1 DEF ToSet
    <3>2. VarsOf(h) = ToSet(args) /\ VarsOf(l) = ToSet(args)
      BY <2>9, <3>1 DEF VarsOf, Args
    <3>3. b.head = h /\ DOMAIN b.body = {1} /\ b.body[1] = l
      BY <2>7
    <3>4. VarsOfAll(b.body) = ToSet(args)
      BY <3>2, <3>3 DEF VarsOfAll
    <3> QED  BY <3>2, <3>3, <3>4 DEF VarsOfRule
  <2>13. theta \in [VarsOfRule(b) -> Terms(AdornedModel(K))]
    <3>1. ASSUME NEW v \in ToSet(args) PROVE theta[v] \in Terms(AdornedModel(K))
      <4>1. PICK i \in 1 .. n : v = args[i]
        BY <2>10 DEF ToSet
      <4>2. theta[v] = f.args[i]
        BY <2>11, <4>1
      <4> QED  BY <1>1, <2>10, <4>2, TermOf
    <3>2. DOMAIN theta = ToSet(args) /\ theta = [v \in ToSet(args) |-> theta[v]]
      OBVIOUS
    <3> HIDE DEF theta
    <3> QED  BY <2>12, <3>1, <3>2
  <2>14. ASSUME NEW m, IsAdLiteral(m), m.args = args PROVE Instance(m, theta).args = f.args
    <3>1. DOMAIN theta = ToSet(args)
      OBVIOUS
    <3> HIDE DEF theta, n
    <3>2. Instance(m, theta).args = [i \in 1 .. n |-> Value(args[i], theta)]
      <4>1. Instance(m, theta).args = [i \in DOMAIN m.args |-> Value(m.args[i], theta)]
        BY <2>14, InstanceIs
      <4>2. DOMAIN m.args = 1 .. n /\ m.args = args
        BY <2>10, <2>14
      <4> QED  BY <4>1, <4>2
    <3>3. \A i \in 1 .. n : Value(args[i], theta) = f.args[i]
      BY <2>11, <3>1 DEF Value
    <3>4. f.args = [i \in 1 .. n |-> f.args[i]]
      BY <2>10
    <3> QED  BY <3>2, <3>3, <3>4
  <2> HIDE DEF theta, n
  <2>15. Instance(l, theta) = f
    <3>1. IsFact(Instance(l, theta)) /\ Instance(l, theta).op = p
      BY <2>7, <2>9, InstanceIsFact
    <3>2. Instance(l, theta).args = f.args
      BY <2>7, <2>9, <2>14
    <3> QED  BY <1>1, <3>1, <3>2, SameFact DEF p
  <2>16. Instance(h, theta) = Renamed(f)
    <3>1. IsFact(Instance(h, theta)) /\ Instance(h, theta).op = DerivedName[p]
      BY <2>8, <2>9, InstanceIsFact
    <3>2. Instance(h, theta).args = f.args
      BY <2>8, <2>9, <2>14
    <3> QED  BY <2>1, <3>1, <3>2, SameFact
  <2>17. theta \in BodySolutions(b, AdornedModel(K))
    <3>1. DOMAIN b.body = {1} /\ b.body[1] = l
      BY <2>7
    <3>2. Satisfied(l, theta, AdornedModel(K))
      BY <1>1, <2>9, <2>15, SatisfiedIs
    <3> QED  BY <2>13, <3>1, <3>2, Solves
  <2>18. Instance(b.head, theta) \in Immediate(P, AdornedModel(K))
    BY <2>5, <2>17, Concludes
  <2>19. b.head = h
    BY <2>7
  <2> QED  BY <2>16, <2>18, <2>19, ReadyIs
<1> QED  BY <1>2, <1>3

Answerable(K) == {f \in RulesModel(K) : AskedFor(f) => Renamed(f) \in AdornedModel(K)}

\* A literal of the program asks for what its rule's literal is solved by.
LEMMA LiteralAnswered ==
    ASSUME NEW K, Ready(K), NEW r \in answered.adorned_program, NEW j \in DOMAIN r.body,
           RenamedBody(r), NEW l, IsAdLiteral(l), Renamed(r.body[j]).op = Renamed(l).op,
           r.body[j].args = l.args, NEW theta, Instance(l, theta) \in Answerable(K)
    PROVE  Instance(r.body[j], theta) \in AdornedModel(K)
<1> DEFINE m == r.body[j]
           x == Instance(m, theta)
           y == Instance(l, theta)
<1>1. IsAdLiteral(m) /\ m.op \notin Hybrid
  BY ReadyIs DEF Handed, IsAdRule, RenamedBody
<1>2. IsFact(x) /\ x.op = m.op
  BY <1>1, InstanceIsFact
<1>3. IsFact(y) /\ y.op = l.op /\ Len(y.args) = Len(l.args)
  BY InstanceIsFact
<1>4. x.args = y.args
  BY <1>1, SameArgs
<1>5. m.op = Renamed(y).op /\ Len(m.args) = Len(y.args)
  <2>1. Renamed(m).op = Renamed(l).op /\ m.args = l.args
    OBVIOUS
  <2> HIDE DEF m, y
  <2> QED  BY <1>1, <1>3, <2>1, RenamedType, RenamedFact
<1>6. AskedFor(y)
  BY <1>5 DEF AskedFor
<1>7. Renamed(y) \in AdornedModel(K)
  BY <1>6 DEF Answerable
<1> HIDE DEF x, y, m
<1>8. x = Renamed(y)
  BY <1>2, <1>3, <1>4, <1>5, RenamedFact, SameFact
<1> QED  BY <1>7, <1>8 DEF x, m

\* What a rule concludes from what is answered, its version concludes.
LEMMA VersionComplete ==
    ASSUME NEW K, Ready(K), NEW J \in SUBSET Answerable(K), K \subseteq J,
           NEW i \in DOMAIN given.rules, NEW r \in answered.adorned_program, RenamedBody(r),
           IsVersion(r, given.rules[i]), NEW theta \in BodySolutions(given.rules[i], J)
    PROVE  Instance(r.head, theta) \in AdornedModel(K)
<1> DEFINE c == given.rules[i]
<1>1. /\ VarsOfRule(r) = VarsOfRule(c)
      /\ \A j \in DOMAIN r.body : \E k \in DOMAIN c.body :
            /\ Renamed(r.body[j]).op = Renamed(c.body[k]).op
            /\ r.body[j].args = c.body[k].args /\ r.body[j].naf = c.body[k].naf
      /\ \A k \in DOMAIN c.body : \E j \in DOMAIN r.body :
            /\ Renamed(r.body[j]).op = Renamed(c.body[k]).op
            /\ r.body[j].args = c.body[k].args /\ r.body[j].naf = c.body[k].naf
  BY VersionMatches
<1>2. /\ theta \in [VarsOfRule(c) -> Terms(J)]
      /\ \A k \in DOMAIN c.body : Satisfied(c.body[k], theta, J)
  BY Solves
<1>3. \A k \in DOMAIN c.body :
         /\ IsAdLiteral(c.body[k]) /\ IsOldName(c.body[k].op) /\ c.body[k].naf \in BOOLEAN
         /\ c.body[k].naf => c.body[k].op \notin Heads(given.rules) \cup Hybrid
  BY OldNames
<1>4. \A j \in DOMAIN r.body : IsAdLiteral(r.body[j]) /\ r.body[j].op \notin Hybrid
  BY ReadyIs DEF Handed, IsAdRule, RenamedBody
<1>5. IsSafeBody(c)
  BY DEF Ready, WellPosed
<1> HIDE DEF c
<1>6. ASSUME NEW k \in DOMAIN c.body, NEW j \in DOMAIN r.body, c.body[k].naf = FALSE,
             Renamed(r.body[j]).op = Renamed(c.body[k]).op, r.body[j].args = c.body[k].args
      PROVE  Instance(r.body[j], theta) \in AdornedModel(K)
  <2>1. Instance(c.body[k], theta) \in J
    BY <1>2, <1>6, SatisfiedIs
  <2> QED  BY <1>3, <1>6, <2>1, LiteralAnswered
<1>7. ASSUME NEW v \in VarsOfRule(r) PROVE theta[v] \in Terms(AdornedModel(K))
  <2>1. PICK k \in DOMAIN c.body : ~c.body[k].naf /\ v \in VarsOf(c.body[k])
    BY <1>1, <1>5 DEF IsSafeBody, VarsOfRule
  <2>2. PICK j \in DOMAIN r.body :
            Renamed(r.body[j]).op = Renamed(c.body[k]).op /\ r.body[j].args = c.body[k].args
    BY <1>1
  <2> DEFINE m == r.body[j]
  <2>3. c.body[k].naf = FALSE
    BY <1>3, <2>1
  <2>4. Instance(m, theta) \in AdornedModel(K)
    BY <1>6, <2>2, <2>3
  <2>5. PICK n \in DOMAIN m.args : m.args[n] = v
    BY <2>1, <2>2 DEF VarsOf, Args, ToSet
  <2>6. Instance(m, theta).args = [n_1 \in DOMAIN m.args |-> Value(m.args[n_1], theta)]
    BY <1>4, InstanceIs
  <2> HIDE DEF m
  <2>7. DOMAIN theta = VarsOfRule(c)
    BY <1>2
  <2>8. n \in DOMAIN Instance(m, theta).args /\ Instance(m, theta).args[n] = theta[v]
    BY <1>1, <2>5, <2>6, <2>7 DEF Value
  <2> QED  BY <2>4, <2>8, TermOf
<1>8. theta \in [VarsOfRule(r) -> Terms(AdornedModel(K))]
  BY <1>1, <1>2, <1>7
<1>9. ASSUME NEW j \in DOMAIN r.body PROVE Satisfied(r.body[j], theta, AdornedModel(K))
  <2>1. PICK k \in DOMAIN c.body :
            /\ Renamed(r.body[j]).op = Renamed(c.body[k]).op
            /\ r.body[j].args = c.body[k].args /\ r.body[j].naf = c.body[k].naf
    BY <1>1
  <2> DEFINE l == c.body[k]
             m == r.body[j]
  <2>2. CASE l.naf = FALSE
    <3>1. Instance(m, theta) \in AdornedModel(K)
      BY <1>6, <2>1, <2>2
    <3> QED  BY <2>1, <2>2, <3>1, SatisfiedIs
  <2>3. CASE l.naf = TRUE
    <3>1. Satisfied(l, theta, J)
      BY <1>2
    <3>2. IsAdLiteral(l) /\ IsOldName(l.op) /\ l.op \notin Heads(given.rules) \cup Hybrid
      BY <1>3, <2>3
    <3>3. IsAdLiteral(m) /\ m.args = l.args /\ Renamed(m).op = Renamed(l).op /\ m.op \notin Hybrid
      BY <1>4, <2>1
    <3>4. m.naf = TRUE
      BY <2>1, <2>3
    <3> HIDE DEF l, m
    <3>5. m.op = Renamed(l).op /\ Renamed(l).op = l.op
      BY <3>2, <3>3, RenamedType
    <3>6. Instance(l, theta) \notin K
      BY <2>3, <3>1, SatisfiedIs
    <3>7. Instance(l, theta).op = l.op
      BY <3>2, InstanceIsFact
    <3>8. Instance(l, theta) \notin RulesModel(K)
      BY <3>2, <3>6, <3>7, ModelFacts
    <3>9. Instance(m, theta) \notin AdornedModel(K)
      BY <3>2, <3>3, <3>5, <3>8, NoMore, KnownFact
    <3> QED  BY <3>4, <3>9, SatisfiedIs DEF m
  <2> QED  BY <1>3, <2>2, <2>3
<1>10. theta \in BodySolutions(r, AdornedModel(K))
  BY <1>8, <1>9, Solves
<1>11. Instance(r.head, theta) \in Immediate(answered.adorned_program, AdornedModel(K))
  BY <1>10, Concludes
<1> QED  BY <1>11, ReadyIs

LEMMA NoFewer ==
    ASSUME NEW K, Ready(K)
    PROVE  RulesModel(K) \subseteq Answerable(K)
<1> DEFINE G == Clauses(given.rules)
           P == answered.adorned_program
<1>1. K \subseteq Answerable(K)
  BY ReadyIs, GivenAnswered DEF Answerable
<1>2. ASSUME NEW J \in SUBSET Answerable(K), K \subseteq J,
             Immediate(G, J) \subseteq RulesModel(K)
      PROVE  Immediate(G, J) \subseteq Answerable(K)
  <2> SUFFICES ASSUME NEW x \in Immediate(G, J), AskedFor(x), x \notin J
               PROVE  Renamed(x) \in AdornedModel(K)
    BY <1>2 DEF Answerable
  <2>1. PICK c \in G : \E theta \in BodySolutions(c, J) : x = Instance(c.head, theta)
    BY Concludes
  <2>2. PICK theta \in BodySolutions(c, J) : x = Instance(c.head, theta)
    BY <2>1
  <2>3. PICK i \in DOMAIN given.rules : c = given.rules[i]
    BY DEF Clauses
  <2>4. IsAdLiteral(c.head) /\ IsOldName(c.head.op)
    BY <2>3, OldNames
  <2>5. IsFact(x) /\ x.op = c.head.op /\ Len(x.args) = Len(c.head.args)
    BY <2>2, <2>4, InstanceIsFact
  <2>6. PICK r \in P : IsVersion(r, c)
    BY <2>3, <2>5, RuleAsked DEF HasRule
  <2>7. IsAdRule(r) /\ IsMade(r)
    BY ReadyIs DEF Handed
  <2>8. r.head.op = Renamed(c.head).op /\ r.head.args = c.head.args
    BY <2>6 DEF IsVersion
  <2>9. CASE RenamedBody(r)
    <3> DEFINE z == Instance(r.head, theta)
    <3>1. z \in AdornedModel(K)
      BY <1>2, <2>2, <2>3, <2>6, <2>9, VersionComplete
    <3>2. IsAdLiteral(r.head)
      BY <2>7 DEF IsAdRule
    <3>3. IsFact(z) /\ z.op = r.head.op
      BY <3>2, InstanceIsFact
    <3>4. z.args = x.args
      BY <2>2, <2>4, <2>8, <3>2, SameArgs
    <3> HIDE DEF z
    <3>5. z.op = Renamed(x).op
      BY <2>4, <2>5, <2>8, <3>3, RenamedType, RenamedFact
    <3>6. z = Renamed(x)
      BY <2>5, <3>3, <3>4, <3>5, RenamedFact, SameFact
    <3> QED  BY <3>1, <3>6
  <2>10. CASE IsBridge(r)
    \* Then the rule says what it concludes in its body.
    <3>0. PICK p \in Hybrid :
             \E ad : Len(ad) \in 1 .. Len(BridgeVars) /\ r = Bridge(p, ad)
      BY <2>10 DEF IsBridge
    <3>1. PICK ad : Len(ad) \in 1 .. Len(BridgeVars) /\ r = Bridge(p, ad)
      BY <3>0
    <3> DEFINE args == BridgeArgs(ad)
               h == Adorned(DerivedName[p], args, ad, FALSE)
               b == Lit(p, args)
    <3>2. r = [head |-> h, body |-> <<b>>] /\ IsAdLiteral(b)
      BY <3>1, BridgeIs
    <3>3. h.op = DerivedName[p] /\ h.args = args /\ b.op = p /\ b.args = args /\ b.naf = FALSE
      BY DEF Lit, Adorned
    <3> HIDE DEF h, b, args
    <3>4. c.head.op = p
      <4>1. Renamed(c.head).op = DerivedName[p]
        BY <2>8, <3>2, <3>3
      <4>2. c.head.op \in Hybrid /\ DerivedName[c.head.op] = DerivedName[p]
        BY <2>4, <4>1, RenamedType DEF IsOldName
      <4> QED  BY <4>2, HybridAssumption
    <3>5. PICK k \in DOMAIN c.body : /\ Renamed(b).op = Renamed(c.body[k]).op
                                     /\ b.args = c.body[k].args /\ b.naf = c.body[k].naf
      <4>1. DOMAIN r.body = {1} /\ r.body[1] = b
        BY <3>2
      <4> QED  BY <2>6, <4>1, VersionMatches
    <3> DEFINE l == c.body[k]
    <3>6. IsAdLiteral(l) /\ IsOldName(l.op)
      BY <2>3, OldNames
    <3>7. l.args = args /\ l.naf = FALSE /\ Renamed(l).op = Renamed(b).op
      BY <3>3, <3>5
    <3>8. Satisfied(l, theta, J)
      BY Solves
    <3> HIDE DEF l
    <3>9. l.op = p
      <4>1. Renamed(l).op = DerivedName[p]
        BY <3>2, <3>3, <3>7, RenamedType
      <4>2. l.op \in Hybrid /\ DerivedName[l.op] = DerivedName[p]
        BY <3>6, <4>1, RenamedType DEF IsOldName
      <4> QED  BY <4>2, HybridAssumption
    <3>10. Instance(l, theta) \in J
      BY <3>7, <3>8, SatisfiedIs
    <3>11. c.head.args = args
      BY <2>8, <3>2, <3>3
    <3>12. Instance(l, theta) = Instance(c.head, theta)
      BY <2>4, <3>4, <3>6, <3>7, <3>9, <3>11, SameInstance
    <3> QED  BY <2>2, <3>10, <3>12
  <2> QED  BY <2>7, <2>9, <2>10 DEF IsMade
<1> HIDE DEF G
<1>3. LeastModel(G, K, Rounds) \subseteq Answerable(K)
  <2>1. \A J \in SUBSET Answerable(K) :
           K \subseteq J /\ Immediate(G, J) \subseteq LeastModel(G, K, Rounds)
               => Immediate(G, J) \subseteq Answerable(K)
    BY <1>2 DEF RulesModel, G
  <2> QED  BY <1>1, <2>1, ModelInduction, RoundsAssumption
<1> QED  BY <1>3 DEF RulesModel, G

(***************************************************************************)
(* The answers.                                                            *)
(***************************************************************************)

\* A literal that is a fact takes the values of its variables from that fact.
LEMMA TermsOfSolution ==
    ASSUME NEW l, IsAdLiteral(l), NEW S, NEW theta \in [VarsOf(l) -> S],
           NEW M, Instance(l, theta) \in M
    PROVE  theta \in [VarsOf(l) -> Terms(M)]
<1>1. ASSUME NEW v \in VarsOf(l) PROVE theta[v] \in Terms(M)
  <2>1. PICK n \in DOMAIN l.args : l.args[n] = v
    BY DEF VarsOf, Args, ToSet
  <2>2. Instance(l, theta).args = [n_1 \in DOMAIN l.args |-> Value(l.args[n_1], theta)]
    BY InstanceIs
  <2>3. n \in DOMAIN Instance(l, theta).args /\ Instance(l, theta).args[n] = theta[v]
    BY <2>1, <2>2 DEF Value
  <2> QED  BY <2>3, TermOf
<1> QED  BY <1>1

LEMMA AnswersSame ==
    ASSUME NEW K, Ready(K)
    PROVE  Solutions(goal, AdornedModel(K)) = Solutions(goal, RulesModel(K))
<1>1. IsAdLiteral(goal) /\ goal.op \notin Hybrid /\ IsOldName(goal.op) /\ Renamed(goal) = goal
  BY GoalName
<1>2. \A M : Solutions(goal, M) =
         {theta \in [VarsOf(goal) -> Terms(M)] : Instance(goal, theta) \in M}
  BY DEF Solutions, Instance
<1>3. ASSUME NEW theta \in Solutions(goal, AdornedModel(K))
      PROVE  theta \in Solutions(goal, RulesModel(K))
  <2>1. theta \in [VarsOf(goal) -> Terms(AdornedModel(K))] /\ Instance(goal, theta) \in AdornedModel(K)
    BY <1>2
  <2>2. Instance(goal, theta) \in RulesModel(K)
    BY <1>1, <2>1, NoMore, KnownFact
  <2>3. theta \in [VarsOf(goal) -> Terms(RulesModel(K))]
    BY <1>1, <2>1, <2>2, TermsOfSolution
  <2> QED  BY <1>2, <2>2, <2>3
<1>4. ASSUME NEW theta \in Solutions(goal, RulesModel(K))
      PROVE  theta \in Solutions(goal, AdornedModel(K))
  <2>1. theta \in [VarsOf(goal) -> Terms(RulesModel(K))] /\ Instance(goal, theta) \in RulesModel(K)
    BY <1>2
  <2> DEFINE y == Instance(goal, theta)
  <2>2. IsFact(y) /\ y.op = goal.op /\ Len(y.args) = Len(goal.args)
    BY <1>1, InstanceIsFact
  <2>3. AskedFor(y) /\ Renamed(y) = y
    BY <1>1, <2>2, RenamedFact DEF AskedFor
  <2>4. y \in AdornedModel(K)
    BY <2>1, <2>3, NoFewer DEF Answerable
  <2> HIDE DEF y
  <2>5. theta \in [VarsOf(goal) -> Terms(AdornedModel(K))]
    BY <1>1, <2>1, <2>4, TermsOfSolution DEF y
  <2> QED  BY <1>2, <2>4, <2>5 DEF y
<1> QED  BY <1>3, <1>4

\* The adorned program that setup_ddl_and_adorn_program hands over has the answers of
\* the goal that the caller's rules have, whatever the order of the worklist, and
\* however the rule objects were renamed for goals before: where the rules are safe,
\* negation is on base predicates, the names of hybrid predicates are new and their
\* literals adorned, and enough rounds are given to reach both least models.
THEOREM GoalKeepsAnswers == Spec => [](WellPosed /\ RoundsSuffice => AnswersKept)
<1>1. IInv /\ AnswersInv => (WellPosed /\ RoundsSuffice => AnswersKept)
  <2> SUFFICES ASSUME IInv, AnswersInv, WellPosed, RoundsSuffice, answered # <<>>
               PROVE  Solutions(Renamed(goal), AdornedModel(given.facts))
                         = Solutions(goal, RulesModel(given.facts))
    BY DEF AnswersKept, AdornedModel, RulesModel
  <2>1. PICK K : K = given.facts
    OBVIOUS
  <2>2. Ready(K)
    BY <2>1, GivenReady
  <2> QED  BY <2>1, <2>2, GoalName, AnswersSame
<1> QED  BY <1>1, Invariant, AnswersInvariant, PTL
=============================================================================
