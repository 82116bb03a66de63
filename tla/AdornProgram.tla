---------------------------- MODULE AdornProgram ----------------------------
(***************************************************************************)
(* The adorned program of a goal (Magic.py): adorn_program processes a     *)
(* worklist of adorned predicates, adding for each the adorned versions of *)
(* the rules that have it in their head; setup_ddl_and_adorn_program adds  *)
(* the rules that feed hybrid predicates and hands the program to the fact *)
(* graph.  The rule objects are shared by all goals of a store.            *)
(***************************************************************************)
EXTENDS SidewaysPassing

CONSTANTS
    Scenarios,     \* what a caller may do: [rules, goals, modes, facts, preds, strict],
                   \* a sequence of clauses, the goals asked, values of
                   \* ignore_unbound_d_preds, the base facts, derived_preds, and
                   \* strict_check
    Hybrid,        \* hybrid_preds_to_replace
    DerivedName,   \* Hybrid -> the predicate named <p>_derived
    BridgeVars     \* ?X and ?Y of the rules for hybrid predicates

VARIABLES
    given,         \* the scenario, with the rules as the caller wrote them
    rs,            \* the rules as they are: adorn_rule may rename their literals
    derived,       \* derived_preds of that call
    goal,          \* the goal being adorned, or the last one
    ignoring,      \* ignore_unbound_d_preds of that call
    collection,    \* adorned_predicate_collection
    marked,        \* those of them that are marked
    to_do,         \* the deque
    program,       \* the adorned rules so far
    answered       \* the adorned_program and query_atoms the call left in
                   \* fact_graph, <<>> until it returns

vars == <<given, rs, derived, goal, ignoring, collection, marked, to_do, program, answered>>

-----------------------------------------------------------------------------
\* derived_predicate_iterator, when no derived predicates are given: the heads of
\* the rules.  A head that the facts are about too is a clash, which the strictness
\* resolves in favour of the rules, of the facts, or with a SyntaxError.  adorn_program
\* takes a list left empty for one not given, and asks again without strictness.
Heads(c) == {c[i].head.op : i \in {k \in DOMAIN c : c[k].body # <<>>}}
Clashes(scenario) == Heads(scenario.rules) \cap {f.op : f \in scenario.facts}
DerivedPreds(scenario) ==
    LET kept == Heads(scenario.rules) \
                  IF scenario.strict = "defaultBase" THEN Clashes(scenario) ELSE {}
    IN  IF kept = {} THEN Heads(scenario.rules) ELSE kept
IsRefused(scenario) == scenario.preds = {} /\ scenario.strict = "harsh" /\ Clashes(scenario) # {}

\* What callers hand over.  Literals have no more arguments than a bridge; the rules
\* have bodies, what is declared derived is not hybrid, and no literal is both asserted
\* and negated, since rules that differ in nothing else are equal.
IsLiteral(l) ==
    /\ l = Adorned(l.op, l.args, <<>>, l.naf) /\ l.naf \in BOOLEAN
    /\ l.args \in Seq(ToSet(l.args)) /\ Len(l.args) \in 1 .. Len(BridgeVars)
IsRule(c) ==
    /\ c = Clause(c.head, c.body) /\ IsLiteral(c.head)
    /\ c.body \in Seq(ToSet(c.body)) /\ c.body # <<>>
    /\ \A k \in DOMAIN c.body : IsLiteral(c.body[k])
Renamed(l) == IF l.op \in Hybrid THEN [l EXCEPT !.op = DerivedName[l.op]] ELSE l
BodyLiterals(c) == UNION {ToSet(c[i].body) : i \in DOMAIN c}

ASSUME HybridAssumption ==
    /\ \A p \in Hybrid : DerivedName[p] \notin Hybrid
    /\ \A p, q \in Hybrid : DerivedName[p] = DerivedName[q] => p = q
ASSUME BridgeAssumption ==
    /\ BridgeVars \in Seq(Var)
    /\ \A i, j \in DOMAIN BridgeVars : BridgeVars[i] = BridgeVars[j] => i = j
ASSUME ScenariosAssumption ==
    /\ BridgeVars \in Seq(ToSet(BridgeVars))
    /\ \A s \in Scenarios :
          /\ s.rules \in Seq(ToSet(s.rules)) /\ \A i \in DOMAIN s.rules : IsRule(s.rules[i])
          /\ \A g \in s.goals : IsLiteral(g)
          /\ \A f \in s.facts : f = Fact(f) /\ f.args \in Seq(ToSet(f.args))
          /\ (IF s.preds = {} THEN Heads(s.rules) ELSE s.preds) \cap Hybrid = {}
ASSUME NegationAssumption ==
    \A s \in Scenarios : \A l, m \in BodyLiterals(s.rules) :
        Renamed(l).op = Renamed(m).op /\ l.args = m.args => l.naf = m.naf

\* AdornedUniTerm.__hash__ and __eq__: the triple and the adornment.
Atom(l) == [op |-> l.op, args |-> l.args, ad |-> l.ad]
IsDerived(op) == op \in derived \cup Hybrid

\* adorn_literal: constants are bound.
AdornLiteral(l) ==
    [l EXCEPT !.ad = [i \in DOMAIN l.args |-> IF l.args[i] \in Var THEN "f" ELSE "b"]]

\* compare_adorned_pred_to_rule_head.
HeadsRule(a, c) ==
    /\ Len(c.head.args) = Len(a.args)
    /\ \/ c.head.op = a.op
       \/ c.head.op \in Hybrid /\ a.op = DerivedName[c.head.op]

\* An argument of a body literal is bound when its arc brings it; an argument
\* that comes from the head, when it is distinguished there too.  (With hybrid
\* predicates the arcs into base predicates are removed; nothing reads those.)
Bindings(h, newOp, body, o, k) ==
    [i \in DOMAIN body[o[k]].args |->
        IF /\ body[o[k]].args[i] \in Passed(h, body, o, k)
           /\ k = 1 /\ h.op = newOp => body[o[k]].args[i] \in Distinguished(h)
          THEN "b" ELSE "f"]
AllFreeOnce(l) == <<"f">>       \* a bug: one f whatever the arity
AllFree(l) == [i \in DOMAIN l.args |-> "f"]
AdornBody(h, newOp, body, o, ignore, l) ==
    IF ~IsDerived(l.op) THEN l
    ELSE IF Incoming(h, body, o, l) # {}
      THEN [l EXCEPT !.ad = Bindings(h, newOp, body, o,
                                     CHOOSE k \in Incoming(h, body, o, l) : TRUE)]
    ELSE IF ignore THEN [l EXCEPT !.ad = AllFree(l)] ELSE l

Map(f(_), s) == [i \in DOMAIN s |-> f(s[i])] \o <<>>

\* adorn_rule: the adorned rule, and what is left of the rule of the caller: a
\* literal that gets no adornment is not copied, and the renaming reaches it.
\* Empty when the rule has no sip.
AdornRule(c, h, newOp, ignore) ==
    {[adorned |-> [head |-> Renamed(h),
                   body |-> Map(LAMBDA i : Renamed(AdornBody(h, newOp, c.body, o, ignore,
                                                             c.body[i])), o)],
      left |-> [c EXCEPT !.body = Map(LAMBDA l :
                   IF IsAdorned(AdornBody(h, newOp, c.body, o, ignore, l)) THEN l
                   ELSE Renamed(l), @)]] :
        o \in SipOrders(h, c.body, ignore)}

\* AdornedRule.__hash__: adornments and triples, negation left out.
SameRule(q, r) ==
    LET atoms(x) == <<Atom(x.head), [i \in DOMAIN x.body |-> Atom(x.body[i])]>>
    IN  atoms(q) = atoms(r)

\* The adorned predicates the body of an adorned rule adds to the collection.
DerivedLits(r) == {r.body[i] : i \in {k \in DOMAIN r.body : IsDerived(r.body[k].op)}}
BoundCalls(r) ==                    \* a bug: literals without adornment are skipped
    {Atom(l) : l \in {m \in DerivedLits(r) : \E i \in DOMAIN m.ad : m.ad[i] = "b"}}
Calls(r) == {Atom(IF IsAdorned(l) THEN l ELSE AdornLiteral(l)) : l \in DerivedLits(r)}

-----------------------------------------------------------------------------
Init == /\ given \in Scenarios /\ rs = given.rules /\ derived = {}
        /\ goal = <<>> /\ ignoring = FALSE /\ collection = {} /\ marked = {} /\ to_do = <<>>
        /\ program = {} /\ answered = <<>>

Adorning == goal # <<>> /\ answered = <<>>

\* setup_ddl_and_adorn_program is called with one goal.
Ask(g, ignore) ==
    LET a == Atom(AdornLiteral(g))
    IN  /\ ~Adorning
        /\ ~IsRefused(given)
        /\ derived' = IF given.preds = {} THEN DerivedPreds(given) ELSE given.preds
        /\ goal' = g /\ ignoring' = ignore /\ collection' = {a} /\ marked' = {} /\ to_do' = <<a>>
        /\ program' = {} /\ answered' = <<>>
        /\ UNCHANGED <<given, rs>>

\* unprocessed_preds and extendleft: set iteration puts the unmarked predicates
\* in any order in front of the deque; those that were queued stay queued.
RefillNew(rest, all, done) == SetToSeqs((all \ done) \ ToSet(rest))
                                   \* a bug: the deque holds what is new only
RefillAll(rest, all, done) == SetToSeqs(all)      \* a bug: nothing is marked
Refill(rest, all, done) == {s \o rest : s \in SetToSeqs(all \ done)}

\* One turn of the loop.  Of equal adorned rules the set keeps the first.
Hits(a) == {i \in DOMAIN rs : HeadsRule(a, rs[i])}
Made(a) ==
    Map(LAMBDA c : IF HeadsRule(a, c)
                     THEN AdornRule(c, [c.head EXCEPT !.ad = a.ad], a.op, ignoring)
                     ELSE {[left |-> c]}, rs)
Taken(made) == Map(LAMBDA S : CHOOSE m \in S : TRUE, made)
Unequal(a, new) ==
    {j \in Hits(a) :
        ~\E q \in program \cup {new[k].adorned : k \in {m \in Hits(a) : m < j}} :
            SameRule(q, new[j].adorned)}
Turn(a, new) ==
    /\ program' = program \cup {new[i].adorned : i \in Unequal(a, new)}
    /\ rs' = [i \in DOMAIN rs |-> new[i].left]
    /\ collection' = collection \cup UNION {Calls(new[i].adorned) : i \in Hits(a)}
    /\ marked' = marked \cup {a}
    /\ to_do' \in Refill(Tail(to_do), collection', marked')
Process ==
    /\ Adorning /\ to_do # <<>>
    /\ \E made \in {Made(Head(to_do))} :
          /\ \A i \in DOMAIN rs : made[i] # {}
          /\ \E new \in {Taken(made)} : Turn(Head(to_do), new)
    /\ UNCHANGED <<given, derived, goal, ignoring, answered>>

\* No order passes a binding to every literal: StopIteration, InvalidSIPException
\* or an assertion leaves the loop, and nothing is handed over.
NoOrder ==
    /\ Adorning /\ to_do # <<>>
    /\ \E made \in {Made(Head(to_do))} : \E stop \in DOMAIN rs :
          /\ made[stop] = {} /\ \A i \in 1 .. stop - 1 : made[i] # {}
          /\ rs' = [i \in DOMAIN rs |-> IF i < stop THEN (CHOOSE m \in made[i] : TRUE).left
                                                    ELSE rs[i]]
    /\ goal' = <<>> /\ to_do' = <<>> /\ program' = {}
    /\ UNCHANGED <<given, derived, ignoring, collection, marked, answered>>

\* p_derived :- p, for each adornment a hybrid predicate has in a body.
Bridge(p, ad) ==
    LET args == SubSeq(BridgeVars, 1, Len(ad))
    IN  [head |-> Adorned(DerivedName[p], args, ad, FALSE),
         body |-> <<Lit(p, args)>>]
NoBridges(rules) == {}             \* a bug: the facts of a hybrid are left out
Bridges(rules) ==
    UNION {{Bridge(p, l.ad) : l \in {r.body[i] : i \in {k \in DOMAIN r.body :
                IsAdorned(r.body[k]) /\ r.body[k].op \in {p, DerivedName[p]}}}}
             : p \in Hybrid, r \in rules}

Finish ==
    /\ Adorning /\ to_do = <<>>
    /\ program' = program \cup Bridges(program)
    /\ answered' = [adorned_program |-> program', query_atoms |-> collection]
    /\ UNCHANGED <<given, rs, derived, goal, ignoring, collection, marked, to_do>>

Next == \/ \E g \in given.goals, ignore \in given.modes : Ask(g, ignore)
        \/ Process
        \/ NoOrder
        \/ Finish

Spec == Init /\ [][Next]_vars

\* The loop runs until it ends.
FairSpec == Spec /\ WF_vars(Process \/ NoOrder \/ Finish)
=============================================================================
