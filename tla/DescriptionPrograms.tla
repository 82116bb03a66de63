------------------------ MODULE DescriptionPrograms ------------------------
(***************************************************************************)
(* Description logic programs (DLP/__init__.py): T maps the axioms of an   *)
(* ontology to clauses, and map_dlp_to_network reduces each to rules.  A   *)
(* blank description stands, skolemized, for the class it describes.       *)
(***************************************************************************)
EXTENDS Conditions

CONSTANTS
    Callers     \* what is asked: [ontology, derived, expanded, ignoring, safety]:
                \* derived_preds, complement_expansions, ignore_negative_stratus,
                \* and "none", "loose" or "strict"

Member(id, v)      == Literal(id, <<v>>)
Role(p, v, w)      == Literal(p, <<v, w>>)
NewVar(id, v)      == v \o <<id>>            \* Variable(BNode()), one for each use
NewBNode(id, v)    == <<"bnode", id>> \o v

\* The first of the parts that raises, or the whole.
Unless(parts, whole) ==
    IF \E i \in DOMAIN parts : Raises(parts[i])
      THEN parts[CHOOSE i \in DOMAIN parts :
                    Raises(parts[i]) /\ \A k \in 1 .. i - 1 : ~Raises(parts[k])]
      ELSE whole

\* Tc: the negation of a named class, of a value or of an existential, of X
\* whatever is being described.  (The filler of an existential is a named class or
\* a value here.)
RECURSIVE Tb(_, _, _)
Tc(O, id) ==
    IF IsA(O, id, "value") THEN Naf(Tb(O, id, X))
    ELSE IF IsA(O, id, "some")
      THEN LET both == Tb(O, id, X).of
           IN  Or(<<Naf(both[1]), And(<<both[1], Naf(both[2])>>)>>)
    ELSE IF ~Blank(id) THEN Naf(Member(id, X))
    ELSE Unsupported

\* handle_conjunct: the conjuncts one operand of an intersection adds.
ConjunctsOfX(O, id, v) ==                \* a bug: the operands are about X
    IF IsA(O, id, "not") THEN <<Tc(O, O.desc[id].of)>>
    ELSE IF ~Blank(id) THEN <<Member(id, X)>> ELSE <<Tb(O, id, X)>>
ConjunctsOf(O, id, v) ==
    IF IsA(O, id, "not") THEN <<Tc(O, O.desc[id].of)>>
    ELSE LET processed == Tb(O, id, v)
             body      == IF Raises(processed) THEN processed ELSE FlatBody(processed)
         IN  IF Raises(body) THEN <<body>>
             ELSE IF ~Blank(id) THEN <<Member(id, v)>>
             ELSE IF IsA(O, id, "some") \/ IsA(O, id, "value") THEN Conjuncts(body)
             ELSE IF IsA(O, id, "only") THEN <<Malformed>>
             ELSE IF IsA(O, id, "or") THEN <<body>>
             ELSE IF IsA(O, id, "and") THEN <<Member(id, v)>>
             ELSE <<>>
Conjunction(O, ids, v) ==
    LET parts == FlattenSeq([i \in DOMAIN ids |-> ConjunctsOf(O, ids[i], v)])
    IN  Unless(parts, And(parts))

\* Tb: a class as a body.  Named classes and what has no description of use here
\* are class memberships.
Tb(O, id, v) ==
    IF Blank(id) /\ IsA(O, id, "and") THEN Conjunction(O, O.desc[id].of, v)
    ELSE IF Blank(id) /\ IsA(O, id, "or")
      THEN LET parts == [i \in DOMAIN O.desc[id].of |-> Tb(O, O.desc[id].of[i], v)]
           IN  Unless(parts, Or(parts))
    ELSE IF IsA(O, id, "some")
      THEN LET filler == Tb(O, O.desc[id].of, NewVar(id, v))
           IN  Unless(<<filler>>, And(<<Role(O.desc[id].prop, v, NewVar(id, v)), filler>>))
    ELSE IF IsA(O, id, "value") THEN Role(O.desc[id].prop, v, O.desc[id].ind)
    ELSE IF IsA(O, id, "not") THEN Tc(O, O.desc[id].of)
    ELSE Member(id, v)

\* Th: a class as a head.  A universal is a clause in the head.
RECURSIVE Th(_, _, _)
Th(O, id, v) ==
    IF IsA(O, id, "only")
      THEN Rule(Th(O, O.desc[id].of, NewVar(id, v)), Role(O.desc[id].prop, v, NewVar(id, v)))
    ELSE IF IsA(O, id, "value") THEN Role(O.desc[id].prop, v, O.desc[id].ind)
    ELSE IF IsA(O, id, "some")
      THEN And(<<Role(O.desc[id].prop, v, NewBNode(id, v)),
                 Th(O, O.desc[id].of, NewBNode(id, v))>>)
    ELSE IF IsA(O, id, "and")
      THEN And([i \in DOMAIN O.desc[id].of |-> Th(O, O.desc[id].of[i], v)])
    ELSE Member(id, v)

-----------------------------------------------------------------------------
\* T, as the clauses of one axiom or definition.  A pair [k, l, r] with k "and",
\* "or" or "not" is a definition in the graph, of l by r.
Y == <<"var", "Y">>
N(ax) == <<"var", ax.l, "n">>
Z(ax) == <<"var", ax.l, "z">>
RawNode(id) == IF Blank(id) THEN <<"raw", id>> ELSE id     \* not skolemized
Subsumption(O, c, d) == Unless(<<Tb(O, c, X)>>, NormalizeClause(Rule(Th(O, d, X), Tb(O, c, X))))

ClausesOf(O, derived, ax) ==
    CASE ax.k = "not" -> <<Rule(Member(ax.l, X), Tc(O, O.desc[ax.l].of))>>
      [] ax.k = "sub" -> <<Subsumption(O, ax.l, ax.r)>>
      [] ax.k = "equiv" ->
            (IF ax.l \in derived THEN <<>> ELSE <<Subsumption(O, ax.l, ax.r)>>)
                \o <<Subsumption(O, ax.r, ax.l)>>
      [] ax.k = "and" ->
            LET body == Conjunction(O, O.desc[ax.l].of, X)
            IN  <<Unless(<<body>>, Rule(Member(ax.l, X), body))>>
      [] ax.k = "or" ->
            <<Rule(Member(ax.l, X),
                   Or([i \in DOMAIN O.desc[ax.l].of |-> Member(O.desc[ax.l].of[i], X)]))>>
      [] ax.k = "inverse" -> <<Rule(Role(ax.r, X, N(ax)), Role(ax.l, N(ax), X)),
                               Rule(Role(ax.l, N(ax), X), Role(ax.r, X, N(ax)))>>
      [] ax.k = "transitive" ->
            <<Rule(Role(ax.l, X, Z(ax)), And(<<Role(ax.l, X, N(ax)), Role(ax.l, N(ax), Z(ax))>>))>>
      [] ax.k = "subProp" -> <<Rule(Role(ax.r, X, Y), Role(ax.l, X, Y))>>
      [] ax.k = "equivProp" -> <<Rule(Role(ax.r, X, Y), Role(ax.l, X, Y)),
                                 Rule(Role(ax.l, X, Y), Role(ax.r, X, Y))>>
      [] ax.k = "symmetric" -> <<Rule(Role(ax.l, Y, X), Role(ax.l, X, Y))>>
      [] ax.k = "range"  -> <<Rule(Member(RawNode(ax.r), N(ax)), Role(ax.l, X, N(ax)))>>
      [] ax.k = "domain" -> <<Rule(Member(RawNode(ax.r), X), Role(ax.l, X, N(ax)))>>

\* The order of the loops of T.
Loops == <<{"not"}, {"sub"}, {"equiv"}, {"and"}, {"or"}, {"inverse"}, {"transitive"},
           {"subProp"}, {"equivProp"}, {"symmetric"}, {"range", "domain"}>>
LoopOf(ax) == CHOOSE i \in DOMAIN Loops : ax.k \in Loops[i]
\* What the loops go through: the axioms, and the definitions of named classes.
Defining(O, expanded) ==
    {Axiom(O.desc[id].k, id, id) : id \in {d \in Definitions(O) :
        \/ O.desc[d].k = "and" /\ d \notin expanded
        \/ O.desc[d].k = "or"
        \/ O.desc[d].k = "not" /\ ~Blank(O.desc[d].of)}}
Caught(ax, f) == f.c = "unsupported" /\ ax.k \in {"sub", "and"}

-----------------------------------------------------------------------------
\* extend_n3_rules and make_rule, for a clause without disjunctions: a rule, none
\* when it is unsafe and that is put up with, or an error, of an assertion or of
\* unsafety.  A clause whose head is not made of literals is passed over.
Failed  == [failed |-> TRUE, rules |-> <<>>]
Made(s) == [failed |-> FALSE, rules |-> s]
OfLiterals(f) ==
    \/ f.c = "lit"
    \/ f.c = "and" /\ \A i \in DOMAIN f.of : f.of[i].c = "lit"
\* extend_n3_rules prepares a clause for the network; make_rule asserts that its head
\* and body are made of literals.
Extended(r) == Prepared(Conjuncts(r.head), Conjuncts(r.body))
MakesRule(r) == OfLiterals(r.head) /\ OfLiterals(r.body)
Checked(rule, safety) ==
    IF safety = "none" THEN Made(<<rule>>)
    ELSE IF Len(rule.head) > 1 /\ ~\E t \in TermsIn(And(rule.head)) : IsBNode(t) THEN Failed
    ELSE IF IsSafe(rule) THEN Made(<<rule>>)
    ELSE IF safety = "loose" THEN Made(<<>>) ELSE Failed
Plain(r, safety) ==
    LET n == NormalizeClause(r)
    IN  IF r.head.c \notin {"and", "lit"} THEN Made(<<>>)
        ELSE IF Raises(n) THEN Failed
        ELSE IF ~MakesRule(n) THEN Failed
        ELSE Checked(Extended(n), safety)

\* normalize_disjunctions and handle_non_disjunctive_clauses: safety is not asked.
Disjunctive(r) ==
    LET disj   == r.body.of[Where(r.body.of)]
        bodies == Bodies(r.body.of, disj).made
        made(i) == Plain([r EXCEPT !.body = And(FlattenConjunctions(bodies[i]))], "none")
    IN  IF r.head.c \notin {"and", "lit"} \/ \E i \in DOMAIN bodies : made(i).failed
          THEN Failed
          ELSE Made(FlattenSeq([i \in DOMAIN bodies |-> made(i).rules]))

\* The rules of one clause, normalized, and its body as they leave it.
OneDisjunction(f) == Disjunctions(f) = 1 /\ f.c = "and" /\ Where(f.of) # 0
Reduce(r, safety) ==
    IF Disjunctions(r.body) = 0 THEN Plain(r, safety)
    ELSE IF OneDisjunction(r.body) THEN Disjunctive(r) ELSE Failed
LeftBody(r) ==
    IF OneDisjunction(r.body) THEN And(Bodies(r.body.of, r.body.of[Where(r.body.of)]).left)
    ELSE IF r.head.c \in {"and", "lit"} THEN FlatBody(r.body) ELSE r.body

\* map_dlp_to_network on the clauses that lloyd_topor_transformation yields for one:
\* the conjuncts of a head share the body, which each reduction leaves to the next.
\* A universal has a body of its own.
RECURSIVE RulesOf(_, _)
RulesOf(r, safety) ==
    IF Raises(r) THEN [failed |-> TRUE, rules |-> <<>>, body |-> r]
    ELSE IF r.body.c = "or"
      THEN LET each == [i \in DOMAIN r.body.of |->
                          RulesOf(NormalizeClause(Rule(r.head, r.body.of[i])), safety)]
           IN  [failed |-> \E i \in DOMAIN each : each[i].failed,
                rules  |-> FlattenSeq([i \in DOMAIN each |-> each[i].rules]), body |-> r.body]
    ELSE LET part(h, body) ==
               NormalizeClause(IF r.head.c = "and" THEN OfConjunction(PartClause(h, body))
                               ELSE PartClause(h, body))
             turn(done, h) ==
               LET n   == part(h, done.body)
                   out == IF Raises(n) THEN Failed ELSE Reduce(n, safety)
               IN  [failed |-> done.failed \/ out.failed, rules |-> done.rules \o out.rules,
                    body   |-> IF out.failed \/ h.c = "clause" THEN done.body ELSE LeftBody(n)]
         IN  FoldLeft(turn, [failed |-> FALSE, rules |-> <<>>, body |-> r.body], HeadParts(r.head))

-----------------------------------------------------------------------------
VARIABLES
    asked,       \* the call
    todo,        \* the axioms and definitions T has not come to
    axiom,       \* the one it is at
    clauses,     \* those of its clauses that are not reduced
    rules,       \* ruleset
    negatives,   \* negative_stratus
    status       \* "running", "returned", or "raised" when an exception left T

vars == <<asked, todo, axiom, clauses, rules, negatives, status>>
NoAxiom == Axiom("none", 0, 0)

Init ==
    /\ asked \in Callers
    /\ todo = asked.ontology.axioms \cup Defining(asked.ontology, asked.expanded)
    /\ axiom = NoAxiom /\ clauses = <<>> /\ rules = {} /\ negatives = {} /\ status = "running"

\* The next axiom of the first loop that has one left.
NextAxiom(ax) ==
    /\ status = "running" /\ clauses = <<>>
    /\ ax \in todo /\ \A other \in todo : LoopOf(ax) <= LoopOf(other)
    /\ todo' = todo \ {ax} /\ axiom' = ax
    /\ clauses' = ClausesOf(asked.ontology, asked.derived, ax)
    /\ UNCHANGED <<asked, rules, negatives, status>>

\* An exception of T: caught where T warns, and the axiom skipped.
Skip ==
    /\ status = "running" /\ clauses # <<>> /\ Caught(axiom, Head(clauses))
    /\ clauses' = <<>>
    /\ UNCHANGED <<asked, todo, axiom, rules, negatives, status>>
Raise ==
    /\ status = "running" /\ clauses # <<>>
    /\ ~Caught(axiom, Head(clauses)) /\ RulesOf(Head(clauses), asked.safety).failed
    /\ status' = "raised"
    /\ UNCHANGED <<asked, todo, axiom, clauses, rules, negatives>>

\* A set of rules keeps the first of those with one hash.
Add(S, new) ==
    FoldSeq(LAMBDA r, T : IF \E q \in T : SameHash(q, r) THEN T ELSE T \cup {r}, S, new)
\* The intersection that defines a class is a head too, unless the class is derived:
\* with the body as the first clause left it.
Converse(r, body) ==
    IF axiom.k = "and" /\ axiom.l \notin asked.derived /\ r.body.c = "and"
       /\ r.head = Member(axiom.l, X)
      THEN <<Rule(body, r.head)>> ELSE <<>>
ReduceClause ==
    /\ status = "running" /\ clauses # <<>>
    /\ \E r \in {Head(clauses)} :
          \E out \in {RulesOf(r, asked.safety)} :
                /\ ~out.failed
                /\ negatives' = negatives \cup {q \in ToSet(out.rules) : IsNegative(q)}
                /\ rules' = Add(rules, SelectSeq(out.rules,
                                          LAMBDA q : ~IsNegative(q) \/ ~asked.ignoring))
                /\ clauses' = Tail(clauses) \o Converse(r, out.body)
    /\ UNCHANGED <<asked, todo, axiom, status>>

Return ==
    /\ status = "running" /\ clauses = <<>> /\ todo = {}
    /\ status' = "returned"
    /\ UNCHANGED <<asked, todo, axiom, clauses, rules, negatives>>

Next == \/ \E ax \in todo : NextAxiom(ax)
        \/ Skip
        \/ Raise
        \/ ReduceClause
        \/ Return

Spec == Init /\ [][Next]_vars
=============================================================================
