-------------------------- MODULE BackwardFixpoint --------------------------
(***************************************************************************)
(* The backward fixpoint procedure (BackwardFixpointProcedure.py): a RETE  *)
(* network of meta-rules interprets the adorned program of a goal.  For    *)
(* rule k with body l1 .. ln there are                                     *)
(*   a:  head :- query_head, evaluate(k, n)                                *)
(*   b:  evaluate(k, 0) :- query_head                                      *)
(*   c:  evaluate(k, j) :- evaluate(k, j - 1), lj       (lj derived)       *)
(*   d:  query_lj :- evaluate(k, j - 1)                                    *)
(* but evaluate is no fact: actions of the nodes put the bindings into the *)
(* memories of evaluate(k, j), and query the base facts for a maximal run  *)
(* of base literals (push_down_mdbq) instead of inferring query_lj.        *)
(*                                                                         *)
(* A token of the meta-network is its binding.  As in ReteNetwork the      *)
(* variable stack holds the calls and loops in progress, one that is       *)
(* through being dropped.  Builtins and second-order predicates are left   *)
(* out.                                                                    *)
(***************************************************************************)
EXTENDS AdornProgram

VARIABLES
    edb,               \* the fact graph
    tabled,            \* the cache of tabled_query, one for all procedures
    queries,           \* the query facts: the one fed and those inferred
    inferred_facts,    \* the other facts inferred
    evaluated,         \* the <<rule, j, binding>> in the memories of evaluate
    matched,           \* the <<rule, j, fact>> in the right memories of rules c
    fired_edb_queries, \* the <<rule, j, binding>> base queries were run for
    goal_solutions,    \* what GoalSolutionAction collected
    stack,             \* the calls in progress, innermost first
    outcome            \* of answers(): "idle", "running", "returned", "raised"

\* No literal has a variable for its predicate.
ASSUME NamesAssumption ==
    /\ Hybrid \cap Var = {}
    /\ \A s \in Scenarios : \A l \in BodyLiterals(s.rules) : Renamed(l).op \notin Var

adornVars == <<given, rs, derived, goal, ignoring, collection, marked, to_do, program, answered>>
memVars   == <<queries, inferred_facts, evaluated, matched, fired_edb_queries, goal_solutions>>
bfpVars   == <<edb, tabled, memVars, stack, outcome>>

-----------------------------------------------------------------------------
(***************************************************************************)
(* Queries for derived predicates.                                         *)
(***************************************************************************)
\* BFPQueryTerm: the predicate and its adornment make a predicate of the bound
\* arguments, which keep their places here; when none is bound it is OpenQuery.
BoundPlaces(l) == {i \in DOMAIN l.args : IsAdorned(l) => l.ad[i] = "b"}
QueryTerm(l) == Lit(<<l.op, l.ad>>, [i \in BoundPlaces(l) |-> l.args[i]])

\* An alpha node passes a fact and binds each variable at its first place.
Passes(l, f) == /\ l.op = f.op /\ DOMAIN l.args = DOMAIN f.args
                /\ \A i \in DOMAIN l.args : l.args[i] \in Var \/ l.args[i] = f.args[i]
BoundBy(l, f) == [v \in VarsOf(l) |-> f.args[CHOOSE i \in DOMAIN l.args :
                    l.args[i] = v /\ \A j \in DOMAIN l.args : j < i => l.args[j] # v]]
Agrees(theta, phi) == \A v \in DOMAIN theta \cap DOMAIN phi : theta[v] = phi[v]
Merge(theta, phi) ==
    [v \in DOMAIN theta \cup DOMAIN phi |-> IF v \in DOMAIN theta THEN theta[v] ELSE phi[v]]

\* The goal handed to the procedure, and its ground triple, if it is one.
Asked == Renamed(goal)
TopQuery == Fact(QueryTerm(AdornLiteral(Asked)))

-----------------------------------------------------------------------------
(***************************************************************************)
(* Queries for base facts.                                                 *)
(***************************************************************************)
\* edb_query_from_body_iterator: the longest run of base literals after j.
IsBase(l) == ~IsAdorned(l) /\ ~l.naf /\ l.op \notin derived
EndOf(r, j) == CHOOSE e \in j .. Len(r.body) :
                  /\ \A i \in j + 1 .. e : IsBase(r.body[i])
                  /\ e = Len(r.body) \/ ~IsBase(r.body[e + 1])
ConjunctionAt(r, j, theta) ==
    Map(LAMBDA l : Ground(l, theta), SubSeq(r.body, j + 1, EndOf(r, j)))

\* The SPARQL that rdf_tuples_to_sparql writes: all the literals hold in the facts.
AllIn(q, K) == \A i \in DOMAIN q : Fact(q[i]) \in K
\* EDBQuery.evaluate: a truth value for a ground query, else the bindings of its
\* variables.
Results(q, K) ==
    IF VarsOfAll(q) = {} THEN {AllIn(q, K)}
    ELSE {phi \in [VarsOfAll(q) -> Terms(K)] : AllIn(Map(LAMBDA l : Ground(l, phi), q), K)}

\* EDBQuery.__hash__, which is its equality: how often each term occurs.
Key(q) == LET ts == FlattenSeq(Map(LAMBDA l : <<l.op>> \o l.args, q))
          IN  [t \in ToSet(ts) |-> Cardinality({i \in DOMAIN ts : ts[i] = t})]

\* ConjunctiveQueryMemoize: what is held under the key, or an evaluation, each
\* answer of which goes into the cache before it is used.
Tabled(q) == IF Key(q) \in DOMAIN tabled THEN tabled[Key(q)] ELSE Results(q, edb)
Table(q, ans) ==
    [k \in {Key(q)} \cup DOMAIN tabled |->
        (IF k = Key(q) THEN {ans} ELSE {}) \cup IF k \in DOMAIN tabled THEN tabled[k] ELSE {}]

-----------------------------------------------------------------------------
(***************************************************************************)
(* The calls.                                                              *)
(***************************************************************************)
\* add_wme: the rules b that a query reaches; the rules c that a fact reaches.
HasC(l) == l.op \in derived \cup Hybrid
AddQuery(q) == [op |-> "query", query |-> q,
                todo |-> {r \in program : Passes(QueryTerm(r.head), q)}]
AddFact(f) ==
    [op |-> "fact", fact |-> f,
     todo |-> UNION {{<<r, j>> : j \in {i \in DOMAIN r.body :
                        HasC(r.body[i]) /\ Passes(r.body[i], f)}} : r \in program}]
\* EvaluateExecution for evaluate(r, j), rule d of position j + 1, QueryExecution,
\* and what fire_consequent does once add_wme has returned.
EvaluateFor(r, j, thetas) == [op |-> "evaluate", rule |-> r, at |-> j, todo |-> thetas]
Call(r, j, theta) == [op |-> "call", rule |-> r, at |-> j, todo |-> {theta}]
Query(r, j, theta, q) ==
    [op |-> "edb", rule |-> r, at |-> j, binding |-> theta, query |-> q,
     fresh |-> Key(q) \notin DOMAIN tabled, todo |-> Tabled(q)]
Conclude(solutions) == [op |-> "conclude", todo |-> {solutions}]
AddFacts(facts) == [op |-> "facts", facts |-> facts, todo |-> DOMAIN facts]
NoCall == [op |-> "none", todo |-> {}]

Running == outcome = "running"
Top == Head(stack)
In(op) == Running /\ Top.op = op
PushAny(f, calls) == <<f>> \o calls       \* a bug: loops that are through are kept
Push(f, calls) == IF f.todo = {} THEN calls ELSE <<f>> \o calls
\* The loop at the top has taken up x, which makes the calls f, and then g.
Proceed(x, f, g) ==
    /\ stack' = Push(f, Push(g, Push([Top EXCEPT !.todo = @ \ {x}], Tail(stack))))
    /\ outcome' = IF stack' = <<>> THEN "returned" ELSE "running"

\* GoalSolutionAction of rule a: its binding in terms of the goal, for each rule
\* with the goal's predicate, whatever the constants of the goal.  Variables the
\* goal calls by the same name are not mapped.
\* a bug: the predicate of the rule is not compared
SolutionByAny(r, theta) ==
    LET m == VarMapping(r.head, [Asked EXCEPT !.op = r.head.op])
        at(w) == CHOOSE v \in DOMAIN m : m[v] = w
    IN  {[w \in {m[v] : v \in DOMAIN m \cap DOMAIN theta} |-> theta[at(w)]]}
SolutionBy(r, theta) ==
    IF r.head.op # Asked.op THEN {}
    ELSE LET m == VarMapping(r.head, Asked)
             at(w) == CHOOSE v \in DOMAIN m : m[v] = w
         IN  {[w \in {m[v] : v \in DOMAIN m \cap DOMAIN theta} |-> theta[at(w)]]}

-----------------------------------------------------------------------------
BFPInit ==
    /\ edb = given.facts /\ tabled = <<>>
    /\ queries = {} /\ inferred_facts = {} /\ evaluated = {} /\ matched = {}
    /\ fired_edb_queries = {} /\ goal_solutions = {}
    /\ stack = <<>> /\ outcome = "idle"

\* The constructor, create_top_down_rete_network, and answers up to feeding the
\* query for the goal: the memories are new, the cache is not.
Start ==
    /\ outcome = "idle" /\ answered # <<>>
    /\ queries' = {TopQuery}
    /\ stack' = Push(AddQuery(TopQuery), <<>>)
    /\ outcome' = IF stack' = <<>> THEN "returned" ELSE "running"
    /\ UNCHANGED <<edb, tabled, inferred_facts, evaluated, matched, fired_edb_queries,
                   goal_solutions, adornVars>>

\* Rule b: the query reaches a rule with this head.
BeginRule ==
    /\ In("query")
    /\ \E r \in Top.todo :
          Proceed(r, EvaluateFor(r, 0, {BoundBy(QueryTerm(r.head), Top.query)}), NoCall)
    /\ UNCHANGED <<edb, tabled, memVars, adornVars>>

\* A fact enters the right memory of a rule c and is joined with the left one.
JoinFact ==
    /\ In("fact")
    /\ \E c \in Top.todo : \E phi \in {BoundBy(c[1].body[c[2]], Top.fact)} :
          /\ matched' = matched \cup {<<c[1], c[2], Top.fact>>}
          /\ Proceed(c, EvaluateFor(c[1], c[2],
                {Merge(e[3], phi) : e \in {x \in evaluated : /\ x[1] = c[1] /\ x[2] = c[2] - 1
                                                        /\ Agrees(x[3], phi)}}), NoCall)
    /\ UNCHANGED <<edb, tabled, queries, inferred_facts, evaluated, fired_edb_queries,
                   goal_solutions, adornVars>>

\* A binding enters evaluate(r, j), j < n: it is joined with the facts rule c
\* knows already, then rule d fires.
KnownLater(r, j, theta) == {}     \* a bug: a binding meets later facts only
Known(r, j, theta) ==
    {Merge(theta, BoundBy(r.body[j], m[3])) : m \in {x \in matched :
        x[1] = r /\ x[2] = j /\ Agrees(theta, BoundBy(r.body[j], x[3]))}}
EvaluateBody ==
    /\ In("evaluate") /\ Top.at < Len(Top.rule.body)
    /\ \E theta \in Top.todo :
          /\ evaluated' = evaluated \cup {<<Top.rule, Top.at, theta>>}
          /\ Proceed(theta, EvaluateFor(Top.rule, Top.at + 1,
                                        Known(Top.rule, Top.at + 1, theta)),
                            Call(Top.rule, Top.at, theta))
    /\ UNCHANGED <<edb, tabled, queries, inferred_facts, matched, fired_edb_queries,
                   goal_solutions, adornVars>>

\* A binding enters evaluate(r, n): rule a joins it with the query it stems from
\* and infers the head, unless a variable is left or it is known.
IsNewHead(f) == IsGround(f) /\ Fact(f) \notin inferred_facts
EvaluateHead ==
    /\ In("evaluate") /\ Top.at = Len(Top.rule.body)
    /\ \E theta \in Top.todo : \E f \in {Ground(Top.rule.head, theta)} :
          /\ evaluated' = evaluated \cup {<<Top.rule, Top.at, theta>>}
          /\ IF IsNewHead(f)
               THEN /\ inferred_facts' = inferred_facts \cup {Fact(f)}
                    /\ Proceed(theta, AddFact(Fact(f)), Conclude(SolutionBy(Top.rule, theta)))
                    /\ UNCHANGED goal_solutions
               ELSE /\ goal_solutions' = goal_solutions \cup SolutionBy(Top.rule, theta)
                    /\ Proceed(theta, NoCall, NoCall)
                    /\ UNCHANGED inferred_facts
    /\ UNCHANGED <<edb, tabled, queries, matched, fired_edb_queries, adornVars>>

\* Rule d for a derived literal infers the query.
Subquery ==
    /\ In("call") /\ ~IsBase(Top.rule.body[Top.at + 1])
    /\ \E theta \in Top.todo : \E q \in {Ground(QueryTerm(Top.rule.body[Top.at + 1]), theta)} :
          IF IsGround(q) /\ Fact(q) \notin queries
            THEN /\ queries' = queries \cup {Fact(q)}
                 /\ Proceed(theta, AddQuery(Fact(q)), Conclude({}))
            ELSE Proceed(theta, NoCall, NoCall) /\ UNCHANGED queries
    /\ UNCHANGED <<edb, tabled, inferred_facts, evaluated, matched, fired_edb_queries,
                   goal_solutions, adornVars>>

\* Rule d for a base literal runs the base query once for a token.
QueryBase ==
    /\ In("call") /\ IsBase(Top.rule.body[Top.at + 1])
    /\ \E theta \in Top.todo : \E key \in {<<Top.rule, Top.at, theta>>} :
       \E q \in {ConjunctionAt(Top.rule, Top.at, theta)} :
          /\ fired_edb_queries' = fired_edb_queries \cup {key}
          /\ Proceed(theta, IF key \in fired_edb_queries THEN NoCall
                            ELSE Query(Top.rule, Top.at, theta, q), NoCall)
    /\ UNCHANGED <<edb, tabled, queries, inferred_facts, evaluated, matched,
                   goal_solutions, adornVars>>

\* The next answer: handle_query_answer activates the alpha nodes with the base
\* facts, then the binding, extended, enters the memory at the end of the run.
NextAnswer ==
    /\ In("edb")
    /\ \E ans \in Top.todo :
       \E theta \in IF VarsOfAll(Top.query) # {} THEN {Merge(Top.binding, ans)}
                    ELSE IF ans THEN {Top.binding} ELSE {<<>>} :
          /\ tabled' = IF Top.fresh THEN Table(Top.query, ans) ELSE tabled
          /\ IF VarsOfAll(Top.query) = {} /\ ~ans THEN Proceed(ans, NoCall, NoCall)
             ELSE Proceed(ans, AddFacts(Map(LAMBDA l : Fact(Ground(l, theta)), Top.query)),
                               EvaluateFor(Top.rule, EndOf(Top.rule, Top.at), {theta}))
    /\ UNCHANGED <<edb, memVars, adornVars>>
NextFact ==
    /\ In("facts")
    /\ \E i \in Top.todo : /\ \A k \in Top.todo : i <= k
                          /\ Proceed(i, AddFact(Top.facts[i]), NoCall)
    /\ UNCHANGED <<edb, tabled, memVars, adornVars>>

\* add_wme has returned: GoalSolutionAction runs; then InferredGoal leaves all
\* the calls if the goal is ground and inferred.
ConcludeStep ==
    /\ In("conclude")
    /\ \E solutions \in Top.todo :
          /\ goal_solutions' = goal_solutions \cup solutions
          /\ IF IsGround(Asked) /\ Fact(Asked) \in inferred_facts
               THEN stack' = <<>> /\ outcome' = "raised"
               ELSE Proceed(solutions, NoCall, NoCall)
    /\ UNCHANGED <<edb, tabled, queries, inferred_facts, evaluated, matched,
                   fired_edb_queries, adornVars>>

ProcedureStep ==
    \/ Start \/ BeginRule \/ JoinFact \/ EvaluateBody \/ EvaluateHead \/ Subquery
    \/ QueryBase \/ NextAnswer \/ NextFact \/ ConcludeStep

-----------------------------------------------------------------------------
\* invoke_decision_procedure: the answers of a call that has ended, TRUE standing
\* for the empty binding.  Solutions that say nothing are passed over.
Ended == outcome \in {"returned", "raised"}
Answers ==
    IF IsGround(Asked) THEN {s \in {<<>>} : outcome = "raised"}
    ELSE IF \E s \in goal_solutions : s # <<>> THEN goal_solutions
    ELSE Solutions(Asked, inferred_facts)
=============================================================================
