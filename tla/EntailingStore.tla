--------------------------- MODULE EntailingStore ---------------------------
(***************************************************************************)
(* TopDownSPARQLEntailingStore (BackwardChainingStore.py): it answers      *)
(* triple patterns from the fact graph and, one at a time, through the     *)
(* adorned program of a pattern and the backward fixpoint procedure.       *)
(* batch_unify joins the patterns depth first (conjunctive_sip_strategy);  *)
(* solve_triple_pattern, which query and triples call, does not join.      *)
(*                                                                         *)
(* A caller may unify patterns (batch_unify, kind "unify"), query for an   *)
(* "ask" or a "select", or have sparql_interlocution_basic_graph_pattern   *)
(* join the patterns of a query ("join").                                  *)
(*                                                                         *)
(* Scenarios have two more fields: requests, the [kind, where, vars] that  *)
(* callers make, vars being what a SELECT projects, and updates, the facts *)
(* they add to the fact graph in between.                                  *)
(***************************************************************************)
EXTENDS BackwardFixpoint

VARIABLES
    request,     \* the request being answered, or the last one, with its patterns
    branches,    \* batch_unify: the loops over solutions, innermost first,
                 \* each [rest, todo] with the patterns left and the bindings
    waiting,     \* solve_triple_pattern: the derived patterns not yet solved
    yielded,     \* the bindings yielded so far, or the answer to an ASK
    ended        \* how it ended: "open", "done", "TypeError", "no sip", "unsupported"

storeVars == <<request, branches, waiting, yielded, ended>>

\* What callers ask and add: patterns are literals, and facts are ground.
IsPart(part) == /\ part.triples \in Seq(ToSet(part.triples))
                /\ \A i \in DOMAIN part.triples : IsLiteral(part.triples[i])
IsGroundFact(f) == /\ f = Fact(f) /\ f.args \in Seq(ToSet(f.args))
                   /\ ToSet(f.args) \cap Var = {}
ASSUME RequestsAssumption ==
    \A s \in Scenarios :
        /\ \A req \in s.requests : /\ req.where \in Seq(ToSet(req.where))
                                   /\ \A i \in DOMAIN req.where : IsPart(req.where[i])
        /\ \A f \in s.facts \cup s.updates : IsGroundFact(f)

\* What is declared derived is <<>> or <<a set of predicates>>.  The constructor takes
\* the heads of the rules where nothing is declared; what occurs in the facts as
\* well is hybrid, and another name stands for what the rules say of it.
DeclaredOr(declared, rules) == IF declared = <<>> THEN Heads(rules) ELSE declared[1]
HybridsAmong(preds, facts) == {p \in preds : \E f \in facts : f.op = p}
StorePreds(declared, rules, facts) ==
    LET preds   == DeclaredOr(declared, rules)
        hybrids == HybridsAmong(preds, facts)
    IN  (preds \ hybrids) \cup {DerivedName[p] : p \in hybrids}

\* owl_entailment_regime_graph makes a store over the rules of an ontology and those
\* of the caller.  The predicates of the goals are derived next to what is declared,
\* if anything is.
WithGoals(declared, goals) ==
    IF declared = <<>> THEN <<>> ELSE <<declared[1] \cup {g.op : g \in goals}>>
Regime(rules, extra, declared, goals, facts) ==
    [rules |-> rules \o extra, facts |-> facts,
     preds |-> StorePreds(WithGoals(declared, goals), rules \o extra, facts)]

\* extract_triples_from_query.  A query is the sequence of its basic graph patterns,
\* each with the clauses around it, outermost first.  Their triples are the patterns
\* asked for, whatever service they are for; a service in a service raises, and so
\* does a clause of another kind.
Part(within, triples) == [within |-> within, triples |-> triples]
KnownClauses == {"AskQuery", "SelectQuery", "Project", "GroupGraphPatternSub", "ServiceGraphPattern"}
IsService(name) == name = "ServiceGraphPattern"
IsUnsupported(part) ==
    \/ \E i \in DOMAIN part.within : part.within[i] \notin KnownClauses
    \/ \E i, j \in DOMAIN part.within :
          i # j /\ IsService(part.within[i]) /\ IsService(part.within[j])
Extract(query) == FlattenSeq(Map(LAMBDA part : part.triples, query))

\* derived_predicate_from_triple; derived_predicates is that of the constructor.
IsIDB(l) == l.op \in given.preds \cup Hybrid
Only(test(_), s) == FlattenSeq(Map(LAMBDA x : IF test(x) THEN <<x>> ELSE <<>>, s))
Base(ps)      == Only(LAMBDA l : ~IsIDB(l), ps)
DerivedOf(ps) == Only(IsIDB, ps)

Open == ended = "open"
Frame(rest, todo) == [rest |-> rest, todo |-> todo]
Live(frames) == Only(LAMBDA f : f.todo # {}, frames)
Finished(frames) == IF frames = <<>> THEN "done" ELSE "open"

StoreInit == /\ request = <<>> /\ branches = <<>> /\ waiting = <<>> /\ yielded = {}
             /\ ended = "done"

\* The interlocution keeps an answer that binds all variables of the patterns; a
\* SELECT keeps of each row what it projects.
Kept(theta) == request.kind = "join" => VarsOfAll(request.patterns) \subseteq DOMAIN theta
Projected(rows, vs) == {[v \in vs \cap DOMAIN row |-> row[v]] : row \in rows}

\* batch_unify: the join strategy if a pattern is derived, else one base query (with
\* a variable: without one it is no SPARQL).
StartUnify(patterns) ==
    /\ IF DerivedOf(patterns) # <<>>
         THEN /\ branches' = <<Frame(patterns, {<<>>})>>
              /\ yielded' = {} /\ ended' = "open"
         ELSE /\ yielded' = Results(patterns, edb)
              /\ branches' = <<>> /\ ended' = "done"
    /\ waiting' = <<>>
Unify(req) == req.kind = "unify" /\ StartUnify(req.patterns)
\* sparql_interlocution_basic_graph_pattern joins whatever the form of the query.
Interlocute(req) == req.kind = "join" /\ StartUnify(req.patterns)

\* solve_triple_pattern up to the loop over the derived patterns: the base patterns
\* are one query.  The answer to an open one is a generator, which is true with or
\* without a row, so only a ground group falsifies an ASK.  A SELECT takes the rows, and
\* where a ground group holds, the loop over the truth value is a TypeError.
IsTruth(ps, b) == ps # <<>> /\ VarsOfAll(ps) = {} /\ AllIn(ps, edb) = b
BaseRows(ps) == IF ps = <<>> \/ VarsOfAll(ps) = {} THEN {} ELSE Results(ps, edb)
SolveAsk(req, base) ==
    /\ yielded' = {x \in {<<>>} : ~IsTruth(base, FALSE)}
    /\ waiting' = IF IsTruth(base, FALSE) THEN <<>> ELSE DerivedOf(req.patterns)
    /\ ended' = Finished(waiting')
SolveSelect(req, base) ==
    /\ yielded' = Projected(BaseRows(base), req.vars)
    /\ waiting' = IF IsTruth(base, TRUE) THEN <<>> ELSE DerivedOf(req.patterns)
    /\ ended' = IF IsTruth(base, TRUE) THEN "TypeError" ELSE Finished(waiting')
Solve(req) ==
    /\ branches' = <<>>
    /\ \/ req.kind = "ask"    /\ SolveAsk(req, Base(req.patterns))
       \/ req.kind = "select" /\ SolveSelect(req, Base(req.patterns))

Request(req) ==
    /\ ~Open
    /\ request' = [kind |-> req.kind, patterns |-> Extract(req.where), vars |-> req.vars]
    /\ IF \E i \in DOMAIN req.where : IsUnsupported(req.where[i])
         THEN ended' = "unsupported" /\ UNCHANGED <<branches, waiting, yielded>>
         ELSE \E r \in {request'} : Unify(r) \/ Interlocute(r) \/ Solve(r)
    /\ UNCHANGED <<adornVars, bfpVars>>

\* Between requests the owner of the fact graph adds to it.
Update(f) ==
    /\ ~Open /\ f \notin edb
    /\ edb' = edb \cup {f}
    /\ UNCHANGED <<adornVars, tabled, memVars, stack, outcome, storeVars>>

-----------------------------------------------------------------------------
\* No derived goal is being solved.
Between == Open /\ goal = <<>>
Branch == Head(branches)
Picked(theta, frames) ==
    /\ branches' = Live(frames \o <<[Branch EXCEPT !.todo = @ \ {theta}]>> \o Tail(branches))
    /\ ended' = Finished(branches')

\* All patterns are satisfied: the bindings are yielded.
Yield ==
    /\ Between /\ branches # <<>> /\ Branch.rest = <<>>
    /\ \E theta \in Branch.todo : /\ yielded' = yielded \cup {x \in {theta} : Kept(x)}
                                   /\ Picked(theta, <<>>)
    /\ UNCHANGED <<adornVars, bfpVars, request, waiting>>

\* The first pattern left, after the bindings are put into it.
Next1(theta) == Ground(Head(Branch.rest), theta)

\* A base pattern is queried for; a loop over the truth value of a ground one
\* is a TypeError.
SolveBase ==
    /\ Between /\ branches # <<>> /\ Branch.rest # <<>>
    /\ \E theta \in Branch.todo :
          /\ ~IsIDB(Next1(theta))
          /\ IF IsGround(Next1(theta))
               THEN branches' = <<>> /\ ended' = "TypeError"
               ELSE Picked(theta, <<Frame(Tail(Branch.rest),
                        {Merge(theta, row) : row \in Results(<<Next1(theta)>>, edb)})>>)
    /\ UNCHANGED <<adornVars, bfpVars, request, waiting, yielded>>

\* A derived pattern becomes a goal: setup_ddl_and_adorn_program is called, in the
\* mode ignore_unbound_d_preds.
AskFor(g) == Ask(g, TRUE) /\ outcome' = "idle" /\ UNCHANGED <<edb, tabled, memVars, stack>>
SolveDerived ==
    /\ Between /\ branches # <<>> /\ Branch.rest # <<>>
    /\ \E theta \in Branch.todo : IsIDB(Next1(theta)) /\ AskFor(Next1(theta))
    /\ UNCHANGED storeVars

\* The loop of solve_triple_pattern goes on to its next derived pattern.
SolveNext == Between /\ waiting # <<>> /\ AskFor(Head(waiting)) /\ UNCHANGED storeVars

\* The worklist of adorn_program, until it hands over the program.
AdornStep == (Process \/ Finish) /\ UNCHANGED <<bfpVars, storeVars>>

\* No program for the goal: the exception ends the request.
Give(up) == /\ branches' = <<>> /\ waiting' = <<>> /\ ended' = up
            /\ UNCHANGED <<request, yielded>>
Refuse == NoOrder /\ Give("no sip") /\ UNCHANGED bfpVars

BackwardStep == ProcedureStep /\ UNCHANGED storeVars

-----------------------------------------------------------------------------
\* The goal is solved; its procedure is not used again.
Solved == Open /\ Ended /\ goal # <<>>
Forget ==
    /\ goal' = <<>> /\ answered' = <<>> /\ outcome' = "idle"
    /\ queries' = {} /\ inferred_facts' = {} /\ evaluated' = {} /\ matched' = {}
    /\ fired_edb_queries' = {} /\ goal_solutions' = {}
    /\ UNCHANGED <<given, rs, derived, ignoring, collection, marked, to_do, program,
                   edb, tabled, stack>>

\* conjunctive_sip_strategy goes on with each answer: merged with the bindings,
\* but after a ground goal without them, its branch starting from nothing.
MergedNot(theta) == Answers       \* a bug: the bindings so far are dropped
Merged(theta) ==
    IF IsGround(Asked) THEN Answers ELSE {Merge(theta, s) : s \in Answers}
Instantiated(ps, theta) == Map(LAMBDA l : Ground(l, theta), ps)
Resume ==
    /\ Solved /\ branches # <<>>
    /\ \E theta \in Branch.todo :
          /\ Next1(theta) = goal
          /\ Picked(theta, <<Frame(Instantiated(Tail(Branch.rest), theta), Merged(theta))>>)
    /\ UNCHANGED <<request, waiting, yielded>>
    /\ Forget

\* A SELECT takes all answers, an ASK the first: an open goal without answers has
\* none, and unpacking it is a TypeError; a ground goal that fails ends the loop.
TakeAgain ==                      \* a bug: the pattern solved is not taken out
    /\ Solved /\ waiting # <<>> /\ request.kind = "select"
    /\ yielded' = yielded \cup Projected(Answers, request.vars) /\ waiting' = waiting /\ ended' = "open"
    /\ UNCHANGED <<request, branches>>
    /\ Forget
Take ==
    /\ Solved /\ waiting # <<>> /\ request.kind = "select"
    /\ yielded' = yielded \cup Projected(Answers, request.vars)
    /\ waiting' = Tail(waiting) /\ ended' = Finished(waiting')
    /\ UNCHANGED <<request, branches>>
    /\ Forget
TakeFirst ==
    /\ Solved /\ waiting # <<>> /\ request.kind = "ask"
    /\ IF Answers = {} /\ ~IsGround(Asked) THEN Give("TypeError")
       ELSE /\ yielded' = IF Answers = {} THEN {} ELSE {<<>>}
            /\ waiting' = IF Answers = {} THEN <<>> ELSE Tail(waiting)
            /\ ended' = Finished(waiting')
            /\ UNCHANGED <<request, branches>>
    /\ Forget

-----------------------------------------------------------------------------
StoreStep == \/ Yield \/ SolveBase \/ SolveDerived \/ SolveNext \/ AdornStep \/ Refuse
             \/ BackwardStep \/ Resume \/ Take \/ TakeFirst

StoreNext == \/ \E req \in given.requests : Request(req)
             \/ \E f \in given.updates : Update(f)
             \/ StoreStep

storeAll == <<adornVars, bfpVars, storeVars>>
SystemInit == Init /\ BFPInit /\ StoreInit
StoreSpec == SystemInit /\ [][StoreNext]_storeAll

\* A request is answered by one thread, which does not stop.
FairStore == StoreSpec /\ WF_storeAll(StoreStep)
=============================================================================
