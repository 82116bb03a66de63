------------------------- MODULE BackwardCorrectness -------------------------
(***************************************************************************)
(* What the backward fixpoint procedure and the store above it owe the     *)
(* rules and the facts.                                                    *)
(***************************************************************************)
EXTENDS EntailingStore, AdornCorrectness

Model(cs, K) == LeastModel(cs, K, Rounds)
Meaning == Model(ToSet(given.rules), edb)

\* The memories hold what their node can hold, and the stack is the nesting of
\* calls that are not through.
BindingFor(theta, vs) == DOMAIN theta \subseteq vs
TypeOK ==
    /\ outcome \in {"idle", "running", "returned", "raised"}
    /\ (outcome = "running") = (stack # <<>>)
    /\ \A i \in DOMAIN stack : stack[i].todo # {}
    /\ \A e \in evaluated : /\ e[1] \in program /\ e[2] \in 0 .. Len(e[1].body)
                            /\ BindingFor(e[3], VarsOf(e[1].head) \cup VarsOfAll(e[1].body))
    /\ \A m \in matched : m[1] \in program /\ HasC(m[1].body[m[2]])
    /\ \A f \in inferred_facts : ToSet(f.args) \cap Var = {}
    /\ ended \in {"open", "done", "TypeError", "no sip", "unsupported"}

\* "complete, sound, and safe memoization in the face of recursion": a procedure
\* infers what a query it issued asks for, and when it comes to rest it has
\* inferred all of that, wherever rules call each other in a circle.
Wanted ==
    {f \in Model(program, edb) :
        \E r \in {x \in program : Passes(x.head, f)} :
            Fact(Ground(QueryTerm(r.head), BoundBy(r.head, f))) \in queries}
Memoized ==
    goal # <<>> /\ Ended =>
        /\ inferred_facts \subseteq Wanted
        /\ outcome = "returned" => Wanted \subseteq inferred_facts

\* What that takes.  The goal and the rules are as the adornment wants them; no
\* literal is negated or has a variable twice; what a call declares bound is bound;
\* no fact has a derived predicate or that of a head; the model is reached.
SingleVars(l) == \A i, j \in DOMAIN l.args : l.args[i] = l.args[j] /\ l.args[i] \in Var => i = j
Posed ==
    /\ WellPosed
    /\ \A l \in BodyLiterals(given.rules) : ~l.naf /\ SingleVars(l)
    /\ \A i \in DOMAIN given.rules : SingleVars(given.rules[i].head)
    /\ \A r \in program : ArgumentsBound(r)
    /\ \A f \in edb : f.op \notin derived \cup {r.head.op : r \in program}
    /\ Immediate(program, Model(program, edb)) = Model(program, edb)

\* And the cache answers a base query about to be run as the fact graph would.
CacheHolds ==
    In("call") /\ IsBase(Top.rule.body[Top.at + 1]) =>
        \A theta \in Top.todo : \A q \in {ConjunctionAt(Top.rule, Top.at, theta)} :
            <<Top.rule, Top.at, theta>> \notin fired_edb_queries => Tabled(q) = Results(q, edb)

\* The procedure refines GoalAnswering: a goal is answered by its solutions under
\* the rules the caller wrote, whatever was asked before and is in the cache.
Procedure == INSTANCE GoalAnswering WITH
    clauses <- ToSet(given.rules), facts <- edb, asked <- goal,
    reply <- IF goal # <<>> /\ Ended THEN <<Answers>> ELSE <<>>
AnswersGoals == Procedure!Spec

\* What that takes.  GoalSolutionAction maps the variables of a head to others of the
\* goal, whatever the constants of the goal.  So the goal is ground; or it has no other
\* variable at the place of one of a head, and is answered from the facts; or it has its
\* variables once, each at the place of another one of every head, and each fact that
\* is inferred for its predicate is one of its answers.
SameNames ==
    \A r \in program : r.head.op = Asked.op => \A i \in DOMAIN r.head.args :
        r.head.args[i] \in Var =>
            i \in DOMAIN Asked.args /\ Asked.args[i] \notin Var \ {r.head.args[i]}
OtherNames ==
    /\ SingleVars(Asked)
    /\ \A r \in program : r.head.op = Asked.op =>
          /\ DOMAIN r.head.args = DOMAIN Asked.args
          /\ \A i \in DOMAIN Asked.args :
                Asked.args[i] \in Var => r.head.args[i] \in Var \ {Asked.args[i]}
    /\ \A f \in Wanted : f.op = Asked.op => Passes(Asked, f)
Told == IsGround(Asked) \/ SameNames \/ OtherNames
\* The rules are as for Memoized, no fact has a name made up for a hybrid predicate, and
\* the model of the caller's rules is reached.
AnswersPosed ==
    /\ Posed /\ Told
    /\ \A f \in edb : \A p \in Hybrid : f.op # DerivedName[p]
    /\ Immediate(ToSet(given.rules), Meaning) = Meaning

-----------------------------------------------------------------------------
\* A request that ends without an exception is answered rightly.  batch_unify
\* joins: it yields the solutions of all the patterns; where a derived pattern is
\* ground when its turn comes, at least a part of each, and nothing else.  The
\* interlocution keeps the solutions, all of them where nothing was forgotten.  A
\* SELECT accumulates, projected, the solutions of the base patterns together and of
\* each derived pattern.  An ASK is true if the base patterns together and each derived
\* pattern have a solution; where an open base group has none, it may be true
\* although the group fails, but never where a derived pattern does.
Joined(ps, K) ==
    {theta \in [VarsOfAll(ps) -> Terms(K)] :
        \A i \in DOMAIN ps : Fact(Ground(ps[i], theta)) \in K}
Extends(s, theta) == DOMAIN theta \subseteq DOMAIN s /\ Agrees(s, theta)
Forgets(ps) ==
    \E i \in DOMAIN ps : IsIDB(ps[i]) /\ VarsOf(ps[i]) \subseteq VarsOfAll(SubSeq(ps, 1, i - 1))
Unified(ps, got, K) ==
    \E wanted \in {Joined(ps, K)} :
        /\ \A theta \in got : \E s \in wanted : Extends(s, theta)
        /\ \A s \in wanted : \E theta \in got : Extends(s, theta)
        /\ Forgets(ps) \/ got = wanted
Collected(ps, K) ==
    {row \in Joined(Base(ps), edb) : DOMAIN row # {}}
        \cup UNION {Solutions(ps[i], K) : i \in {k \in DOMAIN ps : IsIDB(ps[k])}}
Derivable(ps, K) == \A i \in DOMAIN ps : IsIDB(ps[i]) => Solutions(ps[i], K) # {}
Overlooked(ps) == VarsOfAll(Base(ps)) # {} /\ Joined(Base(ps), edb) = {}
Asks(ps, yes, K) ==
    /\ yes => Derivable(ps, K)
    /\ Overlooked(ps) \/ yes = (Joined(Base(ps), edb) # {} /\ Derivable(ps, K))
Right(req, got) ==
    CASE req.kind = "unify" /\ DerivedOf(req.patterns) # <<>> -> Unified(req.patterns, got, Meaning)
      [] req.kind = "unify"  -> got = Results(req.patterns, edb)
      [] req.kind = "join"   -> \E wanted \in {Joined(req.patterns, Meaning)} :
                                    got \subseteq wanted /\ (Forgets(req.patterns) \/ got = wanted)
      [] req.kind = "select" -> got = Projected(Collected(req.patterns, Meaning), req.vars)
      [] req.kind = "ask"    -> Asks(req.patterns, got # {}, Meaning)
RequestAnswered ==
    [][ended' = "done" /\ (ended = "open" \/ request' # request)
          => Right(request', yielded')]_storeAll

\* Every request ends: the procedure comes to rest for recursive rules and cyclic
\* facts, because a query and a base query are issued once.
RequestEnds == Open ~> ~Open
=============================================================================
