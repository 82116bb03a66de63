----------------------------- MODULE MCBackward -----------------------------
(***************************************************************************)
(* Rules, facts and requests for BackwardCorrectness.                      *)
(***************************************************************************)
EXTENDS BackwardCorrectness, TLC

CONSTANTS X, Y, Z, W, V, ann, bob, cal, dee,
          anc, par, sg, up, down, rel, rel_derived, kin, top, ok, edge, mark

F(op, s, o) == [op |-> op, args |-> <<s, o>>]
F1(op, s)   == [op |-> op, args |-> <<s>>]
Ancestry == <<Clause(Lit(anc, <<X, Y>>), <<Lit(par, <<X, Y>>)>>),
              Clause(Lit(anc, <<X, Y>>), <<Lit(par, <<X, Z>>), Lit(anc, <<Z, Y>>)>>)>>
Of(regime, requests, updates) ==
    regime @@ [requests |-> requests, updates |-> updates, goals |-> {}, modes |-> {TRUE},
               strict |-> "defaultDerived"]
Scenario(rules, declared, facts, requests, updates) ==
    Of(Regime(rules, <<>>, <<declared>>, {}, facts), requests, updates)
Group == "GroupGraphPatternSub"
Joins(parts) == [kind |-> "join", where |-> parts, vars |-> {}]
Req(kind, ps) == [kind |-> kind, where |-> <<Part(<<>>, ps)>>, vars |-> VarsOfAll(ps)]
Select(ps, vs) ==
    [kind |-> "select", where |-> <<Part(<<"SelectQuery", "Project">>, ps)>>, vars |-> vs]

\* A cycle; joins of derived and base patterns, ground goals, the graph grows.
Ancestors ==
    Scenario(Ancestry, {anc}, {F(par, ann, bob), F(par, bob, ann), F(down, bob, cal)},
        {Req("unify", <<Lit(anc, <<ann, W>>), Lit(down, <<W, V>>)>>),
         Req("unify", <<Lit(down, <<V, W>>), Lit(anc, <<V, ann>>)>>),
         Req("unify", <<Lit(par, <<ann, W>>), Lit(down, <<W, cal>>)>>),
         Joins(<<Part(<<Group, "ServiceGraphPattern", Group, "ServiceGraphPattern">>,
                      <<Lit(anc, <<V, W>>)>>)>>),
         Joins(<<Part(<<Group>>, <<Lit(anc, <<V, W>>)>>),
                 Part(<<Group, "OptionalGraphPattern">>, <<Lit(par, <<V, W>>)>>)>>),
         Req("ask", <<Lit(anc, <<bob, bob>>)>>)},
        {F(par, cal, dee)})
Requests ==
    Of(Regime(<<Ancestry[1]>>, <<Ancestry[2]>>, <<{}>>, {Lit(anc, <<ann, Y>>)},
              {F(par, ann, bob), F(par, bob, cal)}),
        {Select(<<Lit(par, <<X, cal>>), Lit(anc, <<ann, Y>>)>>, {Y}),
         Select(<<Lit(par, <<X, cal>>), Lit(anc, <<ann, Y>>)>>, {X, Y}),
         Req("ask", <<Lit(par, <<X, cal>>), Lit(anc, <<ann, cal>>), Lit(anc, <<cal, ann>>)>>),
         Req("ask", <<Lit(anc, <<cal, Y>>)>>),
         Joins(<<Part(<<Group>>, <<Lit(anc, <<ann, Y>>)>>),
                 Part(<<Group, "ServiceGraphPattern", Group>>, <<Lit(par, <<W, Y>>)>>)>>),
         Req("ask", <<Lit(par, <<cal, ann>>), Lit(anc, <<ann, Y>>)>>),
         Req("ask", <<Lit(par, <<ann, bob>>), Lit(anc, <<ann, Y>>)>>),
         Req("ask", <<Lit(par, <<X, ann>>), Lit(anc, <<ann, Y>>)>>),
         Req("ask", <<Lit(par, <<X, ann>>), Lit(anc, <<cal, ann>>)>>),
         Select(<<Lit(par, <<ann, bob>>), Lit(anc, <<ann, Y>>)>>, {Y}),
         Select(<<Lit(par, <<cal, ann>>), Lit(anc, <<ann, Y>>)>>, {Y}),
         Req("unify", <<Lit(anc, <<bob, Y>>), Lit(par, <<Y, cal>>)>>),
         Req("unify", <<Lit(par, <<ann, W>>), Lit(anc, <<W, Y>>)>>)}, {})
\* Nonlinear: a call between base literals.
Generations ==
    Of(Regime(<<>>, <<Clause(Lit(sg, <<X, Y>>), <<Lit(up, <<X, Z>>), Lit(sg, <<Z, W>>), Lit(down, <<W, Y>>)>>),
               Clause(Lit(sg, <<X, Y>>), <<Lit(par, <<X, Y>>)>>)>>, <<>>, {Lit(par, <<X, Y>>)},
        {F(up, ann, bob), F(up, bob, bob), F(par, bob, cal), F(down, cal, dee), F(down, dee, dee)}),
        {Req("unify", <<Lit(sg, <<ann, Y>>)>>), Req("select", <<Lit(sg, <<X, Y>>)>>)}, {})
\* A predicate with facts and rules.
Relatives ==
    Scenario(<<Clause(Lit(kin, <<X, Y>>), <<Lit(rel, <<X, Z>>), Lit(rel, <<Z, Y>>)>>),
               Clause(Lit(rel, <<X, Y>>), <<Lit(par, <<Y, X>>)>>)>>, {kin, rel},
        {F(rel, ann, bob), F(par, cal, bob), F(par, dee, ann)},
        {Req("unify", <<Lit(kin, <<ann, W>>)>>),
         Joins(<<Part(<<Group, "ServiceGraphPattern", Group>>, <<Lit(par, <<V, W>>)>>),
                 Part(<<Group>>, <<Lit(rel, <<W, V>>)>>)>>)}, {})
\* Nothing orders the body of the only rule.
Disconnected ==
    Scenario(<<Clause(Lit(kin, <<X, Y>>), <<Lit(ok, <<X>>), Lit(anc, <<Y, Y>>)>>)>>, {kin, anc},
        {F1(ok, ann)}, {Req("unify", <<Lit(kin, <<ann, Y>>)>>), Req("ask", <<Lit(anc, <<ann, ann>>)>>)},
        {})

MCScenarios == {Ancestors, Requests, Generations, Relatives, Disconnected}

\* Two rules query the same base conjunction, and the facts have a cycle.
Shared ==
    Scenario(<<Clause(Lit(top, <<X, Z>>), <<Lit(edge, <<X, Z>>), Lit(ok, <<Z>>)>>),
               Clause(Lit(ok, <<X>>), <<Lit(edge, <<X, Z>>), Lit(ok, <<Z>>)>>),
               Clause(Lit(ok, <<X>>), <<Lit(mark, <<X>>)>>)>>, {top, ok},
        {F(edge, ann, bob), F(edge, bob, ann), F(edge, ann, cal), F1(mark, cal)},
        {Req("unify", <<Lit(top, <<ann, Z>>)>>)}, {})
SharedScenarios == {Shared}

MCDerivedName == [p \in {rel} |-> rel_derived]
MCBridgeVars == <<X, Y>>
=============================================================================
