------------------------------- MODULE MCAdorn -------------------------------
(***************************************************************************)
(* Rule sets for MagicCorrectness: linear recursion, a nonlinear rule over *)
(* two recursive predicates, a hybrid predicate, a negated literal.        *)
(***************************************************************************)
EXTENDS MagicCorrectness

CONSTANTS X, Y, Z, W, ann, bob, cal,
          anc, par, sg, up, down, old, not_old, rel, rel_derived, kin,
          anc_magic, sg_magic, old_magic, not_old_magic, kin_magic, rel_magic, rel_derived_magic

F(op, s, o) == [op |-> op, args |-> <<s, o>>]
Ancestors ==
    [rules |-> <<Clause(Lit(anc, <<X, Y>>), <<Lit(par, <<X, Y>>)>>),
                 Clause(Lit(anc, <<X, Y>>), <<Lit(par, <<X, Z>>), Lit(anc, <<Z, Y>>)>>)>>,
     goals |-> {Lit(anc, <<ann, Y>>), Lit(anc, <<X, bob>>), Lit(anc, <<X, Y>>),
                Lit(anc, <<ann, cal>>)},
     modes |-> BOOLEAN, preds |-> {}, strict |-> "defaultDerived",
     facts |-> {F(par, ann, bob), F(par, bob, cal), F(par, cal, cal)}]
Generations ==
    [rules |-> <<Clause(Lit(sg, <<X, Y>>), <<Lit(up, <<X, Y>>), Lit(old, <<Y>>)>>),
                 Clause(Lit(sg, <<X, Y>>), <<Lit(up, <<X, Z>>), Lit(sg, <<Z, W>>),
                                             Lit(down, <<W, Y>>)>>),
                 Clause(Lit(old, <<X>>), <<Lit(down, <<X, Y>>), Lit(sg, <<Y, Z>>)>>),
                 Clause(Lit(old, <<X>>), <<Lit(par, <<X, X>>)>>)>>,
     goals |-> {Lit(sg, <<ann, Y>>), Lit(old, <<X>>), Lit(sg, <<X, bob>>)},
     modes |-> BOOLEAN, preds |-> {}, strict |-> "defaultDerived",
     facts |-> {F(up, ann, bob), F(up, bob, bob), F(up, bob, cal), F(down, bob, cal),
                F(down, cal, ann), F(par, bob, bob), F(par, cal, cal)}]
Relatives ==
    [rules |-> <<Clause(Lit(kin, <<X, Y>>), <<Lit(rel, <<X, Z>>), Lit(rel, <<Z, Y>>)>>),
                 Clause(Lit(rel, <<X, Y>>), <<Lit(par, <<Y, X>>)>>),
                 Clause(Lit(kin, <<X, X>>), <<Lit(rel, <<X, ann>>)>>)>>,
     goals |-> {Lit(kin, <<ann, Y>>), Lit(kin, <<X, Y>>)},
     modes |-> BOOLEAN, preds |-> {kin, rel_derived}, strict |-> "defaultDerived",
     facts |-> {F(rel, ann, bob), F(rel, cal, ann), F(par, cal, bob), F(par, bob, bob)}]
Young ==
    [rules |-> <<Clause(Lit(not_old, <<X>>), <<NotLit(down, <<X, Y>>), Lit(anc, <<X, Y>>)>>),
                 Clause(Lit(anc, <<X, Y>>), <<Lit(par, <<X, Y>>)>>)>>,
     goals |-> {Lit(not_old, <<X>>), Lit(not_old, <<ann>>)},
     modes |-> {FALSE}, preds |-> {}, strict |-> "defaultDerived",
     facts |-> {F(par, ann, bob), F(down, ann, bob), F(par, bob, cal)}]
Disconnected ==
    [rules |-> <<Clause(Lit(kin, <<X, Y>>), <<Lit(old, <<X>>), Lit(anc, <<Y, Y>>)>>),
                 Clause(Lit(old, <<X>>), <<Lit(par, <<X, X>>)>>),
                 Clause(Lit(anc, <<X, Y>>), <<Lit(par, <<X, Y>>)>>)>>,
     goals |-> {Lit(kin, <<ann, Y>>), Lit(kin, <<ann, bob>>)},
     modes |-> BOOLEAN, preds |-> {}, strict |-> "defaultDerived",
     facts |-> {F(par, ann, ann), F(par, bob, bob)}]

\* The facts are about the heads too, and the strictness gives way to them: of one of
\* two, or of all.
Clashing(facts) ==
    [rules |-> <<Clause(Lit(anc, <<X, Y>>), <<Lit(par, <<X, Z>>), Lit(par, <<Z, Y>>)>>),
                 Clause(Lit(kin, <<X, Y>>), <<Lit(par, <<X, Y>>)>>)>>,
     goals |-> {Lit(anc, <<ann, Y>>)},
     modes |-> BOOLEAN, preds |-> {}, strict |-> "defaultBase",
     facts |-> facts \cup {F(par, ann, bob), F(par, bob, cal)}]

MCScenarios == {Ancestors, Generations, Relatives, Young, Disconnected,
                Clashing({F(kin, ann, cal)}), Clashing({F(anc, ann, ann), F(kin, bob, cal)})}
MCDerivedName == [p \in {rel} |-> rel_derived]
MCMagicName == (anc :> anc_magic) @@ (sg :> sg_magic) @@ (old :> old_magic)
               @@ (not_old :> not_old_magic) @@ (kin :> kin_magic)
               @@ (rel :> rel_magic) @@ (rel_derived :> rel_derived_magic)
MCBridgeVars == <<X, Y>>
=============================================================================
