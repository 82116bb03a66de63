--------------------------- MODULE MCNetworkBuild ---------------------------
EXTENDS NetworkBuild

CONSTANTS X, Y, Z, pa, pb, pc, pd, le, ge

pA == <<X, pa, Y>>
pB == <<Y, pb, Z>>
pC == <<Z, pc, X>>
pD == <<Y, pd, Z>>
pLe == <<Y, le, Z>>
pGe == <<Y, ge, Z>>

Rule(body, head) == [body |-> body, head |-> {head}, exists |-> {},
                     filter |-> FALSE]

\* Rules that share single patterns, prefixes and suffixes of their bodies, one
\* with a builtin that is not last in its text, one of them a filter; a rule with
\* two builtins, which is refused while only the first of them is known.
MCRuleBase ==
    {Rule(<<pA>>, <<X, pd, X>>),
     Rule(<<pA, pB>>, <<X, pd, Z>>),
     Rule(<<pB, pC>>, <<Y, pd, X>>),
     Rule(<<pA, pB, pC>>, <<X, pd, Y>>),
     Rule(<<pA>>, <<Y, pd, Y>>),
     [Rule(<<pLe, pB>>, <<Y, pd, Z>>) EXCEPT !.filter = TRUE],
     Rule(<<pD, pLe, pGe>>, <<Y, pd, Y>>)}

MCTerm == {pa, pb, pc, pd, le, ge}
MCVar == {X, Y, Z}
MCBlank == {}
MCBuiltinPreds == {le, ge}
=============================================================================
