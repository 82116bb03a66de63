---------------------------- MODULE MCReteNetwork ----------------------------
(***************************************************************************)
(* ReteNetwork over the networks that NetworkCompiler makes of small       *)
(* programs.                                                               *)
(***************************************************************************)
EXTENDS ReteCorrectness

CONSTANTS Program, BuiltinPreds, BuiltinFunc

C == INSTANCE NetworkCompiler

\* The network of the program, its functions as tables TLC evaluates once.
Table(f) == f @@ <<>>
Net == [C!Build(Program) EXCEPT
            !.nodes = Table(@), !.patternOf = Table(@), !.parents = Table(@),
            !.common = Table(@), !.feeds = Table(@), !.consequent = Table(@),
            !.heads = Table(@), !.exists = Table(@)]
Guard(pat)      == [argument |-> pat[1], result |-> pat[3],
                    func |-> BuiltinFunc[pat[2]]]
RegisteredIn(n) == {n.nodes[k] : k \in DOMAIN n.nodes} \cap DOMAIN n.parents
FilterIn(n)     == [b \in {k \in DOMAIN n.parents : C!FedByBuiltin(n, k)} |->
                        Guard(n.patternOf[n.parents[b][2]])]

MCAlphaNodes  == DOMAIN Net.patternOf
MCBetaNodes   == DOMAIN Net.parents
MCRegistered  == RegisteredIn(Net)
MCPatternOf   == Net.patternOf
MCAlphaOrder  == C!AlphaOrderOf(Net)
MCDescendents == Net.feeds
MCPassThru    == Net.passThru
MCCommon      == Net.common
MCFilter      == FilterIn(Net)
MCConsequent  == Net.consequent
MCExistentials== Net.exists
MCFilterNodes == Net.filters
MCRuleHeads   == Net.heads
MCRules       ==
    LET tests(r)   == {i \in DOMAIN r.body : C!IsBuiltin(r.body[i])}
        triples(r) == DOMAIN r.body \ tests(r)
    IN  UNION {{[body |-> {r.body[i] : i \in triples(r)},
                 guards |-> {Guard(r.body[i]) : i \in tests(r)},
                 head |-> h, exists |-> r.exists \cap VarsOf(h)] : h \in r.head} :
                   r \in {Program[i] : i \in DOMAIN Program}}
-----------------------------------------------------------------------------
CONSTANTS X, Y, Z, E, p, q, r, lt, ann, bob, cal, n1, n2

Rule(body, head) == [body |-> body, head |-> head, exists |-> {},
                     filter |-> FALSE]

MCVar == {X, Y, Z}
MCTerm == {p, q, r, lt, ann, bob, cal}
MCEmpty == {}
MCTargets == {{}}

\* A transitive relation and its inverse: recursion through a self join, over
\* a cycle, with a fact that is concluded as well.
Recursive == << Rule(<< <<X, p, Y>>, <<Y, p, Z>> >>, {<<X, p, Z>>}),
                Rule(<< <<X, p, Y>> >>, {<<Y, q, X>>}) >>
RecursiveFacts == {<<ann, p, bob>>, <<bob, p, ann>>, <<bob, q, ann>>, <<ann, p, cal>>}

\* Three patterns and a shorter rule with their prefix, two head triples, a
\* builtin, a filter rule, and facts that are also concluded.
Shared == << Rule(<< <<X, p, Y>>, <<Y, q, Z>> >>, {<<X, p, Z>>, <<Z, r, X>>}),
             [Rule(<< <<X, p, Y>> >>, {<<Y, q, Y>>}) EXCEPT !.filter = TRUE],
             Rule(<< <<X, lt, Y>>, <<X, p, Y>> >>, {<<Y, p, X>>}),
             Rule(<< <<X, p, Y>>, <<Y, q, Z>>, <<Z, r, X>> >>, {<<X, r, Y>>}) >>
SharedFacts == {<<ann, p, bob>>, <<bob, q, cal>>}
LtOnly == {lt}
LtFunc == [l \in {lt} |-> {<<ann, bob>>, <<bob, cal>>, <<ann, cal>>}]

\* A rule over the join of a rule before it, so that a beta node feeds the right
\* memory of another, and a head that declares an existential in two triples.
Witness == << Rule(<< <<Y, q, Z>> >>, {<<Z, q, Y>>}),
              Rule(<< <<X, p, Y>>, <<Y, q, Z>>, <<Z, r, X>> >>, {<<X, r, Y>>}),
              [Rule(<< <<X, r, Y>> >>, {<<X, lt, E>>, <<E, lt, q>>})
                  EXCEPT !.exists = {E}] >>
WitnessFacts == {<<ann, p, bob>>, <<bob, q, cal>>, <<cal, r, ann>>}
WitnessTerm == {p, q, r, lt, ann, bob, cal, n1, n2}
WitnessVar == {X, Y, Z, E}
WitnessBlank == {n1, n2}

\* A rule over the join of a rule before it, and facts the rule does not match.
Suffix == << Rule(<< <<Y, q, Z>> >>, {<<Z, q, Y>>}),
             Rule(<< <<X, p, Y>>, <<Y, q, Z>>, <<Z, r, X>> >>, {<<X, r, Y>>}) >>
SuffixFacts == {<<cal, p, cal>>, <<bob, q, cal>>, <<cal, r, ann>>}

\* A goal of the recursive program that takes two of its facts and both rules.
Entailed == <<cal, q, bob>>

\* Callers that register an overriding and an ordinary action; a head with a
\* variable its body does not bind; and a rule whose body begins a longer one
\* before it: its join takes the place of the join the longer one rests on in
\* network.nodes, but not in the network.
Acted == << Rule(<< <<X, p, Y>> >>, {<<Y, q, X>>, <<X, r, Z>>}),
            Rule(<< <<X, q, Y>> >>, {<<X, p, X>>}),
            Rule(<< <<X, p, Y>>, <<Y, q, Z>>, <<Z, r, X>> >>, {<<X, r, Y>>}),
            Rule(<< <<X, p, Y>>, <<Y, q, Z>> >>, {<<Z, q, Z>>}) >>
ActedFacts == {<<ann, p, bob>>, <<ann, q, bob>>}
MCRegistrations == {[head |-> <<X, p, X>>, override |-> TRUE],
                    [head |-> <<X, p, X>>, override |-> FALSE]}
=============================================================================
