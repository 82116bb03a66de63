---------------------------- MODULE NetworkBuild ----------------------------
(***************************************************************************)
(* A network that grows: callers hand rules to build_network_from_clause   *)
(* or build_filter_network_from_clause in any order, and may clear it.     *)
(***************************************************************************)
EXTENDS NetworkCompiler

CONSTANT RuleBase   \* the rules callers may add

\* A rule has a body and a head.
ASSUME RuleBaseAssumption ==
    \A r \in RuleBase :
        /\ r.body \in Seq(Pattern) /\ r.body # <<>>
        /\ r.head \subseteq Pattern /\ r.head # {} /\ r.exists \subseteq Var
        /\ r.filter \in BOOLEAN

VARIABLES
    net,        \* the network built so far
    rules       \* network.rules

vars == <<net, rules>>

Init == net = EmptyNet /\ rules = {}

\* If the compilation raises, what it has made so far stays; the rule may be
\* added again.
AddRule(r) ==
    LET built == BuildNetwork(net, r)
    IN  /\ net' = built.net
        /\ rules' = IF built.raised THEN rules ELSE rules \cup {r}

\* The dictionaries and the terminal nodes are dropped.
ClearAlphas ==                     \* a bug: nodes is not cleared
    net' = [EmptyNet EXCEPT !.nodes = net.nodes] /\ rules' = {}
Clear == net' = EmptyNet /\ rules' = {}

Next == \/ \E r \in RuleBase \ rules : AddRule(r)
        \/ Clear

Spec == Init /\ [][Next]_vars
-----------------------------------------------------------------------------
BetaIds  == DOMAIN net.parents
AlphaIds == DOMAIN net.patternOf
Ids      == 1 .. net.next - 1

\* The network is a graph over the nodes created so far and its dictionary
\* and indexes name only them.
TypeOK ==
    /\ AlphaIds \cup BetaIds = Ids /\ AlphaIds \cap BetaIds = {}
    /\ \A k \in DOMAIN net.nodes : net.nodes[k] \in Ids
    /\ \A b \in BetaIds : /\ net.parents[b] \in (0 .. b - 1) \X (1 .. b - 1)
                          /\ net.common[b] \subseteq Var
    /\ \A i \in Ids :
          net.feeds[i] \in Seq([node : BetaIds, side : {"left", "right"}])
    /\ rules \subseteq RuleBase

\* The terminal node a rule is given joins the patterns of the rule's own body
\* and no other patterns, whatever nodes earlier rules left to be reused.
TerminalJoinsBody ==
    \A r \in rules : \E b \in DOMAIN net.terminals :
        /\ r \in net.terminals[b] /\ r.head \subseteq net.consequent[b]
        /\ {net.patternOf[a] : a \in LeavesOf(net)[b]} = ToSet(r.body)

\* Nothing fires at a terminal node but what the rules with exactly its joined
\* patterns as their body conclude.
NoForeignConsequent ==
    \A b \in DOMAIN net.terminals : \A h \in net.consequent[b] :
        \E r \in net.terminals[b] :
            h \in r.head
            /\ ToSet(r.body) = {net.patternOf[a] : a \in LeavesOf(net)[b]}

\* Each memory of a beta node is fed by the parent on its side, once, and by
\* nothing else: the successor test of update_descendent_memory never leaves
\* an input of a join unconnected.
MemoriesFedByParents ==
    \A n \in Ids, b \in BetaIds :
        LET feeding(side) == {i \in DOMAIN net.feeds[n] :
                                net.feeds[n][i] = [node |-> b, side |-> side]}
        IN  /\ Cardinality(feeding("left")) =
                  IF net.parents[b][1] = n THEN 1 ELSE 0
            /\ Cardinality(feeding("right")) =
                  IF net.parents[b][2] = n THEN 1 ELSE 0

\* All the joins over a pattern are fed by the same alpha node, whichever rules
\* brought the pattern: a second one would split what matches it.  The nodes of a
\* rule that was refused half way feed nothing, or are found again.
OneAlphaPerPattern ==
    \A a1, a2 \in {a \in AlphaIds : net.feeds[a] # <<>>} :
        net.patternOf[a1] = net.patternOf[a2] => a1 = a2

\* Adding a rule disturbs no terminal node of an earlier rule.
TerminalsStable ==
    [][\A b \in DOMAIN net.terminals : rules \subseteq rules' =>
          /\ b \in DOMAIN net'.terminals
          /\ net'.parents[b] = net.parents[b]
          /\ net.consequent[b] \subseteq net'.consequent[b]]_vars
=============================================================================
