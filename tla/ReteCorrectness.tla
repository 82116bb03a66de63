--------------------------- MODULE ReteCorrectness ---------------------------
(***************************************************************************)
(* What a RETE network is for: the properties of ReteNetwork, against the  *)
(* rules it was compiled from.                                             *)
(***************************************************************************)
EXTENDS ReteNetwork, FiniteSetsExt

CONSTANT Rules  \* the rules, each [body, guards, head, exists] for one head triple

FC == INSTANCE ForwardChaining

Known == working_memory \cup inferred_facts

\* The values of the variables: triples, sets of partial instantiations, and
\* frames of the calls the code makes.
TypeOK ==
    /\ working_memory \subseteq Triple /\ inferred_facts \subseteq Triple
    /\ memories \in [Memories -> SUBSET Partial]
    /\ justifications \subseteq Triple \X BetaNodes
    /\ proof_tracers \subseteq Triple \X Substitution
    /\ filtered_facts \subseteq Triple
    /\ instantiations \in [BetaNodes -> Nat]
    /\ instanciating_tokens \in [BetaNodes -> SUBSET Partial]
    /\ blanks \subseteq Blank
    /\ stack \in Seq(Frame)
    /\ outcome \in {"running", "returned", "raised"}

(***************************************************************************)
(* Safety.                                                                 *)
(***************************************************************************)

\* The network implements forward chaining: a triple enters inferred_facts
\* only if a rule concludes it from facts known at that moment, however deep
\* in nested propagations fire_consequent is entered.
Sound == FC!FCSpec

\* When feed_facts_to_add has returned and no InferredGoal cut a propagation
\* short, nothing is left to conclude, whatever the order of the feeds and of
\* the set iterations inside them, and however often a fact is fed.
Complete ==
    Idle /\ Goal \notin inferred_facts =>
        \A r \in Rules : \A theta \in Solutions(r, Known) :
            \E nu \in [r.exists -> Blank] :
                Inst(Inst(r.head, nu), theta) \in Known

\* A binding kept in proof_tracers is a solution of the body of a rule whose
\* terminal node is among the justifications of the triple, over facts that
\* are still known: a proof can be built from what is recorded.
TracersAreSolutions ==
    \A t \in {pair[1] : pair \in proof_tracers} :
        \A theta \in {pair[2] : pair \in {p \in proof_tracers : p[1] = t}} :
            \E r \in Rules, pair \in justifications :
                /\ pair[1] = t /\ r.head \in Consequent[pair[2]]
                /\ theta \in Solutions(r, Known)
                /\ \E nu \in [r.exists -> Blank] :
                        t = Inst(Inst(r.head, nu), theta)

\* A triple is first inferred by one terminal node: the firing counts of the
\* conflict set add up to the inferred facts.
CountsAgree == MapThenSumSet(LAMBDA b : instantiations[b], BetaNodes)
                  = Cardinality(inferred_facts)

\* The beta nodes network.nodes holds together with every beta node above them:
\* the largest set of registered nodes that no node outside of it feeds.
FeedsInto(n, S) == \E i \in DOMAIN Descendents[n] : Descendents[n][i].node \in S
Sheltered == UNION {S \in SUBSET Registered :
                        \A n \in BetaNodes : FeedsInto(n, S) => n \in S}
Over(K, pi) == \A tok \in pi : tok.wme \in K

\* What reset leaves behind: its docstring has the memories of all beta nodes
\* emptied, yet it walks network.nodes, where the node of a later rule replaces
\* one with the same key.  Partial instantiations of facts the network no longer
\* knows are found in the memories of a replaced node and of nodes it goes on
\* feeding, and nowhere else: above and beside it, whatever reset emptied is
\* refilled from known facts only, by the longest of nested propagations too.
MemoriesKnown ==
    \A m \in Memories : m.node \in Sheltered =>
        \A pi \in memories[m] : Over(Known, pi)

\* Two firings never invent the same blank node, so a triple with a blank node
\* is concluded by a single rule from a single binding.
BlankNodesFresh ==
    \A p, q \in proof_tracers :
        p[1] = q[1] /\ (\E i \in Place : p[1][i] \in Blank) => p[2] = q[2]

\* While every triple of a terminal node's consequent is under an overriding
\* action, the node itself infers nothing.
OverrideBypassesInference ==
    [][\A b \in Terminals :
         (\A rhs \in Consequent[b] :
                \E action \in ActionsFor(b, rhs) : action.override)
            => instantiations'[b] <= instantiations[b]]_vars

\* The triple an action is handed has its place among the known facts before
\* the action runs, unless some variable of the head stayed unbound.
ActionsSeeTheirTriple ==
    [][\A call \in calls' \ calls :
         call.triple # NoTriple /\ Ground(call.triple) => call.triple \in Known]_vars

(***************************************************************************)
(* Liveness.                                                               *)
(***************************************************************************)

\* Every feed comes back: the recursion of add_wme through fire_consequent
\* ends, for rules that make no blank nodes.
FeedEnds == ~Idle ~> Idle

\* A feed that starts without the goal decides it: InferredGoal reaches the
\* caller if, and only if, the goal gets inferred.
GoalDecided == ~Idle /\ Goal \notin inferred_facts
                 ~> Idle /\ (outcome = "raised" <=> Goal \in inferred_facts)
=============================================================================
