# A TLA+ verification project for FuXi

FuXi is a rule engine for RDF: Horn rules are compiled into a RETE-UL network that
forward-chains over triples, and the same network is used as a production system that
interprets a backward fixpoint procedure for SPARQL query answering. This directory holds
TLA+ modules translated from `src/lib/fuxi`, the TLC runs that check them and TLAPS proofs
about them. Paths below are relative to `src/lib/fuxi`.

## 1. Inventory

| Component | State it keeps | Operations | What is hard | What makes it correct |
|---|---|---|---|---|
| Rule and triple semantics (`Rete/AlphaNode.py`, helpers of `Rete/Network.py`) | none | alpha test, `bind_variables`, `_mul_pattern_with_substitutions` | a variable that occurs twice in a pattern; a variable left unbound | the substitution a node works with puts its pattern on the wme |
| RETE compiler (`Rete/Network.py` `build_network*`, `attach_beta_nodes`, `_find_patterns`, `Rete/Node.py`) | `nodes` (pattern list -> node), `alpha_pattern_hash`, `terminal_nodes`, per node `consequent`, `rules`, `descendent_memory` | add a rule, add a filter rule, clear | nodes are reused through a dictionary keyed by a hash: the result depends on all rules before; builtins are moved to the end | a rule's terminal node joins its own body; earlier rules keep theirs |
| RETE run time (`Rete/Network.py` `feed_facts_to_add`, `add_wme`, `fire_consequent`, `reset`, `register_rete_action`; `Rete/BetaNode.py`) | `working_memory`, `inferred_facts`, the memories, `justifications`, `proof_tracers`, `instantiations`, `execute_actions` | feed, reset, register an action; activation, propagation, firing | `add_wme` is re-entered in the middle of propagation; iteration over sets; an exception cuts everything short; memories outlive a reset | sound and complete forward chaining, recorded proofs that are proofs, termination |
| `calculate_stratified_model` (`Rete/Network.py`) | `neg_rules`, `inferred_facts` | one call | no strata are computed, the queried graph grows during the iteration | negated predicates are complete before they are negated |
| Rule store (`Rete/RuleStore.py`, `Rete/BuiltinPredicates.py`) | `formulae`, `facts`, `rules`, `_lists`, `_list_buffer`, `current_list` | `add` per parsed triple, `_finalize` | triples arrive in parser order; one list is buffered at a time; `_finalize` replaces `rules` by formulas | every list and formula of the document is there after `_finalize` |
| Adornment and magic sets (`Rete/Magic.py`) | `adorned_predicate_collection`, `goal_dict`, `adorned_program` | `adorn_program`, `adorn_rule`, `magic_set_transformation` | a worklist refilled from a set that includes entries still queued; hybrid predicates | each reachable adorned predicate is processed, the loop ends |
| Sideways information passing (`Rete/SidewaysInformationPassing.py`) | the SIP graph | `build_natural_sip`, `find_full_sip` | removal of arcs, negated literals last | a value is passed only from what is evaluated before |
| Backward fixpoint procedure (`LP/BackwardFixpointProcedure.py`) | `fired_edb_queries`, `edb_queries`, `goal_solutions`, `eval_hash`, the meta-interpreter network | `answers`, `create_top_down_rete_network`, the actions `EvaluateExecution`, `QueryExecution`, `GoalSolutionAction` | actions that feed the network they are called from; tabling | sound and complete answers |
| SPARQL layer (`SPARQL/__init__.py`) | the memo table of `ConjunctiveQueryMemoize` | `EDBQuery`, `run_query` | a generator that is abandoned leaves a partial cache entry | a cached answer is the answer |
| Entailing store (`SPARQL/BackwardChainingStore.py`) | `goal_rule_sip_info`, `query_networks`, `edb_queries` | `query`, `conjunctive_sip_strategy`, `solve_triple_pattern` | nested generators that thread bindings through base and derived patterns | the join is the conjunction's answer |
| Proofs (`Rete/Proof.py`) | the proof graph | `generate_proof` | relies on `justifications` and `proof_tracers` of the network | every step has its premises |
| DLP (`DLP/`) | an OWL graph rewritten in place | mapping to rules, Lloyd-Topor, normalisation, negation, completion | rewriting a graph that is iterated over | the rules mean what the axioms mean |
| Horn rules (`Horn/`) | rule objects | construction, safety, RIF import | | safe rules terminate |
| InfixOWL, command line, rendering, vocabulary | syntax over a graph, I/O | | | |

How they interact. Rules come from the rule store, from RIF or from DLP as objects of
`Horn/`; `build_network_from_clause` compiles each into the network; callers feed triples;
the network calls registered actions back. The backward fixpoint procedure compiles a
program that interprets the adorned rules into a second network, and its actions query the
RDF graph and feed the answers back into that network. The store runs that per triple
pattern of a query and joins the answers. Everything is one thread of nested calls and
generators: there are no locks and no messages, and the hard part is re-entrancy, iteration
order, sharing and what survives from one call to the next.

## 2. The modules

| Module | Role |
|---|---|
| **Forward chaining** | |
| `RuleSemantics` | triples, patterns, substitutions, the alpha test, builtins, solutions of a body, conclusions of a rule |
| `ForwardChaining` | the abstract specification: assert a fact, infer a conclusion of a rule, forget |
| `ReteNetwork` | the run time, as a machine with an explicit call stack |
| `ReteCorrectness` | the properties of `ReteNetwork`, against the rules |
| `LinearNetwork` | the networks the code takes for granted, and the inductive invariant of soundness |
| `LinearCompleteness` | what such a network still owes its facts: the inductive invariant of completeness |
| `NetworkCompiler` | the compiler, as pure operators on a record `net` |
| `NetworkBuild` | a network that grows and is cleared, with its properties |
| `ReteNetwork_proofs` | theorems about every network: typing, firing counts, actions |
| `LinearNetwork_proofs`, `LinearCompleteness_proofs` | theorems about linear networks: soundness, proof records, completeness |
| `FoldLemmas` | what a fold over a sequence computes, for any operation; the compiler's proofs instantiate it |
| `NetworkBuild_proofs` | the theorems about the compiler |
| **Backward chaining** | |
| `HornPrograms` | literals, clauses, substitution, mapping of variables, safety, and what a program means (`LeastModel`, `Solutions`) |
| `SidewaysPassing` | the order of a body and the bindings that are passed (`build_natural_sip`) |
| `AdornProgram` | the worklist that makes the adorned program of a goal |
| `MagicSets` | `magic_set_transformation` over the adorned program |
| `AdornCorrectness` | what the adorned program owes the rules |
| `MagicCorrectness` | what the magic program owes the goal |
| `AdornProgram_proofs` | the theorems about the worklist and about the answers of the adorned program |
| `MagicSets_proofs` | the theorem about the answers of the magic program |
| `BackwardFixpoint` | the meta-interpreter, its actions, the tabling of base queries |
| `EntailingStore` | the SPARQL store: requests, joins, one procedure after another |
| `GoalAnswering` | the abstract specification of the procedure: a goal is answered by its solutions |
| `BackwardCorrectness` | the properties of the store and the procedure, and the refinement |
| `Backward_proofs` | the theorems about the procedure under the store: typing, memoization, answers, the refinement |
| **Rules and ontologies** | |
| `RuleStore` | `N3RuleStore` and `Ruleset`, one statement after another |
| `Descriptions` | OWL descriptions, axioms and their interpretations |
| `Conditions` | the conditions of `Horn/PositiveConditions.py` and their reductions: Lloyd-Topor, disjunctions, safety |
| `DescriptionPrograms` | `T`, `Tb`, `Th`, `Tc` and `map_dlp_to_network` |
| `DescriptionCorrectness` | the rules of an ontology against its interpretations |
| `OwlGraph` | the edits of an OWL graph: delete, replace, rename |
| `NormalForms` | the seven passes of `normal_form_reduction`, with their properties |
| **Instances** | |
| `MCNetworkBuild`, `MCReteNetwork`, `MCLinear`, `MCAdorn`, `MCBackward`, `MCRuleStore`, `MCDescriptions`, `MCNormalForms` | programs, facts, requests, documents and ontologies for TLC; `MCReteNetwork` takes its network from `NetworkCompiler`, so the run time is checked on the graphs the compiler makes |

`EntailingStore` extends `BackwardFixpoint`, which extends `AdornProgram` and, through it,
`SidewaysPassing`: the store, the procedure and the adornment run as one system in
`MCBackward`, on rule objects, a cache and a fact graph that survive from one goal and one
request to the next.

### The run time (`ReteNetwork`)

A call of `feed_facts_to_add` is a tree of nested calls. The variable `stack` holds the
frames of that tree; each frame has the set `todo` of the items its loop has not reached.

| Frame | Code |
|---|---|
| `add_wme` | `ReteNetwork.add_wme`: the alpha nodes the wme passes, in the order of the eight hash combinations (`AlphaOrderOf`) |
| `activate` | `AlphaNode.activate`, `BetaNode._activate`: the descendent memories, in order; then `fire_consequent` in a terminal node |
| `join` | the loop over `matches` at the end of `propagate` |
| `unify` | the branch of `propagate` for a beta node activated from the right by a beta node: it activates inside the loop over bindings |
| `fire` | the loop of `fire_consequent` over the consequent, existentials replaced by the blank nodes of this firing |
| `substitute` | its inner loop over `_mul_pattern_with_substitutions` |
| `conclude` | what remains of an iteration after `add_wme` returns: the action, the test of the goal |

Lists are walked in order (`IsNext`), sets in any order (`\E x \in Top.todo`), so a run
covers every iteration order Python could choose. `Propagate` contains the whole decision
of `propagate` and `check_null_activation`, and the memories are read when the code reads
them: at the call for the joins, which build `matches` first and activate afterwards; per
binding for `unify`. A partial instantiation is its set of tokens, which is what its hash
and equality are made of; its bindings are the product of the values its tokens give each
variable, as in `_iter_bindings`, so an inconsistent one has several.
`joined_bindings` only steers bookkeeping that the bindings do not depend on and is left
out. A token is the pair of a triple and the alpha node that bound it. The hash of a token
(concatenated strings) is taken as the identity of its triple; see the hazards.

`InferredGoal` drops all frames. `Reset` empties what the code empties and no more:
`instanciating_tokens`, `filtered_facts` and the memories of nodes the dictionary no longer
names stay. `RegisterAction` files the action under the head of every rule of every
terminal node, as the code does. An action's own effects are left to callers; what is
recorded (`calls`) is that it was called, at which node and with which triple.

### The compiler (`NetworkCompiler`, `NetworkBuild`)

`net` is a record of the dictionaries and of the attributes of the nodes, numbered in the
order they are created. `BuildNetwork` is one call of `build_network`: builtins to the end
(`Ordered`), the first pass over the patterns, `FindPatterns` for what is left, anchoring,
`AttachBetaNodes`, `Terminate`. `Key` is the hash of `HashablePatternList`, modelled as what
that hash identifies: the multiset of all terms of all patterns. A builtin is a pattern like any
other here, its predicate included: `build_network_from_clause` hands `build_network` the triple of
`to_rdf_tuple()`, and only `parse_n3_logic`, which is not modelled, hands over `N3Builtin` objects,
of which the hash takes the argument and the result alone. Where the assertion of
`BetaNode.__init__` stops a build half way, `BuildNetwork` says so in `raised` and the network
keeps what was made until then: `AddRule` goes on from there, as a caller that catches the error
would. `Put` is the assignment to an entry of a dictionary; `LateLast`
is the loop that fills two lists of which the one follows the other, used for the builtins of a
body and for the lists that a builtin sits in. Rules are what `RuleBaseAssumption` says: a body
and a head of triple patterns, neither empty, which is what `build_network_from_clause` asserts
and what the parsers produce.

### Adornment (`SidewaysPassing`, `AdornProgram`, `MagicSets`)

`Ask` is `setup_ddl_and_adorn_program` up to the loop of `adorn_program`, `Process` one turn
of that loop (`Made`: what each rule gives, `Turn`: what it does to the sets), `NoOrder` the exception that a body without an order raises, `Finish` the
bridges for hybrid predicates and the handing over to the fact graph. `to_do` is the deque,
`collection` the set it is refilled from, in any order (`Refill`). `rs` are the caller's rule
objects: `adorn_rule` renames hybrid predicates in literals it does not copy, so what is left
of a rule (`left`) is what the next goal finds. `SipOrders` is the depth-first search for an
order, stated as the first (`FirstOf`) of the full orders that the mode accepts. Adornments
are sequences of `"b"` and `"f"`; a magic predicate is named after the predicate alone, as in
the code.

### The procedure (`BackwardFixpoint`)

The meta-rules *a* to *d* are listed at the head of the module. A token of the meta-network is
its binding; `evaluated` stands for the memories of `evaluate(k, j)`, `matched` for the right
memories of rules *c*. `stack` is again the nesting of calls and suspended loops:

| Frame | Code |
|---|---|
| `query`, `fact` | `add_wme` for a query or another fact of the meta-network |
| `evaluate` | a binding entering `evaluate(k, j)` (`EvaluateExecution.__call__`) |
| `call` | rule *d*: `QueryExecution.__call__` for base literals, a subquery for derived ones |
| `edb` | the loop over the answers of a base query, suspended while each is propagated |
| `facts` | `handle_query_answer` activating the alpha nodes with the base facts |
| `conclude` | what `fire_consequent` does once `add_wme` has returned: `GoalSolutionAction`, the test for `InferredGoal` |

`tabled` is the cache of `ConjunctiveQueryMemoize`, one for all procedures, under `Key`, which
counts terms; an entry grows answer by answer while its query runs (`fresh`).

### The store (`EntailingStore`)

A `Request` is `batch_unify` ("unify"), a query answered by `solve_triple_pattern` ("ask",
"select": `SolveAsk`, `SolveSelect`) or by the interlocution ("join"). `branches` are the nested generators of
`conjunctive_sip_strategy`; each goal on the way is adorned and solved by steps of the modules
below, then `Resume`, `Take` or `TakeFirst` takes its answers and `Forget` drops the procedure
but not the cache. `Update` is the owner of the fact graph adding to it between requests.
Exceptions that the code can raise on the way are the other values of `ended`.

### Rules and ontologies

`RuleStore` has an action per branch of `N3RuleStore.add`, `Finalize` and, per rule,
`Translate`. `DescriptionPrograms` has an action for the next axiom of the loops of `T`, for
the exceptions that are caught or not, and for the reduction of a clause, which also makes the
converse of a definition from the body the first clause left behind. `NormalForms` has an
action per transformer; what a transformer found is in `due`, and a match that a rewriting has
destroyed meanwhile is passed over. A match of the general universals is the triple the loop has in
hand, so that one whose filler was redirected is not met again under its new filler. The pure parts (`Tb`, `Th`, Lloyd-Topor, the rewritings) are operators.

## 3. The runs

| Run | Instance | What it shows |
|---|---|---|
| `MCNetworkBuild` | seven rules over four patterns and two builtins, one refused while only the first of its builtins is known, added in every order, any number of clears | every rule gets a terminal node over its own body; memories are fed by the parents they were built for; earlier terminal nodes survive, refused rules too |
| `MCRecursive` | transitivity and inverse over a cycle, four facts, a goal that needs three derivation steps | completeness, soundness (refinement of `ForwardChaining`), firing counts, termination of every feed, the goal raised iff inferred |
| `MCLinear` | four rules: shared prefixes, three-pattern body, two head triples, builtin, filter | completeness, proof records against known facts, reset, and the two inductive invariants: of soundness (`PartialSolutions`) and of completeness (`NothingLost`) |
| `MCWitness` | a rule over the join of an earlier rule (a beta node on the right), an existential in two head triples | completeness through the unify branch, freshness of blank nodes |
| `MCActions` | an overriding and an ordinary action registered and replaced at any time; a join replaced in `nodes` by that of a later rule | typing with every frame kind, override bypasses inference, actions see their triple, which memories a reset leaves tokens in |
| `MCAdorn` | five rule sets, goals asked one after another in both modes, every order of the worklist | the worklist forgets nothing and ends; the adorned program is closed, keeps the answers of the goal and binds nothing from nowhere; the magic program agrees with it |
| `MCBackward` | five rule sets (cycle, hybrid predicate, nonlinear recursion, a body without order), two to thirteen requests each, a fact added in between | the procedure infers exactly what its queries ask for and refines `GoalAnswering`; requests are answered and end |
| `MCDescriptions` | thirteen ontologies, compared with their rules on all interpretations over two individuals | the rules hold wherever the ontology does, and say all of its Horn fragment |
| `MCNormalForms` | nine ontologies, compared with what they become on all interpretations over two individuals | every rewriting, in every order, keeps the meaning; the passes end without double negations, and without universals but those over a universal that was rewritten first |
| `MCRuleStore` | six documents, parsed or read from a dataset in any order | collections are spelled out where they are used; implications become the clauses that were written |
| `MCSuffix` | a beta node on the right, a left memory without tokens under the key of the right ones | finding: a triple is inferred from half a body |
| `MCMemoization` | two rules with one base query over a cycle | finding: a query served from a half filled entry loses inferences |

Bounds. The only bounds are the sets of constants.

* RETE: facts (two to four), terms (two or three individuals and the predicates), rules, two
  blank nodes in `MCWitness`. Nothing in the actions counts; facts can be fed again and
  networks reset any number of times. Two to four facts suffice for what can go wrong in a
  join: a fact can arrive on either side first, be concluded before or after it is fed, close a
  cycle and start a nested propagation of the node that is propagating. `Targets` is `{{}}`:
  inference starts from an empty graph (a graph handed over with triples in it is never
  propagated, which is a hazard of its own). The pool of blank nodes is finite, so a firing can
  find none: `MCWitness` therefore does not check deadlock.
* Adornment and backward chaining: one to four rules, one to seven facts, two or three
  individuals. `Rounds` is a bound on the rounds of `LeastModel`, the reference, and larger than
  the number of facts each model can have of one predicate chain; the procedure itself is not
  bounded, and goals and requests may follow each other for ever.
* Ontologies: two individuals in the domain. A description of the fragment that differs from
  another does so on two elements (one in the class and one outside it, or one role edge).
* Rule store: two to four formulae, lists of up to three members. The documents have neither
  nested collections nor a second occurrence of a list's first member; see section 5.

`MCRuleStore`, `MCDescriptions` and `MCNormalForms` do not check deadlock: reading a document and
translating or reducing an ontology end. `Complete` is stated for idle states without the goal among the
inferred facts, because `InferredGoal` abandons work on purpose. `FeedEnds` is checked for
programs without existentials only: a recursive existential rule does run for ever, in the code
too. `MagicAgrees` asks for equality where every call has all its arguments bound; for a call
with a free argument the magic predicate keeps it and answers are lost (section 5).
`RequestAnswered` asks of a join that has a derived pattern ground in its turn (`Forgets`) only
that it yields parts of solutions, one for each. Of an ASK whose base patterns are open and have no
row (`Overlooked`) it asks that a yes has its derived patterns behind it (section 5).

Fairness is weak fairness of the step of the one thread there is: `WF_vars(Step)` for a feed,
`WF_vars(Process \/ NoOrder \/ Finish)` for the loop of `adorn_program`,
`WF_storeAll(StoreStep)` for a request, `WF_vars(Next)` for the reduction of an ontology. Once a
call is under way it goes on, and nothing else runs in between. No fairness is assumed of
callers: no request, goal, feed or update has to come.

Refinements. `Sound` is the refinement of `ForwardChaining` by the network (same variable
names). `AnswersGoals` is the refinement of `GoalAnswering` by store, adornment and procedure:
the rules the caller wrote for `clauses`, the fact graph for `facts`, the goal in hand for
`asked`, and its answers, once the call has ended, for `reply`.

## 4. The proofs

All proofs are about every value of the constants that satisfies the named assumptions; TLC
evaluates those on the instances of the runs. What an invariant needs to be inductive was an
invariant of a run before it was proved.

**Every network** (`TermAssumption`, `NetworkAssumption`: any graph of nodes, any wiring)

* `ReteNetwork_proofs!TypeCorrect`: `Spec => []TypeOK`. One step per action; the lemmas say what
  `Bind`, `Bindings`, `Inst`, `Take` and `Propagate` return.
* `ReteNetwork_proofs!FiringsCounted`: `Spec => []CountsAgree` for finitely many beta nodes and
  empty `Targets` (a triple of a graph handed over counts as known without having been fired).
  The sum is a fold over a set: `SumStep` says what it does when one term grows by one. Of the steps of a
  feed only `InferStep` changes either side, and it changes both: it counts where the triple is new.
* `ReteNetwork_proofs!ActionsSeeKnownTriples`, `OverrideBypasses`: what registered actions are
  promised. Both are about one step, but the triple was inferred at the other end of a nested
  feed and the overriding action looked up when the loop began. `CallsSettled` is what holds in
  between: a frame that still has an action to call has its triple among the known facts or
  unbound, and nothing takes facts away while the stack is not empty.

* `ReteNetwork_proofs!NothingForgotten`: `Spec => []MemoriesKnown`. `reset` empties the nodes it finds in
  `nodes`; `Sheltered` are the beta nodes there that have only such beta nodes above them, and their
  memories never hold a token of a forgotten fact. The invariant `Remembered` says the same of what
  the calls in progress are about to put there (`Carried`): a join or an activation of a sheltered node
  carries known facts, because whatever feeds a sheltered node is sheltered or an alpha node. Where no
  node is replaced this is every memory (`AllSheltered`). In `MCActions` a node is replaced, the
  memory below it does get tokens of forgotten facts, and the property without `Sheltered` fails.

**Linear networks** (`LinearNetwork`, `LinearCompleteness`)

* `LinearNetwork_proofs!OnlyPartialSolutions`, `Soundness`. `Sound` is
  not inductive: whether a triple about to be inferred is a conclusion depends on the
  partial instantiation that fired, which depends on every memory and every frame it came
  through. The strengthening is `PartialSolutions`: every partial instantiation in a memory
  or in a frame holds one or more tokens for each pattern above its node, all over known
  facts, agreeing on all shared variables and passing the builtins above (`Good`), and every
  binding still to be substituted solves the body (`Solves`). `Inv == TypeOK /\
  PartialSolutions` is shown inductive action by action: facts only grow during a feed, so
  goodness is monotone in the known facts; a join of two good instantiations that agree on
  the common variables is good; a reset empties all memories because every node is in the
  dictionary. From `Inv`, each step is a step of `ForwardChaining` or a stutter, which is
  `Soundness`.
* `LinearNetwork_proofs!TracersSolve`: a recorded binding solves the body of a rule of a
  justifying terminal node, over facts still known. `TracersHold` says this of what is recorded
  and, of a frame about to record, that its binding solves the body; a reset forgets records and
  facts together.
* `LinearCompleteness_proofs!NothingIsLost`, `Completeness`. `Complete` speaks of idle states
  only. `NothingLost` is what holds on the way: each known fact has been offered to each alpha
  node it passes or an `add_wme` frame still will (`EveryFact`), each match of two memories has
  been activated or a `join` frame still will (`EveryMatch`), each activation has reached every
  descendent memory and every conclusion or some frame still owes it (`Reached`). A step moves
  a debt from one frame to another, pays it into a memory or into the known facts, and a new
  token creates the matches that `propagate` reads in the same step. When the stack is empty
  nothing is owed, and by induction on `Level` each solution of a body over the known facts is in
  the memories above the rule's terminal node.
* Assumptions. `LeavesAssumption` names the patterns and
  builtins above each node and memory; `JoinsAssumption` says that no beta node feeds the
  right memory of a join, that the dictionary holds all beta nodes, that the common variables
  are the shared ones and that builtins see their variables; `RulesAssumption` says that no
  pattern has a variable twice and that a consequent comes from a rule over the patterns
  above its node. Completeness adds the converses: `FedAssumption` (each memory of a join has a
  node that feeds it, from above), `TerminalsAssumption` (each rule has its terminal node, and no
  variable of a head is left open) and `CallersAssumption` (empty graphs are handed over and no
  action overrides). They are what the comments of the code take for granted, and they are needed:
  `MCSuffix` drops the first and has a counterexample, and section 5 says what goes wrong
  without the others. `MCLinear` has TLC evaluate them on a compiled network; the theorems about
  the compiler below are where `FedAssumption` and `TerminalsAssumption` come from.

**The compiler** (`RuleBaseAssumption`)

* `NetworkBuild_proofs!GraphOfNodes`, `PatternsSingle`, `EarlierRulesStay`: for every rule base, any
  order of additions and any number of clears, whatever the dictionary confuses and however many
  rules the assertion refused half way: what they leave behind is nodes nobody feeds from and an
  alpha node the dictionary does not lead to (`Abandoned`).
* `BodyIsJoined`, `OwnConclusions`: under `NoCollision`, that pattern lists which
  `HashablePatternList` takes for equal have the same patterns in them. Without it the properties
  fail (section 5). `OwnTerms` shows that a rule base each of whose patterns has a term of its
  own, such as a predicate, as in `MCNetworkBuild`, has no collisions.
* `InputsConnected`: under `NoCollision` and `NoRepeats` (no body has a pattern twice). A body `p, p`
  makes a join of a node with itself, and `update_descendent_memory` then feeds the left memory only.
* The invariant `Network` has a part for every rule base: `WellFormed` (numbering, types, the
  dictionary), `Wired` (a node feeds exactly the beta nodes it is a parent of, the left memory if
  it is the left parent), `Heads`, `Placed`, `Owned` (consequents, terminal nodes and rules belong
  together); a part under `NoCollision`: `Meaningful` (the node under a key joins exactly the
  patterns of a list with that key) and `Bodies`; and a part under both: `Apart` (no join of a
  node with itself). `BuildNetwork` is made of three folds: the first pass over the body
  (`FirstPassKeeps`: the patterns seen so far are the matched ones and those of the lists to be
  attached), the sorting of late items (`LateLastIs`) and the attachment (`AttachKeeps`: the node
  built so far joins the patterns of the lists attached so far). `Apart` follows because lists
  without common patterns have different nodes, which is where `Meaningful` comes in again.
* `FoldLemmas`: `FoldLeft` over a sequence of n items is the last of a series of n+1 values, each
  made by the operation of the one before and the next item (`LeftFold`). It is
  instantiated once per operation and never takes an operator as a parameter; its proof, and
  the inductions over a series, are about sets of numbers (`UpTo`, from the well-foundedness of the
  naturals). The recursive function `LeavesOf` is unfolded the same way (`LeavesExist`).

**Adornment** (`HybridAssumption`, `BridgeAssumption`, `ScenariosAssumption`, `NegationAssumption`,
`RoundsAssumption`)

* `AdornProgram_proofs!AdornTypeCorrect`, `EveryPredicateQueued`, `ProgramClosed`: the worklist
  of `adorn_program`, for every rule set, goal, mode and order in which sets are iterated.
  `Closed` speaks of the end of the loop only, so it is not inductive. `IInv` adds what holds
  until then: the calls of every adorned rule are in the collection (`CallsQueued`), what is not
  marked is queued (`NoneForgotten`), and a marked predicate has its version of every rule it
  heads (`MarkedDone`); when the deque is empty everything is marked, which is `Closed`. Two
  things make the step of `Process` long. The set keeps the first of equal adorned rules, and
  equality ignores negation: that the one kept is a version of the other rule too takes
  `Versions`, the least index of the equal ones (`FirstKept`) and `NegationAssumption`
  (`SameVersion`). And the rules a goal finds are what the goals before left, with literals
  renamed in place: `RulesKept` says that is all that happened to them (`AdornRuleType`,
  `LeftAgain`, `LeftVersion`).
* `VariablesAreBound`: `BoundIsBound` holds for rules that pass their bindings
  (`PassesBindings(r)`: the head binds a variable; a head bound at constants alone passes all its
  arguments, `SidewaysInformationPassing.py:261`, so that a variable may be declared bound that
  nothing binds). Its invariant is part of `IInv`'s account of the adorned rules.
* `AdornProgram_proofs!GoalKeepsAnswers`: `Spec => [](WellPosed /\ RoundsSuffice => AnswersKept)`. Two
  inductions over the rounds of a least model (`ModelInduction`, by the well-foundedness of the
  naturals like the folds above). `NoMore`: what the adorned program knows is a fact of the rules'
  model or has the other name of a hybrid one; a version concludes only what its rule does, a bridge
  only renames. `NoFewer`: what the rules know is known under its new name if the goal or some body of
  the adorned program asks for it. That is where `Closed` comes in (a rule that concludes what
  is asked for has a version), and, for hybrid facts, that their literals are adorned and
  have their bridges (`Handed`, from the invariant `AnswersInv` of the loop). Negated literals are
  right because negation is on base predicates, of which both models have the given facts only.
  All of this is proved of the models over any set of facts without made-up names (`Ready(K)`,
  `AnswersSame`), because the fact graph goes on growing after the rules were adorned.
* What that takes is stated as hypotheses on the call, not on the constants. `WellPosed`: rules
  bind their variables in asserted literals, heads are derived, what is negated is not; the goal is
  not hybrid; a hybrid literal comes with `ignore_unbound_d_preds` and a declared name, since
  without an adornment it has no bridge and its facts are lost; names made up are new.
  `RoundsSuffice`: `Rounds` rounds reach both least models. Each call of `MCAdorn` satisfies both.
* `MagicSets_proofs!MagicKeepsGoal`: `Spec => [](WellPosed /\ RoundsSuffice /\ MagicPosed /\
  MagicSuffices => MagicAgrees)`. `MagicSound`: each fact of the magic model is one of a magic
  predicate or is in the adorned program's model, because a guarded rule has the body of its rule
  and more, and no rule asks a magic predicate by its own name. `MagicComplete`: where every call
  has its arguments bound, a fact of the adorned program's model that has its magic fact is in the
  magic model. From left to right through a body (`BodyDone`), what stands before a literal holds
  there, so that the magic rule of the literal fires (`CallsOn`) and the literal is called for,
  and so is in the model by the induction over the rounds. That takes what `adorn_rule`
  makes of a body, proved of every handed-over rule (`MagicInvariant`): below a bound head all
  derived literals are adorned, a bound argument comes from the head or from a literal before it,
  negated literals come last, and the collection has the adornments called and headed.
* `MagicPosed`: `no_magic` is empty, as it is by default; what is negated is not declared
  derived (which only a caller's own list of derived predicates could do, and would give the negated
  literal a magic predicate); the magic names are not in the rules or the goal. `MagicSuffices`: `Rounds` rounds reach the magic model. The calls of `MCAdorn` the
  property applies to satisfy both, and some of them have all arguments bound.
* The assumptions: `HybridAssumption` (the name `<p>_derived` is not hybrid itself, and no two
  predicates share it), `BridgeAssumption` (the variables of bridges are distinct variables),
  `ScenariosAssumption` (rules have bodies, literals are literals with no more arguments than a
  bridge has variables, facts are ground literals, what is declared derived is not hybrid) and `NegationAssumption` (no
  literal occurs both asserted and negated: without it equal adorned rules may differ in their
  negations, and the one dropped is lost). TLC evaluates them in `MCAdorn` and `MCBackward`.

**The backward fixpoint procedure** (the assumptions of the adornment, `NamesAssumption`,
`RequestsAssumption`)

* `Backward_proofs!StoreTypeCorrect`: `StoreSpec => []TypeOK`, for all rule sets, fact graphs,
  requests and orders. `TypeOK` is not inductive: that a rule infers ground heads only depends on
  what the frames hold. `Setup` is what the store keeps around a procedure (the patterns left are
  literals; a goal is adorned, then solved, then forgotten, and in between the procedure knows
  nothing; nothing runs while no goal is in hand), with the invariants of the adornment. `Typed`
  says what each kind of frame, memory and cache entry is: a binding at place `j` of rule `r`
  covers exactly the bound head variables and the variables of the first `j` literals (`Covers`),
  and the answers under a key bind exactly the variables of the key (`KeyVars`: two base queries
  with the same key have the same variables).
* `Backward_proofs!MemoizationComplete`: `StoreSpec /\ []CacheHolds => [](Posed => Memoized)`, which
  is the promise of the docstring at `BackwardFixpointProcedure.py:771`: when the procedure comes
  to rest it has inferred all facts of the program's least model that its queries ask for, and
  at any end nothing else.
  - Soundness (`Sound`): each binding in a memory or a frame stems from a query that was issued and
    its literals so far hold in the least model (`Good`); so each inferred head is a conclusion
    and is asked for.
  - Completeness (`Owes`): each query has reached each rule `b` whose head it passes, each fact
    each rule `c`; each binding in `evaluate(r, j)` has met each fact there, has had its
    subquery issued or its base query run, each answer of that was handed over, or a call in
    progress still owes it. A step pays a debt into a memory or hands it to a frame it
    pushes, and `Proceed` loses none of the frames below.
  - At rest nothing is owed. By induction over the rounds of the least model (`ModelDelivered`),
    a fact that a query asks for has been inferred: the rule that concludes it is
    reached by the query, and along its body each literal is a base fact found by the base query
    (`CacheHolds`) or a derived one whose subquery was issued, which by the hypothesis of the
    induction was inferred and joined (`DeliveredWalks`).
* `Backward_proofs!GoalAnswered`: `StoreSpec /\ []CacheHolds => [](AnswersPosed /\ goal # <<>> /\
  Ended => Answers = Solutions(goal, Meaning))`. `Memoized` speaks of what is inferred for the
  adorned program; this is about what `answers` hands out, in terms of the caller's rules.
  - `Answering`: each collected answer stems from a whole binding of a rule with the goal's
    predicate, each whole binding in `evaluate(r, n)` was reported or is in a `conclude` frame that
    still has to, and the procedure has raised iff a ground goal was found.
  - `Same/OtherSolutions`, `GroundSolutions`: what `GoalSolutionAction` makes of a whole binding is a
    solution of the goal and none is missed (`WholeHead`: every inferred fact has its whole
    binding); at rest the inferred facts are the wanted ones, by `MemoizationComplete`'s invariants.
    A ground goal that is found abandons the rest, and is answered all the same.
  - `AnswersSame` carries the answers from the adorned program over to the caller's rules:
    `GoalDerived` keeps that the program handed over was made for the goal in hand, and
    `IDBPatterns` that patterns solved as goals are of derived predicates.
* `Backward_proofs!RefinesGoals`: `StoreSpec /\ []CacheHolds /\ []AnswersPosedAtEnd => AnswersGoals`.
  `GoalSteps` goes through the actions of the store, the adornment and the procedure: a step asks a
  goal (`Ask`), ends it (`Answer`, whose right answer is `GoalAnswered`), takes its answers and
  forgets it (`Drop`), adds facts while no goal is in hand (`Learn`), or leaves `goal`, `edb` and
  the reply alone; once a goal has ended nothing is added to its answers. The run
  `MCBackward` checks `AnswersGoals` without either hypothesis.
* `AnswersPosed` is `Posed` (below), `Told`, no fact under a name made up for a hybrid predicate, and a
  reached model of the caller's rules. `Told` is what `GoalSolutionAction` needs: it pairs the variables of
  a head with what the goal has in their places, and never looks at the goal's constants. So the goal is
  ground; or its variables are called as in every head (`SameNames`); or each of them, no two
  the same, stands for another variable of every head, and only facts that match the goal are
  inferred for its predicate (`OtherNames`). Between those, answers are lost or added (section 5).
  On `MCBackward` TLC finds answered goals of each kind, ground ones with and without answers.
  It also finds ended goals outside `AnswersPosed`, whose answers are right but for which
  only the run says so: hybrid goals, `anc(ann, W)` over a cycle on which the answers of its
  subqueries are its own, and `anc(ann, ann)` among rules with a literal `anc(Y, Y)`.
* `Posed` and `CacheHolds` are conditions on the behaviour, each checked by TLC to hold on states
  with something to infer. `Posed`: the goal and the rules are as the adornment wants them
  (`WellPosed`), no literal is negated (the procedure fires no rule for it), none has a variable
  twice, what a call declares bound is bound (`VariablesAreBound` says for which rules the adornment
  sees to that), no fact has a derived predicate or that of a head, and `Rounds` rounds reach the
  model. `CacheHolds`: a base query about to be run is answered by the cache as the fact graph would
  answer it. `MCMemoization` is the counterexample without it: the entry that is half filled.
  `InferredGoal` (`outcome = "raised"`) leaves work undone, so completeness is stated of the
  procedures that return.
* The assumptions: `NamesAssumption` (no literal has a variable for its predicate) and
  `RequestsAssumption` (patterns are literals; facts, those added later too, are ground).

Only model-checked:

* Everything about liveness (`FeedEnds`, `GoalDecided`, `LoopEnds` and the like): the prover has
  neither fairness nor `ENABLED`.
* `BlankNodesFresh`: it holds because no compiled terminal node concludes a triple from two rules
  with the same existential, and fails in networks that are merely well formed.
* The rule store (`RuleStore`): `ListsKept` and `RulesAssembled` say what flattened and selected
  sequences hold after a whole document, whose order the instance bounds.
* `RequestAnswered`, the join of patterns one goal at a time, is about the answers of several
  procedures, with facts added between requests. `GoalAnswered` says what each of them contributes.
* The ontologies and their rewritings (`DescriptionCorrectness`, `NormalForms`): `Descriptions`,
  `DescriptionPrograms` and `Conditions` are recursive over the structure of descriptions and
  conditions, and recursive operators are out of this prover's reach.

## 5. Divergences noted without a run

Each of these was met while modelling. The models behave as the code does; the instances of the
passing runs keep clear of the cases marked (*), because the property they would break is what
the run is about.

RETE network
* `BetaNode.py:595` says the right input of a beta node is always an alpha node;
  `attach_beta_nodes` makes beta nodes right inputs (`MCWitness` and `MCSuffix` have one). What
  propagates there asks of the left memory only that it is not empty as a whole; an empty entry for
  the key passes (`BetaNode.py:782`, `846`), which is what `MCSuffix` shows.
* `BetaNode.py:605` asserts that two builtins never feed one beta node. A rule with two
  builtins, one of them used by an earlier rule, reaches the assertion: the known builtin
  ends in the first list of patterns. The nodes made until then stay (modelled: `raised`).
* `Network.py:762` says an action is triggered when its triple is inferred for the first
  time; the `else` branch it stands in calls it for triples already known.
* `Network.py:149` (*): the hash of a `HashablePatternList` is the same for patterns whose terms are
  permuted, so a rule over `?Y p ?X` gets the nodes of a rule over `?X p ?Y`. Builtins that `parse_n3_logic`
  hands over (`Network.py:571`) are the same key when argument and result are, whatever the predicate.
* `Network.py:646`: the docstring has the memories of all beta nodes emptied; `reset` walks `nodes`, and
  a node that a later rule overwrote there keeps its memories, below which rules go on joining tokens
  of forgotten facts. `MCActions` has one, and `MemoriesKnown` says which memories that leaves dirty;
  what is inferred from them is kept out of the runs about inferences (*).
* `AlphaNode.py:202` (*): a pattern `?X p ?X` matches two different terms.
* `Network.py:872`: `register_rete_action` assigns `head_triple` before it compares with it, so an
  action is filed under every head.
* `calculate_stratified_model` builds its queries with `Negation.stratified_sparql`, which raises
  `NotImplemented(...)`, a `TypeError`, whenever there is a negative rule.

Adornment and magic sets
* `Magic.py:599` (*): `make_magic_pred` compares an adornment with `" b"`, so a binary magic
  predicate keeps a free argument; `MagicKeepsAnswers` states the equality that then fails.
* A hybrid predicate asked as a goal without occurring in a body gets no bridge and loses its
  asserted facts (*). The search for a sip drops literals equal to the one chosen. Ignoring
  unbound predicates leaves negated literals where they are.

Backward chaining
* `BackwardFixpointProcedure.py:117`: `GoalSolutionAction` collects a binding of every rule with
  the goal's predicate. When goal and rule name their variables differently, answers of
  subqueries become answers of the goal (*); when they share some names, answers are lost (*).
* `BackwardChainingStore.py:503`: a comment says the bindings are carried forward as they are
  after a ground derived pattern; `rt` is `None` there and the branch starts from nothing
  (`Forgets` in `RequestAnswered`).
* `BackwardChainingStore.py:619`: "if the store returns no results the answer is False", and the docstring
  (569) has an ASK short-circuit as soon as a pattern fails; the answer to a base group with variables is
  a generator, which is true with or without rows, so the ASK goes on to the derived patterns and may
  say yes (`Overlooked` in `RequestAnswered`; two requests of `MCBackward` are like that). A SELECT whose
  base group is ground and holds iterates over a truth value, a `TypeError` (modelled).
* A base pattern that is ground in its turn makes the join iterate over a truth value; an ASK
  over an open derived pattern without answers unpacks `None` (both are `ended = "TypeError"`).
  `batch_unify` of ground base patterns only writes a `SELECT` without variables.
* `SPARQL/__init__.py:544` (*): base queries are equal when they have the same multiset of terms,
  so `par(cal, bob)` is answered from the entry of `par(bob, cal)`. The cache belongs to the
  class: it outlives the fact graph (*), and `InferredGoal` leaves entries half filled in it.
* A base literal after a builtin after a derived one is a `KeyError`; negated base literals
  never fire; an abandoned generator leaves `batch_unification` switched off.
* `utilities.py:127`: the docstring of `owl_entailment_regime_graph` takes the goals for the derived
  predicates where none are declared; with `None` they are ignored (`WithGoals`).
* `extract_triples_from_query` means to refuse a second `SERVICE`; `service_url` is local to a
  branch, so siblings pass, and callers answer the patterns of a service from the local graph.
* `Proof.py` merges the bindings of all tracers of a goal, the last one winning.

Rule store
* `RuleStore.py:358` (*): `_unroll_list` takes the index of a member for its place, so a list with its
  first member again becomes a cycle; nested collections are not spelled out. Lists read from a
  dataset come cell by cell in any order and are not assembled (*).
* A second `_finalize` looks up formulae by formulae and empties the rules. `rdf:first` and
  `rdf:rest` statements about non-variables are swallowed. An empty body or head is a `TypeError` of
  `reduce` (modelled). `Clause.__init__` iterates over a body, which where it is a single builtin is an
  `AttributeError` (`HornRules.py:426`, modelled). Variables that only builtins bind become blank nodes of the head.

Description logic programs
* The converse of `C = A and not B` asserts `not B` as a positive head (*); `normalize_disjunctions`
  restores what it replaced by an equality that ignores negation (*); `Tc` is always about `X`, also
  below an existential (*); rules of which one has the terms of the other are one to the set they are
  kept in (*); an enumerated operand of an intersection is dropped; safety counts negated literals and
  is not asked of the rules of a disjunction. `C sub some p D` yields no rule; one direction of a union
  is left out; `only` in an intersection raises; a nested `only` below `only` is dropped.
  The Horn fragment in `DescriptionCorrectness` leaves out what yields no rule. `Sound` leaves nothing
  out, so the ontologies keep clear of the first three.
* `LPNormalForms.py:130`-`173` edits a body that the conjuncts of a head share, one conjunct after the other
  (modelled, and in the ontology `Shared`); an empty conjunction is a `TypeError` of `reduce`
  (modelled). `DLP/__init__.py:786` and `792` take a blank range or domain as it is, where other
  descriptions are skolemized (modelled, `RawNode`).
* `DLNormalization.py:102`: the docstring has a universal restriction become a negated existential one. The
  loop is over triples: where `n1` is `only n2`, `n2` is `only n3` and `n2` comes first, the triple of
  `n1` has a new object and is not met again, and `n1` stays a universal (`Reduced` excepts it).
* `DLNormalization.py:204`: flattening a conjunction deletes the definition of a named class in it
  (*). `Individual.replace` moves incoming triples only; named classes defined by unions of
  complements are erased (*); a restriction to the whole of an enumerated range is an assertion
  error and two nested conjunctions a `TypeError`, both after part of the graph is rewritten
  (modelled, `Fail`); blank descriptions that two others share break (*).

InfixOWL and others
* `OWLRDFListProxy.__eq__` compares first members only; serialization does not end on cyclic
  `subClassOf`; the identifier setter makes two wrong triples of a triple with the class on both
  sides; `Class.__invert__` ignores the graph of its operand.

## 6. Not modelled, and what is left

* Command line, rendering, RIF XML parsing, remote services and the text of SPARQL queries: I/O.
* `Rete/TopDown.py`: superseded, not reached from the store. `Rete/Proof.py`: it builds and draws
  a graph from `justifications` and `proof_tracers`; `TracersAreSolutions` states what it needs.
* `calculate_stratified_model`: raises for every negative rule, see above.
* `DLP/ConditionalAxioms.py` (rules over rules), `DLP/CompletionReasoning.py` (its query is never
  formatted, and nothing calls it), `identify_derived_predicates`, `check_network_wellformedness`,
  `disjunctive_normal_form`, `normalize_body`: not called by the library.
* The editing interface and Manchester rendering of InfixOWL.
* Builtins and second-order predicates in the backward procedure.

Left: the composition of `NetworkBuild` and `ReteNetwork` (rules added between feeds, graphs with
triples in them), which needs the network as a variable; and a proof that a request is answered by
the join of what `RefinesGoals` says of each of its goals.
