----------------------------- MODULE ReteNetwork -----------------------------
(***************************************************************************)
(* The run time of a RETE network (Network.py, AlphaNode.py, BetaNode.py). *)
(*                                                                         *)
(* The code is one thread of nested calls: add_wme activates alpha nodes,  *)
(* an activation adds the token to the memories below and propagates, a    *)
(* join activates a beta node once per match, a terminal node fires its    *)
(* consequents and every new triple re-enters add_wme in the middle of all *)
(* this.  The variable stack is that call stack: a frame is a call or loop *)
(* in progress, its todo the items the loop has not reached.  Lists are    *)
(* walked in order, sets in any order.                                     *)
(***************************************************************************)
EXTENDS RuleSemantics, Sequences, FiniteSets, TLC

CONSTANTS
    AlphaNodes,     \* the alpha nodes
    BetaNodes,      \* the beta nodes ever connected to the network
    Registered,     \* those of them the dictionary network.nodes still holds
    PatternOf,      \* [AlphaNodes -> Pattern]
    AlphaOrder,     \* the order in which add_wme looks at the alpha nodes
    Descendents,    \* per node, its descendent_memory: a sequence of memories
    PassThru,       \* the beta nodes built with a_pass_thru=True
    Common,         \* per beta node, common_variables
    Filter,         \* per beta node fed by a builtin, the builtin
    Consequent,     \* per beta node, its consequent; {} unless it is terminal
    Existentials,   \* per beta node, what Exists heads of its rules declare
    FilterNodes,    \* the terminal nodes built for filter rules (a_filter)
    RuleHeads,      \* per beta node, the heads of the rules it is terminal for
    Facts,          \* the triples callers feed
    Targets,        \* the graphs callers hand to the constructor or to reset
    Goal,           \* the triple that stops the network (or no triple at all)
    Registrations   \* the actions callers register, each [head, override]

CONSTANT NoTriple  \* the None handed to an overriding action

LEFT  == "left"
RIGHT == "right"
Nodes    == AlphaNodes \cup BetaNodes
Terminals == {b \in BetaNodes : Consequent[b] # {}}
Memories == [node : BetaNodes, side : {LEFT, RIGHT}]

ASSUME NetworkAssumption ==
    /\ AlphaNodes \cap BetaNodes = {}
    /\ Registered \subseteq BetaNodes /\ PassThru \subseteq BetaNodes
    /\ PatternOf \in [AlphaNodes -> Pattern]
    /\ AlphaOrder \in Seq(AlphaNodes)
    /\ Descendents \in [Nodes -> Seq(Memories)]
    /\ Consequent \in [BetaNodes -> SUBSET Pattern]
    /\ Existentials \in [BetaNodes -> SUBSET Var]
    /\ Facts \subseteq Triple /\ Targets \subseteq SUBSET Triple

VARIABLES
    working_memory,      \* the tokens fed by callers
    inferred_facts,      \* the triples inferred so far
    memories,            \* per memory, the set of partial instantiations in it
    justifications,      \* the <<triple, terminal node>> pairs
    proof_tracers,       \* the <<triple, binding>> pairs
    instantiations,      \* per beta node, how many triples it was first to infer
    instanciating_tokens,\* per beta node, what it has fired for
    filtered_facts,      \* the triples concluded by filter rules
    execute_actions,     \* per beta node, the actions registered by consequent
    calls,               \* the calls of registered actions made so far
    blanks,              \* the blank nodes made so far
    stack,               \* the call stack, innermost frame first
    outcome              \* how the last call of feed_facts_to_add ended

facts == <<working_memory, inferred_facts>>
notes == <<justifications, proof_tracers, instantiations, filtered_facts>>
vars == <<facts, memories, notes, instanciating_tokens, execute_actions,
          calls, blanks, stack, outcome>>
-----------------------------------------------------------------------------
(***************************************************************************)
(* Tokens and partial instantiations.                                      *)
(***************************************************************************)
Token == [node : AlphaNodes, wme : Triple]
Binding(tok) == Bind(PatternOf[tok.node], tok.wme)

\* A partial instantiation is its set of tokens.  Its bindings are the product
\* of the values its tokens give each variable; joined_bindings plays no part.
Partial == SUBSET Token
VarsIn(pi) == UNION {VarsOf(PatternOf[tok.node]) : tok \in pi}
ValuesOf(pi, v) == {Binding(tok)[v] :
                        tok \in {t \in pi : v \in VarsOf(PatternOf[t.node])}}
Bindings(pi) ==
    {theta \in [VarsIn(pi) -> UNION {ValuesOf(pi, v) : v \in VarsIn(pi)}] :
        \A v \in VarsIn(pi) : theta[v] \in ValuesOf(pi, v)}

\* The lookup in the substitution_dict of a memory.  A variable one side lacks
\* makes the keys differ.
AgreeAnyway(b, theta, phi) ==      \* a bug: the values are not compared
    Common[b] \subseteq (DOMAIN theta) \cap (DOMAIN phi)
Agree(b, theta, phi) == \A v \in Common[b] :
    v \in DOMAIN theta /\ v \in DOMAIN phi /\ theta[v] = phi[v]
Partners(b, content, theta) ==
    {x \in content : \E phi \in Bindings(x) : Agree(b, theta, phi)}

\* A join of two beta nodes skips a union that leaves a variable of the
\* consequent (the last one iterated over) unbound.
BetaFed(m) == \E n \in BetaNodes : \E i \in DOMAIN Descendents[n] :
                  Descendents[n][i] = m
Kept(b, pi) ==
    BetaFed([node |-> b, side |-> RIGHT]) /\ Consequent[b] # {} =>
        VarsOf(CHOOSE rhs \in Consequent[b] : TRUE) \ Existentials[b]
            \subseteq VarsIn(pi)

\* The partial instantiation a join of a beta node with a beta node on its
\* right makes for a binding: the tokens of all that both memories hold under
\* its key.  A memory that holds nothing there adds nothing and stops nothing.
UnifiedMeet(b, theta) ==           \* a bug: & for |
    (UNION Partners(b, memories[[node |-> b, side |-> LEFT]], theta))
    \cap (UNION Partners(b, memories[[node |-> b, side |-> RIGHT]], theta))
Unified(b, theta) ==
    UNION UNION {Partners(b, memories[[node |-> b, side |-> s]], theta) :
                    s \in {LEFT, RIGHT}}

\* PartialInstantiation.new_join, for one token or those of a partial instantiation:
\* none is left out, whether the tokens agree on the join variables or not.
NewJoin(pi, tokens) == pi \cup tokens

\* The builtin below which a beta node sits accepts a binding.
AcceptedSwapped(b, pi) ==          \* a bug: the result is tested on the argument
    \E theta \in Bindings(pi) :
        Holds([Filter[b] EXCEPT !.argument = Filter[b].result,
                                !.result = Filter[b].argument], theta)
Accepted(b, pi) == \E theta \in Bindings(pi) : Holds(Filter[b], theta)
-----------------------------------------------------------------------------
(***************************************************************************)
(* The frames.                                                             *)
(***************************************************************************)
AddWmeOnce(w) ==                   \* a bug: the first alpha node that matches
    LET passed == {i \in DOMAIN AlphaOrder :
                      Matches(PatternOf[AlphaOrder[i]], w)}
    IN  [op |-> "add_wme", wme |-> w,
         todo |-> {i \in passed : \A j \in passed : i <= j}]
AddWme(w) == [op |-> "add_wme", wme |-> w,
              todo |-> {i \in DOMAIN AlphaOrder :
                            Matches(PatternOf[AlphaOrder[i]], w)}]
Activate(n, pi) == [op |-> "activate", node |-> n, pi |-> pi,
                    todo |-> DOMAIN Descendents[n]]
Join(b, matches) == [op |-> "join", node |-> b, todo |-> matches]
Unify(b, pi) == [op |-> "unify", node |-> b, todo |-> Bindings(pi)]
Fire(b, pi, nu) == [op |-> "fire", node |-> b, pi |-> pi,
                    todo |-> {Inst(rhs, nu) : rhs \in Consequent[b]}]
Substitute(b, pi, rhs) == [op |-> "substitute", node |-> b, rhs |-> rhs,
                           todo |-> Bindings(pi)]
\* fire_consequent between the return of add_wme and the test of the goal.
Conclude(b, rhs, t) == [op |-> "conclude", node |-> b, rhs |-> rhs,
                        triple |-> t, todo |-> {}]

ActivateCalls ==
    {f \in [op : {"activate"}, node : Nodes, pi : Partial, todo : SUBSET Nat] :
        f.todo \subseteq DOMAIN Descendents[f.node]}
FireCalls ==
    [op : {"fire"}, node : BetaNodes, pi : Partial, todo : SUBSET Pattern]
    \cup [op : {"substitute"}, node : BetaNodes, rhs : Pattern,
          todo : SUBSET Substitution]
    \cup [op : {"conclude"}, node : BetaNodes, rhs : Pattern, triple : Triple,
          todo : {{}}]
Frame ==
    [op : {"add_wme"}, wme : Triple, todo : SUBSET (DOMAIN AlphaOrder)]
    \cup ActivateCalls
    \cup [op : {"join"}, node : BetaNodes, todo : SUBSET Partial]
    \cup [op : {"unify"}, node : BetaNodes, todo : SUBSET Substitution]
    \cup FireCalls

Idle == stack = <<>>
Top  == Head(stack)
In(op) == stack # <<>> /\ Top.op = op

\* The innermost loop takes the item x and calls what pushed holds.
TakeNothing(x, pushed) == stack' = pushed \o stack  \* a bug: x stays to be done
Take(x, pushed) ==
    stack' = pushed \o <<[Top EXCEPT !.todo = @ \ {x}]>> \o Tail(stack)
IsNext(i) == i \in Top.todo /\ \A j \in Top.todo : i <= j

Other(side) == IF side = LEFT THEN RIGHT ELSE LEFT

\* Node n has put pi into memory m: the call of m.successor.propagate, unless
\* check_null_activation suppresses it, with the memories after the addition.
Propagate(m, n, pi, mems) ==
    LET b        == m.node
        opposite == mems[[node |-> b, side |-> Other(m.side)]]
        partners == UNION {Partners(b, opposite, theta) : theta \in Bindings(pi)}
    IN  IF b \in PassThru THEN <<Activate(b, pi)>>
        ELSE IF b \in DOMAIN Filter
        THEN <<Join(b, {x \in {pi} : Accepted(b, x)})>>
        ELSE IF opposite = {} THEN <<>>
        ELSE IF m.side = RIGHT /\ n \in BetaNodes THEN <<Unify(b, pi)>>
        ELSE <<Join(b, {x \in {NewJoin(pi, y) : y \in partners} :
                            m.side = LEFT => Kept(b, x)})>>
-----------------------------------------------------------------------------
Init ==
    /\ working_memory = {}
    /\ inferred_facts \in Targets
    /\ memories = [m \in Memories |-> {}]
    /\ justifications = {} /\ proof_tracers = {} /\ filtered_facts = {}
    /\ instantiations = [b \in BetaNodes |-> 0]
    /\ instanciating_tokens = [b \in BetaNodes |-> {}]
    /\ execute_actions = [b \in BetaNodes |-> <<>>]
    /\ calls = {} /\ blanks = {}
    /\ stack = <<>> /\ outcome = "returned"

(***************************************************************************)
(* The operations of callers.                                              *)
(***************************************************************************)

\* feed_facts_to_add takes the next token from its iterator.
Feed(w) ==
    /\ Idle
    /\ working_memory' = working_memory \cup {w}
    /\ stack' = <<AddWme(w)>> /\ outcome' = "running"
    /\ UNCHANGED <<inferred_facts, memories, notes, instanciating_tokens,
                   execute_actions, calls, blanks>>

\* The memories of a beta node that network.nodes no longer holds are kept.
ClearedLeft == [m \in Memories |->  \* a bug: one reset() instead of two
    IF m.node \in Registered /\ m.side = LEFT THEN {} ELSE memories[m]]
Cleared == [m \in Memories |->
    IF m.node \in Registered THEN {} ELSE memories[m]]

\* The tokens rules have fired for and filtered_facts survive a reset too.
Reset(g) ==
    /\ Idle
    /\ memories' = Cleared
    /\ justifications' = {} /\ proof_tracers' = {}
    /\ inferred_facts' = g /\ working_memory' = {}
    /\ instantiations' = [b \in BetaNodes |-> 0]
    /\ outcome' = "returned"
    /\ UNCHANGED <<filtered_facts, instanciating_tokens, execute_actions,
                   calls, blanks, stack>>

\* The key of an action: the BNodes of a head are left open.
ActionKey(h) == [i \in Place |->
    IF h[i] \in Blank \cup UNION {Existentials[b] : b \in BetaNodes}
    THEN NoTriple ELSE h[i]]

\* register_rete_action assigns its parameter head_triple before it reads it:
\* the action ends up under every head of every terminal node.
RegisterAction(reg) ==
    /\ Idle
    /\ execute_actions' = [b \in BetaNodes |->
            LET keys == {ActionKey(h) : h \in RuleHeads[b]}
            IN  IF b \notin Terminals THEN execute_actions[b]
                ELSE [k \in keys \cup DOMAIN execute_actions[b] |->
                         IF k \in keys THEN reg ELSE execute_actions[b][k]]]
    /\ UNCHANGED <<facts, memories, notes, instanciating_tokens, calls,
                   blanks, stack, outcome>>

(***************************************************************************)
(* The propagation.                                                        *)
(***************************************************************************)

\* add_wme: the next alpha node whose test the wme passes is activated with a
\* token of its own.
AddWmeStep ==
    /\ In("add_wme")
    /\ \E i \in Top.todo :
          /\ IsNext(i)
          /\ LET a == AlphaOrder[i]
             IN  Take(i, <<Activate(a, {[node |-> a, wme |-> Top.wme]})>>)
    /\ UNCHANGED <<facts, memories, notes, instanciating_tokens,
                   execute_actions, calls, blanks, outcome>>

\* AlphaNode.activate and BetaNode._activate: add to the next memory below,
\* then propagate through the node that owns it.
ActivateStep ==
    /\ In("activate")
    /\ \E i \in Top.todo :
          /\ IsNext(i)
          /\ LET m    == Descendents[Top.node][i]
                 mems == [memories EXCEPT ![m] = @ \cup {Top.pi}]
             IN  /\ memories' = mems
                 /\ Take(i, Propagate(m, Top.node, Top.pi, mems))
    /\ UNCHANGED <<facts, notes, instanciating_tokens, execute_actions, calls,
                   blanks, outcome>>

\* The loop at the end of propagate over the set of matches.
JoinStep ==
    /\ In("join")
    /\ \E pi \in Top.todo : Take(pi, <<Activate(Top.node, pi)>>)
    /\ UNCHANGED <<facts, memories, notes, instanciating_tokens,
                   execute_actions, calls, blanks, outcome>>

\* A beta node activated from the right by a beta node.
UnifyStep ==
    /\ In("unify")
    /\ \E theta \in Top.todo :
          LET b      == Top.node
              joined == Unified(b, theta)
          IN  Take(theta, IF joined = {} THEN <<>> ELSE <<Activate(b, joined)>>)
    /\ UNCHANGED <<facts, memories, notes, instanciating_tokens,
                   execute_actions, calls, blanks, outcome>>

\* New blank nodes for the existentials of the rules of terminal node b.
UsedBlanks(b) == [Existentials[b] -> Blank]  \* a bug: they need not be new
NewBlanks(b) == {nu \in [Existentials[b] -> Blank \ blanks] :
                    \A x, y \in Existentials[b] : nu[x] = nu[y] => x = y}

\* The end of BetaNode._activate in a terminal node: fire_consequent, which
\* replaces the existentials of the head by new blank nodes.
FireConsequent ==
    /\ In("activate") /\ Top.todo = {}
    /\ Top.node \in Terminals
    /\ \E nu \in NewBlanks(Top.node) :
          /\ blanks' = blanks \cup {nu[x] : x \in DOMAIN nu}
          /\ stack' = <<Fire(Top.node, Top.pi, nu)>> \o Tail(stack)
    /\ instanciating_tokens' =
            [instanciating_tokens EXCEPT ![Top.node] = @ \cup {Top.pi}]
    /\ UNCHANGED <<facts, memories, notes, execute_actions, calls, outcome>>

\* The actions registered for rhs at node b: one at most.
ActionsFor(b, rhs) == {execute_actions[b][k] :
                          k \in {ActionKey(rhs)} \cap DOMAIN execute_actions[b]}
NeverOverridden(b, rhs) == FALSE   \* a bug: override is not unpacked
Overridden(b, rhs) == \E action \in ActionsFor(b, rhs) : action.override
Act(b, rhs, t) ==
    calls' = calls \cup
        {[action |-> action, node |-> b, triple |-> t] :
            action \in ActionsFor(b, rhs)}

\* fire_consequent takes the next triple of the consequent; an overriding
\* action is all that happens to it.
FireStep ==
    /\ In("fire")
    /\ \E rhs \in Top.todo :
          \/ /\ Overridden(Top.node, rhs)
             /\ Act(Top.node, rhs, NoTriple)
             /\ Take(rhs, <<>>)
          \/ /\ ~Overridden(Top.node, rhs)
             /\ Take(rhs, <<Substitute(Top.node, Top.pi, rhs)>>)
             /\ UNCHANGED calls
    /\ UNCHANGED <<facts, memories, notes, instanciating_tokens,
                   execute_actions, blanks, outcome>>

\* A binding leaves a variable in the triple: it is skipped.
SkipStep ==
    /\ In("substitute")
    /\ \E theta \in Top.todo :
          LET t == Inst(Top.rhs, theta)
          IN  /\ ~Ground(t)
              /\ Act(Top.node, Top.rhs, t)
              /\ Take(theta, <<>>)
    /\ UNCHANGED <<facts, memories, notes, instanciating_tokens,
                   execute_actions, blanks, outcome>>

\* The test before a triple is inferred.
IsNewFact(t) == t \notin working_memory  \* a bug: inferred_facts is not searched
IsNewSwapped(t) ==                 \* a bug: a misplaced not
    t \notin inferred_facts /\ t \in working_memory
IsNew(t) == t \notin inferred_facts /\ t \notin working_memory

\* A ground triple is recorded; if it is new it is inferred and add_wme is
\* entered for it.
InferStep ==
    /\ In("substitute")
    /\ \E theta \in Top.todo :
          LET b == Top.node
              t == Inst(Top.rhs, theta)
          IN  /\ Ground(t)
              /\ proof_tracers' = proof_tracers \cup {<<t, theta>>}
              /\ justifications' = justifications \cup {<<t, b>>}
              /\ filtered_facts' =
                    filtered_facts \cup (IF b \in FilterNodes THEN {t} ELSE {})
              /\ \/ /\ IsNew(t)
                    /\ inferred_facts' = inferred_facts \cup {t}
                    /\ instantiations' = [instantiations EXCEPT ![b] = @ + 1]
                    /\ Take(theta, <<AddWme(t), Conclude(b, Top.rhs, t)>>)
                    /\ UNCHANGED calls
                 \/ /\ ~IsNew(t)
                    /\ Act(b, Top.rhs, t)
                    /\ Take(theta, <<>>)
                    /\ UNCHANGED <<inferred_facts, instantiations>>
    /\ UNCHANGED <<working_memory, memories, instanciating_tokens,
                   execute_actions, blanks, outcome>>

GoalAsserted == Goal \in working_memory  \* a bug: the wrong set is searched
GoalReached == Goal \in inferred_facts

\* add_wme has returned: the action runs, then InferredGoal is raised through
\* every frame if the goal is among the inferred facts by now.
ConcludeStep ==
    /\ In("conclude")
    /\ Act(Top.node, Top.rhs, Top.triple)
    /\ IF GoalReached
       THEN stack' = <<>> /\ outcome' = "raised"
       ELSE stack' = Tail(stack) /\ UNCHANGED outcome
    /\ UNCHANGED <<facts, memories, notes, instanciating_tokens,
                   execute_actions, blanks>>

\* A call whose loop is through returns.
Return ==
    /\ ~Idle /\ Top.op # "conclude" /\ Top.todo = {}
    /\ Top.op = "activate" => Top.node \notin Terminals
    /\ stack' = Tail(stack)
    /\ outcome' = IF stack' = <<>> THEN "returned" ELSE outcome
    /\ UNCHANGED <<facts, memories, notes, instanciating_tokens,
                   execute_actions, calls, blanks>>

Step == \/ AddWmeStep \/ ActivateStep \/ JoinStep \/ UnifyStep
        \/ FireConsequent \/ FireStep \/ SkipStep \/ InferStep
        \/ ConcludeStep \/ Return

Next == \/ \E w \in Facts : Feed(w)
        \/ \E g \in Targets : Reset(g)
        \/ \E reg \in Registrations : RegisterAction(reg)
        \/ Step

\* The thread that runs a feed runs it to its end.
Spec == Init /\ [][Next]_vars /\ WF_vars(Step)
=============================================================================
