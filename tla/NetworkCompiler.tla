--------------------------- MODULE NetworkCompiler ---------------------------
(***************************************************************************)
(* The compilation of rules into a RETE network (Network.py):              *)
(* build_network_from_clause, build_network and attach_beta_nodes extend   *)
(* the network by one rule, reusing what the dictionary nodes finds under  *)
(* the hash of a list of patterns.                                         *)
(*                                                                         *)
(* A network is the record net, its nodes numbered in the order of their   *)
(* creation; 0 stands for None, as a pattern of a list and as a node.      *)
(***************************************************************************)
EXTENDS RuleSemantics, Sequences, SequencesExt, FiniteSets, TLC

CONSTANT BuiltinPreds   \* the predicates rule_store.filters has an entry for

\* A rule is [body : Seq(Pattern), head : SUBSET Pattern, exists : SUBSET Var,
\* filter : BOOLEAN], filter telling build_filter_network_from_clause.

None == 0
Put(f, x, y) == [z \in {x} \cup DOMAIN f |-> IF z = x THEN y ELSE f[z]]
IsBuiltin(p) == p[2] \in BuiltinPreds

EmptyNet ==
    [next |-> 1, nodes |-> <<>>, patternOf |-> <<>>, alphaHash |-> <<>>,
     parents |-> <<>>, passThru |-> {}, varsOf |-> <<>>, common |-> <<>>,
     feeds |-> <<>>, consequent |-> <<>>, heads |-> <<>>, exists |-> <<>>,
     filters |-> {}, terminals |-> <<>>]

\* One loop fills two lists, and the one follows the other: of the items
\* [item, late] those that are late come last.
Sort(s, x) == IF x.late THEN [s EXCEPT !.last = Append(@, x.item)]
                        ELSE [s EXCEPT !.first = Append(@, x.item)]
LateLast(items) == LET s == FoldLeft(Sort, [first |-> <<>>, last |-> <<>>], items)
                   IN  s.first \o s.last

\* HashablePatternList.__hash__ sorts the terms of all the patterns together:
\* two lists with the same terms, each as often, are equal.  A builtin is a triple
\* like any other: build_network_from_clause has called to_rdf_tuple on it.
TermsIn(ps) == UNION {IF ps[i] = <<>> THEN {} ELSE {ps[i][j] : j \in Place}
                        : i \in DOMAIN ps}
KeyOfFirst(ps) ==                  \* a bug: the first pattern stands for all
    <<0, {ps[i] : i \in {k \in DOMAIN ps : \A j \in 1 .. k - 1 : ps[j] = <<>>}}>>
Key(ps) == <<Cardinality({i \in DOMAIN ps : ps[i] = <<>>}),
             [t \in TermsIn(ps) |->
                Cardinality({ij \in (DOMAIN ps) \X Place :
                    ps[ij[1]] # <<>> /\ ps[ij[1]][ij[2]] = t})]>>
Padded(ps) == <<<<>>>> \o ps          \* HashablePatternList([None]) + ps
KnownBeta(n, ps) ==                \* a bug: alpha nodes are not looked up
    Key(ps) \in DOMAIN n.nodes /\ n.nodes[Key(ps)] \in DOMAIN n.parents
Known(n, ps) == Key(ps) \in DOMAIN n.nodes
NodeAt(n, ps) == n.nodes[Key(ps)]
IsBeta(n, id) == id \in DOMAIN n.parents
BuiltinAlpha(n, id) == id \in DOMAIN n.patternOf /\ IsBuiltin(n.patternOf[id])
FedByBuiltin(n, id) == IsBeta(n, id) /\ BuiltinAlpha(n, n.parents[id][2])

\* create_alpha_node: the node is filed under its ground terms at once; for a
\* builtin it is a BuiltInAlphaNode, which no wme ever reaches, that is used.
CreateAlphaNode(n, p) ==
    [n EXCEPT !.next = @ + 1,
              !.patternOf = Put(@, n.next, p),
              !.alphaHash = IF IsBuiltin(p) THEN @ ELSE Append(@, n.next),
              !.varsOf = Put(@, n.next, IF IsBuiltin(p) THEN {} ELSE VarsOf(p)),
              !.feeds = Put(@, n.next, <<>>)]
File(n, ps, id) == [n EXCEPT !.nodes = Put(@, Key(ps), id)]

\* Node.update_descendent_memory: a node feeds one memory of a successor only.
FeedsFirst(n, from, b, side) ==    \* a bug: any successor will do
    IF from = None \/ n.feeds[from] # <<>> THEN n
    ELSE [n EXCEPT !.feeds[from] = Append(@, [node |-> b, side |-> side])]
Feeds(n, from, b, side) ==
    IF from = None \/ \E i \in DOMAIN n.feeds[from] : n.feeds[from][i].node = b
    THEN n
    ELSE [n EXCEPT !.feeds[from] = Append(@, [node |-> b, side |-> side])]

\* BetaNode.__init__, the assignment to nodes[...] and connect_incoming_nodes.
CreateBetaNode(n, l, r, ps, passThru) ==
    LET b == n.next
        lvars == IF l = None THEN {} ELSE n.varsOf[l]
        made ==
          [n EXCEPT !.next = @ + 1,
                    !.parents = Put(@, b, <<l, r>>),
                    !.passThru = IF passThru THEN @ \cup {b} ELSE @,
                    !.varsOf = Put(@, b, lvars \cup n.varsOf[r]),
                    !.common = Put(@, b, IF passThru THEN n.varsOf[r]
                                         ELSE lvars \cap n.varsOf[r]),
                    !.feeds = Put(@, b, <<>>), !.consequent = Put(@, b, {}),
                    !.heads = Put(@, b, {}), !.exists = Put(@, b, {})]
    IN  Feeds(Feeds(File(made, ps, b), l, b, "left"), r, b, "right")

\* The first pass of build_network: cur meets the patterns matched so far.  A
\* builtin may not be the left input of a join: the assertion of BetaNode.__init__
\* leaves the new alpha node behind, which nodes does not lead to.
FirstPass(s, cur) ==
    LET n == s.net
        ps == IF Len(s.matched) = 1 /\ Known(n, Padded(s.matched))
              THEN Padded(s.matched) ELSE s.matched
        made == CreateAlphaNode(n, cur)
    IN  IF s.raised THEN s
        ELSE CASE Known(n, <<cur>>) -> [s EXCEPT !.matched = Append(@, cur)]
               [] ~Known(n, <<cur>>) /\ ~Known(n, s.matched) ->
                    [s EXCEPT !.net = File(made, <<cur>>, n.next),
                              !.attached = Append(@, <<cur>>)]
               [] OTHER ->
                    IF BuiltinAlpha(n, NodeAt(n, ps))
                    THEN [s EXCEPT !.net = made, !.raised = TRUE]
                    ELSE [s EXCEPT !.net = CreateBetaNode(File(made, <<cur>>, n.next),
                                               NodeAt(n, ps), n.next, Append(ps, cur), FALSE),
                                   !.matched = <<>>,
                                   !.attached = Append(@, Append(ps, cur))]

KnownPrefixes(n, ps) == {k \in 1 .. Len(ps) - 1 : Known(n, SubSeq(ps, 1, k))}
Singles(ps) == [i \in DOMAIN ps |-> <<ps[i]>>]

\* _find_patterns: the longest known proper prefix, then single patterns.
FindPatternsShort(n, ps) ==        \* a bug: the pattern after the prefix is lost
    LET known == KnownPrefixes(n, ps)
    IN  IF known = {} THEN Singles(ps)
        ELSE <<SubSeq(ps, 1, Max(known))>>
             \o Singles(SubSeq(ps, Max(known) + 2, Len(ps)))
FindPatterns(n, ps) ==
    LET known == KnownPrefixes(n, ps)
    IN  IF known = {} THEN Singles(ps)
        ELSE <<SubSeq(ps, 1, Max(known))>>
             \o Singles(SubSeq(ps, Max(known) + 1, Len(ps)))

\* The start of attach_beta_nodes: an alpha node is anchored in a pass-thru
\* beta node, shared if there is one.
Anchor(n, ps) ==
    IF Known(n, Padded(ps)) THEN [net |-> n, id |-> NodeAt(n, Padded(ps))]
    ELSE IF IsBeta(n, NodeAt(n, ps)) THEN [net |-> n, id |-> NodeAt(n, ps)]
    ELSE [net |-> CreateBetaNode(n, None, NodeAt(n, ps), Padded(ps), TRUE),
          id |-> n.next]

\* attach_beta_nodes, and each of its recursive calls: a new beta node joins
\* what is built so far with the node of the next pattern.
AttachOne(s, ps) ==
    LET whole == s.patterns \o ps
    IN  [net |-> CreateBetaNode(s.net, s.id, NodeAt(s.net, ps), whole, FALSE),
         id |-> s.net.next, patterns |-> whole]
AttachBetaNodes(n, attached) ==
    LET anchor == Anchor(n, attached[1])
        start  == [net |-> anchor.net, id |-> anchor.id,
                   patterns |-> Padded(attached[1])]
    IN  FoldLeft(AttachOne, start, Tail(attached))

\* The end of build_network: rule r gets its terminal node.
TerminateAnew(n, b, r) ==          \* a bug: the consequent is replaced
    [n EXCEPT !.consequent[b] = r.head, !.heads[b] = r.head,
              !.exists[b] = r.exists,
              !.filters = IF r.filter THEN @ \cup {b} ELSE @ \ {b},
              !.terminals = Put(@, b, {r})]
Terminate(n, b, r) ==
    [n EXCEPT !.consequent[b] = @ \cup r.head,
              !.heads[b] = @ \cup (IF Cardinality(r.head) = 1
                                   THEN r.head ELSE {}),
              !.exists[b] = @ \cup r.exists,
              !.filters = IF r.filter THEN @ \cup {b} ELSE @ \ {b},
              !.terminals =
                  Put(@, b, (IF b \in DOMAIN @ THEN @[b] ELSE {}) \cup {r})]

\* The lists left to be attached after the first pass.
Attached(s) ==
    s.attached \o (IF s.matched = <<>> THEN <<>>
                   ELSE IF Known(s.net, s.matched) THEN <<s.matched>>
                   ELSE FindPatterns(s.net, s.matched))

\* A builtin, or a beta node over one, is attached after the other patterns.
Late(n, id) == BuiltinAlpha(n, id) \/ FedByBuiltin(n, id)
InOrder(n, attached) ==
    LateLast([i \in DOMAIN attached |->
                 [item |-> attached[i], late |-> Late(n, NodeAt(n, attached[i]))]])
AttachAll(n, attached) ==
    IF Len(attached) > 1 THEN AttachBetaNodes(n, InOrder(n, attached))
    ELSE IF IsBeta(n, NodeAt(n, attached[1]))
    THEN [net |-> n, id |-> NodeAt(n, attached[1])]
    ELSE Anchor(n, attached[1])

Finish(done, r) == Terminate(done.net, done.id, r)
Ordered(body) == LateLast([i \in DOMAIN body |->
                             [item |-> body[i], late |-> IsBuiltin(body[i])]])
FinishFrom(s, r) ==
    [net |-> IF s.raised THEN s.net ELSE Finish(AttachAll(s.net, Attached(s)), r),
     raised |-> s.raised]
BuildNetwork(n, r) ==
    FinishFrom(
        FoldLeft(FirstPass,
                 [net |-> n, matched |-> <<>>, attached |-> <<>>, raised |-> FALSE],
                 Ordered(r.body)), r)

Build(program) == FoldLeft(LAMBDA n, r : BuildNetwork(n, r).net, EmptyNet, program)

\* The order in which add_wme looks at the alpha nodes: the eight combinations
\* of tests as xcombine lists them, in a bucket as they were created.
Rank(p) == LET free(i) == IF p[i] \in Var THEN 1 ELSE 0
           IN  4 * free(1) + 2 * free(2) + free(3)
AlphaOrderOf(n) ==
    SortSeq(n.alphaHash, LAMBDA a, b :
        \/ Rank(n.patternOf[a]) < Rank(n.patternOf[b])
        \/ Rank(n.patternOf[a]) = Rank(n.patternOf[b]) /\ a < b)

\* The alpha nodes below which a node sits.
LeavesOf(n) ==
    LET leaves[id \in 0 .. n.next - 1] ==
            IF id = None THEN {}
            ELSE IF id \in DOMAIN n.patternOf THEN {id}
            ELSE leaves[n.parents[id][1]] \cup leaves[n.parents[id][2]]
    IN  leaves
=============================================================================
