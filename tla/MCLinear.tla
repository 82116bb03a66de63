------------------------------ MODULE MCLinear ------------------------------
(***************************************************************************)
(* LinearCompleteness over the networks NetworkCompiler makes: the patterns *)
(* and the builtins above each node, read off the compiled graph, whose     *)
(* nodes are numbered as they are made.                                     *)
(***************************************************************************)
EXTENDS MCReteNetwork, LinearCompleteness

\* The patterns and the builtins above node n of network net, and above the
\* parent that feeds memory m.
PatternsAbove(net, n) ==
    {l \in C!LeavesOf(net)[n] : ~C!IsBuiltin(net.patternOf[l])}
GuardsAbove(net, n) ==
    {Guard(net.patternOf[l]) : l \in C!LeavesOf(net)[n] \ PatternsAbove(net, n)}
Parent(net, m) == net.parents[m.node][IF m.side = LEFT THEN 1 ELSE 2]

LeavesIn(net) == [n \in DOMAIN net.varsOf |-> PatternsAbove(net, n)]
TestsIn(net)  == [n \in DOMAIN net.varsOf |-> GuardsAbove(net, n)]
LeavesAtIn(net) ==
    [m \in [node : DOMAIN net.parents, side : {LEFT, RIGHT}] |->
        PatternsAbove(net, Parent(net, m))]
TestsAtIn(net) ==
    [m \in [node : DOMAIN net.parents, side : {LEFT, RIGHT}] |->
        GuardsAbove(net, Parent(net, m))]

MCLeaves   == LeavesIn(Net)
MCTests    == TestsIn(Net)
MCLeavesAt == LeavesAtIn(Net)
MCTestsAt  == TestsAtIn(Net)
MCLevel    == [n \in Nodes |-> n]
=============================================================================
