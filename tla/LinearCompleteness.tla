------------------------- MODULE LinearCompleteness -------------------------
(***************************************************************************)
(* Why a linear network misses nothing: whatever it still owes to the facts *)
(* it knows is in its memories or in a call in progress.  This module says *)
(* what every fact and every match of two memories owes, and under which   *)
(* assumptions the network pays it.                                        *)
(***************************************************************************)
EXTENDS LinearNetwork, Functions

CONSTANT Level  \* per node, a number above those of the nodes that feed it

\* Every memory a join needs is fed, and from above.
ASSUME FedAssumption ==
    /\ Level \in [Nodes -> Nat]
    /\ \A n \in Wired : \A m \in FedFrom(n) : Level[n] < Level[m.node]
    /\ \A b \in PassThru : \E n \in Wired : {Left(b), Right(b)} \cap FedFrom(n) # {}
    /\ \A b \in BetaNodes \ PassThru :
          /\ \E n \in Wired : Left(b) \in FedFrom(n)
          /\ b \notin DOMAIN Filter => \E n \in Wired : Right(b) \in FedFrom(n)

\* Every rule has its terminal node, and a head leaves no variable open.
ASSUME TerminalsAssumption ==
    /\ \A r \in Rules : \E b \in BetaNodes :
          /\ r.body = {PatternOf[a] : a \in Leaves[b]} /\ r.guards = Tests[b]
          /\ r.head \in Consequent[b]
          /\ r.exists = Existentials[b] \cap VarsOf(r.head)
    /\ \A b \in BetaNodes : \A rhs \in Consequent[b] :
          VarsOf(rhs) \subseteq VarsAt(Leaves[b]) \cup Existentials[b]

\* Callers hand over empty graphs, and none of their actions overrides.
ASSUME CallersAssumption ==
    /\ Targets \subseteq {{}}
    /\ \A reg \in Registrations : ~reg.override
-----------------------------------------------------------------------------
InProgress == Range(stack)

(***************************************************************************)
(* What is done or owed, given the calls P in progress, the memories M and *)
(* the known facts K.                                                      *)
(***************************************************************************)

\* Node n has put pi into the i-th memory below it, or is about to.
Delivered(P, M, n, pi, i) ==
    \/ pi \in M[Descendents[n][i]]
    \/ \E f \in P : f.op = "activate" /\ f.node = n /\ f.pi = pi /\ i \in f.todo

\* A binding has been put into the triple h of a consequent, or will be.
Concluded(P, K, b, h, theta) ==
    \E nu \in [Existentials[b] -> Blank] :
        \/ Inst(Inst(h, nu), theta) \in K
        \/ \E f \in P : /\ f.op = "substitute" /\ f.node = b
                        /\ f.rhs = Inst(h, nu) /\ theta \in f.todo

\* Terminal node b has concluded h from pi, or will.
Fired(P, K, b, pi, h) ==
    \/ \E f \in P : f.op = "activate" /\ f.node = b /\ f.pi = pi
    \/ \E f \in P, nu \in [Existentials[b] -> Blank] :
          f.op = "fire" /\ f.node = b /\ f.pi = pi /\ Inst(h, nu) \in f.todo
    \/ \A theta \in Bindings(pi) : Concluded(P, K, b, h, theta)

\* All that the activation of node n with pi has to bring about.
Reached(P, M, K, n, pi) ==
    /\ \A i \in DOMAIN Descendents[n] : Delivered(P, M, n, pi, i)
    /\ n \in BetaNodes => \A h \in Consequent[n] : Fired(P, K, n, pi, h)

Due(P, M, K, b, pi) ==
    \/ Reached(P, M, K, b, pi)
    \/ \E f \in P : f.op = "join" /\ f.node = b /\ pi \in f.todo

Joins(b, l, r) ==
    \E theta \in Bindings(l), phi \in Bindings(r) : Agree(b, theta, phi)

\* What the memories of b have in them for an activation of b.
Matching(M, b) ==
    IF b \in PassThru THEN M[Left(b)] \cup M[Right(b)]
    ELSE IF b \in DOMAIN Filter THEN {pi \in M[Left(b)] : Accepted(b, pi)}
    ELSE {xy[1] \cup xy[2] :
             xy \in {z \in M[Left(b)] \X M[Right(b)] : Joins(b, z[1], z[2])}}

TokenOf(a, w) == [node |-> a, wme |-> w]
Heeded(P, M, K, w) ==
    \A i \in DOMAIN AlphaOrder : Matches(PatternOf[AlphaOrder[i]], w) =>
        \/ Reached(P, M, K, AlphaOrder[i], {TokenOf(AlphaOrder[i], w)})
        \/ \E f \in P : f.op = "add_wme" /\ f.wme = w /\ i \in f.todo
EveryFact(P, M, K) == \A w \in K : Heeded(P, M, K, w)
EveryMatch(P, M, K) ==
    \A b \in BetaNodes : \A pi \in Matching(M, b) : Due(P, M, K, b, pi)

\* Every known fact and every match of the memories has had its effect or is
\* about to.
Exhaustive ==
    /\ EveryFact(InProgress, memories, Known)
    /\ EveryMatch(InProgress, memories, Known)

NothingOverrides ==
    \A b \in BetaNodes : \A k \in DOMAIN execute_actions[b] :
        ~execute_actions[b][k].override

\* A goal that is inferred cuts the propagations in progress short; until then
\* nothing is lost: the inductive invariant behind Complete.
NothingLost == NothingOverrides /\ (Goal \notin inferred_facts => Exhaustive)
=============================================================================
