--------------------------- MODULE LinearNetwork ---------------------------
(***************************************************************************)
(* The networks the code takes for granted: a beta node never feeds the    *)
(* right memory of a join, nodes is the full index of the beta nodes, no   *)
(* pattern has a variable twice, and a builtin sees its variables bound.   *)
(* For these networks this module names the patterns and the builtins      *)
(* above each node, and states why nothing but a solution of a rule's body *)
(* ever gets to its terminal node.                                         *)
(***************************************************************************)
EXTENDS ReteCorrectness

CONSTANTS
    Leaves,     \* per node, the alpha nodes its tokens come from
    Tests,      \* per node, the builtins its tokens have passed
    LeavesAt,   \* the same per memory
    TestsAt

VarsAt(L) == UNION {VarsOf(PatternOf[a]) : a \in L}
Left(b)  == [node |-> b, side |-> LEFT]
Right(b) == [node |-> b, side |-> RIGHT]

\* The nodes tokens reach: no wme is tested against a BuiltInAlphaNode.
Wired == BetaNodes \cup {AlphaOrder[i] : i \in DOMAIN AlphaOrder}
FedFrom(n) == {Descendents[n][i] : i \in DOMAIN Descendents[n]}

ASSUME LeavesAssumption ==
    /\ Leaves \in [Nodes -> SUBSET AlphaNodes]
    /\ LeavesAt \in [Memories -> SUBSET AlphaNodes]
    /\ \A i \in DOMAIN AlphaOrder : /\ Leaves[AlphaOrder[i]] = {AlphaOrder[i]}
                                    /\ Tests[AlphaOrder[i]] = {}
    /\ \A n \in Wired : \A m \in FedFrom(n) :
          LeavesAt[m] = Leaves[n] /\ TestsAt[m] = Tests[n]

ASSUME JoinsAssumption ==
    /\ Registered = BetaNodes
    /\ \A n \in Wired : \A m \in FedFrom(n) :
          /\ m.node \in PassThru => /\ Leaves[m.node] = Leaves[n]
                                    /\ Tests[m.node] = Tests[n]
          /\ m.node \notin PassThru /\ (n \in BetaNodes \/ m.node \in DOMAIN Filter)
                => m.side = LEFT
    /\ \A b \in DOMAIN Filter \ PassThru :
          /\ Leaves[b] = LeavesAt[Left(b)]
          /\ Tests[b] = TestsAt[Left(b)] \cup {Filter[b]}
          /\ {Filter[b].argument, Filter[b].result} \cap Var
                \subseteq VarsAt(Leaves[b])
    /\ \A b \in (BetaNodes \ PassThru) \ DOMAIN Filter :
          /\ Leaves[b] = LeavesAt[Left(b)] \cup LeavesAt[Right(b)]
          /\ Tests[b] = TestsAt[Left(b)] \cup TestsAt[Right(b)]
          /\ Common[b] = VarsAt(LeavesAt[Left(b)]) \cap VarsAt(LeavesAt[Right(b)])

ASSUME RulesAssumption ==
    /\ \A a \in AlphaNodes : \A i, j \in Place :
          PatternOf[a][i] = PatternOf[a][j] /\ PatternOf[a][i] \in Var => i = j
    /\ \A b \in BetaNodes : \A rhs \in Consequent[b] :
          \E r \in Rules : /\ r.body = {PatternOf[a] : a \in Leaves[b]}
                           /\ r.guards = Tests[b]
                           /\ r.head = rhs
                           /\ r.exists = Existentials[b] \cap VarsOf(rhs)
-----------------------------------------------------------------------------
\* A substitution that gives the variables of pi the values its tokens do.
Fits(theta, pi) ==
    \A tok \in pi : \A v \in VarsOf(PatternOf[tok.node]) :
        v \in DOMAIN theta /\ theta[v] = Binding(tok)[v]

\* A partial instantiation made of one token or more for each pattern of L,
\* over the facts K, all giving the variables the same values, which pass the
\* tests of T.
Good(K, L, T, pi) ==
    /\ pi \subseteq Token
    /\ \A tok \in pi : /\ tok.node \in L /\ tok.wme \in K
                       /\ Matches(PatternOf[tok.node], tok.wme)
    /\ \A a \in L : \E tok \in pi : tok.node = a
    /\ \A t1, t2 \in pi :
          \A v \in VarsOf(PatternOf[t1.node]) \cap VarsOf(PatternOf[t2.node]) :
              Binding(t1)[v] = Binding(t2)[v]
    /\ \A g \in T : \A theta \in Substitution : Fits(theta, pi) => Holds(g, theta)

\* The values of theta put all the patterns of L among the facts K and pass
\* the tests of T.
Solves(K, L, T, theta) ==
    /\ theta \in [VarsAt(L) -> Term]
    /\ \A a \in L : Inst(PatternOf[a], theta) \in K
    /\ \A g \in T : Holds(g, theta)

\* rhs is a triple of the consequent of b, its existentials instantiated.
HeadOf(b, rhs) == \E h \in Consequent[b], nu \in [Existentials[b] -> Blank] :
                      rhs = Inst(h, nu)

\* What a call in progress holds, given the facts K.
GoodAt(K, n, pi)    == Good(K, Leaves[n], Tests[n], pi)
GoodIn(K, m, pi)    == Good(K, LeavesAt[m], TestsAt[m], pi)
SolvesAt(K, n, theta) == Solves(K, Leaves[n], Tests[n], theta)
FrameInv(K, f) ==
    /\ f.op = "add_wme" =>
          /\ f.wme \in K
          /\ \A i \in f.todo : Matches(PatternOf[AlphaOrder[i]], f.wme)
    /\ f.op = "activate" => f.node \in Wired
    /\ f.op \in {"activate", "fire"} => GoodAt(K, f.node, f.pi)
    /\ f.op = "join" => \A pi \in f.todo : GoodAt(K, f.node, pi)
    /\ f.op # "unify"
    /\ f.op = "fire" => \A rhs \in f.todo : HeadOf(f.node, rhs)
    /\ f.op = "substitute" =>
          /\ HeadOf(f.node, f.rhs)
          /\ \A theta \in f.todo : SolvesAt(K, f.node, theta)

MemoriesGood(K) == \A m \in Memories : \A pi \in memories[m] : GoodIn(K, m, pi)
Held(K) == {f \in Frame : FrameInv(K, f)}
FramesGood(K) == stack \in Seq(Held(K))

\* Nothing is known to any memory or to any call in progress but partial
\* solutions of the rules' bodies over known facts: the inductive invariant
\* behind Sound.
PartialSolutions == MemoriesGood(Known) /\ FramesGood(Known)
=============================================================================
