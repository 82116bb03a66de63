------------------------ MODULE LinearNetwork_proofs ------------------------
(***************************************************************************)
(* Soundness of linear networks: whatever is inferred is what a rule       *)
(* concludes from known facts, for every program, every set of facts and   *)
(* every order of propagation.                                             *)
(***************************************************************************)
EXTENDS LinearNetwork, ReteNetwork_proofs

(***************************************************************************)
(* Partial instantiations.                                                 *)
(***************************************************************************)

\* More facts leave a partial solution one.
LEMMA GoodMonotone ==
    ASSUME NEW K, NEW K2, K \subseteq K2, NEW L, NEW T, NEW pi, Good(K, L, T, pi)
    PROVE  Good(K2, L, T, pi)
BY DEF Good

\* The one token a matching fact makes is a partial solution of its pattern.
LEMMA SingleGood ==
    ASSUME NEW K, NEW a \in AlphaNodes, NEW w \in Triple, w \in K,
           Matches(PatternOf[a], w)
    PROVE  Good(K, {a}, {}, {[node |-> a, wme |-> w]})
BY DEF Good, Token

LEMMA GoodVars ==
    ASSUME NEW K, NEW L, NEW T, NEW pi, Good(K, L, T, pi)
    PROVE  VarsIn(pi) = VarsAt(L)
BY DEF Good, VarsIn, VarsAt

\* A partial solution has one binding, which agrees with each of its tokens.
LEMMA GoodBindings ==
    ASSUME NEW K, NEW L, NEW T, NEW pi, Good(K, L, T, pi), NEW theta \in Bindings(pi),
           NEW tok \in pi, NEW v \in VarsOf(PatternOf[tok.node])
    PROVE  v \in DOMAIN theta /\ theta[v] = Binding(tok)[v]
<1>1. v \in VarsIn(pi)
  BY DEF VarsIn
<1>2. v \in DOMAIN theta /\ theta[v] \in ValuesOf(pi, v)
  BY <1>1 DEF Bindings
<1>3. PICK other \in pi : /\ v \in VarsOf(PatternOf[other.node])
                          /\ theta[v] = Binding(other)[v]
  BY <1>2 DEF ValuesOf
<1> QED  BY <1>2, <1>3 DEF Good

\* That binding solves the patterns: each of them, instantiated, is the known
\* fact its token carries.  Here a pattern must not have a variable twice.
LEMMA GoodSolves ==
    ASSUME NEW K, NEW L \in SUBSET AlphaNodes, NEW T,
           NEW pi, Good(K, L, T, pi),
           NEW theta \in Bindings(pi)
    PROVE  Solves(K, L, T, theta)
<1>1. pi \in Partial
  BY DEF Good, Partial
<1>2. theta \in [VarsAt(L) -> Term]
  BY <1>1, BindingsType, GoodVars
<1>3. ASSUME NEW a \in L
      PROVE  Inst(PatternOf[a], theta) \in K
  <2> DEFINE p == PatternOf[a]
  <2>1. PICK tok \in pi : tok.node = a
    BY DEF Good
  <2>2. /\ tok.wme \in K /\ tok.wme \in Triple /\ Matches(p, tok.wme)
    BY <2>1 DEF Good, Token
  <2>3. ASSUME NEW i \in Place
        PROVE  Inst(p, theta)[i] = tok.wme[i]
    <3>1. CASE p[i] \in Var
      <4>1. p[i] \in VarsOf(p)
        BY <3>1 DEF VarsOf
      <4>2. p[i] \in DOMAIN theta /\ theta[p[i]] = Binding(tok)[p[i]]
        BY <2>1, <4>1, GoodBindings
      <4>3. FirstPlace(p, p[i]) = i
        <5>1. FirstPlace(p, p[i]) \in Place /\ p[FirstPlace(p, p[i])] = p[i]
          BY <4>1, FirstPlaceOf
        <5> QED  BY <5>1, <3>1, RulesAssumption
      <4>4. Binding(tok)[p[i]] = tok.wme[i]
        BY <2>1, <4>1, <4>3 DEF Binding, Bind
      <4> QED  BY <4>2, <4>4 DEF Inst
    <3>2. CASE p[i] \notin Var
      <4>1. p[i] \notin DOMAIN theta
        BY <1>2, <3>2 DEF VarsAt, VarsOf
      <4>2. tok.wme[i] = p[i]
        BY <2>2, <3>2 DEF Matches
      <4> QED  BY <4>1, <4>2 DEF Inst
    <3> QED  BY <3>1, <3>2
  <2>4. Inst(p, theta) = tok.wme
    <3>1. Inst(p, theta) = [i \in Place |-> Inst(p, theta)[i]]
      BY DEF Inst
    <3>2. tok.wme = [i \in Place |-> tok.wme[i]]
      BY <2>2 DEF Triple
    <3> HIDE DEF p
    <3> QED  BY <2>3, <3>1, <3>2
  <2> QED  BY <2>2, <2>4
<1>4. theta \in Substitution /\ Fits(theta, pi)
  BY <1>1, BindingsType, GoodBindings DEF Fits
<1> QED  BY <1>2, <1>3, <1>4 DEF Solves, Good

\* Two partial solutions that agree on the variables both sides of a join have
\* make one of all the patterns.
LEMMA JoinGood ==
    ASSUME NEW K, NEW L1, NEW L2, NEW T1, NEW T2, NEW x, NEW y,
           Good(K, L1, T1, x), Good(K, L2, T2, y),
           NEW theta \in Bindings(x), NEW phi \in Bindings(y),
           NEW b, Common[b] = VarsAt(L1) \cap VarsAt(L2), Agree(b, theta, phi)
    PROVE  Good(K, L1 \cup L2, T1 \cup T2, x \cup y)
<1> DEFINE Same(t1, t2) ==
        \A v \in VarsOf(PatternOf[t1.node]) \cap VarsOf(PatternOf[t2.node]) :
            Binding(t1)[v] = Binding(t2)[v]
<1>1. ASSUME NEW t1 \in x, NEW t2 \in y
      PROVE  Same(t1, t2)
  <2> SUFFICES ASSUME NEW v \in VarsOf(PatternOf[t1.node])
                                \cap VarsOf(PatternOf[t2.node])
               PROVE  Binding(t1)[v] = Binding(t2)[v]
    OBVIOUS
  <2>1. v \in Common[b]
    BY DEF VarsAt, Good
  <2>2. theta[v] = phi[v]
    BY <2>1 DEF Agree
  <2> QED  BY <2>2, GoodBindings
<1>2. \A t1, t2 \in x : Same(t1, t2)
  BY DEF Good
<1>3. \A t1, t2 \in y : Same(t1, t2)
  BY DEF Good
<1>4. \A t1, t2 \in x \cup y : Same(t1, t2)
  <2>1. \A t1 \in y, t2 \in x : Same(t1, t2)
    <3> SUFFICES ASSUME NEW t1 \in y, NEW t2 \in x
                 PROVE  Same(t1, t2)
      OBVIOUS
    <3>1. Same(t2, t1)
      BY <1>1
    <3> QED  BY <3>1
  <2> HIDE DEF Same
  <2> QED  BY <1>1, <1>2, <1>3, <2>1
<1>5. \A theta1 : Fits(theta1, x \cup y) => Fits(theta1, x) /\ Fits(theta1, y)
  BY DEF Fits
<1> HIDE DEF Same
<1>6. \A g \in T1 \cup T2 : \A theta1 \in Substitution :
          Fits(theta1, x \cup y) => Holds(g, theta1)
  BY <1>5 DEF Good
<1> QED  BY <1>4, <1>6 DEF Good, Same

\* A partial solution the builtin of a node accepts passes that test too.
LEMMA AcceptGood ==
    ASSUME NEW K, NEW L, NEW T, NEW pi, Good(K, L, T, pi), NEW b, Accepted(b, pi),
           {Filter[b].argument, Filter[b].result} \cap Var \subseteq VarsAt(L)
    PROVE  Good(K, L, T \cup {Filter[b]}, pi)
<1>1. PICK phi \in Bindings(pi) : Holds(Filter[b], phi)
  BY DEF Accepted
<1>2. ASSUME NEW theta \in Substitution, Fits(theta, pi)
      PROVE  Holds(Filter[b], theta)
  <2>1. \A v \in VarsAt(L) : theta[v] = phi[v]
    <3> SUFFICES ASSUME NEW v \in VarsAt(L)
                 PROVE  theta[v] = phi[v]
      OBVIOUS
    <3>1. PICK tok \in pi : v \in VarsOf(PatternOf[tok.node])
      BY DEF VarsAt, Good
    <3> QED  BY <1>2, <3>1, GoodBindings DEF Fits
  <2> QED  BY <1>1, <2>1 DEF Holds
<1> QED  BY <1>2 DEF Good
-----------------------------------------------------------------------------
(***************************************************************************)
(* Calls in progress.                                                      *)
(***************************************************************************)

LEMMA HeldMonotone ==
    ASSUME NEW K, NEW K2, K \subseteq K2
    PROVE  Held(K) \subseteq Held(K2)
<1> SUFFICES ASSUME NEW f \in Held(K)
             PROVE  FrameInv(K2, f)
  BY DEF Held
<1>1. FrameInv(K, f)
  BY DEF Held
<1>2. f.op \in {"activate", "fire"} => GoodAt(K2, f.node, f.pi)
  BY <1>1, GoodMonotone DEF FrameInv, GoodAt
<1>3. f.op = "join" => \A pi \in f.todo : GoodAt(K2, f.node, pi)
  BY <1>1, GoodMonotone DEF FrameInv, GoodAt
<1>4. f.op = "substitute" =>
         \A theta \in f.todo : SolvesAt(K2, f.node, theta)
  BY <1>1 DEF FrameInv, SolvesAt, Solves
<1> QED  BY <1>1, <1>2, <1>3, <1>4 DEF FrameInv

\* The fields of a frame whose loop has taken an item.
LEMMA TakeFields ==
    ASSUME NEW f \in Frame, NEW x
    PROVE  LET g == [f EXCEPT !.todo = @ \ {x}]
           IN  /\ g.op = f.op /\ g.todo = f.todo \ {x}
               /\ f.op = "add_wme" => g.wme = f.wme
               /\ f.op # "add_wme" => g.node = f.node
               /\ f.op \in {"activate", "fire"} => g.pi = f.pi
               /\ f.op = "substitute" => g.rhs = f.rhs
<1>1. CASE f \in ActivateCalls
  BY <1>1 DEF ActivateCalls
<1>2. CASE f \in FireCalls
  BY <1>2 DEF FireCalls
<1>3. CASE f \in [op : {"add_wme"}, wme : Triple, todo : SUBSET (DOMAIN AlphaOrder)]
  BY <1>3
<1>4. CASE f \in [op : {"join"}, node : BetaNodes, todo : SUBSET Partial]
  BY <1>4
<1>5. CASE f \in [op : {"unify"}, node : BetaNodes, todo : SUBSET Substitution]
  BY <1>5
<1> QED  BY <1>1, <1>2, <1>3, <1>4, <1>5 DEF Frame

LEMMA TakeHeld ==
    ASSUME NEW K, NEW f \in Held(K), NEW x
    PROVE  [f EXCEPT !.todo = @ \ {x}] \in Held(K)
<1> DEFINE g == [f EXCEPT !.todo = @ \ {x}]
<1>1. f \in Frame /\ FrameInv(K, f)
  BY DEF Held
<1>2. g \in Frame
  BY <1>1, TakeFrame
<1>3. /\ g.op = f.op /\ g.todo = f.todo \ {x}
      /\ f.op = "add_wme" => g.wme = f.wme
      /\ f.op # "add_wme" => g.node = f.node
      /\ f.op \in {"activate", "fire"} => g.pi = f.pi
      /\ f.op = "substitute" => g.rhs = f.rhs
  BY <1>1, TakeFields
<1> HIDE DEF g
<1>4. FrameInv(K, g)
  BY <1>1, <1>3 DEF FrameInv
<1>5. g \in Held(K)
  BY <1>2, <1>4 DEF Held
<1> QED  BY <1>5 DEF g

\* The frames of new calls.
LEMMA WiredNodes == BetaNodes \subseteq Wired /\ Wired \subseteq Nodes
BY NetworkAssumption DEF Wired, Nodes

LEMMA AddWmeHeld ==
    ASSUME NEW K, NEW w \in Triple, w \in K
    PROVE  AddWme(w) \in Held(K)
<1>1. AddWme(w) \in Frame
  BY AddWmeFrame
<1>2. FrameInv(K, AddWme(w))
  BY DEF FrameInv, AddWme
<1> QED  BY <1>1, <1>2 DEF Held

LEMMA ActivateHeld ==
    ASSUME NEW K, NEW n \in Wired, NEW pi, GoodAt(K, n, pi)
    PROVE  Activate(n, pi) \in Held(K)
<1>1. Activate(n, pi) \in Frame
  BY WiredNodes, ActivateFrame DEF GoodAt, Good, Partial
<1>2. FrameInv(K, Activate(n, pi))
  BY DEF FrameInv, Activate
<1> QED  BY <1>1, <1>2 DEF Held

LEMMA JoinHeld ==
    ASSUME NEW K, NEW b \in BetaNodes, NEW matches,
           \A pi \in matches : GoodAt(K, b, pi)
    PROVE  Join(b, matches) \in Held(K)
<1>1. matches \subseteq Partial
  BY DEF GoodAt, Good, Partial
<1>2. Join(b, matches) \in Frame
  BY <1>1, JoinFrame
<1>3. FrameInv(K, Join(b, matches))
  BY DEF FrameInv, Join
<1> QED  BY <1>2, <1>3 DEF Held

LEMMA FireHeld ==
    ASSUME NEW K, NEW b \in BetaNodes, NEW pi, GoodAt(K, b, pi),
           NEW nu \in [Existentials[b] -> Blank]
    PROVE  Fire(b, pi, nu) \in Held(K)
<1>1. Fire(b, pi, nu) \in Frame
  BY FireFrame DEF GoodAt, Good, Partial
<1>2. \A rhs \in {Inst(h, nu) : h \in Consequent[b]} : HeadOf(b, rhs)
  BY DEF HeadOf
<1>3. FrameInv(K, Fire(b, pi, nu))
  BY <1>2 DEF FrameInv, Fire
<1> QED  BY <1>1, <1>3 DEF Held

LEMMA SubstituteHeld ==
    ASSUME NEW K, NEW b \in BetaNodes, NEW pi, GoodAt(K, b, pi),
           NEW rhs \in Pattern, HeadOf(b, rhs)
    PROVE  Substitute(b, pi, rhs) \in Held(K)
<1>1. Substitute(b, pi, rhs) \in Frame
  BY SubstituteFrame DEF GoodAt, Good, Partial
<1>2. Leaves[b] \in SUBSET AlphaNodes
  BY LeavesAssumption DEF Nodes
<1>3. \A theta \in Bindings(pi) : SolvesAt(K, b, theta)
  BY <1>2, GoodSolves DEF GoodAt, SolvesAt
<1>4. FrameInv(K, Substitute(b, pi, rhs))
  BY <1>3 DEF FrameInv, Substitute
<1> QED  BY <1>1, <1>4 DEF Held

LEMMA ConcludeHeld ==
    ASSUME NEW K, NEW b \in BetaNodes, NEW rhs \in Pattern, NEW t \in Triple
    PROVE  Conclude(b, rhs, t) \in Held(K)
<1>1. Conclude(b, rhs, t) \in Frame
  BY ConcludeFrame
<1>2. FrameInv(K, Conclude(b, rhs, t))
  BY DEF FrameInv, Conclude
<1> QED  BY <1>1, <1>2 DEF Held

\* A node that puts a partial solution of its patterns into a memory below
\* calls on with partial solutions only.
LEMMA PropagateHeld ==
    ASSUME NEW K, NEW n \in Wired, NEW m \in FedFrom(n),
           NEW pi, GoodAt(K, n, pi),
           NEW mems \in [Memories -> SUBSET Partial],
           \A k \in Memories : \A y \in mems[k] : GoodIn(K, k, y)
    PROVE  Propagate(m, n, pi, mems) \in Seq(Held(K))
<1> DEFINE b == m.node
           other == [node |-> b, side |-> Other(m.side)]
           opposite == mems[other]
           partners == UNION {Partners(b, opposite, theta) : theta \in Bindings(pi)}
           joined   == {x \in {pi \cup y : y \in partners} :
                            m.side = LEFT => Kept(b, x)}
           accepted == {x \in {pi} : Accepted(b, x)}
<1>1. m \in Memories
  BY WiredNodes, NetworkAssumption DEF FedFrom
<1>2. /\ b \in BetaNodes /\ b \in Wired /\ m.side \in {LEFT, RIGHT}
      /\ m = [node |-> b, side |-> m.side] /\ other \in Memories
  BY <1>1, WiredNodes DEF Memories, Other
<1>3. GoodIn(K, m, pi)
  BY LeavesAssumption DEF GoodIn, GoodAt
<1>4. <<>> \in Seq(Held(K)) /\ \A f \in Held(K) : <<f>> \in Seq(Held(K))
  OBVIOUS
<1>5. CASE b \in PassThru
  <2>1. Leaves[b] = Leaves[n] /\ Tests[b] = Tests[n]
    BY <1>5, JoinsAssumption
  <2>2. Activate(b, pi) \in Held(K)
    BY <1>2, <2>1, ActivateHeld DEF GoodAt
  <2>3. Propagate(m, n, pi, mems) = <<Activate(b, pi)>>
    BY <1>5 DEF Propagate, NewJoin
  <2> HIDE DEF b
  <2> QED  BY <1>4, <2>2, <2>3
<1>6. CASE b \notin PassThru /\ b \in DOMAIN Filter
  <2>1. /\ Leaves[b] = LeavesAt[m] /\ Tests[b] = TestsAt[m] \cup {Filter[b]}
        /\ {Filter[b].argument, Filter[b].result} \cap Var
              \subseteq VarsAt(LeavesAt[m])
    <3>1. m = Left(b)
      BY <1>2, <1>6, JoinsAssumption DEF Left
    <3> HIDE DEF b
    <3> QED  BY <1>6, <3>1, JoinsAssumption
  <2>2. \A x \in accepted : GoodAt(K, b, x)
    <3> HIDE DEF b
    <3> QED  BY <1>3, <2>1, AcceptGood DEF GoodAt, GoodIn
  <2>3. Join(b, accepted) \in Held(K)
    <3> HIDE DEF b, accepted
    <3> QED  BY <1>2, <2>2, JoinHeld
  <2>4. Propagate(m, n, pi, mems) = <<Join(b, accepted)>>
    BY <1>6 DEF Propagate, NewJoin
  <2> HIDE DEF b, accepted
  <2> QED  BY <1>4, <2>3, <2>4
<1>7. CASE b \notin PassThru /\ b \notin DOMAIN Filter
  <2>1. /\ Leaves[b] = LeavesAt[m] \cup LeavesAt[other]
        /\ Tests[b] = TestsAt[m] \cup TestsAt[other]
        /\ Common[b] = VarsAt(LeavesAt[m]) \cap VarsAt(LeavesAt[other])
    <3>1. /\ Leaves[b] = LeavesAt[Left(b)] \cup LeavesAt[Right(b)]
          /\ Tests[b] = TestsAt[Left(b)] \cup TestsAt[Right(b)]
          /\ Common[b] = VarsAt(LeavesAt[Left(b)]) \cap VarsAt(LeavesAt[Right(b)])
      BY <1>2, <1>7, JoinsAssumption
    <3>2. {m, other} = {Left(b), Right(b)}
      BY <1>2 DEF Left, Right, Other, LEFT, RIGHT
    <3> HIDE DEF b, other
    <3> QED  BY <3>1, <3>2
  <2>2. \A x \in joined : GoodAt(K, b, x)
    <3> SUFFICES ASSUME NEW y \in partners
                 PROVE  GoodAt(K, b, pi \cup y)
      OBVIOUS
    <3>1. PICK theta \in Bindings(pi) : y \in Partners(b, opposite, theta)
      OBVIOUS
    <3>2. PICK phi \in Bindings(y) : y \in opposite /\ Agree(b, theta, phi)
      BY <3>1 DEF Partners
    <3>3. GoodIn(K, other, y)
      BY <1>2, <3>2
    <3> HIDE DEF b, other, opposite, partners
    <3> QED  BY <1>3, <2>1, <3>2, <3>3, JoinGood DEF GoodAt, GoodIn
  <2>3. Join(b, joined) \in Held(K)
    <3> HIDE DEF b, joined
    <3> QED  BY <1>2, <2>2, JoinHeld
  <2>4. m.side = RIGHT => n \notin BetaNodes
    BY <1>7, JoinsAssumption DEF LEFT, RIGHT
  <2>5. Propagate(m, n, pi, mems) \in {<<>>, <<Join(b, joined)>>}
    BY <1>7, <2>4 DEF Propagate, NewJoin
  <2> HIDE DEF b, joined
  <2> QED  BY <1>4, <2>3, <2>5
<1> QED  BY <1>5, <1>6, <1>7
-----------------------------------------------------------------------------
(***************************************************************************)
(* The invariant.                                                          *)
(***************************************************************************)
Inv == TypeOK /\ PartialSolutions

\* The innermost loop moves on.
LEMMA TakeFramesGood ==
    ASSUME NEW K, FramesGood(K), stack # <<>>, NEW x, NEW pushed \in Seq(Held(K)),
           Take(x, pushed)
    PROVE  stack' \in Seq(Held(K))
<1>1. stack \in Seq(Held(K))
  BY DEF FramesGood
<1>2. Top \in Held(K)
  BY <1>1, HeadTailProperties DEF Top
<1>3. [Top EXCEPT !.todo = @ \ {x}] \in Held(K)
  BY <1>2, TakeHeld
<1> QED  BY <1>1, <1>3, TakePushes

\* The innermost call, and what it holds.
LEMMA TopHeld ==
    ASSUME Inv, NEW op, In(op)
    PROVE  /\ FramesGood(Known) /\ stack # <<>>
           /\ Top \in Frame /\ FrameInv(Known, Top) /\ Top.op = op
<1>1. stack \in Seq(Held(Known)) /\ stack # <<>> /\ Top.op = op
  BY DEF Inv, PartialSolutions, FramesGood, In
<1>2. Top \in Held(Known)
  BY <1>1, HeadTailProperties DEF Top
<1> QED  BY <1>1, <1>2 DEF Held, FramesGood

\* A step that leaves the memories alone and forgets no fact keeps them good.
LEMMA MemoriesStay ==
    ASSUME MemoriesGood(Known), UNCHANGED memories, Known \subseteq Known'
    PROVE  MemoriesGood(Known)'
<1>1. \A m \in Memories : \A pi \in memories[m] : GoodIn(Known', m, pi)
  BY GoodMonotone DEF MemoriesGood, GoodIn
<1> QED  BY <1>1 DEF MemoriesGood, GoodIn, Good

\* A stack of good frames over the facts before a step that forgets none is
\* one over the facts after it.
LEMMA FramesStay ==
    ASSUME stack' \in Seq(Held(Known)), Known \subseteq Known'
    PROVE  FramesGood(Known)'
<1>1. Held(Known) \subseteq Held(Known')
  BY HeldMonotone
<1>2. stack' \in Seq(Held(Known'))
  BY <1>1, SeqMonotonic
<1> QED  BY <1>2 DEF FramesGood, Held, FrameInv, GoodAt, SolvesAt, Good, Solves

LEMMA FeedInv ==
    ASSUME Inv, NEW w \in Facts, Feed(w)
    PROVE  PartialSolutions'
<1>1. w \in Triple /\ w \in Known' /\ Known \subseteq Known'
  BY NetworkAssumption DEF Feed, Known
<1>2. AddWme(w) \in Held(Known')
  BY <1>1, AddWmeHeld
<1>3. stack' \in Seq(Held(Known'))
  BY <1>2 DEF Feed
<1>4. FramesGood(Known)'
  BY <1>3 DEF FramesGood
<1>5. MemoriesGood(Known)'
  BY <1>1, MemoriesStay DEF Inv, PartialSolutions, Feed
<1> QED  BY <1>4, <1>5 DEF PartialSolutions

LEMMA ResetInv ==
    ASSUME Inv, NEW g \in Targets, Reset(g)
    PROVE  PartialSolutions'
<1>1. stack' = <<>>
  BY DEF Reset, Idle
<1>2. \A m \in Memories : memories'[m] = {}
  BY JoinsAssumption DEF Reset, Cleared, Memories
<1>3. stack' \in Seq(Held(Known'))
  BY <1>1
<1>4. FramesGood(Known)'
  BY <1>3 DEF FramesGood
<1> QED  BY <1>2, <1>4 DEF PartialSolutions, MemoriesGood

LEMMA AddWmeStepInv ==
    ASSUME Inv, AddWmeStep
    PROVE  PartialSolutions'
<1>1. PICK i \in Top.todo :
          LET a == AlphaOrder[i]
          IN  Take(i, <<Activate(a, {[node |-> a, wme |-> Top.wme]})>>)
  BY DEF AddWmeStep
<1> DEFINE a == AlphaOrder[i]
           pi == {[node |-> a, wme |-> Top.wme]}
<1>2. /\ FramesGood(Known) /\ stack # <<>> /\ Top \in Frame
      /\ FrameInv(Known, Top) /\ Top.op = "add_wme"
  BY TopHeld DEF AddWmeStep
<1>3. /\ Top.wme \in Triple /\ Top.wme \in Known /\ i \in DOMAIN AlphaOrder
      /\ Matches(PatternOf[a], Top.wme)
  BY <1>2, FrameFields DEF FrameInv
<1>4. a \in AlphaNodes /\ a \in Wired
  BY <1>3, NetworkAssumption DEF Wired
<1>5. GoodAt(Known, a, pi)
  <2>1. Leaves[a] = {a} /\ Tests[a] = {}
    BY <1>3, LeavesAssumption
  <2> HIDE DEF a
  <2>2. Good(Known, {a}, {}, pi)
    BY <1>3, <1>4, SingleGood
  <2> QED  BY <2>1, <2>2 DEF GoodAt
<1>6. <<Activate(a, pi)>> \in Seq(Held(Known))
  <2>1. Activate(a, pi) \in Held(Known)
    BY <1>4, <1>5, ActivateHeld
  <2> QED  BY <2>1
<1>7. stack' \in Seq(Held(Known))
  BY <1>1, <1>2, <1>6, TakeFramesGood
<1>8. Known' = Known /\ UNCHANGED memories
  BY DEF AddWmeStep, facts, Known
<1> QED  BY <1>7, <1>8, FramesStay, MemoriesStay DEF Inv, PartialSolutions

LEMMA ActivateStepInv ==
    ASSUME Inv, ActivateStep
    PROVE  PartialSolutions'
<1>1. PICK i \in Top.todo :
          LET m    == Descendents[Top.node][i]
              mems == [memories EXCEPT ![m] = @ \cup {Top.pi}]
          IN  /\ memories' = mems
              /\ Take(i, Propagate(m, Top.node, Top.pi, mems))
  BY DEF ActivateStep
<1> DEFINE n    == Top.node
           m    == Descendents[n][i]
           mems == [memories EXCEPT ![m] = @ \cup {Top.pi}]
<1>2. /\ FramesGood(Known) /\ stack # <<>> /\ Top \in Frame
      /\ FrameInv(Known, Top) /\ Top.op = "activate"
  BY TopHeld DEF ActivateStep
<1>3. /\ n \in Wired /\ Top.pi \in Partial /\ i \in DOMAIN Descendents[n]
      /\ GoodAt(Known, n, Top.pi)
  BY <1>2, FrameFields DEF FrameInv
<1>4. m \in Memories /\ m \in FedFrom(n) /\ GoodIn(Known, m, Top.pi)
  <2>1. m \in FedFrom(n)
    BY <1>3 DEF FedFrom
  <2>2. Descendents[n] \in Seq(Memories)
    BY <1>3, WiredNodes, NetworkAssumption
  <2>3. m \in Memories
    BY <1>3, <2>2
  <2> HIDE DEF m, n
  <2>4. LeavesAt[m] = Leaves[n] /\ TestsAt[m] = Tests[n]
    BY <1>3, <2>1, LeavesAssumption
  <2> QED  BY <1>3, <2>1, <2>3, <2>4 DEF GoodAt, GoodIn
<1>5. mems \in [Memories -> SUBSET Partial]
  BY <1>3, <1>4 DEF Inv, TypeOK
<1>6. \A k \in Memories : \A y \in mems[k] : GoodIn(Known, k, y)
  <2> SUFFICES ASSUME NEW k \in Memories, NEW y \in mems[k]
               PROVE  GoodIn(Known, k, y)
    OBVIOUS
  <2>1. CASE y \in memories[k]
    BY <2>1 DEF Inv, PartialSolutions, MemoriesGood
  <2>2. CASE k = m /\ y = Top.pi
    BY <2>2, <1>3, <1>4
  <2> QED  BY <2>1, <2>2 DEF Inv, TypeOK
<1>7. Propagate(m, n, Top.pi, mems) \in Seq(Held(Known))
  BY <1>3, <1>4, <1>5, <1>6, PropagateHeld
<1>8. stack' \in Seq(Held(Known))
  BY <1>1, <1>2, <1>7, TakeFramesGood
<1>9. Known' = Known
  BY DEF ActivateStep, facts, Known
<1>10. MemoriesGood(Known)'
  BY <1>1, <1>6, <1>9 DEF MemoriesGood
<1> QED  BY <1>8, <1>9, <1>10, FramesStay DEF PartialSolutions

LEMMA JoinStepInv ==
    ASSUME Inv, JoinStep
    PROVE  PartialSolutions'
<1>1. PICK pi \in Top.todo : Take(pi, <<Activate(Top.node, pi)>>)
  BY DEF JoinStep
<1>2. /\ FramesGood(Known) /\ stack # <<>> /\ Top \in Frame
      /\ FrameInv(Known, Top) /\ Top.op = "join"
  BY TopHeld DEF JoinStep
<1>3. Top.node \in Wired /\ GoodAt(Known, Top.node, pi)
  BY <1>2, FrameFields, WiredNodes DEF FrameInv
<1>4. <<Activate(Top.node, pi)>> \in Seq(Held(Known))
  <2>1. Activate(Top.node, pi) \in Held(Known)
    BY <1>3, ActivateHeld
  <2> QED  BY <2>1
<1>5. stack' \in Seq(Held(Known))
  BY <1>1, <1>2, <1>4, TakeFramesGood
<1>6. Known' = Known /\ UNCHANGED memories
  BY DEF JoinStep, facts, Known
<1> QED  BY <1>5, <1>6, FramesStay, MemoriesStay DEF Inv, PartialSolutions

LEMMA FireConsequentInv ==
    ASSUME Inv, FireConsequent
    PROVE  PartialSolutions'
<1>1. PICK nu \in NewBlanks(Top.node) :
          stack' = <<Fire(Top.node, Top.pi, nu)>> \o Tail(stack)
  BY DEF FireConsequent
<1>2. /\ FramesGood(Known) /\ stack # <<>> /\ Top \in Frame
      /\ FrameInv(Known, Top) /\ Top.op = "activate"
  BY TopHeld DEF FireConsequent
<1>3. Top.node \in BetaNodes /\ GoodAt(Known, Top.node, Top.pi)
  BY <1>2 DEF FireConsequent, Terminals, FrameInv
<1>4. nu \in [Existentials[Top.node] -> Blank]
  BY DEF NewBlanks
<1>5. Fire(Top.node, Top.pi, nu) \in Held(Known)
  BY <1>3, <1>4, FireHeld
<1>6. <<Fire(Top.node, Top.pi, nu)>> \in Seq(Held(Known))
  BY <1>5
<1>7. stack' \in Seq(Held(Known))
  BY <1>1, <1>2, <1>6, HeadTailProperties, ConcatProperties DEF FramesGood
<1>8. Known' = Known /\ UNCHANGED memories
  BY DEF FireConsequent, facts, Known
<1> QED  BY <1>7, <1>8, FramesStay, MemoriesStay DEF Inv, PartialSolutions

LEMMA FireStepInv ==
    ASSUME Inv, FireStep
    PROVE  PartialSolutions'
<1>1. PICK rhs \in Top.todo : \/ Take(rhs, <<>>)
                              \/ Take(rhs, <<Substitute(Top.node, Top.pi, rhs)>>)
  BY DEF FireStep
<1>2. /\ FramesGood(Known) /\ stack # <<>> /\ Top \in Frame
      /\ FrameInv(Known, Top) /\ Top.op = "fire"
  BY TopHeld DEF FireStep
<1>3. /\ Top.node \in BetaNodes /\ GoodAt(Known, Top.node, Top.pi)
      /\ rhs \in Pattern /\ HeadOf(Top.node, rhs)
  BY <1>2, FrameFields DEF FrameInv
<1>4. Substitute(Top.node, Top.pi, rhs) \in Held(Known)
  BY <1>3, SubstituteHeld
<1>5. /\ <<>> \in Seq(Held(Known))
      /\ <<Substitute(Top.node, Top.pi, rhs)>> \in Seq(Held(Known))
  BY <1>4
<1>6. stack' \in Seq(Held(Known))
  BY <1>1, <1>2, <1>5, TakeFramesGood
<1>7. Known' = Known /\ UNCHANGED memories
  BY DEF FireStep, facts, Known
<1> QED  BY <1>6, <1>7, FramesStay, MemoriesStay DEF Inv, PartialSolutions

LEMMA SkipStepInv ==
    ASSUME Inv, SkipStep
    PROVE  PartialSolutions'
<1>1. PICK theta : Take(theta, <<>>)
  BY DEF SkipStep
<1>2. FramesGood(Known) /\ stack # <<>>
  BY TopHeld DEF SkipStep
<1>3. <<>> \in Seq(Held(Known))
  OBVIOUS
<1>4. stack' \in Seq(Held(Known))
  BY <1>1, <1>2, <1>3, TakeFramesGood
<1>5. Known' = Known /\ UNCHANGED memories
  BY DEF SkipStep, facts, Known
<1> QED  BY <1>4, <1>5, FramesStay, MemoriesStay DEF Inv, PartialSolutions

\* What InferStep does, and what the frame it does it in guarantees.
LEMMA InferStepFacts ==
    ASSUME Inv, InferStep
    PROVE  \E theta \in Top.todo :
              LET t == Inst(Top.rhs, theta)
              IN  /\ Ground(t) /\ t \in Triple
                  /\ Top.node \in BetaNodes /\ Top.rhs \in Pattern
                  /\ HeadOf(Top.node, Top.rhs)
                  /\ SolvesAt(Known, Top.node, theta)
                  /\ UNCHANGED <<working_memory, memories>>
                  /\ \/ /\ t \notin Known
                        /\ inferred_facts' = inferred_facts \cup {t}
                        /\ Take(theta, <<AddWme(t), Conclude(Top.node, Top.rhs, t)>>)
                     \/ UNCHANGED inferred_facts /\ Take(theta, <<>>)
<1>1. PICK theta \in Top.todo :
          LET t == Inst(Top.rhs, theta)
          IN  /\ Ground(t)
              /\ \/ /\ IsNew(t)
                    /\ inferred_facts' = inferred_facts \cup {t}
                    /\ Take(theta, <<AddWme(t), Conclude(Top.node, Top.rhs, t)>>)
                 \/ UNCHANGED inferred_facts /\ Take(theta, <<>>)
  BY DEF InferStep
<1> DEFINE t == Inst(Top.rhs, theta)
<1>2. Top \in Frame /\ FrameInv(Known, Top) /\ Top.op = "substitute"
  BY TopHeld DEF InferStep
<1>3. /\ Top.node \in BetaNodes /\ Top.rhs \in Pattern /\ theta \in Substitution
      /\ HeadOf(Top.node, Top.rhs) /\ SolvesAt(Known, Top.node, theta)
  BY <1>2, FrameFields DEF FrameInv
<1>4. t \in Triple
  <2>1. \A v \in DOMAIN theta : theta[v] \in Term
    BY <1>3 DEF Substitution
  <2> QED  BY <1>1, <1>3, <2>1, InstType
<1>5. IsNew(t) => t \notin Known
  BY DEF IsNew, Known
<1> QED  BY <1>1, <1>3, <1>4, <1>5 DEF InferStep

LEMMA InferStepInv ==
    ASSUME Inv, InferStep
    PROVE  PartialSolutions'
<1>1. PICK theta \in Top.todo :
          LET t == Inst(Top.rhs, theta)
          IN  /\ t \in Triple /\ Top.node \in BetaNodes /\ Top.rhs \in Pattern
              /\ UNCHANGED <<working_memory, memories>>
              /\ \/ /\ inferred_facts' = inferred_facts \cup {t}
                    /\ Take(theta, <<AddWme(t), Conclude(Top.node, Top.rhs, t)>>)
                 \/ UNCHANGED inferred_facts /\ Take(theta, <<>>)
  BY InferStepFacts
<1> DEFINE t == Inst(Top.rhs, theta)
           calling == <<AddWme(t), Conclude(Top.node, Top.rhs, t)>>
<1>2. FramesGood(Known) /\ stack # <<>>
  BY TopHeld DEF InferStep
<1>3. Known \subseteq Known'
  BY <1>1 DEF Known
<1>4. FramesGood(Known')
  BY <1>2, <1>3, HeldMonotone, SeqMonotonic DEF FramesGood
<1>5. <<>> \in Seq(Held(Known'))
  OBVIOUS
<1>6. ASSUME inferred_facts' = inferred_facts \cup {t}, Take(theta, calling)
      PROVE  stack' \in Seq(Held(Known'))
  <2>1. t \in Known'
    BY <1>6 DEF Known
  <2>2. AddWme(t) \in Held(Known') /\ Conclude(Top.node, Top.rhs, t) \in Held(Known')
    BY <1>1, <2>1, AddWmeHeld, ConcludeHeld
  <2>3. calling \in Seq(Held(Known'))
    BY <2>2
  <2> QED  BY <1>2, <1>4, <1>6, <2>3, TakeFramesGood
<1>7. ASSUME Take(theta, <<>>)
      PROVE  stack' \in Seq(Held(Known'))
  BY <1>2, <1>4, <1>5, <1>7, TakeFramesGood
<1>8. stack' \in Seq(Held(Known'))
  BY <1>1, <1>6, <1>7
<1>9. FramesGood(Known)'
  BY <1>8 DEF FramesGood
<1>10. MemoriesGood(Known)'
  BY <1>1, <1>3, MemoriesStay DEF Inv, PartialSolutions
<1> QED  BY <1>9, <1>10 DEF PartialSolutions

LEMMA PopInv ==
    ASSUME Inv, stack # <<>>, stack' \in {<<>>, Tail(stack)},
           UNCHANGED <<facts, memories>>
    PROVE  PartialSolutions'
<1>1. stack \in Seq(Held(Known))
  BY DEF Inv, PartialSolutions, FramesGood
<1>2. <<>> \in Seq(Held(Known)) /\ Tail(stack) \in Seq(Held(Known))
  BY <1>1, HeadTailProperties
<1>3. Known' = Known
  BY DEF facts, Known
<1> QED  BY <1>2, <1>3, FramesStay, MemoriesStay DEF Inv, PartialSolutions

LEMMA StutterInv ==
    ASSUME Inv, UNCHANGED <<facts, memories, stack>>
    PROVE  PartialSolutions'
<1>1. Known' = Known
  BY DEF facts, Known
<1> QED  BY <1>1, FramesStay, MemoriesStay DEF Inv, PartialSolutions, FramesGood

LEMMA UnifyNever == Inv /\ UnifyStep => FALSE
BY TopHeld DEF UnifyStep, FrameInv

LEMMA InvAlways == Spec => []Inv
<1>1. Init => PartialSolutions
  BY DEF Init, PartialSolutions, MemoriesGood, FramesGood
<1>2. Inv /\ [Next]_vars => PartialSolutions'
  <2> SUFFICES ASSUME Inv, [Next]_vars PROVE PartialSolutions'
    OBVIOUS
  <2>1. CASE ConcludeStep
    BY <2>1, PopInv DEF ConcludeStep, In
  <2>2. CASE Return
    BY <2>2, PopInv DEF Return, Idle
  <2>3. CASE Step
    BY <2>1, <2>2, <2>3, AddWmeStepInv, ActivateStepInv, JoinStepInv, UnifyNever,
       FireConsequentInv, FireStepInv, SkipStepInv, InferStepInv DEF Step
  <2>4. ASSUME NEW w \in Facts, Feed(w) PROVE PartialSolutions'
    BY <2>4, FeedInv
  <2>5. ASSUME NEW g \in Targets, Reset(g) PROVE PartialSolutions'
    BY <2>5, ResetInv
  <2>6. ASSUME NEW reg \in Registrations, RegisterAction(reg)
        PROVE  PartialSolutions'
    BY <2>6, StutterInv DEF RegisterAction
  <2>7. CASE UNCHANGED vars
    BY <2>7, StutterInv DEF vars
  <2> QED  BY <2>3, <2>4, <2>5, <2>6, <2>7 DEF Next
<1>3. TypeOK /\ PartialSolutions /\ [Next]_vars => PartialSolutions'
  BY <1>2 DEF Inv
<1> QED  BY <1>1, <1>3, TypeCorrect, PTL DEF Spec, Inv

\* No memory and no call in progress holds anything but partial solutions of
\* the patterns above it, over facts that are known, whatever add_wme and
\* fire_consequent are in the middle of.
THEOREM OnlyPartialSolutions == Spec => []PartialSolutions
BY InvAlways, PTL DEF Inv
-----------------------------------------------------------------------------
(***************************************************************************)
(* Every step of the network is a step of forward chaining, or none.       *)
(***************************************************************************)

\* h is the head of the rule r, its existentials replaced.
HeadInstance(r, h) == \E nu \in [r.exists -> Blank] : h = Inst(r.head, nu)

\* A binding that solves the patterns below a terminal node solves the body of
\* one of its rules, and a triple it instantiates is that rule's head.
LEMMA RuleSolved ==
    ASSUME NEW K, NEW b \in BetaNodes, NEW rhs, HeadOf(b, rhs),
           NEW theta, SolvesAt(K, b, theta)
    PROVE  \E r \in Rules : /\ r.head \in Consequent[b]
                            /\ theta \in Solutions(r, K)
                            /\ HeadInstance(r, rhs)
<1>1. PICK h \in Consequent[b], nu \in [Existentials[b] -> Blank] :
          rhs = Inst(h, nu)
  BY DEF HeadOf
<1>2. PICK r \in Rules : /\ r.body = {PatternOf[a] : a \in Leaves[b]}
                         /\ r.guards = Tests[b] /\ r.head = h
                         /\ r.exists = Existentials[b] \cap VarsOf(h)
  BY RulesAssumption
<1> DEFINE mu == [x \in r.exists |-> nu[x]]
<1>3. mu \in [r.exists -> Blank]
  BY <1>2
<1>4. rhs = Inst(r.head, mu)
  <2>1. \A i \in Place : h[i] \in Existentials[b] => h[i] \in r.exists
    BY <1>2, NetworkAssumption DEF VarsOf
  <2>2. \A i \in Place : Inst(h, mu)[i] = Inst(h, nu)[i]
    BY <1>2, <2>1 DEF Inst, Place
  <2> QED  BY <1>1, <1>2, <2>2 DEF Inst, Place
<1>5. theta \in Solutions(r, K)
  <2>1. BodyVars(r) = VarsAt(Leaves[b])
    BY <1>2 DEF BodyVars, VarsAt
  <2>2. \A p \in r.body : Inst(p, theta) \in K
    BY <1>2 DEF SolvesAt, Solves
  <2>3. \A g \in r.guards : Holds(g, theta)
    BY <1>2 DEF SolvesAt, Solves
  <2> QED  BY <1>2, <2>1, <2>2, <2>3 DEF Solutions, SolvesAt, Solves
<1> HIDE DEF mu
<1> QED  BY <1>2, <1>3, <1>4, <1>5 DEF HeadInstance

\* The rule concludes that triple once it is ground.
LEMMA RuleApplies ==
    ASSUME NEW K, NEW b \in BetaNodes, NEW rhs, HeadOf(b, rhs),
           NEW theta, SolvesAt(K, b, theta), Ground(Inst(rhs, theta))
    PROVE  \E r \in Rules : Inst(rhs, theta) \in FC!Conclusions(r, K)
<1>1. PICK r \in Rules : /\ theta \in Solutions(r, K)
                         /\ HeadInstance(r, rhs)
  BY RuleSolved
<1>2. PICK nu \in [r.exists -> Blank] : rhs = Inst(r.head, nu)
  BY <1>1 DEF HeadInstance
<1>3. theta \in FC!Solutions(r, K)
  BY <1>1 DEF Solutions, BodyVars, VarsOf, Inst, Holds, Place, FC!Solutions,
     FC!BodyVars, FC!VarsOf, FC!Inst, FC!Holds, FC!Place
<1>4. /\ Inst(rhs, theta) = FC!Inst(FC!Inst(r.head, nu), theta)
      /\ FC!Ground(Inst(rhs, theta))
  BY <1>2 DEF FC!Inst, FC!Place, FC!Ground, Inst, Place, Ground
<1> QED  BY <1>2, <1>3, <1>4 DEF FC!Conclusions

\* The network implements forward chaining: a triple enters inferred_facts
\* only as the conclusion of a rule from facts known at that moment, however
\* deep fire_consequent and add_wme are nested when it does.
THEOREM Soundness == Spec => Sound
<1>1. Init => FC!FCInit
  BY DEF Init, FC!FCInit
<1>2. Inv /\ [Next]_vars => [FC!FCNext]_(FC!fcvars)
  <2> SUFFICES ASSUME Inv, [Next]_vars
               PROVE  FC!FCNext \/ UNCHANGED <<working_memory, inferred_facts>>
    BY DEF FC!fcvars
  <2>1. ASSUME NEW w \in Facts, Feed(w) PROVE FC!FCNext
    BY <2>1 DEF Feed, FC!FCNext, FC!Assert
  <2>2. ASSUME NEW g \in Targets, Reset(g) PROVE FC!FCNext
    BY <2>2 DEF Reset, FC!FCNext, FC!Forget
  <2>3. CASE InferStep
    <3>1. PICK theta \in Top.todo :
              LET t == Inst(Top.rhs, theta)
              IN  /\ Ground(t) /\ Top.node \in BetaNodes
                  /\ HeadOf(Top.node, Top.rhs)
                  /\ SolvesAt(Known, Top.node, theta)
                  /\ UNCHANGED working_memory
                  /\ \/ t \notin Known /\ inferred_facts' = inferred_facts \cup {t}
                     \/ UNCHANGED inferred_facts
      BY <2>3, InferStepFacts
    <3>2. PICK r \in Rules :
              Inst(Top.rhs, theta) \in FC!Conclusions(r, Known)
      BY <3>1, RuleApplies
    <3>3. Known = FC!Known
      BY DEF Known, FC!Known
    <3> QED  BY <3>1, <3>2, <3>3 DEF FC!FCNext, FC!Infer
  <2>4. CASE Step /\ ~InferStep
    BY <2>4 DEF Step, AddWmeStep, ActivateStep, JoinStep, UnifyStep,
       FireConsequent, FireStep, SkipStep, ConcludeStep, Return, facts
  <2>5. ASSUME NEW reg \in Registrations, RegisterAction(reg)
        PROVE  UNCHANGED <<working_memory, inferred_facts>>
    BY <2>5 DEF RegisterAction, facts
  <2>6. CASE UNCHANGED vars
    BY <2>6 DEF vars, facts
  <2> QED  BY <2>1, <2>2, <2>3, <2>4, <2>5, <2>6 DEF Next
<1> QED  BY <1>1, <1>2, InvAlways, PTL DEF Spec, Sound, FC!FCSpec
-----------------------------------------------------------------------------
(***************************************************************************)
(* What is recorded for proofs stays a proof.                              *)
(***************************************************************************)

\* Facts that are added take no solution away.
LEMMA SolutionsMonotone ==
    ASSUME NEW r, NEW K, NEW K2, K \subseteq K2
    PROVE  Solutions(r, K) \subseteq Solutions(r, K2)
BY DEF Solutions

\* The pair <<t, theta>> is explained by a rule and a justification.
Explained(K, because, t, theta) ==
    \E r \in Rules, pair \in because :
        /\ pair[1] = t /\ r.head \in Consequent[pair[2]]
        /\ theta \in Solutions(r, K)
        /\ \E nu \in [r.exists -> Blank] : t = Inst(Inst(r.head, nu), theta)

TracersHold(K, because, tracers) ==
    \A t \in {pair[1] : pair \in tracers} :
        \A theta \in {pair[2] : pair \in {p \in tracers : p[1] = t}} :
            Explained(K, because, t, theta)

LEMMA TracersExplained ==
    ASSUME NEW K, NEW J, NEW P \in SUBSET (Triple \X Substitution)
    PROVE  TracersHold(K, J, P) <=>
              \A t, theta : <<t, theta>> \in P => Explained(K, J, t, theta)
<1>1. \A p \in P : p = <<p[1], p[2]>>
  OBVIOUS
<1>2. ASSUME NEW t, NEW theta
      PROVE  <<t, theta>> \in P <=>
                /\ t \in {p[1] : p \in P}
                /\ theta \in {p[2] : p \in {o \in P : o[1] = t}}
  BY <1>1
<1> QED  BY <1>2 DEF TracersHold

LEMMA ExplainedStays ==
    ASSUME NEW K, NEW K2, K \subseteq K2, NEW J, NEW J2, J \subseteq J2,
           NEW t, NEW theta, Explained(K, J, t, theta)
    PROVE  Explained(K2, J2, t, theta)
BY SolutionsMonotone DEF Explained

\* A step that records nothing and forgets no fact.
LEMMA TracersStay ==
    ASSUME TypeOK, TracersAreSolutions, Known \subseteq Known',
           UNCHANGED <<justifications, proof_tracers>>
    PROVE  TracersAreSolutions'
<1>1. proof_tracers \subseteq Triple \X Substitution
  BY DEF TypeOK
<1>2. TracersHold(Known, justifications, proof_tracers)
  BY Zenon DEF TracersAreSolutions, TracersHold, Explained
<1>3. TracersHold(Known', justifications', proof_tracers')
  BY <1>1, <1>2, TracersExplained, ExplainedStays
<1> QED  BY <1>3, Zenon DEF TracersAreSolutions, TracersHold, Explained

\* fire_consequent records a binding and its terminal node together.
LEMMA InferStepTracers ==
    ASSUME Inv, TypeOK', TracersAreSolutions, InferStep
    PROVE  TracersAreSolutions'
<1>1. TypeOK /\ stack # <<>>
  BY DEF Inv, InferStep, In
<1> DEFINE b == Top.node
<1>2. PICK theta \in Top.todo :
          LET t == Inst(Top.rhs, theta)
          IN  /\ proof_tracers' = proof_tracers \cup {<<t, theta>>}
              /\ justifications' = justifications \cup {<<t, b>>}
              /\ Known \subseteq Known'
  BY DEF InferStep, Known
<1> DEFINE t == Inst(Top.rhs, theta)
<1>3. /\ b \in BetaNodes /\ HeadOf(b, Top.rhs) /\ SolvesAt(Known, b, theta)
  BY TopHeld, FrameFields DEF InferStep, FrameInv
<1>4. PICK r \in Rules : /\ r.head \in Consequent[b]
                         /\ theta \in Solutions(r, Known)
                         /\ HeadInstance(r, Top.rhs)
  BY <1>3, RuleSolved
<1>5. Explained(Known, {<<t, b>>}, t, theta)
  BY <1>4 DEF Explained, HeadInstance
<1>6. Explained(Known', justifications', t, theta)
  BY <1>2, <1>5, ExplainedStays
<1>7. TracersHold(Known, justifications, proof_tracers)
  BY Zenon DEF TracersAreSolutions, TracersHold, Explained
<1>8. /\ proof_tracers \subseteq Triple \X Substitution
      /\ proof_tracers' \subseteq Triple \X Substitution
  BY <1>1 DEF TypeOK
<1>9. \A u, phi : <<u, phi>> \in proof_tracers'
          => Explained(Known', justifications', u, phi)
  BY <1>2, <1>6, <1>7, <1>8, TracersExplained, ExplainedStays
<1>10. TracersHold(Known', justifications', proof_tracers')
  BY <1>8, <1>9, TracersExplained
<1> QED  BY <1>10, Zenon DEF TracersAreSolutions, TracersHold, Explained

\* Each binding proof_tracers holds for a triple solves the body of a rule of
\* a terminal node that justifies it, over facts that are known: whatever is
\* inferred later, and whatever is reset, the recorded step of a proof is one.
THEOREM TracersSolve == Spec => []TracersAreSolutions
<1>1. Init => TracersAreSolutions
  BY DEF Init, TracersAreSolutions
<1>2. Inv /\ Inv' /\ TracersAreSolutions /\ [Next]_vars => TracersAreSolutions'
  <2> SUFFICES ASSUME Inv, Inv', TracersAreSolutions, [Next]_vars
               PROVE  TracersAreSolutions'
    OBVIOUS
  <2>1. TypeOK /\ TypeOK'
    BY DEF Inv
  <2>2. CASE InferStep
    BY <2>1, <2>2, InferStepTracers
  <2>3. CASE \E g \in Targets : Reset(g)
    BY <2>3 DEF Reset, TracersAreSolutions
  <2>4. CASE /\ Known \subseteq Known'
             /\ UNCHANGED <<justifications, proof_tracers>>
    BY <2>1, <2>4, TracersStay
  <2>5. ASSUME NEW w \in Facts, Feed(w)
        PROVE  Known \subseteq Known' /\ UNCHANGED <<justifications, proof_tracers>>
    BY <2>5 DEF Feed, Known, notes
  <2>6. ASSUME NEW reg \in Registrations, RegisterAction(reg)
        PROVE  Known \subseteq Known' /\ UNCHANGED <<justifications, proof_tracers>>
    BY <2>6 DEF RegisterAction, Known, facts, notes
  <2>7. CASE Step /\ ~InferStep
    <3>1. UNCHANGED <<facts, justifications, proof_tracers>>
      BY <2>7 DEF Step, AddWmeStep, ActivateStep, JoinStep, UnifyStep,
         FireConsequent, FireStep, SkipStep, ConcludeStep, Return, notes
    <3> QED  BY <3>1, <2>4 DEF facts, Known
  <2>8. CASE UNCHANGED vars
    BY <2>4, <2>8 DEF vars, facts, notes, Known
  <2> QED  BY <2>2, <2>3, <2>4, <2>5, <2>6, <2>7, <2>8 DEF Next
<1> QED  BY <1>1, <1>2, InvAlways, PTL DEF Spec
=============================================================================
