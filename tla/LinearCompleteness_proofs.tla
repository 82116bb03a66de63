---------------------- MODULE LinearCompleteness_proofs ----------------------
(***************************************************************************)
(* Completeness of linear networks: when a feed has come back and no goal  *)
(* cut it short, every rule has concluded all it can from what is known,   *)
(* for every program, every set of facts and every order of propagation.   *)
(***************************************************************************)
EXTENDS LinearCompleteness, LinearNetwork_proofs

(***************************************************************************)
(* What is owed stays owed until it is paid.                               *)
(***************************************************************************)

\* g is the call f, its loop at another place.
Same(f, g) == /\ g.op = f.op
              /\ f.op = "add_wme" => g.wme = f.wme
              /\ f.op # "add_wme" => g.node = f.node
              /\ f.op \in {"activate", "fire"} => g.pi = f.pi
              /\ f.op = "substitute" => g.rhs = f.rhs

\* The item x of the loop of f has had its effect, but for the calls P.
Paid(P, M, K, f, x) ==
    /\ f.op = "add_wme" =>
          Reached(P, M, K, AlphaOrder[x], {TokenOf(AlphaOrder[x], f.wme)})
    /\ f.op = "activate" => f.pi \in M[Descendents[f.node][x]]
    /\ f.op = "join" => Reached(P, M, K, f.node, x)
    /\ f.op = "fire" =>
          \A h \in Consequent[f.node], nu \in [Existentials[f.node] -> Blank] :
              x = Inst(h, nu) =>
                  \A theta \in Bindings(f.pi) : Concluded(P, K, f.node, h, theta)
    /\ f.op = "substitute" => Inst(f.rhs, x) \in K

\* The calls P2 go on with the calls P: every item is still to be done or has
\* been, and every activation is in progress or has fired.
Continues(P, P2, M2, K2) ==
    /\ \A f \in P : \A x \in f.todo :
          \/ \E g \in P2 : Same(f, g) /\ x \in g.todo
          \/ Paid(P2, M2, K2, f, x)
    /\ \A f \in P : f.op = "activate" =>
          \/ \E g \in P2 : Same(f, g)
          \/ f.node \in BetaNodes =>
                \A h \in Consequent[f.node] : Fired(P2, K2, f.node, f.pi, h)

Grows(M, M2) == \A m \in Memories : M[m] \subseteq M2[m]

LEMMA DeliveredStays ==
    ASSUME NEW P, NEW P2, NEW M, NEW M2, NEW K2, Continues(P, P2, M2, K2),
           Grows(M, M2), NEW n \in Nodes, NEW pi, NEW i \in DOMAIN Descendents[n],
           Delivered(P, M, n, pi, i)
    PROVE  Delivered(P2, M2, n, pi, i)
<1>1. Descendents[n][i] \in Memories
  BY NetworkAssumption
<1>2. CASE pi \in M[Descendents[n][i]]
  BY <1>1, <1>2 DEF Grows, Delivered
<1>3. ASSUME NEW f \in P, f.op = "activate", f.node = n, f.pi = pi, i \in f.todo
      PROVE  Delivered(P2, M2, n, pi, i)
  <2>1. \/ \E g \in P2 : Same(f, g) /\ i \in g.todo
        \/ Paid(P2, M2, K2, f, i)
    BY <1>3 DEF Continues
  <2> QED  BY <1>3, <2>1 DEF Same, Paid, Delivered
<1> QED  BY <1>2, <1>3 DEF Delivered

LEMMA ConcludedStays ==
    ASSUME NEW P, NEW P2, NEW M2, NEW K, NEW K2, Continues(P, P2, M2, K2),
           K \subseteq K2, NEW b, NEW h, NEW theta, Concluded(P, K, b, h, theta)
    PROVE  Concluded(P2, K2, b, h, theta)
<1>1. PICK nu \in [Existentials[b] -> Blank] :
          \/ Inst(Inst(h, nu), theta) \in K
          \/ \E f \in P : /\ f.op = "substitute" /\ f.node = b
                          /\ f.rhs = Inst(h, nu) /\ theta \in f.todo
  BY DEF Concluded
<1>2. CASE Inst(Inst(h, nu), theta) \in K
  BY <1>2 DEF Concluded
<1>3. ASSUME NEW f \in P, f.op = "substitute", f.node = b, f.rhs = Inst(h, nu),
             theta \in f.todo
      PROVE  Concluded(P2, K2, b, h, theta)
  <2>1. \/ \E g \in P2 : Same(f, g) /\ theta \in g.todo
        \/ Paid(P2, M2, K2, f, theta)
    BY <1>3 DEF Continues
  <2> QED  BY <1>3, <2>1 DEF Same, Paid, Concluded
<1> QED  BY <1>1, <1>2, <1>3

LEMMA FiredStays ==
    ASSUME NEW P, NEW P2, NEW M2, NEW K, NEW K2, Continues(P, P2, M2, K2),
           K \subseteq K2, NEW b \in BetaNodes, NEW pi, NEW h \in Consequent[b],
           Fired(P, K, b, pi, h)
    PROVE  Fired(P2, K2, b, pi, h)
<1>1. ASSUME NEW f \in P, f.op = "activate", f.node = b, f.pi = pi
      PROVE  Fired(P2, K2, b, pi, h)
  <2>1. (\E g \in P2 : Same(f, g)) \/ Fired(P2, K2, b, pi, h)
    BY <1>1 DEF Continues
  <2> QED  BY <1>1, <2>1 DEF Same, Fired
<1>2. ASSUME NEW f \in P, NEW nu \in [Existentials[b] -> Blank],
             f.op = "fire", f.node = b, f.pi = pi, Inst(h, nu) \in f.todo
      PROVE  Fired(P2, K2, b, pi, h)
  <2>1. \/ \E g \in P2 : Same(f, g) /\ Inst(h, nu) \in g.todo
        \/ Paid(P2, M2, K2, f, Inst(h, nu))
    BY <1>2 DEF Continues
  <2>2. CASE \E g \in P2 : Same(f, g) /\ Inst(h, nu) \in g.todo
    BY <1>2, <2>2 DEF Same, Fired
  <2>3. CASE Paid(P2, M2, K2, f, Inst(h, nu))
    BY <1>2, <2>3 DEF Paid, Fired
  <2> QED  BY <2>1, <2>2, <2>3
<1>3. CASE \A theta \in Bindings(pi) : Concluded(P, K, b, h, theta)
  <2>1. \A theta \in Bindings(pi) : Concluded(P2, K2, b, h, theta)
    BY <1>3, ConcludedStays
  <2> QED  BY <2>1 DEF Fired
<1> QED  BY <1>1, <1>2, <1>3 DEF Fired

LEMMA ReachedStays ==
    ASSUME NEW P, NEW P2, NEW M, NEW M2, NEW K, NEW K2, Continues(P, P2, M2, K2),
           Grows(M, M2), K \subseteq K2, NEW n \in Nodes, NEW pi,
           Reached(P, M, K, n, pi)
    PROVE  Reached(P2, M2, K2, n, pi)
<1>1. \A i \in DOMAIN Descendents[n] : Delivered(P2, M2, n, pi, i)
  BY DeliveredStays DEF Reached
<1>2. n \in BetaNodes => \A h \in Consequent[n] : Fired(P2, K2, n, pi, h)
  BY FiredStays DEF Reached
<1> QED  BY <1>1, <1>2 DEF Reached

LEMMA DueStays ==
    ASSUME NEW P, NEW P2, NEW M, NEW M2, NEW K, NEW K2, Continues(P, P2, M2, K2),
           Grows(M, M2), K \subseteq K2, NEW b \in BetaNodes, NEW pi,
           Due(P, M, K, b, pi)
    PROVE  Due(P2, M2, K2, b, pi)
<1>1. CASE Reached(P, M, K, b, pi)
  BY <1>1, ReachedStays DEF Due, Nodes
<1>2. ASSUME NEW f \in P, f.op = "join", f.node = b, pi \in f.todo
      PROVE  Due(P2, M2, K2, b, pi)
  <2>1. \/ \E g \in P2 : Same(f, g) /\ pi \in g.todo
        \/ Paid(P2, M2, K2, f, pi)
    BY <1>2 DEF Continues
  <2> QED  BY <1>2, <2>1 DEF Same, Paid, Due
<1> QED  BY <1>1, <1>2 DEF Due

LEMMA HeededStays ==
    ASSUME NEW P, NEW P2, NEW M, NEW M2, NEW K, NEW K2, Continues(P, P2, M2, K2),
           Grows(M, M2), K \subseteq K2, NEW w, Heeded(P, M, K, w)
    PROVE  Heeded(P2, M2, K2, w)
<1> SUFFICES ASSUME NEW i \in DOMAIN AlphaOrder, Matches(PatternOf[AlphaOrder[i]], w)
             PROVE  \/ Reached(P2, M2, K2, AlphaOrder[i], {TokenOf(AlphaOrder[i], w)})
                    \/ \E f \in P2 : f.op = "add_wme" /\ f.wme = w /\ i \in f.todo
  BY DEF Heeded
<1>1. AlphaOrder[i] \in Nodes
  BY NetworkAssumption DEF Nodes
<1>2. CASE Reached(P, M, K, AlphaOrder[i], {TokenOf(AlphaOrder[i], w)})
  BY <1>1, <1>2, ReachedStays
<1>3. ASSUME NEW f \in P, f.op = "add_wme", f.wme = w, i \in f.todo
      PROVE  \/ Reached(P2, M2, K2, AlphaOrder[i], {TokenOf(AlphaOrder[i], w)})
             \/ \E g \in P2 : g.op = "add_wme" /\ g.wme = w /\ i \in g.todo
  <2>1. \/ \E g \in P2 : Same(f, g) /\ i \in g.todo
        \/ Paid(P2, M2, K2, f, i)
    BY <1>3 DEF Continues
  <2> QED  BY <1>3, <2>1 DEF Same, Paid
<1> QED  BY <1>2, <1>3 DEF Heeded

\* Calls that go on with those in progress owe no less to the facts and the
\* matches there were: only what is new has to be looked after.
LEMMA OwedStays ==
    ASSUME NEW P, NEW P2, NEW M, NEW M2, NEW K, NEW K2, Continues(P, P2, M2, K2),
           Grows(M, M2), K \subseteq K2, EveryFact(P, M, K), EveryMatch(P, M, K),
           \A w \in K2 \ K : Heeded(P2, M2, K2, w),
           \A b \in BetaNodes : \A pi \in Matching(M2, b) \ Matching(M, b) :
               Due(P2, M2, K2, b, pi)
    PROVE  EveryFact(P2, M2, K2) /\ EveryMatch(P2, M2, K2)
<1>1. \A w \in K : Heeded(P2, M2, K2, w)
  BY HeededStays DEF EveryFact
<1>2. \A b \in BetaNodes : \A pi \in Matching(M, b) : Due(P2, M2, K2, b, pi)
  BY DueStays DEF EveryMatch
<1> QED  BY <1>1, <1>2 DEF EveryFact, EveryMatch
-----------------------------------------------------------------------------
(***************************************************************************)
(* The calls in progress after a step.                                     *)
(***************************************************************************)

LEMMA PushRange ==
    ASSUME NEW S, NEW stk \in Seq(S), stk # <<>>, NEW pushed \in Seq(S), NEW f \in S
    PROVE  /\ Range(pushed \o <<f>> \o Tail(stk)) = Range(pushed) \cup {f} \cup Range(Tail(stk))
           /\ Range(stk) = {Head(stk)} \cup Range(Tail(stk))
<1>1. Tail(stk) \in Seq(S) /\ Head(stk) \in S /\ <<f>> \in Seq(S)
  BY HeadTailProperties
<1>2. pushed \o <<f>> \in Seq(S)
  BY <1>1, ConcatProperties
<1>3. Range(pushed \o <<f>> \o Tail(stk)) = Range(pushed) \cup Range(<<f>>) \cup Range(Tail(stk))
  <2>1. Range((pushed \o <<f>>) \o Tail(stk))
          = Range(pushed \o <<f>>) \cup Range(Tail(stk))
    BY <1>1, <1>2, RangeConcatenation
  <2>2. Range(pushed \o <<f>>) = Range(pushed) \cup Range(<<f>>)
    BY <1>1, RangeConcatenation
  <2> QED  BY <2>1, <2>2
<1>4. Range(<<f>>) = {f}
  BY DEF Range
<1>5. stk = <<Head(stk)>> \o Tail(stk)
  BY HeadTailProperties
<1>6. <<Head(stk)>> \in Seq(S)
  BY <1>1
<1>7. Range(stk) = Range(<<Head(stk)>>) \cup Range(Tail(stk))
  BY <1>1, <1>5, <1>6, RangeConcatenation
<1>8. Range(<<Head(stk)>>) = {Head(stk)}
  BY DEF Range
<1> QED  BY <1>3, <1>4, <1>7, <1>8

\* The innermost loop moves on: its frame stays, the frames of its calls join.
LEMMA TakeInProgress ==
    ASSUME stack \in Seq(Frame), stack # <<>>, NEW x, NEW pushed \in Seq(Frame),
           Take(x, pushed)
    PROVE  /\ Range(pushed) \subseteq InProgress'
           /\ \A f \in InProgress : f = Top \/ f \in InProgress'
           /\ \E g \in InProgress' : Same(Top, g) /\ g.todo = Top.todo \ {x}
<1> DEFINE next == [Top EXCEPT !.todo = @ \ {x}]
<1>1. Top \in Frame
  BY HeadTailProperties DEF Top
<1>2. next \in Frame
  BY <1>1, TakeFrame
<1>3. stack' = pushed \o <<next>> \o Tail(stack)
  BY DEF Take
<1>4. Same(Top, next) /\ next.todo = Top.todo \ {x}
  BY <1>1, TakeFields DEF Same
<1> HIDE DEF next
<1>5. InProgress' = Range(pushed) \cup {next} \cup Range(Tail(stack))
  BY <1>2, <1>3, PushRange DEF InProgress
<1>6. InProgress = {Top} \cup Range(Tail(stack))
  BY <1>2, PushRange DEF InProgress, Top
<1> QED  BY <1>4, <1>5, <1>6

LEMMA TakeContinues ==
    ASSUME stack \in Seq(Frame), stack # <<>>, NEW x, NEW pushed \in Seq(Frame),
           Take(x, pushed), NEW M2, NEW K2, Paid(InProgress', M2, K2, Top, x)
    PROVE  Continues(InProgress, InProgress', M2, K2)
<1>1. \A f : Same(f, f)
  BY DEF Same
<1> QED  BY <1>1, TakeInProgress DEF Continues

\* A call the step makes is in progress after it.
LEMMA CallInProgress ==
    ASSUME stack \in Seq(Frame), stack # <<>>, NEW x, NEW call \in Frame,
           Take(x, <<call>>)
    PROVE  call \in InProgress'
<1>1. <<call>> \in Seq(Frame) /\ call \in Range(<<call>>)
  BY DEF Range
<1> QED  BY <1>1, TakeInProgress

\* The innermost call returns.
LEMMA PopContinues ==
    ASSUME stack \in Seq(Frame), stack # <<>>, stack' = Tail(stack), Top.todo = {},
           Top.op = "activate" => Top.node \notin Terminals,
           NEW M2, NEW K2
    PROVE  Continues(InProgress, InProgress', M2, K2)
<1>1. InProgress = {Top} \cup Range(Tail(stack)) /\ InProgress' = Range(Tail(stack))
  <2>1. <<>> \in Seq(Frame) /\ Top \in Frame
    BY HeadTailProperties DEF Top
  <2> QED  BY <2>1, PushRange DEF InProgress, Top
<1>2. \A f : Same(f, f)
  BY DEF Same
<1> QED  BY <1>1, <1>2 DEF Continues, Terminals

\* An activation in progress is all it takes to reach what is below.
LEMMA ActivatedReached ==
    ASSUME NEW P, NEW M, NEW K, NEW n, NEW pi, Activate(n, pi) \in P
    PROVE  Reached(P, M, K, n, pi)
<1>1. /\ Activate(n, pi).op = "activate" /\ Activate(n, pi).node = n
      /\ Activate(n, pi).pi = pi /\ Activate(n, pi).todo = DOMAIN Descendents[n]
  BY DEF Activate
<1>2. \A i \in DOMAIN Descendents[n] : Delivered(P, M, n, pi, i)
  BY <1>1 DEF Delivered
<1>3. \A h : Fired(P, K, n, pi, h)
  BY <1>1 DEF Fired
<1> QED  BY <1>2, <1>3 DEF Reached

\* A new fact that add_wme has been entered for.
LEMMA EnteredHeeded ==
    ASSUME NEW P, NEW M, NEW K, NEW w, AddWme(w) \in P
    PROVE  Heeded(P, M, K, w)
<1>1. /\ AddWme(w).op = "add_wme" /\ AddWme(w).wme = w
      /\ AddWme(w).todo = {i \in DOMAIN AlphaOrder : Matches(PatternOf[AlphaOrder[i]], w)}
  BY DEF AddWme
<1> QED  BY <1>1 DEF Heeded

\* A step of the innermost loop that leaves the memories alone.
LEMMA TakeExhaustive ==
    ASSUME TypeOK, Exhaustive, stack # <<>>, NEW x, NEW pushed \in Seq(Frame),
           Take(x, pushed), Paid(InProgress', memories', Known', Top, x),
           UNCHANGED memories, Known \subseteq Known',
           \A w \in Known' \ Known : Heeded(InProgress', memories', Known', w)
    PROVE  Exhaustive'
<1>1. Continues(InProgress, InProgress', memories', Known')
  BY TakeContinues DEF TypeOK
<1>2. Grows(memories, memories')
  BY DEF Grows
<1>3. \A b \in BetaNodes : \A pi \in Matching(memories', b) \ Matching(memories, b) :
          Due(InProgress', memories', Known', b, pi)
  BY DEF Matching
<1>4. /\ EveryFact(InProgress', memories', Known')
      /\ EveryMatch(InProgress', memories', Known')
  BY <1>1, <1>2, <1>3, OwedStays DEF Exhaustive
<1> QED  BY <1>4 DEF Exhaustive, EveryFact, EveryMatch, Heeded, Due, Reached,
            Delivered, Fired, Concluded, Matching, Joins

LEMMA AddWmeStepExhaustive ==
    ASSUME Inv, Exhaustive, AddWmeStep PROVE Exhaustive'
<1>1. PICK i \in Top.todo :
          LET a == AlphaOrder[i]
          IN  Take(i, <<Activate(a, {[node |-> a, wme |-> Top.wme]})>>)
  BY DEF AddWmeStep
<1> DEFINE a == AlphaOrder[i]
           call == Activate(a, {[node |-> a, wme |-> Top.wme]})
<1>2. /\ stack # <<>> /\ Top.op = "add_wme" /\ Top.wme \in Triple
      /\ i \in DOMAIN AlphaOrder /\ TypeOK
  BY TopHeld, FrameFields DEF AddWmeStep, Inv
<1>3. a \in AlphaNodes /\ a \in Nodes
  BY <1>2, NetworkAssumption DEF Nodes
<1>4. call \in Frame
  BY <1>2, <1>3, ActivateFrame DEF Partial, Token
<1> HIDE DEF call
<1>5. Take(i, <<call>>) /\ <<call>> \in Seq(Frame)
  BY <1>1, <1>4 DEF call
<1>6. call \in InProgress'
  BY <1>2, <1>4, <1>5, CallInProgress DEF TypeOK
<1>7. Paid(InProgress', memories', Known', Top, i)
  <2>1. Reached(InProgress', memories', Known', a, {TokenOf(a, Top.wme)})
    BY <1>6, ActivatedReached DEF call, TokenOf
  <2> QED  BY <1>2, <2>1 DEF Paid
<1>8. Known' = Known /\ UNCHANGED memories
  BY DEF AddWmeStep, facts, Known
<1> QED  BY <1>2, <1>5, <1>7, <1>8, TakeExhaustive

LEMMA JoinStepExhaustive ==
    ASSUME Inv, Exhaustive, JoinStep PROVE Exhaustive'
<1>1. PICK pi \in Top.todo : Take(pi, <<Activate(Top.node, pi)>>)
  BY DEF JoinStep
<1> DEFINE call == Activate(Top.node, pi)
<1>2. /\ stack # <<>> /\ Top.op = "join" /\ Top.node \in Nodes /\ pi \in Partial
      /\ TypeOK
  BY TopHeld, FrameFields DEF JoinStep, Inv, Nodes
<1>3. call \in Frame
  BY <1>2, ActivateFrame
<1> HIDE DEF call
<1>4. Take(pi, <<call>>) /\ <<call>> \in Seq(Frame)
  BY <1>1, <1>3 DEF call
<1>5. call \in InProgress'
  BY <1>2, <1>3, <1>4, CallInProgress DEF TypeOK
<1>6. Paid(InProgress', memories', Known', Top, pi)
  <2>1. Reached(InProgress', memories', Known', Top.node, pi)
    BY <1>5, ActivatedReached DEF call
  <2> QED  BY <1>2, <2>1 DEF Paid
<1>7. Known' = Known /\ UNCHANGED memories
  BY DEF JoinStep, facts, Known
<1> QED  BY <1>2, <1>4, <1>6, <1>7, TakeExhaustive

\* A terminal node that has filled the memories below goes on to fire.
LEMMA FireConsequentExhaustive ==
    ASSUME Inv, Exhaustive, FireConsequent PROVE Exhaustive'
<1>1. PICK nu \in NewBlanks(Top.node) :
          stack' = <<Fire(Top.node, Top.pi, nu)>> \o Tail(stack)
  BY DEF FireConsequent
<1> DEFINE call == Fire(Top.node, Top.pi, nu)
<1>2. /\ stack # <<>> /\ Top.op = "activate" /\ Top.todo = {}
      /\ Top.node \in BetaNodes /\ Top.pi \in Partial /\ TypeOK
  BY TopHeld, FrameFields DEF FireConsequent, Terminals, Inv
<1>3. nu \in [Existentials[Top.node] -> Blank]
  BY DEF NewBlanks
<1>4. call \in Frame
  BY <1>2, <1>3, FireFrame
<1>5. /\ call.op = "fire" /\ call.node = Top.node /\ call.pi = Top.pi
      /\ call.todo = {Inst(rhs, nu) : rhs \in Consequent[Top.node]}
  BY DEF Fire
<1> HIDE DEF call
<1>6. InProgress' = {call} \cup Range(Tail(stack)) /\ InProgress = {Top} \cup Range(Tail(stack))
  <2>1. Tail(stack) \in Seq(Frame) /\ <<call>> \in Seq(Frame)
    BY <1>2, <1>4, HeadTailProperties DEF TypeOK
  <2>2. Range(<<call>> \o Tail(stack)) = Range(<<call>>) \cup Range(Tail(stack))
    BY <2>1, RangeConcatenation
  <2>3. Range(<<call>>) = {call}
    BY DEF Range
  <2>4. <<>> \in Seq(Frame) /\ stack \in Seq(Frame)
    BY <1>2 DEF TypeOK
  <2> QED  BY <1>1, <1>2, <1>4, <2>2, <2>3, <2>4, PushRange DEF InProgress, Top, call
<1>7. \A h \in Consequent[Top.node] :
          Fired(InProgress', Known', Top.node, Top.pi, h)
  BY <1>3, <1>5, <1>6 DEF Fired
<1>8. Continues(InProgress, InProgress', memories', Known')
  <2>1. \A f : Same(f, f)
    BY DEF Same
  <2> QED  BY <1>2, <1>6, <1>7, <2>1 DEF Continues
<1>9. Known' = Known /\ memories' = memories
  BY DEF FireConsequent, facts, Known
<1>10. Exhaustive'
  <2>1. Grows(memories, memories')
    BY <1>9 DEF Grows
  <2>2. \A b : Matching(memories', b) = Matching(memories, b)
    BY <1>9
  <2>3. /\ EveryFact(InProgress', memories', Known')
        /\ EveryMatch(InProgress', memories', Known')
    BY <1>8, <1>9, <2>1, <2>2, OwedStays DEF Exhaustive
  <2> QED  BY <2>3 DEF Exhaustive, EveryFact, EveryMatch, Heeded, Due, Reached,
              Delivered, Fired, Concluded, Matching, Joins
<1> QED  BY <1>10

\* No action overrides: every triple of the consequent is instantiated with
\* every binding.
LEMMA FireStepExhaustive ==
    ASSUME Inv, Exhaustive, NothingOverrides, FireStep PROVE Exhaustive'
<1>1. PICK rhs \in Top.todo :
          \/ Overridden(Top.node, rhs)
          \/ Take(rhs, <<Substitute(Top.node, Top.pi, rhs)>>)
  BY DEF FireStep
<1> DEFINE call == Substitute(Top.node, Top.pi, rhs)
<1>2. /\ stack # <<>> /\ Top.op = "fire" /\ Top.node \in BetaNodes
      /\ Top.pi \in Partial /\ rhs \in Pattern /\ TypeOK
  BY TopHeld, FrameFields DEF FireStep, Inv
<1>3. ~Overridden(Top.node, rhs)
  BY <1>2 DEF NothingOverrides, Overridden, ActionsFor
<1>4. call \in Frame
  BY <1>2, SubstituteFrame
<1>5. /\ call.op = "substitute" /\ call.node = Top.node /\ call.rhs = rhs
      /\ call.todo = Bindings(Top.pi)
  BY DEF Substitute
<1> HIDE DEF call
<1>6. Take(rhs, <<call>>) /\ <<call>> \in Seq(Frame)
  BY <1>1, <1>3, <1>4 DEF call
<1>7. call \in InProgress'
  BY <1>2, <1>4, <1>6, CallInProgress DEF TypeOK
<1>8. Paid(InProgress', memories', Known', Top, rhs)
  <2>1. ASSUME NEW h \in Consequent[Top.node],
               NEW nu \in [Existentials[Top.node] -> Blank], rhs = Inst(h, nu),
               NEW theta \in Bindings(Top.pi)
        PROVE  Concluded(InProgress', Known', Top.node, h, theta)
    BY <1>5, <1>7, <2>1 DEF Concluded
  <2> QED  BY <1>2, <2>1 DEF Paid
<1>9. Known' = Known /\ UNCHANGED memories
  BY DEF FireStep, facts, Known
<1> QED  BY <1>2, <1>6, <1>8, <1>9, TakeExhaustive

\* A head leaves no variable open, so no triple is skipped.
LEMMA HeadsGround ==
    ASSUME NEW K, NEW b \in BetaNodes, NEW rhs, HeadOf(b, rhs),
           NEW theta, SolvesAt(K, b, theta)
    PROVE  Ground(Inst(rhs, theta))
<1>1. PICK h \in Consequent[b], nu \in [Existentials[b] -> Blank] :
          rhs = Inst(h, nu)
  BY DEF HeadOf
<1>2. theta \in [VarsAt(Leaves[b]) -> Term]
  BY DEF SolvesAt, Solves
<1>3. VarsOf(h) \subseteq VarsAt(Leaves[b]) \cup Existentials[b] /\ h \in Pattern
  BY TerminalsAssumption, NetworkAssumption
<1>4. ASSUME NEW i \in Place
      PROVE  Inst(rhs, theta)[i] \in Term
  <2>1. CASE h[i] \in Existentials[b]
    <3>1. rhs[i] \in Term
      BY <1>1, <2>1, TermAssumption DEF Inst
    <3> QED  BY <1>2, <3>1 DEF Inst
  <2>2. CASE h[i] \notin Existentials[b]
    <3>1. rhs[i] = h[i]
      BY <1>1, <2>2 DEF Inst
    <3>2. h[i] \in Term \/ h[i] \in VarsAt(Leaves[b])
      BY <1>3, <2>2 DEF Pattern, VarsOf
    <3> QED  BY <1>2, <3>1, <3>2 DEF Inst
  <2> QED  BY <2>1, <2>2
<1> QED  BY <1>4, TermAssumption DEF Ground

LEMMA SkipNever == Inv /\ SkipStep => FALSE
<1> SUFFICES ASSUME Inv, SkipStep PROVE FALSE
  OBVIOUS
<1>1. PICK theta \in Top.todo : ~Ground(Inst(Top.rhs, theta))
  BY DEF SkipStep
<1>2. /\ Top.node \in BetaNodes /\ HeadOf(Top.node, Top.rhs)
      /\ SolvesAt(Known, Top.node, theta)
  BY TopHeld, FrameFields DEF SkipStep, FrameInv
<1> QED  BY <1>1, <1>2, HeadsGround

\* A triple that is instantiated is known from then on, and if it is new then
\* add_wme is entered for it.
LEMMA InferStepExhaustive ==
    ASSUME Inv, Exhaustive, InferStep PROVE Exhaustive'
<1>1. PICK theta \in Top.todo :
          LET t == Inst(Top.rhs, theta)
          IN  /\ UNCHANGED <<working_memory, memories>>
              /\ \/ /\ inferred_facts' = inferred_facts \cup {t}
                    /\ Take(theta, <<AddWme(t), Conclude(Top.node, Top.rhs, t)>>)
                 \/ /\ ~IsNew(t) /\ UNCHANGED inferred_facts
                    /\ Take(theta, <<>>)
  BY DEF InferStep
<1> DEFINE t == Inst(Top.rhs, theta)
           calling == <<AddWme(t), Conclude(Top.node, Top.rhs, t)>>
<1>2. /\ stack # <<>> /\ Top.op = "substitute" /\ Top.node \in BetaNodes
      /\ Top.rhs \in Pattern /\ TypeOK /\ t \in Triple
  <2>1. /\ stack # <<>> /\ Top.op = "substitute" /\ Top.node \in BetaNodes
        /\ Top.rhs \in Pattern /\ TypeOK /\ theta \in Substitution
        /\ HeadOf(Top.node, Top.rhs) /\ SolvesAt(Known, Top.node, theta)
    BY TopHeld, FrameFields DEF InferStep, Inv, FrameInv
  <2>2. Ground(t)
    BY <2>1, HeadsGround
  <2>3. \A v \in DOMAIN theta : theta[v] \in Term
    BY <2>1 DEF Substitution
  <2> QED  BY <2>1, <2>2, <2>3, InstType
<1>3. t \in Known'
  BY <1>1 DEF IsNew, Known
<1>4. Paid(InProgress', memories', Known', Top, theta)
  BY <1>2, <1>3 DEF Paid
<1>5. CASE inferred_facts' = inferred_facts \cup {t} /\ Take(theta, calling)
  <2>1. AddWme(t) \in Frame /\ Conclude(Top.node, Top.rhs, t) \in Frame
    BY <1>2, AddWmeFrame, ConcludeFrame
  <2>2. calling \in Seq(Frame)
    BY <2>1
  <2>3. AddWme(t) \in Range(calling)
    <3> HIDE DEF t
    <3> QED  BY DEF Range
  <2> HIDE DEF calling
  <2>4. AddWme(t) \in InProgress'
    BY <1>2, <1>5, <2>2, <2>3, TakeInProgress DEF TypeOK
  <2>5. \A w \in Known' \ Known : Heeded(InProgress', memories', Known', w)
    BY <1>1, <1>5, <2>4, EnteredHeeded DEF Known
  <2>6. Known \subseteq Known'
    BY <1>1, <1>5 DEF Known
  <2> HIDE DEF t
  <2> QED  BY <1>1, <1>2, <1>4, <1>5, <2>2, <2>5, <2>6, TakeExhaustive
<1>6. CASE UNCHANGED inferred_facts /\ Take(theta, <<>>)
  <2>1. <<>> \in Seq(Frame) /\ Known' = Known
    BY <1>1, <1>6 DEF Known
  <2> HIDE DEF t
  <2> QED  BY <1>1, <1>2, <1>4, <1>6, <2>1, TakeExhaustive
<1> QED  BY <1>1, <1>5, <1>6

\* Below a join on the right there is an alpha node: no union is thrown away.
LEMMA AllKept ==
    ASSUME NEW b \in (BetaNodes \ PassThru) \ DOMAIN Filter, NEW pi
    PROVE  Kept(b, pi)
<1>1. ASSUME NEW n \in BetaNodes, NEW i \in DOMAIN Descendents[n]
      PROVE  Descendents[n][i] # [node |-> b, side |-> RIGHT]
  <2>1. Descendents[n][i] \in FedFrom(n) /\ n \in Wired
    BY DEF FedFrom, Wired
  <2> QED  BY <2>1, JoinsAssumption DEF LEFT, RIGHT
<1> QED  BY <1>1 DEF Kept, BetaFed

\* The matches of a join, one side at a time.
LEMMA MatchingJoin ==
    ASSUME NEW M, NEW b \in BetaNodes, b \notin PassThru, b \notin DOMAIN Filter
    PROVE  \A x : x \in Matching(M, b) <=>
              \E l \in M[Left(b)], r \in M[Right(b)] : x = l \cup r /\ Joins(b, l, r)
<1> DEFINE pairs == {z \in M[Left(b)] \X M[Right(b)] : Joins(b, z[1], z[2])}
<1>1. Matching(M, b) = {z[1] \cup z[2] : z \in pairs}
  BY DEF Matching
<1>2. \A l \in M[Left(b)], r \in M[Right(b)] :
          Joins(b, l, r) => <<l, r>> \in pairs /\ <<l, r>>[1] \cup <<l, r>>[2] = l \cup r
  OBVIOUS
<1>3. \A z \in pairs :
          z[1] \in M[Left(b)] /\ z[2] \in M[Right(b)] /\ Joins(b, z[1], z[2])
  OBVIOUS
<1> HIDE DEF pairs
<1>4. ASSUME NEW x \in Matching(M, b)
      PROVE  \E l \in M[Left(b)], r \in M[Right(b)] : x = l \cup r /\ Joins(b, l, r)
  <2>1. PICK z \in pairs : x = z[1] \cup z[2]
    BY <1>1
  <2> QED  BY <1>3, <2>1
<1>5. ASSUME NEW x, NEW l \in M[Left(b)], NEW r \in M[Right(b)],
             x = l \cup r, Joins(b, l, r)
      PROVE  x \in Matching(M, b)
  <2>1. <<l, r>> \in pairs /\ x = <<l, r>>[1] \cup <<l, r>>[2]
    BY <1>2, <1>5
  <2> QED  BY <1>1, <2>1
<1> QED  BY <1>4, <1>5

\* What node n makes of the memories of b by adding pi to the memory m is in a
\* call it goes on to make.
LEMMA PropagateDue ==
    ASSUME NEW n \in Wired, NEW m \in FedFrom(n), m \in Memories, NEW pi,
           NEW M \in [Memories -> SUBSET Partial],
           NEW M2, M2 = [M EXCEPT ![m] = @ \cup {pi}],
           NEW P, Range(Propagate(m, n, pi, M2)) \subseteq P, NEW K,
           NEW x \in Matching(M2, m.node) \ Matching(M, m.node)
    PROVE  Due(P, M2, K, m.node, x)
<1> DEFINE b        == m.node
           other    == [node |-> b, side |-> Other(m.side)]
           opposite == M2[other]
           partners == UNION {Partners(b, opposite, theta) : theta \in Bindings(pi)}
           joined   == {z \in {NewJoin(pi, y) : y \in partners} :
                            m.side = LEFT => Kept(b, z)}
<1>1. /\ b \in BetaNodes /\ m.side \in {LEFT, RIGHT} /\ other \in Memories
      /\ m = [node |-> b, side |-> m.side] /\ other # m
      /\ {m, other} = {Left(b), Right(b)}
  BY DEF Memories, Other, LEFT, RIGHT, Left, Right
<1>2. /\ M2[m] = M[m] \cup {pi}
      /\ \A k \in Memories : k # m => M2[k] = M[k]
  OBVIOUS
<1>3. CASE b \in PassThru
  <2>1. x = pi
    BY <1>1, <1>2, <1>3 DEF Matching
  <2>2. Propagate(m, n, pi, M2) = <<Activate(b, pi)>>
    BY <1>3 DEF Propagate
  <2>3. Activate(b, pi) \in P
    BY <2>2 DEF Range
  <2>4. Reached(P, M2, K, b, pi)
    BY <2>3, ActivatedReached
  <2> QED  BY <2>1, <2>4 DEF Due
<1>4. CASE b \notin PassThru /\ b \in DOMAIN Filter
  <2>1. m = Left(b)
    BY <1>1, <1>4, JoinsAssumption DEF Left
  <2>2. x = pi /\ Accepted(b, pi)
    BY <1>1, <1>2, <1>4, <2>1 DEF Matching
  <2>3. Propagate(m, n, pi, M2) = <<Join(b, {z \in {pi} : Accepted(b, z)})>>
    BY <1>4 DEF Propagate
  <2>4. Join(b, {z \in {pi} : Accepted(b, z)}) \in P
    BY <2>3 DEF Range
  <2>5. \E f \in P : f.op = "join" /\ f.node = b /\ pi \in f.todo
    BY <2>2, <2>4 DEF Join
  <2> QED  BY <2>2, <2>5 DEF Due
<1>5. CASE b \notin PassThru /\ b \notin DOMAIN Filter
  <2>0. x \in Matching(M2, b) /\ x \notin Matching(M, b)
    OBVIOUS
  <2> HIDE DEF b
  <2>1. PICK l \in M2[Left(b)], r \in M2[Right(b)] : x = l \cup r /\ Joins(b, l, r)
    BY <1>1, <1>5, <2>0, MatchingJoin
  <2>2. ~(l \in M[Left(b)] /\ r \in M[Right(b)])
    BY <1>1, <1>5, <2>0, <2>1, MatchingJoin
  <2>3. \E y \in opposite : /\ x = pi \cup y
                            /\ \E theta \in Bindings(pi), phi \in Bindings(y) :
                                  Agree(b, theta, phi)
    <3>1. CASE m = Left(b)
      <4>1. other = Right(b) /\ l = pi
        BY <1>1, <1>2, <2>1, <2>2, <3>1
      <4> QED  BY <2>1, <4>1 DEF Joins
    <3>2. CASE m = Right(b)
      <4>1. other = Left(b) /\ r = pi
        BY <1>1, <1>2, <2>1, <2>2, <3>2
      <4>2. PICK theta \in Bindings(l), phi \in Bindings(r) : Agree(b, theta, phi)
        BY <2>1 DEF Joins
      <4>3. Agree(b, phi, theta)
        BY <4>2 DEF Agree
      <4> QED  BY <2>1, <4>1, <4>2, <4>3
    <3> QED  BY <1>1, <3>1, <3>2
  <2>4. PICK y \in opposite :
            /\ x = pi \cup y
            /\ \E theta \in Bindings(pi), phi \in Bindings(y) : Agree(b, theta, phi)
    BY <2>3
  <2>5. y \in partners
    BY <2>4 DEF Partners
  <2>6. x \in joined
    BY <1>1, <1>5, <2>4, <2>5, AllKept DEF NewJoin
  <2>7. ~(m.side = RIGHT /\ n \in BetaNodes)
    BY <1>1, <1>5, JoinsAssumption DEF LEFT, RIGHT
  <2>8. Propagate(m, n, pi, M2) = <<Join(b, joined)>>
    BY <1>5, <2>4, <2>7 DEF Propagate, b
  <2> HIDE DEF joined
  <2>9. Join(b, joined) \in P
    BY <2>8 DEF Range
  <2>10. Join(b, joined).op = "join" /\ Join(b, joined).node = b /\ Join(b, joined).todo = joined
    BY DEF Join
  <2>11. Due(P, M2, K, b, x)
    BY <2>6, <2>9, <2>10 DEF Due
  <2> QED  BY <2>11 DEF b
<1> QED  BY <1>3, <1>4, <1>5

LEMMA ActivateStepExhaustive ==
    ASSUME Inv, Exhaustive, ActivateStep PROVE Exhaustive'
<1>1. PICK i \in Top.todo :
          LET m    == Descendents[Top.node][i]
              mems == [memories EXCEPT ![m] = @ \cup {Top.pi}]
          IN  /\ memories' = mems
              /\ Take(i, Propagate(m, Top.node, Top.pi, mems))
  BY DEF ActivateStep
<1> DEFINE n    == Top.node
           m    == Descendents[n][i]
           pushed == Propagate(m, n, Top.pi, memories')
<1>2. /\ stack # <<>> /\ Top.op = "activate" /\ n \in Wired /\ n \in Nodes
      /\ Top.pi \in Partial /\ i \in DOMAIN Descendents[n] /\ TypeOK
  BY TopHeld, FrameFields DEF ActivateStep, FrameInv, Inv
<1>3. m \in Memories /\ m \in FedFrom(n)
  BY <1>2, NetworkAssumption DEF FedFrom
<1>4. /\ memories' = [memories EXCEPT ![m] = @ \cup {Top.pi}]
      /\ Take(i, pushed)
  BY <1>1
<1>5. memories \in [Memories -> SUBSET Partial] /\ memories' \in [Memories -> SUBSET Partial]
  BY <1>2, <1>3, <1>4 DEF TypeOK
<1>6. pushed \in Seq(Frame)
  BY <1>2, <1>3, <1>5, PropagateFrames
<1> HIDE DEF m, pushed
<1>7. Range(pushed) \subseteq InProgress'
  BY <1>2, <1>4, <1>6, TakeInProgress DEF TypeOK
<1>8. Paid(InProgress', memories', Known', Top, i)
  <2>1. Top.pi \in memories'[m]
    BY <1>3, <1>4, <1>5
  <2> QED  BY <1>2, <2>1 DEF Paid, m
<1>9. Known' = Known
  BY DEF ActivateStep, facts, Known
<1>10. Continues(InProgress, InProgress', memories', Known')
  BY <1>2, <1>4, <1>6, <1>8, TakeContinues DEF TypeOK
<1>11. Grows(memories, memories')
  BY <1>3, <1>4, <1>5 DEF Grows
<1>12. ASSUME NEW b \in BetaNodes, NEW x \in Matching(memories', b) \ Matching(memories, b)
       PROVE  Due(InProgress', memories', Known', b, x)
  <2>1. CASE b = m.node
    BY <1>2, <1>3, <1>4, <1>5, <1>7, <1>12, <2>1, PropagateDue DEF pushed
  <2>2. CASE b # m.node
    <3>1. Left(b) \in Memories /\ Right(b) \in Memories /\ Left(b) # m /\ Right(b) # m
      BY <2>2 DEF Left, Right, Memories
    <3>2. memories'[Left(b)] = memories[Left(b)] /\ memories'[Right(b)] = memories[Right(b)]
      BY <1>4, <1>5, <3>1
    <3> QED  BY <1>12, <3>2 DEF Matching
  <2> QED  BY <2>1, <2>2
<1>13. /\ EveryFact(InProgress', memories', Known')
       /\ EveryMatch(InProgress', memories', Known')
  BY <1>9, <1>10, <1>11, <1>12, OwedStays DEF Exhaustive
<1> QED  BY <1>13 DEF Exhaustive, EveryFact, EveryMatch, Heeded, Due, Reached,
            Delivered, Fired, Concluded, Matching, Joins

\* A call that returns has nothing left to do.
LEMMA PopExhaustive ==
    ASSUME Inv, Exhaustive, stack # <<>>, stack' = Tail(stack), Top.todo = {},
           Top.op = "activate" => Top.node \notin Terminals,
           UNCHANGED <<facts, memories>>
    PROVE  Exhaustive'
<1>1. Known' = Known /\ memories' = memories
  BY DEF facts, Known
<1>2. Continues(InProgress, InProgress', memories', Known')
  BY PopContinues DEF Inv, TypeOK
<1>3. Grows(memories, memories') /\ \A b : Matching(memories', b) = Matching(memories, b)
  BY <1>1 DEF Grows
<1>4. /\ EveryFact(InProgress', memories', Known')
      /\ EveryMatch(InProgress', memories', Known')
  BY <1>1, <1>2, <1>3, OwedStays DEF Exhaustive
<1> QED  BY <1>4 DEF Exhaustive, EveryFact, EveryMatch, Heeded, Due, Reached,
            Delivered, Fired, Concluded, Matching, Joins

\* A caller feeds a fact: add_wme is entered for it.
LEMMA FeedExhaustive ==
    ASSUME Inv, Exhaustive, NEW w \in Facts, Feed(w) PROVE Exhaustive'
<1>1. InProgress = {}
  BY DEF Feed, Idle, InProgress, Range
<1>2. AddWme(w) \in InProgress'
  BY DEF Feed, InProgress, Range
<1>3. Known \subseteq Known' /\ Known' \ Known \subseteq {w} /\ memories' = memories
  BY DEF Feed, Known
<1>4. Continues(InProgress, InProgress', memories', Known')
  BY <1>1 DEF Continues
<1>5. Grows(memories, memories') /\ \A b : Matching(memories', b) = Matching(memories, b)
  BY <1>3 DEF Grows
<1>6. \A v \in Known' \ Known : Heeded(InProgress', memories', Known', v)
  BY <1>2, <1>3, EnteredHeeded
<1>7. /\ EveryFact(InProgress', memories', Known')
      /\ EveryMatch(InProgress', memories', Known')
  BY <1>3, <1>4, <1>5, <1>6, OwedStays DEF Exhaustive
<1> QED  BY <1>7 DEF Exhaustive, EveryFact, EveryMatch, Heeded, Due, Reached,
            Delivered, Fired, Concluded, Matching, Joins

\* Where nothing is known and nothing remembered nothing is owed: a reset to an
\* empty graph starts afresh, even from what a goal cut short.
LEMMA EmptyExhaustive ==
    ASSUME NEW P, NEW M, \A m \in Memories : M[m] = {}
    PROVE  EveryFact(P, M, {}) /\ EveryMatch(P, M, {})
<1>1. \A b \in BetaNodes : M[Left(b)] = {} /\ M[Right(b)] = {}
  BY DEF Left, Right, Memories
<1>2. \A b \in BetaNodes : Matching(M, b) = {}
  BY <1>1 DEF Matching
<1> QED  BY <1>2 DEF EveryFact, EveryMatch

LEMMA ResetExhaustive ==
    ASSUME NEW g \in Targets, Reset(g) PROVE Exhaustive'
<1>1. \A m \in Memories : memories'[m] = {}
  BY JoinsAssumption DEF Reset, Cleared, Memories
<1>2. Known' = {}
  BY CallersAssumption DEF Reset, Known
<1>3. /\ EveryFact(InProgress', memories', {})
      /\ EveryMatch(InProgress', memories', {})
  BY <1>1, EmptyExhaustive
<1> QED  BY <1>2, <1>3 DEF Exhaustive, EveryFact, EveryMatch, Heeded, Due,
            Reached, Delivered, Fired, Concluded, Matching, Joins

\* Registering an action makes none override.
LEMMA RegisterNothingOverrides ==
    ASSUME NothingOverrides, NEW reg \in Registrations, RegisterAction(reg)
    PROVE  NothingOverrides'
<1> SUFFICES ASSUME NEW b \in BetaNodes, NEW k \in DOMAIN execute_actions'[b]
             PROVE  ~execute_actions'[b][k].override
  BY DEF NothingOverrides
<1>1. CASE b \notin Terminals
  <2>1. execute_actions'[b] = execute_actions[b]
    BY <1>1 DEF RegisterAction
  <2> QED  BY <2>1 DEF NothingOverrides
<1>2. CASE b \in Terminals
  <2> DEFINE keys == {ActionKey(h) : h \in RuleHeads[b]}
  <2>1. execute_actions'[b] = [key \in keys \cup DOMAIN execute_actions[b] |->
                                  IF key \in keys THEN reg ELSE execute_actions[b][key]]
    BY <1>2 DEF RegisterAction
  <2> HIDE DEF keys
  <2> QED  BY <2>1, CallersAssumption DEF NothingOverrides
<1> QED  BY <1>1, <1>2

\* A step that touches no fact, no memory and no call owes nothing new.
LEMMA StutterExhaustive ==
    ASSUME Exhaustive, UNCHANGED <<facts, memories, stack>> PROVE Exhaustive'
<1>1. Known' = Known /\ memories' = memories /\ InProgress' = InProgress
  BY DEF facts, Known, InProgress
<1>2. /\ EveryFact(InProgress', memories', Known')
      /\ EveryMatch(InProgress', memories', Known')
  BY <1>1 DEF Exhaustive
<1> QED  BY <1>2 DEF Exhaustive, EveryFact, EveryMatch, Heeded, Due, Reached,
            Delivered, Fired, Concluded, Matching, Joins

\* A call that has come to its end returns, whether a goal is looked for or not.
LEMMA ConcludeExhaustive ==
    ASSUME Inv, Exhaustive, Goal \notin inferred_facts, ConcludeStep
    PROVE  Exhaustive'
<1>1. stack # <<>> /\ Top.op = "conclude" /\ Top.todo = {}
  BY TopHeld DEF ConcludeStep, Frame, FireCalls, ActivateCalls
<1>2. stack' = Tail(stack) /\ UNCHANGED <<facts, memories>>
  BY DEF ConcludeStep, GoalReached
<1> QED  BY <1>1, <1>2, PopExhaustive

LEMMA ReturnExhaustive ==
    ASSUME Inv, Exhaustive, Return PROVE Exhaustive'
BY PopExhaustive DEF Return, Idle

\* One step of the propagation loses nothing.
LEMMA StepExhaustive ==
    ASSUME Inv, Inv', NothingLost, Step, Goal \notin inferred_facts'
    PROVE  Exhaustive'
<1>1. Goal \notin inferred_facts
  BY DEF Step, AddWmeStep, ActivateStep, JoinStep, UnifyStep, FireConsequent,
     FireStep, SkipStep, InferStep, ConcludeStep, Return, facts
<1>2. Exhaustive /\ NothingOverrides
  BY <1>1 DEF NothingLost
<1> QED  BY <1>1, <1>2, AddWmeStepExhaustive, ActivateStepExhaustive,
            JoinStepExhaustive, UnifyNever, FireConsequentExhaustive,
            FireStepExhaustive, SkipNever, InferStepExhaustive,
            ConcludeExhaustive, ReturnExhaustive DEF Step

\* Only RegisterAction registers actions.
LEMMA ActionsStay ==
    ASSUME NothingOverrides, UNCHANGED execute_actions PROVE NothingOverrides'
BY DEF NothingOverrides

\* Until a goal is inferred, whatever known facts and memories call for has
\* been done or is in a call in progress: no order of the nested propagations
\* loses a match.
THEOREM NothingIsLost == Spec => []NothingLost
<1>1. Init => NothingLost
  <2> SUFFICES ASSUME Init PROVE NothingLost
    OBVIOUS
  <2>1. NothingOverrides
    BY DEF Init, NothingOverrides
  <2>2. Known = {} /\ \A m \in Memories : memories[m] = {}
    BY CallersAssumption DEF Init, Known
  <2>3. Exhaustive
    BY <2>2, EmptyExhaustive DEF Exhaustive
  <2> QED  BY <2>1, <2>3 DEF NothingLost
<1>2. Inv /\ Inv' /\ NothingLost /\ [Next]_vars => NothingLost'
  <2> SUFFICES ASSUME Inv, Inv', NothingLost, [Next]_vars PROVE NothingLost'
    OBVIOUS
  <2>1. NothingOverrides /\ (Goal \notin inferred_facts => Exhaustive)
    BY DEF NothingLost
  <2>2. ASSUME NEW w \in Facts, Feed(w) PROVE NothingLost'
    <3>1. inferred_facts' = inferred_facts /\ NothingOverrides'
      BY <2>1, <2>2, ActionsStay DEF Feed
    <3> QED  BY <2>1, <2>2, <3>1, FeedExhaustive DEF NothingLost
  <2>3. ASSUME NEW g \in Targets, Reset(g) PROVE NothingLost'
    <3>1. NothingOverrides'
      BY <2>1, <2>3, ActionsStay DEF Reset
    <3> QED  BY <2>3, <3>1, ResetExhaustive DEF NothingLost
  <2>4. ASSUME NEW reg \in Registrations, RegisterAction(reg) PROVE NothingLost'
    <3>1. NothingOverrides'
      BY <2>1, <2>4, RegisterNothingOverrides
    <3>2. UNCHANGED <<facts, memories, stack>> /\ inferred_facts' = inferred_facts
      BY <2>4 DEF RegisterAction, facts
    <3> QED  BY <2>1, <3>1, <3>2, StutterExhaustive DEF NothingLost
  <2>5. CASE Step
    <3>1. NothingOverrides'
      BY <2>1, <2>5, ActionsStay DEF Step, AddWmeStep, ActivateStep, JoinStep,
         UnifyStep, FireConsequent, FireStep, SkipStep, InferStep, ConcludeStep,
         Return
    <3> QED  BY <2>5, <3>1, StepExhaustive DEF NothingLost
  <2>6. CASE UNCHANGED vars
    <3>1. NothingOverrides'
      BY <2>1, <2>6, ActionsStay DEF vars
    <3>2. UNCHANGED <<facts, memories, stack>> /\ inferred_facts' = inferred_facts
      BY <2>6 DEF vars, facts
    <3> QED  BY <2>1, <3>1, <3>2, StutterExhaustive DEF NothingLost
  <2> QED  BY <2>2, <2>3, <2>4, <2>5, <2>6 DEF Next
<1> QED  BY <1>1, <1>2, InvAlways, PTL DEF Spec
-----------------------------------------------------------------------------
(***************************************************************************)
(* With no call in progress, a solution of the patterns above a node has    *)
(* reached it.                                                             *)
(***************************************************************************)

\* The tokens a solution theta gives the alpha nodes of L.
TokensOf(L, theta) == {TokenOf(a, Inst(PatternOf[a], theta)) : a \in L}
Narrowed(L, theta) == [v \in VarsAt(L) |-> theta[v]]

Values(theta) == /\ DOMAIN theta \subseteq Var
                 /\ \A v \in DOMAIN theta : theta[v] \in Term

\* theta solves the patterns and the tests above node n, among others.
Suits(K, n, theta) ==
    /\ VarsAt(Leaves[n]) \subseteq DOMAIN theta
    /\ \A a \in Leaves[n] : Inst(PatternOf[a], theta) \in K
    /\ \A g \in Tests[n] : Holds(g, theta)

\* The tokens bind each variable to its value.
LEMMA TokensBind ==
    ASSUME NEW L \in SUBSET AlphaNodes, NEW theta, VarsAt(L) \subseteq DOMAIN theta,
           NEW a \in L, NEW v \in VarsOf(PatternOf[a])
    PROVE  Binding(TokenOf(a, Inst(PatternOf[a], theta)))[v] = theta[v]
<1> DEFINE p == PatternOf[a]
<1>1. FirstPlace(p, v) \in Place /\ p[FirstPlace(p, v)] = v
  BY FirstPlaceOf
<1>2. v \in DOMAIN theta
  BY DEF VarsAt
<1>3. Bind(p, Inst(p, theta))[v] = Inst(p, theta)[FirstPlace(p, v)]
  BY DEF Bind
<1>4. Inst(p, theta)[FirstPlace(p, v)] = theta[v]
  BY <1>1, <1>2 DEF Inst
<1> QED  BY <1>3, <1>4 DEF Binding, TokenOf

LEMMA TokensVars ==
    ASSUME NEW L, NEW theta PROVE VarsIn(TokensOf(L, theta)) = VarsAt(L)
<1> DEFINE pi == TokensOf(L, theta)
<1>1. \A a \in L : \E tok \in pi : tok.node = a
  <2> TAKE a \in L
  <2>1. TokenOf(a, Inst(PatternOf[a], theta)).node = a
    BY DEF TokenOf
  <2>2. TokenOf(a, Inst(PatternOf[a], theta)) \in pi
    BY DEF TokensOf
  <2> QED  BY <2>1, <2>2
<1>2. \A tok \in pi : tok.node \in L
  BY DEF TokensOf, TokenOf
<1> HIDE DEF pi
<1>3. \A v : v \in VarsIn(pi) <=> \E tok \in pi : v \in VarsOf(PatternOf[tok.node])
  BY DEF VarsIn
<1>4. \A v : v \in VarsAt(L) <=> \E a \in L : v \in VarsOf(PatternOf[a])
  BY DEF VarsAt
<1>5. VarsIn(pi) = VarsAt(L)
  BY <1>1, <1>2, <1>3, <1>4
<1> QED  BY <1>5 DEF pi

LEMMA TokensBindings ==
    ASSUME NEW L \in SUBSET AlphaNodes, NEW theta, VarsAt(L) \subseteq DOMAIN theta
    PROVE  Narrowed(L, theta) \in Bindings(TokensOf(L, theta))
<1> DEFINE pi == TokensOf(L, theta)
<1>1. VarsIn(pi) = VarsAt(L)
  BY TokensVars
<1>2. ASSUME NEW v \in VarsAt(L) PROVE theta[v] \in ValuesOf(pi, v)
  <2>1. PICK a \in L : v \in VarsOf(PatternOf[a])
    BY DEF VarsAt
  <2> DEFINE tok == TokenOf(a, Inst(PatternOf[a], theta))
  <2>2. tok \in pi /\ tok.node = a
    BY DEF TokensOf, TokenOf
  <2>3. Binding(tok)[v] = theta[v]
    BY <2>1, TokensBind
  <2> HIDE DEF pi, tok
  <2> QED  BY <2>1, <2>2, <2>3 DEF ValuesOf
<1> HIDE DEF pi
<1>3. Narrowed(L, theta) \in
          [VarsIn(pi) -> UNION {ValuesOf(pi, v) : v \in VarsIn(pi)}]
  BY <1>1, <1>2 DEF Narrowed
<1>4. \A v \in VarsIn(pi) : Narrowed(L, theta)[v] \in ValuesOf(pi, v)
  BY <1>1, <1>2 DEF Narrowed
<1> QED  BY <1>3, <1>4 DEF Bindings, pi

\* A known fact has reached the alpha nodes it matches.
LEMMA AlphaReached ==
    ASSUME NEW M, NEW K, EveryFact({}, M, K), NEW i \in DOMAIN AlphaOrder,
           NEW theta, Values(theta), Suits(K, AlphaOrder[i], theta)
    PROVE  Reached({}, M, K, AlphaOrder[i], TokensOf(Leaves[AlphaOrder[i]], theta))
<1> DEFINE a == AlphaOrder[i]
           w == Inst(PatternOf[a], theta)
<1>1. Leaves[a] = {a}
  BY LeavesAssumption
<1>2. w \in K
  BY <1>1 DEF Suits
<1>3. Matches(PatternOf[a], w)
  BY DEF Matches, Inst, Values
<1>4. TokensOf(Leaves[a], theta) = {TokenOf(a, w)}
  BY <1>1 DEF TokensOf
<1> HIDE DEF w
<1> QED  BY <1>2, <1>3, <1>4 DEF EveryFact, Heeded

\* What has reached a node is in the memories below.
LEMMA ReachedDelivered ==
    ASSUME NEW M, NEW K, NEW n, NEW pi, Reached({}, M, K, n, pi), NEW m \in FedFrom(n)
    PROVE  pi \in M[m]
BY DEF Reached, Delivered, FedFrom

LEMMA DueReached ==
    ASSUME NEW M, NEW K, EveryMatch({}, M, K), NEW b \in BetaNodes,
           NEW pi \in Matching(M, b)
    PROVE  Reached({}, M, K, b, pi)
BY DEF EveryMatch, Due

\* The tests above a node hold of what its tokens bind, and what a node fed
\* with the patterns and tests of another is reached by suits that one too.
LEMMA SuitsBelow ==
    ASSUME NEW K, NEW n, NEW k, NEW theta, Suits(K, n, theta),
           Leaves[k] \subseteq Leaves[n], Tests[k] \subseteq Tests[n]
    PROVE  Suits(K, k, theta)
BY DEF Suits, VarsAt

LEMMA HoldsNarrowed ==
    ASSUME NEW g, NEW L, NEW theta, VarsAt(L) \subseteq DOMAIN theta,
           {g.argument, g.result} \cap Var \subseteq VarsAt(L), Holds(g, theta)
    PROVE  Holds(g, Narrowed(L, theta))
<1>1. \A v \in VarsAt(L) : Narrowed(L, theta)[v] = theta[v]
  BY DEF Narrowed
<1>2. \A x \in {g.argument, g.result} :
          (IF x \in Var THEN Narrowed(L, theta)[x] ELSE x) = IF x \in Var THEN theta[x] ELSE x
  BY <1>1
<1> QED  BY <1>2 DEF Holds

\* The nodes nearer to the alpha nodes than n have been reached.
ReachedAbove(M, K, theta, n) ==
    \A k \in Wired : Level[k] < Level[n] /\ Suits(K, k, theta) =>
        Reached({}, M, K, k, TokensOf(Leaves[k], theta))

\* One node after another, away from the alpha nodes.
LEMMA BetaReached ==
    ASSUME NEW M, NEW K, EveryMatch({}, M, K), NEW theta, Values(theta),
           NEW b \in BetaNodes, Suits(K, b, theta), ReachedAbove(M, K, theta, b)
    PROVE  Reached({}, M, K, b, TokensOf(Leaves[b], theta))
<1>0. b \in Wired /\ Left(b) \in Memories /\ Right(b) \in Memories
      /\ Left(b).node = b /\ Right(b).node = b
  BY WiredNodes DEF Left, Right, Memories
<1>1. ASSUME NEW k \in Wired, NEW m \in FedFrom(k), m.node = b,
             Leaves[k] \subseteq Leaves[b], Tests[k] \subseteq Tests[b]
      PROVE  TokensOf(Leaves[k], theta) \in M[m]
  <2>1. Level[k] < Level[b] /\ Suits(K, k, theta)
    BY <1>1, SuitsBelow, FedAssumption
  <2> QED  BY <2>1, ReachedDelivered DEF ReachedAbove
<1>2. CASE b \in PassThru
  <2>1. PICK k \in Wired : {Left(b), Right(b)} \cap FedFrom(k) # {}
    BY <1>2, FedAssumption
  <2>2. PICK m \in FedFrom(k) : m \in {Left(b), Right(b)}
    BY <2>1
  <2>3. m.node = b /\ Leaves[b] = Leaves[k] /\ Tests[b] = Tests[k]
    BY <1>0, <1>2, <2>2, JoinsAssumption
  <2>4. TokensOf(Leaves[b], theta) \in M[m]
    BY <1>1, <2>3
  <2>5. TokensOf(Leaves[b], theta) \in Matching(M, b)
    BY <1>2, <2>2, <2>4 DEF Matching
  <2> QED  BY <2>5, DueReached
<1>3. CASE b \notin PassThru /\ b \in DOMAIN Filter
  <2> DEFINE pi == TokensOf(Leaves[b], theta)
  <2>1. PICK k \in Wired : Left(b) \in FedFrom(k)
    BY <1>3, FedAssumption
  <2>2. LeavesAt[Left(b)] = Leaves[k] /\ TestsAt[Left(b)] = Tests[k]
    BY <2>1, LeavesAssumption
  <2>3. /\ Leaves[b] = Leaves[k] /\ Tests[b] = Tests[k] \cup {Filter[b]}
        /\ {Filter[b].argument, Filter[b].result} \cap Var \subseteq VarsAt(Leaves[b])
    BY <1>3, <2>2, JoinsAssumption
  <2>4. pi \in M[Left(b)]
    BY <1>0, <1>1, <2>1, <2>3
  <2>5. Holds(Filter[b], theta) /\ VarsAt(Leaves[b]) \subseteq DOMAIN theta
    BY <2>3 DEF Suits
  <2>6. Holds(Filter[b], Narrowed(Leaves[b], theta))
    BY <2>3, <2>5, HoldsNarrowed
  <2>7. Leaves[b] \in SUBSET AlphaNodes
    BY LeavesAssumption DEF Nodes
  <2>8. Accepted(b, pi)
    BY <2>5, <2>6, <2>7, TokensBindings DEF Accepted
  <2> HIDE DEF pi
  <2>9. pi \in Matching(M, b)
    BY <1>3, <2>4, <2>8 DEF Matching
  <2>10. Reached({}, M, K, b, pi)
    BY <2>9, DueReached
  <2> QED  BY <2>10 DEF pi
<1>4. CASE b \notin PassThru /\ b \notin DOMAIN Filter
  <2>1. PICK j \in Wired : Left(b) \in FedFrom(j)
    BY <1>4, FedAssumption
  <2>2. PICK k \in Wired : Right(b) \in FedFrom(k)
    BY <1>4, FedAssumption
  <2>3. /\ LeavesAt[Left(b)] = Leaves[j] /\ TestsAt[Left(b)] = Tests[j]
        /\ LeavesAt[Right(b)] = Leaves[k] /\ TestsAt[Right(b)] = Tests[k]
    BY <2>1, <2>2, LeavesAssumption
  <2>4. /\ Leaves[b] = Leaves[j] \cup Leaves[k] /\ Tests[b] = Tests[j] \cup Tests[k]
        /\ Common[b] = VarsAt(Leaves[j]) \cap VarsAt(Leaves[k])
    BY <1>4, <2>3, JoinsAssumption
  <2> DEFINE l == TokensOf(Leaves[j], theta)
             r == TokensOf(Leaves[k], theta)
  <2>5. l \in M[Left(b)]
    BY <1>0, <1>1, <2>1, <2>4
  <2>6. r \in M[Right(b)]
    BY <1>0, <1>1, <2>2, <2>4
  <2>7. /\ Leaves[j] \in SUBSET AlphaNodes /\ VarsAt(Leaves[j]) \subseteq DOMAIN theta
        /\ Leaves[k] \in SUBSET AlphaNodes /\ VarsAt(Leaves[k]) \subseteq DOMAIN theta
    <3>1. Leaves[b] \in SUBSET AlphaNodes
      BY LeavesAssumption DEF Nodes
    <3>2. Suits(K, j, theta) /\ Suits(K, k, theta)
      BY <2>4, SuitsBelow
    <3> QED  BY <2>4, <3>1, <3>2 DEF Suits
  <2>8. /\ Narrowed(Leaves[j], theta) \in Bindings(l)
        /\ Narrowed(Leaves[k], theta) \in Bindings(r)
    BY <2>7, TokensBindings
  <2>9. Agree(b, Narrowed(Leaves[j], theta), Narrowed(Leaves[k], theta))
    BY <2>4 DEF Agree, Narrowed
  <2>10. TokensOf(Leaves[b], theta) = l \cup r
    BY <2>4 DEF TokensOf
  <2> HIDE DEF l, r
  <2>11. Joins(b, l, r)
    BY <2>8, <2>9 DEF Joins
  <2>12. l \cup r \in Matching(M, b)
    BY <1>4, <2>5, <2>6, <2>11, MatchingJoin
  <2> QED  BY <2>10, <2>12, DueReached
<1> QED  BY <1>2, <1>3, <1>4

\* So every solution reaches every node it suits.
LEMMA AllReached ==
    ASSUME NEW M, NEW K, EveryFact({}, M, K), EveryMatch({}, M, K),
           NEW theta, Values(theta), NEW n \in Wired, Suits(K, n, theta)
    PROVE  Reached({}, M, K, n, TokensOf(Leaves[n], theta))
<1> DEFINE reached(k) == Reached({}, M, K, k, TokensOf(Leaves[k], theta))
           missed     == {k \in Wired : Suits(K, k, theta) /\ ~reached(k)}
           levels     == {Level[k] : k \in missed}
<1>1. SUFFICES ASSUME missed # {} PROVE FALSE
  OBVIOUS
<1> HIDE DEF reached
<1>2. levels \subseteq Nat /\ levels # {}
  BY <1>1, WiredNodes, FedAssumption
<1>3. PICK least \in levels : \A y \in levels : least <= y
  <2> HIDE DEF levels
  <2>1. PICK x \in levels : \A y \in levels : <<y, x>> \notin OpToRel(<, Nat)
    BY <1>2, NatLessThanWellFounded, WFMin
  <2>2. ASSUME NEW y \in levels PROVE x <= y
    <3>1. ~(y < x)
      BY <1>2, <2>1 DEF OpToRel
    <3> QED  BY <1>2, <3>1
  <2> QED  BY <2>2
<1>4. PICK k \in missed : Level[k] = least
  OBVIOUS
<1>5. k \in Wired /\ Suits(K, k, theta) /\ ~reached(k)
  OBVIOUS
<1>6. \A j \in Wired : Level[j] < Level[k] /\ Suits(K, j, theta) => reached(j)
  <2> SUFFICES ASSUME NEW j \in Wired, Level[j] < Level[k], Suits(K, j, theta), ~reached(j)
               PROVE  FALSE
    OBVIOUS
  <2>1. Level[j] \in levels
    OBVIOUS
  <2>2. least <= Level[j] /\ Level[j] \in Nat /\ Level[k] \in Nat
    BY <1>2, <1>3, <1>4, <2>1
  <2> QED  BY <1>4, <2>2
<1>7. ReachedAbove(M, K, theta, k)
  BY <1>6 DEF ReachedAbove, reached
<1> HIDE DEF missed, levels
<1>8. CASE k \in BetaNodes
  BY <1>5, <1>7, <1>8, BetaReached DEF reached
<1>9. CASE k \notin BetaNodes
  <2>1. PICK i \in DOMAIN AlphaOrder : k = AlphaOrder[i]
    BY <1>5, <1>9 DEF Wired
  <2> QED  BY <1>5, <2>1, AlphaReached DEF reached
<1> QED  BY <1>8, <1>9

\* What a rule has to conclude, its terminal node has concluded.
LEMMA RuleConcluded ==
    ASSUME NEW M, NEW K, EveryFact({}, M, K), EveryMatch({}, M, K),
           NEW r \in Rules, NEW theta \in Solutions(r, K)
    PROVE  \E nu \in [r.exists -> Blank] : Inst(Inst(r.head, nu), theta) \in K
<1>1. PICK b \in BetaNodes :
          /\ r.body = {PatternOf[a] : a \in Leaves[b]} /\ r.guards = Tests[b]
          /\ r.head \in Consequent[b]
          /\ r.exists = Existentials[b] \cap VarsOf(r.head)
  BY TerminalsAssumption
<1> DEFINE L  == Leaves[b]
           pi == TokensOf(L, theta)
<1>2. BodyVars(r) = VarsAt(L)
  BY <1>1 DEF BodyVars, VarsAt
<1>3. theta \in [VarsAt(L) -> Term]
  BY <1>2 DEF Solutions
<1>4. Values(theta)
  BY <1>3 DEF Values, VarsAt, VarsOf
<1>5. Suits(K, b, theta)
  BY <1>1, <1>3 DEF Suits, Solutions
<1>6. Reached({}, M, K, b, pi)
  BY <1>4, <1>5, AllReached, WiredNodes
<1>7. Fired({}, K, b, pi, r.head)
  BY <1>1, <1>6 DEF Reached
<1>8. theta \in Bindings(pi)
  <2>1. L \in SUBSET AlphaNodes
    BY LeavesAssumption DEF Nodes
  <2>2. Narrowed(L, theta) = theta
    BY <1>3 DEF Narrowed
  <2>3. VarsAt(L) \subseteq DOMAIN theta
    BY <1>3
  <2> HIDE DEF L
  <2> QED  BY <2>1, <2>2, <2>3, TokensBindings
<1> HIDE DEF pi, L
<1>9. Concluded({}, K, b, r.head, theta)
  BY <1>7, <1>8 DEF Fired
<1>10. PICK nu \in [Existentials[b] -> Blank] : Inst(Inst(r.head, nu), theta) \in K
  BY <1>9 DEF Concluded
<1> DEFINE mu == [x \in r.exists |-> nu[x]]
<1>11. mu \in [r.exists -> Blank]
  BY <1>1
<1>12. Inst(r.head, mu) = Inst(r.head, nu)
  <2>1. \A i \in Place : r.head[i] \in Existentials[b] => r.head[i] \in r.exists
    BY <1>1, NetworkAssumption DEF VarsOf
  <2>2. \A i \in Place : Inst(r.head, mu)[i] = Inst(r.head, nu)[i]
    BY <1>1, <2>1 DEF Inst, Place
  <2> QED  BY <2>2 DEF Inst, Place
<1> HIDE DEF mu
<1> QED  BY <1>10, <1>11, <1>12

\* When a feed has come back and no goal cut it short, each rule has concluded
\* all that its body's solutions over the known facts call for: forward
\* chaining is complete on linear networks, whatever the order in which facts
\* are fed, sets are walked and propagations are nested.
THEOREM Completeness == Spec => []Complete
<1>1. NothingLost => Complete
  <2> SUFFICES ASSUME NothingLost, Idle, Goal \notin inferred_facts
               PROVE  \A r \in Rules : \A theta \in Solutions(r, Known) :
                          \E nu \in [r.exists -> Blank] :
                              Inst(Inst(r.head, nu), theta) \in Known
    BY DEF Complete
  <2>1. InProgress = {}
    BY DEF Idle, InProgress, Range
  <2>2. EveryFact({}, memories, Known) /\ EveryMatch({}, memories, Known)
    BY <2>1 DEF NothingLost, Exhaustive
  <2> QED  BY <2>2, RuleConcluded
<1> QED  BY <1>1, NothingIsLost, PTL
=============================================================================
