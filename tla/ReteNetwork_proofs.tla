------------------------- MODULE ReteNetwork_proofs -------------------------
(***************************************************************************)
(* Every network.  Lemmas about the operators of ReteNetwork, its type     *)
(* correctness, what a firing does, and what firings add up to.            *)
(***************************************************************************)
EXTENDS ReteCorrectness, SequenceTheorems, FiniteSetTheorems, WellFoundedInduction, TLAPS

(***************************************************************************)
(* Patterns and substitutions.                                             *)
(***************************************************************************)

\* The place bind_variables reads a variable at is a place of the variable.
LEMMA FirstPlaceOf ==
    ASSUME NEW p, NEW v \in VarsOf(p)
    PROVE  FirstPlace(p, v) \in Place /\ p[FirstPlace(p, v)] = v
<1> DEFINE first(i) == i \in Place /\ p[i] = v
                       /\ \A j \in Place : j < i => p[j] # v
<1>1. \E i \in Place : p[i] = v
  BY DEF VarsOf
<1>2. \E i : first(i)
  <2>1. CASE p[1] = v  BY <2>1 DEF Place
  <2>2. CASE p[1] # v /\ p[2] = v
    <3>1. first(2)  BY <2>2 DEF Place
    <3> QED  BY <3>1
  <2>3. CASE p[1] # v /\ p[2] # v
    <3>1. first(3)  BY <2>3, <1>1 DEF Place
    <3> QED  BY <3>1
  <2> QED  BY <2>1, <2>2, <2>3
<1>3. \E i \in Place : p[i] = v /\ \A j \in Place : j < i => p[j] # v
  BY <1>2
<1> QED  BY <1>3 DEF FirstPlace

\* What a token binds is a term for each variable of its pattern.
LEMMA BindType ==
    ASSUME NEW p, NEW w \in Triple
    PROVE  Bind(p, w) \in [VarsOf(p) -> Term]
BY FirstPlaceOf DEF Bind, Triple

\* Instantiating a pattern gives a pattern, and a triple once it is ground.
LEMMA InstType ==
    ASSUME NEW p \in Pattern, NEW theta,
           \A v \in DOMAIN theta : theta[v] \in Term
    PROVE  /\ Inst(p, theta) \in Pattern
           /\ Ground(Inst(p, theta)) => Inst(p, theta) \in Triple
<1>1. \A i \in Place : Inst(p, theta)[i] \in Term \cup Var
  BY DEF Inst, Pattern
<1>2. Inst(p, theta) = [i \in Place |-> Inst(p, theta)[i]]
  BY DEF Inst
<1>3. Inst(p, theta) \in Pattern
  BY <1>1, <1>2 DEF Pattern
<1>4. ASSUME Ground(Inst(p, theta))
      PROVE  Inst(p, theta) \in Triple
  <2>1. \A i \in Place : Inst(p, theta)[i] \in Term
    BY <1>1, <1>4 DEF Ground
  <2> QED  BY <2>1, <1>2 DEF Triple
<1> QED  BY <1>3, <1>4

\* The bindings of a partial instantiation are substitutions.
LEMMA BindingsType ==
    ASSUME NEW pi \in Partial
    PROVE  /\ Bindings(pi) \subseteq Substitution
           /\ Bindings(pi) \subseteq [VarsIn(pi) -> Term]
<1>1. VarsIn(pi) \subseteq Var
  BY DEF VarsIn, VarsOf
<1>2. \A v : ValuesOf(pi, v) \subseteq Term
  <2> SUFFICES ASSUME NEW v, NEW tok \in pi, v \in VarsOf(PatternOf[tok.node])
               PROVE  Binding(tok)[v] \in Term
    BY DEF ValuesOf
  <2>1. tok.wme \in Triple
    BY DEF Partial, Token
  <2> QED  BY <2>1, BindType DEF Binding
<1>3. \A theta \in Bindings(pi) : theta \in [VarsIn(pi) -> Term]
  BY <1>2 DEF Bindings
<1> QED  BY <1>1, <1>3 DEF Substitution
-----------------------------------------------------------------------------
(***************************************************************************)
(* Frames and the call stack.                                              *)
(***************************************************************************)

\* A loop that takes an item leaves a frame of the same call.
LEMMA TakeFrame ==
    ASSUME NEW f \in Frame, NEW x
    PROVE  [f EXCEPT !.todo = @ \ {x}] \in Frame
<1> DEFINE g == [f EXCEPT !.todo = @ \ {x}]
<1>1. CASE f \in [op : {"add_wme"}, wme : Triple, todo : SUBSET (DOMAIN AlphaOrder)]
  <2>1. g \in [op : {"add_wme"}, wme : Triple, todo : SUBSET (DOMAIN AlphaOrder)]
    BY <1>1
  <2> QED  BY <2>1 DEF Frame, ActivateCalls, FireCalls
<1>2. ASSUME NEW n \in Nodes,
             f \in [op : {"activate"}, node : {n}, pi : Partial,
                    todo : SUBSET (DOMAIN Descendents[n])]
      PROVE  g \in Frame
  <2>1. g \in [op : {"activate"}, node : {n}, pi : Partial,
               todo : SUBSET (DOMAIN Descendents[n])]
    BY <1>2
  <2> QED  BY <2>1 DEF Frame, ActivateCalls, FireCalls
<1>3. CASE f \in [op : {"join"}, node : BetaNodes, todo : SUBSET Partial]
  <2>1. g \in [op : {"join"}, node : BetaNodes, todo : SUBSET Partial]
    BY <1>3
  <2> QED  BY <2>1 DEF Frame, ActivateCalls, FireCalls
<1>4. CASE f \in [op : {"unify"}, node : BetaNodes, todo : SUBSET Substitution]
  <2>1. g \in [op : {"unify"}, node : BetaNodes, todo : SUBSET Substitution]
    BY <1>4
  <2> QED  BY <2>1 DEF Frame, ActivateCalls, FireCalls
<1>5. CASE f \in [op : {"fire"}, node : BetaNodes, pi : Partial, todo : SUBSET Pattern]
  <2>1. g \in [op : {"fire"}, node : BetaNodes, pi : Partial, todo : SUBSET Pattern]
    BY <1>5
  <2> QED  BY <2>1 DEF Frame, ActivateCalls, FireCalls
<1>6. CASE f \in [op : {"substitute"}, node : BetaNodes, rhs : Pattern,
                  todo : SUBSET Substitution]
  <2>1. g \in [op : {"substitute"}, node : BetaNodes, rhs : Pattern,
               todo : SUBSET Substitution]
    BY <1>6
  <2> QED  BY <2>1 DEF Frame, ActivateCalls, FireCalls
<1>7. CASE f \in [op : {"conclude"}, node : BetaNodes, rhs : Pattern,
                  triple : Triple, todo : {{}}]
  <2>1. g \in [op : {"conclude"}, node : BetaNodes, rhs : Pattern,
               triple : Triple, todo : {{}}]
    BY <1>7
  <2> QED  BY <2>1 DEF Frame, ActivateCalls, FireCalls
<1>8. CASE f \in ActivateCalls
  <2>1. PICK n \in Nodes : f \in [op : {"activate"}, node : {n}, pi : Partial,
                                 todo : SUBSET (DOMAIN Descendents[n])]
    BY <1>8 DEF ActivateCalls
  <2> QED  BY <2>1, <1>2
<1>9. \/ f \in [op : {"add_wme"}, wme : Triple, todo : SUBSET (DOMAIN AlphaOrder)]
      \/ f \in ActivateCalls
      \/ f \in [op : {"join"}, node : BetaNodes, todo : SUBSET Partial]
      \/ f \in [op : {"unify"}, node : BetaNodes, todo : SUBSET Substitution]
      \/ f \in FireCalls
  BY DEF Frame
<1> QED  BY <1>1, <1>3, <1>4, <1>5, <1>6, <1>7, <1>8, <1>9 DEF FireCalls

\* What the fields of a frame are, by the call it stands for.
LEMMA FrameFields ==
    ASSUME NEW f \in Frame
    PROVE  /\ f.op = "add_wme" =>
                 f.wme \in Triple /\ f.todo \subseteq DOMAIN AlphaOrder
           /\ f.op = "activate" => /\ f.node \in Nodes /\ f.pi \in Partial
                                   /\ f.todo \subseteq DOMAIN Descendents[f.node]
           /\ f.op = "join" => f.node \in BetaNodes /\ f.todo \subseteq Partial
           /\ f.op = "unify" => f.node \in BetaNodes /\ f.todo \subseteq Substitution
           /\ f.op = "fire" => /\ f.node \in BetaNodes /\ f.pi \in Partial
                               /\ f.todo \subseteq Pattern
           /\ f.op = "substitute" => /\ f.node \in BetaNodes /\ f.rhs \in Pattern
                                     /\ f.todo \subseteq Substitution
           /\ f.op = "conclude" => /\ f.node \in BetaNodes /\ f.rhs \in Pattern
                                   /\ f.triple \in Triple
BY DEF Frame, ActivateCalls, FireCalls

\* The frames of new calls.
LEMMA AddWmeFrame ==
    ASSUME NEW w \in Triple
    PROVE  AddWme(w) \in Frame
BY DEF AddWme, Frame

LEMMA ActivateFrame ==
    ASSUME NEW n \in Nodes, NEW pi \in Partial
    PROVE  Activate(n, pi) \in Frame
<1>1. DOMAIN Descendents[n] \subseteq Nat
  BY NetworkAssumption
<1>2. Activate(n, pi) \in ActivateCalls
  BY <1>1 DEF Activate, ActivateCalls
<1> QED  BY <1>2 DEF Frame

LEMMA JoinFrame ==
    ASSUME NEW b \in BetaNodes, NEW matches \in SUBSET Partial
    PROVE  Join(b, matches) \in Frame
BY DEF Join, Frame

LEMMA UnifyFrame ==
    ASSUME NEW b \in BetaNodes, NEW pi \in Partial
    PROVE  Unify(b, pi) \in Frame
BY BindingsType DEF Unify, Frame

LEMMA FireFrame ==
    ASSUME NEW b \in BetaNodes, NEW pi \in Partial,
           NEW nu \in [Existentials[b] -> Blank]
    PROVE  Fire(b, pi, nu) \in Frame
<1>1. \A v \in DOMAIN nu : nu[v] \in Term
  BY TermAssumption
<1>2. \A rhs \in Consequent[b] : rhs \in Pattern
  BY NetworkAssumption
<1>3. {Inst(rhs, nu) : rhs \in Consequent[b]} \subseteq Pattern
  BY <1>1, <1>2, InstType
<1> QED  BY <1>3 DEF Fire, Frame, FireCalls

LEMMA SubstituteFrame ==
    ASSUME NEW b \in BetaNodes, NEW pi \in Partial, NEW rhs \in Pattern
    PROVE  Substitute(b, pi, rhs) \in Frame
BY BindingsType DEF Substitute, Frame, FireCalls

LEMMA ConcludeFrame ==
    ASSUME NEW b \in BetaNodes, NEW rhs \in Pattern, NEW t \in Triple
    PROVE  Conclude(b, rhs, t) \in Frame
BY DEF Conclude, Frame, FireCalls

\* Propagating what a node puts into one of its memories is at most one call.
LEMMA PropagateFrames ==
    ASSUME NEW m \in Memories, NEW n \in Nodes, NEW pi \in Partial,
           NEW mems \in [Memories -> SUBSET Partial]
    PROVE  Propagate(m, n, pi, mems) \in Seq(Frame)
<1> DEFINE b == m.node
           opposite == mems[[node |-> b, side |-> Other(m.side)]]
           partners == UNION {Partners(b, opposite, theta) : theta \in Bindings(pi)}
           accepted == {x \in {pi} : Accepted(b, x)}
           joined   == {x \in {pi \cup y : y \in partners} :
                            m.side = LEFT => Kept(b, x)}
<1>1. b \in BetaNodes /\ b \in Nodes
  BY DEF Memories, Nodes
<1>2. opposite \subseteq Partial
  BY <1>1 DEF Memories, Other, LEFT, RIGHT
<1>3. joined \subseteq Partial /\ accepted \subseteq Partial
  <2>1. partners \subseteq Partial
    BY <1>2 DEF Partners
  <2>2. \A y \in partners : pi \cup y \in Partial
    BY <2>1 DEF Partial
  <2> QED  BY <2>2
<1>4. /\ Activate(b, pi) \in Frame /\ Unify(b, pi) \in Frame
      /\ Join(b, accepted) \in Frame /\ Join(b, joined) \in Frame
  <2> HIDE DEF b, accepted, joined
  <2> QED  BY <1>1, <1>3, ActivateFrame, UnifyFrame, JoinFrame
<1>5. Propagate(m, n, pi, mems) \in {<<>>, <<Activate(b, pi)>>, <<Unify(b, pi)>>,
                                     <<Join(b, accepted)>>, <<Join(b, joined)>>}
  BY DEF Propagate, NewJoin
<1>6. <<>> \in Seq(Frame) /\ \A f \in Frame : <<f>> \in Seq(Frame)
  OBVIOUS
<1> HIDE DEF b, accepted, joined
<1> QED  BY <1>4, <1>5, <1>6

\* The stack of frames of a kind S stays one when the innermost loop moves on,
\* calls what pushed holds, or returns.
LEMMA PushOnTail ==
    ASSUME NEW S, NEW stk \in Seq(S), stk # <<>>, NEW pushed \in Seq(S), NEW f \in S
    PROVE  /\ pushed \o <<f>> \o Tail(stk) \in Seq(S)
           /\ Tail(stk) \in Seq(S) /\ Head(stk) \in S
<1>1. Tail(stk) \in Seq(S) /\ Head(stk) \in S
  BY HeadTailProperties
<1>2. <<f>> \in Seq(S)
  OBVIOUS
<1>3. pushed \o <<f>> \in Seq(S)
  BY <1>2, ConcatProperties
<1> QED  BY <1>1, <1>3, ConcatProperties

LEMMA TakePushes ==
    ASSUME NEW S, stack \in Seq(S), stack # <<>>, NEW x, NEW pushed \in Seq(S),
           [Top EXCEPT !.todo = @ \ {x}] \in S, Take(x, pushed)
    PROVE  stack' \in Seq(S)
BY PushOnTail DEF Take

LEMMA TakeTypes ==
    ASSUME stack \in Seq(Frame), stack # <<>>, NEW x, NEW pushed \in Seq(Frame),
           Take(x, pushed)
    PROVE  stack' \in Seq(Frame)
<1>1. Top \in Frame
  BY PushOnTail, ActivateFrame, HeadTailProperties DEF Top
<1>2. [Top EXCEPT !.todo = @ \ {x}] \in Frame
  BY <1>1, TakeFrame
<1> QED  BY <1>2, TakePushes

\* The innermost frame is a frame with the fields of its call.
LEMMA TopFields ==
    ASSUME stack \in Seq(Frame), NEW op, In(op)
    PROVE  stack # <<>> /\ Top \in Frame /\ Top.op = op
BY HeadTailProperties DEF In, Top
-----------------------------------------------------------------------------
(***************************************************************************)
(* Type correctness: every step leaves every variable a value of its kind. *)
(***************************************************************************)

LEMMA FeedType == ASSUME TypeOK, NEW w \in Facts, Feed(w) PROVE TypeOK'
<1>1. w \in Triple /\ AddWme(w) \in Frame
  BY NetworkAssumption, AddWmeFrame
<1>2. stack' \in Seq(Frame)
  BY <1>1 DEF Feed
<1> QED  BY <1>1, <1>2 DEF Feed, TypeOK, notes

LEMMA ResetType == ASSUME TypeOK, NEW g \in Targets, Reset(g) PROVE TypeOK'
<1>1. inferred_facts' \subseteq Triple
  BY NetworkAssumption DEF Reset
<1>2. memories' \in [Memories -> SUBSET Partial]
  BY DEF Reset, Cleared, TypeOK
<1>3. instantiations' \in [BetaNodes -> Nat]
  BY DEF Reset
<1> QED  BY <1>1, <1>2, <1>3 DEF Reset, TypeOK

LEMMA AddWmeStepType == ASSUME TypeOK, AddWmeStep PROVE TypeOK'
<1>1. stack \in Seq(Frame) /\ In("add_wme")
  BY DEF TypeOK, AddWmeStep
<1>2. PICK i \in Top.todo :
          LET a == AlphaOrder[i]
          IN  Take(i, <<Activate(a, {[node |-> a, wme |-> Top.wme]})>>)
  BY DEF AddWmeStep
<1> DEFINE a == AlphaOrder[i]
<1>3. stack # <<>> /\ Top.wme \in Triple /\ i \in DOMAIN AlphaOrder
  BY <1>1, TopFields, FrameFields
<1>4. a \in AlphaNodes /\ a \in Nodes
  BY <1>3, NetworkAssumption DEF Nodes
<1>5. {[node |-> a, wme |-> Top.wme]} \in Partial
  BY <1>3, <1>4 DEF Partial, Token
<1>6. <<Activate(a, {[node |-> a, wme |-> Top.wme]})>> \in Seq(Frame)
  BY <1>4, <1>5, ActivateFrame
<1>7. stack' \in Seq(Frame)
  BY <1>1, <1>2, <1>3, <1>6, TakeTypes
<1> QED  BY <1>7 DEF TypeOK, AddWmeStep, facts, notes

LEMMA ActivateStepType == ASSUME TypeOK, ActivateStep PROVE TypeOK'
<1>1. stack \in Seq(Frame) /\ In("activate")
  BY DEF TypeOK, ActivateStep
<1>2. PICK i \in Top.todo :
          LET m    == Descendents[Top.node][i]
              mems == [memories EXCEPT ![m] = @ \cup {Top.pi}]
          IN  /\ memories' = mems
              /\ Take(i, Propagate(m, Top.node, Top.pi, mems))
  BY DEF ActivateStep
<1> DEFINE m    == Descendents[Top.node][i]
           mems == [memories EXCEPT ![m] = @ \cup {Top.pi}]
<1>3. /\ stack # <<>> /\ Top.node \in Nodes /\ Top.pi \in Partial
      /\ i \in DOMAIN Descendents[Top.node]
  BY <1>1, TopFields, FrameFields
<1>4. m \in Memories
  BY <1>3, NetworkAssumption
<1>5. mems \in [Memories -> SUBSET Partial]
  BY <1>3, <1>4 DEF TypeOK
<1>6. stack' \in Seq(Frame)
  BY <1>1, <1>2, <1>3, <1>4, <1>5, PropagateFrames, TakeTypes
<1> QED  BY <1>2, <1>5, <1>6 DEF TypeOK, ActivateStep, facts, notes

LEMMA JoinStepType == ASSUME TypeOK, JoinStep PROVE TypeOK'
<1>1. stack \in Seq(Frame) /\ In("join")
  BY DEF TypeOK, JoinStep
<1>2. PICK pi \in Top.todo : Take(pi, <<Activate(Top.node, pi)>>)
  BY DEF JoinStep
<1>3. stack # <<>> /\ Top.node \in Nodes /\ pi \in Partial
  BY <1>1, TopFields, FrameFields DEF Nodes
<1>4. <<Activate(Top.node, pi)>> \in Seq(Frame)
  BY <1>3, ActivateFrame
<1>5. stack' \in Seq(Frame)
  BY <1>1, <1>2, <1>3, <1>4, TakeTypes
<1> QED  BY <1>5 DEF TypeOK, JoinStep, facts, notes

LEMMA UnifyStepType == ASSUME TypeOK, UnifyStep PROVE TypeOK'
<1>1. stack \in Seq(Frame) /\ In("unify")
  BY DEF TypeOK, UnifyStep
<1>2. PICK theta \in Top.todo :
          LET joined == Unified(Top.node, theta)
          IN  Take(theta, IF joined = {} THEN <<>>
                          ELSE <<Activate(Top.node, joined)>>)
  BY DEF UnifyStep
<1> DEFINE b      == Top.node
           joined == Unified(b, theta)
<1>3. stack # <<>> /\ b \in BetaNodes /\ b \in Nodes
  BY <1>1, TopFields, FrameFields DEF Nodes
<1>4. joined \in Partial
  <2>1. \A s \in {LEFT, RIGHT} : memories[[node |-> b, side |-> s]] \subseteq Partial
    BY <1>3 DEF TypeOK, Memories
  <2> QED  BY <2>1 DEF Unified, Partners, Partial
<1>5. <<>> \in Seq(Frame) /\ <<Activate(b, joined)>> \in Seq(Frame)
  BY <1>3, <1>4, ActivateFrame
<1>6. stack' \in Seq(Frame)
  BY <1>1, <1>2, <1>3, <1>5, TakeTypes
<1> QED  BY <1>6 DEF TypeOK, UnifyStep, facts, notes

LEMMA FireConsequentType == ASSUME TypeOK, FireConsequent PROVE TypeOK'
<1>1. stack \in Seq(Frame) /\ In("activate") /\ Top.node \in BetaNodes
  BY DEF TypeOK, FireConsequent, Terminals
<1>2. PICK nu \in NewBlanks(Top.node) :
          /\ blanks' = blanks \cup {nu[x] : x \in DOMAIN nu}
          /\ stack' = <<Fire(Top.node, Top.pi, nu)>> \o Tail(stack)
  BY DEF FireConsequent
<1>3. stack # <<>> /\ Top.pi \in Partial
  BY <1>1, TopFields, FrameFields
<1>4. nu \in [Existentials[Top.node] -> Blank]
  BY DEF NewBlanks
<1>5. Fire(Top.node, Top.pi, nu) \in Frame
  BY <1>1, <1>3, <1>4, FireFrame
<1>6. stack' \in Seq(Frame)
  BY <1>1, <1>2, <1>3, <1>5, HeadTailProperties, ConcatProperties
<1>7. blanks' \subseteq Blank
  BY <1>2, <1>4 DEF TypeOK
<1>8. instanciating_tokens' \in [BetaNodes -> SUBSET Partial]
  BY <1>1, <1>3 DEF TypeOK, FireConsequent
<1> QED  BY <1>6, <1>7, <1>8 DEF TypeOK, FireConsequent, facts, notes

LEMMA FireStepType == ASSUME TypeOK, FireStep PROVE TypeOK'
<1>1. stack \in Seq(Frame) /\ In("fire")
  BY DEF TypeOK, FireStep
<1>2. PICK rhs \in Top.todo : \/ Take(rhs, <<>>)
                              \/ Take(rhs, <<Substitute(Top.node, Top.pi, rhs)>>)
  BY DEF FireStep
<1>3. stack # <<>> /\ Top.node \in BetaNodes /\ Top.pi \in Partial /\ rhs \in Pattern
  BY <1>1, TopFields, FrameFields
<1>4. <<>> \in Seq(Frame) /\ <<Substitute(Top.node, Top.pi, rhs)>> \in Seq(Frame)
  BY <1>3, SubstituteFrame
<1>5. stack' \in Seq(Frame)
  BY <1>1, <1>2, <1>3, <1>4, TakeTypes
<1> QED  BY <1>5 DEF TypeOK, FireStep, facts, notes

LEMMA SkipStepType == ASSUME TypeOK, SkipStep PROVE TypeOK'
<1>1. stack \in Seq(Frame) /\ stack # <<>>
  BY DEF TypeOK, SkipStep, In
<1>2. <<>> \in Seq(Frame) /\ \E theta : Take(theta, <<>>)
  BY DEF SkipStep
<1>3. stack' \in Seq(Frame)
  BY <1>1, <1>2, TakeTypes
<1> QED  BY <1>3 DEF TypeOK, SkipStep, facts, notes

LEMMA InferStepType == ASSUME TypeOK, InferStep PROVE TypeOK'
<1>1. stack \in Seq(Frame) /\ In("substitute")
  BY DEF TypeOK, InferStep
<1> DEFINE b == Top.node
<1>2. PICK theta \in Top.todo :
          LET t == Inst(Top.rhs, theta)
          IN  /\ Ground(t)
              /\ proof_tracers' = proof_tracers \cup {<<t, theta>>}
              /\ justifications' = justifications \cup {<<t, b>>}
              /\ filtered_facts' =
                    filtered_facts \cup (IF b \in FilterNodes THEN {t} ELSE {})
              /\ \/ /\ inferred_facts' = inferred_facts \cup {t}
                    /\ instantiations' = [instantiations EXCEPT ![b] = @ + 1]
                    /\ Take(theta, <<AddWme(t), Conclude(b, Top.rhs, t)>>)
                 \/ /\ Take(theta, <<>>)
                    /\ UNCHANGED <<inferred_facts, instantiations>>
  BY DEF InferStep
<1> DEFINE t == Inst(Top.rhs, theta)
<1>3. /\ stack # <<>> /\ b \in BetaNodes /\ Top.rhs \in Pattern
      /\ theta \in Substitution
  BY <1>1, TopFields, FrameFields
<1>4. t \in Triple
  <2>1. \A v \in DOMAIN theta : theta[v] \in Term
    BY <1>3 DEF Substitution
  <2> QED  BY <1>2, <1>3, <2>1, InstType
<1>5. <<>> \in Seq(Frame) /\ <<AddWme(t), Conclude(b, Top.rhs, t)>> \in Seq(Frame)
  BY <1>3, <1>4, AddWmeFrame, ConcludeFrame
<1>6. stack' \in Seq(Frame)
  BY <1>1, <1>2, <1>3, <1>5, TakeTypes
<1>7. inferred_facts' \subseteq Triple /\ filtered_facts' \subseteq Triple
  BY <1>2, <1>4 DEF TypeOK
<1>8. instantiations' \in [BetaNodes -> Nat]
  BY <1>2, <1>3 DEF TypeOK
<1>9. /\ justifications' \subseteq Triple \X BetaNodes
      /\ proof_tracers' \subseteq Triple \X Substitution
  BY <1>2, <1>3, <1>4 DEF TypeOK
<1> QED  BY <1>6, <1>7, <1>8, <1>9 DEF TypeOK, InferStep

LEMMA ConcludeStepType == ASSUME TypeOK, ConcludeStep PROVE TypeOK'
<1>1. stack \in Seq(Frame) /\ stack # <<>>
  BY DEF TypeOK, ConcludeStep, In
<1>2. <<>> \in Seq(Frame) /\ Tail(stack) \in Seq(Frame)
  BY <1>1, HeadTailProperties
<1>3. stack' \in Seq(Frame) /\ outcome' \in {"running", "returned", "raised"}
  BY <1>2 DEF ConcludeStep, TypeOK
<1> QED  BY <1>3 DEF TypeOK, ConcludeStep, facts, notes

LEMMA ReturnType == ASSUME TypeOK, Return PROVE TypeOK'
<1>1. stack \in Seq(Frame) /\ stack # <<>>
  BY DEF TypeOK, Return, Idle
<1>2. stack' \in Seq(Frame)
  BY <1>1, HeadTailProperties DEF Return
<1>3. outcome' \in {"running", "returned", "raised"}
  BY DEF Return, TypeOK
<1> QED  BY <1>2, <1>3 DEF TypeOK, Return, facts, notes

\* Every reachable state of a network, whatever its shape and however the
\* feeds, the resets and the registrations of callers interleave with the
\* sets it iterates over, has values of the declared kinds: the frames of the
\* call stack are calls the code makes, and only triples become facts.
THEOREM TypeCorrect == Spec => []TypeOK
<1>1. Init => TypeOK
  <2> SUFFICES ASSUME Init PROVE TypeOK
    OBVIOUS
  <2>1. inferred_facts \subseteq Triple
    BY NetworkAssumption DEF Init
  <2> QED  BY <2>1 DEF Init, TypeOK
<1>2. TypeOK /\ [Next]_vars => TypeOK'
  <2> SUFFICES ASSUME TypeOK, [Next]_vars PROVE TypeOK'
    OBVIOUS
  <2>1. CASE Step
    BY <2>1, AddWmeStepType, ActivateStepType, JoinStepType, UnifyStepType,
       FireConsequentType, FireStepType, SkipStepType, InferStepType,
       ConcludeStepType, ReturnType DEF Step
  <2>2. ASSUME NEW w \in Facts, Feed(w) PROVE TypeOK'
    BY <2>2, FeedType
  <2>3. ASSUME NEW g \in Targets, Reset(g) PROVE TypeOK'
    BY <2>3, ResetType
  <2>4. ASSUME NEW reg \in Registrations, RegisterAction(reg) PROVE TypeOK'
    BY <2>4 DEF RegisterAction, TypeOK, facts, notes
  <2>5. CASE UNCHANGED vars
    BY <2>5 DEF TypeOK, vars, facts, notes
  <2> QED  BY <2>1, <2>2, <2>3, <2>4, <2>5 DEF Next
<1> QED  BY <1>1, <1>2, PTL DEF Spec

(***************************************************************************)
(* What a firing does, for every network.  The triple a caller's action is *)
(* handed is already known, and an override keeps its terminal node from   *)
(* inferring: properties of steps, which follow from what the calls in     *)
(* progress were entered with.  And the firing counts of the conflict set  *)
(* add up to the triples inferred: a sum is a fold over a set, and what it *)
(* does when one of the counts goes up is proved by induction on the set.  *)
(***************************************************************************)

\* A triple of a consequent, its existentials replaced or not: the key of its
\* actions is that of a triple the rules give.
Consequential(b, h) == \E rhs \in Consequent[b] : ActionKey(h) = ActionKey(rhs)

\* What a call in progress was entered with still stands: the triple whose
\* propagation it waits for is inferred, the triples it is to conclude are of
\* the consequent of its node, and no override was registered meanwhile for
\* the triple it instantiates.
Settled ==
    {f \in Frame :
        /\ f.op = "conclude" => f.triple \in inferred_facts
        /\ f.op = "fire" => \A h \in f.todo : Consequential(f.node, h)
        /\ f.op = "substitute" => /\ Consequential(f.node, f.rhs)
                                  /\ ~Overridden(f.node, f.rhs)}

CallsSettled == TypeOK /\ stack \in Seq(Settled)
-----------------------------------------------------------------------------
\* Actions do not tell a consequent from what it is once blank nodes stand for
\* its existentials.
LEMMA KeyOfInstance ==
    ASSUME NEW b \in BetaNodes, NEW nu \in [Existentials[b] -> Blank], NEW rhs
    PROVE  ActionKey(Inst(rhs, nu)) = ActionKey(rhs)
<1> DEFINE Open == Blank \cup UNION {Existentials[n] : n \in BetaNodes}
           key(x) == IF x \in Open THEN NoTriple ELSE x
<1>1. ASSUME NEW i \in Place
      PROVE  key(Inst(rhs, nu)[i]) = key(rhs[i])
  <2>1. CASE rhs[i] \in Existentials[b]
    <3>1. Inst(rhs, nu)[i] \in Blank
      BY <2>1 DEF Inst
    <3> QED  BY <2>1, <3>1
  <2>2. CASE rhs[i] \notin Existentials[b]
    BY <2>2 DEF Inst
  <2> QED  BY <2>1, <2>2
<1>2. \A h : ActionKey(h) = [i \in Place |-> key(h[i])]
  BY DEF ActionKey
<1> HIDE DEF key
<1> QED  BY <1>1, <1>2

LEMMA OverriddenByKey ==
    ASSUME NEW b, NEW h, NEW rhs, ActionKey(h) = ActionKey(rhs)
    PROVE  Overridden(b, h) <=> Overridden(b, rhs)
BY DEF Overridden, ActionsFor

\* The frames of new calls.
LEMMA FireSettled ==
    ASSUME NEW b \in BetaNodes, NEW pi \in Partial,
           NEW nu \in [Existentials[b] -> Blank]
    PROVE  Fire(b, pi, nu) \in Settled
<1>1. \A h \in {Inst(rhs, nu) : rhs \in Consequent[b]} : Consequential(b, h)
  BY KeyOfInstance DEF Consequential
<1> QED  BY <1>1, FireFrame DEF Settled, Fire

LEMMA SubstituteSettled ==
    ASSUME NEW b \in BetaNodes, NEW pi \in Partial, NEW rhs \in Pattern,
           Consequential(b, rhs), ~Overridden(b, rhs)
    PROVE  Substitute(b, pi, rhs) \in Settled
BY SubstituteFrame DEF Settled, Substitute

\* The calls of the propagation promise nothing.
LEMMA OtherSettled ==
    ASSUME NEW f \in Frame, f.op \in {"add_wme", "activate", "join", "unify"}
    PROVE  f \in Settled
BY DEF Settled

LEMMA PropagateSettled ==
    ASSUME NEW m \in Memories, NEW n \in Nodes, NEW pi \in Partial,
           NEW mems \in [Memories -> SUBSET Partial]
    PROVE  Propagate(m, n, pi, mems) \in Seq(Settled)
<1>1. Propagate(m, n, pi, mems) \in Seq(Frame)
  BY PropagateFrames
<1>2. ASSUME NEW f, f.op \in {"activate", "unify", "join"},
             Propagate(m, n, pi, mems) = <<f>>
      PROVE  Propagate(m, n, pi, mems) \in Seq(Settled)
  <2>1. <<f>> \in Seq(Frame)
    BY <1>1, <1>2
  <2>2. f \in Frame
    BY <2>1
  <2>3. f \in Settled
    BY <1>2, <2>2, OtherSettled
  <2> QED  BY <1>2, <2>3
<1> DEFINE b == m.node
           accepted == {x \in {pi} : Accepted(b, x)}
           partners == UNION {Partners(b, mems[[node |-> b, side |-> Other(m.side)]],
                                       theta) : theta \in Bindings(pi)}
           joined   == {x \in {NewJoin(pi, y) : y \in partners} :
                            m.side = LEFT => Kept(b, x)}
<1>3. Propagate(m, n, pi, mems) \in {<<>>, <<Activate(b, pi)>>, <<Unify(b, pi)>>,
                                     <<Join(b, accepted)>>, <<Join(b, joined)>>}
  BY DEF Propagate
<1> HIDE DEF b, accepted, joined
<1>4. /\ Activate(b, pi).op = "activate" /\ Unify(b, pi).op = "unify"
      /\ Join(b, accepted).op = "join" /\ Join(b, joined).op = "join"
  BY DEF Activate, Unify, Join
<1>5. CASE Propagate(m, n, pi, mems) = <<>>
  BY <1>5
<1> QED  BY <1>2, <1>3, <1>4, <1>5

\* A loop that takes an item leaves a call that was entered with the same.
LEMMA TakeSettled ==
    ASSUME NEW f \in Settled, NEW x
    PROVE  [f EXCEPT !.todo = @ \ {x}] \in Settled
<1> DEFINE g == [f EXCEPT !.todo = @ \ {x}]
<1>1. f \in Frame
  BY DEF Settled
<1>2. g \in Frame
  BY <1>1, TakeFrame
<1>3. /\ g.op = f.op /\ g.todo = f.todo \ {x}
      /\ f.op # "add_wme" => g.node = f.node
      /\ f.op = "substitute" => g.rhs = f.rhs
      /\ f.op = "conclude" => g.triple = f.triple
  <2>1. CASE f \in ActivateCalls
    BY <2>1 DEF ActivateCalls
  <2>2. CASE f \in FireCalls
    BY <2>2 DEF FireCalls
  <2>3. CASE f \notin ActivateCalls \cup FireCalls
    BY <1>1, <2>3 DEF Frame
  <2> QED  BY <2>1, <2>2, <2>3
<1> HIDE DEF g
<1>4. g \in Settled
  BY <1>2, <1>3 DEF Settled
<1> QED  BY <1>4 DEF g

LEMMA TakeCallsSettled ==
    ASSUME CallsSettled, stack # <<>>, NEW x, NEW pushed \in Seq(Settled),
           Take(x, pushed)
    PROVE  stack' \in Seq(Settled)
<1>1. stack \in Seq(Settled)
  BY DEF CallsSettled
<1>2. Top \in Settled
  BY <1>1, HeadTailProperties DEF Top
<1>3. [Top EXCEPT !.todo = @ \ {x}] \in Settled
  BY <1>2, TakeSettled
<1> QED  BY <1>1, <1>3, TakePushes

\* The innermost call, and what it was entered with.
LEMMA TopSettled ==
    ASSUME CallsSettled, NEW op, In(op)
    PROVE  /\ stack # <<>> /\ Top \in Frame /\ Top.op = op
           /\ op = "conclude" => Top.triple \in inferred_facts
           /\ op = "fire" => \A h \in Top.todo : Consequential(Top.node, h)
           /\ op = "substitute" => /\ Consequential(Top.node, Top.rhs)
                                   /\ ~Overridden(Top.node, Top.rhs)
<1>1. stack \in Seq(Settled) /\ stack # <<>> /\ Top.op = op
  BY DEF CallsSettled, In
<1>2. Top \in Settled
  BY <1>1, HeadTailProperties DEF Top
<1> QED  BY <1>1, <1>2 DEF Settled

\* Inferring more and registering nothing unsettles no call.
LEMMA SettledStays ==
    ASSUME stack' \in Seq(Settled), inferred_facts \subseteq inferred_facts',
           UNCHANGED execute_actions
    PROVE  stack' \in Seq(Settled')
<1>1. \A b, h : Overridden(b, h)' <=> Overridden(b, h)
  BY DEF Overridden, ActionsFor
<1>2. Settled \subseteq Settled'
  BY <1>1 DEF Settled
<1> QED  BY <1>2, SeqMonotonic
-----------------------------------------------------------------------------
(***************************************************************************)
(* Every step leaves the calls in progress settled.                        *)
(***************************************************************************)

LEMMA AddWmeStepSettled ==
    ASSUME CallsSettled, AddWmeStep PROVE stack' \in Seq(Settled')
<1>1. PICK i \in Top.todo :
          LET a == AlphaOrder[i]
          IN  Take(i, <<Activate(a, {[node |-> a, wme |-> Top.wme]})>>)
  BY DEF AddWmeStep
<1> DEFINE a == AlphaOrder[i]
           call == Activate(a, {[node |-> a, wme |-> Top.wme]})
<1>2. stack # <<>> /\ Top.wme \in Triple /\ i \in DOMAIN AlphaOrder
  BY TopSettled, FrameFields DEF AddWmeStep
<1>3. a \in AlphaNodes /\ a \in Nodes
  BY <1>2, NetworkAssumption DEF Nodes
<1>4. call \in Frame
  BY <1>2, <1>3, ActivateFrame DEF Partial, Token
<1>5. call.op = "activate"
  BY DEF Activate
<1> HIDE DEF call
<1>6. <<call>> \in Seq(Settled)
  BY <1>4, <1>5, OtherSettled
<1>7. stack' \in Seq(Settled)
  BY <1>1, <1>2, <1>6, TakeCallsSettled DEF call
<1> QED  BY <1>7, SettledStays DEF AddWmeStep, facts

LEMMA ActivateStepSettled ==
    ASSUME CallsSettled, ActivateStep PROVE stack' \in Seq(Settled')
<1>1. PICK i \in Top.todo :
          LET m    == Descendents[Top.node][i]
              mems == [memories EXCEPT ![m] = @ \cup {Top.pi}]
          IN  Take(i, Propagate(m, Top.node, Top.pi, mems))
  BY DEF ActivateStep
<1> DEFINE m    == Descendents[Top.node][i]
           mems == [memories EXCEPT ![m] = @ \cup {Top.pi}]
<1>2. /\ stack # <<>> /\ Top.node \in Nodes /\ Top.pi \in Partial
      /\ i \in DOMAIN Descendents[Top.node]
  BY TopSettled, FrameFields DEF ActivateStep
<1>3. m \in Memories
  BY <1>2, NetworkAssumption
<1>4. mems \in [Memories -> SUBSET Partial]
  BY <1>2, <1>3 DEF CallsSettled, TypeOK
<1>5. Propagate(m, Top.node, Top.pi, mems) \in Seq(Settled)
  BY <1>2, <1>3, <1>4, PropagateSettled
<1>6. stack' \in Seq(Settled)
  BY <1>1, <1>2, <1>5, TakeCallsSettled
<1> QED  BY <1>6, SettledStays DEF ActivateStep, facts

LEMMA JoinStepSettled ==
    ASSUME CallsSettled, JoinStep PROVE stack' \in Seq(Settled')
<1>1. PICK pi \in Top.todo : Take(pi, <<Activate(Top.node, pi)>>)
  BY DEF JoinStep
<1>2. stack # <<>> /\ Top.node \in Nodes /\ pi \in Partial
  BY TopSettled, FrameFields DEF JoinStep, Nodes
<1>3. Activate(Top.node, pi) \in Settled
  BY <1>2, ActivateFrame, OtherSettled DEF Activate
<1>4. <<Activate(Top.node, pi)>> \in Seq(Settled)
  BY <1>3
<1>5. stack' \in Seq(Settled)
  BY <1>1, <1>2, <1>4, TakeCallsSettled
<1> QED  BY <1>5, SettledStays DEF JoinStep, facts

LEMMA UnifyStepSettled ==
    ASSUME CallsSettled, UnifyStep PROVE stack' \in Seq(Settled')
<1>1. PICK theta \in Top.todo :
          LET joined == Unified(Top.node, theta)
          IN  Take(theta, IF joined = {} THEN <<>>
                          ELSE <<Activate(Top.node, joined)>>)
  BY DEF UnifyStep
<1> DEFINE b      == Top.node
           joined == Unified(b, theta)
<1>2. stack # <<>> /\ b \in BetaNodes /\ b \in Nodes
  BY TopSettled, FrameFields DEF UnifyStep, Nodes
<1>3. joined \in Partial
  <2>1. \A s \in {LEFT, RIGHT} : memories[[node |-> b, side |-> s]] \subseteq Partial
    BY <1>2 DEF CallsSettled, TypeOK, Memories
  <2> QED  BY <2>1 DEF Unified, Partners, Partial
<1>4. Activate(b, joined) \in Settled
  BY <1>2, <1>3, ActivateFrame, OtherSettled DEF Activate
<1>5. <<>> \in Seq(Settled) /\ <<Activate(b, joined)>> \in Seq(Settled)
  BY <1>4
<1>6. stack' \in Seq(Settled)
  BY <1>1, <1>2, <1>5, TakeCallsSettled
<1> QED  BY <1>6, SettledStays DEF UnifyStep, facts

LEMMA FireConsequentSettled ==
    ASSUME CallsSettled, FireConsequent PROVE stack' \in Seq(Settled')
<1>1. PICK nu \in NewBlanks(Top.node) :
          stack' = <<Fire(Top.node, Top.pi, nu)>> \o Tail(stack)
  BY DEF FireConsequent
<1>2. stack # <<>> /\ Top.node \in BetaNodes /\ Top.pi \in Partial
  BY TopSettled, FrameFields DEF FireConsequent, Terminals
<1>3. Fire(Top.node, Top.pi, nu) \in Settled
  BY <1>2, FireSettled DEF NewBlanks
<1>4. <<Fire(Top.node, Top.pi, nu)>> \in Seq(Settled)
  BY <1>3
<1>5. stack' \in Seq(Settled)
  BY <1>1, <1>2, <1>4, HeadTailProperties, ConcatProperties DEF CallsSettled
<1> QED  BY <1>5, SettledStays DEF FireConsequent, facts

LEMMA FireStepSettled ==
    ASSUME CallsSettled, FireStep PROVE stack' \in Seq(Settled')
<1>1. PICK rhs \in Top.todo :
          \/ Take(rhs, <<>>)
          \/ /\ ~Overridden(Top.node, rhs)
             /\ Take(rhs, <<Substitute(Top.node, Top.pi, rhs)>>)
  BY DEF FireStep
<1>2. /\ stack # <<>> /\ Top.node \in BetaNodes /\ Top.pi \in Partial
      /\ rhs \in Pattern /\ Consequential(Top.node, rhs)
  BY TopSettled, FrameFields DEF FireStep
<1>3. CASE Take(rhs, <<>>)
  <2>1. <<>> \in Seq(Settled)
    OBVIOUS
  <2>2. stack' \in Seq(Settled)
    BY <1>2, <1>3, <2>1, TakeCallsSettled
  <2> QED  BY <2>2, SettledStays DEF FireStep, facts
<1>4. CASE /\ ~Overridden(Top.node, rhs)
           /\ Take(rhs, <<Substitute(Top.node, Top.pi, rhs)>>)
  <2>1. Substitute(Top.node, Top.pi, rhs) \in Settled
    BY <1>2, <1>4, SubstituteSettled
  <2>2. <<Substitute(Top.node, Top.pi, rhs)>> \in Seq(Settled)
    BY <2>1
  <2>3. stack' \in Seq(Settled)
    BY <1>2, <1>4, <2>2, TakeCallsSettled
  <2> QED  BY <2>3, SettledStays DEF FireStep, facts
<1> QED  BY <1>1, <1>3, <1>4

LEMMA SkipStepSettled ==
    ASSUME CallsSettled, SkipStep PROVE stack' \in Seq(Settled')
<1>1. PICK theta : Take(theta, <<>>)
  BY DEF SkipStep
<1>2. stack # <<>> /\ <<>> \in Seq(Settled)
  BY DEF SkipStep, In
<1>3. stack' \in Seq(Settled)
  BY <1>1, <1>2, TakeCallsSettled
<1> QED  BY <1>3, SettledStays DEF SkipStep, facts

\* The triple whose propagation is entered is inferred in the same step.
LEMMA InferStepSettled ==
    ASSUME CallsSettled, InferStep PROVE stack' \in Seq(Settled')
<1>1. PICK theta \in Top.todo :
          LET t == Inst(Top.rhs, theta)
          IN  /\ Ground(t)
              /\ \/ /\ inferred_facts' = inferred_facts \cup {t}
                    /\ Take(theta, <<AddWme(t), Conclude(Top.node, Top.rhs, t)>>)
                 \/ UNCHANGED inferred_facts /\ Take(theta, <<>>)
  BY DEF InferStep
<1> DEFINE b == Top.node
           t == Inst(Top.rhs, theta)
           calling == <<AddWme(t), Conclude(b, Top.rhs, t)>>
<1>2. /\ stack # <<>> /\ b \in BetaNodes /\ Top.rhs \in Pattern
      /\ theta \in Substitution
  BY TopSettled, FrameFields DEF InferStep
<1>3. t \in Triple
  <2>1. \A v \in DOMAIN theta : theta[v] \in Term
    BY <1>2 DEF Substitution
  <2> QED  BY <1>1, <1>2, <2>1, InstType
<1>4. CASE UNCHANGED inferred_facts /\ Take(theta, <<>>)
  <2>1. <<>> \in Seq(Settled)
    OBVIOUS
  <2>2. stack' \in Seq(Settled)
    BY <1>2, <1>4, <2>1, TakeCallsSettled
  <2> QED  BY <1>4, <2>2, SettledStays DEF InferStep
<1>5. CASE inferred_facts' = inferred_facts \cup {t} /\ Take(theta, calling)
  <2>1. AddWme(t) \in Frame /\ Conclude(b, Top.rhs, t) \in Frame
    BY <1>2, <1>3, AddWmeFrame, ConcludeFrame
  <2>2. AddWme(t) \in Settled' /\ Conclude(b, Top.rhs, t) \in Settled'
    BY <1>5, <2>1 DEF Settled, AddWme, Conclude
  <2>3. Settled \subseteq Settled'
    <3>1. \A n, h : Overridden(n, h)' <=> Overridden(n, h)
      BY DEF InferStep, Overridden, ActionsFor
    <3> QED  BY <1>5, <3>1 DEF Settled
  <2>4. stack \in Seq(Settled) /\ stack \in Seq(Settled')
    BY <2>3, SeqMonotonic DEF CallsSettled
  <2>5. [Top EXCEPT !.todo = @ \ {theta}] \in Settled'
    <3>1. Top \in Settled
      BY <1>2, <2>4, HeadTailProperties DEF Top
    <3> QED  BY <2>3, <3>1, TakeSettled
  <2>6. calling \in Seq(Settled')
    BY <2>2
  <2> HIDE DEF calling
  <2> QED  BY <1>2, <1>5, <2>4, <2>5, <2>6, TakePushes
<1> QED  BY <1>1, <1>4, <1>5

\* A call that returns leaves those below it as they are.
LEMMA PopSettled ==
    ASSUME CallsSettled, stack # <<>>, stack' \in {<<>>, Tail(stack)},
           UNCHANGED <<inferred_facts, execute_actions>>
    PROVE  stack' \in Seq(Settled')
<1>1. stack \in Seq(Settled)
  BY DEF CallsSettled
<1>2. <<>> \in Seq(Settled) /\ Tail(stack) \in Seq(Settled)
  BY <1>1, HeadTailProperties
<1> QED  BY <1>2, SettledStays

\* Callers call while no call is in progress: the resets that forget facts and
\* the registrations that change what is overridden find the stack empty.
LEMMA CallerSettled ==
    ASSUME TypeOK', Idle, \/ stack' = <<>>
                          \/ \E w : stack' = <<AddWme(w)>>
    PROVE  stack' \in Seq(Settled')
<1>1. CASE stack' = <<>>
  BY <1>1
<1>2. CASE \E w : stack' = <<AddWme(w)>>
  <2>1. PICK w : stack' = <<AddWme(w)>>
    BY <1>2
  <2>2. AddWme(w) \in Frame
    BY <2>1 DEF TypeOK
  <2>3. AddWme(w) \in Settled'
    BY <2>2 DEF Settled, AddWme
  <2> QED  BY <2>1, <2>3
<1> QED  BY <1>1, <1>2

LEMMA CallsSettledAlways == Spec => []CallsSettled
<1>1. Init => stack \in Seq(Settled)
  BY DEF Init
<1>2. ASSUME TypeOK, TypeOK', stack \in Seq(Settled), [Next]_vars
      PROVE  stack' \in Seq(Settled')
  <2>1. CallsSettled
    BY <1>2 DEF CallsSettled
  <2>2. CASE ConcludeStep
    BY <2>1, <2>2, PopSettled DEF ConcludeStep, In, facts
  <2>3. CASE Return
    BY <2>1, <2>3, PopSettled DEF Return, Idle, facts
  <2>4. CASE Step
    BY <2>1, <2>2, <2>3, <2>4, AddWmeStepSettled, ActivateStepSettled,
       JoinStepSettled, UnifyStepSettled, FireConsequentSettled, FireStepSettled,
       SkipStepSettled, InferStepSettled DEF Step
  <2>5. ASSUME NEW w \in Facts, Feed(w) PROVE stack' \in Seq(Settled')
    BY <1>2, <2>5, CallerSettled DEF Feed
  <2>6. ASSUME NEW g \in Targets, Reset(g) PROVE stack' \in Seq(Settled')
    BY <1>2, <2>6, CallerSettled DEF Reset, Idle
  <2>7. ASSUME NEW reg \in Registrations, RegisterAction(reg)
        PROVE  stack' \in Seq(Settled')
    BY <1>2, <2>7, CallerSettled DEF RegisterAction, Idle
  <2>8. CASE UNCHANGED vars
    BY <1>2, <2>8, SettledStays DEF vars, facts
  <2> QED  BY <1>2, <2>4, <2>5, <2>6, <2>7, <2>8 DEF Next
<1>3. TypeOK /\ TypeOK' /\ stack \in Seq(Settled) /\ [Next]_vars
          => (stack \in Seq(Settled))'
  BY <1>2
<1> QED  BY <1>1, <1>3, TypeCorrect, PTL DEF Spec, CallsSettled
-----------------------------------------------------------------------------
(***************************************************************************)
(* What that means for the actions of callers.                             *)
(***************************************************************************)

\* A step that calls an action hands it a known triple, one with a variable
\* left, or none.
LEMMA StepSeesTriple ==
    ASSUME CallsSettled, [Next]_vars, NEW call \in calls' \ calls,
           call.triple # NoTriple, Ground(call.triple)
    PROVE  call.triple \in Known
<1>1. CASE FireStep
  <2>1. \E rhs : Act(Top.node, rhs, NoTriple)
    BY <1>1 DEF FireStep
  <2> QED  BY <2>1 DEF Act
<1>2. CASE SkipStep
  <2>1. PICK theta : /\ ~Ground(Inst(Top.rhs, theta))
                     /\ Act(Top.node, Top.rhs, Inst(Top.rhs, theta))
    BY <1>2 DEF SkipStep
  <2> QED  BY <2>1 DEF Act
<1>3. CASE InferStep
  <2>1. PICK t : ~IsNew(t) /\ Act(Top.node, Top.rhs, t)
    BY <1>3 DEF InferStep
  <2> QED  BY <2>1 DEF Act, IsNew, Known
<1>4. CASE ConcludeStep
  <2>1. Top.triple \in inferred_facts /\ Act(Top.node, Top.rhs, Top.triple)
    BY <1>4, TopSettled DEF ConcludeStep
  <2> QED  BY <2>1 DEF Act, Known
<1>5. calls' # calls
  OBVIOUS
<1> QED  BY <1>1, <1>2, <1>3, <1>4, <1>5
         DEF Next, Step, vars, notes, facts, Feed, Reset, RegisterAction,
             AddWmeStep, ActivateStep, JoinStep, UnifyStep, FireConsequent, Return

\* An action that is handed a triple without variables finds it among the
\* known facts, in every network and however deep in nested propagations
\* fire_consequent comes to call it.
THEOREM ActionsSeeKnownTriples == Spec => ActionsSeeTheirTriple
<1>1. CallsSettled /\ [Next]_vars
        => [\A call \in calls' \ calls :
              call.triple # NoTriple /\ Ground(call.triple)
                => call.triple \in Known]_vars
  BY StepSeesTriple
<1> QED  BY <1>1, CallsSettledAlways, PTL DEF Spec, ActionsSeeTheirTriple

\* The node that infers has a triple in its consequent that no override holds
\* back; every other count stays, or is reset to zero.
LEMMA StepBypassed ==
    ASSUME CallsSettled, [Next]_vars, NEW b \in Terminals,
           \A rhs \in Consequent[b] : Overridden(b, rhs)
    PROVE  instantiations'[b] <= instantiations[b]
<1>1. instantiations \in [BetaNodes -> Nat] /\ b \in BetaNodes
  BY DEF CallsSettled, TypeOK, Terminals
<1>2. CASE InferStep
  <2>1. Consequential(Top.node, Top.rhs) /\ ~Overridden(Top.node, Top.rhs)
    BY <1>2, TopSettled DEF InferStep
  <2>2. PICK rhs \in Consequent[Top.node] : ActionKey(Top.rhs) = ActionKey(rhs)
    BY <2>1 DEF Consequential
  <2>3. ~Overridden(Top.node, rhs)
    BY <2>1, <2>2, OverriddenByKey
  <2>4. b # Top.node
    BY <2>2, <2>3
  <2>5. \/ instantiations' = [instantiations EXCEPT ![Top.node] = @ + 1]
        \/ UNCHANGED instantiations
    BY <1>2 DEF InferStep
  <2> QED  BY <1>1, <2>4, <2>5
<1>3. CASE \E g \in Targets : Reset(g)
  BY <1>1, <1>3 DEF Reset
<1>4. CASE UNCHANGED instantiations
  BY <1>1, <1>4
<1> QED  BY <1>2, <1>3, <1>4
         DEF Next, Step, vars, notes, Feed, RegisterAction,
             AddWmeStep, ActivateStep, JoinStep, UnifyStep, FireConsequent,
             FireStep, SkipStep, ConcludeStep, Return

\* A terminal node whose whole consequent is under overriding actions infers
\* nothing, in every network: neither what it is to fire next nor what it was
\* already firing when the actions were looked up.
THEOREM OverrideBypasses == Spec => OverrideBypassesInference
<1>1. CallsSettled /\ [Next]_vars
        => [\A b \in Terminals :
              (\A rhs \in Consequent[b] :
                    \E action \in ActionsFor(b, rhs) : action.override)
                => instantiations'[b] <= instantiations[b]]_vars
  BY StepBypassed DEF Overridden
<1> QED  BY <1>1, CallsSettledAlways, PTL DEF Spec, OverrideBypassesInference

(***************************************************************************)
(* Sums.                                                                   *)
(***************************************************************************)
LEMMA LeastNumber ==
    ASSUME NEW T, T \subseteq Nat, T # {}
    PROVE  \E n \in T : \A m \in T : n <= m
<1>1. PICK n \in T : \A m \in T : <<m, n>> \notin OpToRel(<, Nat)
  BY NatLessThanWellFounded, WFMin
<1>2. ASSUME NEW m \in T
      PROVE  n <= m
  <2>1. ~(m < n)
    BY <1>1 DEF OpToRel
  <2> QED  BY <2>1
<1> QED  BY <1>2

\* The element a fold takes next, and the value it gives a set.
Pick(s) == CHOOSE x \in s : TRUE
SumAt(f, sum, s) == IF s = {} THEN 0 ELSE f[Pick(s)] + sum[s \ {Pick(s)}]

\* sum gives the sums of f over the subsets of S with at most n elements.
UpTo(S, n) == {s \in SUBSET S : Cardinality(s) <= n}
SumsUpTo(f, S, n, sum) == sum = [s \in UpTo(S, n) |-> SumAt(f, sum, s)]

LEMMA PickSmaller ==
    ASSUME NEW S, IsFiniteSet(S), NEW s \in SUBSET S, s # {}
    PROVE  /\ Pick(s) \in s /\ s \ {Pick(s)} \in SUBSET S
           /\ Cardinality(s \ {Pick(s)}) = Cardinality(s) - 1
           /\ Cardinality(s) \in Nat /\ Cardinality(s) # 0
           /\ IsFiniteSet(s)
<1>1. Pick(s) \in s
  BY DEF Pick
<1>2. IsFiniteSet(s)
  BY FS_Subset
<1>3. Cardinality(s) \in Nat /\ Cardinality(s) # 0
  BY <1>2, FS_CardinalityType, FS_EmptySet
<1>4. Cardinality(s \ {Pick(s)}) = Cardinality(s) - 1
  BY <1>1, <1>2, FS_RemoveElement
<1> QED  BY <1>1, <1>2, <1>3, <1>4

\* The fold is defined: sums over larger subsets extend those over smaller ones.
LEMMA SumsExist ==
    ASSUME NEW f, NEW S, IsFiniteSet(S), NEW n \in Nat
    PROVE  \E sum : SumsUpTo(f, S, n, sum)
<1> DEFINE Missing == {m \in Nat : ~\E sum : SumsUpTo(f, S, m, sum)}
<1>1. SUFFICES ASSUME Missing # {}
               PROVE  FALSE
  OBVIOUS
<1>2. PICK m \in Missing : \A k \in Missing : m <= k
  <2>1. Missing \subseteq Nat
    OBVIOUS
  <2> QED  BY <1>1, <2>1, LeastNumber
<1>3. \E sum : SumsUpTo(f, S, m, sum)
  <2>1. CASE m = 0
    <3> DEFINE sum == [s \in UpTo(S, m) |-> 0]
    <3>1. ASSUME NEW s \in UpTo(S, m)
          PROVE  s = {}
      <4>1. s \in SUBSET S /\ Cardinality(s) <= 0
        BY <2>1 DEF UpTo
      <4>2. s # {} => Cardinality(s) \in Nat /\ Cardinality(s) # 0
        BY <4>1, PickSmaller
      <4> QED  BY <4>1, <4>2
    <3>2. SumsUpTo(f, S, m, sum)
      BY <3>1 DEF SumsUpTo, SumAt
    <3> QED  BY <3>2
  <2>2. CASE m # 0
    <3>1. m \in Nat
      BY <1>2
    <3> HIDE DEF Missing
    <3>2. m - 1 \in Nat /\ m - 1 \notin Missing
      BY <1>2, <2>2, <3>1
    <3>3. PICK less : SumsUpTo(f, S, m - 1, less)
      BY <3>2 DEF Missing
    <3> DEFINE sum == [s \in UpTo(S, m) |-> SumAt(f, less, s)]
    <3>4. ASSUME NEW s \in UpTo(S, m)
          PROVE  SumAt(f, less, s) = SumAt(f, sum, s)
      <4>1. CASE s = {}
        BY <4>1 DEF SumAt
      <4>2. CASE s # {}
        <5> DEFINE t == s \ {Pick(s)}
        <5>1. t \in UpTo(S, m - 1) /\ t \in UpTo(S, m)
          <6>1. Cardinality(t) = Cardinality(s) - 1 /\ t \in SUBSET S /\ Cardinality(s) \in Nat
            BY <4>2, PickSmaller DEF UpTo
          <6>2. Cardinality(s) <= m
            BY DEF UpTo
          <6>3. Cardinality(t) <= m - 1 /\ Cardinality(t) <= m
            BY <3>1, <6>1, <6>2
          <6> QED  BY <6>1, <6>3 DEF UpTo
        <5> HIDE DEF t
        <5>2. less[t] = SumAt(f, less, t)
          BY <3>3, <5>1 DEF SumsUpTo
        <5>3. sum[t] = SumAt(f, less, t)
          BY <5>1
        <5> QED  BY <4>2, <5>2, <5>3 DEF SumAt, t
      <4> QED  BY <4>1, <4>2
    <3>5. SumsUpTo(f, S, m, sum)
      BY <3>4 DEF SumsUpTo
    <3> QED  BY <3>5
  <2> QED  BY <2>1, <2>2
<1> QED  BY <1>2, <1>3

\* So a sum is what its recursion says, for all subsets at once.
Sums(f, S) == CHOOSE sum : sum = [s \in SUBSET S |-> SumAt(f, sum, s)]
Total(f, S) == MapThenSumSet(LAMBDA x : f[x], S)

LEMMA TotalIs == ASSUME NEW f, NEW S PROVE Total(f, S) = Sums(f, S)[S]
BY DEF Total, MapThenSumSet, MapThenFoldSet, Sums, SumAt, Pick

LEMMA SumsOf ==
    ASSUME NEW f, NEW S, IsFiniteSet(S), NEW s \in SUBSET S
    PROVE  Sums(f, S)[s] = IF s = {} THEN 0 ELSE f[Pick(s)] + Sums(f, S)[s \ {Pick(s)}]
<1>1. Cardinality(S) \in Nat
  BY FS_CardinalityType
<1>2. UpTo(S, Cardinality(S)) = SUBSET S
  <2>1. ASSUME NEW r \in SUBSET S
        PROVE  Cardinality(r) <= Cardinality(S)
    BY FS_Subset
  <2> QED  BY <2>1 DEF UpTo
<1>3. PICK sum : SumsUpTo(f, S, Cardinality(S), sum)
  BY <1>1, SumsExist
<1>4. sum = [r \in SUBSET S |-> SumAt(f, sum, r)]
  BY <1>2, <1>3 DEF SumsUpTo
<1>5. Sums(f, S) = [r \in SUBSET S |-> SumAt(f, Sums(f, S), r)]
  BY <1>4 DEF Sums
<1>6. Sums(f, S)[s] = SumAt(f, Sums(f, S), s)
  BY <1>5
<1> QED  BY <1>6 DEF SumAt

LEMMA SumOfEmpty ==
    ASSUME NEW f, NEW S, IsFiniteSet(S)
    PROVE  Sums(f, S)[{}] = 0
BY SumsOf

LEMMA SumOfOthers ==
    ASSUME NEW f, NEW S, IsFiniteSet(S), NEW s \in SUBSET S, s # {}
    PROVE  Sums(f, S)[s] = f[Pick(s)] + Sums(f, S)[s \ {Pick(s)}]
BY SumsOf

\* A property of the empty set that passes from a set less the element picked to
\* the set, in the form of the set of subsets that have it.
LEMMA SubsetInduction ==
    ASSUME NEW S, IsFiniteSet(S), NEW P, {} \in P,
           ASSUME NEW s \in SUBSET S, s # {}, s \ {Pick(s)} \in P
           PROVE  s \in P
    PROVE  SUBSET S \subseteq P
<1> DEFINE Sizes == {n \in Nat : \E s \in SUBSET S : s \notin P /\ Cardinality(s) = n}
<1>1. SUFFICES ASSUME NEW r \in SUBSET S, r \notin P
               PROVE  FALSE
  OBVIOUS
<1>2. r # {}
  BY <1>1
<1>3. Cardinality(r) \in Sizes
  BY <1>1, <1>2, PickSmaller
<1>4. PICK n \in Sizes : \A k \in Sizes : n <= k
  <2>1. Sizes \subseteq Nat /\ Sizes # {}
    BY <1>3
  <2> QED  BY <2>1, LeastNumber
<1>5. PICK s \in SUBSET S : s \notin P /\ Cardinality(s) = n
  BY <1>4
<1>6. s # {}
  BY <1>5
<1>7. /\ s \ {Pick(s)} \in SUBSET S
      /\ Cardinality(s \ {Pick(s)}) = n - 1 /\ n - 1 \in Nat
  BY <1>5, <1>6, PickSmaller
<1>8. s \ {Pick(s)} \in P
  BY <1>4, <1>7
<1> QED  BY <1>5, <1>6, <1>8

LEMMA SumOfZeros ==
    ASSUME NEW S, IsFiniteSet(S), NEW f, \A x \in S : f[x] = 0
    PROVE  Total(f, S) = 0
<1> DEFINE P == {s \in SUBSET S : Sums(f, S)[s] = 0}
<1>1. {} \in P
  BY SumOfEmpty
<1>2. ASSUME NEW s \in SUBSET S, s # {}, s \ {Pick(s)} \in P
      PROVE  s \in P
  <2>1. Pick(s) \in S
    BY <1>2, PickSmaller
  <2>2. f[Pick(s)] = 0
    BY <2>1
  <2>3. Sums(f, S)[s] = f[Pick(s)] + Sums(f, S)[s \ {Pick(s)}]
    BY <1>2, SumOfOthers
  <2> QED  BY <1>2, <2>2, <2>3
<1> HIDE DEF P
<1>3. SUBSET S \subseteq P
  BY <1>1, <1>2, SubsetInduction
<1>4. Sums(f, S)[S] = 0
  BY <1>3 DEF P
<1> QED  BY <1>4, TotalIs

\* One count goes up by one, and so does the sum.
LEMMA SumStep ==
    ASSUME NEW S, IsFiniteSet(S), NEW f \in [S -> Nat], NEW b \in S,
           NEW g, \A x \in S : g[x] = f[x] + (IF x = b THEN 1 ELSE 0)
    PROVE  Total(f, S) \in Nat /\ Total(g, S) = Total(f, S) + 1
<1> DEFINE more(s) == IF b \in s THEN 1 ELSE 0
           P == {s \in SUBSET S : /\ Sums(f, S)[s] \in Nat
                                  /\ Sums(g, S)[s] = Sums(f, S)[s] + more(s)}
<1>1. {} \in P
  BY SumOfEmpty
<1>2. ASSUME NEW s \in SUBSET S, s # {}, s \ {Pick(s)} \in P
      PROVE  s \in P
  <2> DEFINE x == Pick(s)
             t == s \ {x}
  <2>1. x \in s /\ x \in S
    BY <1>2, PickSmaller
  <2>2. Sums(f, S)[s] = f[x] + Sums(f, S)[t]
    BY <1>2, SumOfOthers
  <2>3. Sums(g, S)[s] = g[x] + Sums(g, S)[t]
    BY <1>2, SumOfOthers
  <2>4. Sums(f, S)[t] \in Nat /\ Sums(g, S)[t] = Sums(f, S)[t] + more(t)
    BY <1>2
  <2>5. f[x] \in Nat /\ g[x] = f[x] + (IF x = b THEN 1 ELSE 0)
    BY <2>1
  <2>6. more(s) = more(t) + (IF x = b THEN 1 ELSE 0)
    BY <2>1
  <2> HIDE DEF x, t
  <2>7. Sums(f, S)[s] \in Nat /\ Sums(g, S)[s] = Sums(f, S)[s] + more(s)
    BY <2>2, <2>3, <2>4, <2>5, <2>6
  <2> QED  BY <1>2, <2>7
<1> HIDE DEF P
<1>3. SUBSET S \subseteq P
  BY <1>1, <1>2, SubsetInduction
<1>4. Sums(f, S)[S] \in Nat /\ Sums(g, S)[S] = Sums(f, S)[S] + 1
  BY <1>3 DEF P
<1> QED  BY <1>4, TotalIs

(***************************************************************************)
(* The counts.                                                             *)
(***************************************************************************)
Counted == IsFiniteSet(inferred_facts) /\ Total(instantiations, BetaNodes) = Cardinality(inferred_facts)
IInv == TypeOK /\ Counted

LEMMA CountsTotal == CountsAgree <=> Total(instantiations, BetaNodes) = Cardinality(inferred_facts)
BY DEF CountsAgree, Total

\* A network that has inferred nothing has counted nothing.
LEMMA NothingCounted ==
    ASSUME IsFiniteSet(BetaNodes)
    PROVE  /\ IsFiniteSet({}) /\ Cardinality({}) = 0
           /\ Total([b \in BetaNodes |-> 0], BetaNodes) = 0
BY SumOfZeros, FS_EmptySet

LEMMA InitCounted ==
    ASSUME IsFiniteSet(BetaNodes), Targets \subseteq {{}}, Init
    PROVE  Counted
<1>1. inferred_facts = {} /\ instantiations = [b \in BetaNodes |-> 0]
  BY DEF Init
<1> QED  BY <1>1, NothingCounted DEF Counted

LEMMA ResetCounted ==
    ASSUME IsFiniteSet(BetaNodes), Targets \subseteq {{}}, NEW g \in Targets, Reset(g)
    PROVE  Counted'
<1>1. inferred_facts' = {} /\ instantiations' = [b \in BetaNodes |-> 0]
  BY DEF Reset
<1> QED  BY <1>1, NothingCounted DEF Counted

\* The first terminal node to infer a triple counts it, and nothing else does:
\* the test that the triple is new and the increment are one step, however deep
\* in nested propagations.
LEMMA InferStepCounted ==
    ASSUME IsFiniteSet(BetaNodes), IInv, InferStep
    PROVE  Counted'
<1>1. CASE UNCHANGED <<inferred_facts, instantiations>>
  BY <1>1 DEF IInv, Counted
<1>2. CASE ~UNCHANGED <<inferred_facts, instantiations>>
  <2>1. Top \in Frame /\ Top.op = "substitute"
    <3>1. stack \in Seq(Frame) /\ stack # <<>>
      BY DEF IInv, TypeOK, InferStep, In
    <3> QED  BY <3>1, HeadTailProperties DEF Top, InferStep, In
  <2>2. Top.node \in BetaNodes
    BY <2>1, FrameFields
  <2>3. PICK theta \in Top.todo :
          /\ IsNew(Inst(Top.rhs, theta))
          /\ inferred_facts' = inferred_facts \cup {Inst(Top.rhs, theta)}
          /\ instantiations' = [instantiations EXCEPT ![Top.node] = @ + 1]
    BY <1>2 DEF InferStep
  <2> DEFINE t == Inst(Top.rhs, theta)
  <2>4. t \notin inferred_facts
    BY <2>3 DEF IsNew
  <2>5. IsFiniteSet(inferred_facts) /\ Total(instantiations, BetaNodes) = Cardinality(inferred_facts)
    BY DEF IInv, Counted
  <2> HIDE DEF t
  <2>6. /\ IsFiniteSet(inferred_facts \cup {t})
        /\ Cardinality(inferred_facts \cup {t}) = Cardinality(inferred_facts) + 1
    BY <2>4, <2>5, FS_AddElement
  <2>7. instantiations \in [BetaNodes -> Nat]
    BY DEF IInv, TypeOK
  <2>8. \A b \in BetaNodes :
          instantiations'[b] = instantiations[b] + (IF b = Top.node THEN 1 ELSE 0)
    BY <2>2, <2>3, <2>7
  <2> DEFINE counts == instantiations'
  <2>9. Total(counts, BetaNodes) = Total(instantiations, BetaNodes) + 1
    <3>1. \A b \in BetaNodes : counts[b] = instantiations[b] + (IF b = Top.node THEN 1 ELSE 0)
      BY <2>8
    <3> HIDE DEF counts
    <3> QED  BY <2>2, <2>7, <3>1, SumStep
  <2>10. inferred_facts' = inferred_facts \cup {t}
    BY <2>3 DEF t
  <2> QED  BY <2>5, <2>6, <2>9, <2>10 DEF Counted
<1> QED  BY <1>1, <1>2

\* A triple is first inferred by one terminal node, whatever re-enters add_wme
\* meanwhile: in a network whose callers start from empty graphs, the counts of
\* the conflict set (instantiations) add up to the inferred facts in every state.
THEOREM FiringsCounted ==
    ASSUME IsFiniteSet(BetaNodes), Targets \subseteq {{}}
    PROVE  Spec => []CountsAgree
<1>1. Init => Counted
  BY InitCounted
<1>2. TypeOK /\ Counted /\ [Next]_vars => Counted'
  <2> SUFFICES ASSUME TypeOK, Counted, [Next]_vars
               PROVE  Counted'
    OBVIOUS
  <2>1. ASSUME NEW w \in Facts, Feed(w)
        PROVE  Counted'
    BY <2>1 DEF Feed, Counted, notes
  <2>2. ASSUME NEW g \in Targets, Reset(g)
        PROVE  Counted'
    BY <2>2, ResetCounted
  <2>3. ASSUME NEW reg \in Registrations, RegisterAction(reg)
        PROVE  Counted'
    BY <2>3 DEF RegisterAction, Counted, facts, notes
  <2>4. CASE AddWmeStep
    BY <2>4 DEF AddWmeStep, Counted, facts, notes
  <2>5. CASE ActivateStep
    BY <2>5 DEF ActivateStep, Counted, facts, notes
  <2>6. CASE JoinStep
    BY <2>6 DEF JoinStep, Counted, facts, notes
  <2>7. CASE UnifyStep
    BY <2>7 DEF UnifyStep, Counted, facts, notes
  <2>8. CASE FireConsequent
    BY <2>8 DEF FireConsequent, Counted, facts, notes
  <2>9. CASE FireStep
    BY <2>9 DEF FireStep, Counted, facts, notes
  <2>10. CASE SkipStep
    BY <2>10 DEF SkipStep, Counted, facts, notes
  <2>11. CASE InferStep
    BY <2>11, InferStepCounted DEF IInv
  <2>12. CASE ConcludeStep
    BY <2>12 DEF ConcludeStep, Counted, facts, notes
  <2>13. CASE Return
    BY <2>13 DEF Return, Counted, facts, notes
  <2>14. CASE UNCHANGED vars
    BY <2>14 DEF vars, Counted, facts, notes
  <2> QED  BY <2>1, <2>2, <2>3, <2>4, <2>5, <2>6, <2>7, <2>8, <2>9, <2>10, <2>11, <2>12,
              <2>13, <2>14 DEF Next, Step
<1>3. Counted => CountsAgree
  BY CountsTotal DEF Counted
<1> QED  BY <1>1, <1>2, <1>3, TypeCorrect, PTL DEF Spec
-----------------------------------------------------------------------------
(***************************************************************************)
(* What the memories hold on to.                                           *)
(***************************************************************************)

\* A memory, and a call in progress, below registered nodes only, over the
\* facts K.
Remembering(K, mems) ==
    \A m \in Memories : m.node \in Sheltered => \A pi \in mems[m] : Over(K, pi)
Carried(K) == {f \in Frame :
    /\ f.op = "add_wme" => f.wme \in K
    /\ f.op = "activate" /\ f.node \in AlphaNodes \cup Sheltered => Over(K, f.pi)
    /\ f.op = "join" /\ f.node \in Sheltered => \A pi \in f.todo : Over(K, pi)}

\* The inductive invariant: what a suspended call is about to put into a memory
\* counts as much as what is there.
Remembered == /\ TypeOK
              /\ Remembering(Known, memories)
              /\ stack \in Seq(Carried(Known))

\* The sheltered nodes are registered, and what feeds one is an alpha node or
\* sheltered as well.
LEMMA ShelteredFed ==
    /\ Sheltered \subseteq Registered
    /\ \A n \in Nodes : FeedsInto(n, Sheltered) => n \in AlphaNodes \cup Sheltered
<1>1. Sheltered \subseteq Registered
  BY DEF Sheltered
<1>2. ASSUME NEW n \in BetaNodes, FeedsInto(n, Sheltered)
      PROVE  n \in Sheltered
  <2>1. PICK i \in DOMAIN Descendents[n] : Descendents[n][i].node \in Sheltered
    BY <1>2 DEF FeedsInto
  <2>2. PICK S \in SUBSET Registered :
            /\ \A k \in BetaNodes : FeedsInto(k, S) => k \in S
            /\ Descendents[n][i].node \in S
    BY <2>1 DEF Sheltered
  <2>3. n \in S
    BY <2>2 DEF FeedsInto
  <2> QED  BY <2>2, <2>3 DEF Sheltered
<1> QED  BY <1>1, <1>2 DEF Nodes

LEMMA CarriedMonotone ==
    ASSUME NEW K, NEW L, K \subseteq L PROVE Carried(K) \subseteq Carried(L)
BY DEF Carried, Over

\* A loop that takes an item goes on with what it carried.
LEMMA TakeCarried ==
    ASSUME NEW K, NEW f \in Carried(K), NEW x
    PROVE  [f EXCEPT !.todo = @ \ {x}] \in Carried(K)
<1> DEFINE g == [f EXCEPT !.todo = @ \ {x}]
<1>1. f \in Frame
  BY DEF Carried
<1>2. g \in Frame
  BY <1>1, TakeFrame
<1>3. /\ g.op = f.op /\ g.todo = f.todo \ {x}
      /\ f.op = "add_wme" => g.wme = f.wme
      /\ f.op # "add_wme" => g.node = f.node
      /\ f.op = "activate" => g.pi = f.pi
  <2>1. CASE f \in ActivateCalls
    BY <2>1 DEF ActivateCalls
  <2>2. CASE f \in FireCalls
    BY <2>2 DEF FireCalls
  <2>3. CASE f \notin ActivateCalls \cup FireCalls
    BY <1>1, <2>3 DEF Frame
  <2> QED  BY <2>1, <2>2, <2>3
<1> HIDE DEF g
<1>4. g \in Carried(K)
  BY <1>2, <1>3 DEF Carried
<1> QED  BY <1>4 DEF g

LEMMA TakeCallsCarried ==
    ASSUME NEW K, stack \in Seq(Carried(K)), stack # <<>>, NEW x,
           NEW pushed \in Seq(Carried(K)), Take(x, pushed)
    PROVE  stack' \in Seq(Carried(K))
<1>1. Top \in Carried(K)
  BY HeadTailProperties DEF Top
<1>2. [Top EXCEPT !.todo = @ \ {x}] \in Carried(K)
  BY <1>1, TakeCarried
<1> QED  BY <1>2, TakePushes

\* What is joined from memories that remember known facts only is made of them.
LEMMA PropagateCarried ==
    ASSUME NEW K, NEW m \in Memories, NEW n \in Nodes, NEW pi \in Partial,
           NEW mems \in [Memories -> SUBSET Partial], Remembering(K, mems),
           m.node \in Sheltered => Over(K, pi)
    PROVE  Propagate(m, n, pi, mems) \in Seq(Carried(K))
<1> DEFINE b == m.node
           opposite == mems[[node |-> b, side |-> Other(m.side)]]
           partners == UNION {Partners(b, opposite, theta) : theta \in Bindings(pi)}
           accepted == {x \in {pi} : Accepted(b, x)}
           joined   == {x \in {NewJoin(pi, y) : y \in partners} :
                            m.side = LEFT => Kept(b, x)}
<1>1. b \in BetaNodes /\ b \in Nodes /\ b \notin AlphaNodes
  BY NetworkAssumption DEF Memories, Nodes
<1>2. /\ opposite \subseteq Partial
      /\ b \in Sheltered => \A y \in opposite : Over(K, y)
  <2>1. [node |-> b, side |-> Other(m.side)] \in Memories
    BY <1>1 DEF Memories, Other, LEFT, RIGHT
  <2> QED  BY <2>1 DEF Remembering
<1>3. /\ partners \subseteq Partial
      /\ b \in Sheltered => \A y \in partners : Over(K, y)
  BY <1>2 DEF Partners
<1>4. /\ joined \subseteq Partial /\ accepted \subseteq Partial
      /\ b \in Sheltered => \A x \in joined \cup accepted : Over(K, x)
  <2>1. \A y \in partners : NewJoin(pi, y) \in Partial
    BY <1>3 DEF Partial, NewJoin
  <2>2. b \in Sheltered => \A y \in partners : Over(K, NewJoin(pi, y))
    BY <1>3 DEF Over, NewJoin
  <2> QED  BY <2>1, <2>2
<1> HIDE DEF joined, accepted
<1>5. Activate(b, pi) \in Carried(K)
  BY <1>1, ActivateFrame DEF Carried, Activate
<1>6. Unify(b, pi) \in Carried(K)
  BY <1>1, UnifyFrame DEF Carried, Unify
<1>7. Join(b, accepted) \in Carried(K) /\ Join(b, joined) \in Carried(K)
  BY <1>1, <1>4, JoinFrame DEF Carried, Join
<1>8. Propagate(m, n, pi, mems) \in {<<>>, <<Activate(b, pi)>>, <<Unify(b, pi)>>,
                                     <<Join(b, accepted)>>, <<Join(b, joined)>>}
  BY DEF Propagate, joined, accepted
<1>9. <<>> \in Seq(Carried(K)) /\ \A f \in Carried(K) : <<f>> \in Seq(Carried(K))
  OBVIOUS
<1> QED  BY <1>5, <1>6, <1>7, <1>8, <1>9

\* The innermost call, and what it carries.
LEMMA TopCarried ==
    ASSUME Remembered, NEW op, In(op)
    PROVE  stack # <<>> /\ Top \in Frame /\ Top \in Carried(Known) /\ Top.op = op
<1>1. stack \in Seq(Carried(Known)) /\ stack # <<>> /\ Top.op = op
  BY DEF Remembered, In
<1> QED  BY <1>1, HeadTailProperties DEF Top, Carried

LEMMA AddWmeStepRemembers ==
    ASSUME Remembered, AddWmeStep PROVE stack' \in Seq(Carried(Known))
<1>1. PICK i \in Top.todo :
          LET a == AlphaOrder[i]
          IN  Take(i, <<Activate(a, {[node |-> a, wme |-> Top.wme]})>>)
  BY DEF AddWmeStep
<1> DEFINE a == AlphaOrder[i]
           pi == {[node |-> a, wme |-> Top.wme]}
<1>2. /\ stack # <<>> /\ Top.wme \in Triple /\ Top.wme \in Known
      /\ i \in DOMAIN AlphaOrder
  BY TopCarried, FrameFields DEF AddWmeStep, Carried
<1>3. a \in AlphaNodes /\ a \in Nodes
  BY <1>2, NetworkAssumption DEF Nodes
<1>4. pi \in Partial /\ Over(Known, pi)
  BY <1>2, <1>3 DEF Partial, Token, Over
<1> HIDE DEF a, pi
<1>5. Activate(a, pi) \in Carried(Known)
  BY <1>3, <1>4, ActivateFrame DEF Carried, Activate
<1>6. <<Activate(a, pi)>> \in Seq(Carried(Known))
  BY <1>5
<1> QED  BY <1>1, <1>2, <1>6, TakeCallsCarried DEF Remembered, a, pi

\* A memory of a sheltered node is filled by a call that carries known facts.
LEMMA ActivateStepRemembers ==
    ASSUME Remembered, ActivateStep
    PROVE  Remembering(Known, memories') /\ stack' \in Seq(Carried(Known))
<1>1. PICK i \in Top.todo :
          LET m    == Descendents[Top.node][i]
              mems == [memories EXCEPT ![m] = @ \cup {Top.pi}]
          IN  memories' = mems /\ Take(i, Propagate(m, Top.node, Top.pi, mems))
  BY DEF ActivateStep
<1> DEFINE m == Descendents[Top.node][i]
<1>2. /\ stack # <<>> /\ Top.node \in Nodes /\ Top.pi \in Partial
      /\ i \in DOMAIN Descendents[Top.node]
      /\ Top.node \in AlphaNodes \cup Sheltered => Over(Known, Top.pi)
  BY TopCarried, FrameFields DEF ActivateStep, Carried
<1>3. m \in Memories
  BY <1>2, NetworkAssumption
<1>4. m.node \in Sheltered => Over(Known, Top.pi)
  BY <1>2, ShelteredFed DEF FeedsInto
<1>5. memories' \in [Memories -> SUBSET Partial]
  BY <1>1, <1>2, <1>3 DEF Remembered, TypeOK
<1>6. Remembering(Known, memories')
  <2> SUFFICES ASSUME NEW l \in Memories, l.node \in Sheltered,
                      NEW pi \in memories'[l]
               PROVE  Over(Known, pi)
    BY DEF Remembering
  <2>1. pi \in memories[l] \/ (l = m /\ pi = Top.pi)
    BY <1>1, <1>3 DEF Remembered, TypeOK
  <2> QED  BY <1>4, <2>1 DEF Remembered, Remembering
<1>7. Propagate(m, Top.node, Top.pi, memories') \in Seq(Carried(Known))
  BY <1>2, <1>3, <1>4, <1>5, <1>6, PropagateCarried
<1> QED  BY <1>1, <1>2, <1>6, <1>7, TakeCallsCarried DEF Remembered

LEMMA JoinStepRemembers ==
    ASSUME Remembered, JoinStep PROVE stack' \in Seq(Carried(Known))
<1>1. PICK pi \in Top.todo : Take(pi, <<Activate(Top.node, pi)>>)
  BY DEF JoinStep
<1>2. /\ stack # <<>> /\ Top.node \in BetaNodes /\ pi \in Partial
      /\ Top.node \in Sheltered => Over(Known, pi)
  BY TopCarried, FrameFields DEF JoinStep, Carried
<1>3. Top.node \in Nodes /\ Top.node \notin AlphaNodes
  BY <1>2, NetworkAssumption DEF Nodes
<1>4. Activate(Top.node, pi) \in Carried(Known)
  BY <1>2, <1>3, ActivateFrame DEF Carried, Activate
<1>5. <<Activate(Top.node, pi)>> \in Seq(Carried(Known))
  BY <1>4
<1> QED  BY <1>1, <1>2, <1>5, TakeCallsCarried DEF Remembered

LEMMA UnifyStepRemembers ==
    ASSUME Remembered, UnifyStep PROVE stack' \in Seq(Carried(Known))
<1>1. PICK theta \in Top.todo :
          LET joined == Unified(Top.node, theta)
          IN  Take(theta, IF joined = {} THEN <<>>
                          ELSE <<Activate(Top.node, joined)>>)
  BY DEF UnifyStep
<1> DEFINE b      == Top.node
           joined == Unified(b, theta)
<1>2. stack # <<>> /\ b \in BetaNodes /\ b \in Nodes /\ b \notin AlphaNodes
  BY TopCarried, FrameFields, NetworkAssumption DEF UnifyStep, Nodes
<1>3. \A s \in {LEFT, RIGHT} :
          /\ memories[[node |-> b, side |-> s]] \subseteq Partial
          /\ b \in Sheltered =>
                \A pi \in memories[[node |-> b, side |-> s]] : Over(Known, pi)
  BY <1>2 DEF Remembered, Remembering, TypeOK, Memories
<1>4. joined \in Partial /\ (b \in Sheltered => Over(Known, joined))
  BY <1>3 DEF Unified, Partners, Partial, Over
<1>5. Activate(b, joined) \in Carried(Known)
  <2> HIDE DEF b, joined
  <2> QED  BY <1>2, <1>4, ActivateFrame DEF Carried, Activate
<1>6. /\ <<>> \in Seq(Carried(Known))
      /\ <<Activate(b, joined)>> \in Seq(Carried(Known))
  BY <1>5
<1> QED  BY <1>1, <1>2, <1>6, TakeCallsCarried DEF Remembered

\* A call in which nothing goes to a memory carries nothing.
LEMMA FiringCarried ==
    ASSUME NEW K, NEW f \in Frame, f.op \in {"fire", "substitute", "conclude"}
    PROVE  f \in Carried(K)
BY DEF Carried

LEMMA FireConsequentRemembers ==
    ASSUME Remembered, FireConsequent PROVE stack' \in Seq(Carried(Known))
<1>1. PICK nu \in NewBlanks(Top.node) :
          stack' = <<Fire(Top.node, Top.pi, nu)>> \o Tail(stack)
  BY DEF FireConsequent
<1>2. stack # <<>> /\ Top.node \in BetaNodes /\ Top.pi \in Partial
  BY TopCarried, FrameFields DEF FireConsequent, Terminals
<1>3. Fire(Top.node, Top.pi, nu) \in Frame
  BY <1>2, FireFrame DEF NewBlanks
<1>4. Fire(Top.node, Top.pi, nu) \in Carried(Known)
  BY <1>3, FiringCarried DEF Fire
<1>5. Tail(stack) \in Seq(Carried(Known))
  BY <1>2, HeadTailProperties DEF Remembered
<1> QED  BY <1>1, <1>4, <1>5, ConcatProperties

LEMMA FireStepRemembers ==
    ASSUME Remembered, FireStep PROVE stack' \in Seq(Carried(Known))
<1>1. PICK rhs \in Top.todo : \/ Take(rhs, <<>>)
                              \/ Take(rhs, <<Substitute(Top.node, Top.pi, rhs)>>)
  BY DEF FireStep
<1>2. stack # <<>> /\ Top.node \in BetaNodes /\ Top.pi \in Partial /\ rhs \in Pattern
  BY TopCarried, FrameFields DEF FireStep
<1>3. Substitute(Top.node, Top.pi, rhs) \in Carried(Known)
  BY <1>2, SubstituteFrame, FiringCarried DEF Substitute
<1>4. /\ <<>> \in Seq(Carried(Known))
      /\ <<Substitute(Top.node, Top.pi, rhs)>> \in Seq(Carried(Known))
  BY <1>3
<1> QED  BY <1>1, <1>2, <1>4, TakeCallsCarried DEF Remembered

LEMMA SkipStepRemembers ==
    ASSUME Remembered, SkipStep PROVE stack' \in Seq(Carried(Known))
<1>1. stack # <<>> /\ \E theta : Take(theta, <<>>)
  BY DEF SkipStep, In
<1>2. <<>> \in Seq(Carried(Known))
  OBVIOUS
<1> QED  BY <1>1, <1>2, TakeCallsCarried DEF Remembered

\* add_wme is entered for a triple once it is among the inferred facts.
LEMMA InferStepRemembers ==
    ASSUME Remembered, InferStep
    PROVE  Known \subseteq Known' /\ stack' \in Seq(Carried(Known'))
<1>1. PICK theta \in Top.todo :
          LET t == Inst(Top.rhs, theta)
          IN  /\ Ground(t)
              /\ \/ /\ inferred_facts' = inferred_facts \cup {t}
                    /\ Take(theta, <<AddWme(t), Conclude(Top.node, Top.rhs, t)>>)
                 \/ UNCHANGED inferred_facts /\ Take(theta, <<>>)
  BY DEF InferStep
<1> DEFINE b == Top.node
           t == Inst(Top.rhs, theta)
<1>2. /\ stack # <<>> /\ b \in BetaNodes /\ Top.rhs \in Pattern
      /\ theta \in Substitution
  BY TopCarried, FrameFields DEF InferStep
<1>3. t \in Triple
  <2>1. \A v \in DOMAIN theta : theta[v] \in Term
    BY <1>2 DEF Substitution
  <2> QED  BY <1>1, <1>2, <2>1, InstType
<1>4. Known \subseteq Known'
  BY <1>1 DEF InferStep, Known
<1>5. stack \in Seq(Carried(Known'))
  BY <1>4, CarriedMonotone, SeqMonotonic DEF Remembered
<1>6. CASE Take(theta, <<>>)
  <2>1. <<>> \in Seq(Carried(Known'))
    OBVIOUS
  <2> QED  BY <1>2, <1>4, <1>5, <1>6, <2>1, TakeCallsCarried
<1>7. CASE /\ inferred_facts' = inferred_facts \cup {t}
           /\ Take(theta, <<AddWme(t), Conclude(b, Top.rhs, t)>>)
  <2>1. t \in Known'
    BY <1>7 DEF Known
  <2>2. AddWme(t) \in Carried(Known')
    BY <1>3, <2>1, AddWmeFrame DEF Carried, AddWme
  <2>3. Conclude(b, Top.rhs, t) \in Carried(Known')
    BY <1>2, <1>3, ConcludeFrame, FiringCarried DEF Conclude
  <2>4. <<AddWme(t), Conclude(b, Top.rhs, t)>> \in Seq(Carried(Known'))
    BY <2>2, <2>3
  <2> QED  BY <1>2, <1>4, <1>5, <1>7, <2>4, TakeCallsCarried
<1> QED  BY <1>1, <1>6, <1>7

\* Calls over the facts before a step that forgets none are calls over the
\* facts after it, and so are the memories.
LEMMA RememberedStays ==
    ASSUME Known \subseteq Known', stack' \in Seq(Carried(Known)),
           Remembering(Known, memories')
    PROVE  Remembering(Known, memories)' /\ stack' \in Seq(Carried(Known'))
<1>1. Remembering(Known', memories')
  BY DEF Remembering, Over
<1> QED  BY <1>1, CarriedMonotone, SeqMonotonic DEF Remembering

\* Callers forget facts only when no call is in progress, and then every
\* sheltered node is found through network.nodes and emptied.
LEMMA ResetRemembers ==
    ASSUME Remembered, NEW g \in Targets, Reset(g)
    PROVE  Remembering(Known, memories)' /\ stack' \in Seq(Carried(Known'))
<1>1. \A m \in Memories : m.node \in Sheltered => memories'[m] = {}
  BY ShelteredFed DEF Reset, Cleared
<1>2. Remembering(Known', memories')
  BY <1>1 DEF Remembering
<1>3. stack' = <<>>
  BY DEF Reset, Idle
<1> QED  BY <1>2, <1>3 DEF Remembering

LEMMA FeedRemembers ==
    ASSUME Remembered, NEW w \in Facts, Feed(w)
    PROVE  Remembering(Known, memories)' /\ stack' \in Seq(Carried(Known'))
<1>1. Known \subseteq Known' /\ w \in Known' /\ w \in Triple
  BY NetworkAssumption DEF Feed, Known
<1>2. AddWme(w) \in Carried(Known')
  BY <1>1, AddWmeFrame DEF Carried, AddWme
<1>3. stack' \in Seq(Carried(Known'))
  BY <1>2 DEF Feed
<1>4. Remembering(Known', memories')
  BY <1>1 DEF Feed, Remembered, Remembering, Over
<1> QED  BY <1>3, <1>4 DEF Remembering

LEMMA StepRemembers ==
    ASSUME Remembered, Step
    PROVE  Remembering(Known, memories)' /\ stack' \in Seq(Carried(Known'))
<1>1. CASE ActivateStep
  BY <1>1, ActivateStepRemembers, RememberedStays DEF ActivateStep, facts, Known
<1>2. CASE InferStep
  <2>1. Remembering(Known', memories')
    BY <1>2, InferStepRemembers DEF InferStep, Remembered, Remembering, Over
  <2> QED  BY <1>2, <2>1, InferStepRemembers DEF Remembering
<1>3. ASSUME ConcludeStep \/ Return
      PROVE  stack' \in Seq(Carried(Known))
  <2>1. stack # <<>> /\ stack' \in {<<>>, Tail(stack)}
    BY <1>3 DEF ConcludeStep, Return, In, Idle
  <2>2. <<>> \in Seq(Carried(Known)) /\ Tail(stack) \in Seq(Carried(Known))
    BY <2>1, HeadTailProperties DEF Remembered
  <2> QED  BY <2>1, <2>2
<1>4. ASSUME UNCHANGED <<facts, memories>>, stack' \in Seq(Carried(Known))
      PROVE  Remembering(Known, memories)' /\ stack' \in Seq(Carried(Known'))
  <2>1. Known' = Known
    BY <1>4 DEF facts, Known
  <2> QED  BY <1>4, <2>1, RememberedStays DEF Remembered
<1>5. CASE AddWmeStep  BY <1>5, <1>4, AddWmeStepRemembers DEF AddWmeStep
<1>6. CASE JoinStep    BY <1>6, <1>4, JoinStepRemembers DEF JoinStep
<1>7. CASE UnifyStep   BY <1>7, <1>4, UnifyStepRemembers DEF UnifyStep
<1>8. CASE FireConsequent  BY <1>8, <1>4, FireConsequentRemembers DEF FireConsequent
<1>9. CASE FireStep    BY <1>9, <1>4, FireStepRemembers DEF FireStep
<1>10. CASE SkipStep
  <2>1. UNCHANGED <<facts, memories>>
    BY <1>10 DEF SkipStep
  <2> QED  BY <1>4, <1>10, <2>1, SkipStepRemembers
<1>11. CASE ConcludeStep  BY <1>11, <1>3, <1>4 DEF ConcludeStep
<1>12. CASE Return     BY <1>12, <1>3, <1>4 DEF Return
<1> QED  BY <1>1, <1>2, <1>5, <1>6, <1>7, <1>8, <1>9, <1>10, <1>11, <1>12 DEF Step

\* In every network, whatever rules share nodes or replace each other's in
\* network.nodes: stale tokens survive a reset only in memories of a replaced
\* beta node and of those it feeds.  Where nothing is replaced that is nowhere:
\* then Sheltered is BetaNodes.
THEOREM NothingForgotten == Spec => []MemoriesKnown
<1>1. Init => Remembering(Known, memories) /\ stack \in Seq(Carried(Known))
  BY DEF Init, Remembering
<1>2. ASSUME Remembered, [Next]_vars
      PROVE  Remembering(Known, memories)' /\ stack' \in Seq(Carried(Known'))
  <2>1. CASE UNCHANGED <<facts, memories, stack>>
    <3>1. Known' = Known
      BY <2>1 DEF facts, Known
    <3> QED  BY <1>2, <2>1, <3>1, RememberedStays DEF Remembered
  <2>2. ASSUME NEW reg \in Registrations, RegisterAction(reg)
        PROVE  UNCHANGED <<facts, memories, stack>>
    BY <2>2 DEF RegisterAction
  <2>3. CASE UNCHANGED vars
    BY <2>1, <2>3 DEF vars
  <2> QED  BY <1>2, <2>1, <2>2, <2>3, StepRemembers, FeedRemembers, ResetRemembers
           DEF Next
<1>3. /\ TypeOK /\ TypeOK' /\ Remembering(Known, memories)
      /\ stack \in Seq(Carried(Known)) /\ [Next]_vars
      => (Remembering(Known, memories) /\ stack \in Seq(Carried(Known)))'
  BY <1>2 DEF Remembered, Carried, Over
<1>4. Remembering(Known, memories) => MemoriesKnown
  BY DEF Remembering, MemoriesKnown
<1> QED  BY <1>1, <1>3, <1>4, TypeCorrect, PTL DEF Spec

\* Where nodes is the full index of the beta nodes, none is left out.
LEMMA AllSheltered == Registered = BetaNodes => Sheltered = BetaNodes
BY DEF Sheltered
=============================================================================
