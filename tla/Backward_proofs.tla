-------------------------- MODULE Backward_proofs --------------------------
(***************************************************************************)
(* The backward fixpoint procedure under the entailing store, for every    *)
(* rule set, request and fact graph.                                       *)
(***************************************************************************)
EXTENDS BackwardCorrectness, AdornProgram_proofs

(***************************************************************************)
(* Sequences of patterns.                                                  *)
(***************************************************************************)

IsPatterns(ps) == ps \in Seq(ToSet(ps)) /\ \A i \in DOMAIN ps : IsLiteral(ps[i])

LEMMA OverItsRange ==
    ASSUME NEW S, NEW s, s \in Seq(S)
    PROVE  s \in Seq(ToSet(s))
<1>1. DOMAIN s = 1 .. Len(s) /\ Len(s) \in Nat
  OBVIOUS
<1>2. s = [i \in 1 .. Len(s) |-> s[i]]
  OBVIOUS
<1> QED  BY <1>1, <1>2 DEF ToSet

LEMMA PatternsIn ==
    ASSUME NEW S, \A x \in S : IsLiteral(x), NEW s \in Seq(S)
    PROVE  IsPatterns(s)
<1>1. s \in Seq(ToSet(s))
  BY OverItsRange
<1>3. \A i \in DOMAIN s : s[i] \in S
  OBVIOUS
<1>2. \A i \in DOMAIN s : IsLiteral(s[i])
  BY <1>3
<1> QED  BY <1>1, <1>2 DEF IsPatterns

LEMMA RangeOfPatterns ==
    ASSUME NEW ps, IsPatterns(ps)
    PROVE  /\ \A x \in ToSet(ps) : IsLiteral(x)
           /\ ps # <<>> => IsLiteral(Head(ps)) /\ IsPatterns(Tail(ps))
<1>1. ps \in Seq(ToSet(ps)) /\ \A x \in ToSet(ps) : IsLiteral(x)
  BY DEF IsPatterns, ToSet
<1> DEFINE S == ToSet(ps)
<1> HIDE DEF S
<1>2. ASSUME ps # <<>> PROVE Head(ps) \in S /\ Tail(ps) \in Seq(S)
  <2>1. ps \in Seq(S)
    BY <1>1 DEF S
  <2> QED  BY <1>2, <2>1
<1>3. \A x \in S : IsLiteral(x)
  BY <1>1 DEF S
<1>4. ps # <<>> => IsLiteral(Head(ps)) /\ IsPatterns(Tail(ps))
  BY <1>2, <1>3, PatternsIn
<1> QED  BY <1>1, <1>4

LEMMA GroundLiteral ==
    ASSUME NEW l, IsLiteral(l), NEW theta
    PROVE  /\ IsLiteral(Ground(l, theta)) /\ Ground(l, theta).op = l.op
           /\ Ground(l, theta).args = [i \in DOMAIN l.args |-> Value(l.args[i], theta)]
<1> DEFINE args == [i \in DOMAIN l.args |-> Value(l.args[i], theta)]
           m == Ground(l, theta)
<1>1. m = Adorned(l.op, args, <<>>, l.naf)
  BY DEF Ground, IsLiteral, Adorned
<1>2. m.op = l.op /\ m.args = args /\ m.naf = l.naf
  BY <1>1 DEF Adorned
<1>3. DOMAIN l.args = 1 .. Len(l.args) /\ Len(l.args) \in Nat
  BY DEF IsLiteral
<1>4. args = [i \in 1 .. Len(l.args) |-> args[i]]
  BY <1>3
<1>5. args \in Seq(ToSet(args)) /\ Len(args) = Len(l.args)
  <2> HIDE DEF args
  <2> QED  BY <1>3, <1>4, AppendNothing
<1> HIDE DEF m, args
<1>6. IsLiteral(m)
  BY <1>1, <1>2, <1>5 DEF IsLiteral
<1> QED  BY <1>2, <1>6 DEF m, args

LEMMA InstantiatedPatterns ==
    ASSUME NEW ps, IsPatterns(ps), NEW theta
    PROVE  IsPatterns(Instantiated(ps, theta))
<1> DEFINE n == Len(ps)
           s == [i \in 1 .. n |-> Ground(ps[i], theta)]
<1>1. DOMAIN ps = 1 .. n /\ n \in Nat
  BY DEF IsPatterns
<1>2. Instantiated(ps, theta) = s \o <<>>
  BY <1>1 DEF Instantiated, Map
<1>3. \A i \in 1 .. n : IsLiteral(s[i])
  BY <1>1, GroundLiteral DEF IsPatterns
<1>4. s = [i \in 1 .. n |-> s[i]] /\ DOMAIN s = 1 .. n
  OBVIOUS
<1> HIDE DEF s, n
<1>5. s \o <<>> = s /\ s \in Seq(ToSet(s))
  BY <1>1, <1>4, AppendNothing
<1> QED  BY <1>2, <1>3, <1>4, <1>5 DEF IsPatterns

LEMMA DerivedPatterns ==
    ASSUME NEW ps, IsPatterns(ps)
    PROVE  IsPatterns(DerivedOf(ps))
<1> DEFINE n == Len(ps)
           S == ToSet(ps)
           s == [i \in 1 .. n |-> IF IsIDB(ps[i]) THEN <<ps[i]>> ELSE <<>>]
<1>1. DOMAIN ps = 1 .. n /\ n \in Nat /\ ps \in Seq(S)
  BY DEF IsPatterns
<1>2. DerivedOf(ps) = FlattenSeq(s \o <<>>)
  BY <1>1 DEF DerivedOf, Only, Map
<1>3. s \in [1 .. n -> Seq(S)]
  <2>1. ASSUME NEW i \in 1 .. n
        PROVE  (IF IsIDB(ps[i]) THEN <<ps[i]>> ELSE <<>>) \in Seq(S)
    <3>1. ps[i] \in S
      BY <1>1 DEF ToSet
    <3> HIDE DEF S
    <3>2. <<ps[i]>> \in Seq(S) /\ <<>> \in Seq(S)
      BY <3>1
    <3> QED  BY <3>2
  <2> QED  BY <2>1
<1>4. s = [i \in 1 .. n |-> s[i]]
  OBVIOUS
<1> HIDE DEF s, n
<1>5. s \o <<>> = s
  BY <1>1, <1>4, AppendNothing
<1>6. FlattenSeq(s) \in Seq(S)
  BY <1>1, <1>3, FlattenHas
<1>7. \A x \in S : IsLiteral(x)
  BY RangeOfPatterns
<1> HIDE DEF S
<1> QED  BY <1>2, <1>5, <1>6, <1>7, PatternsIn

LEMMA LiveFrames ==
    ASSUME NEW S, NEW fs \in Seq(S)
    PROVE  Live(fs) \in Seq(S)
<1> DEFINE n == Len(fs)
           s == [i \in 1 .. n |-> IF fs[i].todo # {} THEN <<fs[i]>> ELSE <<>>]
<1>1. DOMAIN fs = 1 .. n /\ n \in Nat
  OBVIOUS
<1>2. Live(fs) = FlattenSeq(s \o <<>>)
  BY <1>1 DEF Live, Only, Map
<1>3. s \in [1 .. n -> Seq(S)]
  <2>1. ASSUME NEW i \in 1 .. n
        PROVE  (IF fs[i].todo # {} THEN <<fs[i]>> ELSE <<>>) \in Seq(S)
    <3>1. fs[i] \in S
      BY <1>1
    <3>2. <<fs[i]>> \in Seq(S) /\ <<>> \in Seq(S)
      BY <3>1
    <3> QED  BY <3>2
  <2> QED  BY <2>1
<1>4. s = [i \in 1 .. n |-> s[i]]
  OBVIOUS
<1> HIDE DEF s, n
<1>5. s \o <<>> = s
  BY <1>1, <1>4, AppendNothing
<1> QED  BY <1>1, <1>2, <1>3, <1>5, FlattenHas

LEMMA ExtractPatterns ==
    ASSUME NEW where, where \in Seq(ToSet(where)), \A i \in DOMAIN where : IsPart(where[i])
    PROVE  IsPatterns(Extract(where))
<1> DEFINE n == Len(where)
           S == UNION {ToSet(where[i].triples) : i \in 1 .. n}
           s == [i \in 1 .. n |-> where[i].triples]
<1>1. DOMAIN where = 1 .. n /\ n \in Nat
  OBVIOUS
<1>2. Extract(where) = FlattenSeq(s \o <<>>)
  BY <1>1 DEF Extract, Map
<1>3. s \in [1 .. n -> Seq(S)]
  <2>1. ASSUME NEW i \in 1 .. n
        PROVE  where[i].triples \in Seq(S)
    <3> DEFINE T == ToSet(where[i].triples)
    <3>1. where[i].triples \in Seq(T)
      BY <1>1 DEF IsPart
    <3>2. T \subseteq S
      OBVIOUS
    <3> HIDE DEF S, T
    <3> QED  BY <3>1, <3>2
  <2> QED  BY <2>1
<1>4. s = [i \in 1 .. n |-> s[i]]
  OBVIOUS
<1>5. ASSUME NEW x \in S PROVE IsLiteral(x)
  <2>1. PICK i \in 1 .. n : x \in ToSet(where[i].triples)
    OBVIOUS
  <2>2. IsPart(where[i])
    BY <1>1
  <2> QED  BY <2>1, <2>2 DEF IsPart, ToSet
<1> HIDE DEF s, n, S
<1>6. s \o <<>> = s
  BY <1>1, <1>4, AppendNothing
<1>7. FlattenSeq(s) \in Seq(S)
  BY <1>1, <1>3, FlattenHas
<1> QED  BY <1>2, <1>5, <1>6, <1>7, PatternsIn

(***************************************************************************)
(* The store around the adornment: the patterns left are literals, one     *)
(* goal at a time is adorned and solved, and a procedure that does not run *)
(* knows nothing.                                                          *)
(***************************************************************************)

IsFrame(b) == b = [rest |-> b.rest, todo |-> b.todo] /\ IsPatterns(b.rest)
Patterns ==
    /\ branches \in Seq(ToSet(branches)) /\ \A b \in ToSet(branches) : IsFrame(b)
    /\ IsPatterns(waiting) /\ (branches # <<>> => waiting = <<>>)
KnowsNothing ==
    /\ queries = {} /\ inferred_facts = {} /\ evaluated = {} /\ matched = {}
    /\ fired_edb_queries = {} /\ stack = <<>>
OneGoal ==
    /\ goal # <<>> => Open
    /\ goal = <<>> => answered = <<>>
    /\ answered = <<>> => outcome = "idle"
    /\ outcome = "idle" => KnowsNothing
    /\ answered # <<>> => program = answered.adorned_program /\ ignoring = TRUE
    /\ goal # <<>> => ignoring = TRUE /\ (branches # <<>> => Branch.rest # <<>>)
Graph == \A f \in edb : IsGroundFact(f)
Endings == ended \in {"open", "done", "TypeError", "no sip", "unsupported"}
Runs == /\ outcome \in {"idle", "running", "returned", "raised"}
        /\ (outcome = "running") = (stack # <<>>)
Setup == IInv /\ AnswersInv /\ Patterns /\ OneGoal /\ Graph /\ Endings /\ Runs

\* What a step of the store does to the adornment.
Forgotten == /\ goal' = <<>> /\ answered' = <<>>
             /\ UNCHANGED <<given, rs, derived, ignoring, collection, marked, to_do, program>>
Adorns == \/ \E g : IsLiteral(g) /\ Ask(g, TRUE)
          \/ Process \/ Finish \/ NoOrder \/ UNCHANGED adornVars \/ Forgotten

LEMMA HeadFrame ==
    ASSUME Patterns, branches # <<>>
    PROVE  /\ IsFrame(Branch) /\ Tail(branches) \in Seq(ToSet(branches))
           /\ Branch.rest # <<>> => \A theta : IsLiteral(Next1(theta))
<1> DEFINE S == ToSet(branches)
<1>1. branches \in Seq(S) /\ \A b \in S : IsFrame(b)
  BY DEF Patterns
<1> HIDE DEF S
<1>2. Head(branches) \in S /\ Tail(branches) \in Seq(S)
  BY <1>1
<1>3. IsFrame(Branch)
  BY <1>1, <1>2 DEF Branch
<1>4. ASSUME Branch.rest # <<>>, NEW theta PROVE IsLiteral(Next1(theta))
  <2>1. IsLiteral(Head(Branch.rest))
    BY <1>3, <1>4, RangeOfPatterns DEF IsFrame
  <2> QED  BY <2>1, GroundLiteral DEF Next1
<1> QED  BY <1>2, <1>3, <1>4 DEF S

LEMMA LessTodo ==
    ASSUME NEW rest, NEW todo, NEW b, b = [rest |-> rest, todo |-> todo], NEW x
    PROVE  [b EXCEPT !.todo = @ \ {x}] = [rest |-> rest, todo |-> todo \ {x}]
OBVIOUS

LEMMA PickedFrames ==
    ASSUME Patterns, branches # <<>>, NEW theta, NEW F, \A b \in F : IsFrame(b),
           NEW fs \in Seq(F), Picked(theta, fs), waiting' = waiting
    PROVE  Patterns' /\ ended' \in {"open", "done"}
<1> DEFINE b == [Branch EXCEPT !.todo = @ \ {theta}]
           S == F \cup {b} \cup ToSet(branches)
<1>1. IsFrame(b)
  <2>1. PICK f : f = Branch
    OBVIOUS
  <2>2. f = [rest |-> f.rest, todo |-> f.todo] /\ IsPatterns(f.rest)
    BY <2>1, HeadFrame DEF IsFrame
  <2>3. b = [f EXCEPT !.todo = @ \ {theta}]
    BY <2>1
  <2> HIDE DEF b
  <2>4. b = [rest |-> f.rest, todo |-> f.todo \ {theta}]
    BY <2>2, <2>3, LessTodo
  <2> QED  BY <2>2, <2>4 DEF IsFrame
<1>2. Tail(branches) \in Seq(ToSet(branches))
  BY HeadFrame
<1>3. branches' = Live(fs \o <<b>> \o Tail(branches)) /\ ended' = Finished(branches')
  BY DEF Picked
<1>4. \A x \in S : IsFrame(x)
  BY <1>1 DEF Patterns
<1> HIDE DEF b
<1>5. F \subseteq S /\ b \in S /\ ToSet(branches) \subseteq S
  OBVIOUS
<1> HIDE DEF S
<1>6. fs \in Seq(S) /\ <<b>> \in Seq(S) /\ Tail(branches) \in Seq(S)
  BY <1>2, <1>5
<1>7. fs \o <<b>> \o Tail(branches) \in Seq(S)
  BY <1>6
<1>8. branches' \in Seq(S)
  BY <1>3, <1>7, LiveFrames
<1> DEFINE bs == branches'
<1>9. bs \in Seq(ToSet(bs)) /\ \A x \in ToSet(bs) : x \in S
  <2>1. bs \in Seq(S)
    BY <1>8
  <2> HIDE DEF bs
  <2>2. bs \in Seq(ToSet(bs))
    BY <2>1, OverItsRange
  <2>3. ToSet(bs) \subseteq S
    BY <2>1, RangeFinite
  <2> QED  BY <2>2, <2>3
<1>10. IsPatterns(waiting)'
  BY DEF Patterns
<1> QED  BY <1>3, <1>4, <1>9, <1>10 DEF Patterns, Finished

LEMMA RequestPatterns ==
    ASSUME Setup, NEW req \in given.requests, Request(req)
    PROVE  Patterns' /\ Endings' /\ ~Open /\ UNCHANGED <<adornVars, bfpVars>>
<1> DEFINE ps == Extract(req.where)
           r == [kind |-> req.kind, patterns |-> ps, vars |-> req.vars]
<1>1. /\ ~Open /\ request' = r
      /\ IF \E i \in DOMAIN req.where : IsUnsupported(req.where[i])
           THEN ended' = "unsupported" /\ UNCHANGED <<branches, waiting, yielded>>
           ELSE \E x \in {request'} : Unify(x) \/ Interlocute(x) \/ Solve(x)
      /\ UNCHANGED <<adornVars, bfpVars>>
  BY DEF Request
<1>2. IsPatterns(ps)
  <2>1. req.where \in Seq(ToSet(req.where)) /\ \A i \in DOMAIN req.where : IsPart(req.where[i])
    BY RequestsAssumption DEF Setup, IInv, Setting
  <2> QED  BY <2>1, ExtractPatterns
<1>3. CASE ended' = "unsupported" /\ UNCHANGED <<branches, waiting, yielded>>
  BY <1>1, <1>3 DEF Setup, Patterns, Endings
<1>4. CASE Unify(r) \/ Interlocute(r) \/ Solve(r)
  <2>1. r.patterns = ps
    OBVIOUS
  <2> HIDE DEF ps, r
  <2>2. CASE StartUnify(r.patterns)
    <3>1. waiting' = <<>> /\ ended' \in {"open", "done"}
          /\ branches' \in {<<>>, <<Frame(r.patterns, {<<>>})>>}
      BY <2>2 DEF StartUnify
    <3>2. IsFrame(Frame(r.patterns, {<<>>}))
      BY <1>2, <2>1 DEF IsFrame, Frame
    <3> DEFINE f == Frame(r.patterns, {<<>>})
    <3> HIDE DEF f
    <3>3. IsPatterns(<<>>)
      BY DEF IsPatterns
    <3>4. branches' = <<>> \/ branches' = <<f>>
      BY <3>1 DEF f
    <3> DEFINE bs == branches'
    <3>5. bs \in Seq(ToSet(bs)) /\ \A b \in ToSet(bs) : b = f
      <4>1. CASE bs = <<>>
        BY <4>1 DEF ToSet
      <4>2. CASE bs = <<f>>
        <5>1. DOMAIN bs = {1} /\ bs[1] = f /\ bs \in Seq({f})
          BY <4>2
        <5>2. ToSet(bs) = {f}
          BY <5>1 DEF ToSet
        <5> QED  BY <5>1, <5>2
      <4> QED  BY <3>4, <4>1, <4>2
    <3> QED  BY <1>1, <3>1, <3>2, <3>3, <3>5 DEF Patterns, Endings, f
  <2>3. CASE Solve(r)
    <3>1. branches' = <<>> /\ waiting' \in {<<>>, DerivedOf(r.patterns)}
          /\ ended' \in {"open", "done", "TypeError"}
      BY <2>3 DEF Solve, SolveAsk, SolveSelect, Finished
    <3>2. IsPatterns(<<>>)
      BY DEF IsPatterns
    <3>3. IsPatterns(waiting)'
      BY <1>2, <2>1, <3>1, <3>2, DerivedPatterns
    <3>4. branches' \in Seq(ToSet(branches')) /\ ToSet(branches') = {}
      BY <3>1 DEF ToSet
    <3> QED  BY <1>1, <3>1, <3>3, <3>4 DEF Patterns, Endings
  <2> QED  BY <1>4, <2>2, <2>3 DEF Unify, Interlocute
<1> QED  BY <1>1, <1>3, <1>4

LEMMA GivenUp ==
    ASSUME NEW up, Give(up)
    PROVE  Patterns' /\ ended' = up
<1>1. branches' = <<>> /\ waiting' = <<>> /\ ended' = up
  BY DEF Give
<1>2. IsPatterns(<<>>) /\ ToSet(<<>>) = {} /\ <<>> \in Seq(ToSet(<<>>))
  BY DEF IsPatterns, ToSet
<1> QED  BY <1>1, <1>2 DEF Patterns

LEMMA ForgetIs ==
    ASSUME Forget
    PROVE  /\ Forgotten /\ outcome' = "idle" /\ edb' = edb /\ tabled' = tabled /\ stack' = stack
           /\ queries' = {} /\ inferred_facts' = {} /\ evaluated' = {} /\ matched' = {}
           /\ fired_edb_queries' = {}
BY DEF Forget, Forgotten

\* The steps that leave the procedure alone, those that forget it, and the rest.
LEMMA YieldPatterns ==
    ASSUME Setup, Yield \/ SolveBase
    PROVE  Patterns' /\ Endings' /\ UNCHANGED <<adornVars, bfpVars>> /\ Between
<1>1. Patterns
  BY DEF Setup
<1>2. CASE Yield
  <2>1. /\ Between /\ branches # <<>> /\ UNCHANGED <<adornVars, bfpVars>> /\ waiting' = waiting
        /\ \E theta : Picked(theta, <<>>)
    BY <1>2 DEF Yield
  <2>2. <<>> \in Seq({})
    OBVIOUS
  <2>3. Patterns' /\ ended' \in {"open", "done"}
    BY <1>1, <2>1, <2>2, PickedFrames
  <2> QED  BY <2>1, <2>3 DEF Endings
<1>3. CASE SolveBase
  <2>1. /\ Between /\ branches # <<>> /\ Branch.rest # <<>>
        /\ UNCHANGED <<adornVars, bfpVars>> /\ waiting' = waiting
    BY <1>3 DEF SolveBase
  <2>2. IsPatterns(Tail(Branch.rest))
    BY <1>1, <2>1, HeadFrame, RangeOfPatterns DEF IsFrame
  <2>3. CASE branches' = <<>> /\ ended' = "TypeError"
    <3>1. ToSet(<<>>) = {} /\ <<>> \in Seq(ToSet(<<>>))
      BY DEF ToSet
    <3> QED  BY <1>1, <2>1, <2>3, <3>1 DEF Patterns, Endings
  <2>4. ASSUME NEW theta, NEW todo, Picked(theta, <<Frame(Tail(Branch.rest), todo)>>)
        PROVE  Patterns' /\ ended' \in {"open", "done"}
    <3> DEFINE f == Frame(Tail(Branch.rest), todo)
    <3>1. IsFrame(f)
      BY <2>2 DEF IsFrame, Frame
    <3>2. Picked(theta, <<f>>)
      BY <2>4
    <3> HIDE DEF f
    <3>3. <<f>> \in Seq({f}) /\ \A b \in {f} : IsFrame(b)
      BY <3>1
    <3> QED  BY <1>1, <2>1, <3>2, <3>3, PickedFrames
  <2> QED  BY <1>3, <2>1, <2>3, <2>4 DEF SolveBase, Endings
<1> QED  BY <1>2, <1>3

LEMMA ForgetPatterns ==
    ASSUME Setup, Resume \/ Take \/ TakeFirst
    PROVE  Patterns' /\ Endings' /\ Forget /\ Solved
<1>1. Patterns
  BY DEF Setup
<1>2. CASE Resume
  <2>1. Solved /\ branches # <<>> /\ waiting' = waiting /\ Forget
    BY <1>2 DEF Resume
  <2>2. PICK theta : /\ Next1(theta) = goal
                     /\ Picked(theta, <<Frame(Instantiated(Tail(Branch.rest), theta), Merged(theta))>>)
    BY <1>2 DEF Resume
  <2>3. PICK ps : ps = Instantiated(Tail(Branch.rest), theta)
    OBVIOUS
  <2>4. PICK f : f = Frame(ps, Merged(theta))
    OBVIOUS
  <2>5. IsPatterns(ps)
    <3>1. Branch.rest # <<>>
      BY <2>1 DEF Setup, OneGoal, Solved
    <3>2. IsPatterns(Tail(Branch.rest))
      BY <1>1, <2>1, <3>1, HeadFrame, RangeOfPatterns DEF IsFrame
    <3> QED  BY <2>3, <3>2, InstantiatedPatterns
  <2>6. IsFrame(f)
    BY <2>4, <2>5 DEF IsFrame, Frame
  <2>7. <<f>> \in Seq({f}) /\ \A b \in {f} : IsFrame(b)
    BY <2>6
  <2>8. Picked(theta, <<f>>)
    BY <2>2, <2>3, <2>4
  <2> QED  BY <1>1, <2>1, <2>7, <2>8, PickedFrames DEF Endings
<1>3. CASE Take
  <2>1. Solved /\ waiting # <<>> /\ waiting' = Tail(waiting) /\ branches' = branches /\ Forget
        /\ ended' = Finished(waiting')
    BY <1>3 DEF Take
  <2>2. IsPatterns(Tail(waiting))
    BY <1>1, <2>1, RangeOfPatterns DEF Patterns
  <2> QED  BY <1>1, <2>1, <2>2 DEF Patterns, Endings, Finished
<1>4. CASE TakeFirst
  <2>1. Solved /\ waiting # <<>> /\ Forget
    BY <1>4 DEF TakeFirst
  <2>2. CASE Give("TypeError")
    BY <2>1, <2>2, GivenUp DEF Endings
  <2>3. CASE /\ waiting' \in {<<>>, Tail(waiting)} /\ ended' = Finished(waiting')
             /\ UNCHANGED <<request, branches>>
    <3>1. IsPatterns(Tail(waiting)) /\ IsPatterns(<<>>)
      BY <1>1, <2>1, RangeOfPatterns DEF Patterns, IsPatterns
    <3> QED  BY <1>1, <2>1, <2>3, <3>1 DEF Patterns, Endings, Finished
  <2> QED  BY <1>4, <2>1, <2>2, <2>3 DEF TakeFirst
<1> QED  BY <1>2, <1>3, <1>4

(***************************************************************************)
(* The setup is kept.                                                      *)
(***************************************************************************)

LEMMA AdornsKeeps ==
    ASSUME IInv, AnswersInv, Adorns
    PROVE  IInv' /\ AnswersInv'
<1>1. CASE \E g : IsLiteral(g) /\ Ask(g, TRUE)
  BY <1>1, AskInv, AskHands
<1>2. CASE Process \/ Finish \/ NoOrder
  <2>1. IInv'
    BY <1>2, ProcessInv, FinishInv, NoOrderInv
  <2>2. CASE NoOrder
    <3>1. goal' = <<>> /\ answered' = <<>>
      BY <2>2 DEF NoOrder, Adorning
    <3> QED  BY <2>1, <3>1 DEF AnswersInv, Adorning
  <2> QED  BY <1>2, <2>1, <2>2, ProcessHands, FinishHands
<1>3. CASE UNCHANGED adornVars
  <2>1. UNCHANGED vars
    BY <1>3 DEF adornVars, vars
  <2>2. IInv'
    BY <2>1, InvStep
  <2>3. AnswersInv'
    BY <2>1 DEF vars, AnswersInv, Adorning, InLoop, RenamedBody, Handed, IsMade, HasVersion
  <2> QED  BY <2>2, <2>3
<1>4. CASE Forgotten
  <2>1. /\ goal' = <<>> /\ answered' = <<>> /\ given' = given /\ rs' = rs /\ derived' = derived
        /\ collection' = collection /\ marked' = marked /\ to_do' = to_do /\ program' = program
    BY <1>4 DEF Forgotten
  <2>2. ~Adorning' /\ AnswersInv'
    BY <2>1 DEF Adorning, AnswersInv
  <2>3. Setting' /\ RulesKept' /\ Worklist' /\ AdornedRules'
    BY <2>1 DEF IInv, Setting, RulesKept, Worklist, AdornedRules
  <2>4. NoneForgotten' /\ Closed'
    BY <2>1, <2>2 DEF NoneForgotten, Closed
  <2> QED  BY <2>2, <2>3, <2>4 DEF IInv
<1> QED  BY <1>1, <1>2, <1>3, <1>4 DEF Adorns

LEMMA ProcedureQuiet ==
    ASSUME ProcedureStep
    PROVE  /\ UNCHANGED adornVars /\ edb' = edb /\ outcome' # "idle" /\ Runs'
           /\ (outcome = "idle" /\ answered # <<>>) \/ Running
<1>1. ASSUME NEW x, NEW f, NEW g, Proceed(x, f, g)
      PROVE  outcome' # "idle" /\ Runs'
  BY <1>1 DEF Proceed, Runs
<1>2. CASE Start
  BY <1>2 DEF Start, Runs
<1>3. CASE BeginRule
  BY <1>1, <1>3 DEF BeginRule, In
<1>4. CASE JoinFact
  BY <1>1, <1>4 DEF JoinFact, In
<1>5. CASE EvaluateBody
  BY <1>1, <1>5 DEF EvaluateBody, In
<1>6. CASE EvaluateHead
  BY <1>1, <1>6 DEF EvaluateHead, In
<1>7. CASE Subquery
  BY <1>1, <1>7 DEF Subquery, In
<1>8. CASE QueryBase
  BY <1>1, <1>8 DEF QueryBase, In
<1>9. CASE NextAnswer
  BY <1>1, <1>9 DEF NextAnswer, In
<1>10. CASE NextFact
  BY <1>1, <1>10 DEF NextFact, In
<1>11. CASE ConcludeStep
  BY <1>1, <1>11 DEF ConcludeStep, In, Runs
<1> QED  BY <1>2, <1>3, <1>4, <1>5, <1>6, <1>7, <1>8, <1>9, <1>10, <1>11 DEF ProcedureStep

LEMMA AskSetup ==
    ASSUME Setup, NEW g, IsLiteral(g), Between, AskFor(g), branches # <<>> => Branch.rest # <<>>,
           UNCHANGED storeVars
    PROVE  Setup'
<1>1. /\ Ask(g, TRUE) /\ outcome' = "idle" /\ UNCHANGED <<edb, tabled, memVars, stack>>
  BY DEF AskFor
<1>2. goal' = g /\ ignoring' = TRUE /\ answered' = <<>>
  BY <1>1 DEF Ask
<1>3. IInv' /\ AnswersInv'
  BY <1>1, AdornsKeeps DEF Setup, Adorns
<1>4. outcome = "idle" /\ KnowsNothing
  BY DEF Setup, OneGoal, Between
<1>5. KnowsNothing'
  BY <1>1, <1>4 DEF KnowsNothing, memVars
<1>6. g # <<>>
  BY DEF IsLiteral, Adorned
<1>7. OneGoal'
  BY <1>1, <1>2, <1>5, <1>6 DEF OneGoal, Between, Open, storeVars, Branch
<1>8. Patterns' /\ Graph' /\ Endings' /\ Runs'
  BY <1>1, <1>4 DEF Setup, Patterns, Graph, Endings, Runs, KnowsNothing, storeVars
<1> QED  BY <1>3, <1>7, <1>8 DEF Setup

LEMMA Settled ==
    ASSUME OneGoal, goal = <<>>, UNCHANGED <<adornVars, memVars, stack, outcome>>
    PROVE  OneGoal'
BY DEF OneGoal, KnowsNothing, adornVars, memVars

LEMMA SetupStep == Setup /\ [StoreNext]_storeAll => Setup'
<1> SUFFICES ASSUME Setup, [StoreNext]_storeAll
             PROVE  Setup'
  OBVIOUS
<1> USE DEF Setup
<1>1. ASSUME UNCHANGED adornVars, edb' = edb
      PROVE  IInv' /\ AnswersInv' /\ Graph'
  BY <1>1, AdornsKeeps DEF Adorns, Graph
<1>2. CASE \E req \in given.requests : Request(req)
  <2>1. Patterns' /\ Endings' /\ ~Open /\ UNCHANGED <<adornVars, bfpVars>>
    BY <1>2, RequestPatterns
  <2>2. goal = <<>>
    BY <2>1 DEF OneGoal
  <2> QED  BY <1>1, <2>1, <2>2, Settled DEF bfpVars, Runs
<1>3. ASSUME NEW f \in given.updates, Update(f)
      PROVE  Setup'
  <2>1. /\ ~Open /\ edb' = edb \cup {f}
        /\ UNCHANGED <<adornVars, tabled, memVars, stack, outcome, storeVars>>
    BY <1>3 DEF Update
  <2>2. goal = <<>>
    BY <2>1 DEF OneGoal
  <2>3. IInv' /\ AnswersInv'
    BY <2>1, AdornsKeeps DEF Adorns
  <2>4. IsGroundFact(f)
    BY <1>3, RequestsAssumption DEF IInv, Setting
  <2>5. Graph'
    BY <2>1, <2>4 DEF Graph
  <2>6. OneGoal'
    BY <2>1, <2>2, Settled
  <2> QED  BY <2>1, <2>3, <2>5, <2>6 DEF Patterns, Endings, Runs, storeVars
<1>4. CASE Yield \/ SolveBase
  <2>1. Patterns' /\ Endings' /\ UNCHANGED <<adornVars, bfpVars>> /\ Between
    BY <1>4, YieldPatterns
  <2> QED  BY <1>1, <2>1, Settled DEF bfpVars, Runs, Between
<1>5. CASE SolveDerived
  <2>1. PICK theta : Between /\ branches # <<>> /\ Branch.rest # <<>> /\ AskFor(Next1(theta))
    BY <1>5 DEF SolveDerived
  <2>2. IsLiteral(Next1(theta))
    BY <2>1, HeadFrame
  <2> QED  BY <1>5, <2>1, <2>2, AskSetup DEF SolveDerived
<1>6. CASE SolveNext
  <2>1. Between /\ waiting # <<>> /\ AskFor(Head(waiting)) /\ UNCHANGED storeVars
    BY <1>6 DEF SolveNext
  <2>2. IsLiteral(Head(waiting)) /\ branches = <<>>
    BY <2>1, RangeOfPatterns DEF Patterns
  <2> QED  BY <2>1, <2>2, AskSetup
<1>7. CASE AdornStep
  <2>1. (Process \/ Finish) /\ UNCHANGED <<bfpVars, storeVars>>
    BY <1>7 DEF AdornStep
  <2>2. IInv' /\ AnswersInv'
    BY <2>1, AdornsKeeps DEF Adorns
  <2>3. /\ goal # <<>> /\ answered = <<>> /\ goal' = goal /\ ignoring' = ignoring
        /\ \/ answered' = answered
           \/ answered' = [adorned_program |-> program', query_atoms |-> collection]
    BY <2>1 DEF Process, Finish, Adorning
  <2>4. OneGoal'
    BY <2>1, <2>3 DEF OneGoal, KnowsNothing, bfpVars, memVars, storeVars, Open, Branch
  <2> QED  BY <2>1, <2>2, <2>4 DEF Patterns, Graph, Endings, Runs, bfpVars, storeVars
<1>8. CASE Refuse
  <2>1. NoOrder /\ Give("no sip") /\ UNCHANGED bfpVars
    BY <1>8 DEF Refuse
  <2>2. IInv' /\ AnswersInv'
    BY <2>1, AdornsKeeps DEF Adorns
  <2>3. answered = <<>> /\ goal' = <<>> /\ answered' = <<>>
    BY <2>1 DEF NoOrder, Adorning
  <2>4. OneGoal'
    BY <2>1, <2>3 DEF OneGoal, KnowsNothing, bfpVars, memVars
  <2>5. Patterns' /\ Endings'
    BY <2>1, GivenUp DEF Endings
  <2> QED  BY <2>1, <2>2, <2>4, <2>5 DEF Graph, Runs, bfpVars
<1>9. CASE BackwardStep
  <2>1. /\ UNCHANGED adornVars /\ edb' = edb /\ outcome' # "idle" /\ Runs'
        /\ (outcome = "idle" /\ answered # <<>>) \/ Running
        /\ UNCHANGED storeVars
    BY <1>9, ProcedureQuiet DEF BackwardStep
  <2>2. answered # <<>>
    BY <2>1 DEF OneGoal, Running
  <2>3. OneGoal'
    BY <2>1, <2>2 DEF OneGoal, adornVars, storeVars, Open, Branch
  <2> QED  BY <1>1, <2>1, <2>3 DEF Patterns, Endings, storeVars
<1>10. CASE Resume \/ Take \/ TakeFirst
  <2>1. Patterns' /\ Endings' /\ Forget /\ Solved
    BY <1>10, ForgetPatterns
  <2>2. /\ Forgotten /\ outcome' = "idle" /\ edb' = edb /\ stack' = stack
        /\ queries' = {} /\ inferred_facts' = {} /\ evaluated' = {} /\ matched' = {}
        /\ fired_edb_queries' = {}
    BY <2>1, ForgetIs
  <2>3. IInv' /\ AnswersInv'
    BY <2>2, AdornsKeeps DEF Adorns
  <2>4. stack = <<>>
    BY <2>1 DEF Runs, Solved, Ended
  <2>5. OneGoal'
    BY <2>2, <2>4 DEF OneGoal, KnowsNothing, Forgotten
  <2> QED  BY <2>1, <2>2, <2>3, <2>4, <2>5 DEF Graph, Runs
<1>11. CASE UNCHANGED storeAll
  <2>1. UNCHANGED adornVars /\ UNCHANGED bfpVars /\ UNCHANGED storeVars
    BY <1>11 DEF storeAll
  <2>2. OneGoal'
    BY <2>1 DEF OneGoal, KnowsNothing, adornVars, bfpVars, memVars, storeVars, Open, Branch
  <2> QED  BY <1>1, <2>1, <2>2 DEF Patterns, Endings, Runs, bfpVars, storeVars
<1> QED  BY <1>2, <1>3, <1>4, <1>5, <1>6, <1>7, <1>8, <1>9, <1>10, <1>11 DEF StoreNext, StoreStep

LEMMA SetupInit == SystemInit => Setup
<1> SUFFICES ASSUME SystemInit
             PROVE  Setup
  OBVIOUS
<1>1. Init /\ BFPInit /\ StoreInit
  BY DEF SystemInit
<1>2. IInv
  BY <1>1, InitInv
<1>3. goal = <<>> /\ answered = <<>> /\ AnswersInv
  BY <1>1 DEF Init, AnswersInv, Adorning
<1>4. OneGoal /\ Runs
  BY <1>1, <1>3 DEF BFPInit, OneGoal, KnowsNothing, Runs
<1>5. Graph
  BY <1>1, RequestsAssumption DEF Init, BFPInit, Graph
<1>6. Patterns /\ Endings
  <2>1. IsPatterns(<<>>) /\ ToSet(<<>>) = {} /\ <<>> \in Seq(ToSet(<<>>))
    BY DEF IsPatterns, ToSet
  <2> QED  BY <1>1, <2>1 DEF StoreInit, Patterns, Endings
<1> QED  BY <1>2, <1>3, <1>4, <1>5, <1>6 DEF Setup

(***************************************************************************)
(* Facts that pass a literal, and what they bind.                          *)
(***************************************************************************)

LEMMA BoundByIs ==
    ASSUME NEW l, DOMAIN l.args \subseteq Nat, NEW f
    PROVE  /\ DOMAIN BoundBy(l, f) = VarsOf(l)
           /\ \A v \in VarsOf(l) : \E i \in DOMAIN l.args :
                 l.args[i] = v /\ BoundBy(l, f)[v] = f.args[i]
<1>1. DOMAIN BoundBy(l, f) = VarsOf(l)
  BY DEF BoundBy
<1>2. ASSUME NEW v \in VarsOf(l)
      PROVE  \E i \in DOMAIN l.args : l.args[i] = v /\ BoundBy(l, f)[v] = f.args[i]
  <2> DEFINE T == {i \in DOMAIN l.args : l.args[i] = v}
             First(i) == l.args[i] = v /\ \A j \in DOMAIN l.args : j < i => l.args[j] # v
             c == CHOOSE i \in DOMAIN l.args : First(i)
  <2>1. T # {} /\ T \subseteq Nat
    BY DEF VarsOf, Args, ToSet
  <2>2. PICK k \in T : \A m \in T : k <= m
    BY <2>1, LeastNumber
  <2>3. \E i \in DOMAIN l.args : First(i)
    <3>1. \A j \in DOMAIN l.args : j < k => l.args[j] # v
      <4> SUFFICES ASSUME NEW j \in DOMAIN l.args, j < k, l.args[j] = v
                   PROVE  FALSE
        OBVIOUS
      <4>1. j \in T /\ k <= j /\ j \in Nat /\ k \in Nat
        BY <2>2
      <4> QED  BY <4>1
    <3> QED  BY <2>2, <3>1
  <2>4. c \in DOMAIN l.args /\ l.args[c] = v
    <3> HIDE DEF First
    <3>1. c \in DOMAIN l.args /\ First(c)
      BY <2>3
    <3> QED  BY <3>1 DEF First
  <2>5. BoundBy(l, f)[v] = f.args[c]
    BY DEF BoundBy
  <2> HIDE DEF c
  <2> QED  BY <2>4, <2>5
<1> QED  BY <1>1, <1>2

LEMMA BoundPlace ==
    ASSUME NEW l, DOMAIN l.args \subseteq Nat, SingleVars(l), NEW f, NEW i \in DOMAIN l.args,
           l.args[i] \in Var
    PROVE  l.args[i] \in VarsOf(l) /\ BoundBy(l, f)[l.args[i]] = f.args[i]
<1>1. l.args[i] \in VarsOf(l)
  BY DEF VarsOf, Args, ToSet
<1>2. PICK j \in DOMAIN l.args : l.args[j] = l.args[i] /\ BoundBy(l, f)[l.args[i]] = f.args[j]
  BY <1>1, BoundByIs
<1>3. j = i
  BY <1>2 DEF SingleVars
<1> QED  BY <1>1, <1>2, <1>3

LEMMA QueryTermIs ==
    ASSUME NEW l
    PROVE  /\ QueryTerm(l).op = <<l.op, l.ad>>
           /\ QueryTerm(l).args = [i \in BoundPlaces(l) |-> l.args[i]]
           /\ DOMAIN QueryTerm(l).args = BoundPlaces(l) /\ BoundPlaces(l) \subseteq DOMAIN l.args
           /\ VarsOf(QueryTerm(l)) = {l.args[i] : i \in BoundPlaces(l)} \cap Var
           /\ VarsOf(QueryTerm(l)) \subseteq VarsOf(l)
<1> DEFINE args == [i \in BoundPlaces(l) |-> l.args[i]]
<1>1. QueryTerm(l).op = <<l.op, l.ad>> /\ QueryTerm(l).args = args
  BY DEF QueryTerm, Lit, Adorned
<1>2. DOMAIN args = BoundPlaces(l) /\ BoundPlaces(l) \subseteq DOMAIN l.args
  BY DEF BoundPlaces
<1>3. ToSet(args) = {l.args[i] : i \in BoundPlaces(l)}
  BY DEF ToSet
<1>4. {l.args[i] : i \in BoundPlaces(l)} \subseteq Args(l)
  BY <1>2 DEF Args, ToSet
<1> QED  BY <1>1, <1>2, <1>3, <1>4 DEF VarsOf, Args

LEMMA AskedQuery ==
    ASSUME NEW l, NEW theta
    PROVE  /\ Fact(Ground(QueryTerm(l), theta)) =
                 [op |-> <<l.op, l.ad>>,
                  args |-> [i \in BoundPlaces(l) |-> Value(l.args[i], theta)]]
           /\ IsGround(Ground(QueryTerm(l), theta)) <=>
                 \A i \in BoundPlaces(l) : Value(l.args[i], theta) \notin Var
<1> DEFINE args == [i \in BoundPlaces(l) |-> Value(l.args[i], theta)]
           q == QueryTerm(l)
           g == Ground(q, theta)
<1>1. q = Adorned(<<l.op, l.ad>>, [i \in BoundPlaces(l) |-> l.args[i]], <<>>, FALSE)
  BY DEF QueryTerm, Lit
<1>2. g = Adorned(<<l.op, l.ad>>, args, <<>>, FALSE)
  <2> DEFINE old == [i \in BoundPlaces(l) |-> l.args[i]]
  <2>1. q = [op |-> <<l.op, l.ad>>, args |-> old, ad |-> <<>>, naf |-> FALSE]
    BY <1>1 DEF Adorned
  <2>2. q.args = old /\ DOMAIN old = BoundPlaces(l)
    BY <2>1
  <2>3. [i \in DOMAIN q.args |-> Value(q.args[i], theta)] = args
    BY <2>2
  <2>4. g = [q EXCEPT !.args = args]
    BY <2>3 DEF Ground
  <2> HIDE DEF q, args, old, g
  <2> QED  BY <2>1, <2>4 DEF Adorned
<1>3. g.op = <<l.op, l.ad>> /\ g.args = args
  BY <1>2 DEF Adorned
<1>4. Fact(g) = [op |-> <<l.op, l.ad>>, args |-> args]
  BY <1>3 DEF Fact
<1>5. ToSet(args) = {Value(l.args[i], theta) : i \in BoundPlaces(l)}
  BY DEF ToSet
<1> HIDE DEF g
<1>6. IsGround(g) <=> \A i \in BoundPlaces(l) : Value(l.args[i], theta) \notin Var
  BY <1>3, <1>5 DEF IsGround, VarsOf, Args
<1> QED  BY <1>4, <1>6 DEF g

\* The variables of a rule that are bound once its first j literals hold.
BindVars(r, j) == VarsOf(QueryTerm(r.head)) \cup UNION {VarsOf(r.body[i]) : i \in 1 .. j}
Binds1(theta, vs) == DOMAIN theta = vs /\ \A v \in vs : theta[v] \notin Var
Covers(theta, r, j) == Binds1(theta, BindVars(r, j))

LEMMA BindVarsIs ==
    ASSUME NEW r, NEW j \in Nat, NEW k \in Nat, j <= k
    PROVE  /\ BindVars(r, j) \subseteq Var
           /\ BindVars(r, k) = BindVars(r, j) \cup UNION {VarsOf(r.body[i]) : i \in j + 1 .. k}
           /\ BindVars(r, 0) = VarsOf(QueryTerm(r.head))
<1>1. \A l : VarsOf(l) \subseteq Var
  BY DEF VarsOf
<1>2. 1 .. k = (1 .. j) \cup (j + 1 .. k) /\ 1 .. 0 = {}
  OBVIOUS
<1> QED  BY <1>1, <1>2 DEF BindVars

LEMMA MergeIs ==
    ASSUME NEW theta, NEW phi
    PROVE  /\ DOMAIN Merge(theta, phi) = DOMAIN theta \cup DOMAIN phi
           /\ \A v \in DOMAIN theta : Merge(theta, phi)[v] = theta[v]
           /\ \A v \in DOMAIN phi : v \notin DOMAIN theta => Merge(theta, phi)[v] = phi[v]
BY DEF Merge

LEMMA MergeBinds ==
    ASSUME NEW theta, NEW vs, Binds1(theta, vs), NEW phi, NEW ws, Binds1(phi, ws)
    PROVE  Binds1(Merge(theta, phi), vs \cup ws)
<1>1. DOMAIN Merge(theta, phi) = vs \cup ws
  BY MergeIs DEF Binds1
<1>2. ASSUME NEW v \in vs \cup ws PROVE Merge(theta, phi)[v] \notin Var
  <2>0. DOMAIN theta = vs /\ DOMAIN phi = ws
    BY DEF Binds1
  <2>1. CASE v \in vs
    <3>1. Merge(theta, phi)[v] = theta[v]
      BY <2>0, <2>1 DEF Merge
    <3> QED  BY <2>1, <3>1 DEF Binds1
  <2>2. CASE v \notin vs
    <3>1. Merge(theta, phi)[v] = phi[v] /\ v \in ws
      BY <1>2, <2>0, <2>2 DEF Merge
    <3> QED  BY <3>1 DEF Binds1
  <2> QED  BY <2>1, <2>2
<1> QED  BY <1>1, <1>2 DEF Binds1

LEMMA BoundByBinds ==
    ASSUME NEW l, DOMAIN l.args \subseteq Nat, NEW f, DOMAIN l.args \subseteq DOMAIN f.args,
           \A i \in DOMAIN f.args : f.args[i] \notin Var
    PROVE  Binds1(BoundBy(l, f), VarsOf(l))
<1>1. ASSUME NEW v \in VarsOf(l) PROVE BoundBy(l, f)[v] \notin Var
  <2>1. PICK i \in DOMAIN l.args : l.args[i] = v /\ BoundBy(l, f)[v] = f.args[i]
    BY BoundByIs
  <2> QED  BY <2>1
<1> QED  BY <1>1, BoundByIs DEF Binds1

LEMMA AdArgs ==
    ASSUME NEW l, IsAdLiteral(l)
    PROVE  /\ DOMAIN l.args = 1 .. Len(l.args) /\ Len(l.args) \in Nat /\ DOMAIN l.args \subseteq Nat
           /\ DOMAIN QueryTerm(l).args \subseteq Nat
<1>1. DOMAIN l.args = 1 .. Len(l.args) /\ Len(l.args) \in Nat
  BY DEF IsAdLiteral
<1>2. DOMAIN l.args \subseteq Nat
  BY <1>1
<1> QED  BY <1>1, <1>2, QueryTermIs

LEMMA GroundArgs ==
    ASSUME NEW f, IsGroundFact(f)
    PROVE  \A i \in DOMAIN f.args : f.args[i] \notin Var
BY DEF IsGroundFact, ToSet

LEMMA JoinCovers ==
    ASSUME NEW r, IsAdRule(r), NEW j \in DOMAIN r.body, NEW f, IsGroundFact(f),
           Passes(r.body[j], f), NEW theta, Covers(theta, r, j - 1)
    PROVE  Covers(Merge(theta, BoundBy(r.body[j], f)), r, j)
<1>1. j \in Nat /\ j - 1 \in Nat /\ j - 1 <= j /\ (j - 1) + 1 .. j = {j}
  BY DEF IsAdRule
<1>2. Binds1(BoundBy(r.body[j], f), VarsOf(r.body[j]))
  <2>1. DOMAIN r.body[j].args \subseteq Nat
    BY AdArgs DEF IsAdRule
  <2> QED  BY <2>1, GroundArgs, BoundByBinds DEF Passes
<1>3. BindVars(r, j) = BindVars(r, j - 1) \cup VarsOf(r.body[j])
  BY <1>1, BindVarsIs
<1> QED  BY <1>2, <1>3, MergeBinds DEF Covers

(***************************************************************************)
(* The calls in progress.                                                  *)
(***************************************************************************)

Busy(F) == F.todo # {}
Less(x) == [Top EXCEPT !.todo = @ \ {x}]

LEMMA PushHas ==
    ASSUME NEW s, s \in Seq(ToSet(s)), NEW f, NEW t, t = Push(f, s)
    PROVE  /\ t \in Seq(ToSet(t)) /\ ToSet(s) \subseteq ToSet(t)
           /\ \A F \in ToSet(t) : F \in ToSet(s) \/ (F = f /\ Busy(f))
           /\ Busy(f) => f \in ToSet(t)
<1>1. CASE ~Busy(f)
  <2>1. t = s
    BY <1>1 DEF Push, Busy
  <2> QED  BY <1>1, <2>1
<1>2. CASE Busy(f)
  <2> DEFINE S == ToSet(s)
             U == S \cup {f}
  <2>1. t = <<f>> \o s
    BY <1>2 DEF Push, Busy
  <2>2. S \subseteq U /\ f \in U /\ s \in Seq(S)
    OBVIOUS
  <2> HIDE DEF U, S
  <2>3. <<f>> \in Seq(U) /\ s \in Seq(U)
    BY <2>2
  <2>4. ToSet(<<f>>) = {f}
    <3>1. DOMAIN <<f>> = {1} /\ <<f>>[1] = f
      OBVIOUS
    <3> QED  BY <3>1 DEF ToSet
  <2>5. t \in Seq(U) /\ ToSet(t) = {f} \cup ToSet(s)
    <3>1. PICK one : one = <<f>>
      OBVIOUS
    <3>2. one \in Seq(U) /\ t = one \o s /\ ToSet(one) = {f}
      BY <2>1, <2>3, <2>4, <3>1
    <3>3. one \o s \in Seq(U) /\ ToSet(one \o s) = ToSet(one) \cup ToSet(s)
      BY <2>3, <3>2, ConcatHas
    <3> QED  BY <3>2, <3>3
  <2>6. t \in Seq(ToSet(t))
    BY <2>5, OverItsRange
  <2> QED  BY <1>2, <2>5, <2>6
<1> QED  BY <1>1, <1>2

LEMMA ProceedHas ==
    ASSUME stack \in Seq(ToSet(stack)), stack # <<>>, NEW x, NEW f, NEW g, Proceed(x, f, g)
    PROVE  /\ Top \in ToSet(stack) /\ stack' \in Seq(ToSet(stack'))
           /\ \A F \in ToSet(stack') : \/ F \in ToSet(stack)
                                       \/ Busy(F) /\ (F = f \/ F = g \/ F = Less(x))
           /\ \A F \in ToSet(stack) : F = Top \/ F \in ToSet(stack')
           /\ \A F : Busy(F) /\ (F = f \/ F = g \/ F = Less(x)) => F \in ToSet(stack')
<1> DEFINE S == ToSet(stack)
<1>1. stack \in Seq(S)
  OBVIOUS
<1> HIDE DEF S
<1>2. /\ Head(stack) \in S /\ Tail(stack) \in Seq(S)
      /\ \A i \in DOMAIN stack : i = 1 \/ (i - 1 \in DOMAIN Tail(stack) /\ Tail(stack)[i - 1] = stack[i])
      /\ stack[1] = Head(stack)
  BY <1>1
<1> DEFINE s0 == Tail(stack)
           s1 == Push(Less(x), s0)
           s2 == Push(g, s1)
<1>3. s0 \in Seq(ToSet(s0)) /\ ToSet(s0) \subseteq S
  BY <1>2, OverItsRange, RangeFinite
<1>4. \A F \in S : F = Top \/ F \in ToSet(s0)
  <2>1. ASSUME NEW i \in DOMAIN stack, stack[i] # Top
        PROVE  stack[i] \in ToSet(s0)
    <3>1. i # 1
      BY <1>2, <2>1 DEF Top
    <3>2. i - 1 \in DOMAIN s0 /\ s0[i - 1] = stack[i]
      BY <1>2, <3>1
    <3> HIDE DEF s0
    <3> QED  BY <3>2 DEF ToSet
  <2> QED  BY <2>1 DEF S, ToSet
<1>5. stack' = Push(f, s2)
  BY DEF Proceed, Less
<1> HIDE DEF s0
<1>6. /\ s1 \in Seq(ToSet(s1)) /\ ToSet(s0) \subseteq ToSet(s1)
      /\ \A F \in ToSet(s1) : F \in ToSet(s0) \/ (F = Less(x) /\ Busy(Less(x)))
      /\ Busy(Less(x)) => Less(x) \in ToSet(s1)
  BY <1>3, PushHas
<1> HIDE DEF s1
<1>7. /\ s2 \in Seq(ToSet(s2)) /\ ToSet(s1) \subseteq ToSet(s2)
      /\ \A F \in ToSet(s2) : F \in ToSet(s1) \/ (F = g /\ Busy(g))
      /\ Busy(g) => g \in ToSet(s2)
  BY <1>6, PushHas
<1> HIDE DEF s2
<1>8. /\ stack' \in Seq(ToSet(stack')) /\ ToSet(s2) \subseteq ToSet(stack')
      /\ \A F \in ToSet(stack') : F \in ToSet(s2) \/ (F = f /\ Busy(f))
      /\ Busy(f) => f \in ToSet(stack')
  BY <1>5, <1>7, PushHas
<1> QED  BY <1>2, <1>3, <1>4, <1>6, <1>7, <1>8 DEF S, Top

\* What a query, an answer and a call can be.
Stems == {AdornLiteral(Asked)}
             \cup UNION {{r.body[k] : k \in {i \in DOMAIN r.body : ~IsBase(r.body[i])}} : r \in program}
IsQuery(q) ==
    /\ q = Fact(q) /\ q.args = [i \in DOMAIN q.args |-> q.args[i]]
    /\ \A i \in DOMAIN q.args : q.args[i] \notin Var
    /\ \E a \in Stems : q.op = <<a.op, a.ad>> /\ DOMAIN q.args = BoundPlaces(a)
IsAnswer(ans, vs) == vs # {} => Binds1(ans, vs)
IsJoin(y, f) ==
    \E r \in program : \E j \in DOMAIN r.body : y = <<r, j>> /\ HasC(r.body[j]) /\ Passes(r.body[j], f)
IsBaseCall(r, j, theta) ==
    /\ r \in program /\ j \in Nat /\ j + 1 \in DOMAIN r.body /\ IsBase(r.body[j + 1])
    /\ Covers(theta, r, j)

QueryCall(F) ==
    /\ F.op = "query" /\ F = [op |-> "query", query |-> F.query, todo |-> F.todo]
    /\ F.query \in queries
    /\ \A r \in F.todo : r \in program /\ Passes(QueryTerm(r.head), F.query)
FactCall(F) ==
    /\ F.op = "fact" /\ F = [op |-> "fact", fact |-> F.fact, todo |-> F.todo]
    /\ IsGroundFact(F.fact) /\ \A y \in F.todo : IsJoin(y, F.fact)
EvaluateCall(F) ==
    /\ F.op = "evaluate"
    /\ F = [op |-> "evaluate", rule |-> F.rule, at |-> F.at, todo |-> F.todo]
    /\ F.rule \in program /\ F.at \in 0 .. Len(F.rule.body)
    /\ \A theta \in F.todo : Covers(theta, F.rule, F.at)
LiteralCall(F) ==
    /\ F.op = "call" /\ F = [op |-> "call", rule |-> F.rule, at |-> F.at, todo |-> F.todo]
    /\ F.rule \in program /\ F.at \in Nat /\ F.at + 1 \in DOMAIN F.rule.body
    /\ \A theta \in F.todo : Covers(theta, F.rule, F.at)
BaseCall(F) ==
    /\ F.op = "edb"
    /\ F = [op |-> "edb", rule |-> F.rule, at |-> F.at, binding |-> F.binding,
            query |-> F.query, fresh |-> F.fresh, todo |-> F.todo]
    /\ IsBaseCall(F.rule, F.at, F.binding)
    /\ F.query = ConjunctionAt(F.rule, F.at, F.binding) /\ F.fresh \in BOOLEAN
    /\ \A ans \in F.todo : IsAnswer(ans, VarsOfAll(F.query))
FactsCall(F) ==
    /\ F.op = "facts" /\ F = [op |-> "facts", facts |-> F.facts, todo |-> F.todo]
    /\ \A i \in F.todo : IsGroundFact(F.facts[i])
ConcludeCall(F) == F.op = "conclude" /\ F = [op |-> "conclude", todo |-> F.todo]
IsCall(F) == \/ QueryCall(F) \/ FactCall(F) \/ EvaluateCall(F) \/ LiteralCall(F)
             \/ BaseCall(F) \/ FactsCall(F) \/ ConcludeCall(F)

IsEvaluated(e) == /\ e = <<e[1], e[2], e[3]>> /\ e[1] \in program
                  /\ e[2] \in 0 .. Len(e[1].body) /\ Covers(e[3], e[1], e[2])
IsMatched(m) == /\ m = <<m[1], m[2], m[3]>> /\ m[1] \in program /\ m[2] \in DOMAIN m[1].body
                /\ HasC(m[1].body[m[2]]) /\ Passes(m[1].body[m[2]], m[3]) /\ IsGroundFact(m[3])
IsFired(e) == e = <<e[1], e[2], e[3]>> /\ IsBaseCall(e[1], e[2], e[3])
Cached == \A k \in DOMAIN tabled : \A ans \in tabled[k] : IsAnswer(ans, DOMAIN k \cap Var)
Calling == stack \in Seq(ToSet(stack)) /\ \A F \in ToSet(stack) : Busy(F) /\ IsCall(F)
Typed == /\ Calling /\ Cached
         /\ \A e \in evaluated : IsEvaluated(e)
         /\ \A m \in matched : IsMatched(m)
         /\ \A f \in inferred_facts : IsGroundFact(f)
         /\ \A q \in queries : IsQuery(q)
         /\ \A e \in fired_edb_queries : IsFired(e)

(***************************************************************************)
(* Literals put together into a base query.                                *)
(***************************************************************************)

LEMMA GroundIs ==
    ASSUME NEW l, IsAdLiteral(l), NEW theta
    PROVE  /\ IsAdLiteral(Ground(l, theta)) /\ Ground(l, theta).op = l.op
           /\ Ground(l, theta).args = [i \in DOMAIN l.args |-> Value(l.args[i], theta)]
           /\ DOMAIN Ground(l, theta).args = DOMAIN l.args
<1> DEFINE args == [i \in DOMAIN l.args |-> Value(l.args[i], theta)]
           g == Ground(l, theta)
<1>1. g = Adorned(l.op, args, l.ad, l.naf)
  BY DEF Ground, IsAdLiteral, Adorned
<1>2. g.op = l.op /\ g.args = args /\ g.ad = l.ad /\ g.naf = l.naf
  BY <1>1 DEF Adorned
<1>3. DOMAIN l.args = 1 .. Len(l.args) /\ Len(l.args) \in Nat
  BY DEF IsAdLiteral
<1>4. args = [i \in 1 .. Len(l.args) |-> args[i]] /\ DOMAIN args = DOMAIN l.args
  BY <1>3
<1>5. args \in Seq(ToSet(args)) /\ Len(args) = Len(l.args)
  <2> HIDE DEF args
  <2> QED  BY <1>3, <1>4, AppendNothing
<1> HIDE DEF args, g
<1>6. IsAdLiteral(g)
  BY <1>1, <1>2, <1>5 DEF IsAdLiteral, IsAdorned, Arity
<1> QED  BY <1>2, <1>4, <1>6 DEF g, args

LEMMA GroundVars ==
    ASSUME NEW l, IsAdLiteral(l), NEW theta, NEW vs, Binds1(theta, vs)
    PROVE  VarsOf(Ground(l, theta)) = VarsOf(l) \ vs
<1> DEFINE g == Ground(l, theta)
<1>1. g.args = [i \in DOMAIN l.args |-> Value(l.args[i], theta)]
  BY GroundIs
<1>2. Args(g) = {Value(l.args[i], theta) : i \in DOMAIN l.args}
  BY <1>1 DEF Args, ToSet
<1>3. \A i \in DOMAIN l.args :
         /\ l.args[i] \in vs => Value(l.args[i], theta) \notin Var
         /\ l.args[i] \notin vs => Value(l.args[i], theta) = l.args[i]
  BY DEF Binds1, Value
<1>4. Args(l) = {l.args[i] : i \in DOMAIN l.args}
  BY DEF Args, ToSet
<1> HIDE DEF g
<1>5. \A v : v \in VarsOf(g) <=> v \in VarsOf(l) \ vs
  BY <1>2, <1>3, <1>4 DEF VarsOf
<1> QED  BY <1>5 DEF g

LEMMA GroundFact ==
    ASSUME NEW l, IsAdLiteral(l), IsGround(l)
    PROVE  IsGroundFact(Fact(l))
<1>1. Fact(l).op = l.op /\ Fact(l).args = l.args /\ Fact(l) = Fact(Fact(l))
  BY DEF Fact
<1>2. ToSet(l.args) \cap Var = {} /\ l.args \in Seq(ToSet(l.args))
  BY DEF IsGround, VarsOf, Args, IsAdLiteral
<1> QED  BY <1>1, <1>2 DEF IsGroundFact

LEMMA EndOfIs ==
    ASSUME NEW r, IsAdRule(r), NEW j \in 0 .. Len(r.body), NEW e, e = EndOf(r, j)
    PROVE  /\ e \in j .. Len(r.body) /\ \A i \in j + 1 .. e : IsBase(r.body[i])
           /\ e = Len(r.body) \/ ~IsBase(r.body[e + 1])
<1> DEFINE n == Len(r.body)
           Fits(k) == /\ \A i \in j + 1 .. k : IsBase(r.body[i])
                      /\ k = n \/ ~IsBase(r.body[k + 1])
           T == {k \in j .. n : k = n \/ ~IsBase(r.body[k + 1])}
<1>1. n \in Nat
  BY DEF IsAdRule
<1>2. PICK k \in T : \A m \in T : k <= m
  <2>1. n \in T /\ T \subseteq Nat
    BY <1>1
  <2> QED  BY <2>1, LeastNumber
<1>3. ASSUME NEW i \in j + 1 .. k PROVE IsBase(r.body[i])
  <2>1. i - 1 \in j .. n /\ ~(k <= i - 1) /\ (i - 1) + 1 = i /\ i - 1 # n
    BY <1>1, <1>2
  <2>2. i - 1 \notin T
    BY <1>2, <2>1
  <2> QED  BY <2>1, <2>2
<1>4. \E m \in j .. n : Fits(m)
  BY <1>2, <1>3
<1>5. e = CHOOSE m \in j .. n : Fits(m)
  BY DEF EndOf
<1>6. e \in j .. n /\ Fits(e)
  <2> HIDE DEF Fits, n
  <2> QED  BY <1>4, <1>5, Zenon
<1> QED  BY <1>6

LEMMA ConjunctionIs ==
    ASSUME NEW r, IsAdRule(r), NEW j \in 0 .. Len(r.body), NEW theta,
           NEW e, e = EndOf(r, j), NEW q, q = ConjunctionAt(r, j, theta)
    PROVE  /\ q = [i \in 1 .. e - j |-> Ground(r.body[j + i], theta)]
           /\ DOMAIN q = 1 .. e - j /\ e - j \in Nat
           /\ \A i \in 1 .. e - j : /\ j + i \in j + 1 .. e /\ j + i \in DOMAIN r.body
                                   /\ IsBase(r.body[j + i]) /\ IsAdLiteral(r.body[j + i])
                                   /\ q[i] = Ground(r.body[j + i], theta) /\ IsAdLiteral(q[i])
<1>1. e \in j .. Len(r.body) /\ \A i \in j + 1 .. e : IsBase(r.body[i])
  BY EndOfIs
<1>2. e - j \in Nat /\ Len(r.body) \in Nat /\ DOMAIN r.body = 1 .. Len(r.body)
  BY <1>1 DEF IsAdRule
<1>3. \A i \in 1 .. e - j : j + i \in j + 1 .. e /\ j + i \in DOMAIN r.body
  BY <1>1, <1>2
<1>4. \A i \in 1 .. e - j : IsBase(r.body[j + i]) /\ IsAdLiteral(r.body[j + i])
  BY <1>1, <1>3 DEF IsAdRule
<1> DEFINE run == SubSeq(r.body, j + 1, e)
           s == [i \in 1 .. e - j |-> Ground(r.body[j + i], theta)]
<1>5. DOMAIN run = 1 .. e - j /\ \A i \in 1 .. e - j : run[i] = r.body[j + i]
  <2>1. r.body \in Seq(ToSet(r.body)) /\ j + 1 \in 1 .. Len(r.body) + 1 /\ e \in j .. Len(r.body)
    BY <1>1, <1>2 DEF IsAdRule
  <2>2. Len(run) = e - j /\ run \in Seq(ToSet(r.body))
        /\ \A i \in 1 .. e - j : run[i] = r.body[(j + 1) + i - 1]
    BY <2>1, <1>2
  <2>3. \A i \in 1 .. e - j : (j + 1) + i - 1 = j + i
    BY <1>2
  <2> QED  BY <2>2, <2>3
<1>6. [i \in DOMAIN run |-> Ground(run[i], theta)] = s
  BY <1>5
<1>7. q = s \o <<>>
  BY <1>6 DEF ConjunctionAt, Map
<1>8. s = [i \in 1 .. e - j |-> s[i]] /\ DOMAIN s = 1 .. e - j
  OBVIOUS
<1>9. s \o <<>> = s
  <2> HIDE DEF s
  <2> QED  BY <1>2, <1>8, AppendNothing
<1>10. \A i \in 1 .. e - j : s[i] = Ground(r.body[j + i], theta) /\ IsAdLiteral(s[i])
  BY <1>4, GroundIs
<1>11. q = s
  BY <1>7, <1>9
<1> QED  BY <1>2, <1>3, <1>4, <1>8, <1>10, <1>11

LEMMA AnswerCovers ==
    ASSUME NEW r, IsAdRule(r), NEW j \in 0 .. Len(r.body), NEW theta, Covers(theta, r, j),
           NEW e, e = EndOf(r, j), NEW q, q = ConjunctionAt(r, j, theta)
    PROVE  /\ e \in 0 .. Len(r.body)
           /\ VarsOfAll(q) = (UNION {VarsOf(r.body[i]) : i \in j + 1 .. e}) \ BindVars(r, j)
           /\ BindVars(r, e) = BindVars(r, j) \cup VarsOfAll(q)
           /\ \A ans : Binds1(ans, VarsOfAll(q)) => Covers(Merge(theta, ans), r, e)
           /\ VarsOfAll(q) = {} => Covers(theta, r, e)
<1>1. e \in j .. Len(r.body) /\ j \in Nat /\ e \in Nat /\ j <= e /\ Len(r.body) \in Nat
  BY EndOfIs DEF IsAdRule
<1>2. /\ DOMAIN q = 1 .. e - j /\ e - j \in Nat
      /\ \A i \in 1 .. e - j : q[i] = Ground(r.body[j + i], theta) /\ IsAdLiteral(r.body[j + i])
  BY ConjunctionIs
<1> DEFINE U == UNION {VarsOf(r.body[i]) : i \in j + 1 .. e}
           B == BindVars(r, j)
<1>3. \A i \in 1 .. e - j : VarsOf(q[i]) = VarsOf(r.body[j + i]) \ B
  BY <1>2, GroundVars DEF Covers
<1>4. \A v : v \in VarsOfAll(q) <=> \E i \in 1 .. e - j : v \in VarsOf(r.body[j + i]) \ B
  BY <1>2, <1>3 DEF VarsOfAll
<1>5. \A i : i \in j + 1 .. e <=> \E k \in 1 .. e - j : i = j + k
  <2>1. ASSUME NEW i \in j + 1 .. e PROVE \E k \in 1 .. e - j : i = j + k
    <3>1. i - j \in 1 .. e - j /\ i = j + (i - j)
      BY <1>1
    <3> QED  BY <3>1
  <2>2. ASSUME NEW k \in 1 .. e - j PROVE j + k \in j + 1 .. e
    BY <1>1
  <2> QED  BY <2>1, <2>2
<1>6. \A v : v \in U <=> \E i \in 1 .. e - j : v \in VarsOf(r.body[j + i])
  BY <1>5
<1> HIDE DEF U, B
<1>7. VarsOfAll(q) = U \ B
  BY <1>4, <1>6
<1>8. BindVars(r, e) = B \cup U
  BY <1>1, BindVarsIs DEF U, B
<1>9. BindVars(r, e) = B \cup VarsOfAll(q)
  BY <1>7, <1>8
<1>10. ASSUME NEW ans, Binds1(ans, VarsOfAll(q))
       PROVE  Covers(Merge(theta, ans), r, e)
  BY <1>9, <1>10, MergeBinds DEF Covers, B
<1>11. VarsOfAll(q) = {} => Covers(theta, r, e)
  <2>1. VarsOfAll(q) = {} => BindVars(r, e) = B
    BY <1>9
  <2> QED  BY <2>1 DEF Covers, B
<1>12. e \in 0 .. Len(r.body)
  BY <1>1
<1>13. \A ans : Binds1(ans, VarsOfAll(q)) => Covers(Merge(theta, ans), r, e)
  BY <1>10
<1>14. VarsOfAll(q) = (UNION {VarsOf(r.body[i]) : i \in j + 1 .. e}) \ BindVars(r, j)
  <2> USE DEF U, B
  <2> QED  BY <1>7, Zenon
<1>15. BindVars(r, e) = BindVars(r, j) \cup VarsOfAll(q)
  BY <1>9 DEF B
<1> QED  BY <1>11, <1>12, <1>13, <1>14, <1>15, Zenon

FactsFor(q, theta) == Map(LAMBDA l : Fact(Ground(l, theta)), q)

LEMMA AnswerFacts ==
    ASSUME NEW r, IsAdRule(r), NEW j \in 0 .. Len(r.body), NEW theta, Covers(theta, r, j),
           NEW e, e = EndOf(r, j), NEW q, q = ConjunctionAt(r, j, theta),
           NEW all, Covers(all, r, e), NEW facts,
           facts = FactsFor(q, all)
    PROVE  /\ DOMAIN facts = DOMAIN q
           /\ \A i \in DOMAIN q : facts[i] = Fact(Ground(q[i], all)) /\ IsGroundFact(facts[i])
<1>1. /\ DOMAIN q = 1 .. e - j /\ e - j \in Nat
      /\ \A i \in 1 .. e - j : IsAdLiteral(q[i])
  BY ConjunctionIs
<1> DEFINE s == [i \in 1 .. e - j |-> Fact(Ground(q[i], all))]
<1>2. facts = s \o <<>>
  BY <1>1 DEF Map, FactsFor
<1>3. s = [i \in 1 .. e - j |-> s[i]] /\ DOMAIN s = 1 .. e - j
  OBVIOUS
<1>4. s \o <<>> = s
  <2> HIDE DEF s
  <2> QED  BY <1>1, <1>3, AppendNothing
<1>5. ASSUME NEW i \in 1 .. e - j PROVE IsGroundFact(Fact(Ground(q[i], all)))
  <2>1. IsAdLiteral(q[i]) /\ VarsOf(q[i]) \subseteq VarsOfAll(q)
    <3>2. IsAdLiteral(q[i])
      BY <1>1
    <3>3. i \in DOMAIN q
      BY <1>1
    <3>4. VarsOf(q[i]) \subseteq VarsOfAll(q)
      BY <3>3 DEF VarsOfAll
    <3> QED  BY <3>2, <3>4
  <2>2. VarsOf(Ground(q[i], all)) = VarsOf(q[i]) \ BindVars(r, e)
    BY <2>1, GroundVars DEF Covers
  <2>3. VarsOfAll(q) \subseteq BindVars(r, e)
    BY AnswerCovers
  <2>4. IsGround(Ground(q[i], all)) /\ IsAdLiteral(Ground(q[i], all))
    BY <2>1, <2>2, <2>3, GroundIs DEF IsGround
  <2> QED  BY <2>4, GroundFact
<1> QED  BY <1>1, <1>2, <1>4, <1>5

LEMMA KeyVars ==
    ASSUME NEW n \in Nat, NEW q, DOMAIN q = 1 .. n,
           \A i \in 1 .. n : IsAdLiteral(q[i]) /\ q[i].op \notin Var
    PROVE  DOMAIN Key(q) \cap Var = VarsOfAll(q)
<1> DEFINE s == [i \in 1 .. n |-> <<q[i].op>> \o q[i].args]
           ts == FlattenSeq(s)
           S == UNION {{q[i].op} \cup ToSet(q[i].args) : i \in 1 .. n}
<1>1. \A i \in 1 .. n : /\ <<q[i].op>> \o q[i].args \in Seq(S)
                        /\ ToSet(<<q[i].op>> \o q[i].args) = {q[i].op} \cup ToSet(q[i].args)
  <2>1. ASSUME NEW i \in 1 .. n
        PROVE  /\ <<q[i].op>> \o q[i].args \in Seq(S)
               /\ ToSet(<<q[i].op>> \o q[i].args) = {q[i].op} \cup ToSet(q[i].args)
    <3>1. PICK one : one = <<q[i].op>>
      OBVIOUS
    <3>2. PICK args : args = q[i].args
      OBVIOUS
    <3> DEFINE T == ToSet(args)
    <3>3. args \in Seq(T)
      BY <3>2 DEF IsAdLiteral
    <3>4. T \subseteq S /\ q[i].op \in S
      BY <3>2
    <3> HIDE DEF S, T
    <3>5. one \in Seq(S) /\ args \in Seq(S)
      BY <3>1, <3>3, <3>4
    <3>6. ToSet(one) = {q[i].op}
      <4>1. DOMAIN one = {1} /\ one[1] = q[i].op
        BY <3>1
      <4> QED  BY <4>1 DEF ToSet
    <3>7. one \o args \in Seq(S) /\ ToSet(one \o args) = ToSet(one) \cup ToSet(args)
      BY <3>5, ConcatHas
    <3> QED  BY <3>1, <3>2, <3>6, <3>7
  <2> QED  BY <2>1
<1>2. s \in [1 .. n -> Seq(S)]
  BY <1>1
<1>3. s = [i \in 1 .. n |-> s[i]] /\ \A i \in 1 .. n : ToSet(s[i]) = {q[i].op} \cup ToSet(q[i].args)
  BY <1>1
<1>4. Map(LAMBDA l : <<l.op>> \o l.args, q) = s \o <<>>
  BY DEF Map
<1> HIDE DEF s, S
<1>5. s \o <<>> = s
  BY <1>3, AppendNothing
<1>6. \A x : x \in ToSet(ts) <=> \E i \in 1 .. n : x \in ToSet(s[i])
  BY <1>2, FlattenHas
<1> HIDE DEF ts
<1>7. DOMAIN Key(q) = ToSet(ts)
  BY <1>4, <1>5 DEF Key, ts
<1>8. \A x : x \in VarsOfAll(q) <=> \E i \in 1 .. n : x \in ToSet(q[i].args) \cap Var
  BY DEF VarsOfAll, VarsOf, Args
<1> QED  BY <1>3, <1>6, <1>7, <1>8

LEMMA ResultIsAnswer ==
    ASSUME Graph, NEW q, NEW ans \in Results(q, edb)
    PROVE  IsAnswer(ans, VarsOfAll(q))
<1>1. ASSUME VarsOfAll(q) # {} PROVE Binds1(ans, VarsOfAll(q))
  <2>1. ans \in [VarsOfAll(q) -> Terms(edb)]
    BY <1>1 DEF Results
  <2>2. Terms(edb) \cap Var = {}
    BY DEF Graph, IsGroundFact, Terms
  <2> QED  BY <2>1, <2>2 DEF Binds1
<1> QED  BY <1>1 DEF IsAnswer

LEMMA TabledAnswers ==
    ASSUME Graph, Cached, NEW q, DOMAIN Key(q) \cap Var = VarsOfAll(q), NEW ans \in Tabled(q)
    PROVE  IsAnswer(ans, VarsOfAll(q))
<1>1. CASE Key(q) \in DOMAIN tabled
  BY <1>1 DEF Tabled, Cached
<1>2. CASE Key(q) \notin DOMAIN tabled
  BY <1>2, ResultIsAnswer DEF Tabled
<1> QED  BY <1>1, <1>2

LEMMA TableCached ==
    ASSUME Cached, NEW q, DOMAIN Key(q) \cap Var = VarsOfAll(q), NEW ans,
           IsAnswer(ans, VarsOfAll(q)), tabled' = Table(q, ans)
    PROVE  Cached'
<1> DEFINE T == Table(q, ans)
<1>1. DOMAIN T = {Key(q)} \cup DOMAIN tabled
  BY DEF Table
<1>2. ASSUME NEW k \in DOMAIN T, NEW a \in T[k]
      PROVE  IsAnswer(a, DOMAIN k \cap Var)
  <2>1. a \in (IF k = Key(q) THEN {ans} ELSE {}) \cup IF k \in DOMAIN tabled THEN tabled[k] ELSE {}
    BY <1>1, <1>2 DEF Table
  <2> QED  BY <2>1 DEF Cached
<1> HIDE DEF T
<1> QED  BY <1>2 DEF Cached, T

(***************************************************************************)
(* The calls and the memories keep their types.                            *)
(***************************************************************************)

LEMMA ProgramIs ==
    ASSUME Setup, answered # <<>>
    PROVE  /\ program = answered.adorned_program /\ Handed(program) /\ given \in Scenarios
           /\ goal # <<>> /\ IsLiteral(goal) /\ ignoring = TRUE
           /\ \A r \in program : IsAdRule(r) /\ IsMade(r)
<1>1. program = answered.adorned_program /\ ignoring = TRUE /\ goal # <<>>
  BY DEF Setup, OneGoal
<1>2. Handed(program)
  BY <1>1 DEF Setup, AnswersInv
<1>3. given \in Scenarios
  BY DEF Setup, IInv, Setting
<1> QED  BY <1>1, <1>2, <1>3 DEF Handed

LEMMA BodyOps ==
    ASSUME Setup, answered # <<>>, NEW r \in program, NEW k \in DOMAIN r.body
    PROVE  r.body[k].op \notin Var
<1>1. IsMade(r) /\ given \in Scenarios
  BY ProgramIs
<1>2. ASSUME RenamedBody(r), NEW i \in DOMAIN given.rules, IsVersion(r, given.rules[i])
      PROVE  r.body[k].op \notin Var
  <2>1. r.body[k].op \notin Hybrid
    BY <1>2 DEF RenamedBody
  <2>2. Renamed(r.body[k]) = r.body[k]
    BY <2>1 DEF Renamed
  <2>3. PICK m \in DOMAIN given.rules[i].body :
           Renamed(r.body[k]).op = Renamed(given.rules[i].body[m]).op
    BY <1>2, VersionMatches
  <2>4. given.rules[i].body[m] \in BodyLiterals(given.rules)
    BY DEF BodyLiterals, ToSet
  <2> QED  BY <1>1, <2>2, <2>3, <2>4, NamesAssumption
<1>3. CASE IsBridge(r)
  <2>1. PICK p \in Hybrid : \E ad : Len(ad) \in 1 .. Len(BridgeVars) /\ r = Bridge(p, ad)
    BY <1>3 DEF IsBridge
  <2>2. PICK ad : Len(ad) \in 1 .. Len(BridgeVars) /\ r = Bridge(p, ad)
    BY <2>1
  <2>3. PICK args : args = BridgeArgs(ad)
    OBVIOUS
  <2>4. PICK l : l = Lit(p, args)
    OBVIOUS
  <2>5. l.op = p
    BY <2>4 DEF Lit, Adorned
  <2>6. r = [head |-> Adorned(DerivedName[p], args, ad, FALSE), body |-> <<l>>]
    BY <2>2, <2>3, <2>4, BridgeIs
  <2>7. r.body = <<l>>
    BY <2>6
  <2>8. r.body[k] = l
    BY <2>7
  <2> QED  BY <2>5, <2>8, NamesAssumption
<1> QED  BY <1>1, <1>2, <1>3 DEF IsMade

LEMMA CallKept ==
    ASSUME UNCHANGED <<program, derived>>, queries \subseteq queries', NEW F, IsCall(F)
    PROVE  IsCall(F)'
<1>1. \A r, j, theta : ConjunctionAt(r, j, theta)' = ConjunctionAt(r, j, theta)
  <2>1. \A l : IsBase(l)' = IsBase(l)
    BY DEF IsBase
  <2>2. \A r, j : EndOf(r, j)' = EndOf(r, j)
    BY <2>1 DEF EndOf
  <2>3. \A r, j, e, theta : Map(LAMBDA l : Ground(l, theta), SubSeq(r.body, j + 1, e))'
                              = Map(LAMBDA l : Ground(l, theta), SubSeq(r.body, j + 1, e))
    BY DEF Map
  <2> QED  BY <2>2, <2>3 DEF ConjunctionAt, Map
<1>2. \A r, j, theta : IsBaseCall(r, j, theta)' = IsBaseCall(r, j, theta)
  BY DEF IsBaseCall, IsBase
<1>3. \A y, f : IsJoin(y, f)' = IsJoin(y, f)
  BY DEF IsJoin, HasC
<1>4. CASE QueryCall(F)
  BY <1>4 DEF QueryCall, IsCall
<1>5. CASE FactCall(F)
  BY <1>3, <1>5 DEF FactCall, IsCall
<1>6. CASE EvaluateCall(F)
  BY <1>6 DEF EvaluateCall, IsCall
<1>7. CASE LiteralCall(F)
  BY <1>7 DEF LiteralCall, IsCall
<1>8. CASE BaseCall(F)
  BY <1>1, <1>2, <1>8 DEF BaseCall, IsCall
<1>9. CASE FactsCall(F)
  BY <1>9 DEF FactsCall, IsCall
<1>10. CASE ConcludeCall(F)
  BY <1>10 DEF ConcludeCall, IsCall
<1> QED  BY <1>4, <1>5, <1>6, <1>7, <1>8, <1>9, <1>10 DEF IsCall

LEMMA LessCall ==
    ASSUME NEW F, IsCall(F), NEW x, NEW G, G = [F EXCEPT !.todo = @ \ {x}]
    PROVE  IsCall(G) /\ G.todo = F.todo \ {x} /\ G.op = F.op
<1>1. CASE QueryCall(F)
  <2>1. G = [op |-> "query", query |-> F.query, todo |-> F.todo \ {x}] /\ G.op = F.op
    BY <1>1 DEF QueryCall
  <2> QED  BY <1>1, <2>1 DEF QueryCall, IsCall
<1>2. CASE FactCall(F)
  <2>1. G = [op |-> "fact", fact |-> F.fact, todo |-> F.todo \ {x}] /\ G.op = F.op
    BY <1>2 DEF FactCall
  <2> QED  BY <1>2, <2>1 DEF FactCall, IsCall
<1>3. CASE EvaluateCall(F)
  <2>1. G = [op |-> "evaluate", rule |-> F.rule, at |-> F.at, todo |-> F.todo \ {x}] /\ G.op = F.op
    BY <1>3 DEF EvaluateCall
  <2> QED  BY <1>3, <2>1 DEF EvaluateCall, IsCall
<1>4. CASE LiteralCall(F)
  <2>1. G = [op |-> "call", rule |-> F.rule, at |-> F.at, todo |-> F.todo \ {x}] /\ G.op = F.op
    BY <1>4 DEF LiteralCall
  <2> QED  BY <1>4, <2>1 DEF LiteralCall, IsCall
<1>5. CASE BaseCall(F)
  <2>1. G = [op |-> "edb", rule |-> F.rule, at |-> F.at, binding |-> F.binding,
             query |-> F.query, fresh |-> F.fresh, todo |-> F.todo \ {x}] /\ G.op = F.op
    BY <1>5 DEF BaseCall
  <2> QED  BY <1>5, <2>1 DEF BaseCall, IsCall
<1>6. CASE FactsCall(F)
  <2>1. G = [op |-> "facts", facts |-> F.facts, todo |-> F.todo \ {x}] /\ G.op = F.op
    BY <1>6 DEF FactsCall
  <2> QED  BY <1>6, <2>1 DEF FactsCall, IsCall
<1>7. CASE ConcludeCall(F)
  <2>1. G = [op |-> "conclude", todo |-> F.todo \ {x}] /\ G.op = F.op
    BY <1>7 DEF ConcludeCall
  <2> QED  BY <1>7, <2>1 DEF ConcludeCall, IsCall
<1> QED  BY <1>1, <1>2, <1>3, <1>4, <1>5, <1>6, <1>7 DEF IsCall

LEMMA TopIs ==
    ASSUME Setup, Typed, Running
    PROVE  /\ answered # <<>> /\ stack # <<>> /\ stack \in Seq(ToSet(stack))
           /\ Top \in ToSet(stack) /\ Busy(Top) /\ IsCall(Top)
<1>1. stack # <<>> /\ stack \in Seq(ToSet(stack)) /\ \A F \in ToSet(stack) : Busy(F) /\ IsCall(F)
  BY DEF Setup, Runs, Running, Typed, Calling
<1>2. answered # <<>>
  BY DEF Setup, OneGoal, Running
<1> DEFINE S == ToSet(stack)
<1>3. stack \in Seq(S) /\ \A F \in S : Busy(F) /\ IsCall(F)
  BY <1>1
<1> HIDE DEF S
<1>4. Head(stack) \in S
  BY <1>1, <1>3
<1> QED  BY <1>1, <1>2, <1>3, <1>4 DEF S, Top

LEMMA CallsStep ==
    ASSUME Setup, Typed, Running, UNCHANGED <<program, derived>>, queries \subseteq queries',
           NEW x, NEW f, NEW g, Proceed(x, f, g),
           Busy(f) => IsCall(f)', Busy(g) => IsCall(g)'
    PROVE  Calling'
<1>1. /\ stack' \in Seq(ToSet(stack'))
      /\ \A F \in ToSet(stack') : \/ F \in ToSet(stack)
                                  \/ Busy(F) /\ (F = f \/ F = g \/ F = Less(x))
  BY TopIs, ProceedHas
<1>2. ASSUME NEW F \in ToSet(stack') PROVE Busy(F) /\ IsCall(F)'
  <2>1. CASE F \in ToSet(stack)
    BY <2>1, CallKept DEF Typed, Calling
  <2>2. CASE Busy(F) /\ F = Less(x)
    <3>1. PICK G : G = Top
      OBVIOUS
    <3>2. IsCall(G) /\ F = [G EXCEPT !.todo = @ \ {x}]
      BY <2>2, <3>1, TopIs DEF Less
    <3>3. IsCall(F)
      BY <3>2, LessCall
    <3> QED  BY <2>2, <3>3, CallKept
  <2> QED  BY <1>1, <2>1, <2>2
<1> QED  BY <1>1, <1>2 DEF Calling

\* The procedure works, or has forgotten everything but its cache, or waits.
LEMMA QuietStep ==
    ASSUME Setup, [StoreNext]_storeAll
    PROVE  \/ ProcedureStep
           \/ tabled' = tabled /\ KnowsNothing' /\ outcome' = "idle"
           \/ UNCHANGED <<adornVars, bfpVars>>
<1>1. ASSUME UNCHANGED <<tabled, memVars, stack, outcome>>, outcome = "idle"
      PROVE  tabled' = tabled /\ KnowsNothing' /\ outcome' = "idle"
  <2>1. KnowsNothing
    BY <1>1 DEF Setup, OneGoal
  <2> QED  BY <1>1, <2>1 DEF KnowsNothing, memVars
<1>2. CASE \E req \in given.requests : Request(req)
  BY <1>2 DEF Request
<1>3. CASE \E f \in given.updates : Update(f)
  <2>1. goal = <<>> /\ UNCHANGED <<tabled, memVars, stack, outcome>>
    BY <1>3 DEF Update, Setup, OneGoal
  <2> QED  BY <1>1, <2>1 DEF Setup, OneGoal
<1>4. CASE Yield \/ SolveBase
  BY <1>4 DEF Yield, SolveBase
<1>5. CASE SolveDerived \/ SolveNext
  <2>1. Between /\ \E g : AskFor(g)
    BY <1>5 DEF SolveDerived, SolveNext
  <2>2. outcome = "idle"
    BY <2>1 DEF Between, Setup, OneGoal
  <2>3. UNCHANGED <<tabled, memVars, stack, outcome>>
    BY <2>1, <2>2 DEF AskFor
  <2> QED  BY <1>1, <2>2, <2>3
<1>6. CASE AdornStep \/ Refuse
  <2>1. answered = <<>> /\ UNCHANGED bfpVars
    BY <1>6 DEF AdornStep, Refuse, Process, Finish, NoOrder, Adorning
  <2> QED  BY <1>1, <2>1 DEF bfpVars, Setup, OneGoal
<1>7. CASE BackwardStep
  BY <1>7 DEF BackwardStep
<1>8. CASE Resume \/ Take \/ TakeFirst
  <2>1. Forget /\ Ended
    BY <1>8 DEF Resume, Take, TakeFirst, Solved
  <2> QED  BY <2>1 DEF Forget, KnowsNothing, Setup, Runs, Ended
<1>9. CASE UNCHANGED storeAll
  BY <1>9 DEF storeAll
<1> QED  BY <1>2, <1>3, <1>4, <1>5, <1>6, <1>7, <1>8, <1>9 DEF StoreNext, StoreStep

LEMMA EvaluateForIs ==
    ASSUME NEW r \in program, NEW j, j \in 0 .. Len(r.body), NEW thetas,
           \A theta \in thetas : Covers(theta, r, j), NEW f, f = EvaluateFor(r, j, thetas)
    PROVE  IsCall(f) /\ (Busy(f) <=> thetas # {})
<1>1. /\ f = [op |-> "evaluate", rule |-> r, at |-> j, todo |-> thetas]
      /\ f.op = "evaluate" /\ f.rule = r /\ f.at = j /\ f.todo = thetas
  BY DEF EvaluateFor
<1> QED  BY <1>1 DEF EvaluateCall, IsCall, Busy

LEMMA NoCallIs == ~Busy(NoCall)
BY DEF Busy, NoCall

LEMMA AddQueryIs ==
    ASSUME NEW q \in queries, NEW f, f = AddQuery(q)
    PROVE  IsCall(f)
<1>1. f.op = "query" /\ f.query = q /\ f = [op |-> "query", query |-> q, todo |-> f.todo]
      /\ f.todo = {r \in program : Passes(QueryTerm(r.head), q)}
  BY DEF AddQuery
<1> QED  BY <1>1 DEF QueryCall, IsCall

LEMMA AddFactIs ==
    ASSUME NEW x, IsGroundFact(x), NEW f, f = AddFact(x)
    PROVE  IsCall(f)
<1>1. /\ f.op = "fact" /\ f.fact = x /\ f = [op |-> "fact", fact |-> x, todo |-> f.todo]
      /\ \A y \in f.todo : IsJoin(y, x)
  BY DEF AddFact, IsJoin
<1> QED  BY <1>1 DEF FactCall, IsCall

\* In a step, what is at the top of the calls is one of these.
LEMMA TopCall ==
    ASSUME Setup, Typed, NEW op, In(op)
    PROVE  /\ answered # <<>> /\ Running /\ Busy(Top) /\ Top \in ToSet(stack)
           /\ op = "query" => QueryCall(Top)
           /\ op = "fact" => FactCall(Top)
           /\ op = "evaluate" => EvaluateCall(Top)
           /\ op = "call" => LiteralCall(Top)
           /\ op = "edb" => BaseCall(Top)
           /\ op = "facts" => FactsCall(Top)
<1>1. Running /\ Top.op = op
  BY DEF In
<1>2. PICK F : F = Top
  OBVIOUS
<1>3. IsCall(F) /\ F.op = op /\ answered # <<>> /\ Busy(F) /\ F \in ToSet(stack)
  BY <1>1, <1>2, TopIs
<1>4. /\ op = "query" => QueryCall(F)
      /\ op = "fact" => FactCall(F)
      /\ op = "evaluate" => EvaluateCall(F)
      /\ op = "call" => LiteralCall(F)
      /\ op = "edb" => BaseCall(F)
      /\ op = "facts" => FactsCall(F)
  BY <1>3 DEF IsCall, QueryCall, FactCall, EvaluateCall, LiteralCall, BaseCall, FactsCall, ConcludeCall
<1> QED  BY <1>1, <1>2, <1>3, <1>4

LEMMA MemoryKept ==
    ASSUME UNCHANGED adornVars
    PROVE  /\ \A q : IsQuery(q)' = IsQuery(q)
           /\ \A e : IsEvaluated(e)' = IsEvaluated(e)
           /\ \A m : IsMatched(m)' = IsMatched(m)
           /\ \A e : IsFired(e)' = IsFired(e)
<1>1. UNCHANGED <<goal, program, derived>>
  BY DEF adornVars
<1>2. \A l : IsBase(l)' = IsBase(l)
  BY <1>1 DEF IsBase
<1>3. Stems' = Stems
  BY <1>1, <1>2 DEF Stems, Asked
<1>4. \A l : HasC(l)' = HasC(l)
  BY <1>1 DEF HasC
<1> QED  BY <1>1, <1>2, <1>3, <1>4 DEF IsQuery, IsEvaluated, IsMatched, IsFired, IsBaseCall

\* What is asked is a query.
LEMMA AskedIsQuery ==
    ASSUME NEW l \in Stems, NEW theta, IsGround(Ground(QueryTerm(l), theta))
    PROVE  IsQuery(Fact(Ground(QueryTerm(l), theta)))
<1> DEFINE q == Fact(Ground(QueryTerm(l), theta))
<1>1. /\ q = [op |-> <<l.op, l.ad>>, args |-> [i \in BoundPlaces(l) |-> Value(l.args[i], theta)]]
      /\ \A i \in BoundPlaces(l) : Value(l.args[i], theta) \notin Var
  BY AskedQuery
<1> HIDE DEF q
<1>2. /\ q.op = <<l.op, l.ad>> /\ q = Fact(q) /\ DOMAIN q.args = BoundPlaces(l)
      /\ q.args = [i \in DOMAIN q.args |-> q.args[i]]
  BY <1>1 DEF Fact
<1>3. \A i \in DOMAIN q.args : q.args[i] \notin Var
  BY <1>1
<1> QED  BY <1>2, <1>3 DEF IsQuery, q

LEMMA TopQueryIs ==
    ASSUME Setup, answered # <<>>
    PROVE  /\ IsLiteral(Asked) /\ IsAdLiteral(AdornLiteral(Asked)) /\ IsAdorned(AdornLiteral(Asked))
           /\ IsQuery(TopQuery)
           /\ TopQuery = [op |-> <<AdornLiteral(Asked).op, AdornLiteral(Asked).ad>>,
                          args |-> [i \in BoundPlaces(AdornLiteral(Asked)) |-> Asked.args[i]]]
<1>1. IsLiteral(Asked)
  BY ProgramIs, RenamedLiteral DEF Asked
<1>2. PICK a : a = AdornLiteral(Asked)
  OBVIOUS
<1>3. /\ a.op = Asked.op /\ a.args = Asked.args /\ DOMAIN a.ad = DOMAIN a.args
      /\ \A i \in DOMAIN a.args : a.ad[i] = IF a.args[i] \in Var THEN "f" ELSE "b"
      /\ IsAdLiteral(a) /\ IsAdorned(a)
  <2>1. Asked.args \in Seq(ToSet(Asked.args)) /\ Len(Asked.args) \in 1 .. Len(BridgeVars)
        /\ Asked = [op |-> Asked.op, args |-> Asked.args, ad |-> <<>>, naf |-> Asked.naf]
    BY <1>1 DEF IsLiteral, Adorned
  <2>2. a.op = Asked.op /\ a.args = Asked.args
        /\ a.ad = [i \in DOMAIN Asked.args |-> IF Asked.args[i] \in Var THEN "f" ELSE "b"]
    BY <1>2, <2>1 DEF AdornLiteral
  <2>3. IsAdLiteral(a) /\ IsAdorned(a)
    <3>1. IsAdLiteral(a) /\ Arity(a)
      BY <1>1, <1>2, LiteralIsAdLiteral, AdornLiteralType
    <3>2. Len(a.args) \in 1 .. Len(BridgeVars) /\ Len(BridgeVars) \in Nat
      BY <3>1, BridgeLen DEF IsAdLiteral
    <3>3. a.ad # <<>>
      BY <3>1, <3>2 DEF Arity
    <3> QED  BY <3>1, <3>3 DEF IsAdorned
  <2> QED  BY <2>2, <2>3
<1>4. /\ QueryTerm(a).op = <<a.op, a.ad>>
      /\ QueryTerm(a).args = [i \in BoundPlaces(a) |-> a.args[i]]
      /\ BoundPlaces(a) \subseteq DOMAIN a.args
  BY QueryTermIs
<1>5. \A i \in BoundPlaces(a) : a.args[i] \notin Var
  BY <1>3 DEF BoundPlaces
<1>6. TopQuery = [op |-> <<a.op, a.ad>>, args |-> [i \in BoundPlaces(a) |-> a.args[i]]]
  BY <1>2, <1>4 DEF TopQuery, Fact
<1>7. PICK q : q = TopQuery
  OBVIOUS
<1>8. IsQuery(q)
  <2>1. a \in Stems
    BY <1>2 DEF Stems
  <2>2. /\ q.op = <<a.op, a.ad>> /\ q = Fact(q) /\ DOMAIN q.args = BoundPlaces(a)
        /\ q.args = [i \in DOMAIN q.args |-> q.args[i]]
        /\ \A i \in DOMAIN q.args : q.args[i] \notin Var
    BY <1>5, <1>6, <1>7 DEF Fact
  <2> QED  BY <2>1, <2>2 DEF IsQuery
<1> QED  BY <1>1, <1>2, <1>3, <1>6, <1>7, <1>8

\* The variables of a base query can be told from its key.
LEMMA BaseKey ==
    ASSUME Setup, NEW r, NEW j, NEW theta, answered # <<>>, IsBaseCall(r, j, theta)
    PROVE  /\ IsAdRule(r) /\ j \in 0 .. Len(r.body)
           /\ \A q : q = ConjunctionAt(r, j, theta) => DOMAIN Key(q) \cap Var = VarsOfAll(q)
<1>1. r \in program /\ j \in Nat /\ j + 1 \in DOMAIN r.body
  BY DEF IsBaseCall
<1>2. IsAdRule(r)
  BY <1>1, ProgramIs
<1>3. j \in 0 .. Len(r.body)
  BY <1>1, <1>2 DEF IsAdRule
<1>4. ASSUME NEW q, q = ConjunctionAt(r, j, theta)
      PROVE  DOMAIN Key(q) \cap Var = VarsOfAll(q)
  <2>1. PICK n : n = EndOf(r, j) - j
    OBVIOUS
  <2>2. /\ DOMAIN q = 1 .. n /\ n \in Nat
        /\ \A i \in 1 .. n : /\ j + i \in DOMAIN r.body /\ q[i] = Ground(r.body[j + i], theta)
                             /\ IsAdLiteral(r.body[j + i]) /\ IsAdLiteral(q[i])
    BY <1>2, <1>3, <1>4, <2>1, ConjunctionIs
  <2>3. ASSUME NEW i \in 1 .. n PROVE q[i].op \notin Var
    <3>1. PICK k : k = j + i
      OBVIOUS
    <3>2. k \in DOMAIN r.body /\ q[i] = Ground(r.body[k], theta) /\ IsAdLiteral(r.body[k])
      BY <2>2, <3>1, Zenon
    <3>3. PICK l : l = r.body[k]
      OBVIOUS
    <3>4. q[i] = Ground(l, theta) /\ IsAdLiteral(l)
      BY <3>2, <3>3
    <3>5. Ground(l, theta).op = l.op
      BY <3>4, GroundIs
    <3>6. q[i].op = l.op
      BY <3>4, <3>5
    <3> QED  BY <1>1, <3>2, <3>3, <3>6, BodyOps
  <2> QED  BY <2>2, <2>3, KeyVars
<1> QED  BY <1>2, <1>3, <1>4

LEMMA StartTyped ==
    ASSUME Setup, Typed, Start
    PROVE  Typed'
<1>1. /\ answered # <<>> /\ queries' = {TopQuery} /\ stack' = Push(AddQuery(TopQuery), <<>>)
      /\ outcome = "idle"
      /\ UNCHANGED <<tabled, inferred_facts, evaluated, matched, fired_edb_queries, adornVars>>
  BY DEF Start
<1>2. UNCHANGED <<program, derived>>
  BY <1>1 DEF adornVars
<1>3. \A q \in queries' : IsQuery(q)'
  BY <1>1, TopQueryIs, MemoryKept
<1>4. Calling'
  <2>1. PICK F : F = AddQuery(TopQuery)
    OBVIOUS
  <2>2. PICK q : q = TopQuery
    OBVIOUS
  <2>3. stack' = Push(F, <<>>) /\ q \in queries'
    BY <1>1, <2>1, <2>2
  <2>4. IsCall(F)'
    <3>1. F.op = "query" /\ F.query = q /\ F = [op |-> "query", query |-> q, todo |-> F.todo]
          /\ F.todo = {r \in program : Passes(QueryTerm(r.head), q)}
      BY <2>1, <2>2 DEF AddQuery
    <3> QED  BY <1>2, <2>3, <3>1 DEF QueryCall, IsCall
  <2>5. <<>> \in Seq(ToSet(<<>>)) /\ ToSet(<<>>) = {}
    BY DEF ToSet
  <2>6. stack' \in Seq(ToSet(stack')) /\ \A G \in ToSet(stack') : G = F /\ Busy(F)
    BY <2>3, <2>5, PushHas
  <2> QED  BY <2>4, <2>6 DEF Calling
<1> QED  BY <1>1, <1>3, <1>4, MemoryKept DEF Typed, Cached

LEMMA BeginRuleTyped ==
    ASSUME Setup, Typed, BeginRule
    PROVE  Typed'
<1>1. In("query") /\ UNCHANGED <<tabled, memVars, adornVars>>
  BY DEF BeginRule
<1>2. PICK r \in Top.todo :
         Proceed(r, EvaluateFor(r, 0, {BoundBy(QueryTerm(r.head), Top.query)}), NoCall)
  BY DEF BeginRule
<1>3. QueryCall(Top) /\ answered # <<>> /\ Running
  BY <1>1, TopCall
<1>4. PICK F : F = Top
  OBVIOUS
<1>5. r \in program /\ Passes(QueryTerm(r.head), F.query) /\ IsQuery(F.query) /\ IsAdRule(r)
  BY <1>2, <1>3, <1>4, ProgramIs DEF QueryCall, Typed
<1>6. PICK theta : theta = BoundBy(QueryTerm(r.head), F.query)
  OBVIOUS
<1>7. Covers(theta, r, 0)
  <2>1. DOMAIN QueryTerm(r.head).args \subseteq Nat
    BY <1>5, AdArgs DEF IsAdRule
  <2>2. /\ DOMAIN QueryTerm(r.head).args \subseteq DOMAIN F.query.args
        /\ \A i \in DOMAIN F.query.args : F.query.args[i] \notin Var
    BY <1>5 DEF Passes, IsQuery
  <2>3. Binds1(theta, VarsOf(QueryTerm(r.head)))
    BY <1>6, <2>1, <2>2, BoundByBinds
  <2> QED  BY <2>3, BindVarsIs DEF Covers
<1>8. PICK f : f = EvaluateFor(r, 0, {theta})
  OBVIOUS
<1>9. IsCall(f)
  <2>1. 0 \in 0 .. Len(r.body)
    BY <1>5 DEF IsAdRule
  <2> QED  BY <1>5, <1>7, <1>8, <2>1, EvaluateForIs
<1>10. Proceed(r, f, NoCall)
  BY <1>2, <1>4, <1>6, <1>8
<1>11. Calling'
  BY <1>1, <1>3, <1>9, <1>10, CallKept, CallsStep, NoCallIs DEF adornVars, memVars
<1> QED  BY <1>1, <1>11, MemoryKept DEF Typed, Cached, memVars

LEMMA JoinFactTyped ==
    ASSUME Setup, Typed, JoinFact
    PROVE  Typed'
<1>1. /\ In("fact")
      /\ UNCHANGED <<tabled, queries, inferred_facts, evaluated, fired_edb_queries, adornVars>>
  BY DEF JoinFact
<1>2. FactCall(Top) /\ answered # <<>> /\ Running
  BY <1>1, TopCall
<1>3. PICK F : F = Top
  OBVIOUS
<1> DEFINE Met(c, phi) == {x \in evaluated : /\ x[1] = c[1] /\ x[2] = c[2] - 1
                                             /\ Agrees(x[3], phi)}
<1>4. PICK c \in F.todo : \E phi \in {BoundBy(c[1].body[c[2]], F.fact)} :
         /\ matched' = matched \cup {<<c[1], c[2], F.fact>>}
         /\ Proceed(c, EvaluateFor(c[1], c[2], {Merge(e[3], phi) : e \in Met(c, phi)}), NoCall)
  BY <1>3 DEF JoinFact
<1>5. PICK r \in program : \E j \in DOMAIN r.body :
         c = <<r, j>> /\ HasC(r.body[j]) /\ Passes(r.body[j], F.fact)
  BY <1>2, <1>3, <1>4 DEF FactCall, IsJoin
<1>6. PICK j \in DOMAIN r.body : c = <<r, j>> /\ HasC(r.body[j]) /\ Passes(r.body[j], F.fact)
  BY <1>5
<1>7. c[1] = r /\ c[2] = j /\ IsAdRule(r) /\ IsGroundFact(F.fact)
  BY <1>2, <1>3, <1>6, ProgramIs DEF FactCall
<1>8. PICK phi : phi = BoundBy(r.body[j], F.fact)
  OBVIOUS
<1>9. PICK S : S = {Merge(e[3], phi) : e \in Met(c, phi)}
  OBVIOUS
<1>10. \A theta \in S : Covers(theta, r, j)
  <2>1. ASSUME NEW e \in Met(c, phi) PROVE Covers(Merge(e[3], phi), r, j)
    <3>1. Covers(e[3], r, j - 1)
      BY <1>7 DEF Typed, IsEvaluated
    <3> QED  BY <1>6, <1>7, <1>8, <3>1, JoinCovers
  <2> QED  BY <1>9, <2>1
<1>11. PICK f : f = EvaluateFor(r, j, S)
  OBVIOUS
<1>12. /\ matched' = matched \cup {<<r, j, F.fact>>}
       /\ Proceed(c, f, NoCall)
  BY <1>4, <1>7, <1>8, <1>9, <1>11
<1>13. IsCall(f)
  <2>1. j \in 0 .. Len(r.body)
    BY <1>7 DEF IsAdRule
  <2> QED  BY <1>10, <1>11, <2>1, EvaluateForIs
<1>14. Calling'
  BY <1>1, <1>2, <1>12, <1>13, CallKept, CallsStep, NoCallIs DEF adornVars
<1>15. \A m \in matched' : IsMatched(m)
  BY <1>6, <1>7, <1>12 DEF Typed, IsMatched
<1> QED  BY <1>1, <1>14, <1>15, MemoryKept DEF Typed, Cached

LEMMA EvaluateBodyTyped ==
    ASSUME Setup, Typed, EvaluateBody
    PROVE  Typed'
<1>1. /\ In("evaluate")
      /\ UNCHANGED <<tabled, queries, inferred_facts, matched, fired_edb_queries, adornVars>>
  BY DEF EvaluateBody
<1>2. EvaluateCall(Top) /\ answered # <<>> /\ Running
  BY <1>1, TopCall
<1>3. PICK F : F = Top
  OBVIOUS
<1>4. PICK r, j : r = F.rule /\ j = F.at
  OBVIOUS
<1>5. /\ r \in program /\ j \in Nat /\ j + 1 \in DOMAIN r.body /\ j \in 0 .. Len(r.body)
      /\ j + 1 \in 0 .. Len(r.body) /\ (j + 1) - 1 = j /\ IsAdRule(r)
  <2>1. r \in program /\ j \in 0 .. Len(r.body) /\ j < Len(r.body)
    BY <1>2, <1>3, <1>4 DEF EvaluateCall, EvaluateBody
  <2>2. IsAdRule(r)
    BY <1>2, <2>1, ProgramIs
  <2> QED  BY <2>1, <2>2 DEF IsAdRule
<1>6. PICK theta \in F.todo :
         /\ evaluated' = evaluated \cup {<<r, j, theta>>}
         /\ Proceed(theta, EvaluateFor(r, j + 1, Known(r, j + 1, theta)), Call(r, j, theta))
  BY <1>3, <1>4 DEF EvaluateBody
<1>7. Covers(theta, r, j)
  BY <1>2, <1>3, <1>4, <1>6 DEF EvaluateCall
<1>8. PICK S : S = Known(r, j + 1, theta)
  OBVIOUS
<1>9. ASSUME NEW phi \in S PROVE Covers(phi, r, j + 1)
  <2>1. PICK m \in matched : m[1] = r /\ m[2] = j + 1 /\ phi = Merge(theta, BoundBy(r.body[j + 1], m[3]))
    BY <1>8, <1>9 DEF Known
  <2>2. Passes(r.body[j + 1], m[3]) /\ IsGroundFact(m[3])
    BY <2>1 DEF Typed, IsMatched
  <2> QED  BY <1>5, <1>7, <2>1, <2>2, JoinCovers
<1>10. PICK f, g : f = EvaluateFor(r, j + 1, S) /\ g = Call(r, j, theta)
  OBVIOUS
<1>11. Proceed(theta, f, g)
  BY <1>6, <1>8, <1>10
<1>12. IsCall(f)
  BY <1>5, <1>9, <1>10, EvaluateForIs
<1>13. IsCall(g)
  <2>1. /\ g = [op |-> "call", rule |-> r, at |-> j, todo |-> {theta}]
        /\ g.op = "call" /\ g.rule = r /\ g.at = j /\ g.todo = {theta}
    BY <1>10 DEF Call
  <2> QED  BY <1>5, <1>7, <2>1 DEF LiteralCall, IsCall
<1>14. Calling'
  BY <1>1, <1>2, <1>11, <1>12, <1>13, CallKept, CallsStep DEF adornVars
<1>15. \A e \in evaluated' : IsEvaluated(e)
  BY <1>5, <1>6, <1>7 DEF Typed, IsEvaluated
<1> QED  BY <1>1, <1>14, <1>15, MemoryKept DEF Typed, Cached

LEMMA EvaluateHeadTyped ==
    ASSUME Setup, Typed, EvaluateHead
    PROVE  Typed'
<1>1. In("evaluate") /\ UNCHANGED <<tabled, queries, matched, fired_edb_queries, adornVars>>
  BY DEF EvaluateHead
<1>2. EvaluateCall(Top) /\ answered # <<>> /\ Running
  BY <1>1, TopCall
<1>3. PICK F : F = Top
  OBVIOUS
<1>4. PICK r, j : r = F.rule /\ j = F.at
  OBVIOUS
<1>5. r \in program /\ j \in 0 .. Len(r.body) /\ IsAdRule(r)
  BY <1>2, <1>3, <1>4, ProgramIs DEF EvaluateCall
<1>6. PICK theta \in F.todo : \E f \in {Ground(r.head, theta)} :
         /\ evaluated' = evaluated \cup {<<r, j, theta>>}
         /\ IF IsNewHead(f)
              THEN /\ inferred_facts' = inferred_facts \cup {Fact(f)}
                   /\ Proceed(theta, AddFact(Fact(f)), Conclude(SolutionBy(r, theta)))
              ELSE /\ Proceed(theta, NoCall, NoCall)
                   /\ inferred_facts' = inferred_facts
  BY <1>3, <1>4 DEF EvaluateHead
<1>7. Covers(theta, r, j)
  BY <1>2, <1>3, <1>4, <1>6 DEF EvaluateCall
<1>8. PICK h : h = Ground(r.head, theta)
  OBVIOUS
<1>9. IsAdLiteral(h)
  BY <1>5, <1>8, GroundIs DEF IsAdRule
<1>10. \A e \in evaluated' : IsEvaluated(e)
  BY <1>5, <1>6, <1>7 DEF Typed, IsEvaluated
<1>11. CASE IsNewHead(h)
  <2>1. IsGroundFact(Fact(h))
    BY <1>9, <1>11, GroundFact DEF IsNewHead
  <2>2. PICK f, g : f = AddFact(Fact(h)) /\ g = Conclude(SolutionBy(r, theta))
    OBVIOUS
  <2>3. inferred_facts' = inferred_facts \cup {Fact(h)} /\ Proceed(theta, f, g)
    BY <1>6, <1>8, <1>11, <2>2
  <2>4. IsCall(f)
    BY <2>1, <2>2, AddFactIs
  <2>5. IsCall(g)
    <3>1. g.op = "conclude" /\ g = [op |-> "conclude", todo |-> g.todo]
      BY <2>2 DEF Conclude
    <3> QED  BY <3>1 DEF ConcludeCall, IsCall
  <2>6. Calling'
    BY <1>1, <1>2, <2>3, <2>4, <2>5, CallKept, CallsStep DEF adornVars
  <2> QED  BY <1>1, <1>10, <2>1, <2>3, <2>6, MemoryKept DEF Typed, Cached
<1>12. CASE ~IsNewHead(h)
  <2>1. inferred_facts' = inferred_facts /\ Proceed(theta, NoCall, NoCall)
    BY <1>6, <1>8, <1>12
  <2>2. Calling'
    BY <1>1, <1>2, <2>1, CallsStep, NoCallIs DEF adornVars
  <2> QED  BY <1>1, <1>10, <2>1, <2>2, MemoryKept DEF Typed, Cached
<1> QED  BY <1>11, <1>12

LEMMA SubqueryTyped ==
    ASSUME Setup, Typed, Subquery
    PROVE  Typed'
<1>1. /\ In("call") /\ ~IsBase(Top.rule.body[Top.at + 1])
      /\ UNCHANGED <<tabled, inferred_facts, evaluated, matched, fired_edb_queries, adornVars>>
  BY DEF Subquery
<1>2. LiteralCall(Top) /\ answered # <<>> /\ Running
  BY <1>1, TopCall
<1>3. PICK F : F = Top
  OBVIOUS
<1>4. PICK l : l = F.rule.body[F.at + 1]
  OBVIOUS
<1>5. l \in Stems
  BY <1>1, <1>2, <1>3, <1>4 DEF LiteralCall, Stems
<1>6. PICK theta \in F.todo : \E q \in {Ground(QueryTerm(l), theta)} :
         IF IsGround(q) /\ Fact(q) \notin queries
           THEN queries' = queries \cup {Fact(q)} /\ Proceed(theta, AddQuery(Fact(q)), Conclude({}))
           ELSE Proceed(theta, NoCall, NoCall) /\ UNCHANGED queries
  BY <1>3, <1>4 DEF Subquery
<1>7. PICK q : q = Ground(QueryTerm(l), theta)
  OBVIOUS
<1>8. CASE IsGround(q) /\ Fact(q) \notin queries
  <2>1. PICK x, f, g : x = Fact(q) /\ f = AddQuery(Fact(q)) /\ g = Conclude({})
    OBVIOUS
  <2>2. queries' = queries \cup {x} /\ Proceed(theta, f, g)
    BY <1>6, <1>7, <1>8, <2>1
  <2>3. IsQuery(x)
    BY <1>5, <1>7, <1>8, <2>1, AskedIsQuery
  <2>4. IsCall(f)'
    <3>1. f.op = "query" /\ f.query = x /\ f = [op |-> "query", query |-> x, todo |-> f.todo]
          /\ f.todo = {r \in program : Passes(QueryTerm(r.head), x)}
      BY <2>1 DEF AddQuery
    <3> QED  BY <1>1, <2>2, <3>1 DEF QueryCall, IsCall, adornVars
  <2>5. IsCall(g)'
    <3>1. g.op = "conclude" /\ g = [op |-> "conclude", todo |-> g.todo]
      BY <2>1 DEF Conclude
    <3> QED  BY <3>1 DEF ConcludeCall, IsCall
  <2>6. Calling'
    BY <1>1, <1>2, <2>2, <2>4, <2>5, CallsStep DEF adornVars
  <2> QED  BY <1>1, <2>2, <2>3, <2>6, MemoryKept DEF Typed, Cached
<1>9. CASE ~(IsGround(q) /\ Fact(q) \notin queries)
  <2>1. queries' = queries /\ Proceed(theta, NoCall, NoCall)
    BY <1>6, <1>7, <1>9
  <2>2. Calling'
    BY <1>1, <1>2, <2>1, CallsStep, NoCallIs DEF adornVars
  <2> QED  BY <1>1, <2>1, <2>2, MemoryKept DEF Typed, Cached
<1> QED  BY <1>8, <1>9

LEMMA QueryBaseTyped ==
    ASSUME Setup, Typed, QueryBase
    PROVE  Typed'
<1>1. /\ In("call") /\ IsBase(Top.rule.body[Top.at + 1])
      /\ UNCHANGED <<tabled, queries, inferred_facts, evaluated, matched, adornVars>>
  BY DEF QueryBase
<1>2. LiteralCall(Top) /\ answered # <<>> /\ Running
  BY <1>1, TopCall
<1>3. PICK F : F = Top
  OBVIOUS
<1>4. PICK r, j : r = F.rule /\ j = F.at
  OBVIOUS
<1>5. PICK theta \in F.todo : \E key \in {<<r, j, theta>>} : \E q \in {ConjunctionAt(r, j, theta)} :
         /\ fired_edb_queries' = fired_edb_queries \cup {key}
         /\ Proceed(theta, IF key \in fired_edb_queries THEN NoCall ELSE Query(r, j, theta, q),
                    NoCall)
  BY <1>3, <1>4 DEF QueryBase
<1>6. IsBaseCall(r, j, theta)
  BY <1>1, <1>2, <1>3, <1>4, <1>5 DEF LiteralCall, IsBaseCall
<1>7. PICK q, key : q = ConjunctionAt(r, j, theta) /\ key = <<r, j, theta>>
  OBVIOUS
<1>8. PICK f : f = IF key \in fired_edb_queries THEN NoCall ELSE Query(r, j, theta, q)
  OBVIOUS
<1>9. fired_edb_queries' = fired_edb_queries \cup {key} /\ Proceed(theta, f, NoCall)
  BY <1>5, <1>7, <1>8
<1>10. Busy(f) => IsCall(f)
  <2>1. SUFFICES ASSUME f = Query(r, j, theta, q)
                 PROVE  IsCall(f)
    BY <1>8, NoCallIs
  <2>2. PICK todo : todo = Tabled(q)
    OBVIOUS
  <2>3. PICK fresh \in BOOLEAN : fresh = (Key(q) \notin DOMAIN tabled)
    OBVIOUS
  <2>4. f = [op |-> "edb", rule |-> r, at |-> j, binding |-> theta, query |-> q,
             fresh |-> fresh, todo |-> todo]
    BY <2>1, <2>2, <2>3 DEF Query
  <2>5. /\ f.op = "edb" /\ f.rule = r /\ f.at = j /\ f.binding = theta /\ f.query = q
        /\ f.fresh = fresh /\ f.todo = todo
    BY <2>4
  <2>6. \A ans \in todo : IsAnswer(ans, VarsOfAll(q))
    BY <1>2, <1>6, <1>7, <2>2, BaseKey, TabledAnswers DEF Typed, Setup
  <2> QED  BY <1>6, <1>7, <2>3, <2>4, <2>5, <2>6 DEF BaseCall, IsCall
<1>11. Calling'
  BY <1>1, <1>2, <1>9, <1>10, CallKept, CallsStep, NoCallIs DEF adornVars
<1>12. \A e \in fired_edb_queries' : IsFired(e)
  BY <1>6, <1>7, <1>9 DEF Typed, IsFired
<1> QED  BY <1>1, <1>11, <1>12, MemoryKept DEF Typed, Cached

LEMMA NextAnswerTyped ==
    ASSUME Setup, Typed, NextAnswer
    PROVE  Typed'
<1>1. In("edb") /\ UNCHANGED <<memVars, adornVars>>
  BY DEF NextAnswer
<1>2. BaseCall(Top) /\ answered # <<>> /\ Running
  BY <1>1, TopCall
<1>3. PICK F : F = Top
  OBVIOUS
<1>4. PICK r, j, binding, q : r = F.rule /\ j = F.at /\ binding = F.binding /\ q = F.query
  OBVIOUS
<1>5. /\ r \in program /\ IsBaseCall(r, j, binding) /\ q = ConjunctionAt(r, j, binding)
      /\ Covers(binding, r, j) /\ \A ans \in F.todo : IsAnswer(ans, VarsOfAll(q))
  BY <1>2, <1>3, <1>4 DEF BaseCall, IsBaseCall
<1>6. IsAdRule(r) /\ j \in 0 .. Len(r.body) /\ DOMAIN Key(q) \cap Var = VarsOfAll(q)
  BY <1>2, <1>5, BaseKey
<1>7. PICK ans \in F.todo : \E theta \in IF VarsOfAll(q) # {} THEN {Merge(binding, ans)}
                                        ELSE IF ans THEN {binding} ELSE {<<>>} :
          /\ tabled' = IF F.fresh THEN Table(q, ans) ELSE tabled
          /\ IF VarsOfAll(q) = {} /\ ~ans THEN Proceed(ans, NoCall, NoCall)
             ELSE Proceed(ans, AddFacts(Map(LAMBDA l : Fact(Ground(l, theta)), q)),
                               EvaluateFor(r, EndOf(r, j), {theta}))
  BY <1>3, <1>4 DEF NextAnswer
<1>8. PICK theta \in IF VarsOfAll(q) # {} THEN {Merge(binding, ans)}
                     ELSE IF ans THEN {binding} ELSE {<<>>} :
          /\ tabled' = IF F.fresh THEN Table(q, ans) ELSE tabled
          /\ IF VarsOfAll(q) = {} /\ ~ans THEN Proceed(ans, NoCall, NoCall)
             ELSE Proceed(ans, AddFacts(Map(LAMBDA l : Fact(Ground(l, theta)), q)),
                               EvaluateFor(r, EndOf(r, j), {theta}))
  BY <1>7
<1>9. Cached'
  <2>1. CASE tabled' = tabled
    BY <2>1 DEF Typed, Cached
  <2>2. CASE tabled' = Table(q, ans)
    BY <1>5, <1>6, <2>2, TableCached DEF Typed
  <2> QED  BY <1>8, <2>1, <2>2
<1>10. Calling'
  <2>1. CASE VarsOfAll(q) = {} /\ ~ans
    <3>1. Proceed(ans, NoCall, NoCall)
      BY <1>8, <2>1
    <3> QED  BY <1>1, <1>2, <3>1, CallsStep, NoCallIs DEF adornVars, memVars
  <2>2. CASE ~(VarsOfAll(q) = {} /\ ~ans)
    <3>1. PICK e, facts : e = EndOf(r, j) /\ facts = Map(LAMBDA l : Fact(Ground(l, theta)), q)
      OBVIOUS
    <3>2. PICK f, g : f = AddFacts(facts) /\ g = EvaluateFor(r, e, {theta})
      OBVIOUS
    <3>3. Proceed(ans, f, g)
      BY <1>8, <2>2, <3>1, <3>2
    <3>4. e \in 0 .. Len(r.body)
      BY <1>5, <1>6, <3>1, AnswerCovers
    <3>5. Covers(theta, r, e)
      <4>1. CASE VarsOfAll(q) # {}
        <5>1. Binds1(ans, VarsOfAll(q)) /\ theta = Merge(binding, ans)
          BY <1>5, <1>7, <1>8, <4>1 DEF IsAnswer
        <5> QED  BY <1>5, <1>6, <3>1, <5>1, AnswerCovers
      <4>2. CASE VarsOfAll(q) = {}
        <5>1. theta = binding
          BY <1>8, <2>2, <4>2
        <5> QED  BY <1>5, <1>6, <3>1, <4>2, <5>1, AnswerCovers
      <4> QED  BY <4>1, <4>2
    <3>6. DOMAIN facts = DOMAIN q /\ \A i \in DOMAIN q : IsGroundFact(facts[i])
      <4>1. facts = FactsFor(q, theta)
        BY <3>1, Zenon DEF FactsFor
      <4>2. e = EndOf(r, j)
        BY <3>1
      <4> QED  BY <1>5, <1>6, <4>1, <4>2, <3>5, AnswerFacts
    <3>7. IsCall(f)
      <4>1. /\ f = [op |-> "facts", facts |-> facts, todo |-> DOMAIN facts]
            /\ f.op = "facts" /\ f.facts = facts /\ f.todo = DOMAIN facts
        BY <3>2 DEF AddFacts
      <4> QED  BY <3>6, <4>1 DEF FactsCall, IsCall
    <3>8. IsCall(g)
      <4>1. \A phi \in {theta} : Covers(phi, r, e)
        BY <3>5
      <4> QED  BY <1>5, <3>2, <3>4, <4>1, EvaluateForIs
    <3> QED  BY <1>1, <1>2, <3>3, <3>7, <3>8, CallKept, CallsStep DEF adornVars, memVars
  <2> QED  BY <2>1, <2>2
<1> QED  BY <1>1, <1>9, <1>10, MemoryKept DEF Typed, memVars

LEMMA NextFactTyped ==
    ASSUME Setup, Typed, NextFact
    PROVE  Typed'
<1>1. In("facts") /\ UNCHANGED <<tabled, memVars, adornVars>>
  BY DEF NextFact
<1>2. FactsCall(Top) /\ answered # <<>> /\ Running
  BY <1>1, TopCall
<1>3. PICK i \in Top.todo : Proceed(i, AddFact(Top.facts[i]), NoCall)
  BY DEF NextFact
<1>4. PICK x : x = Top.facts[i]
  OBVIOUS
<1>5. PICK f : f = AddFact(x)
  OBVIOUS
<1>6. IsGroundFact(x) /\ Proceed(i, f, NoCall)
  BY <1>2, <1>3, <1>4, <1>5 DEF FactsCall
<1>7. IsCall(f)
  BY <1>5, <1>6, AddFactIs
<1>8. Calling'
  BY <1>1, <1>2, <1>6, <1>7, CallKept, CallsStep, NoCallIs DEF adornVars, memVars
<1> QED  BY <1>1, <1>8, MemoryKept DEF Typed, Cached, memVars

LEMMA ConcludeTyped ==
    ASSUME Setup, Typed, ConcludeStep
    PROVE  Typed'
<1>1. /\ In("conclude")
      /\ UNCHANGED <<tabled, queries, inferred_facts, evaluated, matched, fired_edb_queries, adornVars>>
  BY DEF ConcludeStep
<1>2. Running
  BY <1>1 DEF In
<1>3. Calling'
  <2>1. CASE stack' = <<>>
    <3>1. stack' \in Seq(ToSet(stack')) /\ ToSet(stack') = {}
      BY <2>1 DEF ToSet
    <3> QED  BY <3>1 DEF Calling
  <2>2. CASE \E x : Proceed(x, NoCall, NoCall)
    BY <1>1, <1>2, <2>2, CallsStep, NoCallIs DEF adornVars
  <2> QED  BY <2>1, <2>2 DEF ConcludeStep
<1> QED  BY <1>1, <1>3, MemoryKept DEF Typed, Cached

LEMMA TypedStep ==
    ASSUME Setup, Typed, [StoreNext]_storeAll
    PROVE  Typed'
<1>1. CASE ProcedureStep
  BY <1>1, StartTyped, BeginRuleTyped, JoinFactTyped, EvaluateBodyTyped, EvaluateHeadTyped,
     SubqueryTyped, QueryBaseTyped, NextAnswerTyped, NextFactTyped, ConcludeTyped
     DEF ProcedureStep
<1>2. CASE tabled' = tabled /\ KnowsNothing'
  <2>1. Cached'
    BY <1>2 DEF Typed, Cached
  <2>2. Calling'
    <3>1. stack' = <<>>
      BY <1>2 DEF KnowsNothing
    <3>2. stack' \in Seq(ToSet(stack')) /\ ToSet(stack') = {}
      BY <3>1 DEF ToSet
    <3> QED  BY <3>2 DEF Calling
  <2> QED  BY <1>2, <2>1, <2>2 DEF Typed, KnowsNothing
<1>3. CASE UNCHANGED <<adornVars, bfpVars>>
  <2>1. UNCHANGED <<program, derived>> /\ UNCHANGED adornVars
    BY <1>3 DEF adornVars
  <2>2. UNCHANGED <<tabled, stack, queries, evaluated, matched, inferred_facts, fired_edb_queries>>
    BY <1>3 DEF bfpVars, memVars
  <2>3. Calling'
    BY <2>1, <2>2, CallKept DEF Typed, Calling
  <2> QED  BY <2>1, <2>2, <2>3, MemoryKept DEF Typed, Cached
<1> QED  BY <1>1, <1>2, <1>3, QuietStep

\* The memories, the cache and the calls hold what they can hold: bindings with values
\* for the variables that the literals before them bind, facts without variables, and
\* queries for what the program asks (BackwardFixpointProcedure.py), whatever is asked
\* of the store and in whatever order.
THEOREM StoreTypeCorrect == StoreSpec => []TypeOK
<1>1. SystemInit => Setup /\ Typed
  <2> SUFFICES ASSUME SystemInit
               PROVE  Typed /\ Setup
    OBVIOUS
  <2>1. BFPInit
    BY DEF SystemInit
  <2>2. stack \in Seq(ToSet(stack)) /\ ToSet(stack) = {}
    <3>1. stack = <<>>
      BY <2>1 DEF BFPInit
    <3> QED  BY <3>1 DEF ToSet
  <2>3. Cached /\ Calling
    BY <2>1, <2>2 DEF BFPInit, Cached, Calling
  <2> QED  BY <2>1, <2>3, SetupInit DEF BFPInit, Typed
<1>2. Setup /\ Typed /\ [StoreNext]_storeAll => Setup' /\ Typed'
  BY SetupStep, TypedStep
<1>3. Setup /\ Typed => TypeOK
  <2> SUFFICES ASSUME Setup, Typed
               PROVE  TypeOK
    OBVIOUS
  <2>1. ASSUME NEW e \in evaluated
        PROVE  /\ e[1] \in program /\ e[2] \in 0 .. Len(e[1].body)
               /\ BindingFor(e[3], VarsOf(e[1].head) \cup VarsOfAll(e[1].body))
    <3>1. IsEvaluated(e)
      BY DEF Typed
    <3>2. e[1] \in program /\ e[2] \in 0 .. Len(e[1].body)
          /\ DOMAIN e[3] = BindVars(e[1], e[2])
      BY <3>1 DEF IsEvaluated, Covers, Binds1
    <3>3. IsAdRule(e[1])
      <4>1. answered # <<>>
        BY DEF Setup, OneGoal, KnowsNothing
      <4> QED  BY <3>2, <4>1, ProgramIs
    <3>4. PICK r, n : r = e[1] /\ n = e[2]
      OBVIOUS
    <3>5. \A i \in 1 .. n : i \in DOMAIN r.body
      BY <3>2, <3>3, <3>4 DEF IsAdRule
    <3>6. BindVars(r, n) \subseteq VarsOf(r.head) \cup VarsOfAll(r.body)
      <4>1. VarsOf(QueryTerm(r.head)) \subseteq VarsOf(r.head)
        BY QueryTermIs
      <4>2. UNION {VarsOf(r.body[i]) : i \in 1 .. n} \subseteq VarsOfAll(r.body)
        BY <3>5 DEF VarsOfAll
      <4> QED  BY <4>1, <4>2 DEF BindVars
    <3> QED  BY <3>2, <3>4, <3>6 DEF BindingFor
  <2>2. \A m \in matched : m[1] \in program /\ HasC(m[1].body[m[2]])
    BY DEF Typed, IsMatched
  <2>3. \A f \in inferred_facts : ToSet(f.args) \cap Var = {}
    BY DEF Typed, IsGroundFact
  <2>4. \A i \in DOMAIN stack : stack[i].todo # {}
    BY DEF Typed, Calling, Busy, ToSet
  <2> QED  BY <2>1, <2>2, <2>3, <2>4 DEF TypeOK, Setup, Runs, Endings
<1> QED  BY <1>1, <1>2, <1>3, PTL DEF StoreSpec

(***************************************************************************)
(* The rules of a program that is well posed.                              *)
(***************************************************************************)

\* Literals of derived predicates are adorned, the others query the facts; the body
\* has the variables of the head.
FitRule(r) ==
    /\ IsAdRule(r) /\ SingleVars(r.head) /\ IsAdorned(r.head)
    /\ \A k \in DOMAIN r.body : /\ SingleVars(r.body[k]) /\ r.body[k].naf = FALSE
                                /\ r.body[k].op \in derived <=> ~IsBase(r.body[k])
                                /\ r.body[k].op \in derived => IsAdorned(r.body[k])
    /\ VarsOf(r.head) \subseteq VarsOfAll(r.body)

LEMMA HeadAdorned ==
    ASSUME NEW r, IsAdRule(r)
    PROVE  /\ IsAdorned(r.head) /\ Len(r.head.ad) = Len(r.head.args) /\ Len(r.head.args) \in Nat
           /\ DOMAIN r.head.args = 1 .. Len(r.head.args)
<1>1. /\ Len(r.head.args) \in 1 .. Len(BridgeVars) /\ Len(r.head.ad) = Len(r.head.args)
      /\ DOMAIN r.head.args = 1 .. Len(r.head.args)
  BY DEF IsAdRule, IsAdLiteral, Arity
<1>2. r.head.ad # <<>>
  BY <1>1, BridgeLen
<1> QED  BY <1>1, <1>2, BridgeLen DEF IsAdorned

LEMMA SameSingle ==
    ASSUME NEW l, NEW m, l.args = m.args, SingleVars(m)
    PROVE  SingleVars(l) /\ VarsOf(l) = VarsOf(m)
BY DEF SingleVars, VarsOf, Args

LEMMA VersionFits ==
    ASSUME Setup, answered # <<>>, Posed, NEW r \in program, RenamedBody(r),
           NEW i \in DOMAIN given.rules, IsVersion(r, given.rules[i])
    PROVE  /\ FitRule(r) /\ r.head.op \in derived
           /\ \A k \in DOMAIN r.body : r.body[k].op \notin derived => IsOldName(r.body[k].op)
<1>1. IsAdRule(r) /\ given \in Scenarios /\ ignoring = TRUE
  BY ProgramIs
<1>2. PICK c : c = given.rules[i]
  OBVIOUS
<1>3. IsRule(c) /\ IsSafeBody(c) /\ Renamed(c.head).op \in derived /\ SingleVars(c.head)
  BY <1>1, <1>2, ScenariosAssumption DEF Posed, WellPosed
<1>4. /\ r.head.args = c.head.args /\ r.head.op \in derived
      /\ SingleVars(r.head) /\ VarsOf(r.head) = VarsOf(c.head)
  BY <1>2, <1>3, SameSingle DEF IsVersion
<1>5. /\ \A j \in DOMAIN r.body : \E k \in DOMAIN c.body :
            /\ Renamed(r.body[j]).op = Renamed(c.body[k]).op
            /\ r.body[j].args = c.body[k].args /\ r.body[j].naf = c.body[k].naf
      /\ \A k \in DOMAIN c.body : \E j \in DOMAIN r.body : r.body[j].args = c.body[k].args
  BY <1>2, VersionMatches
<1>6. \A k \in DOMAIN c.body :
         /\ c.body[k] \in BodyLiterals(given.rules) /\ c.body[k].op \in PredicatesOf(given)
         /\ IsLiteral(c.body[k]) /\ ~c.body[k].naf /\ SingleVars(c.body[k])
         /\ c.body[k].op \in Hybrid => DerivedName[c.body[k].op] \in derived
  <2> SUFFICES ASSUME NEW k \in DOMAIN c.body
               PROVE  /\ c.body[k] \in BodyLiterals(given.rules) /\ c.body[k].op \in PredicatesOf(given)
                      /\ IsLiteral(c.body[k]) /\ ~c.body[k].naf /\ SingleVars(c.body[k])
                      /\ c.body[k].op \in Hybrid => DerivedName[c.body[k].op] \in derived
    OBVIOUS
  <2>1. c.body[k] \in BodyLiterals(given.rules)
    BY <1>2 DEF BodyLiterals, ToSet
  <2> QED  BY <1>3, <2>1 DEF IsRule, PredicatesOf, Posed, WellPosed
<1>7. ASSUME NEW j \in DOMAIN r.body
      PROVE  /\ SingleVars(r.body[j]) /\ r.body[j].naf = FALSE
             /\ r.body[j].op \in derived => IsAdorned(r.body[j])
             /\ IsAdorned(r.body[j]) => r.body[j].op \in derived
             /\ r.body[j].op \notin derived => IsOldName(r.body[j].op)
  <2>1. PICK k \in DOMAIN c.body :
            /\ Renamed(r.body[j]).op = Renamed(c.body[k]).op
            /\ r.body[j].args = c.body[k].args /\ r.body[j].naf = c.body[k].naf
    BY <1>5
  <2>2. PICK l, m : l = r.body[j] /\ m = c.body[k]
    OBVIOUS
  <2>3. SingleVars(l)
    BY <1>6, <2>1, <2>2, SameSingle
  <2>4. l.naf = FALSE
    BY <1>6, <2>1, <2>2 DEF IsLiteral
  <2>5. IsAdLiteral(l) /\ IsAdLiteral(m) /\ l.op \notin Hybrid
    BY <1>1, <1>6, <2>2, LiteralIsAdLiteral DEF IsAdRule, RenamedBody
  <2>6. l.op = IF m.op \in Hybrid THEN DerivedName[m.op] ELSE m.op
    BY <2>1, <2>2, <2>5, RenamedType
  <2>7. ASSUME ~IsOldName(l.op) PROVE l.op \in derived
    <3>1. PICK p \in Hybrid : l.op = DerivedName[p]
      BY <2>7 DEF IsOldName
    <3>2. DerivedName[p] \notin PredicatesOf(given)
      BY DEF Posed, WellPosed
    <3>3. m.op \in Hybrid
      BY <1>6, <2>2, <2>6, <3>1, <3>2
    <3> QED  BY <1>6, <2>2, <2>6, <3>3
  <2>8. l.op \in derived => IsAdorned(l)
    BY <1>1, <2>2 DEF RenamedBody
  <2>9. IsAdorned(l) => l.op \in derived \/ ~IsOldName(l.op)
    BY <2>2 DEF RenamedBody
  <2> QED  BY <2>2, <2>3, <2>4, <2>7, <2>8, <2>9
<1>8. VarsOf(r.head) \subseteq VarsOfAll(r.body)
  <2>1. ASSUME NEW v \in VarsOf(r.head) PROVE v \in VarsOfAll(r.body)
    <3>1. PICK k \in DOMAIN c.body : v \in VarsOf(c.body[k])
      BY <1>3, <1>4 DEF IsSafeBody
    <3>2. PICK j \in DOMAIN r.body : r.body[j].args = c.body[k].args
      BY <1>5
    <3> QED  BY <3>1, <3>2 DEF VarsOf, Args, VarsOfAll
  <2> QED  BY <2>1
<1>9. \A k \in DOMAIN r.body : r.body[k].op \in derived <=> ~IsBase(r.body[k])
  BY <1>7 DEF IsBase
<1> QED  BY <1>1, <1>4, <1>7, <1>8, <1>9, HeadAdorned DEF FitRule

LEMMA BridgeFits ==
    ASSUME Setup, answered # <<>>, NEW r \in program,
           NEW p \in Hybrid, NEW ad, Len(ad) \in 1 .. Len(BridgeVars), r = Bridge(p, ad)
    PROVE  /\ FitRule(r) /\ r.head.op = DerivedName[p] /\ r.head.ad = ad
           /\ r.head.args = BridgeArgs(ad)
           /\ DOMAIN r.body = {1} /\ r.body[1].op = p /\ r.body[1].args = BridgeArgs(ad)
<1>1. IsAdRule(r) /\ given \in Scenarios /\ derived \cap Hybrid = {}
  BY ProgramIs DEF Setup, IInv, Setting
<1>2. PICK args : args = BridgeArgs(ad)
  OBVIOUS
<1>3. PICK l, h : l = Lit(p, args) /\ h = Adorned(DerivedName[p], args, ad, FALSE)
  OBVIOUS
<1>4. r = [head |-> h, body |-> <<l>>]
  BY <1>2, <1>3, BridgeIs
<1>5. /\ l.op = p /\ l.args = args /\ l.ad = <<>> /\ l.naf = FALSE
      /\ h.op = DerivedName[p] /\ h.args = args /\ h.ad = ad
  BY <1>3 DEF Lit, Adorned
<1>6. r.head = h /\ DOMAIN r.body = {1} /\ r.body[1] = l
  BY <1>4
<1>7. SingleVars(l)
  <2>1. /\ args \in Seq(ToSet(args)) /\ Len(args) = Len(ad)
        /\ \A i \in 1 .. Len(ad) : args[i] = BridgeVars[i]
    BY <1>2, BridgeArgsAre
  <2>2. DOMAIN args = 1 .. Len(ad) /\ \A i \in DOMAIN args : i \in DOMAIN BridgeVars
    BY <2>1, BridgeLen, ScenariosAssumption
  <2> QED  BY <1>5, <2>1, <2>2, BridgeAssumption DEF SingleVars
<1>8. SingleVars(h) /\ VarsOf(h) = VarsOf(l)
  BY <1>5, <1>7, SameSingle
<1>9. VarsOf(h) \subseteq VarsOfAll(r.body)
  BY <1>6, <1>8 DEF VarsOfAll
<1>10. IsBase(l) /\ l.op \notin derived
  BY <1>1, <1>5 DEF IsBase, IsAdorned
<1>11. \A k \in DOMAIN r.body : /\ SingleVars(r.body[k]) /\ r.body[k].naf = FALSE
                                /\ r.body[k].op \in derived <=> ~IsBase(r.body[k])
                                /\ r.body[k].op \in derived => IsAdorned(r.body[k])
  <2> SUFFICES ASSUME NEW k \in DOMAIN r.body
               PROVE  /\ SingleVars(r.body[k]) /\ r.body[k].naf = FALSE
                      /\ r.body[k].op \in derived <=> ~IsBase(r.body[k])
                      /\ r.body[k].op \in derived => IsAdorned(r.body[k])
    OBVIOUS
  <2>1. PICK m : m = r.body[k]
    OBVIOUS
  <2>2. m = l
    BY <1>6, <2>1
  <2>3. SingleVars(m) /\ m.naf = FALSE /\ m.op \notin derived /\ IsBase(m)
    BY <1>5, <1>7, <1>10, <2>2
  <2> QED  BY <2>1, <2>3
<1>12. IsAdorned(r.head) /\ SingleVars(r.head) /\ VarsOf(r.head) = VarsOf(h)
  <2>1. PICK m : m = r.head
    OBVIOUS
  <2>2. m = h
    BY <1>6, <2>1
  <2>3. SingleVars(m) /\ VarsOf(m) = VarsOf(h)
    BY <1>8, <2>2
  <2> QED  BY <1>1, <2>1, <2>3, HeadAdorned
<1>14. VarsOf(r.head) \subseteq VarsOfAll(r.body)
  BY <1>9, <1>12
<1>13. FitRule(r)
  BY <1>1, <1>11, <1>12, <1>14 DEF FitRule
<1> QED  BY <1>2, <1>5, <1>6, <1>13

LEMMA ProgramFits ==
    ASSUME Setup, answered # <<>>, Posed
    PROVE  /\ \A r \in program : FitRule(r)
           /\ \A r \in program : \A k \in DOMAIN r.body : IsBase(r.body[k]) =>
                 \A q \in program : q.head.op # r.body[k].op
<1>1. \A r \in program : IsMade(r)
  BY ProgramIs
<1>2. ASSUME NEW r \in program
      PROVE  /\ FitRule(r) /\ (r.head.op \in derived \/ ~IsOldName(r.head.op))
             /\ \A k \in DOMAIN r.body : r.body[k].op \notin derived => IsOldName(r.body[k].op)
  <2>1. CASE RenamedBody(r) /\ \E i \in DOMAIN given.rules : IsVersion(r, given.rules[i])
    BY <2>1, VersionFits
  <2>2. CASE IsBridge(r)
    <3>1. PICK p \in Hybrid : \E ad : Len(ad) \in 1 .. Len(BridgeVars) /\ r = Bridge(p, ad)
      BY <2>2 DEF IsBridge
    <3>2. PICK ad : Len(ad) \in 1 .. Len(BridgeVars) /\ r = Bridge(p, ad)
      BY <3>1
    <3>3. FitRule(r) /\ r.head.op = DerivedName[p] /\ DOMAIN r.body = {1} /\ r.body[1].op = p
      BY <3>2, BridgeFits
    <3>4. IsOldName(p)
      BY HybridAssumption DEF IsOldName
    <3> QED  BY <3>3, <3>4 DEF IsOldName
  <2> QED  BY <1>1, <2>1, <2>2 DEF IsMade
<1>3. ASSUME NEW r \in program, NEW k \in DOMAIN r.body, IsBase(r.body[k]), NEW q \in program
      PROVE  q.head.op # r.body[k].op
  <2>1. PICK a, b : a = r.body[k].op /\ b = q.head.op
    OBVIOUS
  <2>2. a \notin derived
    BY <1>3, <2>1 DEF IsBase
  <2>3. IsOldName(a)
    BY <1>2, <2>1, <2>2 DEF IsOldName
  <2>4. b \in derived \/ ~IsOldName(b)
    BY <1>2, <2>1 DEF IsOldName
  <2>5. a # b
    BY <2>2, <2>3, <2>4
  <2> QED  BY <2>1, <2>5
<1> QED  BY <1>2, <1>3

(***************************************************************************)
(* Instances under the bindings that join literals.                        *)
(***************************************************************************)

LEMMA FactOfGround ==
    ASSUME NEW f, IsGroundFact(f)
    PROVE  IsFact(f) /\ \A i \in DOMAIN f.args : f.args[i] \notin Var
BY DEF IsGroundFact, IsFact, ToSet

LEMMA SameOn ==
    ASSUME NEW l, IsAdLiteral(l), NEW theta, NEW phi, DOMAIN theta \subseteq Var,
           DOMAIN phi \subseteq Var, \A v \in VarsOf(l) : Value(v, theta) = Value(v, phi)
    PROVE  Instance(l, theta) = Instance(l, phi)
<1>1. PICK x, y : x = Instance(l, theta) /\ y = Instance(l, phi)
  OBVIOUS
<1>2. /\ IsFact(x) /\ x.op = l.op /\ x.args = [i \in DOMAIN l.args |-> Value(l.args[i], theta)]
      /\ IsFact(y) /\ y.op = l.op /\ y.args = [i \in DOMAIN l.args |-> Value(l.args[i], phi)]
  BY <1>1, InstanceIs
<1>3. \A i \in DOMAIN l.args : Value(l.args[i], theta) = Value(l.args[i], phi)
  <2>1. SUFFICES ASSUME NEW i \in DOMAIN l.args
                 PROVE  Value(l.args[i], theta) = Value(l.args[i], phi)
    OBVIOUS
  <2>2. CASE l.args[i] \in Var
    <3>1. l.args[i] \in VarsOf(l)
      BY <2>2 DEF VarsOf, Args, ToSet
    <3> QED  BY <3>1
  <2>3. CASE l.args[i] \notin Var
    BY <2>3 DEF Value
  <2> QED  BY <2>2, <2>3
<1>4. x.args = y.args
  BY <1>2, <1>3
<1> QED  BY <1>1, <1>2, <1>4, SameFact

LEMMA ExtendedInstance ==
    ASSUME NEW l, IsAdLiteral(l), NEW theta, NEW phi, Extends(phi, theta),
           DOMAIN phi \subseteq Var, VarsOf(l) \subseteq DOMAIN theta
    PROVE  Instance(l, phi) = Instance(l, theta)
<1>1. DOMAIN theta \subseteq Var /\ \A v \in VarsOf(l) : Value(v, phi) = Value(v, theta)
  BY DEF Extends, Agrees, Value
<1> QED  BY <1>1, SameOn

LEMMA MergeExtends ==
    ASSUME NEW theta, NEW phi
    PROVE  /\ Extends(Merge(theta, phi), theta)
           /\ Agrees(theta, phi) => Extends(Merge(theta, phi), phi)
BY DEF Extends, Agrees, Merge

LEMMA GroundTwice ==
    ASSUME NEW l, IsAdLiteral(l), NEW theta, NEW vs, Binds1(theta, vs),
           NEW phi, DOMAIN phi \subseteq Var
    PROVE  Instance(Ground(l, theta), phi) = Instance(l, Merge(theta, phi))
<1>1. PICK m, all : m = Ground(l, theta) /\ all = Merge(theta, phi)
  OBVIOUS
<1>8. /\ DOMAIN all = DOMAIN theta \cup DOMAIN phi
      /\ \A v \in DOMAIN theta : all[v] = theta[v]
      /\ \A v \in DOMAIN phi : v \notin DOMAIN theta => all[v] = phi[v]
  BY <1>1 DEF Merge
<1>2. /\ IsAdLiteral(m) /\ m.op = l.op /\ DOMAIN m.args = DOMAIN l.args
      /\ m.args = [i \in DOMAIN l.args |-> Value(l.args[i], theta)]
  BY <1>1, GroundIs
<1>3. PICK x, y : x = Instance(m, phi) /\ y = Instance(l, all)
  OBVIOUS
<1>4. /\ IsFact(x) /\ x.op = m.op /\ x.args = [i \in DOMAIN m.args |-> Value(m.args[i], phi)]
      /\ IsFact(y) /\ y.op = l.op /\ y.args = [i \in DOMAIN l.args |-> Value(l.args[i], all)]
  BY <1>2, <1>3, InstanceIs
<1>5. ASSUME NEW t, NEW s, s = Value(t, theta) PROVE Value(s, phi) = Value(t, all)
  <2>2. s = Value(t, theta)
    BY <1>5
  <2>3. CASE t \in DOMAIN theta
    <3>1. s = theta[t]
      BY <2>2, <2>3 DEF Value
    <3>2. s \notin DOMAIN phi
      BY <2>3, <3>1 DEF Binds1
    <3>3. t \in DOMAIN all /\ all[t] = theta[t]
      BY <1>8, <2>3
    <3>4. Value(s, phi) = s /\ Value(t, all) = theta[t]
      BY <3>2, <3>3 DEF Value
    <3> QED  BY <3>1, <3>4
  <2>4. CASE t \notin DOMAIN theta
    <3>1. (t \in DOMAIN all <=> t \in DOMAIN phi) /\ (t \in DOMAIN phi => all[t] = phi[t])
      BY <1>8, <2>4
    <3>2. s = t
      BY <2>2, <2>4 DEF Value
    <3> QED  BY <3>1, <3>2 DEF Value
  <2> QED  BY <2>3, <2>4
<1>6. \A i \in DOMAIN l.args : Value(m.args[i], phi) = Value(l.args[i], all)
  BY <1>2, <1>5
<1>7. x.args = y.args
  BY <1>2, <1>4, <1>6
<1> QED  BY <1>1, <1>2, <1>3, <1>4, <1>7, SameFact

\* The fact a literal passes is the instance under what it binds.
LEMMA JoinHolds ==
    ASSUME NEW l, IsAdLiteral(l), SingleVars(l), NEW f, IsGroundFact(f), Passes(l, f),
           NEW theta, DOMAIN theta \subseteq Var, Extends(theta, BoundBy(l, f))
    PROVE  Instance(l, theta) = f
<1>1. PICK x : x = Instance(l, theta)
  OBVIOUS
<1>2. IsFact(x) /\ x.op = l.op /\ x.args = [i \in DOMAIN l.args |-> Value(l.args[i], theta)]
  BY <1>1, InstanceIs
<1>3. /\ IsFact(f) /\ f.op = l.op /\ DOMAIN f.args = DOMAIN l.args
      /\ f.args = [i \in DOMAIN f.args |-> f.args[i]]
  BY FactOfGround DEF Passes, IsFact
<1>4. DOMAIN l.args \subseteq Nat
  BY AdArgs
<1>5. ASSUME NEW i \in DOMAIN l.args PROVE Value(l.args[i], theta) = f.args[i]
  <2>1. CASE l.args[i] \in Var
    <3>1. l.args[i] \in VarsOf(l) /\ BoundBy(l, f)[l.args[i]] = f.args[i]
      BY <1>4, <2>1, BoundPlace
    <3>2. DOMAIN BoundBy(l, f) = VarsOf(l)
      BY <1>4, BoundByIs
    <3> QED  BY <3>1, <3>2 DEF Extends, Agrees, Value
  <2>2. CASE l.args[i] \notin Var
    BY <2>2 DEF Passes, Value
  <2> QED  BY <2>1, <2>2
<1>6. x.args = f.args
  BY <1>2, <1>3, <1>5
<1> QED  BY <1>1, <1>2, <1>3, <1>6, SameFact

(***************************************************************************)
(* Soundness: what stems from a query and holds in the model.              *)
(***************************************************************************)

ProgramModel == Model(program, edb)
Stemming(r, theta) ==
    \E q \in queries : /\ Passes(QueryTerm(r.head), q)
                       /\ Agrees(theta, BoundBy(QueryTerm(r.head), q))
Holding(r, j, theta) == \A i \in 1 .. j : Instance(r.body[i], theta) \in ProgramModel
Good(r, j, theta) == Stemming(r, theta) /\ Holding(r, j, theta)
SoundCall(G) ==
    /\ G.op = "fact" => G.fact \in ProgramModel
    /\ G.op \in {"evaluate", "call"} => \A theta \in G.todo : Good(G.rule, G.at, theta)
    /\ G.op = "edb" => Good(G.rule, G.at, G.binding) /\ G.todo \subseteq Results(G.query, edb)
    /\ G.op = "facts" => \A i \in G.todo : G.facts[i] \in ProgramModel
Sound == /\ \A G \in ToSet(stack) : SoundCall(G)
         /\ \A e \in evaluated : Good(e[1], e[2], e[3])
         /\ \A m \in matched : m[3] \in ProgramModel
         /\ inferred_facts \subseteq Wanted

LEMMA CoversVars ==
    ASSUME NEW r, IsAdRule(r), NEW j \in 0 .. Len(r.body), NEW theta, Covers(theta, r, j)
    PROVE  /\ DOMAIN theta = BindVars(r, j) /\ DOMAIN theta \subseteq Var
           /\ VarsOf(QueryTerm(r.head)) \subseteq DOMAIN theta
           /\ \A i \in 1 .. j : i \in DOMAIN r.body /\ VarsOf(r.body[i]) \subseteq DOMAIN theta
                                /\ IsAdLiteral(r.body[i])
<1>1. DOMAIN r.body = 1 .. Len(r.body) /\ Len(r.body) \in Nat /\ j \in Nat
  BY DEF IsAdRule
<1>2. DOMAIN theta = BindVars(r, j)
  BY DEF Covers, Binds1
<1>3. BindVars(r, j) \subseteq Var
  BY <1>1, BindVarsIs
<1>4. \A i \in 1 .. j : i \in DOMAIN r.body
  BY <1>1
<1> QED  BY <1>2, <1>3, <1>4 DEF BindVars, IsAdRule

\* What is good stays so when more is bound.
LEMMA GoodKept ==
    ASSUME NEW r, IsAdRule(r), NEW j \in 0 .. Len(r.body), NEW theta, Covers(theta, r, j),
           NEW phi, Extends(phi, theta), DOMAIN phi \subseteq Var, Good(r, j, theta)
    PROVE  Good(r, j, phi)
<1>1. /\ VarsOf(QueryTerm(r.head)) \subseteq DOMAIN theta
      /\ \A i \in 1 .. j : VarsOf(r.body[i]) \subseteq DOMAIN theta /\ IsAdLiteral(r.body[i])
  BY CoversVars
<1>2. Stemming(r, phi)
  <2>1. PICK q \in queries : /\ Passes(QueryTerm(r.head), q)
                             /\ Agrees(theta, BoundBy(QueryTerm(r.head), q))
    BY DEF Good, Stemming
  <2>2. PICK b : b = BoundBy(QueryTerm(r.head), q)
    OBVIOUS
  <2>3. DOMAIN b = VarsOf(QueryTerm(r.head))
    BY <2>2 DEF BoundBy
  <2>4. Agrees(phi, b)
    BY <1>1, <2>1, <2>2, <2>3 DEF Extends, Agrees
  <2> QED  BY <2>1, <2>2, <2>4 DEF Stemming
<1>3. Holding(r, j, phi)
  <2>1. SUFFICES ASSUME NEW i \in 1 .. j PROVE Instance(r.body[i], phi) \in ProgramModel
    BY DEF Holding
  <2>2. PICK l : l = r.body[i]
    OBVIOUS
  <2>3. Instance(l, phi) = Instance(l, theta)
    BY <1>1, <2>2, ExtendedInstance
  <2> QED  BY <2>2, <2>3 DEF Good, Holding
<1> QED  BY <1>2, <1>3 DEF Good

GroundAll(q, phi) == Map(LAMBDA l : Ground(l, phi), q)

LEMMA GroundAllIs ==
    ASSUME NEW n \in Nat, NEW q, DOMAIN q = 1 .. n, NEW phi
    PROVE  /\ DOMAIN GroundAll(q, phi) = 1 .. n
           /\ \A i \in 1 .. n : GroundAll(q, phi)[i] = Ground(q[i], phi)
<1> DEFINE s == [i \in 1 .. n |-> Ground(q[i], phi)]
<1>1. GroundAll(q, phi) = s \o <<>>
  BY DEF GroundAll, Map
<1>2. s = [i \in 1 .. n |-> s[i]] /\ DOMAIN s = 1 .. n /\ \A i \in 1 .. n : s[i] = Ground(q[i], phi)
  OBVIOUS
<1> HIDE DEF s
<1>3. s \o <<>> = s
  BY <1>2, AppendNothing
<1> QED  BY <1>1, <1>2, <1>3

\* An answer of the fact graph puts the literals of its query among the facts.
LEMMA AnswerHolds ==
    ASSUME NEW r, IsAdRule(r), NEW j \in 0 .. Len(r.body),
           NEW theta, Covers(theta, r, j), NEW e, e = EndOf(r, j),
           NEW q, q = ConjunctionAt(r, j, theta), NEW ans \in Results(q, edb),
           IsAnswer(ans, VarsOfAll(q)), VarsOfAll(q) = {} => ans,
           NEW all, all = IF VarsOfAll(q) # {} THEN Merge(theta, ans) ELSE theta
    PROVE  /\ \A i \in j + 1 .. e : Instance(r.body[i], all) \in edb
           /\ \A i \in DOMAIN q : Fact(Ground(q[i], all)) \in edb
           /\ Covers(all, r, e) /\ Extends(all, theta)
<1>1. /\ DOMAIN q = 1 .. e - j /\ e - j \in Nat /\ j \in Nat
      /\ \A i \in 1 .. e - j : /\ q[i] = Ground(r.body[j + i], theta) /\ IsAdLiteral(r.body[j + i])
                               /\ IsAdLiteral(q[i])
  BY ConjunctionIs
<1>2. Binds1(theta, BindVars(r, j)) /\ DOMAIN theta \subseteq Var
  BY CoversVars DEF Covers
<1>3. Covers(all, r, e) /\ Extends(all, theta)
  <2>1. CASE VarsOfAll(q) = {}
    <3>1. all = theta
      BY <2>1
    <3>2. Covers(all, r, e)
      BY <2>1, <3>1, AnswerCovers
    <3> QED  BY <3>1, <3>2 DEF Extends, Agrees
  <2>2. CASE VarsOfAll(q) # {}
    <3>1. all = Merge(theta, ans) /\ Binds1(ans, VarsOfAll(q))
      BY <2>2 DEF IsAnswer
    <3>2. Covers(all, r, e)
      BY <3>1, AnswerCovers
    <3> QED  BY <3>1, <3>2, MergeExtends
  <2> QED  BY <2>1, <2>2
<1>4. DOMAIN all \subseteq Var
  <2>1. e \in 0 .. Len(r.body)
    BY AnswerCovers
  <2> QED  BY <1>3, <2>1, CoversVars
<1>5. ASSUME NEW i \in 1 .. e - j
      PROVE  /\ Instance(r.body[j + i], all) \in edb
             /\ Fact(Ground(q[i], all)) = Instance(r.body[j + i], all)
  <2>1. PICK l, m : l = r.body[j + i] /\ m = q[i]
    OBVIOUS
  <2>2. IsAdLiteral(l) /\ m = Ground(l, theta) /\ IsAdLiteral(m)
    BY <1>1, <2>1
  <2>3. Instance(l, all) \in edb
    <3>1. CASE VarsOfAll(q) = {}
      <4>1. AllIn(q, edb) /\ all = theta
        BY <3>1 DEF Results
      <4>2. Fact(m) \in edb
        BY <1>1, <2>1, <4>1 DEF AllIn
      <4> QED  BY <2>2, <4>1, <4>2 DEF Instance
    <3>2. CASE VarsOfAll(q) # {}
      <4>1. /\ all = Merge(theta, ans) /\ Binds1(ans, VarsOfAll(q)) /\ VarsOfAll(q) \subseteq Var
            /\ AllIn(GroundAll(q, ans), edb)
        BY <3>2 DEF Results, IsAnswer, VarsOfAll, VarsOf, GroundAll
      <4>2. DOMAIN GroundAll(q, ans) = 1 .. e - j /\ GroundAll(q, ans)[i] = Ground(m, ans)
        BY <1>1, <2>1, GroundAllIs
      <4>3. Fact(Ground(m, ans)) \in edb
        BY <4>1, <4>2 DEF AllIn
      <4>4. DOMAIN ans \subseteq Var
        BY <4>1 DEF Binds1
      <4>5. Instance(Ground(l, theta), ans) = Instance(l, Merge(theta, ans))
        BY <1>2, <2>2, <4>4, GroundTwice
      <4> QED  BY <2>2, <4>1, <4>3, <4>5 DEF Instance
    <3> QED  BY <3>1, <3>2
  <2>4. Fact(Ground(m, all)) = Instance(l, all)
    <3>1. Instance(Ground(l, theta), all) = Instance(l, Merge(theta, all))
      BY <1>2, <1>4, <2>2, GroundTwice
    <3>2. PICK both : both = Merge(theta, all)
      OBVIOUS
    <3>3. /\ DOMAIN both = DOMAIN theta \cup DOMAIN all
          /\ \A v \in DOMAIN theta : both[v] = theta[v]
          /\ \A v \in DOMAIN all : v \notin DOMAIN theta => both[v] = all[v]
      BY <3>2 DEF Merge
    <3>4. DOMAIN both = DOMAIN all /\ \A v \in DOMAIN all : both[v] = all[v]
      BY <1>3, <3>3 DEF Extends, Agrees
    <3>5. \A v \in VarsOf(l) : Value(v, both) = Value(v, all)
      BY <3>4 DEF Value
    <3>6. Instance(l, both) = Instance(l, all)
      BY <1>4, <2>2, <3>4, <3>5, SameOn
    <3> QED  BY <2>2, <3>1, <3>2, <3>6 DEF Instance
  <2> QED  BY <2>1, <2>3, <2>4
<1>6. ASSUME NEW i \in j + 1 .. e PROVE Instance(r.body[i], all) \in edb
  <2>1. PICK k : k = i - j
    OBVIOUS
  <2>2. e \in Nat
    BY <1>1, EndOfIs
  <2>3. k \in 1 .. e - j /\ j + k = i
    BY <1>1, <2>1, <2>2
  <2>4. Instance(r.body[j + k], all) \in edb
    BY <1>5, <2>3
  <2> QED  BY <2>3, <2>4
<1> QED  BY <1>1, <1>3, <1>5, <1>6

\* The head holds where the body does.
LEMMA HeadHolds ==
    ASSUME NEW r \in program, FitRule(r), NEW theta, Covers(theta, r, Len(r.body)),
           Holding(r, Len(r.body), theta), Immediate(program, ProgramModel) = ProgramModel
    PROVE  Instance(r.head, theta) \in ProgramModel
<1> DEFINE n == Len(r.body)
           phi == [v \in VarsOfRule(r) |-> theta[v]]
<1>1. /\ IsAdRule(r) /\ n \in Nat /\ DOMAIN r.body = 1 .. n /\ IsAdLiteral(r.head)
      /\ VarsOf(r.head) \subseteq VarsOfAll(r.body)
      /\ \A k \in DOMAIN r.body : r.body[k].naf = FALSE
  BY DEF FitRule, IsAdRule
<1>2. /\ DOMAIN theta \subseteq Var
      /\ \A i \in 1 .. n : VarsOf(r.body[i]) \subseteq DOMAIN theta /\ IsAdLiteral(r.body[i])
  <2>1. n \in 0 .. Len(r.body)
    BY <1>1
  <2> QED  BY <1>1, <2>1, CoversVars
<1>3. VarsOfRule(r) \subseteq DOMAIN theta /\ VarsOfRule(r) = VarsOfAll(r.body)
  <2>1. VarsOfRule(r) = VarsOfAll(r.body)
    BY <1>1 DEF VarsOfRule
  <2>2. VarsOfAll(r.body) \subseteq DOMAIN theta
    BY <1>1, <1>2 DEF VarsOfAll
  <2> QED  BY <2>1, <2>2
<1>4. DOMAIN phi = VarsOfRule(r) /\ Extends(theta, phi)
  BY <1>3 DEF Extends, Agrees
<1>5. \A i \in DOMAIN r.body : VarsOf(r.body[i]) \subseteq DOMAIN phi
  BY <1>3, <1>4 DEF VarsOfAll
<1>6. VarsOf(r.head) \subseteq DOMAIN phi
  BY <1>4 DEF VarsOfRule
<1> DEFINE M == ProgramModel
<1>7. phi \in [VarsOfRule(r) -> Terms(M)]
  <2>1. ASSUME NEW v \in VarsOfRule(r) PROVE theta[v] \in Terms(M)
    <3>1. PICK i \in DOMAIN r.body : v \in VarsOf(r.body[i])
      BY <1>3 DEF VarsOfAll
    <3>2. PICK l : l = r.body[i]
      OBVIOUS
    <3>3. PICK k \in DOMAIN l.args : l.args[k] = v
      BY <3>1, <3>2 DEF VarsOf, Args, ToSet
    <3>4. PICK f : f = Instance(l, theta)
      OBVIOUS
    <3>5. f \in M /\ IsAdLiteral(l)
      BY <1>1, <1>2, <3>2, <3>4 DEF Holding
    <3>6. f.args = [m \in DOMAIN l.args |-> Value(l.args[m], theta)]
      BY <3>4, <3>5, InstanceIs
    <3>7. k \in DOMAIN f.args /\ f.args[k] = theta[v]
      BY <1>3, <3>3, <3>6 DEF Value
    <3> HIDE DEF M
    <3> QED  BY <3>5, <3>7, TermOf
  <2> QED  BY <2>1
<1> HIDE DEF phi
<1>8. \A i \in DOMAIN r.body : Satisfied(r.body[i], phi, M)
  <2>1. SUFFICES ASSUME NEW i \in DOMAIN r.body PROVE Satisfied(r.body[i], phi, M)
    OBVIOUS
  <2>2. PICK l : l = r.body[i]
    OBVIOUS
  <2>3. IsAdLiteral(l) /\ VarsOf(l) \subseteq DOMAIN phi /\ l.naf = FALSE
    BY <1>1, <1>2, <1>5, <2>2
  <2>4. Instance(l, theta) = Instance(l, phi)
    BY <1>2, <1>4, <2>3, ExtendedInstance
  <2>5. Instance(l, theta) \in M
    BY <1>1, <2>2 DEF Holding
  <2>6. Satisfied(l, phi, M)
    BY <2>3, <2>4, <2>5, SatisfiedIs
  <2> QED  BY <2>2, <2>6
<1>9. phi \in BodySolutions(r, M)
  BY <1>7, <1>8, Solves
<1>10. Instance(r.head, phi) \in Immediate(program, M)
  <2> HIDE DEF M
  <2> QED  BY <1>9, Concludes
<1>11. Instance(r.head, theta) = Instance(r.head, phi)
  BY <1>1, <1>2, <1>4, <1>6, ExtendedInstance
<1> QED  BY <1>10, <1>11

\* The head was asked for.
LEMMA HeadAsked ==
    ASSUME NEW r, FitRule(r), NEW theta, Covers(theta, r, Len(r.body)), Stemming(r, theta),
           \A q \in queries : IsQuery(q), NEW f, f = Instance(r.head, theta)
    PROVE  /\ Passes(r.head, f)
           /\ Fact(Ground(QueryTerm(r.head), BoundBy(r.head, f))) \in queries
<1>1. PICK h : h = r.head
  OBVIOUS
<1>2. IsAdRule(r) /\ IsAdLiteral(h) /\ SingleVars(h) /\ DOMAIN h.args \subseteq Nat
  BY <1>1, AdArgs DEF FitRule, IsAdRule
<1>3. DOMAIN theta \subseteq Var /\ VarsOf(QueryTerm(h)) \subseteq DOMAIN theta
  <2>1. Len(r.body) \in 0 .. Len(r.body)
    BY <1>2 DEF IsAdRule
  <2> QED  BY <1>1, <1>2, <2>1, CoversVars
<1>4. PICK q \in queries : Passes(QueryTerm(h), q) /\ Agrees(theta, BoundBy(QueryTerm(h), q))
  BY <1>1 DEF Stemming
<1>5. PICK t : t = QueryTerm(h)
  OBVIOUS
<1>6. /\ t.op = <<h.op, h.ad>> /\ DOMAIN t.args = BoundPlaces(h)
      /\ BoundPlaces(h) \subseteq DOMAIN h.args
      /\ \A i \in BoundPlaces(h) : t.args[i] = h.args[i]
  BY <1>5, QueryTermIs
<1>7. SingleVars(t) /\ DOMAIN t.args \subseteq Nat
  BY <1>2, <1>6 DEF SingleVars
<1>8. /\ q.op = t.op /\ DOMAIN q.args = BoundPlaces(h)
      /\ \A i \in BoundPlaces(h) : h.args[i] \in Var \/ h.args[i] = q.args[i]
  BY <1>4, <1>5, <1>6 DEF Passes
<1>9. /\ f.op = h.op /\ f.args = [i \in DOMAIN h.args |-> Value(h.args[i], theta)]
      /\ DOMAIN f.args = DOMAIN h.args
  BY <1>1, <1>2, InstanceIs
<1>10. Passes(h, f)
  BY <1>3, <1>9 DEF Passes, Value
<1>11. ASSUME NEW i \in BoundPlaces(h) PROVE Value(h.args[i], BoundBy(h, f)) = q.args[i]
  <2>1. DOMAIN BoundBy(h, f) = VarsOf(h)
    BY DEF BoundBy
  <2>2. CASE h.args[i] \in Var
    <3>1. PICK v : v = h.args[i]
      OBVIOUS
    <3>2. v \in VarsOf(t) /\ BoundBy(t, q)[v] = q.args[i]
      BY <1>6, <1>7, <2>2, <3>1, BoundPlace
    <3>3. v \in VarsOf(h) /\ BoundBy(h, f)[v] = f.args[i]
      BY <1>2, <1>6, <2>2, <3>1, BoundPlace
    <3>4. v \in DOMAIN theta /\ theta[v] = q.args[i]
      <4>1. DOMAIN BoundBy(t, q) = VarsOf(t)
        BY DEF BoundBy
      <4> QED  BY <1>3, <1>4, <1>5, <3>2, <4>1 DEF Agrees
    <3>5. f.args[i] = theta[v]
      BY <1>6, <1>9, <3>1, <3>4 DEF Value
    <3> QED  BY <2>1, <3>1, <3>3, <3>4, <3>5 DEF Value
  <2>3. CASE h.args[i] \notin Var
    BY <1>8, <2>1, <2>3 DEF Value, VarsOf
  <2> QED  BY <2>2, <2>3
<1>12. PICK b : b = BoundBy(h, f)
  OBVIOUS
<1>13. Fact(Ground(QueryTerm(h), b)) =
          [op |-> <<h.op, h.ad>>, args |-> [i \in BoundPlaces(h) |-> Value(h.args[i], b)]]
  BY AskedQuery
<1>14. [i \in BoundPlaces(h) |-> Value(h.args[i], b)] = q.args
  <2>1. q.args = [i \in DOMAIN q.args |-> q.args[i]]
    BY DEF IsQuery
  <2> QED  BY <1>8, <1>11, <1>12, <2>1
<1>15. q = [op |-> q.op, args |-> q.args]
  <2>1. q = Fact(q)
    BY DEF IsQuery
  <2> QED  BY <2>1 DEF Fact
<1>16. Fact(Ground(QueryTerm(h), b)) = q
  BY <1>6, <1>8, <1>13, <1>14, <1>15
<1> QED  BY <1>1, <1>10, <1>12, <1>16

LEMMA SoundKept ==
    ASSUME UNCHANGED <<program, edb>>, queries \subseteq queries'
    PROVE  /\ ProgramModel' = ProgramModel /\ Wanted \subseteq Wanted'
           /\ \A r, j, theta : Good(r, j, theta) => Good(r, j, theta)'
           /\ \A G : SoundCall(G) => SoundCall(G)'
<1>1. ProgramModel' = ProgramModel
  BY DEF ProgramModel, Model
<1>2. Wanted \subseteq Wanted'
  <2>1. ASSUME NEW f \in Wanted PROVE f \in Wanted'
    <3>1. f \in ProgramModel
      BY DEF Wanted, ProgramModel
    <3>2. PICK r \in program :
             /\ Passes(r.head, f)
             /\ Fact(Ground(QueryTerm(r.head), BoundBy(r.head, f))) \in queries
      BY DEF Wanted
    <3>3. f \in Model(program', edb')
      BY <1>1, <3>1 DEF ProgramModel
    <3> QED  BY <3>2, <3>3 DEF Wanted
  <2> QED  BY <2>1
<1>3. ASSUME NEW r, NEW j, NEW theta, Good(r, j, theta) PROVE Good(r, j, theta)'
  BY <1>1, <1>3 DEF Good, Stemming, Holding
<1>4. ASSUME NEW G, SoundCall(G) PROVE SoundCall(G)'
  <2>1. \A q : Results(q, edb)' = Results(q, edb)
    BY edb' = edb
  <2> QED  BY <1>1, <1>3, <1>4, <2>1 DEF SoundCall
<1> QED  BY <1>1, <1>2, <1>3, <1>4

LEMMA SoundLess ==
    ASSUME NEW F, IsCall(F), SoundCall(F), NEW x, NEW G, G = [F EXCEPT !.todo = @ \ {x}]
    PROVE  SoundCall(G)
<1>1. G.todo = F.todo \ {x} /\ G.op = F.op
  BY LessCall
<1>2. CASE QueryCall(F)
  BY <1>1, <1>2 DEF QueryCall, SoundCall
<1>3. CASE FactCall(F)
  <2>1. G.fact = F.fact
    BY <1>3 DEF FactCall
  <2> QED  BY <1>1, <1>3, <2>1 DEF FactCall, SoundCall
<1>4. CASE EvaluateCall(F)
  <2>1. G.rule = F.rule /\ G.at = F.at
    BY <1>4 DEF EvaluateCall
  <2> QED  BY <1>1, <1>4, <2>1 DEF EvaluateCall, SoundCall
<1>5. CASE LiteralCall(F)
  <2>1. G.rule = F.rule /\ G.at = F.at
    BY <1>5 DEF LiteralCall
  <2> QED  BY <1>1, <1>5, <2>1 DEF LiteralCall, SoundCall
<1>6. CASE BaseCall(F)
  <2>1. G.rule = F.rule /\ G.at = F.at /\ G.binding = F.binding /\ G.query = F.query
    BY <1>6 DEF BaseCall
  <2> QED  BY <1>1, <1>6, <2>1 DEF BaseCall, SoundCall
<1>7. CASE FactsCall(F)
  <2>1. G.facts = F.facts
    BY <1>7 DEF FactsCall
  <2> QED  BY <1>1, <1>7, <2>1 DEF FactsCall, SoundCall
<1>8. CASE ConcludeCall(F)
  BY <1>1, <1>8 DEF ConcludeCall, SoundCall
<1> QED  BY <1>2, <1>3, <1>4, <1>5, <1>6, <1>7, <1>8 DEF IsCall

LEMMA SoundCalls ==
    ASSUME Setup, Typed, Running, Sound, UNCHANGED <<program, edb>>, queries \subseteq queries',
           NEW x, NEW f, NEW g, Proceed(x, f, g),
           Busy(f) => SoundCall(f)', Busy(g) => SoundCall(g)'
    PROVE  \A G \in ToSet(stack') : SoundCall(G)'
<1>1. \A F \in ToSet(stack') : \/ F \in ToSet(stack)
                               \/ Busy(F) /\ (F = f \/ F = g \/ F = Less(x))
  BY TopIs, ProceedHas
<1>2. ASSUME NEW F \in ToSet(stack') PROVE SoundCall(F)'
  <2>1. CASE F \in ToSet(stack)
    BY <2>1, SoundKept DEF Sound
  <2>2. CASE Busy(F) /\ F = Less(x)
    <3>1. PICK G : G = Top
      OBVIOUS
    <3>2. IsCall(G) /\ SoundCall(G) /\ F = [G EXCEPT !.todo = @ \ {x}]
      BY <2>2, <3>1, TopIs DEF Less, Sound
    <3>3. SoundCall(F)
      BY <3>2, SoundLess
    <3> QED  BY <3>3, SoundKept
  <2> QED  BY <1>1, <2>1, <2>2
<1> QED  BY <1>2

\* A binding and a fact that agree make a binding that is good for one more literal.
LEMMA JoinGood ==
    ASSUME NEW r, FitRule(r), NEW j \in DOMAIN r.body, NEW f, IsGroundFact(f),
           f \in ProgramModel, Passes(r.body[j], f), NEW phi, phi = BoundBy(r.body[j], f),
           NEW theta, NEW i, i = j - 1, i \in 0 .. Len(r.body), Covers(theta, r, i),
           Good(r, i, theta), Agrees(theta, phi)
    PROVE  Good(r, j, Merge(theta, phi))
<1>1. PICK l, all : l = r.body[j] /\ all = Merge(theta, phi)
  OBVIOUS
<1>2. /\ IsAdRule(r) /\ IsAdLiteral(l) /\ SingleVars(l) /\ j \in Nat
      /\ Covers(all, r, j) /\ j \in 0 .. Len(r.body)
  <2>1. IsAdRule(r) /\ SingleVars(l)
    BY <1>1 DEF FitRule
  <2>2. Covers(all, r, j)
    BY <1>1, <2>1, JoinCovers
  <2>3. j \in 0 .. Len(r.body) /\ IsAdLiteral(l) /\ j \in Nat
    BY <1>1, <2>1 DEF IsAdRule
  <2> QED  BY <2>1, <2>2, <2>3
<1>3. DOMAIN all \subseteq Var /\ Extends(all, theta) /\ Extends(all, phi)
  BY <1>1, <1>2, CoversVars, MergeExtends
<1>4. Good(r, i, all)
  BY <1>2, <1>3, GoodKept
<1>5. Instance(l, all) = f
  BY <1>1, <1>2, <1>3, JoinHolds
<1>6. Holding(r, j, all)
  <2>1. \A k \in 1 .. j : k = j \/ k \in 1 .. i
    BY <1>2
  <2> QED  BY <1>1, <1>4, <1>5, <2>1 DEF Good, Holding
<1> QED  BY <1>1, <1>4, <1>6 DEF Good

LEMMA EvaluateForSound ==
    ASSUME NEW r, NEW j, NEW thetas, \A theta \in thetas : Good(r, j, theta),
           NEW f, f = EvaluateFor(r, j, thetas)
    PROVE  SoundCall(f)
<1>1. f.op = "evaluate" /\ f.rule = r /\ f.at = j /\ f.todo = thetas
  BY DEF EvaluateFor
<1> QED  BY <1>1 DEF SoundCall

LEMMA AddFactSound ==
    ASSUME NEW x \in ProgramModel, NEW f, f = AddFact(x)
    PROVE  SoundCall(f)
<1>1. f.op = "fact" /\ f.fact = x
  BY DEF AddFact
<1> QED  BY <1>1 DEF SoundCall

LEMMA SimpleSound ==
    ASSUME NEW f, f.op \in {"query", "conclude"}
    PROVE  SoundCall(f)
BY DEF SoundCall

LEMMA StartSound ==
    ASSUME Setup, Start
    PROVE  Sound'
<1>1. /\ answered # <<>> /\ stack' = Push(AddQuery(TopQuery), <<>>) /\ outcome = "idle"
      /\ UNCHANGED <<inferred_facts, evaluated, matched>>
  BY DEF Start
<1>2. inferred_facts' = {} /\ evaluated' = {} /\ matched' = {}
  BY <1>1 DEF Setup, OneGoal, KnowsNothing
<1>3. \A G \in ToSet(stack') : SoundCall(G)'
  <2>1. PICK F : F = AddQuery(TopQuery)
    OBVIOUS
  <2>2. <<>> \in Seq(ToSet(<<>>)) /\ ToSet(<<>>) = {}
    BY DEF ToSet
  <2>3. \A G \in ToSet(stack') : G = F
    BY <1>1, <2>1, <2>2, PushHas
  <2>4. F.op = "query"
    BY <2>1 DEF AddQuery
  <2>5. SoundCall(F)'
    BY <2>4 DEF SoundCall
  <2> QED  BY <2>3, <2>5
<1> QED  BY <1>2, <1>3 DEF Sound

LEMMA BeginRuleSound ==
    ASSUME Setup, Typed, Sound, BeginRule
    PROVE  Sound'
<1>1. In("query") /\ UNCHANGED <<edb, memVars, adornVars>>
  BY DEF BeginRule
<1>0. UNCHANGED <<program, edb, queries, evaluated, matched, inferred_facts>>
  BY <1>1 DEF memVars, adornVars
<1>2. PICK r \in Top.todo :
         Proceed(r, EvaluateFor(r, 0, {BoundBy(QueryTerm(r.head), Top.query)}), NoCall)
  BY DEF BeginRule
<1>3. QueryCall(Top) /\ answered # <<>> /\ Running
  BY <1>1, TopCall
<1>4. PICK F : F = Top
  OBVIOUS
<1>5. PICK q : q = F.query
  OBVIOUS
<1>6. r \in program /\ Passes(QueryTerm(r.head), q) /\ q \in queries
  BY <1>2, <1>3, <1>4, <1>5 DEF QueryCall
<1>7. PICK theta : theta = BoundBy(QueryTerm(r.head), q)
  OBVIOUS
<1>8. Good(r, 0, theta)
  <2>1. Agrees(theta, BoundBy(QueryTerm(r.head), q))
    BY <1>7 DEF Agrees
  <2> QED  BY <1>6, <2>1 DEF Good, Stemming, Holding
<1>9. PICK f : f = EvaluateFor(r, 0, {theta})
  OBVIOUS
<1>10. SoundCall(f) /\ Proceed(r, f, NoCall)
  <2>1. \A phi \in {theta} : Good(r, 0, phi)
    BY <1>8
  <2>2. SoundCall(f)
    BY <1>9, <2>1, EvaluateForSound
  <2> QED  BY <1>2, <1>4, <1>5, <1>7, <1>9, <2>2
<1>11. \A G \in ToSet(stack') : SoundCall(G)'
  BY <1>0, <1>3, <1>10, SoundKept, SoundCalls, NoCallIs
<1> QED  BY <1>0, <1>11, SoundKept DEF Sound

LEMMA JoinFactSound ==
    ASSUME Setup, Typed, Posed, Sound, JoinFact
    PROVE  Sound'
<1>1. /\ In("fact")
      /\ UNCHANGED <<edb, queries, inferred_facts, evaluated, adornVars>>
  BY DEF JoinFact
<1>0. UNCHANGED <<program, edb, queries, evaluated, inferred_facts>>
  BY <1>1 DEF adornVars
<1>2. FactCall(Top) /\ answered # <<>> /\ Running
  BY <1>1, TopCall
<1>3. PICK F : F = Top
  OBVIOUS
<1> DEFINE Met(c, phi) == {x \in evaluated : /\ x[1] = c[1] /\ x[2] = c[2] - 1
                                             /\ Agrees(x[3], phi)}
<1>4. PICK c \in F.todo : \E phi \in {BoundBy(c[1].body[c[2]], F.fact)} :
         /\ matched' = matched \cup {<<c[1], c[2], F.fact>>}
         /\ Proceed(c, EvaluateFor(c[1], c[2], {Merge(e[3], phi) : e \in Met(c, phi)}), NoCall)
  BY <1>3 DEF JoinFact
<1>5. PICK r \in program : \E j \in DOMAIN r.body :
         c = <<r, j>> /\ HasC(r.body[j]) /\ Passes(r.body[j], F.fact)
  BY <1>2, <1>3, <1>4 DEF FactCall, IsJoin
<1>6. PICK j \in DOMAIN r.body : c = <<r, j>> /\ HasC(r.body[j]) /\ Passes(r.body[j], F.fact)
  BY <1>5
<1>7. c[1] = r /\ c[2] = j /\ FitRule(r)
  BY <1>2, <1>6, ProgramFits
<1>8. PICK x : x = F.fact
  OBVIOUS
<1>9. PICK phi : phi = BoundBy(r.body[j], x)
  OBVIOUS
<1>10. IsGroundFact(x) /\ x \in ProgramModel
  <2>1. SoundCall(F) /\ F.op = "fact"
    BY <1>2, <1>3, TopIs DEF FactCall, Sound
  <2> QED  BY <1>2, <1>3, <1>8, <2>1 DEF FactCall, SoundCall
<1>11. PICK S : S = {Merge(e[3], phi) : e \in Met(c, phi)}
  OBVIOUS
<1>12. ASSUME NEW theta \in S PROVE Good(r, j, theta)
  <2>1. PICK e \in Met(c, phi) : theta = Merge(e[3], phi)
    BY <1>11
  <2>2. PICK i, old : i = j - 1 /\ old = e[3]
    OBVIOUS
  <2>3. Good(r, i, old) /\ Covers(old, r, i) /\ Agrees(old, phi) /\ i \in 0 .. Len(r.body)
    BY <1>7, <2>1, <2>2 DEF Sound, Typed, IsEvaluated
  <2> QED  BY <1>6, <1>7, <1>8, <1>9, <1>10, <2>1, <2>2, <2>3, JoinGood
<1>13. PICK f : f = EvaluateFor(r, j, S)
  OBVIOUS
<1>14. matched' = matched \cup {<<r, j, x>>} /\ Proceed(c, f, NoCall)
  BY <1>4, <1>7, <1>8, <1>9, <1>11, <1>13
<1>15. SoundCall(f)
  BY <1>12, <1>13, EvaluateForSound
<1>16. \A G \in ToSet(stack') : SoundCall(G)'
  BY <1>0, <1>2, <1>14, <1>15, SoundKept, SoundCalls, NoCallIs
<1> QED  BY <1>0, <1>10, <1>14, <1>16, SoundKept DEF Sound

LEMMA EvaluateBodySound ==
    ASSUME Setup, Typed, Posed, Sound, EvaluateBody
    PROVE  Sound'
<1>1. /\ In("evaluate")
      /\ UNCHANGED <<edb, queries, inferred_facts, matched, adornVars>>
  BY DEF EvaluateBody
<1>0. UNCHANGED <<program, edb, queries, matched, inferred_facts>>
  BY <1>1 DEF adornVars
<1>2. EvaluateCall(Top) /\ answered # <<>> /\ Running
  BY <1>1, TopCall
<1>3. PICK F : F = Top
  OBVIOUS
<1>4. PICK r, j, k : r = F.rule /\ j = F.at /\ k = j + 1
  OBVIOUS
<1>5. /\ r \in program /\ FitRule(r) /\ k \in DOMAIN r.body /\ j \in 0 .. Len(r.body) /\ k - 1 = j
  <2>1. r \in program /\ j \in 0 .. Len(r.body) /\ j < Len(r.body)
    BY <1>2, <1>3, <1>4 DEF EvaluateCall, EvaluateBody
  <2>2. FitRule(r)
    BY <1>2, <2>1, ProgramFits
  <2> QED  BY <1>4, <2>1, <2>2 DEF FitRule, IsAdRule
<1>6. PICK theta \in F.todo :
         /\ evaluated' = evaluated \cup {<<r, j, theta>>}
         /\ Proceed(theta, EvaluateFor(r, j + 1, Known(r, j + 1, theta)), Call(r, j, theta))
  BY <1>3, <1>4 DEF EvaluateBody
<1>7. Covers(theta, r, j) /\ Good(r, j, theta)
  <2>1. SoundCall(F) /\ EvaluateCall(F)
    BY <1>2, <1>3, TopIs DEF Sound
  <2> QED  BY <1>4, <1>6, <2>1 DEF EvaluateCall, SoundCall
<1>8. PICK S : S = Known(r, k, theta)
  OBVIOUS
<1>9. ASSUME NEW all \in S PROVE Good(r, k, all)
  <2>1. PICK m \in matched : /\ m[1] = r /\ m[2] = k /\ Agrees(theta, BoundBy(r.body[k], m[3]))
                             /\ all = Merge(theta, BoundBy(r.body[k], m[3]))
    BY <1>8, <1>9 DEF Known
  <2>2. PICK x : x = m[3]
    OBVIOUS
  <2>3. Passes(r.body[k], x) /\ IsGroundFact(x) /\ x \in ProgramModel
    BY <2>1, <2>2 DEF Typed, IsMatched, Sound
  <2>4. PICK phi : phi = BoundBy(r.body[k], x)
    OBVIOUS
  <2>5. all = Merge(theta, phi) /\ Agrees(theta, phi)
    BY <2>1, <2>2, <2>4
  <2> QED  BY <1>5, <1>7, <2>3, <2>4, <2>5, JoinGood
<1>10. PICK f, g : f = EvaluateFor(r, k, S) /\ g = Call(r, j, theta)
  OBVIOUS
<1>11. Proceed(theta, f, g)
  BY <1>4, <1>6, <1>8, <1>10
<1>12. SoundCall(f)
  BY <1>9, <1>10, EvaluateForSound
<1>13. SoundCall(g)
  <2>1. g.op = "call" /\ g.rule = r /\ g.at = j /\ g.todo = {theta}
    BY <1>10 DEF Call
  <2> QED  BY <1>7, <2>1 DEF SoundCall
<1>14. \A G \in ToSet(stack') : SoundCall(G)'
  BY <1>0, <1>2, <1>11, <1>12, <1>13, SoundKept, SoundCalls
<1>15. \A e \in evaluated' : Good(e[1], e[2], e[3])'
  <2>1. SUFFICES ASSUME NEW e \in evaluated' PROVE Good(e[1], e[2], e[3])
    BY <1>0, SoundKept
  <2>2. CASE e \in evaluated
    BY <2>2 DEF Sound
  <2>3. CASE e = <<r, j, theta>>
    <3>1. e[1] = r /\ e[2] = j /\ e[3] = theta
      BY <2>3
    <3> QED  BY <1>7, <3>1
  <2> QED  BY <1>6, <2>2, <2>3
<1> QED  BY <1>0, <1>14, <1>15, SoundKept DEF Sound

LEMMA EvaluateHeadSound ==
    ASSUME Setup, Typed, Posed, Sound, EvaluateHead
    PROVE  Sound'
<1>1. In("evaluate") /\ UNCHANGED <<edb, queries, matched, adornVars>>
  BY DEF EvaluateHead
<1>0. UNCHANGED <<program, edb, queries, matched>>
  BY <1>1 DEF adornVars
<1>2. EvaluateCall(Top) /\ answered # <<>> /\ Running
  BY <1>1, TopCall
<1>3. PICK F : F = Top
  OBVIOUS
<1>4. PICK r, j : r = F.rule /\ j = F.at
  OBVIOUS
<1>5. r \in program /\ FitRule(r) /\ j = Len(r.body)
  BY <1>2, <1>3, <1>4, ProgramFits DEF EvaluateCall, EvaluateHead
<1>6. PICK theta \in F.todo : \E f \in {Ground(r.head, theta)} :
         /\ evaluated' = evaluated \cup {<<r, j, theta>>}
         /\ IF IsNewHead(f)
              THEN /\ inferred_facts' = inferred_facts \cup {Fact(f)}
                   /\ Proceed(theta, AddFact(Fact(f)), Conclude(SolutionBy(r, theta)))
              ELSE /\ Proceed(theta, NoCall, NoCall)
                   /\ inferred_facts' = inferred_facts
  BY <1>3, <1>4 DEF EvaluateHead
<1>7. Covers(theta, r, j) /\ Good(r, j, theta)
  <2>1. SoundCall(F) /\ EvaluateCall(F)
    BY <1>2, <1>3, TopIs DEF Sound
  <2> QED  BY <1>4, <1>6, <2>1 DEF EvaluateCall, SoundCall
<1>8. PICK x : x = Instance(r.head, theta)
  OBVIOUS
<1>9. x \in ProgramModel
  <2>1. Immediate(program, ProgramModel) = ProgramModel
    BY DEF Posed, ProgramModel
  <2> QED  BY <1>5, <1>7, <1>8, <2>1, HeadHolds DEF Good
<1>10. x \in Wanted
  <2>1. \A q \in queries : IsQuery(q)
    BY DEF Typed
  <2>2. /\ Passes(r.head, x)
        /\ Fact(Ground(QueryTerm(r.head), BoundBy(r.head, x))) \in queries
    BY <1>5, <1>7, <1>8, <2>1, HeadAsked DEF Good
  <2> QED  BY <1>5, <1>9, <2>2 DEF Wanted, ProgramModel
<1>11. \A e \in evaluated' : Good(e[1], e[2], e[3])'
  <2>1. SUFFICES ASSUME NEW e \in evaluated' PROVE Good(e[1], e[2], e[3])
    BY <1>0, SoundKept
  <2>2. CASE e \in evaluated
    BY <2>2 DEF Sound
  <2>3. CASE e = <<r, j, theta>>
    <3>1. e[1] = r /\ e[2] = j /\ e[3] = theta
      BY <2>3
    <3> QED  BY <1>7, <3>1
  <2> QED  BY <1>6, <2>2, <2>3
<1>12. PICK h : h = Ground(r.head, theta)
  OBVIOUS
<1>13. Fact(h) = x
  BY <1>8, <1>12 DEF Instance
<1>14. CASE IsNewHead(h)
  <2>1. PICK f, g : f = AddFact(x) /\ g = Conclude(SolutionBy(r, theta))
    OBVIOUS
  <2>2. inferred_facts' = inferred_facts \cup {x} /\ Proceed(theta, f, g)
    BY <1>6, <1>12, <1>13, <1>14, <2>1
  <2>3. SoundCall(f)
    BY <1>9, <2>1, AddFactSound
  <2>4. SoundCall(g)
    <3>1. g.op = "conclude"
      BY <2>1 DEF Conclude
    <3> QED  BY <3>1, SimpleSound
  <2>5. \A G \in ToSet(stack') : SoundCall(G)'
    BY <1>0, <1>2, <2>2, <2>3, <2>4, SoundKept, SoundCalls
  <2>6. inferred_facts' \subseteq Wanted'
    BY <1>0, <1>10, <2>2, SoundKept DEF Sound
  <2> QED  BY <1>0, <1>11, <2>5, <2>6, SoundKept DEF Sound
<1>15. CASE ~IsNewHead(h)
  <2>1. inferred_facts' = inferred_facts /\ Proceed(theta, NoCall, NoCall)
    BY <1>6, <1>12, <1>15
  <2>2. \A G \in ToSet(stack') : SoundCall(G)'
    BY <1>0, <1>2, <2>1, SoundCalls, NoCallIs
  <2> QED  BY <1>0, <1>11, <2>1, <2>2, SoundKept DEF Sound
<1> QED  BY <1>14, <1>15

LEMMA SubquerySound ==
    ASSUME Setup, Typed, Sound, Subquery
    PROVE  Sound'
<1>1. In("call") /\ UNCHANGED <<edb, inferred_facts, evaluated, matched, adornVars>>
  BY DEF Subquery
<1>0. UNCHANGED <<program, edb, inferred_facts, evaluated, matched>>
  BY <1>1 DEF adornVars
<1>2. answered # <<>> /\ Running
  BY <1>1, TopCall
<1>3. PICK theta \in Top.todo : \E q \in {Ground(QueryTerm(Top.rule.body[Top.at + 1]), theta)} :
         IF IsGround(q) /\ Fact(q) \notin queries
           THEN queries' = queries \cup {Fact(q)} /\ Proceed(theta, AddQuery(Fact(q)), Conclude({}))
           ELSE Proceed(theta, NoCall, NoCall) /\ UNCHANGED queries
  BY DEF Subquery
<1>4. queries \subseteq queries'
      /\ \E f, g : Proceed(theta, f, g) /\ (Busy(f) => SoundCall(f)') /\ (Busy(g) => SoundCall(g)')
  <2>1. PICK q : q = Ground(QueryTerm(Top.rule.body[Top.at + 1]), theta)
    OBVIOUS
  <2>2. CASE IsGround(q) /\ Fact(q) \notin queries
    <3>1. PICK f, g : f = AddQuery(Fact(q)) /\ g = Conclude({})
      OBVIOUS
    <3>2. queries' = queries \cup {Fact(q)} /\ Proceed(theta, f, g)
      BY <1>3, <2>1, <2>2, <3>1
    <3>3. f.op = "query" /\ g.op = "conclude"
      BY <3>1 DEF AddQuery, Conclude
    <3>4. SoundCall(f)' /\ SoundCall(g)'
      BY <3>3 DEF SoundCall
    <3> QED  BY <3>2, <3>4
  <2>3. CASE ~(IsGround(q) /\ Fact(q) \notin queries)
    BY <1>3, <2>1, <2>3, NoCallIs
  <2> QED  BY <2>2, <2>3
<1>5. \A G \in ToSet(stack') : SoundCall(G)'
  BY <1>0, <1>2, <1>4, SoundCalls
<1> QED  BY <1>0, <1>4, <1>5, SoundKept DEF Sound

LEMMA QueryBaseSound ==
    ASSUME Setup, Typed, CacheHolds, Sound, QueryBase
    PROVE  Sound'
<1>1. /\ In("call") /\ IsBase(Top.rule.body[Top.at + 1])
      /\ UNCHANGED <<edb, queries, inferred_facts, evaluated, matched, adornVars>>
  BY DEF QueryBase
<1>0. UNCHANGED <<program, edb, queries, inferred_facts, evaluated, matched>>
  BY <1>1 DEF adornVars
<1>2. LiteralCall(Top) /\ answered # <<>> /\ Running
  BY <1>1, TopCall
<1>3. PICK F : F = Top
  OBVIOUS
<1>4. PICK r, j : r = F.rule /\ j = F.at
  OBVIOUS
<1>5. PICK theta \in F.todo : \E key \in {<<r, j, theta>>} : \E q \in {ConjunctionAt(r, j, theta)} :
         Proceed(theta, IF key \in fired_edb_queries THEN NoCall ELSE Query(r, j, theta, q), NoCall)
  BY <1>3, <1>4 DEF QueryBase
<1>6. Good(r, j, theta)
  <2>1. SoundCall(F) /\ LiteralCall(F)
    BY <1>2, <1>3, TopIs DEF Sound
  <2> QED  BY <1>4, <1>5, <2>1 DEF LiteralCall, SoundCall
<1>7. PICK q, key : q = ConjunctionAt(r, j, theta) /\ key = <<r, j, theta>>
  OBVIOUS
<1>8. PICK f : f = IF key \in fired_edb_queries THEN NoCall ELSE Query(r, j, theta, q)
  OBVIOUS
<1>9. Proceed(theta, f, NoCall)
  BY <1>5, <1>7, <1>8
<1>10. Busy(f) => SoundCall(f)
  <2>1. SUFFICES ASSUME key \notin fired_edb_queries, f = Query(r, j, theta, q)
                 PROVE  SoundCall(f)
    BY <1>8, NoCallIs
  <2>2. Tabled(q) = Results(q, edb)
    BY <1>1, <1>3, <1>4, <1>5, <1>7, <2>1 DEF CacheHolds
  <2>3. PICK todo : todo = Tabled(q)
    OBVIOUS
  <2>4. /\ f.op = "edb" /\ f.rule = r /\ f.at = j /\ f.binding = theta /\ f.query = q
        /\ f.todo = todo
    BY <2>1, <2>3 DEF Query
  <2>5. f.todo \subseteq Results(f.query, edb)
    BY <2>2, <2>3, <2>4
  <2> QED  BY <1>6, <2>4, <2>5 DEF SoundCall
<1>11. \A G \in ToSet(stack') : SoundCall(G)'
  BY <1>0, <1>2, <1>9, <1>10, SoundKept, SoundCalls, NoCallIs
<1> QED  BY <1>0, <1>11, SoundKept DEF Sound

\* An answer of the fact graph makes a binding that is good at the end of the run.
LEMMA AnswerGood ==
    ASSUME NEW r, IsAdRule(r), NEW j \in 0 .. Len(r.body),
           NEW theta, Covers(theta, r, j), Good(r, j, theta), NEW e, e = EndOf(r, j),
           NEW q, q = ConjunctionAt(r, j, theta), NEW ans \in Results(q, edb),
           IsAnswer(ans, VarsOfAll(q)), VarsOfAll(q) = {} => ans,
           NEW all, all = IF VarsOfAll(q) # {} THEN Merge(theta, ans) ELSE theta
    PROVE  Good(r, e, all) /\ \A i \in DOMAIN q : Fact(Ground(q[i], all)) \in ProgramModel
<1>1. edb \subseteq ProgramModel
  BY FactsInModel, RoundsAssumption DEF ProgramModel, Model
<1>2. /\ \A i \in j + 1 .. e : Instance(r.body[i], all) \in edb
      /\ \A i \in DOMAIN q : Fact(Ground(q[i], all)) \in edb
      /\ Covers(all, r, e) /\ Extends(all, theta)
  BY AnswerHolds
<1>3. e \in 0 .. Len(r.body) /\ j \in Nat /\ e \in Nat
  BY AnswerCovers DEF IsAdRule
<1>4. DOMAIN all \subseteq Var
  BY <1>2, <1>3, CoversVars
<1>5. Good(r, j, all)
  BY <1>2, <1>4, GoodKept
<1>6. Holding(r, e, all)
  <2>1. \A i \in 1 .. e : i \in 1 .. j \/ i \in j + 1 .. e
    BY <1>3
  <2> QED  BY <1>1, <1>2, <1>5, <2>1 DEF Good, Holding
<1> QED  BY <1>1, <1>2, <1>5, <1>6 DEF Good

LEMMA NextAnswerSound ==
    ASSUME Setup, Typed, Sound, NextAnswer
    PROVE  Sound'
<1>1. In("edb") /\ UNCHANGED <<edb, memVars, adornVars>>
  BY DEF NextAnswer
<1>0. UNCHANGED <<program, edb, queries, inferred_facts, evaluated, matched>>
  BY <1>1 DEF adornVars, memVars
<1>2. BaseCall(Top) /\ answered # <<>> /\ Running
  BY <1>1, TopCall
<1>3. PICK F : F = Top
  OBVIOUS
<1>4. PICK r, j, binding, q : r = F.rule /\ j = F.at /\ binding = F.binding /\ q = F.query
  OBVIOUS
<1>5. /\ r \in program /\ IsBaseCall(r, j, binding) /\ q = ConjunctionAt(r, j, binding)
      /\ Covers(binding, r, j) /\ \A ans \in F.todo : IsAnswer(ans, VarsOfAll(q))
  BY <1>2, <1>3, <1>4 DEF BaseCall, IsBaseCall
<1>6. IsAdRule(r) /\ j \in 0 .. Len(r.body)
  BY <1>2, <1>5, BaseKey
<1>7. Good(r, j, binding) /\ F.todo \subseteq Results(q, edb)
  <2>1. SoundCall(F) /\ BaseCall(F)
    BY <1>2, <1>3, TopIs DEF Sound
  <2> QED  BY <1>4, <2>1 DEF BaseCall, SoundCall
<1>8. PICK ans \in F.todo : \E theta \in IF VarsOfAll(q) # {} THEN {Merge(binding, ans)}
                                        ELSE IF ans THEN {binding} ELSE {<<>>} :
          IF VarsOfAll(q) = {} /\ ~ans THEN Proceed(ans, NoCall, NoCall)
          ELSE Proceed(ans, AddFacts(Map(LAMBDA l : Fact(Ground(l, theta)), q)),
                            EvaluateFor(r, EndOf(r, j), {theta}))
  BY <1>3, <1>4 DEF NextAnswer
<1>9. PICK theta \in IF VarsOfAll(q) # {} THEN {Merge(binding, ans)}
                     ELSE IF ans THEN {binding} ELSE {<<>>} :
          IF VarsOfAll(q) = {} /\ ~ans THEN Proceed(ans, NoCall, NoCall)
          ELSE Proceed(ans, AddFacts(Map(LAMBDA l : Fact(Ground(l, theta)), q)),
                            EvaluateFor(r, EndOf(r, j), {theta}))
  BY <1>8
<1>10. \A G \in ToSet(stack') : SoundCall(G)'
  <2>1. CASE VarsOfAll(q) = {} /\ ~ans
    <3>1. Proceed(ans, NoCall, NoCall)
      BY <1>9, <2>1
    <3> QED  BY <1>0, <1>2, <3>1, SoundCalls, NoCallIs
  <2>2. CASE ~(VarsOfAll(q) = {} /\ ~ans)
    <3>1. PICK e, facts : e = EndOf(r, j) /\ facts = FactsFor(q, theta)
      OBVIOUS
    <3>2. PICK f, g : f = AddFacts(facts) /\ g = EvaluateFor(r, e, {theta})
      OBVIOUS
    <3>3. Proceed(ans, f, g)
      BY <1>9, <2>2, <3>1, <3>2 DEF FactsFor
    <3>4. theta = IF VarsOfAll(q) # {} THEN Merge(binding, ans) ELSE binding
      BY <1>9, <2>2
    <3>5. (VarsOfAll(q) = {} => ans) /\ IsAnswer(ans, VarsOfAll(q)) /\ ans \in Results(q, edb)
      BY <1>5, <1>7, <1>8, <2>2
    <3>6. Good(r, e, theta) /\ \A i \in DOMAIN q : Fact(Ground(q[i], theta)) \in ProgramModel
      BY <1>5, <1>6, <1>7, <3>1, <3>4, <3>5, AnswerGood
    <3>7. Covers(theta, r, e)
      BY <1>5, <1>6, <3>1, <3>4, <3>5, AnswerHolds
    <3>8. DOMAIN facts = DOMAIN q /\ \A i \in DOMAIN q : facts[i] = Fact(Ground(q[i], theta))
      BY <1>5, <1>6, <3>1, <3>7, AnswerFacts
    <3>9. SoundCall(f)
      <4>1. f.op = "facts" /\ f.facts = facts /\ f.todo = DOMAIN facts
        BY <3>2 DEF AddFacts
      <4> QED  BY <3>6, <3>8, <4>1 DEF SoundCall
    <3>10. SoundCall(g)
      <4>1. \A phi \in {theta} : Good(r, e, phi)
        BY <3>6
      <4> QED  BY <3>2, <4>1, EvaluateForSound
    <3> QED  BY <1>0, <1>2, <3>3, <3>9, <3>10, SoundKept, SoundCalls
  <2> QED  BY <2>1, <2>2
<1> QED  BY <1>0, <1>10, SoundKept DEF Sound

LEMMA NextFactSound ==
    ASSUME Setup, Typed, Sound, NextFact
    PROVE  Sound'
<1>1. In("facts") /\ UNCHANGED <<edb, memVars, adornVars>>
  BY DEF NextFact
<1>0. UNCHANGED <<program, edb, queries, inferred_facts, evaluated, matched>>
  BY <1>1 DEF adornVars, memVars
<1>2. FactsCall(Top) /\ answered # <<>> /\ Running
  BY <1>1, TopCall
<1>3. PICK i \in Top.todo : Proceed(i, AddFact(Top.facts[i]), NoCall)
  BY DEF NextFact
<1>4. PICK F, x : F = Top /\ x = F.facts[i]
  OBVIOUS
<1>5. PICK f : f = AddFact(x)
  OBVIOUS
<1>6. Proceed(i, f, NoCall)
  BY <1>3, <1>4, <1>5
<1>7. SoundCall(f)
  <2>1. SoundCall(F) /\ FactsCall(F)
    BY <1>2, <1>4, TopIs DEF Sound
  <2>2. x \in ProgramModel
    BY <1>3, <1>4, <2>1 DEF FactsCall, SoundCall
  <2> QED  BY <1>5, <2>2, AddFactSound
<1>8. \A G \in ToSet(stack') : SoundCall(G)'
  BY <1>0, <1>2, <1>6, <1>7, SoundKept, SoundCalls, NoCallIs
<1> QED  BY <1>0, <1>8, SoundKept DEF Sound

LEMMA ConcludeSound ==
    ASSUME Setup, Typed, Sound, ConcludeStep
    PROVE  Sound'
<1>1. In("conclude") /\ UNCHANGED <<edb, queries, inferred_facts, evaluated, matched, adornVars>>
  BY DEF ConcludeStep
<1>0. UNCHANGED <<program, edb, queries, inferred_facts, evaluated, matched>>
  BY <1>1 DEF adornVars
<1>2. Running
  BY <1>1 DEF In
<1>3. \A G \in ToSet(stack') : SoundCall(G)'
  <2>1. CASE stack' = <<>>
    <3>1. ToSet(stack') = {}
      BY <2>1 DEF ToSet
    <3> QED  BY <3>1
  <2>2. CASE \E x : Proceed(x, NoCall, NoCall)
    BY <1>0, <1>2, <2>2, SoundCalls, NoCallIs
  <2> QED  BY <2>1, <2>2 DEF ConcludeStep
<1> QED  BY <1>0, <1>3, SoundKept DEF Sound

\* Whatever was asked and is well posed, the procedure is sound.
SoundInv == answered # <<>> /\ Posed => Sound

LEMMA PosedKept ==
    ASSUME Setup, Typed, ProcedureStep
    PROVE  /\ answered # <<>> /\ answered' = answered /\ Posed' = Posed
           /\ UNCHANGED <<edb, adornVars>>
<1>1. UNCHANGED <<edb, adornVars>>
  BY DEF ProcedureStep, Start, BeginRule, JoinFact, EvaluateBody, EvaluateHead, Subquery,
         QueryBase, NextAnswer, NextFact, ConcludeStep
<1>2. UNCHANGED <<given, ignoring, derived, goal, program, answered, edb>>
  BY <1>1 DEF adornVars
<1>3. answered # <<>>
  <2>1. CASE Start
    BY <2>1 DEF Start
  <2>2. CASE ~Start
    <3>1. Running
      BY <2>2 DEF ProcedureStep, BeginRule, JoinFact, EvaluateBody, EvaluateHead, Subquery,
         QueryBase, NextAnswer, NextFact, ConcludeStep, In
    <3> QED  BY <3>1, TopIs
  <2> QED  BY <2>1, <2>2
<1>4. Posed' = Posed
  BY <1>2 DEF Posed, WellPosed, Model
<1> QED  BY <1>1, <1>2, <1>3, <1>4

LEMMA SoundStep ==
    ASSUME Setup, Typed, CacheHolds, SoundInv, [StoreNext]_storeAll
    PROVE  SoundInv'
<1>1. CASE ProcedureStep
  <2>1. SUFFICES ASSUME Posed, Sound PROVE Sound'
    BY <1>1, PosedKept DEF SoundInv
  <2> QED  BY <1>1, <2>1, StartSound, BeginRuleSound, JoinFactSound, EvaluateBodySound,
           EvaluateHeadSound, SubquerySound, QueryBaseSound, NextAnswerSound, NextFactSound,
           ConcludeSound DEF ProcedureStep
<1>2. CASE KnowsNothing'
  <2>1. ToSet(stack') = {} /\ evaluated' = {} /\ matched' = {} /\ inferred_facts' = {}
    BY <1>2 DEF KnowsNothing, ToSet
  <2> QED  BY <2>1 DEF SoundInv, Sound
<1>3. CASE UNCHANGED <<adornVars, bfpVars>>
  <2>1. /\ UNCHANGED <<given, ignoring, derived, goal, program, answered, edb>>
        /\ UNCHANGED <<stack, queries, evaluated, matched, inferred_facts>>
    BY <1>3 DEF adornVars, bfpVars, memVars
  <2>2. Posed' = Posed
    BY <2>1 DEF Posed, WellPosed, Model
  <2> QED  BY <2>1, <2>2, SoundKept DEF SoundInv, Sound
<1> QED  BY <1>1, <1>2, <1>3, QuietStep

(***************************************************************************)
(* Debts: what the procedure owes is done or waits in a call.              *)
(***************************************************************************)

OwedQuery(q, r) == \E G \in ToSet(stack) : G.op = "query" /\ G.query = q /\ r \in G.todo
OwedFact(f, c) == \E G \in ToSet(stack) : G.op = "fact" /\ G.fact = f /\ c \in G.todo
OwedBinding(r, j, theta) ==
    \E G \in ToSet(stack) : G.op = "evaluate" /\ G.rule = r /\ G.at = j /\ theta \in G.todo
OwedCall(r, j, theta) ==
    \E G \in ToSet(stack) : G.op = "call" /\ G.rule = r /\ G.at = j /\ theta \in G.todo
OwedAnswer(r, j, theta, ans) ==
    \E G \in ToSet(stack) : /\ G.op = "edb" /\ G.rule = r /\ G.at = j /\ G.binding = theta
                            /\ ans \in G.todo
Have(r, j, theta) == <<r, j, theta>> \in evaluated \/ OwedBinding(r, j, theta)

\* The binding that an answer of a base query makes, and the answers that make one.
With(r, j, theta, ans) ==
    IF VarsOfAll(ConjunctionAt(r, j, theta)) = {} THEN theta ELSE Merge(theta, ans)
IsYes(r, j, theta, ans) == VarsOfAll(ConjunctionAt(r, j, theta)) = {} => ans

\* A query starts the rules it reaches; a binding meets the facts that came before
\* and those that come after; it is passed on to a base query or a query; the answers
\* of a base query are used; a binding for the whole body makes the head; a fact
\* inferred reaches the literals that wait for it.
RulesBegun ==
    \A q \in queries : \A r \in program : Passes(QueryTerm(r.head), q) =>
        OwedQuery(q, r) \/ Have(r, 0, BoundBy(QueryTerm(r.head), q))
FactsJoined ==
    \A e \in evaluated : \A m \in matched :
        e[1] = m[1] /\ m[2] = e[2] + 1 /\ Agrees(e[3], BoundBy(m[1].body[m[2]], m[3])) =>
            Have(m[1], m[2], Merge(e[3], BoundBy(m[1].body[m[2]], m[3])))
PassedOn ==
    \A e \in evaluated : e[2] < Len(e[1].body) =>
        \/ OwedCall(e[1], e[2], e[3])
        \/ IF IsBase(e[1].body[e[2] + 1]) THEN e \in fired_edb_queries
           ELSE LET q == Ground(QueryTerm(e[1].body[e[2] + 1]), e[3])
                IN  IsGround(q) => Fact(q) \in queries
AnswersUsed ==
    \A e \in fired_edb_queries : \A ans \in Results(ConjunctionAt(e[1], e[2], e[3]), edb) :
        IsYes(e[1], e[2], e[3], ans) =>
            \/ OwedAnswer(e[1], e[2], e[3], ans)
            \/ Have(e[1], EndOf(e[1], e[2]), With(e[1], e[2], e[3], ans))
HeadsInferred ==
    \A e \in evaluated : e[2] = Len(e[1].body) /\ IsGround(Ground(e[1].head, e[3])) =>
        Instance(e[1].head, e[3]) \in inferred_facts
FactsReach ==
    \A f \in inferred_facts : \A r \in program : \A j \in DOMAIN r.body :
        HasC(r.body[j]) /\ Passes(r.body[j], f) => <<r, j, f>> \in matched \/ OwedFact(f, <<r, j>>)
Owes == RulesBegun /\ FactsJoined /\ PassedOn /\ AnswersUsed /\ HeadsInferred /\ FactsReach

\* One call continues another.
SameCall(F, G) ==
    /\ G.op = F.op
    /\ F.op = "query" => G.query = F.query
    /\ F.op = "fact" => G.fact = F.fact
    /\ F.op \in {"evaluate", "call", "edb"} => G.rule = F.rule /\ G.at = F.at
    /\ F.op = "edb" => G.binding = F.binding

LEMMA LessSame ==
    ASSUME NEW F, IsCall(F), NEW x, NEW G, G = [F EXCEPT !.todo = @ \ {x}]
    PROVE  SameCall(F, G)
<1>1. CASE QueryCall(F)
  <2>1. G.op = F.op /\ G.query = F.query
    BY <1>1 DEF QueryCall
  <2> QED  BY <1>1, <2>1 DEF QueryCall, SameCall
<1>2. CASE FactCall(F)
  <2>1. G.op = F.op /\ G.fact = F.fact
    BY <1>2 DEF FactCall
  <2> QED  BY <1>2, <2>1 DEF FactCall, SameCall
<1>3. CASE EvaluateCall(F)
  <2>1. G.op = F.op /\ G.rule = F.rule /\ G.at = F.at
    BY <1>3 DEF EvaluateCall
  <2> QED  BY <1>3, <2>1 DEF EvaluateCall, SameCall
<1>4. CASE LiteralCall(F)
  <2>1. G.op = F.op /\ G.rule = F.rule /\ G.at = F.at
    BY <1>4 DEF LiteralCall
  <2> QED  BY <1>4, <2>1 DEF LiteralCall, SameCall
<1>5. CASE BaseCall(F)
  <2>1. G.op = F.op /\ G.rule = F.rule /\ G.at = F.at /\ G.binding = F.binding
    BY <1>5 DEF BaseCall
  <2> QED  BY <1>5, <2>1 DEF BaseCall, SameCall
<1>6. CASE FactsCall(F)
  <2>1. G.op = F.op
    BY <1>6 DEF FactsCall
  <2> QED  BY <1>6, <2>1 DEF FactsCall, SameCall
<1>7. CASE ConcludeCall(F)
  <2>1. G.op = F.op
    BY <1>7 DEF ConcludeCall
  <2> QED  BY <1>7, <2>1 DEF ConcludeCall, SameCall
<1> QED  BY <1>1, <1>2, <1>3, <1>4, <1>5, <1>6, <1>7 DEF IsCall

\* A step pays what it takes up, and no other debt.
LEMMA DebtsKept ==
    ASSUME Setup, Typed, Running, NEW x, NEW f, NEW g, Proceed(x, f, g),
           NEW F \in ToSet(stack), NEW y \in F.todo
    PROVE  \/ F = Top /\ y = x
           \/ \E G \in ToSet(stack') : SameCall(F, G) /\ y \in G.todo
<1>1. /\ F = Top \/ F \in ToSet(stack')
      /\ Busy(Less(x)) => Less(x) \in ToSet(stack')
  BY TopIs, ProceedHas
<1>2. CASE F \in ToSet(stack')
  BY <1>2 DEF SameCall
<1>3. CASE F = Top /\ y # x
  <2>1. PICK T, G : T = Top /\ G = Less(x)
    OBVIOUS
  <2>2. IsCall(T) /\ G = [T EXCEPT !.todo = @ \ {x}]
    BY <2>1, TopIs DEF Less
  <2>3. SameCall(T, G) /\ G.todo = T.todo \ {x}
    BY <2>2, LessSame, LessCall
  <2>4. y \in G.todo
    BY <1>3, <2>1, <2>3
  <2> QED  BY <1>1, <1>3, <2>1, <2>3, <2>4 DEF Busy
<1> QED  BY <1>1, <1>2, <1>3

LEMMA OwedKept ==
    ASSUME Setup, Typed, Running, NEW x, NEW f, NEW g, Proceed(x, f, g)
    PROVE  /\ \A q, r : OwedQuery(q, r) =>
                 OwedQuery(q, r)' \/ (Top.op = "query" /\ Top.query = q /\ r = x)
           /\ \A v, c : OwedFact(v, c) =>
                 OwedFact(v, c)' \/ (Top.op = "fact" /\ Top.fact = v /\ c = x)
           /\ \A r, j, theta : OwedBinding(r, j, theta) =>
                 \/ OwedBinding(r, j, theta)'
                 \/ Top.op = "evaluate" /\ Top.rule = r /\ Top.at = j /\ theta = x
           /\ \A r, j, theta : OwedCall(r, j, theta) =>
                 \/ OwedCall(r, j, theta)'
                 \/ Top.op = "call" /\ Top.rule = r /\ Top.at = j /\ theta = x
           /\ \A r, j, theta, ans : OwedAnswer(r, j, theta, ans) =>
                 \/ OwedAnswer(r, j, theta, ans)'
                 \/ Top.op = "edb" /\ Top.rule = r /\ Top.at = j /\ Top.binding = theta /\ ans = x
<1>1. ASSUME NEW q, NEW r, OwedQuery(q, r)
      PROVE  OwedQuery(q, r)' \/ (Top.op = "query" /\ Top.query = q /\ r = x)
  <2>1. PICK F \in ToSet(stack) : F.op = "query" /\ F.query = q /\ r \in F.todo
    BY <1>1 DEF OwedQuery
  <2>2. \/ F = Top /\ r = x
        \/ \E G \in ToSet(stack') : SameCall(F, G) /\ r \in G.todo
    BY <2>1, DebtsKept
  <2> QED  BY <2>1, <2>2 DEF OwedQuery, SameCall
<1>2. ASSUME NEW v, NEW c, OwedFact(v, c)
      PROVE  OwedFact(v, c)' \/ (Top.op = "fact" /\ Top.fact = v /\ c = x)
  <2>1. PICK F \in ToSet(stack) : F.op = "fact" /\ F.fact = v /\ c \in F.todo
    BY <1>2 DEF OwedFact
  <2>2. \/ F = Top /\ c = x
        \/ \E G \in ToSet(stack') : SameCall(F, G) /\ c \in G.todo
    BY <2>1, DebtsKept
  <2> QED  BY <2>1, <2>2 DEF OwedFact, SameCall
<1>3. ASSUME NEW r, NEW j, NEW theta, OwedBinding(r, j, theta)
      PROVE  \/ OwedBinding(r, j, theta)'
             \/ Top.op = "evaluate" /\ Top.rule = r /\ Top.at = j /\ theta = x
  <2>1. PICK F \in ToSet(stack) : F.op = "evaluate" /\ F.rule = r /\ F.at = j /\ theta \in F.todo
    BY <1>3 DEF OwedBinding
  <2>2. \/ F = Top /\ theta = x
        \/ \E G \in ToSet(stack') : SameCall(F, G) /\ theta \in G.todo
    BY <2>1, DebtsKept
  <2> QED  BY <2>1, <2>2 DEF OwedBinding, SameCall
<1>4. ASSUME NEW r, NEW j, NEW theta, OwedCall(r, j, theta)
      PROVE  \/ OwedCall(r, j, theta)'
             \/ Top.op = "call" /\ Top.rule = r /\ Top.at = j /\ theta = x
  <2>1. PICK F \in ToSet(stack) : F.op = "call" /\ F.rule = r /\ F.at = j /\ theta \in F.todo
    BY <1>4 DEF OwedCall
  <2>2. \/ F = Top /\ theta = x
        \/ \E G \in ToSet(stack') : SameCall(F, G) /\ theta \in G.todo
    BY <2>1, DebtsKept
  <2> QED  BY <2>1, <2>2 DEF OwedCall, SameCall
<1>5. ASSUME NEW r, NEW j, NEW theta, NEW ans, OwedAnswer(r, j, theta, ans)
      PROVE  \/ OwedAnswer(r, j, theta, ans)'
             \/ Top.op = "edb" /\ Top.rule = r /\ Top.at = j /\ Top.binding = theta /\ ans = x
  <2>1. PICK F \in ToSet(stack) : /\ F.op = "edb" /\ F.rule = r /\ F.at = j /\ F.binding = theta
                                  /\ ans \in F.todo
    BY <1>5 DEF OwedAnswer
  <2>2. \/ F = Top /\ ans = x
        \/ \E G \in ToSet(stack') : SameCall(F, G) /\ ans \in G.todo
    BY <2>1, DebtsKept
  <2> QED  BY <2>1, <2>2 DEF OwedAnswer, SameCall
<1> QED  BY <1>1, <1>2, <1>3, <1>4, <1>5

LEMMA Pushed ==
    ASSUME Setup, Typed, Running, NEW x, NEW f, NEW g, Proceed(x, f, g), NEW F, F = f \/ F = g
    PROVE  /\ \A r, j, thetas : F = EvaluateFor(r, j, thetas) =>
                 \A theta \in thetas : OwedBinding(r, j, theta)'
           /\ \A r, j, theta : F = Call(r, j, theta) => OwedCall(r, j, theta)'
           /\ \A q : F = AddQuery(q) =>
                 \A r \in program : Passes(QueryTerm(r.head), q) => OwedQuery(q, r)'
           /\ \A v : F = AddFact(v) =>
                 \A r \in program : \A j \in DOMAIN r.body :
                    HasC(r.body[j]) /\ Passes(r.body[j], v) => OwedFact(v, <<r, j>>)'
           /\ \A r, j, theta, q : F = Query(r, j, theta, q) =>
                 \A ans \in Tabled(q) : OwedAnswer(r, j, theta, ans)'
<1>1. \A y \in F.todo : F \in ToSet(stack')
  <2>1. Busy(F) => F \in ToSet(stack')
    BY TopIs, ProceedHas
  <2> QED  BY <2>1 DEF Busy
<1>2. ASSUME NEW r, NEW j, NEW thetas, F = EvaluateFor(r, j, thetas), NEW theta \in thetas
      PROVE  OwedBinding(r, j, theta)'
  <2>1. F.op = "evaluate" /\ F.rule = r /\ F.at = j /\ F.todo = thetas
    BY <1>2 DEF EvaluateFor
  <2> QED  BY <1>1, <1>2, <2>1 DEF OwedBinding
<1>3. ASSUME NEW r, NEW j, NEW theta, F = Call(r, j, theta) PROVE OwedCall(r, j, theta)'
  <2>1. F.op = "call" /\ F.rule = r /\ F.at = j /\ F.todo = {theta}
    BY <1>3 DEF Call
  <2> QED  BY <1>1, <2>1 DEF OwedCall
<1>4. ASSUME NEW q, F = AddQuery(q), NEW r \in program, Passes(QueryTerm(r.head), q)
      PROVE  OwedQuery(q, r)'
  <2>1. /\ F.op = "query" /\ F.query = q
        /\ F.todo = {s \in program : Passes(QueryTerm(s.head), q)}
    BY <1>4 DEF AddQuery
  <2> QED  BY <1>1, <1>4, <2>1 DEF OwedQuery
<1>5. ASSUME NEW v, F = AddFact(v), NEW r \in program, NEW j \in DOMAIN r.body,
             HasC(r.body[j]), Passes(r.body[j], v)
      PROVE  OwedFact(v, <<r, j>>)'
  <2>1. F.op = "fact" /\ F.fact = v /\ <<r, j>> \in F.todo
    BY <1>5 DEF AddFact
  <2> QED  BY <1>1, <2>1 DEF OwedFact
<1>6. ASSUME NEW r, NEW j, NEW theta, NEW q, F = Query(r, j, theta, q), NEW ans \in Tabled(q)
      PROVE  OwedAnswer(r, j, theta, ans)'
  <2>1. PICK todo : todo = Tabled(q)
    OBVIOUS
  <2>2. F.op = "edb" /\ F.rule = r /\ F.at = j /\ F.binding = theta /\ F.todo = todo
    BY <1>6, <2>1 DEF Query
  <2> QED  BY <1>1, <1>6, <2>1, <2>2 DEF OwedAnswer
<1> QED  BY <1>2, <1>3, <1>4, <1>5, <1>6

\* What leaves the parts of the debts as they are.
HaveKept == \A r, j, theta : Have(r, j, theta) => Have(r, j, theta)'
QueriesKept == \A q, r : OwedQuery(q, r) => OwedQuery(q, r)'
FactsKept == \A f, c : OwedFact(f, c) => OwedFact(f, c)'
LiteralsKept == \A r, j, theta : OwedCall(r, j, theta) => OwedCall(r, j, theta)'
RowsKept == \A r, j, theta, ans : OwedAnswer(r, j, theta, ans) => OwedAnswer(r, j, theta, ans)'

LEMMA RunsKept ==
    ASSUME derived' = derived
    PROVE  /\ \A r, j : EndOf(r, j)' = EndOf(r, j)
           /\ \A r, j, theta : ConjunctionAt(r, j, theta)' = ConjunctionAt(r, j, theta)
           /\ \A r, j, theta, ans : With(r, j, theta, ans)' = With(r, j, theta, ans)
           /\ \A r, j, theta, ans : IsYes(r, j, theta, ans)' = IsYes(r, j, theta, ans)
<1>1. \A l : IsBase(l)' = IsBase(l)
  BY DEF IsBase
<1>2. \A r, j : EndOf(r, j)' = EndOf(r, j)
  BY <1>1 DEF EndOf
<1>3. \A r, j, e, theta : Map(LAMBDA l : Ground(l, theta), SubSeq(r.body, j + 1, e))'
                            = Map(LAMBDA l : Ground(l, theta), SubSeq(r.body, j + 1, e))
  BY DEF Map
<1>4. \A r, j, theta : ConjunctionAt(r, j, theta)' = ConjunctionAt(r, j, theta)
  BY <1>2, <1>3 DEF ConjunctionAt, Map
<1> QED  BY <1>2, <1>4 DEF With, IsYes

LEMMA AnswersUsedNext ==
    ASSUME derived' = derived, edb' = edb,
           \A e \in fired_edb_queries' : \A ans \in Results(ConjunctionAt(e[1], e[2], e[3]), edb) :
              \A end, all : /\ IsYes(e[1], e[2], e[3], ans) /\ end = EndOf(e[1], e[2])
                           /\ all = With(e[1], e[2], e[3], ans)
                           => OwedAnswer(e[1], e[2], e[3], ans)' \/ Have(e[1], end, all)'
    PROVE  AnswersUsed'
<1>1. \A p : Results(p, edb)' = Results(p, edb)
  OBVIOUS
<1>2. SUFFICES ASSUME NEW e \in fired_edb_queries',
                      NEW ans \in Results(ConjunctionAt(e[1], e[2], e[3]), edb)',
                      IsYes(e[1], e[2], e[3], ans)',
                      NEW end, end = EndOf(e[1], e[2])', NEW all, all = With(e[1], e[2], e[3], ans)'
               PROVE  OwedAnswer(e[1], e[2], e[3], ans)' \/ Have(e[1], end, all)'
  BY DEF AnswersUsed
<1>3. ans \in Results(ConjunctionAt(e[1], e[2], e[3]), edb) /\ IsYes(e[1], e[2], e[3], ans)
  BY <1>1, <1>2, RunsKept
<1>4. end = EndOf(e[1], e[2]) /\ all = With(e[1], e[2], e[3], ans)
  BY <1>2, RunsKept
<1> QED  BY <1>3, <1>4

LEMMA RulesBegunKept ==
    ASSUME UNCHANGED <<program, queries>>, HaveKept, QueriesKept, RulesBegun
    PROVE  RulesBegun'
BY DEF RulesBegun, HaveKept, QueriesKept

LEMMA FactsJoinedKept ==
    ASSUME UNCHANGED <<evaluated, matched>>, HaveKept, FactsJoined
    PROVE  FactsJoined'
BY DEF FactsJoined, HaveKept

LEMMA PassedOnKept ==
    ASSUME UNCHANGED <<derived, evaluated>>, queries \subseteq queries',
           fired_edb_queries \subseteq fired_edb_queries', LiteralsKept, PassedOn
    PROVE  PassedOn'
BY DEF PassedOn, LiteralsKept, IsBase

LEMMA AnswersUsedKept ==
    ASSUME UNCHANGED <<derived, edb, fired_edb_queries>>, HaveKept, RowsKept, AnswersUsed
    PROVE  AnswersUsed'
<1>1. \A q : Results(q, edb)' = Results(q, edb)
  BY edb' = edb
<1> QED  BY <1>1, RunsKept DEF AnswersUsed, HaveKept, RowsKept

LEMMA HeadsInferredKept ==
    ASSUME UNCHANGED evaluated, inferred_facts \subseteq inferred_facts', HeadsInferred
    PROVE  HeadsInferred'
BY DEF HeadsInferred

LEMMA FactsReachKept ==
    ASSUME UNCHANGED <<program, derived, inferred_facts>>, matched \subseteq matched', FactsKept,
           FactsReach
    PROVE  FactsReach'
BY DEF FactsReach, FactsKept, HasC

LEMMA OthersKept ==
    ASSUME Setup, Typed, Running, NEW x, NEW f, NEW g, Proceed(x, f, g),
           evaluated \subseteq evaluated'
    PROVE  /\ Top.op # "query" => QueriesKept
           /\ Top.op # "fact" => FactsKept
           /\ Top.op # "call" => LiteralsKept
           /\ Top.op # "edb" => RowsKept
           /\ Top.op # "evaluate" \/ <<Top.rule, Top.at, x>> \in evaluated' => HaveKept
<1>1. Top.op # "query" => QueriesKept
  BY OwedKept DEF QueriesKept
<1>2. Top.op # "fact" => FactsKept
  BY OwedKept DEF FactsKept
<1>3. Top.op # "call" => LiteralsKept
  BY OwedKept DEF LiteralsKept
<1>4. Top.op # "edb" => RowsKept
  BY OwedKept DEF RowsKept
<1>5. ASSUME Top.op # "evaluate" \/ <<Top.rule, Top.at, x>> \in evaluated' PROVE HaveKept
  <2>1. SUFFICES ASSUME NEW r, NEW j, NEW theta, Have(r, j, theta) PROVE Have(r, j, theta)'
    BY DEF HaveKept
  <2>2. CASE <<r, j, theta>> \in evaluated
    BY <2>2 DEF Have
  <2>3. CASE OwedBinding(r, j, theta)
    <3>1. \/ OwedBinding(r, j, theta)'
          \/ Top.op = "evaluate" /\ Top.rule = r /\ Top.at = j /\ theta = x
      BY <2>3, OwedKept
    <3> QED  BY <1>5, <3>1 DEF Have
  <2> QED  BY <2>1, <2>2, <2>3 DEF Have
<1> QED  BY <1>1, <1>2, <1>3, <1>4, <1>5

LEMMA StartOwes ==
    ASSUME Setup, Start
    PROVE  Owes'
<1>1. /\ queries' = {TopQuery} /\ stack' = Push(AddQuery(TopQuery), <<>>) /\ outcome = "idle"
      /\ UNCHANGED <<inferred_facts, evaluated, matched, fired_edb_queries, adornVars>>
  BY DEF Start
<1>2. /\ inferred_facts' = {} /\ evaluated' = {} /\ matched' = {} /\ fired_edb_queries' = {}
      /\ program' = program
  BY <1>1 DEF Setup, OneGoal, KnowsNothing, adornVars
<1>3. RulesBegun'
  <2>1. PICK q, F : q = TopQuery /\ F = AddQuery(TopQuery)
    OBVIOUS
  <2>2. <<>> \in Seq(ToSet(<<>>)) /\ ToSet(<<>>) = {}
    BY DEF ToSet
  <2>3. Busy(F) => F \in ToSet(stack')
    BY <1>1, <2>1, <2>2, PushHas
  <2>4. F.op = "query" /\ F.query = q /\ F.todo = {r \in program : Passes(QueryTerm(r.head), q)}
    BY <2>1 DEF AddQuery
  <2>5. \A r \in program : Passes(QueryTerm(r.head), q) => OwedQuery(q, r)'
    BY <2>3, <2>4 DEF OwedQuery, Busy
  <2> QED  BY <1>1, <1>2, <2>1, <2>5 DEF RulesBegun
<1> QED  BY <1>2, <1>3 DEF Owes, FactsJoined, PassedOn, AnswersUsed, HeadsInferred, FactsReach

LEMMA BeginRuleOwes ==
    ASSUME Setup, Typed, Owes, BeginRule
    PROVE  Owes'
<1>1. In("query") /\ UNCHANGED <<edb, memVars, adornVars>>
  BY DEF BeginRule
<1>0. /\ UNCHANGED <<program, derived, edb, queries, evaluated, matched, inferred_facts>>
      /\ UNCHANGED fired_edb_queries
  BY <1>1 DEF memVars, adornVars
<1>2. PICK s \in Top.todo :
         Proceed(s, EvaluateFor(s, 0, {BoundBy(QueryTerm(s.head), Top.query)}), NoCall)
  BY DEF BeginRule
<1>3. Running /\ Top.op = "query"
  BY <1>1 DEF In
<1>10. PICK asked : asked = Top.query
  OBVIOUS
<1>11. PICK theta : theta = BoundBy(QueryTerm(s.head), asked)
  OBVIOUS
<1>4. PICK f : f = EvaluateFor(s, 0, {theta})
  OBVIOUS
<1>5. Proceed(s, f, NoCall)
  BY <1>2, <1>4, <1>10, <1>11
<1>6. HaveKept /\ FactsKept /\ LiteralsKept /\ RowsKept
  BY <1>0, <1>3, <1>5, OthersKept
<1>7. OwedBinding(s, 0, theta)'
  BY <1>3, <1>4, <1>5, Pushed
<1>8. RulesBegun'
  <2>1. SUFFICES ASSUME NEW q \in queries, NEW r \in program, Passes(QueryTerm(r.head), q)
                 PROVE  (OwedQuery(q, r) \/ Have(r, 0, BoundBy(QueryTerm(r.head), q)))'
    BY <1>0 DEF RulesBegun
  <2>2. CASE Have(r, 0, BoundBy(QueryTerm(r.head), q))
    BY <1>6, <2>2 DEF HaveKept
  <2>3. CASE OwedQuery(q, r)
    <3>1. OwedQuery(q, r)' \/ (asked = q /\ r = s)
      BY <1>3, <1>5, <1>10, <2>3, OwedKept
    <3> QED  BY <1>7, <1>11, <3>1 DEF Have
  <2> QED  BY <2>1, <2>2, <2>3 DEF Owes, RulesBegun
<1> QED  BY <1>0, <1>6, <1>8, FactsJoinedKept, PassedOnKept, AnswersUsedKept, HeadsInferredKept,
         FactsReachKept DEF Owes

LEMMA JoinFactOwes ==
    ASSUME Setup, Typed, Owes, JoinFact
    PROVE  Owes'
<1>1. /\ In("fact")
      /\ UNCHANGED <<edb, queries, inferred_facts, evaluated, fired_edb_queries, adornVars>>
  BY DEF JoinFact
<1>0. UNCHANGED <<program, derived, edb, queries, evaluated, inferred_facts, fired_edb_queries>>
  BY <1>1 DEF adornVars
<1>2. FactCall(Top) /\ Running /\ Top.op = "fact"
  BY <1>1, TopCall DEF In
<1>3. PICK F : F = Top
  OBVIOUS
<1> DEFINE Met(c, phi) == {x \in evaluated : /\ x[1] = c[1] /\ x[2] = c[2] - 1
                                             /\ Agrees(x[3], phi)}
<1>4. PICK c \in F.todo : \E phi \in {BoundBy(c[1].body[c[2]], F.fact)} :
         /\ matched' = matched \cup {<<c[1], c[2], F.fact>>}
         /\ Proceed(c, EvaluateFor(c[1], c[2], {Merge(e[3], phi) : e \in Met(c, phi)}), NoCall)
  BY <1>3 DEF JoinFact
<1>5. PICK r, j, v, phi : r = c[1] /\ j = c[2] /\ v = F.fact /\ phi = BoundBy(r.body[j], v)
  OBVIOUS
<1>6. PICK S : S = {Merge(e[3], phi) : e \in Met(c, phi)}
  OBVIOUS
<1>7. PICK f : f = EvaluateFor(r, j, S)
  OBVIOUS
<1>8. matched' = matched \cup {<<r, j, v>>} /\ Proceed(c, f, NoCall)
  BY <1>4, <1>5, <1>6, <1>7
<1>9. HaveKept /\ QueriesKept /\ LiteralsKept /\ RowsKept
  BY <1>0, <1>2, <1>8, OthersKept
<1>10. \A theta \in S : OwedBinding(r, j, theta)'
  BY <1>2, <1>7, <1>8, Pushed
<1>11. FactsJoined'
  <2>1. SUFFICES ASSUME NEW e \in evaluated, NEW m \in matched', e[1] = m[1], m[2] = e[2] + 1,
                        Agrees(e[3], BoundBy(m[1].body[m[2]], m[3]))
                 PROVE  Have(m[1], m[2], Merge(e[3], BoundBy(m[1].body[m[2]], m[3])))'
    BY <1>0 DEF FactsJoined
  <2>2. CASE m \in matched
    BY <1>9, <2>1, <2>2 DEF Owes, FactsJoined, HaveKept
  <2>3. CASE m = <<r, j, v>>
    <3>1. m[1] = r /\ m[2] = j /\ m[3] = v
      BY <2>3
    <3>2. e[2] = j - 1
      <4>1. e[2] \in Nat
        <5>1. IsEvaluated(e)
          BY DEF Typed
        <5> QED  BY <5>1 DEF IsEvaluated
      <4> QED  BY <2>1, <3>1, <4>1
    <3>3. e \in Met(c, phi)
      BY <1>5, <2>1, <3>1, <3>2
    <3>4. PICK all : all = Merge(e[3], phi)
      OBVIOUS
    <3>5. all \in S
      BY <1>6, <3>3, <3>4
    <3>6. Have(r, j, all)'
      BY <1>10, <3>5 DEF Have
    <3>7. Merge(e[3], BoundBy(m[1].body[m[2]], m[3])) = all
      BY <1>5, <3>1, <3>4
    <3> QED  BY <3>1, <3>6, <3>7
  <2> QED  BY <1>8, <2>2, <2>3
<1>12. FactsReach'
  <2>1. SUFFICES ASSUME NEW w \in inferred_facts, NEW s \in program, NEW k \in DOMAIN s.body,
                        HasC(s.body[k]), Passes(s.body[k], w)
                 PROVE  <<s, k, w>> \in matched' \/ OwedFact(w, <<s, k>>)'
    BY <1>0 DEF FactsReach, HasC
  <2>2. CASE <<s, k, w>> \in matched
    BY <1>8, <2>2
  <2>3. CASE OwedFact(w, <<s, k>>)
    <3>1. OwedFact(w, <<s, k>>)' \/ (Top.fact = w /\ <<s, k>> = c)
      BY <1>2, <1>8, <2>3, OwedKept
    <3>2. <<s, k>> = c /\ Top.fact = w => <<s, k, w>> = <<r, j, v>>
      BY <1>3, <1>5
    <3> QED  BY <1>8, <3>1, <3>2
  <2> QED  BY <2>1, <2>2, <2>3 DEF Owes, FactsReach
<1> QED  BY <1>0, <1>9, <1>11, <1>12, RulesBegunKept, PassedOnKept, AnswersUsedKept,
         HeadsInferredKept DEF Owes

LEMMA EvaluateBodyOwes ==
    ASSUME Setup, Typed, Owes, EvaluateBody
    PROVE  Owes'
<1>1. /\ In("evaluate")
      /\ UNCHANGED <<edb, queries, inferred_facts, matched, fired_edb_queries, adornVars>>
  BY DEF EvaluateBody
<1>0. UNCHANGED <<program, derived, edb, queries, matched, inferred_facts, fired_edb_queries>>
  BY <1>1 DEF adornVars
<1>2. EvaluateCall(Top) /\ answered # <<>> /\ Running /\ Top.op = "evaluate"
  BY <1>1, TopCall DEF In
<1>3. PICK F : F = Top
  OBVIOUS
<1>4. PICK r, j, k : r = F.rule /\ j = F.at /\ k = j + 1
  OBVIOUS
<1>5. j < Len(r.body) /\ j \in Nat /\ Len(r.body) \in Nat
  <2>1. r \in program /\ j \in 0 .. Len(r.body) /\ j < Len(r.body)
    BY <1>2, <1>3, <1>4 DEF EvaluateCall, EvaluateBody
  <2>2. IsAdRule(r)
    BY <1>2, <2>1, ProgramIs
  <2> QED  BY <2>1, <2>2 DEF IsAdRule
<1>6. PICK theta \in F.todo :
         /\ evaluated' = evaluated \cup {<<r, j, theta>>}
         /\ Proceed(theta, EvaluateFor(r, j + 1, Known(r, j + 1, theta)), Call(r, j, theta))
  BY <1>3, <1>4 DEF EvaluateBody
<1>7. PICK S : S = Known(r, k, theta)
  OBVIOUS
<1>8. PICK f, g : f = EvaluateFor(r, k, S) /\ g = Call(r, j, theta)
  OBVIOUS
<1>9. Proceed(theta, f, g)
  BY <1>4, <1>6, <1>7, <1>8
<1>10. HaveKept /\ QueriesKept /\ FactsKept /\ LiteralsKept /\ RowsKept
  <2>1. <<Top.rule, Top.at, theta>> \in evaluated'
    BY <1>3, <1>4, <1>6
  <2> QED  BY <1>2, <1>6, <1>9, <2>1, OthersKept
<1>11. OwedCall(r, j, theta)' /\ \A all \in S : OwedBinding(r, k, all)'
  BY <1>2, <1>8, <1>9, Pushed
<1>12. \A e \in evaluated' : e \in evaluated \/ (e[1] = r /\ e[2] = j /\ e[3] = theta)
  BY <1>6
<1>13. FactsJoined'
  <2>1. SUFFICES ASSUME NEW e \in evaluated', NEW m \in matched, e[1] = m[1], m[2] = e[2] + 1,
                        Agrees(e[3], BoundBy(m[1].body[m[2]], m[3]))
                 PROVE  Have(m[1], m[2], Merge(e[3], BoundBy(m[1].body[m[2]], m[3])))'
    BY <1>0 DEF FactsJoined
  <2>2. CASE e \in evaluated
    BY <1>10, <2>1, <2>2 DEF Owes, FactsJoined, HaveKept
  <2>3. CASE e[1] = r /\ e[2] = j /\ e[3] = theta
    <3>1. m[1] = r /\ m[2] = k /\ Agrees(theta, BoundBy(r.body[k], m[3]))
      BY <1>4, <2>1, <2>3
    <3>2. PICK all : all = Merge(theta, BoundBy(r.body[k], m[3]))
      OBVIOUS
    <3>3. all \in S
      BY <1>7, <3>1, <3>2 DEF Known
    <3>4. Have(r, k, all)'
      BY <1>11, <3>3 DEF Have
    <3>5. Merge(e[3], BoundBy(m[1].body[m[2]], m[3])) = all
      BY <2>3, <3>1, <3>2
    <3> QED  BY <3>1, <3>4, <3>5
  <2> QED  BY <1>12, <2>2, <2>3
<1>14. PassedOn'
  <2>1. \A e \in evaluated : e[2] < Len(e[1].body) =>
            \/ OwedCall(e[1], e[2], e[3])'
            \/ IF IsBase(e[1].body[e[2] + 1]) THEN e \in fired_edb_queries
               ELSE LET q == Ground(QueryTerm(e[1].body[e[2] + 1]), e[3])
                    IN  IsGround(q) => Fact(q) \in queries
    BY <1>10 DEF Owes, PassedOn, LiteralsKept
  <2>2. \A e : e[1] = r /\ e[2] = j /\ e[3] = theta => OwedCall(e[1], e[2], e[3])'
    BY <1>11
  <2>3. SUFFICES ASSUME NEW e \in evaluated', e[2] < Len(e[1].body)
                 PROVE  \/ OwedCall(e[1], e[2], e[3])'
                        \/ IF IsBase(e[1].body[e[2] + 1]) THEN e \in fired_edb_queries
                           ELSE LET q == Ground(QueryTerm(e[1].body[e[2] + 1]), e[3])
                                IN  IsGround(q) => Fact(q) \in queries
    BY <1>0 DEF PassedOn, IsBase
  <2> QED  BY <1>12, <2>1, <2>2, <2>3
<1>15. HeadsInferred'
  <2>1. \A e : e[1] = r /\ e[2] = j => e[2] # Len(e[1].body)
    BY <1>5
  <2> QED  BY <1>0, <1>12, <2>1 DEF Owes, HeadsInferred
<1> QED  BY <1>0, <1>10, <1>13, <1>14, <1>15, RulesBegunKept, AnswersUsedKept, FactsReachKept
         DEF Owes

LEMMA EvaluateHeadOwes ==
    ASSUME Setup, Typed, Owes, EvaluateHead
    PROVE  Owes'
<1>1. In("evaluate") /\ UNCHANGED <<edb, queries, matched, fired_edb_queries, adornVars>>
  BY DEF EvaluateHead
<1>0. UNCHANGED <<program, derived, edb, queries, matched, fired_edb_queries>>
  BY <1>1 DEF adornVars
<1>2. EvaluateCall(Top) /\ answered # <<>> /\ Running /\ Top.op = "evaluate"
  BY <1>1, TopCall DEF In
<1>3. PICK F : F = Top
  OBVIOUS
<1>4. PICK r, j : r = F.rule /\ j = F.at
  OBVIOUS
<1>5. j = Len(r.body) /\ j \in Nat /\ DOMAIN r.body = 1 .. j
  <2>1. r \in program /\ j = Len(r.body)
    BY <1>2, <1>3, <1>4 DEF EvaluateCall, EvaluateHead
  <2>2. IsAdRule(r)
    BY <1>2, <2>1, ProgramIs
  <2> QED  BY <2>1, <2>2 DEF IsAdRule
<1>6. PICK theta \in F.todo : \E f \in {Ground(r.head, theta)} :
         /\ evaluated' = evaluated \cup {<<r, j, theta>>}
         /\ IF IsNewHead(f)
              THEN /\ inferred_facts' = inferred_facts \cup {Fact(f)}
                   /\ Proceed(theta, AddFact(Fact(f)), Conclude(SolutionBy(r, theta)))
              ELSE /\ Proceed(theta, NoCall, NoCall)
                   /\ inferred_facts' = inferred_facts
  BY <1>3, <1>4 DEF EvaluateHead
<1>7. PICK h, x : h = Ground(r.head, theta) /\ x = Fact(h)
  OBVIOUS
<1>8. \E f, g : /\ Proceed(theta, f, g)
                /\ \/ inferred_facts' = inferred_facts /\ (IsGround(h) => x \in inferred_facts)
                   \/ inferred_facts' = inferred_facts \cup {x} /\ f = AddFact(x)
  BY <1>6, <1>7 DEF IsNewHead
<1>9. PICK f, g : /\ Proceed(theta, f, g)
                  /\ \/ inferred_facts' = inferred_facts /\ (IsGround(h) => x \in inferred_facts)
                     \/ inferred_facts' = inferred_facts \cup {x} /\ f = AddFact(x)
  BY <1>8
<1>10. HaveKept /\ QueriesKept /\ FactsKept /\ LiteralsKept /\ RowsKept
  <2>1. <<Top.rule, Top.at, theta>> \in evaluated'
    BY <1>3, <1>4, <1>6
  <2> QED  BY <1>2, <1>6, <1>9, <2>1, OthersKept
<1>12. \A e \in evaluated' : e \in evaluated \/ (e[1] = r /\ e[2] = j /\ e[3] = theta)
  BY <1>6
<1>13. FactsJoined'
  <2>1. SUFFICES ASSUME NEW e \in evaluated', NEW m \in matched, e[1] = m[1], m[2] = e[2] + 1,
                        Agrees(e[3], BoundBy(m[1].body[m[2]], m[3]))
                 PROVE  Have(m[1], m[2], Merge(e[3], BoundBy(m[1].body[m[2]], m[3])))'
    BY <1>0 DEF FactsJoined
  <2>2. CASE e \in evaluated
    BY <1>10, <2>1, <2>2 DEF Owes, FactsJoined, HaveKept
  <2>3. CASE e[1] = r /\ e[2] = j
    <3>1. m[2] \in DOMAIN m[1].body
      <4>1. IsMatched(m)
        BY DEF Typed
      <4> QED  BY <4>1 DEF IsMatched
    <3> QED  BY <1>5, <2>1, <2>3, <3>1
  <2> QED  BY <1>12, <2>2, <2>3
<1>14. PassedOn'
  <2>1. \A e \in evaluated : e[2] < Len(e[1].body) =>
            \/ OwedCall(e[1], e[2], e[3])'
            \/ IF IsBase(e[1].body[e[2] + 1]) THEN e \in fired_edb_queries
               ELSE LET q == Ground(QueryTerm(e[1].body[e[2] + 1]), e[3])
                    IN  IsGround(q) => Fact(q) \in queries
    BY <1>10 DEF Owes, PassedOn, LiteralsKept
  <2>2. \A e : e[1] = r /\ e[2] = j => ~(e[2] < Len(e[1].body))
    BY <1>5
  <2>3. SUFFICES ASSUME NEW e \in evaluated', e[2] < Len(e[1].body)
                 PROVE  \/ OwedCall(e[1], e[2], e[3])'
                        \/ IF IsBase(e[1].body[e[2] + 1]) THEN e \in fired_edb_queries
                           ELSE LET q == Ground(QueryTerm(e[1].body[e[2] + 1]), e[3])
                                IN  IsGround(q) => Fact(q) \in queries
    BY <1>0 DEF PassedOn, IsBase
  <2> QED  BY <1>12, <2>1, <2>2, <2>3
<1>15. HeadsInferred'
  <2>1. SUFFICES ASSUME NEW e \in evaluated', e[2] = Len(e[1].body), IsGround(Ground(e[1].head, e[3]))
                 PROVE  Instance(e[1].head, e[3]) \in inferred_facts'
    BY DEF HeadsInferred
  <2>2. CASE e \in evaluated
    BY <1>9, <2>1, <2>2 DEF Owes, HeadsInferred
  <2>3. CASE e[1] = r /\ e[3] = theta
    <3>1. IsGround(h) /\ Instance(e[1].head, e[3]) = x
      BY <1>7, <2>1, <2>3 DEF Instance
    <3> QED  BY <1>9, <3>1
  <2> QED  BY <1>12, <2>2, <2>3
<1>16. FactsReach'
  <2>1. SUFFICES ASSUME NEW w \in inferred_facts', NEW s \in program, NEW k \in DOMAIN s.body,
                        HasC(s.body[k]), Passes(s.body[k], w)
                 PROVE  <<s, k, w>> \in matched \/ OwedFact(w, <<s, k>>)'
    BY <1>0 DEF FactsReach, HasC
  <2>2. CASE w \in inferred_facts
    BY <1>10, <2>1, <2>2 DEF Owes, FactsReach, FactsKept
  <2>3. CASE w = x /\ f = AddFact(x)
    BY <1>2, <1>9, <2>1, <2>3, Pushed
  <2> QED  BY <1>9, <2>2, <2>3
<1> QED  BY <1>0, <1>10, <1>13, <1>14, <1>15, <1>16, RulesBegunKept, AnswersUsedKept DEF Owes

LEMMA SubqueryOwes ==
    ASSUME Setup, Typed, Owes, Subquery
    PROVE  Owes'
<1>1. /\ In("call") /\ ~IsBase(Top.rule.body[Top.at + 1])
      /\ UNCHANGED <<edb, inferred_facts, evaluated, matched, fired_edb_queries, adornVars>>
  BY DEF Subquery
<1>0. UNCHANGED <<program, derived, edb, evaluated, matched, inferred_facts, fired_edb_queries>>
  BY <1>1 DEF adornVars
<1>2. Running /\ Top.op = "call"
  BY <1>1 DEF In
<1>3. PICK F : F = Top
  OBVIOUS
<1>4. PICK r, j : r = F.rule /\ j = F.at
  OBVIOUS
<1>5. PICK theta \in F.todo : \E q \in {Ground(QueryTerm(r.body[j + 1]), theta)} :
         IF IsGround(q) /\ Fact(q) \notin queries
           THEN queries' = queries \cup {Fact(q)} /\ Proceed(theta, AddQuery(Fact(q)), Conclude({}))
           ELSE Proceed(theta, NoCall, NoCall) /\ UNCHANGED queries
  BY <1>3, <1>4 DEF Subquery
<1>6. PICK q, x : q = Ground(QueryTerm(r.body[j + 1]), theta) /\ x = Fact(q)
  OBVIOUS
<1>7. \E f, g : /\ Proceed(theta, f, g)
                /\ \/ queries' = queries /\ (IsGround(q) => x \in queries)
                   \/ queries' = queries \cup {x} /\ f = AddQuery(x)
  BY <1>5, <1>6
<1>8. PICK f, g : /\ Proceed(theta, f, g)
                  /\ \/ queries' = queries /\ (IsGround(q) => x \in queries)
                     \/ queries' = queries \cup {x} /\ f = AddQuery(x)
  BY <1>7
<1>9. HaveKept /\ QueriesKept /\ FactsKept /\ RowsKept
  BY <1>0, <1>2, <1>8, OthersKept
<1>10. RulesBegun'
  <2>1. SUFFICES ASSUME NEW p \in queries', NEW s \in program, Passes(QueryTerm(s.head), p)
                 PROVE  OwedQuery(p, s)' \/ Have(s, 0, BoundBy(QueryTerm(s.head), p))'
    BY <1>0 DEF RulesBegun
  <2>2. CASE p \in queries
    BY <1>9, <2>1, <2>2 DEF Owes, RulesBegun, HaveKept, QueriesKept
  <2>3. CASE p = x /\ f = AddQuery(x)
    BY <1>2, <1>8, <2>1, <2>3, Pushed
  <2> QED  BY <1>8, <2>2, <2>3
<1>11. PassedOn'
  <2>1. SUFFICES ASSUME NEW e \in evaluated, e[2] < Len(e[1].body)
                 PROVE  \/ OwedCall(e[1], e[2], e[3])'
                        \/ IF IsBase(e[1].body[e[2] + 1]) THEN e \in fired_edb_queries
                           ELSE LET p == Ground(QueryTerm(e[1].body[e[2] + 1]), e[3])
                                IN  IsGround(p) => Fact(p) \in queries'
    BY <1>0 DEF PassedOn, IsBase
  <2>2. PICK s, k, phi : s = e[1] /\ k = e[2] /\ phi = e[3]
    OBVIOUS
  <2>3. \/ OwedCall(s, k, phi)
        \/ IF IsBase(s.body[k + 1]) THEN e \in fired_edb_queries
           ELSE LET p == Ground(QueryTerm(s.body[k + 1]), phi)
                IN  IsGround(p) => Fact(p) \in queries
    BY <2>1, <2>2 DEF Owes, PassedOn
  <2>4. CASE OwedCall(s, k, phi)
    <3>1. OwedCall(s, k, phi)' \/ (s = r /\ k = j /\ phi = theta)
      BY <1>2, <1>3, <1>4, <1>8, <2>4, OwedKept
    <3>2. CASE s = r /\ k = j /\ phi = theta
      <4>1. ~IsBase(s.body[k + 1])
        BY <1>1, <1>3, <1>4, <3>2
      <4>2. IsGround(q) => x \in queries'
        BY <1>8
      <4> QED  BY <1>6, <2>2, <3>2, <4>1, <4>2
    <3> QED  BY <2>2, <3>1, <3>2
  <2>5. queries \subseteq queries'
    BY <1>8
  <2> QED  BY <2>2, <2>3, <2>4, <2>5
<1> QED  BY <1>0, <1>9, <1>10, <1>11, FactsJoinedKept, AnswersUsedKept, HeadsInferredKept,
         FactsReachKept DEF Owes

LEMMA QueryBaseOwes ==
    ASSUME Setup, Typed, CacheHolds, Owes, QueryBase
    PROVE  Owes'
<1>1. /\ In("call") /\ IsBase(Top.rule.body[Top.at + 1])
      /\ UNCHANGED <<edb, tabled, queries, inferred_facts, evaluated, matched, adornVars>>
  BY DEF QueryBase
<1>0. UNCHANGED <<program, derived, edb, queries, evaluated, matched, inferred_facts>>
  BY <1>1 DEF adornVars
<1>2. Running /\ Top.op = "call"
  BY <1>1 DEF In
<1>3. PICK F : F = Top
  OBVIOUS
<1>4. PICK r, j : r = F.rule /\ j = F.at
  OBVIOUS
<1>5. PICK theta \in F.todo : \E key \in {<<r, j, theta>>} : \E q \in {ConjunctionAt(r, j, theta)} :
         /\ fired_edb_queries' = fired_edb_queries \cup {key}
         /\ Proceed(theta, IF key \in fired_edb_queries THEN NoCall ELSE Query(r, j, theta, q), NoCall)
  BY <1>3, <1>4 DEF QueryBase
<1>6. PICK q, key : q = ConjunctionAt(r, j, theta) /\ key = <<r, j, theta>>
  OBVIOUS
<1>7. PICK f : f = IF key \in fired_edb_queries THEN NoCall ELSE Query(r, j, theta, q)
  OBVIOUS
<1>8. fired_edb_queries' = fired_edb_queries \cup {key} /\ Proceed(theta, f, NoCall)
  BY <1>5, <1>6, <1>7
<1>9. HaveKept /\ QueriesKept /\ FactsKept /\ RowsKept
  BY <1>0, <1>2, <1>8, OthersKept
<1>10. PassedOn'
  <2>1. SUFFICES ASSUME NEW e \in evaluated, e[2] < Len(e[1].body)
                 PROVE  \/ OwedCall(e[1], e[2], e[3])'
                        \/ IF IsBase(e[1].body[e[2] + 1]) THEN e \in fired_edb_queries'
                           ELSE LET p == Ground(QueryTerm(e[1].body[e[2] + 1]), e[3])
                                IN  IsGround(p) => Fact(p) \in queries
    BY <1>0 DEF PassedOn, IsBase
  <2>2. PICK s, k, phi : s = e[1] /\ k = e[2] /\ phi = e[3]
    OBVIOUS
  <2>3. \/ OwedCall(s, k, phi)
        \/ IF IsBase(s.body[k + 1]) THEN e \in fired_edb_queries
           ELSE LET p == Ground(QueryTerm(s.body[k + 1]), phi)
                IN  IsGround(p) => Fact(p) \in queries
    BY <2>1, <2>2 DEF Owes, PassedOn
  <2>4. CASE OwedCall(s, k, phi)
    <3>1. OwedCall(s, k, phi)' \/ (s = r /\ k = j /\ phi = theta)
      BY <1>2, <1>3, <1>4, <1>8, <2>4, OwedKept
    <3>2. CASE s = r /\ k = j /\ phi = theta
      <4>1. IsBase(s.body[k + 1])
        BY <1>1, <1>3, <1>4, <3>2
      <4>2. e = <<s, k, phi>>
        <5>1. IsEvaluated(e)
          BY DEF Typed
        <5> QED  BY <2>2, <5>1 DEF IsEvaluated
      <4>3. e \in fired_edb_queries'
        BY <1>6, <1>8, <3>2, <4>2
      <4> QED  BY <2>2, <4>1, <4>3
    <3> QED  BY <2>2, <3>1, <3>2
  <2>5. fired_edb_queries \subseteq fired_edb_queries'
    BY <1>8
  <2> QED  BY <2>2, <2>3, <2>4, <2>5
<1>11. AnswersUsed'
  <2>2. SUFFICES ASSUME NEW e \in fired_edb_queries',
                        NEW ans \in Results(ConjunctionAt(e[1], e[2], e[3]), edb),
                        IsYes(e[1], e[2], e[3], ans), NEW end, end = EndOf(e[1], e[2]),
                        NEW all, all = With(e[1], e[2], e[3], ans)
                 PROVE  OwedAnswer(e[1], e[2], e[3], ans)' \/ Have(e[1], end, all)'
    BY <1>0, AnswersUsedNext
  <2>3. CASE e \in fired_edb_queries
    BY <1>9, <2>2, <2>3 DEF Owes, AnswersUsed, HaveKept, RowsKept
  <2>4. CASE e = key /\ key \notin fired_edb_queries
    <3>1. e[1] = r /\ e[2] = j /\ e[3] = theta
      BY <1>6, <2>4
    <3>2. f = Query(r, j, theta, q)
      BY <1>7, <2>4
    <3>3. Tabled(q) = Results(q, edb)
      BY <1>1, <1>3, <1>4, <1>5, <1>6, <2>4 DEF CacheHolds
    <3>4. ans \in Tabled(q)
      BY <1>6, <2>2, <3>1, <3>3
    <3>5. OwedAnswer(r, j, theta, ans)'
      BY <1>2, <1>8, <3>2, <3>4, Pushed
    <3> QED  BY <3>1, <3>5
  <2> QED  BY <1>8, <2>3, <2>4
<1> QED  BY <1>0, <1>9, <1>10, <1>11, RulesBegunKept, FactsJoinedKept, HeadsInferredKept,
         FactsReachKept DEF Owes

LEMMA NextAnswerOwes ==
    ASSUME Setup, Typed, Owes, NextAnswer
    PROVE  Owes'
<1>1. In("edb") /\ UNCHANGED <<edb, memVars, adornVars>>
  BY DEF NextAnswer
<1>0. /\ UNCHANGED <<program, derived, edb, queries, evaluated, matched, inferred_facts>>
      /\ UNCHANGED fired_edb_queries
  BY <1>1 DEF adornVars, memVars
<1>2. BaseCall(Top) /\ Running /\ Top.op = "edb"
  BY <1>1, TopCall DEF In
<1>3. PICK F : F = Top
  OBVIOUS
<1>4. PICK r, j, binding, q : r = F.rule /\ j = F.at /\ binding = F.binding /\ q = F.query
  OBVIOUS
<1>5. q = ConjunctionAt(r, j, binding)
  BY <1>2, <1>3, <1>4 DEF BaseCall
<1>6. PICK ans \in F.todo : \E theta \in IF VarsOfAll(q) # {} THEN {Merge(binding, ans)}
                                        ELSE IF ans THEN {binding} ELSE {<<>>} :
          IF VarsOfAll(q) = {} /\ ~ans THEN Proceed(ans, NoCall, NoCall)
          ELSE Proceed(ans, AddFacts(Map(LAMBDA l : Fact(Ground(l, theta)), q)),
                            EvaluateFor(r, EndOf(r, j), {theta}))
  BY <1>3, <1>4 DEF NextAnswer
<1>7. PICK theta \in IF VarsOfAll(q) # {} THEN {Merge(binding, ans)}
                     ELSE IF ans THEN {binding} ELSE {<<>>} :
          IF VarsOfAll(q) = {} /\ ~ans THEN Proceed(ans, NoCall, NoCall)
          ELSE Proceed(ans, AddFacts(Map(LAMBDA l : Fact(Ground(l, theta)), q)),
                            EvaluateFor(r, EndOf(r, j), {theta}))
  BY <1>6
<1>8. PICK e : e = EndOf(r, j)
  OBVIOUS
<1>9. \E f, g : /\ Proceed(ans, f, g)
                /\ IsYes(r, j, binding, ans) =>
                      g = EvaluateFor(r, e, {theta}) /\ theta = With(r, j, binding, ans)
  <2>1. CASE VarsOfAll(q) = {} /\ ~ans
    BY <1>5, <1>7, <2>1 DEF IsYes
  <2>2. CASE ~(VarsOfAll(q) = {} /\ ~ans)
    <3>1. PICK f, g : /\ f = AddFacts(FactsFor(q, theta))
                      /\ g = EvaluateFor(r, e, {theta})
      OBVIOUS
    <3>2. Proceed(ans, f, g)
      BY <1>7, <1>8, <2>2, <3>1 DEF FactsFor
    <3>3. theta = With(r, j, binding, ans)
      BY <1>5, <1>7, <2>2 DEF With
    <3> QED  BY <3>1, <3>2, <3>3
  <2> QED  BY <2>1, <2>2
<1>10. PICK f, g : /\ Proceed(ans, f, g)
                   /\ IsYes(r, j, binding, ans) =>
                         g = EvaluateFor(r, e, {theta}) /\ theta = With(r, j, binding, ans)
  BY <1>9
<1>11. HaveKept /\ QueriesKept /\ FactsKept /\ LiteralsKept
  BY <1>0, <1>2, <1>10, OthersKept
<1>12. AnswersUsed'
  <2>2. SUFFICES ASSUME NEW k \in fired_edb_queries,
                        NEW a \in Results(ConjunctionAt(k[1], k[2], k[3]), edb),
                        IsYes(k[1], k[2], k[3], a), NEW end, end = EndOf(k[1], k[2]),
                        NEW all, all = With(k[1], k[2], k[3], a)
                 PROVE  OwedAnswer(k[1], k[2], k[3], a)' \/ Have(k[1], end, all)'
    BY <1>0, AnswersUsedNext
  <2>3. OwedAnswer(k[1], k[2], k[3], a) \/ Have(k[1], end, all)
    BY <2>2 DEF Owes, AnswersUsed
  <2>4. CASE OwedAnswer(k[1], k[2], k[3], a)
    <3>1. \/ OwedAnswer(k[1], k[2], k[3], a)'
          \/ k[1] = r /\ k[2] = j /\ k[3] = binding /\ a = ans
      BY <1>2, <1>3, <1>4, <1>10, <2>4, OwedKept
    <3>2. CASE k[1] = r /\ k[2] = j /\ k[3] = binding /\ a = ans
      <4>1. g = EvaluateFor(r, e, {theta}) /\ theta = all /\ e = end
        BY <1>8, <1>10, <2>2, <3>2
      <4>2. OwedBinding(r, e, theta)'
        BY <1>2, <1>10, <4>1, Pushed
      <4> QED  BY <3>2, <4>1, <4>2 DEF Have
    <3> QED  BY <3>1, <3>2
  <2> QED  BY <1>11, <2>3, <2>4 DEF HaveKept
<1> QED  BY <1>0, <1>11, <1>12, RulesBegunKept, FactsJoinedKept, PassedOnKept, HeadsInferredKept,
         FactsReachKept DEF Owes

LEMMA QuietOwes ==
    ASSUME Setup, Typed, Owes, NextFact \/ ConcludeStep, outcome' # "raised"
    PROVE  Owes'
<1>1. /\ Running /\ Top.op \in {"facts", "conclude"}
      /\ UNCHANGED <<edb, queries, inferred_facts, evaluated, matched, fired_edb_queries, adornVars>>
  BY DEF NextFact, ConcludeStep, In, memVars
<1>0. /\ UNCHANGED <<program, derived, edb, queries, evaluated, matched, inferred_facts>>
      /\ UNCHANGED fired_edb_queries
  BY <1>1 DEF adornVars
<1>2. PICK x, f, g : Proceed(x, f, g)
  BY DEF NextFact, ConcludeStep
<1>3. HaveKept /\ QueriesKept /\ FactsKept /\ LiteralsKept /\ RowsKept
  BY <1>0, <1>1, <1>2, OthersKept
<1> QED  BY <1>0, <1>3, RulesBegunKept, FactsJoinedKept, PassedOnKept, AnswersUsedKept,
         HeadsInferredKept, FactsReachKept DEF Owes

\* Unless InferredGoal left the calls, everything owed is done or waits.
OwesInv == answered # <<>> /\ outcome \in {"running", "returned"} => Owes

LEMMA OwesStep ==
    ASSUME Setup, Typed, CacheHolds, OwesInv, [StoreNext]_storeAll
    PROVE  OwesInv'
<1>1. CASE ProcedureStep
  <2>1. SUFFICES ASSUME outcome' # "raised" PROVE Owes'
    BY <1>1 DEF OwesInv
  <2>2. CASE Start
    BY <2>2, StartOwes
  <2>3. CASE ~Start
    <3>1. Running /\ answered # <<>>
      BY <1>1, <2>3, PosedKept, ProcedureQuiet DEF ProcedureStep, BeginRule, JoinFact, EvaluateBody,
         EvaluateHead, Subquery, QueryBase, NextAnswer, NextFact, ConcludeStep, In
    <3>2. Owes
      BY <3>1 DEF OwesInv, Running
    <3> QED  BY <1>1, <2>1, <2>3, <3>2, BeginRuleOwes, JoinFactOwes, EvaluateBodyOwes, EvaluateHeadOwes,
             SubqueryOwes, QueryBaseOwes, NextAnswerOwes, QuietOwes DEF ProcedureStep
  <2> QED  BY <2>2, <2>3
<1>2. CASE outcome' = "idle"
  BY <1>2 DEF OwesInv
<1>3. CASE UNCHANGED <<adornVars, bfpVars>>
  <2>1. /\ UNCHANGED <<program, derived, edb, queries, evaluated, matched, inferred_facts>>
        /\ UNCHANGED <<fired_edb_queries, stack, outcome, answered>>
    BY <1>3 DEF adornVars, bfpVars, memVars
  <2>2. HaveKept /\ QueriesKept /\ FactsKept /\ LiteralsKept /\ RowsKept
    BY <2>1 DEF HaveKept, QueriesKept, FactsKept, LiteralsKept, RowsKept, Have, OwedBinding,
       OwedQuery, OwedFact, OwedCall, OwedAnswer
  <2> QED  BY <2>1, <2>2, RulesBegunKept, FactsJoinedKept, PassedOnKept, AnswersUsedKept,
           HeadsInferredKept, FactsReachKept DEF Owes, OwesInv
<1> QED  BY <1>1, <1>2, <1>3, QuietStep

(***************************************************************************)
(* At rest: nothing is owed any more, and what follows from the facts has  *)
(* been inferred where it was asked for.                                   *)
(***************************************************************************)

LEMMA AtRest ==
    ASSUME Owes, stack = <<>>
    PROVE  /\ \A q \in queries : \A r \in program : Passes(QueryTerm(r.head), q) =>
                 <<r, 0, BoundBy(QueryTerm(r.head), q)>> \in evaluated
           /\ \A e \in evaluated : \A m \in matched :
                 e[1] = m[1] /\ m[2] = e[2] + 1 /\ Agrees(e[3], BoundBy(m[1].body[m[2]], m[3])) =>
                    <<m[1], m[2], Merge(e[3], BoundBy(m[1].body[m[2]], m[3]))>> \in evaluated
           /\ \A e \in evaluated : e[2] < Len(e[1].body) =>
                 IF IsBase(e[1].body[e[2] + 1]) THEN e \in fired_edb_queries
                 ELSE LET q == Ground(QueryTerm(e[1].body[e[2] + 1]), e[3])
                      IN  IsGround(q) => Fact(q) \in queries
           /\ \A e \in fired_edb_queries :
                 \A ans \in Results(ConjunctionAt(e[1], e[2], e[3]), edb) :
                    IsYes(e[1], e[2], e[3], ans) =>
                       <<e[1], EndOf(e[1], e[2]), With(e[1], e[2], e[3], ans)>> \in evaluated
           /\ \A f \in inferred_facts : \A r \in program : \A j \in DOMAIN r.body :
                 HasC(r.body[j]) /\ Passes(r.body[j], f) => <<r, j, f>> \in matched
<1>1. ToSet(stack) = {}
  BY DEF ToSet
<1>2. /\ \A q, r : ~OwedQuery(q, r)
      /\ \A f, c : ~OwedFact(f, c)
      /\ \A r, j, theta : ~OwedBinding(r, j, theta)
      /\ \A r, j, theta : ~OwedCall(r, j, theta)
      /\ \A r, j, theta, ans : ~OwedAnswer(r, j, theta, ans)
  BY <1>1 DEF OwedQuery, OwedFact, OwedBinding, OwedCall, OwedAnswer
<1>3. \A r, j, theta : Have(r, j, theta) => <<r, j, theta>> \in evaluated
  BY <1>2 DEF Have
<1>4. \A q \in queries : \A r \in program : Passes(QueryTerm(r.head), q) =>
         <<r, 0, BoundBy(QueryTerm(r.head), q)>> \in evaluated
  BY <1>2, <1>3 DEF Owes, RulesBegun
<1>5. \A e \in evaluated : \A m \in matched :
         e[1] = m[1] /\ m[2] = e[2] + 1 /\ Agrees(e[3], BoundBy(m[1].body[m[2]], m[3])) =>
            <<m[1], m[2], Merge(e[3], BoundBy(m[1].body[m[2]], m[3]))>> \in evaluated
  BY <1>3 DEF Owes, FactsJoined
<1>6. \A e \in evaluated : e[2] < Len(e[1].body) =>
         IF IsBase(e[1].body[e[2] + 1]) THEN e \in fired_edb_queries
         ELSE LET q == Ground(QueryTerm(e[1].body[e[2] + 1]), e[3])
              IN  IsGround(q) => Fact(q) \in queries
  BY <1>2 DEF Owes, PassedOn
<1>7. \A e \in fired_edb_queries :
         \A ans \in Results(ConjunctionAt(e[1], e[2], e[3]), edb) :
            IsYes(e[1], e[2], e[3], ans) =>
               <<e[1], EndOf(e[1], e[2]), With(e[1], e[2], e[3], ans)>> \in evaluated
  BY <1>2, <1>3 DEF Owes, AnswersUsed
<1>8. \A f \in inferred_facts : \A r \in program : \A j \in DOMAIN r.body :
         HasC(r.body[j]) /\ Passes(r.body[j], f) => <<r, j, f>> \in matched
  BY <1>2 DEF Owes, FactsReach
<1> QED  BY <1>4, <1>5, <1>6, <1>7, <1>8

\* The query for a fact under an adornment.
AsksFor(x, ad) ==
    [op |-> <<x.op, ad>>, args |-> [i \in {k \in DOMAIN x.args : ad[k] = "b"} |-> x.args[i]]]

\* A substitution under which the body of a rule holds: its base literals are in the
\* fact graph, the others are inferred as soon as they are asked for.
Walks(r, sigma) ==
    /\ r \in program /\ FitRule(r) /\ ArgumentsBound(r)
    /\ DOMAIN sigma \subseteq Var /\ \A v \in DOMAIN sigma : sigma[v] \notin Var
    /\ VarsOf(r.head) \subseteq DOMAIN sigma
    /\ \A k \in DOMAIN r.body :
          /\ VarsOf(r.body[k]) \subseteq DOMAIN sigma
          /\ IsBase(r.body[k]) => Instance(r.body[k], sigma) \in edb
          /\ ~IsBase(r.body[k]) =>
                /\ IsGroundFact(Instance(r.body[k], sigma))
                /\ AsksFor(Instance(r.body[k], sigma), r.body[k].ad) \in queries =>
                      Instance(r.body[k], sigma) \in inferred_facts
Upto(r, j, sigma) == Restrict(sigma, BindVars(r, j))

LEMMA UptoIs ==
    ASSUME NEW r, NEW sigma, Walks(r, sigma), NEW j \in 0 .. Len(r.body),
           NEW theta, theta = Upto(r, j, sigma)
    PROVE  /\ BindVars(r, j) \subseteq DOMAIN sigma /\ DOMAIN theta = BindVars(r, j)
           /\ \A v \in BindVars(r, j) : theta[v] = sigma[v] /\ v \in Var /\ sigma[v] \notin Var
           /\ Covers(theta, r, j) /\ DOMAIN theta \subseteq Var
           /\ \A l : IsAdLiteral(l) /\ VarsOf(l) \subseteq BindVars(r, j) =>
                 Instance(l, theta) = Instance(l, sigma)
<1>1. IsAdRule(r) /\ j \in Nat /\ \A i \in 1 .. j : i \in DOMAIN r.body
  BY DEF Walks, FitRule, IsAdRule
<1>2. BindVars(r, j) \subseteq DOMAIN sigma
  <2>1. VarsOf(QueryTerm(r.head)) \subseteq DOMAIN sigma
    BY QueryTermIs DEF Walks
  <2>2. UNION {VarsOf(r.body[i]) : i \in 1 .. j} \subseteq DOMAIN sigma
    BY <1>1 DEF Walks
  <2> QED  BY <2>1, <2>2 DEF BindVars
<1>3. /\ DOMAIN theta = BindVars(r, j)
      /\ \A v \in BindVars(r, j) : theta[v] = sigma[v] /\ v \in Var /\ sigma[v] \notin Var
  BY <1>2 DEF Upto, Restrict, Walks
<1>4. Covers(theta, r, j) /\ DOMAIN theta \subseteq Var
  BY <1>3 DEF Covers, Binds1
<1>5. ASSUME NEW l, IsAdLiteral(l), VarsOf(l) \subseteq BindVars(r, j)
      PROVE  Instance(l, theta) = Instance(l, sigma)
  <2>1. Extends(sigma, theta)
    BY <1>2, <1>3 DEF Extends, Agrees
  <2> QED  BY <1>3, <1>5, <2>1, ExtendedInstance DEF Walks
<1> QED  BY <1>2, <1>3, <1>4, <1>5

\* A function on the variables bound at a place that agrees with the substitution.
LEMMA UptoOnly ==
    ASSUME NEW r, NEW sigma, NEW j, NEW phi, phi = [v \in DOMAIN phi |-> phi[v]],
           DOMAIN phi = BindVars(r, j), \A v \in BindVars(r, j) : phi[v] = sigma[v]
    PROVE  phi = Upto(r, j, sigma)
BY DEF Upto, Restrict

LEMMA BoundAt ==
    ASSUME NEW l, DOMAIN l.args \subseteq Nat, NEW f, NEW phi, phi = BoundBy(l, f),
           NEW v \in VarsOf(l)
    PROVE  \E i \in DOMAIN l.args : l.args[i] = v /\ phi[v] = f.args[i]
<1>1. \E i \in DOMAIN l.args : l.args[i] = v /\ BoundBy(l, f)[v] = f.args[i]
  BY BoundByIs
<1> QED  BY <1>1

\* Where a literal holds under the substitution, it passes its instance and binds
\* what the substitution binds.
LEMMA InstancePasses ==
    ASSUME NEW l, IsAdLiteral(l), SingleVars(l), NEW sigma, DOMAIN sigma \subseteq Var,
           VarsOf(l) \subseteq DOMAIN sigma, NEW y, y = Instance(l, sigma)
    PROVE  /\ Passes(l, y) /\ DOMAIN BoundBy(l, y) = VarsOf(l)
           /\ \A v \in VarsOf(l) : BoundBy(l, y)[v] = sigma[v]
           /\ BoundBy(l, y) = [v \in DOMAIN BoundBy(l, y) |-> BoundBy(l, y)[v]]
<1>1. y.op = l.op /\ y.args = [i \in DOMAIN l.args |-> Value(l.args[i], sigma)]
  BY InstanceIs
<1>2. DOMAIN l.args \subseteq Nat
  BY AdArgs
<1>3. Passes(l, y)
  BY <1>1 DEF Passes, Value
<1>4. DOMAIN BoundBy(l, y) = VarsOf(l)
  BY <1>2, BoundByIs
<1>5. ASSUME NEW v \in VarsOf(l) PROVE BoundBy(l, y)[v] = sigma[v]
  <2>1. PICK i \in DOMAIN l.args : l.args[i] = v /\ BoundBy(l, y)[v] = y.args[i]
    BY <1>2, BoundAt
  <2> QED  BY <1>1, <2>1 DEF Value
<1>6. BoundBy(l, y) = [v \in DOMAIN BoundBy(l, y) |-> BoundBy(l, y)[v]]
  BY DEF BoundBy
<1> QED  BY <1>3, <1>4, <1>5, <1>6

\* A rule begins with the query for the head's instance.
LEMMA WalkBegins ==
    ASSUME Owes, stack = <<>>, NEW r, NEW sigma, Walks(r, sigma), NEW x,
           x = Instance(r.head, sigma), AsksFor(x, r.head.ad) \in queries
    PROVE  <<r, 0, Upto(r, 0, sigma)>> \in evaluated
<1>1. PICK h, t, q : h = r.head /\ t = QueryTerm(r.head) /\ q = AsksFor(x, h.ad)
  OBVIOUS
<1>2. /\ r \in program /\ IsAdRule(r) /\ IsAdLiteral(h) /\ SingleVars(h) /\ IsAdorned(h)
      /\ VarsOf(h) \subseteq DOMAIN sigma /\ DOMAIN sigma \subseteq Var
  BY <1>1 DEF Walks, FitRule, IsAdRule
<1>3. x.op = h.op /\ x.args = [i \in DOMAIN h.args |-> Value(h.args[i], sigma)]
  BY <1>1, <1>2, InstanceIs
<1>4. BoundPlaces(h) = {k \in DOMAIN x.args : h.ad[k] = "b"} /\ BoundPlaces(h) \subseteq DOMAIN h.args
  BY <1>2, <1>3 DEF BoundPlaces
<1>5. q.op = <<h.op, h.ad>> /\ q.args = [i \in BoundPlaces(h) |-> Value(h.args[i], sigma)]
  BY <1>1, <1>3, <1>4 DEF AsksFor
<1>6. /\ t.op = <<h.op, h.ad>> /\ t.args = [i \in BoundPlaces(h) |-> h.args[i]]
      /\ DOMAIN t.args = BoundPlaces(h) /\ VarsOf(t) \subseteq VarsOf(h)
  BY <1>1, QueryTermIs
<1>7. Passes(t, q)
  BY <1>2, <1>5, <1>6 DEF Passes, Value
<1>8. DOMAIN t.args \subseteq Nat
  BY <1>1, <1>2, AdArgs
<1>9. PICK phi : phi = BoundBy(t, q)
  OBVIOUS
<1>10. <<r, 0, phi>> \in evaluated
  BY <1>1, <1>2, <1>7, <1>9, AtRest
<1>11. phi = [v \in DOMAIN phi |-> phi[v]] /\ DOMAIN phi = VarsOf(t)
  BY <1>8, <1>9, BoundByIs DEF BoundBy
<1>12. ASSUME NEW v \in VarsOf(t) PROVE phi[v] = sigma[v]
  <2>1. PICK i \in DOMAIN t.args : t.args[i] = v /\ phi[v] = q.args[i]
    BY <1>8, <1>9, BoundAt
  <2>2. v \in DOMAIN sigma
    BY <1>2, <1>6
  <2> QED  BY <1>5, <1>6, <2>1, <2>2 DEF Value
<1>13. BindVars(r, 0) = VarsOf(t)
  BY <1>1, BindVarsIs
<1>14. phi = Upto(r, 0, sigma)
  BY <1>11, <1>12, <1>13, UptoOnly
<1> QED  BY <1>10, <1>14

\* A derived literal is asked for, its instance inferred and joined.
LEMMA WalkDerived ==
    ASSUME Setup, Typed, Owes, stack = <<>>, NEW r, NEW sigma, Walks(r, sigma),
           NEW j \in 0 .. Len(r.body), j < Len(r.body), ~IsBase(r.body[j + 1]),
           <<r, j, Upto(r, j, sigma)>> \in evaluated
    PROVE  <<r, j + 1, Upto(r, j + 1, sigma)>> \in evaluated
<1>1. PICK k, l, theta : k = j + 1 /\ l = r.body[k] /\ theta = Upto(r, j, sigma)
  OBVIOUS
<1>2. PICK y, phi : y = Instance(l, sigma) /\ phi = BoundBy(l, y)
  OBVIOUS
<1>3. /\ IsAdRule(r) /\ DOMAIN r.body = 1 .. Len(r.body) /\ Len(r.body) \in Nat
      /\ j \in Nat /\ k \in 1 .. Len(r.body) /\ k \in DOMAIN r.body
  BY <1>1 DEF Walks, FitRule, IsAdRule
<1>4. /\ IsAdLiteral(l) /\ SingleVars(l) /\ ~IsBase(l) /\ l.op \in derived /\ IsAdorned(l)
      /\ VarsOf(l) \subseteq DOMAIN sigma /\ DOMAIN sigma \subseteq Var /\ r \in program
      /\ AsksFor(y, l.ad) \in queries => y \in inferred_facts
  BY <1>1, <1>2, <1>3 DEF Walks, FitRule, IsAdRule
<1>5. y.op = l.op /\ y.args = [i \in DOMAIN l.args |-> Value(l.args[i], sigma)]
  BY <1>2, <1>4, InstanceIs
<1>6. /\ DOMAIN theta = BindVars(r, j) /\ BindVars(r, j) \subseteq DOMAIN sigma
      /\ \A v \in BindVars(r, j) : theta[v] = sigma[v] /\ v \in Var /\ sigma[v] \notin Var
  BY <1>1, UptoIs
<1>7. ASSUME NEW i \in BoundPlaces(l)
      PROVE  Value(l.args[i], theta) = Value(l.args[i], sigma) /\ Value(l.args[i], theta) \notin Var
  <2>1. i \in DOMAIN l.args /\ l.ad[i] = "b" /\ i \in DOMAIN l.ad
    <3>1. DOMAIN l.args = 1 .. Len(l.args) /\ Len(l.ad) = Len(l.args) /\ DOMAIN l.ad = 1 .. Len(l.ad)
      BY <1>4, AdArgs DEF IsAdLiteral, Arity
    <3> QED  BY <1>4, <3>1 DEF BoundPlaces
  <2>2. CASE l.args[i] \in Var
    <3>1. l.args[i] \in Distinguished(r.head) \cup VarsOfAll(SubSeq(r.body, 1, k - 1))
      BY <1>1, <1>3, <2>1, <2>2 DEF Walks, ArgumentsBound
    <3>2. Distinguished(r.head) \subseteq BindVars(r, j)
      <4>1. VarsOf(QueryTerm(r.head)) = {r.head.args[m] : m \in BoundPlaces(r.head)} \cap Var
        BY QueryTermIs
      <4>2. /\ IsAdorned(r.head) /\ DOMAIN r.head.ad = 1 .. Len(r.head.ad)
            /\ DOMAIN r.head.args = 1 .. Len(r.head.args) /\ Len(r.head.ad) = Len(r.head.args)
        <5>1. PICK h : h = r.head
          OBVIOUS
        <5>2. h.ad \in Seq({"b", "f"})
          BY <1>3, <5>1 DEF IsAdRule, Arity
        <5>3. DOMAIN h.ad = 1 .. Len(h.ad)
          BY <5>2
        <5> QED  BY <1>3, <5>1, <5>3, HeadAdorned
      <4>3. {m \in DOMAIN r.head.ad : r.head.ad[m] = "b"} \subseteq BoundPlaces(r.head)
        BY <4>2 DEF BoundPlaces
      <4> QED  BY <4>1, <4>3 DEF Distinguished, BindVars
    <3>3. VarsOfAll(SubSeq(r.body, 1, k - 1)) \subseteq BindVars(r, j)
      <4>1. r.body \in Seq(ToSet(r.body)) /\ k - 1 = j
        BY <1>1, <1>3 DEF IsAdRule
      <4>2. PICK part : part = SubSeq(r.body, 1, j)
        OBVIOUS
      <4>3. DOMAIN part = 1 .. j /\ \A m \in 1 .. j : part[m] = r.body[m]
        BY <1>3, <4>1, <4>2
      <4>4. VarsOfAll(part) \subseteq BindVars(r, j)
        BY <4>3 DEF VarsOfAll, BindVars
      <4> QED  BY <4>1, <4>2, <4>4
    <3>4. l.args[i] \in BindVars(r, j)
      BY <3>1, <3>2, <3>3
    <3> QED  BY <1>6, <3>4 DEF Value
  <2>3. CASE l.args[i] \notin Var
    BY <1>4, <1>6, <2>3 DEF Value
  <2> QED  BY <2>2, <2>3
<1>8. PICK q : q = Ground(QueryTerm(l), theta)
  OBVIOUS
<1>9. /\ Fact(q) = [op |-> <<l.op, l.ad>>, args |-> [i \in BoundPlaces(l) |-> Value(l.args[i], theta)]]
      /\ IsGround(q)
  BY <1>7, <1>8, AskedQuery
<1>10. Fact(q) = AsksFor(y, l.ad)
  <2>1. BoundPlaces(l) = {m \in DOMAIN y.args : l.ad[m] = "b"} /\ BoundPlaces(l) \subseteq DOMAIN l.args
    BY <1>4, <1>5 DEF BoundPlaces
  <2>2. PICK args : args = [i \in BoundPlaces(l) |-> Value(l.args[i], theta)]
    OBVIOUS
  <2>3. args = [i \in BoundPlaces(l) |-> y.args[i]]
    BY <1>5, <1>7, <2>1, <2>2
  <2> QED  BY <1>5, <1>9, <2>1, <2>2, <2>3 DEF AsksFor
<1>11. Fact(q) \in queries
  <2>1. PICK e : e = <<r, j, theta>>
    OBVIOUS
  <2>2. e \in evaluated /\ e[1] = r /\ e[2] = j /\ e[3] = theta
    BY <1>1, <2>1
  <2>3. e[2] < Len(e[1].body) /\ ~IsBase(e[1].body[e[2] + 1])
    BY <2>2
  <2>4. LET p == Ground(QueryTerm(e[1].body[e[2] + 1]), e[3]) IN IsGround(p) => Fact(p) \in queries
    BY <2>2, <2>3, AtRest
  <2> QED  BY <1>1, <1>8, <1>9, <2>2, <2>4
<1>12. y \in inferred_facts
  BY <1>4, <1>10, <1>11
<1>13. /\ Passes(l, y) /\ DOMAIN phi = VarsOf(l) /\ \A v \in VarsOf(l) : phi[v] = sigma[v]
  BY <1>2, <1>4, InstancePasses
<1>14. PICK m : m = <<r, k, y>>
  OBVIOUS
<1>15. m \in matched
  BY <1>1, <1>3, <1>4, <1>12, <1>13, <1>14, AtRest DEF HasC
<1>16. PICK all : all = Merge(theta, phi)
  OBVIOUS
<1>17. <<r, k, all>> \in evaluated
  <2>1. PICK e : e = <<r, j, theta>>
    OBVIOUS
  <2>2. e \in evaluated /\ e[1] = r /\ e[2] = j /\ e[3] = theta
    BY <1>1, <2>1
  <2>3. m[1] = r /\ m[2] = k /\ m[3] = y
    BY <1>14
  <2>4. BoundBy(m[1].body[m[2]], m[3]) = phi
    BY <1>1, <1>2, <2>3
  <2>5. Agrees(theta, phi)
    BY <1>6, <1>13 DEF Agrees
  <2>6. <<m[1], m[2], Merge(e[3], BoundBy(m[1].body[m[2]], m[3]))>> \in evaluated
    BY <1>1, <1>15, <2>2, <2>3, <2>4, <2>5, AtRest
  <2> QED  BY <1>16, <2>2, <2>3, <2>4, <2>6
<1>18. all = Upto(r, k, sigma)
  <2>1. BindVars(r, k) = BindVars(r, j) \cup VarsOf(l)
    <3>1. BindVars(r, k) = BindVars(r, j) \cup UNION {VarsOf(r.body[i]) : i \in j + 1 .. k}
      BY <1>1, <1>3, BindVarsIs
    <3>2. j + 1 .. k = {k}
      BY <1>1, <1>3
    <3> QED  BY <1>1, <3>1, <3>2
  <2>2. all = [v \in DOMAIN all |-> all[v]]
    BY <1>16 DEF Merge
  <2>3. /\ DOMAIN all = DOMAIN theta \cup DOMAIN phi
        /\ \A v \in DOMAIN theta : all[v] = theta[v]
        /\ \A v \in DOMAIN phi : v \notin DOMAIN theta => all[v] = phi[v]
    BY <1>16 DEF Merge
  <2>4. DOMAIN all = BindVars(r, k) /\ \A v \in BindVars(r, k) : all[v] = sigma[v]
    BY <1>6, <1>13, <2>1, <2>3
  <2> QED  BY <2>2, <2>4, UptoOnly
<1> QED  BY <1>1, <1>17, <1>18

\* A run of base literals is queried, and the answer the substitution makes is used.
LEMMA WalkBase ==
    ASSUME Setup, Typed, Owes, stack = <<>>, NEW r, NEW sigma, Walks(r, sigma),
           NEW j \in 0 .. Len(r.body), j < Len(r.body), IsBase(r.body[j + 1]),
           <<r, j, Upto(r, j, sigma)>> \in evaluated, NEW e, e = EndOf(r, j)
    PROVE  <<r, e, Upto(r, e, sigma)>> \in evaluated
<1>1. PICK theta, all, q : /\ theta = Upto(r, j, sigma) /\ all = Upto(r, e, sigma)
                           /\ q = ConjunctionAt(r, j, theta)
  OBVIOUS
<1>2. /\ IsAdRule(r) /\ DOMAIN r.body = 1 .. Len(r.body) /\ Len(r.body) \in Nat /\ j \in Nat
      /\ e \in j .. Len(r.body) /\ e \in 0 .. Len(r.body)
  <2>1. IsAdRule(r)
    BY DEF Walks, FitRule
  <2> QED  BY <2>1, EndOfIs DEF IsAdRule
<1>3. /\ DOMAIN theta = BindVars(r, j) /\ Covers(theta, r, j) /\ DOMAIN theta \subseteq Var
      /\ \A v \in BindVars(r, j) : theta[v] = sigma[v] /\ v \in Var /\ sigma[v] \notin Var
      /\ \A l : IsAdLiteral(l) /\ VarsOf(l) \subseteq BindVars(r, j) =>
            Instance(l, theta) = Instance(l, sigma)
  BY <1>1, UptoIs
<1>4. /\ DOMAIN all = BindVars(r, e) /\ DOMAIN all \subseteq Var
      /\ \A v \in BindVars(r, e) : all[v] = sigma[v] /\ v \in DOMAIN sigma
      /\ \A l : IsAdLiteral(l) /\ VarsOf(l) \subseteq BindVars(r, e) =>
            Instance(l, all) = Instance(l, sigma)
  BY <1>1, <1>2, UptoIs
<1>5. /\ DOMAIN q = 1 .. e - j /\ e - j \in Nat
      /\ \A i \in 1 .. e - j : /\ j + i \in j + 1 .. e /\ j + i \in DOMAIN r.body
                               /\ IsBase(r.body[j + i]) /\ IsAdLiteral(r.body[j + i])
                               /\ q[i] = Ground(r.body[j + i], theta) /\ IsAdLiteral(q[i])
  BY <1>1, <1>2, ConjunctionIs
<1>6. BindVars(r, e) = BindVars(r, j) \cup VarsOfAll(q)
  BY <1>1, <1>2, <1>3, AnswerCovers
<1>7. ASSUME NEW i \in 1 .. e - j, NEW l, l = r.body[j + i]
      PROVE  /\ IsAdLiteral(l) /\ VarsOf(l) \subseteq BindVars(r, e) /\ q[i] = Ground(l, theta)
             /\ Instance(l, all) = Instance(l, sigma) /\ Instance(l, sigma) \in edb
  <2>1. j + i \in j + 1 .. e /\ j + i \in DOMAIN r.body /\ IsBase(l) /\ IsAdLiteral(l)
        /\ q[i] = Ground(l, theta)
    BY <1>5, <1>7
  <2>2. VarsOf(l) \subseteq BindVars(r, e)
    <3>1. PICK k : k = j + i
      OBVIOUS
    <3>2. k \in 1 .. e
      BY <1>2, <2>1, <3>1
    <3> QED  BY <1>7, <3>1, <3>2 DEF BindVars
  <2>3. Instance(l, sigma) \in edb
    BY <1>7, <2>1 DEF Walks
  <2> QED  BY <1>4, <2>1, <2>2, <2>3
<1>8. PICK key : key = <<r, j, theta>>
  OBVIOUS
<1>9. key[1] = r /\ key[2] = j /\ key[3] = theta /\ key \in fired_edb_queries
  <2>1. key[1] = r /\ key[2] = j /\ key[3] = theta /\ key \in evaluated
    BY <1>1, <1>8
  <2> QED  BY <2>1, AtRest
<1>10. ASSUME NEW ans \in Results(q, edb), VarsOfAll(q) = {} => ans
       PROVE  <<r, e, With(r, j, theta, ans)>> \in evaluated
  <2>1. ans \in Results(ConjunctionAt(key[1], key[2], key[3]), edb)
    BY <1>1, <1>9
  <2>2. IsYes(key[1], key[2], key[3], ans)
    BY <1>1, <1>9, <1>10 DEF IsYes
  <2>3. <<key[1], EndOf(key[1], key[2]), With(key[1], key[2], key[3], ans)>> \in evaluated
    BY <1>9, <2>1, <2>2, AtRest
  <2> QED  BY <1>9, <2>3
<1>11. CASE VarsOfAll(q) = {}
  <2>1. theta = all
    BY <1>1, <1>6, <1>11 DEF Upto
  <2>2. AllIn(q, edb)
    <3>1. SUFFICES ASSUME NEW i \in 1 .. e - j PROVE Fact(q[i]) \in edb
      BY <1>5 DEF AllIn
    <3>2. PICK l : l = r.body[j + i]
      OBVIOUS
    <3> QED  BY <1>7, <2>1, <3>2 DEF Instance
  <2>3. TRUE \in Results(q, edb)
    <3>1. AllIn(q, edb) \in BOOLEAN
      BY DEF AllIn
    <3> QED  BY <1>11, <2>2, <3>1 DEF Results
  <2>4. With(r, j, theta, TRUE) = theta
    BY <1>1, <1>11 DEF With
  <2> QED  BY <1>1, <1>10, <2>1, <2>3, <2>4
<1>12. CASE VarsOfAll(q) # {}
  <2>1. PICK ans : ans = [v \in VarsOfAll(q) |-> sigma[v]]
    OBVIOUS
  <2>2. DOMAIN ans = VarsOfAll(q) /\ VarsOfAll(q) \subseteq Var /\ DOMAIN ans \subseteq Var
    BY <2>1 DEF VarsOfAll, VarsOf
  <2>3. PICK both : both = Merge(theta, ans)
    OBVIOUS
  <2>4. both = all
    <3>1. both = [v \in DOMAIN both |-> both[v]]
      BY <2>3 DEF Merge
    <3>2. /\ DOMAIN both = DOMAIN theta \cup DOMAIN ans
          /\ \A v \in DOMAIN theta : both[v] = theta[v]
          /\ \A v \in DOMAIN ans : v \notin DOMAIN theta => both[v] = ans[v]
      BY <2>3 DEF Merge
    <3>3. DOMAIN both = BindVars(r, e) /\ \A v \in BindVars(r, e) : both[v] = sigma[v]
      BY <1>3, <1>6, <2>1, <2>2, <3>2
    <3> QED  BY <1>1, <3>1, <3>3, UptoOnly
  <2>5. ans \in [VarsOfAll(q) -> Terms(edb)]
    <3>1. SUFFICES ASSUME NEW v \in VarsOfAll(q) PROVE sigma[v] \in Terms(edb)
      BY <2>1
    <3>2. PICK i \in 1 .. e - j : v \in VarsOf(q[i])
      BY <1>5 DEF VarsOfAll
    <3>3. PICK l, f : l = r.body[j + i] /\ f = Instance(l, sigma)
      OBVIOUS
    <3>4. IsAdLiteral(l) /\ f \in edb /\ q[i] = Ground(l, theta)
      BY <1>7, <3>3
    <3>5. v \in VarsOf(l) /\ v \in DOMAIN sigma
      <4>1. VarsOf(Ground(l, theta)) = VarsOf(l) \ BindVars(r, j)
        BY <1>3, <3>4, GroundVars DEF Covers
      <4> QED  BY <1>4, <1>6, <3>2, <3>4, <4>1
    <3>6. PICK k \in DOMAIN l.args : l.args[k] = v
      BY <3>5 DEF VarsOf, Args, ToSet
    <3>7. f.args = [m \in DOMAIN l.args |-> Value(l.args[m], sigma)]
      BY <3>3, <3>4, InstanceIs
    <3>8. k \in DOMAIN f.args /\ f.args[k] = sigma[v]
      BY <3>5, <3>6, <3>7 DEF Value
    <3> QED  BY <3>4, <3>8, TermOf
  <2>6. AllIn(GroundAll(q, ans), edb)
    <3>1. /\ DOMAIN GroundAll(q, ans) = 1 .. e - j
          /\ \A i \in 1 .. e - j : GroundAll(q, ans)[i] = Ground(q[i], ans)
      BY <1>5, GroundAllIs
    <3>2. SUFFICES ASSUME NEW i \in 1 .. e - j PROVE Fact(Ground(q[i], ans)) \in edb
      BY <3>1 DEF AllIn
    <3>3. PICK l : l = r.body[j + i]
      OBVIOUS
    <3>4. /\ IsAdLiteral(l) /\ q[i] = Ground(l, theta) /\ Instance(l, all) = Instance(l, sigma)
          /\ Instance(l, sigma) \in edb
      BY <1>7, <3>3
    <3>5. Instance(Ground(l, theta), ans) = Instance(l, Merge(theta, ans))
      BY <1>3, <2>2, <3>4, GroundTwice DEF Covers
    <3> QED  BY <2>3, <2>4, <3>4, <3>5 DEF Instance
  <2>7. ans \in Results(q, edb)
    BY <1>12, <2>5, <2>6 DEF Results, GroundAll
  <2>8. With(r, j, theta, ans) = all
    BY <1>1, <1>12, <2>3, <2>4 DEF With
  <2> QED  BY <1>1, <1>10, <1>12, <2>7, <2>8
<1> QED  BY <1>11, <1>12

\* The rule goes all the way and infers its head.
LEMMA Walked ==
    ASSUME Setup, Typed, Owes, stack = <<>>, NEW r, NEW sigma, Walks(r, sigma), NEW x,
           x = Instance(r.head, sigma), AsksFor(x, r.head.ad) \in queries
    PROVE  x \in inferred_facts
<1>1. PICK n : n = Len(r.body)
  OBVIOUS
<1>2. IsAdRule(r) /\ n \in Nat /\ DOMAIN r.body = 1 .. n /\ r \in program
  BY <1>1 DEF Walks, FitRule, IsAdRule
<1> DEFINE Here(j) == <<r, j, Upto(r, j, sigma)>> \in evaluated
           Run(j, k) == \A i \in j + 1 .. k : IsBase(r.body[i])
           P == {k \in 0 .. n : \E j \in 0 .. k : Here(j) /\ Run(j, k)}
<1>3. ASSUME NEW k \in 0 .. n, NEW j \in 0 .. k, Here(j), Run(j, k), k = n \/ ~IsBase(r.body[k + 1])
      PROVE  Here(k)
  <2>1. CASE j = k
    BY <1>3, <2>1
  <2>2. CASE j < k
    <3>1. j \in 0 .. Len(r.body) /\ j < Len(r.body) /\ IsBase(r.body[j + 1])
      BY <1>1, <1>2, <1>3, <2>2
    <3>2. PICK e : e = EndOf(r, j)
      OBVIOUS
    <3>3. /\ e \in j .. n /\ \A i \in j + 1 .. e : IsBase(r.body[i])
          /\ e = n \/ ~IsBase(r.body[e + 1])
      BY <1>1, <1>2, <3>1, <3>2, EndOfIs
    <3>4. ~(e < k)
      <4>1. e < k => e + 1 \in j + 1 .. k
        BY <1>2, <3>3
      <4>2. e < k => e # n
        BY <1>2, <3>3
      <4> QED  BY <1>3, <3>3, <4>1, <4>2
    <3>5. ~(k < e)
      <4>1. k < e => k + 1 \in j + 1 .. e
        BY <1>2, <3>3
      <4>2. k < e => k # n
        BY <1>2, <3>3
      <4> QED  BY <1>3, <3>3, <4>1, <4>2
    <3>6. e = k
      BY <1>2, <3>3, <3>4, <3>5
    <3> QED  BY <1>3, <3>1, <3>2, <3>6, WalkBase
  <2> QED  BY <1>2, <2>1, <2>2
<1>4. 0 \in P
  <2>1. Here(0)
    BY WalkBegins
  <2>2. Run(0, 0)
    OBVIOUS
  <2> HIDE DEF Here, Run
  <2> QED  BY <1>2, <2>1, <2>2
<1>5. ASSUME NEW k \in 1 .. n, k - 1 \in P PROVE k \in P
  <2>1. k - 1 \in 0 .. n /\ k \in 0 .. n
    BY <1>2
  <2>2. PICK j \in 0 .. k - 1 : Here(j) /\ Run(j, k - 1)
    BY <1>5
  <2>3. CASE IsBase(r.body[k])
    <3>1. Run(j, k)
      <4>1. \A i \in j + 1 .. k : i = k \/ i \in j + 1 .. k - 1
        OBVIOUS
      <4> QED  BY <2>2, <2>3, <4>1
    <3>2. j \in 0 .. k
      OBVIOUS
    <3> HIDE DEF Here, Run
    <3> QED  BY <2>1, <2>2, <3>1, <3>2
  <2>4. CASE ~IsBase(r.body[k])
    <3>1. (k - 1) + 1 = k
      OBVIOUS
    <3>2. Here(k - 1)
      BY <1>3, <2>1, <2>2, <2>4, <3>1
    <3>3. PICK i : i = k - 1
      OBVIOUS
    <3>4. i \in 0 .. Len(r.body) /\ i < Len(r.body) /\ i + 1 = k
      BY <1>1, <1>2, <3>3
    <3>5. Here(k)
      BY <2>4, <3>2, <3>3, <3>4, WalkDerived
    <3>6. k \in 0 .. k /\ Run(k, k)
      BY <2>1
    <3> HIDE DEF Here, Run
    <3> QED  BY <2>1, <3>5, <3>6
  <2> QED  BY <2>3, <2>4
<1>6. 0 .. n \subseteq P
  <2> HIDE DEF P
  <2> QED  BY <1>2, <1>4, <1>5, UpTo
<1>7. Here(n)
  <2>1. n \in P /\ n \in 0 .. n
    <3> HIDE DEF P
    <3> QED  BY <1>2, <1>6
  <2>2. PICK j : j \in 0 .. n /\ Here(j) /\ Run(j, n)
    <3> HIDE DEF Here, Run
    <3> QED  BY <2>1
  <2> HIDE DEF Here, Run, P
  <2> QED  BY <1>3, <2>1, <2>2
<1>8. PICK e, theta : theta = Upto(r, n, sigma) /\ e = <<r, n, theta>>
  OBVIOUS
<1>9. e \in evaluated /\ e[1] = r /\ e[2] = Len(r.body) /\ e[3] = theta
  BY <1>1, <1>7, <1>8
<1>10. VarsOf(r.head) \subseteq BindVars(r, n) /\ IsAdLiteral(r.head)
  <2>1. VarsOf(r.head) \subseteq VarsOfAll(r.body)
    BY DEF Walks, FitRule
  <2>2. VarsOfAll(r.body) \subseteq BindVars(r, n)
    BY <1>2 DEF VarsOfAll, BindVars
  <2> QED  BY <1>2, <2>1, <2>2 DEF IsAdRule
<1>11. Instance(r.head, theta) = x /\ Covers(theta, r, n)
  BY <1>1, <1>2, <1>8, <1>10, UptoIs
<1>12. IsGround(Ground(r.head, theta))
  <2>1. VarsOf(Ground(r.head, theta)) = VarsOf(r.head) \ BindVars(r, n)
    BY <1>10, <1>11, GroundVars DEF Covers
  <2> QED  BY <1>10, <2>1 DEF IsGround
<1> QED  BY <1>9, <1>11, <1>12 DEF Owes, HeadsInferred

\* Rules of one head whose bodies say the same, in another order.
Like(q, r) ==
    /\ q.head.op = r.head.op /\ q.head.args = r.head.args
    /\ \A j \in DOMAIN q.body : \E k \in DOMAIN r.body :
          q.body[j].op = r.body[k].op /\ q.body[j].args = r.body[k].args

LEMMA VersionsAlike ==
    ASSUME NEW q, NEW r, NEW c, IsVersion(q, c), IsVersion(r, c),
           \A j \in DOMAIN q.body : q.body[j].op \notin Hybrid,
           \A j \in DOMAIN r.body : r.body[j].op \notin Hybrid
    PROVE  Like(q, r)
<1>1. q.head.op = r.head.op /\ q.head.args = r.head.args
  BY DEF IsVersion
<1>2. ASSUME NEW j \in DOMAIN q.body
      PROVE  \E k \in DOMAIN r.body :
                q.body[j].op = r.body[k].op /\ q.body[j].args = r.body[k].args
  <2>1. PICK m \in DOMAIN c.body : /\ Renamed(q.body[j]).op = Renamed(c.body[m]).op
                                   /\ q.body[j].args = c.body[m].args
    BY VersionMatches
  <2>2. PICK k \in DOMAIN r.body : /\ Renamed(r.body[k]).op = Renamed(c.body[m]).op
                                   /\ r.body[k].args = c.body[m].args
    BY VersionMatches
  <2>3. PICK l, n : l = q.body[j] /\ n = r.body[k]
    OBVIOUS
  <2>4. l.op \notin Hybrid /\ n.op \notin Hybrid
    BY <2>3
  <2>5. Renamed(l) = l /\ Renamed(n) = n
    BY <2>4 DEF Renamed
  <2> QED  BY <2>1, <2>2, <2>3, <2>5
<1> QED  BY <1>1, <1>2 DEF Like

\* A rule that calls its own head and nothing else, as a hybrid predicate's can.
CallsItself(r) ==
    \E k \in DOMAIN r.body : r.body[k].op = r.head.op /\ r.body[k].args = r.head.args

\* Where the version of a rule is a bridge, the rule calls itself.
LEMMA BridgeVersion ==
    ASSUME NEW q, NEW r, NEW c, IsVersion(q, c), IsVersion(r, c), NEW p \in Hybrid, NEW ad,
           Len(ad) \in 1 .. Len(BridgeVars), q = Bridge(p, ad), RenamedBody(r)
    PROVE  CallsItself(r)
<1>1. PICK args : args = BridgeArgs(ad)
  OBVIOUS
<1>2. PICK l, h : l = Lit(p, args) /\ h = Adorned(DerivedName[p], args, ad, FALSE)
  OBVIOUS
<1>3. q = [head |-> h, body |-> <<l>>]
  BY <1>1, <1>2, BridgeIs
<1>4. l.op = p /\ l.args = args /\ h.op = DerivedName[p] /\ h.args = args
  BY <1>2 DEF Lit, Adorned
<1>5. q.head = h /\ DOMAIN q.body = {1} /\ q.body[1] = l
  BY <1>3
<1>6. r.head.op = DerivedName[p] /\ r.head.args = args
  BY <1>4, <1>5 DEF IsVersion
<1>7. IsAdLiteral(l)
  BY <1>1, <1>2, BridgeIs
<1>8. Renamed(l).op = DerivedName[p]
  BY <1>4, <1>7, RenamedType
<1>9. PICK m \in DOMAIN c.body : Renamed(l).op = Renamed(c.body[m]).op /\ l.args = c.body[m].args
  BY <1>5, VersionMatches
<1>10. PICK k \in DOMAIN r.body : /\ Renamed(r.body[k]).op = Renamed(c.body[m]).op
                                  /\ r.body[k].args = c.body[m].args
  BY VersionMatches
<1>11. PICK n : n = r.body[k]
  OBVIOUS
<1>12. n.op \notin Hybrid
  BY <1>11 DEF RenamedBody
<1>13. Renamed(n) = n
  BY <1>12 DEF Renamed
<1>14. r.body[k].op = r.head.op /\ r.body[k].args = r.head.args
  BY <1>4, <1>6, <1>8, <1>9, <1>10, <1>11, <1>13
<1> QED  BY <1>14 DEF CallsItself

\* Where a rule's head is asked for under an adornment, the program has the rule
\* under it.
LEMMA GoalSwitch ==
    ASSUME Setup, answered # <<>>, Posed, NEW r \in program, NEW a, a = AdornLiteral(Asked),
           a.op = r.head.op, Len(a.ad) = Len(r.head.args)
    PROVE  \E q \in program : q.head.ad = a.ad /\ Like(q, r)
<1>1. /\ Handed(program) /\ given \in Scenarios /\ IsLiteral(goal) /\ IsMade(r)
      /\ \A q \in program : IsMade(q)
  BY ProgramIs
<1>2. \A p \in Hybrid : goal.op # p /\ goal.op # DerivedName[p]
  BY DEF Posed, WellPosed
<1>3. Asked = goal
  <2>1. goal.op \notin Hybrid
    BY <1>2
  <2> QED  BY <2>1 DEF Asked, Renamed
<1>4. a.op = goal.op /\ Len(a.ad) = Len(goal.args)
  <2>1. IsAdLiteral(goal)
    BY <1>1, LiteralIsAdLiteral
  <2>2. a.op = goal.op /\ a.args = goal.args /\ Arity(a)
    BY <1>3, <2>1, AdornLiteralType
  <2> QED  BY <2>2 DEF Arity
<1>5. \A q \in program : IsBridge(q) => q.head.op # goal.op
  <2>1. SUFFICES ASSUME NEW q \in program, IsBridge(q) PROVE q.head.op # goal.op
    OBVIOUS
  <2>2. PICK p \in Hybrid : \E ad : Len(ad) \in 1 .. Len(BridgeVars) /\ q = Bridge(p, ad)
    BY <2>1 DEF IsBridge
  <2>3. PICK ad : Len(ad) \in 1 .. Len(BridgeVars) /\ q = Bridge(p, ad)
    BY <2>2
  <2>4. q.head.op = DerivedName[p]
    BY <2>3, BridgeFits
  <2> QED  BY <1>2, <2>4
<1>6. RenamedBody(r) /\ \E i \in DOMAIN given.rules : IsVersion(r, given.rules[i])
  BY <1>1, <1>4, <1>5 DEF IsMade
<1>7. PICK i \in DOMAIN given.rules : IsVersion(r, given.rules[i])
  BY <1>6
<1>8. PICK c : c = given.rules[i]
  OBVIOUS
<1>9. IsAdLiteral(c.head)
  <2>1. IsRule(c)
    BY <1>1, <1>8, ScenariosAssumption
  <2> QED  BY <2>1, LiteralIsAdLiteral DEF IsRule
<1>10. c.head.op = goal.op /\ Len(c.head.args) = Len(goal.args)
  <2>1. Renamed(c.head).op = goal.op /\ c.head.args = r.head.args
    BY <1>4, <1>7, <1>8 DEF IsVersion
  <2>2. c.head.op = goal.op
    BY <1>2, <1>9, <2>1, RenamedType
  <2> QED  BY <1>4, <2>1, <2>2
<1>11. HeadsRule(goal, given.rules[i])
  BY <1>8, <1>10 DEF HeadsRule
<1>12. PICK q \in program : q.head.ad = AdornLiteral(goal).ad /\ IsVersion(q, given.rules[i])
  BY <1>1, <1>11 DEF Handed, HasVersion
<1>13. q.head.op = goal.op
  BY <1>4, <1>7, <1>12 DEF IsVersion
<1>14. RenamedBody(q)
  BY <1>1, <1>5, <1>13 DEF IsMade
<1>15. Like(q, r)
  <2>1. \A j \in DOMAIN q.body : q.body[j].op \notin Hybrid
    BY <1>14 DEF RenamedBody
  <2>2. \A j \in DOMAIN r.body : r.body[j].op \notin Hybrid
    BY <1>6 DEF RenamedBody
  <2> QED  BY <1>7, <1>12, <2>1, <2>2, VersionsAlike
<1> QED  BY <1>3, <1>12, <1>15

LEMMA BodySwitch ==
    ASSUME Setup, answered # <<>>, Posed, NEW r \in program, NEW s \in program,
           NEW m \in DOMAIN s.body, NEW a, a = s.body[m], ~IsBase(a),
           a.op = r.head.op, Len(a.ad) = Len(r.head.args)
    PROVE  CallsItself(r) \/ \E q \in program : q.head.ad = a.ad /\ Like(q, r)
<1>1. /\ Handed(program) /\ given \in Scenarios /\ IsMade(r) /\ program = answered.adorned_program
      /\ \A q \in program : IsMade(q)
  BY ProgramIs
<1>2. FitRule(s)
  BY ProgramFits
<1>3. a.op \in derived /\ IsAdorned(a) /\ Len(a.ad) = Len(a.args)
  <2>1. a.op \in derived /\ IsAdorned(a) /\ IsAdLiteral(a)
    BY <1>2 DEF FitRule, IsAdRule
  <2> QED  BY <2>1 DEF IsAdLiteral, Arity
<1>4. CASE IsBridge(r)
  <2>1. PICK p \in Hybrid : \E ad : Len(ad) \in 1 .. Len(BridgeVars) /\ r = Bridge(p, ad)
    BY <1>4 DEF IsBridge
  <2>2. PICK ad : Len(ad) \in 1 .. Len(BridgeVars) /\ r = Bridge(p, ad)
    BY <2>1
  <2>3. /\ r.head.op = DerivedName[p] /\ r.head.args = BridgeArgs(ad)
        /\ DOMAIN r.body = {1} /\ r.body[1].op = p /\ r.body[1].args = BridgeArgs(ad)
    BY <2>2, BridgeFits
  <2>4. Len(a.ad) = Len(ad)
    <3>1. Len(BridgeArgs(ad)) = Len(ad)
      BY <2>2, BridgeArgsAre
    <3> QED  BY <2>3, <3>1
  <2>5. PICK b : b = a.ad
    OBVIOUS
  <2>6. BridgeArgs(b) = BridgeArgs(ad)
    BY <2>4, <2>5 DEF BridgeArgs
  <2>7. PICK q : q = Bridge(p, b)
    OBVIOUS
  <2>8. q \in program
    <3>1. \A x \in program : \A k \in DOMAIN x.body : \A h \in Hybrid :
             IsAdorned(x.body[k]) /\ x.body[k].op = DerivedName[h] => Bridge(h, x.body[k].ad) \in program
      BY <1>1 DEF Handed
    <3> QED  BY <1>3, <2>3, <2>5, <2>7, <3>1
  <2>9. /\ q.head.op = DerivedName[p] /\ q.head.ad = b /\ q.head.args = BridgeArgs(b)
        /\ DOMAIN q.body = {1} /\ q.body[1].op = p /\ q.body[1].args = BridgeArgs(b)
    BY <2>2, <2>4, <2>5, <2>7, <2>8, BridgeFits
  <2>10. Like(q, r)
    BY <2>3, <2>6, <2>9 DEF Like
  <2> QED  BY <2>5, <2>8, <2>9, <2>10
<1>5. CASE RenamedBody(r) /\ \E i \in DOMAIN given.rules : IsVersion(r, given.rules[i])
  <2>1. PICK i \in DOMAIN given.rules : IsVersion(r, given.rules[i])
    BY <1>5
  <2>2. PICK c : c = given.rules[i]
    OBVIOUS
  <2>3. IsAdLiteral(c.head)
    <3>1. IsRule(c)
      BY <1>1, <2>2, ScenariosAssumption
    <3> QED  BY <3>1, LiteralIsAdLiteral DEF IsRule
  <2>4. Renamed(c.head).op = a.op /\ c.head.args = r.head.args
    BY <2>1, <2>2 DEF IsVersion
  <2>5. HeadsRule(s.body[m], given.rules[i])
    <3>1. c.head.op = a.op \/ (c.head.op \in Hybrid /\ a.op = DerivedName[c.head.op])
      BY <2>3, <2>4, RenamedType
    <3>2. Len(c.head.args) = Len(a.args)
      BY <1>3, <2>4
    <3> QED  BY <2>2, <3>1, <3>2 DEF HeadsRule
  <2>6. s.body[m].op \in derived
    BY <1>3
  <2>7. IsAdorned(s.body[m])
    BY <1>3
  <2>8. PICK q \in program : q.head.ad = s.body[m].ad /\ IsVersion(q, given.rules[i])
    <3>1. Closed
      BY DEF Setup, IInv
    <3> QED  BY <1>1, <2>5, <2>6, <2>7, <3>1 DEF Closed
  <2>9. CASE RenamedBody(q)
    <3>1. \A j \in DOMAIN q.body : q.body[j].op \notin Hybrid
      BY <2>9 DEF RenamedBody
    <3>2. \A j \in DOMAIN r.body : r.body[j].op \notin Hybrid
      BY <1>5 DEF RenamedBody
    <3>3. Like(q, r)
      BY <2>1, <2>8, <3>1, <3>2, VersionsAlike
    <3> QED  BY <2>8, <3>3
  <2>10. CASE IsBridge(q)
    <3>1. PICK p \in Hybrid : \E ad : Len(ad) \in 1 .. Len(BridgeVars) /\ q = Bridge(p, ad)
      BY <2>10 DEF IsBridge
    <3>2. PICK ad : Len(ad) \in 1 .. Len(BridgeVars) /\ q = Bridge(p, ad)
      BY <3>1
    <3> QED  BY <1>5, <2>1, <2>8, <3>2, BridgeVersion
  <2> QED  BY <1>1, <2>9, <2>10 DEF IsMade
<1> QED  BY <1>1, <1>4, <1>5 DEF IsMade

LEMMA Switch ==
    ASSUME Setup, Typed, answered # <<>>, Posed, NEW r \in program, NEW x, NEW ad,
           x.op = r.head.op, Len(ad) = Len(r.head.args), AsksFor(x, ad) \in queries
    PROVE  CallsItself(r) \/ \E q \in program : q.head.ad = ad /\ Like(q, r)
<1>1. PICK f : f = AsksFor(x, ad)
  OBVIOUS
<1>2. IsQuery(f) /\ f.op = <<x.op, ad>>
  BY <1>1 DEF Typed, AsksFor
<1>3. PICK a \in Stems : f.op = <<a.op, a.ad>>
  BY <1>2 DEF IsQuery
<1>4. a.op = r.head.op /\ a.ad = ad
  BY <1>2, <1>3
<1>5. CASE a = AdornLiteral(Asked)
  BY <1>4, <1>5, GoalSwitch
<1>6. CASE a # AdornLiteral(Asked)
  <2>1. PICK s \in program : a \in {s.body[k] : k \in {i \in DOMAIN s.body : ~IsBase(s.body[i])}}
    BY <1>6 DEF Stems
  <2>2. PICK m \in DOMAIN s.body : a = s.body[m] /\ ~IsBase(s.body[m])
    BY <2>1
  <2> QED  BY <1>4, <2>2, BodySwitch
<1> QED  BY <1>5, <1>6

\* What the model may hold: base facts, and instances of heads that are inferred
\* wherever they are asked for.
Delivered ==
    {f \in ProgramModel :
        /\ IsGroundFact(f)
        /\ \/ f \in edb
           \/ /\ \E r \in program : f.op = r.head.op
              /\ \A ad : Len(ad) = Len(f.args) /\ AsksFor(f, ad) \in queries => f \in inferred_facts}

LEMMA GroundInstance ==
    ASSUME NEW l, IsAdLiteral(l), NEW sigma, VarsOf(l) \subseteq DOMAIN sigma,
           DOMAIN sigma \subseteq Var, \A v \in DOMAIN sigma : sigma[v] \notin Var
    PROVE  IsGroundFact(Instance(l, sigma))
<1>1. PICK x : x = Instance(l, sigma)
  OBVIOUS
<1>2. IsFact(x) /\ x.args = [i \in DOMAIN l.args |-> Value(l.args[i], sigma)]
  BY <1>1, InstanceIs
<1>3. ASSUME NEW i \in DOMAIN l.args PROVE Value(l.args[i], sigma) \notin Var
  <2>1. CASE l.args[i] \in Var
    <3>1. l.args[i] \in VarsOf(l)
      BY <2>1 DEF VarsOf, Args, ToSet
    <3> QED  BY <3>1 DEF Value
  <2>2. CASE l.args[i] \notin Var
    BY <2>2 DEF Value
  <2> QED  BY <2>1, <2>2
<1>4. ToSet(x.args) \cap Var = {}
  BY <1>2, <1>3 DEF ToSet
<1> QED  BY <1>1, <1>2, <1>4 DEF IsGroundFact, IsFact

\* A rule whose body another rule's solution over delivered facts satisfies goes all
\* the way.
LEMMA DeliveredWalks ==
    ASSUME Setup, answered # <<>>, Posed, NEW J \in SUBSET Delivered, NEW r \in program,
           NEW q \in program, Like(q, r), NEW sigma \in BodySolutions(r, J)
    PROVE  Walks(q, sigma)
<1>1. FitRule(r) /\ FitRule(q) /\ ArgumentsBound(q)
  BY ProgramFits DEF Posed
<1>2. IsAdRule(r) /\ IsAdRule(q)
  BY <1>1 DEF FitRule
<1>3. /\ sigma \in [VarsOfRule(r) -> Terms(J)]
      /\ \A k \in DOMAIN r.body : Satisfied(r.body[k], sigma, J)
  BY Solves
<1>4. \A k \in DOMAIN r.body : Instance(r.body[k], sigma) \in J
  <2>1. SUFFICES ASSUME NEW k \in DOMAIN r.body PROVE Instance(r.body[k], sigma) \in J
    OBVIOUS
  <2>2. r.body[k].naf = FALSE
    BY <1>1 DEF FitRule
  <2> QED  BY <1>3, <2>2, SatisfiedIs
<1>5. DOMAIN sigma = VarsOfRule(r) /\ DOMAIN sigma \subseteq Var
  BY <1>3 DEF VarsOfRule, VarsOfAll, VarsOf
<1>6. \A v \in DOMAIN sigma : sigma[v] \notin Var
  <2>1. ASSUME NEW t \in Terms(J) PROVE t \notin Var
    <3>1. PICK f \in J : t \in ToSet(f.args)
      BY <2>1 DEF Terms
    <3>2. IsGroundFact(f)
      BY DEF Delivered
    <3> QED  BY <3>1, <3>2 DEF IsGroundFact
  <2> QED  BY <1>3, <2>1
<1>7. VarsOf(q.head) \subseteq DOMAIN sigma
  <2>1. q.head.args = r.head.args
    BY DEF Like
  <2> QED  BY <1>5, <2>1 DEF VarsOfRule, VarsOf, Args
<1>8. ASSUME NEW j \in DOMAIN q.body, NEW l, l = q.body[j], NEW y, y = Instance(l, sigma)
      PROVE  /\ VarsOf(l) \subseteq DOMAIN sigma
             /\ IsBase(l) => y \in edb
             /\ ~IsBase(l) => /\ IsGroundFact(y)
                              /\ AsksFor(y, l.ad) \in queries => y \in inferred_facts
  <2>1. PICK k \in DOMAIN r.body : l.op = r.body[k].op /\ l.args = r.body[k].args
    BY <1>8 DEF Like
  <2>2. PICK m : m = r.body[k]
    OBVIOUS
  <2>3. IsAdLiteral(l) /\ IsAdLiteral(m)
    BY <1>2, <1>8, <2>2 DEF IsAdRule
  <2>4. y = Instance(m, sigma) /\ y.op = l.op
    <3>1. l.op = m.op /\ l.args = m.args
      BY <2>1, <2>2
    <3> QED  BY <1>8, <2>3, <3>1, SameInstance
  <2>5. y \in Delivered
    BY <1>4, <2>2, <2>4
  <2>6. VarsOf(l) \subseteq DOMAIN sigma
    <3>1. VarsOf(m) \subseteq VarsOfAll(r.body)
      BY <2>2 DEF VarsOfAll
    <3> QED  BY <1>5, <2>1, <2>2, <3>1 DEF VarsOfRule, VarsOf, Args
  <2>7. IsGroundFact(y)
    BY <2>5 DEF Delivered
  <2>8. ASSUME IsBase(l) PROVE y \in edb
    <3>1. \A h \in program : h.head.op # l.op
      BY <1>8, <2>8, ProgramFits
    <3> QED  BY <2>4, <2>5, <3>1 DEF Delivered
  <2>9. ASSUME ~IsBase(l), AsksFor(y, l.ad) \in queries PROVE y \in inferred_facts
    <3>1. l.op \in derived /\ IsAdorned(l)
      BY <1>1, <1>8, <2>9 DEF FitRule
    <3>2. y \notin edb
      BY <2>4, <3>1 DEF Posed
    <3>3. Len(l.ad) = Len(l.args)
      BY <2>3, <3>1 DEF IsAdLiteral, Arity
    <3>4. Len(y.args) = Len(l.args)
      BY <1>8, <2>3, InstanceIsFact
    <3> QED  BY <2>5, <2>9, <3>2, <3>3, <3>4 DEF Delivered
  <2> QED  BY <2>6, <2>7, <2>8, <2>9
<1>9. \A j \in DOMAIN q.body :
         /\ VarsOf(q.body[j]) \subseteq DOMAIN sigma
         /\ IsBase(q.body[j]) => Instance(q.body[j], sigma) \in edb
         /\ ~IsBase(q.body[j]) =>
               /\ IsGroundFact(Instance(q.body[j], sigma))
               /\ AsksFor(Instance(q.body[j], sigma), q.body[j].ad) \in queries =>
                     Instance(q.body[j], sigma) \in inferred_facts
  BY <1>8
<1> QED  BY <1>1, <1>5, <1>6, <1>7, <1>9 DEF Walks

LEMMA HeadDelivered ==
    ASSUME Setup, Typed, Owes, answered # <<>>, stack = <<>>, Posed, NEW J \in SUBSET Delivered,
           NEW r \in program, NEW sigma \in BodySolutions(r, J), NEW x,
           x = Instance(r.head, sigma), x \in ProgramModel
    PROVE  x \in Delivered
<1>1. Walks(r, sigma)
  <2>1. Like(r, r)
    BY DEF Like
  <2> QED  BY <2>1, DeliveredWalks
<1>2. IsAdLiteral(r.head)
  BY <1>1 DEF Walks, FitRule, IsAdRule
<1>3. IsGroundFact(x)
  BY <1>1, <1>2, GroundInstance DEF Walks
<1>4. x.op = r.head.op /\ Len(x.args) = Len(r.head.args)
  BY <1>2, InstanceIsFact
<1>5. ASSUME NEW ad, Len(ad) = Len(x.args), AsksFor(x, ad) \in queries
      PROVE  x \in inferred_facts
  <2>1. CASE CallsItself(r)
    <3>1. PICK k \in DOMAIN r.body : r.body[k].op = r.head.op /\ r.body[k].args = r.head.args
      BY <2>1 DEF CallsItself
    <3>2. PICK l : l = r.body[k]
      OBVIOUS
    <3>3. IsAdLiteral(l) /\ l.naf = FALSE
      BY <1>1, <3>2 DEF Walks, FitRule, IsAdRule
    <3>4. x = Instance(l, sigma)
      BY <1>2, <3>1, <3>2, <3>3, SameInstance
    <3>5. Satisfied(r.body[k], sigma, J)
      BY Solves
    <3>6. x \in J
      BY <3>2, <3>3, <3>4, <3>5, SatisfiedIs
    <3>7. x \notin edb
      BY <1>4 DEF Posed
    <3> QED  BY <1>5, <3>6, <3>7 DEF Delivered
  <2>2. CASE \E q \in program : q.head.ad = ad /\ Like(q, r)
    <3>1. PICK q \in program : q.head.ad = ad /\ Like(q, r)
      BY <2>2
    <3>2. Walks(q, sigma)
      BY <3>1, DeliveredWalks
    <3>3. IsAdLiteral(q.head) /\ q.head.op = r.head.op /\ q.head.args = r.head.args
      BY <3>1, <3>2 DEF Walks, FitRule, IsAdRule, Like
    <3>4. x = Instance(q.head, sigma)
      BY <1>2, <3>3, SameInstance
    <3> QED  BY <1>5, <3>1, <3>2, <3>4, Walked
  <2> QED  BY <1>4, <1>5, <2>1, <2>2, Switch
<1> QED  BY <1>3, <1>4, <1>5 DEF Delivered

LEMMA ModelDelivered ==
    ASSUME Setup, Typed, Owes, answered # <<>>, stack = <<>>, Posed
    PROVE  ProgramModel \subseteq Delivered
<1>1. edb \subseteq Delivered
  <2>1. edb \subseteq ProgramModel
    BY FactsInModel, RoundsAssumption DEF ProgramModel, Model
  <2> QED  BY <2>1 DEF Delivered, Setup, Graph
<1>2. ASSUME NEW J \in SUBSET Delivered, Immediate(program, J) \subseteq ProgramModel
      PROVE  Immediate(program, J) \subseteq Delivered
  <2>1. SUFFICES ASSUME NEW x \in Immediate(program, J) PROVE x \in Delivered
    OBVIOUS
  <2>2. CASE x \in J
    BY <2>2
  <2>3. CASE \E c \in program : \E theta \in BodySolutions(c, J) : x = Instance(c.head, theta)
    BY <1>2, <2>3, HeadDelivered
  <2> QED  BY <2>2, <2>3, Concludes
<1>3. PICK T, M : T = Delivered /\ M = ProgramModel
  OBVIOUS
<1>4. M = LeastModel(program, edb, Rounds)
  BY <1>3 DEF ProgramModel, Model
<1>5. \A J \in SUBSET T : edb \subseteq J /\ Immediate(program, J) \subseteq LeastModel(program, edb, Rounds)
                             => Immediate(program, J) \subseteq T
  BY <1>2, <1>3, <1>4
<1>6. edb \subseteq T /\ Rounds \in Nat
  BY <1>1, <1>3, RoundsAssumption
<1>7. LeastModel(program, edb, Rounds) \subseteq T
  BY <1>5, <1>6, ModelInduction
<1> QED  BY <1>3, <1>4, <1>7

\* What a query asks for under the adornment of a head is what the head's query term
\* becomes with the fact.
LEMMA WantedQuery ==
    ASSUME NEW l, IsAdLiteral(l), IsAdorned(l), SingleVars(l), NEW f, Passes(l, f)
    PROVE  Fact(Ground(QueryTerm(l), BoundBy(l, f))) = AsksFor(f, l.ad)
<1>1. PICK phi, g : phi = BoundBy(l, f) /\ g = AsksFor(f, l.ad)
  OBVIOUS
<1>2. l.op = f.op /\ DOMAIN l.args = DOMAIN f.args
  BY DEF Passes
<1>3. BoundPlaces(l) = {k \in DOMAIN f.args : l.ad[k] = "b"} /\ BoundPlaces(l) \subseteq DOMAIN l.args
  BY <1>2 DEF BoundPlaces
<1>4. g = [op |-> <<l.op, l.ad>>, args |-> [i \in BoundPlaces(l) |-> f.args[i]]]
  BY <1>1, <1>2, <1>3 DEF AsksFor
<1>5. DOMAIN l.args \subseteq Nat
  BY AdArgs
<1>6. ASSUME NEW i \in BoundPlaces(l) PROVE Value(l.args[i], phi) = f.args[i]
  <2>1. i \in DOMAIN l.args
    BY <1>3
  <2>2. CASE l.args[i] \in Var
    <3>1. l.args[i] \in VarsOf(l) /\ phi[l.args[i]] = f.args[i]
      BY <1>1, <1>5, <2>1, <2>2, BoundPlace
    <3>2. DOMAIN phi = VarsOf(l)
      BY <1>1, <1>5, BoundByIs
    <3> QED  BY <3>1, <3>2 DEF Value
  <2>3. CASE l.args[i] \notin Var
    <3>1. DOMAIN phi \subseteq Var
      <4>1. DOMAIN phi = VarsOf(l)
        BY <1>1, <1>5, BoundByIs
      <4> QED  BY <4>1 DEF VarsOf
    <3>2. l.args[i] = f.args[i]
      BY <2>1, <2>3 DEF Passes
    <3> QED  BY <2>3, <3>1, <3>2 DEF Value
  <2> QED  BY <2>2, <2>3
<1>7. Fact(Ground(QueryTerm(l), phi)) =
         [op |-> <<l.op, l.ad>>, args |-> [i \in BoundPlaces(l) |-> Value(l.args[i], phi)]]
  BY AskedQuery
<1>8. [i \in BoundPlaces(l) |-> Value(l.args[i], phi)] = [i \in BoundPlaces(l) |-> f.args[i]]
  BY <1>6
<1> QED  BY <1>1, <1>4, <1>7, <1>8

\* At rest all that is asked for has been inferred.
LEMMA AllInferred ==
    ASSUME Setup, Typed, Owes, answered # <<>>, stack = <<>>, Posed
    PROVE  Wanted \subseteq inferred_facts
<1>1. SUFFICES ASSUME NEW f \in Wanted PROVE f \in inferred_facts
  OBVIOUS
<1>2. f \in Delivered
  BY ModelDelivered DEF Wanted, ProgramModel
<1>3. PICK r \in program : /\ Passes(r.head, f)
                           /\ Fact(Ground(QueryTerm(r.head), BoundBy(r.head, f))) \in queries
  BY DEF Wanted
<1>4. FitRule(r)
  BY ProgramFits
<1>5. PICK l, ad : l = r.head /\ ad = r.head.ad
  OBVIOUS
<1>6. IsAdLiteral(l) /\ IsAdorned(l) /\ SingleVars(l) /\ Passes(l, f)
  BY <1>3, <1>4, <1>5 DEF FitRule, IsAdRule
<1>7. AsksFor(f, ad) \in queries
  BY <1>3, <1>5, <1>6, WantedQuery
<1>8. f.op = r.head.op /\ f \notin edb
  BY <1>3 DEF Passes, Posed
<1>9. Len(ad) = Len(f.args)
  <2>1. /\ Len(l.ad) = Len(l.args) /\ l.args \in Seq(ToSet(l.args))
    BY <1>6 DEF IsAdLiteral, Arity
  <2>2. f.args \in Seq(ToSet(f.args)) /\ DOMAIN f.args = DOMAIN l.args
    BY <1>2, <1>6 DEF Delivered, IsGroundFact, Passes
  <2>3. Len(f.args) = Len(l.args)
    BY <2>1, <2>2
  <2> QED  BY <1>5, <2>1, <2>3
<1> QED  BY <1>2, <1>7, <1>8, <1>9 DEF Delivered

\* Soundness and completeness: whatever the rules call each other in a circle with, a
\* procedure infers only what a query it issued asks for and the rules entail, and
\* when it comes to rest it has inferred all of that
\* (BackwardFixpointProcedure.answers), provided the memoized answers of
\* ConjunctiveQueryMemoize are those the fact graph would give.
THEOREM MemoizationComplete == StoreSpec /\ []CacheHolds => [](Posed => Memoized)
<1> DEFINE Inv == Setup /\ Typed /\ SoundInv /\ OwesInv
<1>1. SystemInit => Inv
  <2> SUFFICES ASSUME SystemInit
               PROVE  Inv
    OBVIOUS
  <2>1. Init /\ BFPInit
    BY DEF SystemInit
  <2>2. stack \in Seq(ToSet(stack)) /\ ToSet(stack) = {}
    <3>1. stack = <<>>
      BY <2>1 DEF BFPInit
    <3> QED  BY <3>1 DEF ToSet
  <2>3. Cached /\ Calling
    BY <2>1, <2>2 DEF BFPInit, Cached, Calling
  <2>4. Typed
    BY <2>1, <2>3 DEF BFPInit, Typed
  <2>5. SoundInv /\ OwesInv
    BY <2>1 DEF Init, SoundInv, OwesInv
  <2> QED  BY <2>4, <2>5, SetupInit
<1>2. Inv /\ CacheHolds /\ [StoreNext]_storeAll => Inv'
  BY SetupStep, TypedStep, SoundStep, OwesStep
<1>3. Inv => (Posed => Memoized)
  <2> SUFFICES ASSUME Inv, Posed, goal # <<>>, Ended
               PROVE  /\ inferred_facts \subseteq Wanted
                      /\ outcome = "returned" => Wanted \subseteq inferred_facts
    BY DEF Memoized
  <2>1. answered # <<>>
    BY DEF Setup, OneGoal, Ended
  <2>2. inferred_facts \subseteq Wanted
    BY <2>1 DEF SoundInv, Sound
  <2>3. ASSUME outcome = "returned" PROVE Wanted \subseteq inferred_facts
    <3>1. stack = <<>>
      BY <2>3 DEF Setup, Runs
    <3>2. Owes
      BY <2>1, <2>3 DEF OwesInv
    <3> QED  BY <2>1, <3>1, <3>2, AllInferred
  <2> QED  BY <2>2, <2>3
<1> HIDE DEF Inv
<1> QED  BY <1>1, <1>2, <1>3, PTL DEF StoreSpec

(***************************************************************************)
(* The answers: what the procedure collects for its goal.                  *)
(***************************************************************************)

\* Bindings for whole bodies; what their solutions are; what waits for add_wme to return.
IsWhole(e) == e[2] = Len(e[1].body)
Concluding(G) == G \in ToSet(stack) /\ G.op = "conclude"
FromBinding(s) == \E e \in evaluated : IsWhole(e) /\ s \in SolutionBy(e[1], e[3])
IsReported(S) == S \subseteq goal_solutions \/ \E G : Concluding(G) /\ S \in G.todo
Found == IsGround(Asked) /\ Fact(Asked) \in inferred_facts

\* Solutions are those of bindings, and no binding's are lost; facts inferred are heads;
\* InferredGoal leaves the calls where the goal is found, and not before.
Gathered == /\ \A s \in goal_solutions : FromBinding(s)
            /\ \A G : Concluding(G) => \A S \in G.todo : \A s \in S : FromBinding(s)
Reported == \A e \in evaluated : IsWhole(e) => IsReported(SolutionBy(e[1], e[3]))
HeadsOnly ==
    \A f \in inferred_facts : \E e \in evaluated : IsWhole(e) /\ f = Instance(e[1].head, e[3])
Noticed == /\ Found => outcome = "raised" \/ \E G : Concluding(G)
           /\ outcome = "raised" => Found
Answering == /\ TopQuery \in queries /\ Gathered /\ HeadsOnly /\ Noticed
             /\ outcome # "raised" => Reported
AnsweringInv == /\ outcome = "idle" => goal_solutions = {}
                /\ answered # <<>> /\ outcome # "idle" => Answering

LEMMA SolutionKept ==
    ASSUME UNCHANGED adornVars
    PROVE  /\ Asked' = Asked /\ TopQuery' = TopQuery
           /\ \A r, theta : SolutionBy(r, theta)' = SolutionBy(r, theta)
<1>1. Asked' = Asked
  BY DEF adornVars, Asked
<1>2. TopQuery' = TopQuery
  BY <1>1 DEF TopQuery
<1>3. \A r, theta : SolutionBy(r, theta)' = SolutionBy(r, theta)
  BY <1>1 DEF SolutionBy
<1> QED  BY <1>1, <1>2, <1>3

LEMMA FromKept ==
    ASSUME UNCHANGED adornVars, evaluated \subseteq evaluated', NEW s, FromBinding(s)
    PROVE  FromBinding(s)'
<1>1. PICK e \in evaluated : IsWhole(e) /\ s \in SolutionBy(e[1], e[3])
  BY DEF FromBinding
<1>2. PICK r, theta : r = e[1] /\ theta = e[3]
  OBVIOUS
<1>3. s \in SolutionBy(r, theta)'
  BY <1>1, <1>2, SolutionKept
<1> QED  BY <1>1, <1>2, <1>3 DEF FromBinding, IsWhole

\* What is at the top stays what it is, and what concludes below it stays.
LEMMA ConcludingKept ==
    ASSUME Setup, Typed, Running, NEW x, NEW f, NEW g, Proceed(x, f, g)
    PROVE  /\ outcome' \in {"running", "returned"}
           /\ \A G : Concluding(G)' => \/ Concluding(G)
                                       \/ G.op = "conclude" /\ Busy(G) /\ (G = f \/ G = g)
                                       \/ Concluding(Top) /\ G.todo = Top.todo \ {x}
           /\ \A F : Busy(F) /\ F.op = "conclude" /\ (F = f \/ F = g) => Concluding(F)'
           /\ \A G, S : Concluding(G) /\ S \in G.todo =>
                 \/ G = Top /\ S = x
                 \/ \E H : Concluding(H)' /\ S \in H.todo
<1>1. outcome' \in {"running", "returned"}
  BY DEF Proceed
<1>2. /\ \A G \in ToSet(stack') : \/ G \in ToSet(stack)
                                  \/ Busy(G) /\ (G = f \/ G = g \/ G = Less(x))
      /\ \A F : Busy(F) /\ (F = f \/ F = g \/ F = Less(x)) => F \in ToSet(stack')
  BY TopIs, ProceedHas
<1>3. PICK T, L : T = Top /\ L = Less(x)
  OBVIOUS
<1>4. L.op = T.op /\ L.todo = T.todo \ {x} /\ T \in ToSet(stack)
  <2>1. IsCall(T) /\ T \in ToSet(stack) /\ L = [T EXCEPT !.todo = @ \ {x}]
    BY <1>3, TopIs DEF Less
  <2> QED  BY <2>1, LessCall
<1>5. ASSUME NEW G, Concluding(G)'
      PROVE  \/ Concluding(G)
             \/ G.op = "conclude" /\ Busy(G) /\ (G = f \/ G = g)
             \/ Concluding(T) /\ G.todo = T.todo \ {x}
  BY <1>2, <1>3, <1>4, <1>5 DEF Concluding
<1>6. \A F : Busy(F) /\ F.op = "conclude" /\ (F = f \/ F = g) => Concluding(F)'
  BY <1>2 DEF Concluding
<1>7. ASSUME NEW G, NEW S, Concluding(G), S \in G.todo
      PROVE  (G = Top /\ S = x) \/ \E H : Concluding(H)' /\ S \in H.todo
  <2>1. (G = Top /\ S = x) \/ \E H \in ToSet(stack') : SameCall(G, H) /\ S \in H.todo
    BY <1>7, DebtsKept DEF Concluding
  <2> QED  BY <1>7, <2>1 DEF Concluding, SameCall
<1> QED  BY <1>1, <1>3, <1>5, <1>6, <1>7

LEMMA ReportKept ==
    ASSUME Setup, Typed, Running, NEW x, NEW f, NEW g, Proceed(x, f, g), Top.op # "conclude",
           goal_solutions \subseteq goal_solutions'
    PROVE  /\ \A S : IsReported(S) => IsReported(S)'
           /\ (\E G : Concluding(G)) => \E G : Concluding(G)'
<1>1. ASSUME NEW S, IsReported(S) PROVE IsReported(S)'
  <2>1. CASE S \subseteq goal_solutions
    BY <2>1 DEF IsReported
  <2>2. CASE \E G : Concluding(G) /\ S \in G.todo
    <3>1. PICK G : Concluding(G) /\ S \in G.todo
      BY <2>2
    <3>2. G # Top
      BY <3>1 DEF Concluding
    <3>3. \E H : Concluding(H)' /\ S \in H.todo
      BY <3>1, <3>2, ConcludingKept
    <3> QED  BY <3>3 DEF IsReported
  <2> QED  BY <1>1, <2>1, <2>2 DEF IsReported
<1>2. ASSUME NEW G, Concluding(G) PROVE \E H : Concluding(H)'
  <2>1. Busy(G) /\ G # Top
    BY <1>2 DEF Concluding, Typed, Calling
  <2>2. PICK S : S \in G.todo
    BY <2>1 DEF Busy
  <2> QED  BY <1>2, <2>1, <2>2, ConcludingKept
<1> QED  BY <1>1, <1>2

LEMMA QuietAnswers ==
    ASSUME Setup, Typed, Running, Answering, UNCHANGED adornVars, queries \subseteq queries',
           UNCHANGED <<goal_solutions, inferred_facts>>, evaluated \subseteq evaluated',
           \A e \in evaluated' : e \in evaluated \/ ~IsWhole(e),
           Top.op # "conclude", NEW x, NEW f, NEW g, Proceed(x, f, g),
           Busy(f) => f.op # "conclude", Busy(g) => g.op # "conclude" \/ g.todo = {{}}
    PROVE  Answering'
<1>1. outcome' \in {"running", "returned"} /\ outcome # "raised"
  BY ConcludingKept DEF Running
<1>2. Gathered'
  <2>1. \A s \in goal_solutions' : FromBinding(s)'
    BY FromKept DEF Answering, Gathered
  <2>2. ASSUME NEW G, Concluding(G)', NEW S \in G.todo, NEW s \in S PROVE FromBinding(s)'
    <3>1. Concluding(G)
      <4>1. ~Concluding(Top)
        BY DEF Concluding
      <4>2. Concluding(G) \/ (Busy(G) /\ G.todo = {{}})
        BY <2>2, <4>1, ConcludingKept
      <4> QED  BY <2>2, <4>2
    <3> QED  BY <2>2, <3>1, FromKept DEF Answering, Gathered
  <2> QED  BY <2>1, <2>2 DEF Gathered
<1>3. HeadsOnly'
  <2>1. ASSUME NEW v \in inferred_facts
        PROVE  \E e \in evaluated' : IsWhole(e) /\ v = Instance(e[1].head, e[3])
    BY DEF Answering, HeadsOnly
  <2> QED  BY <2>1 DEF HeadsOnly, IsWhole
<1>4. Noticed'
  <2>1. Found' = Found
    BY SolutionKept DEF Found
  <2> QED  BY <1>1, <2>1, ReportKept DEF Answering, Noticed
<1>5. Reported'
  <2>1. ASSUME NEW e \in evaluated', IsWhole(e), NEW r, r = e[1], NEW theta, theta = e[3]
        PROVE  IsReported(SolutionBy(r, theta))'
    <3>1. PICK S : S = SolutionBy(r, theta)
      OBVIOUS
    <3>2. IsReported(S)
      BY <1>1, <2>1, <3>1 DEF Answering, Reported
    <3>3. IsReported(S)' /\ S = SolutionBy(r, theta)'
      BY <3>1, <3>2, ReportKept, SolutionKept
    <3> QED  BY <3>3 DEF IsReported
  <2> QED  BY <2>1 DEF Reported, IsWhole
<1>6. TopQuery' \in queries'
  BY SolutionKept DEF Answering
<1> QED  BY <1>2, <1>3, <1>4, <1>5, <1>6 DEF Answering

LEMMA StartAnswers ==
    ASSUME Setup, AnsweringInv, Start
    PROVE  Answering'
<1>1. /\ queries' = {TopQuery} /\ stack' = Push(AddQuery(TopQuery), <<>>) /\ outcome = "idle"
      /\ outcome' \in {"running", "returned"}
      /\ UNCHANGED <<inferred_facts, evaluated, goal_solutions>> /\ UNCHANGED adornVars
  BY DEF Start
<1>2. inferred_facts' = {} /\ evaluated' = {} /\ goal_solutions' = {}
  BY <1>1 DEF Setup, OneGoal, KnowsNothing, AnsweringInv
<1>3. \A G : ~Concluding(G)'
  <2>1. PICK q, F : q = TopQuery /\ F = AddQuery(q)
    OBVIOUS
  <2>2. F.op = "query"
    BY <2>1 DEF AddQuery
  <2>3. <<>> \in Seq(ToSet(<<>>)) /\ ToSet(<<>>) = {}
    BY DEF ToSet
  <2>4. \A G \in ToSet(stack') : G = F
    BY <1>1, <2>1, <2>3, PushHas
  <2> QED  BY <2>2, <2>4 DEF Concluding
<1>4. Noticed'
  BY <1>1, <1>2 DEF Noticed, Found
<1> QED  BY <1>1, <1>2, <1>3, <1>4, SolutionKept DEF Answering, Gathered, HeadsOnly, Reported

LEMMA OpOfCall ==
    /\ \A r, j, thetas : EvaluateFor(r, j, thetas).op = "evaluate"
    /\ \A r, j, theta : Call(r, j, theta).op = "call"
    /\ \A q : AddQuery(q).op = "query"
    /\ \A f : AddFact(f).op = "fact"
    /\ \A r, j, theta, q : Query(r, j, theta, q).op = "edb"
    /\ \A facts : AddFacts(facts).op = "facts"
    /\ \A S : /\ Conclude(S).op = "conclude" /\ Conclude(S).todo = {S} /\ Busy(Conclude(S))
BY DEF EvaluateFor, Call, AddQuery, AddFact, Query, AddFacts, Conclude, Busy

LEMMA OthersAnswer ==
    ASSUME Setup, Typed, Answering,
           BeginRule \/ JoinFact \/ Subquery \/ QueryBase \/ NextAnswer \/ NextFact
    PROVE  Answering'
<1>1. /\ Running /\ Top.op # "conclude" /\ UNCHANGED adornVars /\ queries \subseteq queries'
      /\ UNCHANGED <<goal_solutions, inferred_facts, evaluated>>
  BY DEF BeginRule, JoinFact, Subquery, QueryBase, NextAnswer, NextFact, In, memVars
<1>2. ASSUME NEW x, NEW f, NEW g, Proceed(x, f, g),
             Busy(f) => f.op # "conclude", Busy(g) => g.op # "conclude" \/ g.todo = {{}}
      PROVE  Answering'
  BY <1>1, <1>2, QuietAnswers
<1>3. CASE BeginRule
  <2>1. \E x, r, theta : Proceed(x, EvaluateFor(r, 0, {theta}), NoCall)
    BY <1>3 DEF BeginRule
  <2> QED  BY <1>2, <2>1, OpOfCall, NoCallIs
<1>4. CASE JoinFact
  <2>1. \E x, r, j, thetas : Proceed(x, EvaluateFor(r, j, thetas), NoCall)
    BY <1>4 DEF JoinFact
  <2> QED  BY <1>2, <2>1, OpOfCall, NoCallIs
<1>5. CASE Subquery
  <2>1. \E x, q : Proceed(x, AddQuery(q), Conclude({})) \/ Proceed(x, NoCall, NoCall)
    BY <1>5 DEF Subquery
  <2> QED  BY <1>2, <2>1, OpOfCall, NoCallIs
<1>6. CASE QueryBase
  <2>1. PICK theta : \E key, q : Proceed(theta, IF key \in fired_edb_queries THEN NoCall
                                 ELSE Query(Top.rule, Top.at, theta, q), NoCall)
    BY <1>6 DEF QueryBase
  <2>2. Proceed(theta, NoCall, NoCall) \/ \E r, j, q : Proceed(theta, Query(r, j, theta, q), NoCall)
    BY <2>1
  <2> QED  BY <1>2, <2>2, OpOfCall, NoCallIs
<1>7. CASE NextAnswer
  <2>1. PICK ans : \/ Proceed(ans, NoCall, NoCall)
                   \/ \E facts, r, j, thetas : Proceed(ans, AddFacts(facts), EvaluateFor(r, j, thetas))
    BY <1>7 DEF NextAnswer
  <2> QED  BY <1>2, <2>1, OpOfCall, NoCallIs
<1>8. CASE NextFact
  <2>1. \E i, v : Proceed(i, AddFact(v), NoCall)
    BY <1>8 DEF NextFact
  <2> QED  BY <1>2, <2>1, OpOfCall, NoCallIs
<1> QED  BY <1>3, <1>4, <1>5, <1>6, <1>7, <1>8

LEMMA EvaluateBodyAnswers ==
    ASSUME Setup, Typed, Answering, EvaluateBody
    PROVE  Answering'
<1>1. /\ In("evaluate") /\ Top.at < Len(Top.rule.body)
      /\ UNCHANGED adornVars /\ UNCHANGED <<queries, goal_solutions, inferred_facts>>
  BY DEF EvaluateBody
<1>2. PICK F, r, j : F = Top /\ r = F.rule /\ j = F.at
  OBVIOUS
<1>3. Running /\ Top.op # "conclude" /\ r \in program /\ j \in 0 .. Len(r.body) /\ IsAdRule(r)
  <2>1. EvaluateCall(Top) /\ answered # <<>>
    BY <1>1, TopCall
  <2> QED  BY <1>1, <1>2, <2>1, ProgramIs DEF In, EvaluateCall
<1>4. PICK theta : /\ evaluated' = evaluated \cup {<<r, j, theta>>}
                   /\ \E thetas : Proceed(theta, EvaluateFor(r, j + 1, thetas), Call(r, j, theta))
  BY <1>2 DEF EvaluateBody
<1>5. PICK thetas : Proceed(theta, EvaluateFor(r, j + 1, thetas), Call(r, j, theta))
  BY <1>4
<1>6. \A e \in evaluated' : e \in evaluated \/ ~IsWhole(e)
  <2>1. ASSUME NEW e, e = <<r, j, theta>> PROVE ~IsWhole(e)
    <3>1. e[1] = r /\ e[2] = j /\ j < Len(r.body) /\ Len(r.body) \in Nat
      BY <1>1, <1>2, <1>3, <2>1 DEF IsAdRule
    <3> QED  BY <1>3, <3>1 DEF IsWhole
  <2> QED  BY <1>4, <2>1
<1>7. PICK f, g : f = EvaluateFor(r, j + 1, thetas) /\ g = Call(r, j, theta)
  OBVIOUS
<1>8. f.op # "conclude" /\ g.op # "conclude" /\ Proceed(theta, f, g)
  BY <1>5, <1>7, OpOfCall
<1> QED  BY <1>1, <1>3, <1>4, <1>6, <1>8, QuietAnswers

LEMMA EvaluateHeadAnswers ==
    ASSUME Setup, Typed, Answering, EvaluateHead
    PROVE  Answering'
<1>1. /\ In("evaluate") /\ Top.at = Len(Top.rule.body) /\ UNCHANGED adornVars
      /\ UNCHANGED queries /\ Running /\ Top.op # "conclude"
  BY DEF EvaluateHead, In
<1>2. PICK r, j : r = Top.rule /\ j = Top.at
  OBVIOUS
<1>3. PICK theta \in Top.todo : \E h \in {Ground(r.head, theta)} :
         /\ evaluated' = evaluated \cup {<<r, j, theta>>}
         /\ IF IsNewHead(h)
              THEN /\ inferred_facts' = inferred_facts \cup {Fact(h)}
                   /\ Proceed(theta, AddFact(Fact(h)), Conclude(SolutionBy(r, theta)))
                   /\ UNCHANGED goal_solutions
              ELSE /\ goal_solutions' = goal_solutions \cup SolutionBy(r, theta)
                   /\ Proceed(theta, NoCall, NoCall)
                   /\ UNCHANGED inferred_facts
  BY <1>2 DEF EvaluateHead
<1>4. PICK x, S, e : x = Instance(r.head, theta) /\ S = SolutionBy(r, theta) /\ e = <<r, j, theta>>
  OBVIOUS
<1>5. /\ evaluated' = evaluated \cup {e}
      /\ \E f, g : /\ Proceed(theta, f, g) /\ f.op # "conclude"
                   /\ \/ /\ inferred_facts' = inferred_facts \cup {x}
                         /\ g = Conclude(S) /\ goal_solutions' = goal_solutions
                      \/ /\ g = NoCall /\ inferred_facts' = inferred_facts
                         /\ goal_solutions' = goal_solutions \cup S
  <2>1. NoCall.op = "none"
    BY DEF NoCall
  <2> QED  BY <1>3, <1>4, <2>1, OpOfCall DEF Instance
<1>6. PICK f, g : /\ Proceed(theta, f, g) /\ f.op # "conclude"
                  /\ \/ /\ inferred_facts' = inferred_facts \cup {x}
                        /\ g = Conclude(S) /\ goal_solutions' = goal_solutions
                     \/ /\ g = NoCall /\ inferred_facts' = inferred_facts
                        /\ goal_solutions' = goal_solutions \cup S
  BY <1>5
<1>7. /\ outcome # "raised" /\ outcome' \in {"running", "returned"}
      /\ \A G : Concluding(G)' => Concluding(G) \/ (G = g /\ g = Conclude(S) /\ goal_solutions' = goal_solutions)
      /\ g = Conclude(S) => Concluding(g)'
  <2>1. ~Concluding(Top) /\ ~Busy(NoCall)
    BY <1>1, NoCallIs DEF Concluding
  <2> QED  BY <1>1, <1>6, <2>1, ConcludingKept, OpOfCall DEF Running
<1>8. IsWhole(e) /\ e \in evaluated' /\ e[1] = r /\ e[3] = theta
  BY <1>1, <1>2, <1>4, <1>5 DEF IsWhole
<1>9. \A s \in S : FromBinding(s)'
  <2>1. SolutionBy(r, theta)' = S
    BY <1>1, <1>4, SolutionKept
  <2> QED  BY <1>8, <2>1 DEF FromBinding, IsWhole
<1>10. \A s : FromBinding(s) => FromBinding(s)'
  BY <1>1, <1>5, FromKept
<1>11. Gathered'
  <2>1. \A s \in goal_solutions' : FromBinding(s)'
    BY <1>6, <1>9, <1>10 DEF Answering, Gathered
  <2>2. ASSUME NEW G, Concluding(G)', NEW R \in G.todo, NEW s \in R PROVE FromBinding(s)'
    <3>1. CASE Concluding(G)
      BY <1>10, <2>2, <3>1 DEF Answering, Gathered
    <3>2. CASE G = Conclude(S)
      <4>1. R = S
        BY <2>2, <3>2, OpOfCall
      <4> QED  BY <1>9, <2>2, <4>1
    <3> QED  BY <1>7, <2>2, <3>1, <3>2
  <2> QED  BY <2>1, <2>2 DEF Gathered
<1>12. HeadsOnly'
  <2>1. ASSUME NEW v \in inferred_facts'
        PROVE  \E d \in evaluated' : IsWhole(d) /\ v = Instance(d[1].head, d[3])
    <3>1. CASE v \in inferred_facts
      BY <1>5, <3>1 DEF Answering, HeadsOnly
    <3>2. CASE v = x
      BY <1>4, <1>8, <3>2
    <3> QED  BY <1>6, <2>1, <3>1, <3>2
  <2> QED  BY <2>1 DEF HeadsOnly, IsWhole
<1>13. Noticed'
  <2>1. ASSUME Found' PROVE \E G : Concluding(G)'
    <3>1. CASE Found
      BY <1>1, <1>6, <1>7, <3>1, ReportKept DEF Answering, Noticed
    <3>2. CASE ~Found
      <4>1. g = Conclude(S)
        BY <1>1, <1>6, <2>1, <3>2, SolutionKept DEF Found
      <4> QED  BY <1>7, <4>1
    <3> QED  BY <3>1, <3>2
  <2> QED  BY <1>7, <2>1 DEF Noticed
<1>14. Reported'
  <2>1. \A R : IsReported(R) => IsReported(R)'
    BY <1>1, <1>6, ReportKept
  <2>2. IsReported(S)'
    <3>1. CASE g = Conclude(S)
      BY <1>7, <3>1, OpOfCall DEF IsReported
    <3>2. CASE goal_solutions' = goal_solutions \cup S
      BY <3>2 DEF IsReported
    <3> QED  BY <1>6, <3>1, <3>2
  <2>3. ASSUME NEW d \in evaluated', IsWhole(d), NEW t, t = d[1], NEW phi, phi = d[3]
        PROVE  IsReported(SolutionBy(t, phi))'
    <3>1. PICK R : R = SolutionBy(t, phi)
      OBVIOUS
    <3>2. R = SolutionBy(t, phi)'
      BY <1>1, <3>1, SolutionKept
    <3>3. IsReported(R) \/ R = S
      BY <1>4, <1>5, <1>7, <1>8, <2>3, <3>1 DEF Answering, Reported
    <3> QED  BY <2>1, <2>2, <3>2, <3>3 DEF IsReported
  <2> QED  BY <2>3 DEF Reported, IsWhole
<1>15. TopQuery' \in queries'
  BY <1>1, SolutionKept DEF Answering
<1> QED  BY <1>11, <1>12, <1>13, <1>14, <1>15 DEF Answering

LEMMA ConcludeAnswers ==
    ASSUME Setup, Typed, Answering, ConcludeStep
    PROVE  Answering'
<1>1. /\ Running /\ UNCHANGED adornVars /\ UNCHANGED <<queries, inferred_facts, evaluated>>
      /\ Top.op = "conclude" /\ outcome # "raised"
  BY DEF ConcludeStep, In, Running
<1>2. PICK S \in Top.todo :
         /\ goal_solutions' = goal_solutions \cup S
         /\ IF Found THEN stack' = <<>> /\ outcome' = "raised" ELSE Proceed(S, NoCall, NoCall)
  BY DEF ConcludeStep, Found
<1>3. Concluding(Top)
  BY <1>1, TopIs DEF Concluding
<1>4. \A s : FromBinding(s) => FromBinding(s)'
  BY <1>1, FromKept
<1>5. Found' = Found
  BY <1>1, SolutionKept DEF Found
<1>6. \A s \in goal_solutions' : FromBinding(s)'
  BY <1>2, <1>3, <1>4 DEF Answering, Gathered
<1>7. HeadsOnly' /\ TopQuery' \in queries'
  BY <1>1, SolutionKept DEF Answering, HeadsOnly, IsWhole
<1>8. CASE Found
  <2>1. \A G : ~Concluding(G)'
    BY <1>2, <1>8 DEF Concluding, ToSet
  <2> QED  BY <1>2, <1>5, <1>6, <1>7, <1>8, <2>1 DEF Answering, Gathered, Noticed
<1>9. CASE ~Found
  <2>1. Proceed(S, NoCall, NoCall) /\ ~Busy(NoCall)
    BY <1>2, <1>9, NoCallIs
  <2>2. outcome' \in {"running", "returned"}
    BY <1>1, <2>1, ConcludingKept
  <2>3. Noticed'
    BY <1>5, <1>9, <2>2 DEF Noticed
  <2>4. \A G : Concluding(G)' => Concluding(G) \/ G.todo = Top.todo \ {S}
    BY <1>1, <2>1, ConcludingKept
  <2>5. \A G, R : Concluding(G) /\ R \in G.todo => R = S \/ \E H : Concluding(H)' /\ R \in H.todo
    BY <1>1, <2>1, ConcludingKept
  <2>6. Gathered'
    <3>1. ASSUME NEW G, Concluding(G)', NEW R \in G.todo, NEW s \in R PROVE FromBinding(s)'
      BY <1>3, <1>4, <2>4, <3>1 DEF Answering, Gathered
    <3> QED  BY <1>6, <3>1 DEF Gathered
  <2>7. \A R : IsReported(R) => IsReported(R)'
    BY <1>2, <2>5 DEF IsReported
  <2>8. Reported'
    <3>1. ASSUME NEW d \in evaluated', IsWhole(d), NEW t, t = d[1], NEW phi, phi = d[3]
          PROVE  IsReported(SolutionBy(t, phi))'
      <4>1. PICK R : R = SolutionBy(t, phi)
        OBVIOUS
      <4>2. R = SolutionBy(t, phi)' /\ IsReported(R)
        BY <1>1, <3>1, <4>1, SolutionKept DEF Answering, Reported
      <4> QED  BY <2>7, <4>2 DEF IsReported
    <3> QED  BY <3>1 DEF Reported, IsWhole
  <2> QED  BY <1>7, <2>3, <2>6, <2>8 DEF Answering
<1> QED  BY <1>8, <1>9

LEMMA QuietSolutions ==
    ASSUME Setup, AnsweringInv, [StoreNext]_storeAll
    PROVE  \/ ProcedureStep
           \/ outcome' = "idle" /\ goal_solutions' = {}
           \/ UNCHANGED <<adornVars, bfpVars>>
<1>1. ASSUME UNCHANGED <<memVars, outcome>>, outcome = "idle"
      PROVE  outcome' = "idle" /\ goal_solutions' = {}
  BY <1>1 DEF AnsweringInv, memVars
<1>2. CASE \E req \in given.requests : Request(req)
  BY <1>2 DEF Request
<1>3. CASE \E f \in given.updates : Update(f)
  <2>1. outcome = "idle" /\ UNCHANGED <<memVars, outcome>>
    BY <1>3 DEF Update, Setup, OneGoal
  <2> QED  BY <1>1, <2>1
<1>4. CASE Yield \/ SolveBase
  BY <1>4 DEF Yield, SolveBase
<1>5. CASE SolveDerived \/ SolveNext
  <2>1. Between /\ \E g : AskFor(g)
    BY <1>5 DEF SolveDerived, SolveNext
  <2>2. outcome = "idle" /\ UNCHANGED <<memVars, outcome>>
    BY <2>1 DEF Between, Setup, OneGoal, AskFor
  <2> QED  BY <1>1, <2>2
<1>6. CASE AdornStep \/ Refuse
  <2>1. answered = <<>> /\ UNCHANGED bfpVars
    BY <1>6 DEF AdornStep, Refuse, Process, Finish, NoOrder, Adorning
  <2> QED  BY <1>1, <2>1 DEF bfpVars, Setup, OneGoal
<1>7. CASE BackwardStep
  BY <1>7 DEF BackwardStep
<1>8. CASE Resume \/ Take \/ TakeFirst
  <2>1. Forget
    BY <1>8 DEF Resume, Take, TakeFirst
  <2> QED  BY <2>1 DEF Forget
<1>9. CASE UNCHANGED storeAll
  BY <1>9 DEF storeAll
<1> QED  BY <1>2, <1>3, <1>4, <1>5, <1>6, <1>7, <1>8, <1>9 DEF StoreNext, StoreStep

LEMMA AnsweringStep ==
    ASSUME Setup, Typed, AnsweringInv, [StoreNext]_storeAll
    PROVE  AnsweringInv'
<1>1. CASE ProcedureStep
  <2>1. answered # <<>> /\ outcome' # "idle"
    BY <1>1, PosedKept, ProcedureQuiet
  <2>2. ~Start => Running
    BY <1>1 DEF ProcedureStep, BeginRule, JoinFact, EvaluateBody, EvaluateHead, Subquery,
         QueryBase, NextAnswer, NextFact, ConcludeStep, In
  <2>3. ~Start => Answering
    BY <2>1, <2>2 DEF AnsweringInv, Running
  <2>4. Answering'
    BY <1>1, <2>3, StartAnswers, OthersAnswer, EvaluateBodyAnswers, EvaluateHeadAnswers,
       ConcludeAnswers DEF ProcedureStep
  <2> QED  BY <2>1, <2>4 DEF AnsweringInv
<1>2. CASE outcome' = "idle" /\ goal_solutions' = {}
  BY <1>2 DEF AnsweringInv
<1>3. CASE UNCHANGED <<adornVars, bfpVars>>
  <2>1. /\ UNCHANGED adornVars /\ answered' = answered
        /\ UNCHANGED <<outcome, queries, stack, goal_solutions, evaluated, inferred_facts>>
    BY <1>3 DEF adornVars, bfpVars, memVars
  <2>2. SUFFICES ASSUME Answering PROVE Answering'
    BY <2>1, <2>2 DEF AnsweringInv
  <2>3. \A s : FromBinding(s) => FromBinding(s)'
    BY <2>1, FromKept
  <2>4. Gathered' /\ HeadsOnly'
    BY <2>1, <2>2, <2>3 DEF Answering, Gathered, Concluding, HeadsOnly, IsWhole
  <2>5. Noticed' /\ TopQuery' \in queries'
    <3>1. Found' = Found
      BY <2>1, SolutionKept DEF Found
    <3> QED  BY <2>1, <2>2, <3>1, SolutionKept DEF Answering, Noticed, Concluding
  <2>6. ASSUME outcome # "raised" PROVE Reported'
    <3>1. ASSUME NEW d \in evaluated', IsWhole(d), NEW t, t = d[1], NEW phi, phi = d[3]
          PROVE  IsReported(SolutionBy(t, phi))'
      <4>1. PICK R : R = SolutionBy(t, phi)
        OBVIOUS
      <4>2. R = SolutionBy(t, phi)' /\ IsReported(R)
        BY <2>1, <2>2, <2>6, <3>1, <4>1, SolutionKept DEF Answering, Reported
      <4> QED  BY <2>1, <4>2 DEF IsReported, Concluding
    <3> QED  BY <3>1 DEF Reported, IsWhole
  <2> QED  BY <2>1, <2>4, <2>5, <2>6 DEF Answering
<1> QED  BY <1>1, <1>2, <1>3, QuietSolutions

(***************************************************************************)
(* The goal: a pattern whose predicate is derived.                         *)
(***************************************************************************)

IDBPatterns == \A x \in ToSet(waiting) : IsIDB(x)
GoalDerived ==
    goal # <<>> => /\ IsIDB(goal)
                   /\ derived = IF given.preds = {} THEN DerivedPreds(given) ELSE given.preds

LEMMA DerivedAreIDB ==
    ASSUME NEW ps, IsPatterns(ps)
    PROVE  \A x \in ToSet(DerivedOf(ps)) : IsIDB(x)
<1> DEFINE n == Len(ps)
           S == {x \in ToSet(ps) : IsIDB(x)}
           s == [i \in 1 .. n |-> IF IsIDB(ps[i]) THEN <<ps[i]>> ELSE <<>>]
<1>1. DOMAIN ps = 1 .. n /\ n \in Nat
  BY DEF IsPatterns
<1>2. DerivedOf(ps) = FlattenSeq(s \o <<>>)
  BY <1>1 DEF DerivedOf, Only, Map
<1>3. s \in [1 .. n -> Seq(S)]
  <2>1. ASSUME NEW i \in 1 .. n
        PROVE  (IF IsIDB(ps[i]) THEN <<ps[i]>> ELSE <<>>) \in Seq(S)
    <3>1. IsIDB(ps[i]) => ps[i] \in S
      BY <1>1 DEF ToSet
    <3> HIDE DEF S
    <3>2. <<>> \in Seq(S) /\ (IsIDB(ps[i]) => <<ps[i]>> \in Seq(S))
      BY <3>1
    <3> QED  BY <3>2
  <2> QED  BY <2>1
<1>4. s = [i \in 1 .. n |-> s[i]]
  OBVIOUS
<1> HIDE DEF s, n
<1>5. s \o <<>> = s
  BY <1>1, <1>4, AppendNothing
<1>6. \A x \in S : IsIDB(x)
  OBVIOUS
<1> HIDE DEF S
<1>7. FlattenSeq(s) \in Seq(S)
  BY <1>1, <1>3, FlattenHas
<1>8. ToSet(DerivedOf(ps)) \subseteq S
  BY <1>2, <1>5, <1>7, RangeFinite
<1> QED  BY <1>6, <1>8

LEMMA TailOfPatterns ==
    ASSUME NEW ps, IsPatterns(ps), ps # <<>>
    PROVE  Head(ps) \in ToSet(ps) /\ ToSet(Tail(ps)) \subseteq ToSet(ps)
<1>1. PICK S : S = ToSet(ps)
  OBVIOUS
<1>2. Head(ps) \in S /\ Tail(ps) \in Seq(S)
  BY <1>1 DEF IsPatterns
<1> QED  BY <1>1, <1>2, RangeFinite

LEMMA IDBStep ==
    ASSUME Setup, IDBPatterns, [StoreNext]_storeAll
    PROVE  IDBPatterns'
<1>1. given' = given
  BY DEF StoreNext, StoreStep, Request, Update, Yield, SolveBase, SolveDerived, SolveNext, AdornStep,
         Refuse, BackwardStep, Resume, Take, TakeFirst, storeAll, adornVars, AskFor, Ask, Process,
         Finish, NoOrder, Forget, ProcedureStep, Start, BeginRule, JoinFact, EvaluateBody,
         EvaluateHead, Subquery, QueryBase, NextAnswer, NextFact, ConcludeStep
<1>2. \A x : IsIDB(x)' = IsIDB(x)
  BY <1>1 DEF IsIDB
<1>3. ToSet(<<>>) = {}
  BY DEF ToSet
<1>4. SUFFICES \A x \in ToSet(waiting') : IsIDB(x)
  BY <1>2 DEF IDBPatterns
<1>5. CASE waiting' \in {waiting, <<>>}
  BY <1>3, <1>5 DEF IDBPatterns
<1>6. CASE \E req \in given.requests : Request(req)
  <2>1. PICK req \in given.requests : Request(req)
    BY <1>6
  <2>2. IsPatterns(Extract(req.where))
    BY <2>1, RequestsAssumption, ExtractPatterns DEF Setup, IInv, Setting
  <2>3. waiting' \in {waiting, <<>>, DerivedOf(Extract(req.where))}
    <3>1. \A r : Solve(r) => waiting' \in {<<>>, DerivedOf(r.patterns)}
      BY DEF Solve, SolveAsk, SolveSelect
    <3> QED  BY <2>1, <3>1 DEF Request, Unify, Interlocute, StartUnify
  <2> QED  BY <1>5, <2>2, <2>3, DerivedAreIDB
<1>7. CASE Take \/ TakeFirst
  <2>1. waiting # <<>> /\ waiting' \in {waiting, <<>>, Tail(waiting)}
    BY <1>7 DEF Take, TakeFirst, Give
  <2> QED  BY <1>5, <2>1, TailOfPatterns DEF Setup, Patterns, IDBPatterns
<1>8. CASE StoreStep /\ ~Take /\ ~TakeFirst
  BY <1>5, <1>8 DEF StoreStep, Yield, SolveBase, SolveDerived, SolveNext, AdornStep, Refuse,
        BackwardStep, Resume, Give, storeVars
<1>9. CASE \E f \in given.updates : Update(f)
  BY <1>5, <1>9 DEF Update, storeVars
<1>10. CASE UNCHANGED storeAll
  BY <1>5, <1>10 DEF storeAll, storeVars
<1> QED  BY <1>6, <1>7, <1>8, <1>9, <1>10 DEF StoreNext

LEMMA GoalStep ==
    ASSUME Setup, IDBPatterns, GoalDerived, [StoreNext]_storeAll
    PROVE  GoalDerived'
<1>1. CASE UNCHANGED <<given, goal, derived>>
  BY <1>1 DEF GoalDerived, IsIDB, DerivedPreds
<1>2. CASE goal' = <<>>
  BY <1>2 DEF GoalDerived
<1>3. ASSUME NEW g, IsIDB(g), AskFor(g) PROVE GoalDerived'
  <2>1. given' = given /\ goal' = g
        /\ derived' = IF given.preds = {} THEN DerivedPreds(given) ELSE given.preds
    BY <1>3 DEF AskFor, Ask
  <2> QED  BY <1>3, <2>1 DEF GoalDerived, IsIDB, DerivedPreds
<1>4. CASE SolveDerived
  BY <1>3, <1>4 DEF SolveDerived
<1>5. CASE SolveNext
  <2>1. waiting # <<>> /\ AskFor(Head(waiting))
    BY <1>5 DEF SolveNext
  <2> QED  BY <1>3, <2>1, TailOfPatterns DEF Setup, Patterns, IDBPatterns
<1>6. CASE Refuse \/ Resume \/ Take \/ TakeFirst
  BY <1>2, <1>6 DEF Refuse, NoOrder, Resume, Take, TakeFirst, Forget
<1>7. CASE BackwardStep
  <2>1. UNCHANGED adornVars
    BY <1>7, ProcedureQuiet DEF BackwardStep
  <2> QED  BY <1>1, <2>1 DEF adornVars
<1>8. CASE AdornStep \/ Yield \/ SolveBase
  BY <1>1, <1>8 DEF AdornStep, Process, Finish, Yield, SolveBase, adornVars
<1>9. CASE \E req \in given.requests : Request(req)
  BY <1>1, <1>9 DEF Request, adornVars
<1>10. CASE \E f \in given.updates : Update(f)
  BY <1>1, <1>10 DEF Update, adornVars
<1>11. CASE UNCHANGED storeAll
  BY <1>1, <1>11 DEF storeAll, adornVars
<1> QED  BY <1>4, <1>5, <1>6, <1>7, <1>8, <1>9, <1>10, <1>11 DEF StoreNext, StoreStep

(***************************************************************************)
(* What GoalSolutionAction collects.                                       *)
(***************************************************************************)

LEMMA EmptyFunction ==
    ASSUME NEW f, f = [x \in DOMAIN f |-> f[x]], DOMAIN f = {}
    PROVE  f = <<>>
<1>1. DOMAIN <<>> = {} /\ <<>> \in [{} -> {}]
  OBVIOUS
<1>2. PICK g : g = <<>>
  OBVIOUS
<1>3. g = [x \in {} |-> g[x]]
  BY <1>1, <1>2
<1>4. \A x \in {} : f[x] = g[x]
  OBVIOUS
<1>5. [x \in {} |-> f[x]] = [x \in {} |-> g[x]]
  OBVIOUS
<1> QED  BY <1>2, <1>3, <1>5

\* A variable at the place of another one of the other literal is mapped to that.
LEMMA MappingIs ==
    ASSUME NEW l, NEW g, DOMAIN l.args \subseteq Nat, SingleVars(l)
    PROVE  /\ \A v \in DOMAIN VarMapping(l, g) : \E i \in DOMAIN l.args :
                 l.args[i] = v /\ g.args[i] \in Var \ {v}
           /\ \A i \in DOMAIN l.args : l.args[i] \in Var /\ g.args[i] \in Var \ {l.args[i]} =>
                 /\ l.args[i] \in DOMAIN VarMapping(l, g)
                 /\ VarMapping(l, g)[l.args[i]] = g.args[i]
<1> DEFINE renamed == {v \in VarsOf(l) : \E i \in DOMAIN l.args :
                          l.args[i] = v /\ g.args[i] \in Var \ {v}}
           Place(i, v) == /\ i \in DOMAIN l.args /\ l.args[i] = v /\ g.args[i] \in Var \ {v}
                          /\ \A j \in DOMAIN l.args :
                                l.args[j] = v /\ g.args[j] \in Var \ {v} => j <= i
           at(v) == CHOOSE i : Place(i, v)
           atIn(v) == CHOOSE i \in DOMAIN l.args :
                    /\ l.args[i] = v /\ g.args[i] \in Var \ {v}
                    /\ \A j \in DOMAIN l.args :
                          l.args[j] = v /\ g.args[j] \in Var \ {v} => j <= i
<1>1. VarMapping(l, g) = [v \in renamed |-> g.args[atIn(v)]]
  BY DEF VarMapping
<1>2. \A v : (\E i : Place(i, v)) => Place(atIn(v), v)
  OBVIOUS
<1>3. ASSUME NEW i \in DOMAIN l.args, l.args[i] \in Var, g.args[i] \in Var \ {l.args[i]}
      PROVE  l.args[i] \in renamed /\ atIn(l.args[i]) = i
  <2>1. PICK v : v = l.args[i]
    OBVIOUS
  <2>2. v \in renamed
    BY <1>3, <2>1 DEF VarsOf, Args, ToSet
  <2>3. i <= i
    BY <1>3
  <2>4. \A j \in DOMAIN l.args : l.args[j] = v => j = i
    BY <1>3, <2>1 DEF SingleVars
  <2>5. Place(i, v)
    BY <1>3, <2>1, <2>3, <2>4
  <2>6. Place(atIn(v), v)
    BY <1>2, <2>5
  <2>7. atIn(v) = i
    BY <2>4, <2>6
  <2> QED  BY <2>1, <2>2, <2>7
<1>4. \A v \in renamed : \E i \in DOMAIN l.args : l.args[i] = v /\ g.args[i] \in Var \ {v}
  OBVIOUS
<1>5. PICK m : m = VarMapping(l, g)
  OBVIOUS
<1> HIDE DEF renamed, atIn
<1>6. DOMAIN m = renamed /\ \A v \in renamed : m[v] = g.args[atIn(v)]
  BY <1>1, <1>5
<1>7. \A i \in DOMAIN l.args : l.args[i] \in Var /\ g.args[i] \in Var \ {l.args[i]} =>
         l.args[i] \in DOMAIN m /\ m[l.args[i]] = g.args[i]
  BY <1>3, <1>6
<1> QED  BY <1>4, <1>5, <1>6, <1>7

LEMMA SolutionOfSame ==
    ASSUME NEW r, NEW theta, r.head.op = Asked.op,
           \A i \in DOMAIN r.head.args : r.head.args[i] \in Var =>
               Asked.args[i] \notin Var \ {r.head.args[i]}
    PROVE  \A s \in SolutionBy(r, theta) : s = <<>>
<1> DEFINE m == VarMapping(r.head, Asked)
           at(w) == CHOOSE v \in DOMAIN m : m[v] = w
           D == {m[v] : v \in DOMAIN m \cap DOMAIN theta}
           f == [w \in D |-> theta[at(w)]]
<1>1. SolutionBy(r, theta) = {f}
  BY DEF SolutionBy
<1>2. DOMAIN m = {}
  BY DEF VarMapping, VarsOf
<1>3. D = {}
  BY <1>2
<1>4. DOMAIN f = D /\ f = [w \in DOMAIN f |-> f[w]]
  OBVIOUS
<1> HIDE DEF f, D
<1>5. f = <<>>
  BY <1>3, <1>4, EmptyFunction
<1> QED  BY <1>1, <1>5

LEMMA SolutionOfOther ==
    ASSUME NEW r, NEW a, a = Asked, IsAdLiteral(r.head), SingleVars(r.head), IsAdLiteral(a), SingleVars(a),
           r.head.op = a.op, DOMAIN r.head.args = DOMAIN a.args,
           \A i \in DOMAIN a.args : a.args[i] \in Var => r.head.args[i] \in Var \ {a.args[i]},
           NEW theta, DOMAIN theta \subseteq Var, VarsOf(r.head) \subseteq DOMAIN theta,
           NEW f, f = Instance(r.head, theta)
    PROVE  SolutionBy(r, theta) = {BoundBy(a, f)}
<1> DEFINE m == VarMapping(r.head, a)
           at(w) == CHOOSE v \in DOMAIN m : m[v] = w
           D == {m[v] : v \in DOMAIN m \cap DOMAIN theta}
           s == [w \in D |-> theta[at(w)]]
<1>1. SolutionBy(r, theta) = {s}
  BY DEF SolutionBy
<1>2. PICK h : h = r.head
  OBVIOUS
<1>3. /\ DOMAIN h.args \subseteq Nat /\ DOMAIN a.args \subseteq Nat
      /\ f.args = [i \in DOMAIN h.args |-> Value(h.args[i], theta)]
  BY <1>2, AdArgs, InstanceIs
<1>4. /\ \A v \in DOMAIN m : \E i \in DOMAIN h.args : h.args[i] = v /\ a.args[i] \in Var \ {v}
      /\ \A i \in DOMAIN a.args : a.args[i] \in Var =>
            /\ h.args[i] \in DOMAIN m /\ m[h.args[i]] = a.args[i]
            /\ h.args[i] \in VarsOf(h)
  <2>1. \A i \in DOMAIN h.args : h.args[i] \in Var => h.args[i] \in VarsOf(h)
    BY DEF VarsOf, Args, ToSet
  <2> QED  BY <1>2, <1>3, <2>1, MappingIs
<1> HIDE DEF m
<1>5. \A v \in DOMAIN m : m[v] \in VarsOf(a)
  <2>1. ASSUME NEW v \in DOMAIN m PROVE m[v] \in VarsOf(a)
    <3>1. PICK i \in DOMAIN h.args : h.args[i] = v /\ a.args[i] \in Var \ {v}
      BY <1>4
    <3>2. m[v] = a.args[i] /\ i \in DOMAIN a.args
      BY <1>2, <1>4, <3>1
    <3> QED  BY <3>1, <3>2 DEF VarsOf, Args, ToSet
  <2> QED  BY <2>1
<1>6. ASSUME NEW i \in DOMAIN a.args, a.args[i] \in Var
      PROVE  a.args[i] \in D /\ at(a.args[i]) = h.args[i]
  <2>1. PICK w : w = a.args[i]
    OBVIOUS
  <2>2. h.args[i] \in DOMAIN m \cap DOMAIN theta /\ m[h.args[i]] = w
    BY <1>2, <1>4, <1>6, <2>1
  <2>3. at(w) \in DOMAIN m /\ m[at(w)] = w
    BY <2>2
  <2>4. PICK v : v = at(w)
    OBVIOUS
  <2>5. PICK k \in DOMAIN h.args : h.args[k] = v /\ a.args[k] \in Var \ {v}
    BY <1>4, <2>3, <2>4
  <2>6. m[v] = a.args[k] /\ k \in DOMAIN a.args
    BY <1>2, <1>4, <2>5
  <2>7. k = i
    BY <1>6, <2>1, <2>3, <2>4, <2>5, <2>6 DEF SingleVars
  <2> QED  BY <2>1, <2>2, <2>4, <2>5, <2>7
<1>7. VarsOf(a) = D
  <2>1. ASSUME NEW w \in VarsOf(a) PROVE w \in D
    <3>1. PICK i \in DOMAIN a.args : a.args[i] = w /\ w \in Var
      BY DEF VarsOf, Args, ToSet
    <3> QED  BY <1>6, <3>1
  <2> QED  BY <1>5, <2>1
<1>8. ASSUME NEW w \in VarsOf(a) PROVE theta[at(w)] = BoundBy(a, f)[w]
  <2>1. PICK i \in DOMAIN a.args : a.args[i] = w /\ w \in Var
    BY DEF VarsOf, Args, ToSet
  <2>2. at(w) = h.args[i]
    BY <1>6, <2>1
  <2>3. h.args[i] \in DOMAIN theta
    BY <1>2, <1>4, <2>1
  <2>4. f.args[i] = theta[h.args[i]]
    BY <1>2, <1>3, <2>1, <2>3 DEF Value
  <2>5. BoundBy(a, f)[w] = f.args[i]
    BY <1>3, <2>1, BoundPlace
  <2> QED  BY <2>2, <2>4, <2>5
<1>9. BoundBy(a, f) = [w \in VarsOf(a) |-> BoundBy(a, f)[w]]
  BY DEF BoundBy
<1> HIDE DEF D, at
<1>10. s = [w \in VarsOf(a) |-> theta[at(w)]]
  BY <1>7
<1>11. s = BoundBy(a, f)
  BY <1>8, <1>9, <1>10
<1> QED  BY <1>1, <1>11

(***************************************************************************)
(* The answers of a call that has ended.                                   *)
(***************************************************************************)

LEMMA WholeHead ==
    ASSUME Setup, Typed, answered # <<>>, Posed, NEW e \in evaluated, IsWhole(e),
           NEW h, h = e[1].head, NEW theta, theta = e[3]
    PROVE  /\ e[1] \in program /\ IsAdLiteral(h) /\ SingleVars(h)
           /\ DOMAIN theta \subseteq Var /\ VarsOf(h) \subseteq DOMAIN theta
           /\ IsGroundFact(Instance(h, theta)) /\ IsGround(Ground(h, theta))
<1>1. PICK r, n : r = e[1] /\ n = Len(r.body)
  OBVIOUS
<1>2. r \in program /\ Covers(theta, r, n) /\ n \in 0 .. Len(r.body)
  <2>1. IsEvaluated(e)
    BY DEF Typed
  <2> QED  BY <1>1, <2>1 DEF IsEvaluated, IsWhole
<1>3. FitRule(r) /\ IsAdRule(r) /\ IsAdLiteral(h)
  <2>1. FitRule(r)
    BY <1>2, ProgramFits
  <2> QED  BY <1>1, <2>1 DEF FitRule, IsAdRule
<1>4. /\ DOMAIN theta \subseteq Var
      /\ \A i \in 1 .. n : VarsOf(r.body[i]) \subseteq DOMAIN theta
  BY <1>2, <1>3, CoversVars
<1>5. VarsOf(h) \subseteq DOMAIN theta
  <2>1. DOMAIN r.body = 1 .. n
    BY <1>1, <1>3 DEF IsAdRule
  <2>2. VarsOf(h) \subseteq VarsOfAll(r.body)
    BY <1>1, <1>3 DEF FitRule
  <2> QED  BY <1>4, <2>1, <2>2 DEF VarsOfAll
<1>6. \A v \in DOMAIN theta : theta[v] \notin Var
  BY <1>2 DEF Covers, Binds1
<1>7. IsGroundFact(Instance(h, theta))
  BY <1>3, <1>4, <1>5, <1>6, GroundInstance
<1>8. IsGround(Ground(h, theta))
  <2>1. PICK g, x : g = Ground(h, theta) /\ x = Instance(h, theta)
    OBVIOUS
  <2>2. x.args = g.args
    BY <2>1 DEF Instance, Fact
  <2>3. ToSet(x.args) \cap Var = {}
    BY <1>7, <2>1 DEF IsGroundFact
  <2> QED  BY <2>1, <2>2, <2>3 DEF IsGround, VarsOf, Args
<1> QED  BY <1>1, <1>2, <1>3, <1>4, <1>5, <1>7, <1>8 DEF FitRule

LEMMA SolutionsAre ==
    ASSUME NEW a, IsAdLiteral(a), NEW K
    PROVE  Solutions(a, K) = {theta \in [VarsOf(a) -> Terms(K)] : Instance(a, theta) \in K}
BY DEF Solutions, Instance

\* Terms of a solution come from the fact it makes.
LEMMA MoreSolutions ==
    ASSUME NEW a, IsAdLiteral(a), NEW K, NEW M,
           \A theta \in Solutions(a, K) : Instance(a, theta) \in M
    PROVE  Solutions(a, K) \subseteq Solutions(a, M)
<1>1. SUFFICES ASSUME NEW theta \in Solutions(a, K) PROVE theta \in Solutions(a, M)
  OBVIOUS
<1>2. theta \in [VarsOf(a) -> Terms(K)] /\ Instance(a, theta) \in M
  BY <1>1, SolutionsAre
<1>3. theta \in [VarsOf(a) -> Terms(M)]
  BY <1>2, TermsOfSolution
<1> QED  BY <1>2, <1>3, SolutionsAre

\* What holds of the goal's predicate has been inferred, for the query asks for it.
LEMMA AskedInferred ==
    ASSUME Setup, Typed, Owes, answered # <<>>, stack = <<>>, Posed, TopQuery \in queries,
           Asked.op \in derived, NEW theta, DOMAIN theta \subseteq Var,
           Instance(Asked, theta) \in ProgramModel
    PROVE  Instance(Asked, theta) \in inferred_facts
<1>1. PICK q, a, x : q = Asked /\ a = AdornLiteral(q) /\ x = Instance(q, theta)
  OBVIOUS
<1>2. /\ IsLiteral(q) /\ IsAdLiteral(q) /\ IsAdLiteral(a) /\ IsAdorned(a)
      /\ TopQuery = [op |-> <<a.op, a.ad>>, args |-> [i \in BoundPlaces(a) |-> q.args[i]]]
  BY <1>1, TopQueryIs, LiteralIsAdLiteral
<1>3. /\ a.op = q.op /\ a.args = q.args
      /\ a.ad = [i \in DOMAIN q.args |-> IF q.args[i] \in Var THEN "f" ELSE "b"]
  <2>1. q = [op |-> q.op, args |-> q.args, ad |-> <<>>, naf |-> q.naf]
    BY <1>2 DEF IsLiteral, Adorned
  <2> QED  BY <1>1, <2>1 DEF AdornLiteral
<1>4. /\ x.op = q.op /\ x.args = [i \in DOMAIN q.args |-> Value(q.args[i], theta)]
      /\ Len(x.args) = Len(q.args)
  BY <1>1, <1>2, InstanceIs
<1>5. x \in Delivered /\ x \notin edb
  BY <1>1, <1>4, ModelDelivered DEF Posed
<1>6. BoundPlaces(a) = {k \in DOMAIN x.args : a.ad[k] = "b"}
  BY <1>2, <1>3, <1>4 DEF BoundPlaces
<1>7. ASSUME NEW i \in BoundPlaces(a) PROVE x.args[i] = q.args[i]
  <2>1. i \in DOMAIN q.args /\ q.args[i] \notin Var
    BY <1>3, <1>4, <1>6, <1>7
  <2> QED  BY <1>4, <2>1 DEF Value
<1>8. AsksFor(x, a.ad) = TopQuery
  <2>1. [i \in BoundPlaces(a) |-> q.args[i]] = [i \in BoundPlaces(a) |-> x.args[i]]
    BY <1>7
  <2>2. TopQuery = [op |-> <<x.op, a.ad>>, args |-> [i \in BoundPlaces(a) |-> x.args[i]]]
    BY <1>2, <1>3, <1>4, <2>1
  <2> QED  BY <1>6, <2>2 DEF AsksFor
<1>9. Len(a.ad) = Len(x.args)
  BY <1>2, <1>3, <1>4 DEF IsAdLiteral, Arity
<1> QED  BY <1>1, <1>5, <1>8, <1>9 DEF Delivered

LEMMA InferredSolutions ==
    ASSUME Setup, Typed, Sound, Owes, answered # <<>>, stack = <<>>, Posed, TopQuery \in queries,
           Asked.op \in derived
    PROVE  Solutions(Asked, inferred_facts) = Solutions(Asked, ProgramModel)
<1>1. PICK a, I, M : a = Asked /\ I = inferred_facts /\ M = ProgramModel
  OBVIOUS
<1>2. IsAdLiteral(a)
  BY <1>1, TopQueryIs, LiteralIsAdLiteral
<1>3. I \subseteq M
  BY <1>1 DEF Sound, Wanted, ProgramModel
<1>4. Solutions(a, I) \subseteq Solutions(a, M)
  <2>1. \A theta \in Solutions(a, I) : Instance(a, theta) \in M
    BY <1>2, <1>3, SolutionsAre
  <2> QED  BY <1>2, <2>1, MoreSolutions
<1>5. Solutions(a, M) \subseteq Solutions(a, I)
  <2>1. ASSUME NEW theta \in Solutions(a, M) PROVE Instance(a, theta) \in I
    <3>1. theta \in [VarsOf(a) -> Terms(M)] /\ Instance(a, theta) \in M
      BY <1>2, SolutionsAre
    <3>2. DOMAIN theta \subseteq Var
      BY <3>1 DEF VarsOf
    <3> QED  BY <1>1, <3>1, <3>2, AskedInferred
  <2> QED  BY <1>2, <2>1, MoreSolutions
<1> QED  BY <1>1, <1>4, <1>5

\* A goal without variables has the empty binding for a solution, if it holds.
LEMMA GroundSolutions ==
    ASSUME NEW a, IsAdLiteral(a), IsGround(a), NEW K
    PROVE  Solutions(a, K) = {s \in {<<>>} : Fact(a) \in K}
<1>1. VarsOf(a) = {}
  BY DEF IsGround
<1>2. \A s \in [VarsOf(a) -> Terms(K)] : s = <<>>
  BY <1>1, EmptyFunction
<1>3. <<>> \in [VarsOf(a) -> Terms(K)]
  BY <1>1
<1>4. PICK e : e = <<>>
  OBVIOUS
<1>5. DOMAIN e = {}
  BY <1>4
<1>6. Instance(a, e) = Fact(a)
  <2>1. \A i \in DOMAIN a.args : Value(a.args[i], e) = a.args[i]
    BY <1>5 DEF Value
  <2>2. IsFact(Instance(a, e)) /\ Instance(a, e).op = a.op
        /\ Instance(a, e).args = [i \in DOMAIN a.args |-> Value(a.args[i], e)]
    BY InstanceIs
  <2>3. a.args = [i \in DOMAIN a.args |-> a.args[i]]
    BY DEF IsAdLiteral
  <2>4. Instance(a, e).args = a.args
    BY <2>1, <2>2, <2>3
  <2> QED  BY <2>2, <2>4 DEF IsFact, Fact
<1>7. Solutions(a, K) = {s \in [VarsOf(a) -> Terms(K)] : Instance(a, s) \in K}
  BY SolutionsAre
<1> QED  BY <1>2, <1>3, <1>4, <1>6, <1>7

LEMMA FromItsHead ==
    ASSUME Setup, Typed, Answering, answered # <<>>, NEW s, FromBinding(s)
    PROVE  \E e \in evaluated : /\ IsWhole(e) /\ s \in SolutionBy(e[1], e[3])
                                /\ e[1] \in program /\ e[1].head.op = Asked.op
<1>1. PICK e \in evaluated : IsWhole(e) /\ s \in SolutionBy(e[1], e[3])
  BY DEF FromBinding
<1>2. e[1].head.op = Asked.op
  BY <1>1 DEF SolutionBy
<1>3. e[1] \in program
  BY DEF Typed, IsEvaluated
<1> QED  BY <1>1, <1>2, <1>3

LEMMA SameSolutions ==
    ASSUME Setup, Typed, Answering, answered # <<>>, SameNames
    PROVE  \A s \in goal_solutions : s = <<>>
<1>1. SUFFICES ASSUME NEW s \in goal_solutions PROVE s = <<>>
  OBVIOUS
<1>2. PICK e \in evaluated : /\ s \in SolutionBy(e[1], e[3]) /\ e[1] \in program
                             /\ e[1].head.op = Asked.op
  BY FromItsHead DEF Answering, Gathered
<1>3. PICK r, theta : r = e[1] /\ theta = e[3]
  OBVIOUS
<1>4. \A i \in DOMAIN r.head.args : r.head.args[i] \in Var =>
         Asked.args[i] \notin Var \ {r.head.args[i]}
  BY <1>2, <1>3 DEF SameNames
<1> QED  BY <1>2, <1>3, <1>4, SolutionOfSame

\* With other names a binding's solution is the one that makes its head the goal's.
LEMMA OtherSolution ==
    ASSUME Setup, Typed, Sound, Owes, answered # <<>>, Posed, OtherNames,
           NEW e \in evaluated, IsWhole(e), e[1].head.op = Asked.op,
           NEW f, f = Instance(e[1].head, e[3])
    PROVE  /\ f \in inferred_facts /\ IsGroundFact(f) /\ Passes(Asked, f)
           /\ SolutionBy(e[1], e[3]) = {BoundBy(Asked, f)}
<1>1. PICK a, r, theta : a = Asked /\ r = e[1] /\ theta = e[3]
  OBVIOUS
<1>2. /\ r \in program /\ IsAdLiteral(r.head) /\ SingleVars(r.head)
      /\ DOMAIN theta \subseteq Var /\ VarsOf(r.head) \subseteq DOMAIN theta
      /\ IsGroundFact(f) /\ IsGround(Ground(r.head, theta))
  BY <1>1, WholeHead
<1>3. f \in inferred_facts
  BY <1>1, <1>2 DEF Owes, HeadsInferred, IsWhole
<1>4. f.op = a.op
  BY <1>1, <1>2, InstanceIsFact
<1>5. Passes(a, f)
  BY <1>1, <1>3, <1>4 DEF OtherNames, Sound
<1>6. /\ SingleVars(a) /\ DOMAIN r.head.args = DOMAIN a.args
      /\ \A i \in DOMAIN a.args : a.args[i] \in Var => r.head.args[i] \in Var \ {a.args[i]}
  BY <1>1, <1>2 DEF OtherNames
<1>7. IsAdLiteral(a)
  BY <1>1, TopQueryIs, LiteralIsAdLiteral
<1>8. SolutionBy(r, theta) = {BoundBy(a, f)}
  BY <1>1, <1>2, <1>6, <1>7, SolutionOfOther
<1> QED  BY <1>1, <1>2, <1>3, <1>5, <1>8

LEMMA BoundIsSolution ==
    ASSUME NEW a, IsAdLiteral(a), SingleVars(a), NEW f, IsGroundFact(f), Passes(a, f), NEW K, f \in K
    PROVE  BoundBy(a, f) \in Solutions(a, K)
<1>1. PICK s : s = BoundBy(a, f)
  OBVIOUS
<1>2. DOMAIN s = VarsOf(a) /\ DOMAIN s \subseteq Var
  BY <1>1 DEF BoundBy, VarsOf
<1>3. Extends(s, BoundBy(a, f))
  BY <1>1 DEF Extends, Agrees
<1>4. Instance(a, s) = f
  BY <1>2, <1>3, JoinHolds
<1>5. s = [v \in VarsOf(a) |-> s[v]]
  BY <1>1 DEF BoundBy
<1>6. PICK S : S = {s[v] : v \in VarsOf(a)}
  OBVIOUS
<1>7. s \in [VarsOf(a) -> S]
  BY <1>5, <1>6
<1>8. s \in [VarsOf(a) -> Terms(K)]
  BY <1>4, <1>7, TermsOfSolution
<1> QED  BY <1>1, <1>4, <1>8, SolutionsAre

LEMMA SolutionIsBound ==
    ASSUME NEW a, IsAdLiteral(a), SingleVars(a), NEW K, NEW theta \in Solutions(a, K)
    PROVE  theta = BoundBy(a, Instance(a, theta))
<1>1. PICK f : f = Instance(a, theta)
  OBVIOUS
<1>2. theta \in [VarsOf(a) -> Terms(K)]
  BY SolutionsAre
<1>3. f.args = [i \in DOMAIN a.args |-> Value(a.args[i], theta)]
  BY <1>1, InstanceIs
<1>4. ASSUME NEW v \in VarsOf(a) PROVE theta[v] = BoundBy(a, f)[v]
  <2>1. PICK i \in DOMAIN a.args : a.args[i] = v /\ v \in Var
    BY DEF VarsOf, Args, ToSet
  <2>2. BoundBy(a, f)[v] = f.args[i]
    BY <2>1, AdArgs, BoundPlace
  <2>3. f.args[i] = theta[v]
    BY <1>2, <1>3, <2>1 DEF Value
  <2> QED  BY <2>2, <2>3
<1>5. BoundBy(a, f) = [v \in VarsOf(a) |-> BoundBy(a, f)[v]]
  BY DEF BoundBy
<1>6. theta = [v \in VarsOf(a) |-> theta[v]]
  BY <1>2
<1> QED  BY <1>1, <1>4, <1>5, <1>6

LEMMA OtherSolutions ==
    ASSUME Setup, Typed, Sound, Owes, Answering, answered # <<>>, stack = <<>>,
           outcome # "raised", Posed, OtherNames
    PROVE  goal_solutions = Solutions(Asked, inferred_facts)
<1>1. PICK a, I : a = Asked /\ I = inferred_facts
  OBVIOUS
<1>2. IsAdLiteral(a) /\ SingleVars(a)
  BY <1>1, TopQueryIs, LiteralIsAdLiteral DEF OtherNames
<1>3. ASSUME NEW s \in goal_solutions PROVE s \in Solutions(a, I)
  <2>1. PICK e \in evaluated : /\ IsWhole(e) /\ s \in SolutionBy(e[1], e[3])
                               /\ e[1].head.op = Asked.op
    BY <1>3, FromItsHead DEF Answering, Gathered
  <2>2. PICK f : f = Instance(e[1].head, e[3])
    OBVIOUS
  <2>3. f \in I /\ IsGroundFact(f) /\ Passes(a, f) /\ s = BoundBy(a, f)
    BY <1>1, <2>1, <2>2, OtherSolution
  <2> QED  BY <1>2, <2>3, BoundIsSolution
<1>4. ASSUME NEW s \in Solutions(a, I) PROVE s \in goal_solutions
  <2>1. PICK f : f = Instance(a, s)
    OBVIOUS
  <2>2. f \in I /\ f.op = a.op /\ s = BoundBy(a, f)
    BY <1>2, <2>1, SolutionsAre, SolutionIsBound, InstanceIsFact
  <2>3. PICK e \in evaluated : IsWhole(e) /\ f = Instance(e[1].head, e[3])
    BY <1>1, <2>2 DEF Answering, HeadsOnly
  <2>4. e[1].head.op = Asked.op
    <3>1. IsAdLiteral(e[1].head)
      BY <2>3, WholeHead
    <3> QED  BY <1>1, <2>2, <2>3, <3>1, InstanceIsFact
  <2>5. SolutionBy(e[1], e[3]) = {s}
    BY <1>1, <2>2, <2>3, <2>4, OtherSolution
  <2>6. \A G : ~Concluding(G)
    BY DEF Concluding, ToSet
  <2>7. SolutionBy(e[1], e[3]) \subseteq goal_solutions
    BY <2>3, <2>6 DEF Answering, Reported, IsReported
  <2> QED  BY <2>5, <2>7
<1> QED  BY <1>1, <1>3, <1>4

\* So a call that has ended answers with the solutions in the model of its program.
LEMMA AnswersOfProgram ==
    ASSUME Setup, Typed, Sound, Answering, outcome # "raised" => Owes, answered # <<>>, Ended,
           Posed, Told, Asked.op \in derived
    PROVE  Answers = Solutions(Asked, ProgramModel)
<1>1. PICK a : a = Asked
  OBVIOUS
<1>2. IsAdLiteral(a)
  BY <1>1, TopQueryIs, LiteralIsAdLiteral
<1>3. stack = <<>> /\ \A G : ~Concluding(G)
  <2>1. stack = <<>>
    BY DEF Setup, Runs, Ended
  <2> QED  BY <2>1 DEF Concluding, ToSet
<1>4. outcome = "raised" <=> Found
  BY <1>3 DEF Answering, Noticed
<1>5. outcome # "raised" => Solutions(a, inferred_facts) = Solutions(a, ProgramModel)
  BY <1>1, <1>3, InferredSolutions DEF Answering
<1>6. CASE IsGround(a)
  <2>1. Answers = {s \in {<<>>} : outcome = "raised"}
    BY <1>1, <1>6 DEF Answers
  <2>2. /\ Solutions(a, ProgramModel) = {s \in {<<>>} : Fact(a) \in ProgramModel}
        /\ Solutions(a, inferred_facts) = {s \in {<<>>} : Fact(a) \in inferred_facts}
    BY <1>2, <1>6, GroundSolutions
  <2>3. inferred_facts \subseteq ProgramModel
    BY DEF Sound, Wanted, ProgramModel
  <2> HIDE DEF ProgramModel
  <2>4. outcome = "raised" => Fact(a) \in ProgramModel
    BY <1>1, <1>4, <2>3 DEF Found
  <2>5. outcome # "raised" => Fact(a) \notin inferred_facts
    BY <1>1, <1>4, <1>6 DEF Found
  <2>6. outcome # "raised" => Fact(a) \notin ProgramModel
    BY <1>5, <2>2, <2>5
  <2> QED  BY <1>1, <2>1, <2>2, <2>4, <2>6
<1>7. CASE ~IsGround(a)
  <2>1. outcome # "raised"
    BY <1>1, <1>4, <1>7 DEF Found
  <2>2. Answers = IF \E s \in goal_solutions : s # <<>> THEN goal_solutions
                  ELSE Solutions(a, inferred_facts)
    BY <1>1, <1>7 DEF Answers
  <2>3. CASE SameNames
    BY <1>1, <1>5, <2>1, <2>2, <2>3, SameSolutions
  <2>4. CASE OtherNames
    <3>1. goal_solutions = Solutions(a, inferred_facts)
      BY <1>1, <1>3, <2>1, <2>4, OtherSolutions
    <3> QED  BY <1>1, <1>5, <2>1, <2>2, <3>1
  <2> QED  BY <1>1, <1>7, <2>3, <2>4 DEF Told
<1> QED  BY <1>6, <1>7

LEMMA AskedIsGoal ==
    ASSUME Setup, GoalDerived, answered # <<>>, AnswersPosed
    PROVE  /\ Ready(edb) /\ Asked = goal /\ goal.op \in derived
           /\ RulesModel(edb) = Meaning /\ AdornedModel(edb) = ProgramModel
<1>1. program = answered.adorned_program /\ goal # <<>>
  BY ProgramIs
<1>2. Clauses(given.rules) = ToSet(given.rules)
  BY DEF Clauses, ToSet
<1>3. RulesModel(edb) = Meaning /\ AdornedModel(edb) = ProgramModel
  BY <1>1, <1>2 DEF RulesModel, AdornedModel, Meaning, ProgramModel, Model
<1>4. \A f \in edb : IsFact(f) /\ IsOldName(f.op)
  <2>1. \A f \in edb : IsFact(f)
    BY FactOfGround DEF Setup, Graph
  <2> QED  BY <2>1 DEF AnswersPosed, IsOldName
<1>5. WellPosed
  BY DEF AnswersPosed, Posed
<1>6. /\ Immediate(Clauses(given.rules), RulesModel(edb)) = RulesModel(edb)
      /\ Immediate(answered.adorned_program, AdornedModel(edb)) = AdornedModel(edb)
  BY <1>1, <1>2, <1>3 DEF AnswersPosed, Posed, ProgramModel
<1>7. Ready(edb)
  BY <1>4, <1>5, <1>6 DEF Ready, Setup
<1>8. Asked = goal
  BY <1>7, GoalName DEF Asked
<1>9. goal.op \in derived
  <2>1. goal.op \in given.preds
    BY <1>1, <1>7, GoalName DEF GoalDerived, IsIDB
  <2>2. derived = given.preds
    BY <1>1, <2>1 DEF GoalDerived
  <2> QED  BY <2>1, <2>2
<1> QED  BY <1>3, <1>7, <1>8, <1>9

Knowing == Setup /\ Typed /\ SoundInv /\ OwesInv /\ AnsweringInv /\ IDBPatterns /\ GoalDerived

LEMMA KnowingInit == SystemInit => Knowing
<1> SUFFICES ASSUME SystemInit
             PROVE  Knowing
  OBVIOUS
<1>1. Init /\ BFPInit /\ StoreInit
  BY DEF SystemInit
<1>2. stack \in Seq(ToSet(stack)) /\ ToSet(stack) = {}
  <2>1. stack = <<>>
    BY <1>1 DEF BFPInit
  <2> QED  BY <2>1 DEF ToSet
<1>3. Cached /\ Calling
  BY <1>1, <1>2 DEF BFPInit, Cached, Calling
<1>4. Typed
  BY <1>1, <1>3 DEF BFPInit, Typed
<1>5. SoundInv /\ OwesInv /\ AnsweringInv
  BY <1>1 DEF Init, BFPInit, SoundInv, OwesInv, AnsweringInv
<1>6. IDBPatterns
  BY <1>1 DEF StoreInit, IDBPatterns, ToSet
<1>7. GoalDerived
  BY <1>1 DEF Init, GoalDerived
<1> QED  BY <1>4, <1>5, <1>6, <1>7, SetupInit DEF Knowing

LEMMA KnowingStep == Knowing /\ CacheHolds /\ [StoreNext]_storeAll => Knowing'
BY SetupStep, TypedStep, SoundStep, OwesStep, AnsweringStep, IDBStep, GoalStep DEF Knowing

LEMMA GoalAnswers ==
    ASSUME Knowing, AnswersPosed, goal # <<>>, Ended
    PROVE  Answers = Solutions(goal, Meaning)
<1>1. Setup /\ Typed /\ GoalDerived
  BY DEF Knowing
<1>2. answered # <<>>
  BY <1>1 DEF Setup, OneGoal, Ended
<1>3. /\ Ready(edb) /\ Asked = goal /\ goal.op \in derived
      /\ RulesModel(edb) = Meaning /\ AdornedModel(edb) = ProgramModel
  BY <1>1, <1>2, AskedIsGoal
<1>4. Posed /\ Told
  BY DEF AnswersPosed
<1>5. Sound /\ Answering
  BY <1>2, <1>4 DEF Knowing, SoundInv, AnsweringInv, Ended
<1>6. outcome # "raised" => Owes
  BY <1>2 DEF Knowing, OwesInv, Ended
<1>7. Answers = Solutions(Asked, ProgramModel)
  BY <1>1, <1>2, <1>3, <1>4, <1>5, <1>6, AnswersOfProgram
<1>8. Solutions(goal, AdornedModel(edb)) = Solutions(goal, RulesModel(edb))
  BY <1>3, AnswersSame
<1> QED  BY <1>3, <1>7, <1>8

\* A goal that is told apart from the heads of the rules is answered by its solutions
\* in what the caller's rules entail (BackwardFixpointProcedure.answers and
\* GoalSolutionAction), through the adornment of the rules, the queries for what they
\* need and the exception that a ground goal found raises; provided the memoized
\* answers of ConjunctiveQueryMemoize are those the fact graph would give.
THEOREM GoalAnswered ==
    StoreSpec /\ []CacheHolds
        => [](AnswersPosed /\ goal # <<>> /\ Ended => Answers = Solutions(goal, Meaning))
<1> DEFINE P == AnswersPosed /\ goal # <<>> /\ Ended => Answers = Solutions(goal, Meaning)
<1>1. SystemInit => Knowing
  BY KnowingInit
<1>2. Knowing /\ CacheHolds /\ [StoreNext]_storeAll => Knowing'
  BY KnowingStep
<1>3. Knowing => P
  BY GoalAnswers
<1> HIDE DEF P
<1>4. StoreSpec /\ []CacheHolds => []P
  BY <1>1, <1>2, <1>3, PTL DEF StoreSpec
<1> QED  BY <1>4 DEF P

(***************************************************************************)
(* The refinement of GoalAnswering.                                        *)
(***************************************************************************)

GoalAnsweredNow == AnswersPosed /\ goal # <<>> /\ Ended => Answers = Solutions(goal, Meaning)
AnswersPosedAtEnd == goal # <<>> /\ Ended => AnswersPosed
Reply == IF goal # <<>> /\ Ended THEN <<Answers>> ELSE <<>>

LEMMA ReplyKept ==
    ASSUME UNCHANGED <<goal, outcome, goal_solutions, inferred_facts>>
    PROVE  Reply' = Reply
<1>1. Asked' = Asked /\ Ended' = Ended
  BY DEF Asked, Ended
<1>2. Answers' = Answers
  BY <1>1 DEF Answers
<1> QED  BY <1>1, <1>2 DEF Reply

LEMMA AnswersNow == Knowing => GoalAnsweredNow
BY GoalAnswers DEF GoalAnsweredNow

LEMMA LiteralIsSome ==
    ASSUME NEW l, IsLiteral(l)
    PROVE  l # <<>>
BY DEF IsLiteral, Adorned

LEMMA GoalSteps ==
    ASSUME Knowing, Knowing', AnswersPosedAtEnd', [StoreNext]_storeAll
    PROVE  /\ ToSet(given.rules)' = ToSet(given.rules)
           /\ \/ UNCHANGED <<edb, goal>> /\ Reply' = Reply
              \/ goal = <<>> /\ goal' # <<>> /\ Reply' = <<>> /\ edb' = edb
              \/ goal # <<>> /\ goal' = <<>> /\ Reply' = <<>> /\ edb' = edb
              \/ goal = <<>> /\ goal' = goal /\ edb \subseteq edb' /\ Reply' = Reply
              \/ /\ goal # <<>> /\ Reply = <<>> /\ UNCHANGED <<edb, goal>>
                 /\ Reply' = <<Solutions(goal, Model(ToSet(given.rules), edb))>>
<1>1. Setup
  BY DEF Knowing
<1>2. ASSUME UNCHANGED <<adornVars, bfpVars>>
      PROVE  given' = given /\ UNCHANGED <<edb, goal>> /\ Reply' = Reply
  BY <1>2, ReplyKept DEF adornVars, bfpVars, memVars
<1>3. CASE \E req \in given.requests : Request(req)
  BY <1>2, <1>3 DEF Request
<1>4. CASE Yield \/ SolveBase
  BY <1>2, <1>4 DEF Yield, SolveBase
<1>5. CASE UNCHANGED storeAll
  BY <1>2, <1>5 DEF storeAll
<1>6. CASE \E f \in given.updates : Update(f)
  <2>1. /\ goal = <<>> /\ given' = given /\ goal' = goal /\ edb \subseteq edb'
        /\ UNCHANGED <<outcome, goal_solutions, inferred_facts>>
    BY <1>1, <1>6 DEF Update, Setup, OneGoal, adornVars, memVars
  <2> QED  BY <2>1, ReplyKept
<1>7. CASE AdornStep
  <2>1. given' = given /\ UNCHANGED <<edb, goal, outcome, goal_solutions, inferred_facts>>
    BY <1>7 DEF AdornStep, Process, Finish, bfpVars, memVars
  <2> QED  BY <2>1, ReplyKept
<1>8. CASE SolveDerived \/ SolveNext
  <2>1. PICK g : Between /\ AskFor(g) /\ IsLiteral(g)
    <3>1. CASE SolveDerived
      BY <1>1, <3>1, HeadFrame DEF SolveDerived, Setup
    <3>2. CASE SolveNext
      BY <1>1, <3>2, RangeOfPatterns DEF SolveNext, Setup, Patterns
    <3> QED  BY <1>8, <3>1, <3>2
  <2>2. goal = <<>> /\ goal' = g /\ outcome' = "idle" /\ edb' = edb /\ given' = given
    BY <2>1 DEF Between, AskFor, Ask
  <2>3. g # <<>>
    BY <2>1, LiteralIsSome
  <2> QED  BY <2>2, <2>3 DEF Reply, Ended
<1>9. CASE Refuse \/ Resume \/ Take \/ TakeFirst
  BY <1>9 DEF Refuse, NoOrder, Adorning, Resume, Take, TakeFirst, Solved, Forget, Reply, bfpVars
<1>10. CASE BackwardStep
  <2>1. /\ given' = given /\ UNCHANGED <<edb, goal>>
        /\ (outcome = "idle" /\ answered # <<>>) \/ Running
    BY <1>10, ProcedureQuiet DEF BackwardStep, adornVars
  <2>2. goal # <<>> /\ ~Ended
    BY <1>1, <2>1 DEF Setup, OneGoal, Running, Ended
  <2>3. CASE Ended'
    <3>1. AnswersPosed' /\ (goal # <<>>)'
      BY <2>1, <2>2, <2>3 DEF AnswersPosedAtEnd
    <3>2. (Answers = Solutions(goal, Meaning))'
      <4>1. GoalAnsweredNow'
        BY AnswersNow, PTL
      <4> QED  BY <2>3, <3>1, <4>1 DEF GoalAnsweredNow
    <3>3. Meaning' = Meaning
      BY <2>1 DEF Meaning, Model
    <3>4. Reply' = <<Answers'>> /\ Reply = <<>>
      BY <2>1, <2>2, <2>3 DEF Reply
    <3> QED  BY <2>1, <2>2, <3>2, <3>3, <3>4 DEF Meaning
  <2>4. CASE ~Ended'
    BY <2>1, <2>2, <2>4 DEF Reply
  <2> QED  BY <2>3, <2>4
<1> QED  BY <1>3, <1>4, <1>5, <1>6, <1>7, <1>8, <1>9, <1>10 DEF StoreNext, StoreStep

LEMMA SolutionsThere ==
    ASSUME NEW l, NEW K
    PROVE  Procedure!Solutions(l, K) = Solutions(l, K)
<1>1. Procedure!VarsOf(l) = VarsOf(l)
  BY DEF Procedure!VarsOf, Procedure!Args, Procedure!ToSet, VarsOf, Args, ToSet
<1>2. Procedure!Terms(K) = Terms(K)
  BY DEF Procedure!Terms, Procedure!ToSet, Terms, ToSet
<1>3. ASSUME NEW theta PROVE Procedure!Fact(Procedure!Ground(l, theta)) = Fact(Ground(l, theta))
  BY DEF Procedure!Fact, Procedure!Ground, Procedure!Value, Fact, Ground, Value
<1> QED  BY <1>1, <1>2, <1>3 DEF Procedure!Solutions, Solutions

\* The backward procedure under the store implements the specification of what solving
\* a goal promises (GoalAnswering): a goal is answered once, by its solutions in the
\* least model of the caller's rules over the facts, or refused, and facts are added
\* only between goals.
THEOREM RefinesGoals ==
    StoreSpec /\ []CacheHolds /\ []AnswersPosedAtEnd => AnswersGoals
<1>1. SystemInit => Procedure!Init
  <2> SUFFICES ASSUME SystemInit
               PROVE  Procedure!Init
    OBVIOUS
  <2>1. goal = <<>>
    BY DEF SystemInit, Init
  <2> QED  BY <2>1 DEF Procedure!Init
<1>2. Knowing /\ Knowing' /\ AnswersPosedAtEnd' /\ [StoreNext]_storeAll
         => [Procedure!Next]_Procedure!vars
  <2> SUFFICES ASSUME Knowing, Knowing', AnswersPosedAtEnd', [StoreNext]_storeAll
               PROVE  [Procedure!Next]_Procedure!vars
    OBVIOUS
  <2>1. /\ ToSet(given.rules)' = ToSet(given.rules)
        /\ \/ UNCHANGED <<edb, goal>> /\ Reply' = Reply
           \/ goal = <<>> /\ goal' # <<>> /\ Reply' = <<>> /\ edb' = edb
           \/ goal # <<>> /\ goal' = <<>> /\ Reply' = <<>> /\ edb' = edb
           \/ goal = <<>> /\ goal' = goal /\ edb \subseteq edb' /\ Reply' = Reply
           \/ /\ goal # <<>> /\ Reply = <<>> /\ UNCHANGED <<edb, goal>>
              /\ Reply' = <<Solutions(goal, Model(ToSet(given.rules), edb))>>
    BY GoalSteps
  <2>2. CASE UNCHANGED <<edb, goal>> /\ Reply' = Reply
    BY <2>1, <2>2 DEF Procedure!vars, Reply
  <2>3. CASE goal = <<>> /\ goal' # <<>> /\ Reply' = <<>> /\ edb' = edb
    BY <2>1, <2>3 DEF Procedure!Next, Procedure!Ask, Reply
  <2>4. CASE goal # <<>> /\ goal' = <<>> /\ Reply' = <<>> /\ edb' = edb
    BY <2>1, <2>4 DEF Procedure!Next, Procedure!Drop, Reply
  <2>5. CASE goal = <<>> /\ goal' = goal /\ edb \subseteq edb' /\ Reply' = Reply
    BY <2>1, <2>5 DEF Procedure!Next, Procedure!Learn, Reply
  <2>6. CASE /\ goal # <<>> /\ Reply = <<>> /\ UNCHANGED <<edb, goal>>
             /\ Reply' = <<Solutions(goal, Model(ToSet(given.rules), edb))>>
    <3>1. Procedure!Right(goal) = Solutions(goal, Model(ToSet(given.rules), edb))
      BY SolutionsThere DEF Procedure!Right
    <3>2. Procedure!Answer
      BY <2>1, <2>6, <3>1 DEF Procedure!Answer, Reply
    <3> QED  BY <3>2 DEF Procedure!Next
  <2> QED  BY <2>1, <2>2, <2>3, <2>4, <2>5, <2>6
<1>3. SystemInit => Knowing
  BY KnowingInit
<1>4. Knowing /\ CacheHolds /\ [StoreNext]_storeAll => Knowing'
  BY KnowingStep
<1> QED  BY <1>1, <1>2, <1>3, <1>4, PTL DEF StoreSpec, AnswersGoals, Procedure!Spec
=============================================================================
