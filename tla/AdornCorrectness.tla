-------------------------- MODULE AdornCorrectness --------------------------
(***************************************************************************)
(* What the adorned program of a goal owes the rules it was made of.       *)
(***************************************************************************)
EXTENDS AdornProgram

CONSTANTS
    Rounds      \* enough rounds to reach each least model

ASSUME RoundsAssumption == Rounds \in Nat

\* The worklist holds predicates of the collection, and an adornment, where there
\* is one, has a letter for each argument.
Arity(l) == Len(l.ad) = Len(l.args) /\ l.ad \in Seq({"b", "f"})
AdornTypeOK ==
    /\ given \in Scenarios
    /\ ToSet(to_do) \cup marked \subseteq collection
    /\ \A a \in collection : Arity(a)
    /\ \A r \in program : /\ Arity(r.head)
                          /\ \A i \in DOMAIN r.body :
                                IsAdorned(r.body[i]) => Arity(r.body[i])

\* While the loop runs every unmarked predicate of the collection is queued: none
\* is forgotten when the deque is refilled.
NoneForgotten == Adorning => collection \ marked \subseteq ToSet(to_do)

\* An adorned rule is a version of a clause: the same literals, the hybrid
\* predicates renamed, in the order of its sip.
AtomsOf(ls) == {<<Renamed(ls[i]).op, ls[i].args, ls[i].naf>> : i \in DOMAIN ls}
IsVersion(r, c) == /\ r.head.op = Renamed(c.head).op /\ r.head.args = c.head.args
                   /\ AtomsOf(r.body) = AtomsOf(c.body)

\* The program a call hands over is closed: for each derived literal of a body it
\* has the version of each matching rule under that literal's adornment, whatever
\* the order of the worklist and however the rules were adorned for goals before.
Closed ==
    answered # <<>> =>
        \A r \in answered.adorned_program : \A k \in DOMAIN r.body :
            r.body[k].op \in derived =>
                \A i \in DOMAIN given.rules :
                    HeadsRule(r.body[k], given.rules[i]) =>
                        \E q \in answered.adorned_program :
                            /\ q.head.ad = (IF IsAdorned(r.body[k]) THEN r.body[k]
                                            ELSE AdornLiteral(r.body[k])).ad
                            /\ IsVersion(q, given.rules[i])

\* Sideways passing: where a variable of the head is bound, a variable is adorned as
\* bound only if the head's binding or a literal before it binds it.  (A head bound
\* at constants alone passes all its arguments, like one that is not bound.)
ArgumentsBound(r) ==
    \A i \in DOMAIN r.body : \A k \in DOMAIN r.body[i].ad :
        r.body[i].ad[k] = "b" /\ r.body[i].args[k] \in Var =>
            r.body[i].args[k] \in Distinguished(r.head) \cup VarsOfAll(SubSeq(r.body, 1, i - 1))
PassesBindings(r) == Distinguished(r.head) # {} => ArgumentsBound(r)
BoundIsBound == \A r \in program : PassesBindings(r)

\* The adorned program has the goal's answers: no more and no fewer than the
\* rules of the caller, over the same facts.
Clauses(cs) == {cs[i] : i \in DOMAIN cs}
\* A hybrid predicate of the caller's rules is in the facts and in the rules.
AnswersKept ==
    answered # <<>> =>
        Solutions(Renamed(goal), LeastModel(answered.adorned_program, given.facts, Rounds))
            = Solutions(goal, LeastModel(Clauses(given.rules), given.facts, Rounds))

\* What that takes.  Rules bind their variables in literals that are not negated;
\* their heads are derived, and what is negated is not; the goal is not hybrid, and
\* hybrid literals get an adornment, without which they have no bridge; the names
\* made up for hybrid predicates are not in use.
IsSafeBody(c) == \A v \in VarsOf(c.head) \cup VarsOfAll(c.body) :
    \E k \in DOMAIN c.body : ~c.body[k].naf /\ v \in VarsOf(c.body[k])
PredicatesOf(s) == Heads(s.rules) \cup {l.op : l \in BodyLiterals(s.rules)}
                       \cup {f.op : f \in s.facts}
WellPosed ==
    /\ \A i \in DOMAIN given.rules : /\ IsSafeBody(given.rules[i])
                                    /\ Renamed(given.rules[i].head).op \in derived
    /\ \A l \in BodyLiterals(given.rules) :
          /\ l.naf => l.op \notin Heads(given.rules) \cup Hybrid
          /\ l.op \in Hybrid => ignoring /\ DerivedName[l.op] \in derived
    /\ \A p \in Hybrid : /\ goal.op \notin {p, DerivedName[p]}
                         /\ DerivedName[p] \notin PredicatesOf(given)

\* Both models have been reached.
IsReached(cs) == LET M == LeastModel(cs, given.facts, Rounds) IN Immediate(cs, M) = M
RoundsSuffice == IsReached(Clauses(given.rules)) /\ IsReached(answered.adorned_program)

\* The loop of adorn_program, refilled from a set that holds what is still
\* queued, ends for every program and goal.
AdornmentEnds == Adorning ~> ~Adorning
=============================================================================
