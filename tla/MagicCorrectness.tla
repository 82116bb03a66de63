-------------------------- MODULE MagicCorrectness --------------------------
(***************************************************************************)
(* What the magic program of a goal owes the rules.                        *)
(***************************************************************************)
EXTENDS AdornCorrectness, MagicSets

\* The magic program, started from the goal, says nothing the rules do not say of
\* the goal; and it keeps its answers when every call has its arguments bound.
MagicModel ==
    LeastModel(MagicProgram(answered.adorned_program), given.facts \cup {MagicSeed(goal)}, Rounds)
Applies == answered # <<>> /\ ~ignoring /\ goal.op \notin Hybrid
AllBound(atoms) == \A a \in atoms : \A i \in DOMAIN a.ad : a.ad[i] = "b"
MagicAgrees ==
    Applies =>
        LET wanted == Solutions(goal, LeastModel(Clauses(given.rules), given.facts, Rounds))
            got    == Solutions(goal, MagicModel)
        IN  /\ got \subseteq wanted
            /\ AllBound(answered.query_atoms) => got = wanted
MagicKeepsAnswers ==
    Applies => Solutions(goal, MagicModel)
                   = Solutions(goal, LeastModel(Clauses(given.rules), given.facts, Rounds))

\* What that takes: no_magic is empty, what is negated is not declared derived, the
\* names of the magic predicates are not in use, and the magic model is reached.
MagicPosed ==
    /\ NoMagic = {}
    /\ \A l \in BodyLiterals(given.rules) : l.naf => l.op \notin derived
    /\ \A p \in derived \cup {goal.op} :
          MagicName[p] \notin {l.op : l \in BodyLiterals(given.rules)} \cup {goal.op}
MagicSuffices == Immediate(MagicProgram(answered.adorned_program), MagicModel) = MagicModel
=============================================================================
