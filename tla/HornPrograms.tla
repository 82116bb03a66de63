---------------------------- MODULE HornPrograms ----------------------------
(***************************************************************************)
(* Literals and clauses as Horn/ keeps them: a Uniterm is [op, args, naf],  *)
(* the class of an rdf:type triple being its op, so that a literal has one *)
(* or two arguments.  Literals whose predicate is a variable are left out. *)
(***************************************************************************)
EXTENDS Naturals, Sequences, SequencesExt, FiniteSets

CONSTANT Var      \* the variables of rules and queries; other terms are ground

\* Uniterm and, with the adornment of Magic.py (one of "b" and "f" for each
\* argument, or <<>>), AdornedUniTerm.
Adorned(op, args, ad, naf) == [op |-> op, args |-> args, ad |-> ad, naf |-> naf]
Lit(op, args)    == Adorned(op, args, <<>>, FALSE)
NotLit(op, args) == Adorned(op, args, <<>>, TRUE)
IsAdorned(l) == l.ad # <<>>
Args(l)      == ToSet(l.args)
VarsOf(l)    == Args(l) \cap Var
VarsOfAll(ls) == UNION {VarsOf(ls[i]) : i \in DOMAIN ls}

\* Uniterm.__eq__ compares the hashes of the triples; naf is no part of them.
Same(l, m) == l.op = m.op /\ l.args = m.args

\* Uniterm.ground: a substitution covers some of the variables.
Value(t, theta) == IF t \in DOMAIN theta THEN theta[t] ELSE t
Ground(l, theta) ==
    [l EXCEPT !.args = [i \in DOMAIN l.args |-> Value(l.args[i], theta)]]
IsGround(l) == VarsOf(l) = {}

\* Uniterm.unify_with and, towards the variables of m, get_var_mapping.
At(l, v) == CHOOSE i \in DOMAIN l.args :
                l.args[i] = v /\ \A j \in DOMAIN l.args : l.args[j] = v => j <= i
UnifyWith(l, m)  == [v \in VarsOf(l) |-> m.args[At(l, v)]]
VarMapping(l, m) ==
    LET renamed == {v \in VarsOf(l) : \E i \in DOMAIN l.args :
                      l.args[i] = v /\ m.args[i] \in Var \ {v}}
        at(v) == CHOOSE i \in DOMAIN l.args :
                    /\ l.args[i] = v /\ m.args[i] \in Var \ {v}
                    /\ \A j \in DOMAIN l.args :
                          l.args[j] = v /\ m.args[j] \in Var \ {v} => j <= i
    IN  [v \in renamed |-> m.args[at(v)]]

\* A clause is [head, body], its body a sequence of literals.  Rule.is_safe:
\* Uniterm.binds does not ask whether the literal is negated.
Clause(head, body) == [head |-> head, body |-> body]
Binds(body, v) == \E i \in DOMAIN body : v \in Args(body[i])
IsSafe(c) == \A v \in VarsOf(c.head) \cup VarsOfAll(c.body) : Binds(c.body, v)

-----------------------------------------------------------------------------
\* What a program means.  A fact is [op, args].
Fact(l) == [op |-> l.op, args |-> l.args]

Satisfied(l, theta, K) == (Fact(Ground(l, theta)) \in K) = ~l.naf
Terms(K) == UNION {ToSet(f.args) : f \in K}
BodySolutions(c, K) ==
    {theta \in [VarsOf(c.head) \cup VarsOfAll(c.body) -> Terms(K)] :
        \A i \in DOMAIN c.body : Satisfied(c.body[i], theta, K)}
Immediate(cs, K) ==
    K \cup UNION {{Fact(Ground(c.head, theta)) : theta \in BodySolutions(c, K)}
                    : c \in cs}

\* The least model of the clauses over the facts, reached in n rounds (negated
\* predicates are base predicates).
LeastModel(cs, K, n) ==
    LET round[i \in 0 .. n] == IF i = 0 THEN K ELSE Immediate(cs, round[i - 1])
    IN  round[n]

\* The solutions of a query literal among the facts.
Solutions(l, K) ==
    {theta \in [VarsOf(l) -> Terms(K)] : Fact(Ground(l, theta)) \in K}
=============================================================================
