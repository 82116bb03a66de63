---------------------------- MODULE RuleSemantics ----------------------------
(***************************************************************************)
(* Triples, triple patterns and variable substitutions as the RETE network *)
(* uses them.  A triple is <<s, p, o>>; a pattern is a triple in which     *)
(* some places hold variables.  (BNodes of a rule body behave as variables *)
(* everywhere in the network, so Var stands for both.)                     *)
(***************************************************************************)
EXTENDS Naturals

CONSTANTS
    Term,   \* the ground RDF terms
    Var,    \* the variables (and BNodes) of the rules
    Blank   \* the terms among Term that BNode() can return

ASSUME TermAssumption == Var \cap Term = {} /\ Blank \subseteq Term

Place   == 1..3
Triple  == [Place -> Term]
Pattern == [Place -> Term \cup Var]

VarsOf(p) == {p[i] : i \in Place} \cap Var

\* A substitution gives a value to some of the variables.
Substitution == UNION {[V -> Term] : V \in SUBSET Var}

\* One triple of _mul_pattern_with_substitutions: a variable the binding does
\* not cover stays where it is.
Inst(p, theta) == [i \in Place |-> IF p[i] \in DOMAIN theta
                                     THEN theta[p[i]] ELSE p[i]]

\* No variable is left in it: the test fire_consequent makes of a triple.
GroundSubject(t) == t[1] \notin Var   \* a bug: one place is looked at
Ground(t) == \A i \in Place : t[i] \notin Var

\* The alpha network test: a wme reaches an alpha node through the hash of the
\* ground terms of the node's pattern, and through nothing else.
Matches(p, w) == \A i \in Place : p[i] \notin Var => w[i] = p[i]

\* ReteToken.bind_variables: a variable takes the value at its first place,
\* the other places it occurs at are not looked at.
FirstPlace(p, v) == CHOOSE i \in Place :
                        p[i] = v /\ \A j \in Place : j < i => p[j] # v
Bind(p, w) == [v \in VarsOf(p) |-> w[FirstPlace(p, v)]]

\* A builtin of a rule compares two values: [argument, result, func], func the
\* pairs of terms it accepts.
Holds(g, theta) ==
    LET value(x) == IF x \in Var THEN theta[x] ELSE x
    IN  <<value(g.argument), value(g.result)>> \in g.func

\* A rule is [body : SUBSET Pattern, guards : a set of builtins, head : Pattern,
\* exists : SUBSET Var]: one triple of the head, the existentials it declares.
BodyVars(r) == UNION {VarsOf(b) : b \in r.body}

\* The substitutions that put the whole body among the facts K.
Solutions(r, K) == {theta \in [BodyVars(r) -> Term] :
                        /\ \A b \in r.body : Inst(b, theta) \in K
                        /\ \A g \in r.guards : Holds(g, theta)}

\* What applying the rule to the facts K concludes, some blank node standing
\* for each existential.
Conclusions(r, K) ==
    {t \in {Inst(Inst(r.head, nu), theta) :
                nu \in [r.exists -> Blank], theta \in Solutions(r, K)} :
        Ground(t)}
=============================================================================
