--------------------------- MODULE MCDescriptions ---------------------------
(***************************************************************************)
(* Ontologies for DescriptionCorrectness.  Each is compared with its rules *)
(* on all the interpretations of its signature over two individuals.       *)
(***************************************************************************)
EXTENDS DescriptionCorrectness

CONSTANTS A, B, C, D, E,            \* named classes
          p, q, ann,
          n1, n2, n3, n4, n5        \* blank nodes

Ontology(desc, axioms, classes, props) ==
    [desc |-> desc, axioms |-> axioms, classes |-> classes, props |-> props]
Call(ontology, derived, ignoring, safety) ==
    [ontology |-> ontology, derived |-> derived, expanded |-> {}, ignoring |-> ignoring,
     safety |-> safety]

\* Universals as heads, an existential and a value as bodies, range and domain.
Roles == Ontology(
    n1 :> Only(p, B) @@ n2 :> Some(p, A) @@ n3 :> HasValue(p, ann) @@ n4 :> Both(<<n3, B>>),
    {Axiom("sub", A, n1), Axiom("sub", n2, C), Axiom("equiv", C, n4), Axiom("range", p, A),
     Axiom("domain", p, B)},
    {A, B, C}, {p})
\* Definitions, one of them over another.
Defined == Ontology(
    A :> Both(<<B, C>>) @@ D :> Either(<<A, n1>>) @@ n1 :> HasValue(p, ann)
      @@ n2 :> Some(p, n3) @@ n3 :> Both(<<D, B>>) @@ n4 :> Only(p, n5) @@ n5 :> Both(<<C, n1>>),
    {Axiom("sub", n2, A), Axiom("sub", B, n4)},
    {A, B, C, D}, {p})
\* Disjunctions at the top, below a conjunction and below an existential: two at once
\* are too many.
Nested == Ontology(
    n1 :> Either(<<A, n2>>) @@ n2 :> Both(<<B, n3>>) @@ n3 :> Some(p, n5) @@ n5 :> Either(<<A, C>>)
      @@ n4 :> Either(<<n3, B>>) @@ D :> Both(<<C, n4>>),
    {Axiom("sub", n1, C)},
    {A, B, C, D}, {p})
Disjunctive2 == Ontology(
    n1 :> Either(<<A, n2>>) @@ n2 :> HasValue(p, ann) @@ D :> Both(<<C, n1>>)
      @@ n3 :> Some(p, n4) @@ n4 :> Both(<<n1, C>>),
    {Axiom("sub", n3, A)},
    {A, C, D}, {p})
\* The axioms about properties.
Properties == Ontology(
    <<>>,
    {Axiom("inverse", p, q), Axiom("transitive", p, p), Axiom("symmetric", q, q),
     Axiom("subProp", p, q)},
    {A}, {p, q})
Equivalents == Ontology(
    <<>>, {Axiom("equivProp", p, q), Axiom("domain", q, A), Axiom("range", p, A)}, {A}, {p, q})
\* Negation, in definitions of derived classes and of classes themselves.
Negative == Ontology(
    D :> Both(<<A, n1>>) @@ n1 :> Not(B) @@ C :> Not(A) @@ E :> Both(<<n1, n2>>)
      @@ n2 :> Not(n3) @@ n3 :> HasValue(p, ann),
    {Axiom("sub", n1, C)},
    {A, B, C, D, E}, {p})
\* What is not translated: skipped with a warning, dropped, or raised.
Unsure == Ontology(
    n1 :> Not(n2) @@ n2 :> Both(<<A, B>>) @@ n3 :> Some(p, B) @@ D :> Both(<<A, n1>>),
    {Axiom("sub", n1, C), Axiom("sub", A, n3), Axiom("sub", B, C)},
    {A, B, C, D}, {p})
Universal == Ontology(
    n1 :> Only(p, B) @@ D :> Both(<<A, n1>>), {Axiom("sub", A, B)}, {A, B, D}, {p})
Raising == Ontology(
    n1 :> Not(n2) @@ n2 :> Both(<<A, B>>), {Axiom("equiv", C, n1), Axiom("sub", A, B)}, {A, B, C}, {p})
Existential == Ontology(
    n1 :> Some(p, B) @@ D :> Both(<<A, n1>>) @@ n2 :> Only(p, n1),
    {Axiom("sub", A, n1), Axiom("sub", A, n2)},
    {A, B, D}, {p})

\* The conjuncts of a head share a body with a disjunction, which one of its
\* disjuncts leaves at the place of an equal literal.  A range without a name.
Shared == Ontology(
    n1 :> Both(<<A, n2>>) @@ n2 :> Either(<<B, A, n3>>) @@ n3 :> HasValue(p, ann)
      @@ n4 :> Both(<<C, D>>) @@ n5 :> Only(p, A),
    {Axiom("sub", n1, n4), Axiom("sub", C, n5), Axiom("range", p, n4)},
    {A, B, C, D}, {p})
\* An intersection none of whose operands is translated.
Empty == Ontology(
    D :> Both(<<n1>>) @@ n1 :> OneOf(<<ann>>), {Axiom("sub", A, B), Axiom("sub", D, C)},
    {A, B, C, D}, {})

MCCallers ==
    {Call(o, {}, FALSE, "none") : o \in {Roles, Defined, Nested, Disjunctive2, Properties,
                                         Equivalents, Raising, Universal, Existential, Shared,
                                         Empty}}
    \cup {Call(o, {D, E}, ign, s) : o \in {Negative, Unsure}, ign \in BOOLEAN, s \in {"none", "strict"}}
    \cup {Call(Existential, {}, FALSE, "loose"), Call(Existential, {}, FALSE, "strict"),
          Call(Defined, {A}, FALSE, "loose")}

WorldsOf == [o \in {c.ontology : c \in MCCallers} |-> Interpretations(o.classes, o.props, {ann})]
MCWorlds(o) == WorldsOf[o]
=============================================================================
