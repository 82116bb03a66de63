--------------------------- MODULE MCNormalForms ---------------------------
(***************************************************************************)
(* Ontologies for NormalForms, compared with what they are rewritten to on *)
(* all the interpretations of their signature over two individuals.  The   *)
(* anonymous descriptions are trees, as OWL DL has them.                   *)
(***************************************************************************)
EXTENDS NormalForms

CONSTANTS A, B, C, D,                        \* named classes
          hasPart,
          ann, bob,
          n1, n2, n3, n4, n5, n6, n7,        \* blank nodes of the ontologies
          f1, f2, f3, f4, f5, f6, f7, f8     \* and those to come

MCPool == <<f1, f2, f3, f4, f5, f6, f7, f8>>

\* The triples of some descriptions.
About(id, d) ==
    CASE d.k \in {"and", "or"} -> {Triple(id, d.k, d.of)}
      [] d.k = "not"   -> {Triple(id, "not", d.of)}
      [] d.k \in {"some", "only"} -> {Triple(id, "onProperty", d.prop), Triple(id, d.k, d.of)}
      [] d.k = "value" -> {Triple(id, "onProperty", d.prop), Triple(id, "value", d.ind)}
      [] d.k = "oneOf" -> {Triple(id, "oneOf", d.inds)}
Graph(desc, axioms) == axioms \cup UNION {About(id, desc[id]) : id \in DOMAIN desc}

\* Universals as superclasses, one of a negation, one of another universal, and one
\* an operand.
Universals == Graph(
    n1 :> Only(hasPart, n2) @@ n2 :> Only(hasPart, n3) @@ n3 :> Not(B)
      @@ n4 :> Both(<<A, n5>>) @@ n5 :> Only(hasPart, C),
    {Triple(A, "sub", n1), Triple(C, "equiv", n4)})
\* Two to four negations of one class.
Negations4 == Graph(
    n1 :> Not(n2) @@ n2 :> Not(n3) @@ n3 :> Not(n4) @@ n4 :> Not(B)
      @@ n5 :> Not(n6) @@ n6 :> Not(n7) @@ n7 :> Not(C),
    {Triple(A, "sub", n1), Triple(A, "equiv", n5)})
\* Restrictions to enumerations, the range of the property being one.
Nominals == Graph(
    n1 :> Only(hasPart, n2) @@ n2 :> OneOf(<<ann>>) @@ n3 :> OneOf(<<ann, bob>>)
      @@ n4 :> Some(hasPart, n5) @@ n5 :> OneOf(<<bob, ann>>),
    {Triple(A, "sub", n1), Triple(hasPart, "range", n3), Triple(n4, "sub", B)})
Whole == Graph(
    n1 :> Only(hasPart, n2) @@ n2 :> OneOf(<<ann, bob>>) @@ n3 :> OneOf(<<ann, bob>>),
    {Triple(A, "sub", n1), Triple(hasPart, "range", n3)})
\* Negated unions: of a negation, of a union, and one that is the definition of a
\* named class; a union of negations.
Unions == Graph(
    n1 :> Not(n2) @@ n2 :> Either(<<B, n3>>) @@ n3 :> Either(<<n4, C>>) @@ n4 :> Not(A)
      @@ D :> Not(n5) @@ n5 :> Either(<<A, B>>),
    {Triple(A, "sub", n1), Triple(C, "sub", D)})
Complements == Graph(
    n1 :> Either(<<n2, n3>>) @@ n2 :> Not(B) @@ n3 :> Not(n4) @@ n4 :> Some(hasPart, C)
      @@ n5 :> Not(n6) @@ n6 :> Either(<<n7, A>>) @@ n7 :> Only(hasPart, B),
    {Triple(A, "sub", n1), Triple(C, "sub", n5)})
\* Conjunctions in one another.
Conjunctions == Graph(
    n1 :> Both(<<A, n2, B>>) @@ n2 :> Both(<<n3, C>>) @@ n3 :> Both(<<D, n4>>) @@ n4 :> Not(n5)
      @@ n5 :> Not(B),
    {Triple(n1, "sub", D)})
TwoConjunctions == Graph(
    n1 :> Both(<<n2, n3>>) @@ n2 :> Both(<<A, B>>) @@ n3 :> Both(<<C, D>>), {Triple(n1, "sub", D)})
ThreeConjunctions == Graph(
    n1 :> Both(<<n2, n3, n4>>) @@ n2 :> Both(<<A, B>>) @@ n3 :> Both(<<C, D>>)
      @@ n4 :> Both(<<A, D>>), {Triple(n1, "sub", D)})

MCOntologies == {Universals, Negations4, Nominals, Whole, Unions, Complements, Conjunctions,
                 TwoConjunctions, ThreeConjunctions}
-----------------------------------------------------------------------------
\* Two individuals have two names, as the complement of an enumeration assumes.
WorldsOver(G) ==
    {I \in Interpretations(Nodes(G) \cap Name, Nodes(G) \cap {hasPart}, {ann, bob}) :
        I.ind[ann] # I.ind[bob]}
WorldsOf == [G \in MCOntologies |-> WorldsOver(G)]
MCWorlds(G) == WorldsOf[G]
=============================================================================
