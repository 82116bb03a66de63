---------------------------- MODULE Descriptions ----------------------------
(***************************************************************************)
(* OWL ontologies as the classes of Syntax/InfixOWL.py see them: a graph   *)
(* whose nodes are named classes and anonymous descriptions, and axioms    *)
(* between nodes or properties.  An interpretation gives the named classes *)
(* and properties an extension over Dom; it is what rules and rewritten    *)
(* ontologies are compared on.                                             *)
(***************************************************************************)
EXTENDS Naturals, Sequences, SequencesExt, FiniteSets

CONSTANTS
    Name,      \* named classes (URIRef); every other node is blank
    Ind,       \* individuals
    Dom        \* the domain of the interpretations

\* An ontology is [desc, axioms]: the description of each node that has one, and
\* a set of axioms [k, l, r]; an axiom about one property has l = r.
Both(ids)       == [k |-> "and", of |-> ids]
Either(ids)     == [k |-> "or", of |-> ids]
Not(id)         == [k |-> "not", of |-> id]
Some(p, id)     == [k |-> "some", prop |-> p, of |-> id]
Only(p, id)     == [k |-> "only", prop |-> p, of |-> id]
HasValue(p, i)  == [k |-> "value", prop |-> p, ind |-> i]
OneOf(is)       == [k |-> "oneOf", inds |-> is]
Axiom(k, l, r)  == [k |-> k, l |-> l, r |-> r]

IsA(O, id, kind) == id \in DOMAIN O.desc /\ O.desc[id].k = kind
Blank(id) == id \notin Name

-----------------------------------------------------------------------------
\* I is [cls, prop, ind].
Fillers(I, p, x) == {y \in Dom : <<x, y>> \in I.prop[p]}

RECURSIVE Ext(_, _, _)
Meaning(O, I, d) ==
    CASE d.k = "and"   -> {x \in Dom : \A i \in DOMAIN d.of : x \in Ext(O, I, d.of[i])}
      [] d.k = "or"    -> {x \in Dom : \E i \in DOMAIN d.of : x \in Ext(O, I, d.of[i])}
      [] d.k = "not"   -> Dom \ Ext(O, I, d.of)
      [] d.k = "some"  -> {x \in Dom : Fillers(I, d.prop, x) \cap Ext(O, I, d.of) # {}}
      [] d.k = "only"  -> {x \in Dom : Fillers(I, d.prop, x) \subseteq Ext(O, I, d.of)}
      [] d.k = "value" -> {x \in Dom : <<x, I.ind[d.ind]>> \in I.prop[d.prop]}
      [] d.k = "oneOf" -> {I.ind[d.inds[i]] : i \in DOMAIN d.inds}
Ext(O, I, id) == IF id \in Name THEN I.cls[id] ELSE Meaning(O, I, O.desc[id])

Holds(O, I, ax) ==
    CASE ax.k = "sub"   -> Ext(O, I, ax.l) \subseteq Ext(O, I, ax.r)
      [] ax.k = "equiv" -> Ext(O, I, ax.l) = Ext(O, I, ax.r)
      [] ax.k = "inverse" -> \A x, y \in Dom : <<x, y>> \in I.prop[ax.l] <=> <<y, x>> \in I.prop[ax.r]
      [] ax.k = "transitive" ->
            \A x, y, z \in Dom : {<<x, y>>, <<y, z>>} \subseteq I.prop[ax.l] => <<x, z>> \in I.prop[ax.l]
      [] ax.k = "subProp"   -> I.prop[ax.l] \subseteq I.prop[ax.r]
      [] ax.k = "equivProp" -> I.prop[ax.l] = I.prop[ax.r]
      [] ax.k = "symmetric" -> \A x, y \in Dom : <<x, y>> \in I.prop[ax.l] => <<y, x>> \in I.prop[ax.l]
      [] ax.k = "range"  -> \A x \in Dom : Fillers(I, ax.l, x) \subseteq Ext(O, I, ax.r)
      [] ax.k = "domain" -> \A x \in Dom : Fillers(I, ax.l, x) # {} => x \in Ext(O, I, ax.r)

\* A description of a named class defines it.
Definitions(O) == {id \in DOMAIN O.desc : ~Blank(id)}
Satisfies(O, I) ==
    /\ \A ax \in O.axioms : Holds(O, I, ax)
    /\ \A id \in Definitions(O) : I.cls[id] = Meaning(O, I, O.desc[id])

\* The interpretations of a signature.
Interpretations(classes, props, inds) ==
    [cls : [classes -> SUBSET Dom], prop : [props -> SUBSET (Dom \X Dom)], ind : [inds -> Dom]]
=============================================================================
