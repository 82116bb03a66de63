------------------------------ MODULE OwlGraph ------------------------------
(***************************************************************************)
(* An OWL graph as the classes of Syntax/InfixOWL.py edit it: a set of     *)
(* triples [s, p, o] about named classes and blank nodes.  The object of   *)
(* "and", "or" and "oneOf" is an RDF collection, a sequence here.  Nothing *)
(* in the code checks that a node has one description, or still has one.   *)
(***************************************************************************)
EXTENDS Descriptions

CONSTANTS
    Pool        \* blank nodes to take new ones from, in order

Triple(s, p, o) == [s |-> s, p |-> p, o |-> o]
ListKinds  == {"and", "or", "oneOf"}
AxiomKinds == {"sub", "equiv", "range", "domain"}
IsList(t)  == t.p \in ListKinds
Objects(G, s, p)  == {t.o : t \in {u \in G : u.s = s /\ u.p = p}}
Subjects(G, p, o) == {t.s : t \in {u \in G : u.p = p /\ u.o = o}}
ObjectOf(G, s, p) == CHOOSE o \in Objects(G, s, p) : TRUE
Nodes(G) == UNION {{t.s} \cup (IF IsList(t) THEN ToSet(t.o) ELSE {t.o}) : t \in G}

\* BNode(): the first k nodes of the pool the graph does not mention.
NewNodes(G, k) == SubSeq(SelectSeq(Pool, LAMBDA b : b \notin Nodes(G)), 1, k)

-----------------------------------------------------------------------------
\* Individual.delete: a collection loses the links that held the node.
Deleted(G, id) ==
    {IF IsList(t) THEN [t EXCEPT !.o = SelectSeq(@, LAMBDA i : i # id)] ELSE t :
        t \in {u \in G : u.s # id /\ u.o # id}}
\* Individual.replace: what pointed to the node points to the other; what the node
\* said is gone.
Replaced(G, id, other) ==
    Deleted({[t EXCEPT !.o =
                IF IsList(t) THEN [i \in DOMAIN @ |-> IF @[i] = id THEN other ELSE @[i]]
                ELSE IF @ = id THEN other ELSE @] : t \in G}, id)
\* The setter of Individual.identifier: both ways.
Renamed(G, id, other) ==
    {[s |-> IF t.s = id THEN other ELSE t.s, p |-> t.p,
      o |-> IF IsList(t) THEN [i \in DOMAIN t.o |-> IF t.o[i] = id THEN other ELSE t.o[i]]
            ELSE IF t.o = id THEN other ELSE t.o] : t \in G}

-----------------------------------------------------------------------------
\* What the graph describes, for Descriptions.
Described(G) == {t.s : t \in {u \in G : u.p \in ListKinds \cup {"not", "some", "only", "value"}}}
DescriptionOf(G, id) ==
    LET has(p) == Objects(G, id, p) # {}
        prop   == ObjectOf(G, id, "onProperty")
    IN  CASE has("and")   -> Both(ObjectOf(G, id, "and"))
          [] has("or")    -> Either(ObjectOf(G, id, "or"))
          [] has("oneOf") -> OneOf(ObjectOf(G, id, "oneOf"))
          [] has("not")   -> Not(ObjectOf(G, id, "not"))
          [] has("some")  -> Some(prop, ObjectOf(G, id, "some"))
          [] has("only")  -> Only(prop, ObjectOf(G, id, "only"))
          [] OTHER        -> HasValue(prop, ObjectOf(G, id, "value"))
Read(G) ==
    [desc   |-> [id \in Described(G) |-> DescriptionOf(G, id)],
     axioms |-> {Axiom(t.p, t.s, t.o) : t \in {u \in G : u.p \in AxiomKinds}}]
\* Every blank node something is said with has a description, and no node has two.
Parts(d) == CASE d.k \in {"and", "or"} -> ToSet(d.of)
              [] d.k \in {"not", "some", "only"} -> {d.of}
              [] OTHER -> {}
WellFormed(G) ==
    LET O == Read(G)
    IN  /\ \A id \in Described(G) :
             Cardinality({t \in G : t.s = id /\ t.p \notin AxiomKinds \cup {"onProperty"}}) = 1
        /\ \A id \in UNION {Parts(O.desc[d]) : d \in Described(G)}
                     \cup {ax.r : ax \in O.axioms}
                     \cup {ax.l : ax \in {a \in O.axioms : a.k \in {"sub", "equiv"}}} :
             Blank(id) => id \in Described(G)
=============================================================================
