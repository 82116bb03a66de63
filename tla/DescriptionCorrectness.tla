----------------------- MODULE DescriptionCorrectness -----------------------
(***************************************************************************)
(* What the rules of an ontology owe it: they hold wherever it holds, and  *)
(* say all of it that is in the fragment the translation covers.           *)
(***************************************************************************)
EXTENDS DescriptionPrograms

CONSTANTS
    Worlds(_)     \* the interpretations to compare on, for an ontology

\* The rules are rules: heads and bodies of literals, the bodies not empty and
\* without blank nodes.
TypeOK ==
    /\ asked \in Callers /\ status \in {"running", "returned", "raised"}
    /\ todo \subseteq asked.ontology.axioms \cup Defining(asked.ontology, asked.expanded)
    /\ \A r \in rules \cup negatives :
          /\ r.head # <<>> /\ r.body # <<>>
          /\ \A i \in DOMAIN r.body : \A t \in ToSet(r.body[i].args) : t \in Ind \/ IsVar(t)

-----------------------------------------------------------------------------
\* Rules over an interpretation: a skolemized description is true of what it
\* describes; a blank node that is not skolemized occurs in no other clause, and says
\* nothing; a negated literal is true when nothing makes the literal true; a
\* negation in a head is not looked at by the network.
Value(I, theta, t) == IF t \in Ind THEN I.ind[t] ELSE theta[t]
True(O, I, theta, l) ==
    IF Len(l.args) = 1
      THEN (\E n \in DOMAIN O.desc : l.op = <<"raw", n>>)
              \/ Value(I, theta, l.args[1]) \in Ext(O, I, l.op)
    ELSE <<Value(I, theta, l.args[1]), Value(I, theta, l.args[2])>> \in I.prop[l.op]

Positive(body) == SelectSeq(body, LAMBDA l : ~l.naf)
Negated(body)  == SelectSeq(body, LAMBDA l : l.naf)
Open(s, known) == VarsOfLits(s) \ known
BNodesOf(s) == {t \in UNION {ToSet(s[i].args) : i \in DOMAIN s} : IsBNode(t)}
\* What the head and the positive literals mention is given by theta; a variable
\* of negated literals only, and a blank node, is some individual.
Conforms(O, I, r) ==
    LET outer == VarsOfLits(Positive(r.body)) \cup VarsOfLits(r.head)
    IN  \A theta \in [outer -> Dom] :
          /\ \A i \in DOMAIN Positive(r.body) : True(O, I, theta, Positive(r.body)[i])
          /\ \A i \in DOMAIN Negated(r.body) :
                LET l == Negated(r.body)[i]
                IN  ~\E more \in [Open(<<l>>, outer) -> Dom] : True(O, I, theta @@ more, l)
          => \E made \in [BNodesOf(r.head) -> Dom] :
                \A i \in DOMAIN r.head : True(O, I, theta @@ made, r.head[i])

\* Every rule of a translation is true wherever the ontology is.
Sound ==
    \A I \in Worlds(asked.ontology) :
        Satisfies(asked.ontology, I) =>
            \A r \in rules \cup negatives : Conforms(asked.ontology, I, r)

-----------------------------------------------------------------------------
\* The fragment: no negation, universals as heads only and not below one another,
\* existentials as bodies only, intersections not below intersections, named classes as
\* ranges and domains.
RECURSIVE InBody(_, _), InHead(_, _, _)
InBody(O, id) ==
    \/ ~Blank(id) /\ (id \in DOMAIN O.desc => O.desc[id].k \in {"and", "or"})
    \/ IsA(O, id, "value")
    \/ IsA(O, id, "some") /\ InBody(O, O.desc[id].of)
    \/ IsA(O, id, "or") /\ \A i \in DOMAIN O.desc[id].of : InBody(O, O.desc[id].of[i])
    \/ IsA(O, id, "and") /\ \A i \in DOMAIN O.desc[id].of :
            InBody(O, O.desc[id].of[i]) /\ ~(Blank(O.desc[id].of[i]) /\ IsA(O, O.desc[id].of[i], "and"))
InHead(O, id, below) ==
    \/ ~Blank(id) /\ (id \in DOMAIN O.desc => O.desc[id].k = "or")
    \/ IsA(O, id, "value")
    \/ IsA(O, id, "only") /\ ~below /\ InHead(O, O.desc[id].of, TRUE)
    \/ IsA(O, id, "and") /\ \A i \in DOMAIN O.desc[id].of : InHead(O, O.desc[id].of[i], below)

Included(O, I, c, d) == InBody(O, c) /\ InHead(O, d, FALSE) => Ext(O, I, c) \subseteq Ext(O, I, d)
Said(call, I, ax) ==
    LET O == call.ontology
    IN  CASE ax.k = "sub"   -> Included(O, I, ax.l, ax.r)
          [] ax.k = "equiv" -> /\ ax.l \notin call.derived => Included(O, I, ax.l, ax.r)
                               /\ Included(O, I, ax.r, ax.l)
          [] ax.k \in {"and", "or"} ->
                /\ (\A i \in DOMAIN O.desc[ax.l].of : InBody(O, O.desc[ax.l].of[i]) /\
                       ~(Blank(O.desc[ax.l].of[i]) /\ IsA(O, O.desc[ax.l].of[i], "and")))
                     => Meaning(O, I, O.desc[ax.l]) \subseteq I.cls[ax.l]
                /\ ax.k = "and" /\ ax.l \notin call.derived =>
                     \A i \in DOMAIN O.desc[ax.l].of :
                        ~Blank(O.desc[ax.l].of[i]) \/ IsA(O, O.desc[ax.l].of[i], "value")
                          => I.cls[ax.l] \subseteq Ext(O, I, O.desc[ax.l].of[i])
          [] ax.k = "not" -> TRUE
          [] ax.k \in {"range", "domain"} -> Blank(ax.r) \/ Holds(O, I, ax)
          [] OTHER -> Holds(O, I, ax)

=============================================================================
