---------------------------- MODULE NormalForms ----------------------------
(***************************************************************************)
(* normal_form_reduction (DLP/DLNormalization.py): seven passes over an    *)
(* ontology, each rewriting in place what it finds while it goes through   *)
(* the matches of a query on the graph it rewrites.                        *)
(***************************************************************************)
EXTENDS OwlGraph

CONSTANTS
    Ontologies,     \* the graphs handed over
    Worlds(_)       \* the interpretations to compare a graph on

VARIABLES
    given,      \* the graph handed over
    graph,      \* ont_graph
    pass,       \* which transformer is at work
    due,        \* what it found at first and has not come to
    status      \* "running", "reduced", or "raised" by an exception

vars == <<given, graph, pass, due, status>>

PassesOnce == <<"universal nominal", "general universal", "double negative", "nominal",
                "de morgan", "conjunction">>   \* a bug: negations are dropped once only
Passes == <<"universal nominal", "general universal", "double negative", "nominal",
            "de morgan", "double negative", "conjunction">>

\* What each transformer looks for: the nodes it is about, and for the universals the
\* triples themselves, for those the loop has in hand.
Restricting(G, p) == {t.s : t \in {u \in G : u.p = p}}
Enumerated(G, id) == Objects(G, id, "oneOf") # {}
Partitions(G, r) ==        \* the enumerated ranges of the property of a restriction
    {ObjectOf(G, c, "oneOf") :
        c \in {d \in UNION {Objects(G, q, "range") : q \in Objects(G, r, "onProperty")} :
                  Enumerated(G, d)}}
Matches(kind, G) ==
    CASE kind = "universal nominal" ->
            {r \in Restricting(G, "only") :
                Enumerated(G, ObjectOf(G, r, "only")) /\ Partitions(G, r) # {}}
      [] kind = "general universal" -> {t \in G : t.p = "only"}
      [] kind = "double negative" ->
            {c \in Restricting(G, "not") :
                /\ Blank(c) /\ Blank(ObjectOf(G, c, "not"))
                /\ Objects(G, ObjectOf(G, c, "not"), "not") # {}}
      [] kind = "nominal" -> {r \in Restricting(G, "some") : Enumerated(G, ObjectOf(G, r, "some"))}
      [] kind = "de morgan" -> Restricting(G, "or")
      [] kind = "conjunction" -> Restricting(G, "and")

-----------------------------------------------------------------------------
\* The rewritings.  UniversalNominalRangeTransformer: only p {i ..} becomes
\* not some p {the others}, the others being those of the range.
Others(G, r, partition) ==
    SelectSeq(partition, LAMBDA i : i \notin ToSet(ObjectOf(G, ObjectOf(G, r, "only"), "oneOf")))
InvertNominal(G, r, partition) ==
    LET new   == NewNodes(G, 3)
        added == {Triple(new[1], "oneOf", Others(G, r, partition)),
                  Triple(new[2], "onProperty", ObjectOf(G, r, "onProperty")),
                  Triple(new[2], "some", new[1]), Triple(new[3], "not", new[2])}
    IN  Deleted(Replaced(G \cup added, r, new[3]), ObjectOf(G, r, "only"))

\* GeneralUniversalTransformer: the restriction becomes some p (not d), and what
\* pointed to it points to its complement.
InvertUniversalOnce(G, r) ==             \* a bug: without the inner complement
    LET outer == NewNodes(G, 1)[1]
    IN  Renamed(G \ {Triple(r, "only", ObjectOf(G, r, "only"))}, r, outer)
          \cup {Triple(r, "onProperty", ObjectOf(G, r, "onProperty")),
                Triple(r, "some", ObjectOf(G, r, "only")), Triple(outer, "not", r)}
InvertUniversal(G, r) ==
    LET new    == NewNodes(G, 2)
        filler == ObjectOf(G, r, "only")
        own    == {t \in G : t.s = r} \ {Triple(r, "only", filler)}
    IN  Replaced(G, r, new[2]) \cup own
          \cup {Triple(r, "some", new[1]), Triple(new[1], "not", filler), Triple(new[2], "not", r)}

\* DoubleNegativeTransformer.
DropNegations(G, c) ==
    LET inner == ObjectOf(G, c, "not")
    IN  Deleted(Replaced(G, c, ObjectOf(G, inner, "not")), inner)

\* NominalRangeTransformer: some p {i ..} becomes a union of value restrictions; of
\* what the restriction said of itself, its superclasses are kept.
SpreadNominal(G, r) ==
    LET filler == ObjectOf(G, r, "some")
        is     == ObjectOf(G, filler, "oneOf")
        new    == NewNodes(G, Len(is))
        kept   == {t \in G : t.s # r \/ t.p = "sub"}
        values == UNION {{Triple(new[i], "onProperty", ObjectOf(G, r, "onProperty")),
                          Triple(new[i], "value", is[i])} : i \in DOMAIN is}
    IN  Deleted(kept \cup values \cup {Triple(r, "or", new)}, filler)

\* DemorganTransformer, on a negated union.  The new conjunction takes the name of
\* each named class that is defined as the complement.
PushNegation(G, d, negations) ==
    LET items == ObjectOf(G, d, "or")
        new   == NewNodes(G, Len(items) + 1)
        conj  == new[Len(new)]
        added == {Triple(new[i], "not", items[i]) : i \in DOMAIN items}
                   \cup {Triple(conj, "and", SubSeq(new, 1, Len(items)))}
        take(negation, done) ==
            LET moved == Replaced(done.g, negation, done.conj)
            IN  IF Blank(negation) THEN [done EXCEPT !.g = moved]
                ELSE [g |-> Renamed(moved, done.conj, negation), conj |-> negation]
    IN  Deleted(FoldLeft(LAMBDA done, n : take(n, done),
                         [g |-> G \cup added, conj |-> conj], negations).g, d)
\* And on a union of complements, which becomes the complement of a conjunction.
PullNegation(G, d) ==
    LET items == ObjectOf(G, d, "or")
        new   == NewNodes(G, 2)
        freed == FoldLeft(LAMBDA H, n : Deleted(H, n), G, items)
        conj  == Triple(new[1], "and", [i \in DOMAIN items |-> ObjectOf(G, items[i], "not")])
    IN  Replaced(freed \cup {conj, Triple(new[2], "not", new[1])}, d, new[2])
Negations(G, d) == Subjects(G, "not", d)
AllNegated(G, d) == \A i \in ToSet(ObjectOf(G, d, "or")) : Objects(G, i, "not") # {}

\* ConjunctionFlattener: a nested conjunction is deleted and its operands go to the
\* end.  With two of them there are no operands to go, and the loop over None raises
\* when both are deleted; with three, the reduction raises at once.
Nested(G, c) ==
    SelectSeq(ObjectOf(G, c, "and"), LAMBDA i : Objects(G, i, "and") # {})
Flatten(G, c) ==
    LET n == Nested(G, c)[1]
    IN  {IF t.s = c /\ t.p = "and" THEN [t EXCEPT !.o = @ \o ObjectOf(G, n, "and")] ELSE t :
            t \in Deleted(G, n)}

-----------------------------------------------------------------------------
Init ==
    /\ given \in Ontologies /\ graph = given
    /\ pass = 1 /\ due = Matches(Passes[1], graph) /\ status = "running"

\* What the transformer may come to now: what it found that is still there.  A
\* universal whose filler was redirected by the rewriting of another is a new triple
\* the loop never meets.  The query for double negatives goes on over the graph as it
\* is, so it may find more.
Reached(kind) ==
    /\ status = "running" /\ Passes[pass] = kind
Found == IF Passes[pass] = "double negative" THEN Matches("double negative", graph)
         ELSE due \cap Matches(Passes[pass], graph)
Rewrite(m, G) ==
    /\ graph' = G /\ due' = due \ {m}
    /\ UNCHANGED <<given, pass, status>>
Fail(G) ==
    /\ status' = "raised" /\ graph' = G
    /\ UNCHANGED <<given, pass, due>>

UniversalNominal(r) ==
    /\ Reached("universal nominal")
    /\ \E partition \in Partitions(graph, r) :
         IF Others(graph, r, partition) = <<>> THEN Fail(graph)   \* an empty class is false
         ELSE Rewrite(r, InvertNominal(graph, r, partition))
GeneralUniversal(t) == Reached("general universal") /\ Rewrite(t, InvertUniversal(graph, t.s))
DoubleNegative(c) == Reached("double negative") /\ Rewrite(c, DropNegations(graph, c))
NominalRange(r) == Reached("nominal") /\ Rewrite(r, SpreadNominal(graph, r))
Demorgan(d) ==
    /\ Reached("de morgan")
    /\ \/ /\ Blank(d) /\ Negations(graph, d) # {}
          /\ \E order \in SetToSeqs(Negations(graph, d)) :
                Rewrite(d, PushNegation(graph, d, order))
       \/ /\ ~(Blank(d) /\ Negations(graph, d) # {})
          /\ IF AllNegated(graph, d) THEN Rewrite(d, PullNegation(graph, d)) ELSE Rewrite(d, graph)
ConjunctionFlat(c) ==
    /\ Reached("conjunction")
    /\ CASE Len(Nested(graph, c)) = 0 -> Rewrite(c, graph)
         [] Len(Nested(graph, c)) = 1 -> Rewrite(c, Flatten(graph, c))
         [] Len(Nested(graph, c)) = 2 ->
              Fail(FoldLeft(LAMBDA H, n : Deleted(H, n), graph, Nested(graph, c)))
         [] OTHER -> Fail(graph)

NextPassDry ==                           \* a bug: until a pass finds nothing
    /\ status = "running" /\ Matches(Passes[pass], graph) = {}
    /\ IF pass = Len(Passes)
         THEN status' = "reduced" /\ UNCHANGED <<pass, due>>
         ELSE /\ pass' = pass + 1 /\ due' = Matches(Passes[pass + 1], graph)
              /\ UNCHANGED status
    /\ UNCHANGED <<given, graph>>
NextPass ==
    /\ status = "running" /\ due \cap Matches(Passes[pass], graph) = {}
    /\ IF pass = Len(Passes)
         THEN status' = "reduced" /\ UNCHANGED <<pass, due>>
         ELSE /\ pass' = pass + 1 /\ due' = Matches(Passes[pass + 1], graph)
              /\ UNCHANGED status
    /\ UNCHANGED <<given, graph>>

Next == \/ \E m \in Found : \/ UniversalNominal(m) \/ GeneralUniversal(m) \/ DoubleNegative(m)
                            \/ NominalRange(m) \/ Demorgan(m) \/ ConjunctionFlat(m)
        \/ NextPass

Spec == Init /\ [][Next]_vars
FairSpec == Spec /\ WF_vars(Next)

-----------------------------------------------------------------------------
\* Whatever has been rewritten so far, in whatever order, the ontology is true in the
\* same worlds, and no description has lost a part.  An exception of a pass leaves the
\* graph as it may be.
MeaningKept ==
    status # "raised" =>
        /\ WellFormed(graph)
        /\ \A I \in Worlds(given) : Satisfies(Read(graph), I) <=> Satisfies(Read(given), I)

\* The passes come to an end.  No anonymous negation of an anonymous negation is left,
\* and no universal but one that restricted a property to another universal: that one
\* may have been rewritten first.
Reduced ==
    /\ \A r \in Restricting(graph, "only") :
          /\ r \in Restricting(given, "only")
          /\ ObjectOf(given, r, "only") \in Restricting(given, "only")
    /\ Matches("double negative", graph) = {}
ReductionEnds == <>(status = "raised" \/ (status = "reduced" /\ Reduced))
=============================================================================
