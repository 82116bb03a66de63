--------------------------- MODULE SidewaysPassing ---------------------------
(***************************************************************************)
(* Sideways information passing (SidewaysInformationPassing.py): the order *)
(* in which the body of a clause is evaluated, and the variables each      *)
(* literal receives from the head and from the literals before it.         *)
(***************************************************************************)
EXTENDS HornPrograms

\* find_full_sip chooses the next item among the literals that are not equal
\* to one chosen before; equality ignores the negation.
Rest(body, o, i) ==
    {j \in DOMAIN body : \A k \in 1 .. i - 1 : ~Same(body[o[k]], body[j])}

\* The variables known to the left of position i; the terms of the head are all
\* there, constants too.
KnownAt(head, body, o, i) ==
    Args(head) \cup UNION {VarsOf(body[o[k]]) : k \in 1 .. i - 1}

\* An order is found when each item has a variable in common with the left, and
\* when one literal is left, a term.
IsFullSip(head, body, o) ==
    \A i \in DOMAIN o :
        /\ o[i] \in Rest(body, o, i)
        /\ (Cardinality(Rest(body, o, i)) = 1) = (i = Len(o))
        /\ LET asked == IF i = Len(o) THEN Args(body[o[i]])
                                      ELSE VarsOf(body[o[i]])
           IN  asked \cap KnownAt(head, body, o, i) # {}
FullSips(head, body) ==
    {o \in UNION {[1 .. m -> DOMAIN body] : m \in DOMAIN body} : IsFullSip(head, body, o)}

\* The depth-first search takes the items in their order in the body.
IsBefore(o, p) == \E k \in DOMAIN o \cap DOMAIN p :
                     o[k] < p[k] /\ \A j \in 1 .. k - 1 : o[j] = p[j]
FirstOf(S) == {o \in S : \A p \in S : p = o \/ IsBefore(o, p)}

\* proper_sip_order_with_negation.
NegationLast(body, o) ==
    \A i, j \in DOMAIN o : body[o[i]].naf /\ i < j => body[o[j]].naf

-----------------------------------------------------------------------------
\* AdornedUniTerm.get_distinguished_variables(vars_only=True).
Distinguished(h) == {h.args[i] : i \in {k \in DOMAIN h.ad : h.ad[k] = "b"}} \cap Var
BoundHead(h) == \E i \in DOMAIN h.ad : h.ad[i] = "b"

\* collect_sip_arc_vars: from the head come the distinguished variables, or all
\* its arguments when there are none; from the literals to the left, all.
FromHeadAll(h) == Args(h)         \* a bug: free arguments are passed too
FromHead(h) == IF Distinguished(h) # {} THEN Distinguished(h) ELSE Args(h)
Passed(h, body, o, i) ==
    (FromHead(h) \cup UNION {Args(body[o[k]]) : k \in 1 .. i - 1})
        \cap Args(body[o[i]])

\* The orders build_natural_sip accepts: ignore_unbound_d_preds asks that each
\* arc carry a variable, and a negated literal that no positive one follow.
Accepted(h, body, ignoreUnbound) ==
    {o \in FullSips(h, body) :
        /\ ignoreUnbound => \A i \in DOMAIN o : Passed(h, body, o, i) # {}
        /\ ~ignoreUnbound => NegationLast(body, o)}

\* A body of one literal is not searched for an order, and gets an arc from a
\* bound head only.  There is at most one order, the first accepted.
SipOrders(h, body, ignoreUnbound) ==
    IF Len(body) > 1
      THEN FirstOf(Accepted(h, body, ignoreUnbound))
      ELSE {o \in {<<1>>} :
              BoundHead(h) /\ ignoreUnbound => Passed(h, body, o, 1) # {}}

\* The positions with an arc N -> q, label Passed, into an occurrence of q: the
\* predicate and the arguments, the negation not being part of its identifier.
Occurrence(l) == <<l.op, l.args>>
Incoming(h, body, o, l) ==
    {k \in DOMAIN o : /\ Len(body) > 1 \/ BoundHead(h)
                      /\ Occurrence(body[o[k]]) = Occurrence(l)}
=============================================================================
