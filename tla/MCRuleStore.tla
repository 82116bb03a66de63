---------------------------- MODULE MCRuleStore ----------------------------
(***************************************************************************)
(* Documents for RuleStore.  Collections are neither nested nor have their *)
(* first member again.                                                     *)
(***************************************************************************)
EXTENDS RuleStore

CONSTANTS X, Y, M, N, cls, pred, sel, rel, less, one, two, f1, f2, f3, f4, l1, l2, l3, b1, b2

St(in, s, p, o) == Triple(s, p, o) @@ [in |-> in]
List(in, name, members) == [name |-> name, members |-> members, in |-> in]
Parsed(items) == [items |-> items, streamed |-> TRUE]
Stored(items) == [items |-> items, streamed |-> FALSE]

\* Collections on both sides of facts and in formulae, one with a builtin's
\* argument; a rule with patterns over the cells of lists.
Collections ==
    Parsed(<<List(Root, l1, <<one, two>>), List(Root, l2, <<two>>), St(Root, l1, rel, l2),
             St(f1, X, pred, M), St(f1, M, less, N), St(f1, X, sel, N),
             List(f2, l3, <<M, N, one>>), St(f2, b1, sel, l3), St(Root, f1, implies, f2),
             St(f3, X, first, Y), St(f4, Y, rel, X), St(Root, f3, implies, f4)>>)
OneFact == Parsed(<<List(Root, l1, <<one, two, cls>>), St(Root, l1, rel, cls),
                    List(f1, l2, <<X, one>>), St(f1, X, pred, l2), St(f2, X, rel, b2),
                    St(Root, f1, implies, f2)>>)
\* Variables of the head alone, two rules with the same names, from a dataset.
Existentials ==
    Stored(<<St(f1, X, pred, Y), St(f1, Y, less, M), St(f2, X, sel, M), St(f2, M, rel, Y),
             St(f3, X, rel, Y), St(f4, Y, pred, M), St(f4, b1, sel, b2),
             St(Root, f1, implies, f2), St(Root, f3, implies, f4), St(Root, one, rel, two)>>)
\* Rules that are refused.
BuiltinHead == Parsed(<<St(f1, X, pred, Y), St(f2, X, less, Y), St(Root, f1, implies, f2)>>)
BuiltinBody ==
    Parsed(<<St(f1, X, less, Y), St(f2, one, rel, two), St(Root, f1, implies, f2)>>)
EmptyBody == Parsed(<<St(f2, X, pred, one), St(Root, f1, implies, f2)>>)

MCDocuments == {Collections, OneFact, Existentials, BuiltinHead, BuiltinBody, EmptyBody}
=============================================================================
