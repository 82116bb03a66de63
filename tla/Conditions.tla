----------------------------- MODULE Conditions -----------------------------
(***************************************************************************)
(* The conditions of Horn/PositiveConditions.py and how DLP/ makes rules of *)
(* clauses over them: flattening, the Lloyd-Topor transformation, removal   *)
(* of a disjunction from a body, safety.                                    *)
(***************************************************************************)
EXTENDS Descriptions

\* A literal is about an individual or two; rdf:type literals have the class as
\* their op.  A term is an individual, a variable <<"var", ...>> or, for what a
\* head says exists, <<"bnode", ...>>.
Literal(op, args) == [c |-> "lit", op |-> op, args |-> args, naf |-> FALSE]
Naf(l)            == [l EXCEPT !.naf = TRUE]
And(s)            == [c |-> "and", of |-> s]
Or(s)             == [c |-> "or", of |-> s]
Exists(f)         == [c |-> "exists", of |-> f]
Rule(head, body)  == [c |-> "clause", head |-> head, body |-> body]
X == <<"var">>
IsVar(t)   == t \notin Ind /\ t[1] = "var"
IsBNode(t) == t \notin Ind /\ t[1] = "bnode"

\* Uniterm.__eq__ compares triples.
EqualLits(l, m) == l.c = "lit" /\ m.c = "lit" /\ l.op = m.op /\ l.args = m.args

\* The literals of a condition.
RECURSIVE Literals(_)
Literals(f) ==
    CASE f.c = "lit" -> {f}
      [] f.c = "exists" -> Literals(f.of)
      [] f.c \in {"and", "or"} -> UNION {Literals(f.of[i]) : i \in DOMAIN f.of}
      [] f.c = "clause" -> Literals(f.head) \cup Literals(f.body)
TermsIn(f) == UNION {ToSet(l.args) : l \in Literals(f)}

\* What a translation comes to that raises: UnsupportedNegationError,
\* MalformedDLPFormulaError, or the TypeError of a reduction of nothing.
Unsupported == [c |-> "unsupported"]
Malformed   == [c |-> "malformed"]
Irreducible == [c |-> "irreducible"]
Raises(f)   == f.c \in {"unsupported", "malformed", "irreducible"}

\* reduce_and over a list: the elements of a conjunction take its place.  Unless
\* the reduction starts from [], as it does for a head, the second of two
\* conjunctions at the start stays as it is.  A list of one element is not reduced,
\* and one of none cannot be.
Untouched(s, i) == s[i].c # "and" \/ (i = 2 /\ s[1].c = "and")
RECURSIVE Flat(_), Reducible(_)
Flat(s) ==
    IF Len(s) = 1 THEN s
    ELSE FlattenSeq([i \in DOMAIN s |-> IF Untouched(s, i) THEN <<s[i]>> ELSE Flat(s[i].of)])
Reducible(s) ==
    Len(s) = 1 \/ (s # <<>> /\ \A i \in DOMAIN s : Untouched(s, i) \/ Reducible(s[i].of))
FlatHead(f) ==
    IF f.c # "and" THEN f
    ELSE IF \E i \in DOMAIN f.of : f.of[i].c = "and" /\ ~Reducible(f.of[i].of) THEN Irreducible
    ELSE And(FlattenSeq([i \in DOMAIN f.of |->
                IF f.of[i].c = "and" THEN Flat(f.of[i].of) ELSE <<f.of[i]>>]))
\* In a body the one element takes the place of the list, and what it is made of
\* that of its elements.
FlatBody(f) ==
    IF f.c # "and" THEN f
    ELSE IF ~Reducible(f.of) THEN Irreducible
    ELSE IF Len(f.of) = 1 /\ f.of[1].c \in {"and", "or"} THEN And(f.of[1].of)
    ELSE And(Flat(f.of))
NormalizeClause(r) ==
    IF Raises(r) \/ Raises(FlatHead(r.head)) \/ Raises(FlatBody(r.body)) THEN Irreducible
    ELSE [r EXCEPT !.head = FlatHead(@), !.body = FlatBody(@)]

\* prepare_head_existential.
PrepareHead(r) ==
    IF r.head.c # "exists" /\ \E t \in TermsIn(r.head) : IsBNode(t)
      THEN [r EXCEPT !.head = Exists(@)] ELSE r

RECURSIVE HeadParts(_)
HeadParts(h) ==
    IF h.c = "and" THEN FlattenSeq([i \in DOMAIN h.of |-> HeadParts(h.of[i])]) ELSE <<h>>
PartClause(h, body) ==
    IF h.c = "clause" THEN NormalizeClause(Rule(h.head, And(<<body, h.body>>))) ELSE Rule(h, body)
OfConjunction(j) ==
    IF Raises(j) THEN j
    ELSE LET n == IF j.head.c = "and" THEN NormalizeClause(j) ELSE j
         IN  IF Raises(n) THEN n ELSE PrepareHead(n)

-----------------------------------------------------------------------------
\* The disjunctions of a body, those within disjunctions included.
RECURSIVE Disjunctions(_)
Disjunctions(f) ==
    IF f.c \notin {"and", "or"} THEN 0
    ELSE (IF f.c = "or" THEN 1 ELSE 0) +
         FoldSeq(LAMBDA g, n : n + Disjunctions(g), 0, f.of)

\* normalize_disjunctions, for the one disjunction among the conjuncts.  It puts
\* each disjunct in its place, and to restore the body looks the disjunct up by
\* equality: the disjunction comes back where an equal literal stands first.
Where(s) == IF \E i \in DOMAIN s : s[i].c = "or"
              THEN CHOOSE i \in DOMAIN s : s[i].c = "or" ELSE 0
FirstEqual(s, i) ==
    CHOOSE j \in 1 .. i : /\ j = i \/ EqualLits(s[j], s[i])
                          /\ \A k \in 1 .. j - 1 : ~EqualLits(s[k], s[i])
PutBack(s, i, disj) == [s EXCEPT ![FirstEqual(s, i)] = disj]
PutNothingBack(s, i, disj) == s       \* a bug: the disjunct stays in the body
\* The bodies made, one for each disjunct, and the body that is left.
Bodies(s, disj) ==
    LET at(body) == IF \E j \in DOMAIN body : body[j] = disj
                      THEN CHOOSE j \in DOMAIN body : body[j] = disj ELSE 0
        turn[k \in 0 .. Len(disj.of)] ==
            IF k = 0 THEN [made |-> <<>>, left |-> s]
            ELSE LET body   == turn[k - 1].left
                     filled == [body EXCEPT ![at(body)] = disj.of[k]]
                 IN  [made |-> Append(turn[k - 1].made, IF at(body) = 0 THEN body ELSE filled),
                      left |-> IF at(body) = 0 THEN body ELSE PutBack(filled, at(body), disj)]
    IN  turn[Len(disj.of)]

\* flatten_conjunctions: nested conjuncts go to the end.
RECURSIVE FlattenConjunctions(_)
FlattenConjunctions(s) ==
    IF \E i \in DOMAIN s : s[i].c = "and"
      THEN FlattenConjunctions(SelectSeq(s, LAMBDA g : g.c # "and") \o
             FlattenSeq([i \in DOMAIN s |-> IF s[i].c = "and" THEN s[i].of ELSE <<>>]))
      ELSE s

-----------------------------------------------------------------------------
\* A rule is [head, body], two sequences of literals, and prepared for the
\* network: what the body does not bind of the head becomes a blank node.
Conjuncts(f) == CASE f.c = "lit" -> <<f>> [] f.c = "and" -> f.of [] f.c = "exists" ->
                    (IF f.of.c = "and" THEN f.of.of ELSE <<f.of>>)
VarsOfLits(s) == {t \in UNION {ToSet(s[i].args) : i \in DOMAIN s} : IsVar(t)}
PreparedSwapped(head, body) ==           \* a bug: blank nodes for the body
    LET blank(t) == IF IsVar(t) /\ t \notin VarsOfLits(head) THEN <<"bnode">> \o t ELSE t
    IN  [head |-> head,
         body |-> [i \in DOMAIN body |->
                    [body[i] EXCEPT !.args = [k \in DOMAIN @ |-> blank(@[k])]]]]
Prepared(head, body) ==
    LET blank(t) == IF IsVar(t) /\ t \notin VarsOfLits(body) THEN <<"bnode">> \o t ELSE t
    IN  [head |-> [i \in DOMAIN head |->
                    [head[i] EXCEPT !.args = [k \in DOMAIN @ |-> blank(@[k])]]],
         body |-> body]
IsNegative(r) == \E i \in DOMAIN r.body : r.body[i].naf

\* Clause.__hash__, by which a set of rules tells them apart: the bag of the terms
\* of each side, blank nodes left out, whatever their places and negated or not.
\* (Classes and properties are not terms a rule has as an argument.)
TermBag(s) ==
    <<ToBag([i \in DOMAIN s |-> s[i].op]),
      ToBag(SelectSeq(FlattenSeq([i \in DOMAIN s |-> s[i].args]), LAMBDA t : ~IsBNode(t)))>>
SameHash(q, r) == TermBag(q.head) = TermBag(r.head) /\ TermBag(q.body) = TermBag(r.body)

\* binds and is_safe_for_variable of the conditions: a literal binds its arguments,
\* negated or not, a disjunction what each disjunct binds.
RECURSIVE Binds(_, _)
Binds(f, t) ==
    CASE f.c = "lit"    -> t \in ToSet(f.args)
      [] f.c = "and"    -> \E i \in DOMAIN f.of : Binds(f.of[i], t)
      [] f.c = "or"     -> \A i \in DOMAIN f.of : Binds(f.of[i], t)
      [] f.c = "exists" -> Binds(f.of, t)
RECURSIVE SafeFor(_, _)
SafeFor(f, t) ==
    CASE f.c = "lit"    -> Binds(f, t)
      [] f.c = "and"    -> \E i \in DOMAIN f.of : SafeFor(f.of[i], t)
      [] f.c = "or"     -> \A i \in DOMAIN f.of : SafeFor(f.of[i], t)
      [] f.c = "exists" -> SafeFor(f.of, t)

\* Rule.is_safe: the body binds the variables and blank nodes of both sides.
Unnamed(f) == TermsIn(f) \ Ind
IsSafe(r) ==
    /\ \A t \in Unnamed(And(r.head)) : SafeFor(And(r.body), t)
    /\ \A t \in Unnamed(And(r.body)) : Binds(And(r.body), t)
=============================================================================
