----------------------------- MODULE RuleStore -----------------------------
(***************************************************************************)
(* N3RuleStore (RuleStore.py) and Ruleset (HornRules.py): a parser, or a   *)
(* loop over a dataset, adds the statements of an N3 document one by one;  *)
(* the store collects lists, formulae, rules and facts; _finalize spells   *)
(* the lists out where they are referred to and puts the formulae into the *)
(* rules; Ruleset makes clauses of the rules.                              *)
(*                                                                         *)
(* A document is a sequence of statements [s, p, o, in] and collections    *)
(* [name, members, in]; "in" is Root or the identifier of a formula.       *)
(***************************************************************************)
EXTENDS Naturals, FiniteSets, SequencesExt, TLC

CONSTANTS
    Var, Names,                \* variables; IRIs and literals
    first, rest, nil, implies, \* of the RDF and log vocabularies
    filters,                   \* the predicates that are builtins
    Root, None,
    Documents                  \* [items, streamed]: what is read, and whether
                               \* by the parser or from a dataset

VARIABLES
    document, input,           \* what is read, and what is left to read
    context,                   \* the graph of the statement read last
    facts, formulae, rules,
    lists, current_list, list_buffer,
    clauses,                   \* the formulae of the Ruleset
    phase                      \* "reading", "finalized", or the exception raised

listVars == <<lists, current_list, list_buffer>>
storeVars == <<facts, formulae, rules, listVars>>
vars == <<document, input, context, storeVars, clauses, phase>>

-----------------------------------------------------------------------------
\* The parser states a collection cell by cell, after those nested in it.
Triple(s, p, o) == [s |-> s, p |-> p, o |-> o]
Cell(name, i) == IF i = 1 THEN name ELSE <<name, i>>
Stated(i) ==
    IF "members" \notin DOMAIN i THEN <<i>>
    ELSE LET n == Len(i.members)
             link(k) == IF k = n THEN nil ELSE Cell(i.name, k + 1)
         IN  FlattenSeq([k \in 1 .. n |->
                <<Triple(Cell(i.name, k), first, i.members[k]) @@ [in |-> i.in],
                  Triple(Cell(i.name, k), rest, link(k)) @@ [in |-> i.in]>>])
Statements(d) == FlattenSeq([k \in DOMAIN d.items |-> Stated(d.items[k])])

Init ==
    /\ document \in Documents /\ input = Statements(document) /\ context = Root
    /\ facts = <<>> /\ formulae = <<>> /\ rules = <<>>
    /\ lists = <<>> /\ current_list = None /\ list_buffer = <<>>
    /\ clauses = <<>> /\ phase = "reading"

\* A dataset is read graph after graph, otherwise in any order.
Readable ==
    {i \in DOMAIN input : IF document.streamed THEN i = 1
        ELSE input[i].in = context \/ \A j \in DOMAIN input : input[j].in # context}
Read(i) == /\ phase = "reading" /\ i \in Readable
           /\ input' = RemoveAt(input, i) /\ context' = input[i].in
           /\ UNCHANGED <<document, clauses, phase>>

-----------------------------------------------------------------------------
\* add: the members of a list go into one buffer, until the rest is nil.
IsCell(t, p) == t.p = p /\ t.s \notin Var
AddFirst(i) ==
    /\ Read(i) /\ IsCell(input[i], first)
    /\ list_buffer' = Append(list_buffer, input[i].o)
    /\ current_list' = IF current_list = None THEN input[i].s ELSE current_list
    /\ UNCHANGED <<facts, formulae, rules, lists>>

AddRestKeeping(i) ==             \* a bug: the buffer is not emptied
    /\ Read(i) /\ IsCell(input[i], rest)
    /\ IF input[i].o = nil
         THEN /\ lists' = (current_list :> list_buffer) @@ lists
              /\ current_list' = None /\ UNCHANGED list_buffer
         ELSE UNCHANGED listVars
    /\ UNCHANGED <<facts, formulae, rules>>
AddRest(i) ==
    /\ Read(i) /\ IsCell(input[i], rest)
    /\ IF input[i].o = nil
         THEN /\ lists' = (current_list :> list_buffer) @@ lists
              /\ list_buffer' = <<>> /\ current_list' = None
         ELSE UNCHANGED listVars
    /\ UNCHANGED <<facts, formulae, rules>>

IsOther(t) == ~IsCell(t, first) /\ ~IsCell(t, rest)
Stripped(t) == Triple(t.s, t.p, t.o)
AddRule(i) ==
    /\ Read(i) /\ IsOther(input[i]) /\ input[i].in = Root /\ input[i].p = implies
    /\ rules' = Append(rules, <<input[i].s, input[i].o>>)
    /\ UNCHANGED <<facts, formulae, listVars>>
AddFact(i) ==
    /\ Read(i) /\ IsOther(input[i]) /\ input[i].in = Root /\ input[i].p # implies
    /\ facts' = Append(facts, Stripped(input[i]))
    /\ UNCHANGED <<formulae, rules, listVars>>

\* A statement of a formula is a pattern or, if its predicate is a filter, a builtin.
IsBuiltin(t) == t.p \in filters
Formula(f) == IF f \in DOMAIN formulae THEN formulae[f] ELSE <<>>
AppendedAlone(f, t) == <<t>>     \* a bug: the formula is made anew
Appended(f, t) == Append(Formula(f), t)
AddToFormula(i) ==
    /\ Read(i) /\ IsOther(input[i]) /\ input[i].in # Root
    /\ formulae' = (input[i].in :> Appended(input[i].in, Stripped(input[i]))) @@ formulae
    /\ UNCHANGED <<facts, rules, listVars>>

-----------------------------------------------------------------------------
\* _unroll_list: the link of a member is found by its index, so an occurrence of
\* the first member is the head of the list again.  New blank nodes are named for
\* the place they are made at.
Unrolled(name, at) ==
    LET l == lists[name]
        link == [k \in DOMAIN l |-> IF l[k] = l[1] THEN name ELSE <<at, name, k>>]
        next(k) == IF k = Len(l) THEN nil ELSE link[k + 1]
    IN  FlattenSeq([k \in DOMAIN l |->
            <<Triple(link[k], first, l[k]), Triple(link[k], rest, next(k))>>])

\* unroll_func: each triple is followed by the lists it refers to; a builtin, which
\* there is in formulae only, is not.
ListsOf(t, scope) == IF scope # Root /\ IsBuiltin(t) THEN <<>>
                     ELSE SelectSeq(<<t.s, t.o>>, LAMBDA x : x \in DOMAIN lists)
Spelled(ts, scope) ==
    FlattenSeq([k \in DOMAIN ts |->
        <<ts[k]>> \o FlattenSeq(LET ls == ListsOf(ts[k], scope)
                                IN  [j \in DOMAIN ls |-> Unrolled(ls[j], <<scope, k, j>>)])])

\* _finalize.  No head may have a builtin.
Finalize ==
    /\ phase = "reading" /\ input = <<>>
    /\ facts' = Spelled(facts, Root)
    /\ formulae' = [f \in DOMAIN formulae |-> Spelled(formulae[f], f)]
    /\ LET held(f) == IF f \in DOMAIN formulae THEN formulae'[f] ELSE <<>>
       IN  IF \E k \in DOMAIN rules : \E t \in ToSet(held(rules[k][2])) : IsBuiltin(t)
             THEN phase' = "AssertionError" /\ UNCHANGED rules
             ELSE /\ rules' = [k \in DOMAIN rules |-> <<held(rules[k][1]), held(rules[k][2])>>]
                  /\ phase' = "finalized"
    /\ UNCHANGED <<document, input, context, listVars, clauses>>

-----------------------------------------------------------------------------
\* Ruleset: a variable of the head that no pattern of the body has becomes a new
\* blank node of the rule; the blank nodes of the head are its existentials.
TermsOf(ts) == UNION {{t.s, t.p, t.o} : t \in ToSet(ts)}
IsBNode(x) == x \notin Var \cup Names \cup filters \cup {first, rest, nil, implies}
Patterns(ts) == SelectSeq(ts, LAMBDA t : ~IsBuiltin(t))
HeadOnly(body, head) == (TermsOf(head) \cap Var) \ TermsOf(Patterns(body))
Skolem(k, v) == <<"skolem", k, v>>
Skolemized(k, vs, t) ==
    LET put(x) == IF x \in vs THEN Skolem(k, x) ELSE x
    IN  Triple(put(t.s), t.p, put(t.o))
ClauseOf(k, body, head) ==
    LET new == [j \in DOMAIN head |-> Skolemized(k, HeadOnly(body, head), head[j])]
    IN  [body |-> body, head |-> new, declare |-> {x \in TermsOf(new) : IsBNode(x)}]

\* One rule after the other; reduce() raises on a body or a head without a term, and
\* a body of one builtin alone has terms where Clause expects literals.
Translate ==
    /\ phase = "finalized" /\ Len(clauses) < Len(rules)
    /\ LET k == Len(clauses) + 1
           body == rules[k][1]
       IN  CASE body = <<>> \/ rules[k][2] = <<>> ->
                  phase' = "TypeError" /\ UNCHANGED clauses
             [] Len(body) = 1 /\ IsBuiltin(body[1]) /\ rules[k][2] # <<>> ->
                  phase' = "AttributeError" /\ UNCHANGED clauses
             [] OTHER -> /\ clauses' = Append(clauses, ClauseOf(k, body, rules[k][2]))
                  /\ UNCHANGED phase
    /\ UNCHANGED <<document, input, context, storeVars>>

Add == \E i \in DOMAIN input :
          AddFirst(i) \/ AddRest(i) \/ AddRule(i) \/ AddFact(i) \/ AddToFormula(i)
Next == Add \/ Finalize \/ Translate
Spec == Init /\ [][Next]_vars

-----------------------------------------------------------------------------
Items == ToSet(document.items)
IsCollection(i) == "members" \in DOMAIN i
TriplesIn(scope) == ToSet(IF scope = Root THEN facts ELSE Formula(scope))

\* After _finalize, wherever a triple refers to a collection the cells of the
\* collection are there, in one chain from its name to nil, each with its member:
\* collections are read through one buffer and spelled out once more for each use.
Mentions(scope, name) ==
    \E i \in Items : /\ ~IsCollection(i) /\ i.in = scope /\ name \in {i.s, i.o}
                     /\ scope = Root \/ ~IsBuiltin(i)
Objects(ts, x, p) == {t.o : t \in {u \in ts : u.s = x /\ u.p = p}}
IsList(ts, name, members) ==
    LET cell[k \in 1 .. Len(members) + 1] ==
            IF k = 1 THEN name
            ELSE LET next == Objects(ts, cell[k - 1], rest)
                 IN  IF Cardinality(next) = 1 THEN CHOOSE x \in next : TRUE ELSE None
    IN  /\ cell[Len(members) + 1] = nil
        /\ \A k \in DOMAIN members : Objects(ts, cell[k], first) = {members[k]}
ListsKept ==
    phase # "reading" =>
        \A l \in {i \in Items : IsCollection(i)} : \A scope \in {Root} \cup DOMAIN formulae :
            Mentions(scope, l.name) => IsList(TriplesIn(scope), l.name, l.members)

\* "maintains order of statements": each implication becomes one rule over what was
\* said in its formulae, in that order if it was parsed; no variable of a clause's
\* head is left unbound, and no two rules have an existential in common.
Said(f) == SelectSeq(document.items, LAMBDA i : ~IsCollection(i) /\ i.in = f)
Assembled(f, ts) ==
    LET said == [k \in DOMAIN Said(f) |-> Stripped(Said(f)[k])]
        own  == SelectSeq(ts, LAMBDA t : t \in ToSet(said))
    IN  IF document.streamed THEN own = said \o <<>>
        ELSE ToSet(own) = ToSet(said) /\ Len(own) = Len(said)
RulesAssembled ==
    phase = "finalized" =>
        /\ Len(rules) = Len(SelectSeq(Said(Root), LAMBDA i : i.p = implies))
        /\ \A i \in Items : ~IsCollection(i) /\ i.in = Root /\ i.p = implies =>
              \E k \in DOMAIN rules : Assembled(i.s, rules[k][1]) /\ Assembled(i.o, rules[k][2])
        /\ \A k \in DOMAIN clauses :
              /\ TermsOf(clauses[k].head) \cap Var \subseteq TermsOf(Patterns(clauses[k].body))
              /\ \A j \in 1 .. k - 1 : clauses[j].declare \cap clauses[k].declare = {}
=============================================================================
