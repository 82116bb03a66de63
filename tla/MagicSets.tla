------------------------------ MODULE MagicSets ------------------------------
(***************************************************************************)
(* magic_set_transformation (Magic.py): the adorned program rewritten so   *)
(* that its bottom-up evaluation starts from the goal.  Magic predicates   *)
(* are named after the predicate, without its adornment.                   *)
(***************************************************************************)
EXTENDS AdornProgram

CONSTANTS
    MagicName,     \* predicate -> <predicate>_magic
    NoMagic        \* no_magic

\* make_magic_pred.  It keeps all the arguments: a binary predicate would lose
\* its free one if the adornment were compared with "b" and not with " b".
MagicPred(l) == Lit(MagicName[l.op], l.args)
HasBound(l)  == \E i \in DOMAIN l.ad : l.ad[i] = "b"

\* build_magic_body, for the literal at i: every literal to the left is in N.
HeadMagic(r) == IF HasBound(r.head) THEN <<MagicPred(r.head)>> ELSE <<>>
PrevMagic(l) ==
    IF l.op \in derived /\ HasBound(l)
      THEN IF l.op \in NoMagic THEN <<l, l>> ELSE <<l, MagicPred(l)>>
      ELSE <<l>>
MagicBodyOwn(r, i) ==                     \* a bug: the literal itself is included
    HeadMagic(r) \o FlattenSeq([k \in 1 .. i |-> PrevMagic(r.body[k])])
MagicBody(r, i) ==
    HeadMagic(r) \o FlattenSeq([k \in 1 .. i - 1 |-> PrevMagic(r.body[k])])

\* A magic rule for each adorned literal of a body; one with an empty body is
\* not yielded.
Positions(r) == {i \in DOMAIN r.body : IsAdorned(r.body[i]) /\ r.body[i].op \notin NoMagic}
MagicRules(r) ==
    {Clause(MagicPred(r.body[i]), MagicBody(r, i)) :
        i \in {k \in Positions(r) : MagicBody(r, k) # <<>>}}

\* The rule itself, each of those literals behind its magic predicate, the whole
\* body behind that of the head.
Guarded(r) ==
    Clause(r.head,
           (IF r.head.op \in NoMagic THEN <<>> ELSE HeadMagic(r)) \o
           FlattenSeq([i \in DOMAIN r.body |->
               IF i \in Positions(r) THEN <<MagicPred(r.body[i]), r.body[i]>>
                                     ELSE <<r.body[i]>>]))

MagicProgram(program_) == UNION {MagicRules(r) \cup {Guarded(r)} : r \in program_}
MagicSeed(g) == Fact(MagicPred(g))
=============================================================================
