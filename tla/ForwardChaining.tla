--------------------------- MODULE ForwardChaining ---------------------------
(***************************************************************************)
(* What the RETE network promises, without a network: facts are asserted   *)
(* one at a time, a triple is inferred only when some rule concludes it    *)
(* from facts that are already known, and a reset forgets everything.      *)
(***************************************************************************)
EXTENDS RuleSemantics

CONSTANTS
    Rules,      \* the set of rules, each [body, guards, head, exists]
    Facts,      \* the triples a caller may assert
    Targets     \* the graphs a caller may hand over to receive the inferences

VARIABLES
    working_memory,   \* the asserted facts
    inferred_facts    \* the inferred ones

fcvars == <<working_memory, inferred_facts>>

FCInit == working_memory = {} /\ inferred_facts \in Targets

Assert(w) == /\ working_memory' = working_memory \cup {w}
             /\ UNCHANGED inferred_facts

Known == working_memory \cup inferred_facts

Infer(r) == \E t \in Conclusions(r, Known) \ Known :
               /\ inferred_facts' = inferred_facts \cup {t}
               /\ UNCHANGED working_memory

Forget(g) == /\ working_memory' = {}
             /\ inferred_facts' = g

FCNext == \/ \E w \in Facts : Assert(w)
          \/ \E r \in Rules : Infer(r)
          \/ \E g \in Targets : Forget(g)

FCSpec == FCInit /\ [][FCNext]_fcvars
=============================================================================
