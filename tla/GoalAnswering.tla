---------------------------- MODULE GoalAnswering ----------------------------
(***************************************************************************)
(* What solving a goal over rules and facts promises, without saying how:  *)
(* a goal that is taken up is answered once, by its solutions in the least *)
(* model of the rules over the facts, or is refused.                       *)
(***************************************************************************)
EXTENDS HornPrograms

CONSTANT Model(_, _)     \* the least model of clauses over facts

VARIABLES
    clauses,     \* the rules
    facts,       \* the facts
    asked,       \* the goal, <<>> when there is none
    reply        \* <<the set of its answers>>, <<>> as long as there is none

vars == <<clauses, facts, asked, reply>>

Right(g) == Solutions(g, Model(clauses, facts))

Init == asked = <<>> /\ reply = <<>>

Ask    == /\ asked = <<>> /\ asked' # <<>> /\ reply' = <<>>
          /\ UNCHANGED <<clauses, facts>>
Answer == /\ asked # <<>> /\ reply = <<>> /\ reply' = <<Right(asked)>>
          /\ UNCHANGED <<clauses, facts, asked>>
Drop   == /\ asked # <<>> /\ asked' = <<>> /\ reply' = <<>>
          /\ UNCHANGED <<clauses, facts>>
Learn  == /\ asked = <<>> /\ facts \subseteq facts'
          /\ UNCHANGED <<clauses, asked, reply>>

Next == Ask \/ Answer \/ Drop \/ Learn

Spec == Init /\ [][Next]_vars
=============================================================================
