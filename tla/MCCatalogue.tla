---------------------------- MODULE MCCatalogue -----------------------------
(* Instances of Crons, with the Assistants it extends, for TLC. *)
EXTENDS Crons, TLC

CONSTANTS a1, k1, c1, s1, s2, x1, x2

\* All crons run one assistant.
OneAssistant == [k \in Crons |-> a1]

\* The contents of a default assistant.
DefaultBody == [f \in Fields |-> x1]

\* Schedulers are interchangeable.
Alike == Permutations(Schedulers)
=============================================================================
