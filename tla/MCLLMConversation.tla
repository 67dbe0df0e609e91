-------------------------- MODULE MCLLMConversation --------------------------
(* Instances of LLMConversation: turns and dialogs are interchangeable.      *)
EXTENDS LLMConversation, FiniteSets, TLC

CONSTANTS t1, t2, t3, d1, d2

Symmetry == Permutations(Turns) \union Permutations(Dialogs)

\* How a process may exit when only the sessions matter, and in general.
TwoOutcomes == {"answer", "answerNoId"}
Failures    == {"answer", "garbage"}
EveryOutcome == AllOutcomes
=============================================================================
