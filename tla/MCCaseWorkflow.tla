---- MODULE MCCaseWorkflow ----
EXTENDS CaseWorkflow, TLC

\* Requests and volunteers are interchangeable.
Symmetry == Permutations(Requests) \cup Permutations(Volunteers)

===============================
