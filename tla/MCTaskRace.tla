----------------------------- MODULE MCTaskRace -----------------------------
(* A creator and two agents that may take the task.  a and b are on one      *)
(* computer, which the task may be offered to.                               *)
EXTENDS TaskRace, TLC

CONSTANTS c, a, b, office, desk

MCMachine == [x \in Agents |-> IF x = c THEN office ELSE desk]

Everybody(actions) == [x \in Agents |-> actions]
Otherwise(actions, creators) == [x \in Agents |-> IF x = c THEN creators ELSE actions]

\* Races for a task and against what its creator does to it, and its way from one owner to
\* the next: four events.
Race == [updates |-> Otherwise({"claimed", "started", "completed"},
                               {"refined", "cancelled", "reopened"}),
         targets |-> {Nobody}, sealers |-> {}, ids |-> 4]
Handover == [updates |-> Everybody({"claimed", "released"}), targets |-> {Nobody}, sealers |-> {},
             ids |-> 4]

\* The whole life of a task: three events of any kind.  And the sealing of its events.
Life == [updates |-> Everybody(UpdateActions), targets |-> {Nobody, desk}, sealers |-> {}, ids |-> 3]
Tidy == [updates |-> Everybody({"refined", "claimed"}), targets |-> {Nobody},
         sealers |-> {c}, ids |-> 3]

\* What it takes for a seal to separate a task from its winning claim.
Sealed == [updates |-> Everybody({"refined", "claimed"}), targets |-> {Nobody}, sealers |-> {a},
           ids |-> 4]

MCScopes == {Race, Handover, Life, Tidy}
MCSealed == {Sealed}

\* a and b differ in nothing but their names.
MCSymmetry == Permutations({a, b})
=============================================================================
