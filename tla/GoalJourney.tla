----------------------------- MODULE GoalJourney -----------------------------
(***************************************************************************)
(* What the workspace promises about a goal, without revisions, drafts,    *)
(* operation ids or rows: a goal is worked on one cycle at a time, what    *)
(* the goal says changes only between two cycles, in a review, and the     *)
(* Action of a completed cycle, and of no other, is carried into the next. *)
(* GoalLifecycle implements this specification.                            *)
(***************************************************************************)
EXTENDS Integers, FiniteSets

CONSTANTS
    Goals,
    Contents,               \* what a goal may say
    MaxProgressingGoals,
    NoContent

VARIABLES
    phase,      \* where a goal stands
    number,     \* how many cycles it has begun
    aim,        \* what it says
    lesson      \* the completed cycle whose Action the active one is shown

vars == <<phase, number, aim, lesson>>

Phases == {"none", "acting", "reviewing", "over", "gone"}

Init ==
    /\ phase = [g \in Goals |-> "none"]
    /\ number = [g \in Goals |-> 0]
    /\ aim = [g \in Goals |-> NoContent]
    /\ lesson = [g \in Goals |-> 0]

Progressing == {g \in Goals : phase[g] \in {"acting", "reviewing"}}

\* A goal begins with its first cycle, while the user has room for it.
Begin(g) ==
    /\ phase[g] = "none"
    /\ Cardinality(Progressing) < MaxProgressingGoals
    /\ phase' = [phase EXCEPT ![g] = "acting"]
    /\ number' = [number EXCEPT ![g] = 1]
    /\ \E c \in Contents : aim' = [aim EXCEPT ![g] = c]
    /\ UNCHANGED lesson

\* The active cycle is completed: the goal is under review.
Reflect(g) ==
    /\ phase[g] = "acting"
    /\ phase' = [phase EXCEPT ![g] = "reviewing"]
    /\ lesson' = [lesson EXCEPT ![g] = 0]
    /\ UNCHANGED <<number, aim>>

\* The review ends in another cycle, with the goal as it was or reworded.
CarryOn(g) ==
    /\ phase[g] = "reviewing"
    /\ phase' = [phase EXCEPT ![g] = "acting"]
    /\ number' = [number EXCEPT ![g] = @ + 1]
    /\ \E c \in Contents : aim' = [aim EXCEPT ![g] = c]
    /\ lesson' = [lesson EXCEPT ![g] = number[g]]

\* The active cycle is given up for a new one under the same goal.
Replan(g) ==
    /\ phase[g] = "acting"
    /\ number' = [number EXCEPT ![g] = @ + 1]
    /\ lesson' = [lesson EXCEPT ![g] = 0]
    /\ UNCHANGED <<phase, aim>>

\* The goal is achieved or ended, in the middle of a cycle or in a review.
Finish(g) ==
    /\ phase[g] \in {"acting", "reviewing"}
    /\ phase' = [phase EXCEPT ![g] = "over"]
    /\ lesson' = [lesson EXCEPT ![g] = 0]
    /\ UNCHANGED <<number, aim>>

\* The goal and all that belongs to it, or a draft that became no goal, is
\* deleted and never comes back.
Forget(g) ==
    /\ phase[g] # "gone"
    /\ phase' = [phase EXCEPT ![g] = "gone"]
    /\ number' = [number EXCEPT ![g] = 0]
    /\ aim' = [aim EXCEPT ![g] = NoContent]
    /\ lesson' = [lesson EXCEPT ![g] = 0]

Next ==
    \E g \in Goals :
        Begin(g) \/ Reflect(g) \/ CarryOn(g) \/ Replan(g) \/ Finish(g) \/ Forget(g)

Spec == Init /\ [][Next]_vars
=============================================================================
