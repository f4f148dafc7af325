---------------------------- MODULE MCDraftAutoSave ----------------------------
(* Small instances: a blank draft, a signal of spaces the server stores as   *)
(* blank and one further text; or texts that are all stored as they are.     *)
EXTENDS DraftAutoSave, TLC

CONSTANTS blank, spaces, words, prose

MCTexts == {blank, spaces, words}
MCCanon == (spaces :> blank) @@ (blank :> blank) @@ (words :> words)

MCTwoTexts == {blank, words}
MCTwoCanon == [t \in MCTwoTexts |-> t]

MCPlainTexts == {blank, words, prose}
MCPlainCanon == [t \in MCPlainTexts |-> t]

\* What is looked at together: one editor that is edited twice while another
\* device saves and a request is lost; an editor that is left, reloaded or
\* opened again while another device saves twice; blurs in between.
MCEdits == [edits |-> 2, others |-> 1, faults |-> 1, mounts |-> 1, ops |-> 0]
MCReloads == [edits |-> 1, others |-> 2, faults |-> 0, mounts |-> 2, ops |-> 0]
MCBlurs == [edits |-> 1, others |-> 1, faults |-> 0, mounts |-> 2, ops |-> 1]
MCSafety == {MCEdits, MCReloads, MCBlurs}

\* The same with fewer events, for liveness and for texts stored as another.
MCFault == [edits |-> 1, others |-> 1, faults |-> 1, mounts |-> 1, ops |-> 0]
MCReload == [edits |-> 1, others |-> 1, faults |-> 0, mounts |-> 2, ops |-> 0]
MCLive == {MCFault, MCReload}

\* Three changes from other devices, for one conflict after the other.
MCConflicts == {[edits |-> 2, others |-> 3, faults |-> 0, mounts |-> 1, ops |-> 0]}
=============================================================================
