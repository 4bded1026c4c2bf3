--------------------------- MODULE CanvasTimeline ---------------------------
(***************************************************************************)
(* What undo and redo promise (docs/canvas-editing.md:62-65): the layouts  *)
(* of the session in one line, with a cursor at the one shown.  An edit    *)
(* forgets what lies after the cursor; undo and redo only move the cursor; *)
(* a change by somebody else replaces the layout under the cursor.         *)
(***************************************************************************)
EXTENDS Integers, Sequences
VARIABLES timeline, cursor

Init == Len(timeline) = 1 /\ cursor = 1

Edit == /\ cursor' = cursor + 1 /\ Len(timeline') = cursor'
        /\ SubSeq(timeline', 1, cursor) = SubSeq(timeline, 1, cursor)
Undo == cursor > 1 /\ cursor' = cursor - 1 /\ timeline' = timeline
Redo == cursor < Len(timeline) /\ cursor' = cursor + 1 /\ timeline' = timeline
\* Somebody else's change: only the layout under the cursor differs.
Change == /\ cursor' = cursor /\ Len(timeline') = Len(timeline)
          /\ \A i \in DOMAIN timeline \ {cursor} : timeline'[i] = timeline[i]
Reset == Len(timeline') = 1 /\ cursor' = 1

Next == Edit \/ Undo \/ Redo \/ Change \/ Reset
Spec == Init /\ [][Next]_<<timeline, cursor>>
=============================================================================
