--------------------------- MODULE HandoffSnapshot ---------------------------
(***************************************************************************)
(* What a snapshot or an event record restores of a handoff: HandoffV1 of  *)
(* src/src/persistence/codec.rs.                                           *)
(*                                                                         *)
(* The record lists the delivery attempts, the progress, the response and  *)
(* the termination separately.  Restoring one replays them on a new        *)
(* handoff through the operations that checked them the first time, in an  *)
(* order of its own: attempts to deliver the prompt, reports, the end, and *)
(* then the attempts to deliver the messages that follow up.               *)
(***************************************************************************)
EXTENDS Orchestration

LOCAL Seqs == INSTANCE SequencesExt

\* A restored handoff, if every operation was accepted: a set of at most one.
NewRecord(h) == [h EXCEPT !.attempts = <<>>, !.progress = FALSE, !.response = None, !.termination = None]

\* begin_delivery and the end of the attempt that the record holds.
RestoreAttempt(restored, attempt) ==
  {[r EXCEPT !.attempts = Append(@, attempt)] : r \in {x \in restored : MayBegin(x, attempt.msg)}}
RestoreAttempts(restored, attempts) == Seqs!FoldLeft(RestoreAttempt, restored, attempts)

Answerable(restored) == {r \in restored : Active(r) /\ MessageDelivered(r, "root")}
RestoreReports(restored, h) ==
  LET reported == IF h.progress THEN {[r EXCEPT !.progress = TRUE] : r \in Answerable(restored)} ELSE restored
  IN IF h.response = None THEN reported
     ELSE {[r EXCEPT !.response = h.response] : r \in Answerable(reported)}
RestoreEnd(restored, h) ==
  IF h.termination = None THEN restored
  ELSE {[r EXCEPT !.termination = h.termination] : r \in {x \in restored : Active(x)}}

RootAttempts(h) == SelectSeq(h.attempts, LAMBDA a : a.msg = "root")
FollowUps(h) == SelectSeq(h.attempts, LAMBDA a : a.msg # "root")

\* Faulty variant: a termination is restored before the prompt's attempts.
RestoredEndFirst(h) ==
  LET delivered == RestoreAttempts(RestoreEnd({NewRecord(h)}, h), RootAttempts(h))
  IN RestoreAttempts(RestoreReports(delivered, h), FollowUps(h))

\* HandoffV1::into_domain of the record of h.
Restored(h) ==
  LET delivered == RestoreAttempts({NewRecord(h)}, RootAttempts(h))
  IN RestoreAttempts(RestoreEnd(RestoreReports(delivered, h), h), FollowUps(h))

-----------------------------------------------------------------------------
\* However deliveries, reports, ends and recoveries followed each other, the
\* record of a handoff is accepted again and gives the same handoff, the
\* numbering of its attempts included.
HandoffsRestore == \A h \in HandoffIds(db) : Restored(db.handoff[h]) = {db.handoff[h]}
=============================================================================
