------------------------- MODULE ResultAssessments -------------------------
(* evaluation.run: checks the program makes itself in one transaction, and   *)
(* judgements of a provider.                                                 *)
EXTENDS OwnerAttempts

Assesses(o) == kind[o] \in {"check", "judge"}

\* resolveSubjects: every subject still is the revision the call froze.
resolveSubjects(o) == o \notin moved

-----------------------------------------------------------------------------
(* Transactions *)

finishAssessment(o, r, state, usage, reconciled) ==
  LET n == [r EXCEPT !.state = state] IN
  IF Terminal(r) THEN r
  ELSE transitionResultAssessmentOwner(r, IF usage THEN settleCost(o, n) ELSE releaseCost(o, n),
                                       reconciled /\ r.state = "unknown")

markAssessmentUnknown(r) ==
  IF Terminal(r) \/ r.state = "unknown" THEN r
  ELSE transitionResultAssessmentOwner(r, [r EXCEPT !.state = "unknown"], FALSE)

\* Unlike a derivation's, this one does not ask whether the owner has ended: the transition refuses it.
persistAssessmentReceipt(r) ==
  IF r.receipt = "reconciled" THEN r
  ELSE transitionResultAssessmentOwner(r,
         [r EXCEPT !.receipt = "reconciled", !.state = IF @ = "unknown" THEN @ ELSE "submitted"], TRUE)

markAssessmentSubmitted(r) ==
  IF Terminal(r) \/ r.state = "submitted" THEN r
  ELSE IF r.receipt = "none" THEN Refused
  ELSE transitionResultAssessmentOwner(r, [r EXCEPT !.state = "submitted"], TRUE)

publishAssessment(o, r) ==
  IF Terminal(r) THEN r
  ELSE IF ~resolveSubjects(o) THEN Refused
  ELSE transitionResultAssessmentOwner(r, settleCost(o, [r EXCEPT !.state = "succeeded"]), r.state = "unknown")

\* Mutant: the attempt is claimed whatever happened since the snapshot.
claimAnyway(c) == TRUE

\* claimProviderAction: nobody moved the attempt since the snapshot, and nobody can after it.
claimProviderAction(c) == client[c].fresh

-----------------------------------------------------------------------------
(* Resumptions *)

\* The program's own evidence: it ends in this transaction, one way or another.
executeLocal(c, o) ==
  /\ UNCHANGED job
  /\ IF ~client[c].fresh THEN Throws(c, o)
     ELSE IF row[o].cancel THEN Finish(c, o, row[o], finishAssessment(o, row[o], "cancelled", FALSE, FALSE), FALSE)
     ELSE IF resolveSubjects(o) THEN Finish(c, o, row[o], publishAssessment(o, row[o]), FALSE)
     ELSE Finish(c, o, row[o], finishAssessment(o, row[o], "failed", FALSE, FALSE), FALSE)

\* submitProvider and reconcileProvider: the exact revision the caller holds, then a first question.
reconcileOrCancelAssessment(c, o) ==
  IF Terminal(row[o]) THEN Goes(c, Returned(c, o, row[o]))
  ELSE IF ~client[c].fresh THEN Throws(c, o)
  ELSE Goes(c, [At("reconciling", o) EXCEPT !.turn = client[c].turn])

processAssessmentState(o, r, answer, receipt) ==
  LET m == IF receipt THEN persistAssessmentReceipt(r) ELSE r IN
  IF answer = "not_submitted" THEN <<r, finishAssessment(o, r, "failed", FALSE, TRUE)>>
  ELSE IF m = Refused THEN <<r, Refused>>
  ELSE <<m, CASE answer = "unknown" -> markAssessmentUnknown(m)
              [] answer = "submitted" -> markAssessmentSubmitted(m)
              [] answer = "succeeded" -> publishAssessment(o, m)
              [] OTHER -> finishAssessment(o, m, answer, TRUE, TRUE)>>

submitAfterNotSubmitted(c, o) ==
  IF client[c].asked
  THEN /\ Finish(c, o, row[o], finishAssessment(o, row[o], "cancelled", FALSE, client[c].seen = "unknown"), FALSE)
       /\ UNCHANGED job
  ELSE IF ~resolveSubjects(o) \/ ~claimProviderAction(c) THEN Throws(c, o) /\ UNCHANGED job
  ELSE Write(c, o, row[o], TRUE, [client[c] EXCEPT !.pc = "submitting", !.answer = "none"]) /\ Sends(o)

reconciledAssessment(c, o, answer, receipt) ==
  LET done == processAssessmentState(o, row[o], answer, receipt) IN
  IF answer = "not_submitted" THEN submitAfterNotSubmitted(c, o)
  ELSE /\ UNCHANGED job
       /\ IF answer = "lost" THEN Finish(c, o, row[o], markAssessmentUnknown(row[o]), FALSE)
          ELSE IF /\ client[c].asked /\ done[2] # Refused
                  /\ done[2].state \in {"submitted", "unknown"} /\ done[2].receipt # "none"
          THEN Write(c, o, done[2], TRUE, [client[c] EXCEPT !.pc = "cancelling", !.answer = "none"])
          ELSE Finish(c, o, done[1], done[2], FALSE)

submittedAssessment(c, o, answer, receipt) ==
  LET done == processAssessmentState(o, row[o], answer, receipt) IN
  /\ UNCHANGED job
  /\ IF answer = "lost" THEN Finish(c, o, row[o], markAssessmentUnknown(row[o]), FALSE)
     ELSE Finish(c, o, done[1], done[2], FALSE)

cancelledAssessment(c, o, answer, receipt) ==
  IF answer = "not_submitted"
  THEN Finish(c, o, row[o], markAssessmentUnknown(row[o]), FALSE) /\ UNCHANGED job
  ELSE submittedAssessment(c, o, answer, receipt)

\* executeEvaluationRunBoundary, once there is an attempt.
continueAssessment(c, o) ==
  IF kind[o] = "check" THEN executeLocal(c, o) ELSE reconcileOrCancelAssessment(c, o) /\ UNCHANGED job

acknowledgeAssessment(c, o) ==
  IF kind[o] = "check"
  THEN /\ Finish(c, o, row[o], finishAssessment(o, row[o], "cancelled", FALSE, FALSE), FALSE)
       /\ UNCHANGED job
  ELSE Goes(c, At("reconciling", o)) /\ UNCHANGED job
=============================================================================
