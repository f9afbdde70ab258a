-------------------------- MODULE MediaDerivations --------------------------
(* media.derive: local derivations (proxies, frames, audio) made by a child  *)
(* of the process, and transcriptions made by a provider.                    *)
EXTENDS OwnerAttempts

Derives(o) == kind[o] \in {"derive", "transcribe"}

\* resolveSource and assertProjectRevision: the frozen source and Project revision are still the current ones.
resolveSource(o) == o \notin moved

-----------------------------------------------------------------------------
(* Transactions *)

\* A held receipt needs the provider's final account before the attempt may end.
finishDerivation(o, r, state, receipt, usage, reconciled) ==
  LET n == [r EXCEPT !.state = state, !.receipt = IF receipt THEN "reconciled" ELSE @] IN
  IF Terminal(r) THEN r
  ELSE IF Provided(o) /\ n.receipt # "none" /\ ~usage THEN Refused
  ELSE transitionMediaDerivationOwner(o, r, IF usage THEN settleCost(o, n) ELSE releaseCost(o, n),
                                      reconciled /\ r.state = "unknown")

markDerivationUnknown(o, r) ==
  IF Terminal(r) \/ r.state = "unknown" THEN r
  ELSE transitionMediaDerivationOwner(o, r, [r EXCEPT !.state = "unknown"], FALSE)

markDerivationSubmitted(o, r) ==
  IF Terminal(r) \/ r.state = "submitted" THEN r
  ELSE IF r.receipt = "none" THEN Refused
  ELSE transitionMediaDerivationOwner(o, r, [r EXCEPT !.state = "submitted"], TRUE)

persistDerivationReceipt(r, reconciled) ==
  IF Terminal(r) THEN r ELSE [r EXCEPT !.receipt = IF reconciled THEN "reconciled" ELSE "held"]

\* publishOutputs: a provider's result wins over a cancellation, a local one never does.
publishOutputs(o, r) ==
  IF Terminal(r) THEN r
  ELSE IF (r.cancel /\ ~Provided(o)) \/ ~resolveSource(o) THEN Refused
  ELSE transitionMediaDerivationOwner(o, r,
         settleCost(o, [r EXCEPT !.state = "succeeded", !.receipt = IF Provided(o) THEN "reconciled" ELSE @]),
         r.state = "unknown")

-----------------------------------------------------------------------------
(* Resumptions of a local derivation *)

cancelLocal(c, o) ==
  IF Terminal(row[o]) THEN Goes(c, Returned(c, o, row[o])) /\ UNCHANGED job
  ELSE Goes(c, At("stopping", o)) /\ AbortJob(o)

continueLocal(c, o) ==
  IF row[o].cancel THEN cancelLocal(c, o)
  ELSE /\ IF resolveSource(o) THEN Goes(c, At("verifying", o)) ELSE Throws(c, o)
       /\ UNCHANGED job

\* The source is verified; the adapter asks once more whether it should begin at all.
deriveLocal(c, o) ==
  IF row[o].cancel THEN cancelLocal(c, o)
  ELSE Goes(c, At("working", o)) /\ job' = [job EXCEPT ![o] = "working"]

derivedLocal(c, o) ==
  \/ job[o] = "made" /\ Goes(c, At("storing", o)) /\ UNCHANGED job
  \/ /\ job[o] = "failed"
     /\ IF row[o].cancel THEN cancelLocal(c, o)
        ELSE /\ Finish(c, o, row[o], finishDerivation(o, row[o], "failed", FALSE, FALSE, FALSE), FALSE)
             /\ UNCHANGED job

\* Mutant: the cancellation recorded while the outputs were being stored is not looked at.
publishUnasked(c, o) ==
  /\ Finish(c, o, row[o], publishOutputs(o, [row[o] EXCEPT !.cancel = FALSE]), FALSE)
  /\ UNCHANGED job

\* The outputs are stored: a cancellation that came meanwhile stops the child instead.
publishLocal(c, o) ==
  IF row[o].cancel THEN cancelLocal(c, o)
  ELSE Finish(c, o, row[o], publishOutputs(o, row[o]), FALSE) /\ UNCHANGED job

-----------------------------------------------------------------------------
(* Resumptions of a transcription *)

reconcileOrCancelDerivation(c, o, r, bumped) ==
  IF Terminal(r) THEN Write(c, o, r, bumped, Returned(c, o, r))
  ELSE Write(c, o, r, bumped, At(IF r.cancel /\ r.receipt # "none" THEN "cancelling" ELSE "reconciling", o))

continueTranscription(c, o) ==
  /\ UNCHANGED job
  /\ IF row[o].state \in {"unknown", "submitted"} THEN reconcileOrCancelDerivation(c, o, row[o], FALSE)
     ELSE IF row[o].cancel
     THEN Finish(c, o, row[o], finishDerivation(o, row[o], "cancelled", FALSE, FALSE, FALSE), FALSE)
     ELSE IF resolveSource(o) THEN Goes(c, At("verifying", o)) ELSE Throws(c, o)

\* The doubt is written before the bytes leave: a crash from here on can only be reconciled.
submitTranscription(c, o) ==
  LET r == markDerivationUnknown(o, row[o]) IN
  IF r.cancel THEN reconcileOrCancelDerivation(c, o, r, FALSE) /\ UNCHANGED job
  ELSE Write(c, o, r, FALSE, At("submitting", o)) /\ Sends(o)

submittedTranscription(c, o, answer, receipt) ==
  /\ IF answer = "lost" THEN Goes(c, Returned(c, o, row[o]))
     ELSE reconcileOrCancelDerivation(c, o,
            IF receipt THEN persistDerivationReceipt(row[o], FALSE) ELSE row[o], receipt)
  /\ UNCHANGED job

processDerivationState(c, o, answer, receipt) ==
  LET r == row[o]
      m == IF receipt THEN persistDerivationReceipt(r, TRUE) ELSE r
      moves == receipt /\ ~Terminal(r) IN
  /\ CASE answer = "lost" -> Finish(c, o, r, markDerivationUnknown(o, r), FALSE)
       [] answer = "not_submitted" ->
            Finish(c, o, r, finishDerivation(o, r, IF r.cancel THEN "cancelled" ELSE "failed", FALSE, FALSE, TRUE), FALSE)
       [] answer = "unknown" -> Finish(c, o, m, markDerivationUnknown(o, m), moves)
       [] answer = "submitted" -> Finish(c, o, m, markDerivationSubmitted(o, m), moves)
       [] answer = "succeeded" -> Write(c, o, m, moves, At("storing", o))
       [] OTHER -> Finish(c, o, m, finishDerivation(o, m, answer, TRUE, TRUE, TRUE), moves)
  /\ UNCHANGED job

\* mediaDerivations.continue, for the task and for the sweep.
continueDerivation(c, o) ==
  IF Terminal(row[o]) THEN Goes(c, Returned(c, o, row[o])) /\ UNCHANGED job
  ELSE IF Provided(o) THEN continueTranscription(c, o) ELSE continueLocal(c, o)
=============================================================================
