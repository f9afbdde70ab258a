------------------------ MODULE DeliveryOperations ------------------------
(* delivery.preview renders a Review Cut of a frozen Manifest into the media *)
(* store; delivery.export writes the film to a destination the user granted. *)
EXTENDS OwnerAttempts

Delivers(o) == kind[o] \in {"preview", "export"}

-----------------------------------------------------------------------------
(* Transactions *)

finishWithoutOutput(r) ==
  IF Terminal(r) THEN r
  ELSE transitionLocalDeliveryOwner(r, [r EXCEPT !.state = IF r.cancel THEN "cancelled" ELSE "failed"])

\* A finished film is kept, also for an attempt that was asked to stop.
publishOutput(r) == IF Terminal(r) THEN r ELSE transitionLocalDeliveryOwner(r, [r EXCEPT !.state = "succeeded"])

acknowledgeStopped(r) ==
  IF Terminal(r) THEN r ELSE transitionLocalDeliveryOwner(r, [r EXCEPT !.state = "cancelled"])

-----------------------------------------------------------------------------
(* Resumptions *)

\* claimLocalDeliveryOwner moves the revision, then the adapter's controller is aborted.
acknowledgeDelivery(c, o) == Write(c, o, row[o], TRUE, At("stopping", o)) /\ AbortJob(o)

renderReview(c, o) ==
  IF Terminal(row[o]) THEN Goes(c, Returned(c, o, row[o])) /\ UNCHANGED job
  ELSE IF row[o].cancel THEN acknowledgeDelivery(c, o)
  ELSE Goes(c, At("working", o)) /\ job' = [job EXCEPT ![o] = "working"]

exportDelivery(c, o) ==
  IF Terminal(row[o]) THEN Goes(c, Returned(c, o, row[o])) /\ UNCHANGED job
  ELSE IF row[o].cancel THEN acknowledgeDelivery(c, o)
  ELSE Goes(c, At("resolving", o)) /\ UNCHANGED job

\* A grant lives in the memory of the process that picked it.
resolveGrant(c, o) ==
  IF o \in granted THEN Goes(c, At("working", o)) /\ job' = [job EXCEPT ![o] = "working"]
  ELSE Finish(c, o, row[o], finishWithoutOutput(row[o]), FALSE) /\ UNCHANGED job

rendered(c, o) ==
  /\ UNCHANGED job
  /\ \/ job[o] = "made" /\ Goes(c, At("storing", o))
     \/ job[o] = "failed" /\ Finish(c, o, row[o], finishWithoutOutput(row[o]), FALSE)

-----------------------------------------------------------------------------
(* The local adapters: children of the process, outside every transaction *)

DeriveFiles(o) ==
  /\ kind[o] = "derive" /\ job[o] \in {"working", "aborted"} /\ UNCHANGED file
  /\ \E end \in {"made", "failed"} : job' = [job EXCEPT ![o] = end]

\* An export renders first; what it renders is written to the destination below.
RenderCut(o) ==
  /\ Delivers(o) /\ job[o] \in {"working", "aborted"} /\ UNCHANGED file
  /\ \E end \in {"made", "failed"} : (kind[o] = "export" => end = "failed") /\ job' = [job EXCEPT ![o] = end]

\* writeBytes: 'wx' fails on a file that exists, 'w' truncates it.
BeginWrite(o) ==
  /\ kind[o] = "export" /\ job[o] \in {"working", "aborted"}
  /\ IF file[o] # "absent" /\ ~OverwriteExisting
     THEN job' = [job EXCEPT ![o] = "failed"] /\ UNCHANGED file
     ELSE /\ job' = [job EXCEPT ![o] = IF @ = "working" THEN "writing" ELSE "aborting"]
          /\ file' = [file EXCEPT ![o] = "partial"]

EndWrite(o) ==
  /\ job[o] \in {"writing", "aborting"}
  /\ \/ job' = [job EXCEPT ![o] = "made"] /\ file' = [file EXCEPT ![o] = "complete"]
     \/ job' = [job EXCEPT ![o] = "failed"] /\ UNCHANGED file
=============================================================================
