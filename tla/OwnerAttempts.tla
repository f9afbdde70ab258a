--------------------------- MODULE OwnerAttempts ---------------------------
(* What the owners of long work have in common: the attempt row and the     *)
(* transitions a transaction may write to it, the dispatch that is bound to *)
(* it, cancellation, and the two in-process clients (the Run's task and the *)
(* sweep) that may stand between two awaits of one attempt at the same time.*)
EXTENDS Integers, FiniteSets

CONSTANTS
  Operations,         \* calls of media.derive, evaluation.run, delivery.preview, delivery.export
  Kinds,              \* which of the six kinds of work a run explores
  OverwriteExisting,  \* ExportRequest.overwriteExisting
  MaxCrashes,         \* bound: process exits
  Events              \* which disturbances a run explores

\* edit: the Project, source or subject moves on; vague: an answer of the provider is lost, or says unknown;
\* loss: a submission never arrives; cancel: the user cancels one operation; disk: a CAS write fails;
\* expire: the time of a destination grant runs out.
ASSUME OwnerAssumption ==
  /\ Kinds \subseteq {"derive", "transcribe", "check", "judge", "preview", "export"}
  /\ OverwriteExisting \in BOOLEAN /\ MaxCrashes \in Nat
  /\ Events \subseteq {"edit", "vague", "loss", "cancel", "disk", "expire"}

VARIABLES
  kind,     \* what each operation is: local or transcribing derivation, local or provider assessment, ...
  row,      \* the owner's row and its ledger entry
  dispatch, \* dispatch_operations: none, asked (awaits a confirmation), open, settled
  run,      \* the Run is running, or was cancelled
  moved,    \* operations whose frozen source, subjects or Project revision are no longer current
  cas,      \* operations whose output is in the content-addressed store
  file,     \* what is at the destination of an export
  job,      \* the work itself: a local child of the process, or the provider's
  granted,  \* exports whose destination grant is in memory
  client,   \* where each in-process client stands
  crashes   \* bound counter

vars == <<kind, row, dispatch, run, moved, cas, file, job, granted, client, crashes>>

Clients == {"task", "sweep"}
Ended == {"succeeded", "failed", "cancelled"}
States == {"absent", "running", "submitted", "unknown"} \cup Ended
Rows == [state : States, cancel : BOOLEAN, receipt : {"none", "held", "reconciled"},
         cost : {"none", "reserved", "released", "charged"}]
Absent == [state |-> "absent", cancel |-> FALSE, receipt |-> "none", cost |-> "none"]
Refused == [Absent EXCEPT !.state = "refused"]  \* a transaction that throws
Terminal(r) == r.state \in Ended

\* Work that a provider does and charges for.
Provided(o) == kind[o] \in {"transcribe", "judge"}

LocalJobs == {"none", "working", "writing", "aborted", "aborting", "made", "failed"}
ProviderJobs == {"none", "sent", "accepted"} \cup Ended
Answers == {"none", "lost", "not_submitted", "unknown", "submitted"} \cup Ended
Pcs == {"off", "starting", "continuing", "verifying", "resolving", "working", "storing", "stored",
        "stopping", "submitting", "reconciling", "cancelling", "settling"}
Asking == {"submitting", "reconciling", "cancelling"}

\* fresh: nobody moved the row since the client read it; asked, seen: the snapshot's cancelRequested and
\* state; turn: executeEvaluationRunBoundary continues a provider's assessment twice.
ClientStates == [pc : Pcs, op : Operations, fresh : BOOLEAN, asked : BOOLEAN, seen : States,
                 answer : Answers, turn : 1..2]
Off(o) == [pc |-> "off", op |-> o, fresh |-> TRUE, asked |-> FALSE, seen |-> "absent",
           answer |-> "none", turn |-> 1]
At(pc, o) == IF kind[o] = "judge" THEN [Off(o) EXCEPT !.pc = pc, !.asked = row[o].cancel, !.seen = row[o].state]
             ELSE [Off(o) EXCEPT !.pc = pc]

TypeOK ==
  /\ kind \in [Operations -> Kinds]
  /\ row \in [Operations -> Rows]
  /\ dispatch \in [Operations -> {"none", "asked", "open", "settled"}]
  /\ run \in {"running", "ended"}
  /\ moved \subseteq Operations /\ cas \subseteq Operations /\ granted \subseteq Operations
  /\ file \in [Operations -> {"absent", "partial", "complete"}]
  /\ job \in [Operations -> LocalJobs \cup ProviderJobs]
  /\ client \in [Clients -> ClientStates]
  /\ crashes \in Nat

Init ==
  /\ kind \in [Operations -> Kinds]
  /\ row = [o \in Operations |-> Absent]
  /\ dispatch = [o \in Operations |-> "none"]
  /\ run = "running" /\ moved = {} /\ cas = {} /\ granted = {} /\ crashes = 0
  /\ file \in [Operations -> {"absent", "complete"}]
  /\ \A o \in Operations : file[o] = "complete" => kind[o] = "export"
  /\ job = [o \in Operations |-> "none"]
  /\ \E o \in Operations : client = [c \in Clients |-> Off(o)]

-----------------------------------------------------------------------------
(* Transitions of a row *)

AttemptStateTransitions ==
  [running |-> {"submitted", "unknown"} \cup Ended, submitted |-> {"unknown"} \cup Ended,
   unknown |-> {"submitted"} \cup Ended, succeeded |-> {}, failed |-> {}, cancelled |-> {}]

assertAttemptStateTransition(r, n) == n.state \in AttemptStateTransitions[r.state]

\* Mutant: doubt without a receipt never ends without one.
assertReceiptedTransition(r, n, reconciled) ==
  /\ r.cancel => n.cancel
  /\ r.state # n.state => assertAttemptStateTransition(r, n)
  /\ r.state = "unknown" /\ n.state # "unknown" => reconciled /\ n.receipt = "reconciled"

\* What the provider itself said ends doubt, and nothing else.
assertAttemptCommonTransition(r, n, reconciled) ==
  /\ r.cancel => n.cancel
  /\ r.state # n.state => assertAttemptStateTransition(r, n)
  /\ r.state = "unknown" /\ n.state # "unknown" =>
       /\ reconciled
       /\ r.receipt # "none" => n.receipt = "reconciled"
       /\ r.receipt = "none" =>
            n.receipt = "reconciled" \/ (n.receipt = "none" /\ n.state \in {"failed", "cancelled"})

transitionMediaDerivationOwner(o, r, n, reconciled) ==
  IF /\ ~Provided(o) => n.receipt = "none" /\ n.state \notin {"submitted", "unknown"}
     /\ r.receipt # "none" => n.receipt # "none"
     /\ assertAttemptCommonTransition(r, n, reconciled)
  THEN n ELSE Refused

transitionResultAssessmentOwner(r, n, reconciled) ==
  IF /\ r.receipt # "none" => n.receipt # "none"
     /\ assertAttemptCommonTransition(r, n, reconciled)
  THEN n ELSE Refused

transitionLocalDeliveryOwner(r, n) == IF assertAttemptCommonTransition(r, n, FALSE) THEN n ELSE Refused

\* registerOperationDispatch binds the dispatch to a revision-zero owner, which a first transition moves on.
registerOperationDispatch(o) ==
  [Absent EXCEPT !.state = "running", !.cost = IF Provided(o) THEN "reserved" ELSE "none"]

releaseCost(o, r) == IF Provided(o) THEN [r EXCEPT !.cost = "released"] ELSE r
settleCost(o, r) == IF Provided(o) THEN [r EXCEPT !.cost = "charged"] ELSE r

-----------------------------------------------------------------------------
(* Resumptions.  A client reads, writes and goes on to its next await in one *)
(* step; whoever else stands on the same attempt finds it changed.          *)

\* The row becomes r and the client c goes on as k; bumped: its revision moved even if r says the same.
Write(c, o, r, bumped, k) ==
  /\ row' = [row EXCEPT ![o] = r]
  /\ client' = [d \in Clients |->
       IF d = c THEN k
       ELSE IF client[d].op = o /\ (bumped \/ r # row[o]) THEN [client[d] EXCEPT !.fresh = FALSE]
       ELSE client[d]]

\* executeAbortableOwnerOperation, and the boundary after it: a result for an aborted Run is dropped.
Returned(c, o, r) ==
  IF c = "sweep" \/ run = "ended" THEN Off(o)
  ELSE IF kind[o] = "judge" /\ ~Terminal(r) /\ client[c].turn = 1
  THEN [Off(o) EXCEPT !.pc = "continuing", !.turn = 2]
  ELSE [Off(o) EXCEPT !.pc = "settling"]

\* A second transaction n after a first one left mid: a refusal throws, and leaves what the first wrote.
Finish(c, o, mid, n, bumped) ==
  IF n = Refused THEN Write(c, o, mid, bumped, Off(o)) ELSE Write(c, o, n, bumped, Returned(c, o, n))

Goes(c, k) == client' = [client EXCEPT ![c] = k] /\ UNCHANGED row
Throws(c, o) == Goes(c, Off(o))

\* Aborting the controller of a local child: it may have got far enough to succeed all the same.
Aborted(o) == CASE job[o] = "working" -> "aborted" [] job[o] = "writing" -> "aborting" [] OTHER -> job[o]
AbortJob(o) == job' = [job EXCEPT ![o] = Aborted(o)]

\* A request under the operation's idempotency key: the provider takes it up at most once.
Sends(o) == job' = [job EXCEPT ![o] = IF @ = "none" THEN "sent" ELSE @]

\* cancelOperations and requestRunBoundOperationCancellations: once, on a bound nonterminal owner.
Cancellable(o) == row[o].state \notin Ended \cup {"absent"} /\ ~row[o].cancel
requestOperationOwnerCancellation(os) ==
  /\ row' = [o \in Operations |-> IF o \in os THEN [row[o] EXCEPT !.cancel = TRUE] ELSE row[o]]
  /\ client' = [c \in Clients |->
       IF client[c].op \in os THEN [client[c] EXCEPT !.fresh = FALSE] ELSE client[c]]
=============================================================================
