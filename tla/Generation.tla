----------------------------- MODULE Generation -----------------------------
(* Paid generations of one Run: the attempt rows, their ledger entries, and *)
(* the two in-process clients that may work on one operation at a time      *)
(* between awaits: the Run's task inside generation.submit, and the sweep   *)
(* that drains requested cancellations.  Every action is one resumption: the*)
(* thread runs on, over one or several immediate transactions, to the next  *)
(* await or throw.  The provider is external: it works once per             *)
(* idempotency key, and its answers are true when they are given.           *)
EXTENDS Integers, FiniteSets, FiniteSetsExt

CONSTANTS
  Operations,      \* generation.submit dispatches of the Run
  Quotes,          \* what the provider may quote, Unpriced included
  Ceiling,         \* run.budget.costUsd: an amount, or Unlimited
  MaxGenerations,  \* run.budget.maxGenerationCount
  Charges,         \* what the provider may charge in the end
  MaxCrashes,      \* bound: process exits
  Unpriced,        \* a quote whose state is unknown
  Unlimited,       \* a budget whose state is unknown
  Events           \* which disturbances a run explores

ASSUME OperationAssumption == IsFiniteSet(Operations)
ASSUME AmountAssumption ==
  /\ Quotes \subseteq Nat \cup {Unpriced} /\ Unpriced \notin Nat
  /\ Ceiling \in Nat \cup {Unlimited} /\ Unlimited \notin Nat
  /\ MaxGenerations \in Nat /\ Charges \subseteq Nat /\ MaxCrashes \in Nat

\* clock: time passes between two transactions; edit: the Project or the target is edited meanwhile;
\* late: not_submitted may be answered while a submission is on its way; cancel: the user cancels one
\* operation of a running Run; loss: a submission is lost; vague: the provider does not know or
\* cannot be reached.
ASSUME EventAssumption == Events \subseteq {"clock", "edit", "late", "cancel", "loss", "vague"}

VARIABLES
  row,       \* generation_attempts and run_resource_entries of each operation
  dispatch,  \* dispatch_operations.outcome of each generation.submit call
  run,       \* the Run is running, or was cancelled
  stale,     \* operations whose Project revision, target or references changed since the call
  client,    \* where each in-process client stands
  job,       \* the provider: what it made of each idempotency key
  wire,      \* a submission of this key is on its way to the provider
  crashes    \* bound counter

durable == <<row, dispatch, run, stale>>
vars == <<durable, client, job, wire, crashes>>

Clients == {"task", "sweep"}
Ended == {"succeeded", "failed", "cancelled"}
States == {"absent", "running", "submitted", "unknown"} \cup Ended
Receipts == {"none", "held", "reconciled"}

\* count "fresh" and "dated": consumed at this instant, or at an earlier one; moves: revisions since the
\* resumption began (0 between two actions).
Rows == [state : States, receipt : Receipts, cancel : BOOLEAN, quote : Quotes \cup {0},
         cost : {"none", "reserved", "settled", "released"}, charge : Nat,
         count : {"none", "reserved", "fresh", "dated", "released"}, moves : Nat]
Absent == [state |-> "absent", receipt |-> "none", cancel |-> FALSE, quote |-> 0,
           cost |-> "none", charge |-> 0, count |-> "none", moves |-> 0]

Pcs == {"off", "quoting", "submitting", "reconcile", "reconciling", "cancelling", "verifying",
        "publishing", "settling"}
Awaiting == {"submitting", "reconciling", "cancelling"}
Comparing == {"reconcile", "reconciling", "verifying", "settling"}
Answers == [state : {"none", "lost", "not_submitted", "unknown", "submitted"} \cup Ended,
            receipt : BOOLEAN]
NoAnswer == [state |-> "none", receipt |-> FALSE]

\* behind: how many revisions others moved the row since the client read it, counted up to two.
ClientStates == [pc : Pcs, op : Operations, behind : 0..2, cancelled : BOOLEAN, reconciles : BOOLEAN,
                 answer : Answers]
Jobs == [state : {"none", "refused", "accepted"} \cup Ended, charge : Nat]

TypeOK ==
  /\ row \in [Operations -> Rows]
  /\ dispatch \in [Operations -> {"none", "open", "settled"}]
  /\ run \in {"running", "stopped"}
  /\ stale \subseteq Operations
  /\ client \in [Clients -> ClientStates]
  /\ job \in [Operations -> Jobs]
  /\ wire \in [Operations -> BOOLEAN]
  /\ crashes \in Nat

Init ==
  /\ row = [o \in Operations |-> Absent]
  /\ dispatch = [o \in Operations |-> "none"]
  /\ run = "running" /\ stale = {} /\ crashes = 0
  /\ client \in [Clients -> [pc : {"off"}, op : Operations, behind : {0}, cancelled : {FALSE},
                             reconciles : {FALSE}, answer : {NoAnswer}]]
  /\ \A c, d \in Clients : client[c].op = client[d].op
  /\ job = [o \in Operations |-> [state |-> "none", charge |-> 0]]
  /\ wire = [o \in Operations |-> FALSE]

-----------------------------------------------------------------------------
(* The ledger *)

Terminal(r) == r.state \in Ended
Priced(r) == r.quote # Unpriced

\* loadRunBudgetExposure: what an operation adds to the Run's cost; an open unpriced hold makes it unknown.
Held(r) == CASE r.cost = "reserved" /\ Priced(r) -> r.quote
             [] r.cost = "settled" -> r.charge
             [] OTHER -> 0
Exposure == MapThenSumSet(LAMBDA o : Held(row[o]), Operations)
ExposureUnknown == \E o \in Operations : row[o].cost = "reserved" /\ ~Priced(row[o])
Counted(o) == row[o].count \in {"reserved", "fresh", "dated"}

\* Mutant: what the new operation costs itself is forgotten.
AffordableAlready(q) ==
  /\ Cardinality({o \in Operations : Counted(o)}) + 1 <= MaxGenerations
  /\ Ceiling # Unlimited => q # Unpriced /\ ~ExposureUnknown /\ Exposure <= Ceiling

\* assertPermissionAndBudget
Affordable(q) ==
  /\ Cardinality({o \in Operations : Counted(o)}) + 1 <= MaxGenerations
  /\ Ceiling # Unlimited => /\ q # Unpriced /\ ~ExposureUnknown
                            /\ Exposure + q <= Ceiling

-----------------------------------------------------------------------------
(* Transactions of one operation, as functions of its row *)

Moved(r) == [r EXCEPT !.moves = @ + 1]

\* prepareGeneration: request, attempt, reservations, and the step to running.
Prepared(q) == [Absent EXCEPT !.state = "running", !.quote = q, !.cost = "reserved",
                              !.count = "reserved", !.moves = 2]

\* appendGenerationCountConsumed replays an entry only if it is the same to the instant (canonicalJson over
\* recordedAt); otherwise IDEMPOTENCY_CONFLICT.
CountConflicts(r) == ~Terminal(r) /\ r.count = "dated"

\* persistReceipt
Recorded(r, reconciled) ==
  LET counted == [r EXCEPT !.count = "fresh"]
  IN CASE Terminal(r) -> r
       [] ~Terminal(r) /\ r.receipt = "none" ->
            Moved([counted EXCEPT !.receipt = IF reconciled THEN "reconciled" ELSE "held",
                                  !.state = IF @ = "unknown" THEN "unknown" ELSE "submitted"])
       [] ~Terminal(r) /\ r.receipt = "held" /\ r.state = "unknown" /\ reconciled ->
            Moved([counted EXCEPT !.receipt = "reconciled"])
       [] OTHER -> r

\* markUnknown
Unknown(r) == IF Terminal(r) \/ r.state = "unknown" THEN r ELSE Moved([r EXCEPT !.state = "unknown"])

\* Mutant: the cost reservation is forgotten.
GivenUpKeepsCost(r, end) == Moved([r EXCEPT !.state = end, !.count = "released"])

\* finishWithoutReceipt: both reservations are released.
GivenUp(r, end) ==
  Moved([r EXCEPT !.state = end, !.cost = "released", !.count = "released"])

\* finishWithReceipt: the cost is settled, the rest released (settleOperationCostReservation).
Paid(r, end, charge) == Moved([r EXCEPT !.state = end, !.cost = "settled", !.charge = charge])

\* claimProviderAction, requestOperationOwnerCancellation
Claimed(r) == Moved(r)
CancelRequested(r) == Moved([r EXCEPT !.cancel = TRUE])

\* Only a reconciled receipt leads out of unknown (assertAttemptCommonTransition).
MayLeave(r) == r.state = "unknown" => r.receipt = "reconciled"

\* The clock may pass between two transactions of one resumption.
Older(r) == [r EXCEPT !.count = IF @ = "fresh" THEN "dated" ELSE @]
Later(r) == IF "clock" \in Events THEN {r, Older(r)} ELSE {r}

-----------------------------------------------------------------------------
(* How a client ends a resumption *)

\* How far the row of o is ahead of what client d read and will compare, after n more revisions: 2 stands
\* for "many".
Behind(d, o, n) ==
  LET b == client[d].behind + (IF client[d].op = o /\ client[d].pc \in Comparing THEN n ELSE 0)
  IN IF b > 2 THEN 2 ELSE b

\* Row r of c's operation is written, and c goes on in state k; the other client falls behind.
Store(c, r, k) ==
  LET o == client[c].op
  IN /\ row' = [row EXCEPT ![o] = [r EXCEPT !.moves = 0]]
     /\ client' = [d \in Clients |-> IF d = c THEN k
                     ELSE [client[d] EXCEPT !.behind = Behind(d, o, r.moves)]]

At(c, pc) == [client[c] EXCEPT !.pc = pc, !.answer = NoAnswer, !.cancelled = FALSE]
Fresh(c, pc) == [At(c, pc) EXCEPT !.behind = 0]
Off(c) == [Fresh(c, "off") EXCEPT !.reconciles = FALSE]

\* A thrown error ends the task or the drain of this operation; what was committed stays.
Throws(c, r) == Store(c, r, Off(c))

\* The sweep is done; the task reconciles once after a submission, then settles its dispatch, unless its
\* signal was aborted (executeGenerationSubmitBoundary).
Returns(c, r) ==
  \/ /\ c = "task"
     /\ Store(c, r, Fresh(c, IF client[c].reconciles \/ Terminal(r) THEN "settling" ELSE "reconcile"))
  \/ (c = "sweep" \/ run = "stopped") /\ Store(c, r, Off(c))

ReturnsWithoutReceipt(c, r, end) ==
  CASE Terminal(r) -> Returns(c, r)
    [] ~Terminal(r) /\ r.receipt # "none" -> Throws(c, r)
    [] OTHER -> Returns(c, GivenUp(r, end))

\* processProviderState, from row r.
ReturnsWithReceipt(c, r, a) ==
  CASE a.state = "unknown" -> Returns(c, Unknown(r))
    [] a.state = "submitted" /\ (Terminal(r) \/ r.state = "submitted") -> Returns(c, r)
    [] a.state = "submitted" /\ r.state = "unknown" ->
         IF MayLeave(r) THEN Returns(c, Moved([r EXCEPT !.state = "submitted"])) ELSE Throws(c, r)
    [] a.state \in Ended /\ Terminal(r) -> Returns(c, r)
    [] OTHER -> Store(c, r, [client[c] EXCEPT !.pc = "publishing", !.behind = 0, !.cancelled = FALSE])

Processes(c, r, a) ==
  CASE a.state = "not_submitted" -> ReturnsWithoutReceipt(c, r, "failed")
    [] a.receipt /\ CountConflicts(r) -> Throws(c, r)
    [] a.receipt /\ ~CountConflicts(r) -> ReturnsWithReceipt(c, Recorded(r, client[c].reconciles), a)
    [] ~a.receipt /\ a.state = "unknown" -> Returns(c, Unknown(r))
    [] OTHER -> ReturnsWithoutReceipt(c, r, a.state)

CallsCancel(c, r) == Store(c, Claimed(r), [Fresh(c, "cancelling") EXCEPT !.reconciles = TRUE])

-----------------------------------------------------------------------------
(* The Run: its task, its user, its Project *)

Row(c) == row[client[c].op]
Answered(c, pc) == client[c].pc = pc /\ client[c].answer # NoAnswer
World == <<dispatch, run, stale, job, wire, crashes>>

\* settleGenerationSubmitStartBoundary: the model calls generation.submit.
Call(o) ==
  /\ run = "running" /\ dispatch[o] = "none"
  /\ \A p \in Operations : dispatch[p] # "open"
  /\ dispatch' = [dispatch EXCEPT ![o] = "open"]
  /\ UNCHANGED <<row, run, stale, client, job, wire, crashes>>

\* executeGenerationSubmitBoundary: the task quotes first, or takes up an operation that is bound already.
Enter(o) ==
  /\ run = "running" /\ dispatch[o] = "open" /\ client["task"].pc = "off"
  /\ row[o].state = "absent" => o \notin stale
  /\ client' = [client EXCEPT !["task"] =
       [op |-> o, behind |-> 0, cancelled |-> FALSE, answer |-> NoAnswer,
        reconciles |-> row[o].state # "absent",
        pc |-> CASE row[o].state = "absent" -> "quoting"
                 [] Terminal(row[o]) -> "settling"
                 [] OTHER -> "reconcile"]]
  /\ UNCHANGED <<durable, job, wire, crashes>>

\* The quote is refused, dearer than the budget, or came for a Project that moved on.
QuoteRejected ==
  /\ client["task"].pc = "quoting"
  /\ client' = [client EXCEPT !["task"] = Off("task")]
  /\ UNCHANGED <<durable, job, wire, crashes>>

\* prepareGeneration, and the request leaves for the provider.
Submit(q) ==
  LET o == client["task"].op
  IN /\ client["task"].pc = "quoting" /\ o \notin stale /\ Affordable(q)
     /\ Store("task", Prepared(q), Fresh("task", "submitting"))
     /\ wire' = [wire EXCEPT ![o] = TRUE]
     /\ UNCHANGED <<dispatch, run, stale, job, crashes>>

\* settleGenerationSubmitBoundary: the result must still be what the owner says.
Settle ==
  LET o == client["task"].op
  IN /\ client["task"].pc = "settling"
     /\ dispatch' = IF run = "running" /\ client["task"].behind = 0
                    THEN [dispatch EXCEPT ![o] = "settled"] ELSE dispatch
     /\ client' = [client EXCEPT !["task"] = Off("task")]
     /\ UNCHANGED <<row, run, stale, job, wire, crashes>>

Cancellable(o) == row[o].state \notin Ended \cup {"absent"} /\ ~row[o].cancel

\* requestOperationOwnerCancellation of every operation in S.
RequestCancellation(S) ==
  /\ row' = [o \in Operations |->
               IF o \in S THEN [CancelRequested(row[o]) EXCEPT !.moves = 0] ELSE row[o]]
  /\ client' = [c \in Clients |->
       [client[c] EXCEPT !.behind = IF client[c].op \in S THEN Behind(c, client[c].op, 1) ELSE @]]

\* operation.cancel
CancelOperation(o) ==
  /\ "cancel" \in Events /\ run = "running" /\ Cancellable(o)
  /\ RequestCancellation({o}) /\ UNCHANGED World

\* controlRun cancel: requestRunBoundOperationCancellations.
CancelRun ==
  /\ run = "running" /\ run' = "stopped"
  /\ RequestCancellation({o \in Operations : Cancellable(o)})
  /\ UNCHANGED <<dispatch, stale, job, wire, crashes>>

\* project.update, or an edit of the production object the generation is for.
EditProject ==
  /\ "edit" \in Events /\ stale' = {o \in Operations : dispatch[o] # "none"} /\ stale' # stale
  /\ UNCHANGED <<row, dispatch, run, client, job, wire, crashes>>

Tick ==
  /\ "clock" \in Events /\ \E o \in Operations : row[o].count = "fresh"
  /\ row' = [o \in Operations |-> Older(row[o])]
  /\ UNCHANGED <<client, World>>

-----------------------------------------------------------------------------
(* Reconciliation, by the task or by the sweep *)

\* Mutant: the sweep brings the revision the request to cancel was made at.
SweepAtRequest(o) ==
  /\ client["sweep"].pc = "off" /\ row[o].cancel /\ ~Terminal(row[o])
  /\ client' = [client EXCEPT !["sweep"] =
       [pc |-> "reconcile", op |-> o, behind |-> 1, cancelled |-> FALSE, reconciles |-> TRUE,
        answer |-> NoAnswer]]
  /\ UNCHANGED <<durable, job, wire, crashes>>

\* drainRequestedOperationCancellations lists the operation at its present revision.
Sweep(o) ==
  /\ client["sweep"].pc = "off" /\ row[o].cancel /\ ~Terminal(row[o])
  /\ client' = [client EXCEPT !["sweep"] =
       [pc |-> "reconcile", op |-> o, behind |-> 0, cancelled |-> FALSE, reconciles |-> TRUE,
        answer |-> NoAnswer]]
  /\ UNCHANGED <<durable, job, wire, crashes>>

Reconcile(c) ==
  LET r == Row(c)
  IN /\ client[c].pc = "reconcile"
     /\ CASE Terminal(r) -> Returns(c, r)
          [] ~Terminal(r) /\ client[c].behind > 0 -> Throws(c, r)
          [] ~Terminal(r) /\ client[c].behind = 0 /\ r.receipt # "none" /\ r.cancel -> CallsCancel(c, r)
          [] OTHER -> Store(c, r, [Fresh(c, "reconciling") EXCEPT !.cancelled = r.cancel,
                                                                   !.reconciles = TRUE])
     /\ UNCHANGED World

\* Mutant: a submission without an answer counts as failed.
SubmittedOrFailed(c) ==
  /\ Answered(c, "submitting")
  /\ IF client[c].answer.state = "lost" THEN ReturnsWithoutReceipt(c, Row(c), "failed")
     ELSE Processes(c, Row(c), client[c].answer)
  /\ UNCHANGED World

\* The answer of adapter.submit.
Submitted(c) ==
  /\ Answered(c, "submitting")
  /\ IF client[c].answer.state = "lost" THEN Returns(c, Unknown(Row(c)))
     ELSE Processes(c, Row(c), client[c].answer)
  /\ UNCHANGED World

\* The answer of adapter.cancel.
CancelAnswered(c) ==
  /\ Answered(c, "cancelling")
  /\ IF client[c].answer.state \in {"lost", "not_submitted"} THEN Returns(c, Unknown(Row(c)))
     ELSE Processes(c, Row(c), client[c].answer)
  /\ UNCHANGED World

\* submitAfterAuthoritativeNotSubmitted, up to the verification of the references.
NotSubmitted(c, r) ==
  CASE Terminal(r) -> Returns(c, r)
    [] ~Terminal(r) /\ client[c].behind > 0 -> Throws(c, r)
    [] ~Terminal(r) /\ client[c].behind = 0 /\ r.receipt # "none" -> Returns(c, Unknown(r))
    [] ~Terminal(r) /\ client[c].behind = 0 /\ r.receipt = "none" /\ r.cancel ->
         Returns(c, GivenUp(r, "cancelled"))
    [] OTHER -> \/ Returns(c, GivenUp(r, "failed"))
                \/ client[c].op \notin stale /\ Store(c, r, At(c, "verifying"))

\* assertOnlyReceiptReconciliation, then cancellation of what the provider has, or its state.
OnlyReceipt(c, r) == client[c].behind + r.moves <= 1 /\ r.cancel = client[c].cancelled

GoesOn(c, r, a) ==
  CASE ~OnlyReceipt(c, r) -> Throws(c, r)
    [] /\ OnlyReceipt(c, r) /\ r.cancel /\ r.receipt # "none" /\ a.state \in {"unknown", "submitted"}
       -> CallsCancel(c, r)
    [] OTHER -> \E later \in Later(r) : Processes(c, later, a)

\* The answer of adapter.reconcileByIdempotencyKey.
Reconciled(c) ==
  LET r == Row(c)
      a == client[c].answer
  IN /\ Answered(c, "reconciling")
     /\ CASE a.state = "lost" -> Returns(c, Unknown(r))
          [] a.state = "not_submitted" -> NotSubmitted(c, r)
          [] a.receipt /\ CountConflicts(r) -> Throws(c, r)
          [] a.receipt /\ ~CountConflicts(r) -> GoesOn(c, Recorded(r, TRUE), a)
          [] OTHER -> GoesOn(c, r, a)
     /\ UNCHANGED World

VerifyFails(c) ==
  /\ client[c].pc = "verifying"
  /\ ReturnsWithoutReceipt(c, Row(c), "failed")
  /\ UNCHANGED World

\* Mutant: nobody looks again after the references were verified.
ResubmitUnclaimed(c) ==
  /\ client[c].pc = "verifying"
  /\ Store(c, Claimed(Row(c)), Fresh(c, "submitting"))
  /\ wire' = [wire EXCEPT ![client[c].op] = TRUE]
  /\ UNCHANGED <<dispatch, run, stale, job, crashes>>

\* The claim makes sure nothing happened since the row was read; the request leaves again.
Resubmit(c) ==
  LET r == Row(c)
  IN /\ client[c].pc = "verifying"
     /\ IF client[c].behind > 0 THEN Throws(c, r) /\ UNCHANGED wire
        ELSE /\ Store(c, Claimed(r), Fresh(c, "submitting"))
             /\ wire' = [wire EXCEPT ![client[c].op] = TRUE]
     /\ UNCHANGED <<dispatch, run, stale, job, crashes>>

\* finishWithReceipt once the outputs are in the media store; an output that was not published makes a
\* success a failure.
Publish(c) ==
  LET r == Row(c)
      end == client[c].answer.state
      charge == job[client[c].op].charge
  IN /\ client[c].pc = "publishing"
     /\ IF Terminal(r) THEN Returns(c, r)
        ELSE IF \/ r.receipt = "none" \/ client[c].op \in stale \/ ~MayLeave(r)
                \/ Priced(r) /\ charge > r.quote
        THEN Throws(c, r)
        ELSE \E e \in {end} \cup (IF end = "succeeded" THEN {"failed"} ELSE {}) :
               Returns(c, Paid(r, e, charge))
     /\ UNCHANGED World

\* A crash, or a throw in the next transaction, right after the receipt was recorded.
CrashAfterReceipt(c) ==
  /\ crashes < MaxCrashes
  /\ \E pc \in Awaiting : Answered(c, pc)
  /\ client[c].answer.receipt /\ ~CountConflicts(Row(c))
  /\ row' = [row EXCEPT ![client[c].op] = [Recorded(@, client[c].reconciles) EXCEPT !.moves = 0]]
  /\ client' = [d \in Clients |-> Off(d)] /\ crashes' = crashes + 1
  /\ UNCHANGED <<dispatch, run, stale, job, wire>>

\* The process exits and is started again; what is on the wire stays there.
Crash ==
  /\ crashes < MaxCrashes /\ crashes' = crashes + 1
  /\ client' = [d \in Clients |-> Off(d)]
  /\ UNCHANGED <<durable, job, wire>>

-----------------------------------------------------------------------------
(* The provider (external) *)

\* A submission arrives: it is taken on, refused, or the same as one that is known already; or it is lost.
Arrives(o) ==
  /\ wire[o] /\ wire' = [wire EXCEPT ![o] = FALSE]
  /\ job' = IF job[o].state # "none" THEN job ELSE [job EXCEPT ![o].state = "accepted"]
  /\ UNCHANGED <<durable, client, crashes>>

Refuses(o) ==
  /\ wire[o] /\ wire' = [wire EXCEPT ![o] = FALSE] /\ job[o].state = "none"
  /\ job' = [job EXCEPT ![o].state = "refused"]
  /\ UNCHANGED <<durable, client, crashes>>

LosesSubmission(o) ==
  /\ "loss" \in Events /\ wire[o] /\ wire' = [wire EXCEPT ![o] = FALSE]
  /\ UNCHANGED <<durable, client, crashes, job>>

\* It ends by itself, or because it was asked to stop.
Ends(o) ==
  /\ job[o].state = "accepted"
  /\ \E end \in {"succeeded", "failed"}
                \cup {e \in {"cancelled"} : \E c \in Clients : client[c].op = o /\ client[c].pc = "cancelling"},
        charge \in Charges :
       job' = [job EXCEPT ![o] = [state |-> end, charge |-> charge]]
  /\ UNCHANGED <<durable, client, wire, crashes>>

\* True answers; the provider may also not know, or not be reached.
Truth(c) ==
  LET o == client[c].op
      j == job[o].state
  IN CASE j \in Ended -> {[state |-> j, receipt |-> TRUE]}
       [] j = "accepted" -> {[state |-> "submitted", receipt |-> TRUE]}
       [] j = "refused" /\ ~wire[o] -> {[state |-> "failed", receipt |-> FALSE]}
       [] j = "none" /\ ("late" \in Events \/ ~wire[o]) -> {[state |-> "not_submitted", receipt |-> FALSE]}
       [] OTHER -> {}

Vague(c) ==
  {[state |-> "lost", receipt |-> FALSE], [state |-> "unknown", receipt |-> FALSE]}
  \cup {a \in {[state |-> "unknown", receipt |-> TRUE]} : job[client[c].op].state \in {"accepted"} \cup Ended}

Replies(c, answers) ==
  /\ client[c].pc \in Awaiting /\ client[c].answer = NoAnswer
  /\ \E a \in answers : client' = [client EXCEPT ![c].answer = a]
  /\ UNCHANGED <<durable, job, wire, crashes>>

RepliesTruly(c) == Replies(c, Truth(c))
RepliesVaguely(c) == "vague" \in Events /\ Replies(c, Vague(c))

-----------------------------------------------------------------------------
Provider == \/ \E o \in Operations : Arrives(o) \/ Refuses(o) \/ LosesSubmission(o) \/ Ends(o)
            \/ \E c \in Clients : RepliesTruly(c) \/ RepliesVaguely(c)

ClientStep(c) == \/ Reconcile(c) \/ Submitted(c) \/ CancelAnswered(c) \/ Reconciled(c)
                 \/ VerifyFails(c) \/ Resubmit(c) \/ Publish(c)

TaskStep == \/ \E o \in Operations : Enter(o)
            \/ QuoteRejected \/ (\E q \in Quotes : Submit(q)) \/ Settle \/ ClientStep("task")

SweepStep == (\E o \in Operations : Sweep(o)) \/ ClientStep("sweep")

User == (\E o \in Operations : Call(o) \/ CancelOperation(o)) \/ CancelRun \/ EditProject

Next == \/ TaskStep \/ SweepStep \/ User \/ Provider \/ Tick \/ Crash
        \/ \E c \in Clients : CrashAfterReceipt(c)

Spec == Init /\ [][Next]_vars

\* A client between two awaits runs on, the sweep comes round again at every wake, the provider answers
\* every call, ends every job, and does not stay vague for ever towards the sweep.
Fairness ==
  /\ WF_vars(ClientStep("task")) /\ WF_vars(SweepStep)
  /\ \A o \in Operations : WF_vars(Arrives(o)) /\ WF_vars(Ends(o))
  /\ WF_vars(RepliesTruly("task") \/ RepliesVaguely("task"))
  /\ SF_vars(RepliesTruly("sweep"))

FairSpec == Spec /\ Fairness

-----------------------------------------------------------------------------
(* Properties *)

\* The ledger says of every operation what its attempt is entitled to, in whatever order the
\* clients' transactions fall and wherever a crash cuts them: an open attempt holds its cost, an
\* ended one has either paid for its receipt or given everything back, and a generation is counted
\* once the provider confirmed it (appendGenerationReservations, appendGenerationCountConsumed,
\* releaseGenerationReservations, settleGenerationCost).
Entitled(r) ==
  /\ r.state = "absent" => r.cost = "none" /\ r.count = "none" /\ r.receipt = "none"
  /\ r.state \notin Ended \cup {"absent"} => r.cost = "reserved"
  /\ r.state \in Ended => r.cost = IF r.receipt = "none" THEN "released" ELSE "settled"
  /\ r.receipt # "none" => r.count \in {"fresh", "dated"}
  /\ r.receipt = "none" /\ r.state # "absent" =>
       r.count = IF Terminal(r) THEN "released" ELSE "reserved"
LedgerFollowsAttempt == \A o \in Operations : Entitled(row[o])

\* A job the provider took on is paid for or still reserved: no lost or vague answer, crash,
\* cancellation or second client makes the ledger give its cost back (finishWithoutReceipt).
SpendIsCovered ==
  \A o \in Operations :
    job[o].state \notin {"none", "refused"} => row[o].cost \in {"reserved", "settled"}

\* The first verdict on an attempt stays: the other client, a late answer or a restart changes
\* neither its state nor its ledger (the terminal checks that open persistReceipt, markUnknown and
\* both finish functions); only its clock runs on.
TerminalIsFinal ==
  [][\A o \in Operations : Terminal(row[o]) => row'[o] \in {row[o], Older(row[o])}]_vars

\* No request leaves for the provider once its operation ended or somebody asked to cancel it,
\* although the references are verified in between (claimProviderAction).
NeverSubmitsCancelled ==
  [][\A o \in Operations : wire'[o] /\ ~wire[o] => ~row[o].cancel /\ ~Terminal(row[o])]_vars

\* Every write of an attempt is one the shared table allows (AttemptStateTransitions), an attempt
\* leaves unknown for submitted or a result only with a reconciled receipt
\* (assertAttemptCommonTransition), and neither a receipt nor a request to cancel is ever lost.
AttemptStateTransitions ==
  [absent |-> {"running"}, running |-> {"submitted", "unknown"} \cup Ended,
   submitted |-> {"unknown"} \cup Ended, unknown |-> {"submitted"} \cup Ended]
Allowed(old, new) ==
  /\ new.state # old.state => ~Terminal(old) /\ new.state \in AttemptStateTransitions[old.state]
  /\ old.state = "unknown" /\ new.state \in {"submitted", "succeeded"} => new.receipt = "reconciled"
  /\ old.cancel => new.cancel
  /\ old.receipt # "none" => new.receipt \in {old.receipt, "reconciled"}
FollowsAttemptContract == [][\A o \in Operations : Allowed(row[o], row'[o])]_vars

\* The other hard limit: the generations that are reserved or were made never exceed the Run's, and
\* only one that was given up without a receipt makes room for another (assertPermissionAndBudget,
\* appendGenerationCountConsumed, releaseGenerationReservations).
GenerationsWithinBudget == Cardinality({o \in Operations : Counted(o)}) <= MaxGenerations

\* The Run's ledger is an account that holds before it pays and closes every operation once (SpendAccount).
Account == INSTANCE SpendAccount WITH
  Holders <- Operations, Limit <- Ceiling,
  stage <- [o \in Operations |-> CASE row[o].cost = "none" -> "new" [] row[o].cost = "reserved" -> "held"
                                   [] OTHER -> "closed"],
  amount <- [o \in Operations |-> Held(row[o])],
  balance <- Exposure
ImplementsAccount == Account!Spec

\* An operation somebody asked to cancel ends, with the Run's task still at work on it or not, through lost and
\* vague answers, a crash and lost submissions (drainRequestedOperationCancellations); all that may keep it open
\* is a result that cannot be booked: the Project changed under it, its generation was counted at another
\* instant, or it costs more than was quoted (finishWithReceipt, settleGenerationCost).
Unbookable(o) ==
  o \in stale \/ row[o].count = "dated" \/ (Priced(row[o]) /\ job[o].charge > row[o].quote)
CancellationDrains ==
  \A o \in Operations : row[o].cancel ~> (Terminal(row[o]) \/ Unbookable(o))
=============================================================================
