---------------------------- MODULE MCRunHarness ----------------------------
(* Two worlds, chosen in the beginning: a calm one, where nothing throws     *)
(* without a cause, an atomic call meets no message that came after its      *)
(* request (its boundary would throw), and nothing protected is changed (an  *)
(* exit before that boundary keeps the application from starting); and one   *)
(* with everything, but a message less.  The user pauses, resumes, cancels   *)
(* and answers in both.                                                      *)
EXTENDS RunHarness

VARIABLE calm

Rough == \/ (QuoteThrows /\ ~RequestSuperseded) \/ (StreamThrows /\ ~AnswerSuperseded)
         \/ (ToolThrows /\ ~ReadSuperseded)
         \/ AtomicCallRejected \/ ProtectedCall

\* A pause takes the attempt in flight away: the bound on attempts leaves another one to go on with.
PausesLastAttempt == Pause /\ InFlight /\ attempt.number = MaxAttempts

Within == IF calm THEN ~Rough /\ ~PausesLastAttempt ELSE Len(inbox') < MaxInbox

MCInit == Init /\ calm \in BOOLEAN
MCNext == Next /\ UNCHANGED calm /\ Within
MCSpec == MCInit /\ [][MCNext]_<<vars, calm>> /\ Fairness

\* Liveness: in the calm world a queued message is consumed, unless in the end the Run is paused, waits or is over.
\* It may be paused and resumed at any await (the signal aborted or not yet, the attempt taken away, the
\* request superseded), get messages late and lose its process. Two known gaps strand it: a signal that outlives its
\* pause (Spins) and an exit while it is paused over an open read (LeftOpen); nothing else does (coordinateRun, the sweep).
CalmMessagesAreServed == calm => QueuedEventuallyServed

\* Liveness: in the same world every restart brings the host up again with no interrupted work left behind
\* (reconcileInterruptedRun, closeInterruptedActivation).
CalmRestartsRecover == calm => RestartRecovers
=============================================================================
