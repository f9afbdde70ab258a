---------------------------- MODULE RunContract ----------------------------
(* The state tables every authority shares: what a Run, one of its Inbox    *)
(* messages and one of its Model Attempts may become.  The storage          *)
(* authorities call the assert functions of these tables before they write; *)
(* the component modules read the tables to say what a write must satisfy.  *)
EXTENDS Naturals

RunStates == {"accepted", "running", "waiting_question", "waiting_confirmation",
              "paused", "recovering", "completed", "blocked", "failed", "cancelled"}

TerminalStates == {"completed", "blocked", "failed", "cancelled"}

RunStateTransitions ==
  [accepted             |-> {"running", "cancelled"},
   running              |-> {"waiting_question", "waiting_confirmation", "paused",
                             "recovering", "completed", "blocked", "failed", "cancelled"},
   waiting_question     |-> {"running", "cancelled"},
   waiting_confirmation |-> {"running", "cancelled"},
   paused               |-> {"running", "cancelled"},
   recovering           |-> {"running", "blocked", "failed", "cancelled"},
   completed            |-> {},
   blocked              |-> {},
   failed               |-> {},
   cancelled            |-> {}]

\* assertRunStateTransition: throws on a terminal source or a pair outside the table.
RunMayBecome(from, to) == from \notin TerminalStates /\ to \in RunStateTransitions[from]

InboxStates == {"queued", "delivered", "consumed", "cancelled"}

InboxStateTransitions ==
  [queued    |-> {"delivered", "cancelled"},
   delivered |-> {"consumed"},
   consumed  |-> {},
   cancelled |-> {}]

InboxMayBecome(from, to) == to \in InboxStateTransitions[from]
=============================================================================
