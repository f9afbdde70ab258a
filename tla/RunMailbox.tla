----------------------------- MODULE RunMailbox -----------------------------
(* What a Run promises to the messages queued for it, whatever Activations, *)
(* Model Attempts, pauses, crashes and restarts it takes: each message is   *)
(* taken at most once and in order, a completed Run has taken all of them,  *)
(* and a Run that has ended takes nothing more.                             *)
EXTENDS Naturals, Sequences

VARIABLES messages, phase
mailbox == <<messages, phase>>

MessageStates == {"waiting", "taken", "withdrawn"}
Phases == {"open", "completed", "stopped", "cancelled"}

Init == messages = <<"waiting">> /\ phase = "open"

Post == phase = "open" /\ messages' = Append(messages, "waiting") /\ UNCHANGED phase

\* i is the oldest message still waiting.
Oldest(i) == messages[i] = "waiting" /\ \A j \in 1..(i - 1) : messages[j] # "waiting"

Take == /\ phase = "open"
        /\ \E i \in DOMAIN messages :
             Oldest(i) /\ messages' = [messages EXCEPT ![i] = "taken"]
        /\ UNCHANGED phase

Complete == /\ phase = "open" /\ \A i \in DOMAIN messages : messages[i] # "waiting"
            /\ phase' = "completed" /\ UNCHANGED messages

\* The Run fails or is blocked: what still waits is left as it is.
Stop == phase = "open" /\ phase' = "stopped" /\ UNCHANGED messages

\* Cancellation withdraws every waiting message but, at most, the oldest: the Run may hold that one already.
Cancel ==
  /\ phase = "open" /\ phase' = "cancelled"
  /\ DOMAIN messages' = DOMAIN messages
  /\ \A i \in DOMAIN messages :
       IF messages[i] # "waiting" THEN messages'[i] = messages[i]
       ELSE messages'[i] = "withdrawn" \/ (messages'[i] = "waiting" /\ Oldest(i))

Next == Post \/ Take \/ Complete \/ Stop \/ Cancel

Spec == Init /\ [][Next]_mailbox
=============================================================================
