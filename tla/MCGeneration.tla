---------------------------- MODULE MCGeneration ----------------------------
(* Two corners of the state space, chosen in the beginning: one operation   *)
(* with every disturbance, or two that compete for the budget while nothing *)
(* but cancellation disturbs them.                                          *)
EXTENDS Generation

CONSTANTS o1, o2

VARIABLE corner

Alone == dispatch[o2] = "none" /\ client["sweep"].op = o1 /\ client["task"].op = o1
Quiet == /\ crashes = 0 /\ stale = {} /\ run = "running"
         /\ \A o \in Operations : row[o].count # "dated" /\ row[o].quote >= job[o].charge
         /\ \A c \in Clients : client[c].answer.state \notin {"lost", "unknown"}
         /\ \A o \in Operations : ~wire[o] => job[o].state # "none" \/ row[o].state = "absent"
Within == IF corner = "disturbed" THEN Alone ELSE Quiet

MCInit == Init /\ corner \in {"disturbed", "crowded"} /\ Within
MCNext == Next /\ UNCHANGED corner /\ Within'
MCSpec == MCInit /\ [][MCNext]_<<vars, corner>> /\ Fairness
=============================================================================
