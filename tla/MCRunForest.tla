---------------------------- MODULE MCRunForest ----------------------------
EXTENDS RunForest, TLC

OneCall == <<[kind |-> "call", calls |-> 1]>>
Map == <<[kind |-> "call", calls |-> 2], [kind |-> "pure", calls |-> 0], [kind |-> "validate", calls |-> 0],
         [kind |-> "call", calls |-> 1]>>
=============================================================================
