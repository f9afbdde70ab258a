------------------------ MODULE MCProtectedMutations ------------------------
(* Projects to start from: a Shot with one result selected, its selection    *)
(* and its content protected; the same objects with nothing decided; and a   *)
(* Delivery with two items placed, its order protected.                      *)
EXTENDS ProtectedMutations

CONSTANTS sc1, sh1, u1, u2, k1, k2, k3, k4, D1, i1, i2

MCShotOf == [r \in Results |-> sh1]
\* Each Run makes one call, and carries its name.
MCDeliveryIds == {D1} \cup {<<a>> : a \in Authors}
OneEach == [d \in Dispatches |-> d]

Object(type, revision, relations) ==
  [createObjectChange(type, "plain", relations) EXCEPT !.revision = revision]
Choice(owner, n, before, effect, supersedes, seen) ==
  [actor |-> "user", confirmed |-> FALSE, ownerBefore |-> IF n = 0 THEN Absent ELSE <<owner, n - 1>>,
   ownerAfter |-> <<owner, n>>, before |-> before, effect |-> effect, supersedes |-> supersedes,
   undoes |-> Absent, seen |-> seen]

Entries(value) == [kind |-> "result_decisions", shot |-> sh1, entries |-> (u1 :> value)]
Selection == resultField(sh1, u1)
Content == Field(sh1, "content", Absent)
Selected == u1 :> "selected"
Decided ==
  [objects |-> (sc1 :> Object("scene", 0, {<<"contains", sh1>>})) @@
     (sh1 :> [Object("shot", 3, {}) EXCEPT !.decisions = u1 :> [value |-> "selected", choice |-> k1],
                                           !.protections = (Selection :> k2) @@ (Content :> k3)]),
   choices |-> (k1 :> Choice(sh1, 1, Entries(Absent), Entries("selected"), {}, <<<<>>, {}>>)) @@
     (k2 :> Choice(sh1, 2, ProtectionEffect(Selection, FALSE), ProtectionEffect(Selection, TRUE), {}, <<Selected, {}>>)) @@
     (k3 :> Choice(sh1, 3, ProtectionEffect(Content, FALSE), ProtectionEffect(Content, TRUE), {},
                   <<Selected, {Selection}>>)),
   deliveries |-> <<>>]
Undecided ==
  [objects |-> (sc1 :> Object("scene", 0, {})) @@ (sh1 :> Object("shot", 0, {})),
   choices |-> <<>>, deliveries |-> <<>>]

Item(order) ==
  [f \in ItemFields |-> IF f = "trim" THEN 1 ELSE 0]
    @@ [lifecycle |-> "active", order |-> order, shot |-> <<sh1, 0>>, result |-> u1, media |-> 0]
Effect(settings, items, order) ==
  [kind |-> "delivery", delivery |-> D1, settings |-> settings, items |-> items, order |-> order]
Order == planField(D1, "order")
PlanFields == {planField(D1, n) : n \in {"name", "lifecycle", "formatIntent"}}
Placed ==
  [revision |-> 2, settings |-> "cut", lifecycle |-> "active", items |-> (i1 :> Item(0)) @@ (i2 :> Item(1)),
   heads |-> (Order :> k3) @@ [f \in PlanFields |-> k1] @@ [f \in itemFields(D1, i1) |-> k2]
               @@ [f \in itemFields(D1, i2) |-> k3],
   protections |-> <<>>]
PlacedChoices ==
  (k1 :> Choice(D1, 0, Effect(Absent, <<>>, Absent), Effect(<<"cut", "active">>, <<>>, <<>>), {}, Absent)) @@
  (k2 :> Choice(D1, 1, Effect(Absent, i1 :> Absent, <<>>), Effect(Absent, i1 :> Item(0), <<i1>>), {k1}, Absent)) @@
  (k3 :> Choice(D1, 2, Effect(Absent, i2 :> Absent, <<i1>>), Effect(Absent, i2 :> Item(1), <<i1, i2>>), {k2},
                <<<<"cut", "active">>, i1 :> Item(0), {}>>))
Delivered ==
  [objects |-> (sc1 :> Object("scene", 0, {})) @@ (sh1 :> Object("shot", 0, {})),
   choices |-> PlacedChoices, deliveries |-> D1 :> Placed]
OrderKept ==
  [Delivered EXCEPT
     !.choices = (k4 :> Choice(D1, 3, ProtectionEffect(Order, FALSE), ProtectionEffect(Order, TRUE), {},
                               <<<<"cut", "active">>, Placed.items, {}>>)) @@ @,
     !.deliveries = D1 :> [Placed EXCEPT !.revision = 3, !.protections = Order :> k4]]

DecisionSeeds == {Decided, Undecided}
DeliverySeeds == {Delivered, OrderKept}
Symmetric == Permutations(Requests)
BySubmission == Permutations(Dispatches)
=============================================================================
