----------------------------- MODULE MCWorkspace -----------------------------
(* Two Projects to start from: none yet, and one with a Sequence of two     *)
(* scenes, two shots and a clip and a Canvas with three placements.         *)
EXTENDS Workspace

CONSTANTS sc1, sc2, sh1, sh2, u1, u2, s1, c1, i1, i2, i3, i4, i5, p1, p2, p3, g1, e1, n1

MCShotOf == (u1 :> sh1) @@ (u2 :> sh2)

Item(kind, parent, ordinal, target) ==
  [kind |-> kind, parent |-> parent, ordinal |-> ordinal, target |-> target, pinned |-> 0]
Edited ==
  [createEmptySequence EXCEPT !.revision = 5, !.items =
     (i1 :> Item("scene", Absent, 0, sc1)) @@ (i2 :> Item("scene", Absent, 1, sc2)) @@
     (i3 :> Item("shot", i1, 0, sh1)) @@ (i4 :> Item("shot", i1, 1, sh2)) @@ (i5 :> Item("clip", i3, 0, u1))]

Spot(x, y, w, h) == [position |-> [x |-> x, y |-> y], size |-> [w |-> w, h |-> h]]
Placement(at, z) ==
  [target |-> [id |-> sc1, revision |-> 0], position |-> at.position, size |-> at.size, z |-> z]
Furnished ==
  [createEmptyCanvas(<<s1, 0>>) EXCEPT !.revision = 6, !.nextZ = 3,
     !.placements = (p1 :> Placement(Spot(0, 0, 1, 2), 0)) @@ (p2 :> Placement(Spot(0, 0, 3, 1), 1)) @@
                    (p3 :> Placement(Spot(2, 2, 2, 2), 2)),
     !.groups = (g1 :> {p1, p2}), !.edges = (e1 :> [from |-> p2, to |-> p3]),
     !.notes = (n1 :> [on |-> p2, text |-> "first"])]

Story(subject, n) ==
  [i \in 1..(n + 1) |-> [key |-> <<subject, i>>, subject |-> subject, base |-> IF i = 1 THEN 0 ELSE i - 2,
                         before |-> i - 2, after |-> i - 1]]

MCSeeds ==
  {[project |-> Absent, sequences |-> <<>>, canvases |-> <<>>, events |-> <<>>],
   [project |-> [name |-> "first", lifecycle |-> "active", revision |-> 0],
    sequences |-> s1 :> Edited, canvases |-> c1 :> Furnished,
    events |-> Story("project", 0) \o Story(s1, 5) \o Story(c1, 6)]}

MCSpots == {Spot(0, 0, 1, 2), Spot(1, 0, 2, 1)}
Symmetric == Permutations(Requests)
==============================================================================
