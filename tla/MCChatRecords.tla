---------------------------- MODULE MCChatRecords ----------------------------
(* Three stories to begin in: a Chat with an earlier exchange and no Run; a *)
(* Run in the middle of an attempt; and one that keeps a TaskList of two    *)
(* levels.                                                                  *)
EXTENDS ChatRecords

CONSTANTS c1, c2, t1, t2, t3, root, child, grandchild, stranger

MCParentRun == (root :> Absent) @@ (child :> root) @@ (grandchild :> child) @@ (stranger :> Absent)

Item(parent, order, state) == [NewItem(parent, order) EXCEPT !.state = state]
Table(rows) == rows @@ [i \in TaskItems |-> Absent]
Good == Table((t1 :> NewItem(Absent, 0)) @@ (t2 :> NewItem(t1, 0)))
Looping == Table((t1 :> NewItem(t2, 0)) @@ (t2 :> NewItem(t1, 0)))
Kept == Table((t1 :> Item(Absent, 0, "in_progress")) @@ (t2 :> Item(t1, 0, "blocked")))
MCDrafts == {Good, Looping}

ChatOf(n) == [title |-> "first", lifecycle |-> "active", revision |-> n, count |-> n, head |-> n]
Chats(n) == [c \in ChatIds |-> IF c = c1 THEN ChatOf(n) ELSE Absent]
Said(rows) == [c \in ChatIds |-> IF c = c1 THEN rows ELSE <<>>]
Earlier == <<Message("user", Absent, <<"earlier", 1>>, TRUE, 0), Message("assistant", stranger, <<"earlier", 2>>, TRUE, 0)>>

Going(inbox, asked, revision) ==
  [status |-> "running", revision |-> revision, chat |-> c1, first |-> 1, inbox |-> inbox, activation |-> 1,
   asked |-> asked, question |-> 0]
Journal(payloads) == [i \in DOMAIN payloads |-> [command |-> <<"begun", i>>, payload |-> payloads[i]]]

Begun == [chats |-> Chats(1), messages |-> Said(SubSeq(Earlier, 1, 1)), journal |-> Journal(<<Plain, Plain, Plain>>),
          run |-> Going(<<"consumed">>, Absent, 3), taskList |-> Absent]
MCStories ==
  {[chats |-> Chats(2), messages |-> Said(Earlier), journal |-> <<>>, run |-> Absent, taskList |-> Absent],
   Begun,
   [Begun EXCEPT !.journal = Journal(<<Plain, Plain, [type |-> "task_list_changed", revision |-> 1]>>),
                 !.taskList = [title |-> "first", state |-> "active", revision |-> 1, items |-> Kept]]}

MCPages == {<<0, 2>>, <<1, 4>>, <<0, 3>>}
MCRanges == {<<1, 2>>, <<2, 4>>, <<3, 2>>, <<1, 9>>}
MCCitations == {{2}, {2, 3}, {9}}
Symmetric == Permutations(Requests)
==============================================================================
