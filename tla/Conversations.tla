---------------------------- MODULE Conversations ----------------------------
(* Chats of a Project and their Messages: commands on a Chat, the one way a *)
(* Message joins it, the search documents that follow both, and readers     *)
(* that walk a Chat's Messages page by page, newest first.                  *)
EXTENDS ProjectLedger

CONSTANTS
  ChatIds,       \* ids of Chats
  PageLimit      \* messages a page holds

ChatRows == [title : Names, lifecycle : Lifecycles, revision : Nat, count : Nat, head : Nat]
WalkRows == [chat : ChatIds \cup {Absent}, after : Nat, cursor : Nat, shown : Seq(Nat), top : Nat]

ASSUME ConversationsAssumption ==
  "project" \notin ChatIds /\ Absent \notin ChatRows \cup ChatIds /\ PageLimit \in Nat \ {0}

VARIABLES
  chats,      \* chats rows, or Absent
  messages,   \* messages rows of each Chat in sequence order, with their search documents
  walk        \* one reader: its Chat and bounds, the cursor it holds, what it was shown
conversations == <<chats, messages, walk>>

LifecycleAfter == [archive |-> "archived", restore |-> "active", delete |-> "deleted"]
ChatMethods == DOMAIN LifecycleAfter \cup {"rename"}

createChat(r, c, title) ==
  /\ MayRun(r) /\ projectFromRow /\ chats[c] = Absent
  /\ chats' = [chats EXCEPT ![c] = [title |-> title, lifecycle |-> "active", revision |-> 0, count |-> 0, head |-> 0]]
  /\ appendProjectEvent(<<r, 0>>, c, -1, -1, 0)
  /\ Respond(r, <<"chat.create", c, title>>, chats'[c])
  /\ UNCHANGED <<project, messages>>

changedChat(chat, method, title) ==
  IF method = "rename" THEN [chat EXCEPT !.title = title] ELSE [chat EXCEPT !.lifecycle = LifecycleAfter[method]]

\* Mutant: a document that was retired once stays retired.
retireOnly(rows, state) ==
  [n \in DOMAIN rows |-> IF state = "historical" /\ rows[n].document # Absent THEN [rows[n] EXCEPT !.document = state] ELSE rows[n]]

\* updateChatMessageSearchState: every document of the Chat's Messages takes the state.
updateChatMessageSearchState(rows, state) ==
  [n \in DOMAIN rows |-> IF rows[n].document = Absent THEN rows[n] ELSE [rows[n] EXCEPT !.document = state]]

\* Nothing here asks whether a Run of the Chat is still going.
mutateChat(r, c, base, method, title) ==
  LET after == [changedChat(chats[c], method, title) EXCEPT !.revision = base + 1] IN
  /\ MayRun(r) /\ chats[c] # Absent /\ base = chats[c].revision
  /\ IF changedChat(chats[c], method, title) = chats[c]
       THEN Respond(r, <<"chat.mutate", c, base, method, title>>, chats[c]) /\ UNCHANGED <<events, chats, messages>>
       ELSE /\ chats[c].lifecycle # "deleted"
            /\ chats' = [chats EXCEPT ![c] = after]
            /\ messages' = IF method = "rename" THEN messages
                           ELSE [messages EXCEPT ![c] = updateChatMessageSearchState(@,
                                   IF method = "restore" THEN "current" ELSE "historical")]
            /\ appendProjectEvent(<<r, 0>>, c, base, base, base + 1)
            /\ Respond(r, <<"chat.mutate", c, base, method, title>>, after)
  /\ UNCHANGED project

-----------------------------------------------------------------------------
Message(role, from, key, text, supersedes) ==
  [role |-> role, run |-> from, key |-> key, supersedes |-> supersedes,
   document |-> IF text THEN "current" ELSE Absent]

validateSupersedes(c, m) ==
  m.supersedes # 0 => m.supersedes \in DOMAIN messages[c] /\ messages[c][m.supersedes].role = m.role

\* appendMessageInTransaction, one step of the commands that say something in a Chat; the caller has checked
\* that an assistant Message is of a Run of the Chat (validateOriginatingRun).
appendMessage(c, m) ==
  /\ chats[c] # Absent /\ chats[c].lifecycle = "active" /\ chats[c].count = chats[c].head
  /\ validateSupersedes(c, m)
  /\ messages' = [messages EXCEPT ![c] = Append(@, m)]
  /\ chats' = [chats EXCEPT ![c].revision = @ + 1, ![c].count = @ + 1, ![c].head = @ + 1]
  /\ appendProjectEvent(m.key, <<"message", c, chats[c].head + 1>>, -1, -1, 0)

-----------------------------------------------------------------------------
(* message.list and chat.query read pages newest first; a page is shown      *)
(* oldest first, and its cursor names the oldest Message it shows.           *)
NoWalk == [chat |-> Absent, after |-> 0, cursor |-> 0, shown |-> <<>>, top |-> 0]

startWalk(c, after, before) ==
  /\ walk = NoWalk /\ chats[c] # Absent /\ before \in 1..(Len(messages[c]) + 1) /\ after < before
  /\ walk' = [chat |-> c, after |-> after, cursor |-> before, shown |-> <<>>, top |-> before - 1]
  /\ UNCHANGED <<chats, messages>>

\* The rows a page reads, newest first: one more than it shows tells whether there is another page.
pageRows == {n \in DOMAIN messages[walk.chat] : walk.after < n /\ n < walk.cursor}
Shown == {n \in pageRows : Cardinality({m \in pageRows : m > n}) < PageLimit}

\* The rows of a page, oldest first.
Oldest(rows) == [n \in 1..Cardinality(rows) |-> CHOOSE m \in rows : Cardinality({k \in rows : k <= m}) = n]

\* Mutant: the cursor names the row read to see whether another page follows.
cursorOnProbe ==
  /\ walk.cursor > 0
  /\ walk' = [walk EXCEPT !.shown = Oldest(Shown) \o @,
                          !.cursor = IF Cardinality(pageRows) > PageLimit THEN Max(pageRows \ Shown) ELSE 0]
  /\ UNCHANGED <<chats, messages>>

nextPage ==
  /\ walk.cursor > 0
  /\ walk' = [walk EXCEPT !.shown = Oldest(Shown) \o @,
                          !.cursor = IF Cardinality(pageRows) > PageLimit THEN Min(Shown) ELSE 0]
  /\ UNCHANGED <<chats, messages>>

\* The reader forgets what it read.
endWalk == walk # NoWalk /\ walk.cursor = 0 /\ walk' = NoWalk /\ UNCHANGED <<chats, messages>>

Walk(bounds) == \/ \E c \in ChatIds, b \in bounds : startWalk(c, b[1], b[2])
                \/ nextPage
                \/ endWalk
=============================================================================
