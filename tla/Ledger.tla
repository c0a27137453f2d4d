-------------------------------- MODULE Ledger --------------------------------
(***************************************************************************)
(* The session ledger: the messages, usage, sessions and session_state     *)
(* tables (core/database.cpp), the slash commands that edit them           *)
(* (interface/command_handler.cpp), the rows a turn appends (ProcessResponse*)
(* of the two providers, interface/interaction_engine.cpp), the rebuilding *)
(* of the session's anchor from its rows (core/orchestrator.cpp) and the   *)
(* program's start (main.cpp).                                             *)
(*                                                                         *)
(* Every SQL statement outside CloneSession commits by itself, so a        *)
(* handler is a sequence of writes that the end of the process can cut     *)
(* anywhere: the first step of a handler is its action, the writes it has  *)
(* left are in todo.  The "INSERT OR IGNORE INTO sessions" that opens      *)
(* several functions is one step with the statement after it: cut between  *)
(* the two, it leaves what "/context window 5" leaves.                     *)
(*                                                                         *)
(* A "### STATE" block is a version number, given out as the model writes  *)
(* them; 0 is none.  A row's id is its place in the order created_at, id,   *)
(* which CloneSession keeps: the clock is assumed not to go back.          *)
(***************************************************************************)
EXTENDS Naturals, Sequences, FiniteSets

CONSTANTS
    Sessions,       \* session names
    Default,        \* "default_session"
    Windows,        \* the sizes the user gives to /context window
    MaxGroups,      \* bound: turns begun
    MaxVersions,    \* bound: states written
    MaxRows         \* bound: rows appended

ASSUME DefaultAssumption == Default \in Sessions
ASSUME NumbersAssumption ==
    /\ Windows \subseteq Nat
    /\ MaxGroups \in Nat /\ MaxVersions \in Nat /\ MaxRows \in Nat

\* sessions.context_size INTEGER DEFAULT 5
DefaultWindow == 5

VARIABLES
    \* slop.db
    rows,       \* rows[s]: the messages of session s
    usage,      \* the sessions that have rows in usage
    known,      \* the ids in sessions
    window,     \* context_size; the default where there is no row
    anchor,     \* session_state: the version of the state blob, 0 without one
    \* the process
    mode,       \* "off" | "interactive" | "batch" | "ending": batch input taken
    current,    \* session_id
    turn,       \* group_id of the turn in progress, 0 at the prompt
    todo,       \* the writes the handler has still to do
    \* how many groups, states and rows there have been
    groups, versions, ids,
    \* observed: sessions whose anchor a process was saving when it stopped
    torn

counts == <<groups, versions, ids>>
db     == <<rows, usage, known, window, anchor>>
vars   == <<db, mode, current, turn, todo, counts, torn>>

Groups   == 1 .. MaxGroups
Versions == 0 .. MaxVersions
Kinds    == {"user", "text", "tool"}
Row      == [id : 1 .. MaxRows, group : Groups, kind : Kinds, state : Versions]

Writes == {"anchor", "rebuild", "messages", "usage", "sessions", "session_state"}
Write  == [op : Writes, session : Sessions, arg : Nat]

\* One write for session s: a version to save as its anchor, or a rebuild that
\* has come to the row of that id, or a statement of DeleteSession.
Do(op, s, x) == [op |-> op, session |-> s, arg |-> x]
Rebuilding(s) == <<Do("rebuild", s, 0)>>

-----------------------------------------------------------------------------
TypeOK ==
    /\ rows \in [Sessions -> SUBSET Row]
    /\ usage \in SUBSET Sessions
    /\ known \in SUBSET Sessions
    /\ window \in [Sessions -> Windows \cup {DefaultWindow}]
    /\ anchor \in [Sessions -> Versions]
    /\ mode \in {"off", "interactive", "batch", "ending"}
    /\ current \in Sessions
    /\ turn \in Groups \cup {0}
    /\ todo \in Seq(Write)
    /\ groups \in 0 .. MaxGroups
    /\ versions \in Versions
    /\ ids \in 0 .. MaxRows
    /\ torn \in SUBSET Sessions

Init ==
    /\ rows = [s \in Sessions |-> {}]
    /\ usage = {} /\ known = {}
    /\ window = [s \in Sessions |-> DefaultWindow]
    /\ anchor = [s \in Sessions |-> 0]
    /\ mode = "off" /\ current = Default /\ turn = 0 /\ todo = <<>>
    /\ groups = 0 /\ versions = 0 /\ ids = 0 /\ torn = {}

-----------------------------------------------------------------------------
\* Reading the ledger.

\* Rows of group g in session s, and the groups of a session.
Part(s, g)  == {r \in rows[s] : r.group = g}
GroupsOf(s) == {r.group : r \in rows[s]}

\* Group h begins after group g.
Later(s, h, g) == \E x \in Part(s, g) : \A r \in Part(s, h) : x.id < r.id

\* A faulty sort of the windowed query, and the n groups it selects.
OldestGroups(s, n) ==
    {g \in GroupsOf(s) : Cardinality({h \in GroupsOf(s) : Later(s, g, h)}) < n}
NewestGroups(s, n) ==
    {g \in GroupsOf(s) : Cardinality({h \in GroupsOf(s) : Later(s, h, g)}) < n}

\* GetConversationHistory: the rows inside the session's window.
History(s) ==
    IF window[s] > 0
    THEN {r \in rows[s] : r.group \in NewestGroups(s, window[s])}
    ELSE rows[s]

\* The assistant texts of s whose state is newer than its anchor.
Lagging(s) == {r \in rows[s] : r.kind = "text" /\ r.state > anchor[s]}

\* A faulty registration that forgets the row of sessions.
RegisterNothing(s) == known
Register(s) == known \cup {s}

-----------------------------------------------------------------------------
\* The process.

Free  == mode \in {"interactive", "batch", "ending"} /\ todo = <<>>
Ready == mode \in {"interactive", "batch"} /\ todo = <<>> /\ turn = 0

\* A batch run takes one input and ends.
InputTaken == mode' = IF mode = "batch" THEN "ending" ELSE mode

\* Only the interactive loop rebuilds the context when it starts.
BootWrites(s, m) == IF m = "interactive" THEN Rebuilding(s) ELSE <<>>

Start(s, m) ==
    /\ mode = "off"
    /\ mode' = m /\ current' = s
    /\ todo' = BootWrites(s, m)
    /\ UNCHANGED <<db, turn, counts, torn>>

\* /exit, the end of a batch run, a signal, an abort: whatever was not
\* committed is lost.
Stop ==
    /\ mode # "off"
    /\ mode' = "off" /\ current' = Default /\ turn' = 0 /\ todo' = <<>>
    /\ torn' = torn \cup {s \in Sessions : \E i \in DOMAIN todo :
                            /\ todo[i].session = s /\ todo[i].arg # 0}
    /\ UNCHANGED <<db, counts>>

-----------------------------------------------------------------------------
\* The writes of a handler, one statement at a time.

\* A handler's next write, and what replaces it in what is left to do.
Step(op, rest) ==
    /\ todo # <<>> /\ Head(todo).op = op
    /\ todo' = rest \o Tail(todo)
    /\ UNCHANGED <<mode, current, turn, counts>>

SaveAnchor(s, v) ==
    /\ anchor' = [anchor EXCEPT ![s] = v]
    /\ known' = Register(s)
    /\ UNCHANGED <<rows, usage, window>>

SetSessionState ==
    /\ Step("anchor", <<>>)
    /\ SaveAnchor(Head(todo).session, Head(todo).arg)
    /\ UNCHANGED torn

\* The rows with a state that the loop of RebuildContext has still to see.
Unseen(s, id) == {r \in History(s) : r.state # 0 /\ r.id > id}

\* A rebuild that sees every state newer than the anchor makes up for a write
\* that a stopped process left out.
Repaired(w) ==
    IF w.arg = 0 /\ Lagging(w.session) \subseteq History(w.session)
    THEN torn \ {w.session} ELSE torn

\* RebuildContext saves the state of every assistant row it sees, the oldest
\* first.  It never clears the anchor.
RebuildNext ==
    /\ todo # <<>>
    /\ LET w == Head(todo) IN
       /\ torn' = Repaired(w)
       /\ \E r \in Unseen(w.session, w.arg) :
            /\ \A x \in Unseen(w.session, w.arg) : r.id <= x.id
            /\ Step("rebuild", <<Do("rebuild", w.session, r.id)>>)
            /\ SaveAnchor(w.session, r.state)

RebuildDone ==
    /\ Step("rebuild", <<>>)
    /\ LET w == Head(todo) IN Unseen(w.session, w.arg) = {} /\ torn' = Repaired(w)
    /\ UNCHANGED db

DeleteMessages ==
    /\ Step("messages", <<>>)
    /\ rows' = [rows EXCEPT ![Head(todo).session] = {}]
    /\ UNCHANGED <<usage, known, window, anchor, torn>>

DeleteUsage ==
    /\ Step("usage", <<>>)
    /\ usage' = usage \ {Head(todo).session}
    /\ UNCHANGED <<rows, known, window, anchor, torn>>

DeleteSessionRow ==
    /\ Step("sessions", <<>>)
    /\ known' = known \ {Head(todo).session}
    /\ window' = [window EXCEPT ![Head(todo).session] = DefaultWindow]
    /\ UNCHANGED <<rows, usage, anchor, torn>>

DeleteState ==
    /\ Step("session_state", <<>>)
    /\ anchor' = [anchor EXCEPT ![Head(todo).session] = 0]
    /\ UNCHANGED <<rows, usage, known, window, torn>>

-----------------------------------------------------------------------------
\* A turn.  The loop of Process appends rows to its group until it ends; when
\* it goes on and when it ends does not depend on the ledger.

\* A faulty clock that gives the group of the turn before once more.
NewGroupTwice == IF groups = 0 THEN 1 ELSE groups
\* group_id: the time in nanoseconds.
NewGroup == groups + 1

AppendMessage(g, k, v) ==
    /\ ids < MaxRows
    /\ ids' = ids + 1
    /\ rows' = [rows EXCEPT ![current] =
         @ \cup {[id |-> ids', group |-> g, kind |-> k, state |-> v]}]
    /\ known' = Register(current)

StartTurn ==
    /\ Ready /\ groups < MaxGroups
    /\ groups' = groups + 1 /\ turn' = NewGroup
    /\ AppendMessage(turn', "user", 0)
    /\ InputTaken
    /\ UNCHANGED <<usage, window, anchor, current, todo, versions, torn>>

\* A response without a new state, or with the next one.
NextState == {0} \cup (IF versions < MaxVersions THEN {versions + 1} ELSE {})

\* ProcessResponse, an assistant text: its state is saved at once.
AppendText(v) ==
    /\ Free /\ turn # 0
    /\ AppendMessage(turn, "text", v)
    /\ todo' = IF v = 0 THEN <<>> ELSE <<Do("anchor", current, v)>>
    /\ versions' = IF v = 0 THEN versions ELSE v
    /\ UNCHANGED <<usage, window, anchor, mode, current, turn, groups, torn>>

\* ProcessResponse, tool calls, or a tool's result.  The stored message of a
\* call may hold a state that only RebuildContext finds.
AppendToolRow(v) ==
    /\ Free /\ turn # 0
    /\ AppendMessage(turn, "tool", v)
    /\ versions' = IF v = 0 THEN versions ELSE v
    /\ UNCHANGED <<usage, window, anchor, mode, current, turn, todo, groups, torn>>

RecordUsage ==
    /\ Free /\ turn # 0
    /\ usage' = usage \cup {current} /\ known' = Register(current)
    /\ UNCHANGED <<rows, window, anchor, mode, current, turn, todo, counts, torn>>

EndTurn ==
    /\ Free /\ turn # 0
    /\ turn' = 0
    /\ UNCHANGED <<db, mode, current, todo, counts, torn>>

-----------------------------------------------------------------------------
\* The commands.

\* "DELETE FROM messages WHERE group_id = ?": in whatever session.
Without(g) == [s \in Sessions |-> {r \in rows[s] : r.group # g}]

\* /undo: GetLastGroupId, delete that group, rebuild.
Undo ==
    /\ Ready /\ InputTaken
    /\ IF rows[current] = {}
       THEN UNCHANGED <<rows, todo>>
       ELSE \E last \in rows[current] :
              /\ \A r \in rows[current] : r.id <= last.id
              /\ rows' = Without(last.group)
              /\ todo' = Rebuilding(current)
    /\ UNCHANGED <<usage, known, window, anchor, current, turn, counts, torn>>

\* /message remove <g>: no rebuild.
RemoveGroup(g) ==
    /\ Ready /\ InputTaken
    /\ rows' = Without(g)
    /\ UNCHANGED <<usage, known, window, anchor, current, turn, todo, counts, torn>>

\* /context window <n>
SetContextWindow(n) ==
    /\ Ready /\ InputTaken
    /\ window' = [window EXCEPT ![current] = n]
    /\ known' = Register(current)
    /\ UNCHANGED <<rows, usage, anchor, current, turn, todo, counts, torn>>

\* /context rebuild
Rebuild ==
    /\ Ready /\ InputTaken
    /\ todo' = Rebuilding(current)
    /\ UNCHANGED <<db, current, turn, counts, torn>>

\* /session switch <s>: s need not exist.
SwitchSession(s) ==
    /\ Ready /\ InputTaken
    /\ current' = s /\ todo' = Rebuilding(s)
    /\ UNCHANGED <<db, turn, counts, torn>>

\* A faulty order: the session's row goes first.
DeleteSessionRowFirst(s) ==
    <<Do("sessions", s, 0), Do("messages", s, 0), Do("usage", s, 0),
      Do("session_state", s, 0)>>
DeleteSession(s) ==
    <<Do("messages", s, 0), Do("usage", s, 0), Do("sessions", s, 0),
      Do("session_state", s, 0)>>

\* /session remove <s>: who removes the current session is sent to the
\* default one, without a rebuild.
RemoveSession(s) ==
    /\ Ready /\ InputTaken
    /\ todo' = DeleteSession(s)
    /\ current' = IF s = current THEN Default ELSE current
    /\ UNCHANGED <<db, turn, counts, torn>>

\* /session clear
ClearSession ==
    /\ Ready /\ InputTaken
    /\ todo' = DeleteSession(current) \o Rebuilding(current)
    /\ UNCHANGED <<db, current, turn, counts, torn>>

\* A faulty copy that leaves the tool calls behind, and one that reverses.
CopiesCompleted(q) == {r \in q : r.kind # "tool"}
CopiesReversed(q) == {[r EXCEPT !.id = MaxRows + 1 - @] : r \in q}
Copies(q) == q

\* CloneSession refuses an unknown source and a known target; a state left
\* over under the target's name breaks session_state's primary key, and the
\* transaction is rolled back.
CanClone(s, t) ==
    s \in known /\ t \notin known /\ (anchor[s] = 0 \/ anchor[t] = 0)

\* /session clone <t>: one transaction, then the switch to t.
CloneSession(t) ==
    /\ Ready /\ InputTaken
    /\ IF CanClone(current, t)
       THEN /\ known' = known \cup {t}
            /\ window' = [window EXCEPT ![t] = window[current]]
            /\ rows' = [rows EXCEPT ![t] = @ \cup Copies(rows[current])]
            /\ usage' = IF current \in usage THEN usage \cup {t} ELSE usage
            /\ anchor' = IF anchor[current] # 0
                         THEN [anchor EXCEPT ![t] = anchor[current]] ELSE anchor
            /\ torn' = IF current \in torn THEN torn \cup {t} ELSE torn
            /\ current' = t /\ todo' = Rebuilding(t)
       ELSE UNCHANGED <<db, current, todo, torn>>
    /\ UNCHANGED <<turn, counts>>

Next ==
    \/ \E s \in Sessions, m \in {"interactive", "batch"} : Start(s, m)
    \/ Stop
    \/ SetSessionState \/ RebuildNext \/ RebuildDone
    \/ DeleteMessages \/ DeleteUsage \/ DeleteSessionRow \/ DeleteState
    \/ StartTurn \/ RecordUsage \/ EndTurn
    \/ \E v \in NextState : AppendText(v) \/ AppendToolRow(v)
    \/ Undo \/ Rebuild \/ ClearSession
    \/ \E g \in 1 .. groups : RemoveGroup(g)
    \/ \E n \in Windows : SetContextWindow(n)
    \/ \E s \in Sessions : SwitchSession(s) \/ RemoveSession(s) \/ CloneSession(s)

Spec == Init /\ [][Next]_vars

-----------------------------------------------------------------------------
\* Whenever the process ends, in the middle of a removal too, the rows and the
\* usage that are left belong to a registered session: none is invisible to
\* /session list or unreachable by /session remove (DeleteSession's order,
\* the INSERT OR IGNORE of the append functions).
NoOrphans ==
    \A s \in Sessions : rows[s] # {} \/ s \in usage => s \in known

\* Sessions that hold a common group, a clone and its origin, hold the same
\* rows of it: what happens to a group happens to all its copies.
CopiesAgree ==
    \A s, t \in Sessions : \A g \in GroupsOf(s) \cap GroupsOf(t) :
        Part(s, g) = Part(t, g)

\* The group of the turn in progress is the current session's alone.  The
\* engine relies on it: GetMessagesByGroups({group_id}) asks for no session,
\* and the rows it returns are taken for the answer to this turn.
TurnIsPrivate ==
    turn # 0 => \A s \in Sessions \ {current} : turn \notin GroupsOf(s)

\* The groups of a session are contiguous and in the order of their turns, in
\* clones as well: the window's DISTINCT group_id query depends on it.
TurnsInOrder ==
    \A s \in Sessions : \A q, r \in rows[s] : q.id < r.id => q.group <= r.group

\* When no write is under way, no session's anchor is older than a state its
\* assistant texts wrote: neither rebuilding in a narrow window, nor undoing,
\* cloning and removing move it back.  Sessions are excepted in which a process
\* was stopped between the row and its state, until a rebuild has seen the row.
AnchorUpToDate ==
    todo = <<>> => \A s \in Sessions \ torn : Lagging(s) = {}

-----------------------------------------------------------------------------
\* What SESSIONS.md says: sessions isolate their history, and a clone saves a
\* stable state before a risky operation.  So /undo in one session leaves the
\* rows of the others alone.
UndoStaysInSession ==
    [][Undo => \A s \in Sessions \ {current} : rows'[s] = rows[s]]_vars
=============================================================================
