------------------------------ MODULE LedgerProofs ------------------------------
(***************************************************************************)
(* Proofs about Ledger, for all sets of sessions and windows and all       *)
(* bounds: what a ledger holds after any run of the program, of any number *)
(* of processes that stopped anywhere.                                     *)
(***************************************************************************)
EXTENDS Ledger, FiniteSetTheorems, SequenceTheorems, TLAPS

\* Between processes nothing is under way; a turn is the newest group.
ProcessInv ==
    /\ mode = "off" => todo = <<>> /\ turn = 0
    /\ turn # 0 => turn = groups

\* No row is ahead of the counters.
CountsInv ==
    \A s \in Sessions : \A r \in rows[s] :
        r.group <= groups /\ r.id <= ids /\ r.state <= versions

\* The rows of a session have different ids; groups and states grow with them.
OrderInv ==
    \A s \in Sessions : \A q, r \in rows[s] :
        /\ q.id = r.id => q = r
        /\ q.id < r.id => q.group <= r.group /\ (r.state # 0 => q.state <= r.state)

\* op for session s is to be done before the i-th write.
DoneBefore(i, op, s) == \E j \in 1 .. i - 1 : todo[j].op = op /\ todo[j].session = s

\* What the writes left to a handler rely on.
WriteInv(i, w) ==
    /\ w.op \in {"anchor", "rebuild"} => i = Len(todo)
    /\ w.op = "anchor" => i = 1 /\ w.arg = versions /\ w.arg # 0
    /\ w.arg # 0 => i = 1 /\ w.op \in {"anchor", "rebuild"}
    /\ w.op = "rebuild" /\ w.arg # 0 =>
         \E x \in History(w.session) :
            x.id = w.arg /\ x.state = anchor[w.session] /\ x.state # 0
    /\ w.op \in {"sessions", "session_state"} =>
         rows[w.session] = {} \/ DoneBefore(i, "messages", w.session)
    /\ w.op = "sessions" => w.session \notin usage \/ DoneBefore(i, "usage", w.session)

TodoInv == \A i \in 1 .. Len(todo) : WriteInv(i, todo[i])

\* An anchor is behind only while it is being saved, or in a torn session.
LagInv ==
    \A s \in Sessions \ torn :
        Lagging(s) = {} \/ (todo # <<>> /\ todo[1].session = s /\ todo[1].arg # 0)

\* What the invariant says of rows and their owners, and of anchors.
RowsInv ==
    ProcessInv /\ CountsInv /\ OrderInv /\ NoOrphans /\ TurnIsPrivate /\ CopiesAgree
AnchorInv == TodoInv /\ LagInv

IInv == TypeOK /\ RowsInv /\ AnchorInv

USE DefaultAssumption, NumbersAssumption

-----------------------------------------------------------------------------
\* The writes a handler starts with.
LEMMA RebuildingFacts ==
    ASSUME NEW s \in Sessions
    PROVE  /\ Rebuilding(s) \in Seq(Write) /\ Len(Rebuilding(s)) = 1
           /\ Rebuilding(s)[1] = Do("rebuild", s, 0)
BY DEF Rebuilding, Do, Write, Writes

LEMMA DeleteSessionFacts ==
    ASSUME NEW s \in Sessions
    PROVE  /\ DeleteSession(s) \in Seq(Write) /\ Len(DeleteSession(s)) = 4
           /\ DeleteSession(s)[1] = Do("messages", s, 0)
           /\ DeleteSession(s)[2] = Do("usage", s, 0)
           /\ DeleteSession(s)[3] = Do("sessions", s, 0)
           /\ DeleteSession(s)[4] = Do("session_state", s, 0)
<1>1. \A op \in Writes : Do(op, s, 0) \in Write
  BY DEF Do, Write
<1> QED
  BY <1>1 DEF DeleteSession, Writes

LEMMA ClearSessionFacts ==
    ASSUME NEW s \in Sessions, NEW q, q = DeleteSession(s) \o Rebuilding(s)
    PROVE  /\ q \in Seq(Write) /\ Len(q) = 5
           /\ \A i \in 1 .. 4 : q[i] = DeleteSession(s)[i]
           /\ q[5] = Do("rebuild", s, 0)
<1>1. /\ q \in Seq(Write) /\ Len(q) = Len(DeleteSession(s)) + Len(Rebuilding(s))
      /\ \A i \in 1 .. Len(DeleteSession(s)) + Len(Rebuilding(s)) :
            q[i] = IF i <= Len(DeleteSession(s)) THEN DeleteSession(s)[i]
                   ELSE Rebuilding(s)[i - Len(DeleteSession(s))]
  BY RebuildingFacts, DeleteSessionFacts, ConcatProperties
<1>2. Len(DeleteSession(s)) = 4 /\ Len(Rebuilding(s)) = 1
  BY RebuildingFacts, DeleteSessionFacts
<1>3. \A i \in 1 .. 4 : q[i] = DeleteSession(s)[i]
  BY <1>1, <1>2
<1>4. q[5] = Rebuilding(s)[1]
  BY <1>1, <1>2
<1> QED
  BY <1>1, <1>2, <1>3, <1>4, RebuildingFacts

\* Nothing is done before the first write.
LEMMA NothingBefore == \A op, s : ~DoneBefore(1, op, s)
BY DEF DoneBefore

\* A step takes the first write away, or replaces it by one.
LEMMA StepEnds ==
    ASSUME TypeOK, NEW op, Step(op, <<>>)
    PROVE  /\ todo' \in Seq(Write) /\ Len(todo) > 0 /\ Len(todo') = Len(todo) - 1
           /\ \A i \in 1 .. Len(todo') : todo'[i] = todo[i + 1]
           /\ Head(todo) = todo[1] /\ todo[1] \in Write /\ todo[1].op = op
BY DEF Step, TypeOK

LEMMA StepGoesOn ==
    ASSUME TypeOK, NEW op, NEW w \in Write, Step(op, <<w>>)
    PROVE  /\ todo' \in Seq(Write) /\ Len(todo) > 0 /\ Len(todo') = Len(todo)
           /\ todo'[1] = w /\ \A i \in 2 .. Len(todo) : todo'[i] = todo[i]
           /\ Head(todo) = todo[1] /\ todo[1] \in Write /\ todo[1].op = op
BY DEF Step, TypeOK

-----------------------------------------------------------------------------
LEMMA InitInv == Init => IInv
<1> SUFFICES ASSUME Init PROVE IInv
  OBVIOUS
<1>1. TypeOK
  BY DEF Init, TypeOK, Groups, Versions
<1>2. ProcessInv /\ CountsInv /\ OrderInv /\ TodoInv
  BY DEF Init, ProcessInv, CountsInv, OrderInv, TodoInv
<1>3. LagInv
  BY DEF Init, LagInv, Lagging
<1>4. NoOrphans /\ TurnIsPrivate /\ CopiesAgree
  BY DEF Init, NoOrphans, TurnIsPrivate, CopiesAgree, GroupsOf
<1> QED
  BY <1>1, <1>2, <1>3, <1>4 DEF IInv, RowsInv, AnchorInv

-----------------------------------------------------------------------------
LEMMA AppendTypes ==
    ASSUME TypeOK, NEW g \in Groups, NEW k \in Kinds, NEW v \in Versions,
           AppendMessage(g, k, v)
    PROVE  /\ rows' \in [Sessions -> SUBSET Row] /\ ids' \in 0 .. MaxRows
           /\ known' \in SUBSET Sessions
<1>1. [id |-> ids', group |-> g, kind |-> k, state |-> v] \in Row /\ ids' \in 0 .. MaxRows
  BY DEF AppendMessage, Row, TypeOK
<1> QED
  BY <1>1 DEF AppendMessage, TypeOK, Register

LEMMA RebuildNextTypes == TypeOK /\ RebuildNext => TypeOK'
<1> SUFFICES ASSUME TypeOK, RebuildNext PROVE TypeOK'
  OBVIOUS
<1> DEFINE w == Head(todo)
<1>1. w \in Write
  BY DEF RebuildNext, TypeOK
<1>2. PICK r \in Unseen(w.session, w.arg) :
         /\ Step("rebuild", <<Do("rebuild", w.session, r.id)>>)
         /\ SaveAnchor(w.session, r.state)
  BY DEF RebuildNext
<1>3. r \in Row /\ w.session \in Sessions
  BY <1>1, <1>2 DEF Unseen, History, TypeOK, Write
<1>4. Do("rebuild", w.session, r.id) \in Write
  BY <1>3 DEF Do, Write, Writes, Row
<1>5. todo' \in Seq(Write)
  BY <1>2, <1>4, StepGoesOn
<1>6. torn' \in SUBSET Sessions
  BY <1>3 DEF RebuildNext, Repaired, TypeOK
<1> QED
  BY <1>2, <1>3, <1>5, <1>6 DEF TypeOK, Step, SaveAnchor, Register, counts, Row

LEMMA CloneTypes ==
    ASSUME TypeOK, NEW t \in Sessions, CloneSession(t)
    PROVE  TypeOK'
<1>1. CASE CanClone(current, t)
  <2>1. todo' \in Seq(Write)
    BY <1>1, RebuildingFacts DEF CloneSession
  <2>2. /\ rows' \in [Sessions -> SUBSET Row] /\ anchor' \in [Sessions -> Versions]
        /\ torn' \in SUBSET Sessions /\ usage' \in SUBSET Sessions
    BY <1>1 DEF CloneSession, Copies, TypeOK
  <2> QED
    BY <1>1, <2>1, <2>2 DEF CloneSession, Ready, InputTaken, TypeOK, counts
<1>2. CASE ~CanClone(current, t)
  BY <1>2 DEF CloneSession, Ready, InputTaken, TypeOK, counts, db
<1> QED
  BY <1>1, <1>2

\* Every step keeps the types.
LEMMA TypeStep == TypeOK /\ TodoInv /\ [Next]_vars => TypeOK'
<1> SUFFICES ASSUME TypeOK, TodoInv, [Next]_vars PROVE TypeOK'
  OBVIOUS
<1> USE DEF counts, db
<1>1. ASSUME NEW s \in Sessions, NEW m \in {"interactive", "batch"}, Start(s, m)
      PROVE  TypeOK'
  BY <1>1, RebuildingFacts DEF Start, BootWrites, TypeOK
<1>2. CASE Stop
  BY <1>2 DEF Stop, TypeOK
<1>3. CASE SetSessionState
  <2>1. /\ todo' \in Seq(Write) /\ Head(todo) = todo[1] /\ todo[1] \in Write
        /\ Len(todo) > 0 /\ todo[1].op = "anchor"
    BY <1>3, StepEnds DEF SetSessionState
  <2>2. todo[1].arg = versions /\ todo[1].session \in Sessions
    BY <2>1 DEF TodoInv, WriteInv, Write, TypeOK
  <2> QED
    BY <1>3, <2>1, <2>2 DEF SetSessionState, SaveAnchor, Register, Step, TypeOK
<1>4. CASE RebuildNext
  BY <1>4, RebuildNextTypes
<1>5. CASE RebuildDone
  BY <1>5, StepEnds DEF RebuildDone, Repaired, Step, TypeOK
<1>6. CASE DeleteMessages
  BY <1>6, StepEnds DEF DeleteMessages, Step, TypeOK
<1>7. CASE DeleteUsage
  BY <1>7, StepEnds DEF DeleteUsage, Step, TypeOK
<1>8. CASE DeleteSessionRow
  BY <1>8, StepEnds DEF DeleteSessionRow, Step, TypeOK
<1>9. CASE DeleteState
  <2>1. 0 \in Versions
    BY DEF Versions
  <2> QED
    BY <1>9, <2>1, StepEnds DEF DeleteState, Step, TypeOK
<1>10. CASE StartTurn
  <2>1. turn' \in Groups /\ groups' \in 0 .. MaxGroups
    BY <1>10 DEF StartTurn, NewGroup, Groups, TypeOK
  <2>2. /\ rows' \in [Sessions -> SUBSET Row] /\ ids' \in 0 .. MaxRows
        /\ known' \in SUBSET Sessions
    BY <1>10, <2>1, AppendTypes DEF StartTurn, Kinds, Versions
  <2> QED
    BY <1>10, <2>1, <2>2 DEF StartTurn, InputTaken, Ready, TypeOK
<1>11. ASSUME NEW v \in NextState, AppendText(v) PROVE TypeOK'
  <2>1. v \in Versions /\ turn \in Groups
    BY <1>11 DEF NextState, AppendText, Versions, TypeOK
  <2>2. /\ rows' \in [Sessions -> SUBSET Row] /\ ids' \in 0 .. MaxRows
        /\ known' \in SUBSET Sessions
    BY <1>11, <2>1, AppendTypes DEF AppendText, Kinds
  <2>3. Do("anchor", current, v) \in Write
    BY <2>1 DEF Do, Write, Writes, Versions, TypeOK
  <2>4. todo' \in Seq(Write)
    BY <1>11, <2>3 DEF AppendText
  <2> QED
    BY <1>11, <2>1, <2>2, <2>4 DEF AppendText, TypeOK, Versions
<1>12. ASSUME NEW v \in NextState, AppendToolRow(v) PROVE TypeOK'
  <2>1. v \in Versions /\ turn \in Groups
    BY <1>12 DEF NextState, AppendToolRow, Versions, TypeOK
  <2>2. /\ rows' \in [Sessions -> SUBSET Row] /\ ids' \in 0 .. MaxRows
        /\ known' \in SUBSET Sessions
    BY <1>12, <2>1, AppendTypes DEF AppendToolRow, Kinds
  <2> QED
    BY <1>12, <2>1, <2>2 DEF AppendToolRow, TypeOK
<1>13. CASE RecordUsage
  BY <1>13 DEF RecordUsage, Register, TypeOK
<1>14. CASE EndTurn
  BY <1>14 DEF EndTurn, TypeOK
<1>15. CASE Undo
  BY <1>15, RebuildingFacts DEF Undo, Ready, InputTaken, Without, TypeOK
<1>16. ASSUME NEW g \in 1 .. groups, RemoveGroup(g) PROVE TypeOK'
  BY <1>16 DEF RemoveGroup, Ready, InputTaken, Without, TypeOK
<1>17. ASSUME NEW n \in Windows, SetContextWindow(n) PROVE TypeOK'
  BY <1>17 DEF SetContextWindow, Ready, InputTaken, Register, TypeOK
<1>18. CASE Rebuild
  BY <1>18, RebuildingFacts DEF Rebuild, Ready, InputTaken, TypeOK
<1>19. ASSUME NEW s \in Sessions, SwitchSession(s) PROVE TypeOK'
  BY <1>19, RebuildingFacts DEF SwitchSession, Ready, InputTaken, TypeOK
<1>20. ASSUME NEW s \in Sessions, RemoveSession(s) PROVE TypeOK'
  BY <1>20, DeleteSessionFacts DEF RemoveSession, Ready, InputTaken, TypeOK
<1>21. CASE ClearSession
  BY <1>21, ClearSessionFacts DEF ClearSession, Ready, InputTaken, TypeOK
<1>22. ASSUME NEW t \in Sessions, CloneSession(t) PROVE TypeOK'
  BY <1>22, CloneTypes
<1>23. CASE UNCHANGED vars
  BY <1>23 DEF vars, TypeOK
<1> QED
  BY <1>1, <1>2, <1>3, <1>4, <1>5, <1>6, <1>7, <1>8, <1>9, <1>10, <1>11, <1>12,
     <1>13, <1>14, <1>15, <1>16, <1>17, <1>18, <1>19, <1>20, <1>21, <1>22, <1>23
     DEF Next

-----------------------------------------------------------------------------
\* A step that leaves the rows alone, and takes no session out of sessions.
LEMMA QuietStep ==
    ASSUME RowsInv, rows' = rows, UNCHANGED counts,
           known \subseteq known', usage' \subseteq usage \cup known',
           turn' = 0 \/ (turn' = turn /\ current' = current),
           mode' = "off" => todo' = <<>> /\ turn' = 0
    PROVE  RowsInv'
<1>1. ProcessInv' /\ CountsInv' /\ OrderInv'
  BY DEF RowsInv, ProcessInv, CountsInv, OrderInv, counts
<1>2. NoOrphans'
  BY DEF RowsInv, NoOrphans
<1>3. \A s : GroupsOf(s)' = GroupsOf(s) /\ \A g : Part(s, g)' = Part(s, g)
  BY DEF GroupsOf, Part
<1>4. TurnIsPrivate'
  BY <1>3 DEF RowsInv, TurnIsPrivate
<1>5. CopiesAgree'
  BY <1>3 DEF RowsInv, CopiesAgree
<1> QED
  BY <1>1, <1>2, <1>4, <1>5 DEF RowsInv

\* A step that takes whole groups out of all sessions.
LEMMA WithoutStep ==
    ASSUME TypeOK, RowsInv, NEW g, rows' = Without(g), UNCHANGED <<counts, known, usage>>,
           turn' = 0, mode' # "off"
    PROVE  RowsInv'
<1>1. \A s \in Sessions : rows'[s] = {r \in rows[s] : r.group # g}
  BY DEF Without
<1>2. ProcessInv' /\ CountsInv' /\ OrderInv'
  BY <1>1 DEF RowsInv, ProcessInv, CountsInv, OrderInv, counts
<1>3. NoOrphans' /\ TurnIsPrivate'
  BY <1>1 DEF RowsInv, NoOrphans, TurnIsPrivate
<1>4. CopiesAgree'
  <2> SUFFICES ASSUME NEW s \in Sessions, NEW t \in Sessions,
                      NEW h \in GroupsOf(s)' \cap GroupsOf(t)'
               PROVE  Part(s, h)' = Part(t, h)'
    BY DEF CopiesAgree
  <2>1. h # g /\ h \in GroupsOf(s) \cap GroupsOf(t)
    BY <1>1 DEF GroupsOf
  <2>2. Part(s, h) = Part(t, h)
    BY <2>1 DEF RowsInv, CopiesAgree
  <2> QED
    BY <1>1, <2>1, <2>2 DEF Part
<1> QED
  BY <1>2, <1>3, <1>4 DEF RowsInv

\* A step that appends a row of the turn's group to the current session.
LEMMA AppendStep ==
    ASSUME TypeOK, TypeOK', RowsInv, NEW g \in Groups, NEW k, NEW v \in NextState,
           AppendMessage(g, k, v), g = groups' /\ groups <= g, turn' = g, current' = current,
           versions' = (IF v = 0 THEN versions ELSE v), UNCHANGED usage, mode' # "off",
           \A s \in Sessions \ {current} : g \notin GroupsOf(s)
    PROVE  RowsInv'
<1> DEFINE new == [id |-> ids + 1, group |-> g, kind |-> k, state |-> v]
<1>1. /\ rows' = [rows EXCEPT ![current] = @ \cup {new}] /\ ids' = ids + 1
      /\ known' = known \cup {current}
  BY DEF AppendMessage, Register
<1>2. /\ current \in Sessions /\ rows'[current] = rows[current] \cup {new}
      /\ \A s \in Sessions \ {current} : rows'[s] = rows[s]
  BY <1>1 DEF TypeOK
<1>3. /\ new.id = ids + 1 /\ new.group = g /\ new.state = v
      /\ ids \in Nat /\ groups \in Nat /\ versions \in Nat /\ g \in Nat /\ v \in Nat
      /\ v = 0 \/ v = versions + 1
  BY DEF TypeOK, Versions, Groups, NextState
<1>4. \A s \in Sessions : \A r \in rows[s] :
        /\ r.id \in Nat /\ r.group \in Nat /\ r.state \in Nat
        /\ r.id <= ids /\ r.group <= groups /\ r.state <= versions
  <2>1. \A s \in Sessions : \A r \in rows[s] : r \in Row
    BY DEF TypeOK
  <2>2. \A r \in Row : r.id \in Nat /\ r.group \in Nat /\ r.state \in Nat
    BY DEF Row, Groups, Versions
  <2> QED
    BY <2>1, <2>2 DEF RowsInv, CountsInv
<1> HIDE DEF new
<1>5. CountsInv'
  <2> SUFFICES ASSUME NEW s \in Sessions, NEW r \in rows'[s]
               PROVE  r.group <= groups' /\ r.id <= ids' /\ r.state <= versions'
    BY DEF CountsInv
  <2>1. CASE r = new
    BY <1>1, <1>3, <2>1
  <2>2. CASE r \in rows[s]
    BY <1>1, <1>3, <1>4, <2>2
  <2> QED
    BY <1>2, <2>1, <2>2
<1>6. OrderInv'
  <2> SUFFICES ASSUME NEW s \in Sessions, NEW q \in rows'[s], NEW r \in rows'[s]
               PROVE  /\ q.id = r.id => q = r
                      /\ q.id < r.id => q.group <= r.group /\ (r.state # 0 => q.state <= r.state)
    BY DEF OrderInv
  <2>1. CASE q \in rows[s] /\ r \in rows[s]
    BY <2>1 DEF RowsInv, OrderInv
  <2>2. CASE q \in rows[s] /\ r = new
    BY <1>3, <1>4, <2>2
  <2>3. CASE q = new
    <3>1. CASE r \in rows[s]
      BY <1>3, <1>4, <2>3, <3>1
    <3>2. CASE r = new
      BY <1>3, <2>3, <3>2
    <3> QED
      BY <1>2, <3>1, <3>2
  <2> QED
    BY <1>2, <2>1, <2>2, <2>3
<1>7. CopiesAgree'
  <2>1. ASSUME NEW s \in Sessions \ {current}
        PROVE  /\ GroupsOf(s)' = GroupsOf(s)
               /\ \A h : Part(s, h)' = Part(s, h)
    BY <1>2 DEF GroupsOf, Part
  <2>2. \A h : h # g => (h \in GroupsOf(current)' => h \in GroupsOf(current))
    BY <1>2, <1>3 DEF GroupsOf
  <2>3. \A h : h # g => Part(current, h)' = Part(current, h)
    BY <1>2, <1>3 DEF Part
  <2> SUFFICES ASSUME NEW s \in Sessions, NEW t \in Sessions,
                      NEW h \in GroupsOf(s)' \cap GroupsOf(t)'
               PROVE  Part(s, h)' = Part(t, h)'
    BY DEF CopiesAgree
  <2>4. CASE h = g
    <3>1. s = current /\ t = current
      BY <2>1, <2>4
    <3> QED
      BY <3>1
  <2>5. CASE h # g
    <3>1. h \in GroupsOf(s) \cap GroupsOf(t)
      BY <2>1, <2>2, <2>5
    <3>2. Part(s, h) = Part(t, h)
      BY <3>1 DEF RowsInv, CopiesAgree
    <3> QED
      BY <2>1, <2>3, <2>5, <3>2
  <2> QED
    BY <2>4, <2>5
<1>8. TurnIsPrivate'
  BY <1>2 DEF TurnIsPrivate, GroupsOf
<1>9. ProcessInv' /\ NoOrphans'
  BY <1>1, <1>2 DEF RowsInv, ProcessInv, NoOrphans
<1> QED
  BY <1>5, <1>6, <1>7, <1>8, <1>9 DEF RowsInv

\* A clone starts with the rows of its origin and with no others.
LEMMA CloneStep ==
    ASSUME TypeOK, RowsInv, NEW t \in Sessions, CloneSession(t)
    PROVE  RowsInv'
<1>1. CASE ~CanClone(current, t)
  BY <1>1, QuietStep DEF CloneSession, Ready, InputTaken, db, RowsInv, ProcessInv
<1>2. CASE CanClone(current, t)
  <2>1. rows[t] = {} /\ t \notin usage /\ current \in known /\ current \in Sessions
    BY <1>2 DEF CanClone, RowsInv, NoOrphans, TypeOK
  <2>2. /\ rows'[t] = rows[current]
        /\ \A s \in Sessions \ {t} : rows'[s] = rows[s]
    BY <1>2, <2>1 DEF CloneSession, Copies, TypeOK
  <2>3. CountsInv' /\ OrderInv'
    BY <1>2, <2>1, <2>2 DEF CloneSession, counts, RowsInv, CountsInv, OrderInv
  <2>4. ProcessInv' /\ TurnIsPrivate'
    BY <1>2 DEF CloneSession, Ready, InputTaken, RowsInv, ProcessInv, TurnIsPrivate, counts
  <2>5. NoOrphans'
    BY <1>2, <2>1, <2>2 DEF CloneSession, RowsInv, NoOrphans
  <2>6. CopiesAgree'
    <3>1. /\ GroupsOf(t)' = GroupsOf(current)
          /\ \A h : Part(t, h)' = Part(current, h)
          /\ \A s \in Sessions \ {t} :
               GroupsOf(s)' = GroupsOf(s) /\ \A h : Part(s, h)' = Part(s, h)
      BY <2>2 DEF GroupsOf, Part
    <3> QED
      BY <2>1, <3>1 DEF CopiesAgree, RowsInv
  <2> QED
    BY <2>3, <2>4, <2>5, <2>6 DEF RowsInv
<1> QED
  BY <1>1, <1>2

\* Every step keeps the part of the invariant that is about rows.
LEMMA RowsStep ==
    ASSUME IInv, TypeOK', Next
    PROVE  RowsInv'
<1>1. TypeOK /\ RowsInv /\ TodoInv
  BY DEF IInv, AnchorInv
<1> USE DEF db
<1>2. ASSUME NEW s \in Sessions, NEW m \in {"interactive", "batch"}, Start(s, m)
      PROVE  RowsInv'
  BY <1>1, <1>2, QuietStep DEF Start, RowsInv, ProcessInv
<1>3. CASE Stop
  BY <1>1, <1>3, QuietStep DEF Stop
<1>4. ASSUME todo # <<>>, UNCHANGED <<mode, current, turn, counts>>
      PROVE  mode' # "off" /\ turn' = turn /\ current' = current
  BY <1>1, <1>4 DEF RowsInv, ProcessInv
<1>5. CASE SetSessionState
  BY <1>1, <1>4, <1>5, QuietStep DEF SetSessionState, SaveAnchor, Register, Step
<1>6. CASE RebuildNext
  BY <1>1, <1>4, <1>6, QuietStep DEF RebuildNext, SaveAnchor, Register, Step
<1>7. CASE RebuildDone
  BY <1>1, <1>4, <1>7, QuietStep DEF RebuildDone, Step
<1>8. CASE DeleteMessages
  <2> DEFINE d == Head(todo).session
  <2>1. /\ \A s \in Sessions : rows'[s] = IF s = d THEN {} ELSE rows[s]
        /\ UNCHANGED <<usage, known, mode, current, turn, counts>> /\ mode' # "off"
    BY <1>1, <1>4, <1>8 DEF DeleteMessages, Step, TypeOK
  <2> HIDE DEF d
  <2>2. ProcessInv' /\ CountsInv' /\ OrderInv' /\ NoOrphans'
    BY <1>1, <2>1 DEF RowsInv, ProcessInv, CountsInv, OrderInv, NoOrphans, counts
  <2>3. \A s \in Sessions :
          IF s = d THEN GroupsOf(s)' = {}
          ELSE GroupsOf(s)' = GroupsOf(s) /\ \A h : Part(s, h)' = Part(s, h)
    BY <2>1 DEF GroupsOf, Part
  <2>4. TurnIsPrivate' /\ CopiesAgree'
    BY <1>1, <2>1, <2>3 DEF RowsInv, TurnIsPrivate, CopiesAgree
  <2> QED
    BY <2>2, <2>4 DEF RowsInv
<1>9. CASE DeleteUsage
  BY <1>1, <1>4, <1>9, QuietStep DEF DeleteUsage, Step
<1>10. CASE DeleteSessionRow
  <2>1. /\ Head(todo) = todo[1] /\ Len(todo) > 0 /\ todo[1].op = "sessions"
        /\ todo[1] \in Write /\ todo # <<>>
    BY <1>1, <1>10, StepEnds DEF DeleteSessionRow, Step
  <2>2. rows[todo[1].session] = {} /\ todo[1].session \notin usage
    <3>1. 1 \in 1 .. Len(todo)
      BY <1>1, <2>1 DEF TypeOK
    <3> QED
      BY <1>1, <2>1, <3>1, NothingBefore DEF TodoInv, WriteInv
  <2>3. /\ UNCHANGED <<rows, usage, mode, current, turn, counts>>
        /\ known' = known \ {todo[1].session} /\ mode' # "off"
    BY <1>4, <1>10, <2>1 DEF DeleteSessionRow, Step
  <2>4. NoOrphans'
    BY <1>1, <2>2, <2>3 DEF RowsInv, NoOrphans
  <2>5. ProcessInv' /\ CountsInv' /\ OrderInv'
    BY <1>1, <2>3 DEF RowsInv, ProcessInv, CountsInv, OrderInv, counts
  <2>6. \A s : GroupsOf(s)' = GroupsOf(s) /\ \A g : Part(s, g)' = Part(s, g)
    BY <2>3 DEF GroupsOf, Part
  <2>7. TurnIsPrivate' /\ CopiesAgree'
    BY <1>1, <2>3, <2>6 DEF RowsInv, TurnIsPrivate, CopiesAgree
  <2> QED
    BY <2>4, <2>5, <2>7 DEF RowsInv
<1>11. CASE DeleteState
  BY <1>1, <1>4, <1>11, QuietStep DEF DeleteState, Step
<1>12. CASE StartTurn
  <2>1. groups' = groups + 1 /\ turn' = groups' /\ groups \in Nat /\ groups < MaxGroups
    BY <1>1, <1>12 DEF StartTurn, NewGroup, TypeOK
  <2>2. \A s \in Sessions : turn' \notin GroupsOf(s)
    BY <1>1, <2>1 DEF GroupsOf, RowsInv, CountsInv, TypeOK, Row, Groups
  <2>3. turn' \in Groups /\ 0 \in NextState /\ AppendMessage(turn', "user", 0)
    BY <1>12, <2>1 DEF StartTurn, Groups, NextState
  <2>4. UNCHANGED <<usage, current, versions>> /\ mode' # "off"
    BY <1>12 DEF StartTurn, Ready, InputTaken
  <2> QED
    BY <1>1, <2>1, <2>2, <2>3, <2>4, AppendStep
<1>13. ASSUME Free, turn # 0, UNCHANGED <<turn, groups, mode, current, usage>>,
              NEW k, NEW v \in NextState, AppendMessage(turn, k, v),
              versions' = IF v = 0 THEN versions ELSE v
       PROVE  RowsInv'
  <2>1. turn \in Groups /\ turn = groups /\ groups <= turn /\ mode # "off"
    BY <1>1, <1>13 DEF TypeOK, RowsInv, ProcessInv, Free
  <2>2. \A s \in Sessions \ {current} : turn \notin GroupsOf(s)
    BY <1>1, <1>13 DEF RowsInv, TurnIsPrivate
  <2> QED
    BY <1>1, <1>13, <2>1, <2>2, AppendStep
<1>14. ASSUME NEW v \in NextState, AppendText(v) PROVE RowsInv'
  BY <1>13, <1>14 DEF AppendText
<1>15. ASSUME NEW v \in NextState, AppendToolRow(v) PROVE RowsInv'
  BY <1>13, <1>15 DEF AppendToolRow
<1>16. CASE RecordUsage
  BY <1>1, <1>16, QuietStep DEF RecordUsage, Register, Free
<1>17. CASE EndTurn
  BY <1>1, <1>17, QuietStep DEF EndTurn, Free
<1>18. CASE Undo
  <2>1. CASE rows[current] = {}
    BY <1>1, <1>18, <2>1, QuietStep DEF Undo, Ready, InputTaken
  <2>2. CASE rows[current] # {}
    BY <1>1, <1>18, <2>2, WithoutStep DEF Undo, Ready, InputTaken
  <2> QED
    BY <2>1, <2>2
<1>19. ASSUME NEW g \in 1 .. groups, RemoveGroup(g) PROVE RowsInv'
  BY <1>1, <1>19, WithoutStep DEF RemoveGroup, Ready, InputTaken
<1>20. ASSUME NEW n \in Windows, SetContextWindow(n) PROVE RowsInv'
  BY <1>1, <1>20, QuietStep DEF SetContextWindow, Ready, InputTaken, Register
<1>21. CASE Rebuild
  BY <1>1, <1>21, QuietStep DEF Rebuild, Ready, InputTaken
<1>22. ASSUME NEW s \in Sessions, SwitchSession(s) PROVE RowsInv'
  BY <1>1, <1>22, QuietStep DEF SwitchSession, Ready, InputTaken
<1>23. ASSUME NEW s \in Sessions, RemoveSession(s) PROVE RowsInv'
  BY <1>1, <1>23, QuietStep DEF RemoveSession, Ready, InputTaken
<1>24. CASE ClearSession
  BY <1>1, <1>24, QuietStep DEF ClearSession, Ready, InputTaken
<1>25. ASSUME NEW t \in Sessions, CloneSession(t) PROVE RowsInv'
  BY <1>1, <1>25, CloneStep
<1> QED
  BY <1>2, <1>3, <1>5, <1>6, <1>7, <1>8, <1>9, <1>10, <1>11, <1>12, <1>14, <1>15,
     <1>16, <1>17, <1>18, <1>19, <1>20, <1>21, <1>22, <1>23, <1>24, <1>25 DEF Next
-----------------------------------------------------------------------------
\* What the window leaves out is older than what it shows.
LEMMA HistoryIsNewest ==
    ASSUME TypeOK, RowsInv, NEW s \in Sessions,
           NEW q \in rows[s] \ History(s), NEW x \in History(s)
    PROVE  q.id < x.id
<1> DEFINE Ahead(g) == {h \in GroupsOf(s) : Later(s, h, g)}
<1>1. x \in rows[s] /\ q \in Row /\ x \in Row
  BY DEF History, TypeOK
<1>2. q.id \in Nat /\ x.id \in Nat /\ q.group \in Nat /\ x.group \in Nat
  BY <1>1 DEF Row, Groups
<1>3. window[s] > 0 /\ q.group \notin NewestGroups(s, window[s])
      /\ x.group \in NewestGroups(s, window[s])
  BY DEF History
<1>4. q.group < x.group
  <2> SUFFICES ASSUME x.group <= q.group PROVE FALSE
    BY <1>2
  <2>1. \A r \in rows[s] : r \in Row
    BY DEF TypeOK
  <2>2. Ahead(q.group) \subseteq Ahead(x.group)
    <3> SUFFICES ASSUME NEW h \in GroupsOf(s), Later(s, h, q.group) PROVE Later(s, h, x.group)
      OBVIOUS
    <3>1. PICK y \in Part(s, q.group) : \A r \in Part(s, h) : y.id < r.id
      BY DEF Later
    <3>2. x \in Part(s, x.group) /\ y \in rows[s] /\ y.group = q.group
      BY <1>1, <3>1 DEF Part
    <3>3. CASE x.group = q.group
      BY <3>3
    <3>4. CASE x.group < q.group
      <4>1. ~(y.id < x.id)
        BY <1>1, <1>2, <3>2, <3>4 DEF RowsInv, OrderInv
      <4>2. y.id \in Nat
        BY <2>1, <3>2 DEF Row
      <4>3. \A r \in Part(s, h) : x.id < r.id
        BY <1>2, <2>1, <3>1, <4>1, <4>2 DEF Part, Row
      <4> QED
        BY <3>2, <4>3 DEF Later
    <3> QED
      BY <1>2, <3>3, <3>4
  <2>3. GroupsOf(s) \subseteq 1 .. MaxGroups
    BY <2>1 DEF GroupsOf, Row, Groups
  <2>4. IsFiniteSet(Ahead(x.group))
    <3>1. IsFiniteSet(1 .. MaxGroups)
      BY FS_Interval
    <3> QED
      BY <2>3, <3>1, FS_Subset
  <2>5. Cardinality(Ahead(q.group)) <= Cardinality(Ahead(x.group))
        /\ Cardinality(Ahead(q.group)) \in Nat /\ Cardinality(Ahead(x.group)) \in Nat
    BY <2>2, <2>4, FS_Subset, FS_CardinalityType
  <2>6. Cardinality(Ahead(x.group)) < window[s]
    BY <1>3 DEF NewestGroups
  <2>7. q.group \in GroupsOf(s)
    BY DEF GroupsOf
  <2>8. ~(Cardinality(Ahead(q.group)) < window[s])
    BY <1>3, <2>7 DEF NewestGroups
  <2>9. window[s] \in Nat
    <3>1. window[s] \in Windows \cup {DefaultWindow}
      BY DEF TypeOK
    <3>2. Windows \subseteq Nat /\ DefaultWindow \in Nat
      BY DEF DefaultWindow
    <3> QED
      BY <3>1, <3>2
  <2> QED
    BY <2>5, <2>6, <2>8, <2>9
<1>5. ~(x.id < q.id) /\ x.id # q.id
  BY <1>1, <1>2, <1>4 DEF RowsInv, OrderInv
<1> QED
  BY <1>2, <1>5

-----------------------------------------------------------------------------
\* What a handler starts with is in order.
LEMMA NewTodo ==
    ASSUME NEW s \in Sessions,
           todo' \in {<<>>, Rebuilding(s), DeleteSession(s), DeleteSession(s) \o Rebuilding(s)}
    PROVE  TodoInv'
<1>1. CASE todo' = <<>>
  BY <1>1 DEF TodoInv
<1>2. CASE todo' = Rebuilding(s)
  <2>1. Len(todo') = 1 /\ todo'[1] = Do("rebuild", s, 0)
    BY <1>2, RebuildingFacts
  <2>2. WriteInv(1, Do("rebuild", s, 0))'
    BY <2>1 DEF WriteInv, Do
  <2> QED
    BY <2>1, <2>2 DEF TodoInv
<1>3. ASSUME \A i \in 1 .. 4 : todo'[i] = DeleteSession(s)[i],
             Len(todo') = 4 \/ (Len(todo') = 5 /\ todo'[5] = Do("rebuild", s, 0))
      PROVE  TodoInv'
  <2>1. /\ todo'[1] = Do("messages", s, 0) /\ todo'[2] = Do("usage", s, 0)
        /\ todo'[3] = Do("sessions", s, 0) /\ todo'[4] = Do("session_state", s, 0)
    BY <1>3, DeleteSessionFacts
  <2>2. /\ DoneBefore(3, "messages", s)' /\ DoneBefore(3, "usage", s)'
        /\ DoneBefore(4, "messages", s)'
    BY <2>1 DEF DoneBefore, Do
  <2>3. /\ WriteInv(1, todo[1])' /\ WriteInv(2, todo[2])'
        /\ WriteInv(3, todo[3])' /\ WriteInv(4, todo[4])'
    BY <2>1, <2>2 DEF WriteInv, Do
  <2>4. Len(todo') = 5 => WriteInv(5, todo[5])'
    BY <1>3 DEF WriteInv, Do
  <2> QED
    BY <1>3, <2>3, <2>4 DEF TodoInv
<1>4. CASE todo' = DeleteSession(s)
  BY <1>3, <1>4, DeleteSessionFacts
<1>5. CASE todo' = DeleteSession(s) \o Rebuilding(s)
  BY <1>3, <1>5, ClearSessionFacts
<1> QED
  BY <1>1, <1>2, <1>4, <1>5

\* What is left after a write relies on no more than that write has done.
LEMMA TailTodo ==
    ASSUME TypeOK, TodoInv, NEW op, Step(op, <<>>),
           \A s \in Sessions : rows'[s] \subseteq rows[s], usage' \subseteq usage,
           op = "messages" => rows'[todo[1].session] = {},
           op = "usage" => todo[1].session \notin usage'
    PROVE  TodoInv'
<1> SUFFICES ASSUME NEW i \in 1 .. Len(todo') PROVE WriteInv(i, todo[i])'
  BY DEF TodoInv
<1> DEFINE w == todo[i + 1]
<1>1. /\ Len(todo) \in Nat /\ Len(todo') = Len(todo) - 1 /\ todo[1].op = op
      /\ \A j \in 1 .. Len(todo') : todo'[j] = todo[j + 1]
  BY StepEnds DEF TypeOK
<1>2. i + 1 \in 1 .. Len(todo) /\ todo'[i] = w /\ i + 1 # 1
  BY <1>1
<1>3. w \in Write
  BY <1>2 DEF TypeOK
<1>4. ASSUME NEW o, DoneBefore(i + 1, o, w.session), op # o \/ todo[1].session # w.session
      PROVE  DoneBefore(i, o, todo[i].session)'
  <2>1. PICK j \in 1 .. i : todo[j].op = o /\ todo[j].session = w.session
    BY <1>4 DEF DoneBefore
  <2>2. j # 1
    BY <1>1, <1>4, <2>1
  <2>3. j - 1 \in 1 .. i - 1 /\ todo'[j - 1] = todo[j]
    BY <1>1, <1>2, <2>1, <2>2
  <2>4. \E l \in 1 .. i - 1 : todo'[l].op = o /\ todo'[l].session = todo'[i].session
    BY <1>2, <2>1, <2>3
  <2> QED
    BY <2>4 DEF DoneBefore
<1>5. w.op \in {"sessions", "session_state"} =>
        rows'[w.session] = {} \/ DoneBefore(i, "messages", todo[i].session)'
  BY <1>2, <1>3, <1>4 DEF TodoInv, WriteInv, Write
<1>6. w.op = "sessions" => w.session \notin usage' \/ DoneBefore(i, "usage", todo[i].session)'
  BY <1>2, <1>3, <1>4 DEF TodoInv, WriteInv, Write
<1>7. (w.op \in {"anchor", "rebuild"} => i = Len(todo')) /\ w.op # "anchor" /\ w.arg = 0
  BY <1>1, <1>2 DEF TodoInv, WriteInv
<1> QED
  BY <1>2, <1>5, <1>6, <1>7 DEF WriteInv
-----------------------------------------------------------------------------
\* A command: it starts at the prompt and finds, or makes, nothing behind.
LEMMA CommandStarts ==
    ASSUME LagInv, todo = <<>>, torn' = torn, NEW s \in Sessions,
           \A t \in Sessions : Lagging(t)' \subseteq Lagging(t),
           todo' \in {<<>>, Rebuilding(s), DeleteSession(s), DeleteSession(s) \o Rebuilding(s)}
    PROVE  AnchorInv'
<1>1. TodoInv'
  BY NewTodo
<1>2. LagInv'
  BY DEF LagInv
<1> QED
  BY <1>1, <1>2 DEF AnchorInv

\* A write of DeleteSession.
LEMMA DeleteStep ==
    ASSUME TypeOK, AnchorInv, NEW op \in Writes \ {"anchor", "rebuild"}, Step(op, <<>>),
           \A s \in Sessions : rows'[s] \subseteq rows[s], usage' \subseteq usage,
           op = "messages" => rows'[todo[1].session] = {},
           op = "usage" => todo[1].session \notin usage',
           \A s \in Sessions : Lagging(s) = {} => Lagging(s)' = {},
           torn' = torn
    PROVE  AnchorInv'
<1>1. TodoInv'
  BY TailTodo DEF AnchorInv
<1>2. todo[1].arg = 0
  <2>1. Len(todo) > 0 /\ todo[1].op = op /\ Len(todo) \in Nat
    BY StepEnds DEF TypeOK
  <2> QED
    BY <2>1 DEF AnchorInv, TodoInv, WriteInv
<1>3. LagInv'
  BY <1>2 DEF AnchorInv, LagInv
<1> QED
  BY <1>1, <1>3 DEF AnchorInv

\* The last state a rebuild finds is not older than any text of the session.
LEMMA RebuildCatchesUp ==
    ASSUME TypeOK, RowsInv, NEW s \in Sessions, NEW x \in History(s),
           x.state = anchor[s], x.state # 0, Unseen(s, x.id) = {}
    PROVE  Lagging(s) = {}
<1> SUFFICES ASSUME NEW q \in Lagging(s) PROVE FALSE
  OBVIOUS
<1>1. x \in rows[s] /\ q \in rows[s] /\ q.state > anchor[s]
  BY DEF History, Lagging
<1>2. /\ x \in Row /\ q \in Row /\ x.id \in Nat /\ q.id \in Nat
      /\ x.state \in Nat /\ q.state \in Nat
  BY <1>1 DEF TypeOK, Row, Versions
<1>3. ~(q.id < x.id) /\ q.id # x.id
  BY <1>1, <1>2 DEF RowsInv, OrderInv
<1>4. x.id < q.id /\ q.state # 0
  BY <1>1, <1>2, <1>3
<1>5. q \notin History(s)
  BY <1>4 DEF Unseen
<1>6. q.id < x.id
  BY <1>1, <1>5, HistoryIsNewest
<1> QED
  BY <1>2, <1>3, <1>6

\* A rebuild that has seen no state yet, and finds none.
LEMMA RebuildFindsNothing ==
    ASSUME TypeOK, NEW s \in Sessions, Lagging(s) \subseteq History(s), Unseen(s, 0) = {}
    PROVE  Lagging(s) = {}
<1> SUFFICES ASSUME NEW q \in Lagging(s) PROVE FALSE
  OBVIOUS
<1>1. q \in Row /\ anchor[s] \in Nat /\ q.state > anchor[s]
  BY DEF Lagging, TypeOK, Versions
<1>2. q.state # 0 /\ q.id > 0
  BY <1>1 DEF Row, Versions
<1> QED
  BY <1>2 DEF Unseen

LEMMA SetSessionStateStep ==
    ASSUME TypeOK, RowsInv, AnchorInv, SetSessionState
    PROVE  AnchorInv'
<1> DEFINE w == todo[1]
<1>1. /\ Head(todo) = w /\ w \in Write /\ w.op = "anchor" /\ Len(todo) > 0
      /\ Len(todo') = Len(todo) - 1 /\ Len(todo) \in Nat
  BY StepEnds DEF SetSessionState, TypeOK
<1>2. Len(todo) = 1 /\ w.arg = versions /\ w.session \in Sessions
  BY <1>1 DEF AnchorInv, TodoInv, WriteInv, Write
<1>3. TodoInv'
  BY <1>1, <1>2 DEF TodoInv
<1>4. PICK d \in Sessions : d = w.session
  BY <1>2
<1>5. rows' = rows /\ torn' = torn /\ anchor' = [anchor EXCEPT ![d] = versions]
  BY <1>1, <1>2, <1>4 DEF SetSessionState, SaveAnchor
<1>6. Lagging(d)' = {}
  <2>1. \A r \in rows[d] : r.state <= versions /\ r.state \in Nat
    BY DEF RowsInv, CountsInv, TypeOK, Row, Versions
  <2>2. anchor'[d] = versions /\ versions \in Nat
    BY <1>5 DEF TypeOK, Versions
  <2> QED
    BY <1>5, <2>1, <2>2 DEF Lagging
<1>7. \A s \in Sessions \ {d} : Lagging(s)' = Lagging(s)
  BY <1>5 DEF Lagging, TypeOK
<1>8. LagInv'
  BY <1>4, <1>5, <1>6, <1>7 DEF AnchorInv, LagInv
<1> QED
  BY <1>3, <1>8 DEF AnchorInv

LEMMA RebuildNextStep ==
    ASSUME TypeOK, RowsInv, AnchorInv, RebuildNext
    PROVE  AnchorInv'
<1> DEFINE w == Head(todo)
<1>1. PICK r \in Unseen(w.session, w.arg) :
         /\ Step("rebuild", <<Do("rebuild", w.session, r.id)>>)
         /\ SaveAnchor(w.session, r.state)
  BY DEF RebuildNext
<1>2. w \in Write /\ w = todo[1] /\ todo # <<>> /\ 1 \in 1 .. Len(todo)
  BY DEF RebuildNext, TypeOK
<1>3. PICK d \in Sessions : d = w.session
  BY <1>2 DEF Write
<1>4. r \in History(d) /\ r.state # 0 /\ r \in Row
  BY <1>1, <1>3 DEF Unseen, History, TypeOK
<1>5. Do("rebuild", d, r.id) \in Write /\ r.id # 0
  BY <1>4 DEF Do, Write, Writes, Row
<1>6. /\ Len(todo') = Len(todo) /\ todo'[1] = Do("rebuild", d, r.id) /\ todo[1].op = "rebuild"
      /\ todo' # <<>>
  BY <1>1, <1>3, <1>5, StepGoesOn
<1>7. Len(todo) = 1
  BY <1>2, <1>6 DEF AnchorInv, TodoInv, WriteInv
<1>8. rows' = rows /\ window' = window /\ anchor' = [anchor EXCEPT ![d] = r.state]
      /\ UNCHANGED <<usage, versions>>
  BY <1>1, <1>3 DEF SaveAnchor, Step, counts
<1>9. TodoInv'
  <2>1. r \in History(d)' /\ r.state = anchor'[d]
    BY <1>4, <1>8 DEF History, NewestGroups, GroupsOf, Later, Part, TypeOK
  <2>2. WriteInv(1, todo[1])'
    BY <1>4, <1>6, <1>7, <2>1 DEF WriteInv, Do
  <2> QED
    BY <1>6, <1>7, <2>2 DEF TodoInv
<1>10. LagInv'
  <2> SUFFICES ASSUME NEW s \in Sessions \ torn', s # d PROVE Lagging(s)' = {}
    BY <1>5, <1>6 DEF LagInv, Do
  <2>1. torn \ {d} \subseteq torn'
    BY <1>3 DEF RebuildNext, Repaired
  <2>2. Lagging(s)' = Lagging(s)
    BY <1>8 DEF Lagging, TypeOK
  <2> QED
    BY <1>2, <1>3, <2>1, <2>2 DEF AnchorInv, LagInv
<1> QED
  BY <1>9, <1>10 DEF AnchorInv

LEMMA RebuildDoneStep ==
    ASSUME TypeOK, RowsInv, AnchorInv, RebuildDone
    PROVE  AnchorInv'
<1> DEFINE w == Head(todo)
<1>1. /\ Len(todo) > 0 /\ Len(todo') = Len(todo) - 1 /\ w = todo[1] /\ w \in Write
      /\ w.op = "rebuild" /\ Len(todo) \in Nat /\ 1 \in 1 .. Len(todo)
  BY StepEnds DEF RebuildDone, TypeOK
<1>2. Len(todo) = 1 /\ WriteInv(1, w)
  BY <1>1 DEF AnchorInv, TodoInv, WriteInv
<1>3. TodoInv'
  BY <1>1, <1>2 DEF TodoInv
<1>4. UNCHANGED <<rows, window, anchor>> /\ torn' = Repaired(w) /\ Unseen(w.session, w.arg) = {}
  BY DEF RebuildDone, db
<1>5. PICK d \in Sessions : d = w.session
  BY <1>1 DEF Write
<1>6. d \notin torn' => Lagging(d) = {}
  <2>1. CASE w.arg # 0
    <3>1. PICK x \in History(d) : x.id = w.arg /\ x.state = anchor[d] /\ x.state # 0
      BY <1>1, <1>2, <1>5, <2>1 DEF WriteInv
    <3> QED
      BY <1>4, <1>5, <3>1, RebuildCatchesUp
  <2>2. CASE w.arg = 0
    <3>1. Unseen(d, 0) = {}
      BY <1>4, <1>5, <2>2
    <3>2. d \notin torn' => Lagging(d) = {} \/ Lagging(d) \subseteq History(d)
      BY <1>1, <1>4, <1>5, <2>2 DEF Repaired, AnchorInv, LagInv
    <3> QED
      BY <3>1, <3>2, RebuildFindsNothing
  <2> QED
    BY <2>1, <2>2
<1>7. \A s \in Sessions : Lagging(s)' = Lagging(s)
  BY <1>4 DEF Lagging
<1>8. \A s \in Sessions \ {d} : s \notin torn' => Lagging(s) = {}
  BY <1>1, <1>4, <1>5 DEF Repaired, AnchorInv, LagInv
<1>9. LagInv'
  BY <1>6, <1>7, <1>8 DEF LagInv
<1> QED
  BY <1>3, <1>9 DEF AnchorInv
\* A turn appends a row; only a text with a state is ahead of its anchor.
LEMMA AppendLag ==
    ASSUME TypeOK, AnchorInv, todo = <<>>, NEW g, NEW k, NEW v \in Versions,
           AppendMessage(g, k, v), UNCHANGED <<anchor, torn>>
    PROVE  \A s \in Sessions \ torn' :
             Lagging(s)' = {} \/ (s = current /\ k = "text" /\ v # 0)
<1> SUFFICES ASSUME NEW s \in Sessions \ torn, ~(s = current /\ k = "text" /\ v # 0),
                    NEW r \in Lagging(s)'
             PROVE  FALSE
  OBVIOUS
<1>1. Lagging(s) = {}
  BY DEF AnchorInv, LagInv
<1>2. r \in rows'[s] /\ r.kind = "text" /\ r.state > anchor[s]
  BY DEF Lagging
<1>3. r \notin rows[s]
  BY <1>1, <1>2 DEF Lagging
<1>4. s = current /\ r.kind = k /\ r.state = v
  BY <1>2, <1>3 DEF AppendMessage, TypeOK
<1>5. v = 0
  BY <1>2, <1>4
<1>6. anchor[s] \in Nat
  BY DEF TypeOK, Versions
<1> QED
  BY <1>2, <1>4, <1>5, <1>6

LEMMA AppendTextStep ==
    ASSUME TypeOK, AnchorInv, NEW v \in NextState, AppendText(v)
    PROVE  AnchorInv'
<1>1. v \in Versions /\ todo = <<>> /\ current \in Sessions
  BY DEF AppendText, Free, NextState, Versions, TypeOK
<1>2. \A s \in Sessions \ torn' : Lagging(s)' = {} \/ (s = current /\ v # 0)
  BY <1>1, AppendLag DEF AppendText
<1>3. CASE v = 0
  <2>1. todo' = <<>> /\ TodoInv'
    BY <1>1, <1>3, NewTodo DEF AppendText
  <2> QED
    BY <1>2, <1>3, <2>1 DEF AnchorInv, LagInv
<1>4. CASE v # 0
  <2>1. /\ Len(todo') = 1 /\ todo'[1] = Do("anchor", current, v) /\ todo' # <<>>
        /\ versions' = v
    BY <1>4 DEF AppendText
  <2>2. WriteInv(1, todo[1])'
    BY <1>4, <2>1 DEF WriteInv, Do
  <2>3. TodoInv'
    BY <2>1, <2>2 DEF TodoInv
  <2>4. LagInv'
    BY <1>2, <1>4, <2>1 DEF LagInv, Do
  <2> QED
    BY <2>3, <2>4 DEF AnchorInv
<1> QED
  BY <1>3, <1>4

LEMMA CloneAnchor ==
    ASSUME TypeOK, RowsInv, AnchorInv, NEW t \in Sessions, CloneSession(t)
    PROVE  AnchorInv'
<1>1. todo = <<>> /\ current \in Sessions
  BY DEF CloneSession, Ready, TypeOK
<1>2. CASE ~CanClone(current, t)
  <2>1. \A s \in Sessions : Lagging(s)' = Lagging(s)
    BY <1>2 DEF CloneSession, db, Lagging
  <2> QED
    BY <1>1, <1>2, <2>1, CommandStarts DEF CloneSession, AnchorInv
<1>3. CASE CanClone(current, t)
  <2>1. todo' = Rebuilding(t) /\ TodoInv'
    BY <1>3, NewTodo DEF CloneSession
  <2>2. rows[t] = {} /\ t # current
    BY <1>3 DEF CanClone, RowsInv, NoOrphans
  <2>3. /\ rows'[t] = rows[current] /\ torn \subseteq torn'
        /\ current \in torn => t \in torn'
    BY <1>3, <2>2 DEF CloneSession, Copies, TypeOK
  <2>4. anchor[current] <= anchor'[t] /\ anchor[current] \in Nat /\ anchor'[t] \in Nat
    BY <1>1, <1>3 DEF CloneSession, TypeOK, Versions
  <2>5. \A r \in rows[current] : r.state \in Nat
    BY <1>1 DEF TypeOK, Row, Versions
  <2>6. t \notin torn' => Lagging(t)' = {}
    <3> SUFFICES ASSUME t \notin torn', NEW r \in Lagging(t)' PROVE FALSE
      OBVIOUS
    <3>1. r \in rows[current] /\ r.kind = "text" /\ r.state > anchor'[t]
      BY <2>3 DEF Lagging
    <3>2. r \in Lagging(current)
      BY <2>4, <2>5, <3>1 DEF Lagging
    <3> QED
      BY <1>1, <2>3, <3>2 DEF AnchorInv, LagInv
  <2>7. \A s \in Sessions \ {t} : Lagging(s)' = Lagging(s)
    BY <1>3 DEF CloneSession, Lagging, TypeOK
  <2>8. LagInv'
    BY <1>1, <2>3, <2>6, <2>7 DEF AnchorInv, LagInv
  <2> QED
    BY <2>1, <2>8 DEF AnchorInv
<1> QED
  BY <1>2, <1>3

\* Every step keeps the part of the invariant that is about anchors.
LEMMA AnchorStep ==
    ASSUME IInv, TypeOK', Next
    PROVE  AnchorInv'
<1>1. TypeOK /\ RowsInv /\ AnchorInv /\ LagInv /\ current \in Sessions
  BY DEF IInv, AnchorInv, TypeOK
<1> USE DEF db
<1>2. ASSUME rows' = rows, anchor' = anchor
      PROVE  \A s \in Sessions : Lagging(s)' = Lagging(s)
  BY <1>2 DEF Lagging
<1>3. ASSUME NEW s \in Sessions, NEW m \in {"interactive", "batch"}, Start(s, m)
      PROVE  AnchorInv'
  <2>1. todo = <<>> /\ todo' \in {<<>>, Rebuilding(s)}
    BY <1>1, <1>3 DEF Start, BootWrites, RowsInv, ProcessInv
  <2> QED
    BY <1>1, <1>2, <1>3, <2>1, CommandStarts DEF Start
<1>4. CASE Stop
  <2>1. TodoInv'
    BY <1>1, <1>4, NewTodo DEF Stop
  <2>2. ASSUME NEW s \in Sessions \ torn' PROVE Lagging(s) = {}
    <3>1. s \notin torn /\ ~(\E i \in DOMAIN todo : todo[i].session = s /\ todo[i].arg # 0)
      BY <1>4, <2>2 DEF Stop
    <3>2. todo # <<>> => 1 \in DOMAIN todo
      BY <1>1 DEF TypeOK
    <3> QED
      BY <1>1, <3>1, <3>2 DEF LagInv
  <2>3. LagInv'
    BY <1>2, <1>4, <2>2 DEF Stop, LagInv
  <2> QED
    BY <2>1, <2>3 DEF AnchorInv
<1>5. CASE SetSessionState
  BY <1>1, <1>5, SetSessionStateStep
<1>6. CASE RebuildNext
  BY <1>1, <1>6, RebuildNextStep
<1>7. CASE RebuildDone
  BY <1>1, <1>7, RebuildDoneStep
<1>8. ASSUME todo # <<>>, NEW op, Step(op, <<>>) PROVE Head(todo) = todo[1] /\ todo[1].op = op
  BY <1>1, <1>8, StepEnds
<1>9. CASE DeleteMessages
  <2>1. /\ Step("messages", <<>>) /\ Head(todo) = todo[1]
        /\ rows' = [rows EXCEPT ![todo[1].session] = {}]
        /\ UNCHANGED <<usage, anchor, torn>>
    BY <1>8, <1>9 DEF DeleteMessages, Step
  <2>2. /\ \A s \in Sessions : rows'[s] \subseteq rows[s]
        /\ rows'[todo[1].session] = {}
    <3>1. todo[1].session \in Sessions
      BY <1>1, <2>1, StepEnds DEF Write
    <3> QED
      BY <1>1, <2>1, <3>1 DEF TypeOK
  <2>3. \A s \in Sessions : Lagging(s) = {} => Lagging(s)' = {}
    BY <2>1, <2>2 DEF Lagging
  <2>4. "messages" \in Writes \ {"anchor", "rebuild"}
    BY DEF Writes
  <2> QED
    BY <1>1, <2>1, <2>2, <2>3, <2>4, DeleteStep
<1>10. CASE DeleteUsage
  <2>1. /\ Step("usage", <<>>) /\ Head(todo) = todo[1]
        /\ usage' = usage \ {todo[1].session} /\ UNCHANGED <<rows, anchor, torn>>
    BY <1>8, <1>10 DEF DeleteUsage, Step
  <2>2. "usage" \in Writes \ {"anchor", "rebuild"}
    BY DEF Writes
  <2> QED
    BY <1>1, <1>2, <2>1, <2>2, DeleteStep
<1>11. CASE DeleteSessionRow
  <2>1. Step("sessions", <<>>) /\ UNCHANGED <<rows, usage, anchor, torn>>
    BY <1>11 DEF DeleteSessionRow
  <2>2. "sessions" \in Writes \ {"anchor", "rebuild"}
    BY DEF Writes
  <2> QED
    BY <1>1, <1>2, <2>1, <2>2, DeleteStep
<1>12. CASE DeleteState
  <2>1. /\ Step("session_state", <<>>) /\ UNCHANGED <<rows, usage, torn>>
        /\ todo[1].op = "session_state" /\ 1 \in 1 .. Len(todo)
        /\ anchor' = [anchor EXCEPT ![todo[1].session] = 0]
    <3>1. Step("session_state", <<>>) /\ Len(todo) \in Nat
      BY <1>1, <1>12 DEF DeleteState, TypeOK
    <3>2. Len(todo) > 0 /\ Head(todo) = todo[1] /\ todo[1].op = "session_state"
      BY <1>1, <3>1, StepEnds
    <3>3. 1 \in 1 .. Len(todo)
      BY <3>1, <3>2
    <3>4. /\ UNCHANGED <<rows, usage, torn>>
          /\ anchor' = [anchor EXCEPT ![todo[1].session] = 0]
      BY <1>12, <3>2 DEF DeleteState
    <3> QED
      BY <3>1, <3>2, <3>3, <3>4
  <2>2. rows[todo[1].session] = {}
    BY <1>1, <2>1, NothingBefore DEF AnchorInv, TodoInv, WriteInv
  <2>3. \A s \in Sessions : Lagging(s) = {} => Lagging(s)' = {}
    BY <1>1, <2>1, <2>2 DEF Lagging, TypeOK
  <2>4. "session_state" \in Writes \ {"anchor", "rebuild"}
    BY DEF Writes
  <2> QED
    BY <1>1, <2>1, <2>3, <2>4, DeleteStep
<1>13. CASE StartTurn
  <2>1. /\ todo = <<>> /\ todo' = <<>> /\ UNCHANGED <<anchor, torn>> /\ 0 \in Versions
        /\ AppendMessage(turn', "user", 0)
    BY <1>13 DEF StartTurn, Ready, Versions
  <2>2. TodoInv'
    BY <1>1, <2>1, NewTodo
  <2>3. LagInv'
    BY <1>1, <2>1, AppendLag DEF LagInv
  <2> QED
    BY <2>2, <2>3 DEF AnchorInv
<1>14. ASSUME NEW v \in NextState, AppendText(v) PROVE AnchorInv'
  BY <1>1, <1>14, AppendTextStep
<1>15. ASSUME NEW v \in NextState, AppendToolRow(v) PROVE AnchorInv'
  <2>1. /\ todo = <<>> /\ todo' = <<>> /\ UNCHANGED <<anchor, torn>>
        /\ v \in Versions /\ AppendMessage(turn, "tool", v)
    BY <1>1, <1>15 DEF AppendToolRow, Free, NextState, Versions, TypeOK
  <2>2. TodoInv'
    BY <1>1, <2>1, NewTodo
  <2>3. LagInv'
    BY <1>1, <2>1, AppendLag DEF LagInv
  <2> QED
    BY <2>2, <2>3 DEF AnchorInv
<1>16. CASE RecordUsage
  BY <1>1, <1>2, <1>16, CommandStarts DEF RecordUsage, Free
<1>17. CASE EndTurn
  BY <1>1, <1>2, <1>17, CommandStarts DEF EndTurn, Free
<1>18. ASSUME NEW g, rows' = Without(g), UNCHANGED anchor
       PROVE  \A s \in Sessions : Lagging(s)' \subseteq Lagging(s)
  BY <1>18 DEF Without, Lagging
<1>19. CASE Undo
  <2>1. todo = <<>> /\ UNCHANGED <<anchor, torn>> /\ todo' \in {<<>>, Rebuilding(current)}
    BY <1>19 DEF Undo, Ready
  <2>2. \A s \in Sessions : Lagging(s)' \subseteq Lagging(s)
    BY <1>2, <1>18, <1>19 DEF Undo
  <2> QED
    BY <1>1, <2>1, <2>2, CommandStarts
<1>20. ASSUME NEW g \in 1 .. groups, RemoveGroup(g) PROVE AnchorInv'
  <2>1. \A s \in Sessions : Lagging(s)' \subseteq Lagging(s)
    BY <1>18, <1>20 DEF RemoveGroup
  <2> QED
    BY <1>1, <1>20, <2>1, CommandStarts DEF RemoveGroup, Ready
<1>21. ASSUME NEW n \in Windows, SetContextWindow(n) PROVE AnchorInv'
  BY <1>1, <1>2, <1>21, CommandStarts DEF SetContextWindow, Ready
<1>22. CASE Rebuild
  BY <1>1, <1>2, <1>22, CommandStarts DEF Rebuild, Ready
<1>23. ASSUME NEW s \in Sessions, SwitchSession(s) PROVE AnchorInv'
  BY <1>1, <1>2, <1>23, CommandStarts DEF SwitchSession, Ready
<1>24. ASSUME NEW s \in Sessions, RemoveSession(s) PROVE AnchorInv'
  BY <1>1, <1>2, <1>24, CommandStarts DEF RemoveSession, Ready
<1>25. CASE ClearSession
  BY <1>1, <1>2, <1>25, CommandStarts DEF ClearSession, Ready
<1>26. ASSUME NEW t \in Sessions, CloneSession(t) PROVE AnchorInv'
  BY <1>1, <1>26, CloneAnchor
<1> QED
  BY <1>3, <1>4, <1>5, <1>6, <1>7, <1>9, <1>10, <1>11, <1>12, <1>13, <1>14, <1>15,
     <1>16, <1>17, <1>19, <1>20, <1>21, <1>22, <1>23, <1>24, <1>25, <1>26 DEF Next
\* The invariant is inductive.
LEMMA InvStep == IInv /\ [Next]_vars => IInv'
<1> SUFFICES ASSUME IInv, [Next]_vars PROVE IInv'
  OBVIOUS
<1>1. TypeOK'
  BY TypeStep DEF IInv, AnchorInv
<1>2. CASE Next
  BY <1>1, <1>2, RowsStep, AnchorStep DEF IInv
<1>3. CASE UNCHANGED vars
  <2>1. RowsInv'
    BY <1>3, QuietStep DEF IInv, RowsInv, ProcessInv, vars, db, counts
  <2>2. \A s \in Sessions : Lagging(s)' = Lagging(s) /\ History(s)' = History(s)
    BY <1>3 DEF vars, db, Lagging, History, NewestGroups, GroupsOf, Later, Part
  <2>3. LagInv'
    BY <1>3, <2>2 DEF IInv, AnchorInv, LagInv, vars, db
  <2>4. TodoInv'
    <3>1. \A i, o, s : DoneBefore(i, o, s)' = DoneBefore(i, o, s)
      BY <1>3 DEF DoneBefore, vars
    <3>2. ASSUME NEW i \in 1 .. Len(todo) PROVE WriteInv(i, todo[i])'
      <4>1. todo[i] \in Write
        BY DEF IInv, TypeOK
      <4>2. todo[i].session \in Sessions
        BY <4>1 DEF Write
      <4>3. WriteInv(i, todo[i])
        BY DEF IInv, AnchorInv, TodoInv
      <4> QED
        BY <1>3, <2>2, <3>1, <4>2, <4>3 DEF WriteInv, vars, db, counts
    <3> QED
      BY <1>3, <3>2 DEF TodoInv, vars
  <2> QED
    BY <1>1, <2>1, <2>3, <2>4 DEF IInv, AnchorInv
<1> QED
  BY <1>2, <1>3

-----------------------------------------------------------------------------
\* The invariant holds in every state a ledger can come to.
THEOREM Invariance == Spec => []IInv
BY InitInv, InvStep, PTL DEF Spec

\* Types; in particular a saved anchor is a state that was written.
THEOREM TypeCorrect == Spec => []TypeOK
<1>1. IInv => TypeOK
  BY DEF IInv
<1> QED
  BY <1>1, Invariance, PTL

\* Wherever a process stops, rows and usage belong to a registered session.
THEOREM RowsHaveOwners == Spec => []NoOrphans
<1>1. IInv => NoOrphans
  BY DEF IInv, RowsInv
<1> QED
  BY <1>1, Invariance, PTL

\* A clone and its origin hold the same rows of every group they share.
THEOREM ClonesAgree == Spec => []CopiesAgree
<1>1. IInv => CopiesAgree
  BY DEF IInv, RowsInv
<1> QED
  BY <1>1, Invariance, PTL

\* GetMessagesByGroups asked for the turn's group returns the session's rows.
THEOREM TurnsArePrivate == Spec => []TurnIsPrivate
<1>1. IInv => TurnIsPrivate
  BY DEF IInv, RowsInv
<1> QED
  BY <1>1, Invariance, PTL

\* Groups are contiguous and in order, in clones too.
THEOREM TurnsOrdered == Spec => []TurnsInOrder
<1>1. IInv => TurnsInOrder
  BY DEF IInv, RowsInv, OrderInv, TurnsInOrder
<1> QED
  BY <1>1, Invariance, PTL

\* With nothing under way, no anchor is older than a text of its session, but
\* in the torn ones.
THEOREM AnchorsUpToDate == Spec => []AnchorUpToDate
<1>1. IInv => AnchorUpToDate
  BY DEF IInv, AnchorInv, LagInv, AnchorUpToDate
<1> QED
  BY <1>1, Invariance, PTL
=============================================================================
