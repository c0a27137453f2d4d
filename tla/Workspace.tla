------------------------------- MODULE Workspace -------------------------------
(***************************************************************************)
(* What surrounds a conversation: the active skills and the scratchpad of  *)
(* each session (the sessions table), the registry of skills with its      *)
(* counts, the mail mode, and the memos.  Commands change them between two *)
(* turns (interface/command_handler.cpp); the tools use_skill,             *)
(* manage_scratchpad and save_memo change them in a turn, several calls of *)
(* a batch at a time (core/tool_executor.cpp); each request of a turn shows*)
(* them to the model (core/orchestrator.cpp).                              *)
(*                                                                         *)
(* A use_skill or an append reads its row, and writes it in a second       *)
(* statement: other calls of the batch run between the two.                *)
(***************************************************************************)
EXTENDS Memos

CONSTANTS
    Names, Default,     \* skills; those the program registers, "patcher" among them
    Sessions, First,    \* session ids; default_session
    Messages,           \* of the user
    Notes,              \* what may be written on a scratchpad
    Workers,
    MaxOps              \* bound: commands and tool calls

ASSUME WorkspaceAssumption ==
    /\ Default \subseteq Names /\ "patcher" \in Default
    /\ Messages \subseteq Text
    /\ First \in Sessions /\ MaxOps \in Nat
    /\ IsFiniteSet(Workers)

VARIABLES
    pc,         \* of the main thread: "off" | "loop" | "prompt" | "turn" | "batch"
    session,    \* session_id
    active,     \* active_skills, the vector of the loop
    mail,       \* mail_mode_
    rows,       \* sessions: [id -> [skills, pad]]
    skills,     \* skills: [name -> [own, count]]; own: the text is not the shipped one
    message,    \* the user's last message
    prompt,     \* [skills, pad, memos], the system instruction of the last request
    jobs,       \* [worker -> [call, at, seen]]
    before,     \* observed: the session's row when the batch began
    ops         \* commands and tool calls so far

ownVars == <<pc, session, active, mail, rows, skills, message, prompt, jobs, before, ops>>
vars    == <<memoVars, ownVars>>

Calls == [tool : {"activate", "deactivate"}, arg : Names]
         \cup [tool : {"append", "update"}, arg : Notes]
         \cup [tool : {"save_memo"}, arg : SavedTags]

EmptyRow == [skills |-> << >>, pad |-> << >>]
NoPrompt == [skills |-> {}, pad |-> << >>, memos |-> {}]
Idle     == [call |-> [tool |-> "none"], at |-> "end", seen |-> EmptyRow]

Row(s) == IF s \in DOMAIN rows THEN rows[s] ELSE EmptyRow
Here   == Row(session)
WithRow(s, row) == [t \in DOMAIN rows \cup {s} |-> IF t = s THEN row ELSE rows[t]]
SetActiveSkills(list) == rows' = WithRow(session, [Here EXCEPT !.skills = list])
UpdateScratchpad(pad) == rows' = WithRow(session, [Here EXCEPT !.pad = pad])
Known == {n \in Names : n \in DOMAIN skills}

Init ==
    /\ MemosInit
    /\ pc = "off" /\ session = First /\ active = << >> /\ mail = FALSE
    /\ rows = << >> /\ skills = << >> /\ message = << >> /\ prompt = NoPrompt
    /\ jobs = [w \in Workers |-> Idle] /\ before = EmptyRow /\ ops = 0

----------------------------------------------------------------------------
(* The program starts, and its loop.                                       *)

Shipped == [own |-> FALSE, count |-> 0]

\* INSERT OR IGNORE
RegisterSkill(names, skill) ==
    skills' = [n \in Known \cup names |-> IF n \in Known THEN skills[n] ELSE skill]

Start ==
    /\ pc = "off"
    /\ pc' = "loop" /\ session' \in Sessions
    /\ RegisterSkill(Default, Shipped)
    /\ UNCHANGED <<memoVars, active, mail, rows, message, prompt, jobs, before, ops>>

\* Faulty: the vector is the one of the last turn.
ReadLineStale ==
    /\ pc = "loop" /\ pc' = "prompt"
    /\ UNCHANGED <<memoVars, session, active, mail, rows, skills, message, prompt, jobs, before, ops>>

\* The vector is read from the row before each line.
ReadLine ==
    /\ pc = "loop" /\ pc' = "prompt"
    /\ active' = Here.skills
    /\ UNCHANGED <<memoVars, session, mail, rows, skills, message, prompt, jobs, before, ops>>

\* Any exit, signal or crash: what the workers had read is lost.
Stop ==
    /\ pc # "off"
    /\ pc' = "off" /\ active' = << >> /\ mail' = FALSE /\ message' = << >> /\ prompt' = NoPrompt
    /\ jobs' = [w \in Workers |-> Idle] /\ before' = EmptyRow
    /\ UNCHANGED <<memoVars, session, rows, skills, ops>>

----------------------------------------------------------------------------
(* The commands.                                                           *)

\* One command of the user; the loop reads the vector again after it.
Command(change) ==
    /\ pc = "prompt" /\ ops < MaxOps
    /\ change
    /\ pc' = "loop" /\ ops' = ops + 1
    /\ UNCHANGED <<message, prompt, jobs, before>>

\* What list has at the places I, in order.
Kept(list, I) ==
    [k \in 1..Cardinality(I) |-> list[CHOOSE i \in I : Cardinality({j \in I : j <= i}) = k]]
Without(list, name) == Kept(list, {i \in DOMAIN list : list[i] # name})
Counted(name) == skills' = [skills EXCEPT ![name].count = @ + 1]

SkillActivate(name) ==
    /\ name \in Known
    /\ IF name \in Range(active)
       THEN UNCHANGED <<active, rows, skills>>
       ELSE /\ active' = Append(active, name) /\ SetActiveSkills(active') /\ Counted(name)
    /\ UNCHANGED <<memoVars, session, mail>>

\* Found by the registry: a deleted skill stays in the list.
SkillDeactivate(name) ==
    /\ name \in Known
    /\ active' = Without(active, name) /\ SetActiveSkills(active')
    /\ UNCHANGED <<memoVars, session, mail, skills>>

SkillDelete(name) ==
    /\ skills' = [n \in Known \ {name} |-> skills[n]]
    /\ UNCHANGED <<memoVars, session, active, mail, rows>>

\* The editor may change the name as well: the row of the new name is updated, if
\* there is one.
SkillEdit(name, saved) ==
    /\ name \in Known
    /\ skills' = [n \in Known |->
                     IF n = saved THEN [own |-> TRUE, count |-> skills[name].count] ELSE skills[n]]
    /\ UNCHANGED <<memoVars, session, active, mail, rows>>

SkillAdd(name) ==
    /\ RegisterSkill({name}, [own |-> TRUE, count |-> 0])
    /\ UNCHANGED <<memoVars, session, active, mail, rows>>

SessionSwitch(s) ==
    /\ session' = s
    /\ UNCHANGED <<memoVars, active, mail, rows, skills>>

\* Clearing is removing the current session, and staying in it.
SessionRemove(s, next) ==
    /\ rows' = [t \in DOMAIN rows \ {s} |-> rows[t]]
    /\ session' = next
    /\ UNCHANGED <<memoVars, active, mail, skills>>

SessionClone(s) ==
    /\ session \in DOMAIN rows /\ s \notin DOMAIN rows
    /\ rows' = WithRow(s, Here)
    /\ session' = s
    /\ UNCHANGED <<memoVars, active, mail, skills>>

ScratchpadEdit(pad) ==
    /\ pad # << >>
    /\ UpdateScratchpad(pad)
    /\ UNCHANGED <<memoVars, session, active, mail, skills>>

\* The mail mode activates the patcher without counting.
ModeMail ==
    /\ mail' = TRUE
    /\ IF "patcher" \in Known /\ "patcher" \notin Range(active)
       THEN active' = Append(active, "patcher") /\ SetActiveSkills(active')
       ELSE UNCHANGED <<active, rows>>
    /\ UNCHANGED <<memoVars, session, skills>>

ModeStandard ==
    /\ mail' = FALSE
    /\ IF "patcher" \in Range(active)
       THEN active' = Without(active, "patcher") /\ SetActiveSkills(active')
       ELSE UNCHANGED <<active, rows>>
    /\ UNCHANGED <<memoVars, session, skills>>

MemoCommand == HandleMemo /\ UNCHANGED <<session, active, mail, rows, skills>>

HandleSkill ==
    \E name \in Names :
        \/ SkillActivate(name) \/ SkillDeactivate(name) \/ SkillDelete(name) \/ SkillAdd(name)
        \/ \E saved \in Names : SkillEdit(name, saved)

HandleSession ==
    \/ \E s \in Sessions :
          \/ SessionSwitch(s) \/ SessionClone(s)
          \/ SessionRemove(s, IF s = session THEN First ELSE session)
    \/ SessionRemove(session, session)
    \/ \E note \in Notes : ScratchpadEdit(<<note>>) \/ ScratchpadEdit(Append(Here.pad, note))

HandleMode == ModeMail \/ ModeStandard

Handle == Command(HandleSkill \/ HandleSession \/ HandleMode \/ MemoCommand)

----------------------------------------------------------------------------
(* A turn.                                                                 *)

\* BuildSystemInstructions and InjectRelevantMemos; names the registry does not
\* have are passed over.
SystemInstruction(list, text) ==
    [skills |-> Known \cap Range(list), pad |-> Here.pad, memos |-> RelevantMemos(text)]

\* The first request: AppendMessage has registered the session.
Ask(text) ==
    /\ pc = "prompt"
    /\ pc' = "turn" /\ message' = text
    /\ rows' = WithRow(session, Here)
    /\ prompt' = SystemInstruction(active, text)
    /\ UNCHANGED <<memoVars, session, active, mail, skills, jobs, before, ops>>

StartBatch ==
    /\ pc = "turn" /\ pc' = "batch"
    /\ \E workers \in (SUBSET Workers) \ {{}} :
          /\ ops' = ops + Cardinality(workers) /\ ops' <= MaxOps
          /\ \E calls \in [workers -> Calls] :
                jobs' = [w \in Workers |->
                            IF w \in workers THEN [Idle EXCEPT !.call = calls[w], !.at = "begin"] ELSE Idle]
    /\ before' = Here
    /\ UNCHANGED <<memoVars, session, active, mail, rows, skills, message, prompt>>

\* The statement that reads the row, where the tool has one.
Begin(w) ==
    /\ pc = "batch" /\ jobs[w].at = "begin"
    /\ jobs' = [jobs EXCEPT ![w].at = "write", ![w].seen = Here]
    /\ UNCHANGED <<memoVars, pc, session, active, mail, rows, skills, message, prompt, before, ops>>

\* Faulty: erase takes the rest of the list along.
UseSkillErasing(call, list) ==
    /\ UNCHANGED skills
    /\ CASE call.tool = "activate" /\ call.arg \notin Range(list) ->
              SetActiveSkills(Append(list, call.arg))
         [] call.tool = "deactivate" /\ call.arg \in Range(list) ->
              SetActiveSkills(SubSeq(list, 1, SelectInSeq(list, LAMBDA n : n = call.arg) - 1))
         [] OTHER -> UNCHANGED rows

\* Faulty: the name is listed without a look at the list.
UseSkillTwice(call, list) ==
    /\ SetActiveSkills(IF call.tool = "activate" THEN Append(list, call.arg) ELSE Without(list, call.arg))
    /\ UNCHANGED skills

\* Activating counts, whether or not the skill was active, and lists any name.
UseSkill(call, list) ==
    /\ CASE call.tool = "activate" /\ call.arg \notin Range(list) ->
              SetActiveSkills(Append(list, call.arg))
         [] call.tool = "deactivate" /\ call.arg \in Range(list) ->
              SetActiveSkills(RemoveFirst(list, call.arg))
         [] OTHER -> UNCHANGED rows
    /\ IF call.tool = "activate" /\ call.arg \in Known THEN Counted(call.arg) ELSE UNCHANGED skills

ManageScratchpad(call, pad) ==
    /\ UpdateScratchpad(IF call.tool = "append" THEN Append(pad, call.arg) ELSE <<call.arg>>)
    /\ UNCHANGED skills

\* The statement that writes, from what the first one read.
Write(w) ==
    LET call == jobs[w].call  seen == jobs[w].seen
    IN /\ pc = "batch" /\ jobs[w].at = "write"
       /\ CASE call.tool \in {"activate", "deactivate"} -> UseSkill(call, seen.skills) /\ UNCHANGED memoVars
            [] call.tool \in {"append", "update"} -> ManageScratchpad(call, seen.pad) /\ UNCHANGED memoVars
            [] OTHER -> SaveMemo(call.arg) /\ UNCHANGED <<rows, skills>>
       /\ jobs' = [jobs EXCEPT ![w].at = "end"]
       /\ UNCHANGED <<pc, session, active, mail, message, prompt, before, ops>>

\* Esc: a call that has not begun is left out.
Skip(w) ==
    /\ pc = "batch" /\ jobs[w].at = "begin"
    /\ jobs' = [jobs EXCEPT ![w].at = "end"]
    /\ UNCHANGED <<memoVars, pc, session, active, mail, rows, skills, message, prompt, before, ops>>

\* The next request of the turn takes the vector of its beginning.
AskAgain ==
    /\ pc = "batch" /\ \A w \in Workers : jobs[w].at = "end"
    /\ pc' = "turn" /\ jobs' = [w \in Workers |-> Idle] /\ before' = EmptyRow
    /\ prompt' = SystemInstruction(active, message)
    /\ UNCHANGED <<memoVars, session, active, mail, rows, skills, message, ops>>

EndTurn ==
    /\ pc = "turn" /\ pc' = "loop"
    /\ message' = << >> /\ prompt' = NoPrompt
    /\ UNCHANGED <<memoVars, session, active, mail, rows, skills, jobs, before, ops>>

Next ==
    \/ Start \/ ReadLine \/ Stop \/ Handle
    \/ \E text \in Messages : Ask(text)
    \/ StartBatch \/ AskAgain \/ EndTurn
    \/ \E w \in Workers : Begin(w) \/ Write(w) \/ Skip(w)

Spec == Init /\ [][Next]_vars

----------------------------------------------------------------------------
TypeOK ==
    /\ MemosTypeOK
    /\ pc \in {"off", "loop", "prompt", "turn", "batch"} /\ session \in Sessions
    /\ active \in Seq(Names) /\ mail \in BOOLEAN /\ message \in Text
    /\ DOMAIN rows \subseteq Sessions
    /\ \A s \in DOMAIN rows : rows[s].skills \in Seq(Names) /\ rows[s].pad \in Seq(Notes)
    /\ DOMAIN skills \subseteq Names
    /\ \A n \in DOMAIN skills : skills[n].own \in BOOLEAN /\ skills[n].count \in 0..MaxOps
    /\ ops \in 0..MaxOps

(* No skill is twice in a list, so that no prompt states it twice, whatever *)
(* calls of use_skill and commands changed the list: each adds a name only *)
(* where it read none, and another call may have added it since.           *)
ActiveOnce == \A s \in DOMAIN rows : IsInjective(rows[s].skills)

(* Calls that overwrite each other's result still do only what was asked:  *)
(* the skills of the session differ from those before the batch by what    *)
(* some call of it names, and without an update the scratchpad keeps what  *)
(* it had.                                                                 *)
OnlyAsked ==
    pc = "batch" =>
        LET asked(tool) == {jobs[w].call.arg : w \in {w \in Workers : jobs[w].call.tool = tool}}
        IN /\ Range(Here.skills) \subseteq Range(before.skills) \cup asked("activate")
           /\ Range(before.skills) \subseteq Range(Here.skills) \cup asked("deactivate")
           /\ asked("update") = {} => IsPrefix(before.pad, Here.pad)

(* The first request of a turn shows the skills of the session it belongs  *)
(* to, and all of them: after a switch, a removal, a clone or a restart the*)
(* vector of the loop would still hold those of another (main.cpp).        *)
SkillsOfSession ==
    [][(pc = "prompt" /\ pc' = "turn") =>
          prompt'.skills = {n \in Range(rows'[session'].skills) : n \in DOMAIN skills}]_vars

(* A memo comes back by itself: a message with one of the words between the*)
(* hyphens of a tag, of more than three letters and no stop word, brings it*)
(* into the prompt, unless older ones fill it or a row without tags makes  *)
(* every search fail.  A word of a message is what stands between two signs*)
(* the search splits at, capitals or not: "arch?" is not the word "arch".  *)
(* A tag of one word must be in lower case, and a blank or a dot is part of*)
(* a tag's word, so that no message has it (core/database.cpp).            *)
MemoComesBack ==
    (pc = "turn" /\ \A id \in DOMAIN memos : memos[id].json) =>
        \A id \in DOMAIN memos : \A tag \in memos[id].tags :
            \A word \in Split(Lowered(tag), {Hyphen}) \cap Split(Lowered(message), Separators) :
                (/\ Length(word) > 3 /\ ~IsStopWord(word)
                 /\ word = Lowered(tag) => word = tag) =>
                    \/ id \in prompt.memos
                    \/ Cardinality(prompt.memos) = MaxInjected /\ \A i \in prompt.memos : i < id
=============================================================================
