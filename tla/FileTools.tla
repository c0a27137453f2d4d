------------------------------- MODULE FileTools -------------------------------
(***************************************************************************)
(* The file and search tools of core/tool_executor.cpp as the calls of one *)
(* batch run them, several at a time on the same files: read_file goes over*)
(* the file twice; write_file empties the file and then writes it;         *)
(* apply_patch asks for the size, reads, and ends in a write_file; the     *)
(* searches run git grep or grep.  The staging-branch guard in front of the*)
(* writing tools is in MailModel.                                          *)
(*                                                                         *)
(* A text is a sequence of lines, which are also the units of a patch.     *)
(* Matching lines are all equal to the pattern.                            *)
(***************************************************************************)
EXTENDS Integers, FiniteSets, SequencesExt

CONSTANTS
    Paths, Tracked,     \* Tracked: those git knows
    Lines, Alarming,    \* Alarming: those that contain "Error:"
    Starts, Ends,       \* start_line, and end_line where it is given
    Contents,           \* of write_file, and of the files at the beginning
    Patches,            \* sequences of [find, replace]
    Workers,
    GrepLimit, GitLimit,    \* lines a search shows: 50 and 500
    None                    \* no such file; no end_line

Nul  == "nul"           \* what a buffer holds where nothing was read
Text == Seq(Lines \cup {Nul})

ASSUME FileToolsAssumption ==
    /\ Tracked \subseteq Paths /\ Alarming \subseteq Lines /\ Nul \notin Lines
    /\ Starts \subseteq Nat /\ Ends \subseteq Nat /\ GrepLimit \in Nat \ {0} /\ GitLimit \in Nat
    /\ Contents \subseteq Seq(Lines) /\ IsFiniteSet(Paths)
    /\ Patches \subseteq Seq([find : Seq(Lines), replace : Seq(Lines)])

VARIABLES
    files,      \* [path -> Text, or None]
    repo,       \* the directory is in a git repository
    cancelled,  \* Esc was pressed in this batch
    jobs,       \* [worker -> [call, at, size, text, more, result]]
    before      \* observed: the files when the batch began

vars == <<files, repo, cancelled, jobs, before>>

Calls ==
    [tool : {"read"}, path : Paths, from : Starts, to : Ends \cup {None}]
    \cup [tool : {"write"}, path : Paths, content : Contents]
    \cup [tool : {"patch"}, path : Paths, patches : Patches]
    \cup [tool : {"grep", "git_grep"}, pattern : Lines]

\* more: the line a hint names (read), or 1 for the mark of a cut (search).
Fresh(call) == [call |-> call, at |-> "begin", size |-> 0, text |-> << >>, more |-> 0, result |-> "none"]
Free        == [Fresh([tool |-> "none"]) EXCEPT !.at = "end"]
Ended(job, result) == [job EXCEPT !.at = "end", !.result = result]

Init ==
    /\ files \in [Paths -> Contents \cup {None}] /\ repo \in BOOLEAN
    /\ cancelled = FALSE /\ jobs = [w \in Workers |-> Free] /\ before = files

Lesser(a, b)  == IF a < b THEN a ELSE b
Greater(a, b) == IF a > b THEN a ELSE b

----------------------------------------------------------------------------
(* What a tool computes.                                                   *)

\* Faulty: the hint repeats the last line of the range.
ReadHintLow(call, total) ==
    IF call.to # None /\ call.to < total THEN call.to ELSE 0

\* Where to go on reading; 0 for no hint.
ReadHint(call, total) ==
    IF call.to # None /\ call.to < total THEN call.to + 1 ELSE 0

InRange(text, call) ==
    SubSeq(text, Greater(call.from, 1), IF call.to = None THEN Len(text) ELSE Lesser(call.to, Len(text)))

Occurrences(text, find) ==
    {i \in 1..(Len(text) + 1 - Len(find)) : SubSeq(text, i, i + Len(find) - 1) = find}

\* A patch that matches exactly once in what the ones before it left.
Tried(state, patch) ==
    LET at == Occurrences(state.text, patch.find)
    IN IF state.ok /\ patch.find # << >> /\ Cardinality(at) = 1
       THEN [state EXCEPT !.text = ReplaceSubSeqAt(CHOOSE i \in at : TRUE, patch.replace, patch.find, @)]
       ELSE [state EXCEPT !.ok = FALSE]

\* All patches in order.
Patched(text, patches) == FoldLeft(Tried, [ok |-> TRUE, text |-> text], patches)

\* What a stream at the start of the file leaves of what was there.
Overwrite(old, new) == new \o SubSeq(old, Len(new) + 1, Len(old))

Matching(paths, pattern) ==
    LET hits(p) == IF files[p] = None THEN {} ELSE {i \in DOMAIN files[p] : files[p][i] = pattern}
        found   == UNION {{p} \X hits(p) : p \in paths}
    IN [i \in 1..Cardinality(found) |-> pattern]

\* The loop reads the line after the last it shows, and the mark wants one more.
Shown(job, lines, limit) ==
    [Ended(job, "ok") EXCEPT !.text = SubSeq(lines, 1, Lesser(limit, Len(lines))),
                             !.more = IF Len(lines) > limit + 1 THEN 1 ELSE 0]

\* Without git, or once cancelled, git_grep_tool excuses itself in an OK text.
GitGrep(job) ==
    IF cancelled \/ ~repo THEN Ended(job, "excuse")
    ELSE Shown(job, Matching(Tracked, job.call.pattern), GitLimit)

Grep(job) ==
    IF cancelled THEN Ended(job, "error") ELSE Shown(job, Matching(Paths, job.call.pattern), GrepLimit)

\* Faulty: what git grep says is taken as it is.
GrepToolTrusting(job) == IF repo THEN GitGrep(job) ELSE Grep(job)

\* grep_tool: git grep's result where it has one that does not look like an error.
GrepTool(job) ==
    LET git == GitGrep(job)
    IN IF git.result = "ok" /\ git.text # << >> /\ job.call.pattern \notin Alarming THEN git ELSE Grep(job)

----------------------------------------------------------------------------
StartBatch ==
    /\ \A w \in Workers : jobs[w] = Free
    /\ \E workers \in (SUBSET Workers) \ {{}} : \E calls \in [workers -> Calls] :
          jobs' = [w \in Workers |-> IF w \in workers THEN Fresh(calls[w]) ELSE Free]
    /\ before' = files /\ cancelled' = FALSE
    /\ UNCHANGED <<files, repo>>

EndBatch ==
    /\ \A w \in Workers : jobs[w].at = "end"
    /\ \E w \in Workers : jobs[w] # Free
    /\ jobs' = [w \in Workers |-> Free] /\ before' = files /\ cancelled' = FALSE
    /\ UNCHANGED <<files, repo>>

PressEsc ==
    /\ ~cancelled /\ \E w \in Workers : jobs[w].at # "end"
    /\ cancelled' = TRUE
    /\ UNCHANGED <<files, repo, jobs, before>>

\* One step of one call.
Step(w, at, tools, job) ==
    /\ jobs[w].at = at /\ jobs[w].call.tool \in tools
    /\ jobs' = [jobs EXCEPT ![w] = job]
    /\ UNCHANGED <<repo, cancelled, before>>

\* The dispatcher's own look at the cancellation.
Skip(w) == cancelled /\ Step(w, "begin", {"read", "write", "patch", "grep", "git_grep"}, Ended(jobs[w], "error"))
           /\ UNCHANGED files

\* ReadFile: the lines are counted, then read from the start again.
ReadFile(w) ==
    LET job == jobs[w]  call == job.call  file == files[call.path]
    IN /\ UNCHANGED files
       /\ \/ Step(w, "begin", {"read"},
                  IF (call.to # None /\ call.from > call.to) \/ file = None THEN Ended(job, "error")
                  ELSE [job EXCEPT !.at = "pass", !.size = Len(file)])
          \/ Step(w, "pass", {"read"},
                  [Ended(job, "ok") EXCEPT !.text = InRange(file, call), !.more = ReadHint(call, job.size)])

\* WriteFile, for itself or for a patch: the text to write is in job.text.
WriteFile(w) ==
    LET job == jobs[w]  path == job.call.path
    IN \/ /\ Step(w, "begin", {"write"}, [job EXCEPT !.at = "write", !.text = job.call.content])
          /\ files' = [files EXCEPT ![path] = << >>]
       \/ /\ Step(w, "open", {"patch"}, [job EXCEPT !.at = "write"])
          /\ files' = [files EXCEPT ![path] = << >>]
       \/ /\ Step(w, "write", {"write", "patch"}, Ended(job, "ok"))
          /\ files' = [files EXCEPT ![path] = Overwrite(@, job.text)]

\* Faulty: a patch that does not match ends the loop only.
PatchLoadedPartly(job, text) ==
    [job EXCEPT !.at = "open", !.text = Patched(text, job.call.patches).text]

\* The buffer has the size asked for before; what was not read is NUL.  Nothing is
\* written unless all patches match.
PatchLoaded(job, text) ==
    LET buffer == [i \in 1..job.size |-> IF i <= Len(text) THEN text[i] ELSE Nul]
        state  == Patched(buffer, job.call.patches)
    IN IF state.ok THEN [job EXCEPT !.at = "open", !.text = state.text] ELSE Ended(job, "error")

ApplyPatch(w) ==
    LET job == jobs[w]  file == files[job.call.path]
    IN /\ UNCHANGED files
       /\ \/ Step(w, "begin", {"patch"},
                  IF file = None THEN Ended(job, "error") ELSE [job EXCEPT !.at = "load", !.size = Len(file)])
          \/ Step(w, "load", {"patch"}, PatchLoaded(job, file))

Search(w) ==
    /\ UNCHANGED files
    /\ \/ Step(w, "begin", {"grep"}, GrepTool(jobs[w]))
       \/ Step(w, "begin", {"git_grep"}, GitGrep(jobs[w]))

Next ==
    \/ StartBatch \/ EndBatch \/ PressEsc
    \/ \E w \in Workers : Skip(w) \/ ReadFile(w) \/ WriteFile(w) \/ ApplyPatch(w) \/ Search(w)

Spec == Init /\ [][Next]_vars

----------------------------------------------------------------------------
TypeOK ==
    /\ \A p \in Paths : files[p] = None \/ files[p] \in Text
    /\ repo \in BOOLEAN /\ cancelled \in BOOLEAN
    /\ \A w \in Workers :
          /\ jobs[w].at \in {"begin", "pass", "open", "load", "write", "end"}
          /\ jobs[w].result \in {"none", "ok", "error", "excuse"}
          /\ jobs[w].text \in Text /\ jobs[w].size \in Nat /\ jobs[w].more \in Nat

Writers == {w \in Workers : jobs[w].call.tool \in {"write", "patch"}}
Over(w, tools) == jobs[w].at = "end" /\ jobs[w].call.tool \in tools
Alone(w, path) == \A v \in Writers \ {w} : jobs[v].call.path # path

\* What was asked: each text replaced where it first is.
Replaced(text, patch)      == ReplaceFirstSubSeq(patch.replace, patch.find, text)
AllReplaced(text, patches) == FoldLeft(Replaced, text, patches)

(* A call with its file to itself does all of what was asked or nothing,   *)
(* whatever runs beside it: a patch that fails, at its first or its last   *)
(* replacement, leaves the file as it was, and its report says which.      *)
AllOrNothing ==
    \A w \in Writers :
        LET job == jobs[w]  path == job.call.path
        IN (job.at = "end" /\ Alone(w, path)) =>
              files[path] = IF job.result = "error" THEN before[path]
                            ELSE IF job.call.tool = "write" THEN job.call.content
                            ELSE AllReplaced(before[path], job.call.patches)

(* A reader who follows the hint to its end sees every line once, from the *)
(* one asked for to the last of the file.                                  *)
ReaderMissesNothing ==
    \A w \in Workers :
        (Over(w, {"read"}) /\ jobs[w].result = "ok" /\ Alone(w, jobs[w].call.path)) =>
            LET job == jobs[w]  file == before[job.call.path]
            IN job.text \o (IF job.more = 0 THEN << >> ELSE SubSeq(file, job.more, Len(file)))
                  = SubSeq(file, Greater(1, job.call.from), Len(file))

(* grep_tool finds nothing only where there is nothing, in a repository or *)
(* not: files git does not track are searched when git grep found nothing. *)
NothingIsNothing ==
    \A w \in Workers :
        (Over(w, {"grep"}) /\ jobs[w].result # "error" /\ Writers = {}) =>
            (jobs[w].text = << >> => Matching(Paths, jobs[w].call.pattern) = << >>)
=============================================================================
