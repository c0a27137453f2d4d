------------------------------ MODULE ShellCommand ------------------------------
(***************************************************************************)
(* RunCommand (core/shell_util.cpp), called by several workers of the pool *)
(* at once: pipes, fork, the child's process group, the poll loop with its *)
(* look at the cancellation and the clock, the killing and the reaping.    *)
(*                                                                         *)
(* fork copies every descriptor the program has open, and no pipe is made  *)
(* close-on-exec: a child keeps the write ends of the pipes of commands    *)
(* that another worker was just starting.  A pipe reports its end when no  *)
(* process has its write end.                                              *)
(*                                                                         *)
(* What a command does is its script.  stdout and stderr are one pipe, and *)
(* input fits the pipe's buffer.                                           *)
(***************************************************************************)
EXTENDS Naturals, FiniteSets

CONSTANTS
    Commands,   \* the calls of RunCommand
    Scripts,    \* what they may run
    Timed       \* those with a timeout_seconds

\* reads: the child ends only after the end of its stdin; ends: it ends at all;
\* ignores: it ignores SIGTERM; quiet: it closes its stdout while it runs;
\* job: the process it leaves in the background, which may ignore SIGTERM.
Script == [reads : BOOLEAN, ends : BOOLEAN, ignores : BOOLEAN, quiet : BOOLEAN,
           job : {"none", "obeys", "ignores"}]

ASSUME ScriptsAssumption == Scripts \subseteq Script /\ Timed \subseteq Commands

\* The program's own descriptors, beside those of the children.
CONSTANT Slop
ASSUME SlopAssumption == Slop \notin Commands

VARIABLES
    pc,         \* RunCommand: see Places
    script,     \* what c runs
    held,       \* the write ends a process was given: Slop, or the group of c
    child,      \* "none" | "running" | "zombie" | "reaped"
    grouped,    \* the child has called setpgid
    silent,     \* it has closed its outputs
    job,        \* "none" | "running" | "dead"
    result,     \* "none" | "exited" | "cancelled" | "timeout" | "error"
    interrupted, \* the request the calls share is cancelled
    missed      \* observed: the commands whose SIGTERM found no group

procs     == <<child, grouped, silent, job>>
shellVars == <<pc, script, held, procs, result, interrupted, missed>>

Places == {"idle", "piped", "forked", "feeding", "polling", "signalled", "reaping",
           "waiting", "done"}
In(c)     == <<"stdin", c>>
Out(c)    == <<"stdout", c>>
WriteEnds == {"stdin", "stdout"} \X Commands

ShellTypeOK ==
    /\ pc \in [Commands -> Places]
    /\ script \in [Commands -> Scripts]
    /\ held \in [Commands \cup {Slop} -> SUBSET WriteEnds]
    /\ \A c \in Commands : In(c) \notin held[c]
    /\ child \in [Commands -> {"none", "running", "zombie", "reaped"}]
    /\ grouped \in [Commands -> BOOLEAN]
    /\ silent \in [Commands -> BOOLEAN]
    /\ job \in [Commands -> {"none", "running", "dead"}]
    /\ result \in [Commands -> {"none", "exited", "cancelled", "timeout", "error"}]
    /\ interrupted \in BOOLEAN
    /\ missed \subseteq Commands

ShellInit ==
    /\ pc = [c \in Commands |-> "idle"]
    /\ script \in [Commands -> Scripts]
    /\ held = [p \in Commands \cup {Slop} |-> {}]
    /\ child = [c \in Commands |-> "none"]
    /\ grouped = [c \in Commands |-> FALSE]
    /\ silent = [c \in Commands |-> FALSE]
    /\ job = [c \in Commands |-> "none"]
    /\ result = [c \in Commands |-> "none"]
    /\ interrupted = FALSE /\ missed = {}

-----------------------------------------------------------------------------
\* Some process of c's group runs that has the write end e.
GroupWrites(c, e) ==
    /\ e \in held[c]
    /\ \/ job[c] = "running"
       \/ child[c] = "running" /\ ~(silent[c] /\ e = Out(c))

\* A reader of the pipe sees its end.
AtEnd(e) == e \notin held[Slop] /\ \A c \in Commands : ~GroupWrites(c, e)

GroupAlive(c) == child[c] = "running" \/ job[c] = "running"

Goto(c, place) == pc' = [pc EXCEPT ![c] = place]
Close(ends)    == held' = [held EXCEPT ![Slop] = @ \ ends]

-----------------------------------------------------------------------------
\* The parent, a worker in RunCommand.

\* pipe(), three times
MakePipes(c) ==
    /\ pc[c] = "idle" /\ Goto(c, "piped")
    /\ held' = [held EXCEPT ![Slop] = @ \cup {In(c), Out(c)}]
    /\ UNCHANGED <<script, procs, result, interrupted, missed>>

FailFork(c) ==
    /\ pc[c] = "piped" /\ Goto(c, "done")
    /\ Close({In(c), Out(c)})
    /\ result' = [result EXCEPT ![c] = "error"]
    /\ UNCHANGED <<script, procs, interrupted, missed>>

\* Faulty: the child keeps the write end of its own stdin.
InheritsAll(c) == held[Slop]
\* The child has what the program has open, but for the write end of its own
\* stdin, which it closes; its stdout and stderr are the pipe's.
Inherited(c) == held[Slop] \ {In(c)}

Fork(c) ==
    /\ pc[c] = "piped" /\ Goto(c, "forked")
    /\ child' = [child EXCEPT ![c] = "running"]
    /\ held' = [held EXCEPT ![c] = Inherited(c)]
    /\ UNCHANGED <<script, grouped, silent, job, result, interrupted, missed>>

CloseOutputs(c) ==
    /\ pc[c] = "forked" /\ Goto(c, "feeding")
    /\ Close({Out(c)})
    /\ UNCHANGED <<script, procs, result, interrupted, missed>>

\* Faulty: the pipe to the child stays open once the input is written.
KeepsInput(c) == {}
InputEnds(c) == {In(c)}

\* The input is written and the pipe closed.
CloseInput(c) ==
    /\ pc[c] = "feeding" /\ Goto(c, "polling")
    /\ Close(InputEnds(c))
    /\ UNCHANGED <<script, procs, result, interrupted, missed>>

\* Faulty: the signal goes to the child alone.
SpareJob(c) == UNCHANGED job
\* kill(-pid): the whole group.
KillJob(c) == job' = [job EXCEPT ![c] = IF @ = "running" THEN "dead" ELSE @]

KillChild(c) == child' = [child EXCEPT ![c] = IF @ = "running" THEN "zombie" ELSE @]

\* A signal finds no group before the child has made it.
Terminate(c) ==
    IF grouped[c]
    THEN /\ IF script[c].ignores THEN UNCHANGED child ELSE KillChild(c)
         /\ IF script[c].job = "ignores" THEN UNCHANGED job ELSE KillJob(c)
    ELSE UNCHANGED <<child, job>>
\* Faulty: SIGTERM once more.
TerminateAgain(c) == Terminate(c)
Kill(c) == IF grouped[c] THEN KillChild(c) /\ KillJob(c) ELSE UNCHANGED <<child, job>>

SeeCancel(c) ==
    /\ pc[c] = "polling" /\ interrupted /\ Goto(c, "signalled")
    /\ result' = [result EXCEPT ![c] = "cancelled"]
    /\ Terminate(c)
    /\ missed' = IF grouped[c] THEN missed ELSE missed \cup {c}
    /\ UNCHANGED <<script, held, grouped, silent, interrupted>>

\* A second has passed at least: the child has made its group.
SeeTimeout(c) ==
    /\ pc[c] = "polling" /\ c \in Timed /\ grouped[c] /\ Goto(c, "signalled")
    /\ result' = [result EXCEPT ![c] = "timeout"]
    /\ Kill(c)
    /\ UNCHANGED <<script, held, grouped, silent, interrupted, missed>>

\* Faulty: one look at the child, whatever it shows.
GivesUp(c) == TRUE
\* waitpid(WNOHANG) finds the child ended.
ChildEnded(c) == child[c] = "zombie"

\* After 50 ms, in which the child has made its group: it is reaped, or it is
\* killed, with the group, and waited for.
Look(c) ==
    /\ pc[c] = "signalled" /\ grouped[c]
    /\ IF ChildEnded(c)
       THEN /\ child' = [child EXCEPT ![c] = IF @ = "zombie" THEN "reaped" ELSE @]
            /\ Goto(c, "done") /\ UNCHANGED job
       ELSE Kill(c) /\ Goto(c, "reaping")
    /\ UNCHANGED <<script, held, grouped, silent, result, interrupted, missed>>

\* waitpid, until the child has ended.
Reap(c) == child[c] = "zombie" /\ child' = [child EXCEPT ![c] = "reaped"] /\ Goto(c, "done")

ReapKilled(c) ==
    /\ pc[c] = "reaping" /\ Reap(c)
    /\ UNCHANGED <<script, held, grouped, silent, job, result, interrupted, missed>>

\* Both outputs are closed: the loop is over.
SeeEnd(c) ==
    /\ pc[c] = "polling" /\ AtEnd(Out(c)) /\ Goto(c, "waiting")
    /\ UNCHANGED <<script, held, procs, result, interrupted, missed>>

WaitForChild(c) ==
    /\ pc[c] = "waiting" /\ Reap(c)
    /\ result' = [result EXCEPT ![c] = "exited"]
    /\ UNCHANGED <<script, held, grouped, silent, job, interrupted, missed>>

-----------------------------------------------------------------------------
\* The child and its job.

\* setpgid, then exec; what runs may leave a job in the background.
BeginScript(c) ==
    /\ child[c] = "running" /\ ~grouped[c]
    /\ grouped' = [grouped EXCEPT ![c] = TRUE]
    /\ job' = [job EXCEPT ![c] = IF script[c].job = "none" THEN @ ELSE "running"]
    /\ UNCHANGED <<pc, script, held, child, silent, result, interrupted, missed>>

FallSilent(c) ==
    /\ child[c] = "running" /\ grouped[c] /\ script[c].quiet /\ ~silent[c]
    /\ silent' = [silent EXCEPT ![c] = TRUE]
    /\ UNCHANGED <<pc, script, held, child, grouped, job, result, interrupted, missed>>

Exit(c) ==
    /\ child[c] = "running" /\ grouped[c] /\ script[c].ends
    /\ script[c].reads => AtEnd(In(c))
    /\ KillChild(c)
    /\ UNCHANGED <<pc, script, held, grouped, silent, job, result, interrupted, missed>>

EndJob(c) ==
    /\ job[c] = "running" /\ script[c].ends
    /\ job' = [job EXCEPT ![c] = "dead"]
    /\ UNCHANGED <<pc, script, held, child, grouped, silent, result, interrupted, missed>>

\* Esc
Cancel ==
    /\ ~interrupted /\ interrupted' = TRUE
    /\ UNCHANGED <<pc, script, held, procs, result, missed>>

Parent(c) ==
    \/ Fork(c) \/ CloseOutputs(c) \/ CloseInput(c)
    \/ SeeCancel(c) \/ SeeEnd(c) \/ Look(c) \/ ReapKilled(c) \/ WaitForChild(c)

ShellNext ==
    \/ \E c \in Commands :
         \/ MakePipes(c) \/ FailFork(c) \/ SeeTimeout(c) \/ Parent(c)
         \/ BeginScript(c) \/ FallSilent(c) \/ Exit(c) \/ EndJob(c)
    \/ Cancel

ShellSpec == ShellInit /\ [][ShellNext]_shellVars

\* The workers and the children run; nobody need press a key, and no command
\* need be started.
FairShellSpec ==
    /\ ShellSpec
    /\ \A c \in Commands : /\ WF_shellVars(Parent(c)) /\ WF_shellVars(BeginScript(c))
                           /\ WF_shellVars(Exit(c)) /\ WF_shellVars(EndJob(c))

-----------------------------------------------------------------------------
\* Whichever way RunCommand returns, its child has ended and is reaped: no
\* zombie is left, and none it would take for another's.
ChildReaped ==
    \A c \in Commands : pc[c] = "done" /\ result[c] # "error" => child[c] = "reaped"

\* When a timeout or a cancellation has made RunCommand return, nothing of the
\* group runs; except, after a cancellation, when the child ended in the 50 ms:
\* then nobody looks at the job, which survives if it ignores SIGTERM, or if
\* SIGTERM came before there was a group.
KilledGroupIsGone ==
    \A c \in Commands :
        pc[c] = "done" /\ result[c] \in {"cancelled", "timeout"} /\ GroupAlive(c)
        => /\ result[c] = "cancelled"
           /\ \/ c \in missed /\ script[c].ends
              \/ script[c].job = "ignores" /\ (script[c].ignores => script[c].ends)

\* After Esc every command returns, though pipes leak to other children, unless
\* its child has fallen silent and RunCommand waits for nothing but its end.
EscReturns ==
    \A c \in Commands :
        interrupted /\ pc[c] # "idle" ~> pc[c] = "done" \/ silent[c]

\* Every command ends by itself, and at most one reads its stdin.
SelfEnding ==
    /\ \A c \in Commands : script[c].ends
    /\ \A c, d \in Commands : script[c].reads /\ script[d].reads => c = d

\* Then each of them returns, whatever the others were given of its pipes.
ReturnsByItself ==
    \A c \in Commands : pc[c] = "polling" /\ SelfEnding ~> pc[c] = "done"

-----------------------------------------------------------------------------
\* What the test of a command that reads says: its pipe is closed, and so it
\* ends and RunCommand returns.
NoHangOnInput ==
    \A c \in Commands : pc[c] = "polling" /\ script[c].reads ~> pc[c] = "done"
=============================================================================
