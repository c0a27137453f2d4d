# std::slop, specified

std::slop is a command line agent: it sends the conversation of a session to a
model, runs the tools the model calls, and keeps everything it said and did in
an SQLite ledger. These TLA+ modules model the parts of it whose correctness
depends on the order of events: what several threads, several processes one
after the other, or several commands do to shared state. TLC checks the models
on small instances; TLAPS proves the results listed under "What is proved" for
every value of the constants. `PROJECT.json` maps each definition to the lines
of `src/` it models.

    tlc -workers 2 -config MCLedger.cfg MCLedger      # one run
    tlapm ToolDispatcherProofs.tla                    # the proofs of a module

## 1. The system

| Part | State | Operations | Talks to |
| --- | --- | --- | --- |
| program start, loop (`main.cpp`) | current session, active skills | start (interactive or batch), token at the start, read input | engine, ledger, OAuth handler |
| interaction engine (`interface/interaction_engine.cpp`) | the turn: group id, rows before and after a response | `Process`: command or turn; HTTP call, error handling, repair of the history, tool batch, Esc polling, result rows | all below |
| tool dispatcher (`core/tool_dispatcher.cpp`) | task queue, stop flag, worker threads, state per batch | `Dispatch`, `WorkerLoop`, destructor | tool executor, cancellation |
| cancellation request (`core/cancellation.cpp`) | flag, callbacks, mutex | `Cancel`, `IsCancelled`, `RegisterCallback` | dispatcher, tools, shell |
| tool executor (`core/tool_executor.cpp`) | session id; git and file system outside | `Execute`; file, search, session and git tools | shell, ledger |
| shell commands (`core/shell_util.cpp`) | child, process group, three pipes, terminal mode | `RunCommand`, `IsEscPressed` | kernel |
| session ledger (`core/database.cpp`) | messages, usage, sessions, session_state; tools, skills, memos | append, drop, delete, clone, window, anchor, scratchpad | SQLite |
| orchestrator (`core/orchestrator*.cpp`, `core/message_parser.cpp`) | model, throttle, last selected groups | assemble a prompt, store a response, rebuild the anchor | ledger |
| command handler (`interface/command_handler.cpp`) | mail mode; edits ledger, session id, skills | the slash commands | ledger, orchestrator, executor |
| HTTP client (`core/http_client.cpp`) | abort flag; of one request: attempt, back-off | `Post`, `Get`, retries, waits servers ask for, Esc polling | curl |
| OAuth handler (`core/oauth_handler.cpp`) | tokens, project id, token file | load, refresh, save, discover | HTTP client, files |
| terminal, markdown (`interface/ui.cpp`, `markdown/`) | none that matters elsewhere | output, line editing | - |

The program has one main thread, the pool's workers, and one short thread per
batch that waits for `Dispatch` while the main thread polls the Esc key. The
workers share the ledger (its statements are serialised), the working tree, and
the tool executor. Everything durable is in the ledger and in git; almost every
statement commits by itself, so a process may stop between any two.

What is hard about it, and where:

* **threads**: a batch is queued while its first calls already run, Esc may come
  at any time, results are moved out in a second critical section;
  callbacks run outside the lock that guards them;
* **commits one by one**: deleting a session, storing a response and its state,
  rebuilding the anchor, the results of a batch;
* **identity by group**: a turn is found, undone and removed by its group id
  alone, and clones share group ids;
* **windows**: what is rebuilt or sent is what the window shows;
* **errors as text**: tools report failures, cancellations included, inside an
  OK result; some exit codes are not looked at;
* **signals and waits**: process groups, 50 ms of grace, a blocking wait at the
  end of a command, back-off that cannot be interrupted.

What makes each part correct:

* dispatcher: every call runs at most once and has one result, at its own index;
  nothing of a batch is left when `Dispatch` returns; it returns; the pool joins;
* cancellation: each callback of a cancelled request runs exactly once, without
  the lock; none is forgotten in a race;
* ledger: rows belong to registered sessions whatever was cut; a turn's rows are
  its own; clones agree with their origin; turns stay contiguous and ordered; the
  anchor is never older than the history;
* engine: every call in the history gets its result before the next prompt; the
  loop ends; what a stopped process left is repaired or reported;
* HTTP client: bounded attempts, none before the moment the server asked for; an
  Esc ends the request it was meant for; a status code becomes the error the
  engine's branches expect;
* shell: the child is reaped once, its group does not outlive a cancellation, a
  command that should end is not waited for for ever;
* git tools: the base branch is not committed to or reset, a failed step does not
  report success, the branch the user was on comes back;
* session tools, skills, memos: parallel calls do nothing but what they were asked;
  a prompt shows the skills of its session; a memo comes back by its tags;
* file and search tools: a change is made whole or not at all; no line and no
  match is hidden from a reader who does as told;
* OAuth: a token that is sent is still taken; the login survives what the program
  does to its file.

## 2. The plan

In the order of how much depends on them; all are done. What no theorem states is
liveness (section 5), and what no module models is in section 6.

1. `ToolBatch` (what `Dispatch` promises) and `ToolDispatcher`, which implements
   it; `ToolDispatcherProofs`, the refinement included.
2. `CancellationRequest`; `CancellationRequestProofs`.
3. `Ledger` and `LedgerProofs`.
4. `InteractionEngine`: the loop of `Process` over one session's rows and
   dispatches of one step: HTTP errors, the repair of the history, stops between
   calls and results, the pairing of calls with results in the next prompt;
   `InteractionEngineProofs`.
5. `ShellCommand`: `RunCommand` with its child, group, pipes and signals;
   its proofs are in `WorkerProofs`.
6. `MailModel`: the git tools, their guard, finalize, verify and reroll over an
   abstract repository with a parallel batch; `MailModelProofs`.
7. `HttpClient` (one request) and `OAuthHandler` on top of it (tokens, their file,
   the callers); `OAuthHandlerProofs`.
8. `Memos` and `Workspace` on top of it: skills, scratchpad, memos, mail mode, under
   commands and parallel calls; `WorkspaceProofs`.
9. `FileTools`: the file and search tools of a parallel batch; `WorkerProofs`, about
   this and `ShellCommand`, the two models of what a worker does on the machine.

Bounds as in section 4: the smallest at which two actors, two turns or two
sessions interact.

## 3. The modules

### ToolDispatcher, ToolBatch

The state is the code's: `tasks`, `stop` and the workers of the pool;
`remaining` and `results` of each batch (`SharedState`); the batch's
`CancellationRequest` as the flag `cancelled`; the thread that runs `Dispatch`
(`caller`, with its loop index `next`); the engine's `done` flag and `results`
(`delivered`). One action is one critical section or one call another thread can
see. Two things are worth a reader's attention:

* `Await` returns and releases the lock (`AwaitAll`), and a second critical
  section moves the results out (`MoveResults`): other threads may run between.
* `FinishTool` chooses what the executor reports. Tools that run a shell command
  give up once the request is cancelled; the calls in `endless` (a command
  without an end, which `execute_bash` runs without a time limit) do not end by
  themselves, and those in `deaf` not by Esc either. A silent child that has closed
  its outputs is waited for without a look at the request
  (`core/shell_util.cpp:181-190`), the git tools run their commands without it
  (`core/tool_executor.cpp:605-804`), and `query_db` does not see it at all. A worker
  in such a call stays there, `Dispatch` waits for it, and the engine polls for ever
  (`PollInVain`). Only the fate of a call is kept, not its text: `Execute` makes an OK text
  of every failure of a tool, so the row of an interrupted call says "completed",
  where `USERGUIDE.md:322` promises a `[Cancelled]` status.

`ToolBatch` is what a caller may rely on: a batch is submitted, may be cancelled,
each call is resolved once with a fate that only a cancelled batch may set to
skipped or interrupted, and the batch is handed back when all are resolved.
`ToolDispatcher!Batch` maps a batch's outcome to the shared slots while the
caller is in `Dispatch`, and to the moved vector afterwards.

### CancellationRequest

`Cancel` and `RegisterCallback` as steps of several threads, with the mutex as a
variable: the critical section and the running of the callbacks are separate
steps. A callback takes the mutex for a moment, as one that asks `IsCancelled`
does. Only tests register callbacks at this commit; the tools poll
`IsCancelled`, which `ToolDispatcher` models.

### Ledger

The tables are `rows`, `usage`, `known` with `window` (the `sessions` table), and
`anchor` (`session_state`). A handler's first statement is its action, the
writes it has left are in `todo`, and `Stop` drops them: that is every exit,
signal, abort or power cut. A row holds its turn's group, its kind, and the
version of the `### STATE` block in it, if any; contents are not modelled.
`RebuildContext` is one step per state it saves. A turn appends rows to its group
until it ends: when it goes on is the engine's matter. `torn` only observes: it
holds the sessions whose anchor a process was saving when it stopped.

Assumptions: the clock does not go back (rows are ordered by `created_at`, then
id), one process at a time uses the file, statements do not fail, and the
provider stays the same (`GetRelevantHistory` hides the tool rows of another).
A window of -1 hides the history from a prompt but not from a rebuild, where it
is the window 0. No row is `dropped` here: the only code that drops one is the
engine's repair, which `InteractionEngine` models.

### InteractionEngine

A turn of `Process` over the rows of one session, whose window is fixed. `pc` is
where the engine is: not running, at the prompt, about to send a request, or in
its loop over the rows behind `start_idx`. A row is a commit, so what
`ProcessResponse` and the loop are about to store waits in `writes` and goes in
row by row; `Stop` may come before any of them and leaves calls without results.
`Dispatch` is one step: that the results come back complete and in order is what
`ToolDispatcher` and `ToolBatch` show. The provider is chosen at each start. It decides how many
rows a response becomes (one per part for Gemini, one for all calls for OpenAI),
which tool rows a prompt shows (`StrategyMatches`), and how the prompt is put
together (`GeminiContents`, `OpenAiMessages`). "gemini" stands for "gemini_gca"
as well, whose rows it shares.

`Responses` and `Accepts` are the service: what a model may answer, and that a
prompt in which calls and results do not pair up is rejected. `HandleError` is
the code's reaction to a failed request, with the repair it contains and with the
cast of an HTTP code to a status (`StatusOf`) that stands before it. `cut` and
`mixed` only observe: the turns a stop interrupted, and those in which one
response named an enabled and an unknown tool.

Left out: statements that fail, the refresh of a token in the middle of a turn,
the delay between requests, and the length limits of results.

### ShellCommand

Several workers in `RunCommand` at once. `script` is what a command does, as far
as `RunCommand` can tell: whether it reads its input to the end, ends by itself,
ignores SIGTERM, closes its outputs, and leaves a job. `held` has the write ends
of pipes each process was given. No pipe is made close-on-exec and `fork` copies
all descriptors, so a child keeps the pipes of a command another worker was just
starting, and that command's end-of-file waits for the stranger (`Inherited`,
`AtEnd`).

The module's names carry a `Shell` where `FileTools` has the same, because the
proofs about both are one module; its `interrupted` is the batch's request.

`SeeCancel` and `SeeTimeout` are the two looks of the poll loop; both go to
`Look`, 50 ms later. The model assumes that within 50 ms of a SIGTERM, and within
the second of the smallest timeout, a child has made its process group; a SIGTERM
may come before that, and `missed` observes it. Outputs are one pipe, the input
fits into the pipe's buffer, and `poll` does not fail. Only tests pass a timeout
at this commit.

### MailModel

The workers of one batch in the git tools, on one repository. A commit is the
sequence of the patches up to it, `tip` has the branches, `head` and `at` are
HEAD, and `base` is `slop.basebranch`. A step is one git command that changes
something, with the commands that only read before it; the guard of `Execute`
(`CheckStagingBranch`) is a step of its own, because a parallel call may move HEAD
right after it. What git does is external: it refuses what it would refuse, and may
refuse to touch a tree with changes or a repository another call works on. A
rebase may meet a conflict and stop. Which exit codes the tools look at, and which
not, is in the actions: `CheckoutTarget` goes on in any case, `Merge` does not,
`DeleteBranch` and `UnsetBase` ignore theirs.

`moved`, `stale` and `slipped` only observe. A call under which another call of the
batch has moved HEAD since its guard is in `moved`; when such a call changes a
branch, the step is `stale`: a commit may land on main, and a verification beside a
finalization may lose a series. The code has no protection against it:
`NoPatchLost`, `BaseMovesByMerge` and `FinalizeLands` except it, and the run `mail` does
not explore what comes after it (`Fresh` in `MCMailModel`). `AtHome` and
`RerollKeepsSeries` do not except it; behind a stale step they rest on their
theorems (section 5), which know no constraint. `slipped` holds once a call has
overlooked a failed checkout, or used a branch name that was not its guard's.

`git_reroll_patch` rebases onto main whatever the recorded base is
(`core/tool_executor.cpp:819`), where `docs/mail_model_impl.md:117` has it use
`slop.basebranch` like the other tools. The model has it as in the code.
`RerollKeepsSeries` is about the base the document means, the one asked for or
recorded, and excepts by name the case in which the tool overlooks it
(`BaseOverlooked`: no base is asked for, and the recorded one is not main). So it does
not catch that fault; without the exception TLC finds it violated: with `dev`
recorded, a reroll of patch 1 rewrites the patch of `dev`, and the series goes on from a
copy that `dev` does not have, has more patches beyond its base than before, and
cannot be merged there any more. As git
does, `Rebased` leaves out patches the new base already has as they are; a patch
it has in another form, because an earlier reroll onto another base amended or
moved it, is picked a second time, which is the exception `Reworked`.
`FinalizeLands` says in two places what git makes of unusual states: a branch
whose rebase has stopped is not deleted, nor one that went on after it was merged,
as a target that is a series itself may.

Left out: `git_format_patch_series` and the summaries, which only read; a
repository without main; a directory without a repository, where the guard lets
every call pass (`core/tool_executor.cpp:587`) and git refuses it; what `execute_bash` does
besides editing files; an index below 1.

### HttpClient, OAuthHandler

`HttpClient` is one request of the main thread: `Request` is the entry of
`ExecuteWithRetry`, `Respond`, `TransferFails` and `SeeEsc` the three ways an
attempt ends, `Retry` the end of the sleep. Time is in ticks, and no clock is
kept: a timer has what is left, and the dates in a header are distances from now.
`abort` is the client's flag, `key` an Esc byte that waits on stdin until a
progress callback takes it. `owed` only observes: the ticks to the last moment
the server named, in whichever of its forms (`Moments`).

`OAuthHandler` extends it with `tokens_` and the token file, the two halves of
`SaveTokens` (the open truncates, the write fills), and the callers: the start,
the discovery of the project, the request of a turn, and the commands that ask the
service (`caller`). `Got` and `Failed` are what each makes of the result: the
start gives up where a login would help, the engine sends its request without the
header. `Login` is `slop_auth.sh`, which writes the file from outside at any
time. A token has two expiries: `left`, which the program reckons from the moment
the answer was here, and `real`, which the server counts from when it issued it.
`cut` only observes that a write of the file ended short.

Left out: a `--project` of the user's own, the wording of errors, numbers beyond
their width (`core/http_client.cpp:240` multiplies what a server states by 1000),
and answers that are no JSON object, which end the program by an exception: that
is `Stop`.

### Memos, Workspace

`Memos` is the table with its search. A text, be it a message or a tag, is a
sequence of tokens: words, and the signs the search splits at, of which blank, hyphen and
comma are told apart. A sign it does not split at (`?`, `!`, `/`, `*`, a backquote) is a word that
makes one word with its neighbours, so that "arch?" is not the word "arch".
`ExtractTags` splits, lowers and filters a text as the code does; `SearchTerms` is
what a search looks for, `Matches` the four patterns of the SQL statement, in which
only the hyphen ends a word of a tag; `ReadMarkdown` is what an editor's text
becomes, a column that is no JSON included. Which words find which tags
is stated by `MemoComesBack`: those between the hyphens of a tag, as a message has
them between its signs. So "what about arch?" does not bring back the memo tagged `arch`, nor does
any message find the tags `node.js` and `build cache` by their words, nor `API` by itself. A term
with a `_` or `%`, which LIKE reads as a pattern and so matches more, is left out.

`Workspace` extends it with the sessions' `active_skills` and `scratchpad`, the
registry of skills, the mail mode and the vector of active skills in the loop of
`main.cpp`. A command is one step. In a turn the calls of a batch read their row
(`Begin`) and write it (`Write`) with other calls in between; `Stop` may come at
any time. The prompt of a request is what `BuildSystemInstructions` and
`InjectRelevantMemos` take from the tables then. `before` only observes the row at
the beginning of the batch.

Left out: skills found by number rather than name; the text of skills and memos but
for whether it was edited; the two statements of `use_skill` that write are one
step; `/review`, `/feedback` and `/edit`, which start a turn as `Ask` does; a
window of -1, with which no system instruction is sent.

### FileTools

Texts are sequences of lines. `read_file` goes over its file twice, `write_file`
truncates and then writes, `apply_patch` asks for the size, reads, and ends in a
`write_file`; each is so many steps, with the steps of other calls between. A
buffer that was sized for more than was read holds NULs, a stream that writes
into a file another has written meanwhile overwrites its front. `Shown` is the cut
of a long result with its mark, `GrepTool` the choice between `git grep` and
`grep`. A list of patches is a fold of `Tried`, which gives up at the first patch that
does not match exactly once; what was asked for (`AllReplaced`) replaces only, so that
`AllOrNothing` compares two definitions. Regular expressions are equality; context lines and the staging guard
(which is in `MailModel`) are left out.

## 4. What is checked

| Run | Shows | Bounds |
| --- | --- | --- |
| `dispatch` | `CallInOnePlace`, `NothingLeftBehind`, `ResultsInCallOrder`, `NeverStuck`, the refinement `ImplementsBatch`, and liveness: `DispatchReturns`, `PoolIsJoined` | 2 workers, 2 batches, 3 calls, any of them endless or deaf |
| `cancellation` | `CallbackInOnePlace`, `NeverStuck`, and liveness: `CallbackRuns` | 3 threads, 3 callbacks |
| `ledger` | `NoOrphans`, `CopiesAgree`, `TurnIsPrivate`, `TurnsInOrder`, `AnchorUpToDate` | 2 sessions, 2 turns, 4 rows, 2 states, window 1 or all |
| `ledger_isolation` | *violated*: `/undo` in a clone also removes the turn from the session it was cloned from | same |
| `engine` | `EveryCallAnswered`, `PromptAccepted`, `PromptEndsWithNews` | 3 turns, 8 rows, window 2, 2 parts in a response, 1 enabled and 1 unknown tool |
| `engine_repair` | *violated*: a history rejected with 400 is not repaired; the code's test for the status never holds | 2 turns |
| `shell` | `ChildReaped`, `KilledGroupIsGone`, and liveness: `EscReturns`, `ReturnsByItself` | 2 commands, one with a timeout, 6 scripts |
| `shell_input` | *violated*: a command that reads its input waits for ever for a command it started with, which holds its pipe | 2 commands that read |
| `mail` | `NoPatchLost`, `AtHome`, `FinalizeLands`, `BaseMovesByMerge`, `RerollKeepsSeries` | 2 workers, 3 calls, 3 patches, main and 1 branch, 2 series |
| `requests` | `ServerIsHeard`, `LoginKept`, `FreshWhenSent`, `CancelledByKey`, and liveness: `RequestReturns` | 1 retry, back-off 1, time limit 2, leeway 2, life of a token 4, 1 login, 16 answers |
| `workspace` | `ActiveOnce`, `OnlyAsked`, `MemoComesBack`, `SkillsOfSession` | 2 sessions, 2 skills (1 shipped), 1 note, 2 workers, 3 commands or calls, 2 memos, 1 shown, 6 words, 4 messages, 3 sets of tags |
| `files` | `AllOrNothing`, `ReaderMissesNothing`, `NothingIsNothing` | 2 files (1 tracked), 2 lines, 3 contents, 3 lists of patches, 2 workers, limits 2 and 3 |

`NeverStuck` says of a state that its threads do not all wait for each other: while the
engine waits for a batch whose calls come to an end (`CallsEnd`), some thread of it
can go on. It is what `DispatchReturns` and
`CallbackRuns` owe to the code rather than to the scheduler, and unlike them it is proved
(section 5).

Each module states its type invariant (`TypeOK`, `ShellTypeOK`); for `ToolDispatcher`,
`CancellationRequest`, `Ledger`, `ShellCommand`, `FileTools`, `InteractionEngine`, `OAuthHandler` and
`Workspace` it is proved. `shell` checks it, because a child that is given the end of its own
input is a matter of types there; it may be added to the INVARIANTS of any other cfg.

Why these bounds are enough for the hazards they aim at: fewer workers than calls
makes calls wait while others run, two batches let a late worker of the first
meet the second; three threads allow two cancels and a registration at once; two
sessions, one of them the default, make a clone, its origin and a session under a
reused name; two turns with two states make a window of one turn hide a state,
and let a rebuild be cut between an old state and a new one. Three turns and a
window of two let the window hide a turn while another, of another provider or
cut by a stop, is still in the prompt; eight rows hold two rounds of two calls
and their results, or three turns of one call each. Two commands are enough for
a pipe to leak, each way; the scripts are the cases the code's branches tell
apart, from one that reads to one that no SIGTERM ends. Three git calls are a
write, a reroll and a finalization or verification beside either; a start with a
series of two patches stands for the calls that made it. With `MCSeries` cut
to one series the same properties were also checked for four calls.
For the requests: one retry has a first, a last and a repeated attempt, and a back-off
that doubles; a time limit equal to the leeway is the tightest the assumption of
the proofs allows, and a token that lives twice as long is fresh, near its expiry
and expired within one request. The 16 answers have each form of a stated wait
alone, malformed and in the past, two at once where the later one wins, and each
body that `OAuthHandler` tells apart. Two skills, one of them the patcher of
the mail mode, and two workers are what two updates need to collide; three
operations are a command and a batch of two, or two commands and a call. The words
are one that is long enough for a search, one that is too short and one that is a stop
word, with and without capitals, and a sign that does not split; the tags put the word
alone, behind a hyphen, behind a comma and behind a blank, and the messages have it alone, with
that sign attached, between hyphens with a capital, and not at all. Contents of none, one and
three lines with two equal ones make patches match not at all, once and twice, and
fill the limits of both searches up to their cut.

Fairness. `ToolDispatcher!FairSpec` schedules each worker, the dispatching
thread and the engine's loop weakly fairly: they are operating system threads, an
Await returns when its condition holds, and a tool that has started and may end
does end. Nothing obliges the user to press Esc, and a call that is deaf to it, once it
runs, is promised nothing: it has no fate it could be recorded with, so fairness has
no step to take. `DispatchReturns` therefore promises a return only for batches
whose calls end by themselves, or that are cancelled while none of the running
calls is deaf. Without that exception TLC finds both it and `NeverStuck` violated.
`CancellationRequest!FairSpec` is strongly fair per thread because the steps of a
call compete for a mutex that is handed over again and again.
`ShellCommand!FairSpec` schedules the workers inside `RunCommand` and the
children weakly fairly, and lets a script that ends, end; no command need be
started, no fork need fail, no timeout or key need come.
`OAuthHandler!FairSpec` lets the main thread run on (`Program`) and time pass
(`Tick`): a transfer that reaches its limit has no tick left to take, and libcurl
ends it there, so `RequestReturns` needs no server that answers, and nobody who
presses a key. The ledger and the
engine have no liveness property: nothing obliges a user to go on, and a model
that calls a tool in every response keeps a turn going for ever.
The tools of `files` and `workspace` wait for nothing.

`mail` does not check for deadlock: the calls are bounded. Nor do `shell` and
`shell_input`: `RunCommand` may wait for ever. A child that has closed its outputs
and does not end is waited for without a look at the request; that is the
exception in `EscReturns`. The other runs check for deadlock.

Some more places where the code and its documents part are not runs, and the
properties around them except them: the row of an interrupted call (above); `/undo` leaves the
anchor of the undone turn when no row in the window holds another, where
`CONTEXT_MANAGEMENT.md:205` says it rebuilds; a response with an enabled and an
unknown tool in one row sends a result without its call (`mixed`); `git_reroll_patch`
takes main where `docs/mail_model_impl.md:117` has it take the recorded base
(`BaseOverlooked`); and tags behind
a comma keep their blank in the editor and are not found, nor are words with a sign
attached or tags with inner blanks or dots, where `USERGUIDE.md:154` says a search
finds memos by tag.

`PromptAccepted` states how far the history can be trusted: with no repair, a
prompt is accepted as long as no turn in its window was cut and none had an
enabled and an unknown tool in one response. Window, provider changes and unknown
tools on their own do not break it.

`AnchorUpToDate` states exactly how far the anchor can be trusted. It holds for
every session except those in `torn`, and a rebuild takes a session out of `torn`
when it sees the row the stopped process had not saved. Two ways around that
rebuild exist and are the reason for the exception: a batch run does not rebuild,
and after its turn a narrow window hides the row; and removing the current
session falls back to the default one without a rebuild.

Each property of a passing run has a mutant: a faulty variant of one definition,
written above it in its module (an off-by-one in the wait, a closure that files
by arrival, a removal in the wrong order, a group id given twice, ...), with which
TLC finds the property violated.

## 5. What is proved

In `ToolDispatcherProofs`, for every set of workers, number of batches and batch
size: `TypeCorrect`, `CallConservation` (`[]CallInOnePlace`), `NoZombies`
(`[]NothingLeftBehind`) and `ResultsPairedWithCalls` (`[]ResultsInCallOrder`),
from `Invariance`. The inductive invariant `IInv` adds to the type and
`CallInOnePlace`:

* `ThreadInv`: how the engine, the dispatching thread and `done` go together: no
  thread is in `Dispatch` unless the engine polls, and `done` is set only after;
* `TaskInv`: every queued or held task is one of the current batch's calls that
  have been queued, and a worker's finished result is the one of its task's call;
* `SlotInv`: a slot that is filled holds the result of its own call, and only the
  current batch has filled slots;
* `CountInv`: `remaining` is the number of calls without a recorded result.

`CountInv` is why the others matter: `AllDone` only looks at `remaining`, so that
nothing is left behind when it is zero needs the count to be exact, which needs
each call to be in one place. The assumptions are those of the module: the bounds
are natural numbers and the pool is finite.

In `LedgerProofs`, for every set of sessions, windows, texts and any bounds:
`TypeCorrect`, `RowsHaveOwners` (`[]NoOrphans`), `TurnsArePrivate`
(`[]TurnIsPrivate`), `ClonesAgree` (`[]CopiesAgree`), `TurnsOrdered`
(`[]TurnsInOrder`) and `AnchorsUpToDate` (`[]AnchorUpToDate`). `IInv` is `TypeOK`,
`RowsInv` and `AnchorInv`:

* `RowsInv` joins the run's properties of the rows with what they rest on: a
  process that runs has a session (`ProcessInv`), group ids and row ids are below
  their counters (`CountsInv`), and the rows are in the order of their ids and
  groups (`OrderInv`). That a turn is private needs the counts, because its group
  is new; that a clone agrees with its origin needs that turns are private,
  because only the current turn's group gains rows;
* `AnchorInv` says what the pending writes may rely on (`TodoInv`: the statement
  that came before is done) and that an anchor is behind its session's rows only
  while it is being saved, or is torn (`LagInv`).

`TypeOK` is not inductive alone: what becomes an anchor is what a pending write
holds. The step that carries `AnchorsUpToDate` is the lemma `HistoryIsNewest`: the
window shows the newest groups, so the newest text among the rows is in every
window that shows any; it is a count of groups. Assumptions: the default session is
a session, and the bounds and windows are numbers.

`WorkerProofs` is about what a batch's workers do on the machine: `FileTools` and
`ShellCommand`, which share nothing but these threads.

Of the commands, for every set of them and all scripts: `ShellTypeCorrect`, `NoZombies`
(`[]ChildReaped`) and `GroupsEnd` (`[]KilledGroupIsGone`). `ShellInv` is `ShellTypeOK`
and, for each command, `CommandInv`: why it was ended
(`EndedByItself`, `AfterSignal`), what holds before there is a child
(`Beginnings`), that a command that has returned is reaped (`Reaped`), and what is
left of its group (`GroupGone`). A step of one worker changes its own command
only, which is a lemma of its own.

Of the files, for any files, lines, lists of patches, workers and limits:
`FilesTypeCorrect`, `WholeOrNot` (`[]AllOrNothing`), `HintsLeadOn`
(`[]ReaderMissesNothing`) and `SearchIsThorough` (`[]NothingIsNothing`). `FileInv` says
what each call may still count on, whatever the other calls of its batch do:

* `Typed`, `Placed`: a call is where its tool can be, and the file it has looked at or
  opened is there; none of the tools removes one;
* `Untouched`: a file no call of the batch writes is as it was when the batch began;
* `WriterInv`, for a writer alone on its file: up to the moment it opens the file, that is
  the one of the beginning; between opening and writing it is empty; and a patch opens it
  only with the text of a list that has matched as a whole (`Agreed`). An error is reported
  only before the file is opened;
* `ReaderInv`: a reader of a file nobody writes counts on its second pass the lines it
  counted on the first;
* `SearchInv`: a search that found nothing, where nobody writes, had nothing to find.

`AllOrNothing` compares the tool's fold, which searches for the one occurrence of each
text, with a fold that replaces. A fold is defined by a recursive function over sets of
numbers, so both are turned into runs first, a sequence of states each the step of the one before
(`FoldExists`, `FoldRun`), and the runs are compared step by step (`PatchedRun`,
`ReplacedRun`, `PatchedAsAsked`): a text that occurs once is where the first
occurrence is (`FirstPlace`, `OnlyPlace`). The induction is over a set of numbers
(`NatInduct`), as the library's theorem for it takes an operator.
Two assumptions came out of these proofs: there are finitely many
files, without which the matches of a search are no sequence, and `grep` shows at least
one line, without which `NothingIsNothing` fails; the code shows 50. And
`AllOrNothing`, as it was stated before, had a `CASE` with two arms that may hold
together when a write fails, which leaves its meaning open; it is now an `IF`.

`ToolDispatcherProofs` also has `DispatchIsABatch`, that the pool implements
`ToolBatch` (`Spec => ImplementsBatch`). Every step of a thread is
a step of the abstract batch or leaves it as it is. Most are the latter: queueing, popping
and skipping touch no slot. It adds `FateInv`: a recorded fate is one the tools and
the dispatcher can give, so that only a cancelled batch has skipped or interrupted
calls. That nothing is handed back before all are resolved is `CountInv` again.

Its `NoDeadlock` (`[]NeverStuck`) is what can be proved of `DispatchReturns`. Like it, it
supposes `CallsEnd`: the calls end by themselves, or Esc was pressed and none that is deaf runs. It adds
`LeaveInv`, that a worker leaves only a stopped pool. A caller who waits while `remaining`
is not zero misses a call (`CountInv`); the call is queued or held (`CallInOnePlace`); held, its
worker can go on, and queued, there is a worker who takes it or is busy and can go on.
It supposes that the pool has a worker: the code's default is 4, but `--max_parallel_tools`
is not checked, and with 0 the first batch would be waited for without end.

In `CancellationRequestProofs`, for any threads and any finite set of callbacks:
`TypeCorrect` and `CallbacksConserved` (`[]CallbackInOnePlace`). `IInv` is `TypeOK`,
`ThreadInv` (where a thread is says what it carries, and a cancelled request has none),
`PlaceInv` (no callback is in two places, or twice in one) and `OnceInv` (it has run
at most once, and not while it is anywhere else). The property is a sum of three
counts; the lemma `CountOfOne` turns each into a statement on membership, and
`ListFits` bounds a list of distinct callbacks by their number. `NoDeadlock`
(`[]NeverStuck`) rests on `MutexInv`: who holds the mutex is in a critical section, and so
does not run a callback, which would want it.

In `OAuthHandlerProofs`, for any number of retries, time limits, leeways, lives of a
token and answers: `TypeCorrect`, `ServersAreHeard` (`[]ServerIsHeard`),
`LoginsAreKept` (`[]LoginKept`), `TokensAreFresh` (`FreshWhenSent`) and `EscCancelsOnce`
(`CancelledByKey`). `IInv` is `TypeOK` and

* `HttpInv`: what is left of a sleep covers what the server is owed, and a request
  under way has not been aborted;
* `TokensInv`: a token came from a login, and lives at least until the time limit of a
  transfer before the expiry the program reckons with, in memory and in the file;
* `FileInv`: the file holds a refresh token once there was a login, and is torn only
  while it is written, or was cut.

`TokensAreFresh` rests on the assumption `Timeout <= Leeway < Life`, which the code's
numbers fulfil with equality (60 and 60 seconds, 3600). That the longest wait is
taken needs the maximum of a finite set of delays to exist (`LargestExists`), which is
proved from the well-foundedness of the strict subsets, without induction.

In `MailModelProofs`, for any repository, number of workers, calls and patches:
`HeadComesHome` (`[]AtHome`) and `BasesAreTheUsers` (`BaseMovesByMerge`). `StartInv` says
where a call counts on its guard: from then on HEAD is on a series, or the branch it
came from is one, unless another call has moved HEAD. `ReturnInv` and `HeadInv` say
that a verification knows the branch to return to and that nothing but it and a
stopped rebase detaches HEAD. Neither result needs to know what a commit is, so
their invariant `IInv` does not type them.

On top of it, `PatchesStay` (`[]NoPatchLost`), `SeriesLand` (`[]FinalizeLands`) and
`SeriesKeepTheirPatches` (`RerollKeepsSeries`) are about the commits. Their invariant
`SInv` is

* `RepoInv`: the branches and HEAD hold sequences of patches, HEAD and a stopped rebase
  are of branches there are;
* `ListsInv`: a call has commits before it, and a fixup one that is not empty;
* `LandInv`: how far a finalization that nobody has disturbed has come: it left a
  series for another branch, HEAD is there from the checkout on unless it was
  refused, and from the merge on that branch has the series as its beginning;
* `NoPatchLost` itself. It is inductive with the rest: a branch goes only when HEAD's
  has all it had, a branch moves only to what has its ids, and
  a rebase drops only what the new base has or what is squashed into what stays.

`LandInv` is needed because what makes `git branch -d` safe, and makes it happen, was
decided two commands earlier. The lemmas on the operators hold for every sequence:
`Ranks` (what `Kept` picks is picked in order), `KeptFacts`, `KeptTwice` and `KeptConcat`
(what is kept of what was kept, and of two sequences), `SharedFacts` and
`SharedAndBeyond` (a commit is what it shares with another and what it has beyond),
`SquashFacts` and `SquashOrder` (a squash loses no id and no order), `RebasedOrder`. The
last one first failed for `RerollKeepsSeries` as it was stated before: with more than the
three calls of the run, a series may hold an amendment that an aborted rebase left
unsquashed, or a patch that a reroll at the same time has moved below the base, and
the reroll of it need not squash. The property now speaks of the patches the series has of
its own (`Own`), and the order includes those of the base. That the series ends on top
of the base asked for or recorded needs one invariant more, `OntoInv`: between its
commands a reroll keeps the base it was given, or main. `NoPatchLost` needs a second
branch of the user (`BasesAssumption`), because patch 1 is on it.

In `InteractionEngineProofs`, for any number of turns and rows, windows, tools and
responses: `TypeCorrect`, `CallsAnswered` (`[]EveryCallAnswered`), `PromptsAccepted`
(`[]PromptAccepted`) and `PromptsEndWithNews` (`[]PromptEndsWithNews`). `IInv` is `TypeOK` and

* `TurnInv`: no row is of a later turn than the current one, and only the loop
  has rows it has yet to store;
* `PastInv`: in every turn that is over and was not cut, and in the current one when
  the model is asked, the calls and the results pair up in order;
* `ScanInv`: in the loop over the new rows, what stands before the row the loop is at has
  been answered by the rows behind the last; the rows between are new ones,
  and the bound on rows leaves room for their results.

`EveryCallAnswered` says nothing of the middle of a loop, and a response may have
several rows with calls, so the invariant relates the loop's index to the
results stored so far. What a turn has called is a fold over rows; that it is
a concatenation over a concatenation (`GatherConcat`) is proved once, from the definition of
the fold as a recursive function. Of `HandleError` only the end of the turn is left to prove
(`Codes`): its repair is behind a test for a status that `StatusOf` never yields, which the
run `engine_repair` shows.

`EveryCallAnswered` compares all calls of a turn with all its results; a service
compares each message with the one behind it, and of the rows only those the
window and the strategy filter leave. The other two theorems need to know how the rows
follow each other, whoever stored them. `RoundsInv` says it: there is a sequence `q`, `q[k]`
what the first `k` rows leave to be answered (the turn, its provider, the calls not answered,
whether results have begun), and each row may stand where it does (`Follows`): a
user's row opens a newer turn when nothing is left or the turn was cut, a text or a call
comes before the results of its turn, a result answers the first call that is left. `Now`
says of `q`'s end what the engine is about to do: in the loop, what is left is what the waiting
rows and those not dispatched yet will answer (`ScanNow`). `RoundsInvariance` is this
invariant.

`PromptMatches` then walks over the rows, one at a time, next to the prompt's contents
that the rows so far make (`Match`): if the calls of the round are in the prompt and of
enabled tools, the contents end in a message that asks for them, or in a message with the results
of the first of them; else every message with calls has its results behind it. A hidden
row adds nothing, and the calls and results of its round are hidden together (`HiddenRow`), which is where the window of
whole groups and the strategy filter count; results of unknown tools are texts, as are their
calls (`CallRow`, `ResultRow`), which is where `mixed` counts. When the model is asked no
call is left, so all are paired; that Gemini's dropping of function contents and the
service's joining of results then change nothing is `PairsStay`. That a fold one row longer
is a step more is proved for each of the five folds (`HistGrows` and the others), because no
installed prover can instantiate a lemma about an operator. `PromptsEndWithNews` adds that the
last row is of the newest turn and so in every window (`LastShown`). `Sound` is the
hypothesis of both: section 4 says what the code does without it.

In `WorkspaceProofs`, for any skills, sessions, notes, memos and finite pool of workers:
`TypeCorrect`, `SkillsOnce` (`[]ActiveOnce`), `OnlyWhatWasAsked` (`[]OnlyAsked`),
`MemosComeBack` (`[]MemoComesBack`) and `PromptsFitSessions` (`SkillsOfSession`). A call writes
what it has read a step before, whatever another has written since; so the
invariant says of every pending call's reading what the properties say of the rows:

* `RowsInv`, `VectorInv`, `JobsInv`: no list repeats a skill, neither a row's, nor the
  loop's vector, nor what a call has read; at the prompt the vector is the list
  of its session;
* `BatchInv`: a row, and what a pending call has read of it, departs from the row before the
  batch only by what calls of the batch ask for;
* `RegistryInv`: a skill was counted once per operation at most, pending calls not
  included, which bounds the counts;
* `TableInv`, `PromptInv`: the memos, and that a prompt has those its message selects.

`MemosComeBack` is about texts of any length. A word of the message must come out of the
second split as it went in (`WordIsTerm`: what was split and lowered has no sign and no capital
left, so it is its own only word), and what stands between two hyphens of a tag must be where
one of the four patterns looks (`WordMatches`). `SplitFacts` says what a stretch between
signs is, `Stretch` and `WholeText` what its tokens are, `LoweredFacts` that lowering moves
no sign. That the prompt shows the first few needs that the filter keeps
order and loses nothing: the same `Ranks`, here for the ids of memos.

Model-checked only: liveness, which is out of the prover's reach as is ENABLED
(`DispatchReturns`, `PoolIsJoined`, `CallbackRuns`, `EscReturns`, `ReturnsByItself`,
`RequestReturns`). Every invariant and action property that a run checks is stated by a
theorem. The modules declare no recursive operator.

## 6. What is not modelled

Formatting, colours, line editing and markdown: output without state. Of the commands
the listings, `/stats`, `/models`, `/exec`, `/schema`, `/model` and `/throttle`; of
the tools `list_directory` and `describe_db`, which read, and `query_db`, which hands any SQL
the model writes to the ledger and may so change all of it; the summary `git_grep_tool` puts
before a long result (its `-c` stands behind `--`, so with a path it is taken for one of the
paths and the summary lists the matches again); the formatting of
a patch series, the instruction text, reviews and quota displays; the truncation of
long results; the delay between requests. The `tools` table, which the start fills
and nothing changes. SQLite, git, curl and the model's answers are not modelled as
programs; they are the choices the actions make. Statements do not fail, and, but
for the token file, neither do writes. Two processes on one ledger at the same time:
the code has no protocol for that.
