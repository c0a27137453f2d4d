--------------------------- MODULE InteractionEngine ---------------------------
(***************************************************************************)
(* A turn of the conversation: the loop of InteractionEngine::Process, the *)
(* rows that ProcessResponse stores for each provider, the calls it finds  *)
(* in them (core/message_parser.cpp), and the prompt the next request      *)
(* carries (GetRelevantHistory, AssemblePayload).                          *)
(*                                                                         *)
(* One session, with a fixed window.  A dispatch is one step: all calls    *)
(* come back, in order, as module ToolDispatcher shows.  A row is a commit *)
(* of its own, and the program may stop before any of them.  The provider  *)
(* is chosen at the start; "gemini" stands for "gemini_gca" too, each of   *)
(* which sees the other's rows.  The service rejects with 400 a prompt     *)
(* whose calls and results do not pair up.                                 *)
(***************************************************************************)
EXTENDS Naturals, Sequences, FiniteSets, SequencesExt

CONSTANTS
    Tools,      \* the names the model may call
    Enabled,    \* those the tools table enables; the others it made up
    Window,     \* context_size
    MaxTurns,   \* bound: turns begun
    MaxRows,    \* bound: rows stored
    MaxParts    \* bound: parts in a response

ASSUME ToolsAssumption == Enabled \subseteq Tools /\ "text" \notin Tools
ASSUME WindowAssumption == Window \in Nat
ASSUME BoundsAssumption == MaxTurns \in Nat /\ MaxRows \in Nat /\ MaxParts \in Nat

Providers == {"gemini", "openai"}

VARIABLES
    rows,       \* messages of the session, in order
    pc,         \* "off" | "input" | "post" | "scan"
    provider,   \* the strategy's name
    group,      \* group_id of the turn, 0 at the prompt; a later turn's is higher
    writes,     \* the rows that are to be appended before anything else
    at, last,   \* the loop over history_after: where it is, where it ends
    called,     \* has_tool_calls
    \* observed: how many turns, those a stop cut, those in which one response
    \* called an enabled and an unknown tool
    turns, cut, mixed

engine == <<provider, group, at, last, called>>
seen   == <<turns, cut, mixed>>
vars   == <<rows, pc, writes, engine, seen>>

\* A call; OpenAI names it, Gemini has only the tool's name.
Call  == [id : Nat \X Nat, tool : Tools]
Kinds == {"user", "text", "call", "result", "dropped"}
\* group 0 is NULL; calls: what a call row asks for, what a result row answers.
Row   == [group : 0 .. MaxTurns, kind : Kinds, by : Providers, calls : Seq(Call)]

TypeOK ==
    /\ rows \in Seq(Row) /\ Len(rows) <= MaxRows
    /\ pc \in {"off", "input", "post", "scan"}
    /\ provider \in Providers
    /\ group \in 0 .. MaxTurns
    /\ writes \in Seq(Row)
    /\ at \in 1 .. MaxRows + 1 /\ last \in 0 .. MaxRows
    /\ called \in BOOLEAN
    /\ turns \in 0 .. MaxTurns
    /\ cut \subseteq 1 .. MaxTurns /\ mixed \subseteq 1 .. MaxTurns

Init ==
    /\ rows = <<>> /\ pc = "off" /\ provider = "gemini" /\ group = 0
    /\ writes = <<>> /\ at = 1 /\ last = 0 /\ called = FALSE
    /\ turns = 0 /\ cut = {} /\ mixed = {}

-----------------------------------------------------------------------------
\* The prompt.

NewRow(kind, calls) == [group |-> group, kind |-> kind, by |-> provider, calls |-> calls]
ToolRow(r) == r.kind \in {"call", "result"}

GroupsSeen == {rows[i].group : i \in {j \in DOMAIN rows : rows[j].kind # "dropped"}} \ {0}

\* The rows in the n newest groups; those without a group are in every window.
Within(r, n) ==
    \/ n = 0 \/ r.group = 0
    \/ Cardinality({g \in GroupsSeen : g > r.group}) < n

\* A faulty filter that takes the tool rows of every provider.
EveryStrategy(r) == TRUE
\* GetRelevantHistory keeps the tool rows of the strategy in use only.
StrategyMatches(r) == ToolRow(r) => r.by = provider

\* A faulty window that counts rows.
LastRows ==
    LET first == IF Window \in 1 .. Len(rows) THEN Len(rows) - Window + 1 ELSE 1
    IN SelectSeq(SubSeq(rows, first, Len(rows)),
                 LAMBDA r : r.kind # "dropped" /\ StrategyMatches(r))
\* The prompt's rows.
History ==
    FoldLeft(LAMBDA h, r : IF r.kind # "dropped" /\ Within(r, Window) /\ StrategyMatches(r)
                           THEN Append(h, r) ELSE h, <<>>, rows)

\* All calls of the row are of enabled tools.
Valid(r) == \A i \in DOMAIN r.calls : r.calls[i].tool \in Enabled

\* A row in the prompt.  A call row with an unknown tool becomes a text, a
\* result of one a text of the user.
Content(r) ==
    [role    |-> IF r.kind \in {"text", "call"} THEN "model"
                 ELSE IF r.kind = "result" /\ Valid(r) THEN "tool" ELSE "user",
     calls   |-> IF r.kind = "call" /\ Valid(r) THEN r.calls ELSE <<>>,
     results |-> IF r.kind = "result" /\ Valid(r) THEN r.calls ELSE <<>>]

EndsIn(contents, role) == contents # <<>> /\ Last(contents).role = role

Merge(contents, c) ==
    IF EndsIn(contents, c.role)
    THEN [contents EXCEPT ![Len(contents)] =
            [role |-> c.role, calls |-> @.calls \o c.calls, results |-> @.results \o c.results]]
    ELSE Append(contents, c)

\* Gemini merges contents of one role, then drops function contents that do
\* not follow the model's.
GeminiContents(h) ==
    LET merged == FoldLeft(LAMBDA cs, r : Merge(cs, Content(r)), <<>>, h)
    IN FoldLeft(LAMBDA cs, c : IF c.role = "tool" /\ ~EndsIn(cs, "model")
                               THEN cs ELSE Append(cs, c), <<>>, merged)

\* OpenAI merges the rows of the user with what the user said before.
OpenAiMessages(h) ==
    FoldLeft(LAMBDA ms, r : IF r.kind = "user" THEN Merge(ms, Content(r))
                            ELSE Append(ms, Content(r)), <<>>, h)

Payload == IF provider = "gemini" THEN GeminiContents(History) ELSE OpenAiMessages(History)

\* The service: calls are followed by their results at once, and by nothing
\* else; OpenAI takes each result as a message of its own.
Accepts(payload) ==
    LET cs == FoldLeft(LAMBDA s, c : IF c.role = "tool" THEN Merge(s, c) ELSE Append(s, c),
                       <<>>, payload)
    IN \A i \in DOMAIN cs :
        /\ cs[i].calls # <<>> =>
             /\ i < Len(cs)
             /\ Len(cs[i].calls) = Len(cs[i + 1].results)
             /\ ToSet(cs[i].calls) = ToSet(cs[i + 1].results)
        /\ cs[i].results # <<>> => i > 1 /\ cs[i - 1].calls # <<>>

-----------------------------------------------------------------------------
Start(p) ==
    /\ pc = "off"
    /\ pc' = "input" /\ provider' = p
    /\ UNCHANGED <<rows, writes, group, at, last, called, seen>>

\* The process ends, wherever it is; a stop in the middle of a turn cuts it.
Stop ==
    /\ pc # "off"
    /\ pc' = "off" /\ group' = 0 /\ writes' = <<>>
    /\ at' = 1 /\ last' = 0 /\ called' = FALSE
    /\ cut' = IF group = 0 THEN cut ELSE cut \cup {group}
    /\ UNCHANGED <<rows, provider, turns, mixed>>

\* The user's input opens the turn's group.
Ask ==
    /\ pc = "input" /\ turns < MaxTurns /\ Len(rows) < MaxRows
    /\ turns' = turns + 1 /\ group' = turns'
    /\ rows' = Append(rows, [NewRow("user", <<>>) EXCEPT !.group = group'])
    /\ pc' = "post"
    /\ UNCHANGED <<writes, provider, at, last, called, cut, mixed>>

AppendMessage ==
    /\ writes # <<>>
    /\ rows' = Append(rows, Head(writes)) /\ writes' = Tail(writes)
    /\ UNCHANGED <<pc, engine, seen>>

\* What a response may consist of: Gemini mixes texts and calls, an OpenAI
\* message has calls or else a text.
Responses ==
    LET Parts(S) == UNION {[1 .. n -> S] : n \in 1 .. MaxParts}
    IN IF provider = "gemini" THEN Parts(Tools \cup {"text"}) ELSE Parts(Tools) \cup {<<"text">>}

\* ProcessResponse: a row for each part of Gemini's, one row for all of
\* OpenAI's calls.
RowsOf(parts) ==
    IF provider = "openai" /\ parts # <<"text">>
    THEN <<NewRow("call", [i \in DOMAIN parts |-> [id |-> <<Len(rows), i>>, tool |-> parts[i]]])>>
    ELSE [i \in DOMAIN parts |->
            IF parts[i] = "text" THEN NewRow("text", <<>>)
            ELSE NewRow("call", <<[id |-> <<0, 0>>, tool |-> parts[i]]>>)]

\* Faulty: the loop takes the group's rows from its first one, start_idx lost.
FirstOfGroup == 1 + Cardinality({i \in DOMAIN rows : rows[i].group # group})
\* start_idx: the loop begins behind the rows there were before the response.
FirstNew == Len(rows) + 1

AcceptResponse(parts) ==
    /\ pc = "post" /\ Accepts(Payload)
    /\ Len(rows) + 2 * Len(parts) <= MaxRows
    /\ pc' = "scan" /\ writes' = RowsOf(parts)
    /\ at' = FirstNew /\ last' = Len(rows) + Len(writes') /\ called' = FALSE
    /\ mixed' = IF \E i, j \in DOMAIN parts :
                     parts[i] \in Enabled /\ parts[j] \in Tools \ Enabled
                THEN mixed \cup {group} ELSE mixed
    /\ UNCHANGED <<rows, provider, group, turns, cut>>

EndTurn == pc' = "input" /\ group' = 0

\* No JSON, no candidate, no message: "Process Error".
BadResponse ==
    /\ pc = "post" /\ Accepts(Payload) /\ EndTurn
    /\ UNCHANGED <<rows, writes, provider, at, last, called, seen>>

-----------------------------------------------------------------------------
\* A request that fails.  absl's canonical codes are 0 .. 16, and a Status
\* made of another number has the code kUnknown.
kCancelled == 1
kUnknown == 2
kInvalidArgument == 3
kInternal == 13

\* The client casts the response's code to a StatusCode.
StatusOf(code) == IF code \in 0 .. 16 THEN code ELSE kUnknown

\* The rows the repair looks through, the newest ten groups.
Droppable == {i \in DOMAIN rows : ToolRow(rows[i]) /\ Within(rows[i], 10)}

\* The repair of a rejected history drops its last tool row, leaves a note
\* without a group and asks again; any other failure ends the turn.
HandleError(status) ==
    /\ IF status = kInvalidArgument /\ Droppable # {}
       THEN /\ \E i \in Droppable :
                 /\ \A j \in Droppable : j <= i
                 /\ rows' = Append([rows EXCEPT ![i].kind = "dropped"],
                                   [NewRow("user", <<>>) EXCEPT !.group = 0])
            /\ UNCHANGED <<pc, group>>
       ELSE EndTurn /\ UNCHANGED rows
    /\ UNCHANGED <<writes, provider, at, last, called, seen>>

Reject == pc = "post" /\ ~Accepts(Payload) /\ HandleError(StatusOf(400))

\* Another HTTP code, Esc, no connection.
Fail == pc = "post" /\ \E s \in {StatusOf(401), StatusOf(503), kCancelled, kInternal} : HandleError(s)

-----------------------------------------------------------------------------
\* The loop over the new rows of the group.

\* The rows that record a row's results, tagged with the call's strategy.
ResultsFor(r) ==
    [i \in DOMAIN r.calls |->
       [group |-> group, kind |-> "result", by |-> r.by, calls |-> <<r.calls[i]>>]]

Scanning == pc = "scan" /\ writes = <<>>

Dispatch ==
    /\ Scanning /\ at <= last /\ rows[at].kind = "call"
    /\ writes' = ResultsFor(rows[at])
    /\ at' = at + 1 /\ called' = TRUE
    /\ UNCHANGED <<rows, pc, provider, group, last, seen>>

PassOver ==
    /\ Scanning /\ at <= last /\ rows[at].kind # "call"
    /\ at' = at + 1
    /\ UNCHANGED <<rows, pc, writes, provider, group, last, called, seen>>

\* Faulty: the turn goes on whatever the response was.
AsksAgainAlways == TRUE
\* has_tool_calls
AsksAgain == called

\* After calls the model is asked again, else the turn is over.
EndScan ==
    /\ Scanning /\ at > last
    /\ IF AsksAgain THEN pc' = "post" /\ UNCHANGED group ELSE EndTurn
    /\ UNCHANGED <<rows, writes, provider, at, last, called, seen>>

Next ==
    \/ \E p \in Providers : Start(p)
    \/ Stop \/ Ask \/ AppendMessage
    \/ \E parts \in Responses : AcceptResponse(parts)
    \/ BadResponse \/ Reject \/ Fail
    \/ Dispatch \/ PassOver \/ EndScan

Spec == Init /\ [][Next]_vars

-----------------------------------------------------------------------------
Gathered(g, kind) ==
    FoldLeft(LAMBDA s, r : IF r.group = g /\ r.kind = kind THEN s \o r.calls ELSE s, <<>>, rows)

\* Whenever the model is asked, and after every turn that was not cut, each
\* call of the turn has one result, in the order of the calls: none is run
\* again when the loop comes round, none is left out because a row before it
\* was a text.
EveryCallAnswered ==
    \A g \in 1 .. turns :
        g \notin cut /\ (g = group => pc = "post") => Gathered(g, "call") = Gathered(g, "result")

\* The tool rows in the prompt are of turns that were not cut and in which no
\* response named an enabled and an unknown tool.
Sound == \A i \in DOMAIN History :
            ToolRow(History[i]) => History[i].group \notin cut \cup mixed

\* Then the service takes the prompt, whatever the window hides, however often
\* the provider has changed and whichever unknown tools were called.
PromptAccepted == pc = "post" /\ Sound => Accepts(Payload)

\* The model is asked when it has something to answer: the prompt ends with
\* the user's words or a tool's result, not with its own.
PromptEndsWithNews ==
    pc = "post" /\ Sound => EndsIn(Payload, "user") \/ EndsIn(Payload, "tool")

-----------------------------------------------------------------------------
\* What the engine's log says of a 400: it attempts to repair the history.
RejectedIsRepaired == [][Reject /\ Droppable # {} => rows' # rows]_vars
=============================================================================
