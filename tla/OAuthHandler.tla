------------------------------ MODULE OAuthHandler ------------------------------
(***************************************************************************)
(* OAuthHandler (core/oauth_handler.cpp) on top of HttpClient, as the      *)
(* program uses the two: the token checked at the start, the project       *)
(* discovered, and a token asked for before each request for the model or  *)
(* for the quota.  tokens_ and the token file are two copies of one thing; *)
(* saving truncates the file and then writes it, and the program may end   *)
(* at any step.  slop_auth.sh writes the file from outside, at any time.   *)
(*                                                                         *)
(* The expiry the program reckons with (left) and the one the server keeps *)
(* (real) differ by the time the answer took.  The program has no --project*)
(* of its own.                                                             *)
(***************************************************************************)
EXTENDS HttpClient

CONSTANTS
    Leeway,     \* a token this near to its expiry is refreshed: 60 seconds
    Life,       \* expires_in: 3600 seconds
    MaxLogins   \* bound: runs of slop_auth.sh

ASSUME OAuthAssumption ==
    /\ Leeway \in Nat /\ Life \in Nat /\ MaxLogins \in Nat
    /\ Timeout <= Leeway /\ Leeway < Life

VARIABLES
    pc,         \* of the main thread: see Places
    caller,     \* who asked for the token: "start" | "project" | "turn" | "command"
    tokens,     \* tokens_; refresh is the login it came from, 0 for ""
    file,       \* [kind, tok], the token file
    sent,       \* the Authorization header of the last request: "bearer" | "blank" | "none"
    logins,     \* runs of slop_auth.sh so far
    cut         \* observed: a write of the file was cut short

ownVars == <<pc, caller, tokens, file, sent, logins, cut>>
vars    == <<httpVars, ownVars>>

\* open and write are the two halves of SaveTokens; keep and store, those of
\* the one that follows the discovery of the project.
Places  == {"off", "token", "refreshing", "open", "write", "project", "discover",
            "listing", "keep", "store", "ready", "request"}
Callers == {"start", "project", "turn", "command"}

Token == [access : BOOLEAN, refresh : 0..MaxLogins, left : 0..Life, real : 0..Life,
          project : BOOLEAN]
NoTokens == [access |-> FALSE, refresh |-> 0, left |-> 0, real |-> 0, project |-> FALSE]
Missing  == [kind |-> "missing", tok |-> NoTokens]
Torn     == [kind |-> "torn", tok |-> NoTokens]
Saved(t) == [kind |-> "tokens", tok |-> t]

Init ==
    /\ HttpInit
    /\ pc = "off" /\ caller = "start" /\ tokens = NoTokens /\ file = Missing
    /\ sent = "none" /\ logins = 0 /\ cut = FALSE

Goto(place) == pc' = place /\ UNCHANGED httpVars
Call(place) == pc' = place /\ Request

----------------------------------------------------------------------------
(* GetValidToken, and what each caller does with its result.               *)

\* A token for the caller: the start goes on to the project, the project to its
\* discovery, the others to their request; /models ends at the token.
Got(t) ==
    /\ CASE caller = "start"   -> Goto("project")
         [] caller = "project" -> Call("discover")
         [] caller = "turn"    -> Call("request")
         [] OTHER              -> Call("request") \/ Goto("ready")
    /\ sent' = IF pc' # "request" THEN sent ELSE IF t.access THEN "bearer" ELSE "blank"

\* No token: the start gives up only where a login would help, the engine sends
\* its request without the header, the others do without.
Failed(code) ==
    /\ CASE caller = "start" /\ code # "internal" -> Goto("off")
         [] caller = "start" /\ code = "internal" -> Goto("project")
         [] caller = "turn"                       -> Call("request")
         [] OTHER                                 -> Goto("ready")
    /\ sent' = IF caller = "turn" THEN "none" ELSE sent

\* Faulty: refreshed once it has expired.
NeedsRefreshLate(t) == t.left = 0

NeedsRefresh(t) == t.left <= Leeway

GetValidToken ==
    LET loads == ~tokens.access
        t     == IF loads /\ file.kind = "tokens" THEN file.tok ELSE tokens
    IN /\ pc = "token"
       /\ UNCHANGED <<caller, file, logins, cut>>
       /\ \/ /\ loads /\ file.kind # "tokens"
             /\ Failed(IF file.kind = "missing" THEN "not found" ELSE "internal")
             /\ tokens' = IF pc' = "off" THEN NoTokens ELSE tokens
          \/ /\ loads => file.kind = "tokens"
             /\ NeedsRefresh(t) /\ t.refresh = 0
             /\ Failed("unauthenticated")
             /\ tokens' = IF pc' = "off" THEN NoTokens ELSE t
          \/ /\ loads => file.kind = "tokens"
             /\ NeedsRefresh(t) /\ t.refresh # 0
             /\ Call("refreshing")
             /\ tokens' = t /\ UNCHANGED sent
          \/ /\ loads => file.kind = "tokens"
             /\ ~NeedsRefresh(t)
             /\ Got(t)
             /\ tokens' = t

\* Faulty: the answer's refresh token replaces the old one; it has none.
RefreshedWhole(hasToken, taken) ==
    [tokens EXCEPT !.access = hasToken, !.left = Life, !.refresh = 0,
                   !.real = IF hasToken THEN Life - taken ELSE 0]

\* What a parsed answer does to tokens_: the server issued the token some time
\* before its answer was here.  The refresh token stays.
Refreshed(hasToken, taken) ==
    [tokens EXCEPT !.access = hasToken, !.left = Life,
                   !.real = IF hasToken THEN Life - taken ELSE 0]

\* RefreshToken after its Post: any failure, a cancelled request too, reads
\* "unauthenticated".
RefreshAnswered ==
    /\ pc = "refreshing" /\ phase = "idle"
    /\ UNCHANGED <<caller, file, logins, cut>>
    /\ \/ /\ answer # "ok"
          /\ Failed("unauthenticated")
          /\ tokens' = IF pc' = "off" THEN NoTokens ELSE tokens
       \/ /\ answer = "ok" /\ body = "garbage"
          /\ Failed("internal") /\ UNCHANGED tokens
       \/ /\ answer = "ok" /\ body # "garbage"
          /\ \E taken \in 0..(Timeout - left) : tokens' = Refreshed(body = "token", taken)
          /\ Goto("open") /\ UNCHANGED sent

----------------------------------------------------------------------------
(* SaveTokens: the file is emptied by the open and written afterwards; a    *)
(* write that fails (a full disk) is not noticed.                          *)

Open(from, to, skip) ==
    /\ pc = from
    /\ UNCHANGED <<caller, tokens, logins, cut>>
    /\ \/ /\ file' = Torn /\ Goto(to) /\ UNCHANGED sent
       \/ /\ UNCHANGED file /\ skip

Write(from, done) ==
    /\ pc = from
    /\ \/ file' = Saved(tokens) /\ cut' = FALSE
       \/ file' = Torn /\ cut' = TRUE
    /\ done
    /\ UNCHANGED <<caller, tokens, logins>>

SaveRefreshed ==
    \/ Open("open", "write", Failed("internal"))
    \/ Write("write", Got(tokens))

\* GetProjectId ignores whether its save worked.
SaveProject ==
    \/ Open("keep", "store", Goto("ready") /\ UNCHANGED sent)
    \/ Write("store", Goto("ready") /\ UNCHANGED sent)

----------------------------------------------------------------------------
(* The project, and the requests.                                          *)

GetProjectId ==
    /\ pc = "project"
    /\ \/ tokens.project /\ Goto("ready") /\ UNCHANGED caller
       \/ ~tokens.project /\ Goto("token") /\ caller' = "project"
    /\ UNCHANGED <<tokens, file, sent, logins, cut>>

Keep(found) == Goto("keep") /\ tokens' = [tokens EXCEPT !.project = found]

\* loadCodeAssist, then the environment or gcloud, then the list of projects,
\* whose first entry may have no projectId.
DiscoverProjectId ==
    /\ phase = "idle"
    /\ \/ /\ pc = "discover"
          /\ \/ Keep(TRUE)
             \/ ~(answer = "ok" /\ body = "project") /\ Call("listing") /\ UNCHANGED tokens
       \/ /\ pc = "listing"
          /\ IF answer = "ok" /\ body = "project"
             THEN \E named \in BOOLEAN : Keep(named)
             ELSE Goto("ready") /\ UNCHANGED tokens
    /\ UNCHANGED <<caller, file, sent, logins, cut>>

Start ==
    /\ pc = "off"
    /\ Goto("token") /\ caller' = "start"
    /\ UNCHANGED <<tokens, file, sent, logins, cut>>

\* A line was read: what waited on stdin went with it.
ReadLine ==
    /\ pc = "ready"
    /\ pc' = "token" /\ caller' \in {"turn", "command"} /\ key' = FALSE
    /\ UNCHANGED <<phase, tries, backoff, left, abort, answer, body, owed>>
    /\ UNCHANGED <<tokens, file, sent, logins, cut>>

\* The answer ends the turn, or its tool calls lead to the next request.
Answered ==
    /\ pc = "request" /\ phase = "idle"
    /\ \/ Goto("ready")
       \/ answer = "ok" /\ caller = "turn" /\ Goto("token")
    /\ UNCHANGED <<caller, tokens, file, sent, logins, cut>>

\* The end of the program, wherever it is: /exit, a signal, or the exception of
\* j.value when an answer is no object.
Stop ==
    /\ pc # "off"
    /\ pc' = "off" /\ tokens' = NoTokens
    /\ phase' = "idle" /\ tries' = 0 /\ backoff' = FirstBackoff /\ left' = 0 /\ abort' = FALSE /\ key' = FALSE
    /\ answer' = "none" /\ body' = "none" /\ owed' = 0 /\ sent' = "none"
    /\ cut' = (cut \/ pc \in {"write", "store"})
    /\ UNCHANGED <<caller, file, logins>>

\* slop_auth.sh: a new login, by an exchange no longer than the program's own.
Login ==
    /\ logins < MaxLogins
    /\ logins' = logins + 1
    /\ \E taken \in 0..Timeout :
          file' = Saved([access |-> TRUE, refresh |-> logins + 1, left |-> Life,
                         real |-> Life - taken, project |-> FALSE])
    /\ cut' = FALSE
    /\ UNCHANGED <<httpVars, pc, caller, tokens, sent>>

Aged(t) == [t EXCEPT !.left = Larger(0, @ - 1), !.real = Larger(0, @ - 1)]

\* Time passes while the program waits, or is not running.
Tick ==
    /\ HttpTick
    /\ phase # "idle" \/ pc \in {"ready", "off"}
    /\ tokens' = Aged(tokens) /\ file' = [file EXCEPT !.tok = Aged(@)]
    /\ UNCHANGED <<pc, caller, sent, logins, cut>>

Transfer == HttpStep /\ UNCHANGED ownVars
Esc == PressEsc /\ pc \notin {"off", "ready"} /\ UNCHANGED ownVars

Program == \/ GetValidToken \/ RefreshAnswered \/ SaveRefreshed \/ SaveProject
           \/ GetProjectId \/ DiscoverProjectId \/ Answered

Next == Program \/ Start \/ ReadLine \/ Transfer \/ Esc \/ Stop \/ Login \/ Tick

Spec == Init /\ [][Next]_vars

\* The main thread runs on, time passes, and a transfer that reached its limit
\* fails.  No server need answer, nobody need press a key.
FairSpec == Spec /\ WF_vars(Program) /\ WF_vars(Tick)
                 /\ WF_vars(Transfer)

----------------------------------------------------------------------------
TypeOK ==
    /\ HttpTypeOK
    /\ pc \in Places /\ caller \in Callers /\ tokens \in Token
    /\ file \in {Missing, Torn} \cup {Saved(t) : t \in Token}
    /\ sent \in {"bearer", "blank", "none"}
    /\ logins \in 0..MaxLogins /\ cut \in BOOLEAN

(* A request that carries a token leaves with one the server still takes.  *)
(* The program reckons the expiry from the moment the answer was here, up  *)
(* to Timeout late; the leeway of GetValidToken must make up for that,     *)
(* for tokens reloaded from the file as for those in memory.               *)
FreshWhenSent ==
    [][(pc # "request" /\ pc' = "request" /\ sent' = "bearer") => tokens'.real > 0]_vars

(* Once logged in, the file holds a refresh token, whatever requests fail, *)
(* are cancelled or bring: only a write of the file itself that was cut    *)
(* short, by the end of the program or a full disk, can take it away       *)
(* (SaveTokens writes all of tokens_, the fields it did not change too).   *)
LoginKept ==
    logins > 0 => CASE file.kind = "tokens" -> file.tok.refresh # 0
                    [] file.kind = "torn"   -> cut \/ pc \in {"write", "store"}
                    [] OTHER                -> FALSE

(* A request ends as cancelled only by an Esc still unread: one that       *)
(* cancelled an earlier request does not cancel this one (ResetAbort).     *)
CancelledByKey ==
    [][(pc' = pc /\ phase = "sending" /\ phase' = "idle" /\ answer' = "cancelled") => key]_vars

(* Every request ends, whatever the servers answer or do not answer.       *)
RequestReturns == phase # "idle" ~> phase = "idle"
=============================================================================
