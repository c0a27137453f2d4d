--------------------------- MODULE OAuthHandlerProofs ---------------------------
(***************************************************************************)
(* Proofs about OAuthHandler and the HttpClient below it, for every number *)
(* of retries, every time limit, leeway and life of a token, and whatever  *)
(* the servers answer.                                                     *)
(***************************************************************************)
EXTENDS OAuthHandler, FiniteSetTheorems, WellFoundedInduction, TLAPS

\* A request under way has not been aborted, and what is left of a wait covers
\* what the server asked for.
HttpInv ==
    /\ phase = "idle" \/ ~abort
    /\ phase # "sleeping" => left <= Timeout
    /\ phase = "sending" => owed = 0
    /\ phase = "sleeping" => owed <= left /\ tries < MaxRetries

\* A token came from a login, and the server keeps it at least until Timeout
\* before the expiry the program reckons with.
TokenInv(t) == t.access => t.refresh # 0 /\ t.real >= t.left - Timeout

\* Where tokens_ is on its way to the file.
Keeping == {"refreshing", "open", "write", "discover", "listing", "keep", "store"}

TokensInv ==
    /\ TokenInv(tokens) /\ TokenInv(file.tok)
    /\ pc \in Keeping => tokens.refresh # 0
    /\ pc \in {"open", "write"} => tokens.left = Life /\ phase = "idle"

FileInv ==
    /\ file.kind = "tokens" => file.tok.refresh # 0
    /\ file.kind = "torn" => cut \/ pc \in {"write", "store"}
    /\ logins > 0 => file.kind # "missing"

IInv == TypeOK /\ HttpInv /\ TokensInv /\ FileInv

-----------------------------------------------------------------------------
\* A finite set of numbers has a largest one.  A smallest of its subsets without
\* one would have an element, and lose nothing with it.
LEMMA LargestExists ==
    ASSUME NEW S \in SUBSET Int, IsFiniteSet(S), S # {}
    PROVE  \E x \in S : \A y \in S : x >= y
<1> DEFINE Least(T) == \E x \in T : \A y \in T : x >= y
           Bad == {T \in SUBSET S : T # {} /\ ~Least(T)}
<1> SUFFICES ASSUME ~Least(S) PROVE FALSE
    OBVIOUS
<1>1. IsWellFoundedOn(StrictSubsetOrdering(S), SUBSET S)
    BY FS_StrictSubsetOrderingWellFounded, FS_FiniteSubsetsOfFinite
<1>2. PICK T \in Bad : \A U \in Bad : <<U, T>> \notin StrictSubsetOrdering(S)
    <2>1. Bad \subseteq SUBSET S /\ Bad # {}
        OBVIOUS
    <2> HIDE DEF Bad
    <2> QED BY <1>1, <2>1, WFMin
<1>3. PICK x \in T : TRUE
    OBVIOUS
<1> DEFINE U == T \ {x}
<1>4. <<U, T>> \in StrictSubsetOrdering(S)
    BY <1>3 DEF StrictSubsetOrdering
<1>5. U \in SUBSET S /\ U \notin Bad
    BY <1>2, <1>4
<1>6. CASE U = {}
    BY <1>3, <1>6
<1>7. CASE U # {}
    <2>1. PICK y \in U : \A z \in U : y >= z
        BY <1>5, <1>7
    <2>2. x \in Int /\ y \in Int /\ \A z \in T : z \in Int
        BY <1>3
    <2>3. Least(T)
        <3>1. CASE y >= x
            BY <2>1, <3>1
        <3>2. CASE ~(y >= x)
            BY <2>1, <2>2, <3>2
        <3> QED BY <3>1, <3>2
    <2> QED BY <2>3
<1> QED BY <1>6, <1>7

LEMMA MaxFacts ==
    ASSUME NEW S \in SUBSET Int, IsFiniteSet(S), S # {}
    PROVE  Max(S) \in S /\ \A x \in S : x <= Max(S)
BY LargestExists DEF Max

-----------------------------------------------------------------------------
(* HttpClient.                                                             *)

\* The longest wait covers the last moment a response names.
LEMMA WaitCovers ==
    ASSUME NEW r \in Responses, backoff \in Nat
    PROVE  /\ WaitFor(r) \in Nat
           /\ Max(Moments(r) \cup {0}) \in Nat
           /\ Max(Moments(r) \cup {0}) <= WaitFor(r)
<1>1. /\ r.delays \in SUBSET Nat /\ IsFiniteSet(r.delays)
      /\ r.after \in Hint /\ r.reset \in Hint
    BY HttpAssumption
<1>2. r.after.n \in Int /\ r.reset.n \in Int
    BY <1>1 DEF Hint
<1> DEFINE google == ParseGoogleRetryDelay(r.delays)
           after  == ParseRetryAfter(r.after)
           reset  == IF r.code = 429 THEN ParseXRateLimitReset(r.reset) ELSE -1
           waits  == {after, google, reset}
           moments == Moments(r) \cup {0}
<1>3. google \in Int /\ \A d \in r.delays : d <= google
    <2>1. r.delays \cup {-1} \in SUBSET Int /\ r.delays \cup {-1} # {}
        BY <1>1
    <2>2. IsFiniteSet(r.delays \cup {-1})
        BY <1>1, FS_AddElement
    <2> QED BY <2>1, <2>2, MaxFacts DEF ParseGoogleRetryDelay
<1>4. after \in Int /\ (r.after.kind \in {"seconds", "date"} => r.after.n <= after)
    BY <1>2 DEF ParseRetryAfter, Larger
<1>5. reset \in Int /\ (r.code = 429 /\ r.reset.kind \in {"relative", "timestamp"} => r.reset.n <= reset)
    BY <1>2 DEF ParseXRateLimitReset, Larger
<1>6. ExtraWait(r) \in Int /\ \A w \in waits : w <= ExtraWait(r)
    <2>1. waits \in SUBSET Int /\ waits # {}
        BY <1>3, <1>4, <1>5
    <2>2. IsFiniteSet(waits)
        <3> HIDE DEF after, google, reset
        <3>1. IsFiniteSet({after})
            BY FS_Singleton
        <3>2. IsFiniteSet({after} \cup {google})
            BY <3>1, FS_AddElement
        <3>3. IsFiniteSet(({after} \cup {google}) \cup {reset})
            BY <3>2, FS_AddElement
        <3>4. waits = ({after} \cup {google}) \cup {reset}
            OBVIOUS
        <3> HIDE DEF waits
        <3> QED BY <3>3, <3>4
    <2>3. ExtraWait(r) = Max(waits)
        BY DEF ExtraWait
    <2> HIDE DEF waits
    <2> QED BY <2>1, <2>2, <2>3, MaxFacts
<1>7. WaitFor(r) \in Nat /\ WaitFor(r) >= 0 /\ ExtraWait(r) <= WaitFor(r)
    BY <1>6 DEF WaitFor, Larger
<1>8. \A m \in Moments(r) : \/ m \in r.delays
                            \/ m = r.after.n /\ r.after.kind \in {"seconds", "date"}
                            \/ m = r.reset.n /\ r.code = 429 /\ r.reset.kind \in {"relative", "timestamp"}
    BY DEF Moments
<1>9. \A m \in moments : m \in Int /\ m <= WaitFor(r)
    <2> SUFFICES ASSUME NEW m \in moments PROVE m \in Int /\ m <= WaitFor(r)
        OBVIOUS
    <2>1. CASE m = 0
        BY <2>1, <1>7
    <2>2. CASE m \in r.delays
        BY <2>2, <1>1, <1>3, <1>6, <1>7
    <2>3. CASE m = r.after.n /\ r.after.kind \in {"seconds", "date"}
        BY <2>3, <1>2, <1>4, <1>6, <1>7
    <2>4. CASE m = r.reset.n /\ r.code = 429 /\ r.reset.kind \in {"relative", "timestamp"}
        BY <2>4, <1>2, <1>5, <1>6, <1>7
    <2> QED BY <1>8, <2>1, <2>2, <2>3, <2>4
<1>10. IsFiniteSet(moments)
    <2>1. IsFiniteSet(((r.delays \cup {r.after.n}) \cup {r.reset.n}) \cup {0})
        <3>1. IsFiniteSet(r.delays \cup {r.after.n})
            BY <1>1, FS_AddElement
        <3>2. IsFiniteSet((r.delays \cup {r.after.n}) \cup {r.reset.n})
            BY <3>1, FS_AddElement
        <3> QED BY <3>2, FS_AddElement
    <2>2. moments \in SUBSET (((r.delays \cup {r.after.n}) \cup {r.reset.n}) \cup {0})
        BY <1>8
    <2> HIDE DEF moments
    <2> QED BY <2>1, <2>2, FS_Subset
<1>11. Max(moments) \in moments /\ 0 <= Max(moments)
    <2>1. moments \in SUBSET Int /\ 0 \in moments
        BY <1>9
    <2> HIDE DEF moments
    <2> QED BY <1>10, <2>1, MaxFacts
<1> HIDE DEF moments
<1> QED BY <1>7, <1>9, <1>11 DEF moments

LEMMA Numbers ==
    /\ MaxRetries \in Nat /\ FirstBackoff \in Nat \ {0} /\ Timeout \in Nat
    /\ Leeway \in Nat /\ Life \in Nat /\ MaxLogins \in Nat
    /\ Timeout <= Leeway /\ Leeway < Life
BY HttpAssumption, OAuthAssumption

LEMMA RequestKeeps ==
    ASSUME HttpTypeOK, Request
    PROVE  HttpTypeOK' /\ HttpInv'
<1>1. HttpTypeOK'
    <2>1. /\ phase' \in {"idle", "sending", "sleeping"} /\ tries' \in 0..MaxRetries
          /\ backoff' \in Nat \ {0} /\ left' \in Nat /\ owed' \in Nat
        BY Numbers DEF Request
    <2>2. abort' \in BOOLEAN /\ key' \in BOOLEAN
        BY DEF HttpTypeOK, Request
    <2>3. answer' \in {"none", "ok", "cancelled", "failed"} /\ body' \in Bodies' \cup {"none"}
        BY DEF Request
    <2> QED BY <2>1, <2>2, <2>3 DEF HttpTypeOK
<1>2. HttpInv'
    BY Numbers DEF HttpInv, Request
<1> QED BY <1>1, <1>2

LEMMA HttpStepKeeps ==
    ASSUME HttpTypeOK, HttpInv, HttpStep
    PROVE  HttpTypeOK' /\ HttpInv'
<1> USE DEF HttpTypeOK, HttpInv, Return, Sleep
<1>1. CASE SeeEsc
    BY <1>1 DEF SeeEsc
<1>2. CASE TransferFails
    BY <1>2 DEF TransferFails
<1>3. CASE Retry
    BY <1>3, Numbers DEF Retry
<1>4. ASSUME NEW r \in Responses, Respond(r) PROVE HttpTypeOK' /\ HttpInv'
    <2>1. CASE r.code < 300
        <3>1. r.body \in Bodies
            BY DEF Bodies
        <3>2. ~Retryable(r.code)
            BY <2>1, HttpAssumption DEF Retryable
        <3>3. Return("ok") /\ body' = r.body /\ UNCHANGED <<abort, key>> /\ phase = "sending"
            BY <1>4, <2>1, <3>2 DEF Respond
        <3> QED BY <3>1, <3>3 DEF Bodies
    <2>2. CASE ~(r.code < 300) /\ Retryable(r.code) /\ tries < MaxRetries
        <3>1. Sleep(WaitFor(r)) /\ owed' = Max(Moments(r) \cup {0})
            BY <1>4, <2>2 DEF Respond
        <3>2. phase = "sending"
            BY <1>4 DEF Respond
        <3> DEFINE wait == WaitFor(r)
                   last == Max(Moments(r) \cup {0})
        <3>3. wait \in Nat /\ last \in Nat /\ last <= wait
            BY WaitCovers
        <3>4. Sleep(wait) /\ owed' = last
            BY <3>1
        <3> HIDE DEF wait, last
        <3> QED BY <2>2, <3>2, <3>3, <3>4
    <2>3. CASE ~(r.code < 300) /\ ~(Retryable(r.code) /\ tries < MaxRetries)
        BY <1>4, <2>3 DEF Respond
    <2> QED BY <2>1, <2>2, <2>3
<1> QED BY <1>1, <1>2, <1>3, <1>4 DEF HttpStep

LEMMA HttpTickKeeps ==
    ASSUME HttpTypeOK, HttpInv, HttpTick
    PROVE  HttpTypeOK' /\ HttpInv'
BY Numbers DEF HttpTypeOK, HttpInv, HttpTick, Larger

LEMMA PressEscKeeps ==
    ASSUME HttpTypeOK, HttpInv, PressEsc
    PROVE  HttpTypeOK' /\ HttpInv'
BY DEF HttpTypeOK, HttpInv, PressEsc

LEMMA HttpUnchanged ==
    ASSUME HttpTypeOK, HttpInv, UNCHANGED httpVars
    PROVE  HttpTypeOK' /\ HttpInv'
BY DEF HttpTypeOK, HttpInv, httpVars

-----------------------------------------------------------------------------
(* Tokens and their file.                                                  *)

OwnTypeOK ==
    /\ pc \in Places /\ caller \in Callers /\ tokens \in Token
    /\ file \in {Missing, Torn} \cup {Saved(t) : t \in Token}
    /\ sent \in {"bearer", "blank", "none"}
    /\ logins \in 0..MaxLogins /\ cut \in BOOLEAN

\* What a step may not do: send a token that the server has forgotten.
Fresh == (pc # "request" /\ pc' = "request" /\ sent' = "bearer") => tokens'.real > 0

Moves == Request \/ UNCHANGED httpVars

LEMMA MovesKeep ==
    ASSUME HttpTypeOK, HttpInv, Moves
    PROVE  HttpTypeOK' /\ HttpInv'
BY RequestKeeps, HttpUnchanged DEF Moves

LEMMA NoTokensFacts == NoTokens \in Token /\ TokenInv(NoTokens)
BY Numbers DEF NoTokens, Token, TokenInv

LEMMA AgedFacts ==
    ASSUME NEW t \in Token
    PROVE  /\ Aged(t) \in Token /\ Aged(t).refresh = t.refresh
           /\ TokenInv(t) => TokenInv(Aged(t))
<1> DEFINE left2 == Larger(0, t.left - 1)
           real2 == Larger(0, t.real - 1)
<1>1. left2 \in 0..Life /\ real2 \in 0..Life
    BY Numbers DEF Token, Larger
<1>2. t.real >= t.left - Timeout => real2 >= left2 - Timeout
    BY Numbers DEF Token, Larger
<1>3. Aged(t) = [t EXCEPT !.left = left2, !.real = real2]
    BY DEF Aged
<1> HIDE DEF left2, real2
<1>4. /\ Aged(t) \in Token /\ Aged(t).refresh = t.refresh /\ Aged(t).access = t.access
      /\ Aged(t).left = left2 /\ Aged(t).real = real2
    BY <1>1, <1>3 DEF Token
<1> QED BY <1>2, <1>4 DEF TokenInv

LEMMA AgedNoTokens == Aged(NoTokens) = NoTokens
<1>1. Larger(0, NoTokens.left - 1) = 0 /\ Larger(0, NoTokens.real - 1) = 0
    BY DEF NoTokens, Larger
<1>2. ASSUME NEW t \in Token, t.left = 0, t.real = 0
      PROVE  [t EXCEPT !.left = 0, !.real = 0] = t
    BY <1>2 DEF Token
<1>3. NoTokens.left = 0 /\ NoTokens.real = 0
    BY DEF NoTokens
<1> QED BY <1>1, <1>2, <1>3, NoTokensFacts DEF Aged

\* A file that holds tokens was saved; the others hold none.
LEMMA FileFacts ==
    ASSUME file \in {Missing, Torn} \cup {Saved(t) : t \in Token}
    PROVE  /\ file.kind \in {"missing", "torn", "tokens"} /\ file.tok \in Token
           /\ file.kind = "missing" => file = Missing
           /\ file.kind = "torn" => file = Torn
           /\ file.kind = "tokens" => file = Saved(file.tok)
BY NoTokensFacts DEF Missing, Torn, Saved

LEMMA GotFacts ==
    ASSUME NEW t, Got(t), OwnTypeOK
    PROVE  /\ Moves /\ pc' \in {"project", "discover", "request", "ready"}
           /\ sent' \in {"bearer", "blank", "none"}
           /\ pc' = "request" /\ sent' = "bearer" => t.access
BY DEF Got, Goto, Call, Moves, OwnTypeOK, Callers

LEMMA FailedFacts ==
    ASSUME NEW code, Failed(code), OwnTypeOK
    PROVE  /\ Moves /\ pc' \in {"off", "project", "request", "ready"}
           /\ sent' \in {"bearer", "blank", "none"}
           /\ pc' = "request" => sent' = "none"
BY DEF Failed, Goto, Call, Moves, OwnTypeOK, Callers

-----------------------------------------------------------------------------
(* The steps of the program.                                               *)

\* What is left to show for a step that moves the request as the code does.
LEMMA ByParts ==
    ASSUME HttpTypeOK, HttpInv, Moves, OwnTypeOK', TokensInv', FileInv'
    PROVE  IInv'
BY MovesKeep DEF IInv, TypeOK, OwnTypeOK

LEMMA FileStays ==
    ASSUME FileInv, UNCHANGED <<file, logins, cut>>, pc \notin {"write", "store"}
    PROVE  FileInv'
BY DEF FileInv

LEMMA GetValidTokenKeeps ==
    ASSUME IInv, GetValidToken
    PROVE  IInv' /\ Fresh
<1> DEFINE loads == ~tokens.access
           t     == IF loads /\ file.kind = "tokens" THEN file.tok ELSE tokens
<1>1. /\ HttpTypeOK /\ HttpInv /\ OwnTypeOK /\ TokensInv /\ FileInv
      /\ pc = "token" /\ UNCHANGED <<caller, file, logins, cut>>
    BY DEF IInv, TypeOK, OwnTypeOK, GetValidToken
<1>2. FileInv'
    BY <1>1, FileStays
<1>3. t \in Token /\ TokenInv(t) /\ tokens \in Token /\ TokenInv(tokens) /\ TokenInv(file.tok)
    BY <1>1, FileFacts DEF OwnTypeOK, TokensInv
<1>5. file.kind = "tokens" => file.tok.refresh # 0
    BY <1>1 DEF FileInv
<1>6. loads => (file.kind = "tokens" => t.refresh # 0)
    BY <1>5
<1>7. ~loads => t.refresh # 0
    BY <1>3 DEF TokenInv
<1> SUFFICES Moves /\ OwnTypeOK' /\ TokensInv' /\ Fresh
    BY <1>1, <1>2, ByParts
<1>8. ASSUME NEW code, Failed(code), tokens' \in {NoTokens, tokens, t}
      PROVE  Moves /\ OwnTypeOK' /\ TokensInv' /\ Fresh
    <2>1. tokens' \in Token /\ TokenInv(tokens')
        BY <1>3, <1>8, NoTokensFacts
    <2>2. /\ Moves /\ pc' \in {"off", "project", "request", "ready"}
          /\ sent' \in {"bearer", "blank", "none"}
          /\ pc' = "request" => sent' = "none"
        BY <1>1, <1>8, FailedFacts
    <2>3. OwnTypeOK'
        BY <1>1, <2>1, <2>2 DEF OwnTypeOK, Places
    <2>4. TokensInv'
        BY <1>1, <1>3, <2>1, <2>2 DEF TokensInv, Keeping
    <2> QED BY <2>2, <2>3, <2>4 DEF Fresh
<1>9. CASE /\ loads => file.kind = "tokens"
           /\ NeedsRefresh(t) /\ t.refresh # 0
           /\ Call("refreshing")
           /\ tokens' = t /\ UNCHANGED sent
    <2>1. Moves /\ pc' = "refreshing"
        BY <1>9 DEF Call, Moves
    <2>2. OwnTypeOK'
        BY <1>1, <1>3, <1>9, <2>1 DEF OwnTypeOK, Places
    <2>3. TokensInv'
        BY <1>1, <1>3, <1>9, <2>1 DEF TokensInv, Keeping
    <2> QED BY <2>1, <2>2, <2>3 DEF Fresh
<1>10. CASE /\ loads => file.kind = "tokens"
            /\ ~NeedsRefresh(t)
            /\ Got(t)
            /\ tokens' = t
    <2>1. /\ Moves /\ pc' \in {"project", "discover", "request", "ready"}
          /\ sent' \in {"bearer", "blank", "none"}
          /\ pc' = "request" /\ sent' = "bearer" => t.access
        BY <1>1, <1>10, GotFacts
    <2>2. OwnTypeOK'
        BY <1>1, <1>3, <1>10, <2>1 DEF OwnTypeOK, Places
    <2>3. TokensInv'
        BY <1>1, <1>3, <1>6, <1>7, <1>10, <2>1 DEF TokensInv, Keeping
    <2>4. t.access => t.real > 0
        BY <1>3, <1>10, Numbers DEF NeedsRefresh, TokenInv, Token
    <2> QED BY <1>10, <2>1, <2>2, <2>3, <2>4 DEF Fresh
<1>11. \/ \E code : Failed(code) /\ tokens' \in {NoTokens, tokens, t}
       \/ /\ loads => file.kind = "tokens"
          /\ NeedsRefresh(t) /\ t.refresh # 0
          /\ Call("refreshing")
          /\ tokens' = t /\ UNCHANGED sent
       \/ /\ loads => file.kind = "tokens"
          /\ ~NeedsRefresh(t)
          /\ Got(t)
          /\ tokens' = t
    BY DEF GetValidToken
<1> QED BY <1>8, <1>9, <1>10, <1>11

LEMMA RefreshAnsweredKeeps ==
    ASSUME IInv, RefreshAnswered
    PROVE  IInv' /\ Fresh
<1>1. /\ HttpTypeOK /\ HttpInv /\ OwnTypeOK /\ TokensInv /\ FileInv
      /\ pc = "refreshing" /\ phase = "idle" /\ UNCHANGED <<caller, file, logins, cut>>
    BY DEF IInv, TypeOK, OwnTypeOK, RefreshAnswered
<1>2. FileInv'
    BY <1>1, FileStays
<1>3. tokens \in Token /\ TokenInv(tokens) /\ TokenInv(file.tok) /\ tokens.refresh # 0
    BY <1>1 DEF OwnTypeOK, TokensInv, Keeping
<1> SUFFICES Moves /\ OwnTypeOK' /\ TokensInv' /\ Fresh
    BY <1>1, <1>2, ByParts
<1>4. ASSUME NEW code, Failed(code), tokens' \in {NoTokens, tokens}
      PROVE  Moves /\ OwnTypeOK' /\ TokensInv' /\ Fresh
    <2>1. tokens' \in Token /\ TokenInv(tokens')
        BY <1>3, <1>4, NoTokensFacts
    <2>2. /\ Moves /\ pc' \in {"off", "project", "request", "ready"}
          /\ sent' \in {"bearer", "blank", "none"}
          /\ pc' = "request" => sent' = "none"
        BY <1>1, <1>4, FailedFacts
    <2>3. OwnTypeOK'
        BY <1>1, <2>1, <2>2 DEF OwnTypeOK, Places
    <2>4. TokensInv'
        BY <1>1, <1>3, <2>1, <2>2 DEF TokensInv, Keeping
    <2> QED BY <2>2, <2>3, <2>4 DEF Fresh
<1>5. ASSUME NEW hasToken \in BOOLEAN, NEW taken \in 0..(Timeout - left),
             tokens' = Refreshed(hasToken, taken), Goto("open"), UNCHANGED sent
      PROVE  Moves /\ OwnTypeOK' /\ TokensInv' /\ Fresh
    <2>1. left \in Nat /\ left <= Timeout
        BY <1>1 DEF HttpTypeOK, HttpInv
    <2>2. Life - taken \in 0..Life /\ Life - taken >= Life - Timeout /\ Life \in 0..Life
        BY <2>1, Numbers
    <2>3. /\ tokens' \in Token /\ tokens'.refresh = tokens.refresh
          /\ tokens'.left = Life /\ tokens'.access = hasToken
          /\ hasToken => tokens'.real = Life - taken
        <3> DEFINE real == IF hasToken THEN Life - taken ELSE 0
        <3>1. real \in 0..Life
            BY <2>2, Numbers
        <3>2. tokens' = [tokens EXCEPT !.access = hasToken, !.left = Life, !.real = real]
            BY <1>5 DEF Refreshed
        <3>3. hasToken => real = Life - taken
            OBVIOUS
        <3> HIDE DEF real
        <3> QED BY <1>3, <2>2, <3>1, <3>2, <3>3 DEF Token
    <2>4. TokenInv(tokens')
        BY <1>3, <2>2, <2>3 DEF TokenInv
    <2>5. Moves /\ pc' = "open" /\ phase' = "idle"
        BY <1>1, <1>5 DEF Goto, Moves, httpVars
    <2>6. OwnTypeOK'
        BY <1>1, <1>5, <2>3, <2>5 DEF OwnTypeOK, Places
    <2>7. TokensInv'
        BY <1>1, <1>3, <2>3, <2>4, <2>5 DEF TokensInv, Keeping
    <2> QED BY <2>5, <2>6, <2>7 DEF Fresh
<1>6. \/ \E code : Failed(code) /\ tokens' \in {NoTokens, tokens}
      \/ /\ \E taken \in 0..(Timeout - left) : tokens' = Refreshed(body = "token", taken)
         /\ Goto("open") /\ UNCHANGED sent
    BY DEF RefreshAnswered
<1>7. (body = "token") \in BOOLEAN
    OBVIOUS
<1> QED BY <1>4, <1>5, <1>6, <1>7

\* A step that leaves tokens_ and the file alone, and does not begin to save.
LEMMA StaysKeep ==
    ASSUME IInv, UNCHANGED <<tokens, file, logins, cut>>, Moves, pc \notin {"write", "store"},
           caller' \in Callers, pc' \in Places, sent' \in {"bearer", "blank", "none"},
           pc' \in Keeping => pc \in Keeping, pc' \notin {"open", "write"},
           pc # "request" /\ pc' = "request" => sent' # "bearer"
    PROVE  IInv' /\ Fresh
<1>1. HttpTypeOK /\ HttpInv /\ OwnTypeOK /\ TokensInv /\ FileInv
    BY DEF IInv, TypeOK, OwnTypeOK
<1>2. OwnTypeOK'
    BY <1>1 DEF OwnTypeOK
<1>3. TokensInv'
    BY <1>1 DEF TokensInv
<1> QED BY <1>1, <1>2, <1>3, FileStays, ByParts DEF Fresh

\* The two halves of a save.
LEMMA OpenKeeps ==
    ASSUME IInv, pc \in {"open", "keep"}, UNCHANGED <<caller, tokens, sent, logins, cut>>,
           file' = Torn, Goto(IF pc = "open" THEN "write" ELSE "store")
    PROVE  IInv' /\ Fresh
<1>1. HttpTypeOK /\ HttpInv /\ OwnTypeOK /\ TokensInv /\ FileInv
    BY DEF IInv, TypeOK, OwnTypeOK
<1>2. Moves /\ pc' = (IF pc = "open" THEN "write" ELSE "store") /\ phase' = phase
    BY DEF Goto, Moves, httpVars
<1>3. TokenInv(file'.tok) /\ file'.kind = "torn"
    BY NoTokensFacts DEF Torn
<1>4. OwnTypeOK'
    BY <1>1, <1>2 DEF OwnTypeOK, Places
<1>5. TokensInv'
    BY <1>1, <1>2, <1>3 DEF TokensInv, Keeping
<1>6. FileInv'
    BY <1>1, <1>2, <1>3 DEF FileInv
<1> QED BY <1>1, <1>2, <1>4, <1>5, <1>6, ByParts DEF Fresh

\* done may send the request the token was for, with tokens_ as they are.
LEMMA WriteKeeps ==
    ASSUME IInv, pc \in {"write", "store"}, UNCHANGED <<caller, tokens, logins>>,
           Moves, pc' \in {"project", "discover", "request", "ready"},
           sent' \in {"bearer", "blank", "none"},
           pc' = "request" /\ sent' = "bearer" => pc = "write" /\ tokens.access,
           \/ file' = Saved(tokens) /\ cut' = FALSE
           \/ file' = Torn /\ cut' = TRUE
    PROVE  IInv' /\ Fresh
<1>1. HttpTypeOK /\ HttpInv /\ OwnTypeOK /\ TokensInv /\ FileInv
    BY DEF IInv, TypeOK, OwnTypeOK
<1>2. tokens \in Token /\ TokenInv(tokens) /\ tokens.refresh # 0 /\ (pc = "write" => tokens.left = Life)
    BY <1>1 DEF OwnTypeOK, TokensInv, Keeping
<1>3. /\ file' \in {Missing, Torn} \cup {Saved(t) : t \in Token} /\ cut' \in BOOLEAN
      /\ TokenInv(file'.tok)
      /\ \/ file'.kind = "tokens" /\ file'.tok.refresh # 0
         \/ file'.kind = "torn" /\ cut'
    <2>1. CASE file' = Saved(tokens) /\ cut' = FALSE
        <3>1. file'.kind = "tokens" /\ file'.tok = tokens
            BY <2>1 DEF Saved
        <3> QED BY <1>2, <2>1, <3>1
    <2>2. CASE file' = Torn /\ cut' = TRUE
        <3>1. file'.kind = "torn" /\ file'.tok = NoTokens
            BY <2>2 DEF Torn
        <3> QED BY <2>2, <3>1, NoTokensFacts
    <2> QED BY <2>1, <2>2
<1>4. OwnTypeOK'
    BY <1>1, <1>3 DEF OwnTypeOK, Places
<1>5. TokensInv'
    BY <1>1, <1>2, <1>3 DEF TokensInv, Keeping
<1>6. FileInv'
    BY <1>1, <1>3 DEF FileInv
<1>7. Fresh
    <2>1. tokens.access /\ pc = "write" => tokens.real > 0
        BY <1>2, Numbers DEF TokenInv, Token
    <2> QED BY <2>1 DEF Fresh
<1> QED BY <1>1, <1>4, <1>5, <1>6, <1>7, ByParts

LEMMA SaveKeeps ==
    ASSUME IInv, SaveRefreshed \/ SaveProject
    PROVE  IInv' /\ Fresh
<1>1. HttpTypeOK /\ HttpInv /\ OwnTypeOK /\ TokensInv /\ FileInv
    BY DEF IInv, TypeOK, OwnTypeOK
<1>3. CASE SaveRefreshed /\ pc = "open"
    <2>1. CASE file' = Torn /\ Goto("write") /\ UNCHANGED <<caller, tokens, sent, logins, cut>>
        BY <1>3, <2>1, OpenKeeps
    <2>2. CASE Failed("internal") /\ UNCHANGED <<caller, tokens, file, logins, cut>>
        <3>1. /\ Moves /\ pc' \in {"off", "project", "request", "ready"}
              /\ sent' \in {"bearer", "blank", "none"}
              /\ pc' = "request" => sent' = "none"
            BY <1>1, <2>2, FailedFacts
        <3> QED BY <1>1, <1>3, <2>2, <3>1, StaysKeep DEF OwnTypeOK, Places, Keeping
    <2> QED BY <1>3, <2>1, <2>2 DEF SaveRefreshed, Open, Write
<1>4. CASE SaveProject /\ pc = "keep"
    <2>1. CASE file' = Torn /\ Goto("store") /\ UNCHANGED <<caller, tokens, sent, logins, cut>>
        BY <1>4, <2>1, OpenKeeps
    <2>2. CASE Goto("ready") /\ UNCHANGED <<caller, tokens, sent, file, logins, cut>>
        <3>1. Moves /\ pc' = "ready"
            BY <2>2 DEF Goto, Moves
        <3> QED BY <1>1, <1>4, <2>2, <3>1, StaysKeep DEF OwnTypeOK, Places, Keeping
    <2> QED BY <1>4, <2>1, <2>2 DEF SaveProject, Open, Write
<1>5. CASE SaveRefreshed /\ pc = "write"
    <2>1. /\ Got(tokens) /\ UNCHANGED <<caller, tokens, logins>>
          /\ \/ file' = Saved(tokens) /\ cut' = FALSE
             \/ file' = Torn /\ cut' = TRUE
        BY <1>5 DEF SaveRefreshed, Open, Write
    <2>2. /\ Moves /\ pc' \in {"project", "discover", "request", "ready"}
          /\ sent' \in {"bearer", "blank", "none"}
          /\ pc' = "request" /\ sent' = "bearer" => tokens.access
        BY <1>1, <2>1, GotFacts
    <2> QED BY <1>5, <2>1, <2>2, WriteKeeps
<1>6. CASE SaveProject /\ pc = "store"
    <2>1. /\ Goto("ready") /\ UNCHANGED <<sent, caller, tokens, logins>>
          /\ \/ file' = Saved(tokens) /\ cut' = FALSE
             \/ file' = Torn /\ cut' = TRUE
        BY <1>6 DEF SaveProject, Open, Write
    <2>2. Moves /\ pc' = "ready" /\ sent' \in {"bearer", "blank", "none"}
        BY <1>1, <2>1 DEF Goto, Moves, OwnTypeOK
    <2> QED BY <1>6, <2>1, <2>2, WriteKeeps
<1>7. \/ SaveRefreshed /\ pc \in {"open", "write"}
      \/ SaveProject /\ pc \in {"keep", "store"}
    BY DEF SaveRefreshed, SaveProject, Open, Write
<1> QED BY <1>3, <1>4, <1>5, <1>6, <1>7
-----------------------------------------------------------------------------
(* The other steps.                                                        *)

LEMMA GetProjectIdKeeps ==
    ASSUME IInv, GetProjectId
    PROVE  IInv' /\ Fresh
<1>1. OwnTypeOK
    BY DEF IInv, TypeOK, OwnTypeOK
<1>2. /\ pc = "project" /\ pc' \in {"ready", "token"} /\ caller' \in Callers /\ Moves
      /\ UNCHANGED <<tokens, file, sent, logins, cut>>
    BY <1>1 DEF GetProjectId, Goto, Moves, OwnTypeOK, Callers
<1> QED BY <1>1, <1>2, StaysKeep DEF OwnTypeOK, Places, Keeping

LEMMA DiscoverProjectIdKeeps ==
    ASSUME IInv, DiscoverProjectId
    PROVE  IInv' /\ Fresh
<1>1. HttpTypeOK /\ HttpInv /\ OwnTypeOK /\ TokensInv /\ FileInv
    BY DEF IInv, TypeOK, OwnTypeOK
<1>2. /\ pc \in {"discover", "listing"} /\ UNCHANGED <<caller, file, sent, logins, cut>>
    BY DEF DiscoverProjectId
<1>3. ASSUME NEW found \in BOOLEAN, Keep(found)
      PROVE  IInv' /\ Fresh
    <2>1. Moves /\ pc' = "keep"
        BY <1>3 DEF Keep, Goto, Moves
    <2>2. tokens' \in Token /\ TokenInv(tokens') /\ tokens'.refresh = tokens.refresh
        <3>1. tokens \in Token /\ TokenInv(tokens) /\ tokens' = [tokens EXCEPT !.project = found]
            BY <1>1, <1>3 DEF Keep, OwnTypeOK, TokensInv
        <3>2. /\ tokens' \in Token /\ tokens'.refresh = tokens.refresh /\ tokens'.left = tokens.left
              /\ tokens'.access = tokens.access /\ tokens'.real = tokens.real
            BY <3>1 DEF Token
        <3> QED BY <3>1, <3>2 DEF TokenInv
    <2>3. OwnTypeOK'
        BY <1>1, <1>2, <2>1, <2>2 DEF OwnTypeOK, Places
    <2>4. TokensInv'
        BY <1>1, <1>2, <2>1, <2>2 DEF TokensInv, Keeping
    <2> QED BY <1>1, <1>2, <2>1, <2>3, <2>4, FileStays, ByParts DEF Fresh
<1>4. CASE pc' \in {"listing", "ready"} /\ Moves /\ UNCHANGED tokens
    BY <1>1, <1>2, <1>4, StaysKeep DEF OwnTypeOK, Places, Keeping
<1>5. \/ \E found \in BOOLEAN : Keep(found)
      \/ pc' \in {"listing", "ready"} /\ Moves /\ UNCHANGED tokens
    BY DEF DiscoverProjectId, Call, Goto, Moves
<1> QED BY <1>3, <1>4, <1>5

LEMMA AnsweredKeeps ==
    ASSUME IInv, Answered \/ Start
    PROVE  IInv' /\ Fresh
<1>1. OwnTypeOK
    BY DEF IInv, TypeOK, OwnTypeOK
<1>2. /\ pc \in {"request", "off"} /\ pc' \in {"ready", "token"} /\ caller' \in Callers /\ Moves
      /\ UNCHANGED <<tokens, file, sent, logins, cut>>
    BY <1>1 DEF Answered, Start, Goto, Moves, OwnTypeOK, Callers
<1> QED BY <1>1, <1>2, StaysKeep DEF OwnTypeOK, Places, Keeping

\* A step of the request, of the key or of a line: pc may leave the prompt.
LEMMA WaitingKeeps ==
    ASSUME IInv, HttpTypeOK', HttpInv', UNCHANGED <<tokens, file, sent, logins, cut>>,
           caller' \in Callers, pc' = pc \/ (pc = "ready" /\ pc' = "token"),
           phase' = phase \/ phase # "idle"
    PROVE  IInv' /\ Fresh
<1>1. OwnTypeOK /\ TokensInv /\ FileInv
    BY DEF IInv, TypeOK, OwnTypeOK
<1>2. OwnTypeOK'
    BY <1>1 DEF OwnTypeOK, Places
<1>3. TokensInv'
    BY <1>1 DEF TokensInv, Keeping
<1>4. FileInv'
    BY <1>1 DEF FileInv
<1> QED BY <1>2, <1>3, <1>4 DEF IInv, TypeOK, OwnTypeOK, Fresh

LEMMA StopKeeps ==
    ASSUME IInv, Stop
    PROVE  IInv' /\ Fresh
<1>1. HttpTypeOK /\ HttpInv /\ OwnTypeOK /\ TokensInv /\ FileInv
    BY DEF IInv, TypeOK, OwnTypeOK
<1>2. HttpTypeOK'
    <2>1. /\ phase' \in {"idle", "sending", "sleeping"} /\ tries' \in 0..MaxRetries
          /\ backoff' \in Nat \ {0} /\ left' \in Nat /\ owed' \in Nat
        BY Numbers DEF Stop
    <2>2. abort' \in BOOLEAN /\ key' \in BOOLEAN
        BY DEF Stop
    <2>3. answer' \in {"none", "ok", "cancelled", "failed"} /\ body' \in Bodies' \cup {"none"}
        BY DEF Stop
    <2> QED BY <2>1, <2>2, <2>3 DEF HttpTypeOK
<1>3. HttpInv'
    BY Numbers DEF Stop, HttpInv
<1>4. cut' \in BOOLEAN
    BY <1>1 DEF Stop, OwnTypeOK
<1>5. OwnTypeOK'
    BY <1>1, <1>4, NoTokensFacts DEF Stop, OwnTypeOK, Places
<1>6. TokensInv'
    BY <1>1, NoTokensFacts DEF Stop, TokensInv, Keeping
<1>7. FileInv'
    BY <1>1 DEF Stop, FileInv
<1> QED BY <1>2, <1>3, <1>5, <1>6, <1>7 DEF IInv, TypeOK, OwnTypeOK, Fresh, Stop

LEMMA LoginKeeps ==
    ASSUME IInv, Login
    PROVE  IInv' /\ Fresh
<1>1. HttpTypeOK /\ HttpInv /\ OwnTypeOK /\ TokensInv /\ FileInv
    BY DEF IInv, TypeOK, OwnTypeOK
<1>2. PICK taken \in 0..Timeout :
          file' = Saved([access |-> TRUE, refresh |-> logins + 1, left |-> Life,
                         real |-> Life - taken, project |-> FALSE])
    BY DEF Login
<1> DEFINE t == [access |-> TRUE, refresh |-> logins + 1, left |-> Life,
                 real |-> Life - taken, project |-> FALSE]
<1>3. logins' = logins + 1 /\ logins' \in 0..MaxLogins /\ logins' # 0
    BY <1>1, Numbers DEF Login, OwnTypeOK
<1>4. t \in Token /\ TokenInv(t) /\ t.refresh # 0
    BY <1>3, Numbers DEF Token, TokenInv
<1>5. file' = Saved(t)
    BY <1>2
<1> HIDE DEF t
<1>6. file'.kind = "tokens" /\ file'.tok = t
    BY <1>5 DEF Saved
<1>7. OwnTypeOK'
    BY <1>1, <1>3, <1>4, <1>5 DEF OwnTypeOK, Login
<1>8. TokensInv'
    BY <1>1, <1>4, <1>6 DEF TokensInv, Login, httpVars
<1>9. FileInv'
    BY <1>4, <1>6 DEF FileInv
<1>10. Moves
    BY DEF Login, Moves
<1> QED BY <1>1, <1>7, <1>8, <1>9, <1>10, ByParts DEF Fresh, Login

LEMMA TickKeeps ==
    ASSUME IInv, Tick
    PROVE  IInv' /\ Fresh
<1>1. HttpTypeOK /\ HttpInv /\ OwnTypeOK /\ TokensInv /\ FileInv
    BY DEF IInv, TypeOK, OwnTypeOK
<1>2. HttpTypeOK' /\ HttpInv'
    BY <1>1, HttpTickKeeps DEF Tick
<1>3. /\ phase # "idle" \/ pc \in {"ready", "off"}
      /\ tokens' = Aged(tokens) /\ file' = [file EXCEPT !.tok = Aged(@)]
      /\ UNCHANGED <<pc, caller, sent, logins, cut, phase>>
    BY DEF Tick, HttpTick
<1>4. /\ file.kind \in {"missing", "torn", "tokens"} /\ file.tok \in Token
      /\ tokens \in Token /\ TokenInv(tokens) /\ TokenInv(file.tok)
    BY <1>1, FileFacts DEF OwnTypeOK, TokensInv
<1>5. /\ tokens' \in Token /\ tokens'.refresh = tokens.refresh /\ TokenInv(tokens')
      /\ Aged(file.tok) \in Token /\ Aged(file.tok).refresh = file.tok.refresh
      /\ TokenInv(Aged(file.tok))
    BY <1>3, <1>4, AgedFacts
<1>6. file'.kind = file.kind /\ file'.tok = Aged(file.tok)
    <2>1. file = Missing \/ file = Torn \/ file = Saved(file.tok)
        BY <1>1, FileFacts DEF OwnTypeOK
    <2> QED BY <1>3, <2>1 DEF Missing, Torn, Saved
<1>7. file' \in {Missing, Torn} \cup {Saved(t) : t \in Token}
    <2>1. CASE file = Missing
        BY <1>3, <2>1, AgedNoTokens DEF Missing
    <2>2. CASE file = Torn
        BY <1>3, <2>2, AgedNoTokens DEF Torn
    <2>3. CASE file = Saved(file.tok)
        <3>1. [Saved(file.tok) EXCEPT !.tok = Aged(@)] = Saved(Aged(file.tok))
            BY DEF Saved
        <3> QED BY <1>3, <1>5, <2>3, <3>1
    <2> QED BY <1>1, <2>1, <2>2, <2>3, FileFacts DEF OwnTypeOK
<1>8. OwnTypeOK'
    BY <1>1, <1>3, <1>5, <1>7 DEF OwnTypeOK
<1>9. TokensInv'
    BY <1>1, <1>3, <1>5, <1>6 DEF TokensInv, Keeping
<1>10. FileInv'
    BY <1>1, <1>3, <1>5, <1>6 DEF FileInv
<1> QED BY <1>2, <1>3, <1>8, <1>9, <1>10 DEF IInv, TypeOK, OwnTypeOK, Fresh

\* The program itself only sends requests.
LEMMA ProgramMoves == Program => Moves
<1> USE DEF Moves, Got, Failed, Goto, Call
<1>1. GetValidToken => Moves
    BY DEF GetValidToken
<1>2. RefreshAnswered => Moves
    BY DEF RefreshAnswered
<1>3. SaveRefreshed \/ SaveProject => Moves
    BY DEF SaveRefreshed, SaveProject, Open, Write
<1>4. GetProjectId \/ DiscoverProjectId \/ Answered => Moves
    BY DEF GetProjectId, DiscoverProjectId, Keep, Answered
<1> QED BY <1>1, <1>2, <1>3, <1>4 DEF Program

-----------------------------------------------------------------------------
LEMMA Initially == Init => IInv
<1> SUFFICES ASSUME Init PROVE IInv
    OBVIOUS
<1>1. HttpTypeOK
    <2>1. /\ phase \in {"idle", "sending", "sleeping"} /\ tries \in 0..MaxRetries
          /\ backoff \in Nat \ {0} /\ left \in Nat /\ owed \in Nat
        BY Numbers DEF Init, HttpInit
    <2>2. abort \in BOOLEAN /\ key \in BOOLEAN
        BY DEF Init, HttpInit
    <2>3. answer \in {"none", "ok", "cancelled", "failed"} /\ body \in Bodies \cup {"none"}
        BY DEF Init, HttpInit
    <2> QED BY <2>1, <2>2, <2>3 DEF HttpTypeOK
<1>2. HttpInv
    BY Numbers DEF Init, HttpInit, HttpInv
<1>3. OwnTypeOK
    <2>1. logins \in 0..MaxLogins
        BY Numbers DEF Init
    <2>2. cut \in BOOLEAN /\ sent \in {"bearer", "blank", "none"}
        BY DEF Init
    <2> QED BY <2>1, <2>2, NoTokensFacts DEF Init, OwnTypeOK, Places, Callers
<1>4. TokensInv
    BY NoTokensFacts DEF Init, TokensInv, Keeping, Missing
<1>5. FileInv
    BY DEF Init, FileInv, Missing
<1> QED BY <1>1, <1>2, <1>3, <1>4, <1>5 DEF IInv, TypeOK, OwnTypeOK

LEMMA EveryStep == IInv /\ [Next]_vars => IInv' /\ Fresh
<1> SUFFICES ASSUME IInv, [Next]_vars PROVE IInv' /\ Fresh
    OBVIOUS
<1>1. HttpTypeOK /\ HttpInv /\ OwnTypeOK
    BY DEF IInv, TypeOK, OwnTypeOK
<1>2. CASE GetValidToken
    BY <1>2, GetValidTokenKeeps
<1>3. CASE RefreshAnswered
    BY <1>3, RefreshAnsweredKeeps
<1>4. CASE SaveRefreshed \/ SaveProject
    BY <1>4, SaveKeeps
<1>5. CASE GetProjectId
    BY <1>5, GetProjectIdKeeps
<1>6. CASE DiscoverProjectId
    BY <1>6, DiscoverProjectIdKeeps
<1>7. CASE Answered \/ Start
    BY <1>7, AnsweredKeeps
<1>8. CASE ReadLine
    <2>1. HttpTypeOK'
        BY <1>1, <1>8 DEF ReadLine, HttpTypeOK, Bodies
    <2>2. HttpInv'
        BY <1>1, <1>8 DEF ReadLine, HttpInv
    <2> QED BY <1>8, <2>1, <2>2, WaitingKeeps DEF ReadLine, Callers
<1>9. CASE Transfer
    <2>1. HttpTypeOK' /\ HttpInv'
        BY <1>1, <1>9, HttpStepKeeps DEF Transfer
    <2>2. phase # "idle"
        BY <1>9 DEF Transfer, HttpStep, SeeEsc, TransferFails, Retry, Respond
    <2>3. UNCHANGED <<tokens, file, sent, logins, cut>> /\ caller' \in Callers /\ pc' = pc
        BY <1>1, <1>9 DEF Transfer, ownVars, OwnTypeOK
    <2> QED BY <2>1, <2>2, <2>3, WaitingKeeps
<1>10. CASE Esc
    <2>1. HttpTypeOK' /\ HttpInv' /\ phase' = phase
        BY <1>1, <1>10, PressEscKeeps DEF Esc, PressEsc
    <2>2. UNCHANGED <<tokens, file, sent, logins, cut>> /\ caller' \in Callers /\ pc' = pc
        BY <1>1, <1>10 DEF Esc, ownVars, OwnTypeOK
    <2> QED BY <2>1, <2>2, WaitingKeeps
<1>11. CASE Stop
    BY <1>11, StopKeeps
<1>12. CASE Login
    BY <1>12, LoginKeeps
<1>13. CASE Tick
    BY <1>13, TickKeeps
<1>14. CASE UNCHANGED vars
    <2>1. UNCHANGED httpVars /\ UNCHANGED ownVars /\ phase' = phase
        BY <1>14 DEF vars, httpVars
    <2>2. HttpTypeOK' /\ HttpInv'
        BY <1>1, <2>1, HttpUnchanged
    <2>3. UNCHANGED <<tokens, file, sent, logins, cut>> /\ caller' \in Callers /\ pc' = pc
        BY <1>1, <2>1 DEF ownVars, OwnTypeOK
    <2> QED BY <2>1, <2>2, <2>3, WaitingKeeps
<1> QED BY <1>2, <1>3, <1>4, <1>5, <1>6, <1>7, <1>8, <1>9, <1>10, <1>11, <1>12, <1>13, <1>14
        DEF Next, Program

(* The invariant: the types, the timers, and which copy of the login is    *)
(* whole at each place of the program (core/oauth_handler.cpp).            *)
THEOREM Invariance == Spec => []IInv
BY Initially, EveryStep, PTL DEF Spec

(* Every state of the client and of the handler is well typed.             *)
THEOREM TypeCorrect == Spec => []TypeOK
<1>1. IInv => TypeOK
    BY DEF IInv
<1> QED BY <1>1, Invariance, PTL

(* No attempt leaves before the last moment its server asked for, however  *)
(* many forms it used and however the back-off compares (ExecuteWithRetry).*)
THEOREM ServersAreHeard == Spec => []ServerIsHeard
<1>1. IInv => ServerIsHeard
    BY DEF IInv, HttpInv, ServerIsHeard
<1> QED BY <1>1, Invariance, PTL

(* Only a cut write of the file loses a login (SaveTokens, RefreshToken).  *)
THEOREM LoginsAreKept == Spec => []LoginKept
<1>1. IInv => LoginKept
    <2> SUFFICES ASSUME IInv PROVE LoginKept
        OBVIOUS
    <2>1. file.kind \in {"missing", "torn", "tokens"} /\ FileInv
        BY FileFacts DEF IInv, TypeOK
    <2> QED BY <2>1 DEF FileInv, LoginKept
<1> QED BY <1>1, Invariance, PTL

(* A token that is sent is one the server still takes, as long as no       *)
(* transfer takes longer than the leeway (GetValidToken).                  *)
THEOREM TokensAreFresh == Spec => FreshWhenSent
<1>1. IInv /\ [Next]_vars => [Fresh]_vars
    BY EveryStep
<1> QED BY <1>1, Invariance, PTL DEF Spec, FreshWhenSent, Fresh

(* An Esc cancels the request it was pressed in, or the next one to look;  *)
(* none that was seen before (ResetAbort).                                 *)
THEOREM EscCancelsOnce == Spec => CancelledByKey
<1> DEFINE ByKey == (pc' = pc /\ phase = "sending" /\ phase' = "idle" /\ answer' = "cancelled") => key
<1>1. IInv /\ [Next]_vars => [ByKey]_vars
    <2> SUFFICES ASSUME IInv, Next, pc' = pc, phase = "sending", phase' = "idle", answer' = "cancelled"
                 PROVE  key
        OBVIOUS
    <2>1. ~abort
        BY DEF IInv, HttpInv
    <2>2. CASE Transfer
        <3>1. CASE SeeEsc
            BY <2>1, <3>1 DEF SeeEsc
        <3>2. CASE TransferFails \/ Retry
            BY <3>2 DEF TransferFails, Retry, Return, Sleep
        <3>3. ASSUME NEW r \in Responses, Respond(r) PROVE FALSE
            BY <3>3 DEF Respond, Return, Sleep
        <3> QED BY <2>2, <3>1, <3>2, <3>3 DEF Transfer, HttpStep
    <2>3. CASE Program
        <3>1. Moves
            BY <2>3, ProgramMoves
        <3> QED BY <3>1 DEF Moves, Request, httpVars
    <2>4. CASE Start \/ ReadLine \/ Esc \/ Stop \/ Login \/ Tick
        BY <2>4 DEF Start, Goto, ReadLine, Esc, PressEsc, Stop, Login, Tick, HttpTick, httpVars
    <2> QED BY <2>2, <2>3, <2>4 DEF Next
<1> QED BY <1>1, Invariance, PTL DEF Spec, CancelledByKey
=============================================================================
