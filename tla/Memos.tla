--------------------------------- MODULE Memos ---------------------------------
(***************************************************************************)
(* The memos: the table llm_memos with its search by tags                  *)
(* (core/database.cpp), the tools that save and retrieve them              *)
(* (core/tool_executor.cpp), the commands that edit them                   *)
(* (interface/command_handler.cpp), and their way into a prompt            *)
(* (core/orchestrator.cpp).                                                *)
(*                                                                         *)
(* A text (a message, a tag) is the sequence of its tokens: words, and the *)
(* signs between them.  "." stands for every sign the search splits at     *)
(* that is not named here; one it does not split at (?, !, /, *, ...) is a *)
(* word that makes one word with its neighbour, as in "arch?".             *)
(***************************************************************************)
EXTENDS Naturals, FiniteSets, SequencesExt

Blank  == " "
Hyphen == "-"
Comma  == ","
Separators == {Blank, Hyphen, Comma, "."}

CONSTANTS
    Words,          \* and the signs that do not split a text
    Lower,          \* of a word, without its capitals
    Size,           \* of a token: its letters
    StopWords,      \* that no search looks for
    SavedTags,      \* the tags of a memo the model or the user may save
    MaxMemos,       \* bound: memos ever saved
    MaxInjected     \* memos a prompt shows: 5

Tokens == Words \cup Separators
Text   == Seq(Tokens)

ASSUME MemosAssumption ==
    /\ Words \cap Separators = {}
    /\ Lower \in [Words -> Words] /\ \A w \in Words : Lower[Lower[w]] = Lower[w]
    /\ Size \in [Tokens -> Nat \ {0}] /\ StopWords \subseteq Words
    /\ SavedTags \subseteq SUBSET Text /\ \A tags \in SavedTags : IsFiniteSet(tags)
    /\ MaxMemos \in Nat /\ MaxInjected \in Nat

VARIABLES
    memos,      \* [id -> [tags, json]]; json: semantic_tags is a JSON array
    nextMemo    \* AUTOINCREMENT

memoVars == <<memos, nextMemo>>

MemosInit == memos = << >> /\ nextMemo = 1

----------------------------------------------------------------------------
(* The search.                                                             *)

\* absl::AsciiStrToLower
Lowered(text) == [k \in DOMAIN text |-> IF text[k] \in Words THEN Lower[text[k]] ELSE text[k]]

\* absl::StrSplit: the longest stretches of a text without one of the signs; the
\* empty ones, which nothing looks for, are left out.
Runs(text, signs) ==
    {r \in (1..Len(text)) \X (1..Len(text)) :
        /\ r[1] <= r[2] /\ \A k \in r[1]..r[2] : text[k] \notin signs
        /\ r[1] > 1 => text[r[1] - 1] \in signs
        /\ r[2] < Len(text) => text[r[2] + 1] \in signs}
Split(text, signs) == {SubSeq(text, r[1], r[2]) : r \in Runs(text, signs)}

\* absl::StripAsciiWhitespace
Stripped(text) ==
    LET solid == {k \in DOMAIN text : text[k] # Blank}
    IN IF solid = {} THEN << >> ELSE SubSeq(text, Min(solid), Max(solid))

Length(text) == FoldSeq(LAMBDA token, n : Size[token] + n, 0, text)
IsStopWord(text) == Len(text) = 1 /\ text[1] \in StopWords

\* The words of a text that are worth a search.
ExtractTags(text) ==
    {word \in Split(Lowered(text), Separators) : Length(word) > 3 /\ ~IsStopWord(word)}

\* What GetMemosByTags looks for: the words of each text, and the text itself.
SearchTerms(texts) ==
    UNION {ExtractTags(t) : t \in texts}
        \cup {t \in {Lowered(Stripped(u)) : u \in texts} : Length(t) > 2 /\ ~IsStopWord(t)}

\* Faulty: the patterns for the middle of a tag and for its end are forgotten.
MatchesFront(tag, term) ==
    \/ tag = term
    \/ IsPrefix(Append(term, Hyphen), Lowered(tag))

\* "=", and LIKE 'term-%', '%-term', '%-term-%': of the signs in a tag only the
\* hyphen ends a word, and only "=" minds capitals.
Matches(tag, term) ==
    \E i, j \in 1..Len(tag) :
        /\ Lowered(SubSeq(tag, i, j)) = term
        /\ i > 1 => tag[i - 1] = Hyphen
        /\ j < Len(tag) => tag[j + 1] = Hyphen
        /\ i = 1 /\ j = Len(tag) => tag = term

\* json_each fails on what is no JSON, and with it the whole search.
GetMemosByTags(texts) ==
    LET terms == SearchTerms(texts)
    IN IF \E id \in DOMAIN memos : ~memos[id].json THEN {}
       ELSE {id \in DOMAIN memos : \E tag \in memos[id].tags, term \in terms : Matches(tag, term)}

FirstFew(ids, n) == {id \in ids : Cardinality({i \in ids : i < id}) < n}

\* InjectRelevantMemos, for the last message of the user.
RelevantMemos(message) ==
    FirstFew(GetMemosByTags(ExtractTags(message)), MaxInjected)

----------------------------------------------------------------------------
(* What the tools and the commands do to the table.                        *)

AddMemo(tags, json) ==
    /\ nextMemo <= MaxMemos
    /\ memos' = [id \in DOMAIN memos \cup {nextMemo} |->
                    IF id = nextMemo THEN [tags |-> tags, json |-> json] ELSE memos[id]]
    /\ nextMemo' = nextMemo + 1

UpdateMemo(id, tags, json) ==
    /\ memos' = [memos EXCEPT ![id] = [tags |-> tags, json |-> json]]
    /\ UNCHANGED nextMemo

DeleteMemo(id) ==
    /\ memos' = [i \in DOMAIN memos \ {id} |-> memos[i]]
    /\ UNCHANGED nextMemo

\* The tags in a list of them that is written with commas.
Fields(line) == {f \in Split(line, {Comma}) : \E k \in DOMAIN f : f[k] # Blank}

\* MemoToMarkdown writes a blank before each tag, and MarkdownToMemo keeps it;
\* without the line "# Tags:" neither tags nor content are found.
ReadMarkdown(tags) ==
    {[tags |-> UNION {Fields(<<Blank>> \o t) : t \in tags}, json |-> TRUE],
     [tags |-> {}, json |-> FALSE]}

SaveMemo(tags) == AddMemo(tags, TRUE)

HandleMemo ==
    \/ \E tags \in SavedTags :
          \/ /\ \A t \in tags : Blank \notin ToSet(t)
             /\ AddMemo(UNION {Fields(t) : t \in tags}, TRUE)
          \/ \E read \in ReadMarkdown(tags) : AddMemo(read.tags, read.json)
    \/ \E id \in DOMAIN memos :
          \/ DeleteMemo(id)
          \/ \E tags \in SavedTags \cup {memos[id].tags} :
                \E read \in ReadMarkdown(tags) : UpdateMemo(id, read.tags, read.json)

----------------------------------------------------------------------------
MemosTypeOK ==
    /\ nextMemo \in 1..(MaxMemos + 1)
    /\ DOMAIN memos \subseteq 1..(nextMemo - 1)
    /\ \A id \in DOMAIN memos : memos[id].tags \subseteq Text /\ memos[id].json \in BOOLEAN
=============================================================================
