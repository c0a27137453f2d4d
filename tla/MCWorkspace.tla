------------------------------ MODULE MCWorkspace ------------------------------
EXTENDS Workspace

MCWords == {"arch", "Arch", "api", "API", "what", "?"}
MCLower == [w \in MCWords |-> CASE w = "Arch" -> "arch" [] w = "API" -> "api" [] OTHER -> w]
MCSize  == [t \in MCWords \cup Separators |->
               CASE t \in {"arch", "Arch", "what"} -> 4 [] t \in {"api", "API"} -> 3 [] OTHER -> 1]

\* A tag of one word; words between hyphens, and one with a capital; words between
\* other signs, which a list written with commas takes apart.
MCSavedTags ==
    {{<<"arch">>},
     {<<"api", "-", "arch">>, <<"API">>},
     {<<"Arch">>, <<"api", ",", "arch">>, <<"api", " ", "arch">>}}

\* The word alone, with a sign behind it that does not split, and with a capital
\* between hyphens; and no word worth a search.
MCMessages ==
    {<<"what", " ", "arch">>, <<"what", " ", "arch", "?">>, <<"api", "-", "Arch", ".">>,
     <<"what", " ", "api">>}
=============================================================================
