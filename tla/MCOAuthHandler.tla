----------------------------- MODULE MCOAuthHandler -----------------------------
EXTENDS OAuthHandler

No == [kind |-> "absent", n |-> 0]
H(kind, n) == [kind |-> kind, n |-> n]
R(code, b) == [code |-> code, after |-> No, reset |-> No, delays |-> {}, body |-> b]
Limited    == R(429, "garbage")

MCResponses ==
    {R(200, b) : b \in {"token", "empty", "garbage", "project"}}
    \cup {R(404, "garbage"), R(503, "garbage"), Limited}
    \cup {[Limited EXCEPT !.after = h] :
              h \in {H("malformed", 0), H("seconds", 3), H("date", -1), H("date", 2)}}
    \cup {[Limited EXCEPT !.reset = h] : h \in {H("timestamp", 3), H("relative", 2), H("timestamp", -2)}}
    \cup {[R(503, "garbage") EXCEPT !.delays = {1, 3}],
          [Limited EXCEPT !.after = H("seconds", 1), !.reset = H("relative", 3), !.delays = {2}]}
=============================================================================
