------------------------------- MODULE ToolBatch -------------------------------
(***************************************************************************)
(* What ToolDispatcher::Dispatch promises its caller, with no threads and  *)
(* no queue: the calls of a batch are resolved in any order, each once and *)
(* for good; a call is given up only if the batch was cancelled; the batch *)
(* is handed back when all its calls are resolved, the result of call i in *)
(* slot i.                                                                 *)
(***************************************************************************)
EXTENDS Naturals

CONSTANTS NumBatches, MaxCalls

VARIABLES
    number,     \* how many batches were submitted; the current one
    size,       \* how many calls it has
    cancelled,  \* whether it was cancelled
    outcome,    \* outcome[i]: the result of call i, or Unresolved
    open        \* submitted and not handed back

vars == <<number, size, cancelled, outcome, open>>

Calls == 1 .. MaxCalls
Unresolved == [call |-> 0, fate |-> "none"]
GivenUp == {"skipped", "interrupted"}
Ended   == {"finished", "refused"}

Init ==
    /\ number = 0 /\ size = 0
    /\ cancelled = FALSE /\ open = FALSE
    /\ outcome = [i \in Calls |-> Unresolved]

Submit(n) ==
    /\ ~open /\ number < NumBatches
    /\ number' = number + 1 /\ size' = n
    /\ cancelled' = FALSE /\ open' = TRUE
    /\ outcome' = [i \in Calls |-> Unresolved]

Cancel ==
    /\ number > 0
    /\ cancelled' = TRUE
    /\ UNCHANGED <<number, size, outcome, open>>

Resolve(i, fate) ==
    /\ open /\ i <= size
    /\ outcome[i] = Unresolved
    /\ fate \in GivenUp => cancelled
    /\ outcome' = [outcome EXCEPT ![i] = [call |-> i, fate |-> fate]]
    /\ UNCHANGED <<number, size, cancelled, open>>

HandBack ==
    /\ open /\ \A i \in 1 .. size : outcome[i] # Unresolved
    /\ open' = FALSE
    /\ UNCHANGED <<number, size, cancelled, outcome>>

Next ==
    \/ \E n \in Calls : Submit(n)
    \/ Cancel
    \/ \E i \in Calls, fate \in GivenUp \cup Ended : Resolve(i, fate)
    \/ HandBack

Spec == Init /\ [][Next]_vars
=============================================================================
