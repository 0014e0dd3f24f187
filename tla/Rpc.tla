--------------------------------- MODULE Rpc ---------------------------------
(***************************************************************************)
(* What the transport between a Python client and the injected server      *)
(* promises, whatever channel carries it: a call is executed at most once, *)
(* only after it was asked in full, and a client that gets the reply knows *)
(* that its call was executed.  A call whose client fails or dies may have *)
(* been executed or not, and may still be.                                 *)
(***************************************************************************)
CONSTANT Call

VARIABLES
    asked,      \* the whole request has been sent
    executed,   \* the handler has run for it
    outcome     \* what the client got

vars == <<asked, executed, outcome>>

Init ==
    /\ asked = [k \in Call |-> FALSE]
    /\ executed = [k \in Call |-> FALSE]
    /\ outcome = [k \in Call |-> "none"]

Ask(k) ==
    /\ ~asked[k] /\ outcome[k] = "none"
    /\ asked' = [asked EXCEPT ![k] = TRUE]
    /\ UNCHANGED <<executed, outcome>>

Execute(k) ==
    /\ asked[k] /\ ~executed[k]
    /\ executed' = [executed EXCEPT ![k] = TRUE]
    /\ UNCHANGED <<asked, outcome>>

Answer(k) ==
    /\ asked[k] /\ executed[k] /\ outcome[k] = "none"
    /\ outcome' = [outcome EXCEPT ![k] = "answered"]
    /\ UNCHANGED <<asked, executed>>

Fail(k) ==
    /\ outcome[k] = "none"
    /\ \E o \in {"failed", "lost"} : outcome' = [outcome EXCEPT ![k] = o]
    /\ UNCHANGED <<asked, executed>>

Next == \E k \in Call : Ask(k) \/ Execute(k) \/ Answer(k) \/ Fail(k)

Spec == Init /\ [][Next]_vars
=============================================================================
