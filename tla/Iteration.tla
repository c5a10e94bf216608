----------------------------- MODULE Iteration -----------------------------
(***************************************************************************)
(* What IterateNestsConcurrently promises its callers, whatever goes on    *)
(* inside: fn is called at most once for a row; success means that it was  *)
(* called for every row there was at the beginning, and that no call       *)
(* failed; there is an error only if a call failed or the iteration was    *)
(* stopped; and when it returns no call is under way.                      *)
(***************************************************************************)
CONSTANT NestId

VARIABLES
    initially,  \* the rows there were at the beginning
    table,      \* the rows there are
    visited,    \* those fn has been called for
    active,     \* those whose call is under way
    failed,     \* a call has failed
    stopped,    \* the caller has cancelled, or the database has failed
    excused,    \* the client takes what there is for success
    result      \* running, ok or error

vars == <<initially, table, visited, active, failed, stopped, excused, result>>

Init ==
    /\ initially = table
    /\ table \subseteq NestId
    /\ visited = {}
    /\ active = {}
    /\ ~failed /\ ~stopped /\ ~excused
    /\ result = "running"

Call(n) ==
    /\ result = "running"
    /\ n \in table \ visited
    /\ visited' = visited \union {n}
    /\ active' = active \union {n}
    /\ UNCHANGED <<initially, table, failed, stopped, excused, result>>

CallReturns(n, fails) ==
    /\ n \in active
    /\ active' = active \ {n}
    /\ failed' = (failed \/ fails)
    /\ UNCHANGED <<initially, table, visited, stopped, excused, result>>

Insert(n) ==
    /\ table' = table \union {n}
    /\ UNCHANGED <<initially, visited, active, failed, stopped, excused, result>>

Stop ==
    /\ stopped'
    /\ excused' \in BOOLEAN
    /\ UNCHANGED <<initially, table, visited, active, failed, result>>

Succeed ==
    /\ result = "running"
    /\ active = {}
    /\ excused \/ (initially \subseteq visited /\ ~failed)
    /\ result' = "ok"
    /\ UNCHANGED <<initially, table, visited, active, failed, stopped, excused>>

\* The calls under way end with the process, or have ended before.
Fail ==
    /\ result = "running"
    /\ failed \/ stopped'
    /\ stopped => stopped'
    /\ excused' \in BOOLEAN
    /\ result' = "error"
    /\ active' = {}
    /\ UNCHANGED <<initially, table, visited, failed>>

Next ==
    \/ \E n \in NestId : Call(n) \/ Insert(n)
    \/ \E n \in NestId, fails \in BOOLEAN : CallReturns(n, fails)
    \/ Stop
    \/ Succeed
    \/ Fail

Spec == Init /\ [][Next]_vars

=============================================================================
