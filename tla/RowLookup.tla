----------------------------- MODULE RowLookup -----------------------------
(***************************************************************************)
(* What row_store_lookup (adapter/row_store.cpp) promises the stream that  *)
(* launched it, whatever threads do the work: between the call and the     *)
(* return each requested row is written once, the call returns only when   *)
(* all of them are there, and nothing is written at any other time.  The   *)
(* compute stream reads the buffers as soon as the callback returns.       *)
(***************************************************************************)
EXTENDS Integers

CONSTANTS Callers, Counts

VARIABLES
    busy,      \* busy[c]: c is inside row_store_lookup
    count,     \* count[c]: rows of its current (or last) lookup
    written    \* written[c]: those already in its buffers

vars == <<busy, count, written>>

Init ==
    /\ busy = [c \in Callers |-> FALSE]
    /\ count = [c \in Callers |-> 0]
    /\ written = [c \in Callers |-> {}]

Call(c) ==
    /\ ~busy[c]
    /\ \E n \in Counts : count' = [count EXCEPT ![c] = n]
    /\ busy' = [busy EXCEPT ![c] = TRUE]
    /\ written' = [written EXCEPT ![c] = {}]

\* One row, by whichever thread.
Write(c, i) ==
    /\ busy[c]
    /\ i \in (0 .. count[c] - 1) \ written[c]
    /\ written' = [written EXCEPT ![c] = @ \cup {i}]
    /\ UNCHANGED <<busy, count>>

\* All rows at once, by the calling thread, and the return.
ServeAndReturn(c) ==
    /\ busy[c]
    /\ written' = [written EXCEPT ![c] = 0 .. count[c] - 1]
    /\ busy' = [busy EXCEPT ![c] = FALSE]
    /\ UNCHANGED count

Return(c) ==
    /\ busy[c]
    /\ written[c] = 0 .. count[c] - 1
    /\ busy' = [busy EXCEPT ![c] = FALSE]
    /\ UNCHANGED <<count, written>>

Next ==
    \E c \in Callers :
        \/ Call(c)
        \/ \E i \in 0 .. count[c] - 1 : Write(c, i)
        \/ ServeAndReturn(c)
        \/ Return(c)

Spec == Init /\ [][Next]_vars

=============================================================================
