----------------------------- MODULE BoundedFifo -----------------------------
(* What the three IPC queues promise (docs/ipc.md): items leave in the order *)
(* they were put, a full queue never overwrites unread data, and once a side *)
(* is shut it never opens again.                                             *)
EXTENDS Naturals, Sequences

CONSTANTS Limit, Values

VARIABLES
    items,          \* unread items, oldest first
    accepting,      \* items may still be put
    taking          \* items may still be taken

FifoVars == <<items, accepting, taking>>

FifoInit == items = <<>> /\ accepting = TRUE /\ taking = TRUE

Put(v) ==
    /\ accepting
    /\ Len(items) < Limit
    /\ items' = Append(items, v)
    /\ UNCHANGED <<accepting, taking>>

Take ==
    /\ taking
    /\ items # <<>>
    /\ items' = Tail(items)
    /\ UNCHANGED <<accepting, taking>>

Shut ==
    /\ accepting' = FALSE
    /\ taking' \in {taking, FALSE}
    /\ UNCHANGED items

FifoNext == (\E v \in Values : Put(v)) \/ Take \/ Shut

FifoSpec == FifoInit /\ [][FifoNext]_FifoVars

=============================================================================
