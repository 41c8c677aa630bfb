----------------------------- MODULE WaitQueue -----------------------------
(* The bounded waiter set of src/ipc.rs: an occupied slot holds one waiter. *)
(* A waiter takes the lowest free slot and the lowest occupied slot is woken *)
(* first, so the order is by slot, not by arrival.                          *)
EXTENDS Naturals

CONSTANT WaitSlots      \* WAITERS, 4

ASSUME WaitAssumption == WaitSlots \in Nat

Waiting(q) == {q[s] : s \in DOMAIN q}

Least(S) == CHOOSE s \in S : \A x \in S : s <= x

EmptyQueue == [s \in {} |-> 0]

\* enqueue succeeds: not waiting already, and a slot is free.
CanEnqueue(q, w) ==
    /\ w \notin Waiting(q)
    /\ DOMAIN q # 0 .. WaitSlots - 1

Enqueue(q, w) ==
    LET free == Least((0 .. WaitSlots - 1) \ DOMAIN q) IN
    [s \in DOMAIN q \cup {free} |-> IF s = free THEN w ELSE q[s]]

\* The waiter wake_one returns, as a set that is empty when there is none.
Woken(q) == IF DOMAIN q = {} THEN {} ELSE {q[Least(DOMAIN q)]}

WakeOne(q) ==
    [s \in {x \in DOMAIN q : \E y \in DOMAIN q : y < x} |-> q[s]]

\* The states of the threads after thread c returns from its call in the given
\* state and the threads in woken become runnable.  Turning a waiter's token
\* into a runnable thread is the scheduler's part (docs/ipc.md).
After(client, c, state, woken) ==
    [x \in DOMAIN client |->
       IF x \in woken THEN "woken" ELSE IF x = c THEN state ELSE client[x]]

NoThread == 0

=============================================================================
