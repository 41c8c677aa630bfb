-------------------------------- MODULE Irq --------------------------------
(***************************************************************************)
(* The interrupt table of src/irq.rs: registrations in slots, hard         *)
(* handlers run by dispatch, and deferred callbacks marked in PENDING and  *)
(* run by run_deferred from the main loop.  A registration is represented  *)
(* by its vector: kind and line agree with the vector for every caller.    *)
(***************************************************************************)
EXTENDS Naturals, FiniteSets, FiniteSetsExt

CONSTANTS
    MaxHandlers,    \* MAX_HANDLERS
    Deferring       \* vectors whose registration has a deferred callback

VARIABLES
    handlers,       \* HANDLERS: used slot -> vector
    pending,        \* PENDING: the set of slots
    pass,           \* slots of the running run_deferred pass still to be looked at
    due             \* history: vectors accepted by their hard handler whose
                    \*   deferred callback has not started since
irqVars == <<handlers, pending, pass, due>>

HandlerSlots == 0 .. MaxHandlers - 1

IrqInit == handlers = [s \in {} |-> 0] /\ pending = {} /\ pass = {} /\ due = {}

\* register: refused (as the unchanged table) for a duplicate or without a slot.
Registered(h, v) ==
    LET free == HandlerSlots \ DOMAIN h IN
    IF free = {} \/ \E s \in DOMAIN h : h[s] = v THEN h
    ELSE [s \in DOMAIN h \cup {Min(free)} |-> IF s = Min(free) THEN v ELSE h[s]]

Unregistered(h, v) == [s \in {x \in DOMAIN h : h[x] # v} |-> h[s]]

SlotOf(v) == {s \in DOMAIN handlers : handlers[s] = v}

\* dispatch, after the hard handler returned whether it accepted the interrupt.
Dispatched(v, accepted) ==
    /\ pending' = IF accepted /\ v \in Deferring THEN pending \cup SlotOf(v) ELSE pending
    /\ due' = IF accepted /\ v \in Deferring /\ SlotOf(v) # {} THEN due \cup {v} ELSE due
    /\ UNCHANGED <<handlers, pass>>

\* run_deferred: take all pending bits, then look at one slot after the other.
TakePending ==
    /\ pass' = pending
    /\ pending' = {}
    /\ UNCHANGED <<handlers, due>>

RunSlot ==
    LET s == Min(pass) IN
    /\ pass' = pass \ {s}
    /\ due' = IF s \in DOMAIN handlers THEN due \ {handlers[s]} ELSE due
    /\ UNCHANGED <<handlers, pending>>

\* Work that a hard handler accepted is never forgotten: its slot is pending or
\* still to be looked at by the running pass (dispatch may come between any two
\* steps of run_deferred).
NoDeferredLost ==
    \A v \in due : SlotOf(v) \subseteq pending \cup pass /\ SlotOf(v) # {}

=============================================================================
