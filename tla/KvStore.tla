------------------------------- MODULE KvStore -------------------------------
(***************************************************************************)
(* What the key-value store (aos/kv.h) promises its callers.  A call asks  *)
(* for a set of pairs to hold: one pair to set a key, a pair with None to  *)
(* delete it, one for every key to delete all.  The pairs take effect one  *)
(* by one.  A call that returns success has established its pairs; one     *)
(* that returns an error has changed nothing.  A call that power loss cuts *)
(* short may take effect, pair by pair, until the next start is complete,  *)
(* and not later.  Nothing else ever changes what is stored: no garbage    *)
(* collection, no power loss, no start.                                    *)
(***************************************************************************)
CONSTANTS Keys, Vals, None, Tasks

VARIABLES
    val,    \* the value of every key, or None
    op,     \* the pairs each task's call asks for; {} between calls
    cut,    \* the pairs of the calls that were cut short
    told    \* the value the last call on a key has vouched for, or "any"

vars == <<val, op, cut, told>>

Pairs == Keys \X (Vals \cup {None})

Init ==
    /\ val = [k \in Keys |-> None]
    /\ op = [t \in Tasks |-> {}]
    /\ cut = {}
    /\ told = [k \in Keys |-> None]

Call(t) ==
    /\ op[t] = {} /\ op'[t] # {} /\ op'[t] \subseteq Pairs
    /\ op' = [op EXCEPT ![t] = op'[t]]
    /\ told' = [k \in Keys |-> IF \E p \in op'[t] : p[1] = k THEN "any" ELSE told[k]]
    /\ UNCHANGED <<val, cut>>

Apply(p) == val' = [val EXCEPT ![p[1]] = p[2]]

\* A pair takes effect, of a call under way or of one that was cut short.
Effect ==
    /\ UNCHANGED <<op, cut, told>>
    /\ \E p \in cut \cup UNION {op[t] : t \in Tasks} : Apply(p)

\* No other call on the key is under way.
Alone(t, k) == \A u \in Tasks \ {t} : \A p \in op[u] : p[1] # k

\* A call returns success, with or without its last pair taking effect just
\* then: all of its pairs hold, and until the next call on them will.
Succeed(t) ==
    /\ op[t] # {} /\ op' = [op EXCEPT ![t] = {}]
    /\ UNCHANGED val \/ \E p \in op[t] : Apply(p)
    /\ \A p \in op[t] : val'[p[1]] = p[2]
    /\ told' = [k \in Keys |-> IF Alone(t, k) /\ \E p \in op[t] : p[1] = k THEN val'[k] ELSE told[k]]
    /\ UNCHANGED cut

\* A call returns an error.
Fail(t) ==
    /\ op[t] # {} /\ op' = [op EXCEPT ![t] = {}]
    /\ UNCHANGED <<val, cut, told>>

PowerLoss ==
    /\ op # op' /\ op' = [t \in Tasks |-> {}]
    /\ cut' = cut \cup UNION {op[t] : t \in Tasks}
    /\ UNCHANGED <<val, told>>

Start == cut # {} /\ cut' = {} /\ UNCHANGED <<val, op, told>>

Next ==
    \/ \E t \in Tasks : Call(t) \/ Succeed(t) \/ Fail(t)
    \/ Effect \/ PowerLoss \/ Start

Spec == Init /\ [][Next]_vars
=============================================================================
