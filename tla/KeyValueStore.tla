--------------------------- MODULE KeyValueStore ---------------------------
(***************************************************************************)
(* What IBackingStore promises the engine: "every byte it reports as       *)
(* stored has actually been written and durably flushed".                  *)
(*                                                                         *)
(* An operation that returned Success is there for good.  One that failed, *)
(* or was under way when the process ended, may still take effect at a     *)
(* later open, as a whole or not at all.  The promise ends once `damaged'  *)
(* holds; FileBackingStore says what damages it.                           *)
(***************************************************************************)
EXTENDS Integers

CONSTANTS Keys, Values, Absent

Nothing == [k \in Keys |-> Absent]
Operations == [key : Keys, val : Values \cup {Absent}]
NoCall == [key |-> Absent, val |-> Absent]

VARIABLES
    open,
    store,      \* what Get and Contains tell, while open
    call,       \* the Put or Remove (val = Absent) under way
    possible,   \* the contents that an open may find
    damaged

vars == <<open, store, call, possible, damaged>>

Init ==
    /\ ~open /\ store = Nothing /\ call = NoCall
    /\ possible = {Nothing}
    /\ ~damaged

Apply(contents) == [contents EXCEPT ![call.key] = call.val]

Open ==
    /\ ~open /\ open'
    /\ damaged' \/ store' \in possible
    /\ UNCHANGED <<call, possible>>

\* The process ends or the power fails, in the middle of a call or not.
Close ==
    /\ ~open' /\ store' = Nothing /\ call' = NoCall
    /\ UNCHANGED possible

Begin ==
    /\ open /\ call = NoCall
    /\ \E op \in Operations : call' = op
    /\ UNCHANGED <<open, store, possible>>

\* From here on the operation may turn out to have happened.
Attempt ==
    /\ call # NoCall
    /\ possible' = possible \cup {Apply(c) : c \in possible \cup {store}}
    /\ call' \in {call, NoCall}  \* it may fail at once
    /\ UNCHANGED <<open, store>>

Succeed ==
    /\ call # NoCall /\ call' = NoCall
    /\ store' = Apply(store)
    /\ possible' = {Apply(store)}
    /\ UNCHANGED open

Fail ==
    /\ call # NoCall /\ call' = NoCall
    /\ UNCHANGED <<open, store, possible>>

Next ==
    /\ damaged => damaged'
    /\ Open \/ Close \/ Begin \/ Attempt \/ Succeed \/ Fail

Spec == Init /\ [][Next]_vars
=============================================================================
