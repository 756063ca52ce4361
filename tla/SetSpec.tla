------------------------------ MODULE SetSpec ------------------------------
(***************************************************************************)
(* What a client of HashSet relies on: the members, and the answer of      *)
(* every call.                                                             *)
(***************************************************************************)
CONSTANT Inputs

VARIABLES members, call

vars == <<members, call>>

Answer(op, value, result) == call' = [op |-> op, value |-> value, result |-> result]

Init == members = {} /\ call = [op |-> "new", value |-> 0, result |-> TRUE]

Insert(value) ==
    /\ Answer("insert", value, value \notin members)
    /\ members' = members \cup {value}

Contains(value) ==
    /\ Answer("contains", value, value \in members)
    /\ UNCHANGED members

Delete(value) ==
    /\ Answer("remove", value, value \in members)
    /\ members' = members \ {value}

Next == \E value \in Inputs : Insert(value) \/ Contains(value) \/ Delete(value)

Spec == Init /\ [][Next]_vars
=============================================================================
