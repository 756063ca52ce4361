------------------------------ MODULE CHashSet ------------------------------
(***************************************************************************)
(* The verification stub of HashSet<u16>: the Rust wrappers of             *)
(* stubs/Rust/hashset/c_hashset.rs and the C code they call,               *)
(* stubs/C/hashset/hashset.c.  A set is one array, indexed by the value;   *)
(* zero marks an absent value, except that value 0 is absent when its cell *)
(* holds SENTINEL.                                                         *)
(***************************************************************************)
EXTENDS CHashSetDomain

VARIABLES domain, call, status

vars == <<domain, call, status>>

SENTINEL == 1

Cells == 0 .. UINT16_MAX - 1

hasher(value) == value

(* The test of insert and contains, and the negation of remove's.          *)
present(value) ==
    LET hash == hasher(value) IN
    \/ hash = 0 /\ domain[hash] # SENTINEL
    \/ hash # 0 /\ domain[hash] # 0

Absent(hash) == IF hash = 0 THEN SENTINEL ELSE 0

Return(op, value, result) ==
    call' = [op |-> op, value |-> value, result |-> result] /\ UNCHANGED status

Store(hash, x) == domain' = [domain EXCEPT ![hash] = x]

hashset_new ==
    /\ domain = [i \in Cells |-> Absent(i)]
    /\ call = [op |-> "new", value |-> 0, result |-> TRUE]
    /\ status = "ok"

hashset_insert(value) ==
    LET hash == hasher(value) IN
    /\ hash \in Cells
    /\ IF present(value) THEN Return("insert", value, FALSE) /\ UNCHANGED domain
       ELSE Return("insert", value, TRUE) /\ Store(hash, value)

hashset_contains(value) ==
    /\ hasher(value) \in Cells
    /\ Return("contains", value, present(value))
    /\ UNCHANGED domain

(* A mutant: remove clears every cell alike.                               *)
RemoveZeroes(value) ==
    LET hash == hasher(value) IN
    /\ hash \in Cells
    /\ IF ~present(value) THEN Return("remove", value, FALSE) /\ UNCHANGED domain
       ELSE Return("remove", value, TRUE) /\ Store(hash, 0)

hashset_remove(value) ==
    LET hash == hasher(value) IN
    /\ hash \in Cells
    /\ IF ~present(value) THEN Return("remove", value, FALSE) /\ UNCHANGED domain
       ELSE Return("remove", value, TRUE) /\ Store(hash, Absent(hash))

(* Any of the three on a value whose cell was not allocated.               *)
Outside(value) ==
    hasher(value) \notin Cells /\ status' = "oob" /\ UNCHANGED <<domain, call>>

Stopped == status = "oob" /\ UNCHANGED vars

Init == hashset_new

Next ==
    \/ \E value \in Inputs :
          /\ status = "ok"
          /\ \/ hashset_insert(value) \/ hashset_contains(value) \/ hashset_remove(value)
             \/ Outside(value)
    \/ Stopped

Spec == Init /\ [][Next]_vars

-----------------------------------------------------------------------------
(* Types of the state; a cell holds a uint16_t.                            *)
TypeOK ==
    /\ domain \in [Cells -> 0 .. UINT16_MAX]
    /\ status \in {"ok", "oob"}
    /\ call.value \in Inputs \cup {0} /\ call.result \in BOOLEAN

(* A cell holds its own value or the mark of absence and nothing else, so  *)
(* the identity hash and the sentinel never confuse two values.            *)
CellsOwnValue == \A i \in Cells : domain[i] \in {Absent(i), i}

members == {v \in Cells : present(v)}

(* Whatever the calls and their order, every answer of insert, contains    *)
(* and remove is that of a set.                                            *)
Std == INSTANCE SetSpec WITH Inputs <- Inputs, members <- members, call <- call
BehavesAsSet == Std!Spec

=============================================================================
