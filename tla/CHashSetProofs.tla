--------------------------- MODULE CHashSetProofs ---------------------------
(***************************************************************************)
(* Proofs about CHashSet for every size of the value type: the cells never *)
(* confuse two values, and the stub implements the set specification.      *)
(***************************************************************************)
EXTENDS CHashSet, TLAPS

(* The invariant the refinement rests on: the array has its shape and each *)
(* cell holds its own value or the mark of absence.                        *)
IInv == domain \in [Cells -> 0 .. UINT16_MAX] /\ CellsOwnValue /\ status \in {"ok", "oob"}

LEMMA CellValues ==
    ASSUME NEW i \in Cells
    PROVE  /\ i \in 0 .. UINT16_MAX /\ Absent(i) \in 0 .. UINT16_MAX
           /\ Absent(i) # i
  BY InputsAssumption DEF Cells, Absent, SENTINEL

(* With cells of their own, presence is read off the mark alone.           *)
LEMMA PresentIff ==
    ASSUME IInv, NEW v \in Cells
    PROVE  present(v) <=> domain[v] # Absent(v)
  BY DEF IInv, present, hasher, Absent, Cells

LEMMA MembersIff ==
    ASSUME IInv, NEW v \in Cells
    PROVE  v \in members <=> domain[v] # Absent(v)
  BY PresentIff DEF members

LEMMA InitIInv == Init => IInv
  BY CellValues DEF Init, hashset_new, IInv, CellsOwnValue

(* Storing in a cell its value or the mark of absence keeps the invariant. *)
LEMMA StoreKeeps ==
    ASSUME IInv, NEW v \in Cells, NEW x \in {v, Absent(v)}, Store(v, x),
           status' \in {"ok", "oob"}
    PROVE  IInv' /\ \A w \in Cells : domain'[w] = IF w = v THEN x ELSE domain[w]
<1>1. x \in 0 .. UINT16_MAX
  BY CellValues
<1>2. domain' \in [Cells -> 0 .. UINT16_MAX]
  BY <1>1 DEF IInv, Store
<1>3. \A w \in Cells : domain'[w] = IF w = v THEN x ELSE domain[w]
  BY DEF IInv, Store
<1> QED BY <1>2, <1>3 DEF IInv, CellsOwnValue

LEMMA NextIInv == IInv /\ [Next]_vars => IInv'
<1> SUFFICES ASSUME IInv, [Next]_vars PROVE IInv'
  OBVIOUS
<1>1. ASSUME NEW value \in Inputs, hashset_insert(value) PROVE IInv'
  BY <1>1, StoreKeeps DEF hashset_insert, hasher, Return, IInv, CellsOwnValue
<1>2. ASSUME NEW value \in Inputs, hashset_remove(value) PROVE IInv'
  BY <1>2, StoreKeeps DEF hashset_remove, hasher, Return, IInv, CellsOwnValue
<1>3. ASSUME NEW value \in Inputs, hashset_contains(value) PROVE IInv'
  BY <1>3 DEF hashset_contains, Return, IInv, CellsOwnValue
<1>4. ASSUME NEW value \in Inputs, Outside(value) PROVE IInv'
  BY <1>4 DEF Outside, IInv, CellsOwnValue
<1>5. CASE UNCHANGED vars
  BY <1>5 DEF vars, IInv, CellsOwnValue
<1> QED BY <1>1, <1>2, <1>3, <1>4, <1>5 DEF Next, Stopped

(* The cells invariant holds in every reachable state, for every width.    *)
THEOREM Invariance == Spec => []IInv
  BY InitIInv, NextIInv, PTL DEF Spec

(* hashset.c keeps in each cell its own value or the mark of absence.      *)
THEOREM CellsNeverConfused == Spec => []CellsOwnValue
<1>1. IInv => CellsOwnValue
  BY DEF IInv
<1> QED BY <1>1, Invariance, PTL

-----------------------------------------------------------------------------
LEMMA InitRefines == Init => Std!Init
<1> SUFFICES ASSUME Init PROVE Std!Init
  OBVIOUS
<1>1. \A v \in Cells : v \notin members
  BY InitIInv, MembersIff DEF Init, hashset_new
<1>2. members = {}
  BY <1>1 DEF members
<1> QED BY <1>2 DEF Init, hashset_new, Std!Init

(* A step that answers r and leaves the cells of all values but v alone.   *)
LEMMA MembersAfter ==
    ASSUME IInv, IInv', NEW v \in Cells,
           \A w \in Cells : w # v => domain'[w] = domain[w]
    PROVE  /\ domain'[v] = Absent(v) => members' = members \ {v}
           /\ domain'[v] # Absent(v) => members' = members \cup {v}
<1>1. \A w \in Cells : w \in members <=> domain[w] # Absent(w)
  BY MembersIff
<1>2. \A w \in Cells : w \in members' <=> domain'[w] # Absent(w)
  <2>1. \A w \in Cells : present(w)' <=> domain'[w] # Absent(w)
    BY DEF IInv, present, hasher, Absent, Cells
  <2> QED BY <2>1 DEF members
<1>3. members \subseteq Cells /\ members' \subseteq Cells
  BY DEF members
<1> QED BY <1>1, <1>2, <1>3

LEMMA InsertRefines ==
    ASSUME IInv, IInv', NEW value \in Inputs, hashset_insert(value)
    PROVE  Std!Insert(value)
<1>1. value \in Cells
  BY DEF hashset_insert, hasher
<1>2. present(value) <=> value \in members
  BY <1>1 DEF members
<1>3. CASE present(value)
  <2>1. members' = members
    BY <1>3, <1>1 DEF hashset_insert, members, present
  <2> QED BY <1>2, <1>3, <2>1 DEF hashset_insert, Return, Std!Insert, Std!Answer
<1>4. CASE ~present(value)
  <2>1. Store(value, value)
    BY <1>4 DEF hashset_insert, hasher
  <2>2. \A w \in Cells : domain'[w] = IF w = value THEN value ELSE domain[w]
    BY <1>1, <2>1, StoreKeeps DEF IInv
  <2>3. domain'[value] # Absent(value)
    BY <1>1, <2>2, CellValues
  <2>4. members' = members \cup {value}
    BY <1>1, <2>2, <2>3, MembersAfter
  <2> QED BY <1>2, <1>4, <2>4 DEF hashset_insert, Return, Std!Insert, Std!Answer
<1> QED BY <1>3, <1>4

LEMMA DeleteRefines ==
    ASSUME IInv, IInv', NEW value \in Inputs, hashset_remove(value)
    PROVE  Std!Delete(value)
<1>1. value \in Cells
  BY DEF hashset_remove, hasher
<1>2. present(value) <=> value \in members
  BY <1>1 DEF members
<1>3. CASE ~present(value)
  <2>1. members' = members
    BY <1>3, <1>1 DEF hashset_remove, members, present
  <2>2. members \ {value} = members
    BY <1>2, <1>3
  <2>3. (value \in members) = FALSE
    BY <1>2, <1>3
  <2>4. Return("remove", value, FALSE)
    BY <1>3 DEF hashset_remove
  <2> QED BY <2>1, <2>2, <2>3, <2>4 DEF Return, Std!Delete, Std!Answer
<1>4. CASE present(value)
  <2>1. Store(value, Absent(value))
    BY <1>4 DEF hashset_remove, hasher
  <2>2. \A w \in Cells : domain'[w] = IF w = value THEN Absent(value) ELSE domain[w]
    BY <1>1, <2>1, StoreKeeps DEF IInv
  <2>3. members' = members \ {value}
    BY <1>1, <2>2, MembersAfter
  <2> QED BY <1>2, <1>4, <2>3 DEF hashset_remove, Return, Std!Delete, Std!Answer
<1> QED BY <1>3, <1>4

LEMMA ContainsRefines ==
    ASSUME NEW value \in Inputs, hashset_contains(value)
    PROVE  Std!Contains(value)
<1>1. value \in Cells /\ UNCHANGED domain
  BY DEF hashset_contains, hasher
<1>2. present(value) = (value \in members)
  <2>1. value \in members <=> present(value)
    BY <1>1 DEF members
  <2>2. present(value) \in BOOLEAN
    BY DEF present
  <2> QED BY <2>1, <2>2
<1>3. members' = members
  BY <1>1 DEF members, present
<1>4. Return("contains", value, present(value))
  BY DEF hashset_contains
<1>5. Return("contains", value, value \in members)
  BY <1>2, <1>4, Zenon
<1> QED BY <1>3, <1>5 DEF Return, Std!Contains, Std!Answer

LEMMA NextRefines == IInv /\ IInv' /\ [Next]_vars => [Std!Next]_(Std!vars)
<1> SUFFICES ASSUME IInv, IInv', [Next]_vars PROVE [Std!Next]_(Std!vars)
  OBVIOUS
<1>1. ASSUME UNCHANGED <<domain, call>> PROVE UNCHANGED Std!vars
  BY <1>1 DEF Std!vars, members, present
<1>2. ASSUME NEW value \in Inputs, Outside(value) PROVE UNCHANGED <<domain, call>>
  BY <1>2 DEF Outside
<1>3. CASE UNCHANGED vars
  BY <1>1, <1>3 DEF vars
<1> QED BY <1>1, <1>2, <1>3, InsertRefines, DeleteRefines, ContainsRefines
        DEF Next, Stopped, Std!Next

(* The C stub implements a set: every answer of insert, contains and       *)
(* remove, in any order of calls, is the one the set specification gives.  *)
THEOREM StubIsASet == Spec => BehavesAsSet
<1>1. Spec => Std!Init /\ [][Std!Next]_(Std!vars)
  BY InitRefines, NextRefines, Invariance, PTL DEF Spec
<1> QED BY <1>1 DEF BehavesAsSet, Std!Spec
=============================================================================
