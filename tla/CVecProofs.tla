----------------------------- MODULE CVecProofs -----------------------------
(***************************************************************************)
(* The C vector for every width of size_t, element size and limit: writes  *)
(* stay in the buffer, buffers do not shrink and reserve is honoured.      *)
(***************************************************************************)
EXTENDS CVec, TLAPS

(* The invariant: a buffer has room for exactly its capacity, which is     *)
(* under the limit and not below the length; and what the last reserve     *)
(* asked for is still free, if the sum did not wrap.                       *)
Fits(v) ==
    /\ v \in [len : Nat, capacity : 0 .. MAX_MALLOC_SIZE, bytes : Nat]
    /\ v.len <= v.capacity
    /\ v.bytes = v.capacity * ElemSize
Room(v, n) == v.capacity + n < SizeMod => v.capacity - v.len >= n
IInv ==
    /\ vec \in [Handles -> {Free} \cup {v \in [len : Nat, capacity : Nat, bytes : Nat] : Fits(v)}]
    /\ \A h \in Handles : Live(h) => Fits(vec[h])
    /\ reserved.handle \in Handles => /\ Live(reserved.handle) /\ reserved.additional \in Nat
                                      /\ Room(vec[reserved.handle], reserved.additional)
    /\ status \in {"ok", "abort"}

LEMMA Products ==
    ASSUME NEW a \in Nat, NEW b \in Nat, NEW e \in Nat \ {0}, a <= b
    PROVE  a * e \in Nat /\ a * e <= b * e /\ a <= a * e
<1>1. PICK d \in Nat : b = a + d
  BY SMT
<1>2. b * e = a * e + d * e /\ d * e \in Nat
  BY <1>1, SMT
<1>3. PICK k \in Nat : e = k + 1
  BY SMT
<1>4. a * e = a * k + a /\ a * k \in Nat
  BY <1>3, SMT
<1> QED BY <1>2, <1>4, SMT

(* A capacity under the limit is allocated in full: size_t does not wrap.  *)
LEMMA Allocated ==
    ASSUME Sizes, NEW c \in 0 .. MAX_MALLOC_SIZE
    PROVE  /\ size_t(c * ElemSize) = c * ElemSize /\ c * ElemSize \in 0 .. SizeMod - 1
           /\ 2 * c < SizeMod /\ 2 * MAX_MALLOC_SIZE < SizeMod
<1>1. /\ ElemSize \in Nat \ {0} /\ MAX_MALLOC_SIZE \in Nat \ {0} /\ SizeMod \in Nat \ {0}
      /\ 2 * MAX_MALLOC_SIZE * ElemSize < SizeMod
  BY DEF Sizes
<1>2. c * ElemSize \in Nat /\ c * ElemSize <= MAX_MALLOC_SIZE * ElemSize
  BY <1>1, Products
<1>3. /\ MAX_MALLOC_SIZE * ElemSize \in Nat /\ MAX_MALLOC_SIZE <= MAX_MALLOC_SIZE * ElemSize
  BY <1>1, Products
<1>4. 2 * MAX_MALLOC_SIZE * ElemSize = 2 * (MAX_MALLOC_SIZE * ElemSize)
  BY <1>1, SMT
<1> DEFINE x == MAX_MALLOC_SIZE * ElemSize
           y == c * ElemSize
<1>5. 2 * x < SizeMod /\ x \in Nat /\ y \in Nat /\ y <= x /\ MAX_MALLOC_SIZE <= x
  BY <1>1, <1>2, <1>3, <1>4
<1> HIDE DEF x, y
<1>6. y \in 0 .. SizeMod - 1 /\ 2 * c < SizeMod /\ 2 * MAX_MALLOC_SIZE < SizeMod
  BY <1>1, <1>5
<1>7. y % SizeMod = y
  BY <1>1, <1>6
<1> QED BY <1>6, <1>7 DEF size_t, x, y

(* What growing returns: no vector, or one that is under the limit, has at *)
(* least twice the capacity, and room for the request if it did not wrap.  *)
LEMMA Grown ==
    ASSUME Sizes, NEW v, Fits(v), NEW n \in Nat, vec_sized_grow(v, n) # Free
    PROVE  LET w == vec_sized_grow(v, n)
           IN  /\ Fits(w) /\ w.len = v.len /\ w.capacity >= v.capacity
               /\ v.capacity + n < SizeMod => w.capacity >= v.capacity + n
<1> DEFINE min_cap == size_t(v.capacity + n)
           grow_cap == size_t(v.capacity * 2)
           new_cap == IF min_cap > grow_cap THEN min_cap ELSE grow_cap
<1>1. /\ SizeMod \in Nat \ {0} /\ MAX_MALLOC_SIZE \in Nat \ {0} /\ ElemSize \in Nat \ {0}
      /\ v.capacity \in 0 .. MAX_MALLOC_SIZE /\ v.len \in Nat /\ v.len <= v.capacity
  BY DEF Sizes, Fits
<1>2. grow_cap = 2 * v.capacity
  <2>1. 2 * v.capacity \in 0 .. SizeMod - 1
    BY <1>1, Allocated
  <2> QED BY <1>1, <2>1 DEF size_t
<1>3. min_cap \in Nat /\ (v.capacity + n < SizeMod => min_cap = v.capacity + n)
  BY <1>1 DEF size_t
<1>4. /\ ~TooLarge(new_cap)
      /\ vec_sized_grow(v, n) = Vec(v.len, new_cap, size_t(new_cap * ElemSize))
  BY DEF vec_sized_grow
<1>5. /\ new_cap \in 0 .. MAX_MALLOC_SIZE /\ new_cap >= 2 * v.capacity
      /\ v.capacity + n < SizeMod => new_cap >= v.capacity + n
  BY <1>1, <1>2, <1>3, <1>4 DEF TooLarge
<1> HIDE DEF new_cap
<1>6. size_t(new_cap * ElemSize) = new_cap * ElemSize /\ new_cap * ElemSize \in Nat
  <2>1. new_cap * ElemSize \in Nat
    BY <1>1, <1>5, Products
  <2> QED BY <1>5, <2>1, Allocated
<1>7. Fits(Vec(v.len, new_cap, new_cap * ElemSize))
  BY <1>1, <1>5, <1>6 DEF Fits, Vec
<1> QED BY <1>1, <1>4, <1>5, <1>6, <1>7 DEF Vec

LEMMA FitsType ==
    ASSUME Sizes, NEW v, Fits(v)
    PROVE  v \in {u \in [len : Nat, capacity : Nat, bytes : Nat] : Fits(u)} /\ v # Free
  BY DEF Sizes, Fits

(* A call that leaves a handle with a vector that fits, or with none.      *)
LEMMA BecomesKeeps ==
    ASSUME Sizes, IInv, NEW h \in Handles, NEW v, v = Free \/ Fits(v), NEW r,
           Becomes(h, v, r),
           r.handle = Free \/ (r.handle = h /\ v # Free /\ r.additional \in Nat
                                            /\ Room(v, r.additional))
    PROVE  IInv'
<1>1. vec' = [vec EXCEPT ![h] = v] /\ reserved' = r /\ status' = status
  BY DEF Becomes
<1>2. vec' \in [Handles -> {Free} \cup {u \in [len : Nat, capacity : Nat, bytes : Nat] : Fits(u)}]
  BY <1>1, FitsType DEF IInv
<1>3. \A g \in Handles : Live(g)' => Fits(vec'[g])
  BY <1>1 DEF IInv, Live
<1>4. r.handle \in Handles => r.handle = h /\ vec'[h] = v
  BY <1>1 DEF IInv, Sizes
<1>5. reserved'.handle \in Handles => /\ Live(reserved.handle)' /\ reserved'.additional \in Nat
                                     /\ Room(vec'[reserved'.handle], reserved'.additional)
  BY <1>1, <1>4 DEF Live, Sizes
<1> QED BY <1>1, <1>2, <1>3, <1>5 DEF IInv, Live, Fits, Room

LEMMA AbortKeeps == ASSUME IInv, Abort PROVE IInv'
  BY DEF IInv, Abort, Live, Fits, Room

LEMMA InitIInv == ASSUME Sizes, Init PROVE IInv
  BY DEF Init, IInv, Live, Nothing, Sizes

LEMMA NewFits ==
    ASSUME Sizes
    PROVE  LET m == DEFAULT_CAPACITY \div ElemSize IN Fits(Vec(0, m, m * ElemSize))
<1> DEFINE m == DEFAULT_CAPACITY \div ElemSize
<1>1. /\ DEFAULT_CAPACITY \in Nat /\ ElemSize \in Nat \ {0} /\ MAX_MALLOC_SIZE \in Nat
      /\ DEFAULT_CAPACITY <= MAX_MALLOC_SIZE
  BY DEF Sizes
<1>2. m \in Nat /\ m * ElemSize <= DEFAULT_CAPACITY
  BY <1>1, SMT
<1> HIDE DEF m
<1>3. m * ElemSize \in Nat /\ m <= m * ElemSize
  BY <1>1, <1>2, Products
<1>4. m \in 0 .. MAX_MALLOC_SIZE
  <2> DEFINE y == m * ElemSize
  <2>1. y \in Nat /\ m <= y /\ y <= DEFAULT_CAPACITY
    BY <1>2, <1>3
  <2> HIDE DEF y
  <2> QED BY <1>1, <1>2, <2>1
<1>5. Fits(Vec(0, m, m * ElemSize))
  BY <1>3, <1>4 DEF Fits, Vec
<1> QED BY <1>5 DEF m

(* One step per call of the stub.                                          *)
LEMMA NextIInv == ASSUME Sizes, IInv, [Next]_vars PROVE IInv'
<1>0. Nothing.handle = Free
  BY DEF Nothing
<1>1. ASSUME NEW h \in Handles, vec_new(h) PROVE IInv'
  BY <1>0, <1>1, NewFits, BecomesKeeps DEF vec_new
<1>2. ASSUME NEW h \in Handles, NEW n \in 0 .. SizeMod - 1, vec_with_capacity(h, n) PROVE IInv'
  <2>1. CASE TooLarge(n)
    BY <1>2, <2>1, AbortKeeps DEF vec_with_capacity
  <2>2. CASE ~TooLarge(n)
    <3>1. n \in 0 .. MAX_MALLOC_SIZE
      BY <2>2 DEF TooLarge, Sizes
    <3>2. size_t(n * ElemSize) = n * ElemSize /\ n * ElemSize \in Nat
      BY <3>1, Allocated, Products DEF Sizes
    <3>3. Fits(Vec(0, n, size_t(n * ElemSize)))
      BY <3>1, <3>2 DEF Fits, Vec
    <3> QED BY <1>0, <1>2, <2>2, <3>3, BecomesKeeps DEF vec_with_capacity
  <2> QED BY <2>1, <2>2
<1>3. ASSUME NEW h \in Handles, vec_push(h) PROVE IInv'
  <2> DEFINE v == IF vec[h].len = vec[h].capacity THEN vec_sized_grow(vec[h], 1) ELSE vec[h]
  <2>1. Fits(vec[h]) /\ (v = Free => Abort)
        /\ (v # Free => Becomes(h, Vec(v.len + 1, v.capacity, v.bytes), Nothing))
    BY <1>3 DEF vec_push, IInv
  <2>2. CASE v = Free
    BY <2>1, <2>2, AbortKeeps
  <2>3. CASE v # Free
    <3>1. Fits(v) /\ v.len + 1 <= v.capacity
      <4>1. CASE vec[h].len = vec[h].capacity
        <5>1. vec[h].capacity + 1 < SizeMod
          BY <2>1, Allocated DEF Fits, Sizes
        <5>2. v = vec_sized_grow(vec[h], 1) /\ vec_sized_grow(vec[h], 1) # Free
          BY <2>3, <4>1
        <5> HIDE DEF v
        <5>3. Fits(v) /\ v.len = vec[h].len /\ v.capacity >= vec[h].capacity + 1
          BY <2>1, <5>1, <5>2, Grown
        <5> QED BY <5>3, <4>1, <2>1 DEF Fits
      <4>2. CASE vec[h].len # vec[h].capacity
        BY <2>1, <4>2 DEF Fits
      <4> QED BY <4>1, <4>2
    <3> HIDE DEF v
    <3>2. Fits(Vec(v.len + 1, v.capacity, v.bytes))
      BY <3>1 DEF Fits, Vec
    <3> QED BY <1>0, <2>1, <2>3, <3>2, BecomesKeeps
  <2> QED BY <2>2, <2>3
<1>4. ASSUME NEW h \in Handles, vec_pop(h) PROVE IInv'
  <2>1. Fits(vec[h]) /\ vec[h].len > 0
    BY <1>4 DEF vec_pop, IInv
  <2>2. Fits(Vec(vec[h].len - 1, vec[h].capacity, vec[h].bytes))
    BY <2>1 DEF Fits, Vec
  <2> QED BY <1>0, <1>4, <2>2, BecomesKeeps DEF vec_pop
<1>5. ASSUME NEW h \in Handles, NEW g \in Handles, vec_append(h, g) PROVE IInv'
  <2> DEFINE v == vec_sized_grow(vec[h], vec[g].len)
  <2>1. /\ Fits(vec[h]) /\ Fits(vec[g]) /\ (v = Free => Abort)
        /\ (v # Free => Becomes(h, Vec(v.len + vec[g].len, v.capacity, v.bytes), Nothing))
    BY <1>5 DEF vec_append, IInv
  <2>2. CASE v = Free
    BY <2>1, <2>2, AbortKeeps
  <2>3. CASE v # Free
    <3>1. vec[g].len \in Nat /\ vec[h].capacity + vec[g].len < SizeMod
      BY <2>1, Allocated DEF Fits, Sizes
    <3>2. Fits(v) /\ v.len = vec[h].len /\ v.capacity >= vec[h].capacity + vec[g].len
      BY <2>1, <2>3, <3>1, Grown
    <3> HIDE DEF v
    <3>3. Fits(Vec(v.len + vec[g].len, v.capacity, v.bytes))
      BY <2>1, <3>1, <3>2 DEF Fits, Vec
    <3> QED BY <1>0, <2>1, <2>3, <3>3, BecomesKeeps
  <2> QED BY <2>2, <2>3
<1>6. ASSUME NEW h \in Handles, NEW n \in 0 .. SizeMod - 1, reserve(h, n) PROVE IInv'
  <2> DEFINE v == vec_sized_grow(vec[h], n)
             r == [handle |-> h, additional |-> n]
  <2>1. Fits(vec[h]) /\ (v = Free => Abort) /\ (v # Free => Becomes(h, v, r))
    BY <1>6 DEF reserve, IInv
  <2>2. CASE v = Free
    BY <2>1, <2>2, AbortKeeps
  <2>3. CASE v # Free
    <3>1. n \in Nat
      BY DEF Sizes
    <3>2. /\ Fits(v) /\ v.len = vec[h].len /\ v.capacity >= vec[h].capacity
          /\ vec[h].capacity + n < SizeMod => v.capacity >= vec[h].capacity + n
      BY <2>1, <2>3, <3>1, Grown
    <3> HIDE DEF v
    <3>3. Room(v, n)
      BY <2>1, <3>1, <3>2 DEF Room, Fits, Sizes
    <3> QED BY <2>1, <2>3, <3>1, <3>2, <3>3, BecomesKeeps
  <2> QED BY <2>2, <2>3
<1>7. ASSUME NEW h \in Handles, vec_free(h) PROVE IInv'
  BY <1>0, <1>7, BecomesKeeps DEF vec_free
<1>8. CASE UNCHANGED vars
  BY <1>8 DEF vars, IInv, Live, Fits, Room
<1> QED BY <1>1, <1>2, <1>3, <1>4, <1>5, <1>6, <1>7, <1>8 DEF Next

-----------------------------------------------------------------------------
LEMMA Inductive == ASSUME Sizes PROVE Spec => []IInv
<1>1. Init => IInv
  BY InitIInv
<1>2. IInv /\ [Next]_vars => IInv'
  BY NextIInv
<1> QED BY <1>1, <1>2, PTL DEF Spec

(* vec_with_capacity and vec_sized_grow never leave a capacity above the   *)
(* limit they check, and the bytes they allocate did not wrap in size_t.   *)
THEOREM TypeCorrect == ASSUME Sizes PROVE Spec => []TypeOK
<1>1. IInv => TypeOK
  <2> SUFFICES ASSUME IInv, NEW h \in Handles, Live(h)
               PROVE  vec[h].bytes \in 0 .. SizeMod - 1 /\ Fits(vec[h])
    BY DEF TypeOK, IInv, Fits
  <2> QED BY Allocated DEF IInv, Fits
<1> QED BY <1>1, Inductive, PTL

(* The writes of vec_push and vec_append stay in the buffer, whatever the  *)
(* width of size_t, though the sizes asked of vec_sized_grow wrap.         *)
THEOREM WritesSafe == ASSUME Sizes PROVE Spec => []WritesInBuffer
<1>1. IInv => WritesInBuffer
  <2> SUFFICES ASSUME IInv, NEW h \in Handles, Live(h)
               PROVE  vec[h].len * ElemSize <= vec[h].bytes
    BY DEF WritesInBuffer
  <2>1. Fits(vec[h]) /\ ElemSize \in Nat \ {0}
    BY DEF IInv, Sizes
  <2>2. vec[h].len * ElemSize <= vec[h].capacity * ElemSize
    BY <2>1, Products DEF Fits
  <2> QED BY <2>1, <2>2 DEF Fits
<1> QED BY <1>1, Inductive, PTL

-----------------------------------------------------------------------------
(* Growing never gives bytes back.                                         *)
LEMMA GrownBytes ==
    ASSUME Sizes, NEW v, Fits(v), NEW n \in Nat, vec_sized_grow(v, n) # Free
    PROVE  vec_sized_grow(v, n).bytes >= v.bytes
<1> DEFINE w == vec_sized_grow(v, n)
<1>1. Fits(w) /\ w.capacity >= v.capacity
  BY Grown
<1> HIDE DEF w
<1>2. v.capacity \in Nat /\ w.capacity \in Nat /\ ElemSize \in Nat \ {0} /\ v.capacity <= w.capacity
  BY <1>1 DEF Fits, Sizes
<1>3. v.capacity * ElemSize <= w.capacity * ElemSize
  BY <1>2, Products
<1>4. w.bytes = w.capacity * ElemSize /\ v.bytes = v.capacity * ElemSize
  BY <1>1 DEF Fits
<1>5. v.capacity * ElemSize \in Nat /\ w.capacity * ElemSize \in Nat
  BY <1>2, Products
<1>6. w.bytes >= v.bytes
  <2> DEFINE x == v.capacity * ElemSize
             y == w.capacity * ElemSize
  <2>1. x \in Nat /\ y \in Nat /\ x <= y /\ w.bytes = y /\ v.bytes = x
    BY <1>3, <1>4, <1>5
  <2> HIDE DEF x, y
  <2> QED BY <2>1
<1> QED BY <1>6 DEF w

(* What a step can be: it stutters on the vectors, or gives one handle a   *)
(* vector, which has no fewer bytes than the one it replaces; only reserve *)
(* leaves a reservation, and then with the room asked for.                 *)
Step ==
    \/ UNCHANGED <<vec, reserved>>
    \/ \E h \in Handles :
         LET u == vec[h]  w == vec'[h] IN
         /\ \A g \in Handles \ {h} : vec'[g] = vec[g]
         /\ u = Free \/ w = Free \/ w.bytes >= u.bytes
         /\ \/ reserved'.handle = Free
            \/ /\ reserved'.handle = h
               /\ u.capacity + reserved'.additional < SizeMod
                    => w.capacity - w.len >= reserved'.additional

LEMMA BecomesStep ==
    ASSUME Sizes, IInv, NEW h \in Handles, NEW v, Becomes(h, v, Nothing),
           vec[h] = Free \/ v = Free \/ v.bytes >= vec[h].bytes
    PROVE  Step
<1>1. vec'[h] = v /\ \A g \in Handles \ {h} : vec'[g] = vec[g]
  BY DEF Becomes, IInv
<1>2. reserved'.handle = Free
  BY DEF Becomes, Nothing
<1> QED BY <1>1, <1>2 DEF Step

LEMMA NextStep == ASSUME Sizes, IInv, [Next]_vars PROVE Step
<1>0. ASSUME Abort \/ UNCHANGED vars PROVE Step
  BY <1>0 DEF Step, Abort, vars
<1>a. \A h \in Handles : Live(h) => Fits(vec[h])
  BY DEF IInv
<1>b. \A h \in Handles : Live(h) => vec[h].bytes \in Nat
  BY <1>a DEF Fits
<1>1. ASSUME NEW h \in Handles, vec_new(h) PROVE Step
  BY <1>1, BecomesStep DEF vec_new, Live
<1>2. ASSUME NEW h \in Handles, NEW n \in 0 .. SizeMod - 1, vec_with_capacity(h, n) PROVE Step
  BY <1>0, <1>2, BecomesStep DEF vec_with_capacity, Live
<1>3. ASSUME NEW h \in Handles, vec_push(h) PROVE Step
  <2> DEFINE v == IF vec[h].len = vec[h].capacity THEN vec_sized_grow(vec[h], 1) ELSE vec[h]
  <2>1. Fits(vec[h]) /\ vec[h].bytes \in Nat /\ (v = Free => Abort)
        /\ (v # Free => Becomes(h, Vec(v.len + 1, v.capacity, v.bytes), Nothing))
    BY <1>3, <1>a, <1>b DEF vec_push
  <2>2. v # Free => v.bytes >= vec[h].bytes
    BY <2>1, GrownBytes
  <2> HIDE DEF v
  <2>3. Vec(v.len + 1, v.capacity, v.bytes).bytes = v.bytes
    BY DEF Vec
  <2> QED BY <1>0, <2>1, <2>2, <2>3, BecomesStep
<1>4. ASSUME NEW h \in Handles, vec_pop(h) PROVE Step
  <2>1. Vec(vec[h].len - 1, vec[h].capacity, vec[h].bytes).bytes >= vec[h].bytes
    BY <1>4, <1>b DEF vec_pop, Vec
  <2> QED BY <1>4, <2>1, BecomesStep DEF vec_pop
<1>5. ASSUME NEW h \in Handles, NEW g \in Handles, vec_append(h, g) PROVE Step
  <2> DEFINE v == vec_sized_grow(vec[h], vec[g].len)
  <2>1. /\ Fits(vec[h]) /\ vec[g].len \in Nat /\ (v = Free => Abort)
        /\ (v # Free => Becomes(h, Vec(v.len + vec[g].len, v.capacity, v.bytes), Nothing))
    BY <1>5, <1>a DEF vec_append, Fits
  <2>2. v # Free => v.bytes >= vec[h].bytes
    BY <2>1, GrownBytes
  <2> HIDE DEF v
  <2>3. Vec(v.len + vec[g].len, v.capacity, v.bytes).bytes = v.bytes
    BY DEF Vec
  <2> QED BY <1>0, <2>1, <2>2, <2>3, BecomesStep
<1>6. ASSUME NEW h \in Handles, NEW n \in 0 .. SizeMod - 1, reserve(h, n) PROVE Step
  <2> DEFINE v == vec_sized_grow(vec[h], n)
             r == [handle |-> h, additional |-> n]
  <2>1. Fits(vec[h]) /\ n \in Nat /\ (v = Free => Abort) /\ (v # Free => Becomes(h, v, r))
    BY <1>6, <1>a DEF reserve, Sizes
  <2>2. ASSUME v # Free PROVE Step
    <3>1. /\ Fits(v) /\ v.len = vec[h].len /\ v.bytes >= vec[h].bytes
          /\ vec[h].capacity + n < SizeMod => v.capacity >= vec[h].capacity + n
      BY <2>1, <2>2, Grown, GrownBytes
    <3> HIDE DEF v
    <3>2. vec'[h] = v /\ reserved' = r /\ \A g \in Handles \ {h} : vec'[g] = vec[g]
      BY <2>1, <2>2 DEF Becomes, IInv
    <3>3. vec[h].capacity + n < SizeMod => v.capacity - v.len >= n
      BY <2>1, <3>1 DEF Fits, Sizes
    <3>4. reserved'.handle = h /\ reserved'.additional = n
      BY <3>2
    <3> QED BY <3>1, <3>2, <3>3, <3>4 DEF Step
  <2> QED BY <1>0, <2>1, <2>2
<1>7. ASSUME NEW h \in Handles, vec_free(h) PROVE Step
  BY <1>7, BecomesStep DEF vec_free
<1> QED BY <1>0, <1>1, <1>2, <1>3, <1>4, <1>5, <1>6, <1>7 DEF Next

(* vec_grow_exact never reallocates a vector to fewer bytes, so growing    *)
(* loses no elements, although the doubled capacity is taken in size_t.    *)
THEOREM NeverShrinks == ASSUME Sizes PROVE Spec => BufferNeverShrinks
<1>1. IInv /\ [Next]_vars
        => [\A h \in Handles : Live(h) /\ Live(h)' => vec'[h].bytes >= vec[h].bytes]_vars
  <2> SUFFICES ASSUME IInv, [Next]_vars, NEW h \in Handles, Live(h), Live(h)'
               PROVE  vec'[h].bytes >= vec[h].bytes
    OBVIOUS
  <2>1. Step /\ vec[h].bytes \in Nat
    BY NextStep DEF IInv, Fits
  <2> QED BY <2>1 DEF Step, Live
<1> QED BY <1>1, Inductive, PTL DEF Spec, BufferNeverShrinks

(* A reserve that returns leaves room for what was asked, unless the sum   *)
(* of capacity and request wraps; vec_sized_grow is the only place where   *)
(* it could, and the hypothesis is exactly that sum.                       *)
THEOREM ReserveKept == ASSUME Sizes PROVE Spec => ReserveHonoured
<1>1. IInv /\ [Next]_vars
        => [\A h \in Handles :
              reserved'.handle = h /\ vec[h].capacity + reserved'.additional < SizeMod
                 => vec'[h].capacity - vec'[h].len >= reserved'.additional]_vars
  <2> SUFFICES ASSUME IInv, [Next]_vars, NEW h \in Handles, reserved'.handle = h,
                      vec[h].capacity + reserved'.additional < SizeMod
               PROVE  vec'[h].capacity - vec'[h].len >= reserved'.additional
    OBVIOUS
  <2>1. Step /\ h # Free
    BY NextStep DEF Sizes
  <2>2. CASE UNCHANGED <<vec, reserved>>
    BY <2>2 DEF IInv, Room
  <2> QED BY <2>1, <2>2 DEF Step
<1> QED BY <1>1, Inductive, PTL DEF Spec, ReserveHonoured
=============================================================================
