-------------------------------- MODULE CVec --------------------------------
(***************************************************************************)
(* The verification stub of Vec<u32> with a C backend: the Rust wrappers   *)
(* of stubs/Rust/vec/c_vec.rs and the C code of stubs/C/vec/vec.c.  The    *)
(* elements are left out: what can go wrong is the size arithmetic, in     *)
(* size_t, which wraps.  A client calls the wrappers in any order; vec_pop *)
(* asserts what its wrapper has checked.                                   *)
(***************************************************************************)
EXTENDS Naturals, FiniteSetsExt

CONSTANTS Handles, Free,
          SizeMod,             \* size_t counts modulo this
          ElemSize,            \* sizeof(uint32_t)
          DEFAULT_CAPACITY,    \* in bytes
          MAX_MALLOC_SIZE

(* The constants of vec.c: the sizes of all allocations fit in size_t;     *)
(* Free is no handle and no vector.                                        *)
Sizes ==
    /\ {SizeMod, ElemSize, DEFAULT_CAPACITY, MAX_MALLOC_SIZE} \subseteq Nat \ {0}
    /\ DEFAULT_CAPACITY <= MAX_MALLOC_SIZE
    /\ 2 * MAX_MALLOC_SIZE * ElemSize < SizeMod
    /\ Free \notin Handles /\ Free \notin [len : Nat, capacity : Nat, bytes : Nat]

VARIABLES vec,       \* len, capacity and the bytes allocated, of each handle
          reserved,  \* elements the last call reserved room for, and its handle
          status     \* "ok", or "abort" after assert(0)

vars == <<vec, reserved, status>>

size_t(n) == n % SizeMod
Live(h) == vec[h] # Free
Nothing == [handle |-> Free, additional |-> 0]

Vec(len, capacity, bytes) == [len |-> len, capacity |-> capacity, bytes |-> bytes]

Abort == status' = "abort" /\ UNCHANGED <<vec, reserved>>
Becomes(h, v, r) == vec' = [vec EXCEPT ![h] = v] /\ reserved' = r /\ UNCHANGED status

TooLarge(capacity) == capacity > MAX_MALLOC_SIZE

-----------------------------------------------------------------------------
(* A mutant: vec_sized_grow only doubles.                                  *)
GrowDouble(v, additional) ==
    LET new_cap == size_t(v.capacity * 2)
    IN  IF TooLarge(new_cap) THEN Free ELSE Vec(v.len, new_cap, size_t(new_cap * ElemSize))

(* vec_sized_grow and vec_grow_exact; Free stands for the failed assertion. *)
vec_sized_grow(v, additional) ==
    LET min_cap == size_t(v.capacity + additional)
        grow_cap == size_t(v.capacity * 2)
        new_cap == IF min_cap > grow_cap THEN min_cap ELSE grow_cap
    IN  IF TooLarge(new_cap) THEN Free ELSE Vec(v.len, new_cap, size_t(new_cap * ElemSize))

vec_new(h) ==
    LET max_elements == DEFAULT_CAPACITY \div ElemSize
    IN  ~Live(h) /\ Becomes(h, Vec(0, max_elements, max_elements * ElemSize), Nothing)

vec_with_capacity(h, capacity) ==
    /\ ~Live(h)
    /\ IF TooLarge(capacity) THEN Abort
       ELSE Becomes(h, Vec(0, capacity, size_t(capacity * ElemSize)), Nothing)

vec_push(h) ==
    LET v == IF vec[h].len = vec[h].capacity THEN vec_sized_grow(vec[h], 1) ELSE vec[h] IN
    /\ Live(h)
    /\ IF v = Free THEN Abort ELSE Becomes(h, Vec(v.len + 1, v.capacity, v.bytes), Nothing)

vec_pop(h) ==
    LET v == vec[h] IN
    Live(h) /\ v.len > 0 /\ Becomes(h, Vec(v.len - 1, v.capacity, v.bytes), Nothing)

(* append: always grows, and leaves the other vector as it is.             *)
vec_append(h, g) ==
    LET v == vec_sized_grow(vec[h], vec[g].len) IN
    /\ h # g /\ Live(h) /\ Live(g)
    /\ IF v = Free THEN Abort
       ELSE Becomes(h, Vec(v.len + vec[g].len, v.capacity, v.bytes), Nothing)

reserve(h, additional) ==
    LET v == vec_sized_grow(vec[h], additional) IN
    /\ Live(h)
    /\ IF v = Free THEN Abort ELSE Becomes(h, v, [handle |-> h, additional |-> additional])

vec_free(h) == Live(h) /\ Becomes(h, Free, Nothing)

-----------------------------------------------------------------------------
Init == vec = [h \in Handles |-> Free] /\ reserved = Nothing /\ status = "ok"

Next ==
    \/ /\ status = "ok"
       /\ \/ \E h \in Handles : vec_new(h) \/ vec_push(h) \/ vec_pop(h) \/ vec_free(h)
          \/ \E h \in Handles, n \in 0 .. SizeMod - 1 : vec_with_capacity(h, n) \/ reserve(h, n)
          \/ \E h, g \in Handles : vec_append(h, g)
    \/ status = "abort" /\ UNCHANGED vars

Spec == Init /\ [][Next]_vars

-----------------------------------------------------------------------------
(* Types; a capacity is never above the limit vec.c checks.                *)
TypeOK ==
    /\ \A h \in Handles :
          Live(h) => /\ vec[h] \in [len : Nat, capacity : 0 .. MAX_MALLOC_SIZE,
                                    bytes : 0 .. SizeMod - 1]
    /\ status \in {"ok", "abort"}

(* vec_push and vec_append write at indices below the length they leave:   *)
(* they are in the buffer, though the sizes asked of vec_sized_grow wrap.  *)
WritesInBuffer == \A h \in Handles : Live(h) => vec[h].len * ElemSize <= vec[h].bytes

(* No call gives memory back before vec_free, so no realloc loses elements *)
(* of a vector that grows.                                                 *)
BufferNeverShrinks ==
    [][\A h \in Handles : Live(h) /\ Live(h)' => vec'[h].bytes >= vec[h].bytes]_vars

(* "Grow the allocated vector in size such that it accomodates atleast     *)
(* additional elements" (c_vec.rs:81): a reserve that returns leaves room  *)
(* for what was asked, unless the sum of capacity and request wraps.       *)
ReserveHonoured ==
    [][\A h \in Handles :
          reserved'.handle = h /\ vec[h].capacity + reserved'.additional < SizeMod
             => vec'[h].capacity - vec'[h].len >= reserved'.additional]_vars
=============================================================================
