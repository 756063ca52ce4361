------------------------------ MODULE NoBackVec ------------------------------
(***************************************************************************)
(* The verification stub of Vec that keeps no elements,                    *)
(* stubs/Rust/vec/noback_vec.rs: a length, a capacity, and an iterator     *)
(* with a start and an end.  Reads return nondeterministic values, so only *)
(* lengths, capacities and the number of values handed out are modelled.   *)
(***************************************************************************)
EXTENDS Naturals, FiniteSetsExt

CONSTANTS Handles, Free,
          DEFAULT_CAPACITY, MAX_MALLOC_SIZE,
          MaxArg,      \* bound on the sizes a client passes
          MaxLen,      \* bound on the length insert reaches
          MaxYields    \* bound on the calls of next on one iterator

(* The constants of noback_vec.rs, and bounds a client can reach.          *)
Sizes ==
    /\ {DEFAULT_CAPACITY, MAX_MALLOC_SIZE, MaxArg, MaxLen, MaxYields} \subseteq Nat
    /\ DEFAULT_CAPACITY <= MAX_MALLOC_SIZE /\ MaxArg <= MAX_MALLOC_SIZE

VARIABLES object,   \* what each handle owns
          status    \* "ok", "panic", or "assert" after a failed check of the stub itself

vars == <<object, status>>

Vec(len, capacity) == [kind |-> "vec", len |-> len, capacity |-> capacity]
NoBackIter(start, end, yields) ==
    [kind |-> "iter", start |-> start, end |-> end, yields |-> yields]

Has(h, kind) == object[h] # Free /\ object[h].kind = kind
Become(h, v) == object' = [object EXCEPT ![h] = v] /\ UNCHANGED status
Fails(how) == status' = how /\ UNCHANGED object

(* grow; Free stands for its panic.                                        *)
grow(v, additional) ==
    LET new_capacity == Max({v.len + additional, v.capacity * 2})
    IN  IF new_capacity > MAX_MALLOC_SIZE THEN Free ELSE Vec(v.len, new_capacity)

(* Continues with the grown vector, and the check the stub makes on it.    *)
Grown(h, v, len, check) ==
    IF v = Free THEN Fails("panic")
    ELSE IF check /\ v.capacity < len THEN Fails("assert")
    ELSE Become(h, Vec(len, v.capacity))

with_capacity(h, capacity) == object[h] = Free /\ Become(h, Vec(0, capacity))

(* Checks before it adds the element.                                      *)
push(h) ==
    LET v == IF object[h].capacity = object[h].len THEN grow(object[h], 1) ELSE object[h] IN
    /\ Has(h, "vec")
    /\ IF v = Free THEN Fails("panic")
       ELSE IF v.capacity < v.len THEN Fails("assert")
       ELSE Become(h, Vec(v.len + 1, v.capacity))

pop(h) ==
    /\ Has(h, "vec") /\ object[h].len > 0
    /\ Become(h, Vec(object[h].len - 1, object[h].capacity))

(* A mutant: append reserves for the other vector only if it is full.      *)
AppendIfFull(h, g) ==
    LET new_len == object[h].len + object[g].len
        v == IF object[h].capacity = object[h].len THEN grow(object[h], object[g].len) ELSE object[h]
    IN  h # g /\ Has(h, "vec") /\ Has(g, "vec") /\ Grown(h, v, new_len, TRUE)

append(h, g) ==
    LET new_len == object[h].len + object[g].len
        v == IF object[h].capacity < new_len THEN grow(object[h], object[g].len) ELSE object[h]
    IN  h # g /\ Has(h, "vec") /\ Has(g, "vec") /\ Grown(h, v, new_len, TRUE)

insert(h, index) ==
    /\ Has(h, "vec") /\ object[h].len < MaxLen
    /\ IF index > object[h].len THEN Fails("panic")
       ELSE Become(h, Vec(object[h].len + 1, object[h].capacity))

remove(h, index) ==
    /\ Has(h, "vec")
    /\ IF index >= object[h].len THEN Fails("panic")
       ELSE Become(h, Vec(object[h].len - 1, object[h].capacity))

extend(h, iter_len) ==
    Has(h, "vec") /\ Grown(h, grow(object[h], iter_len), object[h].len + iter_len, FALSE)

reserve(h, additional) ==
    Has(h, "vec") /\ Grown(h, grow(object[h], additional), object[h].len, FALSE)

into_iter(h) == Has(h, "vec") /\ Become(h, NoBackIter(0, object[h].len, 0))

(* next hands out a value unless it is at the end, and moves nothing.      *)
next(h) ==
    LET it == object[h] IN
    /\ Has(h, "iter") /\ it.start # it.end /\ it.yields < MaxYields
    /\ Become(h, NoBackIter(it.start, it.end, it.yields + 1))

drop(h) == object[h] # Free /\ Become(h, Free)

-----------------------------------------------------------------------------
Init == object = [h \in Handles |-> Free] /\ status = "ok"

Next ==
    \/ /\ status = "ok"
       /\ \/ \E h \in Handles : push(h) \/ pop(h) \/ into_iter(h) \/ next(h) \/ drop(h)
          \/ \E h \in Handles, n \in 0 .. MaxArg :
                extend(h, n) \/ reserve(h, n) \/ insert(h, n) \/ remove(h, n)
          \/ \E h \in Handles, n \in (0 .. MaxArg) \cup {DEFAULT_CAPACITY} : with_capacity(h, n)
          \/ \E h, g \in Handles : append(h, g)
    \/ status # "ok" /\ UNCHANGED vars

Spec == Init /\ [][Next]_vars

-----------------------------------------------------------------------------
(* The checks the stub makes on itself, assert!(self.capacity >= self.len) *)
(* in push and its twin in append, fail only for a vector that was longer  *)
(* than its capacity before the call; it becomes so by one element at a    *)
(* time, through insert on a full vector, and the next call that grows it  *)
(* makes room for all its length.                                          *)
AssertsOnlyPastCapacity ==
    [][/\ status' = "assert" /\ status = "ok" =>
             \E h \in Handles : Has(h, "vec") /\ object[h].len > object[h].capacity
       /\ \A h \in Handles :
             Has(h, "vec") /\ Has(h, "vec")' /\ object'[h].len > object'[h].capacity =>
                 /\ object'[h].capacity = object[h].capacity
                 /\ object[h].len <= object[h].capacity =>
                       object[h].len = object[h].capacity /\ object'[h].len = object[h].len + 1]_vars
=============================================================================
