------------------------------- MODULE RmcVec -------------------------------
(***************************************************************************)
(* The verification stub of Vec, library/rmc/stubs/Rust/vec/rmc_vec.rs: a  *)
(* buffer obtained from libc's malloc and realloc (RmcRawVec) and a length *)
(* (Vec), and the iterator that takes the buffer over (RmcIntoIter).       *)
(*                                                                         *)
(* A client calls the operations in any order on a few handles.  Memory is *)
(* kept slot by slot, stale and uninitialised slots included, because what *)
(* is in them matters when the element type has drop glue: an assignment   *)
(* through a raw pointer drops the value it overwrites.  With NeedsDrop    *)
(* the elements are distinct objects, each given to the stub once; without *)
(* it they are plain values, as in the repository's tests.                 *)
(***************************************************************************)
EXTENDS Integers, Sequences, SequencesExt, FiniteSetsExt

CONSTANTS Handles, Values, Free, Uninit, Panic,
          NeedsDrop,          \* mem::needs_drop::<T>()
          AlignOfT, AlignOfPtr,
          DEFAULT_CAPACITY, MIN_NON_ZERO_CAP,
          MaxCap,             \* isize::MAX as usize / mem::size_of::<T>()
          MaxArg,             \* bound on lengths and indices a client passes
          MaxIter             \* bound on what a client's iterator yields

(* The constants of rmc_vec.rs, and bounds a client can reach.             *)
Sizes ==
    /\ {DEFAULT_CAPACITY, MIN_NON_ZERO_CAP, MaxCap, MaxArg, MaxIter} \subseteq Nat
    /\ DEFAULT_CAPACITY <= MaxCap /\ MaxArg <= MaxCap
    /\ NeedsDrop \in BOOLEAN

VARIABLES object,      \* what each handle owns
          io,          \* what the last call passed in or handed back
          status,      \* "ok", "panic", or "oob" after a write outside the buffer
          unused,      \* element objects the client has not yet made
          dropped,     \* element objects whose destructor has run
          bad_drops    \* destructors run twice, or on uninitialised memory

vars == <<object, io, status, unused, dropped, bad_drops>>
ghosts == <<unused, dropped, bad_drops>>

Io(at, vals) == [at |-> at, vals |-> vals]
Unit == Io(0, <<>>)

Buf(mem, len) == [kind |-> "vec", mem |-> mem, len |-> len]
RmcIntoIter(mem, start, end) == [kind |-> "iter", mem |-> mem, start |-> start, end |-> end]

Has(h, kind) == object[h] # Free /\ object[h].kind = kind
Cap(v) == Len(v.mem)

(* Values a client can pass: its own, each object once.                    *)
Args(n) == {s \in [1 .. n -> unused] : NeedsDrop => IsInjective(s)}

(***************************************************************************)
(* The drops of a step: the destructors the stub runs, in order, then the  *)
(* client's, which drops what it is handed back at once.                   *)
(***************************************************************************)
Account(made, drops) ==
    IF NeedsDrop
    THEN /\ unused' = unused \ Range(made)
         /\ dropped' = dropped \cup (Range(drops) \ {Uninit})
         /\ bad_drops' = bad_drops \cup
               {x \in Range(drops) : \/ x = Uninit \/ x \in dropped
                                     \/ \E i, j \in DOMAIN drops :
                                           i # j /\ drops[i] = x /\ drops[j] = x}
    ELSE UNCHANGED ghosts

Fails(how) == status' = how /\ io' = Panic /\ UNCHANGED <<object, ghosts>>

(* The end of a call that leaves handle h with v, or panicked on the way.  *)
Returns(h, v, result, made, drops) ==
    IF v = Panic THEN Fails("panic")
    ELSE /\ object' = [object EXCEPT ![h] = v]
         /\ io' = result
         /\ Account(made, drops)
         /\ UNCHANGED status

-----------------------------------------------------------------------------
(* RmcRawVec *)

malloc(n) == [i \in 1 .. n |-> Uninit]

realloc(mem, n) == [i \in 1 .. n |-> IF i <= Len(mem) THEN mem[i] ELSE Uninit]

new_with_capacity(cap) == Buf(malloc(cap), 0)

needs_to_grow(v, additional) == additional > Cap(v) - v.len

(* A mutant: grow does not double.                                         *)
GrowByNeed(v, additional) ==
    LET new_cap == Max({v.len + additional, MIN_NON_ZERO_CAP})
    IN  IF new_cap > MaxCap THEN Panic ELSE Buf(realloc(v.mem, new_cap), v.len)

grow(v, additional) ==
    LET new_cap == Max({v.len + additional, 2 * Cap(v), MIN_NON_ZERO_CAP})
    IN  IF new_cap > MaxCap THEN Panic ELSE Buf(realloc(v.mem, new_cap), v.len)

reserve_buf(v, additional) == IF needs_to_grow(v, additional) THEN grow(v, additional) ELSE v

shrink_buf(v, cap) == Buf(realloc(v.mem, cap), v.len)

-----------------------------------------------------------------------------
(* Building blocks of Vec *)

(* A run of push_unsafe: each element goes to the slot at the length.      *)
store(v, s) ==
    IF v = Panic THEN Panic
    ELSE Buf([i \in DOMAIN v.mem |-> IF i - v.len \in DOMAIN s THEN s[i - v.len] ELSE v.mem[i]],
             v.len + Len(s))

push_one(v, x) ==
    IF v = Panic THEN Panic
    ELSE store(IF v.len = Cap(v) THEN grow(v, 1) ELSE v, <<x>>)

(* What was in the n slots after the length once the buffer has grown.     *)
overwritten(v, n) == SubSeq(realloc(v.mem, v.len + n), v.len + 1, v.len + n)

contents_of(v) == SubSeq(v.mem, 1, v.len)

(* truncate drops from the end down to the new length.                      *)
truncated(v, len) == Buf(v.mem, Min({len, v.len}))
cut(v, len) == Reverse(SubSeq(v.mem, len + 1, v.len))

-----------------------------------------------------------------------------
(* Vec: constructors *)

new(h) == object[h] = Free /\ Returns(h, new_with_capacity(DEFAULT_CAPACITY), Unit, <<>>, <<>>)

with_capacity(h, cap) ==
    object[h] = Free /\ Returns(h, new_with_capacity(cap), Unit, <<>>, <<>>)

from(h, s) ==
    LET v == new_with_capacity(Len(s)) IN
    object[h] = Free /\ Returns(h, store(v, s), Io(0, s), s, overwritten(v, Len(s)))

from_raw_parts(h, s, capacity) ==
    LET v == new_with_capacity(capacity) IN
    /\ object[h] = Free
    /\ IF AlignOfT # AlignOfPtr \/ Len(s) > capacity THEN Fails("panic")
       ELSE Returns(h, store(v, s), Io(0, s), s, overwritten(v, Len(s)))

from_iter(h, s) ==
    LET v == new_with_capacity(DEFAULT_CAPACITY) IN
    /\ object[h] = Free
    /\ IF Len(s) > DEFAULT_CAPACITY THEN Fails("oob")
       ELSE Returns(h, store(v, s), Io(0, s), s, overwritten(v, Len(s)))

(* clone and clone_from; cloning is explored for plain values only.        *)
clone(h, g) ==
    /\ Has(h, "vec") /\ ~Has(g, "iter") /\ ~NeedsDrop
    /\ Returns(g, store(new_with_capacity(object[h].len), contents_of(object[h])),
               Unit, <<>>, <<>>)

-----------------------------------------------------------------------------
(* Vec: operations *)

push(h, x) ==
    LET v == object[h] IN
    Has(h, "vec") /\ Returns(h, push_one(v, x), Io(0, <<x>>), <<x>>, overwritten(v, 1))

extend(h, s) ==
    LET v == object[h] IN
    /\ Has(h, "vec")
    /\ Returns(h, FoldLeft(push_one, v, s), Io(0, s), s, overwritten(v, Len(s)))

(* resize_with, resize and extend_from_slice when they add elements.       *)
grow_with(h, s) ==
    LET v == object[h] IN
    /\ Has(h, "vec")
    /\ Returns(h, store(reserve_buf(v, Len(s)), s), Io(0, s), s, overwritten(v, Len(s)))

pop(h) ==
    LET v == object[h] IN
    /\ Has(h, "vec")
    /\ IF v.len = 0 THEN Returns(h, v, Unit, <<>>, <<>>)
       ELSE Returns(h, Buf(v.mem, v.len - 1), Io(0, <<v.mem[v.len]>>), <<>>, <<v.mem[v.len]>>)

insert(h, index, x) ==
    LET v == IF Cap(object[h]) < object[h].len + 1 THEN grow(object[h], 1) ELSE object[h]
        moved == [i \in DOMAIN v.mem |->
                     IF i \in index + 2 .. v.len + 1 THEN v.mem[i - 1] ELSE v.mem[i]]
    IN  /\ Has(h, "vec")
        /\ IF index > object[h].len \/ v = Panic THEN Fails("panic")
           ELSE Returns(h, Buf([moved EXCEPT ![index + 1] = x], v.len + 1), Io(index, <<x>>),
                        <<x>>, <<moved[index + 1]>>)

(* A mutant: the elements after the hole are not moved down.               *)
RemoveLeavesHole(h, index) ==
    LET v == object[h]
        result == v.mem[index + 1]
    IN  /\ Has(h, "vec")
        /\ IF index >= v.len THEN Fails("panic")
           ELSE Returns(h, Buf(v.mem, v.len - 1), Io(index, <<result>>), <<>>, <<result>>)

remove(h, index) ==
    LET v == object[h]
        moved == [i \in DOMAIN v.mem |->
                     IF i \in index + 1 .. v.len - 1 THEN v.mem[i + 1] ELSE v.mem[i]]
        result == v.mem[index + 1]
    IN  /\ Has(h, "vec")
        /\ IF index >= v.len THEN Fails("panic")
           ELSE Returns(h, Buf(moved, v.len - 1), Io(index, <<result>>), <<>>, <<result>>)

swap_remove(h, index) ==
    LET v == object[h]
        hole == v.mem[index + 1]
    IN  /\ Has(h, "vec")
        /\ IF index >= v.len THEN Fails("panic")
           ELSE Returns(h, Buf([v.mem EXCEPT ![index + 1] = v.mem[v.len]], v.len - 1),
                        Io(index, <<hole>>), <<>>, <<hole, hole>>)

truncate(h, len) ==
    LET v == object[h] IN
    Has(h, "vec") /\ Returns(h, truncated(v, len), Io(len, <<>>), <<>>, cut(v, len))

(* An assignment through IndexMut. *)
index_mut(h, index, x) ==
    LET v == object[h] IN
    /\ Has(h, "vec")
    /\ IF index >= v.len THEN Fails("panic")
       ELSE Returns(h, Buf([v.mem EXCEPT ![index + 1] = x], v.len), Io(index, <<x>>),
                    <<x>>, <<v.mem[index + 1]>>)

(* reserve and reserve_exact both end in RmcRawVec::reserve.               *)
reserve(h, additional) ==
    Has(h, "vec") /\ Returns(h, reserve_buf(object[h], additional), Unit, <<>>, <<>>)

shrink_to_fit(h) ==
    LET v == object[h] IN
    /\ Has(h, "vec")
    /\ Returns(h, IF Cap(v) > v.len THEN shrink_buf(v, v.len) ELSE v, Unit, <<>>, <<>>)

(* A mutant: shrinks to the requested capacity whatever the length.        *)
ShrinkBelowLen(h, min_capacity) ==
    LET v == object[h] IN
    /\ Has(h, "vec")
    /\ Returns(h, IF Cap(v) > min_capacity THEN shrink_buf(v, min_capacity) ELSE v,
               Unit, <<>>, <<>>)

shrink_to(h, min_capacity) ==
    LET v == object[h] IN
    /\ Has(h, "vec")
    /\ Returns(h, IF Cap(v) > min_capacity THEN shrink_buf(v, Max({v.len, min_capacity})) ELSE v,
               Unit, <<>>, <<>>)

Exchange(h, v, g, w, result) ==
    /\ object' = [object EXCEPT ![h] = v, ![g] = w]
    /\ io' = result
    /\ UNCHANGED <<status, ghosts>>

split_off(h, at, g) ==
    LET v == object[h]
        tail == SubSeq(v.mem, at + 1, v.len)
    IN  /\ Has(h, "vec") /\ object[g] = Free
        /\ IF at > v.len THEN Fails("panic")
           ELSE Exchange(h, Buf(v.mem, at), g, store(new_with_capacity(Len(tail)), tail),
                         Io(at, <<>>))

append(h, g) ==
    LET w == object[g]
        v == reserve_buf(object[h], w.len)
    IN  /\ h # g /\ Has(h, "vec") /\ Has(g, "vec")
        /\ IF v = Panic THEN Fails("panic")
           ELSE Exchange(h, store(v, contents_of(w)), g, Buf(w.mem, 0), Unit)

(* Into an array of n elements; a vector of another length is handed back. *)
try_from(h, n) ==
    LET v == object[h] IN
    /\ Has(h, "vec")
    /\ IF v.len # n THEN Returns(h, v, Unit, <<>>, <<>>)
       ELSE Returns(h, Free, Io(n, contents_of(v)), <<>>, contents_of(v))

-----------------------------------------------------------------------------
(* RmcIntoIter *)

into_iter(h) ==
    LET v == object[h] IN
    Has(h, "vec") /\ Returns(h, RmcIntoIter(v.mem, 0, v.len), Unit, <<>>, <<>>)

next(h) ==
    LET it == object[h] IN
    /\ Has(h, "iter")
    /\ IF it.start = it.end THEN Returns(h, it, Unit, <<>>, <<>>)
       ELSE LET result == <<it.mem[it.start + 1]>>
            IN  Returns(h, RmcIntoIter(it.mem, it.start + 1, it.end), Io(0, result), <<>>, result)

next_back(h) ==
    LET it == object[h] IN
    /\ Has(h, "iter")
    /\ IF it.start = it.end THEN Returns(h, it, Unit, <<>>, <<>>)
       ELSE LET result == <<it.mem[it.end]>>
            IN  Returns(h, RmcIntoIter(it.mem, it.start, it.end - 1), Io(0, result), <<>>, result)

(* Neither Vec nor RmcIntoIter drops elements; the buffer is freed.        *)
drop(h) == object[h] # Free /\ Returns(h, Free, Unit, <<>>, <<>>)

-----------------------------------------------------------------------------
Init ==
    /\ object = [h \in Handles |-> Free]
    /\ io = Unit
    /\ status = "ok"
    /\ unused = Values
    /\ dropped = {} /\ bad_drops = {}

Call(h) ==
    \/ new(h) \/ pop(h) \/ shrink_to_fit(h) \/ into_iter(h) \/ next(h) \/ next_back(h) \/ drop(h)
    \/ \E n \in 0 .. MaxArg :
          \/ with_capacity(h, n) \/ reserve(h, n) \/ shrink_to(h, n)
          \/ truncate(h, n) \/ remove(h, n) \/ swap_remove(h, n) \/ try_from(h, n)
          \/ \E x \in unused : insert(h, n, x) \/ index_mut(h, n, x)
          \/ \E s \in Args(n) : extend(h, s) \/ grow_with(h, s) \/ from(h, s)
          \/ \E k \in 0 .. MaxArg : \E s \in Args(k) : from_raw_parts(h, s, n)
    \/ \E x \in unused : push(h, x)
    \/ \E n \in 0 .. MaxIter : \E s \in Args(n) : from_iter(h, s)

Call2(h, g) == append(h, g) \/ clone(h, g) \/ \E n \in 0 .. MaxArg : split_off(h, n, g)

Stopped == status # "ok" /\ UNCHANGED vars

Next ==
    \/ /\ status = "ok"
       /\ \/ \E h \in Handles : Call(h)
          \/ \E h, g \in Handles : h # g /\ Call2(h, g)
    \/ Stopped

Spec == Init /\ [][Next]_vars

-----------------------------------------------------------------------------
(* "length needs to be less than or equal to the capacity" (rmc_vec.rs:291 *)
(* and the assertions of set_len and shrink_to_fit): no run of             *)
(* push_unsafe, memmove or set_len leaves the allocation, every element    *)
(* below the length has been written, and an iterator stays in the buffer  *)
(* it took over.                                                           *)
InBounds ==
    /\ status # "oob"
    /\ \A h \in Handles :
          /\ Has(h, "vec") => /\ object[h].len <= Cap(object[h])
                              /\ Uninit \notin Range(contents_of(object[h]))
          /\ Has(h, "iter") => /\ object[h].start <= object[h].end
                               /\ object[h].end <= Cap(object[h])

(* What a handle owns as the client sees it.                               *)
contents ==
    [h \in Handles |->
       IF object[h] = Free THEN Free
       ELSE [kind |-> object[h].kind,
             seq |-> IF object[h].kind = "vec" THEN contents_of(object[h])
                     ELSE SubSeq(object[h].mem, object[h].start + 1, object[h].end)]]

(* "RmcVec aims to implement close-to-complete compatibility with the Rust *)
(* Standard Library": whatever the calls, their order and the memory they  *)
(* leave behind, contents and results are those of a sequence.             *)
Std == INSTANCE VecSpec WITH Handles <- Handles, Values <- Values, Free <- Free,
                            Panic <- Panic, contents <- contents, io <- io
BehavesAsVec == Std!Spec

Reallocated(h) == Has(h, "vec") /\ Has(h, "vec")' /\ Cap(object'[h]) # Cap(object[h])

(* "no effect on the allocated capacity of the vector" (truncate), "This  *)
(* ensures exponential growth of the allocated memory" (grow): a call that *)
(* takes elements out or puts some in never gives memory back, and one     *)
(* that runs out of room at least doubles the buffer.                      *)
GrowsExponentially ==
    [][\A h \in Handles :
          Reallocated(h) /\ io' # Unit =>
              /\ Cap(object'[h]) > Cap(object[h])
              /\ Cap(object'[h]) >= 2 * Cap(object[h])]_vars

(* "Removes an element from the Vector and returns it" (swap_remove): what *)
(* the client is handed is the only copy, so no element's destructor runs  *)
(* a second time.  (Drops of uninitialised slots are a separate matter.)   *)
DropsOnce == bad_drops \subseteq {Uninit}

=============================================================================
