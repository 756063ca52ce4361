------------------------------ MODULE VecSpec ------------------------------
(***************************************************************************)
(* What a client of the standard library's Vec relies on, and what the     *)
(* verification stub rmc_vec.rs promises to reproduce.  A handle owns a    *)
(* sequence, or an iterator over what is left of one; `io` is what last    *)
(* crossed the interface: the index of the call and the values passed in   *)
(* or handed back.  Capacity and memory are not visible.                   *)
(***************************************************************************)
EXTENDS Naturals, Sequences, SequencesExt, FiniteSetsExt

CONSTANTS Handles, Values, Free, Panic

VARIABLES contents, io

vars == <<contents, io>>

Object(kind, s) == [kind |-> kind, seq |-> s]
Io(at, vals) == [at |-> at, vals |-> vals]
Unit == Io(0, <<>>)

Has(h, kind) == contents[h] # Free /\ contents[h].kind = kind
S(h) == contents[h].seq

Set(h, kind, s) == contents' = [contents EXCEPT ![h] = Object(kind, s)]
Move(h, s, g, t) ==
    contents' = [contents EXCEPT ![h] = Object("vec", s), ![g] = Object("vec", t)]

Init == contents = [h \in Handles |-> Free] /\ io = Unit

(* A constructor holds the values it was given. *)
Create(h) == contents[h] = Free /\ io'.at = 0 /\ Set(h, "vec", io'.vals)

(* push, extend, extend_from_slice, resize: the values go to the end.      *)
Extend(h) == Has(h, "vec") /\ io'.at = 0 /\ Set(h, "vec", S(h) \o io'.vals)

Insert(h) ==
    /\ Has(h, "vec") /\ io'.at \in 0 .. Len(S(h)) /\ Len(io'.vals) = 1
    /\ Set(h, "vec", InsertAt(S(h), io'.at + 1, io'.vals[1]))

Truncate(h) ==
    /\ Has(h, "vec") /\ io'.vals = <<>>
    /\ Set(h, "vec", SubSeq(S(h), 1, Min({io'.at, Len(S(h))})))

RemoveIndex(h) ==
    /\ Has(h, "vec") /\ io'.at + 1 \in DOMAIN S(h) /\ io'.vals = <<S(h)[io'.at + 1]>>
    /\ Set(h, "vec", RemoveAt(S(h), io'.at + 1))

SwapRemove(h) ==
    /\ Has(h, "vec") /\ io'.at + 1 \in DOMAIN S(h) /\ io'.vals = <<S(h)[io'.at + 1]>>
    /\ Set(h, "vec", Front([S(h) EXCEPT ![io'.at + 1] = Last(S(h))]))

Write(h) ==
    /\ Has(h, "vec") /\ io'.at + 1 \in DOMAIN S(h) /\ Len(io'.vals) = 1
    /\ Set(h, "vec", [S(h) EXCEPT ![io'.at + 1] = io'.vals[1]])

AppendAll(h, g) == Has(h, "vec") /\ Has(g, "vec") /\ io' = Unit /\ Move(h, S(h) \o S(g), g, <<>>)

SplitOff(h, g) ==
    /\ Has(h, "vec") /\ contents[g] = Free /\ io'.vals = <<>>
    /\ Move(h, SubSeq(S(h), 1, io'.at), g, SubSeq(S(h), io'.at + 1, Len(S(h))))

CloneInto(h, g) ==
    Has(h, "vec") /\ ~Has(g, "iter") /\ io' = Unit /\ Move(h, S(h), g, S(h))

IntoIter(h) == Has(h, "vec") /\ io' = Unit /\ Set(h, "iter", S(h))

\* pop and next_back take the last element, next the first, until none is left.
TakeBack(h, kind) ==
    /\ Has(h, kind) /\ S(h) # <<>> /\ io' = Io(0, <<Last(S(h))>>)
    /\ Set(h, kind, Front(S(h)))
TakeFront(h) ==
    /\ Has(h, "iter") /\ S(h) # <<>> /\ io' = Io(0, <<Head(S(h))>>)
    /\ Set(h, "iter", Tail(S(h)))
TakeNone(h) == contents[h] # Free /\ S(h) = <<>> /\ io' = Unit /\ UNCHANGED contents

IntoArray(h) ==
    /\ Has(h, "vec") /\ io' = Io(Len(S(h)), S(h))
    /\ contents' = [contents EXCEPT ![h] = Free]

Dropped(h) == contents[h] # Free /\ io' = Unit /\ contents' = [contents EXCEPT ![h] = Free]

\* Operations on the capacity, and calls that panic.
NoEffect == io' \in {Unit, Panic} /\ UNCHANGED contents

Next ==
    \/ NoEffect
    \/ \E h \in Handles :
          \/ Create(h) \/ Extend(h) \/ Insert(h) \/ Truncate(h)
          \/ RemoveIndex(h) \/ SwapRemove(h) \/ Write(h)
          \/ IntoIter(h) \/ IntoArray(h) \/ Dropped(h)
          \/ TakeBack(h, "vec") \/ TakeBack(h, "iter") \/ TakeFront(h) \/ TakeNone(h)
    \/ \E h, g \in Handles :
          h # g /\ (AppendAll(h, g) \/ SplitOff(h, g) \/ CloneInto(h, g))

Spec == Init /\ [][Next]_vars
=============================================================================
