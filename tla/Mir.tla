-------------------------------- MODULE Mir --------------------------------
(***************************************************************************)
(* What a MIR body means: the abstract specification of RMC's translation  *)
(* of function bodies (module GotoBody).  It is taken from rustc's own MIR *)
(* interpreter (compiler/rustc_const_eval/src/interpret); the calls that   *)
(* RMC replaces by hooks do what the library functions they name do.       *)
(*                                                                         *)
(* A body is a sequence of blocks [stmts, term].  A statement or terminator*)
(* is a record whose field k is its kind; operands are cells.  A cell      *)
(* stands for a local: it holds an integer, an address or the tag of an    *)
(* enum.  Unit is the destination of a call that returns no value.         *)
(***************************************************************************)
EXTENDS EnumLayout, Sequences

CONSTANTS
  Cells,          \* the locals of a body, a set of positive integers
  Ints,           \* the integers a local can hold: 0 .. n
  Layout,         \* the layout of each local that is an enum
  Dynamic,        \* the locals that StorageLive and StorageDead apply to
  Inputs,         \* the initial values of the arguments
  Callee(_)       \* the value a called function returns for its argument

VARIABLES body, loc, locals, status, result

vars == <<body, loc, locals, status, result>>

Ret   == 1        \* mir::RETURN_PLACE
Unit  == 0
Dead   == -1      \* LocalValue::Dead
Uninit == -2      \* LocalValue::Uninitialized
NoResult == -3
End   == [bb |-> 0, i |-> 0]

Address(c) == 1000 + c

Start(bb) == [bb |-> bb, i |-> 1]

Successors(b, bb) ==
  LET t == b[bb].term
  IN (IF t.k = "switch" THEN {t.to[j] : j \in DOMAIN t.to} \cup {t.otherwise} ELSE {})
     \cup (IF "to" \in DOMAIN t /\ t.k # "switch" THEN {t.to} ELSE {})

(* Every jump has a target, and no switch is without cases.                *)
WellFormed(b) ==
  \A bb \in DOMAIN b : /\ Successors(b, bb) \subseteq DOMAIN b
                       /\ b[bb].term.k = "switch" => b[bb].term.vals # <<>>

Here == LET b == body[loc.bb]
        IN IF loc.i <= Len(b.stmts) THEN b.stmts[loc.i] ELSE b.term

(* The cells that the address in cell p points to: one, or none when p     *)
(* holds no address.                                                       *)
Points(p) == {c \in Cells : locals[p] = Address(c)}

Through(x) ==
  CASE x.k \in {"replace", "read", "write"} -> {x.ptr}
    [] x.k = "swap" -> {x.x, x.y}
    [] x.k = "copy" /\ locals[x.count] # 0 -> {x.src, x.dst}
    [] OTHER -> {}

Operands(x) ==
  CASE x.k \in {"use", "mistyped", "fn"} -> {x.src}
    [] x.k \in {"switch", "assert", "assume", "expect_fail"} -> {x.on}
    [] x.k = "discr" /\ Layout[x.of].kind # "single" -> {x.of}
    [] x.k = "drop" /\ x.glue # "none" -> {x.of}
    [] x.k = "virtual" -> {x.vtable, x.src}
    [] x.k = "copy" -> {x.src, x.dst, x.count}
    [] x.k \in {"replace", "write"} -> {x.ptr, x.src}
    [] OTHER -> Through(x)

(* The cells whose address is formed or that are written.                  *)
Places(x) ==
  (IF x.k \in {"use", "mistyped", "const", "ref", "discr", "read", "replace",
               "any_raw", "fn", "virtual"} THEN {x.dst} \ {Unit} ELSE {})
  \cup (IF x.k \in {"ref", "setdisc", "drop"} THEN {x.of} ELSE {})

(* Executing x is undefined behaviour: it reads a local that has no value, *)
(* touches a dead one, follows a dangling pointer, reads an invalid tag,   *)
(* makes a live local live, calls a null function or is unreachable code.  *)
UB(x) ==
  \/ \E c \in Operands(x) : locals[c] \in {Dead, Uninit}
  \/ \E c \in Places(x) : locals[c] = Dead
  \/ \E p \in Through(x) :
       \/ Points(p) = {}
       \/ \E c \in Points(p) : locals[c] = Dead
       \/ \E c \in Points(p) : locals[c] = Uninit /\ x.k \notin {"copy", "write"}
  \/ x.k = "discr" /\ ~ValidTag(Layout[x.of], locals[x.of])
  \/ x.k = "live" /\ locals[x.of] # Dead
  \/ x.k = "virtual" /\ locals[x.vtable] = 0
  \/ x.k = "unreachable"

-----------------------------------------------------------------------------
Stop(s) ==
  /\ status' = s
  /\ result' = IF s = "returned" THEN locals[Ret] ELSE NoResult
  /\ loc' = End
  /\ locals' = [c \in Cells |-> Dead]
  /\ UNCHANGED body

(* Continue at l with memory m.                                            *)
Go(l, m) == loc' = l /\ locals' = m /\ UNCHANGED <<body, status, result>>

Advance(m) == Go([loc EXCEPT !.i = @ + 1], m)

go_to_block(bb, m) == Go(Start(bb), m)

Set(c, v) == IF c = Unit THEN locals ELSE [locals EXCEPT ![c] = v]

Target(p) == CHOOSE c \in Points(p) : TRUE

Statement(x) ==
  \/ x.k \in {"use", "mistyped"} /\ Advance(Set(x.dst, locals[x.src]))
  \/ x.k = "const" /\ Advance(Set(x.dst, x.val))
  \/ x.k = "ref" /\ Advance(Set(x.dst, Address(x.of)))
  \/ /\ x.k = "discr"
     /\ Advance(Set(x.dst, read_discriminant(Layout[x.of], locals[x.of])))
  \/ /\ x.k = "setdisc"
     /\ Advance(Set(x.of, write_discriminant(Layout[x.of], x.variant, locals[x.of])))
  \/ x.k = "live" /\ Advance(Set(x.of, Uninit))
  \/ x.k = "dead" /\ Advance(Set(x.of, Dead))
  \/ /\ x.k = "copy"
     /\ Advance(IF locals[x.count] = 0 THEN locals
                ELSE Set(Target(x.dst), locals[Target(x.src)]))
  \/ x.k \in {"zst", "nop"} /\ Advance(locals)

(* drop_in_place calls the drop glue with the address of the place.        *)
Terminator(x) ==
  \/ x.k = "goto" /\ go_to_block(x.to, locals)
  \/ /\ x.k = "switch"
     /\ LET hits == {j \in DOMAIN x.vals : x.vals[j] = locals[x.on]}
        IN go_to_block(IF hits = {} THEN x.otherwise
                       ELSE x.to[CHOOSE j \in hits : \A h \in hits : j <= h], locals)
  \/ x.k = "return" /\ Stop("returned")
  \/ x.k \in {"resume", "abort"} /\ Stop("panicked")
  \/ /\ x.k = "drop"
     /\ go_to_block(x.to, IF x.glue = "none" THEN locals
                          ELSE Set(x.of, Callee(locals[x.of])))
  \/ x.k = "assert" /\ locals[x.on] = x.expected /\ go_to_block(x.to, locals)
  \/ x.k = "assert" /\ locals[x.on] # x.expected /\ Stop("panicked")

Call(x) ==
  \/ x.k \in {"fn", "virtual"} /\ go_to_block(x.to, Set(x.dst, Callee(locals[x.src])))
  \/ x.k = "empty_glue" /\ go_to_block(x.to, locals)
  \/ x.k \in {"panic", "never", "uninhabited"} /\ Stop("panicked")
  \/ x.k = "assume" /\ locals[x.on] # 0 /\ go_to_block(x.to, locals)
  \/ x.k = "assume" /\ locals[x.on] = 0 /\ Stop("exited")
  \/ x.k = "expect_fail" /\ locals[x.on] # 0 /\ go_to_block(x.to, locals)
  \/ x.k = "expect_fail" /\ locals[x.on] = 0 /\ Stop("expected_fail")
  \/ x.k = "any_raw" /\ \E v \in Ints : go_to_block(x.to, Set(x.dst, v))
  \/ /\ x.k = "replace"
     /\ LET new == [locals EXCEPT ![Target(x.ptr)] = locals[x.src]]
        IN go_to_block(x.to, IF x.dst = Unit THEN locals
                             ELSE [new EXCEPT ![x.dst] = locals[Target(x.ptr)]])
  \/ /\ x.k = "swap"
     /\ go_to_block(x.to, [locals EXCEPT ![Target(x.x)] = locals[Target(x.y)],
                                         ![Target(x.y)] = locals[Target(x.x)]])
  \/ x.k = "read" /\ go_to_block(x.to, Set(x.dst, locals[Target(x.ptr)]))
  \/ x.k = "write" /\ go_to_block(x.to, Set(Target(x.ptr), locals[x.src]))

(* Inline assembly cannot be interpreted.  A translation may also refuse   *)
(* an assignment or a drop whose types it gets wrong, if it says so.       *)
Unsupported(x) ==
  /\ x.k \in {"asm", "mistyped"} \/ (x.k = "drop" /\ x.glue = "untyped")
  /\ Stop("unsupported")

-----------------------------------------------------------------------------
(* push_stack_frame: arguments are initialised, the locals with storage    *)
(* statements are dead and the others uninitialised.                       *)
InitialLocals(args) ==
  [c \in Cells |-> IF c \in DOMAIN args THEN args[c]
                   ELSE IF c \in Dynamic THEN Dead ELSE Uninit]

Init ==
  /\ WellFormed(body)
  /\ \E args \in Inputs : locals = InitialLocals(args)
  /\ loc = Start(1)
  /\ status = "running"
  /\ result = NoResult

step ==
  /\ status = "running"
  /\ IF UB(Here) THEN Stop("ub")
     ELSE Statement(Here) \/ Terminator(Here) \/ Call(Here) \/ Unsupported(Here)

Spec == Init /\ [][step]_vars
=============================================================================
