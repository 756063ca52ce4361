------------------------------ MODULE GotoBody ------------------------------
(***************************************************************************)
(* RMC's translation of a MIR body to a goto program, and the run of that  *)
(* program under CBMC.                                                     *)
(*                                                                         *)
(* codegen_block, codegen_statement, codegen_terminator and the hooks turn *)
(* the body into the vector of statements that codegen_function collects;  *)
(* the first statement of a block carries its label.  One step of the      *)
(* machine runs one statement of that vector, which is a sequence of       *)
(* primitive instructions: this is where the program counter of the MIR    *)
(* moves, so that the run can be compared step by step with module Mir.    *)
(*                                                                         *)
(* stale and ub are history variables: which cells hold no value in the    *)
(* MIR although the goto program keeps some bits in them, and whether the  *)
(* MIR run met undefined behaviour.  They only serve the refinement        *)
(* mapping.                                                                *)
(***************************************************************************)
EXTENDS EnumLayout, SequencesExt

CONSTANTS Bodies, Cells, Ints, Layout, Dynamic, Inputs, Callee(_)

VARIABLES
  body,      \* the MIR body
  code,      \* the statements generated for it
  pc,        \* the next statement
  mem,       \* the variables of the function
  failed,    \* what the first failed assertion reported, or "none"
  halted,    \* "no", or how the run ended
  ret,       \* the value returned
  stale, ub  \* history variables

vars == <<body, code, pc, mem, failed, halted, ret, stale, ub>>

Unit == 0

-----------------------------------------------------------------------------
(* Primitive instructions and expressions of the goto language.            *)

int_constant(v) == [x |-> "int", v |-> v]
Var(c)       == [x |-> "var", c |-> c]
AddressOf(c) == [x |-> "address", c |-> c]
Deref(c)     == [x |-> "deref", c |-> c]
Discr(c)     == [x |-> "discr", c |-> c]
Result(c)    == [x |-> "call", c |-> c]
nondet       == [x |-> "nondet"]
Eq(c, v)     == [x |-> "eq", c |-> c, v |-> v]
NonZero(c)   == [x |-> "nonzero", c |-> c]
False        == [x |-> "false"]

assign(c, e) == [op |-> "assign", c |-> c, e |-> e]
store(p, e)  == [op |-> "store", c |-> p, e |-> e]
memcpy(d, s) == [op |-> "memcpy", c |-> d, src |-> s]
swap(x, y)   == [op |-> "swap", c |-> x, src |-> y]
assert(e, m) == [op |-> "assert", e |-> e, msg |-> m]
assume(e)    == [op |-> "assume", e |-> e]
goto(bb)     == [op |-> "goto", to |-> bb]
if_then_else(e, then) == [op |-> "if", e |-> e, then |-> then]
switch(c, vals, to, default) ==
  [op |-> "switch", c |-> c, vals |-> vals, to |-> to, default |-> default]
Return       == [op |-> "return"]
Abort        == [op |-> "abort"]

assert_false(m) == assert(False, m)

(* codegen_unimplemented: fail, then cut the path.                         *)
codegen_unimplemented == <<assert_false("unsupported"), assume(False)>>

codegen_fatal_error == <<assert_false("panicked"), Abort>>

(* Stmt::assign and codegen_expr_to_place.                                 *)
codegen_expr_to_place(c, e) == IF c = Unit THEN <<>> ELSE <<assign(c, e)>>

-----------------------------------------------------------------------------
codegen_set(x) ==
  LET l == Layout[x.of]
  IN IF l.kind = "single" \/ (l.kind = "niche" /\ x.variant = l.dataful) THEN <<>>
     ELSE <<assign(x.of, int_constant(codegen_set_discriminant(l, x.variant, 0)))>>

codegen_statement(x) ==
  CASE x.k = "use"      -> <<assign(x.dst, Var(x.src))>>
    [] x.k = "mistyped" -> <<assert_false("unsupported"), assign(x.dst, nondet)>>
    [] x.k = "const"    -> <<assign(x.dst, int_constant(x.val))>>
    [] x.k = "ref"      -> <<assign(x.dst, AddressOf(x.of))>>
    [] x.k = "discr"    -> <<assign(x.dst, Discr(x.of))>>
    [] x.k = "setdisc"  -> codegen_set(x)
    [] x.k = "copy"     -> <<if_then_else(NonZero(x.count), memcpy(x.dst, x.src))>>
    [] x.k = "asm"      -> codegen_unimplemented
    [] x.k \in {"live", "dead", "zst", "nop"} -> <<>>

codegen_drop(x) ==
  CASE x.glue = "none"    -> <<goto(x.to)>>
    [] x.glue = "fn"      -> <<assign(x.of, Result(x.of)), goto(x.to)>>
    [] x.glue = "untyped" -> codegen_unimplemented \o <<goto(x.to)>>

(* For "Switches with empty targets" the code would panic.                 *)
codegen_switch_int(x) == <<switch(x.on, x.vals, x.to, x.otherwise)>>

codegen_terminator_assert(x) ==
  <<if_then_else(Eq(x.on, x.expected), goto(x.to)), assert_false("panicked"), goto(x.to)>>

-----------------------------------------------------------------------------
(* The hooks, and the calls that no hook takes.                            *)

ExpectFail(x) == <<assert(NonZero(x.on), "expected_fail"), goto(x.to)>>

AssumeHook(x) == <<assume(NonZero(x.on)), goto(x.to)>>

NondetHook(x) == codegen_expr_to_place(x.dst, nondet) \o <<goto(x.to)>>

\* Mutant: the source is stored before the old value is read.
MemReplaceStoreFirst(x) ==
  IF x.dst = Unit THEN <<goto(x.to)>>
  ELSE <<store(x.ptr, Var(x.src)), assign(x.dst, Deref(x.ptr)), goto(x.to)>>

MemReplace(x) ==
  IF x.dst = Unit THEN <<goto(x.to)>>
  ELSE <<assign(x.dst, Deref(x.ptr)), store(x.ptr, Var(x.src)), goto(x.to)>>

MemSwap(x) == <<swap(x.x, x.y), goto(x.to)>>

PtrRead(x) == <<assign(x.dst, Deref(x.ptr)), goto(x.to)>>

PtrWrite(x) == <<store(x.ptr, Var(x.src)), goto(x.to)>>

\* Mutant: no assertion that the function pointer is not null.
codegen_virtual_funcall_unchecked(x) == codegen_expr_to_place(x.dst, Result(x.src))

codegen_virtual_funcall(x) ==
  <<assert(NonZero(x.vtable), "ub")>> \o codegen_expr_to_place(x.dst, Result(x.src))

codegen_funcall(x) ==
  CASE x.k = "expect_fail" -> ExpectFail(x)
    [] x.k = "assume"      -> AssumeHook(x)
    [] x.k = "any_raw"     -> NondetHook(x)
    [] x.k = "replace"     -> MemReplace(x)
    [] x.k = "swap"        -> MemSwap(x)
    [] x.k = "read"        -> PtrRead(x)
    [] x.k = "write"       -> PtrWrite(x)
    [] x.k \in {"panic", "never"} -> codegen_fatal_error
    [] x.k = "uninhabited" -> <<assert_false("panicked")>>
    [] x.k = "empty_glue"  -> <<goto(x.to)>>
    [] x.k = "virtual"     -> codegen_virtual_funcall(x) \o <<goto(x.to)>>
    [] x.k = "fn"          -> codegen_expr_to_place(x.dst, Result(x.src)) \o <<goto(x.to)>>

codegen_terminator(x) ==
  CASE x.k = "goto"        -> <<goto(x.to)>>
    [] x.k = "switch"      -> codegen_switch_int(x)
    [] x.k \in {"resume", "abort"} -> <<assert_false("panicked")>>
    [] x.k = "return"      -> <<Return>>
    [] x.k = "unreachable" -> <<assert_false("ub"), assume(False)>>
    [] x.k = "drop"        -> codegen_drop(x)
    [] x.k = "assert"      -> codegen_terminator_assert(x)
    [] x.k = "asm"         -> codegen_unimplemented
    [] OTHER               -> codegen_funcall(x)

(* The label goes on the first statement, or on the terminator when there  *)
(* is none.  bb and i say which MIR statement this is.                     *)
codegen_block(b, bb) ==
  LET n == Len(b.stmts)
  IN [i \in 1 .. n + 1 |->
        [label |-> IF i = 1 THEN bb ELSE 0, bb |-> bb, i |-> i,
         is |-> IF i <= n THEN codegen_statement(b.stmts[i])
                ELSE codegen_terminator(b.term)]]

codegen_function(b) == FlattenSeq([bb \in DOMAIN b |-> codegen_block(b[bb], bb)])

-----------------------------------------------------------------------------
(* CBMC's run of one statement.  A failed assertion is reported and the    *)
(* run goes on; a false assumption cuts it; the first jump leaves the      *)
(* statement.  s.choice is the value of the nondet expressions.            *)

Address(c) == 1000 + c

Points(s, p) == {c \in Cells : s.mem[p] = Address(c)}

Eval(s, e) ==
  CASE e.x = "int"     -> e.v
    [] e.x = "var"     -> s.mem[e.c]
    [] e.x = "address" -> Address(e.c)
    [] e.x = "deref"   -> IF Points(s, e.c) = {} THEN 0
                          ELSE s.mem[CHOOSE c \in Points(s, e.c) : TRUE]
    [] e.x = "discr"   -> codegen_get_discriminant(Layout[e.c], s.mem[e.c])
    [] e.x = "call"    -> Callee(s.mem[e.c])
    [] e.x = "nondet"  -> s.choice

Holds(s, e) ==
  \/ e.x = "eq" /\ s.mem[e.c] = e.v
  \/ e.x = "nonzero" /\ s.mem[e.c] # 0

(* Write value v, with history h, to cells cs.                             *)
Put(s, cs, v, h) ==
  [s EXCEPT !.mem = [c \in Cells |-> IF c \in cs THEN v ELSE @[c]],
            !.stale = [c \in Cells |-> IF c \in cs THEN h ELSE @[c]]]

Basic(s, ins) ==
  CASE ins.op = "assign" -> Put(s, {ins.c}, Eval(s, ins.e), 0)
    [] ins.op = "store"  -> Put(s, Points(s, ins.c), Eval(s, ins.e), 0)
    [] ins.op = "memcpy" ->
         IF Points(s, ins.src) = {} THEN s
         ELSE LET from == CHOOSE c \in Points(s, ins.src) : TRUE
              IN Put(s, Points(s, ins.c), s.mem[from], s.stale[from])
    [] ins.op = "swap"   ->
         LET x == Eval(s, Deref(ins.c))
             y == Eval(s, Deref(ins.src))
         IN Put(Put(s, Points(s, ins.c), y, 0), Points(s, ins.src), x, 0)
    [] ins.op = "assert" ->
         IF Holds(s, ins.e) \/ s.failed # "none" THEN s
         ELSE [s EXCEPT !.failed = ins.msg]
    [] ins.op = "assume" -> IF Holds(s, ins.e) THEN s ELSE [s EXCEPT !.halted = "exited"]
    [] ins.op = "goto"   -> [s EXCEPT !.jump = ins.to]
    [] ins.op = "switch" ->
         LET hits == {j \in DOMAIN ins.vals : ins.vals[j] = s.mem[ins.c]}
         IN [s EXCEPT !.jump = IF hits = {} THEN ins.default
                               ELSE ins.to[CHOOSE j \in hits : \A h \in hits : j <= h]]
    [] ins.op = "return" -> [s EXCEPT !.halted = "returned"]
    [] ins.op = "abort"  -> [s EXCEPT !.halted = "aborted"]

Exec(s, ins) ==
  IF s.jump # 0 \/ s.halted # "no" THEN s
  ELSE IF ins.op # "if" THEN Basic(s, ins)
  ELSE IF Holds(s, ins.e) THEN Basic(s, ins.then) ELSE s

Run(is, choice) ==
  FoldLeft(Exec, [mem |-> mem, stale |-> stale, jump |-> 0, failed |-> failed,
                  halted |-> "no", choice |-> choice], is)

\* Mutant: labels are looked up one block too early.
find_label_off_by_one(bb) == CHOOSE i \in DOMAIN code : code[i].label = bb - 1

find_label(bb) == CHOOSE i \in DOMAIN code : code[i].label = bb

-----------------------------------------------------------------------------
(* The refinement mapping: the MIR state that a state of the goto program  *)
(* stands for.                                                             *)
MirStatus ==
  IF ub THEN "ub" ELSE IF failed # "none" THEN failed
  ELSE IF halted = "no" THEN "running" ELSE halted

Running == MirStatus = "running"

MirLoc == IF Running THEN [bb |-> code[pc].bb, i |-> code[pc].i] ELSE [bb |-> 0, i |-> 0]

MirLocals ==
  [c \in Cells |-> IF ~Running THEN -1 ELSE IF stale[c] # 0 THEN stale[c] ELSE mem[c]]

M == INSTANCE Mir WITH
       body <- body, loc <- MirLoc, locals <- MirLocals, status <- MirStatus,
       result <- IF MirStatus = "returned" THEN ret ELSE -3

-----------------------------------------------------------------------------
Init ==
  /\ body \in Bodies
  /\ code = codegen_function(body)
  /\ pc = 1
  /\ \E args \in Inputs :
       /\ mem = [c \in Cells |-> IF c \in DOMAIN args THEN args[c] ELSE 0]
       /\ stale = [c \in Cells |-> IF c \in DOMAIN args THEN 0
                                   ELSE IF c \in Dynamic THEN M!Dead ELSE M!Uninit]
  /\ failed = "none"
  /\ halted = "no"
  /\ ret = 0
  /\ ub = FALSE

UsesNondet(is) == \E j \in DOMAIN is : is[j].op = "assign" /\ is[j].e = nondet

(* What StorageLive and StorageDead do to the MIR local.                   *)
Storage(st) ==
  LET x == M!Here
  IN IF Running /\ x.k \in {"live", "dead"}
     THEN [st EXCEPT ![x.of] = IF x.k = "live" THEN M!Uninit ELSE M!Dead] ELSE st

Step ==
  /\ halted = "no"
  /\ pc \in DOMAIN code
  /\ \E v \in (IF UsesNondet(code[pc].is) THEN Ints ELSE {0}) :
       LET s == Run(code[pc].is, v)
       IN /\ mem' = s.mem
          /\ failed' = s.failed
          /\ halted' = s.halted
          /\ pc' = IF s.jump = 0 THEN pc + 1 ELSE find_label(s.jump)
          /\ ret' = IF s.halted # "returned" THEN ret
                    ELSE IF stale[1] # 0 THEN stale[1] ELSE mem[1]
          /\ stale' = Storage(s.stale)
          /\ ub' = (ub \/ (Running /\ M!UB(M!Here)))
  /\ UNCHANGED <<body, code>>

(* Control reaches the end of the function without a return.               *)
FallOffEnd ==
  /\ halted = "no"
  /\ pc \notin DOMAIN code
  /\ halted' = "returned"
  /\ UNCHANGED <<body, code, pc, mem, failed, ret, stale, ub>>

Done == halted # "no" /\ UNCHANGED vars

Next == Step \/ FallOffEnd \/ Done

Spec == Init /\ [][Next]_vars /\ WF_vars(Step \/ FallOffEnd)

-----------------------------------------------------------------------------
(* Every run of the goto program that codegen_statement and                *)
(* codegen_terminator generate is a run of the MIR body as rustc's         *)
(* interpreter defines it: same values, same branches, same way to end.    *)
(* A failed assertion is reported exactly where the MIR run panics, meets  *)
(* something RMC does not support or fails an expect_fail.                 *)
RefinesMir == M!Spec

(* Reaching unreachable code and calling a null entry of a vtable are      *)
(* reported by a failed assertion (codegen_terminator,                     *)
(* codegen_virtual_funcall), although what follows them is undefined; and  *)
(* control leaves the function without a return only after one, though     *)
(* nothing is generated after a call that does not return.                 *)
UBReported ==
  [][/\ Running /\ ub' /\ M!Here.k \in {"unreachable", "virtual"}
          /\ (M!Here.k = "virtual" => mem[M!Here.vtable] = 0) => failed' = "ub"
     /\ pc' \notin DOMAIN code' => failed' # "none" \/ halted' # "no"]_vars

(* A body without loops comes to an end in the goto program: no label sends*)
(* control back (codegen_block puts each label on its own block).          *)
Forward(b) == \A bb \in DOMAIN b : \A c \in M!Successors(b, bb) : c > bb

Ends == Forward(body) ~> halted # "no"
=============================================================================
