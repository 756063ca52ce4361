---------------------------- MODULE GotocCodegen ----------------------------
(***************************************************************************)
(* codegen_crate: the translation of one crate to a symbol table.          *)
(*                                                                         *)
(* GotocCtx first declares every function and static of the crate, then    *)
(* codegens each of them.  Types, helper functions, vtables, constants and *)
(* references to other items are codegenned where they are met, by         *)
(* functions that call each other recursively and all change the one       *)
(* symbol table.  The spec keeps what is left of those calls in agenda, a  *)
(* stack of operations: an action takes the first one, does what the code  *)
(* does before its next recursive call and puts the calls that follow in   *)
(* its place.                                                              *)
(*                                                                         *)
(* A failed assertion or unwrap of the code is the phase "panic".          *)
(***************************************************************************)
EXTENDS Integers, Sequences, SymbolTable

CONSTANTS
    Fns,        \* function instances, of this crate and of others
    Statics,    \* statics, of this crate and of others
    Types,      \* monomorphic types that become structs or unions
    Allocs,     \* alloc ids of constants in memory
    Contents,   \* allocations, which the compiler interns by content
    Vtables,    \* pairs of a trait and a type that is cast to it
    Programs,   \* the crates to translate
    None        \* no function, or no identifier

Ids == Fns \cup Statics \cup Types \cup Allocs \cup Contents \cup Vtables \cup {None}

(* The names of the table.  sort and id tell what a name stands for, and   *)
(* view which of the names derived from it: the struct of its initial      *)
(* value, its initializer, or the n-th variable of some scope.             *)
Sorts == {"fn", "static", "type", "alloc", "global", "vtable", "unimplemented",
          "direct", "repeat"}
Views == {"itself", "struct", "init", "init_var", "var", "spread", "temp"}
Names == [sort : Sorts, id : Ids, view : Views, n : Nat]

Name(sort, id)     == [sort |-> sort, id |-> id, view |-> "itself", n |-> 0]
Var(name, v, i)    == [sort |-> name.sort, id |-> name.id, view |-> v, n |-> i]
Derived(name, v)   == Var(name, v, name.n)
GlobalName(count)  == [sort |-> "global", id |-> None, view |-> "itself", n |-> count]
NoName             == GlobalName(0)

(* An operation of the agenda: a function of the code that is still to be  *)
(* called (or the rest of one), with the entity or the name it is for.     *)
Op(op, id, name) == [op |-> op, id |-> id, name |-> name]

TypeOps  == {"ty", "direct", "repeat", "spread", "local"}
FnOps    == {"fn", "declare_fn", "codegen_fn", "finish_fn"}
DataOps  == {"const", "alloc_in_memory", "alloc_global", "alloc_init"}
Ops == [op : TypeOps, id : Types, name : Names]
       \cup [op : FnOps, id : Fns, name : Names]
       \cup [op : {"static", "declare_static", "codegen_static"}, id : Statics, name : Names]
       \cup [op : {"mem"}, id : Allocs, name : Names]
       \cup [op : DataOps, id : Contents, name : Names]
       \cup [op : {"vtable", "vtable_drop", "vtable_init"}, id : Vtables, name : Names]
       \cup [op : {"temp", "insert_var", "insert_decl", "insert_def", "complete", "reset"},
             id : {None}, name : Names]

(* What a function body or an allocation may mention.                      *)
Uses == {o \in Ops : /\ o.op \in {"ty", "direct", "repeat", "fn", "static", "mem",
                                  "const", "vtable", "temp"}
                     /\ o.name = NoName}

Items == [op : {"fn"}, id : Fns] \cup [op : {"static"}, id : Statics]

(* A crate after monomorphisation, with what the model keeps of it.        *)
Crates == [items   : Seq(Items),             \* in codegen unit order
           sig     : [Fns -> Seq(Types)],    \* parameters and result
           locals  : [Fns -> Seq(Types)],
           spread  : [Fns -> Nat],           \* the spread argument, or 0
           args    : [Fns -> Seq(Types)],    \* components of that argument
           body    : [Fns -> Seq(Uses)],
           skip    : SUBSET Fns,             \* functions RMC cannot codegen
           proof   : SUBSET Fns,             \* functions marked as proofs
           fields  : [Types -> Seq(Types)],
           foreign : SUBSET Types,
           typ     : [Statics -> Types],
           init    : [Statics -> Contents],
           content : [Allocs -> Contents],
           mutable : SUBSET Contents,
           relocs  : [Contents -> Seq(Uses)],
           impl    : [Vtables -> Types],
           drop    : [Vtables -> Fns]]

ASSUME ProgramsAssumption == Programs \subseteq Crates

VARIABLES
    prog,             \* the crate
    phase,            \* "declare", "codegen", "done" or "panic"
    next,             \* the next item of the phase
    agenda,           \* the operations still to do for the last item
    symbol_table,
    alloc_map,        \* from allocations to the names they have in memory
    global_var_count,
    current_fn,
    temp_var_counter,
    proof_harnesses

vars == <<prog, phase, next, agenda, symbol_table, alloc_map, global_var_count,
          current_fn, temp_var_counter, proof_harnesses>>

Init ==
    /\ prog \in Programs
    /\ phase = "declare"
    /\ next = 1
    /\ agenda = <<>>
    /\ symbol_table = <<>>
    /\ alloc_map = <<>>
    /\ global_var_count = 0
    /\ current_fn = None
    /\ temp_var_counter = 0
    /\ proof_harnesses = <<>>
-----------------------------------------------------------------------------
Working == phase \in {"declare", "codegen"}

(* The first operation of the agenda, and the calls that take its place.   *)
Call == Head(agenda)
Then(ops) == agenda' = ops \o Tail(agenda)

(* The assertions and unwraps of the operations.                           *)
AssertionsHold ==
    /\ Call.op \in {"insert_var", "insert_decl", "insert_def"} =>
          CanInsert(symbol_table, Call.name)
    /\ Call.op = "complete" => CanComplete(symbol_table, Call.name)
    /\ Call.op = "temp" => current_fn # None
    /\ Call.op = "alloc_init" => CanInsert(symbol_table, Derived(Call.name, "init_var"))
    /\ Call.op = "codegen_fn" =>
          /\ Contains(symbol_table, Name("fn", Call.id))
          /\ symbol_table[Name("fn", Call.id)] \in {"decl", "def"}
    /\ Call.op = "finish_fn" => CanDefine(symbol_table, Name("fn", Call.id))

Do(op) == Working /\ agenda # <<>> /\ Call.op = op /\ AssertionsHold

Panic ==
    /\ Working /\ agenda # <<>> /\ ~AssertionsHold
    /\ phase' = "panic"
    /\ UNCHANGED <<prog, next, agenda, symbol_table, alloc_map, global_var_count,
                   current_fn, temp_var_counter, proof_harnesses>>

(* What most operations leave alone.                                       *)
KeepContext == UNCHANGED <<prog, phase, next, global_var_count, current_fn,
                           temp_var_counter, proof_harnesses>>
KeepTables == UNCHANGED <<symbol_table, alloc_map>>

Calls(op, ids) == [i \in 1 .. Len(ids) |-> Op(op, ids[i], NoName)]

Variables(op, name, view, types) ==
    [i \in 1 .. Len(types) |-> Op(op, types[i], Var(name, view, i))]

Insert(kind, name) == Op(kind, None, name)
-----------------------------------------------------------------------------
(* Inserting a symbol, and the end of ensure_struct and ensure_union.      *)
InsertSymbol(op, kind) ==
    /\ Do(op)
    /\ symbol_table' = insert(symbol_table, Call.name, kind)
    /\ Then(<<>>)
    /\ KeepContext /\ UNCHANGED alloc_map

InsertVariable    == InsertSymbol("insert_var", "var")
InsertDeclaration == InsertSymbol("insert_decl", "decl")
InsertDefinition  == InsertSymbol("insert_def", "def")

Complete ==
    /\ Do("complete")
    /\ symbol_table' = replace_with_completion(symbol_table, Call.name)
    /\ Then(<<>>)
    /\ KeepContext /\ UNCHANGED alloc_map

(* A mutant: the components of a type are never put in.                    *)
CodegenTyIncomplete ==
    /\ Do("ty")
    /\ LET tag == Name("type", Call.id)
       IN  \/ /\ Contains(symbol_table, tag)
              /\ Then(<<>>) /\ UNCHANGED symbol_table
           \/ /\ ~Contains(symbol_table, tag)
              /\ symbol_table' = insert(symbol_table, tag, "incomplete")
              /\ Then(Calls("ty", prog.fields[Call.id]))
    /\ KeepContext /\ UNCHANGED alloc_map

(* codegen_ty of a type that becomes a struct or a union.  It inserts the  *)
(* type incomplete before it codegens the fields, so that a recursive type *)
(* finds itself; a foreign type stays incomplete.                          *)
codegen_ty ==
    /\ Do("ty")
    /\ LET tag == Name("type", Call.id)
       IN  \/ /\ Contains(symbol_table, tag)
              /\ Then(<<>>) /\ UNCHANGED symbol_table
           \/ /\ ~Contains(symbol_table, tag)
              /\ symbol_table' = insert(symbol_table, tag, "incomplete")
              /\ Then(IF Call.id \in prog.foreign THEN <<>>
                      ELSE Calls("ty", prog.fields[Call.id]) \o <<Insert("complete", tag)>>)
    /\ KeepContext /\ UNCHANGED alloc_map

(* gen_temp_variable numbers the temporaries of the current function.      *)
gen_temp_variable ==
    /\ Do("temp")
    /\ temp_var_counter' = temp_var_counter + 1
    /\ Then(<<Insert("insert_var", Var(Name("fn", current_fn), "temp", temp_var_counter))>>)
    /\ KeepTables
    /\ UNCHANGED <<prog, phase, next, global_var_count, current_fn, proof_harnesses>>
-----------------------------------------------------------------------------
(* References to functions and statics, of this crate or of another one.   *)
codegen_func_expr ==
    /\ Do("fn")
    /\ \/ /\ Call.name = NoName
          /\ Then(Calls("ty", prog.sig[Call.id])
                  \o <<Op("fn", Call.id, Name("fn", Call.id))>>)
          /\ UNCHANGED symbol_table
       \/ /\ Call.name # NoName
          /\ symbol_table' = ensure(symbol_table, Call.name, "decl")
          /\ Then(<<>>)
    /\ KeepContext /\ UNCHANGED alloc_map

(* A mutant: statics are assumed to be declared.                           *)
StaticPointerUnchecked ==
    Do("static") /\ Then(<<>>) /\ KeepTables /\ KeepContext

codegen_static_pointer ==
    /\ Do("static")
    /\ LET name == Name("static", Call.id)
       IN  Then(IF Contains(symbol_table, name) THEN <<>>
                ELSE <<Op("ty", prog.typ[Call.id], NoName), Insert("insert_var", name)>>)
    /\ KeepTables /\ KeepContext

(* A mutant: the helper is only inserted after its type is codegenned, and *)
(* that asks for the helper again.                                         *)
DirectLiteralRecurs ==
    /\ Do("direct")
    /\ Then(IF Contains(symbol_table, Name("direct", Call.id)) THEN <<>>
            ELSE <<Op("ty", Call.id, NoName), Call>>)
    /\ KeepTables /\ KeepContext

(* codegen_direct_literal and codegen_niche_literal codegen the type and   *)
(* then ensure a helper function with two variables of its own.            *)
codegen_direct_literal ==
    /\ Do("direct")
    /\ LET helper == Name("direct", Call.id)
       IN  Then(\* the first visit codegens the type, the second the helper
                IF Call.name = NoName
                THEN <<Op("ty", Call.id, NoName), Op("direct", Call.id, helper)>>
                ELSE IF Contains(symbol_table, helper) THEN <<>>
                ELSE <<Insert("insert_var", Var(helper, "var", 1)),
                       Insert("insert_var", Var(helper, "var", 2)),
                       Insert("insert_def", helper)>>)
    /\ KeepTables /\ KeepContext

(* codegen_rvalue_repeat codegens the type while it makes the helper.      *)
codegen_rvalue_repeat ==
    /\ Do("repeat")
    /\ LET helper == Name("repeat", Call.id)
       IN  Then(IF Contains(symbol_table, helper) THEN <<>>
                ELSE <<Op("ty", Call.id, NoName)>>
                     \o [i \in 1 .. 3 |-> Insert("insert_var", Var(helper, "var", i))]
                     \o <<Insert("insert_def", helper)>>)
    /\ KeepTables /\ KeepContext
-----------------------------------------------------------------------------
(* A mutant: mutable allocations of the same content share a location.     *)
HasAnyLocation(c) == c \in DOMAIN alloc_map

(* Allocations.  An immutable allocation that has a location keeps it,     *)
(* whatever name it is asked for under; any other one gets a location.     *)
HasLocation(c) == c \notin prog.mutable /\ c \in DOMAIN alloc_map

codegen_allocation(c, name) ==
    /\ Then(IF HasLocation(c) THEN <<>> ELSE <<Op("alloc_in_memory", c, name)>>)
    /\ KeepTables /\ KeepContext

(* A pointer to a constant in memory, and the initial value of a static.   *)
codegen_alloc_pointer ==
    Do("mem") /\ codegen_allocation(prog.content[Call.id], Name("alloc", Call.id))

codegen_static ==
    Do("codegen_static") /\ codegen_allocation(prog.init[Call.id], Name("static", Call.id))

(* A mutant: every mention of a constant gets a location.                  *)
ConstValueAgain ==
    /\ Do("const")
    /\ Then(<<Op("alloc_in_memory", Call.id, GlobalName(global_var_count))>>)
    /\ global_var_count' = global_var_count + 1
    /\ UNCHANGED <<prog, phase, next, symbol_table, alloc_map, current_fn,
                   temp_var_counter, proof_harnesses>>

(* A constant by reference, which takes the next free global name.         *)
codegen_const_value ==
    /\ Do("const")
    /\ \/ HasLocation(Call.id) /\ Then(<<>>) /\ UNCHANGED global_var_count
       \/ /\ ~HasLocation(Call.id)
          /\ Then(<<Op("alloc_in_memory", Call.id, GlobalName(global_var_count))>>)
          /\ global_var_count' = global_var_count + 1
    /\ UNCHANGED <<prog, phase, next, symbol_table, alloc_map, current_fn,
                   temp_var_counter, proof_harnesses>>

(* codegen_alloc_in_memory, in three parts that each end where it codegens *)
(* what the allocation points to: the struct for the initial value, ...    *)
codegen_alloc_in_memory ==
    /\ Do("alloc_in_memory")
    /\ LET struct == Derived(Call.name, "struct")
           rest   == <<Op("alloc_global", Call.id, Call.name)>>
       IN  \/ Contains(symbol_table, struct) /\ Then(rest) /\ UNCHANGED symbol_table
           \/ /\ ~Contains(symbol_table, struct)
              /\ symbol_table' = insert(symbol_table, struct, "incomplete")
              /\ Then(prog.relocs[Call.id] \o <<Insert("complete", struct)>> \o rest)
    /\ KeepContext /\ UNCHANGED alloc_map

(* ... the variable, and once more what the allocation points to, ...      *)
AllocGlobal ==
    /\ Do("alloc_global")
    /\ symbol_table' = ensure(symbol_table, Call.name, "var")
    /\ Then(prog.relocs[Call.id] \o <<Op("alloc_init", Call.id, Call.name)>>)
    /\ KeepContext /\ UNCHANGED alloc_map

(* ... and the initializer with its variable, which must be new.           *)
AllocInit ==
    /\ Do("alloc_init")
    /\ symbol_table' =
          ensure(insert(symbol_table, Derived(Call.name, "init_var"), "var"),
                 Derived(Call.name, "init"), "def")
    /\ alloc_map' = With(alloc_map, Call.id, Call.name)
    /\ Then(<<>>)
    /\ KeepContext
-----------------------------------------------------------------------------
(* A vtable: a variable, and an initializer that checks the size of the    *)
(* type with a temporary and fills the fields.                             *)
codegen_vtable ==
    /\ Do("vtable")
    /\ LET var == Name("vtable", Call.id)
       IN  \/ Contains(symbol_table, var) /\ Then(<<>>) /\ UNCHANGED symbol_table
           \/ /\ ~Contains(symbol_table, var)
              /\ symbol_table' = insert(symbol_table, var, "var")
              /\ Then(<<Op("ty", prog.impl[Call.id], NoName),
                        Op("temp", None, NoName),
                        Op("vtable_drop", Call.id, NoName),
                        Op("vtable_init", Call.id, NoName)>>)
    /\ KeepContext /\ UNCHANGED alloc_map

(* A mutant: the drop function must have a body.                           *)
DropMustBeDefined ==
    /\ Do("vtable_drop")
    /\ LET drop == prog.drop[Call.id]
           unimplemented == Name("unimplemented", drop)
       IN  Then(IF \/ /\ Contains(symbol_table, Name("fn", drop))
                      /\ symbol_table[Name("fn", drop)] = "def"
                   \/ Contains(symbol_table, unimplemented)
                THEN <<>>
                ELSE <<Insert("insert_var", Var(unimplemented, "var", 0)),
                       Insert("insert_def", unimplemented)>>)
    /\ KeepTables /\ KeepContext

(* A drop function the table does not hold is replaced by one that fails.  *)
codegen_vtable_drop_in_place ==
    /\ Do("vtable_drop")
    /\ LET drop == prog.drop[Call.id]
           unimplemented == Name("unimplemented", drop)
       IN  Then(IF \/ Contains(symbol_table, Name("fn", drop))
                   \/ Contains(symbol_table, unimplemented)
                THEN <<>>
                ELSE <<Insert("insert_var", Var(unimplemented, "var", 0)),
                       Insert("insert_def", unimplemented)>>)
    /\ KeepTables /\ KeepContext

VtableInit ==
    /\ Do("vtable_init")
    /\ symbol_table' = ensure(symbol_table, Derived(Name("vtable", Call.id), "init"), "def")
    /\ Then(<<>>)
    /\ KeepContext /\ UNCHANGED alloc_map
-----------------------------------------------------------------------------
(* Functions.  declare_function leaves a function that has a symbol alone. *)
declare_function ==
    /\ Do("declare_fn")
    /\ LET name == Name("fn", Call.id)
       IN  Then((IF Contains(symbol_table, name) THEN <<>>
                 ELSE Calls("ty", prog.sig[Call.id]) \o <<Insert("insert_decl", name)>>)
                \o <<Op("reset", None, NoName)>>)
    /\ current_fn' = Call.id /\ temp_var_counter' = 0
    /\ UNCHANGED <<prog, phase, next, symbol_table, alloc_map, global_var_count,
                   proof_harnesses>>

reset_current_fn ==
    /\ Do("reset")
    /\ current_fn' = None
    /\ Then(<<>>)
    /\ UNCHANGED <<prog, phase, next, symbol_table, alloc_map, global_var_count,
                   temp_var_counter, proof_harnesses>>

declare_static ==
    /\ Do("declare_static")
    /\ Then(<<Op("ty", prog.typ[Call.id], NoName),
              Insert("insert_var", Name("static", Call.id))>>)
    /\ KeepTables /\ KeepContext

(* codegen_function_prelude puts the components of a spread argument and   *)
(* the argument itself into the table; codegen_declare_variables the       *)
(* other variables.                                                        *)
codegen_function_prelude(f) ==
    LET name == Name("fn", f) spread == prog.spread[f]
    IN  IF spread \notin DOMAIN prog.locals[f] THEN <<>>
        ELSE <<Op("ty", prog.locals[f][spread], NoName)>>
             \o Variables("spread", name, "spread", prog.args[f])
             \o <<Insert("insert_var", Var(name, "var", spread))>>
declare_variable ==
    /\ Do("spread")
    /\ Then(<<Op("ty", Call.id, NoName), Insert("insert_var", Call.name)>>)
    /\ KeepTables /\ KeepContext

(* A mutant: the spread argument is declared with the other variables.     *)
DeclareSpreadAgain ==
    /\ Do("local")
    /\ Then(<<Op("ty", Call.id, NoName), Insert("insert_var", Call.name)>>)
    /\ KeepTables /\ KeepContext

codegen_declare_variables ==
    /\ Do("local")
    /\ Then(IF Call.name.n = prog.spread[current_fn] THEN <<>>
            ELSE <<Op("ty", Call.id, NoName), Insert("insert_var", Call.name)>>)
    /\ KeepTables /\ KeepContext

(* codegen_function: a function that is defined already is left alone, one *)
(* RMC cannot codegen gets a body that fails, any other one its own body.  *)
codegen_function ==
    /\ Do("codegen_fn")
    /\ LET f == Call.id name == Name("fn", Call.id)
       IN  \/ /\ symbol_table[name] = "def"
              /\ Then(<<>>) /\ current_fn' = None /\ UNCHANGED symbol_table
           \/ /\ symbol_table[name] = "decl" /\ f \in prog.skip
              /\ symbol_table' = update_fn_declaration_with_definition(symbol_table, name)
              /\ Then(<<>>) /\ current_fn' = None
           \/ /\ symbol_table[name] = "decl" /\ f \notin prog.skip
              /\ Then(codegen_function_prelude(f)
                      \o Variables("local", name, "var", prog.locals[f])
                      \o prog.body[f] \o <<Op("finish_fn", f, NoName)>>)
              /\ current_fn' = f /\ UNCHANGED symbol_table
    /\ temp_var_counter' = 0
    /\ UNCHANGED <<prog, phase, next, alloc_map, global_var_count, proof_harnesses>>

FinishFunction ==
    /\ Do("finish_fn")
    /\ symbol_table' =
          update_fn_declaration_with_definition(symbol_table, Name("fn", Call.id))
    /\ proof_harnesses' = IF Call.id \in prog.proof THEN Append(proof_harnesses, Call.id)
                          ELSE proof_harnesses
    /\ Then(<<>>)
    /\ current_fn' = None
    /\ UNCHANGED <<prog, phase, next, alloc_map, global_var_count, temp_var_counter>>
-----------------------------------------------------------------------------
(* The two loops of codegen_crate over the items of the codegen units.     *)
ItemCall(item) ==
    LET op == CASE phase = "declare" /\ item.op = "fn"     -> "declare_fn"
                [] phase = "declare" /\ item.op = "static" -> "declare_static"
                [] phase = "codegen" /\ item.op = "fn"     -> "codegen_fn"
                [] phase = "codegen" /\ item.op = "static" -> "codegen_static"
    IN  Op(op, item.id, NoName)

StartItem ==
    /\ Working /\ agenda = <<>> /\ next \in DOMAIN prog.items
    /\ agenda' = <<ItemCall(prog.items[next])>>
    /\ next' = next + 1
    /\ UNCHANGED <<prog, phase, symbol_table, alloc_map, global_var_count, current_fn,
                   temp_var_counter, proof_harnesses>>

EndLoop ==
    /\ Working /\ agenda = <<>> /\ next \notin DOMAIN prog.items
    /\ phase' = IF phase = "declare" THEN "codegen" ELSE "done"
    /\ next' = 1
    /\ UNCHANGED <<prog, agenda, symbol_table, alloc_map, global_var_count, current_fn,
                   temp_var_counter, proof_harnesses>>

(* A crate that is translated, or given up, stays so.                      *)
Stopped == ~Working /\ UNCHANGED vars

Next ==
    \/ StartItem \/ EndLoop \/ Panic \/ Stopped
    \/ InsertVariable \/ InsertDeclaration \/ InsertDefinition \/ Complete
    \/ codegen_ty \/ gen_temp_variable
    \/ codegen_func_expr \/ codegen_static_pointer
    \/ codegen_direct_literal \/ codegen_rvalue_repeat
    \/ codegen_alloc_pointer \/ codegen_static \/ codegen_const_value
    \/ codegen_alloc_in_memory \/ AllocGlobal \/ AllocInit
    \/ codegen_vtable \/ codegen_vtable_drop_in_place \/ VtableInit
    \/ declare_function \/ reset_current_fn \/ declare_static
    \/ declare_variable \/ codegen_declare_variables
    \/ codegen_function \/ FinishFunction

Spec == Init /\ [][Next]_vars

(* The compiler runs until it is done.                                     *)
FairSpec == Spec /\ WF_vars(Next)
-----------------------------------------------------------------------------
ItemFns     == {f \in Fns : \E i \in DOMAIN prog.items : prog.items[i] = [op |-> "fn", id |-> f]}
ItemStatics == {s \in Statics : \E i \in DOMAIN prog.items : prog.items[i] = [op |-> "static", id |-> s]}

Defined(f) == /\ Contains(symbol_table, Name("fn", f))
              /\ symbol_table[Name("fn", f)] = "def"

(* Every operation of the agenda is a call of the code with an argument of *)
(* the right sort, and the table maps names to symbols.                    *)
TypeOK ==
    /\ prog \in Crates
    /\ phase \in {"declare", "codegen", "done", "panic"}
    /\ next \in Nat \ {0}
    /\ agenda \in Seq(Ops)
    /\ DOMAIN symbol_table \subseteq Names
    /\ \A n \in DOMAIN symbol_table : symbol_table[n] \in SymbolKinds
    /\ DOMAIN alloc_map \subseteq Contents
    /\ \A c \in DOMAIN alloc_map : alloc_map[c] \in Names
    /\ global_var_count \in Nat
    /\ current_fn \in Fns \cup {None}
    /\ temp_var_counter \in Nat
    /\ proof_harnesses \in Seq(Fns)

(* No symbol is lost or overwritten while a crate is codegenned: a symbol  *)
(* only changes when an incomplete type is completed or a declared         *)
(* function gets its body, although dozens of callers ensure and insert.   *)
SymbolsKept ==
    [][\A n \in DOMAIN symbol_table :
          /\ n \in DOMAIN symbol_table'
          /\ \/ symbol_table'[n] = symbol_table[n]
             \/ symbol_table[n] = "incomplete" /\ symbol_table'[n] = "complete"
             \/ symbol_table[n] = "decl" /\ symbol_table'[n] = "def"]_vars

(* An allocation codegen_immutable_allocation finds in alloc_map has a     *)
(* variable in the symbol table (the lookup is unwrapped) and an           *)
(* initializer that gives the variable its value.                          *)
AllocMapSound ==
    \A c \in DOMAIN alloc_map :
        /\ Contains(symbol_table, alloc_map[c])
        /\ Contains(symbol_table, Derived(alloc_map[c], "init"))

(* codegen_immutable_allocation promises one location for an immutable     *)
(* allocation: once it has one it never gets another.                      *)
OneLocation ==
    [][\A c \in DOMAIN alloc_map \ prog.mutable : alloc_map'[c] = alloc_map[c]]_vars

(* A vtable never gets the failing drop function in place of one the crate *)
(* has: all functions are declared before the first vtable is codegenned.  *)
DropsResolved ==
    \A f \in ItemFns : ~Contains(symbol_table, Name("unimplemented", f))

(* Every crate whose allocations point to no mutable memory is translated  *)
(* without a failed assertion: no variable, temporary, helper or type is   *)
(* inserted twice, and no function is defined twice.                       *)
PointsToMutable ==
    \E c \in Contents : \E i \in DOMAIN prog.relocs[c] :
        /\ prog.relocs[c][i].op = "mem"
        /\ prog.content[prog.relocs[c][i].id] \in prog.mutable

PanicsOnlyOnNestedMutable == phase = "panic" => PointsToMutable

(* What a translated crate mentions: in the bodies it codegenned and in    *)
(* the allocations it gave a location.                                     *)
Mentioned ==
    UNION ({ {prog.body[f][i] : i \in DOMAIN prog.body[f]} : f \in ItemFns \ prog.skip }
           \cup { {prog.relocs[c][i] : i \in DOMAIN prog.relocs[c]} : c \in DOMAIN alloc_map })

Resolved(u) ==
    CASE u.op = "ty"     -> Contains(symbol_table, Name("type", u.id))
      [] u.op = "fn"     -> Contains(symbol_table, Name("fn", u.id))
      [] u.op = "static" -> Contains(symbol_table, Name("static", u.id))
      [] u.op = "mem"    -> prog.content[u.id] \in DOMAIN alloc_map
      [] u.op = "const"  -> u.id \in DOMAIN alloc_map
      [] u.op = "vtable" -> Contains(symbol_table, Derived(Name("vtable", u.id), "init"))
      [] u.op \in {"direct", "repeat"} -> Contains(symbol_table, Name(u.op, u.id))
      [] u.op = "temp"   -> TRUE

(* The symbol table of a translated crate is closed: it has a symbol for   *)
(* whatever the functions and allocations mention, of this crate or not.   *)
ReferencesResolved == phase = "done" => \A u \in Mentioned : Resolved(u)

(* The table of a translated crate is complete: it defines every function  *)
(* of the crate, and of the types only the foreign ones stay incomplete,   *)
(* although a type may be met again while its fields are codegenned.       *)
TableComplete ==
    phase = "done" =>
        /\ \A f \in ItemFns : Defined(f)
        /\ \A n \in DOMAIN symbol_table :
              symbol_table[n] = "incomplete" => n.sort = "type" /\ n.id \in prog.foreign

Listed == {proof_harnesses[i] : i \in DOMAIN proof_harnesses}

(* rmc-metadata lists every proof harness once, although a function may be *)
(* in several codegen units, and lists none that has no body of its own.   *)
HarnessesExact ==
    phase = "done" =>
        /\ Listed = (ItemFns \cap prog.proof) \ prog.skip
        /\ \A i, j \in DOMAIN proof_harnesses :
              proof_harnesses[i] = proof_harnesses[j] => i = j

(* Every static of a translated crate has an initializer, or an immutable  *)
(* allocation of the same content does that codegen_allocation returned    *)
(* in its place.                                                           *)
StaticsSharedOrInitialised ==
    phase = "done" =>
        \A s \in ItemStatics :
            \/ Contains(symbol_table, Derived(Name("static", s), "init"))
            \/ prog.init[s] \in DOMAIN alloc_map \ prog.mutable

(* codegen_alloc_in_memory says it makes a constructor for a static        *)
(* whether it was in the table or not.                                     *)
StaticsInitialised ==
    phase = "done" =>
        \A s \in ItemStatics : Contains(symbol_table, Derived(Name("static", s), "init"))

(* The recursive calls come to an end, recursive types included.           *)
Termination == <>~Working
=============================================================================
