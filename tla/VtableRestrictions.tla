------------------------- MODULE VtableRestrictions -------------------------
(***************************************************************************)
(* Function pointer restrictions for virtual calls.                        *)
(*                                                                         *)
(* While GotocCtx codegens a crate, VtableCtx collects the functions the   *)
(* vtables of the crate hold for a method of a trait, and the sites of the *)
(* virtual calls, each in a wrapper function of its own.  Every crate      *)
(* writes what it collected to a file.  rmc-link-restrictions reads the    *)
(* files, in the order the directory lists them, and gives each call site  *)
(* the functions it may call; goto-instrument removes all other ones.      *)
(*                                                                         *)
(* Crates are codegenned in parallel, each in the order of its body.       *)
(***************************************************************************)
EXTENDS Naturals, Sequences

CONSTANTS
    Crates,     \* full crate names
    Methods,    \* TraitDefinedMethod: a trait and an index in its vtable
    Fns,        \* functions
    Programs,   \* the programs to compile
    Null        \* an empty field of a vtable

(* What a field of a vtable holds: a function, the function that stands in *)
(* for a drop function without a symbol, or nothing.                       *)
Implementation(f) == [fn |-> f, unimplemented |-> FALSE]
Unimplemented(f)  == [fn |-> f, unimplemented |-> TRUE]
Symbols == [fn : Fns, unimplemented : BOOLEAN]

(* The parts of a crate that matter: fields of vtables and virtual calls.  *)
Events == [op : {"method", "drop"}, method : Methods, fn : Fns]
          \cup [op : {"call", "drop_call"}, method : Methods]

(* The events of each crate, and the functions its symbol table has.       *)
AllPrograms == [body : [Crates -> Seq(Events)], symbols : [Crates -> SUBSET Fns]]

ASSUME ProgramsAssumption == Programs \subseteq AllPrograms

ASSUME NullAssumption == Null \notin Symbols

Wrapper(c, i) == [crate |-> c, idx |-> i]
Wrappers == [crate : Crates, idx : Nat]
CallSites == [trait_method : Methods, function_name : Wrappers]

VARIABLES
    prog,
    done,                    \* how many events of a crate are codegenned
    vtable_fields,           \* what the vtables of a crate hold
    possible_methods,
    call_sites,
    call_site_global_idx,
    files,                   \* the crates that have written their file
    data_per_crate,          \* the files that were read, in order
    phase,                   \* of the linker: "read", "combine", "link", "end"
    next,                    \* the next file of the loop
    combined_possible_methods,
    output

ctxs   == <<vtable_fields, possible_methods, call_sites, call_site_global_idx>>
linker == <<data_per_crate, phase, next, combined_possible_methods, output>>
vars   == <<prog, done, ctxs, files, linker>>

Init ==
    /\ prog \in Programs
    /\ done = [c \in Crates |-> 0]
    /\ vtable_fields = [c \in Crates |-> {}]
    /\ possible_methods = [c \in Crates |-> <<>>]
    /\ call_sites = [c \in Crates |-> <<>>]
    /\ call_site_global_idx = [c \in Crates |-> 0]
    /\ files = {}
    /\ data_per_crate = <<>>
    /\ phase = "read"
    /\ next = 1
    /\ combined_possible_methods = <<>>
    /\ output = <<>>
-----------------------------------------------------------------------------
(* The codegen of a crate.                                                 *)
Event(c) == prog.body[c][done[c] + 1]

Codegen(c, op) ==
    /\ done[c] < Len(prog.body[c]) /\ Event(c).op = op
    /\ done' = [done EXCEPT ![c] = @ + 1]
    /\ UNCHANGED <<prog, files, linker>>

add_possible_method(c, m, imp) ==
    possible_methods' = [possible_methods EXCEPT ![c] =
        [k \in DOMAIN @ \cup {m} |->
            IF k # m THEN @[k] ELSE IF k \in DOMAIN @ THEN Append(@[k], imp) ELSE <<imp>>]]

SetField(c, m, target) ==
    vtable_fields' = [vtable_fields EXCEPT ![c] = @ \cup {[method |-> m, target |-> target]}]

(* A mutant: a method without a symbol counts as possible.                 *)
MethodFieldAnyway(c) ==
    LET e == Event(c)
    IN  /\ Codegen(c, "method")
        /\ SetField(c, e.method, IF e.fn \in prog.symbols[c] THEN Implementation(e.fn) ELSE Null)
        /\ add_possible_method(c, e.method, Implementation(e.fn))
        /\ UNCHANGED <<call_sites, call_site_global_idx>>

(* A method or a drop function that has a symbol is put into the vtable    *)
(* and is possible; a method that has none leaves the field empty, and for *)
(* a drop function that has none another function takes its place.         *)
codegen_vtable_method_field(c) ==
    LET e == Event(c)
    IN  /\ Codegen(c, "method")
        /\ \/ /\ e.fn \in prog.symbols[c]
              /\ SetField(c, e.method, Implementation(e.fn))
              /\ add_possible_method(c, e.method, Implementation(e.fn))
           \/ /\ e.fn \notin prog.symbols[c]
              /\ SetField(c, e.method, Null)
              /\ UNCHANGED possible_methods
        /\ UNCHANGED <<call_sites, call_site_global_idx>>

codegen_vtable_drop_in_place(c) ==
    LET e == Event(c)
    IN  /\ Codegen(c, "drop")
        /\ \/ /\ e.fn \in prog.symbols[c]
              /\ SetField(c, e.method, Implementation(e.fn))
              /\ add_possible_method(c, e.method, Implementation(e.fn))
           \/ /\ e.fn \notin prog.symbols[c]
              /\ SetField(c, e.method, Unimplemented(e.fn))
              /\ UNCHANGED possible_methods
        /\ UNCHANGED <<call_sites, call_site_global_idx>>

(* A mutant: the index of the wrappers is not advanced.                    *)
CallWithOldIndex(c, m) ==
    /\ call_sites' = [call_sites EXCEPT ![c] =
          Append(@, [trait_method |-> m, function_name |-> Wrapper(c, call_site_global_idx[c])])]
    /\ UNCHANGED <<vtable_fields, possible_methods, call_site_global_idx>>

(* A virtual call is wrapped in a new function: the call of a method, and  *)
(* the drop of an object behind a trait.                                   *)
virtual_call_with_restricted_fn_ptr(c, m) ==
    /\ call_site_global_idx' = [call_site_global_idx EXCEPT ![c] = @ + 1]
    /\ call_sites' = [call_sites EXCEPT ![c] =
          Append(@, [trait_method |-> m, function_name |-> Wrapper(c, call_site_global_idx'[c])])]
    /\ UNCHANGED <<vtable_fields, possible_methods>>

codegen_virtual_funcall(c) ==
    Codegen(c, "call") /\ virtual_call_with_restricted_fn_ptr(c, Event(c).method)

codegen_drop(c) ==
    Codegen(c, "drop_call") /\ virtual_call_with_restricted_fn_ptr(c, Event(c).method)

(* codegen_crate writes the file of the crate when all is codegenned.      *)
get_virtual_function_restrictions(c) ==
    /\ done[c] = Len(prog.body[c]) /\ c \notin files
    /\ files' = files \cup {c}
    /\ UNCHANGED <<prog, done, ctxs, linker>>
-----------------------------------------------------------------------------
(* rmc-link-restrictions, which runs when all crates are compiled.         *)
Read(c) == \E i \in DOMAIN data_per_crate : data_per_crate[i] = c

ReadFile(c) ==
    /\ phase = "read" /\ files = Crates /\ ~Read(c)
    /\ data_per_crate' = Append(data_per_crate, c)
    /\ UNCHANGED <<prog, done, ctxs, files, phase, next, combined_possible_methods, output>>

EndRead ==
    /\ phase = "read" /\ \A c \in Crates : Read(c)
    /\ phase' = "combine"
    /\ UNCHANGED <<prog, done, ctxs, files, data_per_crate, next, combined_possible_methods,
                   output>>

(* A mutant: a crate replaces all that was combined before it.             *)
CombineOnlyLast ==
    /\ phase = "combine" /\ next \in DOMAIN data_per_crate
    /\ combined_possible_methods' = possible_methods[data_per_crate[next]]
    /\ next' = next + 1
    /\ UNCHANGED <<prog, done, ctxs, files, data_per_crate, phase, output>>

(* The first loop inserts the entries of a crate into one map, ...         *)
CombineCrate ==
    LET entries == possible_methods[data_per_crate[next]]
    IN  /\ phase = "combine" /\ next \in DOMAIN data_per_crate
        /\ combined_possible_methods' =
              [m \in DOMAIN combined_possible_methods \cup DOMAIN entries |->
                  IF m \in DOMAIN entries THEN entries[m] ELSE combined_possible_methods[m]]
        /\ next' = next + 1
        /\ UNCHANGED <<prog, done, ctxs, files, data_per_crate, phase, output>>

EndCombine ==
    /\ phase = "combine" /\ next \notin DOMAIN data_per_crate
    /\ phase' = "link" /\ next' = 1
    /\ UNCHANGED <<prog, done, ctxs, files, data_per_crate, combined_possible_methods, output>>

(* ... the second looks up the call sites of a crate, and a site that is   *)
(* met again replaces the one before.                                      *)
Possibilities(m) ==
    IF m \in DOMAIN combined_possible_methods THEN combined_possible_methods[m] ELSE <<>>

LastSite(sites, w) ==
    CHOOSE i \in DOMAIN sites :
        /\ sites[i].function_name = w
        /\ \A j \in DOMAIN sites : sites[j].function_name = w => j <= i

LinkCrate ==
    LET sites == call_sites[data_per_crate[next]]
        names == {sites[i].function_name : i \in DOMAIN sites}
    IN  /\ phase = "link" /\ next \in DOMAIN data_per_crate
        /\ output' = [w \in DOMAIN output \cup names |->
                          IF w \in names
                          THEN Possibilities(sites[LastSite(sites, w)].trait_method)
                          ELSE output[w]]
        /\ next' = next + 1
        /\ UNCHANGED <<prog, done, ctxs, files, data_per_crate, phase,
                       combined_possible_methods>>

EndLink ==
    /\ phase = "link" /\ next \notin DOMAIN data_per_crate
    /\ phase' = "end"
    /\ UNCHANGED <<prog, done, ctxs, files, data_per_crate, next, combined_possible_methods,
                   output>>

(* The restrictions are written.                                           *)
Stopped == phase = "end" /\ UNCHANGED vars

Next ==
    \/ \E c \in Crates :
          \/ codegen_vtable_method_field(c) \/ codegen_vtable_drop_in_place(c)
          \/ codegen_virtual_funcall(c) \/ codegen_drop(c)
          \/ get_virtual_function_restrictions(c) \/ ReadFile(c)
    \/ EndRead \/ CombineCrate \/ EndCombine \/ LinkCrate \/ EndLink
    \/ Stopped

Spec == Init /\ [][Next]_vars
-----------------------------------------------------------------------------
Sites == UNION { {call_sites[c][i] : i \in DOMAIN call_sites[c]} : c \in Crates }

(* What the vtables of crate c hold for a method.                          *)
Held(c, m) == {field.target : field \in {x \in vtable_fields[c] : x.method = m}}

MayCall(site) == {output[site.function_name][i] : i \in DOMAIN output[site.function_name]}

(* The contexts of the crates and the maps of the linker are typed.        *)
TypeOK ==
    /\ prog \in AllPrograms
    /\ done \in [Crates -> Nat]
    /\ vtable_fields \in [Crates -> SUBSET [method : Methods, target : Symbols \cup {Null}]]
    /\ DOMAIN possible_methods = Crates
    /\ \A c \in Crates :
          /\ DOMAIN possible_methods[c] \subseteq Methods
          /\ \A m \in DOMAIN possible_methods[c] : possible_methods[c][m] \in Seq(Symbols)
    /\ call_sites \in [Crates -> Seq(CallSites)]
    /\ call_site_global_idx \in [Crates -> Nat]
    /\ files \subseteq Crates
    /\ data_per_crate \in Seq(Crates)
    /\ phase \in {"read", "combine", "link", "end"}
    /\ next \in Nat \ {0}
    /\ DOMAIN combined_possible_methods \subseteq Methods
    /\ \A m \in DOMAIN combined_possible_methods : combined_possible_methods[m] \in Seq(Symbols)
    /\ DOMAIN output \subseteq Wrappers
    /\ \A w \in DOMAIN output : output[w] \in Seq(Symbols)

(* link_function_pointer_restrictions restricts exactly the virtual calls  *)
(* of the program: no site is missed, and none shares a wrapper with       *)
(* another one.                                                            *)
EverySiteLinked ==
    phase = "end" =>
        /\ DOMAIN output = {s.function_name : s \in Sites}
        /\ \A c \in Crates : \A i, j \in DOMAIN call_sites[c] :
              call_sites[c][i].function_name = call_sites[c][j].function_name => i = j

(* The restrictions are precise: a call site may only call a function that *)
(* some vtable of the program holds for the very method it calls.          *)
Precise ==
    phase = "end" =>
        \A s \in Sites : \A t \in MayCall(s) : \E c \in Crates : t \in Held(c, s.trait_method)

(* What a vtable of crate c holds for m, but for stand-ins.                *)
Implementations(c, m) == {t \in Held(c, m) : t # Null /\ ~t.unimplemented}

(* A virtual call may at least reach all the implementations of one crate  *)
(* that implements its method, whichever crate calls: the restrictions of  *)
(* a method that only one crate implements are sound.                      *)
SoundForSomeImplementer ==
    phase = "end" =>
        \A s \in Sites :
            \/ \A c \in Crates : Implementations(c, s.trait_method) = {}
            \/ \E c \in Crates : /\ Implementations(c, s.trait_method) # {}
                                /\ Implementations(c, s.trait_method) \subseteq MayCall(s)

(* The linker says it combines the possible methods of the crates, and     *)
(* VtableCtx that a call site gets all of the possible implementations.    *)
Sound ==
    phase = "end" =>
        \A s \in Sites : \A c \in Crates : Implementations(c, s.trait_method) \subseteq MayCall(s)

=============================================================================
