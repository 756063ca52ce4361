-------------------------------- MODULE GenC --------------------------------
(***************************************************************************)
(* do_passes with "gen-c": ExprTransformer, NondetTransformer and then     *)
(* NameTransformer, each on the table the one before has built ("the order *)
(* of these DOES matter").  A behaviour starts with the first pass, or     *)
(* with NameTransformer on a table of Symtabs.                             *)
(***************************************************************************)
EXTENDS NameTransformer, GenCTerms, SequencesExt

CONSTANTS
    Programs, PassLists, Defaults, Types, Void, WideTypes, Half,
    main, main_, ret, int, NonDet(_), Ret(_), Dummy(_),
    Orders(_)       \* the orders in which a table may be iterated

VARIABLES
    stage,          \* "passes", then "names"
    program, passes, table, p_sweep, pending, p_new, p_added, empty_statics,
    nondet_types, main_body

P == INSTANCE GenCPasses WITH sweep <- p_sweep, new_symbol_table <- p_new,
                              added <- p_added

(* Programs are symbol tables, in which a name occurs once.                *)
ASSUME ProgramsAssumption ==
    \A p \in Programs : p \subseteq P!Symbol /\ \A r, s \in p : r.name = s.name => r = s

PassVars == <<program, passes, table, p_sweep, pending, p_new, p_added,
              empty_statics, nondet_types, main_body>>

(* The new NameTransformer on a table.                                     *)
Fresh ==
    /\ sweep = "types" /\ next = 1 /\ busy = FALSE /\ todo = <<>>
    /\ mapped_names = [n \in {} |-> n] /\ used_names = {}
    /\ new_symbol_table = Builtins /\ added = Builtins

GenCInit ==
    \/ /\ stage = "names" /\ Init
       /\ program = {} /\ passes = <<"identity">> /\ table = {} /\ p_sweep = "types"
       /\ pending = {} /\ p_new = {} /\ p_added = {} /\ empty_statics = {}
       /\ nondet_types = {} /\ main_body = <<>>
    \/ stage = "passes" /\ P!Init /\ symtab = <<>> /\ Fresh

(* The identifiers in a symbol's type and value.                           *)
RefsOf(s) ==
    LET NamesIn(es) == [i \in DOMAIN es |-> es[i].name]
        operands == FlattenSeq([i \in DOMAIN s.value |-> NamesIn(s.value[i].args)])
    IN  SelectSeq(NamesIn(s.params) \o NamesIn(s.value) \o operands,
                  LAMBDA n : n # Unnamed)

(* The third transformer gets the table of the second.                     *)
StartNames ==
    /\ stage = "passes" /\ p_sweep = "done"
    /\ stage' = "names"
    /\ \E order \in Orders(table) :
          symtab' = [i \in DOMAIN order |->
              [name |-> order[i].name, value |-> order[i].defined,
               refs |-> RefsOf(order[i]), base |-> order[i].base]]
    /\ UNCHANGED <<PassVars, sweep, next, busy, todo, mapped_names, used_names,
                   new_symbol_table, added>>

PanicStops == p_sweep = "panic" /\ UNCHANGED <<stage, PassVars, vars>>

GenCNext ==
    \/ stage = "passes" /\ P!Next /\ UNCHANGED <<stage, vars>>
    \/ PanicStops
    \/ StartNames
    \/ stage = "names" /\ Next /\ UNCHANGED <<stage, PassVars>>

(* The compiler is one sequential program: it takes a step while it can.   *)
GenCSpec ==
    GenCInit /\ [][GenCNext]_<<stage, PassVars, vars>>
             /\ WF_<<stage, PassVars, vars>>(GenCNext)
-----------------------------------------------------------------------------
(* The C program links: whatever the passes add and rename, every name     *)
(* used in a body of the table they hand over is in that table, at the     *)
(* type it is used at, and, under its C name, in the one written out.      *)
Linked ==
    /\ P!Resolved
    /\ stage = "names" /\ sweep = "done" =>
          \A s \in table \ Defaults : \A n \in ToSet(RefsOf(s)) :
              n \in DOMAIN mapped_names /\ mapped_names[n] \in new_symbol_table

(* The passes end.                                                         *)
PassesEnd == <>(p_sweep = "panic" \/ (stage = "names" /\ sweep \in {"done", "panic"}))
=============================================================================
