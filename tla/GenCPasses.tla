----------------------------- MODULE GenCPasses -----------------------------
(***************************************************************************)
(* The symbol table passes that run before NameTransformer: the identity,  *)
(* ExprTransformer, which removes what C does not have (extern symbols,    *)
(* implications, vector indexing, 128-bit constants) and wraps main, and   *)
(* NondetTransformer, which turns nondeterministic values into calls.      *)
(*                                                                         *)
(* Each pass builds a new table in the two sweeps of                       *)
(* transform_symbol_table and then in postprocess.  A step is one round of *)
(* a loop.  The iteration order of a table is the order in which its names *)
(* were interned and that of empty_statics and nondet_types is arbitrary,  *)
(* so a loop takes its elements in any order.                              *)
(***************************************************************************)
EXTENDS Integers, Sequences, FiniteSets, GenCTerms

CONSTANTS
    Programs,       \* the tables codegen leaves: sets of symbols
    PassLists,      \* the passes to make
    Defaults,       \* the symbols SymbolTable::new puts in every table
    Names, Types,
    Void,           \* Type::Empty
    WideTypes,      \* the types of more than 64 bits
    Half,           \* 2^64
    main, main_, ret,
    int,            \* the C type of what main returns
    NonDet(_),      \* "non_det_" and the identifier of a type
    Ret(_),         \* the same with "_ret"
    Dummy(_)        \* "__" and the identifier of a type

VARIABLES
    program,        \* the table the passes started from
    passes,         \* the passes still to make, the first one being made
    table,          \* the table this pass reads
    sweep,          \* "types", "rest", "post", then "done" or "panic"
    pending,        \* the symbols this sweep has not reached
    new_symbol_table,
    added,
    empty_statics,  \* the extern statics, with their types
    nondet_types,   \* the types some nondet was made of
    main_body       \* the body of the new main

vars == <<program, passes, table, sweep, pending, new_symbol_table, added,
          empty_statics, nondet_types, main_body>>

NamesOf(t) == {s.name : s \in t}
Lookup(t, n) == CHOOSE s \in t : s.name = n

pass == Head(passes)

StartPass(t) ==
    /\ table' = t
    /\ sweep' = "types"
    /\ pending' = t
    /\ new_symbol_table' = Defaults
    /\ added' = NamesOf(Defaults)
    /\ empty_statics' = {}
    /\ nondet_types' = {}
    /\ main_body' = <<>>

Init ==
    /\ program \in Programs
    /\ passes \in PassLists
    /\ table = program
    /\ sweep = "types"
    /\ pending = program
    /\ new_symbol_table = Defaults
    /\ added = NamesOf(Defaults)
    /\ empty_statics = {}
    /\ nondet_types = {}
    /\ main_body = <<>>
-----------------------------------------------------------------------------
(* A mutant: the low half keeps every bit.                                 *)
HalvesUnmasked(num) == <<(num \div Half) % Half, num>>

(* The two 64-bit halves of a 128-bit constant, in two's complement.       *)
Halves(num) == <<(num \div Half) % Half, num % Half>>

bignum_to_expr(e) ==
    IF e.typ \in WideTypes THEN [e EXCEPT !.op = "halves", !.num = Halves(e.num[1])]
    ELSE e

(* ExprTransformer on one node: a ==> b is !a | b, v[i] is (&v)[i].        *)
ExprNode(e) ==
    CASE e.op = "implies"      -> [e EXCEPT !.op = "or_not"]
      [] e.op = "index_vector" -> [e EXCEPT !.op = "index_pointer"]
      [] e.op = "int"          -> bignum_to_expr(e)
      [] OTHER                 -> e

(* NondetTransformer on one node.                                          *)
NondetNode(e) ==
    IF e.op = "nondet" THEN SymbolExpr(NonDet(e.typ), e.typ) ELSE e

(* A pass on one node.                                                     *)
Node(e) ==
    CASE pass = "identity" -> e
      [] pass = "expr"     -> ExprNode(e)
      [] pass = "nondet"   -> NondetNode(e)

(* A mutant: the values of padding are replaced like the others.           *)
LeftAloneNothing(e, i) == FALSE

(* NondetTransformer does not look at the values of padding.               *)
LeftAlone(e, i) ==
    /\ pass = "nondet" /\ e.op = "struct"
    /\ Lookup(new_symbol_table, e.name).fields[i]

(* transform_expr: a node and its operands.                                *)
transform_expr(e) ==
    Node([e EXCEPT !.args = [i \in DOMAIN e.args |->
            IF LeftAlone(e, i) THEN e.args[i] ELSE Node(e.args[i])]])

transform_value(value) == [i \in DOMAIN value |-> transform_expr(value[i])]

(* A mutant: only the nondets outside structs are recorded.                *)
NondetsOutside(value) ==
    {value[i].typ : i \in {j \in DOMAIN value : value[j].op = "nondet"}}

(* The types transform_expr_nondet meets in a value.                       *)
NondetsIn(value) ==
    {value[i].typ : i \in {j \in DOMAIN value : value[j].op = "nondet"}}
      \cup UNION {{value[i].args[k].typ : k \in {j \in DOMAIN value[i].args :
                      value[i].args[j].op = "nondet" /\ ~LeftAlone(value[i], j)}}
                    : i \in DOMAIN value}

(* Every struct built in a value has its type in the new table, or a       *)
(* lookup of its fields fails.                                             *)
FieldsKnown(value) ==
    \A i \in DOMAIN value :
        value[i].op = "struct" => value[i].name \in NamesOf(new_symbol_table)
-----------------------------------------------------------------------------
ExternFunction(s) == s.extern /\ s.kind = "code"
ExternStatic(s) == s.extern /\ s.kind = "object"

(* The symbols add_parameter_identifier puts in the new table for the      *)
(* parameters of s that have no identifier.                                *)
NewParameters(s) ==
    LET dummies == {s.params[i].typ : i \in {j \in DOMAIN s.params :
                                               s.params[j].name = Unnamed}}
    IN  {NewSymbol(Dummy(t), Dummy(t), "object", FALSE, t, <<>>, <<>>, FALSE, <<>>) :
            t \in {u \in dummies : Dummy(u) \notin NamesOf(new_symbol_table)}}

Ensured(s) ==
    IF pass = "expr" /\ ExternFunction(s)
    THEN new_symbol_table \cup NewParameters(s) ELSE new_symbol_table

(* A parameter without an identifier becomes the symbol found under the    *)
(* name made from its type.                                                *)
NamedParameters(s) ==
    [i \in DOMAIN s.params |->
        IF s.params[i].name = Unnamed
        THEN LET found == Lookup(Ensured(s), Dummy(s.params[i].typ))
             IN  [name |-> found.name, typ |-> found.typ]
        ELSE s.params[i]]

ExternBody(s) == IF s.typ = Void THEN <<>> ELSE <<Nondet(s.typ)>>

(* ExprTransformer::transform_symbol.                                      *)
ExprSymbol(s) ==
    CASE ExternFunction(s) -> [s EXCEPT !.extern = FALSE, !.defined = TRUE,
                                        !.params = NamedParameters(s),
                                        !.value = ExternBody(s)]
      [] ExternStatic(s)   -> [s EXCEPT !.extern = FALSE]
      [] ~s.extern /\ s.name = main ->
            [s EXCEPT !.name = main_, !.base = main_,
                      !.value = transform_value(s.value)]
      [] OTHER             -> [s EXCEPT !.value = transform_value(s.value)]

transform_symbol(s) ==
    IF pass = "expr" THEN ExprSymbol(s)
    ELSE [s EXCEPT !.value = transform_value(s.value)]

(* What transform_symbol leaves in the transformer and in its new table.   *)
SideEffects(s) ==
    /\ empty_statics' =
          IF pass = "expr" /\ ExternStatic(s)
          THEN empty_statics \cup {<<s.name, s.typ>>} ELSE empty_statics
    /\ nondet_types' =
          IF pass = "nondet" THEN nondet_types \cup NondetsIn(s.value) ELSE nondet_types

Panic ==
    /\ sweep' = "panic"
    /\ UNCHANGED <<program, passes, table, pending, new_symbol_table, added,
                   empty_statics, nondet_types, main_body>>

(* Transform s and insert the result.                                      *)
Move(s) ==
    /\ new_symbol_table' = Ensured(s) \cup {transform_symbol(s)}
    /\ added' = IF sweep = "types" THEN added \cup {s.name} ELSE added
    /\ pending' = pending \ {s}
    /\ SideEffects(s)
    /\ UNCHANGED <<program, passes, table, sweep, main_body>>

(* An assertion or a lookup fails instead.                                 *)
Refused(s) ==
    FieldsKnown(s.value) => transform_symbol(s).name \in NamesOf(Ensured(s))

Place(s) == IF Refused(s) THEN Panic ELSE Move(s)

Skip(s) ==
    /\ pending' = pending \ {s}
    /\ UNCHANGED <<program, passes, table, sweep, new_symbol_table, added,
                   empty_statics, nondet_types, main_body>>

(* A mutant: the first sweep also takes the symbols with a value.          *)
WantedWithValues(s) == s.name \notin NamesOf(new_symbol_table)

Wanted(s) == s.name \notin NamesOf(new_symbol_table) /\ ~s.defined

VisitType(s) ==
    /\ sweep = "types" /\ s \in pending
    /\ \/ ~Wanted(s) /\ Skip(s)
       \/ Wanted(s) /\ Place(s)

VisitRest(s) ==
    /\ sweep = "rest" /\ s \in pending
    /\ \/ s.name \in added /\ Skip(s)
       \/ s.name \notin added /\ s.defined /\ Place(s)
       \/ s.name \notin added /\ ~s.defined /\ Panic

EndSweep ==
    /\ sweep \in {"types", "rest"} /\ pending = {}
    /\ sweep' = IF sweep = "types" THEN "rest" ELSE "post"
    /\ pending' = IF sweep = "types" THEN table ELSE {}
    /\ UNCHANGED <<program, passes, table, new_symbol_table, added,
                   empty_statics, nondet_types, main_body>>
-----------------------------------------------------------------------------
(* A mutant: an extern static is declared and not initialised.             *)
InitStaticForgotten(x) ==
    /\ sweep = "post" /\ pass = "expr" /\ x \in empty_statics
    /\ empty_statics' = empty_statics \ {x}
    /\ UNCHANGED <<program, passes, table, sweep, pending, new_symbol_table,
                   added, nondet_types, main_body>>

(* ExprTransformer::postprocess: main gives each extern static a value.    *)
InitStatic(x) ==
    /\ sweep = "post" /\ pass = "expr" /\ x \in empty_statics
    /\ main_body' = Append(main_body, Assign(x[1], Nondet(x[2])))
    /\ empty_statics' = empty_statics \ {x}
    /\ UNCHANGED <<program, passes, table, sweep, pending, new_symbol_table,
                   added, nondet_types>>

CallMain_ ==
    IF main_ \in NamesOf(new_symbol_table)
    THEN <<SymbolExpr(main_, Lookup(new_symbol_table, main_).typ)>>
    ELSE <<>>

(* The pass ends: the next one reads the table it has built.               *)
EndPass(t) ==
    /\ passes' = Tail(passes)
    /\ IF Tail(passes) = <<>>
       THEN /\ table' = t
            /\ sweep' = "done"
            /\ UNCHANGED <<pending, new_symbol_table, added, empty_statics,
                           nondet_types, main_body>>
       ELSE StartPass(t)
    /\ UNCHANGED program

(* The new main: it initialises, calls main_ if there is one and returns 0.*)
InsertMain ==
    /\ sweep = "post" /\ pass = "expr" /\ empty_statics = {}
    /\ IF main \in NamesOf(new_symbol_table)
       THEN Panic
       ELSE EndPass(new_symbol_table \cup
                {NewSymbol(main, main, "code", FALSE, int, <<>>, <<>>, TRUE,
                     main_body \o CallMain_ \o
                       <<E("int", Unnamed, int, <<0>>, <<>>)>>)})

(* A mutant: the variable does not enter the table.                        *)
InsertNondetNoVariable(t) ==
    /\ sweep = "post" /\ pass = "nondet" /\ t \in nondet_types
    /\ IF t = Void \/ {NonDet(t), Ret(t)} \cap NamesOf(new_symbol_table) # {}
       THEN Panic
       ELSE /\ nondet_types' = nondet_types \ {t}
            /\ new_symbol_table' = new_symbol_table \cup
                  {NewSymbol(NonDet(t), NonDet(t), "code", FALSE, t, <<>>, <<>>, TRUE,
                             <<SymbolExpr(Ret(t), t)>>)}
            /\ UNCHANGED <<program, passes, table, sweep, pending, added,
                           empty_statics, main_body>>

(* NondetTransformer::postprocess: a variable and the function that        *)
(* returns it, for one type of nondet_types.                               *)
InsertNondet(t) ==
    /\ sweep = "post" /\ pass = "nondet" /\ t \in nondet_types
    /\ IF t = Void \/ {NonDet(t), Ret(t)} \cap NamesOf(new_symbol_table) # {}
       THEN Panic
       ELSE /\ nondet_types' = nondet_types \ {t}
            /\ new_symbol_table' = new_symbol_table \cup
                  {NewSymbol(Ret(t), ret, "object", FALSE, t, <<>>, <<>>, FALSE, <<>>),
                   NewSymbol(NonDet(t), NonDet(t), "code", FALSE, t, <<>>, <<>>, TRUE,
                       <<SymbolExpr(Ret(t), t)>>)}
            /\ UNCHANGED <<program, passes, table, sweep, pending, added,
                           empty_statics, main_body>>

EndPost ==
    /\ sweep = "post" /\ pass # "expr" /\ nondet_types = {}
    /\ EndPass(new_symbol_table)

Next ==
    \/ \E s \in pending : VisitType(s) \/ VisitRest(s)
    \/ EndSweep
    \/ \E x \in empty_statics : InitStatic(x)
    \/ InsertMain
    \/ \E t \in nondet_types : InsertNondet(t)
    \/ EndPost

Spec == Init /\ [][Next]_vars
-----------------------------------------------------------------------------
(* The symbols of a table.                                                 *)
Expr == [op : STRING, name : Names \cup {Unnamed}, typ : Types,
         num : Seq(Int), args : Seq([op : STRING, name : Names \cup {Unnamed},
         typ : Types, num : Seq(Int), args : {<<>>}])]

Symbol == [name : Names, base : Names, kind : {"type", "code", "object"},
           extern : BOOLEAN, typ : Types, defined : BOOLEAN,
           params : Seq([name : Names \cup {Unnamed}, typ : Types]),
           fields : Seq(BOOLEAN), value : Seq(Expr)]

Own == table \ Defaults

(* Is operand i of e padding?                                              *)
IsPadding(e, i) == e.op = "struct" /\ Lookup(table, e.name).fields[i]

CNode(e) ==
    /\ e.op \notin {"implies", "index_vector", "nondet"}
    /\ e.op = "int" => e.typ \notin WideTypes

(* What the passes are for: no symbol is extern, every parameter of a      *)
(* function with a body is named, and nothing is left that C does not      *)
(* have, also in the bodies the passes themselves have written.  Only the  *)
(* values of padding are still nondet, so that dump-c ignores them.        *)
OnlyC ==
    sweep = "done" => \A s \in Own :
        /\ ~s.extern
        /\ s.defined => \A i \in DOMAIN s.params : s.params[i].name # Unnamed
        /\ \A i \in DOMAIN s.value :
              /\ CNode(s.value[i])
              /\ \A k \in DOMAIN s.value[i].args :
                    IF IsPadding(s.value[i], k) THEN s.value[i].args[k].op = "nondet"
                    ELSE CNode(s.value[i].args[k])

Refers(e) == e.op \in {"symbol", "assign", "struct"}

(* Every name used in a body is in the table, with the type it is used at: *)
(* for each nondet replaced there is a function of its type, and the new   *)
(* main finds the statics and main_.  A use of main in the program itself  *)
(* is now a use of the new main, which returns an int.                     *)
Resolved ==
    sweep = "done" => \A s \in table : \A i \in DOMAIN s.value :
        \A e \in {s.value[i]} \cup {s.value[i].args[k] : k \in DOMAIN s.value[i].args} :
            Refers(e) => /\ e.name \in NamesOf(table)
                         /\ e.name # main => Lookup(table, e.name).typ = e.typ

NewName(s) == IF s.name = main /\ ~s.extern THEN main_ ELSE s.name

(* The integer an expression stands for, modulo the width of its type.     *)
Number(e) ==
    CASE e.num = <<>>        -> 0
      [] Len(e.num) = 1      -> e.num[1] % (Half * Half)
      [] OTHER               -> e.num[1] * Half + e.num[2]

(* b stands for what a stood for.                                          *)
Same(a, b) ==
    /\ a.typ = b.typ /\ Number(a) = Number(b)
    /\ IF a.op = "nondet" THEN b \in {a, SymbolExpr(NonDet(a.typ), a.typ)}
       ELSE a.name = b.name

(* A body that codegen wrote is kept expression by expression: the halves  *)
(* of a 128-bit constant make up the constant, negative or not, and a      *)
(* nondet is replaced by a call of the function of its type.               *)
BodiesKept ==
    sweep = "done" => \A s \in program \ Defaults : s.defined =>
        LET new == Lookup(table, NewName(s)).value
        IN  /\ DOMAIN new = DOMAIN s.value
            /\ \A i \in DOMAIN new :
                  /\ Same(s.value[i], new[i])
                  /\ DOMAIN new[i].args = DOMAIN s.value[i].args
                  /\ \A k \in DOMAIN new[i].args :
                        Same(s.value[i].args[k], new[i].args[k])

(* Every extern static of the program is a static of the new one that main *)
(* gives a nondeterministic value before it calls main_.                   *)
StaticsInitialised ==
    sweep = "done" => \A s \in program \ Defaults : ExternStatic(s) =>
        LET body == Lookup(table, main).value
        IN  \E i \in DOMAIN body :
                /\ body[i] = Assign(s.name, SymbolExpr(NonDet(s.typ), s.typ))
                /\ \A j \in DOMAIN body : body[j].name = main_ => i < j

Dummies ==
    {Dummy(p.typ) : p \in UNION {{s.params[i] : i \in {j \in DOMAIN s.params :
        s.params[j].name = Unnamed}} : s \in {r \in program \ Defaults : ExternFunction(r)}}}

(* No symbol is lost, and the passes add the new main, the parameters and  *)
(* a function and a variable for each type of nondet they have replaced;   *)
(* no two symbols of the new table have one name.                          *)
NothingLost ==
    sweep = "done" =>
        LET called == {t \in Types : \E s \in table : s.name = NonDet(t) /\ s.kind = "code"}
        IN  /\ \A r, s \in table : r.name = s.name => r = s
            /\ NamesOf(table) = {NewName(s) : s \in program} \cup {main} \cup Dummies
                   \cup {NonDet(t) : t \in called} \cup {Ret(t) : t \in called}

(* The types the program asks nondets of, or the passes will for it.       *)
NondetTypes ==
    LET written(s) == UNION {{s.value[i]} \cup {s.value[i].args[k] :
                                k \in DOMAIN s.value[i].args} : i \in DOMAIN s.value}
    IN  UNION {{e.typ : e \in {d \in written(s) : d.op = "nondet"}} : s \in program}
          \cup ({s.typ : s \in {r \in program \ Defaults : r.extern}} \ {Void})

(* A name the passes introduce is one of the program's, or two of them are *)
(* the same: main_ beside main, a parameter's or nondet's name, or types   *)
(* X and X_ret.                                                            *)
Clash ==
    LET own == NamesOf(program)
    IN  \/ {main, main_} \subseteq own
        \/ Dummies \cap own # {}
        \/ \E t \in NondetTypes : {NonDet(t), Ret(t)} \cap own # {}
        \/ \E s, t \in NondetTypes : Ret(s) = NonDet(t)

(* The passes panic only on such a clash: in particular a struct's type is *)
(* in the new table before a body that builds the struct is transformed,   *)
(* no symbol reaches the second sweep without a value, and no nondet of    *)
(* type void is asked for.                                                 *)
PanicsOnlyOnClash == sweep = "panic" => Clash

=============================================================================
