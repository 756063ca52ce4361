-------------------------- MODULE NameTransformer --------------------------
(***************************************************************************)
(* NameTransformer: the last of the gen-c passes, which rebuilds a symbol  *)
(* table with every identifier replaced by a valid C identifier.           *)
(*                                                                         *)
(* The spec follows Transformer::transform_symbol_table, which makes two   *)
(* sweeps over the original table (first the symbols without a value, then *)
(* the others), and NameTransformer::transform_symbol, which normalises    *)
(* the identifiers of one symbol one by one.  One step of Normalize is one *)
(* call of normalize_identifier.                                           *)
(***************************************************************************)
EXTENDS Integers, Sequences, FiniteSets

CONSTANTS
    Names,          \* the identifiers of the original table
    Ids,            \* every identifier, original or new
    Builtins,       \* the names SymbolTable::new puts in every table
    Symtabs,        \* the original tables, in the order of their iterators
    MaxSuffix,      \* the largest suffix the uniqueness loop may try
    Candidate(_),   \* the C name proposed for a name
    Numbered(_, _)  \* a C name with a numeric suffix

(* A symbol: its name, whether it has a value, the identifiers met in its  *)
(* type and value in the order of the traversal, and its base name.        *)
Symbol == [name : Names, value : BOOLEAN, refs : Seq(Names), base : Names]

ASSUME NamesAssumption ==
    /\ IsFiniteSet(Names)
    /\ Names \subseteq Ids
    /\ Builtins \subseteq Ids
    /\ MaxSuffix \in Nat
    /\ Cardinality(Names) =< MaxSuffix

(* Numbering keeps a candidate an identifier and tells the suffixes apart. *)
ASSUME NumberingAssumption ==
    \A n \in Names :
        /\ Candidate(n) \in Ids
        /\ \A j \in 0 .. MaxSuffix : Numbered(Candidate(n), j) \in Ids
        /\ \A j, k \in 0 .. MaxSuffix :
              Numbered(Candidate(n), j) = Numbered(Candidate(n), k) => j = k

(* No other name is turned into the name of a default symbol.              *)
ASSUME BuiltinsAssumption ==
    \A n \in Names \ Builtins :
        /\ Candidate(n) \notin Builtins
        /\ \A j \in 0 .. MaxSuffix : Numbered(Candidate(n), j) \notin Builtins

(* The keys of a table are distinct, so are its symbols' names.            *)
ASSUME SymtabsAssumption ==
    \A t \in Symtabs :
        /\ t \in Seq(Symbol)
        /\ \A i, j \in DOMAIN t : t[i].name = t[j].name => i = j

VARIABLES
    symtab,             \* the original table
    sweep,              \* "types", "rest", then "done" or "panic"
    next,               \* the symbol the sweep has reached
    busy,               \* is that symbol being transformed?
    todo,               \* the identifiers of it still to normalise
    mapped_names,
    used_names,
    new_symbol_table,   \* the names in the new table
    added

vars == <<symtab, sweep, next, busy, todo, mapped_names, used_names,
          new_symbol_table, added>>

Sweeping == sweep \in {"types", "rest"}

Init ==
    /\ symtab \in Symtabs
    /\ sweep = "types"
    /\ next = 1
    /\ busy = FALSE
    /\ todo = <<>>
    /\ mapped_names = [n \in {} |-> n]
    /\ used_names = {}
    /\ new_symbol_table = Builtins
    /\ added = Builtins
-----------------------------------------------------------------------------
(* The numbers j whose candidate c_j is free, and the first of them.       *)
FreeSuffixes(c) == {j \in 0 .. MaxSuffix : Numbered(c, j) \notin used_names}

FirstFree(c) ==
    CHOOSE j \in FreeSuffixes(c) : \A k \in FreeSuffixes(c) : j =< k

(* A mutant: the candidate is never compared with the names in use.        *)
FreshNameUnchecked(n) == Candidate(n)

(* The C name for a name met for the first time.                           *)
FreshName(n) ==
    IF Candidate(n) \in used_names
    THEN Numbered(Candidate(n), FirstFree(Candidate(n)))
    ELSE Candidate(n)

(* normalize_identifier on the next identifier of the symbol.              *)
Normalize ==
    /\ Sweeping /\ busy /\ todo # <<>>
    /\ LET n == Head(todo)
       IN  IF n \in DOMAIN mapped_names
           THEN UNCHANGED <<mapped_names, used_names>>
           ELSE /\ used_names' = used_names \cup {FreshName(n)}
                /\ mapped_names' =
                     [m \in DOMAIN mapped_names \cup {n} |->
                        IF m = n THEN FreshName(n) ELSE mapped_names[m]]
    /\ todo' = Tail(todo)
    /\ UNCHANGED <<symtab, sweep, next, busy, new_symbol_table, added>>

Begin(s) ==
    /\ busy' = TRUE
    /\ todo' = s.refs \o <<s.name, s.base>>
    /\ UNCHANGED <<symtab, sweep, next, mapped_names, used_names,
                   new_symbol_table, added>>

(* A mutant: the sweep does not move on.                                   *)
SkipStays ==
    UNCHANGED vars

Skip ==
    /\ next' = next + 1
    /\ UNCHANGED <<symtab, sweep, busy, todo, mapped_names, used_names,
                   new_symbol_table, added>>

Panic ==
    /\ sweep' = "panic"
    /\ UNCHANGED <<symtab, next, busy, todo, mapped_names, used_names,
                   new_symbol_table, added>>

(* The first sweep: the code asks the NEW table for the ORIGINAL name.     *)
WantedByFirstSweep(s) == s.name \notin new_symbol_table /\ ~s.value

VisitType ==
    /\ sweep = "types" /\ ~busy /\ next \in DOMAIN symtab
    /\ LET s == symtab[next]
       IN  IF WantedByFirstSweep(s) THEN Begin(s) ELSE Skip

VisitRest ==
    /\ sweep = "rest" /\ ~busy /\ next \in DOMAIN symtab
    /\ LET s == symtab[next]
       IN  \/ s.name \in added /\ Skip
           \/ s.name \notin added /\ s.value /\ Begin(s)
           \/ s.name \notin added /\ ~s.value /\ Panic

(* A mutant: the first sweep records the new name.                         *)
InsertAddsNewName ==
    /\ Sweeping /\ busy /\ todo = <<>>
    /\ LET m == mapped_names[symtab[next].name]
       IN  IF m \in new_symbol_table
           THEN Panic
           ELSE /\ new_symbol_table' = new_symbol_table \cup {m}
                /\ added' = IF sweep = "types" THEN added \cup {m} ELSE added
                /\ next' = next + 1
                /\ busy' = FALSE
                /\ UNCHANGED <<symtab, sweep, todo, mapped_names, used_names>>

(* insert(new_symbol): the new name must not be in the new table.  Only    *)
(* the first sweep records the original name.                              *)
Insert ==
    /\ Sweeping /\ busy /\ todo = <<>>
    /\ LET s == symtab[next]
           m == mapped_names[s.name]
       IN  IF m \in new_symbol_table
           THEN Panic
           ELSE /\ new_symbol_table' = new_symbol_table \cup {m}
                /\ added' = IF sweep = "types" THEN added \cup {s.name} ELSE added
                /\ next' = next + 1
                /\ busy' = FALSE
                /\ UNCHANGED <<symtab, sweep, todo, mapped_names, used_names>>

EndSweep ==
    /\ Sweeping /\ ~busy /\ next \notin DOMAIN symtab
    /\ sweep' = IF sweep = "types" THEN "rest" ELSE "done"
    /\ next' = 1
    /\ UNCHANGED <<symtab, busy, todo, mapped_names, used_names,
                   new_symbol_table, added>>

Stopped == ~Sweeping /\ UNCHANGED vars

Next == Normalize \/ VisitType \/ VisitRest \/ Insert \/ EndSweep \/ Stopped

(* The compiler is one sequential program: it takes a step while it can.   *)
Spec == Init /\ [][Next]_vars /\ WF_vars(Next)
-----------------------------------------------------------------------------
(* The state of the sweeps is typed: what is being renamed comes from the  *)
(* original table, and every new name is an identifier.                    *)
TypeOK ==
    /\ symtab \in Seq(Symbol)
    /\ sweep \in {"types", "rest", "done", "panic"}
    /\ next \in Nat \ {0}
    /\ busy \in BOOLEAN
    /\ todo \in Seq(Names)
    /\ DOMAIN mapped_names \subseteq Names
    /\ mapped_names \in [DOMAIN mapped_names -> Ids]
    /\ used_names \subseteq Ids
    /\ new_symbol_table \subseteq Ids
    /\ added \subseteq Ids

(* normalize_identifier is injective ("two distinct Rust names map to two  *)
(* distinct C names"), and used_names is exactly the set of names it has   *)
(* handed out, whatever candidates and numbered candidates coincide.       *)
Injective ==
    /\ \A m, n \in DOMAIN mapped_names :
          mapped_names[m] = mapped_names[n] => m = n
    /\ used_names = {mapped_names[n] : n \in DOMAIN mapped_names}

(* normalize_identifier is functional ("each Rust name always maps to the  *)
(* same C name"): what a name was mapped to in one symbol, it is mapped to *)
(* in every later one.                                                     *)
Functional ==
    [][\A n \in DOMAIN mapped_names :
          n \in DOMAIN mapped_names' /\ mapped_names'[n] = mapped_names[n]]_vars

(* The two sweeps lose no symbol and invent none: when they end, the new   *)
(* table holds the default symbols and, under its new name, every symbol   *)
(* of the original one.                                                    *)
Complete ==
    sweep = "done" =>
        LET renamed == {symtab[i].name : i \in DOMAIN symtab} \ Builtins
        IN  /\ renamed \subseteq DOMAIN mapped_names
            /\ new_symbol_table = Builtins \cup {mapped_names[n] : n \in renamed}

(* The new name of one symbol is the original name of another one, which   *)
(* has no value.                                                           *)
Clash(i, j) ==
    /\ i # j
    /\ ~symtab[j].value
    /\ symtab[i].name \in DOMAIN mapped_names
    /\ mapped_names[symtab[i].name] = symtab[j].name

(* Neither the assertion of the second sweep nor the one of insert fails,  *)
(* unless two symbols clash.                                               *)
PanicOnlyOnClash ==
    sweep = "panic" => \E i, j \in DOMAIN symtab : Clash(i, j)

(* What the assertion of the second sweep says of the first one: "Symbol   *)
(* should have been inserted in first pass".                               *)
InsertedInFirstPass ==
    sweep = "rest" =>
        \A i \in DOMAIN symtab : ~symtab[i].value => symtab[i].name \in added
=============================================================================
