---------------------------- MODULE SymbolTable ----------------------------
(***************************************************************************)
(* The CBMC symbol table RMC builds: a map from names to symbols, with     *)
(* four ways to change it.  Each change is an operator from tables to      *)
(* tables, and each assertion of the code a predicate that must hold first.*)
(*                                                                         *)
(* Of a symbol the model keeps what decides whether a change is allowed:   *)
(*   "incomplete"  a struct or union whose components are not known yet    *)
(*   "complete"    a struct or union with its components                   *)
(*   "decl"        a function without a body                               *)
(*   "def"         a function with a body                                  *)
(*   "var"         a variable                                              *)
(***************************************************************************)

SymbolKinds == {"incomplete", "complete", "decl", "def", "var"}

Contains(symtab, n) == n \in DOMAIN symtab

(* The table with n mapped to k, whatever it held before.                  *)
With(symtab, n, k) ==
    [m \in DOMAIN symtab \cup {n} |-> IF m = n THEN k ELSE symtab[m]]

(* insert asserts that the name is free.                                   *)
CanInsert(symtab, n) == ~Contains(symtab, n)

insert(symtab, n, k) == With(symtab, n, k)

(* ensure inserts a symbol unless the name is taken, whatever it holds.    *)
ensure(symtab, n, k) == IF Contains(symtab, n) THEN symtab ELSE insert(symtab, n, k)

(* replace_with_completion asserts that the old symbol is incomplete.      *)
CanComplete(symtab, n) == Contains(symtab, n) /\ symtab[n] = "incomplete"

replace_with_completion(symtab, n) == With(symtab, n, "complete")

(* update_fn_declaration_with_definition asserts a body is missing.        *)
CanDefine(symtab, n) == Contains(symtab, n) /\ symtab[n] = "decl"

update_fn_declaration_with_definition(symtab, n) == With(symtab, n, "def")
=============================================================================
