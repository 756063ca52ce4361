----------------------------- MODULE GenCTerms -----------------------------
(* Symbols and the expressions of their values, as the symbol table passes *)
(* before NameTransformer see them.                                        *)

CONSTANT Unnamed    \* no identifier: of a parameter, or of an expression

(* An expression of a body: what it is, the symbol or tag it names, its    *)
(* type, the integers in it and its operands.                              *)
E(op, name, typ, num, args) ==
    [op |-> op, name |-> name, typ |-> typ, num |-> num, args |-> args]

Nondet(t) == E("nondet", Unnamed, t, <<>>, <<>>)
SymbolExpr(n, t) == E("symbol", n, t, <<>>, <<>>)
Assign(n, e) == E("assign", n, e.typ, <<>>, <<e>>)
StructExpr(tag, t, values) == E("struct", tag, t, <<>>, values)

(* A symbol.  typ is a variable's type or what a function returns, fields  *)
(* tells for each component of a struct whether it is padding, defined     *)
(* whether the symbol has a value.                                         *)
NewSymbol(n, base, kind, extern, t, params, fields, defined, value) ==
    [name |-> n, base |-> base, kind |-> kind, extern |-> extern, typ |-> t,
     params |-> params, fields |-> fields, defined |-> defined, value |-> value]
=============================================================================
