------------------------- MODULE MCNameTransformer -------------------------
(* NameTransformer on tables of up to MaxSymbols symbols of a pool in      *)
(* which names collide after normalisation, with and without a number.     *)
EXTENDS NameTransformer, CIdentifier

CONSTANTS MaxSymbols

Sym(n, v, r, b) == [name |-> n, value |-> v, refs |-> r, base |-> b]

ab     == <<"a", "::", "b">>
a__b   == <<"a", "_", "_", "b">>
tag(n) == <<"tag-">> \o n
zero   == <<"0">>
us0    == <<"_", "0">>
us0_0  == <<"_", "0", "_", "0">>
fname  == <<"f">>
arg    == <<"f", "::1::", "var", "_", "1", "::", "_", "0">>
lower  == <<"lower", "case">>
lower_ == <<"lower", "case", "_">>
vecu8  == <<"vec", "<", "0", ">">>
memcpy == <<"memcpy">>

(* Two aggregates whose tags collide, the first with a tuple field; an     *)
(* argument named _0 of a function; two functions whose names collide      *)
(* because of a reserved word; a variable named as a numbered candidate;   *)
(* a symbol every table starts with.                                       *)
Pool ==
    { Sym(tag(ab), FALSE, <<zero, ab>>, ab),
      Sym(tag(a__b), FALSE, <<a__b>>, a__b),
      Sym(arg, FALSE, <<>>, us0),
      Sym(fname, TRUE, <<arg, tag(a__b)>>, fname),
      Sym(lower, TRUE, <<us0_0, vecu8>>, lower),
      Sym(lower_, TRUE, <<memcpy>>, lower_),
      Sym(memcpy, FALSE, <<>>, memcpy) }

MCNames == {s.name : s \in Pool} \cup {s.base : s \in Pool}
             \cup UNION {Range(s.refs) : s \in Pool}

(* CName on the names of the pool, tabulated.                              *)
CNameTable == [n \in MCNames |-> CName(n)]

MCCandidate(n) == CNameTable[n]

MCIds ==
    MCNames \cup Range(CNameTable) \cup
      {WithNumber(c, k) : c \in Range(CNameTable), k \in 0 .. MaxSuffix}

MCBuiltins == {memcpy}

MCSymtabs ==
    {t \in UNION {[1 .. k -> Pool] : k \in 1 .. MaxSymbols} : IsInjective(t)}

(* Every C name handed out is one C accepts, numbered or not.              *)
CNamesValid == \A c \in used_names : ValidC(c)

=============================================================================
