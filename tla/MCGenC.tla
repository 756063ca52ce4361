------------------------------- MODULE MCGenC -------------------------------
(* The gen-c passes on programs of up to MaxProgram symbols of a pool, and *)
(* NameTransformer alone on the tables of MCNameTransformer.               *)
EXTENDS GenC, MCNameTransformer

CONSTANTS MaxProgram

us == "_"

(* Types, by their identifiers.                                            *)
u8       == <<"unsigned", us, "bv", us, "8">>
u56      == <<"unsigned", us, "bv", us, "5", "6">>
u128     == <<"unsigned", us, "bv", us, "1", "2", "8">>
i128     == <<"signed", us, "bv", us, "1", "2", "8">>
void     == <<"empty">>
c_int    == <<"c", us, "int", us, "Int">>
unit     == <<"struct", us, "tag", us, "tag", "-", "Unit">>
pair     == <<"struct", us, "tag", us, "tag", "-", "Pair">>
pair_ret == pair \o <<us, "ret">>

MCTypes == {u8, u56, u128, i128, void, c_int, unit, pair, pair_ret}
MCWideTypes == {u128, i128}

MCNonDet(t) == <<"non", us, "det", us>> \o t
MCRet(t) == MCNonDet(t) \o <<us, "ret">>
MCDummy(t) == <<us, us>> \o t
MCmain == <<"main">>
MCmain_ == <<"main", us>>
MCret == <<"ret">>

cpp_memory == <<us, us, "CPROVER", us, "memory">>
gname      == <<"g">>
hname      == <<"h">>
limit      == <<"LIMIT">>
errno      == <<"errno">>
var        == <<"f", "::1::", "var", us, "1">>
Pair       == <<"Pair">>

Param(n, t) == [name |-> n, typ |-> t]

Type(n, t, fields) ==
    NewSymbol(tag(n), n, "type", FALSE, t, <<>>, fields, FALSE, <<>>)
Function(n, t, params, value) ==
    NewSymbol(n, n, "code", FALSE, t, params, <<>>, TRUE, value)
Extern(n, kind, t, params) ==
    NewSymbol(n, n, kind, TRUE, t, params, <<>>, FALSE, <<>>)

(* What SymbolTable::new inserts; one of them is extern.                   *)
MCDefaults ==
    { NewSymbol(memcpy, memcpy, "code", FALSE, void, <<Param(Unnamed, u8)>>, <<>>, FALSE, <<>>),
      Extern(cpp_memory, "object", u8, <<>>) }

(* A struct with padding; main, which builds it; a function with a         *)
(* parameter that calls an extern one; extern functions with parameters of *)
(* one type and with no result; an extern static of type Pair_ret; a       *)
(* static with 128-bit constants; a function main_ that calls main; an     *)
(* extern static with the name of a parameter's symbol.                    *)
PassPool ==
    { Type(Pair, pair, <<FALSE, TRUE>>),
      Function(MCmain, unit, <<>>,
          << E("implies", Unnamed, u8, <<>>, <<E("int", Unnamed, u128, <<6>>, <<>>)>>),
             StructExpr(tag(Pair), pair, <<Nondet(u8), Nondet(u56)>>) >>),
      NewSymbol(var, <<"var", us, "1">>, "object", FALSE, u8, <<>>, <<>>, FALSE, <<>>),
      Function(fname, u8, <<Param(var, u8)>>,
          << SymbolExpr(gname, u8), Nondet(pair),
             E("index_vector", Unnamed, u8, <<>>, <<SymbolExpr(var, u8)>>) >>),
      Extern(gname, "code", u8, <<Param(Unnamed, u8), Param(Unnamed, u8)>>),
      Extern(hname, "code", void, <<Param(Unnamed, u128)>>),
      Extern(errno, "object", pair_ret, <<>>),
      NewSymbol(limit, limit, "object", FALSE, i128, <<>>, <<>>, TRUE,
          << E("int", Unnamed, i128, <<-3>>, <<>>) >>),
      Function(MCmain_, unit, <<>>, << SymbolExpr(MCmain, unit) >>),
      Extern(MCDummy(u8), "object", u128, <<>>) }

(* The programs in which every name is declared.                           *)
Closed(t) ==
    \A s \in t : ToSet(RefsOf(s)) \subseteq {r.name : r \in t}

MCPrograms ==
    {t \in {s \cup MCDefaults : s \in UNION {kSubset(k, PassPool) : k \in 0 .. MaxProgram}} :
        Closed(t)}

MCPassLists == {<<"expr", "nondet">>, <<"identity", "expr", "nondet">>}

(* Two of the orders of a table, one the reverse of the other.             *)
MCOrders(t) ==
    LET order == FoldSet(LAMBDA s, seq : Append(seq, s), <<>>, t)
    IN  {order, Reverse(order)}

GenCNames ==
    MCNames \cup {MCmain, MCmain_, MCret, <<"var", us, "1">>, Pair}
      \cup {s.name : s \in PassPool \cup MCDefaults}
      \cup UNION {{MCNonDet(t), MCRet(t), MCDummy(t)} : t \in MCTypes}

GenCTable == [n \in GenCNames |-> CName(n)]
GenCCandidate(n) == GenCTable[n]

GenCIds == Seq(STRING)

GenCBuiltins == {s.name : s \in MCDefaults}

(* The properties of the first two passes, as their module states them.    *)

(* The table handed over has nothing in it that C does not have.           *)
OnlyC == P!OnlyC

(* The bodies codegen wrote keep their meaning.                            *)
BodiesKept == P!BodiesKept

(* main gives every extern static a value before it calls main_.           *)
StaticsInitialised == P!StaticsInitialised

(* No symbol is lost and only the intended ones are added.                 *)
NothingLost == P!NothingLost

(* The passes panic only on a clash with a name they introduce.            *)
PanicsOnlyOnClash == P!PanicsOnlyOnClash

=============================================================================
