----------------------------- MODULE MCGotoBody -----------------------------
(***************************************************************************)
(* Bodies for GotoBody: every combination of a prologue, two blocks with   *)
(* one statement each taken from pools that hold every kind of statement   *)
(* and terminator, a returning block and a cleanup block.  Block 3 can     *)
(* jump back to block 2.                                                   *)
(***************************************************************************)
EXTENDS GotoBody

\* The cells: the returned value, an argument, a local with storage
\* statements, a pointer, and enums with four layouts.
a == 2
d == 3
p == 4
direct == 5
niche == 6
option == 7
only == 8

MCCells == 1 .. 8
MCDynamic == {d}
MCInts == {0, 1}

Tag == 4
Wide == 8
Base == [tag |-> Tag, signed |-> FALSE, discr |-> Wide, pointer |-> FALSE,
         dataful |-> 0, first |-> 0, last |-> 0, niche_start |-> 0, kind |-> "single",
         vals |-> [v \in {0} |-> 5]]

\* Discriminants -1 and 1 in a signed tag; a niche that wraps around zero;
\* Option<&T>; an enum of one variant.
MCLayout ==
  [c \in {direct, niche, option, only} |->
     CASE c = direct -> [Base EXCEPT !.kind = "direct", !.signed = TRUE,
                                     !.vals = [v \in 0 .. 1 |-> IF v = 0 THEN Wide - 1 ELSE 1]]
       [] c = niche  -> [Base EXCEPT !.kind = "niche", !.dataful = 1, !.first = 0, !.last = 2,
                                     !.niche_start = 3, !.vals = [v \in 0 .. 2 |-> v]]
       [] c = option -> [Base EXCEPT !.kind = "niche", !.pointer = TRUE, !.dataful = 1,
                                     !.vals = [v \in 0 .. 1 |-> v]]
       [] c = only   -> Base]

MCCallee(v) == IF v = 0 THEN 1 ELSE 0

Stmts ==
  {[k |-> "use", dst |-> 1, src |-> a], [k |-> "use", dst |-> a, src |-> d],
   [k |-> "mistyped", dst |-> 1, src |-> a],
   [k |-> "const", dst |-> a, val |-> 1],
   [k |-> "ref", dst |-> option, of |-> a],
   [k |-> "discr", dst |-> a, of |-> direct], [k |-> "discr", dst |-> a, of |-> niche],
   [k |-> "discr", dst |-> a, of |-> option], [k |-> "discr", dst |-> 1, of |-> only],
   [k |-> "setdisc", of |-> direct, variant |-> 0],
   [k |-> "setdisc", of |-> niche, variant |-> 1],
   [k |-> "setdisc", of |-> niche, variant |-> 2],
   [k |-> "setdisc", of |-> option, variant |-> 0],
   [k |-> "setdisc", of |-> only, variant |-> 0],
   [k |-> "live", of |-> d], [k |-> "dead", of |-> d],
   [k |-> "copy", dst |-> p, src |-> option, count |-> a],
   [k |-> "zst"], [k |-> "asm"]}

Terms(to, other) ==
  {[k |-> "goto", to |-> to], [k |-> "return"], [k |-> "unreachable"], [k |-> "abort"],
   [k |-> "asm"], [k |-> "panic"], [k |-> "uninhabited"],
   [k |-> "switch", on |-> a, vals |-> <<0, 1>>, to |-> <<to, other>>, otherwise |-> 4],
   [k |-> "switch", on |-> a, vals |-> <<7>>, to |-> <<to>>, otherwise |-> other],
   [k |-> "drop", of |-> a, glue |-> "none", to |-> to],
   [k |-> "drop", of |-> a, glue |-> "fn", to |-> to],
   [k |-> "drop", of |-> a, glue |-> "untyped", to |-> to],
   [k |-> "assert", on |-> a, expected |-> 0, to |-> to],
   [k |-> "assume", on |-> a, to |-> to],
   [k |-> "expect_fail", on |-> a, to |-> to],
   [k |-> "any_raw", dst |-> a, to |-> to], [k |-> "any_raw", dst |-> 0, to |-> to],
   [k |-> "replace", dst |-> 1, ptr |-> p, src |-> a, to |-> to],
   [k |-> "swap", x |-> p, y |-> option, to |-> to],
   [k |-> "read", dst |-> 1, ptr |-> p, to |-> to],
   [k |-> "write", ptr |-> p, src |-> a, to |-> to],
   [k |-> "fn", dst |-> 1, src |-> a, to |-> to],
   [k |-> "virtual", dst |-> 1, vtable |-> option, src |-> a, to |-> to],
   [k |-> "empty_glue", to |-> to]}

\* p points to the argument, or to the local d, live and initialised or dead.
Prologues ==
  {<<[k |-> "ref", dst |-> p, of |-> a]>>,
   <<[k |-> "live", of |-> d], [k |-> "const", dst |-> d, val |-> 1],
     [k |-> "ref", dst |-> p, of |-> d]>>,
   <<[k |-> "live", of |-> d], [k |-> "ref", dst |-> p, of |-> d], [k |-> "dead", of |-> d]>>}

\* The second block reads what the first one left and may jump back to it.
Second(stmts) ==
  {[stmts |-> <<s>>, term |-> t] :
     s \in stmts,
     t \in {[k |-> "goto", to |-> 2],
            [k |-> "switch", on |-> a, vals |-> <<0>>, to |-> <<2>>, otherwise |-> 4],
            [k |-> "read", dst |-> 1, ptr |-> p, to |-> 4]}}
  \cup {[stmts |-> <<>>, term |-> t] :
     t \in {[k |-> "assert", on |-> a, expected |-> 1, to |-> 2], [k |-> "never"]}}

UseArg == {[k |-> "use", dst |-> 1, src |-> a]}
Discrs == {[k |-> "discr", dst |-> a, of |-> c] : c \in {direct, niche, option}}

Body(prologue, first, second) ==
  <<[stmts |-> prologue, term |-> [k |-> "goto", to |-> 2]], first, second,
    [stmts |-> <<>>, term |-> [k |-> "return"]],
    [stmts |-> <<>>, term |-> [k |-> "resume"]]>>

\* Every statement before a block that reads the enums; every terminator
\* after each of a few statements.
MCBodies ==
  {Body(s, [stmts |-> <<x, [k |-> "nop"]>>, term |-> [k |-> "goto", to |-> 3]], b) :
     s \in Prologues, x \in Stmts, b \in Second(Discrs)}
  \cup
  {Body(s, [stmts |-> x, term |-> t], b) :
     s \in Prologues, t \in Terms(3, 4) \cup Terms(4, 3), b \in Second(UseArg),
     x \in {<<>>, <<[k |-> "discr", dst |-> a, of |-> niche]>>}}
  \cup
  {<<[stmts |-> s, term |-> t]>> : s \in Prologues, t \in {[k |-> "abort"], [k |-> "uninhabited"]}}

MCInputs ==
  {[c \in {a, direct, niche, option, only} |->
      CASE c = a -> x[1] [] c = direct -> 1 [] c = niche -> x[2]
        [] c = option -> IF x[1] = 0 THEN 0 ELSE 1002
        [] c = only -> 0] : x \in {<<0, 3>>, <<1, 0>>, <<0, 1>>, <<1, 2>>}}
=============================================================================
