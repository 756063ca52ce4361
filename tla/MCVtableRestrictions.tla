------------------------ MODULE MCVtableRestrictions ------------------------
(***************************************************************************)
(* Programs of two crates for VtableRestrictions: a library that may       *)
(* implement and call a method, and a binary that may too.                 *)
(***************************************************************************)
EXTENDS VtableRestrictions

CONSTANTS lib, bin,          \* crates
          speak, drop,       \* methods of a trait
          cat, dog, cow      \* functions

MCCrates  == {lib, bin}
MCMethods == {speak, drop}
MCFns     == {cat, dog, cow}

Method(f)  == [op |-> "method", method |-> speak, fn |-> f]
Drop(f)    == [op |-> "drop", method |-> drop, fn |-> f]
VCall(m)   == [op |-> IF m = drop THEN "drop_call" ELSE "call", method |-> m]

Bodies(f) == { <<>>,
               <<VCall(speak), VCall(drop)>>,
               <<Method(f), VCall(speak), Drop(f)>>,
               <<Drop(f), VCall(drop), VCall(speak), Method(cow), Method(f)>> }

(* Every function but the missing ones has a symbol where it is used.      *)
ProgramsWith(missing) ==
    { [body |-> [c \in MCCrates |-> IF c = lib THEN l ELSE b],
       symbols |-> [c \in MCCrates |-> MCFns \ missing]]
      : l \in Bodies(cat), b \in Bodies(dog) }

MCPrograms   == ProgramsWith({}) \cup ProgramsWith({cow})
                \cup ProgramsWith({dog}) \cup ProgramsWith({cat})
AllHaveSymbols == ProgramsWith({})
=============================================================================
