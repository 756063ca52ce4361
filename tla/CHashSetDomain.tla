--------------------------- MODULE CHashSetDomain ---------------------------
(* The values of the HashSet stub's element type, and those a client uses. *)
EXTENDS Naturals

CONSTANTS UINT16_MAX,    \* 65535 in the code
          Inputs

ASSUME InputsAssumption ==
    UINT16_MAX \in Nat \ {0} /\ Inputs \subseteq 0 .. UINT16_MAX
=============================================================================
