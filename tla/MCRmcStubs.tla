----------------------------- MODULE MCRmcStubs -----------------------------
(***************************************************************************)
(* The stubs of the standard library: a program is compiled with one Vec   *)
(* stub, chosen by --abs-type (rmc.py:244-247), or with the HashSet stub.  *)
(* The stubs share no state.  Two handles, so that vectors are appended,   *)
(* split and cloned while both have a history.                             *)
(***************************************************************************)
EXTENDS CHashSet, TLC

CONSTANTS Handles, Values, Free, Uninit, Panic, NeedsDrop, AlignOfT, AlignOfPtr,
          DEFAULT_CAPACITY, MIN_NON_ZERO_CAP, MaxCap, MaxArg, MaxIter,
          SizeMod, ElemSize, C_DEFAULT_CAPACITY, C_MAX_MALLOC_SIZE,
          NB_DEFAULT_CAPACITY, NB_MAX_MALLOC_SIZE, MaxLen, MaxYields

VARIABLES abs_type,                                            \* the stub in use
          object, io, rv_status, unused, dropped, bad_drops,   \* RmcVec
          vec, reserved, c_status,                             \* CVec
          nb_object, nb_status                                 \* NoBackVec

RV == INSTANCE RmcVec WITH status <- rv_status
CV == INSTANCE CVec WITH status <- c_status, DEFAULT_CAPACITY <- C_DEFAULT_CAPACITY,
                         MAX_MALLOC_SIZE <- C_MAX_MALLOC_SIZE
NB == INSTANCE NoBackVec WITH object <- nb_object, status <- nb_status,
                              DEFAULT_CAPACITY <- NB_DEFAULT_CAPACITY,
                              MAX_MALLOC_SIZE <- NB_MAX_MALLOC_SIZE

ASSUME StubSizesAssumption == RV!Sizes /\ CV!Sizes /\ NB!Sizes

RVVars == <<object, io, rv_status, unused, dropped, bad_drops>>
CVars == <<vec, reserved, c_status>>
NBVars == <<nb_object, nb_status>>

Symmetry == Permutations(Handles) \cup Permutations(Values)

StubsInit ==
    /\ abs_type \in {"rmc", "c-ffi", "no-back", "hashset"}
    /\ Init /\ RV!Init /\ CV!Init /\ NB!Init

StubsNext ==
    /\ UNCHANGED abs_type
    /\ \/ abs_type = "rmc" /\ RV!Next /\ UNCHANGED <<CVars, NBVars, vars>>
       \/ abs_type = "c-ffi" /\ CV!Next /\ UNCHANGED <<RVVars, NBVars, vars>>
       \/ abs_type = "no-back" /\ NB!Next /\ UNCHANGED <<RVVars, CVars, vars>>
       \/ abs_type = "hashset" /\ Next /\ UNCHANGED <<RVVars, CVars, NBVars>>

StubsSpec ==
    StubsInit /\ [][StubsNext]_<<abs_type, RVVars, CVars, NBVars, vars>>

(* The properties of the Vec stubs, as their modules state them.           *)

(* rmc_vec.rs: no access leaves a buffer.                                  *)
InBounds == RV!InBounds

(* rmc_vec.rs: contents and results are those of a sequence.               *)
BehavesAsVec == RV!BehavesAsVec

(* rmc_vec.rs: buffers never shrink by themselves and grow by doubling.    *)
GrowsExponentially == RV!GrowsExponentially

(* vec.c: vec_push and vec_append write inside the buffer.                 *)
WritesInBuffer == CV!WritesInBuffer

(* noback_vec.rs: the stub's own assertions fail only after an insert past *)
(* the capacity.                                                           *)
AssertsOnlyPastCapacity == NB!AssertsOnlyPastCapacity
=============================================================================
