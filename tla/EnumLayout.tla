----------------------------- MODULE EnumLayout -----------------------------
(***************************************************************************)
(* How the variant of a Rust enum is kept in memory, written and read.     *)
(*                                                                         *)
(* codegen_set_discriminant and codegen_get_discriminant are the code RMC  *)
(* generates (codegen/statement.rs, codegen/rvalue.rs).  They are compared *)
(* with write_discriminant and read_discriminant of rustc's own MIR        *)
(* interpreter (interpret/place.rs, interpret/operand.rs), which defines   *)
(* what the MIR means.                                                     *)
(*                                                                         *)
(* A layout l is a record:                                                 *)
(*   kind         "single", "direct" or "niche" (Variants, TagEncoding)    *)
(*   tag, signed  the tag's type: its number of values and its signedness  *)
(*   discr        the number of values of the discriminant's type          *)
(*   vals         the discriminant (as unsigned bits) of each variant      *)
(*   pointer      whether the tag is a pointer (Primitive::Pointer)        *)
(*   dataful, first, last, niche_start   the fields of TagEncoding::Niche  *)
(* A single-variant enum has vals for that one variant.  Machine integers  *)
(* are their bits, read as a natural number.                               *)
(***************************************************************************)
EXTENDS Integers

CONSTANT U64    \* number of values of a 64 bit integer (2^64 in the code)

ASSUME U64Assumption == U64 \in Nat \ {0}

Variants(l) == DOMAIN l.vals

WrapSub(a, b, n) == IF a >= b THEN a - b ELSE a + n - b

WrapAdd(a, b, n) == IF a + b < n THEN a + b ELSE a + b - n

(* The cast of tag bits b to a type of n values: sign extension for a      *)
(* signed tag type, zero extension otherwise.                              *)
CastTag(l, b, n) == IF l.signed /\ 2 * b >= l.tag THEN b + n - l.tag ELSE b

(* Tag bits that some value of the enum can have in memory.                *)
ValidTag(l, t) ==
  CASE l.kind = "single" -> TRUE
    [] l.kind = "direct" -> \E v \in Variants(l) : l.vals[v] = CastTag(l, t, l.discr)
    [] l.kind = "niche"  -> l.pointer /\ t # 0 => l.niche_start = 0 /\ l.first = l.last

-----------------------------------------------------------------------------
(* StatementKind::SetDiscriminant: the tag after variant v was set where   *)
(* the tag was t.  An integer constant wider than its type keeps its low   *)
(* bits.                                                                   *)
codegen_set_discriminant(l, v, t) ==
  CASE l.kind = "single" -> t
    [] l.kind = "direct" -> l.vals[v] % l.tag
    [] l.kind = "niche"  -> IF v = l.dataful THEN t
                            ELSE WrapAdd(v - l.first, l.niche_start, l.tag)

(* relative_discr and is_niche of codegen_get_discriminant.                *)
RelativeDiscr(l, t) ==
  IF l.niche_start = 0 THEN t ELSE WrapSub(t, l.niche_start, l.tag)

IsNiche(l, t) ==
  IF l.pointer THEN RelativeDiscr(l, t) = 0
  ELSE CastTag(l, RelativeDiscr(l, t), U64) <= l.last - l.first

codegen_get_discriminant(l, t) ==
  CASE l.kind = "single" -> l.vals[CHOOSE v \in Variants(l) : TRUE]
    [] l.kind = "direct" -> CastTag(l, t, l.discr)
    [] l.kind = "niche"  ->
         IF ~IsNiche(l, t) THEN l.dataful
         ELSE WrapAdd(IF l.first = l.last THEN 0
                      ELSE CastTag(l, RelativeDiscr(l, t), l.discr),
                      l.first, l.discr)

-----------------------------------------------------------------------------
write_discriminant(l, v, t) ==
  CASE l.kind = "single" -> t
    [] l.kind = "direct" -> l.vals[v] % l.tag
    [] l.kind = "niche"  -> IF v = l.dataful THEN t
                            ELSE WrapAdd(v - l.first, l.niche_start, l.tag)

(* The discriminant read from a valid tag.  The relative index is compared *)
(* as the unsigned bits of the tag.                                        *)
read_discriminant(l, t) ==
  CASE l.kind = "single" -> l.vals[CHOOSE v \in Variants(l) : TRUE]
    [] l.kind = "direct" -> CastTag(l, t, l.discr)
    [] l.kind = "niche"  ->
         LET relative == WrapSub(t, l.niche_start, l.tag)
         IN IF l.pointer /\ t # 0 THEN l.dataful
            ELSE IF relative <= l.last - l.first THEN l.first + relative
            ELSE l.dataful
=============================================================================
