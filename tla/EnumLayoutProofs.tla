-------------------------- MODULE EnumLayoutProofs --------------------------
(***************************************************************************)
(* For every niche layout, of any widths: the generated code and the       *)
(* interpreter write the same tags, what was written is read back, and the *)
(* generated read agrees with the interpreter's as long as the tag is      *)
(* unsigned or at most half of its values are niches.                      *)
(***************************************************************************)
EXTENDS EnumLayout, TLAPS

(* What the compiler's layout computation guarantees of an integer niche:  *)
(* the variants fit into the tag next to at least one payload value.       *)
NicheLayout(l) ==
  /\ l.kind = "niche" /\ l.pointer = FALSE /\ l.signed \in BOOLEAN
  /\ l.tag \in Nat /\ l.discr \in Nat /\ l.tag <= l.discr /\ l.tag <= U64
  /\ l.first \in Nat /\ l.last \in Nat /\ l.dataful \in Nat
  /\ l.first <= l.last /\ l.last < l.discr
  /\ l.last - l.first + 1 < l.tag
  /\ l.niche_start \in 0 .. l.tag - 1
  /\ Variants(l) \subseteq Nat
  /\ \A v \in Variants(l) : v # l.dataful => l.first <= v /\ v <= l.last

(* Option<&T> and the like: the null pointer is the only niche.            *)
PointerLayout(l) ==
  /\ l.kind = "niche" /\ l.pointer = TRUE /\ l.signed \in BOOLEAN
  /\ l.tag \in Nat \ {0} /\ l.discr \in Nat
  /\ l.niche_start = 0 /\ l.first = l.last
  /\ l.first \in Nat /\ l.first < l.discr /\ l.dataful \in Nat
  /\ Variants(l) = {l.first, l.dataful}

(* The tag is read as the interpreter reads it.                            *)
FewNiches(l) == l.signed => 2 * (l.last - l.first + 1) <= l.tag

Payload(l, t) == WrapSub(t, l.niche_start, l.tag) > l.last - l.first

LEMMA WrapSubType ==
  ASSUME NEW n \in Nat, NEW a \in 0 .. n - 1, NEW b \in 0 .. n - 1
  PROVE  WrapSub(a, b, n) \in 0 .. n - 1
BY DEF WrapSub

LEMMA WrapSubAdd ==
  ASSUME NEW n \in Nat, NEW a \in 0 .. n - 1, NEW b \in 0 .. n - 1
  PROVE  /\ WrapAdd(a, b, n) \in 0 .. n - 1
         /\ WrapSub(WrapAdd(a, b, n), b, n) = a
BY DEF WrapSub, WrapAdd

LEMMA Relative ==
  ASSUME NEW l, NicheLayout(l), NEW t \in 0 .. l.tag - 1
  PROVE  RelativeDiscr(l, t) = WrapSub(t, l.niche_start, l.tag)
BY DEF RelativeDiscr, WrapSub, NicheLayout

(* The comparison after the cast to u64 is the comparison of the bits.     *)
LEMMA NicheTest ==
  ASSUME NEW l, NicheLayout(l), FewNiches(l), NEW t \in 0 .. l.tag - 1
  PROVE  IsNiche(l, t) <=> WrapSub(t, l.niche_start, l.tag) <= l.last - l.first
<1> DEFINE r == WrapSub(t, l.niche_start, l.tag)
<1>1. r \in 0 .. l.tag - 1
  BY WrapSubType DEF NicheLayout
<1>2. IsNiche(l, t) <=> CastTag(l, r, U64) <= l.last - l.first
  BY Relative DEF IsNiche, NicheLayout
<1>3. CastTag(l, r, U64) <= l.last - l.first <=> r <= l.last - l.first
  <2> HIDE DEF r
  <2> QED BY <1>1, U64Assumption DEF CastTag, NicheLayout, FewNiches
<1> QED BY <1>2, <1>3

(* codegen_get_discriminant reads what the interpreter reads from any tag  *)
(* whatsoever, if the tag is unsigned or at most half of its values are    *)
(* niches.                                                                 *)
THEOREM GetAgrees ==
  ASSUME NEW l, NicheLayout(l), FewNiches(l), NEW t \in 0 .. l.tag - 1
  PROVE  codegen_get_discriminant(l, t) = read_discriminant(l, t)
<1> DEFINE r == WrapSub(t, l.niche_start, l.tag)
<1>1. r \in 0 .. l.tag - 1
  BY WrapSubType DEF NicheLayout
<1>2. CASE r <= l.last - l.first
  <2>1. codegen_get_discriminant(l, t)
          = WrapAdd(IF l.first = l.last THEN 0 ELSE CastTag(l, r, l.discr), l.first, l.discr)
    BY <1>2, NicheTest, Relative DEF codegen_get_discriminant, NicheLayout
  <2>2. read_discriminant(l, t) = l.first + r
    BY <1>2 DEF read_discriminant, NicheLayout
  <2>3. (IF l.first = l.last THEN 0 ELSE CastTag(l, r, l.discr)) = r
    <3> HIDE DEF r
    <3> QED BY <1>1, <1>2 DEF CastTag, NicheLayout, FewNiches
  <2>4. WrapAdd(r, l.first, l.discr) = l.first + r
    <3> HIDE DEF r
    <3> QED BY <1>1, <1>2 DEF WrapAdd, NicheLayout
  <2> QED BY <2>1, <2>2, <2>3, <2>4
<1>3. CASE ~(r <= l.last - l.first)
  BY <1>3, NicheTest DEF codegen_get_discriminant, read_discriminant, NicheLayout
<1> QED BY <1>2, <1>3

(* Option<&T>: only the null pointer is read as the variant without data.  *)
THEOREM PointerGetAgrees ==
  ASSUME NEW l, PointerLayout(l), NEW t \in Nat
  PROVE  codegen_get_discriminant(l, t) = read_discriminant(l, t)
BY DEF PointerLayout, codegen_get_discriminant, read_discriminant, IsNiche,
       RelativeDiscr, WrapSub, WrapAdd

(* SetDiscriminant writes what the interpreter writes, in every layout.    *)
LEMMA SetAgrees ==
  ASSUME NEW l, NEW v, NEW t
  PROVE  codegen_set_discriminant(l, v, t) = write_discriminant(l, v, t)
BY DEF codegen_set_discriminant, write_discriminant

LEMMA WrittenTag ==
  ASSUME NEW l, NicheLayout(l), NEW v \in Variants(l), v # l.dataful, NEW t
  PROVE  /\ codegen_set_discriminant(l, v, t) \in 0 .. l.tag - 1
         /\ WrapSub(codegen_set_discriminant(l, v, t), l.niche_start, l.tag) = v - l.first
<1>1. v - l.first \in 0 .. l.tag - 1
  BY DEF NicheLayout
<1>2. codegen_set_discriminant(l, v, t) = WrapAdd(v - l.first, l.niche_start, l.tag)
  BY DEF codegen_set_discriminant, NicheLayout
<1> QED BY <1>1, <1>2, WrapSubAdd DEF NicheLayout

(* What SetDiscriminant wrote, the generated read gives back: the variant  *)
(* is not lost in its encoding.  A variant without data is read back       *)
(* whatever the tag was; the variant with data needs a payload in the tag. *)
THEOREM RoundTrip ==
  ASSUME NEW l, NicheLayout(l), FewNiches(l), NEW v \in Variants(l),
         NEW t \in 0 .. l.tag - 1, v = l.dataful => Payload(l, t)
  PROVE  codegen_get_discriminant(l, codegen_set_discriminant(l, v, t)) = v
<1>1. CASE v = l.dataful
  <2>1. codegen_set_discriminant(l, v, t) = t
    BY <1>1 DEF codegen_set_discriminant, NicheLayout
  <2>2. read_discriminant(l, t) = l.dataful
    <3>1. ~(WrapSub(t, l.niche_start, l.tag) <= l.last - l.first)
      <4>1. WrapSub(t, l.niche_start, l.tag) \in 0 .. l.tag - 1
        BY WrapSubType DEF NicheLayout
      <4> QED BY <4>1, <1>1 DEF Payload, NicheLayout
    <3> QED BY <3>1 DEF read_discriminant, NicheLayout
  <2> QED BY <1>1, <2>1, <2>2, GetAgrees
<1>2. CASE v # l.dataful
  <2> DEFINE w == codegen_set_discriminant(l, v, t)
  <2>1. w \in 0 .. l.tag - 1 /\ WrapSub(w, l.niche_start, l.tag) = v - l.first
    BY <1>2, WrittenTag
  <2>2. v \in Nat /\ l.first <= v /\ v <= l.last /\ l.first \in Nat /\ l.last \in Nat
    BY <1>2 DEF NicheLayout
  <2> HIDE DEF w
  <2>3. read_discriminant(l, w) = v
    <3>1. read_discriminant(l, w) = l.first + (v - l.first)
      BY <2>1, <2>2 DEF read_discriminant, NicheLayout
    <3> QED BY <3>1, <2>2
  <2>4. codegen_get_discriminant(l, w) = v
    BY <2>1, <2>3, GetAgrees
  <2> QED BY <2>4 DEF w
<1> QED BY <1>1, <1>2

(* Where GetAgrees ends: the cast of relative_discr to u64 extends the     *)
(* sign of a signed tag, so a niche in the upper half of the type is read  *)
(* as the variant with data although the interpreter reads another one.    *)
(* (A type with fewer bits than u64 has at most half as many values.)      *)
THEOREM SignedMisread ==
  ASSUME NEW l, NicheLayout(l), l.signed, 2 * l.tag <= U64, NEW t \in 0 .. l.tag - 1,
         l.tag <= 2 * WrapSub(t, l.niche_start, l.tag),
         WrapSub(t, l.niche_start, l.tag) <= l.last - l.first
  PROVE  /\ codegen_get_discriminant(l, t) = l.dataful
         /\ read_discriminant(l, t) = l.first + WrapSub(t, l.niche_start, l.tag)
<1> DEFINE r == WrapSub(t, l.niche_start, l.tag)
<1>1. r \in 0 .. l.tag - 1
  BY WrapSubType DEF NicheLayout
<1>2. ~IsNiche(l, t)
  <2>1. CastTag(l, r, U64) = r + U64 - l.tag
    BY <1>1 DEF CastTag, NicheLayout
  <2>2. IsNiche(l, t) <=> CastTag(l, r, U64) <= l.last - l.first
    BY Relative DEF IsNiche, NicheLayout
  <2>3. ~(r + U64 - l.tag <= l.last - l.first)
    <3> HIDE DEF r
    <3>1. 2 * r >= l.tag /\ l.last - l.first + 1 < l.tag
      BY DEF NicheLayout, r
    <3> QED BY <1>1, <3>1, U64Assumption DEF NicheLayout
  <2> QED BY <2>1, <2>2, <2>3
<1>3. codegen_get_discriminant(l, t) = l.dataful
  BY <1>2 DEF codegen_get_discriminant, NicheLayout
<1>4. read_discriminant(l, t) = l.first + r
  BY DEF read_discriminant, NicheLayout
<1> QED BY <1>3, <1>4
=============================================================================
