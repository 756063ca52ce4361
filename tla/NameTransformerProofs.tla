----------------------- MODULE NameTransformerProofs -----------------------
(***************************************************************************)
(* For every table, every candidate function and every numbering of        *)
(* candidates: the renaming is functional and injective, the two sweeps    *)
(* keep every symbol, and they panic only on a clash.                      *)
(***************************************************************************)
EXTENDS NameTransformer, FiniteSetTheorems, SequenceTheorems, TLAPS

(* The symbols of the original table that are in the new one.              *)
Inserted ==
    {i \in DOMAIN symtab :
        /\ symtab[i].name \notin Builtins
        /\ \/ symtab[i].name \in added
           \/ sweep = "rest" /\ i < next
           \/ sweep = "done"}

(* The symbols the first sweep has passed.                                 *)
Passed == {i \in DOMAIN symtab : sweep = "types" => i < next}

(* The renaming never hands out the name of a default symbol.              *)
BuiltinsKept ==
    /\ Builtins \subseteq added
    /\ \A n \in DOMAIN mapped_names \ Builtins : mapped_names[n] \notin Builtins

(* The new table is the default symbols and the renamed inserted ones.     *)
TableExact ==
    sweep # "panic" =>
        /\ \A i \in Inserted : symtab[i].name \in DOMAIN mapped_names
        /\ new_symbol_table =
             Builtins \cup {mapped_names[symtab[i].name] : i \in Inserted}

(* The first sweep records only symbols it has passed.                     *)
AddedPassed ==
    \A n \in added \ Builtins : \E i \in Passed : symtab[i].name = n

(* A symbol without a value that the first sweep passed and did not add    *)
(* clashes with another one.                                               *)
SkippedClash ==
    \A j \in Passed :
        sweep # "panic" /\ ~symtab[j].value /\ symtab[j].name \notin added =>
            \E i \in DOMAIN symtab : Clash(i, j)

(* A symbol being transformed is a new one, and its name is mapped or      *)
(* still to be mapped.                                                     *)
BusyFresh ==
    Sweeping /\ busy =>
        /\ next \in DOMAIN symtab
        /\ symtab[next].name \notin added
        /\ \/ symtab[next].name \in DOMAIN mapped_names
           \/ \E k \in DOMAIN todo : todo[k] = symtab[next].name

IInv ==
    /\ TypeOK
    /\ symtab \in Symtabs
    /\ Injective
    /\ BuiltinsKept
    /\ TableExact
    /\ AddedPassed
    /\ SkippedClash
    /\ BusyFresh
    /\ PanicOnlyOnClash
    /\ Complete
-----------------------------------------------------------------------------
(* The uniqueness loop always finds a free suffix: there are more suffixes *)
(* than names, and two names have never been given the same C name.        *)
LEMMA FreeSuffixExists ==
    ASSUME TypeOK, Injective, NEW n \in Names
    PROVE  FreeSuffixes(Candidate(n)) # {}
<1> DEFINE c == Candidate(n)
           Owner(j) == CHOOSE m \in DOMAIN mapped_names :
                          mapped_names[m] = Numbered(c, j)
           g == [j \in 0 .. MaxSuffix |-> Owner(j)]
<1>1. SUFFICES ASSUME \A j \in 0 .. MaxSuffix : Numbered(c, j) \in used_names
               PROVE  FALSE
  BY DEF FreeSuffixes
<1>2. ASSUME NEW j \in 0 .. MaxSuffix
      PROVE  Owner(j) \in DOMAIN mapped_names
             /\ mapped_names[Owner(j)] = Numbered(c, j)
  <2>1. PICK m \in DOMAIN mapped_names : mapped_names[m] = Numbered(c, j)
    BY <1>1, <1>2 DEF Injective
  <2> QED BY <2>1
<1>3. g \in [0 .. MaxSuffix -> Names]
  BY <1>2 DEF TypeOK
<1>4. /\ IsFiniteSet(0 .. MaxSuffix)
      /\ Cardinality(0 .. MaxSuffix) = MaxSuffix + 1
  BY FS_Interval, NamesAssumption
<1>5. PICK x, y \in 0 .. MaxSuffix : x # y /\ g[x] = g[y]
  <2> HIDE DEF g
  <2>1. Cardinality(Names) < Cardinality(0 .. MaxSuffix)
    BY <1>4, NamesAssumption, FS_CardinalityType
  <2> QED BY <1>3, <1>4, <2>1, NamesAssumption, FS_PigeonHole
<1>6. Numbered(c, x) = Numbered(c, y)
  BY <1>2, <1>5
<1> QED BY <1>5, <1>6, NumberingAssumption

(* A fresh name is an identifier, is not in use, and belongs to no default *)
(* symbol.                                                                 *)
LEMMA FreshNameIsFresh ==
    ASSUME TypeOK, Injective, NEW n \in Names
    PROVE  /\ FreshName(n) \in Ids
           /\ FreshName(n) \notin used_names
           /\ n \notin Builtins => FreshName(n) \notin Builtins
<1>1. CASE Candidate(n) \notin used_names
  BY <1>1, NumberingAssumption, BuiltinsAssumption DEF FreshName
<1>2. CASE Candidate(n) \in used_names
  <2> DEFINE F == FreeSuffixes(Candidate(n))
  <2>1. F # {} /\ F \subseteq Nat
    BY FreeSuffixExists, NamesAssumption DEF FreeSuffixes
  <2>2. \E j \in F : \A k \in F : j =< k
    <3> HIDE DEF F
    <3> DEFINE less == {p \in Nat \X Nat : p[1] < p[2]}
    <3>1. IsWellFoundedOn(less, Nat)
      BY NatLessThanWellFounded DEF OpToRel
    <3>2. PICK j \in F : \A k \in F : <<k, j>> \notin less
      <4> HIDE DEF less
      <4> QED BY <2>1, <3>1, WFMin
    <3>3. ASSUME NEW k \in F
          PROVE  j =< k
      <4>1. j \in Nat /\ k \in Nat
        BY <2>1
      <4>2. ~(k < j)
        BY <3>2, <4>1
      <4> QED BY <4>1, <4>2
    <3> QED BY <3>3
  <2>3. FirstFree(Candidate(n)) \in F
    BY <2>2 DEF FirstFree
  <2> QED BY <1>2, <2>3, NumberingAssumption, BuiltinsAssumption
          DEF FreshName, FreeSuffixes
<1> QED BY <1>1, <1>2

(* A symbol of a table has a name and a sequence of identifiers.           *)
LEMMA SymbolsTyped ==
    ASSUME IInv, NEW i \in DOMAIN symtab
    PROVE  /\ symtab[i].name \in Names
           /\ symtab[i].refs \o <<symtab[i].name, symtab[i].base>> \in Seq(Names)
           /\ \E k \in DOMAIN (symtab[i].refs \o <<symtab[i].name, symtab[i].base>>) :
                 (symtab[i].refs \o <<symtab[i].name, symtab[i].base>>)[k]
                    = symtab[i].name
<1>1. symtab[i] \in Symbol
  BY SymtabsAssumption, ElementOfSeq DEF IInv
<1>2. /\ symtab[i].name \in Names /\ symtab[i].base \in Names
      /\ symtab[i].refs \in Seq(Names)
  BY <1>1 DEF Symbol
<1> DEFINE r == symtab[i].refs
           t == <<symtab[i].name, symtab[i].base>>
<1>3. t \in Seq(Names) /\ Len(t) = 2 /\ t[1] = symtab[i].name
  BY <1>2
<1> HIDE DEF r, t
<1>4. r \in Seq(Names)
  BY <1>2 DEF r
<1>5. r \o t \in Seq(Names)
  BY <1>3, <1>4
<1>6. Len(r) + 1 \in DOMAIN (r \o t) /\ (r \o t)[Len(r) + 1] = t[1]
  <2>1. /\ Len(r \o t) = Len(r) + 2
        /\ DOMAIN (r \o t) = 1 .. Len(r \o t)
        /\ Len(r) \in Nat
    <3>1. Len(r \o t) = Len(r) + Len(t)
      BY <1>3, <1>4, ConcatProperties
    <3>2. DOMAIN (r \o t) = 1 .. Len(r \o t)
      BY <1>5, LenProperties
    <3>3. Len(r) \in Nat
      BY <1>4, LenProperties
    <3> QED BY <1>3, <3>1, <3>2, <3>3
  <2>2. \A k \in 1 .. Len(r) + 2 :
           (r \o t)[k] = IF k =< Len(r) THEN r[k] ELSE t[k - Len(r)]
    BY <1>3, <1>4, <2>1, ConcatProperties
  <2> QED BY <2>1, <2>2
<1> QED BY <1>2, <1>3, <1>5, <1>6 DEF r, t

(* normalize_identifier extends the map, and keeps it injective.           *)
LEMMA NormalizeExtends ==
    ASSUME IInv, Normalize
    PROVE  /\ TypeOK'
           /\ Injective'
           /\ DOMAIN mapped_names \cup {Head(todo)} = DOMAIN mapped_names'
           /\ \A m \in DOMAIN mapped_names : mapped_names'[m] = mapped_names[m]
           /\ \A m \in DOMAIN mapped_names' \ Builtins :
                 mapped_names'[m] \notin Builtins
<1> DEFINE n == Head(todo)
<1>1. n \in Names /\ Tail(todo) \in Seq(Names)
  BY HeadTailProperties DEF IInv, TypeOK, Normalize
<1>2. CASE n \in DOMAIN mapped_names
  <2>1. UNCHANGED <<mapped_names, used_names>>
    BY <1>2 DEF Normalize
  <2> QED BY <1>1, <1>2, <2>1 DEF IInv, TypeOK, Injective, BuiltinsKept, Normalize
<1>3. CASE n \notin DOMAIN mapped_names
  <2> DEFINE c == FreshName(n)
  <2>1. /\ used_names' = used_names \cup {c}
        /\ mapped_names' = [m \in DOMAIN mapped_names \cup {n} |->
                              IF m = n THEN c ELSE mapped_names[m]]
    BY <1>3 DEF Normalize
  <2>2. c \in Ids /\ c \notin used_names /\ (n \notin Builtins => c \notin Builtins)
    BY <1>1, FreshNameIsFresh DEF IInv
  <2> HIDE DEF c, n
  <2>3. /\ DOMAIN mapped_names' = DOMAIN mapped_names \cup {n}
        /\ mapped_names'[n] = c
        /\ \A m \in DOMAIN mapped_names : mapped_names'[m] = mapped_names[m]
    BY <1>3, <2>1
  <2>4. TypeOK'
    BY <1>1, <2>1, <2>2, <2>3 DEF IInv, TypeOK, Normalize, n
  <2>5. Injective'
    <3>1. \A m \in DOMAIN mapped_names : mapped_names[m] # c
      BY <2>2 DEF IInv, Injective
    <3>2. ASSUME NEW l \in DOMAIN mapped_names', NEW m \in DOMAIN mapped_names',
                 mapped_names'[l] = mapped_names'[m]
          PROVE  l = m
      BY <2>3, <3>1, <3>2 DEF IInv, Injective
    <3>3. used_names' = {mapped_names'[m] : m \in DOMAIN mapped_names'}
      BY <2>1, <2>3 DEF IInv, Injective
    <3> QED BY <3>2, <3>3 DEF Injective
  <2>6. \A m \in DOMAIN mapped_names' \ Builtins : mapped_names'[m] \notin Builtins
    BY <2>2, <2>3 DEF IInv, BuiltinsKept
  <2> QED BY <2>3, <2>4, <2>5, <2>6 DEF n
<1> QED BY <1>2, <1>3

LEMMA NormalizeKeeps ==
    ASSUME IInv, Normalize
    PROVE  IInv'
<1>1. /\ TypeOK' /\ Injective'
      /\ DOMAIN mapped_names \cup {Head(todo)} = DOMAIN mapped_names'
      /\ \A m \in DOMAIN mapped_names : mapped_names'[m] = mapped_names[m]
      /\ \A m \in DOMAIN mapped_names' \ Builtins : mapped_names'[m] \notin Builtins
  BY NormalizeExtends
<1>2. /\ Sweeping /\ busy /\ todo # <<>> /\ todo' = Tail(todo)
      /\ UNCHANGED <<symtab, sweep, next, busy, new_symbol_table, added>>
  BY DEF Normalize
<1>3. Inserted' = Inserted /\ Passed' = Passed
  BY <1>2 DEF Inserted, Passed
<1>4. BuiltinsKept'
  BY <1>1, <1>2 DEF IInv, BuiltinsKept
<1>5. TableExact'
  <2>1. \A i \in Inserted : /\ symtab[i].name \in DOMAIN mapped_names
                            /\ mapped_names'[symtab[i].name] = mapped_names[symtab[i].name]
    BY <1>1, <1>2 DEF IInv, TableExact, Sweeping
  <2>2. {mapped_names'[symtab[i].name] : i \in Inserted}
          = {mapped_names[symtab[i].name] : i \in Inserted}
    BY <2>1
  <2> QED BY <1>1, <1>2, <1>3, <2>1, <2>2 DEF IInv, TableExact
<1>6. AddedPassed'
  BY <1>2, <1>3 DEF IInv, AddedPassed
<1>7. SkippedClash'
  <2>1. ASSUME NEW i \in DOMAIN symtab, NEW j \in DOMAIN symtab, Clash(i, j)
        PROVE  Clash(i, j)'
    BY <1>1, <1>2, <2>1 DEF Clash
  <2>2. ASSUME NEW j \in Passed, ~symtab[j].value, symtab[j].name \notin added
        PROVE  \E i \in DOMAIN symtab : Clash(i, j)'
    <3>1. PICK i \in DOMAIN symtab : Clash(i, j)
      BY <1>2, <2>2 DEF IInv, SkippedClash, Sweeping
    <3> QED BY <2>1, <3>1 DEF Passed
  <2> QED BY <1>2, <1>3, <2>2 DEF SkippedClash
<1>8. BusyFresh'
  <2>1. /\ next \in DOMAIN symtab /\ symtab[next].name \notin added
        /\ \/ symtab[next].name \in DOMAIN mapped_names
           \/ \E k \in DOMAIN todo : todo[k] = symtab[next].name
    BY <1>2 DEF IInv, BusyFresh
  <2>2. ASSUME NEW k \in DOMAIN todo, todo[k] = symtab[next].name
        PROVE  \/ symtab[next].name \in DOMAIN mapped_names'
               \/ \E l \in DOMAIN todo' : todo'[l] = symtab[next].name
    <3>1. todo \in Seq(Names) /\ k \in 1 .. Len(todo)
      BY DEF IInv, TypeOK
    <3>2. CASE k = 1
      BY <1>1, <1>2, <2>2, <3>1, <3>2
    <3>3. CASE k # 1
      <4>1. k - 1 \in DOMAIN Tail(todo) /\ Tail(todo)[k - 1] = todo[k]
        BY <1>2, <3>1, <3>3
      <4> QED BY <1>2, <2>2, <4>1
    <3> QED BY <3>2, <3>3
  <2> QED BY <1>1, <1>2, <2>1, <2>2 DEF BusyFresh, Sweeping
<1>9. PanicOnlyOnClash' /\ Complete'
  BY <1>2 DEF PanicOnlyOnClash, Complete, Sweeping
<1> QED BY <1>1, <1>2, <1>4, <1>5, <1>6, <1>7, <1>8, <1>9 DEF IInv

(* A panic on a clash leaves everything but the sweep as it was.           *)
LEMMA PanicKeeps ==
    ASSUME IInv, Sweeping, Panic, \E i, j \in DOMAIN symtab : Clash(i, j)
    PROVE  IInv'
<1>1. /\ sweep' = "panic"
      /\ UNCHANGED <<symtab, next, busy, todo, mapped_names, used_names,
                     new_symbol_table, added>>
  BY DEF Panic
<1>2. TypeOK'
  BY <1>1 DEF IInv, TypeOK
<1>3. AddedPassed'
  BY <1>1 DEF IInv, AddedPassed, Passed
<1>4. PanicOnlyOnClash'
  BY <1>1 DEF PanicOnlyOnClash, Clash
<1> QED BY <1>1, <1>2, <1>3, <1>4
        DEF IInv, Injective, BuiltinsKept, TableExact, SkippedClash, BusyFresh,
            Sweeping, Complete

(* Starting to transform a symbol that is neither in the new table nor     *)
(* recorded.                                                               *)
LEMMA BeginKeeps ==
    ASSUME IInv, Sweeping, next \in DOMAIN symtab,
           symtab[next].name \notin added, Begin(symtab[next])
    PROVE  IInv'
<1>1. /\ busy' = TRUE
      /\ todo' = symtab[next].refs \o <<symtab[next].name, symtab[next].base>>
      /\ UNCHANGED <<symtab, sweep, next, mapped_names, used_names,
                     new_symbol_table, added>>
  BY DEF Begin
<1>2. Inserted' = Inserted /\ Passed' = Passed
  BY <1>1 DEF Inserted, Passed
<1>3. TypeOK'
  BY <1>1, SymbolsTyped DEF IInv, TypeOK
<1>4. BusyFresh'
  BY <1>1, SymbolsTyped DEF BusyFresh, Sweeping
<1> QED BY <1>1, <1>2, <1>3, <1>4
        DEF IInv, Injective, BuiltinsKept, TableExact, AddedPassed, SkippedClash,
            Clash, PanicOnlyOnClash, Complete

(* Passing over a symbol that the new table already has under that name,   *)
(* that has a value, or that the first sweep has recorded.                 *)
LEMMA SkipKeeps ==
    ASSUME IInv, Sweeping, ~busy, next \in DOMAIN symtab, Skip,
           \/ sweep = "types" /\ ~WantedByFirstSweep(symtab[next])
           \/ sweep = "rest" /\ symtab[next].name \in added
    PROVE  IInv'
<1>1. /\ next' = next + 1
      /\ UNCHANGED <<symtab, sweep, busy, todo, mapped_names, used_names,
                     new_symbol_table, added>>
  BY DEF Skip
<1>2. next \in Nat
  BY DEF IInv, TypeOK
<1>3. TypeOK'
  BY <1>1, <1>2 DEF IInv, TypeOK
<1>4. Inserted' = Inserted
  <2>1. DOMAIN symtab \subseteq Nat
    BY SymtabsAssumption, LenProperties DEF IInv
  <2>2. ASSUME NEW i \in DOMAIN symtab, sweep = "rest"
        PROVE  (i < next' /\ symtab[i].name \notin added)
                 <=> (i < next /\ symtab[i].name \notin added)
    BY <1>1, <1>2, <2>1, <2>2
  <2> QED BY <1>1, <2>2 DEF Inserted
<1>5. Passed \subseteq Passed' /\ Passed' \subseteq Passed \cup {next}
  <2>1. DOMAIN symtab \subseteq Nat
    BY SymtabsAssumption, LenProperties DEF IInv
  <2> QED BY <1>1, <1>2, <2>1 DEF Passed
<1>6. TableExact'
  BY <1>1, <1>4 DEF IInv, TableExact
<1>7. AddedPassed'
  BY <1>1, <1>5 DEF IInv, AddedPassed
<1>8. SkippedClash'
  <2>1. ASSUME NEW j \in Passed', ~symtab[j].value, symtab[j].name \notin added
        PROVE  \E i \in DOMAIN symtab : Clash(i, j)
    <3>1. CASE j \in Passed
      BY <2>1, <3>1 DEF IInv, SkippedClash, Sweeping
    <3>2. CASE j \notin Passed
      <4>1. j = next /\ sweep = "types"
        BY <1>5, <2>1, <3>2 DEF Passed
      <4>2. symtab[j].name \in new_symbol_table
        BY <2>1, <4>1 DEF WantedByFirstSweep
      <4>3. symtab[j].name \notin Builtins
        BY <2>1 DEF IInv, BuiltinsKept
      <4>4. PICK i \in Inserted : symtab[j].name = mapped_names[symtab[i].name]
        BY <4>2, <4>3 DEF IInv, TableExact, Sweeping
      <4>5. i \in DOMAIN symtab /\ symtab[i].name \in added
        BY <4>1 DEF Inserted
      <4>6. Clash(i, j)
        BY <2>1, <4>1, <4>4, <4>5 DEF Clash, IInv, TableExact, Sweeping
      <4> QED BY <4>5, <4>6
    <3> QED BY <3>1, <3>2
  <2> QED BY <1>1, <2>1 DEF SkippedClash, Clash
<1> QED BY <1>1, <1>3, <1>6, <1>7, <1>8
        DEF IInv, Injective, BuiltinsKept, BusyFresh, Sweeping, PanicOnlyOnClash,
            Complete

LEMMA VisitTypeKeeps ==
    ASSUME IInv, VisitType
    PROVE  IInv'
<1>1. CASE WantedByFirstSweep(symtab[next])
  <2>1. Sweeping /\ next \in DOMAIN symtab /\ Begin(symtab[next])
    BY <1>1 DEF VisitType, Sweeping
  <2>2. symtab[next].name \notin added
    <3>1. SUFFICES ASSUME symtab[next].name \in added
                   PROVE  FALSE
      OBVIOUS
    <3>2. symtab[next].name \notin Builtins
      BY <1>1, <2>1 DEF WantedByFirstSweep, IInv, TableExact, Sweeping
    <3>3. PICK i \in Passed : symtab[i].name = symtab[next].name
      BY <3>1, <3>2 DEF IInv, AddedPassed
    <3>4. i \in DOMAIN symtab /\ i < next
      BY DEF Passed, VisitType
    <3>5. i = next
      BY <2>1, <3>3, <3>4, SymtabsAssumption DEF IInv
    <3>6. next \in Nat
      BY DEF IInv, TypeOK
    <3> QED BY <3>4, <3>5, <3>6
  <2> QED BY <2>1, <2>2, BeginKeeps
<1>2. CASE ~WantedByFirstSweep(symtab[next])
  BY <1>2, SkipKeeps DEF VisitType, Sweeping
<1> QED BY <1>1, <1>2

LEMMA VisitRestKeeps ==
    ASSUME IInv, VisitRest
    PROVE  IInv'
<1>1. CASE symtab[next].name \in added /\ Skip
  BY <1>1, SkipKeeps DEF VisitRest, Sweeping
<1>2. CASE symtab[next].name \notin added /\ Begin(symtab[next])
  BY <1>2, BeginKeeps DEF VisitRest, Sweeping
<1>3. CASE symtab[next].name \notin added /\ ~symtab[next].value /\ Panic
  <2>1. next \in DOMAIN symtab /\ sweep = "rest"
    BY DEF VisitRest
  <2>2. \E i, j \in DOMAIN symtab : Clash(i, j)
    BY <1>3, <2>1 DEF IInv, SkippedClash, Passed
  <2>3. Sweeping
    BY <2>1 DEF Sweeping
  <2> QED BY <1>3, <2>2, <2>3, PanicKeeps
<1> QED BY <1>1, <1>2, <1>3 DEF VisitRest

(* insert finds the new name free: no default symbol and no other symbol   *)
(* has it.                                                                 *)
LEMMA InsertFindsFree ==
    ASSUME IInv, Insert
    PROVE  /\ next \in DOMAIN symtab
           /\ symtab[next].name \in DOMAIN mapped_names
           /\ symtab[next].name \notin added
           /\ mapped_names[symtab[next].name] \notin new_symbol_table
<1>1. Sweeping /\ busy /\ todo = <<>>
  BY DEF Insert
<1>2. /\ next \in DOMAIN symtab /\ symtab[next].name \notin added
      /\ symtab[next].name \in DOMAIN mapped_names
  BY <1>1 DEF IInv, BusyFresh
<1>3. mapped_names[symtab[next].name] \notin Builtins
  BY <1>2 DEF IInv, BuiltinsKept
<1>4. ASSUME NEW i \in Inserted,
             mapped_names[symtab[i].name] = mapped_names[symtab[next].name]
      PROVE  FALSE
  <2>1. i \in DOMAIN symtab /\ symtab[i].name \in DOMAIN mapped_names
    BY <1>1 DEF Inserted, IInv, TableExact, Sweeping
  <2>2. symtab[i].name = symtab[next].name
    BY <1>2, <1>4, <2>1 DEF IInv, Injective
  <2>3. i = next
    BY <1>2, <2>1, <2>2, SymtabsAssumption DEF IInv
  <2>4. next \in Nat
    BY DEF IInv, TypeOK
  <2> QED BY <1>1, <1>2, <2>3, <2>4 DEF Inserted, Sweeping
<1> QED BY <1>1, <1>2, <1>3, <1>4 DEF IInv, TableExact, Sweeping

LEMMA InsertKeeps ==
    ASSUME IInv, Insert
    PROVE  IInv'
<1> DEFINE n == symtab[next].name
           c == mapped_names[n]
<1>1. /\ next \in DOMAIN symtab /\ n \in DOMAIN mapped_names
      /\ n \notin added /\ c \notin new_symbol_table
  BY InsertFindsFree
<1>2. /\ new_symbol_table' = new_symbol_table \cup {c}
      /\ added' = IF sweep = "types" THEN added \cup {n} ELSE added
      /\ next' = next + 1
      /\ busy' = FALSE
      /\ UNCHANGED <<symtab, sweep, todo, mapped_names, used_names>>
  BY <1>1 DEF Insert
<1>3. Sweeping
  BY DEF Insert
<1>4. n \in Names /\ n \notin Builtins /\ c \in Ids /\ next \in Nat
  BY <1>1, SymbolsTyped DEF IInv, TypeOK, BuiltinsKept
<1>5. DOMAIN symtab \subseteq Nat
  BY SymtabsAssumption, LenProperties DEF IInv
<1> HIDE DEF c
<1>6. TypeOK'
  <2> HIDE DEF n
  <2>1. next' \in Nat \ {0}
    BY <1>2, <1>4
  <2>3. busy' \in BOOLEAN
    BY <1>2, Zenon
  <2>2. new_symbol_table' \subseteq Ids /\ added' \subseteq Ids
    BY <1>2, <1>4, NamesAssumption DEF IInv, TypeOK
  <2> QED BY <1>2, <2>1, <2>2, <2>3 DEF IInv, TypeOK
<1>7. Inserted' = Inserted \cup {next}
  <2>1. ASSUME NEW i \in DOMAIN symtab, symtab[i].name = n
        PROVE  i = next
    BY <1>1, <2>1, SymtabsAssumption DEF IInv
  <2>2. CASE sweep = "types"
    BY <1>1, <1>2, <1>4, <2>1, <2>2 DEF Inserted
  <2>3. CASE sweep = "rest"
    BY <1>1, <1>2, <1>4, <1>5, <2>3 DEF Inserted
  <2> QED BY <1>3, <2>2, <2>3 DEF Sweeping
<1>8. Passed' = Passed \cup {next}
  BY <1>1, <1>2, <1>4, <1>5 DEF Passed
<1>9. TableExact'
  <2>1. {mapped_names[symtab[i].name] : i \in Inserted \cup {next}}
          = {mapped_names[symtab[i].name] : i \in Inserted} \cup {c}
    BY DEF c
  <2> QED BY <1>1, <1>2, <1>3, <1>7, <2>1 DEF IInv, TableExact, Sweeping
<1>10. AddedPassed'
  BY <1>1, <1>2, <1>8 DEF IInv, AddedPassed
<1>11. SkippedClash'
  <2>1. ASSUME NEW j \in Passed', ~symtab[j].value, symtab[j].name \notin added'
        PROVE  \E i \in DOMAIN symtab : Clash(i, j)
    <3>1. j \in Passed /\ symtab[j].name \notin added
      BY <1>2, <1>3, <1>8, <2>1 DEF Sweeping, Passed
    <3> QED BY <1>3, <2>1, <3>1 DEF IInv, SkippedClash, Sweeping
  <2> QED BY <1>2, <2>1 DEF SkippedClash, Clash
<1> QED BY <1>2, <1>3, <1>6, <1>9, <1>10, <1>11
        DEF IInv, Injective, BuiltinsKept, BusyFresh, Sweeping, PanicOnlyOnClash,
            Complete

LEMMA EndSweepKeeps ==
    ASSUME IInv, EndSweep
    PROVE  IInv'
<1>1. /\ Sweeping /\ ~busy /\ next \notin DOMAIN symtab
      /\ sweep' = IF sweep = "types" THEN "rest" ELSE "done"
      /\ next' = 1
      /\ UNCHANGED <<symtab, busy, todo, mapped_names, used_names,
                     new_symbol_table, added>>
  BY DEF EndSweep
<1>2. \A i \in DOMAIN symtab : i \in Nat /\ 1 =< i /\ i < next
  <2>1. symtab \in Seq(Symbol) /\ next \in Nat \ {0}
    BY DEF IInv, TypeOK
  <2>2. DOMAIN symtab = 1 .. Len(symtab) /\ Len(symtab) \in Nat
    BY <2>1, LenProperties
  <2> QED BY <1>1, <2>1, <2>2
<1>3. TypeOK'
  BY <1>1 DEF IInv, TypeOK, Sweeping
<1>4. Inserted' = Inserted
  BY <1>1, <1>2 DEF Inserted, Sweeping
<1>5. Passed' = Passed
  BY <1>1, <1>2 DEF Passed, Sweeping
<1>6. TableExact'
  BY <1>1, <1>4 DEF IInv, TableExact, Sweeping
<1>7. Complete'
  <2>1. ASSUME sweep' = "done"
        PROVE  Inserted = {k \in DOMAIN symtab : symtab[k].name \notin Builtins}
    BY <1>1, <1>4, <2>1 DEF Inserted
  <2> QED BY <1>1, <1>4, <1>6, <2>1 DEF Complete, TableExact
<1>8. SkippedClash'
  BY <1>1, <1>5 DEF IInv, SkippedClash, Clash, Sweeping
<1> QED BY <1>1, <1>3, <1>5, <1>6, <1>7, <1>8
        DEF IInv, Injective, BuiltinsKept, AddedPassed, BusyFresh, Sweeping,
            PanicOnlyOnClash
-----------------------------------------------------------------------------
LEMMA InitIInv == Init => IInv
<1> SUFFICES ASSUME Init PROVE IInv
  OBVIOUS
<1> USE DEF Init
<1>1. TypeOK /\ symtab \in Symtabs
  <2>1. DOMAIN mapped_names = {} /\ mapped_names \in [DOMAIN mapped_names -> Ids]
    OBVIOUS
  <2>2. symtab \in Seq(Symbol) /\ Builtins \subseteq Ids
    BY SymtabsAssumption, NamesAssumption
  <2>3. busy \in BOOLEAN /\ todo \in Seq(Names)
    BY EmptySeq, Zenon
  <2>4. /\ sweep \in {"types", "rest", "done", "panic"} /\ next \in Nat \ {0}
        /\ used_names \subseteq Ids
    OBVIOUS
  <2>5. DOMAIN mapped_names \subseteq Names
    BY <2>1
  <2> HIDE DEF Init
  <2> QED BY <2>1, <2>2, <2>3, <2>4, <2>5, Zenon DEF TypeOK, Init
<1>2. Injective
  BY DEF Injective
<1>3. Inserted = {} /\ Passed = {}
  <2>1. DOMAIN symtab = 1 .. Len(symtab) /\ Len(symtab) \in Nat
    BY <1>1, LenProperties DEF TypeOK
  <2> QED BY <2>1 DEF Inserted, Passed
<1> QED BY <1>1, <1>2, <1>3
        DEF IInv, BuiltinsKept, TableExact, AddedPassed, SkippedClash, BusyFresh,
            PanicOnlyOnClash, Complete

LEMMA NextIInv == IInv /\ [Next]_vars => IInv'
<1> SUFFICES ASSUME IInv, [Next]_vars PROVE IInv'
  OBVIOUS
<1>1. CASE Normalize
  BY <1>1, NormalizeKeeps
<1>2. CASE VisitType
  BY <1>2, VisitTypeKeeps
<1>3. CASE VisitRest
  BY <1>3, VisitRestKeeps
<1>4. CASE Insert
  BY <1>4, InsertKeeps
<1>5. CASE EndSweep
  BY <1>5, EndSweepKeeps
<1>6. CASE UNCHANGED vars
  <2>1. TypeOK' /\ symtab' \in Symtabs /\ Injective' /\ BuiltinsKept'
    BY <1>6 DEF vars, IInv, TypeOK, Injective, BuiltinsKept
  <2>2. TableExact' /\ AddedPassed'
    BY <1>6 DEF vars, IInv, TableExact, Inserted, AddedPassed, Passed, Sweeping
  <2>3. SkippedClash' /\ BusyFresh'
    BY <1>6 DEF vars, IInv, SkippedClash, BusyFresh, Inserted, Passed, Sweeping, Clash
  <2>4. PanicOnlyOnClash' /\ Complete'
    BY <1>6 DEF vars, IInv, PanicOnlyOnClash, Complete, Sweeping, Clash
  <2> QED BY <2>1, <2>2, <2>3, <2>4 DEF IInv
<1> QED BY <1>1, <1>2, <1>3, <1>4, <1>5, <1>6 DEF Next, Stopped

(* The two sweeps keep the inductive invariant.                            *)
THEOREM Invariance == Spec => []IInv
  BY InitIInv, NextIInv, PTL DEF Spec

(* normalize_identifier maps distinct Rust names to distinct C names, for  *)
(* every candidate function and every table.                               *)
THEOREM RenamingInjective == Spec => []Injective
<1>1. IInv => Injective
  BY DEF IInv
<1> QED BY <1>1, Invariance, PTL

(* The assertions of transform_symbol_table and of insert fail only when   *)
(* the new name of a symbol is the original name of another.               *)
THEOREM SweepsPanicOnlyOnClash == Spec => []PanicOnlyOnClash
<1>1. IInv => PanicOnlyOnClash
  BY DEF IInv
<1> QED BY <1>1, Invariance, PTL

(* Two sweeps that end have moved every symbol into the new table.         *)
THEOREM SweepsComplete == Spec => []Complete
<1>1. IInv => Complete
  BY DEF IInv
<1> QED BY <1>1, Invariance, PTL

(* normalize_identifier gives a Rust name the same C name for ever.        *)
THEOREM RenamingFunctional == Spec => Functional
<1> DEFINE Kept == \A n \in DOMAIN mapped_names :
                      n \in DOMAIN mapped_names' /\ mapped_names'[n] = mapped_names[n]
<1>1. IInv /\ [Next]_vars => [Kept]_vars
  <2> SUFFICES ASSUME IInv, [Next]_vars PROVE Kept
    OBVIOUS
  <2>1. CASE Normalize
    BY <2>1, NormalizeExtends
  <2>2. CASE UNCHANGED mapped_names
    BY <2>2
  <2> QED BY <2>1, <2>2
          DEF Next, vars, VisitType, VisitRest, Insert, EndSweep, Stopped, Begin,
              Skip, Panic
<1> QED BY <1>1, Invariance, PTL DEF Spec, Functional
=============================================================================
