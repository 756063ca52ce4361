------------------------- MODULE GotocCodegenProofs -------------------------
(***************************************************************************)
(* Proofs about the codegen of a crate, for every crate.                   *)
(*                                                                         *)
(* The order of the agenda plays no part in the argument, only the set of  *)
(* the operations that are pending.  The inductive invariant says what     *)
(* every pending operation may assume (OpOK) and what is still pending     *)
(* wherever the table is not yet as it has to be in the end.               *)
(***************************************************************************)
EXTENDS GotocCodegen, SequenceTheorems, TLAPS

Elems(s) == {s[i] : i \in DOMAIN s}

Pending == Elems(agenda)

(* The operations of the first loop.                                       *)
DeclareOps == {"declare_fn", "declare_static", "ty", "complete", "insert_decl",
               "insert_var", "reset"}

(* What holds of an operation as long as it is pending.                    *)
OpOK(o) ==
    /\ o \in Ops
    /\ phase = "declare" => o.op \in DeclareOps
    /\ o.op \in {"insert_var", "insert_decl", "insert_def"} /\ o.name.sort = "unimplemented" =>
          o.name.id \notin ItemFns
    /\ o.op = "insert_def" => o.name.sort # "fn"
    /\ o.op = "fn" => o.name.sort # "unimplemented"
    /\ o.op \in {"spread", "local"} => o.name.sort = "fn"
    /\ o.op \in {"alloc_in_memory", "alloc_global", "alloc_init"} =>
          o.name.sort \in {"static", "alloc", "global"}
    /\ o.op = "alloc_init" => Contains(symbol_table, o.name)
    /\ o.op = "codegen_fn" => o.id \in ItemFns
    /\ o.op = "finish_fn" => o.id \in ItemFns \ prog.skip

PendingOK == \A o \in Pending : OpOK(o)

(* A defined function is one of the crate, and listed if it is a harness.  *)
DefinedOK ==
    \A f \in Fns : Defined(f) =>
        /\ f \in ItemFns
        /\ f \in prog.proof \ prog.skip => f \in Listed

ListedOK ==
    /\ \A f \in Listed : Defined(f) /\ f \in prog.proof \ prog.skip
    /\ \A i, j \in DOMAIN proof_harnesses :
          proof_harnesses[i] = proof_harnesses[j] => i = j

(* A type that is incomplete is foreign or will be completed.              *)
IncompleteOK ==
    \A n \in DOMAIN symbol_table : symbol_table[n] = "incomplete" =>
        \/ n.sort = "type" /\ n.id \in prog.foreign
        \/ Insert("complete", n) \in Pending

(* The items a loop has started are dealt with or pending.                 *)
Started(f) == \E i \in DOMAIN prog.items : i < next /\ prog.items[i] = [op |-> "fn", id |-> f]

DeclaredOK ==
    /\ phase = "declare" =>
          \A f \in Fns : Started(f) =>
              \/ Contains(symbol_table, Name("fn", f))
              \/ Op("declare_fn", f, NoName) \in Pending
              \/ Insert("insert_decl", Name("fn", f)) \in Pending
    /\ phase \in {"codegen", "done"} =>
          \A f \in ItemFns : Contains(symbol_table, Name("fn", f))

CodegennedOK ==
    /\ phase = "codegen" =>
          \A f \in Fns : Started(f) =>
              \/ Defined(f)
              \/ Op("codegen_fn", f, NoName) \in Pending
              \/ Op("finish_fn", f, NoName) \in Pending
    /\ phase = "done" => agenda = <<>> /\ \A f \in ItemFns : Defined(f)

IInv ==
    /\ TypeOK
    /\ PendingOK
    /\ DefinedOK
    /\ ListedOK
    /\ IncompleteOK
    /\ DeclaredOK
    /\ CodegennedOK
    /\ AllocMapSound
    /\ DropsResolved
-----------------------------------------------------------------------------
(* The elements of sequences.                                              *)
LEMMA ElemsConcat ==
    ASSUME NEW S, NEW s \in Seq(S), NEW t \in Seq(S)
    PROVE  s \o t \in Seq(S) /\ Elems(s \o t) = Elems(s) \cup Elems(t)
<1>1. /\ s \o t \in Seq(S)
      /\ Len(s \o t) = Len(s) + Len(t)
      /\ \A i \in 1 .. Len(s) + Len(t) :
            (s \o t)[i] = IF i =< Len(s) THEN s[i] ELSE t[i - Len(s)]
  BY ConcatProperties
<1>2. /\ DOMAIN s = 1 .. Len(s) /\ Len(s) \in Nat
      /\ DOMAIN t = 1 .. Len(t) /\ Len(t) \in Nat
      /\ DOMAIN (s \o t) = 1 .. Len(s) + Len(t)
  BY <1>1, LenProperties
<1>3. Elems(s \o t) \subseteq Elems(s) \cup Elems(t)
  BY <1>1, <1>2 DEF Elems
<1>4. ASSUME NEW x \in Elems(s) PROVE x \in Elems(s \o t)
  <2>1. PICK i \in 1 .. Len(s) : x = s[i]
    BY <1>2 DEF Elems
  <2>2. i \in 1 .. Len(s) + Len(t) /\ (s \o t)[i] = s[i]
    BY <1>1, <1>2, <2>1
  <2> QED BY <1>2, <2>1, <2>2 DEF Elems
<1>5. ASSUME NEW x \in Elems(t) PROVE x \in Elems(s \o t)
  <2>1. PICK i \in 1 .. Len(t) : x = t[i]
    BY <1>2 DEF Elems
  <2>2. /\ i + Len(s) \in 1 .. Len(s) + Len(t)
        /\ (s \o t)[i + Len(s)] = t[(i + Len(s)) - Len(s)]
    BY <1>1, <1>2, <2>1
  <2>3. (i + Len(s)) - Len(s) = i
    BY <1>2, <2>1
  <2> QED BY <1>2, <2>1, <2>2, <2>3 DEF Elems
<1> QED BY <1>1, <1>3, <1>4, <1>5

LEMMA ElemsHeadTail ==
    ASSUME NEW S, NEW s \in Seq(S), s # <<>>
    PROVE  /\ Head(s) \in S /\ Tail(s) \in Seq(S)
           /\ Elems(s) = {Head(s)} \cup Elems(Tail(s))
<1>1. /\ Head(s) \in S /\ Tail(s) \in Seq(S) /\ Head(s) = s[1]
      /\ Len(Tail(s)) = Len(s) - 1
      /\ \A i \in 1 .. Len(Tail(s)) : Tail(s)[i] = s[i + 1]
  BY HeadTailProperties
<1>2. /\ DOMAIN s = 1 .. Len(s) /\ Len(s) \in Nat
      /\ DOMAIN Tail(s) = 1 .. Len(s) - 1
  BY <1>1, LenProperties
<1>3. Len(s) # 0
  BY EmptySeq, LenProperties
<1>4. Elems(Tail(s)) \subseteq Elems(s)
  BY <1>1, <1>2 DEF Elems
<1>5. ASSUME NEW x \in Elems(s) PROVE x \in {Head(s)} \cup Elems(Tail(s))
  <2>1. PICK i \in 1 .. Len(s) : x = s[i]
    BY <1>2 DEF Elems
  <2>2. CASE i = 1
    BY <1>1, <2>1, <2>2
  <2>3. CASE i # 1
    <3>1. i - 1 \in 1 .. Len(s) - 1 /\ Tail(s)[i - 1] = s[(i - 1) + 1] /\ (i - 1) + 1 = i
      BY <1>1, <1>2, <2>1, <2>3
    <3> QED BY <1>2, <2>1, <3>1 DEF Elems
  <2> QED BY <2>2, <2>3
<1>6. Head(s) \in Elems(s)
  BY <1>1, <1>2, <1>3 DEF Elems
<1> QED BY <1>1, <1>4, <1>5, <1>6
-----------------------------------------------------------------------------
(* What an operation replaces on the agenda.                               *)
LEMMA PendingStep ==
    ASSUME agenda \in Seq(Ops), agenda # <<>>, NEW ops \in Seq(Ops),
           agenda' = ops \o Tail(agenda)
    PROVE  /\ agenda' \in Seq(Ops)
           /\ Call \in Pending
           /\ Pending' \subseteq Elems(ops) \cup Pending
           /\ Elems(ops) \subseteq Pending'
           /\ Pending \ {Call} \subseteq Pending'
<1>1. /\ Tail(agenda) \in Seq(Ops)
      /\ Elems(agenda) = {Head(agenda)} \cup Elems(Tail(agenda))
  BY ElemsHeadTail
<1>2. /\ ops \o Tail(agenda) \in Seq(Ops)
      /\ Elems(ops \o Tail(agenda)) = Elems(ops) \cup Elems(Tail(agenda))
  <2>1. \A t \in Seq(Ops) :
           ops \o t \in Seq(Ops) /\ Elems(ops \o t) = Elems(ops) \cup Elems(t)
    BY ElemsConcat
  <2> QED BY <1>1, <2>1
<1>3. Pending' = Elems(ops) \cup Elems(Tail(agenda))
  BY <1>2 DEF Pending, Elems
<1> QED BY <1>1, <1>2, <1>3 DEF Pending, Call

(* The symbols of a table are kept, but for a type that is completed.      *)
Grows ==
    \A n \in DOMAIN symbol_table :
        /\ n \in DOMAIN symbol_table'
        /\ \/ symbol_table'[n] = symbol_table[n]
           \/ symbol_table[n] = "incomplete" /\ symbol_table'[n] = "complete"

(* What holds of a symbol that is put in, with the calls that follow.      *)
NewOK(ops) ==
    \A n \in DOMAIN symbol_table' \ DOMAIN symbol_table :
        /\ symbol_table'[n] = "def" => n.sort # "fn" \/ n.view # "itself"
        /\ symbol_table'[n] = "incomplete" =>
              \/ n.sort = "type" /\ n.id \in prog.foreign
              \/ Insert("complete", n) \in Elems(ops)
        /\ n.sort = "unimplemented" => n.id \notin ItemFns

(* The pending operation is done, or leaves one that stands for it.        *)
Discharged(ops) ==
    /\ Call.op = "complete" =>
          \A n \in DOMAIN symbol_table : n = Call.name => symbol_table'[n] = "complete"
    /\ Call.op = "declare_fn" =>
          \/ Contains(symbol_table', Name("fn", Call.id))
          \/ Insert("insert_decl", Name("fn", Call.id)) \in Elems(ops)
    /\ Call.op = "insert_decl" => Contains(symbol_table', Call.name)
    /\ Call.op \notin {"codegen_fn", "finish_fn"}

(* An operation keeps the invariant if the calls it leaves are in order,   *)
(* the symbols it puts in too, and it does what it was pending for.        *)
LEMMA OrdinaryKeeps ==
    ASSUME IInv, TypeOK', Working, agenda # <<>>,
           NEW ops \in Seq(Ops), agenda' = ops \o Tail(agenda),
           UNCHANGED <<prog, phase, next, proof_harnesses>>,
           \A o \in Elems(ops) : OpOK(o)',
           Grows, NewOK(ops), Discharged(ops),
           alloc_map' = alloc_map \/ AllocMapSound'
    PROVE  IInv'
<1>1. /\ Call \in Pending
      /\ Pending' \subseteq Elems(ops) \cup Pending
      /\ Elems(ops) \subseteq Pending'
      /\ Pending \ {Call} \subseteq Pending'
  <2>1. agenda \in Seq(Ops)
    BY DEF IInv, TypeOK
  <2> QED BY <2>1, PendingStep
<1>2. ItemFns' = ItemFns
  BY DEF ItemFns
<1>3. \A n \in DOMAIN symbol_table : n \in DOMAIN symbol_table'
  BY DEF Grows
<1>4. PendingOK'
  <2>1. ASSUME NEW o \in Pending, OpOK(o) PROVE OpOK(o)'
    BY <1>2, <1>3, <2>1 DEF OpOK, Contains
  <2>2. \A o \in Pending : OpOK(o)'
    BY <2>1 DEF IInv, PendingOK
  <2> QED BY <1>1, <2>2 DEF PendingOK
<1>5. \A f \in Fns : Defined(f)' <=> Defined(f)
  <2> SUFFICES ASSUME NEW f \in Fns PROVE Defined(f)' <=> Defined(f)
    OBVIOUS
  <2>1. Name("fn", f).sort = "fn" /\ Name("fn", f).view = "itself"
    BY DEF Name
  <2> QED BY <2>1 DEF Defined, Contains, Grows, NewOK
<1>6. Listed' = Listed
  BY DEF Listed
<1>7. DefinedOK' /\ ListedOK'
  <2>1. DefinedOK'
    BY <1>2, <1>5, <1>6 DEF IInv, DefinedOK
  <2>2. Listed \subseteq Fns
    BY ElementOfSeq DEF IInv, TypeOK, Listed
  <2> QED BY <1>5, <1>6, <2>1, <2>2 DEF IInv, ListedOK
<1>8. IncompleteOK'
  <2> SUFFICES ASSUME NEW n \in DOMAIN symbol_table', symbol_table'[n] = "incomplete"
               PROVE  \/ n.sort = "type" /\ n.id \in prog.foreign
                      \/ Insert("complete", n) \in Pending'
    BY DEF IncompleteOK, Insert, Op
  <2>1. CASE n \notin DOMAIN symbol_table
    BY <1>1, <2>1 DEF NewOK
  <2>2. CASE n \in DOMAIN symbol_table
    <3>1. symbol_table[n] = "incomplete"
      BY <2>2 DEF Grows
    <3>2. CASE Insert("complete", n) = Call
      <4>1. Call.op = "complete" /\ Call.name = n
        BY <3>2 DEF Insert, Op
      <4> QED BY <2>2, <4>1 DEF Discharged
    <3> QED BY <1>1, <2>2, <3>1, <3>2 DEF IInv, IncompleteOK
  <2> QED BY <2>1, <2>2
<1>9. \A f \in Fns : Started(f)' <=> Started(f)
  BY DEF Started
<1>10. DeclaredOK'
  <2>1. CASE phase = "declare"
    <3> SUFFICES ASSUME NEW f \in Fns, Started(f)
                 PROVE  \/ Contains(symbol_table', Name("fn", f))
                        \/ Op("declare_fn", f, NoName) \in Pending'
                        \/ Insert("insert_decl", Name("fn", f)) \in Pending'
      BY <1>9, <2>1 DEF DeclaredOK, Contains, Insert, Op
    <3>1. CASE Contains(symbol_table, Name("fn", f))
      BY <1>3, <3>1 DEF Contains
    <3>2. CASE Op("declare_fn", f, NoName) \in Pending
      <4>1. CASE Op("declare_fn", f, NoName) = Call
        <5>1. Call.op = "declare_fn" /\ Call.id = f
          BY <4>1 DEF Op
        <5> QED BY <1>1, <5>1 DEF Discharged
      <4> QED BY <1>1, <3>2, <4>1
    <3>3. CASE Insert("insert_decl", Name("fn", f)) \in Pending
      <4>1. CASE Insert("insert_decl", Name("fn", f)) = Call
        <5>1. Call.op = "insert_decl" /\ Call.name = Name("fn", f)
          BY <4>1 DEF Op, Insert
        <5> QED BY <5>1 DEF Discharged
      <4> QED BY <1>1, <3>3, <4>1
    <3> QED BY <2>1, <3>1, <3>2, <3>3 DEF IInv, DeclaredOK
  <2>2. CASE phase = "codegen"
    BY <1>2, <1>3, <2>2 DEF IInv, DeclaredOK, Contains
  <2> QED BY <2>1, <2>2 DEF Working
<1>11. CodegennedOK'
  <2>1. CASE phase = "codegen"
    <3> SUFFICES ASSUME NEW f \in Fns, Started(f)
                 PROVE  \/ Defined(f)
                        \/ Op("codegen_fn", f, NoName) \in Pending'
                        \/ Op("finish_fn", f, NoName) \in Pending'
      BY <1>5, <1>9, <2>1 DEF CodegennedOK
    <3>1. Op("codegen_fn", f, NoName) # Call /\ Op("finish_fn", f, NoName) # Call
      BY DEF Op, Discharged
    <3> QED BY <1>1, <2>1, <3>1 DEF IInv, CodegennedOK
  <2> QED BY <2>1 DEF Working, CodegennedOK
<1>12. AllocMapSound'
  BY <1>3 DEF IInv, AllocMapSound, Contains
<1>13. DropsResolved'
  <2> SUFFICES ASSUME NEW f \in ItemFns
               PROVE  ~Contains(symbol_table', Name("unimplemented", f))
    BY <1>2 DEF DropsResolved, Contains
  <2>1. Name("unimplemented", f).sort = "unimplemented" /\ Name("unimplemented", f).id = f
    BY DEF Name
  <2> QED BY <2>1 DEF IInv, DropsResolved, NewOK, Contains
<1> QED BY <1>4, <1>7, <1>8, <1>10, <1>11, <1>12, <1>13 DEF IInv
-----------------------------------------------------------------------------
(* Names and operations are typed.                                         *)
LEMMA NamesTyped ==
    ASSUME NEW sort \in Sorts, NEW id \in Ids, NEW n \in Names, NEW v \in Views,
           NEW i \in Nat
    PROVE  /\ Name(sort, id) \in Names
           /\ Derived(n, v) \in Names
           /\ Derived(n, v).sort = n.sort /\ Derived(n, v).view = v
           /\ Var(n, v, i) \in Names
           /\ Var(n, v, i).sort = n.sort /\ Var(n, v, i).view = v
           /\ Var(n, v, i).id = n.id
           /\ GlobalName(i) \in Names /\ GlobalName(i).sort = "global"
  BY DEF Names, Name, Derived, Var, GlobalName, Views, Sorts, Ids

LEMMA NoNameTyped == NoName \in Names /\ NoName.sort = "global"
  BY DEF NoName, GlobalName, Names, Views, Sorts, Ids

LEMMA OpsTyped ==
    ASSUME NEW o \in Ops
    PROVE  /\ o.name \in Names
           /\ o = Op(o.op, o.id, o.name)
           /\ o.op \in TypeOps => o.id \in Types
           /\ o.op \in FnOps => o.id \in Fns
           /\ o.op \in {"static", "declare_static", "codegen_static"} => o.id \in Statics
           /\ o.op = "mem" => o.id \in Allocs
           /\ o.op \in DataOps => o.id \in Contents
           /\ o.op \in {"vtable", "vtable_drop", "vtable_init"} => o.id \in Vtables
  BY DEF Ops, Op, TypeOps, FnOps, DataOps

LEMMA OpTyped ==
    ASSUME NEW n \in Names
    PROVE  /\ \A t \in Types, k \in TypeOps : Op(k, t, n) \in Ops
           /\ \A f \in Fns, k \in FnOps : Op(k, f, n) \in Ops
           /\ \A c \in Contents, k \in DataOps : Op(k, c, n) \in Ops
           /\ \A v \in Vtables : /\ Op("vtable_drop", v, n) \in Ops
                                 /\ Op("vtable_init", v, n) \in Ops
           /\ \A s \in Statics : /\ Op("declare_static", s, n) \in Ops
                                 /\ Op("codegen_static", s, n) \in Ops
           /\ \A k \in {"temp", "insert_var", "insert_decl", "insert_def", "complete",
                        "reset"} : Op(k, None, n) \in Ops /\ Insert(k, n) \in Ops
  BY DEF Ops, Op, Insert, TypeOps, FnOps, DataOps

LEMMA OpFields ==
    ASSUME NEW k, NEW id, NEW n
    PROVE  /\ Op(k, id, n).op = k /\ Op(k, id, n).id = id /\ Op(k, id, n).name = n
           /\ Insert(k, n).op = k /\ Insert(k, n).name = n
  BY DEF Op, Insert

LEMMA FnOpTyped ==
    ASSUME NEW f \in Fns, NEW k \in FnOps
    PROVE  /\ Op(k, f, NoName) \in Ops /\ Op(k, f, NoName).op = k /\ Op(k, f, NoName).id = f
  BY NoNameTyped, OpTyped, OpFields

LEMMA StaticOpTyped ==
    ASSUME NEW s \in Statics, NEW k \in {"declare_static", "codegen_static"}
    PROVE  Op(k, s, NoName) \in Ops /\ Op(k, s, NoName).op = k
  BY NoNameTyped, OpTyped, OpFields

LEMMA VtableOpTyped ==
    ASSUME NEW v \in Vtables, NEW k \in {"vtable_drop", "vtable_init"}
    PROVE  Op(k, v, NoName) \in Ops /\ Op(k, v, NoName).op = k
  BY NoNameTyped, OpTyped, OpFields

LEMMA TempTyped == Op("temp", None, NoName) \in Ops /\ Op("temp", None, NoName).op = "temp"
  BY NoNameTyped, OpTyped, OpFields

(* The first operation is a pending one, and after the first loop any.     *)
LEMMA CallOK ==
    ASSUME IInv, Working, agenda # <<>>
    PROVE  /\ Call \in Ops /\ OpOK(Call)
           /\ Call.op \notin DeclareOps => phase = "codegen"
<1>1. agenda \in Seq(Ops)
  BY DEF IInv, TypeOK
<1>2. Call \in Pending
  BY <1>1, ElemsHeadTail DEF Call, Pending
<1> QED BY <1>2 DEF IInv, PendingOK, OpOK, Working

(* Calls that may be pending at any time, and those of a body.             *)
LEMMA PlainOK ==
    ASSUME NEW o \in Ops, o.op \in {"ty", "complete", "reset"}
    PROVE  OpOK(o)'
  BY DEF OpOK, DeclareOps

LEMMA UseOK ==
    ASSUME NEW o \in Uses, phase' = "codegen"
    PROVE  o \in Ops /\ OpOK(o)'
  BY NoNameTyped DEF OpOK, Uses

LEMMA CallsOK ==
    ASSUME NEW ts \in Seq(Types)
    PROVE  /\ Calls("ty", ts) \in Seq(Ops)
           /\ \A o \in Elems(Calls("ty", ts)) : o \in Ops /\ o.op = "ty"
<1>1. \A i \in 1 .. Len(ts) : ts[i] \in Types
  BY ElementOfSeq
<1>2. \A i \in 1 .. Len(ts) : Op("ty", ts[i], NoName) \in Ops /\ Op("ty", ts[i], NoName).op = "ty"
  BY <1>1, NoNameTyped, OpTyped, OpFields DEF TypeOps
<1>3. Len(ts) \in Nat
  BY LenProperties
<1> QED BY <1>2, <1>3, IsASeq DEF Calls, Elems
-----------------------------------------------------------------------------
(* The step of an operation that leaves the table alone, ...               *)
LEMMA PushKeeps ==
    ASSUME IInv, Working, agenda # <<>>,
           NEW ops \in Seq(Ops), agenda' = ops \o Tail(agenda),
           UNCHANGED <<prog, phase, next, symbol_table, alloc_map, proof_harnesses>>,
           global_var_count' \in Nat, current_fn' \in Fns \cup {None},
           temp_var_counter' \in Nat,
           \A o \in Elems(ops) : OpOK(o)',
           Call.op \notin {"complete", "insert_decl", "codegen_fn", "finish_fn"},
           Call.op = "declare_fn" =>
              \/ Contains(symbol_table, Name("fn", Call.id))
              \/ Insert("insert_decl", Name("fn", Call.id)) \in Elems(ops)
    PROVE  IInv'
<1>1. agenda' \in Seq(Ops)
  <2>1. agenda \in Seq(Ops)
    BY DEF IInv, TypeOK
  <2> QED BY <2>1, PendingStep
<1>2. TypeOK'
  BY <1>1 DEF IInv, TypeOK
<1>3. Grows /\ NewOK(ops)
  BY DEF Grows, NewOK
<1>4. Discharged(ops)
  BY DEF Discharged, Contains
<1> QED BY <1>2, <1>3, <1>4, OrdinaryKeeps

(* ... and of one that puts in a symbol, or ensures it.                    *)
LEMMA InsertKeeps ==
    ASSUME IInv, Working, agenda # <<>>,
           NEW ops \in Seq(Ops), agenda' = ops \o Tail(agenda),
           KeepContext, alloc_map' = alloc_map,
           NEW n \in Names, NEW k \in SymbolKinds,
           symbol_table' = ensure(symbol_table, n, k),
           \A o \in Elems(ops) : OpOK(o)',
           k = "def" => n.sort # "fn" \/ n.view # "itself",
           k = "incomplete" => \/ n.sort = "type" /\ n.id \in prog.foreign
                               \/ Insert("complete", n) \in Elems(ops),
           n.sort = "unimplemented" => n.id \notin ItemFns,
           Call.op \notin {"complete", "declare_fn", "codegen_fn", "finish_fn"},
           Call.op = "insert_decl" => Call.name = n
    PROVE  IInv'
<1>1. agenda' \in Seq(Ops)
  <2>1. agenda \in Seq(Ops)
    BY DEF IInv, TypeOK
  <2> QED BY <2>1, PendingStep
<1>2. /\ DOMAIN symbol_table' = DOMAIN symbol_table \cup {n}
      /\ \A m \in DOMAIN symbol_table : symbol_table'[m] = symbol_table[m]
      /\ n \notin DOMAIN symbol_table => symbol_table'[n] = k
  BY DEF ensure, insert, With, Contains
<1>3. TypeOK'
  BY <1>1, <1>2 DEF IInv, TypeOK, KeepContext
<1>4. Grows /\ NewOK(ops)
  BY <1>2 DEF Grows, NewOK
<1>5. Discharged(ops)
  BY <1>2 DEF Discharged, Contains
<1> QED BY <1>3, <1>4, <1>5, OrdinaryKeeps DEF KeepContext
-----------------------------------------------------------------------------
(* Short agendas.                                                          *)
LEMMA Agenda0 == <<>> \in Seq(Ops) /\ Elems(<<>>) = {}
  BY DEF Elems

LEMMA Agenda1 ==
    ASSUME NEW a \in Ops
    PROVE  <<a>> \in Seq(Ops) /\ Elems(<<a>>) = {a}
  BY DEF Elems

LEMMA Agenda2 ==
    ASSUME NEW a \in Ops, NEW b \in Ops
    PROVE  <<a, b>> \in Seq(Ops) /\ Elems(<<a, b>>) = {a, b}
  BY DEF Elems

LEMMA Agenda3 ==
    ASSUME NEW a \in Ops, NEW b \in Ops, NEW c \in Ops
    PROVE  <<a, b, c>> \in Seq(Ops) /\ Elems(<<a, b, c>>) = {a, b, c}
  BY DEF Elems

LEMMA Agenda4 ==
    ASSUME NEW a \in Ops, NEW b \in Ops, NEW c \in Ops, NEW d \in Ops
    PROVE  <<a, b, c, d>> \in Seq(Ops) /\ Elems(<<a, b, c, d>>) = {a, b, c, d}
  BY DEF Elems

LEMMA AgendaConcat ==
    ASSUME NEW s \in Seq(Ops), NEW t \in Seq(Ops)
    PROVE  s \o t \in Seq(Ops) /\ Elems(s \o t) = Elems(s) \cup Elems(t)
  BY ElemsConcat

(* An operation of the crate's data is typed.                              *)
LEMMA ProgTyped ==
    ASSUME IInv
    PROVE  /\ \A f \in Fns : /\ prog.sig[f] \in Seq(Types) /\ prog.locals[f] \in Seq(Types)
                             /\ prog.args[f] \in Seq(Types) /\ prog.body[f] \in Seq(Uses)
                             /\ prog.spread[f] \in Nat
           /\ \A t \in Types : prog.fields[t] \in Seq(Types)
           /\ \A s \in Statics : prog.typ[s] \in Types /\ prog.init[s] \in Contents
           /\ \A a \in Allocs : prog.content[a] \in Contents
           /\ \A c \in Contents : prog.relocs[c] \in Seq(Uses)
           /\ \A v \in Vtables : prog.impl[v] \in Types /\ prog.drop[v] \in Fns
           /\ prog.items \in Seq(Items)
           /\ prog.foreign \subseteq Types
  BY DEF IInv, TypeOK, Crates

LEMMA ItemsIndexed ==
    ASSUME IInv
    PROVE  /\ DOMAIN prog.items = 1 .. Len(prog.items) /\ Len(prog.items) \in Nat
           /\ next \in Nat \ {0}
<1>1. prog.items \in Seq(Items)
  BY ProgTyped
<1>2. next \in Nat \ {0}
  BY DEF IInv, TypeOK
<1> QED BY <1>1, <1>2, LenProperties

LEMMA InsertSymbolKeeps ==
    ASSUME IInv, InsertVariable \/ InsertDeclaration \/ InsertDefinition
    PROVE  IInv'
<1>1. PICK op, k : /\ InsertSymbol(op, k)
                   /\ \/ op = "insert_var" /\ k = "var"
                      \/ op = "insert_decl" /\ k = "decl"
                      \/ op = "insert_def" /\ k = "def"
  BY DEF InsertVariable, InsertDeclaration, InsertDefinition
<1>2. /\ Working /\ agenda # <<>> /\ Call.op = op /\ CanInsert(symbol_table, Call.name)
      /\ agenda' = <<>> \o Tail(agenda) /\ KeepContext /\ alloc_map' = alloc_map
      /\ symbol_table' = insert(symbol_table, Call.name, k)
  BY <1>1 DEF InsertSymbol, Do, AssertionsHold, Then
<1>3. OpOK(Call) /\ Call.name \in Names
  BY <1>2, CallOK, OpsTyped
<1>4. symbol_table' = ensure(symbol_table, Call.name, k)
  BY <1>2 DEF CanInsert, ensure
<1>5. k \in SymbolKinds
  BY <1>1 DEF SymbolKinds
<1>6. /\ k = "def" => Call.name.sort # "fn"
      /\ Call.name.sort = "unimplemented" => Call.name.id \notin ItemFns
  BY <1>1, <1>2, <1>3 DEF OpOK
<1> QED BY <1>1, <1>2, <1>3, <1>4, <1>5, <1>6, Agenda0, InsertKeeps

LEMMA CompleteKeeps ==
    ASSUME IInv, Complete
    PROVE  IInv'
<1>1. /\ Working /\ agenda # <<>> /\ Call.op = "complete"
      /\ Contains(symbol_table, Call.name) /\ symbol_table[Call.name] = "incomplete"
      /\ agenda' = <<>> \o Tail(agenda) /\ KeepContext /\ alloc_map' = alloc_map
      /\ symbol_table' = With(symbol_table, Call.name, "complete")
  BY DEF Complete, Do, AssertionsHold, Then, CanComplete, replace_with_completion
<1>2. agenda' \in Seq(Ops)
  <2>1. agenda \in Seq(Ops)
    BY DEF IInv, TypeOK
  <2> QED BY <1>1, <2>1, Agenda0, PendingStep
<1>3. /\ DOMAIN symbol_table' = DOMAIN symbol_table
      /\ symbol_table'[Call.name] = "complete"
      /\ \A m \in DOMAIN symbol_table : m # Call.name => symbol_table'[m] = symbol_table[m]
  BY <1>1 DEF With, Contains
<1>4. TypeOK'
  BY <1>1, <1>2, <1>3 DEF IInv, TypeOK, KeepContext, SymbolKinds
<1>5. Grows /\ NewOK(<<>>)
  BY <1>1, <1>3 DEF Grows, NewOK
<1>6. Discharged(<<>>)
  BY <1>1, <1>3 DEF Discharged
<1> QED BY <1>1, <1>4, <1>5, <1>6, Agenda0, OrdinaryKeeps DEF KeepContext
-----------------------------------------------------------------------------
(* The calls an operation may leave.                                       *)
LEMMA InsertOK ==
    ASSUME NEW n \in Names
    PROVE  /\ n.sort # "unimplemented" => /\ OpOK(Insert("insert_var", n))'
                                          /\ OpOK(Insert("insert_decl", n))'
           /\ n.sort \notin {"fn", "unimplemented"} /\ phase' = "codegen" =>
                 OpOK(Insert("insert_def", n))'
           /\ OpOK(Insert("complete", n))'
           /\ \A k \in {"insert_var", "insert_decl", "insert_def", "complete"} :
                 Insert(k, n) \in Ops
<1>1. \A k \in {"insert_var", "insert_decl", "insert_def", "complete"} :
         /\ Insert(k, n) \in Ops
         /\ Insert(k, n).op = k /\ Insert(k, n).name = n
  BY OpTyped, OpFields
<1> QED BY <1>1 DEF OpOK, DeclareOps

LEMMA TyOK ==
    ASSUME NEW t \in Types
    PROVE  Op("ty", t, NoName) \in Ops /\ OpOK(Op("ty", t, NoName))'
<1>1. Op("ty", t, NoName) \in Ops
  BY NoNameTyped, OpTyped DEF TypeOps
<1> QED BY <1>1, OpFields, PlainOK

LEMMA LaterOK ==
    ASSUME NEW o \in Ops, phase' = "codegen",
           o.op \in {"direct", "temp", "vtable_drop", "vtable_init"}
    PROVE  OpOK(o)'
  BY DEF OpOK

LEMMA codegen_ty_Keeps ==
    ASSUME IInv, codegen_ty
    PROVE  IInv'
<1> DEFINE tag == Name("type", Call.id)
           end == Insert("complete", tag)
           fields == Calls("ty", prog.fields[Call.id])
           ops == fields \o <<end>>
<1>1. /\ Working /\ agenda # <<>> /\ Call.op = "ty" /\ KeepContext /\ alloc_map' = alloc_map
      /\ \/ agenda' = <<>> \o Tail(agenda) /\ symbol_table' = symbol_table
         \/ /\ ~Contains(symbol_table, tag)
            /\ symbol_table' = insert(symbol_table, tag, "incomplete")
            /\ \/ Call.id \in prog.foreign /\ agenda' = <<>> \o Tail(agenda)
               \/ agenda' = ops \o Tail(agenda)
  BY DEF codegen_ty, Do, Then
<1>2. Call.id \in Types
  BY <1>1, CallOK, OpsTyped DEF TypeOps
<1>3. tag \in Names /\ tag.sort = "type" /\ tag.id = Call.id
  BY <1>2, NamesTyped DEF Name, Sorts, Ids, Names, Views
<1>4. /\ <<end>> \in Seq(Ops) /\ Elems(<<end>>) = {end}
      /\ \A o \in {end} : OpOK(o)'
  BY <1>3, InsertOK, Agenda1
<1>5. fields \in Seq(Ops) /\ \A o \in Elems(fields) : OpOK(o)'
  BY <1>2, ProgTyped, CallsOK, PlainOK
<1>6. ops \in Seq(Ops) /\ Elems(ops) = Elems(fields) \cup {end}
  BY <1>4, <1>5, AgendaConcat
<1>7. ~Contains(symbol_table, tag) => insert(symbol_table, tag, "incomplete")
                                        = ensure(symbol_table, tag, "incomplete")
  BY DEF ensure
<1>8. "incomplete" \in SymbolKinds
  BY DEF SymbolKinds
<1> HIDE DEF tag, fields, ops
<1>9. CASE agenda' = <<>> \o Tail(agenda) /\ symbol_table' = symbol_table
  BY <1>1, <1>9, Agenda0, PushKeeps DEF KeepContext, IInv, TypeOK
<1>10. CASE /\ ~Contains(symbol_table, tag)
            /\ symbol_table' = insert(symbol_table, tag, "incomplete")
            /\ Call.id \in prog.foreign /\ agenda' = <<>> \o Tail(agenda)
  BY <1>1, <1>3, <1>7, <1>8, <1>10, Agenda0, InsertKeeps
<1>11. CASE /\ ~Contains(symbol_table, tag)
            /\ symbol_table' = insert(symbol_table, tag, "incomplete")
            /\ agenda' = ops \o Tail(agenda)
  BY <1>1, <1>3, <1>4, <1>5, <1>6, <1>7, <1>8, <1>11, InsertKeeps
<1> QED BY <1>1, <1>9, <1>10, <1>11

LEMMA gen_temp_variable_Keeps ==
    ASSUME IInv, gen_temp_variable
    PROVE  IInv'
<1> DEFINE var == Var(Name("fn", current_fn), "temp", temp_var_counter)
           ops == <<Insert("insert_var", var)>>
<1>1. /\ Working /\ agenda # <<>> /\ Call.op = "temp" /\ current_fn # None
      /\ agenda' = ops \o Tail(agenda)
      /\ UNCHANGED <<prog, phase, next, symbol_table, alloc_map, global_var_count,
                     current_fn, proof_harnesses>>
      /\ temp_var_counter' = temp_var_counter + 1
  BY DEF gen_temp_variable, Do, AssertionsHold, Then, KeepTables
<1>2. /\ current_fn \in Fns /\ temp_var_counter \in Nat
      /\ global_var_count' \in Nat /\ current_fn' \in Fns \cup {None}
      /\ temp_var_counter' \in Nat
  BY <1>1 DEF IInv, TypeOK
<1>3. var \in Names /\ var.sort = "fn"
  BY <1>2 DEF Var, Name, Sorts, Ids, Names, Views
<1>4. ops \in Seq(Ops) /\ \A o \in Elems(ops) : OpOK(o)'
  BY <1>3, InsertOK, Agenda1
<1> HIDE DEF ops
<1> QED BY <1>1, <1>2, <1>4, PushKeeps
-----------------------------------------------------------------------------
(* Operations that only call others.                                       *)
LEMMA CallsKeep ==
    ASSUME IInv, Working, agenda # <<>>, KeepTables, KeepContext,
           NEW ops \in Seq(Ops), agenda' = ops \o Tail(agenda),
           \A o \in Elems(ops) : OpOK(o)',
           Call.op \notin {"complete", "declare_fn", "insert_decl", "codegen_fn", "finish_fn"}
    PROVE  IInv'
  BY PushKeeps DEF KeepTables, KeepContext, IInv, TypeOK

LEMMA codegen_func_expr_Keeps ==
    ASSUME IInv, codegen_func_expr
    PROVE  IInv'
<1> DEFINE again == Op("fn", Call.id, Name("fn", Call.id))
           sig == Calls("ty", prog.sig[Call.id])
           ops == sig \o <<again>>
<1>1. /\ Working /\ agenda # <<>> /\ Call.op = "fn" /\ KeepContext /\ alloc_map' = alloc_map
      /\ \/ agenda' = ops \o Tail(agenda) /\ symbol_table' = symbol_table
         \/ /\ symbol_table' = ensure(symbol_table, Call.name, "decl")
            /\ agenda' = <<>> \o Tail(agenda)
  BY DEF codegen_func_expr, Do, Then
<1>2. /\ Call.id \in Fns /\ Call.name \in Names /\ OpOK(Call)
      /\ phase' = "codegen" /\ Call.name.sort # "unimplemented"
  BY <1>1, CallOK, OpsTyped DEF FnOps, DeclareOps, OpOK, KeepContext
<1>3. again \in Ops /\ again.op = "fn" /\ again.name.sort = "fn"
  <2>1. Name("fn", Call.id) \in Names /\ Name("fn", Call.id).sort = "fn"
    BY <1>2 DEF Name, Names, Sorts, Ids, Views
  <2> QED BY <1>2, <2>1, OpTyped, OpFields DEF FnOps
<1>4. \A o \in {again} : OpOK(o)'
  BY <1>2, <1>3 DEF OpOK
<1>5. sig \in Seq(Ops) /\ \A o \in Elems(sig) : OpOK(o)'
  BY <1>2, ProgTyped, CallsOK, PlainOK
<1>6. ops \in Seq(Ops) /\ \A o \in Elems(ops) : OpOK(o)'
  <2>1. <<again>> \in Seq(Ops) /\ Elems(<<again>>) = {again}
    BY <1>3, Agenda1
  <2>2. ops \in Seq(Ops) /\ Elems(ops) = Elems(sig) \cup {again}
    BY <1>5, <2>1, AgendaConcat
  <2> HIDE DEF sig, ops, again
  <2> QED BY <1>4, <1>5, <2>2
<1>7. "decl" \in SymbolKinds
  BY DEF SymbolKinds
<1> HIDE DEF ops
<1>8. CASE agenda' = ops \o Tail(agenda) /\ symbol_table' = symbol_table
  BY <1>1, <1>6, <1>8, CallsKeep DEF KeepTables
<1>9. CASE /\ symbol_table' = ensure(symbol_table, Call.name, "decl")
           /\ agenda' = <<>> \o Tail(agenda)
  BY <1>1, <1>2, <1>7, <1>9, Agenda0, InsertKeeps
<1> QED BY <1>1, <1>8, <1>9

LEMMA codegen_static_pointer_Keeps ==
    ASSUME IInv, codegen_static_pointer
    PROVE  IInv'
<1> DEFINE name == Name("static", Call.id)
           ops == <<Op("ty", prog.typ[Call.id], NoName), Insert("insert_var", name)>>
<1>1. /\ Working /\ agenda # <<>> /\ Call.op = "static" /\ KeepContext /\ KeepTables
      /\ \/ agenda' = <<>> \o Tail(agenda)
         \/ agenda' = ops \o Tail(agenda)
  BY DEF codegen_static_pointer, Do, Then
<1>2. Call.id \in Statics
  BY <1>1, CallOK, OpsTyped
<1>3. name \in Names /\ name.sort = "static"
  BY <1>2 DEF Name, Names, Sorts, Ids, Views
<1>4. prog.typ[Call.id] \in Types
  BY <1>2, ProgTyped
<1>5. ops \in Seq(Ops) /\ \A o \in Elems(ops) : OpOK(o)'
  BY <1>3, <1>4, TyOK, InsertOK, Agenda2
<1> HIDE DEF ops
<1> QED BY <1>1, <1>5, Agenda0, CallsKeep

LEMMA declare_static_Keeps ==
    ASSUME IInv, declare_static
    PROVE  IInv'
<1> DEFINE name == Name("static", Call.id)
           ops == <<Op("ty", prog.typ[Call.id], NoName), Insert("insert_var", name)>>
<1>1. /\ Working /\ agenda # <<>> /\ Call.op = "declare_static" /\ KeepContext /\ KeepTables
      /\ agenda' = ops \o Tail(agenda)
  BY DEF declare_static, Do, Then
<1>2. Call.id \in Statics
  BY <1>1, CallOK, OpsTyped
<1>3. name \in Names /\ name.sort = "static"
  BY <1>2 DEF Name, Names, Sorts, Ids, Views
<1>4. prog.typ[Call.id] \in Types
  BY <1>2, ProgTyped
<1>5. ops \in Seq(Ops) /\ \A o \in Elems(ops) : OpOK(o)'
  BY <1>3, <1>4, TyOK, InsertOK, Agenda2
<1> HIDE DEF ops
<1> QED BY <1>1, <1>5, CallsKeep

LEMMA declare_variable_Keeps ==
    ASSUME IInv, declare_variable \/ codegen_declare_variables
    PROVE  IInv'
<1> DEFINE ops == <<Op("ty", Call.id, NoName), Insert("insert_var", Call.name)>>
<1>1. /\ Working /\ agenda # <<>> /\ Call.op \in {"spread", "local"}
      /\ KeepContext /\ KeepTables
      /\ \/ agenda' = <<>> \o Tail(agenda)
         \/ agenda' = ops \o Tail(agenda)
  BY DEF declare_variable, codegen_declare_variables, Do, Then
<1>2. Call.id \in Types /\ Call.name \in Names /\ Call.name.sort = "fn"
  BY <1>1, CallOK, OpsTyped DEF TypeOps, OpOK
<1>3. ops \in Seq(Ops) /\ \A o \in Elems(ops) : OpOK(o)'
  BY <1>2, TyOK, InsertOK, Agenda2
<1> HIDE DEF ops
<1> QED BY <1>1, <1>3, Agenda0, CallsKeep

LEMMA codegen_direct_literal_Keeps ==
    ASSUME IInv, codegen_direct_literal
    PROVE  IInv'
<1> DEFINE helper == Name("direct", Call.id)
           first == <<Op("ty", Call.id, NoName), Op("direct", Call.id, helper)>>
           second == <<Insert("insert_var", Var(helper, "var", 1)),
                       Insert("insert_var", Var(helper, "var", 2)),
                       Insert("insert_def", helper)>>
<1>1. /\ Working /\ agenda # <<>> /\ Call.op = "direct" /\ KeepContext /\ KeepTables
      /\ \/ agenda' = <<>> \o Tail(agenda)
         \/ agenda' = first \o Tail(agenda)
         \/ agenda' = second \o Tail(agenda)
  BY DEF codegen_direct_literal, Do, Then
<1>2. Call.id \in Types /\ phase' = "codegen"
  BY <1>1, CallOK, OpsTyped DEF TypeOps, DeclareOps, KeepContext
<1>3. helper \in Names /\ helper.sort = "direct"
  BY <1>2 DEF Name, Names, Sorts, Ids, Views
<1>4. /\ Var(helper, "var", 1) \in Names /\ Var(helper, "var", 1).sort = "direct"
      /\ Var(helper, "var", 2) \in Names /\ Var(helper, "var", 2).sort = "direct"
  BY <1>3 DEF Var, Names, Views
<1>5. first \in Seq(Ops) /\ \A o \in Elems(first) : OpOK(o)'
  <2>1. Op("direct", Call.id, helper) \in Ops /\ Op("direct", Call.id, helper).op = "direct"
    BY <1>2, <1>3, OpTyped, OpFields DEF TypeOps
  <2>2. \A o \in {Op("direct", Call.id, helper)} : OpOK(o)'
    BY <1>2, <2>1, LaterOK
  <2> HIDE DEF helper
  <2> QED BY <1>2, <2>1, <2>2, TyOK, Agenda2
<1>6. second \in Seq(Ops) /\ \A o \in Elems(second) : OpOK(o)'
  BY <1>2, <1>3, <1>4, InsertOK, Agenda3
<1> HIDE DEF first, second
<1> QED BY <1>1, <1>5, <1>6, Agenda0, CallsKeep

LEMMA codegen_rvalue_repeat_Keeps ==
    ASSUME IInv, codegen_rvalue_repeat
    PROVE  IInv'
<1> DEFINE helper == Name("repeat", Call.id)
           ty == <<Op("ty", Call.id, NoName)>>
           variables == [i \in 1 .. 3 |-> Insert("insert_var", Var(helper, "var", i))]
           def == <<Insert("insert_def", helper)>>
           ops == ty \o variables \o def
<1>1. /\ Working /\ agenda # <<>> /\ Call.op = "repeat" /\ KeepContext /\ KeepTables
      /\ \/ agenda' = <<>> \o Tail(agenda)
         \/ agenda' = ops \o Tail(agenda)
  BY DEF codegen_rvalue_repeat, Do, Then
<1>2. Call.id \in Types /\ phase' = "codegen"
  BY <1>1, CallOK, OpsTyped DEF TypeOps, DeclareOps, KeepContext
<1>3. helper \in Names /\ helper.sort = "repeat"
  BY <1>2 DEF Name, Names, Sorts, Ids, Views
<1>4. ASSUME NEW i \in 1 .. 3
      PROVE  /\ Insert("insert_var", Var(helper, "var", i)) \in Ops
             /\ \A o \in {Insert("insert_var", Var(helper, "var", i))} : OpOK(o)'
  <2>1. Var(helper, "var", i) \in Names /\ Var(helper, "var", i).sort = "repeat"
    BY <1>3 DEF Var, Names, Views
  <2> QED BY <2>1, InsertOK
<1>5. variables \in Seq(Ops) /\ \A o \in Elems(variables) : OpOK(o)'
  <2>1. variables \in Seq(Ops)
    BY <1>4, IsASeq
  <2>2. \A o \in Elems(variables) : \E i \in 1 .. 3 : o = Insert("insert_var", Var(helper, "var", i))
    BY DEF Elems
  <2> HIDE DEF variables, helper
  <2> QED BY <1>4, <2>1, <2>2
<1>6. ty \in Seq(Ops) /\ \A o \in Elems(ty) : OpOK(o)'
  BY <1>2, TyOK, Agenda1
<1>7. def \in Seq(Ops) /\ \A o \in Elems(def) : OpOK(o)'
  BY <1>2, <1>3, InsertOK, Agenda1
<1> HIDE DEF ty, variables, def
<1>8. ops \in Seq(Ops) /\ \A o \in Elems(ops) : OpOK(o)'
  <2>1. /\ variables \o def \in Seq(Ops) /\ ty \o variables \in Seq(Ops)
        /\ Elems(ty \o variables) = Elems(ty) \cup Elems(variables)
    BY <1>5, <1>6, <1>7, AgendaConcat
  <2>2. /\ (ty \o variables) \o def \in Seq(Ops)
        /\ Elems((ty \o variables) \o def) = Elems(ty \o variables) \cup Elems(def)
    BY <1>7, <2>1, AgendaConcat
  <2> QED BY <1>5, <1>6, <1>7, <2>1, <2>2
<1> HIDE DEF ops
<1> QED BY <1>1, <1>8, Agenda0, CallsKeep
-----------------------------------------------------------------------------
(* Allocations.                                                            *)
LEMMA AllocOK ==
    ASSUME NEW c \in Contents, NEW n \in Names, n.sort \in {"static", "alloc", "global"},
           phase' = "codegen"
    PROVE  /\ \A k \in {"alloc_in_memory", "alloc_global"} :
                 Op(k, c, n) \in Ops /\ OpOK(Op(k, c, n))'
           /\ Op("alloc_init", c, n) \in Ops
           /\ Contains(symbol_table', n) => OpOK(Op("alloc_init", c, n))'
<1>1. \A k \in DataOps : /\ Op(k, c, n) \in Ops /\ Op(k, c, n).op = k
                         /\ Op(k, c, n).name = n
  BY OpTyped, OpFields
<1> QED BY <1>1 DEF OpOK, DataOps, Contains

LEMMA UsesOK ==
    ASSUME NEW s \in Seq(Uses), phase' = "codegen"
    PROVE  s \in Seq(Ops) /\ \A o \in Elems(s) : OpOK(o)'
<1>1. /\ Len(s) \in Nat /\ DOMAIN s = 1 .. Len(s)
      /\ s = [i \in 1 .. Len(s) |-> s[i]]
      /\ \A i \in 1 .. Len(s) : s[i] \in Uses
  BY LenProperties, ElementOfSeq
<1>2. \A i \in 1 .. Len(s) : s[i] \in Ops
  BY <1>1 DEF Uses
<1>3. s \in Seq(Ops)
  BY <1>1, <1>2, IsASeq
<1>4. \A o \in Elems(s) : o \in Uses
  BY <1>1 DEF Elems
<1> QED BY <1>3, <1>4, UseOK

LEMMA codegen_allocation_Keeps ==
    ASSUME IInv, codegen_alloc_pointer \/ codegen_static
    PROVE  IInv'
<1>1. PICK c \in Contents, n \in Names :
         /\ codegen_allocation(c, n) /\ n.sort \in {"alloc", "static"}
         /\ Working /\ agenda # <<>> /\ Call.op \in {"mem", "codegen_static"}
  <2>1. CASE codegen_alloc_pointer
    <3>1. /\ Working /\ agenda # <<>> /\ Call.op = "mem"
          /\ codegen_allocation(prog.content[Call.id], Name("alloc", Call.id))
      BY <2>1 DEF codegen_alloc_pointer, Do
    <3>2. Call.id \in Allocs /\ prog.content[Call.id] \in Contents
      BY <3>1, CallOK, OpsTyped, ProgTyped
    <3>3. Name("alloc", Call.id) \in Names /\ Name("alloc", Call.id).sort = "alloc"
      BY <3>2 DEF Name, Names, Sorts, Ids, Views
    <3> QED BY <3>1, <3>2, <3>3
  <2>2. CASE codegen_static
    <3>1. /\ Working /\ agenda # <<>> /\ Call.op = "codegen_static"
          /\ codegen_allocation(prog.init[Call.id], Name("static", Call.id))
      BY <2>2 DEF codegen_static, Do
    <3>2. Call.id \in Statics /\ prog.init[Call.id] \in Contents
      BY <3>1, CallOK, OpsTyped, ProgTyped
    <3>3. Name("static", Call.id) \in Names /\ Name("static", Call.id).sort = "static"
      BY <3>2 DEF Name, Names, Sorts, Ids, Views
    <3> QED BY <3>1, <3>2, <3>3
  <2> QED BY <2>1, <2>2
<1> DEFINE ops == <<Op("alloc_in_memory", c, n)>>
<1>2. /\ KeepContext /\ KeepTables
      /\ agenda' = <<>> \o Tail(agenda) \/ agenda' = ops \o Tail(agenda)
  BY <1>1 DEF codegen_allocation, Then
<1>3. phase' = "codegen"
  BY <1>1, <1>2, CallOK DEF DeclareOps, KeepContext
<1>4. ops \in Seq(Ops) /\ \A o \in Elems(ops) : OpOK(o)'
  BY <1>1, <1>3, AllocOK, Agenda1
<1> HIDE DEF ops
<1> QED BY <1>1, <1>2, <1>4, Agenda0, CallsKeep

LEMMA codegen_const_value_Keeps ==
    ASSUME IInv, codegen_const_value
    PROVE  IInv'
<1> DEFINE ops == <<Op("alloc_in_memory", Call.id, GlobalName(global_var_count))>>
<1>1. /\ Working /\ agenda # <<>> /\ Call.op = "const"
      /\ UNCHANGED <<prog, phase, next, symbol_table, alloc_map, current_fn,
                     temp_var_counter, proof_harnesses>>
      /\ \/ agenda' = <<>> \o Tail(agenda) /\ global_var_count' = global_var_count
         \/ agenda' = ops \o Tail(agenda) /\ global_var_count' = global_var_count + 1
  BY DEF codegen_const_value, Do, Then
<1>2. Call.id \in Contents /\ phase' = "codegen"
  BY <1>1, CallOK, OpsTyped DEF DataOps, DeclareOps
<1>3. /\ global_var_count \in Nat /\ global_var_count' \in Nat
      /\ current_fn' \in Fns \cup {None} /\ temp_var_counter' \in Nat
  BY <1>1 DEF IInv, TypeOK
<1>4. /\ GlobalName(global_var_count) \in Names
      /\ GlobalName(global_var_count).sort = "global"
  BY <1>3 DEF GlobalName, Names, Sorts, Ids, Views
<1>5. ops \in Seq(Ops) /\ \A o \in Elems(ops) : OpOK(o)'
  BY <1>2, <1>4, AllocOK, Agenda1
<1> HIDE DEF ops
<1> QED BY <1>1, <1>3, <1>5, Agenda0, PushKeeps

LEMMA codegen_alloc_in_memory_Keeps ==
    ASSUME IInv, codegen_alloc_in_memory
    PROVE  IInv'
<1> DEFINE struct == Derived(Call.name, "struct")
           relocs == prog.relocs[Call.id]
           end == <<Insert("complete", struct)>>
           rest == <<Op("alloc_global", Call.id, Call.name)>>
           ops == relocs \o end \o rest
<1>1. /\ Working /\ agenda # <<>> /\ Call.op = "alloc_in_memory"
      /\ KeepContext /\ alloc_map' = alloc_map
      /\ \/ agenda' = rest \o Tail(agenda) /\ symbol_table' = symbol_table
         \/ /\ ~Contains(symbol_table, struct)
            /\ symbol_table' = insert(symbol_table, struct, "incomplete")
            /\ agenda' = ops \o Tail(agenda)
  BY DEF codegen_alloc_in_memory, Do, Then
<1>2. /\ Call.id \in Contents /\ Call.name \in Names /\ phase' = "codegen"
      /\ Call.name.sort \in {"static", "alloc", "global"}
  BY <1>1, CallOK, OpsTyped DEF DataOps, DeclareOps, KeepContext, OpOK
<1>3. struct \in Names /\ struct.sort \in {"static", "alloc", "global"}
  BY <1>2 DEF Derived, Var, Names, Views
<1>4. rest \in Seq(Ops) /\ \A o \in Elems(rest) : OpOK(o)'
  BY <1>2, AllocOK, Agenda1
<1>5. /\ end \in Seq(Ops) /\ Elems(end) = {Insert("complete", struct)}
      /\ \A o \in Elems(end) : OpOK(o)'
  BY <1>3, InsertOK, Agenda1
<1>6. relocs \in Seq(Ops) /\ \A o \in Elems(relocs) : OpOK(o)'
  BY <1>2, ProgTyped, UsesOK
<1> HIDE DEF relocs, end, rest
<1>7. /\ ops \in Seq(Ops) /\ Elems(ops) = Elems(relocs) \cup Elems(end) \cup Elems(rest)
  <2>1. relocs \o end \in Seq(Ops) /\ Elems(relocs \o end) = Elems(relocs) \cup Elems(end)
    BY <1>5, <1>6, AgendaConcat
  <2> QED BY <1>4, <2>1, AgendaConcat
<1>8. ~Contains(symbol_table, struct) => insert(symbol_table, struct, "incomplete")
                                           = ensure(symbol_table, struct, "incomplete")
  BY DEF ensure
<1>9. "incomplete" \in SymbolKinds
  BY DEF SymbolKinds
<1> HIDE DEF struct, ops
<1>10. CASE agenda' = rest \o Tail(agenda) /\ symbol_table' = symbol_table
  BY <1>1, <1>4, <1>10, CallsKeep DEF KeepTables
<1>11. CASE /\ ~Contains(symbol_table, struct)
            /\ symbol_table' = insert(symbol_table, struct, "incomplete")
            /\ agenda' = ops \o Tail(agenda)
  <2>1. \A o \in Elems(ops) : OpOK(o)'
    BY <1>4, <1>5, <1>6, <1>7
  <2>2. Insert("complete", struct) \in Elems(ops)
    BY <1>5, <1>7
  <2> QED BY <1>1, <1>3, <1>7, <1>8, <1>9, <1>11, <2>1, <2>2, InsertKeeps
<1> QED BY <1>1, <1>10, <1>11

LEMMA AllocGlobal_Keeps ==
    ASSUME IInv, AllocGlobal
    PROVE  IInv'
<1> DEFINE relocs == prog.relocs[Call.id]
           rest == <<Op("alloc_init", Call.id, Call.name)>>
           ops == relocs \o rest
<1>1. /\ Working /\ agenda # <<>> /\ Call.op = "alloc_global"
      /\ KeepContext /\ alloc_map' = alloc_map
      /\ symbol_table' = ensure(symbol_table, Call.name, "var")
      /\ agenda' = ops \o Tail(agenda)
  BY DEF AllocGlobal, Do, Then
<1>2. /\ Call.id \in Contents /\ Call.name \in Names /\ phase' = "codegen"
      /\ Call.name.sort \in {"static", "alloc", "global"}
  BY <1>1, CallOK, OpsTyped DEF DataOps, DeclareOps, KeepContext, OpOK
<1>3. Call.name \in DOMAIN symbol_table'
  BY <1>1 DEF ensure, insert, With, Contains
<1>4. rest \in Seq(Ops) /\ \A o \in Elems(rest) : OpOK(o)'
  <2>1. /\ Op("alloc_init", Call.id, Call.name) \in Ops
        /\ \A o \in {Op("alloc_init", Call.id, Call.name)} : OpOK(o)'
    BY <1>2, <1>3, AllocOK DEF Contains
  <2> QED BY <2>1, Agenda1
<1>5. relocs \in Seq(Ops) /\ \A o \in Elems(relocs) : OpOK(o)'
  BY <1>2, ProgTyped, UsesOK
<1> HIDE DEF relocs, rest
<1>6. ops \in Seq(Ops) /\ \A o \in Elems(ops) : OpOK(o)'
  BY <1>4, <1>5, AgendaConcat
<1>7. "var" \in SymbolKinds
  BY DEF SymbolKinds
<1> HIDE DEF ops
<1> QED BY <1>1, <1>2, <1>6, <1>7, InsertKeeps

LEMMA AllocInit_Keeps ==
    ASSUME IInv, AllocInit
    PROVE  IInv'
<1> DEFINE var == Derived(Call.name, "init_var")
           init == Derived(Call.name, "init")
<1>1. /\ Working /\ agenda # <<>> /\ Call.op = "alloc_init" /\ KeepContext
      /\ ~Contains(symbol_table, var)
      /\ symbol_table' = ensure(insert(symbol_table, var, "var"), init, "def")
      /\ alloc_map' = With(alloc_map, Call.id, Call.name)
      /\ agenda' = <<>> \o Tail(agenda)
  BY DEF AllocInit, Do, Then, AssertionsHold, CanInsert
<1>2. /\ Call.id \in Contents /\ Call.name \in Names /\ Contains(symbol_table, Call.name)
      /\ Call.name.sort \in {"static", "alloc", "global"}
  BY <1>1, CallOK, OpsTyped DEF DataOps, OpOK
<1>3. /\ var \in Names /\ var.sort \in {"static", "alloc", "global"}
      /\ init \in Names /\ init.sort \in {"static", "alloc", "global"}
      /\ var # init
  BY <1>2 DEF Derived, Var, Names, Views
<1> HIDE DEF var, init
<1>4. /\ DOMAIN symbol_table' = DOMAIN symbol_table \cup {var, init}
      /\ \A m \in DOMAIN symbol_table : symbol_table'[m] = symbol_table[m]
      /\ symbol_table'[var] = "var"
      /\ init \notin DOMAIN symbol_table => symbol_table'[init] = "def"
  BY <1>1, <1>3 DEF ensure, insert, With, Contains
<1>5. /\ DOMAIN alloc_map' = DOMAIN alloc_map \cup {Call.id}
      /\ \A c \in DOMAIN alloc_map' :
            alloc_map'[c] = IF c = Call.id THEN Call.name ELSE alloc_map[c]
  BY <1>1 DEF With
<1>6. agenda' \in Seq(Ops)
  <2>1. agenda \in Seq(Ops)
    BY DEF IInv, TypeOK
  <2> QED BY <1>1, <2>1, Agenda0, PendingStep
<1>7. TypeOK'
  BY <1>1, <1>2, <1>3, <1>4, <1>5, <1>6 DEF IInv, TypeOK, KeepContext, SymbolKinds
<1>8. AllocMapSound'
  <2> SUFFICES ASSUME NEW c \in DOMAIN alloc_map'
               PROVE  /\ alloc_map'[c] \in DOMAIN symbol_table'
                      /\ Derived(alloc_map'[c], "init") \in DOMAIN symbol_table'
    BY DEF AllocMapSound, Contains, Derived, Var
  <2>1. CASE c = Call.id
    <3>1. alloc_map'[c] = Call.name
      BY <1>5, <2>1
    <3> QED BY <1>2, <1>4, <3>1 DEF init, Contains
  <2>2. CASE c # Call.id
    <3>1. c \in DOMAIN alloc_map /\ alloc_map'[c] = alloc_map[c]
      BY <1>5, <2>2
    <3> QED BY <1>4, <3>1 DEF IInv, AllocMapSound, Contains
  <2> QED BY <2>1, <2>2
<1>9. Grows /\ NewOK(<<>>)
  BY <1>1, <1>3, <1>4 DEF Grows, NewOK, Contains
<1>10. Discharged(<<>>)
  BY <1>1 DEF Discharged
<1> QED BY <1>1, <1>7, <1>8, <1>9, <1>10, Agenda0, OrdinaryKeeps DEF KeepContext
-----------------------------------------------------------------------------
(* Vtables, and the declaration of functions.                              *)
LEMMA codegen_vtable_Keeps ==
    ASSUME IInv, codegen_vtable
    PROVE  IInv'
<1> DEFINE var == Name("vtable", Call.id)
           ty == Op("ty", prog.impl[Call.id], NoName)
           temp == Op("temp", None, NoName)
           drop == Op("vtable_drop", Call.id, NoName)
           init == Op("vtable_init", Call.id, NoName)
           ops == <<ty, temp, drop, init>>
<1>1. /\ Working /\ agenda # <<>> /\ Call.op = "vtable" /\ KeepContext /\ alloc_map' = alloc_map
      /\ \/ agenda' = <<>> \o Tail(agenda) /\ symbol_table' = symbol_table
         \/ /\ ~Contains(symbol_table, var)
            /\ symbol_table' = insert(symbol_table, var, "var")
            /\ agenda' = ops \o Tail(agenda)
  BY DEF codegen_vtable, Do, Then
<1>2. Call.id \in Vtables /\ phase' = "codegen" /\ prog.impl[Call.id] \in Types
  BY <1>1, CallOK, OpsTyped, ProgTyped DEF DeclareOps, KeepContext
<1>3. var \in Names /\ var.sort = "vtable"
  BY <1>2 DEF Name, Names, Sorts, Ids, Views
<1>4. ty \in Ops /\ \A o \in {ty} : OpOK(o)'
  BY <1>2, TyOK
<1>5. /\ temp \in Ops /\ temp.op = "temp" /\ drop \in Ops /\ drop.op = "vtable_drop"
      /\ init \in Ops /\ init.op = "vtable_init"
  BY <1>2, VtableOpTyped, TempTyped
<1>6. \A o \in {temp, drop, init} : OpOK(o)'
  BY <1>2, <1>5, LaterOK
<1> HIDE DEF ty, temp, drop, init
<1>7. ops \in Seq(Ops) /\ Elems(ops) = {ty, temp, drop, init}
  BY <1>4, <1>5, Agenda4
<1>8. ~Contains(symbol_table, var) => insert(symbol_table, var, "var")
                                        = ensure(symbol_table, var, "var")
  BY DEF ensure
<1>9. "var" \in SymbolKinds
  BY DEF SymbolKinds
<1> HIDE DEF ops, var
<1>10. CASE agenda' = <<>> \o Tail(agenda) /\ symbol_table' = symbol_table
  BY <1>1, <1>10, Agenda0, CallsKeep DEF KeepTables
<1>11. CASE /\ ~Contains(symbol_table, var)
            /\ symbol_table' = insert(symbol_table, var, "var")
            /\ agenda' = ops \o Tail(agenda)
  <2>1. \A o \in Elems(ops) : OpOK(o)'
    BY <1>4, <1>6, <1>7
  <2> QED BY <1>1, <1>3, <1>7, <1>8, <1>9, <1>11, <2>1, InsertKeeps
<1> QED BY <1>1, <1>10, <1>11

LEMMA codegen_vtable_drop_in_place_Keeps ==
    ASSUME IInv, codegen_vtable_drop_in_place
    PROVE  IInv'
<1> DEFINE drop == prog.drop[Call.id]
           name == Name("unimplemented", drop)
           var == Var(name, "var", 0)
           ops == <<Insert("insert_var", var), Insert("insert_def", name)>>
<1>1. /\ Working /\ agenda # <<>> /\ Call.op = "vtable_drop" /\ KeepContext /\ KeepTables
      /\ \/ agenda' = <<>> \o Tail(agenda)
         \/ /\ ~Contains(symbol_table, Name("fn", drop))
            /\ agenda' = ops \o Tail(agenda)
  BY DEF codegen_vtable_drop_in_place, Do, Then
<1>2. /\ phase = "codegen" /\ phase' = phase /\ prog' = prog
      /\ Call.id \in Vtables /\ drop \in Fns
  BY <1>1, CallOK, OpsTyped, ProgTyped DEF DeclareOps, KeepContext
<1>3. /\ name \in Names /\ name.sort = "unimplemented" /\ name.id = drop
      /\ var \in Names /\ var.sort = "unimplemented" /\ var.id = drop
  BY <1>2 DEF Name, Var, Names, Sorts, Ids, Views
<1>4. ~Contains(symbol_table, Name("fn", drop)) => drop \notin ItemFns
  BY <1>2 DEF IInv, DeclaredOK
<1>5. ItemFns' = ItemFns
  BY <1>2 DEF ItemFns
<1> HIDE DEF drop, name, var
<1>6. /\ Insert("insert_var", var) \in Ops /\ Insert("insert_def", name) \in Ops
      /\ Insert("insert_var", var).op = "insert_var" /\ Insert("insert_var", var).name = var
      /\ Insert("insert_def", name).op = "insert_def" /\ Insert("insert_def", name).name = name
  BY <1>3, InsertOK, OpFields
<1>7. ops \in Seq(Ops) /\ Elems(ops) = {Insert("insert_var", var), Insert("insert_def", name)}
  BY <1>6, Agenda2
<1>8. ~Contains(symbol_table, Name("fn", drop)) => \A o \in Elems(ops) : OpOK(o)'
  BY <1>2, <1>3, <1>4, <1>5, <1>6, <1>7 DEF OpOK
<1> HIDE DEF ops
<1> QED BY <1>1, <1>7, <1>8, Agenda0, CallsKeep

LEMMA VtableInit_Keeps ==
    ASSUME IInv, VtableInit
    PROVE  IInv'
<1> DEFINE init == Derived(Name("vtable", Call.id), "init")
<1>1. /\ Working /\ agenda # <<>> /\ Call.op = "vtable_init"
      /\ KeepContext /\ alloc_map' = alloc_map /\ agenda' = <<>> \o Tail(agenda)
      /\ symbol_table' = ensure(symbol_table, init, "def")
  BY DEF VtableInit, Do, Then
<1>2. Call.id \in Vtables
  BY <1>1, CallOK, OpsTyped
<1>3. init \in Names /\ init.sort = "vtable"
  BY <1>2 DEF Name, Derived, Var, Names, Sorts, Ids, Views
<1>4. "def" \in SymbolKinds
  BY DEF SymbolKinds
<1> HIDE DEF init
<1> QED BY <1>1, <1>3, <1>4, Agenda0, InsertKeeps

LEMMA declare_function_Keeps ==
    ASSUME IInv, declare_function
    PROVE  IInv'
<1> DEFINE name == Name("fn", Call.id)
           sig == Calls("ty", prog.sig[Call.id])
           decl == <<Insert("insert_decl", name)>>
           reset == <<Op("reset", None, NoName)>>
           new == (sig \o decl) \o reset
<1>1. /\ Working /\ agenda # <<>> /\ Call.op = "declare_fn"
      /\ \/ Contains(symbol_table, name) /\ agenda' = (<<>> \o reset) \o Tail(agenda)
         \/ agenda' = new \o Tail(agenda)
      /\ current_fn' = Call.id /\ temp_var_counter' = 0
      /\ UNCHANGED <<prog, phase, next, symbol_table, alloc_map, global_var_count,
                     proof_harnesses>>
  BY DEF declare_function, Do, Then
<1>2. Call.id \in Fns
  BY <1>1, CallOK, OpsTyped DEF FnOps
<1>3. name \in Names /\ name.sort = "fn"
  BY <1>2 DEF Name, Names, Sorts, Ids, Views
<1>4. sig \in Seq(Ops) /\ \A o \in Elems(sig) : OpOK(o)'
  BY <1>2, ProgTyped, CallsOK, PlainOK
<1>5. /\ decl \in Seq(Ops) /\ Elems(decl) = {Insert("insert_decl", name)}
      /\ \A o \in Elems(decl) : OpOK(o)'
  BY <1>3, InsertOK, Agenda1
<1>6. reset \in Seq(Ops) /\ \A o \in Elems(reset) : OpOK(o)'
  <2>1. Op("reset", None, NoName) \in Ops /\ Op("reset", None, NoName).op = "reset"
    BY NoNameTyped, OpTyped, OpFields, SMTT(30)
  <2> QED BY <2>1, PlainOK, Agenda1
<1> HIDE DEF sig, decl, reset
<1>7. <<>> \o reset \in Seq(Ops) /\ Elems(<<>> \o reset) = Elems(reset)
  BY <1>6, Agenda0, AgendaConcat
<1>8. new \in Seq(Ops) /\ Elems(new) = Elems(sig) \cup Elems(decl) \cup Elems(reset)
  <2>1. sig \o decl \in Seq(Ops) /\ Elems(sig \o decl) = Elems(sig) \cup Elems(decl)
    BY <1>4, <1>5, AgendaConcat
  <2> QED BY <1>6, <2>1, AgendaConcat
<1>9. /\ global_var_count' \in Nat /\ current_fn' \in Fns \cup {None}
      /\ temp_var_counter' \in Nat
  BY <1>1, <1>2 DEF IInv, TypeOK
<1> HIDE DEF new
<1>10. CASE Contains(symbol_table, name) /\ agenda' = (<<>> \o reset) \o Tail(agenda)
  BY <1>1, <1>6, <1>7, <1>9, <1>10, PushKeeps
<1>11. CASE agenda' = new \o Tail(agenda)
  <2>1. /\ \A o \in Elems(new) : OpOK(o)'
        /\ Insert("insert_decl", name) \in Elems(new)
    BY <1>4, <1>5, <1>6, <1>8
  <2> QED BY <1>1, <1>8, <1>9, <1>11, <2>1, PushKeeps
<1> QED BY <1>1, <1>10, <1>11

LEMMA reset_current_fn_Keeps ==
    ASSUME IInv, reset_current_fn
    PROVE  IInv'
<1>1. /\ Working /\ agenda # <<>> /\ Call.op = "reset"
      /\ agenda' = <<>> \o Tail(agenda) /\ current_fn' = None
      /\ UNCHANGED <<prog, phase, next, symbol_table, alloc_map, global_var_count,
                     temp_var_counter, proof_harnesses>>
  BY DEF reset_current_fn, Do, Then
<1> QED BY <1>1, Agenda0, PushKeeps DEF IInv, TypeOK
-----------------------------------------------------------------------------
(* The steps that may give a function its body.                            *)
Body(f) ==
    /\ CanDefine(symbol_table, Name("fn", f))
    /\ symbol_table' = With(symbol_table, Name("fn", f), "def")
    /\ proof_harnesses' = IF f \in prog.proof \ prog.skip THEN Append(proof_harnesses, f)
                          ELSE proof_harnesses

NoBody(f, ops) ==
    /\ UNCHANGED <<symbol_table, proof_harnesses>>
    /\ Defined(f) \/ Op("finish_fn", f, NoName) \in Elems(ops)

LEMMA BodyListed ==
    ASSUME IInv, NEW f \in ItemFns, prog' = prog, Body(f)
    PROVE  /\ proof_harnesses' \in Seq(Fns)
           /\ \A g \in Fns : Defined(g)' <=> Defined(g) \/ g = f
           /\ DefinedOK' /\ ListedOK'
<1>1. f \in Fns /\ proof_harnesses \in Seq(Fns) /\ ItemFns' = ItemFns
  BY DEF ItemFns, IInv, TypeOK
<1>2. \A g \in Fns : Name("fn", g) = Name("fn", f) <=> g = f
  BY DEF Name
<1>3. \A g \in Fns : Defined(g)' <=> Defined(g) \/ g = f
  BY <1>1, <1>2 DEF Defined, Contains, Body, CanDefine, With
<1>4. ~Defined(f) /\ f \notin Listed
  BY DEF IInv, ListedOK, Body, CanDefine, Defined
<1>5. CASE f \notin prog.proof \ prog.skip
  <2>1. proof_harnesses' = proof_harnesses /\ Listed' = Listed
    BY <1>5 DEF Body, Listed
  <2>2. Listed \subseteq Fns
    BY <1>1, ElementOfSeq DEF Listed
  <2>3. DefinedOK'
    BY <1>1, <1>3, <1>5, <2>1 DEF IInv, DefinedOK
  <2>4. ListedOK'
    BY <1>3, <2>1, <2>2 DEF IInv, ListedOK
  <2> QED BY <1>1, <1>3, <2>1, <2>3, <2>4
<1>6. CASE f \in prog.proof \ prog.skip
  <2>1. proof_harnesses' = Append(proof_harnesses, f)
    BY <1>6 DEF Body
  <2>2. /\ proof_harnesses' \in Seq(Fns)
        /\ Len(proof_harnesses') = Len(proof_harnesses) + 1
        /\ \A i \in 1 .. Len(proof_harnesses) : proof_harnesses'[i] = proof_harnesses[i]
        /\ proof_harnesses'[Len(proof_harnesses) + 1] = f
    BY <1>1, <2>1, AppendProperties, SMTT(30)
  <2>3. /\ Len(proof_harnesses) \in Nat
        /\ DOMAIN proof_harnesses = 1 .. Len(proof_harnesses)
        /\ DOMAIN proof_harnesses' = 1 .. Len(proof_harnesses) + 1
    BY <1>1, <2>2, LenProperties
  <2>4. \A i \in 1 .. Len(proof_harnesses) : proof_harnesses[i] \in Listed
    BY <2>3 DEF Listed
  <2>5. Listed' = Listed \cup {f}
    <3>1. Listed' = {proof_harnesses'[i] : i \in 1 .. Len(proof_harnesses) + 1}
      BY <2>3 DEF Listed
    <3>2. Listed = {proof_harnesses[i] : i \in 1 .. Len(proof_harnesses)}
      BY <2>3 DEF Listed
    <3> QED BY <2>2, <2>3, <3>1, <3>2
  <2>6. Listed \subseteq Fns
    BY <1>1, ElementOfSeq DEF Listed
  <2>7. DefinedOK'
    BY <1>1, <1>3, <1>6, <2>5 DEF IInv, DefinedOK
  <2>8. ASSUME NEW i \in DOMAIN proof_harnesses', NEW j \in DOMAIN proof_harnesses',
               proof_harnesses'[i] = proof_harnesses'[j]
        PROVE  i = j
    BY <1>4, <2>2, <2>3, <2>4, <2>8 DEF IInv, ListedOK
  <2>9. \A g \in Listed' : Defined(g)' /\ g \in prog'.proof \ prog'.skip
    BY <1>1, <1>3, <1>6, <2>5, <2>6 DEF IInv, ListedOK
  <2>10. ListedOK'
    BY <2>8, <2>9 DEF ListedOK
  <2> QED BY <1>3, <2>2, <2>7, <2>10
<1> QED BY <1>5, <1>6

LEMMA BodyKeeps ==
    ASSUME IInv, Working, agenda # <<>>, NEW f \in ItemFns,
           Call.op \in {"codegen_fn", "finish_fn"}, Call.id = f,
           NEW ops \in Seq(Ops), agenda' = ops \o Tail(agenda),
           \A o \in Elems(ops) : OpOK(o)',
           UNCHANGED <<prog, phase, next, alloc_map, global_var_count>>,
           current_fn' \in Fns \cup {None}, temp_var_counter' \in Nat,
           Body(f) \/ NoBody(f, ops)
    PROVE  IInv'
<1>1. /\ agenda' \in Seq(Ops)
      /\ Call \in Pending
      /\ Pending' \subseteq Elems(ops) \cup Pending
      /\ Elems(ops) \subseteq Pending'
      /\ Pending \ {Call} \subseteq Pending'
  <2>1. agenda \in Seq(Ops)
    BY DEF IInv, TypeOK
  <2> QED BY <2>1, PendingStep
<1>2. ItemFns' = ItemFns /\ phase = "codegen" /\ f \in Fns
  BY CallOK DEF ItemFns, DeclareOps
<1>3. /\ DOMAIN symbol_table' = DOMAIN symbol_table
      /\ \A n \in DOMAIN symbol_table :
            \/ symbol_table'[n] = symbol_table[n]
            \/ symbol_table[n] = "decl" /\ symbol_table'[n] = "def"
  BY DEF Body, NoBody, CanDefine, With, Contains
<1>4. /\ proof_harnesses' \in Seq(Fns) /\ DefinedOK' /\ ListedOK'
      /\ \A g \in Fns : Defined(g) => Defined(g)'
      /\ Defined(f)' \/ Op("finish_fn", f, NoName) \in Elems(ops)
  <2>1. CASE Body(f)
    BY <1>2, <2>1, BodyListed
  <2>2. CASE NoBody(f, ops)
    <3>1. /\ \A g \in Fns : Defined(g)' <=> Defined(g)
          /\ proof_harnesses' = proof_harnesses /\ Listed' = Listed
          /\ proof_harnesses \in Seq(Fns)
      BY <2>2 DEF NoBody, Defined, Listed, IInv, TypeOK
    <3>2. Listed \subseteq Fns
      BY <3>1, ElementOfSeq, SMTT(30) DEF Listed
    <3>3. DefinedOK'
      BY <1>2, <3>1 DEF IInv, DefinedOK
    <3>4. ListedOK'
      BY <3>1, <3>2 DEF IInv, ListedOK
    <3> QED BY <1>2, <2>2, <3>1, <3>3, <3>4 DEF NoBody
  <2> QED BY <2>1, <2>2
<1>5. TypeOK'
  BY <1>1, <1>3, <1>4 DEF IInv, TypeOK, SymbolKinds
<1>6. PendingOK'
  <2>1. ASSUME NEW o \in Pending, OpOK(o) PROVE OpOK(o)'
    BY <1>2, <1>3, <2>1 DEF OpOK, Contains
  <2>2. \A o \in Pending : OpOK(o)'
    BY <2>1 DEF IInv, PendingOK
  <2> QED BY <1>1, <2>2 DEF PendingOK
<1>7. IncompleteOK'
  <2> SUFFICES ASSUME NEW n \in DOMAIN symbol_table', symbol_table'[n] = "incomplete"
               PROVE  \/ n.sort = "type" /\ n.id \in prog.foreign
                      \/ Insert("complete", n) \in Pending'
    BY DEF IncompleteOK, Insert, Op
  <2>1. n \in DOMAIN symbol_table /\ symbol_table[n] = "incomplete"
    BY <1>3
  <2>2. Insert("complete", n) # Call
    BY DEF Insert, Op
  <2> QED BY <1>1, <2>1, <2>2 DEF IInv, IncompleteOK
<1>8. DeclaredOK'
  BY <1>2, <1>3 DEF IInv, DeclaredOK, Contains
<1>9. CodegennedOK'
  <2> SUFFICES ASSUME NEW g \in Fns, Started(g)
               PROVE  \/ Defined(g)'
                      \/ Op("codegen_fn", g, NoName) \in Pending'
                      \/ Op("finish_fn", g, NoName) \in Pending'
    BY <1>2 DEF CodegennedOK, Started
  <2>1. CASE g = f
    BY <1>1, <1>4, <2>1
  <2>2. CASE g # f
    <3>1. Op("codegen_fn", g, NoName) # Call /\ Op("finish_fn", g, NoName) # Call
      BY <2>2 DEF Op
    <3> QED BY <1>1, <1>2, <1>4, <3>1 DEF IInv, CodegennedOK
  <2> QED BY <2>1, <2>2
<1>10. AllocMapSound' /\ DropsResolved'
  BY <1>2, <1>3 DEF IInv, AllocMapSound, DropsResolved, Contains
<1> QED BY <1>4, <1>5, <1>6, <1>7, <1>8, <1>9, <1>10 DEF IInv

LEMMA VariablesOK ==
    ASSUME NEW op \in {"spread", "local"}, NEW f \in Fns, NEW v \in Views,
           NEW ts \in Seq(Types), phase' = "codegen"
    PROVE  /\ Variables(op, Name("fn", f), v, ts) \in Seq(Ops)
           /\ \A o \in Elems(Variables(op, Name("fn", f), v, ts)) : OpOK(o)'
<1> DEFINE var(i) == Op(op, ts[i], Var(Name("fn", f), v, i))
<1>1. Len(ts) \in Nat /\ \A i \in 1 .. Len(ts) : ts[i] \in Types
  BY LenProperties, ElementOfSeq
<1>2. ASSUME NEW i \in 1 .. Len(ts)
      PROVE  var(i) \in Ops /\ var(i).op = op /\ var(i).name.sort = "fn"
  <2>1. Var(Name("fn", f), v, i) \in Names /\ Var(Name("fn", f), v, i).sort = "fn"
    BY <1>1 DEF Var, Name, Names, Sorts, Ids
  <2>2. op \in TypeOps /\ ts[i] \in Types
    BY <1>1 DEF TypeOps
  <2>3. var(i) \in Ops
    BY <2>1, <2>2, OpTyped
  <2>4. var(i).op = op /\ var(i).name = Var(Name("fn", f), v, i)
    BY DEF Op
  <2> HIDE DEF var
  <2> QED BY <2>1, <2>3, <2>4, Zenon
<1>3. Variables(op, Name("fn", f), v, ts) = [i \in 1 .. Len(ts) |-> var(i)]
  BY DEF Variables
<1> HIDE DEF var
<1>4. [i \in 1 .. Len(ts) |-> var(i)] \in Seq(Ops)
  BY <1>1, <1>2, IsASeq
<1>5. \A o \in Elems([i \in 1 .. Len(ts) |-> var(i)]) : \E i \in 1 .. Len(ts) : o = var(i)
  BY DEF Elems
<1>6. \A o \in Ops : o.op = op /\ o.name.sort = "fn" => OpOK(o)'
  BY DEF OpOK
<1> QED BY <1>2, <1>3, <1>4, <1>5, <1>6, SMTT(30)

LEMMA PreludeOK ==
    ASSUME IInv, NEW f \in Fns, phase' = "codegen"
    PROVE  /\ codegen_function_prelude(f) \in Seq(Ops)
           /\ \A o \in Elems(codegen_function_prelude(f)) : OpOK(o)'
<1> DEFINE spread == prog.spread[f]
           name == Name("fn", f)
           ty == <<Op("ty", prog.locals[f][spread], NoName)>>
           args == Variables("spread", name, "spread", prog.args[f])
           last == <<Insert("insert_var", Var(name, "var", spread))>>
<1>1. /\ spread \in Nat /\ prog.locals[f] \in Seq(Types) /\ prog.args[f] \in Seq(Types)
  BY ProgTyped
<1>2. CASE spread \notin DOMAIN prog.locals[f]
  BY <1>2, Agenda0 DEF codegen_function_prelude
<1>3. CASE spread \in DOMAIN prog.locals[f]
  <2>1. prog.locals[f][spread] \in Types
    BY <1>1, <1>3, LenProperties, ElementOfSeq
  <2>2. ty \in Seq(Ops) /\ \A o \in Elems(ty) : OpOK(o)'
    BY <2>1, TyOK, Agenda1
  <2>3. args \in Seq(Ops) /\ \A o \in Elems(args) : OpOK(o)'
    BY <1>1, VariablesOK DEF Views
  <2>4. Var(name, "var", spread) \in Names /\ Var(name, "var", spread).sort = "fn"
    BY <1>1 DEF Var, Name, Names, Sorts, Ids, Views
  <2>5. last \in Seq(Ops) /\ \A o \in Elems(last) : OpOK(o)'
    BY <2>4, InsertOK, Agenda1
  <2>6. codegen_function_prelude(f) = (ty \o args) \o last
    BY <1>3 DEF codegen_function_prelude
  <2> HIDE DEF ty, args, last
  <2>7. ty \o args \in Seq(Ops) /\ Elems(ty \o args) = Elems(ty) \cup Elems(args)
    BY <2>2, <2>3, AgendaConcat
  <2>8. /\ (ty \o args) \o last \in Seq(Ops)
        /\ Elems((ty \o args) \o last) = Elems(ty \o args) \cup Elems(last)
    BY <2>5, <2>7, AgendaConcat
  <2> QED BY <2>2, <2>3, <2>5, <2>6, <2>7, <2>8
<1> QED BY <1>2, <1>3

LEMMA codegen_function_Keeps ==
    ASSUME IInv, codegen_function
    PROVE  IInv'
<1>1. PICK f : f = Call.id
  OBVIOUS
<1> DEFINE pre == codegen_function_prelude(f)
           locals == Variables("local", Name("fn", f), "var", prog.locals[f])
           body == prog.body[f]
           finish == Op("finish_fn", f, NoName)
           ops == ((pre \o locals) \o body) \o <<finish>>
<1>2. /\ Working /\ agenda # <<>> /\ Call.op = "codegen_fn" /\ Call.id = f
      /\ Contains(symbol_table, Name("fn", f))
      /\ temp_var_counter' = 0
      /\ UNCHANGED <<prog, phase, next, alloc_map, global_var_count, proof_harnesses>>
      /\ \/ /\ symbol_table[Name("fn", f)] = "def" /\ symbol_table' = symbol_table
            /\ agenda' = <<>> \o Tail(agenda) /\ current_fn' = None
         \/ /\ symbol_table[Name("fn", f)] = "decl" /\ f \in prog.skip
            /\ symbol_table' = With(symbol_table, Name("fn", f), "def")
            /\ agenda' = <<>> \o Tail(agenda) /\ current_fn' = None
         \/ /\ f \notin prog.skip /\ symbol_table' = symbol_table
            /\ agenda' = ops \o Tail(agenda) /\ current_fn' = f
  BY <1>1 DEF codegen_function, Do, Then, AssertionsHold,
              update_fn_declaration_with_definition
<1>3. /\ f \in ItemFns /\ f \in Fns /\ phase' = "codegen"
  BY <1>2, CallOK DEF OpOK, ItemFns, DeclareOps
<1>4. ItemFns' = ItemFns
  BY <1>2 DEF ItemFns
<1>5. CASE /\ symbol_table[Name("fn", f)] = "def" /\ symbol_table' = symbol_table
           /\ agenda' = <<>> \o Tail(agenda) /\ current_fn' = None
  <2>1. NoBody(f, <<>>)
    BY <1>2, <1>5 DEF NoBody, Defined
  <2> QED BY <1>2, <1>3, <1>5, <2>1, Agenda0, BodyKeeps
<1>6. CASE /\ symbol_table[Name("fn", f)] = "decl" /\ f \in prog.skip
           /\ symbol_table' = With(symbol_table, Name("fn", f), "def")
           /\ agenda' = <<>> \o Tail(agenda) /\ current_fn' = None
  <2>1. Body(f)
    BY <1>2, <1>6 DEF Body, CanDefine
  <2> QED BY <1>2, <1>3, <1>6, <2>1, Agenda0, BodyKeeps
<1>7. CASE /\ f \notin prog.skip /\ symbol_table' = symbol_table
           /\ agenda' = ops \o Tail(agenda) /\ current_fn' = f
  <2>1. pre \in Seq(Ops) /\ \A o \in Elems(pre) : OpOK(o)'
    BY <1>3, PreludeOK
  <2>2. locals \in Seq(Ops) /\ \A o \in Elems(locals) : OpOK(o)'
    BY <1>3, ProgTyped, VariablesOK DEF Views
  <2>3. body \in Seq(Ops) /\ \A o \in Elems(body) : OpOK(o)'
    BY <1>3, ProgTyped, UsesOK
  <2>4. finish \in Ops /\ finish.op = "finish_fn" /\ finish.id = f
    BY <1>3, FnOpTyped DEF FnOps
  <2>5. \A o \in {finish} : OpOK(o)'
    BY <1>2, <1>3, <1>4, <1>7, <2>4 DEF OpOK
  <2>6. <<finish>> \in Seq(Ops) /\ Elems(<<finish>>) = {finish}
    BY <2>4, Agenda1
  <2> HIDE DEF pre, locals, body, finish
  <2>7. pre \o locals \in Seq(Ops) /\ Elems(pre \o locals) = Elems(pre) \cup Elems(locals)
    BY <2>1, <2>2, AgendaConcat
  <2>8. /\ (pre \o locals) \o body \in Seq(Ops)
        /\ Elems((pre \o locals) \o body) = Elems(pre \o locals) \cup Elems(body)
    BY <2>3, <2>7, AgendaConcat
  <2>9. ops \in Seq(Ops) /\ Elems(ops) = Elems((pre \o locals) \o body) \cup {finish}
    BY <2>6, <2>8, AgendaConcat
  <2> HIDE DEF ops
  <2>10. \A o \in Elems(ops) : OpOK(o)'
    BY <2>1, <2>2, <2>3, <2>5, <2>7, <2>8, <2>9
  <2>11. NoBody(f, ops)
    BY <1>2, <1>7, <2>9 DEF NoBody, finish
  <2> QED BY <1>2, <1>3, <1>7, <2>9, <2>10, <2>11, BodyKeeps
<1> QED BY <1>2, <1>5, <1>6, <1>7

LEMMA FinishFunction_Keeps ==
    ASSUME IInv, FinishFunction
    PROVE  IInv'
<1>1. PICK f : f = Call.id
  OBVIOUS
<1>2. /\ Working /\ agenda # <<>> /\ Call.op = "finish_fn" /\ Call.id = f
      /\ CanDefine(symbol_table, Name("fn", f))
      /\ symbol_table' = With(symbol_table, Name("fn", f), "def")
      /\ proof_harnesses' = IF f \in prog.proof THEN Append(proof_harnesses, f)
                            ELSE proof_harnesses
      /\ agenda' = <<>> \o Tail(agenda) /\ current_fn' = None
      /\ UNCHANGED <<prog, phase, next, alloc_map, global_var_count, temp_var_counter>>
  BY <1>1 DEF FinishFunction, Do, Then, AssertionsHold,
              update_fn_declaration_with_definition
<1>3. f \in ItemFns /\ f \notin prog.skip
  BY <1>2, CallOK DEF OpOK
<1>4. Body(f)
  BY <1>2, <1>3 DEF Body
<1>5. temp_var_counter' \in Nat
  BY <1>2 DEF IInv, TypeOK
<1> QED BY <1>2, <1>3, <1>4, <1>5, Agenda0, BodyKeeps
-----------------------------------------------------------------------------
(* The loops.                                                              *)
LEMMA StartItem_Keeps ==
    ASSUME IInv, StartItem
    PROVE  IInv'
<1>1. PICK item, o : item = prog.items[next] /\ o = ItemCall(prog.items[next])
  OBVIOUS
<1>2. /\ Working /\ agenda = <<>> /\ next \in DOMAIN prog.items
      /\ agenda' = <<o>> /\ next' = next + 1
      /\ UNCHANGED <<prog, phase, symbol_table, alloc_map, global_var_count, current_fn,
                     temp_var_counter, proof_harnesses>>
  BY <1>1 DEF StartItem
<1>3. item \in Items
  BY <1>1, <1>2, ProgTyped, LenProperties, ElementOfSeq
<1>4. /\ item.op = "fn" => item.id \in Fns /\ item = [op |-> "fn", id |-> item.id]
      /\ item.op # "fn" => item.op = "static" /\ item.id \in Statics
  BY <1>3 DEF Items
<1>5. /\ o \in Ops
      /\ phase = "declare" => o.op \in {"declare_fn", "declare_static"}
      /\ phase = "codegen" => o.op \in {"codegen_fn", "codegen_static"}
      /\ item.op = "fn" => /\ phase = "declare" => o = Op("declare_fn", item.id, NoName)
                           /\ phase = "codegen" => o = Op("codegen_fn", item.id, NoName)
      /\ o.op = "codegen_fn" => item.op = "fn"
  <2>1. CASE item.op = "fn"
    <3>1. /\ phase = "declare" => o = Op("declare_fn", item.id, NoName)
          /\ phase = "codegen" => o = Op("codegen_fn", item.id, NoName)
      BY <1>1, <2>1 DEF ItemCall
    <3>2. \A k \in {"declare_fn", "codegen_fn"} :
             Op(k, item.id, NoName) \in Ops /\ Op(k, item.id, NoName).op = k
      BY <1>4, <2>1, FnOpTyped DEF FnOps
    <3> QED BY <1>2, <2>1, <3>1, <3>2 DEF Working
  <2>2. CASE item.op # "fn"
    <3>1. /\ phase = "declare" => o = Op("declare_static", item.id, NoName)
          /\ phase = "codegen" => o = Op("codegen_static", item.id, NoName)
      BY <1>1, <1>4, <2>2 DEF ItemCall
    <3>2. \A k \in {"declare_static", "codegen_static"} :
             Op(k, item.id, NoName) \in Ops /\ Op(k, item.id, NoName).op = k
      BY <1>4, <2>2, StaticOpTyped
    <3> QED BY <1>2, <2>2, <3>1, <3>2 DEF Working
  <2> QED BY <2>1, <2>2
<1>6. /\ agenda' \in Seq(Ops) /\ Pending' = {o} /\ Pending = {}
  <2>1. /\ Elems(<<o>>) = {o} /\ <<o>> \in Seq(Ops) /\ Elems(<<>>) = {}
    BY <1>5, Agenda0, Agenda1
  <2> QED BY <1>2, <2>1 DEF Pending, Elems
<1>7. ItemFns' = ItemFns
  BY <1>2 DEF ItemFns
<1>8. TypeOK'
  BY <1>2, <1>6 DEF IInv, TypeOK
<1>9. OpOK(o)'
  <2>1. item.op = "fn" => item.id \in ItemFns
    BY <1>1, <1>2, <1>4 DEF ItemFns
  <2>2. o.op = "codegen_fn" => o.id \in ItemFns
    <3> SUFFICES ASSUME o.op = "codegen_fn" PROVE o.id \in ItemFns
      OBVIOUS
    <3>1. item.op = "fn" /\ item.id \in Fns /\ phase = "codegen"
      BY <1>2, <1>4, <1>5 DEF Working
    <3>2. o.id = item.id
      BY <1>5, <3>1, FnOpTyped DEF FnOps
    <3> QED BY <2>1, <3>1, <3>2
  <2> QED BY <1>2, <1>5, <1>7, <2>2 DEF OpOK, DeclareOps, Working
<1>10. PendingOK'
  BY <1>6, <1>9 DEF PendingOK
<1>11. DefinedOK' /\ ListedOK' /\ AllocMapSound' /\ DropsResolved'
  BY <1>2, <1>7 DEF IInv, DefinedOK, ListedOK, Listed, Defined, AllocMapSound, DropsResolved
<1>12. IncompleteOK'
  BY <1>2, <1>6 DEF IInv, IncompleteOK
<1>13. ASSUME NEW f \in Fns, Started(f)' PROVE Started(f) \/ item = [op |-> "fn", id |-> f]
  <2>1. PICK i \in DOMAIN prog.items : i < next + 1 /\ prog.items[i] = [op |-> "fn", id |-> f]
    BY <1>2, <1>13 DEF Started
  <2>2. i \in Nat /\ next \in Nat
    BY ItemsIndexed
  <2>3. i < next \/ i = next
    BY <2>1, <2>2
  <2> QED BY <1>1, <2>1, <2>3 DEF Started
<1>14. \A f \in Fns : item = [op |-> "fn", id |-> f] => item.op = "fn" /\ item.id = f
  OBVIOUS
<1>15. DeclaredOK'
  BY <1>2, <1>5, <1>6, <1>7, <1>13, <1>14 DEF IInv, DeclaredOK, Working
<1>16. CodegennedOK'
  <2> SUFFICES ASSUME phase = "codegen", NEW f \in Fns, Started(f)'
               PROVE  Defined(f) \/ Op("codegen_fn", f, NoName) = o
    BY <1>2, <1>6 DEF CodegennedOK, Working, Defined
  <2> QED BY <1>5, <1>6, <1>13, <1>14 DEF IInv, CodegennedOK
<1> QED BY <1>8, <1>10, <1>11, <1>12, <1>15, <1>16 DEF IInv

LEMMA EndLoop_Keeps ==
    ASSUME IInv, EndLoop
    PROVE  IInv'
<1>1. /\ Working /\ agenda = <<>> /\ next \notin DOMAIN prog.items
      /\ phase' = IF phase = "declare" THEN "codegen" ELSE "done"
      /\ next' = 1
      /\ UNCHANGED <<prog, agenda, symbol_table, alloc_map, global_var_count, current_fn,
                     temp_var_counter, proof_harnesses>>
  BY DEF EndLoop
<1>2. Pending = {} /\ Pending' = {}
  <2>1. Elems(<<>>) = {}
    BY Agenda0
  <2> QED BY <1>1, <2>1 DEF Pending, Elems
<1>3. ItemFns' = ItemFns
  BY <1>1 DEF ItemFns
<1>4. \A f \in ItemFns : f \in Fns /\ Started(f)
  <2> SUFFICES ASSUME NEW f \in ItemFns PROVE f \in Fns /\ Started(f)
    OBVIOUS
  <2>1. PICK i \in DOMAIN prog.items : prog.items[i] = [op |-> "fn", id |-> f]
    BY DEF ItemFns
  <2>2. /\ DOMAIN prog.items = 1 .. Len(prog.items) /\ Len(prog.items) \in Nat
        /\ next \in Nat \ {0}
    BY ItemsIndexed
  <2>3. i < next
    BY <1>1, <2>1, <2>2
  <2> QED BY <2>1, <2>3 DEF Started, ItemFns
<1>5. \A f \in Fns : ~Started(f)'
  <2>1. \A i \in DOMAIN prog.items : i \in Nat \ {0}
    BY ItemsIndexed
  <2> QED BY <1>1, <2>1 DEF Started
<1>6. TypeOK'
  BY <1>1 DEF IInv, TypeOK, Working
<1>7. PendingOK'
  BY <1>2 DEF PendingOK
<1>8. DefinedOK' /\ ListedOK' /\ AllocMapSound' /\ DropsResolved'
  BY <1>1, <1>3 DEF IInv, DefinedOK, ListedOK, Listed, Defined, AllocMapSound, DropsResolved
<1>9. IncompleteOK'
  BY <1>1, <1>2 DEF IInv, IncompleteOK
<1>10. DeclaredOK'
  <2>1. \A f \in ItemFns : Contains(symbol_table, Name("fn", f))
    BY <1>1, <1>2, <1>4 DEF IInv, DeclaredOK, Working
  <2> QED BY <1>1, <1>3, <2>1 DEF DeclaredOK, Contains
<1>11. CodegennedOK'
  <2>1. CASE phase = "declare"
    BY <1>1, <1>5, <2>1 DEF CodegennedOK
  <2>2. CASE phase = "codegen"
    <3>1. \A f \in ItemFns : Defined(f)
      BY <1>2, <1>4, <2>2 DEF IInv, CodegennedOK
    <3> QED BY <1>1, <1>3, <2>2, <3>1 DEF CodegennedOK, Defined
  <2> QED BY <1>1, <2>1, <2>2 DEF Working
<1> QED BY <1>6, <1>7, <1>8, <1>9, <1>10, <1>11 DEF IInv

LEMMA Panic_Keeps ==
    ASSUME IInv, Panic
    PROVE  IInv'
<1>1. /\ phase' = "panic"
      /\ UNCHANGED <<prog, next, agenda, symbol_table, alloc_map, global_var_count,
                     current_fn, temp_var_counter, proof_harnesses>>
  BY DEF Panic
<1>2. ItemFns' = ItemFns /\ Pending' = Pending
  BY <1>1 DEF ItemFns, Pending
<1>3. PendingOK'
  <2>1. ASSUME NEW o \in Pending, OpOK(o) PROVE OpOK(o)'
    BY <1>1, <1>2, <2>1 DEF OpOK, Contains
  <2>2. \A o \in Pending : OpOK(o)'
    BY <2>1 DEF IInv, PendingOK
  <2> QED BY <1>2, <2>2 DEF PendingOK
<1>4. TypeOK'
  BY <1>1 DEF IInv, TypeOK
<1>5. DefinedOK' /\ ListedOK' /\ AllocMapSound' /\ DropsResolved'
  BY <1>1, <1>2 DEF IInv, DefinedOK, ListedOK, Listed, Defined, AllocMapSound, DropsResolved
<1>6. IncompleteOK' /\ DeclaredOK' /\ CodegennedOK'
  BY <1>1, <1>2 DEF IInv, IncompleteOK, DeclaredOK, CodegennedOK
<1> QED BY <1>3, <1>4, <1>5, <1>6 DEF IInv

LEMMA StutterKeeps ==
    ASSUME IInv, UNCHANGED vars
    PROVE  IInv'
<1>1. ItemFns' = ItemFns /\ Pending' = Pending /\ \A f \in Fns : Started(f)' <=> Started(f)
  BY DEF vars, ItemFns, Pending, Started
<1>2. PendingOK'
  <2>1. ASSUME NEW o \in Pending, OpOK(o) PROVE OpOK(o)'
    BY <1>1, <2>1 DEF OpOK, Contains, vars
  <2>2. \A o \in Pending : OpOK(o)'
    BY <2>1 DEF IInv, PendingOK
  <2> QED BY <1>1, <2>2 DEF PendingOK
<1>3. TypeOK' /\ IncompleteOK'
  BY <1>1 DEF IInv, TypeOK, IncompleteOK, vars
<1>4. DefinedOK' /\ ListedOK' /\ AllocMapSound' /\ DropsResolved'
  BY <1>1 DEF IInv, DefinedOK, ListedOK, Listed, Defined, AllocMapSound, DropsResolved, vars
<1>5. DeclaredOK' /\ CodegennedOK'
  BY <1>1 DEF IInv, DeclaredOK, CodegennedOK, Defined, vars
<1> QED BY <1>2, <1>3, <1>4, <1>5 DEF IInv

LEMMA InitIInv == Init => IInv
<1> SUFFICES ASSUME Init PROVE IInv
  OBVIOUS
<1>1. Pending = {}
  <2>1. Elems(<<>>) = {}
    BY Agenda0
  <2> QED BY <2>1 DEF Init, Pending
<1>2. prog \in Crates
  BY ProgramsAssumption DEF Init
<1>3. /\ DOMAIN symbol_table = {} /\ DOMAIN alloc_map = {} /\ DOMAIN proof_harnesses = {}
      /\ proof_harnesses \in Seq(Fns) /\ agenda \in Seq(Ops)
  BY DEF Init
<1>4. TypeOK
  BY <1>2, <1>3 DEF TypeOK, Init
<1>5. \A f \in Fns : ~Defined(f) /\ ~Started(f)
  <2>1. \A i \in DOMAIN prog.items : i \in Nat \ {0}
    BY <1>2, LenProperties DEF Crates
  <2> QED BY <1>3, <2>1 DEF Init, Defined, Contains, Started
<1>6. PendingOK /\ DefinedOK /\ ListedOK /\ IncompleteOK /\ AllocMapSound /\ DropsResolved
  BY <1>1, <1>3, <1>5 DEF PendingOK, DefinedOK, ListedOK, Listed, IncompleteOK,
                          AllocMapSound, DropsResolved, Contains
<1>7. DeclaredOK /\ CodegennedOK
  BY <1>5 DEF DeclaredOK, CodegennedOK, Init
<1> QED BY <1>4, <1>6, <1>7 DEF IInv

LEMMA NextIInv == IInv /\ [Next]_vars => IInv'
<1> SUFFICES ASSUME IInv, [Next]_vars PROVE IInv'
  OBVIOUS
<1>1. CASE UNCHANGED vars
  BY <1>1, StutterKeeps
<1>2. CASE Stopped
  BY <1>2, StutterKeeps DEF Stopped
<1>3. CASE StartItem \/ EndLoop \/ Panic
  BY <1>3, StartItem_Keeps, EndLoop_Keeps, Panic_Keeps
<1>4. CASE InsertVariable \/ InsertDeclaration \/ InsertDefinition \/ Complete
  BY <1>4, InsertSymbolKeeps, CompleteKeeps
<1>5. CASE codegen_ty \/ gen_temp_variable \/ codegen_func_expr \/ codegen_static_pointer
  BY <1>5, codegen_ty_Keeps, gen_temp_variable_Keeps, codegen_func_expr_Keeps,
     codegen_static_pointer_Keeps
<1>6. CASE codegen_direct_literal \/ codegen_rvalue_repeat
  BY <1>6, codegen_direct_literal_Keeps, codegen_rvalue_repeat_Keeps
<1>7. CASE codegen_alloc_pointer \/ codegen_static \/ codegen_const_value
  BY <1>7, codegen_allocation_Keeps, codegen_const_value_Keeps
<1>8. CASE codegen_alloc_in_memory \/ AllocGlobal \/ AllocInit
  BY <1>8, codegen_alloc_in_memory_Keeps, AllocGlobal_Keeps, AllocInit_Keeps
<1>9. CASE codegen_vtable \/ codegen_vtable_drop_in_place \/ VtableInit
  BY <1>9, codegen_vtable_Keeps, codegen_vtable_drop_in_place_Keeps, VtableInit_Keeps
<1>10. CASE declare_function \/ reset_current_fn \/ declare_static
  BY <1>10, declare_function_Keeps, reset_current_fn_Keeps, declare_static_Keeps
<1>11. CASE declare_variable \/ codegen_declare_variables
  BY <1>11, declare_variable_Keeps
<1>12. CASE codegen_function \/ FinishFunction
  BY <1>12, codegen_function_Keeps, FinishFunction_Keeps
<1> QED BY <1>1, <1>2, <1>3, <1>4, <1>5, <1>6, <1>7, <1>8, <1>9, <1>10, <1>11, <1>12 DEF Next
-----------------------------------------------------------------------------
(* What a step does to the symbols that are there.                         *)
Kept ==
    \A n \in DOMAIN symbol_table :
        /\ n \in DOMAIN symbol_table'
        /\ \/ symbol_table'[n] = symbol_table[n]
           \/ symbol_table[n] = "incomplete" /\ symbol_table'[n] = "complete"
           \/ symbol_table[n] = "decl" /\ symbol_table'[n] = "def"

LEMMA EnsureKeeps ==
    ASSUME NEW n, NEW k,
           \/ symbol_table' = ensure(symbol_table, n, k)
           \/ symbol_table' = insert(symbol_table, n, k) /\ ~Contains(symbol_table, n)
    PROVE  Kept
  BY DEF Kept, ensure, insert, With, Contains

LEMMA ChangeKeeps ==
    ASSUME NEW n, NEW k, symbol_table' = With(symbol_table, n, k),
           \/ k = "complete" /\ CanComplete(symbol_table, n)
           \/ k = "def" /\ CanDefine(symbol_table, n)
    PROVE  Kept
  BY DEF Kept, CanComplete, CanDefine, With, Contains

LEMMA NextKeeps == [Next]_vars => Kept
<1> SUFFICES ASSUME [Next]_vars PROVE Kept
  OBVIOUS
<1>1. CASE symbol_table' = symbol_table
  BY <1>1 DEF Kept
<1>2. CASE InsertVariable \/ InsertDeclaration \/ InsertDefinition
  <2>1. PICK op, k : InsertSymbol(op, k) /\ op \in {"insert_var", "insert_decl", "insert_def"}
    BY <1>2 DEF InsertVariable, InsertDeclaration, InsertDefinition
  <2>2. /\ symbol_table' = insert(symbol_table, Call.name, k)
        /\ ~Contains(symbol_table, Call.name)
    BY <2>1 DEF InsertSymbol, Do, AssertionsHold, CanInsert
  <2> QED BY <2>2, EnsureKeeps
<1>3. CASE Complete
  <2>1. /\ symbol_table' = With(symbol_table, Call.name, "complete")
        /\ CanComplete(symbol_table, Call.name)
    BY <1>3 DEF Complete, Do, AssertionsHold, replace_with_completion
  <2> QED BY <2>1, ChangeKeeps
<1>4. CASE codegen_ty \/ codegen_alloc_in_memory \/ codegen_vtable
  <2>1. PICK n, k : \/ symbol_table' = symbol_table
                    \/ symbol_table' = insert(symbol_table, n, k) /\ ~Contains(symbol_table, n)
    BY <1>4 DEF codegen_ty, codegen_alloc_in_memory, codegen_vtable
  <2> QED BY <1>1, <2>1, EnsureKeeps
<1>5. CASE codegen_func_expr \/ AllocGlobal \/ VtableInit
  <2>1. PICK n, k : symbol_table' = symbol_table \/ symbol_table' = ensure(symbol_table, n, k)
    BY <1>5 DEF codegen_func_expr, AllocGlobal, VtableInit
  <2> QED BY <1>1, <2>1, EnsureKeeps
<1>6. CASE AllocInit
  <2>1. PICK n, m : /\ symbol_table' = ensure(insert(symbol_table, n, "var"), m, "def")
                    /\ ~Contains(symbol_table, n)
    BY <1>6 DEF AllocInit, Do, AssertionsHold, CanInsert
  <2> QED BY <2>1 DEF Kept, ensure, insert, With, Contains
<1>7. CASE codegen_function
  <2>1. PICK n : \/ symbol_table' = symbol_table
                 \/ /\ symbol_table' = With(symbol_table, n, "def")
                    /\ CanDefine(symbol_table, n)
    BY <1>7 DEF codegen_function, Do, AssertionsHold, CanDefine,
                update_fn_declaration_with_definition
  <2> QED BY <1>1, <2>1, ChangeKeeps
<1>8. CASE FinishFunction
  <2>1. PICK n : /\ symbol_table' = With(symbol_table, n, "def")
                 /\ CanDefine(symbol_table, n)
    BY <1>8 DEF FinishFunction, Do, AssertionsHold, update_fn_declaration_with_definition
  <2> QED BY <2>1, ChangeKeeps
<1>9. CASE StartItem \/ EndLoop \/ Panic \/ Stopped
  BY <1>1, <1>9 DEF StartItem, EndLoop, Panic, Stopped, vars
<1>10. CASE gen_temp_variable \/ codegen_static_pointer \/ codegen_direct_literal
            \/ codegen_rvalue_repeat \/ codegen_alloc_pointer \/ codegen_static
  BY <1>1, <1>10 DEF gen_temp_variable, codegen_static_pointer, codegen_direct_literal,
     codegen_rvalue_repeat, codegen_alloc_pointer, codegen_static, codegen_allocation, KeepTables
<1>11. CASE codegen_const_value \/ codegen_vtable_drop_in_place \/ declare_function
            \/ reset_current_fn \/ declare_static \/ declare_variable
            \/ codegen_declare_variables
  BY <1>1, <1>11 DEF codegen_const_value, codegen_vtable_drop_in_place, declare_function,
     reset_current_fn, declare_static, declare_variable, codegen_declare_variables, KeepTables
<1>12. CASE UNCHANGED vars
  BY <1>1, <1>12 DEF vars
<1> QED BY <1>2, <1>3, <1>4, <1>5, <1>6, <1>7, <1>8, <1>9, <1>10, <1>11, <1>12 DEF Next
-----------------------------------------------------------------------------
(* The agenda and the table of GotocCtx are typed: no operation passes an  *)
(* entity of one sort where the code takes another.                        *)
THEOREM Typed == Spec => []TypeOK
<1>1. IInv => TypeOK
  BY DEF IInv
<1> QED BY <1>1, InitIInv, NextIInv, PTL DEF Spec

(* The inductive invariant of codegen_crate.                               *)
THEOREM Invariance == Spec => []IInv
  BY InitIInv, NextIInv, PTL DEF Spec

(* What codegen_immutable_allocation finds in alloc_map has a variable and *)
(* an initializer in the symbol table.                                     *)
THEOREM AllocationsResolve == Spec => []AllocMapSound
<1>1. IInv => AllocMapSound
  BY DEF IInv
<1> QED BY <1>1, InitIInv, NextIInv, PTL DEF Spec

(* codegen_vtable_drop_in_place replaces no drop function of the crate by  *)
(* the one that fails.                                                     *)
THEOREM DropsAreResolved == Spec => []DropsResolved
<1>1. IInv => DropsResolved
  BY DEF IInv
<1> QED BY <1>1, InitIInv, NextIInv, PTL DEF Spec

(* codegen_crate ends with every function defined and no type of Rust left *)
(* without its components.                                                 *)
THEOREM TableIsComplete == Spec => []TableComplete
<1>1. IInv => TableComplete
  <2> SUFFICES ASSUME IInv, phase = "done" PROVE TableComplete
    BY DEF TableComplete
  <2>1. agenda = <<>> /\ \A f \in ItemFns : Defined(f)
    BY DEF IInv, CodegennedOK
  <2>2. Pending = {}
    BY <2>1, Agenda0 DEF Pending
  <2> QED BY <2>1, <2>2 DEF IInv, IncompleteOK, TableComplete
<1> QED BY <1>1, InitIInv, NextIInv, PTL DEF Spec

(* handle_rmctool_attributes lists each proof harness of the crate once,   *)
(* and nothing else.                                                       *)
THEOREM HarnessesAreExact == Spec => []HarnessesExact
<1>1. IInv => HarnessesExact
  <2> SUFFICES ASSUME IInv, phase = "done" PROVE HarnessesExact
    BY DEF HarnessesExact
  <2>1. \A f \in ItemFns : f \in Fns /\ Defined(f)
    BY DEF IInv, CodegennedOK, ItemFns
  <2>2. Listed \subseteq Fns
    BY ElementOfSeq DEF IInv, TypeOK, Listed
  <2>3. Listed = (ItemFns \cap prog.proof) \ prog.skip
    BY <2>1, <2>2 DEF IInv, DefinedOK, ListedOK
  <2> QED BY <2>3 DEF IInv, ListedOK, HarnessesExact
<1> QED BY <1>1, InitIInv, NextIInv, PTL DEF Spec

(* insert, ensure and the two updates of the symbol table never lose or    *)
(* overwrite a symbol, whoever calls them.                                 *)
THEOREM SymbolsAreKept == Spec => SymbolsKept
<1>1. [Next]_vars => [\A n \in DOMAIN symbol_table :
          /\ n \in DOMAIN symbol_table'
          /\ \/ symbol_table'[n] = symbol_table[n]
             \/ symbol_table[n] = "incomplete" /\ symbol_table'[n] = "complete"
             \/ symbol_table[n] = "decl" /\ symbol_table'[n] = "def"]_vars
  BY NextKeeps DEF Kept
<1> QED BY <1>1, PTL DEF Spec, SymbolsKept
=============================================================================
