---------------------- MODULE VtableRestrictionsProofs ----------------------
(***************************************************************************)
(* The restrictions of virtual calls, for any number of crates, methods    *)
(* and functions and every order of codegen and of the files.              *)
(***************************************************************************)
EXTENDS VtableRestrictions, TLAPS

Names(c) == {call_sites[c][i].function_name : i \in DOMAIN call_sites[c]}

(* Wrappers are numbered from 1 in the order of the call sites.            *)
Numbered ==
    \A c \in Crates :
        /\ call_site_global_idx[c] = Len(call_sites[c])
        /\ \A i \in DOMAIN call_sites[c] : call_sites[c][i].function_name = Wrapper(c, i)

(* What is possible is in a vtable, and is an implementation ...           *)
Possible ==
    \A c \in Crates : \A m \in DOMAIN possible_methods[c] :
        /\ possible_methods[c][m] # <<>>
        /\ \A i \in DOMAIN possible_methods[c][m] :
              /\ [method |-> m, target |-> possible_methods[c][m][i]] \in vtable_fields[c]
              /\ ~possible_methods[c][m][i].unimplemented

(* ... and every implementation in a vtable is possible.                   *)
Collected ==
    \A c \in Crates : \A x \in vtable_fields[c] :
        x.target # Null /\ ~x.target.unimplemented =>
            /\ x.method \in DOMAIN possible_methods[c]
            /\ \E i \in DOMAIN possible_methods[c][x.method] :
                  possible_methods[c][x.method][i] = x.target

(* Nothing is codegenned in a crate that has written its file, and nothing *)
(* is linked before all have.                                              *)
Frozen ==
    /\ \A c \in files : done[c] = Len(prog.body[c])
    /\ \A c \in Crates : Read(c) => files = Crates
    /\ phase = "read" => next = 1 /\ combined_possible_methods = <<>>
    /\ phase # "read" => files = Crates /\ \A c \in Crates : Read(c)
    /\ phase \in {"read", "combine"} => output = <<>>

(* The combined map has, for a method, all that one crate has; no method   *)
(* of a crate that was combined is missing.                                *)
Combined ==
    /\ \A m \in DOMAIN combined_possible_methods :
          \E c \in Crates : /\ m \in DOMAIN possible_methods[c]
                            /\ combined_possible_methods[m] = possible_methods[c][m]
    /\ phase = "combine" => \A i \in DOMAIN data_per_crate :
          i < next => DOMAIN possible_methods[data_per_crate[i]]
                         \subseteq DOMAIN combined_possible_methods
    /\ phase \in {"link", "end"} => \A c \in Crates :
          DOMAIN possible_methods[c] \subseteq DOMAIN combined_possible_methods

(* The sites of a crate that was linked have what the combined map says.   *)
LinkedCrate(c) ==
    \A i \in DOMAIN call_sites[c] :
        /\ call_sites[c][i].function_name \in DOMAIN output
        /\ output[call_sites[c][i].function_name] = Possibilities(call_sites[c][i].trait_method)
Linked ==
    /\ \A w \in DOMAIN output : \E c \in Crates : w \in Names(c)
    /\ phase = "link" =>
          \A i \in DOMAIN data_per_crate : i < next => LinkedCrate(data_per_crate[i])
    /\ phase = "end" => \A c \in Crates : LinkedCrate(c)

IInv == TypeOK /\ Numbered /\ Possible /\ Collected /\ Frozen /\ Combined /\ Linked

-----------------------------------------------------------------------------
LEMMA InitIInv == ASSUME Init PROVE IInv
<1> USE DEF Init
<1>1. TypeOK
  BY ProgramsAssumption DEF TypeOK
<1>2. Numbered /\ Possible /\ Collected
  BY DEF Numbered, Possible, Collected
<1>3. Frozen /\ Combined /\ Linked
  BY DEF Frozen, Combined, Linked, Read
<1> QED BY <1>1, <1>2, <1>3 DEF IInv

(* Codegen happens before the linker, in a crate that has no file yet.     *)
LEMMA CodegenFacts ==
    ASSUME IInv, NEW c \in Crates, NEW op, Codegen(c, op)
    PROVE  /\ phase = "read" /\ c \notin files /\ Event(c) \in Events /\ Event(c).op = op
           /\ done' = [done EXCEPT ![c] = @ + 1] /\ done[c] \in Nat
<1>1. done[c] \in Nat /\ prog.body[c] \in Seq(Events) /\ done[c] < Len(prog.body[c])
  BY DEF IInv, TypeOK, AllPrograms, Codegen
<1>2. Event(c) \in Events
  BY <1>1 DEF Event
<1>3. c \notin files
  BY <1>1 DEF IInv, Frozen
<1>4. phase = "read"
  BY <1>3 DEF IInv, Frozen
<1> QED BY <1>1, <1>2, <1>3, <1>4 DEF Codegen

(* What a step of codegen leaves alone.                                    *)
LEMMA CodegenKeeps ==
    ASSUME IInv, NEW c \in Crates, NEW op, Codegen(c, op)
    PROVE  Frozen' /\ Combined' /\ Linked'
<1>1. /\ phase = "read" /\ c \notin files /\ done' = [done EXCEPT ![c] = @ + 1] /\ done[c] \in Nat
      /\ done \in [Crates -> Nat] /\ files \subseteq Crates
  BY CodegenFacts DEF IInv, TypeOK
<1>2. /\ UNCHANGED <<prog, files, data_per_crate, phase, next, combined_possible_methods, output>>
      /\ combined_possible_methods = <<>> /\ output = <<>>
  BY <1>1 DEF Codegen, linker, IInv, Frozen
<1>3. Frozen'
  BY <1>1, <1>2 DEF Frozen, IInv, Read
<1>4. Combined' /\ Linked'
  BY <1>1, <1>2 DEF Combined, Linked
<1> QED BY <1>3, <1>4

-----------------------------------------------------------------------------
(* A field that gets an implementation, which becomes possible.            *)
LEMMA FilledKeeps ==
    ASSUME IInv, NEW c \in Crates, NEW op, Codegen(c, op), NEW m \in Methods, NEW f \in Fns,
           SetField(c, m, Implementation(f)), add_possible_method(c, m, Implementation(f)),
           UNCHANGED <<call_sites, call_site_global_idx>>
    PROVE  IInv'
<1> DEFINE imp == Implementation(f)
           old == possible_methods[c]
           entry == IF m \in DOMAIN old THEN Append(old[m], imp) ELSE <<imp>>
           field == [method |-> m, target |-> imp]
<1>1. TypeOK /\ Numbered /\ Possible /\ Collected
  BY DEF IInv
<1>2. imp \in Symbols /\ ~imp.unimplemented /\ imp # Null
  <2>1. imp \in Symbols
    BY DEF Implementation, Symbols
  <2>2. ~imp.unimplemented
    BY DEF Implementation
  <2> QED BY <2>1, <2>2, NullAssumption
<1>3. /\ vtable_fields' = [vtable_fields EXCEPT ![c] = @ \cup {field}]
      /\ vtable_fields'[c] = vtable_fields[c] \cup {field}
      /\ \A d \in Crates \ {c} : vtable_fields'[d] = vtable_fields[d]
  BY <1>1 DEF SetField, TypeOK
<1>4. /\ DOMAIN possible_methods' = Crates
      /\ \A d \in Crates \ {c} : possible_methods'[d] = possible_methods[d]
      /\ possible_methods'[c] =
            [k \in DOMAIN old \cup {m} |->
                IF k # m THEN old[k] ELSE IF k \in DOMAIN old THEN Append(old[k], imp) ELSE <<imp>>]
  BY <1>1 DEF add_possible_method, TypeOK
<1>5. /\ DOMAIN possible_methods'[c] = DOMAIN old \cup {m} /\ possible_methods'[c][m] = entry
      /\ \A k \in DOMAIN old \ {m} : possible_methods'[c][k] = old[k]
  BY <1>4
<1>6. /\ m \in DOMAIN old => /\ old[m] \in Seq(Symbols) /\ entry = Append(old[m], imp)
                              /\ Len(entry) = Len(old[m]) + 1
                              /\ \A i \in 1 .. Len(old[m]) : entry[i] = old[m][i]
      /\ m \notin DOMAIN old => entry = <<imp>> /\ Len(entry) = 1
      /\ entry \in Seq(Symbols) /\ Len(entry) \in Nat \ {0} /\ entry[Len(entry)] = imp
  BY <1>1, <1>2 DEF TypeOK
<1> HIDE DEF imp, entry, field
<1>7. TypeOK'
  <2>1. /\ prog' = prog /\ files' = files /\ UNCHANGED <<data_per_crate, phase, next,
                                                           combined_possible_methods, output>>
        /\ done' \in [Crates -> Nat]
    BY <1>1, CodegenFacts DEF Codegen, linker, TypeOK
  <2>2. vtable_fields' \in [Crates -> SUBSET [method : Methods, target : Symbols \cup {Null}]]
    BY <1>1, <1>2, <1>3 DEF TypeOK, field, imp
  <2>3. \A d \in Crates : DOMAIN possible_methods'[d] \subseteq Methods
    BY <1>1, <1>4, <1>5 DEF TypeOK
  <2>4. ASSUME NEW d \in Crates, NEW k \in DOMAIN possible_methods'[d]
        PROVE  possible_methods'[d][k] \in Seq(Symbols)
    <3>1. CASE d # c
      BY <1>1, <1>4, <3>1 DEF TypeOK
    <3>2. CASE d = c /\ k # m
      <4>1. k \in DOMAIN old /\ possible_methods'[c][k] = old[k]
        BY <1>5, <3>2
      <4> QED BY <1>1, <3>2, <4>1 DEF TypeOK
    <3>3. CASE d = c /\ k = m
      BY <1>5, <1>6, <3>3
    <3> QED BY <3>1, <3>2, <3>3
  <2> QED BY <1>1, <1>4, <2>1, <2>2, <2>3, <2>4 DEF TypeOK
<1>8. Numbered'
  BY <1>1 DEF Numbered
<1>9. Possible'
  <2> SUFFICES ASSUME NEW d \in Crates, NEW k \in DOMAIN possible_methods'[d]
               PROVE  /\ possible_methods'[d][k] # <<>>
                      /\ \A i \in DOMAIN possible_methods'[d][k] :
                           /\ [method |-> k, target |-> possible_methods'[d][k][i]] \in vtable_fields'[d]
                           /\ ~possible_methods'[d][k][i].unimplemented
    BY DEF Possible
  <2>1. CASE d # c
    BY <1>1, <1>3, <1>4, <2>1 DEF Possible
  <2>2. CASE d = c /\ k # m
    BY <1>1, <1>3, <1>5, <2>2 DEF Possible
  <2>3. CASE d = c /\ k = m
    <3>1. entry # <<>>
      BY <1>6
    <3>2. ASSUME NEW i \in DOMAIN entry
          PROVE  [method |-> m, target |-> entry[i]] \in vtable_fields'[c] /\ ~entry[i].unimplemented
      <4>0. i \in 1 .. Len(entry)
        BY <1>6
      <4>1. CASE entry[i] = imp
        BY <1>2, <1>3, <4>1 DEF field, imp
      <4>2. CASE entry[i] # imp
        <5>1. m \in DOMAIN old /\ i \in 1 .. Len(old[m]) /\ entry[i] = old[m][i]
          BY <1>6, <4>0, <4>2
        <5>2. i \in DOMAIN old[m]
          BY <1>6, <5>1
        <5> QED BY <1>1, <1>3, <5>1, <5>2 DEF Possible
      <4> QED BY <4>1, <4>2
    <3> QED BY <1>5, <2>3, <3>1, <3>2
  <2> QED BY <2>1, <2>2, <2>3
<1>10. Collected'
  <2> SUFFICES ASSUME NEW d \in Crates, NEW x \in vtable_fields'[d],
                      x.target # Null /\ ~x.target.unimplemented
               PROVE  /\ x.method \in DOMAIN possible_methods'[d]
                      /\ \E i \in DOMAIN possible_methods'[d][x.method] :
                            possible_methods'[d][x.method][i] = x.target
    BY DEF Collected
  <2>1. CASE d # c
    BY <1>1, <1>3, <1>4, <2>1 DEF Collected
  <2>2. CASE d = c /\ x = field
    <3>1. x.method = m /\ x.target = imp /\ Len(entry) \in DOMAIN entry
      BY <1>6, <2>2 DEF field, imp
    <3> QED BY <1>5, <1>6, <2>2, <3>1
  <2>3. CASE d = c /\ x \in vtable_fields[c]
    <3>1. x.method \in DOMAIN old /\ \E i \in DOMAIN old[x.method] : old[x.method][i] = x.target
      BY <1>1, <2>3 DEF Collected
    <3>2. CASE x.method # m
      BY <1>5, <2>3, <3>1, <3>2
    <3>3. CASE x.method = m
      <4>1. PICK i \in DOMAIN old[m] : old[m][i] = x.target
        BY <3>1, <3>3
      <4>2. i \in 1 .. Len(old[m]) /\ i \in 1 .. Len(entry) /\ m \in DOMAIN old
        BY <1>6, <3>1, <3>3, <4>1
      <4>3. i \in DOMAIN entry /\ entry[i] = x.target
        BY <1>6, <4>1, <4>2
      <4> QED BY <1>5, <2>3, <3>3, <4>3
    <3> QED BY <3>2, <3>3
  <2> QED BY <1>3, <2>1, <2>2, <2>3
<1> QED BY <1>7, <1>8, <1>9, <1>10, CodegenKeeps DEF IInv

(* A field that stays empty or gets a stand-in; nothing becomes possible.  *)
LEMMA UnfilledKeeps ==
    ASSUME IInv, NEW c \in Crates, NEW op, Codegen(c, op), NEW m \in Methods, NEW t,
           t = Null \/ (t \in Symbols /\ t.unimplemented),
           SetField(c, m, t), UNCHANGED <<possible_methods, call_sites, call_site_global_idx>>
    PROVE  IInv'
<1>1. TypeOK /\ Numbered /\ Possible /\ Collected
  BY DEF IInv
<1>2. /\ vtable_fields'[c] = vtable_fields[c] \cup {[method |-> m, target |-> t]}
      /\ \A d \in Crates \ {c} : vtable_fields'[d] = vtable_fields[d]
      /\ vtable_fields' \in [Crates -> SUBSET [method : Methods, target : Symbols \cup {Null}]]
  BY <1>1 DEF SetField, TypeOK
<1>3. TypeOK'
  <2>1. /\ prog' = prog /\ files' = files /\ UNCHANGED <<data_per_crate, phase, next,
                                                           combined_possible_methods, output>>
        /\ done' \in [Crates -> Nat]
    BY <1>1, CodegenFacts DEF Codegen, linker, TypeOK
  <2> QED BY <1>1, <1>2, <2>1 DEF TypeOK
<1>4. Numbered' /\ Possible'
  BY <1>1, <1>2 DEF Numbered, Possible
<1>5. Collected'
  <2> SUFFICES ASSUME NEW d \in Crates, NEW x \in vtable_fields'[d],
                      x.target # Null /\ ~x.target.unimplemented
               PROVE  x \in vtable_fields[d]
    BY <1>1 DEF Collected
  <2> QED BY <1>2
<1> QED BY <1>3, <1>4, <1>5, CodegenKeeps DEF IInv

LEMMA FieldKeeps ==
    ASSUME IInv, NEW c \in Crates, codegen_vtable_method_field(c) \/ codegen_vtable_drop_in_place(c)
    PROVE  IInv'
<1> DEFINE e == Event(c)
<1>1. PICK op \in {"method", "drop"} : Codegen(c, op)
  BY DEF codegen_vtable_method_field, codegen_vtable_drop_in_place
<1>2. e \in Events /\ e.op = op
  BY <1>1, CodegenFacts
<1>3. e.method \in Methods /\ e.fn \in Fns
  BY <1>1, <1>2 DEF Events
<1>4. Unimplemented(e.fn) \in Symbols /\ Unimplemented(e.fn).unimplemented
  BY <1>3 DEF Unimplemented, Symbols
<1>5. CASE SetField(c, e.method, Implementation(e.fn))
           /\ add_possible_method(c, e.method, Implementation(e.fn))
           /\ UNCHANGED <<call_sites, call_site_global_idx>>
  BY <1>1, <1>3, <1>5, FilledKeeps
<1>6. CASE (SetField(c, e.method, Null) \/ SetField(c, e.method, Unimplemented(e.fn)))
           /\ UNCHANGED <<possible_methods, call_sites, call_site_global_idx>>
  BY <1>1, <1>3, <1>4, <1>6, UnfilledKeeps
<1> QED BY <1>5, <1>6 DEF codegen_vtable_method_field, codegen_vtable_drop_in_place

(* A virtual call gets the next wrapper.                                   *)
LEMMA CallKeeps ==
    ASSUME IInv, NEW c \in Crates, codegen_virtual_funcall(c) \/ codegen_drop(c)
    PROVE  IInv'
<1> DEFINE m == Event(c).method
           sites == call_sites[c]
           n == call_site_global_idx[c]
           site == [trait_method |-> m, function_name |-> Wrapper(c, n + 1)]
<1>1. PICK op \in {"call", "drop_call"} : Codegen(c, op)
  BY DEF codegen_virtual_funcall, codegen_drop
<1>2. virtual_call_with_restricted_fn_ptr(c, m)
  BY DEF codegen_virtual_funcall, codegen_drop
<1>3. TypeOK /\ Numbered /\ Possible /\ Collected
  BY DEF IInv
<1>4. m \in Methods
  BY <1>1, CodegenFacts DEF Events
<1>5. n \in Nat /\ n = Len(sites) /\ sites \in Seq(CallSites)
  BY <1>3 DEF TypeOK, Numbered
<1>6. site \in CallSites
  BY <1>4, <1>5 DEF CallSites, Wrapper, Wrappers
<1>7. /\ call_site_global_idx' = [call_site_global_idx EXCEPT ![c] = n + 1]
      /\ call_site_global_idx'[c] = n + 1
  BY <1>2, <1>3 DEF virtual_call_with_restricted_fn_ptr, TypeOK
<1>8. /\ call_sites' = [call_sites EXCEPT ![c] = Append(sites, site)]
      /\ UNCHANGED <<vtable_fields, possible_methods>>
  BY <1>2, <1>7 DEF virtual_call_with_restricted_fn_ptr
<1> HIDE DEF m, site
<1>9. Append(sites, site) \in Seq(CallSites) /\ Len(Append(sites, site)) = n + 1
  BY <1>5, <1>6
<1>10. TypeOK'
  <2>1. /\ prog' = prog /\ files' = files /\ UNCHANGED <<data_per_crate, phase, next,
                                                           combined_possible_methods, output>>
        /\ done' \in [Crates -> Nat]
    BY <1>1, <1>3, CodegenFacts DEF Codegen, linker, TypeOK
  <2>2. call_sites' \in [Crates -> Seq(CallSites)] /\ call_site_global_idx' \in [Crates -> Nat]
    BY <1>3, <1>5, <1>7, <1>8, <1>9 DEF TypeOK
  <2> QED BY <1>3, <1>8, <2>1, <2>2 DEF TypeOK
<1>11. Numbered'
  <2> SUFFICES ASSUME NEW d \in Crates
               PROVE  /\ call_site_global_idx'[d] = Len(call_sites'[d])
                      /\ \A i \in DOMAIN call_sites'[d] :
                            call_sites'[d][i].function_name = Wrapper(d, i)
    BY DEF Numbered
  <2>1. CASE d # c
    BY <1>3, <1>7, <1>8, <2>1 DEF Numbered, TypeOK
  <2>2. CASE d = c
    <3>1. call_sites'[c] = Append(sites, site)
      BY <1>3, <1>8 DEF TypeOK
    <3>2. ASSUME NEW i \in DOMAIN call_sites'[c]
          PROVE  call_sites'[c][i].function_name = Wrapper(c, i)
      <4>1. i \in 1 .. n + 1
        BY <1>5, <1>9, <3>1
      <4>2. CASE i = n + 1
        BY <1>5, <3>1, <4>2 DEF site
      <4>3. CASE i # n + 1
        <5>1. i \in 1 .. n /\ i \in DOMAIN sites /\ call_sites'[c][i] = sites[i]
          BY <1>5, <3>1, <4>1, <4>3
        <5> QED BY <1>3, <5>1 DEF Numbered
      <4> QED BY <4>2, <4>3
    <3> QED BY <1>7, <1>9, <2>2, <3>1, <3>2
  <2> QED BY <2>1, <2>2
<1>12. Possible' /\ Collected'
  BY <1>3, <1>8 DEF Possible, Collected
<1> QED BY <1>1, <1>10, <1>11, <1>12, CodegenKeeps DEF IInv

-----------------------------------------------------------------------------
(* Steps that change neither codegen nor what is possible.                 *)
LEMMA LinkerKeeps ==
    ASSUME IInv, UNCHANGED <<prog, done, ctxs>>
    PROVE  Numbered' /\ Possible' /\ Collected'
  BY DEF IInv, ctxs, Numbered, Possible, Collected

LEMMA FileKeeps ==
    ASSUME IInv, NEW c \in Crates, get_virtual_function_restrictions(c)
    PROVE  IInv'
<1>1. /\ UNCHANGED <<prog, done, ctxs, linker>> /\ files' = files \cup {c}
      /\ done[c] = Len(prog.body[c]) /\ c \notin files
  BY DEF get_virtual_function_restrictions
<1>2. TypeOK'
  BY <1>1 DEF IInv, TypeOK, ctxs, linker
<1>3. Frozen'
  BY <1>1 DEF IInv, TypeOK, Frozen, linker, Read
<1>4. Combined' /\ Linked'
  BY <1>1 DEF IInv, Combined, Linked, LinkedCrate, Names, Possibilities, ctxs, linker
<1> QED BY <1>1, <1>2, <1>3, <1>4, LinkerKeeps DEF IInv

LEMMA ReadKeeps ==
    ASSUME IInv, NEW c \in Crates, ReadFile(c)
    PROVE  IInv'
<1>1. /\ UNCHANGED <<prog, done, ctxs, files, phase, next, combined_possible_methods, output>>
      /\ data_per_crate' = Append(data_per_crate, c) /\ phase = "read" /\ files = Crates
      /\ data_per_crate \in Seq(Crates)
  BY DEF ReadFile, IInv, TypeOK
<1>2. TypeOK'
  BY <1>1 DEF IInv, TypeOK, ctxs
<1>3. Frozen'
  BY <1>1 DEF IInv, Frozen
<1>4. Combined' /\ Linked'
  BY <1>1 DEF IInv, Frozen, Combined, Linked
<1> QED BY <1>1, <1>2, <1>3, <1>4, LinkerKeeps DEF IInv

LEMMA EndReadKeeps == ASSUME IInv, EndRead PROVE IInv'
<1>1. /\ UNCHANGED <<prog, done, ctxs, files, data_per_crate, next, combined_possible_methods, output>>
      /\ phase = "read" /\ phase' = "combine" /\ \A c \in Crates : Read(c)
  BY DEF EndRead
<1>2. TypeOK'
  BY <1>1 DEF IInv, TypeOK, ctxs
<1>3. files = Crates
  <2>1. CASE Crates = {}
    BY <2>1 DEF IInv, TypeOK
  <2>2. CASE Crates # {}
    BY <1>1, <2>2 DEF IInv, Frozen
  <2> QED BY <2>1, <2>2
<1>4. next = 1 /\ combined_possible_methods = <<>> /\ output = <<>>
  BY <1>1 DEF IInv, Frozen
<1>5. Frozen'
  BY <1>1, <1>3, <1>4 DEF IInv, Frozen, Read
<1>6. Combined' /\ Linked'
  BY <1>1, <1>4 DEF IInv, TypeOK, Combined, Linked
<1> QED BY <1>1, <1>2, <1>5, <1>6, LinkerKeeps DEF IInv

LEMMA CombineKeeps == ASSUME IInv, CombineCrate PROVE IInv'
<1> DEFINE d == data_per_crate[next]
           entries == possible_methods[d]
           old == combined_possible_methods
<1>1. /\ UNCHANGED <<prog, done, ctxs, files, data_per_crate, phase, output>>
      /\ phase = "combine" /\ next \in DOMAIN data_per_crate /\ next' = next + 1
      /\ combined_possible_methods' = [m \in DOMAIN old \cup DOMAIN entries |->
                                          IF m \in DOMAIN entries THEN entries[m] ELSE old[m]]
  BY DEF CombineCrate
<1>2. d \in Crates /\ next \in Nat \ {0} /\ output = <<>>
  BY <1>1 DEF IInv, TypeOK, Frozen
<1>3. /\ DOMAIN combined_possible_methods' = DOMAIN old \cup DOMAIN entries
      /\ \A m \in DOMAIN entries : combined_possible_methods'[m] = entries[m]
      /\ \A m \in DOMAIN old \ DOMAIN entries : combined_possible_methods'[m] = old[m]
  BY <1>1
<1>4. /\ possible_methods' = possible_methods /\ data_per_crate' = data_per_crate
      /\ phase' = "combine" /\ output' = <<>> /\ files' = files /\ prog' = prog /\ done' = done
  BY <1>1, <1>2 DEF ctxs
<1>5. TypeOK'
  <2>1. DOMAIN combined_possible_methods' \subseteq Methods
    BY <1>2, <1>3 DEF IInv, TypeOK
  <2>2. ASSUME NEW m \in DOMAIN combined_possible_methods'
        PROVE  combined_possible_methods'[m] \in Seq(Symbols)
    BY <1>2, <1>3 DEF IInv, TypeOK
  <2>3. next' \in Nat \ {0}
    BY <1>1, <1>2
  <2> QED BY <1>1, <2>1, <2>2, <2>3 DEF IInv, TypeOK, ctxs
<1>6. Frozen'
  BY <1>1, <1>4 DEF IInv, Frozen, Read
<1>7. Combined'
  <2>1. ASSUME NEW m \in DOMAIN combined_possible_methods'
        PROVE  \E c \in Crates : /\ m \in DOMAIN possible_methods[c]
                                 /\ combined_possible_methods'[m] = possible_methods[c][m]
    <3>1. CASE m \in DOMAIN entries
      BY <1>2, <1>3, <3>1
    <3>2. CASE m \notin DOMAIN entries
      BY <1>3, <3>2 DEF IInv, Combined
    <3> QED BY <3>1, <3>2
  <2>2. ASSUME NEW i \in DOMAIN data_per_crate, i < next + 1
        PROVE  DOMAIN possible_methods[data_per_crate[i]] \subseteq DOMAIN combined_possible_methods'
    <3>1. i = next \/ i < next
      BY <1>2, <2>2 DEF IInv, TypeOK
    <3>2. CASE i = next
      BY <1>3, <3>2
    <3>3. CASE i < next
      BY <1>1, <1>3, <3>3 DEF IInv, Combined
    <3> QED BY <3>1, <3>2, <3>3
  <2> QED BY <1>1, <1>4, <2>1, <2>2 DEF Combined
<1>8. Linked'
  BY <1>4 DEF Linked
<1> QED BY <1>1, <1>5, <1>6, <1>7, <1>8, LinkerKeeps DEF IInv

(* At the end of a loop over the files every crate has had its turn.       *)
LEMMA AllVisited ==
    ASSUME IInv, phase # "read", next \notin DOMAIN data_per_crate, NEW c \in Crates
    PROVE  \E i \in DOMAIN data_per_crate : i < next /\ data_per_crate[i] = c
<1>1. PICK i \in DOMAIN data_per_crate : data_per_crate[i] = c
  BY DEF IInv, Frozen, Read
<1> QED BY <1>1 DEF IInv, TypeOK

LEMMA EndCombineKeeps == ASSUME IInv, EndCombine PROVE IInv'
<1>1. /\ UNCHANGED <<prog, done, ctxs, files, data_per_crate, combined_possible_methods, output>>
      /\ phase = "combine" /\ next \notin DOMAIN data_per_crate /\ phase' = "link" /\ next' = 1
  BY DEF EndCombine
<1>2. output = <<>>
  BY <1>1 DEF IInv, Frozen
<1>3. TypeOK'
  BY <1>1 DEF IInv, TypeOK, ctxs
<1>4. Frozen'
  BY <1>1 DEF IInv, Frozen, Read
<1>5. Combined'
  <2>1. ASSUME NEW c \in Crates
        PROVE  DOMAIN possible_methods[c] \subseteq DOMAIN combined_possible_methods
    BY <1>1, AllVisited DEF IInv, Combined
  <2> QED BY <1>1, <2>1 DEF IInv, Combined, ctxs
<1>6. Linked'
  BY <1>1, <1>2 DEF IInv, TypeOK, Linked
<1> QED BY <1>1, <1>3, <1>4, <1>5, <1>6, LinkerKeeps DEF IInv

(* Wrappers tell the call sites of all crates apart.                       *)
LEMMA WrapperUnique ==
    ASSUME IInv, NEW c \in Crates, NEW d \in Crates,
           NEW i \in DOMAIN call_sites[c], NEW j \in DOMAIN call_sites[d],
           call_sites[c][i].function_name = call_sites[d][j].function_name
    PROVE  c = d /\ i = j
<1>1. Wrapper(c, i) = Wrapper(d, j)
  BY DEF IInv, Numbered
<1>2. Wrapper(c, i).crate = c /\ Wrapper(c, i).idx = i
      /\ Wrapper(d, j).crate = d /\ Wrapper(d, j).idx = j
  BY DEF Wrapper
<1> QED BY <1>1, <1>2

LEMMA LinkKeeps == ASSUME IInv, LinkCrate PROVE IInv'
<1> DEFINE d == data_per_crate[next]
           sites == call_sites[d]
           names == Names(d)
           value(w) == Possibilities(sites[LastSite(sites, w)].trait_method)
<1>1. /\ UNCHANGED <<prog, done, ctxs, files, data_per_crate, phase, combined_possible_methods>>
      /\ phase = "link" /\ next \in DOMAIN data_per_crate /\ next' = next + 1
      /\ output' = [w \in DOMAIN output \cup names |-> IF w \in names THEN value(w) ELSE output[w]]
  BY DEF LinkCrate, Names
<1>2. d \in Crates /\ next \in Nat \ {0} /\ sites \in Seq(CallSites)
  BY <1>1 DEF IInv, TypeOK
<1>3. ASSUME NEW j \in DOMAIN sites
      PROVE  value(sites[j].function_name) = Possibilities(sites[j].trait_method)
  <2>1. \A k \in DOMAIN sites : sites[k].function_name = sites[j].function_name => k = j
    BY <1>2, WrapperUnique
  <2>2. j <= j
    BY <1>2
  <2>3. LastSite(sites, sites[j].function_name) = j
    BY <2>1, <2>2 DEF LastSite
  <2> QED BY <2>3
<1> HIDE DEF value
<1>4. /\ DOMAIN output' = DOMAIN output \cup names
      /\ \A w \in names : output'[w] = value(w)
      /\ \A w \in DOMAIN output \ names : output'[w] = output[w]
  BY <1>1
<1>5. /\ call_sites' = call_sites /\ data_per_crate' = data_per_crate /\ phase' = "link"
      /\ combined_possible_methods' = combined_possible_methods
      /\ \A m : Possibilities(m)' = Possibilities(m)
  BY <1>1 DEF ctxs, Possibilities
<1>6. TypeOK'
  <2>1. \A m \in Methods : Possibilities(m) \in Seq(Symbols)
    BY DEF Possibilities, IInv, TypeOK
  <2>2. ASSUME NEW w \in names
        PROVE  w \in Wrappers /\ value(w) \in Seq(Symbols)
    <3>1. PICK j \in DOMAIN sites : w = sites[j].function_name
      BY DEF Names
    <3>2. sites[j] \in CallSites
      BY <1>2, <3>1
    <3> QED BY <1>3, <2>1, <3>1, <3>2 DEF CallSites
  <2>3. DOMAIN output' \subseteq Wrappers
    BY <1>4, <2>2 DEF IInv, TypeOK
  <2>4. ASSUME NEW w \in DOMAIN output' PROVE output'[w] \in Seq(Symbols)
    BY <1>4, <2>2 DEF IInv, TypeOK
  <2>5. next' \in Nat \ {0}
    BY <1>1, <1>2
  <2> QED BY <1>1, <2>3, <2>4, <2>5 DEF IInv, TypeOK, ctxs
<1>7. Frozen'
  BY <1>1, <1>5 DEF IInv, Frozen, Read
<1>8. Combined'
  BY <1>1, <1>5 DEF IInv, Combined, ctxs
<1>9. Linked'
  <2>1. ASSUME NEW w \in DOMAIN output' PROVE \E c \in Crates : w \in Names(c)
    BY <1>2, <1>4 DEF IInv, Linked
  <2>2. ASSUME NEW i \in DOMAIN data_per_crate, i < next + 1
        PROVE  LinkedCrate(data_per_crate[i])'
    <3> DEFINE c == data_per_crate[i]
    <3>0. data_per_crate \in Seq(Crates)
      BY DEF IInv, TypeOK
    <3>1. c \in Crates /\ (i = next \/ i < next)
      <4>1. i \in 1 .. Len(data_per_crate) /\ c \in Crates
        BY <3>0
      <4> QED BY <1>2, <2>2, <4>1
    <3>2. ASSUME NEW j \in DOMAIN call_sites[c]
          PROVE  /\ call_sites[c][j].function_name \in DOMAIN output'
                 /\ output'[call_sites[c][j].function_name]
                       = Possibilities(call_sites[c][j].trait_method)
      <4> DEFINE w == call_sites[c][j].function_name
      <4>1. CASE w \in names
        <5>1. PICK k \in DOMAIN sites : w = sites[k].function_name
          BY <4>1 DEF Names
        <5>2. c = d /\ j = k
          BY <1>2, <3>1, <5>1, WrapperUnique
        <5> QED BY <1>3, <1>4, <4>1, <5>1, <5>2
      <4>2. CASE w \notin names
        <5>1. i # next
          BY <4>2 DEF Names
        <5>2. LinkedCrate(c)
          BY <1>1, <3>1, <5>1 DEF IInv, Linked
        <5>3. w \in DOMAIN output /\ output[w] = Possibilities(call_sites[c][j].trait_method)
          BY <5>2 DEF LinkedCrate
        <5> QED BY <1>4, <4>2, <5>3
      <4> QED BY <4>1, <4>2
    <3> QED BY <1>5, <3>2 DEF LinkedCrate
  <2>3. \A c : Names(c)' = Names(c)
    BY <1>5 DEF Names
  <2> QED BY <1>1, <1>5, <2>1, <2>2, <2>3 DEF Linked
<1> QED BY <1>1, <1>6, <1>7, <1>8, <1>9, LinkerKeeps DEF IInv

LEMMA EndLinkKeeps == ASSUME IInv, EndLink PROVE IInv'
<1>1. /\ UNCHANGED <<prog, done, ctxs, files, data_per_crate, next, combined_possible_methods, output>>
      /\ phase = "link" /\ next \notin DOMAIN data_per_crate /\ phase' = "end"
  BY DEF EndLink
<1>2. TypeOK'
  BY <1>1 DEF IInv, TypeOK, ctxs
<1>3. Frozen'
  BY <1>1 DEF IInv, Frozen, Read
<1>4. Combined'
  BY <1>1 DEF IInv, Combined, ctxs
<1>5. Linked'
  <2>1. ASSUME NEW c \in Crates PROVE LinkedCrate(c)
    BY <1>1, AllVisited DEF IInv, Linked
  <2>2. \A c : (LinkedCrate(c)' <=> LinkedCrate(c)) /\ Names(c)' = Names(c)
    BY <1>1 DEF LinkedCrate, Names, Possibilities, ctxs
  <2> QED BY <1>1, <2>1, <2>2 DEF IInv, Linked
<1> QED BY <1>1, <1>2, <1>3, <1>4, <1>5, LinkerKeeps DEF IInv

LEMMA NextIInv == ASSUME IInv, [Next]_vars PROVE IInv'
<1>1. CASE UNCHANGED vars
  <2>1. UNCHANGED <<prog, done, ctxs, files, linker>>
    BY <1>1 DEF vars
  <2>2. TypeOK' /\ Frozen'
    BY <2>1 DEF IInv, TypeOK, Frozen, Read, ctxs, linker
  <2>3. Combined' /\ Linked'
    BY <2>1 DEF IInv, Combined, Linked, LinkedCrate, Names, Possibilities, ctxs, linker
  <2> QED BY <2>1, <2>2, <2>3, LinkerKeeps DEF IInv
<1> QED BY <1>1, FieldKeeps, CallKeeps, FileKeeps, ReadKeeps, EndReadKeeps, CombineKeeps,
           EndCombineKeeps, LinkKeeps, EndLinkKeeps DEF Next, Stopped

LEMMA Inductive == Spec => []IInv
  BY InitIInv, NextIInv, PTL DEF Spec

-----------------------------------------------------------------------------
(* The contexts of codegen and the maps of the linker are typed: no empty  *)
(* field of a vtable is ever taken for a function a call may reach.        *)
THEOREM Typed == Spec => []TypeOK
<1>1. IInv => TypeOK
  BY DEF IInv
<1> QED BY <1>1, Inductive, PTL

(* link_function_pointer_restrictions restricts every virtual call of all  *)
(* crates and nothing else, and no two calls share a wrapper.              *)
THEOREM SitesLinked == Spec => []EverySiteLinked
<1>1. IInv => EverySiteLinked
  <2> SUFFICES ASSUME IInv, phase = "end" PROVE EverySiteLinked
    BY DEF EverySiteLinked
  <2>1. ASSUME NEW w \in DOMAIN output PROVE w \in {s.function_name : s \in Sites}
    <3>1. PICK c \in Crates : w \in Names(c)
      BY DEF IInv, Linked
    <3>2. PICK i \in DOMAIN call_sites[c] : w = call_sites[c][i].function_name
      BY <3>1 DEF Names
    <3>3. call_sites[c][i] \in Sites
      BY DEF Sites
    <3> QED BY <3>2, <3>3
  <2>2. ASSUME NEW s \in Sites PROVE s.function_name \in DOMAIN output
    <3>1. PICK c \in Crates : \E i \in DOMAIN call_sites[c] : s = call_sites[c][i]
      BY DEF Sites
    <3> QED BY <3>1 DEF IInv, Linked, LinkedCrate
  <2>3. DOMAIN output = {s.function_name : s \in Sites}
    BY <2>1, <2>2
  <2> QED BY <2>3, WrapperUnique DEF EverySiteLinked
<1> QED BY <1>1, Inductive, PTL

(* What the combined map gives a call site, once it is linked.             *)
LEMMA SiteValue ==
    ASSUME IInv, phase = "end", NEW s \in Sites
    PROVE  output[s.function_name] = Possibilities(s.trait_method)
<1>1. PICK c \in Crates : \E i \in DOMAIN call_sites[c] : s = call_sites[c][i]
  BY DEF Sites
<1> QED BY <1>1 DEF IInv, Linked, LinkedCrate

(* A call may only reach a function that some vtable holds for its method, *)
(* although the maps of the crates are merged and looked up by name.       *)
THEOREM RestrictionsPrecise == Spec => []Precise
<1>1. IInv => Precise
  <2> SUFFICES ASSUME IInv, phase = "end", NEW s \in Sites, NEW t \in MayCall(s)
               PROVE  \E c \in Crates : t \in Held(c, s.trait_method)
    BY DEF Precise
  <2> DEFINE m == s.trait_method
  <2>1. PICK i \in DOMAIN Possibilities(m) : t = Possibilities(m)[i]
    BY SiteValue DEF MayCall
  <2>2. m \in DOMAIN combined_possible_methods
    BY <2>1 DEF Possibilities
  <2>3. PICK c \in Crates : /\ m \in DOMAIN possible_methods[c]
                            /\ Possibilities(m) = possible_methods[c][m]
    BY <2>2 DEF IInv, Combined, Possibilities
  <2>4. [method |-> m, target |-> t] \in vtable_fields[c]
    BY <2>1, <2>3 DEF IInv, Possible
  <2> QED BY <2>4 DEF Held
<1> QED BY <1>1, Inductive, PTL

(* A call may reach all the implementations of at least one crate that     *)
(* implements its method: the map of the linker replaces entries, but it   *)
(* replaces whole ones.                                                    *)
THEOREM SoundForOne == Spec => []SoundForSomeImplementer
<1>1. IInv => SoundForSomeImplementer
  <2> SUFFICES ASSUME IInv, phase = "end", NEW s \in Sites,
                      NEW b \in Crates, Implementations(b, s.trait_method) # {}
               PROVE  \E c \in Crates : /\ Implementations(c, s.trait_method) # {}
                                        /\ Implementations(c, s.trait_method) \subseteq MayCall(s)
    BY DEF SoundForSomeImplementer
  <2> DEFINE m == s.trait_method
  <2>0. ASSUME NEW c \in Crates, NEW t \in Implementations(c, m)
        PROVE  /\ m \in DOMAIN possible_methods[c]
               /\ \E i \in DOMAIN possible_methods[c][m] : possible_methods[c][m][i] = t
    <3>1. PICK x \in vtable_fields[c] : x.method = m /\ x.target = t
      BY DEF Implementations, Held
    <3>2. x.target # Null /\ ~x.target.unimplemented
      BY <3>1 DEF Implementations
    <3> QED BY <3>1, <3>2 DEF IInv, Collected
  <2>1. m \in DOMAIN combined_possible_methods
    BY <2>0 DEF IInv, Combined
  <2>2. PICK c \in Crates : /\ m \in DOMAIN possible_methods[c]
                            /\ Possibilities(m) = possible_methods[c][m]
    BY <2>1 DEF IInv, Combined, Possibilities
  <2>3. Implementations(c, m) \subseteq MayCall(s)
    BY <2>0, <2>2, SiteValue DEF MayCall
  <2>4. Implementations(c, m) # {}
    <3> DEFINE t == possible_methods[c][m][1]
    <3>1. possible_methods[c][m] \in Seq(Symbols) /\ possible_methods[c][m] # <<>>
      BY <2>2 DEF IInv, TypeOK, Possible
    <3>2. 1 \in DOMAIN possible_methods[c][m] /\ t \in Symbols
      BY <3>1
    <3>3. [method |-> m, target |-> t] \in vtable_fields[c] /\ ~t.unimplemented
      BY <2>2, <3>2 DEF IInv, Possible
    <3>4. t \in Held(c, m) /\ t # Null
      BY <3>2, <3>3, NullAssumption DEF Held
    <3> QED BY <3>3, <3>4 DEF Implementations
  <2> QED BY <2>3, <2>4
<1> QED BY <1>1, Inductive, PTL
=============================================================================
