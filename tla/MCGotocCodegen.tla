--------------------------- MODULE MCGotocCodegen ---------------------------
(***************************************************************************)
(* Crates for GotocCodegen: three functions (one of another crate), three  *)
(* statics (one of another crate), two mutually recursive types and a      *)
(* foreign one, constants that point to functions, statics and each other, *)
(* and two vtables, one for a type whose drop function is not in the crate.*)
(***************************************************************************)
EXTENDS GotocCodegen, TLC

CONSTANTS
    f1, f2, ext,             \* functions
    s1, s2, sext,          \* statics
    list, node, opaque,    \* types
    a1, a2,                \* alloc ids
    c1, c2, c3,            \* allocations
    v1, v2                 \* vtables

MCFns      == {f1, f2, ext}
MCStatics  == {s1, s2, sext}
MCTypes    == {list, node, opaque}
MCAllocs   == {a1, a2}
MCContents == {c1, c2, c3}
MCVtables  == {v1, v2}

Fn(x)     == [op |-> "fn", id |-> x]
Static(x) == [op |-> "static", id |-> x]
Use(op, id) == Op(op, id, NoName)

(* The order of the items; f2 may be in two codegen units.                  *)
ItemOrders == { <<Fn(f1), Static(s1), Static(s2), Fn(f2)>>,
                <<Static(s2), Fn(f2), Static(s1), Fn(f1), Fn(f2)>> }

Bodies == { <<Use("ty", node), Use("temp", None), Use("fn", ext), Use("temp", None)>>,
            <<Use("const", c2), Use("static", sext), Use("mem", a2), Use("const", c3)>>,
            <<Use("vtable", v1), Use("temp", None), Use("vtable", v2), Use("vtable", v1)>>,
            <<Use("direct", list), Use("repeat", list), Use("direct", list),
              Use("repeat", list), Use("ty", opaque)>> }

(* c1 may point to c2 or c3, c2 only to c3: no allocation is cyclic.       *)
RelocsOfC1 == { <<>>, <<Use("mem", a1)>>, <<Use("fn", f2), Use("mem", a2), Use("static", s2)>> }
RelocsOfC2 == { <<>>, <<Use("mem", a2), Use("static", s1)>> }

Crate(items, body, r1, r2, m, init2, spread, skip) ==
    [items   |-> items,
     sig     |-> (f1 :> <<list>>) @@ (f2 :> <<>>) @@ (ext :> <<opaque>>),
     locals  |-> (f1 :> <<list, node>>) @@ (f2 :> <<node>>) @@ (ext :> <<>>),
     spread  |-> (f1 :> spread) @@ (f2 :> 0) @@ (ext :> 0),
     args    |-> (f1 :> <<opaque, list>>) @@ (f2 :> <<>>) @@ (ext :> <<>>),
     body    |-> (f1 :> body) @@ (f2 :> <<Use("fn", f1), Use("vtable", v1), Use("temp", None)>>)
                 @@ (ext :> <<>>),
     skip    |-> skip,
     proof   |-> {f1, f2},
     fields  |-> (list :> <<node, opaque>>) @@ (node :> <<list, node>>) @@ (opaque :> <<>>),
     foreign |-> {opaque},
     typ     |-> [s \in MCStatics |-> list],
     init    |-> (s1 :> c1) @@ (s2 :> init2) @@ (sext :> c3),
     content |-> (a1 :> c2) @@ (a2 :> c3),
     mutable |-> m,
     relocs  |-> (c1 :> r1) @@ (c2 :> r2) @@ (c3 :> <<>>),
     impl    |-> (v1 :> list) @@ (v2 :> node),
     drop    |-> (v1 :> ext) @@ (v2 :> f2)]

(* The value of a static, or memory it points to, may be mutable; what a   *)
(* body mentions is immutable.                                             *)
BodiesImmutable(p) ==
    \A h \in MCFns : \A i \in DOMAIN p.body[h] :
        /\ p.body[h][i].op = "const" => p.body[h][i].id \notin p.mutable
        /\ p.body[h][i].op = "mem" => p.content[p.body[h][i].id] \notin p.mutable

MCPrograms ==
    { p \in { Crate(items, body, r1, r2, m, init2, spread, skip) :
                 items \in ItemOrders, body \in Bodies, r1 \in RelocsOfC1,
                 r2 \in RelocsOfC2, m \in {{}, {c1}, {c3}}, init2 \in {c1, c2},
                 spread \in {0, 2}, skip \in {{}, {f2}} } :
      BodiesImmutable(p) }
=============================================================================
