SPECIFICATION Spec
CONSTANTS
    f1 = f1
    f2 = f2
    ext = ext
    s1 = s1
    s2 = s2
    sext = sext
    list = list
    node = node
    opaque = opaque
    a1 = a1
    a2 = a2
    c1 = c1
    c2 = c2
    c3 = c3
    v1 = v1
    v2 = v2
    None = None
    Fns <- MCFns
    Statics <- MCStatics
    Types <- MCTypes
    Allocs <- MCAllocs
    Contents <- MCContents
    Vtables <- MCVtables
    Programs <- MCPrograms
INVARIANT StaticsInitialised
