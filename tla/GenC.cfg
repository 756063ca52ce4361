SPECIFICATION GenCSpec
CONSTANTS
    MaxSymbols = 4
    MaxProgram = 5
    MaxSuffix = 64
    Half = 4
    Unnamed = Unnamed
    Names <- GenCNames
    Ids <- GenCIds
    Builtins <- GenCBuiltins
    Candidate <- GenCCandidate
    Numbered <- WithNumber
    Symtabs <- MCSymtabs
    Programs <- MCPrograms
    PassLists <- MCPassLists
    Defaults <- MCDefaults
    Types <- MCTypes
    Void <- void
    WideTypes <- MCWideTypes
    main <- MCmain
    main_ <- MCmain_
    ret <- MCret
    int <- c_int
    NonDet <- MCNonDet
    Ret <- MCRet
    Dummy <- MCDummy
    Orders <- MCOrders
INVARIANTS Injective PanicOnlyOnClash 
    OnlyC BodiesKept StaticsInitialised NothingLost PanicsOnlyOnClash Linked
 
