SPECIFICATION Spec
CONSTANTS
    MaxSymbols = 3
    MaxSuffix = 16
    Names <- MCNames
    Ids <- MCIds
    Builtins <- MCBuiltins
    Candidate <- MCCandidate
    Numbered <- WithNumber
    Symtabs <- MCSymtabs
INVARIANT InsertedInFirstPass
