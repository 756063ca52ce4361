SPECIFICATION Spec
CONSTANTS
    lib = lib
    bin = bin
    speak = speak
    drop = drop
    cat = cat
    dog = dog
    cow = cow
    Null = Null
    Crates <- MCCrates
    Methods <- MCMethods
    Fns <- MCFns
    Programs <- AllHaveSymbols
INVARIANTS
    Sound
