SPECIFICATION Spec
CONSTANTS
    Types = 2
    Target = 2
    Chosen <- MCChosen
    MaxReals <- MCMaxRealsBoth
    MaxKills = 0
    NResults = 2
INVARIANTS
    StaleDoesNotLeak
