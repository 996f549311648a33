SPECIFICATION Spec
CONSTANTS
    Types = 2
    Target = 2
    Chosen <- MCChosen
    MaxReals <- MCMaxReals
    MaxKills = 1
    NResults = 1
INVARIANTS
    TypeOK
    RealsDoNotLeak
    AlarmMeansOutgrown
    FreshCollectionIsMemory
