SPECIFICATION Spec
CONSTANTS
    Char <- Strings
    Sites <- PatternSites
    ServerNames <- NamesInOrder
    MaxTarget = 1
INVARIANT CategoriesAreHeaders
