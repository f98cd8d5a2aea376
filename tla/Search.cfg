SPECIFICATION MCFairSpec
CONSTANTS
    Searches = {s1, s2}
    NoSearch = NoSearch
    Deployments <- MCDeployments
    Gap = " "
    Whitespace = {" "}
    Separators = {" ", "_"}
    Joiners = {"_"}
    Pieces = {" ", "_", "star", "war", "s", "scary", "tv", "movie", "2024", "2049", "'s", "'"}
    Synonyms <- MCSynonyms
    GenericTerms <- MCGenericTerms
    Years = {"2024", "2049"}
    Openers = {"'"}
    Possessives = {"'s", "'"}
    Genres <- MCGenres
    Chips <- MCChips
    ResultLists <- MCResultLists
    MaxQueryLength = 5
    ResultLimit = 1
    Openings = {p1, p2}
    FailureThreshold = 2
    ResetSeconds = 1
    MaxTyped = 3
    s1 = s1
    s2 = s2
INVARIANTS
    PageTypeOK
    ParserMeetsReference
    NarrowingKeepsTheBest
    SearchesFailForCause
    FoundIsShown
PROPERTIES
    PageSettles
CHECK_DEADLOCK FALSE
