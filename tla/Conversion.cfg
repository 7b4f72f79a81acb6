SPECIFICATION MCSpec
CONSTANTS
    Pages = {1, 2, 3, 4, 5}
    Path <- MCPath
    Name <- MCName
    Meta = {1}
    Unfiled = {5}
    Mangled = {4}
    Subjects = {"s", "t", "u"}
    NoSubject = NoSubject
    MayFile <- MCMayFile
    Origin <- MCOrigin
    Told = Told
    Late = {3}
    NoReuse = TRUE
    NoRenaming = TRUE
    HasGit = TRUE
    MaxCrashes = 2
INVARIANTS NoPageLost OnePostEach StampedByOrigin CitationsResolve
PROPERTY ConversionEnds
CHECK_DEADLOCK FALSE
