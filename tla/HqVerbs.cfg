SPECIFICATION HqSpec
CONSTANTS
    c1 = c1
    c2 = c2
    c3 = c3
    Clients = {c1, c2, c3}
    Nobody = Nobody
    Categories = {"finding", "decision"}
    Slugs = {"x"}
    Subjects = {"s"}
    NoSubject = NoSubject
    Limit = 2
    FrontMatters <- FewBullets
    Tails <- FewTails
    Bodies <- FewBodies
    Words = {"", "summary", "status", "keywords", "old", "new"}
    Authors = {"ann", "bob"}
    Owner = "ann"
    MaxCalls = 2
SYMMETRY ClientSymmetry
INVARIANTS IndexCurrent ReviewsAreEarned
PROPERTIES AtomicVerbs EditsKeepTheRest
CHECK_DEADLOCK FALSE
