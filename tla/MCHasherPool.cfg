\* Two goroutines, three hashers, an object of every outcome.
CONSTANTS
    good = good
    bad = bad
    panicking = panicking
    Callers = {c1, c2}
    Hashers = {h1, h2, h3}
    Objects = {good, bad, panicking}
    Chunks <- MCChunks
    Walk <- MCWalk
    Outcome <- MCOutcome
SPECIFICATION Spec
INVARIANTS
    TypeOK
    ExclusiveUse
    PooledHashersEmpty
PROPERTIES
    ImplementsHashCalls
    EveryCallReturns
