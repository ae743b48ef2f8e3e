CONSTANTS
    Goroutines = {g1, g2}
    Trees <- mcTrees
    Cells = 4
SPECIFICATION Spec
INVARIANTS
    HashesOfTheLeaves
