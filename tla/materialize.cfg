SPECIFICATION Spec
CONSTANTS
    l1 = l1
    c1 = c1
    c2 = c2
    w1 = w1
    w2 = w2
    Loads = {l1}
    Commits = {c1}
    Workers = {w1, w2}
    TagNames = {"release"}
    MaxSnapshot = 2
SYMMETRY WorkerSymmetry
INVARIANTS TypeOK ChainsAreComplete AnswersShowAll
