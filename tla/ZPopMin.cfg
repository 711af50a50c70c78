\* The transaction against one atomic step, two clients, two boards.
SPECIFICATION Spec
CONSTANTS
    Clients = {c1, c2}
    Members = {b1, b2}
    None = None
    Scores <- MCScores
    MaxWrites = 2
INVARIANTS TypeOK ReadStillFirst
PROPERTIES AtomicSpec HandedOutOnce CallReturns
