CONSTANT Procs = {p1, p2, p3, p4}
SPECIFICATION FairSpec
INVARIANTS Exclusion
PROPERTIES WriterEnters
