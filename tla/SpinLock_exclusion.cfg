CONSTANT Procs = {p1, p2, p3}
SPECIFICATION Spec
INVARIANT MutualExclusion
