CONSTANTS
    Workers = {w1, w2, w3}
    Sessions = {s1, s2}
    Mdids = {rel, ctas}
    Ctas = {ctas}
    Objects = {o1, o2, o3, o4}
    None = none
SPECIFICATION Spec
SYMMETRY Symmetry
INVARIANTS RefsExact CachedLive
CHECK_DEADLOCK FALSE
