\* two threads; one small object stays under the limit, anything more is over it
CONSTANTS
    Thread = {t1, t2}
    c1 = c1
    c2 = c2
    o1 = o1
    o2 = o2
    Cache <- MCCache
    Oid <- MCOid
    Keeps <- MCKeeps
    Asked <- MCAsked
    MaxCopies = 2
    Nil = Nil
    Size <- MCSize
    MaxObjectSize = 3
    MaxStorage = 1
    EvictCount = 1
SYMMETRY Symmetry
SPECIFICATION Spec
INVARIANTS RefCounts NoDangling RightObject Accounting
