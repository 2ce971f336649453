\* Three threads racing create/copy/reset on one address, three pool slots.
CONSTANTS
    t1 = t1  t2 = t2  t3 = t3
    s1 = s1  s2 = s2  s3 = s3
    a1 = a1  a2 = a2
    NoSlot = NoSlot
    Unspec = Unspec
    Threads <- MCThreads
    Slots <- MCSlots
    Addrs <- MCAddrs
SYMMETRY Symm
SPECIFICATION Spec
INVARIANT TypeOK
INVARIANT RefCountExact
INVARIANT HeldIsIndexed
INVARIANT PooledIsClean
INVARIANT NoLeak
