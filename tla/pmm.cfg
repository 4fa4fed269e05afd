SPECIFICATION Spec
CONSTANTS
    AddrSpace <- MCAddrSpace
    MemKB = 128
    MemMaps <- MCMaps
    RamWords <- UsedRam
    Addrs <- MCAddrs
INVARIANTS
    TypeOK
    HeldAreMarked
    ReservedNeverHeld
PROPERTIES
    NoDoubleGrant
    PoolSpec
