SPECIFICATION MCSpec
CONSTANTS
    self = self
    p1 = p1
    p2 = p2
    p3 = p3
    lo = lo
    e1 = e1
    e2 = e2
    e3 = e3
    Pids <- MCPids
    KernelProcs <- MCKernelProcs
    Self = self
    Adapters = {lo, e1, e2, e3}
    Loopback = lo
    TwoAddresses = {e2, e3}
    EntrySize = 2
    LastSlot = 3
    Burst = 2
    Platforms = {"aix", "hp"}
INVARIANTS NoDuplicate RoomIsReal EntriesWritten
PROPERTIES ListingEnds ScanSpec SnapshotListed
\* The listing is over.
CHECK_DEADLOCK FALSE
