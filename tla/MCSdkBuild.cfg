SPECIFICATION FairSpec
CONSTANTS
    b1 = b1
    b2 = b2
    Pin = b1
    Junk = Junk
    Absent = Absent
    Content = {b1, b2, Junk}
    Compatible = {b2}
    Anchors <- MCAnchors
    MaxEvents = 2
INVARIANTS ValidatedArchive MadeByThisRun ChecksummedArchiveIsWhole ValidationLeavesTree
PROPERTIES PreflightGuardsTrees Recovers
