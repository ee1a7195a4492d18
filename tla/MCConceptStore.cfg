\* Three operations on three paths, two in flight at a time.
CONSTANTS
    pa = pa
    pb = pb
    ps = ps
    c1 = c1
    c2 = c2
    Paths = {pa, pb, ps}
    Staging = {ps}
    Contents = {c1, c2}
    Absent = Absent
    Dirs <- MCDirs
    DirOf <- MCDirOf
    Tasks = {t1, t2}
    Tags = {"none", "consolidate"}
    Batches <- MCBatches
    Stores <- MCStores
    Retention = 2
    MaxRevisions = 4
    MaxOps = 3
SYMMETRY Symmetry
SPECIFICATION Spec
INVARIANTS NoUnloggedConcept UndoRow NothingDangles SoloHeals
CHECK_DEADLOCK FALSE
