SPECIFICATION Spec
CONSTANTS
    a = a
    b = b
    p = p
    q = q
    None = None
    Branches = {"main", "master", "feature"}
    Commits = {a, b}
    Upstream <- MCUpstream
    Content <- MCContent
    Repositories <- MCRepositories
    Flags <- MCFlags
    Comparers = {p, q}
    MaxCompares = 2
    MaxFaults = 1
SYMMETRY Symmetry
INVARIANT LabelsTrue
INVARIANT RestoresCleanRepository
PROPERTY BranchesStay
CHECK_DEADLOCK FALSE
