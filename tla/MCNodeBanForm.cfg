\* The form of banned.ejs is submitted.
CONSTANTS
    Reqs = {r1, r2}
    n1 = n1
    n2 = n2
    u1 = u1
    u2 = u2
    Names = {n1, n2}
    Ids = {u1, u2}
    Seed = {u1, u2}
    SeedName <- TwoSeedNames
    Admins = {u1}
    Fiftieth = {}
    FormField = "uid[]"
    Ops = {"ban"}
    None = None
    MaxSent = 3
SPECIFICATION MCSpec
SYMMETRY Symmetry
INVARIANT BanApplied
\* The run stops after MaxSent requests.
CHECK_DEADLOCK FALSE
