\* A page asked for before a ban arrives after it, and is cached.
CONSTANTS
    Reqs = {r1, r2}
    n1 = n1
    n2 = n2
    u1 = u1
    u2 = u2
    Names = {n1, n2}
    Ids = {u1, u2}
    Seed = {u1, u2}
    SeedName <- TwoSeedNames
    Admins = {u1}
    Fiftieth = {}
    FormField = "uid"
    Ops = {"page", "login", "ban"}
    None = None
    MaxSent = 3
SPECIFICATION MCSpec
SYMMETRY Symmetry
INVARIANT BanHonoured
\* The run stops after MaxSent requests.
CHECK_DEADLOCK FALSE
