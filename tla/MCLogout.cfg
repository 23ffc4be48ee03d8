\* A post without an image overlaps the logout.
CONSTANTS
    Browsers = {b1}
    Reqs = {r1, r2}
    n1 = n1
    n2 = n2
    u1 = u1
    u2 = u2
    Names = {n1, n2}
    Uids = {u1, u2}
    Seed = {u1, u2}
    SeedName <- TwoSeedNames
    Admins = {u1}
    Fiftieth = {u2}
    Sids = {s1, s2}
    Tokens = {t1, t2}
    Ops = {"postIndex", "postLogin", "logout"}
    None = None
    MaxSent = 3
SPECIFICATION MCSpec
SYMMETRY Symmetry
INVARIANT LogoutAlwaysSticks
\* The run stops after MaxSent requests.
CHECK_DEADLOCK FALSE
