\* Two browsers race registrations, logins and /initialize.
CONSTANTS
    Browsers = {b1, b2}
    Reqs = {r1, r2}
    n1 = n1
    n2 = n2
    u1 = u1
    u2 = u2
    Names = {n1, n2, n3}
    Uids = {u1, u2, u3}
    Seed = {u1}
    SeedName <- OneSeedName
    Admins = {u1}
    Fiftieth = {u2}
    Sids = {s1, s2}
    Tokens = {t1, t2}
    Ops = {"initialize", "postLogin", "postRegister"}
    None = None
    MaxSent = 3
SPECIFICATION MCSpec
SYMMETRY Symmetry
INVARIANT TypeOK NoForeignLogin
\* The run stops after MaxSent requests.
CHECK_DEADLOCK FALSE
