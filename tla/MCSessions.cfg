\* One browser sends overlapping logins, logouts, page views and writes.
CONSTANTS
    Browsers = {b1}
    Reqs = {r1, r2}
    n1 = n1
    n2 = n2
    u1 = u1
    u2 = u2
    Names = {n1, n2}
    Uids = {u1, u2}
    Seed = {u1, u2}
    SeedName <- TwoSeedNames
    Admins = {u1}
    Fiftieth = {}
    Sids = {s1, s2}
    Tokens = {t1, t2}
    Ops = {"getLogin", "getIndex", "postLogin", "logout", "postIndex", "postComment", "postAdminBanned"}
    None = None
    MaxSent = 4
SPECIFICATION MCSpec
SYMMETRY Symmetry
INVARIANT TokenCoherence WritersAuthorized LogoutSticks
\* The run stops after MaxSent requests.
CHECK_DEADLOCK FALSE
