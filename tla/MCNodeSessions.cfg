\* One browser, overlapping requests of every kind, and failing memcached calls.
CONSTANTS
    Users = {u1, u2}
    Sids = {s1, s2, s3}
    Tokens = {t1, t2}
    Reqs = {r1, r2}
    None = None
    MaxSent = 4
SPECIFICATION MCSpec
SYMMETRY Symmetry
INVARIANT TypeOK TokenCoherence WritersAuthorized LoginSticks LogoutSticks
\* The run stops after MaxSent requests.
CHECK_DEADLOCK FALSE
