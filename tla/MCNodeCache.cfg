\* Readers, logins and registrations of the same names overlap bans and
\* /initialize, whose statements may go on after its reply.
CONSTANTS
    Reqs = {r1, r2}
    n1 = n1
    n2 = n2
    u1 = u1
    u2 = u2
    Names = {n1, n2}
    Ids = {u1, u2, u3}
    Seed = {u1}
    SeedName <- OneSeedName
    Admins = {u1}
    Fiftieth = {u2}
    FormField = "uid"
    Ops = {"index", "posts", "post", "page", "login", "register", "ban", "initialize"}
    None = None
    MaxSent = 3
SPECIFICATION MCSpec
SYMMETRY Symmetry
INVARIANT TypeOK MapsAgree StaleOnlyByRace IndexHonoursBan
PROPERTY RegisterLogsInNewUser
\* The run stops after MaxSent requests.
CHECK_DEADLOCK FALSE
