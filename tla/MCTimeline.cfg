\* Pages of every kind overlap registrations, posts, comments, bans and
\* /initialize, which bans the second user again.
CONSTANTS
    Reqs = {r1, r2}
    u1 = u1
    p1 = p1
    c1 = c1
    Uids = {u1, u2, u3}
    Pids = {p1, p2, p3}
    Cids = {c1, c2}
    SeedUsers = {u1, u2}
    SeedPosts = {p1}
    SeedComments = {c1}
    SeedPost <- OneSeedPost
    SeedComment <- OneSeedComment
    Fiftieth = {u2}
    PostsPerPage = 2
    CommentLimit = 1
    Start = 0
    Ops = {"index", "posts", "post", "page", "image", "register", "newPost", "newComment", "ban", "initialize"}
    None = None
    MaxSent = 3
    MaxNow = 1
SPECIFICATION MCSpec
SYMMETRY Symmetry
INVARIANT TypeOK BanReflected PostsReflected CommentsReflected PageCoherent OrphansOnlyByRace InitializeRestores
PROPERTY Moderated
\* The run stops after MaxSent requests.
CHECK_DEADLOCK FALSE
