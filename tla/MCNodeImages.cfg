\* Uploads, readers and /initialize share the files of a seeded and a new post.
CONSTANTS
    Ids = {p1, p2}
    Seed = {p1}
    Imgs = {i1, i2}
    jpg = jpg
    Exts = {jpg}
    WarmLimit = 2
    Reqs = {r1, r2, r3}
    None = None
    MaxSent = 4
SPECIFICATION MCSpec
SYMMETRY Symmetry
INVARIANT TypeOK ServedIsUploaded TornOnlyWhileWritten DeletedOnlyByRace UploadsServed
\* The run stops after MaxSent requests.
CHECK_DEADLOCK FALSE
