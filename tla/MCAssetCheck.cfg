\* Two goroutines check a URL of a server that answers as it likes.
CONSTANTS
    Paths = {p1}
    b1 = b1
    Empty = b0
    Bodies = {b0, b1}
    Content <- SameContent
    Images = {i1}
    ImageMD5 <- SameMD5
    Plays = {a1, a2}
    None = None
SPECIFICATION Spec
SYMMETRY Symmetry
INVARIANT TypeOK HonestNeverFails CaughtUnlessStorable
