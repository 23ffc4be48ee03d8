\* Scenarios succeed, fail and hang while the report is put together, and readers
\* compete for the two tokens of their kind.
CONSTANTS
    Workers = {w1, w2}
    Main = main
    Offered = {"loadIndex", "comment", "ban"}
    Errs = {1, 2}
    Exceptions = {1}
    None = None
    MaxLoad = 2
    MaxFails = 2
SPECIFICATION MCSpec
SYMMETRY Symmetry
INVARIANT TypeOK ReportCoherent PassMeansClean TokensConserved
