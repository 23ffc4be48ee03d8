\* Pre-checks that fail or not, and one login that may hang.
CONSTANTS
    Workers = {w1}
    Main = main
    Offered = {"login"}
    Errs = {1, 2}
    Exceptions = {1}
    None = None
    MaxLoad = 1
    MaxFails = 3
SPECIFICATION MCFairSpec
INVARIANT MessagesExact
PROPERTY RunReports
