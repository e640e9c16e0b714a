CONSTANTS
    c1 = c1
    c2 = c2
    r1 = r1
    r2 = r2
    e1 = e1
    None = None
    Capture <- MCCapture
    Releaser <- MCReleaser
    Extra <- MCExtra
    Setups <- MCVerdict
    MaxPending = 2
    Threads = 3
    ReturnDefault = 5
    Reserved = 1
    MaxLeaves <- MCLeaves
SPECIFICATION Spec
INVARIANT VerdictIssued
