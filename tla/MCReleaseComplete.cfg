SPECIFICATION FairSpec
CONSTANTS
    w1 = w1
    c1 = c1
    c2 = c2
    Checkouts = {c1, c2}
    Work = {w1}
    MaxFaults = 1
INVARIANTS TypeOK TagOnMain CompleteIsPublished
PROPERTIES Refines EventuallyPublished
