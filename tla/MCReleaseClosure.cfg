SPECIFICATION Spec
CONSTANTS
    Components <- MCComponents
    Order <- MCOrder
    Imports <- MCImports
    Buildable <- MCBuildable
    Released <- MCReleased
    PreStaged <- MCPreStaged
    Pins <- MCPins
    Verdicts = {"major", "none", "unknown"}
    MaxCommits = 1
    MaxPasses = 20
INVARIANTS
    ClosureComplete
    ImportsHaveVersions
    CutOffUnused
