SPECIFICATION Spec
CONSTANTS
    Components <- MCComponents
    Order <- MCOrder
    Imports <- MCImports
    Buildable <- MCComponents
    Released <- MCReleased
    PreStaged <- MCPreStaged
    Pins <- MCPins
    Verdicts = {"major", "minor", "none"}
    MaxCommits = 1
    MaxPasses = 20
INVARIANTS
    DeclaredMinorStands
