SPECIFICATION Spec
CONSTANTS
    Components <- MCComponents
    Order <- MCOrder
    Imports <- MCImports
    Buildable <- MCComponents
    Released <- MCReleased
    PreStaged <- MCPreStaged
    Pins <- MCPins
    Verdicts = {"major", "none", "unknown"}
    MaxCommits = 1
    MaxPasses = 20
INVARIANT
    ImportersFollow
