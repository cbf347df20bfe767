SPECIFICATION Spec
CONSTANTS
    Components <- MCComponents
    Order <- MCOrder
    Imports <- MCImports
    Releasing <- MCReleasing
    First <- MCFirst
    MaxRuns = 2
    MaxUpsets = 1
INVARIANT
    MetadataHasSnapshot
