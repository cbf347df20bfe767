SPECIFICATION Spec
CONSTANTS
    First <- MCFirst
    Limit <- MCLimit
    Pinnable <- MCPinnable
INVARIANTS
    TypeOK
    AcceptedIffUnbroken
    UnfrozenIsRefused
    VersionsAdvance
