SPECIFICATION Spec
CONSTANTS
    First <- MCFirst
    Limit <- MCLimit
    Pinnable <- MCPinnable
INVARIANT
    RespinsCapAtNine
