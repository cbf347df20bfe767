SPECIFICATION Spec
CONSTANTS
  Releases <- MCReleases
  Descriptor <- MCDescriptor
  Parcelables <- MCParcelables
  Layout <- MCLayout
  Unions <- MCUnions
  Arms <- MCArms
  Variants <- MCVariants
  Holds <- MCHolds
  Request <- MCRequest
  Reply <- MCReply
  MaxList = 1
  MaxCalls = 2
INVARIANT AcceptedIsServed
CHECK_DEADLOCK FALSE
