SPECIFICATION Spec
CONSTANTS
  Releases <- MCReleases
  Descriptor <- MCDescriptor
  Parcelables <- MCParcelables
  Layout <- ImportedLayout
  Unions <- MCUnions
  Arms <- OneArm
  Variants <- MCVariants
  Holds <- MCHolds
  Request <- MCRequest
  Reply <- MCReply
  MaxList = 1
  MaxCalls = 2
INVARIANT AcceptedIsServed
CHECK_DEADLOCK FALSE
