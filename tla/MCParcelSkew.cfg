SPECIFICATION Spec
CONSTANTS
  Releases <- MCReleases
  Descriptor <- MCDescriptor
  Parcelables <- MCParcelables
  Layout <- MCLayout
  Unions <- MCUnions
  Arms <- MCArms
  Variants <- MCVariants
  Holds <- MCHolds
  Request <- MCRequest
  Reply <- MCReply
  MaxList = 1
  MaxCalls = 2
INVARIANTS TypeOK InPlace SidesAgree NeverRefused
CHECK_DEADLOCK FALSE
