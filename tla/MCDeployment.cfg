SPECIFICATION DeploymentSpec
CONSTANTS
  Clients <- TwoClients
  Lease = 2
  MaxPairs = 3
  Deployments <- MCDeployments
  ExternalIP <- MCExternalIP
  MaxLives = 2
INVARIANTS
  MappedWhileServing
  NothingLeftBehind
  FailedStartHoldsNothing
  IdentityOnDisk
  AccessAsWritten
  AnnouncedFits
  GroupsCanonical
  AdvertisedIsPublic
PROPERTIES
  StopsWhenAsked
  LostMappingNoticed
  IdentityKept
