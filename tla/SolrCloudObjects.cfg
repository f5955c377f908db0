CONSTANTS
  Pods = {0, 1}
  Families <- AllFamilies
  Upgraded <- OldInstallations
  MaxEdits = 2
  MaxFaults = 1
  MaxTime = 3
  None = None
SPECIFICATION Spec
INVARIANTS TypeOK AdvertisedAddressResolves IngressHasBackends PodsRunAnnouncedContent SecurityJsonIsKept
PROPERTIES Converges RestartsRecur
CHECK_DEADLOCK FALSE
