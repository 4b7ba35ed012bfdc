\* One importer and one owner through losses, duplicates, delays and reboots.
SPECIFICATION Spec
CONSTANTS
  Window = 1
  Lease = 2
  ConfirmTimeout = 1
  ImporterMax = 4
  OwnerMax = 2
  MaxAir = 2
  MaxBoots = 1
  Never = Never
CHECK_DEADLOCK FALSE
INVARIANTS TypeOK SilenceStops LightIsHonest HeardAfterBoot
PROPERTIES TakenInOrder
