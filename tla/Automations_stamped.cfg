\* Two automations through redesigns, builds, reflashes and edits.
SPECIFICATION Spec
CONSTANTS
  r1 = r1  r2 = r2  v1 = v1  v2 = v2
  NumAutos = 2
  RouteOf <- MCRouteOf
  Version = {v1, v2}
  TableOf <- MCTableOf
  First = v1
  MaxEdits = 2
  MaxDesigns = 1
  MaxBuilds = 1
  MaxWire = 1
  MaxBoots = 1
  NoRow = NoRow
  NoPage = NoPage
  NoBuild = NoBuild
  NoSet = NoSet
  Unread = Unread
CHECK_DEADLOCK FALSE
INVARIANTS TypeOK StampGuards
PROPERTIES MirrorsRows
