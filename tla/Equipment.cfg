SPECIFICATION FairSpec
CONSTANTS
  own = own
  forked = forked
  Devices = {d1, d2}
  Ids = {own, forked}
  Settings <- TwoSettings
INVARIANTS
  EquipmentInv
PROPERTIES
  UnsentWorkStays
  RemovalIsAnswered
  NothingReplacedUnseen
  RowsAreVersioned
  CatalogueSettles
