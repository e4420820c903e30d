SPECIFICATION Spec
CONSTANTS
  Cap = 2
  WordCount = 2
  MaxPublish = 7
INVARIANTS
  NoTornReadWeak
  HeadCoversSlots
PROPERTIES
  NoFalseLossWeak
