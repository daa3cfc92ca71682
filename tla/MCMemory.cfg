SPECIFICATION Spec
CONSTANTS
  kAttributeNumber = 2
  Operations = 4
  UsedKeys <- MCUsedKeys
  Stores <- MCStores
  Pages <- MCPages
  Selections <- MCSelections
  kBootROM <- MCkBootROM
  Cartridge <- MCCartridge
  Probes <- MCProbes
  Pixels <- MCPixels
  Garbage <- MCGarbage
INVARIANT KeysShown
PROPERTIES
  ImplementsFlatMemory
  PictureFromMemory
