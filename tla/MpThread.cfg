SPECIFICATION Spec
CONSTANTS
  Main = main
  Workers = {w1, w2, w3}
  None = none
  MaxCreates = 4
  Habits = {"atexit", "late", "swallow"}
SYMMETRY Symmetry
INVARIANTS
  TypeOK
  TeardownAlone
  NoLostWakeup
  NoFreedEntryUse
  RegistryConsistent
PROPERTIES
  VmLifecycleSpec
