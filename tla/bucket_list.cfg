\* Three writes in two namespaces, every prefix listed.
CONSTANTS
  Keys <- ManyKeys
  ListPrefixes <- AllPrefixes
  Alphabet = {"a", "A", "/", "_"}
  lower <- Lower
  NameChars = {"a", "_"}
  Namespaces = {"own", "other"}
  MaxWrites = 3
SPECIFICATION Spec
INVARIANTS TypeOK HeldIsStored ListFinds
CHECK_DEADLOCK FALSE
