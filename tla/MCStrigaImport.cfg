\* Two processes import while the two files are written three times, in
\* different seconds and with one of two sizes.  Once the last version has been
\* removed nothing can happen any more.
SPECIFICATION Spec
CONSTANTS
  Importers = {i1, i2}
  NoSource = 0
  MaxEdits = 3
  Sizes = {1, 2}
  SharedSeconds = FALSE
INVARIANTS
  CodeIsFresh
  CacheIsHonest
CHECK_DEADLOCK FALSE
