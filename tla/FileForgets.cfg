\* A path of one name, relative to the working directory; the process does not die.
CONSTANTS
  MaxIndex = 0
  Value = {0, 1}
  Kinds = {"Meta"}
  MaxDeaths = 0
  Orphans = FALSE
  Standing = 0
  Rooted = FALSE
SPECIFICATION Spec
INVARIANTS PersistedSurvives
