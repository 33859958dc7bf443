\* No directory at first; the metadata's file, which is replaced, and two
\* entries', written in place.  The snapshot is replaced as the metadata is.
CONSTANTS
  MaxIndex = 1
  Value = {0, 1}
  Kinds = {"Meta", "LogEntry", "DeleteLogs"}
  MaxDeaths = 1
  Orphans = FALSE
  Standing = 0
  Rooted = TRUE
SPECIFICATION Spec
INVARIANTS TypeOK PersistedSurvives
PROPERTIES ImplementsContract
