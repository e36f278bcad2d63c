CONSTANTS
  Writes = {w1, w2}
  LastDay = 3
  Keep = 2
  CutFile = CutFile
  MaxCopies = 2
  Events = {"kill", "kill_in_save", "disk_full", "restore", "upload", "reset"}
  MaxSnaps = 2
SPECIFICATION Spec
INVARIANTS SavedSurvive StopSaves
PROPERTIES PastBackupsKept RollbackUndoable
