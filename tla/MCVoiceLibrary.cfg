SPECIFICATION Spec
CONSTANTS
  Workers = {w1, w2}
  Clis = {c1, c2}
  Voices = {v1}
  Bindings = {b1,b2}
  Dirs <- VoiceDirs
  XVectorOnly = FALSE
  InspectLimit = 3
  MaxCommands = 3
  Troubles = {"fault", "crash", "edit"}
  MaxTrouble = 2
SYMMETRY Symmetric
INVARIANTS OnePublisher RegisteredIsUsable NoLostUpdate 
CHECK_DEADLOCK FALSE
