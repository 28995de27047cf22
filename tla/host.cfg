CONSTANTS
  Hands = {h1}
  Versions = {v1, v2}
SPECIFICATION Spec
INVARIANTS TypeOK ScriptSettles
PROPERTIES KeepsMode SessionComesBack UpdatesLand
