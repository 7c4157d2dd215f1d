SPECIFICATION Spec
CONSTANTS
  o1 = o1
  o2 = o2
  o3 = o3
  scene = scene
  mesh = mesh
  Objects = {o1, o2, o3}
  Codes = {scene, mesh}
  Sources <- MCSources
  Dead = Dead
  MovedFrom = MovedFrom
  Gone = Gone
  NoView = NoView
SYMMETRY Symmetry
INVARIANTS
  TypeOK
  ViewsSelectExactly
  TypesAnswerFromTheirFile
CHECK_DEADLOCK FALSE
