SPECIFICATION Spec
CONSTANTS
  Aucun = Aucun
  Societes = {dupont, durand}
  Pins = {p1, p2, p3}
  DerniereSemaine = 2
  Creations = {c1}
  Suppressions = {d1}
  Calendrier <- UnLundi
  TaillePool = 2
  LecturesVerrouillees = TRUE
SYMMETRY Symetrie
INVARIANTS SuppressionEffective
CHECK_DEADLOCK FALSE
