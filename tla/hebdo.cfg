SPECIFICATION Spec
CONSTANTS
  Aucun = Aucun
  Societes = {dupont}
  Pins = {p1, p2}
  DerniereSemaine = 2
  Creations = {c1, c2}
  Suppressions = {d1}
  Calendrier <- FinAnnee
  TaillePool = 1
  LecturesVerrouillees = TRUE
SYMMETRY Symetrie
INVARIANTS BadgeDeLaSemaine BadgeAttribue
CHECK_DEADLOCK FALSE
