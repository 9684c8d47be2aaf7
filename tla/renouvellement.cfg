SPECIFICATION Spec
CONSTANTS
  Aucun = Aucun
  Societes = {dupont, durand}
  Pins = {p1, p2, p3}
  DerniereSemaine = 2
  Creations = {c1}
  Suppressions = {}
  Calendrier <- UnNouvelAn
  TaillePool = 2
  LecturesVerrouillees = TRUE
SYMMETRY Symetrie
PROPERTIES RenouvellementAnnuel
CHECK_DEADLOCK FALSE
