SPECIFICATION FairSpec
CONSTANTS
  Aucun = Aucun
  Societes = {dupont, durand}
  Pins = {p1, p2}
  DerniereSemaine = 2
  Creations = {c1}
  Suppressions = {}
  Calendrier <- UnNouvelAn
  TaillePool = 2
  LecturesVerrouillees = TRUE
PROPERTIES TachesTerminees
CHECK_DEADLOCK FALSE
