SPECIFICATION FairSpec
CONSTANTS
  Aucun = Aucun
  Societes = {dupont, durand}
  Pins = {p1, p2}
  DerniereSemaine = 2
  Creations = {c1, c2}
  Suppressions = {d1}
  Calendrier <- UnJour
  TaillePool = 2
  LecturesVerrouillees = TRUE
INVARIANTS SuppressionEffective
PROPERTIES AppelsTermines RegistreTenu
CHECK_DEADLOCK FALSE
