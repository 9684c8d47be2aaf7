SPECIFICATION Spec
CONSTANTS
  Aucun = Aucun
  Societes = {dupont, durand}
  Pins = {p1, p2}
  DerniereSemaine = 2
  Creations = {c1, c2}
  Suppressions = {}
  Calendrier <- DeuxAnnees
  TaillePool = 2
  LecturesVerrouillees = FALSE
SYMMETRY Symetrie
INVARIANTS TypeOK ToutOuRien CleUnique UniciteDuPin SansFuite UneSeuleCreation
PROPERTIES AnneeRenouvelee RegistreTenu
CHECK_DEADLOCK FALSE
