SPECIFICATION Spec
CONSTANTS
  PremiereAnnee = 2020
  DerniereAnnee = 2032
  SemainesAffichees <- Extremes
INVARIANTS TypeOK SemaineConforme PlageDuJour PlageSure
PROPERTIES CleStable
CHECK_DEADLOCK FALSE
