SPECIFICATION Spec
CONSTANTS
  PremiereAnnee = 2022
  DerniereAnnee = 2023
  SemainesAffichees <- Extremes
INVARIANTS PlageExacte
CHECK_DEADLOCK FALSE
