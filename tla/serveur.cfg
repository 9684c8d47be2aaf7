SPECIFICATION Spec
CONSTANTS
  Noms = {admin, alice}
  Mdp = {m0, m1}
  NomAdmin = admin
  MdpAdmin = m0
  Aucun = Aucun
  Appels = {a1, a2, a3}
  MaxDemarrages = 2
  Numeros = {n1}
  Fiches = {f1, f2}
  AppelsFiches = {d1, d2}
  MaxAppels = 3
SYMMETRY Symetrie
INVARIANTS TypeOK AucunOrphelin AdminAmorce JetonPropre AncienMotDePasse CreationBloquee FicheVoulue
PROPERTIES JetonMerite
CHECK_DEADLOCK FALSE
