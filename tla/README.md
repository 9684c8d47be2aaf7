# DashNov: TLA+ models and proofs

DashNov is a web console over the access-control system Amadeus5. This
directory holds TLA+ modules of its core logic and of the supervisor that keeps it
running, the TLC runs that check them and the TLAPS proofs of what they
guarantee. Names of modules, actions and variables are those of the source, in
French for DashNov, in English for NSSM. Line numbers without a file are those of
`src/Server/DashNov_Server.js`, or of the file the section names.

| File | What it is |
|---|---|
| `CodesPin.tla`, `MCCodesPin.tla` | the PIN codes of the companies: calls, tasks, transactions, pool, stops, clock; instances for TLC (calendars, symmetry) |
| `RegistrePin.tla`, `CodesPinRegistre.tla` | what the table of PINs promises its readers; the mapping by which `CodesPin` implements it |
| `CodesPin_proofs.tla` | types, transactions, the key, cards, distinct PINs, deleted companies, the length of a creation |
| `CodesPin_hebdo_proofs.tla` | the card of the week after a weekly run |
| `CodesPinRegistre_proofs.tla` | the refinement of `RegistrePin`; the renewed year, and creations that are repeated |
| `SemaineIso.tla`, `MCSemaineIso.tla`, `SemaineIso_proofs.tla` | week numbers and date ranges, day by day |
| `Comptes.tla` | users, profiles, tokens, the first administrator |
| `Detenteurs.tla` | cardholders and the queue that Amadeus5 imports later |
| `Serveur.tla`, `MCServeur.tla` | both in one process |
| `Serveur_proofs.tla`, `Serveur_fiches_proofs.tla` | the accounts; the cards and the types |
| `NssmService.tla`, `MCNssmService.tla`, `NssmService_proofs.tla` | NSSM keeping the server running |
| `LogFiles.tla` | what the log promises whatever fails |
| `NssmJournal.tla`, `MCNssmJournal.tla`, `NssmJournal_proofs.tla` | NSSM copying the server's output to its log; the mapping by which it implements `LogFiles`; proofs |
| `*.cfg` | one file a run, named after it |

Run one with `tlc -config hebdo.cfg MCCodesPin.tla` (`PROJECT.json` names each run's
module), prove with `tlapm CodesPin_proofs.tla`.

## 1. Inventory

One Node process (Express, port 8085) serves the page's scripts and runs two
cron tasks. All state is in SQL Server: tables of DashNov (`CodesPIN`,
`Utilisateurs`, `Profils`) and tables of Amadeus5 that DashNov reads
(`CRDHLD`, `LOGt`, `Controller`, `ACCGRP`, `Lift`). Commands to Amadeus5 are rows
of `QueueMSGAPI`, consumed later by a service that is not in the repository.
Handlers interleave at every `await`; all share a pool of ten connections. NSSM 2.24,
whose source is under `src/NSSM`, runs the process as a Windows service: it starts it,
restarts it when it dies, stops it with the service and keeps its log.

| Component | State | Operations | What is hard | What makes it correct |
|---|---|---|---|---|
| Company PIN codes (864-1106, 1160-1194, `Create_CodePins.sql`) | `CodesPIN`, cards `<societe>_PIN` through the queue | create (52 rows and a message in a transaction), delete (two statements), weekly task, yearly task, read today's PIN | interleaving of four writers, transactions and locks, pool, failures, stop of the process, lost acknowledgement, clock | all weeks or none; one PIN a key; a card carries the week's PIN; no leak; tasks do what they log |
| Weeks and date ranges (818-870, 1109-1157, `moment.js`) | none but the clock | week of today, range of a row | New Year, 53 weeks, two clock readings | ISO 8601; the range is the row's week |
| Accounts (80-488) | `Utilisateurs`, `Profils`, tokens in browsers | login, create, update, delete, first administrator | check then act, partial updates, tokens that outlive users, restart between two inserts | a user always has a profile; one Admin; a deleted profile has no user |
| Card holders and visitors (491-815, `CardHolder.js`, `Visitor.js`) | `CRDHLD` (Amadeus5), queue, form | create, update, delete, QR code, search | check against a table the queue fills later; timers that clear the form; reply fields | one holder a number; a save sends what is shown |
| Browser session (`Login.js`, `InitPage.js`) | `sessionStorage`, timers | login, logout, polling, inactivity | timers and answers in any order | inactivity logs out; no poll after logout |
| Lists and event stream (704-735, `filDeLeau.js`, list loaders) | tables of the page | overlapping fetches | late answers, clear before the fetch | what is shown is the last answer |
| Controllers (1196-1271, `Controller.js`) | queue | three commands, grouped for up to four | partial failure | the success told is a success |
| Reports (1293-1383, `Report.js`) | none | query and format | 31-day window | - |
| Supervision: NSSM's service (`service.cpp`, `process.cpp`) | one `nssm_service_t`, the state told to the service manager, handles | start, monitor, stop, restart with throttling, controls | threads over one structure without a lock; an application that dies at any point; handles closed behind a copy | a stop leaves nothing behind; deaths are restarted, not too fast |
| Server log: NSSM's pipe (`io.cpp`) | buffer, file, `rotate_online` | read, write, rotate | index arithmetic, moves and reopenings that fail, requests from other threads | nothing lost or repeated; rotation at line ends, near the limit, when asked |
| NSSM's settings (registry, command line, dialog) | registry | install, edit, set, dump | - | - |
| Third-party: Apache (binaries and headers), `node_modules`; page markup; `OLD/` | - | - | - | - |

`PROJECT.json` gives each component's status and lists the hazards at their
lines. There are no tests in the repository; what the code promises is in its
answers, its logs, its comments and, for NSSM, in its `README.txt`.

## 2. Plan

Done, in this order: `CodesPin` (the only part with transactions, tasks and a
clock) and its proofs; `SemaineIso`; `RegistrePin` and the refinement; `Comptes`,
`Detenteurs` and `Serveur`, which composes them; `NssmService`; `NssmJournal`; the proofs of
each. The models of the two processes meet at one point: `Arret` and `Redemarre` of
`CodesPin` and `Serveur` are the deaths and the restarts that `NssmService` details.

Left, in the order of their worth:

1. `Session` and `Listes`: the page's timers and overlapping fetches.
2. The walk of `kill_process_tree` over the application's children, with identifiers
   that Windows gives again (`check_parent`), and rotation by age (`rotate_file`).
3. `Controleurs` and the window of the report, once the page is modelled: by
   themselves they are one statement each.

Each safety property that a passing run checks is a theorem of `Spec`, for every value of
the constants; one of them, `SuppressionEffective`, under a hypothesis on the tasks, for
without it the run `suppression` violates it. Left to prove:

1. The part of `TachesTerminees` that needs no fairness, as `CreationBorneeCorrecte` and
   `StopBoundedCorrect` do it for a creation and for a STOP: a bound on the steps of a task
   that no other actor moves back.
2. What the queue of the cardholders promises, as an abstract specification of its own.

## 3. CodesPin

### Correspondence

| Model | Code |
|---|---|
| `codesPin` | committed rows of `CodesPIN` |
| `carte[s]` | the PIN that the messages enqueued for card `<s>_PIN` leave on it once consumed in order; `Aucun` when it is absent or removed (Type 3) |
| `instant`, `Calendrier` | the server's clock: midnights and the hours of tasks; year from `getFullYear()`, week from `isoWeek()` |
| `serveur` | the Node process |
| `etat[a]`, `societe[a]`, `debut[a]`, `semaine[a]`, `pin[a]` | a call: where its handler is, `nomSociete`, when it read the date, the loop's local variables |
| `ecrits[a]`, `connexions` | rows of the open transaction; connections held by transactions |
| `hebdo*`, `annuel*` | the two cron callbacks and their local variables |
| `attribues`, `reecrites`, `perturbees`, `chevauche`, `aJour` | history, read by properties only |

One action is the code from an await to the next, with the effect of the
statement waited for.

| Actions | Lines |
|---|---|
| `RecoitCreation` `Begin` `LiftValide` `LiftInvalide` `Tirage` `Insertion` `InsertionRefusee` `Message` `SansPinActuel` `Commit` `Accuse` `AccusePerdu` `EchecCreation` | 872-963 |
| `RecoitSuppression` `Supprime` `MessageSuppression` `AccuseSuppression` `EchecSuppression` | 1160-1194 |
| `HebdoLit` `HebdoEnvoie` `HebdoTermine` `EchecHebdo` | 965-1008 |
| `AnnuelPurge` `AnnuelListe` `AnnuelSociete` `AnnuelTirage` `AnnuelMerge` `AnnuelMessage` `AnnuelTermine` `EchecAnnuel` | 1010-1078 |
| `Arret` `Redemarre` `AvanceInstant` | the process under NSSM, the clock, node-cron |

Every statement may fail (`Echec*`); the process may stop between any two steps
(open transactions are rolled back by SQL Server, calls get no answer, tasks are
forgotten); a commit, or the message of a deletion, may succeed and its acknowledgement
be lost.

What is abstracted, and what is assumed of parts outside the repository:

- Company and PIN values are model values. `do ... while (collision)` is one
  draw among the PINs that the SELECT does not find; when there is none the draw
  is disabled, as the loop is endless.
- `Connection pool`: a transaction keeps its connection from `begin` on; a
  statement outside a transaction needs a free one for its duration. Waiting ends
  by a timeout of the pool (acquire) or of the request (90 s), or by SQL Server
  choosing a deadlock victim: the `FinAttente*` actions.
- `Locks`: READ COMMITTED. With `LecturesVerrouillees` a SELECT that scans the table
  waits for uncommitted rows of others; without it (row versions) it does not see
  them. Writes always wait for uncommitted rows of the same key, whole-company
  deletes for those of the company, the purge for all.
- `Queue`: FIFO. A message is visible when its transaction commits, and its effect
  is taken when it is visible. Delay in the consumer is in `Detenteurs`.
- The clock: a call or a task crosses one change of instant at most. The
  closest changes are an hour apart (January 1st, 00:00 and 01:00), a call's
  statements are bounded by 90 s each and in practice take milliseconds.
- `Lift` is an answer, yes or no. A missing field (400 before any statement)
  changes nothing and has no action. `/obtenirCodePin` and `/societes/noms` read
  only: the first is in `BadgeDeLaSemaine` as "the PIN of today".
- `societe` is drawn at the start: each slot of call is used once, for any company.

### The register

`RegistrePin` is the table as its readers (`/obtenirCodePin`, `/societes`, the weekly
task) may rely on it: a company's year appears at once with a PIN for each week,
a company or a year disappears at once, and only a company that the yearly task
has taken up changes row by row. `CodesPinRegistre` maps its rows to `codesPin`, its
history to `reecrites`: every step of `CodesPin` is then one of the register or a
stutter. `RegistreTenu` is that; it fails when a creation does without its
transaction or a deletion leaves out one week.

### Runs and bounds

`DerniereSemaine` is 2 instead of 52: first, last and "next" weeks exist, the loop
repeats, and a week 3 plays the 53rd. Two companies and two PINs give both
collisions and their absence. `hebdo` has one company, created, deleted and
created again around the Monday task; that a run which stops between two companies
does not count as done is proved for any number of companies. Two creations are
what it takes for them to wait for each other, to write one key, or to retry; a
deletion beside them meets each of their steps. A pool of one makes everybody
queue for it, a pool of two lets transactions overlap. `Calendrier` lists the instants a
run goes through. Companies and PINs are symmetric in the runs without a liveness
property. Deadlock checking is off because a behaviour may end: every slot of call
is used and the calendar is over.

| Run | Instance | Shows | Distinct states |
|---|---|---|---|
| `appels` | 2 creations, 1 deletion, one day, locks, pool of 2, fairness | `SuppressionEffective`, `AppelsTermines`, `RegistreTenu` | 500,480 |
| `nouvel_an` | 2 creations, row versions, two yearly tasks, stops that may miss one, a week beyond the last, pool of 2 | `TypeOK`, `ToutOuRien`, `CleUnique`, `UniciteDuPin`, `SansFuite`, `UneSeuleCreation`, `AnneeRenouvelee`, `RegistreTenu` | 1,659,932 |
| `hebdo` | 2 creations, 1 deletion, 1 company, the week before a Monday, the Monday, the week after, locks, pool of 1 | `BadgeDeLaSemaine`, `BadgeAttribue` | 2,065,979 |
| `taches` | 1 creation, both tasks, fairness | `TachesTerminees` | 35,300 |
| `renouvellement` | 1 creation, Jan 1st | `RenouvellementAnnuel` violated | - |
| `suppression` | 1 creation, 1 deletion, a Monday | `SuppressionEffective` violated | - |

Two statements of the code do not hold:

- `renouvellement`: on January 1st the purge removes last year's rows, then the
  companies to renew are read from what is left (1017-1023). A company created last
  year is not renewed; the log announces the update as done (1074). It is renewed
  only if it has rows of another year: those of the new year when it was created
  between midnight and one o'clock, or those of an older year whose purge was
  missed. `AnneeRenouvelee` (which holds) says that a company the task does take
  up has its whole year when the task leaves it; the calendar of `nouvel_an` has
  two yearly tasks so that both cases happen. Its first January 1st is in a week beyond
  the last, in which a creation finds no PIN for today (923-926).
- `suppression`: the weekly task sends a row it read before the deletion, after
  the deletion has been answered "supprimée avec succès" (1189). Without tasks
  (`appels`) the same property holds, concurrent creations included.

A third thing to know is not counted as a fault: when the acknowledgement of a
commit is lost, the answer says "L'opération a été annulée" (961) and the company is
there. A retry then fails on the UNIQUE key: `UneSeuleCreation` holds.

Fairness (`Equite`): weak fairness of each call's next step and of each task's. The
event loop runs what is ready, and every wait for a lock or a connection ends by a
timeout. Nothing is assumed of clients, of failures, of the process's stop or
restart, or of the clock. Weak fairness of a call's step is on the disjunction
of its step and the end of its wait, so it does not assume that a lock is ever
obtained.

### Proofs

All are for arbitrary `Societes`, `Pins`, `DerniereSemaine`, `Creations`, `Suppressions`,
`Calendrier`, `TaillePool` and both isolation modes, under `ConstantesAssumption` (PINs are not
`Aucun`, slots of the two kinds are distinct, finitely many creations) and
`CalendrierAssumption` (years do not go back; a task's hour is on the day of the
instant before it).

| Theorem | Inductive invariant | Why `Inv` alone is not inductive |
|---|---|---|
| `TypeCorrect` | `TypeInv`: `TypeOK` and `PinsTires` | a row's PIN must have been drawn when it is inserted |
| `SansFuiteCorrect` | `Transactions`: for each creation, its state decides if it holds a connection and which rows are open (those of the weeks before `semaine`, of its company and year) | an answer follows a rollback only because of where the call is |
| `ToutOuRienCorrect` | with `Transactions` and `Reecriture` (the yearly task records a company before touching it) | a commit adds a whole year because the loop is over |
| `CleUniqueCorrect` | with `Transactions` | an open row has a week below the loop's, so the next insert cannot repeat it |
| `BadgeAttribueCorrect` | `Provenance`: what the table, the weekly recordset and the yearly task hold was committed | a task sends rows that may have been deleted since |
| `UniciteDuPinCorrect` | `Seul`: while no writers have overlapped, one of them at most is active, and the PIN it is about to write is free | SELECT and INSERT are separate steps |
| `BadgeDeLaSemaineCorrect` | `HebdoInv`: `Horaires` (calls at work while a run is current carry a date of this week), `ResteActuel` (what the task has left to send is still in the table), `Badges` (each card is right, or still to be sent) | a run in progress, creations that overlap it, a midnight during it |
| `RegistreTenuCorrect` | with `Transactions`, `Reecriture`, `CleUnique` and `Neuves` (an open transaction's company has no committed row of its year) | a commit is an appearance only if there was nothing of the company's year before it |
| `AnneeRenouveleeCorrect` | `Horloge` (a call or a yearly task in progress is dated now or at the instant before), `Dessinees`: the weeks that the loop has passed are in the table, if no deletion of the company runs beside the task (`Epargnee`) | the other actors run between two weeks; a deletion received two instants before the task is over |
| `UneSeuleCreationCorrect` | `Horloge`, `Acquises` (unless a deletion of its company has run, the rows a creation has committed are in the table, or its year is past and no creation in progress writes it), `UneSeule`, with `Transactions` and `Neuves` | once a year is purged its key is free again: what is left to show is that nobody writes that year any more |
| `SuppressionEffectiveCorrect`, under `[]TachesAPart` | `EnvoiFidele` (what the weekly task has left to send is in the table), `CartesRendues` (a company without rows has no card, unless a deletion of it was cut between its two statements), `Transactions` | the message of a creation and the deletion of its rows reach the card in the order of their commits; a message of the weekly task fills a card only beside a row |
| `CreationBorneeCorrecte` | `TypeInv`; `Rang`, the steps that a creation has left at most | a creation takes at most `2 * DerniereSemaine + 6` steps, and nothing beside it sends it back: what `AppelsTermines` says of it but for the scheduling |

`TachesAPart` says that the yearly task does not run, and that no deletion is received or in
progress while the weekly one sends. The hypothesis holds on every day without a
task, and on a Monday on which nobody deletes; the counterexample of `suppression` is what
it excludes. The exceptions of the other two are in the properties: a deletion of the same
company beside the task, or before the second creation. `nouvel_an` has no deletion,
and the theorems cover those that it leaves out.

`BadgeDeLaSemaineCorrect` is the deepest: a creation that commits during the weekly run is
not in the recordset, but its message carries the week's PIN; one that began on
Sunday and commits on Monday cannot overlap the run, for it would cross two
instants; the yearly purge removes only last year's rows, never those in
force. Each proof has a lemma for Init, one for the steps of each actor, and the
temporal step. `CreationsIntactes`, `AutreCreation`, `TableIntacte` and `CreationCadre`
say once what the other actors leave alone.

Only model-checked: liveness under fairness (`AppelsTermines`, `TachesTerminees`), which is
beyond the prover.

## 4. SemaineIso

The row in force is the one of key (`moment().isoWeek()`, `getFullYear()`). The
module has the functions of moment 2.30.1 that it goes through, with `dow` 1 and
`doy` 4 in place, on dates that are a year and a day of the year; a displayed
date is its day number. The state is the clock, one day a step, and one request of
`/societes` or `/telechargerTableau`, in two clock readings (837 and 838, 1127 and 1128).
Hours, and so daylight saving, play no part: only days are displayed. The
locale is the default one: the ISO functions do not depend on it.

| Run | Instance | Shows | Distinct states |
|---|---|---|---|
| `calendrier` | every day of 2020-2032; rows of weeks 1, 2, 26, 51, 52 and of today, this year and last | `SemaineConforme`, `PlageDuJour`, `PlageSure`, `CleStable`, `TypeOK` | 211,871 |
| `plage` | 2022-2023 | `PlageExacte` violated | - |

2020-2032 has January 1st on each weekday, leap years among them, and three years of
53 weeks. `SemaineConforme` compares moment's algorithm with ISO 8601 stated by
Thursdays. `CleStable` says that a PIN never expires between two runs of the
tasks. `PlageSure` says when the range of a row is right: if and only if today's month
and day, in the row's year, belong to the ISO year of the same number.

- `plage`: on January 1st 2022, the row of week 52 of 2022 is shown with dates of
  December 2021, for January 1st is still in week 52 of 2021.
  The two clock readings add a case that needs a midnight between them: between
  January 2nd and 3rd 2022, a Monday and a Sunday that are a year apart.

The key mixes the ISO week with the calendar year, so (1, Y) is in force both at
the beginning of January and in the last days of December of most years, and on
January 1st of some years the key is (52, Y) or (53, Y): rows of the first kind
are used twice, those of week 53 do not exist. The calendars of `MCCodesPin` contain both
cases: `FinAnnee` ends in a second week 1, `DeuxAnnees` has a week beyond the last.

### Proofs

For every span of years and every set of weeks under `AnneesAssumption` (years from 2
on, weeks of 1 to 52), by arithmetic on day numbers:

| Lemma | What it says |
|---|---|
| `AnneeSuivante` | a year begins when the days of the one before are over: `isLeapYear` agrees with the calendar |
| `LundiUnique` | a day has one Monday |
| `Decalage` | `firstWeekOffset(y)` leads from January 1st to the Monday of January 4th |
| `SemainesEntieres` | from one such Monday to the next there are 52 or 53 whole weeks, and `weeksInYear` is their number |
| `SemaineDuJour` | `isoWeek` counts from the Monday of the year before, of the year or of the year after |
| `JeudiDansLAnnee`, `AnneeUnique` | a week that it counts from year z has its Thursday in z, and in no other year |
| `PlageAffichee` | the range of a row is the week of its number, of the ISO year of today's date carried into the row's year |

`SemaineConformeCorrect` and `CleStableCorrect` follow from those: two days of one week have one
Thursday. The states add `Lecture`: as long as the day is that of the first reading, `lundi`
and `dimanche` are what today gives for the row; from it and `PlageAffichee`,
`TypeCorrect`, `PlageDuJourCorrect` and `PlageSureCorrect`; the converse in the last is
`SemainesDistinctes`: weeks of one number in two ISO years are two weeks.

## 5. Comptes, Detenteurs and Serveur

### Correspondence

| Model | Code |
|---|---|
| `utilisateurs`, `profils`, `identites` | the two tables and their IDENTITY columns |
| `jetons` | the tokens signed and not expired, wherever they are kept |
| `serveur`, `demarrages`, `amorce`, `amorceProfil` | the process, and `verifierEtCreerAdmin()` of its current start |
| `appels[a]` | a call of the accounts: its request, the await it is at or its answer, the row it has read |
| `crdhld`, `file` | the cards, and the messages of `QueueMSGAPI` that Amadeus5 has not imported |
| `demandes[a]` | a call of the cardholders |
| `vus`, `touche`, `supprime`, `ecrasees`, `melees`, `avant` | history, read by properties only |

| Actions | Lines |
|---|---|
| `AmorceCompte` `AmorceProfil` `AmorceUtilisateur` | `verifierEtCreerAdmin` 113-145 |
| `Recoit` `Lit` `Compare` | `authenticateToken` 82-99, `/login` 147-200 |
| `Lit` `Compare` `Ecrit` | `/changePassword` 204-231 |
| `CreeUtilisateur` `MajMdp` `MajProfil` `SupprimeUtilisateur` | 234-250, 285-310, 438-452 |
| `CreeProfil` `CompteProfil` `RetireProfil` | 407-435, 454-475 |
| `RecoitFiche` `Verifie` `LitFiche` `File` `AccuseFiche` | 542-700 |
| `Importe` | Amadeus5, external |
| `Echec` `EchecFiche` `AmorceEchec` `Arret` `Redemarre` `Expire` | failures of statements, the process, the end of a token |

`map` in `PROJECT.json` has the lines of each. A statement that succeeds may lose its
acknowledgement, or the process may stop before it comes (`Accuse`, `AmorceUtilisateur`,
`EchecFiche` after `File`): the answer is 500, or there is none, and the change is there.

What is abstracted:

- The hash of a password is the password; bcrypt's time is the await before
  `Compare`. A profile is its ID: name, tabs and minutes are told apart by no
  property, so `PUT /profiles` has no action.
- A token may expire at any time, which includes its hour. The key that signs it
  is in the source, so it outlives the process.
- The number of a failed INSERT is not used up: gaps in IDENTITY are not told apart.
- An SQL statement is atomic and sees committed rows. A foreign key is checked
  with the write that it guards.
- A card is its content. What Amadeus5 does of a card of Type 3 (does its row stay
  in `CRDHLD`?) is not in the repository: `Init` chooses.
- The visitors' route builds its number from a hash of names and time, and meets
  no other call; it has no action.

### Run and bounds

| Run | Instance | Shows | Distinct states |
|---|---|---|---|
| `serveur` | 3 calls of any route, of both kinds, over 2 starts; 2 names, 2 passwords; 1 card, 2 contents | `TypeOK`, `AucunOrphelin`, `AdminAmorce`, `JetonPropre`, `AncienMotDePasse`, `CreationBloquee`, `FicheVoulue`, `JetonMerite` | 1,238,896 |

Each property relates two calls, or a call and a start: a check and the change
that comes between it and the act. The third call is the login without which no
other is let in. Two starts are what it takes for one to be cut short and the next
to find what it left. One card is enough, for no route touches two. No property is
one of liveness, so no fairness is assumed; a call may stay where it is.

What holds has exceptions that the properties name. `JetonMerite` allows a
password that was changed while the call was in progress; `AncienMotDePasse` allows a
user that another call wrote between the SELECT and the UPDATE; `CreationBloquee` leaves
out numbers on which a call began while another had yet to queue its message, or while
a message waited to be imported: the check reads a table that the queue fills later, so
two creations close in time both succeed, and the second replaces the card. `AdminAmorce` leaves out the deletion of users, for nobody
forbids the last administrator to be deleted.

`FicheVoulue` has no exception: overlapping calls, those that overlap a stop and those
whose acknowledgement was lost are what it is about. Once nothing waits, a card is what
some call asked for that succeeded or may have, and never what a call wanted that was
over before a later one succeeded: `avant` holds, of each call, those that were over
when it was received. It breaks when the INSERT is not waited for, or when messages are
imported out of order.

### Proofs

For any names, passwords, numbers, contents, calls and starts, under
`ComptesAssumption` and `ServeurAssumption`.

| Theorem | Inductive invariant |
|---|---|
| `TypeCorrect` | `TypeInv` and `TypeFiches`: `TypeOK` with the types of requests and messages |
| `AucunOrphelinCorrect` | itself, with types: the foreign key at each write |
| `JetonPropreCorrect` | `LuPropre`: the row a login has read agrees in name with the user of its number; `Fideles`, of each step: a user keeps name and number, and a new one has a number above all given |
| `JetonMeriteCorrect` | `LuVu`: the row a call has read is among the users since it came |
| `AncienMotDePasseCorrect` | `Suivi`: an untouched user still has the password of the row read, then of the request |
| `AdminAmorceCorrect` | itself, with types: without a deletion users do not disappear |
| `CreationBloqueeCorrect` | `Ordre`: on a number outside `melees` one message at most waits, one call at most has yet to queue its own and then none waits, and what the call has checked still holds |
| `FicheVoulueCorrect` | `Auteurs`: the last message of a number, or its card when none waits, is of a call that has queued it, and that no call which succeeds came after (`DernierAppel`); what was over when a call came is over for good (`Passe`) |

## 6. NSSM: the service

`NssmService` is `service.cpp` and `process.cpp` with one `nssm_service_t` that threads share
without a lock: the launcher (`service_main`, then the callback `end_service` of a
wait that ended, both of which run `monitor_service`), a thread for each STOP
(`shutdown_service`), and the control handler. One action is the code between two
accesses to what they share; `pc` says where each thread is.

| Model | Code |
|---|---|
| `reported`, `nssm` | what the service manager was told; the dispatcher |
| `status` | `service->status.dwCurrentState`, which is written by one thread and reported by another |
| `process_handle`, `pid`, `stopping`, `allow_restart`, `throttle`, `wait_handle` | the fields of the same name |
| `app` | the application |
| `seen`, `arg`, `stale` | locals: the copy of `throttle` between its read and write, the arguments of `stop_service`, the threads whose copy of the handle is closed |
| `cfg` | settings of the service, and the call of the system that may fail |

What is abstracted: the methods of one stop (console, window, threads) are one wait
that may be skipped; `kill_process_tree` ends the root in one action, its children are not
modelled; a closed handle is refused or is the next instance's; the application may
die at any time. The exit codes are 0 and another one. The failures are those of
`get_parameters`, `CreateProcess`, `RegisterWaitForSingleObject` and `CreateThread`, one a run of
the program.

Fairness: weak, of each thread. The system schedules threads, runs a callback
whose wait is over and ends a wait that has a timeout. The application need not
die, a control need not come, a call need not fail.

| Run | Instance | Shows | Distinct states |
|---|---|---|---|
| `nssm` | 13 configurations: each exit action, failure and setting that matters; a STOP, with a CONTINUE or not; two STOPs; `MaxThrottle` 1 | `TypeOK`, `CleanStop`, `KeepsTrying`, `Supervised`, `Throttled`, `Restarted`, `StopEnds` | 428,618 |

`MaxThrottle` of 1 has the three cases: zero, the limit, above it. `throttle_restart` reads
`throttle`, writes it, reads it again and may write it once more (1852, 1861), in four
actions: a CONTINUE, which clears it, can fall between any two of them, and is undone
when it falls before a write. A second STOP is what
it takes for two threads to run `stop_service` at once; a third adds no case.

`CleanStop` and `StopEnds` are about a STOP that finds the application running and
meets nothing else. A second STOP, or a restart in progress, may read the
structure in the middle of a change: then nothing is claimed, and
indeed the application can be left running. The same goes for
`CreateProcess` and `get_parameters` when they fail on a restart: `stop_service` reports
STOPPED and NSSM leaves (1631), where `README.txt:117` says that it keeps trying;
`KeepsTrying` leaves those two failures out and says so.

`Supervised` relates the launcher to the application it has lost sight of: between a death and
the next launch a handle is closed, `wait_handle` is dropped and the application may die
again during the start. It launches only when nothing runs, and what it has
launched is waited for when it goes idle, dead already or not. A STOP may take the wait
away, and `RegisterWaitForSingleObject` may fail: then the code logs it and goes on without a wait (1446).

Proved for any number of STOPs, `MaxThrottle` and set of configurations:

| Theorem | Inductive invariant |
|---|---|
| `TypeCorrect` | `TypeOK` with `Limited`: `throttle` is above its limit between the increment and the clamp only, so that no launch finds it there |
| `ThrottledCorrect` | `PauseOwed`: when a pause is owed `throttle`, and the launcher's copy of it, are above 0 |
| `KeepsTryingCorrect` | `Trying`: as long as no STOP comes the launcher is not in `stop_service`, and nobody has reported STOPPED |
| `CleanStopCorrect` | `CleanInv`: before the STOP nobody has reported STOPPED but a launcher on its way out (`BeforeStop`), during it the launcher stays idle with its wait cancelled and one thread works (`DuringStop`), copies of a closed handle are only where they are used (`StaleInUse`) |
| `SupervisedCorrect` | `NoneAlive`: from the callback to the next launch nothing runs; `Watched`: as long as no STOP comes, what each step of the launcher finds in `process_handle`, `pid`, `stopping`, `allow_restart` and `wait_handle` |
| `StopBoundedCorrect` | `TypeOK`; `Left`, the steps that the thread of a STOP has left, 12 at most, which no other thread adds to: what `StopEnds` says of it but for the scheduling |

Only model-checked: `Restarted` and `StopEnds`, which are liveness.

## 7. NSSM: the log

`NssmJournal` is the thread `log_and_rotate` of `io.cpp`. A byte of the output is its position,
so that what the files hold can be compared with what was written; `text` says which
bytes are newlines. `buffer`, `address`, `in`, `i`, `size`, `out` are the locals; `kept` are the
bytes in the files, `ends` where each rotated file ends. Reads take any part of what the pipe
holds, up to the buffer; a write succeeds, or writes nothing and fails, or fails for good
(`ERROR_BROKEN_PIPE`) and ends the thread (`WriteBreaks`); moves and reopenings may fail; the
process may leave at any point.

What is abstracted, or follows the code where it surprises:

- `CreateFile` returns `INVALID_HANDLE_VALUE`, which the code tests as zero: a reopening
  that fails goes on with a handle on which each write fails.
- `out` is not initialised: before the first write it is any value of `Unset`. When
  the current size is 0, `size += out` counts it.
- A write that fails has written nothing: what a full disk leaves of one is not modelled.
- Newlines are one byte (`charsize` 1), as in the UTF-8 that Node writes. Were its output
  taken for UTF-16 (`guess_charsize`, 53), `i += 2` at the last byte of a read would pass
  `in`, and `in -= i` wrap around: this is among the hazards in `PROJECT.json`, without a
  property. `GetFileInformationByHandle` does not fail.

| Run | Instance | Shows | Distinct states |
|---|---|---|---|
| `journal` | 5 bytes, a buffer of 4, limit 4 or none, `Unset` 0 or 4, fairness of the thread | `TypeOK`, `WithinBuffer`, `NothingLost`, `Bounded`, `RotationServed`, `LogKept` | 2,895,757 |
| `journal_lignes` | the same | `WholeLines` violated | - |

Five bytes through a buffer of four: a full read and another one, up to four newlines
in one read, a limit that is reached in the middle of a read, at its end, or
by the next.

- `journal_lignes`: after a rotation `address` and `in` move past the newline, but the loop
  goes on with the next index from the start of the buffer (482, 530). With a
  second newline in the same read, the bytes written before the second rotation are
  counted from the wrong place: the rotated file ends within a line. Nothing is lost or
  repeated (`NothingLost`) and no write leaves the buffer (`WithinBuffer`).

Fairness: weak, of the thread's steps; a read that never returns is one for which
nothing was written. `RotationServed` asks only for the case where a newline is still
to be read.

`LogFiles` is what is left when writes and reopenings do fail, where `NothingLost` says
nothing: the files only grow, by the bytes that come next in the output; a rotated file
never changes; a byte is given up by a failure or by the end of the process, and does not come
back. `LogKept` maps its `done` to `Done`, the position up to which what was read has been written
or given up: a line counts between its write and the rotation that it ends (`rotate`), and when the process
or the thread ends all that was read and not written is given up. A read is a `Read`, `Cut` and `Rest` are
a `Write` or a `Fail`, a rotation is a `Rotate`, a move that fails before a reopening that
succeeds is a stutter, as are the scan, a `Rest` with nothing left, the application and the controls.

Proved for any `Bytes`, `BufSize`, `Limits` and `Unset`:

| Theorem | Inductive invariant |
|---|---|
| `TypeCorrect`, `WithinBufferCorrect` | `TypeInv`: `TypeOK`, `Positions` (base, address and remaining bytes add up to what was read) and `Files` (the current file begins at the last end, and `size` is at least its length) |
| `NothingLostCorrect` | `Kept`: the files hold what has been read, less what remains in the buffer |
| `BoundedCorrect` | `Lines`: a read that would pass the limit has been cut, or has no line end left |
| `LogKeptCorrect` | `Present`: when the file is not there, because its move succeeded and its reopening did not, nothing has been written since. A move that fails on a file that is there makes the next reopening append; on one that is not, the next may truncate, and has nothing to truncate |
| `InOrderCorrect` | `Behind`: what is in the files is below `Done`; from `LogKept`, step by step |

`RotationServed` is only model-checked.

## 8. Not modelled

- The page: its session, timers, forms, lists and polling (planned above, with the
  hazards they have in `PROJECT.json`), its markup and styles.
- Controllers and reports: one statement, or reads that are then laid out.
  `logUserConnection`, console output and the layout of PDF or Excel files.
- `PUT /profiles`, and the visitors' route: see section 5.
- NSSM: children of the application, affinity, environment, console; UTF-16 output
  and its byte order mark, rotation when a file is opened, redirections without a
  pipe; the registry, command line and dialog that install and edit a service, which
  are sequential and keep no state while the service runs.
- Amadeus5, SQL Server, Apache: not part of this code, or binaries. The models say
  what they take from the first two.

How much of the repository this is depends on what is counted. DashNov's own
server is 1,400 lines of JavaScript, of which the handlers with state are modelled.
The C and C++ of the repository are 55,000 lines: 47,000 of them are the headers of
Apache's distribution, declarations of a server that is a binary here and takes no
part in what DashNov does; of NSSM's 7,500, the threads that run while the service runs
are modelled and the rest is configuration, events and dialogs. No
reading of those headers would add a state or a step to this system, so their share
stays at zero.
