-------------------------------- MODULE Veille --------------------------------
(***************************************************************************)
(* The sleep of a half and its matrix: the vetoes and the sequence of the  *)
(* sleep task, the scan driver it destroys and recreates with its          *)
(* debounce, its power save and its callback, the capture of the key that  *)
(* wakes, and the reconciliation with what the recreated driver says.      *)
(*                                                                         *)
(* A matrix is the set of keys down.  The radio, which the hooks cut and   *)
(* restore, is RadioOwner's: here "annonce" is the last half-matrix given  *)
(* to it, which the listener holds as long as the half reaffirms it.       *)
(***************************************************************************)
EXTENDS Integers

CONSTANTS
    Touches,   \* the keys of this half
    Ticks,     \* BOARD_DEBOUNCE_TICKS
    Eager      \* CONFIG_KASE_DEBOUNCE_EAGER_PRESS

ASSUME TicksAssumption == Ticks \in Nat \ {0} /\ Eager \in BOOLEAN

VARIABLES
    touches,    \* the keys that are down
    \* the scan driver
    pilote,     \* "absent", "sourd" (created, no callback yet) or "pret"
    db,         \* kbd_db_key_t of each key
    minuteur,   \* its timer runs: it is not in power save
    tours,      \* scans since it was created, up to the grace of the wake
    \* matrix_scan
    prev,       \* prev_matrix_state
    annonce,    \* the half-matrix last published
    veto,       \* VEILLE_VETO_TOUCHE
    actif,      \* the last activity is younger than the threshold
    cbVu,       \* s_cb_since_setup
    capturees,  \* s_wake_state
    wakeHad,    \* s_wake_had_keys
    \* the sleep task
    phase,      \* where it stands
    grace,      \* less than VEILLE_GRACE_REVEIL_MS since the wake
    autres,     \* a veto of another module: USB, link, sync, pairing, test...
    \* what the properties set apart
    tenues,     \* captured at the last wake and down ever since
    arrache,    \* no callback since a driver was deleted that reported a key
    croise      \* no callback since one ran inside the reconciliation

scan == <<pilote, db, minuteur, tours>>
etat == <<prev, annonce, veto, actif, cbVu>>
reveil == <<capturees, wakeHad>>
ecarts == <<arrache, croise>>
histo == <<tenues, ecarts>>
vars == <<touches, scan, etat, reveil, phase, grace, autres, histo>>

Phases == {"eveil", "lus", "arme", "dort", "profond", "sorti", "relit",
           "capture", "cree", "attend", "annule"}

\* wake_grace_ms: the debounce and two scans.  (Mistaken: a bare tick, which
\* may be over at once.)
UnTick == 0
Grace == Ticks + 2

Repos == [k \in Touches |-> [level |-> FALSE, cnt |-> 0, lock |-> FALSE]]
Niveaux(d) == {k \in Touches : d[k].level}

TypeOK ==
    /\ touches \in SUBSET Touches
    /\ pilote \in {"absent", "sourd", "pret"}
    /\ db \in [Touches -> [level : BOOLEAN, cnt : 0 .. Ticks - 1,
                           lock : BOOLEAN]]
    /\ minuteur \in BOOLEAN /\ tours \in 0 .. Grace
    /\ prev \in SUBSET Touches /\ annonce \in SUBSET Touches
    /\ capturees \in SUBSET Touches /\ tenues \in SUBSET Touches
    /\ {veto, actif, cbVu, wakeHad, grace, autres, arrache, croise}
          \subseteq BOOLEAN
    /\ phase \in Phases

Init ==
    /\ touches \in SUBSET Touches
    /\ pilote = "pret" /\ db = Repos /\ minuteur = TRUE /\ tours = 0
    /\ prev = {} /\ annonce = {} /\ veto = FALSE /\ actif = TRUE
    /\ cbVu = FALSE /\ capturees = {} /\ wakeHad = FALSE
    /\ phase = "eveil" /\ grace = FALSE /\ autres \in BOOLEAN
    /\ tenues = {} /\ arrache = FALSE /\ croise = FALSE

-----------------------------------------------------------------------------
(***************************************************************************)
(* The driver: one scan of kbd_task.                                       *)
(***************************************************************************)
\* kbd_db_step.  Symmetric: a change after Ticks scans that disagree.  Eager:
\* a press at once, then Ticks scans deaf to the contact; a release as before.
Compter(k, bas) ==
    IF bas = k.level THEN [k EXCEPT !.cnt = 0]
    ELSE IF (Eager /\ bas) \/ k.cnt + 1 >= Ticks
         THEN [level |-> bas, cnt |-> 0, lock |-> Eager /\ bas]
    ELSE [k EXCEPT !.cnt = @ + 1]

kbd_db_step(k, bas) ==
    IF k.lock /\ k.cnt + 1 < Ticks THEN [k EXCEPT !.cnt = @ + 1]
    ELSE IF k.lock
         THEN Compter([level |-> k.level, cnt |-> 0, lock |-> FALSE], bas)
    ELSE Compter(k, bas)

\* keyboard_btn_cb: the veto follows the keys held, whatever comes after; a
\* change is published.  (Mistaken: the veto is posted, never lifted.)
VetoPose(m) == veto \/ m # {}
VetoSuit(m) == m # {}

keyboard_btn_cb(m) ==
    /\ cbVu' = TRUE
    /\ veto' = VetoSuit(m)
    /\ annonce' = IF m # prev THEN m ELSE annonce
    /\ prev' = m
    /\ actif' = TRUE
    /\ arrache' = FALSE
    /\ croise' = (phase = "annule")

\* Without a listener nothing is scanned.  (Mistaken: the scan runs, and its
\* event goes to nobody.)
AuditeurIndifferent == TRUE
Auditeur == pilote = "pret"

\* At rest the timer stops, and the rows' interrupt is armed instead.
Scan ==
    LET d == [k \in Touches |-> kbd_db_step(db[k], k \in touches)]
    IN  /\ pilote # "absent" /\ minuteur /\ Auditeur
        /\ db' = d
        /\ tours' = IF tours < Grace THEN tours + 1 ELSE tours
        /\ minuteur' = ~(Niveaux(d) = {} /\ touches = Niveaux(db))
        /\ IF Niveaux(d) # Niveaux(db) /\ pilote = "pret"
              THEN keyboard_btn_cb(Niveaux(d))
              ELSE UNCHANGED <<etat, ecarts>>
        /\ UNCHANGED <<touches, pilote, reveil, phase, grace, autres, tenues>>

\* kbd_power_save_isr_handler: a row rises.
PowerSaveIsr ==
    /\ pilote = "pret" /\ ~minuteur /\ touches # {}
    /\ minuteur' = TRUE
    /\ UNCHANGED <<touches, pilote, db, tours, etat, reveil, phase, grace,
                   autres, histo>>

-----------------------------------------------------------------------------
(***************************************************************************)
(* The sleep task falls asleep.                                            *)
(***************************************************************************)
\* veille_task: the vetoes are read once, then veille_pas decides.
VeillePas ==
    /\ phase = "eveil" /\ ~grace /\ ~actif /\ ~veto /\ ~autres
    /\ phase' = "lus"
    /\ UNCHANGED <<touches, scan, etat, reveil, grace, autres, histo>>

\* After the hooks, the driver is deleted and the wake armed (rtc_matrix_deinit
\* and matrix_arm_key_wake, or their equivalents of the deep sleep: the level
\* of a right half whose USB was mounted).
RtcMatrixDeinit ==
    /\ phase = "lus"
    /\ phase' \in {"arme", "profond"}
    /\ pilote' = "absent" /\ minuteur' = FALSE /\ db' = Repos
    /\ tours' = 0 /\ tenues' = {}
    /\ arrache' = (arrache \/ Niveaux(db) # {})
    /\ UNCHANGED <<touches, etat, reveil, grace, autres, croise>>

LightSleepStart ==
    /\ phase = "arme"
    /\ phase' = "dort"
    /\ UNCHANGED <<touches, scan, etat, reveil, grace, autres, histo>>

-----------------------------------------------------------------------------
(***************************************************************************)
(* The sleep task wakes up.                                                *)
(***************************************************************************)
\* A row is high, or was for a moment; or the deep threshold has come.
Reveil ==
    /\ phase = "dort"
    /\ \/ phase' = "sorti" /\ grace' = TRUE
       \/ touches = {} /\ phase' = "profond" /\ grace' = grace
    /\ UNCHANGED <<touches, scan, etat, reveil, autres, histo>>

\* matrix_wake_capture, again if it finds nothing: the AND of two passes keeps
\* no key that is not down, but may miss one whose contact bounces.
Capturer(st) ==
    /\ prev' = st /\ capturees' = st /\ wakeHad' = (st # {})
    /\ annonce' = IF st # {} THEN st ELSE annonce
    /\ actif' = (actif \/ st # {}) /\ tenues' = st
    /\ phase' = IF phase = "sorti" /\ st = {} THEN "relit" ELSE "capture"
    /\ UNCHANGED <<touches, scan, veto, cbVu, grace, autres, ecarts>>

MatrixWakeCapture ==
    /\ phase \in {"sorti", "relit"}
    /\ \E st \in SUBSET touches : Capturer(st)

\* matrix_setup: what was captured is what the recreated driver compares with;
\* the driver scans before its callback is registered.
MatrixSetup ==
    /\ phase = "capture"
    /\ cbVu' = FALSE /\ prev' = capturees /\ capturees' = {}
    /\ pilote' = "sourd" /\ db' = Repos /\ minuteur' = TRUE /\ tours' = 0
    /\ phase' = "cree"
    /\ UNCHANGED <<touches, annonce, veto, actif, wakeHad, grace, autres,
                   histo>>

RegisterCb ==
    /\ phase = "cree"
    /\ pilote' = "pret"
    /\ phase' = "attend"
    /\ UNCHANGED <<touches, db, minuteur, tours, etat, reveil, grace, autres,
                   histo>>

\* matrix_wake_wait_first_scan, then the test of matrix_wake_reconcile: the
\* driver has spoken, or nothing had been captured ...
WaitFirstScan ==
    /\ phase = "attend"
    /\ cbVu \/ tours >= Grace \/ ~minuteur
    /\ IF wakeHad /\ ~cbVu
          THEN phase' = "annule" /\ wakeHad' = FALSE
          ELSE phase' = "eveil" /\ wakeHad' = wakeHad
    /\ UNCHANGED <<touches, scan, etat, capturees, grace, autres, histo>>

\* ... or what had been captured has been released.
\* (Mistaken: the release is noted, not published.)
ReconcileMuet ==
    /\ phase = "annule"
    /\ prev' = {}
    /\ phase' = "eveil"
    /\ UNCHANGED <<touches, scan, annonce, veto, actif, cbVu, reveil, grace,
                   autres, histo>>

MatrixWakeReconcile ==
    /\ phase = "annule"
    /\ prev' = {} /\ annonce' = {}
    /\ phase' = "eveil"
    /\ UNCHANGED <<touches, scan, veto, actif, cbVu, reveil, grace, autres,
                   histo>>

\* The wake of the deep sleep is a restart.
Redemarrer ==
    /\ phase = "profond" /\ touches # {}
    /\ pilote' = "pret" /\ db' = Repos /\ minuteur' = TRUE /\ tours' = 0
    /\ prev' = {} /\ annonce' = {} /\ veto' = FALSE /\ actif' = TRUE
    /\ cbVu' = FALSE /\ capturees' = {} /\ wakeHad' = FALSE
    /\ phase' = "eveil" /\ grace' = FALSE
    /\ tenues' = {} /\ arrache' = FALSE /\ croise' = FALSE
    /\ UNCHANGED <<touches, autres>>

-----------------------------------------------------------------------------
(***************************************************************************)
(* Time, the user and the other modules.                                   *)
(***************************************************************************)
\* The threshold of inactivity and the grace are long before a scan.
PasDeScan == pilote = "pret" /\ (~minuteur \/ Niveaux(db) = touches)

Vieillir ==
    /\ phase = "eveil" /\ PasDeScan
    /\ \/ actif /\ actif' = FALSE /\ grace' = grace
       \/ grace /\ grace' = FALSE /\ actif' = actif
    /\ UNCHANGED <<touches, scan, prev, annonce, veto, cbVu, reveil, phase,
                   autres, histo>>

Appuyer ==
    /\ \E k \in Touches : touches' = (touches \cup {k}) \ (touches \cap {k})
    /\ tenues' = tenues \cap touches'
    /\ UNCHANGED <<scan, etat, reveil, phase, grace, autres, ecarts>>

AutreVeto ==
    /\ autres' = ~autres
    /\ UNCHANGED <<touches, scan, etat, reveil, phase, grace, histo>>

Pas == \/ VeillePas \/ RtcMatrixDeinit \/ LightSleepStart \/ MatrixWakeCapture
       \/ MatrixSetup \/ RegisterCb \/ WaitFirstScan \/ MatrixWakeReconcile

Next == \/ Scan \/ PowerSaveIsr \/ Pas \/ Reveil \/ Redemarrer \/ Vieillir
        \/ Appuyer \/ AutreVeto

\* The tasks run, time passes, and a row that stays high wakes.
Fairness ==
    /\ WF_vars(Scan) /\ WF_vars(PowerSaveIsr) /\ WF_vars(Pas)
    /\ WF_vars(Vieillir) /\ WF_vars(Redemarrer)
    /\ WF_vars(touches # {} /\ Reveil)

Spec == Init /\ [][Next]_vars /\ Fairness

-----------------------------------------------------------------------------
(***************************************************************************)
(* Properties.                                                             *)
(***************************************************************************)
\* Out of the wake path, what the listener is told, what the half remembers of
\* it and what its driver reports are the same keys, through any number of
\* sleeps, captures and silent releases, unless a driver was deleted while it
\* reported a key or spoke in the middle of a reconciliation.
SaidIsSeen ==
    phase \in {"eveil", "lus"} /\ ~arrache /\ ~croise =>
        annonce = prev /\ prev = Niveaux(db)

\* No step announces the release of a key that was captured at the wake and
\* has stayed down: the silence of the recreated driver is not taken for a
\* release while its debounce may still be counting.
WakeReleasesNothing == [][tenues' \cap annonce \subseteq annonce']_vars

\* A key that stays down is announced and keeps the half awake, even if it was
\* pressed while the half fell asleep or woke up.
HeldIsAnnounced ==
    \A s \in SUBSET Touches \ {{}} :
        <>[](touches = s /\ ~croise) => <>[](annonce = s /\ phase = "eveil")

\* A half whose keys are up sleeps, again and again whatever wakes it, once no
\* other module objects.
QuietSleeps ==
    <>[](touches = {} /\ ~autres /\ ~arrache) =>
        []<>(phase \in {"dort", "profond"})

\* veille.c:193-195 says of the wake that it publishes the release of a key
\* the driver will never report, "otherwise it stays stuck until the next
\* event from this half".  A half whose keys are up goes on announcing none,
\* unless it sleeps, its radio off.
NoStuckKey ==
    <>[](touches = {}) => []<>(annonce = {} \/ phase \in {"dort", "profond"})
=============================================================================
