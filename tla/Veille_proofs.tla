---------------------------- MODULE Veille_proofs ----------------------------
(***************************************************************************)
(* Proofs about Veille, for every set of keys, every debounce and both     *)
(* ways of reporting a press: its type invariant, that out of the wake     *)
(* path the half says what its driver sees, and that no wake announces the *)
(* release of a key that has stayed down.  The last rests on the debounce: *)
(* a key that was captured and is still down has been counted at every     *)
(* scan, so no other key is reported before it.                            *)
(***************************************************************************)
EXTENDS Veille, TLAPS

Cle == [level : BOOLEAN, cnt : 0 .. Ticks - 1, lock : BOOLEAN]

-----------------------------------------------------------------------------
(***************************************************************************)
(* The inductive invariant.                                                *)
(***************************************************************************)
SansPilote == {"arme", "dort", "profond", "sorti", "relit", "capture"}

\* The driver exists and has a listener when the phase says so, and starts
\* from nothing pressed.
Pilotage ==
    /\ pilote = IF phase \in SansPilote THEN "absent"
                ELSE IF phase = "cree" THEN "sourd" ELSE "pret"
    /\ pilote # "pret" => db = Repos /\ tours = 0

\* What is announced is what is remembered, but for a report that a deleted
\* driver left behind it.
Dit == prev # {} \/ ~arrache => annonce = prev

\* What is remembered is what the driver reports, phase by phase.
VuEveil == phase \in {"eveil", "lus"} =>
    prev = Niveaux(db) \/ (croise /\ prev = {} /\ annonce = {})
VuDort == phase \in SansPilote \ {"capture"} /\ ~arrache => prev = {}
VuCapture == phase = "capture" => capturees = prev /\ wakeHad = (prev # {})
VuCree == phase \in {"cree", "attend"} /\ ~cbVu =>
    Niveaux(db) = {} /\ wakeHad = (prev # {})
VuAttend == /\ phase = "cree" => ~cbVu
            /\ phase = "attend" /\ cbVu => prev = Niveaux(db)
VuAnnule == phase = "annule" =>
    Niveaux(db) = {} \/ (croise /\ prev = Niveaux(db))

\* A captured key that has stayed down is down, keeps the timer running, and
\* until it is reported has been counted at each scan, before any other.
Premier(k) ==
    /\ ~db[k].lock /\ db[k].cnt = tours /\ tours < Ticks
    /\ \A j \in Touches : ~db[j].level /\ ~db[j].lock
                          /\ db[j].cnt <= db[k].cnt
    /\ Eager => tours = 0

Tenue ==
    /\ tenues \subseteq touches
    /\ phase \in {"arme", "dort", "profond", "annule"} => tenues = {}
    /\ pilote # "absent" /\ tenues # {} => minuteur
    /\ \A k \in tenues : pilote # "absent" /\ ~db[k].level => Premier(k)

Inv == /\ TypeOK /\ Pilotage /\ Dit /\ VuEveil /\ VuDort /\ VuCapture
       /\ VuCree /\ VuAttend /\ VuAnnule /\ Tenue

-----------------------------------------------------------------------------
(***************************************************************************)
(* The debounce of one key.                                                *)
(***************************************************************************)
LEMMA StepType ==
    ASSUME NEW k \in Cle, NEW bas \in BOOLEAN
    PROVE  kbd_db_step(k, bas) \in Cle
<1>1. ASSUME NEW c \in Cle PROVE Compter(c, bas) \in Cle
  BY TicksAssumption DEF Compter, Cle
<1>2. [level |-> k.level, cnt |-> 0, lock |-> FALSE] \in Cle
  BY TicksAssumption DEF Cle
<1>3. k.cnt + 1 < Ticks => [k EXCEPT !.cnt = @ + 1] \in Cle
  BY TicksAssumption DEF Cle
<1>. QED  BY <1>1, <1>2, <1>3 DEF kbd_db_step

\* A reported key that stays down stays reported.
LEMMA StepHeld ==
    ASSUME NEW k \in Cle, k.level
    PROVE  kbd_db_step(k, TRUE).level
BY DEF kbd_db_step, Compter, Cle

\* A key down that is not reported is reported, or counted once more.
LEMMA StepDown ==
    ASSUME NEW k \in Cle, ~k.level, ~k.lock
    PROVE  LET d == kbd_db_step(k, TRUE) IN
           IF Eager \/ k.cnt + 1 >= Ticks THEN d.level
           ELSE ~d.level /\ ~d.lock /\ d.cnt = k.cnt + 1
BY TicksAssumption DEF kbd_db_step, Compter, Cle

\* A key that is not reported is not reported before its count allows it.
LEMMA StepOther ==
    ASSUME NEW k \in Cle, ~k.level, ~k.lock, NEW bas \in BOOLEAN
    PROVE  LET d == kbd_db_step(k, bas) IN
           \/ d.level /\ (Eager \/ k.cnt + 1 >= Ticks)
           \/ ~d.level /\ ~d.lock /\ d.cnt <= k.cnt + 1
BY TicksAssumption DEF kbd_db_step, Compter, Cle

LEMMA ReposFacts == Repos \in [Touches -> Cle] /\ Niveaux(Repos) = {}
BY TicksAssumption DEF Repos, Cle, Niveaux

\* The debounce of every key: what Scan makes of the levels.
Balaye == [k \in Touches |-> kbd_db_step(db[k], k \in touches)]

LEMMA BalayeFacts ==
    ASSUME Inv, pilote = "pret"
    PROVE  /\ Balaye \in [Touches -> Cle]
           /\ \A k \in tenues : ~Balaye[k].level =>
                 /\ ~db[k].level /\ tours + 1 < Ticks /\ ~Eager
                 /\ ~Balaye[k].lock /\ Balaye[k].cnt = tours + 1
                 /\ \A j \in Touches : /\ ~Balaye[j].level /\ ~Balaye[j].lock
                                       /\ Balaye[j].cnt <= tours + 1
<1>1. db \in [Touches -> Cle]
  BY DEF Inv, TypeOK, Cle
<1>0. \A j \in Touches : \E b \in BOOLEAN : Balaye[j] = kbd_db_step(db[j], b)
  <2>. TAKE j \in Touches
  <2>1. Balaye[j] = kbd_db_step(db[j], j \in touches)
    BY DEF Balaye
  <2>2. (j \in touches) \in BOOLEAN
    BY SMT
  <2>. QED  BY <2>1, <2>2, Zenon
<1>2. Balaye \in [Touches -> Cle]
  BY <1>1, <1>0, StepType DEF Balaye
<1>3. ASSUME NEW k \in tenues, ~Balaye[k].level
      PROVE  ~db[k].level /\ tours + 1 < Ticks /\ ~Eager
             /\ ~Balaye[k].lock /\ Balaye[k].cnt = tours + 1
             /\ \A j \in Touches : ~Balaye[j].level
                   /\ ~Balaye[j].lock /\ Balaye[j].cnt <= tours + 1
  <2>1. k \in Touches /\ k \in touches
    BY DEF Inv, TypeOK, Tenue
  <2>2. Balaye[k] = kbd_db_step(db[k], TRUE)
    BY <2>1 DEF Balaye
  <2>3. ~db[k].level
    BY <1>1, <1>3, <2>1, <2>2, StepHeld
  <2>4. Premier(k)
    BY <2>3 DEF Inv, Tenue
  <2>5. db[k] \in Cle /\ ~db[k].lock /\ db[k].cnt = tours
    BY <1>1, <2>1, <2>4 DEF Premier
  <2>6. /\ ~(Eager \/ db[k].cnt + 1 >= Ticks)
        /\ ~Balaye[k].lock /\ Balaye[k].cnt = tours + 1
    <3>1. LET d == kbd_db_step(db[k], TRUE) IN
          IF Eager \/ db[k].cnt + 1 >= Ticks THEN d.level
          ELSE ~d.level /\ ~d.lock /\ d.cnt = db[k].cnt + 1
      BY <2>3, <2>5, StepDown
    <3>. QED  BY <1>3, <2>2, <2>5, <3>1
  <2>7. ASSUME NEW j \in Touches
        PROVE  ~Balaye[j].level /\ ~Balaye[j].lock
               /\ Balaye[j].cnt <= tours + 1
    <3>1. db[j] \in Cle /\ ~db[j].level /\ ~db[j].lock
          /\ db[j].cnt <= tours
      BY <1>1, <2>4, <2>5 DEF Premier
    <3>3. PICK b \in BOOLEAN : Balaye[j] = kbd_db_step(db[j], b)
      BY <1>0
    <3>2. LET d == kbd_db_step(db[j], b) IN
          \/ d.level /\ (Eager \/ db[j].cnt + 1 >= Ticks)
          \/ ~d.level /\ ~d.lock /\ d.cnt <= db[j].cnt + 1
      BY <3>1, StepOther
    <3>4. db[j].cnt \in Nat /\ tours \in Nat /\ db[k].cnt = tours
      BY <3>1, <2>5 DEF Cle, Inv, TypeOK, Grace
    <3>5. ~(Eager \/ db[j].cnt + 1 >= Ticks)
      BY <2>6, <3>1, <3>4, TicksAssumption
    <3>6. ~Balaye[j].level /\ ~Balaye[j].lock
          /\ Balaye[j].cnt <= db[j].cnt + 1
      BY <3>2, <3>3, <3>5
    <3>7. Balaye[j].cnt \in Nat
      BY <1>2 DEF Cle
    <3>. QED  BY <3>1, <3>4, <3>6, <3>7
  <2>8. tours + 1 < Ticks
    BY <2>5, <2>6, TicksAssumption DEF Inv, TypeOK, Grace
  <2>. QED  BY <2>3, <2>6, <2>7, <2>8
<1>. QED  BY <1>2, <1>3

\* A driver that reports a change reports every captured key that stayed down.
LEMMA ReportsHeld ==
    ASSUME Inv, pilote = "pret", Niveaux(Balaye) # Niveaux(db)
    PROVE  tenues \subseteq Niveaux(Balaye)
<1>. SUFFICES ASSUME NEW k \in tenues, ~Balaye[k].level PROVE FALSE
  BY DEF Niveaux, Inv, TypeOK
<1>1. \A j \in Touches : ~Balaye[j].level
  BY BalayeFacts
<1>2. ~db[k].level
  BY BalayeFacts
<1>3. \A j \in Touches : ~db[j].level
  BY <1>2 DEF Inv, Tenue, Premier
<1>. QED  BY <1>1, <1>3 DEF Niveaux

-----------------------------------------------------------------------------
(***************************************************************************)
(* Every step keeps the invariant.                                         *)
(***************************************************************************)
LEMMA InitInv == Init => Inv
<1>. SUFFICES ASSUME Init PROVE Inv
  OBVIOUS
<1>1. TypeOK
  <2>1. {veto, actif, cbVu, wakeHad, grace, autres, arrache, croise}
           \subseteq BOOLEAN /\ minuteur \in BOOLEAN
    BY DEF Init
  <2>2. db \in [Touches -> Cle] /\ tours \in 0 .. Grace
    BY ReposFacts, TicksAssumption DEF Init, Grace
  <2>3. /\ touches \in SUBSET Touches /\ prev \in SUBSET Touches
        /\ annonce \in SUBSET Touches /\ capturees \in SUBSET Touches
        /\ tenues \in SUBSET Touches /\ pilote = "pret" /\ phase = "eveil"
    BY DEF Init
  <2>. QED  BY <2>1, <2>2, <2>3 DEF TypeOK, Cle, Phases
<1>2. Pilotage /\ Dit /\ VuEveil /\ VuDort /\ VuCapture /\ VuCree /\ VuAttend
      /\ VuAnnule /\ Tenue
  BY ReposFacts DEF Init, Pilotage, Dit, VuEveil, VuDort, VuCapture, VuCree,
                    VuAttend, VuAnnule, Tenue, SansPilote
<1>. QED  BY <1>1, <1>2 DEF Inv

LEMMA ScanInv == Inv /\ Scan => Inv'
<1>. SUFFICES ASSUME Inv, Scan PROVE Inv'
  OBVIOUS
<1>1. /\ pilote = "pret" /\ pilote' = "pret" /\ phase' = phase
      /\ touches' = touches /\ tenues' = tenues
      /\ db' = Balaye /\ capturees' = capturees /\ wakeHad' = wakeHad
      /\ tours' = IF tours < Grace THEN tours + 1 ELSE tours
      /\ minuteur' = ~(Niveaux(Balaye) = {} /\ touches = Niveaux(db))
      /\ phase \notin SansPilote \cup {"cree"}
  BY DEF Scan, Auditeur, Balaye, reveil, Inv, Pilotage
<1>2. Balaye \in [Touches -> Cle]
  BY <1>1, BalayeFacts
<1>3. Niveaux(Balaye) \subseteq Touches
  BY DEF Niveaux
<1>4. /\ Pilotage' /\ VuDort' /\ VuCapture'
  BY <1>1 DEF Pilotage, VuDort, VuCapture, SansPilote
<1>5. Tenue'
  <2>1. tenues \subseteq touches /\ (phase = "annule" => tenues = {})
    BY DEF Inv, Tenue
  <2>2. ASSUME NEW k \in tenues PROVE minuteur'
    <3>1. SUFFICES ASSUME Niveaux(Balaye) = {}, touches = Niveaux(db)
                   PROVE FALSE
      BY <1>1
    <3>2. k \in Touches /\ db[k].level /\ ~Balaye[k].level
      BY <2>1, <3>1 DEF Niveaux, Inv, TypeOK
    <3>. QED  BY <1>1, <3>2, BalayeFacts
  <2>3. ASSUME NEW k \in tenues, ~db'[k].level PROVE Premier(k)'
    <3>1. tours \in Nat /\ tours + 1 < Ticks /\ tours' = tours + 1
      BY <1>1, <2>3, BalayeFacts, TicksAssumption DEF Inv, TypeOK, Grace
    <3>. QED  BY <1>1, <2>3, <3>1, BalayeFacts DEF Premier
  <2>. QED  BY <1>1, <2>1, <2>2, <2>3 DEF Tenue, SansPilote
<1>6. CASE Niveaux(Balaye) # Niveaux(db)
  <2>1. keyboard_btn_cb(Niveaux(Balaye))
    BY <1>1, <1>6 DEF Scan, Balaye
  <2>2. TypeOK'
    <3>1. {veto, actif, cbVu, wakeHad, grace, autres, arrache, croise}'
             \subseteq BOOLEAN /\ minuteur' \in BOOLEAN
      BY <1>1, <2>1 DEF keyboard_btn_cb, VetoSuit, Scan, Inv, TypeOK
    <3>2. db' \in [Touches -> Cle] /\ tours' \in 0 .. Grace
      BY <1>1, <1>2, TicksAssumption DEF Grace, Inv, TypeOK
    <3>3. /\ touches' \in SUBSET Touches /\ prev' \in SUBSET Touches
          /\ annonce' \in SUBSET Touches /\ capturees' \in SUBSET Touches
          /\ tenues' \in SUBSET Touches /\ pilote' = "pret"
          /\ phase' \in Phases
      BY <1>1, <1>3, <2>1 DEF keyboard_btn_cb, Inv, TypeOK
    <3>. QED  BY <3>1, <3>2, <3>3 DEF TypeOK, Cle
  <2>3. annonce' = prev' /\ prev' = Niveaux(Balaye)
    BY <1>1, <1>6, <2>1 DEF keyboard_btn_cb, Inv, Dit, VuEveil, VuCree,
                            VuAttend, VuAnnule, TypeOK, Phases, SansPilote
  <2>4. Dit' /\ VuEveil' /\ VuCree' /\ VuAttend' /\ VuAnnule'
    BY <1>1, <2>1, <2>3 DEF keyboard_btn_cb, Dit, VuEveil, VuCree, VuAttend,
                            VuAnnule
  <2>. QED  BY <1>4, <1>5, <2>2, <2>4 DEF Inv
<1>7. CASE Niveaux(Balaye) = Niveaux(db)
  <2>1. UNCHANGED <<etat, ecarts>> /\ Niveaux(db)' = Niveaux(db)
    BY <1>1, <1>7 DEF Scan, Balaye
  <2>2. TypeOK'
    BY <1>1, <1>2, <2>1, TicksAssumption
       DEF Scan, etat, ecarts, Inv, TypeOK, Cle, Grace
  <2>3. Dit' /\ VuEveil' /\ VuCree' /\ VuAttend' /\ VuAnnule'
    BY <1>1, <2>1 DEF etat, ecarts, Inv, Dit, VuEveil, VuCree, VuAttend,
                      VuAnnule
  <2>. QED  BY <1>4, <1>5, <2>2, <2>3 DEF Inv
<1>. QED  BY <1>6, <1>7

\* The driver is deleted.
LEMMA DeinitInv == Inv /\ RtcMatrixDeinit => Inv'
<1>. SUFFICES ASSUME Inv, RtcMatrixDeinit PROVE Inv'
  OBVIOUS
<1>1. db' = Repos /\ Niveaux(db)' = {} /\ db' \in [Touches -> Cle]
  BY ReposFacts DEF RtcMatrixDeinit, Niveaux
<1>2. TypeOK'
  <2>1. {veto, actif, cbVu, wakeHad, grace, autres, arrache, croise}'
           \subseteq BOOLEAN /\ minuteur' \in BOOLEAN
    BY DEF RtcMatrixDeinit, etat, reveil, Inv, TypeOK
  <2>. QED  BY <1>1, <2>1, TicksAssumption
            DEF RtcMatrixDeinit, etat, reveil, Inv, TypeOK, Cle, Grace, Phases
<1>3. ~arrache' => prev' = {}
  BY DEF RtcMatrixDeinit, etat, Inv, VuEveil
<1>4. Pilotage' /\ Dit' /\ VuEveil' /\ VuDort' /\ VuCapture' /\ VuCree'
      /\ VuAttend' /\ VuAnnule' /\ Tenue'
  BY <1>1, <1>3 DEF RtcMatrixDeinit, etat, reveil, Inv, Pilotage, Dit, VuEveil,
         VuDort, VuCapture, VuCree, VuAttend, VuAnnule, Tenue, SansPilote
<1>. QED  BY <1>2, <1>4 DEF Inv

\* The capture, and the driver that is recreated from it.
LEMMA WakeInv ==
    ASSUME Inv, MatrixWakeCapture \/ MatrixSetup \/ RegisterCb PROVE Inv'
<1>1. CASE MatrixWakeCapture
  <2>1. PICK st \in SUBSET touches : Capturer(st)
    BY <1>1 DEF MatrixWakeCapture
  <2>2. phase \in {"sorti", "relit"} /\ phase' \in {"relit", "capture"}
    BY <1>1, <2>1 DEF MatrixWakeCapture, Capturer
  <2>3. TypeOK'
    <3>1. {veto, actif, cbVu, wakeHad, grace, autres, arrache, croise}'
             \subseteq BOOLEAN /\ minuteur' \in BOOLEAN
      BY <2>1 DEF Capturer, scan, ecarts, Inv, TypeOK
    <3>. QED  BY <2>1, <2>2, <3>1 DEF Capturer, scan, ecarts, Inv, TypeOK, Phases
  <2>4. Niveaux(db)' = Niveaux(db)
    BY <2>1 DEF Capturer, scan, Niveaux
  <2>5. Dit'
    BY <2>1, <2>2 DEF Capturer, ecarts, Inv, Dit, VuDort, SansPilote
  <2>6. VuDort'
    BY <2>1, <2>2 DEF Capturer, ecarts, VuDort, SansPilote
  <2>. QED  BY <2>1, <2>2, <2>3, <2>4, <2>5, <2>6
            DEF Capturer, scan, ecarts, Inv, Pilotage, VuEveil, VuCapture,
                VuCree, VuAttend, VuAnnule, Tenue, SansPilote
<1>2. CASE MatrixSetup
  <2>1. db' = Repos /\ Niveaux(db)' = {} /\ db' \in [Touches -> Cle]
    BY <1>2, ReposFacts DEF MatrixSetup, Niveaux
  <2>2. TypeOK'
    <3>1. {veto, actif, cbVu, wakeHad, grace, autres, arrache, croise}'
             \subseteq BOOLEAN /\ minuteur' \in BOOLEAN
      BY <1>2 DEF MatrixSetup, histo, ecarts, Inv, TypeOK
    <3>. QED  BY <1>2, <2>1, <3>1, TicksAssumption
              DEF MatrixSetup, histo, ecarts, Inv, TypeOK, Cle, Grace, Phases
  <2>3. \A k \in tenues' : Premier(k)'
    BY <1>2, TicksAssumption
       DEF MatrixSetup, histo, Inv, Tenue, TypeOK, Premier, Repos
  <2>4. Dit' /\ VuCree'
    BY <1>2, <2>1 DEF MatrixSetup, histo, ecarts, Inv, Dit, VuCapture, VuCree
  <2>. QED  BY <1>2, <2>1, <2>2, <2>3, <2>4
            DEF MatrixSetup, histo, ecarts, Inv, Pilotage, VuEveil, VuDort,
                VuCapture, VuAttend, VuAnnule, Tenue, SansPilote
<1>3. CASE RegisterCb
  <2>1. Niveaux(db)' = Niveaux(db)
    BY <1>3 DEF RegisterCb, Niveaux
  <2>2. TypeOK'
    BY <1>3 DEF RegisterCb, etat, reveil, histo, ecarts, Inv, TypeOK, Phases
  <2>3. \A k \in tenues : Premier(k)' <=> Premier(k)
    BY <1>3 DEF RegisterCb, Premier
  <2>. QED  BY <1>3, <2>1, <2>2, <2>3
            DEF RegisterCb, etat, reveil, histo, ecarts, Inv, Pilotage, Dit,
                VuEveil, VuDort, VuCapture, VuCree, VuAttend, VuAnnule, Tenue,
                SansPilote
<1>. QED  BY <1>1, <1>2, <1>3

\* The wait for the first scan: a silent driver has no captured key down.
LEMMA WaitInv == Inv /\ WaitFirstScan => Inv'
<1>. SUFFICES ASSUME Inv, WaitFirstScan PROVE Inv'
  OBVIOUS
<1>1. Niveaux(db)' = Niveaux(db) /\ phase' \in {"annule", "eveil"}
  BY DEF WaitFirstScan, scan, Niveaux
<1>2. TypeOK'
  BY DEF WaitFirstScan, scan, etat, histo, ecarts, Inv, TypeOK, Phases
<1>3. ASSUME phase' = "annule" PROVE tenues' = {}
  <2>. SUFFICES ASSUME NEW k \in tenues PROVE FALSE
    BY DEF WaitFirstScan, histo
  <2>1. ~cbVu /\ (tours >= Grace \/ ~minuteur) /\ pilote = "pret"
    BY <1>3 DEF WaitFirstScan, Inv, Pilotage, SansPilote
  <2>2. ~db[k].level
    BY <2>1 DEF WaitFirstScan, Inv, VuCree, Niveaux, TypeOK
  <2>3. tours < Ticks /\ minuteur
    BY <2>1, <2>2 DEF Inv, Tenue, Premier
  <2>. QED  BY <2>1, <2>3, TicksAssumption DEF Grace, Inv, TypeOK
<1>4. \A k \in tenues : Premier(k)' <=> Premier(k)
  BY DEF WaitFirstScan, scan, Premier
<1>. QED  BY <1>1, <1>2, <1>3, <1>4
          DEF WaitFirstScan, scan, etat, histo, ecarts, Inv, Pilotage, Dit,
              VuEveil, VuDort, VuCapture, VuCree, VuAttend, VuAnnule, Tenue,
              SansPilote

LEMMA ReconcileInv == Inv /\ MatrixWakeReconcile => Inv'
<1>. SUFFICES ASSUME Inv, MatrixWakeReconcile PROVE Inv'
  OBVIOUS
<1>1. Niveaux(db)' = Niveaux(db)
  BY DEF MatrixWakeReconcile, scan, Niveaux
<1>2. TypeOK'
  BY DEF MatrixWakeReconcile, scan, reveil, histo, ecarts, Inv, TypeOK, Phases
<1>3. tenues' = {}
  BY DEF MatrixWakeReconcile, histo, Inv, Tenue
<1>. QED  BY <1>1, <1>2, <1>3
          DEF MatrixWakeReconcile, scan, reveil, histo, ecarts, Inv, Pilotage,
              Dit, VuEveil, VuDort, VuCapture, VuCree, VuAttend, VuAnnule,
              Tenue, SansPilote

\* The steps that leave the driver, what it reports and what is said alone.
LEMMA PhaseInv ==
    ASSUME Inv, VeillePas \/ LightSleepStart \/ Reveil PROVE Inv'
<1>1. /\ UNCHANGED <<touches, scan, etat, reveil, autres, histo>>
      /\ \/ phase = "eveil" /\ phase' = "lus"
         \/ phase = "arme" /\ phase' = "dort"
         \/ phase = "dort" /\ phase' = "sorti"
         \/ phase = "dort" /\ phase' = "profond"
      /\ grace' \in BOOLEAN
  BY DEF VeillePas, LightSleepStart, Reveil, Inv, TypeOK
<1>2. Niveaux(db)' = Niveaux(db)
  BY <1>1 DEF scan, Niveaux
<1>3. TypeOK'
  BY <1>1 DEF scan, etat, reveil, histo, ecarts, Inv, TypeOK, Phases
<1>4. \A k \in tenues : Premier(k)' <=> Premier(k)
  BY <1>1 DEF scan, Premier
<1>. QED  BY <1>1, <1>2, <1>3, <1>4
          DEF scan, etat, reveil, histo, ecarts, Inv, Pilotage, Dit, VuEveil,
              VuDort, VuCapture, VuCree, VuAttend, VuAnnule, Tenue, SansPilote

LEMMA RedemarrerInv == Inv /\ Redemarrer => Inv'
<1>. SUFFICES ASSUME Inv, Redemarrer PROVE Inv'
  OBVIOUS
<1>1. db' = Repos /\ Niveaux(db)' = {} /\ db' \in [Touches -> Cle]
  BY ReposFacts DEF Redemarrer, Niveaux
<1>2. TypeOK'
  <2>1. {veto, actif, cbVu, wakeHad, grace, autres, arrache, croise}'
           \subseteq BOOLEAN /\ minuteur' \in BOOLEAN
    BY DEF Redemarrer, Inv, TypeOK
  <2>. QED  BY <1>1, <2>1, TicksAssumption
            DEF Redemarrer, Inv, TypeOK, Cle, Grace, Phases
<1>. QED  BY <1>1, <1>2
          DEF Redemarrer, Inv, Pilotage, Dit, VuEveil, VuDort, VuCapture,
              VuCree, VuAttend, VuAnnule, Tenue, SansPilote

LEMMA OtherInv ==
    ASSUME Inv,
           PowerSaveIsr \/ Vieillir \/ Appuyer \/ AutreVeto \/ UNCHANGED vars
    PROVE  Inv'
<1>1. /\ UNCHANGED <<phase, pilote, db, tours, prev, annonce, cbVu, reveil,
                     ecarts>>
      /\ tenues' \subseteq tenues /\ tenues' \subseteq touches'
      /\ minuteur => minuteur'
  BY DEF PowerSaveIsr, Vieillir, Appuyer, AutreVeto, vars, scan, etat, histo,
         Inv, Tenue
<1>2. Niveaux(db)' = Niveaux(db)
  BY <1>1 DEF Niveaux
<1>3. TypeOK'
  <2>1. touches' \subseteq Touches /\ tenues' \subseteq Touches
    BY DEF PowerSaveIsr, Vieillir, Appuyer, AutreVeto, vars, histo, Inv, TypeOK
  <2>2. {veto, actif, cbVu, wakeHad, grace, autres, arrache, croise}'
           \subseteq BOOLEAN /\ minuteur' \in BOOLEAN
    BY DEF PowerSaveIsr, Vieillir, Appuyer, AutreVeto, vars, scan, etat,
           reveil, histo, ecarts, Inv, TypeOK
  <2>. QED  BY <1>1, <2>1, <2>2 DEF reveil, ecarts, Inv, TypeOK
<1>4. \A k \in tenues : Premier(k)' <=> Premier(k)
  BY <1>1 DEF Premier
<1>. QED  BY <1>1, <1>2, <1>3, <1>4
          DEF reveil, ecarts, Inv, Pilotage, Dit, VuEveil, VuDort, VuCapture,
              VuCree, VuAttend, VuAnnule, Tenue, SansPilote

LEMMA NextInv == Inv /\ [Next]_vars => Inv'
BY ScanInv, DeinitInv, WakeInv, WaitInv, ReconcileInv, PhaseInv,
   RedemarrerInv, OtherInv DEF Next, Pas

LEMMA Always == Spec => []Inv
BY InitInv, NextInv, PTL DEF Spec

-----------------------------------------------------------------------------
(***************************************************************************)
(* The theorems.                                                           *)
(***************************************************************************)
\* The driver, the debounce and the phases keep their types.
THEOREM TypeCorrect == Spec => []TypeOK
<1>1. Inv => TypeOK
  BY DEF Inv
<1>. QED  BY <1>1, Always, PTL

\* Out of the wake path, what is announced, what is remembered and what the
\* driver reports are the same keys.
THEOREM SaidSeen == Spec => []SaidIsSeen
<1>1. Inv => SaidIsSeen
  BY DEF Inv, SaidIsSeen, VuEveil, Dit
<1>. QED  BY <1>1, Always, PTL

\* No wake announces the release of a captured key that has stayed down.
THEOREM WakeReleasesNone == Spec => WakeReleasesNothing
<1>1. ASSUME Inv, [Next]_vars PROVE tenues' \cap annonce \subseteq annonce'
  <2>1. CASE Scan
    <3>1. pilote = "pret" /\ tenues' = tenues
      BY <2>1 DEF Scan, Auditeur
    <3>2. CASE Niveaux(Balaye) # Niveaux(db)
      <4>1. annonce' = annonce \/ annonce' = Niveaux(Balaye)
        BY <2>1, <3>1, <3>2 DEF Scan, Balaye, keyboard_btn_cb
      <4>. QED  BY <1>1, <3>1, <3>2, <4>1, ReportsHeld
    <3>3. CASE Niveaux(Balaye) = Niveaux(db)
      BY <2>1, <3>1, <3>3 DEF Scan, Balaye, etat
    <3>. QED  BY <3>2, <3>3
  <2>2. CASE MatrixWakeCapture
    BY <2>2 DEF MatrixWakeCapture, Capturer
  <2>3. CASE MatrixWakeReconcile
    BY <1>1, <2>3 DEF MatrixWakeReconcile, histo, Inv, Tenue
  <2>4. CASE Redemarrer
    BY <2>4 DEF Redemarrer
  <2>5. CASE ~(Scan \/ MatrixWakeCapture \/ MatrixWakeReconcile \/ Redemarrer)
    <3>1. annonce' = annonce
      BY <1>1, <2>5
         DEF Next, Pas, PowerSaveIsr, VeillePas, RtcMatrixDeinit,
             LightSleepStart, MatrixSetup, RegisterCb, WaitFirstScan, Reveil,
             Vieillir, Appuyer, AutreVeto, vars, etat
    <3>. QED  BY <3>1
  <2>. QED  BY <2>1, <2>2, <2>3, <2>4, <2>5
<1>. QED  BY <1>1, Always, PTL DEF Spec, WakeReleasesNothing
=============================================================================
