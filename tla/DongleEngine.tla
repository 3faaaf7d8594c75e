---------------------------- MODULE DongleEngine ----------------------------
(***************************************************************************)
(* The keymap engine of the dongle between the radio and the HID path:     *)
(* the rx task stores every half-matrix it receives and queues the fused   *)
(* state, the engine task plays the queue, one state per cycle, or keeps   *)
(* silent while the left half types over its own USB.  s_mux makes each of *)
(* on_matrix, vider, the push on resume and the timeout-then-pop section   *)
(* one step; everything else interleaves.                                  *)
(*                                                                         *)
(* A half-matrix is a member of Bitmaps, a fused state the pair of both.   *)
(* Two ways lead to the host.  A cycle hands its report to send_hid_key,   *)
(* which queues it for the sender task: `rapport' is the last state that   *)
(* went this way.  The two releases (mute, lost link) call                 *)
(* hid_send_keyboard themselves, past the queue: `relache' says that one   *)
(* was ordered since the last cycle.  Reports queued before it may still   *)
(* come after it at the host: that order is HidPath's, not this module's.  *)
(*                                                                         *)
(* One tick is a period long against an engine round (10 ms) and short     *)
(* against Timeout (400 ms) and LinkLost (2.5 s): see Tick.                *)
(***************************************************************************)
EXTENDS FusionFile

CONSTANTS
    Bitmaps,    \* the half-matrices a frame can carry
    Vide,       \* the half-matrix with no key down
    Timeout,    \* HALF_LINK_TIMEOUT_MS, in ticks
    LinkLost    \* RF_LINK_LOST_MS, in ticks

ASSUME VideAssumption == Vide \in Bitmaps
ASSUME TimeoutAssumption == Timeout \in Nat \ {0}
ASSUME LinkLostAssumption == LinkLost \in Nat /\ LinkLost > Timeout

Halves == {"left", "right"}
Fused == [Halves -> Bitmaps]
Rien == [h \in Halves |-> Vide]

VARIABLES
    bm,         \* s_fusion: the last half-matrix of each half ...
    vivant,     \* ... whether its silence is still to be noticed ...
    age,        \* ... and the ticks since it was received (up to Timeout)
    file,       \* s_file
    leftUsb,    \* s_left_usb
    lien,       \* s_link of the keyboard slot: up, and its silence in ticks
    trame,      \* the MATRIX frame the rx task is handling, or Aucune
    pc,         \* where the engine task is
    prevTypes,  \* prev_types: it was typing at its last round
    etat,       \* the fused state it popped and is about to play
    rapport,    \* the last keyboard state a cycle handed to send_hid_key
    relache     \* the host was released directly since then

fusion == <<bm, vivant, age>>
rx     == <<leftUsb, lien, trame>>
moteur == <<pc, prevTypes, etat>>
hid    == <<rapport, relache>>
vars   == <<fusion, file, rx, moteur, hid>>

Aucune == [half |-> "none"]
Trames == [half : Halves, bitmap : Bitmaps]

TypeOK ==
    /\ bm \in Fused
    /\ vivant \in [Halves -> BOOLEAN]
    /\ age \in [Halves -> 0 .. Timeout]
    /\ file \in Files(Fused)
    /\ leftUsb \in BOOLEAN
    /\ lien \in [up : BOOLEAN, age : 0 .. LinkLost]
    /\ trame \in Trames \cup {Aucune}
    /\ pc \in {"attente", "taire", "vider", "reprise", "prendre", "jouer"}
    /\ prevTypes \in BOOLEAN
    /\ etat \in Fused
    /\ rapport \in Fused
    /\ relache \in BOOLEAN

Init ==
    /\ bm = Rien
    /\ vivant = [h \in Halves |-> FALSE]
    /\ age = [h \in Halves |-> 0]
    /\ file = FileInit(Rien)
    /\ leftUsb = FALSE
    /\ lien = [up |-> FALSE, age |-> 0]
    /\ trame = Aucune
    /\ pc = "attente"
    /\ prevTypes = TRUE
    /\ etat = Rien
    /\ rapport = Rien
    /\ relache = FALSE

-----------------------------------------------------------------------------
(***************************************************************************)
(* The rx task.                                                            *)
(***************************************************************************)
PreuveDeVie == lien' = [up |-> TRUE, age |-> 0]

\* A STATUS of the left half announces its mode.
StatusGauche(usb) ==
    /\ trame = Aucune
    /\ PreuveDeVie
    /\ leftUsb' = usb
    /\ UNCHANGED <<fusion, file, trame, moteur, hid>>

\* The battery STATUS of the right half shares the slot: proof of life only.
StatusDroite ==
    /\ trame = Aucune
    /\ PreuveDeVie
    /\ UNCHANGED <<fusion, file, leftUsb, trame, moteur, hid>>

\* A left half that sends its raw matrix is not on USB.
RecevoirMatrice(m) ==
    /\ trame = Aucune
    /\ PreuveDeVie
    /\ leftUsb' = (leftUsb /\ m.half # "left")
    /\ trame' = m
    /\ UNCHANGED <<fusion, file, moteur, hid>>

\* dongle_engine_on_matrix, under s_mux: half_state_recu, then the new fused
\* state is queued if this half-matrix changed.
OnMatrix ==
    /\ trame # Aucune
    /\ bm' = [bm EXCEPT ![trame.half] = trame.bitmap]
    /\ vivant' = [vivant EXCEPT ![trame.half] = TRUE]
    /\ age' = [age EXCEPT ![trame.half] = 0]
    /\ file' = IF bm[trame.half] # trame.bitmap THEN Push(file, bm') ELSE file
    /\ trame' = Aucune
    /\ UNCHANGED <<leftUsb, lien, moteur, hid>>

\* rf_slot_link_check and apply_safe_action: the rx task itself releases the
\* host, once, when the whole slot has been silent for LinkLost.
LienPerdu ==
    /\ trame = Aucune
    /\ lien.up /\ lien.age >= LinkLost
    /\ lien' = [up |-> FALSE, age |-> lien.age]
    /\ relache' = TRUE
    /\ UNCHANGED <<fusion, file, leftUsb, trame, moteur, rapport>>

-----------------------------------------------------------------------------
(***************************************************************************)
(* The engine task: one action per section of its loop.                    *)
(***************************************************************************)
\* Woken by a frame or by its timer, it reads the mode of the left half.
Reveil ==
    /\ pc = "attente"
    /\ pc' = IF leftUsb THEN IF prevTypes THEN "taire" ELSE "vider"
             ELSE IF prevTypes THEN "prendre" ELSE "reprise"
    /\ UNCHANGED <<fusion, file, rx, prevTypes, etat, hid>>

\* The left half types: the host is released, directly ...
Taire ==
    /\ pc = "taire"
    /\ relache' = TRUE
    /\ prevTypes' = FALSE
    /\ pc' = "vider"
    /\ UNCHANGED <<fusion, file, rx, etat, rapport>>

\* ... and every round drops what the right half has queued meanwhile.
ViderFile ==
    /\ pc = "vider"
    /\ file' = Vider(file)
    /\ pc' = "attente"
    /\ UNCHANGED <<fusion, rx, prevTypes, etat, hid>>

\* The left half no longer types: the current state is queued once.
\* (Mistaken: it waits for the next change.)
ReprendreSansEtat ==
    /\ pc = "reprise"
    /\ prevTypes' = TRUE
    /\ pc' = "prendre"
    /\ UNCHANGED <<fusion, file, rx, etat, hid>>

Reprise ==
    /\ pc = "reprise"
    /\ file' = Push(file, bm)
    /\ prevTypes' = TRUE
    /\ pc' = "prendre"
    /\ UNCHANGED <<fusion, rx, etat, hid>>

\* half_state_timeout.
Expiree(h) == vivant[h] /\ age[h] >= Timeout

\* fusion_timeout evaluates both halves, and a release on silence is queued.
\* (Mistaken: only the left half is released.)
LibererGauche ==
    [h \in Halves |-> IF h = "left" /\ Expiree(h) THEN Vide ELSE bm[h]]

Liberer == [h \in Halves |-> IF Expiree(h) THEN Vide ELSE bm[h]]
ApresSilence ==
    IF \E h \in Halves : Expiree(h) THEN Push(file, Liberer) ELSE file

\* One critical section: the timeout, then one pending state is taken.
Prendre ==
    /\ pc = "prendre"
    /\ bm' = Liberer
    /\ vivant' = [h \in Halves |-> vivant[h] /\ ~Expiree(h)]
    /\ \/ /\ ApresSilence.n > 0
          /\ etat' = Oldest(ApresSilence)
          /\ file' = Pop(ApresSilence)
          /\ pc' = "jouer"
       \/ /\ ApresSilence.n = 0
          /\ file' = ApresSilence
          /\ pc' = "attente"
          /\ etat' = etat
    /\ UNCHANGED <<age, rx, prevTypes, hid>>

\* fill_current_press and run_cycle, outside of the lock; the loop goes on
\* while something is pending.
Jouer ==
    /\ pc = "jouer"
    /\ rapport' = etat
    /\ relache' = FALSE
    /\ pc' = IF file.n > 0 THEN "prendre" ELSE "attente"
    /\ UNCHANGED <<fusion, file, rx, prevTypes, etat>>

-----------------------------------------------------------------------------
Vieillir(a, max) == IF a < max THEN a + 1 ELSE a

\* Time.  A frame is handled within the tick.  The engine blocks in two places
\* only: its wait, between 10 ms rounds that each read the mode and, if it
\* types, take the silences past the timeout; and a cycle (a tap, a macro),
\* taken to be shorter than what separates the timeout from a lost link.
Tick ==
    /\ trame = Aucune
    /\ \/ /\ pc = "attente"
          /\ prevTypes = ~leftUsb
          /\ prevTypes => \A h \in Halves : ~Expiree(h)
       \/ /\ pc = "jouer"
          /\ lien.age + 1 < LinkLost
    /\ age' = [h \in Halves |-> Vieillir(age[h], Timeout)]
    /\ lien' = [up |-> lien.up, age |-> Vieillir(lien.age, LinkLost)]
    /\ UNCHANGED <<bm, vivant, file, leftUsb, trame, moteur, hid>>

Radio == \/ \E usb \in BOOLEAN : StatusGauche(usb)
         \/ StatusDroite
         \/ \E m \in Trames : RecevoirMatrice(m)
         \/ OnMatrix
         \/ LienPerdu

Moteur == Reveil \/ Taire \/ ViderFile \/ Reprise \/ Prendre \/ Jouer

Next == Radio \/ Moteur \/ Tick

\* The rx task finishes the frame it handles and the engine task, above every
\* other task of its core, keeps running its rounds.  Frames are never owed.
Fairness == WF_vars(OnMatrix) /\ WF_vars(Moteur)

Spec == Init /\ [][Next]_vars /\ Fairness

-----------------------------------------------------------------------------
(***************************************************************************)
(* Properties.                                                             *)
(***************************************************************************)
\* A dongle that types and has nothing left to play has sent the current state
\* of both halves last on each of the two ways to the host, whichever of them
\* comes last there: no repeat, timeout, overflow, mute and resume, or lost
\* link leaves a key down or up behind the engine's back.
Converged ==
    pc = "attente" /\ prevTypes /\ file.n = 0 =>
        rapport = bm /\ (relache => bm = Rien)

\* The queue ends on the current state: deduplication never hides a transition,
\* since what it compares with is also what will be played last.
QueueEndsOnCurrent == EndsOn(file, bm)

\* A half that falls silent for good is released in what the engine reports,
\* unless the left half types (half_link.h: "we release after a silence").
SilenceReleases ==
    \A h \in Halves : []<>(age[h] < Timeout \/ leftUsb \/ rapport[h] = Vide)

\* Once the halves and the mode stop changing, the reports end on their state,
\* and no direct release contradicts it.
EventuallyInSync ==
    \A s \in Fused : <>[](bm = s /\ ~leftUsb) =>
                         <>[](rapport = s /\ (relache => s = Rien))

\* The inductive invariant behind the three above.  Silence: a half no longer
\* alive holds nothing, and no half is heard more recently than the slot it
\* shares.  Rounds: what each place of the engine's loop knows.
Silence ==
    /\ \A h \in Halves : ~vivant[h] => bm[h] = Vide
    /\ \A h \in Halves : vivant[h] => age[h] >= lien.age \/ age[h] = Timeout
    /\ trame # Aucune => lien.age = 0
    /\ lien.age = LinkLost /\ prevTypes =>
          (\A h \in Halves : ~vivant[h]) \/ (pc = "prendre" /\ file.n > 0)

Rounds ==
    /\ pc \in {"taire", "prendre", "jouer"} => prevTypes
    /\ pc \in {"vider", "reprise"} => ~prevTypes
    /\ ~prevTypes /\ pc # "vider" /\ file.dernier_valide => file.n > 0
    /\ prevTypes /\ file.n = 0 =>
          IF pc = "jouer" THEN etat = bm
          ELSE rapport = bm /\ (relache => bm = Rien)
    /\ ~prevTypes => relache

IInv == TypeOK /\ QueueEndsOnCurrent /\ Silence /\ Rounds

\* The states received and not yet handed over: the one popped, then the queue.
EnAttente == (IF pc = "jouer" THEN <<etat>> ELSE << >>) \o Content(file)

\* The replay of every transition, in order, with counted losses.
Replay == INSTANCE TransitionReplay WITH
    States  <- Fused,
    Rien    <- Rien,
    Room    <- Cap,
    LostMod <- CountMod,
    current <- bm,
    pending <- EnAttente,
    host    <- IF relache THEN Rien ELSE rapport,
    muted   <- ~prevTypes,
    lost    <- file.ecrasees

ReplayEveryTransition == Replay!Spec
=============================================================================
