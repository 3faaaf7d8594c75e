------------------------------- MODULE KbdRelay -------------------------------
(***************************************************************************)
(* Two engines, one keyboard.  Without a cable the left half sends its raw *)
(* matrix to the dongle, which merges both halves and types; with a cable  *)
(* the left half types itself, listens to the right half as the dongle     *)
(* re-emits it, and announces its mode to the dongle.  Who types is thus   *)
(* decided in three places that agree only after a debounce, a change of   *)
(* the radio's mode and a frame: this module is their composition.         *)
(*                                                                         *)
(* A matrix is the set of keys held.  Deadlines are not counted: a round   *)
(* of the relay's timer is given the set of those it finds elapsed, and a  *)
(* silence may be noticed at any time.  A round is one step: a repeat made *)
(* stale while it waits for the radio is the subject of RadioOwner, the    *)
(* pull of the keymap that of KeymapSync.                                  *)
(***************************************************************************)
EXTENDS Integers

CONSTANTS
    Gauche, Droite,  \* the keys of the left half and of the right half
    Repeats          \* KBD_RELAY_REPEATS

ASSUME RepeatsAssumption == Repeats \in Nat

VARIABLES
    \* the left half
    cable,      \* usb_presence_cable
    db,         \* s_db: the debounce of the cable
    mode,       \* radio_mode
    tenues,     \* the keys held that the scan has seen (prev_matrix_state)
    presse,     \* current_press: the local keys of the left half's engine
    scan,       \* the change the scan callback is about to send, or Rien
    dernier,    \* s_last_left_bm
    rep,        \* s_refresh.left
    fifo,       \* the last frame its chip has received, or Rien
    distant,    \* s_remote_bm
    \* the dongle
    leftUsb,    \* s_left_usb
    bm,         \* s_fusion: what it holds of each half
    reemis,     \* s_reemit_last
    \* the right half
    droite,     \* the keys held
    bonne       \* no frame is lost and no lock is missed any more

local  == <<tenues, presse, scan>>
relais == <<dernier, rep>>
ecoute == <<fifo, distant>>
dongle == <<leftUsb, bm, reemis>>
vars == <<cable, db, mode, local, relais, ecoute, dongle, droite, bonne>>

Rien == {"rien"}   \* no frame, no change: a set that is no matrix
Halves == {"left", "right"}
Echeances == {"cable", "silence", "refresh", "envoi"}

TypeOK ==
    /\ cable \in BOOLEAN
    /\ db \in [stable : BOOLEAN, cand : BOOLEAN]
    /\ mode \in {"PTX", "PRX"}
    /\ tenues \in SUBSET Gauche /\ presse \in SUBSET Gauche
    /\ scan \in (SUBSET Gauche) \cup {Rien}
    /\ dernier \in SUBSET Gauche /\ rep \in 0 .. Repeats
    /\ fifo \in (SUBSET Droite) \cup {Rien}
    /\ distant \in SUBSET Droite
    /\ leftUsb \in BOOLEAN
    /\ bm["left"] \in SUBSET Gauche /\ bm["right"] \in SUBSET Droite
    /\ reemis \in SUBSET Droite /\ droite \in SUBSET Droite
    /\ bonne \in BOOLEAN

\* A paired left half boots, with or without its cable: the first sample of
\* the debounce seeds it.
Init ==
    /\ cable \in BOOLEAN /\ db = [stable |-> cable, cand |-> cable]
    /\ mode = "PTX"
    /\ tenues = {} /\ presse = {} /\ scan = Rien
    /\ dernier = {} /\ rep = 0
    /\ fifo = Rien /\ distant = {}
    /\ leftUsb = FALSE /\ bm = [h \in Halves |-> {}] /\ reemis = {}
    /\ droite = {}
    /\ bonne = FALSE

-----------------------------------------------------------------------------
(***************************************************************************)
(* Who types what.                                                         *)
(***************************************************************************)
fusion_left_types_local(usb) == usb
fusion_left_emits_raw(usb)   == ~usb
fusion_dongle_types(usb)     == ~usb
fusion_dongle_reemits(usb)   == usb

\* kbd_route_target of a paired half: USB first, the radio otherwise.
kbd_route_target(stable) == IF stable THEN "USB" ELSE "RF"
RouteUsb == kbd_route_target(db.stable) = "USB"

\* What each host is told is held: matrix_apply_remote puts the keys of the
\* right half behind the local ones.
GaucheTape ==
    IF fusion_left_types_local(RouteUsb) THEN presse \cup distant ELSE {}
DongleTape ==
    IF fusion_dongle_types(leftUsb) THEN bm["left"] \cup bm["right"] ELSE {}

-----------------------------------------------------------------------------
(***************************************************************************)
(* A frame of the left half reaches the dongle (drain_radio), or not.      *)
(***************************************************************************)
PasRecu == UNCHANGED dongle

StatusRecu(usb) ==
    /\ leftUsb' = usb
    /\ UNCHANGED <<bm, reemis>>

\* A left half that sends its matrix is not on USB.
MatriceRecue(m) ==
    /\ leftUsb' = FALSE
    /\ bm' = [bm EXCEPT !["left"] = m]
    /\ reemis' = reemis

\* kbd_tx_emettre: a frame goes out in PTX only; it may be lost, or not go out
\* because another task holds the radio.
Emettre(Recue) == \/ mode' = "PTX" /\ Recue
                  \/ (mode' = "PRX" \/ ~bonne) /\ PasRecu

-----------------------------------------------------------------------------
(***************************************************************************)
(* The left half: the scan callback, in two steps since the route it reads *)
(* may change before it sends.                                             *)
(***************************************************************************)
\* keyboard_btn_cb: over USB the change goes to the local engine, otherwise
\* it is sent, and the local engine is left as it was.
ScanChange ==
    /\ scan = Rien
    /\ \E s \in SUBSET Gauche \ {tenues} :
          /\ tenues' = s
          /\ scan' = IF fusion_left_emits_raw(RouteUsb) THEN s ELSE Rien
          /\ presse' = IF fusion_left_types_local(RouteUsb) THEN s ELSE presse
    /\ UNCHANGED <<cable, db, mode, relais, ecoute, dongle, droite, bonne>>

\* kbd_relay_send_matrix: the state is stored and sent, its repeats are due.
ScanSend ==
    /\ scan # Rien
    /\ dernier' = scan
    /\ rep' = Repeats
    /\ scan' = Rien
    /\ mode' = mode
    /\ Emettre(MatriceRecue(scan))
    /\ UNCHANGED <<cable, db, tenues, presse, ecoute, droite, bonne>>

-----------------------------------------------------------------------------
(***************************************************************************)
(* The left half: a round of the relay's timer (kbd_relay_refresh_body),   *)
(* with the deadlines it finds elapsed.                                    *)
(***************************************************************************)
\* vbus_debounce_step: the route follows a cable that has not changed since.
vbus_debounce_step(e) ==
    IF cable # db.cand THEN [db EXCEPT !.cand = cable]
    ELSE IF "cable" \in e THEN [db EXCEPT !.stable = cable]
    ELSE db

\* Over USB: listen, or give up this round if the radio cannot be had ...
\* (Mistaken: a right half gone silent is not released.)
EcouterSansSilence(e) ==
    /\ mode' = "PRX"
    /\ fifo' = Rien
    /\ distant' = IF mode = "PRX" /\ fifo # Rien THEN fifo ELSE distant

\* ... take what has been received, release a right half gone silent ...
Ecouter(e) ==
    /\ mode' = "PRX"
    /\ fifo' = Rien
    /\ distant' = IF mode = "PRX" /\ fifo # Rien THEN fifo
                  ELSE IF "silence" \in e THEN {}
                  ELSE distant

\* ... and announce the mode, by an excursion, whether it is heard or not.
Annoncer(e) ==
    \/ "envoi" \in e /\ (StatusRecu(TRUE) \/ (~bonne /\ PasRecu))
    \/ "envoi" \notin e /\ PasRecu

RondeUsb(e) ==
    /\ kbd_route_target(db'.stable) = "USB"
    /\ \/ Ecouter(e) /\ Annoncer(e)
       \/ mode = "PTX" /\ ~bonne /\ mode' = mode /\ UNCHANGED ecoute /\ PasRecu
    /\ UNCHANGED relais

\* Without USB: back to PTX, where the right half is no longer heard ...
RevenirPtx ==
    \/ mode = "PTX" /\ mode' = mode /\ UNCHANGED ecoute
    \/ mode = "PRX" /\ mode' = "PTX" /\ fifo' = Rien /\ distant' = {}
    \/ mode = "PRX" /\ ~bonne /\ mode' = mode /\ UNCHANGED ecoute

\* ... then the first of: what is held, said again; a repeat; the supervision,
\* which says that this half is not on USB.
AReaffirmer(e) == dernier # {} /\ "refresh" \in e

AReparer == rep > 0

\* (Mistaken: the absence of a cable is announced by the matrix only.)
SuperviserMuet(e) == PasRecu

Superviser(e) ==
    IF "envoi" \in e THEN Emettre(StatusRecu(FALSE)) ELSE PasRecu

RondeRf(e) ==
    /\ kbd_route_target(db'.stable) = "RF"
    /\ RevenirPtx
    /\ dernier' = dernier
    /\ \/ AReaffirmer(e) /\ Emettre(MatriceRecue(dernier)) /\ rep' = rep
       \/ /\ ~AReaffirmer(e) /\ AReparer
          /\ Emettre(MatriceRecue(dernier)) /\ rep' = rep - 1
       \/ ~AReaffirmer(e) /\ ~AReparer /\ rep' = rep /\ Superviser(e)

Timer(e) ==
    /\ db' = vbus_debounce_step(e)
    /\ RondeUsb(e) \/ RondeRf(e)
    /\ UNCHANGED <<cable, local, droite, bonne>>

-----------------------------------------------------------------------------
(***************************************************************************)
(* The right half and the dongle.                                          *)
(***************************************************************************)
\* The excursion of the dongle toward the left half, whose result is ignored:
\* heard by a chip that listens.
Reemettre(m) ==
    /\ reemis' = m
    /\ \/ mode = "PRX" /\ fifo' = m
       \/ (mode = "PTX" \/ ~bonne) /\ fifo' = fifo

\* drain_radio, a MATRIX of the right half: re-emitted on a change, and again
\* while a key is held.  (Mistaken: on a change only.)
ChangeSeulement(m, e) == fusion_dongle_reemits(leftUsb) /\ m # reemis

AReemettre(m, e) ==
    /\ fusion_dongle_reemits(leftUsb)
    /\ m # reemis \/ (m # {} /\ "refresh" \in e)

DroiteRecue(e) ==
    /\ bm' = [bm EXCEPT !["right"] = droite]
    /\ leftUsb' = leftUsb
    /\ \/ AReemettre(droite, e) /\ Reemettre(droite)
       \/ ~AReemettre(droite, e) /\ UNCHANGED <<reemis, fifo>>
    /\ distant' = distant
    /\ UNCHANGED <<cable, db, mode, local, relais, droite, bonne>>

\* The right half changes; it sends its state on the change, in a few repeats,
\* and as long as a key is held (HalfLink): lost frames are those not received.
DroiteChange ==
    /\ \E s \in SUBSET Droite \ {droite} : droite' = s
    /\ UNCHANGED <<cable, db, mode, local, relais, ecoute, dongle, bonne>>

\* fusion_timeout, at the rounds of an engine that types: a half gone silent
\* is released.
Silence(h) ==
    /\ ~leftUsb /\ bm[h] # {}
    /\ bm' = [bm EXCEPT ![h] = {}]
    /\ UNCHANGED <<cable, db, mode, local, relais, ecoute, leftUsb, reemis,
                   droite, bonne>>

-----------------------------------------------------------------------------
Brancher ==
    /\ cable' = ~cable
    /\ UNCHANGED <<db, mode, local, relais, ecoute, dongle, droite, bonne>>

Retablir ==
    /\ ~bonne /\ bonne' = TRUE
    /\ UNCHANGED <<cable, db, mode, local, relais, ecoute, dongle, droite>>

Next ==
    \/ ScanChange \/ ScanSend
    \/ \E e \in SUBSET Echeances : Timer(e) \/ DroiteRecue(e)
    \/ DroiteChange \/ \E h \in Halves : Silence(h)
    \/ Brancher \/ Retablir

\* Every task runs and every deadline elapses: the rounds go on, whatever the
\* cable and the keys do, and what a round does in its own half it ends up
\* doing; what it sends is heard for sure on a link that loses nothing only.
\* On such a link a right half that holds a key is heard over and over.
Fairness ==
    /\ WF_vars(ScanSend)
    /\ WF_vars(Timer(Echeances) /\ (bonne \/ dongle' = dongle))
    /\ SF_vars(bonne /\ droite # {} /\ DroiteRecue(Echeances))
    /\ \A h \in Halves : SF_vars(Silence(h))

Spec == Init /\ [][Next]_vars /\ Fairness

-----------------------------------------------------------------------------
(***************************************************************************)
(* Properties.                                                             *)
(***************************************************************************)
\* Between a cable and its announcement both engines type, or none; once the
\* cable has stopped changing and the link loses nothing, exactly one does, and
\* the chip of the left half is in the mode of its route.
OneEngineSettles ==
    /\ []TypeOK
    /\ \A c \in BOOLEAN :
         <>[](bonne /\ cable = c) =>
             <>[](/\ fusion_left_types_local(RouteUsb) = c
                  /\ fusion_dongle_types(leftUsb) = ~c
                  /\ mode = IF c THEN "PRX" ELSE "PTX")

\* No key stays down at either host across the changes of route, whatever was
\* lost before: a right half that holds nothing any more ends up released by
\* both engines even though it is silent and the cable keeps changing, and a
\* left half plugged in for good is released by the dongle even if none of its
\* announcements is heard.
NoKeyLeftBehind ==
    /\ <>[](bonne /\ droite = {}) =>
           <>[]((GaucheTape \cup DongleTape) \cap Droite = {})
    /\ <>[]cable => <>[](DongleTape \cap Gauche = {})

\* A press of the right half that the re-emission lost is not lost for good:
\* on a link that loses nothing any more, a held key comes (back) to the host
\* of a plugged left half.
RightHoldIsTyped ==
    \A s \in SUBSET Droite :
        <>[](bonne /\ cable /\ droite = s) => []<>(GaucheTape \cap Droite = s)
=============================================================================
