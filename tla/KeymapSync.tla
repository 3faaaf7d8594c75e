------------------------------ MODULE KeymapSync ------------------------------
(***************************************************************************)
(* The left half pulls the dongle's keymap.  The dongle slips a beacon or  *)
(* a chunk into the acknowledgement of a frame: what it loads after one    *)
(* frame leaves with the acknowledgement of the next frame it receives,    *)
(* from either half.  Two tasks of the left half send and handle what      *)
(* their acknowledgements bring: "scan" on a change, and the relay's timer *)
(* with its status, its requests and the save.                             *)
(*                                                                         *)
(* Both tasks run on core 0 and the timer preempts the scan: a frame of    *)
(* the timer and what it brings are one step, the scan is between three.   *)
(* The lock only covers the exchange on air.  The fingerprint stands for   *)
(* the keymap (collisions of the CRC are left out).                        *)
(***************************************************************************)
EXTENDS Integers, Sequences

CONSTANTS
    Valeurs,      \* what a chunk can hold
    N,            \* SYNC_N_CHUNKS
    RxCap,        \* received frames the dongle's chip keeps
    AckCap,       \* acknowledgement payloads it keeps
    Depart,       \* the keymap both start with
    MaxEditions,  \* bound: edits of the dongle's keymap
    MaxReboots    \* bound: reboots of either end

ASSUME SizeAssumption == N \in Nat \ {0} /\ RxCap \in Nat \ {0} /\ AckCap \in Nat \ {0}
ASSUME BoundAssumption == MaxEditions \in Nat /\ MaxReboots \in Nat

Cartes == [0 .. N - 1 -> Valeurs]
ASSUME DepartAssumption == Depart \in Cartes

\* What an acknowledgement brings; ed dates a beacon, for the properties.
SansCharge == [type |-> "rien"]
Balises == [type : {"balise"}, fp : Cartes, ed : 0 .. MaxEditions]
Morceaux == [type : {"morceau"}, idx : 0 .. N - 1, data : Valeurs]
Charges == Balises \cup Morceaux

\* What the dongle receives: a matrix of the right half only takes a payload,
\* any other frame that says nothing of the keymap also brings one.
Trames == [type : {"status"}, fp : Cartes] \cup [type : {"req"}, next : 0 .. N]
          \cup [type : {"gauche", "droite"}]

VARIABLES
    source,      \* keymaps[] of the dongle
    vue, annonce, \* s_coh: the last fingerprint the left half announced
    recus,       \* received frames of the keyboard slot
    acks,        \* payloads waiting for the next acknowledgements
    locale, nvs, \* keymaps[] of the left half, and what it saved
    tampon, suivant,      \* s_krx
    tire, cible, complet, \* s_syncing, s_sync_target_fp, s_sync_done
    veto,        \* VEILLE_VETO_SYNC
    scan,        \* the scan task: place, acknowledgement in hand, passed by the timer
    ecrit,       \* the timer is writing to NVS
    editions, reboots, \* bounds; editions also dates beacons
    debut, course, \* history: date of the beacon of this pull; acknowledgements crossed
    bonne        \* nothing is lost, typed, edited or rebooted any more

dongle == <<source, vue, annonce>>
radio  == <<recus, acks>>
krx    == <<tampon, suivant, tire, cible, complet, veto, debut, course>>
syncVars == <<dongle, radio, locale, nvs, krx, scan, ecrit, editions, reboots, bonne>>

SyncTypeOK ==
    /\ source \in Cartes /\ vue \in BOOLEAN /\ annonce \in Cartes
    /\ recus \in Seq(Trames) /\ Len(recus) <= RxCap
    /\ acks \in Seq(Charges) /\ Len(acks) <= AckCap
    /\ locale \in Cartes /\ nvs \in Cartes
    /\ tampon \in Cartes /\ suivant \in 0 .. N + 1
    /\ tire \in BOOLEAN /\ cible \in Cartes /\ complet \in BOOLEAN
    /\ veto \in BOOLEAN
    /\ scan \in [pas : {"repos", "lire", "appliquer"}, ack : Charges \cup {SansCharge},
                 doublee : BOOLEAN]
    /\ ecrit \in BOOLEAN
    /\ editions \in 0 .. MaxEditions /\ reboots \in 0 .. MaxReboots
    /\ debut \in 0 .. MaxEditions /\ course \in BOOLEAN
    /\ bonne \in BOOLEAN

Etat(pas, ack, doublee) == [pas |-> pas, ack |-> ack, doublee |-> doublee]
AuRepos == Etat("repos", SansCharge, FALSE)

SyncInit ==
    /\ source = Depart /\ vue = FALSE /\ annonce = Depart
    /\ recus = << >> /\ acks = << >>
    /\ locale = Depart /\ nvs = Depart
    /\ tampon = Depart /\ suivant = 0
    /\ tire = FALSE /\ cible = Depart /\ complet = FALSE /\ veto = FALSE
    /\ scan = AuRepos /\ ecrit = FALSE
    /\ editions = 0 /\ reboots = 0 /\ debut = 0 /\ course = FALSE
    /\ bonne = FALSE

-----------------------------------------------------------------------------
(***************************************************************************)
(* On air.  A frame for which the chip has no room is not acknowledged.    *)
(***************************************************************************)
EnTete == IF acks = << >> THEN SansCharge ELSE Head(acks)

Arriver(t) ==
    /\ Len(recus) < RxCap
    /\ recus' = Append(recus, t)
    /\ acks' = IF acks = << >> THEN acks ELSE Tail(acks)

\* A frame of the left half, and what its acknowledgement brings.
Emettre(t, ack) ==
    \/ Arriver(t) /\ ack = EnTete
    \/ Arriver(t) /\ ack = SansCharge /\ ~bonne
    \/ /\ Len(recus) = RxCap \/ ~bonne
       /\ ack = SansCharge
       /\ UNCHANGED radio

\* The right half sends to the same address: what waited was for nothing.
\* Its gauge is a STATUS, which passes for a frame of the left half.
Droite ==
    /\ ~bonne
    /\ \E type \in {"droite", "gauche"} : Arriver([type |-> type])
    /\ UNCHANGED <<dongle, locale, nvs, krx, scan, ecrit, editions, reboots, bonne>>

-----------------------------------------------------------------------------
(***************************************************************************)
(* The dongle keeps no state of a transfer.                                *)
(***************************************************************************)
\* dongle_sync_active
Divergence == vue /\ annonce # source

Balise == [type |-> "balise", fp |-> source, ed |-> editions]

\* dongle_sync_ack_for: the chunk of a request, else the beacon.
Reponse(t) ==
    IF t.type = "req" /\ t.next < N
    THEN [type |-> "morceau", idx |-> t.next, data |-> source[t.next]]
    ELSE Balise

\* rf_driver_load_ack_payload: beyond what it keeps, the chip ignores.
Charger(c) == IF Len(acks) < AckCap THEN Append(acks, c) ELSE acks

\* drain_radio: the payload answers a frame of the left half, and is chosen
\* before the announcement of that frame is noted.
Traiter ==
    /\ recus # << >>
    /\ LET t == Head(recus)
       IN /\ acks' = IF t.type # "droite" /\ Divergence THEN Charger(Reponse(t)) ELSE acks
          /\ annonce' = IF t.type = "status" THEN t.fp ELSE annonce
          /\ vue' = (vue \/ t.type = "status")
    /\ recus' = Tail(recus)
    /\ UNCHANGED <<source, locale, nvs, krx, scan, ecrit, editions, reboots, bonne>>

\* bin_cmd_setkey, or one chunk of bin_cmd_setlayer: another task writes.
Editer(k, v) ==
    /\ ~bonne /\ editions < MaxEditions
    /\ source[k] # v
    /\ source' = [source EXCEPT ![k] = v]
    /\ editions' = editions + 1
    /\ UNCHANGED <<vue, annonce, radio, locale, nvs, krx, scan, ecrit, reboots, bonne>>

-----------------------------------------------------------------------------
(***************************************************************************)
(* keymap_pull_on_ack, in its two halves: what decides, what it does.      *)
(***************************************************************************)
\* (Mistaken: any chunk is taken as the next one.)
TousAttendus(c) == TRUE

\* keymap_rx_chunk accepts the next chunk only.
Attendu(c) == suivant < N /\ c.idx = suivant

Retenue(c) ==
    /\ ~complet
    /\ \/ /\ c.type = "balise"
          /\ c.fp # locale
          /\ tire => c.fp # cible
       \/ /\ c.type = "morceau"
          /\ tire /\ Attendu(c)

\* A beacon of another keymap: start again from zero.
Commencer(c, croise) ==
    /\ c.type = "balise"
    /\ suivant' = 0 /\ tire' = TRUE /\ veto' = TRUE /\ cible' = c.fp
    /\ debut' = c.ed /\ course' = croise
    /\ UNCHANGED <<tampon, complet>>

Accepter(c, croise) ==
    /\ c.type = "morceau"
    /\ tampon' = [tampon EXCEPT ![c.idx] = c.data]
    /\ suivant' = suivant + 1
    /\ tire' = IF suivant' >= N THEN FALSE ELSE tire
    /\ complet' = IF suivant' >= N THEN TRUE ELSE complet
    /\ course' = (course \/ croise)
    /\ UNCHANGED <<cible, veto, debut>>

Appliquer(c, croise) == Commencer(c, croise) \/ Accepter(c, croise)

-----------------------------------------------------------------------------
(***************************************************************************)
(* The scan task: a change is sent, its acknowledgement is handled after   *)
(* the lock is given back.                                                 *)
(***************************************************************************)
Taper ==
    /\ ~bonne /\ scan.pas = "repos"
    /\ \E ack \in {EnTete, SansCharge} :
          /\ Emettre([type |-> "gauche"], ack)
          /\ scan' = IF ack = SansCharge THEN scan ELSE Etat("lire", ack, FALSE)
    /\ UNCHANGED <<dongle, locale, nvs, krx, ecrit, editions, reboots, bonne>>

ScanLire ==
    /\ scan.pas = "lire"
    /\ scan' = IF Retenue(scan.ack) THEN Etat("appliquer", scan.ack, scan.doublee) ELSE AuRepos
    /\ UNCHANGED <<dongle, radio, locale, nvs, krx, ecrit, editions, reboots, bonne>>

ScanAppliquer ==
    /\ scan.pas = "appliquer"
    /\ Appliquer(scan.ack, FALSE)
    /\ scan' = AuRepos
    /\ UNCHANGED <<dongle, radio, locale, nvs, ecrit, editions, reboots, bonne>>

-----------------------------------------------------------------------------
(***************************************************************************)
(* The relay's timer.                                                      *)
(***************************************************************************)
\* The timer preempts the scan once at most: its next tick is 10 ms later.
PeutPasser == ~ecrit /\ ~scan.doublee

\* A frame of the timer, which may pass an acknowledgement in the scan's hand.
Envoyer(t) ==
    /\ PeutPasser
    /\ scan' = IF scan.pas = "repos" THEN scan ELSE Etat(scan.pas, scan.ack, TRUE)
    /\ \E ack \in {EnTete, SansCharge} :
          /\ Emettre(t, ack)
          /\ IF Retenue(ack) THEN Appliquer(ack, scan.pas # "repos")
             ELSE UNCHANGED krx

\* (Mistaken: asks for the chunk after the next one.)
DemanderTrop ==
    /\ tire
    /\ Envoyer([type |-> "req", next |-> suivant + 1])
    /\ UNCHANGED <<dongle, locale, nvs, ecrit, editions, reboots, bonne>>

\* keymap_pull_tick: one request, and the timer does nothing else.
Demander ==
    /\ tire
    /\ Envoyer([type |-> "req", next |-> suivant])
    /\ UNCHANGED <<dongle, locale, nvs, ecrit, editions, reboots, bonne>>

\* A hold is reaffirmed before the pull, a change repeated outside of it.
Reaffirmer ==
    /\ ~bonne
    /\ Envoyer([type |-> "gauche"])
    /\ UNCHANGED <<dongle, locale, nvs, ecrit, editions, reboots, bonne>>

\* The supervision frame announces the fingerprint of the moment.
AnnoncerMode ==
    /\ ~tire
    /\ Envoyer([type |-> "status", fp |-> locale])
    /\ UNCHANGED <<dongle, locale, nvs, ecrit, editions, reboots, bonne>>

\* The copy, under the radio's lock...
Copier ==
    /\ complet /\ PeutPasser
    /\ locale' = tampon
    /\ complet' = FALSE
    /\ ecrit' = TRUE
    /\ UNCHANGED <<dongle, radio, nvs, tampon, suivant, tire, cible, veto, debut, course,
                   scan, editions, reboots, bonne>>

\* ... then NVS, which can fail and during which the scan runs.
Sauver ==
    /\ ecrit
    /\ nvs' \in {locale, nvs}
    /\ veto' = FALSE
    /\ ecrit' = FALSE
    /\ UNCHANGED <<dongle, radio, locale, tampon, suivant, tire, cible, complet, debut,
                   course, scan, editions, reboots, bonne>>

-----------------------------------------------------------------------------
RedemarrerGauche ==
    /\ ~bonne /\ reboots < MaxReboots
    /\ reboots' = reboots + 1
    /\ locale' = nvs
    /\ tampon' = Depart /\ suivant' = 0
    /\ tire' = FALSE /\ cible' = Depart /\ complet' = FALSE /\ veto' = FALSE
    /\ debut' = 0 /\ course' = FALSE
    /\ scan' = AuRepos /\ ecrit' = FALSE
    /\ UNCHANGED <<dongle, radio, nvs, editions, bonne>>

RedemarrerDongle ==
    /\ ~bonne /\ reboots < MaxReboots
    /\ reboots' = reboots + 1
    /\ vue' = FALSE /\ annonce' = Depart
    /\ recus' = << >> /\ acks' = << >>
    /\ UNCHANGED <<source, locale, nvs, krx, scan, ecrit, editions, bonne>>

\* From here on nothing is lost, edited, typed or rebooted.
Calmer ==
    /\ ~bonne
    /\ bonne' = TRUE
    /\ UNCHANGED <<dongle, radio, locale, nvs, krx, scan, ecrit, editions, reboots>>

SyncNext ==
    \/ Droite \/ Traiter
    \/ \E k \in 0 .. N - 1, v \in Valeurs : Editer(k, v)
    \/ Taper \/ ScanLire \/ ScanAppliquer
    \/ Demander \/ Reaffirmer \/ AnnoncerMode \/ Copier \/ Sauver
    \/ RedemarrerGauche \/ RedemarrerDongle
    \/ Calmer

Fairness ==
    /\ WF_syncVars(Traiter)
    /\ WF_syncVars(ScanLire) /\ WF_syncVars(ScanAppliquer)
    /\ WF_syncVars(Demander) /\ WF_syncVars(AnnoncerMode)
    /\ WF_syncVars(Copier) /\ WF_syncVars(Sauver)

SyncSpec == SyncInit /\ [][SyncNext]_syncVars /\ Fairness

-----------------------------------------------------------------------------
(***************************************************************************)
(* Properties.                                                             *)
(***************************************************************************)
\* keymap_sync.h: lost, repeated and late payloads do not corrupt the keymap
\* in progress.  What has been pulled is the announced keymap, unless the
\* dongle's keymap changed since that beacon, or the timer handled its
\* acknowledgement while the scan still held an older one.
PulledIsTarget ==
    /\ SyncTypeOK
    /\ (tire \/ complet) /\ debut = editions /\ ~course
        => \A i \in 0 .. N - 1 : i < suivant => tampon[i] = cible[i]

\* Once nothing changes any more, the left half ends on the dongle's keymap,
\* whatever mix its pulls had gathered before and whatever was saved at a
\* reboot.  Unless it is in a dead end: it pulls, from a dongle that does not
\* know of a divergence any more and answers nothing.
EventuallySame == bonne ~> [](locale = source \/ (tire /\ ~Divergence))
=============================================================================
