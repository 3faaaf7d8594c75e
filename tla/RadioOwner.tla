------------------------------ MODULE RadioOwner ------------------------------
(***************************************************************************)
(* The one owner of a half's nRF24 and the tasks of the half that go       *)
(* through it: the scan callback emits every change of the half-matrix,    *)
(* the relay timer repeats the current one, switches the chip between      *)
(* emitting (PTX) and listening (PRX), drains what was received and makes  *)
(* excursions out of PRX; the pairing task holds the chip for a round; the *)
(* sleep task powers the chip down, and after a wake it emits too: the     *)
(* release it reconciles, the scan driver running again.                   *)
(*                                                                         *)
(* Every operation reads s_mode first, then waits for the lock, then does  *)
(* its section: these are three steps, and the sections that touch the     *)
(* chip several times are several.  A half-matrix is the generation of the *)
(* state it carries.  The chip is the record of what its registers say;    *)
(* appliquer, which reprograms it and then notes mode and target, is one   *)
(* step, since whoever reads them in between has no lock yet.              *)
(***************************************************************************)
EXTENDS Integers, Sequences

CONSTANTS
    MaxGen,     \* bound: how many changes of the half-matrix
    FifoCap     \* the frames the chip keeps, 3 in the nRF24

ASSUME MaxGenAssumption == MaxGen \in Nat
ASSUME FifoCapAssumption == FifoCap \in Nat \ {0}

\* "veille" and "reveil" are the sleep task, going to sleep and after a wake.
Clients == {"scan", "relais", "pairing", "reveil"}
Taches == Clients \cup {"veille"}

\* The modes and targets that the two halves ask for.
Reglages == [mode : {"ptx"}, cible : {"dongle", "gauche"}]
            \cup [mode : {"prx"}, cible : {"lien"}]

VersDongle == [mode |-> "ptx", cible |-> "dongle"]

Operations == {"change", "repete", "mode", "rearmer", "drainer",
               "excursion", "pair", "bus"}

\* A call: what is asked, where it is at, the half-matrix to send (change,
\* repete) and the mode to set (mode).
Appels == [type : Operations, gen : 0 .. MaxGen, reglage : Reglages,
           lieu : {"repos", "verifier", "attendre", "section", "envoyer",
                   "partir", "revenir", "ecouter"}]
Repos == [type |-> "bus", gen |-> 0, reglage |-> VersDongle, lieu |-> "repos"]

VARIABLES
    verrou,     \* s_mux: the task that holds it, or "libre"
    reglage,    \* s_mode and s_cible
    endormie, verrouSommeil,
    puce,       \* the chip: mode, target, powered, listening (CE high)
    fifo,       \* its received frames: did each arrive after a drain?
    appel,      \* the call each client is in
    gen,        \* s_last_left_gen / s_etat_gen: the current half-matrix
    surAir,     \* the last half-matrix that went on air
    veto,       \* VEILLE_VETO_PAIR
    decision,   \* the sleep task has read the vetoes and is about to sleep
    aConcilier, \* it has woken up and has still to reconcile
    moitie,     \* which half this is
    depassees   \* history: the changes of the left half overtaken by another
                \* task's change before their own emission was over

owner == <<verrou, reglage>>
chip  == <<puce, fifo>>
sleep == <<endormie, verrouSommeil, decision>>
autres == <<veto, aConcilier, moitie, depassees>>
vars  == <<owner, chip, sleep, appel, gen, surAir, autres>>

TypeOK ==
    /\ verrou \in Taches \cup {"libre"}
    /\ reglage \in Reglages
    /\ endormie \in BOOLEAN /\ verrouSommeil \in BOOLEAN
    /\ puce \in [mode : {"ptx", "prx"}, alim : BOOLEAN, ce : BOOLEAN,
                 cible : {"dongle", "gauche", "lien", "ailleurs", "rdv"}]
    /\ fifo \in Seq(BOOLEAN) /\ Len(fifo) <= FifoCap
    /\ appel \in [Clients -> Appels]
    /\ gen \in 0 .. MaxGen /\ surAir \in 0 .. MaxGen
    /\ veto \in BOOLEAN /\ decision \in BOOLEAN /\ aConcilier \in BOOLEAN
    /\ moitie \in {"left", "right"}
    /\ depassees \subseteq 0 .. MaxGen

Registres(mode, cible, alim, ce) ==
    [mode |-> mode, cible |-> cible, alim |-> alim, ce |-> ce]

\* The chip in a mode, toward a target: it listens in PRX only.
Puce(r) == Registres(r.mode, r.cible, TRUE, r.mode = "prx")

\* radio_owner_init, for a chip that is present.
Init ==
    /\ verrou = "libre"
    /\ reglage = VersDongle
    /\ puce = Puce(VersDongle)
    /\ fifo = << >>
    /\ endormie = FALSE /\ verrouSommeil = FALSE /\ decision = FALSE
    /\ appel = [t \in Clients |-> Repos]
    /\ gen = 0 /\ surAir = 0
    /\ veto = FALSE /\ aConcilier = FALSE
    /\ moitie \in {"left", "right"}
    /\ depassees = {}

-----------------------------------------------------------------------------
(***************************************************************************)
(* Calls.                                                                  *)
(***************************************************************************)
Appeler(t, type, g, r) ==
    /\ appel[t] = Repos
    /\ appel' = [appel EXCEPT ![t] = [type |-> type, gen |-> g, reglage |-> r,
                                      lieu |-> "verifier"]]
    /\ UNCHANGED <<owner, chip, sleep, surAir>>

\* A change: its state and generation are published first, in one critical
\* section, and from there on every call in flight is late on it.
Publier(t) ==
    /\ gen < MaxGen
    /\ gen' = gen + 1
    /\ depassees' = depassees \cup
           {appel[u].gen : u \in {v \in Clients :
                                    moitie = "left" /\ appel[v].type = "change"}}
    /\ Appeler(t, "change", gen', VersDongle)
    /\ UNCHANGED <<veto, moitie>>

\* From the scan callback; or, while there is no driver, from the capture.
Changer == Publier("scan") /\ UNCHANGED aConcilier

\* matrix_wake_reconcile, once the sleep task has created the driver again:
\* the release of what it captured, unless the driver has already spoken --
\* and it may speak at any time from there on.
Concilier ==
    /\ aConcilier
    /\ aConcilier' = FALSE
    /\ \/ Publier("reveil")
       \/ UNCHANGED <<owner, chip, sleep, appel, gen, surAir, veto, moitie, depassees>>

\* A repair or a reaffirmation leaves with a snapshot of the state.
Repeter == Appeler("relais", "repete", gen, VersDongle) /\ UNCHANGED <<gen, autres>>

Regler(r) == Appeler("relais", "mode", 0, r) /\ UNCHANGED <<gen, autres>>

Demander(t, type) ==
    /\ <<t, type>> \in {<<"scan", "rearmer">>, <<"relais", "drainer">>,
                        <<"relais", "excursion">>, <<"relais", "bus">>}
    /\ Appeler(t, type, 0, VersDongle)
    /\ UNCHANGED <<gen, autres>>

\* The pairing task vetoes sleep for all its rounds.
Appairer ==
    /\ Appeler("pairing", "pair", 0, VersDongle)
    /\ veto' = TRUE
    /\ UNCHANGED <<gen, aConcilier, moitie, depassees>>

FinAppairage ==
    /\ appel["pairing"] = Repos /\ veto
    /\ veto' = FALSE
    /\ UNCHANGED <<owner, chip, sleep, appel, gen, surAir>>
    /\ UNCHANGED <<aConcilier, moitie, depassees>>

Lieu(t, lieu) == appel[t].lieu = lieu
En(a, lieu) == IF lieu = "repos" THEN Repos
               ELSE [type |-> a.type, gen |-> a.gen, reglage |-> a.reglage,
                     lieu |-> lieu]
Aller(t, lieu) == appel' = [appel EXCEPT ![t] = En(appel[t], lieu)]

\* The early return on s_mode, read without the lock.
ModeRequis(type) ==
    CASE type \in {"change", "repete", "pair"} -> {"ptx"}
      [] type \in {"drainer", "excursion"} -> {"prx"}
      [] OTHER -> {"ptx", "prx"}

Verifier(t) ==
    /\ Lieu(t, "verifier")
    /\ IF reglage.mode \in ModeRequis(appel[t].type)
       THEN Aller(t, "attendre") ELSE Aller(t, "repos")
    /\ UNCHANGED <<verrou, reglage, chip, sleep, gen, surAir, autres>>

PrendreVerrou(t) ==
    /\ Lieu(t, "attendre")
    /\ verrou = "libre"
    /\ verrou' = t
    /\ Aller(t, "section")
    /\ UNCHANGED <<reglage, chip, sleep, gen, surAir, autres>>

\* lock_take ran out of time: nothing was touched.
Renoncer(t) ==
    /\ Lieu(t, "attendre")
    /\ verrou # "libre"
    /\ Aller(t, "repos")
    /\ UNCHANGED <<owner, chip, sleep, gen, surAir, autres>>

-----------------------------------------------------------------------------
(***************************************************************************)
(* Sections, under the lock.                                               *)
(***************************************************************************)
Section(t, type) == Lieu(t, "section") /\ appel[t].type = type
Rester(t, lieu) == Aller(t, lieu) /\ UNCHANGED verrou
Rendre(t) == Aller(t, "repos") /\ verrou' = "libre"

\* appliquer: rf_driver_rearm_rx flushes the received frames, set_ptx does not.
Appliquer(r) ==
    /\ puce' = Puce(r)
    /\ fifo' = IF r.mode = "prx" THEN << >> ELSE fifo
    /\ reglage' = r

\* radio_mode_set: nothing to do if the owner is already there.
PoserMode(t) ==
    /\ Section(t, "mode")
    /\ IF appel[t].reglage = reglage
       THEN UNCHANGED <<reglage, chip>>
       ELSE Appliquer(appel[t].reglage)
    /\ Rendre(t)
    /\ UNCHANGED <<sleep, gen, surAir, autres>>

Rearmer(t) ==
    /\ Section(t, "rearmer")
    /\ Appliquer(reglage)
    /\ Rendre(t)
    /\ UNCHANGED <<sleep, gen, surAir, autres>>

\* encore_valide, evaluated under the lock: an older state is not sent
\* (PERIME).  The right half gives the check (etat_valide) with all it emits,
\* the left (gen_valide) with its repeats only.
\* (Mistaken: what is sent is current.)
PerimeJamais(t) == FALSE

Perime(t) == /\ appel[t].type = "repete" \/ moitie = "right"
             /\ appel[t].gen # gen

\* (Mistaken: the early return keeps the lock.)
ValiderSansRendre(t) ==
    /\ Section(t, "change") \/ Section(t, "repete")
    /\ Rester(t, IF Perime(t) THEN "repos" ELSE "envoyer")
    /\ UNCHANGED <<reglage, chip, sleep, gen, surAir, autres>>

Valider(t) ==
    /\ Section(t, "change") \/ Section(t, "repete")
    /\ IF Perime(t) THEN Rendre(t) ELSE Rester(t, "envoyer")
    /\ UNCHANGED <<reglage, chip, sleep, gen, surAir, autres>>

\* rf_driver_send_ap pulses CE, whatever the chip is set to: a chip that was
\* listening neither sends nor listens any more.
Envoyer(t) ==
    /\ Lieu(t, "envoyer")
    /\ surAir' = IF puce.mode = "ptx" /\ puce.alim THEN appel[t].gen ELSE surAir
    /\ puce' = Registres(puce.mode, puce.cible, puce.alim, FALSE)
    /\ Rendre(t)
    /\ UNCHANGED <<reglage, fifo, sleep, gen, autres>>

\* radio_rx_drain delivers what the chip holds to the consumer.
Drainer(t) ==
    /\ Section(t, "drainer")
    /\ fifo' = << >>
    /\ Rendre(t)
    /\ UNCHANGED <<reglage, puce, sleep, gen, surAir, autres>>

\* radio_excursion_emettre delivers it too before the chip leaves ...
\* (Mistaken: the chip leaves with what it holds.)
PartirPlein(t) ==
    /\ Section(t, "excursion")
    /\ Rester(t, "partir")
    /\ UNCHANGED <<reglage, chip, sleep, gen, surAir, autres>>

Vidanger(t) ==
    /\ Section(t, "excursion")
    /\ fifo' = << >>
    /\ Rester(t, "partir")
    /\ UNCHANGED <<reglage, puce, sleep, gen, surAir, autres>>

\* ... and rf_driver_oob_tx sends elsewhere ...
Partir(t) ==
    /\ Lieu(t, "partir")
    /\ puce' = Registres("ptx", "ailleurs", TRUE, FALSE)
    /\ Rester(t, "revenir")
    /\ UNCHANGED <<reglage, fifo, sleep, gen, surAir, autres>>

\* ... then listens to the owner's target, its received frames flushed.
Revenir(t) ==
    /\ Lieu(t, "revenir")
    /\ puce' = Puce([mode |-> "prx", cible |-> reglage.cible])
    /\ fifo' = << >>
    /\ Rendre(t)
    /\ UNCHANGED <<reglage, sleep, gen, surAir, autres>>

\* radio_pair_round aims at the rendezvous, listens there, and returns.
Viser(t) ==
    /\ Section(t, "pair")
    /\ puce' = Registres("prx", "rdv", TRUE, TRUE)
    /\ fifo' = << >>
    /\ Rester(t, "ecouter")
    /\ UNCHANGED <<reglage, sleep, gen, surAir, autres>>

\* (Mistaken: it stays at the rendezvous.)
ResterAuRdv(t) ==
    /\ Lieu(t, "ecouter")
    /\ Rendre(t)
    /\ UNCHANGED <<reglage, chip, sleep, gen, surAir, autres>>

RevenirDuRdv(t) ==
    /\ Lieu(t, "ecouter")
    /\ Appliquer(reglage)
    /\ Rendre(t)
    /\ UNCHANGED <<sleep, gen, surAir, autres>>

\* radio_lock and radio_unlock: the keymap pull copies what it received, the
\* screen draws; the chip is not touched.
RendreBus(t) ==
    /\ Section(t, "bus")
    /\ Rendre(t)
    /\ UNCHANGED <<reglage, chip, sleep, gen, surAir, autres>>

Client(t) ==
    \/ Verifier(t) \/ PrendreVerrou(t) \/ Renoncer(t)
    \/ PoserMode(t) \/ Rearmer(t) \/ Valider(t) \/ Envoyer(t) \/ Drainer(t)
    \/ Vidanger(t) \/ Partir(t) \/ Revenir(t)
    \/ Viser(t) \/ RevenirDuRdv(t) \/ RendreBus(t)

-----------------------------------------------------------------------------
(***************************************************************************)
(* The chip and the sleep task.                                            *)
(***************************************************************************)
\* A frame is received, and acknowledged, while the chip listens to the link.
RecevoirTrame ==
    /\ puce.alim /\ puce.ce /\ puce.cible = "lien"
    /\ Len(fifo) < FifoCap
    /\ fifo' = Append(fifo, \E t \in Clients :
                               appel[t].lieu \in {"partir", "revenir"})
    /\ UNCHANGED <<owner, puce, sleep, appel, gen, surAir, autres>>

\* veille_task reads the vetoes once, then calls the sleep hooks.
DeciderVeille ==
    /\ ~endormie /\ ~decision /\ ~veto
    /\ ~aConcilier /\ appel["reveil"] = Repos
    /\ decision' = TRUE
    /\ UNCHANGED <<owner, chip, endormie, verrouSommeil, appel, gen, surAir, autres>>

\* radio_sleep waits 50 ms for the lock: every section is shorter, except a
\* pairing round.  The chip is powered down with the lock or without it.
Dormir ==
    /\ decision
    /\ verrou \in {"libre", "pairing"}
    /\ verrouSommeil' = (verrou = "libre")
    /\ verrou' = IF verrou = "libre" THEN "veille" ELSE verrou
    /\ puce' = Registres(puce.mode, puce.cible, FALSE, FALSE)
    /\ endormie' = TRUE
    /\ decision' = FALSE
    /\ UNCHANGED <<reglage, fifo, appel, gen, surAir, autres>>

\* radio_wake: power up, the current mode again, the lock if it was taken.
Reveiller ==
    /\ endormie
    /\ Appliquer(reglage)
    /\ endormie' = FALSE
    /\ verrouSommeil' = FALSE
    /\ verrou' = IF verrouSommeil THEN "libre" ELSE verrou
    /\ aConcilier' = TRUE
    /\ UNCHANGED <<decision, appel, gen, surAir, veto, moitie, depassees>>

-----------------------------------------------------------------------------
Next == \/ Changer \/ Concilier \/ Repeter
        \/ \E r \in Reglages : Regler(r)
        \/ \E t \in Clients, type \in Operations : Demander(t, type)
        \/ Appairer \/ FinAppairage
        \/ \E t \in Clients : Client(t)
        \/ RecevoirTrame
        \/ DeciderVeille \/ Dormir \/ Reveiller

\* A client that has called goes on: no section waits for anything.
Fairness == \A t \in Clients : WF_vars(Client(t))

Spec == Init /\ [][Next]_vars /\ Fairness

-----------------------------------------------------------------------------
(***************************************************************************)
(* Properties.                                                             *)
(***************************************************************************)
\* Awake and with nobody in a section, the chip is in the owner's mode toward
\* the owner's target: no excursion, round, sleep or abandoned call leaves it
\* on a channel that the owner does not know of.
ChipFollowsOwner ==
    verrou = "libre" /\ ~endormie =>
        /\ puce.mode = reglage.mode
        /\ puce.cible = reglage.cible
        /\ puce.alim

\* What goes on air never goes back to an older half-matrix: a repeat is not
\* sent after the change that overtook it while it waited for the lock.  The
\* left half has one exception, which it does not check: its scan callback and
\* its sleep task change the half-matrix at once after a wake, and the change
\* published first takes the lock last (matrix_wake_reconcile, kbd_relay_tx.c).
OnAirInOrder ==
    [][surAir' < surAir => surAir' \in depassees]_vars

\* An excursion flushes no frame received before it: those went to the consumer.
DrainedBeforeLeaving ==
    [][\A t \in Clients :
          Revenir(t) => \A i \in DOMAIN fifo : fifo[i]]_vars

\* The lock is always given back, by every return of every section; only a
\* sleeping half keeps it.
LockComesBack == []<>(verrou = "libre" \/ endormie)
=============================================================================
