------------------------------- MODULE TrrsLink -------------------------------
(***************************************************************************)
(* The wired link between the halves: a 5 V switch on each side, closed    *)
(* after a verified exchange only, held by keepalives, opened by silence,  *)
(* by the loss of the source and by a restart; and the UART that each half *)
(* gives up while it sleeps.                                               *)
(*                                                                         *)
(* A tick is a round of deadlines (100 ms); the link task runs at least    *)
(* once between two ticks unless it rests, and at once on a byte.  An age  *)
(* is counted in the states that read it, up to the deadline it is         *)
(* compared with.  The frames on the wire toward a half are a set: two     *)
(* probes received together are one.                                       *)
(***************************************************************************)
EXTENDS Integers

CONSTANTS
    ProbeTimeout, PeerTimeout, Reprobe, Keepalive,  \* LINK_HS_*_MS, in ticks
    Dormeuses,                                      \* the halves that sleep
    Sources                                         \* those a host may feed

Halves == {"gauche", "droite"}
Autre(h) == IF h = "gauche" THEN "droite" ELSE "gauche"

ASSUME DelaisAssumption ==
    /\ ProbeTimeout \in Nat \ {0} /\ PeerTimeout \in Nat \ {0}
    /\ Reprobe \in Nat \ {0} /\ Keepalive \in Nat \ {0}
ASSUME HalvesAssumption == Dormeuses \subseteq Halves /\ Sources \subseteq Halves

VARIABLES
    hs,          \* s_hs of each half
    fil,         \* the frames on their way to each half
    ronde,       \* the link task has run since the last tick
    prise,       \* the half has 5 V to give: a cable, and its battery is not low
    trrs,        \* the cable between the halves
    emis,        \* age of the last frame each half put on the cable
    veille,      \* where each half's sleep task stands
    tache,       \* where its link task stands: in its loop, parked, resuming
    demande,     \* s_park_req
    garee,       \* s_parked
    sentinelle,  \* LINK_EV_PARK waits in the driver's queue
    notif,       \* the task's notification is latched
    bonne        \* no frame is lost and no half restarts any more

parc == <<demande, garee, sentinelle, notif>>
vars == <<hs, fil, ronde, prise, trrs, emis, veille, tache, parc, bonne>>

Trames == {"PROBE", "ACK"}
Etats == {"IDLE", "PROBING", "UP"}
Handshake ==
    [state : Etats, usb : BOOLEAN, en_5v : BOOLEAN,
     since : Nat, last_peer : Nat, last_probe : Nat]

TypeOK ==
    /\ hs \in [Halves -> Handshake]
    /\ \A h \in Halves : hs[h].en_5v <=> hs[h].state = "UP"
    /\ fil \in [Halves -> SUBSET Trames]
    /\ ronde \in [Halves -> BOOLEAN] /\ prise \in [Halves -> BOOLEAN]
    /\ trrs \in BOOLEAN /\ bonne \in BOOLEAN
    /\ emis \in [Halves -> Nat]
    /\ veille \in [Halves -> {"eveil", "lus", "attend", "dort"}]
    /\ tache \in [Halves -> {"boucle", "garee", "reprise"}]
    /\ demande \in [Halves -> BOOLEAN] /\ garee \in [Halves -> BOOLEAN]
    /\ sentinelle \in [Halves -> BOOLEAN] /\ notif \in [Halves -> BOOLEAN]

\* link_hs_init: everything off; nothing has been heard or sent for long.
link_hs_init ==
    [state |-> "IDLE", usb |-> FALSE, en_5v |-> FALSE,
     since |-> 0, last_peer |-> 0, last_probe |-> Keepalive]

Partout(v) == [h \in Halves |-> v]

Init ==
    /\ hs = Partout(link_hs_init) /\ fil = Partout({})
    /\ ronde = Partout(FALSE) /\ prise = Partout(FALSE)
    /\ trrs \in BOOLEAN /\ emis = Partout(PeerTimeout)
    /\ veille = Partout("eveil") /\ tache = Partout("boucle")
    /\ demande = Partout(FALSE) /\ garee = Partout(FALSE)
    /\ sentinelle = Partout(FALSE) /\ notif = Partout(FALSE)
    /\ bonne = FALSE

-----------------------------------------------------------------------------
(***************************************************************************)
(* link_hs_step: the handshake after one event, and the frame it sends.    *)
(***************************************************************************)
Vers(s, etat, en) ==
    [s EXCEPT !.state = etat, !.since = 0, !.last_peer = 0, !.en_5v = en]

\* Silence of the peer.  (Mistaken: while we have current to give, whoever is
\* in front is assumed to be there still.)
SilenceSiReceveur(s) == s.last_peer >= PeerTimeout /\ ~s.usb
Silence(s) == s.last_peer >= PeerTimeout

\* The probe repeated while idle, and the keepalive.  (Mistaken: an
\* established link is not probed.)
SonderAuReposSeulement(s) ==
    s.usb /\ s.state = "IDLE" /\ s.since >= Reprobe
ASonder(s) ==
    /\ s.usb
    /\ \/ s.state = "IDLE" /\ s.since >= Reprobe
       \/ s.state = "UP" /\ ~Silence(s) /\ s.last_probe >= Keepalive

\* The cable of the host: its loss opens, its arrival probes from IDLE.
SurUsb(s, present) ==
    IF ~present THEN Vers([s EXCEPT !.usb = FALSE], "IDLE", FALSE)
    ELSE IF s.state = "IDLE"
         THEN Vers([s EXCEPT !.usb = TRUE, !.last_probe = 0], "PROBING", FALSE)
    ELSE [s EXCEPT !.usb = TRUE]

\* A probe closes from any state, an answer to ours from PROBING.
Verifie(s, recues) ==
    "PROBE" \in recues \/ ("ACK" \in recues /\ s.state = "PROBING")

SurTrames(s, recues) ==
    IF Verifie(s, recues) THEN Vers(s, "UP", TRUE)
    ELSE IF recues # {} THEN [s EXCEPT !.last_peer = 0]
    ELSE s

Rouvrir(s) == Vers(s, "IDLE", FALSE)

SurTick(s) ==
    IF s.state = "PROBING" /\ s.since >= ProbeTimeout
       THEN [s EXCEPT !.state = "IDLE", !.since = 0]
    ELSE IF s.state = "UP" /\ Silence(s) THEN Rouvrir(s)
    ELSE IF s.state = "IDLE" /\ ASonder(s)
       THEN Vers([s EXCEPT !.last_probe = 0], "PROBING", s.en_5v)
    ELSE IF ASonder(s) THEN [s EXCEPT !.last_probe = 0]
    ELSE s

-----------------------------------------------------------------------------
(***************************************************************************)
(* The link task.                                                          *)
(***************************************************************************)
Tourne(h) == veille[h] # "dort" /\ tache[h] = "boucle"
AuRepos(h) == hs[h].state = "IDLE" /\ ~hs[h].usb

\* What half h sends reaches the other one if the cable is there and its task
\* has its UART; a frame may be garbled, which the decoder skips.
Transmettre(h, trames) ==
    /\ \E recues \in SUBSET trames :
          /\ bonne => recues = trames
          /\ fil' = [fil EXCEPT
                ![h] = {},
                ![Autre(h)] = IF trrs /\ Tourne(Autre(h))
                              THEN @ \cup recues ELSE @]
    /\ emis' = [emis EXCEPT ![h] = IF trrs /\ trames # {} THEN 0 ELSE @]

\* One round of link_task: the edge of the host's cable, the frames received,
\* the tick.
Ronde(h) ==
    LET u == IF prise[h] # hs[h].usb THEN SurUsb(hs[h], prise[h]) ELSE hs[h]
        r == SurTrames(u, fil[h])
        t == SurTick(r)
        sonde == \/ u.state = "PROBING" /\ hs[h].state = "IDLE"
                 \/ ASonder(r)
    IN  /\ Tourne(h)
        /\ hs' = [hs EXCEPT ![h] = t]
        /\ Transmettre(h, {f \in Trames : \/ f = "PROBE" /\ sonde
                                          \/ f = "ACK" /\ "PROBE" \in fil[h]})
        /\ ronde' = [ronde EXCEPT ![h] = TRUE]
        /\ UNCHANGED <<prise, trrs, veille, tache, parc, bonne>>

\* The end of a round: the task takes the sentinel from its queue and gives
\* the driver back, unless the wake has already run.
\* (Mistaken: a late sentinel parks as well.)
GarerSansRelire(h) ==
    /\ Tourne(h) /\ sentinelle[h]
    /\ sentinelle' = [sentinelle EXCEPT ![h] = FALSE]
    /\ garee' = [garee EXCEPT ![h] = TRUE]
    /\ tache' = [tache EXCEPT ![h] = "garee"]
    /\ fil' = [fil EXCEPT ![h] = {}]
    /\ UNCHANGED <<hs, ronde, prise, trrs, emis, veille, demande, notif, bonne>>

Garer(h) ==
    /\ Tourne(h) /\ sentinelle[h]
    /\ sentinelle' = [sentinelle EXCEPT ![h] = FALSE]
    /\ \/ demande[h] /\ garee' = [garee EXCEPT ![h] = TRUE]
          /\ tache' = [tache EXCEPT ![h] = "garee"]
          /\ fil' = [fil EXCEPT ![h] = {}]
       \/ ~demande[h] /\ UNCHANGED <<garee, tache, fil>>
    /\ UNCHANGED <<hs, ronde, prise, trrs, emis, veille, demande, notif, bonne>>

\* Notified, the task reinstalls the driver, then says that it is no longer
\* parked.
Reprendre(h) ==
    /\ veille[h] # "dort" /\ tache[h] = "garee" /\ notif[h]
    /\ notif' = [notif EXCEPT ![h] = FALSE]
    /\ tache' = [tache EXCEPT ![h] = "reprise"]
    /\ UNCHANGED <<hs, fil, ronde, prise, trrs, emis, veille, demande, garee,
                   sentinelle, bonne>>

uart_up(h) ==
    /\ veille[h] # "dort" /\ tache[h] = "reprise"
    /\ tache' = [tache EXCEPT ![h] = "boucle"]
    /\ garee' = [garee EXCEPT ![h] = FALSE]
    /\ sentinelle' = [sentinelle EXCEPT ![h] = FALSE]
    /\ UNCHANGED <<hs, fil, ronde, prise, trrs, emis, veille, demande, notif,
                   bonne>>

\* The driver overflows on noise: the queue is reset, the sentinel with it.
Deborder(h) ==
    /\ ~bonne /\ Tourne(h) /\ (sentinelle[h] \/ fil[h] # {})
    /\ fil' = [fil EXCEPT ![h] = {}]
    /\ sentinelle' = [sentinelle EXCEPT ![h] = FALSE]
    /\ UNCHANGED <<hs, ronde, prise, trrs, emis, veille, tache, demande, garee,
                   notif, bonne>>

-----------------------------------------------------------------------------
(***************************************************************************)
(* The sleep task and its hooks.                                           *)
(***************************************************************************)
\* The vetoes are read once: a closed switch (LIEN) and a host (USB) forbid
\* sleep.
LireVetos(h) ==
    /\ h \in Dormeuses /\ veille[h] = "eveil"
    /\ ~hs[h].en_5v /\ ~prise[h]
    /\ veille' = [veille EXCEPT ![h] = "lus"]
    /\ UNCHANGED <<hs, fil, ronde, prise, trrs, emis, tache, parc, bonne>>

\* link_sleep: unless the switch has been closed since or the driver is gone,
\* ask the task to park and wait; a full queue sleeps with the driver.
link_sleep(h) ==
    /\ veille[h] = "lus"
    /\ \/ /\ hs[h].en_5v \/ tache[h] # "boucle"
          /\ veille' = [veille EXCEPT ![h] = "dort"]
          /\ fil' = [fil EXCEPT ![h] = {}]
          /\ UNCHANGED parc
       \/ /\ ~hs[h].en_5v /\ tache[h] = "boucle"
          /\ demande' = [demande EXCEPT ![h] = TRUE]
          /\ \/ veille' = [veille EXCEPT ![h] = "attend"]
                /\ sentinelle' = [sentinelle EXCEPT ![h] = TRUE]
                /\ fil' = fil
             \/ veille' = [veille EXCEPT ![h] = "dort"]
                /\ sentinelle' = sentinelle
                /\ fil' = [fil EXCEPT ![h] = {}]
          /\ UNCHANGED <<garee, notif>>
    /\ UNCHANGED <<hs, ronde, prise, trrs, emis, tache, bonne>>

\* The task has parked, or 100 ms have passed.
Dormir(h) ==
    /\ veille[h] = "attend"
    /\ veille' = [veille EXCEPT ![h] = "dort"]
    /\ fil' = [fil EXCEPT ![h] = {}]
    /\ UNCHANGED <<hs, ronde, prise, trrs, emis, tache, parc, bonne>>

link_wake(h) ==
    /\ veille[h] = "dort"
    /\ veille' = [veille EXCEPT ![h] = "eveil"]
    /\ demande' = [demande EXCEPT ![h] = FALSE]
    /\ notif' = [notif EXCEPT ![h] = @ \/ garee[h]]
    /\ ronde' = [ronde EXCEPT ![h] = FALSE]
    /\ UNCHANGED <<hs, fil, prise, trrs, emis, tache, garee, sentinelle, bonne>>

\* A restart: the pin is driven low first, everything starts over.
link_uart_start(h) ==
    /\ ~bonne
    /\ hs' = [hs EXCEPT ![h] = link_hs_init]
    /\ fil' = [fil EXCEPT ![h] = {}]
    /\ ronde' = [ronde EXCEPT ![h] = FALSE]
    /\ veille' = [veille EXCEPT ![h] = "eveil"]
    /\ tache' = [tache EXCEPT ![h] = "boucle"]
    /\ demande' = [demande EXCEPT ![h] = FALSE]
    /\ garee' = [garee EXCEPT ![h] = FALSE]
    /\ sentinelle' = [sentinelle EXCEPT ![h] = FALSE]
    /\ notif' = [notif EXCEPT ![h] = FALSE]
    /\ UNCHANGED <<prise, trrs, emis, bonne>>

-----------------------------------------------------------------------------
(***************************************************************************)
(* Time and the hands of the user.                                         *)
(***************************************************************************)
EnRetard(h) == Tourne(h) /\ (fil[h] # {} \/ (~ronde[h] /\ ~AuRepos(h)))

Vieillir(age, borne) == IF age < borne THEN age + 1 ELSE age

Vieux(s) ==
    [s EXCEPT
        !.since = CASE s.state = "PROBING"       -> Vieillir(@, ProbeTimeout)
                    [] s.state = "IDLE" /\ s.usb -> Vieillir(@, Reprobe)
                    [] OTHER                     -> @,
        !.last_peer = IF s.state = "UP" THEN Vieillir(@, PeerTimeout) ELSE @,
        !.last_probe = Vieillir(@, Keepalive)]

Tick ==
    /\ \A h \in Halves : ~EnRetard(h)
    /\ hs' = [h \in Halves |-> Vieux(hs[h])]
    /\ emis' = [h \in Halves |-> Vieillir(emis[h], PeerTimeout)]
    /\ ronde' = Partout(FALSE)
    /\ UNCHANGED <<fil, prise, trrs, veille, tache, parc, bonne>>

Prendre(h) ==
    /\ h \in Sources
    /\ prise' = [prise EXCEPT ![h] = ~@]
    /\ UNCHANGED <<hs, fil, ronde, trrs, emis, veille, tache, parc, bonne>>

\* What was on a cable that is pulled is lost.
Brancher ==
    /\ trrs' = ~trrs
    /\ fil' = Partout({})
    /\ UNCHANGED <<hs, ronde, prise, emis, veille, tache, parc, bonne>>

Assainir ==
    /\ ~bonne /\ bonne' = TRUE
    /\ UNCHANGED <<hs, fil, ronde, prise, trrs, emis, veille, tache, parc>>

Tache(h) == Ronde(h) \/ Garer(h) \/ Reprendre(h) \/ uart_up(h) \/ Deborder(h)
Sommeil(h) == LireVetos(h) \/ link_sleep(h) \/ Dormir(h) \/ link_wake(h)

Next ==
    \/ \E h \in Halves :
          Tache(h) \/ Sommeil(h) \/ link_uart_start(h) \/ Prendre(h)
    \/ Tick \/ Brancher \/ Assainir

\* Every task runs, time passes, a sleep that has begun ends.
Fairness ==
    /\ WF_vars(Tick)
    /\ \A h \in Halves :
          /\ WF_vars(Ronde(h)) /\ SF_vars(Garer(h))
          /\ WF_vars(Reprendre(h)) /\ WF_vars(uart_up(h))
          /\ WF_vars(link_sleep(h)) /\ WF_vars(Dormir(h))

Spec == Init /\ [][Next]_vars /\ Fairness

-----------------------------------------------------------------------------
(***************************************************************************)
(* Properties.                                                             *)
(***************************************************************************)
\* A switch is closed on the word of a peer that is still there: once its task
\* has had its round, a half that gives or takes 5 V has in front of it a half
\* that put a frame on the cable less than PeerTimeout ago, whatever was cut,
\* restarted, put to sleep or lost in the meantime.
ClosedIsVerified ==
    \A h \in Halves :
        hs[h].en_5v /\ ronde[h] => emis[Autre(h)] < PeerTimeout

\* On a cable that loses nothing, between two halves that stay awake, the
\* 5 V of a source comes and stays.
EventuallyPowered ==
    \A h \in Halves :
        <>[](/\ bonne /\ trrs /\ prise[h]
             /\ \A g \in Halves : veille[g] = "eveil" /\ prise[g] = (g = h))
        => <>[](\A g \in Halves : hs[g].en_5v)

\* A half that does not sleep any more listens, in whatever order the sentinel,
\* its deadline and the wake have crossed.
AwakeListens ==
    \A h \in Halves :
        <>[](veille[h] = "eveil") => <>[](tache[h] = "boucle")
=============================================================================
