------------------------------- MODULE HalfLink -------------------------------
(***************************************************************************)
(* The right half sends its matrix over a link that loses frames, toward   *)
(* one of two listeners: the dongle, or the left half on USB when the      *)
(* dongle is gone.  Two tasks send: "scan" publishes a change and sends it *)
(* at once, "refresh" repeats it a bounded number of times, reaffirms what *)
(* is held and adds the battery gauge.  A listener releases what it was    *)
(* told is held when nothing has been heard for Delai.                     *)
(*                                                                         *)
(* What a listener heard and who acknowledged are not the same thing: the  *)
(* chip of a listener acknowledges any frame, its software understands     *)
(* only its own format, and an acknowledgement can be lost.                *)
(*                                                                         *)
(* One tick is one round of the refresh task while a key is held; a send   *)
(* (13 ms at most) is shorter.  The generation of the state is compared    *)
(* for equality only, so a frame carries the result of that comparison.    *)
(***************************************************************************)
EXTENDS Integers

CONSTANTS
    Bitmaps, Vide,   \* the states of the half-matrix; nothing is pressed
    Rafraichir,      \* ticks between two reaffirmations (HALF_TX_REFRESH_MS)
    Delai,           \* ticks of silence (HALF_LINK_TIMEOUT_MS)
    Repos,           \* ticks between two rounds at rest (HALF_TX_REPOS_MS)
    Repeats,         \* HALF_TX_REPEATS
    Seuil,           \* HALF_TX_SWITCH_FAILS
    MaxManques,      \* bound: how many missed matrices the history counts
    VerrouTenu       \* may another task hold the radio lock 50 ms long?

ASSUME VideAssumption == Vide \in Bitmaps
ASSUME CountAssumption ==
    /\ Rafraichir \in Nat \ {0} /\ Delai \in Nat \ {0}
    /\ Repos \in Nat \ {0} /\ Seuil \in Nat \ {0}
    /\ Repeats \in Nat /\ MaxManques \in Nat
ASSUME VerrouAssumption == VerrouTenu \in BOOLEAN
\* What the constants of half_link.h and cadence.h are to each other: 100 ms,
\* 400 ms, 100 ms and three repeats.
ASSUME CadenceAssumption ==
    /\ Delai > 3 * Rafraichir /\ Repos <= 2 * Rafraichir
    /\ Repeats >= 2 /\ MaxManques >= 3

Taches == {"scan", "refresh"}
Cibles == {"dongle", "gauche"}
Autre(c) == IF c = "dongle" THEN "gauche" ELSE "dongle"

\* A send: the frame (status carries no matrix), whether its state is still
\* the current one, whether it was acknowledged, the target to switch to.
Envois == [lieu : {"repos", "emettre", "compter", "basculer", "jauge", "fin"},
           type : {"matrice", "status"}, format : Cibles, contenu : Bitmaps,
           frais : BOOLEAN, ack : BOOLEAN, vers : Cibles]

VARIABLES
    etat,       \* s_etat_local
    restantes,  \* s_rep
    depuis,     \* ticks since s_dernier_tx_ms, at most Rafraichir
    cible, sansAck,  \* s_tx_fsm
    puce,       \* the target of the chip
    envoi,      \* the send each task is in
    attente,    \* ticks until the next round of the refresh task
    notifie,    \* its notification
    ecoute,     \* the listeners that are there
    entendu,    \* what each listener holds
    age,        \* ticks since it last heard of it
    manques,    \* matrices it missed since then (history, at most MaxManques)
    bonne       \* the link loses nothing any more

decision == <<etat, restantes, depuis>>
repli    == <<cible, sansAck>>
cadence  == <<attente, notifie>>
listener == <<ecoute, entendu, age, manques>>
vars == <<decision, repli, puce, envoi, cadence, listener, bonne>>

TypeOK ==
    /\ etat \in Bitmaps
    /\ restantes \in 0 .. Repeats
    /\ depuis \in 0 .. Rafraichir
    /\ cible \in Cibles /\ sansAck \in 0 .. Seuil - 1
    /\ puce \in Cibles
    /\ envoi \in [Taches -> Envois]
    /\ attente \in Nat /\ notifie \in BOOLEAN
    /\ ecoute \in SUBSET Cibles
    /\ entendu \in [Cibles -> Bitmaps]
    /\ age \in [Cibles -> 0 .. Delai]
    /\ manques \in [Cibles -> 0 .. MaxManques]
    /\ bonne \in BOOLEAN

Envoi(lieu, type, format, contenu, frais, ack, vers) ==
    [lieu |-> lieu, type |-> type, format |-> format, contenu |-> contenu,
     frais |-> frais, ack |-> ack, vers |-> vers]

\* At a place where the frame does not matter any more.
En(lieu, type, ack, vers) == Envoi(lieu, type, "dongle", Vide, TRUE, ack, vers)
Rien == En("repos", "matrice", FALSE, "dongle")
Jauger == En("jauge", "matrice", FALSE, "dongle")
Finir == En("fin", "matrice", FALSE, "dongle")

\* half_link_tx_init; the listeners hold nothing.
Init ==
    /\ etat = Vide /\ restantes = 0 /\ depuis = 0
    /\ cible = "dongle" /\ sansAck = 0 /\ puce = "dongle"
    /\ envoi = [t \in Taches |-> Rien]
    /\ attente = 0 /\ notifie = FALSE
    /\ ecoute \in SUBSET Cibles
    /\ entendu = [l \in Cibles |-> Vide]
    /\ age = [l \in Cibles |-> 0]
    /\ manques = [l \in Cibles |-> 0]
    /\ bonne = FALSE

-----------------------------------------------------------------------------
(***************************************************************************)
(* Deciding, under s_etat_mux, then building the frame: the format is that *)
(* of the target of the moment, read without the lock.                     *)
(***************************************************************************)
Trame(type, b) == Envoi("emettre", type, cible, b, TRUE, FALSE, "dongle")

\* What a task was about to send is not the state any more.
Perimer(e) ==
    IF e.lieu = "emettre"
    THEN Envoi(e.lieu, e.type, e.format, e.contenu, FALSE, e.ack, e.vers)
    ELSE e

\* half_link_tx_update(bitmap, true): a send of the other task that carries
\* the previous state becomes stale.
Changer(b) ==
    /\ envoi["scan"].lieu = "repos"
    /\ b # etat
    /\ etat' = b
    /\ restantes' = Repeats
    /\ depuis' = 0
    /\ envoi' = [scan |-> Trame("matrice", b),
                 refresh |-> Perimer(envoi["refresh"])]
    /\ notifie' = TRUE
    /\ UNCHANGED <<repli, puce, attente, listener, bonne>>

\* (Mistaken: only a change and its repair are sent.)
JamaisReaffirmer == FALSE

\* (Mistaken: rest is reaffirmed too.)
ReaffirmerTout == depuis = Rafraichir

\* half_tx_doit_emettre: a hold is reaffirmed, rest is silent.
Reaffirmer == etat # Vide /\ depuis = Rafraichir

DoitEmettre == restantes > 0 \/ Reaffirmer

\* A round of the refresh task: half_link_tx_update(NULL, false).
Ronde ==
    /\ envoi["refresh"].lieu = "repos"
    /\ attente = 0 \/ notifie
    /\ notifie' = FALSE
    /\ restantes' = IF restantes > 0 THEN restantes - 1 ELSE 0
    /\ IF DoitEmettre
       THEN /\ depuis' = 0
            /\ envoi' = [envoi EXCEPT !["refresh"] = Trame("matrice", etat)]
       ELSE /\ envoi' = [envoi EXCEPT !["refresh"] = Jauger]
            /\ UNCHANGED depuis
    /\ UNCHANGED <<etat, repli, puce, attente, listener, bonne>>

\* half_link_batt_tick, from time to time.
Jauge ==
    /\ envoi["refresh"].lieu = "jauge"
    /\ envoi' = [envoi EXCEPT !["refresh"] = Trame("status", Vide)]
    /\ UNCHANGED <<decision, repli, puce, cadence, listener, bonne>>

\* The task waits: a short time while something is held.
FinRonde ==
    /\ envoi["refresh"].lieu \in {"jauge", "fin"}
    /\ envoi' = [envoi EXCEPT !["refresh"] = Rien]
    /\ attente' = IF etat # Vide THEN 1 ELSE Repos
    /\ UNCHANGED <<decision, repli, puce, notifie, listener, bonne>>

-----------------------------------------------------------------------------
(***************************************************************************)
(* Sending: half_link_tx_frame_si.                                         *)
(***************************************************************************)
Apres(t) == IF t = "scan" THEN Rien
            ELSE IF envoi[t].type = "matrice" THEN Jauger ELSE Finir

Suite(t) == envoi' = [envoi EXCEPT ![t] = Apres(t)]

\* radio_emettre refuses a state overtaken while the task waited for the lock.
\* (Mistaken: nothing is ever overtaken.)
ToujoursValide(t) == TRUE

Valide(t) == envoi[t].frais

Perime(t) ==
    /\ envoi[t].lieu = "emettre"
    /\ ~Valide(t)
    /\ Suite(t)
    /\ UNCHANGED <<decision, repli, puce, cadence, listener, bonne>>

Un(n) == IF n < MaxManques THEN n + 1 ELSE n

\* What the listener of the chip's target makes of a frame it received: it
\* takes the matrix of its own format and lets the rest go.
Recevoir(t, recu) ==
    LET pris(l) == recu /\ l = puce /\ envoi[t].format = l
    IN IF envoi[t].type = "matrice"
       THEN /\ entendu' = [l \in Cibles |->
                              IF pris(l) THEN envoi[t].contenu ELSE entendu[l]]
            /\ age' = [l \in Cibles |-> IF pris(l) THEN 0 ELSE age[l]]
            /\ manques' = [l \in Cibles |->
                              IF entendu'[l] = Vide \/ pris(l) THEN 0
                              ELSE Un(manques[l])]
       ELSE UNCHANGED <<entendu, age, manques>>

\* The frame is received or lost, and the acknowledgement too.
Emettre(t, recu, ack) ==
    /\ envoi[t].lieu = "emettre"
    /\ Valide(t)
    /\ recu => puce \in ecoute
    /\ ack => recu
    /\ bonne /\ puce \in ecoute => ack
    /\ Recevoir(t, recu)
    /\ envoi' = [envoi EXCEPT ![t] =
                   En("compter", envoi[t].type, ack, "dongle")]
    /\ UNCHANGED <<decision, repli, puce, cadence, ecoute, bonne>>

\* (Mistaken: the target never moves.)
CompterSansBasculer(t) ==
    /\ envoi[t].lieu = "compter"
    /\ sansAck' = IF envoi[t].ack \/ sansAck + 1 >= Seuil THEN 0 ELSE sansAck + 1
    /\ Suite(t)
    /\ UNCHANGED <<decision, cible, puce, cadence, listener, bonne>>

\* half_tx_target_step, under s_etat_mux.  While one task applies a switch the
\* other cannot reach the next one: that takes Seuil sends.
Compter(t) ==
    /\ envoi[t].lieu = "compter"
    /\ LET bascule == ~envoi[t].ack /\ sansAck + 1 >= Seuil
       IN /\ bascule => \A u \in Taches : envoi[u].lieu # "basculer"
          /\ sansAck' = IF envoi[t].ack \/ bascule THEN 0 ELSE sansAck + 1
          /\ IF bascule
             THEN /\ cible' = Autre(cible)
                  /\ envoi' = [envoi EXCEPT ![t] =
                                 En("basculer", envoi[t].type, FALSE, cible')]
             ELSE Suite(t) /\ UNCHANGED cible
    /\ UNCHANGED <<decision, puce, cadence, listener, bonne>>

\* radio_mode_set; its result is not looked at.
Basculer(t) ==
    /\ envoi[t].lieu = "basculer"
    /\ \/ puce' = envoi[t].vers
       \/ VerrouTenu /\ UNCHANGED puce
    /\ Suite(t)
    /\ UNCHANGED <<decision, repli, cadence, listener, bonne>>

-----------------------------------------------------------------------------
(***************************************************************************)
(* The listeners, the link and time.                                       *)
(***************************************************************************)
\* half_state_timeout: what was held is released, once.
Silence(l) ==
    /\ entendu[l] # Vide
    /\ age[l] = Delai
    /\ entendu' = [entendu EXCEPT ![l] = Vide]
    /\ age' = [age EXCEPT ![l] = 0]
    /\ manques' = [manques EXCEPT ![l] = 0]
    /\ UNCHANGED <<decision, repli, puce, envoi, cadence, ecoute, bonne>>

\* The dongle is unplugged, or the left half leaves USB and releases the keys
\* of the right one.
Partir(l) ==
    /\ l \in ecoute
    /\ ecoute' = ecoute \ {l}
    /\ entendu' = [entendu EXCEPT ![l] = Vide]
    /\ age' = [age EXCEPT ![l] = 0]
    /\ manques' = [manques EXCEPT ![l] = 0]
    /\ UNCHANGED <<decision, repli, puce, envoi, cadence, bonne>>

Revenir(l) ==
    /\ l \notin ecoute
    /\ ecoute' = ecoute \cup {l}
    /\ UNCHANGED <<decision, repli, puce, envoi, cadence, entendu, age, manques,
                   bonne>>

Assainir ==
    /\ ~bonne
    /\ bonne' = TRUE
    /\ UNCHANGED <<decision, repli, puce, envoi, cadence, listener>>

\* Time goes on when every task waits and nothing is due.
Tick ==
    /\ \A t \in Taches : envoi[t].lieu = "repos"
    /\ ~notifie /\ attente > 0
    /\ \A l \in Cibles : entendu[l] # Vide => age[l] < Delai
    /\ attente' = attente - 1
    /\ depuis' = IF depuis < Rafraichir THEN depuis + 1 ELSE depuis
    /\ age' = [l \in Cibles |-> IF entendu[l] # Vide THEN age[l] + 1 ELSE 0]
    /\ UNCHANGED <<etat, restantes, repli, puce, envoi, notifie, ecoute, entendu,
                   manques, bonne>>

-----------------------------------------------------------------------------
Envoyer(t) ==
    \/ Perime(t)
    \/ \E recu, ack \in BOOLEAN : Emettre(t, recu, ack)
    \/ Compter(t) \/ Basculer(t)

Next ==
    \/ \E b \in Bitmaps : Changer(b)
    \/ Ronde \/ Jauge \/ FinRonde
    \/ \E t \in Taches : Envoyer(t)
    \/ \E l \in Cibles : Silence(l) \/ Partir(l) \/ Revenir(l)
    \/ Assainir \/ Tick

\* The tasks run, the refresh task ends its rounds, the listeners look at the
\* time and time passes.
Fairness ==
    /\ WF_vars(Ronde) /\ WF_vars(FinRonde) /\ WF_vars(Tick)
    /\ \A t \in Taches : WF_vars(Envoyer(t))
    /\ \A l \in Cibles : WF_vars(Silence(l))

Spec == Init /\ [][Next]_vars /\ Fairness

-----------------------------------------------------------------------------
(***************************************************************************)
(* Properties.                                                             *)
(***************************************************************************)
\* A listener releases a half that holds something only after at least three
\* of its matrices missed that listener: no order of rounds, changes, stale
\* sends and deadlines makes it release a key on two losses.
HoldSurvives ==
    [][\A l \in Cibles : Silence(l) /\ etat # Vide => manques[l] >= 3]_vars

\* A listener never hears a state that the half has already left: a release is
\* not undone by a repeat that was waiting for the radio.
NoResurrection ==
    [][\A l \in Cibles : entendu'[l] # entendu[l] => entendu'[l] \in {etat, Vide}]_vars

\* Once the link is good and one listener is there, whichever it is, it ends
\* up holding the state of the half, whatever was lost, sent to the other one
\* or acknowledged without being understood.
EventuallyHeard ==
    \A l \in Cibles, b \in Bitmaps :
        <>[](etat = b /\ bonne /\ ecoute = {l}) => <>[](entendu[l] = b)

\* Rest ends up silent: with nothing pressed the half stops sending matrices.
QuietAtRest ==
    <>[](etat = Vide)
        => <>[](\A t \in Taches : envoi[t].lieu = "emettre" => envoi[t].type = "status")
=============================================================================
