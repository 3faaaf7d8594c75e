--------------------------- MODULE TrrsLink_proofs ---------------------------
(***************************************************************************)
(* Proofs about TrrsLink, for every value of the deadlines and whichever   *)
(* halves sleep or have a host: its type invariant, and that a switch is   *)
(* closed on the word of a peer heard less than PeerTimeout ago.  The      *)
(* second rests on what each half has in front of it: a frame on the wire  *)
(* is younger than a tick, and no silence is counted shorter than it is.   *)
(***************************************************************************)
EXTENDS TrrsLink, TLAPS

\* The command of the switch agrees with the state.
Accorde(s) == s.en_5v <=> s.state = "UP"

-----------------------------------------------------------------------------
(***************************************************************************)
(* The handshake, event by event: what it keeps of its type, and what an   *)
(* established link says of the silence it has counted.                    *)
(***************************************************************************)
LEMMA UsbFacts ==
    ASSUME NEW s \in Handshake, Accorde(s), NEW p \in BOOLEAN
    PROVE  LET u == SurUsb(s, p) IN
           /\ u \in Handshake /\ Accorde(u)
           /\ u.state = "UP" => s.state = "UP" /\ u.last_peer = s.last_peer
BY DEF SurUsb, Vers, Handshake, Etats, Accorde

LEMMA TramesFacts ==
    ASSUME NEW s \in Handshake, Accorde(s), NEW recues \in SUBSET Trames
    PROVE  LET r == SurTrames(s, recues) IN
           /\ r \in Handshake /\ Accorde(r)
           /\ r.state = "UP" =>
                 \/ recues # {} /\ r.last_peer = 0
                 \/ s.state = "UP" /\ r.last_peer = s.last_peer
BY DEF SurTrames, Verifie, Vers, Handshake, Etats, Accorde, Trames

LEMMA TickFacts ==
    ASSUME NEW s \in Handshake, Accorde(s)
    PROVE  LET t == SurTick(s) IN
           /\ t \in Handshake /\ Accorde(t)
           /\ t.state = "UP" => /\ s.state = "UP" /\ t.last_peer = s.last_peer
                                /\ t.last_peer < PeerTimeout
<1>1. CASE s.state = "PROBING" /\ s.since >= ProbeTimeout
  BY <1>1 DEF SurTick, Handshake, Etats, Accorde
<1>2. CASE s.state = "PROBING" /\ ~(s.since >= ProbeTimeout)
  BY <1>2 DEF SurTick, ASonder, Accorde
<1>3. CASE s.state = "UP" /\ Silence(s)
  BY <1>3 DEF SurTick, Rouvrir, Vers, Handshake, Etats, Accorde
<1>4. CASE s.state = "UP" /\ ~Silence(s)
  <2>1. s.last_peer < PeerTimeout
    BY <1>4, DelaisAssumption DEF Silence, Handshake
  <2>2. CASE ASonder(s)
    BY <1>4, <2>1, <2>2 DEF SurTick, Handshake, Accorde
  <2>3. CASE ~ASonder(s)
    BY <1>4, <2>1, <2>3 DEF SurTick, Accorde
  <2>. QED  BY <2>2, <2>3
<1>5. CASE s.state = "IDLE" /\ ASonder(s)
  BY <1>5 DEF SurTick, Vers, Handshake, Etats, Accorde
<1>6. CASE s.state = "IDLE" /\ ~ASonder(s)
  BY <1>6 DEF SurTick, Accorde
<1>. QED  BY <1>1, <1>2, <1>3, <1>4, <1>5, <1>6 DEF Handshake, Etats

LEMMA VieillirFacts ==
    ASSUME NEW a \in Nat, NEW b \in Nat
    PROVE  /\ Vieillir(a, b) \in Nat
           /\ \A c \in Nat : c <= a => Vieillir(c, b) <= Vieillir(a, b)
BY DEF Vieillir

LEMMA VieuxFacts ==
    ASSUME NEW s \in Handshake, Accorde(s)
    PROVE  /\ Vieux(s) \in Handshake /\ Accorde(Vieux(s))
           /\ Vieux(s).state = s.state
           /\ s.state = "UP" =>
                 Vieux(s).last_peer = Vieillir(s.last_peer, PeerTimeout)
<1>1. /\ Vieillir(s.since, ProbeTimeout) \in Nat
      /\ Vieillir(s.since, Reprobe) \in Nat
      /\ Vieillir(s.last_peer, PeerTimeout) \in Nat
      /\ Vieillir(s.last_probe, Keepalive) \in Nat
  BY VieillirFacts, DelaisAssumption DEF Handshake
<1>. QED  BY <1>1 DEF Vieux, Handshake, Etats, Accorde

-----------------------------------------------------------------------------
(***************************************************************************)
(* The inductive invariant.                                                *)
(***************************************************************************)
\* A task that does not run has nothing on its wire; what is on a wire was put
\* there within the tick; a link that is up has counted no less silence than
\* its peer has kept, and after its round not too much.
FilVide(h) == ~Tourne(h) => fil[h] = {}
FilFrais(h) == fil[h] # {} => emis[Autre(h)] = 0
Compte(h) == hs[h].state = "UP" => emis[Autre(h)] <= hs[h].last_peer
Juge(h) == ronde[h] /\ hs[h].state = "UP" => hs[h].last_peer < PeerTimeout

Tenu(h) == FilVide(h) /\ FilFrais(h) /\ Compte(h) /\ Juge(h)
Inv == TypeOK /\ \A h \in Halves : Tenu(h)

LEMMA InvVerified == Inv => ClosedIsVerified
<1>. SUFFICES ASSUME Inv, NEW h \in Halves, hs[h].en_5v, ronde[h]
              PROVE  emis[Autre(h)] < PeerTimeout
  BY DEF ClosedIsVerified
<1>1. hs[h].state = "UP" /\ hs[h].last_peer \in Nat
  BY DEF Inv, TypeOK, Handshake
<1>2. Autre(h) \in Halves /\ emis[Autre(h)] \in Nat
  BY DEF Autre, Halves, Inv, TypeOK
<1>. QED  BY <1>1, <1>2, DelaisAssumption DEF Inv, Tenu, Compte, Juge

LEMMA InitInv == Init => Inv
<1>. SUFFICES ASSUME Init PROVE Inv
  OBVIOUS
<1>1. link_hs_init \in Handshake /\ link_hs_init.state = "IDLE"
      /\ Accorde(link_hs_init)
  BY DelaisAssumption DEF link_hs_init, Handshake, Etats, Accorde
<1>2. TypeOK
  BY <1>1, DelaisAssumption DEF Init, TypeOK, Partout, Accorde, Trames
<1>3. \A h \in Halves : Tenu(h)
  BY <1>1, DelaisAssumption
     DEF Init, Tenu, FilVide, FilFrais, Compte, Juge, Partout
<1>. QED  BY <1>2, <1>3 DEF Inv

\* Steps that leave the handshake, the ages and the rounds alone, and put
\* nothing on a wire.
LEMMA TransportInv ==
    ASSUME Inv, TypeOK', UNCHANGED <<hs, emis>>,
           \A h \in Halves : /\ ronde'[h] => ronde[h]
                             /\ fil'[h] = fil[h] \/ fil'[h] = {}
                             /\ Tourne(h) /\ ~Tourne(h)' => fil'[h] = {}
    PROVE  Inv'
<1>. SUFFICES ASSUME NEW h \in Halves PROVE Tenu(h)'
  BY DEF Inv
<1>1. FilVide(h)'
  BY DEF Inv, Tenu, FilVide
<1>2. FilFrais(h)' /\ Compte(h)' /\ Juge(h)'
  BY DEF Inv, Tenu, FilFrais, Compte, Juge
<1>. QED  BY <1>1, <1>2 DEF Tenu

LEMMA RondeInv ==
    ASSUME Inv, NEW h \in Halves, Ronde(h)
    PROVE  Inv'
<1>. DEFINE o == Autre(h)
            u == IF prise[h] # hs[h].usb THEN SurUsb(hs[h], prise[h]) ELSE hs[h]
            r == SurTrames(u, fil[h])
            t == SurTick(r)
<1>1. o \in Halves /\ o # h /\ Autre(o) = h /\ Halves = {h, o}
  BY DEF Autre, Halves
<1>2. /\ hs[h] \in Handshake /\ Accorde(hs[h]) /\ fil[h] \in SUBSET Trames
      /\ prise[h] \in BOOLEAN /\ emis[h] \in Nat /\ emis[o] \in Nat
      /\ fil[o] \in SUBSET Trames /\ hs[o] \in Handshake
  BY <1>1 DEF Inv, TypeOK, Accorde
<1>3. /\ u \in Handshake /\ Accorde(u)
      /\ u.state = "UP" => hs[h].state = "UP" /\ u.last_peer = hs[h].last_peer
  BY <1>2, UsbFacts
<1>4. /\ r \in Handshake /\ Accorde(r)
      /\ r.state = "UP" => \/ fil[h] # {} /\ r.last_peer = 0
                           \/ u.state = "UP" /\ r.last_peer = u.last_peer
  <2>. HIDE DEF u
  <2>. QED  BY <1>2, <1>3, TramesFacts
<1>5. /\ t \in Handshake /\ Accorde(t)
      /\ t.state = "UP" => /\ r.state = "UP" /\ t.last_peer = r.last_peer
                           /\ t.last_peer < PeerTimeout
  <2>. HIDE DEF r
  <2>. QED  BY <1>4, TickFacts
<1>6. hs' = [hs EXCEPT ![h] = t] /\ ronde' = [ronde EXCEPT ![h] = TRUE]
      /\ UNCHANGED <<prise, trrs, veille, tache, parc, bonne>> /\ Tourne(h)
  BY DEF Ronde
<1>7. PICK envoi \in SUBSET Trames : Transmettre(h, envoi)
  BY DEF Ronde
<1>. HIDE DEF u, r, t
<1>8. /\ fil'[h] = {} /\ fil' \in [Halves -> SUBSET Trames]
      /\ \/ fil'[o] = fil[o]
         \/ fil'[o] # {} /\ Tourne(o) /\ emis'[h] = 0
      /\ emis' \in [Halves -> Nat] /\ emis'[o] = emis[o]
      /\ emis'[h] = emis[h] \/ emis'[h] = 0
  <2>1. PICK recues \in SUBSET envoi :
           fil' = [fil EXCEPT ![h] = {},
                              ![o] = IF trrs /\ Tourne(o)
                                     THEN @ \cup recues ELSE @]
    BY <1>7 DEF Transmettre
  <2>2. emis' = [emis EXCEPT ![h] = IF trrs /\ envoi # {} THEN 0 ELSE @]
    BY <1>7 DEF Transmettre
  <2>3. fil'[h] = {} /\ fil' \in [Halves -> SUBSET Trames]
        /\ fil'[o] = IF trrs /\ Tourne(o) THEN fil[o] \cup recues ELSE fil[o]
    BY <1>1, <1>2, <1>7, <2>1 DEF Inv, TypeOK
  <2>4. emis' \in [Halves -> Nat] /\ emis'[o] = emis[o]
        /\ emis'[h] = IF trrs /\ envoi # {} THEN 0 ELSE emis[h]
    BY <1>1, <1>2, <2>2 DEF Inv, TypeOK
  <2>. QED  BY <2>3, <2>4
<1>9. hs'[h] = t /\ hs'[o] = hs[o] /\ ronde'[h] /\ ronde'[o] = ronde[o]
      /\ Tourne(h)' /\ (Tourne(o)' <=> Tourne(o))
  BY <1>1, <1>6 DEF Inv, TypeOK, Tourne
<1>10. TypeOK'
  BY <1>1, <1>5, <1>6, <1>8, <1>9 DEF Inv, TypeOK, Accorde, parc
<1>11. Tenu(h)'
  <2>1. FilVide(h)' /\ FilFrais(h)'
    BY <1>8 DEF FilVide, FilFrais
  <2>2. /\ hs[h].last_peer \in Nat
        /\ hs[h].state = "UP" => emis[o] <= hs[h].last_peer
    BY <1>2 DEF Inv, Tenu, Compte, Handshake
  <2>3. fil[h] # {} => emis[o] = 0
    BY DEF Inv, Tenu, FilFrais
  <2>4. Compte(h)'
    BY <1>2, <1>3, <1>4, <1>5, <1>8, <1>9, <2>2, <2>3 DEF Compte
  <2>5. Juge(h)'
    BY <1>5, <1>9 DEF Juge
  <2>. QED  BY <2>1, <2>4, <2>5 DEF Tenu
<1>12. Tenu(o)'
  <2>1. FilVide(o)'
    BY <1>1, <1>8, <1>9 DEF Inv, Tenu, FilVide
  <2>2. FilFrais(o)'
    BY <1>1, <1>8 DEF Inv, Tenu, FilFrais
  <2>3. Compte(o)'
    BY <1>1, <1>2, <1>8, <1>9 DEF Inv, Tenu, Compte, Handshake
  <2>4. Juge(o)'
    BY <1>1, <1>9 DEF Inv, Tenu, Juge
  <2>. QED  BY <2>1, <2>2, <2>3, <2>4 DEF Tenu
<1>. QED  BY <1>1, <1>10, <1>11, <1>12 DEF Inv

LEMMA TacheInv ==
    ASSUME Inv, NEW h \in Halves,
           Garer(h) \/ Reprendre(h) \/ uart_up(h) \/ Deborder(h)
    PROVE  Inv'
<1>1. TypeOK'
  BY DEF Garer, Reprendre, uart_up, Deborder, Inv, TypeOK, Trames
<1>2. \A g \in Halves : /\ ronde'[g] => ronde[g]
                        /\ fil'[g] = fil[g] \/ fil'[g] = {}
                        /\ Tourne(g) /\ ~Tourne(g)' => fil'[g] = {}
  BY DEF Garer, Reprendre, uart_up, Deborder, Inv, TypeOK, Tourne
<1>. QED  BY <1>1, <1>2, TransportInv
     DEF Garer, Reprendre, uart_up, Deborder

LEMMA SommeilInv ==
    ASSUME Inv, NEW h \in Halves, Sommeil(h)
    PROVE  Inv'
<1>1. TypeOK'
  BY DEF Sommeil, LireVetos, link_sleep, Dormir, link_wake, parc, Inv, TypeOK,
         Trames
<1>2. \A g \in Halves : /\ ronde'[g] => ronde[g]
                        /\ fil'[g] = fil[g] \/ fil'[g] = {}
                        /\ Tourne(g) /\ ~Tourne(g)' => fil'[g] = {}
  BY DEF Sommeil, LireVetos, link_sleep, Dormir, link_wake, parc, Inv, TypeOK,
         Tourne
<1>. QED  BY <1>1, <1>2, TransportInv
     DEF Sommeil, LireVetos, link_sleep, Dormir, link_wake

LEMMA StartInv ==
    ASSUME Inv, NEW h \in Halves, link_uart_start(h)
    PROVE  Inv'
<1>1. link_hs_init \in Handshake /\ link_hs_init.state = "IDLE"
      /\ Accorde(link_hs_init)
  BY DelaisAssumption DEF link_hs_init, Handshake, Etats, Accorde
<1>. HIDE DEF link_hs_init
<1>2. TypeOK'
  BY <1>1 DEF link_uart_start, Inv, TypeOK, Accorde, Trames
<1>3. ASSUME NEW g \in Halves PROVE Tenu(g)'
  <2>1. CASE g = h
    <3>1. fil'[g] = {} /\ hs'[g].state = "IDLE"
      BY <1>1, <2>1 DEF link_uart_start, Inv, TypeOK
    <3>. QED  BY <3>1 DEF Tenu, FilVide, FilFrais, Compte, Juge
  <2>2. CASE g # h
    <3>1. fil'[g] = fil[g] /\ hs'[g] = hs[g] /\ ronde'[g] = ronde[g]
          /\ emis' = emis /\ (Tourne(g)' <=> Tourne(g))
      BY <2>2 DEF link_uart_start, Inv, TypeOK, Tourne
    <3>. QED  BY <3>1 DEF Inv, Tenu, FilVide, FilFrais, Compte, Juge
  <2>. QED  BY <2>1, <2>2
<1>. QED  BY <1>2, <1>3 DEF Inv

\* Time passes once the wires are empty: both ages of an established link
\* grow together.
LEMMA TickInv == Inv /\ Tick => Inv'
<1>. SUFFICES ASSUME Inv, Tick PROVE Inv'
  OBVIOUS
<1>1. ASSUME NEW h \in Halves
      PROVE  /\ hs'[h] = Vieux(hs[h]) /\ ~ronde'[h] /\ fil'[h] = {}
             /\ emis'[h] = Vieillir(emis[h], PeerTimeout)
             /\ hs[h] \in Handshake /\ Accorde(hs[h]) /\ emis[h] \in Nat
  BY DEF Tick, EnRetard, Partout, Inv, Tenu, FilVide, TypeOK, Accorde
<1>2. TypeOK'
  <2>1. \A h \in Halves : hs'[h] \in Handshake /\ Accorde(hs'[h])
    BY <1>1, VieuxFacts
  <2>2. \A h \in Halves : emis'[h] \in Nat
    BY <1>1, VieillirFacts, DelaisAssumption
  <2>3. /\ hs' \in [Halves -> Handshake] /\ emis' \in [Halves -> Nat]
        /\ ronde' \in [Halves -> BOOLEAN]
    BY <2>1, <2>2 DEF Tick, Partout
  <2>. QED  BY <2>1, <2>3 DEF Tick, Inv, TypeOK, parc, Accorde
<1>3. ASSUME NEW h \in Halves PROVE Compte(h)'
  <2>1. Autre(h) \in Halves
    BY DEF Autre, Halves
  <2>2. SUFFICES ASSUME hs'[h].state = "UP"
                 PROVE  emis'[Autre(h)] <= hs'[h].last_peer
    BY DEF Compte
  <2>3. /\ hs[h].state = "UP"
        /\ hs'[h].last_peer = Vieillir(hs[h].last_peer, PeerTimeout)
    BY <1>1, <2>2, VieuxFacts
  <2>4. emis[Autre(h)] <= hs[h].last_peer /\ hs[h].last_peer \in Nat
    BY <1>1, <2>3 DEF Inv, Tenu, Compte, Handshake
  <2>5. Vieillir(emis[Autre(h)], PeerTimeout)
           <= Vieillir(hs[h].last_peer, PeerTimeout)
    BY <1>1, <2>1, <2>4, VieillirFacts, DelaisAssumption
  <2>. QED  BY <1>1, <2>1, <2>3, <2>5
<1>. QED  BY <1>1, <1>2, <1>3 DEF Inv, Tenu, FilVide, FilFrais, Juge

LEMMA EnvironmentInv ==
    ASSUME Inv, (\E h \in Halves : Prendre(h)) \/ Brancher \/ Assainir
    PROVE  Inv'
<1>1. TypeOK'
  BY DEF Prendre, Brancher, Assainir, Partout, parc, Inv, TypeOK, Trames
<1>2. \A g \in Halves : /\ ronde'[g] => ronde[g]
                        /\ fil'[g] = fil[g] \/ fil'[g] = {}
                        /\ Tourne(g) /\ ~Tourne(g)' => fil'[g] = {}
  BY DEF Prendre, Brancher, Assainir, Partout, Tourne
<1>. QED  BY <1>1, <1>2, TransportInv DEF Prendre, Brancher, Assainir

LEMMA NextInv == Inv /\ [Next]_vars => Inv'
<1>. SUFFICES ASSUME Inv, [Next]_vars PROVE Inv'
  OBVIOUS
<1>1. ASSUME NEW h \in Halves, Tache(h) PROVE Inv'
  BY <1>1, RondeInv, TacheInv DEF Tache
<1>2. ASSUME NEW h \in Halves, Sommeil(h) \/ link_uart_start(h) PROVE Inv'
  BY <1>2, SommeilInv, StartInv
<1>3. CASE Tick
  BY <1>3, TickInv
<1>4. CASE (\E h \in Halves : Prendre(h)) \/ Brancher \/ Assainir
  BY <1>4, EnvironmentInv
<1>5. CASE UNCHANGED vars
  BY <1>5, TransportInv DEF vars, parc, Inv, TypeOK, Tourne
<1>. QED  BY <1>1, <1>2, <1>3, <1>4, <1>5 DEF Next

-----------------------------------------------------------------------------
\* Every variable of the link keeps its type, and each switch is commanded as
\* its handshake says: closed in UP, open elsewhere (set_5v).
THEOREM TypeCorrect == Spec => []TypeOK
<1>1. Spec => []Inv
  BY InitInv, NextInv, PTL DEF Spec
<1>2. Inv => TypeOK
  BY DEF Inv
<1>. QED  BY <1>1, <1>2, PTL

\* A half whose task has had its round keeps its switch closed only in front of
\* a half that put a frame on the cable less than PeerTimeout ago
\* (link_handshake.h: en_5v only after a verified exchange).
THEOREM Verified == Spec => []ClosedIsVerified
<1>1. Spec => []Inv
  BY InitInv, NextInv, PTL DEF Spec
<1>. QED  BY <1>1, InvVerified, PTL
=============================================================================
