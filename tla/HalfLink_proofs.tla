--------------------------- MODULE HalfLink_proofs ---------------------------
(***************************************************************************)
(* Proofs about HalfLink: its type invariant, that no listener ever hears  *)
(* a state that the half has left, and that none releases a held key       *)
(* before it has missed three matrices.  The second rests on one           *)
(* invariant: a frame that still counts as fresh carries the state.  The   *)
(* third bounds the age of a listener by the matrices it has missed.       *)
(***************************************************************************)
EXTENDS HalfLink, TLAPS

\* The records that the steps build are sends, and only a frame waits for the
\* radio.
LEMMA EnvoiTypes ==
    ASSUME cible \in Cibles
    PROVE  /\ \A type \in {"matrice", "status"}, b \in Bitmaps :
                /\ Trame(type, b) \in Envois
                /\ Trame(type, b).contenu = b /\ Trame(type, b).type = type
           /\ Rien \in Envois /\ Rien.lieu = "repos"
           /\ Jauger \in Envois /\ Jauger.lieu = "jauge"
           /\ Finir \in Envois /\ Finir.lieu = "fin"
           /\ \A e \in Envois :
                /\ Perimer(e) \in Envois
                /\ Perimer(e).lieu = "emettre" => ~Perimer(e).frais
           /\ \A type \in {"matrice", "status"}, a \in BOOLEAN, v \in Cibles :
                \A lieu \in {"compter", "basculer"} :
                   /\ En(lieu, type, a, v) \in Envois
                   /\ En(lieu, type, a, v).lieu = lieu
BY VideAssumption
   DEF Trame, Rien, Jauger, Finir, Perimer, En, Envoi, Envois, Cibles

\* The next place of a send that has ended.
LEMMA SuiteType ==
    ASSUME TypeOK, NEW t \in Taches, Suite(t)
    PROVE  /\ envoi' \in [Taches -> Envois]
           /\ \A u \in Taches : u # t => envoi'[u] = envoi[u]
           /\ envoi'[t].lieu # "emettre"
<1>1. Apres(t) \in Envois /\ Apres(t).lieu # "emettre"
  BY EnvoiTypes DEF Apres, TypeOK
<1>2. envoi' = [envoi EXCEPT ![t] = Apres(t)]
  BY DEF Suite
<1>. QED  BY <1>1, <1>2 DEF TypeOK

-----------------------------------------------------------------------------
(***************************************************************************)
(* The type invariant and the invariant of fresh frames, together.         *)
(***************************************************************************)
\* A send that has not been overtaken carries the state.
FraisActuel ==
    \A t \in Taches :
        envoi[t].lieu = "emettre" /\ envoi[t].type = "matrice" /\ envoi[t].frais
            => envoi[t].contenu = etat

Inv == TypeOK /\ FraisActuel

LEMMA InitInv == Init => Inv
<1>. SUFFICES ASSUME Init PROVE Inv
  OBVIOUS
<1>1. Rien \in Envois /\ Rien.lieu = "repos"
  BY EnvoiTypes DEF Init, Cibles
<1>2. TypeOK
  <2>1. restantes \in 0 .. Repeats /\ depuis \in 0 .. Rafraichir
        /\ sansAck \in 0 .. Seuil - 1
    BY CountAssumption DEF Init
  <2>2. /\ entendu \in [Cibles -> Bitmaps] /\ age \in [Cibles -> 0 .. Delai]
        /\ manques \in [Cibles -> 0 .. MaxManques]
        /\ envoi \in [Taches -> Envois]
    BY <1>1, VideAssumption, CountAssumption DEF Init
  <2>. QED  BY <2>1, <2>2, VideAssumption DEF Init, TypeOK, Cibles
<1>3. FraisActuel
  BY <1>1 DEF Init, FraisActuel, Taches
<1>. QED  BY <1>2, <1>3 DEF Inv

\* A step that ends a send and changes nothing else of what Inv speaks of but
\* what the caller gives.
LEMMA SuiteFrais ==
    ASSUME Inv, NEW t \in Taches, Suite(t), etat' = etat
    PROVE  FraisActuel'
BY SuiteType DEF Inv, FraisActuel

\* A change is published while the scan task sends nothing; what the refresh
\* task was about to send is stale from then on.
LEMMA ChangerInv ==
    ASSUME Inv, NEW b \in Bitmaps, Changer(b)
    PROVE  Inv'
<1>1. PICK s \in Envois : s = Trame("matrice", b) /\ s.contenu = b
  BY EnvoiTypes DEF Inv, TypeOK
<1>2. PICK r \in Envois : /\ r = Perimer(envoi["refresh"])
                          /\ r.lieu = "emettre" => ~r.frais
  <2>1. envoi["refresh"] \in Envois
    BY DEF Inv, TypeOK, Taches
  <2>. QED  BY <2>1, EnvoiTypes DEF Inv, TypeOK
<1>3. envoi' = [scan |-> s, refresh |-> r]
  BY <1>1, <1>2 DEF Changer
<1>4. /\ envoi'["scan"] = s /\ envoi'["refresh"] = r
      /\ envoi' \in [Taches -> Envois]
  BY <1>3 DEF Taches
<1>5. TypeOK'
  BY <1>4, CountAssumption DEF Changer, Inv, TypeOK, repli, listener
<1>6. s.contenu = etat'
  BY <1>1 DEF Changer
<1>7. FraisActuel'
  BY <1>2, <1>4, <1>6 DEF FraisActuel, Taches
<1>. QED  BY <1>5, <1>7 DEF Inv

LEMMA RondeInv == Inv /\ Ronde => Inv'
<1>. SUFFICES ASSUME Inv, Ronde PROVE Inv'
  OBVIOUS
<1>1. PICK e \in Envois :
         /\ envoi' = [envoi EXCEPT !["refresh"] = e]
         /\ e.lieu = "emettre" => e.contenu = etat
  BY EnvoiTypes DEF Ronde, Inv, TypeOK
<1>2. envoi' \in [Taches -> Envois] /\ envoi'["refresh"] = e
      /\ envoi'["scan"] = envoi["scan"]
  BY <1>1 DEF Inv, TypeOK, Taches
<1>3. restantes' \in 0 .. Repeats /\ depuis' \in 0 .. Rafraichir
  BY CountAssumption DEF Ronde, Inv, TypeOK
<1>4. TypeOK'
  BY <1>2, <1>3 DEF Ronde, Inv, TypeOK, repli, listener
<1>5. FraisActuel'
  BY <1>1, <1>2 DEF Ronde, Inv, FraisActuel, Taches
<1>. QED  BY <1>4, <1>5 DEF Inv

LEMMA JaugeInv == Inv /\ Jauge => Inv'
<1>. SUFFICES ASSUME Inv, Jauge PROVE Inv'
  OBVIOUS
<1>1. PICK e \in Envois : e = Trame("status", Vide) /\ e.type = "status"
  BY EnvoiTypes, VideAssumption DEF Inv, TypeOK
<1>2. envoi' = [envoi EXCEPT !["refresh"] = e]
  BY <1>1 DEF Jauge
<1>3. envoi' \in [Taches -> Envois] /\ envoi'["refresh"] = e
      /\ envoi'["scan"] = envoi["scan"]
  BY <1>2 DEF Inv, TypeOK, Taches
<1>4. TypeOK'
  BY <1>3 DEF Jauge, Inv, TypeOK, decision, repli, cadence, listener
<1>5. FraisActuel'
  BY <1>1, <1>3 DEF Jauge, Inv, FraisActuel, Taches, decision
<1>. QED  BY <1>4, <1>5 DEF Inv

LEMMA FinRondeInv == Inv /\ FinRonde => Inv'
<1>. SUFFICES ASSUME Inv, FinRonde PROVE Inv'
  OBVIOUS
<1>1. Rien \in Envois /\ Rien.lieu # "emettre"
  BY EnvoiTypes DEF Inv, TypeOK
<1>2. envoi' \in [Taches -> Envois] /\ envoi'["refresh"] = Rien
      /\ envoi'["scan"] = envoi["scan"]
  BY <1>1 DEF FinRonde, Inv, TypeOK, Taches
<1>3. TypeOK'
  BY <1>2, CountAssumption DEF FinRonde, Inv, TypeOK, decision, repli, listener
<1>4. FraisActuel'
  BY <1>1, <1>2 DEF FinRonde, Inv, FraisActuel, Taches, decision
<1>. QED  BY <1>3, <1>4 DEF Inv

\* The three ends of a send change nothing that Inv speaks of but the target.
LEMMA PerimeInv == ASSUME Inv, NEW t \in Taches, Perime(t) PROVE Inv'
<1>1. TypeOK'
  BY SuiteType DEF Perime, Inv, TypeOK, decision, repli, cadence, listener
<1>2. FraisActuel'
  BY SuiteFrais DEF Perime, decision
<1>. QED  BY <1>1, <1>2 DEF Inv

LEMMA BasculerInv == ASSUME Inv, NEW t \in Taches, Basculer(t) PROVE Inv'
<1>1. puce' \in Cibles
  BY DEF Basculer, Inv, TypeOK, Envois
<1>2. TypeOK'
  BY <1>1, SuiteType DEF Basculer, Inv, TypeOK, decision, repli, cadence, listener
<1>3. FraisActuel'
  BY SuiteFrais DEF Basculer, decision
<1>. QED  BY <1>2, <1>3 DEF Inv

LEMMA CompterInv == ASSUME Inv, NEW t \in Taches, Compter(t) PROVE Inv'
<1>1. sansAck' \in 0 .. Seuil - 1
  BY CountAssumption DEF Compter, Inv, TypeOK
<1>2. envoi[t] \in Envois /\ envoi[t].type \in {"matrice", "status"}
  BY DEF Inv, TypeOK, Envois
<1>3. /\ cible' \in Cibles
      /\ envoi' \in [Taches -> Envois]
      /\ \A u \in Taches : u # t => envoi'[u] = envoi[u]
      /\ envoi'[t].lieu # "emettre"
  <2>1. CASE Suite(t) /\ UNCHANGED cible
    BY <2>1, SuiteType DEF Inv, TypeOK
  <2>2. CASE /\ cible' = Autre(cible)
             /\ envoi' = [envoi EXCEPT ![t] = En("basculer", envoi[t].type, FALSE, cible')]
    <3>1. PICK v \in Cibles : v = cible'
      BY <2>2 DEF Autre, Cibles
    <3>2. PICK e \in Envois : /\ e = En("basculer", envoi[t].type, FALSE, v)
                              /\ e.lieu = "basculer"
      <4>1. "basculer" \in {"compter", "basculer"} /\ FALSE \in BOOLEAN
        OBVIOUS
      <4>2. cible \in Cibles
        BY DEF Inv, TypeOK
      <4>. QED  BY <1>2, <4>1, <4>2, EnvoiTypes, Zenon
    <3>. QED  BY <2>2, <3>1, <3>2 DEF Inv, TypeOK
  <2>. QED  BY <2>1, <2>2 DEF Compter
<1>4. TypeOK'
  BY <1>1, <1>3 DEF Compter, Inv, TypeOK, decision, cadence, listener
<1>5. FraisActuel'
  BY <1>3 DEF Compter, Inv, FraisActuel, decision
<1>. QED  BY <1>4, <1>5 DEF Inv

\* What is received is the state: the frame is fresh.
LEMMA EmettreEntendu ==
    ASSUME Inv, NEW t \in Taches, NEW recu \in BOOLEAN, NEW ack \in BOOLEAN,
           Emettre(t, recu, ack)
    PROVE  /\ entendu' \in [Cibles -> Bitmaps]
           /\ age' \in [Cibles -> 0 .. Delai]
           /\ manques' \in [Cibles -> 0 .. MaxManques]
           /\ \A l \in Cibles : entendu'[l] \in {entendu[l], etat}
<1>1. CASE envoi[t].type # "matrice"
  BY <1>1 DEF Emettre, Recevoir, Inv, TypeOK
<1>2. CASE envoi[t].type = "matrice"
  <2>. DEFINE pris(l) == recu /\ l = puce /\ envoi[t].format = l
  <2>1. /\ entendu' = [l \in Cibles |->
                          IF pris(l) THEN envoi[t].contenu ELSE entendu[l]]
        /\ age' = [l \in Cibles |-> IF pris(l) THEN 0 ELSE age[l]]
        /\ manques' = [l \in Cibles |->
                          IF entendu'[l] = Vide \/ pris(l) THEN 0 ELSE Un(manques[l])]
    BY <1>2 DEF Emettre, Recevoir
  <2>2. envoi[t].contenu = etat /\ etat \in Bitmaps
    BY <1>2 DEF Emettre, Valide, Inv, FraisActuel, TypeOK
  <2>3. \A n \in 0 .. MaxManques : Un(n) \in 0 .. MaxManques
    BY CountAssumption DEF Un
  <2>. HIDE DEF pris
  <2>4. \A l \in Cibles : entendu'[l] \in {entendu[l], etat}
    BY <2>1, <2>2
  <2>5. entendu' \in [Cibles -> Bitmaps] /\ age' \in [Cibles -> 0 .. Delai]
    BY <2>1, <2>2, CountAssumption DEF Inv, TypeOK
  <2>6. manques' \in [Cibles -> 0 .. MaxManques]
    BY <2>1, <2>3, CountAssumption DEF Inv, TypeOK
  <2>. QED  BY <2>4, <2>5, <2>6
<1>. QED  BY <1>1, <1>2

LEMMA EmettreInv ==
    ASSUME Inv, NEW t \in Taches, NEW recu \in BOOLEAN, NEW ack \in BOOLEAN,
           Emettre(t, recu, ack)
    PROVE  Inv'
<1>1. envoi[t].type \in {"matrice", "status"}
  BY DEF Inv, TypeOK, Envois
<1>2. PICK e \in Envois : /\ e = En("compter", envoi[t].type, ack, "dongle")
                          /\ e.lieu = "compter"
  BY <1>1, EnvoiTypes DEF Inv, TypeOK, Cibles
<1>3. /\ envoi' \in [Taches -> Envois]
      /\ envoi'[t] = e
      /\ \A u \in Taches : u # t => envoi'[u] = envoi[u]
  BY <1>2 DEF Emettre, Inv, TypeOK
<1>4. TypeOK'
  BY <1>3, EmettreEntendu DEF Emettre, Inv, TypeOK, decision, repli, cadence
<1>5. FraisActuel'
  BY <1>2, <1>3 DEF Emettre, Inv, FraisActuel, decision
<1>. QED  BY <1>4, <1>5 DEF Inv

\* The listeners, the link and time leave the sends and the state alone.
LEMMA AutourInv ==
    ASSUME Inv,
           \/ \E l \in Cibles : Silence(l) \/ Partir(l) \/ Revenir(l)
           \/ Assainir \/ Tick
    PROVE  Inv'
<1>1. envoi' = envoi /\ etat' = etat
  BY DEF Silence, Partir, Revenir, Assainir, Tick, decision
<1>2. TypeOK'
  <2>1. ASSUME NEW l \in Cibles, Silence(l) PROVE TypeOK'
    BY <2>1, VideAssumption, CountAssumption
       DEF Silence, Inv, TypeOK, decision, repli, cadence
  <2>2. ASSUME NEW l \in Cibles, Partir(l) PROVE TypeOK'
    BY <2>2, VideAssumption, CountAssumption
       DEF Partir, Inv, TypeOK, decision, repli, cadence
  <2>3. ASSUME NEW l \in Cibles, Revenir(l) PROVE TypeOK'
    BY <2>3 DEF Revenir, Inv, TypeOK, decision, repli, cadence
  <2>4. CASE Assainir
    BY <2>4 DEF Assainir, Inv, TypeOK, decision, repli, cadence, listener
  <2>5. CASE Tick
    <3>1. attente' \in Nat /\ depuis' \in 0 .. Rafraichir
      BY <2>5, CountAssumption DEF Tick, Inv, TypeOK
    <3>2. age' \in [Cibles -> 0 .. Delai]
      BY <2>5, CountAssumption DEF Tick, Inv, TypeOK
    <3>. QED  BY <2>5, <3>1, <3>2 DEF Tick, Inv, TypeOK, repli
  <2>. QED  BY <2>1, <2>2, <2>3, <2>4, <2>5
<1>3. FraisActuel'
  BY <1>1 DEF Inv, FraisActuel
<1>. QED  BY <1>2, <1>3 DEF Inv

LEMMA NextInv == Inv /\ [Next]_vars => Inv'
<1>. SUFFICES ASSUME Inv, [Next]_vars PROVE Inv'
  OBVIOUS
<1>1. CASE UNCHANGED vars
  <2>1. TypeOK' = TypeOK /\ FraisActuel' = FraisActuel
    BY <1>1 DEF vars, decision, repli, cadence, listener, TypeOK, FraisActuel
  <2>. QED  BY <2>1 DEF Inv
<1>2. ASSUME NEW b \in Bitmaps, Changer(b) PROVE Inv'
  BY <1>2, ChangerInv
<1>3. CASE Ronde \/ Jauge \/ FinRonde
  BY <1>3, RondeInv, JaugeInv, FinRondeInv
<1>4. ASSUME NEW t \in Taches, Envoyer(t) PROVE Inv'
  BY <1>4, PerimeInv, EmettreInv, CompterInv, BasculerInv DEF Envoyer
<1>5. CASE \/ \E l \in Cibles : Silence(l) \/ Partir(l) \/ Revenir(l)
           \/ Assainir \/ Tick
  BY <1>5, AutourInv
<1>. QED  BY <1>1, <1>2, <1>3, <1>4, <1>5 DEF Next

LEMMA InvHolds == Spec => []Inv
BY InitInv, NextInv, PTL DEF Spec

\* Every variable keeps its type: in particular the count of unacknowledged
\* sends stays below the threshold and the repair below its bound, whatever
\* the two tasks interleave.
THEOREM TypeCorrect == Spec => []TypeOK
<1>1. Inv => TypeOK
  BY DEF Inv
<1>. QED  BY InvHolds, <1>1, PTL

\* No listener ever hears a state that the half has left: what changes what a
\* listener holds is a fresh frame, the silence, or its departure.
THEOREM NeverResurrects == Spec => NoResurrection
<1>1. ASSUME Inv, [Next]_vars
      PROVE  [\A l \in Cibles : entendu'[l] # entendu[l]
                 => entendu'[l] \in {etat, Vide}]_vars
  <2>. SUFFICES ASSUME NEW l \in Cibles, entendu'[l] # entendu[l]
                PROVE  entendu'[l] \in {etat, Vide}
    OBVIOUS
  <2>1. CASE UNCHANGED vars
    BY <2>1 DEF vars, listener
  <2>2. ASSUME NEW b \in Bitmaps, Changer(b) PROVE FALSE
    BY <2>2 DEF Changer, listener
  <2>3. CASE Ronde \/ Jauge \/ FinRonde
    BY <2>3 DEF Ronde, Jauge, FinRonde, listener
  <2>4. ASSUME NEW t \in Taches, Envoyer(t) PROVE entendu'[l] \in {etat, Vide}
    <3>1. CASE Perime(t) \/ Compter(t) \/ Basculer(t)
      BY <3>1 DEF Perime, Compter, Basculer, listener
    <3>2. ASSUME NEW recu \in BOOLEAN, NEW ack \in BOOLEAN, Emettre(t, recu, ack)
          PROVE  entendu'[l] \in {etat, Vide}
      BY <1>1, <3>2, EmettreEntendu
    <3>. QED  BY <2>4, <3>1, <3>2 DEF Envoyer
  <2>5. ASSUME NEW m \in Cibles, Silence(m) \/ Partir(m) \/ Revenir(m)
        PROVE  entendu'[l] = Vide
    BY <1>1, <2>5 DEF Silence, Partir, Revenir, Inv, TypeOK
  <2>6. CASE Assainir \/ Tick
    BY <2>6 DEF Assainir, Tick, listener
  <2>. QED  BY <1>1, <2>1, <2>2, <2>3, <2>4, <2>5, <2>6 DEF Next
<1>. QED  BY InvHolds, <1>1, PTL DEF Spec, NoResurrection
-----------------------------------------------------------------------------
(***************************************************************************)
(* A hold survives two losses.  What a listener has missed bounds for how  *)
(* long it has heard nothing: between two matrices of a held state no more *)
(* than Rafraichir ticks pass, and a release that is missed is repeated at *)
(* once, then after Repos ticks.                                           *)
(***************************************************************************)
\* A task has a matrix to send, which nothing has overtaken.
EnVol(t) == envoi[t].lieu = "emettre" /\ envoi[t].type = "matrice" /\ envoi[t].frais
UnVol == \E t \in Taches : EnVol(t)

Periodes(n) == CASE n <= 0 -> 0
                 [] n = 1 -> Rafraichir
                 [] n = 2 -> 2 * Rafraichir
                 [] OTHER -> 3 * Rafraichir

\* What each place of the two tasks knows: the frame of the scan is never
\* overtaken, a notification is a change whose first repeat is not decided,
\* and a frame of the refresh task is overtaken by such a change only.
Places ==
    /\ envoi["scan"].lieu \in {"repos", "emettre", "compter", "basculer"}
    /\ envoi["scan"].lieu = "emettre" => EnVol("scan")
    /\ notifie <=> restantes = Repeats
    /\ envoi["refresh"].lieu = "emettre" =>
          /\ ~envoi["refresh"].frais => notifie
          /\ EnVol("refresh") => ~notifie
    /\ attente <= Repos
    /\ envoi["scan"].lieu = "emettre" /\ ~notifie /\ envoi["refresh"].lieu = "repos"
          => attente > 0

\* While something is held the rounds are one tick apart, and none ends with a
\* reaffirmation due.
Cadence ==
    etat # Vide /\ ~notifie =>
        /\ envoi["refresh"].lieu = "repos" => attente <= 1
        /\ envoi["refresh"].lieu # "repos" \/ attente > 0 => depuis < Rafraichir

\* The state is held: each matrix missed is a period, and a period goes on.
Tenue(l) ==
    age[l] <= IF UnVol THEN Periodes(manques[l] + 1) ELSE Periodes(manques[l]) + depuis

\* The release is what is missed: of the change and its first repeat, those
\* already sent ...
Dits == (IF envoi["scan"].lieu = "emettre" THEN 0 ELSE 1)
        + (IF notifie \/ EnVol("refresh") THEN 0 ELSE 1)

\* ... and the time until the second repeat.
Ecoule == IF ~notifie /\ envoi["refresh"].lieu = "repos" THEN Repos - attente ELSE 0

Relachee(l) ==
    IF restantes >= Repeats - 1
    THEN /\ manques[l] >= Dits
         /\ age[l] <= Periodes(manques[l] + 1 - Dits) + Ecoule
    ELSE /\ manques[l] >= 2 /\ age[l] <= Rafraichir + Repos
         /\ EnVol("refresh") /\ envoi["scan"].lieu # "emettre"

Bornee(l) ==
    entendu[l] # Vide /\ manques[l] < 3 => IF etat # Vide THEN Tenue(l) ELSE Relachee(l)

HInv == Inv /\ Places /\ Cadence /\ \A l \in Cibles : Bornee(l)

LEMMA InitHInv == Init => HInv
<1>. SUFFICES ASSUME Init PROVE HInv
  OBVIOUS
<1>1. envoi["scan"].lieu = "repos" /\ envoi["refresh"].lieu = "repos"
  BY EnvoiTypes DEF Init, Cibles, Taches
<1>2. Places
  BY <1>1, CountAssumption, CadenceAssumption DEF Init, Places, EnVol
<1>3. Cadence /\ \A l \in Cibles : Bornee(l)
  BY DEF Init, Cadence, Bornee
<1>. QED  BY <1>2, <1>3, InitInv DEF HInv

\* The numbers that HInv compares.
LEMMA Nombres ==
    ASSUME HInv
    PROVE  /\ Rafraichir \in Nat \ {0} /\ Repos \in Nat \ {0} /\ Delai \in Nat
           /\ Repeats \in Nat /\ MaxManques \in Nat
           /\ restantes \in Nat /\ restantes <= Repeats
           /\ depuis \in Nat /\ depuis <= Rafraichir
           /\ attente \in Nat /\ attente <= Repos
           /\ Dits \in 0 .. 2 /\ Ecoule \in 0 .. Repos
<1>1. attente \in Nat /\ attente <= Repos
  BY DEF HInv, Inv, TypeOK, Places
<1>2. Dits \in 0 .. 2 /\ Ecoule \in 0 .. Repos
  BY <1>1, CountAssumption DEF Dits, Ecoule
<1>3. /\ restantes \in Nat /\ restantes <= Repeats
      /\ depuis \in Nat /\ depuis <= Rafraichir
  BY CountAssumption DEF HInv, Inv, TypeOK
<1>. QED  BY <1>1, <1>2, <1>3, CountAssumption

LEMMA NombresDe ==
    ASSUME HInv, NEW l \in Cibles
    PROVE  age[l] \in Nat /\ age[l] <= Delai /\ manques[l] \in Nat
BY CountAssumption DEF HInv, Inv, TypeOK

LEMMA PeriodesMonte ==
    ASSUME NEW n \in Int
    PROVE  /\ Periodes(n) \in Nat /\ Periodes(n) <= Periodes(n + 1)
           /\ n \in 0 .. 2 => Periodes(n) + Rafraichir = Periodes(n + 1)
BY CountAssumption DEF Periodes

\* A change: its frame is about to leave, the repeat of the previous state is
\* overtaken, and what has been missed so far is a period at most.
LEMMA ChangerBornee ==
    ASSUME HInv, NEW b \in Bitmaps, Changer(b)
    PROVE  Places' /\ Cadence' /\ \A l \in Cibles : Bornee(l)'
<1>1. /\ envoi'["scan"] = Trame("matrice", b)
      /\ envoi'["refresh"] = Perimer(envoi["refresh"])
  BY DEF Changer
<1>2. /\ envoi'["scan"].lieu = "emettre" /\ EnVol("scan")'
      /\ envoi'["refresh"].lieu = envoi["refresh"].lieu
      /\ ~EnVol("refresh")' /\ UnVol'
  BY <1>1 DEF Trame, Perimer, Envoi, EnVol, UnVol, Taches
<1>3. restantes' = Repeats /\ notifie' /\ depuis' = 0 /\ attente' = attente
  BY DEF Changer
<1>4. Places' /\ Cadence'
  BY <1>2, <1>3 DEF HInv, Places, Cadence
<1>5. Dits' = 0 /\ Ecoule' = 0
  BY <1>2, <1>3 DEF Dits, Ecoule
<1>6. ASSUME NEW l \in Cibles, entendu[l] # Vide, manques[l] < 3
      PROVE  age[l] <= Periodes(manques[l] + 1)
  <2>. age[l] \in Nat /\ manques[l] \in 0 .. 2
    BY <1>6, NombresDe
  <2>. Periodes(manques[l]) + Rafraichir = Periodes(manques[l] + 1)
       /\ Periodes(manques[l]) \in Nat
    BY PeriodesMonte
  <2>1. CASE etat # Vide
    <3>1. Tenue(l)
      BY <1>6, <2>1 DEF HInv, Bornee
    <3>. QED  BY <3>1, Nombres DEF Tenue
  <2>2. CASE etat = Vide
    <3>1. Relachee(l)
      BY <1>6, <2>2 DEF HInv, Bornee
    <3>2. Dits >= 1 /\ (Ecoule # 0 => Dits = 2)
      BY Nombres DEF Dits, Ecoule, Changer, EnVol
    <3>3. CASE restantes >= Repeats - 1 /\ Ecoule = 0
      BY <1>6, <3>1, <3>2, <3>3, Nombres DEF Relachee, Periodes
    <3>4. CASE restantes >= Repeats - 1 /\ Ecoule # 0
      <4>1. manques[l] = 2 /\ manques[l] + 1 - Dits = 1
        BY <3>1, <3>2, <3>4, Nombres DEF Relachee
      <4>2. age[l] <= Periodes(1) + Repos
        BY <3>1, <3>4, <4>1, Nombres, PeriodesMonte DEF Relachee
      <4>. QED  BY <4>1, <4>2, Nombres, CadenceAssumption DEF Periodes
    <3>5. CASE ~(restantes >= Repeats - 1)
      <4>1. manques[l] = 2 /\ age[l] <= Rafraichir + Repos
        BY <1>6, <3>1, <3>5, Nombres DEF Relachee
      <4>. QED  BY <4>1, Nombres, CadenceAssumption DEF Periodes
    <3>. QED  BY <3>3, <3>4, <3>5
  <2>. QED  BY <2>1, <2>2
<1>7. ASSUME NEW l \in Cibles PROVE Bornee(l)'
  <2>1. entendu' = entendu /\ manques' = manques /\ age' = age
    BY DEF Changer, listener
  <2>. SUFFICES ASSUME entendu[l] # Vide, manques[l] < 3
                PROVE  IF etat' # Vide THEN Tenue(l)' ELSE Relachee(l)'
    BY <2>1 DEF Bornee
  <2>2. age[l] <= Periodes(manques[l] + 1)
    BY <1>6
  <2>3. Tenue(l)'
    BY <1>2, <2>1, <2>2 DEF Tenue
  <2>4. Relachee(l)'
    <3>1. /\ restantes' >= Repeats - 1
          /\ age'[l] = age[l] /\ manques'[l] \in Nat /\ age[l] \in Nat
          /\ manques'[l] + 1 - Dits' = manques[l] + 1
      BY <1>3, <1>5, <2>1, Nombres, NombresDe
    <3>2. age'[l] <= Periodes(manques'[l] + 1 - Dits') + Ecoule'
      BY <1>5, <2>2, <3>1, PeriodesMonte
    <3>. QED  BY <1>5, <3>1, <3>2 DEF Relachee
  <2>. QED  BY <2>3, <2>4
<1>. QED  BY <1>4, <1>7

\* A round: a first repeat, the second one Repos ticks later, a reaffirmation
\* after Rafraichir ticks, or nothing that is due.
LEMMA RondeBornee ==
    ASSUME HInv, Ronde
    PROVE  Places' /\ Cadence' /\ \A l \in Cibles : Bornee(l)'
<1>1. /\ envoi["refresh"].lieu = "repos" /\ ~EnVol("refresh")
      /\ envoi'["scan"] = envoi["scan"]
      /\ ~notifie' /\ attente' = attente /\ etat' = etat
      /\ restantes' = IF restantes > 0 THEN restantes - 1 ELSE 0
      /\ entendu' = entendu /\ manques' = manques /\ age' = age
      /\ envoi \in [Taches -> Envois]
  BY DEF Ronde, EnVol, HInv, Inv, TypeOK, listener, Taches
<1>2. restantes' # Repeats /\ Repeats >= 2
  BY <1>1, Nombres, CadenceAssumption
<1>3. EnVol("scan")' = EnVol("scan")
  BY <1>1 DEF EnVol
<1>4. CASE DoitEmettre
  <2>1. envoi'["refresh"] = Trame("matrice", etat) /\ depuis' = 0
    BY <1>1, <1>4 DEF Ronde, Taches
  <2>2. envoi'["refresh"].lieu = "emettre" /\ envoi'["refresh"].frais
        /\ EnVol("refresh")' /\ UnVol'
    BY <2>1 DEF Trame, Envoi, EnVol, UnVol, Taches
  <2>3. Places' /\ Cadence'
    BY <1>1, <1>2, <1>3, <2>1, <2>2, Nombres DEF HInv, Places, Cadence
  <2>4. ASSUME NEW l \in Cibles, entendu[l] # Vide, manques[l] < 3, etat # Vide
        PROVE  Tenue(l)'
    <3>1. Tenue(l)
      BY <2>4 DEF HInv, Bornee
    <3>2. age[l] \in Nat /\ manques[l] \in 0 .. 2
      BY <2>4, NombresDe
    <3>3. /\ Periodes(manques[l]) + Rafraichir = Periodes(manques[l] + 1)
          /\ Periodes(manques[l]) \in Nat
      BY <3>2, PeriodesMonte
    <3>4. age[l] <= Periodes(manques[l] + 1)
      BY <3>1, <3>2, <3>3, Nombres DEF Tenue
    <3>. QED  BY <1>1, <2>2, <3>4 DEF Tenue
  <2>5. ASSUME NEW l \in Cibles, entendu[l] # Vide, manques[l] < 3, etat = Vide
        PROVE  Relachee(l)'
    <3>1. Relachee(l)
      BY <2>5 DEF HInv, Bornee
    <3>2. restantes >= Repeats - 1
      BY <1>1, <3>1 DEF Relachee
    <3>3. Ecoule' = 0
      BY <2>2 DEF Ecoule
    <3>4. CASE notifie
      <4>1. Dits' = Dits /\ Ecoule = 0
        BY <1>1, <2>2, <3>4 DEF Dits, Ecoule
      <4>2. restantes' >= Repeats - 1
        BY <1>1, <3>4, Nombres DEF HInv, Places
      <4>. QED  BY <1>1, <3>1, <3>2, <3>3, <4>1, <4>2 DEF Relachee
    <3>5. CASE ~notifie
      <4>1. attente = 0 /\ envoi["scan"].lieu # "emettre"
        BY <1>1, <3>5, Nombres DEF Ronde, HInv, Places
      <4>2. Dits = 2 /\ Ecoule = Repos
        BY <1>1, <3>5, <4>1, Nombres DEF Dits, Ecoule
      <4>3. restantes = Repeats - 1
        BY <3>2, <3>5, Nombres DEF HInv, Places
      <4>4. manques[l] = 2 /\ manques[l] + 1 - Dits = 1
        BY <2>5, <3>1, <3>2, <4>2, NombresDe DEF Relachee
      <4>5. age[l] <= Rafraichir + Repos
        BY <3>1, <3>2, <4>2, <4>4 DEF Relachee, Periodes
      <4>6. ~(restantes' >= Repeats - 1)
        BY <1>1, <1>2, <4>3, Nombres
      <4>. QED  BY <1>1, <2>2, <4>1, <4>4, <4>5, <4>6 DEF Relachee
    <3>. QED  BY <3>4, <3>5
  <2>. QED  BY <1>1, <2>3, <2>4, <2>5 DEF Bornee
<1>5. CASE ~DoitEmettre
  <2>1. envoi'["refresh"] = Jauger /\ depuis' = depuis
    BY <1>1, <1>5 DEF Ronde, Taches
  <2>2. envoi'["refresh"].lieu = "jauge" /\ ~EnVol("refresh")'
    BY <2>1 DEF Jauger, En, Envoi, EnVol
  <2>3. restantes = 0 /\ ~notifie /\ UnVol' = UnVol
    BY <1>1, <1>2, <1>3, <1>5, <2>2, Nombres
       DEF DoitEmettre, HInv, Places, UnVol, Taches
  <2>4. etat # Vide => depuis < Rafraichir
    BY <1>5, Nombres DEF DoitEmettre, Reaffirmer
  <2>5. Places' /\ Cadence'
    BY <1>1, <1>2, <1>3, <2>1, <2>2, <2>4, Nombres DEF HInv, Places, Cadence
  <2>6. ASSUME NEW l \in Cibles, entendu[l] # Vide, manques[l] < 3
        PROVE  etat # Vide /\ Tenue(l)
    <3>1. ~Relachee(l)
      BY <1>1, <1>2, <2>3, Nombres DEF Relachee
    <3>. QED  BY <2>6, <3>1 DEF HInv, Bornee
  <2>. QED  BY <1>1, <2>1, <2>3, <2>5, <2>6 DEF Bornee, Tenue
<1>. QED  BY <1>4, <1>5
\* A step that leaves what Bornee(l) speaks of as it was.
LEMMA MemeBorne ==
    ASSUME NEW l \in Cibles, Bornee(l),
           UNCHANGED <<etat, restantes, depuis>>,
           entendu'[l] = entendu[l], age'[l] = age[l], manques'[l] = manques[l],
           UnVol' <=> UnVol, EnVol("refresh")' <=> EnVol("refresh"),
           envoi'["scan"].lieu = "emettre" <=> envoi["scan"].lieu = "emettre",
           etat = Vide => Dits' = Dits /\ Ecoule' = Ecoule
    PROVE  Bornee(l)'
<1>1. Tenue(l)' <=> Tenue(l)
  BY DEF Tenue
<1>2. etat = Vide => (Relachee(l)' <=> Relachee(l))
  BY DEF Relachee
<1>. QED  BY <1>1, <1>2 DEF Bornee

\* A send with no matrix in flight goes on, and not to rest: nothing that a
\* bound speaks of moves.
LEMMA Avance ==
    ASSUME HInv, NEW t \in Taches, NEW e,
           envoi[t].lieu # "repos", ~EnVol(t),
           envoi' = [envoi EXCEPT ![t] = e],
           e.lieu = "emettre" => e.type = "status" /\ e.frais,
           t = "scan" => e.lieu \in {"repos", "compter", "basculer"},
           t = "refresh" => e.lieu # "repos",
           UNCHANGED <<decision, cadence, entendu, age, manques>>
    PROVE  Places' /\ Cadence' /\ \A l \in Cibles : Bornee(l)'
<1>1. /\ envoi'[t] = e
      /\ \A u \in Taches : u # t => envoi'[u] = envoi[u]
  BY DEF HInv, Inv, TypeOK
<1>2. /\ etat' = etat /\ restantes' = restantes /\ depuis' = depuis
      /\ attente' = attente /\ notifie' = notifie
  BY DEF decision, cadence
<1>3. \A u \in Taches : EnVol(u)' <=> EnVol(u)
  BY <1>1 DEF EnVol
<1>4. UnVol' <=> UnVol
  BY <1>3 DEF UnVol
<1>5. "scan" \in Taches /\ "refresh" \in Taches
  BY DEF Taches
<1>6. /\ envoi["scan"].lieu = "emettre" <=> envoi'["scan"].lieu = "emettre"
      /\ t = "refresh" => envoi'["scan"].lieu = envoi["scan"].lieu
  BY <1>1, <1>5 DEF HInv, Places, Taches
<1>7. envoi'["refresh"].lieu = "repos" <=> envoi["refresh"].lieu = "repos"
  BY <1>1, <1>5 DEF Taches
<1>8. Dits' = Dits /\ Ecoule' = Ecoule
  BY <1>2, <1>3, <1>5, <1>6, <1>7 DEF Dits, Ecoule
<1>9. Places'
  <2>1. envoi'["scan"].lieu \in {"repos", "emettre", "compter", "basculer"}
    BY <1>1, <1>5 DEF HInv, Places, Taches
  <2>2. envoi'["scan"].lieu = "emettre" => EnVol("scan")'
    BY <1>3, <1>5, <1>6 DEF HInv, Places
  <2>3. envoi'["refresh"].lieu = "emettre" =>
            /\ ~envoi'["refresh"].frais => notifie
            /\ EnVol("refresh")' => ~notifie
    <3>1. CASE t = "refresh"
      BY <1>1, <1>3, <1>5, <3>1
    <3>2. CASE t # "refresh"
      BY <1>1, <1>3, <1>5, <3>2 DEF HInv, Places
    <3>. QED  BY <3>1, <3>2
  <2>. QED  BY <1>2, <1>6, <1>7, <2>1, <2>2, <2>3 DEF HInv, Places
<1>10. Cadence'
  BY <1>2, <1>7 DEF HInv, Cadence
<1>11. ASSUME NEW l \in Cibles PROVE Bornee(l)'
  <2>1. Bornee(l)
    BY DEF HInv
  <2>. QED  BY <1>2, <1>3, <1>4, <1>5, <1>6, <1>8, <2>1, MemeBorne
<1>. QED  BY <1>9, <1>10, <1>11

\* Where a task goes when its send has ended.
LEMMA SuiteAvance ==
    ASSUME HInv, NEW t \in Taches, Suite(t), envoi[t].lieu # "repos", ~EnVol(t),
           UNCHANGED <<decision, cadence, entendu, age, manques>>
    PROVE  Places' /\ Cadence' /\ \A l \in Cibles : Bornee(l)'
<1>1. envoi' = [envoi EXCEPT ![t] = Apres(t)]
  BY DEF Suite
<1>2. Rien.lieu = "repos" /\ Jauger.lieu = "jauge" /\ Finir.lieu = "fin"
  BY DEF Rien, Jauger, Finir, En, Envoi
<1>3. CASE t = "scan"
  BY <1>1, <1>2, <1>3, Avance DEF Apres
<1>4. CASE t # "scan"
  <2>1. Apres(t) = Jauger \/ Apres(t) = Finir
    BY <1>4 DEF Apres
  <2>. QED  BY <1>1, <1>2, <1>4, <2>1, Avance
<1>. QED  BY <1>3, <1>4

LEMMA JaugeBornee ==
    ASSUME HInv, Jauge
    PROVE  Places' /\ Cadence' /\ \A l \in Cibles : Bornee(l)'
<1>1. Trame("status", Vide).type = "status" /\ Trame("status", Vide).frais
      /\ Trame("status", Vide).lieu = "emettre"
  BY DEF Trame, Envoi
<1>2. "refresh" \in Taches /\ ~EnVol("refresh")
  BY DEF Jauge, EnVol, Taches
<1>3. UNCHANGED <<decision, cadence, entendu, age, manques>>
  BY DEF Jauge, listener
<1>. QED  BY <1>1, <1>2, <1>3, Avance DEF Jauge

\* The wait of the next round: one tick while something is held.
LEMMA FinRondeBornee ==
    ASSUME HInv, FinRonde
    PROVE  Places' /\ Cadence' /\ \A l \in Cibles : Bornee(l)'
<1>1. /\ envoi'["refresh"] = Rien /\ Rien.lieu = "repos"
      /\ envoi'["scan"] = envoi["scan"]
      /\ envoi["refresh"].lieu \in {"jauge", "fin"}
      /\ attente' = IF etat # Vide THEN 1 ELSE Repos
      /\ etat' = etat /\ restantes' = restantes /\ depuis' = depuis
      /\ notifie' = notifie
      /\ entendu' = entendu /\ age' = age /\ manques' = manques
  BY DEF FinRonde, HInv, Inv, TypeOK, Taches, decision, listener, Rien, En, Envoi
<1>2. /\ EnVol("scan")' <=> EnVol("scan")
      /\ ~EnVol("refresh") /\ ~EnVol("refresh")'
  BY <1>1 DEF EnVol
<1>3. UnVol' <=> UnVol
  BY <1>2 DEF UnVol, Taches
<1>4. etat = Vide => Dits' = Dits /\ Ecoule' = Ecoule
  BY <1>1, <1>2, Nombres DEF Dits, Ecoule
<1>5. Places' /\ Cadence'
  BY <1>1, <1>2, Nombres DEF HInv, Places, Cadence
<1>6. ASSUME NEW l \in Cibles PROVE Bornee(l)'
  <2>1. Bornee(l)
    BY DEF HInv
  <2>. QED  BY <1>1, <1>2, <1>3, <1>4, <2>1, MemeBorne
<1>. QED  BY <1>5, <1>6

\* Only the refresh task is ever overtaken, by a change that is notified.
LEMMA PerimeBornee ==
    ASSUME HInv, NEW t \in Taches, Perime(t)
    PROVE  Places' /\ Cadence' /\ \A l \in Cibles : Bornee(l)'
<1>1. envoi[t].lieu # "repos" /\ ~EnVol(t) /\ Suite(t)
  BY DEF Perime, Valide, EnVol
<1>2. UNCHANGED <<decision, cadence, entendu, age, manques>>
  BY DEF Perime, listener
<1>. QED  BY <1>1, <1>2, SuiteAvance

LEMMA CompterBornee ==
    ASSUME HInv, NEW t \in Taches, Compter(t) \/ Basculer(t)
    PROVE  Places' /\ Cadence' /\ \A l \in Cibles : Bornee(l)'
<1>1. envoi[t].lieu # "repos" /\ ~EnVol(t)
  BY DEF Compter, Basculer, EnVol
<1>2. UNCHANGED <<decision, cadence, entendu, age, manques>>
  BY DEF Compter, Basculer, listener
<1>3. CASE Suite(t)
  BY <1>1, <1>2, <1>3, SuiteAvance
<1>4. CASE ~Suite(t)
  <2>1. envoi' = [envoi EXCEPT ![t] = En("basculer", envoi[t].type, FALSE, cible')]
    BY <1>4 DEF Compter, Basculer
  <2>2. En("basculer", envoi[t].type, FALSE, cible').lieu = "basculer"
    BY DEF En, Envoi
  <2>. QED  BY <1>1, <1>2, <2>1, <2>2, Avance
<1>. QED  BY <1>3, <1>4
\* A send: what the listener takes ends its wait, what it misses is one more
\* matrix, which was in flight until now.
LEMMA EmettreBornee ==
    ASSUME HInv, NEW t \in Taches, NEW recu \in BOOLEAN, NEW ack \in BOOLEAN,
           Emettre(t, recu, ack)
    PROVE  Places' /\ Cadence' /\ \A l \in Cibles : Bornee(l)'
<1>. DEFINE e == En("compter", envoi[t].type, ack, "dongle")
            pris(l) == recu /\ l = puce /\ envoi[t].format = l
<1>1. /\ envoi[t].lieu = "emettre" /\ envoi[t].frais
      /\ envoi' = [envoi EXCEPT ![t] = e]
      /\ e.lieu = "compter"
      /\ UNCHANGED <<decision, cadence>>
  BY DEF Emettre, Valide, En, Envoi
<1>. HIDE DEF e
<1>2. CASE envoi[t].type # "matrice"
  <2>1. ~EnVol(t) /\ UNCHANGED <<entendu, age, manques>>
    BY <1>2 DEF EnVol, Emettre, Recevoir
  <2>. QED  BY <1>1, <2>1, Avance
<1>3. CASE envoi[t].type = "matrice"
  <2>1. EnVol(t) /\ UnVol
    BY <1>1, <1>3 DEF EnVol, UnVol
  <2>2. /\ envoi'[t].lieu = "compter" /\ ~EnVol(t)'
        /\ \A u \in Taches : u # t => envoi'[u] = envoi[u]
    BY <1>1 DEF HInv, Inv, TypeOK, EnVol
  <2>3. /\ etat' = etat /\ restantes' = restantes /\ depuis' = depuis
        /\ attente' = attente /\ notifie' = notifie
    BY <1>1 DEF decision, cadence
  <2>4. "scan" \in Taches /\ "refresh" \in Taches
        /\ (t = "scan" \/ t = "refresh")
    BY DEF Taches
  <2>5. \A u \in Taches : u # t => (EnVol(u)' <=> EnVol(u))
    BY <2>2 DEF EnVol
  <2>6. t = "refresh" => ~notifie
    BY <1>1, <2>1, <2>4 DEF HInv, Places
  <2>7. Places'
    <3>1. envoi'["scan"].lieu \in {"repos", "emettre", "compter", "basculer"}
      BY <2>2, <2>4 DEF HInv, Places
    <3>2. envoi'["scan"].lieu = "emettre" => EnVol("scan")'
      BY <2>2, <2>4, <2>5 DEF HInv, Places
    <3>3. envoi'["refresh"].lieu = "emettre" =>
              /\ ~envoi'["refresh"].frais => notifie
              /\ EnVol("refresh")' => ~notifie
      BY <2>2, <2>4, <2>5 DEF HInv, Places
    <3>4. ~(envoi'["scan"].lieu = "emettre" /\ envoi'["refresh"].lieu = "repos")
          \/ t = "refresh"
      BY <2>2, <2>4
    <3>5. t = "refresh" => envoi'["refresh"].lieu # "repos"
      BY <2>2
    <3>. QED  BY <2>3, <3>1, <3>2, <3>3, <3>4, <3>5 DEF HInv, Places
  <2>8. Cadence'
    <3>1. envoi'["refresh"].lieu = "repos" => envoi["refresh"].lieu = "repos"
      BY <2>2, <2>4
    <3>2. envoi'["refresh"].lieu # "repos" => envoi["refresh"].lieu # "repos"
      BY <1>1, <2>2, <2>4
    <3>. QED  BY <2>3, <3>1, <3>2 DEF HInv, Cadence
  <2>9. /\ \A l \in Cibles : entendu'[l] = IF pris(l) THEN envoi[t].contenu ELSE entendu[l]
        /\ \A l \in Cibles : age'[l] = IF pris(l) THEN 0 ELSE age[l]
        /\ \A l \in Cibles : manques'[l] = IF entendu'[l] = Vide \/ pris(l) THEN 0
                                           ELSE Un(manques[l])
    BY <1>3 DEF Emettre, Recevoir
  <2>10. envoi[t].contenu = etat
    BY <1>1, <1>3 DEF HInv, Inv, FraisActuel
  <2>11. ASSUME NEW l \in Cibles, entendu'[l] # Vide, manques'[l] < 3
         PROVE  IF etat' # Vide THEN Tenue(l)' ELSE Relachee(l)'
    <3>1. CASE pris(l)
      <4>1. etat # Vide /\ age'[l] = 0 /\ manques'[l] = 0
        BY <2>9, <2>10, <2>11, <3>1
      <4>2. Periodes(0) \in Nat /\ Periodes(1) \in Nat
        BY PeriodesMonte
      <4>3. Tenue(l)'
        BY <2>3, <4>1, <4>2, Nombres DEF Tenue
      <4>. QED  BY <2>3, <4>1, <4>3
    <3>2. CASE ~pris(l)
      <4>1. entendu[l] # Vide /\ age'[l] = age[l] /\ manques'[l] = Un(manques[l])
        BY <2>9, <2>11, <3>2
      <4>2. manques[l] \in 0 .. 1 /\ manques'[l] = manques[l] + 1 /\ age[l] \in Nat
        BY <2>11, <4>1, NombresDe, CadenceAssumption, CountAssumption DEF Un
      <4>3. CASE etat # Vide
        <5>1. Tenue(l)
          BY <4>1, <4>2, <4>3 DEF HInv, Bornee
        <5>2. age'[l] \in Nat /\ age'[l] <= Periodes(manques'[l])
          BY <2>1, <4>1, <4>2, <5>1 DEF Tenue
        <5>3. /\ Periodes(manques'[l]) \in Nat /\ Periodes(manques'[l] + 1) \in Nat
              /\ Periodes(manques'[l]) <= Periodes(manques'[l] + 1)
          BY <4>2, PeriodesMonte
        <5>4. Tenue(l)'
          BY <2>3, <4>1, <5>2, <5>3, Nombres DEF Tenue
        <5>. QED  BY <2>3, <4>3, <5>4
      <4>4. CASE etat = Vide
        <5>1. Relachee(l)
          BY <4>1, <4>2, <4>4 DEF HInv, Bornee
        <5>2. restantes >= Repeats - 1
          BY <4>2, <5>1 DEF Relachee
        <5>3. Dits' = Dits + 1 /\ Ecoule' = Ecoule
          <6>1. CASE t = "scan"
            <7>1. envoi'["refresh"] = envoi["refresh"] /\ (EnVol("refresh")' <=> EnVol("refresh"))
              BY <2>2, <2>4, <2>5, <6>1
            <7>. QED  BY <1>1, <2>2, <2>3, <6>1, <7>1 DEF Dits, Ecoule
          <6>2. CASE t = "refresh"
            <7>1. envoi'["scan"] = envoi["scan"]
              BY <2>2, <2>4, <6>2
            <7>. QED  BY <1>1, <2>1, <2>2, <2>3, <2>6, <6>2, <7>1 DEF Dits, Ecoule
          <6>. QED  BY <2>4, <6>1, <6>2
        <5>4. manques'[l] + 1 - Dits' = manques[l] + 1 - Dits
          BY <4>2, <5>3, Nombres
        <5>5. age'[l] <= Periodes(manques'[l] + 1 - Dits') + Ecoule'
          BY <4>1, <5>1, <5>2, <5>3, <5>4 DEF Relachee
        <5>6. manques'[l] >= Dits'
          BY <4>2, <5>1, <5>2, <5>3, Nombres DEF Relachee
        <5>7. Relachee(l)'
          BY <2>3, <5>2, <5>5, <5>6 DEF Relachee
        <5>. QED  BY <2>3, <4>4, <5>7
      <4>. QED  BY <4>3, <4>4
    <3>. QED  BY <3>1, <3>2
  <2>12. \A l \in Cibles : Bornee(l)'
    BY <2>11 DEF Bornee
  <2>. QED  BY <2>7, <2>8, <2>12
<1>. QED  BY <1>2, <1>3
\* A listener that lets go holds nothing, and the other one is left alone.
LEMMA LacherBornee ==
    ASSUME HInv, NEW k \in Cibles, Silence(k) \/ Partir(k)
    PROVE  Places' /\ Cadence' /\ \A l \in Cibles : Bornee(l)'
<1>1. UNCHANGED <<decision, envoi, cadence>>
  BY DEF Silence, Partir
<1>2. /\ etat' = etat /\ restantes' = restantes /\ depuis' = depuis
      /\ envoi' = envoi /\ attente' = attente /\ notifie' = notifie
  BY <1>1 DEF decision, cadence
<1>3. Places' /\ Cadence'
  BY <1>2 DEF HInv, Places, Cadence, EnVol
<1>4. /\ UnVol' <=> UnVol
      /\ EnVol("refresh")' <=> EnVol("refresh")
      /\ Dits' = Dits /\ Ecoule' = Ecoule
  <2>1. \A t \in Taches : EnVol(t)' <=> EnVol(t)
    BY <1>2 DEF EnVol
  <2>2. EnVol("refresh")' <=> EnVol("refresh")
    BY <2>1 DEF Taches
  <2>. QED  BY <1>2, <2>1, <2>2 DEF UnVol, Dits, Ecoule
<1>5. entendu'[k] = Vide
  BY DEF Silence, Partir, HInv, Inv, TypeOK
<1>6. ASSUME NEW l \in Cibles PROVE Bornee(l)'
  <2>1. CASE l = k
    BY <1>5, <2>1 DEF Bornee
  <2>2. CASE l # k
    <3>1. entendu'[l] = entendu[l] /\ age'[l] = age[l] /\ manques'[l] = manques[l]
      BY <2>2 DEF Silence, Partir, HInv, Inv, TypeOK
    <3>2. Bornee(l)
      BY DEF HInv
    <3>. QED  BY <1>2, <1>4, <3>1, <3>2, MemeBorne
  <2>. QED  BY <2>1, <2>2
<1>. QED  BY <1>3, <1>6

\* A tick, when both tasks are at rest.
LEMMA TickBornee ==
    ASSUME HInv, Tick
    PROVE  Places' /\ Cadence' /\ \A l \in Cibles : Bornee(l)'
<1>1. /\ envoi["scan"].lieu = "repos" /\ envoi["refresh"].lieu = "repos"
      /\ ~notifie /\ attente > 0 /\ attente' = attente - 1
      /\ etat' = etat /\ restantes' = restantes
      /\ envoi' = envoi /\ notifie' = notifie
      /\ entendu' = entendu /\ manques' = manques
  BY DEF Tick, Taches
<1>2. ~EnVol("scan") /\ ~EnVol("refresh") /\ ~EnVol("scan")' /\ ~EnVol("refresh")'
  BY <1>1 DEF EnVol
<1>3. ~UnVol /\ ~UnVol'
  BY <1>2 DEF UnVol, Taches
<1>4. Dits' = 2 /\ Dits = 2 /\ Ecoule' = Ecoule + 1
  BY <1>1, <1>2, Nombres DEF Dits, Ecoule
<1>5. Places' /\ Cadence'
  BY <1>1, <1>2, Nombres DEF HInv, Places, Cadence
<1>6. ASSUME NEW l \in Cibles, entendu[l] # Vide, manques[l] < 3
      PROVE  IF etat' # Vide THEN Tenue(l)' ELSE Relachee(l)'
  <2>1. age'[l] = age[l] + 1 /\ age[l] \in Nat /\ manques[l] \in Nat
    BY <1>6, NombresDe DEF Tick
  <2>2. CASE etat # Vide
    <3>1. Tenue(l)
      BY <1>6, <2>2 DEF HInv, Bornee
    <3>2. depuis' = depuis + 1
      BY <1>1, <2>2, Nombres DEF HInv, Cadence, Tick
    <3>3. Periodes(manques[l]) \in Nat
      BY <2>1, PeriodesMonte
    <3>4. Tenue(l)'
      BY <1>1, <1>3, <2>1, <3>1, <3>2, <3>3, Nombres DEF Tenue
    <3>. QED  BY <1>1, <2>2, <3>4
  <2>3. CASE etat = Vide
    <3>1. Relachee(l)
      BY <1>6, <2>3 DEF HInv, Bornee
    <3>2. /\ restantes >= Repeats - 1 /\ manques[l] >= 2
          /\ age[l] <= Periodes(manques[l] + 1 - 2) + Ecoule
      BY <1>2, <1>4, <3>1 DEF Relachee
    <3>3. Periodes(manques[l] + 1 - 2) \in Nat
      BY <2>1, PeriodesMonte
    <3>4. age'[l] <= Periodes(manques[l] + 1 - 2) + Ecoule'
      BY <1>4, <2>1, <3>2, <3>3, Nombres
    <3>5. Relachee(l)'
      BY <1>1, <1>4, <3>2, <3>4 DEF Relachee
    <3>. QED  BY <1>1, <2>3, <3>5
  <2>. QED  BY <2>2, <2>3
<1>. QED  BY <1>1, <1>5, <1>6 DEF Bornee

LEMMA MemeBornee ==
    ASSUME HInv,
           UNCHANGED <<decision, envoi, cadence, entendu, age, manques>>
    PROVE  Places' /\ Cadence' /\ \A l \in Cibles : Bornee(l)'
BY DEF HInv, Places, Cadence, Bornee, Tenue, Relachee, Dits, Ecoule, EnVol, UnVol,
       decision, cadence

LEMMA NextHInv == HInv /\ [Next]_vars => HInv'
<1>. SUFFICES ASSUME HInv, [Next]_vars PROVE HInv'
  OBVIOUS
<1>1. Inv'
  BY NextInv DEF HInv
<1>2. Places' /\ Cadence' /\ \A l \in Cibles : Bornee(l)'
  <2>1. ASSUME NEW b \in Bitmaps, Changer(b)
        PROVE  Places' /\ Cadence' /\ \A l \in Cibles : Bornee(l)'
    BY <2>1, ChangerBornee
  <2>2. CASE Ronde \/ Jauge \/ FinRonde
    BY <2>2, RondeBornee, JaugeBornee, FinRondeBornee
  <2>3. ASSUME NEW t \in Taches, Envoyer(t)
        PROVE  Places' /\ Cadence' /\ \A l \in Cibles : Bornee(l)'
    BY <2>3, PerimeBornee, EmettreBornee, CompterBornee DEF Envoyer
  <2>4. ASSUME NEW k \in Cibles, Silence(k) \/ Partir(k) \/ Revenir(k)
        PROVE  Places' /\ Cadence' /\ \A l \in Cibles : Bornee(l)'
    <3>1. CASE Silence(k) \/ Partir(k)
      BY <3>1, LacherBornee
    <3>2. CASE Revenir(k)
      BY <3>2, MemeBornee DEF Revenir
    <3>. QED  BY <2>4, <3>1, <3>2
  <2>5. CASE Assainir
    BY <2>5, MemeBornee DEF Assainir, listener
  <2>6. CASE Tick
    BY <2>6, TickBornee
  <2>7. CASE UNCHANGED vars
    BY <2>7, MemeBornee DEF vars, listener
  <2>. QED  BY <2>1, <2>2, <2>3, <2>4, <2>5, <2>6, <2>7 DEF Next
<1>. QED  BY <1>1, <1>2 DEF HInv

\* No listener releases a half that holds something before three of its
\* matrices missed it, whatever the sizes of the deadlines are as long as
\* three periods fit in the silence.
THEOREM HoldsSurvive == Spec => HoldSurvives
<1>1. ASSUME HInv, NEW l \in Cibles, Silence(l), etat # Vide
      PROVE  manques[l] >= 3
  <2>. SUFFICES ASSUME manques[l] < 3 PROVE FALSE
    BY <1>1, NombresDe
  <2>1. manques[l] \in 0 .. 2 /\ age[l] \in Nat /\ age[l] = Delai
    BY <1>1, NombresDe DEF Silence
  <2>2. Tenue(l)
    BY <1>1, <2>1 DEF HInv, Bornee, Silence
  <2>3. /\ Periodes(manques[l]) + Rafraichir = Periodes(manques[l] + 1)
        /\ Periodes(manques[l]) \in Nat
    BY <2>1, PeriodesMonte
  <2>4. age[l] <= Periodes(manques[l] + 1)
    BY <1>1, <2>1, <2>2, <2>3, Nombres DEF Tenue
  <2>5. Periodes(manques[l] + 1) <= 3 * Rafraichir
    BY <2>1, CountAssumption DEF Periodes
  <2>. QED  BY <1>1, <2>1, <2>3, <2>4, <2>5, Nombres, CadenceAssumption
<1>2. HInv => [\A l \in Cibles : Silence(l) /\ etat # Vide => manques[l] >= 3]_vars
  BY <1>1
<1>. QED  BY InitHInv, NextHInv, <1>2, PTL DEF Spec, HoldSurvives
=============================================================================
