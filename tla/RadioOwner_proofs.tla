-------------------------- MODULE RadioOwner_proofs --------------------------
(***************************************************************************)
(* Proofs about RadioOwner: its types, the order of what goes on air, the  *)
(* chip in the owner's mode, and the drain before an excursion, for any    *)
(* number of changes and any depth of the chip's FIFO.                     *)
(***************************************************************************)
EXTENDS RadioOwner, TLAPS

Lieux == {"repos", "verifier", "attendre", "section", "envoyer", "partir",
          "revenir", "ecouter"}
Dedans == {"section", "envoyer", "partir", "revenir", "ecouter"}

-----------------------------------------------------------------------------
(***************************************************************************)
(* The inductive invariant.                                                *)
(***************************************************************************)
\* Whoever is in a section holds the lock; a sleeping half keeps it.
Verrouille ==
    /\ \A t \in Clients : appel[t].lieu \in Dedans => verrou = t
    /\ verrouSommeil => verrou = "veille"

\* Who calls what: changes come from the scan or, after a wake, from the sleep
\* task, modes and excursions from the relay, and only an excursion leaves the
\* owner's target by itself.
Roles ==
    \A t \in Clients :
        /\ appel[t].type \in {"mode", "excursion"} => t = "relais"
        /\ appel[t].lieu \in {"partir", "revenir"} => appel[t].type = "excursion"

\* A change of the left carries the current state until it is over, or was
\* overtaken; what is about to be sent is not older than what is on air, or
\* was overtaken.
Generations ==
    /\ surAir <= gen
    /\ \A t \in Clients :
        /\ appel[t].gen <= gen
        /\ appel[t].type = "change" /\ moitie = "left" =>
              appel[t].gen = gen \/ appel[t].gen \in depassees
        /\ appel[t].lieu = "envoyer" =>
              surAir <= appel[t].gen \/ appel[t].gen \in depassees
        /\ appel[t].lieu = "envoyer" => appel[t].type \in {"change", "repete"}

\* An excursion that has checked the mode keeps it: only the relay changes it.
EnEcoute ==
    \A t \in Clients :
        appel[t].type = "excursion" /\ appel[t].lieu # "verifier"
            => reglage.mode = "prx"

\* Only an excursion or a round takes the chip elsewhere.
Aimed ==
    ~endormie /\ (\A t \in Clients : appel[t].lieu \notin {"revenir", "ecouter"})
        => puce.mode = reglage.mode /\ puce.cible = reglage.cible /\ puce.alim

\* What an excursion finds in the chip arrived after its drain.
Vidange ==
    \A t \in Clients : appel[t].lieu \in {"partir", "revenir"}
        => \A i \in DOMAIN fifo : fifo[i]

Inv == /\ TypeOK /\ Verrouille /\ Roles /\ Generations
       /\ EnEcoute /\ Aimed /\ Vidange

-----------------------------------------------------------------------------
(***************************************************************************)
(* What the helpers do.                                                    *)
(***************************************************************************)
LEMMA ReposType == Repos \in Appels /\ Repos.lieu = "repos" /\ Repos.type = "bus"
                   /\ Repos.gen = 0
BY MaxGenAssumption DEF Repos, Appels, Operations, Reglages, VersDongle

\* A call that starts.
LEMMA AppelerEffect ==
    ASSUME TypeOK, NEW t \in Clients, NEW type \in Operations,
           NEW g \in 0 .. MaxGen, NEW r \in Reglages, Appeler(t, type, g, r)
    PROVE  /\ appel' \in [Clients -> Appels]
           /\ appel'[t].type = type /\ appel'[t].gen = g
           /\ appel'[t].lieu = "verifier"
           /\ \A u \in Clients : u # t => appel'[u] = appel[u]
<1>. DEFINE a == [type |-> type, gen |-> g, reglage |-> r, lieu |-> "verifier"]
<1>1. a \in Appels /\ a.type = type /\ a.gen = g /\ a.lieu = "verifier"
  BY DEF Appels
<1>2. appel' = [appel EXCEPT ![t] = a]
  BY DEF Appeler
<1>. HIDE DEF a
<1>. QED  BY <1>1, <1>2 DEF TypeOK

\* A call that moves on.
LEMMA AllerEffect ==
    ASSUME TypeOK, NEW t \in Clients, NEW lieu \in Lieux, Aller(t, lieu)
    PROVE  /\ appel' \in [Clients -> Appels]
           /\ appel'[t].lieu = lieu
           /\ lieu = "repos" => appel'[t].type = "bus" /\ appel'[t].gen = 0
           /\ lieu # "repos" => /\ appel'[t].type = appel[t].type
                                /\ appel'[t].gen = appel[t].gen
           /\ \A u \in Clients : u # t => appel'[u] = appel[u]
<1>. DEFINE a == En(appel[t], lieu)
<1>1. appel[t] \in Appels
  BY DEF TypeOK
<1>2. /\ a \in Appels /\ a.lieu = lieu
      /\ lieu = "repos" => a.type = "bus" /\ a.gen = 0
      /\ lieu # "repos" => a.type = appel[t].type /\ a.gen = appel[t].gen
  BY <1>1, ReposType DEF En, Appels, Lieux
<1>3. appel' = [appel EXCEPT ![t] = a]
  BY DEF Aller
<1>. HIDE DEF a
<1>. QED  BY <1>2, <1>3 DEF TypeOK

Puces == [mode : {"ptx", "prx"}, alim : BOOLEAN, ce : BOOLEAN,
          cible : {"dongle", "gauche", "lien", "ailleurs", "rdv"}]

\* The registers that the steps write.
LEMMA PuceType ==
    /\ \A r \in Reglages : /\ Puce(r) \in Puces
                           /\ Puce(r).mode = r.mode /\ Puce(r).cible = r.cible
                           /\ Puce(r).alim
    /\ \A p \in Puces, a \in BOOLEAN :
          /\ Registres(p.mode, p.cible, a, FALSE) \in Puces
          /\ Registres(p.mode, p.cible, a, FALSE).mode = p.mode
          /\ Registres(p.mode, p.cible, a, FALSE).cible = p.cible
          /\ Registres(p.mode, p.cible, a, FALSE).alim = a
    /\ Registres("ptx", "ailleurs", TRUE, FALSE) \in Puces
    /\ Registres("prx", "rdv", TRUE, TRUE) \in Puces
BY DEF Puce, Registres, Puces, Reglages

LEMMA ReglageType ==
    /\ VersDongle \in Reglages
    /\ \A r \in Reglages : r.mode \in {"ptx", "prx"}
BY DEF VersDongle, Reglages

\* The empty FIFO.
LEMMA FifoVide == /\ << >> \in Seq(BOOLEAN) /\ Len(<< >>) <= FifoCap
                  /\ \A i \in DOMAIN << >> : FALSE
BY FifoCapAssumption

\* appliquer.
LEMMA AppliquerEffect ==
    ASSUME TypeOK, NEW r \in Reglages, Appliquer(r)
    PROVE  /\ puce' \in Puces /\ reglage' \in Reglages
           /\ fifo' \in Seq(BOOLEAN) /\ Len(fifo') <= FifoCap
           /\ fifo' = << >> \/ fifo' = fifo
           /\ puce'.mode = reglage'.mode /\ puce'.cible = reglage'.cible /\ puce'.alim
           /\ reglage' = r
BY PuceType, FifoVide DEF Appliquer, TypeOK

-----------------------------------------------------------------------------
(***************************************************************************)
(* Calls, then moves, then the chip: each keeps the invariant.             *)
(***************************************************************************)
\* The task that calls was in no call.
LEMMA AppelerAvant ==
    ASSUME NEW t \in Clients, NEW type, NEW g, NEW r, Appeler(t, type, g, r)
    PROVE  appel[t].lieu = "repos"
BY ReposType DEF Appeler

\* A call starts: it holds nothing, and a change carries the new state.
LEMMA AppelerInv ==
    ASSUME Inv, NEW t \in Clients, NEW type \in Operations,
           NEW g \in 0 .. MaxGen, NEW r \in Reglages, Appeler(t, type, g, r),
           gen' \in 0 .. MaxGen, g <= gen',
           type = "change" => g = gen',
           type \in {"mode", "excursion"} => t = "relais",
           veto' \in BOOLEAN, aConcilier' \in BOOLEAN, moitie' = moitie,
           depassees' \subseteq 0 .. MaxGen, depassees \subseteq depassees',
           \/ gen' = gen
           \/ /\ gen < gen'
              /\ \A u \in Clients : moitie = "left" /\ appel[u].type = "change"
                                      => appel[u].gen \in depassees'
    PROVE  Inv'
<1>1. /\ appel' \in [Clients -> Appels]
      /\ appel'[t].type = type /\ appel'[t].gen = g /\ appel'[t].lieu = "verifier"
      /\ \A u \in Clients : u # t => appel'[u] = appel[u]
  BY AppelerEffect DEF Inv
<1>2. UNCHANGED <<verrou, reglage, puce, fifo, endormie, verrouSommeil, decision, surAir>>
  BY DEF Appeler, owner, chip, sleep, autres
<1>3. TypeOK'
  BY <1>1, <1>2 DEF Inv, TypeOK
<1>4. Verrouille'
  BY <1>1, <1>2 DEF Inv, Verrouille, Dedans
<1>5. Roles'
  BY <1>1 DEF Inv, Roles
<1>6. Generations'
  <2>1. surAir \in Nat /\ gen \in Nat /\ gen' \in Nat
        /\ \A u \in Clients : appel[u].gen \in Nat
    BY MaxGenAssumption DEF Inv, TypeOK, Appels
  <2>2. gen <= gen'
    BY <2>1
  <2>3. ASSUME NEW u \in Clients PROVE
            /\ appel'[u].gen <= gen'
            /\ appel'[u].type = "change" /\ moitie' = "left" =>
                  appel'[u].gen = gen' \/ appel'[u].gen \in depassees'
            /\ appel'[u].lieu = "envoyer" =>
                  surAir' <= appel'[u].gen \/ appel'[u].gen \in depassees'
            /\ appel'[u].lieu = "envoyer" => appel'[u].type \in {"change", "repete"}
    <3>1. CASE u = t
      BY <1>1, <3>1
    <3>2. CASE u # t
      BY <1>1, <1>2, <2>1, <2>2, <3>2 DEF Inv, Generations
    <3>. QED  BY <3>1, <3>2
  <2>. QED  BY <1>2, <2>1, <2>2, <2>3 DEF Inv, Generations
<1>7. EnEcoute'
  BY <1>1, <1>2 DEF Inv, EnEcoute
<1>8. Aimed'
  BY <1>1, <1>2, AppelerAvant DEF Inv, Aimed
<1>9. Vidange'
  BY <1>1, <1>2 DEF Inv, Vidange
<1>. QED  BY <1>3, <1>4, <1>5, <1>6, <1>7, <1>8, <1>9 DEF Inv

\* A call that starts, with no change of the half-matrix.
LEMMA AppelerSimple ==
    ASSUME Inv, NEW t \in Clients, NEW type \in Operations \ {"change"},
           NEW g \in 0 .. gen, NEW r \in Reglages, Appeler(t, type, g, r),
           type \in {"mode", "excursion"} => t = "relais",
           UNCHANGED <<gen, aConcilier, moitie, depassees>>, veto' \in BOOLEAN
    PROVE  Inv'
<1>1. /\ gen \in 0 .. MaxGen /\ gen' = gen /\ g \in 0 .. MaxGen /\ g <= gen'
      /\ aConcilier' \in BOOLEAN /\ depassees' \subseteq 0 .. MaxGen
      /\ depassees \subseteq depassees' /\ moitie' = moitie
  BY MaxGenAssumption DEF Inv, TypeOK
<1>. QED  BY <1>1, AppelerInv

\* The generations are numbers.
LEMMA GenNat ==
    ASSUME TypeOK
    PROVE  /\ gen \in Nat /\ surAir \in Nat
           /\ \A t \in Clients : appel[t].gen \in Nat /\ appel[t] \in Appels
BY MaxGenAssumption DEF TypeOK, Appels

\* The early return on the mode.
LEMMA VerifierInv ==
    ASSUME Inv, NEW t \in Clients, Verifier(t)
    PROVE  Inv'
<1>1. PICK lieu \in Lieux :
         /\ Aller(t, lieu)
         /\ lieu \in {"attendre", "repos"}
         /\ appel[t].lieu = "verifier"
  BY DEF Verifier, Lieux, Lieu
<1>2. /\ appel' \in [Clients -> Appels]
      /\ appel'[t].lieu = lieu
      /\ lieu = "repos" => appel'[t].type = "bus" /\ appel'[t].gen = 0
      /\ lieu # "repos" => /\ appel'[t].type = appel[t].type
                           /\ appel'[t].gen = appel[t].gen
      /\ \A u \in Clients : u # t => appel'[u] = appel[u]
  BY <1>1, AllerEffect DEF Inv
<1>3. TypeOK'
  BY <1>2 DEF Verifier, Inv, TypeOK, chip, sleep, autres, Lieu
<1>4. Verrouille'
  BY <1>1, <1>2
     DEF Verifier, Inv, Verrouille, Dedans, Clients, chip, sleep, autres, Lieu
<1>5. Roles'
  BY <1>1, <1>2 DEF Inv, Roles
<1>6. Generations'
  BY <1>1, <1>2, GenNat DEF Verifier, Inv, Generations, chip, sleep, autres, Lieu
<1>7. EnEcoute'
  <2>1. CASE reglage.mode \in ModeRequis(appel[t].type)
    <3>1. appel[t].type = "excursion" => reglage.mode = "prx"
      BY <2>1 DEF ModeRequis
    <3>. QED  BY <1>2, <3>1 DEF Verifier, Inv, EnEcoute
  <2>2. CASE reglage.mode \notin ModeRequis(appel[t].type)
    <3>1. appel'[t].type = "bus"
      BY <2>2, AllerEffect DEF Verifier, Inv, Lieux
    <3>. QED  BY <1>2, <3>1 DEF Verifier, Inv, EnEcoute
  <2>. QED  BY <2>1, <2>2
<1>8. Aimed'
  BY <1>1, <1>2 DEF Verifier, Inv, Aimed, chip, sleep, autres, Lieu
<1>9. Vidange'
  BY <1>1, <1>2 DEF Verifier, Inv, Vidange, chip, sleep, autres, Lieu
<1>. QED  BY <1>3, <1>4, <1>5, <1>6, <1>7, <1>8, <1>9 DEF Inv

\* The lock is free: nobody is in a section.
LEMMA PrendreVerrouInv ==
    ASSUME Inv, NEW t \in Clients, PrendreVerrou(t)
    PROVE  Inv'
<1>1. PICK lieu \in Lieux :
         /\ Aller(t, lieu)
         /\ lieu = "section"
         /\ appel[t].lieu = "attendre"
  BY DEF PrendreVerrou, Lieux, Lieu
<1>2. /\ appel' \in [Clients -> Appels]
      /\ appel'[t].lieu = lieu
      /\ lieu = "repos" => appel'[t].type = "bus" /\ appel'[t].gen = 0
      /\ lieu # "repos" => /\ appel'[t].type = appel[t].type
                           /\ appel'[t].gen = appel[t].gen
      /\ \A u \in Clients : u # t => appel'[u] = appel[u]
  BY <1>1, AllerEffect DEF Inv
<1>3. TypeOK'
  BY <1>2 DEF PrendreVerrou, Inv, TypeOK, Taches, chip, sleep, autres
<1>4. Verrouille'
  BY <1>1, <1>2
     DEF PrendreVerrou, Inv, Verrouille, Dedans, Clients, chip, sleep, autres, Lieu
<1>5. Roles'
  BY <1>1, <1>2 DEF Inv, Roles
<1>6. Generations'
  BY <1>1, <1>2, GenNat DEF PrendreVerrou, Inv, Generations, chip, sleep, autres, Lieu
<1>7. EnEcoute'
  BY <1>1, <1>2 DEF PrendreVerrou, Inv, EnEcoute, chip, sleep, autres, Lieu
<1>8. Aimed'
  BY <1>1, <1>2 DEF PrendreVerrou, Inv, Aimed, chip, sleep, autres, Lieu
<1>9. Vidange'
  BY <1>1, <1>2 DEF PrendreVerrou, Inv, Vidange, chip, sleep, autres, Lieu
<1>. QED  BY <1>3, <1>4, <1>5, <1>6, <1>7, <1>8, <1>9 DEF Inv

\* The lock did not come.
LEMMA RenoncerInv ==
    ASSUME Inv, NEW t \in Clients, Renoncer(t)
    PROVE  Inv'
<1>1. PICK lieu \in Lieux :
         /\ Aller(t, lieu)
         /\ lieu = "repos"
         /\ appel[t].lieu = "attendre"
  BY DEF Renoncer, Lieux, Lieu
<1>2. /\ appel' \in [Clients -> Appels]
      /\ appel'[t].lieu = lieu
      /\ lieu = "repos" => appel'[t].type = "bus" /\ appel'[t].gen = 0
      /\ lieu # "repos" => /\ appel'[t].type = appel[t].type
                           /\ appel'[t].gen = appel[t].gen
      /\ \A u \in Clients : u # t => appel'[u] = appel[u]
  BY <1>1, AllerEffect DEF Inv
<1>3. TypeOK'
  BY <1>2 DEF Renoncer, Inv, TypeOK, owner, chip, sleep, autres, Lieu
<1>4. Verrouille'
  BY <1>1, <1>2
     DEF Renoncer, Inv, Verrouille, Dedans, Clients, owner, chip, sleep, autres, Lieu
<1>5. Roles'
  BY <1>1, <1>2 DEF Inv, Roles
<1>6. Generations'
  BY <1>1, <1>2, GenNat DEF Renoncer, Inv, Generations, owner, chip, sleep, autres, Lieu
<1>7. EnEcoute'
  BY <1>1, <1>2 DEF Renoncer, Inv, EnEcoute, owner, chip, sleep, autres, Lieu
<1>8. Aimed'
  BY <1>1, <1>2 DEF Renoncer, Inv, Aimed, owner, chip, sleep, autres, Lieu
<1>9. Vidange'
  BY <1>1, <1>2 DEF Renoncer, Inv, Vidange, owner, chip, sleep, autres, Lieu
<1>. QED  BY <1>3, <1>4, <1>5, <1>6, <1>7, <1>8, <1>9 DEF Inv

\* A repeat goes on only with the current state.
LEMMA ValiderInv ==
    ASSUME Inv, NEW t \in Clients, Valider(t)
    PROVE  Inv'
<1>1. PICK lieu \in Lieux :
         /\ Aller(t, lieu)
         /\ lieu \in {"envoyer", "repos"}
         /\ appel[t].lieu = "section"
  BY DEF Valider, Lieux, Section, Lieu, Rester, Rendre
<1>2. /\ appel' \in [Clients -> Appels]
      /\ appel'[t].lieu = lieu
      /\ lieu = "repos" => appel'[t].type = "bus" /\ appel'[t].gen = 0
      /\ lieu # "repos" => /\ appel'[t].type = appel[t].type
                           /\ appel'[t].gen = appel[t].gen
      /\ \A u \in Clients : u # t => appel'[u] = appel[u]
  BY <1>1, AllerEffect DEF Inv
<1>3. TypeOK'
  BY <1>2 DEF Valider, Inv, TypeOK, chip, sleep, autres, Section, Lieu, Rester, Rendre
<1>4. Verrouille'
  <2>1. verrou = t
    BY <1>1 DEF Inv, Verrouille, Dedans
  <2>2. CASE Perime(t)
    <3>1. appel'[t].lieu = "repos"
      BY <2>2, AllerEffect DEF Valider, Inv, Lieux, Rendre
    <3>. QED  BY <1>2, <2>1, <3>1
                 DEF Valider, Inv, Verrouille, Dedans, Clients, sleep, autres
  <2>3. CASE ~Perime(t)
    <3>1. verrou' = verrou
      BY <2>3 DEF Valider, Rester
    <3>. QED  BY <1>2, <2>1, <3>1
                 DEF Valider, Inv, Verrouille, Dedans, Clients, sleep, autres
  <2>. QED  BY <2>2, <2>3
<1>5. Roles'
  BY <1>1, <1>2 DEF Inv, Roles
<1>6. Generations'
  <2>1. CASE Perime(t)
    <3>1. appel'[t].lieu = "repos"
      BY <2>1, AllerEffect DEF Valider, Inv, Lieux, Rendre
    <3>. QED  BY <1>2, <3>1, GenNat DEF Valider, Inv, Generations, autres
  <2>2. CASE ~Perime(t)
    <3>1. /\ appel[t].type \in {"change", "repete"}
          /\ moitie \in {"left", "right"}
      BY DEF Valider, Section, Inv, TypeOK
    <3>2. appel[t].gen = gen \/ appel[t].gen \in depassees
      BY <2>2, <3>1 DEF Perime, Inv, Generations
    <3>3. UNCHANGED <<gen, surAir, moitie, depassees>>
      BY DEF Valider, autres
    <3>4. lieu # "repos" => appel[t].gen = gen \/ appel[t].gen \in depassees
      BY <3>2
    <3>. QED  BY <1>1, <1>2, <3>1, <3>2, <3>3, GenNat DEF Inv, Generations
  <2>. QED  BY <2>1, <2>2
<1>7. EnEcoute'
  BY <1>1, <1>2
     DEF Valider, Inv, EnEcoute, chip, sleep, autres, Section, Lieu, Rester, Rendre
<1>8. Aimed'
  BY <1>1, <1>2
     DEF Valider, Inv, Aimed, chip, sleep, autres, Section, Lieu, Rester, Rendre
<1>9. Vidange'
  BY <1>1, <1>2
     DEF Valider, Inv, Vidange, chip, sleep, autres, Section, Lieu, Rester, Rendre
<1>. QED  BY <1>3, <1>4, <1>5, <1>6, <1>7, <1>8, <1>9 DEF Inv

\* The bus is lent.
LEMMA RendreBusInv ==
    ASSUME Inv, NEW t \in Clients, RendreBus(t)
    PROVE  Inv'
<1>1. PICK lieu \in Lieux :
         /\ Aller(t, lieu)
         /\ lieu = "repos"
         /\ appel[t].lieu = "section"
  BY DEF RendreBus, Lieux, Section, Lieu, Rendre
<1>2. /\ appel' \in [Clients -> Appels]
      /\ appel'[t].lieu = lieu
      /\ lieu = "repos" => appel'[t].type = "bus" /\ appel'[t].gen = 0
      /\ lieu # "repos" => /\ appel'[t].type = appel[t].type
                           /\ appel'[t].gen = appel[t].gen
      /\ \A u \in Clients : u # t => appel'[u] = appel[u]
  BY <1>1, AllerEffect DEF Inv
<1>3. TypeOK'
  BY <1>2 DEF RendreBus, Inv, TypeOK, chip, sleep, autres, Section, Lieu, Rendre
<1>4. Verrouille'
  BY <1>1, <1>2
     DEF RendreBus, Inv, Verrouille, Dedans, Clients, chip, sleep, autres, Section,
         Lieu, Rendre
<1>5. Roles'
  BY <1>1, <1>2 DEF Inv, Roles
<1>6. Generations'
  BY <1>1, <1>2, GenNat
     DEF RendreBus, Inv, Generations, chip, sleep, autres, Section, Lieu, Rendre
<1>7. EnEcoute'
  BY <1>1, <1>2 DEF RendreBus, Inv, EnEcoute, chip, sleep, autres, Section, Lieu, Rendre
<1>8. Aimed'
  BY <1>1, <1>2 DEF RendreBus, Inv, Aimed, chip, sleep, autres, Section, Lieu, Rendre
<1>9. Vidange'
  BY <1>1, <1>2 DEF RendreBus, Inv, Vidange, chip, sleep, autres, Section, Lieu, Rendre
<1>. QED  BY <1>3, <1>4, <1>5, <1>6, <1>7, <1>8, <1>9 DEF Inv

\* A mode is set: the relay is in no excursion meanwhile.
LEMMA PoserModeInv ==
    ASSUME Inv, NEW t \in Clients, PoserMode(t)
    PROVE  Inv'
<1>1. PICK lieu \in Lieux :
         /\ Aller(t, lieu)
         /\ lieu = "repos"
         /\ appel[t].lieu = "section"
         /\ appel[t].type = "mode"
  BY DEF PoserMode, Lieux, Section, Lieu, Rendre
<1>2. /\ appel' \in [Clients -> Appels]
      /\ appel'[t].lieu = lieu
      /\ lieu = "repos" => appel'[t].type = "bus" /\ appel'[t].gen = 0
      /\ lieu # "repos" => /\ appel'[t].type = appel[t].type
                           /\ appel'[t].gen = appel[t].gen
      /\ \A u \in Clients : u # t => appel'[u] = appel[u]
  BY <1>1, AllerEffect DEF Inv
<1>3. TypeOK'
  <2>1. appel[t].reglage \in Reglages
    BY DEF Inv, TypeOK, Appels
  <2>2. puce' \in Puces /\ reglage' \in Reglages
        /\ fifo' \in Seq(BOOLEAN) /\ Len(fifo') <= FifoCap
    BY <2>1, AppliquerEffect DEF PoserMode, Inv, TypeOK, chip, Puces
  <2>. QED  BY <1>2, <2>2 DEF PoserMode, Inv, TypeOK, Puces, sleep, autres, Rendre
<1>4. Verrouille'
  BY <1>1, <1>2
     DEF PoserMode, Inv, Verrouille, Dedans, Clients, chip, sleep, autres, Section,
         Lieu, Rendre
<1>5. Roles'
  BY <1>1, <1>2 DEF Inv, Roles
<1>6. Generations'
  BY <1>1, <1>2, GenNat
     DEF PoserMode, Inv, Generations, chip, sleep, autres, Section, Lieu, Rendre
<1>7. EnEcoute'
  <2>1. t = "relais"
    BY <1>1 DEF Inv, Roles
  <2>. QED  BY <1>1, <1>2, <2>1 DEF Inv, EnEcoute, Roles
<1>8. Aimed'
  <2>1. appel[t].reglage \in Reglages
    BY DEF Inv, TypeOK, Appels
  <2>2. CASE Appliquer(appel[t].reglage)
    BY <2>1, <2>2, AppliquerEffect DEF Inv, Aimed
  <2>3. CASE UNCHANGED <<reglage, chip>>
    BY <1>1, <1>2, <2>3 DEF PoserMode, Inv, Aimed, chip, sleep, autres
  <2>. QED  BY <2>2, <2>3 DEF PoserMode
<1>9. Vidange'
  <2>1. appel[t].reglage \in Reglages
    BY DEF Inv, TypeOK, Appels
  <2>2. fifo' = << >> \/ fifo' = fifo
    BY <2>1, AppliquerEffect DEF PoserMode, Inv, chip
  <2>. QED  BY <1>1, <1>2, <2>2, FifoVide DEF Inv, Vidange
<1>. QED  BY <1>3, <1>4, <1>5, <1>6, <1>7, <1>8, <1>9 DEF Inv

\* The same mode, written again.
LEMMA RearmerInv ==
    ASSUME Inv, NEW t \in Clients, Rearmer(t)
    PROVE  Inv'
<1>1. PICK lieu \in Lieux :
         /\ Aller(t, lieu)
         /\ lieu = "repos"
         /\ appel[t].lieu = "section"
  BY DEF Rearmer, Lieux, Section, Lieu, Rendre
<1>2. /\ appel' \in [Clients -> Appels]
      /\ appel'[t].lieu = lieu
      /\ lieu = "repos" => appel'[t].type = "bus" /\ appel'[t].gen = 0
      /\ lieu # "repos" => /\ appel'[t].type = appel[t].type
                           /\ appel'[t].gen = appel[t].gen
      /\ \A u \in Clients : u # t => appel'[u] = appel[u]
  BY <1>1, AllerEffect DEF Inv
<1>3. TypeOK'
  <2>1. puce' \in Puces /\ reglage' \in Reglages
        /\ fifo' \in Seq(BOOLEAN) /\ Len(fifo') <= FifoCap
    BY AppliquerEffect DEF Rearmer, Inv, TypeOK
  <2>. QED  BY <1>2, <2>1 DEF Rearmer, Inv, TypeOK, Puces, sleep, autres, Rendre
<1>4. Verrouille'
  BY <1>1, <1>2
     DEF Rearmer, Inv, Verrouille, Dedans, Clients, chip, sleep, autres, Section, Lieu,
         Rendre
<1>5. Roles'
  BY <1>1, <1>2 DEF Inv, Roles
<1>6. Generations'
  BY <1>1, <1>2, GenNat
     DEF Rearmer, Inv, Generations, chip, sleep, autres, Section, Lieu, Rendre
<1>7. EnEcoute'
  <2>1. reglage' = reglage
    BY AppliquerEffect DEF Rearmer, Inv, TypeOK
  <2>. QED  BY <1>1, <1>2, <2>1 DEF Inv, EnEcoute
<1>8. Aimed'
  BY AppliquerEffect DEF Rearmer, Inv, TypeOK, Aimed
<1>9. Vidange'
  <2>1. fifo' = << >> \/ fifo' = fifo
    BY AppliquerEffect DEF Rearmer, Inv, TypeOK
  <2>. QED  BY <1>1, <1>2, <2>1, FifoVide DEF Inv, Vidange
<1>. QED  BY <1>3, <1>4, <1>5, <1>6, <1>7, <1>8, <1>9 DEF Inv

\* The round comes back to the owner's target.
LEMMA RevenirDuRdvInv ==
    ASSUME Inv, NEW t \in Clients, RevenirDuRdv(t)
    PROVE  Inv'
<1>1. PICK lieu \in Lieux :
         /\ Aller(t, lieu)
         /\ lieu = "repos"
         /\ appel[t].lieu = "ecouter"
  BY DEF RevenirDuRdv, Lieux, Lieu, Rendre
<1>2. /\ appel' \in [Clients -> Appels]
      /\ appel'[t].lieu = lieu
      /\ lieu = "repos" => appel'[t].type = "bus" /\ appel'[t].gen = 0
      /\ lieu # "repos" => /\ appel'[t].type = appel[t].type
                           /\ appel'[t].gen = appel[t].gen
      /\ \A u \in Clients : u # t => appel'[u] = appel[u]
  BY <1>1, AllerEffect DEF Inv
<1>3. TypeOK'
  <2>1. puce' \in Puces /\ reglage' \in Reglages
        /\ fifo' \in Seq(BOOLEAN) /\ Len(fifo') <= FifoCap
    BY AppliquerEffect DEF RevenirDuRdv, Inv, TypeOK
  <2>. QED  BY <1>2, <2>1 DEF RevenirDuRdv, Inv, TypeOK, Puces, sleep, autres, Rendre
<1>4. Verrouille'
  BY <1>1, <1>2
     DEF RevenirDuRdv, Inv, Verrouille, Dedans, Clients, chip, sleep, autres, Lieu,
         Rendre
<1>5. Roles'
  BY <1>1, <1>2 DEF Inv, Roles
<1>6. Generations'
  BY <1>1, <1>2, GenNat
     DEF RevenirDuRdv, Inv, Generations, chip, sleep, autres, Lieu, Rendre
<1>7. EnEcoute'
  <2>1. reglage' = reglage
    BY AppliquerEffect DEF RevenirDuRdv, Inv, TypeOK
  <2>. QED  BY <1>1, <1>2, <2>1 DEF Inv, EnEcoute
<1>8. Aimed'
  BY AppliquerEffect DEF RevenirDuRdv, Inv, TypeOK, Aimed
<1>9. Vidange'
  <2>1. fifo' = << >> \/ fifo' = fifo
    BY AppliquerEffect DEF RevenirDuRdv, Inv, TypeOK
  <2>. QED  BY <1>1, <1>2, <2>1, FifoVide DEF Inv, Vidange
<1>. QED  BY <1>3, <1>4, <1>5, <1>6, <1>7, <1>8, <1>9 DEF Inv

\* A send leaves the chip where it is; it carries nothing older than what is on air.
LEMMA EnvoyerInv ==
    ASSUME Inv, NEW t \in Clients, Envoyer(t)
    PROVE  Inv'
<1>1. PICK lieu \in Lieux :
         /\ Aller(t, lieu)
         /\ lieu = "repos"
         /\ appel[t].lieu = "envoyer"
  BY DEF Envoyer, Lieux, Lieu, Rendre
<1>2. /\ appel' \in [Clients -> Appels]
      /\ appel'[t].lieu = lieu
      /\ lieu = "repos" => appel'[t].type = "bus" /\ appel'[t].gen = 0
      /\ lieu # "repos" => /\ appel'[t].type = appel[t].type
                           /\ appel'[t].gen = appel[t].gen
      /\ \A u \in Clients : u # t => appel'[u] = appel[u]
  BY <1>1, AllerEffect DEF Inv
<1>3. TypeOK'
  <2>0. puce \in Puces /\ puce.alim \in BOOLEAN
    BY DEF Inv, TypeOK, Puces
  <2>1. puce' \in Puces
    BY <2>0, PuceType DEF Envoyer
  <2>2. surAir' \in 0 .. MaxGen
    BY DEF Envoyer, Inv, TypeOK, Appels
  <2>. QED  BY <1>2, <2>1, <2>2 DEF Envoyer, Inv, TypeOK, Puces, sleep, autres, Rendre
<1>4. Verrouille'
  BY <1>1, <1>2
     DEF Envoyer, Inv, Verrouille, Dedans, Clients, chip, sleep, autres, Lieu, Rendre
<1>5. Roles'
  BY <1>1, <1>2 DEF Inv, Roles
<1>6. Generations'
  <2>1. \A u \in Clients : u # t => appel[u].lieu # "envoyer"
    BY <1>1 DEF Inv, Verrouille, Dedans
  <2>2. surAir' \in {surAir, appel[t].gen} /\ UNCHANGED <<gen, moitie, depassees>>
    BY DEF Envoyer, autres
  <2>. QED  BY <1>1, <1>2, <2>1, <2>2, GenNat DEF Inv, Generations
<1>7. EnEcoute'
  BY <1>1, <1>2 DEF Envoyer, Inv, EnEcoute, chip, sleep, autres, Lieu, Rendre
<1>8. Aimed'
  <2>0. puce \in Puces /\ puce.alim \in BOOLEAN
    BY DEF Inv, TypeOK, Puces
  <2>1. puce'.mode = puce.mode /\ puce'.cible = puce.cible /\ puce'.alim = puce.alim
    BY <2>0, PuceType DEF Envoyer
  <2>. QED  BY <1>1, <1>2, <2>1 DEF Envoyer, Inv, Aimed, sleep, autres
<1>9. Vidange'
  BY <1>1, <1>2 DEF Envoyer, Inv, Vidange, chip, sleep, autres, Lieu, Rendre
<1>. QED  BY <1>3, <1>4, <1>5, <1>6, <1>7, <1>8, <1>9 DEF Inv

\* The chip is emptied.
LEMMA DrainerInv ==
    ASSUME Inv, NEW t \in Clients, Drainer(t)
    PROVE  Inv'
<1>1. PICK lieu \in Lieux :
         /\ Aller(t, lieu)
         /\ lieu = "repos"
         /\ appel[t].lieu = "section"
  BY DEF Drainer, Lieux, Section, Lieu, Rendre
<1>2. /\ appel' \in [Clients -> Appels]
      /\ appel'[t].lieu = lieu
      /\ lieu = "repos" => appel'[t].type = "bus" /\ appel'[t].gen = 0
      /\ lieu # "repos" => /\ appel'[t].type = appel[t].type
                           /\ appel'[t].gen = appel[t].gen
      /\ \A u \in Clients : u # t => appel'[u] = appel[u]
  BY <1>1, AllerEffect DEF Inv
<1>3. TypeOK'
  BY <1>2, FifoVide DEF Drainer, Inv, TypeOK, sleep, autres, Rendre
<1>4. Verrouille'
  BY <1>1, <1>2
     DEF Drainer, Inv, Verrouille, Dedans, Clients, chip, sleep, autres, Section, Lieu,
         Rendre
<1>5. Roles'
  BY <1>1, <1>2 DEF Inv, Roles
<1>6. Generations'
  BY <1>1, <1>2, GenNat
     DEF Drainer, Inv, Generations, chip, sleep, autres, Section, Lieu, Rendre
<1>7. EnEcoute'
  BY <1>1, <1>2 DEF Drainer, Inv, EnEcoute, chip, sleep, autres, Section, Lieu, Rendre
<1>8. Aimed'
  BY <1>1, <1>2 DEF Drainer, Inv, Aimed, chip, sleep, autres, Section, Lieu, Rendre
<1>9. Vidange'
  BY <1>1, <1>2, FifoVide DEF Drainer, Inv, Vidange
<1>. QED  BY <1>3, <1>4, <1>5, <1>6, <1>7, <1>8, <1>9 DEF Inv

\* The chip is emptied before it leaves.
LEMMA VidangerInv ==
    ASSUME Inv, NEW t \in Clients, Vidanger(t)
    PROVE  Inv'
<1>1. PICK lieu \in Lieux :
         /\ Aller(t, lieu)
         /\ lieu = "partir"
         /\ appel[t].lieu = "section"
         /\ appel[t].type = "excursion"
  BY DEF Vidanger, Lieux, Section, Lieu, Rester
<1>2. /\ appel' \in [Clients -> Appels]
      /\ appel'[t].lieu = lieu
      /\ lieu = "repos" => appel'[t].type = "bus" /\ appel'[t].gen = 0
      /\ lieu # "repos" => /\ appel'[t].type = appel[t].type
                           /\ appel'[t].gen = appel[t].gen
      /\ \A u \in Clients : u # t => appel'[u] = appel[u]
  BY <1>1, AllerEffect DEF Inv
<1>3. TypeOK'
  BY <1>2, FifoVide DEF Vidanger, Inv, TypeOK, sleep, autres, Rester
<1>4. Verrouille'
  BY <1>1, <1>2
     DEF Vidanger, Inv, Verrouille, Dedans, Clients, chip, sleep, autres, Section, Lieu,
         Rester
<1>5. Roles'
  BY <1>1, <1>2 DEF Inv, Roles
<1>6. Generations'
  BY <1>1, <1>2, GenNat
     DEF Vidanger, Inv, Generations, chip, sleep, autres, Section, Lieu, Rester
<1>7. EnEcoute'
  BY <1>1, <1>2 DEF Vidanger, Inv, EnEcoute, chip, sleep, autres, Section, Lieu, Rester
<1>8. Aimed'
  BY <1>1, <1>2 DEF Vidanger, Inv, Aimed, chip, sleep, autres, Section, Lieu, Rester
<1>9. Vidange'
  BY <1>1, <1>2, FifoVide DEF Vidanger, Inv, Vidange
<1>. QED  BY <1>3, <1>4, <1>5, <1>6, <1>7, <1>8, <1>9 DEF Inv

\* The chip leaves; the owner's target does not move.
LEMMA PartirInv ==
    ASSUME Inv, NEW t \in Clients, Partir(t)
    PROVE  Inv'
<1>1. PICK lieu \in Lieux :
         /\ Aller(t, lieu)
         /\ lieu = "revenir"
         /\ appel[t].lieu = "partir"
  BY DEF Partir, Lieux, Lieu, Rester
<1>2. /\ appel' \in [Clients -> Appels]
      /\ appel'[t].lieu = lieu
      /\ lieu = "repos" => appel'[t].type = "bus" /\ appel'[t].gen = 0
      /\ lieu # "repos" => /\ appel'[t].type = appel[t].type
                           /\ appel'[t].gen = appel[t].gen
      /\ \A u \in Clients : u # t => appel'[u] = appel[u]
  BY <1>1, AllerEffect DEF Inv
<1>3. TypeOK'
  <2>1. puce' \in Puces
    BY PuceType DEF Partir
  <2>. QED  BY <1>2, <2>1 DEF Partir, Inv, TypeOK, Puces, sleep, autres, Rester
<1>4. Verrouille'
  BY <1>1, <1>2
     DEF Partir, Inv, Verrouille, Dedans, Clients, chip, sleep, autres, Lieu, Rester
<1>5. Roles'
  BY <1>1, <1>2 DEF Inv, Roles
<1>6. Generations'
  BY <1>1, <1>2, GenNat DEF Partir, Inv, Generations, chip, sleep, autres, Lieu, Rester
<1>7. EnEcoute'
  BY <1>1, <1>2 DEF Partir, Inv, EnEcoute, chip, sleep, autres, Lieu, Rester
<1>8. Aimed'
  BY <1>1, <1>2 DEF Aimed
<1>9. Vidange'
  BY <1>1, <1>2 DEF Partir, Inv, Vidange, chip, sleep, autres, Lieu, Rester
<1>. QED  BY <1>3, <1>4, <1>5, <1>6, <1>7, <1>8, <1>9 DEF Inv

\* The chip comes back to listen, and the owner was listening.
LEMMA RevenirInv ==
    ASSUME Inv, NEW t \in Clients, Revenir(t)
    PROVE  Inv'
<1>1. PICK lieu \in Lieux :
         /\ Aller(t, lieu)
         /\ lieu = "repos"
         /\ appel[t].lieu = "revenir"
  BY DEF Revenir, Lieux, Lieu, Rendre
<1>2. /\ appel' \in [Clients -> Appels]
      /\ appel'[t].lieu = lieu
      /\ lieu = "repos" => appel'[t].type = "bus" /\ appel'[t].gen = 0
      /\ lieu # "repos" => /\ appel'[t].type = appel[t].type
                           /\ appel'[t].gen = appel[t].gen
      /\ \A u \in Clients : u # t => appel'[u] = appel[u]
  BY <1>1, AllerEffect DEF Inv
<1>3. TypeOK'
  <2>1. puce' \in Puces
    <3>1. reglage.mode = "prx"
      BY <1>1 DEF Inv, Roles, EnEcoute
    <3>2. [mode |-> "prx", cible |-> reglage.cible] \in Reglages
      BY <3>1 DEF Inv, TypeOK, Reglages
    <3>. QED  BY <3>2, PuceType DEF Revenir
  <2>. QED  BY <1>2, <2>1, FifoVide
               DEF Revenir, Inv, TypeOK, Puces, sleep, autres, Rendre
<1>4. Verrouille'
  BY <1>1, <1>2
     DEF Revenir, Inv, Verrouille, Dedans, Clients, chip, sleep, autres, Lieu, Rendre
<1>5. Roles'
  BY <1>1, <1>2 DEF Inv, Roles
<1>6. Generations'
  BY <1>1, <1>2, GenNat DEF Revenir, Inv, Generations, chip, sleep, autres, Lieu, Rendre
<1>7. EnEcoute'
  BY <1>1, <1>2 DEF Revenir, Inv, EnEcoute, chip, sleep, autres, Lieu, Rendre
<1>8. Aimed'
  <2>1. reglage.mode = "prx"
    BY <1>1 DEF Inv, Roles, EnEcoute
  <2>2. [mode |-> "prx", cible |-> reglage.cible] \in Reglages
    BY <2>1 DEF Inv, TypeOK, Reglages
  <2>3. puce'.mode = "prx" /\ puce'.cible = reglage.cible /\ puce'.alim
    BY <2>2, PuceType DEF Revenir
  <2>. QED  BY <2>1, <2>3 DEF Revenir, Aimed
<1>9. Vidange'
  BY <1>1, <1>2, FifoVide DEF Revenir, Inv, Vidange
<1>. QED  BY <1>3, <1>4, <1>5, <1>6, <1>7, <1>8, <1>9 DEF Inv

\* The round aims at the rendezvous.
LEMMA ViserInv ==
    ASSUME Inv, NEW t \in Clients, Viser(t)
    PROVE  Inv'
<1>1. PICK lieu \in Lieux :
         /\ Aller(t, lieu)
         /\ lieu = "ecouter"
         /\ appel[t].lieu = "section"
         /\ appel[t].type = "pair"
  BY DEF Viser, Lieux, Section, Lieu, Rester
<1>2. /\ appel' \in [Clients -> Appels]
      /\ appel'[t].lieu = lieu
      /\ lieu = "repos" => appel'[t].type = "bus" /\ appel'[t].gen = 0
      /\ lieu # "repos" => /\ appel'[t].type = appel[t].type
                           /\ appel'[t].gen = appel[t].gen
      /\ \A u \in Clients : u # t => appel'[u] = appel[u]
  BY <1>1, AllerEffect DEF Inv
<1>3. TypeOK'
  <2>1. puce' \in Puces
    BY PuceType DEF Viser
  <2>. QED  BY <1>2, <2>1, FifoVide DEF Viser, Inv, TypeOK, Puces, sleep, autres, Rester
<1>4. Verrouille'
  BY <1>1, <1>2
     DEF Viser, Inv, Verrouille, Dedans, Clients, chip, sleep, autres, Section, Lieu,
         Rester
<1>5. Roles'
  BY <1>1, <1>2 DEF Inv, Roles
<1>6. Generations'
  BY <1>1, <1>2, GenNat
     DEF Viser, Inv, Generations, chip, sleep, autres, Section, Lieu, Rester
<1>7. EnEcoute'
  BY <1>1, <1>2 DEF Viser, Inv, EnEcoute, chip, sleep, autres, Section, Lieu, Rester
<1>8. Aimed'
  BY <1>1, <1>2 DEF Aimed
<1>9. Vidange'
  BY <1>1, <1>2, FifoVide DEF Viser, Inv, Vidange
<1>. QED  BY <1>3, <1>4, <1>5, <1>6, <1>7, <1>8, <1>9 DEF Inv

\* What happens around the calls: frames, vetoes, sleep, autres and wake-up.
LEMMA FinAppairageInv == ASSUME Inv, FinAppairage PROVE Inv'
<1>1. UNCHANGED <<verrou, reglage, puce, fifo, endormie, verrouSommeil, decision,
                  appel, gen, surAir, aConcilier, moitie, depassees>> /\ veto' = FALSE
  BY DEF FinAppairage, owner, chip, sleep
<1>2. TypeOK'
  BY <1>1 DEF Inv, TypeOK
<1>. QED  BY <1>1, <1>2
             DEF Inv, Verrouille, Roles, Generations, EnEcoute, Aimed, Vidange

LEMMA DeciderVeilleInv == ASSUME Inv, DeciderVeille PROVE Inv'
<1>1. UNCHANGED <<verrou, reglage, puce, fifo, endormie, verrouSommeil,
                  appel, gen, surAir, veto, aConcilier, moitie, depassees>> /\ decision' = TRUE
  BY DEF DeciderVeille, owner, chip, autres
<1>2. TypeOK'
  BY <1>1 DEF Inv, TypeOK
<1>. QED  BY <1>1, <1>2
             DEF Inv, Verrouille, Roles, Generations, EnEcoute, Aimed, Vidange

LEMMA RecevoirTrameInv == ASSUME Inv, RecevoirTrame PROVE Inv'
<1>. DEFINE absent == \E t \in Clients : appel[t].lieu \in {"partir", "revenir"}
<1>1. /\ UNCHANGED <<verrou, reglage, puce, endormie, verrouSommeil, decision,
                     appel, gen, surAir, veto, aConcilier, moitie, depassees>>
      /\ fifo' = Append(fifo, absent) /\ Len(fifo) < FifoCap
  BY DEF RecevoirTrame, owner, sleep, autres
<1>2. absent \in BOOLEAN
  OBVIOUS
<1>3. /\ fifo' \in Seq(BOOLEAN) /\ Len(fifo') <= FifoCap
      /\ \A i \in DOMAIN fifo' : fifo'[i] = absent \/ (i \in DOMAIN fifo /\ fifo'[i] = fifo[i])
  <2>. HIDE DEF absent
  <2>. QED  BY <1>1, <1>2, FifoCapAssumption DEF Inv, TypeOK
<1>4. TypeOK'
  BY <1>1, <1>3 DEF Inv, TypeOK
<1>5. Vidange'
  BY <1>1, <1>3 DEF Inv, Vidange
<1>. QED  BY <1>1, <1>4, <1>5
             DEF Inv, Verrouille, Roles, Generations, EnEcoute, Aimed

LEMMA DormirInv == ASSUME Inv, Dormir PROVE Inv'
<1>1. UNCHANGED <<reglage, fifo, appel, gen, surAir, veto, aConcilier, moitie, depassees>>
  BY DEF Dormir, autres
<1>2. puce' \in Puces
  BY PuceType DEF Dormir, Inv, TypeOK, Puces
<1>3. TypeOK'
  BY <1>1, <1>2 DEF Dormir, Inv, TypeOK, Puces, Taches, Clients
<1>4. Verrouille'
  BY <1>1 DEF Dormir, Inv, Verrouille, TypeOK, Clients
<1>5. Aimed'
  BY DEF Dormir, Aimed
<1>. QED  BY <1>1, <1>3, <1>4, <1>5
             DEF Inv, Roles, Generations, EnEcoute, Vidange

LEMMA ReveillerInv == ASSUME Inv, Reveiller PROVE Inv'
<1>1. /\ UNCHANGED <<decision, appel, gen, surAir, veto, moitie, depassees>>
      /\ aConcilier' \in BOOLEAN
  BY DEF Reveiller
<1>2. /\ puce' \in Puces /\ reglage' = reglage
      /\ fifo' \in Seq(BOOLEAN) /\ Len(fifo') <= FifoCap
      /\ fifo' = << >> \/ fifo' = fifo
      /\ puce'.mode = reglage'.mode /\ puce'.cible = reglage'.cible /\ puce'.alim
  BY AppliquerEffect DEF Reveiller, Inv, TypeOK
<1>3. TypeOK'
  BY <1>1, <1>2 DEF Reveiller, Inv, TypeOK, Puces
<1>4. Verrouille'
  BY <1>1 DEF Reveiller, Inv, Verrouille, TypeOK, Clients
<1>5. Aimed' /\ Vidange'
  BY <1>1, <1>2, FifoVide DEF Inv, Aimed, Vidange
<1>. QED  BY <1>1, <1>2, <1>3, <1>4, <1>5 DEF Inv, Roles, Generations, EnEcoute

LEMMA CallsInv ==
    ASSUME Inv,
           \/ Changer \/ Concilier \/ Repeter \/ Appairer
           \/ \E r \in Reglages : Regler(r)
           \/ \E t \in Clients, type \in Operations : Demander(t, type)
    PROVE  Inv'
<1>1. /\ gen \in 0 .. MaxGen /\ gen \in Nat
      /\ veto \in BOOLEAN /\ aConcilier \in BOOLEAN /\ depassees \subseteq 0 .. MaxGen
  BY MaxGenAssumption DEF Inv, TypeOK
<1>. USE DEF Clients, Operations
<1>2. ASSUME Changer \/ (Concilier /\ Publier("reveil")) PROVE Inv'
  <2>1. PICK t \in {"scan", "reveil"} : Publier(t) /\ aConcilier' \in BOOLEAN
    BY <1>1, <1>2 DEF Changer, Concilier
  <2>2. gen' \in 0 .. MaxGen /\ gen < gen'
    BY <1>1, <2>1, MaxGenAssumption DEF Publier
  <2>3. Appeler(t, "change", gen', VersDongle) /\ veto' = veto /\ moitie' = moitie
    BY <2>1 DEF Publier
  <2>4. /\ depassees' \subseteq 0 .. MaxGen /\ depassees \subseteq depassees'
        /\ \A u \in Clients : moitie = "left" /\ appel[u].type = "change"
                              => appel[u].gen \in depassees'
    <3>1. \A u \in Clients : appel[u].gen \in 0 .. MaxGen
      BY DEF Inv, TypeOK, Appels
    <3>2. depassees' = depassees \cup
             {appel[u].gen : u \in {v \in Clients :
                                      moitie = "left" /\ appel[v].type = "change"}}
      BY <2>1 DEF Publier
    <3>. QED  BY ONLY <1>1, <3>1, <3>2
  <2>5. t \in Clients /\ "change" \in Operations
    OBVIOUS
  <2>. HIDE DEF Clients, Operations
  <2>. QED  BY <1>1, <2>1, <2>2, <2>3, <2>4, <2>5, AppelerInv, ReglageType
<1>3. CASE Repeter
  BY <1>1, <1>3, AppelerSimple, ReglageType DEF Repeter, autres
<1>4. CASE Appairer
  BY <1>1, <1>4, AppelerSimple, ReglageType DEF Appairer
<1>5. ASSUME NEW r \in Reglages, Regler(r) PROVE Inv'
  BY <1>1, <1>5, AppelerSimple DEF Regler, autres
<1>6. ASSUME NEW t \in Clients, NEW type \in Operations, Demander(t, type) PROVE Inv'
  <2>1. /\ Appeler(t, type, 0, VersDongle)
        /\ type # "change" /\ (type \in {"mode", "excursion"} => t = "relais")
        /\ UNCHANGED <<gen, veto, aConcilier, moitie, depassees>>
    BY <1>6 DEF Demander, autres
  <2>. QED  BY <1>1, <2>1, AppelerSimple, ReglageType
<1>7. ASSUME Concilier, ~Publier("reveil") PROVE Inv'
  <2>1. UNCHANGED <<owner, chip, sleep, appel, gen, surAir, veto, moitie, depassees>>
        /\ aConcilier' \in BOOLEAN
    BY <1>7 DEF Concilier
  <2>2. UNCHANGED <<verrou, reglage, puce, fifo, endormie, verrouSommeil, decision>>
    BY <2>1 DEF owner, chip, sleep
  <2>3. TypeOK'
    BY <2>1, <2>2 DEF Inv, TypeOK
  <2>. QED  BY <2>1, <2>2, <2>3
               DEF Inv, Verrouille, Roles, Generations, EnEcoute, Aimed, Vidange
<1>. QED  BY <1>2, <1>3, <1>4, <1>5, <1>6, <1>7

LEMMA ClientInv == ASSUME Inv, NEW t \in Clients, Client(t) PROVE Inv'
BY VerifierInv, PrendreVerrouInv, RenoncerInv, PoserModeInv, RearmerInv, ValiderInv,
   EnvoyerInv, DrainerInv, VidangerInv, PartirInv, RevenirInv, ViserInv,
   RevenirDuRdvInv, RendreBusInv DEF Client

LEMMA NextInv == Inv /\ [Next]_vars => Inv'
<1>. SUFFICES ASSUME Inv, [Next]_vars PROVE Inv'
  OBVIOUS
<1>1. CASE UNCHANGED vars
  <2>1. UNCHANGED <<verrou, reglage, puce, fifo, endormie, verrouSommeil, decision,
                    appel, gen, surAir, veto, aConcilier, moitie, depassees>>
    BY <1>1 DEF vars, owner, chip, sleep, autres
  <2>2. TypeOK'
    BY <2>1 DEF Inv, TypeOK
  <2>. QED  BY <2>1, <2>2
               DEF Inv, Verrouille, Roles, Generations, EnEcoute, Aimed,
                   Vidange
<1>2. CASE Next
  BY <1>2, CallsInv, FinAppairageInv, ClientInv, RecevoirTrameInv, DeciderVeilleInv,
     DormirInv, ReveillerInv DEF Next
<1>. QED  BY <1>1, <1>2

LEMMA InitInv == Init => Inv
<1>. SUFFICES ASSUME Init PROVE Inv
  OBVIOUS
<1>1. TypeOK
  <2>1. puce \in Puces /\ reglage \in Reglages
    BY PuceType, ReglageType DEF Init
  <2>2. appel \in [Clients -> Appels] /\ fifo \in Seq(BOOLEAN) /\ Len(fifo) <= FifoCap
    BY ReposType, FifoVide DEF Init
  <2>3. gen \in 0 .. MaxGen /\ surAir \in 0 .. MaxGen
    BY MaxGenAssumption DEF Init
  <2>. QED  BY <2>1, <2>2, <2>3 DEF Init, TypeOK, Puces
<1>2. \A t \in Clients : appel[t] = Repos
  BY DEF Init
<1>3. Verrouille /\ Roles /\ Generations /\ EnEcoute /\ Vidange
  BY <1>2, ReposType
     DEF Init, Verrouille, Roles, Generations, EnEcoute, Vidange, Dedans
<1>4. Aimed
  BY PuceType, ReglageType DEF Init, Aimed
<1>. QED  BY <1>1, <1>3, <1>4 DEF Inv

-----------------------------------------------------------------------------
(***************************************************************************)
(* The theorems.                                                           *)
(***************************************************************************)
LEMMA InvHolds == Spec => []Inv
BY InitInv, NextInv, PTL DEF Spec

\* Every variable of a half's radio keeps its type, the chip's FIFO included.
THEOREM TypeCorrect == Spec => []TypeOK
<1>1. Inv => TypeOK
  BY DEF Inv
<1>. QED  BY InvHolds, <1>1, PTL

\* Awake and with the lock free, the chip is where its owner believes.
THEOREM ChipFollows == Spec => []ChipFollowsOwner
<1>1. Inv => ChipFollowsOwner
  BY DEF Inv, Verrouille, Aimed, ChipFollowsOwner, Dedans, Clients
<1>. QED  BY InvHolds, <1>1, PTL

\* No half-matrix goes on air after a newer one, whatever waits for the lock,
\* but a change of the left half that another task's change overtook.
THEOREM InOrderOnAir == Spec => OnAirInOrder
<1>1. Inv /\ [Next]_vars => [surAir' < surAir => surAir' \in depassees]_vars
  <2>. SUFFICES ASSUME Inv, Next, surAir' < surAir PROVE surAir' \in depassees
    BY DEF vars
  <2>1. surAir' # surAir
    BY GenNat DEF Inv
  <2>2. ASSUME NEW t \in Clients, Envoyer(t) PROVE surAir' \in depassees
    <3>1. surAir' = appel[t].gen /\ appel[t].lieu = "envoyer"
      BY <2>1, <2>2 DEF Envoyer, Lieu
    <3>. QED  BY <3>1, GenNat DEF Inv, Generations
  <2>3. ASSUME NEW t \in Clients, Client(t) PROVE surAir' = surAir \/ Envoyer(t)
    BY <2>3
       DEF Client, Verifier, PrendreVerrou, Renoncer, PoserMode, Rearmer,
           Valider,
           Drainer, Vidanger, Partir, Revenir, Viser, RevenirDuRdv, RendreBus
  <2>4. \/ surAir' = surAir
        \/ \E t \in Clients : Client(t)
    BY
       DEF Next, Changer, Concilier, Publier, Repeter, Regler, Demander, Appairer,
           Appeler, FinAppairage,
           RecevoirTrame, DeciderVeille, Dormir, Reveiller
  <2>. QED  BY <2>1, <2>2, <2>3, <2>4
<1>. QED  BY InvHolds, <1>1, PTL DEF Spec, OnAirInOrder

\* An excursion throws away no frame that was there before it.
THEOREM Drained == Spec => DrainedBeforeLeaving
<1>1. Inv => [\A t \in Clients : Revenir(t) => \A i \in DOMAIN fifo : fifo[i]]_vars
  BY DEF Inv, Vidange, Revenir, Lieu
<1>. QED  BY InvHolds, <1>1, PTL DEF DrainedBeforeLeaving
=============================================================================
