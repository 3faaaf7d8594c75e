---------------------------- MODULE Typing_proofs ----------------------------
(***************************************************************************)
(* Proofs about what turns keys into reports.                              *)
(*                                                                         *)
(* HidPath, for every set of reports, number of productions and length of  *)
(* the queue: its type invariant, that at rest what the deduplication      *)
(* remembers is what the endpoint was presented, and that the dongle       *)
(* presents its reports in the order it built them.                        *)
(*                                                                         *)
(* KeyEngine, for every keyboard, keymap and set of combos: the edges, the *)
(* keys left down, the end of the holds and the codes of the keys held.    *)
(***************************************************************************)
EXTENDS HidPath, KeyEngine, WellFoundedInduction, SequenceTheorems, TLAPS

(***************************************************************************)
(* HidPath.                                                                *)
(***************************************************************************)
\* The last message of the path, the youngest that was queued and not lost:
\* the engine of a dongle cannot be overtaken while it holds a message, so
\* there the one it holds is younger than the sender's.
Fin ==
    IF hidQueue # << >> THEN hidQueue[Len(hidQueue)]
    ELSE IF carte = "dongle" /\ producteur = "remettre" THEN peek
    ELSE IF envoi = "rendre" THEN suite
    ELSE IF envoi \in {"combiner", "emettre"} THEN msg
    ELSE presente

\* On a keyboard the sender may overtake the message that send_hid_key holds,
\* which then comes back behind its successors: there is room for the report
\* that follows it.
Desordre ==
    /\ carte = "clavier"
    /\ \/ producteur = "remettre" /\ hidQueue = << >> /\ envoi # "rendre"
       \/ producteur = "enfiler" /\ hidQueue = << >>
       \/ producteur = "enfiler" /\ Len(hidQueue) = 1 /\ envoi # "rendre"

DernierRetenu == dedup.valid => Desordre \/ Fin = dedup.last

\* The path in order of production: presented, sent, taken after it, held by
\* the engine, queued, built.
Croissante(q) == \A i, j \in 1 .. Len(q) : i <= j => q[i].no <= q[j].no
Apres(no, q) == \A i \in 1 .. Len(q) : no <= q[i].no
Avant(q, no) == \A i \in 1 .. Len(q) : q[i].no <= no
Precede(no) == no <= courant.no /\ Apres(no, hidQueue)

EnOrdre ==
    carte = "dongle" =>
        /\ Croissante(hidQueue) /\ Avant(hidQueue, courant.no)
        /\ Precede(presente.no)
        /\ envoi # "attente" => Precede(msg.no) /\ presente.no <= msg.no
        /\ envoi = "rendre" =>
              Precede(suite.no) /\ presente.no <= suite.no /\ msg.no <= suite.no
        /\ producteur = "remettre" =>
              /\ Precede(peek.no) /\ presente.no <= peek.no
              /\ envoi # "attente" => msg.no <= peek.no
              /\ envoi = "rendre" => suite.no <= peek.no

-----------------------------------------------------------------------------
(***************************************************************************)
(* The queue: what a task takes in front, puts back in front, or appends.  *)
(***************************************************************************)
LEMMA Prise ==
    ASSUME NEW q \in Seq(Messages), q # << >>
    PROVE  /\ Head(q) = q[1] /\ Head(q) \in Messages
           /\ Tail(q) \in Seq(Messages)
           /\ Len(q) \in Nat \ {0} /\ Len(Tail(q)) = Len(q) - 1
           /\ \A i \in 1 .. Len(Tail(q)) : Tail(q)[i] = q[i + 1]
OBVIOUS

LEMMA Remise ==
    ASSUME NEW q \in Seq(Messages), NEW m \in Messages
    PROVE  /\ <<m>> \o q \in Seq(Messages)
           /\ Len(q) \in Nat /\ Len(<<m>> \o q) = Len(q) + 1
           /\ (<<m>> \o q)[1] = m
           /\ \A i \in 2 .. Len(q) + 1 : (<<m>> \o q)[i] = q[i - 1]
OBVIOUS

LEMMA Ajout ==
    ASSUME NEW q \in Seq(Messages), NEW m \in Messages
    PROVE  /\ Append(q, m) \in Seq(Messages)
           /\ Len(q) \in Nat /\ Len(Append(q, m)) = Len(q) + 1
           /\ Append(q, m)[Len(q) + 1] = m
           /\ \A i \in 1 .. Len(q) : Append(q, m)[i] = q[i]
OBVIOUS

-----------------------------------------------------------------------------
(***************************************************************************)
(* Types.                                                                  *)
(***************************************************************************)
LEMMA Retenue ==
    ASSUME NEW m \in Messages, NEW r \in BOOLEAN, NEW v \in BOOLEAN
    PROVE  [last |-> m, recent |-> r, valid |-> v]
              \in [last : Messages, recent : BOOLEAN, valid : BOOLEAN]
OBVIOUS

LEMMA TypeInit == HidInit => HidTypeOK
<1>1. Zero \in Messages
  BY VideAssumption, MaxNoAssumption DEF Zero, Messages
<1>2. << >> \in Seq(Messages) /\ Len(<< >>) <= QueueCap
  BY QueueCapAssumption
<1>3. [last |-> Zero, recent |-> FALSE, valid |-> FALSE]
         \in [last : Messages, recent : BOOLEAN, valid : BOOLEAN]
  BY <1>1, Retenue, Zenon
<1>. QED  BY <1>1, <1>2, <1>3, VideAssumption DEF HidInit, HidTypeOK

LEMMA TypeNext == HidTypeOK /\ [HidNext]_hidVars => HidTypeOK'
<1>. SUFFICES ASSUME HidTypeOK, [HidNext]_hidVars PROVE HidTypeOK'
  OBVIOUS
<1>. USE VideAssumption, MaxNoAssumption, QueueCapAssumption DEF HidTypeOK
<1>0. Zero \in Messages
  BY DEF Zero, Messages
<1>1. ASSUME NEW k \in Reports, Construire(k) PROVE HidTypeOK'
  BY <1>1 DEF Construire, Messages, sender
<1>2. CASE Choisir
  BY <1>2, Prise DEF Choisir, sender
<1>3. CASE Remettre
  <2>1. hidQueue' \in Seq(Messages) /\ Len(hidQueue') <= QueueCap
    BY <1>3, Remise DEF Remettre, Place
  <2>. QED  BY <1>3, <1>0, <2>1 DEF Remettre, sender
<1>4. CASE Enfiler
  <2>1. hidQueue' \in Seq(Messages) /\ Len(hidQueue') <= QueueCap
    BY <1>4, Ajout DEF Enfiler, Place
  <2>2. dedup' \in [last : Messages, recent : BOOLEAN, valid : BOOLEAN]
    <3>1. [last |-> courant, recent |-> TRUE, valid |-> TRUE]
             \in [last : Messages, recent : BOOLEAN, valid : BOOLEAN]
      BY Retenue, Zenon
    <3>. QED  BY <1>4, <3>1 DEF Enfiler
  <2>. QED  BY <1>4, <2>1, <2>2 DEF Enfiler, sender
<1>5. CASE Vieillir
  BY <1>5 DEF Vieillir, sender
<1>6. CASE Taire \/ Reparler
  BY <1>6 DEF Taire, Reparler, sender
<1>7. CASE Recevoir
  BY <1>7, Prise DEF Recevoir, engine
<1>8. CASE Combiner
  <2>1. hidQueue' \in Seq(Messages) /\ Len(hidQueue') <= QueueCap /\ suite' \in Messages
    <3>1. CASE hidQueue = << >>
      BY <1>8, <3>1 DEF Combiner
    <3>2. CASE hidQueue # << >>
      <4>1. suite' = Head(hidQueue) /\ hidQueue' = Tail(hidQueue)
        BY <1>8, <3>2 DEF Combiner
      <4>2. /\ Head(hidQueue) \in Messages /\ Tail(hidQueue) \in Seq(Messages)
            /\ Len(Tail(hidQueue)) <= QueueCap
        BY <3>2, Prise
      <4>. QED  BY <4>1, <4>2
    <3>. QED  BY <3>1, <3>2
  <2>. QED  BY <1>8, <2>1 DEF Combiner, engine
<1>9. CASE Rendre
  <2>1. hidQueue' \in Seq(Messages) /\ Len(hidQueue') <= QueueCap
    BY <1>9, Remise DEF Rendre, Place
  <2>. QED  BY <1>9, <1>0, <2>1 DEF Rendre, engine
<1>10. CASE EmettreRapport
  <2>1. msg.kb \in Reports
    BY DEF Messages
  <2>. QED  BY <1>10, <1>0, <2>1 DEF EmettreRapport, engine
<1>11. CASE UNCHANGED hidVars
  BY <1>11 DEF hidVars, engine, sender
<1>. QED  BY <1>1, <1>2, <1>3, <1>4, <1>5, <1>6, <1>7, <1>8, <1>9, <1>10, <1>11
          DEF HidNext, Producteur, Sender

\* Types of the tasks and of the queue, which never exceeds its length.
THEOREM TypeCorrect == HidSpec => []HidTypeOK
<1>. QED  BY TypeInit, TypeNext, PTL DEF HidSpec

-----------------------------------------------------------------------------
(***************************************************************************)
(* What the deduplication remembers is the last message of the path.       *)
(***************************************************************************)
LEMMA DernierNext ==
    ASSUME HidTypeOK, DernierRetenu, [HidNext]_hidVars
    PROVE  DernierRetenu'
<1>. USE QueueCapAssumption
<1>0. /\ hidQueue \in Seq(Messages) /\ Len(hidQueue) \in Nat
      /\ hidQueue = << >> <=> Len(hidQueue) = 0
  BY DEF HidTypeOK
<1>1. ASSUME NEW k \in Reports, Construire(k) PROVE DernierRetenu'
  BY <1>1 DEF Construire, DernierRetenu, Desordre, Fin, sender
<1>2. CASE Choisir
  <2>1. CASE hidQueue' = hidQueue
    BY <1>2, <2>1 DEF Choisir, DernierRetenu, Desordre, Fin, sender
  <2>2. CASE hidQueue # << >> /\ hidQueue' = Tail(hidQueue)
    <3>1. CASE Len(hidQueue) >= 2
      BY <1>0, <1>2, <2>2, <3>1, Prise
      DEF Choisir, DernierRetenu, Desordre, Fin, sender
    <3>2. CASE Len(hidQueue) = 1
      BY <1>0, <1>2, <2>2, <3>2, Prise
      DEF Choisir, DernierRetenu, Desordre, Fin, sender, EngineRuns, HidTypeOK
    <3>3. Len(hidQueue) >= 2 \/ Len(hidQueue) = 1
      <4>1. Len(hidQueue) # 0
        BY <1>0, <2>2, Zenon
      <4>2. Len(hidQueue) \in Nat
        BY <1>0
      <4>3. \A n \in Nat : n # 0 => n >= 2 \/ n = 1
        OBVIOUS
      <4>. QED  BY <4>1, <4>2, <4>3, Zenon
    <3>. QED  BY <3>1, <3>2, <3>3
  <2>. QED  BY <1>2, <2>1, <2>2 DEF Choisir
<1>3. CASE Remettre
  <2>1. CASE Place
    BY <1>0, <1>3, <2>1, Remise
    DEF Remettre, DernierRetenu, Desordre, Fin, sender, HidTypeOK, EngineRuns
  <2>2. CASE ~Place
    BY <1>0, <1>3, <2>2
    DEF Remettre, DernierRetenu, Desordre, Fin, sender, HidTypeOK, Place
  <2>. QED  BY <2>1, <2>2
<1>4. CASE Enfiler
  <2>1. CASE Place
    BY <1>0, <1>4, <2>1, Ajout DEF Enfiler, DernierRetenu, Fin, sender, HidTypeOK
  <2>2. CASE ~Place
    BY <1>0, <1>4, <2>2
    DEF Enfiler, DernierRetenu, Desordre, Fin, sender, HidTypeOK, Place
  <2>. QED  BY <2>1, <2>2
<1>5. CASE Vieillir
  BY <1>5 DEF Vieillir, DernierRetenu, Desordre, Fin, sender
<1>6. CASE Taire \/ Reparler
  BY <1>6 DEF Taire, Reparler, DernierRetenu, Desordre, Fin, sender
<1>7. CASE Recevoir
  BY <1>0, <1>7, Prise
  DEF Recevoir, DernierRetenu, Desordre, Fin, engine, SenderRuns, HidTypeOK
<1>8. CASE Combiner
  BY <1>0, <1>8, Prise
  DEF Combiner, DernierRetenu, Desordre, Fin, engine, SenderRuns, HidTypeOK
<1>9. CASE Rendre
  BY <1>0, <1>9, Remise
  DEF Rendre, DernierRetenu, Desordre, Fin, engine, SenderRuns, HidTypeOK, Place
<1>10. CASE EmettreRapport
  BY <1>10 DEF EmettreRapport, DernierRetenu, Desordre, Fin, engine
<1>11. CASE UNCHANGED hidVars
  BY <1>11 DEF hidVars, engine, sender, DernierRetenu, Desordre, Fin
<1>. QED  BY <1>1, <1>2, <1>3, <1>4, <1>5, <1>6, <1>7, <1>8, <1>9, <1>10, <1>11
          DEF HidNext, Producteur, Sender

\* At rest the last report the deduplication remembers is the last one the
\* endpoint was presented, whatever the tasks took out of the queue to look at,
\* found full or lost.
THEOREM CommittedPresented == HidSpec => []CommittedIsPresented
<1>1. HidInit => DernierRetenu
  BY DEF HidInit, DernierRetenu
<1>2. HidTypeOK /\ DernierRetenu /\ [HidNext]_hidVars => (HidTypeOK /\ DernierRetenu)'
  BY TypeNext, DernierNext
<1>3. HidTypeOK /\ DernierRetenu => CommittedIsPresented
  BY DEF CommittedIsPresented, AtRest, DernierRetenu, Desordre, Fin
<1>. QED  BY TypeInit, <1>1, <1>2, <1>3, PTL DEF HidSpec

-----------------------------------------------------------------------------
(***************************************************************************)
(* The reports of the dongle keep their order.                             *)
(***************************************************************************)
LEMMA OrdrePrise ==
    ASSUME HidTypeOK, Croissante(hidQueue), hidQueue # << >>
    PROVE  LET h == Head(hidQueue)  t == Tail(hidQueue)
           IN  /\ Croissante(t) /\ Apres(h.no, t)
               /\ \A n \in Nat : Apres(n, hidQueue) => n <= h.no /\ Apres(n, t)
               /\ \A n \in Nat : Avant(hidQueue, n) => h.no <= n /\ Avant(t, n)
<1>. DEFINE h == Head(hidQueue)  t == Tail(hidQueue)
<1>1. /\ h = hidQueue[1] /\ Len(hidQueue) \in Nat \ {0}
      /\ Len(t) = Len(hidQueue) - 1
      /\ \A i \in 1 .. Len(t) : t[i] = hidQueue[i + 1]
  BY Prise DEF HidTypeOK
<1>. HIDE DEF h, t
<1>2. Croissante(t) /\ Apres(h.no, t)
  <2>1. \A i, j \in 1 .. Len(hidQueue) :
           i <= j => hidQueue[i].no <= hidQueue[j].no
    BY DEF Croissante
  <2>2. Croissante(t)
    <3>. SUFFICES ASSUME NEW i \in 1 .. Len(t), NEW j \in 1 .. Len(t), i <= j
                  PROVE  t[i].no <= t[j].no
      BY DEF Croissante
    <3>1. i + 1 \in 1 .. Len(hidQueue) /\ j + 1 \in 1 .. Len(hidQueue) /\ i + 1 <= j + 1
      BY <1>1
    <3>2. hidQueue[i + 1].no <= hidQueue[j + 1].no
      BY <2>1, <3>1
    <3>. QED  BY <1>1, <3>2
  <2>3. ASSUME NEW i \in 1 .. Len(t) PROVE h.no <= t[i].no
    <3>1. i + 1 \in 1 .. Len(hidQueue) /\ 1 \in 1 .. Len(hidQueue) /\ 1 <= i + 1
      BY <1>1
    <3>2. hidQueue[1].no <= hidQueue[i + 1].no
      BY <2>1, <3>1
    <3>. QED  BY <1>1, <3>2
  <2>. QED  BY <2>2, <2>3 DEF Apres
<1>3. \A n \in Nat : Apres(n, hidQueue) => n <= h.no /\ Apres(n, t)
  BY <1>1 DEF Apres
<1>4. \A n \in Nat : Avant(hidQueue, n) => h.no <= n /\ Avant(t, n)
  BY <1>1 DEF Avant
<1>. QED  BY <1>2, <1>3, <1>4 DEF h, t

LEMMA OrdreRemise ==
    ASSUME HidTypeOK, Croissante(hidQueue), NEW m \in Messages, Apres(m.no, hidQueue)
    PROVE  LET r == <<m>> \o hidQueue
           IN  /\ Croissante(r)
               /\ \A n \in Nat : n <= m.no /\ Apres(n, hidQueue) => Apres(n, r)
               /\ \A n \in Nat : m.no <= n /\ Avant(hidQueue, n) => Avant(r, n)
<1>. DEFINE r == <<m>> \o hidQueue
<1>1. /\ Len(hidQueue) \in Nat /\ Len(r) = Len(hidQueue) + 1 /\ r[1] = m
      /\ \A i \in 2 .. Len(hidQueue) + 1 : r[i] = hidQueue[i - 1]
  BY Remise DEF HidTypeOK
<1>. HIDE DEF r
<1>2. ASSUME NEW i \in 1 .. Len(r), i # 1
      PROVE  i - 1 \in 1 .. Len(hidQueue) /\ r[i] = hidQueue[i - 1]
  BY <1>1, <1>2
<1>3. m.no <= m.no
  BY MaxNoAssumption DEF Messages
<1>4. Croissante(r)
  <2>. SUFFICES ASSUME NEW i \in 1 .. Len(r), NEW j \in 1 .. Len(r), i <= j
                PROVE  r[i].no <= r[j].no
    BY DEF Croissante
  <2>1. CASE i = 1
    BY <1>1, <1>2, <1>3, <2>1 DEF Apres
  <2>2. CASE i # 1
    BY <1>1, <1>2, <2>2 DEF Croissante
  <2>. QED  BY <2>1, <2>2
<1>5. \A n \in Nat : n <= m.no /\ Apres(n, hidQueue) => Apres(n, r)
  BY <1>1, <1>2 DEF Apres
<1>6. \A n \in Nat : m.no <= n /\ Avant(hidQueue, n) => Avant(r, n)
  BY <1>1, <1>2 DEF Avant
<1>. QED  BY <1>4, <1>5, <1>6 DEF r

LEMMA OrdreAjout ==
    ASSUME HidTypeOK, Croissante(hidQueue), Avant(hidQueue, courant.no)
    PROVE  LET a == Append(hidQueue, courant)
           IN  /\ Croissante(a) /\ Avant(a, courant.no)
               /\ \A n \in Nat : n <= courant.no /\ Apres(n, hidQueue) => Apres(n, a)
<1>. DEFINE a == Append(hidQueue, courant)
<1>1. /\ Len(hidQueue) \in Nat /\ Len(a) = Len(hidQueue) + 1
      /\ a[Len(hidQueue) + 1] = courant
      /\ \A i \in 1 .. Len(hidQueue) : a[i] = hidQueue[i]
  BY Ajout DEF HidTypeOK
<1>. HIDE DEF a
<1>2. courant.no <= courant.no
  BY MaxNoAssumption DEF HidTypeOK, Messages
<1>3. Croissante(a)
  <2>. SUFFICES ASSUME NEW i \in 1 .. Len(a), NEW j \in 1 .. Len(a), i <= j
                PROVE  a[i].no <= a[j].no
    BY DEF Croissante
  <2>1. CASE j = Len(hidQueue) + 1
    BY <1>1, <1>2, <2>1 DEF Avant
  <2>2. CASE j # Len(hidQueue) + 1
    BY <1>1, <2>2 DEF Croissante
  <2>. QED  BY <2>1, <2>2
<1>4. Avant(a, courant.no)
  BY <1>1, <1>2 DEF Avant
<1>5. \A n \in Nat : n <= courant.no /\ Apres(n, hidQueue) => Apres(n, a)
  BY <1>1 DEF Apres
<1>. QED  BY <1>3, <1>4, <1>5 DEF a

LEMMA Numeros ==
    ASSUME HidTypeOK
    PROVE  /\ courant.no \in Nat /\ presente.no \in Nat /\ msg.no \in Nat
           /\ suite.no \in Nat /\ peek.no \in Nat
BY MaxNoAssumption DEF HidTypeOK, Messages

LEMMA OrdreNext ==
    ASSUME HidTypeOK, EnOrdre, [HidNext]_hidVars
    PROVE  EnOrdre'
<1>. SUFFICES ASSUME carte' = "dongle" PROVE EnOrdre'
  BY DEF EnOrdre
<1>0. carte = "dongle"
  BY DEF HidNext, Producteur, Sender, Construire, Choisir, Remettre, Enfiler, Vieillir,
         Taire, Reparler, Recevoir, Combiner, Rendre, EmettreRapport, hidVars, engine
<1>. USE <1>0, Numeros
<1>1. ASSUME NEW k \in Reports, Construire(k) PROVE EnOrdre'
  <2>1. courant'.no = courant.no + 1
    BY <1>1 DEF Construire
  <2>2. Avant(hidQueue, courant.no) => Avant(hidQueue, courant.no + 1)
    <3>1. \A i \in 1 .. Len(hidQueue) : hidQueue[i].no \in Nat
      <4>1. \A i \in 1 .. Len(hidQueue) : hidQueue[i] \in Messages
        BY DEF HidTypeOK
      <4>. QED  BY <4>1, MaxNoAssumption DEF Messages
    <3>. QED  BY <3>1 DEF Avant
  <2>. QED  BY <1>1, <2>1, <2>2 DEF Construire, EnOrdre, Precede, sender
<1>2. CASE Choisir
  <2>1. CASE hidQueue' = hidQueue
    BY <1>2, <2>1 DEF Choisir, EnOrdre, Precede, sender
  <2>2. CASE hidQueue # << >> /\ hidQueue' = Tail(hidQueue)
    BY <1>2, <2>2, OrdrePrise DEF Choisir, EnOrdre, Precede, sender
  <2>. QED  BY <1>2, <2>1, <2>2 DEF Choisir
<1>3. CASE Remettre
  <2>1. CASE hidQueue' = hidQueue
    BY <1>3, <2>1 DEF Remettre, EnOrdre, Precede, sender
  <2>2. CASE hidQueue' = <<peek>> \o hidQueue
    BY <1>3, <2>2, OrdreRemise DEF Remettre, EnOrdre, Precede, sender, HidTypeOK
  <2>. QED  BY <1>3, <2>1, <2>2 DEF Remettre
<1>4. CASE Enfiler
  <2>1. CASE hidQueue' = hidQueue
    BY <1>4, <2>1 DEF Enfiler, EnOrdre, Precede, sender
  <2>2. CASE hidQueue' = Append(hidQueue, courant)
    BY <1>4, <2>2, OrdreAjout DEF Enfiler, EnOrdre, Precede, sender
  <2>. QED  BY <1>4, <2>1, <2>2 DEF Enfiler
<1>5. CASE Vieillir
  BY <1>5 DEF Vieillir, EnOrdre, Precede, sender
<1>6. CASE Taire \/ Reparler
  BY <1>6 DEF Taire, Reparler, EnOrdre, Precede, sender
<1>7. CASE Recevoir
  BY <1>7, OrdrePrise DEF Recevoir, EnOrdre, Precede, engine, SenderRuns
<1>8. CASE Combiner
  <2>1. CASE hidQueue = << >>
    BY <1>8, <2>1 DEF Combiner, EnOrdre, Precede, engine
  <2>2. CASE hidQueue # << >>
    BY <1>8, <2>2, OrdrePrise DEF Combiner, EnOrdre, Precede, engine, SenderRuns
  <2>. QED  BY <2>1, <2>2
<1>9. CASE Rendre
  <2>1. CASE hidQueue' = hidQueue
    BY <1>9, <2>1 DEF Rendre, EnOrdre, Precede, engine, SenderRuns
  <2>2. CASE hidQueue' = <<suite>> \o hidQueue
    BY <1>9, <2>2, OrdreRemise DEF Rendre, EnOrdre, Precede, engine, SenderRuns, HidTypeOK
  <2>. QED  BY <1>9, <2>1, <2>2 DEF Rendre
<1>10. CASE EmettreRapport
  BY <1>10 DEF EmettreRapport, EnOrdre, Precede, engine, SenderRuns
<1>11. CASE UNCHANGED hidVars
  BY <1>11 DEF hidVars, engine, sender, EnOrdre, Precede
<1>. QED  BY <1>1, <1>2, <1>3, <1>4, <1>5, <1>6, <1>7, <1>8, <1>9, <1>10, <1>11
          DEF HidNext, Producteur, Sender

\* The endpoint of the dongle is presented its reports in the order the engine
\* built them, although both ends of the queue take messages out and put them
\* back (hid_report.c, send_hid_key and hid_sender_task).
THEOREM Ordered == HidSpec => InOrder
<1>1. HidInit => EnOrdre
  BY DEF HidInit, EnOrdre, Croissante, Avant, Precede, Apres, Zero
<1>2. HidTypeOK /\ EnOrdre /\ [HidNext]_hidVars => (HidTypeOK /\ EnOrdre)'
  BY TypeNext, OrdreNext
<1>3. HidTypeOK /\ EnOrdre /\ [HidNext]_hidVars
         => [carte = "dongle" => presente'.no >= presente.no]_hidVars
  <2>. SUFFICES ASSUME HidTypeOK, EnOrdre, [HidNext]_hidVars, carte = "dongle"
                PROVE  presente'.no >= presente.no
    OBVIOUS
  <2>1. CASE EmettreRapport
    BY <2>1, Numeros DEF EmettreRapport, EnOrdre
  <2>2. CASE presente' = presente
    BY <2>2, Numeros
  <2>. QED  BY <2>1, <2>2 DEF HidNext, Producteur, Sender, Construire, Choisir,
         Remettre, Enfiler, Vieillir, Taire, Reparler, Recevoir, Combiner, Rendre,
         hidVars, sender
<1>. QED  BY TypeInit, <1>1, <1>2, <1>3, PTL DEF HidSpec, InOrder

(***************************************************************************)
(* KeyEngine.                                                              *)
(***************************************************************************)

(***************************************************************************)
(* Induction over 0 .. n, from the minimum of a set of naturals.           *)
(***************************************************************************)
LEMMA Recurrence ==
  ASSUME NEW n \in Nat, NEW S, 0 \in S, \A i \in 0 .. n - 1 : i \in S => i + 1 \in S
  PROVE  \A i \in 0 .. n : i \in S
<1> DEFINE T == {i \in 0 .. n : i \notin S}
<1> DEFINE R == OpToRel(<, Nat)
<1>1. SUFFICES ASSUME T # {} PROVE FALSE
  OBVIOUS
<1>2. T \subseteq Nat
  OBVIOUS
<1>3. IsWellFoundedOn(R, Nat)
  BY NatLessThanWellFounded
<1>4. PICK x \in T : \A y \in T : ~ (<<y, x>> \in R)
  <2> HIDE DEF T, R
  <2> QED BY <1>1, <1>2, <1>3, WFMin
<1>5. \A y \in Nat : y < x => <<y, x>> \in R
  BY <1>4 DEF OpToRel
<1>6. x \in 0 .. n /\ x \notin S
  BY <1>4
<1>7. x # 0
  BY <1>6
<1>8. x - 1 \in 0 .. n - 1 /\ x - 1 \in Nat /\ x - 1 < x /\ x - 1 + 1 = x
  BY <1>6, <1>7
<1>9. x - 1 \in S
  <2>1. x - 1 \notin T
    <3> HIDE DEF T, R
    <3> QED BY <1>4, <1>5, <1>8
  <2> QED BY <1>8, <2>1
<1> QED
  <2>1. x - 1 + 1 \in S
    BY <1>8, <1>9
  <2> QED BY <1>6, <1>8, <2>1

(***************************************************************************)
(* A set of naturals has the minimum that Min chooses.                     *)
(***************************************************************************)
LEMMA MinEst ==
  ASSUME NEW S \in SUBSET Nat, S # {}
  PROVE  Min(S) \in S
<1> DEFINE R == OpToRel(<, Nat)
<1>1. IsWellFoundedOn(R, Nat)
  BY NatLessThanWellFounded
<1>2. PICK x \in S : \A y \in S : ~ (<<y, x>> \in R)
  <2> HIDE DEF R
  <2> QED BY <1>1, WFMin
<1>3. \A y \in Nat : y < x => <<y, x>> \in R
  BY <1>2 DEF OpToRel
<1>4. ASSUME NEW y \in S PROVE x =< y
  <2>1. x \in Nat /\ y \in Nat /\ ~ (y < x)
    <3> HIDE DEF R
    <3> QED BY <1>2, <1>3
  <2> QED BY <2>1
<1> QED BY <1>4 DEF Min

-----------------------------------------------------------------------------
(* The record of the engine.                                               *)

\* The modifiers of the layer-mods, the taps of the keys of the other half.
ModsDeCouche == UNION {keymaps[x[1]][x[2]].m : x \in
                    {y \in Layers \X Keys : keymaps[y[1]][y[2]].t = "mo"}}
TapsDistants == {keymaps[x[1]][x[2]].c : x \in
                    {y \in Layers \X Distantes : keymaps[y[1]][y[2]].t \in {"lt", "mt"}}}

Etats == {"idle", "pending", "hold", "tap"}
Fentes == [st : Etats, k : Keys \cup {0}, a : Actions, age : 0 .. Timeout]
CodesOuRien == Codes \cup {Aucun}
Differes == [k : Keys, c : CodesOuRien, age : {0, 1}]
Moteur ==
    [cur : Layers, last : Layers, changer : Keys \cup {0}, lm : SUBSET Mods,
     slot : [1 .. MaxPending -> Fentes], ordre : Seq(1 .. MaxPending),
     mods : SUBSET Mods, lt : Layers \cup {-1}, base : Layers \cup {-1},
     osm : SUBSET Mods, osl : Layers \cup {-1}, lock : BOOLEAN, to : Actions,
     latch : [Keys -> Layers], prev : SUBSET Keys,
     differe : SUBSET Differes, actifs : SUBSET (1 .. Len(Combos)),
     code : [Keys -> CodesOuRien], extra : [Keys -> Actions],
     tap : SUBSET CodesOuRien, inj : SUBSET CodesOuRien, rmods : SUBSET Mods,
     frappe : BOOLEAN, echu : BOOLEAN]

(***************************************************************************)
(* A step of the engine can be iterated.                                   *)
(***************************************************************************)
LEMMA Iterer ==
  \A n \in Nat, m \in Moteur : \A F \in [Moteur \X (1 .. n) -> Moteur] :
      \E p \in [0 .. n -> Moteur] :
          p[0] = m /\ \A i \in 1 .. n : p[i] = F[<<p[i - 1], i>>]
<1> SUFFICES ASSUME NEW n \in Nat, NEW m \in Moteur, NEW F \in [Moteur \X (1 .. n) -> Moteur]
             PROVE  \E p \in [0 .. n -> Moteur] :
                        p[0] = m /\ \A i \in 1 .. n : p[i] = F[<<p[i - 1], i>>]
  OBVIOUS
<1> DEFINE Jusque(k) == {p \in [0 .. k -> Moteur] :
                             p[0] = m /\ \A i \in 1 .. k : p[i] = F[<<p[i - 1], i>>]}
<1> DEFINE S == {k \in 0 .. n : Jusque(k) # {}}
<1>1. 0 \in S
  <2>1. [i \in 0 .. 0 |-> m] \in Jusque(0)
    OBVIOUS
  <2> QED BY <2>1
<1>2. ASSUME NEW k \in 0 .. n - 1, k \in S PROVE k + 1 \in S
  <2>1. PICK p \in Jusque(k) : TRUE
    BY <1>2
  <2> DEFINE q == [i \in 0 .. k + 1 |-> IF i <= k THEN p[i] ELSE F[<<p[k], k + 1>>]]
  <2>2. q \in [0 .. k + 1 -> Moteur]
    BY <2>1
  <2>3. q[0] = m
    BY <2>1
  <2>4. ASSUME NEW i \in 1 .. k + 1 PROVE q[i] = F[<<q[i - 1], i>>]
    <3>1. CASE i = k + 1
      <4>1. q[i] = F[<<p[k], k + 1>>] /\ q[i - 1] = p[k]
        BY <3>1, <1>2
      <4> QED BY <4>1, <3>1
    <3>2. CASE i # k + 1
      <4>1. i \in 1 .. k /\ i - 1 \in 0 .. k
        BY <3>2
      <4>2. q[i] = p[i] /\ q[i - 1] = p[i - 1]
        BY <4>1
      <4> QED BY <2>1, <4>1, <4>2
    <3> QED BY <3>1, <3>2
  <2>5. q \in Jusque(k + 1)
    <3> HIDE DEF q
    <3> QED BY <2>2, <2>3, <2>4
  <2>6. k + 1 \in 0 .. n
    OBVIOUS
  <2> HIDE DEF Jusque, q
  <2> QED BY <2>5, <2>6
<1>3. n \in S
  <2>1. \A i \in 0 .. n : i \in S
    <3> HIDE DEF Jusque
    <3> QED BY <1>1, <1>2, Recurrence
  <2>2. n \in 0 .. n
    OBVIOUS
  <2> HIDE DEF S
  <2> QED BY <2>1, <2>2
<1> QED BY <1>3

\* The keymap loaded at boot names an action for every key of every layer.
LEMMA Carte ==
  ASSUME keymaps \in Keymaps
  PROVE  keymaps \in [Layers -> [Keys -> Actions]]
  BY KeymapsAssumption

\* The engine at boot.
LEMMA NeufType == Neuf \in Moteur
<1>1. KNo \in Actions
  BY LayersAssumption DEF KNo, Actions, Gammes
<1>2. Libre \in Fentes
  BY <1>1, TimeoutAssumption DEF Libre, Fentes, Etats
<1>3. <<>> \in Seq(1 .. MaxPending)
  OBVIOUS
<1> QED BY <1>1, <1>2, <1>3, LayersAssumption DEF Neuf, Moteur, CodesOuRien

-----------------------------------------------------------------------------
(* tap_hold.c.                                                             *)

\* A slot removed from the order of the layer-taps leaves an order.
LEMMA RetraitOrdre ==
  ASSUME NEW s \in Seq(1 .. MaxPending), NEW x
  PROVE  RemoveFirst(s, x) \in Seq(1 .. MaxPending)
<1> DEFINE P == {i \in 1 .. Len(s) : s[i] = x}
<1>1. CASE P = {}
  BY <1>1 DEF RemoveFirst
<1>2. CASE P # {}
  <2>1. Min(P) \in P
    <3>1. P \in SUBSET Nat
      OBVIOUS
    <3> HIDE DEF P
    <3> QED BY <1>2, <3>1, MinEst
  <2>2. RemoveFirst(s, x) = RemoveAt(s, Min(P))
    BY <1>2 DEF RemoveFirst, SelectInSeq
  <2>3. ASSUME NEW i \in 1 .. Len(s) PROVE RemoveAt(s, i) \in Seq(1 .. MaxPending)
    <3>1. /\ 1 \in Int /\ i - 1 \in Int /\ i + 1 \in Int /\ Len(s) \in Int
          /\ \A j \in 1 .. i - 1 : s[j] \in 1 .. MaxPending
          /\ \A j \in i + 1 .. Len(s) : s[j] \in 1 .. MaxPending
      <4>1. Len(s) \in Nat /\ i \in Int
        OBVIOUS
      <4>2. \A j \in 1 .. Len(s) : s[j] \in 1 .. MaxPending
        BY ElementOfSeq, Zenon
      <4> QED BY <4>1, <4>2
    <3>2. SubSeq(s, 1, i - 1) \in Seq(1 .. MaxPending)
      BY <3>1, SubSeqProperties, Zenon
    <3>3. SubSeq(s, i + 1, Len(s)) \in Seq(1 .. MaxPending)
      BY <3>1, SubSeqProperties, Zenon
    <3> QED BY <3>2, <3>3 DEF RemoveAt
  <2> QED BY <2>1, <2>2, <2>3
<1> QED BY <1>1, <1>2

\* What tap_hold.c leaves alone.
HorsTapHold(n, m) ==
    /\ n.last = m.last /\ n.changer = m.changer /\ n.lm = m.lm /\ n.osm = m.osm
    /\ n.osl = m.osl /\ n.lock = m.lock /\ n.to = m.to /\ n.latch = m.latch
    /\ n.prev = m.prev /\ n.differe = m.differe /\ n.actifs = m.actifs
    /\ n.code = m.code /\ n.extra = m.extra /\ n.tap = m.tap /\ n.inj = m.inj
    /\ n.rmods = m.rmods /\ n.frappe = m.frappe /\ n.echu = m.echu

\* The recomputation of the layer touches the layers alone.
LEMMA Recalcul ==
  ASSUME NEW m \in Moteur
  PROVE  /\ recompute_lt_layer(m) \in Moteur
         /\ HorsTapHold(recompute_lt_layer(m), m)
         /\ recompute_lt_layer(m).slot = m.slot /\ recompute_lt_layer(m).mods = m.mods
<1>0. /\ m.ordre \in Seq(1 .. MaxPending)
      /\ m.slot \in [1 .. MaxPending -> Fentes]
      /\ m.cur \in Layers /\ m.base \in Layers \cup {-1}
  BY DEF Moteur
<1>1. CASE m.ordre = <<>>
  <2> DEFINE c == IF m.base >= 0 THEN m.base ELSE m.cur
  <2>1. c \in Layers
    BY <1>0
  <2>2. recompute_lt_layer(m) = [m EXCEPT !.lt = -1, !.base = -1, !.cur = c]
    BY <1>1 DEF recompute_lt_layer
  <2> HIDE DEF c
  <2> DEFINE n == [m EXCEPT !.lt = -1, !.base = -1, !.cur = c]
  <2>3. n \in Moteur
    BY <2>1 DEF Moteur
  <2>4. HorsTapHold(n, m) /\ n.slot = m.slot /\ n.mods = m.mods
    BY DEF Moteur, HorsTapHold
  <2> QED BY <2>2, <2>3, <2>4
<1>2. CASE m.ordre # <<>>
  <2> DEFINE l == m.slot[Last(m.ordre)].a.l
  <2>1. Last(m.ordre) \in 1 .. MaxPending
    <3>1. Len(m.ordre) \in 1 .. Len(m.ordre)
      BY <1>0, <1>2, EmptySeq
    <3>2. m.ordre[Len(m.ordre)] \in 1 .. MaxPending
      BY <1>0, <3>1, ElementOfSeq, Zenon
    <3> QED BY <3>2 DEF Last
  <2>2. l \in Layers
    BY <1>0, <2>1 DEF Fentes, Actions
  <2>3. recompute_lt_layer(m) = [m EXCEPT !.lt = l, !.cur = l]
    BY <1>2 DEF recompute_lt_layer
  <2> HIDE DEF l
  <2> DEFINE n == [m EXCEPT !.lt = l, !.cur = l]
  <2>4. n \in Moteur
    BY <2>2 DEF Moteur
  <2>5. HorsTapHold(n, m) /\ n.slot = m.slot /\ n.mods = m.mods
    BY DEF Moteur, HorsTapHold
  <2> QED BY <2>3, <2>4, <2>5
<1> QED BY <1>1, <1>2

\* One slot becomes another; the order may change.
LEMMA Fente ==
  ASSUME NEW m \in Moteur, NEW i \in 1 .. MaxPending, NEW f \in Fentes,
         NEW s \in Seq(1 .. MaxPending), NEW b \in Layers \cup {-1}, NEW x \in SUBSET Mods
  PROVE  /\ [m EXCEPT !.slot = [@ EXCEPT ![i] = f]] \in Moteur
         /\ [m EXCEPT !.slot = [@ EXCEPT ![i] = f], !.mods = x] \in Moteur
         /\ [m EXCEPT !.slot = [@ EXCEPT ![i] = f], !.ordre = s, !.base = b] \in Moteur
         /\ [m EXCEPT !.slot = [@ EXCEPT ![i] = f], !.ordre = s] \in Moteur
<1>1. [m.slot EXCEPT ![i] = f] \in [1 .. MaxPending -> Fentes]
  BY DEF Moteur
<1> QED BY <1>1 DEF Moteur

\* A slot becomes a hold, and gives its modifiers.
LEMMA ActiverUne ==
  ASSUME NEW m \in Moteur, NEW i \in 1 .. MaxPending
  PROVE  LET n == activate_hold(m, i)
         IN  /\ n \in Moteur /\ HorsTapHold(n, m)
             /\ n.slot = [m.slot EXCEPT ![i] = [m.slot[i] EXCEPT !.st = "hold"]]
             /\ n.mods = IF m.slot[i].a.t = "lt" THEN m.mods ELSE m.mods \cup m.slot[i].a.m
<1> DEFINE f == [m.slot[i] EXCEPT !.st = "hold"]
<1> DEFINE s == Append(m.ordre, i)
<1> DEFINE b == IF m.lt < 0 THEN m.cur ELSE m.base
<1> DEFINE x == m.mods \cup m.slot[i].a.m
<1>1. /\ m.slot \in [1 .. MaxPending -> Fentes] /\ m.ordre \in Seq(1 .. MaxPending)
      /\ m.base \in Layers \cup {-1} /\ m.cur \in Layers /\ m.mods \in SUBSET Mods
  BY DEF Moteur
<1>2. f \in Fentes /\ s \in Seq(1 .. MaxPending) /\ b \in Layers \cup {-1} /\ x \in SUBSET Mods
  <2>1. m.slot[i] \in Fentes
    BY <1>1
  <2>2. f \in Fentes
    BY <2>1 DEF Fentes, Etats
  <2>3. s \in Seq(1 .. MaxPending)
    BY <1>1
  <2>4. b \in Layers \cup {-1} /\ x \in SUBSET Mods
    BY <1>1, <2>1 DEF Fentes, Actions
  <2> QED BY <2>2, <2>3, <2>4
<1>3. CASE m.slot[i].a.t = "lt"
  <2> DEFINE h == [m EXCEPT !.slot = [@ EXCEPT ![i] = f], !.ordre = s, !.base = b]
  <2>1. activate_hold(m, i) = recompute_lt_layer(h)
    BY <1>3 DEF activate_hold, Moteur
  <2>2. h \in Moteur
    BY <1>2, Fente
  <2>3. HorsTapHold(h, m) /\ h.slot = [m.slot EXCEPT ![i] = f] /\ h.mods = m.mods
    BY DEF HorsTapHold, Moteur
  <2> HIDE DEF h
  <2>4. /\ recompute_lt_layer(h) \in Moteur
        /\ HorsTapHold(recompute_lt_layer(h), h)
        /\ recompute_lt_layer(h).slot = h.slot /\ recompute_lt_layer(h).mods = h.mods
    BY <2>2, Recalcul
  <2>5. HorsTapHold(recompute_lt_layer(h), m)
    BY <2>3, <2>4 DEF HorsTapHold
  <2> QED BY <1>3, <2>1, <2>3, <2>4, <2>5
<1>4. CASE m.slot[i].a.t # "lt"
  <2> DEFINE h == [m EXCEPT !.slot = [@ EXCEPT ![i] = f], !.mods = x]
  <2>1. activate_hold(m, i) = h
    BY <1>4 DEF activate_hold, Moteur
  <2>2. h \in Moteur
    BY <1>2, Fente
  <2>3. HorsTapHold(h, m) /\ h.slot = [m.slot EXCEPT ![i] = f] /\ h.mods = x
    BY DEF HorsTapHold, Moteur
  <2> HIDE DEF h
  <2> QED BY <1>4, <2>1, <2>2, <2>3
<1> QED BY <1>3, <1>4

\* The fields of a slot.
LEMMA LesFentes ==
  ASSUME NEW m \in Moteur, NEW i \in 1 .. MaxPending
  PROVE  /\ m.slot \in [1 .. MaxPending -> Fentes]
         /\ m.slot[i] \in Fentes /\ m.slot[i].st \in Etats /\ m.slot[i].a \in Actions
         /\ m.slot[i].k \in Keys \cup {0} /\ m.slot[i].k \in Nat
         /\ m.slot[i].age \in 0 .. Timeout
<1>1. m.slot \in [1 .. MaxPending -> Fentes] /\ m.slot[i] \in Fentes
  BY DEF Moteur
<1>2. m.slot[i].k \in Keys \cup {0} /\ m.slot[i].k \in Nat
  BY <1>1, KeysAssumption DEF Fentes, Keys
<1> QED BY <1>1, <1>2 DEF Fentes

\* A free slot is one.
LEMMA LibreFente == Libre \in Fentes
<1>1. KNo \in Actions
  BY LayersAssumption DEF KNo, Actions, Gammes
<1> QED BY <1>1, TimeoutAssumption DEF Libre, Fentes, Etats

\* A hold ends: its slot is free and its modifiers go.
LEMMA LibererUne ==
  ASSUME NEW m \in Moteur, NEW i \in 1 .. MaxPending
  PROVE  LET n == deactivate_hold(m, i)
         IN  /\ n \in Moteur /\ HorsTapHold(n, m)
             /\ n.slot = [m.slot EXCEPT ![i] = Libre]
             /\ n.mods = IF m.slot[i].a.t = "lt" THEN m.mods ELSE m.mods \ m.slot[i].a.m
<1> DEFINE s == RemoveFirst(m.ordre, i)
<1> DEFINE x == m.mods \ m.slot[i].a.m
<1>1. /\ m.slot \in [1 .. MaxPending -> Fentes] /\ m.ordre \in Seq(1 .. MaxPending)
      /\ m.base \in Layers \cup {-1} /\ m.cur \in Layers /\ m.mods \in SUBSET Mods
  BY DEF Moteur
<1>2. Libre \in Fentes /\ s \in Seq(1 .. MaxPending) /\ x \in SUBSET Mods
  BY <1>1, LibreFente, RetraitOrdre
<1>3. CASE m.slot[i].a.t = "lt"
  <2> DEFINE h == [m EXCEPT !.slot = [@ EXCEPT ![i] = Libre], !.ordre = s]
  <2>1. deactivate_hold(m, i) = recompute_lt_layer(h)
    BY <1>3 DEF deactivate_hold, Moteur
  <2>2. h \in Moteur
    BY <1>1, <1>2, Fente
  <2>3. HorsTapHold(h, m) /\ h.slot = [m.slot EXCEPT ![i] = Libre] /\ h.mods = m.mods
    BY DEF HorsTapHold, Moteur
  <2> HIDE DEF h
  <2>4. /\ recompute_lt_layer(h) \in Moteur
        /\ HorsTapHold(recompute_lt_layer(h), h)
        /\ recompute_lt_layer(h).slot = h.slot /\ recompute_lt_layer(h).mods = h.mods
    BY <2>2, Recalcul
  <2>5. HorsTapHold(recompute_lt_layer(h), m)
    BY <2>3, <2>4 DEF HorsTapHold
  <2> QED BY <1>3, <2>1, <2>3, <2>4, <2>5
<1>4. CASE m.slot[i].a.t # "lt"
  <2> DEFINE h == [m EXCEPT !.slot = [@ EXCEPT ![i] = Libre], !.mods = x]
  <2>1. deactivate_hold(m, i) = h
    BY <1>4 DEF deactivate_hold, Moteur
  <2>2. h \in Moteur
    BY <1>1, <1>2, Fente
  <2>3. HorsTapHold(h, m) /\ h.slot = [m.slot EXCEPT ![i] = Libre] /\ h.mods = x
    BY DEF HorsTapHold, Moteur
  <2> HIDE DEF h
  <2> QED BY <1>4, <2>1, <2>2, <2>3
<1> QED BY <1>3, <1>4

\* A release: the first slot of the key, if it has one, becomes a tap or free.
LEMMA RelacherUne ==
  ASSUME NEW m \in Moteur, NEW k \in Keys
  PROVE  LET n == tap_hold_on_release(m, k)
         IN  /\ n \in Moteur /\ HorsTapHold(n, m)
             /\ \/ find_by_pos(m, k) = {} /\ n = m
                \/ \E i \in find_by_pos(m, k) :
                     \/ /\ m.slot[i].st = "pending" /\ n.mods = m.mods
                        /\ n.slot = [m.slot EXCEPT ![i] = [m.slot[i] EXCEPT !.st = "tap"]]
                     \/ /\ m.slot[i].st = "hold"
                        /\ n.slot = [m.slot EXCEPT ![i] = Libre]
                        /\ n.mods = IF m.slot[i].a.t = "lt" THEN m.mods
                                    ELSE m.mods \ m.slot[i].a.m
                     \/ /\ m.slot[i].st = "tap" /\ n.mods = m.mods
                        /\ n.slot = [m.slot EXCEPT ![i] = Libre]
<1>0. m.slot \in [1 .. MaxPending -> Fentes] /\ m.mods \in SUBSET Mods
      /\ m.ordre \in Seq(1 .. MaxPending) /\ m.base \in Layers \cup {-1}
  BY DEF Moteur
<1>1. CASE find_by_pos(m, k) = {}
  BY <1>1 DEF tap_hold_on_release, HorsTapHold
<1>2. CASE find_by_pos(m, k) # {}
  <2> DEFINE i == Min(find_by_pos(m, k))
  <2>1. find_by_pos(m, k) \in SUBSET Nat
    BY <1>0, MaxPendingAssumption DEF find_by_pos
  <2>2. i \in find_by_pos(m, k)
    BY <1>2, <2>1, MinEst
  <2> HIDE DEF i
  <2>3. i \in 1 .. MaxPending /\ m.slot[i].st # "idle" /\ m.slot[i] \in Fentes
    BY <1>0, <2>2 DEF find_by_pos
  <2>4. m.slot[i].st \in {"pending", "hold", "tap"}
    BY <2>3 DEF Fentes, Etats
  <2>5. CASE m.slot[i].st = "pending"
    <3> DEFINE f == [m.slot[i] EXCEPT !.st = "tap"]
    <3> DEFINE h == [m EXCEPT !.slot = [@ EXCEPT ![i] = f]]
    <3>1. f \in Fentes
      BY <2>3 DEF Fentes, Etats
    <3>2. tap_hold_on_release(m, k) = h
      BY <1>2, <2>5 DEF tap_hold_on_release, i, Moteur
    <3>3. h \in Moteur
      BY <1>0, <2>3, <3>1, Fente
    <3>4. HorsTapHold(h, m) /\ h.slot = [m.slot EXCEPT ![i] = f] /\ h.mods = m.mods
      BY DEF HorsTapHold, Moteur
    <3> HIDE DEF h
    <3> QED BY <2>2, <2>5, <3>2, <3>3, <3>4
  <2>6. CASE m.slot[i].st = "hold"
    <3>1. tap_hold_on_release(m, k) = deactivate_hold(m, i)
      BY <1>2, <2>6 DEF tap_hold_on_release, i
    <3> DEFINE o == deactivate_hold(m, i)
    <3>2. /\ o \in Moteur /\ HorsTapHold(o, m)
          /\ o.slot = [m.slot EXCEPT ![i] = Libre]
          /\ o.mods = IF m.slot[i].a.t = "lt" THEN m.mods ELSE m.mods \ m.slot[i].a.m
      BY <2>3, LibererUne
    <3> HIDE DEF o
    <3>3. tap_hold_on_release(m, k) = o
      BY <3>1 DEF o
    <3> QED BY <2>2, <2>6, <3>2, <3>3
  <2>7. CASE m.slot[i].st = "tap"
    <3> DEFINE h == [m EXCEPT !.slot = [@ EXCEPT ![i] = Libre]]
    <3>1. tap_hold_on_release(m, k) = h
      BY <1>2, <2>7 DEF tap_hold_on_release, i, Moteur
    <3>2. h \in Moteur
      BY <1>0, <2>3, LibreFente, Fente
    <3>3. HorsTapHold(h, m) /\ h.slot = [m.slot EXCEPT ![i] = Libre] /\ h.mods = m.mods
      BY DEF HorsTapHold, Moteur
    <3> HIDE DEF h
    <3> QED BY <2>2, <2>7, <3>1, <3>2, <3>3
  <2> QED BY <2>4, <2>5, <2>6, <2>7
<1> QED BY <1>1, <1>2

\* The releases of a build, one key after another: the recursive function of
\* Pour exists and is a chain of states.
LEMMA RelacherPas ==
  ASSUME NEW m \in Moteur, NEW h
  PROVE  \E g : /\ g[0] = m
                /\ \A i \in 1 .. NKeys :
                     g[i] = IF i \in m.prev \ h THEN tap_hold_on_release(g[i - 1], i) ELSE g[i - 1]
                /\ Relacher(m, h) = g[NKeys]
<1> DEFINE S == m.prev \ h
<1> DEFINE U(n, i) == IF i \in S THEN tap_hold_on_release(n, i) ELSE n
<1> DEFINE F == [x \in Moteur \X (1 .. NKeys) |-> U(x[1], x[2])]
<1>0. NKeys \in Nat
  BY KeysAssumption
<1>1. F \in [Moteur \X (1 .. NKeys) -> Moteur]
  <2>1. \A n \in Moteur, i \in 1 .. NKeys : tap_hold_on_release(n, i) \in Moteur
    BY RelacherUne DEF Keys
  <2> QED BY <2>1
<1>2. PICK p \in [0 .. NKeys -> Moteur] :
             p[0] = m /\ \A i \in 1 .. NKeys : p[i] = F[<<p[i - 1], i>>]
  <2> HIDE DEF F, U, S
  <2> QED BY <1>0, <1>1, Iterer, Zenon
<1>3. \A i \in 1 .. NKeys : p[i] = U(p[i - 1], i)
  <2> SUFFICES ASSUME NEW i \in 1 .. NKeys PROVE p[i] = U(p[i - 1], i)
    OBVIOUS
  <2>1. <<p[i - 1], i>> \in Moteur \X (1 .. NKeys)
    BY <1>0, <1>2
  <2> QED BY <1>2, <2>1
<1> DEFINE Eq(q) == q = [i \in 0 .. NKeys |-> IF i = 0 THEN m
                           ELSE IF i \in S THEN tap_hold_on_release(q[i - 1], i) ELSE q[i - 1]]
<1>4. Eq(p)
  BY <1>0, <1>2, <1>3
<1> DEFINE g == CHOOSE q : Eq(q)
<1>5. Eq(g)
  <2> HIDE DEF Eq
  <2> QED BY <1>4, Zenon
<1>6. Relacher(m, h) = g[NKeys]
  BY DEF Relacher, Pour
<1>7. g[0] = m /\ \A i \in 1 .. NKeys : g[i] = U(g[i - 1], i)
  <2> HIDE DEF g
  <2> QED BY <1>0, <1>5
<1> QED BY <1>6, <1>7

\* So are the decisions of the tap-holds.
LEMMA ActiverPas ==
  ASSUME NEW m \in Moteur, NEW S
  PROVE  \E g : /\ g[0] = m
                /\ \A i \in 1 .. MaxPending :
                     g[i] = IF i \in S THEN activate_hold(g[i - 1], i) ELSE g[i - 1]
                /\ Activer(m, S) = g[MaxPending]
<1> DEFINE U(n, i) == IF i \in S THEN activate_hold(n, i) ELSE n
<1> DEFINE F == [x \in Moteur \X (1 .. MaxPending) |-> U(x[1], x[2])]
<1>0. MaxPending \in Nat
  BY MaxPendingAssumption
<1>1. F \in [Moteur \X (1 .. MaxPending) -> Moteur]
  <2>1. \A n \in Moteur, i \in 1 .. MaxPending : activate_hold(n, i) \in Moteur
    BY ActiverUne
  <2> QED BY <2>1
<1>2. PICK p \in [0 .. MaxPending -> Moteur] :
             p[0] = m /\ \A i \in 1 .. MaxPending : p[i] = F[<<p[i - 1], i>>]
  <2> HIDE DEF F, U
  <2> QED BY <1>0, <1>1, Iterer, Zenon
<1>3. \A i \in 1 .. MaxPending : p[i] = U(p[i - 1], i)
  <2> SUFFICES ASSUME NEW i \in 1 .. MaxPending PROVE p[i] = U(p[i - 1], i)
    OBVIOUS
  <2>1. <<p[i - 1], i>> \in Moteur \X (1 .. MaxPending)
    BY <1>0, <1>2
  <2> QED BY <1>2, <2>1
<1> DEFINE Eq(q) == q = [i \in 0 .. MaxPending |-> IF i = 0 THEN m
                           ELSE IF i \in S THEN activate_hold(q[i - 1], i) ELSE q[i - 1]]
<1>4. Eq(p)
  BY <1>0, <1>2, <1>3
<1> DEFINE g == CHOOSE q : Eq(q)
<1>5. Eq(g)
  <2> HIDE DEF Eq
  <2> QED BY <1>4, Zenon
<1>6. Activer(m, S) = g[MaxPending]
  BY DEF Activer, Pour
<1>7. g[0] = m /\ \A i \in 1 .. MaxPending : g[i] = U(g[i - 1], i)
  <2> HIDE DEF g
  <2> QED BY <1>0, <1>5
<1> QED BY <1>6, <1>7

\* The slots in use of n are those of m, of the same key and keycode.
Memes(n, m) ==
    \A i \in 1 .. MaxPending : n.slot[i].st # "idle" =>
        /\ m.slot[i].st # "idle"
        /\ n.slot[i].k = m.slot[i].k /\ n.slot[i].a = m.slot[i].a

\* A key has one slot.
Uniques(m) ==
    \A i, j \in 1 .. MaxPending :
        m.slot[i].st # "idle" /\ m.slot[j].st # "idle" /\ m.slot[i].k = m.slot[j].k => i = j

\* A modifier of the engine is held by a slot.
Tenus(m) ==
    \A x \in m.mods : \E i \in 1 .. MaxPending :
        m.slot[i].st = "hold" /\ m.slot[i].a.t # "lt" /\ x \in m.slot[i].a.m

\* After the release of the keys of R, those up to j.
Relachees(n, m, R, j) ==
    /\ n \in Moteur /\ HorsTapHold(n, m)
    /\ Memes(n, m) /\ Tenus(n)
    /\ \A i \in 1 .. MaxPending :
         /\ n.slot[i].st = "tap" => n.slot[i].k \in R
         /\ n.slot[i].st \in {"pending", "hold"} => n.slot[i].k \notin R \/ n.slot[i].k > j

\* One key more.
LEMMA RelacherInv ==
  ASSUME NEW m \in Moteur, NEW R \in SUBSET Keys, NEW j \in Keys, Uniques(m),
         NEW n, Relachees(n, m, R, j - 1)
  PROVE  Relachees(IF j \in R THEN tap_hold_on_release(n, j) ELSE n, m, R, j)
<1>0. n \in Moteur /\ n.slot \in [1 .. MaxPending -> Fentes]
      /\ m.slot \in [1 .. MaxPending -> Fentes] /\ Keys \subseteq Nat
  BY KeysAssumption DEF Relachees, Moteur, Keys
<1>1. ASSUME NEW i \in 1 .. MaxPending PROVE n.slot[i].k \in Nat
  BY <1>0, LesFentes
<1>2. CASE j \notin R
  BY <1>0, <1>1, <1>2 DEF Relachees
<1>3. CASE j \in R
  <2> DEFINE o == tap_hold_on_release(n, j)
  <2>1. /\ o \in Moteur /\ HorsTapHold(o, n)
        /\ \/ find_by_pos(n, j) = {} /\ o = n
           \/ \E i \in find_by_pos(n, j) :
                \/ /\ n.slot[i].st = "pending" /\ o.mods = n.mods
                   /\ o.slot = [n.slot EXCEPT ![i] = [n.slot[i] EXCEPT !.st = "tap"]]
                \/ /\ n.slot[i].st = "hold"
                   /\ o.slot = [n.slot EXCEPT ![i] = Libre]
                   /\ o.mods = IF n.slot[i].a.t = "lt" THEN n.mods
                               ELSE n.mods \ n.slot[i].a.m
                \/ /\ n.slot[i].st = "tap" /\ o.mods = n.mods
                   /\ o.slot = [n.slot EXCEPT ![i] = Libre]
    BY <1>0, RelacherUne
  <2> HIDE DEF o
  <2>2. HorsTapHold(o, m)
    BY <2>1 DEF HorsTapHold, Relachees
  <2>3. CASE find_by_pos(n, j) = {} /\ o = n
    <3>1. \A i \in 1 .. MaxPending : n.slot[i].st # "idle" => n.slot[i].k # j
      BY <1>0, <2>3 DEF find_by_pos
    <3> QED BY <1>0, <1>1, <2>3, <3>1, <1>3 DEF Relachees, o
  <2>4. ASSUME NEW i \in find_by_pos(n, j),
               \/ /\ n.slot[i].st = "pending" /\ o.mods = n.mods
                  /\ o.slot = [n.slot EXCEPT ![i] = [n.slot[i] EXCEPT !.st = "tap"]]
               \/ /\ n.slot[i].st = "hold"
                  /\ o.slot = [n.slot EXCEPT ![i] = Libre]
                  /\ o.mods = IF n.slot[i].a.t = "lt" THEN n.mods
                              ELSE n.mods \ n.slot[i].a.m
               \/ /\ n.slot[i].st = "tap" /\ o.mods = n.mods
                  /\ o.slot = [n.slot EXCEPT ![i] = Libre]
        PROVE  Relachees(o, m, R, j)
    <3>1. i \in 1 .. MaxPending /\ n.slot[i].st # "idle" /\ n.slot[i].k = j
      BY <1>0 DEF find_by_pos
    <3>2. \A x \in 1 .. MaxPending : x # i => o.slot[x] = n.slot[x]
      BY <1>0, <2>4, <3>1
    <3>3. \/ o.slot[i].st = "idle"
          \/ o.slot[i].st = "tap" /\ o.slot[i].k = j /\ o.slot[i].a = n.slot[i].a
      <4>1. n.slot[i] \in Fentes
        BY <1>0, <3>1
      <4>2. o.slot[i] = Libre \/ o.slot[i] = [n.slot[i] EXCEPT !.st = "tap"]
        BY <1>0, <2>4, <3>1
      <4> QED BY <3>1, <4>1, <4>2 DEF Libre, Fentes
    <3>4. \A x \in 1 .. MaxPending : x # i /\ n.slot[x].st # "idle" => n.slot[x].k # j
      BY <3>1 DEF Relachees, Memes, Uniques
    <3>5. Memes(o, m)
      BY <3>1, <3>2, <3>3 DEF Relachees, Memes
    <3>6. Tenus(o)
      <4> SUFFICES ASSUME NEW x \in o.mods
                   PROVE  \E y \in 1 .. MaxPending : o.slot[y].st = "hold"
                            /\ o.slot[y].a.t # "lt" /\ x \in o.slot[y].a.m
        BY DEF Tenus
      <4>1. x \in n.mods /\ (n.slot[i].st = "hold" /\ n.slot[i].a.t # "lt" => x \notin n.slot[i].a.m)
        BY <2>4
      <4>2. PICK y \in 1 .. MaxPending : n.slot[y].st = "hold"
                            /\ n.slot[y].a.t # "lt" /\ x \in n.slot[y].a.m
        BY <4>1 DEF Relachees, Tenus
      <4>3. y # i
        BY <4>1, <4>2
      <4> QED BY <3>2, <4>2, <4>3
    <3>7. ASSUME NEW x \in 1 .. MaxPending
          PROVE  /\ o.slot[x].st = "tap" => o.slot[x].k \in R
                 /\ o.slot[x].st \in {"pending", "hold"} => o.slot[x].k \notin R \/ o.slot[x].k > j
      <4>1. CASE x = i
        BY <1>3, <3>3, <4>1
      <4>2. CASE x # i
        BY <1>1, <3>2, <3>4, <4>2, <1>0 DEF Relachees
      <4> QED BY <4>1, <4>2
    <3> QED BY <2>1, <2>2, <3>5, <3>6, <3>7 DEF Relachees
  <2> QED BY <1>3, <2>1, <2>3, <2>4 DEF o
<1> QED BY <1>2, <1>3

\* After the releases of a build, the slots that are not taps are of keys held,
\* the taps of keys released, and every modifier has its slot.
LEMMA RelacherTout ==
  ASSUME NEW m \in Moteur, NEW h \in SUBSET Keys, Uniques(m), Tenus(m),
         \A i \in 1 .. MaxPending :
            m.slot[i].st # "tap" /\ (m.slot[i].st # "idle" => m.slot[i].k \in m.prev)
  PROVE  LET n == Relacher(m, h)
         IN  /\ n \in Moteur /\ HorsTapHold(n, m) /\ Memes(n, m) /\ Tenus(n)
             /\ \A i \in 1 .. MaxPending :
                  /\ n.slot[i].st = "tap" => n.slot[i].k \in m.prev \ h
                  /\ n.slot[i].st \in {"pending", "hold"} => n.slot[i].k \in h
<1> DEFINE R == m.prev \ h
<1>0. NKeys \in Nat /\ Keys = 1 .. NKeys /\ R \in SUBSET Keys
  BY KeysAssumption DEF Keys, Moteur
<1>1. PICK g : /\ g[0] = m
               /\ \A i \in 1 .. NKeys :
                    g[i] = IF i \in R THEN tap_hold_on_release(g[i - 1], i) ELSE g[i - 1]
               /\ Relacher(m, h) = g[NKeys]
  BY RelacherPas
<1> DEFINE I == {j \in 0 .. NKeys : Relachees(g[j], m, R, j)}
<1> HIDE DEF R
<1>2. 0 \in I
  <2>1. \A i \in 1 .. MaxPending : m.slot[i].st \in {"pending", "hold"} => m.slot[i].k > 0
    BY <1>0, LesFentes DEF Moteur
  <2> QED BY <1>0, <1>1, <2>1 DEF Relachees, HorsTapHold, Memes
<1>3. ASSUME NEW j \in 0 .. NKeys - 1, j \in I PROVE j + 1 \in I
  <2>1. j + 1 \in Keys /\ j + 1 - 1 = j /\ j + 1 \in 0 .. NKeys
    BY <1>0
  <2>2. Relachees(IF j + 1 \in R THEN tap_hold_on_release(g[j], j + 1) ELSE g[j], m, R, j + 1)
    BY <1>0, <1>3, <2>1, RelacherInv
  <2>3. g[j + 1] = IF j + 1 \in R THEN tap_hold_on_release(g[j], j + 1) ELSE g[j]
    BY <1>0, <1>1, <2>1
  <2> QED BY <2>1, <2>2, <2>3
<1>4. Relachees(g[NKeys], m, R, NKeys)
  <2>1. \A j \in 0 .. NKeys : j \in I
    <3> HIDE DEF I
    <3> QED BY <1>0, <1>2, <1>3, Recurrence
  <2> QED BY <1>0, <2>1
<1>5. ASSUME NEW i \in 1 .. MaxPending, Relacher(m, h).slot[i].st \in {"pending", "hold"}
      PROVE  Relacher(m, h).slot[i].k \in h
  <2>1. Relacher(m, h).slot[i].k \in m.prev
    BY <1>1, <1>4, <1>5 DEF Relachees, Memes
  <2>2. Relacher(m, h).slot[i].k \notin R
    BY <1>0, <1>1, <1>4, <1>5, <2>1 DEF Relachees, Moteur
  <2> QED BY <2>1, <2>2 DEF R
<1> QED BY <1>1, <1>4, <1>5 DEF Relachees, R

\* After the decision of the slots of S, those up to j.
Activees(n, m, S, j) ==
    /\ n \in Moteur /\ HorsTapHold(n, m) /\ Tenus(n)
    /\ \A i \in 1 .. MaxPending :
         n.slot[i] = IF i \in S /\ i =< j THEN [m.slot[i] EXCEPT !.st = "hold"] ELSE m.slot[i]

\* One slot more.
LEMMA ActiverInv ==
  ASSUME NEW m \in Moteur, NEW S \in SUBSET Enjeu(m), NEW j \in 1 .. MaxPending,
         NEW n, Activees(n, m, S, j - 1)
  PROVE  Activees(IF j \in S THEN activate_hold(n, j) ELSE n, m, S, j)
<1>1. CASE j \notin S
  <2>1. \A i \in 1 .. MaxPending : i \in S => (i =< j <=> i =< j - 1)
    BY <1>1
  <2> QED BY <1>1, <2>1 DEF Activees
<1>2. CASE j \in S
  <2> DEFINE o == activate_hold(n, j)
  <2>0. n \in Moteur /\ n.slot[j] = m.slot[j] /\ m.slot[j].st = "pending"
    <3>1. ~ (j =< j - 1) /\ m.slot[j].st = "pending"
      BY <1>2 DEF Enjeu
    <3> QED BY <3>1 DEF Activees
  <2>1. /\ o \in Moteur /\ HorsTapHold(o, n)
        /\ o.slot = [n.slot EXCEPT ![j] = [n.slot[j] EXCEPT !.st = "hold"]]
        /\ o.mods = IF n.slot[j].a.t = "lt" THEN n.mods ELSE n.mods \cup n.slot[j].a.m
    BY <2>0, ActiverUne
  <2> HIDE DEF o
  <2>2. HorsTapHold(o, m)
    BY <2>1 DEF HorsTapHold, Activees
  <2>3. n.slot \in [1 .. MaxPending -> Fentes] /\ n.slot[j] \in Fentes
    BY <2>0, LesFentes
  <2>4. /\ o.slot[j] = [m.slot[j] EXCEPT !.st = "hold"]
        /\ \A i \in 1 .. MaxPending : i # j => o.slot[i] = n.slot[i]
    BY <2>0, <2>1, <2>3
  <2>5. o.slot[j].st = "hold" /\ o.slot[j].a = n.slot[j].a
    BY <2>0, <2>3, <2>4 DEF Fentes
  <2>6. Tenus(o)
    <3> SUFFICES ASSUME NEW x \in o.mods
                 PROVE  \E y \in 1 .. MaxPending : o.slot[y].st = "hold"
                          /\ o.slot[y].a.t # "lt" /\ x \in o.slot[y].a.m
      BY DEF Tenus
    <3>1. CASE x \in n.mods
      <4>1. PICK y \in 1 .. MaxPending : n.slot[y].st = "hold"
                          /\ n.slot[y].a.t # "lt" /\ x \in n.slot[y].a.m
        BY <3>1 DEF Tenus, Activees
      <4>2. y # j
        BY <2>0, <4>1
      <4> QED BY <2>4, <4>1, <4>2
    <3>2. CASE x \notin n.mods
      BY <2>1, <2>5, <3>2
    <3> QED BY <3>1, <3>2
  <2>7. ASSUME NEW i \in 1 .. MaxPending
        PROVE  o.slot[i] = IF i \in S /\ i =< j THEN [m.slot[i] EXCEPT !.st = "hold"] ELSE m.slot[i]
    <3>1. CASE i = j
      BY <1>2, <2>4, <3>1
    <3>2. CASE i # j
      <4>1. i =< j <=> i =< j - 1
        BY <3>2
      <4> QED BY <2>4, <3>2, <4>1 DEF Activees
    <3> QED BY <3>1, <3>2
  <2>8. Activees(o, m, S, j)
    BY <2>1, <2>2, <2>6, <2>7 DEF Activees
  <2> QED BY <1>2, <2>8 DEF o
<1> QED BY <1>1, <1>2

\* The slots decided are holds, the others what they were.
LEMMA ActiverTout ==
  ASSUME NEW m \in Moteur, NEW S \in SUBSET Enjeu(m), Tenus(m)
  PROVE  LET n == Activer(m, S)
         IN  /\ n \in Moteur /\ HorsTapHold(n, m) /\ Tenus(n)
             /\ \A i \in 1 .. MaxPending :
                  n.slot[i] = IF i \in S THEN [m.slot[i] EXCEPT !.st = "hold"] ELSE m.slot[i]
<1>0. MaxPending \in Nat
  BY MaxPendingAssumption
<1>1. PICK g : /\ g[0] = m
               /\ \A i \in 1 .. MaxPending :
                    g[i] = IF i \in S THEN activate_hold(g[i - 1], i) ELSE g[i - 1]
               /\ Activer(m, S) = g[MaxPending]
  BY ActiverPas
<1> DEFINE I == {j \in 0 .. MaxPending : Activees(g[j], m, S, j)}
<1>2. 0 \in I
  BY <1>0, <1>1 DEF Activees, HorsTapHold
<1>3. ASSUME NEW j \in 0 .. MaxPending - 1, j \in I PROVE j + 1 \in I
  <2>1. j + 1 \in 1 .. MaxPending /\ j + 1 - 1 = j /\ j + 1 \in 0 .. MaxPending
    BY <1>0
  <2>2. Activees(IF j + 1 \in S THEN activate_hold(g[j], j + 1) ELSE g[j], m, S, j + 1)
    BY <1>0, <1>3, <2>1, ActiverInv
  <2>3. g[j + 1] = IF j + 1 \in S THEN activate_hold(g[j], j + 1) ELSE g[j]
    BY <1>0, <1>1, <2>1
  <2> QED BY <2>1, <2>2, <2>3
<1>4. Activees(g[MaxPending], m, S, MaxPending)
  <2>1. \A j \in 0 .. MaxPending : j \in I
    <3> HIDE DEF I
    <3> QED BY <1>0, <1>2, <1>3, Recurrence
  <2> QED BY <1>0, <2>1
<1> QED BY <1>0, <1>1, <1>4 DEF Activees

-----------------------------------------------------------------------------
(* key_processor.c.                                                        *)

\* What the momentary layers leave alone.
HorsCouche(n, m) ==
    /\ n.slot = m.slot /\ n.ordre = m.ordre /\ n.mods = m.mods /\ n.lt = m.lt
    /\ n.base = m.base /\ n.osm = m.osm /\ n.osl = m.osl /\ n.lock = m.lock
    /\ n.to = m.to /\ n.latch = m.latch
    /\ n.prev = m.prev /\ n.differe = m.differe /\ n.actifs = m.actifs
    /\ n.code = m.code /\ n.extra = m.extra /\ n.tap = m.tap /\ n.inj = m.inj
    /\ n.rmods = m.rmods /\ n.frappe = m.frappe /\ n.echu = m.echu

\* A momentary-layer key: the modifiers it brings are those of a layer-mod.
LEMMA MomentaneeUne ==
  ASSUME keymaps \in Keymaps, NEW m \in Moteur, NEW k \in Keys, NEW l \in Layers
  PROVE  LET n == apply_momentary_layer(m, k, keymaps[l][k])
         IN  /\ n \in Moteur /\ HorsCouche(n, m)
             /\ m.lm \subseteq ModsDeCouche => n.lm \subseteq ModsDeCouche
<1> DEFINE a == keymaps[l][k]
<1>1. m.cur \in Layers /\ a \in Actions
  BY Carte DEF Moteur
<1>2. CASE a.t # "mo"
  BY <1>2 DEF apply_momentary_layer, HorsCouche
<1>3. CASE a.t = "mo"
  <2>1. a.l \in Layers /\ a.m \in SUBSET Mods
    BY <1>1 DEF Actions
  <2>2. a.m \subseteq ModsDeCouche
    <3>1. <<l, k>> \in {y \in Layers \X Keys : keymaps[y[1]][y[2]].t = "mo"}
      BY <1>1, <1>3
    <3> QED BY <3>1 DEF ModsDeCouche
  <2> DEFINE c == a.l
  <2> DEFINE x == a.m
  <2> DEFINE n == [m EXCEPT !.last = m.cur, !.cur = c, !.lm = x, !.changer = k]
  <2>3. apply_momentary_layer(m, k, a) = n
    BY <1>3 DEF apply_momentary_layer
  <2> HIDE DEF c, x
  <2>4. n \in Moteur
    BY <1>1, <2>1 DEF Moteur, c, x
  <2>5. HorsCouche(n, m) /\ n.lm = x
    BY DEF HorsCouche, Moteur
  <2> QED BY <2>2, <2>3, <2>4, <2>5 DEF x
<1> QED BY <1>2, <1>3

\* The momentary layers, key after key.
LEMMA MomentaneesPas ==
  ASSUME keymaps \in Keymaps, NEW m \in Moteur, NEW h
  PROVE  \E g : /\ g[0] = m
                /\ \A i \in 1 .. NKeys :
                     g[i] = IF i \in h THEN apply_momentary_layer(g[i - 1], i, keymaps[m.cur][i])
                            ELSE g[i - 1]
                /\ Momentanees(m, h) = g[NKeys]
<1> DEFINE V(n, i) == apply_momentary_layer(n, i, keymaps[m.cur][i])
<1> DEFINE U(n, i) == IF i \in h THEN V(n, i) ELSE n
<1> DEFINE F == [x \in Moteur \X (1 .. NKeys) |-> U(x[1], x[2])]
<1>0. NKeys \in Nat
  BY KeysAssumption
<1>00. m.cur \in Layers
  BY DEF Moteur
<1>1. F \in [Moteur \X (1 .. NKeys) -> Moteur]
  <2>1. \A n \in Moteur, i \in 1 .. NKeys : V(n, i) \in Moteur
    BY <1>00, MomentaneeUne DEF Keys
  <2> HIDE DEF V
  <2> QED BY <2>1
<1>2. PICK p \in [0 .. NKeys -> Moteur] :
             p[0] = m /\ \A i \in 1 .. NKeys : p[i] = F[<<p[i - 1], i>>]
  <2> HIDE DEF F, U, V
  <2> QED BY <1>0, <1>1, Iterer, Zenon
<1>3. \A i \in 1 .. NKeys : p[i] = U(p[i - 1], i)
  <2> SUFFICES ASSUME NEW i \in 1 .. NKeys PROVE p[i] = U(p[i - 1], i)
    OBVIOUS
  <2> HIDE DEF U
  <2>1. <<p[i - 1], i>> \in Moteur \X (1 .. NKeys)
    BY <1>0, <1>2
  <2> QED BY <1>2, <2>1
<1> DEFINE Eq(q) == q = [i \in 0 .. NKeys |-> IF i = 0 THEN m
                           ELSE IF i \in h THEN apply_momentary_layer(q[i - 1], i, keymaps[m.cur][i])
                           ELSE q[i - 1]]
<1>4. Eq(p)
  BY <1>0, <1>2, <1>3
<1> DEFINE g == CHOOSE q : Eq(q)
<1>5. Eq(g)
  <2> HIDE DEF Eq
  <2> QED BY <1>4, Zenon
<1>6. Momentanees(m, h) = g[NKeys]
  BY DEF Momentanees, Pour
<1>7. g[0] = m /\ \A i \in 1 .. NKeys : g[i] = U(g[i - 1], i)
  <2> HIDE DEF g
  <2> QED BY <1>0, <1>5
<1> QED BY <1>6, <1>7

\* All of them.
LEMMA MomentaneesTout ==
  ASSUME keymaps \in Keymaps, NEW m \in Moteur, NEW h, m.lm \subseteq ModsDeCouche
  PROVE  LET n == Momentanees(m, h)
         IN  n \in Moteur /\ HorsCouche(n, m) /\ n.lm \subseteq ModsDeCouche
<1>0. NKeys \in Nat
  BY KeysAssumption
<1>1. PICK g : /\ g[0] = m
               /\ \A i \in 1 .. NKeys :
                     g[i] = IF i \in h THEN apply_momentary_layer(g[i - 1], i, keymaps[m.cur][i])
                            ELSE g[i - 1]
               /\ Momentanees(m, h) = g[NKeys]
  BY MomentaneesPas
<1> DEFINE I == {j \in 0 .. NKeys : g[j] \in Moteur /\ HorsCouche(g[j], m)
                                    /\ g[j].lm \subseteq ModsDeCouche}
<1>2. 0 \in I
  BY <1>0, <1>1 DEF HorsCouche
<1>3. ASSUME NEW j \in 0 .. NKeys - 1, j \in I PROVE j + 1 \in I
  <2>1. j + 1 \in 1 .. NKeys /\ j + 1 - 1 = j /\ j + 1 \in 0 .. NKeys /\ j + 1 \in Keys
    BY <1>0 DEF Keys
  <2> DEFINE o == apply_momentary_layer(g[j], j + 1, keymaps[m.cur][j + 1])
  <2>2. o \in Moteur /\ HorsCouche(o, g[j]) /\ o.lm \subseteq ModsDeCouche
    <3>1. m.cur \in Layers
      BY DEF Moteur
    <3> QED BY <3>1, <1>3, <2>1, MomentaneeUne
  <2>3. g[j + 1] = IF j + 1 \in h THEN o ELSE g[j]
    BY <1>0, <1>1, <2>1
  <2>4. HorsCouche(o, m)
    <3> HIDE DEF o
    <3> QED BY <1>3, <2>2 DEF HorsCouche
  <2> HIDE DEF o
  <2> QED BY <1>3, <2>1, <2>2, <2>3, <2>4
<1>4. \A j \in 0 .. NKeys : j \in I
  <2> HIDE DEF I
  <2> QED BY <1>0, <1>2, <1>3, Recurrence
<1> QED BY <1>0, <1>1, <1>4

\* What the reading of a key leaves alone.
HorsLecture(n, m) ==
    /\ n.changer = m.changer /\ n.lm = m.lm /\ n.ordre = m.ordre /\ n.mods = m.mods
    /\ n.lt = m.lt /\ n.base = m.base /\ n.osm = m.osm /\ n.latch = m.latch
    /\ n.prev = m.prev /\ n.actifs = m.actifs /\ n.tap = m.tap /\ n.inj = m.inj
    /\ n.rmods = m.rmods /\ n.echu = m.echu

TapHolds == {"lt", "mt", "osm"}

\* A key that types nothing and takes no slot.
Inerte(n, m) ==
    n.slot = m.slot /\ n.code = m.code /\ n.differe = m.differe /\ n.frappe = m.frappe

\* A key that takes a slot.
Prend(n, m, k, a) ==
    /\ n.code = m.code /\ n.differe = m.differe /\ n.frappe = m.frappe
    /\ a.t \in TapHolds /\ find_by_pos(m, k) = {}
    /\ \E i \in 1 .. MaxPending :
         /\ m.slot[i].st = "idle"
         /\ n.slot = [m.slot EXCEPT ![i] = [st |-> "pending", k |-> k, a |-> a, age |-> 0]]

\* A key kept for a combo.
Garde(n, m, k) ==
    /\ n.slot = m.slot /\ n.code = m.code /\ n.frappe = m.frappe
    /\ Neuve(m, k)
    /\ \E c \in CodesOuRien : n.differe = m.differe \cup {[k |-> k, c |-> c, age |-> 0]}

\* A key that types c.
Tape(n, m, k, c) ==
    /\ n.slot = m.slot /\ n.differe = m.differe
    /\ n.code = [m.code EXCEPT ![k] = c] /\ n.frappe = TRUE
    /\ ~ combo_is_suppressed(m, k)

\* The fields of an action.
LEMMA TypeAction ==
  ASSUME NEW a \in Actions
  PROVE  /\ a.t \in Gammes /\ a.c \in CodesOuRien /\ a.l \in Layers /\ a.m \in SUBSET Mods
  BY DEF Actions, CodesOuRien

\* To note the keycode of a key is nothing.
LEMMA ExtraPres ==
  ASSUME NEW m \in Moteur, NEW k \in Keys, NEW a \in Actions
  PROVE  LET n == [m EXCEPT !.extra = [@ EXCEPT ![k] = a]]
         IN  n \in Moteur /\ HorsLecture(n, m) /\ Inerte(n, m)
<1>1. [m.extra EXCEPT ![k] = a] \in [Keys -> Actions]
  BY DEF Moteur
<1> DEFINE x == [m.extra EXCEPT ![k] = a]
<1> HIDE DEF x
<1> DEFINE n == [m EXCEPT !.extra = x]
<1>2. n \in Moteur
  BY <1>1 DEF Moteur, x
<1>3. HorsLecture(n, m) /\ Inerte(n, m)
  BY DEF Moteur, HorsLecture, Inerte
<1>4. n = [m EXCEPT !.extra = [@ EXCEPT ![k] = a]]
  BY DEF x, Moteur
<1> QED BY <1>2, <1>3, <1>4

\* A press of a tap-hold takes a slot, if there is one and the key has none.
LEMMA PriseUne ==
  ASSUME NEW m \in Moteur, NEW k \in Keys, NEW a \in Actions, a.t \in TapHolds
  PROVE  LET n == tap_hold_on_press(m, k, a)
         IN  /\ n \in Moteur /\ HorsLecture(n, m)
             /\ Inerte(n, m) \/ Prend(n, m, k, a)
<1> DEFINE libres == {i \in DOMAIN m.slot : m.slot[i].st = "idle"}
<1>1. CASE find_by_pos(m, k) # {} \/ libres = {}
  BY <1>1 DEF tap_hold_on_press, HorsLecture, Inerte
<1>2. CASE find_by_pos(m, k) = {} /\ libres # {}
  <2> DEFINE i == Min(libres)
  <2>0. m.slot \in [1 .. MaxPending -> Fentes]
    BY DEF Moteur
  <2>1. i \in 1 .. MaxPending /\ m.slot[i].st = "idle"
    <3>1. libres \in SUBSET Nat
      BY <2>0, MaxPendingAssumption
    <3>2. i \in libres
      <4> HIDE DEF libres
      <4> QED BY <1>2, <3>1, MinEst
    <3> QED BY <2>0, <3>2
  <2> DEFINE f == [st |-> "pending", k |-> k, a |-> a, age |-> 0]
  <2>2. f \in Fentes
    BY TimeoutAssumption DEF Fentes, Etats
  <2>3. tap_hold_on_press(m, k, a) = [m EXCEPT !.slot = [@ EXCEPT ![i] = f]]
    BY <1>2 DEF tap_hold_on_press, Moteur
  <2> HIDE DEF i
  <2> DEFINE n == [m EXCEPT !.slot = [@ EXCEPT ![i] = f]]
  <2>4. n \in Moteur
    <3>1. m.ordre \in Seq(1 .. MaxPending) /\ m.base \in Layers \cup {-1} /\ m.mods \in SUBSET Mods
      BY DEF Moteur
    <3> HIDE DEF f
    <3> QED BY <2>1, <2>2, <3>1, Fente
  <2>5. HorsLecture(n, m) /\ n.code = m.code /\ n.differe = m.differe /\ n.frappe = m.frappe
        /\ n.slot = [m.slot EXCEPT ![i] = f]
    <3> HIDE DEF f
    <3> QED BY DEF Moteur, HorsLecture
  <2> HIDE DEF n
  <2> QED BY <1>2, <2>1, <2>3, <2>4, <2>5 DEF Prend, n
<1> QED BY <1>1, <1>2

\* An ordinary keycode is typed, kept for a combo, or nothing.
LEMMA TaperUne ==
  ASSUME NEW m \in Moteur, NEW k \in Keys, NEW a \in Actions
  PROVE  LET n == Taper(m, k, a)
         IN  /\ n \in Moteur /\ HorsLecture(n, m)
             /\ Inerte(n, m) \/ Garde(n, m, k) \/ (a.t = "code" /\ Tape(n, m, k, a.c))
             /\ a.t = "code" /\ ~ Neuve(m, k) /\ ~ combo_is_suppressed(m, k)
                => Tape(n, m, k, a.c)
<1> DEFINE x == [m.extra EXCEPT ![k] = a]
<1> DEFINE c == a.c
<1>0. x \in [Keys -> Actions] /\ c \in CodesOuRien /\ m.code \in [Keys -> CodesOuRien]
      /\ m.differe \in SUBSET Differes
  BY TypeAction DEF Moteur
<1>1. CASE a.t # "code"
  <2>1. Taper(m, k, a) = [m EXCEPT !.extra = [@ EXCEPT ![k] = a]]
    BY <1>1 DEF Taper, Moteur
  <2> QED BY <1>1, <2>1, ExtraPres
<1>2. CASE /\ a.t = "code" /\ Neuve(m, k) /\ combo_should_defer(k)
           /\ combo_defer_key(m, k, c) = m
  <2>1. Taper(m, k, a) = [m EXCEPT !.extra = [@ EXCEPT ![k] = a]]
    BY <1>2 DEF Taper, Moteur
  <2> QED BY <1>2, <2>1, ExtraPres
<1>3. CASE /\ a.t = "code" /\ Neuve(m, k) /\ combo_should_defer(k)
           /\ combo_defer_key(m, k, c)
              = [m EXCEPT !.differe = @ \cup {[k |-> k, c |-> c, age |-> 0]}]
  <2> DEFINE d == m.differe \cup {[k |-> k, c |-> c, age |-> 0]}
  <2>1. d \in SUBSET Differes
    BY <1>0 DEF Differes
  <2>2. Taper(m, k, a) = [m EXCEPT !.extra = x, !.differe = d]
    BY <1>3 DEF Taper, Moteur
  <2>3. \E y \in CodesOuRien : d = m.differe \cup {[k |-> k, c |-> y, age |-> 0]}
    BY <1>0
  <2> HIDE DEF x, d, c
  <2> DEFINE n == [m EXCEPT !.extra = x, !.differe = d]
  <2>4. n \in Moteur
    BY <1>0, <2>1 DEF Moteur
  <2>5. HorsLecture(n, m) /\ n.slot = m.slot /\ n.code = m.code /\ n.frappe = m.frappe
        /\ n.differe = d
    BY DEF Moteur, HorsLecture
  <2> HIDE DEF n
  <2>6. Garde(n, m, k)
    BY <1>3, <2>3, <2>5 DEF Garde
  <2> QED BY <1>3, <2>2, <2>4, <2>5, <2>6 DEF n
<1>4. CASE a.t = "code" /\ ~ (Neuve(m, k) /\ combo_should_defer(k)) /\ combo_is_suppressed(m, k)
  <2>1. Taper(m, k, a) = [m EXCEPT !.extra = [@ EXCEPT ![k] = a]]
    BY <1>4 DEF Taper, Moteur
  <2> QED BY <1>4, <2>1, ExtraPres
<1>5. CASE a.t = "code" /\ ~ (Neuve(m, k) /\ combo_should_defer(k)) /\ ~ combo_is_suppressed(m, k)
  <2> DEFINE y == [m.code EXCEPT ![k] = c]
  <2>1. Taper(m, k, a) = [m EXCEPT !.code = y, !.frappe = TRUE]
    BY <1>5 DEF Taper, Moteur
  <2>2. y \in [Keys -> CodesOuRien]
    BY <1>0
  <2> HIDE DEF y
  <2> DEFINE n == [m EXCEPT !.code = y, !.frappe = TRUE]
  <2>3. n \in Moteur
    BY <2>2 DEF Moteur
  <2>4. HorsLecture(n, m) /\ n.slot = m.slot /\ n.differe = m.differe /\ n.code = y /\ n.frappe = TRUE
    BY DEF Moteur, HorsLecture
  <2> HIDE DEF n
  <2>5. Tape(n, m, k, a.c)
    BY <1>5, <2>4 DEF Tape, y
  <2> QED BY <1>5, <2>1, <2>3, <2>4, <2>5 DEF n
<1>6. \/ combo_defer_key(m, k, c) = m
      \/ combo_defer_key(m, k, c)
         = [m EXCEPT !.differe = @ \cup {[k |-> k, c |-> c, age |-> 0]}]
  BY DEF combo_defer_key
<1> QED BY <1>1, <1>2, <1>3, <1>4, <1>5, <1>6

\* A key that writes its own code whatever the layers.
Tapee(m, k) ==
    LET a == keymaps[m.latch[k]][k]
    IN  a.t = "code" /\ a # KNo /\ m.changer # k /\ ~ combo_is_suppressed(m, k)

\* The layer lock touches the layers alone.
LEMMA VerrouUne ==
  ASSUME NEW m \in Moteur
  PROVE  LET n == layer_lock_toggle(m)
         IN  n \in Moteur /\ HorsLecture(n, m) /\ Inerte(n, m)
<1>1. CASE m.lock
  <2> DEFINE n == [m EXCEPT !.lock = FALSE, !.cur = 0, !.last = 0]
  <2>1. layer_lock_toggle(m) = n
    BY <1>1 DEF layer_lock_toggle
  <2>2. n \in Moteur
    BY LayersAssumption DEF Moteur
  <2>3. HorsLecture(n, m) /\ Inerte(n, m)
    BY DEF HorsLecture, Inerte, Moteur
  <2> QED BY <2>1, <2>2, <2>3
<1>2. CASE ~ m.lock /\ m.cur # 0
  <2> DEFINE n == [m EXCEPT !.lock = TRUE, !.last = m.cur]
  <2>1. layer_lock_toggle(m) = n
    BY <1>2 DEF layer_lock_toggle
  <2>2. n \in Moteur
    BY DEF Moteur
  <2>3. HorsLecture(n, m) /\ Inerte(n, m)
    BY DEF HorsLecture, Inerte, Moteur
  <2> QED BY <2>1, <2>2, <2>3
<1>3. CASE ~ m.lock /\ m.cur = 0
  BY <1>3 DEF layer_lock_toggle, HorsLecture, Inerte
<1> QED BY <1>1, <1>2, <1>3

\* So does a toggle,
LEMMA ToUne ==
  ASSUME NEW m \in Moteur, NEW a \in Actions, NEW x \in [Keys -> Actions]
  PROVE  LET n == [m EXCEPT !.to = a, !.extra = x]
         IN  n \in Moteur /\ HorsLecture(n, m) /\ Inerte(n, m)
<1> DEFINE n == [m EXCEPT !.to = a, !.extra = x]
<1>1. n \in Moteur
  BY DEF Moteur
<1>2. HorsLecture(n, m) /\ Inerte(n, m)
  BY DEF HorsLecture, Inerte, Moteur
<1> QED BY <1>1, <1>2

\* and a one-shot layer.
LEMMA OslUne ==
  ASSUME NEW m \in Moteur, NEW l \in Layers
  PROVE  LET n == [m EXCEPT !.osl = l]
         IN  n \in Moteur /\ HorsLecture(n, m) /\ Inerte(n, m)
<1> DEFINE n == [m EXCEPT !.osl = l]
<1>1. n \in Moteur
  BY DEF Moteur
<1>2. HorsLecture(n, m) /\ Inerte(n, m)
  BY DEF HorsLecture, Inerte, Moteur
<1> QED BY <1>1, <1>2

\* The decoding of a key is one of four things.
Lue(n, m, k, a) ==
    \/ Inerte(n, m)
    \/ Prend(n, m, k, a)
    \/ Garde(n, m, k)
    \/ a.t \notin TapHolds /\ \E c \in CodesOuRien : Tape(n, m, k, c)

\* A key read: one of the four, and its own code if nothing takes it.
LEMMA LireUne ==
  ASSUME keymaps \in Keymaps, NEW m \in Moteur, NEW k \in Keys
  PROVE  LET n == Traiter(m, k)
             a == keymaps[m.latch[k]][k]
         IN  /\ n \in Moteur /\ HorsLecture(n, m)
             /\ Lue(n, m, k, a)
             /\ Tapee(m, k) /\ ~ Neuve(m, k)
                  /\ (\A i \in find_by_pos(m, k) : m.slot[i].st # "hold")
                => Tape(n, m, k, a.c)
<1> DEFINE a == keymaps[m.latch[k]][k]
<1> DEFINE n == Decoder(m, k, a)
<1> DEFINE But == /\ n \in Moteur /\ HorsLecture(n, m)
                  /\ Lue(n, m, k, a)
                  /\ Tapee(m, k) /\ ~ Neuve(m, k)
                       /\ (\A i \in find_by_pos(m, k) : m.slot[i].st # "hold")
                     => Tape(n, m, k, a.c)
<1>8. SUFFICES But
  BY DEF Traiter
<1>0. m.latch[k] \in Layers /\ m.last \in Layers /\ a \in Actions
  <2>1. m.latch[k] \in Layers /\ m.last \in Layers
    BY DEF Moteur
  <2> QED BY <2>1, Carte
<1>00. a.t \in Gammes
  BY <1>0, TypeAction
<1>1. Tapee(m, k) <=> (a.t = "code" /\ a # KNo /\ m.changer # k /\ ~ combo_is_suppressed(m, k))
  BY DEF Tapee
<1> DEFINE Tient == \E i \in find_by_pos(m, k) : m.slot[i].st = "hold"
<1> HIDE DEF a
<1>2. CASE Tient
  <2>1. n = [m EXCEPT !.extra = [@ EXCEPT ![k] = a]]
    BY <1>2 DEF Decoder, Moteur
  <2>2. n \in Moteur /\ HorsLecture(n, m) /\ Inerte(n, m)
    BY <1>0, <2>1, ExtraPres
  <2> HIDE DEF n
  <2> QED BY <1>2, <2>2 DEF Lue
<1>3. CASE ~ Tient /\ a.t \in {"lt", "mt", "osm", "osl", "lock"}
  <2> DEFINE o == process_advanced_key(m, k, a)
  <2>1. o \in Moteur /\ HorsLecture(o, m) /\ (Inerte(o, m) \/ Prend(o, m, k, a))
    <3>1. CASE a.t \in TapHolds
      <4>1. o = tap_hold_on_press(m, k, a)
        BY <3>1 DEF process_advanced_key, TapHolds
      <4> HIDE DEF o
      <4> QED BY <1>0, <3>1, <4>1, PriseUne
    <3>2. CASE a.t = "osl"
      <4> DEFINE l == a.l
      <4>1. o = [m EXCEPT !.osl = l]
        BY <3>2 DEF process_advanced_key
      <4>2. l \in Layers
        BY <1>0, TypeAction
      <4> HIDE DEF o, l
      <4> QED BY <4>1, <4>2, OslUne
    <3>3. CASE a.t = "lock"
      <4>1. o = layer_lock_toggle(m)
        BY <3>3 DEF process_advanced_key
      <4> HIDE DEF o
      <4> QED BY <4>1, VerrouUne
    <3> QED BY <1>3, <3>1, <3>2, <3>3 DEF TapHolds
  <2>2. n = [o EXCEPT !.extra = [@ EXCEPT ![k] = a]]
    <3>1. n = [o EXCEPT !.extra[k] = a]
      BY <1>3 DEF Decoder
    <3> HIDE DEF o
    <3> QED BY <2>1, <3>1 DEF Moteur
  <2> HIDE DEF o, n
  <2>3. n \in Moteur /\ HorsLecture(n, o) /\ Inerte(n, o)
    BY <1>0, <2>1, <2>2, ExtraPres
  <2>4. HorsLecture(n, m)
    BY <2>1, <2>3 DEF HorsLecture
  <2>5. Inerte(n, m) \/ Prend(n, m, k, a)
    BY <2>1, <2>3 DEF Inerte, Prend
  <2>6. ~ Tapee(m, k)
    BY <1>1, <1>3
  <2> QED BY <2>3, <2>4, <2>5, <2>6 DEF Lue
<1>4. CASE ~ Tient /\ a.t = "to"
  <2> DEFINE b == IF m.to = KNo THEN a ELSE m.to
  <2> DEFINE x == IF m.changer = k THEN m.extra ELSE [m.extra EXCEPT ![k] = a]
  <2>1. n = [m EXCEPT !.to = b, !.extra = x]
    BY <1>4 DEF Decoder, Moteur
  <2>2. b \in Actions /\ x \in [Keys -> Actions]
    BY <1>0 DEF Moteur
  <2> HIDE DEF n, b, x
  <2>3. n \in Moteur /\ HorsLecture(n, m) /\ Inerte(n, m)
    BY <2>1, <2>2, ToUne
  <2> QED BY <1>1, <1>4, <2>3 DEF Lue
<1>5. CASE ~ Tient /\ a.t \in {"code", "mo"} /\ m.changer = k
  <2>1. n = m
    BY <1>5 DEF Decoder
  <2> HIDE DEF n
  <2> QED BY <1>1, <1>5, <2>1 DEF Lue, Inerte, HorsLecture
<1>6. CASE ~ Tient /\ a.t \in {"code", "mo"} /\ m.changer # k
  <2> DEFINE b == IF a = KNo THEN keymaps[m.last][k] ELSE a
  <2>1. n = Taper(m, k, b)
    BY <1>6 DEF Decoder
  <2>2. b \in Actions
    BY <1>0, Carte
  <2>3. b.c \in CodesOuRien
    BY <2>2, TypeAction
  <2>4. Tapee(m, k) => b = a /\ a.t = "code" /\ ~ combo_is_suppressed(m, k)
    BY <1>1
  <2> HIDE DEF n, b
  <2>5. /\ n \in Moteur /\ HorsLecture(n, m)
        /\ Inerte(n, m) \/ Garde(n, m, k) \/ (b.t = "code" /\ Tape(n, m, k, b.c))
        /\ b.t = "code" /\ ~ Neuve(m, k) /\ ~ combo_is_suppressed(m, k)
                => Tape(n, m, k, b.c)
    BY <2>1, <2>2, TaperUne
  <2>6. a.t \notin TapHolds
    BY <1>6 DEF TapHolds
  <2> QED BY <2>3, <2>4, <2>5, <2>6 DEF Lue
<1> HIDE DEF n, But, Tient
<1> QED BY <1>00, <1>2, <1>3, <1>4, <1>5, <1>6 DEF Gammes

\* The keys read one after another.
LEMMA LirePas ==
  ASSUME keymaps \in Keymaps, NEW m \in Moteur, NEW h
  PROVE  \E g : /\ g[0] = m
                /\ \A i \in 1 .. NKeys :
                     g[i] = IF i \in h THEN Traiter(g[i - 1], i) ELSE g[i - 1]
                /\ LireTouches(m, h) = g[NKeys]
<1> DEFINE U(n, i) == IF i \in h THEN Traiter(n, i) ELSE n
<1> DEFINE F == [x \in Moteur \X (1 .. NKeys) |-> U(x[1], x[2])]
<1>0. NKeys \in Nat
  BY KeysAssumption
<1>1. F \in [Moteur \X (1 .. NKeys) -> Moteur]
  <2>1. \A n \in Moteur, i \in 1 .. NKeys : Traiter(n, i) \in Moteur
    BY LireUne DEF Keys
  <2> QED BY <2>1
<1>2. PICK p \in [0 .. NKeys -> Moteur] :
             p[0] = m /\ \A i \in 1 .. NKeys : p[i] = F[<<p[i - 1], i>>]
  <2> HIDE DEF F, U
  <2> QED BY <1>0, <1>1, Iterer, Zenon
<1>3. \A i \in 1 .. NKeys : p[i] = U(p[i - 1], i)
  <2> SUFFICES ASSUME NEW i \in 1 .. NKeys PROVE p[i] = U(p[i - 1], i)
    OBVIOUS
  <2>1. <<p[i - 1], i>> \in Moteur \X (1 .. NKeys)
    BY <1>0, <1>2
  <2> QED BY <1>2, <2>1
<1> DEFINE Eq(q) == q = [i \in 0 .. NKeys |-> IF i = 0 THEN m
                           ELSE IF i \in h THEN Traiter(q[i - 1], i) ELSE q[i - 1]]
<1>4. Eq(p)
  BY <1>0, <1>2, <1>3
<1> DEFINE g == CHOOSE q : Eq(q)
<1>5. Eq(g)
  <2> HIDE DEF Eq
  <2> QED BY <1>4, Zenon
<1>6. LireTouches(m, h) = g[NKeys]
  BY DEF LireTouches, Pour
<1>7. g[0] = m /\ \A i \in 1 .. NKeys : g[i] = U(g[i - 1], i)
  <2> HIDE DEF g
  <2> QED BY <1>0, <1>5
<1> QED BY <1>6, <1>7

\* The slots of m are those of keys of h, under the keycode each was pressed
\* with, but for the taps.
Attachees(m, h) ==
    \A i \in 1 .. MaxPending : m.slot[i].st \in {"pending", "hold"} =>
        /\ m.slot[i].k \in h /\ m.slot[i].k \in Keys
        /\ m.slot[i].a = keymaps[m.latch[m.slot[i].k]][m.slot[i].k]
        /\ m.slot[i].a.t \in TapHolds

\* After the reading of the keys of h up to j, from v.
Lus(n, v, h, j) ==
    /\ n \in Moteur /\ HorsLecture(n, v)
    /\ Uniques(n) /\ Tenus(n) /\ Attachees(n, h)
    /\ \A i \in 1 .. MaxPending : n.slot[i].st = "tap" => n.slot[i] = v.slot[i]
    /\ \A k \in Keys : n.code[k] # Aucun =>
         k \in h /\ k =< j /\ keymaps[n.latch[k]][k].t \notin TapHolds
    /\ \A d \in n.differe : n.code[d.k] = Aucun /\ (d \in v.differe \/ d.k \notin v.prev)
    /\ \A k \in h \cap v.prev : k =< j /\ Tapee(v, k) =>
         n.code[k] = keymaps[n.latch[k]][k].c
    /\ n.frappe => h # {}

\* One key more.
LEMMA LireInv ==
  ASSUME keymaps \in Keymaps, NEW v \in Moteur, NEW h \in SUBSET Keys, NEW j \in Keys,
         NEW m, Lus(m, v, h, j - 1)
  PROVE  Lus(IF j \in h THEN Traiter(m, j) ELSE m, v, h, j)
<1>0. /\ m \in Moteur /\ Keys \subseteq Nat /\ m.slot \in [1 .. MaxPending -> Fentes]
      /\ m.code \in [Keys -> CodesOuRien] /\ m.differe \in SUBSET Differes /\ v.prev \in SUBSET Keys
      /\ m.latch = v.latch /\ m.prev = v.prev
  BY KeysAssumption DEF Lus, Moteur, Keys, HorsLecture
<1>00. \A k \in Keys : k \in Nat /\ (k =< j <=> k =< j - 1 \/ k = j)
  BY <1>0
<1>1. CASE j \notin h
  BY <1>0, <1>00, <1>1 DEF Lus
<1>2. CASE j \in h
  <2> DEFINE n == Traiter(m, j)
  <2> DEFINE a == keymaps[m.latch[j]][j]
  <2> DEFINE Libere == \A i \in find_by_pos(m, j) : m.slot[i].st # "hold"
  <2>1. /\ n \in Moteur /\ HorsLecture(n, m)
        /\ Lue(n, m, j, a)
        /\ Tapee(m, j) /\ ~ Neuve(m, j) /\ Libere => Tape(n, m, j, a.c)
    BY <1>0, LireUne
  <2> HIDE DEF n
  <2>2. HorsLecture(n, v) /\ n.latch = m.latch
    BY <2>1 DEF HorsLecture, Lus
  <2>3. m.code[j] = Aucun
    BY <1>00 DEF Lus
  <2>4. h # {}
    BY <1>2
  <2>5. n.code \in [Keys -> CodesOuRien] /\ n.differe \in SUBSET Differes
    BY <2>1 DEF Moteur
  \* Slots.
  <2>6. /\ Uniques(n) /\ Tenus(n) /\ Attachees(n, h)
        /\ \A i \in 1 .. MaxPending : n.slot[i].st = "tap" => n.slot[i] = v.slot[i]
    <3>1. n.mods = m.mods
      BY <2>1 DEF HorsLecture
    <3>2. CASE n.slot = m.slot
      BY <3>1, <3>2, <2>2 DEF Lus, Uniques, Tenus, Attachees
    <3>3. CASE Prend(n, m, j, a)
      <4>1. PICK i \in 1 .. MaxPending :
               /\ m.slot[i].st = "idle"
               /\ n.slot = [m.slot EXCEPT ![i] = [st |-> "pending", k |-> j, a |-> a, age |-> 0]]
        BY <3>3 DEF Prend
      <4>2. /\ n.slot[i].st = "pending" /\ n.slot[i].k = j /\ n.slot[i].a = a
            /\ \A x \in 1 .. MaxPending : x # i => n.slot[x] = m.slot[x]
        <5> DEFINE f == [st |-> "pending", k |-> j, a |-> a, age |-> 0]
        <5>1. f.st = "pending" /\ f.k = j /\ f.a = a
          OBVIOUS
        <5>2. n.slot = [m.slot EXCEPT ![i] = f]
          BY <4>1
        <5> HIDE DEF f, a
        <5> QED BY <1>0, <5>1, <5>2
      <4>3. a.t \in TapHolds /\ \A x \in 1 .. MaxPending : m.slot[x].st # "idle" => m.slot[x].k # j
        BY <1>0, <3>3 DEF Prend, find_by_pos
      <4>4. Uniques(n)
        BY <4>2, <4>3 DEF Lus, Uniques
      <4>5. Tenus(n)
        BY <3>1, <4>1, <4>2 DEF Lus, Tenus
      <4>6. Attachees(n, h)
        BY <1>2, <2>2, <4>2, <4>3 DEF Lus, Attachees
      <4> QED BY <4>2, <4>4, <4>5, <4>6 DEF Lus
    <3>4. n.slot = m.slot \/ Prend(n, m, j, a)
      BY <2>1 DEF Lue, Inerte, Garde, Tape
    <3> QED BY <3>2, <3>3, <3>4
  \* Codes.
  <2>7. ASSUME NEW k \in Keys, n.code[k] # Aucun
        PROVE  k \in h /\ k =< j /\ keymaps[n.latch[k]][k].t \notin TapHolds
    <3>1. CASE n.code[k] = m.code[k]
      BY <1>00, <2>2, <2>7, <3>1 DEF Lus
    <3>2. CASE n.code[k] # m.code[k]
      <4>1. a.t \notin TapHolds /\ \E c \in CodesOuRien : Tape(n, m, j, c)
        BY <2>1, <3>2 DEF Lue, Inerte, Prend, Garde
      <4>2. k = j
        BY <1>0, <3>2, <4>1 DEF Tape
      <4> QED BY <1>2, <1>00, <2>2, <4>1, <4>2
    <3> QED BY <3>1, <3>2
  \* Deferred keys.
  <2>8. ASSUME NEW d \in n.differe
        PROVE  n.code[d.k] = Aucun /\ (d \in v.differe \/ d.k \notin v.prev)
    <3>0. d.k \in Keys
      BY <2>5 DEF Differes
    <3>1. CASE n.code = m.code /\ n.differe = m.differe
      BY <3>1 DEF Lus
    <3>2. CASE Garde(n, m, j)
      <4>1. n.code = m.code /\ j \notin v.prev
        BY <1>0, <3>2 DEF Garde, Neuve
      <4>2. d \in m.differe \/ d.k = j
        BY <3>2 DEF Garde
      <4> QED BY <2>3, <4>1, <4>2 DEF Lus
    <3>3. ASSUME NEW c \in CodesOuRien, Tape(n, m, j, c)
          PROVE  n.code[d.k] = Aucun /\ (d \in v.differe \/ d.k \notin v.prev)
      <4>1. d \in m.differe /\ d.k # j
        BY <3>3 DEF Tape, combo_is_suppressed
      <4>2. n.code[d.k] = m.code[d.k]
        BY <1>0, <3>0, <3>3, <4>1 DEF Tape
      <4> QED BY <4>1, <4>2 DEF Lus
    <3> QED BY <2>1, <3>1, <3>2, <3>3 DEF Lue, Inerte, Prend
  \* Keys held on.
  <2>9. ASSUME NEW k \in h \cap v.prev, k =< j, Tapee(v, k)
        PROVE  n.code[k] = keymaps[n.latch[k]][k].c
    <3>0. k \in Keys
      BY <1>0
    <3>1. CASE k = j
      <4>1. v.changer = m.changer /\ m.actifs = v.actifs
        BY DEF Lus, HorsLecture
      <4>2. a.t = "code" /\ a # KNo /\ m.changer # j
        BY <1>0, <2>9, <3>1, <4>1 DEF Tapee
      <4>3. ~ combo_is_suppressed(m, j)
        <5>1. ~ combo_is_suppressed(v, j)
          BY <2>9, <3>1 DEF Tapee
        <5>2. \A d \in m.differe : d.k # j
          BY <2>9, <3>1, <5>1 DEF Lus, combo_is_suppressed
        <5> QED BY <4>1, <5>1, <5>2 DEF combo_is_suppressed
      <4>4. Libere
        <5> SUFFICES ASSUME NEW i \in find_by_pos(m, j), m.slot[i].st = "hold" PROVE FALSE
          OBVIOUS
        <5>1. i \in 1 .. MaxPending /\ m.slot[i].k = j
          BY <1>0 DEF find_by_pos
        <5>2. a.t \in TapHolds
          BY <5>1 DEF Lus, Attachees
        <5> QED BY <4>2, <5>2 DEF TapHolds
      <4>5. ~ Neuve(m, j)
        BY <1>0, <3>1 DEF Neuve
      <4>6. Tape(n, m, j, a.c)
        BY <2>1, <4>2, <4>3, <4>4, <4>5 DEF Tapee
      <4> QED BY <1>0, <2>2, <3>0, <3>1, <4>6 DEF Tape
    <3>2. CASE k # j
      <4>1. m.code[k] = keymaps[m.latch[k]][k].c
        BY <1>00, <2>9, <3>0, <3>2 DEF Lus
      <4>2. n.code[k] = m.code[k]
        BY <1>0, <2>1, <3>0, <3>2 DEF Lue, Inerte, Prend, Garde, Tape
      <4> QED BY <2>2, <4>1, <4>2
    <3> QED BY <3>1, <3>2
  <2>10. Lus(n, v, h, j)
    BY <2>1, <2>2, <2>4, <2>6, <2>7, <2>8, <2>9 DEF Lus
  <2> QED BY <1>2, <2>10 DEF n
<1> QED BY <1>1, <1>2

\* All of them.
LEMMA LireTout ==
  ASSUME keymaps \in Keymaps, NEW v \in Moteur, NEW h \in SUBSET Keys,
         Uniques(v), Tenus(v), Attachees(v, h),
         \A k \in Keys : v.code[k] = Aucun, ~ v.frappe
  PROVE  Lus(LireTouches(v, h), v, h, NKeys)
<1>0. NKeys \in Nat /\ Keys = 1 .. NKeys
  BY KeysAssumption DEF Keys
<1>1. PICK g : /\ g[0] = v
               /\ \A i \in 1 .. NKeys :
                    g[i] = IF i \in h THEN Traiter(g[i - 1], i) ELSE g[i - 1]
               /\ LireTouches(v, h) = g[NKeys]
  BY LirePas
<1> DEFINE I == {j \in 0 .. NKeys : Lus(g[j], v, h, j)}
<1>2. 0 \in I
  <2>1. \A k \in Keys : ~ (k =< 0)
    BY <1>0
  <2>2. \A d \in v.differe : d.k \in Keys
    BY DEF Moteur, Differes
  <2>3. Lus(v, v, h, 0)
    BY <2>1, <2>2 DEF Lus, HorsLecture, Moteur
  <2> QED BY <1>0, <1>1, <2>3
<1>3. ASSUME NEW j \in 0 .. NKeys - 1, j \in I PROVE j + 1 \in I
  <2>1. j + 1 \in Keys /\ j + 1 - 1 = j /\ j + 1 \in 0 .. NKeys
    BY <1>0
  <2>2. Lus(IF j + 1 \in h THEN Traiter(g[j], j + 1) ELSE g[j], v, h, j + 1)
    <3>1. Lus(g[j], v, h, (j + 1) - 1)
      BY <1>3, <2>1
    <3> HIDE DEF I
    <3> QED BY <2>1, <3>1, LireInv
  <2>3. g[j + 1] = IF j + 1 \in h THEN Traiter(g[j], j + 1) ELSE g[j]
    BY <1>0, <1>1, <2>1
  <2> QED BY <2>1, <2>2, <2>3
<1>4. \A j \in 0 .. NKeys : j \in I
  <2> HIDE DEF I
  <2>1. NKeys \in Nat
    BY <1>0
  <2> QED BY <2>1, <1>2, <1>3, Recurrence
<1> QED BY <1>0, <1>1, <1>4

\* What the locking of the keys on their layer leaves alone.
HorsVerrou(n, m) ==
    /\ n.cur = m.cur /\ n.last = m.last /\ n.changer = m.changer /\ n.lm = m.lm
    /\ n.slot = m.slot /\ n.ordre = m.ordre /\ n.mods = m.mods /\ n.lt = m.lt
    /\ n.base = m.base /\ n.osm = m.osm /\ n.osl = m.osl /\ n.lock = m.lock
    /\ n.to = m.to /\ n.prev = m.prev /\ n.differe = m.differe /\ n.actifs = m.actifs
    /\ n.tap = m.tap /\ n.inj = m.inj /\ n.rmods = m.rmods /\ n.echu = m.echu

\* The keys are locked on their layers: those held on keep theirs.
LEMMA VerrouillerUne ==
  ASSUME NEW m \in Moteur, NEW h \in SUBSET Keys
  PROVE  LET n == Verrouiller(m, h)
         IN  /\ n \in Moteur /\ HorsVerrou(n, m)
             /\ \A k \in h \cap m.prev : n.latch[k] = m.latch[k]
             /\ \A k \in Keys : n.code[k] = Aucun
             /\ n.frappe = FALSE
<1> DEFINE l == [k \in Keys |-> IF k \notin h THEN 0
                      ELSE IF Neuve(m, k) THEN CoucheActive(m) ELSE m.latch[k]]
<1> DEFINE c == [k \in Keys |-> Aucun]
<1> DEFINE x == [k \in Keys |-> KNo]
<1> DEFINE n == [m EXCEPT !.latch = l, !.code = c, !.extra = x, !.frappe = FALSE]
<1>1. Verrouiller(m, h) = n
  BY DEF Verrouiller, Moteur
<1>2. l \in [Keys -> Layers]
  <2>1. m.latch \in [Keys -> Layers]
    BY DEF Moteur
  <2>2. CoucheActive(m) \in Layers
    BY LayersAssumption DEF CoucheActive, Moteur
  <2> QED BY <2>1, <2>2, LayersAssumption
<1>3. c \in [Keys -> CodesOuRien] /\ x \in [Keys -> Actions]
  <2>1. KNo \in Actions
    BY LayersAssumption DEF KNo, Actions, Gammes
  <2> QED BY <2>1 DEF CodesOuRien
<1>4. \A k \in h \cap m.prev : l[k] = m.latch[k]
  BY DEF Neuve
<1>5. \A k \in Keys : c[k] = Aucun
  OBVIOUS
<1> HIDE DEF l, c, x
<1>6. n \in Moteur
  BY <1>2, <1>3 DEF Moteur
<1>7. HorsVerrou(n, m) /\ n.latch = l /\ n.code = c /\ n.frappe = FALSE
  BY DEF HorsVerrou, Moteur
<1> HIDE DEF n
<1> QED BY <1>1, <1>4, <1>5, <1>6, <1>7

\* The keys read again change their codes and layers, the others nothing.
LEMMA RelireUne ==
  ASSUME keymaps \in Keymaps, NEW m \in Moteur, NEW R \in SUBSET Keys, m.lt \in Layers
  PROVE  LET n == Relire(m, R)
         IN  /\ n \in Moteur /\ HorsVerrou(n, m) /\ n.frappe = m.frappe
             /\ \A k \in Keys \ R : n.latch[k] = m.latch[k] /\ n.code[k] = m.code[k]
<1> DEFINE Lu(k) == IF keymaps[m.lt][k] = KNo THEN keymaps[m.last][k] ELSE keymaps[m.lt][k]
<1> DEFINE l == [k \in Keys |-> IF k \in R THEN m.lt ELSE m.latch[k]]
<1> DEFINE c == [k \in Keys |-> IF k \notin R THEN m.code[k]
                         ELSE IF Lu(k).t = "code" THEN Lu(k).c ELSE Aucun]
<1> DEFINE n == [m EXCEPT !.latch = l, !.code = c]
<1>1. Relire(m, R) = n
  BY DEF Relire, Moteur
<1>2. m.latch \in [Keys -> Layers] /\ m.last \in Layers /\ m.code \in [Keys -> CodesOuRien]
  BY DEF Moteur
<1>3. l \in [Keys -> Layers]
  BY <1>2
<1>4. c \in [Keys -> CodesOuRien]
  <2>1. \A k \in Keys : Lu(k) \in Actions
    BY <1>2, Carte
  <2>2. \A k \in Keys : Lu(k).c \in CodesOuRien
    <3> HIDE DEF Lu
    <3> QED BY <2>1, TypeAction
  <2> HIDE DEF Lu
  <2> QED BY <1>2, <2>2 DEF CodesOuRien
<1>5. \A k \in Keys \ R : l[k] = m.latch[k] /\ c[k] = m.code[k]
  OBVIOUS
<1> HIDE DEF l, c
<1>6. n \in Moteur
  BY <1>3, <1>4 DEF Moteur
<1>7. HorsVerrou(n, m) /\ n.latch = l /\ n.code = c /\ n.frappe = m.frappe
  BY DEF HorsVerrou, Moteur
<1> HIDE DEF n
<1> QED BY <1>1, <1>5, <1>6, <1>7

\* What the engine is once the keystrokes have decided the tap-holds.
Decide(n, v, h) ==
    /\ n \in Moteur
    /\ n.lm = v.lm /\ n.changer = v.changer /\ n.prev = v.prev /\ n.actifs = v.actifs
    /\ n.osl \in Layers \cup {-1}
    /\ Uniques(n) /\ Tenus(n) /\ Attachees(n, h)
    /\ \A i \in 1 .. MaxPending : n.slot[i].st = "tap" => n.slot[i] = v.slot[i]
    /\ \A k \in Keys : n.code[k] # Aucun => k \in h
    /\ \A d \in n.differe : n.code[d.k] = Aucun
    /\ \A k \in h \cap v.prev : Tapee(v, k) =>
         n.latch[k] = v.latch[k] /\ n.code[k] = keymaps[v.latch[k]][k].c
    /\ n.frappe => h # {}

\* A key read again is new and typed something: it has no slot and was not held.
LEMMA InterrompreUne ==
  ASSUME keymaps \in Keymaps, NEW v \in Moteur, NEW h \in SUBSET Keys,
         NEW m, Lus(m, v, h, NKeys)
  PROVE  Decide(Interrompre(m, h), v, h)
<1>0. /\ m \in Moteur /\ m.slot \in [1 .. MaxPending -> Fentes] /\ v.prev \in SUBSET Keys
      /\ m.latch = v.latch /\ m.prev = v.prev /\ m.lm = v.lm /\ m.changer = v.changer
      /\ m.actifs = v.actifs /\ m.differe \in SUBSET Differes
  BY DEF Lus, Moteur, HorsLecture
<1>1. \A k \in h \cap v.prev : Tapee(v, k) =>
         m.latch[k] = v.latch[k] /\ m.code[k] = keymaps[v.latch[k]][k].c
  <2>1. \A k \in Keys : k =< NKeys
    BY KeysAssumption DEF Keys
  <2> QED BY <1>0, <2>1 DEF Lus
<1>2. \A d \in m.differe : d.k \in Keys /\ m.code[d.k] = Aucun
  BY <1>0 DEF Lus, Differes
<1>3. Decide(m, v, h)
  BY <1>0, <1>1, <1>2 DEF Lus, Decide, Moteur
<1>4. CASE ~ m.frappe
  BY <1>3, <1>4 DEF Interrompre
<1>5. CASE m.frappe
  <2> DEFINE o == tap_hold_interrupt(m)
  <2>1. /\ o \in Moteur /\ HorsTapHold(o, m) /\ Tenus(o)
        /\ \A i \in 1 .. MaxPending :
             o.slot[i] = IF i \in Enjeu(m) THEN [m.slot[i] EXCEPT !.st = "hold"] ELSE m.slot[i]
    BY <1>0, ActiverTout DEF tap_hold_interrupt, Lus
  <2>2. /\ o.latch = m.latch /\ o.code = m.code /\ o.differe = m.differe /\ o.prev = m.prev
        /\ o.lm = m.lm /\ o.changer = m.changer /\ o.actifs = m.actifs /\ o.frappe = m.frappe
    BY <2>1 DEF HorsTapHold
  <2>3. ASSUME NEW i \in 1 .. MaxPending
        PROVE  /\ o.slot[i].k = m.slot[i].k /\ o.slot[i].a = m.slot[i].a
               /\ o.slot[i].st # "idle" <=> m.slot[i].st # "idle"
               /\ o.slot[i].st = "tap" => o.slot[i] = m.slot[i]
               /\ o.slot[i].st \in {"pending", "hold"} => m.slot[i].st \in {"pending", "hold"}
    <3>1. m.slot[i] \in Fentes
      BY <1>0
    <3>2. CASE i \in Enjeu(m)
      <4>1. o.slot[i] = [m.slot[i] EXCEPT !.st = "hold"] /\ m.slot[i].st = "pending"
        BY <2>1, <3>2 DEF Enjeu
      <4> QED BY <3>1, <4>1 DEF Fentes
    <3>3. CASE i \notin Enjeu(m)
      BY <2>1, <3>3
    <3> QED BY <3>2, <3>3
  <2> HIDE DEF o
  <2>4. Uniques(o) /\ Attachees(o, h)
    BY <2>2, <2>3 DEF Lus, Uniques, Attachees
  <2>5. Decide(o, v, h)
    <3>1. o.osl \in Layers \cup {-1}
      BY <2>1 DEF Moteur
    <3> QED BY <1>3, <2>1, <2>2, <2>3, <2>4, <3>1 DEF Decide
  <2>6. CASE o.lt < 0 \/ o.lt = m.lt
    BY <1>5, <2>5, <2>6 DEF Interrompre, Decider, o
  <2>7. CASE ~ (o.lt < 0 \/ o.lt = m.lt)
    <3> DEFINE R == {k \in h : Neuve(o, k) /\ o.code[k] # Aucun}
    <3> DEFINE n == Relire(o, R)
    <3>1. Interrompre(m, h) = n
      BY <1>5, <2>7 DEF Interrompre, Decider, o
    <3>2. R \in SUBSET h /\ R \in SUBSET Keys
      OBVIOUS
    <3>3. o.lt \in Layers
      BY <2>1, <2>7 DEF Moteur
    <3>4. \A k \in R : k \notin v.prev /\ m.code[k] # Aucun /\ keymaps[m.latch[k]][k].t \notin TapHolds
      BY <1>0, <2>2 DEF Neuve, Lus
    <3> HIDE DEF R
    <3>5. /\ n \in Moteur /\ HorsVerrou(n, o) /\ n.frappe = o.frappe
          /\ \A k \in Keys \ R : n.latch[k] = o.latch[k] /\ n.code[k] = o.code[k]
      BY <2>1, <3>2, <3>3, RelireUne
    <3>6. /\ n.slot = o.slot /\ n.mods = o.mods /\ n.lm = v.lm /\ n.changer = v.changer
          /\ n.prev = v.prev /\ n.actifs = v.actifs /\ n.differe = m.differe
      BY <1>0, <2>2, <3>5 DEF HorsVerrou
    <3> HIDE DEF n
    <3>7. Uniques(n) /\ Tenus(n)
      BY <2>1, <2>4, <3>6 DEF Uniques, Tenus
    <3>8. Attachees(n, h)
      <4> SUFFICES ASSUME NEW i \in 1 .. MaxPending, n.slot[i].st \in {"pending", "hold"}
                   PROVE  /\ n.slot[i].k \in h /\ n.slot[i].k \in Keys
                          /\ n.slot[i].a = keymaps[n.latch[n.slot[i].k]][n.slot[i].k]
                          /\ n.slot[i].a.t \in TapHolds
        BY DEF Attachees
      <4>1. /\ o.slot[i].k \in h /\ o.slot[i].k \in Keys
            /\ o.slot[i].a = keymaps[o.latch[o.slot[i].k]][o.slot[i].k]
            /\ o.slot[i].a.t \in TapHolds
        BY <2>4, <3>6 DEF Attachees
      <4>2. o.slot[i].k \notin R
        BY <2>2, <3>4, <4>1
      <4> QED BY <3>5, <3>6, <4>1, <4>2
    <3>9. \A i \in 1 .. MaxPending : n.slot[i].st = "tap" => n.slot[i] = v.slot[i]
      BY <2>5, <3>6 DEF Decide
    <3>10. \A k \in Keys : n.code[k] # Aucun => k \in h
      BY <2>5, <3>2, <3>5 DEF Decide
    <3>11. \A d \in n.differe : n.code[d.k] = Aucun
      BY <1>2, <2>2, <3>4, <3>5, <3>6
    <3>12. \A k \in h \cap v.prev : Tapee(v, k) =>
             n.latch[k] = v.latch[k] /\ n.code[k] = keymaps[v.latch[k]][k].c
      BY <1>0, <2>5, <3>4, <3>5 DEF Decide
    <3>13. n.osl \in Layers \cup {-1} /\ (n.frappe => h # {})
      BY <2>5, <3>5 DEF Moteur, Decide
    <3> QED BY <3>1, <3>5, <3>6, <3>7, <3>8, <3>9, <3>10, <3>11, <3>12, <3>13 DEF Decide
  <2> QED BY <2>6, <2>7
<1> QED BY <1>4, <1>5

-----------------------------------------------------------------------------
(* combo.c.                                                                *)

\* What the combos leave alone.
HorsCombo(n, m) ==
    /\ n.cur = m.cur /\ n.last = m.last /\ n.changer = m.changer /\ n.lm = m.lm
    /\ n.slot = m.slot /\ n.ordre = m.ordre /\ n.mods = m.mods /\ n.lt = m.lt
    /\ n.base = m.base /\ n.osm = m.osm /\ n.osl = m.osl /\ n.lock = m.lock
    /\ n.to = m.to /\ n.latch = m.latch /\ n.prev = m.prev
    /\ n.code = m.code /\ n.extra = m.extra
    /\ n.tap = m.tap /\ n.rmods = m.rmods /\ n.echu = m.echu
    /\ n.differe \subseteq m.differe

\* A change of the combos alone.
LEMMA DeCombo ==
  ASSUME NEW m \in Moteur, NEW s \in SUBSET (1 .. Len(Combos)), NEW x \in SUBSET CodesOuRien,
         NEW d \in SUBSET m.differe, NEW f \in BOOLEAN
  PROVE  LET n == [m EXCEPT !.actifs = s, !.inj = x, !.differe = d, !.frappe = f]
         IN  n \in Moteur /\ HorsCombo(n, m)
<1> DEFINE n == [m EXCEPT !.actifs = s, !.inj = x, !.differe = d, !.frappe = f]
<1>1. d \in SUBSET Differes
  BY DEF Moteur
<1>2. n \in Moteur
  BY <1>1 DEF Moteur
<1>3. HorsCombo(n, m)
  BY DEF HorsCombo, Moteur
<1> QED BY <1>2, <1>3

\* A combo begins or ends.
LEMMA ApparierUne ==
  ASSUME NEW m \in Moteur, NEW i \in 1 .. Len(Combos), NEW h
  PROVE  LET n == Apparier(m, i, h)
         IN  n \in Moteur /\ HorsCombo(n, m)
<1>0. m.actifs \in SUBSET (1 .. Len(Combos)) /\ m.inj \in SUBSET CodesOuRien
      /\ m.frappe \in BOOLEAN
  BY DEF Moteur
<1>1. CASE ~ (Membres(i) \subseteq h)
  <2> DEFINE s == m.actifs \ {i}
  <2> DEFINE n == [m EXCEPT !.actifs = s, !.inj = m.inj, !.differe = m.differe, !.frappe = m.frappe]
  <2>1. Apparier(m, i, h) = n
    BY <1>1 DEF Apparier, Moteur
  <2>2. s \in SUBSET (1 .. Len(Combos))
    BY <1>0
  <2> HIDE DEF s
  <2>3. n \in Moteur /\ HorsCombo(n, m)
    BY <1>0, <2>2, DeCombo
  <2> HIDE DEF n
  <2> QED BY <2>1, <2>3
<1>2. CASE Membres(i) \subseteq h /\ (i \in m.actifs \/ ~ \E d \in m.differe : d.k \in Membres(i))
  BY <1>2 DEF Apparier, HorsCombo
<1>3. CASE Membres(i) \subseteq h /\ ~ (i \in m.actifs \/ ~ \E d \in m.differe : d.k \in Membres(i))
  <2> DEFINE s == m.actifs \cup {i}
  <2> DEFINE x == m.inj \cup {Combos[i].c}
  <2> DEFINE y == {d \in m.differe : d.k \notin Membres(i)}
  <2> DEFINE n == [m EXCEPT !.actifs = s, !.inj = x, !.differe = y, !.frappe = m.frappe]
  <2>1. Apparier(m, i, h) = n
    BY <1>3 DEF Apparier, Moteur
  <2>2. s \in SUBSET (1 .. Len(Combos)) /\ y \in SUBSET m.differe
    BY <1>0
  <2>3. x \in SUBSET CodesOuRien
    <3>1. Combos[i] \in [k1 : Keys, k2 : Keys, c : Codes]
      BY CombosAssumption, ElementOfSeq, Zenon
    <3> QED BY <1>0, <3>1 DEF CodesOuRien
  <2> HIDE DEF s, x, y
  <2>4. n \in Moteur /\ HorsCombo(n, m)
    BY <1>0, <2>2, <2>3, DeCombo
  <2> HIDE DEF n
  <2> QED BY <2>1, <2>4
<1> QED BY <1>1, <1>2, <1>3

\* The combos one after another.
LEMMA ComboPas ==
  ASSUME NEW m \in Moteur, NEW h
  PROVE  \E g : /\ g[0] = [m EXCEPT !.inj = {}]
                /\ \A i \in 1 .. Len(Combos) :
                     g[i] = IF i \in DOMAIN Combos THEN Apparier(g[i - 1], i, h) ELSE g[i - 1]
                /\ combo_process(m, h) = Echoir(g[Len(Combos)], h)
<1> DEFINE a == [m EXCEPT !.inj = {}]
<1> DEFINE N == Len(Combos)
<1> DEFINE U(n, i) == IF i \in DOMAIN Combos THEN Apparier(n, i, h) ELSE n
<1> DEFINE F == [x \in Moteur \X (1 .. N) |-> U(x[1], x[2])]
<1>0. N \in Nat
  BY CombosAssumption
<1>00. a \in Moteur
  BY DEF Moteur
<1>1. F \in [Moteur \X (1 .. N) -> Moteur]
  <2>1. \A n \in Moteur, i \in 1 .. N : Apparier(n, i, h) \in Moteur
    BY ApparierUne
  <2> HIDE DEF N
  <2> QED BY <2>1
<1>2. PICK p \in [0 .. N -> Moteur] :
             p[0] = a /\ \A i \in 1 .. N : p[i] = F[<<p[i - 1], i>>]
  <2> HIDE DEF F, U, N, a
  <2> QED BY <1>0, <1>00, <1>1, Iterer, Zenon
<1> HIDE DEF a, N
<1>3. \A i \in 1 .. N : p[i] = U(p[i - 1], i)
  <2> SUFFICES ASSUME NEW i \in 1 .. N PROVE p[i] = U(p[i - 1], i)
    OBVIOUS
  <2>1. <<p[i - 1], i>> \in Moteur \X (1 .. N)
    BY <1>0, <1>2
  <2> QED BY <1>2, <2>1
<1> DEFINE Eq(q) == q = [i \in 0 .. N |-> IF i = 0 THEN a
                           ELSE IF i \in DOMAIN Combos THEN Apparier(q[i - 1], i, h) ELSE q[i - 1]]
<1>4. Eq(p)
  BY <1>0, <1>2, <1>3
<1> DEFINE g == CHOOSE q : Eq(q)
<1>5. Eq(g)
  <2> HIDE DEF Eq
  <2> QED BY <1>4, Zenon
<1>6. combo_process(m, h) = Echoir(g[N], h)
  BY DEF combo_process, Pour, a, N
<1>7. g[0] = a /\ \A i \in 1 .. N : g[i] = U(g[i - 1], i)
  <2> HIDE DEF g
  <2> QED BY <1>0, <1>5
<1> QED BY <1>6, <1>7 DEF a, N

\* All of them, then the keys that wait no longer.
LEMMA ComboTout ==
  ASSUME NEW m \in Moteur, NEW h
  PROVE  LET n == combo_process(m, h)
         IN  n \in Moteur /\ HorsCombo(n, m)
<1> DEFINE N == Len(Combos)
<1>0. N \in Nat
  BY CombosAssumption
<1>1. PICK g : /\ g[0] = [m EXCEPT !.inj = {}]
               /\ \A i \in 1 .. N :
                     g[i] = IF i \in DOMAIN Combos THEN Apparier(g[i - 1], i, h) ELSE g[i - 1]
               /\ combo_process(m, h) = Echoir(g[N], h)
  BY ComboPas
<1> DEFINE I == {j \in 0 .. N : g[j] \in Moteur /\ HorsCombo(g[j], m)}
<1>2. 0 \in I
  <2>1. g[0] \in Moteur
    BY <1>1 DEF Moteur
  <2>2. HorsCombo(g[0], m)
    BY <1>1 DEF HorsCombo, Moteur
  <2> QED BY <1>0, <2>1, <2>2
<1>3. ASSUME NEW j \in 0 .. N - 1, j \in I PROVE j + 1 \in I
  <2>1. j + 1 \in 1 .. N /\ j + 1 - 1 = j /\ j + 1 \in 0 .. N
    BY <1>0
  <2> DEFINE o == Apparier(g[j], j + 1, h)
  <2>2. o \in Moteur /\ HorsCombo(o, g[j])
    BY <1>3, <2>1, ApparierUne
  <2>3. g[j + 1] = IF j + 1 \in DOMAIN Combos THEN o ELSE g[j]
    BY <1>0, <1>1, <2>1
  <2> HIDE DEF o
  <2>4. HorsCombo(o, m)
    BY <1>3, <2>2 DEF HorsCombo
  <2> QED BY <1>3, <2>1, <2>2, <2>3, <2>4
<1>4. g[N] \in Moteur /\ HorsCombo(g[N], m)
  <2>1. \A j \in 0 .. N : j \in I
    <3> HIDE DEF I, N
    <3> QED BY <1>0, <1>2, <1>3, Recurrence
  <2> QED BY <1>0, <2>1
<1> DEFINE o == g[N]
<1> DEFINE expires == {d \in o.differe : d.age > 0 \/ d.k \notin h}
<1> DEFINE x == o.inj \cup {d.c : d \in expires}
<1> DEFINE f == o.frappe \/ x # {}
<1> DEFINE y == o.differe \ expires
<1> DEFINE n == [o EXCEPT !.actifs = o.actifs, !.inj = x, !.differe = y, !.frappe = f]
<1> HIDE DEF o, N
<1>5. o \in Moteur /\ o.differe \in SUBSET Differes /\ o.inj \in SUBSET CodesOuRien
      /\ o.actifs \in SUBSET (1 .. Len(Combos))
  BY <1>4 DEF o, Moteur
<1>6. Echoir(o, h) = n
  BY <1>5 DEF Echoir, Moteur
<1>7. x \in SUBSET CodesOuRien /\ y \in SUBSET o.differe /\ f \in BOOLEAN
  BY <1>5 DEF Differes
<1> HIDE DEF x, y, f
<1>8. n \in Moteur /\ HorsCombo(n, o)
  BY <1>5, <1>7, DeCombo
<1> HIDE DEF n
<1>9. HorsCombo(n, m)
  BY <1>4, <1>8 DEF HorsCombo, o
<1> QED BY <1>1, <1>6, <1>8, <1>9 DEF o

-----------------------------------------------------------------------------
(* A build.                                                                *)

\* The modifiers of the report.
LEMMA ModulerUne ==
  ASSUME NEW m \in Moteur
  PROVE  LET n == Moduler(m)
         IN  /\ n \in Moteur
             /\ n.slot = m.slot /\ n.mods = m.mods /\ n.lm = m.lm /\ n.changer = m.changer
             /\ n.latch = m.latch /\ n.prev = m.prev /\ n.differe = m.differe
             /\ n.actifs = m.actifs /\ n.code = m.code
             /\ n.rmods = m.mods \cup m.lm \cup (IF m.frappe THEN m.osm ELSE {})
<1> DEFINE x == m.mods \cup m.lm \cup (IF m.frappe THEN m.osm ELSE {})
<1> DEFINE s == IF m.frappe THEN {} ELSE m.osm
<1> DEFINE n == [m EXCEPT !.rmods = x, !.osm = s]
<1>1. Moduler(m) = n
  BY DEF Moduler, Moteur
<1>2. x \in SUBSET Mods /\ s \in SUBSET Mods
  BY DEF Moteur
<1>3. x = m.mods \cup m.lm \cup (IF m.frappe THEN m.osm ELSE {})
  OBVIOUS
<1> HIDE DEF x, s
<1>4. n \in Moteur
  BY <1>2 DEF Moteur
<1>5. /\ n.slot = m.slot /\ n.mods = m.mods /\ n.lm = m.lm /\ n.changer = m.changer
      /\ n.latch = m.latch /\ n.prev = m.prev /\ n.differe = m.differe
      /\ n.actifs = m.actifs /\ n.code = m.code /\ n.rmods = x
  BY DEF Moteur
<1> HIDE DEF n
<1> QED BY <1>1, <1>3, <1>4, <1>5

\* The taps are typed and their slots free.
LEMMA ConsommerUne ==
  ASSUME NEW m \in Moteur
  PROVE  LET n == tap_hold_consume_taps(m)
         IN  /\ n \in Moteur
             /\ n.mods = m.mods /\ n.lm = m.lm /\ n.changer = m.changer
             /\ n.latch = m.latch /\ n.prev = m.prev /\ n.differe = m.differe
             /\ n.actifs = m.actifs /\ n.code = m.code /\ n.rmods = m.rmods
             /\ \A i \in 1 .. MaxPending :
                  n.slot[i] = IF m.slot[i].st = "tap" THEN Libre ELSE m.slot[i]
             /\ \A c \in n.tap : \E i \in 1 .. MaxPending :
                  m.slot[i].st = "tap" /\ m.slot[i].a.t \in {"lt", "mt"} /\ c = m.slot[i].a.c
<1> DEFINE finis == {i \in DOMAIN m.slot : m.slot[i].st = "tap"}
<1> DEFINE Des(S) == {i \in finis : m.slot[i].a.t \in S}
<1> DEFINE tapes == {m.slot[i].a.c : i \in Des({"lt", "mt"})}
<1> DEFINE s == [i \in DOMAIN m.slot |-> IF i \in finis THEN Libre ELSE m.slot[i]]
<1> DEFINE o == m.osm \cup UNION {m.slot[i].a.m : i \in Des({"osm"})}
<1> DEFINE f == m.frappe \/ tapes # {}
<1> DEFINE n == [m EXCEPT !.slot = s, !.osm = o, !.tap = tapes, !.frappe = f]
<1>0. m.slot \in [1 .. MaxPending -> Fentes] /\ m.osm \in SUBSET Mods
  BY DEF Moteur
<1>1. tap_hold_consume_taps(m) = n
  BY DEF tap_hold_consume_taps, Moteur
<1>2. s \in [1 .. MaxPending -> Fentes]
      /\ \A i \in 1 .. MaxPending :
           s[i] = IF m.slot[i].st = "tap" THEN Libre ELSE m.slot[i]
  BY <1>0, LibreFente
<1>3. tapes \in SUBSET CodesOuRien
      /\ \A c \in tapes : \E i \in 1 .. MaxPending :
           m.slot[i].st = "tap" /\ m.slot[i].a.t \in {"lt", "mt"} /\ c = m.slot[i].a.c
  <2>1. \A i \in 1 .. MaxPending : m.slot[i].a.c \in CodesOuRien
    BY LesFentes, TypeAction
  <2> QED BY <1>0, <2>1
<1>4. o \in SUBSET Mods
  <2>1. \A i \in 1 .. MaxPending : m.slot[i].a.m \in SUBSET Mods
    BY LesFentes, TypeAction
  <2> QED BY <1>0, <2>1
<1>5. f \in BOOLEAN
  OBVIOUS
<1> HIDE DEF s, o, tapes, f
<1>6. n \in Moteur
  BY <1>2, <1>3, <1>4, <1>5 DEF Moteur
<1>7. /\ n.mods = m.mods /\ n.lm = m.lm /\ n.changer = m.changer
      /\ n.latch = m.latch /\ n.prev = m.prev /\ n.differe = m.differe
      /\ n.actifs = m.actifs /\ n.code = m.code /\ n.rmods = m.rmods
      /\ n.slot = s /\ n.tap = tapes
  BY DEF Moteur
<1> HIDE DEF n
<1> QED BY <1>1, <1>2, <1>3, <1>6, <1>7

\* What the end of the build leaves alone.
HorsFin(n, m) ==
    /\ n.slot = m.slot /\ n.mods = m.mods /\ n.latch = m.latch /\ n.differe = m.differe
    /\ n.actifs = m.actifs /\ n.code = m.code /\ n.tap = m.tap /\ n.rmods = m.rmods

\* The end of a one-shot layer and of a momentary one.
LEMMA FinUne ==
  ASSUME NEW m \in Moteur, NEW h \in SUBSET Keys, NEW osl
  PROVE  LET n == [FinMo(FinOsl(m, osl), h) EXCEPT !.prev = h, !.frappe = FALSE]
         IN  /\ n \in Moteur /\ HorsFin(n, m) /\ n.prev = h
             /\ n.lm = m.lm \/ n.lm = {}
             /\ n.changer = m.changer \/ m.changer \notin h
<1> DEFINE p == FinOsl(m, osl)
<1>1. /\ p \in Moteur /\ HorsFin(p, m) /\ p.lm = m.lm /\ p.changer = m.changer
  <2>1. CASE osl >= 0 /\ m.frappe
    <3> DEFINE n == [m EXCEPT !.osl = -1]
    <3>1. p = n
      BY <2>1 DEF FinOsl
    <3>2. n \in Moteur
      BY DEF Moteur
    <3>3. HorsFin(n, m) /\ n.lm = m.lm /\ n.changer = m.changer
      BY DEF HorsFin, Moteur
    <3> QED BY <3>1, <3>2, <3>3
  <2>2. CASE ~ (osl >= 0 /\ m.frappe)
    BY <2>2 DEF FinOsl, HorsFin
  <2> QED BY <2>1, <2>2
<1> HIDE DEF p
<1> DEFINE q == FinMo(p, h)
<1>2. /\ q \in Moteur /\ HorsFin(q, m) /\ (q.lm = m.lm \/ q.lm = {})
      /\ q.changer = m.changer \/ m.changer \notin h
  <2>1. CASE p.cur # p.last /\ p.changer \notin h \cup {0}
    <3> DEFINE n == [p EXCEPT !.cur = p.last, !.lm = {}, !.changer = 0]
    <3>1. q = n
      BY <2>1 DEF FinMo
    <3>2. n \in Moteur
      BY <1>1 DEF Moteur
    <3>3. HorsFin(n, p) /\ n.lm = {}
      BY <1>1 DEF HorsFin, Moteur
    <3>4. HorsFin(n, m)
      BY <1>1, <3>3 DEF HorsFin
    <3> HIDE DEF n, q
    <3> QED BY <1>1, <2>1, <3>1, <3>2, <3>3, <3>4
  <2>2. CASE ~ (p.cur # p.last /\ p.changer \notin h \cup {0})
    BY <1>1, <2>2 DEF FinMo
  <2> QED BY <2>1, <2>2
<1> HIDE DEF q
<1> DEFINE n == [q EXCEPT !.prev = h, !.frappe = FALSE]
<1>3. n \in Moteur
  BY <1>2 DEF Moteur
<1>4. HorsFin(n, q) /\ n.lm = q.lm /\ n.changer = q.changer /\ n.prev = h
  BY <1>2 DEF HorsFin, Moteur
<1> HIDE DEF n
<1>5. HorsFin(n, m)
  BY <1>2, <1>4 DEF HorsFin
<1> QED BY <1>2, <1>3, <1>4, <1>5 DEF n, p, q

\* The state between two builds.
Sain(m) ==
    /\ \A i \in 1 .. MaxPending : m.slot[i].st # "tap"
    /\ Attachees(m, m.prev) /\ Uniques(m) /\ Tenus(m)
    /\ \A d \in m.differe : m.code[d.k] = Aucun
    /\ m.lm \subseteq ModsDeCouche

\* A key held whose code the build must keep.
Gardee(m, k) ==
    LET a == keymaps[m.latch[k]][k]
    IN  /\ a.t = "code" /\ a # KNo /\ m.code[k] = a.c
        /\ ~ \E i \in m.actifs : k \in Membres(i)

\* The state at the decoding: every slot but the taps is of a key held, and a
\* tap of a key that the build sees released.
Prete(v, m, h) ==
    /\ v \in Moteur /\ Uniques(v) /\ Tenus(v) /\ Attachees(v, h)
    /\ v.lm \subseteq ModsDeCouche
    /\ v.prev = m.prev /\ v.differe = m.differe /\ v.actifs = m.actifs
    /\ \A k \in h \cap m.prev : v.latch[k] = m.latch[k]
    /\ \A k \in Keys : v.code[k] = Aucun
    /\ v.frappe = FALSE
    /\ \A i \in 1 .. MaxPending : v.slot[i].st = "tap" =>
         /\ v.slot[i].k \in m.prev \ h
         /\ v.slot[i].a = keymaps[m.latch[v.slot[i].k]][v.slot[i].k]

\* The releases, the momentary layers and the locking give one.
LEMMA Preparer ==
  ASSUME keymaps \in Keymaps, NEW m \in Moteur, Sain(m), NEW h \in SUBSET Keys
  PROVE  Prete(Verrouiller(Momentanees(Relacher(m, h), h), h), m, h)
<1> DEFINE r == Relacher(m, h)
<1> DEFINE o == Momentanees(r, h)
<1> DEFINE v == Verrouiller(o, h)
<1>0. ASSUME NEW i \in 1 .. MaxPending
      PROVE  /\ m.slot[i].st # "tap"
             /\ m.slot[i].st # "idle" =>
                  /\ m.slot[i].k \in m.prev /\ m.slot[i].k \in Keys
                  /\ m.slot[i].a = keymaps[m.latch[m.slot[i].k]][m.slot[i].k]
                  /\ m.slot[i].a.t \in TapHolds
  BY LesFentes DEF Sain, Attachees, Etats
<1>1. /\ r \in Moteur /\ HorsTapHold(r, m) /\ Memes(r, m) /\ Tenus(r)
      /\ \A i \in 1 .. MaxPending :
           /\ r.slot[i].st = "tap" => r.slot[i].k \in m.prev \ h
           /\ r.slot[i].st \in {"pending", "hold"} => r.slot[i].k \in h
  BY <1>0, RelacherTout DEF Sain
<1> HIDE DEF r
<1>2. r.lm = m.lm /\ r.prev = m.prev /\ r.differe = m.differe /\ r.actifs = m.actifs
      /\ r.latch = m.latch
  BY <1>1 DEF HorsTapHold
<1>3. o \in Moteur /\ HorsCouche(o, r) /\ o.lm \subseteq ModsDeCouche
  BY <1>1, <1>2, MomentaneesTout DEF Sain
<1> HIDE DEF o
<1>4. /\ o.slot = r.slot /\ o.mods = r.mods /\ o.prev = m.prev /\ o.differe = m.differe
      /\ o.actifs = m.actifs /\ o.latch = m.latch
  BY <1>2, <1>3 DEF HorsCouche
<1>5. /\ v \in Moteur /\ HorsVerrou(v, o)
      /\ \A k \in h \cap o.prev : v.latch[k] = o.latch[k]
      /\ \A k \in Keys : v.code[k] = Aucun
      /\ v.frappe = FALSE
  BY <1>3, VerrouillerUne
<1> HIDE DEF v
<1>6. /\ v.slot = r.slot /\ v.mods = r.mods /\ v.lm = o.lm /\ v.prev = m.prev
      /\ v.differe = m.differe /\ v.actifs = m.actifs
      /\ \A k \in h \cap m.prev : v.latch[k] = m.latch[k]
  BY <1>4, <1>5 DEF HorsVerrou
<1>7. Uniques(v)
  BY <1>1, <1>6 DEF Memes, Uniques, Sain
<1>8. Tenus(v)
  BY <1>1, <1>6 DEF Tenus
<1>9. ASSUME NEW i \in 1 .. MaxPending, v.slot[i].st # "idle"
      PROVE  /\ v.slot[i].k = m.slot[i].k /\ v.slot[i].k \in m.prev /\ v.slot[i].k \in Keys
             /\ v.slot[i].a = keymaps[m.latch[v.slot[i].k]][v.slot[i].k]
             /\ v.slot[i].a.t \in TapHolds
  BY <1>0, <1>1, <1>6, <1>9 DEF Memes
<1>10. Attachees(v, h)
  <2> SUFFICES ASSUME NEW i \in 1 .. MaxPending, v.slot[i].st \in {"pending", "hold"}
               PROVE  /\ v.slot[i].k \in h /\ v.slot[i].k \in Keys
                      /\ v.slot[i].a = keymaps[v.latch[v.slot[i].k]][v.slot[i].k]
                      /\ v.slot[i].a.t \in TapHolds
    BY DEF Attachees
  <2>1. v.slot[i].k \in h
    BY <1>1, <1>6
  <2>2. v.slot[i].st # "idle"
    OBVIOUS
  <2> QED BY <1>6, <1>9, <2>1, <2>2
<1>11. \A i \in 1 .. MaxPending : v.slot[i].st = "tap" =>
         /\ v.slot[i].k \in m.prev \ h
         /\ v.slot[i].a = keymaps[m.latch[v.slot[i].k]][v.slot[i].k]
  BY <1>1, <1>6, <1>9
<1> QED BY <1>3, <1>5, <1>6, <1>7, <1>8, <1>10, <1>11 DEF Prete, v, o, r

\* A build gives an engine whose slots and modifiers are of the keys held, with
\* the taps of the keys released and the codes of the keys held on.
LEMMA ConstruireTout ==
  ASSUME keymaps \in Keymaps, NEW m \in Moteur, Sain(m), NEW h \in SUBSET Keys
  PROVE  LET n == build_keycode_report(m, h)
         IN  /\ n \in Moteur /\ Sain(n) /\ n.prev = h
             /\ h = {} => n.rmods \subseteq ModsDeCouche
             /\ \A k \in Keys \ h : n.code[k] = Aucun
             /\ m.prev \ h \subseteq Distantes => n.tap \subseteq TapsDistants
             /\ \A k \in h \cap m.prev : Gardee(m, k) /\ n.changer # k =>
                  n.code[k] = keymaps[m.latch[k]][k].c
<1> DEFINE o == Momentanees(Relacher(m, h), h)
<1> DEFINE v == Verrouiller(o, h)
<1> DEFINE l == LireTouches(v, h)
<1> DEFINE d == Interrompre(l, h)
<1> DEFINE u == Moduler(d)
<1> DEFINE t == tap_hold_consume_taps(u)
<1> DEFINE c == combo_process(t, h)
<1> DEFINE n == [FinMo(FinOsl(c, o.osl), h) EXCEPT !.prev = h, !.frappe = FALSE]
<1>0. build_keycode_report(m, h) = n
  BY DEF build_keycode_report, Rapporter
<1>00. Prete(v, m, h)
  BY Preparer
<1> HIDE DEF v
<1>1. /\ v \in Moteur /\ Uniques(v) /\ Tenus(v) /\ Attachees(v, h)
      /\ v.lm \subseteq ModsDeCouche
      /\ v.prev = m.prev /\ v.differe = m.differe /\ v.actifs = m.actifs
      /\ \A k \in h \cap m.prev : v.latch[k] = m.latch[k]
      /\ \A k \in Keys : v.code[k] = Aucun
      /\ v.frappe = FALSE
      /\ \A i \in 1 .. MaxPending : v.slot[i].st = "tap" =>
           /\ v.slot[i].k \in m.prev \ h
           /\ v.slot[i].a = keymaps[m.latch[v.slot[i].k]][v.slot[i].k]
  BY <1>00 DEF Prete
<1>2. Lus(l, v, h, NKeys)
  BY <1>1, LireTout
<1> HIDE DEF l
<1>3. Decide(d, v, h)
  BY <1>1, <1>2, InterrompreUne
<1> HIDE DEF d
<1>4. d \in Moteur
  BY <1>3 DEF Decide
<1>5. /\ u \in Moteur
      /\ u.slot = d.slot /\ u.mods = d.mods /\ u.lm = d.lm /\ u.changer = d.changer
      /\ u.latch = d.latch /\ u.prev = d.prev /\ u.differe = d.differe
      /\ u.actifs = d.actifs /\ u.code = d.code
      /\ u.rmods = d.mods \cup d.lm \cup (IF d.frappe THEN d.osm ELSE {})
  BY <1>4, ModulerUne
<1> HIDE DEF u
<1>6. /\ t \in Moteur
      /\ t.mods = u.mods /\ t.lm = u.lm /\ t.changer = u.changer
      /\ t.latch = u.latch /\ t.prev = u.prev /\ t.differe = u.differe
      /\ t.actifs = u.actifs /\ t.code = u.code /\ t.rmods = u.rmods
      /\ \A i \in 1 .. MaxPending :
           t.slot[i] = IF u.slot[i].st = "tap" THEN Libre ELSE u.slot[i]
      /\ \A x \in t.tap : \E i \in 1 .. MaxPending :
           u.slot[i].st = "tap" /\ u.slot[i].a.t \in {"lt", "mt"} /\ x = u.slot[i].a.c
  BY <1>5, ConsommerUne
<1> HIDE DEF t
<1>7. c \in Moteur /\ HorsCombo(c, t)
  BY <1>6, ComboTout
<1> HIDE DEF c
<1>8. /\ n \in Moteur /\ HorsFin(n, c) /\ n.prev = h
      /\ n.lm = c.lm \/ n.lm = {}
      /\ n.changer = c.changer \/ c.changer \notin h
  BY <1>7, FinUne
<1> HIDE DEF n, o
\* What is left of the decided state.
<1>9. /\ n.slot = t.slot /\ n.mods = d.mods /\ n.latch = d.latch /\ n.differe \subseteq d.differe
      /\ n.code = d.code /\ n.tap = t.tap
      /\ n.rmods = d.mods \cup d.lm \cup (IF d.frappe THEN d.osm ELSE {})
      /\ n.lm \subseteq d.lm
      /\ n.changer = d.changer \/ d.changer \notin h
      /\ d.lm = v.lm /\ d.changer = v.changer
  BY <1>3, <1>5, <1>6, <1>7, <1>8 DEF HorsCombo, HorsFin, Decide
<1>10. ASSUME NEW i \in 1 .. MaxPending
       PROVE  \/ d.slot[i].st = "tap" /\ n.slot[i].st = "idle"
              \/ d.slot[i].st # "tap" /\ n.slot[i] = d.slot[i]
  <2>1. Libre.st = "idle"
    BY DEF Libre
  <2> QED BY <1>5, <1>6, <1>9, <2>1
<1>11. Sain(n)
  <2>1. \A i \in 1 .. MaxPending : n.slot[i].st # "tap"
    BY <1>10
  <2>2. Attachees(n, n.prev)
    BY <1>3, <1>8, <1>9, <1>10 DEF Decide, Attachees
  <2>3. Uniques(n)
    BY <1>3, <1>10 DEF Decide, Uniques
  <2>4. Tenus(n)
    BY <1>3, <1>9, <1>10 DEF Decide, Tenus
  <2>5. \A x \in n.differe : n.code[x.k] = Aucun
    BY <1>3, <1>9 DEF Decide
  <2>6. n.lm \subseteq ModsDeCouche
    BY <1>1, <1>9
  <2> QED BY <2>1, <2>2, <2>3, <2>4, <2>5, <2>6 DEF Sain
<1>12. ASSUME h = {} PROVE n.rmods \subseteq ModsDeCouche
  <2>1. ~ d.frappe
    BY <1>3, <1>12 DEF Decide
  <2>2. d.mods = {}
    BY <1>3, <1>12 DEF Decide, Tenus, Attachees
  <2> QED BY <1>1, <1>9, <2>1, <2>2
<1>13. \A k \in Keys \ h : n.code[k] = Aucun
  BY <1>3, <1>9 DEF Decide
<1>14. ASSUME m.prev \ h \subseteq Distantes PROVE n.tap \subseteq TapsDistants
  <2> SUFFICES ASSUME NEW x \in t.tap PROVE x \in TapsDistants
    BY <1>9
  <2>1. PICK i \in 1 .. MaxPending :
           u.slot[i].st = "tap" /\ u.slot[i].a.t \in {"lt", "mt"} /\ x = u.slot[i].a.c
    BY <1>6
  <2>2. u.slot[i] = v.slot[i] /\ v.slot[i].st = "tap"
    BY <1>3, <1>5, <2>1 DEF Decide
  <2> DEFINE k == v.slot[i].k
  <2>3. k \in Distantes /\ v.slot[i].a = keymaps[m.latch[k]][k]
    BY <1>1, <1>14, <2>2
  <2>4. m.latch[k] \in Layers
    BY <2>3, KeysAssumption DEF Moteur
  <2> DEFINE w == <<m.latch[k], k>>
  <2>5. w \in {y \in Layers \X Distantes : keymaps[y[1]][y[2]].t \in {"lt", "mt"}}
    BY <2>1, <2>2, <2>3, <2>4
  <2>6. x = keymaps[w[1]][w[2]].c
    BY <2>1, <2>2, <2>3
  <2> HIDE DEF k, w
  <2> QED BY <2>5, <2>6 DEF TapsDistants
<1>15. ASSUME NEW k \in h \cap m.prev, Gardee(m, k), n.changer # k
       PROVE  n.code[k] = keymaps[m.latch[k]][k].c
  <2> DEFINE a == keymaps[m.latch[k]][k]
  <2>1. /\ a.t = "code" /\ a # KNo /\ m.code[k] = a.c
        /\ ~ \E i \in m.actifs : k \in Membres(i)
    BY <1>15 DEF Gardee
  <2>2. k \in Keys /\ m.latch[k] \in Layers
    BY DEF Moteur
  <2>3. a \in Actions
    BY <2>2, Carte
  <2>4. v.latch[k] = m.latch[k]
    BY <1>1
  <2> HIDE DEF a
  <2>5. a.c # Aucun
    <3>1. a \in [t : Gammes, c : Codes \cup {Aucun}, l : Layers, m : SUBSET Mods]
          /\ a.l = 0 /\ a.m = {}
      BY <2>1, <2>3 DEF Actions
    <3>2. a.c = Aucun => a = KNo
      BY <2>1, <3>1 DEF KNo
    <3> QED BY <2>1, <3>2
  <2>6. ~ combo_is_suppressed(v, k)
    <3>1. \A x \in m.differe : x.k # k
      BY <2>1, <2>5 DEF Sain
    <3> QED BY <1>1, <2>1, <3>1 DEF combo_is_suppressed
  <2>7. v.changer # k
    BY <1>9, <1>15
  <2>8. Tapee(v, k)
    BY <2>1, <2>4, <2>6, <2>7 DEF Tapee, a
  <2>9. d.code[k] = keymaps[v.latch[k]][k].c
    BY <1>1, <1>3, <2>8 DEF Decide
  <2> QED BY <1>9, <2>4, <2>9
<1> QED BY <1>0, <1>8, <1>11, <1>12, <1>13, <1>14, <1>15

\* A toggle after the build touches the layers alone.
LEMMA BasculerUne ==
  ASSUME NEW m \in Moteur
  PROVE  LET n == process_matrix_changes(m)
         IN  /\ n \in Moteur /\ HorsFin(n, m) /\ n.prev = m.prev /\ n.lm = m.lm
             /\ n.changer = m.changer
<1>1. CASE m.to = KNo \/ \E k \in Keys : m.extra[k] = m.to
  BY <1>1 DEF process_matrix_changes, HorsFin
<1>2. CASE ~ (m.to = KNo \/ \E k \in Keys : m.extra[k] = m.to)
  <2> DEFINE l == IF m.cur = m.to.l THEN 0 ELSE m.to.l
  <2> DEFINE n == [m EXCEPT !.cur = l, !.last = l, !.to = KNo]
  <2>1. process_matrix_changes(m) = n
    BY <1>2 DEF process_matrix_changes, apply_toggle_layer, Moteur
  <2>2. l \in Layers
    <3>1. m.to \in Actions
      BY DEF Moteur
    <3> QED BY <3>1, TypeAction, LayersAssumption
  <2>3. KNo \in Actions
    BY LayersAssumption DEF KNo, Actions, Gammes
  <2> HIDE DEF l
  <2>4. n \in Moteur
    BY <2>2, <2>3 DEF Moteur
  <2>5. HorsFin(n, m) /\ n.prev = m.prev /\ n.lm = m.lm /\ n.changer = m.changer
    BY DEF HorsFin, Moteur
  <2> HIDE DEF n
  <2> QED BY <2>1, <2>4, <2>5
<1> QED BY <1>1, <1>2

\* The clock decides the tap-holds and touches no code.
LEMMA EcheanceUne ==
  ASSUME NEW m \in Moteur, Sain(m)
  PROVE  LET n == tap_hold_tick(m)
         IN  /\ n \in Moteur /\ Sain(n) /\ n.prev = m.prev /\ n.code = m.code
             /\ n.latch = m.latch /\ n.tap = m.tap /\ n.inj = m.inj /\ n.rmods = m.rmods
             /\ n.actifs = m.actifs
<1> DEFINE S == {i \in Enjeu(m) : m.slot[i].age >= Timeout}
<1> DEFINE f == S # {}
<1> DEFINE p == [m EXCEPT !.echu = f]
<1>1. tap_hold_tick(m) = Activer(p, S)
  BY DEF tap_hold_tick
<1>2. f \in BOOLEAN
  OBVIOUS
<1> HIDE DEF f
<1>3. p \in Moteur
  BY <1>2 DEF Moteur
<1>4. /\ p.slot = m.slot /\ p.mods = m.mods /\ p.prev = m.prev /\ p.code = m.code
      /\ p.latch = m.latch /\ p.tap = m.tap /\ p.inj = m.inj /\ p.rmods = m.rmods
      /\ p.actifs = m.actifs /\ p.differe = m.differe /\ p.lm = m.lm
  BY DEF Moteur
<1> HIDE DEF p
<1>5. S \in SUBSET Enjeu(p)
  BY <1>4 DEF Enjeu
<1>6. Tenus(p)
  BY <1>4 DEF Sain, Tenus
<1> HIDE DEF S
<1> DEFINE n == Activer(p, S)
<1>7. /\ n \in Moteur /\ HorsTapHold(n, p) /\ Tenus(n)
      /\ \A i \in 1 .. MaxPending :
           n.slot[i] = IF i \in S THEN [p.slot[i] EXCEPT !.st = "hold"] ELSE p.slot[i]
  BY <1>3, <1>5, <1>6, ActiverTout
<1> HIDE DEF n
<1>8. /\ n.prev = m.prev /\ n.code = m.code
      /\ n.latch = m.latch /\ n.tap = m.tap /\ n.inj = m.inj /\ n.rmods = m.rmods
      /\ n.actifs = m.actifs /\ n.differe = m.differe /\ n.lm = m.lm
  BY <1>4, <1>7 DEF HorsTapHold
<1>9. ASSUME NEW i \in 1 .. MaxPending
      PROVE  /\ n.slot[i].k = m.slot[i].k /\ n.slot[i].a = m.slot[i].a
             /\ n.slot[i].st # "tap"
             /\ n.slot[i].st # "idle" => m.slot[i].st \in {"pending", "hold"}
  <2>1. m.slot[i] \in Fentes /\ m.slot[i].st # "tap" /\ m.slot[i].st \in Etats
    BY LesFentes DEF Sain
  <2>2. CASE i \in S
    <3>1. n.slot[i] = [m.slot[i] EXCEPT !.st = "hold"] /\ m.slot[i].st = "pending"
      BY <1>4, <1>5, <1>7, <2>2 DEF Enjeu
    <3> QED BY <2>1, <3>1 DEF Fentes
  <2>3. CASE i \notin S
    BY <1>4, <1>7, <2>1, <2>3 DEF Etats
  <2> QED BY <2>2, <2>3
<1>10. Sain(n)
  <2>1. Attachees(n, n.prev)
    BY <1>8, <1>9 DEF Sain, Attachees
  <2>2. Uniques(n)
    BY <1>9 DEF Sain, Uniques
  <2> QED BY <1>7, <1>8, <1>9, <2>1, <2>2 DEF Sain
<1> QED BY <1>1, <1>7, <1>8, <1>10 DEF n

-----------------------------------------------------------------------------
(* The task and the scan.                                                  *)

\* The inductive invariant: the engine is sound, what it decoded is what the
\* scan says unless the flag is up or just taken, and the host has its report
\* unless it is about to be sent.
KeyInv ==
    /\ keymaps \in Keymaps /\ tenues \subseteq Keys /\ change \in BOOLEAN
    /\ pc \in {"attente", "distant", "hold", "local", "construire", "envoyer", "taps"}
    /\ e \in Moteur /\ Sain(e)
    /\ e.prev = {} => e.rmods \subseteq ModsDeCouche
    /\ \A k \in Keys \ e.prev : e.code[k] = Aucun
    /\ pc # "construire" /\ ~ change => e.prev = tenues
    /\ pc # "envoyer" => hote = Rapport(e)
    /\ pc \notin {"construire", "envoyer", "taps"} /\ ~ change => e.tap \subseteq TapsDistants

\* It holds at boot.
LEMMA InitInv == KeyInit => KeyInv
<1> SUFFICES ASSUME KeyInit PROVE KeyInv
  OBVIOUS
<1>1. /\ keymaps \in Keymaps /\ tenues = {} /\ change = FALSE /\ pc = "attente"
      /\ e = Neuf /\ hote = [c |-> {}, m |-> {}]
  BY DEF KeyInit
<1>2. e \in Moteur
  BY <1>1, NeufType
<1>3. /\ \A i \in 1 .. MaxPending : e.slot[i] = Libre
      /\ e.mods = {} /\ e.differe = {} /\ e.lm = {} /\ e.prev = {} /\ e.rmods = {}
      /\ e.tap = {} /\ e.inj = {} /\ \A k \in Keys : e.code[k] = Aucun
  BY <1>1 DEF Neuf
<1>4. Sain(e)
  BY <1>3 DEF Sain, Attachees, Uniques, Tenus, Libre
<1>5. hote = Rapport(e)
  BY <1>1, <1>3 DEF Rapport
<1> QED BY <1>1, <1>2, <1>3, <1>4, <1>5 DEF KeyInv

\* The keymap stays.
LEMMA Fige ==
  ASSUME keymaps' = keymaps
  PROVE  /\ ModsDeCouche' = ModsDeCouche /\ TapsDistants' = TapsDistants
         /\ Sain(e') => Sain(e)'
<1>1. ModsDeCouche' = ModsDeCouche /\ TapsDistants' = TapsDistants
  BY DEF ModsDeCouche, TapsDistants
<1>2. Attachees(e', e'.prev) => Attachees(e, e.prev)'
  BY DEF Attachees
<1>3. Uniques(e') => Uniques(e)'
  BY DEF Uniques
<1>4. Tenus(e') => Tenus(e)'
  BY DEF Tenus
<1> QED BY <1>1, <1>2, <1>3, <1>4 DEF Sain

\* A build keeps what concerns the engine alone.
LEMMA PasConstruire ==
  ASSUME KeyInv, keymaps' = keymaps, NEW h \in SUBSET Keys,
         e' = build_keycode_report(e, h) \/ e' = process_matrix_changes(build_keycode_report(e, h))
  PROVE  /\ e' \in Moteur /\ Sain(e') /\ e'.prev = h
         /\ h = {} => e'.rmods \subseteq ModsDeCouche
         /\ \A k \in Keys \ h : e'.code[k] = Aucun
         /\ e.prev \ h \subseteq Distantes => e'.tap \subseteq TapsDistants
         /\ \A k \in h \cap e.prev : Gardee(e, k) /\ e'.changer # k =>
              e'.code[k] = keymaps[e.latch[k]][k].c
<1> DEFINE b == build_keycode_report(e, h)
<1>1. /\ b \in Moteur /\ Sain(b) /\ b.prev = h
      /\ h = {} => b.rmods \subseteq ModsDeCouche
      /\ \A k \in Keys \ h : b.code[k] = Aucun
      /\ e.prev \ h \subseteq Distantes => b.tap \subseteq TapsDistants
      /\ \A k \in h \cap e.prev : Gardee(e, k) /\ b.changer # k =>
           b.code[k] = keymaps[e.latch[k]][k].c
  BY ConstruireTout DEF KeyInv
<1> HIDE DEF b
<1>2. CASE e' = b
  BY <1>1, <1>2
<1>3. CASE e' = process_matrix_changes(b)
  <2>1. e' \in Moteur /\ HorsFin(e', b) /\ e'.prev = b.prev /\ e'.lm = b.lm /\ e'.changer = b.changer
    BY <1>1, <1>3, BasculerUne
  <2>2. /\ e'.slot = b.slot /\ e'.mods = b.mods /\ e'.latch = b.latch /\ e'.differe = b.differe
        /\ e'.code = b.code /\ e'.tap = b.tap /\ e'.rmods = b.rmods
    BY <2>1 DEF HorsFin
  <2>3. Sain(e')
    BY <1>1, <2>1, <2>2 DEF Sain, Attachees, Uniques, Tenus
  <2> QED BY <1>1, <2>1, <2>2, <2>3
<1> QED BY <1>2, <1>3 DEF b

\* A tick changes ages only.
LEMMA PasTick ==
  ASSUME KeyInv, Tick
  PROVE  /\ e' \in Moteur /\ Sain(e') /\ e'.prev = e.prev /\ e'.code = e.code
         /\ e'.tap = e.tap /\ e'.inj = e.inj /\ e'.rmods = e.rmods
<1> DEFINE s == [i \in DOMAIN e.slot |->
                   IF i \in Enjeu(e) THEN Vieillie(e.slot[i]) ELSE e.slot[i]]
<1> DEFINE y == {[d EXCEPT !.age = 1] : d \in e.differe}
<1> DEFINE n == [e EXCEPT !.slot = s, !.differe = y]
<1>0. e \in Moteur /\ Sain(e) /\ e.slot \in [1 .. MaxPending -> Fentes]
      /\ e.differe \in SUBSET Differes
  BY DEF KeyInv, Moteur
<1>1. e' = n
  BY <1>0 DEF Tick, Moteur
<1>2. ASSUME NEW i \in 1 .. MaxPending
      PROVE  /\ s[i] \in Fentes
             /\ s[i].st = e.slot[i].st /\ s[i].k = e.slot[i].k /\ s[i].a = e.slot[i].a
  <2>1. e.slot[i] \in Fentes /\ e.slot[i].age \in 0 .. Timeout
    BY <1>0, LesFentes
  <2>2. CASE i \in Enjeu(e)
    <3>1. e.slot[i].age + 1 \in 0 .. Timeout
      <4>1. e.slot[i].age < Timeout
        BY <2>2 DEF Tick
      <4> QED BY <2>1, <4>1, TimeoutAssumption
    <3>2. s[i] = [e.slot[i] EXCEPT !.age = e.slot[i].age + 1]
      BY <1>0, <2>1, <2>2 DEF Fentes, Vieillie
    <3> HIDE DEF s
    <3> QED BY <2>1, <3>1, <3>2 DEF Fentes
  <2>3. CASE i \notin Enjeu(e)
    BY <1>0, <2>1, <2>3
  <2> QED BY <2>2, <2>3
<1>3. s \in [1 .. MaxPending -> Fentes]
  BY <1>0, <1>2
<1>4. y \in SUBSET Differes
  BY <1>0 DEF Differes
<1>5. \A d \in y : \E x \in e.differe : d.k = x.k
  BY <1>0 DEF Differes
<1> HIDE DEF s, y
<1>6. n \in Moteur
  BY <1>0, <1>3, <1>4 DEF Moteur
<1>7. /\ n.slot = s /\ n.differe = y /\ n.prev = e.prev /\ n.code = e.code /\ n.latch = e.latch
      /\ n.tap = e.tap /\ n.inj = e.inj /\ n.rmods = e.rmods /\ n.mods = e.mods /\ n.lm = e.lm
  BY <1>0 DEF Moteur
<1> HIDE DEF n
<1>8. Sain(n)
  <2>1. Attachees(n, n.prev)
    BY <1>0, <1>2, <1>7 DEF Sain, Attachees
  <2>2. Uniques(n)
    BY <1>0, <1>2, <1>7 DEF Sain, Uniques
  <2>3. Tenus(n)
    BY <1>0, <1>2, <1>7 DEF Sain, Tenus
  <2>4. \A d \in n.differe : n.code[d.k] = Aucun
    BY <1>0, <1>5, <1>7 DEF Sain
  <2> QED BY <1>0, <1>2, <1>7, <2>1, <2>2, <2>3, <2>4 DEF Sain
<1> QED BY <1>1, <1>6, <1>7, <1>8

\* Every step keeps it.
LEMMA Pas ==
  KeyInv /\ [KeyNext]_keyVars => KeyInv'
<1> SUFFICES ASSUME KeyInv, [KeyNext]_keyVars PROVE KeyInv'
  OBVIOUS
<1>0. /\ keymaps \in Keymaps /\ tenues \subseteq Keys /\ change \in BOOLEAN
      /\ e \in Moteur /\ Sain(e)
      /\ e.prev = {} => e.rmods \subseteq ModsDeCouche
      /\ \A k \in Keys \ e.prev : e.code[k] = Aucun
  BY DEF KeyInv
<1>1. keymaps' = keymaps
  BY DEF KeyNext, Tache, keyVars, Scan, Distant, Minuteurs, HoldActive, matrix_flag_take,
         ConstruireLocal, Envoyer, key_processor_clear_taps, Tick
<1>2. /\ ModsDeCouche' = ModsDeCouche /\ TapsDistants' = TapsDistants
      /\ Sain(e') => Sain(e)'
  BY <1>1, Fige
<1>3. ASSUME e' = e PROVE Sain(e)'
  BY <1>0, <1>2, <1>3
<1>4. CASE UNCHANGED keyVars
  BY <1>2, <1>3, <1>4 DEF KeyInv, keyVars, Rapport
<1>5. ASSUME NEW h \in SUBSET Keys, Scan(h) PROVE KeyInv'
  BY <1>2, <1>3, <1>5 DEF KeyInv, Scan, Rapport
<1>6. ASSUME NEW h \in SUBSET Keys, Distant(h) PROVE KeyInv'
  <2>1. /\ e' \in Moteur /\ Sain(e') /\ e'.prev = h
        /\ h = {} => e'.rmods \subseteq ModsDeCouche
        /\ \A k \in Keys \ h : e'.code[k] = Aucun
        /\ e.prev \ h \subseteq Distantes => e'.tap \subseteq TapsDistants
    BY <1>1, <1>6, PasConstruire DEF Distant
  <2>2. ~ change => e.prev \ h \subseteq Distantes
    BY <1>6 DEF KeyInv, Distant
  <2>3. tenues' = h /\ change' = change /\ pc' = "hold" /\ hote' = Rapport(e')
    BY <1>6 DEF Distant
  <2> QED BY <1>0, <1>1, <1>2, <2>1, <2>2, <2>3 DEF KeyInv, Rapport
<1>7. CASE Minuteurs
  <2>1. /\ e' \in Moteur /\ Sain(e') /\ e'.prev = e.prev /\ e'.code = e.code
        /\ e'.tap = e.tap /\ e'.inj = e.inj /\ e'.rmods = e.rmods
    BY <1>0, <1>7, EcheanceUne DEF Minuteurs
  <2> QED BY <1>1, <1>2, <1>7, <2>1 DEF KeyInv, Minuteurs, Rapport
<1>8. CASE HoldActive
  <2>1. CASE e.echu
    <3>1. /\ e' \in Moteur /\ Sain(e') /\ e'.prev = tenues
          /\ tenues = {} => e'.rmods \subseteq ModsDeCouche
          /\ \A k \in Keys \ tenues : e'.code[k] = Aucun
          /\ e.prev \ tenues \subseteq Distantes => e'.tap \subseteq TapsDistants
      BY <1>0, <1>1, <1>8, <2>1, PasConstruire DEF HoldActive
    <3>2. ~ change => e.prev = tenues
      BY <1>8 DEF KeyInv, HoldActive
    <3>3. tenues' = tenues /\ change' = change /\ pc' = "local" /\ hote' = Rapport(e')
      BY <1>8, <2>1 DEF HoldActive
    <3> QED BY <1>0, <1>1, <1>2, <3>1, <3>2, <3>3 DEF KeyInv, Rapport
  <2>2. CASE ~ e.echu
    BY <1>2, <1>3, <1>8, <2>2 DEF KeyInv, HoldActive, Rapport
  <2> QED BY <2>1, <2>2
<1>9. CASE matrix_flag_take
  BY <1>2, <1>3, <1>9 DEF KeyInv, matrix_flag_take, Rapport
<1>10. CASE ConstruireLocal
  <2>1. /\ e' \in Moteur /\ Sain(e') /\ e'.prev = tenues
        /\ tenues = {} => e'.rmods \subseteq ModsDeCouche
        /\ \A k \in Keys \ tenues : e'.code[k] = Aucun
    BY <1>0, <1>1, <1>10, PasConstruire DEF ConstruireLocal
  <2>2. tenues' = tenues /\ change' = change /\ pc' = "envoyer"
    BY <1>10 DEF ConstruireLocal
  <2> QED BY <1>0, <1>1, <1>2, <2>1, <2>2 DEF KeyInv
<1>11. CASE Envoyer
  BY <1>2, <1>3, <1>11 DEF KeyInv, Envoyer, Rapport
<1>12. CASE key_processor_clear_taps
  <2> DEFINE n == [e EXCEPT !.tap = {}]
  <2>1. e' = n
    BY <1>12 DEF key_processor_clear_taps
  <2>2. n \in Moteur
    BY <1>0 DEF Moteur
  <2>3. HorsFin([n EXCEPT !.tap = e.tap], e) /\ n.prev = e.prev /\ n.lm = e.lm
        /\ n.code = e.code /\ n.rmods = e.rmods /\ n.tap = {}
        /\ n.slot = e.slot /\ n.mods = e.mods /\ n.latch = e.latch /\ n.differe = e.differe
    BY <1>0 DEF HorsFin, Moteur
  <2> HIDE DEF n
  <2>4. Sain(n)
    BY <1>0, <2>3 DEF Sain, Attachees, Uniques, Tenus
  <2>5. pc' = "attente" /\ hote' = Rapport(e') /\ tenues' = tenues /\ change' = change
    BY <1>12 DEF key_processor_clear_taps
  <2>6. pc = "taps"
    BY <1>12 DEF key_processor_clear_taps
  <2> QED BY <1>1, <1>2, <2>1, <2>2, <2>3, <2>4, <2>5, <2>6 DEF KeyInv, Rapport
<1>13. CASE Tick
  <2>1. /\ e' \in Moteur /\ Sain(e') /\ e'.prev = e.prev /\ e'.code = e.code
        /\ e'.tap = e.tap /\ e'.inj = e.inj /\ e'.rmods = e.rmods
    BY <1>13, PasTick
  <2>2. tenues' = tenues /\ change' = change /\ pc' = pc /\ hote' = hote
    BY <1>13 DEF Tick
  <2> QED BY <1>1, <1>2, <2>1, <2>2 DEF KeyInv, Rapport
<1> QED BY <1>4, <1>5, <1>6, <1>7, <1>8, <1>9, <1>10, <1>11, <1>12, <1>13 DEF KeyNext, Tache

\* Whatever the keymap, the combos and the place of the loop where the scan or
\* the clock comes in, the engine of key_processor.c, tap_hold.c and combo.c
\* keeps its state sound.
THEOREM KeyInvariant == KeySpec => []KeyInv
<1>1. KeyInit => KeyInv
  BY InitInv
<1>2. KeyInv /\ [KeyNext]_keyVars => KeyInv'
  BY Pas
<1> QED BY <1>1, <1>2, PTL DEF KeySpec

\* It gives the types.
LEMMA TypeDeInv == KeyInv => KeyTypeOK
<1> SUFFICES ASSUME KeyInv PROVE KeyTypeOK
  OBVIOUS
<1>1. \A s \in Range(e.slot) : s.age \in 0 .. Timeout
  <2>1. DOMAIN e.slot = 1 .. MaxPending
    BY DEF KeyInv, Moteur
  <2> QED BY <2>1, LesFentes DEF Range, KeyInv
<1>2. e \in Moteur
  BY DEF KeyInv
<1>3. /\ e.cur \in Layers /\ e.last \in Layers
      /\ e.changer \in Keys \cup {0}
      /\ e.lt \in Layers \cup {-1} /\ e.base \in Layers \cup {-1}
      /\ e.osl \in Layers \cup {-1} /\ e.lock \in BOOLEAN
      /\ e.latch \in [Keys -> Layers]
      /\ e.prev \subseteq Keys
  BY <1>2 DEF Moteur
<1> QED BY <1>1, <1>3 DEF KeyInv, KeyTypeOK

\* When the task waits and no change is signalled, it has decoded the keys held
\* and sent their report (matrix_flag.h, vTaskKeyboard), for every keymap and
\* every set of combos.
THEOREM EdgesKept == KeySpec => []EdgeNotLost
<1>1. KeyInv => EdgeNotLost
  BY TypeDeInv DEF KeyInv, EdgeNotLost
<1> QED BY <1>1, KeyInvariant, PTL

\* What may stay down at the host with no key held, until the next report: what
\* a combo typed, the tap of a key of the other half, the modifiers of a
\* layer-mod, and nothing else (build_keycode_report, key_processor_clear_taps).
LaisseAuRepos ==
    pc = "attente" /\ ~ change /\ tenues = {} =>
        hote.c \subseteq e.inj \cup TapsDistants /\ hote.m \subseteq ModsDeCouche

\* With no key held, the code leaves nothing else down at the host than these
\* three: no tap of a local key, no tap-hold, no one-shot, no key released.
THEOREM LeftDownAtRest == KeySpec => []LaisseAuRepos
<1>1. ASSUME KeyInv, pc = "attente", ~ change, tenues = {}
      PROVE  hote.c \subseteq e.inj \cup TapsDistants /\ hote.m \subseteq ModsDeCouche
  <2>1. /\ e.prev = {} /\ hote = Rapport(e) /\ e.tap \subseteq TapsDistants
        /\ e.rmods \subseteq ModsDeCouche /\ \A k \in Keys : e.code[k] = Aucun
    BY <1>1 DEF KeyInv
  <2>2. {e.code[k] : k \in Keys} \ {Aucun} = {}
    BY <2>1
  <2>3. hote.c = ({e.code[k] : k \in Keys} \ {Aucun}) \cup e.tap \cup (e.inj \ {Aucun})
        /\ hote.m = e.rmods
    BY <2>1 DEF Rapport
  <2> QED BY <2>1, <2>2, <2>3
<1>2. KeyInv => LaisseAuRepos
  BY <1>1 DEF LaisseAuRepos
<1> QED BY <1>2, KeyInvariant, PTL

\* No slot of tap_hold.c is of a key released, and no modifier is down without
\* the hold that put it down.
THEOREM HoldsEndWithTheirKeys == KeySpec => []NoHoldOutlivesItsKey
<1>1. ASSUME KeyInv PROVE NoHoldOutlivesItsKey
  <2>0. e \in Moteur /\ Sain(e) /\ DOMAIN e.slot = 1 .. MaxPending
    BY <1>1 DEF KeyInv, Moteur
  <2>1. ASSUME NEW s \in Range(e.slot), s.st # "idle" PROVE s.k \in e.prev
    <3>1. PICK i \in 1 .. MaxPending : s = e.slot[i]
      BY <2>0 DEF Range
    <3>2. s.st \in {"pending", "hold"}
      BY <2>0, <2>1, <3>1, LesFentes DEF Etats, Sain
    <3> QED BY <2>0, <3>1, <3>2 DEF Sain, Attachees
  <2>2. ASSUME NEW x \in e.mods
        PROVE  x \in UNION {s.a.m : s \in {r \in Range(e.slot) : r.st = "hold" /\ r.a.t # "lt"}}
    <3>1. PICK i \in 1 .. MaxPending :
             e.slot[i].st = "hold" /\ e.slot[i].a.t # "lt" /\ x \in e.slot[i].a.m
      BY <2>0 DEF Sain, Tenus
    <3>2. e.slot[i] \in {r \in Range(e.slot) : r.st = "hold" /\ r.a.t # "lt"}
      BY <2>0, <3>1 DEF Range
    <3> QED BY <3>1, <3>2
  <2> QED BY <2>1, <2>2 DEF NoHoldOutlivesItsKey
<1> QED BY <1>1, KeyInvariant, PTL

\* The action of HeldKeepsCode.
Gardees ==
    \A k \in e.prev \cap e'.prev :
      LET a == keymaps[e.latch[k]][k]
      IN  a.t = "code" /\ a # KNo /\ e.code[k] = a.c
          /\ ~(\E i \in e.actifs : k \in Membres(i)) /\ e'.changer # k
             => e'.code[k] = a.c

\* No step breaks it.
LEMMA PasGardees ==
  ASSUME KeyInv, [KeyNext]_keyVars
  PROVE  Gardees
<1>0. e \in Moteur /\ Sain(e)
  BY DEF KeyInv
<1>1. CASE e'.code = e.code
  BY <1>1 DEF Gardees
<1>2. ASSUME NEW h \in SUBSET Keys, keymaps' = keymaps,
             e' = build_keycode_report(e, h)
             \/ e' = process_matrix_changes(build_keycode_report(e, h))
      PROVE  Gardees
  <2>1. /\ e'.prev = h
        /\ \A k \in h \cap e.prev : Gardee(e, k) /\ e'.changer # k =>
             e'.code[k] = keymaps[e.latch[k]][k].c
    BY <1>2, PasConstruire
  <2> QED BY <2>1 DEF Gardees, Gardee
<1>3. CASE UNCHANGED keyVars
  BY <1>1, <1>3 DEF keyVars
<1>4. ASSUME NEW h \in SUBSET Keys, Scan(h) \/ Distant(h) PROVE Gardees
  <2>1. CASE Scan(h)
    BY <1>1, <2>1 DEF Scan
  <2>2. CASE Distant(h)
    BY <1>2, <2>2 DEF Distant
  <2> QED BY <1>4, <2>1, <2>2
<1>5. CASE Minuteurs
  <2>1. e'.code = e.code
    BY <1>0, <1>5, EcheanceUne DEF Minuteurs
  <2> QED BY <1>1, <2>1
<1>6. CASE HoldActive
  <2>1. tenues \in SUBSET Keys
    BY DEF KeyInv
  <2>2. CASE e.echu
    BY <1>2, <1>6, <2>1, <2>2 DEF HoldActive
  <2>3. CASE ~ e.echu
    BY <1>1, <1>6, <2>3 DEF HoldActive
  <2> QED BY <2>2, <2>3
<1>7. CASE ConstruireLocal
  <2>1. tenues \in SUBSET Keys
    BY DEF KeyInv
  <2> QED BY <1>2, <1>7, <2>1 DEF ConstruireLocal
<1>8. CASE matrix_flag_take \/ Envoyer
  BY <1>1, <1>8 DEF matrix_flag_take, Envoyer
<1>9. CASE key_processor_clear_taps
  <2>1. e'.code = e.code
    BY <1>0, <1>9 DEF key_processor_clear_taps, Moteur
  <2> QED BY <1>1, <2>1
<1>10. CASE Tick
  BY <1>1, <1>10, PasTick
<1> QED BY <1>3, <1>4, <1>5, <1>6, <1>7, <1>8, <1>9, <1>10 DEF KeyNext, Tache

\* A key held keeps the keycode of the layer it was pressed on (press_layer of
\* key_processor.c), for every keymap.
THEOREM HeldCodesKept == KeySpec => HeldKeepsCode
<1>1. KeyInv /\ [KeyNext]_keyVars => [Gardees]_keyVars
  BY PasGardees
<1>2. KeySpec => [][Gardees]_keyVars
  BY <1>1, KeyInvariant, PTL DEF KeySpec
<1> QED BY <1>2, PTL DEF HeldKeepsCode, Gardees
=============================================================================
