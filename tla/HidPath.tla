------------------------------- MODULE HidPath -------------------------------
(***************************************************************************)
(* From the keymap engine to the host: send_hid_key deduplicates a report  *)
(* and queues it, the sender task takes it out of the queue and hands it   *)
(* to the USB endpoint, which may stay busy for the whole wait and then    *)
(* gets nothing.  Beside that path, hid_send_keyboard goes straight to the *)
(* endpoint: the dongle releases the host that way when it falls silent.   *)
(*                                                                         *)
(* Both tasks are pinned to core 0.  The dongle engine (priority 9) runs   *)
(* over the sender (4); the keyboard task (3) runs only while the sender   *)
(* is blocked, on its queue or in the transport.                           *)
(*                                                                         *)
(* A message carries the report and, for the properties only, the number   *)
(* of its production.  Mouse messages have no caller left in the code:     *)
(* the branches that combine them are not modelled, but the look-ahead     *)
(* that searches for one is, since it moves keyboard reports.              *)
(***************************************************************************)
EXTENDS Integers, Sequences

CONSTANTS
    Reports,    \* the keyboard reports: keycodes and modifiers
    Vide,       \* the empty report
    QueueCap,   \* the length of hid_queue, 32 in the code
    MaxNo       \* bound: how many reports are produced

ASSUME VideAssumption == Vide \in Reports
ASSUME QueueCapAssumption == QueueCap \in Nat \ {0, 1}
ASSUME MaxNoAssumption == MaxNo \in Nat

Messages == [kb : Reports, no : 0 .. MaxNo]
Zero == [kb |-> Vide, no |-> 0]

VARIABLES
    carte,      \* the board: its producer is the dongle engine or a keyboard task
    courant,    \* the report the engine has built, with its number
    dedup,      \* the last committed one, and whether it is still recent
    hidQueue,   \* hid_queue
    peek,       \* the message send_hid_key took to look at
    producteur, \* where send_hid_key is
    msg, suite, \* the message being sent, the one taken after it
    envoi,      \* where the sender task is
    presente,   \* the last message the sender presented to the endpoint
    host,       \* the last report the endpoint accepted
    muet        \* the engine is silent

engine  == <<carte, courant, dedup, peek, producteur, muet>>
sender  == <<msg, suite, envoi, presente>>
hidVars == <<engine, hidQueue, sender, host>>

HidTypeOK ==
    /\ carte \in {"dongle", "clavier"}
    /\ courant \in Messages
    /\ dedup \in [last : Messages, recent : BOOLEAN, valid : BOOLEAN]
    /\ hidQueue \in Seq(Messages) /\ Len(hidQueue) <= QueueCap
    /\ peek \in Messages
    /\ producteur \in {"repos", "choisir", "remettre", "enfiler"}
    /\ msg \in Messages /\ suite \in Messages
    /\ envoi \in {"attente", "combiner", "rendre", "emettre"}
    /\ presente \in Messages
    /\ host \in Reports
    /\ muet \in BOOLEAN

HidInit ==
    /\ carte \in {"dongle", "clavier"}
    /\ courant = Zero
    /\ dedup = [last |-> Zero, recent |-> FALSE, valid |-> FALSE]
    /\ hidQueue = << >>
    /\ peek = Zero /\ msg = Zero /\ suite = Zero
    /\ producteur = "repos"
    /\ envoi = "attente"
    /\ presente = Zero
    /\ host = Vide
    /\ muet = FALSE

Place == Len(hidQueue) < QueueCap

\* Which of the two tasks of the core runs.  A send to a full queue blocks its
\* producer for up to 5 ms; the sender blocks on its empty queue and, in the
\* transport, on a suspended host.
EngineRuns ==
    \/ carte = "dongle"
    \/ envoi = "emettre"
    \/ envoi = "attente" /\ hidQueue = << >>
SenderRuns ==
    \/ carte = "clavier"
    \/ producteur = "repos"
    \/ producteur = "enfiler" /\ ~Place

-----------------------------------------------------------------------------
(***************************************************************************)
(* The producer: build_keycode_report then send_hid_key.                   *)
(***************************************************************************)
\* hid_dedup_should_send: a change always goes, a repeat only once it is old.
ShouldSend == ~dedup.valid \/ dedup.last.kb # courant.kb \/ ~dedup.recent

Construire(k) ==
    /\ EngineRuns
    /\ producteur = "repos"
    /\ ~muet
    /\ courant.no < MaxNo
    /\ courant' = [kb |-> k, no |-> courant.no + 1]
    /\ producteur' = "choisir"
    /\ UNCHANGED <<carte, dedup, peek, muet, hidQueue, sender, host>>

\* A repeat is dropped; otherwise, if something waits, its first message is
\* taken out to see whether it is a mouse message to combine with.
Choisir ==
    /\ EngineRuns
    /\ producteur = "choisir"
    /\ \/ /\ ~ShouldSend
          /\ producteur' = "repos"
          /\ UNCHANGED <<peek, hidQueue>>
       \/ /\ ShouldSend /\ hidQueue = << >>
          /\ producteur' = "enfiler"
          /\ UNCHANGED <<peek, hidQueue>>
       \/ /\ ShouldSend /\ hidQueue # << >>
          /\ peek' = Head(hidQueue)
          /\ hidQueue' = Tail(hidQueue)
          /\ producteur' = "remettre"
    /\ UNCHANGED <<carte, courant, dedup, muet, sender, host>>

\* It is a keyboard message: put back in front, or lost if there is no room.
Remettre ==
    /\ EngineRuns
    /\ producteur = "remettre"
    /\ hidQueue' = IF Place THEN <<peek>> \o hidQueue ELSE hidQueue
    /\ peek' = Zero
    /\ producteur' = "enfiler"
    /\ UNCHANGED <<carte, courant, dedup, muet, sender, host>>

\* xQueueSend, and the commit only if the queue took the report.
\* (Mistaken: a report that found no room is committed too.)
EnfilerEtRetenir ==
    /\ EngineRuns
    /\ producteur = "enfiler"
    /\ hidQueue' = IF Place THEN Append(hidQueue, courant) ELSE hidQueue
    /\ dedup' = [last |-> courant, recent |-> TRUE, valid |-> TRUE]
    /\ producteur' = "repos"
    /\ UNCHANGED <<carte, courant, peek, muet, sender, host>>

Enfiler ==
    /\ EngineRuns
    /\ producteur = "enfiler"
    /\ \/ /\ Place
          /\ hidQueue' = Append(hidQueue, courant)
          /\ dedup' = [last |-> courant, recent |-> TRUE, valid |-> TRUE]
       \/ /\ ~Place
          /\ UNCHANGED <<hidQueue, dedup>>
    /\ producteur' = "repos"
    /\ UNCHANGED <<carte, courant, peek, muet, sender, host>>

\* KEY_ENQUEUE_MIN_MS have passed since the last commit.
Vieillir ==
    /\ dedup.recent
    /\ dedup' = [last |-> dedup.last, recent |-> FALSE, valid |-> dedup.valid]
    /\ UNCHANGED <<carte, courant, peek, producteur, muet, hidQueue, sender, host>>

\* dongle_engine_task falls silent: the empty report goes out directly, it is
\* neither queued nor committed, and whether the endpoint took it is ignored.
Taire ==
    /\ carte = "dongle"
    /\ producteur = "repos" /\ ~muet
    /\ muet' = TRUE
    /\ host' \in {Vide, host}
    /\ UNCHANGED <<carte, courant, dedup, peek, producteur, hidQueue, sender>>

\* Typing again changes nothing on this path.
Reparler ==
    /\ muet
    /\ muet' = FALSE
    /\ UNCHANGED <<carte, courant, dedup, peek, producteur, hidQueue, sender, host>>

-----------------------------------------------------------------------------
(***************************************************************************)
(* hid_sender_task.                                                        *)
(***************************************************************************)
Recevoir ==
    /\ SenderRuns
    /\ envoi = "attente" /\ hidQueue # << >>
    /\ msg' = Head(hidQueue)
    /\ hidQueue' = Tail(hidQueue)
    /\ envoi' = "combiner"
    /\ UNCHANGED <<engine, suite, presente, host>>

\* The next message is taken too, in case it is a mouse message ...
Combiner ==
    /\ SenderRuns
    /\ envoi = "combiner"
    /\ \/ /\ hidQueue = << >>
          /\ envoi' = "emettre"
          /\ UNCHANGED <<suite, hidQueue>>
       \/ /\ hidQueue # << >>
          /\ suite' = Head(hidQueue)
          /\ hidQueue' = Tail(hidQueue)
          /\ envoi' = "rendre"
    /\ UNCHANGED <<engine, msg, presente, host>>

\* ... and put back in front, or lost if the room was taken meanwhile.
\* (Mistaken: put back behind what was queued since.)
RendreEnQueue ==
    /\ SenderRuns
    /\ envoi = "rendre"
    /\ hidQueue' = IF Place THEN Append(hidQueue, suite) ELSE hidQueue
    /\ suite' = Zero
    /\ envoi' = "emettre"
    /\ UNCHANGED <<engine, msg, presente, host>>

\* (Mistaken: what was taken to look at is not put back.)
RendreSansRemettre ==
    /\ SenderRuns
    /\ envoi = "rendre"
    /\ suite' = Zero
    /\ envoi' = "emettre"
    /\ UNCHANGED <<engine, msg, hidQueue, presente, host>>

Rendre ==
    /\ SenderRuns
    /\ envoi = "rendre"
    /\ hidQueue' = IF Place THEN <<suite>> \o hidQueue ELSE hidQueue
    /\ suite' = Zero
    /\ envoi' = "emettre"
    /\ UNCHANGED <<engine, msg, presente, host>>

\* hid_send_kb_mouse: the endpoint accepts the report, or stays busy past the
\* wait; the sender task does not look at which.
EmettreRapport ==
    /\ SenderRuns
    /\ envoi = "emettre"
    /\ presente' = msg
    /\ host' \in {msg.kb, host}
    /\ msg' = Zero
    /\ envoi' = "attente"
    /\ UNCHANGED <<engine, suite, hidQueue>>

-----------------------------------------------------------------------------
Producteur == Choisir \/ Remettre \/ Enfiler
Sender     == Recevoir \/ Combiner \/ Rendre \/ EmettreRapport

HidNext ==
        \/ \E k \in Reports : Construire(k)
        \/ Producteur
        \/ Vieillir
        \/ Taire \/ Reparler
        \/ Sender

\* A cycle that builds a report sends it, and the sender task is scheduled.
HidFairness == WF_hidVars(Producteur) /\ WF_hidVars(Sender)

HidSpec == HidInit /\ [][HidNext]_hidVars /\ HidFairness

-----------------------------------------------------------------------------
(***************************************************************************)
(* Properties.                                                             *)
(***************************************************************************)
AtRest == producteur = "repos" /\ envoi = "attente" /\ hidQueue = << >>

\* At rest the last report committed is the last one presented to the endpoint:
\* no look-ahead, no full queue and no drop is remembered by the deduplication
\* as a report that went out.
CommittedIsPresented ==
    /\ HidTypeOK
    /\ AtRest /\ dedup.valid => presente = dedup.last

\* The dongle presents the reports in the order its engine built them, whatever
\* the two look-aheads take out of the queue and put back.  A keyboard does not
\* promise it: its sender can overtake send_hid_key between the two.
InOrder == [][carte = "dongle" => presente'.no >= presente.no]_hidVars

\* When the engine stops, the endpoint is presented its last report.
EventuallyPresented ==
    \A k \in Reports :
        <>[](dedup.valid /\ dedup.last.kb = k) => <>[](presente.kb = k)
=============================================================================
