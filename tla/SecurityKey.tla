----------------------------- MODULE SecurityKey -----------------------------
(***************************************************************************)
(* The OpenPGP card of the dongle: the applet (openpgp_card.c) with what   *)
(* it keeps in NVS, the CCID pipe it answers through (ccid.c) and the      *)
(* touch that some operations wait for (sec_confirm.c).                    *)
(*                                                                         *)
(* Four actors interleave: the USB task, which receives the commands and   *)
(* runs the deferred sends; the worker, which runs the applet and may wait *)
(* for a touch; the keyboard task, which gives it; and the host, which     *)
(* sends a command at a time.  The bus may be reset under a command, the   *)
(* dongle unplugged between two writes, and a write may fail.              *)
(*                                                                         *)
(* A command is what the applet does with it; data objects, points and     *)
(* signatures are left out, except what decides: the touch asked per key   *)
(* (D6 to D8), the validity of PW1 (C4) and the signature counter (93).    *)
(* Of TinyUSB only its use here is modelled: a transfer on an open, idle   *)
(* endpoint is taken; of the host, that it ignores an answer of another    *)
(* sequence number, and that the dongle boots before it is enumerated.     *)
(***************************************************************************)
EXTENDS Integers, Sequences

CONSTANTS
    Slots,      \* the key slots, among "sig", "dec", "aut"
    Essais,     \* PW1_RETRY_MAX, PW3_RETRY_MAX
    Attente,    \* SEC_CONFIRM_TIMEOUT_MS, in periods of CCID_WTX_PERIOD_MS
    Reprises,   \* the retries of ccid_send_final_cb
    Tour,       \* the values of the signature counter, of 3 bytes
    Budgets     \* how many commands the host sends and among which, the failed
                \* writes, the unpluggings and the resets of the bus

ASSUME SlotsAssumption == Slots \subseteq {"sig", "dec", "aut"}
ASSUME DelaysAssumption == {Essais, Attente, Reprises, Tour} \subseteq Nat \ {0}
Ordres == {"select", "terminate", "activate", "verify", "change", "uif", "c4", "compteur",
           "cle", "utiliser", "lire"}
ASSUME BudgetsAssumption ==
    Budgets \subseteq [commandes : Nat, parmi : SUBSET Ordres,
                       pannes : Nat, coupures : Nat, resets : Nat]

Usine == 0                      \* the factory PIN, and another one
Pins == {Usine, 1}
Refs == {"pw1", "pw3"}

Commandes ==
    [ins : {"select", "terminate", "activate", "lire"}]
    \cup [ins : {"verify"}, p2 : {81, 82, 83}, pin : Pins]
    \cup [ins : {"change"}, ref : Refs, ancien : Pins, nouveau : Pins]
    \cup [ins : {"uif"}, slot : Slots, on : BOOLEAN]
    \cup [ins : {"c4"}, multi : BOOLEAN]
    \cup [ins : {"compteur"}, valeur : 0 .. Tour - 1]
    \cup [ins : {"cle"}, slot : Slots]
    \cup [ins : {"utiliser"}, slot : Slots]

VARIABLES
    carte,  \* the statics of openpgp_card.c and the data objects
    nvs,    \* the blobs pgp_pins, pgp_keys and pgp_dos
    w,      \* ccid_worker
    conf,   \* sec_confirm, and the keyboard task inside sec_confirm_authorize
    usb,    \* the statics of ccid.c, its endpoints and the deferred calls
    hote,   \* whether the host waits for an answer
    reste,  \* the events left; the commands left number the commands
    vu      \* history, for the properties; signees is the base of the counter
            \* and the signatures handed out since, less Tour when it wraps

vars == <<carte, nvs, w, conf, usb, hote, reste, vu>>

Rien == [ins |-> "lire"]
Oisif == [pc |-> "attend", n |-> 0, cmd |-> Rien, suite |-> <<>>, genre |-> "aucun"]
Ferme == [ouvert |-> FALSE, amorce |-> FALSE, finale |-> FALSE, entree |-> "libre",
          ecrit |-> [seq |-> 0, n |-> 0], file |-> <<>>, reprises |-> 0, sem |-> FALSE,
          tampon |-> [n |-> 0, cmd |-> Rien], seq |-> 0]
Calme == [etat |-> "idle", age |-> 0, lu |-> FALSE]

pins_factory == [essais |-> [q \in Refs |-> Essais], pin |-> [q \in Refs |-> Usine]]
\* D6 asks for a touch, D7 and D8 do not; C4 is absent; 93 is zero.
ensure_defaults == [uif |-> [s \in Slots |-> s = "sig"], multi |-> FALSE, ds |-> 0]
SansCle == [s \in Slots |-> FALSE]

\* openpgp_card_init then openpgp_card_load: a session with nothing verified.
Demarrer(pins, cles, dos) ==
    [sel |-> FALSE, fini |-> FALSE, v81 |-> FALSE, v82 |-> FALSE, v83 |-> FALSE,
     pins |-> pins, cles |-> cles, dos |-> dos]

\* A session under way on a card in use: its keys are there, its PINs were
\* changed, and the host has shown them.
Init ==
    /\ nvs = [pins |-> [pins_factory EXCEPT !.pin = [q \in Refs |-> 1]],
              cles |-> [s \in Slots |-> TRUE],
              dos |-> [ensure_defaults EXCEPT !.uif = [s \in Slots |-> TRUE]]]
    /\ carte = [Demarrer(nvs.pins, nvs.cles, nvs.dos) EXCEPT
                  !.sel = TRUE, !.v81 = TRUE, !.v82 = TRUE, !.v83 = TRUE]
    /\ w = Oisif
    /\ conf = Calme
    /\ usb = [Ferme EXCEPT !.ouvert = TRUE, !.amorce = TRUE]
    /\ hote = "libre"
    /\ reste \in Budgets
    /\ vu = [faux |-> [q \in Refs |-> 0], signees |-> 0, preuve |-> {81, 82, 83}, seules |-> 0,
             touche |-> FALSE, panne |-> FALSE, chevauche |-> FALSE,
             trompe |-> FALSE, lache |-> FALSE]

-----------------------------------------------------------------------------
(* openpgp_card_apdu: what each command does.                              *)

RefDe(p2) == IF p2 = 83 THEN "pw3" ELSE "pw1"

\* The returns before any effect: state, selection, PIN blocked, PIN not shown,
\* no key.
Acceptee(k) ==
    IF carte.fini THEN k.ins = "activate"
    ELSE \/ k.ins \in {"select", "activate"}
         \/ k.ins = "terminate"
            /\ (carte.v83 \/ \A q \in Refs : carte.pins.essais[q] = 0)
         \/ /\ carte.sel
            /\ \/ k.ins = "verify" /\ carte.pins.essais[RefDe(k.p2)] > 0
               \/ k.ins = "change" /\ carte.pins.essais[k.ref] > 0
               \/ k.ins \in {"uif", "c4", "compteur", "cle"} /\ carte.v83
               \/ /\ k.ins = "utiliser" /\ carte.cles[k.slot]
                  /\ IF k.slot = "sig" THEN carte.v81 ELSE carte.v82

Commande(ins) == w.pc = "apdu" /\ w.cmd.ins = ins /\ Acceptee(w.cmd)

\* What is left to write before the answer, and what the answer says.
Ensuite(suite, genre) ==
    w' = [w EXCEPT !.pc = IF suite = <<>> THEN "repond" ELSE "ecrit",
                   !.suite = suite, !.genre = genre]

\* Refused, or read only.  An on-device generation may also fail.
Refuser ==
    /\ w.pc = "apdu"
    /\ ~Acceptee(w.cmd) \/ w.cmd.ins = "cle"
    /\ Ensuite(<<>>, "aucun")
    /\ UNCHANGED <<carte, nvs, conf, usb, hote, reste, vu>>

Select ==
    /\ Commande("select")
    /\ carte' = [carte EXCEPT !.sel = TRUE, !.v81 = FALSE, !.v82 = FALSE, !.v83 = FALSE]
    /\ vu' = [vu EXCEPT !.preuve = {}]
    /\ Ensuite(<<>>, "aucun")
    /\ UNCHANGED <<nvs, conf, usb, hote, reste>>

\* The wipe, written in this order: keys, PINs, data objects.
factory_reset(fini) ==
    /\ carte' = [Demarrer(pins_factory, SansCle, ensure_defaults) EXCEPT !.fini = fini]
    /\ vu' = [vu EXCEPT !.preuve = {}, !.faux = [q \in Refs |-> 0]]
    /\ Ensuite(<<"cles", "pins", "dos">>, "aucun")
    /\ UNCHANGED <<nvs, conf, usb, hote, reste>>

Terminate == Commande("terminate") /\ factory_reset(TRUE)

\* ACTIVATE wipes again a terminated card, and does nothing to another.
Activate ==
    /\ Commande("activate")
    /\ IF carte.fini THEN factory_reset(FALSE)
       ELSE Ensuite(<<>>, "aucun") /\ UNCHANGED <<carte, nvs, conf, usb, hote, reste, vu>>

\* A wrong PIN costs a try, written before it is told.  (Mistaken: it is
\* written with the next right one.)
MauvaisSansEcrire(q) ==
    /\ carte' = [carte EXCEPT !.pins.essais[q] = @ - 1]
    /\ Ensuite(<<>>, q)
    /\ UNCHANGED vu
Mauvais(q) ==
    /\ carte' = [carte EXCEPT !.pins.essais[q] = @ - 1]
    /\ Ensuite(<<"pins">>, q)
    /\ UNCHANGED vu

Verify ==
    /\ Commande("verify")
    /\ LET q == RefDe(w.cmd.p2)
       IN  IF w.cmd.pin # carte.pins.pin[q] THEN Mauvais(q)
           ELSE /\ carte' = [carte EXCEPT !.pins.essais[q] = Essais,
                                          !.v81 = @ \/ w.cmd.p2 = 81,
                                          !.v82 = @ \/ w.cmd.p2 = 82,
                                          !.v83 = @ \/ w.cmd.p2 = 83]
                /\ Ensuite(IF carte.pins.essais[q] = Essais THEN <<>> ELSE <<"pins">>, "aucun")
                /\ vu' = [vu EXCEPT !.faux[q] = 0, !.preuve = @ \cup {w.cmd.p2},
                                    !.seules = IF w.cmd.p2 = 81 THEN 0 ELSE @]
    /\ UNCHANGED <<nvs, conf, usb, hote, reste>>

\* The new PIN must be verified again.
Change ==
    /\ Commande("change")
    /\ LET q == w.cmd.ref
       IN  IF w.cmd.ancien # carte.pins.pin[q] THEN Mauvais(q)
           ELSE /\ carte' = [carte EXCEPT
                               !.pins = [essais |-> [@.essais EXCEPT ![q] = Essais],
                                         pin |-> [@.pin EXCEPT ![q] = w.cmd.nouveau]],
                               !.v81 = @ /\ q # "pw1", !.v82 = @ /\ q # "pw1",
                               !.v83 = @ /\ q # "pw3"]
                /\ Ensuite(<<"pins">>, "aucun")
                /\ vu' = [vu EXCEPT !.faux[q] = 0,
                                    !.preuve = @ \ (IF q = "pw1" THEN {81, 82} ELSE {83})]
    /\ UNCHANGED <<nvs, conf, usb, hote, reste>>

\* PUT DATA of D6 to D8 and C4, always accepted by the table.
Mettre ==
    /\ \/ /\ Commande("uif")
          /\ carte' = [carte EXCEPT !.dos.uif[w.cmd.slot] = w.cmd.on]
       \/ /\ Commande("c4")
          /\ carte' = [carte EXCEPT !.dos.multi = w.cmd.multi]
    /\ Ensuite(<<"dos">>, "aucun")
    /\ UNCHANGED <<nvs, conf, usb, hote, reste, vu>>

\* PUT DATA of 93 is a data object like another: it sets the counter.  A value
\* of another length than 3 is read as zero by the next signature.
MettreCompteur ==
    /\ Commande("compteur")
    /\ Ensuite(<<"pose">>, "aucun")
    /\ UNCHANGED <<carte, nvs, conf, usb, hote, reste, vu>>

\* A key imported or generated; that of the signatures restarts their counter,
\* once the key is written.
SuiteDeCle(slot) == IF slot = "sig" THEN <<"cles", "zero">> ELSE <<"cles">>

Cle ==
    /\ Commande("cle")
    /\ carte' = [carte EXCEPT !.cles[w.cmd.slot] = TRUE]
    /\ Ensuite(SuiteDeCle(w.cmd.slot), "aucun")
    /\ UNCHANGED <<nvs, conf, usb, hote, reste, vu>>

\* The counter keeps 3 bytes.
Suivant(n) == IF n + 1 = Tour THEN 0 ELSE n + 1

\* The write of a blob, which a zero, a set and an increment of the counter
\* end with.  Only that of a key is looked at: the slot is
\* emptied when it fails.
Ecrire(ok) ==
    /\ w.pc = "ecrit"
    /\ ok \/ reste.pannes > 0
    /\ reste' = IF ok THEN reste ELSE [reste EXCEPT !.pannes = @ - 1]
    /\ LET e == Head(w.suite)
           suite == Tail(w.suite)
           perdue == ~ok /\ e = "cles" /\ w.cmd.ins = "cle"
           c1 == CASE e = "zero" -> [carte EXCEPT !.dos.ds = 0]
                   [] e = "plus" -> [carte EXCEPT !.dos.ds = Suivant(@)]
                   [] e = "pose" -> [carte EXCEPT !.dos.ds = w.cmd.valeur]
                   [] perdue -> [carte EXCEPT !.cles[w.cmd.slot] = FALSE]
                   [] OTHER -> carte
           neuve == e = "cles" /\ (w.cmd.ins = "cle" => w.cmd.slot = "sig")
       IN  /\ carte' = c1
           /\ nvs' = IF ~ok THEN nvs
                     ELSE CASE e = "cles" -> [nvs EXCEPT !.cles = carte.cles]
                            [] e = "pins" -> [nvs EXCEPT !.pins = carte.pins]
                            [] OTHER -> [nvs EXCEPT !.dos = c1.dos]
           /\ w' = [w EXCEPT !.pc = IF suite = <<>> \/ perdue THEN "repond" ELSE @,
                             !.suite = IF perdue THEN <<>> ELSE suite]
           /\ vu' = [vu EXCEPT !.panne = @ \/ (~ok /\ ~perdue),
                               !.signees = CASE ok /\ neuve -> 0
                                             [] ok /\ e = "pose" -> w.cmd.valeur
                                             [] e = "plus" /\ c1.dos.ds = 0 -> @ - Tour
                                             [] OTHER -> @]
    /\ UNCHANGED <<conf, usb, hote>>

-----------------------------------------------------------------------------
(* PSO and INTERNAL AUTHENTICATE, with the touch (dongle_confirm).         *)

\* An arm discards whatever the last one left.  (Mistaken: it keeps a grant
\* nobody consumed.)
ArmerSurAccord == [conf EXCEPT !.etat = IF @ = "authorized" THEN @ ELSE "pending", !.age = 0]
sec_confirm_arm == [conf EXCEPT !.etat = "pending", !.age = 0]

\* A key press lasts less than the exchange that arms the next operation.
Utiliser ==
    /\ Commande("utiliser")
    /\ IF carte.dos.uif[w.cmd.slot]
       THEN /\ ~conf.lu
            /\ conf' = sec_confirm_arm
            /\ w' = [w EXCEPT !.pc = "touche"]
            /\ vu' = [vu EXCEPT !.touche = FALSE]
       ELSE w' = [w EXCEPT !.pc = "signe"] /\ UNCHANGED <<conf, vu>>
    /\ UNCHANGED <<carte, nvs, usb, hote, reste>>

\* sec_confirm_authorize, by the keyboard task: a read, then a write.
Appuyer ==
    /\ conf.etat = "pending" /\ ~conf.lu
    /\ conf' = [conf EXCEPT !.lu = TRUE]
    /\ vu' = [vu EXCEPT !.touche = TRUE]
    /\ UNCHANGED <<carte, nvs, w, usb, hote, reste>>

Autoriser ==
    /\ conf.lu
    /\ conf' = [conf EXCEPT !.etat = "authorized", !.lu = FALSE]
    /\ UNCHANGED <<carte, nvs, w, usb, hote, reste, vu>>

\* The deadline is looked at first, so that of sec_confirm_poll never fires.
Expirer ==
    /\ w.pc = "touche" /\ conf.age = Attente
    /\ conf' = [conf EXCEPT !.etat = "idle", !.age = 0]
    /\ Ensuite(<<>>, "aucun")
    /\ UNCHANGED <<carte, nvs, usb, hote, reste, vu>>

Consommer ==
    /\ w.pc = "touche" /\ conf.age < Attente /\ conf.etat = "authorized"
    /\ conf' = [conf EXCEPT !.etat = "idle", !.age = 0]
    /\ w' = [w EXCEPT !.pc = "signe"]
    /\ UNCHANGED <<carte, nvs, usb, hote, reste, vu>>

\* A period passes: the deferred calls and a key press take less.
Patienter ==
    /\ w.pc = "touche" /\ conf.age < Attente /\ conf.etat = "pending"
    /\ ~conf.lu /\ usb.file = <<>>
    /\ conf' = [conf EXCEPT !.age = @ + 1]
    /\ usb' = [usb EXCEPT !.file = <<"wtx">>]
    /\ UNCHANGED <<carte, nvs, w, hote, reste, vu>>

\* A PW1 of one signature is spent by the attempt, even failed.
Depense == w.cmd.slot = "sig" /\ ~carte.dos.multi

Signer(reussi) ==
    /\ w.pc = "signe"
    /\ carte' = [carte EXCEPT !.v81 = @ /\ ~Depense]
    /\ IF reussi /\ w.cmd.slot = "sig" THEN Ensuite(<<"plus">>, "signe")
       ELSE Ensuite(<<>>, "aucun")
    /\ vu' = [vu EXCEPT !.seules = IF Depense THEN 1 ELSE @]
    /\ UNCHANGED <<nvs, conf, usb, hote, reste>>

-----------------------------------------------------------------------------
(* ccid.c.                                                                 *)

\* A message arrives: the OUT endpoint is no longer primed.
ccid_dispatch(k) ==
    /\ usb.ouvert /\ usb.amorce /\ hote = "libre"
    /\ reste.commandes > 0 /\ k.ins \in reste.parmi
    /\ usb' = [usb EXCEPT !.amorce = FALSE, !.sem = TRUE, !.seq = reste.commandes,
                          !.tampon = [n |-> reste.commandes, cmd |-> k]]
    /\ hote' = "attend"
    /\ vu' = [vu EXCEPT !.chevauche = @ \/ usb.sem \/ w # Oisif \/ usb.file # <<>>]
    /\ UNCHANGED <<carte, nvs, w, conf, reste>>

\* Power on, off, status: answered at once, through the same buffer.
ccid_inline ==
    /\ usb.ouvert /\ usb.amorce /\ hote = "libre" /\ reste.commandes > 0
    /\ usb' = [usb EXCEPT !.amorce = FALSE, !.finale = TRUE,
                          !.entree = IF @ = "libre" THEN "rep" ELSE @,
                          !.ecrit = [seq |-> reste.commandes, n |-> reste.commandes]]
    /\ hote' = "attend"
    /\ vu' = [vu EXCEPT !.chevauche = @ \/ usb.sem \/ w # Oisif \/ usb.file # <<>>]
    /\ UNCHANGED <<carte, nvs, w, conf, reste>>

ccid_worker ==
    /\ w.pc = "attend" /\ usb.sem
    /\ usb' = [usb EXCEPT !.sem = FALSE]
    /\ w' = [Oisif EXCEPT !.pc = "apdu", !.n = usb.tampon.n, !.cmd = usb.tampon.cmd]
    /\ UNCHANGED <<carte, nvs, conf, hote, reste, vu>>

\* The header echoes the sequence number of the last message received.
ccid_process_xfrblock ==
    /\ w.pc = "repond"
    /\ usb' = [usb EXCEPT !.ecrit = [seq |-> usb.seq, n |-> w.n],
                          !.file = Append(@, "rep"), !.reprises = 0]
    /\ w' = Oisif
    /\ vu' = [vu EXCEPT !.faux = [q \in Refs |-> IF w.genre = q THEN @[q] + 1 ELSE @[q]],
                        !.signees = IF w.genre = "signe" THEN @ + 1 ELSE @]
    /\ UNCHANGED <<carte, nvs, conf, hote, reste>>

\* A time extension is skipped when the endpoint is busy.
ccid_send_wtx_cb ==
    /\ usb.file # <<>> /\ Head(usb.file) = "wtx"
    /\ usb' = [usb EXCEPT !.file = Tail(@),
                          !.entree = IF usb.ouvert /\ @ = "libre" THEN "wtx" ELSE @]
    /\ UNCHANGED <<carte, nvs, w, conf, hote, reste, vu>>

\* The answer waits for the endpoint, a bounded number of times.  (Mistaken:
\* it is skipped like a time extension.)
SansReprise(u) == FALSE
Reprendre(u) == u.reprises < Reprises

ccid_send_final_cb ==
    /\ usb.file # <<>> /\ Head(usb.file) = "rep"
    /\ LET u == [usb EXCEPT !.file = Tail(@)]
       IN  \/ /\ ~usb.ouvert
              /\ usb' = [u EXCEPT !.finale = FALSE]
              /\ UNCHANGED vu
           \/ /\ usb.ouvert /\ usb.entree # "libre"
              /\ usb' = IF Reprendre(usb)
                        THEN [u EXCEPT !.file = Append(@, "rep"), !.reprises = @ + 1]
                        ELSE u
              /\ vu' = [vu EXCEPT !.lache = @ \/ usb.reprises >= Reprises]
           \/ /\ usb.ouvert /\ usb.entree = "libre"
              /\ usb' = [u EXCEPT !.finale = TRUE, !.entree = "rep"]
              /\ UNCHANGED vu
    /\ UNCHANGED <<carte, nvs, w, conf, hote, reste>>

\* The host has read what the IN endpoint holds.  An answer whose length is
\* a multiple of a packet is ended by an empty one; then OUT is primed again.
\* A time extension in flight when an inline answer was queued ends in its
\* place.
ccid_drv_xfer_in(plein) ==
    /\ usb.ouvert /\ usb.entree # "libre" /\ hote = "attend"
    /\ IF usb.entree = "rep" /\ usb.finale /\ plein
       THEN usb' = [usb EXCEPT !.entree = "zlp"] /\ UNCHANGED <<hote, vu, reste>>
       ELSE LET recue == usb.entree # "wtx" /\ usb.ecrit.seq = reste.commandes
            IN  /\ usb' = [usb EXCEPT !.entree = "libre", !.finale = FALSE,
                                      !.amorce = @ \/ usb.finale]
                /\ hote' = IF recue THEN "libre" ELSE hote
                /\ reste' = IF recue THEN [reste EXCEPT !.commandes = @ - 1] ELSE reste
                /\ vu' = [vu EXCEPT !.trompe = @ \/ (recue /\ usb.ecrit.n # usb.ecrit.seq)]
    /\ UNCHANGED <<carte, nvs, w, conf>>

\* The host gives its command up with the bus.
Abandon ==
    /\ hote' = "libre"
    /\ IF hote = "attend" THEN reste' = [reste EXCEPT !.commandes = @ - 1, !.resets = @ - 1]
       ELSE reste' = [reste EXCEPT !.resets = @ - 1]

ccid_drv_reset ==
    /\ usb.ouvert /\ reste.resets > 0
    /\ usb' = [usb EXCEPT !.ouvert = FALSE, !.amorce = FALSE, !.finale = FALSE,
                          !.entree = "libre"]
    /\ Abandon
    /\ UNCHANGED <<carte, nvs, w, conf, vu>>

ccid_drv_open ==
    /\ ~usb.ouvert
    /\ usb' = [usb EXCEPT !.ouvert = TRUE, !.amorce = TRUE]
    /\ UNCHANGED <<carte, nvs, w, conf, hote, reste, vu>>

\* The dongle is unplugged: it starts again from what it had written.
Couper ==
    /\ reste.coupures > 0
    /\ carte' = Demarrer(nvs.pins, nvs.cles, nvs.dos)
    /\ w' = Oisif /\ conf' = Calme /\ usb' = Ferme /\ hote' = "libre"
    /\ reste' = [reste EXCEPT !.coupures = @ - 1,
                              !.commandes = IF hote = "attend" THEN @ - 1 ELSE @]
    /\ vu' = [vu EXCEPT !.preuve = {}, !.touche = FALSE]
    /\ UNCHANGED nvs

-----------------------------------------------------------------------------
Applet ==
    \/ Refuser \/ Select \/ Terminate \/ Activate \/ Verify \/ Change \/ Mettre
    \/ MettreCompteur \/ Cle \/ Utiliser \/ Expirer \/ Consommer \/ Patienter
    \/ \E ok \in BOOLEAN : Signer(ok) \/ Ecrire(ok)
    \/ ccid_worker \/ ccid_process_xfrblock

TudTask == ccid_send_wtx_cb \/ ccid_send_final_cb

Next ==
    \/ Applet \/ TudTask \/ Appuyer \/ Autoriser
    \/ \E k \in Commandes : ccid_dispatch(k)
    \/ ccid_inline
    \/ \E plein \in BOOLEAN : ccid_drv_xfer_in(plein)
    \/ ccid_drv_reset \/ ccid_drv_open \/ Couper

\* The tasks run, a key press ends, and the host reads what it waits for.
\* Nothing is owed by the owner, and no endpoint is opened for sure.
Spec ==
    /\ Init /\ [][Next]_vars
    /\ WF_vars(Applet) /\ WF_vars(TudTask) /\ WF_vars(Autoriser)
    /\ WF_vars(ccid_drv_xfer_in(FALSE))

-----------------------------------------------------------------------------
(* Properties.                                                             *)

TypeOK ==
    /\ carte.pins.essais \in [Refs -> 0 .. Essais] /\ carte.pins.pin \in [Refs -> Pins]
    /\ carte.cles \in [Slots -> BOOLEAN] /\ carte.dos.uif \in [Slots -> BOOLEAN]
    /\ w.pc \in {"attend", "apdu", "touche", "signe", "ecrit", "repond"}
    /\ conf.etat \in {"idle", "pending", "authorized"} /\ conf.age \in 0 .. Attente
    /\ usb.entree \in {"libre", "wtx", "rep", "zlp"} /\ hote \in {"libre", "attend"}

\* What the counters promise survives being unplugged at any moment: no more
\* wrong PINs are ever answered than the tries there are; and the counter kept
\* is never below its base plus the signatures handed out since.  Its base is
\* zero from the write of a key of signatures or of a wipe, or what the
\* administrator last put in 93, which the code allows; the sum is that of a
\* counter of 3 bytes, which starts again after 2^24.  As long as no write
\* fails (openpgp_card.c, pin_persist, ds_counter_reset, PUT DATA, PSO).
CountersSurvive ==
    /\ TypeOK
    /\ ~vu.panne => /\ \A q \in Refs : vu.faux[q] <= Essais
                    /\ vu.signees <= nvs.dos.ds

\* A key is used after its PIN, shown in this session to this card; after a
\* touch given since the operation waits for it, when the slot asks for one;
\* and once per PIN when the signatures ask for it (openpgp_card.c, PSO).
UseIsAuthorised ==
    [][w.pc = "signe" /\ w'.pc \in {"ecrit", "repond"} =>
         /\ (IF w.cmd.slot = "sig" THEN 81 ELSE 82) \in vu.preuve
         /\ carte.dos.uif[w.cmd.slot] => vu.touche
         /\ w.cmd.slot = "sig" /\ ~carte.dos.multi => vu.seules = 0]_vars

\* Every command is answered, by its own answer, even when a touch never
\* comes and time extensions are in flight; a reset under a command, or an
\* endpoint the host leaves full for all the retries, are the exceptions the
\* code makes (ccid.c).
EventuallyAnswered ==
    /\ [](vu.trompe => vu.chevauche)
    /\ (hote = "attend" /\ ~vu.chevauche) ~> (hote = "libre" \/ vu.lache \/ vu.chevauche)
=============================================================================
