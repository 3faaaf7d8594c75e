------------------------------ MODULE KeyEngine ------------------------------
(***************************************************************************)
(* The keymap engine of a keyboard: vTaskKeyboard, which turns the keys    *)
(* held into HID reports through layers, tap-holds (mod-tap, layer-tap,    *)
(* one-shot modifier), one-shot layers, the layer lock, toggles and        *)
(* combos; beside it the scan callback, which changes the keys held while  *)
(* the task is anywhere in its loop.                                       *)
(*                                                                         *)
(* A key is a number, in the order of current_press: the local keys, then  *)
(* those of the other half.  A keycode is an action, a record whose field  *)
(* t is its range; a keycode of a layer that does not exist, which the     *)
(* code takes for nothing, is left out.  The state of the engine is one    *)
(* record e, changed by one operator per function of the code.  A tick is  *)
(* a period longer than a combo (50 ms) and a fraction of a tap-hold       *)
(* (200 ms).                                                               *)
(*                                                                         *)
(* Left out: macros, leader, tap dance, caps word, repeat, overrides, the  *)
(* keys of the chest; the limit of six keys; a build is one step, the      *)
(* callback comes before or after it.                                      *)
(***************************************************************************)
EXTENDS Integers, SequencesExt

CONSTANTS
    NKeys,       \* the keys of the keyboard
    Distantes,   \* those of the other half, heard over the radio
    Layers,      \* the layers, 0 the base
    Codes, Mods, \* the HID keycodes and the modifiers
    Keymaps,     \* the keymaps it may have been given
    Combos,      \* the combos, as a sequence of [k1, k2, c]
    MaxDeferred, \* MAX_DEFERRED
    MaxPending,  \* TAP_HOLD_MAX_PENDING
    Timeout      \* TAP_HOLD_TIMEOUT_MS, in ticks

Keys == 1 .. NKeys

\* The keycodes: the range, then the code, the layer and the modifiers it
\* names, 0 and {} where it names none.
Aucun == 0   \* no keycode in a slot of the report
Gammes == {"code", "mo", "lt", "mt", "osm", "osl", "to", "lock"}
Actions ==
    {a \in [t : Gammes, c : Codes \cup {Aucun}, l : Layers, m : SUBSET Mods] :
        a.t = "code" => a.l = 0 /\ a.m = {}}
KNo == [t |-> "code", c |-> Aucun, l |-> 0, m |-> {}]  \* K_NO

ASSUME KeysAssumption == NKeys \in Nat /\ Distantes \subseteq Keys
ASSUME LayersAssumption == Layers \subseteq Nat /\ 0 \in Layers
ASSUME CodesAssumption == Codes \subseteq Nat \ {Aucun}
ASSUME KeymapsAssumption == Keymaps \subseteq [Layers -> [Keys -> Actions]]
ASSUME CombosAssumption == Combos \in Seq([k1 : Keys, k2 : Keys, c : Codes])
ASSUME MaxDeferredAssumption == MaxDeferred \in Nat \ {0}
ASSUME MaxPendingAssumption == MaxPending \in Nat \ {0}
ASSUME TimeoutAssumption == Timeout \in Nat \ {0}

VARIABLES
    keymaps,  \* the keymap loaded at boot
    tenues,   \* current_press: the keys held, as the scan and the radio say
    change,   \* stat_matrix_changed
    pc,       \* where vTaskKeyboard is in its loop
    e,        \* the state of the engine
    hote      \* the last report given to the HID path

keyVars == <<keymaps, tenues, change, pc, e, hote>>

Libre == [st |-> "idle", k |-> 0, a |-> KNo, age |-> 0]
Neuf ==
    [cur |-> 0, last |-> 0, changer |-> 0, lm |-> {},
     slot |-> [i \in 1 .. MaxPending |-> Libre], ordre |-> <<>>,
     mods |-> {}, lt |-> -1, base |-> -1,
     osm |-> {}, osl |-> -1, lock |-> FALSE, to |-> KNo,
     latch |-> [k \in Keys |-> 0], prev |-> {},
     differe |-> {}, actifs |-> {},
     code |-> [k \in Keys |-> Aucun], extra |-> [k \in Keys |-> KNo],
     tap |-> {}, inj |-> {}, rmods |-> {}, frappe |-> FALSE, echu |-> FALSE]

KeyInit ==
    /\ keymaps \in Keymaps
    /\ tenues = {} /\ change = FALSE
    /\ pc = "attente"
    /\ e = Neuf
    /\ hote = [c |-> {}, m |-> {}]

\* (Mistaken: every key is new at every build.)
ToujoursNeuve(m, k) == TRUE

Neuve(m, k) == k \notin m.prev   \* is_new_press

\* Op for each number of S, a subset of 1 .. n, in their order.
Pour(Op(_, _), m, S, n) ==
    LET p[i \in 0 .. n] == IF i = 0 THEN m
                           ELSE IF i \in S THEN Op(p[i - 1], i) ELSE p[i - 1]
    IN  p[n]

-----------------------------------------------------------------------------
(* tap_hold.c.                                                             *)

find_by_pos(m, k) ==
    {i \in DOMAIN m.slot : m.slot[i].st # "idle" /\ m.slot[i].k = k}

\* The LT activated last among those still held gives the layer; without
\* one, the layer is what it was before the first.
recompute_lt_layer(m) ==
    IF m.ordre # <<>>
    THEN LET l == m.slot[Last(m.ordre)].a.l IN [m EXCEPT !.lt = l, !.cur = l]
    ELSE [m EXCEPT !.lt = -1, !.base = -1,
                   !.cur = IF m.base >= 0 THEN m.base ELSE @]

activate_hold(m, i) ==
    LET a == m.slot[i].a
        h == [m EXCEPT !.slot[i].st = "hold"]
    IN  IF a.t = "lt"
        THEN recompute_lt_layer([h EXCEPT !.ordre = Append(@, i),
                                 !.base = IF m.lt < 0 THEN m.cur ELSE @])
        ELSE [h EXCEPT !.mods = @ \cup a.m]

\* (Mistaken: the modifiers stay.)
LibererLaFente(m, i) ==
    LET h == [m EXCEPT !.slot[i] = Libre]
    IN  IF m.slot[i].a.t = "lt"
        THEN recompute_lt_layer([h EXCEPT !.ordre = RemoveFirst(@, i)])
        ELSE h

deactivate_hold(m, i) ==
    LET a == m.slot[i].a
        h == [m EXCEPT !.slot[i] = Libre]
    IN  IF a.t = "lt"
        THEN recompute_lt_layer([h EXCEPT !.ordre = RemoveFirst(@, i)])
        ELSE [h EXCEPT !.mods = @ \ a.m]

tap_hold_on_press(m, k, a) ==
    LET libres == {i \in DOMAIN m.slot : m.slot[i].st = "idle"}
    IN  IF find_by_pos(m, k) # {} \/ libres = {} THEN m
        ELSE [m EXCEPT !.slot[Min(libres)] =
                           [st |-> "pending", k |-> k, a |-> a, age |-> 0]]

tap_hold_on_release(m, k) ==
    LET i == Min(find_by_pos(m, k))
    IN  IF find_by_pos(m, k) = {} THEN m
        ELSE CASE m.slot[i].st = "pending" -> [m EXCEPT !.slot[i].st = "tap"]
               [] m.slot[i].st = "hold"    -> deactivate_hold(m, i)
               [] m.slot[i].st = "tap"     -> [m EXCEPT !.slot[i] = Libre]

Vieillie(f) == [f EXCEPT !.age = @ + 1]

Enjeu(m) == {i \in DOMAIN m.slot : m.slot[i].st = "pending"}

Activer(m, S) == Pour(activate_hold, m, S, MaxPending)

\* (Mistaken: one tick late.)
EchoirTropTard(m) ==
    LET echus == {i \in Enjeu(m) : m.slot[i].age > Timeout}
    IN  Activer([m EXCEPT !.echu = echus # {}], echus)

tap_hold_tick(m) ==
    LET echus == {i \in Enjeu(m) : m.slot[i].age >= Timeout}
    IN  Activer([m EXCEPT !.echu = echus # {}], echus)

tap_hold_interrupt(m) == Activer(m, Enjeu(m))

\* A released tap-hold types its key; a one-shot modifier is armed instead.
tap_hold_consume_taps(m) ==
    LET finis == {i \in DOMAIN m.slot : m.slot[i].st = "tap"}
        Des(S) == {i \in finis : m.slot[i].a.t \in S}
        tapes == {m.slot[i].a.c : i \in Des({"lt", "mt"})}
    IN  [m EXCEPT !.slot = [i \in DOMAIN @ |-> IF i \in finis THEN Libre ELSE @[i]],
                  !.osm = @ \cup UNION {m.slot[i].a.m : i \in Des({"osm"})},
                  !.tap = tapes, !.frappe = @ \/ tapes # {}]

-----------------------------------------------------------------------------
(* combo.c.                                                                *)

Membres(i) == {Combos[i].k1, Combos[i].k2}
combo_should_defer(k) == \E i \in DOMAIN Combos : k \in Membres(i)
combo_is_suppressed(m, k) ==
    \/ \E d \in m.differe : d.k = k
    \/ \E i \in m.actifs : k \in Membres(i)

\* Without room for it, a key is not kept: it is typed at the next build.
combo_defer_key(m, k, c) ==
    IF Cardinality(m.differe) >= MaxDeferred \/ \E d \in m.differe : d.k = k THEN m
    ELSE [m EXCEPT !.differe = @ \cup {[k |-> k, c |-> c, age |-> 0]}]

\* A deferred key is typed alone once the combo is no longer possible.
Echoir(m, h) ==
    LET expires == {d \in m.differe : d.age > 0 \/ d.k \notin h}
        sortis == m.inj \cup {d.c : d \in expires}
    IN  [m EXCEPT !.inj = sortis, !.frappe = @ \/ sortis # {},
                  !.differe = @ \ expires]

Apparier(m, i, h) ==
    IF ~(Membres(i) \subseteq h) THEN [m EXCEPT !.actifs = @ \ {i}]
    ELSE IF i \in m.actifs \/ ~\E d \in m.differe : d.k \in Membres(i) THEN m
    ELSE [m EXCEPT !.actifs = @ \cup {i}, !.inj = @ \cup {Combos[i].c},
                   !.differe = {d \in @ : d.k \notin Membres(i)}]

combo_process(m, h) ==
    LET Un(n, i) == Apparier(n, i, h)
    IN  Echoir(Pour(Un, [m EXCEPT !.inj = {}], DOMAIN Combos, Len(Combos)), h)

-----------------------------------------------------------------------------
(* key_processor.c.                                                        *)

apply_momentary_layer(m, k, a) ==
    IF a.t # "mo" THEN m
    ELSE [m EXCEPT !.last = m.cur, !.cur = a.l, !.lm = a.m, !.changer = k]

layer_lock_toggle(m) ==
    IF m.lock THEN [m EXCEPT !.lock = FALSE, !.cur = 0, !.last = 0]
    ELSE IF m.cur # 0 THEN [m EXCEPT !.lock = TRUE, !.last = m.cur]
    ELSE m

process_advanced_key(m, k, a) ==
    CASE a.t \in {"lt", "mt", "osm"} -> tap_hold_on_press(m, k, a)
      [] a.t = "osl"  -> [m EXCEPT !.osl = a.l]
      [] a.t = "lock" -> layer_lock_toggle(m)

\* An ordinary keycode a: typed, kept for the combos, or nothing.
Taper(m, k, a) ==
    IF a.t # "code" THEN [m EXCEPT !.extra[k] = a]
    ELSE IF Neuve(m, k) /\ combo_should_defer(k)
    THEN [combo_defer_key(m, k, a.c) EXCEPT !.extra[k] = a]
    ELSE IF combo_is_suppressed(m, k) THEN [m EXCEPT !.extra[k] = a]
    ELSE [m EXCEPT !.code[k] = a.c, !.frappe = TRUE]

\* One key of the report, under its keycode kc.
Decoder(m, k, kc) ==
    IF \E i \in find_by_pos(m, k) : m.slot[i].st = "hold"
    THEN [m EXCEPT !.extra[k] = kc]
    ELSE CASE kc.t \in {"lt", "mt", "osm", "osl", "lock"} ->
             [process_advanced_key(m, k, kc) EXCEPT !.extra[k] = kc]
      [] kc.t = "to" ->
             [m EXCEPT !.to = IF @ = KNo THEN kc ELSE @,
                       !.extra[k] = IF m.changer = k THEN @ ELSE kc]
      [] OTHER ->
             IF m.changer = k THEN m
             ELSE Taper(m, k, IF kc = KNo THEN keymaps[m.last][k] ELSE kc)

Traiter(m, k) == Decoder(m, k, keymaps[m.latch[k]][k])
LireTouches(m, h) == Pour(Traiter, m, h, NKeys)

\* The keys of relus, read again on the layer m.lt.
Relire(m, relus) ==
    LET Lu(k) == IF keymaps[m.lt][k] = KNo THEN keymaps[m.last][k] ELSE keymaps[m.lt][k]
    IN  [m EXCEPT
           !.latch = [k \in Keys |-> IF k \in relus THEN m.lt ELSE @[k]],
           !.code = [k \in Keys |-> IF k \notin relus THEN @[k]
                         ELSE IF Lu(k).t = "code" THEN Lu(k).c ELSE Aucun]]

\* A keystroke decides the pending tap-holds; one that makes an LT a hold is
\* read on the layer of that LT.
Decider(m, lt, h) ==
    IF m.lt < 0 \/ m.lt = lt THEN m
    ELSE Relire(m, {k \in h : Neuve(m, k) /\ m.code[k] # Aucun})

Interrompre(m, h) ==
    IF m.frappe THEN Decider(tap_hold_interrupt(m), m.lt, h) ELSE m

\* The momentary layer ends when the key that changed it is no longer held.
FinMo(m, h) ==
    IF m.cur # m.last /\ m.changer \notin h \cup {0}
    THEN [m EXCEPT !.cur = m.last, !.lm = {}, !.changer = 0]
    ELSE m

Relacher(m, h) == Pour(tap_hold_on_release, m, m.prev \ h, NKeys)

Momentanees(m, h) ==
    LET Mo(n, k) == apply_momentary_layer(n, k, keymaps[m.cur][k])
    IN  Pour(Mo, m, h, NKeys)

CoucheActive(m) ==
    IF m.osl >= 0 THEN m.osl ELSE IF m.lt >= 0 THEN m.lt ELSE m.cur

\* Each key held remembers the layer it was pressed on (press_layer).
Verrouiller(m, h) ==
    [m EXCEPT
       !.latch = [k \in Keys |-> IF k \notin h THEN 0
                      ELSE IF Neuve(m, k) THEN CoucheActive(m) ELSE @[k]],
       !.code = [k \in Keys |-> Aucun], !.extra = [k \in Keys |-> KNo],
       !.frappe = FALSE]

\* The modifiers of the report; a one-shot is spent by a keystroke.
Moduler(m) ==
    [m EXCEPT !.rmods = m.mods \cup m.lm \cup (IF m.frappe THEN m.osm ELSE {}),
              !.osm = IF m.frappe THEN {} ELSE @]

\* So is the one-shot layer, if it was armed before this build.
FinOsl(m, osl) == IF osl >= 0 /\ m.frappe THEN [m EXCEPT !.osl = -1] ELSE m

Rapporter(m, h) ==
    FinOsl(combo_process(tap_hold_consume_taps(Moduler(
        Interrompre(LireTouches(Verrouiller(m, h), h), h))), h), m.osl)

build_keycode_report(m, h) ==
    [FinMo(Rapporter(Momentanees(Relacher(m, h), h), h), h)
        EXCEPT !.prev = h, !.frappe = FALSE]

apply_toggle_layer(m, l) ==
    LET n == IF m.cur = l THEN 0 ELSE l IN [m EXCEPT !.cur = n, !.last = n]

\* A toggle acts when its key is released.
process_matrix_changes(m) ==
    IF m.to = KNo \/ \E k \in Keys : m.extra[k] = m.to THEN m
    ELSE [apply_toggle_layer(m, m.to.l) EXCEPT !.to = KNo]

Rapport(m) ==
    [c |-> ({m.code[k] : k \in Keys} \ {Aucun}) \cup m.tap \cup (m.inj \ {Aucun}),
     m |-> m.rmods]

-----------------------------------------------------------------------------
(* matrix_scan.c and keyboard_task.c.                                      *)

\* The scan callback, of a higher priority than the task.
Scan(h) ==
    /\ h # tenues /\ h \cap Distantes = tenues \cap Distantes
    /\ tenues' = h
    /\ change' = TRUE
    /\ UNCHANGED <<keymaps, pc, e, hote>>

Minuteurs ==
    /\ pc = "attente"
    /\ e' = tap_hold_tick(e)
    /\ pc' = "distant"
    /\ UNCHANGED <<keymaps, tenues, change, hote>>

\* The other half changed: the keys are merged, decoded and sent, without
\* the toggles and the end of the taps of the local path.
Distant(h) ==
    /\ pc = "distant"
    /\ h # tenues /\ h \ Distantes = tenues \ Distantes
    /\ tenues' = h
    /\ e' = build_keycode_report(e, h)
    /\ hote' = Rapport(e')
    /\ pc' = "hold"
    /\ UNCHANGED <<keymaps, change>>

\* A hold just decided by the clock: the report is built again and sent.
HoldActive ==
    /\ pc \in {"distant", "hold"}
    /\ e' = IF e.echu THEN build_keycode_report(e, tenues) ELSE e
    /\ hote' = IF e.echu THEN Rapport(e') ELSE hote
    /\ pc' = "local"
    /\ UNCHANGED <<keymaps, tenues, change>>

matrix_flag_take ==
    /\ pc = "local"
    /\ change' = FALSE
    /\ pc' = IF change THEN "construire" ELSE "attente"
    /\ UNCHANGED <<keymaps, tenues, e, hote>>

ConstruireLocal ==
    /\ pc = "construire"
    /\ e' = process_matrix_changes(build_keycode_report(e, tenues))
    /\ pc' = "envoyer"
    /\ UNCHANGED <<keymaps, tenues, change, hote>>

\* (Mistaken: the flag is cleared after the work.)
EffacerApres ==
    /\ pc = "envoyer"
    /\ hote' = Rapport(e)
    /\ change' = FALSE
    /\ pc' = IF e.tap # {} THEN "taps" ELSE "attente"
    /\ UNCHANGED <<keymaps, tenues, e>>

Envoyer ==
    /\ pc = "envoyer"
    /\ hote' = Rapport(e)
    /\ pc' = IF e.tap # {} THEN "taps" ELSE "attente"
    /\ UNCHANGED <<keymaps, tenues, change, e>>

\* 10 ms later, the taps are released.
key_processor_clear_taps ==
    /\ pc = "taps"
    /\ e' = [e EXCEPT !.tap = {}]
    /\ hote' = Rapport(e')
    /\ pc' = "attente"
    /\ UNCHANGED <<keymaps, tenues, change>>

\* A tick passes while the task waits; it runs every 10 ms while a tap-hold
\* is undecided, so that none waits a tick past its timeout.
Tick ==
    /\ pc = "attente"
    /\ \A i \in Enjeu(e) : e.slot[i].age < Timeout
    /\ e' = [e EXCEPT !.slot = [i \in DOMAIN @ |-> IF i \in Enjeu(e) THEN Vieillie(@[i]) ELSE @[i]],
                      !.differe = {[d EXCEPT !.age = 1] : d \in @}]
    /\ e' # e
    /\ UNCHANGED <<keymaps, tenues, change, pc, hote>>

Tache ==
    \/ Minuteurs \/ HoldActive \/ matrix_flag_take
    \/ ConstruireLocal \/ Envoyer \/ key_processor_clear_taps

KeyNext ==
    \/ \E h \in SUBSET Keys : Scan(h) \/ Distant(h)
    \/ Tache
    \/ Tick

\* The task is never blocked: its loop turns for ever.  Time passes.
KeySpec == KeyInit /\ [][KeyNext]_keyVars /\ []<><<Tache>>_keyVars /\ SF_keyVars(Tick)

-----------------------------------------------------------------------------
(* Properties.                                                             *)

\* Types of the state: every layer number the engine computes names a layer,
\* what remembers a key remembers one of the keyboard, and no tap-hold waits
\* past its timeout (keyboard_cadence.h).
KeyTypeOK ==
    /\ keymaps \in Keymaps
    /\ tenues \subseteq Keys /\ change \in BOOLEAN
    /\ pc \in {"attente", "distant", "hold", "local", "construire", "envoyer", "taps"}
    /\ e.cur \in Layers /\ e.last \in Layers
    /\ e.changer \in Keys \cup {0}
    /\ e.lt \in Layers \cup {-1} /\ e.base \in Layers \cup {-1}
    /\ e.osl \in Layers \cup {-1} /\ e.lock \in BOOLEAN
    /\ e.latch \in [Keys -> Layers]
    /\ \A s \in Range(e.slot) : s.age \in 0 .. Timeout
    /\ e.prev \subseteq Keys

\* No edge is lost between the scan callback and the task: when the task
\* waits and no change is signalled, the engine has decoded exactly the keys
\* held and the host has been given its report (matrix_flag.h, the flag taken
\* before the work).
EdgeNotLost ==
    /\ KeyTypeOK
    /\ pc = "attente" /\ ~change => e.prev = tenues /\ hote = Rapport(e)

\* A key held keeps the keycode of the layer it was pressed on, whatever the
\* layers do meanwhile (press_layer of key_processor.c), unless it is a
\* momentary-layer key of the layer that becomes active: it then changes it.
HeldKeepsCode ==
    [][\A k \in e.prev \cap e'.prev :
         LET a == keymaps[e.latch[k]][k]
         IN  a.t = "code" /\ a # KNo /\ e.code[k] = a.c
             /\ ~(\E i \in e.actifs : k \in Membres(i)) /\ e'.changer # k
                => e'.code[k] = a.c]_keyVars

\* docs/KEYCODE_MAP.md, of a layer-mod: "Release = restore layer and release
\* modifiers".  With no key held and every change seen, no modifier is down at
\* the host.
LayerModReleases == pc = "attente" /\ ~change /\ tenues = {} => hote.m = {}

\* A tap-hold does not outlive its key: a slot in use belongs to a key held at
\* the last build, and a modifier it holds to a slot that is a hold
\* (tap_hold.c, activate_hold and deactivate_hold).
NoHoldOutlivesItsKey ==
    /\ \A s \in Range(e.slot) : s.st # "idle" => s.k \in e.prev
    /\ e.mods \subseteq UNION {s.a.m : s \in {r \in Range(e.slot) :
                                   r.st = "hold" /\ r.a.t # "lt"}}

\* Every tap-hold is decided: the clock, a keystroke or its release makes it
\* a hold or a tap (tap_hold_tick and the short waits of keyboard_task.c).
HoldsResolve ==
    \A i \in 1 .. MaxPending :
        (e.slot[i].st = "pending") ~> (e.slot[i].st # "pending")
=============================================================================
