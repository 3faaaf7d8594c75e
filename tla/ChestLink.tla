------------------------------ MODULE ChestLink ------------------------------
(***************************************************************************)
(* The link with the chest, a co-processor on the radio's SPI bus that     *)
(* holds the owner's keys and TOTP accounts: chest_task and the pure units *)
(* it runs (chest_round, chest_oath, chest_proto), and the gate through    *)
(* which the keyboard task hands it the owner's keys.                      *)
(*                                                                         *)
(* Three actors interleave: the keyboard task, which stamps a key with     *)
(* what the screen showed; the link task, whose round takes the keys,      *)
(* reads the chest's block, sends, confirms or cancels, then reads the     *)
(* segment announced; and the chest, which arms prompts for its host or    *)
(* for a CODE request, serves, expires, reboots.  Any transaction finds    *)
(* the bus busy, and a request may be cut before its doorbell.             *)
(*                                                                         *)
(* The chest is modelled from how the link uses it: alive, it is ready and *)
(* its time is set.  Its boot lasts longer than a poll: before it comes    *)
(* back, a round has read it absent and taken the keys of the old one.     *)
(* The doorbell is written only here, so that a request rings when the     *)
(* register changes; the counters of the chest are modulo Roue.            *)
(***************************************************************************)
EXTENDS Integers, Sequences

CONSTANTS
    Listes,      \* the account indices of the chest, as sequences
    Page,        \* the entries of a LIST page
    Retries,     \* CHEST_LIST_RETRIES
    ReqTimeout,  \* CHEST_REQ_TIMEOUT_MS, in ticks
    Retry,       \* CHEST_CONFIRM_RETRY_MS, in ticks
    Fenetre,     \* the life of a code, in ticks
    Budgets      \* the keys the owner presses, the events of the chest, the
                 \* host and the mode, as records [touches, evenements]

ASSUME ListesAssumption == Listes \subseteq Seq(Nat)
ASSUME PageAssumption == Page \in Nat \ {0}
ASSUME RetriesAssumption == Retries \in Nat \ {0}
ASSUME TicksAssumption == {ReqTimeout, Retry, Fenetre} \subseteq Nat \ {0}
ASSUME BudgetAssumption == Budgets \subseteq [touches : Nat, evenements : Nat]

Roue == 3

VARIABLES
    c,      \* the chest: its registers, its prompt, its DMA channel
    porte,  \* chest_gate: what the engine and the link task hand each other
    pc,     \* where chest_task is in its round
    lien,   \* the statics of chest_link.c, and what the round has taken
    r,      \* chest_round_t
    o,      \* chest_oath_t
    d,      \* chest_confirm_t and chest_cancel_t
    reste,  \* the events left
    vu      \* history, for the properties

vars == <<c, porte, pc, lien, r, o, d, reste, vu>>

Rien == <<"aucune", 0>>                 \* CHEST_TAG(0, 0)
Muet == [kind |-> "aucun"]              \* no segment, no request
SansPage == [first |-> 0, total |-> -1, e |-> <<>>]
Tag == <<c.op, c.inst>>

Coffre(l) ==
    [vivant |-> TRUE, op |-> "aucune", cible |-> 0, sert |-> 0, inst |-> 0,
     count |-> 0, mot |-> Muet, req |-> "usb", mode |-> "usb", ordre |-> l,
     dem |-> Muet, sonne |-> FALSE, seq |-> 0, kind |-> "aucun",
     seg |-> Muet]
PorteVide ==
    [tag |-> Rien, press |-> Rien, cancel |-> Rien, mode |-> FALSE, nav |-> 0,
     code |-> Muet, epoque |-> 0]
chest_round_reset ==
    [seq |-> -1, busy |-> "non", age |-> 0, wait |-> FALSE,
     armed |-> FALSE, inst |-> 0, retry |-> FALSE, oath |-> FALSE,
     tries |-> 0, first |-> -1]
\* The epoch survives: a press made on an old code never matches a new one.
chest_oath_reset(ep) ==
    [page |-> SansPage, cur |-> 0, dem |-> -1, code |-> -1, reste |-> 0, ep |-> ep]
Desarme == [on |-> FALSE, n |-> 0, tag |-> Rien, count |-> 0, age |-> 0]
Pris == [press |-> Rien, cancel |-> Rien, mode |-> FALSE, code |-> FALSE]

LaPage(l, f) ==
    [first |-> f, total |-> Len(l),
     e |-> SubSeq(l, f + 1, IF f + Page < Len(l) THEN f + Page ELSE Len(l))]

\* The owner browses: a host is there, the chest is in OATH mode and its
\* first page read.  A reboot or an unplugged host goes back to the start.
Init ==
    /\ c \in {[Coffre(l) EXCEPT !.req = "oath", !.mode = "oath"] : l \in Listes}
    /\ porte = PorteVide
    /\ pc = "attente"
    /\ lien = [want |-> TRUE, dev |-> TRUE, la |-> TRUE, mode |-> "oath",
               nav |-> FALSE, code |-> FALSE, pris |-> Pris,
               lire |-> -1, genre |-> "aucun"]
    /\ r = [chest_round_reset EXCEPT !.seq = c.seq, !.oath = TRUE, !.first = 0]
    /\ o = [chest_oath_reset(0) EXCEPT !.page = LaPage(c.ordre, 0)]
    /\ d = [cf |-> Desarme, cn |-> Desarme]
    /\ reste \in Budgets
    /\ vu = [presse |-> FALSE, frais |-> FALSE, listes |-> 0]

-----------------------------------------------------------------------------
(* chest_oath.c.                                                           *)

hide_code(m) == [m EXCEPT !.code = -1, !.reste = 0]

\* The account under the cursor, -1 when the page does not hold it.
chest_oath_cursor_entry(m) ==
    LET i == m.cur - m.page.first
    IN  IF m.cur < m.page.total /\ i \in 0 .. Len(m.page.e) - 1
        THEN m.page.e[i + 1] ELSE -1

\* A page may move accounts around: the code shown, and the request, stay
\* only if the cursor is still on their account.
chest_oath_on_list(m, p) ==
    LET n == [m EXCEPT !.page = p,
                       !.cur = IF p.total = 0 THEN 0
                               ELSE IF @ >= p.total THEN p.total - 1 ELSE @]
        e == chest_oath_cursor_entry(n)
        s == IF n.code # e THEN hide_code(n) ELSE n
    IN  [s EXCEPT !.dem = IF @ # e THEN -1 ELSE @]

\* (Mistaken: a navigation key leaves the code on the screen.  Mistaken: it
\* does not retract the request.)
NaviguerSansCacher(m, delta) ==
    [m EXCEPT !.dem = -1,
        !.cur = IF m.page.total <= 0 THEN 0 ELSE (@ + delta) % m.page.total]
NaviguerSansRetirer(m, delta) ==
    [hide_code(m) EXCEPT
        !.cur = IF m.page.total <= 0 THEN 0 ELSE (@ + delta) % m.page.total]

chest_oath_nav(m, delta) ==
    [hide_code(m) EXCEPT !.dem = -1,
        !.cur = IF m.page.total <= 0 THEN 0 ELSE (@ + delta) % m.page.total]

chest_oath_page_needed(m) ==
    /\ m.page.total # 0
    /\ m.cur \notin m.page.first .. m.page.first + Len(m.page.e) - 1

chest_oath_on_code(m, i) ==
    IF m.dem # i \/ chest_oath_cursor_entry(m) # i THEN m
    ELSE [m EXCEPT !.code = i, !.reste = Fenetre, !.ep = @ + 1, !.dem = -1]

chest_oath_code_visible(m) == m.code >= 0 /\ m.reste > 0

\* A press made on a code types that code or nothing; made on none, it asks
\* for one.  Typed, the code is hidden.
chest_oath_code_key(m, k, usb) ==
    LET s == IF chest_oath_code_visible(m) THEN m ELSE hide_code(m)
    IN  IF k.kind = "aucun" \/ k.ep = 0 \/ ~k.local \/ m.ep # k.ep THEN m
        ELSE IF s.code >= 0 /\ usb THEN hide_code(s) ELSE s

-----------------------------------------------------------------------------
(* chest_round.c.  The chest's registers of the round are those of c.      *)

list_decision(m) == [m EXCEPT !.tries = 0, !.first = -1]

Oath == c.mode = "oath"
Appartenir(m) ==
    IF m.oath /\ ~Oath THEN [m EXCEPT !.oath = FALSE, !.busy = "non", !.wait = FALSE]
    ELSE IF ~m.oath /\ Oath THEN [list_decision(m) EXCEPT !.oath = TRUE]
    ELSE m

\* A segment is read when its number changed; the first contact only takes
\* the reference.
Nouveau(m) == m.seq \notin {-1, c.seq}
Annoncer(m) ==
    IF m.seq = -1 THEN [m EXCEPT !.seq = c.seq]
    ELSE IF ~Nouveau(m) THEN m
    ELSE [m EXCEPT !.busy = IF @ = "list" THEN "non" ELSE @, !.tries = 0]

\* The watch on the arming of a CODE request: armed, replaced, or over.
Arme(m) == m.wait /\ ~m.armed /\ c.op # "aucune" /\ c.inst # m.inst
Remplace(m) == m.wait /\ m.armed /\ c.inst # m.inst
Fini(m) == m.wait /\ m.armed /\ c.inst = m.inst /\ c.op = "aucune"
Surveiller(m) ==
    IF Arme(m) THEN [m EXCEPT !.armed = TRUE, !.inst = c.inst,
                              !.busy = IF @ = "code" THEN "non" ELSE @]
    ELSE IF Remplace(m) \/ Fini(m) THEN [m EXCEPT !.wait = FALSE]
    ELSE m

Expire(m) == m.busy # "non" /\ m.age >= ReqTimeout
\* (Mistaken: only a LIST expires.)
EchoirListe(m) ==
    IF ~Expire(m) \/ m.busy = "code" THEN m
    ELSE IF m.tries < Retries
    THEN [m EXCEPT !.busy = "non", !.tries = @ + 1, !.first = -1]
    ELSE [m EXCEPT !.busy = "non"]

Echoir(m) ==
    IF ~Expire(m) THEN m
    ELSE IF m.busy = "code" THEN [m EXCEPT !.busy = "non", !.wait = FALSE]
    ELSE IF m.tries < Retries
    THEN [m EXCEPT !.busy = "non", !.tries = @ + 1, !.first = -1]
    ELSE [m EXCEPT !.busy = "non"]

\* Fields without a meaning are cleared.
Propre(m) ==
    [m EXCEPT !.age = IF m.busy = "non" THEN 0 ELSE @,
              !.armed = @ /\ m.wait, !.inst = IF m.wait THEN @ ELSE 0]

\* The plan of a round: the new chest_round_t, and what to do.
chest_round_plan(nav, code_key) ==
    LET key == code_key \/ (r.retry /\ ~nav)
        r1  == Appartenir([r EXCEPT !.retry = FALSE])
        r2  == Annoncer(r1)
        r3  == Surveiller(r2)
        r4  == Echoir(r3)
        r5  == IF nav THEN list_decision(r4) ELSE r4
        i   == chest_oath_cursor_entry(o)
        list == Oath /\ r5.busy = "non" /\ chest_oath_page_needed(o) /\ r5.first # o.cur
        code == Oath /\ key /\ ~list /\ r5.busy = "non" /\ ~r5.wait
                /\ c.op = "aucune" /\ i >= 0
    IN  [r |-> Propre(r5),
         quitter |-> r.oath /\ ~Oath,
         annuler |-> \/ Remplace(r2)
                     \/ Fini(r2) /\ ~(Nouveau(r1) /\ c.kind = "code")
                     \/ Expire(r3) /\ r3.busy = "code",
         lire |-> Nouveau(r1),
         dem |-> IF list THEN [kind |-> "list", arg |-> o.cur]
                 ELSE IF code THEN [kind |-> "code", arg |-> i] ELSE Muet]

chest_round_sent(m, ok, dem) ==
    IF dem = Muet THEN m
    ELSE IF ~ok THEN [m EXCEPT !.retry = dem.kind = "code"]
    ELSE LET n == [m EXCEPT !.busy = dem.kind, !.age = 0]
         IN  IF dem.kind = "code"
             THEN [n EXCEPT !.wait = TRUE, !.armed = FALSE, !.inst = c.inst]
             ELSE [n EXCEPT !.first = dem.arg]

-----------------------------------------------------------------------------
(* chest_proto.c: who writes the confirm word.                             *)

Armer(tag) == [on |-> TRUE, n |-> 0, tag |-> tag, count |-> c.count, age |-> 0]

\* One write, one retry, never a third; nothing once the prompt has moved.
Du(x) == x.on /\ (x.n = 0 \/ (x.n = 1 /\ x.age >= Retry))
Suite(x, fini) ==
    IF ~x.on \/ fini \/ (x.n = 2 /\ x.age >= Retry) THEN Desarme
    ELSE IF Du(x) THEN [x EXCEPT !.n = @ + 1, !.age = 0] ELSE x

\* (Mistaken: any prompt takes the press.)
ConfirmerLaSuite(tag) == tag # Rien /\ c.op # "aucune"

chest_press_matches(tag) == tag = Tag /\ c.op # "aucune"

\* A cancel of this prompt wins over a press of the same round; a later
\* press drops the cancel.
chest_arbitrate(press, cancel) ==
    LET refus == chest_press_matches(cancel)
        oui   == ~refus /\ chest_press_matches(press)
        cn    == IF refus THEN Armer(cancel) ELSE IF oui THEN Desarme ELSE d.cn
        cf    == IF refus THEN Desarme ELSE IF oui THEN Armer(Tag) ELSE d.cf
        finn  == cn.tag # Tag
        finf  == cf.tag # Tag \/ cf.count # c.count
        non   == Du(cn) /\ ~finn
    IN  [cn |-> Suite(cn, finn),
         cf |-> IF non THEN cf ELSE Suite(cf, finf),
         mot |-> IF non THEN [kind |-> "non", inst |-> cn.tag[2]]
                 ELSE IF Du(cf) /\ ~finf THEN [kind |-> "oui", inst |-> cf.tag[2]]
                 ELSE Muet]

-----------------------------------------------------------------------------
(* chest_gate.c: the keys of the owner, from the keyboard task, stamped    *)
(* with what the screen shows.  The engine acts while the link task waits, *)
(* or between its taking of the keys and its block: at the other steps of  *)
(* a round it only touches the keys of the next one.                       *)

UnEvenement == reste.evenements > 0 /\ reste' = [reste EXCEPT !.evenements = @ - 1]

Touche(p) ==
    /\ pc \in {"attente", "bloc"}
    /\ reste.touches > 0 /\ reste' = [reste EXCEPT !.touches = @ - 1]
    /\ porte' = p
    /\ UNCHANGED <<c, pc, lien, r, o, d>>

chest_gate_press ==
    /\ Touche([porte EXCEPT !.press = porte.tag])
    /\ vu' = [vu EXCEPT !.presse = @ \/ (porte.tag # Rien /\ porte.tag = Tag)]

\* A navigation key refuses the prompt shown, or moves the cursor.
chest_gate_oath_key(delta) ==
    /\ Touche(IF porte.tag # Rien THEN [porte EXCEPT !.cancel = porte.tag]
                                  ELSE [porte EXCEPT !.nav = @ + delta])
    /\ UNCHANGED vu

chest_gate_oath_code(local) ==
    /\ porte.epoque = 0 => local
    /\ Touche([porte EXCEPT !.code = [kind |-> "code", ep |-> porte.epoque,
                                      local |-> local]])
    /\ UNCHANGED vu

chest_gate_mode_next ==
    /\ pc \in {"attente", "bloc"} /\ UnEvenement
    /\ porte' = [porte EXCEPT !.mode = TRUE]
    /\ UNCHANGED <<c, pc, lien, r, o, d, vu>>

-----------------------------------------------------------------------------
(* chest_link.c.                                                           *)

chest_vanished ==
    /\ r' = chest_round_reset
    /\ o' = chest_oath_reset(o.ep)
    /\ d' = [cf |-> Desarme, cn |-> Desarme]

\* The round takes every key, whatever it finds after.
PortePrise ==
    [porte EXCEPT !.press = Rien, !.cancel = Rien, !.mode = FALSE, !.nav = 0,
                  !.code = Muet]
Prise(code) ==
    [press |-> porte.press, cancel |-> porte.cancel, mode |-> porte.mode, code |-> code]
\* The navigation keys of a round are taken as their sum, and a sum of zero is
\* not told to chest_oath_nav: the history is that of the moves, not the keys.
Geste == [vu EXCEPT !.frais = @ /\ porte.nav = 0]

go_absent ==
    /\ pc = "attente" /\ lien.dev /\ ~lien.want
    /\ porte' = [PortePrise EXCEPT !.tag = Rien, !.epoque = 0]
    /\ chest_vanished
    /\ lien' = [lien EXCEPT !.dev = FALSE, !.mode = "usb", !.la = FALSE,
                            !.nav = FALSE, !.code = FALSE]
    /\ vu' = Geste
    /\ UNCHANGED <<c, pc, reste>>

\* Without a device the keys are taken and lost.
SansCoffre ==
    /\ pc = "attente" /\ ~lien.dev
    /\ porte' = PortePrise /\ porte' # porte
    /\ lien' = [lien EXCEPT !.code = FALSE]
    /\ vu' = Geste
    /\ UNCHANGED <<c, pc, r, o, d, reste>>

\* The start of a round, the device just added or already there: a navigation
\* moves the cursor whatever the bus does, a K_OATH_CODE types or asks.
Prendre(usb) ==
    /\ pc = "attente" /\ lien.want
    /\ LET o1 == IF lien.dev THEN o ELSE chest_oath_reset(o.ep)
           o2 == IF porte.nav = 0 THEN o1 ELSE chest_oath_nav(o1, porte.nav)
           demande == porte.code.kind = "code" /\ porte.code.ep = 0
       IN  /\ r' = IF lien.dev THEN r ELSE chest_round_reset
           /\ o' = chest_oath_code_key(o2, porte.code, usb)
           /\ lien' = [lien EXCEPT !.dev = TRUE, !.code = FALSE,
                          !.nav = @ \/ porte.nav # 0,
                          !.pris = Prise(lien.code \/ demande)]
    /\ porte' = PortePrise
    /\ vu' = Geste
    /\ pc' = "bloc"
    /\ UNCHANGED <<c, d, reste>>

\* The bus is busy: a code request gets the next round, the rest is lost.
Occupe ==
    /\ pc = "bloc"
    /\ lien' = [lien EXCEPT !.code = lien.pris.code, !.pris = Pris]
    /\ pc' = "vue"
    /\ UNCHANGED <<c, porte, r, o, d, reste, vu>>

\* The block is refused: absent, or corrupt or of another version.
Refuse ==
    /\ pc = "bloc"
    /\ porte' = [porte EXCEPT !.tag = Rien]
    /\ lien' = [lien EXCEPT !.la = c.vivant, !.pris = Pris]
    /\ IF ~c.vivant /\ lien.la THEN chest_vanished
       ELSE UNCHANGED <<r, o, d>>
    /\ pc' = "vue"
    /\ UNCHANGED <<c, reste, vu>>

\* A block read: the prompt is published, the mode wanted is written again if
\* it is not read back, the plan is carried out, the confirm word written.
\* The request goes whole, is cut before its doorbell, or finds the bus busy;
\* the writes of the two words, retried by their rules, share one draw.
round_ok(spi, libre) ==
    /\ pc = "bloc" /\ c.vivant
    /\ LET p == chest_round_plan(lien.nav, lien.pris.code)
           a == chest_arbitrate(lien.pris.press, lien.pris.cancel)
           w == IF ~lien.pris.mode THEN lien.mode
                ELSE IF lien.mode = "oath" THEN "usb" ELSE "oath"
           tout == p.dem # Muet /\ spi = "tout"
           o1 == IF p.quitter THEN chest_oath_reset(o.ep)
                 ELSE IF p.annuler THEN [o EXCEPT !.dem = -1] ELSE o
           remise == lien.nav \/ p.lire \/ (Oath /\ ~r.oath)
       IN  /\ porte' = [porte EXCEPT !.tag = IF c.op = "aucune" THEN Rien ELSE Tag]
           /\ r' = chest_round_sent(p.r, spi = "tout", p.dem)
           /\ o' = IF tout /\ p.dem.kind = "code" THEN [o1 EXCEPT !.dem = p.dem.arg] ELSE o1
           /\ d' = [cf |-> a.cf, cn |-> a.cn]
           /\ c' = [c EXCEPT
                      !.req = IF libre THEN w ELSE @,
                      !.dem = IF p.dem # Muet /\ spi # "rien" /\ @ = Muet THEN p.dem ELSE @,
                      !.sonne = @ \/ tout,
                      !.mot = IF a.mot # Muet /\ libre THEN a.mot ELSE @]
           /\ lien' = [lien EXCEPT !.la = TRUE, !.mode = w, !.nav = FALSE, !.pris = Pris,
                          !.lire = IF p.lire THEN c.seq ELSE -1, !.genre = c.kind]
           /\ vu' = [vu EXCEPT
                       !.frais = @ \/ (tout /\ p.dem.kind = "code"),
                       !.listes = (IF remise THEN 0 ELSE @)
                                  + (IF tout /\ p.dem.kind = "list" THEN 1 ELSE 0)]
           /\ pc' = IF p.lire THEN "segment" ELSE "vue"
    /\ UNCHANGED reste

\* The segment announced is read, and consumed: another in its place fails
\* its decoding.  On a busy bus it stays for the next round.
consume_segment(ok) ==
    /\ pc = "segment"
    /\ LET bon == r.oath /\ c.seg.kind = lien.genre
       IN  IF ~ok THEN UNCHANGED <<c, r, o>>
           ELSE /\ r' = [r EXCEPT !.seq = lien.lire]
                /\ c' = [c EXCEPT !.seg = Muet]
                /\ o' = CASE bon /\ c.seg.kind = "list" -> chest_oath_on_list(o, c.seg.page)
                          [] bon /\ c.seg.kind = "code" -> chest_oath_on_code(o, c.seg.i)
                          [] OTHER -> o
    /\ lien' = [lien EXCEPT !.lire = -1, !.genre = "aucun"]
    /\ pc' = "vue"
    /\ UNCHANGED <<porte, d, reste, vu>>

\* The screen: a code whose time is over is hidden, the one shown is given to
\* the gate (and forbids sleep).
chest_view_build ==
    /\ pc = "vue"
    /\ LET v == chest_oath_code_visible(o)
       IN  /\ o' = IF v THEN o ELSE hide_code(o)
           /\ porte' = [porte EXCEPT !.epoque = IF v THEN o.ep ELSE 0]
    /\ pc' = "attente"
    /\ UNCHANGED <<c, lien, r, d, reste, vu>>

chest_link_presence ==
    /\ pc = "attente"
    /\ UnEvenement
    /\ lien' = [lien EXCEPT !.want = ~@]
    /\ UNCHANGED <<c, porte, pc, r, o, d, vu>>

Vieillir(x) == [x EXCEPT !.age = IF x.on /\ @ < Retry THEN @ + 1 ELSE @]
Tick ==
    /\ pc = "attente"
    /\ r' = [r EXCEPT !.age = IF r.busy # "non" /\ @ < ReqTimeout THEN @ + 1 ELSE @]
    /\ o' = [o EXCEPT !.reste = IF @ > 0 THEN @ - 1 ELSE 0]
    /\ d' = [cf |-> Vieillir(d.cf), cn |-> Vieillir(d.cn)]
    /\ <<r', o', d'>> # <<r, o, d>>
    /\ UNCHANGED <<c, porte, pc, lien, reste, vu>>

-----------------------------------------------------------------------------
(* The chest, as the link knows it.  It acts while the link task waits, or *)
(* between the block read and the segment: what it does elsewhere in a     *)
(* round is seen by the next block.                                        *)

Oubli == [vu EXCEPT !.presse = FALSE]
Coffret(n) == pc \in {"attente", "segment"} /\ c' = n /\ UNCHANGED <<porte, pc, lien, r, o, d>>
Evenement(n) == UnEvenement /\ Coffret(n)

\* Its host asks for a signature.
Signer ==
    /\ c.vivant /\ c.op = "aucune"
    /\ Evenement([c EXCEPT !.op = "sign", !.inst = @ + 1])
    /\ UNCHANGED vu

ChangerComptes(l) ==
    /\ c.vivant /\ l # c.ordre
    /\ Evenement([c EXCEPT !.ordre = l])
    /\ UNCHANGED vu

Mourir ==
    /\ c.vivant
    /\ Evenement([Coffre(c.ordre) EXCEPT !.vivant = FALSE])
    /\ vu' = Oubli

Naitre ==
    /\ ~c.vivant /\ ~lien.la /\ pc = "attente"
    /\ porte.press = Rien /\ porte.cancel = Rien
    /\ Coffret([c EXCEPT !.vivant = TRUE])
    /\ UNCHANGED <<reste, vu>>

\* The doorbell moved: the request received is served.  A CODE only arms a
\* prompt, and only when there is none.
Servir ==
    /\ c.vivant /\ c.dem # Muet /\ c.sonne
    /\ LET n == [c EXCEPT !.dem = Muet, !.sonne = FALSE]
       IN  Coffret(IF c.dem.kind = "list"
                   THEN [n EXCEPT !.seq = (@ + 1) % Roue, !.kind = "list",
                           !.seg = [kind |-> "list", page |-> LaPage(c.ordre, c.dem.arg)]]
                   ELSE IF c.op # "aucune" THEN n
                   ELSE [n EXCEPT !.op = "code", !.cible = c.dem.arg, !.inst = @ + 1])
    /\ UNCHANGED <<reste, vu>>

\* The confirm word is read and reclaimed; the reclaim may undo a mode just
\* written.  Only the instance armed counts.
LireMot(perdu) ==
    /\ c.vivant /\ c.mot # Muet
    /\ LET n == [c EXCEPT !.mot = Muet, !.req = IF perdu THEN c.mode ELSE @]
           bon == c.op # "aucune" /\ c.sert = 0 /\ c.mot.inst = c.inst
           refuse == bon /\ c.mot.kind = "non"
       IN  /\ Coffret(IF refuse THEN [n EXCEPT !.op = "aucune", !.cible = 0]
                      ELSE IF bon THEN [n EXCEPT !.sert = 1, !.count = (@ + 1) % Roue]
                      ELSE n)
           /\ vu' = IF refuse THEN Oubli ELSE vu
    /\ UNCHANGED reste

\* Authorised, the operation is served or fails; the number of its segment
\* moves before the operation clears.
Executer(reussi) ==
    /\ c.vivant /\ c.sert = 1
    /\ Coffret(IF reussi /\ c.op = "code"
               THEN [c EXCEPT !.sert = 2, !.seq = (@ + 1) % Roue, !.kind = "code",
                              !.seg = [kind |-> "code", i |-> c.cible]]
               ELSE [c EXCEPT !.sert = 2])
    /\ UNCHANGED <<reste, vu>>

\* The prompt ends: served, or nobody confirmed it.
Effacer ==
    /\ c.vivant /\ c.op # "aucune" /\ c.sert # 1
    /\ Coffret([c EXCEPT !.op = "aucune", !.cible = 0, !.sert = 0])
    /\ vu' = Oubli /\ UNCHANGED reste

Basculer ==
    /\ c.vivant /\ c.req # c.mode /\ c.op = "aucune"
    /\ Coffret([c EXCEPT !.mode = c.req])
    /\ UNCHANGED <<reste, vu>>

-----------------------------------------------------------------------------
Proprietaire ==
    \/ chest_gate_press
    \/ \E delta \in {-1, 1} : chest_gate_oath_key(delta)
    \/ \E local \in BOOLEAN : chest_gate_oath_code(local)
    \/ chest_gate_mode_next
    \/ chest_link_presence

Bloc ==
    \/ Occupe
    \/ Refuse
    \/ \E spi \in {"tout", "coupe", "rien"}, libre \in BOOLEAN : round_ok(spi, libre)

Lien ==
    \/ go_absent \/ SansCoffre
    \/ \E usb \in BOOLEAN : Prendre(usb)
    \/ Bloc
    \/ \E ok \in BOOLEAN : consume_segment(ok)
    \/ chest_view_build

LeCoffre ==
    \/ Signer \/ Mourir \/ Naitre \/ Servir \/ Effacer \/ Basculer
    \/ \E l \in Listes : ChangerComptes(l)
    \/ \E b \in BOOLEAN : LireMot(b) \/ Executer(b)

Next == Proprietaire \/ Lien \/ LeCoffre \/ Tick

\* Fairness, with the guards written out: WF and SF, for TLC, would compute
\* ENABLED of a whole round at every state.
LienPret == pc # "attente" \/ lien.want \/ lien.dev \/ porte # PortePrise
TickPret ==
    /\ pc = "attente"
    /\ \/ r.busy # "non" /\ r.age < ReqTimeout
       \/ o.reste > 0
       \/ \E x \in {d.cf, d.cn} : x.on /\ x.age < Retry

\* The task polls for ever and the bus is not always busy, whether the chest
\* answers or is gone; a prompt the chest shows ends; time passes.
Spec ==
    /\ Init /\ [][Next]_vars
    /\ []<>~LienPret \/ []<><<Lien>>_vars
    /\ []<>(pc = "bloc" /\ c.vivant) => []<><<round_ok("tout", TRUE)>>_vars
    /\ []<>(pc = "bloc" /\ ~c.vivant) => []<><<Refuse /\ ~c.vivant>>_vars
    /\ []<>TickPret => []<><<Tick>>_vars
    /\ []<>(pc = "attente" /\ c.op # "aucune") => []<><<Executer(FALSE) \/ Effacer>>_vars

-----------------------------------------------------------------------------
(* Properties.                                                             *)

\* The code on the screen is that of the account under the cursor, whatever
\* keys and pages come between the press and the answer (chest_oath_on_list,
\* chest_oath_nav).
CodeIsForCursor == o.code >= 0 => o.code = chest_oath_cursor_entry(o)

\* A code never appears once a round moved the cursor after its request, even
\* when a later round moved it back to the same account (chest_oath_nav).  The
\* property is about moves: the keys of one round add up (chest_gate.c), so a
\* PREV and a NEXT taken together are no navigation for the link, and the code
\* does appear after them, where chest_oath.h speaks of any navigation key.
LateCodeRefused == [][o.code = -1 /\ o'.code >= 0 => vu.frais]_vars

\* The chest authorises nothing but a prompt the owner confirmed while it was
\* on the screen: operation and instance (chest_gate_press, contract).
ConfirmWasPressed ==
    [][c'.count # c.count /\ c'.vivant /\ c.vivant => vu.presse]_vars

\* A channel that does not answer costs one LIST and its retries, then silence
\* until a key, a segment or a new entry in OATH (chest_round.h).
ListsBounded == vu.listes <= 1 + Retries

\* The lists are bounded, and no request is waited for without end
\* (chest_round_plan, whose deadline ends them).
RequestEnds ==
    /\ []ListsBounded
    /\ (r.busy # "non" \/ r.wait) ~> (r.busy = "non" /\ ~r.wait)
=============================================================================
