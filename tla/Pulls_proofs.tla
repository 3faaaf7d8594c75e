----------------------------- MODULE Pulls_proofs -----------------------------
(***************************************************************************)
(* What is pulled piece by piece.  From the chest, for every list of       *)
(* accounts, page, delay, number of retries and of events: the code on the *)
(* screen is that of the account under the cursor, a code requested before *)
(* a move of the cursor never appears, the chest authorises nothing that   *)
(* the owner did not confirm, and a silent channel is asked a bounded      *)
(* number of lists.  From the dongle, for every number of chunks, queue    *)
(* and keymap: what the left half gathers is the keymap that was           *)
(* announced.                                                              *)
(***************************************************************************)
EXTENDS ChestLink, KeymapSync, SequenceTheorems, TLAPS

\* The fields of each record, which no step changes.
FormeCoffre ==
    DOMAIN c = {"vivant", "op", "cible", "sert", "inst", "count", "mot", "req", "mode",
                "ordre", "dem", "sonne", "seq", "kind", "seg"}
FormePorte ==
    DOMAIN porte = {"tag", "press", "cancel", "mode", "nav", "code", "epoque"}
FormeLien ==
    DOMAIN lien = {"want", "dev", "la", "mode", "nav", "code", "pris", "lire", "genre"}
Ecran(m) == DOMAIN m = {"page", "cur", "dem", "code", "reste", "ep"}
Mot(x) == DOMAIN x = {"on", "n", "tag", "count", "age"}

Formes ==
    /\ FormeCoffre /\ FormePorte /\ FormeLien /\ Ecran(o)
    /\ DOMAIN d = {"cf", "cn"} /\ Mot(d.cf) /\ Mot(d.cn)
    /\ DOMAIN vu = {"presse", "frais", "listes"}

-----------------------------------------------------------------------------
(***************************************************************************)
(* The operations of the screen.                                           *)
(***************************************************************************)
Montre(m) == m.code >= 0 => m.code = chest_oath_cursor_entry(m)

LEMMA EcranReset ==
    ASSUME NEW ep
    PROVE  LET m == chest_oath_reset(ep) IN Ecran(m) /\ Montre(m) /\ m.dem = -1
BY DEF chest_oath_reset, Ecran, Montre

LEMMA EcranHide ==
    ASSUME NEW m, Ecran(m)
    PROVE  Ecran(hide_code(m)) /\ Montre(hide_code(m)) /\ hide_code(m).dem = m.dem
BY DEF hide_code, Ecran, Montre

LEMMA EcranNav ==
    ASSUME NEW m, NEW delta, Ecran(m)
    PROVE  LET n == chest_oath_nav(m, delta) IN Ecran(n) /\ Montre(n) /\ n.dem = -1
BY DEF chest_oath_nav, hide_code, Ecran, Montre

LEMMA EcranList ==
    ASSUME NEW m, NEW p, Ecran(m)
    PROVE  LET n == chest_oath_on_list(m, p)
           IN  Ecran(n) /\ Montre(n) /\ n.dem \in {m.dem, -1} /\ n.code \in {m.code, -1}
BY DEF chest_oath_on_list, chest_oath_cursor_entry, hide_code, Ecran, Montre

LEMMA EcranCode ==
    ASSUME NEW m, NEW i, Ecran(m), Montre(m)
    PROVE  LET n == chest_oath_on_code(m, i)
           IN  /\ Ecran(n) /\ Montre(n) /\ n.dem \in {m.dem, -1}
               /\ n.code # m.code => m.dem = n.code
BY DEF chest_oath_on_code, chest_oath_cursor_entry, Ecran, Montre

LEMMA EcranKey ==
    ASSUME NEW m, NEW k, NEW usb, Ecran(m), Montre(m)
    PROVE  LET n == chest_oath_code_key(m, k, usb)
           IN  Ecran(n) /\ Montre(n) /\ n.dem = m.dem /\ n.code \in {m.code, -1}
BY DEF chest_oath_code_key, hide_code, Ecran, Montre

-----------------------------------------------------------------------------
(***************************************************************************)
(* The screen over a step: what each action does to it.                    *)
(***************************************************************************)
\* A step either leaves the screen alone or is one of those of the round.
LEMMA Pas ==
    ASSUME [Next]_vars
    PROVE  \/ o' = o
           \/ go_absent
           \/ \E usb \in BOOLEAN : Prendre(usb)
           \/ Refuse
           \/ \E spi \in {"tout", "coupe", "rien"}, libre \in BOOLEAN : round_ok(spi, libre)
           \/ \E ok \in BOOLEAN : consume_segment(ok)
           \/ chest_view_build
           \/ Tick
BY DEF Next, Proprietaire, Lien, Bloc, LeCoffre, chest_gate_press, chest_gate_oath_key,
       chest_gate_oath_code, chest_gate_mode_next, Touche, chest_link_presence,
       SansCoffre, Occupe, Signer, Mourir, Naitre, Servir, Effacer, Basculer,
       ChangerComptes, LireMot, Executer, Evenement, Coffret, vars

LEMMA PasDesMots ==
    ASSUME [Next]_vars
    PROVE  \/ d' = d
           \/ chest_vanished
           \/ \E spi \in {"tout", "coupe", "rien"}, libre \in BOOLEAN : round_ok(spi, libre)
           \/ Tick
BY DEF Next, Proprietaire, Lien, Bloc, LeCoffre, chest_gate_press, chest_gate_oath_key,
       chest_gate_oath_code, chest_gate_mode_next, Touche, chest_link_presence,
       go_absent, SansCoffre, Prendre, Occupe, Refuse, consume_segment,
       chest_view_build, Signer, Mourir, Naitre, Servir, Effacer, Basculer,
       ChangerComptes, LireMot, Executer, Evenement, Coffret, vars

EcranJuste == Ecran(o) /\ Montre(o)

LEMMA EcranNext ==
    ASSUME EcranJuste, [Next]_vars
    PROVE  EcranJuste'
<1>. USE DEF EcranJuste
<1>1. CASE o' = o
  BY <1>1 DEF Ecran, Montre, chest_oath_cursor_entry
<1>2. CASE go_absent
  BY <1>2, EcranReset DEF go_absent, chest_vanished
<1>3. ASSUME NEW usb \in BOOLEAN, Prendre(usb) PROVE EcranJuste'
  <2>. DEFINE o1 == IF lien.dev THEN o ELSE chest_oath_reset(o.ep)
              o2 == IF porte.nav = 0 THEN o1 ELSE chest_oath_nav(o1, porte.nav)
  <2>1. Ecran(o1) /\ Montre(o1)
    BY EcranReset
  <2>2. Ecran(o2) /\ Montre(o2)
    BY <2>1, EcranNav
  <2>3. o' = chest_oath_code_key(o2, porte.code, usb)
    BY <1>3 DEF Prendre
  <2>. HIDE DEF o1, o2
  <2>. QED  BY <2>2, <2>3, EcranKey
<1>4. CASE Refuse
  BY <1>4, EcranReset DEF Refuse, chest_vanished, Montre, chest_oath_cursor_entry, Ecran
<1>5. ASSUME NEW spi \in {"tout", "coupe", "rien"}, NEW libre \in BOOLEAN,
             round_ok(spi, libre)
      PROVE  EcranJuste'
  <2>. DEFINE p == chest_round_plan(lien.nav, lien.pris.code)
              o1 == IF p.quitter THEN chest_oath_reset(o.ep)
                    ELSE IF p.annuler THEN [o EXCEPT !.dem = -1] ELSE o
  <2>1. o' \in {o1, [o1 EXCEPT !.dem = p.dem.arg]}
    BY <1>5 DEF round_ok
  <2>2. Ecran(o1) /\ Montre(o1)
    BY EcranReset DEF Ecran, Montre, chest_oath_cursor_entry
  <2>. HIDE DEF p, o1
  <2>. QED  BY <2>1, <2>2 DEF Ecran, Montre, chest_oath_cursor_entry
<1>6. ASSUME NEW ok \in BOOLEAN, consume_segment(ok) PROVE EcranJuste'
  <2>1. CASE o' = o
    BY <2>1 DEF Ecran, Montre, chest_oath_cursor_entry
  <2>2. CASE o' = chest_oath_on_list(o, c.seg.page)
    BY <2>2, EcranList
  <2>3. CASE o' = chest_oath_on_code(o, c.seg.i)
    BY <2>3, EcranCode
  <2>. QED  BY <1>6, <2>1, <2>2, <2>3 DEF consume_segment
<1>7. CASE chest_view_build
  BY <1>7, EcranHide DEF chest_view_build
<1>8. CASE Tick
  BY <1>8 DEF Tick, Ecran, Montre, chest_oath_cursor_entry
<1>. QED  BY <1>1, <1>2, <1>3, <1>4, <1>5, <1>6, <1>7, <1>8, Pas

LEMMA EcranInit == Init => EcranJuste
<1>. SUFFICES ASSUME Init PROVE EcranJuste
  OBVIOUS
<1>1. o = [chest_oath_reset(0) EXCEPT !.page = LaPage(c.ordre, 0)]
  BY DEF Init
<1>2. Ecran(o) /\ o.code = -1
  BY <1>1 DEF chest_oath_reset, Ecran
<1>. QED  BY <1>2 DEF EcranJuste, Montre

\* The code on the screen is that of the account under the cursor, whatever
\* keys and pages come between the press and the answer (chest_oath.c).
THEOREM CodeForCursor == Spec => []CodeIsForCursor
<1>1. EcranJuste => CodeIsForCursor
  BY DEF EcranJuste, Montre, CodeIsForCursor
<1>. QED  BY EcranInit, EcranNext, <1>1, PTL DEF Spec

-----------------------------------------------------------------------------
(***************************************************************************)
(* The records keep their fields.                                          *)
(***************************************************************************)
LEMMA FormesInit == Init => Formes
<1>. SUFFICES ASSUME Init PROVE Formes
  OBVIOUS
<1>1. PICK l \in Listes : c = [Coffre(l) EXCEPT !.req = "oath", !.mode = "oath"]
  BY DEF Init
<1>2. FormeCoffre
  BY <1>1 DEF FormeCoffre, Coffre
<1>3. FormePorte /\ FormeLien /\ DOMAIN vu = {"presse", "frais", "listes"}
  BY DEF Init, FormePorte, PorteVide, FormeLien
<1>4. DOMAIN d = {"cf", "cn"} /\ Mot(d.cf) /\ Mot(d.cn)
  BY DEF Init, Mot, Desarme
<1>. QED  BY <1>2, <1>3, <1>4, EcranInit DEF Formes, EcranJuste

LEMMA FormesNext ==
    ASSUME Formes, EcranJuste, [Next]_vars
    PROVE  Formes'
<1>0. Ecran(o)'
  BY EcranNext DEF EcranJuste
<1>1. DOMAIN d' = {"cf", "cn"} /\ Mot(d'.cf) /\ Mot(d'.cn)
  <2>1. CASE d' = d
    BY <2>1 DEF Formes
  <2>2. CASE chest_vanished
    BY <2>2 DEF chest_vanished, Mot, Desarme
  <2>3. ASSUME NEW spi \in {"tout", "coupe", "rien"}, NEW libre \in BOOLEAN,
               round_ok(spi, libre)
        PROVE  DOMAIN d' = {"cf", "cn"} /\ Mot(d'.cf) /\ Mot(d'.cn)
    <3>. DEFINE a == chest_arbitrate(lien.pris.press, lien.pris.cancel)
    <3>1. d' = [cf |-> a.cf, cn |-> a.cn]
      BY <2>3 DEF round_ok
    <3>2. Mot(a.cf) /\ Mot(a.cn)
      BY DEF chest_arbitrate, Suite, Armer, Desarme, Formes, Mot
    <3>. HIDE DEF a
    <3>. QED  BY <3>1, <3>2
  <2>4. CASE Tick
    BY <2>4 DEF Tick, Vieillir, Formes, Mot
  <2>. QED  BY <2>1, <2>2, <2>3, <2>4, PasDesMots
<1>. USE DEF Next, Proprietaire, Lien, Bloc, LeCoffre, chest_gate_press,
     chest_gate_oath_key, chest_gate_oath_code, chest_gate_mode_next, Touche,
     chest_link_presence, go_absent, SansCoffre, Prendre, Occupe, Refuse, round_ok,
     consume_segment, chest_view_build, Tick, Signer, Mourir, Naitre, Servir, Effacer,
     Basculer, ChangerComptes, LireMot, Executer, Evenement, Coffret, vars
<1>2. FormeCoffre'
  BY DEF Formes, FormeCoffre, Coffre
<1>3. FormePorte'
  BY DEF Formes, FormePorte, PortePrise
<1>4. FormeLien'
  BY DEF Formes, FormeLien
<1>5. DOMAIN vu' = {"presse", "frais", "listes"}
  BY DEF Formes, Geste, Oubli
<1>. QED  BY <1>0, <1>1, <1>2, <1>3, <1>4, <1>5 DEF Formes

-----------------------------------------------------------------------------
(***************************************************************************)
(* A code on the screen was asked for since the last move of the cursor.   *)
(***************************************************************************)
DemandeFraiche ==
    /\ o.dem # -1 => vu.frais
    /\ ~lien.dev => o.dem = -1 /\ pc = "attente"

LEMMA DemandeInit == Init => DemandeFraiche
<1>. SUFFICES ASSUME Init PROVE DemandeFraiche
  OBVIOUS
<1>1. o = [chest_oath_reset(0) EXCEPT !.page = LaPage(c.ordre, 0)] /\ lien.dev
  BY DEF Init
<1>2. o.dem = -1
  BY <1>1 DEF chest_oath_reset
<1>. QED  BY <1>1, <1>2 DEF DemandeFraiche

LEMMA DemandeNext ==
    ASSUME Formes, EcranJuste, DemandeFraiche, [Next]_vars
    PROVE  DemandeFraiche'
<1>. USE DEF DemandeFraiche, Formes, FormeLien
<1>1. CASE go_absent
  BY <1>1 DEF go_absent, chest_vanished, chest_oath_reset
<1>2. CASE SansCoffre
  BY <1>2 DEF SansCoffre
<1>3. ASSUME NEW usb \in BOOLEAN, Prendre(usb) PROVE DemandeFraiche'
  <2>. DEFINE o1 == IF lien.dev THEN o ELSE chest_oath_reset(o.ep)
              o2 == IF porte.nav = 0 THEN o1 ELSE chest_oath_nav(o1, porte.nav)
  <2>1. Ecran(o1) /\ Montre(o1) /\ (o1.dem # -1 => vu.frais)
    BY EcranReset DEF EcranJuste
  <2>2. Ecran(o2) /\ Montre(o2) /\ (o2.dem # -1 => vu.frais /\ porte.nav = 0)
    BY <2>1, EcranNav
  <2>3. /\ o' = chest_oath_code_key(o2, porte.code, usb)
        /\ lien'.dev = TRUE /\ vu' = Geste
    BY <1>3 DEF Prendre
  <2>. HIDE DEF o1, o2
  <2>4. o'.dem = o2.dem
    BY <2>2, <2>3, EcranKey
  <2>5. vu'.frais = (vu.frais /\ porte.nav = 0)
    BY <2>3 DEF Geste
  <2>. QED  BY <2>2, <2>3, <2>4, <2>5
<1>4. CASE Refuse
  BY <1>4 DEF Refuse, chest_vanished, chest_oath_reset
<1>5. ASSUME NEW spi \in {"tout", "coupe", "rien"}, NEW libre \in BOOLEAN,
             round_ok(spi, libre)
      PROVE  DemandeFraiche'
  <2>. DEFINE p == chest_round_plan(lien.nav, lien.pris.code)
              o1 == IF p.quitter THEN chest_oath_reset(o.ep)
                    ELSE IF p.annuler THEN [o EXCEPT !.dem = -1] ELSE o
              pose == p.dem # Muet /\ spi = "tout" /\ p.dem.kind = "code"
  <2>1. /\ o' = IF pose THEN [o1 EXCEPT !.dem = p.dem.arg] ELSE o1
        /\ vu'.frais = (vu.frais \/ pose)
        /\ lien'.dev = lien.dev /\ lien.dev
    BY <1>5 DEF round_ok
  <2>2. o1.dem # -1 => vu.frais
    BY DEF chest_oath_reset, Ecran
  <2>. HIDE DEF p, o1
  <2>. QED  BY <2>1, <2>2
<1>6. ASSUME NEW ok \in BOOLEAN, consume_segment(ok) PROVE DemandeFraiche'
  <2>1. o'.dem \in {o.dem, -1}
    BY <1>6, EcranList, EcranCode DEF consume_segment, EcranJuste
  <2>. QED  BY <1>6, <2>1 DEF consume_segment
<1>7. CASE chest_view_build
  BY <1>7, EcranHide DEF chest_view_build
<1>8. CASE Tick
  BY <1>8 DEF Tick, Ecran
<1>9. CASE Proprietaire
  BY <1>9 DEF Proprietaire, chest_gate_press, chest_gate_oath_key, chest_gate_oath_code,
     chest_gate_mode_next, Touche, chest_link_presence
<1>10. CASE Occupe
  BY <1>10 DEF Occupe
<1>11. CASE LeCoffre
  BY <1>11 DEF LeCoffre, Signer, Mourir, Naitre, Servir, Effacer, Basculer,
     ChangerComptes, LireMot, Executer, Evenement, Coffret, Oubli
<1>12. CASE UNCHANGED vars
  BY <1>12 DEF vars
<1>. QED  BY <1>1, <1>2, <1>3, <1>4, <1>5, <1>6, <1>7, <1>8, <1>9, <1>10, <1>11, <1>12
          DEF Next, Lien, Bloc

\* A code only appears from the answer to the request that waits.
LEMMA CodeNext ==
    ASSUME EcranJuste, [Next]_vars
    PROVE  o'.code \in {o.code, -1} \/ o.dem = o'.code
<1>. USE DEF EcranJuste
<1>1. CASE o' = o
  BY <1>1
<1>2. CASE go_absent \/ Refuse
  BY <1>2 DEF go_absent, Refuse, chest_vanished, chest_oath_reset
<1>3. ASSUME NEW usb \in BOOLEAN, Prendre(usb) PROVE o'.code \in {o.code, -1}
  <2>. DEFINE o1 == IF lien.dev THEN o ELSE chest_oath_reset(o.ep)
              o2 == IF porte.nav = 0 THEN o1 ELSE chest_oath_nav(o1, porte.nav)
  <2>1. Ecran(o1) /\ Montre(o1) /\ o1.code \in {o.code, -1}
    BY EcranReset DEF chest_oath_reset
  <2>2. Ecran(o2) /\ Montre(o2) /\ o2.code \in {o.code, -1}
    BY <2>1, EcranNav DEF chest_oath_nav, hide_code, Ecran
  <2>3. o' = chest_oath_code_key(o2, porte.code, usb)
    BY <1>3 DEF Prendre
  <2>. HIDE DEF o1, o2
  <2>. QED  BY <2>2, <2>3, EcranKey
<1>4. ASSUME NEW spi \in {"tout", "coupe", "rien"}, NEW libre \in BOOLEAN,
             round_ok(spi, libre)
      PROVE  o'.code \in {o.code, -1}
  <2>. DEFINE p == chest_round_plan(lien.nav, lien.pris.code)
              o1 == IF p.quitter THEN chest_oath_reset(o.ep)
                    ELSE IF p.annuler THEN [o EXCEPT !.dem = -1] ELSE o
  <2>1. o' \in {o1, [o1 EXCEPT !.dem = p.dem.arg]}
    BY <1>4 DEF round_ok
  <2>2. Ecran(o1) /\ o1.code \in {o.code, -1}
    BY DEF chest_oath_reset, Ecran
  <2>. HIDE DEF p, o1
  <2>. QED  BY <2>1, <2>2 DEF Ecran
<1>5. ASSUME NEW ok \in BOOLEAN, consume_segment(ok)
      PROVE  o'.code \in {o.code, -1} \/ o.dem = o'.code
  BY <1>5, EcranList, EcranCode DEF consume_segment
<1>6. CASE chest_view_build
  BY <1>6 DEF chest_view_build, hide_code, Ecran
<1>7. CASE Tick
  BY <1>7 DEF Tick, Ecran
<1>. QED  BY <1>1, <1>2, <1>3, <1>4, <1>5, <1>6, <1>7, Pas

\* A code never appears once a round moved the cursor after its request, even
\* when a later round moved it back to the same account (chest_oath_on_code).
\* Keys that cancel each other in one round are not a move: after them the
\* code appears.
THEOREM LateCode == Spec => LateCodeRefused
<1>1. Formes /\ EcranJuste /\ DemandeFraiche /\ [Next]_vars
         => [o.code = -1 /\ o'.code >= 0 => vu.frais]_vars
  <2>. SUFFICES ASSUME Formes, EcranJuste, DemandeFraiche, [Next]_vars,
                       o.code = -1, o'.code >= 0
                PROVE  vu.frais
    OBVIOUS
  <2>1. o'.code \in {o.code, -1} \/ o.dem = o'.code
    BY CodeNext
  <2>. QED  BY <2>1 DEF DemandeFraiche
<1>. QED  BY FormesInit, FormesNext, EcranInit, EcranNext, DemandeInit, DemandeNext,
             <1>1, PTL DEF Spec, LateCodeRefused

-----------------------------------------------------------------------------
(***************************************************************************)
(* The chest authorises what was confirmed.  Every tag on its way to the   *)
(* chest either names another prompt than the one armed, or one that the   *)
(* owner confirmed; and none names a prompt that is still to come.         *)
(***************************************************************************)
Suivie(tag) ==
    /\ tag[2] \in Nat
    /\ tag[1] # "aucune" /\ tag = Tag => vu.presse
    /\ c.vivant => tag[2] <= c.inst

MotSuivi(x) ==
    /\ x.kind \in {"oui", "non"} /\ x.inst \in Nat
    /\ c.vivant /\ x.inst <= c.inst
    /\ x.kind = "oui" /\ c.op # "aucune" /\ x.inst = c.inst => vu.presse

Presses ==
    /\ Suivie(porte.press) /\ Suivie(lien.pris.press)
    /\ d.cf.on => Suivie(d.cf.tag)
    /\ porte.tag[2] \in Nat /\ (c.vivant => porte.tag[2] <= c.inst)
    /\ c.mot # Muet => MotSuivi(c.mot)

\* A chest that is not there has left nothing behind it when it comes back.
Oubliee ==
    /\ c.inst \in Nat
    /\ ~c.vivant => c.op = "aucune" /\ c.mot = Muet
    /\ pc # "bloc" => lien.pris.press = Rien
    /\ ~lien.la => ~d.cf.on /\ porte.tag = Rien
    /\ ~lien.dev => ~lien.la /\ pc = "attente"

LEMMA PressesInit == Init => Presses /\ Oubliee
<1>. SUFFICES ASSUME Init PROVE Presses /\ Oubliee
  OBVIOUS
<1>1. PICK l \in Listes : c = [Coffre(l) EXCEPT !.req = "oath", !.mode = "oath"]
  BY DEF Init
<1>2. c.vivant /\ c.op = "aucune" /\ c.inst = 0 /\ c.mot = Muet
  BY <1>1 DEF Coffre
<1>3. porte.press = Rien /\ porte.tag = Rien /\ lien.pris.press = Rien /\ ~d.cf.on
      /\ lien.la /\ lien.dev
  BY DEF Init, PorteVide, Pris, Desarme
<1>. QED  BY <1>2, <1>3 DEF Presses, Oubliee, Suivie, Rien, Tag

\* A step that moves neither the chest's prompt nor what was confirmed.
Calme == /\ c'.op = c.op /\ c'.inst = c.inst /\ c'.vivant = c.vivant
         /\ vu.presse => vu'.presse

LEMMA Garde ==
    ASSUME NEW t, Suivie(t), Calme
    PROVE  Suivie(t)'
BY DEF Suivie, Calme, Tag

LEMMA RienSuivi ==
    ASSUME c.inst \in Nat
    PROVE  Suivie(Rien)
BY DEF Suivie, Rien

\* The round itself: what the arbitration arms and writes.
LEMMA Arbitrage ==
    ASSUME Formes, Presses, Oubliee, c.vivant
    PROVE  LET a == chest_arbitrate(lien.pris.press, lien.pris.cancel)
           IN  /\ a.cf.on => Suivie(a.cf.tag)
               /\ a.mot # Muet => MotSuivi(a.mot)
<1>. DEFINE press == lien.pris.press  cancel == lien.pris.cancel
            refus == chest_press_matches(cancel)
            oui   == ~refus /\ chest_press_matches(press)
            cn    == IF refus THEN Armer(cancel) ELSE IF oui THEN Desarme ELSE d.cn
            cf    == IF refus THEN Desarme ELSE IF oui THEN Armer(Tag) ELSE d.cf
            a     == chest_arbitrate(press, cancel)
<1>1. Mot(cf) /\ (cf.on => Suivie(cf.tag))
  BY DEF Armer, Desarme, Mot, Formes, Presses, Oubliee, Suivie, chest_press_matches, Tag
<1>2. a.cf.on => cf.on /\ a.cf.tag = cf.tag
  BY <1>1 DEF chest_arbitrate, Suite, Desarme, Mot
<1>3. a.mot # Muet =>
         \/ a.mot = [kind |-> "non", inst |-> cn.tag[2]] /\ cn.tag = Tag
         \/ a.mot = [kind |-> "oui", inst |-> cf.tag[2]] /\ cf.tag = Tag /\ cf.on
  BY DEF chest_arbitrate, Du
<1>. HIDE DEF cf, cn, a
<1>4. a.mot # Muet => MotSuivi(a.mot)
  BY <1>1, <1>3 DEF MotSuivi, Suivie, Tag, Oubliee
<1>. QED  BY <1>1, <1>2, <1>4 DEF a

\* The tags of a quiet step move from the gate to the round, or vanish.
LEMMA PressesCalme ==
    ASSUME Presses, Oubliee, Calme, c'.mot \in {c.mot, Muet},
           \/ porte'.press \in {porte.press, Rien}
           \/ porte'.press = porte.tag /\ (porte.tag # Rien /\ porte.tag = Tag => vu'.presse),
           lien'.pris.press \in {lien.pris.press, porte.press, Rien},
           d'.cf.on => d.cf.on /\ d'.cf.tag = d.cf.tag,
           porte'.tag \in {porte.tag, Rien}
    PROVE  Presses'
<1>1. Rien[1] = "aucune" /\ Rien[2] = 0
  BY DEF Rien
<1>2. Suivie(porte.press)' /\ Suivie(lien.pris.press)'
  BY <1>1 DEF Presses, Oubliee, Calme, Suivie, Tag
<1>3. (d.cf.on => Suivie(d.cf.tag))'
  BY <1>1 DEF Presses, Oubliee, Calme, Suivie, Tag
<1>4. (porte.tag[2] \in Nat /\ (c.vivant => porte.tag[2] <= c.inst))'
  BY <1>1 DEF Presses, Oubliee, Calme
<1>5. (c.mot # Muet => MotSuivi(c.mot))'
  BY DEF Presses, Calme, MotSuivi
<1>. QED  BY <1>2, <1>3, <1>4, <1>5 DEF Presses

LEMMA PressesNext ==
    ASSUME Formes, Presses, Oubliee, [Next]_vars
    PROVE  Presses' /\ Oubliee'
<1>. USE DEF Formes, FormeCoffre, FormePorte, FormeLien
<1>1. CASE Proprietaire
  <2>1. Calme /\ c' = c /\ d' = d /\ lien'.pris = lien.pris /\ porte'.tag = porte.tag
        /\ pc' = pc /\ lien'.la = lien.la /\ lien'.dev = lien.dev
    BY <1>1 DEF Proprietaire, chest_gate_press, chest_gate_oath_key, chest_gate_oath_code,
       chest_gate_mode_next, Touche, chest_link_presence, Calme
  <2>2. \/ porte'.press \in {porte.press, Rien}
        \/ porte'.press = porte.tag /\ (porte.tag # Rien /\ porte.tag = Tag => vu'.presse)
    BY <1>1 DEF Proprietaire, chest_gate_press, chest_gate_oath_key, chest_gate_oath_code,
       chest_gate_mode_next, Touche, chest_link_presence
  <2>. QED  BY <2>1, <2>2, PressesCalme DEF Oubliee
<1>2. CASE go_absent
  <2>1. Calme /\ c' = c /\ lien'.pris = lien.pris /\ porte'.tag = Rien
        /\ porte'.press = Rien /\ pc = "attente" /\ pc' = pc
    BY <1>2 DEF go_absent, PortePrise, Calme, Geste
  <2>2. d'.cf = Desarme /\ ~lien'.la /\ ~lien'.dev
    BY <1>2 DEF go_absent, chest_vanished
  <2>3. ~d'.cf.on
    BY <2>2 DEF Desarme
  <2>. QED  BY <2>1, <2>2, <2>3, PressesCalme DEF Oubliee
<1>11. CASE SansCoffre
  <2>1. Calme /\ c' = c /\ lien'.pris = lien.pris /\ porte'.tag = porte.tag
        /\ porte'.press = Rien /\ pc' = pc
        /\ d' = d /\ lien'.la = lien.la /\ lien'.dev = lien.dev
    BY <1>11 DEF SansCoffre, PortePrise, Calme, Geste
  <2>. QED  BY <2>1, PressesCalme DEF Oubliee
<1>3. ASSUME NEW usb \in BOOLEAN, Prendre(usb) PROVE Presses' /\ Oubliee'
  <2>1. Calme /\ c' = c /\ d' = d /\ porte'.tag = porte.tag /\ porte'.press = Rien
        /\ lien'.pris.press = porte.press /\ lien'.la = lien.la /\ lien'.dev
        /\ pc' = "bloc"
    BY <1>3 DEF Prendre, PortePrise, Prise, Calme, Geste
  <2>. QED  BY <2>1, PressesCalme DEF Oubliee
<1>4. CASE Occupe
  <2>1. Calme /\ c' = c /\ porte' = porte /\ lien'.pris.press = Rien /\ d' = d
        /\ pc = "bloc" /\ pc' = "vue" /\ lien'.dev = lien.dev /\ lien'.la = lien.la
    BY <1>4 DEF Occupe, Pris, Calme
  <2>. QED  BY <2>1, PressesCalme DEF Oubliee
<1>12. CASE Refuse
  <2>1. Calme /\ c' = c /\ pc = "bloc" /\ pc' = "vue"
    BY <1>12 DEF Refuse, Calme
  <2>2. porte'.press = porte.press /\ porte'.tag = Rien
    BY <1>12 DEF Refuse
  <2>3. lien'.pris.press = Rien /\ lien'.dev = lien.dev /\ lien'.la = c.vivant
    BY <1>12 DEF Refuse, Pris
  <2>4. CASE ~c.vivant /\ lien.la
    <3>1. d'.cf = Desarme
      BY <1>12, <2>4 DEF Refuse, chest_vanished
    <3>2. ~d'.cf.on
      BY <3>1 DEF Desarme
    <3>. QED  BY <2>1, <2>2, <2>3, <2>4, <3>2, PressesCalme DEF Oubliee
  <2>5. CASE ~(~c.vivant /\ lien.la)
    <3>1. d' = d
      BY <1>12, <2>5 DEF Refuse
    <3>. QED  BY <2>1, <2>2, <2>3, <2>5, <3>1, PressesCalme DEF Oubliee
  <2>. QED  BY <2>4, <2>5
<1>5. ASSUME NEW spi \in {"tout", "coupe", "rien"}, NEW libre \in BOOLEAN,
             round_ok(spi, libre)
      PROVE  Presses' /\ Oubliee'
  <2>. DEFINE a == chest_arbitrate(lien.pris.press, lien.pris.cancel)
  <2>1. /\ a.cf.on => Suivie(a.cf.tag)
        /\ a.mot # Muet => MotSuivi(a.mot)
    BY <1>5, Arbitrage DEF round_ok
  <2>2. /\ d'.cf = a.cf /\ c'.mot \in {c.mot, a.mot}
        /\ porte'.tag \in {Tag, Rien} /\ porte'.press = porte.press
        /\ lien'.la /\ lien'.dev = lien.dev /\ lien'.pris.press = Rien
        /\ pc = "bloc" /\ pc' \in {"segment", "vue"} /\ c.vivant
    BY <1>5 DEF round_ok, Pris
  <2>3. Calme
    BY <1>5 DEF round_ok, Calme
  <2>. HIDE DEF a
  <2>4. Rien[1] = "aucune" /\ Rien[2] = 0 /\ Tag[2] = c.inst
    BY DEF Rien, Tag
  <2>5. Suivie(porte.press)' /\ Suivie(lien.pris.press)' /\ (d.cf.on => Suivie(d.cf.tag))'
    BY <2>1, <2>2, <2>3, <2>4 DEF Presses, Oubliee, Calme, Suivie, Tag
  <2>6. (c.mot # Muet => MotSuivi(c.mot))'
    BY <2>1, <2>2, <2>3 DEF Presses, Calme, MotSuivi
  <2>7. (porte.tag[2] \in Nat /\ (c.vivant => porte.tag[2] <= c.inst))'
    BY <2>2, <2>3, <2>4 DEF Oubliee, Calme
  <2>8. Oubliee'
    BY <2>2, <2>3 DEF Oubliee, Calme
  <2>. QED  BY <2>5, <2>6, <2>7, <2>8 DEF Presses
<1>6. ASSUME NEW ok \in BOOLEAN, consume_segment(ok) PROVE Presses' /\ Oubliee'
  <2>1. Calme /\ c'.mot = c.mot /\ d' = d /\ porte' = porte /\ lien'.pris = lien.pris
        /\ lien'.la = lien.la /\ lien'.dev = lien.dev /\ pc = "segment" /\ pc' = "vue"
    BY <1>6 DEF consume_segment, Calme
  <2>. QED  BY <2>1, PressesCalme DEF Oubliee, Calme
<1>7. CASE chest_view_build
  <2>1. Calme /\ c' = c /\ d' = d /\ porte'.tag = porte.tag /\ porte'.press = porte.press
        /\ lien' = lien /\ pc = "vue" /\ pc' = "attente"
    BY <1>7 DEF chest_view_build, Calme
  <2>. QED  BY <2>1, PressesCalme DEF Oubliee
<1>8. CASE Tick
  <2>1. Calme /\ c' = c /\ porte' = porte /\ lien' = lien /\ pc' = pc
        /\ d'.cf.on = d.cf.on /\ d'.cf.tag = d.cf.tag
    BY <1>8 DEF Tick, Vieillir, Mot, Calme
  <2>. QED  BY <2>1, PressesCalme DEF Oubliee
<1>9. CASE LeCoffre
  <2>1. porte' = porte /\ pc' = pc /\ lien' = lien /\ d' = d
    BY <1>9 DEF LeCoffre, Signer, Mourir, Naitre, Servir, Effacer, Basculer,
       ChangerComptes, LireMot, Executer, Evenement, Coffret
  <2>2. CASE /\ c'.vivant = c.vivant /\ c'.op = c.op /\ c'.inst = c.inst
             /\ c'.mot \in {c.mot, Muet} /\ vu' = vu
    <3>1. Calme
      BY <2>2 DEF Calme
    <3>. QED  BY <2>1, <2>2, <3>1, PressesCalme DEF Oubliee
  <2>3. CASE /\ c.vivant /\ c'.vivant /\ c'.op = "aucune" /\ c'.inst = c.inst
             /\ c'.mot \in {c.mot, Muet}
    BY <2>1, <2>3 DEF Presses, Oubliee, Suivie, MotSuivi, Tag
  <2>4. CASE /\ c.vivant /\ c'.vivant /\ c'.inst = c.inst + 1
             /\ c'.mot = c.mot
    BY <2>1, <2>4 DEF Presses, Oubliee, Suivie, MotSuivi, Tag
  <2>5. CASE /\ ~c'.vivant /\ c'.op = "aucune" /\ c'.inst = 0 /\ c'.mot = Muet
    BY <2>1, <2>5 DEF Presses, Oubliee, Suivie, MotSuivi, Tag
  <2>6. CASE Naitre
    <3>1. /\ c'.vivant /\ ~c.vivant /\ c'.op = c.op /\ c'.inst = c.inst /\ c'.mot = c.mot
          /\ ~lien.la /\ pc = "attente" /\ porte.press = Rien
      BY <2>6 DEF Naitre, Coffret
    <3>2. Rien[1] = "aucune" /\ Rien[2] = 0
      BY DEF Rien
    <3>. QED  BY <2>1, <3>1, <3>2 DEF Presses, Oubliee, Suivie, MotSuivi, Tag
  <2>7. \/ Naitre
        \/ /\ c'.vivant = c.vivant /\ c'.op = c.op /\ c'.inst = c.inst
           /\ c'.mot \in {c.mot, Muet} /\ vu' = vu
        \/ /\ c.vivant /\ c'.vivant /\ c'.op = "aucune" /\ c'.inst = c.inst
           /\ c'.mot \in {c.mot, Muet}
        \/ c.vivant /\ c'.vivant /\ c'.inst = c.inst + 1 /\ c'.mot = c.mot
        \/ ~c'.vivant /\ c'.op = "aucune" /\ c'.inst = 0 /\ c'.mot = Muet
    <3>1. CASE Signer \/ Basculer \/ \E l \in Listes : ChangerComptes(l)
      BY <3>1 DEF Signer, Basculer, ChangerComptes, Evenement, Coffret
    <3>2. CASE Mourir
      BY <3>2 DEF Mourir, Evenement, Coffret, Coffre
    <3>3. CASE Servir
      BY <3>3 DEF Servir, Coffret
    <3>4. CASE Effacer
      BY <3>4 DEF Effacer, Coffret
    <3>5. ASSUME NEW b \in BOOLEAN, LireMot(b)
          PROVE  /\ c.vivant /\ c'.vivant /\ c'.vivant = c.vivant
                 /\ c'.inst = c.inst /\ c'.mot = Muet
                 /\ c'.op = "aucune" \/ (c'.op = c.op /\ vu' = vu)
      <4>. DEFINE n == [c EXCEPT !.mot = Muet, !.req = IF b THEN c.mode ELSE @]
                  bon == c.op # "aucune" /\ c.sert = 0 /\ c.mot.inst = c.inst
                  refuse == bon /\ c.mot.kind = "non"
      <4>1. CASE refuse
        <5>1. c' = [n EXCEPT !.op = "aucune", !.cible = 0]
          BY <3>5, <4>1 DEF LireMot, Coffret
        <5>. QED  BY <3>5, <5>1 DEF LireMot
      <4>2. CASE ~refuse
        <5>1. c' \in {n, [n EXCEPT !.sert = 1, !.count = (@ + 1) % Roue]} /\ vu' = vu
          BY <3>5, <4>2 DEF LireMot, Coffret
        <5>. QED  BY <3>5, <5>1 DEF LireMot
      <4>. QED  BY <4>1, <4>2
    <3>6. CASE \E b \in BOOLEAN : Executer(b)
      BY <3>6 DEF Executer, Coffret
    <3>. QED  BY <1>9, <3>1, <3>2, <3>3, <3>4, <3>5, <3>6 DEF LeCoffre
  <2>. QED  BY <2>2, <2>3, <2>4, <2>5, <2>6, <2>7
<1>10. CASE UNCHANGED vars
  <2>1. Calme
    BY <1>10 DEF vars, Calme
  <2>. QED  BY <1>10, <2>1, PressesCalme DEF vars, Oubliee
<1>. QED  BY <1>1, <1>2, <1>3, <1>4, <1>5, <1>6, <1>7, <1>8, <1>9, <1>10, <1>11, <1>12
          DEF Next, Lien, Bloc

\* The chest authorises nothing but a prompt the owner confirmed while it was
\* on the screen, whatever reboots and prompts follow (chest_proto.c).
THEOREM Confirmed == Spec => ConfirmWasPressed
<1>1. Formes /\ Presses /\ Oubliee /\ [Next]_vars
         => [c'.count # c.count /\ c'.vivant /\ c.vivant => vu.presse]_vars
  <2>. SUFFICES ASSUME Formes, Presses, Oubliee, [Next]_vars,
                       c'.count # c.count, c'.vivant, c.vivant
                PROVE  vu.presse
    OBVIOUS
  <2>1. PICK perdu \in BOOLEAN : LireMot(perdu)
    BY DEF Next, Proprietaire, Lien, Bloc, LeCoffre, chest_gate_press,
     chest_gate_oath_key, chest_gate_oath_code, chest_gate_mode_next, Touche,
     chest_link_presence, go_absent, SansCoffre, Prendre, Occupe, Refuse, round_ok,
     consume_segment, chest_view_build, Tick, Signer, Mourir, Naitre, Servir, Effacer,
     Basculer, ChangerComptes, Executer, Evenement, Coffret, vars, Formes, FormeCoffre, Coffre
  <2>2. c.mot # Muet /\ c.op # "aucune" /\ c.mot.inst = c.inst /\ c.mot.kind # "non"
    BY <2>1 DEF LireMot, Coffret, Formes, FormeCoffre
  <2>. QED  BY <2>2 DEF Presses, MotSuivi
<1>. QED  BY FormesInit, FormesNext, EcranInit, EcranNext, PressesInit, PressesNext,
             <1>1, PTL DEF Spec, ConfirmWasPressed

-----------------------------------------------------------------------------
(***************************************************************************)
(* A chest that does not answer is asked a bounded number of LISTs.        *)
(***************************************************************************)
Ronde(m) ==
    /\ DOMAIN m = {"seq", "busy", "age", "wait", "armed", "inst", "retry", "oath",
                   "tries", "first"}
    /\ m.oath \in BOOLEAN /\ m.tries \in 0 .. Retries
    /\ m.busy \in {"non", "list", "code"}

\* The numbers of the page and of the cursor.
Reperes ==
    /\ Ronde(r) /\ lien.nav \in BOOLEAN /\ porte.nav \in Int
    /\ o.cur \in Nat /\ o.page.total \in Int
    /\ c.ordre \in Listes
    /\ c.seg.kind = "list" => c.seg.page.total \in Nat

\* The LISTs of a page each cost a retry, but the one that is now asked for, or
\* that was asked for where the cursor is.  Only a segment moves the cursor
\* under a LIST in flight, and it gives back the retries.
Comptees ==
    /\ vu.listes \in Nat /\ ListsBounded
    /\ ~r.oath => r.busy = "non"
    /\ r.oath /\ ~lien.nav =>
         /\ vu.listes <= 1 + r.tries
         /\ r.first = -1 \/ (r.busy # "list" /\ r.first # o.cur) => vu.listes <= r.tries
         /\ r.busy = "list" /\ r.first \notin {-1, o.cur} => r.tries = 0
    /\ pc = "segment" => /\ ~lien.nav /\ r.tries = 0
                         /\ vu.listes = 0 \/ r.busy = "list"

LEMMA PageNombre ==
    ASSUME NEW l \in Listes, NEW f
    PROVE  LaPage(l, f).total \in Nat
<1>1. l \in Seq(Nat)
  BY ListesAssumption
<1>. QED  BY <1>1 DEF LaPage

LEMMA NavNombre ==
    ASSUME NEW m, NEW delta \in Int, Ecran(m), m.cur \in Nat, m.page.total \in Int
    PROVE  LET n == chest_oath_nav(m, delta)
           IN  n.cur \in Nat /\ n.page.total \in Int
<1>1. m.page.total > 0 => (m.cur + delta) % m.page.total \in Nat
  OBVIOUS
<1>. QED  BY <1>1 DEF chest_oath_nav, hide_code, Ecran

LEMMA ListeNombre ==
    ASSUME NEW m, NEW p, Ecran(m), m.cur \in Nat, p.total \in Nat
    PROVE  LET n == chest_oath_on_list(m, p)
           IN  n.cur \in Nat /\ n.page.total \in Int
BY DEF chest_oath_on_list, hide_code, Ecran

\* The counters of chest_round_t at its reset.
LEMMA RondeReset ==
    LET m == chest_round_reset
    IN  Ronde(m) /\ m.oath = FALSE /\ m.busy = "non" /\ m.tries = 0
BY RetriesAssumption DEF chest_round_reset, Ronde

\* What the plan of a round does to the request in flight.
LEMMA Planifier ==
    ASSUME Ronde(r), ~r.oath => r.busy = "non", NEW nav \in BOOLEAN, NEW key
    PROVE  LET p == chest_round_plan(nav, key)
               s == p.r
               neuf == nav \/ p.lire \/ (Oath /\ ~r.oath)
           IN  /\ Ronde(s) /\ s.oath = Oath /\ (~Oath => s.busy = "non")
               /\ p.quitter <=> r.oath /\ ~Oath
               /\ p.lire => s.tries = 0 /\ s.busy # "list"
               /\ Oath /\ neuf /\ s.busy = "list" => s.first = -1
               /\ Oath /\ ~neuf =>
                    \/ /\ s.tries = r.tries /\ s.first = r.first
                       /\ s.busy = "list" <=> r.busy = "list"
                    \/ /\ r.busy = "list" /\ s.busy = "non"
                       /\ s.tries = r.tries + 1 /\ s.first = -1
                    \/ /\ r.busy = "list" /\ s.busy = "non" /\ r.tries = Retries
                       /\ s.tries = r.tries /\ s.first = r.first
               /\ \/ p.dem = Muet
                  \/ /\ Oath /\ s.busy = "non" /\ s.first # o.cur
                     /\ p.dem = [kind |-> "list", arg |-> o.cur]
                  \/ Oath /\ s.busy = "non" /\ p.dem.kind = "code"
<1>. DEFINE r0 == [r EXCEPT !.retry = FALSE]
            r1 == Appartenir(r0)
            r2 == Annoncer(r1)
            r3 == Surveiller(r2)
            r4 == Echoir(r3)
            r5 == IF nav THEN list_decision(r4) ELSE r4
            p  == chest_round_plan(nav, key)
            entree == Oath /\ ~r.oath
<1>1. Ronde(r0) /\ r0.oath = r.oath /\ r0.busy = r.busy /\ r0.tries = r.tries /\ r0.first = r.first
  BY DEF Ronde
<1>. HIDE DEF r0
<1>2. /\ Ronde(r1) /\ r1.oath = Oath /\ (~Oath => r1.busy = "non")
      /\ entree => r1.tries = 0 /\ r1.first = -1 /\ r1.busy = "non"
      /\ Oath /\ ~entree => r1.busy = r.busy /\ r1.tries = r.tries /\ r1.first = r.first
  <2>0. r0.oath \in BOOLEAN /\ r.oath \in BOOLEAN /\ Oath \in BOOLEAN
    BY <1>1 DEF Ronde, Oath
  <2>1. CASE r.oath /\ ~Oath
    BY <1>1, <2>0, <2>1 DEF Appartenir, Ronde
  <2>2. CASE entree
    <3>1. r1 = [list_decision(r0) EXCEPT !.oath = TRUE]
      BY <1>1, <2>0, <2>2 DEF Appartenir
    <3>. QED  BY <1>1, <2>0, <2>2, <3>1, RetriesAssumption DEF list_decision, Ronde
  <2>3. CASE r.oath = Oath
    <3>1. r1 = r0
      BY <1>1, <2>0, <2>3 DEF Appartenir
    <3>. QED  BY <1>1, <2>0, <2>3, <3>1
  <2>. QED  BY <2>0, <2>1, <2>2, <2>3
<1>. HIDE DEF r1
<1>3. /\ Ronde(r2) /\ r2.oath = r1.oath /\ r2.first = r1.first
      /\ Nouveau(r1) => r2.tries = 0 /\ r2.busy = IF r1.busy = "list" THEN "non" ELSE r1.busy
      /\ ~Nouveau(r1) => r2.tries = r1.tries /\ r2.busy = r1.busy
  BY <1>2, RetriesAssumption DEF Annoncer, Nouveau, Ronde
<1>. HIDE DEF r2
<1>4. /\ Ronde(r3) /\ r3.oath = r2.oath /\ r3.first = r2.first /\ r3.tries = r2.tries
      /\ r3.busy = r2.busy \/ (r2.busy = "code" /\ r3.busy = "non")
  BY <1>3 DEF Surveiller, Ronde
<1>. HIDE DEF r3
<1>5. /\ Ronde(r4) /\ r4.oath = r3.oath
      /\ \/ r4.tries = r3.tries /\ r4.first = r3.first /\ r4.busy = r3.busy
         \/ r4.tries = r3.tries /\ r4.first = r3.first /\ r3.busy = "code" /\ r4.busy = "non"
         \/ /\ r3.busy \notin {"non", "code"} /\ r4.busy = "non"
            /\ r4.tries = r3.tries + 1 /\ r4.first = -1
         \/ /\ r3.busy \notin {"non", "code"} /\ r4.busy = "non" /\ r3.tries = Retries
            /\ r4.tries = r3.tries /\ r4.first = r3.first
  BY <1>4, RetriesAssumption DEF Echoir, Expire, Ronde
<1>. HIDE DEF r4
<1>6. /\ Ronde(r5) /\ r5.oath = r4.oath /\ r5.busy = r4.busy
      /\ nav => r5.tries = 0 /\ r5.first = -1
      /\ ~nav => r5.tries = r4.tries /\ r5.first = r4.first
  BY <1>5, RetriesAssumption DEF list_decision, Ronde
<1>. HIDE DEF r5
<1>7. LET s == Propre(r5)
      IN  /\ Ronde(s) /\ s.oath = r5.oath /\ s.busy = r5.busy
          /\ s.tries = r5.tries /\ s.first = r5.first
  BY <1>6 DEF Propre, Ronde
<1>8. /\ p.r = Propre(r5) /\ p.lire = Nouveau(r1)
      /\ p.quitter <=> r.oath /\ ~Oath
  BY DEF p, chest_round_plan, r0, r1, r2, r3, r4, r5
<1>9. \/ p.dem = Muet
      \/ /\ Oath /\ r5.busy = "non" /\ r5.first # o.cur
         /\ p.dem = [kind |-> "list", arg |-> o.cur]
      \/ Oath /\ r5.busy = "non" /\ p.dem.kind = "code"
  BY DEF p, chest_round_plan, r0, r1, r2, r3, r4, r5
<1>10. p.lire \in BOOLEAN
  BY <1>8 DEF Nouveau
<1>. DEFINE t == p.r
            neuf == nav \/ p.lire \/ entree
<1>11. /\ Ronde(t) /\ t.oath = Oath /\ t.busy = r4.busy
       /\ nav => t.tries = 0 /\ t.first = -1
       /\ ~nav => t.tries = r4.tries /\ t.first = r4.first
  BY <1>2, <1>3, <1>4, <1>5, <1>6, <1>7, <1>8
<1>12. \/ p.dem = Muet
       \/ /\ Oath /\ t.busy = "non" /\ t.first # o.cur
          /\ p.dem = [kind |-> "list", arg |-> o.cur]
       \/ Oath /\ t.busy = "non" /\ p.dem.kind = "code"
  BY <1>7, <1>8, <1>9
<1>13. /\ p.lire => r2.tries = 0 /\ r2.busy # "list"
       /\ ~p.lire => r2.tries = r1.tries /\ r2.busy = r1.busy
  BY <1>3, <1>8
<1>14. ~Oath => t.busy = "non"
  BY <1>2, <1>3, <1>4, <1>5, <1>11
<1>. HIDE DEF p, t
<1>15. p.lire => t.tries = 0 /\ t.busy # "list"
  BY <1>3, <1>4, <1>5, <1>11, <1>13 DEF Ronde
<1>16. Oath /\ neuf /\ t.busy = "list" => t.first = -1
  BY <1>2, <1>3, <1>4, <1>5, <1>11, <1>13
<1>17. Oath /\ ~neuf =>
         \/ /\ t.tries = r.tries /\ t.first = r.first
            /\ t.busy = "list" <=> r.busy = "list"
         \/ /\ r.busy = "list" /\ t.busy = "non"
            /\ t.tries = r.tries + 1 /\ t.first = -1
         \/ /\ r.busy = "list" /\ t.busy = "non" /\ r.tries = Retries
            /\ t.tries = r.tries /\ t.first = r.first
  BY <1>2, <1>3, <1>4, <1>5, <1>11, <1>13 DEF Ronde
<1>. QED  BY <1>8, <1>11, <1>12, <1>14, <1>15, <1>16, <1>17 DEF p, t

LEMMA BlocStep ==
    ASSUME Formes, Reperes, Comptees,
           NEW spi \in {"tout", "coupe", "rien"}, NEW libre \in BOOLEAN, round_ok(spi, libre)
    PROVE  Reperes' /\ Comptees'
<1>. DEFINE p == chest_round_plan(lien.nav, lien.pris.code)
            s == p.r
            remise == lien.nav \/ p.lire \/ (Oath /\ ~r.oath)
            liste == spi = "tout" /\ p.dem # Muet /\ p.dem.kind = "list"
            base == IF remise THEN 0 ELSE vu.listes
<1>1. /\ Ronde(r) /\ lien.nav \in BOOLEAN /\ o.cur \in Nat /\ vu.listes \in Nat
      /\ (~r.oath => r.busy = "non")
  BY DEF Reperes, Comptees
<1>2. /\ Ronde(s) /\ s.oath = Oath /\ (~Oath => s.busy = "non")
      /\ p.quitter <=> r.oath /\ ~Oath
      /\ p.lire => s.tries = 0 /\ s.busy # "list"
      /\ Oath /\ remise /\ s.busy = "list" => s.first = -1
      /\ Oath /\ ~remise =>
           \/ /\ s.tries = r.tries /\ s.first = r.first
              /\ s.busy = "list" <=> r.busy = "list"
           \/ /\ r.busy = "list" /\ s.busy = "non"
              /\ s.tries = r.tries + 1 /\ s.first = -1
           \/ /\ r.busy = "list" /\ s.busy = "non" /\ r.tries = Retries
              /\ s.tries = r.tries /\ s.first = r.first
      /\ \/ p.dem = Muet
         \/ /\ Oath /\ s.busy = "non" /\ s.first # o.cur
            /\ p.dem = [kind |-> "list", arg |-> o.cur]
         \/ Oath /\ s.busy = "non" /\ p.dem.kind = "code"
  BY <1>1, Planifier
<1>3. /\ r' = chest_round_sent(s, spi = "tout", p.dem)
      /\ vu'.listes = base + (IF liste THEN 1 ELSE 0)
      /\ lien'.nav = FALSE /\ porte'.nav = porte.nav
      /\ c'.ordre = c.ordre /\ c'.seg = c.seg
      /\ pc' = IF p.lire THEN "segment" ELSE "vue"
  BY DEF round_ok, Formes, FormePorte, FormeLien, FormeCoffre
<1>4. /\ o'.cur \in Nat /\ o'.page.total \in Int
      /\ ~p.quitter => o'.cur = o.cur
  <2>. DEFINE o1 == IF p.quitter THEN chest_oath_reset(o.ep)
                    ELSE IF p.annuler THEN [o EXCEPT !.dem = -1] ELSE o
  <2>1. o' \in {o1, [o1 EXCEPT !.dem = p.dem.arg]}
    BY DEF round_ok
  <2>2. /\ Ecran(o1) /\ o1.cur \in Nat /\ o1.page.total \in Int
        /\ ~p.quitter => o1.cur = o.cur
    BY DEF chest_oath_reset, SansPage, Formes, Ecran, Reperes
  <2>. HIDE DEF o1, p
  <2>. QED  BY <2>1, <2>2 DEF Ecran
<1>. HIDE DEF p
<1>5. /\ Ronde(r') /\ r'.oath = Oath /\ r'.tries = s.tries
      /\ liste => r'.busy = "list" /\ r'.first = o.cur
      /\ ~liste => /\ r'.first = s.first
                   /\ r'.busy = s.busy \/ (r'.busy = "code" /\ p.dem.kind = "code")
  <2>1. /\ Ronde(s) /\ s.oath = Oath
        /\ \/ p.dem = Muet
           \/ p.dem.kind = "code"
           \/ p.dem = [kind |-> "list", arg |-> o.cur]
    BY <1>2
  <2>2. r' = chest_round_sent(s, spi = "tout", p.dem)
    BY <1>3
  <2>. HIDE DEF s
  <2>. QED  BY <2>1, <2>2 DEF chest_round_sent, Ronde, Muet
<1>6. /\ liste => Oath /\ s.busy = "non" /\ s.first # o.cur
      /\ ~liste /\ r'.busy # s.busy => Oath /\ s.busy = "non" /\ r'.busy = "code"
  BY <1>2, <1>5 DEF Muet
<1>7. s.tries \in 0 .. Retries /\ r.tries \in 0 .. Retries /\ Retries \in Nat \ {0}
  BY <1>1, <1>2, RetriesAssumption DEF Ronde
<1>8. Reperes'
  BY <1>3, <1>4, <1>5 DEF Reperes, Ronde
<1>. DEFINE libre_(f, b) == f = -1 \/ (b # "list" /\ f # o.cur)
\* Nothing but the LIST about to go exceeds the retries.
<1>9. Oath =>
        /\ base \in Nat /\ base <= 1 + s.tries
        /\ libre_(s.first, s.busy) => base <= s.tries
        /\ s.busy = "list" /\ s.first \notin {-1, o.cur} => s.tries = 0
  <2>1. CASE remise
    BY <1>2, <1>7, <2>1
  <2>2. CASE ~remise /\ Oath
    <3>1. /\ r.oath /\ ~lien.nav /\ base = vu.listes /\ vu.listes \in Nat
          /\ vu.listes <= 1 + r.tries
          /\ libre_(r.first, r.busy) => vu.listes <= r.tries
          /\ r.busy = "list" /\ r.first \notin {-1, o.cur} => r.tries = 0
      BY <1>1, <2>2 DEF Comptees
    <3>. HIDE DEF remise, base
    <3>. QED  BY <1>2, <1>7, <2>2, <3>1
  <2>. QED  BY <2>1, <2>2
<1>10. p.lire => base = 0
  OBVIOUS
<1>11. base \in Nat /\ base <= 1 + Retries
  BY <1>1, <1>7 DEF Comptees, ListsBounded
<1>. HIDE DEF s, remise, liste, base
<1>12. /\ vu'.listes \in Nat /\ vu'.listes <= 1 + Retries
  BY <1>3, <1>6, <1>7, <1>9, <1>11
<1>13. ~r'.oath => r'.busy = "non"
  BY <1>2, <1>5, <1>6
<1>14. ASSUME r'.oath
       PROVE  /\ vu'.listes <= 1 + r'.tries
              /\ r'.first = -1 \/ (r'.busy # "list" /\ r'.first # o'.cur)
                    => vu'.listes <= r'.tries
              /\ r'.busy = "list" /\ r'.first \notin {-1, o'.cur} => r'.tries = 0
  <2>1. Oath /\ o'.cur = o.cur
    BY <1>2, <1>4, <1>5, <1>14
  <2>2. CASE liste
    BY <1>1, <1>3, <1>5, <1>6, <1>7, <1>9, <2>1, <2>2
  <2>3. CASE ~liste
    BY <1>3, <1>5, <1>6, <1>7, <1>9, <2>1, <2>3
  <2>. QED  BY <2>2, <2>3
<1>15. p.lire => r'.tries = 0 /\ (vu'.listes = 0 \/ r'.busy = "list")
  BY <1>2, <1>3, <1>5, <1>10
<1>16. ASSUME pc' = "segment"
       PROVE  ~lien'.nav /\ r'.tries = 0 /\ (vu'.listes = 0 \/ r'.busy = "list")
  <2>1. p.lire
    BY <1>3, <1>16
  <2>. QED  BY <1>3, <1>15, <2>1
<1>17. Comptees'
  BY <1>12, <1>13, <1>14, <1>16 DEF Comptees, ListsBounded
<1>. QED  BY <1>8, <1>17

LEMMA ComptesInit == Init => Reperes /\ Comptees
<1>. SUFFICES ASSUME Init PROVE Reperes /\ Comptees
  OBVIOUS
<1>1. PICK l \in Listes : c = [Coffre(l) EXCEPT !.req = "oath", !.mode = "oath"]
  BY DEF Init
<1>2. c.ordre = l /\ c.seg = Muet
  BY <1>1 DEF Coffre
<1>3. /\ o.cur = 0 /\ o.page.total \in Int
      /\ lien.nav \in BOOLEAN /\ porte.nav = 0 /\ pc = "attente" /\ vu.listes = 0
  <2>1. LaPage(c.ordre, 0).total \in Nat
    BY <1>2, PageNombre
  <2>2. o = [chest_oath_reset(0) EXCEPT !.page = LaPage(c.ordre, 0)]
    BY DEF Init
  <2>3. o.cur = 0 /\ o.page = LaPage(c.ordre, 0)
    BY <2>2 DEF chest_oath_reset
  <2>4. porte = PorteVide /\ pc = "attente" /\ vu = [presse |-> FALSE, frais |-> FALSE, listes |-> 0]
    BY DEF Init
  <2>5. lien.nav \in BOOLEAN
    BY DEF Init
  <2>. QED  BY <2>1, <2>3, <2>4, <2>5 DEF PorteVide
<1>4. Ronde(r) /\ r.oath = TRUE /\ r.busy = "non" /\ r.tries = 0 /\ r.first = 0
  <2>1. r = [chest_round_reset EXCEPT !.seq = c.seq, !.oath = TRUE, !.first = 0]
    BY DEF Init
  <2>. QED  BY <2>1, RetriesAssumption DEF chest_round_reset, Ronde
<1>5. Reperes
  <2>1. c.ordre \in Listes /\ c.seg.kind # "list"
    BY <1>2 DEF Muet
  <2>. QED  BY <2>1, <1>3, <1>4 DEF Reperes
<1>6. Comptees
  BY <1>3, <1>4, RetriesAssumption DEF Comptees, ListsBounded
<1>. QED  BY <1>5, <1>6

\* What the link task has not taken in changes nothing of its count.
LEMMA ComptesCalme ==
    ASSUME Reperes, Comptees, r' = r, o' = o, lien'.nav = lien.nav,
           vu'.listes = vu.listes, pc' = pc \/ pc' # "segment"
    PROVE  Comptees'
BY DEF Comptees, ListsBounded

\* Nor does a chest that is gone: nothing is asked of it.
LEMMA ComptesAbsent ==
    ASSUME Reperes, Comptees, r' = chest_round_reset, vu'.listes = vu.listes,
           pc' # "segment"
    PROVE  Comptees'
BY RondeReset DEF Comptees, ListsBounded

LEMMA ComptesNext ==
    ASSUME Formes, EcranJuste, Reperes, Comptees, [Next]_vars
    PROVE  Reperes' /\ Comptees'
<1>. USE DEF Formes, FormePorte, FormeLien, EcranJuste
<1>1. CASE go_absent
  <2>1. /\ r' = chest_round_reset /\ vu'.listes = vu.listes /\ pc' # "segment"
        /\ lien'.nav \in BOOLEAN /\ porte'.nav = 0 /\ c' = c
        /\ o'.cur = 0 /\ o'.page.total = -1
    BY <1>1 DEF go_absent, chest_vanished, chest_oath_reset, SansPage, PortePrise, Geste
  <2>2. Reperes'
    BY <2>1, RondeReset DEF Reperes, Ronde
  <2>. QED  BY <2>1, <2>2, ComptesAbsent
<1>2. CASE SansCoffre
  <2>1. /\ r' = r /\ o' = o /\ lien'.nav = lien.nav /\ vu'.listes = vu.listes
        /\ pc' = pc /\ porte'.nav = 0 /\ c' = c
    BY <1>2 DEF SansCoffre, PortePrise, Geste
  <2>2. Reperes'
    BY <2>1 DEF Reperes
  <2>. QED  BY <2>1, <2>2, ComptesCalme
<1>3. ASSUME NEW usb \in BOOLEAN, Prendre(usb) PROVE Reperes' /\ Comptees'
  <2>. DEFINE o1 == IF lien.dev THEN o ELSE chest_oath_reset(o.ep)
              o2 == IF porte.nav = 0 THEN o1 ELSE chest_oath_nav(o1, porte.nav)
  <2>1. /\ Ecran(o1) /\ Montre(o1) /\ o1.cur \in Nat /\ o1.page.total \in Int
        /\ lien.dev => o1.cur = o.cur
    BY EcranReset DEF Reperes, chest_oath_reset, SansPage
  <2>2. /\ Ecran(o2) /\ Montre(o2) /\ o2.cur \in Nat /\ o2.page.total \in Int
        /\ porte.nav = 0 => o2.cur = o1.cur
    BY <2>1, EcranNav, NavNombre DEF Reperes
  <2>3. /\ o' = chest_oath_code_key(o2, porte.code, usb)
        /\ lien.dev => r' = r
        /\ ~lien.dev => r' = chest_round_reset
        /\ lien'.nav \in BOOLEAN /\ (lien'.nav <=> lien.nav \/ porte.nav # 0)
        /\ porte'.nav = 0 /\ vu'.listes = vu.listes /\ pc' = "bloc" /\ c' = c
    BY <1>3 DEF Prendre, PortePrise, Geste, Reperes
  <2>. HIDE DEF o1, o2
  <2>4. o'.cur = o2.cur /\ o'.page = o2.page
    BY <2>2, <2>3 DEF chest_oath_code_key, hide_code, Ecran
  <2>5. Reperes'
    BY <2>2, <2>3, <2>4, RondeReset DEF Reperes, Ronde
  <2>6. CASE ~lien.dev
    <3>1. r' = chest_round_reset /\ vu'.listes = vu.listes /\ pc' # "segment"
      BY <2>3, <2>6
    <3>. QED  BY <2>5, <3>1, ComptesAbsent
  <2>7. CASE lien.dev /\ porte.nav # 0
    <3>1. r' = r /\ lien'.nav /\ vu'.listes = vu.listes /\ pc' = "bloc"
      BY <2>3, <2>7
    <3>2. Comptees'
      BY <3>1 DEF Comptees, ListsBounded
    <3>. QED  BY <2>5, <3>2
  <2>8. CASE lien.dev /\ porte.nav = 0
    <3>1. /\ r' = r /\ o'.cur = o.cur /\ vu'.listes = vu.listes /\ pc' = "bloc"
          /\ lien'.nav <=> lien.nav
      BY <2>1, <2>2, <2>3, <2>4, <2>8
    <3>2. Comptees'
      BY <3>1 DEF Comptees, ListsBounded
    <3>. QED  BY <2>5, <3>2
  <2>. QED  BY <2>5, <2>6, <2>7, <2>8
<1>4. CASE Refuse
  <2>1. /\ lien'.nav = lien.nav /\ porte'.nav = porte.nav /\ pc' = "vue"
        /\ vu' = vu /\ c' = c
        /\ chest_vanished \/ (r' = r /\ o' = o)
    BY <1>4 DEF Refuse
  <2>2. CASE chest_vanished
    <3>1. r' = chest_round_reset /\ o'.cur = 0 /\ o'.page.total = -1
      BY <2>2 DEF chest_vanished, chest_oath_reset, SansPage
    <3>2. Reperes'
      BY <2>1, <3>1, RondeReset DEF Reperes, Ronde
    <3>. QED  BY <2>1, <3>1, <3>2, ComptesAbsent
  <2>3. CASE r' = r /\ o' = o
    <3>1. Reperes'
      BY <2>1, <2>3 DEF Reperes
    <3>. QED  BY <2>1, <2>3, <3>1, ComptesCalme
  <2>. QED  BY <2>1, <2>2, <2>3
<1>5. ASSUME NEW ok \in BOOLEAN, consume_segment(ok) PROVE Reperes' /\ Comptees'
  <2>1. /\ pc = "segment" /\ pc' = "vue" /\ vu' = vu /\ porte' = porte
        /\ lien'.nav = lien.nav
    BY <1>5 DEF consume_segment
  <2>2. /\ Ronde(r') /\ r'.oath = r.oath /\ r'.tries = r.tries
        /\ r'.busy = r.busy /\ r'.first = r.first
    BY <1>5 DEF consume_segment, Reperes, Ronde
  <2>3. /\ c'.ordre \in Listes
        /\ c'.seg.kind = "list" => c'.seg.page.total \in Nat
    BY <1>5 DEF consume_segment, Reperes, FormeCoffre, Muet
  <2>4. o'.cur \in Nat /\ o'.page.total \in Int
    <3>1. CASE o' = o
      BY <3>1 DEF Reperes
    <3>2. CASE c.seg.kind = "list" /\ o' = chest_oath_on_list(o, c.seg.page)
      BY <3>2, ListeNombre DEF Reperes
    <3>3. CASE o' = chest_oath_on_code(o, c.seg.i)
      BY <3>3 DEF Reperes, chest_oath_on_code, Ecran
    <3>. QED  BY <1>5, <3>1, <3>2, <3>3 DEF consume_segment
  <2>5. Reperes'
    BY <2>1, <2>2, <2>3, <2>4 DEF Reperes
  <2>6. Comptees'
    BY <2>1, <2>2 DEF Comptees, ListsBounded
  <2>. QED  BY <2>5, <2>6
<1>6. CASE chest_view_build
  <2>1. /\ r' = r /\ lien' = lien /\ vu' = vu /\ c' = c /\ porte'.nav = porte.nav
        /\ pc' = "attente" /\ o'.cur = o.cur /\ o'.page = o.page
    BY <1>6 DEF chest_view_build, hide_code, Ecran
  <2>. QED  BY <2>1 DEF Reperes, Comptees, ListsBounded
<1>7. CASE Tick
  <2>1. /\ lien' = lien /\ vu' = vu /\ c' = c /\ porte' = porte /\ pc' = pc
        /\ o'.cur = o.cur /\ o'.page = o.page
        /\ Ronde(r') /\ r'.oath = r.oath /\ r'.tries = r.tries
        /\ r'.busy = r.busy /\ r'.first = r.first
    BY <1>7 DEF Tick, Ecran, Ronde, Reperes
  <2>. QED  BY <2>1 DEF Reperes, Comptees, ListsBounded
<1>8. CASE Proprietaire
  <2>1. /\ r' = r /\ o' = o /\ lien'.nav = lien.nav /\ vu'.listes = vu.listes
        /\ pc' = pc /\ porte'.nav \in Int /\ c' = c
    BY <1>8 DEF Proprietaire, chest_gate_press, chest_gate_oath_key, chest_gate_oath_code,
       chest_gate_mode_next, Touche, chest_link_presence, Reperes
  <2>2. Reperes'
    BY <2>1 DEF Reperes
  <2>. QED  BY <2>1, <2>2, ComptesCalme
<1>9. CASE Occupe
  <2>1. /\ r' = r /\ o' = o /\ lien'.nav = lien.nav /\ vu' = vu
        /\ pc' = "vue" /\ porte' = porte /\ c' = c
    BY <1>9 DEF Occupe
  <2>2. Reperes'
    BY <2>1 DEF Reperes
  <2>. QED  BY <2>1, <2>2, ComptesCalme
<1>10. CASE LeCoffre
  <2>1. /\ r' = r /\ o' = o /\ lien' = lien /\ vu'.listes = vu.listes
        /\ pc' = pc /\ porte' = porte
    BY <1>10 DEF LeCoffre, Signer, Mourir, Naitre, Servir, Effacer, Basculer,
       ChangerComptes, LireMot, Executer, Evenement, Coffret, Oubli
  <2>2. /\ c'.ordre \in Listes
        /\ c'.seg.kind = "list" => c'.seg.page.total \in Nat
    <3>. USE DEF Coffret, Evenement, Reperes, FormeCoffre, Muet
    <3>1. CASE Signer \/ Naitre \/ Effacer \/ Basculer
      BY <3>1 DEF Signer, Naitre, Effacer, Basculer
    <3>2. CASE Mourir
      BY <3>2 DEF Mourir, Coffre
    <3>3. CASE Servir
      BY <3>3, PageNombre DEF Servir
    <3>4. ASSUME NEW l \in Listes, ChangerComptes(l)
          PROVE  /\ c'.ordre \in Listes
                 /\ c'.seg.kind = "list" => c'.seg.page.total \in Nat
      BY <3>4 DEF ChangerComptes
    <3>5. ASSUME NEW b \in BOOLEAN, LireMot(b)
          PROVE  c'.ordre = c.ordre /\ c'.seg = c.seg
      BY <3>5 DEF LireMot
    <3>6. ASSUME NEW b \in BOOLEAN, Executer(b)
          PROVE  c'.ordre = c.ordre /\ (c'.seg = c.seg \/ c'.seg.kind = "code")
      BY <3>6 DEF Executer
    <3>. QED  BY <1>10, <3>1, <3>2, <3>3, <3>4, <3>5, <3>6 DEF LeCoffre
  <2>3. Reperes'
    BY <2>1, <2>2 DEF Reperes
  <2>. QED  BY <2>1, <2>3, ComptesCalme
<1>11. CASE UNCHANGED vars
  BY <1>11 DEF vars, Reperes, Comptees, ListsBounded
<1>. QED  BY <1>1, <1>2, <1>3, <1>4, <1>5, <1>6, <1>7, <1>8, <1>9, <1>10, <1>11, BlocStep
          DEF Next, Lien, Bloc

\* A channel that does not answer is sent one LIST and its retries, until a key,
\* a segment or a new entry in OATH (chest_round.h): a page that moves the cursor
\* while a LIST is in flight does not make it one more.
THEOREM ListsAreBounded == Spec => []ListsBounded
<1>1. Reperes /\ Comptees => ListsBounded
  BY DEF Comptees
<1>. QED  BY FormesInit, FormesNext, EcranInit, EcranNext, ComptesInit, ComptesNext,
             <1>1, PTL DEF Spec

-----------------------------------------------------------------------------
(***************************************************************************)
(* The keymap that the left half pulls from the dongle.                    *)
(***************************************************************************)

(***************************************************************************)
(* Every chunk waiting is of the dongle's keymap.                          *)
(***************************************************************************)
Frais == \A j \in 1 .. Len(acks) :
            acks[j].type = "morceau" => acks[j].data = source[acks[j].idx]

(***************************************************************************)
(* A beacon is of this edition or of an earlier one.                       *)
(***************************************************************************)
Datees ==
    /\ debut <= editions
    /\ \A i \in 1 .. Len(acks) : acks[i].type = "balise" => acks[i].ed <= editions
    /\ scan.ack.type = "balise" => scan.ack.ed <= editions

(***************************************************************************)
(* Behind a beacon of this edition, every chunk is of the dongle's keymap. *)
(***************************************************************************)
EnFile ==
    \A i \in 1 .. Len(acks) :
        acks[i].type = "balise" /\ acks[i].ed = editions =>
            /\ acks[i].fp = source
            /\ \A j \in 1 .. Len(acks) : i < j /\ acks[j].type = "morceau"
                   => acks[j].data = source[acks[j].idx]

(***************************************************************************)
(* What the scan has in hand is as fresh as what it left behind it.        *)
(***************************************************************************)
EnMain ==
    scan.pas # "repos" =>
        /\ scan.ack.type = "balise" /\ scan.ack.ed = editions =>
               scan.ack.fp = source /\ Frais
        /\ scan.ack.type = "morceau" /\ tire /\ debut = editions /\ ~course =>
               scan.ack.data = source[scan.ack.idx]

(***************************************************************************)
(* A chunk the scan decided to keep is the next one, unless it was passed. *)
(***************************************************************************)
Decide ==
    scan.pas = "appliquer" /\ scan.ack.type = "morceau" =>
        /\ suivant <= N
        /\ ~course => tire /\ scan.ack.idx = suivant

(***************************************************************************)
(* A pull of this edition has the target, the chunks to come and the       *)
(* chunks gathered of the dongle's keymap.                                 *)
(***************************************************************************)
Tirage ==
    /\ tire => suivant < N
    /\ (tire \/ complet) /\ debut = editions /\ ~course =>
           /\ cible = source
           /\ Frais
           /\ \A i \in 0 .. N - 1 : i < suivant => tampon[i] = source[i]

(***************************************************************************)
(* The inductive invariant: the acknowledgements come in the order the     *)
(* dongle loaded them, so that what follows a beacon is what it announced. *)
(***************************************************************************)
SyncInv == SyncTypeOK /\ Datees /\ EnFile /\ EnMain /\ Decide /\ Tirage

(***************************************************************************)
(* What the three kinds of payload carry.                                  *)
(***************************************************************************)
LEMMA Sortes ==
  /\ \A p \in Balises : p.type = "balise" /\ p.fp \in Cartes /\ p.ed \in 0 .. MaxEditions
  /\ \A p \in Morceaux : p.type = "morceau" /\ p.idx \in 0 .. N - 1 /\ p.data \in Valeurs
  /\ SansCharge.type = "rien"
  BY DEF Balises, Morceaux, SansCharge

(***************************************************************************)
(* The initial state has the types of KeymapSync...                        *)
(***************************************************************************)
LEMMA SyncTypeInit == ASSUME SyncInit PROVE SyncTypeOK
<1>1. scan = [pas |-> "repos", ack |-> SansCharge, doublee |-> FALSE]
  BY DEF SyncInit, AuRepos, Etat
<1>2. /\ recus \in Seq(Trames) /\ Len(recus) = 0
      /\ acks \in Seq(Charges) /\ Len(acks) = 0
  BY DEF SyncInit
<1>3. 0 \in 0 .. N + 1 /\ 0 \in 0 .. MaxEditions /\ 0 \in 0 .. MaxReboots
  BY SizeAssumption, BoundAssumption
<1>4. /\ source \in Cartes /\ annonce \in Cartes /\ locale \in Cartes /\ nvs \in Cartes
      /\ tampon \in Cartes /\ cible \in Cartes
  BY DepartAssumption DEF SyncInit
<1>5. scan \in [pas : {"repos", "lire", "appliquer"}, ack : Charges \cup {SansCharge},
                doublee : BOOLEAN]
  BY <1>1
<1>6. Len(recus) <= RxCap /\ Len(acks) <= AckCap
  BY <1>2, SizeAssumption
<1> QED BY <1>2, <1>3, <1>4, <1>5, <1>6 DEF SyncInit, SyncTypeOK

(***************************************************************************)
(* ... and the invariant.                                                  *)
(***************************************************************************)
LEMMA SyncInvInit == ASSUME SyncInit PROVE SyncInv
<1>1. SyncTypeOK
  BY SyncTypeInit
<1>2. Datees /\ EnFile
  BY BoundAssumption DEF SyncInit, Datees, EnFile, AuRepos, Etat, SansCharge
<1>3. EnMain /\ Decide /\ Tirage
  BY DEF SyncInit, EnMain, Decide, Tirage, AuRepos, Etat, SansCharge
<1> QED BY <1>1, <1>2, <1>3 DEF SyncInv

(***************************************************************************)
(* A frame of the left half takes at most the oldest payload off the       *)
(* dongle's chip, and brings it or nothing.                                *)
(***************************************************************************)
LEMMA Emission ==
  ASSUME SyncTypeOK, NEW t \in Trames, NEW ack, Emettre(t, ack)
  PROVE  /\ recus' \in Seq(Trames) /\ Len(recus') <= RxCap
         /\ acks' \in Seq(Charges) /\ Len(acks') <= AckCap
         /\ \/ acks' = acks /\ ack = SansCharge
            \/ /\ acks # << >> /\ acks' = Tail(acks)
               /\ ack \in {SansCharge, acks[1]}
         /\ ack \in Charges \cup {SansCharge}
<1>1. /\ recus \in Seq(Trames) /\ Len(recus) <= RxCap /\ RxCap \in Nat
      /\ acks \in Seq(Charges) /\ Len(acks) <= AckCap /\ AckCap \in Nat
  BY SizeAssumption DEF SyncTypeOK
<1>2. acks # << >> => /\ acks[1] \in Charges /\ Head(acks) = acks[1]
                      /\ Tail(acks) \in Seq(Charges) /\ Len(Tail(acks)) = Len(acks) - 1
  BY <1>1
<1>3. Arriver(t) => /\ recus' \in Seq(Trames) /\ Len(recus') <= RxCap
                    /\ acks' = IF acks = << >> THEN acks ELSE Tail(acks)
  BY <1>1 DEF Arriver
<1>4. EnTete = IF acks = << >> THEN SansCharge ELSE acks[1]
  BY <1>2 DEF EnTete
<1>5. ASSUME Arriver(t)
      PROVE  /\ recus' \in Seq(Trames) /\ Len(recus') <= RxCap
             /\ acks' \in Seq(Charges) /\ Len(acks') <= AckCap
             /\ acks' = acks \/ (acks # << >> /\ acks' = Tail(acks))
             /\ acks = << >> => acks' = acks
  <2>1. CASE acks = << >>
    BY <1>1, <1>3, <1>5, <2>1
  <2>2. CASE acks # << >>
    <3>1. acks' = Tail(acks) /\ Len(acks) \in Nat
      BY <1>1, <1>3, <1>5, <2>2
    <3>2. Len(acks') <= AckCap /\ acks' \in Seq(Charges)
      BY <1>1, <1>2, <2>2, <3>1
    <3> QED BY <1>3, <1>5, <2>2, <3>1, <3>2
  <2> QED BY <2>1, <2>2
<1>6. CASE Arriver(t) /\ (ack = EnTete \/ ack = SansCharge)
  <2>1. ack = SansCharge \/ (acks # << >> /\ ack = acks[1] /\ acks' = Tail(acks))
    <3>1. CASE acks = << >>
      BY <1>4, <1>6, <3>1
    <3>2. CASE acks # << >>
      <4>1. acks' = Tail(acks)
        BY <1>3, <1>6, <3>2
      <4>2. EnTete = acks[1]
        BY <1>4, <3>2
      <4> QED BY <1>6, <3>2, <4>1, <4>2
    <3> QED BY <3>1, <3>2
  <2> QED BY <1>2, <1>5, <1>6, <2>1
<1>7. CASE ack = SansCharge /\ UNCHANGED radio
  BY <1>1, <1>7 DEF radio
<1> QED BY <1>6, <1>7 DEF Emettre

(***************************************************************************)
(* The payloads behind the first one.                                      *)
(***************************************************************************)
LEMMA Retrait ==
  ASSUME SyncTypeOK, acks # << >>
  PROVE  /\ Len(Tail(acks)) = Len(acks) - 1 /\ Len(acks) \in Nat \ {0}
         /\ \A i \in 1 .. Len(acks) - 1 : Tail(acks)[i] = acks[i + 1]
         /\ Tail(acks) \in Seq(Charges) /\ acks[1] \in Charges
  BY DEF SyncTypeOK

(***************************************************************************)
(* Taking the first payload off keeps the order of those behind it:        *)
(* nothing here but where they are changes.                                *)
(***************************************************************************)
LEMMA FileAvance ==
  ASSUME SyncTypeOK, UNCHANGED <<source, editions>>,
         \/ acks' = acks
         \/ acks # << >> /\ acks' = Tail(acks)
  PROVE  /\ Frais => Frais'
         /\ EnFile => EnFile'
         /\ (\A i \in 1 .. Len(acks) : acks[i].type = "balise" => acks[i].ed <= editions)
            => \A i \in 1 .. Len(acks') : acks'[i].type = "balise" => acks'[i].ed <= editions
<1>1. CASE acks' = acks
  BY <1>1 DEF Frais, EnFile
<1>2. CASE acks # << >> /\ acks' = Tail(acks)
  <2>1. /\ Len(acks') = Len(acks) - 1 /\ Len(acks) \in Nat \ {0}
        /\ \A i \in 1 .. Len(acks') : acks'[i] = acks[i + 1] /\ i + 1 \in 1 .. Len(acks)
    <3>1. /\ Len(Tail(acks)) = Len(acks) - 1 /\ Len(acks) \in Nat \ {0}
          /\ \A i \in 1 .. Len(acks) - 1 : Tail(acks)[i] = acks[i + 1]
      BY <1>2, Retrait
    <3>2. acks' = Tail(acks)
      BY <1>2
    <3> HIDE <1>2
    <3>3. Len(acks') = Len(acks) - 1
      BY <3>1, <3>2
    <3>4. ASSUME NEW i \in 1 .. Len(acks')
          PROVE  acks'[i] = acks[i + 1] /\ i + 1 \in 1 .. Len(acks)
      <4>1. i \in 1 .. Len(acks) - 1
        BY <3>3
      <4>2. Tail(acks)[i] = acks[i + 1]
        BY <3>1, <4>1
      <4>3. acks'[i] = Tail(acks)[i]
        BY <3>2
      <4>4. i + 1 \in 1 .. Len(acks)
        BY <3>1, <4>1
      <4> QED BY <4>2, <4>3, <4>4
    <3> QED BY <3>1, <3>3, <3>4
  <2>2. Frais => Frais'
    BY <2>1 DEF Frais
  <2>3. ASSUME EnFile PROVE EnFile'
    <3> SUFFICES ASSUME NEW i \in 1 .. Len(acks'),
                        acks'[i].type = "balise", acks'[i].ed = editions
                 PROVE  /\ acks'[i].fp = source
                        /\ \A j \in 1 .. Len(acks') : i < j /\ acks'[j].type = "morceau"
                               => acks'[j].data = source[acks'[j].idx]
      BY DEF EnFile
    <3>1. /\ acks[i + 1].fp = source
          /\ \A j \in 1 .. Len(acks) : i + 1 < j /\ acks[j].type = "morceau"
                 => acks[j].data = source[acks[j].idx]
      BY <2>1, <2>3 DEF EnFile
    <3>2. acks'[i].fp = source
      BY <2>1, <3>1
    <3>3. ASSUME NEW j \in 1 .. Len(acks'), i < j, acks'[j].type = "morceau"
          PROVE  acks'[j].data = source[acks'[j].idx]
      <4>1. acks'[j] = acks[j + 1] /\ j + 1 \in 1 .. Len(acks) /\ i + 1 < j + 1
        BY <2>1, <3>3
      <4> QED BY <3>1, <3>3, <4>1
    <3> QED BY <3>2, <3>3
  <2> QED BY <2>1, <2>2, <2>3
<1> QED BY <1>1, <1>2

(***************************************************************************)
(* The first payload, if it is a beacon of this edition, names the         *)
(* dongle's keymap, and every chunk behind it is of that keymap.           *)
(***************************************************************************)
LEMMA TeteFraiche ==
  ASSUME SyncTypeOK, EnFile, acks # << >>, acks' = Tail(acks), UNCHANGED source,
         acks[1].type = "balise", acks[1].ed = editions
  PROVE  acks[1].fp = source /\ Frais'
<1>1. /\ Len(acks') = Len(acks) - 1 /\ Len(acks) \in Nat \ {0}
      /\ \A i \in 1 .. Len(acks') : acks'[i] = acks[i + 1] /\ i + 1 \in 1 .. Len(acks)
  BY Retrait
<1>2. /\ acks[1].fp = source
      /\ \A j \in 1 .. Len(acks) : 1 < j /\ acks[j].type = "morceau"
             => acks[j].data = source[acks[j].idx]
  BY <1>1 DEF EnFile
<1> QED BY <1>1, <1>2 DEF Frais

(***************************************************************************)
(* A payload is a beacon or a chunk.                                       *)
(***************************************************************************)
LEMMA ChargesSorted ==
  ASSUME NEW p \in Charges \cup {SansCharge}
  PROVE  /\ p.type = "balise" => p \in Balises
         /\ p.type = "morceau" => p \in Morceaux
  BY DEF Charges, Balises, Morceaux, SansCharge

(***************************************************************************)
(* keymap_pull_on_ack keeps the types, and a pull in progress has a next   *)
(* chunk.                                                                  *)
(***************************************************************************)
LEMMA Applique ==
  ASSUME SyncTypeOK, Tirage, NEW p \in Charges \cup {SansCharge}, NEW croise \in BOOLEAN,
         Appliquer(p, croise), p.type = "morceau" => suivant <= N
  PROVE  /\ tampon' \in Cartes /\ suivant' \in 0 .. N + 1
         /\ tire' \in BOOLEAN /\ cible' \in Cartes /\ complet' \in BOOLEAN
         /\ veto' \in BOOLEAN /\ debut' \in 0 .. MaxEditions /\ course' \in BOOLEAN
         /\ tire' => suivant' < N
<1>1. N \in Nat \ {0} /\ suivant \in 0 .. N + 1
  BY SizeAssumption DEF SyncTypeOK
<1>2. CASE Commencer(p, croise)
  <2>1. p \in Balises
    BY <1>2, ChargesSorted DEF Commencer
  <2>2. p.fp \in Cartes /\ p.ed \in 0 .. MaxEditions
    BY <2>1, Sortes
  <2>3. 0 \in 0 .. N + 1 /\ 0 < N
    BY <1>1
  <2> QED BY <1>2, <2>2, <2>3 DEF Commencer, SyncTypeOK
<1>3. CASE Accepter(p, croise)
  <2>1. p \in Morceaux /\ suivant <= N
    BY <1>3, ChargesSorted DEF Accepter
  <2>2. p.idx \in 0 .. N - 1 /\ p.data \in Valeurs
    BY <2>1, Sortes
  <2>3. tampon' \in Cartes
    BY <1>3, <2>2 DEF Accepter, SyncTypeOK, Cartes
  <2>4. suivant' = suivant + 1 /\ suivant' \in 0 .. N + 1
    BY <1>1, <1>3, <2>1 DEF Accepter
  <2>5. tire' \in BOOLEAN /\ complet' \in BOOLEAN
    BY <1>3 DEF Accepter, SyncTypeOK
  <2>6. tire' => suivant' < N
    <3>1. tire' = IF suivant' >= N THEN FALSE ELSE tire
      BY <1>3 DEF Accepter
    <3>2. tire' => ~(suivant' >= N)
      BY <3>1, Zenon
    <3>3. suivant' \in Int /\ N \in Int
      BY <1>1, <2>4
    <3> QED BY <3>2, <3>3
  <2> QED BY <1>3, <2>3, <2>4, <2>5, <2>6 DEF Accepter, SyncTypeOK
<1> QED BY <1>2, <1>3 DEF Appliquer

LEMMA AirSeul ==
  ASSUME SyncInv, UNCHANGED <<source, krx, scan, editions>>,
         \/ acks' = acks
         \/ acks # << >> /\ acks' = Tail(acks)
  PROVE  Datees' /\ EnFile' /\ EnMain' /\ Decide' /\ Tirage'
<1>1. /\ Frais => Frais'
      /\ EnFile'
      /\ \A i \in 1 .. Len(acks') : acks'[i].type = "balise" => acks'[i].ed <= editions
  BY FileAvance DEF SyncInv, Datees
<1>2. Datees'
  BY <1>1 DEF SyncInv, Datees, krx
<1>3. EnMain'
  BY <1>1 DEF SyncInv, EnMain, krx
<1>4. Decide' /\ Tirage'
  BY <1>1 DEF SyncInv, Decide, Tirage, krx
<1> QED BY <1>1, <1>2, <1>3, <1>4

(***************************************************************************)
(* A stuttering step.                                                      *)
(***************************************************************************)
LEMMA RienStep == ASSUME SyncInv, UNCHANGED syncVars PROVE SyncInv'
  BY DEF SyncInv, syncVars, dongle, radio, krx, SyncTypeOK, Datees,
         EnFile, EnMain, Decide, Tirage, Frais

(***************************************************************************)
(* A frame of the right half: what its acknowledgement takes is lost.      *)
(***************************************************************************)
LEMMA DroiteStep == ASSUME SyncInv, Droite PROVE SyncInv'
<1>1. PICK type \in {"droite", "gauche"} : Arriver([type |-> type])
  BY DEF Droite
<1> DEFINE t == [type |-> type]
<1>2. t \in Trames
  BY DEF Trames
<1>3. Emettre(t, EnTete)
  BY <1>1 DEF Emettre
<1> HIDE DEF t
<1>4. /\ recus' \in Seq(Trames) /\ Len(recus') <= RxCap
      /\ acks' \in Seq(Charges) /\ Len(acks') <= AckCap
      /\ \/ acks' = acks
         \/ acks # << >> /\ acks' = Tail(acks)
  BY <1>2, <1>3, Emission DEF SyncInv
<1>5. SyncTypeOK'
  BY <1>4 DEF SyncInv, SyncTypeOK, Droite, dongle, krx
<1>6. UNCHANGED <<source, krx, scan, editions>>
  BY DEF Droite, dongle
<1>7. Datees' /\ EnFile' /\ EnMain' /\ Decide' /\ Tirage'
  BY <1>4, <1>6, AirSeul
<1> QED BY <1>5, <1>7 DEF SyncInv

(***************************************************************************)
(* dongle_sync_ack_for answers with the keymap of the moment.              *)
(***************************************************************************)
LEMMA ReponseFraiche ==
  ASSUME SyncTypeOK, NEW t \in Trames
  PROVE  /\ Reponse(t) \in Charges
         /\ Reponse(t).type = "balise" => Reponse(t).fp = source /\ Reponse(t).ed = editions
         /\ Reponse(t).type = "morceau" => Reponse(t).data = source[Reponse(t).idx]
<1>1. CASE t.type = "req" /\ t.next < N
  <2>1. t.next \in 0 .. N - 1
    BY <1>1, SizeAssumption DEF Trames
  <2>2. source[t.next] \in Valeurs
    BY <2>1 DEF SyncTypeOK, Cartes
  <2>3. Reponse(t) = [type |-> "morceau", idx |-> t.next, data |-> source[t.next]]
    BY <1>1 DEF Reponse
  <2> QED BY <2>1, <2>2, <2>3 DEF Charges, Morceaux
<1>2. CASE ~(t.type = "req" /\ t.next < N)
  <2>1. Reponse(t) = [type |-> "balise", fp |-> source, ed |-> editions]
    BY <1>2 DEF Reponse, Balise
  <2>2. source \in Cartes /\ editions \in 0 .. MaxEditions
    BY DEF SyncTypeOK
  <2> QED BY <2>1, <2>2 DEF Charges, Balises
<1> QED BY <1>1, <1>2

(***************************************************************************)
(* drain_radio: the payload it loads is behind all the others, and fresh.  *)
(***************************************************************************)
LEMMA TraiterStep == ASSUME SyncInv, Traiter PROVE SyncInv'
<1> DEFINE t == Head(recus)
<1> DEFINE p == Reponse(t)
<1>1. /\ t \in Trames /\ Tail(recus) \in Seq(Trames) /\ Len(Tail(recus)) <= RxCap
      /\ acks \in Seq(Charges) /\ AckCap \in Nat /\ Len(acks) \in Nat
  <2>1. recus \in Seq(Trames) /\ recus # << >> /\ Len(recus) <= RxCap /\ RxCap \in Nat
    BY SizeAssumption DEF SyncInv, SyncTypeOK, Traiter
  <2>2. Len(recus) \in Nat /\ Len(Tail(recus)) = Len(recus) - 1
    BY <2>1
  <2> QED BY <2>1, <2>2, SizeAssumption DEF SyncInv, SyncTypeOK
<1>2. /\ p \in Charges
      /\ p.type = "balise" => p.fp = source /\ p.ed = editions
      /\ p.type = "morceau" => p.data = source[p.idx]
  BY <1>1, ReponseFraiche DEF SyncInv
<1>3. \/ acks' = acks
      \/ acks' = Append(acks, p) /\ Len(acks) < AckCap
  BY DEF Traiter, Charger
<1>4. annonce' \in Cartes /\ vue' \in BOOLEAN
  BY <1>1 DEF Traiter, SyncInv, SyncTypeOK, Trames
<1>5. UNCHANGED <<source, krx, scan, editions>> /\ recus' = Tail(recus)
  BY DEF Traiter
<1>6. CASE acks' = acks
  <2>1. Datees' /\ EnFile' /\ EnMain' /\ Decide' /\ Tirage'
    BY <1>5, <1>6, AirSeul
  <2>2. SyncTypeOK'
    BY <1>1, <1>4, <1>5, <1>6 DEF SyncInv, SyncTypeOK, Traiter, krx
  <2> QED BY <2>1, <2>2 DEF SyncInv
<1>7. CASE acks' = Append(acks, p) /\ Len(acks) < AckCap
  <2> HIDE DEF t, p
  <2>1. /\ acks' \in Seq(Charges) /\ Len(acks') = Len(acks) + 1 /\ Len(acks') <= AckCap
        /\ \A i \in 1 .. Len(acks) : acks'[i] = acks[i]
        /\ acks'[Len(acks')] = p
    BY <1>1, <1>2, <1>7
  <2>2. SyncTypeOK'
    BY <1>1, <1>4, <1>5, <2>1 DEF SyncInv, SyncTypeOK, Traiter, krx
  <2>3. Frais => Frais'
    BY <1>1, <1>2, <1>5, <2>1 DEF Frais
  <2>4. Datees'
    <3>1. editions <= editions
      BY DEF SyncInv, SyncTypeOK
    <3>2. \A i \in 1 .. Len(acks) : acks[i].type = "balise" => acks[i].ed <= editions
      BY DEF SyncInv, Datees
    <3>3. ASSUME NEW i \in 1 .. Len(acks'), acks'[i].type = "balise"
          PROVE  acks'[i].ed <= editions
      <4>1. CASE i \in 1 .. Len(acks)
        BY <2>1, <3>2, <3>3, <4>1
      <4>2. CASE i = Len(acks')
        BY <1>2, <2>1, <3>1, <3>3, <4>2
      <4> QED BY <1>1, <2>1, <4>1, <4>2
    <3> QED BY <1>5, <3>3 DEF SyncInv, Datees, krx
  <2>5. EnFile'
    <3> SUFFICES ASSUME NEW i \in 1 .. Len(acks'),
                        acks'[i].type = "balise", acks'[i].ed = editions
                 PROVE  /\ acks'[i].fp = source
                        /\ \A j \in 1 .. Len(acks') : i < j /\ acks'[j].type = "morceau"
                               => acks'[j].data = source[acks'[j].idx]
      BY <1>5 DEF EnFile
    <3>1. CASE i = Len(acks')
      BY <1>1, <1>2, <2>1, <3>1
    <3>2. CASE i # Len(acks')
      <4>1. i \in 1 .. Len(acks) /\ acks'[i] = acks[i]
        BY <1>1, <2>1, <3>2
      <4>2. /\ acks[i].fp = source
            /\ \A j \in 1 .. Len(acks) : i < j /\ acks[j].type = "morceau"
                   => acks[j].data = source[acks[j].idx]
        BY <4>1 DEF SyncInv, EnFile
      <4>3. ASSUME NEW j \in 1 .. Len(acks'), i < j, acks'[j].type = "morceau"
            PROVE  acks'[j].data = source[acks'[j].idx]
        <5>1. CASE j \in 1 .. Len(acks)
          BY <2>1, <4>2, <4>3, <5>1
        <5>2. CASE j = Len(acks')
          BY <1>2, <2>1, <4>3, <5>2
        <5> QED BY <1>1, <2>1, <5>1, <5>2
      <4> QED BY <4>1, <4>2, <4>3
    <3> QED BY <3>1, <3>2
  <2>6. EnMain'
    BY <1>5, <2>3 DEF SyncInv, EnMain, krx
  <2>7. Decide' /\ Tirage'
    BY <1>5, <2>3 DEF SyncInv, Decide, Tirage, krx
  <2> QED BY <2>2, <2>4, <2>5, <2>6, <2>7 DEF SyncInv
<1> QED BY <1>3, <1>6, <1>7

(***************************************************************************)
(* An edit: no beacon, and no pull, is of the new edition.                 *)
(***************************************************************************)
LEMMA EditerStep ==
  ASSUME SyncInv, NEW k \in 0 .. N - 1, NEW v \in Valeurs, Editer(k, v)
  PROVE  SyncInv'
<1>1. /\ editions \in 0 .. MaxEditions /\ editions < MaxEditions /\ editions' = editions + 1
      /\ UNCHANGED <<acks, krx, scan>>
  BY DEF SyncInv, SyncTypeOK, Editer, radio
<1>2. editions' \in 0 .. MaxEditions /\ source' \in Cartes
  BY <1>1, BoundAssumption DEF SyncInv, SyncTypeOK, Editer, Cartes
<1>3. SyncTypeOK'
  BY <1>2 DEF SyncInv, SyncTypeOK, Editer, radio, krx
<1>4. /\ acks \in Seq(Charges) /\ debut \in 0 .. MaxEditions
      /\ \A i \in 1 .. Len(acks) : acks[i].type = "balise" => acks[i].ed \in 0 .. MaxEditions
      /\ scan.ack.type = "balise" => scan.ack.ed \in 0 .. MaxEditions
  <2>1. scan.ack \in Charges \cup {SansCharge} /\ acks \in Seq(Charges) /\ debut \in 0 .. MaxEditions
    BY DEF SyncInv, SyncTypeOK
  <2>2. \A i \in 1 .. Len(acks) : acks[i] \in Charges
    BY <2>1
  <2> QED BY <2>1, <2>2, ChargesSorted, Sortes
<1>5. /\ debut < editions'
      /\ \A i \in 1 .. Len(acks) : acks[i].type = "balise" => acks[i].ed < editions'
      /\ scan.ack.type = "balise" => scan.ack.ed < editions'
  BY <1>1, <1>4 DEF SyncInv, Datees
<1>6. /\ debut <= editions' /\ debut # editions'
      /\ \A i \in 1 .. Len(acks) : acks[i].type = "balise" =>
             acks[i].ed <= editions' /\ acks[i].ed # editions'
      /\ scan.ack.type = "balise" => scan.ack.ed <= editions' /\ scan.ack.ed # editions'
  BY <1>1, <1>4, <1>5
<1>7. Datees' /\ EnFile'
  BY <1>1, <1>6 DEF Datees, EnFile, krx
<1>8. EnMain' /\ Decide' /\ Tirage'
  BY <1>1, <1>6 DEF SyncInv, EnMain, Decide, Tirage, krx
<1> QED BY <1>3, <1>7, <1>8 DEF SyncInv

(***************************************************************************)
(* A change of the left half: the scan takes what its acknowledgement      *)
(* brings.                                                                 *)
(***************************************************************************)
LEMMA TaperStep == ASSUME SyncInv, Taper PROVE SyncInv'
<1> DEFINE t == [type |-> "gauche"]
<1>1. PICK ack \in {EnTete, SansCharge} :
          /\ Emettre(t, ack)
          /\ scan' = IF ack = SansCharge THEN scan ELSE Etat("lire", ack, FALSE)
  BY DEF Taper
<1>2. t \in Trames
  BY DEF Trames
<1> HIDE DEF t
<1>3. /\ recus' \in Seq(Trames) /\ Len(recus') <= RxCap
      /\ acks' \in Seq(Charges) /\ Len(acks') <= AckCap
      /\ \/ acks' = acks /\ ack = SansCharge
         \/ /\ acks # << >> /\ acks' = Tail(acks)
            /\ ack \in {SansCharge, acks[1]}
      /\ ack \in Charges \cup {SansCharge}
  BY <1>1, <1>2, Emission DEF SyncInv
<1>4. UNCHANGED <<source, krx, editions, dongle, locale, nvs, ecrit, reboots, bonne>>
  BY DEF Taper, dongle
<1>5. CASE ack = SansCharge
  <2>1. UNCHANGED <<source, krx, scan, editions>>
    BY <1>1, <1>4, <1>5
  <2>2. Datees' /\ EnFile' /\ EnMain' /\ Decide' /\ Tirage'
    BY <1>3, <2>1, AirSeul
  <2>3. SyncTypeOK'
    BY <1>3, <1>4, <2>1 DEF SyncInv, SyncTypeOK, dongle, krx
  <2> QED BY <2>2, <2>3 DEF SyncInv
<1>6. CASE ack # SansCharge
  <2>1. /\ acks # << >> /\ acks' = Tail(acks) /\ ack = acks[1]
        /\ scan' = [pas |-> "lire", ack |-> ack, doublee |-> FALSE]
    BY <1>1, <1>3, <1>6 DEF Etat
  <2>2. SyncTypeOK'
    <3>1. scan' \in [pas : {"repos", "lire", "appliquer"}, ack : Charges \cup {SansCharge},
                     doublee : BOOLEAN]
      BY <1>3, <2>1
    <3> QED BY <1>3, <1>4, <3>1 DEF SyncInv, SyncTypeOK, dongle, krx
  <2>3. 1 \in 1 .. Len(acks)
    BY <2>1, Retrait DEF SyncInv
  <2>4. /\ Frais => Frais'
        /\ EnFile'
        /\ \A i \in 1 .. Len(acks') : acks'[i].type = "balise" => acks'[i].ed <= editions
    BY <1>4, <2>1, FileAvance DEF SyncInv, Datees
  <2>5. Datees'
    BY <1>4, <2>1, <2>3, <2>4 DEF SyncInv, Datees, krx
  <2>6. Tirage'
    BY <1>4, <2>4 DEF SyncInv, Tirage, krx
  <2>7. EnMain'
    <3>1. ack.type = "balise" /\ ack.ed = editions => ack.fp = source /\ Frais'
      BY <1>4, <2>1, TeteFraiche DEF SyncInv
    <3>2. ASSUME ack.type = "morceau", tire, debut = editions, ~course
          PROVE  ack.data = source[ack.idx]
      BY <2>1, <2>3, <3>2 DEF SyncInv, Tirage, Frais
    <3> QED BY <1>4, <2>1, <3>1, <3>2 DEF EnMain, krx
  <2>8. Decide'
    BY <2>1 DEF Decide
  <2> QED BY <2>2, <2>4, <2>5, <2>6, <2>7, <2>8 DEF SyncInv
<1> QED BY <1>5, <1>6

(***************************************************************************)
(* The scan decides: a chunk it keeps is the next one.                     *)
(***************************************************************************)
LEMMA ScanLireStep == ASSUME SyncInv, ScanLire PROVE SyncInv'
<1>1. /\ scan.pas = "lire"
      /\ UNCHANGED <<dongle, radio, locale, nvs, krx, ecrit, editions, reboots, bonne>>
  BY DEF ScanLire
<1>2. scan \in [pas : {"repos", "lire", "appliquer"}, ack : Charges \cup {SansCharge},
                doublee : BOOLEAN]
  BY DEF SyncInv, SyncTypeOK
<1>3. Frais' = Frais /\ EnFile'
  BY <1>1 DEF SyncInv, Frais, EnFile, radio, dongle
<1>4. Tirage'
  BY <1>1, <1>3 DEF SyncInv, Tirage, krx, dongle
<1>5. CASE Retenue(scan.ack)
  <2>1. scan' = [pas |-> "appliquer", ack |-> scan.ack, doublee |-> scan.doublee]
    BY <1>5 DEF ScanLire, Etat
  <2>2. SyncTypeOK'
    BY <1>1, <1>2, <2>1 DEF SyncInv, SyncTypeOK, dongle, radio, krx
  <2>3. Datees'
    BY <1>1, <2>1 DEF SyncInv, Datees, krx, radio
  <2>4. EnMain'
    BY <1>1, <1>3, <2>1 DEF SyncInv, EnMain, krx, dongle
  <2>5. Decide'
    <3>1. scan.ack.type = "morceau" => tire /\ suivant < N /\ scan.ack.idx = suivant
      BY <1>5 DEF Retenue, Attendu
    <3>2. suivant < N => suivant <= N
      BY SizeAssumption DEF SyncInv, SyncTypeOK
    <3> QED BY <1>1, <2>1, <3>1, <3>2 DEF Decide, krx
  <2> QED BY <1>3, <1>4, <2>2, <2>3, <2>4, <2>5 DEF SyncInv
<1>6. CASE ~Retenue(scan.ack)
  <2>1. scan' = [pas |-> "repos", ack |-> SansCharge, doublee |-> FALSE]
    BY <1>6 DEF ScanLire, AuRepos, Etat
  <2>2. SyncTypeOK'
    BY <1>1, <2>1 DEF SyncInv, SyncTypeOK, dongle, radio, krx
  <2>3. Datees' /\ EnMain' /\ Decide'
    BY <1>1, <2>1, Sortes DEF SyncInv, Datees, EnMain, Decide, krx, radio
  <2> QED BY <1>3, <1>4, <2>2, <2>3 DEF SyncInv
<1> QED BY <1>5, <1>6

(***************************************************************************)
(* The scan does what it decided.  Had the timer handled an                *)
(* acknowledgement in between, course would say so.                        *)
(***************************************************************************)
LEMMA ScanAppliquerStep == ASSUME SyncInv, ScanAppliquer PROVE SyncInv'
<1> DEFINE p == scan.ack
<1>1. /\ scan.pas = "appliquer" /\ Appliquer(p, FALSE)
      /\ scan' = [pas |-> "repos", ack |-> SansCharge, doublee |-> FALSE]
      /\ UNCHANGED <<dongle, radio, locale, nvs, ecrit, editions, reboots, bonne>>
  BY DEF ScanAppliquer, AuRepos, Etat
<1>2. p \in Charges \cup {SansCharge}
  BY DEF SyncInv, SyncTypeOK
<1>3. p.type = "morceau" => suivant <= N /\ (~course => tire /\ p.idx = suivant)
  BY <1>1 DEF SyncInv, Decide
<1>4. /\ tampon' \in Cartes /\ suivant' \in 0 .. N + 1
      /\ tire' \in BOOLEAN /\ cible' \in Cartes /\ complet' \in BOOLEAN
      /\ veto' \in BOOLEAN /\ debut' \in 0 .. MaxEditions /\ course' \in BOOLEAN
      /\ tire' => suivant' < N
  BY <1>1, <1>2, <1>3, Applique DEF SyncInv
<1>5. Frais' = Frais /\ EnFile'
  BY <1>1 DEF SyncInv, Frais, EnFile, radio, dongle
<1>6. SyncTypeOK'
  BY <1>1, <1>4 DEF SyncInv, SyncTypeOK, dongle, radio
<1>7. EnMain' /\ Decide'
  BY <1>1 DEF EnMain, Decide
<1>8. debut' <= editions
  <2>1. CASE Commencer(p, FALSE)
    BY <2>1 DEF Commencer, SyncInv, Datees
  <2>2. CASE Accepter(p, FALSE)
    BY <2>2 DEF Accepter, SyncInv, Datees
  <2> QED BY <1>1, <2>1, <2>2 DEF Appliquer
<1>9. Datees'
  BY <1>1, <1>8, Sortes DEF SyncInv, Datees, radio
<1>10. Tirage'
  <2> SUFFICES ASSUME debut' = editions, ~course'
               PROVE  /\ cible' = source
                      /\ Frais
                      /\ \A i \in 0 .. N - 1 : i < suivant' => tampon'[i] = source[i]
    BY <1>1, <1>4, <1>5 DEF Tirage, dongle
  <2>1. CASE Commencer(p, FALSE)
    <3>1. p.type = "balise" /\ p.ed = editions /\ cible' = p.fp /\ suivant' = 0
      BY <2>1 DEF Commencer
    <3>2. p.fp = source /\ Frais
      BY <1>1, <3>1 DEF SyncInv, EnMain
    <3> QED BY <3>1, <3>2
  <2>2. CASE Accepter(p, FALSE)
    <3>1. /\ p.type = "morceau" /\ debut = editions /\ ~course /\ cible' = cible
          /\ tampon' = [tampon EXCEPT ![p.idx] = p.data] /\ suivant' = suivant + 1
      BY <2>2 DEF Accepter
    <3>2. tire /\ p.idx = suivant
      BY <1>3, <3>1
    <3>3. p.data = source[p.idx]
      BY <1>1, <3>1, <3>2 DEF SyncInv, EnMain
    <3>4. cible = source /\ Frais /\ \A i \in 0 .. N - 1 : i < suivant => tampon[i] = source[i]
      BY <3>1, <3>2 DEF SyncInv, Tirage
    <3>5. ASSUME NEW i \in 0 .. N - 1, i < suivant' PROVE tampon'[i] = source[i]
      <4>1. tampon \in [0 .. N - 1 -> Valeurs] /\ suivant \in 0 .. N + 1 /\ N \in Nat
        BY SizeAssumption DEF SyncInv, SyncTypeOK, Cartes
      <4>2. CASE i = suivant
        BY <3>1, <3>2, <3>3, <4>1, <4>2
      <4>3. CASE i < suivant
        BY <3>1, <3>2, <3>4, <4>1, <4>3
      <4> QED BY <3>1, <3>5, <4>1, <4>2, <4>3
    <3> QED BY <3>1, <3>4, <3>5
  <2> QED BY <1>1, <2>1, <2>2 DEF Appliquer
<1> QED BY <1>5, <1>6, <1>7, <1>9, <1>10 DEF SyncInv

(***************************************************************************)
(* A frame of the timer, with what it brings.  Passing the scan is noted.  *)
(***************************************************************************)
LEMMA EnvoyerStep ==
  ASSUME SyncInv, NEW t \in Trames, Envoyer(t),
         UNCHANGED <<dongle, locale, nvs, ecrit, editions, reboots, bonne>>
  PROVE  SyncInv'
<1>1. PICK ack \in {EnTete, SansCharge} :
          /\ Emettre(t, ack)
          /\ IF Retenue(ack) THEN Appliquer(ack, scan.pas # "repos")
             ELSE UNCHANGED krx
  BY DEF Envoyer
<1>2. /\ recus' \in Seq(Trames) /\ Len(recus') <= RxCap
      /\ acks' \in Seq(Charges) /\ Len(acks') <= AckCap
      /\ \/ acks' = acks /\ ack = SansCharge
         \/ /\ acks # << >> /\ acks' = Tail(acks)
            /\ ack \in {SansCharge, acks[1]}
      /\ ack \in Charges \cup {SansCharge}
  BY <1>1, Emission DEF SyncInv
<1>3. scan \in [pas : {"repos", "lire", "appliquer"}, ack : Charges \cup {SansCharge},
                doublee : BOOLEAN]
  BY DEF SyncInv, SyncTypeOK
<1>4. /\ scan' \in [pas : {"repos", "lire", "appliquer"}, ack : Charges \cup {SansCharge},
                    doublee : BOOLEAN]
      /\ scan'.pas = scan.pas /\ scan'.ack = scan.ack
  BY <1>3 DEF Envoyer, Etat
<1>5. /\ Frais => Frais'
      /\ EnFile'
      /\ \A i \in 1 .. Len(acks') : acks'[i].type = "balise" => acks'[i].ed <= editions
  BY <1>2, FileAvance DEF SyncInv, Datees, dongle
<1>6. UNCHANGED <<source, editions>>
  BY DEF dongle
<1>7. CASE ~Retenue(ack)
  <2>1. UNCHANGED krx
    BY <1>1, <1>7
  <2>2. SyncTypeOK'
    BY <1>2, <1>4, <2>1 DEF SyncInv, SyncTypeOK, dongle, krx
  <2>3. Datees'
    BY <1>4, <1>5, <1>6, <2>1 DEF SyncInv, Datees, krx
  <2>4. EnMain' /\ Decide' /\ Tirage'
    BY <1>4, <1>5, <1>6, <2>1 DEF SyncInv, EnMain, Decide, Tirage, krx
  <2> QED BY <1>5, <2>2, <2>3, <2>4 DEF SyncInv
<1>8. CASE Retenue(ack)
  <2> DEFINE croise == scan.pas # "repos"
  <2>1. Appliquer(ack, croise) /\ ack \in Charges \cup {SansCharge}
    BY <1>1, <1>2, <1>8
  <2>2. ack # SansCharge
    BY <1>8, Sortes DEF Retenue
  <2>3. acks # << >> /\ acks' = Tail(acks) /\ ack = acks[1] /\ 1 \in 1 .. Len(acks)
    BY <1>2, <2>2, Retrait DEF SyncInv
  <2>4. ack.type = "morceau" => tire /\ suivant < N /\ ack.idx = suivant
    BY <1>8 DEF Retenue, Attendu
  <2>5. suivant \in 0 .. N + 1 /\ N \in Nat
    BY SizeAssumption DEF SyncInv, SyncTypeOK
  <2>6. croise \in BOOLEAN /\ (ack.type = "morceau" => suivant <= N)
    BY <2>4, <2>5
  <2>7. /\ tampon' \in Cartes /\ suivant' \in 0 .. N + 1
        /\ tire' \in BOOLEAN /\ cible' \in Cartes /\ complet' \in BOOLEAN
        /\ veto' \in BOOLEAN /\ debut' \in 0 .. MaxEditions /\ course' \in BOOLEAN
        /\ tire' => suivant' < N
    BY <2>1, <2>6, Applique DEF SyncInv
  <2>8. SyncTypeOK'
    BY <1>2, <1>4, <2>7 DEF SyncInv, SyncTypeOK, dongle
  <2>9. debut' <= editions /\ (croise => course') /\ suivant' <= N
    <3>1. CASE Commencer(ack, croise)
      <4>1. ack.ed <= editions
        BY <2>3, <3>1 DEF SyncInv, Datees, Commencer
      <4>2. debut' = ack.ed /\ course' = croise /\ suivant' = 0
        BY <3>1 DEF Commencer
      <4>3. croise => course'
        BY <4>2, Zenon
      <4>4. 0 <= N
        BY <2>5
      <4> QED BY <4>1, <4>2, <4>3, <4>4
    <3>2. CASE Accepter(ack, croise)
      <4>1. course' = (course \/ croise) /\ debut' = debut /\ suivant' = suivant + 1
        BY <3>2 DEF Accepter
      <4>2. croise => course'
        BY <4>1, Zenon
      <4>3. suivant' <= N
        BY <2>4, <2>5, <3>2, <4>1 DEF Accepter
      <4> QED BY <4>1, <4>2, <4>3 DEF SyncInv, Datees
    <3> QED BY <2>1, <3>1, <3>2 DEF Appliquer
  <2>10. Datees'
    BY <1>4, <1>5, <1>6, <2>9 DEF SyncInv, Datees
  <2>11. EnMain'
    BY <1>4, <1>5, <1>6, <2>9 DEF SyncInv, EnMain
  <2>12. Decide'
    BY <1>4, <2>9 DEF Decide
  <2>13. Tirage'
    <3> SUFFICES ASSUME debut' = editions, ~course'
                 PROVE  /\ cible' = source
                        /\ Frais'
                        /\ \A i \in 0 .. N - 1 : i < suivant' => tampon'[i] = source[i]
      BY <1>6, <2>7 DEF Tirage
    <3>1. CASE Commencer(ack, croise)
      <4>1. ack.type = "balise" /\ ack.ed = editions /\ cible' = ack.fp /\ suivant' = 0
        BY <3>1 DEF Commencer
      <4>2. ack.fp = source /\ Frais'
        BY <1>6, <2>3, <4>1, TeteFraiche DEF SyncInv
      <4> QED BY <4>1, <4>2
    <3>2. CASE Accepter(ack, croise)
      <4>1. /\ ack.type = "morceau" /\ debut = editions /\ ~course /\ cible' = cible
            /\ tampon' = [tampon EXCEPT ![ack.idx] = ack.data] /\ suivant' = suivant + 1
        BY <3>2 DEF Accepter
      <4>2. tire /\ ack.idx = suivant
        BY <2>4, <4>1
      <4>3. cible = source /\ Frais /\ \A i \in 0 .. N - 1 : i < suivant => tampon[i] = source[i]
        BY <4>1, <4>2 DEF SyncInv, Tirage
      <4>4. ack.data = source[ack.idx]
        BY <2>3, <4>1, <4>3 DEF Frais
      <4>5. ASSUME NEW i \in 0 .. N - 1, i < suivant' PROVE tampon'[i] = source[i]
        <5>1. tampon \in [0 .. N - 1 -> Valeurs]
          BY DEF SyncInv, SyncTypeOK, Cartes
        <5>2. CASE i = suivant
          BY <4>1, <4>2, <4>4, <5>1, <5>2
        <5>3. CASE i < suivant
          BY <4>1, <4>2, <4>3, <5>1, <5>3
        <5> QED BY <2>5, <4>1, <4>5, <5>2, <5>3
      <4> QED BY <1>5, <4>1, <4>3, <4>5
    <3> QED BY <2>1, <3>1, <3>2 DEF Appliquer
  <2> QED BY <1>5, <2>8, <2>10, <2>11, <2>12, <2>13 DEF SyncInv
<1> QED BY <1>7, <1>8

(***************************************************************************)
(* The timer's three frames.                                               *)
(***************************************************************************)
LEMMA MinuterieStep ==
  ASSUME SyncInv, Demander \/ Reaffirmer \/ AnnoncerMode
  PROVE  SyncInv'
<1>1. suivant \in 0 .. N + 1 /\ N \in Nat /\ locale \in Cartes /\ (tire => suivant < N)
  BY SizeAssumption DEF SyncInv, SyncTypeOK, Tirage
<1>2. /\ tire => [type |-> "req", next |-> suivant] \in Trames
      /\ [type |-> "gauche"] \in Trames
      /\ [type |-> "status", fp |-> locale] \in Trames
  <2>1. tire => suivant \in 0 .. N
    BY <1>1
  <2> QED BY <1>1, <2>1 DEF Trames
<1>3. CASE Demander
  BY <1>2, <1>3, EnvoyerStep DEF Demander
<1>4. CASE Reaffirmer
  BY <1>2, <1>4, EnvoyerStep DEF Reaffirmer
<1>5. CASE AnnoncerMode
  BY <1>2, <1>5, EnvoyerStep DEF AnnoncerMode
<1> QED BY <1>3, <1>4, <1>5

(***************************************************************************)
(* The copy, and the save.                                                 *)
(***************************************************************************)
LEMMA CopieStep == ASSUME SyncInv, Copier \/ Sauver PROVE SyncInv'
<1>1. CASE Copier
  <2>1. /\ UNCHANGED <<dongle, radio, nvs, tampon, suivant, tire, cible, veto, debut, course,
                       scan, editions, reboots, bonne>>
        /\ locale' = tampon /\ complet /\ complet' = FALSE /\ ecrit' = TRUE
    BY <1>1 DEF Copier
  <2>2. SyncTypeOK'
    BY <2>1 DEF SyncInv, SyncTypeOK, dongle, radio
  <2>3. Frais' = Frais /\ EnFile' /\ Datees'
    BY <2>1 DEF SyncInv, Frais, EnFile, Datees, dongle, radio
  <2>4. EnMain' /\ Decide' /\ Tirage'
    BY <2>1, <2>3 DEF SyncInv, EnMain, Decide, Tirage, dongle
  <2> QED BY <2>2, <2>3, <2>4 DEF SyncInv
<1>2. CASE Sauver
  <2>1. /\ UNCHANGED <<dongle, radio, locale, tampon, suivant, tire, cible, complet, debut,
                       course, scan, editions, reboots, bonne>>
        /\ nvs' \in {locale, nvs} /\ veto' = FALSE /\ ecrit' = FALSE
    BY <1>2 DEF Sauver
  <2>2. SyncTypeOK'
    BY <2>1 DEF SyncInv, SyncTypeOK, dongle, radio
  <2>3. Frais' = Frais /\ EnFile' /\ Datees'
    BY <2>1 DEF SyncInv, Frais, EnFile, Datees, dongle, radio
  <2>4. EnMain' /\ Decide' /\ Tirage'
    BY <2>1, <2>3 DEF SyncInv, EnMain, Decide, Tirage, dongle
  <2> QED BY <2>2, <2>3, <2>4 DEF SyncInv
<1> QED BY <1>1, <1>2

(***************************************************************************)
(* A reboot of either end.                                                 *)
(***************************************************************************)
LEMMA RebootStep ==
  ASSUME SyncInv, RedemarrerGauche \/ RedemarrerDongle
  PROVE  SyncInv'
<1>1. reboots' \in 0 .. MaxReboots
  BY BoundAssumption DEF SyncInv, SyncTypeOK, RedemarrerGauche, RedemarrerDongle
<1>2. CASE RedemarrerGauche
  <2>1. /\ UNCHANGED <<dongle, radio, nvs, editions, bonne>>
        /\ scan' = [pas |-> "repos", ack |-> SansCharge, doublee |-> FALSE]
        /\ locale' = nvs /\ tampon' = Depart /\ suivant' = 0
        /\ tire' = FALSE /\ cible' = Depart /\ complet' = FALSE /\ veto' = FALSE
        /\ debut' = 0 /\ course' = FALSE /\ ecrit' = FALSE
    BY <1>2 DEF RedemarrerGauche, AuRepos, Etat
  <2>2. 0 \in 0 .. N + 1 /\ 0 \in 0 .. MaxEditions /\ 0 <= editions
    BY SizeAssumption, BoundAssumption DEF SyncInv, SyncTypeOK
  <2>3. SyncTypeOK'
    BY <1>1, <2>1, <2>2, DepartAssumption DEF SyncInv, SyncTypeOK, dongle, radio
  <2>4. EnFile' /\ Datees'
    BY <2>1, <2>2, Sortes DEF SyncInv, EnFile, Datees, dongle, radio
  <2>5. EnMain' /\ Decide' /\ Tirage'
    BY <2>1 DEF EnMain, Decide, Tirage
  <2> QED BY <2>3, <2>4, <2>5 DEF SyncInv
<1>3. CASE RedemarrerDongle
  <2>1. /\ UNCHANGED <<source, locale, nvs, krx, scan, ecrit, editions, bonne>>
        /\ vue' = FALSE /\ annonce' = Depart /\ recus' = << >> /\ acks' = << >>
    BY <1>3 DEF RedemarrerDongle
  <2>2. /\ recus' \in Seq(Trames) /\ Len(recus') <= RxCap
        /\ acks' \in Seq(Charges) /\ Len(acks') <= AckCap /\ Len(acks') = 0
    BY <2>1, SizeAssumption
  <2>3. SyncTypeOK'
    BY <1>1, <2>1, <2>2, DepartAssumption DEF SyncInv, SyncTypeOK, krx
  <2>4. Frais' /\ EnFile'
    BY <2>2 DEF Frais, EnFile
  <2>5. Datees'
    BY <2>1, <2>2 DEF SyncInv, Datees, krx
  <2>6. EnMain' /\ Decide' /\ Tirage'
    BY <2>1, <2>4 DEF SyncInv, EnMain, Decide, Tirage, krx
  <2> QED BY <2>3, <2>4, <2>5, <2>6 DEF SyncInv
<1> QED BY <1>2, <1>3

(***************************************************************************)
(* The last disjunct of Next.                                              *)
(***************************************************************************)
LEMMA CalmerStep == ASSUME SyncInv, Calmer PROVE SyncInv'
  BY DEF Calmer, SyncInv, dongle, radio, krx, SyncTypeOK, Datees,
         EnFile, EnMain, Decide, Tirage, Frais

(***************************************************************************)
(* The invariant is inductive.                                             *)
(***************************************************************************)
LEMMA SyncInvNext == ASSUME SyncInv, [SyncNext]_syncVars PROVE SyncInv'
<1>1. CASE UNCHANGED syncVars
  BY <1>1, RienStep
<1>2. CASE SyncNext
  <2>1. ASSUME NEW k \in 0 .. N - 1, NEW v \in Valeurs, Editer(k, v) PROVE SyncInv'
    BY <2>1, EditerStep
  <2>2. CASE Droite \/ Traiter \/ Taper \/ ScanLire \/ ScanAppliquer
    BY <2>2, DroiteStep, TraiterStep, TaperStep, ScanLireStep, ScanAppliquerStep
  <2>3. CASE Demander \/ Reaffirmer \/ AnnoncerMode \/ Copier \/ Sauver
    BY <2>3, MinuterieStep, CopieStep
  <2>4. CASE RedemarrerGauche \/ RedemarrerDongle \/ Calmer
    BY <2>4, RebootStep, CalmerStep
  <2> QED BY <1>2, <2>1, <2>2, <2>3, <2>4 DEF SyncNext
<1> QED BY <1>1, <1>2

(***************************************************************************)
(* What it says of what has been pulled.                                   *)
(***************************************************************************)
LEMMA SyncPulled == ASSUME SyncInv PROVE PulledIsTarget
<1>1. SyncTypeOK
  BY DEF SyncInv
<1>2. ASSUME tire \/ complet, debut = editions, ~course
      PROVE  \A i \in 0 .. N - 1 : i < suivant => tampon[i] = cible[i]
  BY <1>2 DEF SyncInv, Tirage
<1> QED BY <1>1, <1>2 DEF PulledIsTarget

(***************************************************************************)
(* For every number of chunks, every queue and every keymap, what the left *)
(* half has gathered is the keymap the beacon announced, as long as the    *)
(* dongle's was not edited since and the timer did not pass the scan       *)
(* (keymap_sync.h).                                                        *)
(***************************************************************************)
THEOREM PulledAlways == SyncSpec => []PulledIsTarget
<1>1. SyncInit => SyncInv
  BY SyncInvInit
<1>2. SyncInv /\ [SyncNext]_syncVars => SyncInv'
  BY SyncInvNext
<1>3. SyncInv => PulledIsTarget
  BY SyncPulled
<1> QED BY <1>1, <1>2, <1>3, PTL DEF SyncSpec

===============================================================================
