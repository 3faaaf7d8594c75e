-------------------------- MODULE SecurityKey_proofs --------------------------
(***************************************************************************)
(* Proofs about SecurityKey: the counters of PINs and signatures survive   *)
(* being unplugged between any two writes, and a key is used only after    *)
(* its PIN and its touch.  Both rest on what the worker is doing (Etapes): *)
(* which writes are left, for which command, before which answer.          *)
(***************************************************************************)
EXTENDS SecurityKey, TLAPS

-----------------------------------------------------------------------------
(***************************************************************************)
(* The inductive invariant.                                                *)
(***************************************************************************)
PinsType == [essais : [Refs -> 0 .. Essais], pin : [Refs -> Pins]]
ClesType == [Slots -> BOOLEAN]
DosType == [uif : [Slots -> BOOLEAN], multi : BOOLEAN, ds : Nat]

\* What may be left to write: of a wipe, a data object, a PIN, a key, a
\* signature.
Suites ==
    {<<>>, <<"cles", "pins", "dos">>, <<"pins", "dos">>, <<"dos">>, <<"pins">>,
     <<"cles", "zero">>, <<"zero">>, <<"cles">>, <<"plus">>, <<"pose">>}

CarteType ==
    [sel : BOOLEAN, fini : BOOLEAN, v81 : BOOLEAN, v82 : BOOLEAN, v83 : BOOLEAN,
     pins : PinsType, cles : ClesType, dos : DosType]
NvsType == [pins : PinsType, cles : ClesType, dos : DosType]
WType ==
    [pc : {"attend", "apdu", "touche", "signe", "ecrit", "repond"}, n : Int,
     cmd : Commandes, suite : Suites, genre : {"aucun", "signe"} \cup Refs]
ConfType ==
    [etat : {"idle", "pending", "authorized"}, age : 0 .. Attente, lu : BOOLEAN]
UsbType ==
    [ouvert : BOOLEAN, amorce : BOOLEAN, finale : BOOLEAN,
     entree : {"libre", "wtx", "rep", "zlp"}, ecrit : [seq : Int, n : Int],
     file : Seq({"wtx", "rep"}), reprises : Nat, sem : BOOLEAN,
     tampon : [n : Int, cmd : Commandes], seq : Int]
ResteType ==
    [commandes : Int, parmi : SUBSET Ordres, pannes : Int, coupures : Int, resets : Int]
VuType ==
    [faux : [Refs -> Nat], signees : Int, preuve : SUBSET {81, 82, 83}, seules : {0, 1},
     touche : BOOLEAN, panne : BOOLEAN, chevauche : BOOLEAN, trompe : BOOLEAN,
     lache : BOOLEAN]

Types ==
    /\ carte \in CarteType /\ nvs \in NvsType /\ w \in WType /\ conf \in ConfType
    /\ usb \in UsbType /\ hote \in {"libre", "attend"}
    /\ reste \in ResteType /\ vu \in VuType

\* Where the worker is says what is left to write, and what it will answer.
Etapes ==
    /\ w.pc = "ecrit" <=> w.suite # <<>>
    /\ w.genre # "aucun" => w.pc \in {"ecrit", "repond"}
    /\ w.genre = "signe" => w.suite \in {<<"plus">>, <<>>}
    /\ w.suite = <<"plus">> => w.genre = "signe"
    /\ w.suite = <<"cles", "pins", "dos">> => w.cmd.ins # "cle"
    /\ w.suite = <<"cles", "zero">> => w.cmd.ins = "cle" /\ w.cmd.slot = "sig"
    /\ w.suite = <<"cles">> => w.cmd.ins = "cle"
    /\ w.suite = <<"pose">> => w.cmd.ins = "compteur"

\* A wrong PIN is taken from the tries before it is told, in the memory as in
\* the store, which is the memory but for the write that is left.
Comptes ==
    ~vu.panne =>
        /\ \A q \in Refs :
              /\ vu.faux[q] + (IF w.genre = q THEN 1 ELSE 0) + carte.pins.essais[q] <= Essais
              /\ vu.faux[q] + nvs.pins.essais[q] <= Essais
        /\ w.suite \notin {<<"cles", "pins", "dos">>, <<"pins", "dos">>, <<"pins">>}
              => nvs.pins = carte.pins

\* A signature is counted in the store, from the base, before it is handed out; the counter
\* of the memory is that of the store, except in a wipe, which takes the keys
\* away first.
Signatures ==
    ~vu.panne =>
        /\ vu.signees + (IF w.genre = "signe" /\ w.pc = "repond" THEN 1 ELSE 0)
              <= nvs.dos.ds
        /\ w.suite = <<"zero">> => vu.signees = 0
        /\ \/ carte.dos.ds = nvs.dos.ds
           \/ /\ carte.dos.ds = 0
              /\ \/ w.suite = <<"cles", "pins", "dos">>
                 \/ w.suite \in {<<"pins", "dos">>, <<"dos">>} /\ vu.signees = 0

\* What the card holds for verified was shown, and what an operation waits
\* for was given since it waits.
Usage ==
    /\ carte.v81 => 81 \in vu.preuve /\ vu.seules = 0
    /\ carte.v82 => 82 \in vu.preuve
    /\ w.pc \in {"touche", "signe"} =>
          /\ w.cmd.ins = "utiliser"
          /\ IF w.cmd.slot = "sig" THEN carte.v81 ELSE carte.v82
    /\ w.pc = "touche" /\ (conf.lu \/ conf.etat = "authorized") => vu.touche
    /\ w.pc = "signe" /\ carte.dos.uif[w.cmd.slot] => vu.touche

Inv == Types /\ Etapes /\ Comptes /\ Signatures /\ Usage
-----------------------------------------------------------------------------
(***************************************************************************)
(* Lemmas.                                                                 *)
(***************************************************************************)
\* What is written first, and what is left then.
LEMMA Morceaux ==
    /\ Head(<<"cles", "pins", "dos">>) = "cles"
    /\ Tail(<<"cles", "pins", "dos">>) = <<"pins", "dos">>
    /\ Head(<<"pins", "dos">>) = "pins" /\ Tail(<<"pins", "dos">>) = <<"dos">>
    /\ Head(<<"cles", "zero">>) = "cles" /\ Tail(<<"cles", "zero">>) = <<"zero">>
    /\ Head(<<"dos">>) = "dos" /\ Tail(<<"dos">>) = <<>>
    /\ Head(<<"pins">>) = "pins" /\ Tail(<<"pins">>) = <<>>
    /\ Head(<<"zero">>) = "zero" /\ Tail(<<"zero">>) = <<>>
    /\ Head(<<"cles">>) = "cles" /\ Tail(<<"cles">>) = <<>>
    /\ Head(<<"plus">>) = "plus" /\ Tail(<<"plus">>) = <<>>
    /\ Head(<<"pose">>) = "pose" /\ Tail(<<"pose">>) = <<>>
OBVIOUS

LEMMA Delais == Tour \in Nat /\ Essais \in Nat /\ Attente \in Nat /\ 0 \in 0 .. Attente
BY DelaysAssumption

\* The parameters of a command.
LEMMA Parametres ==
    ASSUME NEW k \in Commandes
    PROVE  /\ k.ins \in Ordres
           /\ k.ins = "verify" => k.p2 \in {81, 82, 83} /\ k.pin \in Pins
           /\ k.ins = "change" => k.ref \in Refs /\ k.ancien \in Pins /\ k.nouveau \in Pins
           /\ k.ins \in {"uif", "cle", "utiliser"} => k.slot \in Slots
           /\ k.ins = "uif" => k.on \in BOOLEAN
           /\ k.ins = "c4" => k.multi \in BOOLEAN
           /\ k.ins = "compteur" => k.valeur \in Nat
BY DEF Commandes, Ordres
\* The worker goes on to the writes of a suite, then to its answer.
LEMMA EnsuiteDit ==
    ASSUME Types, NEW s \in Suites, NEW g \in {"aucun", "signe"} \cup Refs, Ensuite(s, g)
    PROVE  /\ w' \in WType /\ w'.suite = s /\ w'.genre = g /\ w'.cmd = w.cmd
           /\ w'.pc = IF s = <<>> THEN "repond" ELSE "ecrit"
BY DEF Types, WType, Ensuite

\* Nothing is written and nothing is told of the counters: the command ends
\* there.
LEMMA Rendre ==
    ASSUME Inv, w.pc \in {"apdu", "touche"}, Ensuite(<<>>, "aucun"),
           UNCHANGED <<carte, nvs, vu>>
    PROVE  w' \in WType /\ Etapes' /\ Comptes' /\ Signatures' /\ Usage'
<1>1. /\ w' \in WType /\ w'.suite = <<>> /\ w'.genre = "aucun" /\ w'.pc = "repond"
  BY EnsuiteDit DEF Inv, Suites
<1>2. w.suite = <<>> /\ w.genre = "aucun"
  BY DEF Inv, Etapes, Types, WType
<1>3. Etapes'
  BY <1>1 DEF Etapes
<1>4. Comptes'
  BY <1>1, <1>2 DEF Inv, Comptes, Refs
<1>5. Signatures'
  BY <1>1, <1>2 DEF Inv, Signatures, Suites
<1>6. Usage'
  BY <1>1 DEF Inv, Usage
<1>. QED  BY <1>1, <1>3, <1>4, <1>5, <1>6

LEMMA RefuserInv == Inv /\ Refuser => Inv'
<1>. SUFFICES ASSUME Inv, Refuser PROVE Inv'
  OBVIOUS
<1>1. w' \in WType /\ Etapes' /\ Comptes' /\ Signatures' /\ Usage'
  BY Rendre DEF Refuser
<1>2. Types'
  BY <1>1 DEF Refuser, Inv, Types
<1>. QED  BY <1>1, <1>2 DEF Inv

LEMMA SelectInv == Inv /\ Select => Inv'
<1>. SUFFICES ASSUME Inv, Select PROVE Inv'
  OBVIOUS
<1>1. /\ w' \in WType /\ w'.suite = <<>> /\ w'.genre = "aucun" /\ w'.pc = "repond"
      /\ w.pc = "apdu" /\ w.suite = <<>> /\ w.genre = "aucun"
  BY EnsuiteDit DEF Select, Commande, Inv, Suites, Etapes, Types, WType
<1>2. /\ carte' \in CarteType /\ vu' \in VuType
      /\ carte'.pins = carte.pins /\ carte'.dos = carte.dos
      /\ ~carte'.v81 /\ ~carte'.v82
      /\ vu'.faux = vu.faux /\ vu'.signees = vu.signees /\ vu'.panne = vu.panne
  BY DEF Select, Inv, Types, CarteType, VuType
<1>3. Types'
  BY <1>1, <1>2 DEF Select, Inv, Types
<1>4. Etapes'
  BY <1>1 DEF Etapes
<1>5. Comptes' /\ Signatures'
  BY <1>1, <1>2 DEF Select, Inv, Comptes, Signatures, Refs
<1>6. Usage'
  BY <1>1, <1>2 DEF Usage
<1>. QED  BY <1>3, <1>4, <1>5, <1>6 DEF Inv

\* A wipe takes everything away from the memory at once, and writes it after.
LEMMA ResetInv ==
    ASSUME Inv, NEW fini \in BOOLEAN, factory_reset(fini),
           w.pc = "apdu", w.cmd.ins # "cle"
    PROVE  Inv'
<1>1. /\ w' \in WType /\ w'.suite = <<"cles", "pins", "dos">> /\ w'.genre = "aucun"
      /\ w'.pc = "ecrit" /\ w'.cmd = w.cmd
  BY EnsuiteDit DEF factory_reset, Inv, Suites
<1>2. /\ carte' \in CarteType /\ ~carte'.v81 /\ ~carte'.v82
      /\ carte'.dos.ds = 0 /\ \A q \in Refs : carte'.pins.essais[q] = Essais
  <2>1. pins_factory \in PinsType /\ ensure_defaults \in DosType /\ SansCle \in ClesType
    BY DelaysAssumption DEF pins_factory, ensure_defaults, SansCle, PinsType, DosType,
                            ClesType, Pins, Usine
  <2>2. ensure_defaults.ds = 0 /\ \A q \in Refs : pins_factory.essais[q] = Essais
    BY DEF ensure_defaults, pins_factory
  <2>. QED  BY <2>1, <2>2 DEF factory_reset, Demarrer, CarteType
<1>3. /\ vu' \in VuType /\ vu'.faux = [q \in Refs |-> 0]
      /\ vu'.signees = vu.signees /\ vu'.panne = vu.panne
  BY DEF factory_reset, Inv, Types, VuType
<1>4. Types'
  BY <1>1, <1>2, <1>3 DEF factory_reset, Inv, Types
<1>5. Etapes'
  BY <1>1 DEF Etapes
<1>6. Comptes'
  <2>1. \A q \in Refs : nvs.pins.essais[q] \in 0 .. Essais
    BY DEF Inv, Types, NvsType, PinsType
  <2>. QED  BY <1>1, <1>2, <1>3, <2>1, DelaysAssumption DEF factory_reset, Comptes, Refs
<1>7. Signatures'
  BY <1>1, <1>2, <1>3 DEF factory_reset, Inv, Signatures, Types, VuType, NvsType, DosType
<1>8. Usage'
  BY <1>1, <1>2 DEF Usage
<1>. QED  BY <1>4, <1>5, <1>6, <1>7, <1>8 DEF Inv
\* A wrong PIN: the try is taken, and its write is left.
LEMMA MauvaisInv ==
    ASSUME Inv, w.pc = "apdu", NEW q \in Refs, carte.pins.essais[q] > 0, Mauvais(q),
           UNCHANGED <<nvs, conf, usb, hote, reste>>
    PROVE  Inv'
<1>1. /\ w' \in WType /\ w'.suite = <<"pins">> /\ w'.genre = q
      /\ w'.pc = "ecrit" /\ w'.cmd = w.cmd /\ w.genre = "aucun" /\ w.suite = <<>>
  BY EnsuiteDit DEF Mauvais, Inv, Suites, Etapes, Types, WType
<1>2. /\ carte.pins.essais \in [Refs -> 0 .. Essais] /\ Essais \in Nat
      /\ vu.faux \in [Refs -> Nat]
  BY DelaysAssumption DEF Inv, Types, CarteType, PinsType, VuType
<1>3. /\ carte'.pins.essais = [carte.pins.essais EXCEPT ![q] = @ - 1]
      /\ carte'.v81 = carte.v81 /\ carte'.v82 = carte.v82 /\ carte'.dos = carte.dos
      /\ carte' \in CarteType
  BY <1>2 DEF Mauvais, Inv, Types, CarteType, PinsType
<1>4. Types'
  BY <1>1, <1>3 DEF Mauvais, Inv, Types
<1>5. Etapes'
  BY <1>1 DEF Etapes, Refs
<1>6. Comptes'
  <2>1. ASSUME NEW r \in Refs, ~vu.panne
        PROVE  vu.faux[r] + (IF q = r THEN 1 ELSE 0) + carte'.pins.essais[r] <= Essais
    <3>1. vu.faux[r] + 0 + carte.pins.essais[r] <= Essais
      BY <1>1, <2>1 DEF Inv, Comptes, Refs
    <3>. QED  BY <1>2, <1>3, <3>1
  <2>. QED  BY <1>1, <2>1 DEF Mauvais, Inv, Comptes
<1>7. Signatures'
  BY <1>1, <1>3 DEF Mauvais, Inv, Signatures, Refs
<1>8. Usage'
  BY <1>1, <1>3 DEF Mauvais, Inv, Usage
<1>. QED  BY <1>4, <1>5, <1>6, <1>7, <1>8 DEF Inv

LEMMA VerifyInv == Inv /\ Verify => Inv'
<1>. SUFFICES ASSUME Inv, Verify PROVE Inv'
  OBVIOUS
<1>. DEFINE q == RefDe(w.cmd.p2)
<1>1. /\ w.pc = "apdu" /\ w.cmd.ins = "verify" /\ w.cmd \in Commandes
      /\ q \in Refs /\ w.cmd.p2 \in {81, 82, 83} /\ carte.pins.essais[q] > 0
      /\ UNCHANGED <<nvs, conf, usb, hote, reste>>
  BY Parametres DEF Verify, Commande, Acceptee, RefDe, Refs, Inv, Types, WType
<1>2. CASE w.cmd.pin # carte.pins.pin[q]
  BY <1>1, <1>2, MauvaisInv DEF Verify
<1>3. CASE w.cmd.pin = carte.pins.pin[q]
  <2>. DEFINE suite == IF carte.pins.essais[q] = Essais THEN <<>> ELSE <<"pins">>
  <2>1. /\ w' \in WType /\ w'.suite = suite /\ w'.genre = "aucun"
        /\ w'.pc = IF suite = <<>> THEN "repond" ELSE "ecrit"
        /\ w'.cmd = w.cmd /\ w.genre = "aucun" /\ w.suite = <<>>
    BY <1>1, <1>3, EnsuiteDit DEF Verify, Inv, Suites, Etapes, Types, WType
  <2>2. /\ carte.pins.essais \in [Refs -> 0 .. Essais] /\ Essais \in Nat
        /\ vu.faux \in [Refs -> Nat]
        /\ nvs.pins.essais \in [Refs -> 0 .. Essais]
    BY DelaysAssumption DEF Inv, Types, CarteType, NvsType, PinsType, VuType
  <2>3. /\ carte'.pins.essais = [carte.pins.essais EXCEPT ![q] = Essais]
        /\ carte'.pins = [carte.pins EXCEPT !.essais = carte'.pins.essais]
        /\ carte'.v81 <=> carte.v81 \/ w.cmd.p2 = 81
        /\ carte'.v82 <=> carte.v82 \/ w.cmd.p2 = 82
        /\ carte'.dos = carte.dos
        /\ carte' \in CarteType
    <3>1. carte' = [carte EXCEPT !.pins.essais[q] = Essais,
                                 !.v81 = @ \/ w.cmd.p2 = 81,
                                 !.v82 = @ \/ w.cmd.p2 = 82,
                                 !.v83 = @ \/ w.cmd.p2 = 83]
      BY <1>3 DEF Verify
    <3>2. [carte.pins.essais EXCEPT ![q] = Essais] \in [Refs -> 0 .. Essais]
      BY <1>1, <2>2
    <3>. HIDE DEF q
    <3>. QED  BY <3>1, <3>2 DEF Inv, Types, CarteType, PinsType
  <2>4. /\ vu' \in VuType /\ vu'.faux = [vu.faux EXCEPT ![q] = 0]
        /\ vu'.preuve = vu.preuve \cup {w.cmd.p2}
        /\ vu'.seules = IF w.cmd.p2 = 81 THEN 0 ELSE vu.seules
        /\ vu'.signees = vu.signees /\ vu'.panne = vu.panne
    <3>1. vu' = [vu EXCEPT !.faux[q] = 0, !.preuve = @ \cup {w.cmd.p2},
                           !.seules = IF w.cmd.p2 = 81 THEN 0 ELSE @]
      BY <1>3 DEF Verify
    <3>2. [vu.faux EXCEPT ![q] = 0] \in [Refs -> Nat]
      BY <2>2
    <3>3. vu.preuve \cup {w.cmd.p2} \in SUBSET {81, 82, 83}
      BY <1>1 DEF Inv, Types, VuType
    <3>. HIDE DEF q
    <3>. QED  BY <3>1, <3>2, <3>3 DEF Inv, Types, VuType
  <2>5. Types'
    BY <1>1, <2>1, <2>3, <2>4 DEF Inv, Types
  <2>6. Etapes'
    BY <2>1 DEF Etapes
  <2>7. Comptes'
    <3>1. ASSUME NEW r \in Refs, ~vu.panne
          PROVE  /\ vu'.faux[r] + 0 + carte'.pins.essais[r] <= Essais
                 /\ vu'.faux[r] + nvs.pins.essais[r] <= Essais
      <4>1. /\ vu.faux[r] + 0 + carte.pins.essais[r] <= Essais
            /\ vu.faux[r] + nvs.pins.essais[r] <= Essais
        BY <2>1, <3>1 DEF Inv, Comptes, Refs
      <4>. QED  BY <1>1, <2>2, <2>3, <2>4, <4>1
    <3>2. ASSUME ~vu.panne, suite = <<>> PROVE carte'.pins = nvs.pins
      <4>1. carte.pins.essais[q] = Essais /\ nvs.pins = carte.pins
        BY <2>1, <3>2 DEF Inv, Comptes
      <4>2. carte'.pins.essais = carte.pins.essais
        BY <1>1, <2>2, <2>3, <4>1
      <4>. QED  BY <2>3, <4>1, <4>2 DEF Inv, Types, CarteType, PinsType
    <3>. QED  BY <1>1, <2>1, <2>4, <3>1, <3>2 DEF Comptes, Refs
  <2>8. Signatures'
    BY <1>1, <2>1, <2>3, <2>4 DEF Inv, Signatures
  <2>9. Usage'
    BY <2>1, <2>3, <2>4 DEF Inv, Usage
  <2>. QED  BY <2>5, <2>6, <2>7, <2>8, <2>9 DEF Inv
<1>. QED  BY <1>2, <1>3

LEMMA ChangeInv == Inv /\ Change => Inv'
<1>. SUFFICES ASSUME Inv, Change PROVE Inv'
  OBVIOUS
<1>. DEFINE q == w.cmd.ref
<1>1. /\ w.pc = "apdu" /\ w.cmd.ins = "change" /\ w.cmd \in Commandes
      /\ q \in Refs /\ w.cmd.nouveau \in Pins /\ carte.pins.essais[q] > 0
      /\ UNCHANGED <<nvs, conf, usb, hote, reste>>
  BY Parametres DEF Change, Commande, Acceptee, Inv, Types, WType
<1>2. CASE w.cmd.ancien # carte.pins.pin[q]
  BY <1>1, <1>2, MauvaisInv DEF Change
<1>3. CASE w.cmd.ancien = carte.pins.pin[q]
  <2>1. /\ w' \in WType /\ w'.suite = <<"pins">> /\ w'.genre = "aucun"
        /\ w'.pc = "ecrit" /\ w'.cmd = w.cmd /\ w.genre = "aucun" /\ w.suite = <<>>
    BY <1>1, <1>3, EnsuiteDit DEF Change, Inv, Suites, Etapes, Types, WType
  <2>2. /\ carte.pins.essais \in [Refs -> 0 .. Essais] /\ Essais \in Nat
        /\ vu.faux \in [Refs -> Nat]
        /\ nvs.pins.essais \in [Refs -> 0 .. Essais]
    BY DelaysAssumption DEF Inv, Types, CarteType, NvsType, PinsType, VuType
  <2>3. /\ carte'.pins.essais = [carte.pins.essais EXCEPT ![q] = Essais]
        /\ carte'.v81 <=> carte.v81 /\ q # "pw1"
        /\ carte'.v82 <=> carte.v82 /\ q # "pw1"
        /\ carte'.dos = carte.dos
        /\ carte' \in CarteType
    <3>. DEFINE p == [essais |-> [carte.pins.essais EXCEPT ![q] = Essais],
                      pin |-> [carte.pins.pin EXCEPT ![q] = w.cmd.nouveau]]
    <3>1. carte' = [carte EXCEPT !.pins = p, !.v81 = @ /\ q # "pw1",
                                 !.v82 = @ /\ q # "pw1", !.v83 = @ /\ q # "pw3"]
      BY <1>3 DEF Change
    <3>2. /\ [carte.pins.essais EXCEPT ![q] = Essais] \in [Refs -> 0 .. Essais]
          /\ [carte.pins.pin EXCEPT ![q] = w.cmd.nouveau] \in [Refs -> Pins]
      BY <1>1, <2>2 DEF Inv, Types, CarteType, PinsType
    <3>3. p \in PinsType /\ p.essais = [carte.pins.essais EXCEPT ![q] = Essais]
      BY <3>2 DEF PinsType
    <3>. HIDE DEF p, q
    <3>. QED  BY <3>1, <3>3 DEF Inv, Types, CarteType
  <2>4. /\ vu' \in VuType /\ vu'.faux = [vu.faux EXCEPT ![q] = 0]
        /\ q # "pw1" => vu.preuve \cap {81, 82} \subseteq vu'.preuve
        /\ vu'.seules = vu.seules
        /\ vu'.signees = vu.signees /\ vu'.panne = vu.panne
    <3>. DEFINE restant == vu.preuve \ (IF q = "pw1" THEN {81, 82} ELSE {83})
    <3>1. vu' = [vu EXCEPT !.faux[q] = 0, !.preuve = restant]
      BY <1>3 DEF Change
    <3>2. [vu.faux EXCEPT ![q] = 0] \in [Refs -> Nat]
      BY <2>2
    <3>3. /\ restant \in SUBSET {81, 82, 83}
          /\ q # "pw1" => vu.preuve \cap {81, 82} \subseteq restant
      BY DEF Inv, Types, VuType
    <3>. HIDE DEF q, restant
    <3>. QED  BY <3>1, <3>2, <3>3 DEF Inv, Types, VuType
  <2>5. Types'
    BY <1>1, <2>1, <2>3, <2>4 DEF Inv, Types
  <2>6. Etapes'
    BY <2>1 DEF Etapes
  <2>7. Comptes'
    <3>1. ASSUME NEW r \in Refs, ~vu.panne
          PROVE  /\ vu'.faux[r] + 0 + carte'.pins.essais[r] <= Essais
                 /\ vu'.faux[r] + nvs.pins.essais[r] <= Essais
      <4>1. /\ vu.faux[r] + 0 + carte.pins.essais[r] <= Essais
            /\ vu.faux[r] + nvs.pins.essais[r] <= Essais
        BY <2>1, <3>1 DEF Inv, Comptes, Refs
      <4>. QED  BY <1>1, <2>2, <2>3, <2>4, <4>1
    <3>. QED  BY <1>1, <2>1, <2>4, <3>1 DEF Comptes, Refs
  <2>8. Signatures'
    BY <1>1, <2>1, <2>3, <2>4 DEF Inv, Signatures
  <2>9. Usage'
    BY <2>1, <2>3, <2>4 DEF Inv, Usage
  <2>. QED  BY <2>5, <2>6, <2>7, <2>8, <2>9 DEF Inv
<1>. QED  BY <1>2, <1>3

\* D6 to D8 and C4 change under no operation that waits.
LEMMA MettreInv == Inv /\ Mettre => Inv'
<1>. SUFFICES ASSUME Inv, Mettre PROVE Inv'
  OBVIOUS
<1>1. /\ w' \in WType /\ w'.suite = <<"dos">> /\ w'.genre = "aucun"
      /\ w'.pc = "ecrit" /\ w'.cmd = w.cmd /\ w.genre = "aucun" /\ w.suite = <<>>
  BY EnsuiteDit DEF Mettre, Commande, Inv, Suites, Etapes, Types, WType
<1>2. /\ carte'.pins = carte.pins /\ carte'.v81 = carte.v81 /\ carte'.v82 = carte.v82
      /\ carte'.dos.ds = carte.dos.ds /\ carte' \in CarteType
  <2>1. w.cmd \in Commandes
    BY DEF Inv, Types, WType
  <2>. QED  BY <2>1, Parametres DEF Mettre, Commande, Inv, Types, CarteType, DosType
<1>3. Types'
  BY <1>1, <1>2 DEF Mettre, Inv, Types
<1>4. Etapes'
  BY <1>1 DEF Etapes
<1>5. Comptes'
  BY <1>1, <1>2 DEF Mettre, Inv, Comptes, Refs
<1>6. Signatures'
  BY <1>1, <1>2 DEF Mettre, Inv, Signatures
<1>7. Usage'
  BY <1>1, <1>2 DEF Mettre, Inv, Usage
<1>. QED  BY <1>3, <1>4, <1>5, <1>6, <1>7 DEF Inv

\* The counter is set in the memory and in the store by the write that is left.
LEMMA MettreCompteurInv == Inv /\ MettreCompteur => Inv'
<1>. SUFFICES ASSUME Inv, MettreCompteur PROVE Inv'
  OBVIOUS
<1>1. /\ w' \in WType /\ w'.suite = <<"pose">> /\ w'.genre = "aucun"
      /\ w'.pc = "ecrit" /\ w'.cmd = w.cmd /\ w.genre = "aucun" /\ w.suite = <<>>
      /\ w.cmd.ins = "compteur" /\ UNCHANGED <<carte, nvs, conf, usb, hote, reste, vu>>
  BY EnsuiteDit DEF MettreCompteur, Commande, Inv, Suites, Etapes, Types, WType
<1>2. Types' /\ Etapes'
  BY <1>1 DEF Inv, Types, Etapes
<1>3. Comptes'
  BY <1>1 DEF Inv, Comptes, Refs
<1>4. Signatures'
  BY <1>1 DEF Inv, Signatures
<1>5. Usage'
  BY <1>1 DEF Inv, Usage
<1>. QED  BY <1>2, <1>3, <1>4, <1>5 DEF Inv

LEMMA CleInv == Inv /\ Cle => Inv'
<1>. SUFFICES ASSUME Inv, Cle PROVE Inv'
  OBVIOUS
<1>1. /\ w' \in WType /\ w'.suite = SuiteDeCle(w.cmd.slot) /\ w'.genre = "aucun"
      /\ w'.pc = "ecrit" /\ w'.cmd = w.cmd /\ w.genre = "aucun" /\ w.suite = <<>>
      /\ w.cmd.ins = "cle"
  BY EnsuiteDit DEF Cle, Commande, Inv, Suites, SuiteDeCle, Etapes, Types, WType
<1>2. /\ carte'.pins = carte.pins /\ carte'.v81 = carte.v81 /\ carte'.v82 = carte.v82
      /\ carte'.dos = carte.dos /\ carte' \in CarteType
  BY DEF Cle, Inv, Types, CarteType, ClesType
<1>3. Types'
  BY <1>1, <1>2 DEF Cle, Inv, Types
<1>4. Etapes'
  BY <1>1 DEF Etapes, SuiteDeCle
<1>5. Comptes'
  BY <1>1, <1>2 DEF Cle, Inv, Comptes, Refs, SuiteDeCle
<1>6. Signatures'
  BY <1>1, <1>2 DEF Cle, Inv, Signatures, SuiteDeCle
<1>7. Usage'
  BY <1>1, <1>2 DEF Cle, Inv, Usage
<1>. QED  BY <1>3, <1>4, <1>5, <1>6, <1>7 DEF Inv
-----------------------------------------------------------------------------
(***************************************************************************)
(* The touch and the use of a key.                                         *)
(***************************************************************************)
\* What the worker does without a change of what is counted.
LEMMA SansCompter ==
    ASSUME Inv, w'.suite = w.suite, w'.genre = w.genre, w'.pc = "repond" => w.pc = "repond",
           UNCHANGED <<carte, nvs>>, vu'.faux = vu.faux, vu'.signees = vu.signees,
           vu'.panne = vu.panne
    PROVE  Comptes' /\ Signatures'
<1>1. Comptes'
  BY DEF Inv, Comptes
<1>2. Signatures'
  <2>1. w'.genre = "signe" /\ w'.pc = "repond" => w.genre = "signe" /\ w.pc = "repond"
    OBVIOUS
  <2>2. vu.signees \in Int /\ nvs.dos.ds \in Nat
    BY DEF Inv, Types, VuType, NvsType, DosType
  <2>. QED  BY <2>1, <2>2 DEF Inv, Signatures
<1>. QED  BY <1>1, <1>2

\* An operation starts with its PIN shown; the touch it asks for is of after.
LEMMA UtiliserInv == Inv /\ Utiliser => Inv'
<1>. SUFFICES ASSUME Inv, Utiliser PROVE Inv'
  OBVIOUS
<1>1. /\ w.pc = "apdu" /\ w.cmd.ins = "utiliser" /\ w.suite = <<>>
      /\ w.genre = "aucun"
      /\ IF w.cmd.slot = "sig" THEN carte.v81 ELSE carte.v82
      /\ UNCHANGED <<carte, nvs, usb, hote, reste>>
  BY DEF Utiliser, Commande, Acceptee, Inv, Types, WType, Etapes
<1>2. CASE carte.dos.uif[w.cmd.slot]
  <2>1. /\ ~conf.lu /\ conf' = [conf EXCEPT !.etat = "pending", !.age = 0]
        /\ w' = [w EXCEPT !.pc = "touche"] /\ vu' = [vu EXCEPT !.touche = FALSE]
    BY <1>2 DEF Utiliser, sec_confirm_arm
  <2>2. /\ w' \in WType /\ w'.pc = "touche" /\ w'.suite = w.suite /\ w'.genre = w.genre
        /\ w'.cmd = w.cmd
    BY <2>1 DEF Inv, Types, WType
  <2>3. conf' \in ConfType /\ conf'.etat = "pending" /\ ~conf'.lu
    BY <2>1, Delais DEF Inv, Types, ConfType
  <2>4. /\ vu' \in VuType /\ vu'.faux = vu.faux /\ vu'.signees = vu.signees
        /\ vu'.panne = vu.panne /\ vu'.preuve = vu.preuve /\ vu'.seules = vu.seules
    BY <2>1 DEF Inv, Types, VuType
  <2>5. Types' /\ Etapes'
    BY <1>1, <2>2, <2>3, <2>4 DEF Inv, Types, Etapes
  <2>6. Comptes' /\ Signatures'
    BY <1>1, <2>2, <2>4, SansCompter
  <2>7. Usage'
    BY <1>1, <2>2, <2>3, <2>4 DEF Inv, Usage
  <2>. QED  BY <2>5, <2>6, <2>7 DEF Inv
<1>3. CASE ~carte.dos.uif[w.cmd.slot]
  <2>1. w' = [w EXCEPT !.pc = "signe"] /\ UNCHANGED <<conf, vu>>
    BY <1>3 DEF Utiliser
  <2>2. /\ w' \in WType /\ w'.pc = "signe" /\ w'.suite = w.suite /\ w'.genre = w.genre
        /\ w'.cmd = w.cmd
    BY <2>1 DEF Inv, Types, WType
  <2>3. Types' /\ Etapes'
    BY <1>1, <2>1, <2>2 DEF Inv, Types, Etapes
  <2>4. Comptes' /\ Signatures'
    BY <1>1, <2>1, <2>2, SansCompter
  <2>5. Usage'
    BY <1>1, <1>3, <2>1, <2>2 DEF Inv, Usage
  <2>. QED  BY <2>3, <2>4, <2>5 DEF Inv
<1>. QED  BY <1>2, <1>3

LEMMA ConsommerInv == Inv /\ Consommer => Inv'
<1>. SUFFICES ASSUME Inv, Consommer PROVE Inv'
  OBVIOUS
<1>1. /\ w.pc = "touche" /\ conf.etat = "authorized" /\ w' = [w EXCEPT !.pc = "signe"]
      /\ conf' = [conf EXCEPT !.etat = "idle", !.age = 0]
      /\ UNCHANGED <<carte, nvs, usb, hote, reste, vu>>
  BY DEF Consommer
<1>2. /\ w' \in WType /\ w'.pc = "signe" /\ w'.suite = w.suite /\ w'.genre = w.genre
      /\ w'.cmd = w.cmd /\ conf' \in ConfType
  BY <1>1, Delais DEF Inv, Types, WType, ConfType
<1>3. Types' /\ Etapes'
  BY <1>1, <1>2 DEF Inv, Types, Etapes
<1>4. Comptes' /\ Signatures'
  BY <1>1, <1>2, SansCompter
<1>5. Usage'
  BY <1>1, <1>2 DEF Inv, Usage
<1>. QED  BY <1>3, <1>4, <1>5 DEF Inv

LEMMA ExpirerInv == Inv /\ Expirer => Inv'
<1>. SUFFICES ASSUME Inv, Expirer PROVE Inv'
  OBVIOUS
<1>1. w' \in WType /\ Etapes' /\ Comptes' /\ Signatures' /\ Usage'
  BY Rendre DEF Expirer
<1>2. conf' \in ConfType
  BY Delais DEF Expirer, Inv, Types, ConfType
<1>. QED  BY <1>1, <1>2 DEF Expirer, Inv, Types

\* The steps that leave the worker alone, and what it works on.
LEMMA Ailleurs ==
    ASSUME Inv, Types', UNCHANGED <<carte, nvs, w>>,
           vu'.faux = vu.faux, vu'.signees = vu.signees, vu'.panne = vu.panne,
           vu'.preuve = vu.preuve, vu'.seules = vu.seules,
           vu.touche => vu'.touche,
           conf'.lu \/ conf'.etat = "authorized" =>
               conf.lu \/ conf.etat = "authorized" \/ vu'.touche
    PROVE  Inv'
<1>1. Etapes'
  BY DEF Inv, Etapes
<1>2. Comptes' /\ Signatures'
  BY SansCompter
<1>3. Usage'
  BY DEF Inv, Usage
<1>. QED  BY <1>1, <1>2, <1>3 DEF Inv

LEMMA ConfInv == Inv /\ (Appuyer \/ Autoriser \/ Patienter) => Inv'
<1>. SUFFICES ASSUME Inv, Appuyer \/ Autoriser \/ Patienter PROVE Inv'
  OBVIOUS
<1>1. CASE Appuyer
  <2>1. /\ conf' \in ConfType /\ vu' \in VuType /\ vu'.touche
        /\ vu'.faux = vu.faux /\ vu'.signees = vu.signees /\ vu'.panne = vu.panne
        /\ vu'.preuve = vu.preuve /\ vu'.seules = vu.seules
    BY <1>1 DEF Appuyer, Inv, Types, ConfType, VuType
  <2>. QED  BY <1>1, <2>1, Ailleurs DEF Appuyer, Inv, Types
<1>2. CASE Autoriser
  <2>1. conf' \in ConfType /\ conf.lu
    BY <1>2 DEF Autoriser, Inv, Types, ConfType
  <2>. QED  BY <1>2, <2>1, Ailleurs DEF Autoriser, Inv, Types
<1>3. CASE Patienter
  <2>1. conf' \in ConfType /\ conf'.lu = conf.lu /\ conf'.etat = conf.etat
    <3>1. conf.age + 1 \in 0 .. Attente
      BY <1>3, Delais DEF Patienter, Inv, Types, ConfType
    <3>. QED  BY <1>3, <3>1 DEF Patienter, Inv, Types, ConfType
  <2>2. usb' \in UsbType
    <3>1. <<"wtx">> \in Seq({"wtx", "rep"})
      OBVIOUS
    <3>2. usb' = [usb EXCEPT !.file = <<"wtx">>]
      BY <1>3 DEF Patienter
    <3>. QED  BY <3>1, <3>2 DEF Inv, Types, UsbType
  <2>. QED  BY <1>3, <2>1, <2>2, Ailleurs DEF Patienter, Inv, Types
<1>. QED  BY <1>1, <1>2, <1>3

\* A signature spends the PIN that is for one, and leaves its count to write.
LEMMA SignerInv ==
    ASSUME Inv, NEW reussi \in BOOLEAN, Signer(reussi)
    PROVE  Inv'
<1>1. /\ w.pc = "signe" /\ w.suite = <<>> /\ w.genre = "aucun"
      /\ UNCHANGED <<nvs, conf, usb, hote, reste>>
  BY DEF Signer, Inv, Etapes, Types, WType
<1>2. /\ w' \in WType /\ w'.cmd = w.cmd
      /\ \/ w'.suite = <<"plus">> /\ w'.genre = "signe" /\ w'.pc = "ecrit"
         \/ w'.suite = <<>> /\ w'.genre = "aucun" /\ w'.pc = "repond"
  BY EnsuiteDit DEF Signer, Inv, Suites
<1>3. /\ carte' \in CarteType /\ carte'.pins = carte.pins /\ carte'.dos = carte.dos
      /\ carte'.v81 <=> carte.v81 /\ ~Depense
      /\ carte'.v82 <=> carte.v82
  <2>1. carte' = [carte EXCEPT !.v81 = @ /\ ~Depense]
    BY DEF Signer
  <2>2. (carte.v81 /\ ~Depense) \in BOOLEAN
    OBVIOUS
  <2>. QED  BY <2>1, <2>2 DEF Inv, Types, CarteType
<1>4. /\ vu' \in VuType /\ vu'.faux = vu.faux /\ vu'.signees = vu.signees
      /\ vu'.panne = vu.panne /\ vu'.preuve = vu.preuve
      /\ vu'.seules = IF Depense THEN 1 ELSE vu.seules
  BY DEF Signer, Inv, Types, VuType
<1>5. Types'
  BY <1>1, <1>2, <1>3, <1>4 DEF Inv, Types
<1>6. Etapes'
  <2>1. CASE w'.suite = <<"plus">> /\ w'.genre = "signe" /\ w'.pc = "ecrit"
    BY <2>1 DEF Etapes
  <2>2. CASE w'.suite = <<>> /\ w'.genre = "aucun" /\ w'.pc = "repond"
    BY <2>2 DEF Etapes
  <2>. QED  BY <1>2, <2>1, <2>2
<1>7. Comptes'
  BY <1>1, <1>2, <1>3, <1>4 DEF Inv, Comptes, Refs
<1>8. Signatures'
  <2>1. CASE w'.suite = <<"plus">> /\ w'.genre = "signe" /\ w'.pc = "ecrit"
    BY <1>1, <1>3, <1>4, <2>1 DEF Inv, Signatures
  <2>2. CASE w'.suite = <<>> /\ w'.genre = "aucun" /\ w'.pc = "repond"
    BY <1>1, <1>3, <1>4, <2>2 DEF Inv, Signatures
  <2>. QED  BY <1>2, <2>1, <2>2
<1>9. Usage'
  BY <1>2, <1>3, <1>4 DEF Inv, Usage
<1>. QED  BY <1>5, <1>6, <1>7, <1>8, <1>9 DEF Inv
-----------------------------------------------------------------------------
(***************************************************************************)
(* The writes, the answer and what is around the worker.                   *)
(***************************************************************************)
Blob == Head(w.suite)
Perdue(ok) == ~ok /\ Blob = "cles" /\ w.cmd.ins = "cle"
Neuve == Blob = "cles" /\ (w.cmd.ins = "cle" => w.cmd.slot = "sig")

\* What a write changes, by its blob.
LEMMA EcrireDit ==
    ASSUME Inv, NEW ok \in BOOLEAN, Ecrire(ok)
    PROVE  /\ Blob \in {"cles", "pins", "dos", "zero", "plus", "pose"}
           /\ Tail(w.suite) \in Suites
           /\ carte' \in CarteType
           /\ carte'.pins = carte.pins /\ carte'.v81 = carte.v81 /\ carte'.v82 = carte.v82
           /\ carte'.dos.ds = IF Blob = "zero" THEN 0
                              ELSE IF Blob = "plus" THEN Suivant(carte.dos.ds)
                              ELSE IF Blob = "pose" THEN w.cmd.valeur ELSE carte.dos.ds
           /\ nvs' \in NvsType
           /\ nvs'.pins = IF ok /\ Blob = "pins" THEN carte.pins ELSE nvs.pins
           /\ nvs'.dos.ds = IF ok /\ Blob \in {"dos", "zero", "plus", "pose"} THEN carte'.dos.ds
                            ELSE nvs.dos.ds
           /\ w' \in WType /\ w'.genre = w.genre /\ w'.cmd = w.cmd
           /\ w'.suite = IF Perdue(ok) THEN <<>> ELSE Tail(w.suite)
           /\ w'.pc = IF Tail(w.suite) = <<>> \/ Perdue(ok) THEN "repond" ELSE "ecrit"
           /\ vu' \in VuType /\ vu'.faux = vu.faux /\ vu'.preuve = vu.preuve
           /\ vu'.seules = vu.seules /\ vu'.touche = vu.touche
           /\ vu'.panne <=> vu.panne \/ (~ok /\ ~Perdue(ok))
           /\ vu'.signees = IF ok /\ Neuve THEN 0
                            ELSE IF ok /\ Blob = "pose" THEN w.cmd.valeur
                            ELSE IF Blob = "plus" /\ carte'.dos.ds = 0 THEN vu.signees - Tour
                            ELSE vu.signees
           /\ reste' \in ResteType
<1>1. /\ w.pc = "ecrit" /\ w.suite \in Suites /\ w.suite # <<>>
      /\ w.cmd \in Commandes
  BY DEF Ecrire, Inv, Etapes, Types, WType
<1>2. /\ Blob \in {"cles", "pins", "dos", "zero", "plus", "pose"}
      /\ Tail(w.suite) \in Suites
      /\ Blob = "pose" => w.cmd.valeur \in Nat
  <2>1. /\ Blob \in {"cles", "pins", "dos", "zero", "plus", "pose"}
        /\ Tail(w.suite) \in Suites
        /\ Blob = "pose" => w.suite = <<"pose">>
    BY <1>1, Morceaux DEF Suites, Blob
  <2>2. w.suite = <<"pose">> => w.cmd.valeur \in Nat
    BY <1>1, Parametres DEF Inv, Etapes
  <2>. QED  BY <2>1, <2>2
<1>. DEFINE c1 == CASE Blob = "zero" -> [carte EXCEPT !.dos.ds = 0]
                    [] Blob = "plus" -> [carte EXCEPT !.dos.ds = Suivant(@)]
                    [] Blob = "pose" -> [carte EXCEPT !.dos.ds = w.cmd.valeur]
                    [] Perdue(ok) -> [carte EXCEPT !.cles[w.cmd.slot] = FALSE]
                    [] OTHER -> carte
<1>3. /\ carte' = c1
      /\ nvs' = IF ~ok THEN nvs
                ELSE CASE Blob = "cles" -> [nvs EXCEPT !.cles = carte.cles]
                       [] Blob = "pins" -> [nvs EXCEPT !.pins = carte.pins]
                       [] OTHER -> [nvs EXCEPT !.dos = c1.dos]
  BY Zenon DEF Ecrire, Blob, Perdue
<1>4. /\ carte' \in CarteType
      /\ carte'.pins = carte.pins /\ carte'.v81 = carte.v81 /\ carte'.v82 = carte.v82
      /\ carte'.dos.ds = IF Blob = "zero" THEN 0
                         ELSE IF Blob = "plus" THEN Suivant(carte.dos.ds)
                         ELSE IF Blob = "pose" THEN w.cmd.valeur ELSE carte.dos.ds
  <2>1. CASE Blob = "zero"
    <3>1. carte' = [carte EXCEPT !.dos.ds = 0]
      <4>1. Blob # "plus" /\ ~Perdue(ok)
        BY <2>1 DEF Perdue
      <4>. QED  BY <1>3, <2>1, <4>1, Zenon
    <3>. QED  BY <2>1, <3>1 DEF Inv, Types, CarteType, DosType
  <2>2. CASE Blob = "plus"
    <3>1. carte' = [carte EXCEPT !.dos.ds = Suivant(carte.dos.ds)]
      <4>1. Blob # "zero" /\ ~Perdue(ok)
        BY <2>2 DEF Perdue
      <4>2. carte' = [carte EXCEPT !.dos.ds = Suivant(@)]
        BY <1>3, <2>2, <4>1, Zenon
      <4>. QED  BY <4>2
    <3>2. Suivant(carte.dos.ds) \in Nat
      BY DEF Suivant, Inv, Types, CarteType, DosType
    <3>. QED  BY <2>2, <3>1, <3>2 DEF Inv, Types, CarteType, DosType
  <2>5. CASE Blob = "pose"
    <3>1. carte' = [carte EXCEPT !.dos.ds = w.cmd.valeur]
      <4>1. Blob # "zero" /\ Blob # "plus" /\ ~Perdue(ok)
        BY <2>5 DEF Perdue
      <4>. QED  BY <1>3, <2>5, <4>1, Zenon
    <3>. QED  BY <1>2, <2>5, <3>1 DEF Inv, Types, CarteType, DosType
  <2>3. CASE Perdue(ok)
    <3>1. Blob # "zero" /\ Blob # "plus" /\ Blob # "pose"
      BY <2>3 DEF Perdue
    <3>2. carte' = [carte EXCEPT !.cles[w.cmd.slot] = FALSE]
      BY <1>3, <2>3, <3>1, Zenon
    <3>. QED  BY <2>3, <3>1, <3>2 DEF Inv, Types, CarteType, ClesType
  <2>4. CASE Blob \notin {"zero", "plus", "pose"} /\ ~Perdue(ok)
    <3>1. carte' = carte
      BY <1>3, <2>4, Zenon
    <3>. QED  BY <2>4, <3>1 DEF Inv, Types
  <2>. QED  BY <2>1, <2>2, <2>3, <2>4, <2>5
<1>5. /\ nvs' \in NvsType
      /\ nvs'.pins = IF ok /\ Blob = "pins" THEN carte.pins ELSE nvs.pins
      /\ nvs'.dos.ds = IF ok /\ Blob \in {"dos", "zero", "plus", "pose"} THEN carte'.dos.ds
                       ELSE nvs.dos.ds
  <2>1. CASE ~ok
    BY <1>3, <2>1 DEF Inv, Types
  <2>2. CASE ok /\ Blob = "cles"
    <3>1. nvs' = [nvs EXCEPT !.cles = carte.cles]
      BY <1>3, <2>2, Zenon
    <3>. QED  BY <2>2, <3>1 DEF Inv, Types, CarteType, NvsType
  <2>3. CASE ok /\ Blob = "pins"
    <3>1. nvs' = [nvs EXCEPT !.pins = carte.pins]
      BY <1>3, <2>3, Zenon
    <3>. QED  BY <2>3, <3>1 DEF Inv, Types, CarteType, NvsType
  <2>4. CASE ok /\ Blob \in {"dos", "zero", "plus", "pose"}
    <3>1. nvs' = [nvs EXCEPT !.dos = carte'.dos]
      BY <1>3, <2>4, Zenon
    <3>. QED  BY <1>4, <2>4, <3>1 DEF Inv, Types, CarteType, NvsType
  <2>. QED  BY <1>2, <2>1, <2>2, <2>3, <2>4
<1>6. w' = [w EXCEPT !.pc = IF Tail(w.suite) = <<>> \/ Perdue(ok) THEN "repond" ELSE @,
                     !.suite = IF Perdue(ok) THEN <<>> ELSE Tail(w.suite)]
  BY Zenon DEF Ecrire, Blob, Perdue, Neuve
<1>7. /\ w' \in WType /\ w'.genre = w.genre /\ w'.cmd = w.cmd
      /\ w'.suite = IF Perdue(ok) THEN <<>> ELSE Tail(w.suite)
      /\ w'.pc = IF Tail(w.suite) = <<>> \/ Perdue(ok) THEN "repond" ELSE "ecrit"
  BY <1>1, <1>2, <1>6 DEF Inv, Types, WType, Suites
<1>8. vu' = [vu EXCEPT !.panne = @ \/ (~ok /\ ~Perdue(ok)),
                       !.signees = CASE ok /\ Neuve -> 0
                                     [] ok /\ Blob = "pose" -> w.cmd.valeur
                                     [] Blob = "plus" /\ c1.dos.ds = 0 -> @ - Tour
                                     [] OTHER -> @]
  BY Zenon DEF Ecrire, Blob, Perdue, Neuve
<1>9. /\ vu' \in VuType /\ vu'.faux = vu.faux /\ vu'.preuve = vu.preuve
      /\ vu'.seules = vu.seules /\ vu'.touche = vu.touche
      /\ vu'.panne <=> vu.panne \/ (~ok /\ ~Perdue(ok))
      /\ vu'.signees = IF ok /\ Neuve THEN 0
                       ELSE IF ok /\ Blob = "pose" THEN w.cmd.valeur
                       ELSE IF Blob = "plus" /\ carte'.dos.ds = 0 THEN vu.signees - Tour
                       ELSE vu.signees
  <2>. DEFINE n == CASE ok /\ Neuve -> 0
                     [] ok /\ Blob = "pose" -> w.cmd.valeur
                     [] Blob = "plus" /\ c1.dos.ds = 0 -> vu.signees - Tour
                     [] OTHER -> vu.signees
  <2>1. vu' = [vu EXCEPT !.panne = @ \/ (~ok /\ ~Perdue(ok)), !.signees = n]
    BY <1>8
  <2>2. /\ n = IF ok /\ Neuve THEN 0
               ELSE IF ok /\ Blob = "pose" THEN w.cmd.valeur
               ELSE IF Blob = "plus" /\ c1.dos.ds = 0 THEN vu.signees - Tour
               ELSE vu.signees
        /\ n \in Int
    <3>1. vu.signees \in Int /\ Tour \in Int
      BY Delais DEF Inv, Types, VuType
    <3>2. ~(Neuve /\ Blob = "pose") /\ ~(Neuve /\ Blob = "plus")
      BY DEF Neuve
    <3>. HIDE DEF c1
    <3>. QED  BY <1>2, <3>1, <3>2
  <2>. HIDE DEF n, c1
  <2>3. /\ vu' \in VuType /\ vu'.faux = vu.faux /\ vu'.preuve = vu.preuve
        /\ vu'.seules = vu.seules /\ vu'.touche = vu.touche
        /\ vu'.panne <=> vu.panne \/ (~ok /\ ~Perdue(ok))
        /\ vu'.signees = n
    <3>1. vu \in VuType /\ n \in Int
      BY <2>2 DEF Inv, Types
    <3>2. vu' \in VuType
      BY <2>1, <3>1 DEF VuType
    <3>. QED  BY <2>1, <3>1, <3>2 DEF VuType
  <2>. QED  BY <1>3, <2>2, <2>3
<1>10. reste' \in ResteType
  BY DEF Ecrire, Inv, Types, ResteType
<1>. QED  BY <1>2, <1>4, <1>5, <1>7, <1>9, <1>10
LEMMA EcrireInv ==
    ASSUME Inv, NEW ok \in BOOLEAN, Ecrire(ok)
    PROVE  Inv'
<1>1. /\ w.pc = "ecrit" /\ w.suite \in Suites /\ w.suite # <<>>
      /\ UNCHANGED <<conf, usb, hote>>
  BY DEF Ecrire, Inv, Etapes, Types, WType
<1>2. Types'
  BY <1>1, EcrireDit DEF Inv, Types
<1>. DEFINE e == Blob
            suite == Tail(w.suite)
            pins == {<<"cles", "pins", "dos">>, <<"pins", "dos">>, <<"pins">>}
<1>3. \/ w.suite = <<"cles", "pins", "dos">> /\ e = "cles" /\ suite = <<"pins", "dos">>
      \/ w.suite = <<"pins", "dos">> /\ e = "pins" /\ suite = <<"dos">>
      \/ w.suite = <<"dos">> /\ e = "dos" /\ suite = <<>>
      \/ w.suite = <<"pins">> /\ e = "pins" /\ suite = <<>>
      \/ w.suite = <<"cles", "zero">> /\ e = "cles" /\ suite = <<"zero">>
      \/ w.suite = <<"zero">> /\ e = "zero" /\ suite = <<>>
      \/ w.suite = <<"cles">> /\ e = "cles" /\ suite = <<>>
      \/ w.suite = <<"plus">> /\ e = "plus" /\ suite = <<>>
      \/ w.suite = <<"pose">> /\ e = "pose" /\ suite = <<>>
  BY <1>1, Morceaux DEF Suites, Blob
<1>4. /\ w'.suite = IF Perdue(ok) THEN <<>> ELSE suite
      /\ w'.pc = IF suite = <<>> \/ Perdue(ok) THEN "repond" ELSE "ecrit"
      /\ w'.genre = w.genre /\ w'.cmd = w.cmd
  BY EcrireDit
<1>5. /\ suite \in {<<"pins", "dos">>, <<"dos">>, <<"zero">>, <<>>}
      /\ w.genre = "signe" => w.suite = <<"plus">> /\ e = "plus" /\ suite = <<>>
      /\ e # "pins" /\ w.suite \in pins => e = "cles" /\ w.cmd.ins # "cle" /\ suite \in pins
  <2>1. w.genre = "signe" => w.suite = <<"plus">>
    BY <1>1 DEF Inv, Etapes
  <2>2. w.suite = <<"cles", "pins", "dos">> => w.cmd.ins # "cle"
    BY DEF Inv, Etapes
  <2>. QED  BY <1>3, <2>1, <2>2
<1>6. Etapes'
  <2>1. w'.suite \in {<<"pins", "dos">>, <<"dos">>, <<"zero">>, <<>>}
    BY <1>4, <1>5
  <2>2. w'.pc = IF w'.suite = <<>> THEN "repond" ELSE "ecrit"
    BY <1>4
  <2>3. w'.genre = "signe" => w'.suite = <<>>
    BY <1>4, <1>5
  <2>4. /\ w'.suite # <<"pose">> /\ w'.suite # <<"plus">> /\ w'.suite # <<"cles">>
        /\ w'.suite # <<"cles", "zero">> /\ w'.suite # <<"cles", "pins", "dos">>
    <3>1. w'.suite # <<"pose">>
      BY <2>1
    <3>2. w'.suite # <<"plus">>
      BY <2>1
    <3>3. w'.suite # <<"cles">>
      BY <2>1
    <3>4. w'.suite # <<"cles", "zero">>
      BY <2>1
    <3>5. w'.suite # <<"cles", "pins", "dos">>
      BY <2>1
    <3>. QED  BY <3>1, <3>2, <3>3, <3>4, <3>5
  <2>. QED  BY <2>2, <2>3, <2>4 DEF Etapes
<1>7. Usage'
  <2>1. w'.pc \in {"repond", "ecrit"}
    BY <1>4
  <2>. QED  BY <2>1, EcrireDit DEF Inv, Usage
<1>8. CASE ~ok /\ ~Perdue(ok)
  <2>1. vu'.panne
    BY <1>8, EcrireDit
  <2>. QED  BY <1>2, <1>6, <1>7, <2>1 DEF Inv, Comptes, Signatures
<1>9. CASE Perdue(ok)
  <2>1. /\ e = "cles" /\ ~ok /\ w.cmd.ins = "cle"
        /\ w.suite \notin pins /\ w'.suite = <<>> /\ w.genre # "signe"
    BY <1>4, <1>5, <1>9 DEF Perdue
  <2>2. /\ carte'.pins = carte.pins /\ carte'.dos.ds = carte.dos.ds
        /\ nvs'.pins = nvs.pins /\ nvs'.dos.ds = nvs.dos.ds
        /\ vu'.faux = vu.faux /\ vu'.signees = vu.signees
        /\ vu'.panne <=> vu.panne
    BY <1>9, <2>1, EcrireDit
  <2>3. Comptes'
    BY <1>4, <2>1, <2>2 DEF Inv, Comptes
  <2>4. Signatures'
    <3>1. /\ w.suite # <<"pins", "dos">> /\ w.suite # <<"dos">>
          /\ w.suite # <<"cles", "pins", "dos">>
          /\ w'.suite # <<"zero">> /\ w'.genre # "signe"
      <4>1. w.suite # <<"cles", "pins", "dos">>
        BY <2>1
      <4>2. Head(w.suite) = "cles"
        BY <1>9 DEF Perdue, Blob
      <4>3. w.suite # <<"pins", "dos">>
        BY <4>2
      <4>4. w.suite # <<"dos">>
        BY <4>2
      <4>5. w'.suite # <<"zero">>
        BY <2>1
      <4>6. w'.genre # "signe"
        BY <1>4, <2>1
      <4>. QED  BY <4>1, <4>3, <4>4, <4>5, <4>6
    <3>2. ~vu.panne => vu.signees <= nvs.dos.ds /\ carte.dos.ds = nvs.dos.ds
      <4>1. vu.signees \in Int /\ nvs.dos.ds \in Nat
        BY DEF Inv, Types, VuType, NvsType, DosType
      <4>2. ~vu.panne => /\ vu.signees + 0 <= nvs.dos.ds
                         /\ carte.dos.ds = nvs.dos.ds
        BY <1>1, <2>1, <3>1 DEF Inv, Signatures
      <4>. QED  BY <4>1, <4>2
    <3>3. vu.signees + 0 = vu.signees
      BY DEF Inv, Types, VuType
    <3>. QED  BY <2>2, <3>1, <3>2, <3>3 DEF Signatures
  <2>. QED  BY <1>2, <1>6, <1>7, <2>3, <2>4 DEF Inv
<1>10. CASE ok
  <2>1. /\ w'.suite = suite
        /\ w'.pc = IF suite = <<>> THEN "repond" ELSE "ecrit"
    BY <1>4, <1>10 DEF Perdue
  <2>2. /\ carte'.pins = carte.pins
        /\ nvs'.pins = IF e = "pins" THEN carte.pins ELSE nvs.pins
        /\ vu'.faux = vu.faux /\ (vu'.panne <=> vu.panne)
    BY <1>10, EcrireDit
  <2>3. Comptes'
    <3>1. \A q \in Refs : /\ vu.faux[q] \in Nat /\ carte.pins.essais[q] \in Nat
                          /\ Essais \in Nat
      BY Delais DEF Inv, Types, VuType, CarteType, PinsType
    <3>2. CASE e = "pins"
      BY <1>4, <2>2, <3>1, <3>2 DEF Inv, Comptes
    <3>3. CASE e # "pins"
      <4>1. w.suite \in pins => w'.suite \in pins
        BY <1>5, <2>1, <3>3
      <4>. QED  BY <1>4, <2>2, <3>3, <4>1 DEF Inv, Comptes
    <3>. QED  BY <3>2, <3>3
  <2>4. /\ carte'.dos.ds = IF e = "zero" THEN 0
                           ELSE IF e = "plus" THEN Suivant(carte.dos.ds)
                           ELSE IF e = "pose" THEN w.cmd.valeur ELSE carte.dos.ds
        /\ nvs'.dos.ds = IF e \in {"dos", "zero", "plus", "pose"} THEN carte'.dos.ds
                         ELSE nvs.dos.ds
        /\ vu'.signees = IF Neuve THEN 0 ELSE IF e = "pose" THEN w.cmd.valeur
                         ELSE IF e = "plus" /\ carte'.dos.ds = 0 THEN vu.signees - Tour
                         ELSE vu.signees
    BY <1>10, EcrireDit
  <2>5. vu.signees \in Int /\ nvs.dos.ds \in Nat /\ carte.dos.ds \in Nat
    BY DEF Inv, Types, VuType, NvsType, CarteType, DosType
  <2>6. Signatures'
    <3>. SUFFICES ASSUME ~vu.panne PROVE Signatures'
      BY <2>2 DEF Signatures
    <3>1. CASE e = "plus"
      <4>1. w.suite = <<"plus">> /\ w'.suite = <<>> /\ w.genre = "signe"
        BY <1>3, <2>1, <3>1 DEF Inv, Etapes
      <4>2. carte.dos.ds = nvs.dos.ds /\ vu.signees <= nvs.dos.ds
        BY <1>1, <2>5, <4>1 DEF Inv, Signatures
      <4>3. /\ carte'.dos.ds = nvs'.dos.ds
            /\ vu'.signees + 1 <= nvs'.dos.ds
        BY <2>4, <2>5, <3>1, <4>2, Delais DEF Neuve, Suivant
      <4>4. vu'.signees \in Int /\ nvs'.dos.ds \in Int
        BY EcrireDit DEF VuType, NvsType, DosType
      <4>. QED  BY <4>1, <4>3, <4>4 DEF Signatures
    <3>2. CASE e # "plus"
      <4>1. /\ w.genre # "signe" /\ vu.signees <= nvs.dos.ds
            /\ w.suite = <<"zero">> => vu.signees = 0
            /\ \/ carte.dos.ds = nvs.dos.ds
               \/ /\ carte.dos.ds = 0
                  /\ \/ w.suite = <<"cles", "pins", "dos">>
                     \/ w.suite \in {<<"pins", "dos">>, <<"dos">>} /\ vu.signees = 0
        BY <1>5, <2>5, <3>2 DEF Inv, Signatures
      <4>2. CASE e = "zero" \/ e = "dos"
        <5>1. /\ w.suite \in {<<"zero">>, <<"dos">>} /\ w'.suite = <<>>
              /\ e = "zero" => vu.signees = 0
          BY <1>3, <2>1, <4>1, <4>2
        <5>2. /\ nvs'.dos.ds = carte'.dos.ds /\ vu'.signees = vu.signees
              /\ carte'.dos.ds = nvs.dos.ds \/ vu.signees = 0
              /\ carte'.dos.ds \in Nat
          BY <2>4, <2>5, <4>1, <4>2, <5>1 DEF Neuve
        <5>3. w'.genre # "signe" /\ vu'.signees + 0 <= nvs'.dos.ds
          BY <1>4, <2>5, <4>1, <5>2
        <5>4. w'.suite # <<"zero">>
          BY <5>1
        <5>. QED  BY <5>2, <5>3, <5>4 DEF Signatures
      <4>3. CASE e = "pins"
        <5>1. /\ nvs'.dos.ds = nvs.dos.ds /\ vu'.signees = vu.signees
              /\ carte'.dos.ds = carte.dos.ds
          BY <2>4, <4>3 DEF Neuve
        <5>2. \/ w.suite = <<"pins", "dos">> /\ w'.suite = <<"dos">>
              \/ w.suite = <<"pins">> /\ w'.suite = <<>>
          BY <1>3, <2>1, <4>3
        <5>3. w'.genre # "signe" /\ vu'.signees + 0 <= nvs'.dos.ds
              /\ w'.suite # <<"zero">>
          BY <1>4, <2>5, <4>1, <5>1, <5>2
        <5>4. \/ carte'.dos.ds = nvs'.dos.ds
              \/ carte'.dos.ds = 0 /\ w'.suite = <<"dos">> /\ vu'.signees = 0
          BY <4>1, <5>1, <5>2
        <5>. QED  BY <5>3, <5>4 DEF Signatures
      <4>4. CASE e = "cles"
        <5>1. /\ nvs'.dos.ds = nvs.dos.ds /\ carte'.dos.ds = carte.dos.ds
              /\ vu'.signees = IF Neuve THEN 0 ELSE vu.signees
          BY <2>4, <4>4
        <5>2. \/ w.suite = <<"cles", "pins", "dos">> /\ w'.suite = <<"pins", "dos">> /\ Neuve
              \/ w.suite = <<"cles", "zero">> /\ w'.suite = <<"zero">> /\ Neuve
              \/ w.suite = <<"cles">> /\ w'.suite = <<>>
          BY <1>3, <2>1, <4>4 DEF Neuve, Inv, Etapes
        <5>3. /\ w'.genre # "signe" /\ vu'.signees + 0 <= nvs'.dos.ds
              /\ w'.suite = <<"zero">> => vu'.signees = 0
          BY <1>4, <2>5, <4>1, <5>1, <5>2
        <5>4. \/ carte'.dos.ds = nvs'.dos.ds
              \/ carte'.dos.ds = 0 /\ w'.suite = <<"pins", "dos">> /\ vu'.signees = 0
          <6>1. CASE w.suite = <<"cles", "pins", "dos">>
            BY <4>1, <5>1, <5>2, <6>1
          <6>2. CASE w.suite # <<"cles", "pins", "dos">>
            <7>1. w.suite # <<"pins", "dos">> /\ w.suite # <<"dos">>
              BY <5>2, <6>2
            <7>. QED  BY <4>1, <5>1, <6>2, <7>1
          <6>. QED  BY <6>1, <6>2
        <5>. QED  BY <5>3, <5>4 DEF Signatures
      <4>5. CASE e = "pose"
        <5>1. /\ nvs'.dos.ds = carte'.dos.ds /\ vu'.signees = carte'.dos.ds
              /\ carte'.dos.ds \in Nat
          BY <2>4, <4>5, EcrireDit DEF Neuve, CarteType, DosType
        <5>2. w'.genre # "signe" /\ w'.suite = <<>>
          BY <1>3, <1>4, <2>1, <4>1, <4>5
        <5>. QED  BY <5>1, <5>2 DEF Signatures
      <4>. QED  BY <1>3, <3>2, <4>2, <4>3, <4>4, <4>5
    <3>. QED  BY <3>1, <3>2
  <2>. QED  BY <1>2, <1>6, <1>7, <2>3, <2>6 DEF Inv
<1>. QED  BY <1>8, <1>9, <1>10 DEF Perdue

LEMMA WorkerInv == Inv /\ ccid_worker => Inv'
<1>. SUFFICES ASSUME Inv, ccid_worker PROVE Inv'
  OBVIOUS
<1>1. /\ w.pc = "attend" /\ w.suite = <<>> /\ w.genre = "aucun"
      /\ UNCHANGED <<carte, nvs, conf, hote, reste, vu>>
  BY DEF ccid_worker, Inv, Etapes, Types, WType
<1>2. usb' \in UsbType
  BY DEF ccid_worker, Inv, Types, UsbType
<1>3. /\ w' \in WType /\ w'.pc = "apdu" /\ w'.suite = <<>> /\ w'.genre = "aucun"
  <2>1. w' = [Oisif EXCEPT !.pc = "apdu", !.n = usb.tampon.n, !.cmd = usb.tampon.cmd]
    BY DEF ccid_worker
  <2>2. usb.tampon.n \in Int /\ usb.tampon.cmd \in Commandes
    BY DEF Inv, Types, UsbType
  <2>. QED  BY <2>1, <2>2 DEF Oisif, WType, Suites
<1>4. Types' /\ Etapes' /\ Usage'
  BY <1>1, <1>2, <1>3 DEF Inv, Types, Etapes, Usage
<1>5. Comptes' /\ Signatures'
  BY <1>1, <1>3, SansCompter
<1>. QED  BY <1>4, <1>5 DEF Inv

LEMMA OisifType ==
    Oisif \in WType /\ Oisif.pc = "attend" /\ Oisif.suite = <<>> /\ Oisif.genre = "aucun"
<1>1. Rien \in Commandes
  BY DEF Rien, Commandes
<1>. QED  BY <1>1 DEF Oisif, WType, Suites

\* What is answered was written before.
LEMMA RepondreInv == Inv /\ ccid_process_xfrblock => Inv'
<1>. SUFFICES ASSUME Inv, ccid_process_xfrblock PROVE Inv'
  OBVIOUS
<1>1. /\ w.pc = "repond" /\ w.suite = <<>> /\ w' = Oisif
      /\ UNCHANGED <<carte, nvs, conf, hote, reste>>
  BY DEF ccid_process_xfrblock, Inv, Etapes
<1>2. usb' \in UsbType
  <2>1. Append(usb.file, "rep") \in Seq({"wtx", "rep"})
    BY DEF Inv, Types, UsbType
  <2>. QED  BY <2>1 DEF ccid_process_xfrblock, Inv, Types, UsbType, WType
<1>3. /\ vu' \in VuType /\ vu'.panne = vu.panne
      /\ vu'.preuve = vu.preuve /\ vu'.seules = vu.seules
      /\ \A q \in Refs : vu'.faux[q] = vu.faux[q] + (IF w.genre = q THEN 1 ELSE 0)
      /\ vu'.signees = vu.signees + (IF w.genre = "signe" THEN 1 ELSE 0)
  <2>2. vu' = [vu EXCEPT
                 !.faux = [q \in Refs |-> IF w.genre = q THEN @[q] + 1 ELSE @[q]],
                 !.signees = IF w.genre = "signe" THEN @ + 1 ELSE @]
    BY DEF ccid_process_xfrblock
  <2>. DEFINE f == [q \in Refs |-> IF w.genre = q THEN vu.faux[q] + 1 ELSE vu.faux[q]]
              n == IF w.genre = "signe" THEN vu.signees + 1 ELSE vu.signees
  <2>3. vu' = [vu EXCEPT !.faux = f, !.signees = n]
    BY <2>2
  <2>4. /\ \A q \in Refs : f[q] = vu.faux[q] + (IF w.genre = q THEN 1 ELSE 0)
        /\ n = vu.signees + (IF w.genre = "signe" THEN 1 ELSE 0)
    BY DEF Inv, Types, VuType
  <2>1. f \in [Refs -> Nat] /\ n \in Int
    BY DEF Inv, Types, VuType
  <2>. HIDE DEF f, n
  <2>5. vu' \in VuType /\ vu'.faux = f /\ vu'.signees = n
    BY <2>1, <2>3 DEF Inv, Types, VuType
  <2>. QED  BY <2>3, <2>4, <2>5 DEF Inv, Types, VuType
<1>4. Types' /\ Etapes' /\ Usage'
  BY <1>1, <1>2, <1>3, OisifType DEF Inv, Types, Etapes, Usage
<1>5. Comptes'
  <2>1. ASSUME ~vu.panne, NEW q \in Refs
        PROVE  /\ vu'.faux[q] + 0 + carte.pins.essais[q] <= Essais
               /\ vu'.faux[q] + nvs.pins.essais[q] <= Essais
               /\ nvs.pins = carte.pins
    <3>1. /\ vu.faux[q] + (IF w.genre = q THEN 1 ELSE 0) + carte.pins.essais[q] <= Essais
          /\ nvs.pins = carte.pins
      BY <1>1, <2>1 DEF Inv, Comptes
    <3>2. /\ vu.faux[q] \in Nat /\ carte.pins.essais[q] \in Nat /\ Essais \in Nat
      BY Delais DEF Inv, Types, VuType, CarteType, PinsType
    <3>. QED  BY <1>3, <3>1, <3>2
  <2>. QED  BY <1>1, <1>3, <2>1, OisifType DEF Comptes, Refs
<1>6. Signatures'
  BY <1>1, <1>3, OisifType DEF Inv, Signatures, Types, VuType, NvsType, DosType
<1>. QED  BY <1>4, <1>5, <1>6 DEF Inv
\* The pipe and the endpoints: they touch nothing that the worker works on.
LEMMA UsbInv ==
    ASSUME Inv,
           \/ \E k \in Commandes : ccid_dispatch(k)
           \/ ccid_inline \/ ccid_send_wtx_cb \/ ccid_send_final_cb
           \/ \E plein \in BOOLEAN : ccid_drv_xfer_in(plein)
           \/ ccid_drv_reset \/ ccid_drv_open
    PROVE  Inv'
<1>1. UNCHANGED <<carte, nvs, w, conf>>
  BY DEF ccid_dispatch, ccid_inline, ccid_send_wtx_cb, ccid_send_final_cb,
         ccid_drv_xfer_in, ccid_drv_reset, ccid_drv_open
<1>. DEFINE Epargne ==
              /\ usb' \in UsbType /\ hote' \in {"libre", "attend"} /\ reste' \in ResteType
              /\ vu' \in VuType
              /\ vu'.faux = vu.faux /\ vu'.signees = vu.signees /\ vu'.panne = vu.panne
              /\ vu'.preuve = vu.preuve /\ vu'.seules = vu.seules
              /\ vu'.touche = vu.touche
<1>2. Epargne
  <2>1. /\ usb \in UsbType /\ hote \in {"libre", "attend"} /\ reste \in ResteType
        /\ vu \in VuType
    BY DEF Inv, Types
  <2>2. ASSUME NEW k \in Commandes, ccid_dispatch(k) PROVE Epargne
    <3>1. usb' \in UsbType
      BY <2>1, <2>2 DEF ccid_dispatch, UsbType, ResteType
    <3>2. /\ vu' \in VuType
          /\ vu'.faux = vu.faux /\ vu'.signees = vu.signees /\ vu'.panne = vu.panne
          /\ vu'.preuve = vu.preuve /\ vu'.seules = vu.seules
          /\ vu'.touche = vu.touche
      BY <2>1, <2>2 DEF ccid_dispatch, VuType
    <3>. QED  BY <2>1, <2>2, <3>1, <3>2 DEF ccid_dispatch
  <2>3. CASE ccid_inline
    <3>1. usb' \in UsbType
      BY <2>1, <2>3 DEF ccid_inline, UsbType, ResteType
    <3>2. /\ vu' \in VuType
          /\ vu'.faux = vu.faux /\ vu'.signees = vu.signees /\ vu'.panne = vu.panne
          /\ vu'.preuve = vu.preuve /\ vu'.seules = vu.seules
          /\ vu'.touche = vu.touche
      BY <2>1, <2>3 DEF ccid_inline, VuType
    <3>. QED  BY <2>1, <2>3, <3>1, <3>2 DEF ccid_inline
  <2>4. CASE ccid_send_wtx_cb
    <3>1. Tail(usb.file) \in Seq({"wtx", "rep"})
      BY <2>1, <2>4 DEF ccid_send_wtx_cb, UsbType
    <3>. QED  BY <2>1, <2>4, <3>1 DEF ccid_send_wtx_cb, UsbType
  <2>5. CASE ccid_send_final_cb
    <3>1. /\ Tail(usb.file) \in Seq({"wtx", "rep"})
          /\ Append(Tail(usb.file), "rep") \in Seq({"wtx", "rep"})
      BY <2>1, <2>5 DEF ccid_send_final_cb, UsbType
    <3>2. usb' \in UsbType
      <4>. DEFINE u == [usb EXCEPT !.file = Tail(@)]
      <4>1. u \in UsbType /\ u.file = Tail(usb.file) /\ u.reprises \in Nat
        BY <2>1, <3>1 DEF UsbType
      <4>2. \/ usb' = [u EXCEPT !.finale = FALSE]
            \/ usb' = [u EXCEPT !.file = Append(@, "rep"), !.reprises = @ + 1]
            \/ usb' = u
            \/ usb' = [u EXCEPT !.finale = TRUE, !.entree = "rep"]
        BY <2>5 DEF ccid_send_final_cb
      <4>. HIDE DEF u
      <4>3. Append(u.file, "rep") \in Seq({"wtx", "rep"}) /\ u.reprises + 1 \in Nat
        BY <3>1, <4>1
      <4>. QED  BY <4>1, <4>2, <4>3 DEF UsbType
    <3>3. /\ vu' \in VuType
          /\ vu'.faux = vu.faux /\ vu'.signees = vu.signees /\ vu'.panne = vu.panne
          /\ vu'.preuve = vu.preuve /\ vu'.seules = vu.seules
          /\ vu'.touche = vu.touche
      <4>1. CASE UNCHANGED vu
        BY <2>1, <4>1
      <4>2. CASE vu' = [vu EXCEPT !.lache = @ \/ usb.reprises >= Reprises]
        BY <2>1, <4>2 DEF VuType
      <4>. QED  BY <2>5, <4>1, <4>2 DEF ccid_send_final_cb
    <3>. QED  BY <2>1, <2>5, <3>2, <3>3 DEF ccid_send_final_cb
  <2>6. ASSUME NEW plein \in BOOLEAN, ccid_drv_xfer_in(plein) PROVE Epargne
    <3>. DEFINE recue == usb.entree # "wtx" /\ usb.ecrit.seq = reste.commandes
    <3>1. CASE usb.entree = "rep" /\ usb.finale /\ plein
      BY <2>1, <2>6, <3>1 DEF ccid_drv_xfer_in, UsbType
    <3>2. CASE ~(usb.entree = "rep" /\ usb.finale /\ plein)
      <4>1. /\ usb' = [usb EXCEPT !.entree = "libre", !.finale = FALSE,
                                   !.amorce = @ \/ usb.finale]
            /\ hote' = IF recue THEN "libre" ELSE hote
            /\ reste' = IF recue THEN [reste EXCEPT !.commandes = @ - 1] ELSE reste
            /\ vu' = [vu EXCEPT !.trompe = @ \/ (recue /\ usb.ecrit.n # usb.ecrit.seq)]
        BY <2>6, <3>2 DEF ccid_drv_xfer_in
      <4>. HIDE DEF recue
      <4>2. usb' \in UsbType
        BY <2>1, <4>1 DEF UsbType
      <4>3. hote' \in {"libre", "attend"} /\ reste' \in ResteType
        BY <2>1, <4>1 DEF ResteType
      <4>. QED  BY <2>1, <4>1, <4>2, <4>3 DEF VuType
    <3>. QED  BY <3>1, <3>2
  <2>7. CASE ccid_drv_reset
    <3>1. usb' \in UsbType /\ vu' = vu
      BY <2>1, <2>7 DEF ccid_drv_reset, UsbType
    <3>2. hote' \in {"libre", "attend"} /\ reste' \in ResteType
      <4>1. /\ hote' = "libre"
            /\ \/ reste' = [reste EXCEPT !.commandes = @ - 1, !.resets = @ - 1]
               \/ reste' = [reste EXCEPT !.resets = @ - 1]
        BY <2>7 DEF ccid_drv_reset, Abandon
      <4>2. reste.commandes - 1 \in Int /\ reste.resets - 1 \in Int
        BY <2>1 DEF ResteType
      <4>. QED  BY <2>1, <4>1, <4>2 DEF ResteType
    <3>. QED  BY <2>1, <3>1, <3>2
  <2>8. CASE ccid_drv_open
    BY <2>1, <2>8 DEF ccid_drv_open, UsbType
  <2>. QED  BY <2>2, <2>3, <2>4, <2>5, <2>6, <2>7, <2>8
<1>3. Types'
  BY <1>1, <1>2 DEF Inv, Types
<1>. QED  BY <1>1, <1>2, <1>3, Ailleurs

\* Unplugged between any two writes: what was not answered was counted.
LEMMA CouperInv == Inv /\ Couper => Inv'
<1>. SUFFICES ASSUME Inv, Couper PROVE Inv'
  OBVIOUS
<1>1. /\ carte' \in CarteType /\ carte'.pins = nvs.pins /\ carte'.dos = nvs.dos
      /\ ~carte'.v81 /\ ~carte'.v82 /\ nvs' = nvs
  BY DEF Couper, Demarrer, Inv, Types, CarteType, NvsType
<1>2. vu' \in VuType /\ vu'.faux = vu.faux /\ vu'.signees = vu.signees
      /\ vu'.panne = vu.panne
  BY DEF Couper, Inv, Types, VuType
<1>3. /\ w' \in WType /\ w'.pc = "attend" /\ w'.suite = <<>> /\ w'.genre = "aucun"
  BY OisifType DEF Couper
<1>4. conf' \in ConfType /\ usb' \in UsbType
  <2>1. Rien \in Commandes
    BY DEF Rien, Commandes
  <2>2. <<>> \in Seq({"wtx", "rep"})
    OBVIOUS
  <2>. QED  BY <2>1, <2>2, Delais DEF Couper, Calme, Ferme, ConfType, UsbType
<1>5. reste' \in ResteType
  <2>1. /\ (IF hote = "attend" THEN reste.commandes - 1 ELSE reste.commandes) \in Int
        /\ reste.coupures - 1 \in Int
    BY DEF Inv, Types, ResteType
  <2>2. reste' = [reste EXCEPT !.coupures = @ - 1,
                               !.commandes = IF hote = "attend" THEN @ - 1 ELSE @]
    BY DEF Couper
  <2>. QED  BY <2>1, <2>2 DEF Inv, Types, ResteType
<1>6. Types'
  BY <1>1, <1>2, <1>3, <1>4, <1>5 DEF Couper, Inv, Types
<1>7. Etapes' /\ Usage'
  BY <1>1, <1>3 DEF Etapes, Usage
<1>8. Comptes'
  <2>1. \A q \in Refs : vu.faux[q] \in Nat
    BY DEF Inv, Types, VuType
  <2>. QED  BY <1>1, <1>2, <1>3, <2>1 DEF Inv, Comptes, Refs
<1>9. Signatures'
  <2>1. vu.signees \in Int /\ nvs.dos.ds \in Nat
    BY DEF Inv, Types, VuType, NvsType, DosType
  <2>. QED  BY <1>1, <1>2, <1>3, <2>1 DEF Inv, Signatures
<1>. QED  BY <1>6, <1>7, <1>8, <1>9 DEF Inv
-----------------------------------------------------------------------------
(***************************************************************************)
(* The theorems.                                                           *)
(***************************************************************************)
LEMMA InitInv == Init => Inv
<1>. SUFFICES ASSUME Init PROVE Inv
  OBVIOUS
<1>1. nvs \in NvsType /\ nvs.dos.ds = 0 /\ \A q \in Refs : nvs.pins.essais[q] = Essais
  <2>. DEFINE p == [pins_factory EXCEPT !.pin = [q \in Refs |-> 1]]
              d == [ensure_defaults EXCEPT !.uif = [s \in Slots |-> TRUE]]
              c == [s \in Slots |-> TRUE]
  <2>1. p \in PinsType /\ \A q \in Refs : p.essais[q] = Essais
    BY Delais DEF pins_factory, PinsType, Pins
  <2>2. d \in DosType /\ d.ds = 0
    BY DEF ensure_defaults, DosType
  <2>3. c \in ClesType
    BY DEF ClesType
  <2>4. nvs = [pins |-> p, cles |-> c, dos |-> d]
    BY DEF Init
  <2>. HIDE DEF p, d, c
  <2>. QED  BY <2>1, <2>2, <2>3, <2>4 DEF NvsType
<1>2. carte \in CarteType /\ carte.pins = nvs.pins /\ carte.dos = nvs.dos
  BY <1>1 DEF Init, Demarrer, CarteType, NvsType
<1>3. w \in WType /\ w.pc = "attend" /\ w.suite = <<>> /\ w.genre = "aucun"
  BY OisifType DEF Init
<1>4. conf \in ConfType /\ usb \in UsbType
  <2>1. Rien \in Commandes
    BY DEF Rien, Commandes
  <2>2. <<>> \in Seq({"wtx", "rep"})
    OBVIOUS
  <2>3. Ferme \in UsbType /\ Calme \in ConfType
    BY <2>1, <2>2, Delais DEF Calme, Ferme, ConfType, UsbType
  <2>4. conf = Calme /\ usb = [Ferme EXCEPT !.ouvert = TRUE, !.amorce = TRUE]
    BY DEF Init
  <2>. QED  BY <2>3, <2>4 DEF UsbType
<1>5. reste \in ResteType
  BY BudgetsAssumption DEF Init, ResteType
<1>6. /\ vu \in VuType /\ vu.signees = 0 /\ vu.seules = 0 /\ vu.preuve = {81, 82, 83}
      /\ \A q \in Refs : vu.faux[q] = 0
  BY DEF Init, VuType
<1>7. Types
  BY <1>1, <1>2, <1>3, <1>4, <1>5, <1>6 DEF Init, Types
<1>8. Etapes /\ Usage
  BY <1>3, <1>6 DEF Etapes, Usage
<1>9. Comptes /\ Signatures
  <2>1. Essais \in Nat
    BY Delais
  <2>. QED  BY <1>1, <1>2, <1>3, <1>6, <2>1 DEF Comptes, Signatures, Refs
<1>. QED  BY <1>7, <1>8, <1>9 DEF Inv

LEMMA NextInv == Inv /\ [Next]_vars => Inv'
<1>. SUFFICES ASSUME Inv, [Next]_vars PROVE Inv'
  OBVIOUS
<1>1. CASE Applet
  <2>1. CASE Terminate \/ Activate
    <3>1. ASSUME NEW fini \in BOOLEAN, factory_reset(fini),
                 w.pc = "apdu", w.cmd.ins # "cle"
          PROVE  Inv'
      BY <3>1, ResetInv
    <3>2. CASE Terminate
      BY <3>1, <3>2 DEF Terminate, Commande
    <3>3. CASE Activate /\ carte.fini
      BY <3>1, <3>3 DEF Activate, Commande
    <3>4. CASE Activate /\ ~carte.fini
      <4>1. w' \in WType /\ Etapes' /\ Comptes' /\ Signatures' /\ Usage'
        BY <3>4, Rendre DEF Activate, Commande
      <4>. QED  BY <3>4, <4>1 DEF Activate, Inv, Types
    <3>. QED  BY <2>1, <3>2, <3>3, <3>4
  <2>2. CASE \E ok \in BOOLEAN : Signer(ok) \/ Ecrire(ok)
    BY <2>2, SignerInv, EcrireInv
  <2>. QED  BY <1>1, <2>1, <2>2, RefuserInv, SelectInv, VerifyInv, ChangeInv, MettreInv,
               MettreCompteurInv, CleInv, UtiliserInv, ExpirerInv, ConsommerInv, ConfInv, WorkerInv,
               RepondreInv DEF Applet
<1>2. CASE Appuyer \/ Autoriser
  BY <1>2, ConfInv
<1>3. CASE TudTask \/ ccid_inline \/ ccid_drv_reset \/ ccid_drv_open
  BY <1>3, UsbInv DEF TudTask
<1>4. CASE \E k \in Commandes : ccid_dispatch(k)
  BY <1>4, UsbInv
<1>5. CASE \E plein \in BOOLEAN : ccid_drv_xfer_in(plein)
  BY <1>5, UsbInv
<1>6. CASE Couper
  BY <1>6, CouperInv
<1>7. CASE UNCHANGED vars
  <2>1. UNCHANGED <<carte, nvs, w, conf, vu>> /\ Types'
    BY <1>7 DEF vars, Inv, Types
  <2>. QED  BY <2>1, Ailleurs
<1>. QED  BY <1>1, <1>2, <1>3, <1>4, <1>5, <1>6, <1>7 DEF Next

LEMMA InvHolds == Spec => []Inv
BY InitInv, NextInv, PTL DEF Spec

\* Unplugged at any moment and started again, the card answers no more wrong
\* PINs than the tries there are, and the counter kept counts every signature
\* handed out from its base (zero, or what PUT DATA of 93 set), modulo its 3
\* bytes, as long as no write fails: for any number of tries, of slots, of
\* values of the counter and of commands.
THEOREM CountersAlways == Spec => []CountersSurvive
<1>1. Inv => CountersSurvive
  <2>. SUFFICES ASSUME Inv PROVE CountersSurvive
    OBVIOUS
  <2>1. TypeOK
    BY DEF Inv, Types, TypeOK, CarteType, PinsType, ClesType, DosType, WType, ConfType,
           UsbType
  <2>2. ASSUME ~vu.panne, NEW q \in Refs PROVE vu.faux[q] <= Essais
    <3>1. vu.faux[q] \in Nat /\ nvs.pins.essais[q] \in Nat /\ Essais \in Nat
      BY Delais DEF Inv, Types, VuType, NvsType, PinsType
    <3>. QED  BY <2>2, <3>1 DEF Inv, Comptes
  <2>3. ASSUME ~vu.panne PROVE vu.signees <= nvs.dos.ds
    <3>1. vu.signees \in Int /\ nvs.dos.ds \in Nat
      BY DEF Inv, Types, VuType, NvsType, DosType
    <3>. QED  BY <2>3, <3>1 DEF Inv, Signatures
  <2>. QED  BY <2>1, <2>2, <2>3 DEF CountersSurvive
<1>. QED  BY InvHolds, <1>1, PTL

\* A key is used after its PIN and its touch, and once per PIN where that is
\* asked, however the touch, its deadline and the commands interleave.
THEOREM UseAuthorised == Spec => UseIsAuthorised
<1>. DEFINE Permis ==
         w.pc = "signe" /\ w'.pc \in {"ecrit", "repond"} =>
           /\ (IF w.cmd.slot = "sig" THEN 81 ELSE 82) \in vu.preuve
           /\ carte.dos.uif[w.cmd.slot] => vu.touche
           /\ w.cmd.slot = "sig" /\ ~carte.dos.multi => vu.seules = 0
<1>1. Inv => [Permis]_vars
  BY DEF Inv, Usage
<1>. QED  BY InvHolds, <1>1, PTL DEF Spec, UseIsAuthorised
=============================================================================
