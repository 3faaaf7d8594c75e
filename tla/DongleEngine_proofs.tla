------------------------- MODULE DongleEngine_proofs -------------------------
(***************************************************************************)
(* The dongle's engine, for every capacity, set of half-matrices, timeout  *)
(* and link-loss delay: its ring, its inductive invariant, what the host   *)
(* holds, and the replay of every transition.                              *)
(***************************************************************************)
EXTENDS DongleEngine, SequenceTheorems, TLAPS

(***************************************************************************)
(* First, what the ring does to the sequence it stands for, for every      *)
(* capacity and every set of states.                                       *)
(*                                                                         *)
(* Positions modulo the capacity: within one turn of the ring, a position  *)
(* is the sum or the sum less one turn.                                    *)
(***************************************************************************)
LEMMA OneTurn ==
  ASSUME NEW a \in Slots, NEW b \in 0 .. Cap
  PROVE  /\ (a + b) % Cap \in Slots
         /\ (a + b) % Cap = IF a + b < Cap THEN a + b ELSE a + b - Cap
  BY CapAssumption, Z3 DEF Slots

(***************************************************************************)
(* Two different places of the ring are two different slots.               *)
(***************************************************************************)
LEMMA SlotsDiffer ==
  ASSUME NEW a \in Slots, NEW b \in Slots, NEW c \in Slots, b # c
  PROVE  (a + b) % Cap # (a + c) % Cap
<1>1. Cap \in Nat \ {0} /\ b \in 0 .. Cap /\ c \in 0 .. Cap
  BY CapAssumption DEF Slots
<1>2. (a + b) % Cap = IF a + b < Cap THEN a + b ELSE a + b - Cap
  BY <1>1, OneTurn
<1>3. (a + c) % Cap = IF a + c < Cap THEN a + c ELSE a + c - Cap
  BY <1>1, OneTurn
<1> QED BY <1>1, <1>2, <1>3 DEF Slots

(***************************************************************************)
(* One place after the head, then k more, is k + 1 places after the head.  *)
(***************************************************************************)
LEMMA NextTurn ==
  ASSUME NEW a \in Slots, NEW k \in 0 .. Cap - 1
  PROVE  (((a + 1) % Cap) + k) % Cap = (a + (k + 1)) % Cap
<1>1. Cap \in Nat \ {0} /\ 1 \in 0 .. Cap /\ k \in 0 .. Cap /\ k + 1 \in 0 .. Cap
  BY CapAssumption
<1>2. (a + 1) % Cap = IF a + 1 < Cap THEN a + 1 ELSE a + 1 - Cap
  BY <1>1, OneTurn
<1>3. (a + (k + 1)) % Cap = IF a + (k + 1) < Cap THEN a + (k + 1) ELSE a + (k + 1) - Cap
  BY <1>1, OneTurn
<1>4. DEFINE b == (a + 1) % Cap
<1>5. b \in Slots
  BY <1>1, OneTurn
<1>6. (b + k) % Cap = IF b + k < Cap THEN b + k ELSE b + k - Cap
  BY <1>1, <1>5, OneTurn
<1> QED BY <1>1, <1>2, <1>3, <1>5, <1>6 DEF Slots

(***************************************************************************)
(* The content of a queue is a sequence of states, one per pending slot.   *)
(***************************************************************************)
LEMMA ContentIsSeq ==
  ASSUME NEW S, NEW f \in Files(S)
  PROVE  /\ Content(f) \in Seq(S)
         /\ Len(Content(f)) = f.n
         /\ \A i \in 1 .. f.n : Content(f)[i] = f.etats[Slot(f, i - 1)]
<1>1. f.n \in 0 .. Cap /\ f.tete \in Slots /\ f.etats \in [Slots -> S] /\ Cap \in Nat \ {0}
  BY CapAssumption DEF Files
<1>2. ASSUME NEW i \in 1 .. f.n PROVE f.etats[Slot(f, i - 1)] \in S
  BY <1>1, OneTurn DEF Slot
<1>3. Content(f) \in [1 .. f.n -> S]
  BY <1>2 DEF Content
<1>4. f.n \in Nat
  BY <1>1
<1>5. Content(f) \in Seq(S)
  BY <1>3, <1>4, SeqDef
<1>6. Len(Content(f)) = f.n
  BY <1>3, <1>4, <1>5, LenProperties
<1> QED BY <1>5, <1>6 DEF Content

(***************************************************************************)
(* Two queues with the same head have the same slots.                      *)
(***************************************************************************)
LEMMA SameHead ==
  ASSUME NEW S, NEW f \in Files(S), NEW g \in Files(S), g.tete = f.tete
  PROVE  \A i \in 1 .. g.n : Content(g)[i] = g.etats[Slot(f, i - 1)]
<1>1. ASSUME NEW i \in 1 .. g.n PROVE Slot(g, i - 1) = Slot(f, i - 1)
  BY DEF Slot
<1> QED BY <1>1, ContentIsSeq

(***************************************************************************)
(* Pop hands out the oldest state and leaves the others in their order:    *)
(* fusion_file_pop is the head and the tail of the sequence.               *)
(***************************************************************************)
THEOREM PopContent ==
  ASSUME NEW S, NEW f \in Files(S), f.n > 0
  PROVE  /\ Pop(f) \in Files(S)
         /\ Content(f) # << >>
         /\ Oldest(f) = Head(Content(f))
         /\ Content(Pop(f)) = Tail(Content(f))
<1>1. /\ Cap \in Nat \ {0} /\ f.tete \in Slots /\ f.n \in 1 .. Cap
      /\ f.etats \in [Slots -> S] /\ f.dernier \in S
      /\ f.dernier_valide \in BOOLEAN /\ f.ecrasees \in 0 .. CountMod - 1
  BY CapAssumption DEF Files
<1>2. Slot(f, 1) \in Slots
  BY <1>1, OneTurn DEF Slot
<1>3. Pop(f) \in Files(S)
  BY <1>1, <1>2 DEF Files, Pop, File
<1>4. Content(f) \in Seq(S) /\ Len(Content(f)) = f.n /\ Content(f) # << >>
  BY <1>1, ContentIsSeq, EmptySeq
<1>5. Oldest(f) = Head(Content(f))
  <2>1. Slot(f, 0) = f.tete
    BY <1>1, OneTurn DEF Slot, Slots
  <2>2. Content(f)[1] = f.etats[Slot(f, 0)]
    BY <1>1, ContentIsSeq
  <2> QED BY <2>1, <2>2 DEF Oldest
<1>6. Content(Pop(f)) = Tail(Content(f))
  <2>1. Pop(f).n = f.n - 1 /\ Pop(f).etats = f.etats /\ Pop(f).tete = Slot(f, 1)
    BY DEF Pop, File
  <2>2. /\ Content(Pop(f)) \in Seq(S) /\ Len(Content(Pop(f))) = f.n - 1
        /\ \A i \in 1 .. f.n - 1 : Content(Pop(f))[i] = f.etats[Slot(Pop(f), i - 1)]
    BY <1>3, <2>1, ContentIsSeq
  <2>3. /\ Tail(Content(f)) \in Seq(S) /\ Len(Tail(Content(f))) = f.n - 1
        /\ \A i \in 1 .. f.n - 1 : Tail(Content(f))[i] = Content(f)[i + 1]
    BY <1>4, HeadTailProperties
  <2>4. ASSUME NEW i \in 1 .. f.n - 1
        PROVE  Content(Pop(f))[i] = Tail(Content(f))[i]
    <3>1. i - 1 \in 0 .. Cap - 1 /\ i + 1 \in 1 .. f.n
      BY <1>1
    <3>2. Slot(Pop(f), i - 1) = Slot(f, i)
      BY <1>1, <2>1, <3>1, NextTurn DEF Slot
    <3>3. Content(f)[i + 1] = f.etats[Slot(f, i)]
      BY <1>1, <3>1, ContentIsSeq
    <3> QED BY <2>2, <2>3, <3>2, <3>3
  <2> QED BY <2>2, <2>3, <2>4, SeqEqual
<1> QED BY <1>3, <1>4, <1>5, <1>6

(***************************************************************************)
(* An accepted push appends the state when there is room and replaces the  *)
(* most recent pending one when there is none; nothing else moves, and the *)
(* state pushed is then the last one.                                      *)
(***************************************************************************)
THEOREM PushContent ==
  ASSUME NEW S, NEW f \in Files(S), NEW e \in S, ~Meme(f, e)
  PROVE  /\ Push(f, e) \in Files(S)
         /\ Push(f, e).dernier = e /\ Push(f, e).dernier_valide
         /\ Push(f, e).n = IF f.n = Cap THEN Cap ELSE f.n + 1
         /\ f.n < Cap => Content(Push(f, e)) = Append(Content(f), e)
         /\ f.n = Cap => Content(Push(f, e)) = [Content(f) EXCEPT ![Cap] = e]
<1>1. /\ Cap \in Nat \ {0} /\ CountMod \in Nat \ {0} /\ f.tete \in Slots
      /\ f.n \in 0 .. Cap /\ f.etats \in [Slots -> S] /\ f.dernier \in S
      /\ f.dernier_valide \in BOOLEAN /\ f.ecrasees \in 0 .. CountMod - 1
  BY CapAssumption, CountAssumption DEF Files
<1>2. Content(f) \in Seq(S) /\ Len(Content(f)) = f.n
  BY ContentIsSeq
<1>3. ASSUME NEW i \in 1 .. Cap, NEW k \in 0 .. Cap - 1, i - 1 # k
      PROVE  Slot(f, i - 1) # Slot(f, k)
  <2>1. i - 1 \in Slots /\ k \in Slots
    BY <1>1 DEF Slots
  <2> QED BY <1>1, <1>3, <2>1, SlotsDiffer DEF Slot
<1>4. CASE f.n < Cap
  <2>1. Push(f, e) = AddLast(f, e)
    BY <1>1, <1>4 DEF Push
  <2>2. Slot(f, f.n) \in Slots
    BY <1>1, OneTurn DEF Slot
  <2>3. Push(f, e) \in Files(S)
    BY <1>1, <1>4, <2>1, <2>2 DEF Files, AddLast, File
  <2>4. /\ Push(f, e).n = f.n + 1 /\ Push(f, e).tete = f.tete
        /\ Push(f, e).dernier = e /\ Push(f, e).dernier_valide
        /\ Push(f, e).etats = [f.etats EXCEPT ![Slot(f, f.n)] = e]
    BY <2>1 DEF AddLast, File
  <2>5. /\ Content(Push(f, e)) \in Seq(S) /\ Len(Content(Push(f, e))) = f.n + 1
        /\ \A i \in 1 .. f.n + 1 :
              Content(Push(f, e))[i] = Push(f, e).etats[Slot(f, i - 1)]
    <3>1. Content(Push(f, e)) \in Seq(S) /\ Len(Content(Push(f, e))) = Push(f, e).n
      BY <2>3, ContentIsSeq
    <3>2. \A i \in 1 .. Push(f, e).n :
              Content(Push(f, e))[i] = Push(f, e).etats[Slot(f, i - 1)]
      <4>1. Push(f, e) \in Files(S) /\ Push(f, e).tete = f.tete
        BY <2>3, <2>4
      <4> QED BY <4>1, SameHead, Zenon
    <3> QED BY <2>4, <3>1, <3>2
  <2>6. ASSUME NEW i \in 1 .. f.n + 1
        PROVE  Content(Push(f, e))[i] = Append(Content(f), e)[i]
    <3>1. CASE i = f.n + 1
      <4>1. Slot(f, i - 1) = Slot(f, f.n)
        BY <1>1, <3>1
      <4> QED BY <1>1, <1>2, <2>2, <2>4, <2>5, <3>1, <4>1
    <3>2. CASE i \in 1 .. f.n
      <4>1. Slot(f, i - 1) # Slot(f, f.n) /\ Slot(f, i - 1) \in Slots
        BY <1>1, <1>3, <1>4, <3>2, OneTurn DEF Slot
      <4>2. Content(f)[i] = f.etats[Slot(f, i - 1)]
        BY <3>2, ContentIsSeq
      <4> QED BY <1>1, <1>2, <2>4, <2>5, <3>2, <4>1, <4>2
    <3>3. i = f.n + 1 \/ i \in 1 .. f.n
      BY <1>1
    <3> QED BY <3>1, <3>2, <3>3
  <2>7. Append(Content(f), e) \in Seq(S) /\ Len(Append(Content(f), e)) = f.n + 1
    BY <1>2
  <2>8. Content(Push(f, e)) = Append(Content(f), e)
    BY <2>5, <2>6, <2>7, SeqEqual
  <2> QED BY <1>1, <1>4, <2>3, <2>4, <2>8
<1>5. CASE f.n = Cap
  <2>1. Push(f, e) = MergeLast(f, e)
    BY <1>5 DEF Push
  <2>2. Slot(f, Cap - 1) \in Slots
    BY <1>1, OneTurn DEF Slot
  <2>3. (f.ecrasees + 1) % CountMod \in 0 .. CountMod - 1
    BY <1>1
  <2>4. Push(f, e) \in Files(S)
    BY <1>1, <2>1, <2>2, <2>3 DEF Files, MergeLast, File
  <2>5. /\ Push(f, e).n = Cap /\ Push(f, e).tete = f.tete
        /\ Push(f, e).dernier = e /\ Push(f, e).dernier_valide
        /\ Push(f, e).etats = [f.etats EXCEPT ![Slot(f, Cap - 1)] = e]
    BY <1>5, <2>1 DEF MergeLast, File
  <2>6. /\ Content(Push(f, e)) \in Seq(S) /\ Len(Content(Push(f, e))) = Cap
        /\ \A i \in 1 .. Cap :
              Content(Push(f, e))[i] = Push(f, e).etats[Slot(f, i - 1)]
    <3>1. Content(Push(f, e)) \in Seq(S) /\ Len(Content(Push(f, e))) = Push(f, e).n
      BY <2>4, ContentIsSeq
    <3>2. \A i \in 1 .. Push(f, e).n :
              Content(Push(f, e))[i] = Push(f, e).etats[Slot(f, i - 1)]
      <4>1. Push(f, e) \in Files(S) /\ Push(f, e).tete = f.tete
        BY <2>4, <2>5
      <4> QED BY <4>1, SameHead, Zenon
    <3> QED BY <2>5, <3>1, <3>2
  <2>7. /\ [Content(f) EXCEPT ![Cap] = e] \in Seq(S)
        /\ Len([Content(f) EXCEPT ![Cap] = e]) = Cap
        /\ \A i \in 1 .. Cap : [Content(f) EXCEPT ![Cap] = e][i]
                               = IF i = Cap THEN e ELSE Content(f)[i]
    BY <1>1, <1>2, <1>5, ExceptSeq
  <2>8. ASSUME NEW i \in 1 .. Cap
        PROVE  Content(Push(f, e))[i] = [Content(f) EXCEPT ![Cap] = e][i]
    <3>1. CASE i = Cap
      BY <1>1, <2>2, <2>5, <2>6, <2>7, <3>1
    <3>2. CASE i # Cap
      <4>0. Cap - 1 \in 0 .. Cap - 1 /\ i - 1 # Cap - 1 /\ i - 1 \in 0 .. Cap
        BY <1>1, <3>2
      <4>1. Slot(f, i - 1) # Slot(f, Cap - 1)
        BY <1>3, <4>0
      <4>2. Slot(f, i - 1) \in Slots
        BY <1>1, <4>0, OneTurn DEF Slot
      <4>3. Content(f)[i] = f.etats[Slot(f, i - 1)]
        BY <1>5, ContentIsSeq
      <4> QED BY <1>1, <2>5, <2>6, <2>7, <3>2, <4>1, <4>2, <4>3
    <3> QED BY <3>1, <3>2
  <2>9. Content(Push(f, e)) = [Content(f) EXCEPT ![Cap] = e]
    BY <2>6, <2>7, <2>8, SeqEqual
  <2> QED BY <1>1, <1>5, <2>4, <2>5, <2>9
<1> QED BY <1>1, <1>4, <1>5

(***************************************************************************)
(* The last element of the content is the state kept for deduplication:    *)
(* stated of one push, it is what makes a repeat invisible to the engine.  *)
(***************************************************************************)
LEMMA PushIsLast ==
  ASSUME NEW S, NEW f \in Files(S), NEW e \in S, ~Meme(f, e)
  PROVE  /\ Push(f, e).n \in 1 .. Cap
         /\ Content(Push(f, e))[Push(f, e).n] = e
<1>1. Cap \in Nat \ {0} /\ f.n \in 0 .. Cap
  BY CapAssumption DEF Files
<1>2. Content(f) \in Seq(S) /\ Len(Content(f)) = f.n
  BY ContentIsSeq
<1>3. CASE f.n < Cap
  BY <1>1, <1>2, <1>3, PushContent
<1>4. CASE f.n = Cap
  <2>1. [Content(f) EXCEPT ![Cap] = e][Cap] = e
    BY <1>1, <1>2, <1>4, ExceptSeq
  <2>2. Push(f, e).n = Cap /\ Content(Push(f, e)) = [Content(f) EXCEPT ![Cap] = e]
    BY <1>4, PushContent
  <2> QED BY <1>1, <2>1, <2>2
<1> QED BY <1>1, <1>3, <1>4

(***************************************************************************)
(* The initial queue and an emptied queue stand for the empty sequence.    *)
(***************************************************************************)
LEMMA EmptyContent ==
  ASSUME NEW S, NEW f \in Files(S), NEW zero \in S
  PROVE  /\ FileInit(zero) \in Files(S) /\ Content(FileInit(zero)) = << >>
         /\ Vider(f) \in Files(S) /\ Content(Vider(f)) = << >>
<1>1. 0 \in Slots /\ 0 \in 0 .. Cap /\ 0 \in 0 .. CountMod - 1
  BY CapAssumption, CountAssumption DEF Slots
<1>2. FileInit(zero) \in Files(S) /\ FileInit(zero).n = 0
  BY <1>1 DEF FileInit, Files, File
<1>3. Vider(f) \in Files(S) /\ Vider(f).n = 0
  BY <1>1 DEF Vider, Files, File
<1> QED BY <1>2, <1>3, ContentIsSeq, EmptySeq

(***************************************************************************)
(* Whatever is pushed, accepted or not, the queue then ends on it.         *)
(***************************************************************************)
THEOREM PushEndsOn ==
  ASSUME NEW S, NEW f \in Files(S), NEW e \in S, NEW c \in S, EndsOn(f, c)
  PROVE  /\ Push(f, e) \in Files(S)
         /\ EndsOn(Push(f, e), e)
         /\ Push(f, e).dernier_valide
         /\ Push(f, e).n >= f.n
         /\ ~Meme(f, e) => Push(f, e).n > 0
<1>1. CASE Meme(f, e)
  <2>1. Push(f, e) = f /\ f.dernier_valide /\ f.dernier = e
    BY <1>1 DEF Push, Meme
  <2>2. e = c
    BY <2>1 DEF EndsOn
  <2>3. f.n \in 0 .. Cap /\ Cap \in Nat
    BY CapAssumption DEF Files
  <2> QED BY <1>1, <2>1, <2>2, <2>3
<1>2. CASE ~Meme(f, e)
  <2>1. /\ Push(f, e) \in Files(S)
        /\ Push(f, e).dernier = e /\ Push(f, e).dernier_valide
        /\ Push(f, e).n = IF f.n = Cap THEN Cap ELSE f.n + 1
    BY <1>2, PushContent
  <2>2. Push(f, e).n \in 1 .. Cap /\ Content(Push(f, e))[Push(f, e).n] = e
    BY <1>2, PushIsLast
  <2>3. f.n \in 0 .. Cap /\ Cap \in Nat
    BY CapAssumption DEF Files
  <2> QED BY <2>1, <2>2, <2>3 DEF EndsOn
<1> QED BY <1>1, <1>2

(***************************************************************************)
(* Popping does not change what the queue ends on, and the state popped    *)
(* from a queue of one is what it ended on.                                *)
(***************************************************************************)
THEOREM PopEndsOn ==
  ASSUME NEW S, NEW f \in Files(S), NEW e \in S, f.n > 0, EndsOn(f, e)
  PROVE  /\ EndsOn(Pop(f), e)
         /\ Pop(f).n = 0 => Oldest(f) = e
         /\ Oldest(f) \in S
<1>1. /\ Cap \in Nat \ {0} /\ f.n \in 1 .. Cap /\ f.tete \in Slots
      /\ f.etats \in [Slots -> S]
  BY CapAssumption DEF Files
<1>2. /\ Pop(f) \in Files(S)
      /\ Oldest(f) = Head(Content(f))
      /\ Content(Pop(f)) = Tail(Content(f))
  BY PopContent
<1>3. /\ Pop(f).n = f.n - 1 /\ Pop(f).dernier = f.dernier
      /\ Pop(f).dernier_valide = f.dernier_valide
  BY DEF Pop, File
<1>4. /\ Content(f) \in Seq(S) /\ Len(Content(f)) = f.n
      /\ Content(f)[f.n] = e /\ f.dernier_valide /\ f.dernier = e
  BY <1>1, ContentIsSeq DEF EndsOn
<1>5. ASSUME f.n - 1 > 0 PROVE Content(Pop(f))[f.n - 1] = e
  BY <1>1, <1>2, <1>4, <1>5
<1>6. ASSUME f.n - 1 = 0 PROVE Oldest(f) = e
  <2>1. f.n = 1
    BY <1>1, <1>6
  <2> QED BY <1>2, <1>4, <2>1
<1>7. EndsOn(Pop(f), e)
  BY <1>1, <1>3, <1>4, <1>5 DEF EndsOn
<1> QED BY <1>1, <1>3, <1>6, <1>7 DEF Oldest

(***************************************************************************)
(* An emptied queue ends on anything: it remembers nothing.                *)
(***************************************************************************)
LEMMA ViderEndsOn ==
  ASSUME NEW S, NEW f \in Files(S), NEW e \in S
  PROVE  /\ EndsOn(Vider(f), e) /\ EndsOn(FileInit(e), e)
         /\ Vider(f).n = 0 /\ ~Vider(f).dernier_valide
  BY DEF EndsOn, Vider, FileInit, File

(***************************************************************************)
(* The sequence before the queue (what was popped) does not see a push:    *)
(* one more state at the end, or the last one replaced and counted.        *)
(***************************************************************************)
LEMMA PushAfter ==
  ASSUME NEW S, NEW f \in Files(S), NEW e \in S, NEW x \in Seq(S), ~Meme(f, e)
  PROVE  \/ /\ x \o Content(Push(f, e)) = Append(x \o Content(f), e)
            /\ Push(f, e).ecrasees = f.ecrasees
         \/ /\ Len(x \o Content(f)) >= Cap
            /\ x \o Content(Push(f, e))
               = [x \o Content(f) EXCEPT ![Len(x \o Content(f))] = e]
            /\ Push(f, e).ecrasees = (f.ecrasees + 1) % CountMod
<1>1. Cap \in Nat \ {0} /\ f.n \in 0 .. Cap /\ Len(x) \in Nat
  BY CapAssumption DEF Files
<1>2. Content(f) \in Seq(S) /\ Len(Content(f)) = f.n
  BY ContentIsSeq
<1>3. /\ x \o Content(f) \in Seq(S) /\ Len(x \o Content(f)) = Len(x) + f.n
      /\ \A i \in 1 .. Len(x) + f.n : (x \o Content(f))[i] =
            IF i <= Len(x) THEN x[i] ELSE Content(f)[i - Len(x)]
  BY <1>2, ConcatProperties
<1>4. CASE f.n < Cap
  <2>1. Content(Push(f, e)) = Append(Content(f), e)
    BY <1>4, PushContent
  <2>2. Push(f, e).ecrasees = f.ecrasees
    BY <1>1, <1>4 DEF Push, AddLast, File
  <2>3. Append(Content(f), e) = Content(f) \o <<e>>
    BY <1>2, AppendIsConcat
  <2>4. Append(x \o Content(f), e) = (x \o Content(f)) \o <<e>>
    BY <1>3, AppendIsConcat
  <2>5. <<e>> \in Seq(S)
    OBVIOUS
  <2>6. (x \o Content(f)) \o <<e>> = x \o (Content(f) \o <<e>>)
    BY <1>2, <2>5, ConcatAssociative
  <2> QED BY <2>1, <2>2, <2>3, <2>4, <2>6
<1>5. CASE f.n = Cap
  <2>1. Content(Push(f, e)) = [Content(f) EXCEPT ![Cap] = e]
    BY <1>5, PushContent
  <2>2. Push(f, e).ecrasees = (f.ecrasees + 1) % CountMod
    BY <1>5 DEF Push, MergeLast, File
  <2>3. DEFINE c == [Content(f) EXCEPT ![Cap] = e]
               y == [x \o Content(f) EXCEPT ![Len(x) + Cap] = e]
  <2>4. /\ c \in Seq(S) /\ Len(c) = Cap
        /\ \A i \in 1 .. Cap : c[i] = IF i = Cap THEN e ELSE Content(f)[i]
    BY <1>1, <1>2, <1>5, ExceptSeq
  <2>5. /\ y \in Seq(S) /\ Len(y) = Len(x) + Cap
        /\ \A i \in 1 .. Len(x) + Cap :
              y[i] = IF i = Len(x) + Cap THEN e ELSE (x \o Content(f))[i]
    <3>1. DEFINE w == x \o Content(f)
                 k == Len(x) + Cap
    <3>2. w \in Seq(S) /\ Len(w) = Len(x) + Cap /\ k \in 1 .. Len(w)
      BY <1>1, <1>3, <1>5
    <3> HIDE DEF w, k
    <3>3. /\ [w EXCEPT ![k] = e] \in Seq(S) /\ Len([w EXCEPT ![k] = e]) = Len(w)
          /\ \A i \in 1 .. Len(w) : [w EXCEPT ![k] = e][i] = IF i = k THEN e ELSE w[i]
      BY <3>2, ExceptSeq
    <3> QED BY <3>2, <3>3 DEF w, k
  <2> HIDE DEF c, y
  <2>6. /\ x \o c \in Seq(S) /\ Len(x \o c) = Len(x) + Cap
        /\ \A i \in 1 .. Len(x) + Cap :
              (x \o c)[i] = IF i <= Len(x) THEN x[i] ELSE c[i - Len(x)]
    BY <2>4, ConcatProperties
  <2>7. ASSUME NEW i \in 1 .. Len(x) + Cap PROVE (x \o c)[i] = y[i]
    <3>1. CASE i <= Len(x)
      BY <1>1, <1>3, <1>5, <2>5, <2>6, <3>1
    <3>2. CASE i > Len(x)
      <4>1. i - Len(x) \in 1 .. Cap
        BY <1>1, <3>2
      <4>2. (x \o c)[i] = IF i - Len(x) = Cap THEN e ELSE Content(f)[i - Len(x)]
        BY <1>1, <2>4, <2>6, <3>2, <4>1
      <4>3. y[i] = IF i = Len(x) + Cap THEN e ELSE Content(f)[i - Len(x)]
        BY <1>1, <1>3, <1>5, <2>5, <3>2
      <4> QED BY <1>1, <3>2, <4>2, <4>3
    <3>3. i <= Len(x) \/ i > Len(x)
      BY <1>1
    <3> QED BY <3>1, <3>2, <3>3
  <2>8. x \o c = y
    BY <2>5, <2>6, <2>7, SeqEqual
  <2> QED BY <1>1, <1>3, <1>5, <2>1, <2>2, <2>8 DEF c, y
<1> QED BY <1>1, <1>4, <1>5

(***************************************************************************)
(* A state in front of a sequence is its head, and the rest its tail.      *)
(***************************************************************************)
LEMMA FrontIsHead ==
  ASSUME NEW S, NEW e \in S, NEW s \in Seq(S)
  PROVE  /\ <<e>> \o s \in Seq(S)
         /\ <<e>> \o s # << >>
         /\ Head(<<e>> \o s) = e
         /\ Tail(<<e>> \o s) = s
<1>1. <<e>> \in Seq(S) /\ Len(<<e>>) = 1
  OBVIOUS
<1>2. /\ <<e>> \o s \in Seq(S) /\ Len(<<e>> \o s) = 1 + Len(s)
      /\ \A i \in 1 .. 1 + Len(s) :
            (<<e>> \o s)[i] = IF i <= 1 THEN <<e>>[i] ELSE s[i - 1]
  BY <1>1, ConcatProperties
<1>3. Len(s) \in Nat
  OBVIOUS
<1>4. <<e>> \o s # << >>
  BY <1>2, <1>3
<1>5. /\ Tail(<<e>> \o s) \in Seq(S) /\ Len(Tail(<<e>> \o s)) = Len(s)
      /\ \A i \in 1 .. Len(s) : Tail(<<e>> \o s)[i] = (<<e>> \o s)[i + 1]
  BY <1>2, <1>3, <1>4, HeadTailProperties
<1>6. ASSUME NEW i \in 1 .. Len(s) PROVE Tail(<<e>> \o s)[i] = s[i]
  BY <1>2, <1>3, <1>5
<1>7. Tail(<<e>> \o s) = s
  BY <1>5, <1>6, SeqEqual
<1>8. Head(<<e>> \o s) = e
  BY <1>2, <1>3
<1> QED BY <1>2, <1>4, <1>7, <1>8

(***************************************************************************)
(* Two non-empty sequences with the same head and tail are the same.       *)
(***************************************************************************)
LEMMA SameHeadTail ==
  ASSUME NEW S, NEW s \in Seq(S), NEW t \in Seq(S), s # << >>, t # << >>,
         Head(s) = Head(t), Tail(s) = Tail(t)
  PROVE  s = t
<1>1. Len(s) \in Nat \ {0} /\ Len(t) \in Nat \ {0}
  BY EmptySeq
<1>2. /\ Tail(s) \in Seq(S) /\ Len(Tail(s)) = Len(s) - 1
      /\ \A i \in 1 .. Len(s) - 1 : Tail(s)[i] = s[i + 1]
  BY HeadTailProperties
<1>3. /\ Tail(t) \in Seq(S) /\ Len(Tail(t)) = Len(t) - 1
      /\ \A i \in 1 .. Len(t) - 1 : Tail(t)[i] = t[i + 1]
  BY HeadTailProperties
<1>4. Len(s) = Len(t)
  <2>1. Len(Tail(s)) = Len(Tail(t))
    OBVIOUS
  <2>2. Len(s) - 1 = Len(t) - 1
    BY <1>2, <1>3, <2>1, Zenon
  <2> QED BY <1>1, <2>2
<1>5. ASSUME NEW i \in 1 .. Len(s) PROVE s[i] = t[i]
  <2>1. CASE i = 1
    BY <1>1, <2>1
  <2>2. CASE i # 1
    <3>1. i - 1 \in 1 .. Len(s) - 1 /\ (i - 1) + 1 = i
      BY <1>1, <2>2
    <3> QED BY <1>2, <1>3, <1>4, <3>1
  <2> QED BY <2>1, <2>2
<1> QED BY <1>4, <1>5, SeqEqual

(***************************************************************************)
(* Then the engine that owns the ring.                                     *)
(***************************************************************************)

(***************************************************************************)
(* The two half-matrices make a fused state, and so does the empty one.    *)
(***************************************************************************)
LEMMA RienIsFused == Rien \in Fused
  BY VideAssumption DEF Rien, Fused

(***************************************************************************)
(* The queue after the timeout section of a round.                         *)
(***************************************************************************)
LEMMA SilenceQueue ==
  ASSUME TypeOK, QueueEndsOnCurrent
  PROVE  /\ Liberer \in Fused
         /\ ApresSilence \in Files(Fused)
         /\ EndsOn(ApresSilence, Liberer)
         /\ ApresSilence.n >= file.n
         /\ (\A h \in Halves : ~Expiree(h)) => Liberer = bm /\ ApresSilence = file
         /\ file.dernier_valide => ApresSilence.n > file.n \/ ApresSilence.n = Cap
                                   \/ Liberer = bm
<1>1. bm \in Fused /\ file \in Files(Fused) /\ EndsOn(file, bm)
  BY DEF TypeOK, QueueEndsOnCurrent
<1>2. Liberer \in Fused
  BY <1>1, VideAssumption DEF Liberer, Fused
<1>3. file.n \in 0 .. Cap /\ Cap \in Nat \ {0}
  BY <1>1, CapAssumption DEF Files
<1>4. CASE \A h \in Halves : ~Expiree(h)
  <2>1. Liberer = bm
    BY <1>1, <1>4 DEF Liberer, Fused
  <2>2. ApresSilence = file
    BY <1>4 DEF ApresSilence
  <2> QED BY <1>1, <1>2, <1>3, <2>1, <2>2
<1>5. CASE \E h \in Halves : Expiree(h)
  <2>1. ApresSilence = Push(file, Liberer)
    BY <1>5 DEF ApresSilence
  <2>2. /\ Push(file, Liberer) \in Files(Fused)
        /\ EndsOn(Push(file, Liberer), Liberer)
        /\ Push(file, Liberer).n >= file.n
    BY <1>1, <1>2, PushEndsOn
  <2>3. ASSUME ~Meme(file, Liberer)
        PROVE  Push(file, Liberer).n > file.n \/ Push(file, Liberer).n = Cap
    BY <1>1, <1>2, <1>3, <2>3, PushContent
  <2>4. ASSUME Meme(file, Liberer) PROVE Liberer = bm
    BY <1>1, <2>4 DEF Meme, EndsOn
  <2> QED BY <1>2, <1>5, <2>1, <2>2, <2>3, <2>4
<1> QED BY <1>4, <1>5

(***************************************************************************)
(* The type invariant is inductive: every step keeps every variable in its *)
(* type, the queue through what its operations return.                     *)
(***************************************************************************)
LEMMA TypeInit == Init => TypeOK
<1> SUFFICES ASSUME Init PROVE TypeOK
  OBVIOUS
<1>1. Rien \in Fused
  BY RienIsFused
<1>2. FileInit(Rien) \in Files(Fused)
  <2>1. 0 \in Slots /\ 0 \in 0 .. Cap /\ 0 \in 0 .. CountMod - 1
    BY CapAssumption, CountAssumption DEF Slots
  <2> QED BY <1>1, <2>1 DEF FileInit, Files, File
<1>3. 0 \in 0 .. Timeout /\ 0 \in 0 .. LinkLost
  BY TimeoutAssumption, LinkLostAssumption
<1> QED BY <1>1, <1>2, <1>3 DEF Init, TypeOK

LEMMA TypeStep ==
  ASSUME TypeOK, QueueEndsOnCurrent, [Next]_vars
  PROVE  TypeOK'
<1>1. 0 \in 0 .. Timeout /\ 0 \in 0 .. LinkLost
  BY TimeoutAssumption, LinkLostAssumption
<1>2. Rien \in Fused
  BY RienIsFused
<1>3. ASSUME NEW usb \in BOOLEAN, StatusGauche(usb) PROVE TypeOK'
  BY <1>1, <1>3 DEF TypeOK, StatusGauche, PreuveDeVie, fusion, moteur, hid
<1>4. CASE StatusDroite
  BY <1>1, <1>4 DEF TypeOK, StatusDroite, PreuveDeVie, fusion, moteur, hid
<1>5. ASSUME NEW m \in Trames, RecevoirMatrice(m) PROVE TypeOK'
  BY <1>1, <1>5 DEF TypeOK, RecevoirMatrice, PreuveDeVie, fusion, moteur, hid
<1>6. CASE OnMatrix
  <2>1. trame \in Trames
    BY <1>6 DEF TypeOK, OnMatrix
  <2>2. trame.half \in Halves /\ trame.bitmap \in Bitmaps
    BY <2>1 DEF Trames
  <2>3. bm' \in Fused
    BY <1>6, <2>2 DEF TypeOK, OnMatrix, Fused
  <2>4. Push(file, bm') \in Files(Fused)
    BY <2>3, PushEndsOn DEF TypeOK, QueueEndsOnCurrent
  <2>5. file' \in Files(Fused)
    BY <1>6, <2>4 DEF TypeOK, OnMatrix
  <2>6. vivant' \in [Halves -> BOOLEAN] /\ age' \in [Halves -> 0 .. Timeout]
    BY <1>1, <1>6, <2>2 DEF TypeOK, OnMatrix
  <2> QED BY <1>6, <2>3, <2>5, <2>6 DEF TypeOK, OnMatrix, moteur, hid
<1>7. CASE LienPerdu
  BY <1>2, <1>7 DEF TypeOK, LienPerdu, fusion, moteur
<1>8. CASE Reveil
  BY <1>8 DEF TypeOK, Reveil, fusion, rx, hid
<1>9. CASE Taire
  BY <1>2, <1>9 DEF TypeOK, Taire, fusion, rx
<1>10. CASE ViderFile
  <2>1. Vider(file) \in Files(Fused)
    BY <1>2, EmptyContent DEF TypeOK
  <2> QED BY <1>10, <2>1 DEF TypeOK, ViderFile, fusion, rx, hid
<1>11. CASE Reprise
  <2>1. Push(file, bm) \in Files(Fused)
    BY PushEndsOn DEF TypeOK, QueueEndsOnCurrent
  <2> QED BY <1>11, <2>1 DEF TypeOK, Reprise, fusion, rx, hid
<1>12. CASE Prendre
  <2>1. /\ Liberer \in Fused /\ ApresSilence \in Files(Fused)
        /\ EndsOn(ApresSilence, Liberer)
    BY SilenceQueue
  <2>2. ASSUME ApresSilence.n > 0
        PROVE  Oldest(ApresSilence) \in Fused /\ Pop(ApresSilence) \in Files(Fused)
    <3>1. Oldest(ApresSilence) \in Fused
      BY <2>1, <2>2, PopEndsOn
    <3>2. Pop(ApresSilence) \in Files(Fused)
      BY <2>1, <2>2, PopContent
    <3> QED BY <3>1, <3>2
  <2>3. etat' \in Fused /\ file' \in Files(Fused)
    BY <1>12, <2>1, <2>2 DEF TypeOK, Prendre
  <2>4. pc' \in {"jouer", "attente"} /\ bm' \in Fused
    BY <1>12, <2>1 DEF Prendre
  <2>5. vivant' \in [Halves -> BOOLEAN]
    BY <1>12 DEF TypeOK, Prendre, Expiree
  <2> QED BY <1>12, <2>3, <2>4, <2>5 DEF TypeOK, Prendre, rx, hid
<1>13. CASE Jouer
  BY <1>13 DEF TypeOK, Jouer, fusion, rx
<1>14. CASE Tick
  <2>1. ASSUME NEW h \in Halves PROVE Vieillir(age[h], Timeout) \in 0 .. Timeout
    BY TimeoutAssumption DEF TypeOK, Vieillir
  <2>2. Vieillir(lien.age, LinkLost) \in 0 .. LinkLost
    BY LinkLostAssumption DEF TypeOK, Vieillir
  <2>3. age' \in [Halves -> 0 .. Timeout]
    BY <1>14, <2>1 DEF Tick
  <2>4. lien' \in [up : BOOLEAN, age : 0 .. LinkLost]
    BY <1>14, <2>2 DEF Tick, TypeOK
  <2> QED BY <1>14, <2>3, <2>4 DEF TypeOK, Tick, moteur, hid
<1>15. CASE UNCHANGED vars
  BY <1>15 DEF TypeOK, vars, fusion, rx, moteur, hid
<1> QED BY <1>3, <1>4, <1>5, <1>6, <1>7, <1>8, <1>9, <1>10, <1>11, <1>12,
           <1>13, <1>14, <1>15 DEF Next, Radio, Moteur

(***************************************************************************)
(* The queue keeps ending on the current state: a push ends on what it     *)
(* pushes, which is the state the same step writes.                        *)
(***************************************************************************)
LEMMA QueueStep ==
  ASSUME TypeOK, QueueEndsOnCurrent, [Next]_vars
  PROVE  QueueEndsOnCurrent'
<1>1. bm \in Fused /\ file \in Files(Fused) /\ EndsOn(file, bm)
  BY DEF TypeOK, QueueEndsOnCurrent
<1>2. CASE UNCHANGED <<bm, file>>
  BY <1>1, <1>2 DEF QueueEndsOnCurrent
<1>3. CASE OnMatrix
  <2>1. TypeOK'
    BY TypeStep
  <2>2. CASE bm[trame.half] # trame.bitmap
    <3>1. file' = Push(file, bm')
      BY <1>3, <2>2 DEF OnMatrix
    <3>2. EndsOn(Push(file, bm'), bm')
      BY <1>1, <2>1, PushEndsOn DEF TypeOK
    <3> QED BY <3>1, <3>2 DEF QueueEndsOnCurrent
  <2>3. CASE bm[trame.half] = trame.bitmap
    BY <1>1, <1>3, <2>3 DEF OnMatrix, QueueEndsOnCurrent, Fused
  <2> QED BY <2>2, <2>3
<1>4. CASE ViderFile
  <2>1. EndsOn(Vider(file), bm)
    BY <1>1, ViderEndsOn
  <2>2. file' = Vider(file) /\ bm' = bm
    BY <1>4 DEF ViderFile, fusion
  <2> QED BY <2>1, <2>2 DEF QueueEndsOnCurrent
<1>5. CASE Reprise
  <2>1. EndsOn(Push(file, bm), bm)
    BY <1>1, PushEndsOn
  <2>2. file' = Push(file, bm) /\ bm' = bm
    BY <1>5 DEF Reprise, fusion
  <2> QED BY <2>1, <2>2 DEF QueueEndsOnCurrent
<1>6. CASE Prendre
  <2>1. /\ Liberer \in Fused /\ ApresSilence \in Files(Fused)
        /\ EndsOn(ApresSilence, Liberer)
    BY SilenceQueue
  <2>2. ASSUME ApresSilence.n > 0 PROVE EndsOn(Pop(ApresSilence), Liberer)
    BY <2>1, <2>2, PopEndsOn
  <2>3. bm' = Liberer
    BY <1>6 DEF Prendre
  <2>4. CASE ApresSilence.n > 0 /\ file' = Pop(ApresSilence)
    BY <2>2, <2>3, <2>4 DEF QueueEndsOnCurrent
  <2>5. CASE file' = ApresSilence
    BY <2>1, <2>3, <2>5 DEF QueueEndsOnCurrent
  <2> QED BY <1>6, <2>4, <2>5 DEF Prendre
<1> QED BY <1>2, <1>3, <1>4, <1>5, <1>6
        DEF Next, Radio, Moteur, vars, fusion, rx, moteur, hid, StatusGauche,
            StatusDroite, RecevoirMatrice, LienPerdu, Reveil, Taire, Jouer, Tick

(***************************************************************************)
(* Ages: a half is never younger than its slot, so that a link as old as   *)
(* LinkLost leaves no half alive once the engine has taken its timeouts.   *)
(***************************************************************************)
LEMMA SilenceStep ==
  ASSUME TypeOK, QueueEndsOnCurrent, Silence, Rounds, [Next]_vars
  PROVE  Silence'
<1>1. Timeout \in Nat \ {0} /\ LinkLost \in Nat /\ LinkLost > Timeout
  BY TimeoutAssumption, LinkLostAssumption
<1>2. lien.age \in 0 .. LinkLost /\ age \in [Halves -> 0 .. Timeout]
  BY DEF TypeOK
<1>3. ASSUME NEW usb \in BOOLEAN, StatusGauche(usb) PROVE Silence'
  BY <1>1, <1>2, <1>3 DEF Silence, StatusGauche, PreuveDeVie, fusion, moteur, hid
<1>4. CASE StatusDroite
  BY <1>1, <1>2, <1>4 DEF Silence, StatusDroite, PreuveDeVie, fusion, moteur, hid
<1>5. ASSUME NEW m \in Trames, RecevoirMatrice(m) PROVE Silence'
  BY <1>1, <1>2, <1>5 DEF Silence, RecevoirMatrice, PreuveDeVie, fusion, moteur, hid
<1>6. CASE OnMatrix
  <2>1. trame.half \in Halves
    BY <1>6 DEF TypeOK, OnMatrix, Trames
  <2>2. lien'.age = 0
    BY <1>6 DEF Silence, OnMatrix
  <2>3. \A h \in Halves : ~vivant'[h] => bm'[h] = Vide
    BY <1>6, <2>1 DEF Silence, OnMatrix, TypeOK, Fused
  <2>4. \A h \in Halves : age'[h] >= 0
    BY <1>2, <1>6, <2>1 DEF OnMatrix
  <2> QED BY <1>1, <1>6, <2>2, <2>3, <2>4 DEF Silence, OnMatrix
<1>7. CASE LienPerdu
  BY <1>7 DEF Silence, LienPerdu, fusion, moteur
<1>8. CASE Reveil
  BY <1>8 DEF Silence, Reveil, fusion, rx
<1>9. CASE Taire
  BY <1>9 DEF Silence, Taire, fusion, rx
<1>10. CASE ViderFile
  BY <1>10 DEF Silence, Rounds, ViderFile, fusion, rx
<1>11. CASE Reprise
  <2>1. ~prevTypes
    BY <1>11 DEF Rounds, Reprise
  <2>2. Push(file, bm).n > 0
    <3>0. bm \in Fused /\ file \in Files(Fused) /\ EndsOn(file, bm)
      BY DEF TypeOK, QueueEndsOnCurrent
    <3>1. ASSUME ~Meme(file, bm) PROVE Push(file, bm).n > 0
      BY <3>0, <3>1, PushEndsOn
    <3>2. ASSUME Meme(file, bm) PROVE Push(file, bm).n > 0
      BY <1>11, <2>1, <3>2 DEF Rounds, Reprise, Meme, Push
    <3> QED BY <3>1, <3>2
  <2> QED BY <1>11, <2>2 DEF Silence, Reprise, fusion, rx
<1>12. CASE Prendre
  <2>1. \A h \in Halves : ~vivant'[h] => bm'[h] = Vide
    BY <1>12 DEF Silence, Prendre, Liberer, Expiree
  <2>2. \A h \in Halves : vivant'[h] => vivant[h]
    BY <1>12 DEF Prendre
  <2>3. ASSUME lien.age = LinkLost, NEW h \in Halves, vivant[h]
        PROVE  Expiree(h)
    BY <1>1, <1>2, <2>3 DEF Silence, Expiree
  <2>4. lien.age = LinkLost => \A h \in Halves : ~vivant'[h]
    BY <1>12, <2>2, <2>3 DEF Prendre
  <2> QED BY <1>12, <2>1, <2>2, <2>4 DEF Silence, Prendre, rx
<1>13. CASE Jouer
  BY <1>13 DEF Silence, Jouer, fusion, rx
<1>14. CASE Tick
  <2>1. trame' = Aucune /\ vivant' = vivant /\ bm' = bm
    BY <1>14 DEF Tick
  <2>2. lien'.age = Vieillir(lien.age, LinkLost)
    BY <1>14 DEF Tick
  <2>3. ASSUME NEW h \in Halves, vivant[h]
        PROVE  age'[h] >= lien'.age \/ age'[h] = Timeout
    <3>1. age'[h] = Vieillir(age[h], Timeout) /\ age[h] \in 0 .. Timeout
      BY <1>2, <1>14 DEF Tick
    <3>2. age[h] >= lien.age \/ age[h] = Timeout
      BY <2>3 DEF Silence
    <3> QED BY <1>1, <1>2, <2>2, <3>1, <3>2 DEF Vieillir
  <2>4. ASSUME lien'.age = LinkLost, prevTypes'
        PROVE  \A h \in Halves : ~vivant[h]
    <3>1. prevTypes
      BY <1>14, <2>4 DEF Tick, moteur, hid
    <3>2. pc = "attente" \/ lien.age + 1 < LinkLost
      BY <1>14 DEF Tick
    <3>3. pc = "attente"
      BY <1>1, <1>2, <2>2, <2>4, <3>2 DEF Vieillir
    <3>4. \A h \in Halves : ~Expiree(h)
      BY <1>14, <3>1, <3>3 DEF Tick
    <3>5. lien.age >= Timeout
      BY <1>1, <1>2, <2>2, <2>4 DEF Vieillir
    <3>6. ASSUME NEW h \in Halves, vivant[h] PROVE FALSE
      <4>1. age[h] >= Timeout
        BY <1>1, <1>2, <3>5, <3>6 DEF Silence
      <4> QED BY <3>4, <3>6, <4>1 DEF Expiree
    <3> QED BY <3>6
  <2> QED BY <1>14, <2>1, <2>3, <2>4 DEF Silence, Tick
<1>15. CASE UNCHANGED vars
  BY <1>15 DEF Silence, vars, fusion, rx, moteur, hid
<1> QED BY <1>3, <1>4, <1>5, <1>6, <1>7, <1>8, <1>9, <1>10, <1>11, <1>12,
           <1>13, <1>14, <1>15 DEF Next, Radio, Moteur

(***************************************************************************)
(* What each place of the loop knows: with nothing pending, the state just *)
(* popped, or else the last one played, is the current one.                *)
(***************************************************************************)
LEMMA RoundsStep ==
  ASSUME IInv, [Next]_vars
  PROVE  Rounds'
<1>1. /\ bm \in Fused /\ file \in Files(Fused) /\ EndsOn(file, bm)
      /\ file.n \in 0 .. Cap /\ Cap \in Nat \ {0} /\ Rounds
  BY CapAssumption DEF IInv, TypeOK, QueueEndsOnCurrent, Files
<1>2. ASSUME NEW usb \in BOOLEAN, StatusGauche(usb) PROVE Rounds'
  BY <1>1, <1>2 DEF Rounds, StatusGauche, fusion, moteur, hid
<1>3. CASE StatusDroite
  BY <1>1, <1>3 DEF Rounds, StatusDroite, fusion, moteur, hid
<1>4. ASSUME NEW m \in Trames, RecevoirMatrice(m) PROVE Rounds'
  BY <1>1, <1>4 DEF Rounds, RecevoirMatrice, fusion, moteur, hid
<1>5. CASE OnMatrix
  <2>1. CASE bm[trame.half] # trame.bitmap
    <3>1. bm' \in Fused /\ file' = Push(file, bm')
      <4>1. TypeOK'
        BY TypeStep DEF IInv
      <4> QED BY <1>5, <2>1, <4>1 DEF TypeOK, OnMatrix
    <3>2. trame.half \in Halves
      BY <1>5 DEF IInv, TypeOK, OnMatrix, Trames
    <3>3. bm' # bm
      BY <1>1, <1>5, <2>1, <3>2 DEF OnMatrix, Fused
    <3>4. ~Meme(file, bm')
      BY <1>1, <3>3 DEF Meme, EndsOn
    <3>5. file'.n > 0
      BY <1>1, <3>1, <3>4, PushEndsOn
    <3> QED BY <1>1, <1>5, <3>5 DEF Rounds, OnMatrix, moteur, hid
  <2>2. CASE bm[trame.half] = trame.bitmap
    BY <1>1, <1>5, <2>2 DEF Rounds, OnMatrix, moteur, hid, Fused
  <2> QED BY <2>1, <2>2
<1>6. CASE LienPerdu
  <2>1. ASSUME prevTypes, file.n = 0, pc # "jouer" PROVE bm = Rien
    <3>1. lien.age = LinkLost
      BY <1>6, LinkLostAssumption DEF IInv, TypeOK, LienPerdu
    <3>2. \A h \in Halves : ~vivant[h]
      BY <2>1, <3>1 DEF IInv, Silence
    <3> QED BY <1>1, <3>2 DEF IInv, Silence, Rien, Fused
  <2> QED BY <1>1, <1>6, <2>1 DEF Rounds, LienPerdu, fusion, moteur
<1>7. CASE Reveil
  BY <1>1, <1>7 DEF Rounds, Reveil, fusion, rx, hid
<1>8. CASE Taire
  BY <1>1, <1>8 DEF Rounds, Taire, fusion, rx
<1>9. CASE ViderFile
  <2>1. file'.n = 0 /\ ~file'.dernier_valide
    BY <1>1, <1>9, ViderEndsOn DEF ViderFile
  <2> QED BY <1>1, <1>9, <2>1 DEF Rounds, ViderFile, fusion, rx, hid
<1>10. CASE Reprise
  <2>1. Push(file, bm).n > 0
    <3>1. ASSUME ~Meme(file, bm) PROVE Push(file, bm).n > 0
      BY <1>1, <3>1, PushEndsOn
    <3>2. ASSUME Meme(file, bm) PROVE Push(file, bm).n > 0
      BY <1>1, <1>10, <3>2 DEF Rounds, Reprise, Meme, Push
    <3> QED BY <3>1, <3>2
  <2> QED BY <1>1, <1>10, <2>1 DEF Rounds, Reprise, fusion, rx, hid
<1>11. CASE Prendre
  <2>1. /\ Liberer \in Fused /\ ApresSilence \in Files(Fused)
        /\ EndsOn(ApresSilence, Liberer)
    BY SilenceQueue DEF IInv
  <2>2. prevTypes' /\ bm' = Liberer
    BY <1>1, <1>11 DEF Rounds, Prendre
  <2>3. CASE ApresSilence.n > 0 /\ etat' = Oldest(ApresSilence)
             /\ file' = Pop(ApresSilence) /\ pc' = "jouer"
    <3>1. Pop(ApresSilence).n = 0 => Oldest(ApresSilence) = Liberer
      BY <2>1, <2>3, PopEndsOn
    <3> QED BY <2>2, <2>3, <3>1 DEF Rounds
  <2>4. CASE ApresSilence.n = 0 /\ file' = ApresSilence /\ pc' = "attente"
    <3>1. ApresSilence.n >= file.n
      BY SilenceQueue DEF IInv
    <3>2. file.n = 0 /\ rapport = bm /\ (relache => bm = Rien)
      BY <1>1, <1>11, <2>2, <2>4, <3>1 DEF Rounds, Prendre
    <3>3. Liberer = bm
      <4>1. CASE file.dernier_valide
        BY <1>1, <2>4, <3>2, <4>1, SilenceQueue DEF IInv
      <4>2. CASE ~file.dernier_valide
        <5>1. ASSUME NEW h \in Halves, Expiree(h) PROVE FALSE
          <6>1. ApresSilence = Push(file, Liberer)
            BY <5>1 DEF ApresSilence
          <6>2. ~Meme(file, Liberer)
            BY <4>2 DEF Meme
          <6>3. Push(file, Liberer).n > 0
            BY <1>1, <2>1, <6>2, PushEndsOn
          <6> QED BY <2>4, <6>1, <6>3
        <5> QED BY <5>1, SilenceQueue DEF IInv
      <4> QED BY <4>1, <4>2
    <3>4. rapport' = rapport /\ relache' = relache
      BY <1>11 DEF Prendre, hid
    <3> QED BY <2>2, <2>4, <3>2, <3>3, <3>4 DEF Rounds
  <2> QED BY <1>11, <2>3, <2>4 DEF Prendre
<1>12. CASE Jouer
  BY <1>1, <1>12 DEF Rounds, Jouer, fusion, rx
<1>13. CASE Tick
  BY <1>1, <1>13 DEF Rounds, Tick, moteur, hid
<1>14. CASE UNCHANGED vars
  BY <1>1, <1>14 DEF Rounds, vars, fusion, moteur, hid
<1> QED BY <1>2, <1>3, <1>4, <1>5, <1>6, <1>7, <1>8, <1>9, <1>10, <1>11,
           <1>12, <1>13, <1>14 DEF Next, Radio, Moteur

(***************************************************************************)
(* The inductive invariant: Init implies it and every step keeps it.       *)
(***************************************************************************)
THEOREM Inductive == Spec => []IInv
<1>1. Init => IInv
  <2> SUFFICES ASSUME Init PROVE IInv
    OBVIOUS
  <2>1. TypeOK
    BY TypeInit
  <2>2. QueueEndsOnCurrent
    <3>1. file \in Files(Fused) /\ bm \in Fused /\ file = FileInit(bm)
      BY <2>1 DEF Init, TypeOK
    <3> QED BY <3>1, ViderEndsOn DEF QueueEndsOnCurrent
  <2>3. Silence
    BY LinkLostAssumption, TimeoutAssumption DEF Init, Silence, Rien
  <2>4. Rounds
    BY DEF Init, Rounds, FileInit, File
  <2> QED BY <2>1, <2>2, <2>3, <2>4 DEF IInv
<1>2. IInv /\ [Next]_vars => IInv'
  <2> SUFFICES ASSUME IInv, [Next]_vars PROVE IInv'
    OBVIOUS
  <2>1. TypeOK'
    BY TypeStep DEF IInv
  <2>2. QueueEndsOnCurrent'
    BY QueueStep DEF IInv
  <2>3. Silence'
    BY SilenceStep DEF IInv
  <2>4. Rounds'
    BY RoundsStep
  <2> QED BY <2>1, <2>2, <2>3, <2>4 DEF IInv
<1> QED BY <1>1, <1>2, PTL DEF Spec

(***************************************************************************)
(* Every variable keeps its type.                                          *)
(***************************************************************************)
THEOREM TypeCorrect == Spec => []TypeOK
<1>1. IInv => TypeOK
  BY DEF IInv
<1> QED BY <1>1, Inductive, PTL

(***************************************************************************)
(* A dongle that types and has nothing left to play has sent the current   *)
(* state of both halves last on each of the two ways to the host.          *)
(***************************************************************************)
THEOREM ConvergedAlways == Spec => []Converged
<1>1. IInv => Converged
  BY DEF IInv, Rounds, Converged
<1> QED BY <1>1, Inductive, PTL

(***************************************************************************)
(* Deduplication never hides a transition.                                 *)
(***************************************************************************)
THEOREM QueueAlways == Spec => []QueueEndsOnCurrent
<1>1. IInv => QueueEndsOnCurrent
  BY DEF IInv
<1> QED BY <1>1, Inductive, PTL

(***************************************************************************)
(* The states pending are fused states; none is left when the queue is     *)
(* empty and nothing is being played.                                      *)
(***************************************************************************)
LEMMA PendingIsSeq ==
  ASSUME TypeOK
  PROVE  /\ EnAttente \in Seq(Fused)
         /\ pc # "jouer" => EnAttente = Content(file)
         /\ pc = "jouer" => /\ EnAttente # << >>
                            /\ Head(EnAttente) = etat
                            /\ Tail(EnAttente) = Content(file)
         /\ file.n > 0 => EnAttente # << >>
<1>1. etat \in Fused /\ file \in Files(Fused)
  BY DEF TypeOK
<1>2. Content(file) \in Seq(Fused) /\ Len(Content(file)) = file.n
  BY <1>1, ContentIsSeq
<1>3. CASE pc = "jouer"
  <2>1. EnAttente = <<etat>> \o Content(file)
    BY <1>3 DEF EnAttente
  <2> QED BY <1>1, <1>2, <1>3, <2>1, FrontIsHead
<1>4. CASE pc # "jouer"
  <2>1. EnAttente = << >> \o Content(file)
    BY <1>4 DEF EnAttente
  <2>2. EnAttente = Content(file)
    BY <1>2, <2>1, ConcatEmptySeq
  <2> QED BY <1>2, <1>4, <2>2
<1> QED BY <1>3, <1>4

(***************************************************************************)
(* A push of a new state, with something popped before it or not, is a     *)
(* reception of the abstract replay.                                       *)
(***************************************************************************)
LEMMA PushIsReceive ==
  ASSUME TypeOK, NEW s \in Fused, ~Meme(file, s),
         NEW p, p = (IF pc = "jouer" THEN <<etat>> ELSE << >>)
                    \o Content(Push(file, s))
  PROVE  \/ /\ p = Append(EnAttente, s)
            /\ Push(file, s).ecrasees = file.ecrasees
         \/ /\ Len(EnAttente) >= Cap
            /\ p = [EnAttente EXCEPT ![Len(EnAttente)] = s]
            /\ Push(file, s).ecrasees = (file.ecrasees + 1) % CountMod
<1>1. etat \in Fused /\ file \in Files(Fused)
  BY DEF TypeOK
<1>2. DEFINE x == IF pc = "jouer" THEN <<etat>> ELSE << >>
<1>3. x \in Seq(Fused)
  BY <1>1
<1>4. EnAttente = x \o Content(file) /\ p = x \o Content(Push(file, s))
  BY DEF EnAttente
<1> HIDE DEF x
<1>5. \/ /\ x \o Content(Push(file, s)) = Append(x \o Content(file), s)
         /\ Push(file, s).ecrasees = file.ecrasees
      \/ /\ Len(x \o Content(file)) >= Cap
         /\ x \o Content(Push(file, s))
            = [x \o Content(file) EXCEPT ![Len(x \o Content(file))] = s]
         /\ Push(file, s).ecrasees = (file.ecrasees + 1) % CountMod
  BY <1>1, <1>3, PushAfter
<1> QED BY <1>4, <1>5

(***************************************************************************)
(* Every step of the engine and of the radio is a step of the replay, or   *)
(* leaves all that it speaks of unchanged.                                 *)
(***************************************************************************)
LEMMA ReplayStep ==
  ASSUME IInv, IInv', [Next]_vars
  PROVE  [Replay!Next]_(Replay!vars)
<1>1. /\ TypeOK /\ TypeOK' /\ bm \in Fused /\ bm' \in Fused
      /\ file \in Files(Fused) /\ EndsOn(file, bm) /\ Rounds
      /\ file.n \in 0 .. Cap /\ Cap \in Nat \ {0}
  BY CapAssumption DEF IInv, TypeOK, QueueEndsOnCurrent, Files
<1>2. CASE UNCHANGED <<bm, file, rapport, relache, prevTypes, etat>> /\ pc # "jouer" /\ pc' # "jouer"
  BY <1>2 DEF Replay!vars, EnAttente
<1>3. CASE UNCHANGED <<bm, file, rapport, relache, prevTypes, etat, pc>>
  BY <1>3 DEF Replay!vars, EnAttente
<1>4. CASE OnMatrix
  <2>0. UNCHANGED <<pc, prevTypes, etat, rapport, relache>>
    BY <1>4 DEF OnMatrix, moteur, hid
  <2>1. CASE bm[trame.half] # trame.bitmap
    <3>1. trame.half \in Halves
      BY <1>4 DEF IInv, TypeOK, OnMatrix, Trames
    <3>2. bm' # bm /\ file' = Push(file, bm')
      BY <1>1, <1>4, <2>1, <3>1 DEF OnMatrix, Fused
    <3>3. ~Meme(file, bm')
      BY <1>1, <3>2 DEF Meme, EndsOn
    <3>4. EnAttente' = (IF pc = "jouer" THEN <<etat>> ELSE << >>)
                       \o Content(Push(file, bm'))
      BY <2>0, <3>2 DEF EnAttente
    <3>5. \/ /\ EnAttente' = Append(EnAttente, bm')
             /\ file'.ecrasees = file.ecrasees
          \/ /\ Len(EnAttente) >= Cap
             /\ EnAttente' = [EnAttente EXCEPT ![Len(EnAttente)] = bm']
             /\ file'.ecrasees = (file.ecrasees + 1) % CountMod
      BY <1>1, <3>2, <3>3, <3>4, PushIsReceive
    <3>6. Replay!Receive(bm')
      BY <2>0, <3>2, <3>5 DEF Replay!Receive
    <3> QED BY <1>1, <3>6 DEF Replay!Next
  <2>2. CASE bm[trame.half] = trame.bitmap
    <3>1. bm' = bm /\ file' = file
      BY <1>1, <1>4, <2>2 DEF OnMatrix, Fused
    <3> QED BY <1>3, <2>0, <3>1
  <2> QED BY <2>1, <2>2
<1>5. CASE LienPerdu
  <2>0. UNCHANGED <<bm, file, pc, prevTypes, etat>> /\ relache'
    BY <1>5 DEF LienPerdu, fusion, moteur
  <2>1. UNCHANGED EnAttente
    BY <2>0 DEF EnAttente
  <2>2. bm = Rien \/ EnAttente # << >> \/ ~prevTypes
    <3>1. lien.age = LinkLost
      BY <1>5, LinkLostAssumption DEF IInv, TypeOK, LienPerdu
    <3>2. CASE prevTypes /\ \A h \in Halves : ~vivant[h]
      BY <1>1, <3>2 DEF IInv, Silence, Rien, Fused
    <3>3. CASE file.n > 0
      BY <1>1, <3>3, PendingIsSeq
    <3> QED BY <3>1, <3>2, <3>3 DEF IInv, Silence
  <2>3. Replay!Cut
    BY <2>0, <2>1, <2>2 DEF Replay!Cut, Rien
  <2> QED BY <2>3 DEF Replay!Next
<1>6. CASE Taire
  <2>0. UNCHANGED <<bm, file>> /\ pc = "taire" /\ pc' = "vider" /\ relache'
    BY <1>6 DEF Taire, fusion
  <2>1. UNCHANGED EnAttente
    BY <2>0 DEF EnAttente
  <2>2. Replay!Mute
    BY <1>6, <2>0, <2>1 DEF Taire, Replay!Mute
  <2> QED BY <2>2 DEF Replay!Next
<1>7. CASE ViderFile
  <2>0. UNCHANGED <<bm, prevTypes, rapport, relache>> /\ pc' = "attente" /\ ~prevTypes
    BY <1>1, <1>7 DEF ViderFile, fusion, hid, Rounds
  <2>1. Content(file') = << >> /\ file'.ecrasees = file.ecrasees
    <3>1. Content(Vider(file)) = << >>
      BY <1>1, EmptyContent
    <3> QED BY <1>7, <3>1 DEF ViderFile, Vider, File
  <2>2. EnAttente' = << >>
    BY <2>0, <2>1 DEF EnAttente
  <2>3. Replay!Discard
    BY <2>0, <2>1, <2>2 DEF Replay!Discard
  <2> QED BY <2>3 DEF Replay!Next
<1>8. CASE Reprise
  <2>0. /\ UNCHANGED <<bm, rapport, relache>> /\ pc' = "prendre" /\ ~prevTypes
        /\ pc = "reprise" /\ prevTypes' /\ file' = Push(file, bm)
    BY <1>1, <1>8 DEF Reprise, fusion, hid, Rounds
  <2>1. EnAttente = Content(file) /\ EnAttente' = << >> \o Content(Push(file, bm))
    BY <1>1, <2>0, PendingIsSeq DEF EnAttente
  <2>2. CASE Meme(file, bm)
    <3>1. file' = file /\ file.n > 0
      BY <1>1, <2>0, <2>2 DEF Push, Meme, Rounds
    <3>2. EnAttente' = EnAttente
      BY <2>0, <3>1 DEF EnAttente
    <3>3. EnAttente # << >>
      BY <1>1, <3>1, PendingIsSeq
    <3>4. Replay!Resume
      BY <2>0, <3>1, <3>2, <3>3 DEF Replay!Resume
    <3> QED BY <3>4 DEF Replay!Next
  <2>3. CASE ~Meme(file, bm)
    <3>1. file.n = 0
      BY <1>1, <2>3 DEF Meme, EndsOn
    <3>2. Content(file) = << >>
      BY <1>1, <3>1, ContentIsSeq, EmptySeq
    <3>3. Content(Push(file, bm)) = <<bm>> /\ Push(file, bm).ecrasees = file.ecrasees
      <4>1. Content(Push(file, bm)) = Append(Content(file), bm)
        BY <1>1, <2>3, <3>1, PushContent
      <4>2. Push(file, bm).ecrasees = file.ecrasees
        BY <1>1, <2>3, <3>1 DEF Push, AddLast, File
      <4> QED BY <3>2, <4>1, <4>2
    <3>4. EnAttente = << >> /\ EnAttente' = <<bm>>
      BY <2>1, <3>2, <3>3
    <3>5. Replay!Resume
      BY <2>0, <3>3, <3>4 DEF Replay!Resume
    <3> QED BY <3>5 DEF Replay!Next
  <2> QED BY <2>2, <2>3
<1>9. CASE Prendre
  <2>0. /\ pc = "prendre" /\ bm' = Liberer /\ UNCHANGED <<prevTypes, rapport, relache>>
    BY <1>9 DEF Prendre, hid
  <2>1. EnAttente = Content(file)
    BY <1>1, <2>0, PendingIsSeq
  <2>2. ApresSilence \in Files(Fused) /\ EndsOn(ApresSilence, Liberer)
    BY SilenceQueue DEF IInv
  <2>3. EnAttente' = Content(ApresSilence) /\ file'.ecrasees = ApresSilence.ecrasees
    <3>1. CASE ApresSilence.n > 0 /\ etat' = Oldest(ApresSilence)
               /\ file' = Pop(ApresSilence) /\ pc' = "jouer"
      <4>1. /\ Content(ApresSilence) # << >>
            /\ Oldest(ApresSilence) = Head(Content(ApresSilence))
            /\ Content(Pop(ApresSilence)) = Tail(Content(ApresSilence))
        BY <2>2, <3>1, PopContent
      <4>2. EnAttente' # << >> /\ Head(EnAttente') = etat'
            /\ Tail(EnAttente') = Content(file')
        <5>1. etat' \in Fused /\ Content(file') \in Seq(Fused)
          BY <1>1, ContentIsSeq DEF TypeOK
        <5>2. EnAttente' = <<etat'>> \o Content(file')
          BY <3>1 DEF EnAttente
        <5> QED BY <5>1, <5>2, FrontIsHead
      <4>3. EnAttente' \in Seq(Fused) /\ Content(ApresSilence) \in Seq(Fused)
        <5>1. etat' \in Fused /\ Content(file') \in Seq(Fused)
          BY <1>1, ContentIsSeq DEF TypeOK
        <5>2. EnAttente' = <<etat'>> \o Content(file')
          BY <3>1 DEF EnAttente
        <5> QED BY <2>2, <5>1, <5>2, FrontIsHead, ContentIsSeq
      <4>4. EnAttente' = Content(ApresSilence)
        <5>1. Head(EnAttente') = Head(Content(ApresSilence))
              /\ Tail(EnAttente') = Tail(Content(ApresSilence))
          BY <3>1, <4>1, <4>2
        <5> QED BY <4>1, <4>2, <4>3, <5>1, SameHeadTail
      <4>5. Pop(ApresSilence).ecrasees = ApresSilence.ecrasees
        BY DEF Pop, File
      <4> QED BY <3>1, <4>4, <4>5
    <3>2. CASE ApresSilence.n = 0 /\ file' = ApresSilence /\ pc' = "attente"
      <4>1. Content(ApresSilence) = << >>
        BY <2>2, <3>2, ContentIsSeq, EmptySeq
      <4>2. EnAttente' = << >>
        BY <3>2, <4>1 DEF EnAttente
      <4> QED BY <3>2, <4>1, <4>2
    <3> QED BY <1>9, <3>1, <3>2 DEF Prendre
  <2>4. CASE ApresSilence = file /\ Liberer = bm
    BY <2>0, <2>1, <2>3, <2>4 DEF Replay!vars
  <2>5. CASE ApresSilence = Push(file, Liberer) /\ ~Meme(file, Liberer)
    <3>1. Liberer \in Fused
      BY <1>1, <2>0
    <3>2. EnAttente' = (IF pc = "jouer" THEN <<etat>> ELSE << >>)
                       \o Content(Push(file, Liberer))
      <4>1. Content(Push(file, Liberer)) \in Seq(Fused)
        BY <2>2, <2>5, ContentIsSeq
      <4>2. Content(Push(file, Liberer)) = << >> \o Content(Push(file, Liberer))
        BY <4>1, ConcatEmptySeq
      <4> QED BY <2>0, <2>3, <2>5, <4>2
    <3>3. \/ /\ EnAttente' = Append(EnAttente, Liberer)
             /\ file'.ecrasees = file.ecrasees
          \/ /\ Len(EnAttente) >= Cap
             /\ EnAttente' = [EnAttente EXCEPT ![Len(EnAttente)] = Liberer]
             /\ file'.ecrasees = (file.ecrasees + 1) % CountMod
      BY <1>1, <2>3, <2>5, <3>1, <3>2, PushIsReceive
    <3>4. CASE Liberer # bm
      <4>1. Replay!Receive(bm')
        BY <2>0, <3>3, <3>4 DEF Replay!Receive
      <4> QED BY <1>1, <4>1 DEF Replay!Next
    <3>5. CASE Liberer = bm
      <4>1. file.n = 0
        BY <1>1, <2>5, <3>5 DEF Meme, EndsOn
      <4>2. EnAttente = << >>
        BY <1>1, <2>1, <4>1, ContentIsSeq, EmptySeq
      <4>3. Content(Push(file, Liberer)) = Append(Content(file), Liberer)
            /\ Push(file, Liberer).ecrasees = file.ecrasees
        <5>1. Content(Push(file, Liberer)) = Append(Content(file), Liberer)
          BY <1>1, <2>5, <3>1, <4>1, PushContent
        <5>2. Push(file, Liberer).ecrasees = file.ecrasees
          BY <1>1, <2>5, <4>1 DEF Push, AddLast, File
        <5> QED BY <5>1, <5>2
      <4>4. EnAttente' = <<bm>> /\ file'.ecrasees = file.ecrasees
        <5>1. EnAttente' = Append(Content(file), bm)
          BY <2>3, <2>5, <3>5, <4>3, Zenon
        <5>2. Content(file) = << >>
          BY <2>1, <4>2
        <5>3. Append(<< >>, bm) = <<bm>>
          OBVIOUS
        <5>4. EnAttente' = <<bm>>
          BY <5>1, <5>2, <5>3, Zenon
        <5> QED BY <2>3, <2>5, <4>3, <5>4, Zenon
      <4>5. Replay!Repeat
        BY <2>0, <3>5, <4>2, <4>4 DEF Replay!Repeat
      <4> QED BY <4>5 DEF Replay!Next
    <3> QED BY <3>4, <3>5
  <2>6. \/ ApresSilence = file /\ Liberer = bm
        \/ ApresSilence = Push(file, Liberer) /\ ~Meme(file, Liberer)
    <3>1. CASE \A h \in Halves : ~Expiree(h)
      BY <3>1, SilenceQueue DEF IInv
    <3>2. CASE \E h \in Halves : Expiree(h)
      <4>1. ApresSilence = Push(file, Liberer)
        BY <3>2 DEF ApresSilence
      <4>2. Meme(file, Liberer) => Push(file, Liberer) = file /\ Liberer = bm
        BY <1>1 DEF Meme, EndsOn, Push
      <4> QED BY <4>1, <4>2
    <3> QED BY <3>1, <3>2
  <2> QED BY <2>4, <2>5, <2>6
<1>10. CASE Jouer
  <2>0. UNCHANGED <<bm, file, prevTypes>> /\ pc = "jouer" /\ rapport' = etat
        /\ ~relache' /\ pc' # "jouer"
    BY <1>10 DEF Jouer, fusion
  <2>1. EnAttente # << >> /\ Head(EnAttente) = etat /\ Tail(EnAttente) = Content(file)
    BY <1>1, <2>0, PendingIsSeq
  <2>2. EnAttente' = Content(file)
    <3>1. Content(file) \in Seq(Fused)
      BY <1>1, ContentIsSeq
    <3>2. EnAttente' = << >> \o Content(file)
      BY <2>0 DEF EnAttente
    <3> QED BY <3>1, <3>2, ConcatEmptySeq
  <2>3. Replay!Play
    BY <2>0, <2>1, <2>2 DEF Replay!Play
  <2> QED BY <2>3 DEF Replay!Next
<1>11. CASE Reveil
  <2>1. UNCHANGED <<bm, file, rapport, relache, prevTypes, etat>> /\ pc # "jouer" /\ pc' # "jouer"
    BY <1>11 DEF Reveil, fusion, hid
  <2> QED BY <1>2, <2>1
<1> QED BY <1>3, <1>4, <1>5, <1>6, <1>7, <1>8, <1>9, <1>10, <1>11
        DEF Next, Radio, Moteur, vars, fusion, rx, moteur, hid, StatusGauche,
            StatusDroite, RecevoirMatrice, Tick

(***************************************************************************)
(* The dongle replays every transition: its engine, its queue and its rx   *)
(* task implement TransitionReplay.                                        *)
(***************************************************************************)
THEOREM ReplaysEveryTransition == Spec => ReplayEveryTransition
<1>1. Init => Replay!Init
  <2> SUFFICES ASSUME Init PROVE Replay!Init
    OBVIOUS
  <2>1. Content(FileInit(Rien)) = << >> /\ FileInit(Rien).ecrasees = 0
    <3>1. file \in Files(Fused) /\ Rien \in Fused
      BY TypeInit, RienIsFused DEF TypeOK
    <3>2. Content(FileInit(Rien)) = << >>
      BY <3>1, EmptyContent
    <3> QED BY <3>2 DEF FileInit, File
  <2>2. EnAttente = << >>
    BY <2>1 DEF Init, EnAttente
  <2> QED BY <2>1, <2>2 DEF Init, Replay!Init
<1>2. IInv /\ IInv' /\ [Next]_vars => [Replay!Next]_(Replay!vars)
  BY ReplayStep
<1> QED BY <1>1, <1>2, Inductive, PTL DEF Spec, ReplayEveryTransition, Replay!Spec

=============================================================================
