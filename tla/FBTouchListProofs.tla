------------------------- MODULE FBTouchListProofs -------------------------
(***************************************************************************)
(* The preprocessing of FBTouchActions keeps what survives the cancels:    *)
(* one pass from the end with a flag does what the definition by counting  *)
(* says.  The invariant (Passed) says it of the part that the pass has     *)
(* seen: the flag is the parity of the cancels it has just met, and kept   *)
(* lists the survivors behind left in their order.                         *)
(***************************************************************************)
EXTENDS FBTouchProofs, FiniteSetTheorems

(* The cancels that stand directly behind item i. *)
RunBehind(i) == {j \in i + 1 .. Len(list) : \A k \in i + 1 .. j : IsCancel(list[k])}

(* Of that many cancels behind an item, one is left that cancels it. *)
Cancelled(n) == IF dialect = "w3c" THEN n % 2 # 0 ELSE n # 0

(* The survivors the pass has seen, and those up to item i. *)
Seen(l) == {i \in Survivors : i > l}
SeenUpTo(l, i) == {j \in Seen(l) : j <= i}

Collects(l, ks) ==
  /\ Len(ks) = Cardinality(Seen(l))
  /\ \A i \in Seen(l) : ks[Cardinality(SeenUpTo(l, i))] = list[i]

Passed ==
  pc \in {"preprocess", "chain"} =>
    /\ pc = "chain" => left = 0
    /\ pc = "preprocess" => skip = Cancelled(CancelsBehind(left))
    /\ Collects(left, kept)

-----------------------------------------------------------------------------
LEMMA RunIsFinite ==
  ASSUME list \in Seq(Item), NEW i \in 0 .. Len(list)
  PROVE  /\ IsFiniteSet(RunBehind(i)) /\ CancelsBehind(i) = Cardinality(RunBehind(i))
         /\ CancelsBehind(i) \in Nat
<1>1. IsFiniteSet(i + 1 .. Len(list))
  BY FS_Interval
<1>2. RunBehind(i) \in SUBSET (i + 1 .. Len(list))
  BY DEF RunBehind
<1>3. IsFiniteSet(RunBehind(i))
  BY <1>1, <1>2, FS_Subset
<1>4. CancelsBehind(i) = Cardinality(RunBehind(i))
  BY DEF CancelsBehind, RunBehind
<1> QED
  BY <1>3, <1>4, FS_CardinalityType

(* One step of the pass, on the definition: a cancel adds one to the run,   *)
(* anything else ends it.                                                   *)
LEMMA RunGrows ==
  ASSUME list \in Seq(Item), NEW i \in 1 .. Len(list)
  PROVE  CancelsBehind(i - 1) = IF IsCancel(list[i]) THEN CancelsBehind(i) + 1 ELSE 0
<1>1. /\ IsFiniteSet(RunBehind(i)) /\ CancelsBehind(i) = Cardinality(RunBehind(i))
      /\ CancelsBehind(i - 1) = Cardinality(RunBehind(i - 1))
  BY RunIsFinite
<1>2. CASE IsCancel(list[i])
  <2>1. RunBehind(i - 1) = RunBehind(i) \cup {i}
    <3>1. ASSUME NEW j \in RunBehind(i - 1)
          PROVE  j \in RunBehind(i) \cup {i}
      BY <3>1 DEF RunBehind
    <3>2. ASSUME NEW j \in RunBehind(i)
          PROVE  j \in RunBehind(i - 1)
      <4> SUFFICES ASSUME NEW k \in i .. j
                   PROVE  IsCancel(list[k])
        BY <3>2 DEF RunBehind
      <4>1. k = i \/ k \in i + 1 .. j
        OBVIOUS
      <4> QED
        BY <1>2, <3>2, <4>1 DEF RunBehind
    <3>3. i \in RunBehind(i - 1)
      <4>1. \A k \in (i - 1) + 1 .. i : k = i
        OBVIOUS
      <4> QED
        BY <1>2, <4>1 DEF RunBehind
    <3> QED
      BY <3>1, <3>2, <3>3
  <2>2. i \notin RunBehind(i)
    BY DEF RunBehind
  <2> QED
    BY <1>1, <1>2, <2>1, <2>2, FS_AddElement
<1>3. CASE ~IsCancel(list[i])
  <2>1. RunBehind(i - 1) = {}
    <3> SUFFICES ASSUME NEW j \in RunBehind(i - 1)
                 PROVE  FALSE
      OBVIOUS
    <3>1. i \in (i - 1) + 1 .. j
      BY DEF RunBehind
    <3> QED
      BY <1>3, <3>1 DEF RunBehind
  <2> QED
    BY <1>1, <1>3, <2>1, FS_EmptySet
<1> QED
  BY <1>2, <1>3

LEMMA CancelledGrows ==
  ASSUME NEW n \in Nat
  PROVE  /\ ~Cancelled(0)
         /\ dialect = "w3c" => (Cancelled(n + 1) <=> ~Cancelled(n))
         /\ dialect # "w3c" => Cancelled(n + 1)
  BY DEF Cancelled

LEMMA SurvivorsAre ==
  ASSUME list \in Seq(Item)
  PROVE  Survivors = {i \in 1 .. Len(list) : ~IsCancel(list[i]) /\ ~Cancelled(CancelsBehind(i))}
<1>1. DOMAIN list = 1 .. Len(list)
  OBVIOUS
<1> QED
  BY <1>1 DEF Survivors, Cancelled

(* Going on to item l adds it to the survivors seen, or nothing. *)
LEMMA SeenGrows ==
  ASSUME list \in Seq(Item), NEW l \in 1 .. Len(list)
  PROVE  /\ \A i : i \in Seen(l - 1) <=> i \in Seen(l) \/ (i = l /\ l \in Survivors)
         /\ \A i : i \in Seen(l) => i \in l + 1 .. Len(list)
<1>1. \A i \in Survivors : i \in 1 .. Len(list)
  BY SurvivorsAre
<1>2. Len(list) \in Nat
  OBVIOUS
<1>3. \A i \in 1 .. Len(list) : i > l - 1 <=> i > l \/ i = l
  BY <1>2
<1>4. \A i \in 1 .. Len(list) : i > l => i \in l + 1 .. Len(list)
  BY <1>2
<1>5. l > l - 1
  BY <1>2
<1> QED
  BY <1>1, <1>3, <1>4, <1>5, Zenon DEF Seen

(* The survivors seen are finitely many, and each has a place among them. *)
LEMMA SeenIsFinite ==
  ASSUME list \in Seq(Item), NEW l \in 0 .. Len(list), NEW i \in Seen(l)
  PROVE  /\ IsFiniteSet(SeenUpTo(l, i))
         /\ Cardinality(SeenUpTo(l, i)) \in 1 .. Cardinality(Seen(l))
<1>1. IsFiniteSet(Seen(l)) /\ Cardinality(Seen(l)) \in Nat
  <2>1. Seen(l) \in SUBSET (1 .. Len(list))
    BY SurvivorsAre DEF Seen
  <2>2. IsFiniteSet(1 .. Len(list))
    BY FS_Interval
  <2> QED
    BY <2>1, <2>2, FS_Subset, FS_CardinalityType
<1>2. SeenUpTo(l, i) \in SUBSET Seen(l) /\ i \in SeenUpTo(l, i)
  <2>1. i \in Int
    BY SurvivorsAre DEF Seen
  <2> QED
    BY <2>1 DEF SeenUpTo
<1>3. /\ IsFiniteSet(SeenUpTo(l, i))
      /\ Cardinality(SeenUpTo(l, i)) <= Cardinality(Seen(l))
  BY <1>1, <1>2, FS_Subset
<1>4. Cardinality(SeenUpTo(l, i)) \in Nat /\ Cardinality(SeenUpTo(l, i)) # 0
  BY <1>2, <1>3, FS_CardinalityType, FS_EmptySet
<1> QED
  BY <1>1, <1>3, <1>4

(* An item that survives is put in front; the others stay in their order.   *)
LEMMA SurvivorIsCollected ==
  ASSUME list \in Seq(Item), NEW l \in 1 .. Len(list), l \in Survivors,
         NEW ks \in Seq(Item), Collects(l, ks)
  PROVE  Collects(l - 1, <<list[l]>> \o ks)
<1> DEFINE new == <<list[l]>> \o ks
<1>1. \A i \in Seen(l) : i \in l + 1 .. Len(list)
  BY SeenGrows
<1>2. Seen(l - 1) = Seen(l) \cup {l} /\ l \notin Seen(l)
  <2>1. \A i : i \in Seen(l - 1) <=> i \in Seen(l) \/ i = l
    BY SeenGrows
  <2> QED
    BY <1>1, <2>1
<1>3. /\ IsFiniteSet(Seen(l)) /\ Cardinality(Seen(l)) = Len(ks)
      /\ Cardinality(Seen(l - 1)) = Len(ks) + 1
  <2>1. IsFiniteSet(l + 1 .. Len(list)) /\ Seen(l) \in SUBSET (l + 1 .. Len(list))
    BY <1>1, FS_Interval
  <2>2. IsFiniteSet(Seen(l))
    BY <2>1, FS_Subset
  <2> QED
    BY <1>2, <2>2, FS_AddElement DEF Collects
<1>4. /\ Len(new) = Len(ks) + 1 /\ new[1] = list[l]
      /\ \A n \in 1 .. Len(ks) : new[n + 1] = ks[n]
  <2>1. list[l] \in Item
    OBVIOUS
  <2>2. <<list[l]>> \in Seq(Item) /\ Len(<<list[l]>>) = 1 /\ <<list[l]>>[1] = list[l]
    BY <2>1
  <2> QED
    BY <2>2
<1> HIDE DEF new
<1>5. ASSUME NEW i \in Seen(l - 1)
      PROVE  new[Cardinality(SeenUpTo(l - 1, i))] = list[i]
  <2>1. CASE i = l
    <3>1. SeenUpTo(l - 1, i) = {l}
      <4>1. l <= l /\ \A j \in Seen(l) : ~(j <= l)
        BY <1>1
      <4>2. \A j : j \in SeenUpTo(l - 1, i) <=> j = l
        BY <1>2, <2>1, <4>1, Zenon DEF SeenUpTo
      <4> QED
        BY <4>2
    <3>2. Cardinality(SeenUpTo(l - 1, i)) = 1
      BY <3>1, FS_Singleton
    <3> QED
      BY <1>4, <2>1, <3>2
  <2>2. CASE i \in Seen(l)
    <3>1. SeenUpTo(l - 1, i) = SeenUpTo(l, i) \cup {l} /\ l \notin SeenUpTo(l, i)
      <4>1. l <= i
        BY <1>1, <2>2
      <4> QED
        BY <1>2, <4>1 DEF SeenUpTo
    <3>2. /\ IsFiniteSet(SeenUpTo(l, i))
          /\ Cardinality(SeenUpTo(l, i)) \in 1 .. Len(ks)
      BY <1>3, <2>2, SeenIsFinite
    <3>3. Cardinality(SeenUpTo(l - 1, i)) = Cardinality(SeenUpTo(l, i)) + 1
      BY <3>1, <3>2, FS_AddElement
    <3>4. ks[Cardinality(SeenUpTo(l, i))] = list[i]
      BY <2>2 DEF Collects
    <3> QED
      BY <1>4, <3>2, <3>3, <3>4
  <2> QED
    BY <1>2, <1>5, <2>1, <2>2
<1> QED
  BY <1>3, <1>4, <1>5 DEF Collects, new

LEMMA OtherIsDropped ==
  ASSUME list \in Seq(Item), NEW l \in 1 .. Len(list), l \notin Survivors,
         NEW ks \in Seq(Item), Collects(l, ks)
  PROVE  Collects(l - 1, ks)
<1>1. Seen(l - 1) = Seen(l)
  <2>1. \A i : i \in Seen(l - 1) <=> i \in Seen(l)
    BY SeenGrows
  <2> QED
    BY <2>1
<1>2. \A i : SeenUpTo(l - 1, i) = SeenUpTo(l, i)
  BY <1>1 DEF SeenUpTo
<1> QED
  BY <1>1, <1>2 DEF Collects

-----------------------------------------------------------------------------
(* The pass reads the list and the dialect only. *)
LEMMA ListStays ==
  ASSUME UNCHANGED <<dialect, list>>
  PROVE  /\ Survivors' = Survivors
         /\ \A i : CancelsBehind(i)' = CancelsBehind(i)
         /\ \A n : Cancelled(n)' = Cancelled(n)
         /\ \A l, ks : Collects(l, ks)' = Collects(l, ks)
<1>1. \A i : CancelsBehind(i)' = CancelsBehind(i)
  <2>1. \A k : IsCancel(list[k])' = IsCancel(list[k])
    BY DEF IsCancel
  <2> QED
    BY <2>1 DEF CancelsBehind
<1>2. Survivors' = Survivors
  BY <1>1 DEF Survivors, IsCancel
<1>3. \A n : Cancelled(n)' = Cancelled(n)
  BY DEF Cancelled
<1>4. \A l, ks : Collects(l, ks)' = Collects(l, ks)
  BY <1>2 DEF Collects, Seen, SeenUpTo
<1> QED
  BY <1>1, <1>2, <1>3, <1>4

LEMMA PassBegins ==
  ASSUME TypeOK, ReadFinger
  PROVE  Passed'
<1>1. PICK l \in Lists(room) :
        list' = l /\ left' = Len(l) /\ pc' = IF l = <<>> THEN "chain" ELSE "preprocess"
  BY DEF ReadFinger
<1>2. l \in Seq(Item)
  <2>1. PICK k \in 0 .. room : l \in [1 .. k -> ListItems]
    BY DEF Lists, ListItems
  <2>2. k \in Nat /\ l \in [1 .. k -> Item]
    BY <2>1, ListItemsType DEF TypeOK
  <2> QED
    BY <2>1, <2>2
<1>3. skip' = FALSE /\ kept' = <<>> /\ dialect' = dialect
  BY DEF ReadFinger, requestVars
<1>4. Seen(left)' = {}
  <2>1. Survivors' \subseteq 1 .. Len(l)
    <3>1. DOMAIN list' = 1 .. Len(l)
      BY <1>1, <1>2
    <3> QED
      BY <3>1 DEF Survivors
  <2>2. \A i \in 1 .. Len(l) : ~(i > Len(l))
    BY <1>2
  <2> QED
    BY <1>1, <2>1, <2>2 DEF Seen
<1>5. CancelsBehind(left)' = 0
  <2>1. (left + 1 .. Len(list))' = {}
    BY <1>1, <1>2
  <2>2. {j \in left + 1 .. Len(list) : \A k \in left + 1 .. j : IsCancel(list[k])}' = {}
    BY <2>1
  <2> QED
    BY <2>2, FS_EmptySet DEF CancelsBehind
<1>6. Collects(left, kept)'
  BY <1>3, <1>4, EmptyTypes, FS_EmptySet DEF Collects
<1>7. skip' = Cancelled(CancelsBehind(left))'
  <2>1. Cancelled(CancelsBehind(left))' = FALSE
    BY <1>5 DEF Cancelled
  <2> QED
    BY <1>3, <2>1
<1>8. pc' = "chain" => left' = 0
  BY <1>1, EmptyTypes
<1> QED
  BY <1>6, <1>7, <1>8 DEF Passed

LEMMA PassGoesOn ==
  ASSUME TouchInv, Passed, PreprocessItem
  PROVE  Passed'
<1> DEFINE it == list[left]
           n == CancelsBehind(left)
<1>1. /\ list \in Seq(Item) /\ left \in 1 .. Len(list) /\ kept \in Seq(Item)
      /\ pc = "preprocess" /\ skip = Cancelled(n) /\ Collects(left, kept)
  BY DEF TouchInv, TypeOK, Stage, PreprocessItem, Passed
<1>2. /\ list' = list /\ dialect' = dialect /\ left' = left - 1
      /\ pc' = IF left = 1 THEN "chain" ELSE "preprocess"
      /\ skip' = Cancels(it)
      /\ kept' = IF Cancels(it) \/ skip THEN kept ELSE <<it>> \o kept
  BY DEF PreprocessItem, requestVars
<1>3. n \in Nat /\ left - 1 \in 0 .. Len(list)
      /\ CancelsBehind(left - 1) = IF IsCancel(it) THEN n + 1 ELSE 0
  BY <1>1, RunIsFinite, RunGrows
<1>4. dialect \in Dialect
  BY DEF TouchInv, TypeOK
<1> HIDE DEF n
<1>5. Cancels(it) = Cancelled(CancelsBehind(left - 1))
  <2>1. Cancels(it) <=> Cancelled(CancelsBehind(left - 1))
    <3>1. CASE ~IsCancel(it)
      BY <1>3, <3>1, CancelledGrows DEF Cancels
    <3>2. CASE IsCancel(it) /\ dialect = "w3c"
      BY <1>1, <1>3, <3>2, CancelledGrows DEF Cancels
    <3>3. CASE IsCancel(it) /\ dialect # "w3c"
      BY <1>3, <1>4, <3>3, CancelledGrows DEF Cancels, Dialect
    <3> QED
      BY <3>1, <3>2, <3>3
  <2>2. Cancels(it) \in BOOLEAN /\ Cancelled(CancelsBehind(left - 1)) \in BOOLEAN
    BY DEF Cancels, IsCancel, Cancelled
  <2> QED
    BY <2>1, <2>2
(* It is dropped exactly if it does not survive. *)
<1>6. left \in Survivors <=> ~(Cancels(it) \/ skip)
  <2>1. left \in Survivors <=> ~IsCancel(it) /\ ~Cancelled(n)
    BY <1>1, SurvivorsAre DEF n
  <2>2. Cancels(it) => IsCancel(it)
    BY DEF Cancels
  <2>3. IsCancel(it) /\ ~skip => Cancels(it)
    BY DEF Cancels
  <2> QED
    BY <1>1, <2>1, <2>2, <2>3
<1>7. Collects(left - 1, kept')
  <2>1. CASE left \in Survivors
    <3>1. kept' = <<it>> \o kept
      BY <1>2, <1>6, <2>1
    <3> QED
      BY <1>1, <2>1, <3>1, SurvivorIsCollected
  <2>2. CASE left \notin Survivors
    <3>1. kept' = kept
      BY <1>2, <1>6, <2>2
    <3> QED
      BY <1>1, <2>2, <3>1, OtherIsDropped
  <2> QED
    BY <2>1, <2>2
<1>8. Collects(left, kept)'
  <2>1. PICK l, ks : l = left' /\ ks = kept'
    OBVIOUS
  <2>2. Collects(l, ks)'
    BY <1>2, <1>7, <2>1, ListStays
  <2> QED
    BY <2>1, <2>2 DEF Collects
<1>9. skip' = Cancelled(CancelsBehind(left))'
  BY <1>2, <1>5 DEF Cancelled, CancelsBehind, IsCancel
<1> QED
  BY <1>1, <1>2, <1>8, <1>9 DEF Passed

LEMMA PassedStep ==
  ASSUME TouchInv, Passed, [Next]_vars
  PROVE  Passed'
<1>1. ASSUME pc' \notin {"preprocess", "chain"}
      PROVE  Passed'
  BY <1>1 DEF Passed
<1>2. ASSUME UNCHANGED <<dialect, pc, listVars>>
      PROVE  Passed'
  BY <1>2, ListStays DEF Passed, listVars
<1>3. CASE NextRequest \/ FinishFinger \/ ChainIsComplete \/ \E how : Answer(how)
  BY <1>1, <1>3 DEF NextRequest, FinishFinger, ChainIsComplete, Answer
<1>4. CASE ReadFinger
  BY <1>4, PassBegins DEF TouchInv
<1>5. CASE PreprocessItem
  BY <1>5, PassGoesOn
<1>6. CASE AddItem
  BY <1>2, <1>6 DEF AddItem, requestVars
<1>7. CASE Adding
  BY <1>1, <1>7 DEF Adding, PointerMove, PointerDown, Pause, LiftUp, Tap, PressDown, MoveTo, Adds
<1>8. CASE UNCHANGED vars
  BY <1>2, <1>8 DEF vars, requestVars
<1> QED
  <2>1. ASSUME NEW done \in BOOLEAN, SynthesizeEvent(done)
        PROVE  \E how : Answer(how)
    BY <2>1 DEF SynthesizeEvent
  <2>2. RejectRequest \/ RejectFinger \/ RejectItem \/ RejectEmptyChain
        \/ RaiseOnStaleElement \/ RaiseWithoutPath => \E how : Answer(how)
    BY DEF RejectRequest, RejectFinger, RejectItem, RejectEmptyChain, RaiseOnStaleElement,
       RaiseWithoutPath
  <2> QED
    BY <1>3, <1>4, <1>5, <1>6, <1>7, <1>8, <2>1, <2>2 DEF Next, Adding

(* The preprocessing keeps the items that no cancel removes, in their       *)
(* order, for lists of any length and any arrangement of the cancels.       *)
THEOREM CancelsRemoveWhatTheyShould == Spec => []KeptIsWhatSurvives
<1>1. Init => Passed
  BY DEF Init, Passed
<1>2. TouchInv /\ Passed /\ [Next]_vars => Passed'
  BY PassedStep
<1>3. ASSUME TouchInv, Passed
      PROVE  KeptIsWhatSurvives
  <2> SUFFICES ASSUME pc = "chain"
               PROVE  /\ Len(kept) = Cardinality(Survivors)
                      /\ \A i \in Survivors :
                           kept[Cardinality({j \in Survivors : j <= i})] = list[i]
    BY DEF KeptIsWhatSurvives
  <2>1. left = 0 /\ Collects(left, kept) /\ list \in Seq(Item)
    BY <1>3 DEF Passed, TouchInv, TypeOK
  <2>2. Seen(left) = Survivors
    <3>1. \A i \in Survivors : i > 0
      BY <2>1, SurvivorsAre
    <3> QED
      BY <2>1, <3>1 DEF Seen
  <2> QED
    BY <2>1, <2>2 DEF Collects, SeenUpTo
<1> QED
  BY <1>1, <1>2, <1>3, Invariance, PTL DEF Spec

=============================================================================
