------------------------ MODULE FBElementCacheProofs ------------------------
(***************************************************************************)
(* What the element cache guarantees for any elements and any cache size.  *)
(***************************************************************************)
EXTENDS FBElementCache, FiniteSetTheorems, TLAPS

-----------------------------------------------------------------------------
(* Every history is a finite set, and one more id makes it larger by one. *)
LEMMA Histories ==
  ASSUME TypeOK, NEW u \in Uid, NEW v \in Uid
  PROVE  /\ IsFiniteSet(since[u]) /\ IsFiniteSet(since[u] \cup {v})
         /\ Cardinality(since[u]) \in Nat /\ Cardinality(since[u] \cup {v}) \in Nat
         /\ Cardinality(since[u] \cup {v}) >= Cardinality(since[u])
         /\ v \notin since[u] => Cardinality(since[u] \cup {v}) = Cardinality(since[u]) + 1
<1>1. IsFiniteSet(Uid)
  BY CacheAssumption, FS_AddElement DEF Uid
<1>2. IsFiniteSet(since[u])
  BY <1>1, FS_Subset DEF TypeOK
<1>3. /\ IsFiniteSet(since[u] \cup {v})
      /\ Cardinality(since[u] \cup {v}) =
           IF v \in since[u] THEN Cardinality(since[u]) ELSE Cardinality(since[u]) + 1
  BY <1>2, FS_AddElement
<1>4. Cardinality(since[u]) \in Nat
  BY <1>2, FS_CardinalityType
<1> QED
  BY <1>2, <1>3, <1>4

-----------------------------------------------------------------------------
(* Types *)

(* Using an id keeps the list well typed. *)
LEMMA UseType ==
  ASSUME TypeOK, NEW u \in Uid, Use(u)
  PROVE  /\ place' \in [Uid -> 1 .. Evicted]
         /\ used' \subseteq Uid
         /\ since' \in [Uid -> SUBSET Uid]
<1>1. Evicted \in Nat /\ 1 \in 1 .. Evicted
  BY CacheAssumption DEF Evicted
<1>2. \A v \in Uid : place[v] \in 1 .. Evicted
  BY DEF TypeOK
<1>3. \A v \in Uid : place[v] < place[u] => place[v] + 1 \in 1 .. Evicted
  BY <1>1, <1>2
<1>4. place' \in [Uid -> 1 .. Evicted]
  BY <1>1, <1>2, <1>3 DEF Use, Promoted
<1>5. used' \subseteq Uid /\ since' \in [Uid -> SUBSET Uid]
  BY DEF Use, TypeOK
<1> QED
  BY <1>4, <1>5

(* An element's id, whether the element is shown or not, is an id. *)
LEMMA UidType == \A e \in Element : WdUID(e) \in Uid
BY DEF WdUID, Uid

(* A search matches elements. *)
LEMMA MatchesType == ASSUME TypeOK PROVE Matches \subseteq Seq(Element)
<1> SUFFICES ASSUME NEW s \in Matches PROVE s \in Seq(Element)
  OBVIOUS
<1>1. PICK n \in 0 .. MaxMatches : s \in [1 .. n -> screen]
  BY DEF Matches
<1>2. n \in Nat /\ s \in [1 .. n -> Element]
  BY <1>1, CacheAssumption DEF TypeOK
<1> QED
  BY <1>2

(* The initial state has the right types. *)
LEMMA InitType == Init => TypeOK
<1> SUFFICES ASSUME Init PROVE TypeOK
  OBVIOUS
<1>1. Evicted \in 1 .. Evicted
  BY CacheAssumption DEF Evicted
<1>2. place \in [Uid -> 1 .. Evicted] /\ holds \in [Uid -> Uid]
  BY <1>1 DEF Init
<1>3. found \in Seq(Element) /\ answer \subseteq Match
  BY DEF Init
<1>4. used \subseteq Uid /\ since \in [Uid -> SUBSET Uid]
  BY DEF Init
<1> QED
  BY <1>2, <1>3, <1>4 DEF Init, TypeOK

(* Every step keeps the types. *)
LEMMA NextType == ASSUME TypeOK, [Next]_vars PROVE TypeOK'
<1>1. ASSUME NEW e \in Element, Appear(e) \/ Vanish(e) PROVE TypeOK'
  BY <1>1 DEF Appear, Vanish, TypeOK, cacheVars, findVars, Evicted, Match
<1>2. CASE FindElements
  <2>1. PICK s \in Matches : Search(NoParent, s)
    BY <1>2 DEF FindElements
  <2>2. s \in Seq(Element)
    BY MatchesType
  <2> QED
    BY <1>2, <2>1, <2>2 DEF FindElements, Search, TypeOK, cacheVars, Evicted
<1>3. ASSUME NEW u \in Uid, FindSubElements(u) PROVE TypeOK'
  <2>1. CASE Cached(u)
    <3>1. ElementForUUID(u)
          /\ \E s \in IF holds[u] \in screen THEN Matches ELSE {<<>>} : Search(u, s)
      BY <1>3, <2>1 DEF FindSubElements
    <3>2. PICK s \in IF holds[u] \in screen THEN Matches ELSE {<<>>} : Search(u, s)
      BY <3>1
    <3>3. s \in Seq(Element)
      <4>1. <<>> \in Seq(Element) /\ Matches \subseteq Seq(Element)
        BY MatchesType
      <4>2. s \in Matches \/ s \in {<<>>}
        OBVIOUS
      <4>3. CASE s \in Matches
        BY <4>1, <4>3
      <4>4. CASE s \in {<<>>}
        <5>1. s = <<>>
          BY <4>4
        <5> QED
          BY <4>1, <5>1
      <4> QED
        BY <4>2, <4>3, <4>4
    <3>4. /\ place' \in [Uid -> 1 .. Evicted]
          /\ used' \subseteq Uid
          /\ since' \in [Uid -> SUBSET Uid]
      BY <3>1, UseType DEF ElementForUUID
    <3> QED
      BY <3>1, <3>2, <3>3, <3>4 DEF ElementForUUID, Search, TypeOK, Evicted
  <2>2. CASE ~Cached(u)
    BY <1>3, <2>2 DEF FindSubElements, Search, TypeOK, cacheVars, Evicted
  <2> QED
    BY <2>1, <2>2
<1>4. ASSUME NEW u \in Uid, ElementCommand(u) PROVE TypeOK'
  <2>1. /\ place' \in [Uid -> 1 .. Evicted]
        /\ used' \subseteq Uid
        /\ since' \in [Uid -> SUBSET Uid]
    BY <1>4, UseType DEF ElementCommand, ElementForUUID
  <2> QED
    BY <1>4, <2>1 DEF ElementCommand, ElementForUUID, findVars, TypeOK, Evicted
<1>5. CASE CacheMatch
  <2> DEFINE e == Head(found)
  <2>1. e \in Element /\ found' \in Seq(Element)
    BY <1>5 DEF CacheMatch, TypeOK
  <2>2. WdUID(e) \in Uid
    BY <2>1, UidType
  <2>3. Use(WdUID(e)) /\ holds' = [holds EXCEPT ![WdUID(e)] = e]
    BY <1>5 DEF CacheMatch, StoreElement
  <2>4. /\ place' \in [Uid -> 1 .. Evicted]
        /\ used' \subseteq Uid
        /\ since' \in [Uid -> SUBSET Uid]
    BY <2>2, <2>3, UseType
  <2>5. e \in Uid
    BY <2>1 DEF Uid
  <2>6. holds' \in [Uid -> Uid]
    BY <2>3, <2>5 DEF TypeOK
  <2>7. [uid |-> WdUID(e), element |-> e] \in Match
    BY <2>1, <2>2 DEF Match
  <2> HIDE DEF e
  <2>8. answer' \subseteq Match
    BY <1>5, <2>7 DEF CacheMatch, TypeOK, e
  <2> QED
    BY <1>5, <2>1, <2>4, <2>6, <2>8 DEF CacheMatch, TypeOK, Evicted
<1>6. CASE Answer
  BY <1>6 DEF Answer, TypeOK, cacheVars, Evicted, Match
<1>7. CASE NewSession
  <2>1. Evicted \in 1 .. Evicted
    BY CacheAssumption DEF Evicted
  <2> QED
    BY <1>7, <2>1 DEF NewSession, TypeOK, findVars, Match, Evicted
<1>8. CASE UNCHANGED vars
  BY <1>8 DEF vars, cacheVars, findVars, TypeOK, Evicted, Match
<1> QED
  BY <1>1, <1>2, <1>3, <1>4, <1>5, <1>6, <1>7, <1>8 DEF Next

(* Ids, places, matches and histories are what the declarations say, for      *)
(* every cache size (FBElementCache.m).                                       *)
THEOREM TypeCorrect == Spec => []TypeOK
<1>1. Init => TypeOK
  BY InitType
<1>2. TypeOK /\ [Next]_vars => TypeOK'
  BY NextType
<1> QED
  BY <1>1, <1>2, PTL DEF Spec

-----------------------------------------------------------------------------
(* The list *)

ListInv == PlacesFollowHistory /\ PlacesAreTakenOnce /\ EvictedAreOld

(* A promotion keeps the histories in step with the places. *)
LEMMA UseKeepsPlaces ==
  ASSUME TypeOK, ListInv, NEW u \in Uid, Use(u)
  PROVE  PlacesFollowHistory'
<1> SUFFICES ASSUME NEW v \in Uid, Cached(v)'
             PROVE  /\ v \in used'
                    /\ since'[v] = {w \in Uid : place'[w] < place'[v]}
                    /\ Cardinality(since'[v]) = place'[v] - 1
  BY DEF PlacesFollowHistory
<1> USE DEF Use, Promoted, Cached, Evicted
<1>1. CacheSize \in Nat \ {0} /\ \A w \in Uid : place[w] \in 1 .. CacheSize + 1
  BY CacheAssumption DEF TypeOK
<1>2. /\ place' = [w \in Uid |-> IF w = u THEN 1
                               ELSE IF place[w] < place[u] THEN place[w] + 1 ELSE place[w]]
      /\ used' = used \cup {u}
      /\ since' = [w \in Uid |-> IF w = u THEN {} ELSE since[w] \cup {u}]
  OBVIOUS
<1>3. CASE v = u
  <2>1. since'[v] = {} /\ place'[v] = 1 /\ v \in used'
    BY <1>2, <1>3
  <2>2. \A w \in Uid : ~(place'[w] < 1)
    BY <1>1, <1>2
  <2>3. Cardinality(since'[v]) = 0
    BY <2>1, FS_EmptySet
  <2> QED
    BY <2>1, <2>2, <2>3
<1>4. CASE v # u
  <2>1. since'[v] = since[v] \cup {u}
    BY <1>2, <1>4
  <2>2. place[v] # CacheSize + 1 /\ place[v] # place[u]
    BY <1>1, <1>2, <1>4 DEF ListInv, PlacesAreTakenOnce
  <2>3. /\ v \in used
        /\ since[v] = {w \in Uid : place[w] < place[v]}
        /\ Cardinality(since[v]) = place[v] - 1
    BY <2>2 DEF ListInv, PlacesFollowHistory
  <2>4. CASE place[v] < place[u]
    <3>1. place'[v] = place[v] + 1
      BY <1>2, <1>4, <2>4
    <3>2. u \notin since[v]
      BY <1>1, <2>3, <2>4
    <3>3. Cardinality(since'[v]) = place[v]
      <4>1. Cardinality(since[v] \cup {u}) = Cardinality(since[v]) + 1
        BY <3>2, Histories
      <4>2. place[v] \in Nat
        BY <1>1
      <4>3. Cardinality(since[v]) = place[v] - 1
        BY <2>3
      <4>4. Cardinality(since[v] \cup {u}) = place[v]
        BY <4>1, <4>2, <4>3
      <4> QED
        BY <2>1, <4>4
    <3>4. \A w \in Uid : place'[w] < place'[v] <=> w = u \/ place[w] < place[v]
      BY <1>1, <1>2, <2>4, <3>1
    <3>5. since'[v] = {w \in Uid : place'[w] < place'[v]}
      BY <2>1, <2>3, <3>4
    <3> QED
      BY <1>1, <1>2, <2>3, <3>1, <3>3, <3>5
  <2>5. CASE place[u] < place[v]
    <3>1. place'[v] = place[v]
      BY <1>1, <1>2, <1>4, <2>5
    <3>2. u \in since[v]
      BY <2>3, <2>5
    <3>3. since'[v] = since[v]
      BY <2>1, <3>2
    <3>4. \A w \in Uid : place'[w] < place'[v] <=> place[w] < place[v]
      BY <1>1, <1>2, <2>5, <3>1
    <3>5. since'[v] = {w \in Uid : place'[w] < place'[v]}
      BY <2>3, <3>3, <3>4
    <3> QED
      BY <1>2, <2>3, <3>1, <3>3, <3>5
  <2>6. place[v] < place[u] \/ place[u] < place[v]
    BY <1>1, <2>2
  <2> QED
    BY <2>4, <2>5, <2>6
<1> QED
  BY <1>3, <1>4

(* No two cached ids come to stand in one place. *)
LEMMA UseKeepsPlacesApart ==
  ASSUME TypeOK, ListInv, NEW u \in Uid, Use(u)
  PROVE  PlacesAreTakenOnce'
<1> SUFFICES ASSUME NEW v \in Uid, NEW w \in Uid, place'[v] # Evicted, place'[v] = place'[w]
             PROVE  v = w
  BY DEF PlacesAreTakenOnce, Cached, Evicted
<1>1. CacheSize \in Nat \ {0} /\ \A x \in Uid : place[x] \in 1 .. CacheSize + 1
  BY CacheAssumption DEF TypeOK, Evicted
<1>2. \A x \in Uid : place'[x] = IF x = u THEN 1
                               ELSE IF place[x] < place[u] THEN place[x] + 1 ELSE place[x]
  BY DEF Use, Promoted
<1>3. \A x, y \in Uid : place[x] # CacheSize + 1 /\ place[x] = place[y] => x = y
  BY DEF ListInv, PlacesAreTakenOnce, Cached, Evicted
<1>4. \A x \in Uid : x # u /\ place[x] # CacheSize + 1 => place[x] # place[u]
  BY <1>3
<1> QED
  BY <1>1, <1>2, <1>3, <1>4 DEF Evicted

(* The id that drops out of a full list is as old as the list is long. *)
LEMMA UseKeepsEvicted ==
  ASSUME TypeOK, ListInv, NEW u \in Uid, Use(u)
  PROVE  EvictedAreOld'
<1> SUFFICES ASSUME NEW v \in used', place'[v] = CacheSize + 1
             PROVE  Cardinality(since'[v]) >= CacheSize
  BY DEF EvictedAreOld, Cached, Evicted
<1>1. CacheSize \in Nat \ {0} /\ \A x \in Uid : place[x] \in 1 .. CacheSize + 1
  BY CacheAssumption DEF TypeOK, Evicted
<1>2. \A x \in Uid : place'[x] = IF x = u THEN 1
                               ELSE IF place[x] < place[u] THEN place[x] + 1 ELSE place[x]
  BY DEF Use, Promoted
<1>3. v \in Uid
  BY DEF Use, TypeOK
<1>4. v # u
  BY <1>1, <1>2
<1>5. v \in used /\ since'[v] = since[v] \cup {u}
  BY <1>3, <1>4 DEF Use
<1>6. CASE place[v] = CacheSize + 1
  <2>1. Cardinality(since[v]) >= CacheSize
    BY <1>5, <1>6 DEF ListInv, EvictedAreOld, Cached, Evicted
  <2> QED
    BY <1>1, <1>3, <1>5, <2>1, Histories
<1>7. CASE place[v] # CacheSize + 1
  <2>1. place[v] = CacheSize /\ place[v] < place[u]
    BY <1>1, <1>2, <1>3, <1>4, <1>7
  <2>2. /\ since[v] = {w \in Uid : place[w] < place[v]}
        /\ Cardinality(since[v]) = place[v] - 1
    BY <1>3, <1>7 DEF ListInv, PlacesFollowHistory, Cached, Evicted
  <2>3. u \notin since[v]
    BY <1>1, <1>3, <2>1, <2>2
  <2>4. Cardinality(since[v] \cup {u}) = Cardinality(since[v]) + 1
    BY <1>3, <2>3, Histories
  <2> QED
    BY <1>1, <1>5, <2>1, <2>2, <2>4
<1> QED
  BY <1>6, <1>7

(* An empty cache has nothing out of step. *)
LEMMA EmptyList ==
  ASSUME place = [u \in Uid |-> Evicted], used = {}
  PROVE  ListInv
BY DEF ListInv, PlacesFollowHistory, PlacesAreTakenOnce, EvictedAreOld, Cached

-----------------------------------------------------------------------------
(* Answers *)

(* A use of u keeps what the answer says of the histories, when u is counted  *)
(* among the answered ids from then on.                                       *)
LEMMA UseKeepsHistories ==
  ASSUME TypeOK, NEW u \in Uid, Use(u), \A v \in Uid : v \notin since[v],
         NEW ids, NEW v \in Uid, v = u \/ (v \in used /\ since[v] \subseteq ids)
  PROVE  /\ \A w \in Uid : w \notin since'[w]
         /\ v \in used' /\ since'[v] \subseteq ids \cup {u}
BY DEF Use, TypeOK

(* One more match adds its id to the answer's. *)
LEMMA AnswerIds ==
  ASSUME NEW A, NEW u, NEW e
  PROVE  {m.uid : m \in A \cup {[uid |-> u, element |-> e]}} = {m.uid : m \in A} \cup {u}
<1>1. [uid |-> u, element |-> e].uid = u
  OBVIOUS
<1> DEFINE x == [uid |-> u, element |-> e]
<1> HIDE DEF x
<1>2. {m.uid : m \in A \cup {x}} = {m.uid : m \in A} \cup {x.uid}
  OBVIOUS
<1> QED
  BY <1>1, <1>2 DEF x

(* Every step keeps the list in order and the answer within its history. *)
LEMMA NextInv == ASSUME CacheInv, [Next]_vars PROVE CacheInv'
<1> USE DEF CacheInv
<1>0. TypeOK /\ TypeOK' /\ ListInv /\ AnswerInv
  BY NextType DEF ListInv
<1>1. ASSUME NEW e \in Element, Appear(e) \/ Vanish(e) PROVE CacheInv'
  BY <1>0, <1>1 DEF Appear, Vanish, cacheVars, findVars, PlacesFollowHistory,
     PlacesAreTakenOnce, EvictedAreOld, AnswerInv, Cached, Evicted
<1>2. CASE FindElements
  BY <1>0, <1>2 DEF FindElements, Search, cacheVars, PlacesFollowHistory,
     PlacesAreTakenOnce, EvictedAreOld, AnswerInv, Cached, Evicted
<1>3. ASSUME NEW u \in Uid, FindSubElements(u) PROVE CacheInv'
  <2>1. CASE Cached(u)
    <3>1. Use(u) /\ busy' = TRUE /\ parent' = u /\ answer' = {}
      BY <1>3, <2>1 DEF FindSubElements, ElementForUUID, Search
    <3>2. PlacesFollowHistory' /\ PlacesAreTakenOnce' /\ EvictedAreOld'
      BY <1>0, <3>1, UseKeepsPlaces, UseKeepsPlacesApart, UseKeepsEvicted
    <3>3. u \in used' /\ since'[u] = {} /\ \A w \in Uid : w \notin since'[w]
      BY <1>0, <3>1 DEF Use, AnswerInv, TypeOK
    <3>4. AnswerInv'
      BY <3>1, <3>3 DEF AnswerInv
    <3> QED
      BY <1>0, <3>2, <3>4
  <2>2. CASE ~Cached(u)
    BY <1>0, <1>3, <2>2 DEF FindSubElements, Search, cacheVars, PlacesFollowHistory,
       PlacesAreTakenOnce, EvictedAreOld, AnswerInv, Cached, Evicted
  <2> QED
    BY <2>1, <2>2
<1>4. ASSUME NEW u \in Uid, ElementCommand(u) PROVE CacheInv'
  <2>1. Use(u) /\ ~busy /\ busy' = busy /\ parent' = parent /\ answer' = answer
    BY <1>4 DEF ElementCommand, ElementForUUID, findVars
  <2>2. PlacesFollowHistory' /\ PlacesAreTakenOnce' /\ EvictedAreOld'
    BY <1>0, <2>1, UseKeepsPlaces, UseKeepsPlacesApart, UseKeepsEvicted
  <2>3. \A w \in Uid : w \notin since'[w]
    BY <1>0, <2>1 DEF Use, AnswerInv, TypeOK
  <2>4. AnswerInv'
    BY <1>0, <2>1, <2>3 DEF AnswerInv
  <2> QED
    BY <1>0, <2>2, <2>4
<1>5. CASE CacheMatch
  <2> DEFINE u == WdUID(Head(found))
             ids == {m.uid : m \in answer}
             named == ids \cup ({parent} \ {NoParent})
  <2>1. Head(found) \in Element /\ u \in Uid
    BY <1>0, <1>5, UidType DEF CacheMatch, TypeOK
  <2>2. /\ Use(u) /\ busy /\ busy' = busy /\ parent' = parent
        /\ answer' = answer \cup {[uid |-> u, element |-> Head(found)]}
    BY <1>5 DEF CacheMatch, StoreElement
  <2>3. PlacesFollowHistory' /\ PlacesAreTakenOnce' /\ EvictedAreOld'
    BY <1>0, <2>1, <2>2, UseKeepsPlaces, UseKeepsPlacesApart, UseKeepsEvicted
  <2>4. {m.uid : m \in answer'} = ids \cup {u}
    BY <2>2, AnswerIds
  <2>5. /\ \A w \in Uid : w \notin since[w]
        /\ \A v \in named : v \in used /\ since[v] \subseteq ids
    BY <1>0 DEF AnswerInv
  <2>6. named \subseteq Uid
    BY <1>0 DEF TypeOK, Match
  <2> HIDE DEF u, named
  <2>7. \A w \in Uid : w \notin since'[w]
    BY <1>0, <2>1, <2>2, <2>5 DEF Use, TypeOK
  <2>8. ASSUME NEW v \in named \cup {u}
        PROVE  v \in used' /\ since'[v] \subseteq ids \cup {u}
    BY <1>0, <2>1, <2>2, <2>5, <2>6, UseKeepsHistories
  <2>9. AnswerInv'
    <3>1. {m.uid : m \in answer'} \cup ({parent'} \ {NoParent}) = named \cup {u}
      BY <2>2, <2>4 DEF named
    <3> QED
      BY <2>2, <2>4, <2>7, <2>8, <3>1 DEF AnswerInv
  <2> QED
    BY <1>0, <2>3, <2>9
<1>6. CASE Answer
  BY <1>0, <1>6 DEF Answer, cacheVars, PlacesFollowHistory, PlacesAreTakenOnce,
     EvictedAreOld, AnswerInv, Cached, Evicted
<1>7. CASE NewSession
  <2>1. ListInv'
    BY <1>7 DEF NewSession, ListInv, PlacesFollowHistory, PlacesAreTakenOnce,
       EvictedAreOld, Cached
  <2>2. AnswerInv'
    BY <1>0, <1>7 DEF NewSession, AnswerInv, findVars
  <2> QED
    BY <1>0, <2>1, <2>2 DEF ListInv
<1>8. CASE UNCHANGED vars
  BY <1>0, <1>8 DEF vars, cacheVars, findVars, PlacesFollowHistory, PlacesAreTakenOnce,
     EvictedAreOld, AnswerInv, Cached, Evicted
<1> QED
  BY <1>1, <1>2, <1>3, <1>4, <1>5, <1>6, <1>7, <1>8 DEF Next

(* The inductive invariant. *)
LEMMA Inductive == Spec => []CacheInv
<1>1. Init => CacheInv
  <2> SUFFICES ASSUME Init PROVE CacheInv
    OBVIOUS
  <2>1. ListInv
    BY EmptyList DEF Init
  <2>2. AnswerInv
    BY DEF Init, AnswerInv
  <2> QED
    BY <2>1, <2>2, InitType DEF CacheInv, ListInv
<1>2. CacheInv /\ [Next]_vars => CacheInv'
  BY NextInv
<1> QED
  BY <1>1, <1>2, PTL DEF Spec

-----------------------------------------------------------------------------
(* What the invariant says of one id. *)
LEMMA KeptByInv == CacheInv => KeptWhileRecent
<1> SUFFICES ASSUME CacheInv, NEW u \in Uid
             PROVE  Cached(u) <=> u \in used /\ Cardinality(since[u]) < CacheSize
  BY DEF KeptWhileRecent
<1>1. CacheSize \in Nat /\ place[u] \in 1 .. CacheSize + 1 /\ Cardinality(since[u]) \in Nat
  BY CacheAssumption, Histories DEF CacheInv, TypeOK, Evicted
<1>2. Cached(u) => u \in used /\ Cardinality(since[u]) = place[u] - 1
  BY DEF CacheInv, PlacesFollowHistory
<1>3. u \in used /\ ~Cached(u) => Cardinality(since[u]) >= CacheSize
  BY DEF CacheInv, EvictedAreOld
<1> QED
  BY <1>1, <1>2, <1>3 DEF Cached, Evicted

(* An id can be fetched exactly while fewer than ELEMENT_CACHE_SIZE other ids  *)
(* were stored or fetched after it (FBElementCache.m).                         *)
THEOREM RecentIdsAreKept == Spec => []KeptWhileRecent
BY Inductive, KeptByInv, PTL

(* What the invariant says of an answer under way. *)
LEMMA UsableByInv == CacheInv => AnswerAndParentAreUsable
<1> SUFFICES ASSUME CacheInv PROVE AnswerAndParentAreUsable
  OBVIOUS
<1> DEFINE ids == {m.uid : m \in answer}
<1>1. ids \subseteq Uid
  BY DEF CacheInv, TypeOK, Match
<1>2. IsFiniteSet(Uid)
  BY CacheAssumption, FS_AddElement DEF Uid
<1>3. IsFiniteSet(ids)
  BY <1>1, <1>2, FS_Subset
<1>4. Cardinality(ids) \in Nat /\ CacheSize \in Nat
  BY <1>3, FS_CardinalityType, CacheAssumption
<1>5. /\ \A u \in ids : u \in used /\ since[u] \subseteq ids /\ u \notin since[u]
      /\ parent # NoParent => parent \in used /\ since[parent] \subseteq ids
  BY <1>1 DEF CacheInv, AnswerInv
<1>6. \A u \in Uid : u \in used /\ Cardinality(since[u]) < CacheSize => Cached(u)
  BY KeptByInv DEF KeptWhileRecent
<1> HIDE DEF ids
<1>7. ASSUME NEW u \in ids, Cardinality(ids) <= CacheSize PROVE Cached(u)
  <2>1. since[u] \subseteq ids \ {u} /\ IsFiniteSet(ids \ {u})
    BY <1>3, <1>5, FS_Subset
  <2>2. Cardinality(ids \ {u}) = Cardinality(ids) - 1
    BY <1>3, FS_RemoveElement
  <2>3. Cardinality(since[u]) \in Nat /\ Cardinality(since[u]) <= Cardinality(ids \ {u})
    BY <2>1, FS_Subset, FS_CardinalityType
  <2>4. Cardinality(since[u]) < CacheSize
    BY <1>4, <1>7, <2>2, <2>3
  <2> QED
    BY <1>1, <1>5, <1>6, <2>4
<1>8. ASSUME parent # NoParent, Cardinality(ids) < CacheSize PROVE Cached(parent)
  <2>1. parent \in Uid /\ parent \in used /\ since[parent] \subseteq ids
    BY <1>5, <1>8 DEF CacheInv, TypeOK
  <2>2. Cardinality(since[parent]) \in Nat /\ Cardinality(since[parent]) <= Cardinality(ids)
    BY <1>3, <2>1, FS_Subset, FS_CardinalityType
  <2>3. Cardinality(since[parent]) < CacheSize
    BY <1>4, <1>8, <2>2
  <2> QED
    BY <1>6, <2>1, <2>3
<1> QED
  BY <1>7, <1>8 DEF AnswerAndParentAreUsable, ids

(* Storing an answer of at most ELEMENT_CACHE_SIZE elements evicts none of     *)
(* them, and one of fewer leaves the element they were found under             *)
(* (FBResponseWithCachedElements).                                             *)
THEOREM SmallAnswersAreUsable == Spec => []AnswerAndParentAreUsable
BY Inductive, UsableByInv, PTL

-----------------------------------------------------------------------------
(* The list as a map that forgets the least recently used *)

(* Up to where the entries move back when u comes first. *)
MovesTo(u, n) == IF Cached(u) THEN place[u] ELSE IF n < CacheSize THEN n + 1 ELSE CacheSize

Longer(n, m) == IF m > n THEN m ELSE n

(* How the places change when u is used, with n of them taken. *)
LEMMA UseMoves ==
  ASSUME TypeOK, ListInv, NEW u \in Uid, Use(u), NEW n \in 0 .. CacheSize, Taken = 1 .. n
  PROVE  LET m == MovesTo(u, n) IN
         /\ m \in 1 .. CacheSize /\ m <= n + 1 /\ place'[u] = 1
         /\ \A x \in Uid : x # u /\ place[x] < m => place'[x] = place[x] + 1
         /\ \A x \in Uid : x # u /\ Cached(x) /\ place[x] > m => place'[x] = place[x]
         /\ \A x \in Uid : Cached(x)' => place'[x] <= Longer(n, m)
<1> DEFINE m == MovesTo(u, n)
<1>1. CacheSize \in Nat \ {0} /\ \A x \in Uid : place[x] \in 1 .. CacheSize + 1
  BY CacheAssumption DEF TypeOK, Evicted
<1>2. \A x \in Uid : place'[x] = IF x = u THEN 1
                               ELSE IF place[x] < place[u] THEN place[x] + 1 ELSE place[x]
  BY DEF Use, Promoted
<1>3. \A x \in Uid : Cached(x) => place[x] <= n
  BY <1>1 DEF Taken, Cached, Evicted
<1>4. \A x \in Uid : Cached(x) /\ place[x] = place[u] => x = u
  BY DEF ListInv, PlacesAreTakenOnce
<1>5. m = IF place[u] # CacheSize + 1 THEN place[u] ELSE IF n < CacheSize THEN n + 1 ELSE CacheSize
  BY DEF MovesTo, Cached, Evicted
<1>6. m \in 1 .. CacheSize /\ m <= n + 1
  BY <1>1, <1>3, <1>5 DEF Cached, Evicted
<1> HIDE DEF m
<1>7. ASSUME NEW x \in Uid, x # u, place[x] < m PROVE place'[x] = place[x] + 1
  BY <1>1, <1>2, <1>5, <1>7
<1>8. ASSUME NEW x \in Uid, x # u, Cached(x), place[x] > m PROVE place'[x] = place[x]
  BY <1>1, <1>2, <1>3, <1>5, <1>8 DEF Cached, Evicted
<1>9. ASSUME NEW x \in Uid, place'[x] # CacheSize + 1 PROVE place'[x] <= Longer(n, m)
  <2>1. CASE x = u
    BY <1>1, <1>2, <1>6, <2>1 DEF Longer
  <2>2. CASE x # u /\ place[x] < place[u]
    <3>1. Cached(x) /\ place[x] <= n /\ place'[x] = place[x] + 1
      BY <1>1, <1>2, <1>3, <1>9, <2>2 DEF Cached, Evicted
    <3>2. CASE place[u] # CacheSize + 1
      BY <1>1, <1>3, <1>5, <2>2, <3>1, <3>2 DEF Longer, Cached, Evicted
    <3>3. CASE place[u] = CacheSize + 1
      BY <1>1, <1>5, <1>9, <3>1, <3>3 DEF Longer
    <3> QED
      BY <3>2, <3>3
  <2>3. CASE x # u /\ ~(place[x] < place[u])
    <3>1. Cached(x) /\ place[x] <= n /\ place'[x] = place[x]
      BY <1>1, <1>2, <1>3, <1>9, <2>3 DEF Cached, Evicted
    <3> QED
      BY <1>1, <1>6, <3>1 DEF Longer
  <2> QED
    BY <2>1, <2>2, <2>3
<1>10. place'[u] = 1
  BY <1>2
<1>11. \A x \in Uid : Cached(x)' => place'[x] <= Longer(n, m)
  BY <1>9 DEF Cached, Evicted
<1> QED
  BY <1>6, <1>7, <1>8, <1>10, <1>11 DEF m

(* The places stay without a gap. *)
LEMMA UseFillsPlaces ==
  ASSUME TypeOK, ListInv, NEW u \in Uid, Use(u), NEW n \in 0 .. CacheSize, Taken = 1 .. n
  PROVE  Taken' = 1 .. Longer(n, MovesTo(u, n)) /\ Longer(n, MovesTo(u, n)) \in 1 .. CacheSize
<1> DEFINE m == MovesTo(u, n)
<1>1. CacheSize \in Nat \ {0} /\ \A x \in Uid : place[x] \in 1 .. CacheSize + 1
  BY CacheAssumption DEF TypeOK, Evicted
<1>2. /\ m \in 1 .. CacheSize /\ m <= n + 1 /\ place'[u] = 1
      /\ \A x \in Uid : x # u /\ place[x] < m => place'[x] = place[x] + 1
      /\ \A x \in Uid : x # u /\ Cached(x) /\ place[x] > m => place'[x] = place[x]
      /\ \A x \in Uid : Cached(x)' => place'[x] <= Longer(n, m)
  BY UseMoves
<1>3. Longer(n, m) \in 1 .. CacheSize
  BY <1>1, <1>2 DEF Longer
<1>4. Cached(u) => place[u] = m
  BY DEF MovesTo
<1>5. \A i \in 1 .. n : \E x \in Uid : place[x] = i
  BY DEF Taken
<1> HIDE DEF m
<1>6. ASSUME NEW i \in 1 .. Longer(n, m) PROVE \E x \in Uid : place'[x] = i
  <2>1. CASE i = 1
    BY <1>2, <2>1
  <2>2. CASE i > 1 /\ i <= m
    <3>1. i - 1 \in 1 .. n
      BY <1>1, <1>2, <1>3, <2>2
    <3>2. PICK x \in Uid : place[x] = i - 1
      BY <1>5, <3>1
    <3>3. x # u
      BY <1>1, <1>2, <1>4, <2>2, <3>1, <3>2 DEF Cached, Evicted
    <3>4. place'[x] = i
      BY <1>1, <1>2, <1>3, <2>2, <3>2, <3>3
    <3> QED
      BY <3>4
  <2>3. CASE i > m
    <3>1. i \in 1 .. n
      BY <1>1, <1>2, <1>3, <2>3 DEF Longer
    <3>2. PICK x \in Uid : place[x] = i
      BY <1>5, <3>1
    <3>3. Cached(x) /\ x # u
      BY <1>1, <1>2, <1>4, <2>3, <3>1, <3>2 DEF Cached, Evicted
    <3>4. place'[x] = i
      BY <1>2, <2>3, <3>2, <3>3
    <3> QED
      BY <3>4
  <2> QED
    BY <1>1, <1>2, <1>3, <2>1, <2>2, <2>3
<1>7. ASSUME NEW i \in 1 .. CacheSize, NEW x \in Uid, place'[x] = i
      PROVE  i \in 1 .. Longer(n, m)
  BY <1>1, <1>2, <1>3, <1>7 DEF Cached, Evicted
<1>8. \A i \in 1 .. CacheSize : i \in Taken' <=> i \in 1 .. Longer(n, m)
  BY <1>6, <1>7 DEF Taken
<1>9. Taken' \subseteq 1 .. CacheSize /\ 1 .. Longer(n, m) \subseteq 1 .. CacheSize
  BY <1>1, <1>3 DEF Taken
<1>10. Taken' = 1 .. Longer(n, m)
  BY <1>8, <1>9
<1> QED
  BY <1>3, <1>10 DEF m

(* An entry is that of the id in its place. *)
LEMMA EntryInPlace ==
  ASSUME NEW p \in [Uid -> Nat], NEW x \in Uid, \A v \in Uid : p[v] = p[x] => v = x
  PROVE  (CHOOSE v \in Uid : p[v] = p[x]) = x
OBVIOUS

LEMMA EntryOf ==
  ASSUME TypeOK, PlacesAreTakenOnce, NEW x \in Uid, Cached(x)
  PROVE  place[x] \in Taken /\ Entries[place[x]] = [key |-> x, value |-> holds[x]]
<1>1. place \in [Uid -> Nat] /\ place[x] \in 1 .. CacheSize
  BY CacheAssumption DEF TypeOK, Cached, Evicted
<1>2. \A v \in Uid : place[v] = place[x] => v = x
  BY DEF PlacesAreTakenOnce
<1>3. (CHOOSE v \in Uid : place[v] = place[x]) = x
  BY <1>1, <1>2, EntryInPlace
<1>4. place[x] \in Taken
  BY <1>1 DEF Taken
<1> QED
  BY <1>3, <1>4 DEF Entries

LEMMA EntryOfNext ==
  ASSUME TypeOK', PlacesAreTakenOnce', NEW x \in Uid, Cached(x)'
  PROVE  place'[x] \in Taken' /\ Entries'[place'[x]] = [key |-> x, value |-> holds'[x]]
<1>1. place' \in [Uid -> Nat] /\ place'[x] \in 1 .. CacheSize
  BY CacheAssumption DEF TypeOK, Cached, Evicted
<1>2. \A v \in Uid : place'[v] = place'[x] => v = x
  BY DEF PlacesAreTakenOnce, Cached, Evicted
<1>3. (CHOOSE v \in Uid : place'[v] = place'[x]) = x
  BY <1>1, <1>2, EntryInPlace
<1>4. place'[x] \in Taken'
  BY <1>1 DEF Taken
<1> QED
  BY <1>3, <1>4 DEF Entries

(* A use of u that leaves the elements of the other ids alone moves the entry *)
(* of u, as it is then, to the front.                                         *)
LEMMA UseMovesEntry ==
  ASSUME CacheInv, TypeOK', NEW u \in Uid, Use(u),
         NEW n \in 0 .. CacheSize, Taken = 1 .. n,
         \A x \in Uid : x # u => holds'[x] = holds[x]
  PROVE  Entries' = Remembered!MovedToFront([key |-> u, value |-> holds'[u]], MovesTo(u, n))
<1> DEFINE m == MovesTo(u, n)
           front == [key |-> u, value |-> holds'[u]]
           moved == Remembered!MovedToFront(front, m)
<1>0. TypeOK /\ ListInv
  BY DEF CacheInv, ListInv
<1>1. CacheSize \in Nat \ {0} /\ \A x \in Uid : place[x] \in 1 .. CacheSize + 1
  BY <1>0, CacheAssumption DEF TypeOK, Evicted
<1>2. /\ m \in 1 .. CacheSize /\ m <= n + 1 /\ place'[u] = 1
      /\ \A x \in Uid : x # u /\ place[x] < m => place'[x] = place[x] + 1
      /\ \A x \in Uid : x # u /\ Cached(x) /\ place[x] > m => place'[x] = place[x]
  BY <1>0, UseMoves
<1>3. Taken' = 1 .. Longer(n, m) /\ Longer(n, m) \in 1 .. CacheSize
  BY <1>0, UseFillsPlaces
<1>4. PlacesAreTakenOnce /\ PlacesAreTakenOnce'
  BY <1>0, UseKeepsPlacesApart DEF ListInv
<1>5. Cached(u) => place[u] = m
  BY DEF MovesTo
<1>6. \A i \in 1 .. n : \E x \in Uid : place[x] = i
  BY DEF Taken
<1>7. Len(Entries) = n
  BY DEF Entries
<1>8. moved = [i \in 1 .. Longer(n, m) |->
                 IF i = 1 THEN front ELSE IF i <= m THEN Entries[i - 1] ELSE Entries[i]]
  BY <1>7 DEF Remembered!MovedToFront, Longer
<1> HIDE DEF m, moved, front
<1>9. ASSUME NEW i \in 1 .. Longer(n, m)
      PROVE  Entries'[i] = IF i = 1 THEN front
                           ELSE IF i <= m THEN Entries[i - 1] ELSE Entries[i]
  <2>0. i \in 1 .. CacheSize
    BY <1>1, <1>3
  <2>1. CASE i = 1
    <3>1. Cached(u)'
      BY <1>1, <1>2 DEF Cached, Evicted
    <3> QED
      BY <1>2, <1>4, <2>1, <3>1, EntryOfNext DEF front
  <2>2. CASE i > 1 /\ i <= m
    <3>1. i - 1 \in 1 .. n
      BY <1>1, <1>2, <2>0, <2>2
    <3>2. PICK x \in Uid : place[x] = i - 1
      BY <1>6, <3>1
    <3>3. Cached(x) /\ x # u
      BY <1>1, <1>2, <1>5, <2>2, <3>1, <3>2 DEF Cached, Evicted
    <3>4. place'[x] = i /\ Cached(x)'
      BY <1>1, <1>2, <2>0, <2>2, <3>2, <3>3 DEF Cached, Evicted
    <3>5. Entries[i - 1] = [key |-> x, value |-> holds[x]]
      BY <1>0, <1>4, <3>2, <3>3, EntryOf
    <3>6. Entries'[i] = [key |-> x, value |-> holds'[x]]
      BY <1>4, <3>4, EntryOfNext
    <3> QED
      BY <2>2, <3>3, <3>5, <3>6
  <2>3. CASE i > m
    <3>1. i \in 1 .. n /\ i # 1 /\ ~(i <= m)
      BY <1>1, <1>2, <1>3, <2>0, <2>3 DEF Longer
    <3>2. PICK x \in Uid : place[x] = i
      BY <1>6, <3>1
    <3>3. Cached(x) /\ x # u
      BY <1>1, <1>2, <1>5, <2>0, <2>3, <3>2 DEF Cached, Evicted
    <3>4. place'[x] = i /\ Cached(x)'
      BY <1>1, <1>2, <2>0, <2>3, <3>2, <3>3 DEF Cached, Evicted
    <3>5. Entries[i] = [key |-> x, value |-> holds[x]]
      BY <1>0, <1>4, <3>2, <3>3, EntryOf
    <3>6. Entries'[i] = [key |-> x, value |-> holds'[x]]
      BY <1>4, <3>4, EntryOfNext
    <3> QED
      BY <3>1, <3>3, <3>5, <3>6
  <2> QED
    BY <1>1, <1>2, <2>0, <2>1, <2>2, <2>3
<1>10. Entries' = [i \in 1 .. Longer(n, m) |-> Entries'[i]]
  BY <1>3 DEF Entries
<1> QED
  BY <1>8, <1>9, <1>10 DEF moved, m, front

RecencyInv == CacheInv /\ NoPlaceIsSkipped

(* A fetch moves the entry to the front as it is. *)
LEMMA FetchIsGet ==
  ASSUME RecencyInv, TypeOK', NEW u \in Uid, Cached(u), ElementForUUID(u)
  PROVE  Remembered!Get(u)
<1>0. TypeOK /\ PlacesAreTakenOnce /\ Use(u) /\ holds' = holds
  BY DEF RecencyInv, CacheInv, ElementForUUID
<1>1. PICK n \in 0 .. CacheSize : Taken = 1 .. n
  BY DEF RecencyInv, NoPlaceIsSkipped
<1>2. Entries' = Remembered!MovedToFront([key |-> u, value |-> holds[u]], place[u])
  BY <1>0, <1>1, UseMovesEntry DEF RecencyInv, MovesTo
<1>3. place[u] \in Taken /\ Entries[place[u]] = [key |-> u, value |-> holds[u]]
  BY <1>0, EntryOf
<1>4. DOMAIN Entries = Taken
  BY DEF Entries
<1>5. Remembered!IsAt(u, place[u])
  BY <1>3, <1>4 DEF Remembered!IsAt
<1> QED
  BY <1>2, <1>3, <1>4, <1>5 DEF Remembered!Get

(* A store puts the entry in front: in its old place's stead, or as a new one. *)
LEMMA StoreIsPut ==
  ASSUME RecencyInv, TypeOK', NEW u \in Uid, NEW e \in Element, Use(u),
         holds' = [holds EXCEPT ![u] = e]
  PROVE  Remembered!Replace(u, e) \/ Remembered!Add(u, e)
<1>0. TypeOK /\ PlacesAreTakenOnce /\ holds'[u] = e /\ \A x \in Uid : x # u => holds'[x] = holds[x]
  BY DEF RecencyInv, CacheInv, TypeOK
<1>1. PICK n \in 0 .. CacheSize : Taken = 1 .. n
  BY DEF RecencyInv, NoPlaceIsSkipped
<1>2. Entries' = Remembered!MovedToFront([key |-> u, value |-> e], MovesTo(u, n))
  BY <1>0, <1>1, UseMovesEntry DEF RecencyInv
<1>3. DOMAIN Entries = Taken
  BY DEF Entries
<1>4. CASE Cached(u)
  <2>1. place[u] \in Taken /\ Entries[place[u]] = [key |-> u, value |-> holds[u]]
    BY <1>0, <1>4, EntryOf
  <2>2. Remembered!IsAt(u, place[u])
    BY <1>3, <2>1 DEF Remembered!IsAt
  <2>3. Entries' = Remembered!MovedToFront([key |-> u, value |-> e], place[u])
    BY <1>2, <1>4 DEF MovesTo
  <2> QED
    BY <1>3, <2>1, <2>2, <2>3 DEF Remembered!Replace
<1>5. CASE ~Cached(u)
  <2>1. ASSUME NEW i \in Taken PROVE ~Remembered!IsAt(u, i)
    <3>1. PICK x \in Uid : place[x] = i
      BY <2>1 DEF Taken
    <3>2. Cached(x)
      BY <2>1, <3>1, CacheAssumption DEF Cached, Evicted, Taken
    <3>3. Entries[place[x]] = [key |-> x, value |-> holds[x]]
      BY <1>0, <3>2, EntryOf
    <3>4. Entries[i].key = x
      BY <3>1, <3>3
    <3> QED
      BY <1>5, <3>2, <3>4 DEF Remembered!IsAt
  <2>2. Len(Entries) = n
    BY <1>1 DEF Entries
  <2>3. MovesTo(u, n) = IF Len(Entries) < CacheSize THEN Len(Entries) + 1 ELSE CacheSize
    BY <1>5, <2>2 DEF MovesTo
  <2> QED
    BY <1>2, <1>3, <2>1, <2>3 DEF Remembered!Add
<1> QED
  BY <1>4, <1>5

(* Every step of the session is one of the map, or none of it, and leaves no  *)
(* gap between the places.                                                    *)
LEMMA RecencyStep ==
  ASSUME RecencyInv, [Next]_vars
  PROVE  RecencyInv' /\ [Remembered!Next]_Entries
<1>0. TypeOK /\ ListInv /\ CacheInv' /\ TypeOK' /\ CacheInv
  BY NextInv DEF RecencyInv, CacheInv, ListInv
<1>1. ASSUME UNCHANGED <<place, holds>> PROVE NoPlaceIsSkipped' /\ Entries' = Entries
  BY <1>1 DEF RecencyInv, NoPlaceIsSkipped, Taken, Entries
<1>2. ASSUME NEW u \in Uid, Use(u) PROVE NoPlaceIsSkipped'
  <2>1. PICK n \in 0 .. CacheSize : Taken = 1 .. n
    BY DEF RecencyInv, NoPlaceIsSkipped
  <2>2. /\ Taken' = 1 .. Longer(n, MovesTo(u, n))
        /\ Longer(n, MovesTo(u, n)) \in 0 .. CacheSize
    BY <1>0, <1>2, <2>1, UseFillsPlaces
  <2> QED
    BY <2>2 DEF NoPlaceIsSkipped
<1>3. ASSUME NEW u \in Uid, Cached(u), ElementForUUID(u)
      PROVE  NoPlaceIsSkipped' /\ Remembered!Next
  BY <1>0, <1>2, <1>3, FetchIsGet DEF ElementForUUID, Remembered!Next
<1>4. CASE (\E e \in Element : Appear(e) \/ Vanish(e)) \/ FindElements \/ Answer \/ UNCHANGED vars
  BY <1>0, <1>1, <1>4 DEF Appear, Vanish, FindElements, Answer, vars, cacheVars, RecencyInv
<1>5. ASSUME NEW u \in Uid, FindSubElements(u)
      PROVE  NoPlaceIsSkipped' /\ [Remembered!Next]_Entries
  BY <1>1, <1>3, <1>5 DEF FindSubElements, cacheVars
<1>6. ASSUME NEW u \in Uid, ElementCommand(u)
      PROVE  NoPlaceIsSkipped' /\ Remembered!Next
  BY <1>3, <1>6 DEF ElementCommand
<1>7. ASSUME CacheMatch PROVE NoPlaceIsSkipped' /\ Remembered!Next
  <2> DEFINE e == Head(found)
  <2>1. e \in Element
    BY <1>0, <1>7 DEF CacheMatch, TypeOK
  <2>2. Use(WdUID(e)) /\ holds' = [holds EXCEPT ![WdUID(e)] = e] /\ WdUID(e) \in Uid
    BY <1>7, <2>1, UidType DEF CacheMatch, StoreElement
  <2> HIDE DEF e
  <2>3. Remembered!Replace(WdUID(e), e) \/ Remembered!Add(WdUID(e), e)
    BY <1>0, <2>1, <2>2, StoreIsPut
  <2> QED
    BY <1>2, <2>1, <2>2, <2>3 DEF Remembered!Next
<1>8. ASSUME NewSession PROVE NoPlaceIsSkipped' /\ Remembered!Next
  <2>1. Taken' = {} /\ 1 .. 0 = {}
    BY <1>8, CacheAssumption DEF NewSession, Taken, Evicted
  <2>2. Entries' = <<>>
    BY <2>1 DEF Entries
  <2>3. 0 \in 0 .. CacheSize
    BY CacheAssumption
  <2> QED
    BY <2>1, <2>2, <2>3 DEF NoPlaceIsSkipped, Remembered!Next, Remembered!Clear
<1> QED
  BY <1>0, <1>4, <1>5, <1>6, <1>7, <1>8 DEF Next, RecencyInv

LEMMA RecencyInit == Init => RecencyInv /\ Remembered!Init
<1> SUFFICES ASSUME Init PROVE RecencyInv /\ Remembered!Init
  OBVIOUS
<1>1. Taken = {} /\ 1 .. 0 = {} /\ 0 \in 0 .. CacheSize
  BY CacheAssumption DEF Init, Taken, Evicted
<1>2. Entries = <<>>
  BY <1>1 DEF Entries
<1>3. CacheInv
  <2>1. ListInv
    BY EmptyList DEF Init
  <2>2. AnswerInv
    BY DEF Init, AnswerInv
  <2> QED
    BY <2>1, <2>2, InitType DEF CacheInv, ListInv
<1> QED
  BY <1>1, <1>2, <1>3 DEF RecencyInv, NoPlaceIsSkipped, Remembered!Init

(* The ids of a session are a map of at most ELEMENT_CACHE_SIZE entries that  *)
(* forgets the least recently used: searches, stores under an id that is      *)
(* there already, fetches and a changing screen all act on it as a fetch, a   *)
(* store or nothing.                                                          *)
THEOREM CacheForgetsTheLeastRecent == Spec => ImplementsRecentEntries
<1>1. RecencyInv /\ [Next]_vars => RecencyInv' /\ [Remembered!Next]_Entries
  BY RecencyStep
<1> QED
  BY <1>1, RecencyInit, PTL DEF Spec, ImplementsRecentEntries, Remembered!Spec
=============================================================================
