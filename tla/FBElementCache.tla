--------------------------- MODULE FBElementCache ---------------------------
(***************************************************************************)
(* The element cache of a session and the commands that fill and read it.  *)
(* A client never holds an element, only the id a find command answered.   *)
(* The id is read from the device when the element is stored, after the    *)
(* query that matched it, and the application under test is another        *)
(* process: its screen changes between any two steps of a command.         *)
(* The cache is an LRU list of at most CacheSize ids; it is kept here as   *)
(* each id's place in that list.                                           *)
(***************************************************************************)
EXTENDS Naturals, Sequences, FiniteSets, Functions

CONSTANTS
  Element,      \* the elements the application ever shows
  ZeroUid,      \* the id of an element without accessibility data
  CacheSize,    \* ELEMENT_CACHE_SIZE (1024 in the code)
  MaxMatches    \* bound: the matches of one search

Uid == Element \cup {ZeroUid}
NoParent == [none |-> "the search is not under an element"]

ASSUME CacheAssumption ==
  /\ IsFiniteSet(Element)
  /\ ZeroUid \notin Element
  /\ NoParent \notin Uid
  /\ CacheSize \in Nat \ {0}
  /\ MaxMatches \in Nat \ {0}

VARIABLES
  screen,     \* the elements on the screen
  place,      \* the place of each id in the cache, most recent first
  holds,      \* the element last stored under each id, the id itself before
  busy,       \* a find command is running
  parent,     \* the cached id it searches under
  found,      \* its matches that are not stored yet
  answer,     \* the ids it answers so far, with the element each was given to
  used,       \* history: the ids the session's cache ever held
  since       \* history: the ids used after each id's last use

cacheVars == <<place, holds, used, since>>
findVars  == <<busy, parent, found, answer>>
vars == <<screen, cacheVars, findVars>>

Evicted == CacheSize + 1
Cached(u) == place[u] # Evicted
Match == [uid : Uid, element : Element]

TypeOK ==
  /\ screen \subseteq Element
  /\ place \in [Uid -> 1 .. Evicted]
  /\ holds \in [Uid -> Uid]
  /\ busy \in BOOLEAN
  /\ parent \in Uid \cup {NoParent}
  /\ found \in Seq(Element)
  /\ answer \subseteq Match
  /\ used \subseteq Uid
  /\ since \in [Uid -> SUBSET Uid]

Init ==
  /\ screen \in SUBSET Element
  /\ place = [u \in Uid |-> Evicted]
  /\ holds = [u \in Uid |-> u]
  /\ used = {}
  /\ since = [u \in Uid |-> {}]
  /\ busy = FALSE
  /\ parent = NoParent
  /\ found = <<>>
  /\ answer = {}

-----------------------------------------------------------------------------
(* The LRU list *)

(* Fault: the list has no limit. *)
Promoted_Unlimited(u) ==
  [v \in Uid |-> IF v = u THEN 1 ELSE IF place[v] <= place[u] THEN place[v] + 1 ELSE place[v]]

(* Fault: using an id that stands in the list moves all the others back. *)
Promoted_MovesAll(u) ==
  [v \in Uid |-> IF v = u THEN 1 ELSE IF Cached(v) THEN place[v] + 1 ELSE place[v]]

(* The list after u is used: u comes first, the ids that stood before it     *)
(* move back, and when u was not in the list the last of a full one drops out. *)
Promoted(u) ==
  [v \in Uid |-> IF v = u THEN 1 ELSE IF place[v] < place[u] THEN place[v] + 1 ELSE place[v]]

Use(u) ==
  /\ place' = Promoted(u)
  /\ used' = used \cup {u}
  /\ since' = [v \in Uid |-> IF v = u THEN {} ELSE since[v] \cup {u}]

(* Fault: fetching an element does not count as a use. *)
ElementForUUID_Peek(u) ==
  /\ UNCHANGED <<place, holds>>
  /\ used' = used \cup {u}
  /\ since' = [v \in Uid |-> IF v = u THEN {} ELSE since[v] \cup {u}]

(* elementForUUID of an id the cache holds. *)
ElementForUUID(u) == Use(u) /\ UNCHANGED holds

(* The id the device gives: an element that left the screen answers with an *)
(* empty snapshot, whose element id and process id are zero.                *)
WdUID(e) == IF e \in screen THEN e ELSE ZeroUid

StoreElement(e) == Use(WdUID(e)) /\ holds' = [holds EXCEPT ![WdUID(e)] = e]

-----------------------------------------------------------------------------
(* The device *)

Appear(e) ==
  /\ e \notin screen
  /\ screen' = screen \cup {e}
  /\ UNCHANGED <<cacheVars, findVars>>

Vanish(e) ==
  /\ e \in screen
  /\ screen' = screen \ {e}
  /\ UNCHANGED <<cacheVars, findVars>>

-----------------------------------------------------------------------------
(* Commands.  They run one at a time on the main thread. *)

(* What a query may match: it reads the screen once. *)
Matches ==
  {s \in UNION {[1 .. n -> screen] : n \in 0 .. MaxMatches} : IsInjective(s)}

Search(p, s) ==
  /\ busy' = TRUE
  /\ parent' = p
  /\ found' = s
  /\ answer' = {}
  /\ UNCHANGED screen

(* POST /element, /elements, GET /element/active: a search under the          *)
(* application.                                                               *)
FindElements ==
  /\ ~busy
  /\ \E s \in Matches : Search(NoParent, s)
  /\ UNCHANGED cacheVars

(* POST /element/:uuid/elements and the like: the parent is fetched first;    *)
(* one that is no longer cached, or no longer on the screen, has no           *)
(* descendants, and the search matches nothing.                               *)
FindSubElements(u) ==
  /\ ~busy
  /\ IF Cached(u)
       THEN /\ ElementForUUID(u)
            /\ \E s \in IF holds[u] \in screen THEN Matches ELSE {<<>>} : Search(u, s)
       ELSE /\ Search(NoParent, <<>>)
            /\ UNCHANGED cacheVars

(* The loop of FBResponseWithCachedElements: each match is stored in turn and *)
(* its id put in the answer.                                                  *)
CacheMatch ==
  /\ busy
  /\ found # <<>>
  /\ StoreElement(Head(found))
  /\ answer' = answer \cup {[uid |-> WdUID(Head(found)), element |-> Head(found)]}
  /\ found' = Tail(found)
  /\ UNCHANGED <<screen, busy, parent>>

Answer ==
  /\ busy
  /\ found = <<>>
  /\ busy' = FALSE
  /\ parent' = NoParent
  /\ answer' = {}
  /\ UNCHANGED <<screen, cacheVars, found>>

(* Every command on /element/:uuid fetches the element once before it does    *)
(* anything else; what it does to the element leaves the cache alone.         *)
ElementCommand(u) ==
  /\ ~busy
  /\ Cached(u)
  /\ ElementForUUID(u)
  /\ UNCHANGED <<screen, findVars>>

(* Fault: the elements of the session before it stay in the list. *)
NewSession_KeepsList ==
  /\ ~busy
  /\ used' = {}
  /\ since' = [u \in Uid |-> {}]
  /\ UNCHANGED <<screen, findVars, place, holds>>

(* A session starts with a cache of its own. *)
NewSession ==
  /\ ~busy
  /\ place' = [u \in Uid |-> Evicted]
  /\ holds' = [u \in Uid |-> u]
  /\ used' = {}
  /\ since' = [u \in Uid |-> {}]
  /\ UNCHANGED <<screen, findVars>>

-----------------------------------------------------------------------------
Next ==
  \/ \E e \in Element : Appear(e) \/ Vanish(e)
  \/ FindElements
  \/ \E u \in Uid : FindSubElements(u) \/ ElementCommand(u)
  \/ CacheMatch
  \/ Answer
  \/ NewSession

Spec == Init /\ [][Next]_vars

-----------------------------------------------------------------------------
(* An id is fetchable exactly while fewer than CacheSize other ids were used  *)
(* after it, stores and fetches alike: what FBElementCacheTests expects of    *)
(* the linear and of the most-recently-used expulsion, for every order of     *)
(* stores and fetches, including a store under an id that is cached already.  *)
KeptWhileRecent ==
  \A u \in Uid : Cached(u) <=> u \in used /\ Cardinality(since[u]) < CacheSize

(* While a find command stores its matches, the ids it has answered so far     *)
(* stay usable as long as there are no more of them than the cache holds, and  *)
(* the element it searches under as long as there are fewer: storing a small   *)
(* answer (FBResponseWithCachedElements) evicts nothing the client will use    *)
(* in its next command.                                                        *)
AnswerAndParentAreUsable ==
  LET ids == {m.uid : m \in answer} IN
    /\ Cardinality(ids) <= CacheSize => \A u \in ids : Cached(u)
    /\ Cardinality(ids) < CacheSize /\ parent # NoParent => Cached(parent)

(* The facts that make the two hold: the history of a cached id is the ids     *)
(* that stand before it, and that of an answered id lies within the answer.    *)
PlacesFollowHistory ==
  \A u \in Uid : Cached(u) =>
    /\ u \in used
    /\ since[u] = {v \in Uid : place[v] < place[u]}
    /\ Cardinality(since[u]) = place[u] - 1

PlacesAreTakenOnce ==
  \A u, v \in Uid : Cached(u) /\ place[u] = place[v] => u = v

EvictedAreOld ==
  \A u \in used : ~Cached(u) => Cardinality(since[u]) >= CacheSize

AnswerInv ==
  /\ ~busy => answer = {} /\ parent = NoParent
  /\ \A u \in Uid : u \notin since[u]
  /\ \A u \in {m.uid : m \in answer} \cup ({parent} \ {NoParent}) :
       u \in used /\ since[u] \subseteq {m.uid : m \in answer}

(* The places that are taken have no gap. *)
Taken == {i \in 1 .. CacheSize : \E u \in Uid : place[u] = i}

NoPlaceIsSkipped == \E n \in 0 .. CacheSize : Taken = 1 .. n

CacheInv ==
  TypeOK /\ PlacesFollowHistory /\ PlacesAreTakenOnce /\ EvictedAreOld /\ AnswerInv

(* The ids of a session are a map that forgets the least recently used: an id *)
(* stands for the element stored under it last, however searches, evictions   *)
(* and commands come in between; a use drops no other id unless a new one     *)
(* comes into a full cache, and then the oldest.                              *)
Entries ==
  [i \in Taken |-> LET u == CHOOSE v \in Uid : place[v] = i
                   IN  [key |-> u, value |-> holds[u]]]

Remembered == INSTANCE RecentEntries
  WITH Key <- Uid, Value <- Element, Limit <- CacheSize, recent <- Entries
ImplementsRecentEntries == Remembered!Spec

(* Violated.  FBElement.h calls wdUID the "Element's unique identifier": no   *)
(* two elements of one answer share an id.                                    *)
IdsAreUnique ==
  \A m, n \in answer : m.uid = n.uid => m.element = n.element
=============================================================================
