----------------------------- MODULE RecentEntries -----------------------------
(***************************************************************************)
(* A map of at most Limit entries that forgets the least recently used:    *)
(* what a session promises of the ids it hands out.  The entries form a    *)
(* list, most recent first.  FBElementCache.tla, with the find commands    *)
(* that fill it and the screen that changes meanwhile, implements this.    *)
(***************************************************************************)
EXTENDS Naturals, Sequences

CONSTANTS Key, Value, Limit

VARIABLE recent

Init == recent = <<>>

IsAt(k, i) == i \in DOMAIN recent /\ recent[i].key = k

(* An entry comes first, the ones ahead of a place move back by one, over it. *)
MovedToFront(entry, place) ==
  [i \in 1 .. (IF place > Len(recent) THEN place ELSE Len(recent)) |->
     IF i = 1 THEN entry ELSE IF i <= place THEN recent[i - 1] ELSE recent[i]]

Get(k) ==
  \E i \in DOMAIN recent :
    /\ IsAt(k, i)
    /\ recent' = MovedToFront(recent[i], i)

Replace(k, v) ==
  \E i \in DOMAIN recent :
    /\ IsAt(k, i)
    /\ recent' = MovedToFront([key |-> k, value |-> v], i)

(* A new entry takes the next place, or the last one of a full list. *)
Add(k, v) ==
  /\ \A i \in DOMAIN recent : ~IsAt(k, i)
  /\ recent' = MovedToFront([key |-> k, value |-> v],
                            IF Len(recent) < Limit THEN Len(recent) + 1 ELSE Limit)

Clear == recent' = <<>>

Next ==
  \/ \E k \in Key : Get(k)
  \/ \E k \in Key, v \in Value : Replace(k, v) \/ Add(k, v)
  \/ Clear

Spec == Init /\ [][Next]_recent
=============================================================================
