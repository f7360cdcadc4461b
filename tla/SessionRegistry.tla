--------------------------- MODULE SessionRegistry ---------------------------
(***************************************************************************)
(* What the session layer promises its clients: there is at most one       *)
(* current session, every session gets an identifier that was never handed *)
(* out before, and an identifier that stopped being current never becomes  *)
(* current again.  FBSession.tla implements this.                          *)
(***************************************************************************)
CONSTANTS
  Id,            \* the identifiers sessions may get
  None           \* "there is no current session"

VARIABLES
  current,       \* the identifier of the current session, or None
  issued         \* the identifiers handed out so far

registryVars == <<current, issued>>

Init == current = None /\ issued = {}

(* A new session replaces the current one, if any. *)
Open(id) ==
  /\ id \notin issued \cup {None}
  /\ current' = id
  /\ issued' = issued \cup {id}

(* The current session is removed and nothing takes its place. *)
Close ==
  /\ current # None
  /\ current' = None
  /\ UNCHANGED issued

Next == Close \/ \E id \in Id : Open(id)

Spec == Init /\ [][Next]_registryVars
=============================================================================
