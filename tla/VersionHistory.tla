--------------------------- MODULE VersionHistory ---------------------------
(***************************************************************************)
(* What the versioned writers of one itinerary plan promise their clients  *)
(* (api-contract.md, POST /api/itineraries/{id}/patch): the versions form  *)
(* one line.  A version is created on top of the active one and becomes    *)
(* active in the same step; nothing else moves the active version, except  *)
(* that the writer of the newest version may take it back.                 *)
(***************************************************************************)
CONSTANTS Versions, First

VARIABLES
  parent,        \* the version each existing version was based on
  active,        \* the active version
  exclusive      \* do all writers of the plan take its lease?

InitHistory ==
  /\ parent = [v \in {First} |-> First]
  /\ active = First

Append(v) ==
  /\ v \notin DOMAIN parent
  /\ parent' = [x \in DOMAIN parent \cup {v} |-> IF x = v THEN active ELSE parent[x]]
  /\ active' = v

TakeBack ==
  /\ active # First
  /\ active' = parent[active]
  /\ parent' = [x \in DOMAIN parent \ {active} |-> parent[x]]

NextHistory == TakeBack \/ \E v \in Versions : Append(v)

(* Nothing is promised of a plan that other writers share. *)
History == InitHistory /\ [][exclusive => NextHistory]_<<parent, active>>
=============================================================================
