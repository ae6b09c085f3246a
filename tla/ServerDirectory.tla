---------------------------- MODULE ServerDirectory ----------------------------
(***************************************************************************)
(* What the client's discovery promises: while it searches, a server that  *)
(* answers is listed; at the end of a search exactly the servers that      *)
(* answered it are.                                                        *)
(***************************************************************************)
CONSTANT Locations     \* those a server may have

VARIABLES
  known,         \* the locations listed
  answered,      \* those heard in the current or last search
  searching      \* whether a search is going on

vars == <<known, answered, searching>>

Init == known = {} /\ answered = {} /\ searching = FALSE

Begin ==
  /\ ~searching /\ searching' = TRUE
  /\ answered' = {} /\ UNCHANGED known

Hear(location) ==
  /\ searching /\ UNCHANGED searching
  /\ known' = known \cup {location}
  /\ answered' = answered \cup {location}

End ==
  /\ searching /\ searching' = FALSE
  /\ known' = answered /\ UNCHANGED answered

Next == Begin \/ End \/ \E location \in Locations : Hear(location)

Spec == Init /\ [][Next]_vars
================================================================================
