--------------------------- MODULE AtomicReplace ---------------------------
(***************************************************************************)
(* What replacing a container promises its caller, with no daemon calls:   *)
(* while the replacement is being tried the name may move between the two  *)
(* containers or belong to neither of them, but one of the two always      *)
(* survives, and the attempt ends in exactly one of three ways: the        *)
(* replacement has taken over, the original is back as it was, or the      *)
(* error says what could not be put back.  Only an attempt that may lose   *)
(* an answer can say that the original is back when it is not.             *)
(***************************************************************************)

VARIABLES
  outcome,   \* "trying", "switched", "kept", "reported" or "abandoned"
  owner,     \* which container holds the container's name
  original,  \* "intact", "disturbed" or "gone"
  lossy      \* answers may be lost

vars == <<outcome, owner, original, lossy>>

Owners  == {"original", "replacement", "nobody"}
Endings == {"switched", "kept", "reported", "abandoned"}

TypeOK ==
  /\ outcome \in Endings \cup {"trying"}
  /\ owner \in Owners
  /\ original \in {"intact", "disturbed", "gone"}
  /\ lossy \in BOOLEAN

Init ==
  /\ outcome = "trying"
  /\ owner = "original"
  /\ original = "intact"
  /\ lossy \in BOOLEAN

\* One step of the attempt. The original is given up only to a replacement
\* that already holds the name, and nothing brings it back.
Try ==
  /\ outcome = "trying"
  /\ owner' \in Owners
  /\ original' \in {"intact", "disturbed", "gone"}
  /\ original = "gone" => original' = "gone"
  /\ original' = "gone" => owner' = "replacement"
  /\ UNCHANGED outcome

Switch ==
  /\ outcome = "trying"
  /\ outcome' = "switched"
  /\ owner' = "replacement"
  /\ original' \in {"disturbed", "gone"}

Keep ==
  /\ outcome = "trying"
  /\ outcome' = "kept"
  /\ owner' = "original"
  /\ original' = "intact"

\* "reported": the caller gets an error that names what was not restored.
\* "abandoned": the server process died, nobody gets an answer.
\* "kept": the error says nothing, for an answer was lost.
Stop(how) ==
  /\ outcome = "trying"
  /\ outcome' = how
  /\ owner' \in Owners
  /\ original' \in {"intact", "disturbed", "gone"}
  /\ original' = "gone" => owner' = "replacement"

\* After the attempt the two containers live on without it: a replacement that
\* was left behind or a stop that was still under way changes no name.
Afterwards ==
  /\ outcome \in Endings /\ (outcome = "kept" => lossy)
  /\ UNCHANGED <<outcome, owner>>
  /\ original # "gone" /\ original' \in {"intact", "disturbed"}

Next ==
  /\ \/ Try \/ Switch \/ Keep \/ Afterwards
     \/ Stop("reported") \/ Stop("abandoned")
     \/ lossy /\ Stop("kept")
  /\ UNCHANGED lossy

Spec == Init /\ [][Next]_vars

-----------------------------------------------------------------------------
\* Whatever happens, the user still has one of the two containers.
OneSurvives == original = "gone" => owner = "replacement"
=============================================================================
