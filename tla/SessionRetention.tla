-------------------------- MODULE SessionRetention --------------------------
(***************************************************************************)
(* What the service promises about a session and its history, whatever     *)
(* fails and whenever it is restarted (rpi-extcore/README.md, "Session     *)
(* archival and permanent deletion"): a remembered session is kept until a *)
(* deletion is begun; only then are files erased, and only those that the  *)
(* deletion captured; the session is forgotten when none of them is left.  *)
(***************************************************************************)
CONSTANTS Ids, Files

VARIABLES
  phase,    \* of each session
  present,  \* the files of its history
  owed      \* captured by its deletion, still there and unchanged

vars == <<phase, present, owed>>

Init ==
  /\ phase \in [Ids -> {"absent", "kept"}]
  /\ present \in [Ids -> SUBSET Files]
  /\ owed = [id \in Ids |-> {}]

Turn(id, from, to) ==
  /\ phase[id] \in from /\ phase' = [phase EXCEPT ![id] = to]

Remember(id) == Turn(id, {"absent"}, "kept") /\ UNCHANGED <<present, owed>>
Archive(id)  == Turn(id, {"kept"}, "archived") /\ UNCHANGED <<present, owed>>
Restore(id)  == Turn(id, {"archived"}, "kept") /\ UNCHANGED <<present, owed>>

\* A native process writes a history; a foreign write may replace a captured
\* file, which is then no longer the deletion's to erase.
Write(id, f) ==
  /\ present' = [present EXCEPT ![id] = @ \cup {f}]
  /\ owed' \in {owed, [owed EXCEPT ![id] = @ \ {f}]}
  /\ UNCHANGED phase

Begin(id) ==
  /\ Turn(id, {"kept", "archived"}, "deleting")
  /\ owed' \in {[owed EXCEPT ![id] = captured] : captured \in SUBSET present[id]}
  /\ UNCHANGED present

Erase(id, f) ==
  /\ phase[id] = "deleting" /\ f \in owed[id]
  /\ present' = [present EXCEPT ![id] = @ \ {f}]
  /\ owed' = [owed EXCEPT ![id] = @ \ {f}]
  /\ UNCHANGED phase

Forget(id) ==
  /\ owed[id] = {}
  /\ Turn(id, {"deleting"}, "absent")
  /\ UNCHANGED <<present, owed>>

Next == \E id \in Ids :
  \/ Remember(id) \/ Archive(id) \/ Restore(id) \/ Begin(id) \/ Forget(id)
  \/ \E f \in Files : Write(id, f) \/ Erase(id, f)

Spec == Init /\ [][Next]_vars
=============================================================================
