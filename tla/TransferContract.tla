--------------------------- MODULE TransferContract ---------------------------
(***************************************************************************)
(* What one attempt to fetch one remote file promises to the job that      *)
(* counts it: the file at the destination changes only by an attempt that  *)
(* ends as "downloaded", and then has the listed size; "skipped" is        *)
(* answered only for a file that has it already; a failed or killed        *)
(* attempt leaves the destination as it was.                               *)
(***************************************************************************)
EXTENDS Naturals

VARIABLES
  busy,    \* an attempt is under way
  wanted,  \* the size the job's listing gives, 0 when it gives none
  stored,  \* the bytes at the destination, 0 when there is no file
  answer   \* how the last attempt ended

contract == <<busy, wanted, stored, answer>>

Init ==
  /\ ~busy
  /\ wanted \in Nat
  /\ stored = 0
  /\ answer = "none"

Begin ==
  /\ ~busy /\ busy' /\ answer' = "none"
  /\ wanted' \in Nat
  /\ UNCHANGED stored

Skip ==
  /\ busy /\ ~busy' /\ answer' = "skipped"
  /\ wanted > 0 /\ stored = wanted
  /\ UNCHANGED <<wanted, stored>>

Store ==
  /\ busy /\ ~busy' /\ answer' = "downloaded"
  /\ stored' \in Nat
  /\ wanted > 0 => stored' = wanted
  /\ UNCHANGED wanted

GiveUp ==
  /\ busy /\ ~busy' /\ answer' = "failed"
  /\ UNCHANGED <<wanted, stored>>

Killed ==
  /\ ~busy' /\ answer' = "none"
  /\ UNCHANGED <<wanted, stored>>

Next == Begin \/ Skip \/ Store \/ GiveUp \/ Killed

Spec == Init /\ [][Next]_contract
=============================================================================
