------------------------------- MODULE RunLedger -------------------------------
(***************************************************************************)
(* What the billing of runs promises, with the device, the network and the *)
(* server left out: a run is open, then owed, and what is owed is billed   *)
(* once and stays billed.  An open run is lost only to another that begins *)
(* in its place.  What is owed may be dropped in two ways: when at least   *)
(* Cap runs have ended after it, or when a run that began after it and     *)
(* ended before it is billed.  A copy of what was dropped may still be     *)
(* billed late.  A device that has restarted from an older state may have  *)
(* forgotten what was owed; what is billed stays billed all the same.      *)
(***************************************************************************)
EXTENDS Naturals, FiniteSets

CONSTANTS Run, Cap

VARIABLES
  phase,
  before,       \* the pairs of runs of which the first ended first
  restarted

Phases == {"none", "open", "overwritten", "owed", "billed", "dropped"}

Over(r) == phase[r] \notin {"none", "open", "overwritten"}

\* What may become of a run once the device has restarted.
Survives(r) ==
  /\ phase[r] = "billed" => phase'[r] = "billed"
  /\ phase[r] = "none" => phase'[r] \in {"none", "open"}

Begins(r) == phase[r] = "none" /\ phase'[r] = "open"
Ends(r) == phase[r] = "open" /\ phase'[r] = "owed"

\* At least as many runs as the device can hold have ended after r.
Crowded(r) == Cardinality({q \in Run : <<r, q>> \in before'}) >= Cap

\* A run is billed that began after r and ended before it.
Outrun(r) == \E q \in Run : q > r /\ <<q, r>> \in before /\ phase[q] = "billed"

\* What may become of a run in one step before that.
Moves(r) ==
  \/ phase'[r] = phase[r]
  \/ Begins(r)
  \/ phase[r] = "open" /\ phase'[r] = "overwritten" /\ \E q \in Run : Begins(q)
  \/ Ends(r)
  \/ phase[r] = "owed" /\ phase'[r] = "billed"
  \/ phase[r] = "owed" /\ phase'[r] = "dropped" /\ (Crowded(r) \/ Outrun(r))
  \/ phase[r] = "dropped" /\ phase'[r] = "billed"

LedgerInit ==
  phase = [r \in Run |-> "none"] /\ before = {} /\ restarted = FALSE

LedgerNext ==
  /\ phase' \in [Run -> Phases] /\ restarted' \in BOOLEAN
  /\ restarted => restarted'
  /\ IF restarted' THEN \A r \in Run : Survives(r)
     ELSE /\ \A r \in Run : Moves(r)
          /\ before' = before \cup {p \in Run \X Run : Over(p[1]) /\ Ends(p[2])}

LedgerSpec == LedgerInit /\ [][LedgerNext]_<<phase, before, restarted>>
=============================================================================
