----------------------------- MODULE JobLedger -----------------------------
(***************************************************************************)
(* What the durable job queue promises about its rows, without clocks,     *)
(* attempts, timestamps or Redis: work is granted in numbered terms, an    *)
(* executor reports on the term it was granted, and only the report of the *)
(* latest term of a row that is still held has any effect on the row.      *)
(* Work in Renewable is never given up and never dropped before it is done.*)
(* Every row makes its steps on its own, several rows possibly at once.    *)
(***************************************************************************)
EXTENDS Naturals

CONSTANTS
  Job,         \* ids of rows
  Renewable    \* rows whose work has to succeed in the end

VARIABLES
  phase,       \* phase[j]: where row j is in its life
  term,        \* term[j]: how often j has been granted
  out          \* out[j]: terms of j whose executor has not reported yet

ledgerVars == <<phase, term, out>>

LedgerTypeOK ==
  /\ phase \in [Job -> {"none", "waiting", "held", "done", "failed", "gone"}]
  /\ term \in [Job -> Nat]
  /\ out \in [Job -> SUBSET Nat]

Becomes(j, p, t, o) == phase'[j] = p /\ term'[j] = t /\ out'[j] = o

Submit(j) ==
  /\ phase[j] = "none"
  /\ Becomes(j, "waiting", term[j], out[j])

\* A held row is granted anew when its executor is presumed dead.
Grant(j) ==
  /\ phase[j] \in {"waiting", "held"} \/ (phase[j] = "failed" /\ j \in Renewable)
  /\ Becomes(j, "held", term[j] + 1, out[j] \cup {term[j] + 1})

\* The executor of term t reports; unless it is the latest of a held row its
\* report is void, and even then the report may get lost.
Report(j, t) ==
  LET outcomes == IF phase[j] = "held" /\ t = term[j]
                  THEN {"held", "waiting", "done"} \cup
                       (IF j \in Renewable THEN {} ELSE {"failed"})
                  ELSE {phase[j]}
  IN  \E p \in outcomes : Becomes(j, p, term[j], out[j] \ {t})

\* Executors die.
Forget(j) ==
  \E dead \in SUBSET out[j] : Becomes(j, phase[j], term[j], out[j] \ dead)

GiveUp(j) ==
  /\ phase[j] = "held" /\ j \notin Renewable
  /\ Becomes(j, "failed", term[j], out[j])

Remove(j) ==
  /\ phase[j] = "done" \/ (phase[j] # "none" /\ j \notin Renewable)
  /\ Becomes(j, "gone", term[j], out[j])

LedgerStep(j) ==
  \/ Submit(j)
  \/ Grant(j)
  \/ \E t \in out[j] : Report(j, t)
  \/ Forget(j)
  \/ GiveUp(j)
  \/ Remove(j)

LedgerInit ==
  /\ phase \in [Job -> {"none", "failed"}]
  /\ \A j \in Job : phase[j] = "failed" => j \in Renewable
  /\ term = [j \in Job |-> 0]
  /\ out = [j \in Job |-> {}]

LedgerNext == \A j \in Job : LedgerStep(j)

LedgerSpec == LedgerInit /\ [][LedgerNext]_ledgerVars
=============================================================================
