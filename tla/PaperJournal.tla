---------------------------- MODULE PaperJournal ----------------------------
(***************************************************************************)
(* What the paper-trading store promises, whatever processes open it: one  *)
(* run owns a database for ever, and the sessions of that run form a       *)
(* journal that is only appended to, in date order, where a fill appears   *)
(* once (docs/PAPER_TRADING_STATE.md, "Run Identity", "Session Commit").   *)
(* PaperStore implements it with transactions of several processes.        *)
(***************************************************************************)
EXTENDS Naturals, Sequences

CONSTANTS
  Runs,      \* identities a database may be initialised with
  NoRun,     \* the identity of a database not initialised yet
  Payloads   \* session payloads: records with a date and a set of fills

VARIABLES
  identity,  \* the run the database belongs to
  journal    \* the payloads of its sessions

Init == identity = NoRun /\ journal = << >>

Adopt ==
  /\ identity = NoRun
  /\ identity' \in Runs
  /\ UNCHANGED journal

(* A later date than any session's, and no fill of an earlier session.     *)
Follows(p) ==
  \A i \in DOMAIN journal :
    journal[i].date < p.date /\ journal[i].fills \intersect p.fills = {}

Record ==
  /\ identity # NoRun
  /\ journal' # << >>
  /\ LET p == journal'[Len(journal')]
     IN p \in Payloads /\ Follows(p) /\ journal' = Append(journal, p)
  /\ UNCHANGED identity

Next == Adopt \/ Record

Spec == Init /\ [][Next]_<<identity, journal>>
=============================================================================
