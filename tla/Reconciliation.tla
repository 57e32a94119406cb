--------------------------- MODULE Reconciliation ---------------------------
(***************************************************************************)
(* The order gate of brokers/reconciliation.py, run beside the processes   *)
(* of PaperStore: local_state_from_store verifies the database, exports it *)
(* and loads the export, and reconcile_account_state compares the result   *)
(* with one snapshot of the broker's books: a function, Ready, of the two. *)
(*                                                                         *)
(* A verification reads the sessions and the fill index by two statements  *)
(* in no common transaction, and the export reads the sessions once more   *)
(* on another connection: other processes commit in between.  The loader   *)
(* takes account and positions from the session that was the last one when *)
(* the database was verified, orders and fills from every exported row.    *)
(*                                                                         *)
(* Orders are of one share, so an open order is not partially filled, and  *)
(* average cost, whose difference only warns, is left out.  A snapshot is  *)
(* fresh; how old it may be is a comparison of two clocks.                 *)
(***************************************************************************)
EXTENDS PaperStore

VARIABLES
  step,      \* where local_state_from_store stands
  checked,   \* the session rows its last verification has read
  exported   \* the session rows the export has read

gateVars == <<step, checked, exported>>

(* The broker's books, and what a snapshot of them shows: the shares of    *)
(* all fills, the open orders, and all fills or some of them.              *)
Snapshots ==
  {s \in [all : SUBSET Dates, open : SUBSET Dates, fills : SUBSET Dates,
          complete : BOOLEAN, captured : Dates] :
     /\ s.open \intersect s.all = {}
     /\ s.fills \subseteq s.all
     /\ s.complete => s.fills = s.all}
-----------------------------------------------------------------------------
(* load_local_account_state                                                *)

(* Sessions in the report of the export's verification.                    *)
Verified == Len(checked)

LatestSession == IF Verified = 0 THEN 0 ELSE exported[Verified].date

(* The account of the first row: a mutant of LocalAccount.                 *)
EarliestAccount == IF Verified = 0 THEN 0 ELSE exported[1].payload.account

LocalAccount == IF Verified = 0 THEN 0 ELSE exported[Verified].payload.account
LocalOpen == OpenOrders(exported)
LocalFills == PayloadFills(exported)

(* reconcile_account_state: no blocking issue in any comparison.           *)
SnapshotTimely(s) == s.captured >= LatestSession
AccountMatches(s) == Cardinality(s.all) = LocalAccount

OpenOrdersMatch(s) == s.open = LocalOpen

(* Complete histories treated like partial ones: a mutant of FillsMatch.   *)
FillsRecorded(s) == s.fills \subseteq LocalFills /\ s.fills \subseteq KnownOrders(exported)

FillsMatch(s) ==
  /\ s.fills \subseteq LocalFills
  /\ s.fills \subseteq KnownOrders(exported)
  /\ s.complete => LocalFills \subseteq s.fills

Ready(s) == SnapshotTimely(s) /\ AccountMatches(s) /\ OpenOrdersMatch(s) /\ FillsMatch(s)
-----------------------------------------------------------------------------
GateInit == step = "idle" /\ checked = << >> /\ exported = << >>

(* The first two statements of verify_integrity: the metadata, which once  *)
(* written never change, and the session rows.                             *)
ReadRows(reading) ==
  IF metadata = NoRun THEN step' = "uninitialised" /\ UNCHANGED checked
                      ELSE step' = reading /\ checked' = sessions

(* Its third statement: the fill index, as it is by now.                   *)
ReadIndex(passed) == step' = IF Verifies(checked, index) THEN passed ELSE "integrity failure"

(* local_state_from_store asserts integrity before it exports ...          *)
AssertRows == step = "idle" /\ ReadRows("asserting") /\ UNCHANGED exported
AssertIndex == step = "asserting" /\ ReadIndex("asserted") /\ UNCHANGED <<checked, exported>>

(* ... and export_audit asserts it again and keeps the report ...          *)
ExportRows == step = "asserted" /\ ReadRows("verifying") /\ UNCHANGED exported
ExportIndex == step = "verifying" /\ ReadIndex("verified") /\ UNCHANGED <<checked, exported>>

(* ... before it reads the rows on a second connection.                    *)
ExportRead ==
  /\ step = "verified"
  /\ exported' = sessions
  /\ step' = "exported"
  /\ UNCHANGED checked

GateNext == AssertRows \/ AssertIndex \/ ExportRows \/ ExportIndex \/ ExportRead

ReconcilingInit == Init /\ GateInit

ReconcilingNext ==
  \/ Next /\ UNCHANGED gateVars
  \/ GateNext /\ UNCHANGED vars

ReconcilingSpec == ReconcilingInit /\ [][ReconcilingNext]_<<vars, gateVars>>
-----------------------------------------------------------------------------
(* Shares after the exported sessions.                                     *)
Recorded == Checkpoint(exported).account

Reporting == step = "exported" /\ damage = 0

(* With the broker's complete fill history not even a view torn between    *)
(* two sessions is ready unless the broker's shares and fills are those of *)
(* the newest exported session.                                            *)
CompleteHistoryDecides ==
  Reporting => \A s \in Snapshots :
    Ready(s) /\ s.complete => s.all = LocalFills /\ Cardinality(s.all) = Recorded

(* Fills of the sessions committed after the verification has read them.   *)
NewFills == UNION {exported[i].payload.fills : i \in (Verified + 1)..Len(exported)}

(* Without a complete history the gate may let a snapshot pass that is     *)
(* behind the export, because account and fills stem from two moments: the *)
(* broker then never has more shares than are recorded, and what it lacks  *)
(* was filled in sessions committed after the verification.                *)
ShortfallIsNew ==
  Reporting => \A s \in Snapshots : Ready(s) =>
    /\ Cardinality(s.all) <= Recorded
    /\ Recorded <= Cardinality(s.all) + Cardinality(NewFills)

(* What verification concludes is right although it reads the tables at    *)
(* two moments: the rows that pass hold the payloads that were committed,  *)
(* however often payloads and their hashes have been changed, and where    *)
(* nothing was changed it fails only if a session was committed meanwhile. *)
VerdictJustified ==
  /\ step \in {"asserted", "verified", "exported"} =>
       \A i \in DOMAIN checked : checked[i].payload = Committed[i]
  /\ step = "integrity failure" /\ damage = 0 => Len(sessions) > Len(checked)
=============================================================================
