------------------------ MODULE Reconciliation_proofs ------------------------
(***************************************************************************)
(* Proofs about Reconciliation.  The gate only reads, so the invariants of *)
(* PaperStore hold beside it, and what ExportRead copies has them.         *)
(***************************************************************************)
EXTENDS Reconciliation, PaperStore_proofs

(* The gate leaves the store to its processes.                             *)
LEMMA GateOnlyReads == ReconcilingSpec => Spec
<1>1. ReconcilingInit => Init
  BY DEF ReconcilingInit
<1>2. [ReconcilingNext]_<<vars, gateVars>> => [Next]_vars
  BY DEF ReconcilingNext
<1> QED BY <1>1, <1>2, PTL DEF ReconcilingSpec, Spec

(* What the gate has read: rows that the tables have only been added to    *)
(* since, and, with nothing damaged, the very rows.                        *)
GateTyped == checked \in Seq(RowType) /\ exported \in Seq(RowType)

Behind ==
  /\ Len(checked) <= Len(sessions)
  /\ \A i \in DOMAIN checked : checked[i].state_hash = sessions[i].state_hash
  /\ damage = 0 => \A i \in DOMAIN checked : checked[i] = sessions[i]

ExportedAfter ==
  Reporting =>
    /\ Len(checked) <= Len(exported)
    /\ \A i \in DOMAIN checked : checked[i] = exported[i]

GateInv == GateTyped /\ Behind /\ VerdictJustified /\ ExportedAfter

(* A step of the store leaves all of it true.                              *)
LEMMA StoreKeepsGateInv ==
  ASSUME StoreInv, GateInv, [Next]_vars, UNCHANGED gateVars
  PROVE  GateInv'
<1> USE DEF GateInv
<1>1. /\ step' = step /\ checked' = checked /\ exported' = exported
  BY DEF gateVars
<1>2. PICK n \in Nat : n = Len(sessions) /\ DOMAIN sessions = 1..n
  BY SessionsGrow
<1>3. PICK m \in Nat : m = Len(sessions') /\ DOMAIN sessions' = 1..m /\ n <= m
  BY SessionsGrow, <1>2
<1>4. PICK k \in Nat : k = Len(checked) /\ DOMAIN checked = 1..k
  BY DEF GateTyped
<1>5. /\ \A i \in 1..n : sessions'[i].state_hash = sessions[i].state_hash
      /\ damage' = 0 => damage = 0 /\ \A i \in 1..n : sessions'[i] = sessions[i]
  BY SessionsGrow, <1>2
<1>6. k <= n /\ \A i \in 1..k : i \in 1..n /\ i \in 1..m
  BY <1>2, <1>3, <1>4 DEF Behind
<1>7. GateTyped' /\ Behind'
  <2>1. Len(checked') <= Len(sessions')
    BY <1>1, <1>3, <1>4, <1>6
  <2>2. \A i \in 1..k : checked'[i].state_hash = sessions'[i].state_hash
    BY <1>1, <1>4, <1>5, <1>6 DEF Behind
  <2>3. damage' = 0 => \A i \in 1..k : checked'[i] = sessions'[i]
    BY <1>1, <1>4, <1>5, <1>6 DEF Behind
  <2> QED BY <1>1, <1>4, <2>1, <2>2, <2>3 DEF GateTyped, Behind
<1>8. ExportedAfter'
  BY <1>1, <1>5 DEF ExportedAfter, Reporting
<1>9. VerdictJustified'
  <2>1. \A i \in 1..k : Committed'[i] = Committed[i]
    BY <1>2, <1>3, <1>5, <1>6 DEF Committed
  <2>2. step' = "integrity failure" /\ damage' = 0 => Len(sessions') > Len(checked')
    <3>1. step' = "integrity failure" /\ damage' = 0 => n > k
      BY <1>1, <1>2, <1>4, <1>5 DEF VerdictJustified
    <3>2. n > k => m > k
      BY <1>3
    <3>3. Len(checked') = k
      BY <1>1, <1>4
    <3> QED BY <1>3, <3>1, <3>2, <3>3
  <2> QED BY <1>1, <1>4, <2>1, <2>2 DEF VerdictJustified
<1> QED BY <1>7, <1>8, <1>9

(* The first statements of a verification take the rows as they are.       *)
LEMMA RowsKeepGateInv ==
  ASSUME StoreInv, GateInv, UNCHANGED vars, AssertRows \/ ExportRows
  PROVE  GateInv'
<1> USE Parts DEF StoreInv, GateInv
<1>1. /\ sessions' = sessions /\ damage' = damage /\ exported' = exported
      /\ Len(sessions) \in Nat
  BY DEF vars, tables, AssertRows, ExportRows
<1>2. /\ step' \in {"uninitialised", "asserting", "verifying"}
      /\ checked' = checked \/ checked' = sessions
  BY DEF AssertRows, ExportRows, ReadRows
<1>3. GateTyped' /\ Behind'
  BY <1>1, <1>2 DEF GateTyped, Behind
<1> QED BY <1>2, <1>3 DEF VerdictJustified, ExportedAfter, Reporting

(* A verdict on rows and index is justified.                               *)
LEMMA IndexKeepsGateInv ==
  ASSUME StoreInv, GateInv, UNCHANGED vars, AssertIndex \/ ExportIndex
  PROVE  GateInv'
<1> USE Parts DEF StoreInv, GateInv
<1>1. /\ sessions' = sessions /\ damage' = damage /\ checked' = checked /\ exported' = exported
  BY DEF vars, tables, AssertIndex, ExportIndex
<1>2. /\ step' \in {"asserted", "verified", "integrity failure"}
      /\ step' = "integrity failure" <=> ~Verifies(checked, index)
  BY DEF AssertIndex, ExportIndex, ReadIndex
<1>3. PICK n \in Nat : n = Len(sessions) /\ DOMAIN sessions = 1..n
  OBVIOUS
<1>4. PICK k \in Nat : k = Len(checked) /\ DOMAIN checked = 1..k
  BY DEF GateTyped
<1>5. k <= n /\ \A i \in 1..k : i \in 1..n
  BY <1>3, <1>4 DEF Behind
<1>6. ASSUME Verifies(checked, index), NEW i \in DOMAIN checked
      PROVE  checked[i].payload = Committed[i]
  <2>1. checked[i].state_hash = sessions[i].state_hash /\ i \in DOMAIN sessions
    BY <1>3, <1>4, <1>5 DEF Behind
  <2> QED BY <1>6, <2>1, VerifiedPayloads DEF GateTyped
<1>7. ASSUME ~Verifies(checked, index), damage = 0
      PROVE  n > k
  <2>1. SUFFICES ASSUME k = n PROVE FALSE
    BY <1>5
  <2>2. \A i \in 1..n : checked[i] = sessions[i]
    BY <1>4, <1>7, <2>1 DEF Behind
  <2>3. checked = sessions
    BY <1>3, <1>4, <2>1, <2>2 DEF GateTyped
  <2> QED BY <1>7, <2>3, CommittedVerify
<1>8. Committed' = Committed
  BY <1>1 DEF Committed
<1>9. VerdictJustified'
  BY <1>1, <1>2, <1>3, <1>4, <1>6, <1>7, <1>8 DEF VerdictJustified
<1>10. GateTyped' /\ Behind'
  BY <1>1 DEF GateTyped, Behind
<1>11. ExportedAfter'
  BY <1>2 DEF ExportedAfter, Reporting
<1> QED BY <1>9, <1>10, <1>11

(* The export reads rows that continue those verified.                     *)
LEMMA ExportKeepsGateInv ==
  ASSUME StoreInv, GateInv, UNCHANGED vars, ExportRead
  PROVE  GateInv'
<1> USE Parts DEF StoreInv, GateInv
<1>1. /\ sessions' = sessions /\ damage' = damage /\ checked' = checked /\ exported' = sessions
      /\ step = "verified" /\ step' = "exported"
  BY DEF vars, tables, ExportRead
<1>2. GateTyped' /\ Behind'
  BY <1>1 DEF GateTyped, Behind
<1>3. Committed' = Committed
  BY <1>1 DEF Committed
<1>4. VerdictJustified'
  BY <1>1, <1>3 DEF VerdictJustified
<1>5. ExportedAfter'
  BY <1>1 DEF ExportedAfter, Reporting, Behind
<1> QED BY <1>2, <1>4, <1>5

LEMMA GateInvHolds == ReconcilingSpec => []GateInv
<1>1. ReconcilingInit => GateInv
  BY DEF ReconcilingInit, Init, GateInit, GateInv, GateTyped, Behind, VerdictJustified,
         ExportedAfter, Reporting
<1>2. StoreInv /\ GateInv /\ [ReconcilingNext]_<<vars, gateVars>> => GateInv'
  <2> SUFFICES ASSUME StoreInv, GateInv, [ReconcilingNext]_<<vars, gateVars>> PROVE GateInv'
    OBVIOUS
  <2>1. CASE [Next]_vars /\ UNCHANGED gateVars
    BY <2>1, StoreKeepsGateInv
  <2>2. CASE GateNext /\ UNCHANGED vars
    BY <2>2, RowsKeepGateInv, IndexKeepsGateInv, ExportKeepsGateInv DEF GateNext
  <2> QED BY <2>1, <2>2 DEF ReconcilingNext
<1> QED BY <1>1, <1>2, GateOnlyReads, StoreInvHolds, PTL DEF ReconcilingSpec

(* A verification that reads the tables at two moments concludes nothing   *)
(* false: rows that pass are what was committed, and rows of an undamaged  *)
(* database fail only if a session was committed in between.               *)
THEOREM VerdictsJustified == ReconcilingSpec => []VerdictJustified
<1>1. GateInv => VerdictJustified
  BY DEF GateInv
<1> QED BY <1>1, GateInvHolds, PTL

(* The accounts of the rows read are explained by their fills: they were   *)
(* read between two steps of the store, and accidents are not undone.      *)
Explained ==
  /\ Reporting => Checkpoint(exported).account = Cardinality(PayloadFills(exported))
  /\ damage = 0 => Checkpoint(checked).account = Cardinality(PayloadFills(checked))

LEMMA ExplainedHolds ==
  ASSUME OneProcessPerRun
  PROVE  ReconcilingSpec => []Explained
<1>1. ReconcilingInit => Explained
  <2> SUFFICES ASSUME ReconcilingInit PROVE Explained
    OBVIOUS
  <2>1. checked = << >> /\ step = "idle"
    BY DEF ReconcilingInit, GateInit
  <2>2. Checkpoint(checked).account = 0 /\ PayloadFills(checked) = {}
    BY <2>1 DEF Checkpoint, NoPayload, PayloadFills
  <2> QED BY <2>1, <2>2, FS_EmptySet DEF Explained, Reporting
<1>2. StoreInv /\ SoloInv /\ Explained /\ [ReconcilingNext]_<<vars, gateVars>> => Explained'
  <2> SUFFICES ASSUME StoreInv, SoloInv, Explained, [ReconcilingNext]_<<vars, gateVars>>
               PROVE  Explained'
    OBVIOUS
  <2>1. damage = 0 => Checkpoint(sessions).account = Cardinality(PayloadFills(sessions))
    BY DEF SoloInv
  <2>2. CASE [Next]_vars /\ UNCHANGED gateVars
    <3>1. damage' = 0 => damage = 0
      BY <2>2, SessionsGrow
    <3> QED BY <2>2, <3>1 DEF Explained, Reporting, gateVars
  <2>3. CASE (AssertRows \/ ExportRows) /\ UNCHANGED vars
    <3>1. damage' = damage /\ step' # "exported" /\ (checked' = checked \/ checked' = sessions)
      BY <2>3 DEF vars, AssertRows, ExportRows, ReadRows
    <3> QED BY <2>1, <3>1 DEF Explained, Reporting
  <2>4. CASE (AssertIndex \/ ExportIndex) /\ UNCHANGED vars
    <3>1. damage' = damage /\ step' # "exported" /\ checked' = checked
      BY <2>4 DEF vars, AssertIndex, ExportIndex, ReadIndex
    <3> QED BY <3>1 DEF Explained, Reporting
  <2>5. CASE ExportRead /\ UNCHANGED vars
    <3>1. damage' = damage /\ exported' = sessions /\ checked' = checked
      BY <2>5 DEF vars, ExportRead
    <3> QED BY <2>1, <3>1 DEF Explained, Reporting
  <2> QED BY <2>2, <2>3, <2>4, <2>5 DEF ReconcilingNext, GateNext
<1> QED BY <1>1, <1>2, GateOnlyReads, StoreInvHolds, SoloInvHolds, PTL DEF ReconcilingSpec

(* A broker whose complete fill history the gate accepts has the fills of  *)
(* the newest exported session and no others, and as many shares as it     *)
(* records, although account and fills may stem from different moments.    *)
THEOREM CompleteHistoryAgrees ==
  ASSUME OneProcessPerRun
  PROVE  ReconcilingSpec => []CompleteHistoryDecides
<1>1. Explained => CompleteHistoryDecides
  <2> SUFFICES ASSUME Explained, Reporting, NEW s \in Snapshots, Ready(s), s.complete
               PROVE  s.all = LocalFills /\ Cardinality(s.all) = Recorded
    BY DEF CompleteHistoryDecides
  <2>1. s.fills = s.all
    BY DEF Snapshots
  <2>2. s.fills = LocalFills
    BY DEF Ready, FillsMatch
  <2> QED BY <2>1, <2>2 DEF Explained, Recorded, LocalFills
<1> QED BY <1>1, ExplainedHolds, PTL

(* The account the loader uses is that of the rows verified.               *)
LEMMA LocalAccountExplained ==
  ASSUME GateInv, Explained, Reporting
  PROVE  LocalAccount = Cardinality(PayloadFills(checked))
<1>1. PICK k \in Nat : k = Len(checked) /\ DOMAIN checked = 1..k
  BY DEF GateInv, GateTyped
<1>2. Checkpoint(checked).account = Cardinality(PayloadFills(checked))
  BY DEF Explained, Reporting
<1>3. CASE k = 0
  <2>1. checked = << >>
    BY <1>1, <1>3, EmptySeq DEF GateInv, GateTyped
  <2> QED BY <1>1, <1>2, <1>3, <2>1 DEF LocalAccount, Verified, Checkpoint, NoPayload
<1>4. CASE k # 0
  <2>1. checked # << >> /\ k \in DOMAIN checked
    BY <1>1, <1>4
  <2>2. exported[k] = checked[k]
    BY <2>1 DEF GateInv, ExportedAfter
  <2> QED BY <1>1, <1>2, <1>4, <2>1, <2>2 DEF LocalAccount, Verified, Checkpoint, Last
<1> QED BY <1>3, <1>4

(* Whatever was committed between verification and export, a broker that   *)
(* the gate accepts lacks at most the fills of those sessions, and never   *)
(* has more shares than are recorded.                                      *)
THEOREM ShortfallsAreNew ==
  ASSUME OneProcessPerRun
  PROVE  ReconcilingSpec => []ShortfallIsNew
<1>1. GateInv /\ Explained => ShortfallIsNew
  <2> SUFFICES ASSUME GateInv, Explained, Reporting, NEW s \in Snapshots, Ready(s)
               PROVE  /\ Cardinality(s.all) <= Recorded
                      /\ Recorded <= Cardinality(s.all) + Cardinality(NewFills)
    BY DEF ShortfallIsNew
  <2>1. PICK k \in Nat : k = Len(checked) /\ DOMAIN checked = 1..k
    BY DEF GateInv, GateTyped
  <2>2. PICK m \in Nat : m = Len(exported) /\ DOMAIN exported = 1..m /\ k <= m
    BY <2>1 DEF GateInv, GateTyped, ExportedAfter
  <2>3. \A i \in 1..k : checked[i] = exported[i]
    BY <2>1 DEF GateInv, ExportedAfter
  <2>4. PICK old : old = PayloadFills(checked)
    OBVIOUS
  <2>5. PayloadFills(exported) = old \union NewFills
    <3>1. PayloadFills(checked) = UNION {exported[i].payload.fills : i \in 1..k}
      BY <2>1, <2>3 DEF PayloadFills
    <3>2. \A i \in 1..m : i \in 1..k \/ i \in (k + 1)..m
      OBVIOUS
    <3>3. (1..k) \subseteq 1..m /\ ((k + 1)..m) \subseteq 1..m
      BY <2>2
    <3> QED BY <2>1, <2>2, <2>4, <3>1, <3>2, <3>3 DEF PayloadFills, NewFills, Verified
  <2>6. PayloadFills(exported) \subseteq Dates
    <3>1. \A i \in 1..m : exported[i].payload.fills \subseteq Dates
      BY <2>2, RowParts, PayloadParts DEF GateInv, GateTyped
    <3> QED BY <2>2, <3>1 DEF PayloadFills
  <2>7. IsFiniteSet(old \union NewFills) /\ IsFiniteSet(old) /\ IsFiniteSet(NewFills)
    <3>1. old \subseteq Dates /\ NewFills \subseteq Dates
      BY <2>5, <2>6
    <3> QED BY <3>1, <2>5, <2>6, DatesAreNumbers, FS_Subset
  <2>8. /\ Cardinality(old \union NewFills)
             = Cardinality(old) + Cardinality(NewFills) - Cardinality(old \intersect NewFills)
    BY <2>7, FS_Union
  <2>9. Cardinality(old) <= Cardinality(old \union NewFills)
    BY <2>7, FS_Subset
  <2>10. /\ Cardinality(old) \in Nat /\ Cardinality(NewFills) \in Nat
         /\ Cardinality(old \intersect NewFills) \in Nat
    <3>1. IsFiniteSet(old \intersect NewFills)
      BY <2>7, FS_Intersection
    <3> QED BY <2>7, <3>1, FS_CardinalityType
  <2>11. Cardinality(s.all) = Cardinality(old)
    BY <2>4, LocalAccountExplained DEF Ready, AccountMatches
  <2>12. Recorded = Cardinality(old \union NewFills)
    BY <2>5 DEF Explained, Recorded
  <2> QED BY <2>8, <2>9, <2>10, <2>11, <2>12
<1> QED BY <1>1, GateInvHolds, ExplainedHolds, PTL
=============================================================================
