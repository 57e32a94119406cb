----------------------- MODULE ResearchLedger_proofs -----------------------
(***************************************************************************)
(* What holds of the ledger's writers for any number of processes,         *)
(* requests, calls, crashes and failures.  The types and the exclusion of  *)
(* writers come first; on them rests History, the invariant that ties what *)
(* a call has decided to the head it has copied, and on History the rest:  *)
(* ledgers are backed by files, reported runs stay, current preflights are *)
(* recorded, and no round follows an overruled one.                        *)
(***************************************************************************)
EXTENDS ResearchLedger, WellFoundedInduction, TLAPS

(* A nonempty set of times has a greatest one.                             *)
LEMMA GreatestTime ==
  ASSUME NEW N \in Nat, NEW S, S \subseteq 0..N, S # {}
  PROVE  \E m \in S : \A k \in S : k <= m
<1> DEFINE T == {n \in Nat : \E k \in S : n + k = N}
<1>1. T \subseteq Nat
  OBVIOUS
<1>2. PICK k0 : k0 \in S
  OBVIOUS
<1>3. N - k0 \in T
  BY <1>2
<1>4. PICK x \in T : \A y \in T : <<y, x>> \notin OpToRel(<, Nat)
  BY <1>1, <1>3, NatLessThanWellFounded, WFMin
<1>5. \A y \in T : ~(y < x)
  BY <1>1, <1>4 DEF OpToRel
<1>6. PICK m \in S : x + m = N
  BY <1>4
<1>7. ASSUME NEW k \in S PROVE k <= m
  <2>1. N - k \in T
    OBVIOUS
  <2> QED
    BY <2>1, <1>5, <1>6
<1> QED
  BY <1>7

(* There is a newest ledger among any, and it is one of them.              *)
LEMMA NewestExists ==
  ASSUME NEW ls, ls \subseteq Ledgers, ls # {}
  PROVE  Newest(ls) \in ls /\ \A k \in ls : k.built <= Newest(ls).built
<1> DEFINE S == {l.built : l \in ls}
<1>1. S \subseteq 0..LastTime /\ S # {}
  BY DEF Ledgers
<1>2. PICK m \in S : \A k \in S : k <= m
  BY <1>1, GreatestTime, BoundsAssumption DEF BoundsAssumption
<1>3. PICK l \in ls : l.built = m
  OBVIOUS
<1>4. \A k \in ls : k.built <= l.built
  BY <1>2, <1>3
<1> QED
  BY <1>4 DEF Newest

(* What stands for the head when there is no ledger file.                  *)
LEMMA EmptyLedger == Empty \in Ledgers /\ Empty.built = 0 /\ Empty.requests = {} /\ Empty.runs = {}
BY BoundsAssumption DEF BoundsAssumption, Empty, Ledgers

(* The newest of some ledgers is a ledger.                                 *)
LEMMA NewestTyped ==
  ASSUME NEW ls, ls \subseteq Ledgers
  PROVE  Newest(ls) \in Ledgers
BY NewestExists, EmptyLedger DEF Newest

(* No two calls under way have sampled the same time, nor a time to come.  *)
CallTimes ==
  /\ \A p \in Processes : pc[p] # "idle" => at[p] \in 1..clock
  /\ \A p, q \in Processes : p # q /\ pc[p] # "idle" /\ pc[q] # "idle" => at[p] # at[q]

Typed == TypeOK /\ CallTimes

(* A call that has decided nothing.                                        *)
LEMMA NothingTyped == Nothing \in Drafts
BY EmptyLedger DEF Nothing, Drafts

(* The types of the initial state.                                         *)
LEMMA InitTyped == Init => Typed
BY NothingTyped, BoundsAssumption DEF BoundsAssumption, Init, Typed, TypeOK, CallTimes, Labels, Writing, Undoing

(* The steps that begin or end a call keep the types.                      *)
LEMMA CallsTyped ==
  ASSUME Typed, NEW p \in Processes,
         Call(p) \/ Acquire(p) \/ Refuse(p) \/ Reject(p) \/ GiveUp(p) \/ Return(p) \/ Crash(p)
  PROVE  Typed'
<1> USE BoundsAssumption DEF BoundsAssumption, Typed, TypeOK, CallTimes, store, Goto, Stands, Labels
<1>1. CASE Call(p)
  <2>1. TypeOK'
    BY <1>1 DEF Call
  <2>2. CallTimes'
    BY <1>1 DEF Call
  <2> QED
    BY <2>1, <2>2
<1>2. CASE Acquire(p)
  BY <1>2 DEF Acquire
<1>3. CASE Refuse(p)
  BY <1>3, NothingTyped DEF Refuse, LockAfter, Ended
<1>4. CASE Reject(p)
  BY <1>4 DEF Reject
<1>5. CASE GiveUp(p)
  BY <1>5, NothingTyped DEF GiveUp, LockAfter, Ended
<1>6. CASE Return(p)
  BY <1>6, NothingTyped DEF Return, LockAfter, Ended, Drafts
<1>7. CASE Crash(p)
  BY <1>7, NothingTyped DEF Crash, Ended
<1> QED
  BY <1>1, <1>2, <1>3, <1>4, <1>5, <1>6, <1>7

(* The head of the history has the type of a ledger.                       *)
LEMMA HeadTyped == TypeOK => Head \in Ledgers
BY NewestTyped DEF TypeOK, Head

(* A ledger extends the head by typed entries to a ledger.                 *)
LEMMA ExtendedTyped ==
  ASSUME TypeOK, NEW requests \in SUBSET RequestSnapshots, NEW runs \in SUBSET Runs,
         NEW t \in 0..LastTime
  PROVE  Extended(requests, runs, t) \in Ledgers
BY HeadTyped DEF Extended, Ledgers

(* A typed decision keeps the types.                                       *)
LEMMA PlanTyped ==
  ASSUME Typed, NEW p \in Processes, NEW next \in Drafts, NEW label \in Labels \ {"idle"},
         Stands(p, "locked"), Plan(p, next, label)
  PROVE  Typed'
BY DEF Typed, TypeOK, CallTimes, Plan, Goto, Stands, store

(* A request of the head can be processed at the time of the call.         *)
LEMMA ProcessableTyped ==
  ASSUME Typed, NEW p \in Processes, NEW request \in Head.requests, Processable(p, request)
  PROVE  /\ request \in RequestSnapshots /\ at[p] \in Times /\ at[p] \in 0..LastTime
         /\ Of(request) \subseteq Runs
<1>1. Head.requests \subseteq RequestSnapshots /\ Head.runs \subseteq Runs
  BY HeadTyped DEF Ledgers, Typed
<1> QED
  BY <1>1, BoundsAssumption
  DEF BoundsAssumption, Processable, Typed, TypeOK, Times, RequestSnapshots, Of

(* The decision to append one run.                                         *)
LEMMA AppendingTyped ==
  ASSUME TypeOK, NEW run \in Runs
  PROVE  Appending(run) \in Drafts
<1>1. run.completed \in 0..LastTime
  BY BoundsAssumption DEF BoundsAssumption, Runs, Times
<1>2. Extended({}, {run}, run.completed) \in Ledgers
  BY <1>1, ExtendedTyped
<1> QED
  BY <1>2 DEF Appending, Nothing, Drafts

(* A failure counts, goes on to a rollback and notes what is left behind.  *)
LEMMA FailsTyped ==
  ASSUME Typed, NEW p \in Processes, Fail(p) \/ FailToSync(p)
  PROVE  /\ faults' \in 0..MaxFaults /\ UNCHANGED <<clock, lock, at, draft, acked>>
         /\ pc' \in [Processes -> Labels]
         /\ leftover' \in [requests : SUBSET RequestSnapshots, runs : SUBSET Runs]
         /\ \A q \in Processes : pc'[q] = "idle" <=> (q # p /\ pc[q] = "idle")
<1> USE DEF Fail, FailToSync, Fails, Typed, TypeOK
<1>1. Undo(p) \in Undoing \union {"failed"}
  BY DEF Undo, Undoing
<1>2. Undo(p) \in Labels \ {"idle"}
  BY <1>1 DEF Labels, Undoing
<1>3. draft[p].requests \subseteq RequestSnapshots /\ draft[p].runs \subseteq Runs
  BY DEF Drafts
<1>4. leftover' \in [requests : SUBSET RequestSnapshots, runs : SUBSET Runs]
  BY <1>3
<1>5. faults' \in 0..MaxFaults
  BY BoundsAssumption DEF BoundsAssumption
<1> QED
  BY <1>2, <1>4, <1>5 DEF Goto

(* The steps that write or roll back keep the types.                       *)
LEMMA WritesTyped ==
  ASSUME Typed, NEW p \in Processes,
         \/ WriteRequest(p) \/ WriteState(p) \/ WriteRound(p) \/ WriteRun(p)
         \/ CreateLedger(p) \/ CompleteLedger(p) \/ PublishCurrent(p) \/ Confirm(p)
         \/ UndoLedger(p) \/ UndoRun(p) \/ UndoRound(p) \/ Fail(p) \/ FailToSync(p)
  PROVE  Typed'
<1> USE BoundsAssumption
    DEF BoundsAssumption, Typed, TypeOK, CallTimes, store, Writes, Goto, Stands, Labels, Writing,
        Undoing, Drafts
<1>1. CASE WriteRequest(p)
  BY <1>1 DEF WriteRequest
<1>2. CASE WriteState(p)
  BY <1>2 DEF WriteState, AfterState
<1>3. CASE WriteRound(p)
  BY <1>3 DEF WriteRound
<1>4. CASE WriteRun(p)
  BY <1>4 DEF WriteRun
<1>5. CASE CreateLedger(p)
  BY <1>5 DEF CreateLedger, Ledgers
<1>6. CASE CompleteLedger(p)
  BY <1>6 DEF CompleteLedger
<1>7. CASE PublishCurrent(p)
  <2>1. PICK state \in draft[p].states :
          \/ /\ current' = [r \in DOMAIN current \union {state.request} |->
                              IF r = state.request THEN [state |-> state, at |-> at[p]] ELSE current[r]]
             /\ Goto(p, "done")
          \/ Goto(p, "failed") /\ UNCHANGED current
    BY <1>7 DEF PublishCurrent
  <2>2. UNCHANGED <<clock, lock, ledgers, torn, files, states, at, draft, acked, leftover, faults>>
    BY <1>7 DEF PublishCurrent
  <2>3. pc[p] # "idle" /\ at[p] \in Times
    BY <1>7 DEF PublishCurrent, Times
  <2>4. state \in States /\ state.request \in RequestSnapshots
    BY <2>1 DEF States
  <2>5. DOMAIN current' \subseteq RequestSnapshots /\ current' \in [DOMAIN current' -> [state : States, at : Times]]
    <3>1. CASE UNCHANGED current
      BY <3>1
    <3>2. CASE current' = [r \in DOMAIN current \union {state.request} |->
                             IF r = state.request THEN [state |-> state, at |-> at[p]] ELSE current[r]]
      BY <2>3, <2>4, <3>2
    <3> QED BY <2>1, <3>1, <3>2
  <2>6. pc' \in [Processes -> Labels] /\ \A q \in Processes : pc'[q] = "idle" <=> pc[q] = "idle"
    BY <2>1, <2>3
  <2> QED BY <2>2, <2>5, <2>6
<1>8. CASE Confirm(p)
  BY <1>8 DEF Confirm
<1>9. CASE UndoLedger(p)
  BY <1>9 DEF UndoLedger
<1>10. CASE UndoRun(p)
  BY <1>10 DEF UndoRun
<1>11. CASE UndoRound(p)
  BY <1>11 DEF UndoRound
<1>12. CASE Fail(p)
  BY <1>12, FailsTyped DEF Fail
<1>13. CASE FailToSync(p)
  <2>1. /\ faults' \in 0..MaxFaults /\ UNCHANGED <<clock, lock, at, draft, acked>>
        /\ pc' \in [Processes -> Labels]
        /\ leftover' \in [requests : SUBSET RequestSnapshots, runs : SUBSET Runs]
        /\ \A q \in Processes : pc'[q] = "idle" <=> (q # p /\ pc[q] = "idle")
    <3> HIDE DEF Labels, Writing, Undoing, Drafts, Typed, TypeOK, CallTimes, Goto
    <3> QED
      BY <1>13, FailsTyped
  <2>2. ledgers' \subseteq Ledgers /\ torn' \subseteq 0..LastTime /\ UNCHANGED <<files, states, current>>
    BY <1>13 DEF FailToSync
  <2>3. TypeOK'
    BY <2>1, <2>2
  <2>4. CallTimes'
    <3>1. \A q \in Processes : pc'[q] # "idle" => q = p \/ pc[q] # "idle"
      BY <2>1
    <3>2. pc[p] # "idle"
      BY <1>13 DEF FailToSync
    <3>3. \A q \in Processes : pc'[q] # "idle" => pc[q] # "idle"
      BY <3>1, <3>2
    <3>4. at' = at /\ clock' = clock
      BY <2>1
    <3> QED
      BY <3>3, <3>4
  <2> QED
    BY <2>3, <2>4
<1> QED
  BY <1>1, <1>2, <1>3, <1>4, <1>5, <1>6, <1>7, <1>8, <1>9, <1>10, <1>11, <1>12, <1>13

(* The lock file tells who reads and writes the history; a process that    *)
(* has not created it, or has removed it, does not.                        *)
Exclusive ==
  /\ DOMAIN pc = Processes
  /\ OneWriter

(* Nobody has the lock file when there is none or its owner is dead.       *)
LEMMA ExclusiveInit == Init => Exclusive
BY DEF Init, Exclusive, OneWriter, Holds

(* The steps that begin or end a call.                                     *)
LEMMA CallsExclude ==
  ASSUME Exclusive, NEW p \in Processes,
         Call(p) \/ Acquire(p) \/ Refuse(p) \/ Reject(p) \/ GiveUp(p) \/ Return(p) \/ Crash(p)
  PROVE  Exclusive'
<1>1. CASE Call(p)
  BY <1>1 DEF Exclusive, OneWriter, Holds, Call, Goto, Stands
<1>2. CASE Acquire(p)
  BY <1>2, LockAssumption DEF Exclusive, OneWriter, Holds, Acquire, Goto, Stands
<1>3. CASE Refuse(p)
  BY <1>3 DEF Exclusive, OneWriter, Holds, Refuse, LockAfter, Ended, Goto, Stands
<1>4. CASE Reject(p)
  BY <1>4 DEF Exclusive, OneWriter, Holds, Reject, Goto, Stands
<1>5. CASE GiveUp(p)
  BY <1>5 DEF Exclusive, OneWriter, Holds, GiveUp, LockAfter, Ended, Goto, Stands
<1>6. CASE Return(p)
  BY <1>6 DEF Exclusive, OneWriter, Holds, Return, LockAfter, Ended, Goto, Stands
<1>7. CASE Crash(p)
  BY <1>7 DEF Exclusive, OneWriter, Holds, Crash, Ended, Goto
<1> QED
  BY <1>1, <1>2, <1>3, <1>4, <1>5, <1>6, <1>7

(* A step of a process that has the lock and goes on with its call.        *)
LEMMA GoesOnExcludes ==
  ASSUME Exclusive, NEW p \in Processes, NEW label,
         Holds(p), Goto(p, label), lock' = lock
  PROVE  Exclusive'
BY DEF Exclusive, OneWriter, Holds, Goto

(* The steps that decide what to write.                                    *)
LEMMA PlansExclude ==
  ASSUME Exclusive, NEW p \in Processes,
         Record(p) \/ Preflight(p) \/ BlockPackage(p) \/ Assemble(p)
  PROVE  Exclusive'
<1>1. Holds(p) /\ lock' = lock
  BY DEF Record, Preflight, BlockPackage, Assemble, Processable, Plan, Stands, Holds
<1>2. \E label : Goto(p, label)
  <2>1. CASE Record(p)
    BY <2>1 DEF Record, Plan
  <2>2. CASE Preflight(p)
    BY <2>2 DEF Preflight, Plan
  <2>3. CASE BlockPackage(p)
    BY <2>3 DEF BlockPackage, Plan
  <2>4. CASE Assemble(p)
    BY <2>4 DEF Assemble, Plan
  <2> QED
    BY <2>1, <2>2, <2>3, <2>4
<1> QED
  BY <1>1, <1>2, GoesOnExcludes

(* The writes, their failures and their rollback.                          *)
LEMMA WritesExclude ==
  ASSUME Exclusive, NEW p \in Processes,
         \/ WriteRequest(p) \/ WriteState(p) \/ WriteRound(p) \/ WriteRun(p)
         \/ CreateLedger(p) \/ CompleteLedger(p) \/ PublishCurrent(p) \/ Confirm(p)
         \/ UndoLedger(p) \/ UndoRun(p) \/ UndoRound(p) \/ Fail(p) \/ FailToSync(p)
  PROVE  Exclusive'
<1>1. Holds(p) /\ lock' = lock
  BY DEF WriteRequest, WriteState, WriteRound, WriteRun, CreateLedger, CompleteLedger,
         PublishCurrent, Confirm, UndoLedger, UndoRun, UndoRound, Fail, FailToSync, Fails, Writes,
         Stands, Writing, Undoing, Holds
<1>2. \E label : Goto(p, label)
  <2>1. CASE WriteRequest(p) \/ WriteState(p) \/ WriteRound(p) \/ WriteRun(p)
    BY <2>1 DEF WriteRequest, WriteState, AfterState, WriteRound, WriteRun
  <2>2. CASE CreateLedger(p) \/ CompleteLedger(p) \/ PublishCurrent(p) \/ Confirm(p)
    BY <2>2 DEF CreateLedger, CompleteLedger, PublishCurrent, Confirm
  <2>3. CASE UndoLedger(p) \/ UndoRun(p) \/ UndoRound(p) \/ Fail(p) \/ FailToSync(p)
    BY <2>3 DEF UndoLedger, UndoRun, UndoRound, Fail, FailToSync, Fails
  <2> QED
    BY <2>1, <2>2, <2>3
<1> QED
  BY <1>1, <1>2, GoesOnExcludes

(* Every step.                                                             *)
LEMMA StepsExclude == Exclusive /\ [Next]_vars => Exclusive'
<1> SUFFICES ASSUME Exclusive, [Next]_vars PROVE Exclusive'
  OBVIOUS
<1>1. CASE UNCHANGED vars
  BY <1>1 DEF vars, Exclusive, OneWriter, Holds
<1>2. CASE RemoveOrphan
  BY <1>2, LockAssumption DEF RemoveOrphan, Exclusive, OneWriter, Holds
<1>3. CASE Finished
  BY <1>1, <1>3 DEF Finished
<1>4. ASSUME NEW p \in Processes, Call(p) \/ Step(p) \/ Fail(p) \/ FailToSync(p) \/ Crash(p)
      PROVE  Exclusive'
  BY <1>4, CallsExclude, PlansExclude, WritesExclude DEF Step
<1> QED
  BY <1>1, <1>2, <1>3, <1>4 DEF Next

(* At most one process reads and writes the history, for any number of     *)
(* processes, requests and faults, and it is the one the lock file names.  *)
THEOREM WritersExclude == Spec => []OneWriter
<1>1. Exclusive => OneWriter
  BY DEF Exclusive
<1> QED
  BY <1>1, ExclusiveInit, StepsExclude, PTL DEF Spec

-----------------------------------------------------------------------------
(* The ledgers a call found when it got the lock, and the head of them.    *)
Kept(p) == ledgers \ {draft[p].ledger}
Base(p) == Newest(Kept(p))

LedgersDated ==
  /\ \A l \in ledgers : l.built \in 1..clock /\ Buildable(l)
  /\ \A k, l \in ledgers : k.built = l.built => k = l
  /\ \A p \in Processes : pc[p] # "idle" =>
       \A l \in ledgers : l.built = at[p] => l = draft[p].ledger

Undecided == {"idle", "called", "locked"}

(* The draft of a call: a ledger that adds one entry to the head, newer    *)
(* than the head unless the entry is a request.                            *)
DraftExtends(p) ==
  /\ pc[p] \in Undecided => draft[p] = Nothing
  /\ draft[p].ledger = Empty => draft[p].requests = {} /\ draft[p].runs \subseteq Head.runs
  /\ draft[p].ledger # Empty =>
       /\ draft[p].ledger = [built |-> at[p],
                             requests |-> Base(p).requests \union draft[p].requests,
                             runs |-> Base(p).runs \union draft[p].runs]
       /\ Buildable(draft[p].ledger)
       /\ draft[p].requests = {} =>
            Base(p).built < at[p] /\ \A run \in draft[p].runs : run.completed = at[p]
  /\ draft[p].requests # {} =>
       /\ draft[p].runs = {} /\ draft[p].states = {}
       /\ \E r \in draft[p].requests : draft[p].requests = {r}
  /\ draft[p].states # {} => Rounds(draft[p].runs) = {}
  /\ \A run \in draft[p].runs : run.kind = "thesis_blocked" => draft[p].states # {}

(* The rollback has passed by the ledger file of the call.                 *)
LeftBehind(p) ==
  draft[p].requests \subseteq leftover.requests /\ draft[p].runs \subseteq leftover.runs

(* What is decided, and whether the ledger is in place, at each label.     *)
Stage(p) ==
  /\ pc[p] \in {"write_request", "write_round", "write_run", "create_ledger", "complete_ledger",
                "confirm", "undo_ledger", "undo_run", "undo_round"} => draft[p].ledger # Empty
  /\ pc[p] \in {"write_request", "write_state", "write_round", "write_run", "create_ledger",
                "complete_ledger"} => draft[p].ledger \notin ledgers
  /\ pc[p] \in {"undo_run", "undo_round"} => draft[p].ledger \notin ledgers \/ LeftBehind(p)
  /\ pc[p] \in {"publish_current", "confirm", "done"} => draft[p].ledger \in ledgers \union {Empty}
  /\ pc[p] = "write_request" => draft[p].requests # {}
  /\ pc[p] = "write_state" => draft[p].states # {}
  /\ pc[p] \in {"write_state", "write_round", "write_run", "publish_current"} => draft[p].requests = {}
  /\ pc[p] = "write_round" => draft[p].states = {}

Local(p) == DraftExtends(p) /\ Stage(p)

History == Typed /\ Exclusive /\ LedgersDated /\ \A p \in Processes : Local(p)

(* The history is empty at first.                                          *)
LEMMA InitHistory == Init => History
<1> SUFFICES ASSUME Init PROVE History
  OBVIOUS
<1>1. LedgersDated
  BY DEF Init, LedgersDated
<1>2. ASSUME NEW p \in Processes PROVE Local(p)
  BY EmptyLedger DEF Init, Local, DraftExtends, Stage, Undecided, Nothing
<1> QED
  BY <1>1, <1>2, InitTyped, ExclusiveInit DEF History

(* No ledger is older than every call.                                     *)
LEMMA EmptyUnlisted == History => Empty \notin ledgers
BY EmptyLedger DEF History, LedgersDated, Typed, TypeOK

(* Before it decides, a call has nothing to write.                         *)
LEMMA UndecidedNothing ==
  ASSUME History, NEW p \in Processes, pc[p] \in Undecided
  PROVE  /\ draft[p] = Nothing /\ draft[p].ledger = Empty /\ draft[p].requests = {}
         /\ draft[p].states = {} /\ draft[p].runs = {}
<1>1. DraftExtends(p)
  BY DEF History, Local
<1>2. draft[p] = Nothing
  BY <1>1 DEF DraftExtends
<1> QED
  BY <1>2 DEF Nothing

(* The steps that begin or end a call keep it.                             *)
LEMMA CallsHistory ==
  ASSUME History, NEW p \in Processes,
         Call(p) \/ Acquire(p) \/ Refuse(p) \/ Reject(p) \/ GiveUp(p) \/ Return(p) \/ Crash(p)
  PROVE  History'
<1> USE DEF store, Goto, Stands
<1>1. UNCHANGED <<ledgers, current, leftover>> /\ clock' \in {clock, clock + 1}
  BY DEF Call, Acquire, Refuse, Reject, GiveUp, Return, Crash
<1>2. \A q \in Processes \ {p} : pc'[q] = pc[q] /\ at'[q] = at[q] /\ draft'[q] = draft[q]
  BY DEF Call, Acquire, Refuse, Reject, GiveUp, Return, Crash, Ended, History, Typed, TypeOK
<1>3. /\ draft'[p] = Nothing
      /\ pc'[p] \in {"idle", "called", "locked", "failed"}
      /\ \/ pc'[p] = "idle"
         \/ pc[p] = "idle" /\ at'[p] = clock + 1
         \/ pc[p] # "idle" /\ at'[p] = at[p] /\ draft[p] = Nothing
  BY DEF Call, Acquire, Refuse, Reject, GiveUp, Return, Crash, Ended, History, Typed, TypeOK,
         Local, DraftExtends, Undecided
<1>4. LedgersDated'
  BY <1>1, <1>2, <1>3 DEF History, LedgersDated, Typed, TypeOK, Buildable
<1>5. ASSUME NEW q \in Processes PROVE Local(q)'
  <2>1. CASE q = p
    <3>1. /\ draft'[p] = Nothing /\ draft'[p].ledger = Empty /\ draft'[p].requests = {}
          /\ draft'[p].states = {} /\ draft'[p].runs = {}
      BY <1>3 DEF Nothing
    <3>2. DraftExtends(p)'
      BY <3>1 DEF DraftExtends
    <3>3. Stage(p)'
      BY <1>3, <3>1 DEF Stage
    <3> QED
      BY <2>1, <3>2, <3>3 DEF Local
  <2>2. CASE q # p
    <3>1. Kept(q)' = Kept(q) /\ Base(q)' = Base(q) /\ Head' = Head
      BY <2>2, <1>1, <1>2 DEF Kept, Base, Head
    <3>2. DraftExtends(q)'
      BY <2>2, <3>1, <1>1, <1>2 DEF History, Local, DraftExtends
    <3>3. Stage(q)'
      BY <2>2, <1>1, <1>2 DEF History, Local, Stage, LeftBehind
    <3> QED
      BY <3>2, <3>3 DEF Local
  <2> QED
    BY <2>1, <2>2
<1> QED
  BY <1>4, <1>5, CallsTyped, CallsExclude DEF History

(* What a call that holds the lock decides to write.                       *)
Fits(p, next, label) ==
  /\ label \in {"write_request", "write_state", "write_round", "write_run", "done"}
  /\ next.ledger = Empty => next.requests = {} /\ next.runs \subseteq Head.runs
  /\ next.ledger # Empty =>
       /\ next.ledger = Extended(next.requests, next.runs, at[p]) /\ Buildable(next.ledger)
       /\ next.requests = {} => Head.built < at[p] /\ \A run \in next.runs : run.completed = at[p]
  /\ next.requests # {} =>
       /\ next.runs = {} /\ next.states = {} /\ \E r \in next.requests : next.requests = {r}
  /\ next.states # {} => Rounds(next.runs) = {}
  /\ \A run \in next.runs : run.kind = "thesis_blocked" => next.states # {}
  /\ label \in {"write_request", "write_round", "write_run"} => next.ledger # Empty
  /\ label = "write_request" <=> next.requests # {}
  /\ label = "write_state" => next.states # {}
  /\ label \in {"write_round", "write_run", "done"} => next.states = {}
  /\ label = "write_run" => Rounds(next.runs) = {}
  /\ label = "done" => next.ledger = Empty
  /\ \A s \in next.states :
       /\ s.request \in Head.requests
       /\ s.blockers # Clear => next.runs # {}
       /\ \A run \in next.runs :
            run.request = s.request /\ run.kind = "thesis_blocked" /\ run.blockers = s.blockers

Planned(p) ==
  \E next \in Drafts :
    \E label \in {"write_request", "write_state", "write_round", "write_run", "done"} :
      Fits(p, next, label) /\ Plan(p, next, label)

(* The head lists nothing later than itself.                               *)
LEMMA HeadBuildable == History => Buildable(Head)
<1> SUFFICES ASSUME History PROVE Buildable(Head)
  OBVIOUS
<1>1. CASE ledgers = {}
  BY <1>1, EmptyLedger DEF Head, Newest, Buildable
<1>2. CASE ledgers # {}
  BY <1>2, NewestExists DEF Head, History, Typed, TypeOK, LedgersDated
<1> QED
  BY <1>1, <1>2

(* Each decision fits: the registration of a request,                      *)
LEMMA RecordPlanned ==
  ASSUME History, NEW p \in Processes, Record(p)
  PROVE  Planned(p)
<1>1. PICK id \in Requests, t \in 1..at[p] :
        /\ Buildable(Registering([id |-> id, requested |-> t], at[p]).ledger)
        /\ Plan(p, Registering([id |-> id, requested |-> t], at[p]), "write_request")
  BY DEF Record
<1> DEFINE request == [id |-> id, requested |-> t]
           next == Registering(request, at[p])
<1>2. at[p] \in 0..LastTime
  BY DEF History, Typed, TypeOK
<1>3. request \in RequestSnapshots
  BY <1>2, BoundsAssumption DEF BoundsAssumption, RequestSnapshots, Times
<1>4. Extended({request}, {}, at[p]) \in Ledgers
  BY <1>2, <1>3, ExtendedTyped DEF History, Typed
<1>5. next \in Drafts
  BY <1>3, <1>4 DEF Registering, Nothing, Drafts
<1>6. /\ next.ledger = Extended({request}, {}, at[p]) /\ next.requests = {request}
      /\ next.states = {} /\ next.runs = {}
  BY DEF Registering, Nothing
<1>7. next.ledger # Empty
  BY <1>6 DEF Extended, Empty
<1>8. Fits(p, next, "write_request")
  BY <1>1, <1>6, <1>7 DEF Fits, Rounds
<1> QED
  BY <1>1, <1>5, <1>8 DEF Planned

(* A run appended at the time of a call later than the head.               *)
LEMMA AppendingFits ==
  ASSUME History, NEW p \in Processes, NEW run \in Runs, run.completed = at[p], Later(at[p])
  PROVE  LET next == Appending(run)
         IN /\ next.ledger = Extended({}, {run}, at[p]) /\ next.ledger # Empty
            /\ next.requests = {} /\ next.states = {} /\ next.runs = {run}
            /\ Buildable(next.ledger) /\ Head.built < at[p]
<1> DEFINE next == Appending(run)
<1>1. /\ next.ledger = Extended({}, {run}, at[p])
      /\ next.requests = {} /\ next.states = {} /\ next.runs = {run}
  BY DEF Appending, Nothing
<1>2. run.completed \in Nat /\ run.completed # 0
  BY DEF Runs, Times
<1>3. next.ledger # Empty
  BY <1>1, <1>2 DEF Extended, Empty
<1>4. Head \in Ledgers /\ Buildable(Head) /\ Head.built < at[p]
  BY HeadTyped, HeadBuildable DEF History, Typed, Later
<1>5. Buildable(next.ledger)
  BY <1>1, <1>2, <1>4, BoundsAssumption
  DEF BoundsAssumption, Buildable, Extended, Ledgers, Runs, RequestSnapshots, Times
<1> QED
  BY <1>1, <1>3, <1>4, <1>5

(* Of runs there are, some are the latest.                                 *)
LEMMA LatestExists ==
  ASSUME NEW runs \in SUBSET Runs, runs # {}
  PROVE  Latest(runs) # {}
<1> DEFINE S == {run.completed : run \in runs}
<1>1. S \subseteq 0..LastTime /\ S # {}
  BY BoundsAssumption DEF BoundsAssumption, Runs, Times
<1>2. PICK m \in S : \A k \in S : k <= m
  BY <1>1, GreatestTime, BoundsAssumption DEF BoundsAssumption
<1>3. PICK run \in runs : run.completed = m
  OBVIOUS
<1> QED
  BY <1>2, <1>3 DEF Latest

(* a preflight, blocked or ready,                                          *)
LEMMA PreflightPlanned ==
  ASSUME History, NEW p \in Processes, Preflight(p)
  PROVE  Planned(p)
<1>1. PICK request \in Head.requests, b \in Blockers \union {Clear} :
      \E cutoff \in Cutoffs(request, at[p]) :
        /\ Processable(p, request)
        /\ Plan(p, Preflighting([request |-> request, cutoff |-> cutoff, blockers |-> b],
                                ThesisRun(request, cutoff, b, at[p])), "write_state")
  BY DEF Preflight
<1>2. PICK cutoff \in Cutoffs(request, at[p]) :
        /\ Processable(p, request)
        /\ Plan(p, Preflighting([request |-> request, cutoff |-> cutoff, blockers |-> b],
                                ThesisRun(request, cutoff, b, at[p])), "write_state")
  BY <1>1
<1> DEFINE state == [request |-> request, cutoff |-> cutoff, blockers |-> b]
           run == ThesisRun(request, cutoff, b, at[p])
           prior == Repeats(Of(request), run)
           next == Preflighting(state, run)
<1>3. /\ request \in RequestSnapshots /\ at[p] \in Times /\ at[p] \in 0..LastTime
      /\ Of(request) \subseteq Runs /\ Of(request) \subseteq Head.runs
  BY <1>2, ProcessableTyped DEF History, Of
<1>4. cutoff \in 0..LastTime
  BY <1>3, BoundsAssumption DEF BoundsAssumption, Cutoffs, Times, RequestSnapshots
<1>5. state \in States
  BY <1>3, <1>4 DEF States
<1>6. run \in Runs /\ run.request = request /\ run.completed = at[p] /\ run.kind = "thesis_blocked"
      /\ run.blockers = b
  BY <1>3, <1>4, BoundsAssumption DEF BoundsAssumption, ThesisRun, Runs, Kinds, Flag
<1>7. \A old \in prior : old \in Runs /\ old.request = request /\ old.kind = "thesis_blocked" /\ old.blockers = b
  BY <1>3, <1>6 DEF Repeats, Runs
<1>8. Appending(run) \in Drafts
  BY <1>6, AppendingTyped DEF History, Typed
<1>9. /\ next.states = {state} /\ next.requests = {} /\ next \in Drafts
      /\ \/ b = Clear /\ next.ledger = Empty /\ next.runs = {}
         \/ prior # {} /\ next.ledger = Empty /\ next.runs = Latest(prior)
         \/ next.ledger = Appending(run).ledger /\ next.runs = {run}
  BY <1>3, <1>5, <1>6, <1>7, <1>8, NothingTyped
  DEF Preflighting, Nothing, Drafts, Latest, Repeats, Appending
<1>10. /\ Latest(prior) \subseteq prior /\ prior \subseteq Head.runs
       /\ prior # {} => Latest(prior) # {}
  BY <1>3, <1>7, LatestExists DEF Latest, Repeats
<1>11. Later(at[p])
  BY <1>2 DEF Processable
<1>12. /\ Appending(run).ledger = Extended({}, {run}, at[p]) /\ Appending(run).ledger # Empty
       /\ Buildable(Appending(run).ledger) /\ Head.built < at[p]
  BY <1>6, <1>11, AppendingFits
<1>13. Fits(p, next, "write_state")
  <2>1. \A r \in next.runs : r.request = request /\ r.kind = "thesis_blocked" /\ r.blockers = b
    BY <1>6, <1>7, <1>9, <1>10
  <2>2. Rounds(next.runs) = {}
    BY <2>1 DEF Rounds
  <2>3. b # Clear => next.runs # {}
    BY <1>9, <1>10
  <2>4. state.request = request /\ state.blockers = b
    OBVIOUS
  <2>5. next.ledger = Empty => next.runs \subseteq Head.runs
    BY <1>9, <1>10, <1>12
  <2>6. next.ledger # Empty =>
          /\ next.ledger = Extended(next.requests, next.runs, at[p]) /\ Buildable(next.ledger)
          /\ Head.built < at[p] /\ \A r \in next.runs : r.completed = at[p]
    BY <1>6, <1>9, <1>12
  <2> HIDE DEF state, run, prior, next
  <2>7. \A s \in next.states :
          /\ s.request \in Head.requests /\ (s.blockers # Clear => next.runs # {})
          /\ \A r \in next.runs :
               r.request = s.request /\ r.kind = "thesis_blocked" /\ r.blockers = s.blockers
    BY <1>9, <2>1, <2>3, <2>4
  <2> QED
    BY <1>9, <2>2, <2>5, <2>6, <2>7 DEF Fits
<1> QED
  BY <1>2, <1>9, <1>13 DEF Planned

(* a blocked package, recorded or repeated,                                *)
LEMMA BlockPackagePlanned ==
  ASSUME History, NEW p \in Processes, BlockPackage(p)
  PROVE  Planned(p)
<1> DEFINE run(request, b) == PackageRun(request, b, at[p])
           repeated(request, b) == {old \in Repeats(Latest(Of(request)), run(request, b)) :
                                      old.completed >= current[request].at}
<1>1. PICK request \in Head.requests, b \in Blockers :
        /\ Processable(p, request)
        /\ \/ Plan(p, [Nothing EXCEPT !.runs = repeated(request, b)], "done")
           \/ Plan(p, Appending(run(request, b)), "write_run")
  BY DEF BlockPackage
<1>2. /\ request \in RequestSnapshots /\ at[p] \in Times /\ at[p] \in 0..LastTime
      /\ Of(request) \subseteq Runs /\ Of(request) \subseteq Head.runs /\ Later(at[p])
  BY <1>1, ProcessableTyped DEF History, Of, Processable
<1>3. /\ run(request, b) \in Runs /\ run(request, b).kind = "package_blocked"
      /\ run(request, b).completed = at[p]
  BY <1>2, BoundsAssumption DEF BoundsAssumption, PackageRun, Runs, Kinds
<1>4. /\ repeated(request, b) \subseteq Runs /\ repeated(request, b) \subseteq Head.runs
      /\ \A old \in repeated(request, b) : old.kind = "package_blocked"
  BY <1>2, <1>3 DEF Latest, Repeats, Runs
<1> DEFINE named == [Nothing EXCEPT !.runs = repeated(request, b)]
           added == Appending(run(request, b))
<1>5. /\ named \in Drafts /\ named.ledger = Empty /\ named.requests = {} /\ named.states = {}
      /\ named.runs = repeated(request, b)
  BY <1>4, NothingTyped DEF Drafts, Nothing
<1>6. added \in Drafts
  BY <1>3, AppendingTyped DEF History, Typed
<1>7. /\ added.ledger = Extended({}, {run(request, b)}, at[p]) /\ added.ledger # Empty
      /\ added.requests = {} /\ added.states = {} /\ added.runs = {run(request, b)}
      /\ Buildable(added.ledger) /\ Head.built < at[p]
  BY <1>2, <1>3, AppendingFits
<1> HIDE DEF run, repeated, named, added
<1>8. Fits(p, named, "done")
  BY <1>4, <1>5 DEF Fits
<1>9. Fits(p, added, "write_run")
  BY <1>3, <1>7 DEF Fits, Rounds
<1>10. Plan(p, named, "done") \/ Plan(p, added, "write_run")
  BY <1>1 DEF named, added
<1> QED
  BY <1>5, <1>6, <1>8, <1>9, <1>10 DEF Planned

(* and a round.                                                            *)
LEMMA AssemblePlanned ==
  ASSUME History, NEW p \in Processes, Assemble(p)
  PROVE  Planned(p)
<1>1. PICK request \in Head.requests :
        /\ Processable(p, request) /\ ReadyFor(p, request)
        /\ Plan(p, Appending(RoundRun(request, at[p])), "write_round")
  BY DEF Assemble
<1> DEFINE run == RoundRun(request, at[p])
           next == Appending(run)
<1>2. request \in RequestSnapshots /\ at[p] \in Times /\ Later(at[p])
  BY <1>1, ProcessableTyped DEF History, Processable
<1>3. run \in Runs /\ run.completed = at[p] /\ run.kind = "orchestrated"
  BY <1>1, <1>2 DEF History, Typed, TypeOK, ReadyFor, States, RoundRun, Runs, Kinds
<1>4. next \in Drafts
  BY <1>3, AppendingTyped DEF History, Typed
<1>5. /\ next.ledger = Extended({}, {run}, at[p]) /\ next.ledger # Empty
      /\ next.requests = {} /\ next.states = {} /\ next.runs = {run}
      /\ Buildable(next.ledger) /\ Head.built < at[p]
  BY <1>2, <1>3, AppendingFits
<1> HIDE DEF run, next
<1>6. Fits(p, next, "write_round")
  BY <1>3, <1>5 DEF Fits
<1> QED
  BY <1>1, <1>4, <1>6 DEF Planned, next, run

(* A decision that fits keeps the history in order.                        *)
LEMMA PlanHistory ==
  ASSUME History, NEW p \in Processes, Stands(p, "locked"), Planned(p)
  PROVE  History'
<1>1. PICK next \in Drafts, label \in {"write_request", "write_state", "write_round", "write_run", "done"} :
        Fits(p, next, label) /\ Plan(p, next, label)
  BY DEF Planned
<1>2. /\ UNCHANGED <<clock, lock, ledgers, torn, files, states, current, at, acked, leftover, faults>>
      /\ draft'[p] = next /\ pc'[p] = label /\ Goto(p, label)
      /\ \A q \in Processes \ {p} : pc'[q] = pc[q] /\ draft'[q] = draft[q]
  BY <1>1 DEF Plan, Goto, store, History, Typed, TypeOK
<1>3. pc[p] = "locked" /\ draft[p] = Nothing /\ draft[p].ledger = Empty /\ Holds(p)
  <2>1. pc[p] = "locked" /\ Holds(p)
    BY DEF Stands, Holds
  <2> QED
    BY <2>1, UndecidedNothing DEF Undecided
<1>4. Typed' /\ Exclusive'
  <2>1. label \in Labels \ {"idle"}
    BY DEF Labels, Writing
  <2> QED
    BY <1>1, <1>2, <1>3, <2>1, PlanTyped, GoesOnExcludes DEF History
<1>5. next.ledger # Empty => next.ledger.built = at[p]
  BY <1>1 DEF Fits, Extended
<1>6. next.ledger \notin ledgers
  BY <1>3, <1>5, EmptyUnlisted DEF History, LedgersDated
<1>7. Kept(p)' = ledgers /\ Base(p)' = Head
  BY <1>2, <1>6 DEF Kept, Base, Head
<1>8. LedgersDated'
  BY <1>2, <1>3, <1>6, EmptyUnlisted DEF History, LedgersDated, Buildable
<1>9. DraftExtends(p)'
  BY <1>1, <1>2, <1>7 DEF Fits, DraftExtends, Undecided, Extended, Head, Rounds, Buildable
<1>10. Stage(p)'
  BY <1>1, <1>2, <1>6 DEF Fits, Stage
<1>11. ASSUME NEW q \in Processes \ {p} PROVE Local(q)'
  <2>1. Kept(q)' = Kept(q) /\ Base(q)' = Base(q) /\ Head' = Head
    BY <1>2 DEF Kept, Base, Head
  <2>2. DraftExtends(q)'
    BY <1>2, <2>1 DEF History, Local, DraftExtends
  <2>3. Stage(q)'
    BY <1>2 DEF History, Local, Stage, LeftBehind
  <2> QED
    BY <2>2, <2>3 DEF Local
<1>12. \A q \in Processes : Local(q)'
  BY <1>9, <1>10, <1>11 DEF Local
<1> QED
  BY <1>4, <1>8, <1>12 DEF History

(* Who does not hold the lock has decided nothing.                         *)
LEMMA Bystander ==
  ASSUME History, NEW p \in Processes, Holds(p), NEW q \in Processes, q # p
  PROVE  pc[q] \in {"idle", "called"} /\ draft[q] = Nothing
BY DEF History, Exclusive, OneWriter, Holds, Local, DraftExtends, Undecided

(* Having decided nothing, it has nothing to answer for.                   *)
LEMMA NothingLocal ==
  ASSUME NEW q \in Processes, pc'[q] \in {"idle", "called"}, draft'[q] = Nothing
  PROVE  Local(q)'
<1>1. /\ draft'[q].ledger = Empty /\ draft'[q].requests = {}
      /\ draft'[q].states = {} /\ draft'[q].runs = {}
  BY DEF Nothing
<1>2. DraftExtends(q)'
  BY <1>1 DEF DraftExtends
<1>3. Stage(q)'
  BY <1>1 DEF Stage
<1> QED
  BY <1>2, <1>3 DEF Local

(* A step of the holder of the lock that leaves the ledgers alone.         *)
LEMMA WriteHistory ==
  ASSUME History, NEW p \in Processes, Holds(p), NEW label \in Labels \ Undecided,
         Goto(p, label), pc[p] # "locked", Stage(p)',
         UNCHANGED <<clock, lock, ledgers, at, draft>>, Typed'
  PROVE  History'
<1>1. pc'[p] = label /\ \A q \in Processes \ {p} : pc'[q] = pc[q]
  BY DEF Goto, History, Typed, TypeOK
<1>2. LedgersDated'
  BY <1>1 DEF History, LedgersDated, Buildable, Labels, Undecided, Holds
<1>3. Exclusive'
  BY GoesOnExcludes DEF History
<1>4. Kept(p)' = Kept(p) /\ Base(p)' = Base(p) /\ Head' = Head
  BY DEF Kept, Base, Head
<1>5. DraftExtends(p)'
  BY <1>1, <1>4 DEF History, Local, DraftExtends, Undecided
<1>6. ASSUME NEW q \in Processes \ {p} PROVE Local(q)'
  BY <1>1, Bystander, NothingLocal
<1> QED
  BY <1>2, <1>3, <1>5, <1>6 DEF History, Local

(* The writes that leave the ledgers alone.                                *)
LEMMA WritesHistory ==
  ASSUME History, NEW p \in Processes,
         \/ WriteRequest(p) \/ WriteState(p) \/ WriteRound(p) \/ WriteRun(p)
         \/ CreateLedger(p) \/ PublishCurrent(p) \/ Confirm(p)
         \/ UndoRun(p) \/ UndoRound(p) \/ Fail(p)
  PROVE  History'
<1>1. /\ Holds(p) /\ pc[p] # "locked"
      /\ UNCHANGED <<clock, lock, ledgers, at, draft>>
  BY DEF WriteRequest, WriteState, WriteRound, WriteRun, CreateLedger, PublishCurrent, Confirm,
         UndoRun, UndoRound, Fail, Fails, Writes, Stands, Writing, Undoing, Holds, store
<1>2. Typed'
  BY WritesTyped DEF History
<1>3. Local(p) /\ DOMAIN pc = Processes
  BY DEF History, Exclusive
<1>4. \E label \in Labels \ Undecided : Goto(p, label) /\ Stage(p)'
  <2> USE <1>1, <1>3
      DEF Local, Stage, LeftBehind, DraftExtends, Writes, Stands, Goto, Labels, Undecided, Writing,
          Undoing
  <2>1. CASE WriteRequest(p)
    BY <2>1 DEF WriteRequest
  <2>2. CASE WriteState(p)
    BY <2>2 DEF WriteState, AfterState
  <2>3. CASE WriteRound(p)
    BY <2>3 DEF WriteRound
  <2>4. CASE WriteRun(p)
    BY <2>4 DEF WriteRun
  <2>5. CASE CreateLedger(p)
    BY <2>5 DEF CreateLedger
  <2>6. CASE PublishCurrent(p)
    BY <2>6 DEF PublishCurrent
  <2>7. CASE Confirm(p)
    BY <2>7 DEF Confirm
  <2>8. CASE UndoRun(p)
    BY <2>8 DEF UndoRun
  <2>9. CASE UndoRound(p)
    BY <2>9 DEF UndoRound
  <2>10. CASE Fail(p)
    <3>1. /\ Goto(p, Undo(p)) /\ Undo(p) \in Undoing \union {"failed"}
          /\ pc[p] \in Writing \union Undoing
      BY <2>10 DEF Fail, Fails, Undo
    <3>2. Undo(p) \in {"undo_ledger", "undo_run", "undo_round"} => draft[p].ledger # Empty
      BY <3>1 DEF Undo
    <3>3. Undo(p) = "undo_run" => draft[p].ledger \notin ledgers \/ LeftBehind(p)'
      BY <1>1, <2>10 DEF Fail, Fails, LeftBehind
    <3>4. Undo(p) = "undo_round" => pc[p] \in {"write_run", "undo_run"}
      BY DEF Undo
    <3>5. LeftBehind(p) => LeftBehind(p)'
      BY <1>1, <2>10 DEF Fail, Fails, LeftBehind
    <3>6. Undo(p) = "undo_round" => draft[p].ledger \notin ledgers \/ LeftBehind(p)'
      BY <3>4, <3>5
    <3>7. pc'[p] = Undo(p)
      BY <3>1
    <3> HIDE DEF DraftExtends
    <3>8. Stage(p)'
      BY <1>1, <3>1, <3>2, <3>3, <3>6, <3>7
    <3> QED
      BY <3>1, <3>8
  <2> QED
    BY <2>1, <2>2, <2>3, <2>4, <2>5, <2>6, <2>7, <2>8, <2>9, <2>10
<1> QED
  BY <1>1, <1>2, <1>4, WriteHistory

(* The ledger of the call appears, and goes.                               *)
LEMMA LedgerHistory ==
  ASSUME History, NEW p \in Processes, CompleteLedger(p) \/ FailToSync(p) \/ UndoLedger(p)
  PROVE  History'
<1>1. /\ Holds(p) /\ pc[p] \in {"complete_ledger", "undo_ledger"}
      /\ UNCHANGED <<clock, lock, at, draft>>
      /\ draft[p].ledger # Empty
  BY DEF CompleteLedger, FailToSync, Fails, UndoLedger, Writes, Stands, Holds, History, Local, Stage
<1>2. \E label \in {"publish_current", "done", "confirm", "undo_ledger", "undo_run"} : Goto(p, label)
  BY DEF CompleteLedger, FailToSync, Fails, Undo, Stands, UndoLedger
<1>3. /\ pc'[p] \in {"publish_current", "done", "confirm", "undo_ledger", "undo_run"}
      /\ \A q \in Processes \ {p} : pc'[q] = pc[q]
  BY <1>2 DEF Goto, History, Exclusive
<1>4. draft[p].ledger.built = at[p] /\ Buildable(draft[p].ledger) /\ at[p] \in 1..clock
  <2>1. DraftExtends(p)
    BY DEF History, Local
  <2>2. draft[p].ledger.built = at[p] /\ Buildable(draft[p].ledger)
    BY <1>1, <2>1 DEF DraftExtends
  <2>3. at[p] \in 1..clock
    BY <1>1 DEF History, Typed, CallTimes
  <2> QED
    BY <2>2, <2>3
<1>5. Typed' /\ Exclusive'
  BY WritesTyped, WritesExclude DEF History
<1>6. Kept(p)' = Kept(p) /\ Base(p)' = Base(p)
  BY <1>1 DEF CompleteLedger, FailToSync, UndoLedger, Kept, Base
<1>7. \/ draft[p].ledger \notin ledgers /\ ledgers' = ledgers \union {draft[p].ledger}
      \/ ledgers' = ledgers \ {draft[p].ledger}
  BY DEF CompleteLedger, FailToSync, UndoLedger, History, Local, Stage, Writes, Stands
<1>8. LedgersDated'
  <2>1. /\ \A l \in ledgers' : l.built \in 1..clock /\ Buildable(l)
    BY <1>1, <1>4, <1>7 DEF History, LedgersDated
  <2>2. \A k, l \in ledgers' : k.built = l.built => k = l
    BY <1>1, <1>4, <1>7 DEF History, LedgersDated, Holds
  <2>3. ASSUME NEW q \in Processes, pc'[q] # "idle", NEW l \in ledgers', l.built = at[q]
        PROVE  l = draft[q].ledger
    BY <2>3, <1>1, <1>3, <1>4, <1>7 DEF History, LedgersDated, Holds, Typed, CallTimes
  <2> QED
    BY <2>1, <2>2, <2>3, <1>1 DEF LedgersDated, Buildable
<1>9. DraftExtends(p)'
  BY <1>1, <1>3, <1>6 DEF History, Local, DraftExtends, Undecided
<1>10. Stage(p)'
  <2>1. CASE CompleteLedger(p)
    BY <1>1, <2>1 DEF CompleteLedger, Writes, Stands, Goto, History, Exclusive, Local, Stage, DraftExtends
  <2>2. CASE UndoLedger(p)
    BY <1>1, <2>2 DEF UndoLedger, Writes, Stands, Goto, History, Exclusive, Local, Stage
  <2>3. CASE FailToSync(p)
    <3>1. /\ pc'[p] = Undo(p) /\ Undo(p) \in {"undo_ledger", "undo_run"}
          /\ Undo(p) = "undo_run" => LeftBehind(p)'
      BY <1>1, <2>3 DEF FailToSync, Fails, Undo, Stands, Goto, History, Exclusive, LeftBehind
    <3> QED
      BY <1>1, <3>1 DEF Stage
  <2> QED
    BY <2>1, <2>2, <2>3
<1>11. ASSUME NEW q \in Processes \ {p} PROVE Local(q)'
  BY <1>1, <1>3, Bystander, NothingLocal
<1>12. \A q \in Processes : Local(q)'
  BY <1>9, <1>10, <1>11 DEF Local
<1> QED
  BY <1>5, <1>8, <1>12 DEF History

(* Every step.                                                             *)
LEMMA StepsHistory == History /\ [Next]_vars => History'
<1> SUFFICES ASSUME History, [Next]_vars PROVE History'
  OBVIOUS
<1>1. CASE UNCHANGED <<clock, ledgers, pc, at, draft, leftover>> /\ Typed' /\ Exclusive'
  <2>1. LedgersDated'
    BY <1>1 DEF History, LedgersDated, Buildable
  <2>2. Head' = Head /\ \A p \in Processes : Kept(p)' = Kept(p) /\ Base(p)' = Base(p)
    BY <1>1 DEF Head, Kept, Base
  <2>3. \A p \in Processes : DraftExtends(p)'
    BY <1>1, <2>2 DEF History, Local, DraftExtends
  <2>4. \A p \in Processes : Stage(p)'
    BY <1>1 DEF History, Local, Stage, LeftBehind
  <2> QED
    BY <1>1, <2>1, <2>3, <2>4 DEF History, Local
<1>2. CASE UNCHANGED vars
  BY <1>1, <1>2, StepsExclude
  DEF vars, store, History, Typed, TypeOK, CallTimes
<1>3. CASE RemoveOrphan
  BY <1>1, <1>3, StepsExclude
  DEF RemoveOrphan, store, History, Typed, TypeOK, CallTimes
<1>4. ASSUME NEW p \in Processes, Call(p) \/ Step(p) \/ Fail(p) \/ FailToSync(p) \/ Crash(p)
      PROVE  History'
  <2>1. CASE Record(p) \/ Preflight(p) \/ BlockPackage(p) \/ Assemble(p)
    BY <2>1, RecordPlanned, PreflightPlanned, BlockPackagePlanned, AssemblePlanned, PlanHistory
    DEF Record, Preflight, BlockPackage, Assemble
  <2> QED
    BY <1>4, <2>1, CallsHistory, WritesHistory, LedgerHistory DEF Step
<1> QED
  BY <1>2, <1>3, <1>4 DEF Next, Finished

(* So the history is always in order.                                      *)
LEMMA Histories == Spec => []History
BY InitHistory, StepsHistory, PTL DEF Spec

(* The state has its types in every behaviour: every head exists, is built *)
(* from typed entries, and every label is one of the code's.               *)
THEOREM TypesCorrect == Spec => []TypeOK
<1>1. History => TypeOK
  BY DEF History, Typed
<1> QED
  BY <1>1, Histories, PTL

-----------------------------------------------------------------------------
(* What has been written of a draft, and that no earlier ledger lists it.  *)
Written(p) ==
  /\ pc[p] = "write_run" => Rounds(draft[p].runs) \subseteq files.rounds
  /\ pc[p] \in {"create_ledger", "complete_ledger"} =>
       /\ draft[p].requests \subseteq files.requests /\ draft[p].runs \subseteq files.runs
       /\ Rounds(draft[p].runs) \subseteq files.rounds
  /\ pc[p] \in {"create_ledger", "complete_ledger", "confirm", "undo_ledger", "undo_run"} =>
       \A l \in Kept(p) : l.requests \intersect draft[p].requests \subseteq leftover.requests
  /\ pc[p] \in {"write_run", "create_ledger", "complete_ledger", "publish_current"} =>
       draft[p].states \subseteq states

Backed == LedgersBacked /\ \A p \in Processes : Written(p)

(* There is nothing to back at first.                                      *)
LEMMA InitBacked == Init => Backed
BY DEF Init, Backed, LedgersBacked, Written

(* The head a call has copied is one of the ledgers it found, or there was *)
(* none.                                                                   *)
LEMMA BaseKept ==
  ASSUME History, NEW p \in Processes
  PROVE  /\ Base(p) \in Kept(p) \/ (Kept(p) = {} /\ Base(p) = Empty)
         /\ \A l \in Kept(p) : l.built <= Base(p).built
<1>1. Kept(p) \subseteq Ledgers
  BY DEF Kept, History, Typed, TypeOK
<1> QED
  BY <1>1, NewestExists DEF Base, Newest

(* A run the call has made up is in none of the ledgers it found.          *)
LEMMA RunsApart ==
  ASSUME History, NEW p \in Processes, draft[p].ledger # Empty, NEW l \in Kept(p)
  PROVE  l.runs \intersect draft[p].runs = {}
<1>1. l \in Ledgers /\ Buildable(l) /\ l.built <= Base(p).built
  BY BaseKept DEF Kept, History, Typed, TypeOK, LedgersDated
<1>2. Base(p) \in Ledgers
  BY BaseKept, EmptyLedger DEF Kept, History, Typed, TypeOK
<1>3. DraftExtends(p) /\ at[p] \in 0..LastTime
  BY DEF History, Local, Typed, TypeOK
<1>4. CASE draft[p].requests # {}
  BY <1>3, <1>4 DEF DraftExtends
<1>5. CASE draft[p].requests = {}
  <2>1. Base(p).built < at[p] /\ \A run \in draft[p].runs : run.completed = at[p]
    BY <1>3, <1>5 DEF DraftExtends
  <2>2. l.built < at[p]
    BY <1>1, <1>2, <1>3, <2>1, BoundsAssumption DEF BoundsAssumption, Ledgers
  <2>3. \A run \in l.runs : run.completed < at[p]
    BY <1>1, <1>3, <2>2, BoundsAssumption DEF BoundsAssumption, Ledgers, Runs, Times, Buildable
  <2> QED
    BY <1>3, <2>1, <2>3, BoundsAssumption DEF BoundsAssumption
<1> QED
  BY <1>4, <1>5

(* Calls and plans touch neither files nor ledgers.                        *)
LEMMA CallsBacked ==
  ASSUME History, Backed, NEW p \in Processes,
         Call(p) \/ Acquire(p) \/ Refuse(p) \/ Reject(p) \/ GiveUp(p) \/ Return(p) \/ Crash(p)
  PROVE  Backed'
<1>1. UNCHANGED <<ledgers, files, states, leftover>>
  BY DEF Call, Acquire, Refuse, Reject, GiveUp, Return, Crash, store
<1>2. /\ pc'[p] \in {"idle", "called", "locked", "failed"}
      /\ \A q \in Processes \ {p} : pc'[q] = pc[q] /\ draft'[q] = draft[q]
  BY DEF Call, Acquire, Refuse, Reject, GiveUp, Return, Crash, Ended, Goto, History, Typed, TypeOK
<1>3. ASSUME NEW q \in Processes PROVE Written(q)'
  BY <1>1, <1>2 DEF Backed, Written, Kept
<1> QED
  BY <1>1, <1>3 DEF Backed, LedgersBacked

(* What is decided waits for its files.                                    *)
LEMMA PlanBacked ==
  ASSUME History, Backed, NEW p \in Processes, Planned(p)
  PROVE  Backed'
<1>1. PICK next \in Drafts, label \in {"write_request", "write_state", "write_round", "write_run", "done"} :
        Fits(p, next, label) /\ Plan(p, next, label)
  BY DEF Planned
<1>2. /\ UNCHANGED <<ledgers, files, states, leftover>> /\ draft'[p] = next /\ pc'[p] = label
      /\ \A q \in Processes \ {p} : pc'[q] = pc[q] /\ draft'[q] = draft[q]
  BY <1>1 DEF Plan, Goto, store, History, Typed, TypeOK
<1>3. Written(p)'
  BY <1>1, <1>2 DEF Fits, Written
<1>4. ASSUME NEW q \in Processes \ {p} PROVE Written(q)'
  BY <1>2 DEF Backed, Written, Kept
<1> QED
  BY <1>2, <1>3, <1>4 DEF Backed, LedgersBacked

(* A step of the holder of the lock answers for its own files only.        *)
LEMMA HolderBacked ==
  ASSUME History, Backed, NEW p \in Processes, Holds(p), NEW label, Goto(p, label),
         Written(p)', LedgersBacked'
  PROVE  Backed'
<1>1. \A q \in Processes \ {p} : pc'[q] = pc[q] /\ pc[q] \in {"idle", "called"}
  BY Bystander DEF Goto, History, Exclusive
<1>2. ASSUME NEW q \in Processes \ {p} PROVE Written(q)'
  BY <1>1 DEF Written
<1> QED
  BY <1>2 DEF Backed

(* The writes before the ledger add files only.                            *)
LEMMA WritesBacked ==
  ASSUME History, Backed, NEW p \in Processes,
         \/ WriteRequest(p) \/ WriteState(p) \/ WriteRound(p) \/ WriteRun(p)
         \/ CreateLedger(p) \/ PublishCurrent(p) \/ Confirm(p) \/ Fail(p)
  PROVE  Backed'
<1>1. /\ Holds(p) /\ UNCHANGED <<ledgers, draft>> /\ Kept(p)' = Kept(p)
  BY DEF WriteRequest, WriteState, WriteRound, WriteRun, CreateLedger, PublishCurrent, Confirm,
         Fail, Fails, Writes, Stands, Writing, Undoing, Holds, store, Kept
<1>2. /\ Stage(p) /\ DraftExtends(p) /\ Written(p) /\ LedgersBacked /\ DOMAIN pc = Processes
      /\ files \in [requests : SUBSET RequestSnapshots, runs : SUBSET Runs, rounds : SUBSET Runs]
  BY DEF History, Local, Backed, Exclusive, Typed, TypeOK
<1>3. /\ files.requests \subseteq files'.requests /\ files.runs \subseteq files'.runs
      /\ files.rounds \subseteq files'.rounds /\ states \subseteq states'
      /\ leftover.requests \subseteq leftover'.requests /\ leftover.runs \subseteq leftover'.runs
  <2>1. CASE Fail(p)
    BY <2>1 DEF Fail, Fails, store
  <2>2. CASE ~Fail(p)
    <3>1. UNCHANGED leftover
      BY <2>2
      DEF WriteRequest, WriteState, WriteRound, WriteRun, CreateLedger, PublishCurrent, Confirm,
          Writes
    <3>2. /\ files.requests \subseteq files'.requests /\ files.runs \subseteq files'.runs
          /\ files.rounds \subseteq files'.rounds /\ states \subseteq states'
      BY <1>2, <2>2
      DEF WriteRequest, WriteState, WriteRound, WriteRun, CreateLedger, PublishCurrent, Confirm,
          Writes, store
    <3> QED
      BY <3>1, <3>2
  <2> QED
    BY <2>1, <2>2
<1>4. LedgersBacked'
  BY <1>1, <1>2, <1>3 DEF LedgersBacked, Rounds
<1>5. \E label : Goto(p, label) /\ Written(p)'
  <2> USE <1>1, <1>2, <1>3 DEF Written, Writes, Stands, Goto
  <2>1. CASE WriteRequest(p)
    <3>1. CASE draft[p].requests \subseteq files.requests
      BY <2>1, <3>1 DEF WriteRequest
    <3>2. CASE ~(draft[p].requests \subseteq files.requests)
      <4>1. \A l \in Kept(p) : l.requests \intersect draft[p].requests \subseteq leftover.requests
        <5>1. PICK r \in draft[p].requests : draft[p].requests = {r} /\ r \notin files.requests
          BY <3>2 DEF DraftExtends
        <5>2. \A l \in ledgers : l.requests \ leftover.requests \subseteq files.requests
          BY DEF LedgersBacked
        <5> HIDE DEF Written
        <5> QED
          BY <5>1, <5>2 DEF Kept
      <4>2. draft[p].runs = {}
        BY <3>2 DEF DraftExtends
      <4>3. Rounds(draft[p].runs) = {}
        BY <4>2 DEF Rounds
      <4>4. draft[p].requests \subseteq files'.requests /\ Goto(p, "create_ledger")
        BY <2>1, <3>2 DEF WriteRequest
      <4> QED
        BY <3>2, <4>1, <4>2, <4>3, <4>4 DEF DraftExtends
    <3> QED
      BY <3>1, <3>2
  <2>2. CASE WriteState(p)
    BY <2>2 DEF WriteState, AfterState, Stage, DraftExtends
  <2>3. CASE WriteRound(p)
    BY <2>3 DEF WriteRound, Rounds, Stage
  <2>4. CASE WriteRun(p)
    BY <2>4 DEF WriteRun, Stage
  <2>5. CASE CreateLedger(p)
    BY <2>5 DEF CreateLedger
  <2>6. CASE PublishCurrent(p)
    BY <2>6 DEF PublishCurrent
  <2>7. CASE Confirm(p)
    BY <2>7 DEF Confirm
  <2>8. CASE Fail(p)
    <3>1. /\ pc'[p] = Undo(p) /\ pc[p] \in Writing \union Undoing
          /\ Undo(p) \in {"undo_ledger", "undo_run"} =>
               pc[p] \in {"create_ledger", "complete_ledger", "confirm", "undo_ledger"}
          /\ Undo(p) \in Undoing \union {"failed"}
      BY <2>8 DEF Fail, Fails, Undo, Undoing
    <3>2. pc'[p] \in {"undo_ledger", "undo_run"} =>
            \A l \in Kept(p) : l.requests \intersect draft[p].requests \subseteq leftover'.requests
      BY <3>1
    <3>3. Written(p)'
      BY <3>1, <3>2 DEF Undoing
    <3> QED
      BY <2>8, <3>3 DEF Fail, Fails
  <2> QED
    BY <2>1, <2>2, <2>3, <2>4, <2>5, <2>6, <2>7, <2>8
<1> QED
  BY <1>1, <1>4, <1>5, HolderBacked

(* Everything the new ledger lists has its file, if the call goes on or    *)
(* not.                                                                    *)
LEMMA CompleteBacked ==
  ASSUME History, Backed, NEW p \in Processes, CompleteLedger(p) \/ FailToSync(p)
  PROVE  Backed'
<1>1. /\ pc[p] = "complete_ledger" /\ Holds(p) /\ UNCHANGED <<files, states, draft>>
      /\ ledgers' = ledgers \union {draft[p].ledger}
      /\ Kept(p)' = Kept(p) /\ Kept(p) \subseteq ledgers
      /\ leftover.requests \subseteq leftover'.requests /\ leftover.runs \subseteq leftover'.runs
  BY DEF CompleteLedger, FailToSync, Fails, Writes, Stands, Holds, Kept, History, Typed, TypeOK
<1>2. Stage(p) /\ DraftExtends(p) /\ Written(p) /\ LedgersBacked
  BY DEF History, Local, Backed
<1>3. /\ draft[p].ledger.requests = Base(p).requests \union draft[p].requests
      /\ draft[p].ledger.runs = Base(p).runs \union draft[p].runs
  BY <1>1, <1>2 DEF Stage, DraftExtends
<1>4. LET runs == Base(p).runs \ leftover.runs
      IN /\ Base(p).requests \ leftover.requests \subseteq files.requests
         /\ runs \subseteq files.runs /\ Rounds(runs) \subseteq files.rounds
  <2>1. CASE Base(p) \in Kept(p)
    BY <1>1, <1>2, <2>1 DEF LedgersBacked
  <2>2. CASE Base(p) = Empty
    BY <2>2, EmptyLedger DEF Rounds
  <2> QED
    BY <2>1, <2>2, BaseKept
<1>5. LedgersBacked'
  <2>1. \A l \in ledgers :
          LET runs == l.runs \ leftover'.runs
          IN /\ l.requests \ leftover'.requests \subseteq files'.requests
             /\ runs \subseteq files'.runs /\ Rounds(runs) \subseteq files'.rounds
    BY <1>1, <1>2 DEF LedgersBacked, Rounds
  <2>2. LET runs == draft[p].ledger.runs \ leftover'.runs
        IN /\ draft[p].ledger.requests \ leftover'.requests \subseteq files'.requests
           /\ runs \subseteq files'.runs /\ Rounds(runs) \subseteq files'.rounds
    BY <1>1, <1>2, <1>3, <1>4 DEF Written, Rounds
  <2> QED
    BY <1>1, <2>1, <2>2 DEF LedgersBacked
<1>6. \E label \in {"publish_current", "done", "confirm", "undo_ledger", "undo_run"} : Goto(p, label)
  BY <1>1 DEF CompleteLedger, FailToSync, Fails, Undo
<1>7. Written(p)'
  BY <1>1, <1>2, <1>6 DEF Written, Goto, History, Exclusive
<1> QED
  BY <1>1, <1>5, <1>6, <1>7, HolderBacked

(* A rollback removes files that no ledger in place lists, but for those   *)
(* of an entry left behind.                                                 *)
LEMMA UndosBacked ==
  ASSUME History, Backed, NEW p \in Processes, UndoLedger(p) \/ UndoRun(p) \/ UndoRound(p)
  PROVE  Backed'
<1>1. /\ Holds(p) /\ UNCHANGED <<draft, leftover>> /\ ledgers' \subseteq ledgers
      /\ Kept(p)' = Kept(p)
  BY DEF UndoLedger, UndoRun, UndoRound, Writes, Stands, Holds, Kept
<1>2. /\ Stage(p) /\ DraftExtends(p) /\ Written(p) /\ LedgersBacked /\ DOMAIN pc = Processes
      /\ files \in [requests : SUBSET RequestSnapshots, runs : SUBSET Runs, rounds : SUBSET Runs]
  BY DEF History, Local, Backed, Exclusive, Typed, TypeOK
<1>3. CASE UndoLedger(p)
  <2>1. UNCHANGED files /\ Goto(p, "undo_run") /\ pc[p] = "undo_ledger"
    BY <1>3 DEF UndoLedger, Writes, Stands
  <2>2. LedgersBacked'
    BY <1>1, <1>2, <2>1 DEF LedgersBacked
  <2>3. Written(p)'
    BY <1>1, <1>2, <2>1 DEF Written, Goto
  <2> QED
    BY <1>1, <2>1, <2>2, <2>3, HolderBacked
<1>4. CASE UndoRun(p)
  <2>1. /\ files'.requests = files.requests \ draft[p].requests
        /\ files'.runs = files.runs \ draft[p].runs /\ files'.rounds = files.rounds
        /\ ledgers' = ledgers /\ pc[p] = "undo_run"
    BY <1>2, <1>4 DEF UndoRun, Writes, Stands
  <2>2. (ledgers = Kept(p) \/ LeftBehind(p)) /\ draft[p].ledger # Empty
    BY <1>2, <2>1 DEF Stage, Kept
  <2>3. \A l \in ledgers : /\ l.requests \intersect draft[p].requests \subseteq leftover.requests
                           /\ l.runs \intersect draft[p].runs \subseteq leftover.runs
    BY <1>2, <2>1, <2>2, RunsApart DEF Written, Kept, LeftBehind
  <2>4. LedgersBacked'
    BY <1>1, <1>2, <2>1, <2>3 DEF LedgersBacked
  <2>5. \E label \in {"undo_round", "failed"} : Goto(p, label)
    BY <1>4 DEF UndoRun
  <2>6. Written(p)'
    BY <1>2, <2>5 DEF Written, Goto
  <2> QED
    BY <1>1, <2>4, <2>5, <2>6, HolderBacked
<1>5. CASE UndoRound(p)
  <2>1. /\ files'.requests = files.requests /\ files'.runs = files.runs
        /\ files'.rounds = files.rounds \ draft[p].runs
        /\ ledgers' = ledgers /\ pc[p] = "undo_round" /\ Goto(p, "failed")
    BY <1>2, <1>5 DEF UndoRound, Writes, Stands
  <2>2. (ledgers = Kept(p) \/ LeftBehind(p)) /\ draft[p].ledger # Empty
    BY <1>2, <2>1 DEF Stage, Kept
  <2>3. \A l \in ledgers : l.runs \intersect draft[p].runs \subseteq leftover.runs
    BY <2>2, RunsApart DEF Kept, LeftBehind
  <2>4. LedgersBacked'
    BY <1>1, <1>2, <2>1, <2>3 DEF LedgersBacked, Rounds
  <2>5. Written(p)'
    BY <1>2, <2>1 DEF Written, Goto
  <2> QED
    BY <1>1, <2>1, <2>4, <2>5, HolderBacked
<1> QED
  BY <1>3, <1>4, <1>5

(* Every step.                                                             *)
LEMMA StepsBacked == History /\ Backed /\ [Next]_vars => Backed'
<1> SUFFICES ASSUME History, Backed, [Next]_vars PROVE Backed'
  OBVIOUS
<1>1. CASE UNCHANGED <<ledgers, files, states, pc, draft, leftover>>
  BY <1>1 DEF Backed, LedgersBacked, Written, Kept
<1>2. CASE UNCHANGED vars \/ RemoveOrphan
  BY <1>1, <1>2 DEF vars, store, RemoveOrphan
<1>3. ASSUME NEW p \in Processes, Call(p) \/ Step(p) \/ Fail(p) \/ FailToSync(p) \/ Crash(p)
      PROVE  Backed'
  <2>1. CASE Record(p) \/ Preflight(p) \/ BlockPackage(p) \/ Assemble(p)
    BY <2>1, RecordPlanned, PreflightPlanned, BlockPackagePlanned, AssemblePlanned, PlanBacked
  <2> QED
    BY <1>3, <2>1, CallsBacked, WritesBacked, CompleteBacked, UndosBacked DEF Step
<1> QED
  BY <1>2, <1>3 DEF Next, Finished

(* So the ledgers are always backed.                                       *)
LEMMA BackedAlways == Spec => []Backed
BY InitBacked, StepsBacked, Histories, PTL DEF Spec

(* A ledger file lists no request, run or round without its file, however  *)
(* many calls fail, in a rollback too, or die: but for the entries of the  *)
(* calls whose rollback has left a whole ledger file in place, because it  *)
(* could not be removed or the assembler had failed to sync it.            *)
THEOREM LedgersAlwaysBacked == Spec => []LedgersBacked
<1>1. Backed => LedgersBacked
  BY DEF Backed
<1> QED
  BY <1>1, BackedAlways, PTL

-----------------------------------------------------------------------------
(* How the head moves while a call holds the lock                          *)

(* Ledgers of different times have one newest.                             *)
LEMMA NewestUnique ==
  ASSUME NEW ls, ls \subseteq Ledgers, \A k, l \in ls : k.built = l.built => k = l,
         NEW m \in ls, \A l \in ls : l.built <= m.built
  PROVE  Newest(ls) = m
<1>1. Newest(ls) \in ls /\ \A k \in ls : k.built <= Newest(ls).built
  BY NewestExists
<1>2. Newest(ls).built \in Nat /\ m.built \in Nat
  BY <1>1, BoundsAssumption DEF BoundsAssumption, Ledgers
<1> QED
  BY <1>1, <1>2

(* A ledger in place adds to the head its call has copied, and is the head *)
(* unless it only records a request.                                       *)
Grows(p) ==
  /\ Head = Base(p) \/ Head = draft[p].ledger
  /\ draft[p].ledger \notin ledgers => Head = Base(p)
  /\ draft[p].ledger \in ledgers /\ draft[p].requests = {} => Head = draft[p].ledger
  /\ Base(p).requests \subseteq Head.requests /\ Base(p).runs \subseteq Head.runs

(* Whatever its label, a call's ledger does so.                            *)
LEMMA HeadGrows == History => \A p \in Processes : Grows(p)
<1> SUFFICES ASSUME History, NEW p \in Processes PROVE Grows(p)
  OBVIOUS
<1>1. CASE draft[p].ledger \notin ledgers
  <2>1. Kept(p) = ledgers
    BY <1>1 DEF Kept
  <2> QED
    BY <1>1, <2>1 DEF Grows, Head, Base
<1>2. CASE draft[p].ledger \in ledgers
  <2> DEFINE d == draft[p].ledger
             b == Base(p)
  <2>1. /\ d.built = at[p] /\ d.requests = b.requests \union draft[p].requests
        /\ d.runs = b.runs \union draft[p].runs
        /\ draft[p].requests = {} => b.built < at[p]
    <3>1. DraftExtends(p) /\ draft[p].ledger # Empty
      BY <1>2, EmptyUnlisted DEF History, Local
    <3> QED
      BY <3>1 DEF DraftExtends
  <2>2. /\ ledgers \subseteq Ledgers /\ \A k, l \in ledgers : k.built = l.built => k = l
        /\ Kept(p) = ledgers \ {d} /\ d.built \in Nat
    BY <1>2, BoundsAssumption DEF BoundsAssumption, History, Typed, TypeOK, LedgersDated, Kept, Ledgers
  <2>3. /\ b \in Kept(p) \/ (Kept(p) = {} /\ b.built = 0)
        /\ \A l \in Kept(p) : l.built <= b.built
        /\ b \in Ledgers /\ b.built \in Nat
    BY <2>2, BaseKept, EmptyLedger, BoundsAssumption DEF BoundsAssumption, Ledgers
  <2>4. \A l \in ledgers : l.built \in Nat
    BY <2>2, BoundsAssumption DEF BoundsAssumption, Ledgers
  <2>5. CASE b.built < d.built
    <3> HIDE DEF d, b
    <3>1. \A l \in ledgers : l.built <= d.built
      BY <2>2, <2>3, <2>4, <2>5
    <3>2. Head = d
      BY <1>2, <2>2, <3>1, NewestUnique DEF Head, d
    <3> QED
      BY <1>2, <2>1, <3>2 DEF Grows, d, b
  <2>6. CASE ~(b.built < d.built)
    <3> HIDE DEF d, b
    <3>1. d.built # 0
      BY <1>2 DEF d, History, LedgersDated
    <3>2. b \in ledgers /\ \A l \in ledgers : l.built <= b.built
      BY <2>2, <2>3, <2>4, <2>6, <3>1
    <3>3. Head = b
      BY <2>2, <3>2, NewestUnique DEF Head
    <3> QED
      BY <1>2, <2>1, <2>6, <3>3 DEF Grows, d, b
  <2> QED
    BY <2>5, <2>6
<1> QED
  BY <1>1, <1>2

(* A call that has the lock copies the head and decides, or goes on with   *)
(* the head it has copied and what it has decided.                         *)
Copies(q) ==
  /\ pc[q] \in {"called", "locked"} /\ UNCHANGED <<ledgers, acked, current, states, faults>>
  /\ Base(q)' = Head /\ \A p \in Processes : pc[p] \in Undecided
  /\ draft'[q] = Nothing \/ Fits(q, draft'[q], pc'[q])

GoesOn(q) ==
  /\ Holds(q) /\ draft'[q] = draft[q] /\ at'[q] = at[q] /\ Base(q)' = Base(q)
  /\ pc[q] = "done" => pc'[q] = "done"

(* Whoever holds the lock after a step does one or the other.              *)
LEMMA BaseSteps ==
  ASSUME History, [Next]_vars, NEW q \in Processes, Holds(q)'
  PROVE  Copies(q) \/ GoesOn(q)
<1>1. CASE UNCHANGED vars \/ RemoveOrphan
  BY <1>1 DEF vars, store, RemoveOrphan, Holds, Base, Kept, GoesOn
<1>2. ASSUME NEW p \in Processes, Call(p) \/ Step(p) \/ Fail(p) \/ FailToSync(p) \/ Crash(p)
      PROVE  Copies(q) \/ GoesOn(q)
  <2>1. CASE Record(p) \/ Preflight(p) \/ BlockPackage(p) \/ Assemble(p)
    <3>1. Planned(p) /\ pc[p] = "locked" /\ Holds(p) /\ DraftExtends(p)
      BY <2>1, RecordPlanned, PreflightPlanned, BlockPackagePlanned, AssemblePlanned
      DEF Record, Preflight, BlockPackage, Assemble, Stands, Holds, History, Local
    <3>2. PICK next \in Drafts, label \in {"write_request", "write_state", "write_round", "write_run", "done"} :
            Fits(p, next, label) /\ Plan(p, next, label)
      BY <3>1 DEF Planned
    <3>3. /\ UNCHANGED <<ledgers, acked, current, states, faults>>
          /\ draft'[p] = next /\ pc'[p] = label
          /\ \A r \in Processes \ {p} : pc'[r] = pc[r] /\ draft'[r] = draft[r]
      BY <3>2 DEF Plan, Goto, store, History, Typed, TypeOK
    <3>4. q = p /\ \A r \in Processes : pc[r] \in Undecided
      BY <3>1, <3>3, Bystander DEF Holds, Undecided
    <3>5. next.ledger \notin ledgers
      <4>1. draft[p].ledger = Empty
        BY <3>1, UndecidedNothing DEF Undecided
      <4>2. next.ledger # Empty => next.ledger.built = at[p]
        BY <3>2 DEF Fits, Extended
      <4> QED
        BY <3>1, <4>1, <4>2, EmptyUnlisted DEF History, LedgersDated
    <3>6. Base(p)' = Head
      <4>1. ledgers \ {next.ledger} = ledgers
        BY <3>5
      <4> QED
        BY <3>3, <4>1 DEF Base, Kept, Head
    <3> QED
      BY <3>1, <3>2, <3>3, <3>4, <3>6 DEF Copies
  <2>2. CASE Acquire(p)
    <3>1. /\ pc[p] = "called" /\ UNCHANGED <<ledgers, acked, current, states, faults, draft, at>>
          /\ \A r \in Processes \ {p} : pc'[r] = pc[r]
      BY <2>2 DEF Acquire, Stands, store, Goto, History, Exclusive
    <3>2. Base(p)' = Head
      <4>1. draft[p].ledger = Empty
        BY <3>1, UndecidedNothing DEF Undecided
      <4>2. ledgers \ {Empty} = ledgers
        BY EmptyUnlisted
      <4> QED
        BY <3>1, <4>1, <4>2 DEF Base, Kept, Head
    <3>3. draft[p] = Nothing
      BY <3>1, UndecidedNothing DEF Undecided
    <3>4. \A r \in Processes : pc[r] \in Undecided
      BY <2>2, LockAssumption DEF Acquire, History, Exclusive, OneWriter, Holds, Undecided
    <3> QED
      BY <3>1, <3>2, <3>3, <3>4 DEF Holds, Base, Kept, Copies, GoesOn
  <2>3. CASE Call(p) \/ Refuse(p) \/ Reject(p) \/ GiveUp(p) \/ Return(p) \/ Crash(p)
    <3>1. /\ UNCHANGED ledgers
          /\ \/ pc'[p] \in {"idle", "called"}
             \/ pc[p] = "locked" /\ draft'[p] = draft[p] /\ at'[p] = at[p]
          /\ \A r \in Processes \ {p} : pc'[r] = pc[r] /\ draft'[r] = draft[r] /\ at'[r] = at[r]
      BY <2>3
      DEF Call, Refuse, Reject, GiveUp, Return, Crash, Ended, Goto, Stands, store, History, Typed,
          TypeOK
    <3> QED
      BY <3>1 DEF Holds, Base, Kept, GoesOn
  <2>4. CASE \/ WriteRequest(p) \/ WriteState(p) \/ WriteRound(p) \/ WriteRun(p)
             \/ CreateLedger(p) \/ CompleteLedger(p) \/ PublishCurrent(p) \/ Confirm(p)
             \/ UndoLedger(p) \/ UndoRun(p) \/ UndoRound(p) \/ Fail(p) \/ FailToSync(p)
    <3>1. Holds(p) /\ UNCHANGED <<draft, at>> /\ pc[p] # "done" /\ ledgers' \ {draft[p].ledger} = ledgers \ {draft[p].ledger}
      BY <2>4
      DEF WriteRequest, WriteState, WriteRound, WriteRun, CreateLedger, CompleteLedger,
          PublishCurrent, Confirm, UndoLedger, UndoRun, UndoRound, Fail, FailToSync, Fails,
          Writes, Stands, Holds, Writing, Undoing, store
    <3>2. \E label : Goto(p, label)
      BY <2>4
      DEF WriteRequest, WriteState, WriteRound, WriteRun, CreateLedger, CompleteLedger,
          PublishCurrent, Confirm, UndoLedger, UndoRun, UndoRound, Fail,
          FailToSync, Fails
    <3>3. q = p
      BY <3>1, <3>2, Bystander DEF Goto, Holds, History, Exclusive
    <3> QED
      BY <3>1, <3>3 DEF Base, Kept, GoesOn
  <2> QED
    BY <1>2, <2>1, <2>2, <2>3, <2>4 DEF Step
<1> QED
  BY <1>1, <1>2 DEF Next, Finished

-----------------------------------------------------------------------------
(* The head names the runs of every receipt, and so does the head that the *)
(* holder of the lock has copied and may yet fall back to.                 *)
AckedKept ==
  /\ AckedRunsSurvive
  /\ \A p \in Processes : Holds(p) => acked.runs \subseteq Base(p).runs

(* Nothing is reported at first.                                           *)
LEMMA InitAcked == Init => AckedKept
BY DEF Init, AckedKept, AckedRunsSurvive, Holds

(* What a call is about to report, or to point at, is in the head.         *)
LEMMA ReceiptsListed ==
  ASSUME History, NEW p \in Processes, pc[p] \in {"publish_current", "done"}
  PROVE  draft[p].runs \subseteq Head.runs
<1>1. DraftExtends(p) /\ Stage(p) /\ Grows(p)
  BY HeadGrows DEF History, Local
<1>2. CASE draft[p].ledger = Empty
  BY <1>1, <1>2 DEF DraftExtends
<1>3. CASE draft[p].ledger # Empty /\ draft[p].requests # {}
  BY <1>1, <1>3 DEF DraftExtends
<1>4. CASE draft[p].ledger # Empty /\ draft[p].requests = {}
  <2>1. Head = draft[p].ledger
    BY <1>1, <1>4 DEF Stage, Grows
  <2> QED
    BY <1>1, <1>4, <2>1 DEF DraftExtends
<1> QED
  BY <1>2, <1>3, <1>4

(* The head moves only with a ledger file of the holder of the lock.       *)
LEMMA HeadSteps ==
  ASSUME History, [Next]_vars
  PROVE  \/ Head' = Head
         \/ \E p \in Processes : /\ CompleteLedger(p) \/ FailToSync(p)
                                /\ Holds(p) /\ Holds(p)' /\ UNCHANGED <<acked, draft>>
         \/ \E p \in Processes : UndoLedger(p) /\ Holds(p) /\ UNCHANGED <<acked, draft>> /\ Head' = Base(p)
<1>1. CASE UNCHANGED ledgers
  BY <1>1 DEF Head
<1>2. ASSUME NEW p \in Processes, CompleteLedger(p) \/ FailToSync(p)
      PROVE  Holds(p) /\ Holds(p)' /\ UNCHANGED <<acked, draft>>
  BY <1>2 DEF CompleteLedger, FailToSync, Fails, Undo, Writes, Stands, Holds, Goto, History, Exclusive
<1>3. ASSUME NEW p \in Processes, UndoLedger(p)
      PROVE  Holds(p) /\ UNCHANGED <<acked, draft>> /\ Head' = Base(p)
  BY <1>3 DEF UndoLedger, Writes, Stands, Holds, Base, Kept, Head
<1>4. ASSUME NEW p \in Processes, Call(p) \/ Step(p) \/ Fail(p) \/ FailToSync(p) \/ Crash(p)
      PROVE  UNCHANGED ledgers \/ CompleteLedger(p) \/ FailToSync(p) \/ UndoLedger(p)
  <2>1. CASE Record(p) \/ Preflight(p) \/ BlockPackage(p) \/ Assemble(p)
    BY <2>1 DEF Record, Preflight, BlockPackage, Assemble, Plan, store
  <2> QED
    BY <1>4, <2>1
    DEF Call, Step, Fail, Crash, Acquire, Refuse, Reject, GiveUp, Return, WriteRequest, WriteState,
        WriteRound, WriteRun, CreateLedger, PublishCurrent, Confirm, UndoRun, UndoRound, Writes, store
<1>5. CASE UNCHANGED vars \/ RemoveOrphan
  BY <1>1, <1>5 DEF vars, store, RemoveOrphan
<1> QED
  BY <1>1, <1>2, <1>3, <1>4, <1>5 DEF Next, Finished

(* Only a receipt adds to the runs that were reported.                     *)
LEMMA AckedSteps ==
  ASSUME History, [Next]_vars
  PROVE  \/ acked' = acked
         \/ /\ Head' = Head /\ acked'.runs \subseteq acked.runs \union Head.runs
            /\ \A q \in Processes : ~Holds(q)'
<1>1. CASE UNCHANGED vars \/ RemoveOrphan
  BY <1>1 DEF vars, RemoveOrphan
<1>2. ASSUME NEW p \in Processes, Return(p)
      PROVE  /\ Head' = Head /\ acked'.runs \subseteq acked.runs \union Head.runs
             /\ \A q \in Processes : ~Holds(q)'
  <2>1. pc[p] = "done" /\ Holds(p) /\ UNCHANGED ledgers /\ acked'.runs = acked.runs \union draft[p].runs
    BY <1>2 DEF Return, Stands, Holds, store
  <2>2. draft[p].runs \subseteq Head.runs
    BY <2>1, ReceiptsListed
  <2>3. /\ pc'[p] = "idle" /\ \A q \in Processes \ {p} : pc'[q] = pc[q] /\ pc[q] \in {"idle", "called"}
    BY <1>2, <2>1, Bystander DEF Return, Ended, Goto, History, Exclusive
  <2> QED
    BY <2>1, <2>2, <2>3 DEF Head, Holds
<1>3. ASSUME NEW p \in Processes, Call(p) \/ Step(p) \/ Fail(p) \/ FailToSync(p) \/ Crash(p)
      PROVE  acked' = acked \/ Return(p)
  <2>1. CASE Record(p) \/ Preflight(p) \/ BlockPackage(p) \/ Assemble(p)
    BY <2>1 DEF Record, Preflight, BlockPackage, Assemble, Plan
  <2> QED
    BY <1>3, <2>1
    DEF Call, Step, Fail, Crash, Acquire, Refuse, Reject, GiveUp, WriteRequest, WriteState,
        WriteRound, WriteRun, CreateLedger, CompleteLedger, PublishCurrent, Confirm, UndoLedger,
        UndoRun, UndoRound, FailToSync, Fails, Writes
<1> QED
  BY <1>1, <1>2, <1>3 DEF Next, Finished

(* Every step.                                                             *)
LEMMA StepsAcked ==
  History /\ (\A p \in Processes : Grows(p))' /\ AckedKept /\ [Next]_vars => AckedKept'
<1> SUFFICES ASSUME History, (\A p \in Processes : Grows(p))', AckedKept, [Next]_vars
             PROVE  AckedKept'
  OBVIOUS
<1>1. ASSUME NEW q \in Processes, Holds(q)', acked' = acked
      PROVE  (acked.runs \subseteq Base(q).runs)'
  BY <1>1, BaseSteps DEF AckedKept, AckedRunsSurvive, Copies, GoesOn
<1>2. CASE acked' = acked
  <2>2. acked'.runs \subseteq Head'.runs
    <3>1. CASE Head' = Head
      BY <1>2, <3>1 DEF AckedKept, AckedRunsSurvive
    <3>2. ASSUME NEW p \in Processes, CompleteLedger(p) \/ FailToSync(p), Holds(p), Holds(p)'
          PROVE  acked'.runs \subseteq Head'.runs
      <4>1. Grows(p)'
        OBVIOUS
      <4>2. (acked.runs \subseteq Base(p).runs)'
        BY <1>1, <1>2, <3>2
      <4> QED
        BY <4>1, <4>2 DEF Grows
    <3>3. ASSUME NEW p \in Processes, Holds(p), Head' = Base(p)
          PROVE  acked'.runs \subseteq Head'.runs
      BY <1>2, <3>3 DEF AckedKept
    <3> QED
      BY <3>1, <3>2, <3>3, HeadSteps
  <2> QED
    BY <1>1, <1>2, <2>2 DEF AckedKept, AckedRunsSurvive
<1>3. CASE /\ Head' = Head /\ acked'.runs \subseteq acked.runs \union Head.runs
           /\ \A q \in Processes : ~Holds(q)'
  BY <1>3 DEF AckedKept, AckedRunsSurvive
<1> QED
  BY <1>2, <1>3, AckedSteps

(* So a reported run is always in both.                                    *)
LEMMA AckedAlways == Spec => []AckedKept
BY InitAcked, StepsAcked, Histories, HeadGrows, PTL DEF Spec

(* A run that was reported to a caller is in the head of the history from  *)
(* then on, whatever times later calls have sampled and however they fail. *)
THEOREM ReportedRunsSurvive == Spec => []AckedRunsSurvive
<1>1. AckedKept => AckedRunsSurvive
  BY DEF AckedKept
<1> QED
  BY <1>1, AckedAlways, PTL

-----------------------------------------------------------------------------
(* The current preflights are recorded in a head.                          *)
RecordedIn(head) ==
  \A r \in DOMAIN current :
    /\ current[r].state \in states /\ current[r].state.request = r /\ r \in head.requests
    /\ current[r].state.blockers = Clear
         \/ \E run \in head.runs : /\ run.request = r /\ run.kind = "thesis_blocked"
                                   /\ run.blockers = current[r].state.blockers

(* What a preflight that is about to become current will be backed by.     *)
Preflighted(p) ==
  \A s \in draft[p].states :
    /\ s.request \in Base(p).requests
    /\ s.blockers # Clear => draft[p].runs # {}
    /\ \A run \in draft[p].runs :
         run.request = s.request /\ run.kind = "thesis_blocked" /\ run.blockers = s.blockers

(* Until its call is done, the head it may fall back to records them too.  *)
CurrentKept ==
  /\ RecordedIn(Head)
  /\ \A p \in Processes : Holds(p) =>
       Preflighted(p) /\ (pc[p] # "done" => RecordedIn(Base(p)))

(* No preflight is current at first.                                       *)
LEMMA InitCurrent == Init => CurrentKept
BY DEF Init, CurrentKept, RecordedIn, Holds

(* A head goes on recording current preflights that do not change.         *)
LEMMA RecordedSame ==
  ASSUME NEW head, RecordedIn(head), current' = current, states \subseteq states'
  PROVE  RecordedIn(head)'
BY DEF RecordedIn

(* The current preflights change by a publication only.                    *)
LEMMA CurrentSteps ==
  ASSUME History, [Next]_vars
  PROVE  \/ current' = current /\ states \subseteq states'
         \/ \E p \in Processes : PublishCurrent(p)
<1>1. CASE UNCHANGED vars \/ RemoveOrphan
  BY <1>1 DEF vars, store, RemoveOrphan
<1>2. ASSUME NEW p \in Processes, Call(p) \/ Step(p) \/ Fail(p) \/ FailToSync(p) \/ Crash(p)
      PROVE  (current' = current /\ states \subseteq states') \/ PublishCurrent(p)
  <2>1. CASE Record(p) \/ Preflight(p) \/ BlockPackage(p) \/ Assemble(p)
    BY <2>1 DEF Record, Preflight, BlockPackage, Assemble, Plan, store
  <2> QED
    BY <1>2, <2>1
    DEF Call, Step, Fail, Crash, Acquire, Refuse, Reject, GiveUp, Return, WriteRequest, WriteState,
        WriteRound, WriteRun, CreateLedger, CompleteLedger, Confirm, UndoLedger, UndoRun, UndoRound,
        FailToSync, store
<1> QED
  BY <1>1, <1>2 DEF Next, Finished

(* What becomes current is recorded in the head.                           *)
LEMMA PublishRecords ==
  ASSUME History, Backed, CurrentKept, NEW p \in Processes, PublishCurrent(p)
  PROVE  /\ RecordedIn(Head)' /\ Holds(p) /\ UNCHANGED <<ledgers, draft>>
         /\ pc'[p] = "done" \/ UNCHANGED <<current, states>>
<1>1. pc[p] = "publish_current" /\ Holds(p) /\ UNCHANGED <<ledgers, draft, states>> /\ Head' = Head
  BY DEF PublishCurrent, Writes, Stands, Holds, Head
<1>2. PICK state \in draft[p].states :
        \/ /\ current' = [r \in DOMAIN current \union {state.request} |->
                            IF r = state.request THEN [state |-> state, at |-> at[p]] ELSE current[r]]
           /\ Goto(p, "done")
        \/ UNCHANGED current
  BY DEF PublishCurrent
<1>3. CASE UNCHANGED current
  BY <1>1, <1>3, RecordedSame DEF CurrentKept
<1>4. CASE /\ current' = [r \in DOMAIN current \union {state.request} |->
                            IF r = state.request THEN [state |-> state, at |-> at[p]] ELSE current[r]]
           /\ Goto(p, "done")
  <2>1. state \in states
    BY <1>1 DEF Backed, Written
  <2>2. draft[p].runs \subseteq Head.runs /\ Base(p).requests \subseteq Head.requests
    BY <1>1, ReceiptsListed, HeadGrows DEF Grows
  <2>3. /\ state.request \in Head.requests
        /\ state.blockers = Clear
             \/ \E run \in Head.runs : /\ run.request = state.request /\ run.kind = "thesis_blocked"
                                       /\ run.blockers = state.blockers
    BY <1>1, <2>2 DEF CurrentKept, Preflighted
  <2>4. ASSUME NEW r \in DOMAIN current'
        PROVE  /\ current'[r].state \in states' /\ current'[r].state.request = r /\ r \in Head'.requests
               /\ current'[r].state.blockers = Clear
                    \/ \E run \in Head'.runs : /\ run.request = r /\ run.kind = "thesis_blocked"
                                               /\ run.blockers = current'[r].state.blockers
    <3>1. CASE r = state.request
      <4>1. current'[r].state = state
        BY <1>4, <3>1
      <4> QED
        BY <1>1, <2>1, <2>3, <3>1, <4>1
    <3>2. CASE r # state.request
      <4>1. current'[r] = current[r] /\ r \in DOMAIN current
        BY <1>4, <3>2
      <4> QED
        BY <1>1, <4>1 DEF CurrentKept, RecordedIn
    <3> QED
      BY <3>1, <3>2
  <2>5. RecordedIn(Head)'
    BY <2>4 DEF RecordedIn
  <2>6. pc'[p] = "done"
    BY <1>4 DEF Goto, History, Exclusive
  <2> QED
    BY <1>1, <2>5, <2>6
<1>5. pc'[p] = "done" \/ UNCHANGED current
  BY <1>2 DEF Goto, History, Exclusive
<1> QED
  BY <1>1, <1>2, <1>3, <1>4, <1>5

(* Every step.                                                             *)
LEMMA StepsCurrent ==
  History /\ Backed /\ (\A p \in Processes : Grows(p))' /\ CurrentKept /\ [Next]_vars => CurrentKept'
<1> SUFFICES ASSUME History, Backed, (\A p \in Processes : Grows(p))', CurrentKept, [Next]_vars
             PROVE  CurrentKept'
  OBVIOUS
<1>1. ASSUME NEW q \in Processes, Holds(q)'
      PROVE  Preflighted(q)'
  <2>1. CASE Copies(q)
    <3>1. CASE draft'[q] = Nothing
      BY <3>1 DEF Preflighted, Nothing
    <3>2. CASE Fits(q, draft'[q], pc'[q])
      BY <2>1, <3>2 DEF Preflighted, Fits, Copies
    <3> QED
      BY <2>1, <3>1, <3>2 DEF Copies
  <2>2. CASE GoesOn(q)
    BY <2>2 DEF CurrentKept, Preflighted, GoesOn
  <2> QED
    BY <1>1, <2>1, <2>2, BaseSteps
<1>2. ASSUME NEW q \in Processes, Holds(q)', pc'[q] # "done"
      PROVE  RecordedIn(Base(q))'
  <2>1. CASE Copies(q)
    BY <2>1, RecordedSame DEF CurrentKept, Copies, RecordedIn
  <2>2. CASE GoesOn(q)
    <3>1. RecordedIn(Base(q)) /\ Base(q)' = Base(q) /\ Holds(q)
      BY <1>2, <2>2 DEF CurrentKept, GoesOn
    <3>2. current' = current /\ states \subseteq states'
      <4>1. ASSUME NEW p \in Processes, PublishCurrent(p)
            PROVE  UNCHANGED <<current, states>>
        <5>1. p = q
          BY <3>1, <4>1, PublishRecords, Bystander DEF Holds
        <5> QED
          BY <1>2, <4>1, <5>1, PublishRecords
      <4> QED
        BY <4>1, CurrentSteps
    <3> QED
      BY <3>1, <3>2, RecordedSame DEF RecordedIn
  <2> QED
    BY <1>2, <2>1, <2>2, BaseSteps
<1>3. RecordedIn(Head)'
  <2>1. CASE current' = current /\ states \subseteq states'
    <3>1. CASE Head' = Head
      BY <2>1, <3>1 DEF CurrentKept, RecordedIn
    <3>2. ASSUME NEW p \in Processes, CompleteLedger(p) \/ FailToSync(p), Holds(p), Holds(p)', UNCHANGED draft
          PROVE  RecordedIn(Head)'
      <4>1. pc[p] = "complete_ledger" /\ Base(p)' = Base(p)
        BY <3>2 DEF CompleteLedger, FailToSync, Writes, Stands, Base, Kept
      <4>2. RecordedIn(Base(p))'
        BY <2>1, <3>2, <4>1, RecordedSame DEF CurrentKept, RecordedIn
      <4>3. Grows(p)'
        OBVIOUS
      <4> QED
        BY <4>2, <4>3 DEF Grows, RecordedIn
    <3>3. ASSUME NEW p \in Processes, UndoLedger(p), Holds(p), Head' = Base(p)
          PROVE  RecordedIn(Head)'
      <4>1. pc[p] = "undo_ledger"
        BY <3>3 DEF UndoLedger, Writes, Stands
      <4> QED
        BY <2>1, <3>3, <4>1 DEF CurrentKept, RecordedIn
    <3> QED
      BY <3>1, <3>2, <3>3, HeadSteps
  <2> QED
    BY <2>1, CurrentSteps, PublishRecords
<1> QED
  BY <1>1, <1>2, <1>3 DEF CurrentKept

(* So the current preflights are always recorded.                          *)
LEMMA CurrentAlways == Spec => []CurrentKept
BY InitCurrent, StepsCurrent, Histories, HeadGrows, BackedAlways, PTL DEF Spec

(* The current preflight of a request is in the store and so is all it     *)
(* claims: a state, a request of the head, and for a blocked one a run of  *)
(* the history with the same blockers.                                     *)
THEOREM CurrentAlwaysRecorded == Spec => []CurrentRecorded
<1>1. CurrentKept => CurrentRecorded
  BY DEF CurrentKept, RecordedIn, CurrentRecorded, Of
<1> QED
  BY <1>1, CurrentAlways, PTL

-----------------------------------------------------------------------------
(* Every blocked preflight of the history is at most as late as the        *)
(* current preflight of its request.                                       *)
OverruledIn(runs) ==
  \A run \in runs : run.kind = "thesis_blocked" =>
    run.request \in DOMAIN current /\ run.completed <= current[run.request].at

(* But for the one whose pointer is about to move, if nothing has failed.  *)
OverruledKept ==
  faults = 0 =>
    /\ (\A p \in Processes : pc[p] # "publish_current") => OverruledIn(Head.runs)
    /\ \A p \in Processes : Holds(p) => OverruledIn(Base(p).runs)

(* No preflight is blocked at first.                                       *)
LEMMA InitOverruled == Init => OverruledKept
<1>1. Init => Head.runs = {}
  BY EmptyLedger DEF Init, Head, Newest
<1> QED
  BY <1>1 DEF Init, OverruledKept, OverruledIn, Holds

(* The steps that are not a failure.                                       *)
LEMMA FaultlessSteps ==
  ASSUME History, [Next]_vars, faults' = 0
  PROVE  /\ faults = 0
         /\ \/ /\ UNCHANGED current
               /\ \A p \in Processes : pc[p] = "publish_current" => pc'[p] = "publish_current"
            \/ \E p \in Processes : PublishCurrent(p)
<1>1. CASE UNCHANGED vars \/ RemoveOrphan
  BY <1>1 DEF vars, store, RemoveOrphan
<1>2. ASSUME NEW p \in Processes, Call(p) \/ Step(p)
      PROVE  /\ faults = 0
             /\ \/ /\ UNCHANGED current
                   /\ \A q \in Processes : pc[q] = "publish_current" => pc'[q] = "publish_current"
                \/ PublishCurrent(p)
  <2>1. CASE Record(p) \/ Preflight(p) \/ BlockPackage(p) \/ Assemble(p)
    <3>1. \E label : Goto(p, label)
      <4>1. CASE Record(p)
        BY <4>1 DEF Record, Plan
      <4>2. CASE Preflight(p)
        BY <4>2 DEF Preflight, Plan
      <4>3. CASE BlockPackage(p)
        BY <4>3 DEF BlockPackage, Plan
      <4>4. CASE Assemble(p)
        BY <4>4 DEF Assemble, Plan
      <4> QED
        BY <2>1, <4>1, <4>2, <4>3, <4>4
    <3>2. pc[p] = "locked" /\ UNCHANGED <<current, faults>>
      BY <2>1 DEF Record, Preflight, BlockPackage, Assemble, Plan, store, Stands
    <3> QED
      BY <3>1, <3>2 DEF Goto, History, Exclusive
  <2>2. CASE \/ Call(p) \/ Acquire(p) \/ Refuse(p) \/ Reject(p) \/ GiveUp(p) \/ Return(p)
    BY <2>2 DEF Call, Acquire, Refuse, Reject, GiveUp, Return, Ended, Goto, Stands, store, History, Exclusive
  <2>3. CASE \/ WriteRequest(p) \/ WriteState(p) \/ WriteRound(p) \/ WriteRun(p)
             \/ CreateLedger(p) \/ CompleteLedger(p) \/ Confirm(p)
             \/ UndoLedger(p) \/ UndoRun(p) \/ UndoRound(p)
    <3>1. UNCHANGED <<current, faults>> /\ pc[p] # "publish_current" /\ \E label : Goto(p, label)
      BY <2>3
      DEF WriteRequest, WriteState, WriteRound, WriteRun, CreateLedger, CompleteLedger,
          Confirm, UndoLedger, UndoRun, UndoRound, Writes, Stands, store
    <3> QED
      BY <3>1 DEF Goto, History, Exclusive
  <2>4. PublishCurrent(p) => UNCHANGED faults
    BY DEF PublishCurrent, Writes
  <2> QED
    BY <1>2, <2>1, <2>2, <2>3, <2>4 DEF Step
<1>3. ASSUME NEW p \in Processes, Fail(p) \/ FailToSync(p) \/ Crash(p)
      PROVE  FALSE
  BY <1>3 DEF Fail, FailToSync, Fails, Crash, History, Typed, TypeOK
<1> QED
  BY <1>1, <1>2, <1>3 DEF Next, Finished

(* What a ledger in place has listed beyond the head its call has copied.  *)
LEMMA HeadAdds ==
  ASSUME History, NEW p \in Processes
  PROVE  Head.runs \subseteq Base(p).runs \union draft[p].runs
<1>1. DraftExtends(p) /\ Grows(p)
  BY HeadGrows DEF History, Local
<1>2. CASE draft[p].ledger = Empty
  <2>1. Head = Base(p)
    BY <1>1, <1>2, EmptyUnlisted DEF Grows
  <2> QED
    BY <2>1
<1>3. CASE draft[p].ledger # Empty
  BY <1>1, <1>3 DEF DraftExtends, Grows
<1> QED
  BY <1>2, <1>3

(* A pointer that moves catches up with the run of its preflight, and one  *)
(* that does not is later already.                                         *)
LEMMA PublishOverrules ==
  ASSUME History, CurrentKept, NEW p \in Processes, PublishCurrent(p), OverruledIn(Base(p).runs)
  PROVE  OverruledIn(Base(p).runs)' /\ OverruledIn(Head.runs)'
<1>1. /\ pc[p] = "publish_current" /\ Holds(p) /\ UNCHANGED <<ledgers, draft>>
      /\ Head' = Head /\ Base(p)' = Base(p)
  BY DEF PublishCurrent, Writes, Stands, Holds, Head, Base, Kept
<1>2. PICK state \in draft[p].states :
        IF Moves(state, at[p])
        THEN current' = [r \in DOMAIN current \union {state.request} |->
                           IF r = state.request THEN [state |-> state, at |-> at[p]] ELSE current[r]]
        ELSE UNCHANGED current
  BY DEF PublishCurrent
<1>3. at[p] \in Nat /\ \A r \in DOMAIN current : current[r].at \in Nat
  BY DEF History, Typed, TypeOK, Times
<1>4. state.request \in DOMAIN current' /\ at[p] <= current'[state.request].at
  BY <1>2, <1>3 DEF Moves
<1>5. \A r \in DOMAIN current : r \in DOMAIN current' /\ current[r].at <= current'[r].at
  BY <1>2, <1>3 DEF Moves
<1>6. \A run \in Base(p).runs \union draft[p].runs : run.completed \in Nat
  <2>1. draft[p] \in Drafts /\ ledgers \subseteq Ledgers
    BY DEF History, Typed, TypeOK
  <2>2. Base(p) \in Ledgers
    BY <2>1, NewestTyped DEF Base, Kept
  <2> QED
    BY <2>1, <2>2 DEF Drafts, Ledgers, Runs, Times
<1>7. ASSUME NEW run \in Base(p).runs, run.kind = "thesis_blocked"
      PROVE  run.request \in DOMAIN current' /\ run.completed <= current'[run.request].at
  <2>1. run.request \in DOMAIN current /\ run.completed <= current[run.request].at
    BY <1>7 DEF OverruledIn
  <2>2. current'[run.request].at \in Nat
    BY <1>2, <1>3, <2>1 DEF Moves
  <2> QED
    BY <1>3, <1>5, <1>6, <2>1, <2>2
<1>8. CASE draft[p].ledger = Empty
  <2>1. Head = Base(p)
    BY <1>8, HeadGrows, EmptyUnlisted DEF Grows
  <2> QED
    BY <1>1, <1>7, <2>1 DEF OverruledIn
<1>9. CASE draft[p].ledger # Empty
  <2>1. \A run \in draft[p].runs : run.completed = at[p] /\ run.request = state.request
    BY <1>1, <1>9 DEF History, Local, DraftExtends, Stage, CurrentKept, Preflighted
  <2>2. \A run \in Head.runs : run \in Base(p).runs \/ run \in draft[p].runs
    BY HeadAdds
  <2> QED
    BY <1>1, <1>4, <1>7, <2>1, <2>2 DEF OverruledIn
<1> QED
  BY <1>8, <1>9

(* Every step.                                                             *)
LEMMA StepsOverrule ==
  History /\ History' /\ CurrentKept /\ OverruledKept /\ [Next]_vars => OverruledKept'
<1> SUFFICES ASSUME History, History', CurrentKept, OverruledKept, [Next]_vars, faults' = 0
             PROVE  /\ (\A p \in Processes : pc'[p] # "publish_current") => OverruledIn(Head.runs)'
                    /\ \A p \in Processes : Holds(p)' => OverruledIn(Base(p).runs)'
  BY DEF OverruledKept
<1>1. faults = 0
  BY FaultlessSteps
<1>2. ASSUME NEW p \in Processes, PublishCurrent(p)
      PROVE  OverruledIn(Head.runs)' /\ \A q \in Processes : Holds(q)' => OverruledIn(Base(q).runs)'
  <2>1. Holds(p) /\ \E label : Goto(p, label)
    BY <1>2 DEF PublishCurrent, Writes, Stands, Holds
  <2>2. \A q \in Processes : Holds(q)' => q = p
    BY <2>1, Bystander DEF Goto, Holds, History, Exclusive
  <2> QED
    BY <1>1, <1>2, <2>1, <2>2, PublishOverrules DEF OverruledKept
<1>3. CASE /\ UNCHANGED current
           /\ \A p \in Processes : pc[p] = "publish_current" => pc'[p] = "publish_current"
  <2>1. ASSUME NEW q \in Processes, Holds(q)'
        PROVE  OverruledIn(Base(q).runs)'
    <3>1. CASE Copies(q)
      <4>1. \A p \in Processes : pc[p] # "publish_current"
        BY <3>1 DEF Copies, Undecided
      <4> QED
        BY <1>1, <1>3, <3>1, <4>1 DEF OverruledKept, OverruledIn, Copies
    <3>2. CASE GoesOn(q)
      BY <1>1, <1>3, <3>2 DEF OverruledKept, OverruledIn, GoesOn
    <3> QED
      BY <2>1, <3>1, <3>2, BaseSteps
  <2>2. ASSUME \A p \in Processes : pc'[p] # "publish_current"
        PROVE  OverruledIn(Head.runs)'
    <3>1. OverruledIn(Head.runs)
      BY <1>1, <1>3, <2>2 DEF OverruledKept
    <3>2. CASE Head' = Head
      BY <1>3, <3>1, <3>2 DEF OverruledIn
    <3>3. ASSUME NEW p \in Processes, CompleteLedger(p) \/ FailToSync(p), Holds(p), Holds(p)'
          PROVE  OverruledIn(Head.runs)'
      <4>1. draft[p].states = {} /\ draft' = draft
        BY <1>1, <2>2, <3>3, BoundsAssumption
        DEF BoundsAssumption, CompleteLedger, FailToSync, Fails, Writes, Goto, History, Exclusive
      <4>2. \A run \in draft'[p].runs : run.kind # "thesis_blocked"
        BY <4>1 DEF History, Local, DraftExtends
      <4>3. \A run \in Head'.runs : run \in Base(p)'.runs \/ run \in draft'[p].runs
        <5>1. (History => Head.runs \subseteq Base(p).runs \union draft[p].runs)'
          BY HeadAdds, PTL
        <5> QED
          BY <5>1
      <4> QED
        BY <2>1, <3>3, <4>2, <4>3 DEF OverruledIn
    <3>4. ASSUME NEW p \in Processes, UndoLedger(p), Holds(p), Head' = Base(p)
          PROVE  OverruledIn(Head.runs)'
      BY <1>1, <1>3, <3>4 DEF OverruledKept, OverruledIn
    <3> QED
      BY <3>2, <3>3, <3>4, HeadSteps
  <2> QED
    BY <2>1, <2>2
<1> QED
  BY <1>2, <1>3, FaultlessSteps

(* So no blocked preflight overtakes the pointer of its request.           *)
LEMMA OverruledAlways == Spec => []OverruledKept
BY InitOverruled, StepsOverrule, Histories, CurrentAlways, PTL DEF Spec

(* A round is never assembled from a ready preflight that a later blocked  *)
(* one has overruled, as long as no call failed or died halfway.           *)
THEOREM RoundsFollowLatest == Spec => []AssemblesLatestReady
<1>1. History /\ OverruledKept => AssemblesLatestReady
  <2> SUFFICES ASSUME History, OverruledKept, faults = 0, NEW p \in Processes,
                      NEW round \in Rounds(draft[p].runs), NEW run \in Of(round.request),
                      run.kind = "thesis_blocked"
               PROVE  run.completed <= current[round.request].at
    BY DEF AssemblesLatestReady
  <2>1. DraftExtends(p)
    BY DEF History, Local
  <2>2. draft[p].states = {} /\ draft[p].runs # {}
    BY <2>1 DEF DraftExtends, Rounds
  <2>3. Holds(p)
    BY <2>2, UndecidedNothing DEF Holds, Undecided, Nothing
  <2>4. run \in Base(p).runs /\ run.request = round.request
    BY <2>1, <2>2, HeadAdds DEF DraftExtends, Of
  <2> QED
    BY <2>3, <2>4 DEF OverruledKept, OverruledIn
<1> QED
  BY <1>1, Histories, OverruledAlways, PTL
=============================================================================
