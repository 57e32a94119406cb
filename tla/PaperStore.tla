----------------------------- MODULE PaperStore -----------------------------
(***************************************************************************)
(* PaperTradingStore of paper/state.py and the processes that open its     *)
(* SQLite file: each initialises the database, restores the portfolio and  *)
(* the open orders, trades a session and commits it, and may die and start *)
(* again between any two steps.                                            *)
(*                                                                         *)
(* SQLite is external and modelled by what the code relies on: one write   *)
(* transaction at a time (BEGIN IMMEDIATE), a commit that publishes all of *)
(* a transaction's rows or none, primary keys, and a rollback when the     *)
(* connection dies.  Schema creation is an executescript, which ends the   *)
(* transaction opened before it: initialize reads and inserts the metadata *)
(* without the lock.                                                       *)
(*                                                                         *)
(* Data: one ticker, orders of one share, named by the date they are       *)
(* created on; a fill has its order's name.  The account is the number of  *)
(* shares held.  A collision-free digest is the value digested, tagged; a  *)
(* state hash is the sequence of payload hashes it chains.  The trading    *)
(* itself is not part of src and is modelled as tests/unit/                *)
(* test_paper_state.py uses the store.                                     *)
(***************************************************************************)
EXTENDS Naturals, Sequences, FiniteSets, SequencesExt

CONSTANTS
  Processes,   \* processes that open the database
  Runs,        \* run identities
  NoRun,       \* a database without metadata
  RunOf,       \* the run each process initialises the database for
  LastDate,    \* bound: sessions are dated 1..LastDate
  MaxCrashes,  \* bound on the crashes of a behaviour
  MaxDamage    \* bound on accidental changes to stored rows

ASSUME RunsAssumption == NoRun \notin Runs /\ RunOf \in [Processes -> Runs]
ASSUME ProcessesAssumption == "none" \notin Processes
ASSUME BoundsAssumption == LastDate \in Nat /\ MaxCrashes \in Nat /\ MaxDamage \in Nat

Dates == 1..LastDate
Statuses == {"pending", "filled", "cancelled"}

(* The canonical payload: the orders changed in the session with their     *)
(* state after it, its fills and the account.                              *)
Payloads ==
  [date : Dates, orders : UNION {[ids -> Statuses] : ids \in SUBSET Dates},
   fills : SUBSET Dates, account : Nat]

(* What a trading process keeps in memory between sessions.                *)
Blank == [last |-> 0, account |-> 0, open |-> {}]
NoPayload == [date |-> 0, orders |-> << >>, fills |-> {}, account |-> 0]

VARIABLES
  metadata,   \* table metadata, NoRun while it is empty
  sessions,   \* table sessions, in the order of its sequence column
  index,      \* table committed_fills
  writer,     \* the process in a write transaction, or "none"
  pc,         \* where each process stands
  seen,       \* the metadata an initialising process has read
  memory,     \* the state a process trades on
  call,       \* the payload of its last commit_session
  staged,     \* the row its transaction has inserted, not yet committed
  crashes,    \* crashes so far
  damage      \* accidental changes so far

tables == <<metadata, sessions, index>>
local == <<seen, memory, call, staged>>
vars == <<tables, writer, pc, local, crashes, damage>>

PayloadHash(p) == [digest |-> p]
GenesisHash == << >>
StateHash(previous, hash) == Append(previous, hash)

(* The chain restarted with every session: a mutant of LatestHash.         *)
LatestHashForgotten == GenesisHash

LatestHash == IF sessions = << >> THEN GenesisHash ELSE Last(sessions).state_hash

Row(p) ==
  [date |-> p.date, payload |-> p, payload_hash |-> PayloadHash(p),
   previous_hash |-> LatestHash, state_hash |-> StateHash(LatestHash, PayloadHash(p))]
-----------------------------------------------------------------------------
(* verify_integrity                                                        *)

PayloadFills(rows) == UNION {rows[i].payload.fills : i \in DOMAIN rows}

PreviousHash(rows, i) == IF i = 1 THEN GenesisHash ELSE rows[i - 1].state_hash

(* Payloads taken on trust: a mutant of RowIntact.                         *)
RowUnread(rows, i) ==
  /\ i > 1 => rows[i - 1].date < rows[i].date
  /\ rows[i].previous_hash = PreviousHash(rows, i)
  /\ rows[i].state_hash = StateHash(PreviousHash(rows, i), rows[i].payload_hash)

RowIntact(rows, i) ==
  /\ i > 1 => rows[i - 1].date < rows[i].date
  /\ rows[i].previous_hash = PreviousHash(rows, i)
  /\ rows[i].payload_hash = PayloadHash(rows[i].payload)
  /\ rows[i].state_hash = StateHash(PreviousHash(rows, i), rows[i].payload_hash)

FillsIntact(rows, fills) ==
  /\ fills = PayloadFills(rows)
  /\ \A i, j \in DOMAIN rows :
       i # j => rows[i].payload.fills \intersect rows[j].payload.fills = {}

(* The verdict on the session rows and the fill index that were read.      *)
Verifies(rows, fills) ==
  (\A i \in DOMAIN rows : RowIntact(rows, i)) /\ FillsIntact(rows, fills)
-----------------------------------------------------------------------------
(* The restored portfolio and open orders                                  *)

(* ORDER BY sequence without DESC: a mutant of Checkpoint.                 *)
FirstCheckpoint(rows) == IF rows = << >> THEN NoPayload ELSE Head(rows).payload

Checkpoint(rows) == IF rows = << >> THEN NoPayload ELSE Last(rows).payload

Mentions(rows, id) == {i \in DOMAIN rows : id \in DOMAIN rows[i].payload.orders}
KnownOrders(rows) == {id \in Dates : Mentions(rows, id) # {}}

(* The first state of an order wins: a mutant of LatestState.              *)
FirstState(rows, id) ==
  LET i == CHOOSE n \in Mentions(rows, id) : \A m \in Mentions(rows, id) : n <= m
  IN rows[i].payload.orders[id]

(* Later sessions overwrite the state of an order.                         *)
LatestState(rows, id) ==
  LET i == CHOOSE n \in Mentions(rows, id) : \A m \in Mentions(rows, id) : n >= m
  IN rows[i].payload.orders[id]

OpenOrders(rows) == {id \in KnownOrders(rows) : LatestState(rows, id) = "pending"}
-----------------------------------------------------------------------------
Init ==
  /\ metadata = NoRun /\ sessions = << >> /\ index = {}
  /\ writer = "none"
  /\ pc = [p \in Processes |-> "start"]
  /\ seen = [p \in Processes |-> NoRun]
  /\ memory = [p \in Processes |-> Blank]
  /\ call = [p \in Processes |-> NoPayload]
  /\ staged = [p \in Processes |-> << >>]
  /\ crashes = 0 /\ damage = 0

Goto(p, step) == pc' = [pc EXCEPT ![p] = step]

(* initialize: BEGIN IMMEDIATE waits for the lock, the schema script gives *)
(* it back, and the metadata is read outside of any transaction.           *)
ReadMetadata(p) ==
  /\ pc[p] = "start" /\ writer = "none"
  /\ seen' = [seen EXCEPT ![p] = metadata]
  /\ Goto(p, "identify")
  /\ UNCHANGED <<tables, writer, memory, call, staged, crashes, damage>>

(* INSERT OR REPLACE: a mutant of InsertMetadata.                          *)
ReplaceMetadata(p) == metadata' = RunOf[p] /\ Goto(p, "ready")

(* The primary key of metadata refuses the second of two initialisers.     *)
InsertMetadata(p) ==
  IF metadata = NoRun
  THEN metadata' = RunOf[p] /\ Goto(p, "ready")
  ELSE metadata' = metadata /\ Goto(p, "failed")

Identify(p) ==
  /\ pc[p] = "identify"
  /\ IF seen[p] = NoRun
     THEN writer = "none" /\ InsertMetadata(p)
     ELSE /\ Goto(p, IF seen[p] = RunOf[p] THEN "ready" ELSE "refused")
          /\ UNCHANGED metadata
  /\ UNCHANGED <<sessions, index, writer, local, crashes, damage>>

(* restore_portfolio reads the last row ...                                *)
RestorePortfolio(p) ==
  /\ pc[p] = "ready"
  /\ LET latest == Checkpoint(sessions)
     IN memory' = [memory EXCEPT ![p].last = latest.date, ![p].account = latest.account]
  /\ Goto(p, "restoring")
  /\ UNCHANGED <<tables, writer, seen, call, staged, crashes, damage>>

(* ... and restore_open_orders, on a connection of its own, all of them.   *)
RestoreOpenOrders(p) ==
  /\ pc[p] = "restoring"
  /\ memory' = [memory EXCEPT ![p].open = OpenOrders(sessions)]
  /\ Goto(p, "trading")
  /\ UNCHANGED <<tables, writer, seen, call, staged, crashes, damage>>

(* A session: perhaps a new order, every open order attempted, the account *)
(* moved by the fills.                                                     *)
Trade(p) ==
  /\ pc[p] = "trading"
  /\ \E d \in (memory[p].last + 1)..LastDate :
       \E ids \in {memory[p].open, memory[p].open \union {d}} :
         \E outcome \in [ids -> Statuses] :
           LET filled == {id \in ids : outcome[id] = "filled"}
           IN /\ call' = [call EXCEPT ![p] =
                   [date |-> d, orders |-> outcome, fills |-> filled,
                    account |-> memory[p].account + Cardinality(filled)]]
              /\ memory' = [memory EXCEPT ![p] =
                   [last |-> d, account |-> memory[p].account + Cardinality(filled),
                    open |-> {id \in ids : outcome[id] = "pending"}]]
  /\ Goto(p, "begin")
  /\ UNCHANGED <<tables, writer, seen, staged, crashes, damage>>
-----------------------------------------------------------------------------
(* commit_session                                                          *)

(* A deferred BEGIN: a mutant of Lock.                                     *)
LockDeferred(p) == writer' = p

(* BEGIN IMMEDIATE: one write transaction at a time.                       *)
Lock(p) == writer = "none" /\ writer' = p

Begin(p) ==
  /\ pc[p] = "begin"
  /\ Lock(p)
  /\ Goto(p, "decide")
  /\ UNCHANGED <<tables, local, crashes, damage>>

SameDate(p) == {i \in DOMAIN sessions : sessions[i].date = call[p].date}

Increasing(p) == sessions # << >> => Last(sessions).date < call[p].date

(* The fill index ignored: a mutant of FreshFills.                         *)
AnyFills(p) == TRUE

FreshFills(p) == call[p].fills \intersect index = {}

(* The locals of a call that raised, and of a process that died.           *)
Forget(p) ==
  /\ seen' = [seen EXCEPT ![p] = NoRun]
  /\ memory' = [memory EXCEPT ![p] = Blank]
  /\ call' = [call EXCEPT ![p] = NoPayload]
  /\ staged' = [staged EXCEPT ![p] = << >>]

EndTransaction(p, step) == writer' = "none" /\ Goto(p, step)

(* An identical retry gets the checkpoint of the session it recorded.      *)
AnswerRetry(p) ==
  /\ pc[p] = "decide"
  /\ \E i \in SameDate(p) : sessions[i].payload_hash = PayloadHash(call[p])
  /\ EndTransaction(p, "returned")
  /\ UNCHANGED <<tables, local, crashes, damage>>

(* A different payload for a recorded date, a date that is not later, or a *)
(* fill recorded before roll the transaction back.                         *)
RejectCommit(p) ==
  /\ pc[p] = "decide"
  /\ \/ \E i \in SameDate(p) : sessions[i].payload_hash # PayloadHash(call[p])
     \/ SameDate(p) = {} /\ ~Increasing(p)
     \/ SameDate(p) = {} /\ Increasing(p) /\ ~FreshFills(p)
  /\ EndTransaction(p, "failed")
  /\ Forget(p)
  /\ UNCHANGED <<tables, crashes, damage>>

InsertSession(p) ==
  /\ pc[p] = "decide"
  /\ SameDate(p) = {} /\ Increasing(p) /\ FreshFills(p)
  /\ staged' = [staged EXCEPT ![p] = <<Row(call[p])>>]
  /\ Goto(p, "commit")
  /\ UNCHANGED <<tables, writer, seen, memory, call, crashes, damage>>

(* The session and its fills become visible together.                      *)
Commit(p) ==
  /\ pc[p] = "commit"
  /\ sessions' = sessions \o staged[p]
  /\ index' = index \union call[p].fills
  /\ staged' = [staged EXCEPT ![p] = << >>]
  /\ EndTransaction(p, "returned")
  /\ UNCHANGED <<metadata, seen, memory, call, crashes, damage>>

(* The caller goes on, or did not get the answer and calls again.          *)
Proceed(p) ==
  /\ pc[p] = "returned"
  /\ Goto(p, "trading")
  /\ call' = [call EXCEPT ![p] = NoPayload]
  /\ UNCHANGED <<tables, writer, seen, memory, staged, crashes, damage>>

Retry(p) ==
  /\ pc[p] = "returned"
  /\ Goto(p, "begin")
  /\ UNCHANGED <<tables, writer, local, crashes, damage>>
-----------------------------------------------------------------------------
(* A process dies, in a transaction or not, and starts from nothing.       *)
Crash(p) ==
  /\ crashes < MaxCrashes /\ pc[p] # "start"
  /\ crashes' = crashes + 1
  /\ writer' = IF writer = p THEN "none" ELSE writer
  /\ Goto(p, "start")
  /\ Forget(p)
  /\ UNCHANGED <<tables, damage>>

(* A stored payload changes by accident, with or without its hash.         *)
Damage ==
  /\ damage < MaxDamage /\ writer = "none"
  /\ damage' = damage + 1
  /\ \E i \in DOMAIN sessions :
       LET altered == [sessions[i].payload EXCEPT !.account = @ + 1]
       IN \/ sessions' = [sessions EXCEPT ![i].payload = altered]
          \/ sessions' = [sessions EXCEPT ![i].payload = altered,
                                          ![i].payload_hash = PayloadHash(altered)]
  /\ UNCHANGED <<metadata, index, writer, pc, local, crashes>>

(* Every process has been refused, has failed or has no session left.      *)
Finished ==
  /\ \A p \in Processes :
       pc[p] \in {"refused", "failed"} \/ (pc[p] = "trading" /\ memory[p].last >= LastDate)
  /\ UNCHANGED vars

Work(p) ==
  \/ ReadMetadata(p)
  \/ Identify(p)
  \/ RestorePortfolio(p)
  \/ RestoreOpenOrders(p)
  \/ Trade(p)
  \/ Begin(p)
  \/ AnswerRetry(p)
  \/ RejectCommit(p)
  \/ InsertSession(p)
  \/ Commit(p)
  \/ Proceed(p)
  \/ Retry(p)

Faults == (\E p \in Processes : Crash(p)) \/ Damage

Next == (\E p \in Processes : Work(p)) \/ Faults \/ Finished

Spec == Init /\ [][Next]_vars
-----------------------------------------------------------------------------
Steps == {"start", "identify", "ready", "restoring", "trading", "begin", "decide",
          "commit", "returned", "failed", "refused"}

OpenSteps == Steps \ {"start", "identify", "refused", "failed"}

PayloadType == Payloads \union {NoPayload}
HashType == [digest : Payloads]
RowType == [date : Dates, payload : Payloads, payload_hash : HashType,
            previous_hash : Seq(HashType), state_hash : Seq(HashType)]

(* The tables and every process's own state have their types, and the      *)
(* write lock is held exactly by a process inside its transaction.         *)
TypeOK ==
  /\ metadata \in Runs \union {NoRun}
  /\ sessions \in Seq(RowType) /\ index \subseteq Dates
  /\ pc \in [Processes -> Steps]
  /\ seen \in [Processes -> Runs \union {NoRun}]
  /\ memory \in [Processes -> [last : 0..LastDate, account : Nat, open : SUBSET Dates]]
  /\ call \in [Processes -> PayloadType]
  /\ \A p \in Processes : staged[p] = << >> \/ (Len(staged[p]) = 1 /\ staged[p][1] \in RowType)
  /\ \A p \in Processes : pc[p] \in {"decide", "commit"} <=> writer = p
  /\ writer \in Processes \union {"none"}
  /\ crashes \in 0..MaxCrashes /\ damage \in 0..MaxDamage

(* What was committed, read off the hash chain.                            *)
Committed == [i \in DOMAIN sessions |-> sessions[i].state_hash[i].digest]

(* Transactions of any number of processes, their crashes and retries add  *)
(* up to an append-only journal of one run: no session is rewritten,       *)
(* inserted out of order or recorded twice, no fill counted twice.         *)
Journal == INSTANCE PaperJournal WITH identity <- metadata, journal <- Committed

JournalKept == Journal!Spec

(* Whatever the interleaving, the committed tables agree at every instant: *)
(* an intact chain, and a fill index that matches it.  (What a reader sees *)
(* that reads one table after the other is the matter of Reconciliation.)  *)
TablesAgree == damage = 0 => Verifies(sessions, index)

(* A process that got past initialize works on a database of its own run,  *)
(* although the metadata is read and written without the lock.             *)
IdentityAccepted == \A p \in Processes : pc[p] \in OpenSteps => metadata = RunOf[p]

(* One process that crashes anywhere, restores and retries: the account of *)
(* the latest checkpoint is the number of shares its fills bought, so a    *)
(* session is neither lost nor applied twice.                              *)
AccountExplained ==
  damage = 0 => Checkpoint(sessions).account = Cardinality(PayloadFills(sessions))

(* A single process trades on exactly what is recorded, after a restart as *)
(* after its own commit: it never attempts a settled order again and       *)
(* forgets none that is open.                                              *)
ResumesRecorded ==
  \A p \in Processes : pc[p] = "trading" /\ damage = 0 =>
    memory[p] = [last |-> Checkpoint(sessions).date, account |-> Checkpoint(sessions).account,
                 open |-> OpenOrders(sessions)]
=============================================================================
