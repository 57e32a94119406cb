-------------------------- MODULE PaperStore_proofs --------------------------
(***************************************************************************)
(* Proofs about PaperStore, for any number of processes, runs, dates,      *)
(* crashes and accidents.                                                  *)
(*                                                                         *)
(* The invariant has four layers.  Types and calls: what a process has     *)
(* staged is the row for the tables as they are, because nobody else       *)
(* writes while it holds the lock.  Identity: the metadata, once written,  *)
(* never change, so what an initialiser has read still stands.  The chain: *)
(* every state hash tags the payloads of all sessions up to its own, with  *)
(* increasing dates and disjoint fills, whatever has been damaged since.   *)
(* With one process for each run also the process: at each of its steps    *)
(* its memory is what the tables record, or its call continues it.         *)
(***************************************************************************)
EXTENDS PaperStore, FiniteSetTheorems, SequenceTheorems, WellFoundedInduction, TLAPS
-----------------------------------------------------------------------------
(* Data                                                                    *)

(* What one canonical payload consists of.                                 *)
LEMMA PayloadParts ==
  ASSUME NEW c \in Payloads
  PROVE  /\ c.date \in Dates /\ c.fills \subseteq Dates /\ c.account \in Nat
         /\ DOMAIN c.orders \subseteq Dates
         /\ \A id \in DOMAIN c.orders : c.orders[id] \in Statuses
<1>1. c.orders \in UNION {[ids -> Statuses] : ids \in SUBSET Dates}
  BY DEF Payloads
<1>2. PICK ids \in SUBSET Dates : c.orders \in [ids -> Statuses]
  BY <1>1
<1> QED BY <1>2 DEF Payloads

LEMMA RowParts ==
  ASSUME NEW r \in RowType
  PROVE  /\ r.date \in Dates /\ r.payload \in Payloads /\ r.payload_hash \in HashType
         /\ r.previous_hash \in Seq(HashType) /\ r.state_hash \in Seq(HashType)
  BY DEF RowType

LEMMA DatesAreNumbers == Dates \subseteq Nat \ {0} /\ IsFiniteSet(Dates) /\ LastDate \in Nat
<1>1. LastDate \in Nat
  BY BoundsAssumption DEF BoundsAssumption
<1> QED BY <1>1, FS_Interval DEF Dates

LEMMA HashTyped ==
  ASSUME NEW c \in Payloads
  PROVE  PayloadHash(c) \in HashType /\ PayloadHash(c).digest = c
  BY DEF PayloadHash, HashType

(* The row a session is recorded in.                                       *)
LEMMA RowTyped ==
  ASSUME sessions \in Seq(RowType), NEW c \in Payloads
  PROVE  /\ Row(c) \in RowType /\ LatestHash \in Seq(HashType)
         /\ Row(c).date = c.date /\ Row(c).payload = c /\ Row(c).payload_hash = PayloadHash(c)
         /\ Row(c).previous_hash = LatestHash
         /\ Row(c).state_hash = Append(LatestHash, PayloadHash(c))
<1>1. LatestHash \in Seq(HashType)
  <2>1. CASE sessions = << >>
    BY <2>1 DEF LatestHash, GenesisHash
  <2>2. CASE sessions # << >>
    <3>1. Len(sessions) \in DOMAIN sessions
      BY <2>2
    <3>2. sessions[Len(sessions)] \in RowType
      BY <3>1
    <3> QED BY <2>2, <3>2, RowParts DEF LatestHash, Last
  <2> QED BY <2>1, <2>2
<1>2. c.date \in Dates /\ PayloadHash(c) \in HashType
  BY PayloadParts, HashTyped
<1>3. Append(LatestHash, PayloadHash(c)) \in Seq(HashType)
  BY <1>1, <1>2
<1> HIDE DEF LatestHash, PayloadHash
<1> QED BY <1>1, <1>2, <1>3 DEF Row, StateHash, RowType
-----------------------------------------------------------------------------
(* The inductive type invariant                                            *)

MemoryType == [last : 0..LastDate, account : Nat, open : SUBSET Dates]

InCall == {"begin", "decide", "commit", "returned"}

(* A process in commit_session has a payload to commit, and the row staged *)
(* by its transaction is the one for the tables as they are.               *)
Calls ==
  /\ staged = [p \in Processes |-> staged[p]]
  /\ \A p \in Processes : pc[p] \in InCall => call[p] \in Payloads
  /\ \A p \in Processes :
       IF pc[p] = "commit"
       THEN staged[p] = <<Row(call[p])>> /\ Increasing(p) /\ FreshFills(p) /\ SameDate(p) = {}
       ELSE staged[p] = << >>

IInv == TypeOK /\ Calls

(* A step of one process leaves the others where they are.                 *)
Moves(p) ==
  /\ pc' \in [Processes -> Steps]
  /\ seen' \in [Processes -> Runs \union {NoRun}]
  /\ memory' \in [Processes -> MemoryType]
  /\ call' \in [Processes -> PayloadType]
  /\ staged' = [q \in Processes |-> staged'[q]]
  /\ \A q \in Processes \ {p} :
       /\ pc'[q] = pc[q] /\ seen'[q] = seen[q] /\ memory'[q] = memory[q]
       /\ call'[q] = call[q] /\ staged'[q] = staged[q]

(* It keeps the invariant if what it leaves behind of the process is in    *)
(* order, and the tables a transaction of another relies on stay.          *)
LEMMA MoveKeepsIInv ==
  ASSUME IInv, NEW p \in Processes, Moves(p), UNCHANGED <<sessions, index>>,
         metadata' \in Runs \union {NoRun}, crashes' \in 0..MaxCrashes, UNCHANGED damage,
         writer' \in Processes \union {"none"},
         pc'[p] \in {"decide", "commit"} <=> writer' = p,
         \A q \in Processes \ {p} : writer' = q <=> writer = q,
         pc'[p] \in InCall => call'[p] \in Payloads,
         IF pc'[p] = "commit"
         THEN /\ staged'[p] = <<Row(call'[p])>>
              /\ sessions # << >> => Last(sessions).date < call'[p].date
              /\ call'[p].fills \intersect index = {}
              /\ {i \in DOMAIN sessions : sessions[i].date = call'[p].date} = {}
         ELSE staged'[p] = << >>
  PROVE  IInv'
<1>1. Calls'
  <2>1. \A c : Row(c)' = Row(c')
    BY DEF Row, LatestHash, GenesisHash
  <2>2. ASSUME NEW q \in Processes, q # p
        PROVE  /\ pc'[q] \in InCall => call'[q] \in Payloads
               /\ IF pc'[q] = "commit"
                  THEN /\ staged'[q] = <<Row(call'[q])>>
                       /\ sessions # << >> => Last(sessions).date < call'[q].date
                       /\ call'[q].fills \intersect index = {}
                       /\ {i \in DOMAIN sessions : sessions[i].date = call'[q].date} = {}
                  ELSE staged'[q] = << >>
    BY <2>2 DEF Moves, IInv, Calls, Increasing, FreshFills, SameDate
  <2>3. \A q \in Processes : pc'[q] \in InCall => call'[q] \in Payloads
    BY <2>2
  <2>4. \A q \in Processes :
          IF pc'[q] = "commit"
          THEN /\ staged'[q] = <<Row(call'[q])>>
               /\ sessions # << >> => Last(sessions).date < call'[q].date
               /\ call'[q].fills \intersect index = {}
               /\ {i \in DOMAIN sessions : sessions[i].date = call'[q].date} = {}
          ELSE staged'[q] = << >>
    BY <2>2
  <2> QED BY <2>3, <2>4 DEF Calls, Moves, Row, LatestHash, GenesisHash, Increasing, FreshFills, SameDate
<1>2. TypeOK'
  <2>1. \A q \in Processes : staged'[q] = << >> \/ (Len(staged'[q]) = 1 /\ staged'[q][1] \in RowType)
    <3> TAKE q \in Processes
    <3>1. CASE pc'[q] = "commit"
      <4>1. staged'[q] = <<Row(call'[q])>> /\ call'[q] \in Payloads
        BY <3>1 DEF Moves, IInv, Calls, InCall
      <4>2. PICK c \in Payloads : c = call'[q]
        BY <4>1
      <4>3. Row(c) \in RowType
        BY RowTyped DEF IInv, TypeOK
      <4> QED BY <4>1, <4>2, <4>3
    <3>2. CASE pc'[q] # "commit"
      BY <3>2 DEF Moves, IInv, Calls
    <3> QED BY <3>1, <3>2
  <2>2. \A q \in Processes : pc'[q] \in {"decide", "commit"} <=> writer' = q
    BY DEF Moves, IInv, TypeOK
  <2>3. /\ sessions' \in Seq(RowType) /\ index' \subseteq Dates /\ damage' \in 0..MaxDamage
    BY DEF IInv, TypeOK
  <2> QED BY <2>1, <2>2, <2>3 DEF Moves, TypeOK, MemoryType
<1> QED BY <1>1, <1>2 DEF IInv
-----------------------------------------------------------------------------
(* The steps of one process                                                *)

LEMMA LastTyped ==
  ASSUME sessions \in Seq(RowType), sessions # << >>
  PROVE  /\ Len(sessions) \in DOMAIN sessions /\ DOMAIN sessions = 1..Len(sessions)
         /\ Last(sessions) = sessions[Len(sessions)] /\ Last(sessions) \in RowType
<1>1. Len(sessions) \in 1..Len(sessions) /\ DOMAIN sessions = 1..Len(sessions)
  OBVIOUS
<1>2. sessions[Len(sessions)] \in RowType
  BY <1>1
<1> QED BY <1>1, <1>2 DEF Last

LEMMA CheckpointTyped ==
  ASSUME sessions \in Seq(RowType)
  PROVE  Checkpoint(sessions).date \in 0..LastDate /\ Checkpoint(sessions).account \in Nat
<1>1. CASE sessions = << >>
  BY <1>1, DatesAreNumbers DEF Checkpoint, NoPayload
<1>2. CASE sessions # << >>
  <2>1. Last(sessions).payload \in Payloads
    BY <1>2, LastTyped, RowParts
  <2>2. Checkpoint(sessions) = Last(sessions).payload
    BY <1>2 DEF Checkpoint
  <2> QED BY <2>1, <2>2, PayloadParts DEF Dates
<1> QED BY <1>1, <1>2

(* The typed parts of the state, as one fact.                              *)
LEMMA Parts ==
  ASSUME IInv
  PROVE  /\ metadata \in Runs \union {NoRun} /\ sessions \in Seq(RowType) /\ index \subseteq Dates
         /\ pc \in [Processes -> Steps]
         /\ seen \in [Processes -> Runs \union {NoRun}]
         /\ memory \in [Processes -> MemoryType]
         /\ call \in [Processes -> PayloadType]
         /\ staged = [p \in Processes |-> staged[p]]
         /\ \A p \in Processes : pc[p] \in {"decide", "commit"} <=> writer = p
         /\ writer \in Processes \union {"none"}
         /\ crashes \in 0..MaxCrashes
         /\ \A p \in Processes : RunOf[p] \in Runs
  BY RunsAssumption DEF RunsAssumption, IInv, TypeOK, Calls, MemoryType

(* A trading process calls commit_session with a payload.                  *)
LEMMA TradeTyped ==
  ASSUME IInv, NEW p \in Processes, Trade(p)
  PROVE  \E c \in Payloads, m \in MemoryType :
           call' = [call EXCEPT ![p] = c] /\ memory' = [memory EXCEPT ![p] = m]
<1>0. PICK d \in (memory[p].last + 1)..LastDate :
        \E ids \in {memory[p].open, memory[p].open \union {d}} : \E outcome \in [ids -> Statuses] :
          LET filled == {id \in ids : outcome[id] = "filled"}
          IN /\ call' = [call EXCEPT ![p] =
                  [date |-> d, orders |-> outcome, fills |-> filled,
                   account |-> memory[p].account + Cardinality(filled)]]
             /\ memory' = [memory EXCEPT ![p] =
                  [last |-> d, account |-> memory[p].account + Cardinality(filled),
                   open |-> {id \in ids : outcome[id] = "pending"}]]
  BY DEF Trade
<1>1. PICK ids \in {memory[p].open, memory[p].open \union {d}} : \E outcome \in [ids -> Statuses] :
          LET filled == {id \in ids : outcome[id] = "filled"}
          IN /\ call' = [call EXCEPT ![p] =
                  [date |-> d, orders |-> outcome, fills |-> filled,
                   account |-> memory[p].account + Cardinality(filled)]]
             /\ memory' = [memory EXCEPT ![p] =
                  [last |-> d, account |-> memory[p].account + Cardinality(filled),
                   open |-> {id \in ids : outcome[id] = "pending"}]]
  BY <1>0
<1>2. PICK outcome \in [ids -> Statuses] :
          LET filled == {id \in ids : outcome[id] = "filled"}
          IN /\ call' = [call EXCEPT ![p] =
                  [date |-> d, orders |-> outcome, fills |-> filled,
                   account |-> memory[p].account + Cardinality(filled)]]
             /\ memory' = [memory EXCEPT ![p] =
                  [last |-> d, account |-> memory[p].account + Cardinality(filled),
                   open |-> {id \in ids : outcome[id] = "pending"}]]
  BY <1>1
<1>3. PICK filled : filled = {id \in ids : outcome[id] = "filled"}
  OBVIOUS
<1>4. PICK account : account = memory[p].account + Cardinality(filled)
  OBVIOUS
<1>5. memory[p] \in MemoryType
  BY Parts
<1>6. d \in Dates /\ d \in 0..LastDate
  BY <1>5, DatesAreNumbers DEF MemoryType, Dates
<1>7. ids \subseteq Dates
  BY <1>5, <1>6 DEF MemoryType
<1>8. filled \subseteq Dates
  BY <1>3, <1>7
<1>9. Cardinality(filled) \in Nat
  BY <1>8, DatesAreNumbers, FS_Subset, FS_CardinalityType
<1>10. account \in Nat
  <2>1. memory[p].account \in Nat
    BY <1>5 DEF MemoryType
  <2> QED BY <1>4, <1>9, <2>1
<1>11. [date |-> d, orders |-> outcome, fills |-> filled, account |-> account] \in Payloads
  <2>1. outcome \in UNION {[s -> Statuses] : s \in SUBSET Dates}
    BY <1>7
  <2> QED BY <1>6, <1>8, <1>10, <2>1 DEF Payloads
<1>12. [last |-> d, account |-> account, open |-> {id \in ids : outcome[id] = "pending"}] \in MemoryType
  BY <1>6, <1>7, <1>10 DEF MemoryType
<1> QED BY <1>2, <1>3, <1>4, <1>11, <1>12

LEMMA BlankTyped == Blank \in MemoryType /\ NoPayload \in PayloadType
  BY DatesAreNumbers DEF Blank, MemoryType, PayloadType

(* Every step of a process moves it alone.                                 *)
LEMMA WorkMoves ==
  ASSUME IInv, NEW p \in Processes, Work(p) \/ Crash(p)
  PROVE  Moves(p)
<1> USE Parts
<1> USE DEF Goto, Moves, Steps
<1>1. CASE ReadMetadata(p)
  BY <1>1 DEF ReadMetadata
<1>2. CASE Identify(p)
  BY <1>2 DEF Identify, InsertMetadata, local
<1>3. CASE RestorePortfolio(p)
  <2>1. /\ memory' = [memory EXCEPT ![p].last = Checkpoint(sessions).date,
                                    ![p].account = Checkpoint(sessions).account]
    BY <1>3 DEF RestorePortfolio
  <2>2. \A m \in MemoryType, d \in 0..LastDate, a \in Nat :
          [m EXCEPT !.last = d, !.account = a] \in MemoryType
    BY DEF MemoryType
  <2>3. PICK d \in 0..LastDate, a \in Nat :
          d = Checkpoint(sessions).date /\ a = Checkpoint(sessions).account
    BY CheckpointTyped
  <2>4. PICK m \in MemoryType : m = [memory[p] EXCEPT !.last = d, !.account = a]
    BY <2>2
  <2>5. memory' = [memory EXCEPT ![p] = m]
    BY <2>1, <2>3, <2>4
  <2>6. pc' = [pc EXCEPT ![p] = "restoring"] /\ UNCHANGED <<seen, call, staged>>
    BY <1>3 DEF RestorePortfolio
  <2> QED BY <2>5, <2>6
<1>4. CASE RestoreOpenOrders(p)
  <2>1. OpenOrders(sessions) \subseteq Dates
    BY DEF OpenOrders, KnownOrders
  <2>2. \A m \in MemoryType, ids \in SUBSET Dates : [m EXCEPT !.open = ids] \in MemoryType
    BY DEF MemoryType
  <2>3. PICK m \in MemoryType : m = [memory[p] EXCEPT !.open = OpenOrders(sessions)]
    BY <2>1, <2>2
  <2>4. memory' = [memory EXCEPT ![p] = m]
    BY <1>4, <2>3 DEF RestoreOpenOrders
  <2> QED BY <1>4, <2>4 DEF RestoreOpenOrders
<1>5. CASE Trade(p)
  <2>1. PICK c \in Payloads, m \in MemoryType :
           call' = [call EXCEPT ![p] = c] /\ memory' = [memory EXCEPT ![p] = m]
    BY <1>5, TradeTyped
  <2>2. pc' = [pc EXCEPT ![p] = "begin"] /\ UNCHANGED <<seen, staged>>
    BY <1>5 DEF Trade
  <2> QED BY <2>1, <2>2 DEF PayloadType
<1>6. CASE Begin(p)
  BY <1>6 DEF Begin, local
<1>7. CASE AnswerRetry(p)
  BY <1>7 DEF AnswerRetry, EndTransaction, local
<1>8. CASE RejectCommit(p)
  BY <1>8, BlankTyped DEF RejectCommit, EndTransaction, Forget
<1>9. CASE InsertSession(p)
  BY <1>9 DEF InsertSession
<1>10. CASE Commit(p)
  BY <1>10 DEF Commit, EndTransaction
<1>11. CASE Proceed(p)
  BY <1>11, BlankTyped DEF Proceed
<1>12. CASE Retry(p)
  BY <1>12 DEF Retry, local
<1>13. CASE Crash(p)
  BY <1>13, BlankTyped DEF Crash, Forget
<1> QED BY <1>1, <1>2, <1>3, <1>4, <1>5, <1>6, <1>7, <1>8, <1>9, <1>10, <1>11, <1>12, <1>13
     DEF Work

LEMMA WorkKeepsIInv ==
  ASSUME IInv, NEW p \in Processes, Work(p) \/ Crash(p), ~Commit(p)
  PROVE  IInv'
<1> USE Parts, WorkMoves
<1>0. p # "none" /\ RunOf[p] \in Runs /\ \A q \in Processes : q # "none"
  BY ProcessesAssumption, RunsAssumption DEF ProcessesAssumption, RunsAssumption
<1>1. /\ pc[p] \in InCall => call[p] \in Payloads
      /\ pc[p] # "commit" => staged[p] = << >>
      /\ pc[p] = "commit" => /\ staged[p] = <<Row(call[p])>> /\ Increasing(p)
                             /\ FreshFills(p) /\ SameDate(p) = {}
  BY DEF IInv, Calls
<1>2. CASE ReadMetadata(p) \/ Identify(p)
  <2>1. /\ pc'[p] \in {"identify", "ready", "failed", "refused"} /\ pc[p] \in {"start", "identify"}
        /\ UNCHANGED <<sessions, index, damage, crashes, writer, staged, call>>
        /\ metadata' \in Runs \union {NoRun}
    BY <1>0, <1>2 DEF ReadMetadata, Identify, InsertMetadata, Goto, tables, local
  <2> QED BY <1>1, <2>1, MoveKeepsIInv DEF InCall
<1>3. CASE RestorePortfolio(p) \/ RestoreOpenOrders(p)
  <2>1. /\ pc'[p] \in {"restoring", "trading"} /\ pc[p] \in {"ready", "restoring"}
        /\ UNCHANGED <<sessions, index, metadata, damage, crashes, writer, staged, call>>
    BY <1>3 DEF RestorePortfolio, RestoreOpenOrders, Goto, tables
  <2> QED BY <1>1, <2>1, MoveKeepsIInv DEF InCall
<1>4. CASE Trade(p)
  <2>1. /\ pc'[p] = "begin" /\ pc[p] = "trading"
        /\ UNCHANGED <<sessions, index, metadata, damage, crashes, writer, staged>>
    BY <1>4 DEF Trade, Goto, tables
  <2>2. call'[p] \in Payloads
    BY <1>4, TradeTyped
  <2> QED BY <1>1, <2>1, <2>2, MoveKeepsIInv DEF InCall
<1>5. CASE Begin(p)
  <2>1. /\ pc'[p] = "decide" /\ pc[p] = "begin" /\ writer = "none" /\ writer' = p
        /\ UNCHANGED <<sessions, index, metadata, damage, crashes, staged, call>>
    BY <1>5 DEF Begin, Lock, Goto, tables, local
  <2> QED BY <1>0, <1>1, <2>1, MoveKeepsIInv DEF InCall
<1>6. CASE AnswerRetry(p)
  <2>1. /\ pc'[p] = "returned" /\ pc[p] = "decide" /\ writer' = "none"
        /\ UNCHANGED <<sessions, index, metadata, damage, crashes, staged, call>>
    BY <1>6 DEF AnswerRetry, EndTransaction, Goto, tables, local
  <2>2. writer = p
    BY <2>1
  <2> QED BY <1>0, <1>1, <2>1, <2>2, MoveKeepsIInv DEF InCall
<1>7. CASE RejectCommit(p)
  <2>1. /\ pc'[p] = "failed" /\ pc[p] = "decide" /\ writer' = "none"
        /\ UNCHANGED <<sessions, index, metadata, damage, crashes>> /\ staged'[p] = << >>
    BY <1>7 DEF RejectCommit, EndTransaction, Forget, Goto, tables
  <2>2. writer = p
    BY <2>1
  <2> QED BY <1>0, <1>1, <2>1, <2>2, MoveKeepsIInv DEF InCall
<1>8. CASE InsertSession(p)
  <2>1. /\ pc'[p] = "commit" /\ pc[p] = "decide"
        /\ UNCHANGED <<sessions, index, metadata, damage, crashes, writer, call>>
        /\ staged'[p] = <<Row(call[p])>>
    BY <1>8 DEF InsertSession, Goto, tables
  <2>2. SameDate(p) = {} /\ Increasing(p) /\ FreshFills(p)
    BY <1>8 DEF InsertSession
  <2>3. writer = p
    BY <2>1
  <2>4. /\ sessions # << >> => Last(sessions).date < call'[p].date
        /\ call'[p].fills \intersect index = {}
        /\ {i \in DOMAIN sessions : sessions[i].date = call'[p].date} = {}
        /\ call'[p] = call[p]
    BY <2>1, <2>2 DEF Increasing, FreshFills, SameDate
  <2> QED BY <1>0, <1>1, <2>1, <2>3, <2>4, MoveKeepsIInv DEF InCall
<1>9. CASE Proceed(p) \/ Retry(p)
  <2>1. /\ pc'[p] \in {"trading", "begin"} /\ pc[p] = "returned"
        /\ UNCHANGED <<sessions, index, metadata, damage, crashes, writer, staged>>
        /\ pc'[p] = "begin" => call' = call
    BY <1>9 DEF Proceed, Retry, Goto, tables, local
  <2> QED BY <1>1, <2>1, MoveKeepsIInv DEF InCall
<1>10. CASE Crash(p)
  <2>1. /\ pc'[p] = "start" /\ UNCHANGED <<sessions, index, metadata, damage>>
        /\ writer' = IF writer = p THEN "none" ELSE writer
        /\ staged'[p] = << >> /\ crashes < MaxCrashes /\ crashes' = crashes + 1
    BY <1>10 DEF Crash, Forget, Goto, tables
  <2>2. crashes' \in 0..MaxCrashes
    BY <2>1, BoundsAssumption DEF BoundsAssumption
  <2> QED BY <1>0, <1>1, <2>1, <2>2, MoveKeepsIInv DEF InCall
<1> QED BY <1>2, <1>3, <1>4, <1>5, <1>6, <1>7, <1>8, <1>9, <1>10 DEF Work

(* What a commit does to the tables.                                       *)
LEMMA CommitTables ==
  ASSUME IInv, NEW p \in Processes, Commit(p)
  PROVE  /\ pc[p] = "commit" /\ call[p] \in Payloads /\ writer = p /\ writer' = "none"
         /\ pc' = [pc EXCEPT ![p] = "returned"]
         /\ sessions' = Append(sessions, Row(call[p])) /\ Row(call[p]) \in RowType
         /\ sessions # << >> => Last(sessions).date < call[p].date
         /\ call[p].fills \intersect index = {}
         /\ index' = index \union call[p].fills
         /\ staged' = [staged EXCEPT ![p] = << >>]
         /\ UNCHANGED <<metadata, seen, memory, call, crashes, damage>>
<1>1. /\ pc[p] = "commit" /\ writer' = "none" /\ pc' = [pc EXCEPT ![p] = "returned"]
      /\ sessions' = sessions \o staged[p] /\ index' = index \union call[p].fills
      /\ staged' = [staged EXCEPT ![p] = << >>]
      /\ UNCHANGED <<metadata, seen, memory, call, crashes, damage>>
  BY DEF Commit, EndTransaction, Goto
<1>2. call[p] \in Payloads /\ writer = p
  BY <1>1, Parts DEF IInv, Calls, InCall
<1>3. staged[p] = <<Row(call[p])>> /\ Increasing(p) /\ FreshFills(p)
  BY <1>1 DEF IInv, Calls
<1>4. PICK r \in RowType : r = Row(call[p])
  BY <1>2, RowTyped, Parts
<1>5. sessions \o <<r>> = Append(sessions, r)
  BY Parts
<1> QED BY <1>1, <1>2, <1>3, <1>4, <1>5 DEF Increasing, FreshFills

LEMMA CommitKeepsIInv ==
  ASSUME IInv, NEW p \in Processes, Commit(p)
  PROVE  IInv'
<1> USE Parts
<1>1. Moves(p)
  BY WorkMoves DEF Work
<1>2. PICK r \in RowType : r = Row(call[p])
  BY CommitTables
<1>3. sessions' = Append(sessions, r)
  BY <1>2, CommitTables
<1>4. sessions' \in Seq(RowType)
  BY <1>3
<1>5. index' \subseteq Dates
  <2>1. call[p].fills \subseteq Dates
    BY CommitTables, PayloadParts
  <2> QED BY <2>1, CommitTables
<1>6. \A q \in Processes : pc'[q] \notin {"decide", "commit"}
  BY CommitTables
<1>7. \A q \in Processes : staged'[q] = << >>
  <2>1. \A q \in Processes \ {p} : pc[q] # "commit"
    BY CommitTables
  <2> QED BY <2>1, CommitTables DEF IInv, Calls
<1>8. \A q \in Processes : pc'[q] \in InCall => call'[q] \in Payloads
  BY CommitTables DEF IInv, Calls, InCall
<1>9. Calls'
  BY <1>1, <1>6, <1>7, <1>8 DEF Calls, Moves
<1>10. \A q \in Processes : q # writer'
  BY CommitTables, ProcessesAssumption DEF ProcessesAssumption
<1>11. /\ metadata' \in Runs \union {NoRun} /\ writer' \in Processes \union {"none"}
       /\ crashes' \in 0..MaxCrashes /\ damage' \in 0..MaxDamage
  BY CommitTables DEF IInv, TypeOK
<1> QED BY <1>1, <1>4, <1>5, <1>6, <1>7, <1>9, <1>10, <1>11 DEF IInv, TypeOK, Moves, MemoryType

(* An accident leaves the row's key, date and chain alone.                 *)
LEMMA DamageShape ==
  ASSUME sessions \in Seq(RowType), Damage
  PROVE  /\ damage < MaxDamage /\ damage' = damage + 1 /\ writer = "none"
         /\ UNCHANGED <<metadata, index, writer, pc, local, crashes>>
         /\ \E i \in DOMAIN sessions, r \in RowType :
              /\ sessions' = [sessions EXCEPT ![i] = r]
              /\ r.date = sessions[i].date /\ r.previous_hash = sessions[i].previous_hash
              /\ r.state_hash = sessions[i].state_hash
<1>1. PICK i \in DOMAIN sessions :
        LET altered == [sessions[i].payload EXCEPT !.account = @ + 1]
        IN \/ sessions' = [sessions EXCEPT ![i].payload = altered]
           \/ sessions' = [sessions EXCEPT ![i].payload = altered,
                                           ![i].payload_hash = PayloadHash(altered)]
  BY DEF Damage
<1>2. PICK old \in RowType : old = sessions[i]
  OBVIOUS
<1>3. PICK a : a = [old.payload EXCEPT !.account = @ + 1]
  OBVIOUS
<1>4. a \in Payloads
  <2>1. old.payload \in Payloads
    BY RowParts
  <2>2. \A c \in Payloads, n \in Nat : [c EXCEPT !.account = n] \in Payloads
    BY DEF Payloads
  <2>3. old.payload.account + 1 \in Nat
    BY <2>1, PayloadParts
  <2> QED BY <1>3, <2>1, <2>2, <2>3
<1>5. PICK h \in HashType : h = PayloadHash(a)
  BY <1>4, HashTyped
<1>6. \A n \in RowType : [n EXCEPT !.payload = a] \in RowType /\ [n EXCEPT !.payload_hash = h] \in RowType
  BY <1>4 DEF RowType
<1>7. \A n \in RowType :
        LET m == [n EXCEPT !.payload = a] IN
        m.date = n.date /\ m.previous_hash = n.previous_hash /\ m.state_hash = n.state_hash
  BY DEF RowType
<1>8. \A n \in RowType :
        LET m == [n EXCEPT !.payload_hash = h] IN
        m.date = n.date /\ m.previous_hash = n.previous_hash /\ m.state_hash = n.state_hash
  BY DEF RowType
<1>9. PICK first \in RowType : first = [old EXCEPT !.payload = a]
  BY <1>6
<1>10. PICK both \in RowType : both = [first EXCEPT !.payload_hash = h]
  BY <1>6
<1>11. /\ first.date = old.date /\ first.previous_hash = old.previous_hash
       /\ first.state_hash = old.state_hash
       /\ both.date = old.date /\ both.previous_hash = old.previous_hash
       /\ both.state_hash = old.state_hash
  BY <1>7, <1>8, <1>9, <1>10
<1>12. \/ sessions' = [sessions EXCEPT ![i] = first]
       \/ sessions' = [sessions EXCEPT ![i] = both]
  <2>1. CASE sessions' = [sessions EXCEPT ![i].payload = a]
    BY <1>2, <1>9, <2>1
  <2>2. CASE sessions' = [sessions EXCEPT ![i].payload = a, ![i].payload_hash = PayloadHash(a)]
    BY <1>2, <1>5, <1>9, <1>10, <2>2
  <2> QED BY <1>1, <1>2, <1>3, <2>1, <2>2
<1>13. /\ damage < MaxDamage /\ damage' = damage + 1 /\ writer = "none"
       /\ UNCHANGED <<metadata, index, writer, pc, local, crashes>>
  BY DEF Damage
<1> QED BY <1>2, <1>11, <1>12, <1>13

LEMMA DamageKeepsIInv ==
  ASSUME IInv, Damage
  PROVE  IInv'
<1> USE Parts
<1>1. PICK i \in DOMAIN sessions, r \in RowType : sessions' = [sessions EXCEPT ![i] = r]
  BY DamageShape
<1>2. sessions' \in Seq(RowType)
  BY <1>1
<1>3. /\ damage' = damage + 1 /\ damage < MaxDamage /\ writer = "none"
      /\ UNCHANGED <<metadata, index, writer, pc, seen, memory, call, staged, crashes>>
  BY DamageShape DEF local
<1>4. \A q \in Processes : pc[q] \notin {"decide", "commit"}
  BY <1>3, ProcessesAssumption DEF ProcessesAssumption
<1>5. Calls'
  BY <1>3, <1>4 DEF IInv, Calls
<1>6. damage' \in 0..MaxDamage
  BY <1>3, BoundsAssumption DEF BoundsAssumption, IInv, TypeOK
<1> QED BY <1>2, <1>3, <1>5, <1>6 DEF IInv, TypeOK

LEMMA InitIInv == Init => IInv
<1> SUFFICES ASSUME Init PROVE IInv
  OBVIOUS
<1>1. TypeOK
  BY DatesAreNumbers, BlankTyped, BoundsAssumption, ProcessesAssumption
     DEF Init, TypeOK, BoundsAssumption, ProcessesAssumption, Steps, MemoryType
<1> QED BY <1>1 DEF IInv, Calls, Init, InCall

LEMMA StepKeepsIInv == IInv /\ [Next]_vars => IInv'
<1> SUFFICES ASSUME IInv, [Next]_vars PROVE IInv'
  OBVIOUS
<1>1. ASSUME NEW p \in Processes, Work(p) \/ Crash(p) PROVE IInv'
  BY <1>1, WorkKeepsIInv, CommitKeepsIInv
<1>2. CASE Damage
  BY <1>2, DamageKeepsIInv
<1>3. CASE UNCHANGED vars
  BY <1>3 DEF vars, tables, local, IInv, TypeOK, Calls, Row, LatestHash, GenesisHash,
              Increasing, FreshFills, SameDate
<1> QED BY <1>1, <1>2, <1>3 DEF Next, Faults, Finished
-----------------------------------------------------------------------------
(* One run owns the database                                               *)

(* An identity read is the database's, as it never changes again.          *)
Identified ==
  /\ IdentityAccepted
  /\ \A p \in Processes : pc[p] = "identify" /\ seen[p] # NoRun => metadata = seen[p]

LEMMA InitIdentified == Init => Identified
  BY DEF Init, Identified, IdentityAccepted, OpenSteps

(* The tables a step can change.                                           *)
LEMMA StepCases ==
  ASSUME IInv, [Next]_vars
  PROVE  \/ \E p \in Processes : (Work(p) \/ Crash(p)) /\ ~Commit(p) /\ UNCHANGED <<sessions, index, damage>>
         \/ \E p \in Processes : Commit(p)
         \/ Damage
         \/ UNCHANGED vars
<1>1. ASSUME NEW p \in Processes, Work(p) \/ Crash(p), ~Commit(p)
      PROVE  UNCHANGED <<sessions, index, damage>>
  BY <1>1 DEF Work, Crash, ReadMetadata, Identify, RestorePortfolio, RestoreOpenOrders, Trade, Begin,
              AnswerRetry, RejectCommit, InsertSession, Proceed, Retry, tables
<1> QED BY <1>1 DEF Next, Faults, Finished, Work

LEMMA IdentifiedStep == IInv /\ Identified /\ [Next]_vars => Identified'
<1> SUFFICES ASSUME IInv, Identified, [Next]_vars PROVE Identified'
  OBVIOUS
<1> USE Parts
<1>0. \A q \in Processes : RunOf[q] \in Runs /\ RunOf[q] # NoRun
  BY RunsAssumption DEF RunsAssumption
<1>1. ASSUME NEW p \in Processes, Work(p) \/ Crash(p) PROVE Identified'
  <2>1. Moves(p)
    BY <1>1, WorkMoves
  <2>2. metadata' = metadata \/ (metadata = NoRun /\ pc[p] = "identify" /\ metadata' = RunOf[p])
    BY <1>1 DEF Work, Crash, ReadMetadata, Identify, InsertMetadata, RestorePortfolio, RestoreOpenOrders,
                Trade, Begin, AnswerRetry, RejectCommit, InsertSession, Commit, Proceed, Retry, tables
  <2>3. /\ pc'[p] \in OpenSteps => metadata' = RunOf[p]
        /\ pc'[p] = "identify" /\ seen'[p] # NoRun => metadata' = seen'[p]
    <3>1. CASE ReadMetadata(p)
      BY <3>1 DEF ReadMetadata, Goto, tables, OpenSteps
    <3>2. CASE Identify(p)
      <4>1. seen[p] # NoRun => metadata = seen[p]
        BY <3>2 DEF Identified, Identify
      <4>2. CASE seen[p] = NoRun
        BY <3>2, <4>2 DEF Identify, InsertMetadata, Goto, OpenSteps
      <4>3. CASE seen[p] # NoRun
        BY <3>2, <4>1, <4>3 DEF Identify, Goto, OpenSteps
      <4> QED BY <4>2, <4>3
    <3>3. CASE ~ReadMetadata(p) /\ ~Identify(p)
      <4>1. UNCHANGED metadata /\ pc'[p] # "identify"
            /\ (pc'[p] \in OpenSteps => pc[p] \in OpenSteps)
        BY <1>1, <3>3 DEF Work, Crash, RestorePortfolio, RestoreOpenOrders, Trade, Begin, AnswerRetry,
               RejectCommit, InsertSession, Commit, Proceed, Retry, EndTransaction, Goto, tables,
               OpenSteps, Steps
      <4> QED BY <4>1 DEF Identified, IdentityAccepted
    <3> QED BY <3>1, <3>2, <3>3
  <2>4. ASSUME NEW q \in Processes \ {p}
        PROVE  /\ pc'[q] \in OpenSteps => metadata' = RunOf[q]
               /\ pc'[q] = "identify" /\ seen'[q] # NoRun => metadata' = seen'[q]
    <3>1. pc'[q] = pc[q] /\ seen'[q] = seen[q]
      BY <2>1 DEF Moves
    <3>2. /\ pc[q] \in OpenSteps => metadata = RunOf[q]
          /\ pc[q] = "identify" /\ seen[q] # NoRun => metadata = seen[q]
      BY DEF Identified, IdentityAccepted
    <3> QED BY <1>0, <2>2, <3>1, <3>2
  <2> QED BY <2>3, <2>4 DEF Identified, IdentityAccepted
<1>2. CASE UNCHANGED <<metadata, pc, seen>>
  BY <1>2 DEF Identified, IdentityAccepted
<1>3. Damage => UNCHANGED <<metadata, pc, seen>>
  BY DamageShape DEF local
<1>4. UNCHANGED vars => UNCHANGED <<metadata, pc, seen>>
  BY DEF vars, tables, local
<1> QED BY <1>1, <1>2, <1>3, <1>4, StepCases DEF Work
-----------------------------------------------------------------------------
(* The hash chain                                                          *)

Digest(i) == sessions[i].state_hash[i].digest

(* Each row's state hash chains the digests of all sessions up to it; the  *)
(* digested payloads are dated in order and share no fill, and the index   *)
(* holds their fills.                                                      *)
Chained ==
  /\ \A i \in DOMAIN sessions :
       /\ Len(sessions[i].state_hash) = i
       /\ \A j \in 1..i : sessions[i].state_hash[j] = PayloadHash(Digest(j))
       /\ sessions[i].previous_hash = PreviousHash(sessions, i)
       /\ Digest(i) \in Payloads /\ Digest(i).date = sessions[i].date
  /\ \A i, j \in DOMAIN sessions :
       i < j => Digest(i).date < Digest(j).date /\ Digest(i).fills \intersect Digest(j).fills = {}
  /\ index = UNION {Digest(i).fills : i \in DOMAIN sessions}

(* Without an accident the payloads are the ones digested.                 *)
Undamaged ==
  damage = 0 => \A i \in DOMAIN sessions :
    /\ sessions[i].payload = Digest(i)
    /\ sessions[i].payload_hash = PayloadHash(Digest(i))
    /\ sessions[i].state_hash = StateHash(PreviousHash(sessions, i), PayloadHash(Digest(i)))

ChainInv == Chained /\ Undamaged

LEMMA InitChainInv == Init => ChainInv
  BY DEF Init, ChainInv, Chained, Undamaged

(* What a commit leaves of the digests.                                    *)
LEMMA CommitDigests ==
  ASSUME IInv, ChainInv, NEW p \in Processes, Commit(p), NEW n, n = Len(sessions)
  PROVE  /\ n \in Nat /\ DOMAIN sessions = 1..n
         /\ DOMAIN sessions' = 1..(n + 1)
         /\ \A i \in 1..n : sessions'[i] = sessions[i] /\ Digest(i)' = Digest(i)
         /\ sessions'[n + 1] = Row(call[p])
         /\ Digest(n + 1)' = call[p]
         /\ LatestHash = PreviousHash(sessions', n + 1)
         /\ Len(LatestHash) = n
         /\ \A j \in 1..n : LatestHash[j] = PayloadHash(Digest(j))
<1> USE Parts
<1>1. n \in Nat
  OBVIOUS
<1>2. PICK r \in RowType : r = Row(call[p])
  BY CommitTables
<1>3. sessions' = Append(sessions, r) /\ call[p] \in Payloads
  BY <1>2, CommitTables
<1>4. /\ DOMAIN sessions = 1..n /\ DOMAIN sessions' = 1..(n + 1)
      /\ \A i \in 1..n : sessions'[i] = sessions[i]
      /\ sessions'[n + 1] = r
  BY <1>1, <1>3
<1>5. PICK h \in Seq(HashType) : h = LatestHash
  BY <1>3, RowTyped
<1>6. Len(h) = n /\ \A j \in 1..n : h[j] = PayloadHash(Digest(j))
  <2>1. CASE sessions = << >>
    BY <1>1, <1>5, <2>1 DEF LatestHash, GenesisHash
  <2>2. CASE sessions # << >>
    <3>1. n \in DOMAIN sessions /\ Last(sessions) = sessions[n]
      BY <1>1, <2>2, LastTyped
    <3>2. h = sessions[n].state_hash
      BY <1>5, <2>2, <3>1 DEF LatestHash
    <3> QED BY <3>1, <3>2 DEF ChainInv, Chained
  <2> QED BY <2>1, <2>2
<1>7. h = PreviousHash(sessions', n + 1)
  <2>1. CASE sessions = << >>
    <3>1. n = 0
      BY <1>1, <2>1
    <3> QED BY <1>5, <2>1, <3>1 DEF PreviousHash, LatestHash
  <2>2. CASE sessions # << >>
    <3>1. n \in DOMAIN sessions /\ Last(sessions) = sessions[n]
      BY <1>1, <2>2, LastTyped
    <3>2. h = sessions[n].state_hash
      BY <1>5, <2>2, <3>1 DEF LatestHash
    <3>3. n + 1 # 1 /\ (n + 1) - 1 = n
      BY <1>4, <3>1
    <3> QED BY <1>4, <3>1, <3>2, <3>3 DEF PreviousHash
  <2> QED BY <2>1, <2>2
<1>8. r.state_hash = Append(h, PayloadHash(call[p]))
  BY <1>2, <1>3, <1>5, RowTyped
<1>9. r.state_hash[n + 1] = PayloadHash(call[p])
  <2>1. PICK x \in HashType : x = PayloadHash(call[p])
    BY <1>3, HashTyped
  <2> QED BY <1>6, <1>8, <2>1
<1>10. Digest(n + 1)' = call[p]
  BY <1>4, <1>9 DEF Digest, PayloadHash
<1>11. \A i \in 1..n : Digest(i)' = Digest(i)
  BY <1>4 DEF Digest
<1>12. /\ n \in Nat /\ DOMAIN sessions = 1..n
       /\ DOMAIN sessions' = 1..(n + 1)
       /\ \A i \in 1..n : sessions'[i] = sessions[i]
       /\ sessions'[n + 1] = Row(call[p])
  BY <1>1, <1>2, <1>4
<1>13. Len(LatestHash) = n /\ \A j \in 1..n : LatestHash[j] = PayloadHash(Digest(j))
  BY <1>5, <1>6
<1>14. LatestHash = PreviousHash(sessions', n + 1)
  BY <1>5, <1>7
<1> QED BY <1>10, <1>11, <1>12, <1>13, <1>14

LEMMA CommitKeepsChain ==
  ASSUME IInv, ChainInv, NEW p \in Processes, Commit(p)
  PROVE  ChainInv'
<1>1. PICK n \in Nat : n = Len(sessions)
  BY Parts
<1>2. PICK c \in Payloads : c = call[p]
  BY CommitTables
<1>3. PICK r \in RowType : r = Row(c)
  BY <1>2, CommitTables
<1>4. PICK h \in Seq(HashType) : h = LatestHash
  BY <1>2, RowTyped, Parts
<1>5. /\ DOMAIN sessions = 1..n /\ DOMAIN sessions' = 1..(n + 1)
      /\ \A i \in 1..n : sessions'[i] = sessions[i] /\ Digest(i)' = Digest(i)
      /\ sessions'[n + 1] = r /\ Digest(n + 1)' = c
      /\ h = PreviousHash(sessions', n + 1) /\ Len(h) = n
      /\ \A j \in 1..n : h[j] = PayloadHash(Digest(j))
  BY <1>1, <1>2, <1>3, <1>4, CommitDigests
<1>6. /\ r.date = c.date /\ r.payload = c /\ r.payload_hash = PayloadHash(c)
      /\ r.previous_hash = h /\ r.state_hash = Append(h, PayloadHash(c))
  BY <1>3, <1>4, RowTyped, Parts
<1>7. PICK x \in HashType : x = PayloadHash(c)
  BY HashTyped
<1>8. Len(r.state_hash) = n + 1 /\ r.state_hash[n + 1] = x
      /\ \A j \in 1..n : r.state_hash[j] = h[j]
  BY <1>5, <1>6, <1>7
<1>9. \A i \in 1..n : PreviousHash(sessions', i) = PreviousHash(sessions, i)
  BY <1>5 DEF PreviousHash
<1>10. ASSUME NEW i \in 1..(n + 1)
       PROVE  /\ Len(sessions'[i].state_hash) = i
              /\ \A j \in 1..i : sessions'[i].state_hash[j] = PayloadHash(Digest(j)')
              /\ sessions'[i].previous_hash = PreviousHash(sessions', i)
              /\ Digest(i)' \in Payloads /\ Digest(i)'.date = sessions'[i].date
  <2>1. CASE i \in 1..n
    <3>1. \A j \in 1..i : Digest(j)' = Digest(j)
      BY <1>5, <2>1
    <3> QED BY <1>5, <1>9, <2>1, <3>1 DEF ChainInv, Chained
  <2>2. CASE i = n + 1
    <3>1. \A j \in 1..i : sessions'[i].state_hash[j] = PayloadHash(Digest(j)')
      <4> TAKE j \in 1..i
      <4>1. CASE j \in 1..n
        BY <1>5, <1>8, <2>2, <4>1
      <4>2. CASE j = n + 1
        BY <1>5, <1>7, <1>8, <2>2, <4>2
      <4> QED BY <2>2, <4>1, <4>2
    <3> QED BY <1>5, <1>6, <1>8, <2>2, <3>1
  <2> QED BY <2>1, <2>2
<1>11. \A i \in 1..n : Digest(i).date < c.date /\ Digest(i).fills \intersect c.fills = {}
  <2> TAKE i \in 1..n
  <2>1. sessions # << >> /\ n \in 1..n
    BY <1>1
  <2>2. Last(sessions).date < c.date
    BY <1>2, <2>1, CommitTables
  <2>3. Last(sessions) = sessions[n] /\ Digest(n).date = sessions[n].date
    BY <1>1, <1>5, <2>1, LastTyped, Parts DEF ChainInv, Chained
  <2>4. Digest(i).date \in Nat /\ Digest(n).date \in Nat /\ c.date \in Nat
    BY <1>5, <2>1, PayloadParts, DatesAreNumbers DEF ChainInv, Chained
  <2>5. i = n \/ Digest(i).date < Digest(n).date
    BY <1>5, <2>1 DEF ChainInv, Chained
  <2>6. Digest(i).fills \subseteq index
    BY <1>5 DEF ChainInv, Chained
  <2>7. c.fills \intersect index = {}
    BY <1>2, CommitTables
  <2> QED BY <2>2, <2>3, <2>4, <2>5, <2>6, <2>7
<1>12. ASSUME NEW i \in 1..(n + 1), NEW j \in 1..(n + 1), i < j
       PROVE  Digest(i)'.date < Digest(j)'.date /\ Digest(i)'.fills \intersect Digest(j)'.fills = {}
  <2>1. i \in 1..n
    BY <1>12
  <2>2. CASE j \in 1..n
    <3>1. Digest(i)' = Digest(i) /\ Digest(j)' = Digest(j) /\ i \in DOMAIN sessions /\ j \in DOMAIN sessions
      BY <1>5, <2>1, <2>2
    <3>2. Digest(i).date < Digest(j).date /\ Digest(i).fills \intersect Digest(j).fills = {}
      BY <1>12, <3>1 DEF ChainInv, Chained
    <3> QED BY <3>1, <3>2
  <2>3. CASE j = n + 1
    BY <1>5, <1>11, <2>1, <2>3
  <2> QED BY <2>2, <2>3
<1>14. index' = UNION {Digest(i)'.fills : i \in 1..(n + 1)}
  <2>1. index' = index \union c.fills
    BY <1>2, CommitTables
  <2>2. index = UNION {Digest(i).fills : i \in 1..n}
    BY <1>5 DEF ChainInv, Chained
  <2>3. ASSUME NEW f PROVE f \in index' <=> \E i \in 1..(n + 1) : f \in Digest(i)'.fills
    <3>1. f \in index <=> \E i \in 1..n : f \in Digest(i).fills
      BY <2>2
    <3>2. f \in c.fills <=> f \in Digest(n + 1)'.fills
      BY <1>5
    <3>3. \A i \in 1..n : f \in Digest(i).fills <=> f \in Digest(i)'.fills
      BY <1>5
    <3>4. \A i \in 1..(n + 1) : i \in 1..n \/ i = n + 1
      OBVIOUS
    <3>5. n + 1 \in 1..(n + 1) /\ \A i \in 1..n : i \in 1..(n + 1)
      OBVIOUS
    <3> QED BY <2>1, <3>1, <3>2, <3>3, <3>4, <3>5
  <2> QED BY <2>3
<1>15. Chained'
  BY <1>5, <1>10, <1>12, <1>14 DEF Chained
<1>16. Undamaged'
  <2>1. damage' = damage
    BY CommitTables
  <2>2. ASSUME damage = 0, NEW i \in 1..(n + 1)
        PROVE  /\ sessions'[i].payload = Digest(i)'
               /\ sessions'[i].payload_hash = PayloadHash(Digest(i)')
               /\ sessions'[i].state_hash = StateHash(PreviousHash(sessions', i), PayloadHash(Digest(i)'))
    <3>1. CASE i \in 1..n
      BY <1>5, <1>9, <2>2, <3>1 DEF ChainInv, Undamaged
    <3>2. CASE i = n + 1
      BY <1>5, <1>6, <3>2 DEF StateHash
    <3> QED BY <3>1, <3>2
  <2> QED BY <1>5, <2>1, <2>2 DEF Undamaged
<1> QED BY <1>15, <1>16 DEF ChainInv

LEMMA DamageKeepsChain ==
  ASSUME IInv, ChainInv, Damage
  PROVE  ChainInv'
<1>1. PICK i \in DOMAIN sessions, r \in RowType :
        /\ sessions' = [sessions EXCEPT ![i] = r]
        /\ r.date = sessions[i].date /\ r.previous_hash = sessions[i].previous_hash
        /\ r.state_hash = sessions[i].state_hash
  BY Parts, DamageShape
<1>2. /\ DOMAIN sessions' = DOMAIN sessions
      /\ \A j \in DOMAIN sessions :
           /\ sessions'[j].date = sessions[j].date
           /\ sessions'[j].previous_hash = sessions[j].previous_hash
           /\ sessions'[j].state_hash = sessions[j].state_hash
  BY <1>1
<1>3. PICK n \in Nat : n = Len(sessions) /\ DOMAIN sessions = 1..n
  BY Parts
<1>4. \A j \in 1..n : Digest(j)' = Digest(j)
  BY <1>2, <1>3 DEF Digest
<1>5. \A j \in 1..n : PreviousHash(sessions', j) = PreviousHash(sessions, j)
  <2> TAKE j \in 1..n
  <2>1. CASE j = 1
    BY <2>1 DEF PreviousHash
  <2>2. CASE j # 1
    <3>1. j - 1 \in 1..n
      BY <2>2
    <3> QED BY <1>2, <1>3, <2>2, <3>1 DEF PreviousHash
  <2> QED BY <2>1, <2>2
<1>6. index' = index /\ damage' # 0
  <2>1. damage \in Nat /\ damage' = damage + 1 /\ UNCHANGED index
    BY Parts, DamageShape, BoundsAssumption DEF IInv, TypeOK
  <2> QED BY <2>1
<1>7. \A j \in 1..n :
        /\ Len(sessions'[j].state_hash) = j
        /\ \A k \in 1..j : sessions'[j].state_hash[k] = PayloadHash(Digest(k)')
        /\ sessions'[j].previous_hash = PreviousHash(sessions', j)
        /\ Digest(j)' \in Payloads /\ Digest(j)'.date = sessions'[j].date
  <2> TAKE j \in 1..n
  <2>1. \A k \in 1..j : k \in 1..n
    BY <1>3
  <2> QED BY <1>2, <1>3, <1>4, <1>5, <2>1 DEF ChainInv, Chained
<1>8. \A j, k \in 1..n : j < k =>
        Digest(j)'.date < Digest(k)'.date /\ Digest(j)'.fills \intersect Digest(k)'.fills = {}
  BY <1>3, <1>4 DEF ChainInv, Chained
<1>9. index' = UNION {Digest(j)'.fills : j \in 1..n}
  <2>1. index = UNION {Digest(j).fills : j \in 1..n}
    BY <1>3 DEF ChainInv, Chained
  <2>2. {Digest(j)'.fills : j \in 1..n} = {Digest(j).fills : j \in 1..n}
    BY <1>4
  <2> QED BY <1>6, <2>1, <2>2
<1>10. DOMAIN sessions' = 1..n
  BY <1>2, <1>3
<1> QED BY <1>6, <1>7, <1>8, <1>9, <1>10 DEF ChainInv, Chained, Undamaged

LEMMA ChainInvStep == IInv /\ ChainInv /\ [Next]_vars => ChainInv'
<1> SUFFICES ASSUME IInv, ChainInv, [Next]_vars PROVE ChainInv'
  OBVIOUS
<1>1. CASE UNCHANGED <<sessions, index, damage>>
  BY <1>1 DEF ChainInv, Chained, Undamaged, Digest, PreviousHash
<1>2. ASSUME NEW p \in Processes, Commit(p) PROVE ChainInv'
  BY <1>2, CommitKeepsChain
<1>3. CASE Damage
  BY <1>3, DamageKeepsChain
<1>4. UNCHANGED vars => UNCHANGED <<sessions, index, damage>>
  BY DEF vars, tables
<1> QED BY <1>1, <1>2, <1>3, <1>4, StepCases

(* Everything that holds of any number of processes of any runs.           *)
StoreInv == IInv /\ Identified /\ ChainInv

LEMMA StoreInvHolds == Spec => []StoreInv
<1>1. Init => StoreInv
  BY InitIInv, InitIdentified, InitChainInv DEF StoreInv
<1>2. StoreInv /\ [Next]_vars => StoreInv'
  BY StepKeepsIInv, IdentifiedStep, ChainInvStep DEF StoreInv
<1> QED BY <1>1, <1>2, PTL DEF Spec
-----------------------------------------------------------------------------
(* The theorems about any processes                                        *)

(* The tables and the processes keep their types, and the write lock is    *)
(* held exactly by a process inside its transaction.                       *)
THEOREM TypesCorrect == Spec => []TypeOK
<1>1. StoreInv => TypeOK
  BY DEF StoreInv, IInv
<1> QED BY <1>1, StoreInvHolds, PTL

(* No process gets past initialize on the database of another run, however *)
(* many of them read and insert the metadata at once.                      *)
THEOREM OnlyOwnRun == Spec => []IdentityAccepted
<1>1. StoreInv => IdentityAccepted
  BY DEF StoreInv, Identified
<1> QED BY <1>1, StoreInvHolds, PTL

(* Rows and index as committed pass verification.                          *)
LEMMA CommittedVerify ==
  ASSUME StoreInv, damage = 0
  PROVE  Verifies(sessions, index)
<1>1. Chained /\ Undamaged
  BY DEF StoreInv, ChainInv
<1>2. PICK n \in Nat : n = Len(sessions) /\ DOMAIN sessions = 1..n
  BY Parts DEF StoreInv
<1>3. ASSUME NEW i \in 1..n PROVE RowIntact(sessions, i)
  <2>1. /\ sessions[i].previous_hash = PreviousHash(sessions, i)
        /\ sessions[i].payload_hash = PayloadHash(sessions[i].payload)
        /\ sessions[i].state_hash = StateHash(PreviousHash(sessions, i), sessions[i].payload_hash)
    BY <1>1, <1>2 DEF Chained, Undamaged
  <2>2. ASSUME i > 1 PROVE sessions[i - 1].date < sessions[i].date
    <3>1. i - 1 \in 1..n /\ i - 1 < i
      BY <2>2
    <3> QED BY <1>1, <1>2, <3>1 DEF Chained
  <2> QED BY <2>1, <2>2 DEF RowIntact
<1>4. \A i \in 1..n : sessions[i].payload = Digest(i)
  BY <1>1, <1>2 DEF Undamaged
<1>5. FillsIntact(sessions, index)
  <2>1. index = PayloadFills(sessions)
    BY <1>1, <1>2, <1>4 DEF Chained, PayloadFills
  <2>2. ASSUME NEW i \in 1..n, NEW j \in 1..n, i # j
        PROVE  sessions[i].payload.fills \intersect sessions[j].payload.fills = {}
    <3>1. i < j \/ j < i
      BY <2>2
    <3>2. Digest(i).fills \intersect Digest(j).fills = {}
      BY <1>1, <1>2, <3>1 DEF Chained
    <3> QED BY <1>4, <3>2
  <2> QED BY <1>2, <2>1, <2>2 DEF FillsIntact
<1> QED BY <1>2, <1>3, <1>5 DEF Verifies

(* The committed tables agree between any two steps of any processes.      *)
THEOREM TablesAlwaysAgree == Spec => []TablesAgree
<1>1. StoreInv => TablesAgree
  BY CommittedVerify DEF TablesAgree
<1> QED BY <1>1, StoreInvHolds, PTL

(* Rows that pass verification and have the state hashes of the committed  *)
(* sessions hold their payloads, whatever has been changed and how often:  *)
(* the state hash still chains the digest of the original.                 *)
LEMMA VerifiedPayloads ==
  ASSUME StoreInv, NEW rows \in Seq(RowType), NEW fills, Verifies(rows, fills),
         NEW i \in DOMAIN rows, i \in DOMAIN sessions, rows[i].state_hash = sessions[i].state_hash
  PROVE  rows[i].payload = Committed[i]
<1>1. Chained
  BY DEF StoreInv, ChainInv
<1>2. PICK n \in Nat : n = Len(sessions) /\ DOMAIN sessions = 1..n
  BY Parts DEF StoreInv
<1>3. rows[i] \in RowType
  OBVIOUS
<1>4. PICK h \in Seq(HashType) : h = rows[i].previous_hash
  BY <1>3, RowParts
<1>5. PICK x \in HashType : x = rows[i].payload_hash
  BY <1>3, RowParts
<1>6. x = PayloadHash(rows[i].payload) /\ rows[i].state_hash = Append(h, x)
  BY <1>4, <1>5 DEF Verifies, RowIntact, StateHash
<1>7. Len(rows[i].state_hash) = i /\ i \in Nat
  BY <1>1, <1>2 DEF Chained
<1>8. sessions[i].state_hash[i] = x
  BY <1>6, <1>7
<1>9. x.digest = rows[i].payload
  BY <1>6 DEF PayloadHash
<1> QED BY <1>8, <1>9 DEF Committed

(* Sessions are only added, and their state hashes never change; the rows  *)
(* stay as they are unless there is an accident.                           *)
LEMMA SessionsGrow ==
  ASSUME StoreInv, [Next]_vars
  PROVE  /\ Len(sessions) \in Nat /\ Len(sessions') \in Nat /\ Len(sessions) <= Len(sessions')
         /\ DOMAIN sessions = 1..Len(sessions) /\ DOMAIN sessions' = 1..Len(sessions')
         /\ \A i \in 1..Len(sessions) : sessions'[i].state_hash = sessions[i].state_hash
         /\ damage' = 0 => damage = 0 /\ \A i \in 1..Len(sessions) : sessions'[i] = sessions[i]
<1> USE Parts DEF StoreInv
<1>1. damage \in Nat
  BY BoundsAssumption DEF BoundsAssumption, IInv, TypeOK
<1>2. CASE UNCHANGED <<sessions, damage>>
  BY <1>2
<1>3. ASSUME NEW p \in Processes, Commit(p)
      PROVE  sessions' = Append(sessions, Row(call[p])) /\ Row(call[p]) \in RowType /\ damage' = damage
  BY <1>3, CommitTables
<1>4. CASE \E p \in Processes : Commit(p)
  <2>1. PICK r \in RowType : sessions' = Append(sessions, r) /\ damage' = damage
    BY <1>3, <1>4
  <2> QED BY <2>1
<1>5. CASE Damage
  <2>1. PICK i \in DOMAIN sessions, r \in RowType :
          sessions' = [sessions EXCEPT ![i] = r] /\ r.state_hash = sessions[i].state_hash
    BY <1>5, DamageShape
  <2>2. damage' = damage + 1
    BY <1>5, DamageShape
  <2> QED BY <1>1, <2>1, <2>2
<1>6. UNCHANGED vars => UNCHANGED <<sessions, damage>>
  BY DEF vars, tables
<1> QED BY <1>2, <1>4, <1>5, <1>6, StepCases
-----------------------------------------------------------------------------
(* The transactions implement the journal                                  *)

LEMMA CommitRecords ==
  ASSUME StoreInv, NEW p \in Processes, Commit(p)
  PROVE  Journal!Record
<1>1. PICK n \in Nat : n = Len(sessions)
  BY Parts DEF StoreInv
<1>2. PICK c \in Payloads : c = call[p]
  BY CommitTables DEF StoreInv
<1>3. /\ DOMAIN sessions = 1..n /\ DOMAIN sessions' = 1..(n + 1)
      /\ \A i \in 1..n : Digest(i)' = Digest(i)
      /\ Digest(n + 1)' = c
  BY <1>1, <1>2, CommitDigests DEF StoreInv
<1>4. PICK old : old = Committed
  OBVIOUS
<1>5. PICK new : new = Committed'
  OBVIOUS
<1>6. old = [i \in 1..n |-> Digest(i)] /\ \A i \in 1..n : Digest(i) \in Payloads
  BY <1>3, <1>4 DEF Committed, Digest, StoreInv, ChainInv, Chained
<1>7. new = [i \in 1..(n + 1) |-> Digest(i)']
  BY <1>3, <1>5 DEF Committed, Digest
<1>8. old \in Seq(Payloads) /\ Len(old) = n /\ DOMAIN old = 1..n /\ \A i \in 1..n : old[i] = Digest(i)
  BY <1>6
<1>9. \A i \in 1..(n + 1) : new[i] = IF i \in 1..n THEN old[i] ELSE c
  BY <1>3, <1>7, <1>8
<1>10. new = Append(old, c)
  <2>1. new \in Seq(Payloads) /\ Len(new) = n + 1
    <3>1. \A i \in 1..(n + 1) : Digest(i)' \in Payloads
      BY <1>3, <1>6
    <3> QED BY <1>7, <3>1
  <2>2. Append(old, c) \in Seq(Payloads) /\ Len(Append(old, c)) = n + 1
        /\ \A i \in 1..(n + 1) : Append(old, c)[i] = IF i \in 1..n THEN old[i] ELSE c
    BY <1>8
  <2> QED BY <1>9, <2>1, <2>2, SeqEqual
<1>11. new # << >> /\ Len(new) = n + 1 /\ new[Len(new)] = c
  BY <1>8, <1>10
<1>12. \A i \in 1..n : Digest(i).date < c.date /\ Digest(i).fills \intersect c.fills = {}
  <2> TAKE i \in 1..n
  <2>1. ChainInv'
    BY CommitKeepsChain DEF StoreInv
  <2>2. i \in 1..(n + 1) /\ n + 1 \in 1..(n + 1) /\ i < n + 1
    OBVIOUS
  <2>3. Digest(i)'.date < Digest(n + 1)'.date
        /\ Digest(i)'.fills \intersect Digest(n + 1)'.fills = {}
    BY <1>3, <2>1, <2>2 DEF ChainInv, Chained
  <2> QED BY <1>3, <2>3
<1>13. metadata # NoRun /\ UNCHANGED metadata
  <2>1. metadata = RunOf[p]
    BY CommitTables DEF StoreInv, Identified, IdentityAccepted, OpenSteps, Steps
  <2> QED BY <2>1, CommitTables, RunsAssumption DEF StoreInv, RunsAssumption
<1>14. \A i \in DOMAIN old : old[i].date < c.date /\ old[i].fills \intersect c.fills = {}
  BY <1>8, <1>12
<1>15. LET q == new[Len(new)]
       IN q \in Payloads /\ (\A i \in DOMAIN old : old[i].date < q.date /\ old[i].fills \intersect q.fills = {})
            /\ new = Append(old, q)
  BY <1>10, <1>11, <1>14
<1> QED BY <1>4, <1>5, <1>11, <1>13, <1>15 DEF Journal!Record, Journal!Follows

(* Transactions of any number of processes, their crashes, retries and     *)
(* damaged rows implement PaperJournal: one run adopts the database and    *)
(* its sessions are only appended, in order, each fill once.               *)
THEOREM StoreIsJournal == Spec => JournalKept
<1>1. Init => Journal!Init
  BY DEF Init, Journal!Init, Committed
<1>2. StoreInv /\ [Next]_vars => [Journal!Next]_<<metadata, Committed>>
  <2> SUFFICES ASSUME StoreInv, [Next]_vars PROVE [Journal!Next]_<<metadata, Committed>>
    OBVIOUS
  <2>1. UNCHANGED sessions => UNCHANGED Committed
    BY DEF Committed
  <2>2. ASSUME NEW p \in Processes, Work(p) \/ Crash(p), ~Commit(p), UNCHANGED sessions
        PROVE  Journal!Next \/ UNCHANGED <<metadata, Committed>>
    <3>1. metadata' = metadata \/ (metadata = NoRun /\ metadata' = RunOf[p])
      BY <2>2 DEF Work, Crash, ReadMetadata, Identify, InsertMetadata, RestorePortfolio,
                  RestoreOpenOrders, Trade, Begin, AnswerRetry, RejectCommit, InsertSession,
                  Proceed, Retry, tables
    <3>2. RunOf[p] \in Runs
      BY RunsAssumption DEF RunsAssumption
    <3>3. metadata = NoRun /\ metadata' = RunOf[p] => Journal!Adopt
      BY <2>1, <2>2, <3>2 DEF Journal!Adopt
    <3> QED BY <2>1, <2>2, <3>1, <3>3 DEF Journal!Next
  <2>3. ASSUME NEW p \in Processes, Commit(p) PROVE Journal!Next
    BY <2>3, CommitRecords DEF Journal!Next
  <2>4. CASE Damage
    <3>1. PICK i \in DOMAIN sessions, r \in RowType :
            /\ sessions' = [sessions EXCEPT ![i] = r]
            /\ r.state_hash = sessions[i].state_hash
      BY <2>4, DamageShape, Parts DEF StoreInv
    <3>2. DOMAIN sessions' = DOMAIN sessions
          /\ \A j \in DOMAIN sessions : sessions'[j].state_hash = sessions[j].state_hash
      BY <3>1
    <3>3. UNCHANGED Committed
      BY <3>2 DEF Committed
    <3>4. UNCHANGED metadata
      BY <2>4, DamageShape, Parts DEF StoreInv
    <3> QED BY <3>3, <3>4
  <2>5. CASE UNCHANGED vars
    BY <2>1, <2>5 DEF vars, tables
  <2> QED BY <2>2, <2>3, <2>4, <2>5, StepCases DEF StoreInv
<1> QED BY <1>1, <1>2, StoreInvHolds, PTL DEF Spec, JournalKept, Journal!Spec
-----------------------------------------------------------------------------
(* One process for each run                                                *)

OneProcessPerRun == \A p, q \in Processes : RunOf[p] = RunOf[q] => p = q

(* The memory of a process is what the tables record.                      *)
Resumed(p) ==
  memory[p] = [last |-> Checkpoint(sessions).date, account |-> Checkpoint(sessions).account,
               open |-> OpenOrders(sessions)]

(* The payload of its call is the last one recorded ...                    *)
Answered(p) == Resumed(p) /\ sessions # << >> /\ Last(sessions).payload = call[p]

(* ... or continues what is recorded: every open order has been attempted. *)
Continues(p) ==
  LET c == call[p] IN
  /\ Checkpoint(sessions).date < c.date
  /\ c.account = Checkpoint(sessions).account + Cardinality(c.fills)
  /\ memory[p] = [last |-> c.date, account |-> c.account,
                  open |-> {id \in DOMAIN c.orders : c.orders[id] = "pending"}]
  /\ OpenOrders(sessions) \subseteq DOMAIN c.orders

UpToDate(p) ==
  /\ pc[p] = "restoring" => /\ memory[p].last = Checkpoint(sessions).date
                            /\ memory[p].account = Checkpoint(sessions).account
  /\ pc[p] = "trading" => Resumed(p)
  /\ pc[p] \in {"begin", "decide"} => Answered(p) \/ Continues(p)
  /\ pc[p] = "commit" => Continues(p)
  /\ pc[p] = "returned" => Answered(p)

SoloInv ==
  damage = 0 =>
    /\ Checkpoint(sessions).account = Cardinality(PayloadFills(sessions))
    /\ \A p \in Processes : UpToDate(p)

(* A nonempty set of positions has a greatest one.                         *)
LEMMA GreatestPosition ==
  ASSUME NEW N \in Nat, NEW S, S \subseteq 1..N, S # {}
  PROVE  \E m \in S : \A k \in S : m >= k
<1> DEFINE T == {n \in Nat : \E k \in S : n + k = N}
<1>1. T \subseteq Nat
  OBVIOUS
<1>2. PICK k0 : k0 \in S
  OBVIOUS
<1>3. N - k0 \in T
  BY <1>2
<1>4. PICK x \in T : \A y \in T : <<y, x>> \notin OpToRel(<, Nat)
  BY <1>1, <1>3, NatLessThanWellFounded, WFMin
<1>5. \A y \in T : ~(y < x)
  BY <1>1, <1>4 DEF OpToRel
<1>6. PICK m \in S : x + m = N
  BY <1>4
<1>7. ASSUME NEW k \in S PROVE m >= k
  <2>1. N - k \in T
    OBVIOUS
  <2> QED BY <2>1, <1>5, <1>6
<1> QED BY <1>7

(* restore_open_orders after one more session, one that has attempted      *)
(* every open order: what it left pending, whatever earlier rows say.      *)
LEMMA OpenOrdersAfter ==
  ASSUME NEW rows \in Seq(RowType), NEW r \in RowType,
         OpenOrders(rows) \subseteq DOMAIN r.payload.orders
  PROVE  OpenOrders(Append(rows, r))
           = {id \in DOMAIN r.payload.orders : r.payload.orders[id] = "pending"}
<1>1. PICK c \in Payloads : c = r.payload
  BY RowParts
<1>2. DOMAIN c.orders \subseteq Dates
  BY PayloadParts
<1>3. PICK n \in Nat : n = Len(rows) /\ DOMAIN rows = 1..n
  OBVIOUS
<1>4. PICK s : s = Append(rows, r)
  OBVIOUS
<1>5. DOMAIN s = 1..(n + 1) /\ (\A i \in 1..n : s[i] = rows[i]) /\ s[n + 1] = r
  BY <1>3, <1>4
<1>6. ASSUME NEW id \in DOMAIN c.orders
      PROVE  id \in OpenOrders(s) <=> c.orders[id] = "pending"
  <2>1. n + 1 \in Mentions(s, id) /\ Mentions(s, id) \subseteq 1..(n + 1)
    BY <1>1, <1>5, <1>6 DEF Mentions
  <2>2. PICK i : i = CHOOSE x \in Mentions(s, id) : \A m \in Mentions(s, id) : x >= m
    OBVIOUS
  <2>3. \E x \in Mentions(s, id) : \A m \in Mentions(s, id) : x >= m
    BY <2>1
  <2>4. i \in Mentions(s, id) /\ \A m \in Mentions(s, id) : i >= m
    BY <2>2, <2>3
  <2>5. i = n + 1
    BY <2>1, <2>4
  <2>6. LatestState(s, id) = c.orders[id]
    BY <1>1, <1>5, <2>2, <2>5 DEF LatestState
  <2>7. id \in KnownOrders(s)
    BY <1>2, <1>6, <2>1 DEF KnownOrders
  <2> QED BY <2>6, <2>7 DEF OpenOrders
<1>7. ASSUME NEW id, id \notin DOMAIN c.orders PROVE id \notin OpenOrders(s)
  <2>1. Mentions(s, id) = Mentions(rows, id)
    BY <1>1, <1>3, <1>5, <1>7 DEF Mentions
  <2>2. CASE Mentions(rows, id) = {}
    BY <2>1, <2>2 DEF OpenOrders, KnownOrders
  <2>3. CASE Mentions(rows, id) # {} /\ id \in Dates
    <3>1. Mentions(rows, id) \subseteq 1..n
      BY <1>3 DEF Mentions
    <3>2. PICK i : i = CHOOSE x \in Mentions(rows, id) : \A m \in Mentions(rows, id) : x >= m
      OBVIOUS
    <3>3. \E x \in Mentions(rows, id) : \A m \in Mentions(rows, id) : x >= m
      BY <2>3, <3>1, GreatestPosition
    <3>4. i \in 1..n
      BY <3>1, <3>2, <3>3
    <3>5. LatestState(rows, id) = rows[i].payload.orders[id]
      BY <3>2 DEF LatestState
    <3>6. LatestState(s, id) = s[i].payload.orders[id]
      BY <2>1, <3>2 DEF LatestState
    <3>7. id \in KnownOrders(rows) /\ id \notin OpenOrders(rows)
      BY <1>1, <1>7, <2>3 DEF KnownOrders
    <3> QED BY <1>5, <3>4, <3>5, <3>6, <3>7 DEF OpenOrders
  <2>4. CASE id \notin Dates
    BY <2>4 DEF OpenOrders, KnownOrders
  <2> QED BY <2>2, <2>3, <2>4
<1>8. \A id : id \in OpenOrders(s) <=> id \in DOMAIN c.orders /\ c.orders[id] = "pending"
  BY <1>6, <1>7
<1> QED BY <1>1, <1>4, <1>8

(* The latest checkpoint is dated as the last row, later than any other.   *)
LEMMA CheckpointDate ==
  ASSUME StoreInv, damage = 0, sessions # << >>
  PROVE  /\ Checkpoint(sessions) = Last(sessions).payload
         /\ Checkpoint(sessions).date \in Nat
         /\ \A i \in DOMAIN sessions : sessions[i].date \in Nat
         /\ \A i \in DOMAIN sessions : sessions[i].date <= Checkpoint(sessions).date
         /\ \E i \in DOMAIN sessions : sessions[i].date = Checkpoint(sessions).date
<1>1. PICK n \in Nat : n = Len(sessions) /\ DOMAIN sessions = 1..n
  BY Parts DEF StoreInv
<1>2. n \in 1..n /\ Last(sessions) = sessions[n]
  BY <1>1, LastTyped, Parts DEF StoreInv
<1>3. \A i \in 1..n : sessions[i].date \in Nat
  BY <1>1, RowParts, Parts, DatesAreNumbers DEF StoreInv
<1>4. Checkpoint(sessions) = sessions[n].payload
  BY <1>2 DEF Checkpoint
<1>5. sessions[n].payload = Digest(n)
  BY <1>1, <1>2 DEF StoreInv, ChainInv, Undamaged
<1>6. \A i \in 1..n : Digest(i).date = sessions[i].date
  BY <1>1 DEF StoreInv, ChainInv, Chained
<1>7. \A i \in 1..n : i < n => Digest(i).date < Digest(n).date
  BY <1>1, <1>2 DEF StoreInv, ChainInv, Chained
<1>8. \A i \in 1..n : i = n \/ i < n
  OBVIOUS
<1>9. \A i \in 1..n : sessions[i].date <= sessions[n].date
  BY <1>2, <1>3, <1>6, <1>7, <1>8
<1> QED BY <1>1, <1>2, <1>3, <1>4, <1>5, <1>6, <1>9

(* A process that does not move, over tables that do not change, stays up  *)
(* to date.                                                                *)
LEMMA OthersUpToDate ==
  ASSUME NEW p \in Processes, Moves(p), UNCHANGED sessions, NEW q \in Processes \ {p}, UpToDate(q)
  PROVE  UpToDate(q)'
<1>1. pc'[q] = pc[q] /\ memory'[q] = memory[q] /\ call'[q] = call[q]
  BY DEF Moves
<1> QED BY <1>1 DEF UpToDate, Resumed, Answered, Continues

LEMMA TradeContinues ==
  ASSUME IInv, NEW p \in Processes, Resumed(p), Trade(p)
  PROVE  Continues(p)'
<1>0. PICK d \in (memory[p].last + 1)..LastDate :
        \E ids \in {memory[p].open, memory[p].open \union {d}} : \E outcome \in [ids -> Statuses] :
          LET filled == {id \in ids : outcome[id] = "filled"}
          IN /\ call' = [call EXCEPT ![p] =
                  [date |-> d, orders |-> outcome, fills |-> filled,
                   account |-> memory[p].account + Cardinality(filled)]]
             /\ memory' = [memory EXCEPT ![p] =
                  [last |-> d, account |-> memory[p].account + Cardinality(filled),
                   open |-> {id \in ids : outcome[id] = "pending"}]]
  BY DEF Trade
<1>1. PICK ids \in {memory[p].open, memory[p].open \union {d}} : \E outcome \in [ids -> Statuses] :
          LET filled == {id \in ids : outcome[id] = "filled"}
          IN /\ call' = [call EXCEPT ![p] =
                  [date |-> d, orders |-> outcome, fills |-> filled,
                   account |-> memory[p].account + Cardinality(filled)]]
             /\ memory' = [memory EXCEPT ![p] =
                  [last |-> d, account |-> memory[p].account + Cardinality(filled),
                   open |-> {id \in ids : outcome[id] = "pending"}]]
  BY <1>0
<1>2. PICK outcome \in [ids -> Statuses] :
          LET filled == {id \in ids : outcome[id] = "filled"}
          IN /\ call' = [call EXCEPT ![p] =
                  [date |-> d, orders |-> outcome, fills |-> filled,
                   account |-> memory[p].account + Cardinality(filled)]]
             /\ memory' = [memory EXCEPT ![p] =
                  [last |-> d, account |-> memory[p].account + Cardinality(filled),
                   open |-> {id \in ids : outcome[id] = "pending"}]]
  BY <1>1
<1>3. PICK filled : filled = {id \in ids : outcome[id] = "filled"}
  OBVIOUS
<1>4. PICK account : account = memory[p].account + Cardinality(filled)
  OBVIOUS
<1>5. PICK open : open = {id \in ids : outcome[id] = "pending"}
  OBVIOUS
<1>6. PICK c : c = [date |-> d, orders |-> outcome, fills |-> filled, account |-> account]
  OBVIOUS
<1>7. call'[p] = c /\ memory'[p] = [last |-> d, account |-> account, open |-> open]
  BY <1>2, <1>3, <1>4, <1>5, <1>6, Parts
<1>8. c.date = d /\ c.orders = outcome /\ c.fills = filled /\ c.account = account
  BY <1>6
<1>9. /\ memory[p].last = Checkpoint(sessions).date
      /\ memory[p].account = Checkpoint(sessions).account
      /\ memory[p].open = OpenOrders(sessions)
  BY DEF Resumed
<1>10. UNCHANGED sessions
  BY DEF Trade, tables
<1>11. Checkpoint(sessions).date < d
  <2>1. memory[p].last \in Nat /\ d \in (memory[p].last + 1)..LastDate
    BY Parts, DatesAreNumbers DEF MemoryType
  <2> QED BY <1>9, <2>1, DatesAreNumbers
<1>12. OpenOrders(sessions) \subseteq DOMAIN outcome /\ DOMAIN outcome = ids
  BY <1>9
<1>13. open = {id \in DOMAIN c.orders : c.orders[id] = "pending"}
  BY <1>5, <1>8, <1>12
<1>14. \A x : (call[p] = x)' => (Continues(p)' <=>
         /\ Checkpoint(sessions).date < x.date
         /\ x.account = Checkpoint(sessions).account + Cardinality(x.fills)
         /\ memory'[p] = [last |-> x.date, account |-> x.account,
                          open |-> {id \in DOMAIN x.orders : x.orders[id] = "pending"}]
         /\ OpenOrders(sessions) \subseteq DOMAIN x.orders)
  BY <1>10 DEF Continues
<1> QED BY <1>4, <1>7, <1>8, <1>9, <1>11, <1>12, <1>13, <1>14

(* Without an accident the fill index holds the fills of the payloads.     *)
LEMMA IndexedFills ==
  ASSUME StoreInv, damage = 0
  PROVE  index = PayloadFills(sessions)
<1>1. \A i \in DOMAIN sessions : sessions[i].payload = Digest(i)
  BY DEF StoreInv, ChainInv, Undamaged
<1>2. index = UNION {Digest(i).fills : i \in DOMAIN sessions}
  BY DEF StoreInv, ChainInv, Chained
<1> HIDE DEF Digest
<1> QED BY <1>1, <1>2 DEF PayloadFills

(* The commit of a call that continues what is recorded.                   *)
LEMMA CommitAnswers ==
  ASSUME StoreInv, damage = 0, NEW p \in Processes, Continues(p), Commit(p),
         Checkpoint(sessions).account = Cardinality(PayloadFills(sessions))
  PROVE  /\ Checkpoint(sessions').account = Cardinality(PayloadFills(sessions'))
         /\ Answered(p)'
<1> USE Parts DEF StoreInv
<1>1. PICK c \in Payloads : c = call[p]
  BY CommitTables
<1>2. PICK r \in RowType : r = Row(c)
  BY <1>1, CommitTables
<1>3. r.payload = c
  BY <1>2, RowTyped
<1>4. PICK n \in Nat : n = Len(sessions) /\ DOMAIN sessions = 1..n
  OBVIOUS
<1>5. PICK s : s = sessions'
  OBVIOUS
<1>6. s = Append(sessions, r)
  BY <1>1, <1>2, <1>5, CommitTables
<1>7. s # << >> /\ Len(s) = n + 1 /\ DOMAIN s = 1..(n + 1) /\ s[n + 1] = r
      /\ \A i \in 1..n : s[i] = sessions[i]
  BY <1>4, <1>6
<1>8. Last(s) = r
  BY <1>7 DEF Last
<1>9. Checkpoint(s) = c
  BY <1>3, <1>7, <1>8 DEF Checkpoint
<1>10. /\ c.account = Checkpoint(sessions).account + Cardinality(c.fills)
       /\ memory[p] = [last |-> c.date, account |-> c.account,
                       open |-> {id \in DOMAIN c.orders : c.orders[id] = "pending"}]
       /\ OpenOrders(sessions) \subseteq DOMAIN c.orders
  BY <1>1 DEF Continues
<1>11. OpenOrders(s) = {id \in DOMAIN c.orders : c.orders[id] = "pending"}
  BY <1>3, <1>6, <1>10, OpenOrdersAfter
<1>12. PayloadFills(s) = PayloadFills(sessions) \union c.fills
  <2>1. \A x : x \in PayloadFills(s) <=> \E i \in 1..(n + 1) : x \in s[i].payload.fills
    BY <1>7 DEF PayloadFills
  <2>2. \A x : x \in PayloadFills(sessions) <=> \E i \in 1..n : x \in sessions[i].payload.fills
    BY <1>4 DEF PayloadFills
  <2>3. \A i \in 1..(n + 1) : i \in 1..n \/ i = n + 1
    OBVIOUS
  <2>4. \A i \in 1..n : i \in 1..(n + 1)
    OBVIOUS
  <2>5. n + 1 \in 1..(n + 1)
    OBVIOUS
  <2>6. \A x : x \in PayloadFills(s) <=> x \in PayloadFills(sessions) \/ x \in c.fills
    BY <1>3, <1>7, <2>1, <2>2, <2>3, <2>4, <2>5
  <2> QED BY <2>6
<1>13. Cardinality(PayloadFills(s)) = c.account
  <2>1. PICK F : F = PayloadFills(sessions)
    OBVIOUS
  <2>2. F = index /\ F \subseteq Dates /\ c.fills \subseteq Dates
    BY <2>1, IndexedFills, PayloadParts
  <2>3. c.fills \intersect F = {}
    BY <1>1, <2>2, CommitTables
  <2>4. IsFiniteSet(F) /\ IsFiniteSet(c.fills)
    BY <2>2, DatesAreNumbers, FS_Subset
  <2>5. Cardinality(F) \in Nat /\ Cardinality(c.fills) \in Nat
    BY <2>4, FS_CardinalityType
  <2>6. F \intersect c.fills = {} /\ Cardinality({}) = 0
    BY <2>3, FS_EmptySet
  <2>7. Cardinality(F \union c.fills)
          = Cardinality(F) + Cardinality(c.fills) - Cardinality(F \intersect c.fills)
    BY <2>4, FS_Union
  <2>8. Cardinality(F \union c.fills) = Cardinality(F) + Cardinality(c.fills)
    <3>1. PICK a \in Nat, b \in Nat : a = Cardinality(F) /\ b = Cardinality(c.fills)
      BY <2>5
    <3>2. Cardinality(F \intersect c.fills) = 0
      BY <2>6
    <3>3. Cardinality(F \union c.fills) = a + b - 0
      BY <2>7, <3>1, <3>2
    <3>4. a + b - 0 = a + b
      OBVIOUS
    <3> QED BY <3>1, <3>3, <3>4
  <2> QED BY <1>10, <1>12, <2>1, <2>8
<1>14. memory' = memory /\ call' = call
  BY CommitTables
<1>15. \A x : (sessions = x)' => (Answered(p)' <=>
         /\ memory'[p] = [last |-> Checkpoint(x).date, account |-> Checkpoint(x).account,
                          open |-> OpenOrders(x)]
         /\ x # << >> /\ Last(x).payload = call'[p])
  BY DEF Answered, Resumed
<1>16. /\ memory'[p] = [last |-> Checkpoint(s).date, account |-> Checkpoint(s).account,
                        open |-> OpenOrders(s)]
       /\ s # << >> /\ Last(s).payload = call'[p]
  BY <1>1, <1>3, <1>7, <1>8, <1>9, <1>10, <1>11, <1>14
<1>17. Answered(p)'
  BY <1>5, <1>15, <1>16
<1> QED BY <1>5, <1>9, <1>13, <1>17

(* The others are outside of the database while one process has it.        *)
LEMMA OthersOutside ==
  ASSUME OneProcessPerRun, StoreInv, NEW p \in Processes, pc[p] \in OpenSteps,
         NEW q \in Processes \ {p}
  PROVE  pc[q] \notin OpenSteps
  BY DEF OneProcessPerRun, StoreInv, Identified, IdentityAccepted

LEMMA RestoreUpToDate ==
  ASSUME IInv, NEW p \in Processes, UpToDate(p), RestorePortfolio(p) \/ RestoreOpenOrders(p)
  PROVE  UpToDate(p)'
<1> USE Parts
<1>1. memory[p] \in MemoryType /\ UNCHANGED sessions
  BY DEF RestorePortfolio, RestoreOpenOrders, tables
<1>2. CASE RestorePortfolio(p)
  <2>1. pc'[p] = "restoring"
    BY <1>2 DEF RestorePortfolio, Goto
  <2>2. PICK d, a : d = Checkpoint(sessions).date /\ a = Checkpoint(sessions).account
    OBVIOUS
  <2>3. memory'[p] = [memory[p] EXCEPT !.last = d, !.account = a]
    BY <1>2, <2>2 DEF RestorePortfolio
  <2>4. memory'[p].last = d /\ memory'[p].account = a
    BY <1>1, <2>3 DEF MemoryType
  <2> QED BY <1>1, <2>1, <2>2, <2>4 DEF UpToDate
<1>3. CASE RestoreOpenOrders(p)
  <2>1. pc'[p] = "trading" /\ pc[p] = "restoring"
    BY <1>3 DEF RestoreOpenOrders, Goto
  <2>2. PICK d, a, o : d = Checkpoint(sessions).date /\ a = Checkpoint(sessions).account
                       /\ o = OpenOrders(sessions)
    OBVIOUS
  <2>3. memory'[p] = [memory[p] EXCEPT !.open = o]
    BY <1>3, <2>2 DEF RestoreOpenOrders
  <2>4. memory[p].last = d /\ memory[p].account = a
    BY <2>1, <2>2 DEF UpToDate
  <2>5. memory'[p] = [last |-> d, account |-> a, open |-> o]
    BY <1>1, <2>3, <2>4 DEF MemoryType
  <2>6. Resumed(p)'
    BY <1>1, <2>2, <2>5 DEF Resumed
  <2> QED BY <2>1, <2>6 DEF UpToDate
<1> QED BY <1>2, <1>3

(* A call that continues what is recorded is dated later than all of it.   *)
LEMMA ContinuesLater ==
  ASSUME StoreInv, damage = 0, NEW p \in Processes, pc[p] \in InCall, Continues(p)
  PROVE  SameDate(p) = {}
<1>1. SUFFICES ASSUME NEW i \in DOMAIN sessions, sessions[i].date = call[p].date PROVE FALSE
  BY DEF SameDate
<1>2. sessions # << >>
  BY <1>1
<1>3. call[p].date \in Nat
  <2>1. PICK c \in Payloads : c = call[p]
    BY DEF StoreInv, IInv, Calls
  <2> QED BY <2>1, PayloadParts, DatesAreNumbers
<1>4. Checkpoint(sessions).date < call[p].date
  BY DEF Continues
<1> QED BY <1>1, <1>2, <1>3, <1>4, CheckpointDate

(* An answered call has its date in the tables.                            *)
LEMMA AnsweredRecorded ==
  ASSUME StoreInv, damage = 0, NEW p \in Processes, Answered(p)
  PROVE  SameDate(p) # {}
<1>1. sessions # << >> /\ Last(sessions).payload = call[p]
  BY DEF Answered
<1>2. PICK i \in DOMAIN sessions : sessions[i].date = Last(sessions).payload.date
  BY <1>1, CheckpointDate
<1> QED BY <1>1, <1>2 DEF SameDate

(* The steps of commit_session that leave the tables alone.                *)
LEMMA CallUpToDate ==
  ASSUME StoreInv, damage = 0, NEW p \in Processes, UpToDate(p),
         Begin(p) \/ AnswerRetry(p) \/ InsertSession(p) \/ Proceed(p) \/ Retry(p)
  PROVE  UpToDate(p)'
<1> USE Parts DEF StoreInv
<1>1. UNCHANGED <<sessions, memory>>
  BY DEF Begin, AnswerRetry, InsertSession, Proceed, Retry, tables, local
<1>2. Resumed(p) => Resumed(p)'
  BY <1>1 DEF Resumed
<1>3. UNCHANGED call => (Answered(p) => Answered(p)') /\ (Continues(p) => Continues(p)')
  BY <1>1, <1>2 DEF Answered, Continues
<1>4. CASE Begin(p)
  <2>1. pc[p] = "begin" /\ pc'[p] = "decide" /\ UNCHANGED call
    BY <1>4 DEF Begin, Goto, local
  <2> QED BY <2>1, <1>3 DEF UpToDate
<1>5. CASE AnswerRetry(p)
  <2>1. pc[p] = "decide" /\ pc'[p] = "returned" /\ UNCHANGED call /\ SameDate(p) # {}
    BY <1>5 DEF AnswerRetry, EndTransaction, Goto, local
  <2>2. Answered(p)
    BY <2>1, ContinuesLater DEF UpToDate, InCall
  <2> QED BY <2>1, <2>2, <1>3 DEF UpToDate
<1>6. CASE InsertSession(p)
  <2>1. pc[p] = "decide" /\ pc'[p] = "commit" /\ UNCHANGED call /\ SameDate(p) = {}
    BY <1>6 DEF InsertSession, Goto
  <2>2. Continues(p)
    BY <2>1, AnsweredRecorded DEF UpToDate
  <2> QED BY <2>1, <2>2, <1>3 DEF UpToDate
<1>7. CASE Proceed(p)
  <2>1. pc[p] = "returned" /\ pc'[p] = "trading"
    BY <1>7 DEF Proceed, Goto
  <2> QED BY <2>1, <1>2 DEF UpToDate, Answered
<1>8. CASE Retry(p)
  <2>1. pc[p] = "returned" /\ pc'[p] = "begin" /\ UNCHANGED call
    BY <1>8 DEF Retry, Goto, local
  <2> QED BY <2>1, <1>3 DEF UpToDate
<1> QED BY <1>4, <1>5, <1>6, <1>7, <1>8

LEMMA InitSoloInv == Init => SoloInv
<1> SUFFICES ASSUME Init PROVE SoloInv
  OBVIOUS
<1>1. Checkpoint(sessions).account = 0
  BY DEF Init, Checkpoint, NoPayload
<1>2. PayloadFills(sessions) = {}
  BY DEF Init, PayloadFills
<1>3. \A p \in Processes : UpToDate(p)
  BY DEF Init, UpToDate
<1> QED BY <1>1, <1>2, <1>3, FS_EmptySet DEF SoloInv

(* A step of a process that commits nothing.                               *)
LEMMA WorkKeepsSolo ==
  ASSUME StoreInv, SoloInv, damage = 0, NEW p \in Processes, Work(p) \/ Crash(p), ~Commit(p),
         UNCHANGED <<sessions, index, damage>>
  PROVE  SoloInv'
<1> USE Parts DEF StoreInv
<1>1. UpToDate(p)
  BY DEF SoloInv
<1>2. UpToDate(p)'
  <2>1. CASE ReadMetadata(p) \/ Identify(p) \/ RejectCommit(p) \/ Crash(p)
    <3>1. pc'[p] \in {"identify", "ready", "failed", "refused", "start"}
      BY <2>1 DEF ReadMetadata, Identify, InsertMetadata, RejectCommit, Crash, EndTransaction, Goto
    <3> QED BY <3>1 DEF UpToDate
  <2>2. CASE RestorePortfolio(p) \/ RestoreOpenOrders(p)
    BY <1>1, <2>2, RestoreUpToDate
  <2>3. CASE Trade(p)
    <3>1. pc[p] = "trading" /\ pc'[p] = "begin"
      BY <2>3 DEF Trade, Goto
    <3>2. Continues(p)'
      BY <1>1, <2>3, <3>1, TradeContinues DEF UpToDate
    <3> QED BY <3>1, <3>2 DEF UpToDate
  <2>4. CASE Begin(p) \/ AnswerRetry(p) \/ InsertSession(p) \/ Proceed(p) \/ Retry(p)
    BY <1>1, <2>4, CallUpToDate
  <2> QED BY <2>1, <2>2, <2>3, <2>4 DEF Work
<1>3. ASSUME NEW q \in Processes \ {p} PROVE UpToDate(q)'
  <2>1. Moves(p)
    BY WorkMoves
  <2>2. UpToDate(q)
    BY DEF SoloInv
  <2> QED BY <2>1, <2>2, OthersUpToDate
<1>4. \A q \in Processes : UpToDate(q)'
  BY <1>2, <1>3
<1>5. Checkpoint(sessions').account = Cardinality(PayloadFills(sessions'))
  BY DEF SoloInv
<1> QED BY <1>4, <1>5 DEF SoloInv

LEMMA CommitKeepsSolo ==
  ASSUME OneProcessPerRun, StoreInv, SoloInv, damage = 0, NEW p \in Processes, Commit(p)
  PROVE  SoloInv'
<1> USE Parts DEF StoreInv
<1>1. pc[p] = "commit" /\ pc' = [pc EXCEPT ![p] = "returned"]
  BY CommitTables
<1>2. Continues(p)
  BY <1>1 DEF SoloInv, UpToDate
<1>3. /\ Checkpoint(sessions').account = Cardinality(PayloadFills(sessions'))
      /\ Answered(p)'
  BY <1>2, CommitAnswers DEF SoloInv
<1>4. UpToDate(p)'
  BY <1>1, <1>3 DEF UpToDate
<1>5. ASSUME NEW q \in Processes \ {p} PROVE UpToDate(q)'
  <2>1. pc[q] \notin OpenSteps /\ pc'[q] = pc[q]
    BY <1>1, OthersOutside DEF OpenSteps, Steps
  <2> QED BY <2>1 DEF UpToDate, OpenSteps, Steps
<1>6. \A q \in Processes : UpToDate(q)'
  BY <1>4, <1>5
<1> QED BY <1>3, <1>6 DEF SoloInv

LEMMA SoloInvStep ==
  ASSUME OneProcessPerRun
  PROVE  StoreInv /\ SoloInv /\ [Next]_vars => SoloInv'
<1> SUFFICES ASSUME StoreInv, SoloInv, [Next]_vars PROVE SoloInv'
  OBVIOUS
<1>1. damage \in 0..MaxDamage /\ MaxDamage \in Nat
  BY BoundsAssumption DEF BoundsAssumption, StoreInv, IInv, TypeOK
<1>2. CASE UNCHANGED vars
  BY <1>2 DEF vars, tables, local, SoloInv, UpToDate, Resumed, Answered, Continues
<1>3. CASE Damage
  <2>1. damage' # 0
    BY <1>1, <1>3 DEF Damage
  <2> QED BY <2>1 DEF SoloInv
<1>4. ASSUME NEW p \in Processes, Commit(p) PROVE SoloInv'
  <2>1. damage' = damage
    BY <1>4, CommitTables DEF StoreInv
  <2>2. CASE damage = 0
    BY <1>4, <2>2, CommitKeepsSolo
  <2>3. CASE damage # 0
    BY <2>1, <2>3 DEF SoloInv
  <2> QED BY <2>2, <2>3
<1>5. ASSUME NEW p \in Processes, Work(p) \/ Crash(p), ~Commit(p), UNCHANGED <<sessions, index, damage>>
      PROVE  SoloInv'
  <2>1. CASE damage = 0
    BY <1>5, <2>1, WorkKeepsSolo
  <2>2. CASE damage # 0
    BY <1>5, <2>2 DEF SoloInv
  <2> QED BY <2>1, <2>2
<1> QED BY <1>2, <1>3, <1>4, <1>5, StepCases DEF StoreInv

LEMMA SoloInvHolds ==
  ASSUME OneProcessPerRun
  PROVE  Spec => [](StoreInv /\ SoloInv)
<1>1. Init => SoloInv
  BY InitSoloInv
<1>2. StoreInv /\ SoloInv /\ [Next]_vars => SoloInv'
  BY SoloInvStep
<1> QED BY <1>1, <1>2, StoreInvHolds, PTL DEF Spec

(* Whatever a process has crashed in the middle of, restored and retried,  *)
(* the account of the latest checkpoint is the number of shares its fills  *)
(* bought: no session is lost and none is applied twice.                   *)
THEOREM AccountAlwaysExplained ==
  ASSUME OneProcessPerRun
  PROVE  Spec => []AccountExplained
<1>1. SoloInv => AccountExplained
  BY DEF SoloInv, AccountExplained
<1> QED BY <1>1, SoloInvHolds, PTL

(* A process trades on exactly what is recorded, after a restart as after  *)
(* its own commit.                                                         *)
THEOREM ResumesWhatIsRecorded ==
  ASSUME OneProcessPerRun
  PROVE  Spec => []ResumesRecorded
<1>1. SoloInv => ResumesRecorded
  BY DEF SoloInv, UpToDate, Resumed, ResumesRecorded
<1> QED BY <1>1, SoloInvHolds, PTL
=============================================================================
