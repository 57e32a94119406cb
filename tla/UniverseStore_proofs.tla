------------------------ MODULE UniverseStore_proofs ------------------------
(***************************************************************************)
(* The store of the observable universe loads after whatever has cut a     *)
(* call short, and is the register of UniverseRegister to its readers, for *)
(* any number of runs, universes, times, crashes and failures.  Orderly is *)
(* the inductive invariant: what the lock's holder has prepared is still   *)
(* fit to replace the pointer, at every label between the two.             *)
(***************************************************************************)
EXTENDS UniverseStore, SequenceTheorems, TLAPS

-----------------------------------------------------------------------------
(* The invariant                                                           *)

(* The types of the state.                                                 *)
Typed ==
  /\ snapshots \subseteq Snapshots /\ manifests \subseteq Seq(Snapshots)
  /\ pointer \in Pointers \union {None} /\ identity \in Universes \union {None}
  /\ marker \in Markers \union {None}
  /\ DOMAIN pc = Processes /\ DOMAIN seen = Processes
  /\ op \in [Processes -> {"load", "succeed", "confirm", "fail"}]
  /\ now \in [Processes -> 0..LastTime] /\ draft \in [Processes -> Pointers \union {None}]
  /\ \A p \in Processes : pc[p] # "idle" => now[p] \in Times

(* The lock tells who touches the store.                                   *)
Holds(p) == pc[p] \notin {"idle", "waiting"}
Exclusive == \A p \in Processes : Holds(p) => lock = p

(* All snapshots of the chain define the evidence as the last does.        *)
OneHistory(chain) == \A i \in DOMAIN chain : chain[i].evidence = Last(chain).evidence

(* A binding is only begun when there is no chain.                         *)
Unclaimable == marker # None /\ marker.prior # None => marker.prior.chain = << >>

Consistent == StoreLoads /\ OneHistory(Chain) /\ Unclaimable

Succeeds(p) == draft[p].status = "succeeded"
New(p) == Last(draft[p].chain)
Begun(p) == marker = [universe |-> New(p).universe, prior |-> pointer]

(* What was decided is still fit to replace the current pointer.           *)
Prepared(p) ==
  /\ draft[p] # None /\ seen[p] = Current /\ Advances(draft[p]) /\ draft[p].cutoff <= draft[p].at
  /\ ~Succeeds(p) => draft[p].chain = Chain
  /\ Succeeds(p) =>
       /\ New(p) \in Snapshots /\ New(p).cutoff = draft[p].cutoff /\ draft[p].at = draft[p].cutoff
       /\ draft[p].chain = ChainOf(New(p)) /\ (identity # None => identity = New(p).universe)
       /\ Chain # << >> => Last(Chain) = New(p) \/ Comparable(Last(Chain), New(p))

Stage(p) ==
  /\ pc[p] \in {"clear_found", "clear_own", "clear_undone"} => ~Unclaimed(marker)
  /\ pc[p] \in {"decide", "write_snapshot", "write_manifest", "write_marker"} => marker = None
  /\ pc[p] \in {"write_snapshot", "write_manifest", "write_marker", "write_identity", "write_pointer"} =>
       Prepared(p) /\ (pc[p] # "write_pointer" => Succeeds(p))
  /\ pc[p] \in {"write_manifest", "write_marker", "write_identity", "write_pointer"} /\ Succeeds(p) =>
       New(p) \in snapshots
  /\ pc[p] \in {"write_marker", "write_identity", "write_pointer"} /\ Succeeds(p) =>
       draft[p].chain \in manifests
  /\ pc[p] \in {"write_marker", "write_identity"} => identity = None
  /\ pc[p] = "write_identity" => Begun(p)
  /\ pc[p] = "write_pointer" =>
       IF Succeeds(p) THEN identity = New(p).universe /\ (marker = None \/ Begun(p)) ELSE marker = None
  /\ pc[p] = "undo_binding" =>
       IF pointer = draft[p] THEN Chain # << >>
       ELSE Chain = << >> /\ identity \in {None, New(p).universe}

Orderly == Typed /\ Exclusive /\ Consistent /\ \A p \in Processes : Stage(p)

-----------------------------------------------------------------------------
(* Chains                                                                  *)

(* The chain of a typed pointer.                                           *)
LEMMA ChainTyped ==
  ASSUME pointer \in Pointers \union {None}
  PROVE  /\ Chain \in Seq(Snapshots) /\ Len(Chain) \in Nat
         /\ Chain # << >> => Len(Chain) >= 1 /\ Last(Chain) \in Snapshots
<1>1. Chain \in Seq(Snapshots)
  BY DEF Chain, Pointers
<1> QED
  BY <1>1 DEF Last

(* A chain with one more snapshot.                                         *)
LEMMA ChainAppended ==
  ASSUME NEW chain \in Seq(Snapshots), NEW s \in Snapshots
  PROVE  /\ Append(chain, s) \in Seq(Snapshots) /\ Append(chain, s) # << >>
         /\ Len(Append(chain, s)) = Len(chain) + 1 /\ Last(Append(chain, s)) = s
         /\ Append(chain, s)[Len(chain) + 1] = s
         /\ \A i \in 1..Len(chain) : Append(chain, s)[i] = chain[i]
BY DEF Last

(* Publishing a snapshot extends the chain by it, or leaves it alone.      *)
LEMMA ChainExtended ==
  ASSUME pointer \in Pointers \union {None}, NEW s \in Snapshots
  PROVE  /\ ChainOf(s) \in Seq(Snapshots) /\ ChainOf(s) # << >> /\ Last(ChainOf(s)) = s
         /\ \/ ChainOf(s) = Chain /\ Chain # << >> /\ Last(Chain) = s
            \/ ChainOf(s) = Append(Chain, s)
BY ChainTyped, ChainAppended DEF ChainOf

(* What is in the store stays there.                                       *)
LEMMA AncestryStays ==
  ASSUME NEW chain, AncestryLoads(chain), snapshots \subseteq snapshots', manifests \subseteq manifests'
  PROVE  AncestryLoads(chain)'
BY DEF AncestryLoads, Comparable

(* A chain loads with one more snapshot if its manifest and the snapshot   *)
(* are there and the two last are comparable.                              *)
LEMMA AncestryAppended ==
  ASSUME NEW chain \in Seq(Snapshots), NEW s \in Snapshots, AncestryLoads(chain),
         s \in snapshots, Append(chain, s) \in manifests,
         chain # << >> => Comparable(Last(chain), s)
  PROVE  AncestryLoads(Append(chain, s))
<1> DEFINE longer == Append(chain, s)
<1>1. /\ longer \in Seq(Snapshots) /\ DOMAIN longer = 1..(Len(chain) + 1) /\ DOMAIN chain = 1..Len(chain)
      /\ longer[Len(chain) + 1] = s /\ \A i \in 1..Len(chain) : longer[i] = chain[i]
      /\ Len(longer) = Len(chain) + 1 /\ Len(chain) \in Nat
  BY ChainAppended
<1>2. ASSUME NEW i \in 1..Len(chain)
      PROVE  /\ SubSeq(longer, 1, i) \in manifests /\ longer[i] \in snapshots
             /\ i > 1 => Comparable(longer[i - 1], longer[i])
  <2>1. SubSeq(longer, 1, i) = SubSeq(chain, 1, i)
    <3>1. SubSeq(longer, 1, i) = Restrict(longer, 1..i) /\ SubSeq(chain, 1, i) = Restrict(chain, 1..i)
      <4>1. i \in 0..Len(longer) /\ i \in 0..Len(chain)
        BY <1>1
      <4> HIDE DEF longer
      <4> QED
        BY <1>1, <4>1, SubSeqRestrict
    <3>2. \A j \in 1..i : longer[j] = chain[j]
      BY <1>1
    <3> QED
      BY <3>1, <3>2 DEF Restrict
  <2>2. i \in DOMAIN chain /\ (i > 1 => i - 1 \in 1..Len(chain))
    BY <1>1
  <2>3. /\ SubSeq(chain, 1, i) \in manifests /\ chain[i] \in snapshots
        /\ i > 1 => Comparable(chain[i - 1], chain[i])
    BY <2>2 DEF AncestryLoads
  <2>4. longer[i] = chain[i] /\ (i > 1 => longer[i - 1] = chain[i - 1])
    BY <1>1, <2>2
  <2> HIDE DEF longer
  <2> QED
    BY <2>1, <2>3, <2>4
<1>3. /\ SubSeq(longer, 1, Len(chain) + 1) \in manifests
      /\ longer[Len(chain) + 1] \in snapshots
      /\ Len(chain) + 1 > 1 => Comparable(longer[Len(chain) + 1 - 1], longer[Len(chain) + 1])
  <2>1. SubSeq(longer, 1, Len(longer)) = longer
    BY <1>1, SubSeqFull
  <2>2. Len(chain) + 1 > 1 => Comparable(chain[Len(chain)], s)
    BY <1>1 DEF Last
  <2> HIDE DEF longer
  <2>3. Len(chain) + 1 > 1 => longer[Len(chain) + 1 - 1] = chain[Len(chain)]
    BY <1>1
  <2> QED
    BY <1>1, <2>1, <2>2, <2>3 DEF longer
<1> HIDE DEF longer
<1>4. AncestryLoads(longer)
  BY <1>1, <1>2, <1>3 DEF AncestryLoads
<1> QED
  BY <1>4 DEF longer

-----------------------------------------------------------------------------
(* The store in order                                                      *)

(* Nothing is stored at first.                                             *)
LEMMA InitOrderly == Init => Orderly
<1> SUFFICES ASSUME Init PROVE Orderly
  OBVIOUS
<1>1. Typed
  BY BoundsAssumption DEF BoundsAssumption, Init, Typed
<1>2. Chain = << >> /\ DOMAIN Chain = {} /\ marker = None /\ identity = None /\ pointer = None
  BY DEF Init, Chain
<1>3. Consistent
  BY <1>2 DEF Consistent, StoreLoads, Unclaimed, LoadsWith, AncestryLoads, OneHistory, Unclaimable
<1>4. Exclusive /\ \A p \in Processes : Stage(p)
  BY DEF Init, Exclusive, Holds, Stage
<1> QED
  BY <1>1, <1>3, <1>4 DEF Orderly

(* What a run without the lock has prepared is nobody's concern.           *)
LEMMA WaitingStage ==
  ASSUME NEW p \in Processes, ~Holds(p)
  PROVE  Stage(p)
BY DEF Holds, Stage

(* Whoever holds the lock is alone with the store.                         *)
LEMMA HolderAlone ==
  ASSUME Orderly, NEW p \in Processes, Holds(p), NEW q \in Processes, q # p
  PROVE  ~Holds(q)
BY DEF Orderly, Exclusive

(* A step of the holder that keeps the lock concerns nobody else.          *)
LEMMA HolderOrderly ==
  ASSUME Orderly, NEW p \in Processes, Holds(p), NEW label, Goto(p, label), lock' = lock,
         Typed', Consistent', Stage(p)'
  PROVE  Orderly'
<1>1. \A q \in Processes \ {p} : ~Holds(q) /\ pc'[q] = pc[q]
  BY HolderAlone DEF Goto
<1>2. \A q \in Processes \ {p} : Stage(q)'
  <2>1. \A q \in Processes \ {p} : ~Holds(q)'
    BY <1>1 DEF Holds
  <2> QED
    BY <2>1 DEF Stage, Holds
<1>3. Exclusive'
  BY <1>1 DEF Orderly, Exclusive, Holds
<1> QED
  BY <1>2, <1>3 DEF Orderly

(* A store left alone.                                                     *)
LEMMA StoreConsistent ==
  ASSUME Consistent, UNCHANGED store
  PROVE  Consistent'
BY DEF Consistent, store, StoreLoads, Unclaimed, LoadsWith, AncestryLoads, Comparable, Chain,
       OneHistory, Unclaimable

(* The steps that begin and end an access.                                 *)
LEMMA CallsOrderly ==
  ASSUME Orderly, NEW p \in Processes,
         Call(p) \/ Acquire(p) \/ TimeOut(p) \/ Release(p) \/ Crash(p)
  PROVE  Orderly'
<1>1. UNCHANGED store /\ \A q \in Processes \ {p} : pc'[q] = pc[q] /\ draft'[q] = draft[q] /\ seen'[q] = seen[q]
  BY DEF Call, Acquire, TimeOut, Release, Crash, Goto, Leave, Enter, After, Orderly, Typed
<1>2. pc'[p] \in {"idle", "waiting"} \/ (lock' = p /\ lock = Free /\ pc'[p] = "recover")
  BY DEF Call, Acquire, Acquirable, TimeOut, Release, Crash, Goto, Leave, Enter, After, Orderly, Typed
<1>3. /\ op' \in [Processes -> {"load", "succeed", "confirm", "fail"}]
      /\ now' \in [Processes -> 0..LastTime] /\ DOMAIN seen' = Processes /\ DOMAIN pc' = Processes
      /\ \A q \in Processes : pc'[q] # "idle" => now'[q] \in Times
  <2>1. Typed /\ 0 \in 0..LastTime /\ \A t \in Times : t \in 0..LastTime
    BY BoundsAssumption DEF BoundsAssumption, Orderly, Times
  <2>2. CASE Call(p)
    BY <2>1, <2>2 DEF Typed, Call, Goto
  <2>3. CASE Acquire(p)
    BY <2>1, <2>3 DEF Typed, Acquire, Stands, Goto
  <2>4. ASSUME NEW outcome, After(p, outcome), pc[p] # "idle"
        PROVE  /\ op' \in [Processes -> {"load", "succeed", "confirm", "fail"}]
               /\ now' \in [Processes -> 0..LastTime] /\ DOMAIN seen' = Processes /\ DOMAIN pc' = Processes
               /\ \A q \in Processes : pc'[q] # "idle" => now'[q] \in Times
    <3>1. (\E access \in {"succeed", "confirm", "fail"} : Enter(p, access)) \/ Leave(p)
      BY <2>4 DEF After
    <3>2. ASSUME NEW access \in {"succeed", "confirm", "fail"}, Enter(p, access)
          PROVE  /\ op' \in [Processes -> {"load", "succeed", "confirm", "fail"}]
                 /\ now' \in [Processes -> 0..LastTime] /\ DOMAIN seen' = Processes /\ DOMAIN pc' = Processes
                 /\ \A q \in Processes : pc'[q] # "idle" => now'[q] \in Times
      BY <2>1, <2>4, <3>2 DEF Typed, Enter, Goto
    <3>3. CASE Leave(p)
      BY <2>1, <3>3 DEF Typed, Leave, Goto
    <3> QED
      BY <3>1, <3>2, <3>3
  <2>5. CASE TimeOut(p)
    BY <2>4, <2>5 DEF TimeOut, Stands
  <2>6. CASE Release(p)
    BY <2>4, <2>6 DEF Release
  <2>7. CASE Crash(p)
    BY <2>1, <2>7 DEF Typed, Crash, Leave, Goto
  <2> QED
    BY <2>2, <2>3, <2>5, <2>6, <2>7
<1>4. draft' \in [Processes -> Pointers \union {None}]
  BY DEF Call, Acquire, TimeOut, Release, Crash, Kept, Orderly, Typed
<1>5. Typed'
  BY <1>1, <1>3, <1>4 DEF store, Orderly, Typed
<1>6. Consistent'
  BY <1>1, StoreConsistent DEF Orderly
<1>7. \/ lock' = lock \/ (lock' = p /\ lock = Free /\ ~Holds(p)) \/ (lock = p /\ lock' = Free)
  BY DEF Call, Acquire, Acquirable, TimeOut, Release, Crash, Unlocked, Stands, Holds, Orderly, Exclusive
<1>8. Exclusive'
  BY <1>1, <1>2, <1>7, FreeAssumption DEF FreeAssumption, Orderly, Exclusive, Holds
<1>9. ASSUME NEW q \in Processes, q # p PROVE Stage(q)'
  <2>1. CASE ~Holds(q)
    BY <1>1, <1>9, <2>1 DEF Stage, Holds
  <2>2. CASE Holds(q)
    BY <1>1, <1>9, <2>2
    DEF Orderly, Stage, store, Unclaimed, Prepared, Begun, New, Succeeds, Current, Advances,
        Comparable, Chain, ChainOf
  <2> QED
    BY <2>1, <2>2
<1>10. Stage(p)'
  BY <1>2 DEF Stage
<1> QED
  BY <1>5, <1>6, <1>8, <1>9, <1>10 DEF Orderly

-----------------------------------------------------------------------------
(* The steps of the holder                                                 *)

Bound == IF Unclaimed(marker) THEN None ELSE identity

(* A store that only grows, and is bound as before.                        *)
LEMMA BoundConsistent ==
  ASSUME Consistent, pointer' = pointer, snapshots \subseteq snapshots', manifests \subseteq manifests',
         Unclaimable', Bound' = Bound
  PROVE  Consistent'
<1>1. Chain' = Chain
  BY DEF Chain
<1>2. LoadsWith(Bound)
  BY DEF Consistent, StoreLoads, Bound
<1>3. LoadsWith(Bound)'
  BY <1>1, <1>2, AncestryStays DEF LoadsWith
<1>4. OneHistory(Chain)'
  BY <1>1 DEF Consistent, OneHistory
<1> QED
  BY <1>3, <1>4 DEF Consistent, StoreLoads, Bound

(* Recovery leaves nothing unclaimed.                                      *)
LEMMA RecoverOrderly ==
  ASSUME Orderly, NEW p \in Processes, Recover(p) \/ ClearFound(p)
  PROVE  Orderly'
<1> USE NoneAssumption DEF NoneAssumption
<1>1. Typed'
  BY DEF Orderly, Typed, Recover, ClearFound, Writes, Goto, Stands
<1>2. Holds(p) /\ lock' = lock /\ UNCHANGED <<snapshots, manifests, pointer>>
  BY DEF Recover, ClearFound, Writes, Stands, Holds
<1>3. CASE Recover(p)
  <2>1. ~Unclaimed(marker)' /\ Bound' = Bound /\ Unclaimable'
    BY <1>3 DEF Orderly, Typed, Consistent, Unclaimable, Recover, Unclaimed, Bound, Markers
  <2>2. Consistent'
    BY <1>2, <2>1, BoundConsistent DEF Orderly
  <2>3. pc'[p] = "clear_found" /\ Goto(p, "clear_found")
    BY <1>3 DEF Recover, Goto, Orderly, Typed
  <2>4. Stage(p)'
    BY <2>1, <2>3 DEF Stage
  <2> QED
    BY <1>1, <1>2, <2>2, <2>3, <2>4, HolderOrderly
<1>4. CASE ClearFound(p)
  <2>1. ~Unclaimed(marker)
    BY <1>4 DEF Orderly, Stage, ClearFound, Writes, Stands
  <2>2. marker' = None /\ Bound' = Bound /\ Unclaimable'
    BY <1>4, <2>1 DEF Unclaimable, ClearFound, Unclaimed, Bound
  <2>3. Consistent'
    BY <1>2, <2>2, BoundConsistent DEF Orderly
  <2>4. pc'[p] = "decide" /\ Goto(p, "decide")
    BY <1>4 DEF ClearFound, Goto, Orderly, Typed
  <2>5. Stage(p)'
    BY <2>2, <2>4 DEF Stage
  <2> QED
    BY <1>1, <1>2, <2>3, <2>4, <2>5, HolderOrderly
<1> QED
  BY <1>3, <1>4

(* The checks that end an access.                                          *)
LEMMA LookOrderly ==
  ASSUME Orderly, NEW p \in Processes, Look(p) \/ Refuse(p)
  PROVE  Orderly'
<1>1. Holds(p) /\ lock' = lock /\ UNCHANGED store
  BY DEF Look, Refuse, Writes, Stands, Holds
<1>2. PICK label \in {"ok", "failed", "superseded"} : Goto(p, label)
  BY DEF Look, Refuse
<1>3. Typed'
  BY <1>1, <1>2 DEF Look, Refuse, Writes, Stands, Goto, Orderly, Typed, store
<1>4. pc'[p] = label
  BY <1>2 DEF Goto, Orderly, Typed
<1>5. Stage(p)'
  BY <1>4 DEF Stage
<1>6. Consistent'
  BY <1>1, StoreConsistent DEF Orderly
<1> QED
  BY <1>1, <1>2, <1>3, <1>5, <1>6, HolderOrderly

(* Without a marker the store loads as it is bound.                        *)
LEMMA UnmarkedLoads ==
  ASSUME Orderly, marker = None
  PROVE  LoadsWith(identity)
BY DEF Orderly, Consistent, StoreLoads, Unclaimed

(* What is decided is prepared.                                            *)
LEMMA SuccessPrepared ==
  ASSUME Orderly, NEW p \in Processes, DecideSuccess(p)
  PROVE  Orderly'
<1>1. PICK s \in Snapshots :
        LET next == [status |-> "succeeded", at |-> now[p], cutoff |-> s.cutoff, chain |-> ChainOf(s)]
        IN s.cutoff = now[p] /\ Decide(p, next, Advances(next) /\ Publishable(s), "write_snapshot")
  BY DEF DecideSuccess
<1> DEFINE decided == [status |-> "succeeded", at |-> now[p], cutoff |-> s.cutoff, chain |-> ChainOf(s)]
<1>2. s.cutoff = now[p] /\ Decide(p, decided, Advances(decided) /\ Publishable(s), "write_snapshot")
  BY <1>1
<1>3. /\ ChainOf(s) \in Seq(Snapshots) /\ ChainOf(s) # << >> /\ Last(ChainOf(s)) = s
      /\ \/ ChainOf(s) = Chain /\ Chain # << >> /\ Last(Chain) = s
         \/ ChainOf(s) = Append(Chain, s)
  BY ChainExtended DEF Orderly, Typed
<1>4. Holds(p) /\ lock' = lock /\ UNCHANGED <<store, seen, op, now>> /\ marker = None /\ pc[p] = "decide"
  BY <1>2 DEF DecideSuccess, Decide, Stands, Holds, Orderly, Stage
<1>5. Consistent'
  BY <1>4, StoreConsistent DEF Orderly
<1>6. now[p] \in Times /\ s.cutoff \in Times
  BY <1>2, <1>4 DEF Orderly, Typed
<1>7. PICK next \in Pointers : next = decided
  BY <1>3, <1>6 DEF Pointers, Statuses
<1>8. next.status = "succeeded" /\ next.at = s.cutoff /\ next.cutoff = s.cutoff /\ next.chain = ChainOf(s)
  BY <1>2, <1>7
<1> HIDE DEF decided
<1>9. CASE Advances(next) /\ Publishable(s)
  <2>1. draft' = [draft EXCEPT ![p] = next] /\ Goto(p, "write_snapshot") /\ seen[p] = Current
    BY <1>2, <1>7, <1>9 DEF Decide, Expected
  <2>2. draft'[p] = next /\ pc'[p] = "write_snapshot"
    BY <2>1 DEF Orderly, Typed, Goto
  <2>3. Typed'
    BY <1>4, <1>7, <2>1 DEF Orderly, Typed, Goto, store
  <2>4. Chain # << >> => Last(Chain) = s \/ Comparable(Last(Chain), s)
    <3>1. Chain # << >> => Last(Chain).cutoff \in Nat /\ s.cutoff \in Nat
      BY <1>6, ChainTyped, BoundsAssumption DEF BoundsAssumption, Orderly, Typed, Snapshots, Times
    <3> QED
      BY <1>9, <3>1 DEF Publishable
  <2>5. next # None
    BY <1>7, NoneAssumption DEF NoneAssumption
  <2>6. s.cutoff \in Nat
    BY <1>6, BoundsAssumption DEF BoundsAssumption, Times
  <2>7. identity # None => identity = s.universe
    BY <1>9 DEF Publishable
  <2>8. Prepared(p)' /\ Succeeds(p)'
    <3>1. New(p)' = s /\ Succeeds(p)'
      BY <1>3, <1>8, <2>2 DEF New, Succeeds
    <3>2. UNCHANGED <<Chain, Current, pointer, identity>> /\ ChainOf(s)' = ChainOf(s)
      BY <1>4 DEF store, Chain, Current, ChainOf
    <3>3. Advances(next)'
      BY <1>9, <3>2 DEF Advances, AttemptOf
    <3>4. Chain' # << >> => Last(Chain') = s \/ Comparable(Last(Chain'), s)
      BY <2>4, <3>2
    <3> QED
      BY <1>4, <1>8, <2>1, <2>2, <2>5, <2>6, <2>7, <3>1, <3>2, <3>3, <3>4 DEF Prepared, Comparable
  <2>9. Stage(p)'
    <3>1. marker' = None
      BY <1>4 DEF store
    <3> QED
      BY <2>2, <2>8, <3>1 DEF Stage
  <2> QED
    BY <1>4, <1>5, <2>1, <2>3, <2>9, HolderOrderly
<1>10. CASE ~(Advances(next) /\ Publishable(s))
  <2>1. Goto(p, "failed") /\ UNCHANGED draft
    BY <1>2, <1>7, <1>10 DEF Decide
  <2>2. Typed' /\ pc'[p] = "failed"
    BY <1>4, <2>1 DEF Orderly, Typed, Goto, store
  <2>3. Stage(p)'
    BY <2>2 DEF Stage
  <2> QED
    BY <1>4, <1>5, <2>1, <2>2, <2>3, HolderOrderly
<1> QED
  BY <1>9, <1>10

(* And so is a failed attempt, which leaves the chain alone.               *)
LEMMA FailurePrepared ==
  ASSUME Orderly, NEW p \in Processes, DecideFailure(p)
  PROVE  Orderly'
<1>1. PICK t \in now[p]..LastTime :
        LET next == [status |-> "failed", at |-> t, cutoff |-> now[p], chain |-> Chain]
        IN Decide(p, next, Advances(next), "write_pointer")
  BY DEF DecideFailure
<1> DEFINE decided == [status |-> "failed", at |-> t, cutoff |-> now[p], chain |-> Chain]
<1>2. Decide(p, decided, Advances(decided), "write_pointer")
  BY <1>1
<1>3. Holds(p) /\ lock' = lock /\ UNCHANGED <<store, seen, op, now>> /\ marker = None /\ pc[p] = "decide"
  BY <1>2 DEF DecideFailure, Decide, Stands, Holds, Orderly, Stage
<1>4. Consistent'
  BY <1>3, StoreConsistent DEF Orderly
<1>5. now[p] \in Times /\ t \in Times /\ now[p] <= t
  BY <1>3, BoundsAssumption DEF BoundsAssumption, Orderly, Typed, Times
<1>6. PICK next \in Pointers : next = decided
  BY <1>5, ChainTyped DEF Orderly, Typed, Pointers, Statuses
<1>7. /\ next.status = "failed" /\ next.at = t /\ next.cutoff = now[p] /\ next.chain = Chain
      /\ next # None
  BY <1>6, NoneAssumption DEF NoneAssumption
<1> HIDE DEF decided
<1>8. CASE Advances(next)
  <2>1. draft' = [draft EXCEPT ![p] = next] /\ Goto(p, "write_pointer") /\ seen[p] = Current
    BY <1>2, <1>6, <1>8 DEF Decide, Expected
  <2>2. draft'[p] = next /\ pc'[p] = "write_pointer"
    BY <2>1 DEF Orderly, Typed, Goto
  <2>3. Typed'
    BY <1>3, <1>6, <2>1 DEF Orderly, Typed, Goto, store
  <2>4. UNCHANGED <<Chain, Current, pointer, marker>>
    BY <1>3 DEF store, Chain, Current
  <2>5. Advances(next)'
    BY <1>8, <2>4 DEF Advances, AttemptOf
  <2>6. ~Succeeds(p)'
    BY <1>7, <2>2 DEF Succeeds
  <2>7. Prepared(p)'
    BY <1>3, <1>5, <1>6, <1>7, <2>1, <2>2, <2>4, <2>5, <2>6 DEF Prepared
  <2>8. Stage(p)'
    BY <1>3, <2>2, <2>4, <2>6, <2>7 DEF Stage
  <2> QED
    BY <1>3, <1>4, <2>1, <2>3, <2>8, HolderOrderly
<1>9. CASE ~Advances(next)
  <2>1. Goto(p, "failed") /\ UNCHANGED draft
    BY <1>2, <1>6, <1>9 DEF Decide
  <2>2. Typed' /\ pc'[p] = "failed"
    BY <1>3, <2>1 DEF Orderly, Typed, Goto, store
  <2>3. Stage(p)'
    BY <2>2 DEF Stage
  <2> QED
    BY <1>3, <1>4, <2>1, <2>2, <2>3, HolderOrderly
<1> QED
  BY <1>8, <1>9

-----------------------------------------------------------------------------
(* The writes                                                              *)

(* What was prepared stays so until the pointer moves.                     *)
LEMMA PreparedStays ==
  ASSUME NEW p \in Processes, Prepared(p), UNCHANGED <<pointer, seen, draft>>,
         identity' = identity \/ identity' = New(p).universe
  PROVE  Prepared(p)'
<1>1. UNCHANGED <<Chain, Current, New(p), Succeeds(p), ChainOf(New(p))>>
  BY DEF Chain, Current, New, Succeeds, ChainOf
<1>2. Advances(draft[p])'
  BY <1>1 DEF Prepared, Advances, AttemptOf
<1> QED
  BY <1>1, <1>2 DEF Prepared, Comparable

(* A prepared success that finds nothing bound is the first.               *)
LEMMA FirstBinding ==
  ASSUME Orderly, marker = None, identity = None
  PROVE  Chain = << >> /\ (pointer # None => pointer.chain = << >>)
BY UnmarkedLoads DEF LoadsWith, Chain

(* The snapshot and its manifest, before anything names them.              *)
LEMMA ArtifactsOrderly ==
  ASSUME Orderly, NEW p \in Processes, WriteSnapshot(p) \/ WriteManifest(p)
  PROVE  Orderly'
<1>1. /\ Holds(p) /\ lock' = lock /\ UNCHANGED <<pointer, identity, marker, op, now, seen, draft>>
      /\ snapshots \subseteq snapshots' /\ manifests \subseteq manifests'
      /\ pc[p] \in {"write_snapshot", "write_manifest"}
  BY DEF WriteSnapshot, WriteManifest, Writes, Stands, Holds
<1>2. Prepared(p) /\ Succeeds(p) /\ marker = None
  BY <1>1 DEF Orderly, Stage
<1>3. New(p) \in Snapshots /\ draft[p].chain \in Seq(Snapshots)
  BY <1>1, <1>2 DEF Prepared, Orderly, Typed, Pointers
<1>4. PICK label : Goto(p, label)
  BY DEF WriteSnapshot, WriteManifest
<1>5. Typed'
  BY <1>1, <1>3, <1>4 DEF WriteSnapshot, WriteManifest, New, Orderly, Typed, Goto
<1>6. Consistent'
  <2>1. Unclaimable' /\ Bound' = Bound
    BY <1>1 DEF Orderly, Consistent, Unclaimable, Bound, Unclaimed
  <2> QED
    BY <1>1, <2>1, BoundConsistent DEF Orderly
<1>7. Prepared(p)' /\ Succeeds(p)' /\ New(p)' = New(p)
  BY <1>1, <1>2, PreparedStays DEF Succeeds, New
<1>8. Stage(p)'
  <2>1. CASE WriteSnapshot(p)
    <3>1. pc'[p] = "write_manifest" /\ New(p) \in snapshots'
      BY <2>1 DEF WriteSnapshot, Goto, New, Orderly, Typed
    <3> QED
      BY <1>1, <1>2, <1>7, <3>1 DEF Stage
  <2>2. CASE WriteManifest(p)
    <3>1. pc[p] = "write_manifest" /\ draft[p].chain \in manifests' /\ New(p) \in snapshots'
      BY <1>1, <1>2, <2>2 DEF WriteManifest, Writes, Stands, Orderly, Stage
    <3>2. pc'[p] = Binding
      BY <2>2 DEF WriteManifest, Goto, Orderly, Typed
    <3>3. identity = New(p).universe \/ identity = None
      BY <1>2 DEF Prepared
    <3> QED
      BY <1>1, <1>2, <1>7, <3>1, <3>2, <3>3 DEF Stage, Binding
  <2> QED
    BY <2>1, <2>2
<1> QED
  BY <1>1, <1>4, <1>5, <1>6, <1>8, HolderOrderly

(* The marker of a binding precedes the identity it binds.                 *)
LEMMA BindingOrderly ==
  ASSUME Orderly, NEW p \in Processes, WriteMarker(p) \/ WriteIdentity(p)
  PROVE  Orderly'
<1> USE NoneAssumption DEF NoneAssumption
<1>1. /\ Holds(p) /\ lock' = lock /\ UNCHANGED <<pointer, snapshots, manifests, op, now, seen, draft>>
      /\ pc[p] \in {"write_marker", "write_identity"} /\ identity = None
  BY DEF WriteMarker, WriteIdentity, Writes, Stands, Holds, Orderly, Stage
<1>2. Prepared(p) /\ Succeeds(p) /\ New(p) \in snapshots /\ draft[p].chain \in manifests
  BY <1>1 DEF Orderly, Stage
<1>3. New(p) \in Snapshots /\ New(p).universe \in Universes
  BY <1>2 DEF Prepared, Snapshots
<1>4. [universe |-> New(p).universe, prior |-> pointer] \in Markers
  BY <1>3 DEF Markers, Orderly, Typed
<1>5. CASE WriteMarker(p)
  <2>1. marker' = [universe |-> New(p).universe, prior |-> pointer] /\ UNCHANGED identity /\ marker = None
    BY <1>5 DEF WriteMarker, New, Writes, Stands, Orderly, Stage
  <2>2. Typed'
    BY <1>1, <1>4, <1>5, <2>1 DEF WriteMarker, Goto, Orderly, Typed
  <2>3. pointer # None => pointer.chain = << >>
    BY <1>1, <2>1, FirstBinding
  <2>4. Unclaimable' /\ Bound' = Bound
    BY <1>1, <1>3, <2>1, <2>3 DEF Unclaimable, Bound, Unclaimed
  <2>5. Consistent'
    BY <1>1, <2>4, BoundConsistent DEF Orderly
  <2>6. pc'[p] = "write_identity" /\ Goto(p, "write_identity")
    BY <1>5 DEF WriteMarker, Goto, Orderly, Typed
  <2>7. Prepared(p)' /\ Succeeds(p)' /\ New(p)' = New(p) /\ Begun(p)'
    BY <1>1, <1>2, <2>1, PreparedStays DEF Succeeds, New, Begun
  <2>8. Stage(p)'
    BY <1>1, <1>2, <2>1, <2>6, <2>7 DEF Stage
  <2> QED
    BY <1>1, <2>2, <2>5, <2>6, <2>8, HolderOrderly
<1>6. CASE WriteIdentity(p)
  <2>1. identity' = New(p).universe /\ UNCHANGED marker /\ Begun(p)
    BY <1>6 DEF WriteIdentity, New, Writes, Stands, Orderly, Stage
  <2>2. Typed'
    BY <1>1, <1>3, <1>6, <2>1 DEF WriteIdentity, Goto, Orderly, Typed
  <2>3. marker = [universe |-> New(p).universe, prior |-> pointer] /\ marker # None
    BY <1>4, <2>1 DEF Begun
  <2>4. Unclaimable' /\ Bound' = Bound
    BY <1>1, <2>1, <2>3 DEF Orderly, Consistent, Unclaimable, Bound, Unclaimed
  <2>5. Consistent'
    BY <1>1, <2>4, BoundConsistent DEF Orderly
  <2>6. pc'[p] = "write_pointer" /\ Goto(p, "write_pointer")
    BY <1>6 DEF WriteIdentity, Goto, Orderly, Typed
  <2>7. Prepared(p)' /\ Succeeds(p)' /\ New(p)' = New(p) /\ Begun(p)'
    BY <1>1, <1>2, <2>1, PreparedStays DEF Succeeds, New, Begun
  <2>8. Stage(p)'
    BY <1>1, <1>2, <2>1, <2>6, <2>7 DEF Stage
  <2> QED
    BY <1>1, <2>2, <2>5, <2>6, <2>8, HolderOrderly
<1> QED
  BY <1>5, <1>6

(* Every chain that is put in place loads.                                 *)
LEMMA PointerMoves ==
  ASSUME Orderly, NEW p \in Processes, pc[p] = "write_pointer",
         pointer' = draft[p], UNCHANGED <<snapshots, manifests, identity, marker>>
  PROVE  /\ Consistent' /\ Chain' = draft[p].chain /\ ~Unclaimed(marker)'
         /\ marker # None => Chain' # << >> /\ pointer' # pointer
<1> USE NoneAssumption DEF NoneAssumption
<1>1. /\ Prepared(p) /\ draft[p] \in Pointers /\ Chain \in Seq(Snapshots)
      /\ IF Succeeds(p)
         THEN /\ identity = New(p).universe /\ (marker = None \/ Begun(p))
              /\ New(p) \in snapshots /\ draft[p].chain \in manifests
         ELSE marker = None
  BY ChainTyped DEF Orderly, Stage, Typed, Prepared
<1>2. Chain' = draft[p].chain
  BY <1>1 DEF Chain, Prepared
<1>3. LoadsWith(Bound) /\ OneHistory(Chain) /\ Unclaimable
  BY DEF Orderly, Consistent, StoreLoads, Bound
<1>4. pointer' # None /\ pointer'.cutoff <= pointer'.at
  BY <1>1 DEF Prepared
<1>5. CASE ~Succeeds(p)
  <2>1. marker = None /\ Chain' = Chain /\ Bound' = identity /\ Bound = identity /\ ~Unclaimed(marker)'
    BY <1>1, <1>2, <1>5 DEF Prepared, Bound, Unclaimed
  <2>2. AncestryLoads(Chain)'
    BY <1>3, <2>1, AncestryStays DEF LoadsWith
  <2>3. Chain # << >> => pointer # None /\ Last(Chain).cutoff <= pointer'.cutoff
    <3>1. Chain # << >> => pointer # None
      BY DEF Chain
    <3>2. Chain # << >> =>
            Last(Chain).cutoff <= pointer.cutoff /\ pointer.cutoff <= draft[p].cutoff
      BY <1>1, <1>3, <3>1 DEF LoadsWith, Prepared, Advances
    <3>3. Chain # << >> => Last(Chain).cutoff \in Int /\ pointer.cutoff \in Int /\ draft[p].cutoff \in Int
      BY <1>1, <3>1, ChainTyped DEF Orderly, Typed, Pointers, Snapshots, Times
    <3> QED
      BY <3>1, <3>2, <3>3
  <2>4. LoadsWith(Bound)' /\ OneHistory(Chain)' /\ Unclaimable'
    BY <1>3, <1>4, <2>1, <2>2, <2>3 DEF LoadsWith, OneHistory, Unclaimable
  <2> QED
    BY <1>2, <2>1, <2>4 DEF Consistent, StoreLoads, Bound
<1>6. CASE Succeeds(p)
  <2>1. /\ New(p) \in Snapshots /\ draft[p].chain = ChainOf(New(p))
        /\ draft[p].chain \in Seq(Snapshots) /\ draft[p].chain # << >> /\ Last(draft[p].chain) = New(p)
        /\ \/ draft[p].chain = Chain /\ Chain # << >> /\ Last(Chain) = New(p)
           \/ draft[p].chain = Append(Chain, New(p))
        /\ Chain # << >> => Last(Chain) = New(p) \/ Comparable(Last(Chain), New(p))
        /\ New(p).cutoff = draft[p].cutoff /\ New(p).universe \in Universes
    <3>1. New(p) \in Snapshots /\ draft[p].chain = ChainOf(New(p))
      BY <1>1, <1>6 DEF Prepared
    <3>2. Succeeds(p) /\ Prepared(p) /\ pointer \in Pointers \union {None}
      BY <1>1, <1>6 DEF Orderly, Typed
    <3> QED
      BY <3>1, <3>2, ChainExtended DEF Prepared, Snapshots
  <2>2. marker # None => Chain = << >> /\ marker.prior = pointer
    <3>1. ASSUME marker # None PROVE Chain = << >> /\ marker.prior = pointer
      <4>1. marker = [universe |-> New(p).universe, prior |-> pointer] /\ identity = New(p).universe
        BY <1>1, <1>6, <3>1 DEF Begun
      <4>2. marker.prior = pointer
        BY <4>1
      <4> QED
        BY <1>3, <3>1, <4>2 DEF Unclaimable, Chain
    <3> QED
      BY <3>1
  <2>3. marker # None => pointer' # pointer
    BY <1>2, <2>1, <2>2 DEF Chain
  <2>4. ~Unclaimed(marker)' /\ Bound' = identity /\ Bound' = New(p).universe
    BY <1>1, <1>6, <2>2, <2>3 DEF Unclaimed, Bound
  <2>5. AncestryLoads(draft[p].chain)
    <3>1. CASE draft[p].chain = Chain
      BY <1>3, <3>1 DEF LoadsWith
    <3>2. CASE draft[p].chain = Append(Chain, New(p)) /\ (Chain # << >> => Comparable(Last(Chain), New(p)))
      <4>1. AncestryLoads(Chain)
        BY <1>3 DEF LoadsWith
      <4> QED
        BY <1>1, <1>6, <2>1, <3>2, <4>1, AncestryAppended
    <3>3. CASE Chain # << >> /\ Last(Chain) = New(p)
      BY <2>1, <3>1, <3>3 DEF ChainOf
    <3> QED
      BY <2>1, <3>1, <3>2, <3>3
  <2>6. AncestryLoads(Chain)'
    BY <1>2, <2>5, AncestryStays DEF AncestryLoads, Comparable
  <2>7. OneHistory(draft[p].chain)
    <3>1. CASE draft[p].chain = Chain
      BY <1>3, <3>1
    <3>2. CASE draft[p].chain = Append(Chain, New(p)) /\ (Chain # << >> => Comparable(Last(Chain), New(p)))
      <4>1. \A i \in 1..Len(Chain) : Chain[i].evidence = New(p).evidence
        BY <1>1, <1>3, <3>2 DEF OneHistory, Comparable
      <4>2. /\ DOMAIN draft[p].chain = 1..(Len(Chain) + 1) /\ Len(Chain) \in Nat
            /\ \A i \in 1..Len(Chain) : draft[p].chain[i] = Chain[i]
            /\ draft[p].chain[Len(Chain) + 1] = New(p)
        BY <1>1, <2>1, <3>2, ChainAppended
      <4>3. \A i \in 1..(Len(Chain) + 1) : i \in 1..Len(Chain) \/ i = Len(Chain) + 1
        BY <4>2
      <4> QED
        BY <2>1, <4>1, <4>2, <4>3 DEF OneHistory
    <3>3. CASE Chain # << >> /\ Last(Chain) = New(p)
      BY <2>1, <3>1, <3>3 DEF ChainOf
    <3> QED
      BY <2>1, <3>1, <3>2, <3>3
  <2>8. LoadsWith(Bound)'
    <3>1. draft[p].cutoff \in Int
      BY <1>1 DEF Pointers, Times
    <3>2. Last(Chain)' = New(p) /\ New(p).cutoff <= pointer'.cutoff
      BY <1>2, <2>1, <3>1
    <3> QED
      BY <1>2, <1>4, <2>1, <2>4, <2>6, <3>2 DEF LoadsWith
  <2>9. OneHistory(Chain)' /\ Unclaimable'
    BY <1>2, <1>3, <2>7 DEF OneHistory, Unclaimable
  <2> QED
    BY <1>2, <2>1, <2>3, <2>4, <2>8, <2>9 DEF Consistent, StoreLoads, Bound
<1> QED
  BY <1>5, <1>6

(* The pointer moves, and the binding is no longer under way.              *)
LEMMA PointerOrderly ==
  ASSUME Orderly, NEW p \in Processes, WritePointer(p) \/ ClearOwn(p)
  PROVE  Orderly'
<1>1. CASE WritePointer(p)
  <2>1. /\ Holds(p) /\ lock' = lock /\ UNCHANGED <<snapshots, manifests, identity, marker, op, now, seen, draft>>
        /\ pc[p] = "write_pointer" /\ pointer' = draft[p] /\ \E label \in {"clear_own", "ok"} : Goto(p, label)
    BY <1>1 DEF WritePointer, Writes, Stands, Holds
  <2>2. Consistent' /\ ~Unclaimed(marker)'
    BY <2>1, PointerMoves
  <2>3. PICK label \in {"clear_own", "ok"} : Goto(p, label)
    BY <2>1
  <2>4. pc'[p] = label
    BY <2>3 DEF Goto, Holds, Orderly, Typed
  <2>5. Typed'
    BY <2>1, <2>3 DEF Goto, Holds, Orderly, Typed
  <2>6. Stage(p)'
    BY <2>2, <2>4 DEF Stage
  <2> QED
    BY <2>1, <2>2, <2>3, <2>5, <2>6, HolderOrderly
<1>2. CASE ClearOwn(p)
  <2>1. /\ Holds(p) /\ lock' = lock /\ Goto(p, "ok") /\ marker' = None /\ ~Unclaimed(marker)
        /\ UNCHANGED <<snapshots, manifests, pointer, identity, op, now, seen, draft>>
    BY <1>2 DEF ClearOwn, Writes, Stands, Holds, Orderly, Stage
  <2>2. Unclaimable' /\ Bound' = Bound
    BY <2>1 DEF Unclaimable, Bound, Unclaimed
  <2>3. Consistent'
    BY <2>1, <2>2, BoundConsistent DEF Orderly
  <2>4. Typed' /\ pc'[p] = "ok"
    BY <2>1 DEF Goto, Holds, Orderly, Typed
  <2>5. Stage(p)'
    BY <2>4 DEF Stage
  <2> QED
    BY <2>1, <2>3, <2>4, <2>5, HolderOrderly
<1> QED
  BY <1>1, <1>2

(* Where a failure leaves the holder.                                      *)
LEMMA FailureStage ==
  ASSUME Orderly, NEW p \in Processes, pc[p] \in Touching, UNCHANGED <<identity, marker, draft>>,
         \/ pointer' = pointer
         \/ pc[p] = "write_pointer" /\ pointer' = draft[p] /\ UNCHANGED <<snapshots, manifests>>,
         Goto(p, ErrorPath(p))
  PROVE  Stage(p)'
<1>1. pc'[p] = ErrorPath(p)
  BY DEF Goto, Holds, Orderly, Typed
<1>2. CASE ErrorPath(p) = "failed"
  BY <1>1, <1>2 DEF Stage
<1>3. CASE ErrorPath(p) # "failed"
  <2>1. pc'[p] = "undo_binding" /\ pc[p] \in {"write_marker", "write_identity", "write_pointer"}
        /\ (pc[p] = "write_pointer" => marker # None)
    BY <1>1, <1>3 DEF ErrorPath
  <2>2. Prepared(p) /\ Succeeds(p)
    BY <2>1 DEF Orderly, Stage
  <2>3. /\ identity \in {None, New(p).universe} /\ New(p)' = New(p)
        /\ pc[p] # "write_pointer" => identity = None /\ (pc[p] = "write_marker" => marker = None)
        /\ marker # None => Begun(p)
    BY <2>1, <2>2 DEF Orderly, Stage, New
  <2>4. Chain = << >>
    <3>1. CASE marker = None
      BY <2>1, <2>3, <3>1, FirstBinding
    <3>2. CASE marker # None
      <4>1. marker.prior = pointer
        BY <2>3, <3>2 DEF Begun
      <4> QED
        BY <3>2, <4>1 DEF Orderly, Consistent, Unclaimable, Chain
    <3> QED
      BY <3>1, <3>2
  <2>5. draft[p] # None /\ draft[p].chain # << >>
    BY <2>2, ChainExtended DEF Prepared, Orderly, Typed
  <2>6. CASE pointer' = pointer
    <3>1. Chain' = << >> /\ pointer' # draft'[p]
      BY <2>4, <2>5, <2>6 DEF Chain
    <3> QED
      BY <2>1, <2>3, <3>1 DEF Stage
  <2>7. CASE pointer' = draft[p]
    <3>1. Chain' # << >> /\ pointer' = draft'[p]
      BY <2>5, <2>7 DEF Chain
    <3> QED
      BY <2>1, <3>1 DEF Stage
  <2> QED
    BY <2>6, <2>7
<1> QED
  BY <1>2, <1>3

(* A step that fails before or after its effect.                           *)
LEMMA FailsOrderly ==
  ASSUME Orderly, NEW p \in Processes, Fail(p) \/ FailUnsynced(p)
  PROVE  Orderly'
<1>1. /\ Holds(p) /\ lock' = lock /\ Goto(p, ErrorPath(p)) /\ pc[p] \in Touching
      /\ UNCHANGED <<snapshots, manifests, identity, marker, op, now, seen, draft>>
      /\ pointer' = pointer \/ (pc[p] = "write_pointer" /\ pointer' = draft[p])
  BY DEF Fail, FailUnsynced, Stands, Holds, Touching, store
<1>2. Stage(p)'
  BY <1>1, FailureStage
<1>3. Consistent'
  <2>1. CASE pointer' = pointer
    BY <1>1, <2>1, StoreConsistent DEF Orderly, store
  <2>2. CASE pc[p] = "write_pointer" /\ pointer' = draft[p]
    BY <1>1, <2>2, PointerMoves
  <2> QED
    BY <1>1, <2>1, <2>2
<1>4. Typed'
  BY <1>1 DEF Goto, Holds, Orderly, Typed
<1> QED
  BY <1>1, <1>2, <1>3, <1>4, HolderOrderly

(* A binding is undone unless its pointer is in place.                     *)
LEMMA UndoOrderly ==
  ASSUME Orderly, NEW p \in Processes, UndoBinding(p) \/ ClearUndone(p)
  PROVE  Orderly'
<1> USE NoneAssumption DEF NoneAssumption
<1>1. CASE UndoBinding(p)
  <2>1. /\ Holds(p) /\ lock' = lock /\ Goto(p, "clear_undone")
        /\ UNCHANGED <<snapshots, manifests, pointer, marker, op, now, seen, draft>>
        /\ identity' = (IF pointer # draft[p] /\ identity = New(p).universe THEN None ELSE identity)
        /\ IF pointer = draft[p] THEN Chain # << >>
           ELSE Chain = << >> /\ identity \in {None, New(p).universe}
    BY <1>1 DEF UndoBinding, Writes, Stands, Holds, New, Orderly, Stage
  <2>2. marker # None => marker.universe # None /\ (pointer = marker.prior => Chain = << >>)
    BY DEF Orderly, Typed, Markers, Consistent, Unclaimable, Chain
  <2>3. Unclaimable' /\ UNCHANGED Chain
    BY <2>1 DEF Orderly, Consistent, Unclaimable, Chain
  <2>4. ~Unclaimed(marker)' /\ Consistent'
    <3>1. CASE pointer = draft[p]
      <4>1. ~Unclaimed(marker) /\ ~Unclaimed(marker)' /\ Bound' = Bound
        BY <2>1, <2>2, <3>1 DEF Unclaimed, Bound
      <4> QED
        BY <2>1, <2>3, <4>1, BoundConsistent DEF Orderly
    <3>2. CASE pointer # draft[p]
      <4>1. identity' = None /\ Chain = << >>
        BY <2>1, <3>2
      <4>2. ~Unclaimed(marker)'
        BY <2>1, <2>2, <4>1 DEF Unclaimed
      <4>3. Bound = None
        BY <4>1 DEF Orderly, Consistent, StoreLoads, LoadsWith, Bound
      <4>4. Bound' = Bound
        BY <4>1, <4>2, <4>3 DEF Bound
      <4> QED
        BY <2>1, <2>3, <4>2, <4>4, BoundConsistent DEF Orderly
    <3> QED
      BY <3>1, <3>2
  <2>5. Typed' /\ pc'[p] = "clear_undone"
    BY <2>1 DEF Goto, Holds, Orderly, Typed
  <2>6. Stage(p)'
    BY <2>4, <2>5 DEF Stage
  <2> QED
    BY <2>1, <2>4, <2>5, <2>6, HolderOrderly
<1>2. CASE ClearUndone(p)
  <2>1. /\ Holds(p) /\ lock' = lock /\ Goto(p, "failed") /\ marker' = None /\ ~Unclaimed(marker)
        /\ UNCHANGED <<snapshots, manifests, pointer, identity, op, now, seen, draft>>
    BY <1>2 DEF ClearUndone, Writes, Stands, Holds, Orderly, Stage
  <2>2. Unclaimable' /\ Bound' = Bound
    BY <2>1 DEF Unclaimable, Bound, Unclaimed
  <2>3. Consistent'
    BY <2>1, <2>2, BoundConsistent DEF Orderly
  <2>4. Typed' /\ pc'[p] = "failed"
    BY <2>1 DEF Goto, Holds, Orderly, Typed
  <2>5. Stage(p)'
    BY <2>4 DEF Stage
  <2> QED
    BY <2>1, <2>3, <2>4, <2>5, HolderOrderly
<1> QED
  BY <1>1, <1>2

(* Every step.                                                             *)
LEMMA StepsOrderly == Orderly /\ [Next]_vars => Orderly'
<1> SUFFICES ASSUME Orderly, [Next]_vars PROVE Orderly'
  OBVIOUS
<1>1. CASE UNCHANGED vars
  <2>1. Typed' /\ Exclusive'
    BY <1>1 DEF vars, store, run, Orderly, Typed, Exclusive, Holds
  <2>2. Consistent'
    BY <1>1, StoreConsistent DEF vars, Orderly
  <2>3. \A p \in Processes : Stage(p)'
    BY <1>1 DEF vars, store, run, Orderly, Stage, Unclaimed, Prepared, Begun, New, Succeeds, Current,
        Advances, AttemptOf, Comparable, Chain, ChainOf
  <2> QED
    BY <2>1, <2>2, <2>3 DEF Orderly
<1>2. ASSUME NEW p \in Processes, Call(p) \/ Step(p) \/ Fail(p) \/ FailUnsynced(p) \/ Crash(p)
      PROVE  Orderly'
  BY <1>2, CallsOrderly, RecoverOrderly, LookOrderly, SuccessPrepared, FailurePrepared, ArtifactsOrderly,
     BindingOrderly, PointerOrderly, FailsOrderly, UndoOrderly
  DEF Step
<1> QED
  BY <1>1, <1>2 DEF Next, Finished

(* So the store is always in order.                                        *)
LEMMA AlwaysOrderly == Spec => []Orderly
BY InitOrderly, StepsOrderly, PTL DEF Spec

(* However a call was cut short, the store loads again once an interrupted *)
(* binding is recovered, for any number of runs, universes and faults.     *)
THEOREM StoreAlwaysLoads == Spec => []StoreLoads
<1>1. Orderly => StoreLoads
  BY DEF Orderly, Consistent
<1> QED
  BY <1>1, AlwaysOrderly, PTL

-----------------------------------------------------------------------------
(* The store is the register                                               *)

(* The attempt the register holds at first.                                *)
LEMMA InitRegister == Init => Register!Init
BY DEF Init, Register!Init, Current, AttemptOf, Chain

(* The last of a sequence means the same in both modules.                  *)
LEMMA SameLast == \A chain : Register!Last(chain) = Last(chain)
BY DEF Last, Register!Last

(* A pointer in place is an attempt that succeeds or fails.                *)
LEMMA PointerRegisters ==
  ASSUME Orderly, NEW p \in Processes, pc[p] = "write_pointer",
         pointer' = draft[p], UNCHANGED <<snapshots, manifests, identity, marker, seen>>
  PROVE  Register!Succeed(p) \/ Register!Fail(p)
<1>1. Prepared(p) /\ draft[p] \in Pointers /\ Chain' = draft[p].chain /\ Orderly
  BY PointerMoves DEF Orderly, Stage, Typed, Prepared
<1>2. Current' = AttemptOf(draft[p]) /\ draft[p] # None
  BY <1>1 DEF Current, Prepared
<1>3. /\ draft[p].at \in Times /\ draft[p].cutoff \in Times
      /\ draft[p].status \in {"succeeded", "failed"}
  BY <1>1 DEF Pointers, Statuses
<1>4. Current # None =>
        /\ Current.cutoff <= draft[p].cutoff
        /\ Current.at < draft[p].at \/ Current = AttemptOf(draft[p])
  <2>1. SUFFICES ASSUME Current # None PROVE /\ Current.cutoff <= draft[p].cutoff
                                             /\ Current.at < draft[p].at \/ Current = AttemptOf(draft[p])
    OBVIOUS
  <2>2. /\ pointer # None /\ pointer \in Pointers
        /\ Current.at = pointer.at /\ Current.cutoff = pointer.cutoff
    BY <2>1 DEF Current, AttemptOf, Orderly, Typed
  <2>3. /\ pointer.at <= draft[p].at /\ pointer.cutoff <= draft[p].cutoff
        /\ pointer.at = draft[p].at => AttemptOf(draft[p]) = Current
    BY <1>1, <2>2 DEF Prepared, Advances
  <2>4. pointer.at \in Int /\ draft[p].at \in Int
    BY <1>3, <2>2 DEF Pointers, Times
  <2> QED
    BY <2>2, <2>3, <2>4
<1>5. CASE draft[p].status = "succeeded"
  <2>1. /\ New(p) \in Snapshots /\ New(p).cutoff = draft[p].cutoff /\ draft[p].at = draft[p].cutoff
        /\ Chain' = ChainOf(New(p)) /\ (Chain # << >> => Last(Chain) = New(p) \/ Comparable(Last(Chain), New(p)))
        /\ seen[p] = Current
    BY <1>1, <1>5 DEF Prepared, Succeeds
  <2> DEFINE next == [status |-> "succeeded", at |-> New(p).cutoff, cutoff |-> New(p).cutoff,
                      snapshot |-> New(p)]
  <2>2. Current' = next
    BY <1>2, <1>5, <2>1 DEF AttemptOf, New
  <2>3. Register!Advances(next)
    BY <1>2, <1>4, <2>1, <2>2 DEF Register!Advances
  <2>4. Register!Extends(New(p))
    <3>1. Chain # << >> /\ Last(Chain) # New(p) =>
            /\ New(p).universe = Last(Chain).universe /\ Last(Chain).cutoff < New(p).cutoff
            /\ \A i \in DOMAIN Chain : Chain[i].evidence = New(p).evidence
      BY <2>1 DEF Comparable, Orderly, Consistent, OneHistory
    <3> QED
      BY <3>1, SameLast DEF Register!Extends
  <2>5. Chain' = IF Chain # << >> /\ New(p) = Last(Chain) THEN Chain ELSE Append(Chain, New(p))
    BY <2>1 DEF ChainOf
  <2>6. New(p) \in Register!Snapshots
    BY <2>1 DEF Snapshots, Times, Register!Snapshots, Register!Times
  <2> HIDE DEF next
  <2>7. /\ seen[p] = Current /\ Register!Advances(next) /\ Register!Extends(New(p))
        /\ Current' = next /\ UNCHANGED seen
        /\ Chain' = IF Chain # << >> /\ New(p) = Register!Last(Chain) THEN Chain ELSE Append(Chain, New(p))
    BY <2>1, <2>2, <2>3, <2>4, <2>5, SameLast
  <2>8. Register!Succeed(p)
    BY <2>6, <2>7 DEF Register!Succeed, next
  <2> QED
    BY <2>8
<1>6. CASE draft[p].status = "failed"
  <2>1. Chain' = Chain /\ seen[p] = Current /\ draft[p].cutoff <= draft[p].at
    BY <1>1, <1>6 DEF Prepared, Succeeds
  <2> DEFINE next == [status |-> "failed", at |-> draft[p].at, cutoff |-> draft[p].cutoff, snapshot |-> None]
  <2>2. Current' = next
    BY <1>2, <1>6 DEF AttemptOf
  <2>3. Register!Advances(next)
    BY <1>2, <1>4, <2>2 DEF Register!Advances
  <2>4. draft[p].at \in Register!Times /\ draft[p].cutoff \in Register!Times
    BY <1>3 DEF Times, Register!Times
  <2>5. Register!Fail(p)
    BY <2>1, <2>2, <2>3, <2>4 DEF Register!Fail
  <2> QED
    BY <2>5
<1> QED
  BY <1>3, <1>5, <1>6

(* The other steps of the holder write around the pointer.                 *)
LEMMA AroundPointer ==
  ASSUME NEW p \in Processes,
         \/ Recover(p) \/ ClearFound(p) \/ Refuse(p) \/ DecideSuccess(p) \/ DecideFailure(p)
         \/ WriteSnapshot(p) \/ WriteManifest(p) \/ WriteMarker(p) \/ WriteIdentity(p)
         \/ ClearOwn(p) \/ UndoBinding(p) \/ ClearUndone(p) \/ Call(p) \/ Acquire(p) \/ Fail(p)
  PROVE  UNCHANGED <<pointer, seen>>
BY DEF Recover, ClearFound, Refuse, DecideSuccess, DecideFailure, Decide, WriteSnapshot, WriteManifest,
       WriteMarker, WriteIdentity, ClearOwn, UndoBinding, ClearUndone, Call, Acquire, Fail, Writes, store

(* A run forgets the attempt it has read when its command ends.            *)
LEMMA LeavesForget ==
  ASSUME NEW p \in Processes, TimeOut(p) \/ Release(p) \/ Crash(p)
  PROVE  /\ UNCHANGED pointer
         /\ seen' = seen \/ seen' = [seen EXCEPT ![p] = None]
<1>1. ASSUME NEW outcome, After(p, outcome)
      PROVE  seen' = seen \/ seen' = [seen EXCEPT ![p] = None]
  BY <1>1 DEF After, Enter, Leave
<1> QED
  BY <1>1 DEF TimeOut, Release, Crash, Leave, store

(* Every step of the store is one of the register, or none.                *)
LEMMA StepsRegister == Orderly /\ [Next]_vars => [Register!Next]_(Register!vars)
<1> SUFFICES ASSUME Orderly, [Next]_vars, ~(UNCHANGED <<Current, Chain, seen>>)
             PROVE  Register!Next
  BY DEF Register!vars
<1>1. UNCHANGED pointer => UNCHANGED <<Current, Chain>>
  BY DEF Current, Chain
<1>2. ~UNCHANGED <<pointer, seen>>
  BY <1>1
<1>3. ASSUME NEW p \in Processes, WritePointer(p) \/ FailUnsynced(p)
      PROVE  Register!Succeed(p) \/ Register!Fail(p)
  <2>1. /\ pc[p] = "write_pointer" /\ pointer' = draft[p]
        /\ UNCHANGED <<snapshots, manifests, identity, marker, seen>>
    BY <1>3 DEF WritePointer, FailUnsynced, Writes, Stands
  <2> QED
    BY <2>1, PointerRegisters
<1>4. ASSUME NEW p \in Processes, Look(p)
      PROVE  Register!Read(p)
  <2>1. UNCHANGED pointer /\ (seen' = seen \/ seen' = [seen EXCEPT ![p] = Current])
    BY <1>4 DEF Look, store
  <2> QED
    BY <1>1, <1>2, <2>1 DEF Register!Read
<1>5. ASSUME NEW p \in Processes, TimeOut(p) \/ Release(p) \/ Crash(p)
      PROVE  Register!Forget(p)
  BY <1>1, <1>2, <1>5, LeavesForget DEF Register!Forget
<1>6. ~UNCHANGED vars
  BY <1>2 DEF vars, store, run
<1>7. PICK p \in Processes : Call(p) \/ Step(p) \/ Fail(p) \/ FailUnsynced(p) \/ Crash(p)
  BY <1>6 DEF Next, Finished
<1>8. Look(p) \/ TimeOut(p) \/ Release(p) \/ Crash(p) \/ WritePointer(p) \/ FailUnsynced(p)
  BY <1>2, <1>7, AroundPointer DEF Step
<1> QED
  BY <1>3, <1>4, <1>5, <1>8 DEF Register!Next

(* To its readers the store is the register, for any number of runs: one   *)
(* history about a single universe, never back in time, advanced only by a *)
(* run that has read the attempt it replaces.                              *)
THEOREM StoreIsRegister == Spec => RegisterRefined
BY InitRegister, StepsRegister, AlwaysOrderly, PTL DEF Spec, RegisterRefined, Register!Spec
=============================================================================
