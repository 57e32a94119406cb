---------------------------- MODULE UniverseStore ----------------------------
(***************************************************************************)
(* The store of intelligence/observable_universe.py and the runs of        *)
(* r1_research_cli that use it: each loads the current attempt, publishes  *)
(* a snapshot over it, loads that again, and publishes a failed attempt    *)
(* when anything goes wrong.  Every access takes the advisory lock, which  *)
(* the system releases when its holder dies, and first recovers an         *)
(* interrupted binding of the store to its universe.                       *)
(*                                                                         *)
(* A snapshot is its universe, its cutoff and its definition of one        *)
(* evidence reference.  A manifest names its snapshot and its parent       *)
(* manifest by their hashes, so it stands for the chain of snapshots it    *)
(* ends.  The command's time is its cutoff and the time of its success;    *)
(* what its clock reads is arbitrary, but a failure is not earlier.        *)
(***************************************************************************)
EXTENDS Naturals, Sequences, FiniteSets, SequencesExt

CONSTANTS
  Processes, Universes,
  Definitions,  \* the definitions snapshots give of an evidence reference
  LastTime,     \* bound on the times
  None,
  Free,         \* nobody has the lock
  MaxCalls,     \* bound on the runs of the command
  MaxFaults     \* bound on the crashes and I/O errors of a behaviour

Times == 1..LastTime
Snapshots == [universe : Universes, cutoff : Times, evidence : Definitions]

(* The current pointer, what its attempt identifier hashes, and the marker *)
(* of a binding under way.                                                 *)
Statuses == {"succeeded", "failed"}
Pointers == [status : Statuses, at : Times, cutoff : Times, chain : Seq(Snapshots)]
Attempts == [status : Statuses, at : Times, cutoff : Times, snapshot : Snapshots \union {None}]
Markers == [universe : Universes, prior : Pointers \union {None}]

ASSUME FreeAssumption == Free \notin Processes
ASSUME NoneAssumption ==
  None \notin Universes /\ None \notin Pointers /\ None \notin Markers
ASSUME BoundsAssumption == LastTime \in Nat /\ MaxCalls \in Nat /\ MaxFaults \in Nat

VARIABLES
  lock,       \* .write.lock: its holder, or Free
  snapshots,  \* snapshots/
  manifests,  \* manifests/
  pointer,    \* current.json, or None
  identity,   \* universe.json, or None
  marker,     \* pending_identity.json, or None
  pc, op,     \* where each run stands, and in which access to the store
  now,        \* the time it has sampled
  seen,       \* the attempt it expects to replace
  draft,      \* the pointer it is to publish
  calls, faults

store == <<snapshots, manifests, pointer, identity, marker>>
run == <<pc, op, now, seen, draft>>
vars == <<lock, store, run, calls, faults>>

Init ==
  /\ lock = Free /\ snapshots = {} /\ manifests = {}
  /\ pointer = None /\ identity = None /\ marker = None
  /\ pc = [p \in Processes |-> "idle"] /\ op = [p \in Processes |-> "load"]
  /\ now = [p \in Processes |-> 0] /\ seen = [p \in Processes |-> None]
  /\ draft = [p \in Processes |-> None] /\ calls = 0 /\ faults = 0
-----------------------------------------------------------------------------
(* What the store says                                                     *)

Chain == IF pointer = None THEN << >> ELSE pointer.chain

(* The attempt identifier hashes what the attempt itself says.             *)
AttemptOf(next) ==
  IF next = None THEN None
  ELSE [status |-> next.status, at |-> next.at, cutoff |-> next.cutoff,
        snapshot |-> IF next.status = "succeeded" THEN Last(next.chain) ELSE None]
Current == AttemptOf(pointer)

(* compare_universe_snapshots                                              *)
Comparable(earlier, later) ==
  /\ earlier.universe = later.universe /\ earlier.cutoff < later.cutoff
  /\ earlier.evidence = later.evidence

(* _load_manifest_bound_snapshot walks the whole ancestry.                 *)
AncestryLoads(chain) ==
  \A i \in DOMAIN chain :
    /\ SubSeq(chain, 1, i) \in manifests /\ chain[i] \in snapshots
    /\ i > 1 => Comparable(chain[i - 1], chain[i])

(* _load_current_universe_state_locked, with the identity bound that way   *)
LoadsWith(bound) ==
  /\ Chain = << >> <=> bound = None
  /\ AncestryLoads(Chain)
  /\ Chain # << >> => bound = Last(Chain).universe /\ Last(Chain).cutoff <= pointer.cutoff
  /\ pointer # None => pointer.cutoff <= pointer.at

(* _validate_pointer_advance                                               *)
Advances(next) ==
  pointer # None =>
    /\ pointer.at <= next.at /\ pointer.cutoff <= next.cutoff
    /\ pointer.at = next.at => AttemptOf(next) = Current

(* The parent left out when a snapshot is published again is its own.      *)
ChainOf(s) == IF Chain # << >> /\ Last(Chain) = s THEN Chain ELSE Append(Chain, s)

(* _validate_persisted_evidence_identities: all that is stored, selected   *)
(* or not.                                                                 *)
EvidenceKept(s) == \A old \in snapshots : old.universe = s.universe => old.evidence = s.evidence

(* What a successful publication requires besides.                         *)
Publishable(s) ==
  /\ Chain # << >> =>
       /\ Last(Chain).cutoff <= s.cutoff
       /\ Last(Chain).cutoff = s.cutoff => Last(Chain) = s
       /\ Last(Chain).cutoff < s.cutoff => Comparable(Last(Chain), s)
  /\ identity # None => identity = s.universe
  /\ EvidenceKept(s)
-----------------------------------------------------------------------------
(* The command and the lock                                                *)

Stands(p, label) == pc[p] = label
Goto(p, label) == pc' = [pc EXCEPT ![p] = label]
Enter(p, access) == Goto(p, "waiting") /\ op' = [op EXCEPT ![p] = access] /\ UNCHANGED <<now, seen>>
Leave(p) == /\ Goto(p, "idle") /\ op' = [op EXCEPT ![p] = "load"]
            /\ now' = [now EXCEPT ![p] = 0] /\ seen' = [seen EXCEPT ![p] = None]

Call(p) == \E t \in Times :
  /\ Stands(p, "idle") /\ calls < MaxCalls
  /\ calls' = calls + 1 /\ now' = [now EXCEPT ![p] = t]
  /\ Goto(p, "waiting") /\ UNCHANGED <<lock, store, op, seen, draft, faults>>

(* A lock anybody may take: a mutant of Acquirable.                        *)
AcquirableAlways == TRUE

Acquirable == lock = Free

Acquire(p) ==
  /\ Stands(p, "waiting") /\ Acquirable
  /\ lock' = p /\ Goto(p, "recover")
  /\ UNCHANGED <<store, op, now, seen, draft, calls, faults>>

(* What the command does when an access has ended so.                      *)
After(p, outcome) ==
  \/ op[p] = "load" /\ outcome = "ok" /\ (Enter(p, "succeed") \/ Enter(p, "fail"))
  \/ op[p] = "succeed" /\ outcome = "ok" /\ Enter(p, "confirm")
  \/ op[p] = "confirm" /\ outcome = "ok" /\ (Enter(p, "fail") \/ Leave(p))
  \/ op[p] \in {"succeed", "confirm"} /\ outcome = "failed" /\ Enter(p, "fail")
  \/ op[p] = "load" /\ outcome = "failed" /\ Leave(p)
  \/ (op[p] = "fail" \/ outcome = "superseded") /\ Leave(p)

(* The lock is polled for 30 seconds.                                      *)
TimeOut(p) ==
  /\ Stands(p, "waiting") /\ ~Acquirable
  /\ After(p, "failed") /\ UNCHANGED <<lock, store, draft, calls, faults>>

(* A lock file that outlives its holder: a mutant of Unlocked.             *)
UnlockedAtExit(died) == IF died THEN lock ELSE Free

Unlocked(died) == Free

(* What it has published, to be compared with what it then loads.          *)
Kept(p) == IF op[p] = "succeed" /\ Stands(p, "ok") THEN draft[p] ELSE None

Release(p) ==
  /\ pc[p] \in {"ok", "failed", "superseded"}
  /\ lock' = Unlocked(FALSE) /\ After(p, pc[p]) /\ draft' = [draft EXCEPT ![p] = Kept(p)]
  /\ UNCHANGED <<store, calls, faults>>
-----------------------------------------------------------------------------
(* _recover_interrupted_identity_binding and the checks                    *)

Writes(p, label) == Stands(p, label) /\ UNCHANGED <<lock, op, now, seen, draft, calls, faults>>

(* _rollback_unclaimed_universe_identity                                   *)
Unclaimed(m) == m # None /\ pointer = m.prior /\ identity = m.universe

Recover(p) ==
  /\ Writes(p, "recover")
  /\ identity' = (IF Unclaimed(marker) THEN None ELSE identity)
  /\ Goto(p, "clear_found") /\ UNCHANGED <<snapshots, manifests, pointer, marker>>

ClearFound(p) ==
  /\ Writes(p, "clear_found")
  /\ marker' = None /\ Goto(p, "decide") /\ UNCHANGED <<snapshots, manifests, pointer, identity>>

(* The expected attempt not compared: a mutant of Expected.                *)
ExpectedNothing(p) == TRUE

(* _require_expected_current_attempt                                       *)
Expected(p) == seen[p] = Current

Look(p) ==
  /\ Stands(p, "decide") /\ op[p] \in {"load", "confirm"} /\ LoadsWith(identity)
  /\ IF op[p] = "confirm" => Current.snapshot = Last(draft[p].chain)
     THEN seen' = [seen EXCEPT ![p] = Current] /\ Goto(p, "ok")
     ELSE Goto(p, "superseded") /\ UNCHANGED seen
  /\ UNCHANGED <<lock, store, op, now, draft, calls, faults>>

(* The store does not load, or the current attempt is another.             *)
Refuse(p) ==
  /\ Writes(p, "decide") /\ UNCHANGED store
  /\ LoadsWith(identity) => op[p] \in {"succeed", "fail"} /\ ~Expected(p)
  /\ Goto(p, IF LoadsWith(identity) THEN "superseded" ELSE "failed")

Decide(p, next, accepted, label) ==
  /\ LoadsWith(identity) /\ Expected(p)
  /\ IF accepted THEN draft' = [draft EXCEPT ![p] = next] /\ Goto(p, label)
     ELSE Goto(p, "failed") /\ UNCHANGED draft
  /\ UNCHANGED <<lock, store, op, now, seen, calls, faults>>

(* persist_successful_universe_attempt                                     *)
DecideSuccess(p) == Stands(p, "decide") /\ op[p] = "succeed" /\ \E s \in Snapshots :
  LET next == [status |-> "succeeded", at |-> now[p], cutoff |-> s.cutoff, chain |-> ChainOf(s)]
  IN s.cutoff = now[p] /\ Decide(p, next, Advances(next) /\ Publishable(s), "write_snapshot")

(* publish_failed_universe_attempt                                         *)
DecideFailure(p) == Stands(p, "decide") /\ op[p] = "fail" /\ \E t \in now[p]..LastTime :
  LET next == [status |-> "failed", at |-> t, cutoff |-> now[p], chain |-> Chain]
  IN Decide(p, next, Advances(next), "write_pointer")
-----------------------------------------------------------------------------
(* The writes, in the order of the code                                    *)

WriteSnapshot(p) ==
  /\ Writes(p, "write_snapshot")
  /\ snapshots' = snapshots \union {Last(draft[p].chain)}
  /\ Goto(p, "write_manifest") /\ UNCHANGED <<manifests, pointer, identity, marker>>

(* The identity bound before its marker: a mutant of Binding.              *)
BindingUnmarked == IF identity = None THEN "write_identity" ELSE "write_pointer"

Binding == IF identity = None THEN "write_marker" ELSE "write_pointer"

WriteManifest(p) ==
  /\ Writes(p, "write_manifest")
  /\ manifests' = manifests \union {draft[p].chain}
  /\ Goto(p, Binding) /\ UNCHANGED <<snapshots, pointer, identity, marker>>

WriteMarker(p) ==
  /\ Writes(p, "write_marker")
  /\ marker' = [universe |-> Last(draft[p].chain).universe, prior |-> pointer]
  /\ Goto(p, "write_identity") /\ UNCHANGED <<snapshots, manifests, pointer, identity>>

WriteIdentity(p) ==
  /\ Writes(p, "write_identity")
  /\ identity' = Last(draft[p].chain).universe
  /\ Goto(p, "write_pointer") /\ UNCHANGED <<snapshots, manifests, pointer, marker>>

WritePointer(p) ==
  /\ Writes(p, "write_pointer")
  /\ pointer' = draft[p]
  /\ Goto(p, IF marker # None THEN "clear_own" ELSE "ok")
  /\ UNCHANGED <<snapshots, manifests, identity, marker>>

ClearOwn(p) ==
  /\ Writes(p, "clear_own")
  /\ marker' = None /\ Goto(p, "ok") /\ UNCHANGED <<snapshots, manifests, pointer, identity>>
-----------------------------------------------------------------------------
(* Failures                                                                *)

(* Only a first binding has anything to roll back.                         *)
ErrorPath(p) ==
  IF pc[p] \in {"write_marker", "write_identity"} \/ (pc[p] = "write_pointer" /\ marker # None)
  THEN "undo_binding" ELSE "failed"

Touching == {"recover", "clear_found", "decide", "write_snapshot", "write_manifest", "write_marker",
             "write_identity", "write_pointer", "clear_own", "undo_binding", "clear_undone"}

(* An I/O error or an interrupt before the effect of a step.               *)
Fail(p) ==
  /\ pc[p] \in Touching /\ faults < MaxFaults
  /\ faults' = faults + 1 /\ Goto(p, ErrorPath(p))
  /\ UNCHANGED <<lock, store, op, now, seen, draft, calls>>

(* The pointer is replaced and its directory cannot be synchronised.       *)
FailUnsynced(p) ==
  /\ Stands(p, "write_pointer") /\ faults < MaxFaults
  /\ faults' = faults + 1 /\ pointer' = draft[p] /\ Goto(p, ErrorPath(p))
  /\ UNCHANGED <<lock, snapshots, manifests, identity, marker, op, now, seen, draft, calls>>

UndoBinding(p) ==
  /\ Writes(p, "undo_binding")
  /\ identity' = (IF pointer # draft[p] /\ identity = Last(draft[p].chain).universe
                  THEN None ELSE identity)
  /\ Goto(p, "clear_undone") /\ UNCHANGED <<snapshots, manifests, pointer, marker>>

ClearUndone(p) ==
  /\ Writes(p, "clear_undone")
  /\ marker' = None /\ Goto(p, "failed") /\ UNCHANGED <<snapshots, manifests, pointer, identity>>

Crash(p) ==
  /\ pc[p] # "idle" /\ faults < MaxFaults
  /\ faults' = faults + 1 /\ lock' = (IF lock = p THEN Unlocked(TRUE) ELSE lock)
  /\ Leave(p) /\ draft' = [draft EXCEPT ![p] = None]
  /\ UNCHANGED <<store, calls>>

Finished ==
  /\ calls = MaxCalls /\ \A p \in Processes : pc[p] = "idle"
  /\ UNCHANGED vars

Step(p) ==
  \/ Acquire(p) \/ TimeOut(p) \/ Release(p) \/ Recover(p) \/ ClearFound(p)
  \/ Look(p) \/ Refuse(p) \/ DecideSuccess(p) \/ DecideFailure(p)
  \/ WriteSnapshot(p) \/ WriteManifest(p) \/ WriteMarker(p) \/ WriteIdentity(p)
  \/ WritePointer(p) \/ ClearOwn(p) \/ UndoBinding(p) \/ ClearUndone(p)

Next ==
  \/ \E p \in Processes : Call(p) \/ Step(p) \/ Fail(p) \/ FailUnsynced(p) \/ Crash(p)
  \/ Finished

(* A run goes on until it ends or dies; its wait for the lock is bounded.  *)
Spec == Init /\ [][Next]_vars /\ \A p \in Processes : WF_vars(Step(p))
-----------------------------------------------------------------------------
(* Properties                                                              *)

(* However a call was cut short, the store loads again once an interrupted *)
(* binding is recovered: no order of writes, failures and deaths wedges it.*)
StoreLoads == LoadsWith(IF Unclaimed(marker) THEN None ELSE identity)

(* To its readers the store is the register: one history about a single    *)
(* universe, never back in time, advanced only by a run that has read the  *)
(* attempt it replaces.                                                    *)
Register == INSTANCE UniverseRegister
              WITH Clients <- Processes, attempt <- Current, chain <- Chain, view <- seen
RegisterRefined == Register!Spec

(* Every run of the command ends, with the lock released, whoever dies.    *)
CallsEnd == \A p \in Processes : pc[p] # "idle" ~> (pc[p] = "idle" /\ lock # p)
=============================================================================
