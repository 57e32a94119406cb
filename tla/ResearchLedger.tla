--------------------------- MODULE ResearchLedger ---------------------------
(***************************************************************************)
(* The writers of the research ledger: research_request_intake_v2_1,       *)
(* research_request_preflight_v2_1 and research_package_assembler_v2_1,    *)
(* each one call of a process of its own, under the lock file of           *)
(* research_ledger_write_lock_v2_1.  The newest ledger file is the head of *)
(* the history; a call copies it, appends and writes a new file.           *)
(*                                                                         *)
(* A call samples its time before it takes the lock, so that times and     *)
(* lock order may disagree.  No two calls sample the same time (they are   *)
(* microseconds): a call is named by it, and its run and round, whose      *)
(* identifiers the caller makes unique, are too.  What the repositories of *)
(* theses and components hold is not modelled: a preflight or an assembly  *)
(* meets any blockers.  The opportunity files an assembly publishes before *)
(* its round are in OpportunityPublication.                                *)
(***************************************************************************)
EXTENDS Naturals, FiniteSets

CONSTANTS
  Processes,
  Requests,   \* request identifiers
  ModeOf,     \* the mode each request has: "prospective" or "replay"
  Blockers,   \* the lists of blockers that can arise
  Clear,      \* no blocker
  Free,       \* there is no lock file
  Orphan,     \* the lock file of a process that died
  Past,       \* the cutoffs that can be given besides the time of the call
  LastTime,   \* bound on the calls
  MaxFaults   \* bound on the crashes and failed calls of a behaviour

ASSUME ModeAssumption == ModeOf \in [Requests -> {"prospective", "replay"}]
ASSUME LockAssumption == Free \notin Processes /\ Orphan \notin Processes /\ Free # Orphan
ASSUME BlockersAssumption == Clear \notin Blockers
ASSUME BoundsAssumption == LastTime \in Nat /\ MaxFaults \in Nat /\ Past \subseteq 0..LastTime

Times == 1..LastTime

(* The request, preflight-state and run snapshots.  A blocked preflight's  *)
(* flags name the cutoff of a replay request and no other; a round is      *)
(* captured at the cutoff, which stands in the flag of its run.            *)
RequestSnapshots == [id : Requests, requested : Times]
States == [request : RequestSnapshots, cutoff : 0..LastTime, blockers : Blockers \union {Clear}]
Kinds == {"thesis_blocked", "package_blocked", "orchestrated"}
Runs == [kind : Kinds, request : RequestSnapshots, blockers : Blockers \union {Clear},
         flag : 0..LastTime, completed : Times]
Ledgers == [built : 0..LastTime, requests : SUBSET RequestSnapshots, runs : SUBSET Runs]

(* What a call has decided to write, and the runs its receipt will name.   *)
Drafts == [ledger : Ledgers, requests : SUBSET RequestSnapshots, states : SUBSET States,
           runs : SUBSET Runs]

VARIABLES
  clock,     \* the time of the last call
  lock,      \* the lock file: Free, its living owner, or Orphan
  ledgers,   \* research_run_ledger_v2_1: the complete files
  torn,      \* and the built_at of the incomplete ones
  files,     \* analysis_request_v2_1, research_round_run_v2_1, research_round_v2_1
  leftover,  \* entries of complete ledger files that a failed call has left behind
  states,    \* research_request_preflight_state_v2_1
  current,   \* research_request_preflight_current_v2_1, by request
  pc,        \* where each process stands
  at,        \* the time each call has sampled
  draft,     \* what it has decided to write
  acked,     \* the requests and runs named by receipts
  faults     \* crashes and failures so far

store == <<ledgers, torn, files, states, current>>
vars == <<clock, lock, store, pc, at, draft, acked, leftover, faults>>

Empty == [built |-> 0, requests |-> {}, runs |-> {}]

Newest(history) ==
  IF history = {} THEN Empty
  ELSE CHOOSE l \in history : \A k \in history : k.built <= l.built

Head == Newest(ledgers)

(* load_latest_observatory_state: every file must have a legible header,   *)
(* the newest must be whole, and each current preflight must belong to it. *)
Loads == /\ \A t \in torn : t < Head.built
         /\ ledgers # {} => \A r \in DOMAIN current : r \in Head.requests /\ current[r].state \in states

(* ResearchRunLedgerSnapshot refuses a ledger older than what it lists.    *)
Buildable(l) == /\ \A r \in l.requests : r.requested <= l.built
                /\ \A run \in l.runs : run.completed <= l.built

Nothing == [ledger |-> Empty, requests |-> {}, states |-> {}, runs |-> {}]

Rounds(runs) == {run \in runs : run.kind = "orchestrated"}
Of(request) == {run \in Head.runs : run.request = request}
Latest(runs) == {run \in runs : \A other \in runs : other.completed <= run.completed}

Init == /\ clock = 0 /\ lock = Free
        /\ ledgers = {} /\ torn = {} /\ states = {}
        /\ files = [requests |-> {}, runs |-> {}, rounds |-> {}]
        /\ current = << >>
        /\ pc = [p \in Processes |-> "idle"] /\ at = [p \in Processes |-> 0]
        /\ draft = [p \in Processes |-> Nothing]
        /\ acked = [requests |-> {}, runs |-> {}] /\ faults = 0
        /\ leftover = [requests |-> {}, runs |-> {}]

Goto(p, label) == pc' = [pc EXCEPT ![p] = label]
Stands(p, label) == pc[p] = label
-----------------------------------------------------------------------------
(* Calls and the lock                                                      *)

(* The command line samples the time, then makes the call.                 *)
Call(p) ==
  /\ Stands(p, "idle") /\ clock < LastTime
  /\ clock' = clock + 1 /\ at' = [at EXCEPT ![p] = clock + 1] /\ Goto(p, "called")
  /\ UNCHANGED <<lock, store, draft, acked, leftover, faults>>

Acquire(p) ==
  /\ Stands(p, "called") /\ lock = Free
  /\ lock' = p /\ Goto(p, "locked")
  /\ UNCHANGED <<clock, store, at, draft, acked, leftover, faults>>

(* A finally clause that removes any lock file, and one that removes none: *)
(* mutants of LockAfter.                                                   *)
LockRemoved(created) == Free
LockLeft(created) == lock

LockAfter(created) == IF created THEN Free ELSE lock

Ended(p) == /\ Goto(p, "idle") /\ at' = [at EXCEPT ![p] = 0]
            /\ draft' = [draft EXCEPT ![p] = Nothing]

(* FileExistsError: the call fails at once.                                *)
Refuse(p) ==
  /\ Stands(p, "called") /\ lock # Free
  /\ lock' = LockAfter(FALSE) /\ Ended(p)
  /\ UNCHANGED <<clock, store, acked, leftover, faults>>

(* The store does not load, or an argument is refused.                     *)
Reject(p) ==
  /\ Stands(p, "locked") /\ Goto(p, "failed")
  /\ UNCHANGED <<clock, lock, store, at, draft, acked, leftover, faults>>

GiveUp(p) ==
  /\ Stands(p, "failed")
  /\ lock' = LockAfter(TRUE) /\ Ended(p)
  /\ UNCHANGED <<clock, store, acked, leftover, faults>>

Return(p) ==
  /\ Stands(p, "done")
  /\ acked' = [requests |-> acked.requests \union draft[p].requests,
               runs |-> acked.runs \union draft[p].runs]
  /\ lock' = LockAfter(TRUE) /\ Ended(p)
  /\ UNCHANGED <<clock, store, leftover, faults>>

(* An operator removes the lock file of a process that is gone.            *)
RemoveOrphan ==
  /\ lock = Orphan /\ lock' = Free
  /\ UNCHANGED <<clock, store, pc, at, draft, acked, leftover, faults>>
-----------------------------------------------------------------------------
(* What a call decides once it holds the lock                              *)

Extended(requests, runs, t) ==
  [built |-> t, requests |-> Head.requests \union requests, runs |-> Head.runs \union runs]

Plan(p, next, label) ==
  /\ draft' = [draft EXCEPT ![p] = next] /\ Goto(p, label)
  /\ UNCHANGED <<clock, lock, store, at, acked, leftover, faults>>

Registering(request, t) ==
  [Nothing EXCEPT !.ledger = Extended({request}, {}, t), !.requests = {request}]

Appending(run) ==
  [Nothing EXCEPT !.ledger = Extended({}, {run}, run.completed), !.runs = {run}]

(* record_analysis_request                                                 *)
Record(p) == Stands(p, "locked") /\ Loads /\ \E id \in Requests, t \in 1..at[p] :
  LET request == [id |-> id, requested |-> t]
  IN /\ \A other \in Head.requests : other.id # id
     /\ Buildable(Registering(request, at[p]).ledger)
     /\ Plan(p, Registering(request, at[p]), "write_request")

(* Not later than the head: a mutant of Later.                             *)
LaterOrNot(t) == TRUE

Later(t) == Head.built < t

(* What preflight and assembler require of the request.                    *)
Processable(p, request) ==
  /\ Loads /\ ledgers # {}
  /\ request.requested <= at[p] /\ Rounds(Of(request)) = {} /\ Later(at[p])

(* A cutoff later than the call: a mutant of Cutoffs.                      *)
CutoffsAhead(request, t) == Past \union {t + 1}

(* The cutoffs the caller may give: not later than the call, and of a      *)
(* prospective request not before it.                                      *)
Cutoffs(request, t) ==
  {c \in Past \union {t} : c <= t /\ (ModeOf[request.id] = "prospective" => request.requested <= c)}

Flag(request, cutoff) == IF ModeOf[request.id] = "replay" THEN cutoff ELSE 0

ThesisRun(request, cutoff, blockers, t) ==
  [kind |-> "thesis_blocked", request |-> request, blockers |-> blockers,
   flag |-> Flag(request, cutoff), completed |-> t]

(* The runs that differ from this one at most in their time.               *)
Repeats(runs, run) == {old \in runs : [old EXCEPT !.completed = run.completed] = run}

(* A blocked preflight is an event of the history unless it repeats one.   *)
Preflighting(state, run) ==
  LET prior == Repeats(Of(run.request), run)
      next == IF state.blockers = Clear THEN Nothing
              ELSE IF prior # {} THEN [Nothing EXCEPT !.runs = Latest(prior)]
              ELSE Appending(run)
  IN [next EXCEPT !.states = {state}]

(* preflight_pending_request_theses                                        *)
Preflight(p) == Stands(p, "locked") /\
  \E request \in Head.requests, b \in Blockers \union {Clear} : \E cutoff \in Cutoffs(request, at[p]) :
    /\ Processable(p, request)
    /\ Plan(p, Preflighting([request |-> request, cutoff |-> cutoff, blockers |-> b],
                            ThesisRun(request, cutoff, b, at[p])), "write_state")

(* _current_ready_preflight                                                *)
ReadyFor(p, request) ==
  /\ request \in DOMAIN current
  /\ current[request].at <= at[p] /\ current[request].state.cutoff <= current[request].at
  /\ current[request].state.blockers = Clear

PackageRun(request, blockers, t) ==
  [kind |-> "package_blocked", request |-> request, blockers |-> blockers, flag |-> 0,
   completed |-> t]

RoundRun(request, t) ==
  [kind |-> "orchestrated", request |-> request, blockers |-> Clear,
   flag |-> current[request].state.cutoff, completed |-> t]

(* assemble_and_run_research_package, with blockers                        *)
BlockPackage(p) == Stands(p, "locked") /\ \E request \in Head.requests, b \in Blockers :
  LET run == PackageRun(request, b, at[p])
      repeated == {old \in Repeats(Latest(Of(request)), run) : old.completed >= current[request].at}
  IN /\ Processable(p, request) /\ ReadyFor(p, request)
     /\ IF repeated # {}
        THEN Plan(p, [Nothing EXCEPT !.runs = repeated], "done")
        ELSE Plan(p, Appending(run), "write_run")

(* and without                                                             *)
Assemble(p) == Stands(p, "locked") /\ \E request \in Head.requests :
  /\ Processable(p, request) /\ ReadyFor(p, request)
  /\ Plan(p, Appending(RoundRun(request, at[p])), "write_round")
-----------------------------------------------------------------------------
(* The writes, in the order of the code                                    *)

Writes(p, label) == Stands(p, label) /\ UNCHANGED <<clock, lock, at, draft, acked, leftover, faults>>

Orchestrates(p) == Rounds(draft[p].runs) # {}

(* Files are created exclusively: a request file left by a crash stands in *)
(* the way of the same request.                                            *)
WriteRequest(p) ==
  /\ Writes(p, "write_request")
  /\ IF draft[p].requests \subseteq files.requests
     THEN Goto(p, "failed") /\ UNCHANGED store
     ELSE /\ files' = [files EXCEPT !.requests = @ \union draft[p].requests]
          /\ Goto(p, "create_ledger") /\ UNCHANGED <<ledgers, torn, states, current>>

(* The pointer moved before the history: a mutant of AfterState.           *)
PointerAfterState(p) == "publish_current"

AfterState(p) == IF draft[p].ledger = Empty THEN "publish_current" ELSE "write_run"

WriteState(p) ==
  /\ Writes(p, "write_state")
  /\ states' = states \union draft[p].states
  /\ Goto(p, AfterState(p)) /\ UNCHANGED <<ledgers, torn, files, current>>

WriteRound(p) ==
  /\ Writes(p, "write_round")
  /\ files' = [files EXCEPT !.rounds = @ \union draft[p].runs]
  /\ Goto(p, "write_run") /\ UNCHANGED <<ledgers, torn, states, current>>

WriteRun(p) ==
  /\ Writes(p, "write_run")
  /\ files' = [files EXCEPT !.runs = @ \union draft[p].runs]
  /\ Goto(p, "create_ledger") /\ UNCHANGED <<ledgers, torn, states, current>>

CreateLedger(p) ==
  /\ Writes(p, "create_ledger")
  /\ torn' = torn \union {draft[p].ledger.built}
  /\ Goto(p, "complete_ledger") /\ UNCHANGED <<ledgers, files, states, current>>

CompleteLedger(p) ==
  /\ Writes(p, "complete_ledger")
  /\ ledgers' = ledgers \union {draft[p].ledger} /\ torn' = torn \ {draft[p].ledger.built}
  /\ Goto(p, IF draft[p].states # {} THEN "publish_current"
             ELSE IF draft[p].requests # {} THEN "done" ELSE "confirm")
  /\ UNCHANGED <<files, states, current>>

(* The pointer of a blocked preflight left alone: a mutant of Moves.       *)
MovesWhenReady(state, t) == state.blockers = Clear

(* publish_current_research_thesis_preflight_state: never backward in time *)
Moves(state, t) == state.request \in DOMAIN current => current[state.request].at <= t

PublishCurrent(p) == Writes(p, "publish_current") /\ \E state \in draft[p].states :
  /\ IF Moves(state, at[p])
     THEN /\ current' = [r \in DOMAIN current \union {state.request} |->
                           IF r = state.request THEN [state |-> state, at |-> at[p]] ELSE current[r]]
          /\ Goto(p, "done")
     ELSE Goto(p, "failed") /\ UNCHANGED current
  /\ UNCHANGED <<ledgers, torn, files, states>>

(* The checks after a ledger of the assembler                              *)
Confirm(p) == Writes(p, "confirm") /\ Goto(p, "done") /\ UNCHANGED store
-----------------------------------------------------------------------------
(* Failed writes, and the rollback of their call                           *)

(* A ledger left behind: a mutant of Undo.                                 *)
UndoRunOnly(p) == IF Orchestrates(p) THEN "undo_round" ELSE "failed"

(* The assembler leaves a ledger file it has not finished where it is.     *)
LeavesTorn(p) == \E run \in draft[p].runs : run.kind \in {"package_blocked", "orchestrated"}

(* What is left of the rollback of a call that fails where it stands: a    *)
(* rollback that cannot remove a file goes on to the next.                 *)
Undo(p) ==
  CASE pc[p] = "confirm" \/ (pc[p] = "complete_ledger" /\ ~LeavesTorn(p)) -> "undo_ledger"
    [] \/ pc[p] \in {"create_ledger", "undo_ledger"}
       \/ pc[p] = "complete_ledger" /\ LeavesTorn(p) -> "undo_run"
    [] pc[p] \in {"write_run", "undo_run"} /\ Orchestrates(p) -> "undo_round"
    [] OTHER -> "failed"

Writing == {"write_request", "write_state", "write_round", "write_run", "create_ledger",
            "complete_ledger", "publish_current", "confirm"}
Undoing == {"undo_ledger", "undo_run", "undo_round"}

(* An I/O error or an interrupt, the ledger file of the call being whole   *)
(* or not: a whole one that the rollback passes by is left behind.         *)
Fails(p, whole) ==
  /\ faults < MaxFaults /\ faults' = faults + 1 /\ Goto(p, Undo(p))
  /\ leftover' = IF whole /\ Undo(p) = "undo_run"
                 THEN [requests |-> leftover.requests \union draft[p].requests,
                       runs |-> leftover.runs \union draft[p].runs]
                 ELSE leftover
  /\ UNCHANGED <<clock, lock, at, draft, acked>>

(* of a write, before it has done anything, or of a removal;               *)
Fail(p) ==
  /\ pc[p] \in Writing \union Undoing
  /\ Fails(p, draft[p].ledger \in ledgers) /\ UNCHANGED store

(* of the call that syncs a ledger file that is written already.           *)
FailToSync(p) ==
  /\ Stands(p, "complete_ledger") /\ Fails(p, TRUE)
  /\ ledgers' = ledgers \union {draft[p].ledger} /\ torn' = torn \ {draft[p].ledger.built}
  /\ UNCHANGED <<files, states, current>>

UndoLedger(p) ==
  /\ Writes(p, "undo_ledger")
  /\ ledgers' = ledgers \ {draft[p].ledger} /\ torn' = torn \ {draft[p].ledger.built}
  /\ Goto(p, "undo_run") /\ UNCHANGED <<files, states, current>>

UndoRun(p) ==
  /\ Writes(p, "undo_run")
  /\ files' = [files EXCEPT !.requests = @ \ draft[p].requests, !.runs = @ \ draft[p].runs]
  /\ Goto(p, IF Orchestrates(p) THEN "undo_round" ELSE "failed")
  /\ UNCHANGED <<ledgers, torn, states, current>>

UndoRound(p) ==
  /\ Writes(p, "undo_round")
  /\ files' = [files EXCEPT !.rounds = @ \ draft[p].runs]
  /\ Goto(p, "failed") /\ UNCHANGED <<ledgers, torn, states, current>>

(* The process dies; the lock file stays.  So it does when a call that is  *)
(* over cannot remove it.                                                  *)
Crash(p) ==
  /\ pc[p] \notin {"idle", "called"} /\ faults < MaxFaults
  /\ faults' = faults + 1 /\ lock' = (IF lock = p THEN Orphan ELSE lock) /\ Ended(p)
  /\ UNCHANGED <<clock, store, acked, leftover>>

Finished ==
  /\ clock = LastTime /\ \A p \in Processes : pc[p] = "idle"
  /\ UNCHANGED vars

Step(p) ==
  \/ Acquire(p) \/ Refuse(p) \/ Reject(p) \/ GiveUp(p) \/ Return(p)
  \/ Record(p) \/ Preflight(p) \/ BlockPackage(p) \/ Assemble(p)
  \/ WriteRequest(p) \/ WriteState(p) \/ WriteRound(p) \/ WriteRun(p)
  \/ CreateLedger(p) \/ CompleteLedger(p) \/ PublishCurrent(p) \/ Confirm(p)
  \/ UndoLedger(p) \/ UndoRun(p) \/ UndoRound(p)

Next ==
  \/ \E p \in Processes : Call(p) \/ Step(p) \/ Fail(p) \/ FailToSync(p) \/ Crash(p)
  \/ RemoveOrphan \/ Finished

(* A process that runs goes on to the end of its call.                     *)
Spec == Init /\ [][Next]_vars /\ \A p \in Processes : WF_vars(Step(p))
-----------------------------------------------------------------------------
(* Properties                                                              *)

Labels == {"idle", "called", "locked", "done", "failed"} \union Writing \union Undoing

(* The types of the state.                                                 *)
TypeOK ==
  /\ clock \in 0..LastTime /\ faults \in 0..MaxFaults
  /\ lock \in Processes \union {Free, Orphan}
  /\ ledgers \subseteq Ledgers /\ torn \subseteq 0..LastTime
  /\ files \in [requests : SUBSET RequestSnapshots, runs : SUBSET Runs, rounds : SUBSET Runs]
  /\ states \subseteq States /\ DOMAIN current \subseteq RequestSnapshots
  /\ current \in [DOMAIN current -> [state : States, at : Times]]
  /\ pc \in [Processes -> Labels] /\ at \in [Processes -> 0..LastTime]
  /\ draft \in [Processes -> Drafts]
  /\ acked \in [requests : SUBSET RequestSnapshots, runs : SUBSET Runs]
  /\ leftover \in [requests : SUBSET RequestSnapshots, runs : SUBSET Runs]

(* At most one process reads and writes the history, whoever is refused,   *)
(* fails or dies, and it is the one the lock file names.                   *)
Holds(p) == pc[p] \notin {"idle", "called"}
OneWriter == \A p \in Processes : Holds(p) => lock = p

(* A run that was reported to a caller is in the head of the history from  *)
(* then on, whatever times later calls have sampled and however they fail. *)
AckedRunsSurvive == acked.runs \subseteq Head.runs

(* "The resulting AnalysisRequestSnapshot is appended to a new immutable   *)
(* Research Run Ledger snapshot and appears in the Observatory": a request *)
(* that was reported as recorded is in the head of the history.            *)
AckedRequestsSurvive == acked.requests \subseteq Head.requests

(* A ledger file lists no request, run or round without its file, halfway  *)
(* through a rollback and after a crash in one too, but for the entry of a *)
(* call whose rollback has left its whole ledger file in place: the file   *)
(* could not be removed, or the assembler failed to sync it.               *)
LedgersBacked ==
  \A l \in ledgers :
    LET runs == l.runs \ leftover.runs
    IN /\ l.requests \ leftover.requests \subseteq files.requests
       /\ runs \subseteq files.runs /\ Rounds(runs) \subseteq files.rounds

(* The current preflight of a request is in the store and so is all it     *)
(* claims: a persisted state, a request of the head, and for a blocked one *)
(* a run of the history with the same blockers.  So the store can always   *)
(* be loaded but for an incomplete ledger file.                            *)
CurrentRecorded ==
  \A r \in DOMAIN current :
    LET state == current[r].state
    IN /\ state \in states /\ state.request = r /\ r \in Head.requests
       /\ state.blockers = Clear
            \/ \E run \in Of(r) : run.kind = "thesis_blocked" /\ run.blockers = state.blockers

(* A round is never assembled from a ready preflight that a later blocked  *)
(* one has overruled, as long as no call failed or died halfway.           *)
AssemblesLatestReady ==
  faults = 0 =>
    \A p \in Processes : \A round \in Rounds(draft[p].runs) :
      \A run \in Of(round.request) :
        run.kind = "thesis_blocked" => run.completed <= current[round.request].at

(* Every call ends and takes its lock file with it, by success, refusal or *)
(* rollback; only a crash leaves one, and then it is nobody's.             *)
CallsEnd == \A p \in Processes : pc[p] # "idle" ~> (pc[p] = "idle" /\ lock # p)
=============================================================================
