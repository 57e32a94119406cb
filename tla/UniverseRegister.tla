-------------------------- MODULE UniverseRegister --------------------------
(***************************************************************************)
(* What the observable-universe store promises to the runs of              *)
(* r1_research_cli: one register that holds the current attempt and the    *)
(* chain of successful snapshots, in which a client that has read the      *)
(* register publishes only over the very attempt it has read.              *)
(***************************************************************************)
EXTENDS Naturals, Sequences, SequencesExt

CONSTANTS Clients, Universes, Definitions, LastTime, None

Times == 1..LastTime
Snapshots == [universe : Universes, cutoff : Times, evidence : Definitions]

VARIABLES
  attempt,   \* the current attempt, or None
  chain,     \* the successful snapshots, oldest first
  view       \* the attempt each client has read

vars == <<attempt, chain, view>>

Init == attempt = None /\ chain = << >> /\ view = [c \in Clients |-> None]

(* A successor is about the same universe, later, and defines the evidence *)
(* they share as its predecessor does; the last may be published again.    *)
Extends(s) ==
  chain = << >> \/ s = Last(chain)
    \/ /\ s.universe = Last(chain).universe /\ Last(chain).cutoff < s.cutoff
       /\ \A i \in DOMAIN chain : chain[i].evidence = s.evidence

(* Attempts never go backward in their time or in their cutoff.            *)
Advances(next) ==
  attempt # None =>
    /\ attempt.cutoff <= next.cutoff
    /\ attempt.at < next.at \/ attempt = next

Read(c) ==
  /\ view' = [view EXCEPT ![c] = attempt] /\ UNCHANGED <<attempt, chain>>

Forget(c) ==
  /\ view' = [view EXCEPT ![c] = None] /\ UNCHANGED <<attempt, chain>>

Succeed(c) == \E s \in Snapshots :
  LET next == [status |-> "succeeded", at |-> s.cutoff, cutoff |-> s.cutoff, snapshot |-> s]
  IN /\ view[c] = attempt /\ Advances(next) /\ Extends(s)
     /\ attempt' = next /\ chain' = (IF chain # << >> /\ s = Last(chain) THEN chain ELSE Append(chain, s))
     /\ UNCHANGED view

Fail(c) == \E t, cutoff \in Times :
  LET next == [status |-> "failed", at |-> t, cutoff |-> cutoff, snapshot |-> None]
  IN /\ view[c] = attempt /\ cutoff <= t /\ Advances(next)
     /\ attempt' = next /\ UNCHANGED <<chain, view>>

Next == \E c \in Clients : Read(c) \/ Forget(c) \/ Succeed(c) \/ Fail(c)

Spec == Init /\ [][Next]_vars
=============================================================================
