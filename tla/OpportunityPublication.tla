----------------------- MODULE OpportunityPublication -----------------------
(***************************************************************************)
(* The pointers latest_opportunity_candidate.json and                      *)
(* latest_opportunity_set.json.  A round of research_package_assembler_v2_1*)
(* publishes its candidates and its set, one after the other, then its     *)
(* round, run and ledger files; when anything fails it rolls the pointers  *)
(* back.  It holds the ledger's lock, which _persist_snapshot of           *)
(* opportunity_set_v2_1, the direct publisher, does not take.              *)
(*                                                                         *)
(* A file is its inode, with a content and a stamp (modification time and  *)
(* size) that every write renews.  A pointer is replaced by claiming it:   *)
(* renamed to a quarantine of its own, compared with the version that was  *)
(* expected there, and replaced by a link that refuses an existing name.   *)
(* The direct publisher opens the name, which truncates or creates the     *)
(* file, and then writes it.  A snapshot is named by the round or the      *)
(* direct call that captured it and its place there; its directory is      *)
(* written before any pointer and never removed, and is not modelled.      *)
(***************************************************************************)
EXTENDS Naturals, Sequences, FiniteSets, SequencesExt

CONSTANTS
  Names,       \* the pointers
  Shapes,      \* the pointers a round may publish, in order
  Blank,       \* the content of a file opened and not yet written
  Absent,      \* no content
  MaxRounds,   \* bound on the rounds
  MaxDirect,   \* bound on the direct publications
  MaxFaults,   \* bound on the rounds and links that fail
  MaxCrashes   \* bound on the rounds killed and the operations left half done

ASSUME ShapesAssumption == Shapes \subseteq Seq(Names)

(* What a publication of a round or a direct one puts in a file.           *)
Contents == {Blank} \union ({"round", "direct"} \X Nat \X Nat)

ASSUME ContentAssumption == Absent \notin Contents

VARIABLES
  disk,      \* the files, by inode
  inode,     \* the file each pointer names, 0 when there is none
  pc,        \* where the round stands
  round,     \* rounds so far
  shape,     \* the pointers this round publishes
  undoing,   \* whether it is rolling back
  expect,    \* the version the operation in progress replaces
  put,       \* the content it puts there, Absent when it deletes
  aside,     \* the file in its quarantine, or 0
  owned,     \* one record for each publication so far: the content before, the version after
  direct,    \* direct publications so far
  handle,    \* the file the direct publisher has open, or 0
  before,    \* ghost: the contents when the round began
  alone,     \* ghost: nobody else has published since, and no rollback step failed
  kept,      \* ghost: the pointers published for good and not lost in a quarantine
  faults, crashes

files == <<disk, inode, aside>>
op == <<expect, put>>
other == <<direct, handle>>
ghosts == <<before, alone, kept>>
counts == <<faults, crashes>>
vars == <<files, pc, round, shape, undoing, op, owned, other, ghosts, counts>>

NoFile == 0
NoVersion == [file |-> NoFile, content |-> Absent, stamp |-> 0]
VersionOf(file) == IF file = NoFile THEN NoVersion
                   ELSE [file |-> file, content |-> disk[file].content, stamp |-> disk[file].stamp]
Content(n) == VersionOf(inode[n]).content
NewFile(content) == Append(disk, [content |-> content, stamp |-> 1])

(* The pointer at work and its place in the round.                         *)
Place == IF undoing THEN Len(owned) ELSE Len(owned) + 1
Name == shape[Place]

Init ==
  /\ disk = << >> /\ inode = [n \in Names |-> NoFile] /\ aside = NoFile
  /\ pc = "idle" /\ round = 0 /\ shape = << >> /\ undoing = FALSE
  /\ expect = NoVersion /\ put = Absent /\ owned = << >>
  /\ direct = 0 /\ handle = NoFile
  /\ before = [n \in Names |-> Absent] /\ alone = TRUE /\ kept = {}
  /\ faults = 0 /\ crashes = 0
-----------------------------------------------------------------------------
(* _publish_orchestrated_artifacts                                         *)

Begin == \E s \in Shapes :
  /\ pc = "idle" /\ round < MaxRounds
  /\ round' = round + 1 /\ shape' = s /\ owned' = << >> /\ undoing' = FALSE
  /\ before' = [n \in Names |-> Content(n)] /\ alone' = (handle = NoFile)
  /\ pc' = "publish"
  /\ UNCHANGED <<files, op, other, kept, counts>>

(* The pointer is read, as bytes and identity.                             *)
Read ==
  /\ pc = "publish" /\ Len(owned) < Len(shape)
  /\ expect' = VersionOf(inode[Name]) /\ put' = <<"round", round, Place>>
  /\ pc' = (IF inode[Name] = NoFile THEN "link" ELSE "claim")
  /\ UNCHANGED <<files, round, shape, undoing, owned, other, ghosts, counts>>

(* What was there before forgotten: a mutant of Recorded.                  *)
RecordedAsNew(published) ==
  [before |-> Absent,
   after |-> IF published THEN [file |-> Len(disk) + 1, content |-> put, stamp |-> 1] ELSE NoVersion]

(* What a publication remembers for the rollback.                          *)
Recorded(published) ==
  [before |-> expect.content,
   after |-> IF published THEN [file |-> Len(disk) + 1, content |-> put, stamp |-> 1] ELSE NoVersion]

(* The operation on one pointer is over; the quarantine is unlinked.       *)
Over(published) ==
  /\ aside' = NoFile /\ expect' = NoVersion /\ put' = Absent
  /\ owned' = (IF undoing THEN Front(owned) ELSE Append(owned, Recorded(published)))
  /\ pc' = (IF undoing THEN "undo" ELSE "publish")
  /\ UNCHANGED <<round, shape, undoing, other, ghosts, counts>>

Claim ==
  /\ pc = "claim"
  /\ IF inode[Name] = NoFile
     THEN Over(FALSE) /\ UNCHANGED <<disk, inode>>
     ELSE /\ aside' = inode[Name] /\ inode' = [inode EXCEPT ![Name] = NoFile]
          /\ pc' = "compare"
          /\ UNCHANGED <<disk, round, shape, undoing, op, owned, other, ghosts, counts>>

(* Any file taken for the expected one: a mutant of Matches.               *)
MatchesAny == TRUE

Matches == VersionOf(aside) = expect

Compare ==
  /\ pc = "compare"
  /\ pc' = (IF ~Matches THEN "restore" ELSE IF put = Absent THEN "drop" ELSE "link")
  /\ UNCHANGED <<files, round, shape, undoing, op, owned, other, ghosts, counts>>

Vacant(n) == inode[n] = NoFile

(* A link to the new file, unless somebody else has recreated the name.    *)
Link ==
  /\ pc = "link"
  /\ IF Vacant(Name)
     THEN disk' = NewFile(put) /\ inode' = [inode EXCEPT ![Name] = Len(disk) + 1]
     ELSE UNCHANGED <<disk, inode>>
  /\ Over(Vacant(Name))

(* The quarantined file is linked back, unless somebody else has the name. *)
Back == inode' = (IF Vacant(Name) THEN [inode EXCEPT ![Name] = aside] ELSE inode)

Restore == pc = "restore" /\ Back /\ Over(FALSE) /\ UNCHANGED disk

Drop == pc = "drop" /\ Over(FALSE) /\ UNCHANGED <<disk, inode>>

(* Round, run and ledger files are written.                                *)
Commit ==
  /\ pc = "publish" /\ Len(owned) = Len(shape)
  /\ pc' = "idle"
  /\ kept' = kept \union {shape[i] : i \in {j \in DOMAIN owned : owned[j].after # NoVersion}}
  /\ UNCHANGED <<files, round, shape, undoing, op, owned, other, before, alone, counts>>
-----------------------------------------------------------------------------
(* Failures and rollback                                                   *)

(* A check or a write of the round fails.                                  *)
Fail ==
  /\ pc = "publish" /\ faults < MaxFaults
  /\ faults' = faults + 1 /\ undoing' = TRUE /\ pc' = "undo"
  /\ UNCHANGED <<files, round, shape, op, owned, other, ghosts, crashes>>

(* Nothing is put back: a mutant of Reclaim.                               *)
ReclaimNothing == UNCHANGED inode

Reclaim == IF aside # NoFile THEN Back ELSE UNCHANGED inode

GivenUp == owned' = (IF undoing THEN Front(owned) ELSE owned) /\ undoing' = TRUE

(* The operation is given up: its quarantine or its new file cannot be     *)
(* made, or the link fails and the claimed file is linked back.            *)
LinkFails ==
  /\ pc \in {"claim", "link"} /\ faults < MaxFaults
  /\ faults' = faults + 1 /\ Reclaim /\ aside' = NoFile
  /\ GivenUp /\ pc' = "undo" /\ expect' = NoVersion /\ put' = Absent
  /\ alone' = (alone /\ ~undoing)
  /\ UNCHANGED <<disk, round, shape, other, before, kept, crashes>>

(* _rollback_owned_opportunity_publication, the last publication first     *)
Undo ==
  /\ pc = "undo" /\ owned # << >>
  /\ LET publication == Last(owned)
     IN IF publication.after = NoVersion
        THEN owned' = Front(owned) /\ UNCHANGED <<op, pc>>
        ELSE /\ expect' = publication.after /\ put' = publication.before
             /\ pc' = "claim" /\ UNCHANGED owned
  /\ UNCHANGED <<files, round, shape, undoing, other, ghosts, counts>>

RolledBack ==
  /\ pc = "undo" /\ owned = << >>
  /\ pc' = "idle"
  /\ UNCHANGED <<files, round, shape, undoing, op, owned, other, ghosts, counts>>

(* The operation on a pointer ends half done.                              *)
Stops(label) ==
  /\ crashes < MaxCrashes /\ crashes' = crashes + 1
  /\ aside' = NoFile /\ expect' = NoVersion /\ put' = Absent /\ pc' = label

(* The pointers left without the file that stays in, or goes with, the     *)
(* quarantine.                                                             *)
Lost == IF aside # NoFile /\ Vacant(Name) THEN {Name} ELSE {}

(* The process dies.                                                       *)
Crash ==
  /\ pc # "idle" /\ Stops("idle")
  /\ owned' = << >> /\ kept' = kept \ Lost
  /\ UNCHANGED <<disk, inode, round, shape, undoing, other, before, alone, faults>>

(* The claimed file cannot be read, or cannot be linked back.              *)
Strand ==
  /\ pc \in {"compare", "restore", "link"} /\ aside # NoFile /\ Stops("undo")
  /\ GivenUp /\ kept' = kept \ Lost
  /\ UNCHANGED <<disk, inode, round, shape, other, before, alone, faults>>

(* The new file is linked and the call fails after that, when it unlinks   *)
(* the quarantine or its own temporary name: nobody remembers the link.    *)
Unrecorded ==
  /\ pc = "link" /\ Vacant(Name) /\ Stops("undo")
  /\ disk' = NewFile(put) /\ inode' = [inode EXCEPT ![Name] = Len(disk) + 1]
  /\ GivenUp
  /\ UNCHANGED <<round, shape, other, ghosts, faults>>
-----------------------------------------------------------------------------
(* The direct publisher                                                    *)

Open == \E n \in Names :
  /\ handle = NoFile /\ direct < MaxDirect
  /\ direct' = direct + 1 /\ alone' = FALSE
  /\ IF inode[n] = NoFile
     THEN /\ disk' = NewFile(Blank) /\ inode' = [inode EXCEPT ![n] = Len(disk) + 1]
          /\ handle' = Len(disk) + 1
     ELSE /\ disk' = [disk EXCEPT ![inode[n]] = [content |-> Blank, stamp |-> @.stamp + 1]]
          /\ handle' = inode[n] /\ UNCHANGED inode
  /\ kept' = kept \union {n}
  /\ UNCHANGED <<aside, pc, round, shape, undoing, op, owned, before, counts>>

Write ==
  /\ handle # NoFile
  /\ disk' = [disk EXCEPT ![handle] = [content |-> <<"direct", direct, 1>>, stamp |-> @.stamp + 1]]
  /\ handle' = NoFile
  /\ UNCHANGED <<inode, aside, pc, round, shape, undoing, op, owned, direct, ghosts, counts>>

Finished ==
  /\ pc = "idle" /\ round = MaxRounds /\ handle = NoFile /\ direct = MaxDirect
  /\ UNCHANGED vars

RoundStep == Begin \/ Read \/ Claim \/ Compare \/ Link \/ Restore \/ Drop \/ Commit \/ Undo \/ RolledBack

Next == RoundStep \/ Fail \/ LinkFails \/ Crash \/ Strand \/ Unrecorded \/ Open \/ Write \/ Finished

Spec == Init /\ [][Next]_vars
-----------------------------------------------------------------------------
(* Properties                                                              *)

(* What a pointer stands for: the file at its name or, while that is in    *)
(* quarantine, the file there.                                             *)
Busy(n) == aside # NoFile /\ Name = n
Standing(n) == VersionOf(IF Vacant(n) /\ Busy(n) THEN aside ELSE inode[n])

(* The round changes what a pointer stands for only from the very version  *)
(* it has read, when it publishes, or published itself, when it rolls back:*)
(* a direct publication in between is never undone or overwritten.  Only   *)
(* one that was already writing the file when the round read it can be.    *)
OwnVersion(n) ==
  /\ Name = n
  /\ \/ Standing(n) = expect
     \/ expect.content = Blank /\ Standing(n).file = expect.file

OwnVersionOnly ==
  [][\A n \in Names : Standing(n)' # Standing(n) =>
       <<direct, handle>>' # <<direct, handle>> \/ crashes' # crashes \/ OwnVersion(n)]_vars

(* A pointer that was published for good, by a committed round or by a     *)
(* direct publisher, names a file again as soon as no operation is half    *)
(* done, whichever publications fail or are rolled back, killed or not.    *)
(* Only the one pointer whose file was in quarantine when the process was  *)
(* killed, or when that file could be neither read nor linked back, has    *)
(* none, until it is published again.                                      *)
PointersKept == aside = NoFile => \A n \in kept : ~Vacant(n)

AfterRollback == pc = "undo" /\ owned = << >> /\ alone /\ crashes = 0

(* A round that fails, and that nobody else's publication has met, leaves  *)
(* a pointer it publishes at most once with the content it had before.  Of *)
(* the two pointers that is the set's: the candidates' is written once for *)
(* each candidate.  No operation has ended half done.                      *)
SinglePublicationUndone ==
  AfterRollback => \A n \in Names :
    Cardinality({i \in DOMAIN shape : shape[i] = n}) < 2 => Content(n) = before[n]

=============================================================================
