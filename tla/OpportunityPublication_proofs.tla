-------------------- MODULE OpportunityPublication_proofs --------------------
(***************************************************************************)
(* What the publication of opportunity pointers keeps, for any pointers,   *)
(* any shape of round and any number of rounds, direct publications,       *)
(* failures and kills.  Sound says where a round stands and what is in its *)
(* quarantine; KeptInv and UndoneInv build on it.                          *)
(***************************************************************************)
EXTENDS OpportunityPublication, FiniteSetTheorems, SequenceTheorems, TLAPS

Files == [content : Contents, stamp : Nat \ {0}]
Versions == [file : Nat, content : Contents \union {Absent}, stamp : Nat]
Publications == [before : Contents \union {Absent}, after : Versions]
Working == {"claim", "compare", "link", "restore", "drop"}

(* The types of the state.                                                 *)
Typed ==
  /\ disk \in Seq(Files)
  /\ inode \in [Names -> 0..Len(disk)] /\ aside \in 0..Len(disk) /\ handle \in 0..Len(disk)
  /\ pc \in Working \union {"idle", "publish", "undo"}
  /\ shape \in Seq(Names) /\ owned \in Seq(Publications) /\ undoing \in BOOLEAN
  /\ expect \in Versions /\ put \in Contents \union {Absent}
  /\ before \in [Names -> Contents \union {Absent}] /\ alone \in BOOLEAN /\ kept \subseteq Names
  /\ round \in Nat /\ direct \in Nat /\ crashes \in Nat

(* Where the round stands: in its shape, and with or without a quarantine. *)
Placed ==
  /\ Len(owned) <= Len(shape)
  /\ pc \in Working => IF undoing THEN owned # << >> ELSE Len(owned) < Len(shape)
  /\ pc = "publish" => ~undoing
  /\ pc = "undo" => undoing
  /\ pc \in {"idle", "publish", "undo", "claim"} => aside = NoFile
  /\ pc \in {"compare", "restore", "drop"} => aside # NoFile
  /\ pc = "link" => (aside = NoFile <=> expect = NoVersion)
  /\ pc \in Working \ {"link"} => expect # NoVersion
  /\ pc \in Working => IF undoing THEN expect = Last(owned).after /\ put = Last(owned).before
                       ELSE put # Absent
  /\ pc = "link" => put # Absent
  /\ pc = "drop" => put = Absent

(* No file has two names, and none is under its name and in quarantine.    *)
Distinct ==
  /\ \A m, n \in Names : inode[m] = inode[n] /\ inode[m] # NoFile => m = n
  /\ \A n \in Names : inode[n] # NoFile => inode[n] # aside

(* A file that the direct publisher has open is blank; so one that was     *)
(* found to be the expected one still is, or was blank when it was read.   *)
Expected(version) ==
  version = expect \/ (expect.content = Blank /\ version.file = expect.file)

Compared ==
  /\ handle # NoFile => disk[handle].content = Blank
  /\ pc \in {"link", "drop"} => Expected(VersionOf(aside))

Sound == Typed /\ Placed /\ Distinct /\ Compared

File(n) == IF Vacant(n) /\ Busy(n) THEN aside ELSE inode[n]

(* The publications that have made a pointer where there was none, and     *)
(* whose file is as they made it.                                          *)
Intact(i) == VersionOf(owned[i].after.file) = owned[i].after
Created(i) == owned[i].after # NoVersion /\ owned[i].before = Absent

OwnedFile(i) ==
  owned[i].after # NoVersion =>
    /\ owned[i].after.file \in 1..Len(disk) /\ owned[i].after.stamp = 1
    /\ ~undoing => File(shape[i]) # NoFile
    /\ Created(i) /\ Intact(i) /\ shape[i] \in kept => File(shape[i]) # owned[i].after.file

KeptInv ==
  /\ \A n \in kept : File(n) # NoFile
  /\ pc = "drop" /\ Name \in kept => ~Vacant(Name)
  /\ pc # "idle" => \A i \in DOMAIN owned : OwnedFile(i)

Once(n) == \A i, j \in DOMAIN shape : shape[i] = n /\ shape[j] = n => i = j

(* A pointer the round publishes once: before, during and after that.      *)
PublishedOnce(n) == \E i \in DOMAIN owned : shape[i] = n
Midway(n) == pc \in Working /\ Name = n

Untouched(n) == ~PublishedOnce(n) /\ ~Midway(n) => Content(n) = before[n]
Owning(i) == /\ owned[i].after # NoVersion /\ owned[i].before = before[shape[i]]
             /\ ~Midway(shape[i]) => VersionOf(inode[shape[i]]) = owned[i].after
Replacing(n) ==
  Midway(n) =>
    /\ pc # "restore" /\ Standing(n) = expect
    /\ IF undoing THEN put = before[n] ELSE expect.content = before[n]
    /\ aside # NoFile => Vacant(n)

UndoneInv ==
  alone /\ crashes = 0 /\ pc # "idle" =>
    /\ handle = NoFile
    /\ \A n \in Names : Once(n) => Untouched(n) /\ Replacing(n)
    /\ \A i \in DOMAIN owned : Once(shape[i]) => Owning(i)
-----------------------------------------------------------------------------
(* Files, versions and publications                                        *)

(* A file more.                                                            *)
LEMMA FileAdded ==
  ASSUME disk \in Seq(Files), NEW c \in Contents
  PROVE  /\ NewFile(c) \in Seq(Files) /\ Len(NewFile(c)) = Len(disk) + 1
         /\ Len(disk) \in Nat
         /\ \A f \in 1..Len(disk) : NewFile(c)[f] = disk[f]
         /\ NewFile(c)[Len(disk) + 1] = [content |-> c, stamp |-> 1]
<1>1. [content |-> c, stamp |-> 1] \in Files
  BY DEF Files
<1> QED
  BY <1>1 DEF NewFile

(* The version of a file, or of none.                                      *)
LEMMA VersionTyped ==
  ASSUME disk \in Seq(Files), NEW f \in 0..Len(disk)
  PROVE  /\ VersionOf(f) \in Versions /\ VersionOf(f).file = f
         /\ f = NoFile <=> VersionOf(f) = NoVersion
         /\ f # NoFile => VersionOf(f).content \in Contents /\ VersionOf(f).stamp \in Nat \ {0}
         /\ VersionOf(NoFile) = NoVersion /\ NoVersion.content = Absent /\ NoVersion.file = NoFile
<1>1. CASE f = NoFile
  BY <1>1 DEF VersionOf, NoVersion, NoFile, Versions
<1>2. CASE f # NoFile
  <2>1. disk[f] \in Files
    BY <1>2 DEF NoFile
  <2> QED
    BY <1>2, <2>1 DEF VersionOf, NoVersion, NoFile, Versions, Files
<1> QED
  BY <1>1, <1>2

(* A version belongs to a file as it is on the disk.                       *)
LEMMA VersionStays ==
  ASSUME NEW f, f # NoFile => disk'[f] = disk[f]
  PROVE  VersionOf(f)' = VersionOf(f)
BY DEF VersionOf, NoFile, NoVersion

(* One publication less, or more.                                          *)
LEMMA OwnedTyped ==
  ASSUME NEW s \in Seq(Publications)
  PROVE  /\ Len(s) \in Nat /\ (s = << >> <=> Len(s) = 0)
         /\ s # << >> =>
              /\ Front(s) \in Seq(Publications) /\ Len(Front(s)) = Len(s) - 1
              /\ \A i \in 1..Len(s) - 1 : Front(s)[i] = s[i]
              /\ Last(s) = s[Len(s)] /\ Last(s) \in Publications
         /\ \A e \in Publications :
              /\ Append(s, e) \in Seq(Publications) /\ Len(Append(s, e)) = Len(s) + 1
              /\ \A i \in 1..Len(s) : Append(s, e)[i] = s[i]
              /\ Append(s, e)[Len(s) + 1] = e
<1>1. Len(s) \in Nat /\ (s = << >> <=> Len(s) = 0)
  OBVIOUS
<1>2. ASSUME s # << >>
      PROVE  /\ Front(s) \in Seq(Publications) /\ Len(Front(s)) = Len(s) - 1
             /\ \A i \in 1..Len(s) - 1 : Front(s)[i] = s[i]
  <2>1. \A i \in 1..Len(s) - 1 : s[i] \in Publications
    BY <1>1
  <2>2. /\ SubSeq(s, 1, Len(s) - 1) \in Seq(Publications)
        /\ Len(SubSeq(s, 1, Len(s) - 1)) = IF 1 <= Len(s) - 1 THEN Len(s) - 1 - 1 + 1 ELSE 0
        /\ \A i \in 1..Len(s) - 1 - 1 + 1 : SubSeq(s, 1, Len(s) - 1)[i] = s[1 + i - 1]
    BY <1>1, <2>1, SubSeqProperties
  <2>3. Front(s) = SubSeq(s, 1, Len(s) - 1)
    BY DEF Front
  <2>6. Len(s) \in Nat \ {0}
    BY <1>1, <1>2
  <2>4. Len(SubSeq(s, 1, Len(s) - 1)) = Len(s) - 1
    <3>1. CASE Len(s) = 1
      <4>1. ~(1 <= Len(s) - 1) /\ Len(s) - 1 = 0
        BY <3>1
      <4> QED
        BY <2>2, <4>1
    <3>2. CASE Len(s) # 1
      <4>1. \A n \in Nat \ {0, 1} : 1 <= n - 1 /\ n - 1 - 1 + 1 = n - 1
        OBVIOUS
      <4>2. Len(s) \in Nat \ {0, 1}
        BY <2>6, <3>2
      <4> QED
        BY <2>2, <4>1, <4>2
    <3> QED
      BY <3>1, <3>2
  <2>5. ASSUME NEW i \in 1..Len(s) - 1
        PROVE  SubSeq(s, 1, Len(s) - 1)[i] = s[i]
    <3>1. i \in 1..Len(s) - 1 - 1 + 1 /\ 1 + i - 1 = i
      BY <1>1
    <3> QED
      BY <3>1, <2>2
  <2> QED
    BY <2>2, <2>3, <2>4, <2>5
<1>3. s # << >> => Last(s) = s[Len(s)] /\ Last(s) \in Publications
  BY <1>1 DEF Last
<1> QED
  BY <1>1, <1>2, <1>3

(* The pointer at work is one of the shape.                                *)
LEMMA NameTyped ==
  ASSUME Typed, Placed, pc \in Working
  PROVE  /\ Place \in DOMAIN shape /\ Name \in Names /\ Len(shape) \in Nat /\ Len(owned) \in Nat
         /\ ~undoing => Place = Len(owned) + 1
         /\ undoing => Place = Len(owned) /\ Place \in DOMAIN owned /\ owned[Place] = Last(owned)
BY OwnedTyped DEF Typed, Placed, Place, Name, Last

(* What a publication remembers.                                           *)
LEMMA RecordedTyped ==
  ASSUME Typed, NEW published \in BOOLEAN
  PROVE  Recorded(published) \in Publications
<1>1. [file |-> Len(disk) + 1, content |-> put, stamp |-> 1] \in Versions
  BY DEF Typed, Versions
<1>2. NoVersion \in Versions /\ expect.content \in Contents \union {Absent}
  BY DEF Typed, Versions, NoVersion, NoFile
<1> QED
  BY <1>1, <1>2 DEF Recorded, Publications

-----------------------------------------------------------------------------
(* Where the round stands                                                  *)

(* The end of an operation leaves a sound state if what it did to the      *)
(* files was sound.                                                        *)
LEMMA OverSound ==
  ASSUME Sound, pc \in Working, Over(TRUE) \/ Over(FALSE),
         disk' \in Seq(Files), Len(disk') >= Len(disk), inode' \in [Names -> 0..Len(disk')],
         \A m, n \in Names : inode'[m] = inode'[n] /\ inode'[m] # NoFile => m = n,
         handle # NoFile => disk'[handle].content = Blank
  PROVE  Sound'
<1>1. Typed /\ Placed /\ Distinct /\ Compared
  BY DEF Sound
<1>2. /\ aside' = NoFile /\ expect' = NoVersion /\ put' = Absent
      /\ undoing => owned' = Front(owned)
      /\ ~undoing => owned' = Append(owned, Recorded(TRUE)) \/ owned' = Append(owned, Recorded(FALSE))
      /\ pc' = (IF undoing THEN "undo" ELSE "publish")
      /\ round' = round /\ shape' = shape /\ undoing' = undoing /\ direct' = direct /\ handle' = handle
      /\ before' = before /\ alone' = alone /\ kept' = kept /\ crashes' = crashes
  BY DEF Over, other, ghosts, counts
<1>3. Len(disk) \in Nat /\ Len(disk') \in Nat /\ NoVersion \in Versions
  BY <1>1, VersionTyped DEF Typed, NoVersion, NoFile, Versions
<1>4. Recorded(TRUE) \in Publications /\ Recorded(FALSE) \in Publications
  BY <1>1, RecordedTyped
<1>5. /\ owned' \in Seq(Publications) /\ Len(owned') <= Len(shape)
      /\ pc' \in {"undo", "publish"} /\ (pc' = "undo" <=> undoing)
  <2>1. /\ owned \in Seq(Publications) /\ Len(owned) \in Nat /\ Len(shape) \in Nat
        /\ undoing => owned # << >> /\ Len(owned) <= Len(shape)
        /\ ~undoing => Len(owned) < Len(shape)
    BY <1>1, OwnedTyped DEF Typed, Placed
  <2>2. CASE undoing
    <3>1. owned' = Front(owned) /\ Front(owned) \in Seq(Publications) /\ Len(Front(owned)) = Len(owned) - 1
      BY <1>2, <2>1, <2>2, OwnedTyped
    <3> QED
      BY <1>2, <2>1, <2>2, <3>1
  <2>3. CASE ~undoing
    <3>1. PICK recorded \in Publications : owned' = Append(owned, recorded)
      BY <1>2, <1>4, <2>3
    <3>2. owned' \in Seq(Publications) /\ Len(owned') = Len(owned) + 1
      BY <2>1, <3>1, OwnedTyped
    <3> QED
      BY <1>2, <2>1, <2>3, <3>2
  <2> QED
    BY <2>2, <2>3
<1>6. Typed'
  <2>1. /\ handle' \in 0..Len(disk') /\ aside' \in 0..Len(disk')
    BY <1>1, <1>2, <1>3 DEF Typed, NoFile
  <2> QED
    BY <1>1, <1>2, <1>3, <1>5, <2>1 DEF Typed
<1>7. Placed'
  BY <1>1, <1>2, <1>5 DEF Placed, Working
<1>8. Distinct'
  BY <1>2 DEF Distinct
<1>9. Compared'
  BY <1>2, <1>5 DEF Compared
<1> QED
  BY <1>6, <1>7, <1>8, <1>9 DEF Sound

(* A round begins.                                                         *)
LEMMA BeginSound == ASSUME Sound, Begin PROVE Sound'
<1>1. PICK s \in Shapes :
        /\ shape' = s /\ owned' = << >> /\ undoing' = FALSE /\ round' = round + 1
        /\ before' = [n \in Names |-> Content(n)] /\ alone' = (handle = NoFile) /\ pc' = "publish"
        /\ UNCHANGED <<disk, inode, aside, expect, put, direct, handle, kept, faults, crashes>>
        /\ pc = "idle"
  BY DEF Begin, files, op, other, counts
<1>2. Typed /\ Placed /\ Distinct /\ Compared
  BY DEF Sound
<1>3. \A n \in Names : Content(n) \in Contents \union {Absent}
  BY <1>2, VersionTyped DEF Content, Typed, Versions
<1>4. s \in Seq(Names) /\ << >> \in Seq(Publications) /\ Len(s) \in Nat /\ Len(owned') = 0
  BY <1>1, ShapesAssumption
<1>5. Typed'
  <2>1. alone' \in BOOLEAN
    BY <1>1
  <2>2. before' \in [Names -> Contents \union {Absent}]
    BY <1>1, <1>3
  <2>3. /\ disk' \in Seq(Files) /\ inode' \in [Names -> 0..Len(disk)]' /\ (aside \in 0..Len(disk))'
        /\ (handle \in 0..Len(disk))' /\ pc' \in Working \union {"idle", "publish", "undo"}
    BY <1>1, <1>2 DEF Typed
  <2> QED
    <3>1. owned' \in Seq(Publications) /\ shape' \in Seq(Names) /\ undoing' \in BOOLEAN
      BY <1>1, <1>4
    <3>2. expect' \in Versions /\ put' \in Contents \union {Absent} /\ kept' \subseteq Names
      BY <1>1, <1>2 DEF Typed
    <3>3. round' \in Nat /\ direct' \in Nat /\ crashes' \in Nat
      BY <1>1, <1>2 DEF Typed
    <3> QED
      BY <2>1, <2>2, <2>3, <3>1, <3>2, <3>3 DEF Typed
<1>6. Placed'
  BY <1>1, <1>2, <1>4 DEF Placed, Working
<1>7. Distinct' /\ Compared'
  BY <1>1, <1>2 DEF Distinct, Compared, VersionOf
<1> QED
  BY <1>5, <1>6, <1>7 DEF Sound

(* A pointer is read.                                                      *)
LEMMA ReadSound == ASSUME Sound, Read PROVE Sound'
<1>1. /\ pc = "publish" /\ Len(owned) < Len(shape)
      /\ expect' = VersionOf(inode[Name]) /\ put' = <<"round", round, Place>>
      /\ pc' = (IF inode[Name] = NoFile THEN "link" ELSE "claim")
      /\ UNCHANGED <<disk, inode, aside, round, shape, undoing, owned, direct, handle, before, alone, kept,
                     faults, crashes>>
  BY DEF Read, files, other, ghosts, counts
<1>2. Typed /\ Placed /\ Distinct /\ Compared
  BY DEF Sound
<1>3. ~undoing /\ aside = NoFile
  BY <1>1, <1>2 DEF Placed
<1>4. Len(owned) \in Nat /\ Len(shape) \in Nat /\ Place = Len(owned) + 1 /\ Name \in Names
  BY <1>1, <1>2, <1>3, OwnedTyped DEF Typed, Place, Name
<1>5. put' \in Contents /\ put' # Absent
  BY <1>1, <1>2, <1>4, ContentAssumption DEF Contents, Typed
<1>6. /\ expect' \in Versions /\ (inode[Name] = NoFile <=> expect' = NoVersion)
  BY <1>1, <1>2, <1>4, VersionTyped DEF Typed
<1>7. Typed'
  BY <1>1, <1>2, <1>5, <1>6 DEF Typed, Working
<1>8. Placed'
  BY <1>1, <1>2, <1>3, <1>5, <1>6 DEF Placed, Working
<1>9. Distinct'
  BY <1>1, <1>2 DEF Distinct
<1>10. Compared'
  <2>1. (handle # NoFile => disk[handle].content = Blank)'
    BY <1>1, <1>2 DEF Compared
  <2>2. VersionOf(aside)' = NoVersion
    BY <1>1, <1>3 DEF VersionOf
  <2>3. ASSUME pc' = "link" PROVE expect' = NoVersion
    BY <1>1, <1>6, <2>3
  <2>4. pc' # "drop"
    BY <1>1
  <2> QED
    BY <2>1, <2>2, <2>3, <2>4 DEF Compared, Expected
<1> QED
  BY <1>7, <1>8, <1>9, <1>10 DEF Sound

(* The parts of a sound state, and the pointer at work in it.              *)
LEMMA SoundParts ==
  ASSUME Sound
  PROVE  /\ Typed /\ Placed /\ Distinct /\ Compared
         /\ Len(disk) \in Nat /\ Len(owned) \in Nat /\ Len(shape) \in Nat
         /\ pc \in Working => Name \in Names
<1>1. Typed /\ Placed
  BY DEF Sound
<1> QED
  BY <1>1, NameTyped, OwnedTyped DEF Sound, Typed

(* A pointer is claimed.                                                   *)
LEMMA ClaimSound == ASSUME Sound, Claim PROVE Sound'
<1>1. /\ Typed /\ Placed /\ Distinct /\ Compared /\ pc = "claim" /\ pc \in Working /\ Name \in Names
      /\ Len(disk) \in Nat
  BY SoundParts DEF Claim, Working
<1>2. CASE inode[Name] = NoFile
  <2>1. Over(FALSE) /\ UNCHANGED <<disk, inode>>
    BY <1>2 DEF Claim
  <2> QED
    BY <1>1, <2>1, OverSound DEF Typed, Distinct, Compared
<1>3. CASE inode[Name] # NoFile
  <2>1. /\ aside' = inode[Name] /\ inode' = [inode EXCEPT ![Name] = NoFile] /\ pc' = "compare"
        /\ UNCHANGED <<disk, round, shape, undoing, expect, put, owned, direct, handle, before, alone, kept,
                       faults, crashes>>
    BY <1>3 DEF Claim, op, other, ghosts, counts
  <2>2. Typed'
    BY <1>1, <2>1 DEF Typed, Working, NoFile
  <2>3. Placed'
    BY <1>1, <1>3, <2>1 DEF Placed, Working
  <2>4. Distinct'
    BY <1>1, <1>3, <2>1 DEF Distinct, Typed
  <2>5. Compared'
    BY <1>1, <2>1 DEF Compared
  <2> QED
    BY <2>2, <2>3, <2>4, <2>5 DEF Sound
<1> QED
  BY <1>2, <1>3

(* The claimed file is compared.                                           *)
LEMMA CompareSound == ASSUME Sound, Compare PROVE Sound'
<1>1. /\ Typed /\ Placed /\ Distinct /\ Compared
  BY SoundParts
<1>2. /\ pc = "compare"
      /\ pc' = (IF ~Matches THEN "restore" ELSE IF put = Absent THEN "drop" ELSE "link")
      /\ UNCHANGED <<disk, inode, aside, round, shape, undoing, expect, put, owned, direct, handle, before,
                     alone, kept, faults, crashes>>
  BY DEF Compare, files, op, other, ghosts, counts
<1>3. Typed'
  BY <1>1, <1>2 DEF Typed, Working
<1>4. Placed'
  BY <1>1, <1>2 DEF Placed, Working
<1>5. Distinct'
  BY <1>1, <1>2 DEF Distinct
<1>6. Compared'
  <2>1. VersionOf(aside)' = VersionOf(aside)
    BY <1>2 DEF VersionOf, NoVersion
  <2>2. pc' \in {"link", "drop"} => VersionOf(aside) = expect
    BY <1>2 DEF Matches
  <2> QED
    BY <1>1, <1>2, <2>1, <2>2 DEF Compared, Expected
<1> QED
  BY <1>3, <1>4, <1>5, <1>6 DEF Sound

(* The new file has a name of its own, whoever remembers it.               *)
LEMMA NewFileSound ==
  ASSUME Sound, pc = "link", Vacant(Name), disk' = NewFile(put), inode' = [inode EXCEPT ![Name] = Len(disk) + 1]
  PROVE  /\ disk' \in Seq(Files) /\ Len(disk') = Len(disk) + 1 /\ Len(disk) \in Nat
         /\ \A f \in 1..Len(disk) : disk'[f] = disk[f]
         /\ inode' \in [Names -> 0..Len(disk')]
         /\ \A m, n \in Names : inode'[m] = inode'[n] /\ inode'[m] # NoFile => m = n
         /\ handle # NoFile => disk'[handle].content = Blank
         /\ \A n \in Names : inode'[n] = IF n = Name THEN Len(disk) + 1 ELSE inode[n]
<1>1. /\ Typed /\ Distinct /\ Compared /\ Name \in Names /\ Len(disk) \in Nat /\ put \in Contents
  BY SoundParts DEF Working, Placed, Typed
<1>2. /\ disk' \in Seq(Files) /\ Len(disk') = Len(disk) + 1
      /\ \A f \in 1..Len(disk) : disk'[f] = disk[f]
  BY <1>1, FileAdded DEF Typed
<1>3. inode \in [Names -> 0..Len(disk)] /\ handle \in 0..Len(disk)
  BY <1>1 DEF Typed
<1>4. inode' \in [Names -> 0..Len(disk')]
  BY <1>1, <1>2, <1>3
<1>5. \A n \in Names : inode'[n] = IF n = Name THEN Len(disk) + 1 ELSE inode[n]
  BY <1>3
<1>6. \A m, n \in Names : inode'[m] = inode'[n] /\ inode'[m] # NoFile => m = n
  <2>1. \A n \in Names : inode[n] # Len(disk) + 1
    BY <1>1, <1>3
  <2> QED
    BY <1>1, <1>5, <2>1 DEF Distinct
<1>7. handle # NoFile => disk'[handle].content = Blank
  BY <1>1, <1>2, <1>3 DEF Compared, NoFile
<1> QED
  BY <1>1, <1>2, <1>4, <1>5, <1>6, <1>7

(* A link is made, or refused.                                             *)
LEMMA LinkSound == ASSUME Sound, Link PROVE Sound'
<1>1. /\ Typed /\ Placed /\ Distinct /\ Compared /\ pc = "link" /\ pc \in Working /\ Name \in Names
      /\ Len(disk) \in Nat
  BY SoundParts DEF Link, Working
<1>2. CASE Vacant(Name)
  <2>1. Over(TRUE) /\ disk' = NewFile(put) /\ inode' = [inode EXCEPT ![Name] = Len(disk) + 1]
    BY <1>2 DEF Link
  <2>2. /\ disk' \in Seq(Files) /\ Len(disk') = Len(disk) + 1 /\ inode' \in [Names -> 0..Len(disk')]
        /\ \A m, n \in Names : inode'[m] = inode'[n] /\ inode'[m] # NoFile => m = n
        /\ handle # NoFile => disk'[handle].content = Blank
    BY <1>1, <1>2, <2>1, NewFileSound
  <2> QED
    BY <1>1, <2>1, <2>2, OverSound
<1>3. CASE ~Vacant(Name)
  <2>1. Over(FALSE) /\ UNCHANGED <<disk, inode>>
    BY <1>3 DEF Link, Over, Recorded
  <2> QED
    BY <1>1, <2>1, OverSound DEF Typed, Distinct, Compared
<1> QED
  BY <1>2, <1>3

(* A file in quarantine goes back to its name.                             *)
LEMMA BackSound ==
  ASSUME Sound, pc \in Working, aside # NoFile, Back
  PROVE  /\ inode' \in [Names -> 0..Len(disk)]
         /\ \A m, n \in Names : inode'[m] = inode'[n] /\ inode'[m] # NoFile => m = n
         /\ \A n \in Names : n # Name => inode'[n] = inode[n]
         /\ inode'[Name] = IF Vacant(Name) THEN aside ELSE inode[Name]
<1>1. Typed /\ Distinct /\ Name \in Names
  BY SoundParts
<1>2. inode \in [Names -> 0..Len(disk)] /\ aside \in 0..Len(disk)
  BY <1>1 DEF Typed
<1>3. \A n \in Names : inode'[n] = IF n = Name /\ Vacant(Name) THEN aside ELSE inode[n]
  BY <1>1, <1>2 DEF Back
<1>4. inode' \in [Names -> 0..Len(disk)]
  BY <1>1, <1>2 DEF Back
<1> QED
  BY <1>1, <1>2, <1>3, <1>4 DEF Distinct

LEMMA RestoreSound == ASSUME Sound, Restore PROVE Sound'
<1>1. /\ Typed /\ Placed /\ Compared /\ pc = "restore" /\ pc \in Working /\ Back /\ Over(FALSE)
      /\ disk' = disk
  BY SoundParts DEF Restore, Working
<1>2. aside # NoFile /\ Len(disk) \in Nat
  BY <1>1, SoundParts DEF Placed
<1> QED
  BY <1>1, <1>2, BackSound, OverSound DEF Typed, Compared

LEMMA DropSound == ASSUME Sound, Drop PROVE Sound'
<1>1. /\ Typed /\ Distinct /\ Compared /\ pc \in Working /\ Over(FALSE) /\ UNCHANGED <<disk, inode>>
      /\ Len(disk) \in Nat
  BY SoundParts DEF Drop, Working
<1> QED
  BY <1>1, OverSound DEF Typed, Distinct, Compared

LEMMA CommitSound == ASSUME Sound, Commit PROVE Sound'
<1>1. /\ Typed /\ Placed /\ Distinct /\ Compared
  BY SoundParts
<1>2. /\ pc = "publish" /\ pc' = "idle" /\ Len(owned) = Len(shape)
      /\ kept' = kept \union {shape[i] : i \in {j \in DOMAIN owned : owned[j].after # NoVersion}}
      /\ UNCHANGED <<disk, inode, aside, round, shape, undoing, expect, put, owned, direct, handle, before,
                     alone, faults, crashes>>
  BY DEF Commit, files, op, other, counts
<1>3. kept' \subseteq Names
  <2>1. DOMAIN owned = 1..Len(shape) /\ DOMAIN shape = 1..Len(shape)
    BY <1>1, <1>2 DEF Typed
  <2>2. \A i \in DOMAIN owned : shape[i] \in Names
    BY <1>1, <2>1 DEF Typed
  <2> QED
    BY <1>1, <1>2, <2>2 DEF Typed
<1>4. Typed'
  BY <1>1, <1>2, <1>3 DEF Typed
<1>5. Placed' /\ Distinct' /\ Compared'
  BY <1>1, <1>2 DEF Placed, Distinct, Compared, Working
<1> QED
  BY <1>4, <1>5 DEF Sound

(* A round fails between two pointers.                                     *)
LEMMA FailSound == ASSUME Sound, Fail PROVE Sound'
<1>1. /\ Typed /\ Placed /\ Distinct /\ Compared
  BY SoundParts
<1>2. /\ pc = "publish" /\ pc' = "undo" /\ undoing' = TRUE
      /\ UNCHANGED <<disk, inode, aside, round, shape, expect, put, owned, direct, handle, before,
                     alone, kept, crashes>>
  BY DEF Fail, files, op, other, ghosts
<1>3. Typed'
  BY <1>1, <1>2 DEF Typed
<1>4. Placed' /\ Distinct' /\ Compared'
  BY <1>1, <1>2 DEF Placed, Distinct, Compared, Working
<1> QED
  BY <1>3, <1>4 DEF Sound

(* The operation under way is given up, and the round is rolled back.      *)
LEMMA GivenUpSound ==
  ASSUME Sound, pc \in Working,
         owned' = (IF undoing THEN Front(owned) ELSE owned), undoing' = TRUE, pc' = "undo",
         aside' = NoFile, expect' = NoVersion, put' = Absent, alone' \in BOOLEAN, crashes' \in Nat,
         kept' \subseteq Names, UNCHANGED <<round, shape, direct, handle, before>>,
         disk' \in Seq(Files), Len(disk') \in Nat, Len(disk') >= Len(disk), inode' \in [Names -> 0..Len(disk')],
         handle # NoFile => disk'[handle].content = Blank,
         \A m, n \in Names : inode'[m] = inode'[n] /\ inode'[m] # NoFile => m = n
  PROVE  Sound'
<1>1. /\ Typed /\ Placed /\ Distinct /\ Compared /\ Len(disk) \in Nat
  BY SoundParts
<1>2. owned' \in Seq(Publications) /\ Len(owned') <= Len(shape)
  <2>1. /\ owned \in Seq(Publications) /\ Len(owned) \in Nat /\ Len(shape) \in Nat
        /\ Len(owned) <= Len(shape) /\ (undoing => owned # << >>)
    BY <1>1, SoundParts DEF Typed, Placed
  <2>2. CASE undoing
    <3>1. owned' = Front(owned) /\ Front(owned) \in Seq(Publications) /\ Len(Front(owned)) = Len(owned) - 1
      BY <2>1, <2>2, OwnedTyped
    <3> QED
      BY <2>1, <3>1
  <2>3. CASE ~undoing
    BY <2>1, <2>3
  <2> QED
    BY <2>2, <2>3
<1>3. NoVersion \in Versions /\ NoFile \in 0..Len(disk') /\ handle' \in 0..Len(disk')
  BY <1>1, VersionTyped DEF Typed, NoFile, NoVersion, Versions
<1>4. Typed'
  BY <1>1, <1>2, <1>3 DEF Typed
<1>5. Placed' /\ Distinct' /\ Compared'
  BY <1>1, <1>2 DEF Placed, Distinct, Compared, Working
<1> QED
  BY <1>4, <1>5 DEF Sound

LEMMA LinkFailsSound == ASSUME Sound, LinkFails PROVE Sound'
<1>1. /\ pc \in Working /\ Reclaim /\ Typed /\ Distinct /\ Compared /\ Len(disk) \in Nat
  BY SoundParts DEF LinkFails, Working
<1>2. /\ inode' \in [Names -> 0..Len(disk)]
      /\ \A m, n \in Names : inode'[m] = inode'[n] /\ inode'[m] # NoFile => m = n
  <2>1. CASE aside # NoFile
    BY <1>1, <2>1, BackSound DEF Reclaim
  <2>2. CASE aside = NoFile
    BY <1>1, <2>2 DEF Reclaim, Typed, Distinct
  <2> QED
    BY <2>1, <2>2
<1>3. /\ owned' = (IF undoing THEN Front(owned) ELSE owned) /\ undoing' = TRUE /\ pc' = "undo"
      /\ aside' = NoFile /\ expect' = NoVersion /\ put' = Absent /\ alone' \in BOOLEAN /\ crashes' \in Nat
      /\ UNCHANGED <<disk, round, shape, direct, handle, before>> /\ kept' \subseteq Names
  BY <1>1 DEF LinkFails, GivenUp, other, Typed
<1>4. disk' \in Seq(Files) /\ (handle # NoFile => disk'[handle].content = Blank)
  BY <1>1, <1>3 DEF Typed, Compared
<1> QED
  BY <1>1, <1>2, <1>3, <1>4, GivenUpSound

LEMMA StrandSound == ASSUME Sound, Strand PROVE Sound'
<1>1. /\ pc \in Working /\ Typed /\ Distinct /\ Compared /\ Len(disk) \in Nat
  BY SoundParts DEF Strand, Working
<1>2. /\ owned' = (IF undoing THEN Front(owned) ELSE owned) /\ undoing' = TRUE /\ pc' = "undo"
      /\ aside' = NoFile /\ expect' = NoVersion /\ put' = Absent /\ alone' \in BOOLEAN /\ crashes' \in Nat
      /\ UNCHANGED <<disk, inode, round, shape, direct, handle, before>> /\ kept' \subseteq Names
  BY <1>1 DEF Strand, Stops, GivenUp, other, Typed
<1>3. /\ disk' \in Seq(Files) /\ inode' \in [Names -> 0..Len(disk')]
      /\ handle # NoFile => disk'[handle].content = Blank
      /\ \A m, n \in Names : inode'[m] = inode'[n] /\ inode'[m] # NoFile => m = n
  BY <1>1, <1>2 DEF Typed, Distinct, Compared
<1> QED
  BY <1>1, <1>2, <1>3, GivenUpSound

LEMMA UnrecordedSound == ASSUME Sound, Unrecorded PROVE Sound'
<1>1. /\ pc = "link" /\ pc \in Working /\ Typed /\ Len(disk) \in Nat
  BY SoundParts DEF Unrecorded, Working
<1>2. /\ owned' = (IF undoing THEN Front(owned) ELSE owned) /\ undoing' = TRUE /\ pc' = "undo"
      /\ aside' = NoFile /\ expect' = NoVersion /\ put' = Absent /\ alone' \in BOOLEAN /\ crashes' \in Nat
      /\ UNCHANGED <<round, shape, direct, handle, before>> /\ kept' \subseteq Names
  BY <1>1 DEF Unrecorded, Stops, GivenUp, other, ghosts, Typed
<1>3. /\ disk' \in Seq(Files) /\ Len(disk') = Len(disk) + 1 /\ inode' \in [Names -> 0..Len(disk')]
      /\ \A m, n \in Names : inode'[m] = inode'[n] /\ inode'[m] # NoFile => m = n
      /\ handle # NoFile => disk'[handle].content = Blank
  BY NewFileSound DEF Unrecorded
<1>4. Len(disk') \in Nat /\ Len(disk') >= Len(disk)
  BY <1>1, <1>3
<1> QED
  BY <1>1, <1>2, <1>3, <1>4, GivenUpSound

LEMMA CrashSound == ASSUME Sound, Crash PROVE Sound'
<1>1. /\ Typed /\ Placed /\ Distinct /\ Compared /\ Len(disk) \in Nat /\ Len(shape) \in Nat
  BY SoundParts
<1>2. /\ owned' = << >> /\ pc' = "idle" /\ aside' = NoFile /\ expect' = NoVersion /\ put' = Absent
      /\ crashes' = crashes + 1 /\ kept' \subseteq kept
      /\ UNCHANGED <<disk, inode, round, shape, undoing, direct, handle, before, alone>>
  BY DEF Crash, Stops, other
<1>3. NoVersion \in Versions /\ NoFile \in 0..Len(disk) /\ << >> \in Seq(Publications) /\ Len(owned') = 0
  BY <1>1, <1>2 DEF Typed, NoFile, NoVersion, Versions
<1>4. Typed'
  BY <1>1, <1>2, <1>3 DEF Typed
<1>5. Placed' /\ Distinct' /\ Compared'
  BY <1>1, <1>2, <1>3 DEF Placed, Distinct, Compared, Working
<1> QED
  BY <1>4, <1>5 DEF Sound

(* The last publication is taken up, or had made nothing.                  *)
LEMMA UndoSound == ASSUME Sound, Undo PROVE Sound'
<1>1. /\ Typed /\ Placed /\ Distinct /\ Compared /\ Len(shape) \in Nat /\ Len(owned) \in Nat
  BY SoundParts
<1>2. /\ pc = "undo" /\ owned # << >>
      /\ UNCHANGED <<disk, inode, aside, round, shape, undoing, direct, handle, before, alone, kept, crashes>>
  BY DEF Undo, files, other, ghosts, counts
<1>3. /\ undoing /\ aside = NoFile /\ Last(owned) \in Publications /\ Len(owned) <= Len(shape)
      /\ Front(owned) \in Seq(Publications) /\ Len(Front(owned)) = Len(owned) - 1
  BY <1>1, <1>2, OwnedTyped DEF Placed, Typed
<1>4. Distinct'
  BY <1>1, <1>2 DEF Distinct
<1>5. CASE Last(owned).after = NoVersion
  <2>1. owned' = Front(owned) /\ UNCHANGED <<expect, put, pc>>
    BY <1>5 DEF Undo, op
  <2>2. Typed'
    BY <1>1, <1>2, <1>3, <2>1 DEF Typed
  <2>3. Placed' /\ Compared'
    BY <1>1, <1>2, <1>3, <2>1 DEF Placed, Compared, Working
  <2> QED
    BY <1>4, <2>2, <2>3 DEF Sound
<1>6. CASE Last(owned).after # NoVersion
  <2>1. expect' = Last(owned).after /\ put' = Last(owned).before /\ pc' = "claim" /\ owned' = owned
    BY <1>6 DEF Undo
  <2>2. expect' \in Versions /\ put' \in Contents \union {Absent}
    BY <1>3, <2>1 DEF Publications
  <2>3. Typed'
    BY <1>1, <1>2, <1>3, <2>1, <2>2 DEF Typed, Working
  <2>4. Placed' /\ Compared'
    BY <1>1, <1>2, <1>3, <1>6, <2>1 DEF Placed, Compared, Working
  <2> QED
    BY <1>4, <2>3, <2>4 DEF Sound
<1> QED
  BY <1>5, <1>6

LEMMA RolledBackSound == ASSUME Sound, RolledBack PROVE Sound'
<1>1. /\ Typed /\ Placed /\ Distinct /\ Compared
  BY SoundParts
<1>2. /\ pc = "undo" /\ pc' = "idle"
      /\ UNCHANGED <<disk, inode, aside, round, shape, undoing, expect, put, owned, direct, handle, before,
                     alone, kept, faults, crashes>>
  BY DEF RolledBack, files, op, other, ghosts, counts
<1>3. Typed'
  BY <1>1, <1>2 DEF Typed
<1>4. Placed' /\ Distinct' /\ Compared'
  BY <1>1, <1>2 DEF Placed, Distinct, Compared, Working
<1> QED
  BY <1>3, <1>4 DEF Sound

(* A direct publisher opens a pointer: it truncates its file, or creates   *)
(* one.                                                                    *)
LEMMA Opens ==
  ASSUME Sound, Open
  PROVE  \E m \in Names :
    /\ handle = NoFile /\ direct' = direct + 1 /\ alone' = FALSE /\ kept' = kept \union {m}
    /\ UNCHANGED <<aside, pc, round, shape, undoing, expect, put, owned, before, faults, crashes>>
    /\ disk' \in Seq(Files) /\ Len(disk') \in Nat /\ Len(disk') >= Len(disk)
    /\ inode' = [inode EXCEPT ![m] = handle'] /\ handle' \in 1..Len(disk')
    /\ handle' = (IF Vacant(m) THEN Len(disk) + 1 ELSE inode[m])
    /\ disk'[handle'].content = Blank
    /\ \A f \in 1..Len(disk) : f # handle' => disk'[f] = disk[f]
    /\ \A f \in 1..Len(disk) : f = handle' => disk'[f].stamp # 1
<1>1. PICK m \in Names :
        /\ handle = NoFile /\ direct' = direct + 1 /\ alone' = FALSE /\ kept' = kept \union {m}
        /\ UNCHANGED <<aside, pc, round, shape, undoing, expect, put, owned, before, faults, crashes>>
        /\ IF inode[m] = NoFile
           THEN /\ disk' = NewFile(Blank) /\ inode' = [inode EXCEPT ![m] = Len(disk) + 1]
                /\ handle' = Len(disk) + 1
           ELSE /\ disk' = [disk EXCEPT ![inode[m]] = [content |-> Blank, stamp |-> disk[inode[m]].stamp + 1]]
                /\ handle' = inode[m] /\ inode' = inode
  BY DEF Open, op, counts
<1>2. /\ disk \in Seq(Files) /\ inode \in [Names -> 0..Len(disk)] /\ Len(disk) \in Nat /\ Blank \in Contents
  BY SoundParts DEF Typed, Contents
<1>3. CASE Vacant(m)
  <2>1. /\ disk' = NewFile(Blank) /\ inode' = [inode EXCEPT ![m] = Len(disk) + 1] /\ handle' = Len(disk) + 1
    BY <1>1, <1>3 DEF Vacant
  <2>2. /\ disk' \in Seq(Files) /\ Len(disk') = Len(disk) + 1 /\ disk'[handle'].content = Blank
        /\ \A f \in 1..Len(disk) : disk'[f] = disk[f]
    <3>1. /\ NewFile(Blank) \in Seq(Files) /\ Len(NewFile(Blank)) = Len(disk) + 1
          /\ \A f \in 1..Len(disk) : NewFile(Blank)[f] = disk[f]
          /\ NewFile(Blank)[Len(disk) + 1] = [content |-> Blank, stamp |-> 1]
      BY <1>2, FileAdded
    <3> QED
      BY <2>1, <3>1
  <2>3. /\ \A f \in 1..Len(disk) : f # handle'
        /\ handle' \in 1..Len(disk') /\ Len(disk') \in Nat /\ Len(disk') >= Len(disk)
        /\ inode' = [inode EXCEPT ![m] = handle']
    BY <1>2, <2>1, <2>2
  <2> QED
    BY <1>1, <1>3, <2>1, <2>2, <2>3
<1>4. CASE ~Vacant(m)
  <2>1. /\ disk' = [disk EXCEPT ![inode[m]] = [content |-> Blank, stamp |-> disk[inode[m]].stamp + 1]]
        /\ handle' = inode[m] /\ inode' = inode /\ inode[m] \in 1..Len(disk)
    BY <1>1, <1>2, <1>4 DEF Vacant, NoFile
  <2>2. disk[inode[m]] \in Files
    BY <1>2, <2>1
  <2>3. /\ [content |-> Blank, stamp |-> disk[inode[m]].stamp + 1] \in Files
        /\ disk[inode[m]].stamp + 1 # 1
    BY <1>2, <2>2 DEF Files
  <2>4. /\ disk' \in Seq(Files) /\ Len(disk') = Len(disk)
        /\ disk'[handle'] = [content |-> Blank, stamp |-> disk[inode[m]].stamp + 1]
        /\ \A f \in 1..Len(disk) : f # handle' => disk'[f] = disk[f]
    BY <1>2, <2>1, <2>3
  <2>5. inode' = [inode EXCEPT ![m] = handle']
    BY <1>2, <2>1
  <2> QED
    BY <1>1, <1>2, <1>4, <2>1, <2>3, <2>4, <2>5
<1> QED
  BY <1>3, <1>4

LEMMA OpenSound == ASSUME Sound, Open PROVE Sound'
<1>1. /\ Typed /\ Placed /\ Distinct /\ Compared /\ Len(disk) \in Nat
  BY SoundParts
<1>2. PICK m \in Names :
    /\ handle = NoFile /\ direct' = direct + 1 /\ alone' = FALSE /\ kept' = kept \union {m}
    /\ UNCHANGED <<aside, pc, round, shape, undoing, expect, put, owned, before, faults, crashes>>
    /\ disk' \in Seq(Files) /\ Len(disk') \in Nat /\ Len(disk') >= Len(disk)
    /\ inode' = [inode EXCEPT ![m] = handle'] /\ handle' \in 1..Len(disk')
    /\ handle' = (IF Vacant(m) THEN Len(disk) + 1 ELSE inode[m])
    /\ disk'[handle'].content = Blank
    /\ \A f \in 1..Len(disk) : f # handle' => disk'[f] = disk[f]
  BY Opens
<1>3. inode \in [Names -> 0..Len(disk)] /\ aside \in 0..Len(disk)
  BY <1>1 DEF Typed
<1>4. Typed'
  <2>1. inode' \in [Names -> 0..Len(disk')] /\ aside' \in 0..Len(disk') /\ handle' \in 0..Len(disk')
    BY <1>1, <1>2, <1>3
  <2>2. alone' = FALSE
    BY <1>2
  <2>3. alone' \in BOOLEAN
    BY <2>2
  <2>4. kept' \subseteq Names /\ direct' \in Nat
    BY <1>1, <1>2 DEF Typed
  <2> QED
    BY <1>1, <1>2, <2>1, <2>3, <2>4 DEF Typed
<1>5. Placed'
  BY <1>1, <1>2 DEF Placed
<1>6. Distinct'
  <2>1. \A n \in Names : inode'[n] = IF n = m THEN handle' ELSE inode[n]
    BY <1>2, <1>3
  <2>2. \A n \in Names : n # m /\ inode[n] # NoFile => inode[n] # handle'
    BY <1>1, <1>2, <1>3 DEF Distinct, Vacant
  <2>3. handle' # aside /\ handle' # NoFile
    BY <1>1, <1>2, <1>3 DEF Distinct, Vacant, NoFile
  <2> QED
    BY <1>1, <1>2, <2>1, <2>2, <2>3 DEF Distinct
<1>7. Compared'
  <2>1. aside # NoFile => aside # handle' /\ aside \in 1..Len(disk)
    BY <1>1, <1>2, <1>3 DEF Distinct, Vacant, NoFile
  <2>2. VersionOf(aside)' = VersionOf(aside)
    BY <1>2, <2>1 DEF VersionOf, NoVersion
  <2> QED
    BY <1>1, <1>2, <2>2 DEF Compared, Expected
<1> QED
  BY <1>4, <1>5, <1>6, <1>7 DEF Sound

(* It writes the file it has open.                                         *)
LEMMA Writes ==
  ASSUME Sound, Write
  PROVE  /\ handle \in 1..Len(disk) /\ handle' = NoFile /\ disk' \in Seq(Files) /\ Len(disk') = Len(disk)
         /\ UNCHANGED <<inode, aside, pc, round, shape, undoing, expect, put, owned, direct, before, alone,
                        kept, faults, crashes>>
         /\ \A f \in 1..Len(disk) : f # handle => disk'[f] = disk[f]
         /\ disk'[handle].stamp # 1
<1>1. /\ disk \in Seq(Files) /\ handle \in 1..Len(disk) /\ Len(disk) \in Nat /\ direct \in Nat
  BY SoundParts DEF Write, Typed, NoFile
<1>2. disk[handle] \in Files
  BY <1>1
<1>3. <<"direct", direct, 1>> \in Contents
  BY <1>1 DEF Contents
<1>4. /\ [content |-> <<"direct", direct, 1>>, stamp |-> disk[handle].stamp + 1] \in Files
      /\ disk[handle].stamp + 1 # 1
  BY <1>2, <1>3 DEF Files
<1>5. disk' = [disk EXCEPT ![handle] = [content |-> <<"direct", direct, 1>>, stamp |-> disk[handle].stamp + 1]]
  BY DEF Write
<1>6. /\ disk' \in Seq(Files) /\ Len(disk') = Len(disk)
      /\ \A f \in 1..Len(disk) : f # handle => disk'[f] = disk[f]
      /\ disk'[handle].stamp # 1
  BY <1>1, <1>4, <1>5
<1> QED
  BY <1>1, <1>6 DEF Write, op, ghosts, counts

LEMMA WriteSound == ASSUME Sound, Write PROVE Sound'
<1>1. /\ Typed /\ Placed /\ Distinct /\ Compared /\ Len(disk) \in Nat
  BY SoundParts
<1>2. /\ handle \in 1..Len(disk) /\ handle' = NoFile /\ disk' \in Seq(Files) /\ Len(disk') = Len(disk)
      /\ UNCHANGED <<inode, aside, pc, round, shape, undoing, expect, put, owned, direct, before, alone,
                     kept, crashes>>
      /\ \A f \in 1..Len(disk) : f # handle => disk'[f] = disk[f]
  BY Writes
<1>3. Typed'
  BY <1>1, <1>2 DEF Typed, NoFile
<1>4. Placed' /\ Distinct'
  BY <1>1, <1>2 DEF Placed, Distinct
<1>5. Compared'
  <2>1. aside \in 0..Len(disk)
    BY <1>1 DEF Typed
  <2>2. CASE aside = handle
    <3>1. VersionOf(aside).content = Blank /\ VersionOf(aside).file = aside
      BY <1>1, <1>2, <2>2 DEF Compared, VersionOf, NoFile
    <3>2. VersionOf(aside)'.file = aside
      BY <1>2, <2>2 DEF VersionOf, NoFile
    <3> QED
      BY <1>1, <1>2, <3>1, <3>2 DEF Compared, Expected
  <2>3. CASE aside # handle
    <3>1. VersionOf(aside)' = VersionOf(aside)
      BY <1>2, <2>1, <2>3 DEF VersionOf, NoVersion, NoFile
    <3> QED
      BY <1>1, <1>2, <3>1 DEF Compared, Expected
  <2> QED
    BY <2>2, <2>3
<1> QED
  BY <1>3, <1>4, <1>5 DEF Sound

(* Every step leaves a sound state.                                        *)
LEMMA StepSound == ASSUME Sound, [Next]_vars PROVE Sound'
<1>1. CASE UNCHANGED vars
  BY <1>1 DEF Sound, Typed, Placed, Distinct, Compared, Expected, VersionOf, vars, files, op, other, ghosts,
     counts, Name, Place, NoVersion
<1>2. CASE Finished
  BY <1>1, <1>2 DEF Finished
<1> QED
  BY <1>1, <1>2, BeginSound, ReadSound, ClaimSound, CompareSound, LinkSound, RestoreSound, DropSound,
     CommitSound, UndoSound, RolledBackSound, FailSound, LinkFailsSound, CrashSound, StrandSound,
     UnrecordedSound, OpenSound, WriteSound
  DEF Next, RoundStep

LEMMA AlwaysSound == Spec => []Sound
<1>1. Init => Sound
  <2>1. SUFFICES ASSUME Init PROVE Sound
    OBVIOUS
  <2>2. /\ disk = << >> /\ Len(disk) = 0 /\ owned = << >> /\ Len(owned) = 0 /\ shape = << >> /\ Len(shape) = 0
        /\ << >> \in Seq(Files) /\ << >> \in Seq(Publications) /\ << >> \in Seq(Names)
        /\ NoVersion \in Versions
    BY <2>1 DEF Init, NoVersion, NoFile, Versions
  <2>3. Typed
    <3>1. /\ inode \in [Names -> 0..Len(disk)] /\ aside \in 0..Len(disk) /\ handle \in 0..Len(disk)
          /\ before \in [Names -> Contents \union {Absent}]
      BY <2>1, <2>2 DEF Init, NoFile
    <3>2. /\ disk \in Seq(Files) /\ shape \in Seq(Names) /\ owned \in Seq(Publications)
          /\ expect \in Versions /\ put \in Contents \union {Absent}
      BY <2>1, <2>2 DEF Init
    <3>3. alone \in BOOLEAN /\ undoing \in BOOLEAN /\ kept \subseteq Names
      BY <2>1 DEF Init
    <3>4. pc = "idle" /\ round \in Nat /\ direct \in Nat /\ crashes \in Nat
      BY <2>1 DEF Init
    <3> QED
      BY <3>1, <3>2, <3>3, <3>4 DEF Typed
  <2>4. Placed /\ Distinct /\ Compared
    BY <2>1, <2>2 DEF Init, Placed, Distinct, Compared, Working, NoFile
  <2> QED
    BY <2>3, <2>4 DEF Sound
<1> QED
  BY <1>1, StepSound, PTL DEF Spec
-----------------------------------------------------------------------------
(* What a pointer stands for                                               *)

(* It stands for a file of the disk, or for none.                          *)
LEMMA FileTyped ==
  ASSUME Sound, NEW n \in Names
  PROVE  File(n) \in 0..Len(disk) /\ Standing(n) = VersionOf(File(n))
BY DEF Sound, Typed, File, Standing

(* With nothing in quarantine it stands for the file it names.             *)
LEMMA FileNamed ==
  ASSUME NEW n, aside = NoFile
  PROVE  File(n) = inode[n]
BY DEF File, Busy

(* Taking a file into quarantine, or back, changes what no pointer stands  *)
(* for; nor do the steps that leave the quarantine alone.                  *)
LEMMA FileStays ==
  ASSUME Sound, NEW n \in Names,
         Begin \/ Read \/ Claim \/ Compare \/ Restore \/ Commit \/ Fail \/ LinkFails \/ Undo \/ RolledBack
         \/ Write \/ UNCHANGED vars
  PROVE  File(n)' = File(n)
<1>1. /\ Typed /\ Placed /\ inode \in [Names -> 0..Len(disk)]
  BY SoundParts DEF Typed
<1>2. ASSUME aside = NoFile, aside' = NoFile, inode' = inode PROVE File(n)' = File(n)
  BY <1>2 DEF File, Busy
<1>3. ASSUME UNCHANGED <<inode, aside, shape, undoing, owned>> PROVE File(n)' = File(n)
  BY <1>3 DEF File, Busy, Vacant, Name, Place
<1>4. CASE Begin \/ Read \/ Commit \/ Fail \/ Undo \/ RolledBack
  BY <1>1, <1>2, <1>4 DEF Begin, Read, Commit, Fail, Undo, RolledBack, files, Placed
<1>5. CASE Compare \/ UNCHANGED vars
  BY <1>3, <1>5 DEF Compare, files, vars
<1>6. CASE Write
  BY <1>3, <1>6, Writes
<1>7. CASE Claim
  <2>1. pc = "claim" /\ aside = NoFile /\ File(n) = inode[n] /\ Name \in Names
    BY <1>1, <1>7, SoundParts DEF Claim, Placed, File, Busy, Working
  <2>2. CASE inode[Name] = NoFile
    BY <1>2, <1>7, <2>1, <2>2 DEF Claim, Over
  <2>3. CASE inode[Name] # NoFile
    <3>1. aside' = inode[Name] /\ inode' = [inode EXCEPT ![Name] = NoFile] /\ UNCHANGED <<shape, undoing, owned>>
      BY <1>7, <2>3 DEF Claim
    <3>2. Name' = Name
      BY <3>1 DEF Name, Place
    <3> QED
      BY <1>1, <2>1, <2>3, <3>1, <3>2 DEF File, Busy, Vacant
  <2> QED
    BY <2>2, <2>3
<1>8. ASSUME pc \in Working, aside # NoFile, aside' = NoFile, Back PROVE File(n)' = File(n)
  <2>1. /\ \A m \in Names : m # Name => inode'[m] = inode[m]
        /\ inode'[Name] = IF Vacant(Name) THEN aside ELSE inode[Name]
    BY <1>8, BackSound
  <2>2. File(n)' = inode'[n]
    BY <1>8 DEF File, Busy
  <2> QED
    BY <1>8, <2>1, <2>2 DEF File, Busy
<1>9. CASE Restore
  BY <1>1, <1>8, <1>9 DEF Restore, Over, Placed, Working
<1>10. CASE LinkFails
  <2>1. pc \in Working /\ aside' = NoFile /\ Reclaim
    BY <1>10 DEF LinkFails, Working
  <2> QED
    BY <1>2, <1>8, <2>1 DEF Reclaim
<1> QED
  BY <1>4, <1>5, <1>6, <1>7, <1>9, <1>10

(* A link gives a vacant name a new file, and a deletion none.             *)
LEMMA FilePlaced ==
  ASSUME Sound, NEW n \in Names, Link \/ Drop
  PROVE  /\ n = Name /\ Vacant(n) => File(n)' = IF pc = "link" THEN Len(disk) + 1 ELSE NoFile
         /\ ~(n = Name /\ Vacant(n)) => File(n)' = File(n)
<1>1. /\ Name \in Names /\ aside' = NoFile /\ inode \in [Names -> 0..Len(disk)]
  BY SoundParts DEF Link, Drop, Working, Typed, Over
<1>2. File(n)' = inode'[n]
  BY <1>1 DEF File, Busy
<1>3. CASE Link
  <2>1. pc = "link" /\ inode' = IF Vacant(Name) THEN [inode EXCEPT ![Name] = Len(disk) + 1] ELSE inode
    BY <1>3 DEF Link
  <2>2. inode'[n] = IF n = Name /\ Vacant(n) THEN Len(disk) + 1 ELSE inode[n]
    BY <1>1, <2>1
  <2> QED
    BY <1>2, <2>1, <2>2 DEF File, Busy
<1>4. CASE Drop
  <2>1. pc = "drop" /\ inode' = inode
    BY <1>4 DEF Drop
  <2> QED
    BY <1>2, <2>1 DEF File, Busy, Vacant
<1> QED
  BY <1>3, <1>4

(* Opening a vacant name gives it a new file.                              *)
LEMMA FileOpened ==
  ASSUME Sound, NEW n \in Names, NEW m \in Names, inode' = [inode EXCEPT ![m] = handle'],
         handle' = (IF Vacant(m) THEN Len(disk) + 1 ELSE inode[m]), UNCHANGED <<aside, shape, undoing, owned>>
  PROVE  /\ n = m /\ Vacant(n) => File(n)' = Len(disk) + 1
         /\ ~(n = m /\ Vacant(n)) => File(n)' = File(n)
<1>1. inode \in [Names -> 0..Len(disk)] /\ Len(disk) \in Nat
  BY SoundParts DEF Typed
<1>2. Name' = Name
  BY DEF Name, Place
<1>3. inode'[n] = IF n = m /\ Vacant(n) THEN Len(disk) + 1 ELSE inode[n]
  BY <1>1 DEF Vacant
<1> QED
  BY <1>1, <1>2, <1>3 DEF File, Busy, Vacant, NoFile

(* An operation changes what its pointer stands for only when it vacates   *)
(* or fills a name it found as it expected.                                *)
LEMMA OwnVersionKept ==
  ASSUME Sound, Link \/ Drop, NEW n \in Names, Standing(n)' # Standing(n)
  PROVE  OwnVersion(n)
<1>1. /\ Typed /\ Placed /\ Compared /\ Len(disk) \in Nat /\ Name \in Names /\ pc \in {"link", "drop"}
  BY SoundParts DEF Link, Drop, Working
<1>2. CASE n = Name /\ Vacant(n)
  <2>1. CASE aside = NoFile
    <3>1. expect = NoVersion /\ Standing(n) = VersionOf(NoFile)
      BY <1>1, <1>2, <2>1 DEF Placed, Standing, Busy, Vacant
    <3> QED
      BY <1>2, <3>1 DEF OwnVersion, VersionOf
  <2>2. CASE aside # NoFile
    <3>1. Standing(n) = VersionOf(aside)
      BY <1>2, <2>2 DEF Standing, Busy
    <3> QED
      BY <1>1, <1>2, <3>1 DEF Compared, Expected, OwnVersion
  <2> QED
    BY <2>1, <2>2
<1>3. CASE ~(n = Name /\ Vacant(n))
  <2>1. PICK f : f = File(n)
    OBVIOUS
  <2>2. f \in 0..Len(disk) /\ File(n)' = f
    BY <1>3, <2>1, FileTyped, FilePlaced
  <2>3. f # NoFile => disk'[f] = disk[f]
    <3>1. CASE Link
      <4>1. disk' = disk \/ (disk' = NewFile(put) /\ put \in Contents)
        BY <1>1, <3>1 DEF Link, Placed, Typed
      <4>2. ASSUME put \in Contents PROVE \A g \in 1..Len(disk) : NewFile(put)[g] = disk[g]
        BY <1>1, <4>2, FileAdded DEF Typed
      <4> QED
        BY <1>1, <2>2, <4>1, <4>2 DEF NoFile
    <3>2. CASE Drop
      BY <3>2 DEF Drop
    <3> QED
      BY <3>1, <3>2
  <2>4. VersionOf(f)' = VersionOf(f)
    BY <2>3, VersionStays
  <2>5. Standing(n) = VersionOf(f) /\ Standing(n)' = VersionOf(f)'
    BY <2>1, <2>2 DEF Standing, File
  <2> QED
    BY <2>4, <2>5
<1> QED
  BY <1>2, <1>3

(* A pointer stands for another version only by an operation of the round  *)
(* that found there the one it had read or published itself, by a direct   *)
(* publication, or by an operation that ends half done, in a kill or an    *)
(* error: _publish_orchestrated_artifacts and its rollback undo and        *)
(* overwrite nobody else's publication.                                    *)
THEOREM PublicationsOwnVersions == Spec => OwnVersionOnly
<1>1. ASSUME Sound, Next
      PROVE  \A n \in Names : Standing(n)' # Standing(n) =>
               <<direct, handle>>' # <<direct, handle>> \/ crashes' # crashes \/ OwnVersion(n)
  <2>1. SUFFICES ASSUME NEW n \in Names, Standing(n)' # Standing(n),
                        direct' = direct, handle' = handle, crashes' = crashes
                 PROVE  OwnVersion(n)
    OBVIOUS
  <2>2. crashes \in Nat /\ direct \in Nat
    BY <1>1, SoundParts DEF Typed
  <2>3. ~Open /\ ~Write /\ ~Crash /\ ~Strand /\ ~Unrecorded
    <3>1. direct' # direct + 1 /\ crashes' # crashes + 1
      BY <2>1, <2>2
    <3>2. ~Open
      BY <3>1 DEF Open
    <3>3. ~Write
      BY <2>1 DEF Write
    <3>4. ~Crash /\ ~Strand /\ ~Unrecorded
      BY <3>1 DEF Crash, Strand, Unrecorded, Stops
    <3> QED
      BY <3>2, <3>3, <3>4
  <2>4. CASE Link \/ Drop
    BY <1>1, <2>1, <2>4, OwnVersionKept
  <2>5. CASE Begin \/ Read \/ Claim \/ Compare \/ Restore \/ Commit \/ Fail \/ LinkFails \/ Undo \/ RolledBack
             \/ UNCHANGED vars
    <3>1. disk' = disk
      BY <2>5 DEF Begin, Read, Claim, Compare, Restore, Commit, Fail, LinkFails, Undo, RolledBack, vars, files
    <3>2. File(n)' = File(n)
      BY <1>1, <2>5, FileStays
    <3> QED
      BY <2>1, <3>1, <3>2 DEF Standing, File, VersionOf, NoVersion
  <2> QED
    BY <1>1, <2>3, <2>4, <2>5 DEF Next, RoundStep, Finished
<1>2. ASSUME Sound, [Next]_vars
      PROVE  [\A n \in Names : Standing(n)' # Standing(n) =>
                <<direct, handle>>' # <<direct, handle>> \/ crashes' # crashes \/ OwnVersion(n)]_vars
  BY <1>1, <1>2
<1> QED
  BY <1>2, AlwaysSound, PTL DEF Spec, OwnVersionOnly
-----------------------------------------------------------------------------
(* Pointers published for good                                             *)

(* The place in the shape of a publication.                                *)
LEMMA OwnedPlace ==
  ASSUME Sound
  PROVE  /\ DOMAIN owned = 1..Len(owned) /\ owned \in Seq(Publications)
         /\ \A i \in DOMAIN owned : i \in DOMAIN shape /\ shape[i] \in Names /\ owned[i] \in Publications
<1>1. owned \in Seq(Publications) /\ shape \in Seq(Names) /\ Len(owned) <= Len(shape)
      /\ Len(owned) \in Nat /\ Len(shape) \in Nat
  BY SoundParts DEF Typed, Placed
<1> QED
  BY <1>1

(* One publication less.                                                   *)
LEMMA OwnedLess ==
  ASSUME Sound, owned # << >>, owned' = Front(owned)
  PROVE  /\ DOMAIN owned' = 1..Len(owned) - 1
         /\ \A i \in DOMAIN owned' : i \in DOMAIN owned /\ i # Len(owned) /\ owned'[i] = owned[i]
<1>1. owned \in Seq(Publications) /\ Len(owned) \in Nat \ {0} /\ DOMAIN owned = 1..Len(owned)
  BY OwnedPlace, OwnedTyped
<1>2. Front(owned) \in Seq(Publications) /\ Len(Front(owned)) = Len(owned) - 1
      /\ \A i \in 1..Len(owned) - 1 : Front(owned)[i] = owned[i]
  BY <1>1, OwnedTyped
<1>3. DOMAIN owned' = 1..Len(owned) - 1
  BY <1>2
<1> QED
  BY <1>1, <1>2, <1>3

(* What is left of the publications, or added, when an operation ends.     *)
LEMMA OverOwned ==
  ASSUME Sound, pc \in Working, NEW recorded \in Publications,
         owned' = (IF undoing THEN Front(owned) ELSE Append(owned, recorded))
  PROVE  /\ undoing => /\ DOMAIN owned' = 1..Len(owned) - 1 /\ Place = Len(owned) /\ Place \in DOMAIN owned
                       /\ \A i \in DOMAIN owned' : i \in DOMAIN owned /\ i # Place /\ owned'[i] = owned[i]
         /\ ~undoing => /\ Place = Len(owned) + 1 /\ DOMAIN owned' = 1..Place /\ owned'[Place] = recorded
                        /\ \A i \in DOMAIN owned' : i # Place => i \in DOMAIN owned /\ owned'[i] = owned[i]
                        /\ \A i \in DOMAIN owned : i \in DOMAIN owned' /\ i # Place
<1>1. /\ owned \in Seq(Publications) /\ Len(owned) \in Nat /\ (undoing => owned # << >>)
      /\ DOMAIN owned = 1..Len(owned)
  BY OwnedPlace, SoundParts DEF Placed
<1>2. CASE undoing
  <2>1. owned' = Front(owned) /\ Place = Len(owned) /\ Len(owned) # 0
    BY <1>1, <1>2, OwnedTyped DEF Place
  <2> QED
    BY <1>1, <1>2, <2>1, OwnedLess
<1>3. CASE ~undoing
  <2>1. owned' = Append(owned, recorded) /\ Place = Len(owned) + 1
    BY <1>3 DEF Place
  <2>2. /\ Append(owned, recorded) \in Seq(Publications) /\ Len(Append(owned, recorded)) = Len(owned) + 1
        /\ \A i \in 1..Len(owned) : Append(owned, recorded)[i] = owned[i]
        /\ Append(owned, recorded)[Len(owned) + 1] = recorded
    BY <1>1, OwnedTyped
  <2>3. DOMAIN owned' = 1..Place /\ owned'[Place] = recorded
    BY <2>1, <2>2
  <2>4. ASSUME NEW i \in DOMAIN owned', i # Place PROVE i \in DOMAIN owned /\ owned'[i] = owned[i]
    BY <1>1, <2>1, <2>2, <2>3, <2>4
  <2>5. ASSUME NEW i \in DOMAIN owned PROVE i \in DOMAIN owned' /\ i # Place
    BY <1>1, <2>1, <2>3, <2>5
  <2> QED
    BY <1>3, <2>1, <2>3, <2>4, <2>5
<1> QED
  BY <1>2, <1>3

(* A publication that stays recorded keeps its file apart as long as what  *)
(* happens to files and pointers is one of these things.                   *)
LEMMA OwnedStays ==
  ASSUME Sound, NEW i \in DOMAIN owned, OwnedFile(i), owned'[i] = owned[i], shape' = shape,
         undoing => undoing',
         Len(disk') \in Nat, Len(disk') >= Len(disk),
         \A f \in 1..Len(disk) : disk'[f] = disk[f] \/ disk'[f].stamp # 1,
         \A n \in Names : \/ File(n)' = File(n)
                          \/ File(n)' = Len(disk) + 1
                          \/ (undoing' /\ File(n)' = NoFile),
         \A n \in kept' : n \in kept \/ File(n)' = Len(disk) + 1
                          \/ (File(n)' \in 1..Len(disk) /\ disk'[File(n)'].stamp # 1)
  PROVE  OwnedFile(i)'
<1>1. shape[i] \in Names /\ Len(disk) \in Nat
  BY OwnedPlace, SoundParts
<1>2. PICK a, n : a = owned[i].after /\ n = shape[i]
  OBVIOUS
<1>3. CASE a = NoVersion
  BY <1>2, <1>3 DEF OwnedFile, NoVersion
<1>4. CASE a # NoVersion
  <2>1. /\ a.file \in 1..Len(disk) /\ a.stamp = 1 /\ (~undoing => File(n) # NoFile)
        /\ Created(i) /\ Intact(i) /\ n \in kept => File(n) # a.file
    BY <1>2, <1>4 DEF OwnedFile
  <2>2. owned'[i].after = a /\ shape'[i] = n /\ n \in Names
    BY <1>1, <1>2
  <2>3. ~undoing' => File(n)' # NoFile
    BY <1>1, <2>1, <2>2 DEF NoFile
  <2>4. ASSUME Created(i)', Intact(i)', n \in kept' PROVE File(n)' # a.file
    <3>1. Created(i)
      BY <2>4 DEF Created, NoVersion
    <3>2. VersionOf(a.file)' = a
      BY <2>2, <2>4 DEF Intact, VersionOf, NoVersion
    <3>3. disk'[a.file].stamp = 1
      BY <2>1, <3>2 DEF VersionOf, NoFile
    <3>4. disk'[a.file] = disk[a.file]
      BY <2>1, <3>3
    <3>5. VersionOf(a.file)' = VersionOf(a.file)
      BY <3>4 DEF VersionOf, NoVersion
    <3>6. Intact(i)
      BY <1>2, <3>2, <3>5 DEF Intact
    <3>7. CASE n \in kept
      BY <1>1, <2>1, <2>2, <3>1, <3>6, <3>7 DEF NoFile
    <3>8. CASE n \notin kept
      BY <1>1, <2>1, <2>4, <3>3, <3>8
    <3> QED
      BY <3>7, <3>8
  <2>5. owned'[i].after.file \in 1..Len(disk') /\ owned'[i].after.stamp = 1
    BY <1>1, <2>1, <2>2
  <2> QED
    BY <2>2, <2>3, <2>4, <2>5 DEF OwnedFile
<1> QED
  BY <1>3, <1>4

(* The step of KeptInv, once it is known what happens to the files.        *)
LEMMA KeptStays ==
  ASSUME Sound, KeptInv, shape' = shape, undoing => undoing', pc = "idle" => pc' = "idle",
         Len(disk') \in Nat, Len(disk') >= Len(disk),
         \A f \in 1..Len(disk) : disk'[f] = disk[f] \/ disk'[f].stamp # 1,
         \A n \in Names : \/ File(n)' = File(n)
                          \/ File(n)' = Len(disk) + 1
                          \/ (undoing' /\ File(n)' = NoFile),
         \A n \in kept' : n \in kept \/ File(n)' = Len(disk) + 1
                          \/ (File(n)' \in 1..Len(disk) /\ disk'[File(n)'].stamp # 1),
         \A n \in kept' : File(n)' # NoFile,
         (pc = "drop" /\ Name \in kept => ~Vacant(Name))',
         \A i \in DOMAIN owned' : (i \in DOMAIN owned /\ owned'[i] = owned[i]) \/ OwnedFile(i)'
  PROVE  KeptInv'
<1>1. ASSUME pc' # "idle", NEW i \in DOMAIN owned' PROVE OwnedFile(i)'
  <2>1. CASE i \in DOMAIN owned /\ owned'[i] = owned[i]
    <3>1. OwnedFile(i)
      BY <1>1, <2>1 DEF KeptInv
    <3> QED
      BY <2>1, <3>1, OwnedStays
  <2> QED
    BY <2>1
<1>2. (\A n \in kept : File(n) # NoFile)'
  OBVIOUS
<1>3. (pc # "idle" => \A i \in DOMAIN owned : OwnedFile(i))'
  BY <1>1
<1> QED
  BY <1>2, <1>3 DEF KeptInv

(* The end of an operation.                                                *)
LEMMA OverEnds ==
  ASSUME Typed, Over(TRUE) \/ Over(FALSE)
  PROVE  \E recorded \in Publications :
           /\ owned' = (IF undoing THEN Front(owned) ELSE Append(owned, recorded))
           /\ Over(FALSE) => recorded.after = NoVersion
           /\ recorded \in {Recorded(TRUE), Recorded(FALSE)}
           /\ shape' = shape /\ undoing' = undoing /\ kept' = kept /\ aside' = NoFile /\ handle' = handle
           /\ before' = before /\ alone' = alone /\ crashes' = crashes
           /\ pc' = (IF undoing THEN "undo" ELSE "publish")
<1>1. Recorded(TRUE) \in Publications /\ Recorded(FALSE) \in Publications /\ Recorded(FALSE).after = NoVersion
  BY RecordedTyped DEF Recorded
<1>2. CASE Over(FALSE)
  <2>1. owned' = (IF undoing THEN Front(owned) ELSE Append(owned, Recorded(FALSE)))
    BY <1>2 DEF Over
  <2> QED
    BY <1>1, <1>2, <2>1 DEF Over, ghosts, counts, other
<1>3. CASE Over(TRUE) /\ ~Over(FALSE)
  <2>1. owned' = (IF undoing THEN Front(owned) ELSE Append(owned, Recorded(TRUE)))
    BY <1>3 DEF Over
  <2> QED
    BY <1>1, <1>3, <2>1 DEF Over, ghosts, counts, other
<1> QED
  BY <1>2, <1>3

LEMMA KeptOver ==
  ASSUME Sound, KeptInv, pc \in Working, Over(TRUE) \/ Over(FALSE),
         Len(disk') \in Nat, Len(disk') >= Len(disk), \A f \in 1..Len(disk) : disk'[f] = disk[f],
         \A n \in Names : \/ File(n)' = File(n)
                          \/ File(n)' = Len(disk) + 1
                          \/ (undoing /\ n \notin kept /\ File(n)' = NoFile),
         NEW p, p = Place, Over(FALSE) \/ undoing \/ OwnedFile(p)'
  PROVE  KeptInv'
<1>1. Typed /\ Len(disk) \in Nat /\ kept \subseteq Names
  BY SoundParts DEF Typed
<1>2. PICK recorded \in Publications :
           /\ owned' = (IF undoing THEN Front(owned) ELSE Append(owned, recorded))
           /\ Over(FALSE) => recorded.after = NoVersion
           /\ shape' = shape /\ undoing' = undoing /\ kept' = kept
           /\ pc' = (IF undoing THEN "undo" ELSE "publish")
  BY <1>1, OverEnds
<1>3. ASSUME NEW i \in DOMAIN owned' PROVE (i \in DOMAIN owned /\ owned'[i] = owned[i]) \/ OwnedFile(i)'
  <2>1. CASE undoing
    BY <1>2, <2>1, OverOwned
  <2>2. CASE ~undoing
    <3>1. i # Place => i \in DOMAIN owned /\ owned'[i] = owned[i]
      BY <1>2, <2>2, OverOwned
    <3>2. ASSUME i = p, Over(FALSE) PROVE OwnedFile(i)'
      <4>1. owned'[i] = recorded /\ recorded.after = NoVersion
        BY <1>2, <2>2, <3>2, OverOwned
      <4> QED
        BY <4>1 DEF OwnedFile, NoVersion
    <3>3. ASSUME i = p, OwnedFile(p)' PROVE OwnedFile(i)'
      BY <3>3
    <3> QED
      BY <2>2, <3>1, <3>2, <3>3
  <2> QED
    BY <2>1, <2>2
<1>4. \A n \in kept' : File(n)' # NoFile
  BY <1>1, <1>2 DEF KeptInv, NoFile
<1>5. pc' # "drop" /\ pc' # "idle"
  BY <1>2
<1>6. /\ \A f \in 1..Len(disk) : disk'[f] = disk[f] \/ disk'[f].stamp # 1
      /\ \A n \in Names : \/ File(n)' = File(n)
                          \/ File(n)' = Len(disk) + 1
                          \/ (undoing' /\ File(n)' = NoFile)
      /\ \A n \in kept' : n \in kept
      /\ undoing => undoing'
      /\ pc # "idle"
  BY <1>2 DEF Working
<1> QED
  BY <1>1, <1>2, <1>3, <1>4, <1>5, <1>6, KeptStays

(* The end of an operation that has published nothing.                     *)
LEMMA KeptOverNone ==
  ASSUME Sound, KeptInv, pc \in Working, Over(FALSE), disk' = disk,
         \A n \in Names : File(n)' = File(n) \/ (undoing /\ n \notin kept /\ File(n)' = NoFile)
  PROVE  KeptInv'
<1>1. PICK p : p = Place
  OBVIOUS
<1>2. /\ Len(disk') \in Nat /\ Len(disk') >= Len(disk) /\ \A f \in 1..Len(disk) : disk'[f] = disk[f]
  BY SoundParts
<1>3. /\ Over(TRUE) \/ Over(FALSE)
      /\ \A n \in Names : \/ File(n)' = File(n)
                          \/ File(n)' = Len(disk) + 1
                          \/ (undoing /\ n \notin kept /\ File(n)' = NoFile)
  OBVIOUS
<1> QED
  BY <1>1, <1>2, <1>3, KeptOver

(* A step that moves no file, and leaves the publications or takes one off.*)
LEMMA KeptQuiet ==
  ASSUME Sound, KeptInv, shape' = shape, undoing => undoing', pc = "idle" => pc' = "idle",
         Len(disk') = Len(disk), kept' = kept,
         \A f \in 1..Len(disk) : disk'[f] = disk[f] \/ disk'[f].stamp # 1,
         \A n \in Names : File(n)' = File(n),
         (pc = "drop" /\ Name \in kept => ~Vacant(Name))',
         owned' = owned \/ (owned # << >> /\ owned' = Front(owned))
  PROVE  KeptInv'
<1>1. Len(disk) \in Nat /\ kept \subseteq Names
  BY SoundParts DEF Typed
<1>2. \A i \in DOMAIN owned' : i \in DOMAIN owned /\ owned'[i] = owned[i]
  BY OwnedLess
<1>3. \A n \in kept' : File(n)' # NoFile
  BY <1>1 DEF KeptInv
<1>4. Len(disk') \in Nat /\ Len(disk') >= Len(disk)
  BY <1>1
<1> QED
  BY <1>1, <1>2, <1>3, <1>4, KeptStays

(* A new round owns nothing.                                               *)
LEMMA BeginKept == ASSUME Sound, KeptInv, Begin PROVE KeptInv'
<1>1. /\ owned' = << >> /\ kept' = kept /\ pc' = "publish" /\ kept \subseteq Names
  BY SoundParts DEF Begin, Typed
<1>2. \A n \in Names : File(n)' = File(n)
  BY FileStays
<1> QED
  BY <1>1, <1>2 DEF KeptInv

(* A file to delete is one that the round made, and no kept pointer's.     *)
LEMMA CompareKept == ASSUME Sound, KeptInv, Compare PROVE KeptInv'
<1>1. /\ Typed /\ Placed /\ pc = "compare" /\ pc \in Working /\ Name \in Names /\ aside # NoFile
      /\ aside \in 0..Len(disk)
  BY SoundParts DEF Compare, Working, Placed, Typed
<1>2. /\ pc' = (IF ~Matches THEN "restore" ELSE IF put = Absent THEN "drop" ELSE "link")
      /\ UNCHANGED <<disk, inode, aside, shape, undoing, owned, kept>>
  BY DEF Compare, files, ghosts
<1>3. \A n \in Names : File(n)' = File(n)
  BY FileStays
<1>4. ASSUME Matches, put = Absent, Name \in kept PROVE ~Vacant(Name)
  <2>1. /\ undoing /\ expect = Last(owned).after /\ put = Last(owned).before /\ expect # NoVersion
    BY <1>1, <1>4 DEF Placed, Working
  <2>2. PICK i : i = Place
    OBVIOUS
  <2>3. i \in DOMAIN owned /\ owned[i] = Last(owned) /\ shape[i] = Name
    BY <1>1, <2>1, <2>2, NameTyped DEF Name
  <2>4. Created(i)
    BY <1>4, <2>1, <2>3 DEF Created
  <2>5. aside = owned[i].after.file /\ Intact(i)
    <3>1. VersionOf(aside).file = aside
      BY <1>1, VersionTyped DEF Typed
    <3> QED
      BY <1>4, <2>1, <2>3, <3>1 DEF Matches, Intact
  <2>6. File(Name) # aside
    BY <1>1, <1>4, <2>1, <2>3, <2>4, <2>5 DEF KeptInv, OwnedFile
  <2> QED
    BY <1>1, <2>6 DEF File, Busy
<1>5. (pc = "drop" /\ Name \in kept => ~Vacant(Name))'
  BY <1>2, <1>4 DEF Name, Place, Vacant
<1> QED
  BY <1>1, <1>2, <1>3, <1>5, KeptQuiet

(* The pointer that a link makes for a round that found none is not a kept *)
(* one, and it has a file of its own.                                      *)
LEMMA LinkKept == ASSUME Sound, KeptInv, Link PROVE KeptInv'
<1>1. /\ Typed /\ Placed /\ Compared /\ pc = "link" /\ pc \in Working /\ Name \in Names
      /\ Len(disk) \in Nat /\ put \in Contents /\ aside \in 0..Len(disk) /\ Blank # Absent
  BY SoundParts, ContentAssumption DEF Link, Working, Placed, Typed, Contents
<1>2. PICK p : p = Place
  OBVIOUS
<1>3. \A n \in Names : File(n)' = File(n) \/ File(n)' = Len(disk) + 1
  BY <1>1, FilePlaced
<1>4. CASE Vacant(Name)
  <2>1. Over(TRUE) /\ disk' = NewFile(put)
    BY <1>4 DEF Link
  <2>2. /\ NewFile(put) \in Seq(Files) /\ Len(NewFile(put)) = Len(disk) + 1
        /\ \A f \in 1..Len(disk) : NewFile(put)[f] = disk[f]
    BY <1>1, FileAdded DEF Typed
  <2>3. ASSUME ~undoing PROVE OwnedFile(p)'
    <3>1. owned' = Append(owned, Recorded(TRUE)) /\ shape' = shape /\ kept' = kept
      BY <2>1, <2>3 DEF Over, ghosts
    <3>2. owned'[p] = Recorded(TRUE) /\ shape'[p] = Name
      BY <1>1, <1>2, <2>3, <3>1, OverOwned, RecordedTyped DEF Name
    <3>3. PICK n : n = Name
      OBVIOUS
    <3>4. File(n)' = Len(disk) + 1
      BY <1>1, <1>4, <3>3, FilePlaced
    <3>5. /\ owned'[p].after = [file |-> Len(disk) + 1, content |-> put, stamp |-> 1]
          /\ owned'[p].before = expect.content
      BY <3>2 DEF Recorded
    <3>6. ASSUME expect.content = Absent PROVE n \notin kept
      <4>3. aside # NoFile => VersionOf(aside).content \in Contents
        BY <1>1, VersionTyped DEF Typed
      <4>1. aside = NoFile
        BY <1>1, <3>6, <4>3, ContentAssumption DEF Compared, Expected
      <4>2. File(n) = NoFile
        BY <1>4, <3>3, <4>1 DEF File, Busy, Vacant
      <4> QED
        BY <4>2 DEF KeptInv
    <3>7. owned'[p].after.file \in 1..Len(disk') /\ owned'[p].after.stamp = 1 /\ File(n)' # NoFile
      BY <1>1, <2>1, <2>2, <3>4, <3>5 DEF NoFile
    <3>8. shape'[p] = n
      BY <3>2, <3>3
    <3>9. ~(Created(p)' /\ shape'[p] \in kept')
      BY <3>1, <3>5, <3>6, <3>8 DEF Created
    <3> QED
      BY <3>7, <3>8, <3>9 DEF OwnedFile
  <2>4. Len(disk') \in Nat /\ Len(disk') >= Len(disk) /\ \A f \in 1..Len(disk) : disk'[f] = disk[f]
    BY <1>1, <2>1, <2>2
  <2> QED
    BY <1>1, <1>2, <1>3, <2>1, <2>3, <2>4, KeptOver
<1>5. CASE ~Vacant(Name)
  <2>1. Over(FALSE) /\ UNCHANGED <<disk, inode>>
    BY <1>5 DEF Link, Over, Recorded
  <2>2. \A n \in Names : File(n)' = File(n)
    BY <1>1, <1>5, FilePlaced
  <2> QED
    BY <1>1, <2>1, <2>2, KeptOverNone
<1> QED
  BY <1>4, <1>5

(* A deletion is none of a kept pointer.                                   *)
LEMMA DropKept == ASSUME Sound, KeptInv, Drop PROVE KeptInv'
<1>1. /\ Placed /\ pc = "drop" /\ pc \in Working /\ Over(FALSE) /\ UNCHANGED <<disk, inode>> /\ Len(disk) \in Nat
  BY SoundParts DEF Drop, Working
<1>2. undoing
  BY <1>1 DEF Placed
<1>3. ASSUME NEW n \in Names PROVE File(n)' = File(n) \/ (n \notin kept /\ File(n)' = NoFile)
  BY <1>1, FilePlaced DEF KeptInv
<1> QED
  BY <1>1, <1>2, <1>3, KeptOverNone

LEMMA ClaimKept == ASSUME Sound, KeptInv, Claim PROVE KeptInv'
<1>1. pc = "claim" /\ pc \in Working /\ Len(disk) \in Nat /\ \A n \in Names : File(n)' = File(n)
  BY SoundParts, FileStays DEF Claim, Working
<1>2. CASE inode[Name] = NoFile
  <2>1. Over(FALSE) /\ UNCHANGED <<disk, inode>>
    BY <1>2 DEF Claim
  <2> QED
    BY <1>1, <2>1, KeptOverNone
<1>3. CASE inode[Name] # NoFile
  BY <1>1, <1>3, KeptQuiet DEF Claim, ghosts
<1> QED
  BY <1>2, <1>3

LEMMA RestoreKept == ASSUME Sound, KeptInv, Restore PROVE KeptInv'
<1>1. pc \in Working /\ Over(FALSE) /\ disk' = disk /\ Len(disk) \in Nat /\ \A n \in Names : File(n)' = File(n)
  BY SoundParts, FileStays DEF Restore, Working
<1> QED
  BY <1>1, KeptOverNone

(* What a round has published names a file when it commits.                *)
LEMMA CommitKept == ASSUME Sound, KeptInv, Commit PROVE KeptInv'
<1>1. /\ pc = "publish" /\ ~undoing /\ pc' = "idle"
      /\ kept' = kept \union {shape[i] : i \in {j \in DOMAIN owned : owned[j].after # NoVersion}}
  BY SoundParts DEF Commit, Placed
<1>2. \A n \in Names : File(n)' = File(n)
  BY FileStays
<1>3. \A i \in DOMAIN owned : shape[i] \in Names /\ OwnedFile(i)
  BY <1>1, OwnedPlace DEF KeptInv
<1>4. ASSUME NEW n \in kept' PROVE File(n)' # NoFile
  BY <1>1, <1>2, <1>3, <1>4, SoundParts DEF KeptInv, OwnedFile, Typed
<1> QED
  BY <1>1, <1>4 DEF KeptInv

(* An opened file is never again as the round made it.                     *)
LEMMA OpenKept == ASSUME Sound, KeptInv, Open PROVE KeptInv'
<1>1. PICK m \in Names :
    /\ kept' = kept \union {m}
    /\ UNCHANGED <<aside, pc, shape, undoing, owned>>
    /\ Len(disk') \in Nat /\ Len(disk') >= Len(disk)
    /\ inode' = [inode EXCEPT ![m] = handle'] /\ handle' \in 1..Len(disk')
    /\ handle' = (IF Vacant(m) THEN Len(disk) + 1 ELSE inode[m])
    /\ \A f \in 1..Len(disk) : f # handle' => disk'[f] = disk[f]
    /\ \A f \in 1..Len(disk) : f = handle' => disk'[f].stamp # 1
  BY Opens
<1>2. inode \in [Names -> 0..Len(disk)] /\ Len(disk) \in Nat /\ kept \subseteq Names
  BY SoundParts DEF Typed
<1>3. ASSUME NEW n \in Names
      PROVE  /\ n = m /\ Vacant(n) => File(n)' = Len(disk) + 1
             /\ ~(n = m /\ Vacant(n)) => File(n)' = File(n)
  BY <1>1, FileOpened
<1>4. ~Vacant(m) => File(m)' = handle' /\ handle' \in 1..Len(disk)
  BY <1>1, <1>2, <1>3 DEF File, Vacant, NoFile
<1>5. \A n \in kept' : n \in kept \/ File(n)' = Len(disk) + 1
                       \/ (File(n)' \in 1..Len(disk) /\ disk'[File(n)'].stamp # 1)
  BY <1>1, <1>3, <1>4
<1>6. \A n \in kept' : File(n)' # NoFile
  BY <1>1, <1>2, <1>3, <1>4 DEF KeptInv, NoFile
<1>7. (pc = "drop" /\ Name \in kept => ~Vacant(Name))'
  <2>1. Name' = Name
    BY <1>1 DEF Name, Place
  <2>2. \A n \in Names : ~Vacant(n) => ~Vacant(n)'
    BY <1>1, <1>2 DEF Vacant, NoFile
  <2>3. ~Vacant(m)'
    BY <1>1, <1>2 DEF Vacant, NoFile
  <2>4. PICK n : n = Name
    OBVIOUS
  <2>5. pc = "drop" => n \in Names
    BY <2>4, SoundParts DEF Working
  <2>6. pc = "drop" /\ n \in kept => ~Vacant(n)
    BY <2>4 DEF KeptInv
  <2>7. pc' = "drop" /\ n \in kept' => ~Vacant(n)'
    BY <1>1, <2>2, <2>3, <2>5, <2>6
  <2> QED
    BY <2>1, <2>4, <2>7 DEF Vacant
<1> QED
  BY <1>1, <1>2, <1>3, <1>5, <1>6, <1>7, KeptStays

LEMMA WriteKept == ASSUME Sound, KeptInv, Write PROVE KeptInv'
<1>1. /\ handle \in 1..Len(disk) /\ Len(disk') = Len(disk)
      /\ UNCHANGED <<inode, aside, pc, shape, undoing, owned, kept>>
      /\ \A f \in 1..Len(disk) : disk'[f] = disk[f] \/ disk'[f].stamp # 1
  BY Writes
<1>2. \A n \in Names : File(n)' = File(n)
  BY FileStays
<1>3. (pc = "drop" /\ Name \in kept => ~Vacant(Name))'
  BY <1>1 DEF KeptInv, Name, Place, Vacant
<1> QED
  BY <1>1, <1>2, <1>3, KeptQuiet

(* The steps that go on, give up, or come to an end.                       *)
LEMMA RoundKept ==
  ASSUME Sound, KeptInv, Read \/ Fail \/ LinkFails \/ Undo \/ RolledBack
  PROVE  KeptInv'
<1>1. /\ Typed /\ Placed /\ \A n \in Names : File(n)' = File(n)
  BY SoundParts, FileStays
<1>2. CASE Read \/ Fail \/ LinkFails \/ Undo
  <2>1. /\ shape' = shape /\ kept' = kept /\ disk' = disk /\ pc # "idle" /\ pc' # "drop"
        /\ undoing => undoing'
    BY <1>1, <1>2 DEF Read, Fail, LinkFails, GivenUp, Undo, ghosts, files, Placed
  <2>2. owned' = owned \/ (owned # << >> /\ owned' = Front(owned))
    BY <1>1, <1>2 DEF Read, Fail, LinkFails, GivenUp, Undo, Placed, Working
  <2> QED
    BY <1>1, <2>1, <2>2, KeptQuiet
<1>3. CASE RolledBack
  <2>1. kept' = kept /\ pc' = "idle" /\ kept \subseteq Names
    BY <1>1, <1>3 DEF RolledBack, ghosts, Typed
  <2> QED
    BY <1>1, <2>1 DEF KeptInv
<1> QED
  BY <1>2, <1>3

(* With an operation left half done, only the pointer that was in          *)
(* quarantine loses its file.                                              *)
LEMMA Halted ==
  ASSUME Sound, KeptInv, aside' = NoFile, inode' = inode, kept' = kept \ Lost
  PROVE  /\ \A n \in Names : File(n)' = File(n) \/ File(n)' = NoFile
         /\ \A n \in kept' : n \in kept /\ File(n)' # NoFile
<1>1. \A n : File(n)' = inode[n]
  BY DEF File, Busy
<1>2. \A n : File(n) = inode[n] \/ inode[n] = NoFile
  BY DEF File, Vacant
<1>3. ASSUME NEW n \in kept' PROVE n \in kept /\ File(n)' # NoFile
  <2>1. n \in kept /\ n \notin Lost /\ File(n) # NoFile
    BY <1>3 DEF KeptInv
  <2>2. ~(Vacant(n) /\ Busy(n))
    BY <2>1 DEF Lost, Busy
  <2> QED
    BY <1>1, <2>1, <2>2 DEF File
<1> QED
  BY <1>1, <1>2, <1>3

LEMMA CrashKept == ASSUME Sound, KeptInv, Crash PROVE KeptInv'
<1>1. aside' = NoFile /\ inode' = inode /\ kept' = kept \ Lost /\ pc' = "idle"
  BY DEF Crash, Stops
<1> QED
  BY <1>1, Halted DEF KeptInv

LEMMA StrandKept == ASSUME Sound, KeptInv, Strand PROVE KeptInv'
<1>1. /\ Typed /\ Placed /\ pc \in Working /\ Len(disk) \in Nat
  BY SoundParts DEF Strand, Working
<1>2. /\ aside' = NoFile /\ inode' = inode /\ disk' = disk /\ kept' = kept \ Lost /\ shape' = shape
      /\ undoing' /\ pc # "idle" /\ pc' # "drop"
  BY DEF Strand, Stops, GivenUp
<1>3. /\ \A n \in Names : File(n)' = File(n) \/ File(n)' = NoFile
      /\ \A n \in kept' : n \in kept /\ File(n)' # NoFile
  BY <1>2, Halted
<1>4. owned' = owned \/ (owned # << >> /\ owned' = Front(owned))
  BY <1>1 DEF Strand, GivenUp, Placed
<1>5. \A i \in DOMAIN owned' : i \in DOMAIN owned /\ owned'[i] = owned[i]
  BY <1>4, OwnedLess
<1>6. Len(disk') \in Nat /\ Len(disk') >= Len(disk) /\ \A f \in 1..Len(disk) : disk'[f] = disk[f]
  BY <1>1, <1>2
<1> QED
  BY <1>2, <1>3, <1>5, <1>6, KeptStays

LEMMA UnrecordedKept == ASSUME Sound, KeptInv, Unrecorded PROVE KeptInv'
<1>1. /\ Typed /\ Placed /\ pc = "link" /\ pc \in Working /\ kept \subseteq Names
  BY SoundParts DEF Unrecorded, Working, Typed
<1>2. /\ aside' = NoFile /\ kept' = kept /\ shape' = shape /\ undoing' /\ pc # "idle" /\ pc' # "drop"
  BY DEF Unrecorded, Stops, GivenUp, ghosts
<1>3. /\ Len(disk') = Len(disk) + 1 /\ Len(disk) \in Nat /\ \A f \in 1..Len(disk) : disk'[f] = disk[f]
      /\ \A n \in Names : inode'[n] = IF n = Name THEN Len(disk) + 1 ELSE inode[n]
  BY NewFileSound DEF Unrecorded
<1>4. ASSUME NEW n \in Names PROVE File(n)' = File(n) \/ File(n)' = Len(disk) + 1
  <2>1. File(n)' = inode'[n]
    BY <1>2 DEF File, Busy
  <2> QED
    BY <1>3, <2>1 DEF File, Busy
<1>5. \A n \in kept' : n \in kept /\ File(n)' # NoFile
  BY <1>1, <1>2, <1>3, <1>4 DEF KeptInv, NoFile
<1>6. owned' = owned \/ (owned # << >> /\ owned' = Front(owned))
  BY <1>1 DEF Unrecorded, GivenUp, Placed
<1>7. \A i \in DOMAIN owned' : i \in DOMAIN owned /\ owned'[i] = owned[i]
  BY <1>6, OwnedLess
<1>8. Len(disk') \in Nat /\ Len(disk') >= Len(disk)
  BY <1>3
<1> QED
  BY <1>2, <1>3, <1>4, <1>5, <1>7, <1>8, KeptStays

LEMMA StepKept == ASSUME Sound, KeptInv, [Next]_vars PROVE KeptInv'
<1>1. CASE UNCHANGED vars
  BY <1>1 DEF KeptInv, OwnedFile, File, Busy, Vacant, Created, Intact, VersionOf, NoVersion, vars, files, op, other,
     ghosts, counts, Name, Place
<1>2. CASE Finished
  BY <1>1, <1>2 DEF Finished
<1> QED
  BY <1>1, <1>2, BeginKept, ClaimKept, CompareKept, LinkKept, RestoreKept, DropKept, CommitKept,
     RoundKept, CrashKept, StrandKept, UnrecordedKept, OpenKept, WriteKept
  DEF Next, RoundStep

(* A pointer published for good, by a committed round or a direct          *)
(* publisher, has a file whenever no operation is half done: publications  *)
(* that fail, rounds that roll back and rounds that are killed take none   *)
(* away, but the one in quarantine at a kill, or whose file could neither  *)
(* be read nor linked back (_replace_pointer_if_version_matches_at).       *)
THEOREM PublishedPointersKept == Spec => []PointersKept
<1>1. Init => KeptInv
  BY DEF Init, KeptInv, File
<1>2. Sound /\ KeptInv => PointersKept
  BY FileNamed, SoundParts DEF KeptInv, PointersKept, Vacant, Typed
<1> QED
  BY <1>1, <1>2, StepKept, AlwaysSound, PTL DEF Spec
-----------------------------------------------------------------------------
(* Rounds undone                                                           *)

(* A pointer published once is published at no other place.                *)
LEMMA OncePlaced ==
  ASSUME Sound, pc \in Working
  PROVE  /\ Place \in DOMAIN shape /\ shape[Place] = Name
         /\ \A i \in DOMAIN owned : shape[i] = Name /\ Once(Name) => i = Place
BY OwnedPlace, SoundParts, NameTyped DEF Name, Once

(* The step of UndoneInv at the end of an operation on the pointer m.      *)
LEMMA UndoneOver ==
  ASSUME Sound, UndoneInv, alone, crashes = 0, pc \in Working,
         NEW recorded \in Publications,
         owned' = (IF undoing THEN Front(owned) ELSE Append(owned, recorded)),
         UNCHANGED <<shape, before, handle>>, pc' \notin Working,
         NEW m, m = Name,
         \A n \in Names : n # m => VersionOf(inode[n])' = VersionOf(inode[n]),
         Once(m) /\ undoing => Content(m)' = before[m],
         Once(m) /\ ~undoing =>
           recorded.after # NoVersion /\ recorded.before = before[m] /\ VersionOf(inode[m])' = recorded.after
  PROVE  UndoneInv'
<1>1. /\ handle = NoFile
      /\ \A n \in Names : Once(n) => Untouched(n) /\ Replacing(n)
      /\ \A i \in DOMAIN owned : Once(shape[i]) => Owning(i)
  BY DEF UndoneInv, Working
<1>2. PICK p : p = Place
  OBVIOUS
<1>3. /\ m \in Names /\ p \in DOMAIN shape /\ shape[p] = m
      /\ \A i \in DOMAIN owned : shape[i] = m /\ Once(m) => i = p
  BY <1>2, SoundParts, OncePlaced
<1>4. /\ undoing => /\ DOMAIN owned' = 1..Len(owned) - 1 /\ p = Len(owned) /\ DOMAIN owned = 1..Len(owned)
                    /\ \A i \in DOMAIN owned' : i \in DOMAIN owned /\ i # p /\ owned'[i] = owned[i]
      /\ ~undoing => /\ p \in DOMAIN owned' /\ owned'[p] = recorded
                     /\ \A i \in DOMAIN owned' : i # p => i \in DOMAIN owned /\ owned'[i] = owned[i]
                     /\ \A i \in DOMAIN owned : i \in DOMAIN owned' /\ i # p
  <2>1. CASE undoing
    BY <1>2, <2>1, OverOwned, OwnedPlace
  <2>2. CASE ~undoing
    <3>1. p = Len(owned) + 1 /\ Len(owned) \in Nat
      BY <1>2, <2>2, SoundParts DEF Place
    <3> QED
      BY <1>2, <2>2, <3>1, OverOwned
  <2> QED
    BY <2>1, <2>2
<1>5. \A i \in DOMAIN owned : i # p => i \in DOMAIN owned'
  BY <1>4, SoundParts
<1>6. ASSUME NEW n \in Names, Once(n) PROVE Untouched(n)'
  <2>1. CASE n # m
    <3>1. ASSUME ~PublishedOnce(n)' PROVE ~PublishedOnce(n)
      BY <1>3, <1>5, <2>1, <3>1 DEF PublishedOnce
    <3>2. ~Midway(n)
      BY <2>1 DEF Midway
    <3>3. ~PublishedOnce(n)' => Content(n) = before[n]
      BY <1>1, <1>6, <3>1, <3>2 DEF Untouched
    <3> QED
      BY <2>1, <3>3 DEF Untouched, Content
  <2>2. CASE n = m /\ undoing
    BY <1>6, <2>2 DEF Untouched
  <2>3. CASE n = m /\ ~undoing
    <3>1. PublishedOnce(n)'
      BY <1>3, <1>4, <2>3 DEF PublishedOnce
    <3> QED
      BY <3>1 DEF Untouched
  <2> QED
    BY <2>1, <2>2, <2>3
<1>7. \A n \in Names : Replacing(n)'
  BY DEF Replacing, Midway, Working
<1>8. ASSUME NEW i \in DOMAIN owned', Once(shape[i]) PROVE Owning(i)'
  <2>1. CASE i = p
    <3>1. ~undoing /\ owned'[i] = recorded /\ shape'[i] = m
      BY <1>3, <1>4, <2>1
    <3> QED
      BY <1>3, <1>8, <2>1, <3>1 DEF Owning, VersionOf, NoVersion
  <2>2. CASE i # p
    <3>1. i \in DOMAIN owned /\ owned'[i] = owned[i]
      BY <1>4, <2>2
    <3>2. shape[i] # m /\ shape[i] \in Names
      BY <1>3, <1>8, <2>2, <3>1, OwnedPlace
    <3>3. Owning(i) /\ ~Midway(shape[i])
      BY <1>1, <1>8, <3>1, <3>2 DEF Midway
    <3>4. PICK n \in Names : n = shape[i]
      BY <3>2
    <3>5. VersionOf(inode[n])' = owned[i].after
      BY <3>2, <3>3, <3>4 DEF Owning
    <3> QED
      BY <3>1, <3>3, <3>4, <3>5 DEF Owning, VersionOf, NoVersion
  <2> QED
    BY <2>1, <2>2
<1>9. /\ handle' = NoFile
      /\ \A n \in Names : Once(n)' => Untouched(n)' /\ Replacing(n)'
      /\ \A i \in DOMAIN owned' : Once(shape[i])' => Owning(i)'
  BY <1>1, <1>6, <1>7, <1>8 DEF Once
<1> QED
  BY <1>9 DEF UndoneInv

(* An operation on a pointer published once, that nobody has met, finds    *)
(* what it expects.                                                        *)
LEMMA OnceFound ==
  ASSUME Sound, UndoneInv, alone, crashes = 0, pc \in Working, Once(Name)
  PROVE  /\ pc # "restore" /\ Standing(Name) = expect /\ (aside # NoFile => Vacant(Name))
         /\ undoing => put = before[Name]
         /\ ~undoing => expect.content = before[Name]
BY SoundParts DEF UndoneInv, Replacing, Midway, Working

(* A file that moves about keeps its version.                              *)
LEMMA OthersKept ==
  ASSUME NEW m, inode' = [inode EXCEPT ![m] = inode'[m]] \/ inode' = inode, inode \in [Names -> 0..Len(disk)],
         \A f \in 1..Len(disk) : disk'[f] = disk[f], Len(disk) \in Nat
  PROVE  \A n \in Names : n # m => VersionOf(inode[n])' = VersionOf(inode[n])
<1>1. SUFFICES ASSUME NEW n \in Names, n # m PROVE VersionOf(inode[n])' = VersionOf(inode[n])
  OBVIOUS
<1>2. inode'[n] = inode[n]
  BY <1>1
<1>3. inode[n] # NoFile => inode[n] \in 1..Len(disk)
  BY DEF NoFile
<1> QED
  BY <1>2, <1>3 DEF VersionOf, NoVersion

(* A round begins with the contents as they are.                           *)
LEMMA BeginUndone == ASSUME Sound, Begin PROVE UndoneInv'
<1>1. /\ owned' = << >> /\ before' = [n \in Names |-> Content(n)] /\ alone' = (handle = NoFile)
      /\ pc' = "publish" /\ UNCHANGED <<disk, inode, handle>>
  BY DEF Begin, files, other
<1>2. ASSUME alone' PROVE handle' = NoFile
  BY <1>1, <1>2
<1>3. ASSUME NEW n \in Names PROVE Untouched(n)' /\ Replacing(n)'
  <2>1. Content(n)' = before'[n]
    BY <1>1 DEF Content, VersionOf, NoVersion
  <2> QED
    BY <1>1, <2>1 DEF Untouched, Replacing, Midway, Working
<1>4. DOMAIN owned' = {}
  BY <1>1
<1> QED
  BY <1>2, <1>3, <1>4 DEF UndoneInv

LEMMA ReadUndone == ASSUME Sound, UndoneInv, alone, crashes = 0, Read PROVE UndoneInv'
<1>1. /\ pc = "publish" /\ Len(owned) < Len(shape)
      /\ expect' = VersionOf(inode[Name])
      /\ pc' \in Working
      /\ UNCHANGED <<disk, inode, aside, shape, undoing, owned, handle, before>>
  BY DEF Read, files, other, ghosts, Working
<1>2. Placed /\ ~undoing /\ aside = NoFile /\ Len(owned) \in Nat /\ Len(shape) \in Nat
  BY <1>1, SoundParts DEF Placed
<1>3. PICK m, p : m = Name /\ p = Place
  OBVIOUS
<1>4. m' = Name' /\ Name' = Name
  BY <1>1, <1>3 DEF Name, Place
<1>5. p = Len(owned) + 1 /\ p \in DOMAIN shape /\ shape[p] = m /\ m \in Names /\ p \notin DOMAIN owned
  BY <1>1, <1>2, <1>3, SoundParts, OwnedPlace DEF Place, Name, Typed
<1>6. /\ handle = NoFile
      /\ \A n \in Names : Once(n) => Untouched(n) /\ Replacing(n)
      /\ \A i \in DOMAIN owned : Once(shape[i]) => Owning(i)
      /\ \A n \in Names : ~Midway(n)
  BY <1>1 DEF UndoneInv, Midway, Working
<1>7. ASSUME NEW n \in Names, Once(n) PROVE Untouched(n)' /\ Replacing(n)'
  <2>1. ~PublishedOnce(n) => Content(n) = before[n]
    BY <1>6, <1>7 DEF Untouched
  <2>2. Content(n)' = Content(n) /\ (PublishedOnce(n)' <=> PublishedOnce(n))
    BY <1>1 DEF Content, VersionOf, NoVersion, PublishedOnce
  <2>3. ASSUME n = m PROVE Replacing(n)'
    <3>1. ~PublishedOnce(n)
      BY <1>5, <1>7, <2>3, OwnedPlace DEF PublishedOnce, Once
    <3>2. expect'.content = before'[n]
      BY <1>1, <1>3, <2>1, <2>3, <3>1 DEF Content
    <3>3. Standing(n)' = VersionOf(inode[n])
      BY <1>1, <1>2 DEF Standing, Busy, VersionOf, NoVersion
    <3>4. pc' # "restore" /\ ~undoing' /\ aside' = NoFile
      BY <1>1, <1>2 DEF Read
    <3> QED
      BY <1>1, <1>3, <2>3, <3>2, <3>3, <3>4 DEF Replacing
  <2>4. ASSUME n # m PROVE Replacing(n)'
    BY <1>3, <1>4, <2>4 DEF Replacing, Midway
  <2> QED
    BY <1>1, <2>1, <2>2, <2>3, <2>4 DEF Untouched
<1>8. ASSUME NEW i \in DOMAIN owned', Once(shape[i]) PROVE Owning(i)'
  <2>1. Owning(i) /\ ~Midway(shape[i])
    BY <1>1, <1>6, <1>8, OwnedPlace
  <2> QED
    BY <1>1, <2>1 DEF Owning, VersionOf, NoVersion
<1>9. handle' = NoFile
  BY <1>1, <1>6
<1> QED
  BY <1>1, <1>7, <1>8, <1>9 DEF UndoneInv, Once

(* A step in the middle of an operation that keeps the pointers it is not  *)
(* about.                                                                  *)
LEMMA MidwayUndone ==
  ASSUME Sound, UndoneInv, alone, crashes = 0, pc \in Working, pc' \in Working,
         UNCHANGED <<shape, undoing, owned, expect, put, before, handle>>,
         \A n \in Names : n # Name => VersionOf(inode[n])' = VersionOf(inode[n]),
         Once(Name) => pc' # "restore" /\ Standing(Name)' = Standing(Name) /\ (aside' # NoFile => Vacant(Name)')
  PROVE  UndoneInv'
<1>1. PICK m : m = Name
  OBVIOUS
<1>2. Name' = m
  BY <1>1 DEF Name, Place
<1>3. /\ handle = NoFile
      /\ \A n \in Names : Once(n) => Untouched(n) /\ Replacing(n)
      /\ \A i \in DOMAIN owned : Once(shape[i]) => Owning(i)
  BY DEF UndoneInv, Working
<1>4. ASSUME NEW n \in Names, Once(n) PROVE Untouched(n)' /\ Replacing(n)'
  <2>1. CASE n = m
    <3>1. Midway(n) /\ Midway(n)'
      BY <1>1, <1>2, <2>1 DEF Midway
    <3>2. Replacing(n)
      BY <1>3, <1>4
    <3>3. pc' # "restore" /\ Standing(n)' = Standing(n) /\ (aside' # NoFile => Vacant(n)')
      BY <1>1, <1>2, <1>4, <2>1 DEF Standing, Vacant
    <3> QED
      BY <3>1, <3>2, <3>3 DEF Untouched, Replacing
  <2>2. CASE n # m
    <3>1. ~Midway(n) /\ ~Midway(n)' /\ (PublishedOnce(n)' <=> PublishedOnce(n))
      BY <1>1, <1>2, <2>2 DEF Midway, PublishedOnce
    <3>2. Untouched(n) /\ VersionOf(inode[n])' = VersionOf(inode[n])
      BY <1>1, <1>3, <1>4, <2>2
    <3> QED
      BY <3>1, <3>2 DEF Untouched, Replacing, Content
  <2> QED
    BY <2>1, <2>2
<1>5. ASSUME NEW i \in DOMAIN owned, Once(shape[i]) PROVE Owning(i)'
  <2>1. Owning(i) /\ shape[i] \in Names
    BY <1>3, <1>5, OwnedPlace
  <2>2. PICK n \in Names : n = shape[i]
    BY <2>1
  <2>3. CASE n = m
    <3>1. Midway(shape[i])'
      BY <1>2, <2>2, <2>3 DEF Midway
    <3> QED
      BY <2>1, <3>1 DEF Owning, NoVersion
  <2>4. CASE n # m
    <3>1. ~Midway(shape[i]) /\ VersionOf(inode[n])' = VersionOf(inode[n])
      BY <1>1, <2>2, <2>4 DEF Midway
    <3> QED
      BY <2>1, <2>2, <3>1 DEF Owning, NoVersion, VersionOf
  <2> QED
    BY <2>3, <2>4
<1> QED
  BY <1>3, <1>4, <1>5 DEF UndoneInv, Once

LEMMA ClaimUndone == ASSUME Sound, UndoneInv, alone, crashes = 0, Claim PROVE UndoneInv'
<1>1. /\ Typed /\ Placed /\ pc = "claim" /\ pc \in Working /\ Name \in Names /\ aside = NoFile
      /\ Len(disk) \in Nat /\ inode \in [Names -> 0..Len(disk)] /\ expect # NoVersion
  BY SoundParts DEF Claim, Working, Placed, Typed
<1>2. PICK m : m = Name
  OBVIOUS
<1>3. CASE inode[Name] = NoFile
  <2>1. Over(FALSE) /\ UNCHANGED <<disk, inode>>
    BY <1>3 DEF Claim
  <2>2. ~Once(m)
    <3>1. Standing(Name) = NoVersion
      BY <1>1, <1>3 DEF Standing, Busy, VersionOf
    <3> QED
      BY <1>1, <1>2, <3>1, OnceFound
  <2>3. PICK recorded \in Publications :
          owned' = (IF undoing THEN Front(owned) ELSE Append(owned, recorded))
    BY <1>1, <2>1, OverEnds
  <2>4. UNCHANGED <<shape, before, handle>> /\ pc' \notin Working
    BY <2>1 DEF Over, other, ghosts, Working
  <2>5. \A n \in Names : n # m => VersionOf(inode[n])' = VersionOf(inode[n])
    BY <1>1, <2>1, OthersKept
  <2> QED
    BY <1>1, <1>2, <2>2, <2>3, <2>4, <2>5, UndoneOver
<1>4. CASE inode[Name] # NoFile
  <2>1. /\ aside' = inode[Name] /\ inode' = [inode EXCEPT ![Name] = NoFile] /\ pc' = "compare"
        /\ UNCHANGED <<disk, shape, undoing, owned, expect, put, before, handle>>
    BY <1>4 DEF Claim, op, other, ghosts
  <2>2. \A n \in Names : n # m => VersionOf(inode[n])' = VersionOf(inode[n])
    BY <1>1, <1>2, <2>1, OthersKept
  <2>3. Name' = Name /\ inode'[Name] = NoFile
    BY <1>1, <2>1 DEF Name, Place
  <2>4. Standing(Name)' = Standing(Name) /\ Vacant(Name)'
    BY <1>1, <1>4, <2>1, <2>3 DEF Standing, Busy, Vacant, VersionOf, NoVersion
  <2> QED
    BY <1>1, <1>2, <2>1, <2>2, <2>4, MidwayUndone DEF Working
<1> QED
  BY <1>3, <1>4

LEMMA CompareUndone == ASSUME Sound, UndoneInv, alone, crashes = 0, Compare PROVE UndoneInv'
<1>1. /\ Placed /\ pc = "compare" /\ pc \in Working /\ aside # NoFile
      /\ pc' = (IF ~Matches THEN "restore" ELSE IF put = Absent THEN "drop" ELSE "link")
      /\ UNCHANGED <<disk, inode, aside, shape, undoing, owned, expect, put, before, handle>>
  BY SoundParts DEF Compare, Working, Placed, files, op, other, ghosts
<1>2. /\ \A n \in Names : VersionOf(inode[n])' = VersionOf(inode[n])
      /\ Name' = Name /\ pc' \in Working
  BY <1>1 DEF VersionOf, NoVersion, Name, Place, Working
<1>3. Standing(Name)' = Standing(Name)
  BY <1>1, <1>2 DEF Standing, Vacant, Busy, VersionOf, NoVersion
<1>4. ASSUME Once(Name) PROVE pc' # "restore" /\ (aside' # NoFile => Vacant(Name)')
  <2>1. Standing(Name) = expect /\ Vacant(Name)
    BY <1>1, <1>4, OnceFound
  <2>2. Matches
    BY <1>1, <2>1 DEF Standing, Busy, Matches
  <2> QED
    BY <1>1, <1>2, <2>1, <2>2 DEF Vacant
<1> QED
  BY <1>1, <1>2, <1>3, <1>4, MidwayUndone

LEMMA LinkUndone == ASSUME Sound, UndoneInv, alone, crashes = 0, Link PROVE UndoneInv'
<1>1. /\ Typed /\ Placed /\ pc = "link" /\ pc \in Working /\ Name \in Names /\ put \in Contents
      /\ Len(disk) \in Nat /\ inode \in [Names -> 0..Len(disk)] /\ (aside = NoFile => expect = NoVersion)
  BY SoundParts DEF Link, Working, Placed, Typed
<1>2. PICK m : m = Name
  OBVIOUS
<1>3. CASE Vacant(Name)
  <2>1. Over(TRUE) /\ disk' = NewFile(put) /\ inode' = [inode EXCEPT ![Name] = Len(disk) + 1]
    BY <1>3 DEF Link
  <2>2. /\ \A f \in 1..Len(disk) : NewFile(put)[f] = disk[f]
        /\ NewFile(put)[Len(disk) + 1] = [content |-> put, stamp |-> 1]
    BY <1>1, FileAdded DEF Typed
  <2>3. \A n \in Names : n # m => VersionOf(inode[n])' = VersionOf(inode[n])
    <3>1. inode' = [inode EXCEPT ![m] = inode'[m]] /\ \A f \in 1..Len(disk) : disk'[f] = disk[f]
      BY <1>1, <1>2, <2>1, <2>2
    <3> QED
      BY <1>1, <3>1, OthersKept
  <2>4. VersionOf(inode[m])' = [file |-> Len(disk) + 1, content |-> put, stamp |-> 1]
    <3>1. inode'[m] = Len(disk) + 1 /\ Len(disk) + 1 # NoFile
      BY <1>1, <1>2, <2>1 DEF NoFile
    <3>2. disk'[Len(disk) + 1] = [content |-> put, stamp |-> 1]
      BY <2>1, <2>2
    <3> QED
      BY <3>1, <3>2 DEF VersionOf
  <2>5. PICK recorded : recorded = Recorded(TRUE)
    OBVIOUS
  <2>6. /\ recorded \in Publications /\ recorded.before = expect.content
        /\ recorded.after = [file |-> Len(disk) + 1, content |-> put, stamp |-> 1]
        /\ owned' = (IF undoing THEN Front(owned) ELSE Append(owned, recorded))
    BY <1>1, <2>1, <2>5, RecordedTyped DEF Recorded, Over
  <2>7. recorded.after # NoVersion
    BY <1>1, <2>6 DEF NoVersion, NoFile
  <2>8. Content(m)' = put
    BY <2>4 DEF Content
  <2>9. UNCHANGED <<shape, before, handle>> /\ pc' \notin Working
    BY <2>1 DEF Over, other, ghosts, Working
  <2>10. /\ Once(m) /\ undoing => Content(m)' = before[m]
         /\ Once(m) /\ ~undoing =>
              recorded.after # NoVersion /\ recorded.before = before[m] /\ VersionOf(inode[m])' = recorded.after
    BY <1>1, <1>2, <2>4, <2>6, <2>7, <2>8, OnceFound
  <2> QED
    BY <1>1, <1>2, <2>3, <2>6, <2>9, <2>10, UndoneOver
<1>4. CASE ~Vacant(Name)
  <2>1. Over(FALSE) /\ UNCHANGED <<disk, inode>>
    BY <1>4 DEF Link, Over, Recorded
  <2>2. ~Once(m)
    <3>1. Standing(Name) = VersionOf(inode[Name]) /\ VersionOf(inode[Name]) # NoVersion
      BY <1>1, <1>4, VersionTyped DEF Standing, Vacant, Typed
    <3> QED
      BY <1>1, <1>2, <1>4, <3>1, OnceFound
  <2>3. PICK recorded \in Publications :
          owned' = (IF undoing THEN Front(owned) ELSE Append(owned, recorded))
    BY <1>1, <2>1, OverEnds
  <2>4. UNCHANGED <<shape, before, handle>> /\ pc' \notin Working
    BY <2>1 DEF Over, other, ghosts, Working
  <2>5. \A n \in Names : n # m => VersionOf(inode[n])' = VersionOf(inode[n])
    BY <1>1, <2>1, OthersKept
  <2> QED
    BY <1>1, <1>2, <2>2, <2>3, <2>4, <2>5, UndoneOver
<1> QED
  BY <1>3, <1>4

LEMMA DropUndone == ASSUME Sound, UndoneInv, alone, crashes = 0, Drop PROVE UndoneInv'
<1>1. /\ Typed /\ Placed /\ pc = "drop" /\ pc \in Working /\ Name \in Names /\ aside # NoFile
      /\ put = Absent /\ undoing
      /\ Len(disk) \in Nat /\ inode \in [Names -> 0..Len(disk)] /\ Over(FALSE) /\ UNCHANGED <<disk, inode>>
  BY SoundParts DEF Drop, Working, Placed, Typed
<1>2. PICK m : m = Name
  OBVIOUS
<1>3. Once(m) => Content(m)' = before[m]
  BY <1>1, <1>2, OnceFound DEF Content, VersionOf, NoVersion, Vacant
<1>4. PICK recorded \in Publications :
        owned' = (IF undoing THEN Front(owned) ELSE Append(owned, recorded))
  BY <1>1, OverEnds
<1>5. UNCHANGED <<shape, before, handle>> /\ pc' \notin Working
  BY <1>1 DEF Over, other, ghosts, Working
<1>6. \A n \in Names : n # m => VersionOf(inode[n])' = VersionOf(inode[n])
  BY <1>1, OthersKept
<1> QED
  BY <1>1, <1>2, <1>3, <1>4, <1>5, <1>6, UndoneOver

LEMMA BackChanges ==
  ASSUME Sound, pc \in Working, aside # NoFile, Back
  PROVE  inode' = [inode EXCEPT ![Name] = inode'[Name]] \/ inode' = inode
BY SoundParts DEF Back, Typed

LEMMA RestoreUndone == ASSUME Sound, UndoneInv, alone, crashes = 0, Restore PROVE UndoneInv'
<1>1. /\ Typed /\ Placed /\ pc = "restore" /\ pc \in Working /\ aside # NoFile
      /\ Len(disk) \in Nat /\ inode \in [Names -> 0..Len(disk)] /\ Over(FALSE) /\ Back /\ disk' = disk
  BY SoundParts DEF Restore, Working, Placed, Typed
<1>2. PICK m : m = Name
  OBVIOUS
<1>3. ~Once(m)
  BY <1>1, <1>2, OnceFound
<1>4. PICK recorded \in Publications :
        owned' = (IF undoing THEN Front(owned) ELSE Append(owned, recorded))
  BY <1>1, OverEnds
<1>5. UNCHANGED <<shape, before, handle>> /\ pc' \notin Working
  BY <1>1 DEF Over, other, ghosts, Working
<1>6. \A n \in Names : n # m => VersionOf(inode[n])' = VersionOf(inode[n])
  BY <1>1, <1>2, BackChanges, OthersKept
<1> QED
  BY <1>1, <1>2, <1>3, <1>4, <1>5, <1>6, UndoneOver

(* A link that fails leaves its pointer as it was.                         *)
LEMMA LinkFailsUndone == ASSUME Sound, UndoneInv, alone, alone', crashes = 0, LinkFails PROVE UndoneInv'
<1>1. /\ Typed /\ pc \in Working /\ Name \in Names /\ Reclaim
      /\ Len(disk) \in Nat /\ inode \in [Names -> 0..Len(disk)]
      /\ UNCHANGED <<disk, shape, before, handle>> /\ pc' = "undo"
      /\ alone' = (alone /\ ~undoing)
  BY SoundParts DEF LinkFails, Working, Typed, other
<1>2. ~undoing
  BY <1>1
<1>3. owned' = owned
  BY <1>2 DEF LinkFails, GivenUp
<1>4. PICK m, p : m = Name /\ p = Place
  OBVIOUS
<1>5. \A n \in Names : n # m => VersionOf(inode[n])' = VersionOf(inode[n])
  BY <1>1, <1>4, BackChanges, OthersKept DEF Reclaim
<1>6. Once(m) => Content(m)' = before[m]
  <2>1. SUFFICES ASSUME Once(m) PROVE Content(m)' = before[m]
    OBVIOUS
  <2>2. Standing(m) = expect /\ expect.content = before[m] /\ (aside # NoFile => Vacant(m))
    BY <1>1, <1>2, <1>4, <2>1, OnceFound
  <2>3. CASE aside # NoFile
    <3>1. inode'[m] = aside /\ Standing(m) = VersionOf(aside)
      BY <1>1, <1>4, <2>2, <2>3 DEF Reclaim, Back, Standing, Busy
    <3> QED
      BY <1>1, <2>2, <3>1 DEF Content, VersionOf, NoVersion
  <2>4. CASE aside = NoFile
    <3>1. inode' = inode /\ Standing(m) = VersionOf(inode[m])
      BY <1>1, <2>4 DEF Reclaim, Standing, Busy
    <3> QED
      BY <1>1, <2>2, <3>1 DEF Content, VersionOf, NoVersion
  <2> QED
    BY <2>3, <2>4
<1>7. /\ handle = NoFile
      /\ \A n \in Names : Once(n) => Untouched(n)
      /\ \A i \in DOMAIN owned : Once(shape[i]) => Owning(i)
  BY <1>1 DEF UndoneInv, Working
<1>8. ASSUME NEW n \in Names, Once(n) PROVE Untouched(n)' /\ Replacing(n)'
  <2>1. Replacing(n)'
    BY <1>1 DEF Replacing, Midway, Working
  <2>2. CASE n = m
    BY <1>1, <1>6, <1>8, <2>1, <2>2 DEF Untouched
  <2>3. CASE n # m
    <3>1. Untouched(n) /\ ~Midway(n) /\ (PublishedOnce(n)' <=> PublishedOnce(n))
      BY <1>1, <1>3, <1>4, <1>7, <1>8, <2>3 DEF Midway, PublishedOnce
    <3>2. Content(n)' = Content(n)
      BY <1>5, <2>3 DEF Content
    <3> QED
      BY <1>1, <2>1, <3>1, <3>2 DEF Untouched
  <2> QED
    BY <2>1, <2>2, <2>3
<1>9. ASSUME NEW i \in DOMAIN owned, Once(shape[i]) PROVE Owning(i)'
  <2>1. p = Len(owned) + 1 /\ p \in DOMAIN shape /\ shape[p] = m
    BY <1>1, <1>2, <1>4, OncePlaced DEF Place
  <2>2. i # p /\ shape[i] \in Names /\ i \in DOMAIN shape
    BY <2>1, OwnedPlace, SoundParts
  <2>3. shape[i] # m
    BY <1>9, <2>1, <2>2 DEF Once
  <2>4. Owning(i) /\ ~Midway(shape[i])
    BY <1>4, <1>7, <1>9, <2>3 DEF Midway
  <2>5. PICK n \in Names : n = shape[i]
    BY <2>2
  <2>6. VersionOf(inode[n])' = owned[i].after
    BY <1>5, <2>3, <2>4, <2>5 DEF Owning
  <2> QED
    BY <1>1, <1>3, <2>4, <2>5, <2>6 DEF Owning, NoVersion, VersionOf
<1>10. handle' = NoFile
  BY <1>1, <1>7
<1> QED
  BY <1>1, <1>3, <1>8, <1>9, <1>10 DEF UndoneInv, Once

(* A round that fails between two pointers.                                *)
LEMMA FailUndone == ASSUME Sound, UndoneInv, alone, crashes = 0, Fail PROVE UndoneInv'
<1>1. /\ pc = "publish" /\ pc' = "undo" /\ UNCHANGED <<disk, inode, shape, owned, handle, before>>
  BY DEF Fail, files, other, ghosts
<1>2. /\ handle = NoFile
      /\ \A n \in Names : Once(n) => Untouched(n)
      /\ \A i \in DOMAIN owned : Once(shape[i]) => Owning(i)
  BY <1>1 DEF UndoneInv
<1>3. ASSUME NEW n \in Names, Once(n) PROVE Untouched(n)' /\ Replacing(n)'
  <2>1. ~Midway(n) /\ ~Midway(n)' /\ (PublishedOnce(n)' <=> PublishedOnce(n)) /\ Content(n)' = Content(n)
    BY <1>1 DEF Midway, Working, PublishedOnce, Content, VersionOf, NoVersion
  <2> QED
    BY <1>1, <1>2, <1>3, <2>1 DEF Untouched, Replacing
<1>4. ASSUME NEW i \in DOMAIN owned, Once(shape[i]) PROVE Owning(i)'
  <2>1. Owning(i) /\ ~Midway(shape[i])
    BY <1>1, <1>2, <1>4 DEF Midway, Working
  <2> QED
    BY <1>1, <2>1 DEF Owning, VersionOf, NoVersion
<1>5. handle' = NoFile
  BY <1>1, <1>2
<1> QED
  BY <1>1, <1>3, <1>4, <1>5 DEF UndoneInv, Once

(* The last publication, of a pointer published once, is found as it was   *)
(* made.                                                                   *)
LEMMA UndoUndone == ASSUME Sound, UndoneInv, alone, crashes = 0, Undo PROVE UndoneInv'
<1>1. /\ Placed /\ pc = "undo" /\ owned # << >> /\ undoing /\ aside = NoFile
      /\ UNCHANGED <<disk, inode, aside, shape, undoing, handle, before>>
  BY SoundParts DEF Undo, files, other, ghosts, Placed
<1>2. /\ handle = NoFile
      /\ \A n \in Names : Once(n) => Untouched(n)
      /\ \A i \in DOMAIN owned : Once(shape[i]) => Owning(i)
      /\ \A n : ~Midway(n)
  BY <1>1 DEF UndoneInv, Midway, Working
<1>3. PICK m, p : m = Name /\ p = Place
  OBVIOUS
<1>4. /\ p = Len(owned) /\ p \in DOMAIN owned /\ shape[p] = m /\ owned[p] = Last(owned) /\ m \in Names
      /\ DOMAIN owned = 1..Len(owned)
  BY <1>1, <1>3, OwnedPlace, OwnedTyped DEF Place, Name
<1>5. \A n \in Names : Content(n)' = Content(n) /\ VersionOf(inode[n])' = VersionOf(inode[n])
  BY <1>1 DEF Content, VersionOf, NoVersion
<1>6. CASE Last(owned).after = NoVersion
  <2>1. owned' = Front(owned) /\ pc' = pc
    BY <1>6 DEF Undo
  <2>2. ~Once(m)
    BY <1>2, <1>4, <1>6 DEF Owning
  <2>3. \A i \in DOMAIN owned' : i \in DOMAIN owned /\ owned'[i] = owned[i]
    BY <1>1, <2>1, OwnedLess
  <2>4. \A i \in DOMAIN owned : i # p => i \in DOMAIN owned'
    BY <1>1, <1>4, <2>1, OwnedLess, SoundParts
  <2>5. ASSUME NEW n \in Names, Once(n) PROVE Untouched(n)' /\ Replacing(n)'
    <3>1. PublishedOnce(n) => PublishedOnce(n)'
      BY <1>1, <1>4, <2>2, <2>4, <2>5 DEF PublishedOnce
    <3>2. Untouched(n) /\ ~Midway(n) /\ ~Midway(n)'
      BY <1>1, <1>2, <2>1, <2>5 DEF Midway, Working
    <3> QED
      BY <1>1, <1>5, <3>1, <3>2 DEF Untouched, Replacing
  <2>6. ASSUME NEW i \in DOMAIN owned', Once(shape[i]) PROVE Owning(i)'
    <3>1. Owning(i) /\ ~Midway(shape[i]) /\ owned'[i] = owned[i]
      BY <1>2, <2>3, <2>6
    <3> QED
      BY <1>1, <3>1 DEF Owning, VersionOf, NoVersion
  <2>7. handle' = NoFile
    BY <1>1, <1>2
  <2> QED
    BY <1>1, <2>5, <2>6, <2>7 DEF UndoneInv, Once
<1>7. CASE Last(owned).after # NoVersion
  <2>1. expect' = Last(owned).after /\ put' = Last(owned).before /\ pc' = "claim" /\ owned' = owned
    BY <1>7 DEF Undo
  <2>2. Name' = m
    BY <1>1, <1>3, <2>1 DEF Name, Place
  <2>3. ASSUME NEW n \in Names, Once(n) PROVE Untouched(n)' /\ Replacing(n)'
    <3>1. Untouched(n) /\ ~Midway(n) /\ (PublishedOnce(n)' <=> PublishedOnce(n))
      BY <1>1, <1>2, <2>1, <2>3 DEF PublishedOnce
    <3>2. Untouched(n)'
      BY <1>1, <1>5, <3>1 DEF Untouched
    <3>3. ASSUME n = m PROVE Replacing(n)'
      <4>1. Owning(p) /\ VersionOf(inode[n]) = owned[p].after /\ owned[p].before = before[n]
        BY <1>2, <1>4, <2>3, <3>3 DEF Owning
      <4>2. Standing(n)' = VersionOf(inode[n])
        BY <1>1 DEF Standing, Busy, VersionOf, NoVersion
      <4> QED
        BY <1>1, <1>4, <2>1, <4>1, <4>2 DEF Replacing
    <3>4. ASSUME n # m PROVE Replacing(n)'
      BY <2>2, <3>4 DEF Replacing, Midway
    <3> QED
      BY <3>2, <3>3, <3>4
  <2>4. ASSUME NEW i \in DOMAIN owned, Once(shape[i]) PROVE Owning(i)'
    <3>1. Owning(i) /\ ~Midway(shape[i])
      BY <1>2, <2>4
    <3> QED
      BY <1>1, <2>1, <3>1 DEF Owning, VersionOf, NoVersion
  <2>5. handle' = NoFile
    BY <1>1, <1>2
  <2> QED
    BY <1>1, <2>1, <2>3, <2>4, <2>5 DEF UndoneInv, Once
<1> QED
  BY <1>6, <1>7

LEMMA StepUndone == ASSUME Sound, UndoneInv, [Next]_vars PROVE UndoneInv'
<1>1. CASE UNCHANGED vars
  BY <1>1 DEF UndoneInv, Untouched, PublishedOnce, Midway, Replacing, Owning, Once, Content, Standing, Busy, Vacant,
     VersionOf, NoVersion, vars, files, op, other, ghosts, counts, Name, Place
<1>2. CASE Finished
  BY <1>1, <1>2 DEF Finished
<1>3. CASE ~(alone' /\ crashes' = 0 /\ pc' # "idle")
  BY <1>3 DEF UndoneInv
<1>4. CASE Next /\ alone' /\ crashes' = 0 /\ pc' # "idle"
  <2>1. crashes \in Nat /\ crashes + 1 # 0
    BY SoundParts DEF Typed
  <2>2. ~Crash /\ ~Strand /\ ~Unrecorded
    BY <1>4, <2>1 DEF Crash, Strand, Unrecorded, Stops
  <2>3. ~Open
    <3>1. Open => alone' = FALSE
      BY DEF Open
    <3> QED
      BY <1>4, <3>1
  <2>4. ~Commit /\ ~RolledBack
    BY <1>4 DEF Commit, RolledBack
  <2>5. CASE Begin
    BY <2>5, BeginUndone
  <2>6. CASE Read \/ Claim \/ Compare \/ Link \/ Restore \/ Drop \/ Undo \/ Fail \/ LinkFails \/ Write
    <3>1. crashes = 0
      BY <1>4, <2>6, Writes DEF Read, Claim, Compare, Link, Restore, Drop, Undo, Fail, LinkFails, Over, counts
    <3>2. alone
      <4>1. CASE LinkFails
        <5>1. alone' = (alone /\ ~undoing)
          BY <4>1 DEF LinkFails
        <5> QED
          BY <1>4, <5>1
      <4>2. CASE Read \/ Claim \/ Compare \/ Link \/ Restore \/ Drop \/ Undo \/ Fail \/ Write
        <5>1. alone' = alone
          BY <4>2, Writes DEF Read, Claim, Compare, Link, Restore, Drop, Undo, Fail, Over, ghosts
        <5> QED
          BY <1>4, <5>1
      <4> QED
        BY <2>6, <4>1, <4>2
    <3>3. CASE Write
      <4>1. pc' = pc /\ handle # NoFile
        BY <3>3, Writes DEF Write
      <4> QED
        BY <1>4, <3>1, <3>2, <4>1 DEF UndoneInv
    <3> QED
      BY <1>4, <2>6, <3>1, <3>2, <3>3, ReadUndone, ClaimUndone, CompareUndone, LinkUndone, RestoreUndone, DropUndone,
         UndoUndone, FailUndone, LinkFailsUndone
  <2> QED
    BY <1>2, <1>4, <2>2, <2>3, <2>4, <2>5, <2>6 DEF Next, RoundStep
<1> QED
  BY <1>1, <1>3, <1>4

(* A round that is rolled back, with no other publication since it began   *)
(* and no step of the rollback failing, leaves a pointer that its shape    *)
(* has at most once with the content that it had.                          *)
THEOREM SinglePublicationsUndone == Spec => []SinglePublicationUndone
<1>1. Init => UndoneInv
  BY DEF Init, UndoneInv
<1>2. ASSUME Sound, UndoneInv PROVE SinglePublicationUndone
  <2>1. SUFFICES ASSUME AfterRollback, NEW n \in Names, Cardinality({i \in DOMAIN shape : shape[i] = n}) < 2
                 PROVE  Content(n) = before[n]
    BY DEF SinglePublicationUndone
  <2> DEFINE places == {i \in DOMAIN shape : shape[i] = n}
  <2>2. IsFiniteSet(places)
    <3>1. DOMAIN shape = 1..Len(shape) /\ Len(shape) \in Nat
      BY <1>2, SoundParts DEF Typed
    <3>2. IsFiniteSet(1..Len(shape))
      BY <3>1, FS_Interval
    <3> QED
      BY <3>1, <3>2, FS_Subset
  <2>3. Cardinality(places) \in {0, 1}
    BY <2>1, <2>2, FS_CardinalityType
  <2>4. Once(n)
    <3>1. CASE Cardinality(places) = 0
      <4>1. places = {}
        BY <2>2, <3>1, FS_EmptySet
      <4> QED
        BY <4>1 DEF Once
    <3>2. CASE Cardinality(places) = 1
      <4>1. \E x : places = {x}
        BY <2>2, <3>2, FS_Singleton
      <4> QED
        BY <4>1 DEF Once
    <3> QED
      BY <2>3, <3>1, <3>2
  <2>5. ~PublishedOnce(n) /\ ~Midway(n)
    BY <2>1 DEF AfterRollback, PublishedOnce, Midway, Working
  <2> QED
    BY <1>2, <2>1, <2>4, <2>5 DEF AfterRollback, UndoneInv, Untouched
<1> QED
  BY <1>1, <1>2, StepUndone, AlwaysSound, PTL DEF Spec
==============================================================================
