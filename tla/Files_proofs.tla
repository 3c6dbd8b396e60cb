--------------------------- MODULE Files_proofs -----------------------------
(***************************************************************************)
(* Proofs that files are whole whatever fails and whenever the program is  *)
(* killed: that saving a change implements SafeFiles (FileWrite), for any  *)
(* files, contents and owners and any number of changes; and that what     *)
(* unpacking a tarball leaves of a runner is old or new (StagedExtract),   *)
(* for any tarballs and directories and any number of attempts.  And that  *)
(* what a change makes of .env or a drop-in is what its form says, and the *)
(* diff of it is true (ConfigText), for any form, lines and edits.         *)
(*                                                                         *)
(* That the file in place is only replaced after its backup was made rests *)
(* on what the program has read staying true until the rename: IInv        *)
(* relates where the program is to the file it works on.  That a name is   *)
(* missing or of another kind only where a tarball was rests on what the   *)
(* complete stages had: UnpackInv relates it to the directory.  ConfigText *)
(* computes with recursive functions: a property of all their values holds *)
(* as a set of numbers without a first one is empty (NoFirstException).    *)
(* What is written of a drop-in reads back as the directives that were     *)
(* made (ParsedAgain): all of them are behind the heading it opens with.   *)
(***************************************************************************)
EXTENDS FileWrite, StagedExtract, ConfigText, FiniteSetTheorems, SequenceTheorems,
        WellFoundedInduction, TLAPS

Writing == {"create", "own", "fill", "sync", "rename"}
Contents == Text \cup Elsewhere

(* The file is a plain one, and what is written to dst fits it.            *)
WantBak  == /\ live[cur].path \in Whole /\ live[cur].bak # Odd
            /\ want.text = live[cur].path.text /\ want.own = live[cur].path.own
WantPath == /\ live[cur].path # Odd
            /\ want.text = text /\ want.own = OwnerFor(live[cur].path)
            /\ live[cur].path # Missing => live[cur].bak = live[cur].path

WantInv ==
  /\ dst \in {"path", "bak"}
  /\ want \in [text : Contents \cup {Empty}, own : Owner, synced : BOOLEAN]
  /\ at = "target" => (Present(live[cur].path) => live[cur].bak = live[cur].path)
  /\ at \in Writing =>
       /\ want.text \in Contents
       /\ dst = "bak" => WantBak
       /\ dst = "path" => WantPath

(* How far the temporary file is.                                          *)
TmpInv ==
  /\ tmp \in [text : Contents \cup {Torn, Empty}, own : Owner, synced : BOOLEAN]
  /\ at \in {"fill", "sync", "rename"} => tmp.own = want.own
  /\ at \in {"sync", "rename"} => tmp.text = want.text
  /\ at = "rename" => tmp.synced = TRUE

IInv == TypeOK /\ WantInv /\ TmpInv

Dirs == [File -> [path : Entry, bak : Entry]]

-----------------------------------------------------------------------------
(* An entry that is there, and no link, is a whole file.                   *)
LEMMA PresentIsWhole ==
  ASSUME NEW e \in Entry
  PROVE  Present(e) <=> e \in Whole
BY EntriesAssumption DEF Entry, Present

(* A temporary file filled like a whole file and synced is that file.      *)
LEMMA FilledIsWhole ==
  ASSUME NEW t \in [text : Contents \cup {Torn, Empty}, own : Owner, synced : BOOLEAN],
         t.text \in Contents, t.synced = TRUE
  PROVE  t \in Whole
BY DEF Whole, Contents

LEMMA SameFile ==
  ASSUME NEW t \in Whole, NEW e \in Whole, t.text = e.text, t.own = e.own
  PROVE  t = e
<1>1. t = [text |-> t.text, own |-> t.own, synced |-> t.synced]
  BY DEF Whole
<1>2. e = [text |-> e.text, own |-> e.own, synced |-> e.synced]
  BY DEF Whole
<1>3. t.synced = TRUE /\ e.synced = TRUE
  BY DEF Whole
<1> QED BY <1>1, <1>2, <1>3

LEMMA PutPath ==
  ASSUME NEW l \in Dirs, NEW f \in File, NEW e \in Entry
  PROVE  LET n == [l EXCEPT ![f].path = e]
         IN  n \in Dirs /\ n[f].path = e
BY DEF Dirs

LEMMA InitIInv == SaveInit => IInv
<1> SUFFICES ASSUME SaveInit PROVE IInv
  OBVIOUS
<1>1. live \in [File -> [path : Entry, bak : Entry]]
  BY DEF SaveInit, Entry
<1>2. TypeOK
  BY <1>1 DEF SaveInit, TypeOK
<1>3. Nothing \in [text : Contents \cup {Torn, Empty}, own : Owner, synced : BOOLEAN]
      /\ Nothing \in [text : Contents \cup {Empty}, own : Owner, synced : BOOLEAN]
  BY FileWriteAssumption DEF Nothing
<1>4. WantInv /\ TmpInv
  BY <1>3 DEF SaveInit, WantInv, TmpInv, Writing
<1> QED BY <1>2, <1>4 DEF IInv

-----------------------------------------------------------------------------
(* The steps of a save keep the invariant.                                 *)
LEMMA BeginKeeps == IInv /\ Begin => IInv'
<1> SUFFICES ASSUME IInv, Begin PROVE IInv'
  OBVIOUS
<1>1. TypeOK'
  BY DEF IInv, TypeOK, Begin
<1>2. WantInv' /\ TmpInv'
  BY DEF IInv, WantInv, TmpInv, Begin, Writing
<1> QED BY <1>1, <1>2 DEF IInv

LEMMA ReadsOldKeeps == IInv /\ ReadsOld => IInv'
<1> SUFFICES ASSUME IInv, ReadsOld PROVE IInv'
  OBVIOUS
<1>1. TypeOK' /\ cur \in todo
  BY DEF IInv, TypeOK, ReadsOld
<1>2. live[cur].path \in Entry
  BY DEF IInv, TypeOK
<1>3. TmpInv'
  BY DEF IInv, TmpInv, ReadsOld
<1>4. ASSUME live[cur].path = Missing PROVE WantInv'
  BY <1>4 DEF IInv, WantInv, ReadsOld, Writing, Present
<1>5. ASSUME live[cur].path # Missing PROVE WantInv'
  <2>1. live[cur].path \in Whole
    BY <1>2, <1>5 DEF ReadsOld, Entry
  <2>2. /\ want' \in [text : Contents \cup {Empty}, own : Owner, synced : BOOLEAN]
        /\ want'.text \in Contents
        /\ want'.text = live[cur].path.text /\ want'.own = live[cur].path.own
    BY <2>1, <1>5 DEF ReadsOld, Whole, Contents
  <2>3. WantBak'
    BY <2>1, <2>2 DEF WantBak, ReadsOld
  <2> QED BY <2>2, <2>3, <1>5 DEF WantInv, ReadsOld
<1> QED BY <1>1, <1>3, <1>4, <1>5 DEF IInv

LEMMA TargetKeeps == IInv /\ Target => IInv'
<1> SUFFICES ASSUME IInv, Target PROVE IInv'
  OBVIOUS
<1>1. TypeOK'
  BY DEF IInv, TypeOK, Target
<1>2. live[cur].path \in Entry
  BY DEF IInv, TypeOK
<1>3. TmpInv'
  BY DEF IInv, TmpInv, Target
<1>4. OwnerFor(live[cur].path) \in Owner
  <2>1. CASE Present(live[cur].path)
    BY <1>2, <2>1, PresentIsWhole DEF OwnerFor, Whole
  <2>2. CASE ~Present(live[cur].path)
    BY <2>2, FileWriteAssumption DEF OwnerFor
  <2> QED BY <2>1, <2>2
<1>5. /\ want' \in [text : Contents \cup {Empty}, own : Owner, synced : BOOLEAN]
      /\ want'.text = text /\ want'.own = OwnerFor(live[cur].path) /\ text \in Contents
  BY <1>4 DEF Target, Contents, IInv, TypeOK
<1>6. WantPath'
  <2>1. live[cur].path # Odd
    BY DEF Target
  <2>2. live[cur].path # Missing => live[cur].bak = live[cur].path
    BY <2>1 DEF IInv, WantInv, Target, Present
  <2> QED BY <2>1, <2>2, <1>5 DEF WantPath, Target
<1>7. WantInv'
  BY <1>5, <1>6 DEF WantInv, Target, Contents
<1> QED BY <1>1, <1>3, <1>7 DEF IInv

(* Create, Chowns, Fills and Syncs only work on the temporary file.        *)
LEMMA FillingKeeps == IInv /\ (Create \/ Chowns \/ Fills \/ Syncs) => IInv'
<1> SUFFICES ASSUME IInv, Create \/ Chowns \/ Fills \/ Syncs PROVE IInv'
  OBVIOUS
<1>1. TypeOK'
  BY DEF IInv, TypeOK, Create, Chowns, Fills, Syncs
<1>2. WantInv'
  <2>1. UNCHANGED <<live, cur, text, dst, want>> /\ at \in Writing /\ at' \in Writing
    BY DEF Create, Chowns, Fills, Syncs, Writing
  <2>2. WantBak' <=> WantBak
    BY <2>1 DEF WantBak
  <2>3. WantPath' <=> WantPath
    BY <2>1 DEF WantPath
  <2>4. at' # "target"
    BY <2>1 DEF Writing
  <2> QED BY <2>1, <2>2, <2>3, <2>4 DEF WantInv, IInv
<1>3. CASE Create
  <2>1. tmp' \in [text : Contents \cup {Torn, Empty}, own : Owner, synced : BOOLEAN]
    BY <1>3, FileWriteAssumption DEF Create, Nothing
  <2> QED BY <2>1, <1>1, <1>2, <1>3 DEF IInv, TmpInv, Create
<1>4. CASE Chowns
  <2>1. /\ tmp' \in [text : Contents \cup {Torn, Empty}, own : Owner, synced : BOOLEAN]
        /\ tmp'.own = want.own
    BY <1>4 DEF IInv, TmpInv, WantInv, Chowns
  <2> QED BY <2>1, <1>1, <1>2, <1>4 DEF IInv, TmpInv, Chowns
<1>5. CASE Fills
  <2>1. want.text \in Contents
    BY <1>5 DEF IInv, WantInv, Fills, Writing
  <2>2. /\ tmp' \in [text : Contents \cup {Torn, Empty}, own : Owner, synced : BOOLEAN]
        /\ tmp'.own = tmp.own
        /\ at' = "sync" => tmp'.text = want.text
    BY <1>5, <2>1 DEF IInv, TmpInv, Fills
  <2> QED BY <2>2, <1>1, <1>2, <1>5 DEF IInv, TmpInv, Fills
<1>6. CASE Syncs
  <2>1. /\ tmp' \in [text : Contents \cup {Torn, Empty}, own : Owner, synced : BOOLEAN]
        /\ tmp'.own = tmp.own /\ tmp'.text = tmp.text /\ tmp'.synced = TRUE
    BY <1>6 DEF IInv, TmpInv, Syncs, Synced
  <2> QED BY <2>1, <1>1, <1>2, <1>6 DEF IInv, TmpInv, Syncs
<1> QED BY <1>3, <1>4, <1>5, <1>6

(* What is renamed is whole, and what was wanted.                          *)
LEMMA RenamesWhole ==
  ASSUME IInv, at = "rename"
  PROVE  tmp \in Whole /\ tmp.text = want.text /\ tmp.own = want.own
<1>1. want.text \in Contents
  BY DEF IInv, WantInv, Writing
<1>2. tmp.synced = TRUE /\ tmp.text \in Contents
  BY <1>1 DEF IInv, TmpInv
<1> QED BY <1>2, FilledIsWhole DEF IInv, TmpInv

(* The backup is the file as it is, and so it is kept.                     *)
LEMMA RenamesBackupKeeps ==
  ASSUME IInv, RenamesBackup
  PROVE  IInv' /\ Files!KeepCopy(cur) /\ cur \in File
<1>1. at = "rename" /\ dst = "bak" /\ WantBak /\ cur \in todo /\ cur \in File
  BY DEF IInv, WantInv, TypeOK, RenamesBackup, Installs, Writing
<1>2. tmp = live[cur].path
  BY <1>1, RenamesWhole, SameFile DEF WantBak
<1>3. live \in Dirs /\ tmp \in Entry
  <2>1. live \in Dirs
    BY DEF IInv, TypeOK, Dirs
  <2>2. tmp \in Whole
    BY <1>1, RenamesWhole
  <2> QED  BY <2>1, <2>2 DEF Entry
<1>4. live' \in Dirs /\ live'[cur].bak = tmp /\ live'[cur].path = live[cur].path
  <2>1. live' = [live EXCEPT ![cur].bak = tmp]
    BY DEF RenamesBackup
  <2>2. PICK n : n = [live EXCEPT ![cur].bak = tmp]
    OBVIOUS
  <2>3. n \in Dirs /\ n[cur].bak = tmp /\ n[cur].path = live[cur].path
    <3>1. cur \in File
      BY ONLY <1>1
    <3> QED  BY ONLY <1>3, <2>2, <3>1 DEF Dirs
  <2> QED  BY ONLY <2>1, <2>2, <2>3
<1>5. TypeOK'
  BY <1>1, <1>4 DEF IInv, TypeOK, RenamesBackup, Dirs
<1>6. WantInv'
  BY <1>2, <1>4 DEF IInv, WantInv, RenamesBackup, Writing
<1>7. TmpInv'
  BY FileWriteAssumption DEF TmpInv, RenamesBackup, Installs, Nothing
<1>8. Files!KeepCopy(cur)
  BY <1>1, <1>2 DEF Files!KeepCopy, Files!Entry, WantBak, RenamesBackup
<1> QED BY <1>1, <1>5, <1>6, <1>7, <1>8 DEF IInv

(* The file is replaced under its owner, and its backup is what it held.   *)
LEMMA RenamesFileKeeps ==
  ASSUME IInv, RenamesFile
  PROVE  IInv' /\ cur \in File /\ \E w \in Whole : Files!Replace(cur, w)
<1>1. at = "rename" /\ dst = "path" /\ WantPath /\ cur \in File
  BY DEF IInv, WantInv, TypeOK, RenamesFile, Installs, Writing
<1>2. tmp \in Whole /\ tmp.own = OwnerFor(live[cur].path)
  BY <1>1, RenamesWhole DEF WantPath
<1>3. live' \in Dirs
  BY <1>1, <1>2, PutPath DEF IInv, TypeOK, Dirs, Entry, RenamesFile
<1>4. TypeOK'
  BY <1>1, <1>3 DEF IInv, TypeOK, RenamesFile, Dirs
<1>5. WantInv'
  BY DEF IInv, WantInv, RenamesFile, Writing
<1>6. TmpInv'
  BY FileWriteAssumption DEF TmpInv, RenamesFile, Installs, Nothing
<1>7. Files!Replace(cur, tmp)
  BY <1>1, <1>2 DEF Files!Replace, WantPath, Inherits, RenamesFile
<1> QED BY <1>1, <1>2, <1>4, <1>5, <1>6, <1>7 DEF IInv

LEMMA StopsKeeps == IInv /\ Stops => IInv'
<1> SUFFICES ASSUME IInv, Stops PROVE IInv'
  OBVIOUS
<1>1. TypeOK' /\ WantInv'
  BY DEF IInv, TypeOK, WantInv, Stops, Writing
<1>2. TmpInv'
  BY FileWriteAssumption DEF TmpInv, Stops, Nothing
<1> QED BY <1>1, <1>2 DEF IInv

-----------------------------------------------------------------------------
(* The steps of the host.                                                  *)
LEMMA OthersKeeps ==
  ASSUME IInv, Others
  PROVE  IInv' /\ \E f \in File : \E w \in {u \in Whole : u.text \in Elsewhere} :
                    Files!Edit(f, w)
<1>1. PICK f \in File, x \in Elsewhere :
        /\ Present(live[f].path)
        /\ live' = [live EXCEPT ![f].path.text = x]
  BY DEF Others
<1> DEFINE w == [live[f].path EXCEPT !.text = x]
<1>2. live \in Dirs /\ live[f].path \in Whole
  BY <1>1, PresentIsWhole DEF IInv, TypeOK, Dirs
<1>3. w \in Whole /\ w.text = x
  BY <1>2 DEF Whole
<1>4. live' = [live EXCEPT ![f].path = w]
  BY <1>1, <1>2 DEF Dirs
<1>5. live' \in Dirs
  BY <1>2, <1>3, <1>4, PutPath DEF Entry
<1>6. TypeOK'
  BY <1>5 DEF IInv, TypeOK, Others, prog, Dirs
<1>7. WantInv' /\ TmpInv'
  BY DEF IInv, WantInv, TmpInv, Others, prog, Writing
<1>8. Files!Edit(f, w)
  BY <1>2, <1>4 DEF Files!Edit, Others
<1> QED BY <1>3, <1>6, <1>7, <1>8 DEF IInv

LEMMA JournalKeeps ==
  ASSUME IInv, Journal
  PROVE  IInv' /\ Files!Reaches
<1>1. IInv'
  BY DEF IInv, TypeOK, WantInv, WantBak, WantPath, TmpInv, Journal, prog
<1> QED BY <1>1 DEF Journal, Files!Reaches

(* Only synced files are ever renamed, so none is torn by a loss of power. *)
LEMMA NoneIsTorn ==
  ASSUME NEW e \in Entry
  PROVE  AfterLoss(e) = e
<1>1. Present(e) => e.synced = TRUE
  BY PresentIsWhole DEF Whole
<1> QED BY <1>1 DEF AfterLoss

LEMMA PowerLossKeeps ==
  ASSUME IInv, PowerLoss
  PROVE  IInv' /\ Files!Lose
<1>1. disk \in Dirs
  BY DEF IInv, TypeOK, Dirs
<1>2. \A f \in File : [path |-> AfterLoss(disk[f].path), bak |-> AfterLoss(disk[f].bak)] = disk[f]
  BY <1>1, NoneIsTorn DEF Dirs
<1>3. live' = disk
  BY <1>1, <1>2 DEF PowerLoss, Dirs
<1>4. TypeOK' /\ WantInv'
  BY <1>3 DEF IInv, TypeOK, WantInv, PowerLoss, Writing
<1>5. TmpInv'
  BY FileWriteAssumption DEF TmpInv, PowerLoss, Nothing
<1> QED BY <1>3, <1>4, <1>5 DEF IInv, PowerLoss, Files!Lose

-----------------------------------------------------------------------------
(* Every step of the program and of the host keeps the invariant, and is a *)
(* step of SafeFiles or changes no file.                                   *)
LEMMA StepIsSafe ==
  ASSUME IInv, [SaveNext]_saveVars
  PROVE  IInv' /\ [Files!Next]_<<live, disk>>
<1>1. CASE Begin
  BY <1>1, BeginKeeps DEF Begin
<1>2. CASE ReadsOld
  BY <1>2, ReadsOldKeeps DEF ReadsOld
<1>3. CASE Target
  BY <1>3, TargetKeeps DEF Target
<1>4. CASE Create \/ Chowns \/ Fills \/ Syncs
  BY <1>4, FillingKeeps DEF Create, Chowns, Fills, Syncs
<1>5. CASE RenamesBackup
  BY <1>5, RenamesBackupKeeps DEF Files!Next
<1>6. CASE RenamesFile
  BY <1>6, RenamesFileKeeps DEF Files!Next
<1>7. CASE Stops
  BY <1>7, StopsKeeps DEF Stops
<1>8. CASE Others
  BY <1>8, OthersKeeps DEF Files!Next
<1>9. CASE Journal
  BY <1>9, JournalKeeps DEF Files!Next
<1>10. CASE PowerLoss
  BY <1>10, PowerLossKeeps DEF Files!Next
<1>11. CASE UNCHANGED saveVars
  BY <1>11 DEF saveVars, prog, IInv, TypeOK, WantInv, WantBak, WantPath, TmpInv
<1> QED BY <1>1, <1>2, <1>3, <1>4, <1>5, <1>6, <1>7, <1>8, <1>9, <1>10, <1>11 DEF SaveNext

(* Every variable keeps its type, and what the program has read of a file  *)
(* stays true until it is replaced.                                        *)
THEOREM Invariance == SaveSpec => []IInv
<1>1. IInv /\ [SaveNext]_saveVars => IInv'
  BY StepIsSafe
<1> QED BY <1>1, InitIInv, PTL DEF SaveSpec

THEOREM TypeCorrect == SaveSpec => []TypeOK
<1>1. IInv => TypeOK
  BY DEF IInv
<1> QED BY <1>1, Invariance, PTL

(* Saving a change implements SafeFiles: whatever fails and whenever the   *)
(* program or the host stops, each file is replaced as a whole, under its  *)
(* owner, and only after what it held was kept beside it (fileio.Write).   *)
THEOREM SavesAreSafe == SaveSpec => SavesSafely
<1>1. SaveInit => Files!Init
  BY InitIInv DEF SaveInit, Files!Init, Files!Entry, Entry
<1>2. IInv /\ [SaveNext]_saveVars => [Files!Next]_<<live, disk>>
  BY StepIsSafe
<1> QED BY <1>1, <1>2, Invariance, PTL DEF SaveSpec, SavesSafely, Files!Spec

-----------------------------------------------------------------------------
Unpacking == {"extract", "promote", "between"}

(* Only a tarball that was checked is unpacked, and what is in the stage   *)
(* is complete unless the extraction broke.                                *)
StageInv ==
  /\ pc \in Unpacking \cup {"open", "broken"} => tarball = "good"
  /\ \A x \in made : x.name \in Names
  /\ pc \in Unpacking => \A n \in Names : stage[n] = None \/ stage[n].v = "new"
  /\ pc \in {"promote", "between"} =>
       \A n \in Staged : [name |-> n, kind |-> stage[n].kind] \in made

(* The name that makes room for one of another kind, until that is moved.  *)
TakenInv ==
  pc = "between" =>
    /\ taken \in Names /\ ~IsPreserved(taken)
    /\ \A m \in Under(taken) : tree[m] = None

UnpackInv == was \in Lives /\ StageInv /\ TakenInv /\ LiveWhole

-----------------------------------------------------------------------------
(* Names: what is under a name begins with the same element, and what is   *)
(* under that is under the name.                                           *)
LEMMA UnderNames ==
  /\ \A n \in Names : n \in Under(n)
  /\ \A n \in Names : \A m \in Under(n) : m \in Names /\ m # <<>> /\ n # <<>> /\ m[1] = n[1]
  /\ \A l \in Seq(STRING), n \in Names : \A m \in Under(n) : IsPrefix(l, n) => IsPrefix(l, m)
<1>1. Names \subseteq Seq(STRING) /\ \A n \in Names : n # <<>> /\ Len(n) \in Nat \ {0}
  BY StagedExtractAssumption
<1>2. ASSUME NEW n \in Seq(STRING), NEW m \in Seq(STRING)
      PROVE  IsPrefix(n, m) <=>
               Len(n) <= Len(m) /\ \A i \in 1 .. Len(n) : n[i] = m[i]
  BY DEF IsPrefix
<1>3. \A n \in Names : n \in Under(n)
  BY <1>1, <1>2 DEF Under
<1>4. ASSUME NEW n \in Names, NEW m \in Under(n)
      PROVE  m \in Names /\ m # <<>> /\ n # <<>> /\ m[1] = n[1]
  BY <1>1, <1>2 DEF Under
<1>5. ASSUME NEW l \in Seq(STRING), NEW n \in Names, NEW m \in Under(n), IsPrefix(l, n)
      PROVE  IsPrefix(l, m)
  BY <1>1, <1>2, <1>5 DEF Under
<1> QED  BY <1>3, <1>4, <1>5

(* What is above a name that was there was a directory; and what was of    *)
(* another kind above a name was so above what is under it.                *)
LEMMA WasTree ==
  ASSUME UnpackInv, NEW n \in Names, NEW m \in Under(n), was[m] # None, n # m
  PROVE  was[n].kind = "dir"
<1>1. n \in Above(m) /\ m \in Names
  BY UnderNames DEF Under, Above, IsStrictPrefix
<1> QED  BY <1>1, StagedExtractAssumption DEF UnpackInv

LEMMA KindAbove ==
  ASSUME UnpackInv, NEW n \in Names, NEW m \in Under(n), OfAnotherKind(n)
  PROVE  OfAnotherKind(m)
<1>1. PICK x \in made : IsPrefix(x.name, n) /\ was[x.name].kind # x.kind
  BY DEF OfAnotherKind
<1>2. x.name \in Seq(STRING)
  BY StagedExtractAssumption DEF UnpackInv, StageInv
<1> QED  BY <1>1, <1>2, UnderNames DEF OfAnotherKind

(* What a complete stage has is of another kind than what was there.       *)
LEMMA KindOfStage ==
  ASSUME UnpackInv, pc \in {"promote", "between"}, NEW n \in Staged,
         stage[n].kind # was[n].kind
  PROVE  OfAnotherKind(n)
<1> DEFINE x == [name |-> n, kind |-> stage[n].kind]
<1>1. x \in made /\ x.name = n /\ x.kind = stage[n].kind
  BY DEF UnpackInv, StageInv
<1>2. IsPrefix(x.name, n)
  BY UnderNames, <1>1 DEF Staged, Under
<1> HIDE DEF x
<1> QED  BY <1>1, <1>2 DEF OfAnotherKind

(* A step that leaves the directory alone.                                 *)
LEMMA TreeStays ==
  ASSUME UnpackInv, UNCHANGED <<tree, was>>, made \subseteq made'
  PROVE  LiveWhole'
BY DEF UnpackInv, LiveWhole, OfAnotherKind

(* What is under a name is replaced by what the stage has of it, or goes.  *)
LEMMA Replaced ==
  ASSUME UnpackInv, pc \in {"promote", "between"}, UNCHANGED <<was, made>>,
         NEW n \in Names, ~IsPreserved(n), NEW new,
         tree' = [m \in Names |-> IF m \in Under(n) THEN new[m] ELSE tree[m]],
         \A m \in Under(n) : new[m] \in {stage[m], None},
         \A m \in Under(n) : new[m].kind # was[m].kind /\ was[m] # None => OfAnotherKind(m)
  PROVE  LiveWhole'
<1> SUFFICES ASSUME NEW m \in Names
             PROVE  /\ m[1] \in Keep => tree'[m] = was[m]
                    /\ tree'[m].v \in {"none", "old", "new"}
                    /\ tree'[m].kind # was[m].kind /\ was[m] # None => OfAnotherKind(m)
  BY DEF LiveWhole, OfAnotherKind
<1>1. CASE m \notin Under(n)
  BY <1>1 DEF UnpackInv, LiveWhole
<1>2. CASE m \in Under(n)
  <2>1. m[1] \notin Keep
    BY <1>2, UnderNames DEF IsPreserved
  <2>2. new[m].v \in {"none", "new"}
    BY <1>2 DEF UnpackInv, StageInv, Unpacking, None
  <2> QED  BY <1>2, <2>1, <2>2
<1> QED  BY <1>1, <1>2

-----------------------------------------------------------------------------
(* A name is moved to where nothing of another kind is.                    *)
LEMMA MoveKeeps ==
  ASSUME UnpackInv, Move
  PROVE  UnpackInv'
<1>1. PICK n \in ToMove : Renames(n) /\ Moved(n)
  BY DEF Move
<1>2. n \in Names /\ n \in Staged /\ ~IsPreserved(n) /\ pc = "promote" /\ pc' = pc
  BY <1>1 DEF Move, ToMove, Staged
<1>3. ASSUME NEW m \in Under(n), stage[m].kind # was[m].kind, was[m] # None
      PROVE  OfAnotherKind(m)
  <2>1. m \in Names
    BY UnderNames, <1>2
  <2>2. CASE m \in Staged
    BY <1>2, <1>3, <2>2, KindOfStage
  <2>3. CASE m \notin Staged
    <3>1. n # m /\ was[n].kind = "dir"
      BY <1>2, <1>3, <2>3, WasTree
    <3>2. was[n] # None
      BY <3>1 DEF None
    <3>3. CASE stage[n].kind = "dir"
      BY <1>1, <1>2, <3>1, <3>2, <3>3, KindAbove DEF Renames, UnpackInv, LiveWhole
    <3>4. CASE stage[n].kind # "dir"
      BY <1>2, <3>1, <3>4, KindOfStage, KindAbove
    <3> QED  BY <3>3, <3>4
  <2> QED  BY <2>2, <2>3
<1>4. LiveWhole'
  <2>1. /\ tree' = [m \in Names |-> IF m \in Under(n) THEN stage[m] ELSE tree[m]]
        /\ \A m \in Under(n) : stage[m].kind # was[m].kind /\ was[m] # None => OfAnotherKind(m)
    BY <1>1, <1>3 DEF Moved
  <2>2. UNCHANGED <<was, made>>
    BY DEF Move
  <2> QED  BY <1>2, <2>1, <2>2, Replaced
<1>5. StageInv' /\ TakenInv' /\ was' \in Lives
  BY <1>1, <1>2 DEF Move, Moved, UnpackInv, StageInv, TakenInv, Unpacking, Staged
<1> QED  BY <1>4, <1>5 DEF UnpackInv

(* A name of another kind goes first.                                      *)
LEMMA RemoveKeeps ==
  ASSUME UnpackInv, RemoveOther
  PROVE  UnpackInv'
<1>1. PICK n \in ToMove :
        /\ ~Renames(n) /\ taken' = n
        /\ tree' = [m \in Names |-> IF m \in Under(n) THEN None ELSE tree[m]]
  BY DEF RemoveOther
<1>2. n \in Names /\ n \in Staged /\ ~IsPreserved(n) /\ pc = "promote" /\ ~Entered(n)
  BY <1>1 DEF RemoveOther, ToMove, Staged
<1>3. ASSUME NEW m \in Under(n), was[m] # None
      PROVE  OfAnotherKind(m)
  <2>1. CASE stage[n].kind # was[n].kind
    BY <1>2, <2>1, KindOfStage, KindAbove
  <2>2. CASE stage[n].kind = was[n].kind
    <3>1. tree[n].kind # was[n].kind
      BY <1>1, <1>2, <2>2 DEF Renames, Entered
    <3>2. was[n] # None
      BY <1>2, <1>3, WasTree DEF None
    <3>3. OfAnotherKind(n)
      BY <1>2, <3>1, <3>2 DEF UnpackInv, LiveWhole
    <3> QED  BY <1>2, <3>3, KindAbove
  <2> QED  BY <2>1, <2>2
<1>4. LiveWhole'
  <2>1. /\ tree' = [m \in Names |-> IF m \in Under(n) THEN Bare[m] ELSE tree[m]]
        /\ \A m \in Under(n) : Bare[m] \in {stage[m], None}
        /\ \A m \in Under(n) : Bare[m].kind # was[m].kind /\ was[m] # None => OfAnotherKind(m)
    BY <1>1, <1>2, <1>3, UnderNames DEF Bare
  <2>2. UNCHANGED <<was, made>>
    BY DEF RemoveOther
  <2> QED  BY <1>2, <2>1, <2>2, Replaced
<1>5. TakenInv'
  BY <1>1, <1>2, UnderNames DEF TakenInv, IsPreserved, Under
<1>6. StageInv' /\ was' \in Lives
  BY <1>2 DEF RemoveOther, UnpackInv, StageInv, Unpacking, Staged
<1> QED  BY <1>4, <1>5, <1>6 DEF UnpackInv

LEMMA MoveAfterRemoveKeeps ==
  ASSUME UnpackInv, MoveAfterRemove
  PROVE  UnpackInv'
<1>1. /\ pc = "between" /\ pc' = "promote" /\ Moved(taken)
      /\ UNCHANGED <<was, made, tarball>>
  BY DEF MoveAfterRemove
<1>2. taken \in Names /\ ~IsPreserved(taken) /\ \A m \in Under(taken) : tree[m] = None
  BY <1>1 DEF UnpackInv, TakenInv
<1>3. ASSUME NEW m \in Under(taken), stage[m].kind # was[m].kind, was[m] # None
      PROVE  OfAnotherKind(m)
  <2>1. m \in Names
    BY UnderNames, <1>2
  <2>2. CASE m \in Staged
    BY <1>1, <1>3, <2>2, KindOfStage
  <2>3. CASE m \notin Staged
    BY <1>2, <1>3, <2>1, <2>3 DEF Staged, UnpackInv, LiveWhole
  <2> QED  BY <2>2, <2>3
<1>4. LiveWhole'
  <2>1. /\ tree' = [m \in Names |-> IF m \in Under(taken) THEN stage[m] ELSE tree[m]]
        /\ \A m \in Under(taken) : stage[m].kind # was[m].kind /\ was[m] # None => OfAnotherKind(m)
    BY <1>1, <1>3 DEF Moved
  <2> QED  BY <1>1, <1>2, <2>1, Replaced
<1>5. StageInv' /\ TakenInv' /\ was' \in Lives
  BY <1>1 DEF Moved, UnpackInv, StageInv, TakenInv, Unpacking, Staged
<1> QED  BY <1>4, <1>5 DEF UnpackInv

-----------------------------------------------------------------------------
(* Up to the complete stage the directory is left alone.                   *)
LEMMA ExtractKeeps ==
  ASSUME UnpackInv, ExtractEntry
  PROVE  UnpackInv'
<1>1. /\ pc = "extract" /\ pc' = pc /\ tarball = "good"
      /\ UNCHANGED <<tree, was, made, tarball, taken>>
  BY DEF ExtractEntry, UnpackInv, StageInv, Unpacking
<1>2. \A k : New(k).v = "new"
  BY <1>1 DEF New
<1>3. \A n, k : LET st == Placed(stage, n, New(k))
                IN \A m \in Names : st[m] = None \/ st[m].v = "new"
  BY <1>1, <1>2 DEF Placed, UnpackInv, StageInv, Unpacking
<1>4. \A m \in Names : stage'[m] = None \/ stage'[m].v = "new"
  BY <1>1, <1>3 DEF ExtractEntry, StageWith, UnpackInv, StageInv, Unpacking
<1>5. StageInv' /\ TakenInv' /\ was' \in Lives
  BY <1>1, <1>4 DEF UnpackInv, StageInv, TakenInv, Unpacking
<1> QED  BY <1>1, <1>5, TreeStays DEF UnpackInv

LEMMA ExtractedKeeps ==
  ASSUME UnpackInv, Extracted
  PROVE  UnpackInv'
<1>1. /\ pc = "extract" /\ pc' = "promote" /\ UNCHANGED <<tree, was, tarball, stage>>
      /\ made' = made \cup {[name |-> n, kind |-> stage[n].kind] : n \in Staged}
  BY DEF Extracted
<1>2. \A x \in made' : x.name \in Names
  BY <1>1 DEF UnpackInv, StageInv, Staged
<1>3. \A n \in Staged : [name |-> n, kind |-> stage[n].kind] \in made'
  BY <1>1
<1>4. StageInv' /\ TakenInv' /\ was' \in Lives
  BY <1>1, <1>2, <1>3 DEF UnpackInv, StageInv, TakenInv, Unpacking, Staged
<1> QED  BY <1>1, <1>4, TreeStays DEF UnpackInv

(* Nothing is unpacked before the tarball was checked, nor after the       *)
(* attempt is over.                                                        *)
LEMMA OthersKeep ==
  ASSUME UnpackInv,
         \/ Fetch \/ Fetched \/ NewStage \/ Received \/ Breaks \/ Finish \/ Leave \/ Fail
         \/ Killed \/ UNCHANGED unpackVars
  PROVE  UnpackInv'
<1>1. UNCHANGED <<tree, was, made>>
  BY DEF Fetch, Fetched, NewStage, Received, Breaks, Finish, Leave, Fail, Killed,
         unpackVars, stageVars
<1>2. StageInv' /\ TakenInv'
  <2>1. CASE UNCHANGED unpackVars
    BY <2>1 DEF UnpackInv, StageInv, TakenInv, unpackVars, stageVars, Staged, Under, IsPreserved
  <2>2. CASE Fetch \/ Fetched \/ Received \/ Leave \/ Fail \/ Killed \/ Finish
    BY <1>1, <2>2 DEF Fetch, Fetched, Received, Leave, Fail, Killed, Finish, UnpackInv,
                      StageInv, TakenInv, Unpacking
  <2>3. CASE NewStage
    BY <1>1, <2>3 DEF NewStage, Bare, UnpackInv, StageInv, TakenInv, Unpacking
  <2>4. CASE Breaks
    BY <1>1, <2>4 DEF Breaks, UnpackInv, StageInv, TakenInv, Unpacking
  <2> QED  BY <2>1, <2>2, <2>3, <2>4
<1> QED  BY <1>1, <1>2, TreeStays DEF UnpackInv

LEMMA UnpackStarts ==
  ASSUME UnpackInit
  PROVE  UnpackInv
<1>1. StageInv /\ TakenInv /\ was \in Lives
  BY DEF UnpackInit, StageInv, TakenInv, Unpacking
<1>2. LiveWhole
  BY StagedExtractAssumption DEF UnpackInit, LiveWhole, None
<1> QED  BY <1>1, <1>2 DEF UnpackInv

LEMMA UnpackGoesOn == UnpackInv /\ [UnpackNext]_unpackVars => UnpackInv'
BY MoveKeeps, RemoveKeeps, MoveAfterRemoveKeeps, ExtractKeeps, ExtractedKeeps, OthersKeep
   DEF UnpackNext

(* LiveWhole: whatever fails, whenever the program is killed and however   *)
(* often the attempt is repeated, a name of the runner is wholly old or    *)
(* wholly new, what an update must keep is as it was, and a name is only   *)
(* of another kind, or missing, where a tarball was.                       *)
THEOREM RunnersStayWhole == UnpackSpec => []LiveWhole
<1>1. UnpackInit => UnpackInv
  BY UnpackStarts
<1>2. UnpackInv => LiveWhole
  BY DEF UnpackInv
<1> QED  BY <1>1, <1>2, UnpackGoesOn, PTL DEF UnpackSpec

-----------------------------------------------------------------------------
(* Repeated attempts unpack the same archive to the same stage: a stage    *)
(* and its links follow from the entries before it.                        *)
NewName(k) == [kind |-> k, v |-> "new"]

StageAfter(st, ls, e) ==
  IF IsPreserved(Resolve(ls, e.name)) THEN st
  ELSE [m \in Names |-> IF m = Place(ls, e) THEN NewName(KindOf(e))
                        ELSE IF m \in Above(Place(ls, e)) /\ st[m] = None THEN NewName("dir")
                        ELSE st[m]]

(* The stages st and their links ls up to entry k of archive a.            *)
Course(a, st, ls, k) ==
  /\ st[1] = Bare /\ ls[1] = <<>>
  /\ \A i \in 1 .. k - 1 : /\ i \in DOMAIN a
                           /\ st[i + 1] = StageAfter(st[i], ls[i], a[i])
                           /\ ls[i + 1] = LinksWith(ls[i], a[i])

(* Where a name of the tarball is done with.                               *)
InPlace(n) == tree[n].v = "new" \/ tree[n].kind = "dir"

CourseInv ==
  /\ archive \in Archives
  /\ pc = "extract" =>
       /\ next \in Nat \ {0}
       /\ \E st, ls : Course(archive, st, ls, next) /\ st[next] = stage /\ ls[next] = links
  /\ \A x \in made : \E st, ls : \E k \in Nat \ {0} :
       Course(archive, st, ls, k) /\ k \notin DOMAIN archive /\ st[k][x.name] # None

(* What the stage has is under directories of it, and nothing of it is to  *)
(* be kept.                                                                *)
ShapeInv ==
  /\ pc \in Unpacking => \A n \in Staged : /\ ~IsPreserved(n) /\ stage[n].kind # "none"
                                           /\ \A m \in Above(n) : stage[m].kind = "dir"
  /\ pc = "extract" => \A m \in DOMAIN links : ~IsPreserved(m)

(* What is no longer in the stage is in place, and every directory above   *)
(* it that still is was entered.                                           *)
PlaceInv ==
  /\ pc \in {"promote", "between"} =>
       \A x \in made : stage[x.name] = None =>
         /\ InPlace(x.name)
         /\ \A m \in Staged : IsPrefix(m, x.name) => Entered(m)
  /\ pc = "between" => taken \in Staged /\ \A m \in Above(taken) : Entered(m)
  /\ pc \in Unpacking \cup {"broken", "done"} => stale = 0
  /\ pc = "done" => \A x \in made : InPlace(x.name)

CleanInv == CourseInv /\ ShapeInv /\ PlaceInv

-----------------------------------------------------------------------------
(* A set of numbers that is not empty has a least one: the intervals up to *)
(* its members are ordered as they are.                                    *)
LEMMA LeastNumber ==
  ASSUME NEW S, S \subseteq Nat, S # {}
  PROVE  \E x \in S : \A y \in S : x <= y
<1>1. PICK m \in S : TRUE
  OBVIOUS
<1> DEFINE I == 1 .. m
           L == {s \in S : s <= m}
           T == {1 .. x : x \in L}
           R == StrictSubsetOrdering(I)
<1>2. IsWellFoundedOn(R, SUBSET I)
  <2>1. IsFiniteSet(I)
    BY FS_Interval
  <2>2. FiniteSubsetsOf(I) = SUBSET I
    BY <2>1, FS_FiniteSubsetsOfFinite
  <2> QED  BY <2>2, FS_StrictSubsetOrderingWellFounded
<1>3. T \subseteq SUBSET I /\ T # {}
  BY <1>1
<1>4. \A A, B \in SUBSET I : A \subseteq B /\ A # B => <<A, B>> \in R
  BY DEF StrictSubsetOrdering
<1> HIDE DEF R, T
<1>5. PICK A \in T : \A B \in T : ~ (<<B, A>> \in R)
  BY <1>2, <1>3, WFMin
<1>6. PICK x \in L : A = 1 .. x
  BY <1>5 DEF T
<1>7. ASSUME NEW y \in S  PROVE  x <= y
  <2>1. SUFFICES ASSUME y < x  PROVE FALSE
    BY <1>6
  <2>2. y \in L /\ 1 .. y \in T
    BY <1>1, <1>6, <2>1 DEF T
  <2>3. 1 .. y \subseteq 1 .. x /\ 1 .. y # 1 .. x
    BY <1>6, <2>1
  <2> QED
    BY <1>3, <1>4, <1>5, <1>6, <2>2, <2>3
<1> QED
  BY <1>6, <1>7

(* Two courses of an archive are the same as far as both go, and those     *)
(* that are through it are equally long.                                   *)
LEMMA OneCourse ==
  ASSUME NEW a, NEW st1, NEW ls1, NEW st2, NEW ls2, NEW k \in Nat \ {0},
         Course(a, st1, ls1, k), Course(a, st2, ls2, k)
  PROVE  st1[k] = st2[k] /\ ls1[k] = ls2[k]
<1> DEFINE D == {i \in 1 .. k : ~(st1[i] = st2[i] /\ ls1[i] = ls2[i])}
<1> SUFFICES D = {}
  OBVIOUS
<1> SUFFICES ASSUME D # {} PROVE FALSE
  OBVIOUS
<1>1. PICK i \in D : \A j \in D : i <= j
  <2>1. D \subseteq Nat
    OBVIOUS
  <2> HIDE DEF D
  <2> QED  BY <2>1, LeastNumber
<1>2. i # 1
  BY DEF Course
<1>3. i - 1 \in 1 .. k - 1 /\ i - 1 \notin D /\ i - 1 + 1 = i
  BY <1>1, <1>2
<1>4. st1[i - 1] = st2[i - 1] /\ ls1[i - 1] = ls2[i - 1]
  BY <1>3
<1>5. /\ st1[i] = StageAfter(st1[i - 1], ls1[i - 1], a[i - 1])
      /\ ls1[i] = LinksWith(ls1[i - 1], a[i - 1])
      /\ st2[i] = StageAfter(st2[i - 1], ls2[i - 1], a[i - 1])
      /\ ls2[i] = LinksWith(ls2[i - 1], a[i - 1])
  BY <1>3 DEF Course
<1> QED  BY <1>4, <1>5, <1>1

LEMMA OneEnd ==
  ASSUME NEW a, NEW st1, NEW ls1, NEW st2, NEW ls2, NEW k \in Nat \ {0}, NEW l \in Nat \ {0},
         Course(a, st1, ls1, k), Course(a, st2, ls2, l),
         k \notin DOMAIN a, l \notin DOMAIN a
  PROVE  st1[k] = st2[l]
<1>1. k = l
  <2>1. ~(k < l)
    BY DEF Course
  <2>2. ~(l < k)
    BY DEF Course
  <2> QED  BY <2>1, <2>2
<1> QED  BY <1>1, OneCourse

-----------------------------------------------------------------------------
(* Names that begin another one are one above the other.                   *)
LEMMA InLine ==
  ASSUME NEW n \in Names, NEW m \in Names, NEW p \in Names,
         IsPrefix(n, p), IsPrefix(m, p), m \notin Under(n)
  PROVE  m \in Above(n)
<1>1. ASSUME NEW i \in Seq(STRING), NEW j \in Seq(STRING)
      PROVE  IsPrefix(i, j) <=>
               Len(i) <= Len(j) /\ \A k \in 1 .. Len(i) : i[k] = j[k]
  BY DEF IsPrefix
<1>2. n \in Seq(STRING) /\ m \in Seq(STRING) /\ p \in Seq(STRING)
  BY StagedExtractAssumption
<1>3. Len(n) \in Nat /\ Len(m) \in Nat /\ Len(p) \in Nat
  BY <1>2
<1>4. ~IsPrefix(n, m)
  BY DEF Under
<1>5. Len(m) < Len(n)
  BY <1>1, <1>2, <1>3, <1>4
<1>6. IsPrefix(m, n)
  BY <1>1, <1>2, <1>3, <1>5
<1> QED  BY <1>5, <1>6, <1>3 DEF Above, IsStrictPrefix

LEMMA AboveNames ==
  /\ \A n \in Names : \A m \in Above(n) : m \in Names /\ IsPrefix(m, n) /\ m # n /\ m[1] = n[1]
  /\ \A n \in Names : \A m \in Under(n) : m \in Names /\ IsPrefix(n, m) /\ (m # n => n \in Above(m))
  /\ \A n \in Names : IsPrefix(n, n)
<1>1. ASSUME NEW n \in Names, NEW m \in Above(n)
      PROVE  m \in Names /\ IsPrefix(m, n) /\ m # n /\ m \in Names /\ n \in Under(m)
  BY DEF Above, IsStrictPrefix, Under
<1>2. \A n \in Names : \A m \in Above(n) : m[1] = n[1]
  BY <1>1, UnderNames
<1>3. ASSUME NEW n \in Names, NEW m \in Under(n)
      PROVE  m \in Names /\ IsPrefix(n, m) /\ (m # n => n \in Above(m))
  BY DEF Above, IsStrictPrefix, Under
<1>4. \A n \in Names : IsPrefix(n, n)
  BY UnderNames DEF Under
<1> QED  BY <1>1, <1>2, <1>3, <1>4

LEMMA AboveAbove ==
  ASSUME NEW n \in Names, NEW m \in Above(n), NEW l \in Above(m)
  PROVE  l \in Above(n)
<1>1. l \in Names /\ m \in Names /\ IsPrefix(l, m) /\ IsPrefix(m, n) /\ l # m /\ m # n
  BY DEF Above, IsStrictPrefix
<1>2. l \in Seq(STRING) /\ m \in Seq(STRING) /\ n \in Seq(STRING)
  BY <1>1, StagedExtractAssumption
<1>3. IsPrefix(l, n) /\ Len(l) < Len(m) /\ Len(m) <= Len(n)
  BY <1>1, <1>2 DEF IsPrefix
<1>4. l # n
  BY <1>2, <1>3
<1> QED  BY <1>1, <1>3, <1>4 DEF Above, IsStrictPrefix

(* Of a name the stage has, the first element that was not entered is to   *)
(* be moved.                                                               *)
LEMMA FirstToMove ==
  ASSUME ShapeInv, pc = "promote", NEW n \in Staged, ~Entered(n)
  PROVE  ToMove # {}
<1> DEFINE P == {m \in Names : IsPrefix(m, n) /\ m \in Staged /\ ~Entered(m)}
           S == {Len(m) : m \in P}
<1>1. n \in P /\ S # {}
  <2>1. n \in Names /\ IsPrefix(n, n)
    BY AboveNames DEF Staged
  <2> QED  BY <2>1
<1>2. P \subseteq Seq(STRING) /\ S \subseteq Nat
  BY StagedExtractAssumption
<1>3. PICK m \in P : \A l \in P : Len(m) <= Len(l)
  <2>1. PICK x \in S : \A y \in S : x <= y
    BY <1>1, <1>2, LeastNumber
  <2> QED  BY <2>1
<1>4. ASSUME NEW l \in Above(m)
      PROVE  Entered(l)
  <2>1. l \in Names /\ IsPrefix(l, m) /\ l # m /\ m \in Under(l)
    BY <1>3, AboveNames DEF Under
  <2>2. IsPrefix(l, n)
    BY <1>3, <2>1, UnderNames, StagedExtractAssumption DEF Under, Staged
  <2>3. stage[l].kind = "dir"
    BY <1>3, <1>4 DEF ShapeInv, Unpacking
  <2>4. l \in Staged
    BY <2>1, <2>3 DEF Staged, None
  <2>5. Len(l) < Len(m)
    BY <1>2, <1>3, <2>1, StagedExtractAssumption DEF IsPrefix
  <2> QED  BY <1>2, <1>3, <2>1, <2>2, <2>4, <2>5
<1>5. m \in ToMove
  BY <1>3, <1>4 DEF ToMove, Staged, ShapeInv, Unpacking
<1> QED  BY <1>5

-----------------------------------------------------------------------------
(* Where the links lead from the beginnings of a name, one after another.  *)
Turned(ls, m) == IF m \in DOMAIN ls THEN ls[m] ELSE m

Follows(ls, n, f, k) ==
  f[0] = <<>> /\ \A i \in 1 .. k : f[i] = Turned(ls, Append(f[i - 1], n[i]))

LEMMA FollowsExists ==
  ASSUME NEW ls, NEW n, NEW l \in Nat
  PROVE  \E f : Follows(ls, n, f, l)
<1> DEFINE D == {k \in Nat : ~ \E f : Follows(ls, n, f, k)}
<1> SUFFICES ASSUME D # {} PROVE FALSE
  OBVIOUS
<1>1. PICK k \in D : \A j \in D : k <= j
  <2>1. D \subseteq Nat
    OBVIOUS
  <2> HIDE DEF D
  <2> QED  BY <2>1, LeastNumber
<1>2. k # 0
  <2> DEFINE g == [i \in {0} |-> <<>>]
  <2>1. Follows(ls, n, g, 0)
    BY DEF Follows
  <2> QED  BY <2>1
<1>3. k - 1 \in Nat /\ k - 1 \notin D
  BY <1>1, <1>2
<1>4. PICK f : Follows(ls, n, f, k - 1)
  BY <1>3
<1> DEFINE g == [i \in 0 .. k |-> IF i = k THEN Turned(ls, Append(f[k - 1], n[k])) ELSE f[i]]
<1>5. Follows(ls, n, g, k)
  <2>1. g[0] = <<>> /\ g[k] = Turned(ls, Append(f[k - 1], n[k])) /\ g[k - 1] = f[k - 1]
    BY <1>1, <1>2, <1>4 DEF Follows
  <2>2. ASSUME NEW i \in 1 .. k - 1
        PROVE  g[i] = Turned(ls, Append(g[i - 1], n[i]))
    <3>1. g[i] = f[i] /\ g[i - 1] = f[i - 1]
      BY <1>3
    <3> QED  BY <1>4, <3>1 DEF Follows
  <2> HIDE DEF g
  <2> QED  BY <1>1, <2>1, <2>2 DEF Follows
<1> QED  BY <1>1, <1>5

LEMMA FollowedFollows ==
  ASSUME NEW ls, NEW n \in Seq(STRING)
  PROVE  Follows(ls, n, Followed(ls, n), Len(n))
<1>1. Len(n) \in Nat
  OBVIOUS
<1>2. PICK f : Follows(ls, n, f, Len(n))
  BY <1>1, FollowsExists
<1> DEFINE Def(g) == [k \in 0 .. Len(n) |->
                        IF k = 0 THEN <<>> ELSE Turned(ls, Append(g[k - 1], n[k]))]
           h == [k \in 0 .. Len(n) |-> f[k]]
<1>3. h = Def(h)
  <2>1. ASSUME NEW k \in 0 .. Len(n), k # 0
        PROVE  h[k - 1] = f[k - 1] /\ f[k] = Turned(ls, Append(f[k - 1], n[k]))
    BY <1>1, <1>2, <2>1 DEF Follows
  <2>2. f[0] = <<>>
    BY <1>2 DEF Follows
  <2>3. \A k \in 0 .. Len(n) : h[k] = Def(h)[k]
    BY <2>1, <2>2
  <2> QED  BY <2>3
<1>4. Followed(ls, n) = CHOOSE g : g = Def(g)
  BY DEF Followed, Turned
<1> HIDE DEF h
<1>5. Followed(ls, n) = Def(Followed(ls, n))
  <2> HIDE DEF Def
  <2> QED  BY <1>3, <1>4
<1>6. \A k \in 0 .. Len(n) : Followed(ls, n)[k] = Def(Followed(ls, n))[k]
  BY <1>5
<1> QED  BY <1>1, <1>6 DEF Follows

(* Nothing that is to be kept gets into the stage: a link replaces what    *)
(* has its name, which is followed unless the links do not know it.        *)
LEMMA PlaceIsNotKept ==
  ASSUME NEW ls, NEW e, e.name \in Seq(STRING) \ {<<>>}, Place(ls, e) \in Names,
         ~IsPreserved(Resolve(ls, e.name)), \A m \in DOMAIN ls : ~IsPreserved(m)
  PROVE  ~IsPreserved(Place(ls, e))
<1> DEFINE n == e.name
           m == Append(Followed(ls, n)[Len(n) - 1], Last(n))
<1>1. CASE IsLink(e)
  <2>1. Place(ls, e) = m
    BY <1>1 DEF Place
  <2>2. Resolve(ls, n) = Turned(ls, m)
    <3>1. Len(n) \in 1 .. Len(n) /\ Last(n) = n[Len(n)]
      BY DEF Last
    <3> QED  BY <3>1, FollowedFollows DEF Resolve, Follows
  <2> HIDE DEF m, n
  <2> QED  BY <2>1, <2>2 DEF Turned, n
<1>2. CASE ~IsLink(e)
  BY <1>2 DEF Place
<1> QED  BY <1>1, <1>2
-----------------------------------------------------------------------------
(* An entry is unpacked: the course goes on with it.                       *)
LEMMA ExtractCleans ==
  ASSUME UnpackInv, CleanInv, ExtractEntry
  PROVE  CleanInv'
<1> DEFINE e == archive[next]
           n == Place(links, e)
<1>1. /\ pc = "extract" /\ pc' = pc /\ tarball = "good" /\ next \in DOMAIN archive
      /\ next' = next + 1 /\ UNCHANGED <<archive, was, tree, tarball, made, taken, stale>>
      /\ stage' = StageWith(stage, links, e) /\ links' = LinksWith(links, e)
      /\ IsPreserved(Resolve(links, e.name)) \/ Extracts(e)
  BY DEF ExtractEntry, UnpackInv, StageInv, Unpacking
<1>2. \A k : New(k) = NewName(k)
  BY <1>1 DEF New, NewName
<1>3. stage' = StageAfter(stage, links, e)
  BY <1>1, <1>2 DEF StageAfter, StageWith, Placed
<1>4. e.name \in Seq(STRING) \ {<<>>}
  BY <1>1, StagedExtractAssumption DEF CleanInv, CourseInv
<1>5. CourseInv'
  <2>1. PICK st, ls : Course(archive, st, ls, next) /\ st[next] = stage /\ ls[next] = links
    BY <1>1 DEF CleanInv, CourseInv
  <2>2. next \in Nat \ {0}
    BY <1>1 DEF CleanInv, CourseInv
  <2>3. PICK st2 : st2 = [i \in 1 .. next + 1 |-> IF i = next + 1 THEN stage' ELSE st[i]]
    OBVIOUS
  <2>4. PICK ls2 : ls2 = [i \in 1 .. next + 1 |-> IF i = next + 1 THEN links' ELSE ls[i]]
    OBVIOUS
  <2>5. /\ \A i \in 1 .. next : st2[i] = st[i] /\ ls2[i] = ls[i]
        /\ st2[next + 1] = stage' /\ ls2[next + 1] = links'
    BY <2>2, <2>3, <2>4
  <2>6. Course(archive, st2, ls2, next + 1)
    <3>1. st2[1] = Bare /\ ls2[1] = <<>>
      BY <2>1, <2>2, <2>5 DEF Course
    <3>2. ASSUME NEW i \in 1 .. next
          PROVE  /\ i \in DOMAIN archive
                 /\ st2[i + 1] = StageAfter(st2[i], ls2[i], archive[i])
                 /\ ls2[i + 1] = LinksWith(ls2[i], archive[i])
      <4>1. CASE i = next
        BY <1>1, <1>3, <2>1, <2>2, <2>5, <4>1
      <4>2. CASE i # next
        <5>1. i \in 1 .. next - 1 /\ i + 1 \in 1 .. next
          BY <2>2, <4>2
        <5> QED  BY <2>1, <2>5, <5>1 DEF Course
      <4> QED  BY <4>1, <4>2
    <3> QED  BY <2>2, <3>1, <3>2 DEF Course
  <2>7. next' \in Nat \ {0}
    BY <1>1, <2>2
  <2> QED  BY <1>1, <2>5, <2>6, <2>7 DEF CleanInv, CourseInv
<1>6. ShapeInv'
  <2>1. /\ \A m \in Staged : /\ ~IsPreserved(m) /\ stage[m].kind # "none"
                            /\ \A l \in Above(m) : stage[l].kind = "dir"
        /\ \A m \in DOMAIN links : ~IsPreserved(m)
    BY <1>1 DEF CleanInv, ShapeInv, Unpacking
  <2>2. CASE IsPreserved(Resolve(links, e.name))
    <3>1. stage' = stage /\ links' = links
      BY <1>1, <2>2 DEF StageWith, LinksWith
    <3> QED  BY <1>1, <2>1, <3>1 DEF ShapeInv, Staged
  <2>3. CASE ~IsPreserved(Resolve(links, e.name))
    <3>1. n \in Names /\ HasParent(e.name, n) /\ (WritesFile(e, n) \/ MakesDir(e, n) \/ WritesLink(e, n))
      BY <1>1, <2>3 DEF Extracts
    <3>2. ~IsPreserved(n)
      BY <1>4, <2>1, <2>3, <3>1, PlaceIsNotKept
    <3>3. \A m \in Above(n) : m \in Names /\ ~IsPreserved(m) /\ m # n
      BY <3>1, <3>2, AboveNames, UnderNames DEF IsPreserved
    <3>4. stage' = [m \in Names |-> IF m = n THEN NewName(KindOf(e))
                                    ELSE IF m \in Above(n) /\ stage[m] = None THEN NewName("dir")
                                    ELSE stage[m]]
      BY <1>3, <2>3 DEF StageAfter
    <3>5. \A m \in Above(n) : stage'[m].kind = "dir"
      <4>1. ASSUME NEW m \in Above(n)
            PROVE  stage[m] = None \/ stage[m].kind = "dir"
        BY <2>1, <3>1, <3>3 DEF HasParent, Staged
      <4> QED  BY <3>3, <3>4, <4>1 DEF NewName
    <3>6. ASSUME NEW m \in Names, m # n, n \in Above(m), stage[m] # None
          PROVE  stage[n].kind = "dir" /\ KindOf(e) = "dir"
      <4>1. stage[n].kind = "dir"
        BY <2>1, <3>6 DEF Staged
      <4>2. m \in Under(n) \ {n}
        BY <3>6, AboveNames, UnderNames DEF Above, IsStrictPrefix, Under
      <4> QED  BY <3>1, <3>6, <4>1, <4>2 DEF WritesFile, MakesDir, WritesLink, KindOf
    <3>7. ASSUME NEW m \in Names, stage'[m] # None
          PROVE  /\ ~IsPreserved(m) /\ stage'[m].kind # "none"
                 /\ \A l \in Above(m) : stage'[l].kind = "dir"
      <4>1. CASE m = n
        BY <3>2, <3>4, <3>5, <4>1 DEF KindOf, NewName
      <4>2. CASE m \in Above(n)
        <5>1. \A l \in Above(m) : l \in Above(n)
          BY <3>1, <3>3, <4>2, AboveNames, AboveAbove
        <5> QED  BY <3>3, <3>5, <4>2, <5>1
      <4>3. CASE m # n /\ m \notin Above(n)
        <5>1. m \in Staged /\ stage'[m] = stage[m]
          BY <3>4, <3>7, <4>3 DEF Staged
        <5>2. ASSUME NEW l \in Above(m)
              PROVE  stage'[l].kind = "dir"
          <6>1. stage[l].kind = "dir" /\ l \in Names
            BY <2>1, <5>1, <5>2 DEF Above
          <6>2. CASE l = n
            <7>1. KindOf(e) = "dir"
              BY <3>6, <4>3, <5>1, <5>2, <6>2 DEF Staged
            <7> QED  BY <3>4, <6>1, <6>2, <7>1 DEF NewName
          <6>3. CASE l # n
            BY <3>4, <6>1, <6>3 DEF None, NewName
          <6> QED  BY <6>2, <6>3
        <5> QED  BY <2>1, <5>1, <5>2
      <4> QED  BY <4>1, <4>2, <4>3
    <3>8. \A m \in DOMAIN links' : ~IsPreserved(m)
      BY <1>1, <2>1, <2>3 DEF LinksWith, Remembered
    <3> QED  BY <3>7, <3>8 DEF ShapeInv, Staged, IsPreserved, Above
  <2> QED  BY <2>2, <2>3
<1>7. PlaceInv'
  BY <1>1 DEF CleanInv, PlaceInv, Unpacking
<1> QED  BY <1>5, <1>6, <1>7 DEF CleanInv

(* The stage is complete: it has all that any complete stage before had.   *)
LEMMA ExtractedCleans ==
  ASSUME UnpackInv, CleanInv, Extracted
  PROVE  CleanInv'
<1>1. /\ pc = "extract" /\ pc' = "promote" /\ next \notin DOMAIN archive
      /\ UNCHANGED <<archive, tree, stage, links, stale>>
      /\ made' = made \cup {[name |-> n, kind |-> stage[n].kind] : n \in Staged}
  BY DEF Extracted, AllRead
<1>2. PICK st, ls : Course(archive, st, ls, next) /\ st[next] = stage /\ ls[next] = links
  BY <1>1 DEF CleanInv, CourseInv
<1>3. next \in Nat \ {0}
  BY <1>1 DEF CleanInv, CourseInv
<1>4. ASSUME NEW x \in made'
      PROVE  stage[x.name] # None
  <2>1. CASE x \in made
    <3>1. PICK st2, ls2 : \E k \in Nat \ {0} :
            Course(archive, st2, ls2, k) /\ k \notin DOMAIN archive /\ st2[k][x.name] # None
      BY <2>1 DEF CleanInv, CourseInv
    <3> QED  BY <1>1, <1>2, <1>3, <3>1, OneEnd
  <2>2. CASE x \notin made
    BY <1>1, <1>4, <2>2 DEF Staged
  <2> QED  BY <2>1, <2>2
<1>5. CourseInv'
  <2>1. \A x \in made' : \E st2, ls2 : \E k \in Nat \ {0} :
           Course(archive, st2, ls2, k) /\ k \notin DOMAIN archive /\ st2[k][x.name] # None
    BY <1>1, <1>2, <1>3, <1>4
  <2> QED  BY <1>1, <2>1 DEF CleanInv, CourseInv
<1>6. ShapeInv'
  BY <1>1 DEF CleanInv, ShapeInv, Unpacking, Staged, IsPreserved, Above
<1>7. PlaceInv'
  BY <1>1, <1>4 DEF CleanInv, PlaceInv, Unpacking
<1> QED  BY <1>5, <1>6, <1>7 DEF CleanInv
-----------------------------------------------------------------------------
(* A name, and all that is under it, leaves the stage for the directory,   *)
(* when every directory above it was entered and it was not.               *)
LEMMA MovedCleans ==
  ASSUME UnpackInv, CleanInv, pc \in {"promote", "between"}, pc' = "promote",
         UNCHANGED <<archive, made, links, next, stale>>,
         NEW n \in Staged, Moved(n), ~Entered(n), \A m \in Above(n) : Entered(m)
  PROVE  CleanInv'
<1>1. /\ n \in Names
      /\ stage' = [m \in Names |-> IF m \in Under(n) THEN None ELSE stage[m]]
      /\ tree' = [m \in Names |-> IF m \in Under(n) THEN stage[m] ELSE tree[m]]
  BY DEF Moved, Staged
<1>2. CourseInv'
  BY DEF CleanInv, CourseInv
<1>3. \A m \in Names : stage'[m] # None => m \notin Under(n) /\ stage'[m] = stage[m] /\ m \in Staged
  BY <1>1 DEF Staged
<1>4. \A m \in Names : m \notin Under(n) => stage'[m] = stage[m] /\ tree'[m] = tree[m]
  BY <1>1
<1>5. ShapeInv'
  <2>1. ASSUME NEW m \in Names, stage'[m] # None
        PROVE  /\ ~IsPreserved(m) /\ stage'[m].kind # "none"
               /\ \A l \in Above(m) : stage'[l].kind = "dir"
    <3>1. m \in Staged /\ stage'[m] = stage[m] /\ m \notin Under(n)
      BY <1>3, <2>1
    <3>2. ASSUME NEW l \in Above(m)
          PROVE  stage'[l].kind = "dir"
      <4>1. l \in Names /\ m \in Under(l) /\ l \notin Under(n)
        BY <1>1, <3>1, AboveNames, UnderNames, StagedExtractAssumption DEF Under, Above, IsStrictPrefix
      <4> QED  BY <1>4, <3>1, <4>1 DEF CleanInv, ShapeInv, Unpacking
    <3> QED  BY <3>1, <3>2 DEF CleanInv, ShapeInv, Unpacking
  <2> QED  BY <2>1 DEF ShapeInv, Staged, IsPreserved, Above
<1>6. PlaceInv'
  <2>1. ASSUME NEW x \in made, stage'[x.name] = None
        PROVE  /\ InPlace(x.name)'
               /\ \A m \in Names : stage'[m] # None /\ IsPrefix(m, x.name) => Entered(m)'
    <3>1. x.name \in Names
      BY DEF UnpackInv, StageInv
    <3>2. CASE stage[x.name] = None
      <4>1. InPlace(x.name) /\ \A m \in Staged : IsPrefix(m, x.name) => Entered(m)
        BY <3>2 DEF CleanInv, PlaceInv
      <4>2. x.name \notin Under(n)
        BY <4>1 DEF Under
      <4>3. ASSUME NEW m \in Names, stage'[m] # None, IsPrefix(m, x.name)
            PROVE  Entered(m)'
        BY <1>3, <1>4, <4>1, <4>3 DEF Entered
      <4> QED  BY <1>4, <3>1, <4>1, <4>2, <4>3 DEF InPlace
    <3>3. CASE stage[x.name] # None
      <4>1. x.name \in Under(n)
        BY <1>1, <2>1, <3>1, <3>3
      <4>2. InPlace(x.name)'
        BY <1>1, <3>1, <3>3, <4>1 DEF InPlace, UnpackInv, StageInv, Unpacking
      <4>3. ASSUME NEW m \in Names, stage'[m] # None, IsPrefix(m, x.name)
            PROVE  Entered(m)'
        <5>1. m \in Above(n)
          BY <1>1, <1>3, <3>1, <4>1, <4>3, AboveNames, InLine
        <5> QED  BY <1>3, <1>4, <4>3, <5>1 DEF Entered
      <4> QED  BY <4>2, <4>3
    <3> QED  BY <3>2, <3>3
  <2> QED  BY <2>1 DEF CleanInv, PlaceInv, Unpacking, Staged
<1> QED  BY <1>2, <1>5, <1>6 DEF CleanInv

LEMMA MoveCleans ==
  ASSUME UnpackInv, CleanInv, Move
  PROVE  CleanInv'
<1>1. PICK n \in ToMove : Moved(n)
  BY DEF Move
<1>2. n \in Staged /\ ~Entered(n) /\ \A m \in Above(n) : Entered(m)
  BY DEF ToMove, Staged
<1> QED  BY <1>1, <1>2, MovedCleans DEF Move

LEMMA RemoveCleans ==
  ASSUME UnpackInv, CleanInv, RemoveOther
  PROVE  CleanInv'
<1>1. PICK n \in ToMove :
        /\ taken' = n
        /\ tree' = [m \in Names |-> IF m \in Under(n) THEN None ELSE tree[m]]
  BY DEF RemoveOther
<1>2. /\ pc = "promote" /\ pc' = "between"
      /\ UNCHANGED <<archive, stage, links, next, made, stale>>
  BY DEF RemoveOther
<1>3. n \in Names /\ n \in Staged /\ ~Entered(n) /\ \A m \in Above(n) : Entered(m)
  BY DEF ToMove, Staged
<1>4. ASSUME NEW x \in made, stage[x.name] = None
      PROVE  InPlace(x.name)' /\ \A m \in Staged : IsPrefix(m, x.name) => Entered(m)'
  <2>1. InPlace(x.name) /\ \A m \in Staged : IsPrefix(m, x.name) => Entered(m)
    BY <1>2, <1>4 DEF CleanInv, PlaceInv
  <2>2. x.name \in Names /\ x.name \notin Under(n)
    BY <1>3, <2>1 DEF Under, UnpackInv, StageInv
  <2>3. \A m \in Names : IsPrefix(m, x.name) => m \notin Under(n)
    BY <1>3, <2>2, UnderNames, StagedExtractAssumption DEF Under
  <2> QED  BY <1>1, <1>2, <2>1, <2>2, <2>3 DEF InPlace, Entered, Staged
<1>5. ASSUME NEW m \in Above(n)
      PROVE  Entered(m)'
  <2>1. m \in Names /\ m \notin Under(n)
    BY <1>3, AboveNames, StagedExtractAssumption DEF Under, IsPrefix, Above, IsStrictPrefix
  <2> QED  BY <1>1, <1>2, <1>3, <2>1 DEF Entered
<1>6. PlaceInv'
  BY <1>1, <1>2, <1>3, <1>4, <1>5 DEF CleanInv, PlaceInv, Unpacking, Staged, Above
<1>7. CourseInv' /\ ShapeInv'
  BY <1>2 DEF CleanInv, CourseInv, ShapeInv, Unpacking, Staged, IsPreserved, Above
<1> QED  BY <1>6, <1>7 DEF CleanInv

LEMMA MoveAfterRemoveCleans ==
  ASSUME UnpackInv, CleanInv, MoveAfterRemove
  PROVE  CleanInv'
<1>1. pc = "between" /\ pc' = "promote" /\ Moved(taken)
      /\ UNCHANGED <<archive, made, links, next, stale>>
  BY DEF MoveAfterRemove
<1>2. taken \in Staged /\ \A m \in Above(taken) : Entered(m)
  BY <1>1 DEF CleanInv, PlaceInv
<1>3. ~Entered(taken)
  BY <1>1, UnderNames DEF UnpackInv, TakenInv, Entered, None
<1> QED  BY <1>1, <1>2, <1>3, MovedCleans

(* Nothing is left to be moved: every directory was entered.               *)
LEMMA FinishCleans ==
  ASSUME UnpackInv, CleanInv, Finish
  PROVE  CleanInv'
<1>1. pc = "promote" /\ pc' = "done" /\ ToMove = {} /\ UNCHANGED <<archive, tree, made, stale>>
  BY DEF Finish
<1>2. ASSUME NEW x \in made
      PROVE  InPlace(x.name)
  <2>1. CASE stage[x.name] = None
    BY <1>1, <2>1 DEF CleanInv, PlaceInv
  <2>2. CASE stage[x.name] # None
    <3>1. x.name \in Staged
      BY <2>2 DEF UnpackInv, StageInv, Staged
    <3> QED  BY <1>1, <3>1, FirstToMove DEF CleanInv, Entered, InPlace
  <2> QED  BY <2>1, <2>2
<1> QED  BY <1>1, <1>2 DEF CleanInv, CourseInv, ShapeInv, PlaceInv, InPlace, Unpacking

LEMMA NewStageCleans ==
  ASSUME UnpackInv, CleanInv, NewStage
  PROVE  CleanInv'
<1>1. /\ pc' = "extract" /\ stale' = 0 /\ stage' = Bare /\ links' = <<>> /\ next' = 1
      /\ UNCHANGED <<archive, made>>
  BY DEF NewStage, Sweep
<1>2. Course(archive, <<Bare>>, <<<<>>>>, 1)
  BY DEF Course
<1>3. CourseInv'
  BY <1>1, <1>2 DEF CleanInv, CourseInv
<1>4. ShapeInv' /\ PlaceInv'
  BY <1>1 DEF CleanInv, ShapeInv, PlaceInv, Staged, Bare, Unpacking
<1> QED  BY <1>3, <1>4 DEF CleanInv

LEMMA OthersClean ==
  ASSUME UnpackInv, CleanInv,
         Fetch \/ Fetched \/ Received \/ Breaks \/ Leave \/ Fail \/ Killed \/ UNCHANGED unpackVars
  PROVE  CleanInv'
<1>1. CASE UNCHANGED unpackVars
  BY <1>1 DEF CleanInv, CourseInv, ShapeInv, PlaceInv, Staged, Entered, InPlace, Unpacking,
              IsPreserved, Above, unpackVars, stageVars
<1>2. CASE Fetch \/ Fetched \/ Received \/ Breaks \/ Leave \/ Fail \/ Killed
  <2>1. UNCHANGED <<archive, made>> /\ pc' \notin Unpacking \cup {"done"}
        /\ (pc' = "broken" => pc = "extract" /\ UNCHANGED stale)
    BY <1>2 DEF Fetch, Fetched, Received, Breaks, Leave, Fail, Killed, Unpacking, stageVars
  <2> QED  BY <2>1 DEF CleanInv, CourseInv, ShapeInv, PlaceInv, Unpacking
<1> QED  BY <1>1, <1>2

(* UnpacksCleanly: after an attempt that succeeded all that any attempt    *)
(* had unpacked of the tarball is in place, and no stage is left, however  *)
(* many attempts were killed or failed at whatever step before.            *)
THEOREM TarballsComeWhole == UnpackSpec => []UnpacksCleanly
<1>1. UnpackInit => UnpackInv /\ CleanInv
  <2> SUFFICES ASSUME UnpackInit PROVE UnpackInv /\ CleanInv
    OBVIOUS
  <2>1. UnpackInv
    BY UnpackStarts
  <2>2. CleanInv
    BY DEF UnpackInit, CleanInv, CourseInv, ShapeInv, PlaceInv, Unpacking
  <2> QED  BY <2>1, <2>2
<1>2. UnpackInv /\ CleanInv /\ [UnpackNext]_unpackVars => UnpackInv' /\ CleanInv'
  BY UnpackGoesOn, ExtractCleans, ExtractedCleans, MoveCleans, RemoveCleans, MoveAfterRemoveCleans,
     FinishCleans, NewStageCleans, OthersClean DEF UnpackNext
<1>3. UnpackInv /\ CleanInv => UnpacksCleanly
  BY DEF CleanInv, PlaceInv, InPlace, UnpacksCleanly
<1> QED  BY <1>1, <1>2, <1>3, PTL DEF UnpackSpec

-----------------------------------------------------------------------------
(* What a change makes of a file, and the diff of it (ConfigText).         *)

(* A set of numbers without 0 is empty if no number is its first.          *)
LEMMA NoFirstException ==
  ASSUME NEW n \in Nat, NEW B, B \subseteq 0 .. n, 0 \notin B,
         \A k \in 0 .. n : k # 0 /\ k - 1 \notin B => k \notin B
  PROVE  B = {}
<1> SUFFICES ASSUME B # {} PROVE FALSE
  OBVIOUS
<1>1. PICK k \in B : \A j \in B : k <= j
  <2>1. B \subseteq Nat
    OBVIOUS
  <2> QED  BY <2>1, LeastNumber
<1>2. k \in 0 .. n /\ k # 0
  BY <1>1
<1>3. k - 1 \notin B
  BY <1>1, <1>2
<1> QED  BY <1>1, <1>2, <1>3

(* A function is defined by where it starts and how it goes on.            *)
Goes(S, l, a, step, g) ==
  /\ g \in [0 .. l -> S]
  /\ g[0] = a /\ \A i \in 1 .. l : g[i] = step[<<g[i - 1], i>>]

(* Such a function is the one that is written recursively.                 *)
LEMMA Recursion ==
  ASSUME NEW S, NEW l \in Nat, NEW a \in S, NEW step \in [S \X (1 .. l) -> S]
  PROVE  \E g : Goes(S, l, a, step, g)
<1> DEFINE B == {n \in 0 .. l : ~ \E g : Goes(S, n, a, step, g)}
<1>1. 0 \notin B
  <2> DEFINE g == [i \in 0 .. 0 |-> a]
  <2>1. Goes(S, 0, a, step, g)
    BY DEF Goes
  <2> QED  BY <2>1
<1>2. ASSUME NEW n \in 0 .. l, n # 0, n - 1 \notin B PROVE n \notin B
  <2>1. PICK g : Goes(S, n - 1, a, step, g)
    BY <1>2
  <2> DEFINE h == [i \in 0 .. n |-> IF i = n THEN step[<<g[n - 1], n>>] ELSE g[i]]
  <2>2. step[<<g[n - 1], n>>] \in S
    BY <1>2, <2>1 DEF Goes
  <2>3. h \in [0 .. n -> S]
    BY <1>2, <2>1, <2>2 DEF Goes
  <2>4. h[0] = a /\ h[n] = step[<<g[n - 1], n>>]
    BY <1>2, <2>1 DEF Goes
  <2>5. \A i \in 0 .. n - 1 : h[i] = g[i]
    BY <1>2
  <2> HIDE DEF h
  <2>6. ASSUME NEW i \in 1 .. n  PROVE h[i] = step[<<h[i - 1], i>>]
    <3>1. h[i - 1] = g[i - 1]
      BY <1>2, <2>5
    <3>2. CASE i = n
      BY <2>4, <3>1, <3>2
    <3>3. CASE i # n
      <4>1. i \in 1 .. n - 1
        BY <1>2, <3>3
      <4>2. h[i] = g[i] /\ g[i] = step[<<g[i - 1], i>>]
        BY <2>1, <2>5, <4>1 DEF Goes
      <4> QED  BY <3>1, <4>2
    <3> QED  BY <3>2, <3>3
  <2>7. Goes(S, n, a, step, h)
    BY <2>3, <2>4, <2>6 DEF Goes
  <2> QED  BY <2>7
<1> HIDE DEF B
<1>3. B = {}
  <2>1. B \subseteq 0 .. l
    BY DEF B
  <2> QED  BY <1>1, <1>2, <2>1, NoFirstException
<1> QED  BY <1>3 DEF B

(* Two functions are the same that start alike and go on alike.            *)
LEMMA SameCourse ==
  ASSUME NEW l \in Nat, NEW s, NEW g, DOMAIN s = 0 .. l, DOMAIN g = 0 .. l,
         s = [k \in DOMAIN s |-> s[k]], g = [k \in DOMAIN g |-> g[k]], s[0] = g[0],
         \A k \in 1 .. l : s[k - 1] = g[k - 1] => s[k] = g[k]
  PROVE  s = g
<1> DEFINE B == {k \in 0 .. l : s[k] # g[k]}
<1>1. B \subseteq 0 .. l /\ 0 \notin B
  OBVIOUS
<1>2. \A k \in 0 .. l : k # 0 /\ k - 1 \notin B => k \notin B
  <2>1. ASSUME NEW k \in 0 .. l, k # 0, k - 1 \notin B  PROVE k \notin B
    <3>1. k \in 1 .. l /\ k - 1 \in 0 .. l
      BY <2>1
    <3> QED  BY <2>1, <3>1
  <2> QED  BY <2>1
<1>3. B = {}
  <2> HIDE DEF B
  <2> QED  BY <1>1, <1>2, NoFirstException
<1>4. \A k \in 0 .. l : s[k] = g[k]
  BY <1>3
<1> QED  BY <1>4

-----------------------------------------------------------------------------
Entries == [key : ToSet(FormKeys) \cup Unknown, val : Vals]
Plain(l) == [key |-> l.key, val |-> l.val]

(* What the lines with a key in S say, one line more at a time.            *)
Says(f, S, g) ==
  /\ g \in [0 .. Len(f) -> Seq(Entries)] /\ g[0] = <<>>
  /\ \A i \in 1 .. Len(f) :
       g[i] = IF f[i].key \in S THEN Append(g[i - 1], Plain(f[i])) ELSE g[i - 1]

LEMMA OfSays ==
  ASSUME NEW f \in Seq(FileLine), NEW S
  PROVE  \E g : Says(f, S, g) /\ Of(f, S) = g[Len(f)]
<1> DEFINE n == Len(f)
           Q == Seq(Entries)
           step == [p \in Q \X (1 .. n) |->
                      IF f[p[2]].key \in S THEN Append(p[1], Plain(f[p[2]])) ELSE p[1]]
<1>0. n \in Nat /\ <<>> \in Q
  BY LenProperties, EmptySeq
<1>1. step \in [Q \X (1 .. n) -> Q]
  <2>1. ASSUME NEW i \in 1 .. n  PROVE Plain(f[i]) \in Entries
    <3>1. f[i] \in FileLine
      BY ElementOfSeq
    <3> QED  BY <3>1 DEF FileLine, Plain, Entries
  <2>2. \A s \in Q, i \in 1 .. n : Append(s, Plain(f[i])) \in Q
    BY <2>1, AppendProperties
  <2> QED  BY <2>2
<1>2. PICK g : Goes(Q, n, <<>>, step, g)
  <2> HIDE DEF Q, step, n
  <2> QED  BY <1>0, <1>1, Recursion
<1>3. Says(f, S, g)
  <2>1. ASSUME NEW i \in 1 .. n
        PROVE  g[i] = IF f[i].key \in S THEN Append(g[i - 1], Plain(f[i])) ELSE g[i - 1]
    <3>1. g[i - 1] \in Q
      BY <1>0, <1>2 DEF Goes
    <3>2. step[<<g[i - 1], i>>] = IF f[i].key \in S THEN Append(g[i - 1], Plain(f[i])) ELSE g[i - 1]
      BY <3>1
    <3> QED  BY <1>2, <3>2 DEF Goes
  <2> QED  BY <1>2, <2>1 DEF Says, Goes
<1> DEFINE Def(u) == [k \in 0 .. Len(f) |->
                        IF k = 0 THEN <<>>
                        ELSE IF f[k].key \in S
                        THEN Append(u[k - 1], [key |-> f[k].key, val |-> f[k].val]) ELSE u[k - 1]]
           s == CHOOSE u : u = Def(u)
<1>4. g = Def(g)
  <2>1. ASSUME NEW k \in 0 .. Len(f)  PROVE g[k] = Def(g)[k]
    <3>1. CASE k = 0
      BY <1>2, <3>1 DEF Goes
    <3>2. CASE k # 0
      <4>1. k \in 1 .. Len(f)
        BY <1>0, <3>2
      <4> QED  BY <1>3, <3>2, <4>1 DEF Says, Plain
    <3> QED  BY <3>1, <3>2
  <2> QED  BY <1>2, <2>1 DEF Goes
<1>5. Of(f, S) = s[Len(f)]
  BY DEF Of
<1>6. s = Def(s)
  <2> HIDE DEF Def
  <2> QED  BY <1>4
<1> HIDE DEF s, step
<1>7. s = g
  <2>1. DOMAIN s = 0 .. n /\ s = [k \in DOMAIN s |-> s[k]] /\ s[0] = g[0]
    BY <1>0, <1>2, <1>6 DEF Goes
  <2>2. DOMAIN g = 0 .. n /\ g = [k \in DOMAIN g |-> g[k]]
    BY <1>2 DEF Goes
  <2>3. ASSUME NEW k \in 1 .. n, s[k - 1] = g[k - 1]  PROVE s[k] = g[k]
    <3>1. s[k] = Def(s)[k] /\ g[k] = Def(g)[k]
      BY <1>4, <1>6
    <3> QED  BY <2>3, <3>1
  <2> HIDE DEF Def, n
  <2> QED  BY <1>0, <2>1, <2>2, <2>3, SameCourse
<1> QED  BY <1>3, <1>5, <1>7

(* What Of returns.                                                        *)
LEMMA OfIs ==
  ASSUME NEW f \in Seq(FileLine), NEW S, NEW g, Says(f, S, g)
  PROVE  Of(f, S) = g[Len(f)] /\ Of(f, S) \in Seq(Entries)
<1>1. PICK h : Says(f, S, h) /\ Of(f, S) = h[Len(f)]
  BY OfSays
<1>2. Len(f) \in Nat
  BY LenProperties
<1>3. h = g
  <2>1. DOMAIN h = 0 .. Len(f) /\ DOMAIN g = 0 .. Len(f) /\ h[0] = g[0]
        /\ h = [k \in DOMAIN h |-> h[k]] /\ g = [k \in DOMAIN g |-> g[k]]
    BY <1>1 DEF Says
  <2>2. \A k \in 1 .. Len(f) : h[k - 1] = g[k - 1] => h[k] = g[k]
    BY <1>1 DEF Says
  <2> QED  BY <1>2, <2>1, <2>2, SameCourse
<1> QED  BY <1>1, <1>2, <1>3 DEF Says

LEMMA OfAppend ==
  ASSUME NEW f \in Seq(FileLine), NEW x \in FileLine, NEW S
  PROVE  Of(Append(f, x), S) = IF x.key \in S THEN Append(Of(f, S), Plain(x)) ELSE Of(f, S)
<1> DEFINE n == Len(f)
           e == Append(f, x)
<1>1. n \in Nat /\ e \in Seq(FileLine) /\ Len(e) = n + 1 /\ e[n + 1] = x
      /\ \A i \in 1 .. n : e[i] = f[i]
  BY LenProperties, AppendProperties
<1>2. PICK g : Says(f, S, g) /\ Of(f, S) = g[n]
  BY OfSays
<1> DEFINE last == IF x.key \in S THEN Append(g[n], Plain(x)) ELSE g[n]
           h == [k \in 0 .. n + 1 |-> IF k = n + 1 THEN last ELSE g[k]]
<1>3. last \in Seq(Entries)
  <2>1. g[n] \in Seq(Entries)
    BY <1>1, <1>2 DEF Says
  <2>2. Plain(x) \in Entries
    BY DEF Plain, Entries, FileLine
  <2> QED  BY <2>1, <2>2, AppendProperties
<1> HIDE DEF n, e, last
<1>4. h \in [0 .. n + 1 -> Seq(Entries)] /\ h[0] = <<>> /\ h[n + 1] = last
      /\ \A k \in 0 .. n : h[k] = g[k]
  <2>1. g \in [0 .. n -> Seq(Entries)] /\ g[0] = <<>>
    BY <1>2 DEF Says, n
  <2>2. 0 # n + 1 /\ 0 \in 0 .. n + 1 /\ n + 1 \in 0 .. n + 1
    BY <1>1
  <2>3. \A k \in 0 .. n : k # n + 1 /\ k \in 0 .. n + 1
    BY <1>1
  <2>4. \A k \in 0 .. n + 1 : k = n + 1 \/ k \in 0 .. n
    BY <1>1
  <2> QED  BY <1>3, <2>1, <2>2, <2>3, <2>4
<1> HIDE DEF h
<1>5. Says(e, S, h)
  <2>1. ASSUME NEW i \in 1 .. n + 1
        PROVE  h[i] = IF e[i].key \in S THEN Append(h[i - 1], Plain(e[i])) ELSE h[i - 1]
    <3>1. CASE i = n + 1
      <4>1. h[i - 1] = g[n]
        BY <1>1, <1>4, <3>1
      <4> QED  BY <1>1, <1>4, <3>1, <4>1 DEF last
    <3>2. CASE i # n + 1
      <4>1. i \in 1 .. n /\ i - 1 \in 0 .. n /\ i \in 0 .. n
        BY <1>1, <3>2
      <4>2. g[i] = IF f[i].key \in S THEN Append(g[i - 1], Plain(f[i])) ELSE g[i - 1]
        BY <1>2, <4>1 DEF Says, n
      <4> QED  BY <1>1, <1>4, <4>1, <4>2
    <3> QED  BY <3>1, <3>2
  <2> QED  BY <1>1, <1>4, <2>1 DEF Says
<1>6. Of(e, S) = h[n + 1]
  BY <1>1, <1>5, OfIs
<1> QED  BY <1>2, <1>4, <1>6 DEF last, e, n

LEMMA OfEmpty ==
  ASSUME NEW S
  PROVE  Of(<<>>, S) = <<>>
<1>1. <<>> \in Seq(FileLine) /\ Len(<<>>) = 0
  BY EmptySeq
<1>2. PICK g : Says(<<>>, S, g) /\ Of(<<>>, S) = g[Len(<<>>)]
  BY <1>1, OfSays
<1> QED  BY <1>1, <1>2 DEF Says

LEMMA OfAlike ==
  ASSUME NEW f \in Seq(FileLine), NEW h \in Seq(FileLine), NEW S, Len(h) = Len(f),
         \A i \in 1 .. Len(f) : h[i].key = f[i].key /\ (f[i].key \in S => h[i].val = f[i].val)
  PROVE  Of(h, S) = Of(f, S)
<1>1. PICK g : Says(f, S, g) /\ Of(f, S) = g[Len(f)]
  BY OfSays
<1>2. Says(h, S, g)
  <2>1. ASSUME NEW i \in 1 .. Len(f)
        PROVE  g[i] = IF h[i].key \in S THEN Append(g[i - 1], Plain(h[i])) ELSE g[i - 1]
    <3>1. f[i].key \in S => Plain(h[i]) = Plain(f[i])
      BY DEF Plain
    <3> QED  BY <1>1, <3>1 DEF Says
  <2> QED  BY <1>1, <2>1 DEF Says
<1> QED  BY <1>1, <1>2, OfIs

LEMMA OfNone ==
  ASSUME NEW f \in Seq(FileLine), NEW S, \A i \in 1 .. Len(f) : f[i].key \notin S
  PROVE  Of(f, S) = <<>>
<1> DEFINE g == [k \in 0 .. Len(f) |-> <<>>]
<1>1. Len(f) \in Nat /\ <<>> \in Seq(Entries)
  BY LenProperties, EmptySeq
<1>2. Says(f, S, g)
  BY <1>1 DEF Says
<1>3. Of(f, S) = g[Len(f)]
  BY <1>2, OfIs
<1> QED  BY <1>1, <1>3

(* The first line with k.                                                  *)
LEMMA FirstIs ==
  ASSUME NEW f \in Seq(FileLine), NEW k, Index(f, k) # {}
  PROVE  /\ First(f, k) \in 1 .. Len(f) /\ f[First(f, k)].key = k
         /\ \A j \in 1 .. Len(f) : f[j].key = k => First(f, k) <= j
<1>1. DOMAIN f = 1 .. Len(f)
  BY LenProperties
<1>2. Index(f, k) \subseteq Nat
  BY <1>1 DEF Index
<1>3. \E i \in Index(f, k) : \A j \in Index(f, k) : i <= j
  BY <1>2, LeastNumber
<1>4. First(f, k) \in Index(f, k) /\ \A j \in Index(f, k) : First(f, k) <= j
  BY <1>3 DEF First
<1> QED  BY <1>1, <1>4 DEF Index

(* What Get returns is what the lines with the key say first.              *)
LEMMA GetOf ==
  ASSUME NEW f \in Seq(FileLine), NEW k
  PROVE  /\ Index(f, k) = {} <=> Of(f, {k}) = <<>>
         /\ Get(f, k) = IF Of(f, {k}) = <<>> THEN "" ELSE Of(f, {k})[1].val
<1>1. CASE Index(f, k) = {}
  <2>1. \A i \in 1 .. Len(f) : f[i].key \notin {k}
    BY <1>1, LenProperties DEF Index
  <2>2. Of(f, {k}) = <<>>
    BY <2>1, OfNone
  <2> QED  BY <1>1, <2>2 DEF Get
<1>2. CASE Index(f, k) # {}
  <2> DEFINE a == First(f, k)
             n == Len(f)
  <2>1. a \in 1 .. n /\ f[a].key = k /\ \A j \in 1 .. n : f[j].key = k => a <= j
    BY <1>2, FirstIs
  <2>2. n \in Nat
    BY LenProperties
  <2>3. PICK g : Says(f, {k}, g) /\ Of(f, {k}) = g[n]
    BY OfSays
  <2> HIDE DEF a, n
  <2>4. g \in [0 .. n -> Seq(Entries)] /\ g[0] = <<>>
        /\ \A i \in 1 .. n : g[i] = IF f[i].key = k THEN Append(g[i - 1], Plain(f[i])) ELSE g[i - 1]
    BY <2>3 DEF Says, n
  <2> DEFINE Good(j) == IF j < a THEN g[j] = <<>> ELSE g[j] # <<>> /\ g[j][1].val = f[a].val
             B == {j \in 0 .. n : ~ Good(j)}
  <2>5. 0 \notin B
    BY <2>1, <2>4
  <2>6. ASSUME NEW j \in 0 .. n, j # 0, j - 1 \notin B  PROVE j \notin B
    <3>1. j \in 1 .. n /\ j - 1 \in 0 .. n
      BY <2>2, <2>6
    <3>2. Good(j - 1)
      BY <2>6, <3>1
    <3>3. Plain(f[j]) \in Entries
      <4>1. f[j] \in FileLine
        BY <3>1, ElementOfSeq DEF n
      <4> QED  BY <4>1 DEF Plain, Entries, FileLine
    <3>4. g[j - 1] \in Seq(Entries)
      BY <2>4, <3>1
    <3>5. CASE f[j].key # k
      <4>1. j # a /\ g[j] = g[j - 1]
        BY <2>1, <2>4, <3>1, <3>5
      <4> QED  BY <2>1, <3>1, <3>2, <4>1
    <3>6. CASE f[j].key = k
      <4>1. a <= j /\ g[j] = Append(g[j - 1], Plain(f[j]))
        BY <2>1, <2>4, <3>1, <3>6
      <4>2. CASE j = a
        <5>1. g[j - 1] = <<>>
          BY <2>1, <3>1, <3>2, <4>2
        <5>2. g[j] = <<Plain(f[j])>>
          BY <4>1, <5>1
        <5> QED  BY <2>1, <4>2, <5>2 DEF Plain
      <4>3. CASE j # a
        <5>1. g[j - 1] # <<>> /\ g[j - 1][1].val = f[a].val
          BY <2>1, <3>1, <3>2, <4>1, <4>3
        <5>2. Len(g[j - 1]) \in Nat \ {0}
          BY <3>4, <5>1, EmptySeq
        <5>3. g[j] # <<>> /\ g[j][1] = g[j - 1][1]
          BY <3>3, <3>4, <4>1, <5>2, AppendProperties
        <5> QED  BY <2>1, <3>1, <4>1, <5>1, <5>3
      <4> QED  BY <4>2, <4>3
    <3> QED  BY <3>5, <3>6
  <2> HIDE DEF B
  <2>7. B = {}
    <3>1. B \subseteq 0 .. n
      BY DEF B
    <3> QED  BY <2>2, <2>5, <2>6, <3>1, NoFirstException
  <2>8. Good(n)
    BY <2>2, <2>7 DEF B
  <2>9. g[n] # <<>> /\ g[n][1].val = f[a].val
    BY <2>1, <2>2, <2>8
  <2> QED  BY <1>2, <2>3, <2>9 DEF Get, a
<1> QED  BY <1>1, <1>2

-----------------------------------------------------------------------------
(* The lines without those of k after the i-th, one line more at a time.   *)
Keeps(f, k, i, out) ==
  /\ out \in [0 .. Len(f) -> Seq(FileLine)] /\ out[0] = <<>>
  /\ \A n \in 1 .. Len(f) :
       out[n] = IF f[n].key = k /\ n > i THEN out[n - 1] ELSE Append(out[n - 1], f[n])

LEMMA WithoutKeeps ==
  ASSUME NEW f \in Seq(FileLine), NEW k, NEW i \in Nat
  PROVE  \E out : Keeps(f, k, i, out) /\ WithoutAfter(f, k, i) = out[Len(f)]
<1> DEFINE l == Len(f)
           Q == Seq(FileLine)
           step == [p \in Q \X (1 .. l) |->
                      IF f[p[2]].key = k /\ p[2] > i THEN p[1] ELSE Append(p[1], f[p[2]])]
<1>0. l \in Nat /\ <<>> \in Q
  BY LenProperties, EmptySeq
<1>1. step \in [Q \X (1 .. l) -> Q]
  <2>1. \A n \in 1 .. l : f[n] \in FileLine
    BY ElementOfSeq
  <2>2. \A s \in Q, n \in 1 .. l : Append(s, f[n]) \in Q
    BY <2>1, AppendProperties
  <2> QED  BY <2>2
<1>2. PICK g : Goes(Q, l, <<>>, step, g)
  <2> HIDE DEF Q, step, l
  <2> QED  BY <1>0, <1>1, Recursion
<1>3. Keeps(f, k, i, g)
  <2>1. ASSUME NEW n \in 1 .. l
        PROVE  g[n] = IF f[n].key = k /\ n > i THEN g[n - 1] ELSE Append(g[n - 1], f[n])
    <3>1. g[n - 1] \in Q
      BY <1>0, <1>2 DEF Goes
    <3>2. step[<<g[n - 1], n>>]
            = IF f[n].key = k /\ n > i THEN g[n - 1] ELSE Append(g[n - 1], f[n])
      BY <3>1
    <3> QED  BY <1>2, <3>2 DEF Goes
  <2> QED  BY <1>2, <2>1 DEF Keeps, Goes
<1> DEFINE Def(u) == [n \in 0 .. Len(f) |->
                        IF n = 0 THEN <<>>
                        ELSE IF f[n].key = k /\ n > i THEN u[n - 1] ELSE Append(u[n - 1], f[n])]
           s == CHOOSE u : u = Def(u)
<1>4. g = Def(g)
  <2>1. ASSUME NEW n \in 0 .. Len(f)  PROVE g[n] = Def(g)[n]
    <3>1. CASE n = 0
      BY <1>2, <3>1 DEF Goes
    <3>2. CASE n # 0
      <4>1. n \in 1 .. Len(f)
        BY <1>0, <3>2
      <4> QED  BY <1>3, <3>2, <4>1 DEF Keeps
    <3> QED  BY <3>1, <3>2
  <2> QED  BY <1>2, <2>1 DEF Goes
<1>5. WithoutAfter(f, k, i) = s[Len(f)]
  BY DEF WithoutAfter
<1>6. s = Def(s)
  <2> HIDE DEF Def
  <2> QED  BY <1>4
<1> HIDE DEF s, step
<1>7. s = g
  <2>1. DOMAIN s = 0 .. l /\ s = [n \in DOMAIN s |-> s[n]] /\ s[0] = g[0]
    BY <1>0, <1>2, <1>6 DEF Goes
  <2>2. DOMAIN g = 0 .. l /\ g = [n \in DOMAIN g |-> g[n]]
    BY <1>2 DEF Goes
  <2>3. ASSUME NEW n \in 1 .. l, s[n - 1] = g[n - 1]  PROVE s[n] = g[n]
    <3>1. s[n] = Def(s)[n] /\ g[n] = Def(g)[n]
      BY <1>4, <1>6
    <3> QED  BY <2>3, <3>1
  <2> HIDE DEF Def, l
  <2> QED  BY <1>0, <2>1, <2>2, <2>3, SameCourse
<1> QED  BY <1>3, <1>5, <1>7

(* Every line that is left is one of the file.                             *)
AmongFirst(f, n, s) == \A j \in 1 .. Len(s) : \E m \in 1 .. n : s[j] = f[m]

LEMMA KeptLines ==
  ASSUME NEW f \in Seq(FileLine), NEW k, NEW i \in Nat, NEW out, Keeps(f, k, i, out),
         NEW n \in 0 .. Len(f)
  PROVE  AmongFirst(f, n, out[n])
<1> DEFINE l == Len(f)
           Good(x) == \A j \in 1 .. Len(out[x]) : \E m \in 1 .. x : out[x][j] = f[m]
           B == {x \in 0 .. l : ~ Good(x)}
<1>1. l \in Nat
  BY LenProperties
<1> HIDE DEF l
<1>2. 0 \notin B
  BY <1>1, EmptySeq DEF Keeps, l
<1>3. ASSUME NEW x \in 0 .. l, x # 0, x - 1 \notin B  PROVE x \notin B
  <2>1. x \in 1 .. l /\ x - 1 \in 0 .. l
    BY <1>1, <1>3
  <2>2. Good(x - 1)
    BY <1>3, <2>1
  <2>3. f[x] \in FileLine /\ out[x - 1] \in Seq(FileLine)
    BY <2>1, ElementOfSeq DEF Keeps, l
  <2>4. out[x] = out[x - 1] \/ out[x] = Append(out[x - 1], f[x])
    BY <2>1 DEF Keeps, l
  <2>5. CASE out[x] = out[x - 1]
    <3>1. ASSUME NEW j \in 1 .. Len(out[x])  PROVE \E m \in 1 .. x : out[x][j] = f[m]
      <4>1. PICK m \in 1 .. x - 1 : out[x - 1][j] = f[m]
        BY <2>2, <2>5
      <4>2. m \in 1 .. x
        BY <2>1
      <4> QED  BY <2>5, <4>1, <4>2
    <3> QED  BY <3>1
  <2>6. CASE out[x] = Append(out[x - 1], f[x])
    <3>1. ASSUME NEW j \in 1 .. Len(out[x])  PROVE \E m \in 1 .. x : out[x][j] = f[m]
      <4>1. Len(out[x - 1]) \in Nat /\ Len(out[x]) = Len(out[x - 1]) + 1
        BY <2>3, <2>6, AppendProperties, LenProperties
      <4>2. CASE j = Len(out[x])
        <5>1. out[x][j] = f[x] /\ x \in 1 .. x
          BY <2>1, <2>3, <2>6, <4>1, <4>2, AppendProperties
        <5> QED  BY <5>1
      <4>3. CASE j # Len(out[x])
        <5>1. j \in 1 .. Len(out[x - 1])
          BY <4>1, <4>3
        <5>2. out[x][j] = out[x - 1][j]
          BY <2>3, <2>6, <5>1, AppendProperties
        <5>3. PICK m \in 1 .. x - 1 : out[x - 1][j] = f[m]
          BY <2>2, <5>1
        <5>4. m \in 1 .. x
          BY <2>1
        <5> QED  BY <5>2, <5>3, <5>4
      <4> QED  BY <4>2, <4>3
    <3> QED  BY <3>1
  <2> QED  BY <2>4, <2>5, <2>6
<1> HIDE DEF B
<1>4. B = {}
  <2>1. B \subseteq 0 .. l
    BY DEF B
  <2> QED  BY <1>1, <1>2, <1>3, <2>1, NoFirstException
<1>5. Good(n)
  BY <1>4 DEF B, l
<1> QED  BY <1>5 DEF AmongFirst

(* Lines do not run together when others are left out.                     *)
LEMMA WithoutLines ==
  ASSUME NEW f \in Seq(FileLine), NEW k, NEW i \in Nat
  PROVE  LET out == WithoutAfter(f, k, i)
         IN  /\ out \in Seq(FileLine)
             /\ \A j \in 1 .. Len(out) : \E m \in 1 .. Len(f) : out[j] = f[m]
             /\ Parsed(f) => Parsed(out)
<1>1. PICK g : Keeps(f, k, i, g) /\ WithoutAfter(f, k, i) = g[Len(f)]
  BY WithoutKeeps
<1> DEFINE l == Len(f)
           out == WithoutAfter(f, k, i)
<1>2. l \in Nat
  BY LenProperties
<1>3. out \in Seq(FileLine) /\ out = g[l]
  BY <1>1, <1>2 DEF Keeps
<1>4. \A j \in 1 .. Len(out) : \E m \in 1 .. l : out[j] = f[m]
  <2>1. l \in 0 .. l
    BY <1>2
  <2>2. AmongFirst(f, l, g[l])
    <3> HIDE DEF out
    <3> QED  BY <1>1, <2>1, KeptLines
  <2> QED  BY <1>3, <2>2 DEF AmongFirst
<1> HIDE DEF l, out
<1>5. ASSUME Parsed(f), NEW j \in 1 .. Len(out) - 1  PROVE out[j].eol # ""
  <2>1. Len(out) \in Nat
    BY <1>3, LenProperties
  <2>2. l # 0
    <3>1. CASE l = 0
      <4>1. out = <<>>
        BY <1>1, <1>3, <3>1 DEF Keeps
      <4> QED  BY <4>1, EmptySeq
    <3> QED  BY <3>1
  <2>3. l - 1 \in 0 .. l /\ l \in 1 .. l
    BY <1>2, <2>2
  <2>4. g[l - 1] \in Seq(FileLine) /\ f[l] \in FileLine
    BY <1>1, <2>3, ElementOfSeq DEF Keeps, l
  <2>5. j \in 1 .. Len(g[l - 1]) /\ out[j] = g[l - 1][j]
    <3>1. out = g[l - 1] \/ out = Append(g[l - 1], f[l])
      BY <1>1, <1>3, <2>3 DEF Keeps, l
    <3>2. CASE out = g[l - 1]
      BY <2>1, <3>2
    <3>3. CASE out = Append(g[l - 1], f[l])
      <4>1. Len(out) = Len(g[l - 1]) + 1 /\ Len(g[l - 1]) \in Nat
        BY <2>4, <3>3, AppendProperties, LenProperties
      <4>2. j \in 1 .. Len(g[l - 1])
        BY <4>1
      <4> QED  BY <2>4, <3>3, <4>2, AppendProperties
    <3> QED  BY <3>1, <3>2, <3>3
  <2>6. PICK m \in 1 .. l - 1 : g[l - 1][j] = f[m]
    <3>1. AmongFirst(f, l - 1, g[l - 1])
      <4>1. l - 1 \in 0 .. Len(f)
        BY <2>3 DEF l
      <4> QED  BY <1>1, <4>1, KeptLines
    <3> QED  BY <2>5, <3>1 DEF AmongFirst
  <2> QED  BY <1>5, <2>5, <2>6 DEF Parsed, l
<1> QED  BY <1>3, <1>4, <1>5 DEF Parsed, l, out

(* Leaving lines of k out leaves what the other keys say.                  *)
LEMMA WithoutOthers ==
  ASSUME NEW f \in Seq(FileLine), NEW k, NEW i \in Nat, NEW S, k \notin S
  PROVE  Of(WithoutAfter(f, k, i), S) = Of(f, S)
<1>1. PICK out : Keeps(f, k, i, out) /\ WithoutAfter(f, k, i) = out[Len(f)]
  BY WithoutKeeps
<1>2. PICK g : Says(f, S, g) /\ Of(f, S) = g[Len(f)]
  BY OfSays
<1> DEFINE l == Len(f)
           B == {n \in 0 .. l : Of(out[n], S) # g[n]}
<1>3. l \in Nat
  BY LenProperties
<1> HIDE DEF l
<1>4. 0 \notin B
  BY <1>1, <1>2, OfEmpty DEF Keeps, Says
<1>5. ASSUME NEW n \in 0 .. l, n # 0, n - 1 \notin B  PROVE n \notin B
  <2>1. n \in 1 .. l /\ n - 1 \in 0 .. l
    BY <1>3, <1>5
  <2>2. Of(out[n - 1], S) = g[n - 1]
    BY <1>5, <2>1
  <2>3. f[n] \in FileLine /\ out[n - 1] \in Seq(FileLine)
    BY <1>1, <2>1, ElementOfSeq DEF Keeps, l
  <2>4. g[n] = IF f[n].key \in S THEN Append(g[n - 1], Plain(f[n])) ELSE g[n - 1]
    BY <1>2, <2>1 DEF Says, l
  <2>5. out[n] = IF f[n].key = k /\ n > i THEN out[n - 1] ELSE Append(out[n - 1], f[n])
    BY <1>1, <2>1 DEF Keeps, l
  <2>6. Of(out[n], S) = g[n]
    <3>1. CASE f[n].key = k /\ n > i
      BY <2>2, <2>4, <2>5, <3>1
    <3>2. CASE ~ (f[n].key = k /\ n > i)
      <4>1. out[n] = Append(out[n - 1], f[n])
        BY <2>5, <3>2
      <4>2. Of(Append(out[n - 1], f[n]), S)
              = IF f[n].key \in S THEN Append(Of(out[n - 1], S), Plain(f[n])) ELSE Of(out[n - 1], S)
        <5>1. ASSUME NEW p \in Seq(FileLine), NEW x \in FileLine
              PROVE  Of(Append(p, x), S) = IF x.key \in S THEN Append(Of(p, S), Plain(x)) ELSE Of(p, S)
          BY OfAppend
        <5> QED  BY <2>3, <5>1
      <4> QED  BY <2>2, <2>4, <4>1, <4>2
    <3> QED  BY <3>1, <3>2
  <2> QED  BY <2>6
<1> HIDE DEF B
<1>6. B = {}
  <2>1. B \subseteq 0 .. l
    BY DEF B
  <2> QED  BY <1>3, <1>4, <1>5, <2>1, NoFirstException
<1>7. Of(out[l], S) = g[l]
  BY <1>3, <1>6 DEF B
<1> QED  BY <1>1, <1>2, <1>7 DEF l

(* Of the lines with k the i-th is left, if any.                           *)
LEMMA WithoutThis ==
  ASSUME NEW f \in Seq(FileLine), NEW k, NEW i \in 0 .. Len(f),
         i # 0 => f[i].key = k, \A j \in 1 .. Len(f) : j < i => f[j].key # k
  PROVE  Of(WithoutAfter(f, k, i), {k}) = IF i = 0 THEN <<>> ELSE <<Plain(f[i])>>
<1>1. Len(f) \in Nat /\ i \in Nat
  BY LenProperties
<1>2. PICK out : Keeps(f, k, i, out) /\ WithoutAfter(f, k, i) = out[Len(f)]
  BY <1>1, WithoutKeeps
<1> DEFINE l == Len(f)
           Good(n) == Of(out[n], {k}) = IF i = 0 \/ n < i THEN <<>> ELSE <<Plain(f[i])>>
           B == {n \in 0 .. l : ~ Good(n)}
<1>3. l \in Nat /\ i \in 0 .. l
  BY <1>1
<1> HIDE DEF l
<1>4. 0 \notin B
  BY <1>1, <1>2, OfEmpty DEF Keeps
<1>5. ASSUME NEW n \in 0 .. l, n # 0, n - 1 \notin B  PROVE n \notin B
  <2>1. n \in 1 .. l /\ n - 1 \in 0 .. l
    BY <1>3, <1>5
  <2>2. Good(n - 1)
    BY <1>5, <2>1
  <2>3. f[n] \in FileLine /\ out[n - 1] \in Seq(FileLine)
    BY <1>2, <2>1, ElementOfSeq DEF Keeps, l
  <2>4. out[n] = IF f[n].key = k /\ n > i THEN out[n - 1] ELSE Append(out[n - 1], f[n])
    BY <1>2, <2>1 DEF Keeps, l
  <2>5. ASSUME ~ (f[n].key = k /\ n > i)
        PROVE  Of(out[n], {k}) = IF f[n].key = k THEN Append(Of(out[n - 1], {k}), Plain(f[n]))
                                 ELSE Of(out[n - 1], {k})
    <3>1. ASSUME NEW p \in Seq(FileLine), NEW x \in FileLine
          PROVE  Of(Append(p, x), {k})
                   = IF x.key \in {k} THEN Append(Of(p, {k}), Plain(x)) ELSE Of(p, {k})
      BY OfAppend
    <3>2. out[n] = Append(out[n - 1], f[n])
      BY <2>4, <2>5
    <3> QED  BY <2>3, <3>1, <3>2
  <2>6. CASE f[n].key = k /\ n > i
    <3>1. out[n] = out[n - 1]
      BY <2>4, <2>6
    <3>2. i = 0 \/ ~ (n - 1 < i)
      BY <1>1, <2>1, <2>6
    <3>3. i = 0 \/ ~ (n < i)
      BY <1>1, <2>1, <2>6
    <3> QED  BY <2>2, <3>1, <3>2, <3>3
  <2>7. CASE f[n].key # k
    <3>1. Of(out[n], {k}) = Of(out[n - 1], {k})
      BY <2>5, <2>7
    <3>2. n # i
      BY <2>1, <2>7
    <3>3. n < i <=> n - 1 < i
      BY <1>1, <2>1, <3>2
    <3> QED  BY <2>2, <3>1, <3>3
  <2>8. CASE f[n].key = k /\ ~ (n > i)
    <3>1. n = i
      BY <1>1, <2>1, <2>8 DEF l
    <3>2. Of(out[n - 1], {k}) = <<>>
      BY <1>1, <2>1, <2>2, <3>1
    <3>3. Of(out[n], {k}) = Append(<<>>, Plain(f[n]))
      BY <2>5, <2>8, <3>2
    <3>4. Of(out[n], {k}) = <<Plain(f[i])>> /\ i # 0 /\ ~ (n < i)
      BY <2>1, <3>1, <3>3
    <3> QED  BY <3>4
  <2> QED  BY <2>6, <2>7, <2>8
<1> HIDE DEF B
<1>6. B = {}
  <2>1. B \subseteq 0 .. l
    BY DEF B
  <2> QED  BY <1>3, <1>4, <1>5, <2>1, NoFirstException
<1>7. Good(l)
  <2>1. l \in 0 .. l /\ l \notin B
    BY <1>3, <1>6
  <2> HIDE DEF Good
  <2> QED  BY <2>1 DEF B
<1>8. ~ (l < i)
  BY <1>3
<1> QED  BY <1>2, <1>7, <1>8 DEF l

(* Without lines of k, leaving them out changes nothing.                   *)
LEMMA WithoutNone ==
  ASSUME NEW f \in Seq(FileLine), NEW k, Index(f, k) = {}
  PROVE  Without(f, k) = f
<1> DEFINE l == Len(f)
<1>1. l \in Nat /\ \A j \in 1 .. l : f[j].key # k
  BY LenProperties DEF Index
<1>2. PICK out : Keeps(f, k, 0, out) /\ WithoutAfter(f, k, 0) = out[l]
  BY WithoutKeeps
<1> HIDE DEF l
<1> DEFINE Good(n) == Len(out[n]) = n /\ \A j \in 1 .. n : out[n][j] = f[j]
           B == {n \in 0 .. l : ~ Good(n)}
<1>3. 0 \notin B
  BY <1>1, <1>2, EmptySeq DEF Keeps
<1>4. ASSUME NEW n \in 0 .. l, n # 0, n - 1 \notin B  PROVE n \notin B
  <2>1. n \in 1 .. l /\ n - 1 \in 0 .. l
    BY <1>1, <1>4
  <2>2. Good(n - 1)
    BY <1>4, <2>1
  <2>3. f[n] \in FileLine /\ out[n - 1] \in Seq(FileLine)
    BY <1>2, <2>1, ElementOfSeq DEF Keeps, l
  <2>4. out[n] = Append(out[n - 1], f[n])
    BY <1>1, <1>2, <2>1 DEF Keeps, l
  <2>5. Len(out[n]) = n /\ out[n][n] = f[n] /\ \A j \in 1 .. n - 1 : out[n][j] = out[n - 1][j]
    BY <2>1, <2>2, <2>3, <2>4, AppendProperties
  <2>6. \A j \in 1 .. n : j = n \/ j \in 1 .. n - 1
    BY <2>1
  <2>7. \A j \in 1 .. n : out[n][j] = f[j]
    BY <2>2, <2>5, <2>6
  <2> QED  BY <2>5, <2>7
<1> HIDE DEF B
<1>5. B = {}
  <2>1. B \subseteq 0 .. l
    BY DEF B
  <2> QED  BY <1>1, <1>3, <1>4, <2>1, NoFirstException
<1>6. Good(l)
  BY <1>1, <1>5 DEF B
<1>7. out[l] \in Seq(FileLine)
  BY <1>1, <1>2 DEF Keeps, l
<1> QED  BY <1>2, <1>6, <1>7, SeqEqual DEF Without, l

-----------------------------------------------------------------------------
(* One field. *)

(* A file that differs only in what the lines with k say.                  *)
DiffersIn(f, h, k) ==
  /\ h \in Seq(FileLine)
  /\ Of(h, Unknown) = Of(f, Unknown)
  /\ \A c \in ToSet(FormKeys) : c # k => Of(h, {c}) = Of(f, {c})

(* It ends as the file did.                                                *)
EndsAs(f, h) ==
  /\ f = <<>> => h = <<>>
  /\ f # <<>> /\ h # <<>> => (Last(h).eol = "" <=> Last(f).eol = "")

(* Three ways to differ in k only: as many lines as before, ...            *)
LEMMA AlikeDiffers ==
  ASSUME NEW f \in Seq(FileLine), NEW h \in Seq(FileLine), NEW k \in ToSet(FormKeys),
         Len(h) = Len(f),
         \A i \in 1 .. Len(f) : h[i].key = f[i].key /\ (f[i].key # k => h[i].val = f[i].val)
  PROVE  DiffersIn(f, h, k)
<1>1. k \notin Unknown
  BY ConfigTextAssumption DEF Unknown
<1>2. Of(h, Unknown) = Of(f, Unknown)
  <2>1. \A i \in 1 .. Len(f) : h[i].key = f[i].key /\ (f[i].key \in Unknown => h[i].val = f[i].val)
    BY <1>1
  <2> QED  BY <2>1, OfAlike
<1>3. ASSUME NEW c \in ToSet(FormKeys), c # k  PROVE Of(h, {c}) = Of(f, {c})
  <2>1. \A i \in 1 .. Len(f) : h[i].key = f[i].key /\ (f[i].key \in {c} => h[i].val = f[i].val)
    BY <1>3
  <2> QED  BY <2>1, OfAlike
<1> QED  BY <1>2, <1>3 DEF DiffersIn

(* ... one with k more, ...                                                *)
LEMMA AppendDiffers ==
  ASSUME NEW f \in Seq(FileLine), NEW x \in FileLine, x.key \in ToSet(FormKeys)
  PROVE  /\ DiffersIn(f, Append(f, x), x.key)
         /\ Of(Append(f, x), {x.key}) = Append(Of(f, {x.key}), Plain(x))
<1>1. x.key \notin Unknown
  BY ConfigTextAssumption DEF Unknown
<1>2. Append(f, x) \in Seq(FileLine)
  BY AppendProperties
<1>3. ASSUME NEW S  PROVE Of(Append(f, x), S)
                            = IF x.key \in S THEN Append(Of(f, S), Plain(x)) ELSE Of(f, S)
  BY OfAppend
<1>4. Of(Append(f, x), Unknown) = Of(f, Unknown)
  BY <1>1, <1>3
<1>5. ASSUME NEW c \in ToSet(FormKeys), c # x.key  PROVE Of(Append(f, x), {c}) = Of(f, {c})
  <2>1. x.key \notin {c}
    BY <1>5
  <2> QED  BY <1>3, <2>1
<1>6. x.key \in {x.key}
  OBVIOUS
<1>7. Of(Append(f, x), {x.key}) = Append(Of(f, {x.key}), Plain(x))
  BY <1>3, <1>6
<1> QED  BY <1>2, <1>4, <1>5, <1>7 DEF DiffersIn

(* ... or some with k less.                                                *)
LEMMA WithoutDiffers ==
  ASSUME NEW f \in Seq(FileLine), NEW k \in ToSet(FormKeys), NEW i \in Nat
  PROVE  DiffersIn(f, WithoutAfter(f, k, i), k)
<1>1. k \notin Unknown
  BY ConfigTextAssumption DEF Unknown
<1>2. Of(WithoutAfter(f, k, i), Unknown) = Of(f, Unknown)
  BY <1>1, WithoutOthers
<1>3. ASSUME NEW c \in ToSet(FormKeys), c # k
      PROVE  Of(WithoutAfter(f, k, i), {c}) = Of(f, {c})
  <2>1. k \notin {c}
    BY <1>3
  <2> QED  BY <2>1, WithoutOthers
<1>4. WithoutAfter(f, k, i) \in Seq(FileLine)
  BY WithoutLines
<1> QED  BY <1>2, <1>3, <1>4 DEF DiffersIn

LEMMA DiffersTwice ==
  ASSUME NEW f, NEW g, NEW h, NEW k, DiffersIn(f, g, k), DiffersIn(g, h, k)
  PROVE  DiffersIn(f, h, k)
BY DEF DiffersIn

Ends == {"nl", "crlf"}

(* EolOf is an end.                                                        *)
LEMMA EolIs ==
  ASSUME NEW f \in Seq(FileLine)
  PROVE  EolOf(f) \in Ends
<1> DEFINE ended == {i \in DOMAIN f : f[i].eol # ""}
<1>1. DOMAIN f = 1 .. Len(f) /\ \A i \in 1 .. Len(f) : f[i].eol \in {""} \cup Ends
  <2>1. \A i \in 1 .. Len(f) : f[i] \in FileLine
    BY ElementOfSeq
  <2> QED  BY <2>1, LenProperties DEF FileLine, Ends
<1>2. CASE ended = {}
  BY <1>2 DEF EolOf, Ends
<1>3. CASE ended # {}
  <2> DEFINE a == CHOOSE i \in ended : \A j \in ended : i <= j
  <2>1. ended \subseteq Nat
    <3>1. 1 .. Len(f) \subseteq Nat
      BY LenProperties
    <3> QED  BY <1>1, <3>1
  <2>2. \E i \in ended : \A j \in ended : i <= j
    <3> HIDE DEF ended
    <3> QED  BY <1>3, <2>1, LeastNumber
  <2>3. a \in ended
    <3> HIDE DEF ended
    <3> QED  BY <2>2
  <2>4. EolOf(f) = f[a].eol
    BY <1>3 DEF EolOf
  <2> HIDE DEF a
  <2> QED  BY <1>1, <2>3, <2>4
<1> QED  BY <1>2, <1>3

(* A line with an end.                                                     *)
LEMMA EndedLine ==
  ASSUME NEW x \in FileLine, NEW e \in Ends
  PROVE  /\ [x EXCEPT !.eol = e] \in FileLine /\ [x EXCEPT !.eol = e].eol = e
         /\ [x EXCEPT !.eol = e].key = x.key /\ [x EXCEPT !.eol = e].val = x.val
<1>1. x = [key |-> x.key, val |-> x.val, eol |-> x.eol]
      /\ x.key \in ToSet(FormKeys) \cup Unknown /\ x.val \in Vals
  BY DEF FileLine
<1>2. [x EXCEPT !.eol = e] = [key |-> x.key, val |-> x.val, eol |-> e]
  BY <1>1
<1>3. e \in {"", "nl", "crlf"}
  BY DEF Ends
<1> QED  BY <1>1, <1>2, <1>3 DEF FileLine

(* The lines of the file, all of them ended.                               *)
LEMMA AllEnded ==
  ASSUME NEW f \in Seq(FileLine)
  PROVE  LET g == [i \in DOMAIN f |->
                     IF f[i].eol = "" THEN [f[i] EXCEPT !.eol = EolOf(f)] ELSE f[i]]
         IN  /\ g \in Seq(FileLine) /\ Len(g) = Len(f)
             /\ \A i \in 1 .. Len(f) : g[i].eol # "" /\ g[i].key = f[i].key /\ g[i].val = f[i].val
<1> DEFINE l == Len(f)
           g == [i \in DOMAIN f |-> IF f[i].eol = "" THEN [f[i] EXCEPT !.eol = EolOf(f)] ELSE f[i]]
<1>1. l \in Nat /\ DOMAIN f = 1 .. l /\ \A i \in 1 .. l : f[i] \in FileLine
  BY LenProperties, ElementOfSeq
<1>2. PICK e \in Ends : e = EolOf(f)
  BY EolIs
<1>3. ASSUME NEW i \in 1 .. l
      PROVE  g[i] \in FileLine /\ g[i].eol # "" /\ g[i].key = f[i].key /\ g[i].val = f[i].val
  <2>1. PICK x \in FileLine : x = f[i]
    BY <1>1
  <2>2. g[i] = IF x.eol = "" THEN [x EXCEPT !.eol = e] ELSE x
    BY <1>1, <1>2, <2>1
  <2>3. e # ""
    BY DEF Ends
  <2> HIDE DEF g
  <2>4. CASE x.eol = ""
    <3>1. PICK y : y = [x EXCEPT !.eol = e]
      OBVIOUS
    <3>2. y \in FileLine /\ y.eol = e /\ y.key = x.key /\ y.val = x.val
      BY <3>1, EndedLine
    <3>3. g[i] = y
      BY <2>2, <2>4, <3>1
    <3> QED  BY <2>1, <2>3, <3>2, <3>3
  <2>5. CASE x.eol # ""
    BY <2>1, <2>2, <2>5
  <2> QED  BY <2>4, <2>5
<1>4. g \in [1 .. l -> FileLine]
  <2>1. DOMAIN g = 1 .. l /\ g = [i \in 1 .. l |-> g[i]]
    BY <1>1
  <2> HIDE DEF g
  <2> QED  BY <1>3, <2>1
<1> HIDE DEF g, l
<1>5. g \in Seq(FileLine) /\ Len(g) = l
  BY <1>1, <1>4
<1> QED  BY <1>3, <1>5 DEF g, l

(* Setting a key the file does not have.                                   *)
LEMMA AppendLineSets ==
  ASSUME NEW f \in Seq(FileLine), NEW k \in ToSet(FormKeys), NEW v \in Vals, Index(f, k) = {}
  PROVE  LET h == AppendLine(f, k, v)
         IN  DiffersIn(f, h, k) /\ Parsed(h) /\ Get(h, k) = v
<1>1. Len(f) \in Nat
  BY LenProperties
<1>2. PICK g \in Seq(FileLine) :
         /\ g = [i \in DOMAIN f |-> IF f[i].eol = "" THEN [f[i] EXCEPT !.eol = EolOf(f)] ELSE f[i]]
         /\ Len(g) = Len(f)
         /\ \A i \in 1 .. Len(f) : g[i].eol # "" /\ g[i].key = f[i].key /\ g[i].val = f[i].val
  BY AllEnded
<1>3. PICK x \in FileLine : x = [key |-> k, val |-> v, eol |-> EolOf(f)]
  <2>1. EolOf(f) \in {"", "nl", "crlf"}
    BY EolIs DEF Ends
  <2> QED  BY <2>1 DEF FileLine
<1>4. x.key = k /\ Plain(x) = [key |-> k, val |-> v]
  BY <1>3 DEF Plain
<1>5. PICK h : h = Append(g, x) /\ h = AppendLine(f, k, v)
  BY <1>2, <1>3 DEF AppendLine
<1>6. DiffersIn(f, g, k)
  BY <1>2, AlikeDiffers
<1>7. DiffersIn(g, h, k) /\ Of(h, {k}) = Append(Of(g, {k}), Plain(x))
  BY <1>4, <1>5, AppendDiffers
<1>8. DiffersIn(f, h, k)
  BY <1>6, <1>7, DiffersTwice
<1>9. Of(h, {k}) = <<[key |-> k, val |-> v]>>
  <2>1. \A i \in 1 .. Len(f) : g[i].key = f[i].key /\ (f[i].key \in {k} => g[i].val = f[i].val)
    BY <1>2
  <2>2. Of(g, {k}) = Of(f, {k})
    BY <1>2, <2>1, OfAlike
  <2>3. Of(f, {k}) = <<>>
    BY GetOf
  <2> QED  BY <1>4, <1>7, <2>2, <2>3
<1>10. Get(h, k) = v
  <2>1. h \in Seq(FileLine)
    BY <1>8 DEF DiffersIn
  <2>2. PICK s : s = <<[key |-> k, val |-> v]>>
    OBVIOUS
  <2>3. s # <<>> /\ s[1].val = v
    BY <2>2
  <2> QED  BY <1>9, <2>1, <2>2, <2>3, GetOf
<1>11. Parsed(h)
  <2>1. Len(h) = Len(f) + 1 /\ \A i \in 1 .. Len(f) : h[i] = g[i]
    <3>1. Len(g) = Len(f)
      BY <1>2
    <3>2. Len(Append(g, x)) = Len(g) + 1 /\ \A i \in 1 .. Len(g) : Append(g, x)[i] = g[i]
      BY AppendProperties
    <3>3. h = Append(g, x)
      BY <1>5
    <3> QED  BY <3>1, <3>2, <3>3
  <2>2. \A i \in 1 .. Len(h) - 1 : i \in 1 .. Len(f)
    BY <1>1, <2>1
  <2> QED  BY <1>2, <2>1, <2>2 DEF Parsed
<1> QED  BY <1>5, <1>8, <1>10, <1>11

(* The first of the lines with k is set to v.                              *)
SetsFirst(f, h, k, v) ==
  /\ DiffersIn(f, h, k) /\ Len(h) = Len(f) /\ Get(h, k) = v
  /\ \A i \in 1 .. Len(f) : h[i].key = f[i].key /\ h[i].eol = f[i].eol
  /\ h[First(f, k)].val = v

LEMMA FirstSets ==
  ASSUME NEW f \in Seq(FileLine), NEW k \in ToSet(FormKeys), NEW v \in Vals, Index(f, k) # {}
  PROVE  SetsFirst(f, [f EXCEPT ![First(f, k)].val = v], k, v)
<1> DEFINE a == First(f, k)
           l == Len(f)
           h == [f EXCEPT ![First(f, k)].val = v]
<1>1. l \in Nat /\ DOMAIN f = 1 .. l /\ f = [i \in 1 .. l |-> f[i]]
      /\ \A i \in 1 .. l : f[i] \in FileLine
  BY LenProperties, ElementOfSeq
<1>2. a \in 1 .. l /\ f[a].key = k
  BY FirstIs
<1>3. h = [i \in 1 .. l |-> IF i = a THEN [f[a] EXCEPT !.val = v] ELSE f[i]]
  BY <1>1
<1> HIDE DEF h, a, l
<1>4. ASSUME NEW i \in 1 .. l
      PROVE  h[i] \in FileLine /\ h[i].key = f[i].key /\ h[i].eol = f[i].eol
             /\ h[i].val = IF i = a THEN v ELSE f[i].val
  <2>1. f[i] \in FileLine
    BY <1>1
  <2>2. CASE i = a
    <3>1. h[i] = [f[i] EXCEPT !.val = v]
      BY <1>3, <2>2
    <3> QED  BY <2>1, <2>2, <3>1 DEF FileLine
  <2>3. CASE i # a
    <3>1. h[i] = f[i]
      BY <1>3, <2>3
    <3> QED  BY <2>1, <2>3, <3>1
  <2> QED  BY <2>2, <2>3
<1>5. h \in [1 .. l -> FileLine]
  BY <1>3, <1>4
<1>6. h \in Seq(FileLine) /\ Len(h) = l
  BY <1>1, <1>5
<1>7. DiffersIn(f, h, k)
  <2>1. \A i \in 1 .. l : h[i].key = f[i].key /\ (f[i].key # k => h[i].val = f[i].val)
    BY <1>2, <1>4
  <2> QED  BY <1>6, <2>1, AlikeDiffers DEF l
<1>8. Get(h, k) = v
  <2>1. Index(h, k) = Index(f, k)
    <3>1. DOMAIN h = 1 .. l
      BY <1>5
    <3> QED  BY <1>1, <1>4, <3>1 DEF Index
  <2>2. First(h, k) = a
    BY <2>1 DEF First, a
  <2> QED  BY <1>2, <1>4, <2>1, <2>2 DEF Get
<1> QED  BY <1>2, <1>4, <1>6, <1>7, <1>8 DEF h, a, l, SetsFirst

LEMMA NotEmpty ==
  ASSUME NEW f \in Seq(FileLine)
  PROVE  /\ f = <<>> <=> Len(f) = 0
         /\ f # <<>> => Len(f) \in 1 .. Len(f) /\ Last(f) = f[Len(f)] /\ Last(f) \in FileLine
         /\ \A k : Index(f, k) # {} => f # <<>>
<1>1. Len(f) \in Nat /\ (f = <<>> <=> Len(f) = 0)
  BY LenProperties, EmptySeq
<1>2. ASSUME f # <<>>  PROVE Len(f) \in 1 .. Len(f) /\ Last(f) = f[Len(f)] /\ Last(f) \in FileLine
  <2>1. Len(f) \in 1 .. Len(f)
    BY <1>1, <1>2
  <2> QED  BY <2>1, ElementOfSeq DEF Last
<1>3. ASSUME NEW k, Index(f, k) # {}  PROVE f # <<>>
  <2>1. First(f, k) \in 1 .. Len(f)
    BY <1>3, FirstIs
  <2> QED  BY <1>1, <2>1
<1> QED  BY <1>1, <1>2, <1>3

LEMMA WithoutGone ==
  ASSUME NEW f \in Seq(FileLine), NEW k
  PROVE  Of(Without(f, k), {k}) = <<>>
<1>1. 0 \in 0 .. Len(f) /\ \A j \in 1 .. Len(f) : ~ (j < 0)
  BY LenProperties
<1>2. Of(WithoutAfter(f, k, 0), {k}) = IF 0 = 0 THEN <<>> ELSE <<Plain(f[0])>>
  <2>1. 0 # 0 => f[0].key = k
    OBVIOUS
  <2>2. \A j \in 1 .. Len(f) : j < 0 => f[j].key # k
    BY <1>1
  <2> QED  BY <1>1, <2>1, <2>2, WithoutThis
<1> QED  BY <1>2 DEF Without

(* The last line loses its end.                                            *)
LEMMA LastOpened ==
  ASSUME NEW f \in Seq(FileLine), f # <<>>, Parsed(f), NEW k \in ToSet(FormKeys)
  PROVE  LET h == [f EXCEPT ![Len(f)].eol = ""]
         IN  /\ DiffersIn(f, h, k) /\ Parsed(h) /\ Of(h, {k}) = Of(f, {k})
             /\ h # <<>> /\ Last(h).eol = ""
<1>1. PICK l \in Nat : l = Len(f) /\ l \in 1 .. l /\ f = [i \in 1 .. l |-> f[i]]
                       /\ \A i \in 1 .. l : f[i] \in FileLine
  BY LenProperties, NotEmpty, ElementOfSeq
<1>2. PICK x \in FileLine : x = f[l]
  BY <1>1
<1>3. PICK y : y = [x EXCEPT !.eol = ""]
  OBVIOUS
<1>4. y \in FileLine /\ y.key = x.key /\ y.val = x.val /\ y.eol = ""
  BY <1>3 DEF FileLine
<1>5. PICK h : h = [f EXCEPT ![l] = y]
  OBVIOUS
<1>6. h = [f EXCEPT ![Len(f)].eol = ""]
  BY <1>1, <1>2, <1>3, <1>5
<1>7. h \in [1 .. l -> FileLine] /\ h[l] = y /\ \A i \in 1 .. l : i # l => h[i] = f[i]
  BY <1>1, <1>4, <1>5
<1>8. h \in Seq(FileLine) /\ Len(h) = l
  BY <1>7
<1>9. \A i \in 1 .. Len(f) : h[i].key = f[i].key /\ h[i].val = f[i].val
  BY <1>1, <1>2, <1>4, <1>7
<1>10. DiffersIn(f, h, k)
  <2>1. Len(h) = Len(f) /\ h \in Seq(FileLine)
    BY <1>1, <1>8
  <2>2. \A i \in 1 .. Len(f) : h[i].key = f[i].key /\ (f[i].key # k => h[i].val = f[i].val)
    BY ONLY <1>9
  <2> QED  BY ONLY ConfigTextAssumption, f \in Seq(FileLine), k \in ToSet(FormKeys),
                   <2>1, <2>2, AlikeDiffers
<1>11. Of(h, {k}) = Of(f, {k})
  <2>1. Len(h) = Len(f) /\ h \in Seq(FileLine)
    BY <1>1, <1>8
  <2>2. \A i \in 1 .. Len(f) : h[i].key = f[i].key /\ (f[i].key \in {k} => h[i].val = f[i].val)
    BY ONLY <1>9
  <2> QED  BY ONLY f \in Seq(FileLine), <2>1, <2>2, OfAlike
<1>12. Parsed(h)
  <2>1. \A i \in 1 .. l - 1 : i \in 1 .. l /\ i # l
    BY <1>1
  <2> QED  BY <1>1, <1>7, <1>8, <2>1 DEF Parsed
<1>13. h # <<>> /\ Last(h).eol = ""
  <2>1. h # <<>>
    BY <1>1, <1>8, NotEmpty
  <2> QED  BY <1>4, <1>7, <1>8, <2>1 DEF Last
<1> QED  BY <1>6, <1>10, <1>11, <1>12, <1>13

(* Removing a key from .env.                                               *)
LEMMA EnvUnsetStep ==
  ASSUME NEW f \in Seq(FileLine), Parsed(f), NEW k \in ToSet(FormKeys)
  PROVE  LET h == EnvUnset(f, k)
         IN  DiffersIn(f, h, k) /\ Parsed(h) /\ Of(h, {k}) = <<>> /\ EndsAs(f, h)
<1>1. PICK out \in Seq(FileLine) :
         /\ out = Without(f, k) /\ Parsed(out)
         /\ \A j \in 1 .. Len(out) : \E m \in 1 .. Len(f) : out[j] = f[m]
  BY WithoutLines DEF Without
<1>2. DiffersIn(f, out, k) /\ Of(out, {k}) = <<>>
  BY <1>1, WithoutDiffers, WithoutGone DEF Without
<1>3. f = <<>> => out = <<>>
  <2>1. ASSUME f = <<>>, out # <<>>  PROVE FALSE
    <3>1. Len(out) \in 1 .. Len(out) /\ Len(f) = 0
      BY <2>1, NotEmpty
    <3>2. PICK m \in 1 .. Len(f) : out[Len(out)] = f[m]
      BY <1>1, <3>1
    <3> QED  BY <3>1, <3>2
  <2> QED  BY <2>1
<1>4. CASE Index(f, k) # {} /\ out # <<>> /\ Last(f).eol = ""
  <2>1. PICK h : h = [out EXCEPT ![Len(out)].eol = ""]
    OBVIOUS
  <2>2. EnvUnset(f, k) = h
    BY <1>1, <1>4, <2>1 DEF EnvUnset
  <2>3. /\ DiffersIn(out, h, k) /\ Parsed(h) /\ Of(h, {k}) = Of(out, {k})
        /\ h # <<>> /\ Last(h).eol = ""
    BY <1>1, <1>4, <2>1, LastOpened
  <2>4. DiffersIn(f, h, k)
    BY <1>2, <2>3, DiffersTwice
  <2>5. f # <<>>
    BY <1>4, NotEmpty
  <2> QED  BY <1>2, <1>4, <2>2, <2>3, <2>4, <2>5 DEF EndsAs
<1>5. CASE ~ (Index(f, k) # {} /\ out # <<>> /\ Last(f).eol = "")
  <2>1. EnvUnset(f, k) = out
    BY <1>1, <1>5 DEF EnvUnset
  <2>2. EndsAs(f, out)
    <3>1. CASE Index(f, k) = {}
      BY <1>1, <3>1, WithoutNone DEF EndsAs
    <3>2. CASE out = <<>>
      BY <3>2 DEF EndsAs
    <3>3. CASE out # <<>> /\ Last(f).eol # ""
      <4>1. f # <<>>
        BY <1>3, <3>3
      <4>2. Len(out) \in 1 .. Len(out) /\ Last(out) = out[Len(out)]
            /\ Len(f) \in 1 .. Len(f) /\ Last(f) = f[Len(f)]
        BY <3>3, <4>1, NotEmpty
      <4>3. PICK m \in 1 .. Len(f) : out[Len(out)] = f[m]
        BY <1>1, <4>2
      <4>4. f[m].eol # ""
        <5>1. Len(f) \in Nat
          BY LenProperties
        <5>2. m \in 1 .. Len(f) - 1 \/ m = Len(f)
          BY <4>3, <5>1
        <5> QED  BY <3>3, <4>2, <5>2 DEF Parsed
      <4> QED  BY <3>3, <4>1, <4>2, <4>3, <4>4 DEF EndsAs
    <3> QED  BY <1>5, <3>1, <3>2, <3>3
  <2> QED  BY <1>1, <1>2, <2>1, <2>2
<1> QED  BY <1>4, <1>5

(* Setting a key in .env.                                                  *)
LEMMA EnvSetStep ==
  ASSUME NEW f \in Seq(FileLine), Parsed(f), NEW k \in ToSet(FormKeys), NEW v \in Vals
  PROVE  LET h == EnvSet(f, k, v)
         IN  DiffersIn(f, h, k) /\ Parsed(h) /\ Get(h, k) = v /\ (Index(f, k) # {} => EndsAs(f, h))
<1>1. CASE Index(f, k) = {}
  BY <1>1, AppendLineSets DEF EnvSet
<1>2. CASE Index(f, k) # {}
  <2>1. PICK h : h = [f EXCEPT ![First(f, k)].val = v]
    OBVIOUS
  <2>2. EnvSet(f, k, v) = h
    BY <1>2, <2>1 DEF EnvSet
  <2>3. /\ DiffersIn(f, h, k) /\ Len(h) = Len(f) /\ Get(h, k) = v
        /\ \A i \in 1 .. Len(f) : h[i].key = f[i].key /\ h[i].eol = f[i].eol
    <3>1. SetsFirst(f, h, k, v)
      BY <1>2, <2>1, FirstSets
    <3> QED  BY <3>1 DEF SetsFirst
  <2>4. Parsed(h)
    <3>1. \A i \in 1 .. Len(f) - 1 : i \in 1 .. Len(f)
      BY LenProperties
    <3> QED  BY <2>3, <3>1 DEF Parsed
  <2>5. EndsAs(f, h)
    <3>1. f # <<>> /\ Len(f) \in 1 .. Len(f)
      BY <1>2, NotEmpty
    <3>2. Last(h).eol = Last(f).eol
      BY <2>3, <3>1 DEF Last
    <3> QED  BY <3>1, <3>2 DEF EndsAs
  <2> QED  BY <2>2, <2>3, <2>4, <2>5
<1> QED  BY <1>1, <1>2

(* What dropin.Parse returns: each line has a key and an end.              *)
Directives(f) == \A i \in DOMAIN f : HasKey(f, i) /\ f[i].eol = "nl"

LEMMA DirectivesParsed ==
  ASSUME NEW f \in Seq(FileLine), Directives(f)
  PROVE  Parsed(f)
<1>1. \A i \in 1 .. Len(f) - 1 : i \in DOMAIN f
  BY LenProperties
<1> QED  BY <1>1 DEF Directives, Parsed

LEMMA DirectivesAppend ==
  ASSUME NEW f \in Seq(FileLine), Directives(f), NEW x \in FileLine,
         x.key \notin Headings \cup {NoKey}, x.eol = "nl"
  PROVE  Append(f, x) \in Seq(FileLine) /\ Directives(Append(f, x))
<1>1. DOMAIN f = 1 .. Len(f) /\ Len(f) \in Nat
  BY LenProperties
<1>2. PICK h : h = Append(f, x)
  OBVIOUS
<1>3. h \in Seq(FileLine) /\ Len(h) = Len(f) + 1
      /\ h[Len(f) + 1] = x /\ \A i \in 1 .. Len(f) : h[i] = f[i]
  BY <1>2, AppendProperties
<1>4. DOMAIN h = 1 .. Len(f) + 1
  BY <1>3, LenProperties
<1>5. \A i \in 1 .. Len(f) + 1 : i = Len(f) + 1 \/ i \in 1 .. Len(f)
  BY <1>1
<1>6. Directives(h)
  BY <1>1, <1>3, <1>4, <1>5 DEF Directives, HasKey
<1> QED  BY <1>2, <1>3, <1>6

Ended(x) == [x EXCEPT !.eol = "nl"]

LEMMA EndedIs ==
  ASSUME NEW x \in FileLine
  PROVE  Ended(x) \in FileLine /\ Ended(x).key = x.key /\ Ended(x).eol = "nl"
         /\ (x.eol = "nl" => Ended(x) = x)
BY DEF Ended, FileLine

(* The directives of a file, one line more at a time.                      *)
Reads(f, g) ==
  /\ g \in [0 .. Len(f) -> Seq(FileLine)] /\ g[0] = <<>>
  /\ \A i \in 1 .. Len(f) :
       g[i] = IF IsDirective(f, i) THEN Append(g[i - 1], Ended(f[i])) ELSE g[i - 1]

LEMMA ParseReads ==
  ASSUME NEW f \in Seq(FileLine)
  PROVE  \E g : Reads(f, g) /\ ParseDropIn(f) = g[Len(f)]
<1> DEFINE n == Len(f)
           Q == Seq(FileLine)
           step == [p \in Q \X (1 .. n) |->
                      IF IsDirective(f, p[2]) THEN Append(p[1], Ended(f[p[2]])) ELSE p[1]]
<1>0. n \in Nat /\ <<>> \in Q
  BY LenProperties, EmptySeq
<1>1. step \in [Q \X (1 .. n) -> Q]
  <2>1. \A i \in 1 .. n : Ended(f[i]) \in FileLine
    BY ElementOfSeq, EndedIs
  <2>2. \A s \in Q, i \in 1 .. n : Append(s, Ended(f[i])) \in Q
    BY <2>1, AppendProperties
  <2> QED  BY <2>2
<1>2. PICK g : Goes(Q, n, <<>>, step, g)
  <2> HIDE DEF Q, step, n
  <2> QED  BY <1>0, <1>1, Recursion
<1>3. Reads(f, g)
  <2>1. ASSUME NEW i \in 1 .. n
        PROVE  g[i] = IF IsDirective(f, i) THEN Append(g[i - 1], Ended(f[i])) ELSE g[i - 1]
    <3>1. g[i - 1] \in Q
      BY <1>0, <1>2 DEF Goes
    <3>2. step[<<g[i - 1], i>>]
            = IF IsDirective(f, i) THEN Append(g[i - 1], Ended(f[i])) ELSE g[i - 1]
      BY <3>1
    <3> QED  BY <1>2, <3>2 DEF Goes
  <2> QED  BY <1>2, <2>1 DEF Reads, Goes
<1> DEFINE Def(u) == [k \in 0 .. Len(f) |->
                        IF k = 0 THEN <<>>
                        ELSE IF IsDirective(f, k) THEN Append(u[k - 1], [f[k] EXCEPT !.eol = "nl"])
                        ELSE u[k - 1]]
           s == CHOOSE u : u = Def(u)
<1>4. g = Def(g)
  <2>1. ASSUME NEW k \in 0 .. Len(f)  PROVE g[k] = Def(g)[k]
    <3>1. CASE k = 0
      BY <1>2, <3>1 DEF Goes
    <3>2. CASE k # 0
      <4>1. k \in 1 .. Len(f)
        BY <1>0, <3>2
      <4> QED  BY <1>3, <3>2, <4>1 DEF Reads, Ended
    <3> QED  BY <3>1, <3>2
  <2> QED  BY <1>2, <2>1 DEF Goes
<1>5. ParseDropIn(f) = s[Len(f)]
  BY DEF ParseDropIn
<1>6. s = Def(s)
  <2> HIDE DEF Def
  <2> QED  BY <1>4
<1> HIDE DEF s, step
<1>7. s = g
  <2>1. DOMAIN s = 0 .. n /\ s = [k \in DOMAIN s |-> s[k]] /\ s[0] = g[0]
    BY <1>0, <1>2, <1>6 DEF Goes
  <2>2. DOMAIN g = 0 .. n /\ g = [k \in DOMAIN g |-> g[k]]
    BY <1>2 DEF Goes
  <2>3. ASSUME NEW k \in 1 .. n, s[k - 1] = g[k - 1]  PROVE s[k] = g[k]
    <3>1. s[k] = Def(s)[k] /\ g[k] = Def(g)[k]
      BY <1>4, <1>6
    <3> QED  BY <2>3, <3>1
  <2> HIDE DEF Def, n
  <2> QED  BY <1>0, <2>1, <2>2, <2>3, SameCourse
<1> QED  BY <1>3, <1>5, <1>7

(* Of any file, however it was written, directives are read.               *)
LEMMA ParsedDirectives ==
  ASSUME NEW f \in Seq(FileLine)
  PROVE  ParseDropIn(f) \in Seq(FileLine) /\ Directives(ParseDropIn(f))
<1>1. PICK g : Reads(f, g) /\ ParseDropIn(f) = g[Len(f)]
  BY ParseReads
<1> DEFINE l == Len(f)
           B == {n \in 0 .. l : ~ Directives(g[n])}
<1>2. l \in Nat
  BY LenProperties
<1> HIDE DEF l
<1>3. 0 \notin B
  <2>1. g[0] = <<>> /\ DOMAIN <<>> = {}
    BY <1>1 DEF Reads
  <2> QED  BY <2>1 DEF Directives
<1>4. ASSUME NEW n \in 0 .. l, n # 0, n - 1 \notin B  PROVE n \notin B
  <2>1. n \in 1 .. l /\ n - 1 \in 0 .. l
    BY <1>2, <1>4
  <2>2. g[n - 1] \in Seq(FileLine) /\ Directives(g[n - 1]) /\ f[n] \in FileLine
    BY <1>1, <1>4, <2>1, ElementOfSeq DEF Reads, l
  <2>3. g[n] = IF IsDirective(f, n) THEN Append(g[n - 1], Ended(f[n])) ELSE g[n - 1]
    BY <1>1, <2>1 DEF Reads, l
  <2>4. CASE IsDirective(f, n)
    <3>1. PICK x \in FileLine : x = Ended(f[n]) /\ x.key = f[n].key /\ x.eol = "nl"
      BY <2>2, EndedIs
    <3>2. x.key \notin Headings \cup {NoKey}
      BY <2>4, <3>1 DEF IsDirective, HasKey
    <3>3. Directives(Append(g[n - 1], x))
      BY <2>2, <3>1, <3>2, DirectivesAppend
    <3> QED  BY <2>3, <2>4, <3>1, <3>3
  <2>5. CASE ~ IsDirective(f, n)
    BY <2>2, <2>3, <2>5
  <2> QED  BY <2>4, <2>5
<1> HIDE DEF B
<1>5. B = {}
  <2>1. B \subseteq 0 .. l
    BY DEF B
  <2> QED  BY <1>2, <1>3, <1>4, <2>1, NoFirstException
<1>6. l \in 0 .. l
  BY <1>2
<1> QED  BY <1>1, <1>5, <1>6 DEF Reads, B, l

(* The first m lines of d.                                                 *)
FirstOf(d, m, s) == s \in Seq(FileLine) /\ Len(s) = m /\ \A j \in 1 .. m : s[j] = d[j]

(* A drop-in written anew has its opening, then d.                         *)
Opens(d, h) ==
  /\ h \in Seq(FileLine) /\ Len(h) = Len(d) + 2
  /\ h[1].key = NoKey /\ h[2].key = Section /\ h[1].eol = "nl" /\ h[2].eol = "nl"
  /\ \A i \in 1 .. Len(d) : h[i + 2] = d[i]

LEMMA RenderOpens ==
  ASSUME NEW d \in Seq(FileLine)
  PROVE  Opens(d, RenderDropIn(d))
<1>0. PICK n \in Nat : n = 2
  OBVIOUS
<1>1. PICK o : o = Opening
  OBVIOUS
<1>2. /\ o \in [1 .. n -> FileLine] /\ o[1].key = NoKey /\ o[2].key = Section
      /\ o[1].eol = "nl" /\ o[2].eol = "nl"
  <2>1. "" \in Vals /\ NoKey \in Unknown /\ Section \in Unknown
    BY ConfigTextAssumption DEF Unknown, Headings
  <2>2. PICK x \in FileLine : x = [key |-> NoKey, val |-> "", eol |-> "nl"]
    BY <2>1 DEF FileLine
  <2>3. PICK y \in FileLine : y = [key |-> Section, val |-> "", eol |-> "nl"]
    BY <2>1 DEF FileLine
  <2>4. o = [k \in 1 .. 2 |-> [key |-> IF k = 1 THEN NoKey ELSE Section, val |-> "", eol |-> "nl"]]
    BY <1>1 DEF Opening
  <2>5. o[1] = x /\ o[2] = y
    <3>1. 1 \in 1 .. 2 /\ 2 \in 1 .. 2 /\ ~ (2 = 1)
      OBVIOUS
    <3>2. o[1] = [key |-> NoKey, val |-> "", eol |-> "nl"]
      BY <2>4, <3>1
    <3>3. o[2] = [key |-> Section, val |-> "", eol |-> "nl"]
      BY <2>4, <3>1
    <3> QED  BY <2>2, <2>3, <3>2, <3>3
  <2>6. \A k \in 1 .. 2 : k = 1 \/ k = 2
    OBVIOUS
  <2>7. o \in [1 .. 2 -> FileLine]
    BY <2>4, <2>5, <2>6
  <2>8. x.key = NoKey /\ y.key = Section /\ x.eol = "nl" /\ y.eol = "nl"
    BY <2>2, <2>3
  <2> QED  BY <1>0, <2>5, <2>7, <2>8
<1>3. o \in Seq(FileLine) /\ Len(o) = 2
  <2>1. o \in Seq(FileLine) /\ Len(o) = n
    BY <1>2
  <2> QED  BY <1>0, <2>1
<1>4. Len(d) \in Nat
  BY LenProperties
<1>5. PICK h : h = o \o d
  OBVIOUS
<1>6. h \in Seq(FileLine) /\ Len(h) = 2 + Len(d)
      /\ \A i \in 1 .. 2 + Len(d) : h[i] = IF i <= 2 THEN o[i] ELSE d[i - 2]
  <2>1. /\ o \o d \in Seq(FileLine) /\ Len(o \o d) = Len(o) + Len(d)
        /\ \A i \in 1 .. Len(o) + Len(d) : (o \o d)[i] = IF i <= Len(o) THEN o[i] ELSE d[i - Len(o)]
    BY <1>3, ConcatProperties
  <2> QED  BY <1>3, <1>5, <2>1
<1>7. h[1] = o[1] /\ h[2] = o[2]
  BY <1>4, <1>6
<1>8. ASSUME NEW i \in 1 .. Len(d)  PROVE h[i + 2] = d[i]
  <2>1. i + 2 \in 1 .. 2 + Len(d) /\ ~ (i + 2 <= 2) /\ (i + 2) - 2 = i
    BY <1>4
  <2> QED  BY <1>6, <2>1
<1>9. Len(h) = Len(d) + 2
  BY <1>4, <1>6
<1>10. Opens(d, h)
  BY <1>2, <1>6, <1>7, <1>8, <1>9 DEF Opens
<1> QED  BY <1>1, <1>5, <1>10 DEF RenderDropIn

(* Directives that were written are read back as they are.                 *)
LEMMA ParsedAgain ==
  ASSUME NEW d \in Seq(FileLine), Directives(d), NEW h, Opens(d, h)
  PROVE  Parsed(h) /\ ParseDropIn(h) = d
<1>1. PICK l \in Nat : l = Len(d) /\ DOMAIN d = 1 .. l
  BY LenProperties
<1>2. h \in Seq(FileLine) /\ Len(h) = l + 2 /\ \A i \in 1 .. l : h[i + 2] = d[i]
  BY <1>1 DEF Opens
<1>3. ASSUME NEW i \in 3 .. l + 2
      PROVE  h[i] = d[i - 2] /\ HasKey(h, i) /\ h[i].eol = "nl"
  <2>1. i - 2 \in 1 .. l /\ (i - 2) + 2 = i
    BY <1>1
  <2>2. h[i] = d[i - 2]
    BY <1>2, <2>1
  <2> QED  BY <1>1, <2>1, <2>2 DEF Directives, HasKey
<1>4. ~ IsDirective(h, 1) /\ ~ IsDirective(h, 2)
  BY DEF Opens, IsDirective, HasKey, Headings
<1>5. ASSUME NEW i \in 3 .. l + 2  PROVE IsDirective(h, i)
  <2>1. ASSUME NEW m \in 3 .. i - 1  PROVE h[m].key # OtherSection
    <3>1. m \in 3 .. l + 2
      BY <1>1
    <3>2. HasKey(h, m)
      BY <1>3, <3>1
    <3> QED  BY <3>2 DEF HasKey, Headings
  <2>2. 2 \in 1 .. i - 1 /\ 2 + 1 = 3
    OBVIOUS
  <2>3. InService(h, i)
    BY <2>1, <2>2 DEF InService, Opens
  <2> QED  BY <1>3, <2>3 DEF IsDirective
<1>6. Parsed(h)
  <2>1. ASSUME NEW i \in 1 .. Len(h) - 1  PROVE h[i].eol # ""
    <3>1. i \in 3 .. l + 2 \/ i = 1 \/ i = 2
      BY <1>1, <1>2
    <3> QED  BY <1>3, <3>1 DEF Opens
  <2> QED  BY <2>1 DEF Parsed
<1>7. PICK g : Reads(h, g) /\ ParseDropIn(h) = g[l + 2]
  BY <1>2, ParseReads
<1>8. /\ g \in [0 .. l + 2 -> Seq(FileLine)] /\ g[0] = <<>>
      /\ \A i \in 1 .. l + 2 :
           g[i] = IF IsDirective(h, i) THEN Append(g[i - 1], Ended(h[i])) ELSE g[i - 1]
  BY <1>2, <1>7 DEF Reads
<1>9. g[2] = <<>>
  <2>1. 1 \in 1 .. l + 2 /\ 2 \in 1 .. l + 2 /\ 1 - 1 = 0 /\ 2 - 1 = 1
    BY <1>1
  <2> QED  BY <1>4, <1>8, <2>1
<1> DEFINE B == {m \in 0 .. l : ~ FirstOf(d, m, g[m + 2])}
<1>10. 0 \notin B
  <2>1. 0 + 2 = 2 /\ <<>> \in Seq(FileLine) /\ Len(<<>>) = 0
    BY EmptySeq
  <2>2. FirstOf(d, 0, <<>>)
    BY <2>1 DEF FirstOf
  <2> QED  BY <1>9, <2>1, <2>2
<1>11. ASSUME NEW m \in 0 .. l, m # 0, m - 1 \notin B  PROVE m \notin B
  <2>1. /\ m \in 1 .. l /\ m - 1 \in 0 .. l /\ m + 2 \in 3 .. l + 2 /\ m + 2 \in 1 .. l + 2
        /\ (m - 1) + 2 = (m + 2) - 1 /\ (m + 2) - 2 = m
    BY <1>1, <1>11
  <2>2. PICK s : s = g[(m + 2) - 1]
    OBVIOUS
  <2>3. FirstOf(d, m - 1, s)
    BY <1>11, <2>1, <2>2
  <2>4. PICK x \in FileLine : x = d[m]
    BY <1>1, <2>1, ElementOfSeq
  <2>5. Ended(h[m + 2]) = x
    <3>1. h[m + 2] = x /\ x.eol = "nl"
      BY <1>3, <2>1, <2>4
    <3> QED  BY <2>4, <3>1, EndedIs
  <2>6. g[m + 2] = Append(s, x)
    BY <1>5, <1>8, <2>1, <2>2, <2>5
  <2>7. /\ Append(s, x) \in Seq(FileLine) /\ Len(Append(s, x)) = Len(s) + 1
        /\ Append(s, x)[Len(s) + 1] = x /\ \A j \in 1 .. Len(s) : Append(s, x)[j] = s[j]
    BY <2>3, <2>4, AppendProperties DEF FirstOf
  <2>8. Len(s) = m - 1 /\ \A j \in 1 .. m - 1 : s[j] = d[j]
    BY <2>3 DEF FirstOf
  <2>9. \A j \in 1 .. m : j \in 1 .. m - 1 \/ j = m
    BY <2>1
  <2>10. (m - 1) + 1 = m
    BY <2>1
  <2>11. FirstOf(d, m, Append(s, x))
    BY <2>4, <2>7, <2>8, <2>9, <2>10 DEF FirstOf
  <2> QED  BY <2>6, <2>11
<1> HIDE DEF B
<1>12. B = {}
  <2>1. B \subseteq 0 .. l
    BY DEF B
  <2> QED  BY <1>1, <1>10, <1>11, <2>1, NoFirstException
<1>13. FirstOf(d, l, g[l + 2])
  <2>1. l \in 0 .. l
    BY <1>1
  <2> QED  BY <1>12, <2>1 DEF B
<1>14. g[l + 2] = d
  BY <1>1, <1>13, SeqEqual DEF FirstOf
<1> QED  BY <1>6, <1>7, <1>14

LEMMA DirectivesWithout ==
  ASSUME NEW f \in Seq(FileLine), Directives(f), NEW k, NEW i \in Nat
  PROVE  Directives(WithoutAfter(f, k, i))
<1>1. PICK out \in Seq(FileLine) :
         /\ out = WithoutAfter(f, k, i)
         /\ \A j \in 1 .. Len(out) : \E m \in 1 .. Len(f) : out[j] = f[m]
  BY WithoutLines
<1>2. DOMAIN out = 1 .. Len(out) /\ DOMAIN f = 1 .. Len(f)
  BY LenProperties
<1> QED  BY <1>1, <1>2 DEF Directives, HasKey

(* Setting a directive of a drop-in.                                       *)
LEMMA DropInSetStep ==
  ASSUME NEW f \in Seq(FileLine), Directives(f), NEW k \in ToSet(FormKeys), NEW v \in Vals
  PROVE  LET h == DropInSet(f, k, v)
         IN  DiffersIn(f, h, k) /\ Directives(h) /\ Of(h, {k}) = <<[key |-> k, val |-> v]>>
<1>1. CASE Index(f, k) = {}
  <2>1. PICK x \in FileLine : x = [key |-> k, val |-> v, eol |-> "nl"]
    BY DEF FileLine
  <2>2. x.key = k /\ Plain(x) = [key |-> k, val |-> v] /\ x.eol = "nl"
        /\ k \notin Headings \cup {NoKey}
    BY <2>1, ConfigTextAssumption DEF Plain, Unknown
  <2>3. PICK h : h = Append(f, x) /\ h = DropInSet(f, k, v)
    BY <1>1, <2>1 DEF DropInSet
  <2>4. DiffersIn(f, h, k) /\ Of(h, {k}) = Append(Of(f, {k}), Plain(x))
    BY <2>2, <2>3, AppendDiffers
  <2>5. Of(f, {k}) = <<>>
    BY <1>1, GetOf
  <2>6. Directives(h)
    BY <2>2, <2>3, DirectivesAppend
  <2> QED  BY <2>2, <2>3, <2>4, <2>5, <2>6
<1>2. CASE Index(f, k) # {}
  <2>1. PICK a \in Nat : a = First(f, k) /\ a \in 1 .. Len(f) /\ f[a].key = k
                         /\ \A j \in 1 .. Len(f) : f[j].key = k => a <= j
    BY <1>2, FirstIs, LenProperties
  <2>2. PICK g : g = [f EXCEPT ![First(f, k)].val = v]
    OBVIOUS
  <2>3. /\ DiffersIn(f, g, k) /\ Len(g) = Len(f)
        /\ \A i \in 1 .. Len(f) : g[i].key = f[i].key /\ g[i].eol = f[i].eol
        /\ g[a].val = v
    <3>1. SetsFirst(f, g, k, v)
      BY <1>2, <2>2, FirstSets
    <3> QED  BY <2>1, <3>1 DEF SetsFirst
  <2>4. g \in Seq(FileLine)
    BY <2>3 DEF DiffersIn
  <2>5. PICK h : h = WithoutAfter(g, k, a)
    OBVIOUS
  <2>6. DropInSet(f, k, v) = h
    BY <1>2, <2>1, <2>2, <2>5 DEF DropInSet
  <2>7. Directives(g)
    <3>1. DOMAIN g = 1 .. Len(g) /\ DOMAIN f = 1 .. Len(f)
      BY <2>4, LenProperties
    <3> QED  BY <2>3, <3>1 DEF Directives, HasKey
  <2>8. DiffersIn(f, h, k)
    <3>1. DiffersIn(g, h, k)
      BY <2>4, <2>5, WithoutDiffers
    <3> QED  BY <2>3, <3>1, DiffersTwice
  <2>9. Of(h, {k}) = <<Plain(g[a])>>
    <3>1. a \in 0 .. Len(g) /\ a # 0
      BY <2>1, <2>3, LenProperties
    <3>2. a # 0 => g[a].key = k
      BY <2>1, <2>3
    <3>3. \A j \in 1 .. Len(g) : j < a => g[j].key # k
      <4>1. \A j \in 1 .. Len(g) : j < a => ~ (a <= j)
        BY <2>1, <2>3, LenProperties
      <4> QED  BY <2>1, <2>3, <4>1
    <3>4. Of(WithoutAfter(g, k, a), {k}) = IF a = 0 THEN <<>> ELSE <<Plain(g[a])>>
      BY <2>4, <3>1, <3>2, <3>3, WithoutThis
    <3> QED  BY <2>5, <3>1, <3>4
  <2>10. Plain(g[a]) = [key |-> k, val |-> v]
    BY <2>1, <2>3 DEF Plain
  <2>11. Directives(h)
    BY <2>4, <2>5, <2>7, DirectivesWithout
  <2> QED  BY <2>6, <2>8, <2>9, <2>10, <2>11
<1> QED  BY <1>1, <1>2

-----------------------------------------------------------------------------
(* A whole change. *)

Fits(f) == f \in Seq(FileLine) /\ Parsed(f) /\ (fileKind = "dropin" => Directives(f))

Fields == [DOMAIN FormKeys -> Vals]
Filled == form.before \in Fields /\ form.next \in Fields

(* The field is in h as the form says, which was made of f.                *)
FieldDone(f, h, i) ==
  LET k == FormKeys[i] v == form.next[i]
  IN /\ v # "" => /\ Get(h, k) = v
                  /\ fileKind = "dropin" => Of(h, {k}) = <<[key |-> k, val |-> v]>>
     /\ v = "" /\ (form.before[i] # "" \/ fileKind = "dropin") => Of(h, {k}) = <<>>
     /\ v = "" /\ ~ (form.before[i] # "" \/ fileKind = "dropin") => Of(h, {k}) = Of(f, {k})

FieldStep(f, h, i) ==
  /\ DiffersIn(f, h, FormKeys[i]) /\ Fits(h) /\ FieldDone(f, h, i)
  /\ (form.next[i] # "" => Index(f, FormKeys[i]) # {}) => EndsAs(f, h)

(* A field of .env is done as the form says.                               *)
LEMMA EnvFieldStep ==
  ASSUME fileKind = "env", NEW f, Fits(f), Filled, NEW i \in DOMAIN FormKeys
  PROVE  FieldStep(f, EnvField(f, i), i)
<1> DEFINE k == FormKeys[i]
           v == form.next[i]
<1>1. k \in ToSet(FormKeys) /\ v \in Vals /\ f \in Seq(FileLine) /\ Parsed(f)
  BY DEF Filled, Fields, Fits, ToSet
<1>2. PICK h : h = EnvField(f, i)
  OBVIOUS
<1> HIDE DEF k, v
<1>3. CASE v # ""
  <2>1. h = EnvSet(f, k, v)
    BY <1>2, <1>3 DEF EnvField, k, v
  <2>2. DiffersIn(f, h, k) /\ Parsed(h) /\ Get(h, k) = v /\ (Index(f, k) # {} => EndsAs(f, h))
    BY <1>1, <2>1, EnvSetStep
  <2> QED  BY <1>2, <1>3, <2>2 DEF FieldStep, FieldDone, Fits, DiffersIn, k, v
<1>4. CASE v = "" /\ form.before[i] # ""
  <2>1. h = EnvUnset(f, k)
    BY <1>2, <1>4 DEF EnvField, k, v
  <2>2. DiffersIn(f, h, k) /\ Parsed(h) /\ Of(h, {k}) = <<>> /\ EndsAs(f, h)
    BY <1>1, <2>1, EnvUnsetStep
  <2> QED  BY <1>2, <1>4, <2>2 DEF FieldStep, FieldDone, Fits, DiffersIn, k, v
<1>5. CASE v = "" /\ form.before[i] = ""
  <2>1. h = f
    BY <1>2, <1>5 DEF EnvField, k, v
  <2> QED  BY <1>1, <1>2, <1>5, <2>1 DEF FieldStep, FieldDone, Fits, DiffersIn, EndsAs, k, v
<1> QED  BY <1>3, <1>4, <1>5

LEMMA DirectivesEnd ==
  ASSUME NEW f \in Seq(FileLine), NEW h \in Seq(FileLine), Directives(f), Directives(h),
         f = <<>> => h = <<>>
  PROVE  EndsAs(f, h)
<1>1. ASSUME f # <<>>, h # <<>>  PROVE Last(f).eol # "" /\ Last(h).eol # ""
  <2>1. Len(f) \in DOMAIN f /\ Len(h) \in DOMAIN h
    BY <1>1, NotEmpty, LenProperties
  <2> QED  BY <2>1 DEF Directives, Last
<1> QED  BY <1>1 DEF EndsAs

(* A field of a drop-in is done as the form says.                          *)
LEMMA DropInFieldStep ==
  ASSUME fileKind = "dropin", NEW f, Fits(f), Filled, NEW i \in DOMAIN FormKeys
  PROVE  FieldStep(f, DropInField(f, i), i)
<1> DEFINE k == FormKeys[i]
           v == form.next[i]
<1>1. k \in ToSet(FormKeys) /\ v \in Vals /\ f \in Seq(FileLine) /\ Directives(f)
  BY DEF Filled, Fields, Fits, ToSet
<1>2. PICK h : h = DropInField(f, i)
  OBVIOUS
<1> HIDE DEF k, v
<1>3. CASE v # ""
  <2>1. h = DropInSet(f, k, v)
    BY <1>2, <1>3 DEF DropInField, k, v
  <2>2. DiffersIn(f, h, k) /\ Directives(h) /\ Of(h, {k}) = <<[key |-> k, val |-> v]>>
    BY <1>1, <2>1, DropInSetStep
  <2>3. h \in Seq(FileLine)
    BY <2>2 DEF DiffersIn
  <2>4. Get(h, k) = v
    <3>1. PICK s : s = <<[key |-> k, val |-> v]>>
      OBVIOUS
    <3>2. s # <<>> /\ s[1].val = v
      BY <3>1
    <3> QED  BY <2>2, <2>3, <3>1, <3>2, GetOf
  <2>5. Fits(h)
    BY <2>2, <2>3, DirectivesParsed DEF Fits
  <2>6. Index(f, k) # {} => EndsAs(f, h)
    BY <1>1, <2>2, <2>3, NotEmpty, DirectivesEnd
  <2> QED  BY <1>2, <1>3, <2>2, <2>4, <2>5, <2>6 DEF FieldStep, FieldDone, k, v
<1>4. CASE v = ""
  <2>1. h = WithoutAfter(f, k, 0) /\ h = Without(f, k)
    BY <1>2, <1>4 DEF DropInField, Without, k, v
  <2>2. DiffersIn(f, h, k) /\ Of(h, {k}) = <<>> /\ Directives(h)
    BY <1>1, <2>1, WithoutDiffers, WithoutGone, DirectivesWithout
  <2>3. h \in Seq(FileLine)
    BY <2>2 DEF DiffersIn
  <2>4. Fits(h)
    BY <2>2, <2>3, DirectivesParsed DEF Fits
  <2>5. EndsAs(f, h)
    <3>1. ASSUME f = <<>>  PROVE h = <<>>
      <4>1. Index(f, k) = {}
        BY <1>1, <3>1, NotEmpty
      <4> QED  BY <1>1, <2>1, <3>1, <4>1, WithoutNone
    <3> QED  BY <1>1, <2>2, <2>3, <3>1, DirectivesEnd
  <2> QED  BY <1>2, <1>4, <2>2, <2>4, <2>5 DEF FieldStep, FieldDone, k, v
<1> QED  BY <1>3, <1>4

(* What the program has read of the file.                                  *)
Base == Settings(file)

(* What the fields make of it, one more at a time.                         *)
Makes(g) ==
  /\ g[0] = Base
  /\ \A n \in 1 .. Len(FormKeys) :
       g[n] = IF fileKind = "env" THEN EnvField(g[n - 1], n) ELSE DropInField(g[n - 1], n)

LEMMA FormKeysLength == Len(FormKeys) \in Nat /\ DOMAIN FormKeys = 1 .. Len(FormKeys)
BY ConfigTextAssumption, LenProperties

LEMMA FieldSteps ==
  ASSUME fileKind \in {"env", "dropin"}, NEW f, Fits(f), Filled, NEW i \in DOMAIN FormKeys
  PROVE  FieldStep(f, IF fileKind = "env" THEN EnvField(f, i) ELSE DropInField(f, i), i)
<1>1. CASE fileKind = "env"
  BY <1>1, EnvFieldStep
<1>2. CASE fileKind = "dropin"
  <2>1. fileKind # "env"
    BY <1>2
  <2> QED  BY <1>2, <2>1, DropInFieldStep
<1> QED  BY <1>1, <1>2

(* Edited is what the last field makes.                                    *)
LEMMA EditedMakes ==
  ASSUME fileKind \in {"env", "dropin"}, Fits(Base), Filled
  PROVE  \E g : Makes(g) /\ Edited = g[Len(FormKeys)] /\ \A n \in 0 .. Len(FormKeys) : Fits(g[n])
<1> DEFINE l == Len(FormKeys)
           Q == {f \in Seq(FileLine) : Fits(f)}
           Made(f, n) == IF fileKind = "env" THEN EnvField(f, n) ELSE DropInField(f, n)
           step == [p \in Q \X (1 .. l) |-> Made(p[1], p[2])]
<1>0. l \in Nat /\ Base \in Q
  BY FormKeysLength DEF Fits
<1>1. step \in [Q \X (1 .. l) -> Q]
  <2>1. ASSUME NEW f \in Q, NEW n \in 1 .. l  PROVE Made(f, n) \in Q
    <3>1. FieldStep(f, Made(f, n), n)
      BY FieldSteps, FormKeysLength
    <3> HIDE DEF Made
    <3>2. Fits(Made(f, n))
      BY <3>1 DEF FieldStep
    <3> QED  BY <3>2 DEF Fits
  <2> HIDE DEF Made, Q, l
  <2> QED  BY <2>1
<1>2. PICK g : Goes(Q, l, Base, step, g)
  <2> HIDE DEF Q, step, l
  <2> QED  BY <1>0, <1>1, Recursion
<1>3. g \in [0 .. l -> Q] /\ g[0] = Base /\ \A n \in 1 .. l : g[n] = Made(g[n - 1], n)
  <2>1. ASSUME NEW n \in 1 .. l  PROVE g[n] = Made(g[n - 1], n)
    <3> HIDE DEF Made
    <3>1. g[n - 1] \in Q
      BY <1>0, <1>2 DEF Goes
    <3>2. step[<<g[n - 1], n>>] = Made(g[n - 1], n)
      BY <3>1
    <3> QED  BY <1>2, <3>2 DEF Goes
  <2> QED  BY <1>2, <2>1 DEF Goes
<1> DEFINE Def(u) == [n \in 0 .. Len(FormKeys) |->
                        IF n = 0 THEN Settings(file)
                        ELSE IF fileKind = "env" THEN EnvField(u[n - 1], n) ELSE DropInField(u[n - 1], n)]
           s == CHOOSE u : u = Def(u)
<1>4. g = Def(g)
  <2>1. ASSUME NEW n \in 0 .. Len(FormKeys)  PROVE g[n] = Def(g)[n]
    <3>1. CASE n = 0
      BY <1>3, <3>1 DEF Base
    <3>2. CASE n # 0
      <4>1. n \in 1 .. Len(FormKeys)
        BY <1>0, <3>2
      <4> QED  BY <1>3, <3>2, <4>1
    <3> QED  BY <3>1, <3>2
  <2> QED  BY <1>3, <2>1
<1>5. Edited = s[Len(FormKeys)]
  BY DEF Edited
<1>6. s = Def(s)
  <2> HIDE DEF Def
  <2> QED  BY <1>4
<1> HIDE DEF s, step
<1>7. s = g
  <2>1. DOMAIN s = 0 .. l /\ s = [n \in DOMAIN s |-> s[n]] /\ s[0] = g[0]
    BY <1>0, <1>3, <1>6 DEF Base
  <2>2. DOMAIN g = 0 .. l /\ g = [n \in DOMAIN g |-> g[n]]
    BY <1>3
  <2>3. ASSUME NEW n \in 1 .. l, s[n - 1] = g[n - 1]  PROVE s[n] = g[n]
    <3>1. s[n] = Def(s)[n] /\ g[n] = Def(g)[n]
      BY <1>4, <1>6
    <3> QED  BY <2>3, <3>1
  <2> HIDE DEF Def, l
  <2> QED  BY <1>0, <2>1, <2>2, <2>3, SameCourse
<1>8. Makes(g)
  BY <1>3 DEF Makes
<1> QED  BY <1>3, <1>5, <1>7, <1>8

(* After n fields: those are as the form says, the others as they were.    *)
SoFar(h, n) ==
  /\ Of(h, Unknown) = Of(Base, Unknown)
  /\ \A i \in DOMAIN FormKeys :
       /\ i <= n => FieldDone(Base, h, i)
       /\ i > n => Of(h, {FormKeys[i]}) = Of(Base, {FormKeys[i]})
  /\ NoneAdded => EndsAs(Base, h)

LEMMA EndsTwice ==
  ASSUME NEW f, NEW g, NEW h, EndsAs(f, g), EndsAs(g, h)
  PROVE  EndsAs(f, h)
BY DEF EndsAs

(* One field more keeps those that are done.                               *)
LEMMA NextField ==
  ASSUME fileKind \in {"env", "dropin"}, Fits(Base), Filled, NEW n \in DOMAIN FormKeys,
         NEW f, Fits(f), SoFar(f, n - 1), NEW h, FieldStep(f, h, n)
  PROVE  SoFar(h, n)
<1> DEFINE k == FormKeys[n]
<1>0. DOMAIN FormKeys \subseteq Nat /\ k \in ToSet(FormKeys) /\ n \in Nat /\ n > n - 1
  BY FormKeysLength DEF ToSet
<1>1. f \in Seq(FileLine) /\ h \in Seq(FileLine) /\ Base \in Seq(FileLine)
  BY DEF Fits, FieldStep
<1>2. DiffersIn(f, h, k)
  BY DEF FieldStep
<1>3. Of(f, {k}) = Of(Base, {k})
  BY <1>0 DEF SoFar
<1>4. Of(h, Unknown) = Of(Base, Unknown)
  BY <1>2 DEF SoFar, DiffersIn
<1>5. ASSUME NEW i \in DOMAIN FormKeys, i # n
      PROVE  Of(h, {FormKeys[i]}) = Of(f, {FormKeys[i]})
  <2>1. FormKeys[i] # k /\ FormKeys[i] \in ToSet(FormKeys)
    BY <1>5, ConfigTextAssumption DEF ToSet
  <2> HIDE DEF k
  <2> QED  BY <1>2, <2>1 DEF DiffersIn
<1>6. ASSUME NEW i \in DOMAIN FormKeys, i <= n  PROVE FieldDone(Base, h, i)
  <2>1. CASE i = n
    BY <1>3, <2>1 DEF FieldStep, FieldDone
  <2>2. CASE i # n
    <3>1. i <= n - 1
      BY <1>0, <1>6, <2>2
    <3>2. FieldDone(Base, f, i)
      BY <3>1 DEF SoFar
    <3>3. Of(h, {FormKeys[i]}) = Of(f, {FormKeys[i]})
      BY <1>5, <2>2
    <3>4. Get(h, FormKeys[i]) = Get(f, FormKeys[i])
      BY <1>1, <3>3, GetOf
    <3> QED  BY <3>2, <3>3, <3>4 DEF FieldDone
  <2> QED  BY <2>1, <2>2
<1>7. ASSUME NEW i \in DOMAIN FormKeys, i > n
      PROVE  Of(h, {FormKeys[i]}) = Of(Base, {FormKeys[i]})
  <2>1. i # n /\ i > n - 1
    BY <1>0, <1>7
  <2>2. Of(f, {FormKeys[i]}) = Of(Base, {FormKeys[i]})
    BY <2>1 DEF SoFar
  <2> QED  BY <1>5, <2>1, <2>2
<1>8. ASSUME NoneAdded  PROVE EndsAs(Base, h)
  <2>1. form.next[n] # "" => Index(f, k) # {}
    <3>1. form.next[n] # "" => Index(Base, k) # {}
      BY <1>8 DEF NoneAdded, Base
    <3>2. Index(Base, k) # {} => Index(f, k) # {}
      BY <1>1, <1>3, GetOf
    <3> QED  BY <3>1, <3>2
  <2>2. EndsAs(f, h)
    BY <2>1 DEF FieldStep
  <2>3. EndsAs(Base, f)
    BY <1>8 DEF SoFar
  <2> QED  BY <2>2, <2>3, EndsTwice
<1> QED  BY <1>4, <1>6, <1>7, <1>8 DEF SoFar

LEMMA EditedIsSo ==
  ASSUME fileKind \in {"env", "dropin"}, Fits(Base), Filled
  PROVE  Fits(Edited) /\ SoFar(Edited, Len(FormKeys))
<1>1. PICK g : Makes(g) /\ Edited = g[Len(FormKeys)] /\ \A n \in 0 .. Len(FormKeys) : Fits(g[n])
  BY EditedMakes
<1> DEFINE l == Len(FormKeys)
           B == {n \in 0 .. l : ~ SoFar(g[n], n)}
<1>2. l \in Nat /\ DOMAIN FormKeys = 1 .. l
  BY FormKeysLength
<1> HIDE DEF l
<1>3. 0 \notin B
  <2>1. g[0] = Base
    BY <1>1 DEF Makes
  <2>2. SoFar(Base, 0)
    <3>1. \A i \in DOMAIN FormKeys : ~ (i <= 0)
      BY <1>2
    <3> QED  BY <3>1 DEF SoFar, EndsAs
  <2> QED  BY <2>1, <2>2
<1>4. ASSUME NEW n \in 0 .. l, n # 0, n - 1 \notin B  PROVE n \notin B
  <2>1. n \in DOMAIN FormKeys /\ n \in 1 .. Len(FormKeys) /\ n - 1 \in 0 .. l
    BY <1>2, <1>4 DEF l
  <2>2. SoFar(g[n - 1], n - 1)
    BY <1>4, <2>1
  <2>3. Fits(g[n - 1])
    BY <1>1, <2>1 DEF l
  <2>4. g[n] = IF fileKind = "env" THEN EnvField(g[n - 1], n) ELSE DropInField(g[n - 1], n)
    BY <1>1, <2>1 DEF Makes
  <2>5. FieldStep(g[n - 1], g[n], n)
    BY <2>1, <2>3, <2>4, FieldSteps
  <2>6. SoFar(g[n], n)
    BY <2>1, <2>2, <2>3, <2>5, NextField
  <2> QED  BY <2>6
<1> HIDE DEF B
<1>5. B = {}
  <2>1. B \subseteq 0 .. l
    BY DEF B
  <2> QED  BY <1>2, <1>3, <1>4, <2>1, NoFirstException
<1>6. SoFar(g[l], l) /\ Fits(g[l])
  BY <1>1, <1>2, <1>5 DEF B, l
<1> QED  BY <1>1, <1>6 DEF l

(* A file, with comments or without, that can be parsed.                   *)
Readable(f) == f \in Seq(FileLine) /\ Parsed(f)

LEMMA BaseFits ==
  ASSUME fileKind \in {"env", "dropin"}, Readable(file)
  PROVE  Fits(Base)
<1>1. CASE fileKind = "env"
  BY <1>1 DEF Base, Settings, Readable, Fits
<1>2. CASE fileKind = "dropin"
  <2>1. PICK d : d = ParseDropIn(file) /\ d \in Seq(FileLine) /\ Directives(d)
    BY ParsedDirectives DEF Readable
  <2>2. Base = d
    BY <1>2, <2>1 DEF Base, Settings
  <2> QED  BY <2>1, <2>2, DirectivesParsed DEF Fits
<1> QED  BY <1>1, <1>2

(* What was written reads back as what the fields made.                    *)
LEMMA BuiltReads ==
  ASSUME fileKind \in {"env", "dropin"}, Fits(Edited)
  PROVE  Readable(Built) /\ Settings(Built) = Edited
<1>1. PICK d : d = Edited /\ Fits(d)
  OBVIOUS
<1>2. CASE fileKind = "env"
  <2>1. Built = d
    BY <1>1, <1>2 DEF Built
  <2> QED  BY <1>1, <1>2, <2>1 DEF Settings, Fits, Readable
<1>3. CASE fileKind = "dropin"
  <2>1. fileKind # "env" /\ d \in Seq(FileLine) /\ Directives(d)
    BY <1>1, <1>3 DEF Fits
  <2>2. PICK h : h = RenderDropIn(d)
    OBVIOUS
  <2>3. Opens(d, h)
    BY <2>1, <2>2, RenderOpens
  <2>4. h \in Seq(FileLine) /\ Parsed(h) /\ ParseDropIn(h) = d
    BY <2>1, <2>3, ParsedAgain DEF Opens
  <2>5. Built = h
    BY <1>1, <2>1, <2>2 DEF Built
  <2> QED  BY <1>1, <2>1, <2>4, <2>5 DEF Settings, Readable
<1> QED  BY <1>2, <1>3

-----------------------------------------------------------------------------
(* What is always so of the file and the form.                             *)
TextInv ==
  /\ fileKind \in {"env", "dropin"} /\ Readable(file) /\ former \in Seq(FileLine)
  /\ form \in [before : Fields \cup {<<>>}, next : Fields \cup {<<>>}]
  /\ form.before # <<>> => Filled

LEMMA TextStarts == TextInit => TextInv
<1> SUFFICES ASSUME TextInit PROVE TextInv
  OBVIOUS
<1>1. fileKind \in {"env", "dropin"} /\ former = file /\ form = [before |-> <<>>, next |-> <<>>]
  BY DEF TextInit
<1>2. PICK n \in 0 .. MaxLines : file \in [1 .. n -> FileLine]
  BY DEF TextInit
<1>3. file \in Seq(FileLine)
  <2>1. n \in Nat
    <3>1. MaxLines \in Nat
      BY ConfigTextAssumption
    <3>2. n \in 0 .. MaxLines
      OBVIOUS
    <3> QED  BY <3>1, <3>2
  <2> QED  BY <1>2, <2>1
<1>4. Readable(file)
  BY <1>3 DEF TextInit, Readable
<1> QED  BY <1>1, <1>3, <1>4 DEF TextInv

LEMMA GetIsValue ==
  ASSUME NEW f \in Seq(FileLine), NEW k
  PROVE  Get(f, k) \in Vals
<1>1. CASE Index(f, k) = {}
  BY <1>1, ConfigTextAssumption DEF Get
<1>2. CASE Index(f, k) # {}
  <2>1. First(f, k) \in 1 .. Len(f)
    BY <1>2, FirstIs
  <2>2. f[First(f, k)] \in FileLine
    BY <2>1, ElementOfSeq
  <2> QED  BY <1>2, <2>2 DEF Get, FileLine
<1> QED  BY <1>1, <1>2

LEMMA FillKeeps == TextInv /\ Fill => TextInv'
<1> SUFFICES ASSUME TextInv, Fill PROVE TextInv'
  OBVIOUS
<1>1. PICK b : /\ b = [i \in DOMAIN FormKeys |-> Get(Base, FormKeys[i])]
               /\ form' = [before |-> b, next |-> b]
  BY DEF Fill, Base
<1>2. b \in Fields
  <2>1. Base \in Seq(FileLine)
    BY BaseFits DEF TextInv, Fits
  <2>2. \A i \in DOMAIN FormKeys : Get(Base, FormKeys[i]) \in Vals
    BY <2>1, GetIsValue
  <2> QED  BY <1>1, <2>2 DEF Fields
<1>3. form'.before = b /\ form'.next = b /\ form' \in [before : Fields \cup {<<>>}, next : Fields \cup {<<>>}]
  BY <1>1, <1>2
<1> QED  BY <1>2, <1>3 DEF TextInv, Fill, Readable, Filled

LEMMA TypeKeeps == TextInv /\ Type => TextInv'
<1> SUFFICES ASSUME TextInv, Type PROVE TextInv'
  OBVIOUS
<1>1. PICK i \in DOMAIN FormKeys, v \in Vals : form' = [form EXCEPT !.next[i] = v]
  BY DEF Type
<1>2. form.next \in Fields /\ form.before \in Fields /\ form = [before |-> form.before, next |-> form.next]
  BY DEF TextInv, Type, Filled
<1>3. PICK t : t = [form.next EXCEPT ![i] = v]
  OBVIOUS
<1>4. t \in Fields
  BY <1>2, <1>3 DEF Fields
<1>5. form' = [before |-> form.before, next |-> t]
  BY <1>1, <1>2, <1>3
<1>6. form'.before = form.before /\ form'.next = t
  BY <1>5
<1> QED  BY <1>2, <1>4, <1>5, <1>6 DEF TextInv, Type, Readable, Filled

(* A file with the same ends can be parsed too.                            *)
LEMMA SameShapeReadable ==
  ASSUME NEW f, Readable(f), NEW h \in Seq(FileLine), Len(h) = Len(f),
         \A i \in 1 .. Len(f) : h[i].key = f[i].key /\ h[i].eol = f[i].eol
  PROVE  Readable(h)
<1>1. DOMAIN f = 1 .. Len(f) /\ DOMAIN h = 1 .. Len(h) /\ \A i \in 1 .. Len(f) - 1 : i \in 1 .. Len(f)
  BY LenProperties DEF Readable
<1> QED  BY <1>1 DEF Readable, Parsed

LEMMA ChangedReadable ==
  ASSUME NEW f, Readable(f), NEW i \in DOMAIN f, NEW v \in Vals
  PROVE  Readable([f EXCEPT ![i].val = v])
<1>1. f \in Seq(FileLine)
  BY DEF Readable
<1>2. PICK l \in Nat : l = Len(f) /\ DOMAIN f = 1 .. l /\ f = [j \in 1 .. l |-> f[j]]
                       /\ \A j \in 1 .. l : f[j] \in FileLine
  BY <1>1, LenProperties, ElementOfSeq
<1>3. PICK x \in FileLine : x = f[i]
  BY <1>2
<1>4. PICK y : y = [x EXCEPT !.val = v]
  OBVIOUS
<1>5. y \in FileLine /\ y.key = x.key /\ y.eol = x.eol
  BY <1>4 DEF FileLine
<1>6. PICK h : h = [f EXCEPT ![i] = y]
  OBVIOUS
<1>7. h = [f EXCEPT ![i].val = v]
  BY <1>2, <1>3, <1>4, <1>6
<1>8. h \in [1 .. l -> FileLine] /\ h[i] = y /\ \A j \in 1 .. l : j # i => h[j] = f[j]
  BY <1>2, <1>5, <1>6
<1>9. h \in Seq(FileLine) /\ Len(h) = l
  BY <1>8
<1>10. \A j \in 1 .. Len(f) : h[j].key = f[j].key /\ h[j].eol = f[j].eol
  BY <1>2, <1>3, <1>5, <1>8
<1>11. Readable(h)
  BY <1>2, <1>9, <1>10, SameShapeReadable
<1> QED  BY <1>7, <1>11

LEMMA RemovedReadable ==
  ASSUME NEW f, Readable(f), NEW i \in DOMAIN f
  PROVE  Readable(RemoveAt(f, i))
<1>1. f \in Seq(FileLine)
  BY DEF Readable
<1>2. PICK l \in Nat : l = Len(f) /\ DOMAIN f = 1 .. l /\ i \in 1 .. l
                       /\ \A j \in 1 .. l : f[j] \in FileLine
  BY <1>1, LenProperties, ElementOfSeq
<1>3. PICK a : a = SubSeq(f, 1, i - 1)
  OBVIOUS
<1>4. a \in Seq(FileLine) /\ Len(a) = i - 1 /\ \A j \in 1 .. i - 1 : a[j] = f[j]
  <2>1. \A j \in 1 .. i - 1 : f[j] \in FileLine
    BY <1>2
  <2>2. 1 \in Int /\ i - 1 \in Int
    BY <1>2
  <2>3. /\ SubSeq(f, 1, i - 1) \in Seq(FileLine)
        /\ Len(SubSeq(f, 1, i - 1)) = IF 1 <= i - 1 THEN (i - 1) - 1 + 1 ELSE 0
        /\ \A j \in 1 .. (i - 1) - 1 + 1 : SubSeq(f, 1, i - 1)[j] = f[1 + j - 1]
    BY <2>1, <2>2, SubSeqProperties
  <2> QED  BY <1>2, <1>3, <2>3
<1>5. PICK b : b = SubSeq(f, i + 1, Len(f))
  OBVIOUS
<1>6. b \in Seq(FileLine) /\ Len(b) = l - i /\ \A j \in 1 .. l - i : b[j] = f[i + j]
  <2>1. \A j \in i + 1 .. l : f[j] \in FileLine
    BY <1>2
  <2>2. i + 1 \in Int /\ l \in Int
    BY <1>2
  <2>3. /\ SubSeq(f, i + 1, l) \in Seq(FileLine)
        /\ Len(SubSeq(f, i + 1, l)) = IF i + 1 <= l THEN l - (i + 1) + 1 ELSE 0
        /\ \A j \in 1 .. l - (i + 1) + 1 : SubSeq(f, i + 1, l)[j] = f[(i + 1) + j - 1]
    BY <2>1, <2>2, SubSeqProperties
  <2> QED  BY <1>2, <1>5, <2>3
<1>7. PICK h : h = RemoveAt(f, i) /\ h = a \o b
  BY <1>3, <1>5 DEF RemoveAt
<1>8. h \in Seq(FileLine) /\ Len(h) = l - 1
      /\ \A j \in 1 .. l - 1 : h[j] = IF j <= i - 1 THEN f[j] ELSE f[j + 1]
  <2>1. /\ h \in Seq(FileLine) /\ Len(h) = Len(a) + Len(b)
        /\ \A j \in 1 .. Len(a) + Len(b) : h[j] = IF j <= Len(a) THEN a[j] ELSE b[j - Len(a)]
    <3>1. /\ a \o b \in Seq(FileLine) /\ Len(a \o b) = Len(a) + Len(b)
          /\ \A j \in 1 .. Len(a) + Len(b) :
               (a \o b)[j] = IF j <= Len(a) THEN a[j] ELSE b[j - Len(a)]
      <4>1. a \in Seq(FileLine) /\ b \in Seq(FileLine)
        BY <1>4, <1>6
      <4> QED  BY <4>1, ConcatProperties
    <3>2. h = a \o b
      BY <1>7
    <3> QED  BY <3>1, <3>2
  <2>2. ASSUME NEW j \in 1 .. l - 1  PROVE h[j] = IF j <= i - 1 THEN f[j] ELSE f[j + 1]
    <3>1. CASE j <= i - 1
      BY <1>2, <1>4, <1>6, <2>1, <3>1
    <3>2. CASE ~ (j <= i - 1)
      <4>1. j - (i - 1) \in 1 .. l - i /\ i + (j - (i - 1)) = j + 1
        BY <1>2, <3>2
      <4>2. h[j] = b[j - (i - 1)]
        BY <1>2, <1>4, <1>6, <2>1, <3>2
      <4> QED  BY <1>6, <3>2, <4>1, <4>2
    <3> QED  BY <3>1, <3>2
  <2>3. Len(h) = l - 1
    <3>1. (i - 1) + (l - i) = l - 1
      BY <1>2
    <3>2. Len(h) = Len(a) + Len(b) /\ Len(a) = i - 1 /\ Len(b) = l - i
      BY <1>4, <1>6, <2>1
    <3> QED  BY <3>1, <3>2
  <2> QED  BY <2>1, <2>2, <2>3
<1>9. Parsed(h)
  <2>1. ASSUME NEW j \in 1 .. l - 2  PROVE h[j].eol # ""
    <3>1. j \in 1 .. l - 1 /\ j \in 1 .. Len(f) - 1 /\ j + 1 \in 1 .. Len(f) - 1
      BY <1>2
    <3> QED  BY <1>8, <3>1 DEF Readable, Parsed
  <2>2. Len(h) - 1 = l - 2
    BY <1>2, <1>8
  <2> QED  BY <2>1, <2>2 DEF Parsed
<1> QED  BY <1>7, <1>8, <1>9 DEF Readable

(* Whatever others do, the file can be parsed.                             *)
LEMMA OthersEditKeeps == TextInv /\ OthersEdit => TextInv'
<1> SUFFICES ASSUME TextInv, OthersEdit PROVE TextInv'
  OBVIOUS
<1>1. PICK i \in DOMAIN file :
         \/ \E v \in Vals \ {file[i].val} : file' = [file EXCEPT ![i].val = v]
         \/ file' = RemoveAt(file, i)
  BY DEF OthersEdit
<1>2. Readable(file)
  BY DEF TextInv
<1>3. PICK h : h = file' /\ Readable(h)
  BY <1>1, <1>2, ChangedReadable, RemovedReadable
<1>4. fileKind' = fileKind /\ form' = form /\ former' = file'
  BY DEF OthersEdit
<1> QED  BY <1>3, <1>4 DEF TextInv, Readable, Filled

(* What was built is as was asked.                                         *)
LEMMA BuildsAsAsked == TextInv /\ Build => TextInv' /\ AsAsked
<1> SUFFICES ASSUME TextInv, Build PROVE TextInv' /\ AsAsked
  OBVIOUS
<1>1. fileKind \in {"env", "dropin"} /\ Readable(file) /\ Fits(Base) /\ Filled
  BY BaseFits DEF TextInv, Build
<1>2. PICK d : d = Edited /\ Fits(d) /\ SoFar(d, Len(FormKeys))
  BY <1>1, EditedIsSo
<1>3. PICK h : h = Built /\ file' = h
  BY DEF Build
<1>4. Readable(h) /\ Settings(h) = d
  BY <1>1, <1>2, <1>3, BuiltReads
<1>5. Settings(file') = d
  BY <1>3, <1>4
<1>6. former' = file /\ form' = [before |-> <<>>, next |-> <<>>] /\ fileKind' = fileKind
  BY DEF Build
<1>7. TextInv'
  BY <1>1, <1>3, <1>4, <1>6 DEF TextInv, Readable
<1>8. ASSUME NEW i \in DOMAIN FormKeys  PROVE FieldIsSet(i)
  <2>1. i <= Len(FormKeys)
    BY FormKeysLength
  <2>2. FieldDone(Base, d, i)
    BY <1>2, <2>1 DEF SoFar
  <2> QED  BY <1>5, <2>2 DEF FieldIsSet, FieldDone, Base
<1>9. Of(Settings(file'), Unknown) = Of(Settings(file), Unknown)
  BY <1>2, <1>5 DEF SoFar, Base
<1>10. fileKind = "env" /\ NoneAdded /\ file # <<>> /\ file' # <<>>
         => (Last(file').eol = "") = (Last(file).eol = "")
  <2>1. fileKind = "env" => Base = file /\ h = d
    BY <1>2, <1>3 DEF Base, Settings, Built
  <2> QED  BY <1>2, <1>3, <2>1 DEF SoFar, EndsAs
<1>11. Parsed(file')
  BY <1>3, <1>4 DEF Readable
<1> QED  BY <1>7, <1>8, <1>9, <1>10, <1>11 DEF AsAsked

LEMMA TextStep == TextInv /\ [TextNext]_textVars
                    => TextInv' /\ (form.before # <<>> /\ form'.before = <<>> => AsAsked)
<1> SUFFICES ASSUME TextInv, [TextNext]_textVars
             PROVE  TextInv' /\ (form.before # <<>> /\ form'.before = <<>> => AsAsked)
  OBVIOUS
<1>1. CASE Fill
  BY <1>1, FillKeeps DEF Fill
<1>2. CASE Type
  <2>1. form'.before = form.before
    BY <1>2 DEF Type, TextInv
  <2> QED  BY <1>2, <2>1, TypeKeeps
<1>3. CASE OthersEdit
  BY <1>3, OthersEditKeeps DEF OthersEdit
<1>4. CASE Build
  BY <1>4, BuildsAsAsked
<1>5. CASE UNCHANGED textVars
  BY <1>5 DEF textVars, TextInv, Readable, Filled
<1> QED  BY <1>1, <1>2, <1>3, <1>4, <1>5 DEF TextNext

(* A change to .env, or to the directives of a drop-in, does what the form *)
(* says and nothing else, for any form, any file - of a drop-in also one   *)
(* with comments, blank lines and other sections, which are not kept - and *)
(* any edits of others meanwhile.                                          *)
THEOREM ChangesAreAsAsked == TextSpec => EditsOnlyAsked
<1>1. TextInit => TextInv
  BY TextStarts
<1>2. TextInv /\ [TextNext]_textVars
        => TextInv' /\ (form.before # <<>> /\ form'.before = <<>> => AsAsked)
  BY TextStep
<1> QED  BY <1>1, <1>2, PTL DEF TextSpec, EditsOnlyAsked

-----------------------------------------------------------------------------
(* The diff. *)

DiffLine == [mark : {" ", "-", "+"}, line : Entries]

(* The lines with a mark in M, one line more at a time.                    *)
Shows(d, M, g) ==
  /\ g \in [0 .. Len(d) -> Seq(Entries)] /\ g[0] = <<>>
  /\ \A i \in 1 .. Len(d) : g[i] = IF d[i].mark \in M THEN Append(g[i - 1], d[i].line) ELSE g[i - 1]

LEMMA WithMarkShows ==
  ASSUME NEW d \in Seq(DiffLine), NEW M
  PROVE  \E g : Shows(d, M, g) /\ WithMark(d, M) = g[Len(d)]
<1> DEFINE n == Len(d)
           Q == Seq(Entries)
           step == [p \in Q \X (1 .. n) |->
                      IF d[p[2]].mark \in M THEN Append(p[1], d[p[2]].line) ELSE p[1]]
<1>0. n \in Nat /\ <<>> \in Q
  BY LenProperties, EmptySeq
<1>1. step \in [Q \X (1 .. n) -> Q]
  <2>1. ASSUME NEW i \in 1 .. n  PROVE d[i].line \in Entries
    <3>1. d[i] \in DiffLine
      BY ElementOfSeq
    <3> QED  BY <3>1 DEF DiffLine, Entries
  <2>2. \A s \in Q, i \in 1 .. n : Append(s, d[i].line) \in Q
    BY <2>1, AppendProperties
  <2> QED  BY <2>2
<1>2. PICK g : Goes(Q, n, <<>>, step, g)
  <2> HIDE DEF Q, step, n
  <2> QED  BY <1>0, <1>1, Recursion
<1>3. Shows(d, M, g)
  <2>1. ASSUME NEW i \in 1 .. n
        PROVE  g[i] = IF d[i].mark \in M THEN Append(g[i - 1], d[i].line) ELSE g[i - 1]
    <3>1. g[i - 1] \in Q
      BY <1>0, <1>2 DEF Goes
    <3>2. step[<<g[i - 1], i>>] = IF d[i].mark \in M THEN Append(g[i - 1], d[i].line) ELSE g[i - 1]
      BY <3>1
    <3> QED  BY <1>2, <3>2 DEF Goes
  <2> QED  BY <1>2, <2>1 DEF Shows, Goes
<1> DEFINE Def(u) == [k \in 0 .. Len(d) |->
                        IF k = 0 THEN <<>>
                        ELSE IF d[k].mark \in M
                        THEN Append(u[k - 1], d[k].line) ELSE u[k - 1]]
           s == CHOOSE u : u = Def(u)
<1>4. g = Def(g)
  <2>1. ASSUME NEW k \in 0 .. Len(d)  PROVE g[k] = Def(g)[k]
    <3>1. CASE k = 0
      BY <1>2, <3>1 DEF Goes
    <3>2. CASE k # 0
      <4>1. k \in 1 .. Len(d)
        BY <1>0, <3>2
      <4> QED  BY <1>3, <3>2, <4>1 DEF Shows
    <3> QED  BY <3>1, <3>2
  <2> QED  BY <1>2, <2>1 DEF Goes
<1>5. WithMark(d, M) = s[Len(d)]
  BY DEF WithMark
<1>6. s = Def(s)
  <2> HIDE DEF Def
  <2> QED  BY <1>4
<1> HIDE DEF s, step
<1>7. s = g
  <2>1. DOMAIN s = 0 .. n /\ s = [k \in DOMAIN s |-> s[k]] /\ s[0] = g[0]
    BY <1>0, <1>2, <1>6 DEF Goes
  <2>2. DOMAIN g = 0 .. n /\ g = [k \in DOMAIN g |-> g[k]]
    BY <1>2 DEF Goes
  <2>3. ASSUME NEW k \in 1 .. n, s[k - 1] = g[k - 1]  PROVE s[k] = g[k]
    <3>1. s[k] = Def(s)[k] /\ g[k] = Def(g)[k]
      BY <1>4, <1>6
    <3> QED  BY <2>3, <3>1
  <2> HIDE DEF Def, n
  <2> QED  BY <1>0, <2>1, <2>2, <2>3, SameCourse
<1> QED  BY <1>3, <1>5, <1>7

(* What WithMark returns.                                                  *)
LEMMA WithMarkIs ==
  ASSUME NEW d \in Seq(DiffLine), NEW M, NEW g, Shows(d, M, g)
  PROVE  WithMark(d, M) = g[Len(d)] /\ WithMark(d, M) \in Seq(Entries)
<1>1. PICK h : Shows(d, M, h) /\ WithMark(d, M) = h[Len(d)]
  BY WithMarkShows
<1>2. Len(d) \in Nat
  BY LenProperties
<1>3. h = g
  <2>1. DOMAIN h = 0 .. Len(d) /\ DOMAIN g = 0 .. Len(d) /\ h[0] = g[0]
        /\ h = [k \in DOMAIN h |-> h[k]] /\ g = [k \in DOMAIN g |-> g[k]]
    BY <1>1 DEF Shows
  <2>2. \A k \in 1 .. Len(d) : h[k - 1] = g[k - 1] => h[k] = g[k]
    BY <1>1 DEF Shows
  <2> QED  BY <1>2, <2>1, <2>2, SameCourse
<1> QED  BY <1>1, <1>2, <1>3 DEF Shows

LEMMA WithMarkAppend ==
  ASSUME NEW d \in Seq(DiffLine), NEW x \in DiffLine, NEW M
  PROVE  WithMark(Append(d, x), M) = IF x.mark \in M THEN Append(WithMark(d, M), x.line) ELSE WithMark(d, M)
<1> DEFINE n == Len(d)
           e == Append(d, x)
<1>1. n \in Nat /\ e \in Seq(DiffLine) /\ Len(e) = n + 1 /\ e[n + 1] = x
      /\ \A i \in 1 .. n : e[i] = d[i]
  BY LenProperties, AppendProperties
<1>2. PICK g : Shows(d, M, g) /\ WithMark(d, M) = g[n]
  BY WithMarkShows
<1> DEFINE last == IF x.mark \in M THEN Append(g[n], x.line) ELSE g[n]
           h == [k \in 0 .. n + 1 |-> IF k = n + 1 THEN last ELSE g[k]]
<1>3. last \in Seq(Entries)
  <2>1. g[n] \in Seq(Entries)
    BY <1>1, <1>2 DEF Shows
  <2>2. x.line \in Entries
    BY DEF Entries, DiffLine
  <2> QED  BY <2>1, <2>2, AppendProperties
<1> HIDE DEF n, e, last
<1>4. h \in [0 .. n + 1 -> Seq(Entries)] /\ h[0] = <<>> /\ h[n + 1] = last
      /\ \A k \in 0 .. n : h[k] = g[k]
  <2>1. g \in [0 .. n -> Seq(Entries)] /\ g[0] = <<>>
    BY <1>2 DEF Shows, n
  <2>2. 0 # n + 1 /\ 0 \in 0 .. n + 1 /\ n + 1 \in 0 .. n + 1
    BY <1>1
  <2>3. \A k \in 0 .. n : k # n + 1 /\ k \in 0 .. n + 1
    BY <1>1
  <2>4. \A k \in 0 .. n + 1 : k = n + 1 \/ k \in 0 .. n
    BY <1>1
  <2> QED  BY <1>3, <2>1, <2>2, <2>3, <2>4
<1> HIDE DEF h
<1>5. Shows(e, M, h)
  <2>1. ASSUME NEW i \in 1 .. n + 1
        PROVE  h[i] = IF e[i].mark \in M THEN Append(h[i - 1], e[i].line) ELSE h[i - 1]
    <3>1. CASE i = n + 1
      <4>1. h[i - 1] = g[n]
        BY <1>1, <1>4, <3>1
      <4> QED  BY <1>1, <1>4, <3>1, <4>1 DEF last
    <3>2. CASE i # n + 1
      <4>1. i \in 1 .. n /\ i - 1 \in 0 .. n /\ i \in 0 .. n
        BY <1>1, <3>2
      <4>2. g[i] = IF d[i].mark \in M THEN Append(g[i - 1], d[i].line) ELSE g[i - 1]
        BY <1>2, <4>1 DEF Shows, n
      <4> QED  BY <1>1, <1>4, <4>1, <4>2
    <3> QED  BY <3>1, <3>2
  <2> QED  BY <1>1, <1>4, <2>1 DEF Shows
<1>6. WithMark(e, M) = h[n + 1]
  BY <1>1, <1>5, WithMarkIs
<1> QED  BY <1>2, <1>4, <1>6 DEF last, e, n

LEMMA WithMarkEmpty ==
  ASSUME NEW M
  PROVE  WithMark(<<>>, M) = <<>>
<1>1. <<>> \in Seq(DiffLine) /\ Len(<<>>) = 0
  BY EmptySeq
<1>2. PICK g : Shows(<<>>, M, g) /\ WithMark(<<>>, M) = g[Len(<<>>)]
  BY <1>1, WithMarkShows
<1> QED  BY <1>1, <1>2 DEF Shows

(* The table of lcs: how much the last m lines of a and the last n of b    *)
(* have in common.                                                         *)
Tables(a, b, t) ==
  /\ t \in [0 .. Len(a) -> [0 .. Len(b) -> Nat]]
  /\ \A m \in 0 .. Len(a), n \in 0 .. Len(b) : m = 0 \/ n = 0 => t[m][n] = 0
  /\ \A m \in 1 .. Len(a), n \in 1 .. Len(b) :
       t[m][n] = IF a[Len(a) + 1 - m] = b[Len(b) + 1 - n] THEN t[m - 1][n - 1] + 1
                 ELSE IF t[m - 1][n] >= t[m][n - 1] THEN t[m - 1][n] ELSE t[m][n - 1]

LEMMA MaxOfTwo ==
  ASSUME NEW x \in Nat, NEW y \in Nat
  PROVE  Max({x, y}) = IF x >= y THEN x ELSE y
<1> DEFINE m == CHOOSE z \in {x, y} : \A u \in {x, y} : z >= u
<1>1. \E z \in {x, y} : \A u \in {x, y} : z >= u
  <2>1. x >= y \/ y >= x
    OBVIOUS
  <2>2. x >= x /\ y >= y
    OBVIOUS
  <2> QED  BY <2>1, <2>2
<1>2. m \in {x, y} /\ \A u \in {x, y} : m >= u
  BY <1>1
<1>3. Max({x, y}) = m
  BY DEF Max
<1> HIDE DEF m
<1> QED  BY <1>2, <1>3

RowSteps(a, b, below, m, r) ==
  /\ r \in [0 .. Len(b) -> Nat] /\ r[0] = 0
  /\ \A n \in 1 .. Len(b) :
       r[n] = IF a[Len(a) + 1 - m] = b[Len(b) + 1 - n] THEN below[n - 1] + 1
              ELSE Max({below[n], r[n - 1]})

(* A row of the table follows from the one before.                         *)
LEMMA RowIs ==
  ASSUME NEW a, NEW b, Len(b) \in Nat, NEW below \in [0 .. Len(b) -> Nat], NEW m
  PROVE  RowSteps(a, b, below, m, Row(a, b, below, m))
<1> DEFINE l == Len(b)
           More(x, n) == IF a[Len(a) + 1 - m] = b[Len(b) + 1 - n] THEN below[n - 1] + 1
                         ELSE Max({below[n], x})
           step == [p \in Nat \X (1 .. l) |-> More(p[1], p[2])]
<1>0. l \in Nat
  OBVIOUS
<1>1. step \in [Nat \X (1 .. l) -> Nat]
  <2>1. ASSUME NEW x \in Nat, NEW n \in 1 .. l  PROVE More(x, n) \in Nat
    <3>1. below[n - 1] \in Nat /\ below[n] \in Nat
      <4>1. n - 1 \in 0 .. l /\ n \in 0 .. l
        BY <1>0
      <4> QED  BY <4>1
    <3>2. Max({below[n], x}) = IF below[n] >= x THEN below[n] ELSE x
      BY <3>1, MaxOfTwo
    <3> QED  BY <3>1, <3>2
  <2> HIDE DEF More
  <2> QED  BY <2>1
<1>2. PICK g : Goes(Nat, l, 0, step, g)
  <2> HIDE DEF step, l
  <2> QED  BY <1>0, <1>1, Recursion
<1>3. g \in [0 .. l -> Nat] /\ g[0] = 0 /\ \A n \in 1 .. l : g[n] = More(g[n - 1], n)
  <2>1. ASSUME NEW n \in 1 .. l  PROVE g[n] = More(g[n - 1], n)
    <3> HIDE DEF More
    <3>1. g[n - 1] \in Nat
      BY <1>0, <1>2 DEF Goes
    <3>2. step[<<g[n - 1], n>>] = More(g[n - 1], n)
      BY <3>1
    <3> QED  BY <1>2, <3>2 DEF Goes
  <2> QED  BY <1>2, <2>1 DEF Goes
<1> DEFINE Def(u) == [n \in 0 .. Len(b) |->
                        IF n = 0 THEN 0
                        ELSE IF a[Len(a) + 1 - m] = b[Len(b) + 1 - n] THEN below[n - 1] + 1
                        ELSE Max({below[n], u[n - 1]})]
           s == CHOOSE u : u = Def(u)
<1>4. g = Def(g)
  <2>1. ASSUME NEW n \in 0 .. Len(b)  PROVE g[n] = Def(g)[n]
    <3>1. CASE n = 0
      BY <1>3, <3>1
    <3>2. CASE n # 0
      <4>1. n \in 1 .. Len(b)
        BY <1>0, <3>2
      <4> QED  BY <1>3, <3>2, <4>1
    <3> QED  BY <3>1, <3>2
  <2> QED  BY <1>3, <2>1
<1>5. Row(a, b, below, m) = s
  BY DEF Row
<1>6. s = Def(s)
  <2> HIDE DEF Def
  <2> QED  BY <1>4
<1> HIDE DEF s, step
<1>7. s = g
  <2>1. DOMAIN s = 0 .. l /\ s = [n \in DOMAIN s |-> s[n]] /\ s[0] = g[0]
    BY <1>0, <1>3, <1>6
  <2>2. DOMAIN g = 0 .. l /\ g = [n \in DOMAIN g |-> g[n]]
    BY <1>3
  <2>3. ASSUME NEW n \in 1 .. l, s[n - 1] = g[n - 1]  PROVE s[n] = g[n]
    <3>1. s[n] = Def(s)[n] /\ g[n] = Def(g)[n]
      BY <1>4, <1>6
    <3> QED  BY <2>3, <3>1
  <2> HIDE DEF Def, l
  <2> QED  BY <1>0, <2>1, <2>2, <2>3, SameCourse
<1> QED  BY <1>3, <1>5, <1>7 DEF RowSteps

LEMMA CommonTables ==
  ASSUME NEW a, NEW b, Len(a) \in Nat, Len(b) \in Nat
  PROVE  Tables(a, b, Common(a, b))
<1> DEFINE l == Len(a)
           Q == [0 .. Len(b) -> Nat]
           first == [n \in 0 .. Len(b) |-> 0]
           step == [p \in Q \X (1 .. l) |-> Row(a, b, p[1], p[2])]
<1>0. l \in Nat /\ first \in Q
  OBVIOUS
<1>1. step \in [Q \X (1 .. l) -> Q]
  <2>1. ASSUME NEW x \in Q, NEW m \in 1 .. l  PROVE Row(a, b, x, m) \in Q
    BY RowIs DEF RowSteps
  <2> QED  BY <2>1
<1>2. PICK g : Goes(Q, l, first, step, g)
  <2> HIDE DEF Q, step, l, first
  <2> QED  BY <1>0, <1>1, Recursion
<1>3. g \in [0 .. l -> Q] /\ g[0] = first /\ \A m \in 1 .. l : g[m] = Row(a, b, g[m - 1], m)
  <2>1. ASSUME NEW m \in 1 .. l  PROVE g[m] = Row(a, b, g[m - 1], m)
    <3>1. g[m - 1] \in Q
      <4>1. m - 1 \in 0 .. l
        BY <1>0
      <4> QED  BY <1>2, <4>1 DEF Goes
    <3>2. step[<<g[m - 1], m>>] = Row(a, b, g[m - 1], m)
      <4> HIDE DEF Q
      <4> QED  BY <3>1
    <3> QED  BY <1>2, <3>2 DEF Goes
  <2> HIDE DEF Q, first
  <2> QED  BY <1>2, <2>1 DEF Goes
<1> DEFINE Def(u) == [m \in 0 .. Len(a) |->
                        IF m = 0 THEN [n \in 0 .. Len(b) |-> 0] ELSE Row(a, b, u[m - 1], m)]
           s == CHOOSE u : u = Def(u)
<1>4. g = Def(g)
  <2>1. ASSUME NEW m \in 0 .. Len(a)  PROVE g[m] = Def(g)[m]
    <3>1. CASE m = 0
      BY <1>3, <3>1
    <3>2. CASE m # 0
      <4>1. m \in 1 .. Len(a)
        BY <1>0, <3>2
      <4> QED  BY <1>3, <3>2, <4>1
    <3> QED  BY <3>1, <3>2
  <2> HIDE DEF Q
  <2>2. g = [m \in 0 .. l |-> g[m]]
    BY <1>3
  <2> QED  BY <2>1, <2>2
<1>5. Common(a, b) = s
  BY DEF Common
<1>6. s = Def(s)
  <2> HIDE DEF Def
  <2> QED  BY <1>4
<1> HIDE DEF s, step
<1>7. s = g
  <2>1. DOMAIN s = 0 .. l /\ s = [m \in DOMAIN s |-> s[m]] /\ s[0] = g[0]
    BY <1>0, <1>3, <1>6
  <2>2. DOMAIN g = 0 .. l /\ g = [m \in DOMAIN g |-> g[m]]
    <3> HIDE DEF Q
    <3> QED  BY <1>3
  <2>3. ASSUME NEW m \in 1 .. l, s[m - 1] = g[m - 1]  PROVE s[m] = g[m]
    <3>1. s[m] = Def(s)[m] /\ g[m] = Def(g)[m]
      BY <1>4, <1>6
    <3> QED  BY <2>3, <3>1
  <2> HIDE DEF Def, l
  <2> QED  BY <1>0, <2>1, <2>2, <2>3, SameCourse
<1>8. ASSUME NEW m \in 0 .. l  PROVE g[m] \in Q /\ g[m][0] = 0
  <2>1. g[m] \in Q
    <3> HIDE DEF Q
    <3> QED  BY <1>3
  <2>2. CASE m = 0
    BY <1>3, <2>1, <2>2
  <2>3. CASE m # 0
    <3>1. m - 1 \in 0 .. l /\ m \in 1 .. l
      BY <1>0, <2>3
    <3>2. g[m - 1] \in Q
      <4> HIDE DEF Q
      <4> QED  BY <1>3, <3>1
    <3>3. RowSteps(a, b, g[m - 1], m, g[m])
      BY <1>3, <3>1, <3>2, RowIs
    <3> QED  BY <2>1, <3>3 DEF RowSteps
  <2> QED  BY <2>2, <2>3
<1>9. ASSUME NEW m \in 1 .. Len(a), NEW n \in 1 .. Len(b)
      PROVE  g[m][n] = IF a[Len(a) + 1 - m] = b[Len(b) + 1 - n] THEN g[m - 1][n - 1] + 1
                       ELSE IF g[m - 1][n] >= g[m][n - 1] THEN g[m - 1][n] ELSE g[m][n - 1]
  <2>1. m - 1 \in 0 .. l /\ m \in 0 .. l /\ n - 1 \in 0 .. Len(b) /\ n \in 0 .. Len(b)
    BY <1>0
  <2>2. g[m - 1] \in Q /\ g[m] \in Q
    BY <1>8, <2>1
  <2>3. RowSteps(a, b, g[m - 1], m, g[m])
    BY <1>3, <2>1, <2>2, RowIs
  <2>4. g[m - 1][n] \in Nat /\ g[m][n - 1] \in Nat
    BY <2>1, <2>2
  <2>5. Max({g[m - 1][n], g[m][n - 1]})
          = IF g[m - 1][n] >= g[m][n - 1] THEN g[m - 1][n] ELSE g[m][n - 1]
    BY <2>4, MaxOfTwo
  <2> QED  BY <2>3, <2>5 DEF RowSteps
<1>10. ASSUME NEW m \in 0 .. Len(a), NEW n \in 0 .. Len(b), m = 0 \/ n = 0  PROVE g[m][n] = 0
  BY <1>3, <1>8, <1>10
<1>11. g \in [0 .. Len(a) -> [0 .. Len(b) -> Nat]]
  BY <1>3
<1> HIDE DEF Q, l
<1>12. Tables(a, b, g)
  BY <1>9, <1>10, <1>11 DEF Tables
<1> QED  BY <1>5, <1>7, <1>12

LEMMA OneMore ==
  ASSUME NEW a \in Seq(Entries), NEW i \in 1 .. Len(a)
  PROVE  SubSeq(a, 1, i) = Append(SubSeq(a, 1, i - 1), a[i])
<1>1. 1 \in 1 .. Len(a) /\ i \in 1 .. Len(a) /\ i - 1 \in Int /\ Len(a) \in Nat
  BY LenProperties
<1>2. SubSeq(a, 1, i) = SubSeq(a, 1, i - 1) \o <<a[i]>>
  BY <1>1, SubSeqRecursiveSecond
<1>3. a[i] \in Entries /\ \A j \in 1 .. i - 1 : a[j] \in Entries
  <2>1. \A j \in 1 .. i - 1 : j \in 1 .. Len(a)
    BY <1>1
  <2> QED  BY <2>1, ElementOfSeq
<1>4. SubSeq(a, 1, i - 1) \in Seq(Entries)
  BY <1>1, <1>3, SubSeqProperties
<1>5. Append(SubSeq(a, 1, i - 1), a[i]) = SubSeq(a, 1, i - 1) \o <<a[i]>>
  BY <1>3, <1>4, AppendIsConcat
<1> QED  BY <1>2, <1>5

(* The walk has shown what is behind it, and as much in common as it can.  *)
WalkedTo(a, b, t, m, n, d) ==
  /\ m \in 0 .. Len(a) /\ n \in 0 .. Len(b) /\ d \in Seq(DiffLine)
  /\ WithMark(d, {" ", "-"}) = SubSeq(a, 1, Len(a) - m)
  /\ WithMark(d, {" ", "+"}) = SubSeq(b, 1, Len(b) - n)
  /\ Len(WithMark(d, {" "})) + t[m][n] = t[Len(a)][Len(b)]

(* A line more is shown.                                                   *)
ShowsNext(d, e, mark, l) ==
  /\ e \in Seq(DiffLine)
  /\ \A M : WithMark(e, M) = IF mark \in M THEN Append(WithMark(d, M), l) ELSE WithMark(d, M)

LEMMA LineShown ==
  ASSUME NEW d \in Seq(DiffLine), NEW l \in Entries, NEW mark \in {" ", "-", "+"}
  PROVE  ShowsNext(d, Append(d, Marked(mark, l)), mark, l)
<1>1. PICK x : x = Marked(mark, l)
  OBVIOUS
<1>2. x \in DiffLine /\ x.mark = mark /\ x.line = l
  BY <1>1 DEF Marked, DiffLine
<1>3. Append(d, x) \in Seq(DiffLine)
  BY <1>2, AppendProperties
<1>4. ASSUME NEW M  PROVE WithMark(Append(d, x), M)
                            = IF mark \in M THEN Append(WithMark(d, M), l) ELSE WithMark(d, M)
  <2>1. WithMark(Append(d, x), M)
          = IF x.mark \in M THEN Append(WithMark(d, M), x.line) ELSE WithMark(d, M)
    BY <1>2, WithMarkAppend
  <2> QED  BY <1>2, <2>1
<1> QED  BY <1>1, <1>3, <1>4 DEF ShowsNext

(* The first line of the last m, after as many as are before it.           *)
LEMMA FirstOfLast ==
  ASSUME NEW a \in Seq(Entries), NEW m \in 1 .. Len(a)
  PROVE  /\ a[Len(a) + 1 - m] \in Entries /\ m - 1 \in 0 .. Len(a) /\ m \in 0 .. Len(a)
         /\ SubSeq(a, 1, Len(a) - (m - 1)) = Append(SubSeq(a, 1, Len(a) - m), a[Len(a) + 1 - m])
<1>1. PICK l \in Nat : l = Len(a)
  BY LenProperties
<1>2. PICK i \in 1 .. l : i = l + 1 - m
  <2>1. m \in 1 .. l
    BY <1>1
  <2>2. l + 1 - m \in 1 .. l
    BY ONLY l \in Nat, <2>1
  <2> QED  BY <2>2
<1>3. i - 1 = l - m /\ i = l - (m - 1) /\ m - 1 \in 0 .. l /\ m \in 0 .. l
  BY <1>1, <1>2
<1>4. a[i] \in Entries /\ SubSeq(a, 1, i) = Append(SubSeq(a, 1, i - 1), a[i])
  BY <1>1, <1>2, ElementOfSeq, OneMore
<1> QED  BY <1>1, <1>2, <1>3, <1>4

(* A step of the walk: a common line, ...                                  *)
LEMMA WalkCommon ==
  ASSUME NEW a \in Seq(Entries), NEW b \in Seq(Entries), NEW t, Tables(a, b, t),
         NEW m \in 1 .. Len(a), NEW n \in 1 .. Len(b), NEW d, WalkedTo(a, b, t, m, n, d),
         NEW l, l = a[Len(a) + 1 - m], l = b[Len(b) + 1 - n]
  PROVE  WalkedTo(a, b, t, m - 1, n - 1, Append(d, Marked(" ", l)))
<1>1. PICK e : e = Append(d, Marked(" ", l))
  OBVIOUS
<1>2. /\ l \in Entries /\ m - 1 \in 0 .. Len(a) /\ n - 1 \in 0 .. Len(b)
      /\ SubSeq(a, 1, Len(a) - (m - 1)) = Append(SubSeq(a, 1, Len(a) - m), l)
      /\ SubSeq(b, 1, Len(b) - (n - 1)) = Append(SubSeq(b, 1, Len(b) - n), l)
  BY FirstOfLast
<1>3. d \in Seq(DiffLine)
  BY DEF WalkedTo
<1>4. ShowsNext(d, e, " ", l)
  BY <1>1, <1>2, <1>3, LineShown
<1>5. PICK c \in Seq(Entries) : c = WithMark(d, {" "})
  BY <1>3, WithMarkShows, WithMarkIs
<1>6. WithMark(e, {" ", "-"}) = Append(WithMark(d, {" ", "-"}), l)
      /\ WithMark(e, {" ", "+"}) = Append(WithMark(d, {" ", "+"}), l)
      /\ WithMark(e, {" "}) = Append(c, l)
  BY <1>4, <1>5 DEF ShowsNext
<1>7. Len(Append(c, l)) = Len(c) + 1 /\ Len(c) \in Nat
  BY <1>2, AppendProperties, LenProperties
<1>8. t[m][n] = t[m - 1][n - 1] + 1 /\ t[m - 1][n - 1] \in Nat
  BY <1>2 DEF Tables
<1>9. Len(c) + t[m][n] = t[Len(a)][Len(b)]
  BY <1>5 DEF WalkedTo
<1>10. Len(WithMark(e, {" "})) + t[m - 1][n - 1] = t[Len(a)][Len(b)]
  <2>1. PICK x \in Nat, y \in Nat : x = t[m - 1][n - 1] /\ y = Len(c)
    BY <1>7, <1>8
  <2>2. t[m][n] = x + 1 /\ Len(WithMark(e, {" "})) = y + 1
    BY <1>6, <1>7, <1>8, <2>1
  <2>3. y + (x + 1) = t[Len(a)][Len(b)]
    BY <1>9, <2>1, <2>2
  <2>4. (y + 1) + x = y + (x + 1)
    OBVIOUS
  <2> QED  BY <2>1, <2>2, <2>3, <2>4
<1>11. e \in Seq(DiffLine)
  BY <1>4 DEF ShowsNext
<1>12. WithMark(e, {" ", "-"}) = SubSeq(a, 1, Len(a) - (m - 1))
       /\ WithMark(e, {" ", "+"}) = SubSeq(b, 1, Len(b) - (n - 1))
  BY <1>2, <1>6 DEF WalkedTo
<1>13. WalkedTo(a, b, t, m - 1, n - 1, e)
  BY <1>2, <1>10, <1>11, <1>12 DEF WalkedTo
<1> QED  BY <1>1, <1>13

(* ... one of the old file, ...                                            *)
LEMMA WalkRemoves ==
  ASSUME NEW a \in Seq(Entries), NEW b \in Seq(Entries), NEW t, Tables(a, b, t),
         NEW m \in 1 .. Len(a), NEW n \in 0 .. Len(b), NEW d, WalkedTo(a, b, t, m, n, d),
         n # 0 => a[Len(a) + 1 - m] # b[Len(b) + 1 - n] /\ RemoveBefore(t, m, n)
  PROVE  WalkedTo(a, b, t, m - 1, n, Append(d, Marked("-", a[Len(a) + 1 - m])))
<1>1. PICK l, e : l = a[Len(a) + 1 - m] /\ e = Append(d, Marked("-", l))
  OBVIOUS
<1>2. /\ l \in Entries /\ m - 1 \in 0 .. Len(a) /\ m \in 0 .. Len(a)
      /\ SubSeq(a, 1, Len(a) - (m - 1)) = Append(SubSeq(a, 1, Len(a) - m), l)
  BY <1>1, FirstOfLast
<1>3. d \in Seq(DiffLine)
  BY DEF WalkedTo
<1>4. ShowsNext(d, e, "-", l)
  BY <1>1, <1>2, <1>3, LineShown
<1>5. WithMark(e, {" ", "-"}) = Append(WithMark(d, {" ", "-"}), l)
      /\ WithMark(e, {" ", "+"}) = WithMark(d, {" ", "+"})
      /\ WithMark(e, {" "}) = WithMark(d, {" "}) /\ e \in Seq(DiffLine)
  BY <1>4 DEF ShowsNext
<1>6. t[m][n] = t[m - 1][n]
  <2>1. CASE n = 0
    BY <1>2, <2>1 DEF Tables
  <2>2. CASE n # 0
    <3>1. n \in 1 .. Len(b)
      BY <2>2, LenProperties
    <3>2. a[Len(a) + 1 - m] # b[Len(b) + 1 - n] /\ t[m - 1][n] >= t[m][n - 1]
      BY <2>2 DEF RemoveBefore
    <3> QED  BY <3>1, <3>2 DEF Tables
  <2> QED  BY <2>1, <2>2
<1>7. WalkedTo(a, b, t, m - 1, n, e)
  BY <1>2, <1>5, <1>6 DEF WalkedTo
<1> QED  BY <1>1, <1>7

(* ... or one of the new file is shown.                                    *)
LEMMA WalkAdds ==
  ASSUME NEW a \in Seq(Entries), NEW b \in Seq(Entries), NEW t, Tables(a, b, t),
         NEW m \in 0 .. Len(a), NEW n \in 1 .. Len(b), NEW d, WalkedTo(a, b, t, m, n, d),
         m # 0 => a[Len(a) + 1 - m] # b[Len(b) + 1 - n] /\ ~ RemoveBefore(t, m, n)
  PROVE  WalkedTo(a, b, t, m, n - 1, Append(d, Marked("+", b[Len(b) + 1 - n])))
<1>1. PICK l, e : l = b[Len(b) + 1 - n] /\ e = Append(d, Marked("+", l))
  OBVIOUS
<1>2. /\ l \in Entries /\ n - 1 \in 0 .. Len(b) /\ n \in 0 .. Len(b)
      /\ SubSeq(b, 1, Len(b) - (n - 1)) = Append(SubSeq(b, 1, Len(b) - n), l)
  BY <1>1, FirstOfLast
<1>3. d \in Seq(DiffLine)
  BY DEF WalkedTo
<1>4. ShowsNext(d, e, "+", l)
  BY <1>1, <1>2, <1>3, LineShown
<1>5. WithMark(e, {" ", "+"}) = Append(WithMark(d, {" ", "+"}), l)
      /\ WithMark(e, {" ", "-"}) = WithMark(d, {" ", "-"})
      /\ WithMark(e, {" "}) = WithMark(d, {" "}) /\ e \in Seq(DiffLine)
  BY <1>4 DEF ShowsNext
<1>6. t[m][n] = t[m][n - 1]
  <2>1. CASE m = 0
    BY <1>2, <2>1 DEF Tables
  <2>2. CASE m # 0
    <3>1. m \in 1 .. Len(a)
      BY <2>2, LenProperties
    <3>2. a[Len(a) + 1 - m] # b[Len(b) + 1 - n] /\ ~ (t[m - 1][n] >= t[m][n - 1])
      BY <2>2 DEF RemoveBefore
    <3> QED  BY <3>1, <3>2 DEF Tables
  <2> QED  BY <2>1, <2>2
<1>7. WalkedTo(a, b, t, m, n - 1, e)
  BY <1>2, <1>5, <1>6 DEF WalkedTo
<1> QED  BY <1>1, <1>7

Places(a, b) == [m : 0 .. Len(a), n : 0 .. Len(b), out : Seq(DiffLine)]

Walked(a, b, t, w) == w \in Places(a, b) /\ WalkedTo(a, b, t, w.m, w.n, w.out)

Further(w, x) ==
  IF w.m = 0 /\ w.n = 0 THEN x = w ELSE x.m + x.n = w.m + w.n - 1 \/ x.m + x.n = w.m + w.n - 2

(* The walk gets further with each step until nothing is left.             *)
LEMMA WalkGoesOn ==
  ASSUME NEW a \in Seq(Entries), NEW b \in Seq(Entries), NEW t, Tables(a, b, t),
         NEW w, Walked(a, b, t, w)
  PROVE  Walked(a, b, t, Walk(t, a, b, w)) /\ Further(w, Walk(t, a, b, w))
<1>1. PICK m \in 0 .. Len(a), n \in 0 .. Len(b), d \in Seq(DiffLine) :
         m = w.m /\ n = w.n /\ d = w.out
  BY DEF Walked, Places
<1>2. Len(a) \in Nat /\ Len(b) \in Nat
  BY LenProperties
<1>3. PICK l, c, x : l = a[Len(a) + 1 - m] /\ c = b[Len(b) + 1 - n] /\ x = Walk(t, a, b, w)
  OBVIOUS
<1>4. x = IF m = 0 /\ n = 0 THEN w
          ELSE IF m > 0 /\ n > 0 /\ l = c
          THEN [m |-> m - 1, n |-> n - 1, out |-> Append(d, Marked(" ", l))]
          ELSE IF n = 0 \/ (m > 0 /\ RemoveBefore(t, m, n))
          THEN [m |-> m - 1, n |-> n, out |-> Append(d, Marked("-", l))]
          ELSE [m |-> m, n |-> n - 1, out |-> Append(d, Marked("+", c))]
  BY <1>1, <1>3 DEF Walk
<1>5. WalkedTo(a, b, t, m, n, d)
  BY <1>1 DEF Walked
<1>6. ASSUME NEW i, NEW j, NEW e, WalkedTo(a, b, t, i, j, e), x = [m |-> i, n |-> j, out |-> e]
      PROVE  Walked(a, b, t, x) /\ x.m = i /\ x.n = j
  <2>1. i \in 0 .. Len(a) /\ j \in 0 .. Len(b) /\ e \in Seq(DiffLine)
    BY <1>6 DEF WalkedTo
  <2>2. x \in Places(a, b) /\ x.m = i /\ x.n = j /\ x.out = e
    BY <1>6, <2>1 DEF Places
  <2> QED  BY <1>6, <2>2 DEF Walked
<1>7. CASE m = 0 /\ n = 0
  BY <1>1, <1>3, <1>4, <1>7 DEF Further
<1>8. CASE m > 0 /\ n > 0 /\ l = c
  <2>1. m \in 1 .. Len(a) /\ n \in 1 .. Len(b)
    BY <1>2, <1>8
  <2>2. WalkedTo(a, b, t, m - 1, n - 1, Append(d, Marked(" ", l)))
    BY <1>3, <1>5, <1>8, <2>1, WalkCommon
  <2>3. x = [m |-> m - 1, n |-> n - 1, out |-> Append(d, Marked(" ", l))]
    <3>1. ~ (m = 0 /\ n = 0)
      BY <2>1
    <3> QED  BY <1>4, <1>8, <3>1
  <2>4. Walked(a, b, t, x) /\ x.m = m - 1 /\ x.n = n - 1
    BY <1>6, <2>2, <2>3
  <2>5. x.m + x.n = m + n - 2
    BY <2>1, <2>4
  <2> QED  BY <1>1, <1>3, <1>8, <2>4, <2>5 DEF Further
<1>9. CASE ~ (m = 0 /\ n = 0) /\ ~ (m > 0 /\ n > 0 /\ l = c)
           /\ (n = 0 \/ (m > 0 /\ RemoveBefore(t, m, n)))
  <2>1. m \in 1 .. Len(a) /\ (n # 0 => n > 0)
    BY <1>2, <1>9
  <2>2. n # 0 => l # c /\ RemoveBefore(t, m, n)
    BY <1>2, <1>9, <2>1
  <2>3. WalkedTo(a, b, t, m - 1, n, Append(d, Marked("-", l)))
    BY <1>3, <1>5, <2>1, <2>2, WalkRemoves
  <2>4. x = [m |-> m - 1, n |-> n, out |-> Append(d, Marked("-", l))]
    BY <1>4, <1>9
  <2>5. Walked(a, b, t, x) /\ x.m = m - 1 /\ x.n = n
    BY <1>6, <2>3, <2>4
  <2>6. x.m + x.n = m + n - 1
    BY <2>1, <2>5
  <2> QED  BY <1>1, <1>3, <1>9, <2>5, <2>6 DEF Further
<1>10. CASE ~ (m = 0 /\ n = 0) /\ ~ (m > 0 /\ n > 0 /\ l = c)
           /\ ~ (n = 0 \/ (m > 0 /\ RemoveBefore(t, m, n)))
  <2>1. n \in 1 .. Len(b) /\ (m # 0 => m > 0) /\ n > 0
    BY <1>2, <1>10
  <2>2. m # 0 => l # c /\ ~ RemoveBefore(t, m, n)
    BY <1>10, <2>1
  <2>3. WalkedTo(a, b, t, m, n - 1, Append(d, Marked("+", c)))
    BY <1>3, <1>5, <2>1, <2>2, WalkAdds
  <2>4. x = [m |-> m, n |-> n - 1, out |-> Append(d, Marked("+", c))]
    BY <1>4, <1>10
  <2>5. Walked(a, b, t, x) /\ x.m = m /\ x.n = n - 1
    BY <1>6, <2>3, <2>4
  <2>6. x.m + x.n = m + n - 1
    BY <2>1, <2>5
  <2> QED  BY <1>1, <1>3, <1>10, <2>5, <2>6 DEF Further
<1> QED  BY <1>7, <1>8, <1>9, <1>10

(* The walk ends with nothing left of either.                              *)
LEMMA DiffWalks ==
  ASSUME NEW a \in Seq(Entries), NEW b \in Seq(Entries), ~ TooLong(a, b)
  PROVE  WalkedTo(a, b, Common(a, b), 0, 0, Diff(a, b))
<1>0. Len(a) \in Nat /\ Len(b) \in Nat
  BY LenProperties
<1>1. PICK t : t = Common(a, b) /\ Tables(a, b, t)
  BY <1>0, CommonTables
<1> DEFINE l == Len(a) + Len(b)
           Q == {w \in Places(a, b) : Walked(a, b, t, w)}
           start == [m |-> Len(a), n |-> Len(b), out |-> <<>>]
           step == [p \in Q \X (1 .. l) |-> Walk(t, a, b, p[1])]
<1>2. start \in Q
  <2>1. start \in Places(a, b) /\ start.m = Len(a) /\ start.n = Len(b) /\ start.out = <<>>
    BY <1>0, EmptySeq DEF Places
  <2>2. WalkedTo(a, b, t, Len(a), Len(b), <<>>)
    <3>1. <<>> \in Seq(DiffLine) /\ Len(a) \in 0 .. Len(a) /\ Len(b) \in 0 .. Len(b) /\ Len(<<>>) = 0
      BY <1>0, EmptySeq
    <3>2. SubSeq(a, 1, Len(a) - Len(a)) = <<>> /\ SubSeq(b, 1, Len(b) - Len(b)) = <<>>
      <4>1. Len(a) - Len(a) \in Int /\ Len(a) - Len(a) < 1 /\ Len(b) - Len(b) \in Int /\ Len(b) - Len(b) < 1
        BY <1>0
      <4> QED  BY <4>1, SubSeqEmpty
    <3>3. \A M : WithMark(<<>>, M) = <<>>
      BY WithMarkEmpty
    <3>4. 0 + t[Len(a)][Len(b)] = t[Len(a)][Len(b)]
      <4>1. t[Len(a)][Len(b)] \in Nat
        BY <1>1, <3>1 DEF Tables
      <4> QED  BY <4>1
    <3> QED  BY <3>1, <3>2, <3>3, <3>4 DEF WalkedTo
  <2> HIDE DEF start
  <2> QED  BY <2>1, <2>2 DEF Walked
<1>3. ASSUME NEW w \in Q  PROVE Walk(t, a, b, w) \in Q /\ Further(w, Walk(t, a, b, w))
  <2>1. Walked(a, b, t, Walk(t, a, b, w)) /\ Further(w, Walk(t, a, b, w))
    BY <1>1, WalkGoesOn
  <2> QED  BY <2>1 DEF Walked
<1>4. step \in [Q \X (1 .. l) -> Q]
  <2> HIDE DEF Q, l
  <2> QED  BY <1>3
<1>5. PICK g : Goes(Q, l, start, step, g)
  <2>1. l \in Nat
    BY <1>0
  <2> HIDE DEF Q, step, l, start
  <2> QED  BY <1>2, <1>4, <2>1, Recursion
<1>6. g \in [0 .. l -> Q] /\ g[0] = start /\ \A k \in 1 .. l : g[k] = Walk(t, a, b, g[k - 1])
  <2>1. ASSUME NEW k \in 1 .. l  PROVE g[k] = Walk(t, a, b, g[k - 1])
    <3>1. g[k - 1] \in Q
      <4>1. k - 1 \in 0 .. l
        BY <1>0
      <4> HIDE DEF Q
      <4> QED  BY <1>5, <4>1 DEF Goes
    <3>2. step[<<g[k - 1], k>>] = Walk(t, a, b, g[k - 1])
      <4> HIDE DEF Q
      <4> QED  BY <3>1
    <3> QED  BY <1>5, <3>2 DEF Goes
  <2> HIDE DEF Q, l, start, step
  <2> QED  BY <1>5, <2>1 DEF Goes
<1> DEFINE Def(u) == [k \in 0 .. Len(a) + Len(b) |->
                        IF k = 0 THEN [m |-> Len(a), n |-> Len(b), out |-> <<>>]
                        ELSE Walk(Common(a, b), a, b, u[k - 1])]
           s == CHOOSE u : u = Def(u)
<1> HIDE DEF Q, step
<1>7. g = Def(g)
  <2>1. ASSUME NEW k \in 0 .. Len(a) + Len(b)  PROVE g[k] = Def(g)[k]
    <3>1. CASE k = 0
      BY <1>6, <3>1
    <3>2. CASE k # 0
      <4>1. k \in 1 .. l
        BY <1>0, <3>2
      <4> QED  BY <1>1, <1>6, <3>2, <4>1
    <3> QED  BY <3>1, <3>2
  <2>2. g = [k \in 0 .. l |-> g[k]]
    BY <1>6
  <2> QED  BY <2>1, <2>2
<1>8. Diff(a, b) = s[Len(a) + Len(b)].out
  BY DEF Diff
<1>9. s = Def(s)
  <2> HIDE DEF Def
  <2> QED  BY <1>7
<1> HIDE DEF s
<1>10. s = g
  <2>1. DOMAIN s = 0 .. l /\ s = [k \in DOMAIN s |-> s[k]] /\ s[0] = g[0]
    BY <1>0, <1>6, <1>9
  <2>2. DOMAIN g = 0 .. l /\ g = [k \in DOMAIN g |-> g[k]]
    BY <1>6
  <2>3. ASSUME NEW k \in 1 .. l, s[k - 1] = g[k - 1]  PROVE s[k] = g[k]
    <3>1. s[k] = Def(s)[k] /\ g[k] = Def(g)[k]
      BY <1>7, <1>9
    <3> QED  BY <2>3, <3>1
  <2>4. l \in Nat
    BY <1>0
  <2> HIDE DEF Def, l, start
  <2> QED  BY <2>1, <2>2, <2>3, <2>4, SameCourse
<1> DEFINE Close(k) == g[k].m + g[k].n <= l - k
           B == {k \in 0 .. l : ~ Close(k)}
<1>11. l \in Nat
  BY <1>0
<1>12. \A k \in 0 .. l : g[k] \in Q /\ g[k].m \in Nat /\ g[k].n \in Nat
  <2>1. ASSUME NEW k \in 0 .. l  PROVE g[k] \in Q /\ g[k].m \in Nat /\ g[k].n \in Nat
    <3>1. g[k] \in Q
      BY <1>6
    <3>2. g[k].m \in 0 .. Len(a) /\ g[k].n \in 0 .. Len(b)
      BY <3>1 DEF Q, Places
    <3> QED  BY <1>0, <3>1, <3>2
  <2> QED  BY <2>1
<1>13. 0 \notin B
  <2>1. g[0].m = Len(a) /\ g[0].n = Len(b)
    BY <1>6
  <2> QED  BY <1>0, <2>1
<1> HIDE DEF l
<1>14. ASSUME NEW k \in 0 .. l, k # 0, k - 1 \notin B  PROVE k \notin B
  <2>1. k \in 1 .. l /\ k - 1 \in 0 .. l
    BY <1>11, <1>14
  <2>2. Close(k - 1)
    BY <1>14, <2>1
  <2>3. Further(g[k - 1], g[k])
    BY <1>3, <1>6, <1>12, <2>1
  <2>4. PICK x \in Nat, y \in Nat, u \in Nat, v \in Nat :
          x = g[k - 1].m /\ y = g[k - 1].n /\ u = g[k].m /\ v = g[k].n
    BY <1>12, <2>1
  <2>5. x + y <= l - (k - 1)
    BY <2>2, <2>4
  <2>6. IF x = 0 /\ y = 0 THEN u = x /\ v = y ELSE u + v = x + y - 1 \/ u + v = x + y - 2
    BY <2>3, <2>4 DEF Further
  <2>7. u + v <= l - k
    BY <1>11, <2>1, <2>5, <2>6
  <2> QED  BY <2>4, <2>7
<1> HIDE DEF B
<1>15. B = {}
  <2>1. B \subseteq 0 .. l
    BY DEF B
  <2> QED  BY <1>11, <1>13, <1>14, <2>1, NoFirstException
<1>16. g[l].m = 0 /\ g[l].n = 0
  <2>1. l \in 0 .. l /\ l - l = 0
    BY <1>11
  <2>2. g[l].m + g[l].n <= 0
    BY <1>15, <2>1 DEF B
  <2> QED  BY <1>12, <2>1, <2>2
<1>17. WalkedTo(a, b, t, 0, 0, g[l].out)
  <2>1. g[l] \in Q
    BY <1>11, <1>12
  <2> QED  BY <1>16, <2>1 DEF Q, Walked
<1> QED  BY <1>1, <1>8, <1>10, <1>17 DEF l

(* The diff of files that are too long has all of both.                    *)
LEMMA WholeShown ==
  ASSUME NEW a \in Seq(Entries), NEW b \in Seq(Entries)
  PROVE  LET d == ReplacedWhole(a, b)
         IN  WithMark(d, {" ", "-"}) = a /\ WithMark(d, {" ", "+"}) = b
<1>0. PICK m \in Nat, n \in Nat : m = Len(a) /\ n = Len(b) /\ DOMAIN a = 1 .. m /\ DOMAIN b = 1 .. n
  BY LenProperties
<1>1. \A i \in 1 .. m : a[i] \in Entries
  BY <1>0, ElementOfSeq
<1>2. \A i \in 1 .. n : b[i] \in Entries
  BY <1>0, ElementOfSeq
<1>3. PICK x : x = [i \in 1 .. m |-> Marked("-", a[i])]
  OBVIOUS
<1>4. PICK y : y = [i \in 1 .. n |-> Marked("+", b[i])]
  OBVIOUS
<1>5. x \in [1 .. m -> DiffLine] /\ \A i \in 1 .. m : x[i].mark = "-" /\ x[i].line = a[i]
  BY <1>1, <1>3 DEF Marked, DiffLine
<1>6. y \in [1 .. n -> DiffLine] /\ \A i \in 1 .. n : y[i].mark = "+" /\ y[i].line = b[i]
  BY <1>2, <1>4 DEF Marked, DiffLine
<1>7. x \in Seq(DiffLine) /\ Len(x) = m /\ y \in Seq(DiffLine) /\ Len(y) = n
  BY <1>5, <1>6
<1>8. PICK d : d = x \o y /\ d = ReplacedWhole(a, b)
  BY <1>0, <1>3, <1>4 DEF ReplacedWhole
<1>9. d \in Seq(DiffLine) /\ Len(d) = m + n
      /\ \A i \in 1 .. m + n : d[i] = IF i <= m THEN x[i] ELSE y[i - m]
  <2>1. /\ x \o y \in Seq(DiffLine) /\ Len(x \o y) = Len(x) + Len(y)
        /\ \A i \in 1 .. Len(x) + Len(y) : (x \o y)[i] = IF i <= Len(x) THEN x[i] ELSE y[i - Len(x)]
    BY <1>7, ConcatProperties
  <2> QED  BY <1>7, <1>8, <2>1
<1>10. \A i \in 1 .. m + n :
         /\ i <= m => d[i].mark = "-" /\ d[i].line = a[i]
         /\ i > m => d[i].mark = "+" /\ d[i].line = b[i - m]
  <2>1. ASSUME NEW i \in 1 .. m + n, i <= m  PROVE d[i].mark = "-" /\ d[i].line = a[i]
    <3>1. i \in 1 .. m /\ d[i] = x[i]
      BY <1>9, <2>1
    <3> QED  BY <1>5, <3>1
  <2>2. ASSUME NEW i \in 1 .. m + n, i > m  PROVE d[i].mark = "+" /\ d[i].line = b[i - m]
    <3>1. i - m \in 1 .. n /\ d[i] = y[i - m]
      BY <1>9, <2>2
    <3> QED  BY <1>6, <3>1
  <2> QED  BY <2>1, <2>2
<1>11. \A k \in 0 .. m : SubSeq(a, 1, k) \in Seq(Entries)
  <2>1. ASSUME NEW k \in 0 .. m  PROVE SubSeq(a, 1, k) \in Seq(Entries)
    <3>1. k \in Int /\ \A i \in 1 .. k : a[i] \in Entries
      BY <1>1
    <3> QED  BY <3>1, SubSeqProperties
  <2> QED  BY <2>1
<1>12. \A k \in 0 .. n : SubSeq(b, 1, k) \in Seq(Entries)
  <2>1. ASSUME NEW k \in 0 .. n  PROVE SubSeq(b, 1, k) \in Seq(Entries)
    <3>1. k \in Int /\ \A i \in 1 .. k : b[i] \in Entries
      BY <1>2
    <3> QED  BY <3>1, SubSeqProperties
  <2> QED  BY <2>1
<1>13. SubSeq(a, 1, 0) = <<>> /\ SubSeq(b, 1, 0) = <<>> /\ SubSeq(a, 1, m) = a /\ SubSeq(b, 1, n) = b
  BY <1>0, SubSeqEmpty, SubSeqFull
<1>14. WithMark(d, {" ", "-"}) = a
  <2> DEFINE g == [k \in 0 .. m + n |-> IF k <= m THEN SubSeq(a, 1, k) ELSE a]
  <2>1. g \in [0 .. m + n -> Seq(Entries)] /\ g[0] = <<>>
    <3>1. \A k \in 0 .. m + n : k <= m => k \in 0 .. m
      OBVIOUS
    <3>2. 0 \in 0 .. m + n /\ 0 <= m
      OBVIOUS
    <3> QED  BY <1>11, <1>13, <3>1, <3>2
  <2>2. ASSUME NEW i \in 1 .. m + n
        PROVE  g[i] = IF d[i].mark \in {" ", "-"} THEN Append(g[i - 1], d[i].line) ELSE g[i - 1]
    <3>1. i \in 0 .. m + n /\ i - 1 \in 0 .. m + n
      OBVIOUS
    <3>2. CASE i <= m
      <4>1. g[i] = SubSeq(a, 1, i) /\ g[i - 1] = SubSeq(a, 1, i - 1) /\ i \in 1 .. m
        BY <3>1, <3>2
      <4>2. SubSeq(a, 1, i) = Append(SubSeq(a, 1, i - 1), a[i])
        BY <1>0, <4>1, OneMore
      <4>3. d[i].mark = "-" /\ d[i].line = a[i]
        BY <1>10, <3>2
      <4> QED  BY <4>1, <4>2, <4>3
    <3>3. CASE i > m
      <4>1. d[i].mark \notin {" ", "-"}
        BY <1>10, <3>3
      <4>2. g[i] = a
        BY <3>1, <3>3
      <4>3. g[i - 1] = a
        <5>1. CASE i - 1 = m
          BY <1>13, <3>1, <5>1
        <5>2. CASE i - 1 # m
          <6>1. ~ (i - 1 <= m)
            BY <3>3, <5>2
          <6> QED  BY <3>1, <6>1
        <5> QED  BY <5>1, <5>2
      <4> QED  BY <4>1, <4>2, <4>3
    <3>4. i <= m \/ i > m
      OBVIOUS
    <3> QED  BY <3>2, <3>3, <3>4
  <2>3. g[m + n] = a
    <3>1. CASE n = 0
      BY <1>13, <3>1
    <3>2. CASE n # 0
      <4>1. ~ (m + n <= m) /\ m + n \in 0 .. m + n
        BY <3>2
      <4> QED  BY <4>1
    <3> QED  BY <3>1, <3>2
  <2> HIDE DEF g
  <2>4. Shows(d, {" ", "-"}, g)
    BY <1>9, <2>1, <2>2 DEF Shows
  <2> QED  BY <1>9, <2>3, <2>4, WithMarkIs
<1>15. WithMark(d, {" ", "+"}) = b
  <2> DEFINE g == [k \in 0 .. m + n |-> IF k <= m THEN <<>> ELSE SubSeq(b, 1, k - m)]
  <2>1. g \in [0 .. m + n -> Seq(Entries)] /\ g[0] = <<>>
    <3>1. \A k \in 0 .. m + n : ~ (k <= m) => k - m \in 0 .. n
      OBVIOUS
    <3>2. 0 \in 0 .. m + n /\ 0 <= m /\ <<>> \in Seq(Entries)
      BY EmptySeq
    <3> QED  BY <1>12, <3>1, <3>2
  <2>2. ASSUME NEW i \in 1 .. m + n
        PROVE  g[i] = IF d[i].mark \in {" ", "+"} THEN Append(g[i - 1], d[i].line) ELSE g[i - 1]
    <3>1. i \in 0 .. m + n /\ i - 1 \in 0 .. m + n
      OBVIOUS
    <3>2. CASE i <= m
      <4>1. g[i] = <<>> /\ g[i - 1] = <<>>
        BY <3>1, <3>2
      <4>2. d[i].mark \notin {" ", "+"}
        BY <1>10, <3>2
      <4> QED  BY <4>1, <4>2
    <3>3. CASE i > m
      <4>1. PICK j \in 1 .. n : j = i - m /\ j - 1 = (i - 1) - m
        BY <3>3
      <4>2. d[i].mark = "+" /\ d[i].line = b[j]
        BY <1>10, <3>3, <4>1
      <4>3. g[i] = SubSeq(b, 1, j)
        <5>1. ~ (i <= m)
          BY <3>3
        <5> QED  BY <3>1, <4>1, <5>1
      <4>4. g[i - 1] = SubSeq(b, 1, j - 1)
        <5>1. CASE i - 1 <= m
          <6>1. j - 1 = 0
            BY <3>3, <4>1, <5>1
          <6> QED  BY <1>13, <3>1, <5>1, <6>1
        <5>2. CASE ~ (i - 1 <= m)
          BY <3>1, <4>1, <5>2
        <5> QED  BY <5>1, <5>2
      <4>5. SubSeq(b, 1, j) = Append(SubSeq(b, 1, j - 1), b[j])
        BY <1>0, <4>1, OneMore
      <4> QED  BY <4>2, <4>3, <4>4, <4>5
    <3>4. i <= m \/ i > m
      OBVIOUS
    <3> QED  BY <3>2, <3>3, <3>4
  <2>3. g[m + n] = b
    <3>1. CASE n = 0
      BY <1>13, <3>1
    <3>2. CASE n # 0
      <4>1. ~ (m + n <= m) /\ m + n \in 0 .. m + n /\ (m + n) - m = n
        BY <3>2
      <4> QED  BY <1>13, <4>1
    <3> QED  BY <3>1, <3>2
  <2> HIDE DEF g
  <2>4. Shows(d, {" ", "+"}, g)
    BY <1>9, <2>1, <2>2 DEF Shows
  <2> QED  BY <1>9, <2>3, <2>4, WithMarkIs
<1> QED  BY <1>8, <1>14, <1>15

(* Pairings of the last m lines of a with the last n of b.                 *)
PairingsOfLast(a, b, m, n) ==
  {P \in Pairings(a, b) : \A p \in P : p[1] > Len(a) - m /\ p[2] > Len(b) - n}

(* They have no more pairs than the table says.                            *)
NoneLonger(a, b, t, m, n) ==
  \A P \in PairingsOfLast(a, b, m, n) : Cardinality(P) <= t[m][n]

(* What a pair of a pairing is.                                            *)
LEMMA PairsAre ==
  ASSUME NEW a \in Seq(Entries), NEW b \in Seq(Entries), NEW P \in Pairings(a, b)
  PROVE  /\ IsFiniteSet(P) /\ Cardinality(P) \in Nat
         /\ \A p \in P : p[1] \in 1 .. Len(a) /\ p[2] \in 1 .. Len(b) /\ a[p[1]] = b[p[2]]
                         /\ p = <<p[1], p[2]>>
         /\ \A p, q \in P : InStep(p, q)
         /\ \A R \in SUBSET P : R \in Pairings(a, b)
<1>1. DOMAIN a = 1 .. Len(a) /\ DOMAIN b = 1 .. Len(b) /\ Len(a) \in Nat /\ Len(b) \in Nat
  BY LenProperties
<1>2. P \subseteq Matched(a, b) /\ \A p, q \in P : InStep(p, q)
  BY DEF Pairings
<1>3. \A p \in P : p \in (1 .. Len(a)) \X (1 .. Len(b)) /\ a[p[1]] = b[p[2]]
  BY <1>1, <1>2 DEF Matched
<1>4. IsFiniteSet(P)
  <2>1. IsFiniteSet(1 .. Len(a)) /\ IsFiniteSet(1 .. Len(b))
    BY <1>1, FS_Interval
  <2>2. IsFiniteSet((1 .. Len(a)) \X (1 .. Len(b)))
    BY <2>1, FS_Product
  <2> QED  BY <1>3, <2>2, FS_Subset
<1>5. Cardinality(P) \in Nat
  BY <1>4, FS_CardinalityType
<1>6. \A R \in SUBSET P : R \in Pairings(a, b)
  BY <1>2 DEF Pairings
<1> QED  BY <1>2, <1>3, <1>4, <1>5, <1>6

LEMMA NoPairs ==
  ASSUME NEW a \in Seq(Entries), NEW b \in Seq(Entries), NEW t, Tables(a, b, t),
         NEW m \in 0 .. Len(a), NEW n \in 0 .. Len(b), m = 0 \/ n = 0
  PROVE  NoneLonger(a, b, t, m, n)
<1> SUFFICES ASSUME NEW P \in PairingsOfLast(a, b, m, n)
             PROVE  Cardinality(P) <= t[m][n]
  BY DEF NoneLonger
<1>1. Len(a) \in Nat /\ Len(b) \in Nat /\ P \in Pairings(a, b)
  BY LenProperties DEF PairingsOfLast
<1>2. \A p \in P : FALSE
  <2>1. ASSUME NEW p \in P  PROVE FALSE
    <3>1. p[1] \in 1 .. Len(a) /\ p[2] \in 1 .. Len(b)
      BY <1>1, PairsAre
    <3>2. p[1] > Len(a) - m /\ p[2] > Len(b) - n
      BY DEF PairingsOfLast
    <3> QED  BY <1>1, <3>1, <3>2
  <2> QED  BY <2>1
<1>3. P = {}
  BY <1>2
<1>4. t[m][n] \in Nat
  BY DEF Tables
<1> QED  BY <1>3, <1>4, FS_EmptySet

(* Equal first lines are paired with no loss.                              *)
LEMMA PairedFirst ==
  ASSUME NEW a \in Seq(Entries), NEW b \in Seq(Entries), NEW t, Tables(a, b, t),
         NEW m \in 1 .. Len(a), NEW n \in 1 .. Len(b),
         a[Len(a) + 1 - m] = b[Len(b) + 1 - n], NoneLonger(a, b, t, m - 1, n - 1)
  PROVE  NoneLonger(a, b, t, m, n)
<1> SUFFICES ASSUME NEW P \in PairingsOfLast(a, b, m, n)
             PROVE  Cardinality(P) <= t[m][n]
  BY DEF NoneLonger
<1>1. Len(a) \in Nat /\ Len(b) \in Nat /\ P \in Pairings(a, b)
  BY LenProperties DEF PairingsOfLast
<1>2. PICK i \in 1 .. Len(a), j \in 1 .. Len(b) : i = Len(a) + 1 - m /\ j = Len(b) + 1 - n
  <2>1. Len(a) + 1 - m \in 1 .. Len(a) /\ Len(b) + 1 - n \in 1 .. Len(b)
    BY <1>1
  <2> QED  BY <2>1
<1>3. \A p \in P : p[1] \in Nat /\ p[2] \in Nat /\ p[1] >= i /\ p[2] >= j
  <2>1. ASSUME NEW p \in P  PROVE p[1] \in Nat /\ p[2] \in Nat /\ p[1] >= i /\ p[2] >= j
    <3>1. PICK x \in 1 .. Len(a), y \in 1 .. Len(b) : x = p[1] /\ y = p[2]
      BY <1>1, PairsAre
    <3>2. x > Len(a) - m /\ y > Len(b) - n
      BY <3>1 DEF PairingsOfLast
    <3>3. x \in Nat /\ y \in Nat /\ x >= i /\ y >= j
      <4>1. PICK p0 \in Nat, q0 \in Nat : p0 = Len(a) /\ q0 = Len(b)
        BY <1>1
      <4>2. /\ x \in 1 .. p0 /\ i = p0 + 1 - m /\ x > p0 - m /\ m \in 1 .. p0
            /\ y \in 1 .. q0 /\ j = q0 + 1 - n /\ y > q0 - n /\ n \in 1 .. q0
        BY <1>2, <3>2, <4>1
      <4> QED  BY ONLY p0 \in Nat, q0 \in Nat, <4>2
    <3> QED  BY <3>1, <3>2, <3>3
  <2> QED  BY <2>1
<1>4. PICK R : R = {p \in P : p[1] > i /\ p[2] > j}
  OBVIOUS
<1>5. R \in Pairings(a, b)
  BY <1>1, <1>4, PairsAre
<1>6. R \in PairingsOfLast(a, b, m - 1, n - 1)
  <2>1. Len(a) - (m - 1) = i /\ Len(b) - (n - 1) = j
    BY <1>1, <1>2
  <2> QED  BY <1>4, <1>5, <2>1 DEF PairingsOfLast
<1>7. Cardinality(R) <= t[m - 1][n - 1]
  BY <1>6 DEF NoneLonger
<1>8. t[m][n] = t[m - 1][n - 1] + 1
  BY DEF Tables
<1>9. t[m - 1][n - 1] \in Nat
  <2>1. m - 1 \in 0 .. Len(a) /\ n - 1 \in 0 .. Len(b)
    BY <1>1
  <2> QED  BY <2>1 DEF Tables
<1>10. IsFiniteSet(R) /\ Cardinality(R) \in Nat
  BY <1>5, PairsAre
<1>11. CASE P = R
  BY <1>7, <1>8, <1>9, <1>10, <1>11
<1>12. CASE P # R
  <2>1. PICK x \in P : ~ (x[1] > i /\ x[2] > j)
    BY <1>4, <1>12
  <2>2. ASSUME NEW y \in P, y # x  PROVE y \in R
    <3>1. (x[1] < y[1] /\ x[2] < y[2]) \/ (y[1] < x[1] /\ y[2] < x[2])
      BY <1>1, <2>2, PairsAre DEF InStep
    <3>2. /\ x[1] \in Nat /\ x[2] \in Nat /\ x[1] >= i /\ x[2] >= j
          /\ y[1] \in Nat /\ y[2] \in Nat /\ y[1] >= i /\ y[2] >= j
      BY <1>3
    <3>3. y[1] > i /\ y[2] > j
      <4>1. PICK xi \in Nat, xj \in Nat, yi \in Nat, yj \in Nat :
              xi = x[1] /\ xj = x[2] /\ yi = y[1] /\ yj = y[2]
        BY <3>2
      <4>2. (xi < yi /\ xj < yj) \/ (yi < xi /\ yj < xj)
        BY <3>1, <4>1
      <4>3. xi >= i /\ xj >= j /\ yi >= i /\ yj >= j /\ ~ (xi > i /\ xj > j)
        BY <2>1, <3>2, <4>1
      <4>4. yi > i /\ yj > j
        BY <4>2, <4>3
      <4> QED  BY <4>1, <4>4
    <3> QED  BY <1>4, <3>3
  <2>3. P = R \cup {x} /\ x \notin R
    BY <1>4, <2>1, <2>2
  <2>4. Cardinality(P) = Cardinality(R) + 1
    BY ONLY <1>10, <2>3, FS_AddElement
  <2>5. PICK u \in Nat, w \in Nat : u = Cardinality(R) /\ w = t[m - 1][n - 1]
    BY <1>9, <1>10
  <2>6. Cardinality(P) = u + 1 /\ t[m][n] = w + 1 /\ u <= w
    BY <1>7, <1>8, <2>4, <2>5
  <2> QED  BY ONLY u \in Nat, w \in Nat, <2>6
<1> QED  BY <1>11, <1>12

(* Of different first lines one is in no pair.                             *)
LEMMA UnpairedFirst ==
  ASSUME NEW a \in Seq(Entries), NEW b \in Seq(Entries), NEW t, Tables(a, b, t),
         NEW m \in 1 .. Len(a), NEW n \in 1 .. Len(b),
         a[Len(a) + 1 - m] # b[Len(b) + 1 - n],
         NoneLonger(a, b, t, m - 1, n), NoneLonger(a, b, t, m, n - 1)
  PROVE  NoneLonger(a, b, t, m, n)
<1> SUFFICES ASSUME NEW P \in PairingsOfLast(a, b, m, n)
             PROVE  Cardinality(P) <= t[m][n]
  BY DEF NoneLonger
<1>1. Len(a) \in Nat /\ Len(b) \in Nat /\ P \in Pairings(a, b) /\ Cardinality(P) \in Nat
  BY LenProperties, PairsAre DEF PairingsOfLast
<1>2. PICK i \in 1 .. Len(a), j \in 1 .. Len(b) : i = Len(a) + 1 - m /\ j = Len(b) + 1 - n
  <2>1. Len(a) + 1 - m \in 1 .. Len(a) /\ Len(b) + 1 - n \in 1 .. Len(b)
    BY <1>1
  <2> QED  BY <2>1
<1>3. \A p \in P : p[1] \in Nat /\ p[2] \in Nat /\ p[1] >= i /\ p[2] >= j
                   /\ p[1] > Len(a) - m /\ p[2] > Len(b) - n
  <2>1. ASSUME NEW p \in P  PROVE p[1] \in Nat /\ p[2] \in Nat /\ p[1] >= i /\ p[2] >= j
                                  /\ p[1] > Len(a) - m /\ p[2] > Len(b) - n
    <3>1. PICK x \in 1 .. Len(a), y \in 1 .. Len(b) : x = p[1] /\ y = p[2]
      BY <1>1, PairsAre
    <3>2. x > Len(a) - m /\ y > Len(b) - n
      BY <3>1 DEF PairingsOfLast
    <3>3. x \in Nat /\ y \in Nat /\ x >= i /\ y >= j
      <4>1. PICK p0 \in Nat, q0 \in Nat : p0 = Len(a) /\ q0 = Len(b)
        BY <1>1
      <4>2. /\ x \in 1 .. p0 /\ i = p0 + 1 - m /\ x > p0 - m /\ m \in 1 .. p0
            /\ y \in 1 .. q0 /\ j = q0 + 1 - n /\ y > q0 - n /\ n \in 1 .. q0
        BY <1>2, <3>2, <4>1
      <4> QED  BY ONLY p0 \in Nat, q0 \in Nat, <4>2
    <3> QED  BY <3>1, <3>2, <3>3
  <2> QED  BY <2>1
<1>4. PICK x \in Nat, y \in Nat : x = t[m - 1][n] /\ y = t[m][n - 1]
  <2>1. m - 1 \in 0 .. Len(a) /\ n - 1 \in 0 .. Len(b) /\ m \in 0 .. Len(a) /\ n \in 0 .. Len(b)
    BY <1>1
  <2>2. t[m - 1][n] \in Nat /\ t[m][n - 1] \in Nat
    BY <2>1 DEF Tables
  <2> QED  BY <2>2
<1>5. t[m][n] = IF x >= y THEN x ELSE y
  BY <1>4 DEF Tables
<1>6. CASE \A p \in P : p[1] > i
  <2>1. Len(a) - (m - 1) = i
    BY <1>1, <1>2
  <2>2. P \in PairingsOfLast(a, b, m - 1, n)
    BY <1>1, <1>3, <1>6, <2>1 DEF PairingsOfLast
  <2>3. Cardinality(P) <= x
    BY <1>4, <2>2 DEF NoneLonger
  <2> QED  BY <1>1, <1>5, <2>3
<1>7. CASE \E p \in P : ~ (p[1] > i)
  <2>1. PICK p \in P : p[1] = i
    BY <1>3, <1>7
  <2>2. ASSUME NEW q \in P  PROVE q[2] > j
    <3>1. SUFFICES ASSUME q[2] = j PROVE FALSE
      BY <1>3
    <3>2. InStep(p, q) /\ a[q[1]] = b[q[2]]
      BY <1>1, PairsAre
    <3>3. p # q
      BY <1>2, <2>1, <3>1, <3>2
    <3>4. (p[1] < q[1] /\ p[2] < q[2]) \/ (q[1] < p[1] /\ q[2] < p[2])
      BY <3>2, <3>3 DEF InStep
    <3>5. /\ p[1] \in Nat /\ p[2] \in Nat /\ p[2] >= j
          /\ q[1] \in Nat /\ q[2] \in Nat /\ q[1] >= i
      BY <1>3
    <3> QED  BY <2>1, <3>1, <3>4, <3>5
  <2>3. Len(b) - (n - 1) = j
    BY <1>1, <1>2
  <2>4. P \in PairingsOfLast(a, b, m, n - 1)
    BY <1>1, <1>3, <2>2, <2>3 DEF PairingsOfLast
  <2>5. Cardinality(P) <= y
    BY <1>4, <2>4 DEF NoneLonger
  <2> QED  BY <1>1, <1>5, <2>5
<1> QED  BY <1>6, <1>7

(* The table says how much two files have in common.                       *)
LEMMA TableIsLongest ==
  ASSUME NEW a \in Seq(Entries), NEW b \in Seq(Entries), NEW t, Tables(a, b, t)
  PROVE  \A P \in Pairings(a, b) : Cardinality(P) <= t[Len(a)][Len(b)]
<1>1. PICK ma \in Nat, mb \in Nat : ma = Len(a) /\ mb = Len(b)
  BY LenProperties
<1> DEFINE Claim(k) == \A m \in 0 .. ma, n \in 0 .. mb : m + n <= k => NoneLonger(a, b, t, m, n)
           l == ma + mb
           B == {k \in 0 .. l : ~ Claim(k)}
<1>2. l \in Nat
  OBVIOUS
<1>3. 0 \notin B
  <2>1. ASSUME NEW m \in 0 .. ma, NEW n \in 0 .. mb, m + n <= 0  PROVE NoneLonger(a, b, t, m, n)
    <3>1. m = 0
      BY <2>1
    <3> QED  BY <1>1, <3>1, NoPairs
  <2> QED  BY <2>1
<1>4. ASSUME NEW k \in 0 .. l, k # 0, k - 1 \notin B  PROVE k \notin B
  <2>1. Claim(k - 1)
    <3>1. k - 1 \in 0 .. l
      BY <1>4
    <3> QED  BY <1>4, <3>1
  <2>2. ASSUME NEW m \in 0 .. ma, NEW n \in 0 .. mb, m + n <= k  PROVE NoneLonger(a, b, t, m, n)
    <3>1. CASE m = 0 \/ n = 0
      BY <1>1, <3>1, NoPairs
    <3>2. CASE ~ (m = 0 \/ n = 0)
      <4>1. m \in 1 .. Len(a) /\ n \in 1 .. Len(b)
        BY <1>1, <3>2
      <4>2. NoneLonger(a, b, t, m - 1, n - 1)
        <5>1. m - 1 \in 0 .. ma /\ n - 1 \in 0 .. mb /\ (m - 1) + (n - 1) <= k - 1
          BY <2>2, <3>2
        <5> QED  BY <2>1, <5>1
      <4>3. NoneLonger(a, b, t, m - 1, n)
        <5>1. m - 1 \in 0 .. ma /\ (m - 1) + n <= k - 1
          BY <2>2, <3>2
        <5> QED  BY <2>1, <5>1
      <4>4. NoneLonger(a, b, t, m, n - 1)
        <5>1. n - 1 \in 0 .. mb /\ m + (n - 1) <= k - 1
          BY <2>2, <3>2
        <5> QED  BY <2>1, <5>1
      <4> QED  BY <4>1, <4>2, <4>3, <4>4, PairedFirst, UnpairedFirst
    <3> QED  BY <3>1, <3>2
  <2> QED  BY <2>2
<1> HIDE DEF B, l
<1>5. B = {}
  <2>1. B \subseteq 0 .. l
    BY DEF B
  <2> QED  BY <1>2, <1>3, <1>4, <2>1, NoFirstException
<1>6. NoneLonger(a, b, t, ma, mb)
  <2>1. l \in 0 .. l
    BY <1>2
  <2>2. Claim(l)
    BY <1>5, <2>1 DEF B
  <2>3. ma \in 0 .. ma /\ mb \in 0 .. mb /\ ma + mb <= l
    BY DEF l
  <2> QED  BY <2>2, <2>3
<1>7. ASSUME NEW P \in Pairings(a, b)  PROVE P \in PairingsOfLast(a, b, ma, mb)
  <2>1. ASSUME NEW p \in P  PROVE p[1] > Len(a) - ma /\ p[2] > Len(b) - mb
    <3>1. p[1] \in 1 .. Len(a) /\ p[2] \in 1 .. Len(b)
      BY PairsAre
    <3> QED  BY <1>1, <3>1
  <2> QED  BY <2>1 DEF PairingsOfLast
<1> QED  BY <1>1, <1>6, <1>7 DEF NoneLonger

-----------------------------------------------------------------------------
(* The lines that are shown, without their ends.                           *)
LEMMA LinesAreEntries ==
  ASSUME NEW f \in Seq(FileLine)
  PROVE  SplitLines(f) \in Seq(Entries)
<1>1. PICK l \in Nat : l = Len(f) /\ DOMAIN f = 1 .. l /\ \A i \in 1 .. l : f[i] \in FileLine
  BY LenProperties, ElementOfSeq
<1>2. ASSUME NEW i \in 1 .. l  PROVE [key |-> f[i].key, val |-> f[i].val] \in Entries
  BY <1>1 DEF FileLine, Entries
<1>3. SplitLines(f) \in [1 .. l -> Entries]
  BY <1>1, <1>2 DEF SplitLines
<1> QED  BY <1>3

(* The diff has all lines of both, and as much in common as can be.        *)
LEMMA DiffIsTrue ==
  ASSUME NEW a \in Seq(Entries), NEW b \in Seq(Entries)
  PROVE  /\ WithMark(Diff(a, b), {" ", "-"}) = a /\ WithMark(Diff(a, b), {" ", "+"}) = b
         /\ ~ TooLong(a, b) =>
              \A P \in Pairings(a, b) : Cardinality(P) <= Len(WithMark(Diff(a, b), {" "}))
<1>1. CASE TooLong(a, b)
  <2>1. Diff(a, b) = ReplacedWhole(a, b)
    BY <1>1 DEF Diff
  <2> QED  BY <1>1, <2>1, WholeShown
<1>2. CASE ~ TooLong(a, b)
  <2>1. PICK t, d : t = Common(a, b) /\ d = Diff(a, b)
    OBVIOUS
  <2>2. WalkedTo(a, b, t, 0, 0, d)
    BY <1>2, <2>1, DiffWalks
  <2>3. Len(a) \in Nat /\ Len(b) \in Nat /\ Len(a) - 0 = Len(a) /\ Len(b) - 0 = Len(b)
    BY LenProperties
  <2>4. WithMark(d, {" ", "-"}) = a /\ WithMark(d, {" ", "+"}) = b
    BY <2>2, <2>3, SubSeqFull DEF WalkedTo
  <2>5. Tables(a, b, t)
    BY <2>1, <2>3, CommonTables
  <2>6. Len(WithMark(d, {" "})) = t[Len(a)][Len(b)]
    <3>1. t[0][0] = 0
      BY <2>3, <2>5 DEF Tables
    <3>2. WithMark(d, {" "}) \in Seq(Entries)
      BY <2>2, WithMarkShows, WithMarkIs DEF WalkedTo
    <3>3. Len(WithMark(d, {" "})) \in Nat
      BY <3>2, LenProperties
    <3>4. PICK x \in Nat : x = Len(WithMark(d, {" "}))
      BY <3>3
    <3>5. PICK y : y = t[Len(a)][Len(b)]
      OBVIOUS
    <3>6. PICK z : z = t[0][0]
      OBVIOUS
    <3>7. Len(WithMark(d, {" "})) + t[0][0] = t[Len(a)][Len(b)]
      BY <2>2 DEF WalkedTo
    <3>8. x + z = y
      BY <3>4, <3>5, <3>6, <3>7, Zenon
    <3>9. z = 0
      BY <3>1, <3>6
    <3>10. x = y
      BY <3>8, <3>9
    <3> QED  BY <3>4, <3>5, <3>10
  <2> QED  BY <2>1, <2>4, <2>5, <2>6, TableIsLongest
<1> QED  BY <1>1, <1>2

(* The diff that is approved has all lines of the file before and after in *)
(* order, and no line as changed that could be shown as common, unless one *)
(* is too long: for any file and any change.                               *)
THEOREM DiffsAreTrue == TextSpec => []DiffShowsChange
<1>1. TextInit => TextInv
  BY TextStarts
<1>2. TextInv /\ [TextNext]_textVars => TextInv'
  BY TextStep
<1>3. TextInv => DiffShowsChange
  <2> SUFFICES ASSUME TextInv PROVE DiffShowsChange
    OBVIOUS
  <2>1. former \in Seq(FileLine) /\ file \in Seq(FileLine)
    BY DEF TextInv, Readable
  <2>2. PICK a \in Seq(Entries), b \in Seq(Entries) : a = SplitLines(former) /\ b = SplitLines(file)
    BY <2>1, LinesAreEntries
  <2> QED  BY <2>2, DiffIsTrue DEF DiffShowsChange
<1> QED  BY <1>1, <1>2, <1>3, PTL DEF TextSpec
=============================================================================
