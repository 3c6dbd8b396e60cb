----------------------------- MODULE FileWrite -----------------------------
(***************************************************************************)
(* The save of a change: one file (config/edit Change.Write) or a copy to  *)
(* several runners (writeCopies).  Each file is backed up and replaced by  *)
(* a temporary file and rename (config/fileio).  The program may be killed *)
(* and the host lose its power at any moment.                              *)
(***************************************************************************)
EXTENDS Naturals, FiniteSets

CONSTANTS
  File,           (* the configuration files of the runners.               *)
  Text,           (* contents the user gives to them.                      *)
  Elsewhere,      (* contents written by others.                           *)
  Owner,          (* owners with permissions.                              *)
  Private, Fresh, (* those of a temporary file and of a new file.          *)
  Missing, Odd, Torn, Empty,
  MaxSaves        (* bound on the changes.                                 *)

ASSUME FileWriteAssumption ==
  /\ Text \cap Elsewhere = {}
  /\ {Private, Fresh} \subseteq Owner /\ Torn # Empty
  /\ {Torn, Empty} \cap (Text \cup Elsewhere) = {}
  /\ Missing # Odd /\ MaxSaves \in Nat

VARIABLES
  live,           (* the directory entries of each file and of its .bak.   *)
  disk,           (* the entries the journal of the file system has.       *)
  todo,           (* files still to be written, cur first.                 *)
  cur, text,      (* the file being written, what the change gives it.     *)
  at,             (* where the program is.                                 *)
  dst, want,      (* writeAs: the name that is replaced, [text, own].      *)
  tmp,            (* its temporary file.                                   *)
  saves           (* changes begun.                                        *)

prog == <<todo, cur, text, at, dst, want, tmp>>
saveVars == <<live, disk, prog, saves>>

Whole == [text : Text \cup Elsewhere, own : Owner, synced : {TRUE}]
ASSUME EntriesAssumption == Missing \notin Whole /\ Odd \notin Whole

Nothing == [text |-> Empty, own |-> Private, synced |-> FALSE]
Present(e) == e # Missing /\ e # Odd

SaveInit ==
  /\ live \in [File -> [path : {w \in Whole : w.text \in Elsewhere} \cup {Missing, Odd},
                        bak : {Missing, Odd}]]
  /\ disk = live
  /\ todo = {} /\ cur \in File /\ text \in Text /\ at = "idle"
  /\ dst = "path" /\ want = Nothing /\ tmp = Nothing
  /\ saves = 0

-----------------------------------------------------------------------------
(* The change was built from files that hold something else (BuildCopy,    *)
(* Changed), and approved.                                                 *)
Begin ==
  /\ at = "idle" /\ saves < MaxSaves
  /\ \E t \in Text, S \in SUBSET File : \E f \in S :
       /\ \A g \in S : Present(live[g].path) => live[g].path.text # t
       /\ text' = t /\ todo' = S /\ cur' = f
  /\ at' = "backup"
  /\ saves' = saves + 1
  /\ UNCHANGED <<live, disk, dst, want, tmp>>

(* Backup: reads the file and looks at the .bak; a file that is not there  *)
(* needs none (backupIfExists).                                            *)
ReadsOld ==
  /\ at = "backup"
  /\ live[cur].path # Odd /\ live[cur].bak # Odd
  /\ IF live[cur].path = Missing
     THEN at' = "target" /\ UNCHANGED <<dst, want>>
     ELSE /\ at' = "create" /\ dst' = "bak"
          /\ want' = [live[cur].path EXCEPT !.synced = FALSE]
  /\ UNCHANGED <<live, disk, todo, cur, text, tmp, saves>>

(* target: the owner of the file that is there, or that of a new one.      *)
OwnerFor(e) == IF Present(e) THEN e.own ELSE Fresh

Target ==
  /\ at = "target"
  /\ live[cur].path # Odd
  /\ at' = "create" /\ dst' = "path"
  /\ want' = [text |-> text, own |-> OwnerFor(live[cur].path), synced |-> FALSE]
  /\ UNCHANGED <<live, disk, todo, cur, text, tmp, saves>>

(* writeAs: os.CreateTemp.                                                 *)
Create ==
  /\ at = "create"
  /\ tmp' = Nothing /\ at' = "own"
  /\ UNCHANGED <<live, disk, todo, cur, text, dst, want, saves>>

(* prepare: the owner first, then the text, which may reach the file       *)
(* partly.                                                                 *)
Chowns ==
  /\ at = "own"
  /\ tmp' = [tmp EXCEPT !.own = want.own] /\ at' = "fill"
  /\ UNCHANGED <<live, disk, todo, cur, text, dst, want, saves>>

Fills ==
  /\ at = "fill"
  /\ \/ tmp' = [tmp EXCEPT !.text = Torn] /\ UNCHANGED at
     \/ tmp' = [tmp EXCEPT !.text = want.text] /\ at' = "sync"
  /\ UNCHANGED <<live, disk, todo, cur, text, dst, want, saves>>

NoSync(t) == t
Synced(t) == [t EXCEPT !.synced = TRUE]

Syncs ==
  /\ at = "sync"
  /\ tmp' = Synced(tmp) /\ at' = "rename"
  /\ UNCHANGED <<live, disk, todo, cur, text, dst, want, saves>>

(* The temporary file takes the place of dst.  After the backup comes the  *)
(* file, after the file the next one of a copy.                            *)
Installs(d) ==
  /\ at = "rename" /\ dst = d
  /\ tmp' = Nothing

RenamesBackup ==
  /\ Installs("bak")
  /\ live' = [live EXCEPT ![cur].bak = tmp]
  /\ at' = "target"
  /\ UNCHANGED <<disk, todo, cur, text, dst, want, saves>>

RenamesFile ==
  /\ Installs("path")
  /\ live' = [live EXCEPT ![cur].path = tmp]
  /\ todo' = todo \ {cur}
  /\ IF todo' = {} THEN at' = "idle" /\ UNCHANGED cur
     ELSE at' = "backup" /\ cur' \in todo'
  /\ UNCHANGED <<disk, text, dst, want, saves>>

(* A call fails: writeCopies stops; the temporary file is removed.  Or the *)
(* program is killed: it stays, under a name nobody reads.                 *)
Stops ==
  /\ at # "idle"
  /\ at' = "idle" /\ todo' = {} /\ tmp' = Nothing
  /\ UNCHANGED <<live, disk, cur, text, dst, want, saves>>

-----------------------------------------------------------------------------
(* The host. *)

Others ==
  /\ at \in {"idle", "backup"}
  /\ \E f \in File, x \in Elsewhere :
       /\ Present(live[f].path) /\ live[f].path.text # x
       /\ live' = [live EXCEPT ![f].path.text = x]
  /\ UNCHANGED <<disk, prog, saves>>

Journal ==
  /\ disk # live /\ disk' = live
  /\ UNCHANGED <<live, prog, saves>>

AfterLoss(e) == IF Present(e) /\ ~e.synced THEN [e EXCEPT !.text = Torn] ELSE e

PowerLoss ==
  /\ live' = [f \in File |-> [path |-> AfterLoss(disk[f].path),
                              bak |-> AfterLoss(disk[f].bak)]]
  /\ at' = "idle" /\ todo' = {} /\ tmp' = Nothing
  /\ UNCHANGED <<disk, cur, text, dst, want, saves>>

SaveNext ==
  \/ Begin \/ ReadsOld \/ Target \/ Create \/ Chowns \/ Fills \/ Syncs
  \/ RenamesBackup \/ RenamesFile \/ Stops \/ Others \/ Journal \/ PowerLoss

SaveSpec == SaveInit /\ [][SaveNext]_saveVars
-----------------------------------------------------------------------------
Entry == Whole \cup {Missing, Odd}

TypeOK ==
  /\ live \in [File -> [path : Entry, bak : Entry]]
  /\ disk \in [File -> [path : Entry, bak : Entry]]
  /\ todo \subseteq File /\ cur \in File /\ text \in Text
  /\ at \in {"idle", "backup", "target", "create", "own", "fill", "sync", "rename"}
  /\ at # "idle" => cur \in todo

Inherits(w, e) == w.own = OwnerFor(e)

Files == INSTANCE SafeFiles WITH
  Foreign <- {w \in Whole : w.text \in Elsewhere}

(* Each file and backup is replaced as a whole, under the same owner,      *)
(* after the backup was made, whatever fails (FR-38; fileio.Write).        *)
SavesSafely == Files!Spec

=============================================================================
