--------------------------- MODULE StagedExtract ---------------------------
(***************************************************************************)
(* The tarball of a runner: fetched and checked, unpacked into a stage     *)
(* inside the runner's directory, moved from there name by name            *)
(* (setup/tarball).  The program may be killed at any moment, and the user *)
(* repeats the operation.  A name is the sequence of its elements.         *)
(***************************************************************************)
EXTENDS Naturals, Sequences, SequencesExt, FiniteSets

CONSTANTS
  Names,          (* all names, directories included.                      *)
  Keep,           (* first elements of those an update must not touch.     *)
  Archives,       (* tarballs: sequences of entries [name, type, to].      *)
  Lives,          (* what the directory may hold at first: [kind, v].      *)
  MaxRuns         (* bound on the attempts.                                *)

VARIABLES
  archive,        (* what GitHub offers.                                   *)
  was,            (* the directory before the first attempt.               *)
  tree,           (* the directory: what each name is, [kind, v].          *)
  tarball,        (* the downloaded file.                                  *)
  stage,          (* the stage of this attempt, like tree.                 *)
  links,          (* linkSet: where the links unpacked so far lead.        *)
  next,           (* the entry of the archive to be unpacked.              *)
  made,           (* what the stages had when they were complete.          *)
  taken,          (* the name that was removed and is to be moved.         *)
  pc,             (* where the program is.                                 *)
  stale,          (* stages left behind by attempts that were killed.      *)
  runs            (* attempts.                                             *)

stageVars == <<stage, links, next, made, taken>>
unpackVars == <<archive, was, tree, tarball, stageVars, pc, stale, runs>>

None == [kind |-> "none", v |-> "none"]
New(k) == [kind |-> k, v |-> IF tarball = "good" THEN "new" ELSE "bad"]
Bare == [n \in Names |-> None]
NoName == <<>>

Under(n) == {m \in Names : IsPrefix(n, m)}
Above(n) == {m \in Names : IsStrictPrefix(m, n)}
Dir(n) == SubSeq(n, 1, Len(n) - 1)

ASSUME StagedExtractAssumption ==
  /\ MaxRuns \in Nat /\ Names \subseteq Seq(STRING) \ {<<>>}
  /\ \A old \in Lives :
       /\ DOMAIN old = Names
       /\ \A n \in Names : old[n] = None \/ old[n].v = "old"
       /\ \A n \in Names : \A m \in Above(n) : old[n] # None => old[m].kind = "dir"
  /\ \A a \in Archives : \A i \in DOMAIN a : a[i].name \in Seq(STRING) \ {<<>>}

UnpackInit ==
  /\ archive \in Archives
  /\ tree \in Lives /\ was = tree
  /\ tarball = "none" /\ stage = Bare /\ links = <<>> /\ next = 1
  /\ made = {} /\ taken = NoName /\ pc = "idle" /\ stale = 0 /\ runs = 0

-----------------------------------------------------------------------------
(* Names (keeplink.go, safepath.go). *)

(* linkSet.resolve, for every beginning of a name: where the links lead.   *)
Followed(ls, n) ==
  LET at[k \in 0 .. Len(n)] ==
        IF k = 0 THEN <<>>
        ELSE LET m == Append(at[k - 1], n[k]) IN IF m \in DOMAIN ls THEN ls[m] ELSE m
  IN at

Resolve(ls, n) == Followed(ls, n)[Len(n)]

(* path.Join of the directory of a link with what it says.                 *)
Join(dir, to) ==
  FoldLeft(LAMBDA m, e : IF e = ".." THEN Dir(m) ELSE Append(m, e), dir, to)

IsLink(e) == e.type \in {"symlink", "hardlink"}

LinkTarget(ls, e) ==
  IF e.type = "symlink" THEN Resolve(ls, Join(Dir(Resolve(ls, e.name)), e.to))
                        ELSE Resolve(ls, e.to)

IsPreservedOnly(n) == Len(n) = 1 /\ n[1] \in Keep
IsPreserved(n) == n # <<>> /\ n[1] \in Keep

CheckKeep(ls, e) ==
  IsLink(e) => ~IsPreserved(Resolve(ls, e.name)) /\ ~IsPreserved(LinkTarget(ls, e))

-----------------------------------------------------------------------------
(* Fetch: what arrives is checked against the digest; a file that did not  *)
(* arrive, or not as it should, is removed.                                *)
Fetch ==
  /\ pc = "idle" /\ runs < MaxRuns
  /\ runs' = runs + 1
  /\ tarball' = "part" /\ pc' = "fetch"
  /\ UNCHANGED <<archive, was, tree, stageVars, stale>>

Received ==
  /\ pc = "fetch" /\ tarball = "part"
  /\ tarball' \in {"good", "bad"}
  /\ UNCHANGED <<archive, was, tree, stageVars, pc, stale, runs>>

Fetched ==
  /\ pc = "fetch"
  /\ \/ tarball = "good" /\ pc' = "open" /\ UNCHANGED tarball
     \/ tarball # "good" /\ pc' = "idle" /\ tarball' = "none"
  /\ UNCHANGED <<archive, was, tree, stageVars, stale, runs>>

SweepNothing(n) == n
Sweep(n) == 0

(* newStage: sweeps the stages left behind, makes one.                     *)
NewStage ==
  /\ pc = "open"
  /\ stale' = Sweep(stale)
  /\ stage' = Bare /\ links' = <<>> /\ next' = 1
  /\ taken' = NoName
  /\ pc' = "extract"
  /\ UNCHANGED <<archive, was, tree, tarball, made, runs>>

(* Where an entry is written: through the links before it; a link itself   *)
(* is not followed.                                                        *)
Place(ls, e) ==
  IF IsLink(e) THEN Append(Followed(ls, e.name)[Len(e.name) - 1], Last(e.name))
               ELSE Resolve(ls, e.name)

(* The stage st with x at the name n, and its missing parents.             *)
Placed(st, n, x) ==
  [m \in Names |-> IF m = n THEN x
                   ELSE IF m \in Above(n) /\ st[m] = None THEN New("dir")
                   ELSE st[m]]

(* linkSet.remember                                                        *)
Remembered(ls, e) ==
  LET name == Resolve(ls, e.name)
  IN [m \in DOMAIN ls \cup {name} |-> IF m = name THEN LinkTarget(ls, e) ELSE ls[m]]

(* The parents are directories, or can be made: not through a dangling     *)
(* link.                                                                   *)
HasParent(name, n) ==
  /\ \A m \in Above(n) : stage[m].kind \in {"none", "dir"}
  /\ Dir(n) # Dir(name) => Dir(n) = <<>> \/ stage[Dir(n)].kind = "dir"

WritesFile(e, n) == e.type = "file" /\ stage[n].kind \in {"none", "file"}

MakesDir(e, n) == e.type = "dir" /\ stage[n].kind \in {"none", "dir"}

(* What was there is removed, unless it is a directory with something in.  *)
WritesLink(e, n) ==
  /\ IsLink(e) /\ \A m \in Under(n) \ {n} : stage[m] = None
  /\ e.type = "hardlink" => e.to \in Names /\ stage[e.to].kind = "file"

(* extractEntry does not fail.                                             *)
Extracts(e) ==
  LET n == Place(links, e)
  IN /\ n \in Names /\ HasParent(e.name, n)
     /\ WritesFile(e, n) \/ MakesDir(e, n) \/ WritesLink(e, n)

KindOf(e) ==
  CASE e.type = "dir" -> "dir" [] e.type = "symlink" -> "link" [] OTHER -> "file"

(* The stage st with the links ls after the entry e: a preserved name is   *)
(* skipped.                                                                *)
StageWith(st, ls, e) ==
  IF IsPreserved(Resolve(ls, e.name)) THEN st ELSE Placed(st, Place(ls, e), New(KindOf(e)))

LinksWith(ls, e) ==
  IF IsPreserved(Resolve(ls, e.name)) \/ ~IsLink(e) THEN ls ELSE Remembered(ls, e)

(* extractAll: the next entry.                                             *)
ExtractEntry ==
  /\ pc = "extract" /\ next \in DOMAIN archive
  /\ LET e == archive[next]
     IN /\ CheckKeep(links, e)
        /\ IsPreserved(Resolve(links, e.name)) \/ Extracts(e)
        /\ stage' = StageWith(stage, links, e)
        /\ links' = LinksWith(links, e)
  /\ next' = next + 1
  /\ UNCHANGED <<archive, was, tree, tarball, made, taken, pc, stale, runs>>

(* A file is written partly: the extraction fails, or is killed.           *)
Breaks ==
  /\ pc = "extract" /\ next \in DOMAIN archive
  /\ LET e == archive[next]
     IN /\ e.type = "file" /\ ~IsPreserved(Resolve(links, e.name)) /\ Extracts(e)
        /\ stage' = Placed(stage, Place(links, e), [kind |-> "file", v |-> "part"])
  /\ pc' = "broken"
  /\ UNCHANGED <<archive, was, tree, tarball, links, next, made, taken, stale, runs>>

Staged == {n \in Names : stage[n] # None}

AllRead == next \notin DOMAIN archive

Extracted ==
  /\ pc = "extract" /\ AllRead
  /\ pc' = "promote"
  /\ made' = made \cup {[name |-> n, kind |-> stage[n].kind] : n \in Staged}
  /\ UNCHANGED <<archive, was, tree, tarball, stage, links, next, taken, stale, runs>>

(* promote: a directory that is one in the runner as well is entered,      *)
(* anything else is moved as it is; in any order.                          *)
Entered(n) == stage[n].kind = "dir" /\ tree[n].kind = "dir"

ToMove ==
  {n \in Names : /\ stage[n] # None /\ ~IsPreserved(n) /\ ~Entered(n)
                 /\ \A m \in Above(n) : Entered(m)}

Moved(n) ==
  /\ tree' = [m \in Names |-> IF m \in Under(n) THEN stage[m] ELSE tree[m]]
  /\ stage' = [m \in Names |-> IF m \in Under(n) THEN None ELSE stage[m]]

Renames(n) ==
  IF stage[n].kind = "dir" THEN tree[n].kind = "none" ELSE tree[n].kind # "dir"

Move ==
  /\ pc = "promote"
  /\ \E n \in ToMove : Renames(n) /\ Moved(n)
  /\ UNCHANGED <<archive, was, tarball, links, next, made, taken, pc, stale, runs>>

(* A name of another kind is removed first.                                *)
RemoveOther ==
  /\ pc = "promote"
  /\ \E n \in ToMove :
       /\ ~Renames(n) /\ taken' = n
       /\ tree' = [m \in Names |-> IF m \in Under(n) THEN None ELSE tree[m]]
  /\ pc' = "between"
  /\ UNCHANGED <<archive, was, tarball, stage, links, next, made, stale, runs>>

MoveAfterRemove ==
  /\ pc = "between"
  /\ Moved(taken)
  /\ pc' = "promote"
  /\ UNCHANGED <<archive, was, tarball, links, next, made, taken, stale, runs>>

(* restoreDirModes, cleanup.                                               *)
Finish ==
  /\ pc = "promote" /\ ToMove = {}
  /\ stage' = Bare /\ pc' = "done"
  /\ UNCHANGED <<archive, was, tree, tarball, links, next, made, taken, stale, runs>>

Leave ==
  /\ pc = "done" /\ pc' = "idle"
  /\ UNCHANGED <<archive, was, tree, tarball, stageVars, stale, runs>>

(* Any call fails, or the run is cancelled: the stage is removed.          *)
Fail ==
  /\ pc \in {"open", "extract", "broken", "promote", "between"}
  /\ stage' = Bare /\ pc' = "idle"
  /\ UNCHANGED <<archive, was, tree, tarball, links, next, made, taken, stale, runs>>

(* The program is killed: the stage stays.                                 *)
Killed ==
  /\ pc # "idle"
  /\ stale' = stale + (IF pc \in {"extract", "broken", "promote", "between"} THEN 1 ELSE 0)
  /\ stage' = Bare /\ pc' = "idle"
  /\ UNCHANGED <<archive, was, tree, tarball, links, next, made, taken, runs>>

UnpackNext ==
  \/ Fetch \/ Fetched \/ NewStage \/ Received \/ ExtractEntry \/ Breaks \/ Extracted
  \/ Move \/ RemoveOther \/ MoveAfterRemove \/ Finish \/ Leave \/ Fail \/ Killed

UnpackSpec == UnpackInit /\ [][UnpackNext]_unpackVars
-----------------------------------------------------------------------------
(* Whatever fails, what an update must keep is as it was, and every other  *)
(* name of the runner is wholly old or wholly new; it is only missing, or  *)
(* of another kind, when the tarball had something of another kind there,  *)
(* or above (FR-21; the comment of type stage).                            *)
OfAnotherKind(n) ==
  \E x \in made : IsPrefix(x.name, n) /\ was[x.name].kind # x.kind

LiveWhole ==
  \A n \in Names :
    /\ n[1] \in Keep => tree[n] = was[n]
    /\ tree[n].v \in {"none", "old", "new"}
    /\ tree[n].kind # was[n].kind /\ was[n] # None => OfAnotherKind(n)

(* After an attempt that succeeded everything the tarball has is there,    *)
(* and no stage is left, not even one of an attempt that was killed.       *)
UnpacksCleanly ==
  pc = "done" =>
    /\ stale = 0
    /\ \A x \in made : tree[x.name].v = "new" \/ tree[x.name].kind = "dir"
=============================================================================
