----------------------------- MODULE Discovery -----------------------------
(***************************************************************************)
(* What a detection makes of a host (runner.Discover): runner directories  *)
(* from the disk, the units of systemd and the processes, put together;    *)
(* and what the Doctor tab says of the same units (doctor/hostcfg).        *)
(* Directories and units are numbers in the order of their names.          *)
(***************************************************************************)
EXTENDS Naturals, Sequences, SequencesExt, FiniteSets, FiniteSetsExt

CONSTANTS Dirs, Units, DirStates, UnitStates, ProcLists   (* hosts *)

ASSUME DiscoveryAssumption ==
  /\ Dirs \subseteq Nat \ {0} /\ IsFiniteSet(Dirs) /\ Units \subseteq Nat \ {0}

VARIABLES
  host,    (* what there is; it does not change meanwhile.                 *)
  known,   (* runners of the tabs: none before the first detection ended.  *)
  told     (* units the Doctor tab tells to disable, and the runners it    *)
           (* knew then.                                                   *)
scanVars == <<host, known, told>>

(* A host: for each directory whether it is under a scan root, its .runner *)
(* ("ok", "bad" or "none") and the unit in its .service (0: none); for     *)
(* each unit its LoadState and WorkingDirectory (0: not set, or a number   *)
(* that is none of Dirs); the processes; whether list-units worked, and    *)
(* how many units were asked for before the detection ran out of time.     *)
ScanInit ==
  /\ \E d \in [Dirs -> DirStates], u \in [Units -> UnitStates], p \in ProcLists,
        l \in BOOLEAN, n \in Units :
       host = [dir |-> d, unit |-> u, procs |-> p, listed |-> l, issued |-> n]
  /\ known = {} /\ told = [units |-> {}, known |-> {}]

None == 0

-----------------------------------------------------------------------------
(* procs.Scan: kind, directory (from the executable, or the working one),  *)
(* start.  systemd.Scan: what show says, or only the name when it failed.  *)
Procs == host.procs
IsRunnerDir(d) == host.dir[d].config # "none"

Scanned ==
  IF ~host.listed THEN {}
  ELSE {u \in Units : host.unit[u].load # "none" /\ u <= host.issued}
UnitOf(u) == IF host.unit[u].load = "fails" THEN [load |-> "", dir |-> None] ELSE host.unit[u]

(* collectDirs: from the roots, the processes and the units.               *)
CollectDirs ==
  {d \in Dirs : IsRunnerDir(d)
     /\ (host.dir[d].found \/ (\E p \in ToSet(Procs) : p.dir = d)
         \/ \E u \in Scanned : UnitOf(u).dir = d)}

(* LoadConfig: a directory that cannot be read is a warning.               *)
Found == {d \in CollectDirs : host.dir[d].config = "ok"}

-----------------------------------------------------------------------------
(* attach *)

FirstNamedBy(u) ==
  LET N == {d \in Found : host.dir[d].service = u} IN IF N = {} THEN {} ELSE {Min(N)}
(* indexByUnitName: the runner that claims u, if only one does.            *)
NamedBy(u) ==
  LET N == {d \in Found : host.dir[d].service = u}
  IN IF Cardinality(N) = 1 THEN N ELSE {}

Gone(u) == UnitOf(u).load = "not-found"

(* attachUnits: first by .service,                                         *)
ByName ==
  [d \in Found |->
    LET N == {u \in Scanned : ~Gone(u) /\ d \in NamedBy(u)}
    IN IF N = {} THEN None ELSE Max(N)]

Second == {u \in Scanned : ~Gone(u) /\ NamedBy(u) = {} /\ UnitOf(u).load # ""}

(* then by WorkingDirectory, in order, if the runner has none.             *)
Svc ==
  [d \in Found |->
    LET N == {u \in Second : UnitOf(u).dir = d}
    IN IF ByName[d] # None \/ N = {} THEN ByName[d] ELSE Min(N)]

Orphans == {u \in Second : UnitOf(u).dir \notin Found}

Warned ==
  {u \in Scanned : Gone(u) \/ UnitOf(u).load = ""}
  \cup {u \in Second : UnitOf(u).dir \in Found /\ Svc[UnitOf(u).dir] # u}

(* attachListener: the one started last, the first of two.                 *)
Listener ==
  [d \in Found |->
    LET L == SelectSeq(Procs, LAMBDA p : p.dir = d /\ p.kind = "listener")
    IN FoldLeft(LAMBDA r, p : IF r = None \/ p.started > r THEN p.started ELSE r, None, L)]

Workers == [d \in Found |-> Len(SelectSeq(Procs, LAMBDA p : p.dir = d /\ p.kind = "worker"))]

ManagedBy(d) ==
  IF Svc[d] # None THEN "systemd"
  ELSE IF ~host.listed THEN "unavailable"
  ELSE IF Listener[d] # None THEN "standalone"
  ELSE "unknown"

(* resolveRunAsUser: the unit's user only if the unit is there.            *)
RunAsFrom(d) ==
  IF Svc[d] # None /\ UnitOf(Svc[d]).load \notin {"", "not-found"} THEN "unit"
  ELSE IF Listener[d] # None THEN "listener" ELSE "none"

-----------------------------------------------------------------------------
(* The Doctor tab's checks, with a scan of their own and the runners that  *)
(* were known when the diagnosis began.                                    *)

ScanSkips == Scanned = {} /\ ~host.listed

(* orphanCheck, isOrphan: a unit that is there, in no directory of known.  *)
IsOrphan(u) ==
  /\ UnitOf(u).load \notin {"", "not-found"}
  /\ UnitOf(u).dir # None
  /\ UnitOf(u).dir \notin known

OrphanCheck == IF ScanSkips THEN {} ELSE {u \in Scanned : IsOrphan(u)}

(* duplicateCheck *)
ExtraUnits(d) == {u \in Scanned \ {Svc[d]} : UnitOf(u).dir = d}

UnitsCheckByName(d) ==
  LET named == host.dir[d].service
  IN IF ScanSkips THEN "skip"
     ELSE IF named = None \/ Svc[d] = None THEN "skip"
     ELSE IF named # Svc[d] THEN "warn" ELSE "ok"

UnitsCheck(d) ==
  LET named == host.dir[d].service
  IN IF ScanSkips THEN "skip"
     ELSE IF ExtraUnits(d) # {} THEN "warn"
     ELSE IF named = None \/ Svc[d] = None THEN "skip"
     ELSE IF named # Svc[d] THEN "warn" ELSE "ok"

(* unitCheck: what show says of the unit of a runner systemd manages (that *)
(* Restart is not set, a warning, is left out).                            *)
UnitCheck(d) ==
  IF ManagedBy(d) # "systemd" \/ host.unit[Svc[d]].load = "fails" THEN "skip"
  ELSE IF host.unit[Svc[d]].dir \notin {None, d} THEN "fail" ELSE "ok"

Discover   == known' = Found /\ UNCHANGED <<host, told>>

Diagnose == told' = [units |-> OrphanCheck, known |-> known] /\ UNCHANGED <<host, known>>

ScanNext == Discover \/ Diagnose

ScanSpec == ScanInit /\ [][ScanNext]_scanVars

-----------------------------------------------------------------------------
(* A unit belongs to one runner, by the directory systemd has for it       *)
(* unless exactly one .service claims it; none is dropped in silence: it   *)
(* is attached, an orphan (no runner in its directory) or a warning; what  *)
(* systemd runs is not taken for run.sh; and what runs is found wherever   *)
(* it is (FR-01 to FR-05, comments of attach and managedBy).               *)
Claims(u) == {d \in Found : host.dir[d].service = u}
AttachedRightly ==
  /\ \A d \in Found : Svc[d] # None =>
       LET u == Svc[d]
       IN /\ ~Gone(u)
          /\ Claims(u) = {d} \/ (Cardinality(Claims(u)) # 1 /\ UnitOf(u).dir = d)
          /\ \A e \in Found \ {d} : Svc[e] # u
  /\ \A u \in Scanned : (\E d \in Found : Svc[d] = u) \/ u \in Orphans \cup Warned
  /\ \A u \in Orphans : host.unit[u].dir \notin Found
  /\ \A d \in Found :
       ManagedBy(d) \in {"standalone", "unknown"}
         => /\ host.listed
            /\ \A u \in Scanned : host.unit[u].load = "loaded" /\ host.unit[u].dir = d
                 => Cardinality(Claims(u)) = 1
  /\ \A p \in ToSet(Procs) : p.dir \in Dirs /\ host.dir[p.dir].config = "ok"
       => p.dir \in Found

(* Where both checks are green there is one unit to act on: the one that   *)
(* .service names (svc.sh), that is attached (this program) and that works *)
(* in the directory, with no other unit there to keep the runner running;  *)
(* and it is not among those to disable, once the runners were known       *)
(* (FR-32, comments of duplicateCheck, unitCheck and isOrphan).            *)
GreenIsOneUnit ==
  \A d \in Found : UnitsCheck(d) = "ok" /\ UnitCheck(d) = "ok" =>
    /\ host.dir[d].service = Svc[d]
    /\ \A u \in Scanned : host.unit[u].load = "loaded" =>
         /\ host.unit[u].dir = d => u = Svc[d]
         /\ u = Svc[d] => host.unit[u].dir \in {None, d}
    /\ told.known = Found => Svc[d] \notin told.units
=============================================================================
