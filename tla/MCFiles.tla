---------------------------- MODULE MCFiles --------------------------------
(***************************************************************************)
(* Instance for TLC of what writes files, one part at a time as part says: *)
(* the Config tab (ConfigTab), the save of a change (FileWrite) or the     *)
(* unpacking of a tarball (StagedExtract); they share no state.            *)
(***************************************************************************)
EXTENDS ConfigTab, FileWrite, StagedExtract, TLC

CONSTANTS r1, r2
VARIABLE part

MCRunners == {r1, r2}

Bin  == <<"bin">>
Run  == <<"bin", "run">>
Sh   == <<"run.sh">>
Alt  == <<"alt">>
AltRun == <<"alt", "run">>
Work == <<"_work">>
Job  == <<"_work", "job">>
MCNames == {Bin, Run, Sh, Alt, AltRun, Work, Job}

AFile(n) == [name |-> n, type |-> "file", to |-> <<>>]
ADir(n)  == [name |-> n, type |-> "dir", to |-> <<>>]
ALink(n, t) == [name |-> n, type |-> "symlink", to |-> t]

MCArchives ==
  UNION {[1 .. k -> {ADir(Bin), AFile(Run), AFile(Sh), ALink(Bin, Alt), AFile(AltRun),
                     AFile(Job), ALink(Alt, <<"bin", "..", "_work">>),
                     [name |-> Sh, type |-> "hardlink", to |-> Run]}] : k \in 1 .. 3}

Old(k) == [kind |-> k, v |-> "old"]
Holds(f) == [n \in MCNames |-> IF n \in DOMAIN f THEN f[n]
                               ELSE IF n[1] = "_work" THEN Old(IF n = Work THEN "dir" ELSE "file")
                               ELSE [kind |-> "none", v |-> "none"]]

(* As first unpacked, and as after the runner updated itself.              *)
MCLives == {Holds(<<>>),
            Holds(Bin :> Old("dir") @@ Run :> Old("file") @@ Sh :> Old("file")),
            Holds(Bin :> Old("link") @@ Alt :> Old("dir") @@ AltRun :> Old("file"))}

ASSUME ConfigTabAssumption

(* The parts that are not looked at stay as they begin, in one way.  For   *)
(* a change of the configuration one runner runs at the beginning and the  *)
(* other may, and the contents of a file are called 1 and 2 in the order   *)
(* of the runners.                                                         *)
NoFiles ==
  /\ live = [f \in File |-> [path |-> Missing, bak |-> Missing]]
  /\ cur = CHOOSE f \in File : TRUE
  /\ text = CHOOSE t \in Text : TRUE
NoTree  == tree = Holds(<<>>) /\ archive = <<ADir(Bin)>>
NoTab   == up[r2] /\ file["env"][r2] = 1

MCInit ==
  /\ \/ part = "change" /\ NoTree
     \/ part = "save" /\ NoTree
     \/ part = "unpack"
  /\ Init /\ up[r1] /\ file["env"][r1] = 1 /\ (part # "change" => NoTab)
  /\ SaveInit /\ (part # "save" => NoFiles) /\ UnpackInit

MCNext ==
  /\ \/ part = "change" /\ Next /\ UNCHANGED <<saveVars, unpackVars>>
     \/ part = "save" /\ SaveNext /\ UNCHANGED <<vars, unpackVars>>
     \/ part = "unpack" /\ UnpackNext /\ UNCHANGED <<vars, saveVars>>
  /\ UNCHANGED part

MCSpec == MCInit /\ [][MCNext]_<<vars, saveVars, unpackVars, part>>
=============================================================================
