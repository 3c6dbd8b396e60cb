------------------------------ MODULE MCTabs ------------------------------
(***************************************************************************)
(* Instance for TLC of the tabs, one of them as part says: what all have   *)
(* in common (TabShell), the list of the Runners tab (RunnerTable) or the  *)
(* operations it starts (RunnerOp), the Jobs tab (JobsTab), or the edit of *)
(* a file in the Config tab (ConfigText).                                  *)
(***************************************************************************)
EXTENDS RunnerOp, RunnerTable, TabShell, JobsTab, ConfigText

CONSTANTS r1, r2
VARIABLE part

MCBoth    == {<<r1, r2>>}
MCRunners == {r1, r2}
MCFirst   == {r1}
MCNone    == {}

(* One tab that sends errands, one that takes them, and the one of the     *)
(* wizard; any number of keys may be on their way.                         *)
MCTitles == <<"Runners", "Logs", "Config">>

MCFound == {"a", "b"}
MCLists == {<<>>, <<"a">>, <<"b">>, <<"a", "b">>}
MCUnits == {<<>>, <<"u">>}
MCBlocked == {"b"}

(* A job that checks one repository out, two, or none, and one that dies.  *)
MCLogs == {<<"header", "message", "cwd", "mapping", "update", "cwd">>,
           <<"header", "message", "cwd", "multi", "mapping", "update">>,
           <<"header", "message", "cwd">>, <<"header">>}

MCKeys == <<"a", "b">>

ASSUME TabShellAssumption /\ JobsTabAssumption

(* The parts that are not looked at stay as they begin, in one way.  For   *)
(* an operation one runner runs at the beginning and the other may.        *)
NoHost   == up = [r \in Runners |-> TRUE]
NoDetail == shown = seen[r1]
NoLines  == fileKind = "env" /\ file = <<>>

(* A line of a drop-in ends as the others, headings and comments say one   *)
(* thing, and three lines begin with [Service]; of .env there are two.     *)
SmallFile ==
  IF fileKind = "env" THEN Len(file) <= 2 /\ Index(file, Section) \cup Index(file, OtherSection) = {}
  ELSE /\ \A i \in DOMAIN file :
            /\ file[i].eol = file[1].eol
            /\ (file[i].key \in Headings => file[i].val = "")
            /\ (file[i].key = NoKey => file[i].val = "u")
       /\ Len(file) > 2 => file[1].key = Section

MCInit ==
  /\ \/ part \in {"shell", "list", "jobs"} /\ NoHost
     \/ part = "operation"
     \/ part = "edit" /\ NoHost
  /\ Init /\ up[r1] /\ (part # "operation" => NoDetail)
  /\ ShellInit /\ (part # "shell" => ~wizard)
  /\ ListInit /\ JobsInit
  /\ (part # "edit" => NoLines) /\ TextInit /\ SmallFile

MCNext ==
  /\ \/ part = "shell" /\ ShellNext /\ UNCHANGED <<vars, listVars, jobsVars, textVars>>
     \/ part = "list" /\ ListNext /\ UNCHANGED <<vars, jobsVars, allVars, textVars>>
     \/ part = "operation" /\ Next /\ UNCHANGED <<listVars, jobsVars, allVars, textVars>>
     \/ part = "jobs" /\ JobsNext /\ UNCHANGED <<vars, listVars, allVars, textVars>>
     \/ part = "edit" /\ TextNext /\ UNCHANGED <<vars, listVars, jobsVars, allVars>>
  /\ UNCHANGED part

MCSpec == MCInit /\ [][MCNext]_<<vars, listVars, jobsVars, allVars, textVars, part>>
=============================================================================
