------------------------------ MODULE MCLive ------------------------------
(***************************************************************************)
(* Instance for TLC, with fairness: a drain of two runners (RunnerOp) or a *)
(* change of the configuration of one, which is drained for it             *)
(* (ConfigTab), as part says; each has a host of its own.  What is fair    *)
(* of the part that is not looked at is never enabled.                     *)
(***************************************************************************)
EXTENDS RunnerOp

CONSTANTS r1, r2, Nobody
VARIABLES hup, hworker, hjobs, hlost, hrequest
VARIABLES front, modals, target, form, change, pendingSet, self, busy, changes, file, bak,
          daemon, loaded, fetches, writes, applies, mail
VARIABLE part

MCBoth    == {<<r1, r2>>}
MCRunners == {r1, r2}
MCNone    == {}

Config == INSTANCE ConfigTab WITH Runners <- {r1}, HasUnit <- {r1},
            Kinds <- {"env", "dropin", "labels", "self"}, Repeated <- {}, Leaves <- TRUE,
            MaxChanges <- 1, up <- hup, worker <- hworker, jobs <- hjobs, lost <- hlost,
            request <- hrequest, stack <- modals, pending <- change, msgs <- mail

ASSUME Config!ServicesAssumption /\ Config!ConfigTabAssumption

confVars == <<hup, hworker, hjobs, hlost, hrequest, front, modals, target, form, change,
              pendingSet, self, busy, changes, file, bak, daemon, loaded, fetches, writes,
              applies, mail>>

(* The part that is not looked at stays as it begins, in one way.          *)
NoOperation == up = [r \in Runners |-> TRUE]
NoChange ==
  /\ ~front
  /\ hup = [r \in {r1} |-> TRUE]
  /\ file = [env |-> [r \in {r1, Nobody} |-> IF r = Nobody THEN 0 ELSE 1],
             dropin |-> [r \in {r1, Nobody} |-> 0]]

MCInit ==
  /\ \/ part = "operation"
     \/ part = "config" /\ NoOperation
  /\ Init /\ (part = "config" => shown = seen[r1])
  /\ Config!Init /\ (part = "operation" => NoChange)

MCNext ==
  /\ \/ part = "operation" /\ Next /\ UNCHANGED confVars
     \/ part = "config" /\ Config!Next /\ UNCHANGED vars
  /\ UNCHANGED part

FairSpec == MCInit /\ [][MCNext]_<<vars, confVars, part>> /\ Fairness /\ Config!Fairness

BusyEnds == Config!BusyEnds
=============================================================================
