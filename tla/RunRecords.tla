----------------------------- MODULE RunRecords -----------------------------
(***************************************************************************)
(* What the run storage file promises: a list of run records that a crash   *)
(* of the program leaves as they were before, or after, the operation it    *)
(* interrupted.  A record is a status byte, the parameters of the run and   *)
(* its observations; a value stands for a set of parameters and for the     *)
(* observations the model computes from it.                                 *)
(***************************************************************************)
EXTENDS Integers

CONSTANTS Values, Blank

VARIABLES count,      \* how many runs have been added; their ids are 0, 1, ...
          records     \* records[id]

vars == <<count, records>>

Reset == count' = 0 /\ records' = [i \in {} |-> Blank]

Add ==
  /\ count' = count + 1
  /\ \E v \in Values :
       records' = [i \in 0 .. count |-> IF i = count THEN [st |-> 0, par |-> v, obs |-> Blank]
                                        ELSE records[i]]

Finish ==
  /\ \E id \in DOMAIN records, v \in Values :
       records' = [records EXCEPT ![id] = [st |-> 1, par |-> v, obs |-> v]]
  /\ UNCHANGED count

Fail ==
  /\ \E id \in DOMAIN records :
       records[id].st < 1 /\ records' = [records EXCEPT ![id].st = @ - 1]
  /\ UNCHANGED count

(* The failures of a run that is entered in a list of failed runs. *)
SetFailed ==
  /\ \E id \in DOMAIN records :
       LET st == records'[id].st
       IN  records[id].st = 0 /\ st < 0 /\ records' = [records EXCEPT ![id].st = st]
  /\ UNCHANGED count

Init == count = 0 /\ records = [i \in {} |-> Blank]
Next == Reset \/ Add \/ Finish \/ Fail \/ SetFailed
Spec == Init /\ [][Next]_vars
=============================================================================
