---------------------------- MODULE RunContract ----------------------------
(***************************************************************************)
(* What the server promises about a run, whoever drives it: its status     *)
(* follows the transition table, nothing leaves a terminal status, and the *)
(* `terminal` event that closes its event stream is published only once    *)
(* the status is terminal.  RunControl implements this specification.      *)
(***************************************************************************)
EXTENDS RunStatus

CONSTANT Runs

VARIABLES status,   \* the status a client reads
          announced \* the runs whose stream carries a terminal event

contractVars == <<status, announced>>

ContractInit == /\ status = [r \in Runs |-> "queued"]
                /\ announced = {}

\* A legal change of status.
Move(r) == /\ \E s \in Successors(status[r]) : status' = [status EXCEPT ![r] = s]
           /\ UNCHANGED announced

\* The terminal event of a finished run.
Announce(r) == /\ status[r] \in Terminal
               /\ announced' = announced \cup {r}
               /\ UNCHANGED status

ContractNext == \E r \in Runs : Move(r) \/ Announce(r)

ContractSpec == ContractInit /\ [][ContractNext]_contractVars
=============================================================================
