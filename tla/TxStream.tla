------------------------------ MODULE TxStream ------------------------------
(***************************************************************************)
(* What the signing pipeline promises the strategies of an agent: inputs   *)
(* are taken in the order they were handed over, and each one is settled   *)
(* exactly once, either dropped or delivered with a transaction id (the    *)
(* Tid of its proof of work) that no other delivered transaction, of this  *)
(* or of another agent, carries.  Inputs are numbered 1, 2, ... per agent. *)
(***************************************************************************)
EXTENDS Naturals, Sequences

CONSTANTS Agents,     \* public keys
          TxIds,      \* transaction ids
          MaxInputs   \* inputs an agent hands over (a bound)

VARIABLES accepted,   \* accepted[a]: inputs agent a has handed over
          settled,    \* settled[a]: inputs dropped or delivered
          delivered   \* delivered[a]: what left the pipeline, in order

vars == <<accepted, settled, delivered>>

Spent == UNION {{delivered[a][k].txId : k \in DOMAIN delivered[a]} : a \in Agents}

Init ==
    /\ accepted = [a \in Agents |-> 0]
    /\ settled = [a \in Agents |-> 0]
    /\ delivered = [a \in Agents |-> <<>>]

Accept(a) ==
    /\ accepted[a] < MaxInputs
    /\ accepted' = [accepted EXCEPT ![a] = @ + 1]
    /\ UNCHANGED <<settled, delivered>>

Settle(a) ==
    /\ settled[a] < accepted[a]
    /\ settled' = [settled EXCEPT ![a] = @ + 1]
    /\ UNCHANGED accepted

Drop(a) ==
    /\ Settle(a)
    /\ UNCHANGED delivered

\* The id is written as the one of the last transaction of the next state,
\* so that TLC can evaluate the step over an infinite set of ids.
Deliver(a) ==
    LET id == delivered'[a][Len(delivered[a]) + 1].txId
    IN  /\ Settle(a)
        /\ delivered' = [delivered EXCEPT
                            ![a] = Append(@, [input |-> settled[a] + 1, txId |-> id])]
        /\ id \in TxIds
        /\ id \notin Spent

Next == \E a \in Agents : Accept(a) \/ Drop(a) \/ Deliver(a)

Spec == Init /\ [][Next]_vars
=============================================================================
