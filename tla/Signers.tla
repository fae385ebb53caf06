------------------------------ MODULE Signers -------------------------------
(***************************************************************************)
(* The agents' signers (src/wallets/vega.go) as the rest of the program    *)
(* sees them: one goroutine per agent takes what is in the agent's channel *)
(* in turn, finds a proof of work for it or drops it, and takes the next   *)
(* only when the transaction has left.  TradingSystem is built from these  *)
(* steps; that the pipeline of proofs takes no others is PowPipeline's     *)
(* SignersSpec.                                                            *)
(***************************************************************************)
EXTENDS Naturals, Sequences

VARIABLES
    txDataCh, \* txDataCh[a]: what agent a's channel buffers, and the blocked sends behind
    signer    \* signer[a]: where it stands, for: the input it serves

NoInput == 0

Idle == [at |-> "idle", for |-> NoInput]

SignersInit(agents) ==
    /\ txDataCh = [a \in agents |-> <<>>]
    /\ signer = [a \in agents |-> Idle]

Put(a, input) ==
    /\ txDataCh' = [txDataCh EXCEPT ![a] = Append(@, input)]
    /\ UNCHANGED signer

Take(a) ==
    /\ signer[a].at = "idle" /\ txDataCh[a] # <<>>
    /\ signer' = [signer EXCEPT ![a] = [at |-> "signing", for |-> Head(txDataCh[a])]]
    /\ txDataCh' = [txDataCh EXCEPT ![a] = Tail(@)]

Sign(a) ==
    /\ signer[a].at = "signing"
    /\ signer' = [signer EXCEPT ![a].at = "sending"]
    /\ UNCHANGED txDataCh

\* Without a proof after its retries.
Drop(a) ==
    /\ signer[a].at = "signing"
    /\ signer' = [signer EXCEPT ![a] = Idle]
    /\ UNCHANGED txDataCh

\* The broadcast channel takes the transaction.
Pass(a) ==
    /\ signer[a].at = "sending"
    /\ signer' = [signer EXCEPT ![a] = Idle]
    /\ UNCHANGED txDataCh

SignersNext(agents, inputs) ==
    \E a \in agents :
        \/ \E input \in inputs : Put(a, input)
        \/ Take(a) \/ Sign(a) \/ Drop(a) \/ Pass(a)
=============================================================================
