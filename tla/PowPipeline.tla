---------------------------- MODULE PowPipeline -----------------------------
(***************************************************************************)
(* From blocks and strategy inputs to signed transactions:                 *)
(*   - the proof-of-work worker (src/pow/worker.go), one goroutine that    *)
(*     receives recent blocks, generates proofs for every agent and prunes *)
(*     the stores;                                                         *)
(*   - one PowStore per agent (src/pow/store.go, operators in PowStore);   *)
(*   - one signer goroutine per agent (src/wallets/vega.go), which takes   *)
(*     inputs from its buffered channel, a proof from its store, and sends *)
(*     the transaction on the broadcast channel.                           *)
(* The worker holds its own lock while it flushes or prunes, a signer only *)
(* the store's, so the goroutines interleave between any two stores.       *)
(***************************************************************************)
EXTENDS PowStore, Integers, Sequences, FiniteSets

CONSTANTS
    Agents,      \* public keys of the agents
    NumStrats,   \* NumStrats[a]: strategies registered with agent a
    TxPerBlock,  \* SpamPowNumTxPerBlock of the network
    KeepBlocks,  \* uint64(math.Floor(100 * blockKeepFraction)), 80 in the code
    Modulus,     \* 2^64: heights are uint64
    QueueCap,    \* capacity of txDataCh, 5 in the code
    MaxRetries,  \* retries of GetPowWithRetry, 5 in the code
    MaxHeight,   \* bound: highest block of a behaviour
    MaxInputs    \* bound: inputs handed to one agent

ASSUME PowAssumption ==
    /\ Agents # {}
    /\ NumStrats \in [Agents -> Nat]
    /\ TxPerBlock \in Nat \ {0}
    /\ KeepBlocks \in Nat
    /\ MaxHeight \in Nat
    /\ Modulus \in Nat
    /\ MaxHeight < Modulus
    /\ KeepBlocks < Modulus
    /\ QueueCap \in Nat \ {0}
    /\ MaxRetries \in Nat
    /\ MaxInputs \in Nat

VARIABLES
    lastBlock,  \* worker.lastBlock's height, or NoBlock
    keepHeight, \* local of the worker's loop
    pc,         \* where the worker's loop stands
    todo,       \* agents the current generate or prune pass has yet to visit
    minted,     \* minted[a]: transaction ids drawn for agent a so far
    pows,       \* pows[a]: the proofs in agent a's store
    used,       \* used[a]: those of pows[a] whose Used flag is set
    accepted,   \* accepted[a]: inputs handed to txDataCh so far
    txDataCh,   \* txDataCh[a]: the buffered channel of agent a's signer
    current,    \* current[a]: input in BuildAndSendTx, or NoInput
    tries,      \* tries[a]: failed GetPow calls for the current input
    holding,    \* holding[a]: the proof taken for the current input, if any
    sent        \* sent[a]: transactions the broadcast channel took, in order

workerVars == <<lastBlock, keepHeight, pc, todo, minted>>
signerVars == <<accepted, txDataCh, current, tries, holding, sent>>
storeVars == <<pows, used>>
vars == <<workerVars, storeVars, signerVars>>

NoBlock == -1
NoInput == 0
Heights == 0..MaxHeight
NumProofs(a) == 2 * NumStrats[a]     \* numProofsPerStrat * numStrats
TxIds == Agents \X Nat               \* uuids: never drawn twice
Proofs == [blockHeight : Heights, difficulty : Nat, txId : TxIds]
Txs == [input : Nat, pow : Proofs]

Init ==
    /\ lastBlock = NoBlock
    /\ keepHeight = 0
    /\ pc = "recv"
    /\ todo = {}
    /\ minted = [a \in Agents |-> 0]
    /\ pows = [a \in Agents |-> {}]
    /\ used = [a \in Agents |-> {}]
    /\ accepted = [a \in Agents |-> 0]
    /\ txDataCh = [a \in Agents |-> <<>>]
    /\ current = [a \in Agents |-> NoInput]
    /\ tries = [a \in Agents |-> 0]
    /\ holding = [a \in Agents |-> {}]
    /\ sent = [a \in Agents |-> <<>>]

-----------------------------------------------------------------------------
(* The worker.                                                             *)

\* lb.Height - 80, in uint64.
KeepSince(lb) ==
    IF lb >= KeepBlocks THEN lb - KeepBlocks ELSE lb - KeepBlocks + Modulus

\* Mutant: a repeated height counts as new.
OldBlock_Strict(h) == lastBlock # NoBlock /\ h < lastBlock

\* A block the worker has already passed (two block loops may both be alive
\* after a reconnect, so heights come repeated and out of order).
OldBlock(h) == lastBlock # NoBlock /\ h <= lastBlock

\* The first block after start-up is only remembered.
FirstBlock(h) ==
    /\ pc = "recv"
    /\ lastBlock = NoBlock
    /\ lastBlock' = h
    /\ UNCHANGED <<keepHeight, pc, todo, minted, storeVars, signerVars>>

SkipBlock(h) ==
    /\ pc = "recv"
    /\ OldBlock(h)
    /\ UNCHANGED vars

\* keepHeight comes from the block that was last until now.
NewBlock(h) ==
    /\ pc = "recv"
    /\ lastBlock # NoBlock
    /\ ~OldBlock(h)
    /\ keepHeight' = KeepSince(lastBlock)
    /\ lastBlock' = h
    /\ pc' = "generate"
    /\ todo' = Agents
    /\ UNCHANGED <<minted, storeVars, signerVars>>

\* Proof i has the base difficulty plus i div TxPerBlock; the base, the same
\* for all proofs of a block, is left out.
Generated(a, h) ==
    {[blockHeight |-> h, difficulty |-> i \div TxPerBlock,
      txId |-> <<a, minted[a] + i>>] : i \in 0..(NumProofs(a) - 1)}

\* One turn of the pass over the agents; after the last the worker moves on.
Visited(a, then) ==
    /\ a \in todo
    /\ todo' = IF todo = {a} /\ then = "prune" THEN Agents ELSE todo \ {a}
    /\ pc' = IF todo = {a} THEN then ELSE pc

\* GeneratePows for one agent: all its goroutines have finished (wg.Wait)
\* before the buffer is flushed to the store in one SetPows call.
GenerateFor(a) ==
    /\ pc = "generate"
    /\ Visited(a, "prune")
    /\ pows' = [pows EXCEPT ![a] = SetPows(@, Generated(a, lastBlock))]
    /\ minted' = [minted EXCEPT ![a] = @ + NumProofs(a)]
    /\ UNCHANGED <<lastBlock, keepHeight, used, signerVars>>

PruneFor(a) ==
    /\ pc = "prune"
    /\ Visited(a, "recv")
    /\ pows' = [pows EXCEPT ![a] = PrunePows(@, keepHeight)]
    /\ used' = [used EXCEPT ![a] = PrunePows(@, keepHeight)]
    /\ UNCHANGED <<lastBlock, keepHeight, minted, signerVars>>

-----------------------------------------------------------------------------
(* The signers.                                                            *)

\* A strategy sends an input; it blocks while the channel is full.
HandOver(a) ==
    /\ accepted[a] < MaxInputs
    /\ Len(txDataCh[a]) < QueueCap
    /\ accepted' = [accepted EXCEPT ![a] = @ + 1]
    /\ txDataCh' = [txDataCh EXCEPT ![a] = Append(@, accepted[a] + 1)]
    /\ UNCHANGED <<workerVars, storeVars, current, tries, holding, sent>>

\* Mutant: the input is read without leaving the channel.
StartInput_Peek(a) ==
    /\ current[a] = NoInput
    /\ txDataCh[a] # <<>>
    /\ current' = [current EXCEPT ![a] = Head(txDataCh[a])]
    /\ tries' = [tries EXCEPT ![a] = 0]
    /\ UNCHANGED <<workerVars, storeVars, accepted, txDataCh, holding, sent>>

\* Mutant: the next input does not wait until the one before has left.
StartInput_Spawns(a) ==
    /\ txDataCh[a] # <<>>
    /\ current' = [current EXCEPT ![a] = Head(txDataCh[a])]
    /\ txDataCh' = [txDataCh EXCEPT ![a] = Tail(@)]
    /\ tries' = [tries EXCEPT ![a] = 0]
    /\ UNCHANGED <<workerVars, storeVars, accepted, holding, sent>>

StartInput(a) ==
    /\ current[a] = NoInput
    /\ txDataCh[a] # <<>>
    /\ current' = [current EXCEPT ![a] = Head(txDataCh[a])]
    /\ txDataCh' = [txDataCh EXCEPT ![a] = Tail(@)]
    /\ tries' = [tries EXCEPT ![a] = 0]
    /\ UNCHANGED <<workerVars, storeVars, accepted, holding, sent>>

NeedsProof(a) == current[a] # NoInput /\ holding[a] = {}

\* GetPow succeeds: the proof is chosen and tainted under one read lock of
\* the store, whose only reader is this signer.
TakeProof(a) ==
    /\ NeedsProof(a)
    /\ \E p \in NextProofs(Unused(pows[a], used[a])) :
         /\ used' = [used EXCEPT ![a] = TaintPoW(@, p)]
         /\ holding' = [holding EXCEPT ![a] = {p}]
    /\ UNCHANGED <<workerVars, pows, accepted, txDataCh, current, tries, sent>>

\* Mutant: the retry count starts over with each call.
RetryLater_Restarts(a) ==
    /\ NeedsProof(a)
    /\ Unused(pows[a], used[a]) = {}
    /\ tries[a] < MaxRetries
    /\ tries' = [tries EXCEPT ![a] = 0]
    /\ UNCHANGED <<workerVars, storeVars, accepted, txDataCh, current, holding, sent>>

\* GetPow fails and GetPowWithRetry sleeps before another call.
RetryLater(a) ==
    /\ NeedsProof(a)
    /\ Unused(pows[a], used[a]) = {}
    /\ tries[a] < MaxRetries
    /\ tries' = [tries EXCEPT ![a] = @ + 1]
    /\ UNCHANGED <<workerVars, storeVars, accepted, txDataCh, current, holding, sent>>

\* GetPow has failed MaxRetries + 1 times: the input is dropped.
DropInput(a) ==
    /\ NeedsProof(a)
    /\ Unused(pows[a], used[a]) = {}
    /\ tries[a] >= MaxRetries
    /\ current' = [current EXCEPT ![a] = NoInput]
    /\ UNCHANGED <<workerVars, storeVars, accepted, txDataCh, tries, holding, sent>>

\* The input gets the proof's height, the transaction its id and nonce.
Tx(input, proof) == [input |-> input, pow |-> proof]

\* The transaction goes out on the unbuffered broadcast channel.
SendTx(a) ==
    /\ \E p \in holding[a] :
         sent' = [sent EXCEPT ![a] = Append(@, Tx(current[a], p))]
    /\ current' = [current EXCEPT ![a] = NoInput]
    /\ holding' = [holding EXCEPT ![a] = {}]
    /\ UNCHANGED <<workerVars, storeVars, accepted, txDataCh, tries>>

-----------------------------------------------------------------------------

Worker ==
    \/ \E h \in Heights : FirstBlock(h) \/ SkipBlock(h) \/ NewBlock(h)
    \/ \E a \in Agents : GenerateFor(a) \/ PruneFor(a)

Signer(a) ==
    StartInput(a) \/ TakeProof(a) \/ RetryLater(a) \/ DropInput(a) \/ SendTx(a)

Next == Worker \/ \E a \in Agents : HandOver(a) \/ Signer(a)

Spec == Init /\ [][Next]_vars

\* A signer goroutine is always runnable between channel operations, and its
\* send completes as long as a submit loop receives: the connection is up.
\* Nothing is assumed of blocks or strategies: both may stop.
FairSpec == Spec /\ \A a \in Agents : WF_vars(Signer(a))

-----------------------------------------------------------------------------
(* Properties.                                                             *)

\* Every variable has the values the code can give it; in particular the
\* keep height is a uint64, and a signer handles one input with at most one
\* proof in hand.
TypeOK ==
    /\ lastBlock \in Heights \cup {NoBlock}
    /\ keepHeight \in 0..(Modulus - 1)
    /\ pc \in {"recv", "generate", "prune"}
    /\ todo \in SUBSET Agents
    /\ minted \in [Agents -> Nat]
    /\ pows \in [Agents -> SUBSET Proofs]
    /\ used \in [Agents -> SUBSET Proofs]
    /\ accepted \in [Agents -> 0..MaxInputs]
    /\ txDataCh \in [Agents -> Seq(1..MaxInputs)]
    /\ \A a \in Agents : Len(txDataCh[a]) <= QueueCap
    /\ current \in [Agents -> 0..MaxInputs]
    /\ tries \in [Agents -> 0..MaxRetries]
    /\ holding \in [Agents -> SUBSET Proofs]
    /\ \A a \in Agents : \A p, q \in holding[a] : p = q
    /\ sent \in [Agents -> Seq(Txs)]

\* A proof of work leaves in one transaction at most: two transactions, of
\* one agent or of two, never carry the same id (GetPow taints the proof it
\* returns, and a height is generated once).
ProofSpentOnce ==
    \A a, b \in Agents : \A i \in DOMAIN sent[a], j \in DOMAIN sent[b] :
        sent[a][i].pow.txId = sent[b][j].pow.txId => a = b /\ i = j

\* The network's spam rule: TxPerBlock transactions of one key may use the
\* base difficulty of a block, the next TxPerBlock must add one, and so on,
\* in the order they arrive.  Depends on the comparator within a height, on
\* a height being generated once and flushed whole, and on whole-height
\* pruning.
SpamRule ==
    \A a \in Agents : \A i \in DOMAIN sent[a] :
        LET pow == sent[a][i].pow
            earlier == {j \in 1..(i - 1) : sent[a][j].pow.blockHeight = pow.blockHeight}
        IN  pow.difficulty >= Cardinality(earlier) \div TxPerBlock

\* Between blocks no store holds a proof from outside the window the last
\* pass kept: nothing older than 80 blocks before the previous block, and
\* nothing newer than the last.
StoreWindow ==
    pc = "recv" =>
        \A a \in Agents : \A p \in pows[a] :
            keepHeight <= p.blockHeight /\ p.blockHeight <= lastBlock

\* A pass never throws away the proofs it has just generated, unless the
\* keep height wrapped below zero (the previous block lower than 80).
FreshProofsKept ==
    pc = "recv" /\ todo = {} /\ keepHeight < Modulus - KeepBlocks =>
        \A a \in Agents : minted[a] > 0 =>
            Cardinality({p \in pows[a] : p.blockHeight = lastBlock}) = NumProofs(a)

\* The pipeline implements the stream it promises: in order, each input
\* settled once, no id twice.
Settled == [a \in Agents |->
    accepted[a] - Len(txDataCh[a]) - (IF current[a] = NoInput THEN 0 ELSE 1)]
Delivered == [a \in Agents |->
    [k \in DOMAIN sent[a] |-> [input |-> sent[a][k].input, txId |-> sent[a][k].pow.txId]]]

Stream == INSTANCE TxStream WITH settled <- Settled, delivered <- Delivered
StreamSpec == Stream!Spec

\* What TradingSystem takes the signers for: each serves its own channel in
\* turn, one input at a time, and has let go of one before it takes the next.
SignerOf == [a \in Agents |->
    [at |-> IF current[a] = NoInput THEN "idle"
            ELSE IF holding[a] = {} THEN "signing" ELSE "sending",
     for |-> current[a]]]

Outside == INSTANCE Signers WITH signer <- SignerOf
SignersSpec ==
    /\ Outside!SignersInit(Agents)
    /\ [][Outside!SignersNext(Agents, 1 .. MaxInputs)]_<<txDataCh, SignerOf>>

\* Every input handed over is settled, blocks or no blocks: the retry loop
\* ends, and one input's wait for proofs never blocks the next for good.
EveryInputSettled ==
    \A a \in Agents : \A n \in 1..MaxInputs :
        (accepted[a] >= n) ~> (Settled[a] >= n)
=============================================================================
