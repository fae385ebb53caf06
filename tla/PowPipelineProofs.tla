------------------------- MODULE PowPipelineProofs --------------------------
(***************************************************************************)
(* Theorems about PowPipeline, for every value of its constants: what the  *)
(* proofs of work are safe from, and that it implements TxStream and the   *)
(* signers that TradingSystem is built from.                               *)
(***************************************************************************)
EXTENDS PowPipeline, FiniteSetTheorems, SequenceTheorems, TLAPS

-----------------------------------------------------------------------------
(* Type correctness.                                                       *)

\* Where the worker stands: a pass over the agents is under way exactly when
\* agents are left to visit, and only after a first block.
WorkerInv ==
    /\ pc = "recv" => todo = {}
    /\ todo = {} => pc = "recv"
    /\ pc # "recv" => lastBlock # NoBlock

TypeInv == TypeOK /\ WorkerInv

LEMMA TypeInit == Init => TypeInv
BY PowAssumption DEF Init, TypeInv, TypeOK, WorkerInv, NoBlock, NoInput, Heights

\* Proofs of a block are minted for that block, with ids of the agent.
LEMMA GeneratedType ==
    ASSUME NEW a \in Agents, NEW h \in Heights, minted[a] \in Nat
    PROVE  Generated(a, h) \subseteq Proofs
<1>1. NumProofs(a) \in Nat
  BY PowAssumption DEF NumProofs
<1>2. ASSUME NEW i \in 0..(NumProofs(a) - 1)
      PROVE  i \div TxPerBlock \in Nat
  BY <1>1, PowAssumption
<1>3. ASSUME NEW i \in 0..(NumProofs(a) - 1)
      PROVE  <<a, minted[a] + i>> \in TxIds
  BY <1>1 DEF TxIds
<1>4. QED
  BY <1>2, <1>3 DEF Generated, Proofs

\* Only the worker moves the worker's state.
LEMMA WorkerInvStep ==
    ASSUME TypeInv, [Next]_vars PROVE WorkerInv'
<1> USE DEF WorkerInv
<1>1. WorkerInv /\ (lastBlock \in Heights => lastBlock # NoBlock)
  BY PowAssumption DEF TypeInv, Heights, NoBlock
<1>2. CASE UNCHANGED workerVars
  BY <1>1, <1>2 DEF workerVars
<1>3. CASE Worker
  <2>1. ASSUME NEW h \in Heights, FirstBlock(h) \/ SkipBlock(h) PROVE WorkerInv'
    BY <1>1, <2>1 DEF FirstBlock, SkipBlock, vars, workerVars
  <2>2. ASSUME NEW h \in Heights, NewBlock(h) PROVE WorkerInv'
    BY <2>2, PowAssumption DEF NewBlock, Heights, NoBlock
  <2>3. ASSUME NEW a \in Agents, GenerateFor(a) PROVE WorkerInv'
    BY <1>1, <2>3 DEF GenerateFor, Visited
  <2>4. ASSUME NEW a \in Agents, PruneFor(a) PROVE WorkerInv'
    BY <1>1, <2>4 DEF PruneFor, Visited
  <2>5. QED
    BY <1>3, <2>1, <2>2, <2>3, <2>4 DEF Worker
<1>4. ASSUME NEW a \in Agents, HandOver(a) \/ Signer(a) PROVE UNCHANGED workerVars
  BY <1>4 DEF HandOver, Signer, StartInput, TakeProof, RetryLater, DropInput, SendTx
<1>5. QED
  BY <1>2, <1>3, <1>4 DEF Next, vars

\* The worker's steps keep the types: the keep height is reduced into the
\* range of a uint64, and proofs are minted for a height that exists.
LEMMA TypeWorker ==
    ASSUME TypeInv, Worker PROVE TypeOK'
<1>1. TypeOK /\ (pc # "recv" => lastBlock \in Heights)
  BY DEF TypeInv, TypeOK, WorkerInv
<1> USE DEF TypeOK
<1>2. CASE \E h \in Heights : FirstBlock(h) \/ SkipBlock(h)
  BY <1>1, <1>2
  DEF FirstBlock, SkipBlock, vars, workerVars, signerVars, storeVars
<1>3. CASE \E h \in Heights : NewBlock(h)
  <2>1. PICK h \in Heights : NewBlock(h)
    BY <1>3
  <2>2. lastBlock \in 0..MaxHeight
    BY <1>1, <2>1 DEF NewBlock, Heights
  <2>3. keepHeight' \in 0..(Modulus - 1)
    BY <2>1, <2>2, PowAssumption DEF NewBlock, KeepSince
  <2>4. QED
    BY <1>1, <2>1, <2>3 DEF NewBlock, signerVars, storeVars
<1>4. ASSUME NEW a \in Agents, GenerateFor(a) PROVE TypeOK'
  <2>1. lastBlock \in Heights /\ minted[a] \in Nat
    BY <1>1, <1>4 DEF GenerateFor
  <2>2. Generated(a, lastBlock) \subseteq Proofs
    BY <2>1, GeneratedType
  <2>3. pows' \in [Agents -> SUBSET Proofs]
    BY <1>1, <1>4, <2>2 DEF GenerateFor, SetPows
  <2>4. NumProofs(a) \in Nat
    BY PowAssumption DEF NumProofs
  <2>5. minted' \in [Agents -> Nat]
    BY <1>1, <1>4, <2>4 DEF GenerateFor
  <2>6. QED
    BY <1>1, <1>4, <2>3, <2>5 DEF GenerateFor, Visited, signerVars
<1>5. ASSUME NEW a \in Agents, PruneFor(a) PROVE TypeOK'
  <2>1. pows' \in [Agents -> SUBSET Proofs] /\ used' \in [Agents -> SUBSET Proofs]
    BY <1>1, <1>5 DEF PruneFor, PrunePows
  <2>2. QED
    BY <1>1, <1>5, <2>1 DEF PruneFor, Visited, signerVars
<1>6. QED
  BY <1>2, <1>3, <1>4, <1>5 DEF Worker

\* The strategies' and the signer's steps keep the types: a channel holds at
\* most its capacity, and a tainted proof is a proof.
LEMMA TypeSigner ==
    ASSUME TypeOK, NEW a \in Agents, HandOver(a) \/ Signer(a) PROVE TypeOK'
<1> USE DEF TypeOK
<1>1. CASE HandOver(a)
  <2>1. accepted[a] \in Nat /\ accepted[a] + 1 \in 1..MaxInputs
    <3>1. accepted[a] \in 0..MaxInputs /\ accepted[a] < MaxInputs
      BY <1>1 DEF HandOver
    <3>2. MaxInputs \in Nat
      BY PowAssumption
    <3>3. \A n \in 0..MaxInputs : n < MaxInputs => n \in Nat /\ n + 1 \in 1..MaxInputs
      BY <3>2
    <3>4. QED
      BY <3>1, <3>3
  <2>2. Append(txDataCh[a], accepted[a] + 1) \in Seq(1..MaxInputs)
    BY <2>1
  <2>3. Len(Append(txDataCh[a], accepted[a] + 1)) <= QueueCap
    <3>1. txDataCh[a] \in Seq(1..MaxInputs) /\ Len(txDataCh[a]) < QueueCap
      BY <1>1 DEF HandOver
    <3>2. Len(Append(txDataCh[a], accepted[a] + 1)) = Len(txDataCh[a]) + 1
      BY <2>1, <3>1, AppendProperties
    <3>3. Len(txDataCh[a]) \in Nat
      BY <3>1, LenProperties
    <3>4. QED
      BY <3>1, <3>2, <3>3, PowAssumption
  <2>4. QED
    BY <1>1, <2>1, <2>2, <2>3 DEF HandOver, workerVars, storeVars
<1>2. CASE StartInput(a)
  <2>1. txDataCh[a] \in Seq(1..MaxInputs) /\ txDataCh[a] # <<>>
    BY <1>2 DEF StartInput
  <2>2. Head(txDataCh[a]) \in 1..MaxInputs /\ Tail(txDataCh[a]) \in Seq(1..MaxInputs)
    BY <2>1, HeadTailProperties
  <2>3. Len(Tail(txDataCh[a])) <= QueueCap
    <3>1. Len(Tail(txDataCh[a])) = Len(txDataCh[a]) - 1 /\ Len(txDataCh[a]) \in Nat
      BY <2>1, HeadTailProperties, LenProperties
    <3>2. QED
      BY <3>1, PowAssumption
  <2>4. 0 \in 0..MaxRetries /\ 1..MaxInputs \subseteq 0..MaxInputs
    BY PowAssumption
  <2>5. QED
    BY <1>2, <2>2, <2>3, <2>4 DEF StartInput, workerVars, storeVars
<1>3. CASE TakeProof(a)
  <2>1. PICK p \in pows[a] :
          /\ used' = [used EXCEPT ![a] = @ \cup {p}]
          /\ holding' = [holding EXCEPT ![a] = {p}]
    BY <1>3 DEF TakeProof, NextProofs, Unused, TaintPoW
  <2>2. p \in Proofs
    OBVIOUS
  <2>3. used' \in [Agents -> SUBSET Proofs]
    BY <2>1, <2>2
  <2>4. holding' \in [Agents -> SUBSET Proofs]
    BY <2>1, <2>2
  <2>5. (\A b \in Agents : \A x, y \in holding[b] : x = y)'
    BY <2>1
  <2>6. QED
    BY <1>3, <2>3, <2>4, <2>5 DEF TakeProof, workerVars
<1>4. CASE RetryLater(a)
  <2>1. tries[a] + 1 \in 0..MaxRetries
    <3>1. tries[a] \in 0..MaxRetries /\ tries[a] < MaxRetries
      BY <1>4 DEF RetryLater
    <3>2. \A n \in 0..MaxRetries : n < MaxRetries => n + 1 \in 0..MaxRetries
      BY PowAssumption
    <3>3. QED
      BY <3>1, <3>2
  <2>2. tries' \in [Agents -> 0..MaxRetries]
    BY <1>4, <2>1 DEF RetryLater
  <2>3. QED
    BY <1>4, <2>2 DEF RetryLater, workerVars, storeVars
<1>5. CASE DropInput(a)
  <2>1. current' \in [Agents -> 0..MaxInputs]
    BY <1>5, PowAssumption DEF DropInput, NoInput
  <2>2. QED
    BY <1>5, <2>1 DEF DropInput, workerVars, storeVars
<1>6. CASE SendTx(a)
  <2>1. PICK p \in holding[a] :
          sent' = [sent EXCEPT ![a] = Append(@, Tx(current[a], p))]
    BY <1>6 DEF SendTx
  <2>2. p \in Proofs /\ current[a] \in Nat
    OBVIOUS
  <2>3. Tx(current[a], p) \in Txs
    BY <2>2 DEF Tx, Txs, Proofs
  <2>4. sent' \in [Agents -> Seq(Txs)]
    BY <2>1, <2>3
  <2>5. current' \in [Agents -> 0..MaxInputs]
    BY <1>6, PowAssumption DEF SendTx, NoInput
  <2>6. QED
    BY <1>6, <2>4, <2>5 DEF SendTx, workerVars, storeVars
<1>7. QED
  BY <1>1, <1>2, <1>3, <1>4, <1>5, <1>6 DEF Signer

LEMMA TypeStep == TypeInv /\ [Next]_vars => TypeInv'
<1>1. ASSUME TypeOK, UNCHANGED vars PROVE TypeOK'
  BY <1>1 DEF TypeOK, vars, workerVars, storeVars, signerVars
<1>2. QED
  BY <1>1, TypeWorker, TypeSigner, WorkerInvStep DEF Next, TypeInv

\* Every variable of the pipeline keeps its type, for every number of agents,
\* strategies and blocks (worker.go, store.go, vega.go).
THEOREM TypeCorrect == Spec => []TypeOK
<1>1. TypeInv => TypeOK
  BY DEF TypeInv
<1>2. QED
  BY <1>1, TypeInit, TypeStep, PTL DEF Spec

-----------------------------------------------------------------------------
(* Proofs of work: what the store, the signer and the wire know of them.   *)

SentPows(a) == {sent[a][i].pow : i \in DOMAIN sent[a]}
Known(a) == pows[a] \cup holding[a] \cup SentPows(a)
Free(a) == Unused(pows[a], used[a])

\* A height the worker is about to generate for an agent is new to it.
Fresh(a, p) ==
    /\ p.blockHeight <= lastBlock
    /\ pc = "generate" /\ a \in todo => p.blockHeight < lastBlock

Minted(a, p) == p.txId[1] = a /\ p.txId[2] < minted[a]

\* At one height, difficulty grows with the id from a base on.
RankedFrom(a, h, base) ==
    \A p \in Known(a) :
        p.blockHeight = h =>
            /\ p.txId[2] >= base
            /\ p.difficulty = (p.txId[2] - base) \div TxPerBlock

KnownInv(a) ==
    /\ \A p \in Known(a) : Fresh(a, p) /\ Minted(a, p)
    /\ \A p, q \in Known(a) : p.txId = q.txId => p = q
    /\ \A h \in Heights : \E base \in Nat : RankedFrom(a, h, base)

\* A proof is free in the store, held by the signer or sent once.
SpentInv(a) ==
    /\ Free(a) \cap (holding[a] \cup SentPows(a)) = {}
    /\ holding[a] \cap SentPows(a) = {}
    /\ \A i, j \in DOMAIN sent[a] : sent[a][i].pow = sent[a][j].pow => i = j

NoHarder(p, q) == p.blockHeight = q.blockHeight => p.difficulty <= q.difficulty

\* Per height, proofs leave in order of difficulty.
LadderInv(a) ==
    /\ \A i, j \in DOMAIN sent[a] : i < j => NoHarder(sent[a][i].pow, sent[a][j].pow)
    /\ \A p \in SentPows(a), q \in holding[a] \cup Free(a) : NoHarder(p, q)
    /\ \A p \in holding[a], q \in Free(a) : NoHarder(p, q)

PowInv == \A a \in Agents : KnownInv(a) /\ SpentInv(a) /\ LadderInv(a)

LEMMA PowInit == Init => PowInv
<1> SUFFICES ASSUME Init, NEW a \in Agents
             PROVE  KnownInv(a) /\ SpentInv(a) /\ LadderInv(a)
  BY DEF PowInv
<1>1. pows[a] = {} /\ used[a] = {} /\ holding[a] = {} /\ sent[a] = <<>>
  BY DEF Init
<1>2. Free(a) = {} /\ SentPows(a) = {} /\ Known(a) = {}
  BY <1>1 DEF Free, Unused, SentPows, Known
<1>3. 0 \in Nat /\ \A h \in Heights : RankedFrom(a, h, 0)
  BY <1>2 DEF RankedFrom
<1>4. KnownInv(a)
  BY <1>2, <1>3 DEF KnownInv
<1>5. QED
  BY <1>1, <1>2, <1>4 DEF SpentInv, LadderInv

LEMMA KnownType ==
    ASSUME TypeOK, NEW a \in Agents
    PROVE  Known(a) \subseteq Proofs /\ SentPows(a) \subseteq Proofs
<1>1. ASSUME NEW i \in DOMAIN sent[a] PROVE sent[a][i].pow \in Proofs
  <2>1. sent[a] \in Seq(Txs)
    BY DEF TypeOK
  <2>2. sent[a][i] \in Txs
    BY <2>1, ElementOfSeq, LenProperties
  <2>3. QED
    BY <2>2 DEF Txs
<1>2. pows[a] \subseteq Proofs /\ holding[a] \subseteq Proofs
  BY DEF TypeOK
<1>3. QED
  BY <1>1, <1>2 DEF Known, SentPows

\* The worker never turns back: what it has passed stays passed.
LEMMA FreshKept ==
    ASSUME TypeInv, [Next]_vars, NEW b \in Agents, NEW p \in Proofs, Fresh(b, p)
    PROVE  Fresh(b, p)'
<1>1. lastBlock \in Int /\ p.blockHeight \in Int /\ Heights \subseteq Int
  BY PowAssumption DEF TypeInv, TypeOK, Heights, NoBlock, Proofs
<1> USE <1>1 DEF Fresh
<1>2. CASE UNCHANGED workerVars
  BY <1>2 DEF workerVars
<1>3. ASSUME NEW h \in Heights, FirstBlock(h) \/ SkipBlock(h) PROVE Fresh(b, p)'
  <2>1. p.blockHeight \in Nat
    BY PowAssumption DEF Proofs, Heights
  <2>2. QED
    BY <1>3, <2>1 DEF FirstBlock, SkipBlock, vars, workerVars, NoBlock
<1>4. ASSUME NEW h \in Heights, NewBlock(h) PROVE Fresh(b, p)'
  BY <1>4 DEF NewBlock, OldBlock
<1>5. ASSUME NEW a \in Agents, GenerateFor(a) PROVE Fresh(b, p)'
  BY <1>5 DEF GenerateFor, Visited
<1>6. ASSUME NEW a \in Agents, PruneFor(a) PROVE Fresh(b, p)'
  BY <1>6 DEF PruneFor, Visited
<1>7. ASSUME NEW a \in Agents, HandOver(a) \/ Signer(a) PROVE UNCHANGED workerVars
  BY <1>7 DEF HandOver, Signer, StartInput, TakeProof, RetryLater, DropInput, SendTx
<1>8. QED
  BY <1>2, <1>3, <1>4, <1>5, <1>6, <1>7 DEF Next, Worker, vars

\* What a step of the signer changes in the history of its agent.
LEMMA SendEffect ==
    ASSUME TypeOK, NEW a \in Agents, SendTx(a)
    PROVE  \E p \in holding[a] :
             /\ holding[a] = {p}
             /\ holding'[a] = {}
             /\ Len(sent[a]) \in Nat
             /\ DOMAIN sent[a] = 1..Len(sent[a])
             /\ DOMAIN sent'[a] = 1..(Len(sent[a]) + 1)
             /\ \A i \in DOMAIN sent[a] : sent'[a][i] = sent[a][i]
             /\ sent'[a][Len(sent[a]) + 1].pow = p
<1>1. PICK p \in holding[a] : sent' = [sent EXCEPT ![a] = Append(@, Tx(current[a], p))]
  BY DEF SendTx
<1>2. sent \in [Agents -> Seq(Txs)] /\ holding \in [Agents -> SUBSET Proofs]
  BY DEF TypeOK
<1>3. sent'[a] = Append(sent[a], Tx(current[a], p)) /\ sent[a] \in Seq(Txs)
  BY <1>1, <1>2
<1>4. Tx(current[a], p) \in Txs
  BY DEF TypeOK, Tx, Txs
<1>5. /\ Len(sent[a]) \in Nat
      /\ DOMAIN sent[a] = 1..Len(sent[a])
  BY <1>3, LenProperties
<1>6. /\ DOMAIN sent'[a] = 1..(Len(sent[a]) + 1)
      /\ \A i \in DOMAIN sent[a] : sent'[a][i] = sent[a][i]
      /\ sent'[a][Len(sent[a]) + 1] = Tx(current[a], p)
  BY <1>3, <1>4, <1>5, AppendProperties
<1>7. holding[a] = {p} /\ holding'[a] = {}
  BY <1>2 DEF SendTx, TypeOK
<1>8. QED
  BY <1>5, <1>6, <1>7 DEF Tx

\* Only generation adds a proof to what an agent knows.
LEMMA KnownShrinks ==
    ASSUME TypeOK, [Next]_vars, NEW b \in Agents, ~GenerateFor(b)
    PROVE  /\ Known(b)' \subseteq Known(b)
           /\ minted'[b] = minted[b]
<1> USE DEF Known, SentPows
<1>1. pows \in [Agents -> SUBSET Proofs] /\ holding \in [Agents -> SUBSET Proofs]
      /\ minted \in [Agents -> Nat] /\ sent \in [Agents -> Seq(Txs)]
  BY DEF TypeOK
<1>2. CASE UNCHANGED <<storeVars, minted, holding, sent>>
  BY <1>2 DEF storeVars
<1>3. ASSUME NEW h \in Heights, FirstBlock(h) \/ SkipBlock(h) \/ NewBlock(h)
      PROVE  UNCHANGED <<storeVars, minted, holding, sent>>
  BY <1>3 DEF FirstBlock, SkipBlock, NewBlock, vars, workerVars, storeVars, signerVars
<1>4. ASSUME NEW a \in Agents, GenerateFor(a) \/ PruneFor(a)
      PROVE  /\ pows'[b] \subseteq pows[b]
             /\ minted'[b] = minted[b]
             /\ UNCHANGED <<holding, sent>>
  BY <1>1, <1>4 DEF GenerateFor, PruneFor, PrunePows, signerVars
<1>5. ASSUME NEW a \in Agents, TakeProof(a)
      PROVE  /\ holding'[b] \subseteq holding[b] \cup pows[b]
             /\ UNCHANGED <<pows, minted, sent>>
  BY <1>1, <1>5 DEF TakeProof, NextProofs, Unused, workerVars
<1>6. ASSUME NEW a \in Agents, SendTx(a)
      PROVE  /\ Known(b)' \subseteq Known(b)
             /\ UNCHANGED minted
  <2>1. UNCHANGED <<pows, minted>>
    BY <1>6 DEF SendTx, workerVars, storeVars
  <2>2. CASE a = b
    BY <1>6, <2>1, <2>2, SendEffect
  <2>3. CASE a # b
    BY <1>1, <1>6, <2>1, <2>3 DEF SendTx
  <2>4. QED
    BY <2>1, <2>2, <2>3
<1>7. ASSUME NEW a \in Agents, HandOver(a) \/ StartInput(a) \/ RetryLater(a) \/ DropInput(a)
      PROVE  UNCHANGED <<storeVars, minted, holding, sent>>
  BY <1>7 DEF HandOver, StartInput, RetryLater, DropInput, workerVars
<1>8. UNCHANGED vars => UNCHANGED <<storeVars, minted, holding, sent>>
  BY DEF vars, workerVars, signerVars
<1>9. QED
  BY <1>2, <1>3, <1>4, <1>5, <1>6, <1>7, <1>8 DEF Next, Worker, Signer

LEMMA KnownKept ==
    ASSUME TypeInv, [Next]_vars, NEW b \in Agents, ~GenerateFor(b), KnownInv(b)
    PROVE  KnownInv(b)'
<1>1. Known(b)' \subseteq Known(b) /\ minted'[b] = minted[b]
  BY KnownShrinks DEF TypeInv
<1>2. ASSUME NEW p \in Known(b)' PROVE Fresh(b, p)' /\ Minted(b, p)'
  <2>1. p \in Proofs /\ Fresh(b, p) /\ Minted(b, p)
    BY <1>1, KnownType DEF KnownInv, TypeInv
  <2>2. QED
    BY <1>1, <2>1, FreshKept DEF Minted
<1>3. (\A p, q \in Known(b) : p.txId = q.txId => p = q)'
  BY <1>1 DEF KnownInv
<1>4. (\A h \in Heights : \E base \in Nat : RankedFrom(b, h, base))'
  BY <1>1 DEF KnownInv, RankedFrom
<1>5. QED
  BY <1>2, <1>3, <1>4 DEF KnownInv

\* New proofs get ids from minted[a] on, at a height the agent knows nothing of.
LEMMA GenerateEffect ==
    ASSUME TypeInv, NEW a \in Agents, GenerateFor(a), KnownInv(a)
    PROVE  LET G == Generated(a, lastBlock)
           IN  /\ G \subseteq Proofs
               /\ Known(a)' = Known(a) \cup G
               /\ UNCHANGED <<used, holding, sent, lastBlock>>
               /\ pows'[a] = pows[a] \cup G
               /\ \A p \in G : p.blockHeight = lastBlock
               /\ \A p \in Known(a) : p.blockHeight # lastBlock
               /\ G \cap Known(a) = {}
<1>1. lastBlock \in Heights /\ minted[a] \in Nat /\ pows \in [Agents -> SUBSET Proofs]
  BY DEF TypeInv, TypeOK, WorkerInv, GenerateFor
<1>2. Generated(a, lastBlock) \subseteq Proofs
  BY <1>1, GeneratedType
<1>3. UNCHANGED <<used, holding, sent, lastBlock>>
  BY DEF GenerateFor, signerVars
<1>4. pows'[a] = pows[a] \cup Generated(a, lastBlock)
  BY <1>1 DEF GenerateFor, SetPows
<1>5. \A p \in Generated(a, lastBlock) : p.blockHeight = lastBlock
  BY DEF Generated
<1>6. \A p \in Known(a) : p.blockHeight < lastBlock /\ p.blockHeight \in Int
  BY KnownType, PowAssumption
  DEF KnownInv, Fresh, GenerateFor, Visited, TypeInv, Proofs, Heights
<1>7. \A p \in Known(a) : p.blockHeight # lastBlock
  BY <1>1, <1>6 DEF Heights
<1>8. QED
  BY <1>2, <1>3, <1>4, <1>5, <1>7 DEF Known, SentPows

LEMMA KnownGenerated ==
    ASSUME TypeInv, [Next]_vars, NEW a \in Agents, GenerateFor(a), KnownInv(a)
    PROVE  KnownInv(a)'
<1> DEFINE G == Generated(a, lastBlock)
<1>0. PICK m \in Nat : m = minted[a]
  BY DEF TypeInv, TypeOK
<1>1. /\ G \subseteq Proofs /\ Known(a) \subseteq Proofs
      /\ Known(a)' = Known(a) \cup G
      /\ lastBlock' = lastBlock
      /\ \A p \in G : p.blockHeight = lastBlock
      /\ \A p \in Known(a) : p.blockHeight # lastBlock
  BY GenerateEffect, KnownType DEF TypeInv
<1>2. m \in Nat /\ NumProofs(a) \in Nat /\ minted'[a] = m + NumProofs(a)
  <2>1. NumProofs(a) \in Nat
    BY PowAssumption DEF NumProofs
  <2>2. minted \in [Agents -> Nat]
    BY DEF TypeInv, TypeOK
  <2>3. QED
    BY <1>0, <2>1, <2>2 DEF GenerateFor
<1>3. ASSUME NEW p \in G
      PROVE  \E i \in 0..(NumProofs(a) - 1) :
                p.txId = <<a, m + i>> /\ p.difficulty = i \div TxPerBlock
                /\ p.blockHeight = lastBlock
  BY <1>0 DEF Generated
<1>4. ASSUME NEW p \in Known(a)' PROVE Minted(a, p)'
  <2>1. CASE p \in Known(a)
    <3>1. Minted(a, p) /\ p.txId \in TxIds
      BY <1>1, <2>1 DEF KnownInv, Proofs
    <3>2. p.txId[2] \in Nat
      BY <3>1 DEF TxIds
    <3>3. QED
      BY <1>0, <1>2, <3>1, <3>2 DEF Minted
  <2>2. CASE p \in G
    <3>1. PICK i \in 0..(NumProofs(a) - 1) : p.txId = <<a, m + i>>
      BY <1>3, <2>2
    <3>2. QED
      BY <1>2, <3>1 DEF Minted
  <2>3. QED
    BY <1>1, <2>1, <2>2
<1>5. ASSUME NEW p \in Known(a)' PROVE Fresh(a, p)'
  <2>1. CASE p \in Known(a)
    <3>1. p \in Proofs /\ Fresh(a, p)
      BY <1>1, <2>1 DEF KnownInv
    <3>2. QED
      BY <3>1, FreshKept
  <2>2. CASE p \in G
    <3>1. lastBlock \in Int
      BY PowAssumption DEF TypeInv, TypeOK, Heights, NoBlock
    <3>2. ~(pc' = "generate" /\ a \in todo')
      BY DEF GenerateFor, Visited
    <3>3. QED
      BY <1>1, <2>2, <3>1, <3>2 DEF Fresh
  <2>3. QED
    BY <1>1, <2>1, <2>2
<1>6. ASSUME NEW p \in Known(a)', NEW q \in Known(a)', p.txId = q.txId
      PROVE  p = q
  <2>1. CASE p \in Known(a) /\ q \in Known(a)
    BY <1>6, <2>1 DEF KnownInv
  <2>2. CASE p \in G /\ q \in G
    <3>1. PICK i \in 0..(NumProofs(a) - 1) :
            p.txId = <<a, m + i>> /\ p.difficulty = i \div TxPerBlock
            /\ p.blockHeight = lastBlock
      BY <1>3, <2>2
    <3>2. PICK j \in 0..(NumProofs(a) - 1) :
            q.txId = <<a, m + j>> /\ q.difficulty = j \div TxPerBlock
            /\ q.blockHeight = lastBlock
      BY <1>3, <2>2
    <3>3. i = j
      <4>1. p.txId[2] = m + i /\ q.txId[2] = m + j
        BY <3>1, <3>2
      <4>2. m + i = m + j
        BY <1>6, <4>1
      <4>3. QED
        BY <1>2, <4>2
    <3>4. QED
      BY <1>1, <2>2, <3>1, <3>2, <3>3 DEF Proofs
  <2>3. ASSUME NEW x \in Known(a), NEW y \in G PROVE x.txId # y.txId
    <3>1. Minted(a, x) /\ x.txId \in TxIds
      BY <1>1 DEF KnownInv, Proofs
    <3>2. x.txId[2] \in Nat /\ x.txId[2] < m
      BY <1>0, <3>1 DEF TxIds, Minted
    <3>3. y.txId[2] >= m
      <4>1. PICK i \in 0..(NumProofs(a) - 1) : y.txId = <<a, m + i>>
        BY <1>3
      <4>2. QED
        BY <1>2, <4>1
    <3>4. QED
      BY <1>2, <3>2, <3>3
  <2>4. QED
    BY <1>1, <1>6, <2>1, <2>2, <2>3
<1>7. ASSUME NEW h \in Heights PROVE (\E base \in Nat : RankedFrom(a, h, base))'
  <2>1. CASE h = lastBlock
    <3>1. ASSUME NEW p \in Known(a)', p.blockHeight = h
          PROVE  p.txId[2] >= m /\ p.difficulty = (p.txId[2] - m) \div TxPerBlock
      <4>1. PICK i \in 0..(NumProofs(a) - 1) :
              p.txId = <<a, m + i>> /\ p.difficulty = i \div TxPerBlock
        BY <1>1, <1>3, <2>1, <3>1
      <4>2. p.txId[2] = m + i /\ i \in Nat
        BY <1>2, <4>1
      <4>3. p.txId[2] - m = i /\ p.txId[2] >= m
        BY <1>2, <4>2
      <4>4. QED
        BY <4>1, <4>3
    <3>2. RankedFrom(a, h, m)'
      BY <3>1 DEF RankedFrom
    <3>3. QED
      BY <1>2, <3>2
  <2>2. CASE h # lastBlock
    BY <1>1, <2>2 DEF KnownInv, RankedFrom
  <2>3. QED
    BY <2>1, <2>2
<1>8. QED
  BY <1>4, <1>5, <1>6, <1>7 DEF KnownInv

-----------------------------------------------------------------------------
(* Spending: the steps that matter are generation, pruning, and an agent's *)
(* own TakeProof and SendTx.                                               *)

\* Steps under which an agent's proofs stay where they are, or are pruned.
LEMMA SpentKept ==
    ASSUME NEW b \in Agents, Free(b)' \subseteq Free(b),
           holding'[b] = holding[b], sent'[b] = sent[b], SpentInv(b), LadderInv(b)
    PROVE  SpentInv(b)' /\ LadderInv(b)'
<1>1. SentPows(b)' = SentPows(b)
  BY DEF SentPows
<1>2. SpentInv(b)'
  BY <1>1 DEF SpentInv
<1>3. LadderInv(b)'
  BY <1>1 DEF LadderInv, NoHarder
<1>4. QED
  BY <1>2, <1>3

LEMMA SpentGenerated ==
    ASSUME TypeInv, NEW a \in Agents, GenerateFor(a),
           KnownInv(a), SpentInv(a), LadderInv(a)
    PROVE  SpentInv(a)' /\ LadderInv(a)'
<1> DEFINE G == Generated(a, lastBlock)
<1>1. /\ UNCHANGED <<used, holding, sent>>
      /\ pows'[a] = pows[a] \cup G
      /\ \A p \in G : p.blockHeight = lastBlock
      /\ \A p \in Known(a) : p.blockHeight # lastBlock
      /\ G \cap Known(a) = {}
  BY GenerateEffect
<1>2. SentPows(a)' = SentPows(a)
  BY <1>1 DEF SentPows
<1>3. Free(a)' \subseteq Free(a) \cup G
  BY <1>1 DEF Free, Unused
<1>4. SpentInv(a)'
  BY <1>1, <1>2, <1>3 DEF SpentInv, Known
<1>5. ASSUME NEW p \in SentPows(a) \cup holding[a], NEW q \in G PROVE NoHarder(p, q)
  BY <1>1 DEF NoHarder, Known
<1>6. LadderInv(a)'
  BY <1>1, <1>2, <1>3, <1>5 DEF LadderInv, NoHarder
<1>7. QED
  BY <1>4, <1>6

LEMMA SpentTaken ==
    ASSUME TypeInv, NEW a \in Agents, TakeProof(a), SpentInv(a), LadderInv(a)
    PROVE  SpentInv(a)' /\ LadderInv(a)'
<1>1. used \in [Agents -> SUBSET Proofs] /\ holding \in [Agents -> SUBSET Proofs]
  BY DEF TypeInv, TypeOK
<1>2. PICK p \in NextProofs(Free(a)) :
        /\ used' = [used EXCEPT ![a] = @ \cup {p}]
        /\ holding' = [holding EXCEPT ![a] = {p}]
  BY DEF TakeProof, TaintPoW, Free
<1>3. /\ used'[a] = used[a] \cup {p}
      /\ holding'[a] = {p}
      /\ UNCHANGED <<pows, sent>>
  BY <1>1, <1>2 DEF TakeProof
<1>4. p \in Free(a) /\ \A q \in Free(a) : NoHarder(p, q)
  BY <1>2 DEF NextProofs, NoHarder
<1>5. Free(a)' = Free(a) \ {p} /\ SentPows(a)' = SentPows(a)
  BY <1>3 DEF Free, Unused, SentPows
<1>6. SpentInv(a)'
  BY <1>3, <1>4, <1>5 DEF SpentInv
<1>7. LadderInv(a)'
  BY <1>3, <1>4, <1>5 DEF LadderInv, NoHarder
<1>8. QED
  BY <1>6, <1>7

LEMMA SpentSent ==
    ASSUME TypeInv, NEW a \in Agents, SendTx(a), SpentInv(a), LadderInv(a)
    PROVE  SpentInv(a)' /\ LadderInv(a)'
<1> DEFINE n == Len(sent[a])
<1>1. PICK p \in holding[a] :
        /\ holding[a] = {p}
        /\ holding'[a] = {}
        /\ n \in Nat
        /\ DOMAIN sent[a] = 1..n
        /\ DOMAIN sent'[a] = 1..(n + 1)
        /\ \A i \in DOMAIN sent[a] : sent'[a][i] = sent[a][i]
        /\ sent'[a][n + 1].pow = p
  BY SendEffect DEF TypeInv
<1>2. UNCHANGED <<pows, used>>
  BY DEF SendTx, storeVars
<1>3. Free(a)' = Free(a)
  BY <1>2 DEF Free
<1>4. SentPows(a)' = SentPows(a) \cup {p}
  BY <1>1 DEF SentPows
<1>5. ASSUME NEW i \in 1..(n + 1)
      PROVE  \/ i \in DOMAIN sent[a] /\ sent'[a][i].pow = sent[a][i].pow
                /\ sent[a][i].pow \in SentPows(a)
             \/ i = n + 1 /\ sent'[a][i].pow = p
  BY <1>1 DEF SentPows
<1>6. p \notin SentPows(a)
  BY <1>1 DEF SpentInv
<1>7. SpentInv(a)'
  <2>1. (\A i, j \in DOMAIN sent[a] : sent[a][i].pow = sent[a][j].pow => i = j)'
    <3> SUFFICES ASSUME NEW i \in 1..(n + 1), NEW j \in 1..(n + 1),
                        sent'[a][i].pow = sent'[a][j].pow
                 PROVE  i = j
      BY <1>1
    <3>1. CASE i \in DOMAIN sent[a] /\ j \in DOMAIN sent[a]
      BY <1>1, <3>1 DEF SpentInv
    <3>2. QED
      BY <1>5, <1>6, <3>1
  <2>2. QED
    BY <1>1, <1>3, <1>4, <2>1 DEF SpentInv
<1>8. LadderInv(a)'
  <2>1. (\A i, j \in DOMAIN sent[a] : i < j => NoHarder(sent[a][i].pow, sent[a][j].pow))'
    <3> SUFFICES ASSUME NEW i \in 1..(n + 1), NEW j \in 1..(n + 1), i < j
                 PROVE  NoHarder(sent'[a][i].pow, sent'[a][j].pow)
      BY <1>1 DEF NoHarder
    <3>1. i \in DOMAIN sent[a]
      BY <1>1
    <3>2. CASE j \in DOMAIN sent[a]
      BY <1>1, <3>1, <3>2 DEF LadderInv
    <3>3. CASE j = n + 1
      BY <1>1, <1>5, <3>1, <3>3 DEF LadderInv
    <3>4. QED
      BY <1>1, <3>2, <3>3
  <2>2. QED
    BY <1>1, <1>3, <1>4, <2>1 DEF LadderInv, NoHarder
<1>9. QED
  BY <1>7, <1>8

LEMMA SpentStep ==
    ASSUME TypeInv, [Next]_vars, NEW b \in Agents,
           KnownInv(b), SpentInv(b), LadderInv(b)
    PROVE  SpentInv(b)' /\ LadderInv(b)'
<1>1. /\ pows \in [Agents -> SUBSET Proofs] /\ used \in [Agents -> SUBSET Proofs]
      /\ holding \in [Agents -> SUBSET Proofs] /\ sent \in [Agents -> Seq(Txs)]
  BY DEF TypeInv, TypeOK
<1> DEFINE Kept == Free(b)' \subseteq Free(b) /\ holding'[b] = holding[b]
                   /\ sent'[b] = sent[b]
<1>2. UNCHANGED <<storeVars, holding, sent>> => Kept
  BY DEF storeVars, Free
<1>3. UNCHANGED vars => Kept
  BY <1>2 DEF vars, signerVars
<1>4. ASSUME NEW h \in Heights, FirstBlock(h) \/ SkipBlock(h) \/ NewBlock(h) PROVE Kept
  BY <1>2, <1>4 DEF FirstBlock, SkipBlock, NewBlock, vars, signerVars
<1>5. ASSUME NEW a \in Agents, PruneFor(a) PROVE Kept
  <2>1. pows' = [pows EXCEPT ![a] = PrunePows(@, keepHeight)]
        /\ used' = [used EXCEPT ![a] = PrunePows(@, keepHeight)]
        /\ UNCHANGED <<holding, sent>>
    BY <1>5 DEF PruneFor, signerVars
  <2>2. QED
    BY <1>1, <2>1 DEF Free, Unused, PrunePows
<1>6. ASSUME NEW a \in Agents,
             HandOver(a) \/ StartInput(a) \/ RetryLater(a) \/ DropInput(a)
      PROVE  Kept
  BY <1>2, <1>6 DEF HandOver, StartInput, RetryLater, DropInput
<1>7. ASSUME NEW a \in Agents \ {b}, GenerateFor(a) \/ TakeProof(a) \/ SendTx(a)
      PROVE  Kept
  <2>1. pows'[b] = pows[b] /\ used'[b] = used[b]
        /\ holding'[b] = holding[b] /\ sent'[b] = sent[b]
    BY <1>1, <1>7 DEF GenerateFor, TakeProof, SendTx, storeVars, signerVars
  <2>2. QED
    BY <2>1 DEF Free
<1>8. GenerateFor(b) \/ TakeProof(b) \/ SendTx(b) => SpentInv(b)' /\ LadderInv(b)'
  BY SpentGenerated, SpentTaken, SpentSent
<1>9. Kept => SpentInv(b)' /\ LadderInv(b)'
  BY SpentKept
<1>10. QED
  BY <1>3, <1>4, <1>5, <1>6, <1>7, <1>8, <1>9 DEF Next, Worker, Signer

LEMMA PowStep == TypeInv /\ PowInv /\ [Next]_vars => PowInv'
BY SpentStep, KnownKept, KnownGenerated DEF PowInv

LEMMA PowInvariant == Spec => [](TypeInv /\ PowInv)
BY TypeInit, TypeStep, PowInit, PowStep, PTL DEF Spec

\* No two transactions carry the same proof of work, whichever agents send
\* them: what GetPow returns is tainted, and ids are drawn once.
THEOREM SpentOnce == Spec => []ProofSpentOnce
<1>1. ASSUME TypeInv, PowInv PROVE ProofSpentOnce
  <2> SUFFICES ASSUME NEW a \in Agents, NEW b \in Agents,
                      NEW i \in DOMAIN sent[a], NEW j \in DOMAIN sent[b],
                      sent[a][i].pow.txId = sent[b][j].pow.txId
               PROVE  a = b /\ i = j
    BY DEF ProofSpentOnce
  <2>1. sent[a][i].pow \in Known(a) /\ sent[b][j].pow \in Known(b)
    BY DEF Known, SentPows
  <2>2. a = b
    BY <1>1, <2>1 DEF PowInv, KnownInv, Minted
  <2>3. sent[a][i].pow = sent[b][j].pow
    BY <1>1, <2>1, <2>2 DEF PowInv, KnownInv
  <2>4. QED
    BY <1>1, <2>2, <2>3 DEF PowInv, SpentInv
<1>2. QED
  BY <1>1, PowInvariant, PTL

-----------------------------------------------------------------------------
(* The spam rule.                                                          *)

LEMMA DivBound ==
    ASSUME NEW n \in Nat, NEW t \in Nat \ {0}, NEW d \in Nat, n \div t <= d
    PROVE  n < (d + 1) * t
<1>1. n < (n \div t + 1) * t /\ n \div t \in Nat
  BY SMTT(30)
<1>2. (n \div t + 1) * t <= (d + 1) * t
  BY <1>1, SMTT(30)
<1>3. d + 1 \in Nat /\ (d + 1) * t \in Nat /\ (n \div t + 1) * t \in Nat
  BY <1>1, SMTT(30)
<1>4. QED
  BY <1>1, <1>2, <1>3

LEMMA DivBelow ==
    ASSUME NEW n \in Nat, NEW t \in Nat \ {0}, NEW d \in Nat, n < (d + 1) * t
    PROVE  n \div t <= d
BY SMTT(30)

\* Transactions sent before the i-th at its height are no harder (LadderInv)
\* and differ in id, so together with the i-th they fit in the ids ranked up
\* to its difficulty d: at most (d + 1) * TxPerBlock.
THEOREM SpamRuleKept == Spec => []SpamRule
<1>1. ASSUME TypeInv, PowInv PROVE SpamRule
  <2> SUFFICES ASSUME NEW a \in Agents, NEW i \in DOMAIN sent[a]
               PROVE  LET pow == sent[a][i].pow
                          earlier == {j \in 1..(i - 1) :
                                        sent[a][j].pow.blockHeight = pow.blockHeight}
                      IN  pow.difficulty >= Cardinality(earlier) \div TxPerBlock
    BY DEF SpamRule
  <2> DEFINE pow(j) == sent[a][j].pow
             earlier == {j \in 1..(i - 1) : pow(j).blockHeight = pow(i).blockHeight}
             upTo == earlier \cup {i}
             d == pow(i).difficulty
  <2>1. KnownInv(a) /\ SpentInv(a) /\ LadderInv(a)
    BY <1>1 DEF PowInv
  <2>2. Len(sent[a]) \in Nat /\ DOMAIN sent[a] = 1..Len(sent[a])
    BY <1>1, LenProperties DEF TypeInv, TypeOK
  <2>3. i \in Nat /\ i \in 1..Len(sent[a]) /\ upTo \subseteq DOMAIN sent[a]
    BY <2>2
  <2>4. ASSUME NEW j \in DOMAIN sent[a]
        PROVE  /\ pow(j) \in Known(a)
               /\ pow(j) \in Proofs
               /\ pow(j).txId[1] = a
               /\ pow(j).txId \in TxIds
               /\ pow(j).difficulty \in Nat
               /\ pow(j).blockHeight \in Heights
    <3>1. pow(j) \in Known(a)
      BY DEF Known, SentPows
    <3>2. pow(j) \in Proofs
      BY <1>1, <3>1, KnownType DEF TypeInv
    <3>3. QED
      BY <2>1, <3>1, <3>2 DEF KnownInv, Minted, Proofs
  <2>5. PICK base \in Nat : RankedFrom(a, pow(i).blockHeight, base)
    BY <2>1, <2>4 DEF KnownInv
  <2>6. ASSUME NEW j \in upTo
        PROVE  /\ pow(j).txId[2] \in Nat
               /\ pow(j).txId[2] - base \in 0..((d + 1) * TxPerBlock - 1)
    <3>1. j \in DOMAIN sent[a] /\ pow(j).blockHeight = pow(i).blockHeight
      BY <2>3
    <3>2. pow(j).difficulty <= d
      <4>1. CASE j = i
        BY <2>4, <4>1
      <4>2. CASE j # i
        <5>1. j < i
          BY <2>3, <4>2
        <5>2. QED
          BY <2>1, <3>1, <5>1 DEF LadderInv, NoHarder
      <4>3. QED
        BY <4>1, <4>2
    <3>3. pow(j).txId[2] \in Nat
      BY <2>4, <3>1 DEF TxIds
    <3>4. pow(j).txId[2] >= base
          /\ pow(j).difficulty = (pow(j).txId[2] - base) \div TxPerBlock
      BY <2>4, <2>5, <3>1 DEF RankedFrom
    <3>5. pow(j).txId[2] - base \in Nat
      BY <3>3, <3>4
    <3>6. pow(j).txId[2] - base < (d + 1) * TxPerBlock
      BY <2>4, <3>2, <3>4, <3>5, DivBound, PowAssumption
    <3>7. (d + 1) * TxPerBlock \in Nat
      BY <2>4, PowAssumption, SMTT(30)
    <3>8. QED
      BY <3>3, <3>5, <3>6, <3>7
  <2> DEFINE size == (d + 1) * TxPerBlock
             rank == [j \in upTo |-> pow(j).txId[2] - base]
  <2>7. d \in Nat /\ size \in Nat
    BY <2>4, PowAssumption, SMTT(30)
  <2>8. rank \in Injection(upTo, 0..(size - 1))
    <3>1. rank \in [upTo -> 0..(size - 1)]
      BY <2>6
    <3>2. ASSUME NEW j \in upTo, NEW k \in upTo, rank[j] = rank[k] PROVE j = k
      <4>1. j \in DOMAIN sent[a] /\ k \in DOMAIN sent[a]
        BY <2>3
      <4>2. pow(j).txId[2] = pow(k).txId[2]
        <5>1. pow(j).txId[2] - base = pow(k).txId[2] - base
          BY <3>2
        <5>2. pow(j).txId[2] \in Nat /\ pow(k).txId[2] \in Nat
          BY <2>6
        <5>3. QED
          BY <5>1, <5>2
      <4>3. pow(j).txId = pow(k).txId
        BY <2>4, <4>1, <4>2 DEF TxIds
      <4>4. pow(j) = pow(k)
        BY <2>1, <2>4, <4>1, <4>3 DEF KnownInv
      <4>5. QED
        BY <2>1, <4>1, <4>4 DEF SpentInv
    <3>3. QED
      BY <3>1, <3>2 DEF Injection, IsInjective
  <2>9. IsFiniteSet(upTo) /\ Cardinality(upTo) <= size
    <3>1. IsFiniteSet(0..(size - 1)) /\ Cardinality(0..(size - 1)) = size
      <4>1. 0 \in Int /\ size - 1 \in Int /\ (IF 0 > size - 1 THEN 0 ELSE size - 1 - 0 + 1) = size
        BY <2>7
      <4>2. QED
        BY <4>1, FS_Interval
    <3>2. QED
      BY <2>8, <3>1, FS_Injection
  <2>10. IsFiniteSet(earlier) /\ Cardinality(upTo) = Cardinality(earlier) + 1
         /\ Cardinality(earlier) \in Nat
    <3>1. IsFiniteSet(earlier)
      BY <2>9, FS_Subset
    <3>2. i \notin earlier
      BY <2>3
    <3>3. QED
      BY <3>1, <3>2, FS_AddElement, FS_CardinalityType
  <2>11. Cardinality(earlier) < (d + 1) * TxPerBlock
    BY <2>7, <2>9, <2>10
  <2>12. Cardinality(earlier) \div TxPerBlock <= d
    BY <2>7, <2>10, <2>11, DivBelow, PowAssumption
  <2>13. Cardinality(earlier) \div TxPerBlock \in Nat
    BY <2>10, PowAssumption
  <2>14. QED
    BY <2>7, <2>12, <2>13
<1>2. QED
  BY <1>1, PowInvariant, PTL

-----------------------------------------------------------------------------
(* The window.                                                             *)

\* Once an agent has been visited by the prune pass, and between passes, its
\* store holds nothing older than the pass keeps.
WindowInv ==
    \A a \in Agents :
        pc = "recv" \/ (pc = "prune" /\ a \notin todo) =>
            \A p \in pows[a] : p.blockHeight >= keepHeight

LEMMA WindowStep ==
    ASSUME TypeInv, WindowInv, [Next]_vars PROVE WindowInv'
<1>1. pows \in [Agents -> SUBSET Proofs]
  BY DEF TypeInv, TypeOK
<1> USE DEF WindowInv
<1>2. CASE UNCHANGED <<pows, workerVars>>
  BY <1>2 DEF workerVars
<1>3. ASSUME NEW h \in Heights, FirstBlock(h) \/ SkipBlock(h) PROVE WindowInv'
  BY <1>3 DEF FirstBlock, SkipBlock, vars, workerVars, storeVars
<1>4. ASSUME NEW h \in Heights, NewBlock(h) PROVE WindowInv'
  BY <1>4 DEF NewBlock
<1>5. ASSUME NEW a \in Agents, GenerateFor(a) PROVE WindowInv'
  BY <1>5 DEF GenerateFor, Visited
<1>6. ASSUME NEW a \in Agents, PruneFor(a) PROVE WindowInv'
  <2>1. /\ pc = "prune" /\ a \in todo /\ todo' = todo \ {a}
        /\ pc' = IF todo = {a} THEN "recv" ELSE "prune"
        /\ pows' = [pows EXCEPT ![a] = PrunePows(@, keepHeight)]
        /\ keepHeight' = keepHeight
    BY <1>6 DEF PruneFor, Visited
  <2>2. ASSUME NEW b \in Agents, pc' = "recv" \/ b \notin todo'
        PROVE  \A p \in pows'[b] : p.blockHeight >= keepHeight
    <3>1. CASE b = a
      BY <1>1, <2>1, <3>1 DEF PrunePows
    <3>2. CASE b # a
      <4>1. b \notin todo
        BY <2>1, <2>2, <3>2
      <4>2. QED
        BY <1>1, <2>1, <3>2, <4>1
    <3>3. QED
      BY <3>1, <3>2
  <2>3. QED
    BY <2>1, <2>2
<1>7. ASSUME NEW a \in Agents, HandOver(a) \/ Signer(a)
      PROVE  UNCHANGED <<pows, workerVars>>
  BY <1>7
  DEF HandOver, Signer, StartInput, TakeProof, RetryLater, DropInput, SendTx, storeVars
<1>8. QED
  BY <1>2, <1>3, <1>4, <1>5, <1>6, <1>7 DEF Next, Worker, vars, storeVars

\* Between blocks every store holds only proofs of the window the last pass
\* kept (worker.go:101-109), for any sequence of heights delivered.
THEOREM WindowKept == Spec => []StoreWindow
<1>1. Init => WindowInv
  BY DEF Init, WindowInv
<1>2. ASSUME TypeInv, PowInv, WindowInv PROVE StoreWindow
  <2>1. ASSUME NEW a \in Agents, NEW p \in pows[a] PROVE p.blockHeight <= lastBlock
    BY <1>2 DEF PowInv, KnownInv, Known, Fresh
  <2>2. QED
    BY <1>2, <2>1 DEF StoreWindow, WindowInv
<1>3. TypeInv /\ WindowInv /\ [Next]_vars => WindowInv'
  BY WindowStep
<1>4. QED
  BY <1>1, <1>2, <1>3, PowInvariant, PTL DEF Spec

-----------------------------------------------------------------------------
(* What a pass has generated.                                              *)

\* GeneratePows draws as many proofs as it is asked for: their ids differ.
LEMMA GeneratedCount ==
    ASSUME NEW a \in Agents, NEW h, minted[a] \in Nat
    PROVE  Cardinality(Generated(a, h)) = NumProofs(a)
<1> DEFINE proof(i) == [blockHeight |-> h, difficulty |-> i \div TxPerBlock,
                        txId |-> <<a, minted[a] + i>>]
           f == [k \in 1..NumProofs(a) |-> proof(k - 1)]
<1>1. NumProofs(a) \in Nat
  BY PowAssumption DEF NumProofs
<1>2. ASSUME NEW k \in 1..NumProofs(a) PROVE f[k] \in Generated(a, h)
  <2>1. k - 1 \in 0..(NumProofs(a) - 1)
    BY <1>1
  <2>2. f[k] = proof(k - 1)
    OBVIOUS
  <2>3. QED
    BY <2>1, <2>2 DEF Generated
<1>3. ASSUME NEW k \in 1..NumProofs(a), NEW l \in 1..NumProofs(a), f[k] = f[l] PROVE k = l
  <2>1. f[k].txId[2] = minted[a] + (k - 1) /\ f[l].txId[2] = minted[a] + (l - 1)
    OBVIOUS
  <2>2. minted[a] + (k - 1) = minted[a] + (l - 1)
    BY <1>3, <2>1
  <2>3. QED
    BY <1>1, <2>2
<1>4. ASSUME NEW p \in Generated(a, h) PROVE \E k \in 1..NumProofs(a) : f[k] = p
  <2>1. PICK i \in 0..(NumProofs(a) - 1) : p = proof(i)
    BY DEF Generated
  <2>2. i + 1 \in 1..NumProofs(a) /\ (i + 1) - 1 = i
    BY <1>1
  <2>3. f[i + 1] = p
    BY <2>1, <2>2
  <2>4. QED
    BY <2>2, <2>3
<1>5. f \in Bijection(1..NumProofs(a), Generated(a, h))
  <2>1. f \in [1..NumProofs(a) -> Generated(a, h)]
    BY <1>2
  <2> HIDE DEF f
  <2>2. QED
    BY <1>3, <1>4, <2>1 DEF Bijection, Injection, Surjection, IsInjective
<1>6. QED
  BY <1>1, <1>5, FS_CountingElements DEF ExistsBijection

Newest(a) == {p \in pows[a] : p.blockHeight = lastBlock}
Stocked(a) == Cardinality(Newest(a)) = NumProofs(a)
NotWrapped == keepHeight < Modulus - KeepBlocks

\* From the pass that generates for an agent to the next block it has all
\* proofs of the last block: the pass prunes below that height.
StockInv ==
    /\ lastBlock = NoBlock => \A a \in Agents : minted[a] = 0
    /\ pc # "recv" /\ NotWrapped => keepHeight <= lastBlock
    /\ NotWrapped => \A a \in Agents :
          \/ pc = "recv" /\ minted[a] > 0
          \/ pc = "prune"
          \/ pc = "generate" /\ a \notin todo
          => Stocked(a)

LEMMA StockGenerated ==
    ASSUME TypeInv, PowInv, StockInv, NEW a \in Agents, GenerateFor(a)
    PROVE  StockInv'
<1>1. /\ pc = "generate" /\ a \in todo /\ lastBlock # NoBlock
      /\ pc' \in {"generate", "prune"}
      /\ pc' = "generate" => todo' = todo \ {a}
      /\ pc' = "prune" => todo = {a}
      /\ UNCHANGED <<lastBlock, keepHeight>>
  BY DEF GenerateFor, Visited, TypeInv, WorkerInv
<1>2. \A b \in Agents : b # a => pows'[b] = pows[b]
  BY DEF GenerateFor, TypeInv, TypeOK
<1>3. Newest(a)' = Generated(a, lastBlock)
  <2>1. /\ pows'[a] = pows[a] \cup Generated(a, lastBlock)
        /\ \A p \in Generated(a, lastBlock) : p.blockHeight = lastBlock
        /\ \A p \in Known(a) : p.blockHeight # lastBlock
    BY GenerateEffect DEF PowInv
  <2>2. \A p \in pows[a] : p.blockHeight # lastBlock
    BY <2>1 DEF Known
  <2>3. QED
    BY <1>1, <2>1, <2>2 DEF Newest
<1>4. Stocked(a)'
  <2>1. minted[a] \in Nat
    BY DEF TypeInv, TypeOK
  <2>2. QED
    BY <1>3, <2>1, GeneratedCount DEF Stocked, NumProofs
<1>5. ASSUME NEW b \in Agents, b # a, Stocked(b) PROVE Stocked(b)'
  BY <1>1, <1>2, <1>5 DEF Stocked, Newest, NumProofs
<1>6. QED
  BY <1>1, <1>4, <1>5 DEF StockInv, NotWrapped

LEMMA StockPruned ==
    ASSUME TypeInv, StockInv, NEW a \in Agents, PruneFor(a)
    PROVE  StockInv'
<1>1. /\ pc = "prune" /\ pc' \in {"recv", "prune"}
      /\ pows' = [pows EXCEPT ![a] = PrunePows(@, keepHeight)]
      /\ UNCHANGED <<lastBlock, keepHeight, minted>>
  BY DEF PruneFor, Visited
<1>2. ASSUME NotWrapped, NEW b \in Agents PROVE Newest(b)' = Newest(b)
  <2>1. keepHeight <= lastBlock
    BY <1>1, <1>2 DEF StockInv
  <2>2. pows'[b] = IF b = a THEN PrunePows(pows[b], keepHeight) ELSE pows[b]
    BY <1>1 DEF TypeInv, TypeOK
  <2>3. QED
    BY <1>1, <2>1, <2>2 DEF Newest, PrunePows
<1>3. QED
  BY <1>1, <1>2 DEF StockInv, NotWrapped, Stocked, NumProofs

LEMMA StockStep ==
    ASSUME TypeInv, PowInv, StockInv, [Next]_vars PROVE StockInv'
<1>1. CASE UNCHANGED <<pows, workerVars>>
  BY <1>1 DEF workerVars, StockInv, NotWrapped, Stocked, Newest, NumProofs
<1>2. ASSUME NEW h \in Heights, FirstBlock(h) PROVE StockInv'
  <2>1. /\ pc = "recv" /\ pc' = "recv" /\ lastBlock = NoBlock /\ lastBlock' = h
        /\ UNCHANGED minted
    BY <1>2 DEF FirstBlock
  <2>2. h # NoBlock /\ \A a \in Agents : ~(minted[a] > 0)
    BY <2>1, PowAssumption DEF StockInv, Heights, NoBlock
  <2>3. QED
    BY <2>1, <2>2 DEF StockInv
<1>3. ASSUME NEW h \in Heights, SkipBlock(h) PROVE UNCHANGED <<pows, workerVars>>
  BY <1>3 DEF SkipBlock, vars, storeVars
<1>4. ASSUME NEW h \in Heights, NewBlock(h) PROVE StockInv'
  <2>1. /\ pc' = "generate" /\ todo' = Agents /\ lastBlock' = h
        /\ lastBlock # NoBlock /\ lastBlock < h
        /\ keepHeight' = KeepSince(lastBlock)
    <3>1. lastBlock \in Int /\ h \in Int
      BY PowAssumption DEF TypeInv, TypeOK, Heights, NoBlock
    <3>2. QED
      BY <1>4, <3>1 DEF NewBlock, OldBlock
  <2>2. lastBlock \in Nat /\ h \in Nat /\ KeepBlocks \in Nat /\ Modulus \in Nat
    BY <2>1, PowAssumption DEF TypeInv, TypeOK, Heights
  <2>3. NotWrapped' => keepHeight' <= lastBlock'
    BY <2>1, <2>2 DEF NotWrapped, KeepSince
  <2>4. h # NoBlock
    BY <2>2 DEF NoBlock
  <2>5. QED
    BY <2>1, <2>3, <2>4 DEF StockInv
<1>5. ASSUME NEW a \in Agents, HandOver(a) \/ Signer(a)
      PROVE  UNCHANGED <<pows, workerVars>>
  BY <1>5
  DEF HandOver, Signer, StartInput, TakeProof, RetryLater, DropInput, SendTx, storeVars
<1>6. QED
  BY <1>1, <1>2, <1>3, <1>4, <1>5, StockGenerated, StockPruned
  DEF Next, Worker, vars, storeVars

\* A pass keeps every proof it has just generated, unless the height it
\* keeps wrapped below zero (worker.go:105), for any agents, strategies and
\* sequence of heights.
THEOREM NewestKept == Spec => []FreshProofsKept
<1>1. Init => StockInv
  BY DEF Init, StockInv
<1>2. StockInv => FreshProofsKept
  BY DEF StockInv, FreshProofsKept, NotWrapped, Stocked, Newest
<1>3. QED
  BY <1>1, <1>2, StockStep, PowInvariant, PTL DEF Spec

-----------------------------------------------------------------------------
(* The pipeline implements the stream it promises: its every behaviour,    *)
(* seen through Settled and Delivered, is one of TxStream's.               *)

Busy(a) == IF current[a] = NoInput THEN 0 ELSE 1

\* Inputs are numbered as they are accepted, and the numbers in the channel
\* are the last ones; before them comes the one in the signer's hands.
QueueInv(a) ==
    /\ Len(txDataCh[a]) + Busy(a) <= accepted[a]
    /\ \A k \in 1..Len(txDataCh[a]) :
           txDataCh[a][k] = accepted[a] - Len(txDataCh[a]) + k
    /\ current[a] # NoInput => current[a] = accepted[a] - Len(txDataCh[a])
    /\ holding[a] # {} => current[a] # NoInput

StreamInv == TypeInv /\ PowInv /\ \A a \in Agents : QueueInv(a)

-----------------------------------------------------------------------------
(* The queue.                                                              *)

LEMMA QueueInit == Init => \A a \in Agents : QueueInv(a)
BY DEF Init, QueueInv, Busy, NoInput

LEMMA QueueTypes ==
    ASSUME TypeOK, NEW a \in Agents
    PROVE  /\ accepted[a] \in Nat /\ MaxInputs \in Nat
           /\ txDataCh[a] \in Seq(1..MaxInputs)
           /\ Len(txDataCh[a]) \in Nat
           /\ current[a] \in Nat
<1>1. /\ MaxInputs \in Nat
      /\ accepted[a] \in 0..MaxInputs /\ current[a] \in 0..MaxInputs
      /\ txDataCh[a] \in Seq(1..MaxInputs)
  BY PowAssumption DEF TypeOK
<1>2. Len(txDataCh[a]) \in Nat
  BY <1>1, LenProperties
<1>3. QED
  BY <1>1, <1>2

\* An input handed over gets the next number and goes behind all others.
LEMMA QueueHandOver ==
    ASSUME TypeOK, NEW a \in Agents, QueueInv(a), HandOver(a)
    PROVE  QueueInv(a)'
<1>1. /\ accepted'[a] = accepted[a] + 1
      /\ txDataCh'[a] = Append(txDataCh[a], accepted[a] + 1)
      /\ UNCHANGED <<current, holding>>
      /\ accepted[a] + 1 \in 1..MaxInputs
  <2>1. accepted[a] < MaxInputs
    BY DEF HandOver
  <2>2. accepted[a] + 1 \in 1..MaxInputs
    BY <2>1, QueueTypes
  <2>3. QED
    BY <2>2 DEF HandOver, TypeOK
<1>2. /\ Len(txDataCh'[a]) = Len(txDataCh[a]) + 1
      /\ \A k \in 1..Len(txDataCh[a]) : txDataCh'[a][k] = txDataCh[a][k]
      /\ txDataCh'[a][Len(txDataCh[a]) + 1] = accepted[a] + 1
  BY <1>1, QueueTypes, AppendProperties
<1>3. PICK n \in Nat, len \in Nat :
          n = accepted[a] /\ len = Len(txDataCh[a])
  BY QueueTypes
<1>4. ASSUME NEW k \in 1..(len + 1)
      PROVE  txDataCh'[a][k] = (n + 1) - (len + 1) + k
  <2>1. CASE k \in 1..len
    <3>1. txDataCh'[a][k] = n - len + k
      BY <1>2, <1>3, <2>1 DEF QueueInv
    <3>2. QED
      BY <1>3, <3>1
  <2>2. CASE k = len + 1
    BY <1>2, <1>3, <2>2
  <2>3. QED
    BY <1>3, <2>1, <2>2
<1>5. Busy(a)' = Busy(a) /\ Busy(a) \in {0, 1}
  BY <1>1 DEF Busy
<1>6. Len(txDataCh'[a]) + Busy(a)' <= accepted'[a]
  BY <1>1, <1>2, <1>3, <1>5 DEF QueueInv
<1>7. current'[a] # NoInput => current'[a] = accepted'[a] - Len(txDataCh'[a])
  <2>1. accepted'[a] - Len(txDataCh'[a]) = accepted[a] - Len(txDataCh[a])
    BY <1>1, <1>2, <1>3
  <2>2. QED
    BY <1>1, <2>1 DEF QueueInv
<1>8. holding'[a] # {} => current'[a] # NoInput
  BY <1>1 DEF QueueInv
<1>9. QED
  BY <1>1, <1>2, <1>3, <1>4, <1>6, <1>7, <1>8 DEF QueueInv

\* The signer takes the first number of the channel.
LEMMA QueueStart ==
    ASSUME TypeOK, NEW a \in Agents, QueueInv(a), StartInput(a)
    PROVE  QueueInv(a)'
<1>1. /\ txDataCh[a] # <<>>
      /\ current[a] = NoInput
      /\ current'[a] = Head(txDataCh[a])
      /\ txDataCh'[a] = Tail(txDataCh[a])
      /\ UNCHANGED <<accepted, holding>>
  BY DEF StartInput, TypeOK
<1>2. /\ Len(txDataCh'[a]) = Len(txDataCh[a]) - 1
      /\ \A k \in 1..Len(txDataCh'[a]) : txDataCh'[a][k] = txDataCh[a][k + 1]
      /\ Head(txDataCh[a]) \in 1..MaxInputs
      /\ Len(txDataCh[a]) # 0
  BY <1>1, QueueTypes, HeadTailProperties, EmptySeq
<1>3. current'[a] = txDataCh[a][1]
  BY <1>1, QueueTypes
<1>4. current'[a] = accepted[a] - Len(txDataCh[a]) + 1
  BY <1>2, <1>3, QueueTypes DEF QueueInv
<1>5. ASSUME NEW k \in 1..Len(txDataCh'[a])
      PROVE  txDataCh'[a][k] = accepted'[a] - Len(txDataCh'[a]) + k
  <2>1. k + 1 \in 1..Len(txDataCh[a]) /\ k \in Nat
    BY <1>2, <1>5, QueueTypes
  <2>2. txDataCh'[a][k] = accepted[a] - Len(txDataCh[a]) + (k + 1)
    BY <1>2, <1>5, <2>1 DEF QueueInv
  <2>3. PICK n \in Nat, len \in Nat :
            n = accepted[a] /\ len = Len(txDataCh[a])
    BY QueueTypes
  <2>4. n - len + (k + 1) = n - (len - 1) + k
    <3>1. \A i \in Nat : n - len + (i + 1) = n - (len - 1) + i
      OBVIOUS
    <3>2. QED
      BY <2>1, <3>1
  <2>5. accepted'[a] - Len(txDataCh'[a]) = n - (len - 1)
    BY <1>1, <1>2, <2>3
  <2>6. QED
    BY <2>2, <2>3, <2>4, <2>5
<1>6. Len(txDataCh'[a]) + Busy(a)' <= accepted'[a]
  <2>1. Len(txDataCh[a]) + Busy(a) <= accepted[a] /\ Busy(a) = 0
    BY <1>1 DEF QueueInv, Busy
  <2>2. Busy(a)' \in {0, 1}
    BY DEF Busy
  <2>3. QED
    BY <1>1, <1>2, <2>1, <2>2, QueueTypes
<1>7. current'[a] # NoInput /\ current'[a] = accepted'[a] - Len(txDataCh'[a])
  BY <1>1, <1>2, <1>4, QueueTypes DEF NoInput
<1>8. QED
  BY <1>5, <1>6, <1>7 DEF QueueInv

LEMMA QueueStep ==
    ASSUME TypeOK, [Next]_vars, NEW b \in Agents, QueueInv(b)
    PROVE  QueueInv(b)'
<1> DEFINE Kept == UNCHANGED <<accepted[b], txDataCh[b], current[b], holding[b]>>
<1>1. Kept => QueueInv(b)'
  BY DEF QueueInv, Busy
<1>2. UNCHANGED vars \/ Worker => Kept
  BY DEF vars, Worker, FirstBlock, SkipBlock, NewBlock, GenerateFor, PruneFor, signerVars
<1>3. ASSUME NEW a \in Agents, a # b, HandOver(a) \/ Signer(a) PROVE Kept
  <2>1. CASE HandOver(a) \/ StartInput(a)
    BY <1>3, <2>1 DEF TypeOK, HandOver, StartInput
  <2>2. CASE TakeProof(a) \/ RetryLater(a)
    BY <1>3, <2>2 DEF TypeOK, TakeProof, RetryLater
  <2>3. CASE DropInput(a) \/ SendTx(a)
    BY <1>3, <2>3 DEF TypeOK, DropInput, SendTx
  <2>4. QED
    BY <1>3, <2>1, <2>2, <2>3 DEF Signer
<1>4. TakeProof(b) => QueueInv(b)'
  BY DEF TakeProof, NeedsProof, QueueInv, Busy
<1>5. RetryLater(b) => Kept
  BY DEF RetryLater
<1>6. DropInput(b) => QueueInv(b)'
  BY QueueTypes DEF DropInput, NeedsProof, QueueInv, Busy, TypeOK
<1>7. SendTx(b) => QueueInv(b)'
  BY QueueTypes DEF SendTx, QueueInv, Busy, TypeOK
<1>8. HandOver(b) \/ StartInput(b) => QueueInv(b)'
  BY QueueHandOver, QueueStart
<1>9. QED
  BY <1>1, <1>2, <1>3, <1>4, <1>5, <1>6, <1>7, <1>8 DEF Next, Signer

-----------------------------------------------------------------------------
(* The refinement: initial states and steps.                               *)

LEMMA StreamInit == Init => Stream!Init
<1> SUFFICES ASSUME Init PROVE Stream!Init
  OBVIOUS
<1>1. \A a \in Agents : Len(txDataCh[a]) = 0
  BY DEF Init
<1>2. Settled = [a \in Agents |-> 0]
  BY <1>1 DEF Init, Settled
<1>3. ASSUME NEW a \in Agents PROVE Delivered[a] = <<>>
  BY DEF Init, Delivered
<1>4. Delivered = [a \in Agents |-> <<>>]
  BY <1>3 DEF Delivered
<1>5. QED
  BY <1>2, <1>4 DEF Init, Stream!Init

\* A step that leaves the counts of accepted and unsettled inputs and what
\* was sent as they are is a stutter of the stream.
LEMMA StreamStutter ==
    ASSUME accepted' = accepted, Settled' = Settled, sent' = sent
    PROVE  UNCHANGED Stream!vars
BY DEF Stream!vars, Delivered

LEMMA AcceptStep ==
    ASSUME TypeOK, NEW a \in Agents, HandOver(a)
    PROVE  Stream!Accept(a)
<1>1. /\ accepted[a] < MaxInputs
      /\ accepted' = [accepted EXCEPT ![a] = @ + 1]
      /\ txDataCh' = [txDataCh EXCEPT ![a] = Append(@, accepted[a] + 1)]
      /\ UNCHANGED <<current, sent>>
  BY DEF HandOver
<1>2. accepted[a] + 1 \in 1..MaxInputs
  BY <1>1, QueueTypes
<1>3. Len(Append(txDataCh[a], accepted[a] + 1)) = Len(txDataCh[a]) + 1
  BY <1>2, QueueTypes, AppendProperties
<1>4. ASSUME NEW b \in Agents
      PROVE  accepted'[b] - Len(txDataCh'[b]) = accepted[b] - Len(txDataCh[b])
  BY <1>1, <1>3, QueueTypes DEF TypeOK
<1>5. Settled' = Settled
  BY <1>1, <1>4 DEF Settled
<1>6. QED
  BY <1>1, <1>5 DEF Stream!Accept, Delivered

\* What a step that settles the current input does to the count.
LEMMA SettleStep ==
    ASSUME TypeOK, NEW a \in Agents, QueueInv(a), current[a] # NoInput,
           UNCHANGED <<accepted, txDataCh>>,
           current' = [current EXCEPT ![a] = NoInput]
    PROVE  /\ Stream!Settle(a)
           /\ Settled[a] + 1 = current[a]
<1>1. ASSUME NEW b \in Agents
      PROVE  Settled'[b] = IF b = a THEN Settled[a] + 1 ELSE Settled[b]
  <2>1. current'[b] = IF b = a THEN NoInput ELSE current[b]
    BY DEF TypeOK
  <2>2. Settled[a] = accepted[a] - Len(txDataCh[a]) - 1
    BY DEF Settled
  <2>3. Settled'[b] = IF b = a THEN accepted[a] - Len(txDataCh[a]) - 0 ELSE Settled[b]
    BY <2>1 DEF Settled
  <2>4. QED
    BY <2>2, <2>3, QueueTypes
<1>2. Settled' = [Settled EXCEPT ![a] = @ + 1]
  BY <1>1 DEF Settled
<1>3. Settled[a] = accepted[a] - Len(txDataCh[a]) - 1
  BY DEF Settled
<1>4. Settled[a] < accepted[a] /\ Settled[a] + 1 = current[a]
  BY <1>3, QueueTypes DEF QueueInv
<1>5. QED
  BY <1>2, <1>4 DEF Stream!Settle

LEMMA DropStep ==
    ASSUME TypeOK, NEW a \in Agents, QueueInv(a), DropInput(a)
    PROVE  Stream!Drop(a)
<1>1. Stream!Settle(a)
  BY SettleStep DEF DropInput, NeedsProof
<1>2. UNCHANGED Delivered
  BY DEF DropInput, Delivered
<1>3. QED
  BY <1>1, <1>2 DEF Stream!Drop

\* What the signer sends carries the input after the last settled one and an
\* id nobody has sent: its proof was marked when it was taken, and the ids of
\* two agents differ.
LEMMA DeliverStep ==
    ASSUME TypeOK, PowInv, NEW a \in Agents, QueueInv(a), SendTx(a)
    PROVE  Stream!Deliver(a)
<1> DEFINE Seen(tx) == [input |-> tx.input, txId |-> tx.pow.txId]
           Seens == [input : Nat, txId : TxIds]
<1>1. PICK p \in holding[a] : sent' = [sent EXCEPT ![a] = Append(@, Tx(current[a], p))]
  BY DEF SendTx
<1>2. current[a] # NoInput /\ p \in Proofs /\ p.txId \in TxIds
  BY DEF QueueInv, TypeOK, Proofs
<1>3. Stream!Settle(a) /\ Settled[a] + 1 = current[a]
  BY <1>2, SettleStep DEF SendTx
<1>4. sent \in [Agents -> Seq(Txs)] /\ sent[a] \in Seq(Txs) /\ Len(sent[a]) \in Nat
      /\ Tx(current[a], p) \in Txs
  <2>1. sent \in [Agents -> Seq(Txs)] /\ current[a] \in Nat
    BY QueueTypes DEF TypeOK
  <2>2. QED
    BY <1>2, <2>1, LenProperties DEF Tx, Txs
<1> DEFINE n == Len(sent[a])
           new == [input |-> current[a], txId |-> p.txId]
<1>5. /\ sent'[a] \in Seq(Txs) /\ DOMAIN sent'[a] = 1..(n + 1)
      /\ DOMAIN sent[a] = 1..n
      /\ \A k \in 1..n : sent'[a][k] = sent[a][k]
      /\ sent'[a][n + 1] = Tx(current[a], p)
  <2>1. sent'[a] = Append(sent[a], Tx(current[a], p))
    BY <1>1, <1>4
  <2>2. QED
    BY <1>4, <2>1, AppendProperties, LenProperties
<1>6. ASSUME NEW k \in 1..n PROVE Seen(sent[a][k]) \in Seens
  <2>1. sent[a][k] \in Txs
    BY <1>4, <1>6, ElementOfSeq
  <2>2. QED
    BY <2>1 DEF Txs, Proofs
<1>7. /\ Delivered[a] = [k \in 1..n |-> Seen(sent[a][k])]
      /\ Delivered'[a] = [k \in 1..(n + 1) |-> Seen(sent'[a][k])]
  BY <1>5 DEF Delivered
<1>8. Delivered[a] \in Seq(Seens) /\ Len(Delivered[a]) = n
  BY <1>4, <1>6, <1>7
<1>9. Delivered'[a] = Append(Delivered[a], new)
  <2>1. Append(Delivered[a], new) = [k \in 1..(n + 1) |-> IF k = n + 1 THEN new ELSE Delivered[a][k]]
    BY <1>8
  <2>2. ASSUME NEW k \in 1..(n + 1)
        PROVE  Seen(sent'[a][k]) = IF k = n + 1 THEN new ELSE Delivered[a][k]
    BY <1>4, <1>5, <1>7, <2>2 DEF Tx
  <2>3. QED
    BY <1>7, <2>1, <2>2
<1>10. Delivered' = [Delivered EXCEPT ![a] = Append(@, new)]
  <2>1. ASSUME NEW b \in Agents, b # a PROVE Delivered'[b] = Delivered[b]
    BY <1>1, <1>4, <2>1 DEF Delivered
  <2>2. QED
    BY <1>9, <2>1 DEF Delivered
<1>11. Delivered'[a][n + 1].txId = p.txId
  BY <1>4, <1>5, <1>7 DEF Tx
\* The proof is known to agent a and has not been sent.
<1>12. ASSUME NEW b \in Agents, NEW k \in DOMAIN Delivered[b]
       PROVE  Delivered[b][k].txId # p.txId
  <2>1. k \in DOMAIN sent[b] /\ Delivered[b][k].txId = sent[b][k].pow.txId
    BY <1>12 DEF Delivered
  <2>2. sent[b][k].pow \in SentPows(b) /\ sent[b][k].pow \in Known(b) /\ p \in Known(a)
    BY <2>1 DEF SentPows, Known
  <2>3. CASE b = a
    BY <2>1, <2>2, <2>3 DEF PowInv, KnownInv, SpentInv
  <2>4. CASE b # a
    BY <2>1, <2>2, <2>4 DEF PowInv, KnownInv, Minted
  <2>5. QED
    BY <2>3, <2>4
<1>13. p.txId \notin Stream!Spent
  BY <1>12 DEF Stream!Spent
<1>14. QED
  BY <1>2, <1>3, <1>8, <1>10, <1>11, <1>13 DEF Stream!Deliver

LEMMA StreamStep ==
    ASSUME StreamInv, [Next]_vars
    PROVE  [Stream!Next]_(Stream!vars)
<1>0. TypeOK /\ PowInv /\ \A a \in Agents : QueueInv(a)
  BY DEF StreamInv, TypeInv
<1>1. UNCHANGED signerVars => UNCHANGED Stream!vars
  BY StreamStutter DEF signerVars, Settled
<1>2. UNCHANGED vars \/ Worker => UNCHANGED signerVars
  BY DEF vars, Worker, FirstBlock, SkipBlock, NewBlock, GenerateFor, PruneFor
<1>3. ASSUME NEW a \in Agents, TakeProof(a) \/ RetryLater(a) PROVE UNCHANGED Stream!vars
  BY <1>3, StreamStutter DEF TakeProof, RetryLater, Settled
<1>4. ASSUME NEW a \in Agents, StartInput(a) PROVE UNCHANGED Stream!vars
  <2>1. /\ txDataCh[a] # <<>> /\ current[a] = NoInput
        /\ current' = [current EXCEPT ![a] = Head(txDataCh[a])]
        /\ txDataCh' = [txDataCh EXCEPT ![a] = Tail(@)]
        /\ UNCHANGED <<accepted, sent>>
    BY <1>4 DEF StartInput
  <2>2. Len(Tail(txDataCh[a])) = Len(txDataCh[a]) - 1 /\ Head(txDataCh[a]) # NoInput
    BY <1>0, <2>1, QueueTypes, HeadTailProperties DEF NoInput
  <2>3. ASSUME NEW b \in Agents PROVE Settled'[b] = Settled[b]
    <3>1. CASE b = a
      <4>1. /\ Len(txDataCh'[a]) = Len(txDataCh[a]) - 1
            /\ current'[a] # NoInput
            /\ accepted'[a] = accepted[a]
        BY <1>0, <2>1, <2>2 DEF TypeOK
      <4>2. Settled[a] = accepted[a] - Len(txDataCh[a]) - 0
        BY <2>1 DEF Settled
      <4>3. Settled'[a] = accepted[a] - (Len(txDataCh[a]) - 1) - 1
        BY <4>1 DEF Settled
      <4>4. QED
        BY <1>0, <3>1, <4>2, <4>3, QueueTypes
    <3>2. CASE b # a
      BY <1>0, <2>1, <3>2 DEF Settled, TypeOK
    <3>3. QED
      BY <3>1, <3>2
  <2>4. Settled' = Settled
    BY <2>3 DEF Settled
  <2>5. QED
    BY <2>1, <2>4, StreamStutter
<1>5. ASSUME NEW a \in Agents, HandOver(a) \/ DropInput(a) \/ SendTx(a) PROVE Stream!Next
  BY <1>0, <1>5, AcceptStep, DropStep, DeliverStep DEF Stream!Next
<1>6. QED
  BY <1>1, <1>2, <1>3, <1>4, <1>5 DEF Next, Signer

LEMMA StreamInvKept == Spec => []StreamInv
<1>1. StreamInv /\ [Next]_vars => (\A a \in Agents : QueueInv(a))'
  <2> SUFFICES ASSUME StreamInv, [Next]_vars, NEW b \in Agents PROVE QueueInv(b)'
    OBVIOUS
  <2>1. QED
    BY QueueStep DEF StreamInv, TypeInv
<1>2. Init => StreamInv
  BY TypeInit, PowInit, QueueInit DEF StreamInv
<1>3. StreamInv /\ [Next]_vars => StreamInv'
  BY <1>1, TypeStep, PowStep DEF StreamInv
<1>4. QED
  BY <1>2, <1>3, PTL DEF Spec

-----------------------------------------------------------------------------

\* The worker, the stores and the signers together do what TxStream says:
\* inputs of an agent are settled in the order they were handed over, each
\* once, and no id leaves twice (worker.go, store.go, vega.go).
THEOREM StreamImplemented == Spec => StreamSpec
BY StreamInvKept, StreamInit, StreamStep, PTL DEF Spec, StreamSpec, Stream!Spec

-----------------------------------------------------------------------------
(* The signers, as the rest of the program sees them.                      *)

\* Two of SignerOf's values differ at no agent but a.
LEMMA SignerOfAt ==
    ASSUME TypeOK, NEW a \in Agents,
           \A b \in Agents : b # a => current'[b] = current[b] /\ holding'[b] = holding[b]
    PROVE  SignerOf' = [SignerOf EXCEPT ![a] = SignerOf'[a]]
<1>1. ASSUME NEW b \in Agents, b # a PROVE SignerOf'[b] = SignerOf[b]
  BY <1>1 DEF SignerOf
<1> QED
  BY <1>1 DEF SignerOf

\* With all that the queue's invariant says of the signer's hands.
LEMMA SignerSteps ==
    ASSUME TypeOK, NEW a \in Agents, QueueInv(a), HandOver(a) \/ Signer(a)
    PROVE  \/ Outside!SignersNext(Agents, 1 .. MaxInputs)
           \/ UNCHANGED <<txDataCh, SignerOf>>
<1>1. CASE HandOver(a)
  <2>1. accepted[a] + 1 \in 1 .. MaxInputs
    BY <1>1, QueueTypes DEF HandOver
  <2>2. Outside!Put(a, accepted[a] + 1)
    BY <1>1 DEF HandOver, Outside!Put, SignerOf
  <2> QED
    BY <2>1, <2>2 DEF Outside!SignersNext
<1>2. CASE StartInput(a)
  <2>1. /\ current[a] = NoInput /\ txDataCh[a] # <<>>
        /\ current' = [current EXCEPT ![a] = Head(txDataCh[a])]
        /\ txDataCh' = [txDataCh EXCEPT ![a] = Tail(@)]
        /\ holding' = holding
    BY <1>2 DEF StartInput
  <2>2. current'[a] = Head(txDataCh[a]) /\ current'[a] # NoInput /\ holding'[a] = {}
    BY <2>1, QueueTypes, HeadTailProperties DEF TypeOK, QueueInv, NoInput
  <2>3. /\ SignerOf[a].at = "idle"
        /\ SignerOf'[a] = [at |-> "signing", for |-> Head(txDataCh[a])]
    BY <2>1, <2>2 DEF SignerOf
  <2>4. SignerOf' = [SignerOf EXCEPT ![a] = [at |-> "signing", for |-> Head(txDataCh[a])]]
    BY <2>1, <2>3, SignerOfAt DEF TypeOK
  <2> QED
    BY <2>1, <2>3, <2>4 DEF Outside!SignersNext, Outside!Take
<1>3. CASE TakeProof(a)
  <2>1. /\ current[a] # NoInput /\ holding[a] = {}
        /\ \E p : holding' = [holding EXCEPT ![a] = {p}]
        /\ UNCHANGED <<txDataCh, current>>
    BY <1>3 DEF TakeProof, NeedsProof
  <2>2. holding'[a] # {} /\ \A b \in Agents : b # a => holding'[b] = holding[b]
    BY <2>1 DEF TypeOK
  <2>3. SignerOf[a].at = "signing" /\ SignerOf'[a] = [SignerOf[a] EXCEPT !.at = "sending"]
    BY <2>1, <2>2 DEF SignerOf
  <2>4. SignerOf' = [SignerOf EXCEPT ![a].at = "sending"]
    BY <2>1, <2>2, <2>3, SignerOfAt
  <2> QED
    BY <2>1, <2>3, <2>4 DEF Outside!SignersNext, Outside!Sign
<1>4. CASE RetryLater(a)
  BY <1>4 DEF RetryLater, SignerOf
<1>5. CASE DropInput(a)
  <2>1. /\ current[a] # NoInput /\ holding[a] = {}
        /\ current' = [current EXCEPT ![a] = NoInput]
        /\ UNCHANGED <<txDataCh, holding>>
    BY <1>5 DEF DropInput, NeedsProof
  <2>2. SignerOf[a].at = "signing" /\ SignerOf'[a] = Outside!Idle
    BY <2>1 DEF SignerOf, TypeOK, Outside!Idle, Outside!NoInput, NoInput
  <2>3. SignerOf' = [SignerOf EXCEPT ![a] = Outside!Idle]
    BY <2>1, <2>2, SignerOfAt DEF TypeOK
  <2> QED
    BY <2>1, <2>2, <2>3 DEF Outside!SignersNext, Outside!Drop
<1>6. CASE SendTx(a)
  <2>1. /\ holding[a] # {} /\ current[a] # NoInput
        /\ current' = [current EXCEPT ![a] = NoInput]
        /\ holding' = [holding EXCEPT ![a] = {}]
        /\ UNCHANGED txDataCh
    BY <1>6 DEF SendTx, QueueInv
  <2>2. SignerOf[a].at = "sending" /\ SignerOf'[a] = Outside!Idle
    BY <2>1 DEF SignerOf, TypeOK, Outside!Idle, Outside!NoInput, NoInput
  <2>3. SignerOf' = [SignerOf EXCEPT ![a] = Outside!Idle]
    BY <2>1, <2>2, SignerOfAt DEF TypeOK
  <2> QED
    BY <2>1, <2>2, <2>3 DEF Outside!SignersNext, Outside!Pass
<1> QED
  BY <1>1, <1>2, <1>3, <1>4, <1>5, <1>6 DEF Signer

\* Whatever the worker and the stores do meanwhile, a signer takes its
\* channel's inputs in turn, one at a time: what TradingSystem is built from.
THEOREM SignersImplemented == Spec => SignersSpec
<1>1. Init => Outside!SignersInit(Agents)
  BY DEF Init, Outside!SignersInit, Outside!Idle, Outside!NoInput, SignerOf, NoInput
<1>2. StreamInv /\ [Next]_vars =>
         [Outside!SignersNext(Agents, 1 .. MaxInputs)]_<<txDataCh, SignerOf>>
  <2> SUFFICES ASSUME StreamInv, [Next]_vars
               PROVE  \/ Outside!SignersNext(Agents, 1 .. MaxInputs)
                      \/ UNCHANGED <<txDataCh, SignerOf>>
    OBVIOUS
  <2>1. UNCHANGED vars \/ Worker => UNCHANGED signerVars
    BY DEF vars, Worker, FirstBlock, SkipBlock, NewBlock, GenerateFor, PruneFor
  <2>2. UNCHANGED signerVars => UNCHANGED <<txDataCh, SignerOf>>
    BY DEF signerVars, SignerOf
  <2>3. ASSUME NEW a \in Agents, HandOver(a) \/ Signer(a)
        PROVE  \/ Outside!SignersNext(Agents, 1 .. MaxInputs)
               \/ UNCHANGED <<txDataCh, SignerOf>>
    BY <2>3, SignerSteps DEF StreamInv, TypeInv
  <2> QED
    BY <2>1, <2>2, <2>3 DEF Next
<1> QED
  BY <1>1, <1>2, StreamInvKept, PTL DEF Spec, SignersSpec
=============================================================================
