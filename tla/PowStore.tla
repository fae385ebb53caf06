------------------------------ MODULE PowStore ------------------------------
(***************************************************************************)
(* The proof-of-work store of one agent (src/pow/store.go) as operators on *)
(* its contents: the set of ProofOfWork records the map p.pows holds, over *)
(* all heights, and the subset of them whose Used flag is set.  A record   *)
(* keeps the fields a property can tell apart; the nonce, the block hash   *)
(* and the chain id are carried along unread.                              *)
(*                                                                         *)
(* minHeight and maxHeight are left out: no live code reads them (the loop *)
(* over them in GetPow and the caller of GetMaxHeight are commented out).  *)
(***************************************************************************)
EXTENDS Naturals

\* GetPow collects the proofs whose Used flag is not set.
Unused(proofs, used) == proofs \ used

\* SetPows appends each proof to the list of its own height.
SetPows(proofs, new) == proofs \cup new

\* What sort.Slice can leave at powSlice[0].  The comparator orders proofs
\* of one height by difficulty, but compares a height with itself when the
\* heights differ, so no height goes before another.  Element 0 is then a
\* lowest of its own height (it is the first pivot, or one of those found
\* lower than it), and the height is any, by the map's iteration order.
NextProofs(unused) ==
    {p \in unused : \A q \in unused :
        q.blockHeight = p.blockHeight => p.difficulty <= q.difficulty}

\* Mutant: a proof is handed out without being marked.
TaintPoW_NoMark(used, proof) == used

\* taintPoW sets the flag of the proof where it lies: it stays in the store.
TaintPoW(used, proof) == used \cup {proof}

\* Mutants: the bound is off by one, or the comparison is inverted.
PrunePows_OffByOne(proofs, keepSinceHeight) ==
    {p \in proofs : p.blockHeight + 1 >= keepSinceHeight}

PrunePows_Inverted(proofs, keepSinceHeight) ==
    {p \in proofs : p.blockHeight <= keepSinceHeight}

\* PrunePows drops every height below the one given, used proofs or not.
PrunePows(proofs, keepSinceHeight) ==
    {p \in proofs : p.blockHeight >= keepSinceHeight}
=============================================================================
