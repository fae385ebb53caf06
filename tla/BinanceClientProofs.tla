------------------------ MODULE BinanceClientProofs ------------------------
(***************************************************************************)
(* Safety of the Binance client's reconnect protocol, for any stores: one  *)
(* goroutine at most has the stream in hand, a reader gives up without     *)
(* asking for a reconnect in the known window only, and a failed reconnect *)
(* is the end of the client.                                               *)
(***************************************************************************)
EXTENDS BinanceClient, TLAPS

\* A reader that has not asked yet sees the flag set only while the handler
\* is still busy with the reconnect that opened its stream; the start-up
\* goroutine never sees it set.
WindowInv ==
    /\ reconnecting /\ (\E p \in {"read", "check", "set"} : readers[p] > 0)
           => place["handler"] \in {"wait", "reset"}
    /\ place["start"] \in {"open", "delay", "check", "set"} => ~reconnecting

Inv == TypeOK /\ OneOwner /\ WindowInv

\* The counts one by one, which is how the steps change them.
LEMMA MovesEffect ==
    ASSUME TypeOK, NEW from \in ReaderPlaces, NEW to \in ReaderPlaces, from # to,
           ReaderMoves(from, to)
    PROVE  /\ readers' \in [ReaderPlaces -> Nat]
           /\ readers[from] > 0
           /\ readers'[to] = readers[to] + 1
           /\ readers'[from] = readers[from] - 1
           /\ \A p \in ReaderPlaces : p # from /\ p # to => readers'[p] = readers[p]
BY DEF TypeOK, ReaderMoves

LEMMA ReturnsEffect ==
    ASSUME TypeOK, NEW from \in ReaderPlaces, ReaderReturns(from)
    PROVE  /\ readers' \in [ReaderPlaces -> Nat]
           /\ readers[from] > 0
           /\ readers'[from] = readers[from] - 1
           /\ \A p \in ReaderPlaces : p # from => readers'[p] = readers[p]
BY DEF TypeOK, ReaderReturns

\* A reader at one place is the only goroutine that has the stream in hand.
LEMMA ReaderAlone ==
    ASSUME TypeOK, OneOwner, NEW p \in ReaderPlaces, readers[p] > 0
    PROVE  /\ readers[p] = 1
           /\ \A q \in ReaderPlaces : q # p => readers[q] = 0
           /\ place["start"] \notin Opening /\ place["handler"] \notin Opening
<1>1. \A q \in ReaderPlaces : readers[q] \in Nat
  BY DEF TypeOK
<1>2. \A c \in Openers : place[c] \notin Opening
  BY <1>1 DEF OneOwner
<1>3. /\ readers["read"] \in Nat /\ readers["check"] \in Nat
      /\ readers["set"] \in Nat /\ readers["send"] \in Nat
  BY <1>1 DEF ReaderPlaces
<1>4. readers["read"] + readers["check"] + readers["set"] + readers["send"] <= 1
  BY DEF OneOwner
<1>5. readers[p] = 1 /\ \A q \in ReaderPlaces : q # p => readers[q] = 0
  <2>1. CASE p = "read"
    BY <1>3, <1>4, <2>1 DEF ReaderPlaces
  <2>2. CASE p = "check"
    BY <1>3, <1>4, <2>2 DEF ReaderPlaces
  <2>3. CASE p = "set"
    BY <1>3, <1>4, <2>3 DEF ReaderPlaces
  <2>4. CASE p = "send"
    BY <1>3, <1>4, <2>4 DEF ReaderPlaces
  <2> QED
    BY <2>1, <2>2, <2>3, <2>4 DEF ReaderPlaces
<1> QED
  BY <1>2, <1>5 DEF Openers

\* An opener at work is the only one, and there is no reader.
LEMMA OpenerAlone ==
    ASSUME TypeOK, OneOwner, NEW c \in Openers, place[c] \in Opening
    PROVE  /\ \A p \in ReaderPlaces : readers[p] = 0
           /\ \A d \in Openers : d # c => place[d] \notin Opening
BY DEF OneOwner, Openers

\* OneOwner when no opener is at work and the readers stand at one place.
LEMMA ReadersSum ==
    ASSUME NEW r \in [ReaderPlaces -> Nat], NEW p \in ReaderPlaces, r[p] <= 1,
           \A q \in ReaderPlaces : q # p => r[q] = 0
    PROVE  r["read"] + r["check"] + r["set"] + r["send"] <= 1
<1>1. /\ r["read"] \in Nat /\ r["check"] \in Nat /\ r["set"] \in Nat /\ r["send"] \in Nat
  BY DEF ReaderPlaces
<1> QED
  BY <1>1 DEF ReaderPlaces

-----------------------------------------------------------------------------

LEMMA InitInv == Init => Inv
<1> SUFFICES ASSUME Init PROVE Inv
  OBVIOUS
<1>1. TypeOK
  <2>1. readers \in [ReaderPlaces -> Nat]
    BY DEF Init
  <2>2. /\ place["start"] = "open" /\ place["handler"] = "idle"
        /\ place \in [Openers -> Opening \cup {"done", "idle", "wait", "reset", "unstale"}]
    BY DEF Init, Openers, Opening
  <2> QED
    BY <2>1, <2>2 DEF Init, TypeOK, Opening
<1>2. OneOwner
  <2>1. /\ readers["read"] = 0 /\ readers["check"] = 0 /\ readers["set"] = 0
        /\ readers["send"] = 0 /\ \A p \in ReaderPlaces : readers[p] = 0
    BY DEF Init, ReaderPlaces
  <2>2. place["handler"] \notin Opening
    BY DEF Init, Opening
  <2> QED
    BY <2>1, <2>2 DEF OneOwner
<1>3. WindowInv
  BY DEF Init, WindowInv
<1> QED
  BY <1>1, <1>2, <1>3 DEF Inv

\* The opener hands the stream over, keeps it, or (in the code's branch for
\* a reconnect under way) lets it go.
LEMMA OpenerStep ==
    ASSUME Inv, NEW c \in Openers, Opener(c)
    PROVE  Inv'
<1> USE DEF Inv
<1>1. place[c] \in Opening
  BY DEF Opener, OpenSucceeds, OpenFails, Delays, OpenerChecks, OpenerSets, Goes, Opening
<1>2. /\ \A p \in ReaderPlaces : readers[p] = 0
      /\ \A d \in Openers : d # c => place[d] \notin Opening
  BY <1>1, OpenerAlone
<1>3. AfterStream(c) \in {"done", "wait"} /\ AfterStream(c) \notin Opening
      /\ (c = "start" => AfterStream(c) = "done")
      /\ (c = "handler" => AfterStream(c) = "wait")
  BY DEF AfterStream, Opening, Openers
<1>4. CASE OpenSucceeds(c)
  <2>1. /\ readers' \in [ReaderPlaces -> Nat] /\ readers'["read"] = 1
        /\ \A q \in ReaderPlaces : q # "read" => readers'[q] = 0
    BY <1>4, <1>2 DEF OpenSucceeds, TypeOK, ReaderPlaces
  <2>2. place' = [place EXCEPT ![c] = AfterStream(c)]
    BY <1>4 DEF OpenSucceeds, Goes
  <2>3. TypeOK'
    BY <1>4, <2>1, <2>2, <1>3 DEF OpenSucceeds, TypeOK, Openers
  <2>4. \A d \in Openers : place'[d] \notin Opening
    BY <2>2, <1>2, <1>3 DEF TypeOK
  <2>5. readers'["read"] + readers'["check"] + readers'["set"] + readers'["send"] <= 1
    BY <2>1, ReadersSum DEF ReaderPlaces
  <2>6. OneOwner'
    BY <2>4, <2>5 DEF OneOwner, Openers
  <2>7. WindowInv'
    BY <1>4, <2>2, <2>4, <1>3 DEF OpenSucceeds, Goes, WindowInv, TypeOK, Openers, Opening
  <2> QED
    BY <2>3, <2>6, <2>7
<1>5. ASSUME UNCHANGED readers,
             NEW to \in {"delay", "check", "set", "send", AfterStream(c)},
             place' = [place EXCEPT ![c] = to]
      PROVE  OneOwner' /\ place' \in [Openers -> Opening \cup {"done", "idle", "wait", "reset", "unstale"}]
             /\ (place["start"] \in Opening \cup {"done"})'
             /\ (place["handler"] # "done")'
  <2>1. \A d \in Openers : d # c => place'[d] = place[d]
    BY <1>5 DEF TypeOK
  <2>2. ~(place'["start"] \in Opening /\ place'["handler"] \in Opening)
    BY <2>1, <1>2 DEF Openers
  <2>3. OneOwner'
    BY <1>5, <1>2, <2>2 DEF OneOwner
  <2>4. to \in Opening \cup {"done", "wait"}
    BY <1>3 DEF Opening
  <2> QED
    BY <1>5, <1>3, <2>1, <2>3, <2>4 DEF TypeOK, Openers, Opening
<1>6. CASE OpenFails(c)
  BY <1>6, <1>5, <1>2 DEF OpenFails, Goes, TypeOK, WindowInv
<1>7. CASE Delays(c)
  BY <1>7, <1>5, <1>2 DEF Delays, Goes, TypeOK, WindowInv, Openers, Opening, ReaderPlaces
<1>8. CASE OpenerChecks(c)
  BY <1>8, <1>5, <1>2, <1>3 DEF OpenerChecks, Goes, TypeOK, WindowInv, Openers, Opening, ReaderPlaces
<1>9. CASE OpenerSets(c)
  BY <1>9, <1>5, <1>2 DEF OpenerSets, Goes, TypeOK, WindowInv, Openers, Opening, ReaderPlaces
<1> QED
  BY <1>4, <1>6, <1>7, <1>8, <1>9 DEF Opener

\* The one reader moves, and no opener is at work meanwhile.
LEMMA ReaderStep ==
    ASSUME Inv, Reader
    PROVE  Inv'
<1> USE DEF Inv
<1>1. ASSUME NEW from \in ReaderPlaces, NEW to \in ReaderPlaces, from # to,
             ReaderMoves(from, to), UNCHANGED place
      PROVE  /\ OneOwner' /\ readers' \in [ReaderPlaces -> Nat]
             /\ readers'[to] = 1 /\ readers[from] = 1
             /\ \A q \in ReaderPlaces : q # to => readers'[q] = 0
             /\ \A q \in ReaderPlaces : q # from => readers[q] = 0
             /\ place["start"] \notin Opening /\ place["handler"] \notin Opening
  <2>1. /\ readers' \in [ReaderPlaces -> Nat]
        /\ readers[from] > 0
        /\ readers'[to] = readers[to] + 1
        /\ readers'[from] = readers[from] - 1
        /\ \A p \in ReaderPlaces : p # from /\ p # to => readers'[p] = readers[p]
    BY <1>1, MovesEffect
  <2>2. /\ readers[from] = 1
        /\ \A q \in ReaderPlaces : q # from => readers[q] = 0
        /\ place["start"] \notin Opening /\ place["handler"] \notin Opening
    BY <2>1, ReaderAlone
  <2>3. readers'[to] = 1 /\ \A q \in ReaderPlaces : q # to => readers'[q] = 0
    BY <1>1, <2>1, <2>2
  <2>4. readers'["read"] + readers'["check"] + readers'["set"] + readers'["send"] <= 1
    BY <2>1, <2>3, ReadersSum
  <2>5. OneOwner'
    BY <1>1, <2>2, <2>4 DEF OneOwner, Openers
  <2> QED
    BY <2>1, <2>2, <2>3, <2>5
<1>2. ASSUME NEW s \in Stores, Receives(s) PROVE Inv'
  BY <1>2 DEF Receives, TypeOK, OneOwner, WindowInv
<1>3. CASE ReadFails
  BY <1>3, <1>1 DEF ReadFails, TypeOK, WindowInv, ReaderPlaces
<1>4. CASE ReaderAsks
  BY <1>4, <1>1 DEF ReaderAsks, TypeOK, WindowInv, ReaderPlaces
<1>5. CASE ReaderSets
  BY <1>5, <1>1 DEF ReaderSets, TypeOK, WindowInv, ReaderPlaces, Opening
<1>6. CASE ReaderGivesUp
  <2>1. "check" \in ReaderPlaces /\ ReaderReturns("check")
    BY <1>6 DEF ReaderGivesUp, ReaderPlaces
  <2>2. /\ readers' \in [ReaderPlaces -> Nat]
        /\ readers["check"] > 0
        /\ readers'["check"] = readers["check"] - 1
        /\ \A p \in ReaderPlaces : p # "check" => readers'[p] = readers[p]
    BY <2>1, ReturnsEffect
  <2>3. /\ readers["check"] = 1
        /\ \A q \in ReaderPlaces : q # "check" => readers[q] = 0
        /\ place["start"] \notin Opening /\ place["handler"] \notin Opening
    BY <2>1, <2>2, ReaderAlone
  <2>4. \A q \in ReaderPlaces : readers'[q] = 0
    BY <2>2, <2>3
  <2>5. readers'["read"] + readers'["check"] + readers'["set"] + readers'["send"] <= 1
    BY <2>4 DEF ReaderPlaces
  <2>6. OneOwner'
    BY <1>6, <2>3, <2>4, <2>5 DEF ReaderGivesUp, OneOwner, Openers
  <2> QED
    BY <1>6, <2>2, <2>4, <2>6 DEF ReaderGivesUp, TypeOK, WindowInv, ReaderPlaces
<1> QED
  BY <1>2, <1>3, <1>4, <1>5, <1>6 DEF Reader

LEMMA HandlerStep ==
    ASSUME Inv, Handler
    PROVE  Inv'
<1> USE DEF Inv
<1>1. CASE TakesReader
  <2>1. "send" \in ReaderPlaces /\ ReaderReturns("send")
    BY <1>1 DEF TakesReader, ReaderPlaces
  <2>2. /\ readers' \in [ReaderPlaces -> Nat]
        /\ readers["send"] > 0
        /\ readers'["send"] = readers["send"] - 1
        /\ \A p \in ReaderPlaces : p # "send" => readers'[p] = readers[p]
    BY <2>1, ReturnsEffect
  <2>3. /\ readers["send"] = 1
        /\ \A q \in ReaderPlaces : q # "send" => readers[q] = 0
        /\ place["start"] \notin Opening
    BY <2>1, <2>2, ReaderAlone
  <2>4. \A q \in ReaderPlaces : readers'[q] = 0
    BY <2>2, <2>3
  <2>5. readers'["read"] + readers'["check"] + readers'["set"] + readers'["send"] <= 1
    BY <2>4 DEF ReaderPlaces
  <2>6. place'["start"] = place["start"] /\ place' = [place EXCEPT !["handler"] = "open"]
    BY <1>1 DEF TakesReader, Goes, TypeOK, Openers
  <2>7. TypeOK'
    BY <1>1, <2>2, <2>6 DEF TakesReader, TypeOK, Openers, Opening
  <2>8. OneOwner'
    BY <2>3, <2>4, <2>5, <2>6 DEF OneOwner
  <2>9. WindowInv'
    BY <2>3, <2>4, <2>6 DEF WindowInv, ReaderPlaces, Opening
  <2> QED
    BY <2>7, <2>8, <2>9
<1>2. CASE TakesStart
  <2>1. \A p \in ReaderPlaces : readers[p] = 0
    BY <1>2, OpenerAlone DEF TakesStart, Openers, Opening
  <2>2. TypeOK'
    BY <1>2 DEF TakesStart, TypeOK, Openers, Opening
  <2>3. OneOwner'
    BY <1>2, <2>1 DEF TakesStart, OneOwner, Opening
  <2>4. WindowInv'
    BY <1>2, <2>1 DEF TakesStart, WindowInv, ReaderPlaces
  <2> QED
    BY <2>2, <2>3, <2>4
<1>3. ASSUME NEW from \in {"wait", "reset", "unstale"}, NEW to \in {"reset", "unstale", "idle"},
             Goes("handler", from, to), UNCHANGED readers
      PROVE  /\ OneOwner' /\ place'["start"] = place["start"] /\ place'["handler"] = to
             /\ place' \in [Openers -> Opening \cup {"done", "idle", "wait", "reset", "unstale"}]
  <2>1. place' = [place EXCEPT !["handler"] = to] /\ place["handler"] = from
    BY <1>3 DEF Goes
  <2>2. /\ place'["start"] = place["start"] /\ place'["handler"] = to
        /\ place' \in [Openers -> Opening \cup {"done", "idle", "wait", "reset", "unstale"}]
    BY <2>1 DEF TypeOK, Openers
  <2>3. to \notin Opening
    BY DEF Opening
  <2>4. \A d \in Openers : place'[d] \in Opening => place[d] \in Opening
    BY <2>2, <2>3 DEF Openers
  <2> QED
    BY <1>3, <2>2, <2>3, <2>4 DEF OneOwner
<1>4. CASE WaitEnds
  BY <1>4, <1>3 DEF WaitEnds, Goes, TypeOK, WindowInv
<1>5. CASE Resets
  BY <1>5, <1>3 DEF Resets, TypeOK, WindowInv
<1>6. CASE Unstales
  BY <1>6, <1>3 DEF Unstales, Goes, TypeOK, WindowInv
<1> QED
  BY <1>1, <1>2, <1>4, <1>5, <1>6 DEF Handler

LEMMA InvKept == Spec => []Inv
<1>1. ASSUME Inv, UNCHANGED vars PROVE Inv'
  BY <1>1 DEF Inv, vars, TypeOK, OneOwner, WindowInv
<1>2. ASSUME Inv, [Next]_vars PROVE Inv'
  BY <1>1, <1>2, OpenerStep, ReaderStep, HandlerStep DEF Next
<1> QED
  BY <1>2, InitInv, PTL DEF Spec

-----------------------------------------------------------------------------

\* Counts, places and flags keep their types.
THEOREM TypeCorrect == Spec => []TypeOK
BY InvKept, PTL DEF Inv

\* Never two streams, nor two goroutines about to open or to ask for one,
\* whatever the failures and the number of reconnects.
THEOREM StreamOwned == Spec => []OneOwner
BY InvKept, PTL DEF Inv

\* A failed reader goes without asking only before the handler that opened
\* its stream has reset the flag.
THEOREM GivesUpOnlyThere == Spec => GivesUpInWindow
<1>1. Inv /\ [Next]_vars
        => [ReaderGivesUp => place["handler"] \in {"wait", "reset"}]_vars
  BY DEF Inv, WindowInv, ReaderGivesUp, ReaderReturns
<1> QED
  BY <1>1, InvKept, PTL DEF Spec, GivesUpInWindow

\* The handler in a send that it alone could receive: what the run against
\* TriesAgainLater reaches.
SelfSend == place["handler"] = "send"

\* Once a dial of the handler's own has failed nothing moves any more: no
\* other goroutine has the stream in hand, and no price is ever written
\* again, whatever Binance does (binance_client.go:119).
THEOREM SelfSendEndsAll == Spec => [][~SelfSend]_vars
<1>1. ASSUME Inv, SelfSend, Next PROVE FALSE
  <2>1. /\ \A p \in ReaderPlaces : readers[p] = 0
        /\ place["start"] = "done"
    BY <1>1 DEF Inv, TypeOK, OneOwner, SelfSend, Openers, Opening
  <2>2. ~Reader
    BY <2>1 DEF Reader, Receives, ReadFails, ReaderAsks, ReaderGivesUp, ReaderSets,
                ReaderMoves, ReaderReturns, ReaderPlaces
  <2>3. ~Handler
    BY <1>1, <2>1 DEF SelfSend, Handler, TakesReader, TakesStart, WaitEnds, Resets, Unstales,
                      Goes
  <2>4. \A c \in Openers : ~Opener(c)
    BY <1>1, <2>1 DEF SelfSend, Openers, Opener, OpenSucceeds, OpenFails, Delays, OpenerChecks,
                      OpenerSets, Goes
  <2> QED
    BY <1>1, <2>2, <2>3, <2>4 DEF Next
<1>2. Inv /\ [Next]_vars => [~SelfSend]_vars
  BY <1>1
<1> QED
  BY <1>2, InvKept, PTL DEF Spec
=============================================================================
