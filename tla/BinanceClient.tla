---------------------------- MODULE BinanceClient ----------------------------
(***************************************************************************)
(* The Binance client (src/data-engine/binance_client.go).  One goroutine  *)
(* opens the stream at start-up, the reconnect handler opens it again on   *)
(* request; an opened stream is read by a goroutine of its own, which asks *)
(* for a reconnect and returns at the first error.  Unlike the Vega core   *)
(* client's, this handler opens the stream in its own goroutine, waits for *)
(* prices and only then resets the flag.                                   *)
(*                                                                         *)
(* Opening is one step: the dial, the subscription and the first read fail *)
(* alike.  An opener (start or handler) stands at                          *)
(*   open   in StreamBinanceData, about to dial                            *)
(*   delay  about to mark the stores stale and to sleep                    *)
(*   check, set, send   in handleBinanceReconnect, as a reader does        *)
(* and the handler besides at idle (the select), wait (wg.Wait), reset and *)
(* unstale.  Readers are counted: readers[p] of them stand at p.           *)
(***************************************************************************)
EXTENDS Naturals, FiniteSets

CONSTANT Stores   \* the Binance stores: one for each ticker and strategy

ASSUME BinanceAssumption == Stores # {} /\ IsFiniteSet(Stores)

VARIABLES
    reconnecting, \* b.reconnecting
    place,        \* place["start"], place["handler"]: where the openers stand
    readers,      \* readers[p]: reader goroutines that stand at p
    priced,       \* stores whose bid and ask are not zero
    stale         \* the isStale flag, set and reset for all stores alike

vars == <<reconnecting, place, readers, priced, stale>>

Openers == {"start", "handler"}
ReaderPlaces == {"read", "check", "set", "send"}

Init ==
    /\ reconnecting = FALSE
    /\ place = [start |-> "open", handler |-> "idle"]
    /\ readers = [p \in ReaderPlaces |-> 0]
    /\ priced = {}
    /\ stale = FALSE

Goes(c, from, to) ==
    /\ place[c] = from
    /\ place' = [place EXCEPT ![c] = to]

ReaderMoves(from, to) ==
    /\ readers[from] > 0
    /\ readers' = [readers EXCEPT ![from] = @ - 1, ![to] = @ + 1]

ReaderReturns(from) ==
    /\ readers[from] > 0
    /\ readers' = [readers EXCEPT ![from] = @ - 1]

-----------------------------------------------------------------------------
(* StreamBinanceData, in the start-up goroutine or in the handler's.       *)

\* Where the caller goes on once StreamBinanceData has returned.
AfterStream(c) == IF c = "start" THEN "done" ELSE "wait"

OpenSucceeds(c) ==
    /\ Goes(c, "open", AfterStream(c))
    /\ readers' = [readers EXCEPT !["read"] = @ + 1]
    /\ UNCHANGED <<reconnecting, priced, stale>>

OpenFails(c) ==
    /\ Goes(c, "open", "delay")
    /\ reconnecting' = FALSE
    /\ UNCHANGED <<readers, priced, stale>>

Delays(c) ==
    /\ Goes(c, "delay", "check")
    /\ stale' = TRUE
    /\ UNCHANGED <<reconnecting, readers, priced>>

OpenerChecks(c) ==
    /\ Goes(c, "check", IF reconnecting THEN AfterStream(c) ELSE "set")
    /\ UNCHANGED <<reconnecting, readers, priced, stale>>

OpenerSets(c) ==
    /\ Goes(c, "set", "send")
    /\ reconnecting' = TRUE
    /\ UNCHANGED <<readers, priced, stale>>

Opener(c) ==
    \/ OpenSucceeds(c) \/ OpenFails(c) \/ Delays(c)
    \/ OpenerChecks(c) \/ OpenerSets(c)

-----------------------------------------------------------------------------
(* The reader.                                                             *)

Receives(s) ==
    /\ readers["read"] > 0
    /\ priced' = priced \cup {s}
    /\ UNCHANGED <<reconnecting, place, readers, stale>>

\* Mutant: the request is made on the side and the reader goes on reading.
ReadFails_GoesOn ==
    /\ readers["read"] > 0
    /\ readers' = [readers EXCEPT !["check"] = @ + 1]
    /\ UNCHANGED <<reconnecting, place, priced, stale>>

\* The socket fails, or a message cannot be decoded.
ReadFails ==
    /\ ReaderMoves("read", "check")
    /\ UNCHANGED <<reconnecting, place, priced, stale>>

ReaderAsks ==
    /\ ~reconnecting
    /\ ReaderMoves("check", "set")
    /\ UNCHANGED <<reconnecting, place, priced, stale>>

\* A reconnect is under way: the reader leaves it at that.
ReaderGivesUp ==
    /\ reconnecting
    /\ ReaderReturns("check")
    /\ UNCHANGED <<reconnecting, place, priced, stale>>

ReaderSets ==
    /\ ReaderMoves("set", "send")
    /\ reconnecting' = TRUE
    /\ UNCHANGED <<place, priced, stale>>

Reader ==
    \/ \E s \in Stores : Receives(s)
    \/ ReadFails \/ ReaderAsks \/ ReaderGivesUp \/ ReaderSets

-----------------------------------------------------------------------------
(* The reconnect handler; its StreamBinanceData is Opener("handler").      *)

\* From "send" the handler has no way on: it is the only receiver.
TakesReader ==
    /\ Goes("handler", "idle", "open")
    /\ ReaderReturns("send")
    /\ UNCHANGED <<reconnecting, priced, stale>>

TakesStart ==
    /\ place["handler"] = "idle"
    /\ place["start"] = "send"
    /\ place' = [start |-> "done", handler |-> "open"]
    /\ UNCHANGED <<reconnecting, readers, priced, stale>>

\* The waiter goroutine, started before the dial, calls wg.Done when no
\* store has a zero price left; after the first time that is at once.
WaitEnds ==
    /\ Goes("handler", "wait", "reset")
    /\ priced = Stores
    /\ UNCHANGED <<reconnecting, readers, priced, stale>>

\* Mutant: the flag stays set.
Resets_Never ==
    /\ Goes("handler", "reset", "unstale")
    /\ UNCHANGED <<reconnecting, readers, priced, stale>>

Resets ==
    /\ Goes("handler", "reset", "unstale")
    /\ reconnecting' = FALSE
    /\ UNCHANGED <<readers, priced, stale>>

Unstales ==
    /\ Goes("handler", "unstale", "idle")
    /\ stale' = FALSE
    /\ UNCHANGED <<reconnecting, readers, priced>>

Handler == TakesReader \/ TakesStart \/ WaitEnds \/ Resets \/ Unstales

-----------------------------------------------------------------------------

Next == Reader \/ Handler \/ \E c \in Openers : Opener(c)

Spec == Init /\ [][Next]_vars

\* Goroutines are scheduled and a rendezvous both sides wait for happens;
\* Binance answers a client that dials again and again.
FairSpec ==
    /\ Spec
    /\ WF_vars(Handler)
    /\ WF_vars(ReaderAsks) /\ WF_vars(ReaderGivesUp) /\ WF_vars(ReaderSets)
    /\ \A c \in Openers :
         /\ WF_vars(Opener(c))
         /\ SF_vars(OpenSucceeds(c))

-----------------------------------------------------------------------------
(* Properties.                                                             *)

Opening == {"open", "delay", "check", "set", "send"}

TypeOK ==
    /\ reconnecting \in BOOLEAN
    /\ place \in [Openers -> Opening \cup {"done", "idle", "wait", "reset", "unstale"}]
    /\ place["start"] \in Opening \cup {"done"}
    /\ place["handler"] # "done"
    /\ readers \in [ReaderPlaces -> Nat]
    /\ priced \in SUBSET Stores
    /\ stale \in BOOLEAN

\* However often the stream fails, one goroutine at most has it in hand: is
\* opening it, reading it or asking for another.  Two readers would write
\* two streams' prices over each other.
OneOwner ==
    /\ readers["read"] + readers["check"] + readers["set"] + readers["send"] <= 1
    /\ ~(place["start"] \in Opening /\ place["handler"] \in Opening)
    /\ (\E c \in Openers : place[c] \in Opening) =>
           \A p \in ReaderPlaces : readers[p] = 0

\* A reader that fails without asking for a reconnect does so in one window
\* only, between the handler's opening of this very stream and its reset of
\* the flag; the request of any later failure is made.
GivesUpInWindow ==
    [][ReaderGivesUp => place["handler"] \in {"wait", "reset"}]_vars

\* binance_client.go:116, "Could not dial binance websocket address. Will
\* try again later.": an opener that has failed tries again.
TriesAgainLater ==
    \A c \in Openers : place[c] = "delay" ~> (\E d \in Openers : place[d] = "open")
=============================================================================
