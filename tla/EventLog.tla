------------------------------ MODULE EventLog ------------------------------
(***************************************************************************)
(* Recording and replay: the synchronous bus of core/EventBus.hpp with its *)
(* handlers, the binary log of core/Logger.cpp, and replay_test reading it *)
(* back with replay/LogReader.cpp.                                         *)
(*                                                                         *)
(* A record is a sequence of cells, one for each field; a symbol with its  *)
(* length is one cell, and an order id is two, because the reader uses an  *)
(* id of which only the low bytes were there.  What ofstream has accepted  *)
(* and what has reached the file differ: `stream' and its first `onDisk'   *)
(* cells.  The book is the sequence of the events applied to it, since     *)
(* addOrder and cancelOrder are functions of the book and their arguments. *)
(***************************************************************************)
EXTENDS Integers, SequencesExt

CONSTANTS
    Events,     \* what programs publish: prices are whole ticks
    Wirings,    \* the handlers of each kind of event, in subscription order
    Base,       \* the values of one cell of an id
    MaxEvents   \* bound: the events published in one run

Kinds == {"New", "Cancel", "Trade"}

ASSUME LogAssumption ==
    /\ \A e \in Events :
          \/ /\ e.kind = "New"
             /\ e = [kind |-> "New", symbol |-> e.symbol, px |-> e.px, qty |-> e.qty,
                     side |-> e.side]
          \/ /\ e.kind = "Cancel" /\ e.id \in Nat
             /\ e = [kind |-> "Cancel", symbol |-> e.symbol, id |-> e.id]
          \/ /\ e.kind = "Trade"
             /\ e = [kind |-> "Trade", symbol |-> e.symbol, taker |-> e.taker,
                     maker |-> e.maker, px |-> e.px, qty |-> e.qty, side |-> e.side]
    /\ Wirings \subseteq [Kinds -> {<<"log">>, <<"log", "book">>, <<"book", "log">>}]
    /\ \A w \in Wirings, k \in Kinds : w[k] = <<"log">> <=> k = "Trade"
    /\ Base \in Nat \ {0}
    /\ MaxEvents \in Nat

VARIABLES
    handlers,   \* handlers_ of the bus
    mode,       \* of the recording program: running, closed, or cut short
    published,  \* the events published so far
    pending,    \* the handlers that have yet to see the last of them
    live,       \* the events the live book has applied
    ok,         \* the state of out_
    stream,     \* the cells out_ has accepted
    onDisk,     \* how many of them are in the file
    logged,     \* history: the events of which all cells were accepted
    pos,        \* the reader's position in the file
    readOk,     \* the state of in_
    replayed,   \* the events readNext has returned
    done        \* the replay loop is over

busVars == <<handlers, mode, published, pending>>
logVars == <<ok, stream, onDisk, logged>>
readVars == <<pos, readOk, replayed, done>>
vars == <<busVars, live, logVars, readVars>>

-----------------------------------------------------------------------------
(* Recording                                                               *)

Record(e) ==
    CASE e.kind = "New"    -> <<1, e.symbol, e.px, e.qty, e.side>>
      [] e.kind = "Cancel" -> <<2, e.symbol, e.id % Base, e.id \div Base>>
      [] e.kind = "Trade"  -> <<3, e.symbol, e.taker, e.maker, e.px, e.qty, e.side>>

\* The last handler to subscribe is called first.
PublishBackwards(e) ==
    /\ mode = "running" /\ pending = <<>> /\ Len(published) < MaxEvents
    /\ published' = Append(published, e)
    /\ pending' = Reverse(handlers[e.kind])
    /\ UNCHANGED <<handlers, mode, live, logVars, readVars>>

Publish(e) ==
    /\ mode = "running" /\ pending = <<>> /\ Len(published) < MaxEvents
    /\ published' = Append(published, e)
    /\ pending' = handlers[e.kind]
    /\ UNCHANGED <<handlers, mode, live, logVars, readVars>>

Calls(handler) == mode = "running" /\ pending # <<>> /\ Head(pending) = handler

\* The book's handler: addOrder or cancelOrder
ApplyLive ==
    /\ Calls("book")
    /\ live' = Append(live, Last(published))
    /\ pending' = Tail(pending)
    /\ UNCHANGED <<handlers, mode, published, logVars, readVars>>

\* A stream that could not write a record is cleared for the next one.
LogAfterClear ==
    /\ Calls("log")
    /\ \/ /\ stream' = stream \o Record(Last(published))
          /\ logged' = logged + 1
       \/ UNCHANGED <<stream, logged>>
    /\ pending' = Tail(pending)
    /\ UNCHANGED <<handlers, mode, published, live, ok, onDisk, readVars>>

\* Logger::log.  A write that fails makes the rest of the record, and every
\* later record, a no-op that nobody is told of.
LogEvent ==
    /\ Calls("log")
    /\ LET cells == Record(Last(published)) IN
       \/ /\ ok
          /\ stream' = stream \o cells
          /\ logged' = logged + 1
          /\ UNCHANGED ok
       \/ /\ ok
          /\ ok' = FALSE
          /\ \E n \in 0..(Len(cells) - 1) : stream' = stream \o SubSeq(cells, 1, n)
          /\ UNCHANGED logged
       \/ /\ ~ok
          /\ UNCHANGED <<ok, stream, logged>>
    /\ pending' = Tail(pending)
    /\ UNCHANGED <<handlers, mode, published, live, onDisk, readVars>>

\* A full buffer goes to the file, wherever in a record it ends.
Flush ==
    /\ mode = "running" /\ ok
    /\ \E n \in (onDisk + 1)..Len(stream) : onDisk' = n
    /\ UNCHANGED <<busVars, live, ok, stream, logged, readVars>>

\* The process ends without the destructor.
ExitUnflushed ==
    /\ mode = "running" /\ pending = <<>> /\ ok
    /\ mode' = "closed"
    /\ UNCHANGED <<handlers, published, pending, live, logVars, readVars>>

\* The destructor's close writes out what is buffered.
Close ==
    /\ mode = "running" /\ pending = <<>> /\ ok
    /\ mode' = "closed"
    /\ onDisk' = Len(stream)
    /\ UNCHANGED <<handlers, published, pending, live, ok, stream, logged, readVars>>

\* The program crashes anywhere, or its close fails on the way.
CutShort ==
    /\ mode = "running"
    /\ mode' = "cut"
    /\ \E n \in onDisk..Len(stream) : onDisk' = n
    /\ UNCHANGED <<handlers, published, pending, live, ok, stream, logged, readVars>>

-----------------------------------------------------------------------------
(* Replay                                                                  *)

Left == SubSeq(stream, pos + 1, onDisk)

Width(type) == CASE type = 1 -> 5 [] type = 2 -> 4 [] type = 3 -> 7

\* readUInt64 starts from 0 and keeps the bytes it got.
IdOf(cells) ==
    (IF Len(cells) >= 1 THEN cells[1] ELSE 0)
        + (IF Len(cells) >= 2 THEN cells[2] * Base ELSE 0)

\* The stream is tested at the end of a record, except that of a cancel,
\* where it is tested after the symbol only.
Readable ==
    /\ readOk
    /\ Left # <<>>
    /\ Len(Left) >= IF Head(Left) = 2 THEN 2 ELSE Width(Head(Left))

\* Maker and taker exchanged
DecodeSwapped(c) ==
    CASE c[1] = 1 -> [kind |-> "New", symbol |-> c[2], px |-> c[3], qty |-> c[4],
                      side |-> c[5]]
      [] c[1] = 2 -> [kind |-> "Cancel", symbol |-> c[2],
                      id |-> IdOf(SubSeq(c, 3, Len(c)))]
      [] c[1] = 3 -> [kind |-> "Trade", symbol |-> c[2], taker |-> c[4], maker |-> c[3],
                      px |-> c[5], qty |-> c[6], side |-> c[7]]

Decode(c) ==
    CASE c[1] = 1 -> [kind |-> "New", symbol |-> c[2], px |-> c[3], qty |-> c[4],
                      side |-> c[5]]
      [] c[1] = 2 -> [kind |-> "Cancel", symbol |-> c[2],
                      id |-> IdOf(SubSeq(c, 3, Len(c)))]
      [] c[1] = 3 -> [kind |-> "Trade", symbol |-> c[2], taker |-> c[3], maker |-> c[4],
                      px |-> c[5], qty |-> c[6], side |-> c[7]]

ReadEvent ==
    /\ mode # "running" /\ ~done
    /\ Readable
    /\ LET width == Width(Head(Left)) IN
       /\ replayed' = Append(replayed, Decode(SubSeq(stream, pos + 1,
                          IF pos + width <= onDisk THEN pos + width ELSE onDisk)))
       /\ pos' = pos + width
       /\ readOk' = (pos + width <= onDisk)
    /\ UNCHANGED <<busVars, live, logVars, done>>

\* The loop asks again when it gets nothing.
ReadRetry ==
    /\ mode # "running" /\ ~done
    /\ ~Readable
    /\ readOk' = FALSE
    /\ UNCHANGED <<busVars, live, logVars, pos, replayed, done>>

\* readNext returns nullopt and the loop of replay_test ends.
ReadStop ==
    /\ mode # "running" /\ ~done
    /\ ~Readable
    /\ readOk' = FALSE
    /\ done' = TRUE
    /\ UNCHANGED <<busVars, live, logVars, pos, replayed>>
-----------------------------------------------------------------------------

\* A log that cannot be opened leaves out_ failed from the start.
Init ==
    /\ handlers \in Wirings
    /\ mode = "running" /\ published = <<>> /\ pending = <<>> /\ live = <<>>
    /\ ok \in BOOLEAN /\ stream = <<>> /\ onDisk = 0 /\ logged = 0
    /\ pos = 0 /\ readOk = TRUE /\ replayed = <<>> /\ done = FALSE

Replay == ReadEvent \/ ReadStop

Next ==
    \/ \E e \in Events : Publish(e)
    \/ ApplyLive
    \/ LogEvent
    \/ Flush
    \/ Close
    \/ CutShort
    \/ Replay

\* replay_test runs its loop to the end; nobody need record anything.
Spec == Init /\ [][Next]_vars /\ WF_vars(Replay)
-----------------------------------------------------------------------------

\* Trades are implied by the orders and touch no book.
BookEvents(events) ==
    LET upto[n \in 0..Len(events)] ==
            IF n = 0 THEN <<>>
            ELSE IF events[n].kind = "Trade" THEN upto[n - 1]
                 ELSE Append(upto[n - 1], events[n])
    IN upto[Len(events)]

CancelOf(e) == e.kind = "Cancel"

IsSeq(s) == Len(s) \in Nat /\ s = [i \in 1..Len(s) |-> s[i]]

TypeOK ==
    /\ handlers \in Wirings
    /\ mode \in {"running", "closed", "cut"}
    /\ published \in Seq(Events) /\ live \in Seq(Events)
    /\ pending \in Seq({"log", "book"})
    /\ ok \in BOOLEAN /\ readOk \in BOOLEAN /\ done \in BOOLEAN
    /\ IsSeq(stream) /\ onDisk \in 0..Len(stream)
    /\ logged \in 0..Len(published)
    /\ pos \in Nat
    /\ IsSeq(replayed)
    /\ \A i \in DOMAIN replayed : replayed[i] \in Events \/ CancelOf(replayed[i])

(***************************************************************************)
(* However the recording ended - crash, full disk, or a log cut in the     *)
(* middle of a record - the replay meets the published events from the     *)
(* first on, none missing and none changed.  Only the id of the last       *)
(* event, a cancel whose record was cut, may be wrong.                     *)
(***************************************************************************)
ReplayFaithful ==
    /\ Len(replayed) <= Len(published)
    /\ \A i \in DOMAIN replayed :
          \/ replayed[i] = published[i]
          \/ /\ i = Len(replayed) /\ ~readOk
             /\ CancelOf(replayed[i]) /\ CancelOf(published[i])

(***************************************************************************)
(* include/docs/log-format.md and LogReader.hpp: readNext returns nothing  *)
(* at an error, so that what is replayed is the beginning of what was      *)
(* published.  Not so for a cancel record cut inside its id.               *)
(***************************************************************************)
ReplayIsPrefix == IsPrefix(replayed, published)

(***************************************************************************)
(* tests/test_replay.cpp, for every run that closes its log: the replay    *)
(* ends with all events and its book has applied what the live book did,   *)
(* whichever of logger and book subscribed first.                          *)
(***************************************************************************)
CleanExitReplaysAll ==
    done /\ mode = "closed" =>
        replayed = published /\ BookEvents(replayed) = live

(***************************************************************************)
(* As long as the stream is good the log is never more than the event      *)
(* being handled behind the book, and not behind at all when the logger    *)
(* subscribed first, as in live_sim and live_sim_mt.                       *)
(***************************************************************************)
LogKeepsUp ==
    ok => LET inLog == BookEvents(SubSeq(published, 1, logged)) IN
          /\ Len(live) <= Len(inLog) + 1
          /\ Head(handlers["New"]) = "log" /\ Head(handlers["Cancel"]) = "log"
                => IsPrefix(live, inLog)

-----------------------------------------------------------------------------
(* The inductive invariant of the proofs                                   *)

IsPending(handler) == \E i \in DOMAIN pending : pending[i] = handler

Earlier == SubSeq(published, 1, Len(published) - 1)

\* What each handler has done with the events published so far
BusInv ==
    /\ pending # <<>> =>
          /\ published # <<>>
          /\ LET all == handlers[Last(published).kind] IN pending \in {all, Tail(all)}
    /\ live = BookEvents(IF IsPending("book") THEN Earlier ELSE published)
    /\ LET seen == IF IsPending("log") THEN Len(published) - 1 ELSE Len(published) IN
       logged <= seen /\ (ok => logged = seen)
    /\ mode = "closed" => ok /\ pending = <<>> /\ onDisk = Len(stream)

\* The stream is one record after the other, ends[i] cells for the first i,
\* and then perhaps the beginning of one more.
Layout(ends) ==
    /\ ends[0] = 0
    /\ \A i \in 1..logged :
          LET cells == Record(published[i]) IN
          /\ ends[i] = ends[i - 1] + Len(cells)
          /\ \A j \in DOMAIN cells : stream[ends[i - 1] + j] = cells[j]
    /\ \A i, j \in 0..logged : i <= j => ends[i] <= ends[j]
    /\ ok => ends[logged] = Len(stream)
    /\ ends[logged] < Len(stream) =>
          LET cells == Record(published[logged + 1]) IN
          /\ logged < Len(published)
          /\ Len(stream) < ends[logged] + Len(cells)
          /\ \A j \in 1..(Len(stream) - ends[logged]) : stream[ends[logged] + j] = cells[j]

\* The reader is at the end of the last record it has returned, or has run
\* over the end of the file inside the id of a cancel.
ReaderInv(ends) ==
    LET k == Len(replayed) IN
    /\ mode = "running" => pos = 0 /\ replayed = <<>> /\ readOk /\ ~done
    /\ pos <= onDisk =>
          /\ k <= logged /\ pos = ends[k] /\ (readOk \/ done)
          /\ \A i \in 1..k : replayed[i] = published[i]
    /\ pos > onDisk =>
          /\ ~readOk /\ k \in 1..(logged + 1) /\ k <= Len(published)
          /\ ends[k - 1] < onDisk /\ pos = ends[k - 1] + Width(2)
          /\ \A i \in 1..(k - 1) : replayed[i] = published[i]
          /\ CancelOf(replayed[k]) /\ CancelOf(published[k])
    /\ done => pos > onDisk \/ k = logged \/ onDisk < ends[k + 1]

IInv ==
    /\ TypeOK
    /\ BusInv
    /\ \E ends \in [0..logged -> 0..Len(stream)] : Layout(ends) /\ ReaderInv(ends)
-----------------------------------------------------------------------------

(***************************************************************************)
(* The replay loop ends on every file a recording can leave behind.        *)
(***************************************************************************)
ReplayEnds == (mode # "running") ~> done
=============================================================================
