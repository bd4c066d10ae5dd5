---------------------------- MODULE ReplayViewer ----------------------------
(***************************************************************************)
(* ob_viewer.cpp: the window that replays a log and lets its user pause,   *)
(* step and scrub.  The book is a function of the events applied to it, so *)
(* it is kept as `shown', their positions in the log, and the constant     *)
(* Mid says what it quotes.  A frame polls all waiting input and then      *)
(* makes at most one step; frames without input or step change             *)
(* nothing, so that inputs and steps simply interleave.  The pace (speed   *)
(* keys, clocks) is abstracted to when a step is taken; drawing is left    *)
(* out, and with it the ladder and its wheel.  Nothing is shown of the     *)
(* rest of the frame that closes the window.                               *)
(***************************************************************************)
EXTENDS Integers, SequencesExt, FiniteSetsExt

CONSTANTS
    Logs,       \* what events.bin may hold
    Mid(_),     \* of the book after a sequence of events, or None
    None,       \* no quote, no event, no checksum
    Mid0,       \* the mid shown before the first quote
    MaxInputs   \* bound: clicks on the timeline

ASSUME ViewerAssumption ==
    /\ \A file \in Logs :
          /\ Len(file) \in Nat /\ file = [i \in 1..Len(file) |-> file[i]]
          /\ \A i \in DOMAIN file : file[i].kind \in {"New", "Cancel", "Trade"}
    /\ None \notin Seq(Nat) /\ Mid(<<>>) = None
    /\ MaxInputs \in Nat

VARIABLES
    log,        \* events.bin
    open,       \* the window is open
    history,    \* the positions read so far, in order
    complete,   \* historyComplete
    shown,      \* the positions applied to the book on the screen
    seen, sizes, lastEvent, mid, eof, checksum, \* the panels
    thisSec, perSec,    \* orders counted in this second and in the last one
    paused, stepOnce,   \* ui
    inputs      \* clicks so far

panels == <<seen, sizes, lastEvent, mid, eof, checksum>>
rate == <<thisSec, perSec>>
ui == <<paused, stepOnce>>
vars == <<log, open, history, complete, shown, panels, rate, ui, inputs>>

Buckets == 0..4

bucketIndex(qty) ==
    CASE qty <= 5 -> 0 [] qty <= 10 -> 1 [] qty <= 20 -> 2 [] qty <= 50 -> 3 [] OTHER -> 4

EventsOf(positions) == [i \in DOMAIN positions |-> log[positions[i]]]
Orders(positions) == {i \in DOMAIN positions : log[positions[i]].kind = "New"}
Upto(n) == [i \in 1..n |-> i]

\* How many orders of each size: recordEventForDebug on each event in turn
Histogram(positions) ==
    [b \in Buckets |->
        Cardinality({i \in Orders(positions) : bucketIndex(log[positions[i]].qty) = b})]

Recorded(counts, e) ==
    IF e.kind = "New" THEN [counts EXCEPT ![bucketIndex(e.qty)] = @ + 1] ELSE counts

\* A book with an empty side leaves the last mid on the screen.
updateMidFromBook(positions) ==
    IF Mid(EventsOf(positions)) = None THEN mid ELSE Mid(EventsOf(positions))

-----------------------------------------------------------------------------
(* Playback                                                                *)

\* Only a step that was asked for
StepWhenAsked == open /\ ~eof /\ stepOnce

shouldStep == open /\ ~eof /\ (paused => stepOnce)

\* readNext returns an event: it goes to the book and to the panels.
StepEvent(e) ==
    /\ shouldStep
    /\ Len(history) < Len(log)
    /\ e = log[Len(history) + 1]
    /\ history' = Append(history, Len(history) + 1)
    /\ shown' = Append(shown, Len(history) + 1)
    /\ seen' = seen + 1
    /\ sizes' = Recorded(sizes, e)
    /\ lastEvent' = e
    /\ mid' = updateMidFromBook(shown')
    /\ thisSec' = IF e.kind = "New" THEN thisSec + 1 ELSE thisSec
    /\ stepOnce' = FALSE
    /\ UNCHANGED <<log, open, complete, eof, checksum, perSec, paused, inputs>>

\* What readNext returned is stored before it is tested.
StepEndStores ==
    /\ shouldStep
    /\ Len(history) = Len(log)
    /\ history' = Append(history, Len(history) + 1)
    /\ eof' = TRUE
    /\ complete' = TRUE
    /\ checksum' = shown
    /\ stepOnce' = FALSE
    /\ UNCHANGED <<log, open, shown, seen, sizes, lastEvent, mid, rate, paused, inputs>>

\* readNext returns nothing.
StepEnd ==
    /\ shouldStep
    /\ Len(history) = Len(log)
    /\ eof' = TRUE
    /\ complete' = TRUE
    /\ checksum' = shown
    /\ stepOnce' = FALSE
    /\ UNCHANGED <<log, open, history, shown, seen, sizes, lastEvent, mid, rate,
                   paused, inputs>>

Step == StepEnd \/ \E e \in {log[i] : i \in DOMAIN log} : StepEvent(e)

\* The clock of orders/sec passes a second.
Second ==
    /\ open /\ <<thisSec, perSec>> # <<0, 0>>
    /\ perSec' = thisSec
    /\ thisSec' = 0
    /\ UNCHANGED <<log, open, history, complete, shown, panels, ui, inputs>>

-----------------------------------------------------------------------------
(* The user                                                                *)

PressSpace ==
    /\ open
    /\ paused' = ~paused
    /\ UNCHANGED <<log, open, history, complete, shown, panels, rate, stepOnce, inputs>>

PressRight ==
    /\ open /\ paused
    /\ stepOnce' = TRUE
    /\ UNCHANGED <<log, open, history, complete, shown, panels, rate, paused, inputs>>

CloseWindow ==
    /\ open
    /\ open' = FALSE
    /\ UNCHANGED <<log, history, complete, shown, panels, rate, ui, inputs>>

\* The book is not reset before the events are applied.
RebuildOverBook(target) ==
    /\ shown' = shown \o SubSeq(history, 1, target)
    /\ seen' = target
    /\ sizes' = Histogram(SubSeq(history, 1, target))
    /\ lastEvent' = IF target = 0 THEN None ELSE log[target]
    /\ mid' = updateMidFromBook(shown')
    /\ eof' = (complete /\ target = Len(history))
    /\ checksum' = IF eof' THEN shown' ELSE None

\* The loop stops one event early.
RebuildShort(target) ==
    /\ shown' = SubSeq(history, 1, target - 1)
    /\ seen' = Len(shown')
    /\ sizes' = Histogram(shown')
    /\ lastEvent' = IF shown' = <<>> THEN None ELSE log[Last(shown')]
    /\ mid' = updateMidFromBook(shown')
    /\ eof' = (complete /\ target = Len(history))
    /\ checksum' = IF eof' THEN shown' ELSE None

\* rebuildToIndex, without the reset of the panels
RebuildOverPanels(target) ==
    /\ shown' = SubSeq(history, 1, target)
    /\ seen' = seen + target
    /\ sizes' = [b \in Buckets |-> sizes[b] + Histogram(shown')[b]]
    /\ lastEvent' = IF shown' = <<>> THEN lastEvent ELSE log[Last(shown')]
    /\ mid' = updateMidFromBook(shown')
    /\ eof' = (complete /\ target = Len(history))
    /\ checksum' = IF eof' THEN shown' ELSE None

\* The checksum of the whole replay stays on the panel.
RebuildKeepChecksum(target) ==
    /\ shown' = SubSeq(history, 1, target)
    /\ seen' = target
    /\ sizes' = Histogram(shown')
    /\ lastEvent' = IF shown' = <<>> THEN None ELSE log[Last(shown')]
    /\ mid' = updateMidFromBook(shown')
    /\ eof' = (complete /\ target = Len(history))
    /\ checksum' = IF eof' THEN shown' ELSE checksum

\* A new book from the first events of the history.  The mid is not reset
\* and the reader stays where it is.
rebuildToIndex(target) ==
    /\ shown' = SubSeq(history, 1, target)
    /\ seen' = target
    /\ sizes' = Histogram(shown')
    /\ lastEvent' = IF shown' = <<>> THEN None ELSE log[Last(shown')]
    /\ mid' = updateMidFromBook(shown')
    /\ eof' = (complete /\ target = Len(history))
    /\ checksum' = IF eof' THEN shown' ELSE None

\* A click on the timeline
Scrub ==
    /\ open /\ history # <<>> /\ inputs < MaxInputs
    /\ inputs' = inputs + 1
    /\ \E target \in 0..Len(history) : rebuildToIndex(target)
    /\ UNCHANGED <<log, open, history, complete, rate, ui>>
-----------------------------------------------------------------------------

Init ==
    /\ log \in Logs /\ open = TRUE
    /\ history = <<>> /\ complete = FALSE /\ shown = <<>>
    /\ seen = 0 /\ sizes = [b \in Buckets |-> 0] /\ lastEvent = None /\ mid = Mid0
    /\ eof = FALSE /\ checksum = None
    /\ thisSec = 0 /\ perSec = 0
    /\ paused = FALSE /\ stepOnce = FALSE /\ inputs = 0

Next == Step \/ Second \/ PressSpace \/ PressRight \/ CloseWindow \/ Scrub

\* The frame loop runs and the clock passes the pace of playback.
Spec == Init /\ [][Next]_vars /\ WF_vars(Step)
-----------------------------------------------------------------------------

TypeOK ==
    /\ log \in Logs /\ open \in BOOLEAN /\ complete \in BOOLEAN
    /\ history \in Seq(Nat) /\ history = Upto(Len(history)) /\ Len(history) <= Len(log)
    /\ shown \in Seq(1..Len(history))
    /\ seen \in Nat /\ sizes \in [Buckets -> Nat] /\ eof \in BOOLEAN
    /\ lastEvent = None \/ lastEvent \in Range(log)
    /\ checksum = None \/ checksum \in Seq(1..Len(history))
    /\ thisSec \in Nat /\ perSec \in Nat
    /\ paused \in BOOLEAN /\ stepOnce \in BOOLEAN /\ inputs \in 0..MaxInputs

(***************************************************************************)
(* However the user scrubs and steps, rebuildToIndex and the step handler  *)
(* apply no event twice and none before an earlier one, and what a scrub   *)
(* leaves out is one stretch of the log: the screen is its beginning, and  *)
(* then what was read since.                                               *)
(***************************************************************************)
NeverTwice ==
    \E kept \in 0..Len(shown) :
        \A i \in DOMAIN shown :
            shown[i] = IF i <= kept THEN i ELSE Len(history) - (Len(shown) - i)

(***************************************************************************)
(* The panels of ob_viewer.cpp are about the book beside them, over any    *)
(* number of scrubs: events seen, histogram, last event, the mid if it has *)
(* one.  Orders per second count no order again that a scrub applies again.*)
(***************************************************************************)
PanelsMatchBook ==
    /\ seen = Len(shown)
    /\ sizes = Histogram(shown)
    /\ lastEvent = IF shown = <<>> THEN None ELSE log[Last(shown)]
    /\ Mid(EventsOf(shown)) \in {None, mid}
    /\ thisSec + perSec <= Cardinality(Orders(history))

(***************************************************************************)
(* A replay checksum is on the screen exactly when the end of the log is   *)
(* (stats.eof), and it is that of the book on the screen.                  *)
(***************************************************************************)
ChecksumOfScreen ==
    /\ eof <=> checksum # None
    /\ eof => complete /\ checksum = shown

(***************************************************************************)
(* Once the log has been read to its end, a click on the right end of the  *)
(* timeline always restores the whole replay and its checksum, whatever    *)
(* truncated book was on the screen.                                       *)
(***************************************************************************)
EndRestoresReplay ==
    [][complete /\ inputs' # inputs /\ eof' => checksum' = Upto(Len(log))]_vars

(***************************************************************************)
(* The inductive invariant of the proofs: the history is complete when     *)
(* the reader has been at the end of the log.                              *)
(***************************************************************************)
IInv ==
    /\ TypeOK /\ NeverTwice /\ PanelsMatchBook /\ ChecksumOfScreen
    /\ complete => Len(history) = Len(log)

(***************************************************************************)
(* Playback ends: a viewer that is left open and running, whose timeline   *)
(* is clicked finitely often, reaches the end of the log and stays there.  *)
(***************************************************************************)
PlaybackEnds == <>[](open /\ ~paused) => <>[]eof

(***************************************************************************)
(* ob_viewer.cpp:150: every event is stored "so we can scrub back/forward" *)
(* - the screen is what the log had built at some moment.  Not so: the     *)
(* step after a scrub applies the event after the end of the history.      *)
(***************************************************************************)
ShownIsPrefix == shown = Upto(Len(shown))
=============================================================================
