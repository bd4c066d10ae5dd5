--------------------------- MODULE PipelineProofs ---------------------------
(***************************************************************************)
(* Theorems about the three threads of live_sim_mt, for any number of      *)
(* updates and symbols, any firing pace and any capacity of the two rings. *)
(***************************************************************************)
EXTENDS Pipeline, SequenceTheorems, TLAPS

-----------------------------------------------------------------------------
(* Items in flight                                                         *)

LEMMA FlowItems ==
    ASSUME NEW S, NEW sent \in Seq(S), NEW queue \in Seq(S), NEW out \in Nat,
           InFlight(sent, out, queue)
    PROVE  /\ Len(queue) \in Nat /\ Len(sent) = out + Len(queue)
           /\ \A i \in 1..Len(queue) : queue[i] = sent[out + i]
<1>1. Len(queue) \in Nat /\ DOMAIN queue = 1..Len(queue) /\ Len(sent) \in Nat
  BY LenProperties
<1>2. out + Len(queue) = Len(sent)
  BY DEF InFlight
<1>3. \A i \in DOMAIN queue : queue[i] = sent[out + i]
  BY DEF InFlight
<1> QED BY <1>1, <1>2, <1>3

LEMMA FlowSend ==
    ASSUME NEW S, NEW sent \in Seq(S), NEW queue \in Seq(S), NEW out \in Nat,
           NEW item \in S, InFlight(sent, out, queue)
    PROVE  InFlight(Append(sent, item), out, Append(queue, item))
<1>1. /\ Len(queue) \in Nat /\ Len(sent) = out + Len(queue)
      /\ \A i \in 1..Len(queue) : queue[i] = sent[out + i]
  BY FlowItems
<1>2. /\ Len(Append(queue, item)) = Len(queue) + 1
      /\ Len(Append(sent, item)) = Len(sent) + 1
      /\ DOMAIN Append(queue, item) = 1..(Len(queue) + 1)
      /\ \A i \in 1..Len(queue) : Append(queue, item)[i] = queue[i]
      /\ Append(queue, item)[Len(queue) + 1] = item
      /\ \A i \in 1..Len(sent) : Append(sent, item)[i] = sent[i]
      /\ Append(sent, item)[Len(sent) + 1] = item
  BY AppendProperties, LenProperties
<1>3. ASSUME NEW i \in 1..(Len(queue) + 1)
      PROVE  Append(queue, item)[i] = Append(sent, item)[out + i]
  <2>1. CASE i = Len(queue) + 1
    BY <1>1, <1>2, <2>1
  <2>2. CASE i # Len(queue) + 1
    BY <1>1, <1>2, <2>2
  <2> QED BY <2>1, <2>2
<1> QED BY <1>1, <1>2, <1>3 DEF InFlight

\* The head of the queue is the oldest item in flight; taking it out leaves
\* the rest in flight.
LEMMA FlowTake ==
    ASSUME NEW S, NEW sent \in Seq(S), NEW queue \in Seq(S), NEW out \in Nat,
           queue # <<>>, InFlight(sent, out, queue)
    PROVE  /\ InFlight(sent, out + 1, Tail(queue))
           /\ Tail(queue) \in Seq(S) /\ Len(Tail(queue)) = Len(queue) - 1
           /\ Head(queue) \in S /\ Head(queue) = sent[out + 1]
           /\ out + 1 \in 1..Len(sent)
<1>0. Len(queue) \in Nat \ {0}
  BY EmptySeq
<1>1. /\ Len(queue) \in Nat /\ Len(sent) = out + Len(queue)
      /\ \A i \in 1..Len(queue) : queue[i] = sent[out + i]
  BY FlowItems
<1>2. /\ Tail(queue) \in Seq(S) /\ Len(Tail(queue)) = Len(queue) - 1
      /\ DOMAIN Tail(queue) = 1..(Len(queue) - 1)
      /\ \A i \in 1..(Len(queue) - 1) : Tail(queue)[i] = queue[i + 1]
      /\ Head(queue) \in S /\ Head(queue) = queue[1]
  BY HeadTailProperties, LenProperties
<1>3. \A i \in 1..(Len(queue) - 1) : Tail(queue)[i] = sent[out + 1 + i]
  <2> TAKE i \in 1..(Len(queue) - 1)
  <2>1. i + 1 \in 1..Len(queue) /\ out + (i + 1) = out + 1 + i
    BY <1>1
  <2> QED BY <1>1, <1>2, <2>1
<1> QED BY <1>0, <1>1, <1>2, <1>3 DEF InFlight

\* Nothing is in flight when as many items have been taken as were sent.
LEMMA FlowEmpty ==
    ASSUME NEW S, NEW queue \in Seq(S), NEW sent, NEW out \in Nat,
           InFlight(sent, out, queue)
    PROVE  /\ queue = <<>> <=> out = Len(sent)
           /\ queue # <<>> <=> out < Len(sent)
<1>1. Len(queue) \in Nat /\ (queue = <<>> <=> Len(queue) = 0)
  BY EmptySeq
<1> QED BY <1>1 DEF InFlight
-----------------------------------------------------------------------------
(* The invariant                                                           *)

\* The views of the state that the flows are about are sequences.
LEMMA Views ==
    ASSUME IInv
    PROVE  /\ UpdsReceived \in Seq(1..Updates) /\ OrdersReceived \in Seq(1..Updates)
           /\ UpdsOut \in Nat /\ OrdersOut \in Nat
           /\ Pushed \in Seq(1..Updates) /\ Len(Pushed) = pushed
           /\ \A n \in 1..pushed : Pushed[n] = n
           /\ Len(taken) \in Nat /\ Len(taken) <= Len(UpdsReceived)
           /\ UpdsOut <= pushed
<1>1. /\ taken \in Seq(1..Updates) /\ handled \in Seq(1..Updates)
      /\ lostUpds \in Seq(1..Updates) /\ lostOrders \in Seq(1..Updates)
  BY DEF IInv, Histories
<1>2. pushed \in Nat /\ pushed <= Updates /\ Updates \in Nat
  BY PipelineAssumption DEF IInv, TypeOK
<1>3. /\ UpdsReceived \in Seq(1..Updates)
      /\ Len(taken) \in Nat /\ Len(taken) <= Len(UpdsReceived)
  <2>1. CASE strat = "handle"
    <3>1. upd \in 1..Updates
      BY <2>1 DEF IInv, Histories
    <3> QED BY <1>1, <2>1, <3>1, AppendProperties, LenProperties DEF UpdsReceived
  <2>2. CASE strat # "handle"
    BY <1>1, <2>2 DEF UpdsReceived
  <2> QED BY <2>1, <2>2
<1>4. OrdersReceived \in Seq(1..Updates)
  <2>1. CASE risk = "handle"
    BY <1>1, <2>1, AppendProperties DEF OrdersReceived, IInv, Histories
  <2>2. CASE risk # "handle"
    BY <1>1, <2>2 DEF OrdersReceived
  <2> QED BY <2>1, <2>2
<1>5. UpdsOut \in Nat /\ OrdersOut \in Nat
  BY <1>1, <1>3, <1>4, LenProperties DEF UpdsOut, OrdersOut
<1>6. /\ Pushed \in Seq(1..Updates) /\ Len(Pushed) = pushed
      /\ \A n \in 1..pushed : Pushed[n] = n
  BY <1>2 DEF Pushed
<1>7. UpdsOut <= pushed
  <2>1. Len(mdQ) \in Nat /\ UpdsOut + Len(mdQ) = pushed
    BY <1>6, LenProperties DEF IInv, TypeOK, UpdateFlow, InFlight
  <2> QED BY <1>5, <2>1
<1> QED BY <1>3, <1>4, <1>5, <1>6, <1>7

LEMMA InitIInv == Init => IInv
<1> SUFFICES ASSUME Init PROVE IInv
  OBVIOUS
<1>1. \A S : <<>> \in Seq(S) /\ Len(<<>>) = 0
  BY EmptySeq
<1>2. TypeOK
  <2>1. 0 \in 0..Updates
    BY PipelineAssumption
  <2>2. seen \in [Symbols -> 0..Updates]
    BY <2>1 DEF Init
  <2>3. Len(mdQ) < MdCapacity /\ Len(orderQ) < OrderCapacity
    BY <1>1, PipelineAssumption DEF Init
  <2> QED BY <1>1, <2>1, <2>2, <2>3 DEF Init, TypeOK
<1>3. Histories
  BY <1>1, PipelineAssumption DEF Init, Histories
<1>4. /\ UpdsReceived = <<>> /\ OrdersReceived = <<>> /\ UpdsOut = 0 /\ OrdersOut = 0
  BY <1>1 DEF Init, UpdsReceived, OrdersReceived, UpdsOut, OrdersOut
<1>5. Len(Pushed) = 0
  BY DEF Init, Pushed
<1>6. UpdateFlow
  BY <1>1, <1>4, <1>5 DEF Init, UpdateFlow, InFlight, StopsLate
<1>7. OrderFlow
  BY <1>1, <1>4 DEF Init, OrderFlow, InFlight, StopsLate
<1>8. Ascending
  BY <1>1, <1>4 DEF Init, Ascending
<1> QED BY <1>2, <1>3, <1>6, <1>7, <1>8 DEF IInv

\* The market data thread does not touch what the strategy and the risk
\* thread have, the queue and the flag to the strategy apart.
LEMMA MdFrame ==
    ASSUME IInv,
           UNCHANGED <<stratVars, orderQ, stratDone, fired, riskVars>>
    PROVE  /\ Histories' /\ OrderFlow' /\ Ascending'
           /\ UpdsReceived' = UpdsReceived /\ UpdsOut' = UpdsOut
<1> USE DEF IInv, stratVars, riskVars
<1>1. /\ UpdsReceived' = UpdsReceived /\ UpdsOut' = UpdsOut
      /\ OrdersReceived' = OrdersReceived /\ OrdersOut' = OrdersOut
  BY DEF UpdsReceived, UpdsOut, OrdersReceived, OrdersOut
<1>2. Histories'
  BY DEF Histories
<1>3. OrderFlow'
  BY <1>1 DEF OrderFlow
<1>4. Ascending'
  BY <1>1 DEF Ascending
<1> QED BY <1>1, <1>2, <1>3, <1>4

LEMMA MdLoadedIInv == IInv /\ MdLoaded => IInv'
<1> SUFFICES ASSUME IInv, MdLoaded PROVE IInv'
  OBVIOUS
<1>1. /\ Histories' /\ OrderFlow' /\ Ascending' /\ UpdsReceived' = UpdsReceived
      /\ UpdsOut' = UpdsOut
  BY MdFrame DEF MdLoaded
<1>2. TypeOK'
  BY DEF IInv, TypeOK, MdLoaded, stratVars, riskVars
<1>3. UpdateFlow'
  BY <1>1 DEF IInv, UpdateFlow, Pushed, MdLoaded, stratVars
<1> QED BY <1>1, <1>2, <1>3 DEF IInv

\* Raising the flag, with or without updates sent
LEMMA MdEndIInv == IInv /\ (MdLoadFailed \/ MdFinish) => IInv'
<1> SUFFICES ASSUME IInv, MdLoadFailed \/ MdFinish PROVE IInv'
  OBVIOUS
<1>1. /\ Histories' /\ OrderFlow' /\ Ascending' /\ UpdsReceived' = UpdsReceived
      /\ UpdsOut' = UpdsOut
  BY MdFrame DEF MdLoadFailed, MdFinish
<1>2. TypeOK'
  BY DEF IInv, TypeOK, MdLoadFailed, MdFinish, stratVars, riskVars
<1>3. UpdateFlow'
  BY <1>1 DEF IInv, UpdateFlow, Pushed, StopsLate, MdLoadFailed, MdFinish, stratVars
<1> QED BY <1>1, <1>2, <1>3 DEF IInv

LEMMA PushedGrows ==
    ASSUME IInv, pushed' = pushed + 1
    PROVE  Pushed' = Append(Pushed, pushed + 1)
<1>1. pushed \in Nat
  BY PipelineAssumption DEF IInv, TypeOK
<1>2. Pushed \in Seq(Nat) /\ Len(Pushed) = pushed
  BY <1>1 DEF Pushed
<1>3. Pushed' \in Seq(Nat) /\ Len(Pushed') = pushed + 1
  BY <1>1 DEF Pushed
<1>4. /\ Append(Pushed, pushed + 1) \in Seq(Nat)
      /\ Len(Append(Pushed, pushed + 1)) = pushed + 1
      /\ \A n \in 1..pushed : Append(Pushed, pushed + 1)[n] = Pushed[n]
      /\ Append(Pushed, pushed + 1)[pushed + 1] = pushed + 1
  BY <1>1, <1>2, AppendProperties
<1>5. \A n \in 1..(pushed + 1) : Pushed'[n] = Append(Pushed, pushed + 1)[n]
  <2> TAKE n \in 1..(pushed + 1)
  <2>1. Pushed'[n] = n
    BY <1>1 DEF Pushed
  <2>2. n \in 1..pushed => Pushed[n] = n
    BY DEF Pushed
  <2>3. n \in 1..pushed \/ n = pushed + 1
    BY <1>1
  <2> QED BY <2>1, <2>2, <2>3, <1>4
<1> QED BY <1>3, <1>4, <1>5, SeqEqual

LEMMA MdPushIInv == IInv /\ MdPush => IInv'
<1> SUFFICES ASSUME IInv, MdPush PROVE IInv'
  OBVIOUS
<1>1. /\ Histories' /\ OrderFlow' /\ Ascending' /\ UpdsReceived' = UpdsReceived
      /\ UpdsOut' = UpdsOut
  BY MdFrame DEF MdPush
<1>2. /\ pushed \in Nat /\ pushed + 1 \in 1..Updates /\ mdQ \in Seq(1..Updates)
      /\ mdQ' = Append(mdQ, pushed + 1) /\ pushed' = pushed + 1
      /\ Len(mdQ) < MdCapacity - 1 /\ MdCapacity \in Nat
  BY PipelineAssumption DEF IInv, TypeOK, MdPush
<1>3. mdQ' \in Seq(1..Updates) /\ Len(mdQ') = Len(mdQ) + 1 /\ Len(mdQ) \in Nat
  BY <1>2, AppendProperties, LenProperties
<1>4. TypeOK'
  <2>1. pushed' \in 0..Updates /\ Len(mdQ') < MdCapacity
    BY <1>2, <1>3, PipelineAssumption
  <2> QED BY <1>3, <2>1 DEF IInv, TypeOK, MdPush, stratVars, riskVars
<1>5. InFlight(Pushed, UpdsOut, mdQ)'
  <2>1. Pushed' = Append(Pushed, pushed + 1)
    BY <1>2, PushedGrows
  <2>2. InFlight(Append(Pushed, pushed + 1), UpdsOut, Append(mdQ, pushed + 1))
    BY <1>2, Views, FlowSend DEF IInv, UpdateFlow
  <2> QED BY <1>1, <1>2, <2>1, <2>2
<1>6. UpdateFlow'
  <2>1. md = "run" /\ UNCHANGED <<md, mdDone, strat, lostUpds, upd>>
    BY DEF MdPush, stratVars
  <2>2. ~mdDone /\ md' # "exit"
    BY <2>1 DEF IInv, UpdateFlow
  <2>3. StopsLate(strat, mdDone, mdQ, lostUpds)'
    BY <2>1, <2>2 DEF IInv, UpdateFlow, StopsLate
  <2> QED BY <1>1, <1>5, <2>1, <2>2, <2>3 DEF IInv, UpdateFlow
<1> QED BY <1>1, <1>4, <1>6 DEF IInv

-----------------------------------------------------------------------------
(* The strategy thread                                                     *)

LEMMA StratDrainIInv == IInv /\ StratDrain => IInv'
<1> SUFFICES ASSUME IInv, StratDrain PROVE IInv'
  OBVIOUS
<1> USE DEF mdVars, riskVars
<1>1. /\ UNCHANGED <<mdVars, mdDone, seen, taken, orderQ, stratDone, fired, riskVars>>
      /\ StratLoop!Drain
  BY DEF StratDrain
<1>2. OrdersReceived' = OrdersReceived /\ OrdersOut' = OrdersOut /\ Pushed' = Pushed
  BY <1>1 DEF OrdersReceived, OrdersOut, Pushed
<1>3. /\ mdQ \in Seq(1..Updates) /\ taken \in Seq(1..Updates)
      /\ lostUpds \in Seq(1..Updates) /\ UpdsOut \in Nat /\ Len(lostUpds) \in Nat
      /\ Pushed \in Seq(1..Updates) /\ InFlight(Pushed, UpdsOut, mdQ)
      /\ upd = UpdsOut /\ Len(mdQ) < MdCapacity /\ MdCapacity \in Nat
      /\ pushed \in Nat /\ pushed <= Updates /\ Len(Pushed) = pushed
      /\ \A n \in 1..pushed : Pushed[n] = n
  BY Views, LenProperties, PipelineAssumption DEF IInv, TypeOK, Histories, UpdateFlow
<1>4. CASE StratLoop!PopGot \/ StratLoop!SecondPopGot
  <2>1. /\ mdQ # <<>> /\ upd' = Head(mdQ) /\ mdQ' = Tail(mdQ)
        /\ strat \in {"pop", "again"} /\ strat' \in {"pop", "handle"}
        /\ strat' = "handle" => strat = "pop"
    BY <1>4 DEF StratLoop!PopGot, StratLoop!SecondPopGot
  <2>2. /\ InFlight(Pushed, UpdsOut + 1, Tail(mdQ))
        /\ Tail(mdQ) \in Seq(1..Updates) /\ Len(Tail(mdQ)) = Len(mdQ) - 1
        /\ Head(mdQ) \in 1..Updates /\ Head(mdQ) = Pushed[UpdsOut + 1]
        /\ UpdsOut + 1 \in 1..Len(Pushed)
    BY <1>3, <2>1, FlowTake
  <2>3. upd' = UpdsOut + 1 /\ upd' \in 1..Updates /\ upd < upd'
    BY <1>3, <2>1, <2>2
  <2>4. /\ UpdsOut' = UpdsOut + 1 /\ lostUpds' \in Seq(1..Updates)
        /\ UpdsReceived = taken
    <3>1. UpdsReceived = taken /\ UpdsOut = Len(taken) + Len(lostUpds)
      BY <2>1 DEF UpdsReceived, UpdsOut
    <3>2. CASE StratLoop!PopGot
      <4>1. UpdsReceived' = Append(taken, Head(mdQ)) /\ lostUpds' = lostUpds
        BY <1>1, <3>2 DEF StratLoop!PopGot, UpdsReceived
      <4>2. Len(UpdsReceived') = Len(taken) + 1 /\ Len(taken) \in Nat
        BY <1>3, <2>2, <4>1, AppendProperties, LenProperties
      <4> QED BY <1>3, <3>1, <4>1, <4>2 DEF UpdsOut
    <3>3. CASE StratLoop!SecondPopGot
      <4>1. UpdsReceived' = taken /\ lostUpds' = Append(lostUpds, Head(mdQ))
        BY <1>1, <3>3 DEF StratLoop!SecondPopGot, UpdsReceived
      <4>2. /\ Len(lostUpds') = Len(lostUpds) + 1 /\ Len(taken) \in Nat
            /\ lostUpds' \in Seq(1..Updates)
        BY <1>3, <2>2, <4>1, AppendProperties, LenProperties
      <4> QED BY <1>3, <3>1, <4>1, <4>2 DEF UpdsOut
    <3> QED BY <1>4, <3>1, <3>2, <3>3
  <2>5. TypeOK'
    <3>1. Len(Tail(mdQ)) < MdCapacity
      BY <1>3, <2>2, LenProperties
    <3>2. upd' \in 0..Updates
      BY <2>3, PipelineAssumption
    <3> QED BY <1>1, <2>1, <2>2, <3>1, <3>2 DEF IInv, TypeOK
  <2>6. Histories'
    BY <1>1, <2>1, <2>3, <2>4 DEF IInv, Histories
  <2>7. StopsLate(strat, mdDone, mdQ, lostUpds)'
    <3>1. CASE StratLoop!PopGot
      BY <1>1, <2>1, <3>1 DEF StratLoop!PopGot, IInv, UpdateFlow, StopsLate
    <3>2. CASE StratLoop!SecondPopGot
      <4>1. lostUpds = <<>> /\ mdDone /\ strat' = "pop"
        BY <2>1, <3>2 DEF StratLoop!SecondPopGot, IInv, UpdateFlow, StopsLate
      <4>2. lostUpds' = Append(lostUpds, Head(mdQ)) /\ Len(lostUpds') = 1
        BY <1>3, <2>2, <3>2, <4>1, AppendProperties, EmptySeq DEF StratLoop!SecondPopGot
      <4> QED BY <1>1, <4>1, <4>2 DEF StopsLate
    <3> QED BY <1>4, <3>1, <3>2
  <2>8. UpdateFlow'
    BY <1>1, <1>2, <2>1, <2>2, <2>3, <2>4, <2>7 DEF IInv, UpdateFlow
  <2>9. OrderFlow'
    <3>1. strat # "exit" /\ ~stratDone
      BY <2>1 DEF IInv, OrderFlow
    <3> QED BY <1>1, <1>2, <3>1 DEF IInv, OrderFlow
  <2>10. Ascending'
    <3>1. \A i \in DOMAIN fired : fired[i] < upd'
      <4> TAKE i \in DOMAIN fired
      <4>1. fired[i] <= upd /\ fired[i] \in Int
        BY PipelineAssumption, ElementOfSeq, LenProperties DEF IInv, Ascending, Histories
      <4> QED BY <1>3, <2>3, <4>1
    <3>2. \A i \in DOMAIN fired : fired[i] <= upd'
      <4> TAKE i \in DOMAIN fired
      <4>1. fired[i] \in Int
        BY PipelineAssumption, ElementOfSeq, LenProperties DEF IInv, Histories
      <4> QED BY <1>3, <2>3, <3>1, <4>1
    <3> QED BY <1>1, <1>2, <3>1, <3>2 DEF IInv, Ascending
  <2> QED BY <2>5, <2>6, <2>8, <2>9, <2>10 DEF IInv
<1>5. CASE \/ StratLoop!PopMissed \/ StratLoop!NotDone
           \/ StratLoop!SeenDone \/ StratLoop!SecondPopMissed
  <2>1. /\ UNCHANGED <<mdQ, upd, lostUpds>> /\ strat # "exit"
        /\ strat \notin {"handle", "publish"} /\ strat' \notin {"handle", "publish"}
        /\ strat' \in {"pop", "check", "again", "exit"}
    BY <1>5 DEF StratLoop!PopMissed, StratLoop!NotDone, StratLoop!SeenDone,
                StratLoop!SecondPopMissed
  <2>2. UpdsReceived' = UpdsReceived /\ UpdsOut' = UpdsOut
    BY <1>1, <2>1 DEF UpdsReceived, UpdsOut
  <2>3. TypeOK'
    BY <1>1, <2>1 DEF IInv, TypeOK
  <2>4. Histories'
    BY <1>1, <2>1 DEF IInv, Histories
  <2>5. StopsLate(strat, mdDone, mdQ, lostUpds)'
    BY <1>1, <1>5, <2>1 DEF StratLoop!PopMissed, StratLoop!NotDone, StratLoop!SeenDone,
                StratLoop!SecondPopMissed, IInv, UpdateFlow, StopsLate
  <2>6. UpdateFlow'
    BY <1>1, <1>2, <2>1, <2>2, <2>5 DEF IInv, UpdateFlow
  <2>7. OrderFlow'
    BY <1>1, <1>2, <2>1 DEF IInv, OrderFlow
  <2>8. Ascending'
    BY <1>1, <1>2, <2>1 DEF IInv, Ascending
  <2> QED BY <2>3, <2>4, <2>6, <2>7, <2>8 DEF IInv
<1> QED BY <1>1, <1>4, <1>5 DEF StratLoop!Drain

LEMMA StratHandleIInv == IInv /\ StratHandle => IInv'
<1> SUFFICES ASSUME IInv, StratHandle PROVE IInv'
  OBVIOUS
<1> USE DEF mdVars, riskVars
<1>1. /\ strat = "handle" /\ strat' \in {"publish", "pop"}
      /\ taken' = Append(taken, upd)
      /\ seen' = [seen EXCEPT ![SymbolOf(upd)] = @ + 1]
      /\ UNCHANGED <<mdVars, mdQ, mdDone, upd, lostUpds, orderQ, stratDone, fired, riskVars>>
  BY DEF StratHandle
<1>2. /\ OrdersReceived' = OrdersReceived /\ OrdersOut' = OrdersOut /\ Pushed' = Pushed
      /\ UpdsReceived' = UpdsReceived /\ UpdsOut' = UpdsOut
  BY <1>1 DEF OrdersReceived, OrdersOut, Pushed, UpdsReceived, UpdsOut
<1>3. /\ taken \in Seq(1..Updates) /\ upd \in 1..Updates /\ Len(taken) \in Nat
      /\ taken' \in Seq(1..Updates) /\ Len(taken') = Len(taken) + 1
      /\ Len(taken') <= Updates
  <2>1. taken \in Seq(1..Updates) /\ upd \in 1..Updates
    BY <1>1 DEF IInv, Histories
  <2>2. taken' \in Seq(1..Updates) /\ Len(taken') = Len(taken) + 1 /\ Len(taken) \in Nat
    BY <1>1, <2>1, AppendProperties, LenProperties
  <2>3. Len(UpdsReceived) = Len(taken')
    BY <1>1 DEF UpdsReceived
  <2>4. lostUpds \in Seq(1..Updates) /\ Len(lostUpds) \in Nat
    BY LenProperties DEF IInv, Histories
  <2>5. UpdsOut <= pushed /\ pushed <= Updates /\ pushed \in Nat /\ Updates \in Nat
    BY Views, PipelineAssumption DEF IInv, TypeOK
  <2> QED BY <2>1, <2>2, <2>3, <2>4, <2>5 DEF UpdsOut
<1>4. /\ seen' \in [Symbols -> 0..Updates]
      /\ \A s \in Symbols : seen'[s] <= Len(taken')
  <2>1. /\ seen \in [Symbols -> 0..Updates] /\ Updates \in Nat
        /\ \A s \in Symbols : seen[s] <= Len(taken)
    BY PipelineAssumption DEF IInv, TypeOK, Histories
  <2>2. \A s \in Symbols : /\ seen'[s] \in {seen[s], seen[s] + 1}
                           /\ seen[s] \in Nat
    BY <1>1, <2>1
  <2>3. \A s \in Symbols : seen'[s] <= Len(taken') /\ seen'[s] \in 0..Updates
    BY <1>3, <2>1, <2>2
  <2> QED BY <1>1, <2>1, <2>3
<1>5. TypeOK'
  BY <1>1, <1>4 DEF IInv, TypeOK
<1>6. Histories'
  BY <1>1, <1>3, <1>4 DEF IInv, Histories
<1>7. UpdateFlow'
  BY <1>1, <1>2 DEF IInv, UpdateFlow, StopsLate
<1>8. OrderFlow'
  BY <1>1, <1>2 DEF IInv, OrderFlow
<1>9. Ascending'
  BY <1>1, <1>2 DEF IInv, Ascending
<1> QED BY <1>5, <1>6, <1>7, <1>8, <1>9 DEF IInv

LEMMA StratPublishIInv == IInv /\ StratPublish => IInv'
<1> SUFFICES ASSUME IInv, StratPublish PROVE IInv'
  OBVIOUS
<1> USE DEF mdVars, riskVars
<1>1. /\ strat = "publish" /\ strat' = "pop" /\ Len(orderQ) < OrderCapacity - 1
      /\ orderQ' = Append(orderQ, upd) /\ fired' = Append(fired, upd)
      /\ UNCHANGED <<mdVars, mdQ, mdDone, upd, lostUpds, seen, taken, stratDone, riskVars>>
  BY DEF StratPublish
<1>2. /\ OrdersReceived' = OrdersReceived /\ OrdersOut' = OrdersOut /\ Pushed' = Pushed
      /\ UpdsReceived' = UpdsReceived /\ UpdsOut' = UpdsOut
  BY <1>1 DEF OrdersReceived, OrdersOut, Pushed, UpdsReceived, UpdsOut
<1>3. /\ upd \in 1..Updates /\ orderQ \in Seq(1..Updates) /\ fired \in Seq(1..Updates)
      /\ OrderCapacity \in Nat
  BY <1>1, PipelineAssumption DEF IInv, TypeOK, Histories
<1>4. /\ orderQ' \in Seq(1..Updates) /\ Len(orderQ') = Len(orderQ) + 1
      /\ Len(orderQ) \in Nat /\ Len(fired) \in Nat
      /\ fired' \in Seq(1..Updates) /\ Len(fired') = Len(fired) + 1
      /\ DOMAIN fired = 1..Len(fired) /\ DOMAIN fired' = 1..(Len(fired) + 1)
      /\ \A i \in 1..Len(fired) : fired'[i] = fired[i] /\ fired[i] \in 1..Updates
      /\ fired'[Len(fired) + 1] = upd
  <2>1. /\ orderQ' \in Seq(1..Updates) /\ Len(orderQ') = Len(orderQ) + 1
        /\ fired' \in Seq(1..Updates) /\ Len(fired') = Len(fired) + 1
        /\ \A i \in 1..Len(fired) : fired'[i] = fired[i]
        /\ fired'[Len(fired) + 1] = upd
    BY <1>1, <1>3, AppendProperties
  <2>2. /\ Len(orderQ) \in Nat /\ Len(fired) \in Nat /\ DOMAIN fired = 1..Len(fired)
        /\ DOMAIN fired' = 1..Len(fired')
    BY <1>3, <2>1, LenProperties
  <2>3. \A i \in 1..Len(fired) : fired[i] \in 1..Updates
    BY <1>3, ElementOfSeq
  <2> QED BY <2>1, <2>2, <2>3
<1>5. TypeOK'
  <2>1. Len(orderQ') < OrderCapacity
    BY <1>1, <1>3, <1>4
  <2> QED BY <1>1, <1>4, <2>1 DEF IInv, TypeOK
<1>6. Histories'
  BY <1>1, <1>4 DEF IInv, Histories
<1>7. UpdateFlow'
  BY <1>1, <1>2 DEF IInv, UpdateFlow, StopsLate
<1>8. OrderFlow'
  <2>1. InFlight(fired', OrdersOut, orderQ')
    BY <1>1, <1>3, Views, FlowSend DEF IInv, OrderFlow
  <2>2. ~stratDone
    BY <1>1 DEF IInv, OrderFlow
  <2>3. StopsLate(risk, stratDone, orderQ, lostOrders)'
    BY <1>1, <2>2 DEF IInv, OrderFlow, StopsLate
  <2> QED BY <1>1, <1>2, <2>1, <2>2, <2>3 DEF OrderFlow
<1>9. Ascending'
  <2>1. \A i \in DOMAIN fired : fired[i] < upd
    BY <1>1 DEF IInv, Ascending
  <2>2. \A i \in DOMAIN fired' : fired'[i] <= upd'
    <3> TAKE i \in DOMAIN fired'
    <3>1. CASE i \in DOMAIN fired
      BY <1>1, <1>3, <1>4, <2>1, <3>1
    <3>2. CASE i = Len(fired) + 1
      BY <1>1, <1>3, <1>4, <3>2
    <3> QED BY <1>4, <3>1, <3>2
  <2>3. \A i, j \in DOMAIN fired' : i < j => fired'[i] < fired'[j]
    <3> SUFFICES ASSUME NEW i \in DOMAIN fired', NEW j \in DOMAIN fired', i < j
                 PROVE  fired'[i] < fired'[j]
      OBVIOUS
    <3>1. i \in DOMAIN fired
      BY <1>4
    <3>2. CASE j \in DOMAIN fired
      BY <1>4, <3>1, <3>2 DEF IInv, Ascending
    <3>3. CASE j = Len(fired) + 1
      BY <1>4, <2>1, <3>1, <3>3
    <3> QED BY <1>4, <3>2, <3>3
  <2>4. \A k \in 1..OrdersOut : fired'[k] = fired[k]
    <3>1. OrdersOut \in Nat /\ OrdersOut <= Len(fired)
      BY <1>3, <1>4, Views, FlowItems DEF IInv, OrderFlow
    <3> QED BY <1>4, <3>1
  <2>5. \A i \in DOMAIN OrdersReceived :
          \E k \in 1..OrdersOut : OrdersReceived[i] = fired'[k]
    BY <2>4 DEF IInv, Ascending
  <2> QED BY <1>1, <1>2, <2>2, <2>3, <2>5 DEF IInv, Ascending
<1> QED BY <1>5, <1>6, <1>7, <1>8, <1>9 DEF IInv

LEMMA StratFinishIInv == IInv /\ StratFinish => IInv'
<1> SUFFICES ASSUME IInv, StratFinish PROVE IInv'
  OBVIOUS
<1> USE DEF mdVars, riskVars, stratVars
<1>1. /\ strat = "exit" /\ stratDone' = TRUE
      /\ UNCHANGED <<mdVars, mdQ, mdDone, stratVars, orderQ, fired, riskVars>>
  BY DEF StratFinish
<1>2. /\ OrdersReceived' = OrdersReceived /\ OrdersOut' = OrdersOut /\ Pushed' = Pushed
      /\ UpdsReceived' = UpdsReceived /\ UpdsOut' = UpdsOut
  BY <1>1 DEF OrdersReceived, OrdersOut, Pushed, UpdsReceived, UpdsOut
<1>3. TypeOK' /\ Histories'
  BY <1>1 DEF IInv, TypeOK, Histories
<1>4. UpdateFlow' /\ Ascending'
  BY <1>1, <1>2 DEF IInv, UpdateFlow, Ascending
<1>5. OrderFlow'
  BY <1>1, <1>2 DEF IInv, OrderFlow, StopsLate
<1> QED BY <1>3, <1>4, <1>5 DEF IInv

-----------------------------------------------------------------------------
(* The risk thread                                                         *)

LEMMA RiskFrame ==
    ASSUME IInv, UNCHANGED <<mdVars, mdQ, mdDone, stratVars, stratDone, fired>>
    PROVE  UpdateFlow' /\ Pushed' = Pushed
BY DEF IInv, UpdateFlow, Pushed, UpdsOut, UpdsReceived, mdVars, stratVars

LEMMA RiskDrainIInv == IInv /\ RiskDrain => IInv'
<1> SUFFICES ASSUME IInv, RiskDrain PROVE IInv'
  OBVIOUS
<1>1. /\ UNCHANGED <<mdVars, mdQ, mdDone, stratVars, stratDone, fired, handled>>
      /\ RiskLoop!Drain
  BY DEF RiskDrain
<1>2. UpdateFlow'
  BY <1>1, RiskFrame
<1> USE DEF mdVars, stratVars
<1>3. /\ orderQ \in Seq(1..Updates) /\ handled \in Seq(1..Updates)
      /\ lostOrders \in Seq(1..Updates) /\ OrdersOut \in Nat /\ Len(lostOrders) \in Nat
      /\ Len(handled) \in Nat /\ OrdersReceived \in Seq(1..Updates)
      /\ fired \in Seq(1..Updates) /\ InFlight(fired, OrdersOut, orderQ)
      /\ Len(orderQ) < OrderCapacity /\ OrderCapacity \in Nat
  BY Views, LenProperties, PipelineAssumption DEF IInv, TypeOK, Histories, OrderFlow
<1>4. CASE RiskLoop!PopGot \/ RiskLoop!SecondPopGot
  <2>1. /\ orderQ # <<>> /\ so' = Head(orderQ) /\ orderQ' = Tail(orderQ)
        /\ risk \in {"pop", "again"} /\ risk' \in {"pop", "handle"}
        /\ risk' = "handle" => risk = "pop"
    BY <1>4 DEF RiskLoop!PopGot, RiskLoop!SecondPopGot
  <2>2. /\ InFlight(fired, OrdersOut + 1, Tail(orderQ))
        /\ Tail(orderQ) \in Seq(1..Updates) /\ Len(Tail(orderQ)) = Len(orderQ) - 1
        /\ Head(orderQ) \in 1..Updates /\ Head(orderQ) = fired[OrdersOut + 1]
        /\ OrdersOut + 1 \in 1..Len(fired)
    BY <1>3, <2>1, FlowTake
  <2>3. OrdersReceived = handled /\ OrdersOut = Len(handled) + Len(lostOrders)
    BY <2>1 DEF OrdersReceived, OrdersOut
  <2>4. \A i \in DOMAIN handled :
          /\ handled[i] < Head(orderQ)
          /\ \E k \in 1..(OrdersOut + 1) : handled[i] = fired[k]
    <3> TAKE i \in DOMAIN handled
    <3>1. PICK k \in 1..OrdersOut : handled[i] = fired[k]
      BY <2>3 DEF IInv, Ascending
    <3>2. k \in DOMAIN fired /\ OrdersOut + 1 \in DOMAIN fired /\ k < OrdersOut + 1
      BY <1>3, <2>2, LenProperties
    <3>3. fired[k] < fired[OrdersOut + 1]
      BY <3>2 DEF IInv, Ascending
    <3>4. handled[i] < Head(orderQ)
      BY <2>2, <3>1, <3>3
    <3>5. k \in 1..(OrdersOut + 1)
      BY <1>3
    <3> QED BY <3>1, <3>4, <3>5
  <2>5. /\ lostOrders' \in Seq(1..Updates) /\ OrdersOut' = OrdersOut + 1
        /\ \A i \in DOMAIN OrdersReceived' :
              \E k \in 1..(OrdersOut + 1) : OrdersReceived'[i] = fired[k]
        /\ \A i, j \in DOMAIN OrdersReceived' :
              i < j => OrdersReceived'[i] < OrdersReceived'[j]
    <3>1. CASE RiskLoop!PopGot
      <4>1. OrdersReceived' = Append(handled, Head(orderQ)) /\ lostOrders' = lostOrders
        BY <1>1, <3>1 DEF RiskLoop!PopGot, OrdersReceived
      <4>2. /\ Len(OrdersReceived') = Len(handled) + 1
            /\ DOMAIN OrdersReceived' = 1..(Len(handled) + 1)
            /\ DOMAIN handled = 1..Len(handled)
            /\ \A i \in 1..Len(handled) : OrdersReceived'[i] = handled[i]
            /\ OrdersReceived'[Len(handled) + 1] = Head(orderQ)
        BY <1>3, <2>2, <4>1, AppendProperties, LenProperties
      <4>3. OrdersOut' = OrdersOut + 1
        BY <1>3, <2>3, <4>1, <4>2 DEF OrdersOut
      <4>4. \A i \in DOMAIN OrdersReceived' :
              \E k \in 1..(OrdersOut + 1) : OrdersReceived'[i] = fired[k]
        <5> TAKE i \in DOMAIN OrdersReceived'
        <5>1. CASE i \in DOMAIN handled
          BY <2>4, <4>2, <5>1
        <5>2. CASE i = Len(handled) + 1
          BY <1>3, <2>2, <4>2, <5>2
        <5> QED BY <1>3, <4>2, <5>1, <5>2
      <4>5. \A i, j \in DOMAIN OrdersReceived' :
              i < j => OrdersReceived'[i] < OrdersReceived'[j]
        <5> SUFFICES ASSUME NEW i \in DOMAIN OrdersReceived',
                            NEW j \in DOMAIN OrdersReceived', i < j
                     PROVE  OrdersReceived'[i] < OrdersReceived'[j]
          OBVIOUS
        <5>1. i \in DOMAIN handled
          BY <1>3, <4>2
        <5>2. CASE j \in DOMAIN handled
          BY <2>3, <4>2, <5>1, <5>2 DEF IInv, Ascending
        <5>3. CASE j = Len(handled) + 1
          BY <2>4, <4>2, <5>1, <5>3
        <5> QED BY <1>3, <4>2, <5>2, <5>3
      <4> QED BY <1>3, <4>1, <4>3, <4>4, <4>5
    <3>2. CASE RiskLoop!SecondPopGot
      <4>1. OrdersReceived' = handled /\ lostOrders' = Append(lostOrders, Head(orderQ))
        BY <1>1, <3>2 DEF RiskLoop!SecondPopGot, OrdersReceived
      <4>2. lostOrders' \in Seq(1..Updates) /\ Len(lostOrders') = Len(lostOrders) + 1
        BY <1>3, <2>2, <4>1, AppendProperties
      <4>3. OrdersOut' = OrdersOut + 1
        BY <1>3, <2>3, <4>1, <4>2 DEF OrdersOut
      <4>4. \A i, j \in DOMAIN handled : i < j => handled[i] < handled[j]
        BY <2>3 DEF IInv, Ascending
      <4> QED BY <2>4, <4>1, <4>2, <4>3, <4>4
    <3> QED BY <1>4, <3>1, <3>2
  <2>6. TypeOK'
    <3>1. Len(Tail(orderQ)) < OrderCapacity
      BY <1>3, <2>2, LenProperties
    <3>2. so' \in 0..Updates
      BY <2>1, <2>2, PipelineAssumption
    <3> QED BY <1>1, <2>1, <2>2, <3>1, <3>2 DEF IInv, TypeOK
  <2>7. Histories'
    BY <1>1, <2>1, <2>2, <2>5 DEF IInv, Histories
  <2>8. StopsLate(risk, stratDone, orderQ, lostOrders)'
    <3>1. CASE RiskLoop!PopGot
      BY <1>1, <2>1, <3>1 DEF RiskLoop!PopGot, IInv, OrderFlow, StopsLate
    <3>2. CASE RiskLoop!SecondPopGot
      <4>1. lostOrders = <<>> /\ stratDone /\ risk' = "pop"
        BY <2>1, <3>2 DEF RiskLoop!SecondPopGot, IInv, OrderFlow, StopsLate
      <4>2. lostOrders' = Append(lostOrders, Head(orderQ)) /\ Len(lostOrders') = 1
        BY <1>3, <2>2, <3>2, <4>1, AppendProperties, EmptySeq DEF RiskLoop!SecondPopGot
      <4> QED BY <1>1, <4>1, <4>2 DEF StopsLate
    <3> QED BY <1>4, <3>1, <3>2
  <2>9. OrderFlow'
    BY <1>1, <2>1, <2>2, <2>5, <2>8 DEF IInv, OrderFlow
  <2>10. Ascending'
    BY <1>1, <2>5 DEF IInv, Ascending
  <2> QED BY <1>2, <2>6, <2>7, <2>9, <2>10 DEF IInv
<1>5. CASE \/ RiskLoop!PopMissed \/ RiskLoop!NotDone
           \/ RiskLoop!SeenDone \/ RiskLoop!SecondPopMissed
  <2>1. /\ UNCHANGED <<orderQ, so, lostOrders>> /\ risk # "exit"
        /\ risk # "handle" /\ risk' # "handle"
        /\ risk' \in {"pop", "check", "again", "exit"}
    BY <1>5 DEF RiskLoop!PopMissed, RiskLoop!NotDone, RiskLoop!SeenDone,
                RiskLoop!SecondPopMissed
  <2>2. OrdersReceived' = OrdersReceived /\ OrdersOut' = OrdersOut
    BY <1>1, <2>1 DEF OrdersReceived, OrdersOut
  <2>3. TypeOK'
    BY <1>1, <2>1 DEF IInv, TypeOK
  <2>4. Histories'
    BY <1>1, <2>1 DEF IInv, Histories
  <2>5. StopsLate(risk, stratDone, orderQ, lostOrders)'
    BY <1>1, <1>5, <2>1 DEF RiskLoop!PopMissed, RiskLoop!NotDone, RiskLoop!SeenDone,
                RiskLoop!SecondPopMissed, IInv, OrderFlow, StopsLate
  <2>6. OrderFlow'
    BY <1>1, <2>1, <2>2, <2>5 DEF IInv, OrderFlow
  <2>7. Ascending'
    BY <1>1, <2>1, <2>2 DEF IInv, Ascending
  <2> QED BY <1>2, <2>3, <2>4, <2>6, <2>7 DEF IInv
<1> QED BY <1>1, <1>4, <1>5 DEF RiskLoop!Drain

LEMMA RiskHandleIInv == IInv /\ RiskHandle => IInv'
<1> SUFFICES ASSUME IInv, RiskHandle PROVE IInv'
  OBVIOUS
<1>1. /\ risk = "handle" /\ risk' = "pop" /\ handled' = Append(handled, so)
      /\ UNCHANGED <<mdVars, mdQ, mdDone, stratVars, orderQ, stratDone, fired, so,
                     lostOrders>>
  BY DEF RiskHandle
<1>2. UpdateFlow'
  BY <1>1, RiskFrame
<1> USE DEF mdVars, stratVars
<1>3. OrdersReceived' = OrdersReceived /\ OrdersOut' = OrdersOut
  BY <1>1 DEF OrdersReceived, OrdersOut
<1>4. TypeOK'
  BY <1>1 DEF IInv, TypeOK
<1>5. Histories'
  <2>1. handled' \in Seq(1..Updates)
    BY <1>1, AppendProperties DEF IInv, Histories
  <2> QED BY <1>1, <2>1 DEF IInv, Histories
<1>6. OrderFlow'
  BY <1>1, <1>3 DEF IInv, OrderFlow, StopsLate
<1>7. Ascending'
  BY <1>1, <1>3 DEF IInv, Ascending
<1> QED BY <1>2, <1>4, <1>5, <1>6, <1>7 DEF IInv

-----------------------------------------------------------------------------

LEMMA StutterIInv == IInv /\ UNCHANGED vars => IInv'
<1> SUFFICES ASSUME IInv, UNCHANGED vars PROVE IInv'
  OBVIOUS
<1> USE DEF vars, mdVars, stratVars, riskVars
<1>1. UpdateFlow' /\ Pushed' = Pushed
  BY RiskFrame
<1>2. OrdersReceived' = OrdersReceived /\ OrdersOut' = OrdersOut
  BY DEF OrdersReceived, OrdersOut
<1>3. TypeOK' /\ Histories'
  BY DEF IInv, TypeOK, Histories
<1>4. OrderFlow' /\ Ascending'
  BY <1>2 DEF IInv, OrderFlow, Ascending
<1> QED BY <1>1, <1>3, <1>4 DEF IInv

LEMMA NextIInv == IInv /\ [Next]_vars => IInv'
<1> SUFFICES ASSUME IInv, [Next]_vars PROVE IInv'
  OBVIOUS
<1>1. CASE MdThread
  BY <1>1, MdLoadedIInv, MdEndIInv, MdPushIInv DEF MdThread
<1>2. CASE StratThread
  BY <1>2, StratDrainIInv, StratHandleIInv, StratPublishIInv, StratFinishIInv
     DEF StratThread
<1>3. CASE RiskThread
  BY <1>3, RiskDrainIInv, RiskHandleIInv DEF RiskThread
<1>4. CASE UNCHANGED vars
  BY <1>4, StutterIInv
<1> QED BY <1>1, <1>2, <1>3, <1>4 DEF Next, Joined

(***************************************************************************)
(* The items in flight, the flags and the order of the order stream, in    *)
(* every reachable state of live_sim_mt's three threads.                   *)
(***************************************************************************)
THEOREM Invariance == Spec => []IInv
<1> QED BY InitIInv, NextIInv, PTL DEF Spec

(***************************************************************************)
(* Every variable has its type: in particular neither ring ever holds more *)
(* than Capacity - 1 items, and no symbol is seen more often than ticked.  *)
(***************************************************************************)
THEOREM TypeCorrect == Spec => []TypeOK
<1>1. IInv => TypeOK
  BY DEF IInv
<1> QED BY <1>1, Invariance, PTL

(***************************************************************************)
(* The orders booked stem from later and later updates, and when the       *)
(* threads have ended, the orders and updates sent and used differ by at   *)
(* most the one each consumer threw away.                                  *)
(***************************************************************************)
THEOREM EndsAccounted == Spec => []EndToEnd
<1>1. IInv => EndToEnd
  <2> SUFFICES ASSUME IInv PROVE EndToEnd
    OBVIOUS
  <2>1. handled \in Seq(1..Updates) /\ Len(handled) \in Nat /\ DOMAIN handled = 1..Len(handled)
    BY LenProperties DEF IInv, Histories
  <2>2. \A i, j \in DOMAIN handled : i < j => handled[i] < handled[j]
    <3>1. CASE risk = "handle"
      <4>1. OrdersReceived = Append(handled, so) /\ so \in 1..Updates
        BY <3>1 DEF OrdersReceived, IInv, Histories
      <4>2. /\ DOMAIN OrdersReceived = 1..(Len(handled) + 1)
            /\ \A i \in 1..Len(handled) : OrdersReceived[i] = handled[i]
        BY <2>1, <4>1, AppendProperties, LenProperties
      <4>3. \A i \in DOMAIN handled : i \in DOMAIN OrdersReceived
        BY <2>1, <4>2
      <4> QED BY <2>1, <4>2, <4>3 DEF IInv, Ascending
    <3>2. CASE risk # "handle"
      BY <3>2 DEF OrdersReceived, IInv, Ascending
    <3> QED BY <3>1, <3>2
  <2>3. ASSUME risk = "exit"
        PROVE  /\ md = "exit" /\ stratDone /\ mdQ = <<>> /\ orderQ = <<>>
               /\ Len(fired) = Len(handled) + Len(lostOrders)
               /\ pushed = Len(taken) + Len(lostUpds)
    <3>1. stratDone /\ orderQ = <<>>
      BY <2>3 DEF IInv, OrderFlow, StopsLate
    <3>2. strat = "exit" /\ mdQ = <<>> /\ md = "exit"
      BY <3>1 DEF IInv, OrderFlow, UpdateFlow, StopsLate
    <3>3. OrdersOut = Len(handled) + Len(lostOrders) /\ UpdsOut = Len(taken) + Len(lostUpds)
      BY <2>3, <3>2 DEF OrdersOut, OrdersReceived, UpdsOut, UpdsReceived
    <3>4. fired \in Seq(1..Updates) /\ orderQ \in Seq(1..Updates) /\ mdQ \in Seq(1..Updates)
      BY DEF IInv, TypeOK, Histories
    <3>5. OrdersOut = Len(fired)
      BY <3>1, <3>4, Views, FlowEmpty DEF IInv, OrderFlow
    <3>6. UpdsOut = pushed
      BY <3>2, <3>4, Views, FlowEmpty DEF IInv, UpdateFlow
    <3> QED BY <3>1, <3>2, <3>3, <3>5, <3>6
  <2> QED BY <2>2, <2>3 DEF EndToEnd
<1> QED BY <1>1, Invariance, PTL

-----------------------------------------------------------------------------
(* Each stage is a hand-off                                                *)

\* Every step of live_sim_mt is, for what the strategy gets of the market
\* data thread, a step of HandOff or none.
LEMMA NextHandsUpdates ==
    ASSUME IInv, [Next]_vars
    PROVE  [UpdateHandOff!Next]_(UpdateHandOff!vars)
<1> DEFINE Same == UNCHANGED <<Pushed, UpdsReceived, lostUpds, mdDone, strat>>
<1>0. Same => UNCHANGED UpdateHandOff!vars
  BY DEF UpdateHandOff!vars
<1>1. /\ taken \in Seq(1..Updates) /\ mdQ \in Seq(1..Updates)
      /\ lostUpds \in Seq(1..Updates) /\ UpdsOut \in Nat
      /\ Pushed \in Seq(1..Updates) /\ InFlight(Pushed, UpdsOut, mdQ)
      /\ UpdateHandOff!Taken = UpdsOut
  BY Views DEF IInv, TypeOK, Histories, UpdateFlow, UpdateHandOff!Taken, UpdsOut
<1>2. CASE MdLoaded
  <2>1. Same
    BY <1>2 DEF MdLoaded, Pushed, UpdsReceived, stratVars
  <2> QED BY <1>0, <2>1
<1>3. CASE MdLoadFailed \/ MdFinish
  <2>1. UNCHANGED <<Pushed, UpdsReceived, lostUpds, strat>>
    BY <1>3 DEF MdLoadFailed, MdFinish, Pushed, UpdsReceived, stratVars
  <2>2. ~mdDone /\ mdDone' = TRUE
    BY <1>3 DEF MdLoadFailed, MdFinish, IInv, UpdateFlow
  <2>3. UpdateHandOff!Close
    BY <2>1, <2>2 DEF UpdateHandOff!Close
  <2> QED BY <2>3 DEF UpdateHandOff!Next
<1>4. CASE MdPush
  <2>1. UNCHANGED <<UpdsReceived, lostUpds, strat, mdDone>> /\ ~mdDone
    BY <1>4 DEF MdPush, UpdsReceived, stratVars, IInv, UpdateFlow
  <2>2. Pushed' = Append(Pushed, pushed + 1) /\ pushed + 1 \in 1..Updates
    BY <1>4, PushedGrows, PipelineAssumption DEF MdPush, IInv, TypeOK
  <2>3. UpdateHandOff!Send(pushed + 1)
    BY <2>1, <2>2 DEF UpdateHandOff!Send
  <2> QED BY <2>2, <2>3 DEF UpdateHandOff!Next
<1>5. CASE StratDrain
  <2>1. UNCHANGED <<Pushed, mdDone, taken>> /\ StratLoop!Drain
    BY <1>5 DEF StratDrain, Pushed, mdVars
  <2>2. ASSUME mdQ # <<>>
        PROVE  Head(mdQ) = Pushed[UpdsOut + 1] /\ UpdsOut < Len(Pushed)
    <3>1. Head(mdQ) = Pushed[UpdsOut + 1]
      BY <1>1, <2>2, FlowTake
    <3>2. UpdsOut < Len(Pushed)
      BY <1>1, <2>2, FlowEmpty
    <3> QED BY <3>1, <3>2
  <2>3. CASE StratLoop!PopGot
    <3>1. /\ strat = "pop" /\ strat' = "handle" /\ UpdsReceived = taken
          /\ UpdsReceived' = Append(taken, Head(mdQ)) /\ UNCHANGED lostUpds
          /\ mdQ # <<>>
      BY <2>1, <2>3 DEF StratLoop!PopGot, UpdsReceived
    <3>2. UpdateHandOff!Receive
      BY <1>1, <2>1, <2>2, <3>1 DEF UpdateHandOff!Receive
    <3> QED BY <3>2 DEF UpdateHandOff!Next
  <2>4. CASE StratLoop!SecondPopGot
    <3>1. /\ strat = "again" /\ strat' = "pop" /\ UNCHANGED UpdsReceived
          /\ lostUpds' = Append(lostUpds, Head(mdQ)) /\ mdQ # <<>>
      BY <2>1, <2>4 DEF StratLoop!SecondPopGot, UpdsReceived
    <3>2. mdDone /\ lostUpds = <<>>
      BY <3>1 DEF IInv, UpdateFlow, StopsLate
    <3>3. lostUpds' = <<Head(mdQ)>>
      BY <3>1, <3>2
    <3>4. UpdateHandOff!Lose
      BY <1>1, <2>1, <2>2, <3>1, <3>2, <3>3 DEF UpdateHandOff!Lose
    <3> QED BY <3>4 DEF UpdateHandOff!Next
  <2>5. CASE StratLoop!SecondPopMissed
    <3>1. /\ strat = "again" /\ strat' = "exit" /\ UNCHANGED <<UpdsReceived, lostUpds>>
          /\ mdQ = <<>>
      BY <2>1, <2>5 DEF StratLoop!SecondPopMissed, UpdsReceived
    <3>2. mdDone /\ UpdsOut = Len(Pushed)
      BY <1>1, <3>1, FlowEmpty DEF IInv, UpdateFlow, StopsLate
    <3>3. UpdateHandOff!Finish
      BY <1>1, <2>1, <3>1, <3>2 DEF UpdateHandOff!Finish
    <3> QED BY <3>3 DEF UpdateHandOff!Next
  <2>6. CASE StratLoop!PopMissed \/ StratLoop!NotDone \/ StratLoop!SeenDone
    <3>1. /\ strat # "exit" /\ strat' # "exit" /\ UNCHANGED <<UpdsReceived, lostUpds>>
      BY <2>1, <2>6
         DEF StratLoop!PopMissed, StratLoop!NotDone, StratLoop!SeenDone, UpdsReceived
    <3> QED BY <2>1, <3>1 DEF UpdateHandOff!vars
  <2> QED BY <2>1, <2>3, <2>4, <2>5, <2>6 DEF StratLoop!Drain
<1>6. CASE StratHandle \/ StratPublish \/ StratFinish \/ RiskThread \/ UNCHANGED vars
  <2>1. UNCHANGED <<Pushed, UpdsReceived, lostUpds, mdDone>>
    BY <1>6 DEF StratHandle, StratPublish, StratFinish, RiskThread, RiskDrain, RiskHandle,
                vars, mdVars, stratVars, Pushed, UpdsReceived
  <2>2. (strat = "exit")' = (strat = "exit")
    BY <1>6 DEF StratHandle, StratPublish, StratFinish, RiskThread, RiskDrain, RiskHandle,
                vars, stratVars
  <2> QED BY <2>1, <2>2 DEF UpdateHandOff!vars
<1> QED BY <1>2, <1>3, <1>4, <1>5, <1>6 DEF Next, MdThread, StratThread, Joined

\* The same of what the risk thread gets of the strategy
LEMMA NextHandsOrders ==
    ASSUME IInv, [Next]_vars
    PROVE  [OrderHandOff!Next]_(OrderHandOff!vars)
<1>1. /\ handled \in Seq(1..Updates) /\ orderQ \in Seq(1..Updates)
      /\ lostOrders \in Seq(1..Updates) /\ OrdersOut \in Nat
      /\ fired \in Seq(1..Updates) /\ InFlight(fired, OrdersOut, orderQ)
      /\ OrderHandOff!Taken = OrdersOut
  BY Views DEF IInv, TypeOK, Histories, OrderFlow, OrderHandOff!Taken, OrdersOut
<1>2. CASE MdThread \/ StratDrain \/ StratHandle \/ UNCHANGED vars
  <2>1. UNCHANGED <<fired, OrdersReceived, lostOrders, stratDone, risk>>
    BY <1>2 DEF MdThread, MdLoaded, MdLoadFailed, MdPush, MdFinish, StratDrain,
                StratHandle, vars, riskVars, OrdersReceived
  <2> QED BY <2>1 DEF OrderHandOff!vars
<1>3. CASE StratPublish
  <2>1. /\ UNCHANGED <<OrdersReceived, lostOrders, stratDone, risk>>
        /\ fired' = Append(fired, upd)
    BY <1>3 DEF StratPublish, riskVars, OrdersReceived
  <2>2. ~stratDone /\ upd \in 1..Updates
    BY <1>3 DEF StratPublish, IInv, OrderFlow, Histories
  <2>3. OrderHandOff!Send(upd)
    BY <2>1, <2>2 DEF OrderHandOff!Send
  <2> QED BY <2>2, <2>3 DEF OrderHandOff!Next
<1>4. CASE StratFinish
  <2>1. /\ UNCHANGED <<fired, OrdersReceived, lostOrders, risk>>
        /\ ~stratDone /\ stratDone' = TRUE
    BY <1>4 DEF StratFinish, riskVars, OrdersReceived
  <2>2. OrderHandOff!Close
    BY <2>1 DEF OrderHandOff!Close
  <2> QED BY <2>2 DEF OrderHandOff!Next
<1>5. CASE RiskDrain
  <2>1. UNCHANGED <<fired, stratDone, handled>> /\ RiskLoop!Drain
    BY <1>5 DEF RiskDrain
  <2>2. ASSUME orderQ # <<>>
        PROVE  Head(orderQ) = fired[OrdersOut + 1] /\ OrdersOut < Len(fired)
    <3>1. Head(orderQ) = fired[OrdersOut + 1]
      BY <1>1, <2>2, FlowTake
    <3>2. OrdersOut < Len(fired)
      BY <1>1, <2>2, FlowEmpty
    <3> QED BY <3>1, <3>2
  <2>3. CASE RiskLoop!PopGot
    <3>1. /\ risk = "pop" /\ risk' = "handle" /\ OrdersReceived = handled
          /\ OrdersReceived' = Append(handled, Head(orderQ)) /\ UNCHANGED lostOrders
          /\ orderQ # <<>>
      BY <2>1, <2>3 DEF RiskLoop!PopGot, OrdersReceived
    <3>2. OrderHandOff!Receive
      BY <1>1, <2>1, <2>2, <3>1 DEF OrderHandOff!Receive
    <3> QED BY <3>2 DEF OrderHandOff!Next
  <2>4. CASE RiskLoop!SecondPopGot
    <3>1. /\ risk = "again" /\ risk' = "pop" /\ UNCHANGED OrdersReceived
          /\ lostOrders' = Append(lostOrders, Head(orderQ)) /\ orderQ # <<>>
      BY <2>1, <2>4 DEF RiskLoop!SecondPopGot, OrdersReceived
    <3>2. stratDone /\ lostOrders = <<>>
      BY <3>1 DEF IInv, OrderFlow, StopsLate
    <3>3. lostOrders' = <<Head(orderQ)>>
      BY <3>1, <3>2
    <3>4. OrderHandOff!Lose
      BY <1>1, <2>1, <2>2, <3>1, <3>2, <3>3 DEF OrderHandOff!Lose
    <3> QED BY <3>4 DEF OrderHandOff!Next
  <2>5. CASE RiskLoop!SecondPopMissed
    <3>1. /\ risk = "again" /\ risk' = "exit" /\ UNCHANGED <<OrdersReceived, lostOrders>>
          /\ orderQ = <<>>
      BY <2>1, <2>5 DEF RiskLoop!SecondPopMissed, OrdersReceived
    <3>2. stratDone /\ OrdersOut = Len(fired)
      BY <1>1, <3>1, FlowEmpty DEF IInv, OrderFlow, StopsLate
    <3>3. OrderHandOff!Finish
      BY <1>1, <2>1, <3>1, <3>2 DEF OrderHandOff!Finish
    <3> QED BY <3>3 DEF OrderHandOff!Next
  <2>6. CASE RiskLoop!PopMissed \/ RiskLoop!NotDone \/ RiskLoop!SeenDone
    <3>1. /\ risk # "exit" /\ risk' # "exit" /\ UNCHANGED <<OrdersReceived, lostOrders>>
      BY <2>1, <2>6
         DEF RiskLoop!PopMissed, RiskLoop!NotDone, RiskLoop!SeenDone, OrdersReceived
    <3> QED BY <2>1, <3>1 DEF OrderHandOff!vars
  <2> QED BY <2>1, <2>3, <2>4, <2>5, <2>6 DEF RiskLoop!Drain
<1>6. CASE RiskHandle
  <2>1. /\ UNCHANGED <<fired, OrdersReceived, lostOrders, stratDone>>
        /\ risk # "exit" /\ risk' # "exit"
    BY <1>6 DEF RiskHandle, OrdersReceived
  <2> QED BY <2>1 DEF OrderHandOff!vars
<1> QED BY <1>2, <1>3, <1>4, <1>5, <1>6 DEF Next, StratThread, RiskThread, Joined

LEMMA InitHandsOff == Init => UpdateHandOff!Init /\ OrderHandOff!Init
<1> SUFFICES ASSUME Init PROVE UpdateHandOff!Init /\ OrderHandOff!Init
  OBVIOUS
<1>1. UpdsReceived = <<>> /\ OrdersReceived = <<>> /\ Pushed = <<>>
  BY DEF Init, UpdsReceived, OrdersReceived, Pushed
<1> QED BY <1>1 DEF Init, UpdateHandOff!Init, OrderHandOff!Init

(***************************************************************************)
(* Market data to strategy is a hand-off: in order, at most once, and at   *)
(* most one update thrown away, after the market data thread has ended.    *)
(***************************************************************************)
THEOREM UpdatesAreHandedOver == Spec => UpdatesHandedOver
<1>1. Init => UpdateHandOff!Init
  BY InitHandsOff
<1>2. IInv /\ [Next]_vars => [UpdateHandOff!Next]_(UpdateHandOff!vars)
  BY NextHandsUpdates
<1> QED BY <1>1, <1>2, Invariance, PTL DEF Spec, UpdatesHandedOver, UpdateHandOff!Spec

(***************************************************************************)
(* Strategy to risk thread is a hand-off in the same sense.                *)
(***************************************************************************)
THEOREM OrdersAreHandedOver == Spec => OrdersHandedOver
<1>1. Init => OrderHandOff!Init
  BY InitHandsOff
<1>2. IInv /\ [Next]_vars => [OrderHandOff!Next]_(OrderHandOff!vars)
  BY NextHandsOrders
<1> QED BY <1>1, <1>2, Invariance, PTL DEF Spec, OrdersHandedOver, OrderHandOff!Spec

-----------------------------------------------------------------------------
(* The threads never wait in a circle                                      *)

\* A consumer that has something to do other than to poll an empty ring
Busy(at, queue, done) ==
    \/ at \in {"handle", "again"}
    \/ at \in {"pop", "check"} /\ (queue # <<>> \/ done)

MdBusy ==
    \/ md = "load"
    \/ md = "run" /\ (pushed = Updates \/ Len(mdQ) < MdCapacity - 1)

StratBusy ==
    \/ Busy(strat, mdQ, mdDone)
    \/ strat = "publish" /\ Len(orderQ) < OrderCapacity - 1
    \/ strat = "exit" /\ ~stratDone

RiskBusy == Busy(risk, orderQ, stratDone)

AllEnded == md = "exit" /\ strat = "exit" /\ stratDone /\ risk = "exit"

(***************************************************************************)
(* Until the three threads have ended, one of them can do more than poll   *)
(* an empty ring or spin on a full one, for any capacities and any number  *)
(* of updates: the market data thread waits only for the strategy thread,  *)
(* this one only for the risk thread, and that one for a ring that is      *)
(* filled or closed.  With the fairness of Spec this is why the program    *)
(* ends.                                                                   *)
(***************************************************************************)
THEOREM SomebodyIsBusy == Spec => [](MdBusy \/ StratBusy \/ RiskBusy \/ AllEnded)
<1>1. IInv => MdBusy \/ StratBusy \/ RiskBusy \/ AllEnded
  <2> SUFFICES ASSUME IInv, ~MdBusy, ~StratBusy, ~RiskBusy PROVE AllEnded
    OBVIOUS
  <2>1. /\ md \in {"load", "run", "exit"} /\ pushed \in 0..Updates
        /\ Len(mdQ) \in Nat /\ Len(orderQ) \in Nat
        /\ (Len(mdQ) > 0 <=> mdQ # <<>>) /\ (Len(orderQ) > 0 <=> orderQ # <<>>)
        /\ strat \in {"pop", "check", "again", "handle", "publish", "exit"}
        /\ risk \in {"pop", "check", "again", "handle", "exit"}
    BY DEF IInv, TypeOK
  <2>2. /\ mdDone <=> md = "exit"
        /\ strat = "exit" => mdDone /\ mdQ = <<>>
        /\ stratDone => strat = "exit"
        /\ risk = "exit" => stratDone
    BY DEF IInv, UpdateFlow, OrderFlow, StopsLate
  <2>3. \/ md = "exit"
        \/ mdQ # <<>> /\ ~mdDone
    BY <2>1, <2>2, PipelineAssumption DEF MdBusy
  <2>4. \/ strat = "exit" /\ stratDone
        \/ strat = "publish" /\ orderQ # <<>>
    BY <2>1, <2>2, <2>3, PipelineAssumption DEF StratBusy, Busy
  <2>5. risk = "exit" \/ (orderQ = <<>> /\ ~stratDone)
    BY <2>1 DEF RiskBusy, Busy
  <2> QED BY <2>2, <2>4, <2>5 DEF AllEnded
<1> QED BY <1>1, Invariance, PTL
=============================================================================
