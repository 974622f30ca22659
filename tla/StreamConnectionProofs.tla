----------------------- MODULE StreamConnectionProofs -----------------------
(***************************************************************************)
(* The safety of StreamConnection and of the FeedbackSender in it.         *)
(***************************************************************************)
EXTENDS StreamConnection, TLAPS, FiniteSetTheorems, WellFoundedInduction

\* What a step leaves alone, and how the running thread moves on.
USE DEF sVars, tVars, vars, fVars, Goto, status, sKept, NewState, Pred, Woken, TimedOut, Wakes

IInv == StreamInv /\ UsedWhileAlive /\ StreamInfoNotLost /\ EventsKept

\* What the calls and the thread of the feedback sender do to where it is.
LEMMA FbPlaces ==
    /\ \A p : FbSet(p) => UNCHANGED <<fpc, fStop>>
    /\ FbStart => fpc = "off" /\ fpc' = "top"
    /\ FbAskStop => UNCHANGED fpc
    /\ FbJoined => fpc' = "off"
    /\ FNext => fpc # "off" /\ fpc' # "off"
<1>1. \A p : FbSet(p) => UNCHANGED <<fpc, fStop>>
  BY DEF FbSet
<1>2. FNext => fpc # "off" /\ fpc' # "off"
  BY DEF FNext, FThread, FClock, FWait, FWaitOn, FTake, FEnd, FSend, FAwake
<1> QED
  BY <1>1, <1>2 DEF FbStart, FbAskStop, FbJoined


\* Every thread stays at a program point of its own function.
LEMMA PlacesStep == IInv /\ [Next]_vars => Places'
<1> SUFFICES ASSUME IInv, [Next]_vars PROVE Places'
  OBVIOUS
<1> USE DEF IInv, StreamInv, TypeOK, Places, Waits, Events, Data
<1>1. CASE SSleep \/ SNoReceivers \/ SNoTakion \/ SConnect \/ SConnected \/ SBigFails \/
          SBang \/ SInfo \/ SHandshakeFails \/ SNoFeedback
  BY <1>1 DEF SSleep, SNoReceivers, SNoTakion, SConnect, SConnected, SBigFails, SBang,
     EarlyInfo, SInfo, SHandshakeFails, SNoFeedback
<1>2. CASE SFeedbackStart \/ SIdle \/ SEvent \/ SBeat \/ SStats \/ SLoopEnds
  BY <1>2 DEF SFeedbackStart, SIdle, Replay, IdleFinished, SEvent, SBeat, LinkIsDead,
     SStats, SLoopEnds
<1>3. CASE SFeedbackStop \/ SFeedbackJoin \/ SDisconnect \/ SCongestionStop \/
          SCongestionJoin \/ SClose \/ SClosed \/ SFree \/ SFini \/ SFiniJoin
  BY <1>3 DEF SFeedbackStop, SFeedbackJoin, SDisconnect, SCongestionStop, SCongestionJoin,
     SClose, SClosed, TakionJoined, SFree, SFini, SFiniJoin
<1>4. CASE TStop \/ TDies \/ TAv \/ TLifeEvent \/ GEnd
  BY <1>4 DEF TStop, TDies, TAv, TLifeEvent, GEnd
<1>5. CASE AStop \/ ASetPad \/ UNCHANGED vars
  BY <1>5 DEF AStop, ASetPad
<1>6. CASE TReceive
  BY <1>6 DEF TReceive, CanArrive
<1>7. CASE TData
  BY <1>7 DEF TData, ExpectBang, Bye, ExpectStreamInfo, DataIdle
<1>8. CASE Feedback(FNext)
  BY <1>8 DEF Feedback
<1> QED
  BY <1>1, <1>2, <1>3, <1>4, <1>5, <1>6, <1>7, <1>8
  DEF Next, SRun, TCallback

\* The flags stay Boolean.
LEMMA SFlagsStep == IInv /\ [Next]_vars => SFlags'
<1> SUFFICES ASSUME IInv, [Next]_vars PROVE SFlags'
  OBVIOUS
<1> USE DEF IInv, StreamInv, TypeOK, SFlags
<1>1. CASE SSleep \/ SNoReceivers \/ SNoTakion \/ SConnect \/ SConnected \/ SBigFails \/
          SBang \/ SInfo \/ SHandshakeFails \/ SNoFeedback
  BY <1>1 DEF SSleep, SNoReceivers, SNoTakion, SConnect, SConnected, SBigFails, SBang,
     EarlyInfo, SInfo, SHandshakeFails, SNoFeedback
<1>2. CASE SFeedbackStart \/ SIdle \/ SEvent \/ SBeat \/ SStats \/ SLoopEnds
  BY <1>2 DEF SFeedbackStart, SIdle, Replay, IdleFinished, SEvent, SBeat, LinkIsDead,
     SStats, SLoopEnds
<1>3. CASE SFeedbackStop \/ SFeedbackJoin \/ SDisconnect \/ SCongestionStop \/
          SCongestionJoin \/ SClose \/ SClosed \/ SFree \/ SFini \/ SFiniJoin
  BY <1>3 DEF SFeedbackStop, SFeedbackJoin, SDisconnect, SCongestionStop, SCongestionJoin,
     SClose, SClosed, TakionJoined, SFree, SFini, SFiniJoin
<1>4. CASE TStop \/ TDies \/ TAv \/ TLifeEvent \/ GEnd
  BY <1>4 DEF TStop, TDies, TAv, TLifeEvent, GEnd
<1>5. CASE AStop \/ ASetPad \/ UNCHANGED vars
  BY <1>5 DEF AStop, ASetPad
<1>6. CASE TReceive
  BY <1>6 DEF TReceive, Events, Data, CanArrive
<1>7. CASE TData
  <2>1. CASE ExpectBang
    BY <1>7, <2>1 DEF TData, Data, ExpectBang, Bye
  <2>2. CASE ExpectStreamInfo
    BY <1>7, <2>2 DEF TData, Data, ExpectStreamInfo, Bye
  <2>3. CASE DataIdle
    BY <1>7, <2>3 DEF TData, Data, DataIdle, Bye
  <2> QED
    BY <1>7, <2>1, <2>2, <2>3 DEF TData
<1>8. CASE Feedback(FNext)
  BY <1>8 DEF Feedback
<1> QED
  BY <1>1, <1>2, <1>3, <1>4, <1>5, <1>6, <1>7, <1>8
  DEF Next, SRun, TCallback

\* The watchdog's count, the result and the controller keep their types.
LEMMA ValuesStep == IInv /\ [Next]_vars => Values'
<1> SUFFICES ASSUME IInv, [Next]_vars PROVE Values'
  OBVIOUS
<1> USE StreamAssumption DEF IInv, StreamInv, TypeOK, Values, Events, Data, Progress
<1>1. CASE SSleep \/ SNoReceivers \/ SNoTakion \/ SConnect \/ SConnected \/ SBigFails \/
          SBang \/ SInfo \/ SHandshakeFails \/ SNoFeedback
  BY <1>1 DEF SSleep, SNoReceivers, SNoTakion, SConnect, SConnected, SBigFails, SBang,
     EarlyInfo, SInfo, SHandshakeFails, SNoFeedback
<1>2. CASE SFeedbackStart \/ SIdle
  BY <1>2 DEF SFeedbackStart, SIdle, Replay, IdleFinished
<1>3. CASE SFeedbackStop \/ SFeedbackJoin \/ SDisconnect \/ SCongestionStop \/
          SCongestionJoin \/ SClose \/ SClosed \/ SFree \/ SFini \/ SFiniJoin
  BY <1>3 DEF SFeedbackStop, SFeedbackJoin, SDisconnect, SCongestionStop, SCongestionJoin,
     SClose, SClosed, TakionJoined, SFree, SFini, SFiniJoin
<1>4. CASE TStop \/ TDies \/ TAv \/ TLifeEvent \/ GEnd
  BY <1>4 DEF TStop, TDies, TAv, TLifeEvent, GEnd
<1>5. CASE AStop \/ UNCHANGED vars
  BY <1>5 DEF AStop
<1>6. CASE SEvent \/ SBeat \/ SStats \/ SLoopEnds
  <2>1. CASE SBeat
    <3>1. quiet + 1 \in 0..LinkTimeout
      BY <2>1 DEF SBeat
    <3> QED
      BY <2>1, <3>1 DEF SBeat
  <2>2. CASE SEvent
    BY <2>2 DEF SEvent
  <2>3. CASE SStats \/ SLoopEnds
    BY <2>3 DEF SStats, SLoopEnds
  <2> QED
    BY <1>6, <2>1, <2>2, <2>3
<1>7. CASE TReceive
  BY <1>7 DEF TReceive, CanArrive
<1>8. CASE TData
  BY <1>8 DEF TData, ExpectBang, Bye, ExpectStreamInfo, DataIdle
<1>9. CASE Feedback(FNext)
  BY <1>9 DEF Feedback
<1>10. CASE ASetPad
  BY <1>10 DEF ASetPad
<1> QED
  BY <1>1, <1>2, <1>3, <1>4, <1>5, <1>6, <1>7, <1>8, <1>9, <1>10
  DEF Next, SRun, TCallback

\* A thread that was started is joined before its owner goes on.
LEMMA ThreadsStep == IInv /\ [Next]_vars => Threads'
<1> SUFFICES ASSUME IInv, [Next]_vars PROVE Threads'
  OBVIOUS
<1> USE DEF IInv, StreamInv, TypeOK, Threads, Over, Places, Waits, Events, Data
<1>1. CASE SSleep \/ SNoReceivers \/ SNoTakion \/ SConnect \/ SConnected \/ SBigFails \/
          SBang \/ SInfo \/ SHandshakeFails \/ SNoFeedback
  BY <1>1, FbPlaces DEF SSleep, SNoReceivers, SNoTakion, SConnect, SConnected, SBigFails,
     SBang, EarlyInfo, SInfo, SHandshakeFails, SNoFeedback
<1>2. CASE SFeedbackStart \/ SIdle \/ SEvent \/ SBeat \/ SStats \/ SLoopEnds
  BY <1>2, FbPlaces DEF SFeedbackStart, SIdle, Replay, IdleFinished, SEvent, SBeat,
     LinkIsDead, SStats, SLoopEnds
<1>3. CASE SFeedbackStop \/ SFeedbackJoin \/ SDisconnect \/ SCongestionStop \/
          SCongestionJoin \/ SClose \/ SClosed \/ SFree \/ SFini \/ SFiniJoin
  BY <1>3, FbPlaces DEF SFeedbackStop, SFeedbackJoin, SDisconnect, SCongestionStop,
     SCongestionJoin, SClose, SClosed, TakionJoined, SFree, SFini, SFiniJoin
<1>4. CASE TStop \/ TDies \/ TAv \/ TLifeEvent \/ GEnd
  BY <1>4, FbPlaces DEF TStop, TDies, TAv, TLifeEvent, GEnd
<1>5. CASE AStop \/ ASetPad \/ UNCHANGED vars
  BY <1>5, FbPlaces DEF AStop, ASetPad
<1>6. CASE TReceive
  BY <1>6, FbPlaces DEF TReceive, CanArrive
<1>7. CASE TData
  BY <1>7, FbPlaces DEF TData, ExpectBang, Bye, ExpectStreamInfo, DataIdle
<1>8. CASE Feedback(FNext)
  BY <1>8, FbPlaces DEF Feedback
<1> QED
  BY <1>1, <1>2, <1>3, <1>4, <1>5, <1>6, <1>7, <1>8
  DEF Next, SRun, TCallback

\* The state goes with the wait of the running thread.
LEMMA ProgressStep == IInv /\ [Next]_vars => Progress'
<1> SUFFICES ASSUME IInv, [Next]_vars PROVE Progress'
  OBVIOUS
<1> USE StreamAssumption DEF IInv, StreamInv, TypeOK, Progress, Places, Waits, Events, Data,
   Threads, Over, Values
<1>1. CASE SSleep \/ SNoReceivers \/ SNoTakion \/ SConnect \/ SConnected \/ SBigFails \/
          SBang \/ SInfo \/ SHandshakeFails \/ SNoFeedback
  BY <1>1 DEF SSleep, SNoReceivers, SNoTakion, SConnect, SConnected, SBigFails, SBang,
     EarlyInfo, SInfo, SHandshakeFails, SNoFeedback
<1>2. CASE SFeedbackStart
  BY <1>2 DEF SFeedbackStart
<1>3. CASE SFeedbackStop \/ SFeedbackJoin \/ SDisconnect \/ SCongestionStop \/
          SCongestionJoin \/ SClose \/ SClosed \/ SFree \/ SFini \/ SFiniJoin
  BY <1>3 DEF SFeedbackStop, SFeedbackJoin, SDisconnect, SCongestionStop, SCongestionJoin,
     SClose, SClosed, TakionJoined, SFree, SFini, SFiniJoin
<1>4. CASE TStop \/ TDies \/ TAv \/ TLifeEvent \/ GEnd
  BY <1>4 DEF TStop, TDies, TAv, TLifeEvent, GEnd
<1>5. CASE UNCHANGED vars
  BY <1>5
<1>6. CASE SIdle
  BY <1>6 DEF SIdle, Replay, IdleFinished
<1>7. CASE SEvent \/ SBeat \/ SStats \/ SLoopEnds
  BY <1>7 DEF SEvent, SBeat, LinkIsDead, SStats, SLoopEnds
<1>8. CASE TReceive
  <2>1. PICK e \in Events \ {"ended"} : CanArrive(e) /\ arrived' = arrived \cup ({e} \ {"av", "quality"})
    BY <1>8 DEF TReceive
  <2>2. UNCHANGED <<spc, state, finished>> /\ quiet' = 0 /\ spc # "start"
    BY <1>8 DEF TReceive
  <2>3. state = "connect" => e # "info"
    BY <2>1 DEF CanArrive
  <2> QED
    BY <2>1, <2>2, <2>3, StreamAssumption
<1>9. CASE TData
  BY <1>9 DEF TData, ExpectBang, Bye, ExpectStreamInfo, DataIdle
<1>10. CASE Feedback(FNext)
  BY <1>10 DEF Feedback
<1>11. CASE AStop
  <2>1. UNCHANGED <<spc, state, arrived, finished, quiet>>
    BY <1>11 DEF AStop
  <2> QED
    BY <2>1
<1>12. CASE ASetPad
  BY <1>12 DEF ASetPad
<1> QED
  BY <1>1, <1>2, <1>3, <1>4, <1>5, <1>6, <1>7, <1>8, <1>9, <1>10, <1>11, <1>12
  DEF Next, SRun, TCallback

\* A stream info that has arrived is kept until it is handled.
LEMMA InfoIsSomewhereStep == IInv /\ [Next]_vars => InfoIsSomewhere'
<1> SUFFICES ASSUME IInv, [Next]_vars PROVE InfoIsSomewhere'
  OBVIOUS
<1> USE DEF IInv, StreamInv, TypeOK, InfoIsSomewhere, Places, Waits, Events, Data, SFlags,
   Progress, Threads, Over
<1>1. CASE SSleep \/ SNoReceivers \/ SNoTakion \/ SConnect \/ SConnected \/ SBigFails \/
          SBang \/ SInfo \/ SHandshakeFails \/ SNoFeedback
  BY <1>1 DEF SSleep, SNoReceivers, SNoTakion, SConnect, SConnected, SBigFails, SBang,
     EarlyInfo, SInfo, SHandshakeFails, SNoFeedback
<1>2. CASE SFeedbackStart \/ SIdle \/ SEvent \/ SBeat \/ SStats \/ SLoopEnds
  BY <1>2 DEF SFeedbackStart, SIdle, Replay, IdleFinished, SEvent, SBeat, LinkIsDead,
     SStats, SLoopEnds
<1>3. CASE SFeedbackStop \/ SFeedbackJoin \/ SDisconnect \/ SCongestionStop \/
          SCongestionJoin \/ SClose \/ SClosed \/ SFree \/ SFini \/ SFiniJoin
  BY <1>3 DEF SFeedbackStop, SFeedbackJoin, SDisconnect, SCongestionStop, SCongestionJoin,
     SClose, SClosed, TakionJoined, SFree, SFini, SFiniJoin
<1>4. CASE TStop \/ TDies \/ TAv \/ TLifeEvent \/ GEnd
  BY <1>4 DEF TStop, TDies, TAv, TLifeEvent, GEnd
<1>5. CASE AStop \/ ASetPad \/ UNCHANGED vars
  BY <1>5 DEF AStop, ASetPad
<1>6. CASE TReceive
  BY <1>6 DEF TReceive, CanArrive
<1>7. CASE TData
  <2>1. UNCHANGED <<spc, arrived, state>> /\ msg \in Data /\ tpc = "callback" /\ tpc' = "recv"
    BY <1>7 DEF TData
  <2>2. CASE state = "bang"
    <3>1. ExpectBang
      BY <1>7, <2>2 DEF TData
    <3> QED
      BY <2>1, <2>2, <3>1 DEF ExpectBang, Bye, Data
  <2>3. CASE state = "info"
    <3>1. ExpectStreamInfo
      BY <1>7, <2>3 DEF TData
    <3> QED
      BY <2>1, <2>3, <3>1 DEF ExpectStreamInfo, Bye, Data
  <2>4. CASE state \notin {"bang", "info"}
    <3>1. state = "idle" \/ "info" \notin arrived
      BY <2>4 DEF Progress
    <3> QED
      BY <2>1, <2>4, <3>1
  <2> QED
    BY <2>2, <2>3, <2>4
<1>8. CASE Feedback(FNext)
  BY <1>8 DEF Feedback
<1> QED
  BY <1>1, <1>2, <1>3, <1>4, <1>5, <1>6, <1>7, <1>8
  DEF Next, SRun, TCallback

\* The run does not end by itself.
LEMMA EndHasCauseStep == IInv /\ [Next]_vars => EndHasCause'
<1> SUFFICES ASSUME IInv, [Next]_vars PROVE EndHasCause'
  OBVIOUS
<1> USE DEF IInv, StreamInv, TypeOK, EndHasCause, Places, Waits, Events, Data, Progress
<1>1. CASE SSleep \/ SNoReceivers \/ SNoTakion \/ SConnect \/ SConnected \/ SBigFails \/
          SBang \/ SInfo \/ SHandshakeFails \/ SNoFeedback
  BY <1>1 DEF SSleep, SNoReceivers, SNoTakion, SConnect, SConnected, SBigFails, SBang,
     EarlyInfo, SInfo, SHandshakeFails, SNoFeedback
<1>2. CASE SFeedbackStart \/ SIdle \/ SEvent \/ SBeat \/ SStats \/ SLoopEnds
  BY <1>2 DEF SFeedbackStart, SIdle, Replay, IdleFinished, SEvent, SBeat, LinkIsDead,
     SStats, SLoopEnds
<1>3. CASE SFeedbackStop \/ SFeedbackJoin \/ SDisconnect \/ SCongestionStop \/
          SCongestionJoin \/ SClose \/ SClosed \/ SFree \/ SFini \/ SFiniJoin
  BY <1>3 DEF SFeedbackStop, SFeedbackJoin, SDisconnect, SCongestionStop, SCongestionJoin,
     SClose, SClosed, TakionJoined, SFree, SFini, SFiniJoin
<1>4. CASE TStop \/ TDies \/ TAv \/ TLifeEvent \/ GEnd
  BY <1>4 DEF TStop, TDies, TAv, TLifeEvent, GEnd
<1>5. CASE AStop \/ ASetPad \/ UNCHANGED vars
  BY <1>5 DEF AStop, ASetPad
<1>6. CASE TReceive
  BY <1>6 DEF TReceive, CanArrive
<1>7. CASE TData
  BY <1>7 DEF TData, ExpectBang, Bye, ExpectStreamInfo, DataIdle
<1>8. CASE Feedback(FNext)
  BY <1>8 DEF Feedback
<1> QED
  BY <1>1, <1>2, <1>3, <1>4, <1>5, <1>6, <1>7, <1>8
  DEF Next, SRun, TCallback

\* A clean end was asked for.
LEMMA CleanEndIsAskedStep == IInv /\ [Next]_vars => CleanEndIsAsked'
<1> SUFFICES ASSUME IInv, [Next]_vars PROVE CleanEndIsAsked'
  OBVIOUS
<1> USE DEF IInv, StreamInv, TypeOK, CleanEndIsAsked, Over, EndHasCause
<1>1. CASE SSleep \/ SNoReceivers \/ SNoTakion \/ SConnect \/ SConnected \/ SBigFails \/
          SBang \/ SInfo \/ SHandshakeFails \/ SNoFeedback
  BY <1>1 DEF SSleep, Waits, SNoReceivers, SNoTakion, SConnect, SConnected, SBigFails,
     SBang, EarlyInfo, SInfo, SHandshakeFails, SNoFeedback
<1>2. CASE SFeedbackStart \/ SIdle \/ SEvent \/ SBeat \/ SStats \/ SLoopEnds
  BY <1>2 DEF SFeedbackStart, SIdle, Replay, IdleFinished, SEvent, SBeat, LinkIsDead,
     SStats, SLoopEnds
<1>3. CASE SFeedbackStop \/ SFeedbackJoin \/ SDisconnect \/ SCongestionStop \/
          SCongestionJoin \/ SClose \/ SClosed \/ SFree \/ SFini \/ SFiniJoin
  BY <1>3 DEF SFeedbackStop, SFeedbackJoin, SDisconnect, SCongestionStop, SCongestionJoin,
     SClose, SClosed, TakionJoined, SFree, SFini, SFiniJoin
<1>4. CASE TStop \/ TDies \/ TAv \/ TLifeEvent \/ GEnd
  BY <1>4 DEF TStop, TDies, TAv, TLifeEvent, GEnd
<1>5. CASE AStop \/ ASetPad \/ UNCHANGED vars
  BY <1>5 DEF AStop, ASetPad, Waits
<1>6. CASE TReceive
  BY <1>6 DEF TReceive, Events, Data, CanArrive
<1>7. CASE TData
  BY <1>7 DEF TData, Data, ExpectBang, Bye, ExpectStreamInfo, DataIdle
<1>8. CASE Feedback(FNext)
  BY <1>8 DEF Feedback
<1> QED
  BY <1>1, <1>2, <1>3, <1>4, <1>5, <1>6, <1>7, <1>8
  DEF Next, SRun, TCallback

\* What is used exists.
LEMMA UsedWhileAliveStep == IInv /\ [Next]_vars => UsedWhileAlive'
<1> SUFFICES ASSUME IInv, [Next]_vars PROVE UsedWhileAlive'
  OBVIOUS
<1> USE DEF IInv, StreamInv, TypeOK, UsedWhileAlive, Over, Threads, Places, Waits, Events,
   Data
<1>1. CASE SSleep \/ SNoReceivers \/ SNoTakion \/ SConnect \/ SConnected \/ SBigFails \/
          SBang \/ SInfo \/ SHandshakeFails \/ SNoFeedback
  BY <1>1, FbPlaces DEF SSleep, SNoReceivers, SNoTakion, SConnect, SConnected, SBigFails,
     SBang, EarlyInfo, SInfo, SHandshakeFails, SNoFeedback
<1>2. CASE SFeedbackStart \/ SIdle \/ SEvent \/ SBeat \/ SStats \/ SLoopEnds
  BY <1>2, FbPlaces DEF SFeedbackStart, SIdle, Replay, IdleFinished, SEvent, SBeat,
     LinkIsDead, SStats, SLoopEnds
<1>3. CASE SFeedbackStop \/ SFeedbackJoin \/ SDisconnect \/ SCongestionStop \/
          SCongestionJoin \/ SClose \/ SClosed \/ SFree \/ SFini \/ SFiniJoin
  BY <1>3, FbPlaces DEF SFeedbackStop, SFeedbackJoin, SDisconnect, SCongestionStop,
     SCongestionJoin, SClose, SClosed, TakionJoined, SFree, SFini, SFiniJoin
<1>4. CASE TStop \/ TDies \/ TAv \/ TLifeEvent \/ GEnd
  BY <1>4, FbPlaces DEF TStop, TDies, TAv, TLifeEvent, GEnd
<1>5. CASE AStop \/ ASetPad \/ UNCHANGED vars
  BY <1>5, FbPlaces DEF AStop, ASetPad
<1>6. CASE TReceive
  BY <1>6, FbPlaces DEF TReceive, CanArrive
<1>7. CASE TData
  BY <1>7, FbPlaces DEF TData, ExpectBang, Bye, ExpectStreamInfo, DataIdle
<1>8. CASE Feedback(FNext)
  BY <1>8, FbPlaces DEF Feedback
<1> QED
  BY <1>1, <1>2, <1>3, <1>4, <1>5, <1>6, <1>7, <1>8
  DEF Next, SRun, TCallback

\* A stream info is not waited for twice.
LEMMA StreamInfoNotLostStep == IInv /\ [Next]_vars => StreamInfoNotLost'
<1> SUFFICES ASSUME IInv, [Next]_vars PROVE StreamInfoNotLost'
  OBVIOUS
<1> USE DEF IInv, StreamInv, TypeOK, StreamInfoNotLost, InfoIsSomewhere, Progress
<1>1. CASE SSleep \/ SNoReceivers \/ SNoTakion \/ SConnect \/ SConnected \/ SBigFails \/
          SBang \/ SInfo \/ SHandshakeFails \/ SNoFeedback
  BY <1>1 DEF SSleep, Waits, SNoReceivers, SNoTakion, SConnect, SConnected, SBigFails,
     SBang, EarlyInfo, SInfo, SHandshakeFails, SNoFeedback
<1>2. CASE SFeedbackStart \/ SIdle \/ SEvent \/ SBeat \/ SStats \/ SLoopEnds
  BY <1>2 DEF SFeedbackStart, SIdle, Replay, IdleFinished, SEvent, SBeat, LinkIsDead,
     SStats, SLoopEnds
<1>3. CASE SFeedbackStop \/ SFeedbackJoin \/ SDisconnect \/ SCongestionStop \/
          SCongestionJoin \/ SClose \/ SClosed \/ SFree \/ SFini \/ SFiniJoin
  BY <1>3 DEF SFeedbackStop, SFeedbackJoin, SDisconnect, SCongestionStop, SCongestionJoin,
     SClose, SClosed, TakionJoined, SFree, SFini, SFiniJoin
<1>4. CASE TStop \/ TDies \/ TAv \/ TLifeEvent \/ GEnd
  BY <1>4 DEF TStop, TDies, TAv, TLifeEvent, GEnd
<1>5. CASE AStop \/ ASetPad \/ UNCHANGED vars
  BY <1>5 DEF AStop, ASetPad, Waits
<1>6. CASE TReceive
  BY <1>6 DEF TReceive, Events, Data, CanArrive
<1>7. CASE TData
  BY <1>7 DEF TData, Data, ExpectBang, Bye, ExpectStreamInfo, DataIdle
<1>8. CASE Feedback(FNext)
  BY <1>8 DEF Feedback
<1> QED
  BY <1>1, <1>2, <1>3, <1>4, <1>5, <1>6, <1>7, <1>8
  DEF Next, SRun, TCallback

-----------------------------------------------------------------------------
\* The feedback sender: what its steps are, whoever takes them.
FInv == FTypeOK /\ NothingKept /\ History /\ FrontIsHanded
FStep ==
    \/ \E p \in Pads : FbSet(p) /\ fpc # "off"
    \/ FbStart \/ FbAskStop \/ FbJoined
    \/ FNext \/ UNCHANGED fVars

\* The least of two numbers.
LEMMA MinIs == ASSUME NEW a \in Int, NEW b \in Int PROVE Min({a, b}) = IF a <= b THEN a ELSE b
<1>1. CASE a <= b
  <2>1. \A x \in {a, b} : a <= x
    BY <1>1
  <2>2. \A x \in {a, b} : (\A y \in {a, b} : x <= y) => x = a
    BY <1>1
  <2> QED
    BY <1>1, <2>1, <2>2 DEF Min
<1>2. CASE ~(a <= b)
  <2>1. \A x \in {a, b} : b <= x
    BY <1>2
  <2>2. \A x \in {a, b} : (\A y \in {a, b} : x <= y) => x = b
    BY <1>2
  <2> QED
    BY <1>2, <2>1, <2>2 DEF Min
<1> QED
  BY <1>1, <1>2

\* Two controller states differ in a number of buttons.
LEMMA NewEventsIs == ASSUME NEW a \in Pads, NEW b \in Pads PROVE NewEvents(a, b) \in Nat
<1>1. (a.buttons \ b.buttons) \cup (b.buttons \ a.buttons) \in SUBSET Buttons
  BY DEF Pads
<1>2. IsFiniteSet((a.buttons \ b.buttons) \cup (b.buttons \ a.buttons))
  BY <1>1, FeedbackAssumption, FS_Subset
<1> QED
  BY <1>2, FS_CardinalityType DEF NewEvents

\* What Tail and Append leave where.
LEMMA TailIs ==
    ASSUME NEW S, NEW s \in Seq(S), s # <<>>
    PROVE /\ Tail(s) \in Seq(S) /\ Len(Tail(s)) = Len(s) - 1 /\ Len(s) \in Nat \ {0}
          /\ \A i \in 1..(Len(s) - 1) : Tail(s)[i] = s[i + 1]
          /\ Head(s) = s[1] /\ s[1] \in S
OBVIOUS

LEMMA AppendIs ==
    ASSUME NEW S, NEW s \in Seq(S), NEW x \in S
    PROVE /\ Append(s, x) \in Seq(S) /\ Len(Append(s, x)) = Len(s) + 1 /\ Len(s) \in Nat
          /\ \A i \in 1..Len(s) : Append(s, x)[i] = s[i]
          /\ Append(s, x)[Len(s) + 1] = x
          /\ Append(s, x) # <<>>
OBVIOUS

\* What a controller state leaves in the history buffer and in the queue: nothing, or one
\* packet q with n new events and as many old ones as the buffer held.
Recorded(n, q) ==
    /\ events' = events + n /\ q.hi = events + n /\ q.new = n /\ 1 <= q.lo
    /\ bufLen' \in 0..BufferSize /\ bufLen' <= Resend /\ bufLen' <= events'
    /\ overran' \in BOOLEAN /\ (overran => overran')
    /\ ~overran' => q.lo = events + 1 - bufLen /\ (bufLen \in {events, Resend} => bufLen' \in {events', Resend})
    /\ \/ Len(queue) < QueueSize /\ queue' = Append(queue, q) /\ pushedOut' = pushedOut
       \/ /\ Len(queue) = QueueSize /\ queue' = Append(Tail(queue), q)
          /\ pushedOut' = pushedOut + Head(queue).new

LEMMA SetRecords ==
    ASSUME FInv, NEW p \in Pads, FbSet(p), p # current
    PROVE /\ UNCHANGED <<fpc, elapsed, deadline, sentStick, seenStick, sentEvents, outgoing, fStop>>
          /\ current' \in Pads /\ changed' \in BOOLEAN /\ fSig' \in BOOLEAN
          /\ \/ UNCHANGED <<events, bufLen, queue, pushedOut, overran>>
             \/ \E n \in Nat \ {0}, q \in Packets : Recorded(n, q)
<1> DEFINE n == NewEvents(current, p)
           len == Min({bufLen + n, BufferSize})
           q == Packet(len, n, events + n)
<1> USE FeedbackAssumption
<1>1. n \in Nat /\ bufLen \in 0..BufferSize /\ events \in Nat /\ Len(queue) \in Nat
  BY NewEventsIs DEF FInv, FTypeOK
<1>2. len = IF bufLen + n <= BufferSize THEN bufLen + n ELSE BufferSize
  BY <1>1, MinIs
<1>3. len \in Nat /\ len <= BufferSize /\ len <= bufLen + n
  BY <1>1, <1>2
<1>4. Kept(len) = IF len <= Resend THEN len ELSE Resend
  BY <1>3, MinIs DEF Kept
<1>5. bufLen <= events /\ bufLen <= Resend
  BY DEF FInv, History
<1>6. /\ UNCHANGED <<fpc, elapsed, deadline, sentStick, seenStick, sentEvents, outgoing, fStop>>
      /\ current' = p /\ changed' = TRUE /\ fSig' = (fpc = "wait")
  BY DEF FbSet
<1>7. /\ events' = events + n /\ overran' = (overran \/ bufLen + n > BufferSize)
      /\ bufLen' = IF n > 0 THEN Kept(len) ELSE bufLen
      /\ queue' = IF n = 0 THEN queue
                  ELSE Append(IF n > 0 /\ Len(queue) = QueueSize THEN Tail(queue) ELSE queue, q)
      /\ pushedOut' = IF n > 0 /\ Len(queue) = QueueSize THEN pushedOut + Head(queue).new ELSE pushedOut
  BY DEF FbSet
<1>8. q.lo = events + n + 1 - len /\ q.hi = events + n /\ q.new = n /\ q = [lo |-> q.lo, hi |-> q.hi, new |-> q.new]
  BY DEF Packet
<1> HIDE DEF n, len, q
<1>9. CASE n = 0
  <2>1. overran' = overran
    BY <1>1, <1>7, <1>9 DEF FInv, FTypeOK
  <2> QED
    BY <1>1, <1>6, <1>7, <1>9, <2>1
<1>10. CASE n > 0
  <2>1. q \in Packets /\ 1 <= q.lo
    BY <1>1, <1>3, <1>5, <1>8 DEF Packets
  <2>2. bufLen' \in 0..BufferSize /\ bufLen' <= Resend /\ bufLen' <= events'
    BY <1>1, <1>3, <1>4, <1>5, <1>7, <1>10
  <2>3. ~overran' => /\ q.lo = events + 1 - bufLen
                     /\ bufLen \in {events, Resend} => bufLen' \in {events', Resend}
    <3> SUFFICES ASSUME ~overran'
                 PROVE /\ q.lo = events + 1 - bufLen
                       /\ bufLen \in {events, Resend} => bufLen' \in {events', Resend}
      OBVIOUS
    <3>1. bufLen + n <= BufferSize
      <4>1. ~(bufLen + n > BufferSize)
        BY <1>7
      <4> QED
        BY <1>1, <4>1
    <3>2. len = bufLen + n
      BY <3>1, <1>2
    <3>3. bufLen' = IF bufLen + n <= Resend THEN bufLen + n ELSE Resend
      BY <1>4, <1>7, <1>10, <3>2
    <3> QED
      BY <1>1, <1>5, <1>7, <1>8, <1>10, <3>2, <3>3
  <2>4. overran' \in BOOLEAN /\ (overran => overran')
    BY <1>7 DEF FInv, FTypeOK
  <2>5. \/ Len(queue) < QueueSize /\ queue' = Append(queue, q) /\ pushedOut' = pushedOut
        \/ /\ Len(queue) = QueueSize /\ queue' = Append(Tail(queue), q)
           /\ pushedOut' = pushedOut + Head(queue).new
    BY <1>1, <1>7, <1>10 DEF FInv, FTypeOK
  <2>6. Recorded(n, q)
    BY <1>7, <1>8, <2>1, <2>2, <2>3, <2>4, <2>5 DEF Recorded
  <2> QED
    BY <1>1, <1>6, <1>10, <2>1, <2>6
<1> QED
  BY <1>1, <1>9, <1>10


\* An idle controller, and a thread that has nothing to send.
LEMMA IdleIs ==
    /\ IdlePad \in Pads /\ <<>> \in Seq(Packets) /\ Len(<<>>) = 0
    /\ Nothing \in [state : BOOLEAN, stick : Sticks, packets : Seq(Packets)]
    /\ Nothing.packets = <<>>
<1>1. <<>> \in Seq(Packets) /\ Len(<<>>) = 0
  OBVIOUS
<1>2. Nothing \in [state : BOOLEAN, stick : Sticks, packets : Seq(Packets)]
  BY <1>1, FeedbackAssumption DEF Nothing
<1> QED
  BY <1>1, <1>2, FeedbackAssumption DEF IdlePad, Pads, Nothing

\* The types of what the sender keeps.
LEMMA FTypeStep == FInv /\ FStep => FTypeOK'
<1> SUFFICES ASSUME FInv, FStep PROVE FTypeOK'
  OBVIOUS
<1> USE FeedbackAssumption DEF FInv, FTypeOK
<1>1. ASSUME NEW p \in Pads, FbSet(p), p # current PROVE FTypeOK'
  <2>1. /\ UNCHANGED <<fpc, elapsed, deadline, sentStick, seenStick, outgoing, fStop>>
        /\ current' \in Pads /\ changed' \in BOOLEAN /\ fSig' \in BOOLEAN
        /\ \/ UNCHANGED <<events, bufLen, queue, pushedOut, overran>>
           \/ \E n \in Nat \ {0}, q \in Packets : Recorded(n, q)
    BY <1>1, SetRecords
  <2>2. ASSUME NEW n \in Nat \ {0}, NEW q \in Packets, Recorded(n, q)
        PROVE /\ bufLen' \in 0..BufferSize /\ events' \in Nat /\ pushedOut' \in Nat
              /\ overran' \in BOOLEAN /\ queue' \in Seq(Packets) /\ Len(queue') <= QueueSize
    <3>1. CASE queue' = Append(queue, q) /\ Len(queue) < QueueSize /\ pushedOut' = pushedOut
      BY <3>1, <2>2, AppendIs DEF Recorded
    <3>2. CASE queue' = Append(Tail(queue), q) /\ Len(queue) = QueueSize
               /\ pushedOut' = pushedOut + Head(queue).new
      <4>1. queue # <<>>
        BY <3>2
      <4>2. Tail(queue) \in Seq(Packets) /\ Len(Tail(queue)) = Len(queue) - 1 /\ Len(queue) \in Nat
            /\ Head(queue) \in Packets
        BY <4>1, TailIs
      <4>3. Head(queue).new \in Nat
        BY <4>2 DEF Packets
      <4>4. queue' \in Seq(Packets) /\ Len(queue') = Len(Tail(queue)) + 1
        BY <3>2, <4>2, AppendIs
      <4> QED
        BY <2>2, <3>2, <4>2, <4>3, <4>4 DEF Recorded
    <3> QED
      BY <2>2, <3>1, <3>2 DEF Recorded
  <2> QED
    BY <2>1, <2>2
<1>2. ASSUME NEW p \in Pads, FbSet(p), p = current PROVE FTypeOK'
  BY <1>2 DEF FbSet
<1>3. CASE FbStart \/ FbAskStop \/ FbJoined
  <2>1. CASE FbStart
    <3>1. 0 \in 0..BufferSize /\ 0 <= QueueSize
      OBVIOUS
    <3> QED
      BY <2>1, <3>1, IdleIs DEF FbStart
  <2>2. CASE FbAskStop
    BY <2>2 DEF FbAskStop
  <2>3. CASE FbJoined
    <3>1. 0 \in 0..BufferSize /\ 0 <= QueueSize /\ 0 <= 1
      OBVIOUS
    <3>2. /\ outgoing' \in [state : BOOLEAN, stick : Sticks, packets : Seq(Packets)]
          /\ Len(outgoing'.packets) <= 1
      BY <2>3, <3>1, IdleIs DEF FbJoined
    <3> QED
      BY <2>3, <3>1, <3>2, IdleIs DEF FbJoined
  <2> QED
    BY <1>3, <2>1, <2>2, <2>3
<1>4. CASE FWait \/ FWaitOn \/ FEnd \/ FClock
  BY <1>4 DEF FWait, FWaitOn, FEnd, FClock
<1>5. CASE FTake
  <2>1. outgoing' \in [state : BOOLEAN, stick : Sticks, packets : Seq(Packets)]
        /\ Len(outgoing'.packets) <= 1
    <3>1. CASE queue = <<>>
      <4>1. SendsState \in BOOLEAN /\ current.stick \in Sticks
        BY DEF SendsState, Pads
      <4>2. outgoing' = [state |-> SendsState, stick |-> IF SendsState THEN current.stick ELSE Idle,
                         packets |-> <<>>]
        BY <1>5, <3>1 DEF FTake
      <4> QED
        BY <4>1, <4>2, IdleIs
    <3>2. CASE queue # <<>>
      <4>1. Head(queue) \in Packets
        BY <3>2, TailIs
      <4>2. <<Head(queue)>> \in Seq(Packets) /\ Len(<<Head(queue)>>) = 1
        BY <4>1
      <4>3. SendsState \in BOOLEAN /\ current.stick \in Sticks
        BY DEF SendsState, Pads
      <4> QED
        BY <1>5, <3>2, <4>2, <4>3 DEF FTake
    <3> QED
      BY <3>1, <3>2
  <2>2. queue' \in Seq(Packets) /\ Len(queue') <= QueueSize
    BY <1>5, TailIs DEF FTake
  <2> QED
    BY <1>5, <2>1, <2>2 DEF FTake
<1>6. ASSUME NEW a \in BOOLEAN, FSend(a) PROVE FTypeOK'
  <2>1. Nothing \in [state : BOOLEAN, stick : Sticks, packets : Seq(Packets)] /\ Len(Nothing.packets) <= 1
    BY IdleIs
  <2>2. outgoing.stick \in Sticks
    OBVIOUS
  <2> QED
    BY <1>6, <2>1, <2>2 DEF FSend
<1> QED
  BY <1>1, <1>2, <1>3, <1>4, <1>5, <1>6 DEF FStep, FNext, FThread

\* What is sent, or taken and about to be sent, only grows.
LEMMA SentIs ==
    ASSUME NEW a \in BOOLEAN, FSend(a)
    PROVE /\ \A e : e \in sentEvents' <=> e \in sentEvents \/ In(e, outgoing.packets)
          /\ outgoing'.packets = <<>> /\ \A e : ~In(e, outgoing'.packets)
<1>1. sentEvents' = sentEvents \cup
           UNION {p.lo..p.hi : p \in {outgoing.packets[i] : i \in DOMAIN outgoing.packets}}
  BY DEF FSend
<1>2. outgoing'.packets = <<>>
  BY DEF FSend, Nothing
<1> QED
  BY <1>1, <1>2 DEF In

LEMMA NothingStep == FInv /\ FStep => NothingKept'
<1> SUFFICES ASSUME FInv, FStep PROVE NothingKept'
  OBVIOUS
<1> USE DEF FInv, NothingKept
<1>1. ASSUME NEW p \in Pads, FbSet(p), fpc # "off" PROVE NothingKept'
  BY <1>1 DEF FbSet
<1>2. CASE FbStart \/ FbAskStop \/ FbJoined
  BY <1>2 DEF FbStart, FbAskStop, FbJoined
<1>3. CASE FWait \/ FWaitOn \/ FEnd \/ FClock \/ FTake
  BY <1>3 DEF FWait, FWaitOn, FEnd, FClock, FTake, FAwake
<1>4. ASSUME NEW a \in BOOLEAN, FSend(a) PROVE NothingKept'
  BY <1>4 DEF FSend
<1> QED
  BY <1>1, <1>2, <1>3, <1>4 DEF FStep, FNext, FThread

\* The queue stays a gapless row of packets up to the newest event.
LEMMA HistoryStep == FInv /\ FStep => History'
<1> SUFFICES ASSUME FInv, FStep PROVE History'
  OBVIOUS
<1> USE FeedbackAssumption DEF FInv
<1>0. /\ queue \in Seq(Packets) /\ Len(queue) \in Nat /\ DOMAIN queue = 1..Len(queue)
      /\ events \in Nat /\ bufLen \in Nat
      /\ \A i \in 1..Len(queue) : queue[i] \in Packets
  BY DEF FTypeOK
<1>1. ASSUME NEW p \in Pads, FbSet(p), p # current PROVE History'
  <2>1. /\ UNCHANGED <<sentEvents, outgoing>>
        /\ \/ UNCHANGED <<events, bufLen, queue, pushedOut, overran>>
           \/ \E n \in Nat \ {0}, q \in Packets : Recorded(n, q)
    BY <1>1, SetRecords
  <2>2. ASSUME NEW n \in Nat \ {0}, NEW q \in Packets, Recorded(n, q) PROVE History'
    <3>1. events' = events + n /\ InRange(q, events') /\ Before(q) = events
      <4>1. events' = events + n /\ q.hi = events + n /\ q.new = n /\ 1 <= q.lo
        BY <2>2 DEF Recorded
      <4> QED
        BY <1>0, <4>1 DEF InRange, Before
    <3>2. ~overran' => q.lo = 1 \/ q.lo + Resend <= Before(q) + 1
      <4> SUFFICES ASSUME ~overran' PROVE q.lo = 1 \/ q.lo + Resend <= events + 1
        BY <3>1
      <4>1. q.lo = events + 1 - bufLen /\ ~overran
        BY <2>2 DEF Recorded
      <4>2. bufLen = events \/ bufLen = Resend
        BY <4>1 DEF History
      <4> QED
        BY <1>0, <4>1, <4>2
    <3>3. PICK s \in Seq(Packets) :
            /\ queue' = Append(s, q)
            /\ \/ s = queue
               \/ queue # <<>> /\ s = Tail(queue)
      <4>1. CASE queue' = Append(queue, q)
        BY <1>0, <4>1
      <4>2. CASE queue' = Append(Tail(queue), q) /\ Len(queue) = QueueSize
        <5>1. queue # <<>>
          BY <4>2
        <5> QED
          BY <4>2, <5>1, TailIs, <1>0
      <4> QED
        BY <2>2, <4>1, <4>2 DEF Recorded
    <3>4. PICK d \in {0, 1} : /\ Len(s) = Len(queue) - d
                              /\ \A i \in 1..Len(s) : s[i] = queue[i + d]
      <4>1. CASE s = queue
        BY <4>1, <1>0
      <4>2. CASE queue # <<>> /\ s = Tail(queue)
        BY <4>2, <1>0, TailIs
      <4> QED
        BY <3>3, <4>1, <4>2
    <3>5. /\ Len(s) \in Nat /\ Len(queue') = Len(s) + 1 /\ DOMAIN queue' = 1..(Len(s) + 1)
          /\ \A i \in 1..Len(s) : queue'[i] = queue[i + d] /\ i + d \in 1..Len(queue)
          /\ queue'[Len(s) + 1] = q /\ queue' # <<>>
      BY <3>3, <3>4, AppendIs, <1>0
    <3>6. \A i \in DOMAIN queue' : InRange(queue'[i], events')
      <4>1. \A i \in 1..Len(queue) : InRange(queue[i], events')
        <5> SUFFICES ASSUME NEW i \in 1..Len(queue) PROVE InRange(queue[i], events')
          OBVIOUS
        <5>1. InRange(queue[i], events) /\ queue[i].hi \in Nat
          BY <1>0 DEF History, Packets
        <5> QED
          BY <1>0, <3>1, <5>1 DEF InRange
      <4> SUFFICES ASSUME NEW i \in DOMAIN queue' PROVE InRange(queue'[i], events')
        OBVIOUS
      <4>2. CASE i \in 1..Len(s)
        <5>1. queue'[i] = queue[i + d] /\ i + d \in 1..Len(queue)
          BY <3>5, <4>2
        <5> QED
          BY <4>1, <5>1
      <4>3. CASE i = Len(s) + 1
        BY <3>1, <3>5, <4>3
      <4> QED
        BY <3>5, <4>2, <4>3
    <3>7. \A i \in 2..Len(queue') : Before(queue'[i]) = queue'[i - 1].hi
      <4> SUFFICES ASSUME NEW i \in 2..Len(queue') PROVE Before(queue'[i]) = queue'[i - 1].hi
        OBVIOUS
      <4>1. CASE i <= Len(s)
        <5>1. i + d \in 2..Len(queue) /\ queue'[i] = queue[i + d] /\ queue'[i - 1] = queue[(i + d) - 1]
          BY <3>5, <4>1, <1>0
        <5> QED
          BY <5>1 DEF History
      <4>2. CASE i = Len(s) + 1
        <5>1. queue'[i] = q /\ queue'[i - 1] = queue[Len(queue)] /\ queue # <<>>
          BY <3>4, <3>5, <4>2, <1>0
        <5> QED
          BY <3>1, <5>1 DEF History
      <4> QED
        BY <3>5, <4>1, <4>2
    <3>8. queue'[Len(queue')].hi = events'
      BY <2>2, <3>1, <3>5 DEF Recorded
    <3>9. ~overran' => /\ bufLen' \in {events', Resend}
                       /\ \A i \in DOMAIN queue' : queue'[i].lo = 1
                              \/ queue'[i].lo + Resend <= Before(queue'[i]) + 1
      <4> SUFFICES ASSUME ~overran'
                   PROVE /\ bufLen' \in {events', Resend}
                         /\ \A i \in DOMAIN queue' : queue'[i].lo = 1
                              \/ queue'[i].lo + Resend <= Before(queue'[i]) + 1
        OBVIOUS
      <4>1. ~overran /\ (bufLen \in {events, Resend} => bufLen' \in {events', Resend})
        BY <2>2 DEF Recorded
      <4>2. /\ bufLen \in {events, Resend}
            /\ \A i \in DOMAIN queue : queue[i].lo = 1 \/ queue[i].lo + Resend <= Before(queue[i]) + 1
        BY <4>1 DEF History
      <4>3. ASSUME NEW i \in DOMAIN queue'
            PROVE queue'[i].lo = 1 \/ queue'[i].lo + Resend <= Before(queue'[i]) + 1
        <5>1. CASE i <= Len(s)
          BY <1>0, <3>5, <4>2, <5>1
        <5>2. CASE i = Len(s) + 1
          BY <3>2, <3>5, <5>2
        <5> QED
          BY <3>5, <5>1, <5>2
      <4> QED
        BY <4>1, <4>2, <4>3
    <3>10. sentEvents' \subseteq 1..events' 
           /\ \A i \in DOMAIN outgoing'.packets : InRange(outgoing'.packets[i], events')
      <4>1. 1..events \subseteq 1..events'
        BY <1>0, <3>1
      <4>2. ASSUME NEW i \in DOMAIN outgoing.packets PROVE InRange(outgoing.packets[i], events')
        <5>1. InRange(outgoing.packets[i], events) /\ outgoing.packets \in Seq(Packets)
          BY DEF History, FTypeOK
        <5>2. outgoing.packets[i].hi \in Nat
          <6>1. outgoing.packets[i] \in Packets
            BY <4>2, <5>1
          <6> QED
            BY <6>1 DEF Packets
        <5> QED
          BY <1>0, <3>1, <5>1, <5>2 DEF InRange
      <4> QED
        BY <2>1, <4>1, <4>2 DEF History
    <3>11. bufLen' <= Resend /\ bufLen' <= events'
      BY <2>2 DEF Recorded
    <3> QED
      BY <3>6, <3>7, <3>8, <3>9, <3>10, <3>11 DEF History
  <2>3. CASE UNCHANGED <<events, bufLen, queue, pushedOut, overran>>
    BY <2>1, <2>3 DEF History, InRange
  <2> QED
    BY <2>1, <2>2, <2>3
<1>2. ASSUME NEW p \in Pads, FbSet(p), p = current PROVE History'
  <2>1. UNCHANGED fVars
    BY <1>2 DEF FbSet
  <2> QED
    BY <2>1 DEF History
<1>3. CASE FbStart \/ FbAskStop \/ FbJoined
  <2>1. CASE FbStart
    BY <2>1 DEF FbStart, History, NothingKept, InRange
  <2>2. CASE FbAskStop
    BY <2>2 DEF FbAskStop, History, InRange
  <2>3. CASE FbJoined
    BY <2>3, IdleIs DEF FbJoined, History, InRange
  <2> QED
    BY <1>3, <2>1, <2>2, <2>3
<1>4. CASE FWait \/ FWaitOn \/ FEnd \/ FClock \/ UNCHANGED fVars
  <2>1. UNCHANGED <<bufLen, events, sentEvents, queue, outgoing, overran>>
    BY <1>4 DEF FWait, FWaitOn, FEnd, FClock
  <2> QED
    BY <2>1 DEF History
<1>5. CASE FTake
  <2>0. UNCHANGED <<events, bufLen, sentEvents, overran>>
    BY <1>5 DEF FTake
  <2>1. CASE queue = <<>>
    <3>1. queue' = queue /\ outgoing'.packets = <<>>
      BY <1>5, <2>1 DEF FTake
    <3> QED
      BY <2>0, <3>1 DEF History, InRange
  <2>2. CASE queue # <<>>
    <3>1. queue' = Tail(queue) /\ outgoing'.packets = <<queue[1]>>
      BY <1>5, <2>2, TailIs, <1>0 DEF FTake
    <3>2. /\ Len(queue') = Len(queue) - 1 /\ DOMAIN queue' = 1..(Len(queue) - 1)
          /\ \A i \in 1..(Len(queue) - 1) : queue'[i] = queue[i + 1]
      BY <2>2, <3>1, TailIs, <1>0
    <3>3. \A i \in DOMAIN outgoing'.packets : outgoing'.packets[i] = queue[1]
      BY <3>1
    <3>4. \A i \in 2..Len(queue') : Before(queue'[i]) = queue'[i - 1].hi
      <4> SUFFICES ASSUME NEW i \in 2..Len(queue') PROVE Before(queue'[i]) = queue'[i - 1].hi
        OBVIOUS
      <4>1. /\ i + 1 \in 2..Len(queue) /\ queue'[i] = queue[i + 1]
            /\ queue'[i - 1] = queue[(i + 1) - 1]
        BY <3>2, <1>0
      <4> QED
        BY <4>1 DEF History
    <3>5. queue' # <<>> => queue'[Len(queue')].hi = events
      BY <3>2, <1>0, <2>2 DEF History
    <3>6. \A i \in DOMAIN queue' : \E k \in DOMAIN queue : queue'[i] = queue[k]
      <4> SUFFICES ASSUME NEW i \in 1..(Len(queue) - 1) PROVE \E k \in DOMAIN queue : queue'[i] = queue[k]
        BY <3>2
      <4>1. i + 1 \in DOMAIN queue /\ queue'[i] = queue[i + 1]
        BY <3>2, <1>0
      <4> QED
        BY <4>1
    <3>7. 1 \in DOMAIN queue
      BY <2>2, <1>0
    <3>8. /\ \A i \in DOMAIN queue' : InRange(queue'[i], events)
          /\ \A i \in DOMAIN outgoing'.packets : InRange(outgoing'.packets[i], events)
      BY <3>3, <3>6, <3>7 DEF History
    <3>9. ~overran => \A i \in DOMAIN queue' :
              queue'[i].lo = 1 \/ queue'[i].lo + Resend <= Before(queue'[i]) + 1
      BY <3>6 DEF History
    <3> QED
      BY <2>0, <3>4, <3>5, <3>8, <3>9 DEF History
  <2> QED
    BY <2>1, <2>2
<1>6. ASSUME NEW a \in BOOLEAN, FSend(a) PROVE History'
  <2>1. UNCHANGED <<queue, events, bufLen, overran>> /\ outgoing'.packets = <<>>
    BY <1>6, IdleIs DEF FSend
  <2>2. sentEvents' \subseteq 1..events
    <3>1. ASSUME NEW e, In(e, outgoing.packets) PROVE e \in 1..events
      <4>1. PICK i \in DOMAIN outgoing.packets : e \in outgoing.packets[i].lo..outgoing.packets[i].hi
        BY <3>1 DEF In
      <4>2. InRange(outgoing.packets[i], events) /\ outgoing.packets[i] \in Packets
        BY DEF History, FTypeOK
      <4> QED
        BY <1>0, <4>1, <4>2 DEF InRange, Packets
    <3> QED
      BY <1>6, <3>1, SentIs DEF History
  <2> QED
    BY <2>1, <2>2 DEF History, InRange
<1> QED
  BY <1>1, <1>2, <1>3, <1>4, <1>5, <1>6 DEF FStep, FNext, FThread

\* What was handed stays handed.
LEMMA HandedStays ==
    ASSUME NEW n \in Int, Handed(n), UNCHANGED <<sentEvents, outgoing>>
    PROVE Handed(n)'
BY DEF Handed, In

\* The pushed out packets were repeated by those behind them.
LEMMA FrontStep == FInv /\ FStep => FrontIsHanded'
<1> SUFFICES ASSUME FInv, FStep PROVE FrontIsHanded'
  OBVIOUS
<1> USE FeedbackAssumption DEF FInv
<1>0. /\ queue \in Seq(Packets) /\ Len(queue) \in Nat /\ DOMAIN queue = 1..Len(queue)
      /\ events \in Nat /\ pushedOut \in Nat
      /\ \A i \in 1..Len(queue) : queue[i] \in Packets
  BY DEF FTypeOK
<1>1. ASSUME UNCHANGED <<pushedOut, overran, queue, events, sentEvents, outgoing>>
      PROVE FrontIsHanded'
  BY <1>1 DEF FrontIsHanded, Handed, In, Front, Before
<1>2. ASSUME NEW p \in Pads, FbSet(p), p # current PROVE FrontIsHanded'
  <2>1. /\ UNCHANGED <<sentEvents, outgoing>>
        /\ \/ UNCHANGED <<events, bufLen, queue, pushedOut, overran>>
           \/ \E n \in Nat \ {0}, q \in Packets : Recorded(n, q)
    BY <1>2, SetRecords
  <2>2. ASSUME NEW n \in Nat \ {0}, NEW q \in Packets, Recorded(n, q),
               pushedOut' <= Resend, ~overran'
        PROVE Handed(Front)' \/ (queue' # <<>> /\ Handed(Front - pushedOut)')
    <3>1. q.hi - q.new = events
      <4>1. q.hi = events + n /\ q.new = n
        BY <2>2 DEF Recorded
      <4> QED
        BY <1>0, <4>1
    <3>2. ~overran
      BY <2>2 DEF Recorded
    <3>3. CASE queue' = Append(queue, q) /\ pushedOut' = pushedOut
      <4>1. queue' # <<>> /\ Front' = Front
        <5>1. CASE queue = <<>>
          BY <3>1, <3>3, <5>1, AppendIs, <1>0 DEF Front, Before
        <5>2. CASE queue # <<>>
          BY <3>3, <5>2, AppendIs, <1>0 DEF Front, Before
        <5> QED
          BY <5>1, <5>2
      <4>2. Handed(Front) \/ Handed(Front - pushedOut)
        BY <2>2, <3>2, <3>3 DEF FrontIsHanded
      <4> QED
        BY <2>1, <3>3, <4>1, <4>2 DEF Handed, In
    <3>4. CASE queue' = Append(Tail(queue), q) /\ Len(queue) = QueueSize
               /\ pushedOut' = pushedOut + Head(queue).new
      <4>1. queue # <<>> /\ Head(queue) = queue[1] /\ queue[1] \in Packets
        BY <3>4, TailIs, <1>0
      <4>2. Front = queue[1].hi - queue[1].new
        BY <4>1 DEF Front, Before
      <4>3. queue' # <<>> /\ Front' = queue[1].hi
        <5>1. CASE Len(queue) = 1
          <6>1. Tail(queue) \in Seq(Packets) /\ Len(Tail(queue)) = 0
            BY <4>1, <5>1, TailIs, <1>0
          <6>2. queue' # <<>> /\ queue'[1] = q
            <7>1. q \in Packets /\ Len(Tail(queue)) + 1 = 1
              BY <2>2, <6>1
            <7>2. PICK s \in Seq(Packets) : s = Tail(queue)
              BY <6>1
            <7>3. queue' = Append(s, q) /\ Len(s) + 1 = 1
              BY <3>4, <7>1, <7>2
            <7>4. Append(s, q) # <<>> /\ Append(s, q)[Len(s) + 1] = q
              BY <7>1, AppendIs
            <7> QED
              BY <7>3, <7>4
          <6>3. queue[1].hi = events
            BY <4>1, <5>1 DEF History
          <6> QED
            BY <3>1, <6>2, <6>3 DEF Front, Before
        <5>2. CASE Len(queue) > 1
          <6>1. queue' # <<>> /\ queue'[1] = queue[2]
            <7>1. /\ Tail(queue) \in Seq(Packets) /\ Len(Tail(queue)) = Len(queue) - 1
                  /\ \A i \in 1..(Len(queue) - 1) : Tail(queue)[i] = queue[i + 1]
              BY <4>1, TailIs, <1>0
            <7>2. 1 \in 1..(Len(queue) - 1) /\ 1 \in 1..Len(Tail(queue)) /\ 1 + 1 = 2
              BY <1>0, <5>2, <7>1
            <7>3. queue' # <<>> /\ \A i \in 1..Len(Tail(queue)) : queue'[i] = Tail(queue)[i]
              BY <3>4, <7>1, AppendIs
            <7> QED
              BY <7>1, <7>2, <7>3
          <6>2. Before(queue[2]) = queue[2 - 1].hi
            BY <1>0, <5>2 DEF History
          <6> QED
            BY <6>1, <6>2 DEF Front, Before
        <5> QED
          BY <1>0, <4>1, <5>1, <5>2
      <4>4. Handed(Front) \/ Handed(Front - pushedOut)
        BY <1>0, <2>2, <3>2, <3>4, <4>1 DEF FrontIsHanded, Packets
      <4>5. (Front - pushedOut)' = Front - pushedOut
        BY <1>0, <3>4, <4>1, <4>2, <4>3 DEF Packets
      <4>6. Front \in Int /\ Front - pushedOut <= Front
        BY <1>0, <4>1, <4>2 DEF Packets
      <4>7. Handed(Front - pushedOut)
        BY <1>0, <4>4, <4>6 DEF Handed
      <4> QED
        BY <2>1, <4>3, <4>5, <4>7 DEF Handed, In
    <3> QED
      BY <2>2, <3>3, <3>4 DEF Recorded
  <2>3. CASE UNCHANGED <<events, bufLen, queue, pushedOut, overran>>
    BY <1>1, <2>1, <2>3
  <2> QED
    BY <2>1, <2>2, <2>3 DEF FrontIsHanded
<1>3. ASSUME NEW p \in Pads, FbSet(p), p = current PROVE FrontIsHanded'
  BY <1>1, <1>3 DEF FbSet
<1>4. CASE FbStart \/ FbAskStop \/ FbJoined
  <2>1. CASE FbStart
    BY <2>1 DEF FbStart, FrontIsHanded, NothingKept, Front, Handed
  <2>2. CASE FbAskStop
    BY <1>1, <2>2 DEF FbAskStop
  <2>3. CASE FbJoined
    BY <2>3 DEF FbJoined, FrontIsHanded, Front, Handed
  <2> QED
    BY <1>4, <2>1, <2>2, <2>3
<1>5. CASE FWait \/ FWaitOn \/ FEnd \/ FClock \/ UNCHANGED fVars
  BY <1>1, <1>5 DEF FWait, FWaitOn, FEnd, FClock
<1>6. CASE FTake
  <2>0. UNCHANGED <<events, pushedOut, sentEvents, overran>> /\ outgoing = Nothing
    BY <1>6 DEF FTake, FAwake, NothingKept
  <2>1. \A e : ~In(e, outgoing.packets)
    BY <2>0, IdleIs DEF In
  <2>2. CASE queue = <<>>
    <3>1. queue' = queue /\ outgoing'.packets = <<>>
      BY <1>6, <2>2 DEF FTake
    <3> QED
      BY <2>0, <2>1, <2>2, <3>1 DEF FrontIsHanded, Front, Handed, In
  <2>3. CASE queue # <<>>
    <3>1. queue' = Tail(queue) /\ outgoing'.packets = <<queue[1]>>
      BY <1>6, <2>3, TailIs, <1>0 DEF FTake
    <3>2. queue[1] \in Packets /\ InRange(queue[1], events)
      BY <1>0, <2>3 DEF History
    <3>3. Front' = queue[1].hi
      <4>1. CASE Len(queue) = 1
        BY <1>0, <2>0, <2>3, <3>1, <4>1 DEF Front, History
      <4>2. CASE Len(queue) > 1
        <5>1. queue' # <<>> /\ queue'[1] = queue[2]
          <6>1. /\ queue' \in Seq(Packets) /\ Len(queue') = Len(queue) - 1
                /\ \A i \in 1..(Len(queue) - 1) : queue'[i] = queue[i + 1]
            BY <2>3, <3>1, TailIs, <1>0
          <6>2. 1 \in 1..(Len(queue) - 1) /\ 1 + 1 = 2 /\ Len(queue') # 0
            BY <1>0, <4>2, <6>1
          <6>3. queue' # <<>>
            BY <6>2
          <6> QED
            BY <6>1, <6>2, <6>3
        <5>2. Before(queue[2]) = queue[2 - 1].hi
          BY <1>0, <4>2 DEF History
        <5> QED
          BY <5>1, <5>2 DEF Front, Before
      <4> QED
        BY <1>0, <2>3, <4>1, <4>2
    <3>4. \A e : In(e, outgoing'.packets) <=> e \in queue[1].lo..queue[1].hi
      BY <3>1 DEF In
    <3>5. ASSUME pushedOut <= Resend, ~overran, NEW e \in 1..queue[1].hi
          PROVE e \in sentEvents \/ e \in queue[1].lo..queue[1].hi
      <4>1. Handed(Front - pushedOut)
        <5>1. Front \in Int
          BY <2>3, <3>2 DEF Front, Before, InRange
        <5> QED
          BY <1>0, <3>5, <5>1 DEF FrontIsHanded, Handed
      <4>2. Front = Before(queue[1]) /\ Front \in Nat
        BY <2>3, <3>2 DEF Front, InRange
      <4>3. CASE e <= Front - pushedOut
        BY <2>1, <4>1, <4>3 DEF Handed
      <4>4. CASE ~(e <= Front - pushedOut)
        <5>1. queue[1].lo = 1 \/ queue[1].lo + Resend <= Front + 1
          BY <1>0, <2>3, <3>5, <4>2 DEF History
        <5> QED
          BY <1>0, <3>2, <3>5, <4>2, <4>4, <5>1 DEF Packets
      <4> QED
        BY <4>3, <4>4
    <3> QED
      BY <2>0, <3>3, <3>4, <3>5 DEF FrontIsHanded, Handed
  <2> QED
    BY <2>2, <2>3
<1>7. ASSUME NEW a \in BOOLEAN, FSend(a) PROVE FrontIsHanded'
  <2>1. UNCHANGED <<queue, events, pushedOut, overran>>
    BY <1>7 DEF FSend
  <2>2. \A n : Handed(n) => Handed(n)'
    BY <1>7, SentIs DEF Handed
  <2>3. Front' = Front
    BY <2>1 DEF Front, Before
  <2> QED
    BY <2>1, <2>2, <2>3 DEF FrontIsHanded
<1> QED
  BY <1>2, <1>3, <1>4, <1>5, <1>6, <1>7 DEF FStep, FNext, FThread

\* Together they are inductive.
LEMMA FeedbackStep == FInv /\ FStep => FInv'
<1> QED
  BY FTypeStep, NothingStep, HistoryStep, FrontStep DEF FInv

\* A set of numbers that is not empty has a least one.
LEMMA Least ==
    ASSUME NEW T, T \subseteq Nat, T # {}
    PROVE \E m \in T : \A k \in T : m <= k
<1> DEFINE R == {ss \in Nat \X Nat : ss[1] < ss[2]}
<1>1. IsWellFoundedOn(R, Nat)
  BY NatLessThanWellFounded DEF OpToRel
<1>2. \A x, y \in Nat : <<x, y>> \in R <=> x < y
  OBVIOUS
<1> HIDE DEF R
<1>3. PICK m \in T : \A y \in T : ~(<<y, m>> \in R)
  BY WFMin, <1>1
<1>4. \A k \in T : k \in Nat /\ m \in Nat /\ ~(k < m)
  BY <1>2, <1>3
<1> QED
  BY <1>4

\* Every recorded event is in the packet that first holds it, or before the queue.
LEMMA EventsAreKept == FInv => EventsKept
<1> SUFFICES ASSUME FInv, pushedOut <= Resend, ~overran, NEW e \in 1..events
             PROVE e \in sentEvents \/ In(e, queue) \/ In(e, outgoing.packets)
  BY DEF EventsKept
<1> USE FeedbackAssumption DEF FInv
<1>0. /\ Len(queue) \in Nat /\ DOMAIN queue = 1..Len(queue) /\ events \in Nat /\ pushedOut \in Nat
      /\ \A i \in 1..Len(queue) : queue[i] \in Packets
  BY DEF FTypeOK
<1>1. CASE queue = <<>>
  BY <1>1 DEF FrontIsHanded, Handed, Front
<1>2. CASE queue # <<>>
  <2> DEFINE T == {i \in 1..Len(queue) : e <= queue[i].hi}
  <2>1. Len(queue) \in T /\ T \subseteq Nat
    BY <1>0, <1>2 DEF History
  <2>2. PICK m \in T : \A k \in T : m <= k
    BY <2>1, Least
  <2>3. m \in 1..Len(queue) /\ e <= queue[m].hi /\ queue[m] \in Packets
    BY <1>0, <2>2
  <2>4. Before(queue[m]) \in Nat /\ (queue[m].lo = 1 \/ queue[m].lo + Resend <= Before(queue[m]) + 1)
    BY <1>0, <2>3 DEF History, InRange
  <2>5. CASE m = 1
    <3>1. Front = Before(queue[1])
      BY <1>2 DEF Front
    <3>2. Handed(Front - pushedOut)
      BY <1>0, <2>4, <2>5, <3>1 DEF FrontIsHanded, Handed
    <3>3. CASE e <= Front - pushedOut
      BY <3>2, <3>3 DEF Handed
    <3>4. CASE ~(e <= Front - pushedOut)
      <4>1. e \in queue[m].lo..queue[m].hi
        BY <1>0, <2>3, <2>4, <2>5, <3>1, <3>4 DEF Packets
      <4> QED
        BY <1>0, <2>3, <4>1 DEF In
    <3> QED
      BY <3>3, <3>4
  <2>6. CASE m # 1
    <3>1. m - 1 \in 1..Len(queue) /\ ~(m <= m - 1) /\ m \in 2..Len(queue)
      BY <1>0, <2>3, <2>6
    <3>2. ~(e <= queue[m - 1].hi)
      BY <2>2, <3>1
    <3>3. Before(queue[m]) = queue[m - 1].hi
      BY <3>1 DEF History
    <3>4. e \in queue[m].lo..queue[m].hi
      BY <1>0, <2>3, <2>4, <3>2, <3>3 DEF Packets
    <3> QED
      BY <1>0, <2>3, <3>4 DEF In
  <2> QED
    BY <2>5, <2>6
<1> QED
  BY <1>1, <1>2

-----------------------------------------------------------------------------
\* Whatever a step of the system does to the feedback sender is a step of its own.
LEMMA StepOfFeedback == IInv /\ [Next]_vars => FStep
<1> SUFFICES ASSUME IInv, [Next]_vars PROVE FStep
  OBVIOUS
<1> USE DEF IInv, StreamInv, TypeOK, Values, FStep
<1>1. CASE SRun
  <2>1. CASE SIdle
    <3>1. FbSet(pad) /\ spc = "fbSet"
      BY <2>1 DEF SIdle, Replay
    <3>2. fpc # "off"
      BY <3>1 DEF Threads
    <3> QED
      BY <3>1, <3>2
  <2>2. CASE SFeedbackStart \/ SFeedbackStop \/ SFeedbackJoin
    BY <2>2 DEF SFeedbackStart, SFeedbackStop, SFeedbackJoin
  <2>3. CASE ~SIdle /\ ~SFeedbackStart /\ ~SFeedbackStop /\ ~SFeedbackJoin
    BY <1>1, <2>3 DEF SRun, SSleep, SNoReceivers, SNoTakion, SConnect, SConnected,
       SBigFails, SBang, SInfo, SHandshakeFails, SNoFeedback, SEvent, SBeat, SStats, SLoopEnds,
       SDisconnect, SCongestionStop, SCongestionJoin, SClose, SClosed, SFree, SFini, SFiniJoin
  <2> QED
    BY <2>1, <2>2, <2>3
<1>2. CASE TReceive \/ TStop \/ TDies \/ TCallback \/ GEnd \/ AStop \/ UNCHANGED vars
  BY <1>2 DEF TReceive, TStop, TDies, TCallback, TAv, TLifeEvent, TData, GEnd, AStop
<1>3. CASE Feedback(FNext)
  BY <1>3 DEF Feedback
<1>4. CASE ASetPad
  <2>1. CASE active
    <3>1. pad' \in Pads /\ FbSet(pad')
      BY <1>4, <2>1 DEF ASetPad
    <3>2. fpc # "off"
      BY <2>1 DEF Threads
    <3> QED
      BY <3>1, <3>2
  <2>2. CASE ~active
    BY <1>4, <2>2 DEF ASetPad
  <2> QED
    BY <2>1, <2>2
<1> QED
  BY <1>1, <1>2, <1>3, <1>4 DEF Next

\* A stream connection that has not been run satisfies IInv.
LEMMA InitInv == Init => IInv
<1> SUFFICES ASSUME Init PROVE IInv
  OBVIOUS
<1> USE FeedbackAssumption DEF Init, FInit
<1>1. FTypeOK
  <2>1. 0 \in 0..BufferSize /\ 0 <= QueueSize /\ 0 <= 1
    OBVIOUS
  <2> QED
    BY <2>1, IdleIs DEF FTypeOK
<1>2. NothingKept /\ History /\ FrontIsHanded
  BY IdleIs DEF NothingKept, History, FrontIsHanded, Handed, Front
<1>3. Places /\ SFlags
  BY DEF Places, SFlags
<1>4. Values
  BY IdleIs, StreamAssumption DEF Values
<1>5. Threads /\ Progress /\ InfoIsSomewhere /\ EndHasCause /\ CleanEndIsAsked
  BY DEF Threads, Progress, InfoIsSomewhere, EndHasCause, CleanEndIsAsked, Over
<1>6. UsedWhileAlive /\ StreamInfoNotLost /\ EventsKept
  BY DEF UsedWhileAlive, StreamInfoNotLost, EventsKept, Over
<1> QED
  BY <1>1, <1>2, <1>3, <1>4, <1>5, <1>6 DEF IInv, StreamInv, TypeOK, FeedbackInv

\* IInv is inductive.
LEMMA NextInv == IInv /\ [Next]_vars => IInv'
<1> SUFFICES ASSUME IInv, [Next]_vars PROVE IInv'
  OBVIOUS
<1>1. FInv'
  <2>1. FInv
    BY DEF IInv, StreamInv, TypeOK, FeedbackInv, FInv
  <2> QED
    BY <2>1, StepOfFeedback, FeedbackStep
<1>2. EventsKept'
  BY <1>1, EventsAreKept, PTL
<1>3. TypeOK' /\ FeedbackInv'
  BY <1>1, PlacesStep, SFlagsStep, ValuesStep DEF TypeOK, FInv, FeedbackInv
<1>4. StreamInv'
  BY <1>3, ThreadsStep, ProgressStep, InfoIsSomewhereStep, EndHasCauseStep, CleanEndIsAskedStep
     DEF StreamInv
<1> QED
  BY <1>2, <1>4, UsedWhileAliveStep, StreamInfoNotLostStep DEF IInv

\* IInv holds in every reachable state.
LEMMA Invariance == Spec => []IInv
<1> QED
  BY InitInv, NextInv, PTL DEF Spec

\* StreamInv: the types, which threads run at which step of the run, how far the handshake
\* is, where a stream info is kept, why a run ends, and what the feedback sender has queued.
THEOREM StreamSafe == Spec => []StreamInv
<1>1. IInv => StreamInv
  BY DEF IInv
<1> QED
  BY <1>1, Invariance, PTL

\* No callback uses a receiver or a key that is not there, and nothing outlives the run.
THEOREM UsedSafe == Spec => []UsedWhileAlive
<1>1. IInv => UsedWhileAlive
  BY DEF IInv
<1> QED
  BY <1>1, Invariance, PTL

\* A stream info that came early is not waited for.
THEOREM StreamInfoSafe == Spec => []StreamInfoNotLost
<1>1. IInv => StreamInfoNotLost
  BY DEF IInv
<1> QED
  BY <1>1, Invariance, PTL

\* No recorded button event is lost by the queue of history packets, for every size of the
\* queue, of the buffer and of the overlap.
THEOREM EventsSafe == Spec => []EventsKept
<1>1. IInv => EventsKept
  BY DEF IInv
<1> QED
  BY <1>1, Invariance, PTL

=============================================================================
