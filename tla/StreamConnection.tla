--------------------------- MODULE StreamConnection ---------------------------
(***************************************************************************)
(* The stream connection (streamconnection.c): the thread that runs it,    *)
(* from takion's handshake to the teardown, takion's callbacks, the thread *)
(* of congestion control (congestioncontrol.c), the feedback sender        *)
(* (module FeedbackSender) and the application, which stops the stream and *)
(* moves the controller.                                                   *)
(*                                                                         *)
(* The running thread holds stream_connection->state_mutex at the program  *)
(* points of SHolds and feedback_sender_mutex at those of SFeedback; every *)
(* other use of the two is taken and released inside one action.           *)
(***************************************************************************)
EXTENDS FeedbackSender

CONSTANTS
    MaxPads,     \* controller states the application sets
    LinkTimeout  \* CHIAKI_LINK_WATCHDOG_TIMEOUT_MS, in heartbeats

ASSUME StreamAssumption == MaxPads \in Nat /\ LinkTimeout \in Nat \ {0}

VARIABLES
    spc, slept, \* where the running thread is; it found its predicate false
    tpc, msg,   \* takion's thread, and the event it calls back with
    g,          \* the thread of congestion control
    state, finished, failed, shouldStop, remoteDisc, linkDead,
    early,      \* streaminfo_early_buf: "none", or what it holds
    active,     \* feedback_sender_active
    receivers,  \* the audio, haptics and video receiver exist
    crypt,      \* gkcrypt_remote
    quiet,      \* heartbeats since takion last received something
    err,        \* what the run returns
    arrived,    \* history: what the console has sent, of what it sends once
    pad, pads   \* session->controller_state, and how often it was set

sVars == <<spc, slept, state, finished, failed, shouldStop, remoteDisc, linkDead, early,
           active, receivers, crypt, quiet, err>>
tVars == <<tpc, msg, arrived>>
vars  == <<sVars, tVars, g, pad, pads, fVars>>

Waits   == {"connectWait", "bangWait", "infoWait", "idleWait"}
SFeedback == spc \in {"fbSet", "fbJoin"}
\* mutant: the mutex is kept until takion is closed.
HoldsInClose == \/ spc \in Waits /\ ~slept
                \/ spc \in {"fbInit", "fbSet", "fbStop", "fbJoin", "disconnect",
                            "gStop", "gJoin", "close", "tJoin"}
SHolds  == \/ spc \in Waits /\ ~slept
           \/ spc \in {"fbInit", "fbSet", "fbStop", "fbJoin", "disconnect",
                       "gStop", "gJoin"}

\* Events that carry a message of the console, and all events.
Data   == {"bang", "bad_bang", "info", "bad_info", "bye", "quality"}
Events == Data \cup {"connected", "ended", "av"}

Places ==
    /\ spc \in Waits \cup {"start", "fbInit", "fbSet", "event", "stats", "fbStop",
           "fbJoin", "disconnect", "gStop", "gJoin", "close", "tJoin", "free",
           "done", "finiJoin", "finished"}
    /\ tpc \in {"off", "recv", "callback", "gone"} /\ msg \in Events \cup {"none"}
    /\ g \in {"off", "running", "asked", "gone", "joined"}
    /\ state \in {"connect", "bang", "info", "idle"}
SFlags ==
    /\ {slept, finished, failed, shouldStop, remoteDisc, linkDead, active, receivers,
        crypt} \subseteq BOOLEAN
    /\ early \in {"none", "info", "bad_info"}
Values ==
    /\ quiet \in 0..LinkTimeout
    /\ err \in {"success", "timeout", "canceled", "disconnected", "failed"}
    /\ arrived \subseteq Events
    /\ pad \in Pads /\ pads \in 0..MaxPads

TypeOK == FTypeOK /\ Places /\ SFlags /\ Values

\* chiaki_stream_connection_init.
Init ==
    /\ FInit
    /\ spc = "start" /\ slept = FALSE /\ tpc = "off" /\ msg = "none" /\ g = "off"
    /\ state = "idle" /\ finished = FALSE /\ failed = FALSE /\ shouldStop = FALSE
    /\ remoteDisc = FALSE /\ linkDead = FALSE /\ early = "none"
    /\ active = FALSE /\ receivers = FALSE /\ crypt = FALSE /\ quiet = 0
    /\ err = "success" /\ arrived = {} /\ pad = IdlePad /\ pads = 0

-----------------------------------------------------------------------------
(* Waiting on state_cond.                                                  *)

\* state_finished_cond_check.  state_failed is not part of it.
Pred == finished \/ shouldStop \/ remoteDisc

Goto(pc) == spc' = pc /\ slept' = FALSE

status == <<state, finished, failed>>
NewState(st) == state' = st /\ finished' = FALSE /\ failed' = FALSE

SSleep ==
    /\ spc \in Waits /\ ~slept /\ ~Pred
    /\ slept' = TRUE
    /\ UNCHANGED <<spc, status, shouldStop, remoteDisc, linkDead, early,
                   active, receivers, crypt, quiet, err, tVars, g, pad, pads,
                   fVars>>

\* A wait ends with its predicate, or with its time limit: then, too, the
\* predicate may have become true.
Woken(pc)    == spc = pc /\ Pred
TimedOut(pc) == spc = pc /\ slept
Wakes(pc)    == Woken(pc) \/ TimedOut(pc)

-----------------------------------------------------------------------------
(* chiaki_stream_connection_run.                                           *)

sKept == <<shouldStop, remoteDisc, linkDead, early, crypt, quiet>>

\* A receiver cannot be made, and those that could are freed again.
SNoReceivers ==
    /\ spc = "start" /\ Goto("done") /\ err' = "failed"
    /\ UNCHANGED <<status, sKept, active, receivers, tVars, g, pad, pads, fVars>>

\* chiaki_takion_connect fails.
SNoTakion ==
    /\ spc = "start" /\ Goto("free") /\ err' = "failed"
    /\ receivers' = TRUE /\ NewState("connect")
    /\ UNCHANGED <<sKept, active, tVars, g, pad, pads, fVars>>

\* Takion runs, and chiaki_congestion_control_start succeeds or fails.
SConnect ==
    /\ spc = "start"
    /\ receivers' = TRUE /\ NewState("connect")
    /\ tpc' = "recv"
    /\ \/ Goto("connectWait") /\ g' = "running" /\ err' = err
       \/ Goto("close") /\ g' = g /\ err' = "failed"
    /\ UNCHANGED <<sKept, active, msg, arrived, pad, pads, fVars>>

\* The end of the wait for takion's handshake.  A stop leaves by close_takion,
\* with the result of the wait and without stopping congestion control.
SConnected ==
    /\ Wakes("connectWait")
    /\ \E timedOut \in {b \in BOOLEAN : IF b THEN TimedOut(spc) ELSE Woken(spc)} :
           /\ err' = IF timedOut THEN "timeout" ELSE "success"
           /\ \/ shouldStop /\ Goto("close") /\ UNCHANGED status
              \/ ~shouldStop /\ timedOut /\ Goto("gStop") /\ UNCHANGED status
              \/ ~shouldStop /\ ~timedOut /\ Goto("bangWait")
                 /\ NewState("bang")
    /\ UNCHANGED <<sKept, active, receivers, tVars, g, pad, pads, fVars>>

\* ... after which the BIG message cannot be sent.
SBigFails ==
    /\ Woken("connectWait") /\ ~shouldStop
    /\ NewState("bang")
    /\ err' = "failed" /\ Goto("disconnect")
    /\ UNCHANGED <<sKept, active, receivers, tVars, g, pad, pads, fVars>>

\* mutant: the state is reset after the stream info that was kept was replayed.
InfoLost ==
    early' = "none" /\ finished' = FALSE /\ failed' = FALSE /\ Goto("infoWait")

\* A stream info that came before the bang was handled is handled now, which
\* succeeds or fails: it may be malformed, and it is answered.
EarlyInfo ==
    /\ early' = "none"
    /\ \/ early = "info" /\ finished' = TRUE /\ failed' = FALSE /\ Goto("fbInit")
       \/ finished' = FALSE /\ failed' = TRUE /\ Goto("infoWait")

SBang ==
    /\ Wakes("bangWait") /\ ~shouldStop /\ finished
    /\ state' = "info"
    /\ IF early = "none"
       THEN finished' = FALSE /\ failed' = FALSE /\ early' = early /\ Goto("infoWait")
       ELSE EarlyInfo
    /\ UNCHANGED <<shouldStop, remoteDisc, linkDead, crypt, quiet, active,
                   receivers, err, tVars, g, pad, pads, fVars>>

\* The end of the wait for the stream info.
SInfo ==
    /\ Wakes("infoWait") /\ ~shouldStop /\ finished
    /\ Goto("fbInit")
    /\ UNCHANGED <<status, sKept, active, receivers, err, tVars, g, pad,
                   pads, fVars>>

\* Neither came: the console refused, hung up or kept silent, or a stop.
SHandshakeFails ==
    /\ \E pc \in {"bangWait", "infoWait"} : Wakes(pc)
    /\ shouldStop \/ ~finished
    /\ err' = "failed" /\ Goto("disconnect")
    /\ UNCHANGED <<status, sKept, active, receivers, tVars, g, pad, pads, fVars>>

SNoFeedback ==
    /\ spc = "fbInit" /\ err' = "failed" /\ Goto("disconnect")
    /\ UNCHANGED <<status, sKept, active, receivers, tVars, g, pad, pads, fVars>>

SFeedbackStart ==
    /\ spc = "fbInit" /\ FbStart /\ Goto("fbSet")
    /\ UNCHANGED <<status, sKept, active, receivers, err, tVars, g, pad, pads>>

\* mutant: the feedback sender is not told what the controller did before.
NoReplay(p) == UNCHANGED fVars
Replay(p) == FbSet(p)

\* mutant: state_finished is still set when the stream goes idle.
StaleFinished == TRUE
IdleFinished == FALSE

\* The feedback sender gets the state the controller is in, and the stream is up.
SIdle ==
    /\ spc = "fbSet" /\ active' = TRUE /\ Replay(pad)
    /\ state' = "idle" /\ finished' = IdleFinished /\ failed' = FALSE
    /\ Goto("event")
    /\ UNCHANGED <<sKept, receivers, err, tVars, g, pad, pads>>

\* CONNECTED is sent without the mutex, then the link watchdog starts.
SEvent ==
    /\ spc = "event" /\ quiet' = 0 /\ Goto("idleWait")
    /\ UNCHANGED <<status, shouldStop, remoteDisc, linkDead, early,
                   active, receivers, crypt, err, tVars, g, pad, pads, fVars>>

LinkIsDead(n) == n >= LinkTimeout

\* A second has passed: heartbeat and watchdog, then the statistics event, for
\* which the mutex is let go.
SBeat ==
    /\ TimedOut("idleWait")
    /\ quiet' = quiet + 1
    /\ IF LinkIsDead(quiet + 1) THEN linkDead' = TRUE /\ Goto("fbStop")
                                ELSE linkDead' = linkDead /\ Goto("stats")
    /\ UNCHANGED <<status, shouldStop, remoteDisc, early, active,
                   receivers, crypt, err, tVars, g, pad, pads, fVars>>

SStats ==
    /\ spc = "stats" /\ Goto("idleWait")
    /\ UNCHANGED <<status, sKept, active, receivers, err, tVars, g, pad,
                   pads, fVars>>

SLoopEnds ==
    /\ Woken("idleWait") /\ Goto("fbStop")
    /\ UNCHANGED <<status, sKept, active, receivers, err, tVars, g, pad,
                   pads, fVars>>

SFeedbackStop ==
    /\ spc = "fbStop" /\ active' = FALSE /\ FbAskStop /\ Goto("fbJoin")
    /\ UNCHANGED <<status, sKept, receivers, err, tVars, g, pad, pads>>

SFeedbackJoin ==
    /\ spc = "fbJoin" /\ FbJoined /\ err' = "success" /\ Goto("disconnect")
    /\ UNCHANGED <<status, sKept, active, receivers, tVars, g, pad, pads>>

\* disconnect: what the run returns.
SDisconnect ==
    /\ spc = "disconnect" /\ early' = "none"
    /\ err' = CASE shouldStop -> "canceled"
                [] ~shouldStop /\ remoteDisc -> "disconnected"
                [] ~shouldStop /\ ~remoteDisc /\ linkDead -> "timeout"
                [] OTHER -> err
    /\ Goto("gStop")
    /\ UNCHANGED <<status, shouldStop, remoteDisc, linkDead, crypt, quiet,
                   active, receivers, tVars, g, pad, pads, fVars>>

\* err_congestion_control: chiaki_congestion_control_stop, up to its join and after.
SCongestionStop ==
    /\ spc = "gStop" /\ g' = "asked" /\ Goto("gJoin")
    /\ UNCHANGED <<status, sKept, active, receivers, err, tVars, pad,
                   pads, fVars>>

SCongestionJoin ==
    /\ spc = "gJoin" /\ g = "gone" /\ g' = "joined" /\ Goto("close")
    /\ UNCHANGED <<status, sKept, active, receivers, err, tVars, pad,
                   pads, fVars>>

\* close_takion: chiaki_takion_close asks takion's thread to end and joins it.
SClose ==
    /\ spc = "close" /\ Goto("tJoin")
    /\ UNCHANGED <<status, sKept, active, receivers, err, tVars, g, pad,
                   pads, fVars>>

\* mutant: the thread is not joined.
TakionLeft == tpc' = tpc
TakionJoined == tpc = "gone" /\ tpc' = "off"

SClosed ==
    /\ spc = "tJoin" /\ TakionJoined /\ Goto("free")
    /\ UNCHANGED <<status, sKept, active, receivers, err, msg, arrived, g,
                   pad, pads, fVars>>

\* err_video_receiver to the end.
SFree ==
    /\ spc = "free" /\ receivers' = FALSE /\ Goto("done")
    /\ UNCHANGED <<status, sKept, active, err, tVars, g, pad, pads, fVars>>

\* chiaki_stream_connection_fini, once the run is over: a thread of congestion
\* control that is still there is stopped now.
SFini ==
    /\ spc = "done" /\ crypt' = FALSE
    /\ IF g = "running" THEN g' = "asked" /\ Goto("finiJoin")
                        ELSE g' = g /\ Goto("finished")
    /\ UNCHANGED <<status, shouldStop, remoteDisc, linkDead, early, quiet,
                   active, receivers, err, tVars, pad, pads, fVars>>

SFiniJoin ==
    /\ spc = "finiJoin" /\ g = "gone" /\ g' = "joined" /\ Goto("finished")
    /\ UNCHANGED <<status, sKept, active, receivers, err, tVars, pad,
                   pads, fVars>>

SRun == \/ SSleep \/ SNoReceivers \/ SNoTakion \/ SConnect \/ SConnected
        \/ SBigFails \/ SBang \/ SInfo \/ SHandshakeFails \/ SNoFeedback
        \/ SFeedbackStart \/ SIdle \/ SEvent \/ SBeat \/ SStats \/ SLoopEnds
        \/ SFeedbackStop \/ SFeedbackJoin \/ SDisconnect \/ SCongestionStop
        \/ SCongestionJoin \/ SClose \/ SClosed \/ SFree \/ SFini \/ SFiniJoin

-----------------------------------------------------------------------------
(* Takion's thread.                                                        *)

\* What the console can send: nothing before the handshake, an answer to BIG and
\* the stream info once each and not before BIG, and no picture before the key.
CanArrive(e) ==
    CASE e = "connected" -> "connected" \notin arrived
      [] e = "av"        -> crypt
      [] e = "quality"   -> "connected" \in arrived
      [] e = "bye"       -> "connected" \in arrived /\ "bye" \notin arrived
      [] e \in {"bang", "bad_bang"} ->
             /\ "connected" \in arrived /\ state # "connect"
             /\ arrived \cap {"bang", "bad_bang"} = {}
      [] e \in {"info", "bad_info"} ->
             /\ "connected" \in arrived /\ state # "connect"
             /\ arrived \cap {"info", "bad_info"} = {}

\* Nothing is received any more once takion was asked to stop.
TReceive ==
    /\ tpc = "recv" /\ spc # "tJoin"
    /\ \E e \in Events \ {"ended"} :
           CanArrive(e) /\ msg' = e /\ arrived' = arrived \cup ({e} \ {"av", "quality"})
    /\ tpc' = "callback" /\ quiet' = 0
    /\ UNCHANGED <<spc, slept, status, shouldStop, remoteDisc, linkDead, early,
                   active, receivers, crypt, err, g, pad, pads, fVars>>

TStop ==
    /\ tpc = "recv" /\ spc = "tJoin"
    /\ tpc' = "callback" /\ msg' = "ended"
    /\ UNCHANGED <<sVars, arrived, g, pad, pads, fVars>>

\* The handshake fails, or the socket: takion's thread ends by itself.
TDies ==
    /\ tpc = "recv" /\ spc # "tJoin"
    /\ tpc' = "callback" /\ msg' = "ended"
    /\ UNCHANGED <<sVars, arrived, g, pad, pads, fVars>>

\* stream_connection_takion_av, and the events that take no mutex.
TAv ==
    /\ tpc = "callback" /\ msg = "av"
    /\ tpc' = "recv" /\ msg' = "none"
    /\ UNCHANGED <<sVars, arrived, g, pad, pads, fVars>>

\* CONNECTED and DISCONNECT matter to the wait for the handshake only.
TLifeEvent ==
    /\ tpc = "callback" /\ msg \in {"connected", "ended"} /\ ~SHolds
    /\ IF state = "connect" THEN finished' = (msg = "connected") /\ failed' = (msg = "ended")
                            ELSE UNCHANGED <<finished, failed>>
    /\ tpc' = (IF msg = "ended" THEN "gone" ELSE "recv") /\ msg' = "none"
    /\ UNCHANGED <<spc, slept, state, shouldStop, remoteDisc, linkDead, early,
                   active, receivers, crypt, quiet, err, arrived, g, pad, pads, fVars>>

\* stream_connection_takion_data_handle_disconnect.
Bye == remoteDisc' = TRUE /\ UNCHANGED <<finished, failed, early, crypt>>

\* stream_connection_takion_data_expect_bang, with stream_connection_init_crypt.
ExpectBang ==
    CASE msg = "bang"     -> /\ finished' = TRUE /\ crypt' = TRUE
                             /\ UNCHANGED <<failed, early, remoteDisc>>
      [] msg = "bad_bang" -> failed' = TRUE /\ UNCHANGED <<finished, early, crypt, remoteDisc>>
      [] msg \in {"info", "bad_info"} ->
             /\ early' = IF early = "none" THEN msg ELSE early
             /\ UNCHANGED <<finished, failed, crypt, remoteDisc>>
      [] msg = "bye"      -> Bye
      [] OTHER            -> UNCHANGED <<finished, failed, early, crypt, remoteDisc>>

\* stream_connection_takion_data_expect_streaminfo.
ExpectStreamInfo ==
    CASE msg = "info"     -> /\ \/ finished' = TRUE /\ failed' = failed
                                \/ failed' = TRUE /\ finished' = finished
                             /\ UNCHANGED <<early, crypt, remoteDisc>>
      [] msg = "bad_info" -> failed' = TRUE /\ UNCHANGED <<finished, early, crypt, remoteDisc>>
      [] msg = "bye"      -> Bye
      [] OTHER            -> UNCHANGED <<finished, failed, early, crypt, remoteDisc>>

\* stream_connection_takion_data_idle.
DataIdle ==
    IF msg = "bye" THEN Bye ELSE UNCHANGED <<finished, failed, early, crypt, remoteDisc>>

\* stream_connection_takion_data_protobuf.
TData ==
    /\ tpc = "callback" /\ msg \in Data /\ ~SHolds
    /\ CASE state = "bang" -> ExpectBang
         [] state = "info" -> ExpectStreamInfo
         [] OTHER          -> DataIdle
    /\ tpc' = "recv" /\ msg' = "none"
    /\ UNCHANGED <<spc, slept, state, shouldStop, linkDead, active, receivers,
                   quiet, err, arrived, g, pad, pads, fVars>>

TCallback == TAv \/ TLifeEvent \/ TData

-----------------------------------------------------------------------------
(* Congestion control, the feedback sender and the application.            *)

\* congestion_control_thread_func leaves its loop when it is asked to.
GEnd ==
    /\ g = "asked" /\ g' = "gone"
    /\ UNCHANGED <<sVars, tVars, pad, pads, fVars>>

Feedback(A) == A /\ UNCHANGED <<sVars, tVars, g, pad, pads>>

\* chiaki_session_stop: chiaki_stream_connection_stop.
AStop ==
    /\ ~shouldStop /\ ~SHolds /\ spc # "finished"
    /\ shouldStop' = TRUE
    /\ UNCHANGED <<spc, slept, status, remoteDisc, linkDead, early, active,
                   receivers, crypt, quiet, err, tVars, g, pad, pads, fVars>>

\* chiaki_session_set_controller_state.  Once the stream winds up it only stores
\* what nobody reads again.
ASetPad ==
    /\ pads < MaxPads /\ ~SFeedback
    /\ spc \in Waits \cup {"start", "event", "stats", "fbInit", "fbStop"}
    /\ pads' = pads + 1
    /\ pad' \in Pads \ {pad}
    /\ IF active THEN FbSet(pad') ELSE UNCHANGED fVars
    /\ UNCHANGED <<sVars, tVars, g>>

Next == \/ SRun \/ TReceive \/ TStop \/ TDies \/ TCallback \/ GEnd
        \/ Feedback(FNext) \/ AStop \/ ASetPad

\* Threads run, waits with a time limit end, and time passes.  The console and the
\* application owe nothing.  A state that is sent again and again arrives at last.
Fairness ==
    /\ WF_vars(SRun) /\ WF_vars(TStop \/ TCallback) /\ WF_vars(GEnd)
    /\ WF_vars(Feedback(FThread)) /\ WF_vars(Feedback(FClock))
    /\ SF_vars(Feedback(outgoing.state /\ FSend(TRUE)))

Spec == Init /\ [][Next]_vars /\ Fairness

-----------------------------------------------------------------------------
Over == spc \in {"done", "finiJoin", "finished"}

\* A callback finds the receivers it hands packets to, and the key; the feedback
\* sender is gone before its takion closes; nothing is left running at the end.
UsedWhileAlive ==
    /\ tpc = "callback" /\ msg \in {"av", "quality", "info"} => receivers
    /\ tpc = "callback" /\ msg = "av" => crypt
    /\ spc \in {"close", "tJoin", "free"} \/ Over => fpc = "off"
    /\ spc = "finished" => g \in {"off", "joined"} /\ tpc = "off"

\* Whatever the order of bang and stream info, a stream info that takion has handed
\* over is not waited for: it was handled.
StreamInfoNotLost ==
    /\ spc = "infoWait" /\ "info" \in arrived /\ ~(tpc = "callback" /\ msg = "info")
    => finished \/ failed

\* A run that ends with SUCCESS or CANCELED, which the session reports as a stop, was
\* asked to stop.
CleanEndIsAsked == Over /\ err \in {"success", "canceled"} => shouldStop

\* Takion's thread, congestion control and the feedback sender run only between the steps
\* that start and join them.
Threads ==
    /\ tpc # "off" => receivers /\ spc \notin {"start", "free"} /\ ~Over
    /\ g \in {"asked", "gone"} => spc \in {"gJoin", "finiJoin"}
    /\ spc = "finished" => g # "running"
    /\ spc \in {"fbSet", "event", "idleWait", "stats", "fbStop", "fbJoin"} <=> fpc # "off"
    /\ active => spc \in {"event", "idleWait", "stats", "fbStop"}

\* How far the handshake is, for each wait of the running thread.
Progress ==
    /\ spc = "start" => state = "idle" /\ arrived = {}
    /\ spc = "connectWait" => state = "connect"
    /\ state = "connect" => "info" \notin arrived
    /\ spc = "bangWait" => state = "bang"
    /\ spc \in {"infoWait", "fbInit", "fbSet"} => state = "info"
    /\ spc \in {"event", "idleWait", "stats"} => state = "idle" /\ ~finished
    /\ spc \in {"idleWait", "stats"} => quiet < LinkTimeout

\* Where a stream info is that has arrived.
InfoIsSomewhere ==
    "info" \in arrived =>
        \/ tpc = "callback" /\ msg = "info"
        \/ state = "bang" /\ (early # "none" \/ spc # "bangWait")
        \/ state = "info" /\ (finished \/ failed)
        \/ state = "idle"

\* Why the run ends.
EndHasCause ==
    /\ err = "canceled" => shouldStop
    /\ spc \in {"fbStop", "fbJoin"} \/ (spc = "disconnect" /\ err = "success") =>
           shouldStop \/ remoteDisc \/ linkDead
    /\ spc \in {"gStop", "gJoin", "close", "tJoin", "free"} /\ err = "success" => shouldStop

\* What holds of the stream connection in every state; with the properties above it is
\* inductive.
StreamInv ==
    /\ TypeOK /\ CleanEndIsAsked
    /\ Threads /\ Progress /\ InfoIsSomewhere /\ EndHasCause /\ FeedbackInv

\* The run returns after a stop, after the console has hung up and after takion's
\* thread has ended, in whatever state it is: no join and no mutex holds it up.
RunReturns == shouldStop \/ remoteDisc \/ tpc = "gone" ~> Over

\* Settled: the console has the stick position of the controller, and every event of a
\* button was handed to takion, as far as the queue kept it.
Settled ==
    /\ seenStick = pad.stick /\ queue = <<>>
    /\ pushedOut <= Resend /\ ~overran => sentEvents = 1..events

\* What the controller was set to, before the stream or during it, reaches the console
\* while the stream lasts, although datagrams are lost (the application sets MaxPads
\* states and then none).
PadReachesConsole == []<>(active => Settled)
=============================================================================
