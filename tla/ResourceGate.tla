----------------------------- MODULE ResourceGate -----------------------------
(***************************************************************************)
(* What PLE-490 and PLE-502 (comments in lib/include/chiaki/takion.h) ask  *)
(* of a resource that the takion thread owns while other threads use it:   *)
(* users are let in only while the resource admits them, and it is         *)
(* destroyed only when nobody is inside.  TakionLifecycle implements this  *)
(* twice, for the send buffer and for the socket.                          *)
(***************************************************************************)
CONSTANT Users
VARIABLES
    alive,      \* the resource exists
    admits,     \* users are let in
    inside      \* the users that are working on it

gateVars == <<alive, admits, inside>>

GateTypeOK == alive \in BOOLEAN /\ admits \in BOOLEAN /\ inside \subseteq Users

GateInit == alive = FALSE /\ admits = FALSE /\ inside = {}

\* The resource may come into existence with or without being open for users.
Create ==
    /\ ~alive /\ alive' = TRUE
    /\ admits' \in BOOLEAN /\ UNCHANGED inside

Open ==
    /\ alive /\ admits' = TRUE /\ UNCHANGED <<alive, inside>>

Enter(u) ==
    /\ alive /\ admits /\ u \notin inside
    /\ inside' = inside \cup {u} /\ UNCHANGED <<alive, admits>>

Leave(u) ==
    /\ u \in inside
    /\ inside' = inside \ {u} /\ UNCHANGED <<alive, admits>>

Shut ==
    /\ admits' = FALSE /\ UNCHANGED <<alive, inside>>

Destroy ==
    /\ alive /\ inside = {}
    /\ alive' = FALSE /\ admits' = FALSE /\ UNCHANGED inside

GateNext == \/ Create \/ Open \/ Shut \/ Destroy
            \/ \E u \in Users : Enter(u) \/ Leave(u)

GateSpec == GateInit /\ [][GateNext]_gateVars
===============================================================================
