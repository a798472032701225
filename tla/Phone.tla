------------------------------- MODULE Phone --------------------------------
(***************************************************************************)
(* The paired phone, as far as the hands-free side can tell: who is on the *)
(* line, the three call indicators, and what the phone does with a call-   *)
(* control command.  The phone is not part of the repository; it is        *)
(* modelled from what hfp.rs and radio/switchboard.rs say it does.         *)
(*                                                                         *)
(* At most one call is active, one held and one being set up (an incoming  *)
(* ring or knock, or a call being dialed).                                 *)
(***************************************************************************)
EXTENDS Integers, Sequences, SequencesExt

CONSTANTS Callers, NoCaller

Setups == {"none", "in", "dial", "alert"}

Line == [active : Callers \cup {NoCaller}, held : Callers \cup {NoCaller},
         setup : Callers \cup {NoCaller}, dir : Setups]

IdleLine == [active |-> NoCaller, held |-> NoCaller,
             setup |-> NoCaller, dir |-> "none"]

OnLine(l) == {l.active, l.held, l.setup} \ {NoCaller}
CallIsUp(l) == l.active # NoCaller \/ l.held # NoCaller

\* The indicator values the phone shows.
Indicator(l) ==
    [call |-> IF CallIsUp(l) THEN 1 ELSE 0,
     callsetup |-> CASE l.dir = "none" -> 0 [] l.dir = "in" -> 1
                     [] l.dir = "dial" -> 2 [] l.dir = "alert" -> 3,
     callheld |-> CASE l.held = NoCaller -> 0
                    [] l.held # NoCaller /\ l.active # NoCaller -> 1
                    [] OTHER -> 2]

\* The indicators that differ between two states of the line.
Changed(l, m) == {i \in {"call", "callsetup", "callheld"} :
                      Indicator(l)[i] # Indicator(m)[i]}

SetUp(l, c, dir) == [l EXCEPT !.setup = c, !.dir = dir]
SetupOver(l) == [l EXCEPT !.setup = NoCaller, !.dir = "none"]

\* The call being set up is answered; who was active is held, and a call held
\* before that is dropped by the network.
Answered(l) ==
    [SetupOver(l) EXCEPT !.active = l.setup,
                         !.held = IF l.active = NoCaller THEN @ ELSE l.active]

\* AT+CHLD=2: the knock is accepted, or else active and held change places.
HoldAndAccept(l) ==
    IF l.dir = "in" THEN Answered(l)
    ELSE [l EXCEPT !.active = l.held, !.held = l.active]

\* AT+CHUP: the active call ends, or the setup is refused.
HungUp(l) ==
    IF l.active # NoCaller THEN [l EXCEPT !.active = NoCaller]
    ELSE SetupOver(l)
=============================================================================
