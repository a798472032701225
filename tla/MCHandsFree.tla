---------------------------- MODULE MCHandsFree -----------------------------
(* Small instances of HandsFree for TLC. *)
EXTENDS HandsFree, TLC

CallerSymmetry == Permutations(Callers)

Quietly == [changes |-> 0, omissions |-> 0, commands |-> 0, dials |-> 0,
            timeouts |-> 0, reconnects |-> 0, wire |-> 0, callers |-> 2]

\* Two callers and a command, with the link lost once; one caller and two
\* commands; and a dial and a command, one of them answered too late.
KnocksAndCommands ==
    {[Quietly EXCEPT !.changes = 4, !.commands = 1, !.reconnects = 1, !.wire = 1],
     [Quietly EXCEPT !.changes = 4, !.commands = 2, !.callers = 1],
     [Quietly EXCEPT !.changes = 2, !.commands = 1, !.dials = 1, !.timeouts = 1,
                     !.callers = 1]}

\* An indicator update is lost.
OneOmission == {[Quietly EXCEPT !.changes = 3, !.omissions = 1]}

\* Calls alone.
FiveChanges == {[Quietly EXCEPT !.changes = 5, !.wire = 1]}
=============================================================================
