----------------------------- MODULE SwapVerdict -----------------------------
(***************************************************************************)
(* What the radio thread makes of a hold/accept or a swap it asked for     *)
(* (crates/aokie-plugin/src/radio/switchboard.rs).  AT+CHLD=2 has no       *)
(* answer that says what it did: the verdict is read off a snapshot of     *)
(* the callheld indicator, the knock still waiting, whether a call is in   *)
(* the foreground (alive), and the phone's call list where one arrived     *)
(* since the wait began (listed, legs).                                    *)
(***************************************************************************)
EXTENDS Naturals, Sequences

CONSTANTS NoCaller     \* no number known

\* Leg states of a +CLCC line.
Active == 0
Held == 1

LegsIn(snapshot, status) ==
    SelectSeq(snapshot.legs, LAMBDA leg : leg.status = status)

\* judge_accept: did the phone hold the primary and take the knock?
judge_accept(snapshot, knock) ==
    CASE ~snapshot.alive -> "PrimaryGone"
      [] snapshot.alive /\ snapshot.waiting # knock /\ snapshot.callheld = 1 ->
            "Accepted"
      [] snapshot.alive /\ snapshot.callheld = 2 -> "HeldAlone"
      [] snapshot.alive /\ snapshot.callheld # 2 /\ snapshot.waiting = knock ->
            "NothingChanged"
      [] OTHER -> "KnockGone"

\* Mutant of resolve_swap_back_by_indicator: nothing held, nobody there.
resolve_swap_back_by_indicator_zero(snapshot) ==
    CASE snapshot.callheld = 2 -> "ActiveDied"
      [] snapshot.callheld = 0 -> "AllGone"
      [] OTHER -> "Swapped"

\* resolve_swap_back_by_indicator.
resolve_swap_back_by_indicator(snapshot) ==
    CASE snapshot.callheld = 2 -> "ActiveDied"
      [] snapshot.callheld = 0 /\ snapshot.alive -> "NewcomerAlone"
      [] snapshot.callheld # 2 /\ ~snapshot.alive -> "AllGone"
      [] OTHER -> "Swapped"

\* The list has an active leg: whose is it?  Only two known numbers are equal.
ByActiveLeg(snapshot, primary, newcomer) ==
    LET a == Head(LegsIn(snapshot, Active)).number
        alone == LegsIn(snapshot, Held) = <<>>
    IN CASE a # NoCaller /\ a = primary ->
               IF alone THEN "SwappedNewcomerGone" ELSE "Swapped"
         [] a # NoCaller /\ a # primary /\ a = newcomer ->
               IF alone THEN "NewcomerAlone" ELSE "StayedOnNewcomer"
         [] a # NoCaller /\ NoCaller \notin {primary, newcomer}
               /\ a \notin {primary, newcomer} -> "StrangerActive"
         [] OTHER -> IF alone THEN "NewcomerAlone"
                     ELSE resolve_swap_back_by_indicator(snapshot)

\* judge_swap_back: who is on the line after the swap back?
judge_swap_back(snapshot, primary, newcomer) ==
    LET actives == LegsIn(snapshot, Active)
        helds == LegsIn(snapshot, Held)
    IN CASE ~snapshot.listed -> resolve_swap_back_by_indicator(snapshot)
         [] snapshot.listed /\ actives = <<>> /\ helds = <<>> ->
               IF snapshot.callheld = 0 THEN "AllGone" ELSE "Inconclusive"
         [] snapshot.listed /\ actives = <<>> /\ helds # <<>> ->
               IF snapshot.callheld = 2 THEN "ActiveDied" ELSE "Inconclusive"
         [] snapshot.listed /\ actives # <<>> /\ helds = <<>>
               /\ snapshot.callheld = 1 -> "Inconclusive"
         [] OTHER -> ByActiveLeg(snapshot, primary, newcomer)

\* swap_back_verdict_for_tracker: a verdict that the newcomer's call is there,
\* where no session is.
swap_back_verdict_for_tracker(verdict, live) ==
    CASE live -> verdict
      [] ~live /\ verdict = "Swapped" -> "SwappedNewcomerGone"
      [] ~live /\ verdict = "StayedOnNewcomer" -> "ActiveDied"
      [] ~live /\ verdict = "NewcomerAlone" -> "AllGone"
      [] OTHER -> verdict
=============================================================================
