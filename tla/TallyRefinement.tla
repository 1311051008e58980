-------------------------- MODULE TallyRefinement ---------------------------
(***************************************************************************)
(* The step-by-step tally handler (TallyHandler) implements the order-free *)
(* specification of TallyAbstract.                                         *)
(*                                                                         *)
(* The handler deletes each vote as it counts it, so the refinement       *)
(* mapping needs the votes the proposal started with: the history         *)
(* variable ballot records them and never changes.  Until the handler     *)
(* decides, the abstract tally has not run; at that step the abstract     *)
(* TallyStep happens, and the handler's results and total must be the     *)
(* closed-form tally of the ballot, whatever order the vote store and the *)
(* Go map took.                                                           *)
(***************************************************************************)
EXTENDS TallyHandler

VARIABLE ballot

refVars == <<vars, ballot>>

InitR == Init /\ ballot = votes
NextR == Next /\ UNCHANGED ballot

\* Tally is one synchronous call that x/gov makes at the end of the voting
\* period: no step of it waits for anything, so once begun it runs to the
\* end (weak fairness of the handler's steps).
SpecR == InitR /\ [][NextR]_refVars /\ WF_refVars(NextR)

Abs == INSTANCE TallyAbstract WITH
         ballot  <- IF phase = "done" THEN votes ELSE ballot,
         decided <- phase = "done",
         tally   <- IF phase = "done"
                    THEN [res |-> results, total |-> totalVotingPower]
                    ELSE [res |-> [o \in Options |-> 0], total |-> 0],
         outcome <- outcome

\* Whatever order the vote store yields the votes in and Go's map yields
\* the validators in, the handler eventually consumes every vote and
\* decides, and its per-option results, total power and decision are the
\* order-free tally of the proposal's votes (lines 67-185).
TallyRefinesAbstract == Abs!SpecDecides

YesVote == {[option |-> "yes", weight |-> ToDec(1)]}

\* Spec, "Tally monotonicity": adding a Yes vote never decreases the Yes
\* accumulator nor the total voting power.  Once the handler has decided,
\* the tally it would have produced had one more account voted Yes is
\* compared with the one it produced.
YesMonotonic ==
    phase = "done" =>
        \A a \in Accounts :
            ballot[a] = NoVote =>
                LET more == Abs!ClosedTally([ballot EXCEPT ![a] = YesVote])
                IN  /\ more.res["yes"] >= results["yes"]
                    /\ more.total >= totalVotingPower

=============================================================================
