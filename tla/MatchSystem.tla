---------------------------- MODULE MatchSystem ----------------------------
(***************************************************************************)
(* The match server: the pipeline of its two threads, and the roster,      *)
(* which the converter is meant to reach and does not yet.                 *)
(***************************************************************************)
EXTENDS MatchPipeline, MatchRoster

vars == <<pipelineVars, rosterVars>>

TypeOK == PipelineTypeOK /\ RosterTypeOK

Init == PipelineInit /\ RosterInit

AcceptorStep  == startReceiving /\ UNCHANGED rosterVars
ConverterStep == convert /\ UNCHANGED rosterVars
RosterStep    == \E rating \in Ratings : addClient(rating) /\ UNCHANGED pipelineVars

Next == AcceptorStep \/ ConverterStep \/ RosterStep

Spec == Init /\ [][Next]_vars

\* Both threads run for ever.
FairSpec == Spec /\ WF_vars(AcceptorStep) /\ WF_vars(ConverterStep)

=============================================================================
