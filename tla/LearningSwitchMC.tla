-------------------------- MODULE LearningSwitchMC --------------------------
(* Values of the constants of LearningSwitch for TLC. *)
EXTENDS LearningSwitch

\* every program but msg10, whose handlers and timeouts are those of raw
MCPrograms == AllPrograms \ {"msg10"}

=============================================================================
