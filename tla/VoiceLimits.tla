---------------------------- MODULE VoiceLimits -----------------------------
(* What the tables of sessions of runtime.rs and studio.rs have in common.  *)
CONSTANTS
  Ids,         \* the ids that may be drawn for sessions
  Sweepers,    \* tasks that call sweep_idle over and over
  MaxSessions
=============================================================================
