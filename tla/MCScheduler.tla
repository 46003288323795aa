----------------------------- MODULE MCScheduler -----------------------------
(* Instances of Scheduler for TLC. *)
EXTENDS Scheduler, TLC

\* The probing threads differ in nothing.
TestSymmetry == Permutations(Tests)

\* Whether the input collector runs is left out: no step asks for it.
CaptureView == <<pc, tick, ifaceVars, flagVars, probeVars, lockVars, psmnVars,
                 listed, recent, kills, imapVars>>
=============================================================================
