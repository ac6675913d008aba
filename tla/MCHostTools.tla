----------------------------- MODULE MCHostTools -----------------------------
(* One account's life: two releases, two plans, two backup runs.               *)
EXTENDS HostTools, TLC

CONSTANTS plain, halted, enabled, p1, p2, b1, b2, old, new

MCSettings == {plain, halted, enabled}
MCDisabled == {plain, halted}
MCHalted == {halted}
MCPlans == {p1, p2}
MCRuns == {b1, b2}
MCReleases == {old, new}
=============================================================================
