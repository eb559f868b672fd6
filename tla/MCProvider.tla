------------------------------ MODULE MCProvider ------------------------------
(* An instance of Provider for TLC. *)
EXTENDS Provider

\* What happens in one behaviour: HyperDX, the Secret and the Alerts are moved under the Job and
\* the seeder; RCA calls share the JWT while the clock runs; a comparison shares it with one.
MCBudgets ==
    { [faults |-> 0, moves |-> 3, crashes |-> 0, asks |-> 0, firings |-> 0, ticks |-> 0],
      [faults |-> 1, moves |-> 2, crashes |-> 0, asks |-> 0, firings |-> 0, ticks |-> 0],
      [faults |-> 2, moves |-> 1, crashes |-> 0, asks |-> 0, firings |-> 0, ticks |-> 0],
      [faults |-> 1, moves |-> 1, crashes |-> 1, asks |-> 0, firings |-> 0, ticks |-> 0],
      [faults |-> 1, moves |-> 0, crashes |-> 1, asks |-> 2, firings |-> 0, ticks |-> 1],
      [faults |-> 0, moves |-> 0, crashes |-> 0, asks |-> 1, firings |-> 1, ticks |-> 0],
      [faults |-> 1, moves |-> 0, crashes |-> 0, asks |-> 0, firings |-> 1, ticks |-> 0] }

=============================================================================
