------------------------- MODULE MCServiceProvider -------------------------
(* The instance of ServiceProvider that TLC checks. *)
EXTENDS ServiceProvider

CONSTANTS v4, v6

\* A host with both addresses, and one that has lost IPv4.  One without any is like the
\* latter to Avahi, and like a failed request or a third address to the others.
MCHosts == {{v6}, {v4, v6}}

\* Requests differ in what they ask and were answered only.
MCSymmetry == Permutations(Tasks)
=============================================================================
