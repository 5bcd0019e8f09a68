------------------------------ MODULE MCDevice ------------------------------
(* Small instances of Device for TLC.                                      *)
EXTENDS Device

CONSTANTS connection, configProcess, n1, n2, reader, t1, t2

\* What the driver does and what its configuration holds.  No action looks at what the
\* client shows, nor at the other parts of the history or at what a frame says; a run
\* about the configuration alone takes two states that differ only there for one.
WithoutClient ==
  <<properties, startup, config, tasks, Len(outbox), kept, due>>

=============================================================================
