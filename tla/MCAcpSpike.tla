---------------------------- MODULE MCAcpSpike ----------------------------
(* A small instance of AcpSpike for TLC.                                    *)
EXTENDS AcpSpike

CONSTANTS echo, n1, n2

\* What goose offers: with and without an allow_once, nothing.
MCOptionLists ==
  {<<"allow_always", "allow_once">>, <<"allow_always", "reject_once">>, << >>}
=============================================================================
