--------------------------- MODULE MCSessionLease ---------------------------
(* Three runtimes: two processes of one host, and one opaque owner. *)
EXTENDS SessionLease

CONSTANTS a, b, c

MCOwners == {a, b, c}
MCHost == [o \in MCOwners |-> IF o = c THEN "opaque" ELSE "h1"]
=============================================================================
