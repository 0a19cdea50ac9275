----------------------------- MODULE MCClients -----------------------------
(* One tab and the script, one vault. *)
EXTENDS Clients

CONSTANTS v

(* The number of a call only keeps apart calls that are otherwise equal: states *)
(* that differ in these numbers have the same behaviours up to numbers, and     *)
(* the properties do not mention them.                                          *)
Unnumbered(c) == [c EXCEPT !.id = 0]

Renumbered ==
  {[c EXCEPT !.id = Cardinality({d \in calls : Unnumbered(d) = Unnumbered(c) /\ d.id <= c.id})]
     : c \in calls}

UpToNumbers ==
  <<tabVars, script, Renumbered, dbVars, chainVars, faults>>
=============================================================================
