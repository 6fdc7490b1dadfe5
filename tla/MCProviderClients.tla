--------------------------- MODULE MCProviderClients ---------------------------
(***************************************************************************)
(* One record, replaced by one that is in force at 1 only, under two       *)
(* probes.  MaxMoves leaves room for a put and either a replacement or an  *)
(* outage, or for an outage and its end.                                   *)
(***************************************************************************)
EXTENDS ProviderClients, MCProviders

MCFewRecords ==
    {MCRecord(r1, PropP, v1, 1, 0, None, None, A),
     MCRecord(r1, PropP, v2, 2, 0, 1, 1, A)}

Ask(prop, at, kind, value, reason) ==
    [proposition |-> prop, at |-> at, kind |-> kind, value |-> value,
     reason |-> reason]

MCProbes == <<Ask(PropP, 1, "state", v1, None),
              Ask(PropP, 0, "unknown", None, "outside_validity")>>
=============================================================================
