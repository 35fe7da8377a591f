---------------------------- MODULE MCAccountSync ---------------------------
EXTENDS AccountSync, TLC
CONSTANTS a1, a2, i1, i2

Config(p, addr, t) == [prov |-> p, addr |-> addr, token |-> t]

\* a1 changes its address, moves from Graph to IMAP and is given a provider
\* nobody recognises; a2 has one configuration.
TwoAccounts ==
  (a1 :> {Config("MS_GRAPH", "x", 1), Config("MS_GRAPH", "z", 1),
          Config("IMAP", "x", 1), Config("FAX", "x", 1)})
    @@ (a2 :> {Config("MS_GRAPH", "y", 1)})

OneAccount == a1 :> {Config("MS_GRAPH", "x", 1), Config("MS_GRAPH", "x", 2),
                     Config("IMAP", "x", 1), Config("FAX", "x", 1)}
=============================================================================
