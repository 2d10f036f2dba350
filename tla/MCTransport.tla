----------------------------- MODULE MCTransport -----------------------------
(* Transport with every saved profile, two DNS modes and a cache of two       *)
(* entries for four keys.                                                    *)
EXTENDS Transport

MCModes == {"device", "custom"}

\* Of the default 101, 200, 204 and 302 the two that the model tells apart.
MCAllowed == {"200", "302"}
=============================================================================
