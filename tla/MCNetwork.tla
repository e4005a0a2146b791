----------------------------- MODULE MCNetwork -----------------------------
(* Network on three nodes, of which at least one can be public.            *)
EXTENDS Network, TLC

CONSTANTS n1, n2, n3

\* One hidden node, one with IPv4 and one with IPv6; or two hidden and one public.
MCKinds == {n1 :> "hidden" @@ n2 :> "ipv4" @@ n3 :> "ipv6",
            n1 :> "hidden" @@ n2 :> "hidden" @@ n3 :> "ipv4"}
=============================================================================
