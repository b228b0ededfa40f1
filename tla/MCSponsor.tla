------------------------------ MODULE MCSponsor ------------------------------
(***************************************************************************)
(* Two payable transactions and one that smuggles a second call past its   *)
(* claim; a window that a request outlives.  One client comes straight in  *)
(* and forges a header, the other comes through the proxy, which appends   *)
(* the client's address to what the client wrote.                          *)
(***************************************************************************)
EXTENDS Sponsor, TLC

CONSTANTS r1, r2, r3

Call(circuit) == [kind |-> "call", contract |-> "registry", circuit |-> circuit]

PayableTx(circuit) == [readable |-> TRUE, actions |-> <<Call(circuit)>>, claimed |-> circuit]

Smuggled == [PayableTx("offer") EXCEPT !.actions = <<Call("offer"), Call("admitDebtor")>>]

MixedTxs == {PayableTx("offer"), PayableTx("accept"), Smuggled}

Registries == {"registry"}
Sponsored == {"offer", "accept", "release"}

Direct == [key |-> None, remote |-> "c1", forwarded |-> <<"c2">>, origin |-> "c1"]
Proxied == [key |-> None, remote |-> "proxy", forwarded |-> <<"c1", "c2">>, origin |-> "c2"]
Arrivals == {Direct, Proxied}

RequestSymmetry == Permutations({r1, r2, r3})
=============================================================================
