------------------------------- MODULE MCChat -------------------------------
(* Instances of Chat for TLC: alice writes to bob, who has two sockets. *)
EXTENDS Chat, TLC
CONSTANTS alice, bob, a1, b1, b2
OwnerOf == (a1 :> alice) @@ (b1 :> bob) @@ (b2 :> bob)
FromAlice == [m \in Msg |-> alice]
ToBob == [m \in Msg |-> bob]
=============================================================================
