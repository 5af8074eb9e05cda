------------------------------ MODULE MCPubsub ------------------------------
(* Two HTTP subscriptions with the same handler, or one and one over gRPC, *)
(* beside an object of the node's user; or two over gRPC.  Two            *)
(* unsubscribe() calls over gRPC at a time.                               *)
EXTENDS Pubsub

CONSTANTS h1, h2, g1, g2, o, shared

MCHandlerOf == [r \in {h1, h2, g1, g2} |-> shared]
MCCompanies == {{h1, h2, o}, {h1, g1, o}, {g1, g2}}
=============================================================================
