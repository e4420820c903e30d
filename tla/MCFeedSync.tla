----------------------------- MODULE MCFeedSync -----------------------------
(* FeedSync for TLC. *)
EXTENDS FeedSync

MCMaxUpdates == [coinbase |-> 2, kraken |-> 4]
MCMaxPrice == [coinbase |-> 2, kraken |-> 3]
MCMaxTrades == [coinbase |-> 3, kraken |-> 2]
MCMaxSessions == [coinbase |-> 2, kraken |-> 2]
MCMaxWire == [coinbase |-> 1, kraken |-> 1]
=============================================================================
