------------------------------ MODULE FeedSync ------------------------------
(***************************************************************************)
(* A feed without sequence numbers, of either venue: make_codec builds the *)
(* codec of the venue, and the machine around it is the same.              *)
(***************************************************************************)
EXTENDS CoinbaseSync, KrakenSync

vars == <<channelVars, coinbaseVars, krakenVars>>

Init ==
  /\ feed \in {"coinbase", "kraken"}
  /\ ChannelInit /\ CoinbaseInit /\ KrakenInit

OfCoinbase(A) == feed = "coinbase" /\ A /\ UNCHANGED krakenVars
OfKraken(A) == feed = "kraken" /\ A /\ UNCHANGED coinbaseVars

Next ==
  \/ OfCoinbase(CoinbaseNext)
  \/ OfKraken(KrakenNext)

Spec == Init /\ [][Next]_vars

\* Of Coinbase: run_venue reconnects for ever, the session loop polls all its
\* arms, the endpoint answers, and not every request fails.
FairSpec ==
  /\ Spec
  /\ WF_vars(OfCoinbase(ConnectCoinbase))
  /\ WF_vars(OfCoinbase(ReadCoinbase))
  /\ SF_vars(OfCoinbase(FetchRest))
  /\ WF_vars(OfCoinbase(\E n \in 0 .. MaxUpdates[feed] : Fetched(n)))

\* Silent losses are not for ever: once the venue is at rest and a Coinbase
\* session lasts, its book is the venue's, whatever was lost without a trace.
EventuallyRepaired ==
  feed = "coinbase" /\ <>[]up =>
    <>[](book.sync = "Synced" /\ book.levels = VenueBook(Made))
=============================================================================
