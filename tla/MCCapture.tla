------------------------------ MODULE MCCapture -----------------------------
EXTENDS CaptureProcess

MCOrder == <<"binance", "kraken">>
=============================================================================
