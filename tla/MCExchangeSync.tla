-------------------------- MODULE MCExchangeSync --------------------------
EXTENDS ExchangeSync
=============================================================================
