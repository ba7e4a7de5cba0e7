----------------------------- MODULE MCExchange -----------------------------
(* Instances of the exchange for TLC: one call of every kind that is sent.  *)
EXTENDS ExchangeCorrect

Digit == 0 .. Base - 1
Asking(type, rest) == <<MAGIC, REQUEST, type, << >>, <<1>>, << >>>> \o rest

EveryCall ==
    {Asking(OPEN, <<4>>), Asking(ACCESS, <<4>>), Asking(TRUNCATE, <<2>>),
     Asking(RENAME, <<<<1>>, <<2>>>>), Asking(GETATTR, << >>), Asking(READDIR, << >>),
     Asking(READ, <<2, 70>>), Asking(READ, <<1, 0>>), Asking(WRITE, <<2, 70, <<0, 9>>>>)}

NoEntry == {2}
Clean == << >>
OldStat == <<MAGIC, RESPONSE, STAT, 1, 1, 1, 1>>
OldRequest == <<MAGIC, REQUEST, OPEN>>
OldDir == <<MAGIC, RESPONSE, DIR, 1>>
OldStack == {Clean, OldStat, OldRequest, OldDir}
=============================================================================
