------------------------------- MODULE MCIocp -------------------------------
\* One session, two clients after each other, two workers, one thread that closes.
EXTENDS Iocp, TLC

CONSTANTS c1, c2

MCConns == {c1, c2}
MCStream == (c1 :> <<1, 2>> @@ c2 :> <<>>)
=============================================================================
