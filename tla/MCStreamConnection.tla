------------------------- MODULE MCStreamConnection -------------------------
(* Clients that start a session, with or without hotwords, and go on; the  *)
(* last ones are refused by the server.                                    *)
EXTENDS StreamConnection

CONSTANTS h1, h2

Plain(k) == [kind |-> k, hot |-> None]
MCScripts ==
  {<<Plain("start"), Plain("ping"), Plain("stop")>>, <<Plain("start"), Plain("audio")>>,
   <<[kind |-> "start", hot |-> h1], [kind |-> "hotwords", hot |-> h2]>>,
   <<Plain("start"), Plain("reset")>>, <<Plain("start"), Plain("flush")>>,
   <<Plain("start"), Plain("start")>>, <<Plain("audio")>>, <<Plain("malformed")>>, <<Plain("empty")>>}
HotwordScripts ==
  {<<[kind |-> "start", hot |-> h1], Plain("audio"), Plain("audio")>>,
   <<[kind |-> "start", hot |-> h1], Plain("reset"), Plain("audio")>>}
=============================================================================
