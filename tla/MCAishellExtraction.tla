------------------------ MODULE MCAishellExtraction ------------------------
(***************************************************************************)
(* One good version of the archives, and one whose speakers are out of     *)
(* order.                                                                  *)
(***************************************************************************)
EXTENDS AishellExtraction

CONSTANTS good, bad, p1, p2

MCSpeakers == {<<"train", 1>>, <<"dev", 1>>, <<"dev", 2>>, <<"test", 3>>}

MCMembers ==
  [a \in Archives |->
     [v \in Versions |->
        IF a = "resources" THEN <<Lexicon, SpeakerInfo>>
        ELSE IF v = good
        THEN <<<<"dev", 1>>, Transcript, <<"train", 1>>, <<"test", 3>>, <<"dev", 2>>>>
        ELSE <<<<"dev", 2>>, Transcript, <<"test", 3>>, <<"dev", 1>>>>]]

MCRequests ==
  {[manifest |-> good, splits |-> {"dev", "test"}, limit |-> 1],
   [manifest |-> good, splits |-> {"dev"}, limit |-> 0],
   [manifest |-> bad, splits |-> {"dev"}, limit |-> 0]}
=============================================================================
