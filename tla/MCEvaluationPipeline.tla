------------------------ MODULE MCEvaluationPipeline ------------------------
(* Two speakers of the dev split and one of the test split. *)
EXTENDS EvaluationPipeline

CONSTANTS u1, u2, u3, snd1, snd2, snd3, noise, t1, t2, w1, w2, w3, dev, test

MCOrder == <<u1, u2, u3>>
MCSplitOf == u1 :> dev @@ u2 :> dev @@ u3 :> test
MCSpeakerOf == u1 :> 1 @@ u2 :> 2 @@ u3 :> 3
MCOriginal == u1 :> snd1 @@ u2 :> snd2 @@ u3 :> snd3

MCExtractions == {[splits |-> {dev, test}, limit |-> 0], [splits |-> {dev}, limit |-> 1]}
MCPreparations ==
  {[splits |-> {dev}, speakers |-> 0, authorized |-> TRUE, bound |-> TRUE],
   [splits |-> {dev, test}, speakers |-> 1, authorized |-> FALSE, bound |-> FALSE]}
MCRuns ==
  {[real |-> TRUE, dual |-> d, warmup |-> w, known |-> {"host"} \cup ModelFiles] :
     d \in BOOLEAN, w \in {snd1, noise}}
  \cup {[real |-> TRUE, dual |-> d, warmup |-> noise, known |-> {"host", "streaming"}] :
          d \in BOOLEAN}
  \cup {[real |-> FALSE, dual |-> FALSE, warmup |-> Absent, known |-> {}]}
=============================================================================
