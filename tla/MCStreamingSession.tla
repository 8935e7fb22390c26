------------------------- MODULE MCStreamingSession -------------------------
(***************************************************************************)
(* Instances of StreamingSession for TLC: two frames that differ in        *)
(* payload and length, limits of a few samples and caches of one or two    *)
(* entries, so that every limit is reached and every cache evicts.         *)
(***************************************************************************)
EXTENDS StreamingSession

CONSTANTS s, t,     \* sample values
          text,     \* a transcript that is not blank
          r1, r2, r3  \* reset identifiers

MCPayloads == {<<s>>, <<t, s>>}

\* The reset identifiers are interchangeable.
MCSymmetry == Permutations(ResetIds)

\* Digests: distinct tags of the payloads.
MCDigest == [p \in MCPayloads |-> IF p = <<s>> THEN "d1" ELSE "d2"]
=============================================================================
