-------------------------- MODULE OrderedPcmStream --------------------------
(***************************************************************************)
(* What a streaming session promises to its one client, without sequence   *)
(* numbers, buffers, decoders or caches: within an epoch every frame is    *)
(* taken exactly once and in order, audio is pending until an utterance    *)
(* settles all of it, a halted stream takes nothing, and only a new epoch, *)
(* which starts empty, opens a halted stream again.                        *)
(***************************************************************************)
EXTENDS Naturals, Sequences

CONSTANT Frames  \* the payloads a client may send, sequences of samples

VARIABLES
  epoch,    \* number of renewals
  open,     \* does the stream take frames?
  taken,    \* the frames taken in this epoch
  length,   \* how many samples they hold
  settled   \* how many of those no utterance is waiting for

contract == <<epoch, open, taken, length, settled>>

Init ==
  /\ epoch = 0
  /\ open = TRUE
  /\ taken = <<>>
  /\ length = 0
  /\ settled = 0

\* The stream takes one more frame; its samples are pending.
Take(f) ==
  /\ open
  /\ taken' = Append(taken, f)
  /\ length' = length + Len(f)
  /\ UNCHANGED <<epoch, open, settled>>

\* All pending audio is settled at once, never a part of it; the stream may
\* halt with it.
Settle ==
  /\ settled' = length
  /\ open' \in {open, FALSE}
  /\ UNCHANGED <<epoch, taken, length>>

\* The stream stops taking frames.
Halt ==
  /\ open' = FALSE
  /\ UNCHANGED <<epoch, taken, length, settled>>

\* A new epoch.
Renew ==
  /\ epoch' = epoch + 1
  /\ open' = TRUE
  /\ taken' = <<>>
  /\ length' = 0
  /\ settled' = 0

Next == (\E f \in Frames : Take(f)) \/ Settle \/ Halt \/ Renew

Spec == Init /\ [][Next]_contract
=============================================================================
