--------------------------- MODULE AudioRingBuffer ---------------------------
(***************************************************************************)
(* AudioRingBuffer (audio/ring_buffer.py): a deque of arrays with its      *)
(* total size, which drops whole arrays, then the front of one, to stay    *)
(* within its capacity.                                                    *)
(***************************************************************************)
EXTENDS Integers, Sequences

CONSTANTS Capacity,  \* capacity_samples
          Samples,   \* sample values
          Arrays     \* the finite one-dimensional arrays callers append

ASSUME RingAssumption ==
  /\ Capacity \in Nat \ {0}
  /\ \A a \in Arrays : a \in Seq(Samples) /\ a # <<>>

VARIABLES chunks,  \* _chunks
          size,    \* _size
          given    \* history: the last array appended, <<>> after a clear

vars == <<chunks, size, given>>

Buffer(cs, n) == [chunks |-> cs, size |-> n]

Init == chunks = <<>> /\ size = 0 /\ given = <<>>

\* Does the loop of append drop the whole oldest array, or only its front?
DropsWhole(first, overflow) == Len(first) <= overflow

\* One turn of the loop at the end of append, if there is another one.
Trim(b) ==
  LET overflow == b.size - Capacity
      first    == Head(b.chunks)
  IN  IF overflow <= 0 THEN b
      ELSE IF DropsWhole(first, overflow)
      THEN Buffer(Tail(b.chunks), b.size - Len(first))
      ELSE Buffer([b.chunks EXCEPT ![1] = SubSeq(first, overflow + 1, Len(first))],
                  b.size - overflow)

\* The buffers between the turns.  A turn drops an array or is the last one, so
\* there are at most as many as there are arrays.
Trims(b) ==
  LET trims[i \in 0..Len(b.chunks)] == IF i = 0 THEN b ELSE Trim(trims[i-1])
  IN  trims

Trimmed(b) == Trims(b)[Len(b.chunks)]

\* Mutant: a long array is cut at its end.
Fill_KeepsOldest(array) == Buffer(<<SubSeq(array, 1, Capacity)>>, Capacity)

\* An array that fills the buffer on its own replaces everything.
Fill(array) ==
  Buffer(<<SubSeq(array, Len(array) - Capacity + 1, Len(array))>>, Capacity)

Appended(array) ==
  IF Len(array) >= Capacity THEN Fill(array)
  ELSE Trimmed(Buffer(Append(chunks, array), size + Len(array)))

AppendArray(array) ==
  /\ chunks' = Appended(array).chunks
  /\ size' = Appended(array).size
  /\ given' = array

Clear == chunks' = <<>> /\ size' = 0 /\ given' = <<>>

Next == Clear \/ \E a \in Arrays : AppendArray(a)

Spec == Init /\ [][Next]_vars

-----------------------------------------------------------------------------
\* The first arrays of a deque in one.
Joined(cs) ==
  LET joined[i \in 0..Len(cs)] == IF i = 0 THEN <<>> ELSE joined[i-1] \o cs[i]
  IN  joined

\* to_array().
ToArray(cs) == Joined(cs)[Len(cs)]

Window == INSTANCE SampleWindow WITH window <- ToArray(chunks)

\* to_array() is the newest Capacity samples appended since the last clear,
\* however the arrays were cut.
HoldsNewest == Window!Spec
=============================================================================
