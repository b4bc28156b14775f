---------------------------- MODULE RecordBatches ----------------------------
(***************************************************************************)
(* The rows of a cursor in the shape of each transport, and how FETCH cuts *)
(* a range start .. end-1 (counted from 0) out of them: a list of Arrow    *)
(* record batches is walked batch by batch, a list of typed rows is sliced *)
(* at once.  GatewayCursor takes the flat list for granted; here the walk  *)
(* over the batches is shown to yield it.                                  *)
(*                                                                         *)
(* slice_batches and reverse_slice_batches of src/pg_server.rs, one step   *)
(* one turn of their loops.  Results gives them the batches of a result    *)
(* and sends what they return to the client.                               *)
(***************************************************************************)
EXTENDS Naturals, SequencesExt

CONSTANT Bound  \* the largest start and end asked for

VARIABLES batches, start, end,  \* the arguments
          backward,             \* is it reverse_slice_batches
          next,                 \* the index of the next batch
          offset,               \* the rows before it
          out,                  \* the slices found
          reversed,             \* the slices already reversed
          pc                    \* "slice", "reverse" or "done" here; Results has others

sliceVars == <<batches, start, end, backward, next, offset, out, reversed>>

total_rows(bs) == FoldLeft(LAMBDA sum, b : sum + Len(b), 0, bs)

\* The other transport: the same range of a list of rows ...
typed_slice(rows, from, to) ==
  IF from >= to \/ from >= Len(rows) THEN << >>
  ELSE SubSeq(rows, from + 1, IF to < Len(rows) THEN to ELSE Len(rows))

\* ... and backwards.
typed_reverse_slice(rows, from, to) == Reverse(typed_slice(rows, from, to))

\* Before the first turn.
InitSlice == next = 1 /\ offset = 0 /\ out = << >> /\ reversed = << >>

\* The loop is left at its end, at the first batch past the range, or not
\* even entered for an empty range.
Finished ==
  \/ start >= end
  \/ next > Len(batches)
  \/ next <= Len(batches) /\ Len(batches[next]) > 0 /\ offset >= end

saturating_sub(a, b) == IF a < b THEN 0 ELSE a - b

\* Mutant: the slice is cut at the end of the range, not of the batch's part of it.
CutAtEnd(batch) ==
  LET local_start == saturating_sub(start, offset)
      local_end   == IF end < Len(batch) THEN end ELSE Len(batch)
  IN SubSeq(batch, local_start + 1, local_end)

\* The part of a batch that lies in the range.
Cut(batch) ==
  LET local_start == saturating_sub(start, offset)
      local_end   == IF end - offset < Len(batch) THEN end - offset ELSE Len(batch)
  IN SubSeq(batch, local_start + 1, local_end)

Skipped(batch) == offset + Len(batch) <= start

\* Mutant: a skipped batch is not counted.
AdvanceUnlessSkipped(batch) ==
  /\ next' = next + 1
  /\ offset' = IF Skipped(batch) THEN offset ELSE offset + Len(batch)

Advance(batch) ==
  /\ next' = next + 1
  /\ offset' = offset + Len(batch)

slice_batches ==
  /\ pc = "slice"
  /\ \/ /\ Finished
        /\ pc' = IF backward THEN "reverse" ELSE "done"
        /\ UNCHANGED <<next, offset, out>>
     \/ /\ ~Finished
        /\ LET batch == batches[next] IN
             /\ Advance(batch)
             /\ out' = IF Skipped(batch) \/ Cut(batch) = << >> THEN out
                       ELSE Append(out, Cut(batch))
        /\ UNCHANGED pc
  /\ UNCHANGED <<batches, start, end, backward, reversed>>

\* Mutant: the batches are taken from the front.
PopFront ==
  /\ reversed' = Append(reversed, Reverse(Head(out)))
  /\ out' = Tail(out)

\* The last slice is popped, its rows reversed.
PopReversed ==
  /\ reversed' = Append(reversed, Reverse(Last(out)))
  /\ out' = Front(out)

reverse_slice_batches ==
  /\ pc = "reverse"
  /\ \/ out # << >> /\ PopReversed /\ UNCHANGED pc
     \/ out = << >> /\ pc' = "done" /\ UNCHANGED <<out, reversed>>
  /\ UNCHANGED <<batches, start, end, backward, next, offset>>

-----------------------------------------------------------------------------
\* The variables of the loop: the offset counts the rows of the batches passed.
SliceTypeOK ==
  /\ start \in 0 .. Bound /\ end \in 0 .. Bound
  /\ backward \in BOOLEAN
  /\ next \in 1 .. Len(batches) + 1
  /\ offset = total_rows(SubSeq(batches, 1, next - 1))

\* At every turn of the loop the slices are exactly the rows of the range that
\* lie in the batches passed so far: none lost, repeated or out of order,
\* whatever the sizes of the batches (empty ones included).
LoopInvariant ==
  pc = "slice" =>
    FlattenSeq(out) = typed_slice(FlattenSeq(batches), start,
                                  IF end < offset THEN end ELSE offset)

\* Both transports answer a FETCH with the same rows in the same order: the
\* batches of slice_batches hold the rows that slicing the typed rows gives, and
\* those of reverse_slice_batches the same backwards.
SlicesAgree ==
  pc = "done" =>
    IF backward
    THEN FlattenSeq(reversed) = typed_reverse_slice(FlattenSeq(batches), start, end)
    ELSE FlattenSeq(out) = typed_slice(FlattenSeq(batches), start, end)
=============================================================================
