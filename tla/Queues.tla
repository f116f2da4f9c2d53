------------------------------- MODULE Queues -------------------------------
(***************************************************************************)
(* What several parts do to a queue of frames or messages: take out, from  *)
(* anywhere in it, all that have become pointless.                         *)
(***************************************************************************)
EXTENDS Integers, Sequences

\* queue.removeAll { it is one of `drop` }: kept[i] is what is left of the
\* first i members.
Without(q, drop) ==
    LET kept[i \in 0..Len(q)] ==
            IF i = 0 THEN <<>>
            ELSE IF q[i] \in drop THEN kept[i - 1] ELSE Append(kept[i - 1], q[i])
    IN  kept[Len(q)]
=============================================================================
