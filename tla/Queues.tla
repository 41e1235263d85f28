-------------------------------- MODULE Queues --------------------------------
(***************************************************************************)
(* The queues of write items that libpomelo2 goes through, item by item,   *)
(* to take out those of one kind.  (The prover knows nothing of SelectSeq, *)
(* so that the selection is defined here.)                                 *)
(***************************************************************************)
EXTENDS Naturals, Sequences, SequencesExt

\* kept[n] is what is selected of the first n.
Kept(S, queue) ==
    LET kept[n \in 0 .. Len(queue)] ==
            IF n = 0 THEN <<>>
            ELSE IF queue[n] \in S THEN Append(kept[n - 1], queue[n])
            ELSE kept[n - 1]
    IN  kept

\* The items of queue that are in S, in their order.
Only(S, queue) == Kept(S, queue)[Len(queue)]

\* The item is in one place at most.
Once(i, queue) == \A j, k \in 1 .. Len(queue) : queue[j] = i /\ queue[k] = i => j = k

===============================================================================
