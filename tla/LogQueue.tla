------------------------------ MODULE LogQueue ------------------------------
(***************************************************************************)
(* What the access log promises: every worker has a bounded queue of       *)
(* lines, a line enters its worker's queue at the back, and lines leave a  *)
(* queue only from the front, into the file, in order and once.  When      *)
(* writes may fail, the tail of a group that leaves may miss the file.     *)
(*                                                                         *)
(* AccessLog implements this specification with two counters and an array  *)
(* per worker that the worker and the writer thread share without a lock.  *)
(***************************************************************************)
EXTENDS Naturals, Sequences

CONSTANTS Workers, Lines, Capacity, WriteFails

VARIABLES queue,    \* queue[w]: the lines of worker w on their way to the file
          file      \* the log file

Init ==
    /\ queue = [w \in Workers |-> << >>]
    /\ file = << >>

\* Worker w logs a line, if its queue has room.
Log(w) ==
    /\ Len(queue[w]) < Capacity
    /\ \E l \in Lines : queue' = [queue EXCEPT ![w] = Append(@, l)]
    /\ UNCHANGED file

\* The first n lines of a queue leave it, and the first k of them are written.
Flush(w, n, k) ==
    /\ k = n \/ WriteFails
    /\ queue' = [queue EXCEPT ![w] = SubSeq(@, n + 1, Len(@))]
    /\ file' = file \o SubSeq(queue[w], 1, k)

Next ==
    \E w \in Workers :
        \/ Log(w)
        \/ \E n \in 1 .. Len(queue[w]) : \E k \in 0 .. n : Flush(w, n, k)

Spec == Init /\ [][Next]_<<queue, file>>
=============================================================================
