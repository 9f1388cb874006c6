-------------------------- MODULE SerialProcessing --------------------------
(***************************************************************************)
(* What the execution of contracts promises to the routing of messages and *)
(* to the chain, on however many threads it happens: a phase is processed  *)
(* as if it was one step that nothing else runs beside.  It comes to what  *)
(* its own contract makes of it and waits for the producer, or it fails    *)
(* and leaves nothing behind; it is not processed again.  What waits is    *)
(* put into blocks in the order in which it was processed, each once.      *)
(***************************************************************************)
EXTENDS Integers, Sequences

CONSTANTS
    Message,        \* the phases of transactions to process
    ComesTo(_, _)   \* what processing a message comes to, whenever it is done

VARIABLES
    over,           \* the messages that have been processed or have failed
    waiting,        \* what is processed and in no block yet, in order
    blocks          \* what is in the blocks, for each

vars == <<over, waiting, blocks>>

Init ==
    /\ over = {}
    /\ waiting = << >>
    /\ blocks = << >>

Ends(m) == m \notin over /\ over' = over \cup {m}

Process(m) ==
    /\ Ends(m)
    /\ Len(waiting') = Len(waiting) + 1
    /\ SubSeq(waiting', 1, Len(waiting)) = waiting
    /\ ComesTo(m, waiting'[Len(waiting) + 1])
    /\ UNCHANGED blocks

Fail(m) == Ends(m) /\ UNCHANGED <<waiting, blocks>>

\* The first n of what waits.
MakeBlock(n) ==
    /\ blocks' = Append(blocks, SubSeq(waiting, 1, n))
    /\ waiting' = SubSeq(waiting, n + 1, Len(waiting))
    /\ UNCHANGED over

Next ==
    \/ \E m \in Message : Process(m) \/ Fail(m)
    \/ \E n \in 1 .. Len(waiting) : MakeBlock(n)

Spec == Init /\ [][Next]_vars
=============================================================================
