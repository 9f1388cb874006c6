------------------------------- MODULE Ledger -------------------------------
(***************************************************************************)
(* What the block database promises to everything above it: a chain that   *)
(* only grows at its tip.  A block is recorded together with its parent    *)
(* and becomes the tip in the same step; its record never changes and is   *)
(* never removed.  A chain may be founded again only while nothing has     *)
(* been built on the earlier foundation.                                   *)
(***************************************************************************)
\* The three are told apart by the module that instantiates this one.
CONSTANTS Block,        \* identities (hashes) of signed blocks
          GENESIS_KEY,  \* the parent a first block names
          NoBlock       \* "no such block"

VARIABLES parentOf,     \* parentOf[b]: the parent recorded with block b
          tip           \* the block the next one will name as its parent

vars == <<parentOf, tip>>

Parent == Block \cup {GENESIS_KEY, NoBlock}

TypeOK ==
    /\ parentOf \in [Block -> Parent]
    /\ tip \in Block \cup {NoBlock}

\* The blocks the ledger holds.
Entries == {b \in Block : parentOf[b] # NoBlock}

Init ==
    /\ parentOf = [b \in Block |-> NoBlock]
    /\ tip = NoBlock

\* The first block of a chain; an earlier attempt may have left a block
\* behind as long as no other block names it.
Found(b) ==
    /\ b \notin Entries
    /\ \A e \in Entries : parentOf[e] = GENESIS_KEY
    /\ parentOf' = [parentOf EXCEPT ![b] = GENESIS_KEY]
    /\ tip' = b

\* Every other block extends the tip.
Append(b) ==
    /\ tip # NoBlock
    /\ b \notin Entries
    /\ parentOf' = [parentOf EXCEPT ![b] = tip]
    /\ tip' = b

Next == \E b \in Block : Found(b) \/ Append(b)

Spec == Init /\ [][Next]_vars
=============================================================================
