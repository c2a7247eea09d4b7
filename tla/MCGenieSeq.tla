----------------------------- MODULE MCGenieSeq -----------------------------
(* GenieSeq on a node whose counter has a handful of values. *)
EXTENDS GenieSeq, TLC

\* The senders differ in nothing but their names.
Senders == Permutations(Tasks)

\* Once a lapse has happened nothing is promised until the node is
\* provisioned again, so the search stops there.
NoLapse == lapses = {}

\* What the sequence scheme would owe its network if losing the IV Index
\* were harmless: net.c stamps each PDU "with a new sequence number", so no
\* nonce is used twice unless the number wrapped or a save failed.
NonceFreshIv == lapses \subseteq {"iv"} => ~reused
=============================================================================
