------------------------- MODULE TranscriptContract -------------------------
(***************************************************************************)
(* What the chat promises to those who read a document's transcripts,        *)
(* without sessions, streams or a provider: a conversation is its owner's     *)
(* for good, a turn appears at once, with its answer if it ever has one, in   *)
(* a conversation that is there, and stays as it is; deleting the document    *)
(* removes everything at once, and nothing is said after that.                *)
(***************************************************************************)
CONSTANTS
    Principals, Convs, Turns,
    Rows,      \* what a turn may be, its conversation included
    None

VARIABLES
    owner,     \* of each conversation that can be read
    said,      \* the turns that can be read
    closed     \* the document is gone

cvars == <<owner, said, closed>>

ContractInit ==
    /\ owner = [c \in Convs |-> None]
    /\ said = [t \in Turns |-> None]
    /\ closed = FALSE

Open(c) == \E who \in Principals :
    owner[c] = None /\ owner' = [owner EXCEPT ![c] = who]

Say(c) == \E t \in Turns, row \in Rows :
    /\ said[t] = None /\ row.conv = c
    /\ said' = [said EXCEPT ![t] = row]

\* A conversation opens, goes on, or opens with its first turn.
Speak(c) ==
    /\ ~closed
    /\ Open(c) \/ (owner[c] # None /\ UNCHANGED owner)
    /\ Say(c) \/ UNCHANGED said
    /\ UNCHANGED closed

Close ==
    /\ ~closed
    /\ owner' = [c \in Convs |-> None]
    /\ said' = [t \in Turns |-> None]
    /\ closed' = TRUE

ContractNext == Close \/ \E c \in Convs : Speak(c)

ContractSpec == ContractInit /\ [][ContractNext]_cvars
=============================================================================
