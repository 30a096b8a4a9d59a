-------------------------- MODULE DocumentContract --------------------------
(***************************************************************************)
(* What the document store promises the dashboard, the chat and the share   *)
(* links, without sessions, locks, blobs or background jobs: a document is  *)
(* created once, its outcome is published in one step with the chunks       *)
(* retrieval may search, and deleting it removes both for good.             *)
(***************************************************************************)
EXTENDS Naturals

CONSTANTS
    Docs,
    MaxChunks,
    MayAmend   \* whether a published outcome may still be withdrawn

VARIABLES
    published,   \* [Docs -> the status other sessions can read]
    searchable   \* [Docs -> the number of chunks retrieval can reach]

cvars == <<published, searchable>>

Visible == {"absent", "UPLOADED", "READY", "FAILED", "deleted"}

ContractInit ==
    /\ published = [d \in Docs |-> "absent"]
    /\ searchable = [d \in Docs |-> 0]

\* An upload becomes visible, with nothing to search yet.
Create(d) ==
    /\ published[d] = "absent"
    /\ published' = [published EXCEPT ![d] = "UPLOADED"]
    /\ UNCHANGED searchable

\* Outcome and chunks appear together.  READY always has chunks; FAILED may,
\* when only the summary could not be written.
Publish(d) ==
    /\ published[d] = "UPLOADED"
    /\ \E s \in {"READY", "FAILED"}, n \in 0..MaxChunks :
          /\ s = "READY" => n > 0
          /\ published' = [published EXCEPT ![d] = s]
          /\ searchable' = [searchable EXCEPT ![d] = n]

\* A job that does not know its commit arrived takes READY back.  What is
\* searchable stays as it was published.
Amend(d) ==
    /\ MayAmend
    /\ published[d] = "READY"
    /\ published' = [published EXCEPT ![d] = "FAILED"]
    /\ UNCHANGED searchable

Remove(d) ==
    /\ published[d] \in {"UPLOADED", "READY", "FAILED"}
    /\ published' = [published EXCEPT ![d] = "deleted"]
    /\ searchable' = [searchable EXCEPT ![d] = 0]

ContractNext == \E d \in Docs : Create(d) \/ Publish(d) \/ Amend(d) \/ Remove(d)

ContractSpec == ContractInit /\ [][ContractNext]_cvars
=============================================================================
