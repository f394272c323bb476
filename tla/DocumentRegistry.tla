-------------------------- MODULE DocumentRegistry --------------------------
(***************************************************************************)
(* What the approval workflow promises of one defense's document, seen     *)
(* from outside: each version is drafted, recorded once on the ledger over *)
(* files that every approver signed, acknowledged as APPROVED, and made    *)
(* INACTIVE by the version that follows it.  A version may be superseded   *)
(* before it is acknowledged (the ledger was out of reach when the last    *)
(* approval came), never after its successor exists.                       *)
(***************************************************************************)
EXTENDS Naturals, Sequences

CONSTANTS Approvers, Contents, NoContent, MaxVersions

Versions == 1..MaxVersions

VARIABLES
    phase,    \* version -> "none", "draft", "inForce" or "superseded"
    content,  \* version -> its files
    entries   \* the ledger: a sequence of entries

vars == <<phase, content, entries>>

Entry(v) == [doc |-> v, content |-> content[v], signers |-> Approvers]
HasEntry(v) == \E i \in 1..Len(entries) : entries[i].doc = v

Init ==
    /\ phase = [v \in Versions |-> "none"]
    /\ content = [v \in Versions |-> NoContent]
    /\ entries = <<>>

\* A version is drafted after the one before it was superseded.
Draft(v, c) ==
    /\ phase[v] = "none"
    /\ v > 1 => phase[v - 1] = "superseded"
    /\ phase' = [phase EXCEPT ![v] = "draft"]
    /\ content' = [content EXCEPT ![v] = c]
    /\ UNCHANGED entries

\* Its files may be replaced as long as the ledger has no entry of it.
Revise(v, c) ==
    /\ phase[v] = "draft" /\ ~HasEntry(v)
    /\ content' = [content EXCEPT ![v] = c]
    /\ UNCHANGED <<phase, entries>>

\* One entry per version, signed by every approver.
Enter(v) ==
    /\ phase[v] = "draft" /\ ~HasEntry(v)
    /\ entries' = Append(entries, Entry(v))
    /\ UNCHANGED <<phase, content>>

Acknowledge(v) ==
    /\ phase[v] = "draft" /\ HasEntry(v)
    /\ phase' = [phase EXCEPT ![v] = "inForce"]
    /\ UNCHANGED <<content, entries>>

Supersede(v) ==
    /\ phase[v] \in {"draft", "inForce"}
    /\ phase' = [phase EXCEPT ![v] = "superseded"]
    /\ UNCHANGED <<content, entries>>

Next ==
    \E v \in Versions :
        \/ \E c \in Contents : Draft(v, c) \/ Revise(v, c)
        \/ Enter(v) \/ Acknowledge(v) \/ Supersede(v)

Spec == Init /\ [][Next]_vars
=============================================================================
