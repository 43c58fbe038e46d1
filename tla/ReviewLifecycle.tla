--------------------------- MODULE ReviewLifecycle ---------------------------
(***************************************************************************)
(* What the review system promises about one delivery's review, whatever   *)
(* runs of it are cut off, repeated or interleaved: an abstract            *)
(* specification.  A review reaches GitHub by one of two warrants, the     *)
(* gate's decision to post it or a human's claim on it, and every effect   *)
(* comes after the record that justifies it.                               *)
(***************************************************************************)
EXTENDS Sequences

CONSTANTS
    Deliveries,
    Workers,        \* who posts for the gate
    People,         \* who posts for a human
    NoReceipt,
    Bodies,         \* the sets of findings a review may consist of
    KeysOf(_),      \* what identifies the findings of a body
    Passes(_),      \* whether the gate lets a body go without a human
    Decisions       \* what the gate may record

VARIABLES
    phase,          \* "absent", "pending", "posted" or "waiting" for a human
    receipt,        \* the GitHub review on record
    stored,         \* keys of the findings on record
    recorded,       \* decisions on record
    queued,         \* whether a human finds it in the queue
    claims,         \* the people who took it from the queue to approve it
    published       \* what GitHub shows, oldest first

vars == <<phase, receipt, stored, recorded, queued, claims, published>>

Init ==
    /\ phase = [d \in Deliveries |-> "absent"]
    /\ receipt = [d \in Deliveries |-> NoReceipt]
    /\ stored = [d \in Deliveries |-> {}]
    /\ recorded = [d \in Deliveries |-> {}]
    /\ queued = [d \in Deliveries |-> FALSE]
    /\ claims = [d \in Deliveries |-> {}]
    /\ published = [d \in Deliveries |-> <<>>]

Open(d) ==
    /\ phase[d] = "absent"
    /\ phase' = [phase EXCEPT ![d] = "pending"]
    /\ UNCHANGED <<receipt, stored, recorded, queued, claims, published>>

\* Findings are added and never taken away.
Store(d) ==
    /\ phase[d] # "absent"
    /\ stored[d] \subseteq stored'[d]
    /\ stored' = [stored EXCEPT ![d] = stored'[d]]
    /\ UNCHANGED <<phase, receipt, recorded, queued, claims, published>>

Record(d, decision) ==
    /\ phase[d] # "absent"
    /\ recorded' = [recorded EXCEPT ![d] = @ \cup {decision}]
    /\ UNCHANGED <<phase, receipt, stored, queued, claims, published>>

\* A human is asked only after a decision to ask one.
Enqueue(d) ==
    /\ recorded[d] \cap {"queued", "escalated"} # {}
    /\ queued' = [queued EXCEPT ![d] = TRUE]
    /\ UNCHANGED <<phase, receipt, stored, recorded, claims, published>>

Claim(d, person) ==
    /\ queued[d]
    /\ claims' = [claims EXCEPT ![d] = @ \cup {person}]
    /\ UNCHANGED <<phase, receipt, stored, recorded, queued, published>>

Warranted(d, who, body) ==
    \/ who \in Workers /\ Passes(body) /\ "auto_post" \in recorded[d]
    \/ who \in claims[d]

\* One review at a time, of findings that are on record.
Publish(d, who, body) ==
    /\ Warranted(d, who, body)
    /\ KeysOf(body) \subseteq stored[d]
    /\ published' = [published EXCEPT ![d] = Append(@, [by |-> who, body |-> body])]
    /\ UNCHANGED <<phase, receipt, stored, recorded, queued, claims>>

\* "posted" is written after the review is there.
Conclude(d, review) ==
    /\ review \in DOMAIN published[d]
    /\ phase' = [phase EXCEPT ![d] = "posted"]
    /\ receipt' = [receipt EXCEPT ![d] = review]
    /\ UNCHANGED <<stored, recorded, queued, claims, published>>

\* "waiting" is written after the row a human finds.
HandOver(d) ==
    /\ queued[d]
    /\ phase' = [phase EXCEPT ![d] = "waiting"]
    /\ UNCHANGED <<receipt, stored, recorded, queued, claims, published>>

Next == \E d \in Deliveries :
    \/ Open(d) \/ Store(d) \/ Enqueue(d) \/ HandOver(d)
    \/ \E decision \in Decisions : Record(d, decision)
    \/ \E person \in People : Claim(d, person)
    \/ \E who \in Workers \cup People, body \in Bodies : Publish(d, who, body)
    \/ \E review \in DOMAIN published[d] : Conclude(d, review)

Spec == Init /\ [][Next]_vars
=============================================================================
