--------------------------- MODULE SuggestionCard ---------------------------
(***************************************************************************)
(* Suggestion cards (suggestion/store.py) and the endpoints by which an    *)
(* employee settles them.  A card is known by the chat run that generated  *)
(* it; its text and citations are left out.  The endpoints hold the event  *)
(* loop from reading the card to storing it, so each is one step.          *)
(***************************************************************************)
EXTENDS Naturals, Sequences

CONSTANT Cards  \* chat runs, at most one card each

VARIABLE cards

RegenerateLimit == 2
Statuses == {"none", "pending", "adopted", "modified", "rejected"}
Actions == {"create", "adopt", "modify", "regenerate", "reject"}
Card == [status : Statuses, regenerated : Nat, log : Seq(Actions)]

CardInit == cards = [c \in Cards |-> [status |-> "none", regenerated |-> 0, log |-> <<>>]]

Create(c) ==
    cards' = [cards EXCEPT ![c] = [status |-> "pending", regenerated |-> 0, log |-> <<"create">>]]

Resolve(c, status, action) ==
    /\ cards[c].status = "pending"
    /\ cards' = [cards EXCEPT ![c].status = status, ![c].log = Append(@, action)]

\* An edited text that differs is stored instead of the generated one.
Adopt(c) == Resolve(c, "adopted", "adopt") \/ Resolve(c, "modified", "modify")
Reject(c) == Resolve(c, "rejected", "reject")

\* Mutant: the limit counts the versions instead of the regenerations.
RegenerateOneMore(c) ==
    /\ cards[c].status = "pending"
    /\ cards[c].regenerated <= RegenerateLimit
    /\ cards' = [cards EXCEPT ![c].regenerated = @ + 1, ![c].log = Append(@, "regenerate")]

\* The coach runs before the store looks at status and limit; what it made is dropped
\* if the card was settled or has had its regenerations.
Regenerate(c) ==
    /\ cards[c].status = "pending"
    /\ cards[c].regenerated < RegenerateLimit
    /\ cards' = [cards EXCEPT ![c].regenerated = @ + 1, ![c].log = Append(@, "regenerate")]

CardNext == \E c \in Cards : Adopt(c) \/ Reject(c) \/ Regenerate(c)

-----------------------------------------------------------------------------
CardTypeOK == cards \in [Cards -> Card]

Settlement == [adopted |-> "adopt", modified |-> "modify", rejected |-> "reject"]

\* The log is the story of the card, for the evaluation that is fed from it: it begins
\* with one creation, has as many regenerations as the card counts, two at most, and
\* ends with the action the status tells of; nothing follows it.
CardStory ==
    \A c \in Cards :
        LET log == cards[c].log
            settled == cards[c].status \in DOMAIN Settlement
        IN  IF cards[c].status = "none" THEN log = <<>>
            ELSE /\ log # <<>> /\ log[1] = "create"
                 /\ Len(log) = 1 + cards[c].regenerated + (IF settled THEN 1 ELSE 0)
                 /\ \A n \in 2..(1 + cards[c].regenerated) : log[n] = "regenerate"
                 /\ settled => log[Len(log)] = Settlement[cards[c].status]
                 /\ cards[c].regenerated <= RegenerateLimit
=============================================================================
