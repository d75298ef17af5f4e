----------------------------- MODULE ChatTurn_proofs -----------------------------
(***************************************************************************)
(* Theorems about ChatTurn and SuggestionCard, for any turns, sessions,    *)
(* bound of the context and faults.                                        *)
(***************************************************************************)
EXTENDS ChatTurn, FiniteSetTheorems, TLAPS

-----------------------------------------------------------------------------
(* Cards                                                                   *)

\* The log fits the card.
Story(card) ==
    IF card.status = "none" THEN card.log = <<>>
    ELSE LET settled == card.status \in DOMAIN Settlement
         IN  /\ card.log # <<>> /\ card.log[1] = "create"
             /\ Len(card.log) = 1 + card.regenerated + (IF settled THEN 1 ELSE 0)
             /\ \A n \in 2..(1 + card.regenerated) : card.log[n] = "regenerate"
             /\ settled => card.log[Len(card.log)] = Settlement[card.status]
             /\ card.regenerated <= RegenerateLimit

LEMMA StoryIs == CardStory <=> \A c \in Cards : Story(cards[c])
BY DEF CardStory, Story

LEMMA Settling ==
  DOMAIN Settlement = {"adopted", "modified", "rejected"}
BY DEF Settlement

\* What a step does to one card.
LEMMA OneCard ==
  ASSUME CardTypeOK, CardStory, NEW c \in Cards, NEW card,
         cards' = [cards EXCEPT ![c] = card], card \in Card, Story(card)
  PROVE  CardTypeOK' /\ CardStory'
<1>1. CardTypeOK'
  BY DEF CardTypeOK
<1>2. ASSUME NEW d \in Cards PROVE Story(cards[d])'
  <2>0. Story(cards[d])
    BY StoryIs
  <2>1. CASE d = c
    <3>1. cards'[d] = card
      BY <2>1 DEF CardTypeOK
    <3>. QED  BY <2>1, <3>1 DEF Story
  <2>2. CASE d # c
    <3>1. cards'[d] = cards[d]
      BY <2>2 DEF CardTypeOK
    <3>. QED  BY <2>0, <3>1 DEF Story
  <2>. QED  BY <2>1, <2>2
<1>3. CardStory'
  BY <1>2 DEF CardStory, Story
<1>. QED  BY <1>1, <1>3

LEMMA CreateStep ==
  ASSUME CardTypeOK, CardStory, NEW c \in Cards, Create(c)
  PROVE  CardTypeOK' /\ CardStory'
<1>. DEFINE card == [status |-> "pending", regenerated |-> 0, log |-> <<"create">>]
<1>1. cards' = [cards EXCEPT ![c] = card]
  BY DEF Create
<1>2. card \in Card
  BY DEF Card, Statuses, Actions
<1>3. Story(card)
  <2>1. /\ card.status = "pending" /\ card.log = <<"create">> /\ card.regenerated = 0
    OBVIOUS
  <2>. HIDE DEF card
  <2>. QED  BY <2>1, Settling DEF Story, RegenerateLimit
<1>. HIDE DEF card
<1>. QED  BY <1>1, <1>2, <1>3, OneCard

LEMMA ResolveStep ==
  ASSUME CardTypeOK, CardStory, NEW c \in Cards, NEW status \in DOMAIN Settlement,
         Resolve(c, status, Settlement[status])
  PROVE  CardTypeOK' /\ CardStory'
<1>. PICK old \in Card : old = cards[c] /\ Story(old)
  BY StoryIs DEF CardTypeOK
<1>. PICK action \in Actions : action = Settlement[status]
  BY DEF Settlement, Actions
<1>. DEFINE card == [old EXCEPT !.status = status, !.log = Append(@, action)]
<1>1. cards' = [cards EXCEPT ![c] = card] /\ old.status = "pending"
  BY DEF Resolve, CardTypeOK
<1>2. /\ card.status = status /\ card.log = Append(old.log, action)
      /\ card.regenerated = old.regenerated
      /\ old.log \in Seq(Actions) /\ old.regenerated \in Nat
  BY DEF Card
<1>3. card \in Card
  <2>1. status \in Statuses /\ Append(old.log, action) \in Seq(Actions)
    BY <1>2, Settling DEF Statuses
  <2>. QED  BY <2>1 DEF Card
<1>4. Story(card)
  <2>0. old.status = "pending" /\ "pending" \notin DOMAIN Settlement /\ status # "none"
    BY <1>1, Settling
  <2>1. /\ old.log # <<>> /\ old.log[1] = "create" /\ Len(old.log) = 1 + old.regenerated
        /\ \A n \in 2..(1 + old.regenerated) : old.log[n] = "regenerate"
        /\ old.regenerated <= RegenerateLimit
    BY <2>0, <1>2 DEF Story
  <2>2. /\ Len(card.log) = 2 + old.regenerated
        /\ card.log[Len(card.log)] = action
        /\ \A n \in 1..(1 + old.regenerated) : card.log[n] = old.log[n]
    BY <1>2, <2>1
  <2>. HIDE DEF card
  <2>3. card.log # <<>>
    BY <1>2, <2>2
  <2>4. card.log[1] = "create" /\ card.status = status /\ card.log[Len(card.log)] = Settlement[card.status]
    BY <1>2, <2>1, <2>2
  <2>5. Len(card.log) = 1 + card.regenerated + 1 /\ card.regenerated <= RegenerateLimit
    BY <1>2, <2>1, <2>2
  <2>6. \A n \in 2..(1 + card.regenerated) : card.log[n] = "regenerate"
    BY <1>2, <2>1, <2>2
  <2>. QED  BY <2>0, <2>3, <2>4, <2>5, <2>6, Zenon DEF Story
<1>. HIDE DEF card
<1>. QED  BY <1>1, <1>3, <1>4, OneCard

LEMMA RegenerateStep ==
  ASSUME CardTypeOK, CardStory, NEW c \in Cards, Regenerate(c)
  PROVE  CardTypeOK' /\ CardStory'
<1>. PICK old \in Card : old = cards[c] /\ Story(old)
  BY StoryIs DEF CardTypeOK
<1>. DEFINE card == [old EXCEPT !.regenerated = @ + 1, !.log = Append(@, "regenerate")]
<1>2. cards' = [cards EXCEPT ![c] = card] /\ old.status = "pending" /\ old.regenerated < RegenerateLimit
  BY DEF Regenerate, CardTypeOK
<1>3. /\ card.status = "pending" /\ card.log = Append(old.log, "regenerate")
      /\ card.regenerated = old.regenerated + 1
      /\ old.log \in Seq(Actions) /\ old.regenerated \in Nat
  BY <1>2 DEF Card
<1>4. card \in Card
  <2>1. "regenerate" \in Actions
    BY DEF Actions
  <2>2. Append(old.log, "regenerate") \in Seq(Actions) /\ old.regenerated + 1 \in Nat
    BY <1>3, <2>1
  <2>. QED  BY <2>1, <2>2 DEF Card
<1>5. Story(card)
  <2>0. "pending" \notin DOMAIN Settlement /\ RegenerateLimit = 2
    BY Settling DEF RegenerateLimit
  <2>1. /\ old.log # <<>> /\ old.log[1] = "create" /\ Len(old.log) = 1 + old.regenerated
        /\ \A n \in 2..(1 + old.regenerated) : old.log[n] = "regenerate"
    BY <2>0, <1>2, <1>3 DEF Story
  <2>2. /\ Len(card.log) = 1 + card.regenerated
        /\ card.log[1 + card.regenerated] = "regenerate"
        /\ \A n \in 1..(1 + old.regenerated) : card.log[n] = old.log[n]
    BY <1>3, <2>1
  <2>. HIDE DEF card
  <2>3. card.log # <<>> /\ card.regenerated <= RegenerateLimit
    BY <1>2, <1>3, <2>0, <2>2
  <2>4. card.log[1] = "create"
    BY <1>3, <2>1, <2>2
  <2>5. ASSUME NEW n \in 2..(1 + card.regenerated) PROVE card.log[n] = "regenerate"
    <3>1. CASE n = 1 + card.regenerated
      BY <2>2, <3>1
    <3>2. CASE n # 1 + card.regenerated
      <4>1. n \in 2..(1 + old.regenerated) /\ n \in 1..(1 + old.regenerated)
        BY <1>3, <3>2
      <4>. QED  BY <2>1, <2>2, <4>1
    <3>. QED  BY <3>1, <3>2
  <2>6. card.status = "pending" /\ card.regenerated \in Nat
    BY <1>3
  <2>7. Len(card.log) = 1 + card.regenerated + 0
    BY <2>2, <2>6
  <2>8. \A n \in 2..(1 + card.regenerated) : card.log[n] = "regenerate"
    BY <2>5
  <2>. QED  BY <2>0, <2>3, <2>4, <2>6, <2>7, <2>8, Zenon DEF Story
<1>. HIDE DEF card
<1>. QED  BY <1>2, <1>4, <1>5, OneCard

LEMMA SettleStep ==
  ASSUME CardTypeOK, CardStory, CardNext
  PROVE  CardTypeOK' /\ CardStory'
<1>1. PICK c \in Cards : Adopt(c) \/ Reject(c) \/ Regenerate(c)
  BY DEF CardNext
<1>2. CASE Adopt(c) \/ Reject(c)
  <2>1. \E status \in DOMAIN Settlement : Resolve(c, status, Settlement[status])
    BY <1>2, Settling DEF Adopt, Reject, Settlement
  <2>. QED  BY <2>1, ResolveStep
<1>3. CASE Regenerate(c)
  BY <1>3, RegenerateStep
<1>. QED  BY <1>1, <1>2, <1>3

-----------------------------------------------------------------------------
(* Dialogues: f gives the place of each turn in the order the graph ran.   *)

Dialogue(messages, f) ==
    /\ \A m, n \in DOMAIN messages :
          m < n => \/ f[messages[m].of] < f[messages[n].of]
                   \/ /\ messages[m].of = messages[n].of
                      /\ messages[m].role = "user" /\ messages[n].role = "assistant"
    /\ \A n \in DOMAIN messages : (n > 1 /\ messages[n].role = "assistant") => messages[n - 1].of = messages[n].of

\* An appended message: everything before it keeps its place.
LEMMA Appended ==
  ASSUME NEW messages \in Seq(Message), NEW message \in Message
  PROVE  LET longer == Append(messages, message)
         IN  /\ longer \in Seq(Message) /\ Len(longer) = Len(messages) + 1 /\ Len(messages) \in Nat
             /\ DOMAIN longer = 1..(Len(messages) + 1) /\ DOMAIN messages = 1..Len(messages)
             /\ longer[Len(messages) + 1] = message
             /\ \A n \in 1..Len(messages) : longer[n] = messages[n]
OBVIOUS

LEMMA AppendQuestion ==
  ASSUME NEW messages \in Seq(Message), NEW f \in [Turns -> Nat], NEW t \in Turns,
         Dialogue(messages, f), \A n \in DOMAIN messages : f[messages[n].of] < f[t]
  PROVE  Dialogue(Append(messages, [of |-> t, role |-> "user"]), f)
<1>. PICK message \in Message : message = [of |-> t, role |-> "user"]
  BY DEF Message
<1>. PICK longer : longer = Append(messages, message)
  OBVIOUS
<1>1. /\ DOMAIN longer = 1..(Len(messages) + 1) /\ DOMAIN messages = 1..Len(messages) /\ Len(messages) \in Nat
      /\ longer[Len(messages) + 1] = message
      /\ \A n \in 1..Len(messages) : longer[n] = messages[n]
  BY Appended
<1>2. message.of = t /\ message.role = "user" /\ message.role # "assistant"
  OBVIOUS
<1>3. ASSUME NEW m \in DOMAIN longer, NEW n \in DOMAIN longer, m < n
      PROVE  \/ f[longer[m].of] < f[longer[n].of]
             \/ /\ longer[m].of = longer[n].of
                /\ longer[m].role = "user" /\ longer[n].role = "assistant"
  <2>1. m \in 1..Len(messages)
    BY <1>1, <1>3
  <2>2. CASE n \in 1..Len(messages)
    BY <1>1, <1>3, <2>1, <2>2 DEF Dialogue
  <2>3. CASE n = Len(messages) + 1
    BY <1>1, <1>2, <2>1, <2>3
  <2>. QED  BY <1>1, <2>2, <2>3
<1>4. ASSUME NEW n \in DOMAIN longer, n > 1, longer[n].role = "assistant"
      PROVE  longer[n - 1].of = longer[n].of
  <2>1. n \in 1..Len(messages) /\ n - 1 \in 1..Len(messages)
    BY <1>1, <1>2, <1>4
  <2>. QED  BY <1>1, <1>4, <2>1 DEF Dialogue
<1>. QED  BY <1>3, <1>4 DEF Dialogue

LEMMA AppendAnswer ==
  ASSUME NEW messages \in Seq(Message), NEW f \in [Turns -> Nat], NEW t \in Turns,
         Dialogue(messages, f), messages # <<>>,
         messages[Len(messages)] = [of |-> t, role |-> "user"],
         \A n \in 1..(Len(messages) - 1) : f[messages[n].of] < f[t]
  PROVE  Dialogue(Append(messages, [of |-> t, role |-> "assistant"]), f)
<1>. PICK message \in Message : message = [of |-> t, role |-> "assistant"]
  BY DEF Message
<1>. PICK longer : longer = Append(messages, message)
  OBVIOUS
<1>1. /\ DOMAIN longer = 1..(Len(messages) + 1) /\ DOMAIN messages = 1..Len(messages) /\ Len(messages) \in Nat
      /\ longer[Len(messages) + 1] = message
      /\ \A n \in 1..Len(messages) : longer[n] = messages[n]
  BY Appended
<1>2. /\ message.of = t /\ message.role = "assistant" /\ Len(messages) >= 1
      /\ messages[Len(messages)].of = t /\ messages[Len(messages)].role = "user"
  BY <1>1
<1>3. ASSUME NEW m \in DOMAIN longer, NEW n \in DOMAIN longer, m < n
      PROVE  \/ f[longer[m].of] < f[longer[n].of]
             \/ /\ longer[m].of = longer[n].of
                /\ longer[m].role = "user" /\ longer[n].role = "assistant"
  <2>1. m \in 1..Len(messages)
    BY <1>1, <1>3
  <2>2. CASE n \in 1..Len(messages)
    BY <1>1, <1>3, <2>1, <2>2 DEF Dialogue
  <2>3. CASE n = Len(messages) + 1 /\ m = Len(messages)
    BY <1>1, <1>2, <2>1, <2>3
  <2>4. CASE n = Len(messages) + 1 /\ m # Len(messages)
    <3>1. m \in 1..(Len(messages) - 1)
      BY <1>1, <2>1, <2>4
    <3>. QED  BY <1>1, <1>2, <2>1, <2>4, <3>1
  <2>. QED  BY <1>1, <2>2, <2>3, <2>4
<1>4. ASSUME NEW n \in DOMAIN longer, n > 1, longer[n].role = "assistant"
      PROVE  longer[n - 1].of = longer[n].of
  <2>1. CASE n = Len(messages) + 1
    <3>1. n - 1 = Len(messages) /\ n - 1 \in 1..Len(messages)
      BY <1>1, <1>2, <2>1
    <3>. QED  BY <1>1, <1>2, <2>1, <3>1
  <2>2. CASE n # Len(messages) + 1
    <3>1. n \in 1..Len(messages) /\ n - 1 \in 1..Len(messages)
      BY <1>1, <1>4, <2>2
    <3>. QED  BY <1>1, <1>4, <3>1 DEF Dialogue
  <2>. QED  BY <2>1, <2>2
<1>. QED  BY <1>3, <1>4 DEF Dialogue

\* Trimming keeps the end, within the bound.
LEMMA Trimmed ==
  ASSUME NEW messages \in Seq(Message), messages # <<>>
  PROVE  /\ Trim(messages) \in Seq(Message) /\ Len(Trim(messages)) <= MaxMessages
         /\ \E k \in Nat : /\ Len(messages) = Len(Trim(messages)) + k /\ Len(Trim(messages)) >= 1
                           /\ \A n \in 1..Len(Trim(messages)) : Trim(messages)[n] = messages[n + k]
<1>1. MaxMessages \in Nat /\ MaxMessages >= 2 /\ Len(messages) \in Nat /\ Len(messages) >= 1
  BY ChatAssumption
<1>2. CASE Len(messages) <= MaxMessages
  <2>1. Trim(messages) = messages
    BY <1>1, <1>2 DEF Trim
  <2>2. Len(messages) = Len(messages) + 0 /\ \A n \in 1..Len(messages) : messages[n] = messages[n + 0]
    BY <1>1
  <2>. QED  BY <1>1, <1>2, <2>1, <2>2
<1>3. CASE Len(messages) > MaxMessages
  <2>. DEFINE k == Len(messages) - MaxMessages
  <2>0. k \in Nat /\ Len(messages) = MaxMessages + k
    BY <1>1, <1>3
  <2>1. Trim(messages) = SubSeq(messages, k + 1, Len(messages))
    BY <1>1, <1>3 DEF Trim
  <2>. HIDE DEF k
  <2>2. /\ SubSeq(messages, k + 1, Len(messages)) \in Seq(Message)
        /\ Len(SubSeq(messages, k + 1, Len(messages))) = MaxMessages
        /\ \A n \in 1..MaxMessages : SubSeq(messages, k + 1, Len(messages))[n] = messages[n + k]
    BY <1>1, <2>0
  <2>. QED  BY <1>1, <2>0, <2>1, <2>2
<1>. QED  BY <1>1, <1>2, <1>3

LEMMA TrimDialogue ==
  ASSUME NEW messages \in Seq(Message), messages # <<>>, NEW f, Dialogue(messages, f)
  PROVE  Dialogue(Trim(messages), f)
<1>1. PICK kept \in Seq(Message) : kept = Trim(messages)
  BY Trimmed
<1>2. PICK k \in Nat : /\ Len(messages) = Len(kept) + k
                       /\ \A n \in 1..Len(kept) : kept[n] = messages[n + k]
  BY <1>1, Trimmed
<1>3. DOMAIN kept = 1..Len(kept) /\ DOMAIN messages = 1..Len(messages) /\ Len(kept) \in Nat
  OBVIOUS
<1>4. \A n \in DOMAIN kept : n \in Nat /\ n + k \in DOMAIN messages /\ kept[n] = messages[n + k]
  BY <1>2, <1>3
<1>5. ASSUME NEW m \in DOMAIN kept, NEW n \in DOMAIN kept, m < n
      PROVE  \/ f[kept[m].of] < f[kept[n].of]
             \/ /\ kept[m].of = kept[n].of /\ kept[m].role = "user" /\ kept[n].role = "assistant"
  <2>1. m + k < n + k
    BY <1>4, <1>5
  <2>. QED  BY <1>4, <2>1 DEF Dialogue
<1>6. ASSUME NEW n \in DOMAIN kept, n > 1, kept[n].role = "assistant"
      PROVE  kept[n - 1].of = kept[n].of
  <2>. PICK len \in Nat : len = Len(kept)
    BY <1>3
  <2>1. n \in 1..len /\ k \in Nat /\ n > 1
    BY <1>3, <1>6
  <2>5. n - 1 \in 1..len /\ (n - 1) + k = (n + k) - 1 /\ n + k > 1
    BY <2>1
  <2>2. n - 1 \in 1..Len(kept) /\ (n - 1) + k = (n + k) - 1 /\ n + k > 1
    BY <2>5
  <2>3. n - 1 \in DOMAIN kept /\ kept[n - 1] = messages[(n + k) - 1] /\ kept[n] = messages[n + k] /\ n + k \in DOMAIN messages
    BY <1>3, <1>4, <2>2
  <2>4. messages[(n + k) - 1].of = messages[n + k].of
    BY <1>6, <2>2, <2>3 DEF Dialogue
  <2>. QED  BY <2>3, <2>4
<1>. QED  BY <1>1, <1>5, <1>6 DEF Dialogue

\* The question of the latest turn: it is behind everything else.
LEMMA SayQuestion ==
  ASSUME NEW messages \in Seq(Message), NEW f \in [Turns -> Nat], NEW t \in Turns,
         Dialogue(messages, f), \A n \in DOMAIN messages : f[messages[n].of] < f[t]
  PROVE  LET said == Say(messages, t, "user")
         IN  /\ said \in Seq(Message) /\ said # <<>> /\ Len(said) <= MaxMessages
             /\ Dialogue(said, f)
             /\ said[Len(said)] = [of |-> t, role |-> "user"]
             /\ \A n \in 1..(Len(said) - 1) : f[said[n].of] < f[t]
<1>. PICK message \in Message : message = [of |-> t, role |-> "user"]
  BY DEF Message
<1>. PICK longer \in Seq(Message) : longer = Append(messages, message)
  BY Appended
<1>1. /\ Len(longer) = Len(messages) + 1 /\ Len(messages) \in Nat /\ longer # <<>>
      /\ DOMAIN messages = 1..Len(messages)
      /\ longer[Len(messages) + 1] = message
      /\ \A n \in 1..Len(messages) : longer[n] = messages[n]
  BY Appended
<1>2. PICK said \in Seq(Message) : said = Trim(longer) /\ said = Say(messages, t, "user")
  BY <1>1, Trimmed DEF Say
<1>3. Dialogue(said, f)
  BY <1>1, <1>2, AppendQuestion, TrimDialogue
<1>4. PICK k \in Nat : /\ Len(longer) = Len(said) + k /\ Len(said) >= 1 /\ Len(said) <= MaxMessages
                       /\ \A n \in 1..Len(said) : said[n] = longer[n + k]
  <2>1. /\ Len(Trim(longer)) <= MaxMessages
        /\ \E k \in Nat : /\ Len(longer) = Len(Trim(longer)) + k /\ Len(Trim(longer)) >= 1
                          /\ \A n \in 1..Len(Trim(longer)) : Trim(longer)[n] = longer[n + k]
    BY <1>1, Trimmed
  <2>. QED  BY <1>2, <2>1
<1>5. Len(said) \in Nat /\ said # <<>>
  BY <1>4
<1>6. said[Len(said)] = message
  BY <1>1, <1>4, <1>5
<1>7. ASSUME NEW n \in 1..(Len(said) - 1) PROVE f[said[n].of] < f[t]
  <2>1. n \in 1..Len(said) /\ n + k \in 1..Len(messages)
    BY <1>1, <1>4, <1>5
  <2>. QED  BY <1>1, <1>4, <2>1
<1>. QED  BY <1>2, <1>3, <1>4, <1>5, <1>6, <1>7

LEMMA SayAnswer ==
  ASSUME NEW messages \in Seq(Message), NEW f \in [Turns -> Nat], NEW t \in Turns,
         Dialogue(messages, f), messages # <<>>,
         messages[Len(messages)] = [of |-> t, role |-> "user"],
         \A n \in 1..(Len(messages) - 1) : f[messages[n].of] < f[t]
  PROVE  LET said == Say(messages, t, "assistant")
         IN  /\ said \in Seq(Message) /\ Len(said) <= MaxMessages
             /\ Dialogue(said, f)
             /\ \A n \in DOMAIN said : f[said[n].of] <= f[t]
<1>. PICK message \in Message : message = [of |-> t, role |-> "assistant"]
  BY DEF Message
<1>. PICK longer \in Seq(Message) : longer = Append(messages, message)
  BY Appended
<1>1. /\ Len(longer) = Len(messages) + 1 /\ Len(messages) \in Nat /\ longer # <<>>
      /\ longer[Len(messages) + 1] = message
      /\ \A n \in 1..Len(messages) : longer[n] = messages[n]
  BY Appended
<1>2. PICK said \in Seq(Message) : said = Trim(longer) /\ said = Say(messages, t, "assistant")
  BY <1>1, Trimmed DEF Say
<1>3. Dialogue(said, f)
  BY <1>1, <1>2, AppendAnswer, TrimDialogue
<1>4. PICK k \in Nat : /\ Len(longer) = Len(said) + k /\ Len(said) <= MaxMessages
                       /\ \A n \in 1..Len(said) : said[n] = longer[n + k]
  <2>1. /\ Len(Trim(longer)) <= MaxMessages
        /\ \E k \in Nat : /\ Len(longer) = Len(Trim(longer)) + k
                          /\ \A n \in 1..Len(Trim(longer)) : Trim(longer)[n] = longer[n + k]
    BY <1>1, Trimmed
  <2>. QED  BY <1>2, <2>1
<1>5. ASSUME NEW n \in 1..Len(longer) PROVE f[longer[n].of] <= f[t]
  <2>0. f[t] \in Nat
    OBVIOUS
  <2>1. CASE n = Len(messages) + 1 \/ n = Len(messages)
    <3>1. longer[n].of = t
      BY <1>1, <2>1
    <3>. QED  BY <2>0, <3>1
  <2>2. CASE n \in 1..(Len(messages) - 1)
    <3>0. n \in 1..Len(messages) /\ messages[n] \in Message
      BY <1>1, <2>2
    <3>1. n \in 1..Len(messages) /\ messages[n].of \in Turns
      BY <3>0 DEF Message
    <3>2. f[longer[n].of] < f[t] /\ f[longer[n].of] \in Nat
      BY <1>1, <2>2, <3>1
    <3>. QED  BY <2>0, <3>2
  <2>. QED  BY <1>1, <2>1, <2>2
<1>6. ASSUME NEW n \in DOMAIN said PROVE f[said[n].of] <= f[t]
  <2>1. n \in 1..Len(said) /\ n + k \in 1..Len(longer)
    BY <1>4
  <2>. QED  BY <1>4, <1>5, <2>1
<1>. QED  BY <1>2, <1>3, <1>4, <1>6

\* Whatever of a turn is saved, the context stays a dialogue.
LEMMA Saved ==
  ASSUME NEW messages \in Seq(Message), NEW f \in [Turns -> Nat], NEW t \in Turns, NEW n \in 0..2,
         Len(messages) <= MaxMessages, Dialogue(messages, f),
         \A i \in DOMAIN messages : f[messages[i].of] < f[t]
  PROVE  LET saved == SavedWith(messages, t, n)
         IN  /\ saved \in Seq(Message) /\ Len(saved) <= MaxMessages
             /\ Dialogue(saved, f)
             /\ \A i \in DOMAIN saved : f[saved[i].of] <= f[t]
<1>0. \A i \in DOMAIN messages : f[messages[i].of] \in Nat
  <2>1. \A i \in DOMAIN messages : messages[i] \in Message
    OBVIOUS
  <2>2. \A i \in DOMAIN messages : messages[i].of \in Turns
    BY <2>1 DEF Message
  <2>. QED  BY <2>2
<1>. PICK said \in Seq(Message) :
        /\ said = Say(messages, t, "user") /\ said # <<>> /\ Len(said) <= MaxMessages
        /\ Dialogue(said, f)
        /\ said[Len(said)] = [of |-> t, role |-> "user"]
        /\ \A i \in 1..(Len(said) - 1) : f[said[i].of] < f[t]
  BY SayQuestion
<1>1. CASE n = 0
  <2>1. SavedWith(messages, t, n) = messages
    BY <1>1 DEF SavedWith
  <2>. QED  BY <1>0, <2>1
<1>2. CASE n = 1
  <2>1. SavedWith(messages, t, n) = said
    BY <1>2 DEF SavedWith
  <2>2. ASSUME NEW i \in DOMAIN said PROVE f[said[i].of] <= f[t]
    <3>1. CASE i = Len(said)
      BY <3>1
    <3>2. CASE i # Len(said)
      <4>1. i \in 1..(Len(said) - 1) /\ said[i] \in Message
        BY <3>2
      <4>2. f[said[i].of] \in Nat /\ f[said[i].of] < f[t]
        BY <4>1 DEF Message
      <4>. QED  BY <4>2
    <3>. QED  BY <3>1, <3>2
  <2>. QED  BY <2>1, <2>2
<1>3. CASE n = 2
  <2>1. SavedWith(messages, t, n) = Say(said, t, "assistant")
    BY <1>3 DEF SavedWith
  <2>. QED  BY <2>1, SayAnswer
<1>. QED  BY <1>1, <1>2, <1>3


\* Who said what is in the context.
LEMMA SaidBy ==
  ASSUME NEW messages \in Seq(Message), NEW t \in Turns, NEW role \in {"user", "assistant"}, NEW P,
         t \in P, \A i \in DOMAIN messages : messages[i].of \in P
  PROVE  LET said == Say(messages, t, role)
         IN  said \in Seq(Message) /\ \A i \in DOMAIN said : said[i].of \in P
<1>. PICK message \in Message : message = [of |-> t, role |-> role]
  BY DEF Message
<1>. PICK longer \in Seq(Message) : longer = Append(messages, message)
  BY Appended
<1>1. /\ Len(longer) = Len(messages) + 1 /\ Len(messages) \in Nat /\ longer # <<>>
      /\ longer[Len(messages) + 1] = message
      /\ \A n \in 1..Len(messages) : longer[n] = messages[n]
  BY Appended
<1>2. PICK said \in Seq(Message) : said = Trim(longer) /\ said = Say(messages, t, role)
  BY <1>1, Trimmed DEF Say
<1>3. PICK k \in Nat : /\ Len(longer) = Len(said) + k
                       /\ \A n \in 1..Len(said) : said[n] = longer[n + k]
  <2>1. \E k \in Nat : /\ Len(longer) = Len(Trim(longer)) + k
                       /\ \A n \in 1..Len(Trim(longer)) : Trim(longer)[n] = longer[n + k]
    BY <1>1, Trimmed
  <2>. QED  BY <1>2, <2>1
<1>4. \A n \in 1..Len(longer) : longer[n].of \in P
  BY <1>1
<1>5. ASSUME NEW n \in DOMAIN said PROVE said[n].of \in P
  <2>1. n \in 1..Len(said) /\ n + k \in 1..Len(longer)
    BY <1>3
  <2>. QED  BY <1>3, <1>4, <2>1
<1>. QED  BY <1>2, <1>5

LEMMA SavedBy ==
  ASSUME NEW messages \in Seq(Message), NEW t \in Turns, NEW n \in 0..2, NEW P,
         t \in P, \A i \in DOMAIN messages : messages[i].of \in P
  PROVE  LET saved == SavedWith(messages, t, n)
         IN  \A i \in DOMAIN saved : saved[i].of \in P
<1>1. CASE n = 0
  BY <1>1 DEF SavedWith
<1>. PICK said \in Seq(Message) : /\ said = Say(messages, t, "user")
                                  /\ \A i \in DOMAIN said : said[i].of \in P
  BY SaidBy
<1>2. CASE n = 1
  <2>1. SavedWith(messages, t, n) = said
    BY <1>2 DEF SavedWith
  <2>. QED  BY <2>1
<1>3. CASE n = 2
  <2>1. SavedWith(messages, t, n) = Say(said, t, "assistant")
    BY <1>3 DEF SavedWith
  <2>2. \A i \in DOMAIN Say(said, t, "assistant") : Say(said, t, "assistant")[i].of \in P
    BY SaidBy
  <2>. QED  BY <2>1, <2>2
<1>. QED  BY <1>1, <1>2, <1>3

-----------------------------------------------------------------------------
(* The invariant                                                           *)

\* What the place of a turn says about its run and about what the graph made of it.
Course(r, status, answers) ==
    /\ r.at \in {"idle", "accepted"} => r.nth = 0
    /\ r.at = "idle" => status = None
    /\ r.at \in {"accepted", "streaming"} => status = "running"
    /\ r.at = "streaming" => r.nth > 0 /\ "raised" \notin r.troubles
    /\ r.at \in {"closing", "ended"} => status \in {"completed", "failed"}
    /\ status = "completed" => r.nth > 0 /\ r.troubles \cap {"load", "raised", "respond"} = {}
    /\ status = "failed" => r.troubles \cap {"load", "raised", "respond"} # {}
    /\ r.nth <= answers

Courses == \A t \in Turns : Course(turn[t], run[t], Cardinality(Classified))

Order == [t \in Turns |-> turn[t].nth]

\* The contexts are dialogues of turns that were answered.
Contexts ==
    \A b \in Backends, s \in Sessions :
        /\ Len(store[b][s]) <= MaxMessages
        /\ Dialogue(store[b][s], Order)
        /\ \A n \in DOMAIN store[b][s] : store[b][s][n].of \in Classified

Inv == TypeOK /\ CardStory /\ Courses /\ Contexts /\ StickyIsLatest

LEMMA ContextIs ==
  ASSUME TypeOK, Contexts PROVE ContextIsDialogue
<1>1. ASSUME NEW b \in Backends, NEW s \in Sessions
      PROVE  /\ Len(store[b][s]) <= MaxMessages
             /\ \A m, n \in DOMAIN store[b][s] :
                  m < n => \/ turn[store[b][s][m].of].nth < turn[store[b][s][n].of].nth
                           \/ /\ store[b][s][m].of = store[b][s][n].of
                              /\ store[b][s][m].role = "user" /\ store[b][s][n].role = "assistant"
             /\ \A n \in DOMAIN store[b][s] :
                  (n > 1 /\ store[b][s][n].role = "assistant") => store[b][s][n - 1].of = store[b][s][n].of
  <2>. PICK messages \in Seq(Message) : messages = store[b][s]
    BY DEF TypeOK
  <2>1. \A n \in DOMAIN messages : messages[n].of \in Turns
    <3>1. \A n \in DOMAIN messages : messages[n] \in Message
      OBVIOUS
    <3>. QED  BY <3>1 DEF Message
  <2>2. \A t \in Turns : Order[t] = turn[t].nth
    BY DEF Order
  <2>3. Len(messages) <= MaxMessages /\ Dialogue(messages, Order)
    BY DEF Contexts
  <2>. QED  BY <2>1, <2>2, <2>3 DEF Dialogue
<1>. QED  BY <1>1 DEF ContextIsDialogue

LEMMA OrderIs == ASSUME TypeOK PROVE Order \in [Turns -> Nat] /\ \A t \in Turns : Order[t] = turn[t].nth
BY DEF Order, TypeOK, Turn

LEMMA ClassifiedFinite == IsFiniteSet(Classified) /\ Cardinality(Classified) \in Nat
BY FS_Subset, FS_CardinalityType, ChatAssumption DEF Classified

-----------------------------------------------------------------------------
(* Steps that answer no turn                                               *)

LEMMA QuietStep ==
  ASSUME Inv, TypeOK', CardStory',
         \A t \in Turns : /\ turn'[t].nth = turn[t].nth
                          /\ turn[t].nth > 0 => turn'[t].session = turn[t].session /\ turn'[t].intent = turn[t].intent
                          /\ Course(turn'[t], run'[t], Cardinality(Classified)),
         \A b \in Backends, s \in Sessions : store'[b][s] \in {store[b][s], <<>>},
         \A s \in Sessions : last'[s] \in {last[s], None}
  PROVE  Inv'
<1>1. Classified' = Classified /\ Order' = Order
  BY DEF Classified, Order
<1>2. Courses'
  BY <1>1 DEF Courses
<1>3. Contexts'
  <2>. SUFFICES ASSUME NEW b \in Backends, NEW s \in Sessions
                PROVE  /\ Len(store'[b][s]) <= MaxMessages
                       /\ Dialogue(store'[b][s], Order)
                       /\ \A n \in DOMAIN store'[b][s] : store'[b][s][n].of \in Classified
    BY <1>1 DEF Contexts
  <2>1. CASE store'[b][s] = store[b][s]
    BY <2>1 DEF Inv, Contexts
  <2>2. CASE store'[b][s] = <<>>
    BY <2>2, ChatAssumption DEF Dialogue
  <2>. QED  BY <2>1, <2>2
<1>4. StickyIsLatest'
  <2>. SUFFICES ASSUME NEW s \in Sessions, last'[s] # None
                PROVE  \E t \in Classified : /\ turn'[t].session = s /\ turn'[t].intent = last'[s]
                                           /\ \A u \in Classified : turn'[u].session = s => turn'[u].nth <= turn'[t].nth
    BY <1>1 DEF StickyIsLatest
  <2>1. last'[s] = last[s]
    OBVIOUS
  <2>2. PICK t \in Classified : /\ turn[t].session = s /\ turn[t].intent = last[s]
                              /\ \A u \in Classified : turn[u].session = s => turn[u].nth <= turn[t].nth
    BY <2>1 DEF Inv, StickyIsLatest
  <2>3. \A u \in Classified : /\ turn'[u].session = turn[u].session /\ turn'[u].intent = turn[u].intent
                            /\ turn'[u].nth = turn[u].nth
    BY DEF Classified
  <2>. QED  BY <2>1, <2>2, <2>3
<1>. QED  BY <1>2, <1>3, <1>4 DEF Inv

\* A step that only moves a turn, and perhaps finishes its run.
LEMMA MoveStep ==
  ASSUME Inv, NEW t \in Turns, NEW r \in Turn, NEW status \in {None, "running", "completed", "failed"},
         turn' = [turn EXCEPT ![t] = r], run' = [run EXCEPT ![t] = status],
         r.nth = turn[t].nth,
         turn[t].nth > 0 => r.session = turn[t].session /\ r.intent = turn[t].intent,
         Course(r, status, Cardinality(Classified)),
         UNCHANGED <<cards, store, backend, last>>, faults' \in 0..MaxFaults
  PROVE  Inv'
<1>1. TypeOK' /\ CardStory'
  BY DEF Inv, TypeOK, CardTypeOK, CardStory
<1>2. ASSUME NEW u \in Turns
      PROVE  /\ turn'[u].nth = turn[u].nth
             /\ turn[u].nth > 0 => turn'[u].session = turn[u].session /\ turn'[u].intent = turn[u].intent
             /\ Course(turn'[u], run'[u], Cardinality(Classified))
  <2>1. CASE u = t
    <3>1. turn'[u] = r /\ run'[u] = status
      BY <2>1 DEF Inv, TypeOK
    <3>. QED  BY <2>1, <3>1
  <2>2. CASE u # t
    <3>1. turn'[u] = turn[u] /\ run'[u] = run[u]
      BY <2>2 DEF Inv, TypeOK
    <3>. QED  BY <3>1 DEF Inv, Courses
  <2>. QED  BY <2>1, <2>2
<1>. QED  BY <1>1, <1>2, QuietStep

LEMMA AcceptStep == ASSUME Inv, NEW t \in Turns, NEW s \in Sessions, Accept(t, s) PROVE Inv'
<1>. PICK old \in Turn : old = turn[t] /\ Course(old, run[t], Cardinality(Classified))
  BY DEF Inv, TypeOK, Courses
<1>. DEFINE r == [old EXCEPT !.at = "accepted", !.session = s]
<1>1. turn' = [turn EXCEPT ![t] = r] /\ run' = [run EXCEPT ![t] = "running"] /\ old.at = "idle"
  BY DEF Accept, Inv, TypeOK, At
<1>2. r \in Turn /\ r.at = "accepted" /\ r.nth = old.nth /\ r.troubles = old.troubles
  BY DEF Turn, Places
<1>3. Course(r, "running", Cardinality(Classified)) /\ ~(old.nth > 0)
  BY <1>1, <1>2 DEF Course, None
<1>4. UNCHANGED <<cards, store, backend, last>> /\ faults' \in 0..MaxFaults
  BY DEF Accept, Inv, TypeOK
<1>. HIDE DEF r
<1>. QED  BY <1>1, <1>2, <1>3, <1>4, MoveStep

LEMMA FinishStep == ASSUME Inv, NEW t \in Turns, Finish(t) PROVE Inv'
<1>. PICK old \in Turn : old = turn[t] /\ Course(old, run[t], Cardinality(Classified))
  BY DEF Inv, TypeOK, Courses
<1>. DEFINE r == [old EXCEPT !.at = "closing"]
<1>. PICK status \in {"completed", "failed"} :
        status = IF old.troubles \cap {"load", "respond"} # {} THEN "failed" ELSE "completed"
  OBVIOUS
<1>1. turn' = [turn EXCEPT ![t] = r] /\ run' = [run EXCEPT ![t] = status] /\ old.at = "streaming"
  BY DEF Finish, Inv, TypeOK, At
<1>2. /\ r \in Turn /\ r.at = "closing" /\ r.nth = old.nth /\ r.troubles = old.troubles
      /\ r.session = old.session /\ r.intent = old.intent
  BY DEF Turn, Places
<1>3. Course(r, status, Cardinality(Classified))
  BY <1>1, <1>2 DEF Course, None
<1>4. UNCHANGED <<cards, store, backend, last>> /\ faults' \in 0..MaxFaults
  BY DEF Finish, Inv, TypeOK
<1>. HIDE DEF r
<1>. QED  BY <1>1, <1>2, <1>3, <1>4, MoveStep

\* The stream ends, or its client leaves.
LEMMA StreamEnds == ASSUME Inv, NEW t \in Turns, End(t) \/ Leave(t) PROVE Inv'
<1>. PICK old \in Turn : old = turn[t] /\ Course(old, run[t], Cardinality(Classified))
  BY DEF Inv, TypeOK, Courses
<1>. PICK status \in {None, "running", "completed", "failed"} : status = run[t]
  BY DEF Inv, TypeOK
<1>0. PICK place \in {"ended", "gone"} :
         /\ turn' = [turn EXCEPT ![t].at = place]
         /\ place = "ended" => old.at = "closing"
  BY DEF End, Leave, At
<1>. DEFINE r == [old EXCEPT !.at = place]
<1>1. turn' = [turn EXCEPT ![t] = r] /\ run' = [run EXCEPT ![t] = status]
  BY <1>0 DEF End, Leave, Inv, TypeOK
<1>2. /\ r \in Turn /\ r.at = place /\ r.nth = old.nth /\ r.troubles = old.troubles
      /\ r.session = old.session /\ r.intent = old.intent
  BY DEF Turn, Places
<1>3. Course(r, status, Cardinality(Classified))
  BY <1>0, <1>2 DEF Course, None
<1>4. UNCHANGED <<cards, store, backend, last>> /\ faults' \in 0..MaxFaults
  BY DEF End, Leave, Inv, TypeOK
<1>. HIDE DEF r
<1>. QED  BY <1>1, <1>2, <1>3, <1>4, MoveStep

LEMMA ExpireStep == ASSUME Inv, NEW s \in Sessions, Expire(s) PROVE Inv'
<1>1. TypeOK' /\ CardStory'
  BY DEF Expire, Inv, TypeOK, CardTypeOK, CardStory, Backends
<1>2. \A b \in Backends, c \in Sessions : store'[b][c] \in {store[b][c], <<>>}
  BY DEF Expire, Inv, TypeOK
<1>3. UNCHANGED <<turn, run, last>>
  BY DEF Expire
<1>. QED  BY <1>1, <1>2, <1>3, QuietStep DEF Inv, Courses

LEMMA RestartStep == ASSUME Inv, Restart PROVE Inv'
<1>1. ASSUME NEW t \in Turns
      PROVE  /\ turn'[t] \in Turn
             /\ turn'[t].nth = turn[t].nth /\ turn'[t].session = turn[t].session /\ turn'[t].intent = turn[t].intent
             /\ Course(turn'[t], run[t], Cardinality(Classified))
  <2>. PICK old \in Turn : old = turn[t] /\ Course(old, run[t], Cardinality(Classified))
    BY DEF Inv, TypeOK, Courses
  <2>1. CASE old.at \in {"idle", "ended"}
    BY <2>1 DEF Restart
  <2>2. CASE old.at \notin {"idle", "ended"}
    <3>. DEFINE r == [old EXCEPT !.at = "gone"]
    <3>1. turn'[t] = r
      BY <2>2 DEF Restart
    <3>2. /\ r \in Turn /\ r.at = "gone" /\ r.nth = old.nth /\ r.troubles = old.troubles
          /\ r.session = old.session /\ r.intent = old.intent
      BY DEF Turn, Places
    <3>3. Course(r, run[t], Cardinality(Classified))
      BY <3>2 DEF Course
    <3>. HIDE DEF r
    <3>. QED  BY <3>1, <3>2, <3>3
  <2>. QED  BY <2>1, <2>2
<1>2. turn' \in [Turns -> Turn]
  <2>1. turn' = [t \in Turns |-> turn'[t]]
    BY DEF Restart
  <2>. QED  BY <1>1, <2>1
<1>3. store' \in [Backends -> [Sessions -> Seq(Message)]]
  <2>. DEFINE empty == [s \in Sessions |-> <<>>]
  <2>1. store' = [store EXCEPT !["memory"] = empty]
    BY DEF Restart
  <2>2. empty \in [Sessions -> Seq(Message)]
    OBVIOUS
  <2>. HIDE DEF empty
  <2>. QED  BY <2>1, <2>2 DEF Inv, TypeOK
<1>4. TypeOK' /\ CardStory'
  <2>1. faults' \in 0..MaxFaults /\ last' \in [Sessions -> Intents \cup {None}] /\ backend' \in Backends
    BY ChatAssumption DEF Restart, Inv, TypeOK
  <2>2. UNCHANGED <<cards, run>>
    BY DEF Restart
  <2>. QED  BY <1>2, <1>3, <2>1, <2>2 DEF Inv, TypeOK, CardTypeOK, CardStory
<1>5. \A b \in Backends, s \in Sessions : store'[b][s] \in {store[b][s], <<>>}
  <2>1. store' = [store EXCEPT !["memory"] = [s \in Sessions |-> <<>>]] /\ "memory" \in Backends
    BY DEF Restart, Backends
  <2>2. \A b \in Backends : store'[b] = IF b = "memory" THEN [s \in Sessions |-> <<>>] ELSE store[b]
    BY <2>1 DEF Inv, TypeOK
  <2>. QED  BY <2>2
<1>6. \A s \in Sessions : last'[s] \in {last[s], None}
  BY DEF Restart
<1>7. run' = run
  BY DEF Restart
<1>. QED  BY <1>1, <1>4, <1>5, <1>6, <1>7, QuietStep

LEMMA SettleCase == ASSUME Inv, Settle PROVE Inv'
<1>1. CardTypeOK' /\ CardStory'
  BY SettleStep DEF Settle, Inv, TypeOK
<1>2. UNCHANGED <<turn, run, store, backend, last, faults>>
  BY DEF Settle
<1>3. TypeOK'
  BY <1>1, <1>2 DEF Inv, TypeOK
<1>. QED  BY <1>1, <1>2, <1>3, QuietStep DEF Inv, Courses

-----------------------------------------------------------------------------
(* The step that answers a turn                                            *)

\* What a generation does to the cards, whether it fails or not.
LEMMA GenerateStep ==
  ASSUME CardTypeOK, CardStory, NEW t, NEW intent, NEW troubles,
         Generate(t, intent, troubles), intent \in Coaching => t \in Cards
  PROVE  CardTypeOK' /\ CardStory'
<1>1. CASE intent \in Coaching /\ Create(t)
  BY <1>1, CreateStep
<1>2. CASE cards' = cards
  BY <1>2 DEF CardTypeOK, CardStory
<1>. QED  BY <1>1, <1>2 DEF Generate

\* The graph classified the turn and did what it could: the turn is the latest of all,
\* and its messages come last.
LEMMA ClassifyStep ==
  ASSUME Inv, NEW t \in Turns, NEW count \in Nat, count = Cardinality(Classified),
         NEW old \in Turn, old = turn[t], old.at = "accepted",
         NEW r \in Turn, NEW status \in {"running", "failed"}, NEW intent \in Intents, NEW n \in 0..2,
         turn' = [turn EXCEPT ![t] = r], run' = [run EXCEPT ![t] = status],
         r.nth = count + 1, r.session = old.session, r.intent = intent, Course(r, status, count + 1),
         last' = [last EXCEPT ![old.session] = intent],
         store' = [store EXCEPT ![backend][old.session] = SavedWith(@, t, n)],
         backend' = backend, faults' \in 0..MaxFaults, CardTypeOK' /\ CardStory'
  PROVE  Inv'
<1>3. Course(old, run[t], count)
  BY DEF Inv, Courses
<1>4. turn' \in [Turns -> Turn] /\ turn'[t] = r /\ \A u \in Turns \ {t} : turn'[u] = turn[u]
  BY DEF Inv, TypeOK
<1>5. old.nth = 0 /\ t \notin Classified
  BY <1>3 DEF Course, Classified
<1>6. Classified' = Classified \cup {t}
  BY <1>4 DEF Classified
<1>7. Cardinality(Classified') = count + 1
  BY <1>5, <1>6, ClassifiedFinite, FS_AddElement
<1>8. \A u \in Turns : turn[u].nth \in Nat /\ turn[u].nth <= count
  BY DEF Inv, TypeOK, Turn, Courses, Course
<1>10. Courses'
  <2>1. ASSUME NEW u \in Turns PROVE Course(turn'[u], run'[u], count + 1)
    <3>1. CASE u = t
      <4>1. turn'[u] = r /\ run'[u] = status
        BY <1>4, <3>1 DEF Inv, TypeOK
      <4>. QED  BY <4>1
    <3>2. CASE u # t
      <4>1. turn'[u] = turn[u] /\ run'[u] = run[u] /\ turn[u].nth <= count + 1
        BY <1>4, <1>8, <3>2 DEF Inv, TypeOK
      <4>2. Course(turn[u], run[u], count)
        BY DEF Inv, Courses
      <4>. QED  BY <4>1, <4>2 DEF Course
    <3>. QED  BY <3>1, <3>2
  <2>. QED  BY <1>7, <2>1 DEF Courses
<1>. PICK f \in [Turns -> Nat] : f = Order'
  <2>1. Order' \in [Turns -> Nat]
    BY <1>4 DEF Order, Turn
  <2>. QED  BY <2>1
<1>12. /\ f[t] = count + 1
       /\ \A u \in Turns : u # t => f[u] = Order[u]
       /\ \A u \in Turns : u # t => f[u] <= count
  BY <1>4, <1>8 DEF Order
<1>13. ASSUME NEW b \in Backends, NEW s \in Sessions
       PROVE  /\ \A i \in DOMAIN store[b][s] : store[b][s][i].of \in Turns /\ store[b][s][i].of # t
              /\ Dialogue(store[b][s], f)
  <2>1. \A i \in DOMAIN store[b][s] : store[b][s][i].of \in Classified
    BY DEF Inv, Contexts
  <2>2. \A i \in DOMAIN store[b][s] : store[b][s][i].of \in Turns /\ store[b][s][i].of # t
    BY <1>5, <2>1 DEF Classified
  <2>3. \A i \in DOMAIN store[b][s] : f[store[b][s][i].of] = Order[store[b][s][i].of]
    BY <1>12, <2>2
  <2>4. Dialogue(store[b][s], Order)
    BY DEF Inv, Contexts
  <2>. QED  BY <2>2, <2>3, <2>4 DEF Dialogue
<1>14. ASSUME NEW b \in Backends, NEW s \in Sessions
       PROVE  /\ store'[b][s] \in Seq(Message)
              /\ Len(store'[b][s]) <= MaxMessages
              /\ Dialogue(store'[b][s], f)
              /\ \A i \in DOMAIN store'[b][s] : store'[b][s][i].of \in Classified'
  <2>. PICK messages \in Seq(Message) :
          /\ messages = store[b][s] /\ Len(messages) <= MaxMessages
          /\ \A i \in DOMAIN messages : messages[i].of \in Classified
    BY DEF Inv, TypeOK, Contexts
  <2>1. CASE store'[b][s] = messages
    BY <1>6, <1>13, <2>1
  <2>2. CASE store'[b][s] = SavedWith(messages, t, n)
    <3>1. Dialogue(messages, f)
      BY <1>13
    <3>2. \A i \in DOMAIN messages : f[messages[i].of] < f[t]
      <4>1. \A i \in DOMAIN messages : messages[i].of \in Turns /\ messages[i].of # t
        BY <1>13
      <4>2. \A u \in Turns : u # t => f[u] < f[t]
        BY <1>12
      <4>. QED  BY <4>1, <4>2
    <3>3. /\ SavedWith(messages, t, n) \in Seq(Message) /\ Len(SavedWith(messages, t, n)) <= MaxMessages
          /\ Dialogue(SavedWith(messages, t, n), f)
      BY <3>1, <3>2, Saved
    <3>4. \A i \in DOMAIN SavedWith(messages, t, n) : SavedWith(messages, t, n)[i].of \in Classified'
      BY <1>6, SavedBy
    <3>. QED  BY <2>2, <3>3, <3>4
  <2>3. store'[b][s] \in {messages, SavedWith(messages, t, n)}
    BY DEF Inv, TypeOK
  <2>. QED  BY <2>1, <2>2, <2>3
<1>15. Contexts'
  BY <1>14 DEF Contexts
<1>16. StickyIsLatest'
  <2>. SUFFICES ASSUME NEW s \in Sessions, last'[s] # None
                PROVE  \E u \in Classified' : /\ turn'[u].session = s /\ turn'[u].intent = last'[s]
                                            /\ \A v \in Classified' : turn'[v].session = s => turn'[v].nth <= turn'[u].nth
    BY DEF StickyIsLatest
  <2>1. CASE s = old.session
    <3>1. last'[s] = intent
      BY <2>1 DEF Inv, TypeOK
    <3>2. \A v \in Classified' : turn'[v].nth <= count + 1
      <4>1. \A v \in Turns : turn'[v].nth <= count + 1
        BY <1>4, <1>8
      <4>. QED  BY <4>1 DEF Classified
    <3>. QED  BY <1>4, <1>6, <2>1, <3>1, <3>2
  <2>2. CASE s # old.session
    <3>1. last'[s] = last[s]
      BY <2>2 DEF Inv, TypeOK
    <3>2. PICK u \in Classified : /\ turn[u].session = s /\ turn[u].intent = last[s]
                                /\ \A v \in Classified : turn[v].session = s => turn[v].nth <= turn[u].nth
      BY <3>1 DEF Inv, StickyIsLatest
    <3>3. \A v \in Classified : v \in Turns \ {t} /\ turn'[v] = turn[v]
      BY <1>4, <1>5 DEF Classified
    <3>4. turn'[t].session # s
      BY <1>4, <2>2
    <3>. QED  BY <1>6, <3>1, <3>2, <3>3, <3>4
  <2>. QED  BY <2>1, <2>2
<1>17. TypeOK'
  <2>1. last' \in [Sessions -> Intents \cup {None}] /\ run' \in [Turns -> {None, "running", "completed", "failed"}]
    BY DEF Inv, TypeOK
  <2>2. store' \in [Backends -> [Sessions -> Seq(Message)]]
    <3>. PICK saved \in Seq(Message) : store' = [store EXCEPT ![backend][old.session] = saved]
      <4>1. store' = [store EXCEPT ![backend][old.session] = SavedWith(store[backend][old.session], t, n)]
        BY DEF Inv, TypeOK
      <4>2. store'[backend][old.session] = SavedWith(store[backend][old.session], t, n)
        BY <4>1 DEF Inv, TypeOK, Turn
      <4>3. SavedWith(store[backend][old.session], t, n) \in Seq(Message)
        BY <1>14, <4>2 DEF Inv, TypeOK, Turn
      <4>. QED  BY <4>1, <4>3
    <3>1. store \in [Backends -> [Sessions -> Seq(Message)]]
      BY DEF Inv, TypeOK
    <3>2. [store[backend] EXCEPT ![old.session] = saved] \in [Sessions -> Seq(Message)]
      BY <3>1 DEF Inv, TypeOK
    <3>. QED  BY <3>1, <3>2
  <2>. QED  BY <1>4, <2>1, <2>2 DEF Inv, TypeOK
<1>. QED  BY <1>10, <1>15, <1>16, <1>17 DEF Inv

LEMMA TroublesFinite == ASSUME NEW all \in SUBSET Troubles PROVE Cardinality(all) \in Nat
<1>1. /\ IsFiniteSet({"load"} \cup {"raised"})
      /\ IsFiniteSet({"respond"} \cup {"collab"})
      /\ IsFiniteSet({"ops"} \cup {"save"})
  BY FS_Singleton, FS_Union
<1>2. IsFiniteSet(({"load"} \cup {"raised"}) \cup (({"respond"} \cup {"collab"}) \cup ({"ops"} \cup {"save"})))
  BY <1>1, FS_Union
<1>3. Troubles = ({"load"} \cup {"raised"}) \cup (({"respond"} \cup {"collab"}) \cup ({"ops"} \cup {"save"}))
  BY DEF Troubles
<1>4. IsFiniteSet(all)
  BY <1>2, <1>3, FS_Subset
<1>. QED  BY <1>4, FS_CardinalityType

LEMMA RunStep == ASSUME Inv, NEW t \in Turns, Run(t) PROVE Inv'
<1>. PICK count \in Nat : count = Cardinality(Classified)
  BY ClassifiedFinite
<1>. PICK old \in Turn : old = turn[t] /\ Course(old, run[t], count)
  BY DEF Inv, TypeOK, Courses
<1>1. PICK intent \in Intents, n \in 0..2, all \in SUBSET Troubles, troubles \in SUBSET Troubles :
        /\ "raised" \notin all
        /\ Generate(t, intent, troubles)
        /\ Respond(t, intent, troubles)
        /\ faults' = faults + Cardinality(all) /\ faults + Cardinality(all) <= MaxFaults
        /\ last' = [last EXCEPT ![old.session] = intent]
        /\ store' = [store EXCEPT ![backend][old.session] = SavedWith(@, t, n)]
        /\ turn' = [turn EXCEPT ![t].at = "streaming", ![t].nth = count + 1,
                                ![t].intent = intent, ![t].troubles = all]
  <2>1. PICK intent \in Intents, load \in SUBSET {"load"}, n \in 0..2, troubles \in SUBSET {"respond", "collab", "ops"} :
          LET all == load \cup troubles \cup IF n < 2 THEN {"save"} ELSE {}
          IN  /\ Respond(t, intent, troubles)
              /\ faults + Cardinality(all) <= MaxFaults
              /\ faults' = faults + Cardinality(all)
              /\ Generate(t, intent, troubles)
              /\ last' = [last EXCEPT ![turn[t].session] = intent]
              /\ store' = [store EXCEPT ![backend][turn[t].session] = SavedWith(@, t, n)]
              /\ turn' = [turn EXCEPT ![t].at = "streaming", ![t].nth = Cardinality(Classified) + 1,
                                      ![t].intent = intent, ![t].troubles = all]
    BY Zenon DEF Run
  <2>. DEFINE all == load \cup troubles \cup IF n < 2 THEN {"save"} ELSE {}
  <2>2. all \in SUBSET Troubles /\ "raised" \notin all /\ troubles \in SUBSET Troubles
    BY DEF Troubles
  <2>3. /\ Respond(t, intent, troubles)
        /\ faults + Cardinality(all) <= MaxFaults
        /\ faults' = faults + Cardinality(all)
        /\ Generate(t, intent, troubles)
        /\ last' = [last EXCEPT ![old.session] = intent]
        /\ store' = [store EXCEPT ![backend][old.session] = SavedWith(@, t, n)]
        /\ turn' = [turn EXCEPT ![t].at = "streaming", ![t].nth = count + 1,
                                ![t].intent = intent, ![t].troubles = all]
    BY <2>1
  <2>. HIDE DEF all
  <2>. QED  BY <2>2, <2>3
<1>. DEFINE r == [old EXCEPT !.at = "streaming", !.nth = count + 1, !.intent = intent, !.troubles = all]
<1>2. turn' = [turn EXCEPT ![t] = r] /\ old.at = "accepted"
  BY <1>1 DEF Run, At, Inv, TypeOK
<1>3. /\ r \in Turn /\ r.at = "streaming" /\ r.nth = count + 1 /\ r.troubles = all
      /\ r.session = old.session /\ r.intent = intent
  <2>1. count + 1 \in Nat /\ intent \in Intents \cup {None} /\ "streaming" \in Places
    BY DEF Places
  <2>2. r \in Turn
    BY <2>1 DEF Turn
  <2>. QED  BY <2>2 DEF Turn
<1>. HIDE DEF r
<1>4. run[t] = "running" /\ run' = [run EXCEPT ![t] = "running"] /\ backend' = backend
  BY <1>2 DEF Run, Course, Inv, TypeOK
<1>5. Course(r, "running", count + 1)
  BY <1>1, <1>3 DEF Course, None
<1>6. CardTypeOK' /\ CardStory'
  BY <1>1, GenerateStep DEF Inv, TypeOK, Respond
<1>7. faults' \in 0..MaxFaults
  <2>1. Cardinality(all) \in Nat
    BY TroublesFinite
  <2>. QED  BY <1>1, <2>1, ChatAssumption DEF Inv, TypeOK
<1>. QED  BY <1>1, <1>2, <1>3, <1>4, <1>5, <1>6, <1>7, ClassifyStep

\* The exception ends the turn: its record, whatever came before.
LEMMA BreakIs ==
  ASSUME Inv, NEW t \in Turns, NEW old \in Turn, old = turn[t], NEW nth \in Nat, NEW intent \in Intents \cup {None},
         Break(t, nth, intent), NEW answers \in Nat, nth <= answers, run[t] = "running"
  PROVE  \E r \in Turn, status \in {"running", "failed"} :
           /\ turn' = [turn EXCEPT ![t] = r] /\ run' = [run EXCEPT ![t] = status]
           /\ r.nth = nth /\ r.intent = intent /\ r.session = old.session
           /\ Course(r, status, answers)
           /\ backend' = backend /\ faults' \in 0..MaxFaults
<1>1. PICK place \in {"closing", "gone"} :
        /\ turn' = [turn EXCEPT ![t].at = place, ![t].nth = nth, ![t].intent = intent, ![t].troubles = @ \cup {"raised"}]
        /\ run' = [run EXCEPT ![t] = IF place = "closing" THEN "failed" ELSE @]
  BY Zenon DEF Break
<1>. DEFINE r == [old EXCEPT !.at = place, !.nth = nth, !.intent = intent, !.troubles = @ \cup {"raised"}]
<1>. PICK status \in {"running", "failed"} : status = IF place = "closing" THEN "failed" ELSE "running"
  OBVIOUS
<1>2. turn' = [turn EXCEPT ![t] = r] /\ run' = [run EXCEPT ![t] = status]
  BY <1>1 DEF Inv, TypeOK
<1>3. /\ r \in Turn /\ r.at = place /\ r.nth = nth /\ r.intent = intent /\ r.session = old.session
      /\ "raised" \in r.troubles
  BY DEF Turn, Places, Troubles
<1>. HIDE DEF r
<1>4. Course(r, status, answers)
  BY <1>3 DEF Course, None
<1>5. backend' = backend /\ faults' \in 0..MaxFaults
  BY ChatAssumption DEF Break, Inv, TypeOK
<1>. QED  BY <1>2, <1>3, <1>4, <1>5

LEMMA RaisesStep == ASSUME Inv, NEW t \in Turns, Raises(t) PROVE Inv'
<1>. PICK count \in Nat : count = Cardinality(Classified)
  BY ClassifiedFinite
<1>. PICK old \in Turn : old = turn[t] /\ Course(old, run[t], count)
  BY DEF Inv, TypeOK, Courses
<1>1. PICK intent \in Intents, troubles \in SUBSET {"respond"}, n \in 0..2 :
        /\ intent \in Coaching => t \in Cards
        /\ Generate(t, intent, troubles)
        /\ last' = [last EXCEPT ![old.session] = intent]
        /\ store' = [store EXCEPT ![backend][old.session] = SavedWith(@, t, n)]
        /\ Break(t, count + 1, intent)
  BY Zenon DEF Raises
<1>2. old.at = "accepted" /\ run[t] = "running"
  BY DEF Raises, At, Course
<1>3. count + 1 \in Nat /\ count + 1 <= count + 1 /\ intent \in Intents \cup {None}
  OBVIOUS
<1>4. PICK r \in Turn, status \in {"running", "failed"} :
           /\ turn' = [turn EXCEPT ![t] = r] /\ run' = [run EXCEPT ![t] = status]
           /\ r.nth = count + 1 /\ r.intent = intent /\ r.session = old.session
           /\ Course(r, status, count + 1)
           /\ backend' = backend /\ faults' \in 0..MaxFaults
  BY <1>1, <1>2, <1>3, BreakIs
<1>5. CardTypeOK' /\ CardStory'
  BY <1>1, GenerateStep DEF Inv, TypeOK
<1>. QED  BY <1>1, <1>2, <1>4, <1>5, ClassifyStep

\* An exception before the classification, or where the run is marked, classifies no turn.
LEMMA UnclassifiedStep == ASSUME Inv, NEW t \in Turns, RaisesUnclassified(t) \/ FinishFails(t) PROVE Inv'
<1>. PICK count \in Nat : count = Cardinality(Classified)
  BY ClassifiedFinite
<1>. PICK old \in Turn : old = turn[t] /\ Course(old, run[t], count)
  BY DEF Inv, TypeOK, Courses
<1>1. PICK nth \in Nat, intent \in Intents \cup {None} :
        /\ Break(t, nth, intent) /\ nth = old.nth
        /\ old.nth > 0 => intent = old.intent
  <2>1. CASE RaisesUnclassified(t)
    BY <2>1 DEF RaisesUnclassified, At, Course
  <2>2. CASE FinishFails(t)
    BY <2>2 DEF FinishFails, Turn
  <2>. QED  BY <2>1, <2>2
<1>2. run[t] = "running" /\ nth <= count /\ nth = old.nth /\ UNCHANGED <<cards, store, last>>
  <2>1. CASE RaisesUnclassified(t)
    BY <1>1, <2>1 DEF RaisesUnclassified, At, Course, Break
  <2>2. CASE FinishFails(t)
    BY <1>1, <2>2 DEF FinishFails, At, Course, Break
  <2>. QED  BY <2>1, <2>2
<1>3. PICK r \in Turn, status \in {"running", "failed"} :
           /\ turn' = [turn EXCEPT ![t] = r] /\ run' = [run EXCEPT ![t] = status]
           /\ r.nth = nth /\ r.intent = intent /\ r.session = old.session
           /\ Course(r, status, count)
           /\ backend' = backend /\ faults' \in 0..MaxFaults
  BY <1>1, <1>2, BreakIs
<1>4. status \in {None, "running", "completed", "failed"}
  OBVIOUS
<1>. QED  BY <1>1, <1>2, <1>3, <1>4, MoveStep

-----------------------------------------------------------------------------
(* Theorems                                                                *)

LEMMA InitInv == ASSUME Init PROVE Inv
<1>1. CardTypeOK /\ CardStory
  BY DEF Init, CardInit, CardTypeOK, CardStory, Card, Statuses, Actions
<1>2. turn \in [Turns -> Turn] /\ \A t \in Turns : turn[t].at = "idle" /\ turn[t].nth = 0 /\ turn[t].troubles = {}
  <2>. PICK s \in Sessions : s = CHOOSE c \in Sessions : TRUE
    BY ChatAssumption
  <2>1. turn = [t \in Turns |-> [at |-> "idle", session |-> s, nth |-> 0, intent |-> None, troubles |-> {}]]
    BY DEF Init
  <2>. QED  BY <2>1 DEF Turn, Places
<1>3. TypeOK
  BY <1>1, <1>2, ChatAssumption DEF Init, TypeOK
<1>4. Courses
  <2>1. Cardinality(Classified) \in Nat
    BY ClassifiedFinite
  <2>. QED  BY <1>2, <2>1 DEF Init, Courses, Course, None
<1>5. Contexts
  BY ChatAssumption DEF Init, Contexts, Dialogue
<1>6. StickyIsLatest
  BY DEF Init, StickyIsLatest
<1>. QED  BY <1>1, <1>3, <1>4, <1>5, <1>6 DEF Inv

LEMMA NextInv == ASSUME Inv, [Next]_vars PROVE Inv'
<1>1. ASSUME NEW t \in Turns, NEW s \in Sessions, Accept(t, s) PROVE Inv'
  BY <1>1, AcceptStep
<1>2. ASSUME NEW t \in Turns, Progress(t) \/ Leave(t) PROVE Inv'
  BY <1>2, RunStep, RaisesStep, UnclassifiedStep, FinishStep, StreamEnds DEF Progress
<1>3. ASSUME NEW s \in Sessions, Expire(s) PROVE Inv'
  BY <1>3, ExpireStep
<1>4. CASE Restart
  BY <1>4, RestartStep
<1>5. CASE Settle
  BY <1>5, SettleCase
<1>6. CASE UNCHANGED vars
  <2>1. /\ TypeOK' /\ CardStory'
        /\ UNCHANGED <<turn, run, store, last>>
    BY <1>6 DEF vars, Inv, TypeOK, CardTypeOK, CardStory
  <2>. QED  BY <2>1, QuietStep DEF Inv, Courses
<1>. QED  BY <1>1, <1>2, <1>3, <1>4, <1>5, <1>6 DEF Next

\* The inductive invariant holds of every turn, context and card.
THEOREM Invariance == Spec => []Inv
BY InitInv, NextInv, PTL DEF Spec

\* Every variable stays within its type; in particular the graph numbers the turns it
\* answers, and the contexts hold messages of requests only (ai/graph.py:234).
THEOREM TypeCorrect == Spec => []TypeOK
<1>1. Inv => TypeOK
  BY DEF Inv
<1>. QED  BY <1>1, Invariance, PTL

\* The trace run tells what became of its turn (ai/router.py:142, ai/trace.py:72).
THEOREM RunTells == Spec => []StatusTells
<1>1. Inv => StatusTells
  BY DEF Inv, Courses, Course, StatusTells, At
<1>. QED  BY <1>1, Invariance, PTL

\* The context of every session is a dialogue, whichever back end keeps it, with
\* answers that are cut off, steps that fail, expiry and restarts (ai/context_store.py:67).
THEOREM DialogueKept == Spec => []ContextIsDialogue
<1>1. Inv => ContextIsDialogue
  BY ContextIs DEF Inv
<1>. QED  BY <1>1, Invariance, PTL

\* The intent kept for a session is that of the last turn classified (ai/graph.py:116).
THEOREM LatestSticks == Spec => []StickyIsLatest
<1>1. Inv => StickyIsLatest
  BY DEF Inv
<1>. QED  BY <1>1, Invariance, PTL

\* The log of every card is its story, whatever the employee clicks in whatever order
\* (suggestion/store.py:133, 149, 177).
THEOREM StoryTold == Spec => []CardStory
<1>1. Inv => CardStory
  BY DEF Inv
<1>. QED  BY <1>1, Invariance, PTL
=============================================================================
