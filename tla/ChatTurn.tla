------------------------------ MODULE ChatTurn ------------------------------
(***************************************************************************)
(* A chat turn (ai/router.py chat, ai/graph.py, ai/context_store.py, the   *)
(* runs of ai/trace.py, the call of ops/subgraph.py) and the cards it      *)
(* leaves.  The four nodes of the graph run without giving the event loop  *)
(* back: turns interleave where the stream yields an event, and there a    *)
(* client may have left.  What the classifiers and the model answer is     *)
(* open; IntentFusion has the classification.                              *)
(***************************************************************************)
EXTENDS SuggestionCard, FiniteSets

CONSTANTS Turns,        \* requests to /chat, each with its trace run
          Sessions,
          Coaching,     \* talk_script, objection_help
          MaxMessages,  \* messages the context of a session keeps (20)
          MaxFaults     \* bound on failed steps and restarts

ASSUME ChatAssumption ==
    /\ IsFiniteSet(Turns) /\ Sessions # {}
    /\ Cards \subseteq Turns   \* the requests that can be about a text for a customer
    /\ MaxMessages \in Nat \ {0, 1} /\ MaxFaults \in Nat

VARIABLES turn,    \* the request and what the graph made of it; nth counts the classifications
          run,     \* agent_run.status
          store,   \* the context of each session in Redis and in the process
          backend, \* the one the process chose when it started
          last,    \* _last_intent
          faults

vars == <<cards, turn, run, store, backend, last, faults>>

None == "none"
Intents == Coaching \cup {"tag_review", "other"}
Backends == {"redis", "memory"}
Places == {"idle", "accepted", "streaming", "closing", "ended", "gone"}
Troubles == {"load", "raised", "respond", "collab", "ops", "save"}
Turn == [at : Places, session : Sessions, nth : Nat, intent : Intents \cup {None},
         troubles : SUBSET Troubles]
Message == [of : Turns, role : {"user", "assistant"}]

At(t, place) == turn[t].at = place
Classified == {t \in Turns : turn[t].nth > 0}

Init ==
    /\ CardInit
    /\ turn = [t \in Turns |-> [at |-> "idle", session |-> CHOOSE s \in Sessions : TRUE,
                                nth |-> 0, intent |-> None, troubles |-> {}]]
    /\ run = [t \in Turns |-> None]
    /\ store = [b \in Backends |-> [s \in Sessions |-> <<>>]]
    /\ backend \in Backends
    /\ last = [s \in Sessions |-> None]
    /\ faults = 0

Accept(t, s) ==
    /\ At(t, "idle")
    /\ turn' = [turn EXCEPT ![t].at = "accepted", ![t].session = s]
    /\ run' = [run EXCEPT ![t] = "running"]
    /\ UNCHANGED <<cards, store, backend, last, faults>>

-----------------------------------------------------------------------------
(* graph.run                                                               *)

\* What each kind of answer can run into.  With a customer and a token the second
\* intent brings a tag review along, also after the coach has failed; its error is none
\* of the turn, and the error of a review asked for is an outcome, except that a user
\* id that is no number fails it.
Respond(t, intent, troubles) ==
    /\ intent \in Coaching => t \in Cards /\ troubles \subseteq {"respond", "collab"}
    /\ intent = "tag_review" => troubles \in {{}, {"ops"}, {"respond"}}
    /\ intent = "other" => troubles \subseteq {"respond"}

Trim(messages) ==
    IF Len(messages) > MaxMessages THEN SubSeq(messages, Len(messages) - MaxMessages + 1, Len(messages))
                                   ELSE messages

Say(messages, t, role) == Trim(Append(messages, [of |-> t, role |-> role]))

\* Mutant: the answer is saved first.
SavedAnswerFirst(messages, t, n) ==
    CASE n = 0 -> messages
      [] n = 1 -> Say(messages, t, "assistant")
      [] OTHER -> Say(Say(messages, t, "assistant"), t, "user")

\* The question, then the answer; an exception ends the node without one or both.
SavedWith(messages, t, n) ==
    CASE n = 0 -> messages
      [] n = 1 -> Say(messages, t, "user")
      [] OTHER -> Say(Say(messages, t, "user"), t, "assistant")

\* A generation may fail behind the commit of its card.
Generate(t, intent, troubles) ==
    \/ intent \in Coaching /\ Create(t)
    \/ ~(intent \in Coaching /\ "respond" \notin troubles) /\ UNCHANGED cards

\* load_context, route, respond, save_context: a failed load means no history.
Run(t) ==
    /\ At(t, "accepted")
    /\ \E intent \in Intents, load \in SUBSET {"load"}, n \in 0..2 :
       \E troubles \in SUBSET {"respond", "collab", "ops"} :
         LET all == load \cup troubles \cup IF n < 2 THEN {"save"} ELSE {}
             s == turn[t].session
         IN  /\ Respond(t, intent, troubles)
             /\ faults + Cardinality(all) <= MaxFaults
             /\ faults' = faults + Cardinality(all)
             /\ Generate(t, intent, troubles)
             /\ last' = [last EXCEPT ![s] = intent]
             /\ store' = [store EXCEPT ![backend][s] = SavedWith(@, t, n)]
             /\ turn' = [turn EXCEPT ![t].at = "streaming", ![t].nth = Cardinality(Classified) + 1,
                                     ![t].intent = intent, ![t].troubles = all]
    /\ UNCHANGED <<run, backend>>

\* An error event ends the stream, unless the run cannot be marked either and it breaks.
Break(t, nth, intent) ==
    /\ faults < MaxFaults
    /\ faults' = faults + 1
    /\ \E place \in {"closing", "gone"} :
         /\ turn' = [turn EXCEPT ![t].at = place, ![t].nth = nth, ![t].intent = intent, ![t].troubles = @ \cup {"raised"}]
         /\ run' = [run EXCEPT ![t] = IF place = "closing" THEN "failed" ELSE @]
    /\ UNCHANGED backend

\* The span of a node cannot be started, or its error not be noted: the exception leaves
\* the graph.  So does one of the classifiers.
RaisesUnclassified(t) ==
    /\ At(t, "accepted")
    /\ Break(t, 0, None)
    /\ UNCHANGED <<cards, store, last>>

\* Mutant: the intent is remembered when the turn has been answered.
RaisesForgetting(t) ==
    /\ At(t, "accepted")
    /\ \E intent \in Intents, troubles \in SUBSET {"respond"}, n \in 0..2 :
         /\ intent \in Coaching => t \in Cards
         /\ Generate(t, intent, troubles)
         /\ store' = [store EXCEPT ![backend][turn[t].session] = SavedWith(@, t, n)]
         /\ Break(t, Cardinality(Classified) + 1, intent)
    /\ UNCHANGED last

\* The same behind the classification; what was done until then stays.
Raises(t) ==
    /\ At(t, "accepted")
    /\ \E intent \in Intents, troubles \in SUBSET {"respond"}, n \in 0..2 :
         /\ intent \in Coaching => t \in Cards
         /\ Generate(t, intent, troubles)
         /\ last' = [last EXCEPT ![turn[t].session] = intent]
         /\ store' = [store EXCEPT ![backend][turn[t].session] = SavedWith(@, t, n)]
         /\ Break(t, Cardinality(Classified) + 1, intent)

-----------------------------------------------------------------------------
(* The stream                                                              *)

\* Mutant: whatever went wrong fails the run.
FinishStrict(t) ==
    /\ At(t, "streaming")
    /\ run' = [run EXCEPT ![t] = IF turn[t].troubles # {} THEN "failed" ELSE "completed"]
    /\ turn' = [turn EXCEPT ![t].at = "closing"]
    /\ UNCHANGED <<cards, store, backend, last, faults>>

\* The events are sent and the run finished.
Finish(t) ==
    /\ At(t, "streaming")
    /\ run' = [run EXCEPT ![t] = IF turn[t].troubles \cap {"load", "respond"} # {} THEN "failed" ELSE "completed"]
    /\ turn' = [turn EXCEPT ![t].at = "closing"]
    /\ UNCHANGED <<cards, store, backend, last, faults>>

\* The run cannot be marked: the handler marks it failed, if it can.
FinishFails(t) ==
    /\ At(t, "streaming")
    /\ Break(t, turn[t].nth, turn[t].intent)
    /\ UNCHANGED <<cards, store, last>>

\* Mutant: the last event waits for a context that was saved.
EndSaved(t) ==
    /\ At(t, "closing")
    /\ "save" \notin turn[t].troubles
    /\ turn' = [turn EXCEPT ![t].at = "ended"]
    /\ UNCHANGED <<cards, run, store, backend, last, faults>>

End(t) ==
    /\ At(t, "closing")
    /\ turn' = [turn EXCEPT ![t].at = "ended"]
    /\ UNCHANGED <<cards, run, store, backend, last, faults>>

\* The client leaves: the generator is not resumed, its finish_run never called.
Leave(t) ==
    /\ turn[t].at \in {"accepted", "streaming", "closing"}
    /\ turn' = [turn EXCEPT ![t].at = "gone"]
    /\ UNCHANGED <<cards, run, store, backend, last, faults>>

\* 1800 seconds without a message.
Expire(s) ==
    /\ store["redis"][s] # <<>>
    /\ store' = [store EXCEPT !["redis"][s] = <<>>]
    /\ UNCHANGED <<cards, turn, run, backend, last, faults>>

\* The process stops and starts; Redis may be reachable now or not.
Restart ==
    /\ faults < MaxFaults
    /\ faults' = faults + 1
    /\ turn' = [t \in Turns |->
                   IF turn[t].at \in {"idle", "ended"} THEN turn[t] ELSE [turn[t] EXCEPT !.at = "gone"]]
    /\ store' = [store EXCEPT !["memory"] = [s \in Sessions |-> <<>>]]
    /\ backend' \in Backends
    /\ last' = [s \in Sessions |-> None]
    /\ UNCHANGED <<cards, run>>

Progress(t) ==
    Run(t) \/ RaisesUnclassified(t) \/ Raises(t) \/ Finish(t) \/ FinishFails(t) \/ End(t)

Settle == CardNext /\ UNCHANGED <<turn, run, store, backend, last, faults>>

Next ==
    \/ \E t \in Turns : \/ \E s \in Sessions : Accept(t, s)
                        \/ Progress(t) \/ Leave(t)
    \/ \E s \in Sessions : Expire(s)
    \/ Restart
    \/ Settle

\* The event loop resumes every stream whose client reads on.
Spec == Init /\ [][Next]_vars /\ \A t \in Turns : WF_vars(Progress(t))

-----------------------------------------------------------------------------
(* Properties                                                              *)

TypeOK ==
    /\ CardTypeOK
    /\ turn \in [Turns -> Turn]
    /\ run \in [Turns -> {None, "running", "completed", "failed"}]
    /\ store \in [Backends -> [Sessions -> Seq(Message)]]
    /\ backend \in Backends
    /\ last \in [Sessions -> Intents \cup {None}]
    /\ faults \in 0..MaxFaults

\* The run says what became of the turn: completed if history and answer were there,
\* failed if one was not, whatever befell the review that came along or the saving of
\* the context.  A stream that ran to its end has marked its run: only one whose client
\* left, whose process stopped or whose mark could not be written leaves it running.
StatusTells ==
    \A t \in Turns :
        /\ run[t] = "completed" => turn[t].nth > 0 /\ turn[t].troubles \cap {"load", "raised", "respond"} = {}
        /\ run[t] = "failed" => turn[t].troubles \cap {"load", "raised", "respond"} # {}
        /\ At(t, "ended") => run[t] \in {"completed", "failed"}

\* The context is a dialogue: within its bound, no message twice, turns in the order
\* the graph ran them, and an answer right behind its question unless that was cut off.
ContextIsDialogue ==
    \A b \in Backends, s \in Sessions :
        LET messages == store[b][s]
        IN  /\ Len(messages) <= MaxMessages
            /\ \A m, n \in DOMAIN messages :
                  m < n => \/ turn[messages[m].of].nth < turn[messages[n].of].nth
                           \/ /\ messages[m].of = messages[n].of
                              /\ messages[m].role = "user" /\ messages[n].role = "assistant"
            /\ \A n \in DOMAIN messages : (n > 1 /\ messages[n].role = "assistant") => messages[n - 1].of = messages[n].of

\* The intent that weighs on the next classification is the one of the turn of this
\* session that was classified last, also when an exception ended that turn before it
\* was answered or saved; only a restart forgets it.
StickyIsLatest ==
    \A s \in Sessions : last[s] # None =>
        \E t \in Classified : /\ turn[t].session = s /\ turn[t].intent = last[s]
                              /\ \A u \in Classified : turn[u].session = s => turn[u].nth <= turn[t].nth

\* A turn whose client waits is answered.
TurnEnds == \A t \in Turns : At(t, "accepted") ~> turn[t].at \in {"ended", "gone"}
=============================================================================
