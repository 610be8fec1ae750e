----------------------------- MODULE Playground -----------------------------
(***************************************************************************)
(* The conversations of one visitor of the playground, a page of the       *)
(* console that does more than show and write.  He has it open once: the   *)
(* server keeps each conversation whole, the page keeps the messages on    *)
(* its screen and rewrites the active conversation with them after each    *)
(* turn (a question with its answer), and the query cache hands it the     *)
(* conversations it shows.  What a chat will save, and under which name,   *)
(* is what the page had when it was sent.                                  *)
(***************************************************************************)
EXTENDS QueryCache, SequencesExt

CONSTANTS
    Conversation,
    MaxTurns,       \* bound: turns
    MaxTroubles     \* bound: calls that fail, conversations dropped from the cache, and acts
                    \* on what is not settled

ASSUME PlaygroundAssumption ==
    /\ Conversation \cap {"none", "idle", "asked", "saving", "saved"} = {}
    /\ MaxTroubles \in Nat

VARIABLES
    stored,    \* the turns of each conversation; none: it does not exist
    detail,    \* of each, in the cache: its turns or none, the mark, and the query
    activeId,  \* activeSessionId
    screen,    \* messages
    chat,      \* the send that is pending: its closure, and how far it is
    removing,  \* the call of removeSession, with the active of its closure
    home,      \* of each turn, the conversations it was said in: two when a creation was repeated
    draft,     \* the first turn of what was begun since there was an active one
    kept,      \* what the page was told is saved: conversations with turns
    hurried,   \* how often the visitor acted on what was not settled
    spoiled,   \* conversations that were saved from a screen that was not theirs
    lost

playVars ==
    <<stored, detail, activeId, screen, chat, removing, home, draft, kept, hurried, spoiled, lost>>

NoConversation == "none"
NoChat == [at |-> "idle", active |-> NoConversation, messages |-> <<>>, began |-> 1, amiss |-> FALSE]
NoRemoval == [id |-> NoConversation, active |-> NoConversation]
NoDetail == [data |-> <<>>, invalid |-> FALSE, query |-> "idle", got |-> <<>>]

PlaygroundInit ==
    /\ stored = [id \in Conversation |-> <<>>] /\ detail = [id \in Conversation |-> NoDetail]
    /\ activeId = NoConversation /\ screen = <<>> /\ chat = NoChat /\ removing = NoRemoval
    /\ home = <<>> /\ draft = 1 /\ kept = {} /\ hurried = 0 /\ spoiled = {} /\ lost = 0

Born == UNION Range(home)
IsStored(id) == stored[id] # <<>>

-----------------------------------------------------------------------------
(* The query of a conversation.                                            *)
AskedAgain(d) == [d EXCEPT !.query = "asked", !.got = <<>>]
Shown(d) == IF d.query = "idle" THEN AskedAgain(d) ELSE d

ReadDetail(id) ==
    /\ detail[id].query = "asked" /\ IsStored(id)
    /\ detail' = [detail EXCEPT ![id].query = "read", ![id].got = stored[id]]
    /\ UNCHANGED <<stored, activeId, screen, chat, removing, home, draft, kept, hurried, spoiled, lost>>

(* The effect on sessionDetail runs when it is another value.              *)
ArriveDetail(id) ==
    /\ detail[id].query = "read"
    /\ detail' = [detail EXCEPT ![id] = [NoDetail EXCEPT !.data = detail[id].got]]
    /\ screen' = IF id = activeId /\ detail[id].got # detail[id].data THEN detail[id].got ELSE screen
    /\ UNCHANGED <<stored, activeId, chat, removing, home, draft, kept, hurried, spoiled, lost>>

FailDetail(id) ==
    /\ detail[id].query # "idle"
    /\ IF IsStored(id) THEN hurried + lost < MaxTroubles /\ lost' = lost + 1 ELSE UNCHANGED lost
    /\ detail' = [detail EXCEPT ![id].query = "idle", ![id].got = <<>>]
    /\ UNCHANGED <<stored, activeId, screen, chat, removing, home, draft, kept, hurried, spoiled>>

Collected(id) ==
    /\ id # activeId /\ detail[id].query = "idle" /\ detail[id].data # <<>>
    /\ hurried + lost < MaxTroubles /\ lost' = lost + 1
    /\ detail' = [detail EXCEPT ![id] = NoDetail]
    /\ UNCHANGED <<stored, activeId, screen, chat, removing, home, draft, kept, hurried, spoiled>>

(* The key of the list begins those of the conversations.                  *)
DetailsInvalidated ==
    [id \in Conversation |->
        LET d == [detail[id] EXCEPT !.invalid = detail[id].data # <<>> \/ detail[id].query # "idle"]
        IN IF id = activeId /\ ~(d.data = <<>> /\ d.query # "idle") THEN AskedAgain(d) ELSE d]

-----------------------------------------------------------------------------
ChatPending == chat.at # "idle"
Hurries(unsettled) ==
    /\ unsettled => hurried + lost < MaxTroubles
    /\ hurried' = IF unsettled THEN hurried + 1 ELSE hurried

(* A conversation is shown when it is in the cache; it is queried when it  *)
(* is not, or is marked, or is ten seconds old.                            *)
SwitchToSession(id) ==
    /\ id \in Born /\ id # activeId
    /\ activeId' = id /\ Hurries(ChatPending)
    /\ screen' = IF detail[id].data = <<>> THEN screen ELSE detail[id].data
    /\ \/ detail' = [detail EXCEPT ![id] = Shown(@)]
       \/ detail[id].data # <<>> /\ ~detail[id].invalid /\ UNCHANGED detail
    /\ UNCHANGED <<stored, chat, removing, home, draft, kept, spoiled, lost>>

NewConversation ==
    /\ activeId' = NoConversation /\ screen' = <<>> /\ draft' = Len(home) + 1
    /\ Hurries(ChatPending)
    /\ UNCHANGED <<stored, detail, chat, removing, home, kept, spoiled, lost>>

RemoveSession(id) ==
    /\ removing = NoRemoval /\ id \in Born
    /\ removing' = [id |-> id, active |-> activeId] /\ Hurries(ChatPending)
    /\ UNCHANGED <<stored, detail, activeId, screen, chat, home, draft, kept, spoiled, lost>>

RemovalDone ==
    /\ removing # NoRemoval /\ IsStored(removing.id)
    /\ stored' = [stored EXCEPT ![removing.id] = <<>>]
    /\ detail' = DetailsInvalidated
    /\ IF removing.active = removing.id
       THEN activeId' = NoConversation /\ screen' = <<>> /\ draft' = Len(home) + 1
       ELSE UNCHANGED <<activeId, screen, draft>>
    /\ removing' = NoRemoval
    /\ UNCHANGED <<chat, home, kept, hurried, spoiled, lost>>

RemovalFails ==
    /\ removing # NoRemoval /\ removing' = NoRemoval
    /\ IF IsStored(removing.id)
       THEN /\ hurried + lost < MaxTroubles /\ lost' = lost + 1
            /\ stored' \in {stored, [stored EXCEPT ![removing.id] = <<>>]}
       ELSE UNCHANGED <<stored, lost>>
    /\ UNCHANGED <<detail, activeId, screen, chat, home, draft, kept, hurried, spoiled>>

-----------------------------------------------------------------------------
(* What is on the screen is not yet the active conversation.               *)
Unsettled == activeId # NoConversation /\ (detail[activeId].data = <<>> \/ detail[activeId].invalid)

(* It has turns of another one, or lacks some of its own.                  *)
Foreign == \E t \in Range(screen) : IF activeId = NoConversation THEN t < draft ELSE activeId \notin home[t]
Short == \E p \in kept : p[1] = activeId /\ p[2] \notin Range(screen)

Send ==
    /\ ~ChatPending /\ Len(home) < MaxTurns
    /\ screen' = Append(screen, Len(home) + 1) /\ home' = Append(home, {activeId} \ {NoConversation})
    /\ chat' = [at |-> "asked", active |-> activeId, messages |-> screen', began |-> draft,
                amiss |-> Foreign \/ Short]
    /\ Hurries(Unsettled \/ removing # NoRemoval)
    /\ UNCHANGED <<stored, detail, activeId, removing, draft, kept, spoiled, lost>>

(* Also when the chat failed: its answer is then the error.                *)
AnswerChat ==
    /\ chat.at = "asked" /\ screen' = chat.messages /\ chat' = [chat EXCEPT !.at = "saving"]
    /\ UNCHANGED <<stored, detail, activeId, removing, home, draft, kept, hurried, spoiled, lost>>

SpoiledBySaving(id) == IF chat.amiss THEN spoiled \cup {id} ELSE spoiled

(* Mutant: it saves in what is active by then.                             *)
SaveWhereActive ==
    /\ chat.at = "saving" /\ activeId # NoConversation /\ IsStored(activeId)
    /\ stored' = [stored EXCEPT ![activeId] = chat.messages]
    /\ chat' = [chat EXCEPT !.at = "saved"] /\ spoiled' = SpoiledBySaving(activeId)
    /\ UNCHANGED <<detail, activeId, screen, removing, home, draft, kept, hurried, lost>>

SaveTurns ==
    /\ chat.at = "saving" /\ chat.active # NoConversation /\ IsStored(chat.active)
    /\ stored' = [stored EXCEPT ![chat.active] = chat.messages]
    /\ chat' = [chat EXCEPT !.at = "saved"] /\ spoiled' = SpoiledBySaving(chat.active)
    /\ UNCHANGED <<detail, activeId, screen, removing, home, draft, kept, hurried, lost>>

Create(id) ==
    /\ chat.at = "saving" /\ chat.active = NoConversation /\ id \notin Born /\ ~IsStored(id)
    /\ stored' = [stored EXCEPT ![id] = chat.messages]
    /\ home' = [t \in DOMAIN home |->
                   IF t >= chat.began /\ t \in Range(chat.messages) THEN home[t] \cup {id} ELSE home[t]]
    /\ chat' = [chat EXCEPT !.at = id] /\ spoiled' = SpoiledBySaving(id)
    /\ UNCHANGED <<detail, activeId, screen, removing, draft, kept, hurried, lost>>

SaysSaved(id) == kept' = kept \cup ({id} \X Range(chat.messages))

Saved ==
    /\ chat.at = "saved" /\ detail' = DetailsInvalidated /\ SaysSaved(chat.active) /\ chat' = NoChat
    /\ UNCHANGED <<stored, activeId, screen, removing, home, draft, hurried, spoiled, lost>>

(* It becomes the active one, also when the visitor has gone elsewhere.    *)
Created(id) ==
    /\ chat.at = id /\ activeId' = id
    /\ detail' = [DetailsInvalidated EXCEPT ![id] = Shown(@)]
    /\ screen' = IF id = activeId \/ detail[id].data = <<>> THEN screen ELSE detail[id].data
    /\ SaysSaved(id) /\ chat' = NoChat
    /\ UNCHANGED <<stored, removing, home, draft, hurried, spoiled, lost>>

(* Before or after it was written; the page goes on with what it shows.    *)
SaveFails ==
    /\ chat.at \notin {"idle", "asked"} /\ chat' = NoChat
    /\ IF chat.at = "saving" /\ chat.active # NoConversation /\ ~IsStored(chat.active)
       THEN UNCHANGED lost
       ELSE hurried + lost < MaxTroubles /\ lost' = lost + 1
    /\ UNCHANGED <<stored, detail, activeId, screen, removing, home, draft, kept, hurried, spoiled>>

PlaygroundNext ==
    \/ NewConversation \/ RemovalDone \/ RemovalFails
    \/ Send \/ AnswerChat \/ SaveTurns \/ Saved \/ SaveFails
    \/ \E id \in Conversation :
          \/ ReadDetail(id) \/ ArriveDetail(id) \/ FailDetail(id) \/ Collected(id)
          \/ SwitchToSession(id) \/ RemoveSession(id) \/ Create(id) \/ Created(id)
PlaygroundSpec == PlaygroundInit /\ [][PlaygroundNext]_playVars

-----------------------------------------------------------------------------
Whole(id) ==
    /\ \A x, y \in DOMAIN stored[id] : x < y => stored[id][x] < stored[id][y]
    /\ \A t \in Range(stored[id]) : id \in home[t]
    /\ \A p \in kept : p[1] = id => p[2] \in Range(stored[id])

(* Whatever the visitor does, a conversation that exists is made of the    *)
(* turns said in it, in their order, and has lost none that the page was   *)
(* told is saved there, unless he has sent a message in it from a screen   *)
(* that showed another one, or not all of it.  One who waits for what is   *)
(* under way never sees such a screen; one who switches, begins or removes *)
(* a conversation while an answer is pending, or sends before the one he   *)
(* has gone to is there, may, and persistMessages then replaces it.        *)
ConversationsWhole ==
    /\ \A id \in Conversation \ spoiled : IsStored(id) => Whole(id)
    /\ hurried = 0 => spoiled = {}
=============================================================================
