------------------------------ MODULE ChatPage ------------------------------
(***************************************************************************)
(* The chat page of one administrator (ChatPageContent.tsx) beside the     *)
(* service and the rooms of chat.gateway.ts.  The page shows the messages  *)
(* of the open conversation from three sources: lists it asks for when a   *)
(* conversation is opened and at every tick of a timer, whose answers      *)
(* arrive in any order; events of the socket, in order, while it is in the *)
(* room; and the answers to what the administrator sends and changes.      *)
(*                                                                         *)
(* A request saves a message and, some queries later, emits the copy it    *)
(* saved: two changes of a message may be emitted in either order.         *)
(*                                                                         *)
(* A message is <<conversation, number>>; `version` counts its edits,      *)
(* reactions and deletion.  Numbers are given in the order of the commits. *)
(***************************************************************************)
EXTENDS Naturals, Sequences, FiniteSets

CONSTANTS
    Conversations,
    ListLimit,      \* the page asks for so many messages (100)
    MaxChanges,     \* bound: messages and changes of them
    MaxSwitches,    \* bound: conversations opened
    MaxLoads,       \* bound: lists asked for at a time
    MaxDrops,       \* bound: times the socket is disconnected or the API restarts
    NoneOpen

ASSUME ChatPageAssumption ==
    /\ NoneOpen \notin Conversations
    /\ ListLimit \in Nat \ {0}
    /\ {MaxChanges, MaxSwitches, MaxLoads, MaxDrops} \subseteq Nat

Items == [conv : Conversations, num : 1 .. MaxChanges, version : 0 .. MaxChanges]
Slots == 1 .. MaxLoads

VARIABLES
    content,        \* per conversation: what the database holds
    activeConvId,   \* the conversation that is open
    messages,       \* what the page shows
    loads,          \* per slot: a list asked for, answered or not
    answers,        \* what was sent and changed from here and not yet answered
    pending,        \* what was saved and is not yet emitted
    events,         \* the events the socket has yet to hand over
    joining,        \* join requests the gateway works on, or the socket keeps
    rooms,          \* the rooms the socket is in
    connected,
    changesMade, switches, drops,
    current         \* has nothing kept the page from being current? (history)

serverVars == <<content, pending, events, joining, rooms, connected>>
pageVars == <<activeConvId, messages, loads, answers>>
chatPageVars ==
    <<serverVars, pageVars, changesMade, switches, drops, current>>

NoLoad == [at |-> "free"]
Asked(c) == [at |-> "asked", conv |-> c]
Answered(c, list) == [at |-> "answered", conv |-> c, list |-> list]
Loads == {NoLoad} \cup [at : {"asked"}, conv : Conversations]
           \cup [at : {"answered"}, conv : Conversations, list : SUBSET Items]

ChatPageTypeOK ==
    /\ content \in [Conversations -> SUBSET Items]
    /\ \A c \in Conversations : \A x \in content[c] : x.conv = c
    /\ activeConvId \in Conversations \cup {NoneOpen}
    /\ messages \subseteq Items
    /\ loads \in [Slots -> Loads]
    /\ answers \subseteq Items /\ pending \subseteq Items
    /\ events \in Seq(Items)
    /\ joining \subseteq Conversations /\ rooms \subseteq Conversations
    /\ connected \in BOOLEAN
    /\ ~connected => rooms = {} /\ events = << >>
    /\ changesMade \in 0 .. MaxChanges /\ switches \in 0 .. MaxSwitches
    /\ drops \in 0 .. MaxDrops
    /\ current \in BOOLEAN

InitChatPage ==
    /\ content = [c \in Conversations |-> {}]
    /\ activeConvId = NoneOpen
    /\ messages = {}
    /\ loads = [i \in Slots |-> NoLoad]
    /\ answers = {} /\ pending = {}
    /\ events = << >>
    /\ joining = {} /\ rooms = {}
    /\ connected = TRUE
    /\ changesMade = 0 /\ switches = 0 /\ drops = 0
    /\ current = TRUE

Same(x, y) == x.conv = y.conv /\ x.num = y.num

\* A message is appended unless it is there.
Appended(list, x) == IF \E y \in list : Same(x, y) THEN list ELSE list \cup {x}

Replaced(list, x) == {IF Same(x, y) THEN x ELSE y : y \in list}

-----------------------------------------------------------------------------
(* The server.                                                             *)

NewItem(c) == [conv |-> c, num |-> Cardinality(content[c]) + 1, version |-> 0]

\* What a request saves it will emit, and answer if it came from this page.
SaveItem(x, own) ==
    /\ changesMade < MaxChanges
    /\ changesMade' = changesMade + 1
    /\ pending' = pending \cup {x}
    /\ own => x.conv = activeConvId
    /\ answers' = IF own THEN answers \cup {x} ELSE answers
    /\ UNCHANGED <<events, joining, rooms, connected, activeConvId, messages, loads, switches,
                   drops, current>>

\* sendMessage.  The button of the page is off while a message is sent.
SendMessage(c, own) ==
    /\ own => \A x \in answers : x.version # 0
    /\ content' = [content EXCEPT ![c] = @ \cup {NewItem(c)}]
    /\ SaveItem(NewItem(c), own)

\* editMessage, deleteMessage, reactToMessage: the row becomes the copy.
ChangeMessage(x, own) ==
    LET y == [x EXCEPT !.version = @ + 1] IN
    /\ content' = [content EXCEPT ![x.conv] = Replaced(@, y)]
    /\ SaveItem(y, own)

\* The last event under way of a message reports what the message is, or such
\* an event is yet to be emitted.
LastEventIs(x) ==
    \E i \in DOMAIN events :
        events[i] = x /\ \A j \in DOMAIN events : j > i => ~Same(events[j], x)
Coming(x) == x \in pending \/ LastEventIs(x)

\* What is emitted now, although what the message is by now was emitted before.
Overtaken(x) == \E r \in content[x.conv] : Same(r, x) /\ r # x /\ r \notin pending

\* An event reaches the sockets in the room of the conversation.  If ours is
\* not there, or if the event reports what is over, the page is behind until it
\* asks again.
EmitChange(x) ==
    /\ pending' = pending \ {x}
    /\ events' = IF x.conv \in rooms THEN Append(events, x) ELSE events
    /\ current' = (current /\ (x.conv = activeConvId => x.conv \in rooms /\ ~Overtaken(x)))
    /\ UNCHANGED <<content, joining, rooms, connected, pageVars, changesMade, switches, drops>>

\* onJoin: the membership is looked up first.
OnJoin(c) ==
    /\ connected
    /\ c \in joining
    /\ joining' = joining \ {c}
    /\ rooms' = rooms \cup {c}
    /\ UNCHANGED <<content, pending, events, connected, pageVars, changesMade, switches,
                   drops, current>>

\* The connection is lost, with the rooms and the events under way.
Disconnect ==
    /\ connected
    /\ drops < MaxDrops
    /\ drops' = drops + 1
    /\ connected' = FALSE
    /\ rooms' = {} /\ joining' = {} /\ events' = << >>
    /\ current' = (current /\ events = << >>)
    /\ UNCHANGED <<content, pending, pageVars, changesMade, switches>>

\* The API restarts: what it was about to emit and to answer is lost as well.
ServerRestarts ==
    /\ pending # {}
    /\ drops < MaxDrops
    /\ drops' = drops + 1
    /\ connected' = FALSE
    /\ rooms' = {} /\ joining' = {} /\ events' = << >>
    /\ pending' = {} /\ answers' = answers \ pending
    /\ current' = FALSE
    /\ UNCHANGED <<content, activeConvId, messages, loads, changesMade, switches>>

\* "connect": the socket sends what it kept, and the page joins the open
\* conversation again.
Reconnect ==
    /\ ~connected
    /\ connected' = TRUE
    /\ joining' = joining \cup ({activeConvId} \ {NoneOpen})
    /\ UNCHANGED <<content, pending, events, rooms, pageVars, changesMade, switches, drops,
                   current>>

-----------------------------------------------------------------------------
(* The page.                                                               *)

Ask(c) ==
    \E i \in Slots :
        /\ loads[i] = NoLoad
        /\ \A j \in Slots : j < i => loads[j] # NoLoad
        /\ loads' = [loads EXCEPT ![i] = Asked(c)]

\* openExistingConv: join the new room, leave the old one, ask for the list.
\* What is shown stays until the answer arrives.
OpenConversation(c) ==
    /\ c # activeConvId
    /\ switches < MaxSwitches
    /\ switches' = switches + 1
    /\ activeConvId' = c
    /\ rooms' = rooms \ {activeConvId}
    /\ joining' = joining \cup {c}
    /\ Ask(c)
    /\ current' = FALSE
    /\ UNCHANGED <<content, pending, messages, answers, events, connected, changesMade, drops>>

Tick ==
    /\ activeConvId # NoneOpen
    /\ Ask(activeConvId)
    /\ UNCHANGED <<serverVars, activeConvId, messages, answers, changesMade, switches,
                   drops, current>>

\* The newest ListLimit messages: numbers count up.
NewestItems(c) == {x \in content[c] : x.num + ListLimit > Cardinality(content[c])}

\* listMessages reads the database.
ListAnswered(i) ==
    /\ loads[i].at = "asked"
    /\ loads' = [loads EXCEPT ![i] = Answered(@.conv, NewestItems(@.conv))]
    /\ UNCHANGED <<serverVars, activeConvId, messages, answers, changesMade, switches,
                   drops, current>>

\* It need not be so, when the page was in the room before, left it and missed
\* an event: the ones it had not handled by then are older.
EventsUpToDate(c) ==
    \A x \in content[c] : Coming(x) \/ \A i \in DOMAIN events : ~Same(events[i], x)

\* setMessages: the list is shown, whichever conversation is open by now.
ListArrives(i) ==
    /\ loads[i].at = "answered"
    /\ messages' = loads[i].list
    /\ loads' = [loads EXCEPT ![i] = NoLoad]
    /\ current' = (loads[i].conv = activeConvId /\ loads[i].list = NewestItems(activeConvId)
                     /\ EventsUpToDate(activeConvId))
    /\ UNCHANGED <<serverVars, activeConvId, answers, changesMade, switches, drops>>

\* Mutant of HandleEvent: whatever conversation the event belongs to.
HandleAnyEvent ==
    /\ events # << >>
    /\ messages' = IF Head(events).version = 0 THEN Appended(messages, Head(events))
                   ELSE Replaced(messages, Head(events))
    /\ events' = Tail(events)
    /\ UNCHANGED <<content, pending, joining, rooms, connected, activeConvId, loads, answers,
                   changesMade, switches, drops, current>>

\* "message", and "message-updated" or "message-deleted".
HandleEvent ==
    /\ events # << >>
    /\ LET x == Head(events) IN
         messages' = IF x.conv # activeConvId THEN messages
                     ELSE IF x.version = 0 THEN Appended(messages, x)
                     ELSE Replaced(messages, x)
    /\ events' = Tail(events)
    /\ UNCHANGED <<content, pending, joining, rooms, connected, activeConvId, loads, answers,
                   changesMade, switches, drops, current>>

\* A reaction is shown at once, as the page guesses it will be: a version that
\* no row reaches.
ShowGuess(x) ==
    /\ messages' = Replaced(messages, [x EXCEPT !.version = MaxChanges])
    /\ current' = FALSE
    /\ UNCHANGED <<serverVars, activeConvId, loads, answers, changesMade, switches, drops>>

\* A request is answered after it emitted its event.  The answer is appended,
\* whichever conversation is open by now, or replaces the message.
AnswerArrives(x) ==
    /\ x \in answers \ pending
    /\ messages' = IF x.version = 0 THEN Appended(messages, x) ELSE Replaced(messages, x)
    /\ answers' = answers \ {x}
    /\ current' = (current /\ (messages' # messages =>
                      /\ x.conv = activeConvId
                      /\ \E r \in content[x.conv] : Same(r, x) /\ (r = x \/ Coming(r))))
    /\ UNCHANGED <<serverVars, activeConvId, loads, changesMade, switches, drops>>

-----------------------------------------------------------------------------
NextChatPage ==
    \/ \E c \in Conversations : OnJoin(c) \/ OpenConversation(c)
    \/ \E c \in Conversations, own \in BOOLEAN :
          SendMessage(c, own) \/ \E x \in content[c] : ChangeMessage(x, own)
    \/ \E x \in pending : EmitChange(x)
    \/ Disconnect \/ ServerRestarts \/ Reconnect \/ Tick \/ HandleEvent
    \/ \E i \in Slots : ListAnswered(i) \/ ListArrives(i)
    \/ \E x \in messages : ShowGuess(x)
    \/ \E x \in answers : AnswerArrives(x)

SpecChatPage == InitChatPage /\ [][NextChatPage]_chatPageVars

-----------------------------------------------------------------------------
(* Properties.                                                             *)

\* A page whose last list was up to date when it arrived, as were the events
\* under way, and to which every change of the conversation was emitted since,
\* none after a later one of the same message, shows the messages as they are
\* once the events are handled, the newest of them at least: it need not wait
\* for the next tick, and no answer to what is sent or changed from here spoils
\* it but one that replaces something newer.
LivePageIsCurrent ==
    current /\ events = << >> /\ (\A x \in pending : x.conv # activeConvId) =>
        IF activeConvId = NoneOpen THEN messages = {}
        ELSE NewestItems(activeConvId) \subseteq messages /\ messages \subseteq content[activeConvId]
=============================================================================
