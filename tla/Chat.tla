-------------------------------- MODULE Chat --------------------------------
(***************************************************************************)
(* One conversation of two administrators: chat.service.ts.  A message is  *)
(* inserted together with the preview of the conversation; an edit, a      *)
(* deletion and a reaction read the row, change the copy and save it, and  *)
(* the first two then look for the latest message and write the preview.   *)
(*                                                                         *)
(* Messages are numbered by created_at, which the database sets when the   *)
(* transaction of a message begins, not when it commits.  `save` writes    *)
(* every column in which the copy differs from the row, so the row becomes *)
(* the copy, whatever happened to it since it was read.                    *)
(***************************************************************************)
EXTENDS Naturals, FiniteSets, FiniteSetsExt

CONSTANTS
    Members,          \* the two participants
    Calls,            \* requests that may be in progress
    Emojis,
    PageLimit,        \* the page asks for so many messages (100)
    MaxMessages,      \* bound: messages
    MaxCalls          \* bound: edits, deletions and reactions

ASSUME ChatAssumption ==
    /\ Members # {}
    /\ PageLimit \in Nat \ {0}
    /\ MaxMessages \in Nat /\ MaxCalls \in Nat

Messages == 1 .. MaxMessages
NoMessage == 0
MessageRows ==
    [sender : Members, text : {"original", "edited"}, deleted : BOOLEAN,
     reactions : SUBSET (Members \X Emojis)]
Blank == [sender |-> CHOOSE a \in Members : TRUE, text |-> "original",
          deleted |-> FALSE, reactions |-> {}]

VARIABLES
    dated,          \* transactions of messages begun
    committed,      \* the messages whose transaction committed
    row,            \* their rows
    preview,        \* lastMessagePreview
    lastRead,       \* conversation_participants.last_read_message_id
    call,           \* per request: the handler at work
    heard,          \* per member: the messages whose event came
    listed,         \* per member: lists whose answers are under way
    toMarkRead,     \* per member: the messages the page has yet to mark read
    calls,
    shown,          \* the messages each member was shown (history)
    skipped,        \* those a later one was shown before, or instead (history)
    datedEarly,     \* messages committed after a later one (history)
    outdated,       \* requests whose copy another save made stale (history)
    previewLost     \* did a race or a restart spoil the preview? (history)

rowsVars == <<dated, committed, row, preview>>
readVars == <<lastRead, heard, listed, toMarkRead, shown, skipped>>
chatHistory == <<datedEarly, outdated, previewLost>>
chatVars == <<rowsVars, readVars, call, calls, chatHistory>>

NoCall == [at |-> "idle"]
Handling(at, op, who, m, copy) ==
    [at |-> at, op |-> op, who |-> who, msg |-> m, copy |-> copy]

ChatTypeOK ==
    /\ dated \in 0 .. MaxMessages
    /\ committed \subseteq 1 .. dated
    /\ row \in [Messages -> MessageRows]
    /\ preview \in [msg : Messages \cup {NoMessage}, text : {"original", "edited", "deleted"}]
    /\ preview.msg \in committed \cup {NoMessage}
    /\ lastRead \in [Members -> committed \cup {NoMessage}]
    /\ call \in [Calls -> {NoCall} \cup
          [at : {"inserting", "notifying", "read", "saved", "latest"},
           op : {"send", "edit", "delete", "react"}, who : Members,
           msg : Messages, copy : MessageRows]]
    /\ heard \in [Members -> SUBSET committed]
    /\ listed \in [Members -> SUBSET SUBSET committed]
    /\ toMarkRead \in [Members -> SUBSET committed]
    /\ calls \in 0 .. MaxCalls
    /\ shown \in [Members -> SUBSET committed]
    /\ skipped \in [Members -> SUBSET committed]
    /\ datedEarly \subseteq committed /\ outdated \subseteq Calls /\ previewLost \in BOOLEAN

InitChat ==
    /\ dated = 0 /\ committed = {}
    /\ row = [m \in Messages |-> Blank]
    /\ preview = [msg |-> NoMessage, text |-> "original"]
    /\ lastRead = [a \in Members |-> NoMessage]
    /\ call = [r \in Calls |-> NoCall]
    /\ heard = [a \in Members |-> {}]
    /\ listed = [a \in Members |-> {}]
    /\ toMarkRead = [a \in Members |-> {}]
    /\ calls = 0
    /\ shown = [a \in Members |-> {}] /\ skipped = [a \in Members |-> {}]
    /\ datedEarly = {} /\ outdated = {} /\ previewLost = FALSE

At(stages) == {r \in Calls : call[r].at \in stages}
Latest == Max(committed \cup {NoMessage})

EndCall(r) ==
    /\ call' = [call EXCEPT ![r] = NoCall]
    /\ outdated' = outdated \ {r}

-----------------------------------------------------------------------------
(* sendMessage.                                                            *)

BeginSend(r, a) ==
    /\ call[r] = NoCall
    /\ dated < MaxMessages
    /\ dated' = dated + 1
    /\ row' = [row EXCEPT ![dated'] = [Blank EXCEPT !.sender = a]]
    /\ call' = [call EXCEPT ![r] = Handling("inserting", "send", a, dated', row'[dated'])]
    /\ UNCHANGED <<committed, preview, readVars, calls, chatHistory>>

\* The message and the preview are committed together.
CommitSend(r) ==
    /\ call[r].at = "inserting"
    /\ LET m == call[r].msg IN
         /\ committed' = committed \cup {m}
         /\ preview' = [msg |-> m, text |-> "original"]
         /\ datedEarly' = IF Latest > m THEN datedEarly \cup {m} ELSE datedEarly
         /\ previewLost' = (previewLost \/ Latest > m \/ At({"latest"}) # {})
    /\ call' = [call EXCEPT ![r].at = "notifying"]
    /\ UNCHANGED <<dated, row, readVars, calls, outdated>>

\* notifyConversationPeers writes to the peer's bell, which is not part of
\* this model; a failure is logged.
NotifyPeers(r) ==
    /\ call[r].at = "notifying"
    /\ EndCall(r)
    /\ UNCHANGED <<rowsVars, readVars, calls, datedEarly, previewLost>>

-----------------------------------------------------------------------------
(* editMessage, deleteMessage, reactToMessage.                             *)

\* Mutant of Toggled: the map is made anew.
ToggledAlone(reactions, a, e) ==
    IF <<a, e>> \in reactions THEN {} ELSE {<<a, e>>}

\* The caller's reaction is taken off every emoji, and put on this one unless
\* it was there.
Toggled(reactions, a, e) ==
    {x \in reactions : x[1] # a} \cup (IF <<a, e>> \in reactions THEN {} ELSE {<<a, e>>})

ReadMessage(r, op, a, m, copy) ==
    /\ call[r] = NoCall
    /\ calls < MaxCalls
    /\ m \in committed
    /\ calls' = calls + 1
    /\ call' = [call EXCEPT ![r] = Handling("read", op, a, m, copy)]
    /\ UNCHANGED <<rowsVars, readVars, chatHistory>>

EditMessage(r, m) ==
    /\ ~row[m].deleted
    /\ ReadMessage(r, "edit", row[m].sender, m, [row[m] EXCEPT !.text = "edited"])

\* Deleting twice changes nothing.
DeleteMessage(r, m) ==
    /\ ~row[m].deleted
    /\ ReadMessage(r, "delete", row[m].sender, m, [row[m] EXCEPT !.deleted = TRUE])

ReactToMessage(r, a, m, e) ==
    /\ ~row[m].deleted
    /\ ReadMessage(r, "react", a, m, [row[m] EXCEPT !.reactions = Toggled(@, a, e)])

\* Requests that hold a copy of the message, or its preview, by now.
Copies(r, m) == {q \in At({"read"}) \ {r} : call[q].msg = m}
Refreshing(r, m) == {q \in At({"saved", "latest"}) \ {r} : call[q].msg = m}

\* The row becomes the copy.  A reaction is done then.
SaveMessage(r) ==
    /\ call[r].at = "read"
    /\ LET m == call[r].msg IN
         /\ row' = [row EXCEPT ![m] = call[r].copy]
         /\ outdated' = (outdated \ {r}) \cup Copies(r, m)
         /\ previewLost' = (previewLost \/ r \in outdated \/ Refreshing(r, m) # {})
    /\ call' = IF call[r].op = "react" THEN [call EXCEPT ![r] = NoCall]
               ELSE [call EXCEPT ![r].at = "saved"]
    /\ UNCHANGED <<dated, committed, preview, readVars, calls, datedEarly>>

\* Mutant of FindLatest: the preview is written for any message.
FindAny(r) ==
    /\ call[r].at = "saved"
    /\ call' = [call EXCEPT ![r].at = "latest"]
    /\ UNCHANGED <<rowsVars, readVars, calls, chatHistory>>

\* Is this the latest message?
FindLatest(r) ==
    /\ call[r].at = "saved"
    /\ IF call[r].msg = Latest
       THEN /\ call' = [call EXCEPT ![r].at = "latest"]
            /\ UNCHANGED outdated
       ELSE EndCall(r)
    /\ UNCHANGED <<rowsVars, readVars, calls, datedEarly, previewLost>>

PreviewText(m) == IF m.deleted THEN "deleted" ELSE m.text

WritePreview(r) ==
    /\ call[r].at = "latest"
    /\ preview' = [msg |-> call[r].msg, text |-> PreviewText(call[r].copy)]
    /\ EndCall(r)
    /\ UNCHANGED <<dated, committed, row, readVars, calls, datedEarly, previewLost>>

\* The API restarts: an open transaction is rolled back.
LoseCalls ==
    /\ At({"saved", "latest"}) # {}
    /\ call' = [r \in Calls |-> NoCall]
    /\ outdated' = {} /\ previewLost' = TRUE
    /\ UNCHANGED <<rowsVars, readVars, calls, datedEarly>>

-----------------------------------------------------------------------------
(* listMessages and markRead, as the page calls them, and the event of a   *)
(* new message.                                                            *)

NewestOf(set, n) == {m \in set : Cardinality({k \in set : k > m}) < n}

\* listMessages: the newest messages there are, by created_at, and no more
\* than the page asked for.
ListMessages(a) ==
    /\ committed # {}
    /\ listed' = [listed EXCEPT ![a] = @ \cup {NewestOf(committed, PageLimit)}]
    /\ UNCHANGED <<rowsVars, lastRead, heard, toMarkRead, shown, skipped, call, calls,
                   chatHistory>>

\* loadMessages and the timer: the page shows the list, and will mark its last
\* message read; what did not fit is behind that mark.
ShowMessages(a, list) ==
    /\ list \in listed[a]
    /\ listed' = [listed EXCEPT ![a] = @ \ {list}]
    /\ shown' = [shown EXCEPT ![a] = @ \cup list]
    /\ toMarkRead' = [toMarkRead EXCEPT ![a] = @ \cup {Max(list)}]
    /\ skipped' = [skipped EXCEPT
          ![a] = @ \cup {k \in committed \ shown[a] : \A m \in list : k < m}]
    /\ UNCHANGED <<rowsVars, lastRead, heard, call, calls, chatHistory>>

\* emitMessage after the commit reaches both members: the page shows this one,
\* unless a list did, and will mark it read in any case, although the event of
\* an earlier one may be missing.
ReceiveMessage(a, m) ==
    /\ m \in committed \ heard[a]
    /\ heard' = [heard EXCEPT ![a] = @ \cup {m}]
    /\ shown' = [shown EXCEPT ![a] = @ \cup {m}]
    /\ toMarkRead' = [toMarkRead EXCEPT ![a] = @ \cup {m}]
    /\ skipped' = [skipped EXCEPT
          ![a] = @ \cup {k \in committed \ shown[a] : k < m}]
    /\ UNCHANGED <<rowsVars, lastRead, listed, call, calls, chatHistory>>

\* Mutant of MarkRead: everything is marked read.
MarkAllRead(a, m) ==
    /\ m \in toMarkRead[a]
    /\ lastRead' = [lastRead EXCEPT ![a] = Latest]
    /\ toMarkRead' = [toMarkRead EXCEPT ![a] = @ \ {m}]
    /\ UNCHANGED <<rowsVars, heard, listed, shown, skipped, call, calls, chatHistory>>

\* Requests may overtake each other: the mark may move back.
MarkRead(a, m) ==
    /\ m \in toMarkRead[a]
    /\ lastRead' = [lastRead EXCEPT ![a] = m]
    /\ toMarkRead' = [toMarkRead EXCEPT ![a] = @ \ {m}]
    /\ UNCHANGED <<rowsVars, heard, listed, shown, skipped, call, calls, chatHistory>>

\* The unread count of listMyConversations.
Unread(a) == {m \in committed : row[m].sender # a /\ m > lastRead[a]}

-----------------------------------------------------------------------------
NextChat ==
    \/ \E r \in Calls, a \in Members : BeginSend(r, a)
    \/ \E r \in Calls : CommitSend(r) \/ NotifyPeers(r)
    \/ \E r \in Calls, m \in Messages : EditMessage(r, m) \/ DeleteMessage(r, m)
    \/ \E r \in Calls, a \in Members, m \in Messages, e \in Emojis :
          ReactToMessage(r, a, m, e)
    \/ \E r \in Calls : SaveMessage(r) \/ FindLatest(r) \/ WritePreview(r)
    \/ LoseCalls
    \/ \E a \in Members : ListMessages(a) \/ \E list \in listed[a] : ShowMessages(a, list)
    \/ \E a \in Members, m \in Messages : ReceiveMessage(a, m) \/ MarkRead(a, m)

SpecChat == InitChat /\ [][NextChat]_chatVars

-----------------------------------------------------------------------------
(* Properties.                                                             *)

\* "Refresh the conversation preview if this was the latest message": at rest
\* the preview shows the latest message as it is, unless sends, or two
\* changes of that message, met on the way.
PreviewShowsLatest ==
    ~previewLost /\ At({"saved", "latest"}) = {} /\ committed # {} =>
        preview = [msg |-> Latest, text |-> PreviewText(row[Latest])]

KeepsOthersWork(r) ==
    LET old == row[call[r].msg]
        new == row'[call[r].msg] IN
    /\ old.deleted => new.deleted
    /\ \A x \in old.reactions \ new.reactions : x[1] = call[r].who
    /\ call[r].op # "react" => old.reactions = new.reactions

SavesKeepOthersWork ==
    \A r \in Calls \ outdated :
        call[r].at = "read" /\ call'[r].at # "read" => KeepsOthersWork(r)

\* A member's call changes nobody else's reaction and undoes no deletion,
\* unless another call saved the message after this one read it.
CallsKeepOthersWork == [][SavesKeepOthersWork]_chatVars

\* A message that a member was never shown counts as unread, although marks
\* overtake each other, and although lists arrive late and in any order; unless
\* it was committed after a later one, the event of a later one arrived without
\* its own, or it did not fit the list because more than PageLimit were newer.
UnshownIsUnread ==
    \A a \in Members :
        {m \in committed \ (shown[a] \cup skipped[a] \cup datedEarly) : row[m].sender # a}
            \subseteq Unread(a)
=============================================================================
