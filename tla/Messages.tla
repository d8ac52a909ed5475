-------------------------------- MODULE Messages --------------------------------
(***************************************************************************)
(* One person's messages in one conversation, their mentions, reactions    *)
(* and files (the message and attachment routes under app/api/collab, over *)
(* collab-data.ts, and the daily purge of realtime/files.ts).  A request   *)
(* reads and checks first; what its write may rely on is what the write    *)
(* repeats: the unique key, the link's and the edit's own conditions.      *)
(***************************************************************************)
EXTENDS Integers, FiniteSets

CONSTANTS
  Ids,        \* ids of messages
  Keys,       \* client keys: one for each message that is composed
  Files,      \* ids of uploads
  Tabs,       \* Worker invocations serving the person's tabs, and one reader's
  MaxFaults   \* bound: how many invocations, or deletions in R2, fail

ASSUME FaultBound == MaxFaults \in Nat
ASSUME NoneIsNoId == "none" \notin Ids

VARIABLES
  message,    \* id -> the Message row
  mentions,   \* the messages with MessageMention rows
  reactions,  \* the messages with the reader's MessageReaction row
  file,       \* file -> the Attachment row
  stored,     \* files whose object is in R2
  tab,        \* request -> its next await
  asks,       \* request -> what it was asked
  purge,      \* the files the purge listed, and those whose objects it deleted
  faults

posts == <<message, mentions, reactions, file, stored>>
tabs == <<tab, asks>>
messagesVars == <<posts, tabs, purge, faults>>

NoKey == "none"
NoMessage == [key |-> NoKey, body |-> FALSE, deleted |-> FALSE]
\* A file's age counts until it is sent; that of its deletion until it is purged.
NoFile == [row |-> FALSE, on |-> "none", deleted |-> FALSE, dayOld |-> FALSE, monthGone |-> FALSE]
Pending == [NoFile EXCEPT !.row = TRUE]
Purged == [NoFile EXCEPT !.monthGone = TRUE]
NoAsk == [do |-> "none"]
Asks ==
  [do: {"send"}, key: Keys, body: BOOLEAN, files: SUBSET Files, mention: BOOLEAN]
    \cup [do: {"edit"}, on: Ids, mention: BOOLEAN]
    \cup [do: {"delete", "react", "unreact"}, on: Ids]
    \cup [do: {"discard"}, on: Files]
Resting == [busy |-> FALSE, listed |-> {}, done |-> {}]

MessagesInit ==
  /\ message = [i \in Ids |-> NoMessage]
  /\ mentions = {} /\ reactions = {}
  /\ file = [f \in Files |-> NoFile]
  /\ stored = {}
  /\ tab = [t \in Tabs |-> "idle"]
  /\ asks = [t \in Tabs |-> NoAsk]
  /\ purge = Resting
  /\ faults = 0

-----------------------------------------------------------------------------
Sent(i) == message[i].key # NoKey
Shown(f) == file[f].row /\ file[f].on # "none" /\ ~file[f].deleted
IsPending(f) == file[f].row /\ file[f].on = "none" /\ ~file[f].deleted
KeyTaken(k) == \E i \in Ids : message[i].key = k

Then(t, label) == tab' = [tab EXCEPT ![t] = label] /\ UNCHANGED asks
Close(t) ==
  /\ tab' = [tab EXCEPT ![t] = "idle"]
  /\ asks' = [asks EXCEPT ![t] = NoAsk]
Proceed(t, allowed, label) ==
  /\ IF allowed THEN Then(t, label) ELSE Close(t)
  /\ UNCHANGED <<posts, purge, faults>>

\* A message has text, files, or both; ids come from what a page showed.
AskFor(t) == \E a \in Asks :
  /\ tab[t] = "idle"
  /\ a.do = "send" => (a.body \/ a.files # {}) /\ (a.mention => a.body)
  /\ a.do \in {"edit", "delete", "react", "unreact"} => Sent(a.on)
  /\ a.do = "discard" => file[a.on].row
  /\ tab' = [tab EXCEPT ![t] = IF a.do = "send" THEN "key" ELSE "read"]
  /\ asks' = [asks EXCEPT ![t] = a]
  /\ UNCHANGED <<posts, purge, faults>>

\* findByClientKey: a resubmitted message is answered with the first one.
FindKey(t) ==
  /\ tab[t] = "key"
  /\ Proceed(t, ~KeyTaken(asks[t].key), "files")
\* pendingAttachments
FindFiles(t) ==
  /\ tab[t] = "files"
  /\ Proceed(t, \A f \in asks[t].files : IsPending(f), "insert")

\* Message_authorId_clientKey_key.
\* Mutant: no such index.
AnyKey(k) == TRUE
FreshKey(k) == ~KeyTaken(k)
\* The condition of the linking update.
\* Mutant: a file that another message has may be linked.
LinkableAnyhow(f) == file[f].row /\ ~file[f].deleted
Linkable(f) == IsPending(f)

\* insertMessage: one batch, which a taken key fails entirely.
InsertMessage(t) ==
  /\ tab[t] = "insert"
  /\ IF FreshKey(asks[t].key)
       THEN \E i \in Ids :
         /\ ~Sent(i)
         /\ message' = [message EXCEPT ![i] = [key |-> asks[t].key, body |-> asks[t].body,
                                               deleted |-> FALSE]]
         /\ file' = [f \in Files |-> IF f \in asks[t].files /\ Linkable(f)
                                       THEN [file[f] EXCEPT !.on = i] ELSE file[f]]
         /\ mentions' = IF asks[t].mention THEN mentions \cup {i} ELSE mentions
       ELSE UNCHANGED <<message, file, mentions>>
  /\ Close(t) /\ UNCHANGED <<reactions, stored, purge, faults>>

\* ownMessage and findMessage; a discarded upload must still be pending.
Read(t) ==
  /\ tab[t] = "read"
  /\ LET a == asks[t]
     IN  Proceed(t, IF a.do = "discard" THEN IsPending(a.on) ELSE ~message[a.on].deleted, a.do)

\* editMessage: the text only of a message that is not deleted, its mentions anyway.
\* Mutant: the text anyway.
EditableAnyhow(i) == Sent(i)
Editable(i) == ~message[i].deleted
Edit(t) == LET i == asks[t].on IN
  /\ tab[t] = "edit"
  /\ message' = IF Editable(i) THEN [message EXCEPT ![i].body = TRUE] ELSE message
  /\ mentions' = IF asks[t].mention THEN mentions \cup {i} ELSE mentions \ {i}
  /\ Close(t) /\ UNCHANGED <<reactions, file, stored, purge, faults>>

\* softDeleteMessage
Delete(t) == LET i == asks[t].on IN
  /\ tab[t] = "delete"
  /\ message' = [message EXCEPT ![i].body = FALSE, ![i].deleted = TRUE]
  /\ mentions' = mentions \ {i}
  /\ reactions' = reactions \ {i}
  /\ file' = [f \in Files |-> IF file[f].on = i /\ ~file[f].deleted
                                THEN [file[f] EXCEPT !.deleted = TRUE] ELSE file[f]]
  /\ Close(t) /\ UNCHANGED <<stored, purge, faults>>

\* setReaction
React(t) == LET i == asks[t].on IN
  /\ tab[t] \in {"react", "unreact"}
  /\ reactions' = IF tab[t] = "react" THEN reactions \cup {i} ELSE reactions \ {i}
  /\ Close(t) /\ UNCHANGED <<message, mentions, file, stored, purge, faults>>

\* discardPendingAttachment
Discardable(f) == file[f].row /\ file[f].on = "none"
Discard(t) == LET f == asks[t].on IN
  /\ tab[t] = "discard"
  /\ file' = IF Discardable(f) THEN [file EXCEPT ![f].deleted = TRUE] ELSE file
  /\ Close(t) /\ UNCHANGED <<message, mentions, reactions, stored, purge, faults>>

\* The object is put before the row that names it.
Upload(f) ==
  /\ file[f] = NoFile
  /\ file' = [file EXCEPT ![f] = Pending]
  /\ stored' = stored \cup {f}
  /\ UNCHANGED <<message, mentions, reactions, tabs, purge, faults>>

Fail(t) ==
  /\ tab[t] # "idle" /\ faults < MaxFaults /\ faults' = faults + 1
  /\ Close(t) /\ UNCHANGED <<posts, purge>>

-----------------------------------------------------------------------------
(* The daily purge: lists, deletes the objects one by one, then the rows.   *)

Purgeable(f) ==
  /\ file[f].row
  /\ (file[f].on = "none" /\ file[f].dayOld) \/ file[f].monthGone
BeginPurge ==
  /\ ~purge.busy /\ \E f \in Files : Purgeable(f)
  /\ purge' = [busy |-> TRUE, listed |-> {f \in Files : Purgeable(f)}, done |-> {}]
  /\ UNCHANGED <<posts, tabs, faults>>
PurgeObject(f) ==
  /\ f \in purge.listed
  /\ stored' = stored \ {f}
  /\ purge' = [purge EXCEPT !.listed = @ \ {f}, !.done = @ \cup {f}]
  /\ UNCHANGED <<message, mentions, reactions, file, tabs, faults>>
\* R2 refuses: the row stays for the next run.
KeepObject(f) ==
  /\ f \in purge.listed /\ faults < MaxFaults /\ faults' = faults + 1
  /\ purge' = [purge EXCEPT !.listed = @ \ {f}]
  /\ UNCHANGED <<posts, tabs>>
PurgeRows ==
  /\ purge.busy /\ purge.listed = {}
  /\ file' = [f \in Files |-> IF f \in purge.done THEN Purged ELSE file[f]]
  /\ purge' = Resting
  /\ UNCHANGED <<message, mentions, reactions, stored, tabs, faults>>
LosePurge ==
  /\ purge.busy /\ faults < MaxFaults /\ faults' = faults + 1
  /\ purge' = Resting
  /\ UNCHANGED <<posts, tabs>>

\* Time: a day over an upload that is not sent, a month over a deleted file.
Ages(f) ==
  /\ file[f].row /\ file[f].on = "none" /\ ~file[f].dayOld
  /\ file' = [file EXCEPT ![f].dayOld = TRUE]
  /\ UNCHANGED <<message, mentions, reactions, stored, tabs, purge, faults>>
Fades(f) ==
  /\ file[f].row /\ file[f].deleted /\ ~file[f].monthGone
  /\ file' = [file EXCEPT ![f].monthGone = TRUE]
  /\ UNCHANGED <<message, mentions, reactions, stored, tabs, purge, faults>>

MessagesNext ==
  \/ \E t \in Tabs :
       \/ AskFor(t) \/ FindKey(t) \/ FindFiles(t) \/ InsertMessage(t) \/ Read(t)
       \/ Edit(t) \/ Delete(t) \/ React(t) \/ Discard(t) \/ Fail(t)
  \/ \E f \in Files : Upload(f) \/ PurgeObject(f) \/ KeepObject(f) \/ Ages(f) \/ Fades(f)
  \/ BeginPurge \/ PurgeRows \/ LosePurge
MessagesSpec == MessagesInit /\ [][MessagesNext]_messagesVars

-----------------------------------------------------------------------------
MessagesTypeOK ==
  /\ message \in [Ids -> [key: Keys \cup {NoKey}, body: BOOLEAN, deleted: BOOLEAN]]
  /\ mentions \subseteq Ids /\ reactions \subseteq Ids
  /\ file \in [Files -> [row: BOOLEAN, on: Ids \cup {"none"}, deleted: BOOLEAN,
                         dayOld: BOOLEAN, monthGone: BOOLEAN]]
  /\ stored \subseteq Files
  /\ tab \in [Tabs -> {"idle", "key", "files", "insert", "read", "edit", "delete", "react",
                       "unreact", "discard"}]
  /\ asks \in [Tabs -> Asks \cup {NoAsk}]
  /\ purge \in [busy: BOOLEAN, listed: SUBSET Files, done: SUBSET Files]
  /\ faults \in 0..MaxFaults

\* A send that is retried, or races itself, never doubles: a key has one message.
OneMessagePerKey ==
  \A i, j \in Ids : Sent(i) /\ message[i].key = message[j].key => i = j

\* A deleted message's text is erased for good and its files are out of reach,
\* also when an edit, a send or a discard that read it before comes after.
DeletedIsErased ==
  \A i \in Ids : message[i].deleted =>
    ~message[i].body /\ \A f \in Files : file[f].on = i => file[f].deleted

\* A file that was sent within a day stays with its message, row and object,
\* until the message is deleted: no second send takes it, no discard or purge
\* that read it as pending removes it.
SentFilesStay ==
  [][\A f \in Files : (Shown(f) /\ ~file[f].dayOld /\ f \in stored) =>
       \/ Shown(f)' /\ file'[f].on = file[f].on /\ f \in stored'
       \/ message'[file[f].on].deleted]_messagesVars
=============================================================================
