--------------------------- MODULE ConversationProofs ---------------------------
(* Messages, for any number of messages, keys, files and tabs; what the directory *)
(* says of a person, for any number of tabs and any timings; the meetings of a   *)
(* conversation; and the people of a room.                                       *)
EXTENDS Collaboration, FiniteSetTheorems, WellFoundedInduction, TLAPS

Sends == [do: {"send"}, key: Keys, body: BOOLEAN, files: SUBSET Files, mention: BOOLEAN]
Edits == [do: {"edit"}, on: Ids, mention: BOOLEAN]
Marks == [do: {"delete", "react", "unreact"}, on: Ids]
Discards == [do: {"discard"}, on: Files]

\* A request is where its question takes it.
Where == \A t \in Tabs :
  /\ tab[t] \in {"key", "files", "insert"} => asks[t] \in Sends
  /\ tab[t] = "read" => asks[t] \in Edits \cup Marks \cup Discards
  /\ tab[t] = "edit" => asks[t] \in Edits
  /\ tab[t] \in {"delete", "react", "unreact"} => asks[t] \in Marks
  /\ tab[t] = "discard" => asks[t] \in Discards

\* The purge holds only what had waited for a day or was deleted a month ago.
Aged ==
  /\ \A f \in purge.listed \cup purge.done : file[f].dayOld \/ file[f].monthGone
  /\ \A f \in Files : file[f].monthGone => file[f].deleted \/ ~file[f].row

MessageRow == [key: Keys \cup {NoKey}, body: BOOLEAN, deleted: BOOLEAN]
FileRow == [row: BOOLEAN, on: Ids \cup {"none"}, deleted: BOOLEAN, dayOld: BOOLEAN,
            monthGone: BOOLEAN]
Labels == {"idle", "key", "files", "insert", "read", "edit", "delete", "react", "unreact", "discard"}

Tabbed ==
  /\ tab \in [Tabs -> Labels]
  /\ asks \in [Tabs -> Asks \cup {NoAsk}]
  /\ Where
Posted ==
  /\ message \in [Ids -> MessageRow] /\ mentions \subseteq Ids /\ reactions \subseteq Ids
  /\ OneMessagePerKey
Filed == file \in [Files -> FileRow] /\ stored \subseteq Files
Purging ==
  /\ purge \in [busy: BOOLEAN, listed: SUBSET Files, done: SUBSET Files]
  /\ faults \in 0..MaxFaults
MessagesInv == Tabbed /\ Posted /\ Filed /\ Purging /\ Aged /\ DeletedIsErased

-----------------------------------------------------------------------------
(* Initial states *)

LEMMA MessagesInitInv == MessagesInit => MessagesInv
<1> SUFFICES ASSUME MessagesInit PROVE MessagesInv
  OBVIOUS
<1>1. Tabbed
  BY DEF MessagesInit, Tabbed, Where, Labels
<1>2. Posted
  BY DEF MessagesInit, Posted, MessageRow, NoMessage, OneMessagePerKey, Sent
<1>3. Filed
  BY DEF MessagesInit, Filed, FileRow, NoFile
<1>4. Purging
  BY FaultBound DEF MessagesInit, Purging, Resting
<1>5. Aged /\ DeletedIsErased
  BY DEF MessagesInit, Aged, DeletedIsErased, NoMessage, NoFile, Resting
<1> QED BY <1>1, <1>2, <1>3, <1>4, <1>5 DEF MessagesInv

-----------------------------------------------------------------------------
(* A request's place *)

LEMMA CloseTabs == ASSUME Tabbed, NEW t \in Tabs, Close(t) PROVE Tabbed'
BY DEF Tabbed, Close, Where, Labels, NoAsk, Asks

LEMMA ProceedTabs ==
  ASSUME Tabbed, NEW t \in Tabs, NEW allowed, NEW label \in Labels, Proceed(t, allowed, label),
         label \in {"files", "insert"} => asks[t] \in Sends,
         label = "edit" => asks[t] \in Edits,
         label \in {"delete", "react", "unreact"} => asks[t] \in Marks,
         label = "discard" => asks[t] \in Discards,
         label \notin {"key", "read"}
  PROVE  Tabbed'
<1>1. CASE allowed
  BY <1>1 DEF Tabbed, Where, Proceed, Then, Labels
<1>2. CASE ~allowed
  BY <1>2, CloseTabs DEF Proceed
<1> QED BY <1>1, <1>2

LEMMA AskKinds ==
  ASSUME NEW a \in Asks
  PROVE  /\ a.do = "send" => a \in Sends
         /\ a.do # "send" => a \in Edits \cup Marks \cup Discards
         /\ a \in Edits => a.do = "edit"
         /\ a \in Marks => a.do \in {"delete", "react", "unreact"}
         /\ a \in Discards => a.do = "discard"
<1>1. a \in Sends \cup Edits \cup Marks \cup Discards
  BY DEF Asks, Sends, Edits, Marks, Discards
<1>2. /\ a \in Sends => a.do = "send"
      /\ a \in Edits => a.do = "edit"
      /\ a \in Marks => a.do \in {"delete", "react", "unreact"}
      /\ a \in Discards => a.do = "discard"
  BY DEF Sends, Edits, Marks, Discards
<1> QED BY <1>1, <1>2

-----------------------------------------------------------------------------
(* Requests that only read *)

LEMMA ReadingKeeps ==
  ASSUME MessagesInv, NEW t \in Tabs,
         AskFor(t) \/ FindKey(t) \/ FindFiles(t) \/ Read(t)
  PROVE  MessagesInv'
<1>1. UNCHANGED <<posts, purge, faults>>
  BY DEF AskFor, FindKey, FindFiles, Read, Proceed
<1>2. Tabbed'
  <2>1. CASE AskFor(t)
    <3>1. PICK a \in Asks : /\ tab' = [tab EXCEPT ![t] = IF a.do = "send" THEN "key" ELSE "read"]
                            /\ asks' = [asks EXCEPT ![t] = a]
      BY <2>1 DEF AskFor
    <3>2. /\ a.do = "send" => a \in Sends
          /\ a.do # "send" => a \in Edits \cup Marks \cup Discards
      BY AskKinds
    <3> HIDE DEF Sends, Edits, Marks, Discards, Asks
    <3> QED BY <3>1, <3>2 DEF MessagesInv, Tabbed, Where, Labels
  <2>2. CASE FindKey(t)
    BY <2>2, ProceedTabs DEF FindKey, MessagesInv, Tabbed, Where, Labels
  <2>3. CASE FindFiles(t)
    BY <2>3, ProceedTabs DEF FindFiles, MessagesInv, Tabbed, Where, Labels
  <2>4. CASE Read(t)
    <3> DEFINE a == asks[t]
    <3>1. a \in Edits \cup Marks \cup Discards
      BY <2>4 DEF Read, MessagesInv, Tabbed, Where
    <3>2. /\ a \in Edits => a.do = "edit"
          /\ a \in Marks => a.do \in {"delete", "react", "unreact"}
          /\ a \in Discards => a.do = "discard"
      BY DEF Edits, Marks, Discards
    <3>3. a.do \in Labels
      BY <3>1, <3>2 DEF Labels
    <3>4. Proceed(t, IF a.do = "discard" THEN IsPending(a.on) ELSE ~message[a.on].deleted, a.do)
      BY <2>4 DEF Read
    <3> HIDE DEF a
    <3> QED BY <3>1, <3>2, <3>3, <3>4, ProceedTabs DEF MessagesInv, a
  <2> QED BY <2>1, <2>2, <2>3, <2>4
<1> QED BY <1>1, <1>2 DEF MessagesInv, posts, Posted, Filed, Purging, Aged, DeletedIsErased,
      OneMessagePerKey, Sent

-----------------------------------------------------------------------------
(* Requests that write *)

LEMMA InsertKeeps == ASSUME MessagesInv, NEW t \in Tabs, InsertMessage(t) PROVE MessagesInv'
<1>1. asks[t] \in Sends /\ Close(t) /\ UNCHANGED <<reactions, stored, purge, faults>>
  BY DEF InsertMessage, MessagesInv, Tabbed, Where
<1>2. Tabbed'
  BY <1>1, CloseTabs DEF MessagesInv
<1>3. Purging'
  BY <1>1 DEF MessagesInv, Purging
<1>4. CASE ~FreshKey(asks[t].key)
  <2>1. UNCHANGED <<message, file, mentions>>
    BY <1>4 DEF InsertMessage
  <2> QED BY <1>1, <1>2, <1>3, <2>1 DEF MessagesInv, Posted, Filed, Aged, DeletedIsErased,
        OneMessagePerKey, Sent
<1>5. CASE FreshKey(asks[t].key)
  <2>1. PICK i \in Ids :
          /\ ~Sent(i)
          /\ message' = [message EXCEPT ![i] = [key |-> asks[t].key, body |-> asks[t].body,
                                                deleted |-> FALSE]]
          /\ file' = [f \in Files |-> IF f \in asks[t].files /\ Linkable(f)
                                        THEN [file[f] EXCEPT !.on = i] ELSE file[f]]
          /\ mentions' = IF asks[t].mention THEN mentions \cup {i} ELSE mentions
    BY <1>5 DEF InsertMessage
  <2>2. asks[t].key \in Keys /\ asks[t].body \in BOOLEAN
    BY <1>1 DEF Sends
  <2>3. message' \in [Ids -> MessageRow] /\ mentions' \subseteq Ids
    BY <2>1, <2>2 DEF MessagesInv, Posted, MessageRow
  <2>4. /\ message'[i].key = asks[t].key /\ ~message'[i].deleted
        /\ \A j \in Ids \ {i} : message'[j] = message[j]
    BY <2>1 DEF MessagesInv, Posted
  <2>5. OneMessagePerKey'
    BY <1>5, <2>4 DEF FreshKey, KeyTaken, OneMessagePerKey, Sent, MessagesInv, Posted
  <2>6. \A f \in Files : /\ file[f] \in FileRow /\ file'[f] \in FileRow
                         /\ file'[f].on \in {file[f].on, i} /\ file'[f].deleted = file[f].deleted
                         /\ file'[f].dayOld = file[f].dayOld
                         /\ file'[f].monthGone = file[f].monthGone /\ file'[f].row = file[f].row
    BY <2>1 DEF MessagesInv, Filed, FileRow
  <2>7. Filed'
    BY <1>1, <2>1, <2>6 DEF MessagesInv, Filed
  <2>8. Aged'
    BY <1>1, <2>6 DEF MessagesInv, Aged, Purging
  <2>9. DeletedIsErased'
    BY <2>4, <2>6 DEF MessagesInv, DeletedIsErased
  <2> QED BY <1>1, <1>2, <1>3, <2>3, <2>5, <2>7, <2>8, <2>9 DEF MessagesInv, Posted
<1> QED BY <1>4, <1>5

LEMMA EditKeeps == ASSUME MessagesInv, NEW t \in Tabs, Edit(t) PROVE MessagesInv'
<1> DEFINE i == asks[t].on
<1>1. /\ asks[t] \in Edits /\ Close(t) /\ UNCHANGED <<reactions, file, stored, purge, faults>>
      /\ message' = IF Editable(i) THEN [message EXCEPT ![i].body = TRUE] ELSE message
      /\ mentions' = IF asks[t].mention THEN mentions \cup {i} ELSE mentions \ {i}
  BY DEF Edit, MessagesInv, Tabbed, Where
<1>2. i \in Ids
  BY <1>1 DEF Edits
<1> HIDE DEF i
<1>3. Tabbed'
  BY <1>1, CloseTabs DEF MessagesInv
<1>4. \A j \in Ids : /\ message'[j].key = message[j].key
                     /\ message'[j].deleted = message[j].deleted
                     /\ message'[j].body = message[j].body \/ ~message[j].deleted
  BY <1>1, <1>2 DEF MessagesInv, Posted, Editable, MessageRow
<1>5. Posted'
  <2>1. message' \in [Ids -> MessageRow]
    BY <1>1, <1>2 DEF MessagesInv, Posted, MessageRow
  <2>2. OneMessagePerKey'
    BY <1>4 DEF MessagesInv, Posted, OneMessagePerKey, Sent
  <2> QED BY <1>1, <1>2, <2>1, <2>2 DEF MessagesInv, Posted
<1>6. DeletedIsErased'
  BY <1>1, <1>4 DEF MessagesInv, DeletedIsErased
<1> QED BY <1>1, <1>3, <1>5, <1>6 DEF MessagesInv, Filed, Purging, Aged

LEMMA DeleteKeeps == ASSUME MessagesInv, NEW t \in Tabs, Delete(t) PROVE MessagesInv'
<1> DEFINE i == asks[t].on
<1>1. /\ asks[t] \in Marks /\ Close(t) /\ UNCHANGED <<stored, purge, faults>>
      /\ message' = [message EXCEPT ![i].body = FALSE, ![i].deleted = TRUE]
      /\ mentions' = mentions \ {i} /\ reactions' = reactions \ {i}
      /\ file' = [f \in Files |-> IF file[f].on = i /\ ~file[f].deleted
                                    THEN [file[f] EXCEPT !.deleted = TRUE] ELSE file[f]]
  BY DEF Delete, MessagesInv, Tabbed, Where
<1>2. i \in Ids
  BY <1>1 DEF Marks
<1> HIDE DEF i
<1>3. Tabbed'
  BY <1>1, CloseTabs DEF MessagesInv
<1>4. /\ \A j \in Ids : message'[j].key = message[j].key
      /\ \A j \in Ids \ {i} : message'[j] = message[j]
      /\ ~message'[i].body
  BY <1>1, <1>2 DEF MessagesInv, Posted, MessageRow
<1>5. Posted'
  <2>1. message' \in [Ids -> MessageRow]
    BY <1>1, <1>2 DEF MessagesInv, Posted, MessageRow
  <2>2. OneMessagePerKey'
    BY <1>4 DEF MessagesInv, Posted, OneMessagePerKey, Sent
  <2> QED BY <1>1, <2>1, <2>2 DEF MessagesInv, Posted
<1>6. \A f \in Files : /\ file'[f] \in FileRow /\ file'[f].on = file[f].on
                       /\ file[f].deleted \/ file[f].on = i => file'[f].deleted
                       /\ file'[f].dayOld = file[f].dayOld
                       /\ file'[f].monthGone = file[f].monthGone /\ file'[f].row = file[f].row
  BY <1>1 DEF MessagesInv, Filed, FileRow
<1>7. Filed'
  BY <1>1, <1>6 DEF MessagesInv, Filed
<1>8. Aged'
  BY <1>1, <1>6 DEF MessagesInv, Aged, Purging
<1>9. DeletedIsErased'
  <2> SUFFICES ASSUME NEW j \in Ids, message'[j].deleted
               PROVE  ~message'[j].body /\ \A f \in Files : file'[f].on = j => file'[f].deleted
    BY DEF DeletedIsErased
  <2>1. CASE j = i
    BY <2>1, <1>4, <1>6
  <2>2. CASE j # i
    BY <2>2, <1>4, <1>6 DEF MessagesInv, DeletedIsErased
  <2> QED BY <2>1, <2>2
<1> QED BY <1>1, <1>3, <1>5, <1>7, <1>8, <1>9 DEF MessagesInv, Purging

LEMMA ReactKeeps ==
  ASSUME MessagesInv, NEW t \in Tabs, React(t) \/ Fail(t) PROVE MessagesInv'
<1>1. /\ Close(t) /\ UNCHANGED <<message, mentions, file, stored, purge>>
      /\ reactions' \subseteq Ids /\ faults' \in 0..MaxFaults
  <2>1. CASE React(t)
    <3>1. asks[t] \in Marks
      BY <2>1 DEF React, MessagesInv, Tabbed, Where
    <3> QED BY <2>1, <3>1 DEF React, Marks, MessagesInv, Posted, Purging
  <2>2. CASE Fail(t)
    BY <2>2, FaultBound DEF Fail, posts, MessagesInv, Posted, Purging
  <2> QED BY <2>1, <2>2
<1>2. Tabbed'
  BY <1>1, CloseTabs DEF MessagesInv
<1> QED BY <1>1, <1>2 DEF MessagesInv, Posted, Filed, Purging, Aged, DeletedIsErased,
      OneMessagePerKey, Sent

-----------------------------------------------------------------------------
(* Files *)

\* A step that changes files, but never takes back a deletion or an age.
LEMMA FilesKeep ==
  ASSUME MessagesInv, Tabbed', Filed', Purging',
         UNCHANGED <<message, mentions, reactions>>,
         \A f \in Files :
           \/ /\ file'[f].on = file[f].on
              /\ file[f].deleted => file'[f].deleted
           \/ file'[f].on = "none",
         Aged'
  PROVE  MessagesInv'
<1>1. DeletedIsErased'
  BY NoneIsNoId DEF MessagesInv, DeletedIsErased
<1> QED BY <1>1 DEF MessagesInv, Posted, OneMessagePerKey, Sent

LEMMA DiscardKeeps == ASSUME MessagesInv, NEW t \in Tabs, Discard(t) PROVE MessagesInv'
<1> DEFINE d == asks[t].on
<1>1. /\ Close(t) /\ UNCHANGED <<message, mentions, reactions, stored, purge, faults>>
      /\ file' = IF Discardable(d) THEN [file EXCEPT ![d].deleted = TRUE] ELSE file
  BY DEF Discard
<1> HIDE DEF d
<1>2. Tabbed'
  BY <1>1, CloseTabs DEF MessagesInv
<1>3. Filed'
  BY <1>1 DEF MessagesInv, Filed, FileRow
<1>4. \A f \in Files : /\ file'[f].on = file[f].on /\ file'[f].row = file[f].row
                       /\ file[f].deleted => file'[f].deleted
                       /\ file'[f].dayOld = file[f].dayOld /\ file'[f].monthGone = file[f].monthGone
  BY <1>1 DEF MessagesInv, Filed, FileRow
<1>5. Aged' /\ Purging'
  BY <1>1, <1>4 DEF MessagesInv, Aged, Purging
<1> QED BY <1>1, <1>2, <1>3, <1>4, <1>5, FilesKeep

LEMMA TimeAndUploadsKeep ==
  ASSUME MessagesInv, NEW f \in Files, Upload(f) \/ Ages(f) \/ Fades(f) PROVE MessagesInv'
<1>1. UNCHANGED <<message, mentions, reactions, tab, asks, purge, faults>> /\ stored' \subseteq Files
  BY DEF Upload, Ages, Fades, tabs, MessagesInv, Filed
<1>2. Tabbed' /\ Purging'
  BY <1>1 DEF MessagesInv, Tabbed, Where, Purging
<1>3. Filed'
  <2>1. file[f] \in FileRow /\ Pending \in FileRow
    BY DEF MessagesInv, Filed, FileRow, Pending, NoFile
  <2>2. PICK r \in FileRow : file' = [file EXCEPT ![f] = r]
    <3>1. CASE Upload(f)
      BY <3>1, <2>1 DEF Upload
    <3>2. CASE Ages(f)
      <4>1. [file[f] EXCEPT !.dayOld = TRUE] \in FileRow
        BY <2>1 DEF FileRow
      <4> QED BY <3>2, <4>1 DEF Ages
    <3>3. CASE Fades(f)
      <4>1. [file[f] EXCEPT !.monthGone = TRUE] \in FileRow
        BY <2>1 DEF FileRow
      <4> QED BY <3>3, <4>1 DEF Fades
    <3> QED BY <3>1, <3>2, <3>3
  <2> QED BY <1>1, <2>2 DEF MessagesInv, Filed
<1>4. \A g \in Files \ {f} : file'[g] = file[g]
  BY DEF Upload, Ages, Fades, MessagesInv, Filed
<1>5. CASE Upload(f)
  <2>1. /\ file[f] = NoFile /\ file'[f].on = "none" /\ ~file'[f].monthGone
    BY <1>5 DEF Upload, Pending, NoFile, MessagesInv, Filed
  <2>2. Aged'
    BY <1>1, <1>4, <2>1 DEF MessagesInv, Aged, Purging, NoFile
  <2> QED BY <1>1, <1>2, <1>3, <1>4, <2>1, <2>2, FilesKeep
<1>6. CASE Ages(f) \/ Fades(f)
  <2>1. /\ file'[f].on = file[f].on /\ file'[f].row = file[f].row
        /\ file'[f].deleted = file[f].deleted
        /\ file[f].dayOld => file'[f].dayOld
        /\ file[f].monthGone => file'[f].monthGone
        /\ file'[f].monthGone => file[f].monthGone \/ file[f].deleted
    BY <1>6 DEF Ages, Fades, MessagesInv, Filed, FileRow
  <2>2. Aged'
    BY <1>1, <1>4, <2>1 DEF MessagesInv, Aged, Purging
  <2> QED BY <1>1, <1>2, <1>3, <1>4, <2>1, <2>2, FilesKeep
<1> QED BY <1>5, <1>6

LEMMA PurgeKeeps ==
  ASSUME MessagesInv,
         BeginPurge \/ PurgeRows \/ LosePurge \/ \E f \in Files : PurgeObject(f) \/ KeepObject(f)
  PROVE  MessagesInv'
<1>1. UNCHANGED <<message, mentions, reactions, tab, asks>>
  BY DEF BeginPurge, PurgeRows, LosePurge, PurgeObject, KeepObject, tabs, posts
<1>2. Tabbed'
  BY <1>1 DEF MessagesInv, Tabbed, Where
<1>3. CASE BeginPurge
  <2>1. /\ UNCHANGED <<file, stored, faults>>
        /\ purge' = [busy |-> TRUE, listed |-> {f \in Files : Purgeable(f)}, done |-> {}]
    BY <1>3 DEF BeginPurge, posts
  <2>2. Filed' /\ Purging'
    BY <2>1 DEF MessagesInv, Filed, Purging
  <2>3. Aged'
    BY <2>1 DEF MessagesInv, Aged, Purgeable
  <2> QED BY <1>1, <1>2, <2>1, <2>2, <2>3, FilesKeep
<1>4. CASE PurgeRows
  <2>1. /\ UNCHANGED <<stored, faults>> /\ purge' = Resting
        /\ file' = [f \in Files |-> IF f \in purge.done THEN Purged ELSE file[f]]
    BY <1>4 DEF PurgeRows
  <2>2. Filed' /\ Purging'
    BY <2>1 DEF MessagesInv, Filed, Purging, Purged, NoFile, FileRow, Resting
  <2>3. \A f \in Files : \/ file'[f] = file[f]
                         \/ file'[f].on = "none" /\ ~file'[f].row
    BY <2>1 DEF Purged, NoFile
  <2>4. Aged'
    BY <2>1, <2>3 DEF MessagesInv, Aged, Resting
  <2> QED BY <1>1, <1>2, <2>2, <2>3, <2>4, FilesKeep
<1>5. CASE LosePurge \/ \E f \in Files : PurgeObject(f) \/ KeepObject(f)
  <2>1. /\ file' = file /\ stored' \subseteq stored /\ faults' \in 0..MaxFaults
        /\ purge' \in [busy: BOOLEAN, listed: SUBSET Files, done: SUBSET Files]
        /\ purge'.listed \cup purge'.done \subseteq purge.listed \cup purge.done
    <3>1. CASE LosePurge
      BY <3>1, FaultBound DEF LosePurge, posts, Resting, MessagesInv, Purging
    <3>2. ASSUME NEW f \in Files, PurgeObject(f) PROVE <2>1!:
      <4>1. /\ purge' = [purge EXCEPT !.listed = purge.listed \ {f}, !.done = purge.done \cup {f}]
            /\ f \in purge.listed /\ UNCHANGED <<file, faults>> /\ stored' = stored \ {f}
        BY <3>2 DEF PurgeObject
      <4> QED BY <4>1 DEF MessagesInv, Purging
    <3>3. ASSUME NEW f \in Files, KeepObject(f) PROVE <2>1!:
      <4>1. /\ purge' = [purge EXCEPT !.listed = purge.listed \ {f}]
            /\ UNCHANGED <<file, stored>> /\ faults < MaxFaults /\ faults' = faults + 1
        BY <3>3 DEF KeepObject, posts
      <4> QED BY <4>1, FaultBound DEF MessagesInv, Purging
    <3> QED BY <1>5, <3>1, <3>2, <3>3
  <2>2. Filed' /\ Purging'
    BY <2>1 DEF MessagesInv, Filed, Purging
  <2>3. Aged'
    BY <2>1 DEF MessagesInv, Aged
  <2> QED BY <1>1, <1>2, <2>1, <2>2, <2>3, FilesKeep
<1> QED BY <1>3, <1>4, <1>5

-----------------------------------------------------------------------------
(* The theorems *)

LEMMA MessagesStep == MessagesInv /\ [MessagesNext]_messagesVars => MessagesInv'
<1> SUFFICES ASSUME MessagesInv, [MessagesNext]_messagesVars PROVE MessagesInv'
  OBVIOUS
<1>1. CASE UNCHANGED messagesVars
  BY <1>1 DEF messagesVars, posts, tabs, MessagesInv, Tabbed, Where, Posted, Filed, Purging, Aged,
     DeletedIsErased, OneMessagePerKey, Sent
<1>2. CASE MessagesNext
  BY <1>2, ReadingKeeps, InsertKeeps, EditKeeps, DeleteKeeps, ReactKeeps, DiscardKeeps,
     TimeAndUploadsKeep, PurgeKeeps DEF MessagesNext
<1> QED BY <1>1, <1>2

\* MessagesInv holds of every reachable state.
THEOREM MessagesInvariant == MessagesSpec => []MessagesInv
BY MessagesInitInv, MessagesStep, PTL DEF MessagesSpec

\* Rows, requests and the purge's lists keep their types.
THEOREM MessagesTypes == MessagesSpec => []MessagesTypeOK
<1>1. MessagesInv => MessagesTypeOK
  BY DEF MessagesInv, MessagesTypeOK, Tabbed, Labels, Posted, MessageRow, Filed, FileRow, Purging
<1> QED BY MessagesInvariant, <1>1, PTL

\* A client key is stored once, however often and from however many tabs it is sent.
THEOREM SentOnce == MessagesSpec => []OneMessagePerKey
<1>1. MessagesInv => OneMessagePerKey
  BY DEF MessagesInv, Posted
<1> QED BY MessagesInvariant, <1>1, PTL

\* No edit, send or discard that comes late puts anything back into a deleted message.
THEOREM ErasedForGood == MessagesSpec => []DeletedIsErased
<1>1. MessagesInv => DeletedIsErased
  BY DEF MessagesInv
<1> QED BY MessagesInvariant, <1>1, PTL

FilesStand ==
  \A f \in Files : (Shown(f) /\ ~file[f].dayOld /\ f \in stored) =>
    \/ Shown(f)' /\ file'[f].on = file[f].on /\ f \in stored'
    \/ message'[file[f].on].deleted

LEMMA StepKeepsFiles == MessagesInv /\ [MessagesNext]_messagesVars => FilesStand
<1> SUFFICES ASSUME MessagesInv, [MessagesNext]_messagesVars, NEW f \in Files,
                    Shown(f), ~file[f].dayOld, f \in stored
             PROVE  \/ Shown(f)' /\ file'[f].on = file[f].on /\ f \in stored'
                    \/ message'[file[f].on].deleted
  BY DEF FilesStand
<1>1. file[f] \in FileRow /\ file[f].row /\ file[f].on \in Ids /\ ~file[f].deleted
  BY DEF Shown, MessagesInv, Filed, FileRow
<1>2. f \notin purge.listed \cup purge.done
  BY <1>1 DEF MessagesInv, Aged
<1>3. CASE UNCHANGED <<file, stored>>
  BY <1>3, <1>1 DEF Shown
<1>4. CASE file'[f] = file[f] /\ f \in stored'
  BY <1>4, <1>1 DEF Shown
<1>5. ASSUME NEW t \in Tabs, InsertMessage(t) PROVE file'[f] = file[f] /\ f \in stored'
  <2>1. ~Linkable(f) /\ f \in stored'
    BY <1>1, <1>5, NoneIsNoId DEF InsertMessage, Linkable, IsPending
  <2> QED BY <1>5, <2>1 DEF InsertMessage
<1>6. ASSUME NEW t \in Tabs, Discard(t) PROVE file'[f] = file[f] /\ f \in stored'
  BY <1>1, <1>6, NoneIsNoId DEF Discard, Discardable, MessagesInv, Filed
<1>7. ASSUME NEW t \in Tabs, Delete(t)
      PROVE  (file'[f] = file[f] /\ f \in stored') \/ message'[file[f].on].deleted
  <2>1. CASE file[f].on = asks[t].on
    BY <1>1, <1>7, <2>1 DEF Delete, MessagesInv, Posted, MessageRow
  <2>2. CASE file[f].on # asks[t].on
    BY <1>7, <2>2 DEF Delete
  <2> QED BY <2>1, <2>2
<1>8. ASSUME NEW g \in Files, Upload(g) \/ Ages(g) \/ Fades(g)
      PROVE  file'[f] = file[f] /\ f \in stored'
  <2>1. g # f
    BY <1>1, <1>8, NoneIsNoId DEF Upload, Ages, Fades, NoFile
  <2> QED BY <1>8, <2>1 DEF Upload, Ages, Fades, MessagesInv, Filed
<1>9. ASSUME NEW g \in Files, PurgeObject(g) PROVE file'[f] = file[f] /\ f \in stored'
  <2>1. /\ file' = file /\ g \in purge.listed /\ stored' = stored \ {g}
    BY <1>9 DEF PurgeObject
  <2>2. g # f
    BY <1>2, <2>1
  <2> QED BY <2>1, <2>2
<1>10. CASE PurgeRows
  <2>1. /\ stored' = stored
        /\ file' = [g \in Files |-> IF g \in purge.done THEN Purged ELSE file[g]]
    BY <1>10 DEF PurgeRows
  <2> QED BY <2>1, <1>2, <1>4
<1>11. ASSUME NEW t \in Tabs,
              \/ AskFor(t) \/ FindKey(t) \/ FindFiles(t) \/ Read(t) \/ Edit(t) \/ React(t) \/ Fail(t)
       PROVE  UNCHANGED <<file, stored>>
  BY <1>11 DEF AskFor, FindKey, FindFiles, Read, Proceed, Edit, React, Fail, posts
<1>12. CASE BeginPurge \/ LosePurge \/ (\E g \in Files : KeepObject(g)) \/ UNCHANGED messagesVars
  <2>1. UNCHANGED <<file, stored>>
    BY <1>12 DEF BeginPurge, LosePurge, KeepObject, posts, messagesVars
  <2> QED BY <2>1, <1>3
<1> QED BY <1>3, <1>4, <1>5, <1>6, <1>7, <1>8, <1>9, <1>10, <1>11, <1>12 DEF MessagesNext

\* A file sent within a day stays with its message, its row and its object.
THEOREM FilesStay == MessagesSpec => SentFilesStay
<1>1. MessagesSpec => [][FilesStand]_messagesVars
  BY StepKeepsFiles, MessagesInitInv, MessagesStep, PTL DEF MessagesSpec
<1> QED BY <1>1 DEF SentFilesStay, FilesStand
-----------------------------------------------------------------------------
(* Presence *)

\* Nobody is counted whose silence does not fit the time they have been away, and
\* nothing but "offline" is said once that time is over.
Away ==
  /\ \A s \in Sockets : socket[s].is = "here" => alone = 0
  /\ \A s \in Sockets : socket[s].is = "lost" =>
       socket[s].silent >= alone \/ socket[s].silent = StaleAfter + 1
  /\ alone > StaleAfter => calls \subseteq {"offline"}
  /\ entry.status \in Online =>
       entry.age = Ttl + 1 \/ alone <= StaleAfter \/ entry.age + StaleAfter >= alone

\* The hub of somebody who is connected is awake within a heartbeat; since the last
\* disturbance it either has not been, or has confirmed the entry.
Watched ==
  /\ calls # {} => alarm \in {Heartbeat, NoAlarm}
  /\ hubStatus \in Online =>
       /\ alarm <= Heartbeat
       /\ \/ calm + alarm <= Heartbeat
          \/ /\ calls \subseteq {hubStatus}
             /\ \/ calm <= Heartbeat /\ calls = {hubStatus}
                \/ /\ entry.status = hubStatus
                   /\ IF calls = {} THEN entry.age + alarm <= Heartbeat
                                    ELSE entry.age <= Heartbeat

PresenceInv == PresenceTypeOK /\ Away /\ Watched

Row == [is: {"none", "here", "lost", "ended"}, activity: Activities, silent: 0..(StaleAfter + 1)]
\* The sockets a refresh is to find fit a time away of n.
Fits(held, n) ==
  /\ \A s \in Sockets : held[s].is = "here" => n = 0
  /\ \A s \in Sockets : held[s].is = "lost" =>
       held[s].silent >= n \/ held[s].silent = StaleAfter + 1

-----------------------------------------------------------------------------
(* Initial states *)

LEMMA PresenceInitInv == PresenceInit => PresenceInv
<1> SUFFICES ASSUME PresenceInit PROVE PresenceInv
  OBVIOUS
<1>1. PresenceTypeOK
  BY TimingsFit DEF PresenceInit, PresenceTypeOK, NoSocket, Activities, Online, NoAlarm
<1>2. Away
  BY DEF PresenceInit, Away, NoSocket, Online
<1>3. Watched
  BY DEF PresenceInit, Watched, Online
<1> QED BY <1>1, <1>2, <1>3 DEF PresenceInv

-----------------------------------------------------------------------------
(* A refresh *)

LEMMA StatusTypes ==
  ASSUME NEW held
  PROVE  /\ StatusOf(held) \in Online \cup {"offline"}
         /\ StatusOf(held) = "offline" <=> Counted(held) = {}
BY DEF StatusOf, Online

\* After StaleAfter nobody counts.
LEMMA NobodyCounts ==
  ASSUME NEW n \in Nat, NEW held \in [Sockets -> Row], Fits(held, n), n > StaleAfter
  PROVE  StatusOf(held) = "offline"
<1> SUFFICES ASSUME NEW s \in Sockets, held[s].is \in {"here", "lost"},
                    held[s].silent <= StaleAfter
             PROVE  FALSE
  BY DEF StatusOf, Counted
<1>1. held[s].silent \in 0..(StaleAfter + 1)
  BY DEF Row
<1> QED BY <1>1, TimingsFit DEF Fits

\* Whatever a refresh finds, a heartbeat or not, it keeps the invariant.
LEMMA RefreshKeeps ==
  ASSUME PresenceInv, NEW held \in [Sockets -> Row], NEW heartbeat \in BOOLEAN,
         Refresh(held, heartbeat), heartbeat => alarm = 0,
         alone' \in {0, alone}, Fits(held, alone')
  PROVE  PresenceInv'
<1> USE TimingsFit
<1> DEFINE now == StatusOf(held)
<1>1. /\ now \in Online \cup {"offline"}
      /\ now = "offline" <=> Counted(held) = {}
  BY StatusTypes
<1>2. /\ socket' = Kept(held) /\ hubStatus' = now /\ entry' = entry
      /\ alarm' = IF now = "offline" THEN NoAlarm ELSE Heartbeat
      /\ calls' = IF hubStatus # now \/ heartbeat THEN calls \cup {now} ELSE calls
      /\ calm' = IF hubStatus # now \/ ~heartbeat THEN 0 ELSE calm
  BY <1>1 DEF Refresh, Reports
<1>3. Kept(held) \in [Sockets -> Row]
  BY DEF Kept, Row, NoSocket, Activities
<1>4. alone' \in 0..(StaleAfter + Ttl + 1)
  BY DEF PresenceInv, PresenceTypeOK
<1> HIDE DEF now
<1>5. PresenceTypeOK'
  <2>1. socket' \in [Sockets -> Row]
    BY <1>2, <1>3
  <2>2. alarm' \in 0..NoAlarm /\ calm' \in 0..(Heartbeat + 1)
    BY <1>2 DEF PresenceInv, PresenceTypeOK, NoAlarm
  <2>3. calls' \subseteq Online \cup {"offline"} /\ hubStatus' \in Online \cup {"none", "offline"}
    BY <1>1, <1>2 DEF PresenceInv, PresenceTypeOK
  <2> QED BY <2>1, <2>2, <2>3, <1>2, <1>4 DEF PresenceInv, PresenceTypeOK, Row
<1>6. Away'
  <2>1. \A s \in Sockets : socket'[s] = held[s] \/ socket'[s] = NoSocket
    BY <1>2 DEF Kept
  <2>2. /\ \A s \in Sockets : socket'[s].is = "here" => alone' = 0
        /\ \A s \in Sockets : socket'[s].is = "lost" =>
             socket'[s].silent >= alone' \/ socket'[s].silent = StaleAfter + 1
    BY <2>1 DEF Fits, NoSocket
  <2>3. alone' > StaleAfter => calls' \subseteq {"offline"}
    <3> SUFFICES ASSUME alone' > StaleAfter PROVE calls' \subseteq {"offline"}
      OBVIOUS
    <3>1. now = "offline"
      BY <1>4, NobodyCounts DEF now
    <3>2. alone' = alone
      OBVIOUS
    <3> QED BY <3>1, <3>2, <1>2 DEF PresenceInv, Away
  <2>4. entry'.status \in Online =>
          \/ entry'.age = Ttl + 1 \/ alone' <= StaleAfter
          \/ entry'.age + StaleAfter >= alone'
    BY <1>2 DEF PresenceInv, Away
  <2> QED BY <2>2, <2>3, <2>4 DEF Away
<1>7. Watched'
  <2>1. calls' # {} => alarm' \in {Heartbeat, NoAlarm}
    BY <1>2
  <2>2. CASE hubStatus # now \/ ~heartbeat
    BY <2>1, <2>2, <1>1, <1>2 DEF Watched, Online
  <2>3. CASE hubStatus = now /\ heartbeat
    <3>1. calls = {}
      BY <2>3 DEF PresenceInv, Watched, NoAlarm
    <3>2. calls' = {now} /\ calm' = calm /\ hubStatus' = hubStatus
      BY <2>3, <3>1, <1>2
    <3>3. ASSUME hubStatus \in Online
          PROVE  \/ calm <= Heartbeat
                 \/ entry.status = hubStatus /\ entry.age <= Heartbeat
      BY <3>1, <3>3, <2>3 DEF PresenceInv, Watched, PresenceTypeOK
    <3> QED BY <2>1, <3>2, <3>3, <2>3, <1>2 DEF Watched, Online
  <2> QED BY <2>2, <2>3
<1> QED BY <1>5, <1>6, <1>7 DEF PresenceInv

-----------------------------------------------------------------------------
(* The steps *)

LEMMA ConnectKeeps ==
  ASSUME PresenceInv, NEW s \in Sockets, Connect(s) PROVE PresenceInv'
<1> DEFINE held == [socket EXCEPT ![s] = Here("active")]
<1>1. held \in [Sockets -> Row]
  BY TimingsFit DEF PresenceInv, PresenceTypeOK, Row, Here, Activities
<1>2. Fits(held, 0)
  BY <1>1, TimingsFit DEF Fits, Row
<1>3. Refresh(held, FALSE) /\ alone' = 0
  BY DEF Connect
<1> QED BY <1>1, <1>2, <1>3, RefreshKeeps

LEMMA ReportKeeps ==
  ASSUME PresenceInv, NEW s \in Sockets, Report(s) PROVE PresenceInv'
<1> PICK a \in Activities : Refresh([socket EXCEPT ![s] = Here(a)], FALSE)
  BY DEF Report
<1> DEFINE held == [socket EXCEPT ![s] = Here(a)]
<1>1. held \in [Sockets -> Row]
  BY TimingsFit DEF PresenceInv, PresenceTypeOK, Row, Here
<1>2. Fits(held, alone)
  BY DEF Fits, PresenceInv, PresenceTypeOK, Away, Here, Report
<1>3. Refresh(held, FALSE) /\ alone' = alone
  BY DEF Report
<1> QED BY <1>1, <1>2, <1>3, RefreshKeeps

LEMMA HangUpKeeps ==
  ASSUME PresenceInv, NEW s \in Sockets, HangUp(s) PROVE PresenceInv'
<1> DEFINE held == [socket EXCEPT ![s] = NoSocket]
<1>1. held \in [Sockets -> Row]
  BY TimingsFit DEF PresenceInv, PresenceTypeOK, Row, NoSocket, Activities
<1>2. Fits(held, alone)
  BY DEF Fits, PresenceInv, PresenceTypeOK, Away, NoSocket
<1>3. Refresh(held, FALSE) /\ alone' = alone
  BY DEF HangUp
<1> QED BY <1>1, <1>2, <1>3, RefreshKeeps

LEMMA BeatKeeps == ASSUME PresenceInv, Beat PROVE PresenceInv'
<1>1. socket \in [Sockets -> Row] /\ Fits(socket, alone)
  BY DEF Fits, PresenceInv, PresenceTypeOK, Away, Row
<1>2. Refresh(socket, TRUE) /\ alone' = alone /\ alarm = 0
  BY DEF Beat
<1> QED BY <1>1, <1>2, RefreshKeeps

\* What touches the sockets alone.
LEMMA LossKeeps ==
  ASSUME PresenceInv, Vanish \/ \E s \in Sockets : Break(s) \/ Lapse(s) PROVE PresenceInv'
<1> USE TimingsFit
<1>1. /\ hubStatus' = hubStatus /\ alarm' = alarm /\ calls' = calls
      /\ entry' = entry /\ alone' = alone
      /\ calm' = 0 \/ calm' = calm
  BY DEF Vanish, Break, Lapse
<1>2. /\ socket' \in [Sockets -> Row]
      /\ \A s \in Sockets : socket'[s].is = "here" => alone = 0
      /\ \A s \in Sockets : socket'[s].is = "lost" =>
           socket'[s].silent >= alone \/ socket'[s].silent = StaleAfter + 1
  <2>1. CASE Vanish
    BY <2>1 DEF Vanish, NoSocket, Row, Activities
  <2>2. ASSUME NEW s \in Sockets, Lapse(s) PROVE <1>2
    BY <2>2 DEF Lapse, Ended, NoSocket, Row, Activities, PresenceInv, PresenceTypeOK, Away
  <2>3. ASSUME NEW s \in Sockets, Break(s) PROVE <1>2
    <3>1. PICK n \in 0..1 : socket' = [socket EXCEPT ![s].is = "lost", ![s].silent = n]
      BY <2>3 DEF Break
    <3>2. alone = 0
      BY <2>3 DEF Break, PresenceInv, Away
    <3>3. n \in 0..(StaleAfter + 1)
      OBVIOUS
    <3>6. socket' \in [Sockets -> Row]
      BY <3>1, <3>3 DEF PresenceInv, PresenceTypeOK, Row
    <3>7. \A t \in Sockets : socket'[t].silent \in Nat
      BY <3>6 DEF Row
    <3> QED BY <3>2, <3>6, <3>7
  <2> QED BY <2>1, <2>2, <2>3
<1>3. PresenceTypeOK'
  BY <1>1, <1>2 DEF PresenceInv, PresenceTypeOK, Row
<1>4. Away'
  BY <1>1, <1>2 DEF PresenceInv, Away
<1>5. Watched'
  <2>1. hubStatus \in Online => 0 + alarm <= Heartbeat
    BY DEF PresenceInv, Watched, PresenceTypeOK, NoAlarm
  <2> QED BY <1>1, <2>1 DEF PresenceInv, Watched
<1> QED BY <1>3, <1>4, <1>5 DEF PresenceInv

LEMMA DirectoryKeeps ==
  ASSUME PresenceInv, NEW st \in calls, DirectorySet(st) \/ CallFails(st) PROVE PresenceInv'
<1> USE TimingsFit
<1>1. /\ UNCHANGED <<socket, hubStatus, alarm, alone>> /\ calls' = calls \ {st}
      /\ \/ entry' = [status |-> st, age |-> 0] /\ calm' = calm
         \/ entry' = entry /\ calm' = 0
  BY DEF DirectorySet, CallFails
<1>2. st \in Online \cup {"offline"}
  BY DEF PresenceInv, PresenceTypeOK
<1>3. PresenceTypeOK'
  BY <1>1, <1>2 DEF PresenceInv, PresenceTypeOK
<1>4. Away'
  BY <1>1, <1>2 DEF PresenceInv, Away, PresenceTypeOK, Online
<1>5. Watched'
  <2>1. CASE entry' = [status |-> st, age |-> 0] /\ calm' = calm
    BY <1>1, <2>1 DEF PresenceInv, Watched, PresenceTypeOK, NoAlarm
  <2>2. CASE entry' = entry /\ calm' = 0
    BY <1>1, <2>2 DEF PresenceInv, Watched, PresenceTypeOK, NoAlarm
  <2> QED BY <1>1, <2>1, <2>2
<1> QED BY <1>3, <1>4, <1>5 DEF PresenceInv

LEMMA TimeKeeps == ASSUME PresenceInv, HalfMinute PROVE PresenceInv'
<1> USE TimingsFit
<1>1. /\ alarm # 0 /\ calls = {} /\ calls' = {} /\ hubStatus' = hubStatus
      /\ entry' = [entry EXCEPT !.age = Reached(@, Ttl + 1)]
      /\ calm' = Reached(calm, Heartbeat + 1)
      /\ alarm' = IF alarm = NoAlarm THEN NoAlarm ELSE alarm - 1
  BY DEF HalfMinute
<1>2. PresenceTypeOK'
  <2>1. socket' \in [Sockets -> Row]
    BY DEF HalfMinute, Reached, Row, PresenceInv, PresenceTypeOK
  <2>2. entry' \in [status: Online \cup {"offline"}, age: 0..(Ttl + 1)]
    BY <1>1 DEF Reached, PresenceInv, PresenceTypeOK
  <2>3. calm' \in 0..(Heartbeat + 1) /\ alarm' \in 0..NoAlarm
    BY <1>1 DEF Reached, PresenceInv, PresenceTypeOK, NoAlarm
  <2>4. alone' \in 0..(StaleAfter + Ttl + 1)
    BY DEF HalfMinute, Reached, PresenceInv, PresenceTypeOK
  <2> QED BY <1>1, <2>1, <2>2, <2>3, <2>4 DEF PresenceInv, PresenceTypeOK, Row
<1>3. Away'
  <2>1. /\ \A s \in Sockets : socket'[s].is = socket[s].is
        /\ \A s \in Sockets : socket[s].is = "lost" =>
             socket'[s].silent = Reached(socket[s].silent, StaleAfter + 1)
    BY DEF HalfMinute, PresenceInv, PresenceTypeOK
  <2>2. \/ alone' = 0 /\ \E s \in Sockets : socket[s].is = "here"
        \/ /\ alone' = Reached(alone, StaleAfter + Ttl + 1)
           /\ \A s \in Sockets : socket[s].is # "here"
    BY DEF HalfMinute
  <2>3. \A s \in Sockets : socket'[s].is = "here" => alone' = 0
    BY <2>1, <2>2
  <2>4. ASSUME NEW s \in Sockets, socket'[s].is = "lost"
        PROVE  socket'[s].silent >= alone' \/ socket'[s].silent = StaleAfter + 1
    <3>1. socket[s].silent \in 0..(StaleAfter + 1) /\ alone \in 0..(StaleAfter + Ttl + 1)
      BY DEF PresenceInv, PresenceTypeOK
    <3>2. socket[s].silent >= alone \/ socket[s].silent = StaleAfter + 1
      BY <2>1, <2>4 DEF PresenceInv, Away
    <3> QED BY <2>1, <2>2, <2>4, <3>1, <3>2 DEF Reached
  <2>5. entry'.status \in Online =>
          \/ entry'.age = Ttl + 1 \/ alone' <= StaleAfter
          \/ entry'.age + StaleAfter >= alone'
    <3>1. entry.age \in 0..(Ttl + 1) /\ alone \in 0..(StaleAfter + Ttl + 1)
      BY DEF PresenceInv, PresenceTypeOK
    <3>2. entry'.status = entry.status /\ entry'.age = Reached(entry.age, Ttl + 1)
      BY <1>1 DEF PresenceInv, PresenceTypeOK
    <3>3. entry.status \in Online =>
            entry.age = Ttl + 1 \/ alone <= StaleAfter \/ entry.age + StaleAfter >= alone
      BY DEF PresenceInv, Away
    <3> QED BY <2>2, <3>1, <3>2, <3>3 DEF Reached
  <2> QED BY <1>1, <2>3, <2>4, <2>5 DEF Away
<1>4. Watched'
  <2> SUFFICES ASSUME hubStatus \in Online PROVE Watched'
    BY <1>1 DEF Watched
  <2>1. /\ entry.age \in 0..(Ttl + 1) /\ calm \in 0..(Heartbeat + 1) /\ alarm \in 0..NoAlarm
        /\ alarm <= Heartbeat
    BY DEF PresenceInv, PresenceTypeOK, Watched
  <2>2. /\ entry'.status = entry.status /\ entry'.age <= entry.age + 1
        /\ calm' <= calm + 1 /\ alarm' = alarm - 1
        /\ entry'.age \in Nat /\ calm' \in Nat
    BY <1>1, <2>1 DEF Reached, PresenceInv, PresenceTypeOK, NoAlarm
  <2>3. \/ calm + alarm <= Heartbeat
        \/ entry.status = hubStatus /\ entry.age + alarm <= Heartbeat
    BY <1>1 DEF PresenceInv, Watched
  <2> QED BY <1>1, <2>1, <2>2, <2>3 DEF Watched
<1> QED BY <1>2, <1>3, <1>4 DEF PresenceInv

-----------------------------------------------------------------------------
(* The theorems *)

\* PresenceInv holds of every reachable state.
THEOREM PresenceInvariant == PresenceSpec => []PresenceInv
<1>1. PresenceInv /\ [PresenceNext]_presenceVars => PresenceInv'
  <2> SUFFICES ASSUME PresenceInv, [PresenceNext]_presenceVars PROVE PresenceInv'
    OBVIOUS
  <2>1. CASE UNCHANGED presenceVars
    BY <2>1 DEF presenceVars, PresenceInv, PresenceTypeOK, Away, Watched
  <2>2. CASE PresenceNext
    BY <2>2, ConnectKeeps, ReportKeeps, HangUpKeeps, BeatKeeps, LossKeeps, DirectoryKeeps,
       TimeKeeps DEF PresenceNext
  <2> QED BY <2>1, <2>2
<1> QED BY PresenceInitInv, <1>1, PTL DEF PresenceSpec

\* Sockets, alarm, calls and entry keep their types and never pass their timings.
THEOREM PresenceTypes == PresenceSpec => []PresenceTypeOK
BY PresenceInvariant, PTL DEF PresenceInv

\* Within STALE_MS and TTL_MS of the last live tab a person reads as offline,
\* although closing calls fail, overtake each other, or are never made.
THEOREM NobodyStaysOnline == PresenceSpec => []NobodyLingers
<1>1. PresenceInv => NobodyLingers
  BY TimingsFit DEF PresenceInv, PresenceTypeOK, Away, NobodyLingers, Reads
<1> QED BY PresenceInvariant, <1>1, PTL

\* A heartbeat after the last disturbance the directory shows the hub's status.
THEOREM ConnectedStaysShown == PresenceSpec => []ConnectedIsShown
<1>1. PresenceInv => ConnectedIsShown
  <2> SUFFICES ASSUME PresenceInv, hubStatus \in Online, calm > Heartbeat
               PROVE  Reads(entry) = hubStatus
    BY DEF ConnectedIsShown
  <2>1. entry.status = hubStatus /\ entry.age <= Heartbeat
    BY TimingsFit DEF PresenceInv, PresenceTypeOK, Watched
  <2> QED BY <2>1, TimingsFit DEF Reads, PresenceInv, PresenceTypeOK
<1> QED BY PresenceInvariant, <1>1, PTL
-----------------------------------------------------------------------------
(* Meetings *)

Creates(r) == task[r].do \in {"start", "schedule"}
\* The row it is about is still to be made.
Making(r) == Creates(r) /\ at[r] # "announce"
\* A request is about a row that is there, or alone with the id of one to be; one
\* that announces is the only one to do so, of a meeting nobody was told of.
Asked(r) ==
  /\ at[r] # "idle" => task[r] \in Tasks /\ (Making(r) <=> status[task[r].on] = "none")
  /\ at[r] = "sessions" => ~Creates(r)
  /\ at[r] = "announce" => starts[task[r].on] = 1 /\ notices[task[r].on] = 0
  /\ \A q \in Requests :
       /\ q # r /\ at[r] # "idle" /\ at[q] # "idle"
       /\ Making(r) \/ (at[r] = "announce" /\ at[q] = "announce")
       => task[q].on # task[r].on
\* What was never live did not start; the sweep lists rows.
Begun(m) ==
  /\ status[m] \in {"none", "scheduled"} => starts[m] = 0
  /\ m \in listed => status[m] # "none"
Untold(m) == notices[m] < starts[m] =>
  losses > 0 \/ \E r \in Requests : at[r] = "announce" /\ task[r].on = m
MeetingsInv ==
  /\ MeetingsTypeOK /\ (\A r \in Requests : Asked(r)) /\ \A m \in Meetings : Begun(m)

LEMMA MeetingsInitInv == MeetingsInit => MeetingsInv
<1> SUFFICES ASSUME MeetingsInit PROVE MeetingsInv
  OBVIOUS
<1>1. MeetingsTypeOK
  BY MeetingBounds DEF MeetingsInit, MeetingsTypeOK, Statuses, Steps, Phases
<1>2. (\A r \in Requests : Asked(r)) /\ \A m \in Meetings : Begun(m)
  BY DEF MeetingsInit, Asked, Begun
<1> QED BY <1>1, <1>2 DEF MeetingsInv

\* A step in which every request ends or goes on, the one that makes a row to
\* announce it.
LEMMA RowsMove ==
  ASSUME MeetingsInv,
         \A r \in Requests : \/ at'[r] = "idle"
                              \/ /\ at[r] # "idle" /\ task'[r] = task[r]
                                 /\ at'[r] = "sessions" => ~Creates(r)
                                 /\ at[r] = "announce" => at'[r] = "announce",
         \A r \in Requests : at'[r] # "idle" =>
           (Creates(r) /\ at'[r] # "announce" <=> status'[task[r].on] = "none"),
         \A r \in Requests : at'[r] = "announce" =>
           /\ starts'[task[r].on] = 1 /\ notices'[task[r].on] = 0
           /\ \A q \in Requests : q # r /\ at'[q] = "announce" => task[q].on # task[r].on
  PROVE  \A r \in Requests : Asked(r)'
<1> SUFFICES ASSUME NEW r \in Requests, at'[r] # "idle" PROVE Asked(r)'
  BY DEF Asked
<1>1. at[r] # "idle" /\ task'[r] = task[r] /\ Asked(r) /\ Creates(r)' = Creates(r)
  BY DEF MeetingsInv, Creates
<1>2. Making(r)' => Making(r)
  BY <1>1 DEF Making
<1>3. task[r] \in Tasks /\ (Making(r)' <=> status'[task[r].on] = "none")
  BY <1>1 DEF Asked, Making
<1>4. ASSUME NEW q \in Requests, q # r, at'[q] # "idle",
             Making(r)' \/ (at'[r] = "announce" /\ at'[q] = "announce")
      PROVE  task'[q].on # task'[r].on
  <2>1. at[q] # "idle" /\ task'[q] = task[q]
    BY <1>4
  <2> QED BY <1>1, <1>2, <1>4, <2>1 DEF Asked
<1> QED BY <1>1, <1>3, <1>4 DEF Asked

\* Whoever announced still does, or what it announced is told, or it is lost.
LEMMA UntoldStays ==
  ASSUME MeetingsInv, NEW m \in Meetings, notices'[m] < starts'[m] => notices[m] < starts[m],
         losses' >= losses, losses' \in Nat,
         \A r \in Requests : at[r] = "announce" /\ task[r].on = m /\ notices'[m] < starts'[m] =>
           losses' > 0 \/ (at'[r] = "announce" /\ task'[r] = task[r])
  PROVE  Untold(m)'
<1>1. Untold(m) /\ losses \in Nat
  BY MeetingBounds DEF MeetingsInv, MeetingsTypeOK, Untold
<1> QED BY <1>1 DEF Untold

LEMMA RequestKeeps ==
  ASSUME MeetingsInv, NEW r \in Requests, Request(r) PROVE MeetingsInv'
<1>1. PICK t \in Tasks :
        /\ at[r] = "idle"
        /\ IF Creates(r)' THEN status[t.on] = "none" /\ ~\E q \in Requests : at[q] # "idle" /\ task[q].on = t.on
                          ELSE status[t.on] # "none"
        /\ IF t.do = "move" THEN moves < MaxMoves /\ moves' = moves + 1 ELSE UNCHANGED moves
        /\ at' = [at EXCEPT ![r] = "read"] /\ task' = [task EXCEPT ![r] = t] /\ task'[r] = t
        /\ UNCHANGED <<rows, time, sweeper, losses>>
  <2>1. \A t \in Tasks : task' = [task EXCEPT ![r] = t] =>
          task'[r] = t /\ (Creates(r)' <=> t.do \in {"start", "schedule"})
    BY DEF Creates, MeetingsInv, MeetingsTypeOK
  <2> QED BY <2>1 DEF Request
<1>2. /\ \A v \in Requests \ {r} : at'[v] = at[v] /\ task'[v] = task[v] /\ Asked(v)
      /\ at'[r] = "read" /\ task'[r] = t
      /\ UNCHANGED <<status, starts, notices, attended, window, quiet, long, sweep, listed, ending, losses>>
  BY <1>1 DEF MeetingsInv, MeetingsTypeOK, rows, time, sweeper
<1>3. MeetingsTypeOK'
  <2>1. moves' \in 0..MaxMoves
    BY <1>1, MeetingBounds DEF MeetingsInv, MeetingsTypeOK
  <2>2. at' \in [Requests -> Steps] /\ task' \in [Requests -> Tasks \cup {NoTask}]
    BY <1>1 DEF MeetingsInv, MeetingsTypeOK, Steps
  <2>3. ASSUME NEW m \in Meetings PROVE Untold(m)'
    <3>1. losses \in Nat
      BY MeetingBounds DEF MeetingsInv, MeetingsTypeOK
    <3>2. \A q \in Requests : at[q] = "announce" => at'[q] = "announce" /\ task'[q] = task[q]
      BY <1>1, <1>2
    <3> QED BY <1>2, <3>1, <3>2, UntoldStays
  <2> QED BY <1>2, <2>1, <2>2, <2>3 DEF MeetingsInv, MeetingsTypeOK, Untold
<1>4. ASSUME NEW q \in Requests PROVE Asked(q)'
  <2>1. CASE q = r
    <3>1. Making(r)' <=> status'[t.on] = "none"
      BY <1>1, <1>2 DEF Making
    <3>2. ASSUME NEW v \in Requests, v # r, at'[v] # "idle", Making(r)' PROVE task'[v].on # t.on
      BY <1>1, <1>2, <3>2 DEF Making
    <3> QED BY <1>2, <2>1, <3>1, <3>2 DEF Asked
  <2>2. CASE q # r
    <3>1. /\ Asked(q) /\ at'[q] = at[q] /\ task'[q] = task[q]
          /\ Making(q)' = Making(q) /\ Creates(q)' = Creates(q)
      BY <1>2, <2>2 DEF Making, Creates
    <3>2. Making(q) /\ at[q] # "idle" => task[q].on # t.on
      BY <1>1, <3>1 DEF Asked
    <3>3. \A v \in Requests \ {r} : at'[v] = at[v] /\ task'[v] = task[v]
      BY <1>2
    <3>4. ASSUME NEW v \in Requests, v # q, at'[q] # "idle", at'[v] # "idle",
                 Making(q)' \/ (at'[q] = "announce" /\ at'[v] = "announce")
          PROVE  task'[v].on # task'[q].on
      <4>1. CASE v = r
        BY <1>2, <3>1, <3>2, <3>4, <4>1
      <4>2. CASE v # r
        BY <3>1, <3>3, <3>4, <4>2 DEF Asked
      <4> QED BY <4>1, <4>2
    <3> QED BY <1>2, <3>1, <3>4 DEF Asked
  <2> QED BY <2>1, <2>2
<1>5. \A m \in Meetings : Begun(m)'
  BY <1>2 DEF MeetingsInv, Begun
<1> QED BY <1>3, <1>4, <1>5 DEF MeetingsInv

LEMMA DoneKeeps ==
  ASSUME MeetingsInv, NEW r \in Requests, Done(r)
  PROVE  /\ at' \in [Requests -> Steps]
         /\ task' \in [Requests -> Tasks \cup {NoTask}] /\ at'[r] = "idle"
         /\ \A q \in Requests \ {r} : at'[q] = at[q] /\ task'[q] = task[q]
  BY DEF MeetingsInv, MeetingsTypeOK, Done, Steps

LEMMA WriteKeeps ==
  ASSUME MeetingsInv, NEW r \in Requests, Write(r) PROVE MeetingsInv'
<1>1. PICK m \in Meetings : m = task[r].on /\ at[r] = "write" /\ task[r] \in Tasks
  BY DEF Write, MeetingsInv, Asked, Tasks
<1>2. UNCHANGED <<sweep, listed, ending, losses>> /\ Asked(r) /\ Begun(m)
  BY DEF Write, sweeper, MeetingsInv
<1>3. /\ UNCHANGED <<notices, attended, quiet, long, moves>>
      /\ window' \in [Meetings -> {"early", "open", "over"}]
  BY <1>1 DEF Write, Insert, Join, Cancel, Move, End, rows, time, MeetingsInv, MeetingsTypeOK
\* What becomes of the row, and of the request.
<1> DEFINE Same  == Done(r) /\ UNCHANGED <<status, starts>>
           Live2 == GoLive(m) /\ Go(r, "announce") /\ starts[m] = 0
           Other == /\ starts' = starts /\ status' \in [Meetings -> Statuses]
                    /\ \A n \in Meetings \ {m} : status'[n] = status[n]
                    /\ status'[m] # "none"
                    /\ status'[m] = "scheduled" => starts[m] = 0
                    /\ Done(r) \/ (Go(r, "sessions") /\ task[r].do = "end")
<1>4. Same \/ Live2 \/ Other
  <2>1. CASE Insert(r, m)
    <3>1. status[m] = "none" /\ starts[m] = 0
      BY <1>1, <1>2, <2>1 DEF Insert, Asked, Making, Creates, Begun
    <3> QED BY <2>1, <3>1 DEF Insert, MeetingsInv, MeetingsTypeOK, Statuses
  <2>2. CASE Join(r, m)
    BY <1>2, <2>2 DEF Join, MayGoLive, Begun
  <2>3. CASE Cancel(r, m)
    BY <2>3 DEF Cancel, MeetingsInv, MeetingsTypeOK, Statuses, Over
  <2>4. CASE Move(r, m)
    BY <1>2, <2>4 DEF Move, rows
  <2>5. CASE End(r, m)
    BY <2>5 DEF End, MeetingsInv, MeetingsTypeOK, Statuses, Over
  <2> QED BY <1>1, <2>1, <2>2, <2>3, <2>4, <2>5 DEF Write
<1>5. /\ at' \in [Requests -> Steps]
      /\ task' \in [Requests -> Tasks \cup {NoTask}]
      /\ \A q \in Requests \ {r} : at'[q] = at[q] /\ task'[q] = task[q]
      /\ \/ at'[r] = "idle"
         \/ at'[r] = "sessions" /\ task'[r] = task[r] /\ task[r].do = "end" /\ ~Live2
         \/ at'[r] = "announce" /\ task'[r] = task[r] /\ Live2
  <2>1. CASE Done(r)
    BY <2>1, DoneKeeps
  <2>2. CASE Live2
    BY <2>2 DEF Go, MeetingsInv, MeetingsTypeOK, Steps
  <2>3. CASE Go(r, "sessions") /\ task[r].do = "end"
    <3>1. ~Live2
      BY <2>3 DEF Go, MeetingsInv, MeetingsTypeOK
    <3> QED BY <2>3, <3>1 DEF Go, MeetingsInv, MeetingsTypeOK, Steps
  <2> QED BY <1>4, <2>1, <2>2, <2>3
<1>6. /\ status' \in [Meetings -> Statuses] /\ starts' \in [Meetings -> 0..1]
      /\ \A n \in Meetings \ {m} : status'[n] = status[n] /\ starts'[n] = starts[n]
      /\ starts'[m] >= starts[m]
      /\ status[m] # "none" => status'[m] # "none"
      /\ status'[m] \in {"none", "scheduled"} => starts'[m] = 0
      /\ starts'[m] # starts[m] => Live2 /\ starts'[m] = 1
      /\ Live2 => status'[m] = "live" /\ starts'[m] = 1
  <2>1. CASE Same
    <3>1. ~Live2
      BY <1>1, <2>1 DEF GoLive, Go, Done, MeetingsInv, MeetingsTypeOK
    <3> QED BY <1>2, <2>1, <3>1 DEF MeetingsInv, MeetingsTypeOK, Begun
  <2>2. CASE Live2
    BY <2>2 DEF GoLive, MeetingsInv, MeetingsTypeOK, Statuses
  <2>3. CASE Other
    <3>1. ~Live2
      BY <1>1, <2>3 DEF GoLive, MeetingsInv, MeetingsTypeOK
    <3> QED BY <2>3, <3>1 DEF MeetingsInv, MeetingsTypeOK
  <2> QED BY <1>4, <2>1, <2>2, <2>3
<1> HIDE DEF Same, Live2, Other
<1>7. MeetingsTypeOK'
  <2>1. ASSUME NEW n \in Meetings PROVE Untold(n)'
    <3>1. losses' = losses /\ losses \in Nat
      BY <1>2, MeetingBounds DEF MeetingsInv, MeetingsTypeOK
    <3>2. \A q \in Requests : at[q] = "announce" => at'[q] = "announce" /\ task'[q] = task[q]
      BY <1>1, <1>5
    <3>3. CASE starts'[n] = starts[n]
      BY <1>3, <3>1, <3>2, <3>3, UntoldStays
    <3>4. CASE starts'[n] # starts[n]
      <4>1. n = m /\ Live2
        BY <1>6, <3>4
      <4>2. at'[r] = "announce" /\ task'[r].on = m
        BY <1>1, <1>5, <4>1 DEF Live2, Go, MeetingsInv, MeetingsTypeOK
      <4> QED BY <4>1, <4>2 DEF Untold
    <3> QED BY <3>3, <3>4
  <2>2. \A n \in Meetings : notices'[n] <= starts'[n]
    BY <1>3, <1>6 DEF MeetingsInv, MeetingsTypeOK
  <2> QED BY <1>2, <1>3, <1>5, <1>6, <2>1, <2>2 DEF MeetingsInv, MeetingsTypeOK, Untold
<1>8. \A n \in Meetings : Begun(n)'
  BY <1>2, <1>6 DEF MeetingsInv, Begun
<1>9. \A q \in Requests : Asked(q)'
  <2>1. \A q \in Requests : \/ at'[q] = "idle"
                            \/ /\ at[q] # "idle" /\ task'[q] = task[q]
                               /\ at'[q] = "sessions" => ~Creates(q)
                               /\ at[q] = "announce" => at'[q] = "announce"
    BY <1>1, <1>5 DEF MeetingsInv, Asked, Creates
  <2>2. ASSUME NEW q \in Requests, at'[q] # "idle"
        PROVE  Creates(q) /\ at'[q] # "announce" <=> status'[task[q].on] = "none"
    <3>1. task[q].on \in Meetings /\ Asked(q) /\ at[q] # "idle"
      BY <2>1, <2>2 DEF MeetingsInv, Asked, Tasks
    <3>2. CASE q = r
      <4>1. status'[m] # "none"
        <5>1. CASE at'[r] = "announce"
          BY <1>1, <1>5, <1>6, <5>1
        <5>2. CASE at'[r] = "sessions"
          <6>1. ~Creates(r) /\ status[m] # "none"
            BY <1>1, <1>2, <1>5, <5>2 DEF Asked, Making, Creates
          <6> QED BY <1>6, <6>1
        <5> QED BY <1>5, <2>2, <3>2, <5>1, <5>2
      <4>2. at'[r] # "announce" => ~Creates(r)
        BY <1>5, <2>2, <3>2 DEF Creates
      <4> QED BY <1>1, <3>2, <4>1, <4>2
    <3>3. CASE q # r
      <4>1. at'[q] = at[q]
        BY <1>5, <3>3
      <4>2. CASE task[q].on # m
        BY <1>6, <3>1, <4>1, <4>2 DEF Asked, Making
      <4>3. CASE task[q].on = m
        <5>1. ~Making(q) /\ ~Making(r)
          BY <1>1, <1>2, <3>1, <3>3, <4>3 DEF Asked
        <5>2. status[m] # "none"
          BY <3>1, <4>3, <5>1 DEF Asked
        <5> QED BY <1>6, <4>1, <4>3, <5>1, <5>2 DEF Making
      <4> QED BY <4>2, <4>3
    <3> QED BY <3>2, <3>3
  <2>3. ASSUME NEW q \in Requests, at'[q] = "announce"
        PROVE  /\ starts'[task[q].on] = 1 /\ notices'[task[q].on] = 0
               /\ \A v \in Requests : v # q /\ at'[v] = "announce" => task[v].on # task[q].on
    <3>1. ASSUME NEW v \in Requests, v # r, at'[v] = "announce"
          PROVE  /\ at[v] = "announce" /\ task[v].on \in Meetings /\ Asked(v)
                 /\ starts[task[v].on] = 1 /\ notices[task[v].on] = 0
      BY <1>5, <3>1 DEF MeetingsInv, Asked, Tasks
    <3>2. at'[r] = "announce" => /\ starts[m] = 0 /\ starts'[m] = 1 /\ notices[m] = 0
      <4> SUFFICES ASSUME at'[r] = "announce" PROVE starts[m] = 0 /\ starts'[m] = 1 /\ notices[m] = 0
        OBVIOUS
      <4>1. Live2
        BY <1>5
      <4> QED BY <1>6, <4>1 DEF Live2, MeetingsInv, MeetingsTypeOK
    <3>3. CASE q = r
      <4>1. \A v \in Requests : v # q /\ at'[v] = "announce" => task[v].on # m
        BY <2>3, <3>1, <3>2, <3>3
      <4> QED BY <1>1, <1>3, <2>3, <3>2, <3>3, <4>1
    <3>4. CASE q # r
      <4>1. starts'[task[q].on] = 1 /\ notices'[task[q].on] = 0
        BY <1>3, <1>6, <2>3, <3>1, <3>4
      <4>2. ASSUME NEW v \in Requests, v # q, at'[v] = "announce" PROVE task[v].on # task[q].on
        <5>1. CASE v = r
          BY <1>1, <2>3, <3>1, <3>2, <3>4, <4>2, <5>1
        <5>2. CASE v # r
          BY <2>3, <3>1, <3>4, <4>2, <5>2 DEF Asked
        <5> QED BY <5>1, <5>2
      <4> QED BY <4>1, <4>2
    <3> QED BY <3>3, <3>4
  <2> QED BY <2>1, <2>2, <2>3, RowsMove
<1> QED BY <1>7, <1>8, <1>9 DEF MeetingsInv

LEMMA RequestsKeep ==
  ASSUME MeetingsInv, NEW r \in Requests,
         ReadMeeting(r) \/ Announce(r) \/ CloseSessions(r) \/ Drop(r)
  PROVE  MeetingsInv'
<1>1. /\ UNCHANGED <<status, starts, time, sweeper, moves>>
      /\ Done(r) \/ (Go(r, "write") /\ at[r] = "read")
  BY DEF ReadMeeting, Announce, CloseSessions, Drop, Respond, rows
<1>2. losses' \in 0..MaxLosses /\ losses' >= losses /\ losses \in Nat /\ losses' \in Nat
  BY MeetingBounds DEF ReadMeeting, Announce, CloseSessions, Drop, Respond, MeetingsInv, MeetingsTypeOK
<1>3. attended' \in [Meetings -> BOOLEAN]
  BY DEF ReadMeeting, Announce, CloseSessions, Drop, Respond, MeetingsInv, MeetingsTypeOK, rows
<1>4. /\ at' \in [Requests -> Steps]
      /\ task' \in [Requests -> Tasks \cup {NoTask}]
      /\ \A q \in Requests \ {r} : at'[q] = at[q] /\ task'[q] = task[q]
      /\ at'[r] = "idle" \/ (at[r] = "read" /\ at'[r] = "write" /\ task'[r] = task[r])
  BY <1>1, DoneKeeps DEF MeetingsInv, MeetingsTypeOK, Go, Steps
<1>5. /\ notices' \in [Meetings -> 0..1]
      /\ \A m \in Meetings : notices'[m] <= starts'[m] /\ notices'[m] >= notices[m]
      /\ \A m \in Meetings : notices'[m] = notices[m] \/ (at[r] = "announce" /\ m = task[r].on)
      /\ at[r] = "announce" => losses' > 0 \/ notices'[task[r].on] = 1
  <2>1. CASE Announce(r)
    <3>1. starts[task[r].on] = 1 /\ notices[task[r].on] = 0 /\ task[r].on \in Meetings
      BY <2>1 DEF Announce, MeetingsInv, Asked, Tasks
    <3> QED BY <1>1, <2>1, <3>1 DEF Announce, MeetingsInv, MeetingsTypeOK
  <2>2. CASE ReadMeeting(r) \/ CloseSessions(r) \/ Drop(r)
    <3>1. notices' = notices
      BY <2>2 DEF ReadMeeting, CloseSessions, Drop, Respond, rows
    <3>2. at[r] = "announce" => losses' > 0
      BY <1>2, <2>2 DEF ReadMeeting, CloseSessions, Drop
    <3> QED BY <1>1, <3>1, <3>2 DEF MeetingsInv, MeetingsTypeOK
  <2> QED BY <2>1, <2>2
<1>6. MeetingsTypeOK'
  <2>1. ASSUME NEW m \in Meetings PROVE Untold(m)'
    <3>1. notices'[m] < starts'[m] => notices[m] < starts[m]
      BY <1>1, <1>5 DEF MeetingsInv, MeetingsTypeOK
    <3>2. ASSUME NEW q \in Requests, at[q] = "announce", task[q].on = m, notices'[m] < starts'[m]
          PROVE  losses' > 0 \/ (at'[q] = "announce" /\ task'[q] = task[q])
      <4>1. CASE q = r
        BY <1>1, <1>5, <3>2, <4>1 DEF MeetingsInv, MeetingsTypeOK
      <4>2. CASE q # r
        BY <1>4, <3>2, <4>2
      <4> QED BY <4>1, <4>2
    <3> QED BY <1>2, <3>1, <3>2, UntoldStays
  <2> QED BY <1>1, <1>2, <1>3, <1>4, <1>5, <2>1 DEF MeetingsInv, MeetingsTypeOK, time, sweeper, Untold
<1>7. \A q \in Requests : Asked(q)'
  <2>1. \A q \in Requests : \/ at'[q] = "idle"
                            \/ /\ at[q] # "idle" /\ task'[q] = task[q]
                               /\ at'[q] = "sessions" => ~Creates(q)
                               /\ at[q] = "announce" => at'[q] = "announce"
    BY <1>4 DEF MeetingsInv, Asked
  <2>2. \A q \in Requests : at'[q] # "idle" => (at'[q] = "announce" <=> at[q] = "announce")
    BY <1>4
  <2>3. \A q \in Requests : at'[q] # "idle" =>
          (Creates(q) /\ at'[q] # "announce" <=> status'[task[q].on] = "none")
    BY <1>1, <2>1, <2>2 DEF MeetingsInv, Asked, Making
  <2>4. ASSUME NEW q \in Requests, at'[q] = "announce"
        PROVE  /\ starts'[task[q].on] = 1 /\ notices'[task[q].on] = 0
               /\ \A v \in Requests : v # q /\ at'[v] = "announce" => task[v].on # task[q].on
    <3>1. at[q] = "announce" /\ q # r /\ Asked(q) /\ task[q].on \in Meetings
      BY <1>4, <2>4 DEF MeetingsInv, Asked, Tasks
    <3>2. at[r] = "announce" => task[r].on # task[q].on
      BY <3>1 DEF Asked
    <3>3. notices'[task[q].on] = notices[task[q].on]
      BY <1>5, <3>1, <3>2
    <3> QED BY <1>1, <2>2, <3>1, <3>3 DEF Asked
  <2> QED BY <2>1, <2>3, <2>4, RowsMove
<1>8. \A m \in Meetings : Begun(m)'
  BY <1>1 DEF MeetingsInv, Begun, sweeper
<1> QED BY <1>6, <1>7, <1>8 DEF MeetingsInv

LEMMA SweepKeeps ==
  ASSUME MeetingsInv, Sweep \/ DropSweep PROVE MeetingsInv'
<1>1. UNCHANGED <<starts, notices, time, requests, moves>>
  BY DEF Sweep, DropSweep, Begin, MarkMissed, ListStale, EndStale, CloseStale, Rest, rows
<1>2. /\ status' \in [Meetings -> Statuses]
      /\ \A m \in Meetings : status'[m] = status[m] \/ (m \in listed /\ status'[m] \in Over)
  <2>1. CASE UNCHANGED status
    BY <2>1 DEF MeetingsInv, MeetingsTypeOK
  <2>2. CASE \E m \in Meetings : MarkMissed(m) \/ EndStale(m)
    BY <2>2 DEF MarkMissed, EndStale, MeetingsInv, MeetingsTypeOK, Statuses, Over
  <2> QED BY <2>1, <2>2 DEF Sweep, DropSweep, Begin, ListStale, CloseStale, Rest, rows
<1>3. attended' \in [Meetings -> BOOLEAN] /\ sweep' \in Phases
  <2>1. UNCHANGED attended \/ attended' = [m \in Meetings |-> attended[m] /\ m \notin ending]
    BY DEF Sweep, DropSweep, Begin, MarkMissed, ListStale, EndStale, CloseStale, Rest, rows
  <2>2. attended' \in [Meetings -> BOOLEAN]
    <3>1. \A m \in Meetings : (attended[m] /\ m \notin ending) \in BOOLEAN
      OBVIOUS
    <3>2. [m \in Meetings |-> attended[m] /\ m \notin ending] \in [Meetings -> BOOLEAN]
      BY <3>1, Zenon
    <3> QED BY <2>1, <3>2 DEF MeetingsInv, MeetingsTypeOK
  <2>3. sweep' \in Phases
    BY DEF Sweep, DropSweep, Begin, MarkMissed, ListStale, EndStale, CloseStale, Rest,
           Phase, Phases, MeetingsInv, MeetingsTypeOK
  <2> QED BY <2>2, <2>3
<1>4. ending' \subseteq Meetings /\ listed' \subseteq Meetings
  BY DEF Sweep, DropSweep, Begin, MarkMissed, ListStale, EndStale, CloseStale, Rest,
         Missed, Stale, MeetingsInv, MeetingsTypeOK
<1>5. losses' \in 0..MaxLosses /\ losses' >= losses /\ losses' \in Nat
  BY MeetingBounds DEF Sweep, DropSweep, Begin, MarkMissed, ListStale, EndStale, CloseStale, Rest,
         MeetingsInv, MeetingsTypeOK
<1>6. \A m \in listed' : status[m] # "none"
  BY DEF Sweep, DropSweep, Begin, MarkMissed, ListStale, EndStale, CloseStale, Rest,
         Missed, Stale, Live, MeetingsInv, MeetingsTypeOK, Begun
<1>7. \A m \in Meetings : Begun(m)'
  BY <1>1, <1>2, <1>6 DEF MeetingsInv, Begun, Over
<1>8. MeetingsTypeOK'
  <2>1. \A m \in Meetings : Untold(m)'
    BY <1>1, <1>5, UntoldStays DEF requests
  <2> QED BY <1>1, <1>2, <1>3, <1>4, <1>5, <2>1 DEF MeetingsInv, MeetingsTypeOK, time, requests, Untold
<1>9. \A r \in Requests : Asked(r)'
  <2>1. \A m \in Meetings : status'[m] = "none" <=> status[m] = "none"
    BY <1>2 DEF MeetingsInv, Begun, Over
  <2> QED BY <1>1, <2>1 DEF MeetingsInv, Asked, Making, Creates, requests, Tasks
<1> QED BY <1>7, <1>8, <1>9 DEF MeetingsInv

LEMMA WorldKeeps ==
  ASSUME MeetingsInv,
         \/ UNCHANGED meetingVars
         \/ \E m \in Meetings : Joined(m) \/ Left(m) \/ FallsQuiet(m) \/ Passes(m)
  PROVE  MeetingsInv'
<1>1. UNCHANGED <<status, starts, notices, requests, sweeper, moves, losses>>
  BY DEF Joined, Left, FallsQuiet, Passes, Opens, Closes, RunsLong, rows, meetingVars
<1>2. /\ window' \in [Meetings -> {"early", "open", "over"}] /\ attended' \in [Meetings -> BOOLEAN]
      /\ quiet' \in [Meetings -> BOOLEAN] /\ long' \in [Meetings -> BOOLEAN]
  BY DEF Joined, Left, FallsQuiet, Passes, Opens, Closes, RunsLong, rows, time, meetingVars,
         MeetingsInv, MeetingsTypeOK
<1>3. MeetingsTypeOK'
  BY <1>1, <1>2 DEF MeetingsInv, MeetingsTypeOK, requests, sweeper
<1>4. (\A r \in Requests : Asked(r)') /\ \A m \in Meetings : Begun(m)'
  BY <1>1 DEF MeetingsInv, Asked, Begun, Making, Creates, requests, sweeper
<1> QED BY <1>3, <1>4 DEF MeetingsInv

\* Rows, requests and the sweep's list keep their types; a row goes live once at
\* most and everybody is told of it once at most, however many people join at that
\* moment (goLive); while nobody was told of a start, some handler is about to
\* (meetingStarted), or an invocation was lost.
THEOREM MeetingsTypes == MeetingsSpec => []MeetingsTypeOK
<1>1. MeetingsInv /\ [MeetingsNext]_meetingVars => MeetingsInv'
  BY RequestKeeps, RequestsKeep, WriteKeeps, SweepKeeps, WorldKeeps DEF MeetingsNext
<1>2. MeetingsInv => MeetingsTypeOK
  BY DEF MeetingsInv
<1> QED BY MeetingsInitInv, <1>1, <1>2, PTL DEF MeetingsSpec

-----------------------------------------------------------------------------
(* The people of a room *)

LEMMA LeastOf == ASSUME NEW T, T \subseteq Nat, T # {} PROVE \E n \in T : \A m \in T : ~ (m < n)
<1> DEFINE R == {e \in Nat \X Nat : e[1] < e[2]}
<1>1. IsWellFoundedOn(R, Nat)
  BY NatLessThanWellFounded DEF OpToRel
<1>2. \A m, n \in T : m < n => <<m, n>> \in R
  OBVIOUS
<1> HIDE DEF R
<1>3. \E x \in T : \A y \in T : ~ (<<y, x>> \in R)
  BY <1>1, WFMin
<1> QED BY <1>2, <1>3

LEMMA OrderFacts ==
  ASSUME NEW S, NEW o \in Orders(S)
  PROVE  /\ o \subseteq S \X S
         /\ \A p, q \in S : p # q => (<<p, q>> \in o <=> <<q, p>> \notin o)
         /\ \A p, q, x \in S : <<p, q>> \in o /\ <<q, x>> \in o => <<p, x>> \in o
         /\ \A p \in S : <<p, p>> \notin o
BY DEF Orders

\* Somebody among any members has served longest.
LEMMA FirstIn ==
  ASSUME NEW M, IsFiniteSet(M), before \in Orders(M), NEW S \in SUBSET M, S # {}
  PROVE  First(S) \in S
<1> DEFINE Older(p) == {q \in S : <<q, p>> \in before}
<1> DEFINE Ranks == {Cardinality(Older(p)) : p \in S}
<1>1. IsFiniteSet(S)
  BY FS_Subset
<1>2. \A p \in S : IsFiniteSet(Older(p)) /\ Cardinality(Older(p)) \in Nat
  <2> SUFFICES ASSUME NEW p \in S PROVE IsFiniteSet(Older(p)) /\ Cardinality(Older(p)) \in Nat
    OBVIOUS
  <2>1. Older(p) \in SUBSET S
    OBVIOUS
  <2>2. IsFiniteSet(Older(p))
    BY <1>1, <2>1, FS_Subset
  <2> QED BY <2>2, FS_CardinalityType
<1>3. Ranks \subseteq Nat /\ Ranks # {}
  BY <1>2
<1>4. PICK n \in Ranks : \A m \in Ranks : ~ (m < n)
  <2> HIDE DEF Ranks
  <2> QED BY <1>3, LeastOf
<1>5. PICK p \in S : n = Cardinality(Older(p))
  OBVIOUS
<1>6. \A q \in S \ {p} : <<p, q>> \in before
  <2> SUFFICES ASSUME NEW q \in S \ {p}, <<p, q>> \notin before PROVE FALSE
    OBVIOUS
  <2>1. <<q, p>> \in before /\ q \in M /\ p \in M
    BY OrderFacts
  <2>2. Older(q) \in SUBSET Older(p) /\ q \in Older(p) /\ q \notin Older(q)
    BY <2>1, OrderFacts
  <2>3. Cardinality(Older(q)) <= Cardinality(Older(p))
        /\ Cardinality(Older(p)) # Cardinality(Older(q))
    BY <1>2, <2>2, FS_Subset
  <2>4. Cardinality(Older(q)) < Cardinality(Older(p))
    BY <1>2, <2>3
  <2> QED BY <1>4, <1>5, <2>4
<1> QED BY <1>6 DEF First

LEMMA OrderGrows ==
  ASSUME NEW S, NEW o \in Orders(S), NEW p, p \notin S
  PROVE  o \cup (S \X {p}) \in Orders(S \cup {p}) /\ o \cup ({p} \X S) \in Orders(S \cup {p})
<1>1. /\ o \subseteq S \X S
      /\ \A x, y \in S : x # y => (<<x, y>> \in o <=> <<y, x>> \notin o)
      /\ \A x, y, z \in S : <<x, y>> \in o /\ <<y, z>> \in o => <<x, z>> \in o
      /\ \A x \in S : <<x, x>> \notin o
  BY OrderFacts
<1>2. o \cup (S \X {p}) \in Orders(S \cup {p})
  BY <1>1 DEF Orders
<1>3. o \cup ({p} \X S) \in Orders(S \cup {p})
  BY <1>1 DEF Orders
<1> QED BY <1>2, <1>3

LEMMA OrderShrinks ==
  ASSUME NEW S, NEW o \in Orders(S), NEW p
  PROVE  {e \in o : p \notin {e[1], e[2]}} \in Orders(S \ {p})
<1>1. /\ o \subseteq S \X S
      /\ \A x, y \in S : x # y => (<<x, y>> \in o <=> <<y, x>> \notin o)
      /\ \A x, y, z \in S : <<x, y>> \in o /\ <<y, z>> \in o => <<x, z>> \in o
      /\ \A x \in S : <<x, x>> \notin o
  BY OrderFacts
<1> QED BY <1>1 DEF Orders

LEMMA WishFacts ==
  ASSUME NEW w \in Wishes
  PROVE  /\ w.by \in People
         /\ w.do \in {"create", "join", "add", "remove", "appoint", "archive", "restore"}
         /\ w.do \in {"add", "remove", "appoint"} => w.whom \in People
         /\ w.do = "appoint" => w.as \in {"admin", "member"}
         /\ w.do = "create" => w.with \subseteq People
BY DEF Wishes

\* Whoever is left of a room, if anybody, one of them is to have it.
LEMMA HeirIn ==
  ASSUME before \in Orders(Members), NEW others \in SUBSET Members, active \subseteq People
  PROVE  IF others = {} THEN Heir(others) = "nobody" ELSE Heir(others) \in others
<1>1. IsFiniteSet(Members)
  BY RoomPeople, FS_Subset DEF Members
<1>2. \A S \in SUBSET others : S # {} => First(S) \in S
  BY <1>1, FirstIn
<1>3. CASE others = {}
  BY <1>3 DEF Heir
<1> DEFINE actives == others \cap active
<1> DEFINE admins == {p \in actives : role[p] = "admin"}
<1>4. CASE admins # {}
  <2>1. Heir(others) = First(admins)
    BY <1>4 DEF Heir
  <2> QED BY <1>2, <1>4, <2>1
<1>5. CASE admins = {} /\ actives # {}
  <2>1. Heir(others) = First(actives)
    BY <1>5 DEF Heir
  <2> QED BY <1>2, <1>5, <2>1
<1>6. CASE actives = {} /\ others # {}
  <2>1. Heir(others) = First(others)
    BY <1>6 DEF Heir
  <2> QED BY <1>2, <1>6, <2>1
<1> QED BY <1>3, <1>4, <1>5, <1>6

\* A request is about something, an heir is a person, and the founding stands alone.
Visiting == \A r \in Visits :
  /\ visit[r] # "idle" => wish[r] \in Wishes
  /\ visit[r] = "heir" => seen[r].heir \in People
  /\ visit[r] # "idle" /\ wish[r].do = "create" =>
       visit[r] = "write" /\ wish[r].by \notin wish[r].with /\ ~created
Founding == ~created =>
  /\ Members = {} /\ ~archived
  /\ \A r \in Visits : visit[r] # "idle" =>
       wish[r].do = "create" /\ \A q \in Visits \ {r} : visit[q] = "idle"

Waiting(r) == visit[r] \in {"idle", "room"}
Owned(p) == Owners = {p}
Settled == \A r \in Visits : ~Handing(r)
\* What an owner on the way out has read of the room is so until all is written.
Passing(r) == Handing(r) =>
  LET by == wish[r].by
  IN  /\ \A q \in Visits \ {r} : Waiting(q)
      /\ visit[r] = "write" => /\ Owned(by) /\ seen[r].archived = archived
                               /\ seen[r].empty <=> Members = {by}
                               /\ IF seen[r].empty THEN seen[r].heir = "nobody"
                                                   ELSE seen[r].heir \in Members \ {by}
      /\ visit[r] = "heir" => Owners = {} /\ seen[r].heir \in Members
      /\ visit[r] = "close" => Members = {}
\* Nobody else's write is about the owner or follows a departure.
Calm(r) == ~Handing(r) /\ visit[r] \in {"write", "heir", "close"} =>
  /\ visit[r] = "write"
  /\ wish[r].do \in {"remove", "appoint"} => role[wish[r].whom] # "owner"
  /\ wish[r].do = "remove" => ~seen[r].empty /\ seen[r].heir = "nobody"
\* An owner about to leave knows whether the room is archived.
Fresh(r) ==
  Leaving(r) /\ visit[r] \in {"membership", "list"} /\ role[wish[r].by] = "owner" =>
    seen[r].archived = archived
\* Nobody gets into a room that nobody is in.
Outside(r) == Waiting(r) \/ (visit[r] = "membership" /\ seen[r].archived)
Course ==
  /\ \A r \in Visits : Passing(r) /\ Calm(r) /\ Fresh(r)
  /\ Settled => (Members = {} /\ archived) \/ \E p \in People : Owned(p)
  /\ Members = {} /\ Settled => \A r \in Visits : Outside(r)

\* What a room goes through from one state of its members to the next.
RoomsInv ==
  /\ RoomsTypeOK /\ Visiting /\ Founding
  /\ created /\ ~crossed => Course

Seeings == [archived: BOOLEAN, mine: Roles \cup {"none"},
            target: Roles \cup {"none"}, empty: BOOLEAN, heir: People \cup {"nobody"}]

LEMMA RoomsInitInv == RoomsInit => RoomsInv
<1> SUFFICES ASSUME RoomsInit PROVE RoomsInv
  OBVIOUS
<1>1. Members = {}
  BY DEF RoomsInit, Members, In
<1>2. before \in Orders(Members)
  BY <1>1 DEF RoomsInit, Orders
<1>3. RoomsTypeOK
  <2>1. wish \in [Visits -> Wishes \cup {NoWish}]
    BY DEF RoomsInit
  <2>2. gone \in 0..MaxGone
    BY RoomBounds DEF RoomsInit
  <2>3. /\ created \in BOOLEAN /\ archived \in BOOLEAN /\ crossed \in BOOLEAN
        /\ role \in [People -> Roles \cup {"none"}] /\ active \subseteq People
    BY DEF RoomsInit, Roles
  <2>4. seen \in [Visits -> Seeings]
    BY DEF RoomsInit, Seeings, NotSeen, Roles
  <2>5. visit \in [Visits -> {"idle", "room", "membership", "list", "write", "heir", "close"}]
    BY DEF RoomsInit
  <2> QED BY <1>2, <2>1, <2>2, <2>3, <2>4, <2>5 DEF RoomsTypeOK, Seeings
<1> QED BY <1>1, <1>3 DEF RoomsInit, RoomsInv, Visiting, Founding

\* The requests other than r stay where they are.
Others(r) == \A q \in Visits \ {r} :
  visit'[q] = visit[q] /\ wish'[q] = wish[q] /\ seen'[q] = seen[q]

LEMMA AwaitFacts ==
  ASSUME RoomsTypeOK, NEW r \in Visits, NEW label, Await(r, label)
  PROVE  visit'[r] = label /\ wish'[r] = wish[r] /\ wish' = wish
         /\ \A q \in Visits \ {r} : visit'[q] = visit[q]
BY DEF Await, RoomsTypeOK

LEMMA AnswerFacts ==
  ASSUME RoomsTypeOK, NEW r \in Visits, Answer(r)
  PROVE  /\ visit'[r] = "idle" /\ Others(r)
         /\ visit' \in [Visits -> {"idle", "room", "membership", "list", "write", "heir", "close"}]
         /\ wish' \in [Visits -> Wishes \cup {NoWish}]
         /\ seen' \in [Visits -> Seeings]
BY DEF Answer, RoomsTypeOK, Others, NotSeen, Roles, Seeings

LEMMA DecideFacts ==
  ASSUME RoomsTypeOK, NEW r \in Visits, NEW allowed,
         NEW label \in {"membership", "list", "write"}, NEW found \in Seeings,
         Decide(r, allowed, label, found)
  PROVE  /\ Others(r) /\ UNCHANGED <<room, active, gone>>
         /\ visit' \in [Visits -> {"idle", "room", "membership", "list", "write", "heir", "close"}]
         /\ wish' \in [Visits -> Wishes \cup {NoWish}]
         /\ seen' \in [Visits -> Seeings]
         /\ \/ visit'[r] = "idle"
            \/ allowed /\ visit'[r] = label /\ wish'[r] = wish[r] /\ seen'[r] = found
<1>1. CASE allowed
  BY <1>1 DEF Decide, Await, RoomsTypeOK, Others, Seeings
<1>2. CASE ~allowed
  <2>1. Answer(r)
    BY <1>2 DEF Decide
  <2> QED BY <2>1, AnswerFacts DEF Decide
<1> QED BY <1>1, <1>2

\* A step that leaves the room as it is keeps what is known of it, if the
\* request that takes it does.
LEMMA ReadingCourse ==
  ASSUME Course, UNCHANGED room, NEW r \in Visits, Others(r), ~Handing(r),
         Passing(r)', Calm(r)', Fresh(r)', ~Crossing',
         (Members = {} /\ Settled => Outside(r))'
  PROVE  Course'
<1>1. UNCHANGED <<created, archived, role, before, Members, Owners>>
  BY DEF room, Members, Owners, In
<1>2. \A q \in Visits \ {r} : /\ Handing(q)' <=> Handing(q)
                              /\ Calm(q)' <=> Calm(q)
                              /\ Fresh(q)' <=> Fresh(q)
                              /\ Outside(q)' <=> Outside(q)
  BY <1>1 DEF Others, Handing, Leaving, Calm, Fresh, Outside, Waiting
<1>3. \A q \in Visits : Passing(q)'
  <2> SUFFICES ASSUME NEW q \in Visits \ {r} PROVE Passing(q)'
    OBVIOUS
  <2>1. Handing(q)' => \A p \in Visits \ {q} : Waiting(p)'
    BY DEF Crossing, Waiting
  <2>2. Passing(q)
    BY DEF Course
  <2> QED BY <1>1, <1>2, <2>1, <2>2 DEF Passing, Others, Owned
<1>4. Settled' => Settled
  BY <1>2 DEF Settled
<1> QED BY <1>1, <1>2, <1>3, <1>4 DEF Course, Owned

\* A write that leaves the room in order, with nobody on the way out.
LEMMA WritingCourse ==
  ASSUME NEW r \in Visits, Others(r), visit'[r] = "idle",
         \A q \in Visits \ {r} : ~Handing(q) /\ Calm(q)' /\ Fresh(q)',
         \/ (\E p \in People : Owned(p))' /\ Members' # {}
         \/ Members' = {} /\ archived' /\ \A q \in Visits \ {r} : Waiting(q)
  PROVE  Course'
<1>1. \A q \in Visits : ~Handing(q)'
  BY DEF Others, Handing, Leaving
<1>2. Passing(r)' /\ Calm(r)' /\ Fresh(r)' /\ Outside(r)'
  BY DEF Passing, Calm, Fresh, Outside, Waiting, Handing
<1>3. \A q \in Visits : Passing(q)' /\ Calm(q)' /\ Fresh(q)'
  BY <1>1, <1>2 DEF Passing
<1>4. Waiting(r)' /\ \A q \in Visits \ {r} : Waiting(q) => Waiting(q)'
  BY DEF Waiting, Others
<1> QED BY <1>1, <1>2, <1>3, <1>4 DEF Course, Outside

Marked == crossed' = (crossed \/ Crossing' \/ LostHanding \/ Reopened)
LEMMA MarkedFacts ==
  ASSUME RoomsTypeOK, Marked
  PROVE  /\ crossed' \in BOOLEAN
         /\ ~crossed' => ~crossed /\ ~Crossing' /\ ~LostHanding /\ ~Reopened
BY DEF RoomsTypeOK, Marked

RoomSame == UNCHANGED <<created, archived, role, before, Members, Owners>>
LEMMA RoomStays == ASSUME UNCHANGED room PROVE RoomSame
BY DEF room, RoomSame, Members, Owners, In

\* Nothing of the room changes and a request moves: the parts that are not Course.
LEMMA RoomReadingKeeps ==
  ASSUME RoomsInv, Marked, UNCHANGED room, active' \subseteq People, gone' \in 0..MaxGone,
         NEW r \in Visits, Others(r),
         visit' \in [Visits -> {"idle", "room", "membership", "list", "write", "heir", "close"}],
         wish' \in [Visits -> Wishes \cup {NoWish}], seen' \in [Visits -> Seeings],
         visit'[r] \notin {"idle", "heir"} => wish'[r] \in Wishes,
         visit'[r] # "heir",
         visit'[r] # "idle" => created /\ wish'[r].do # "create",
         created /\ ~crossed' => Course'
  PROVE  RoomsInv'
<1>1. RoomSame
  BY RoomStays
<1>2. RoomsTypeOK'
  BY <1>1, MarkedFacts DEF RoomsInv, RoomsTypeOK, RoomSame, Seeings
<1>3. Visiting'
  BY <1>1 DEF RoomsInv, Visiting, Others, RoomSame
<1>4. Founding'
  BY <1>1 DEF RoomsInv, Founding, Others, RoomSame
<1> QED BY <1>1, <1>2, <1>3, <1>4 DEF RoomsInv, RoomSame

LEMMA VisitKeeps ==
  ASSUME RoomsInv, Marked, NEW r \in Visits, Visit(r) PROVE RoomsInv'
<1>1. PICK w \in Wishes :
        /\ visit[r] = "idle" /\ (w.do = "create" <=> ~created)
        /\ w.do = "create" => w.by \notin w.with
        /\ w.do = "create" => \A q \in Visits : visit[q] = "idle"
        /\ visit' = [visit EXCEPT ![r] = IF w.do = "create" THEN "write" ELSE "room"]
        /\ wish' = [wish EXCEPT ![r] = w]
        /\ UNCHANGED <<room, active, seen, gone>>
  BY DEF Visit
<1>2. /\ visit' \in [Visits -> {"idle", "room", "membership", "list", "write", "heir", "close"}]
      /\ wish' \in [Visits -> Wishes \cup {NoWish}] /\ seen' \in [Visits -> Seeings]
      /\ visit'[r] = (IF w.do = "create" THEN "write" ELSE "room") /\ wish'[r] = w
      /\ Others(r)
  BY <1>1 DEF RoomsInv, RoomsTypeOK, Others, Seeings
<1>3. RoomSame
  BY <1>1, RoomStays
<1>4. CASE w.do = "create"
  <2>1. RoomsTypeOK'
    BY <1>1, <1>2, <1>3, MarkedFacts DEF RoomsInv, RoomsTypeOK, RoomSame, Seeings
  <2>2. Visiting' /\ Founding'
    BY <1>1, <1>2, <1>3, <1>4 DEF RoomsInv, Visiting, Founding, Others, RoomSame
  <2> QED BY <1>1, <1>3, <1>4, <2>1, <2>2 DEF RoomsInv, RoomSame
<1>5. CASE w.do # "create"
  <2>1. ~Handing(r) /\ Passing(r)' /\ Calm(r)' /\ Fresh(r)' /\ Outside(r)'
    BY <1>1, <1>2, <1>5 DEF Handing, Passing, Calm, Fresh, Outside, Waiting
  <2>2. created /\ ~crossed' => Course'
    BY <1>1, <1>2, <2>1, MarkedFacts, ReadingCourse DEF RoomsInv
  <2>3. active' \subseteq People /\ gone' \in 0..MaxGone
    BY <1>1 DEF RoomsInv, RoomsTypeOK
  <2> QED BY <1>1, <1>2, <1>5, <2>2, <2>3, RoomReadingKeeps
<1> QED BY <1>4, <1>5

LEMMA DecideKeeps ==
  ASSUME RoomsInv, Marked, NEW r \in Visits, NEW allowed,
         NEW label \in {"membership", "list", "write"}, NEW found \in Seeings,
         Decide(r, allowed, label, found), visit[r] \in {"room", "membership", "list"},
         /\ allowed /\ visit'[r] = label /\ wish'[r] = wish[r] /\ seen'[r] = found
         /\ Course /\ RoomSame /\ ~Crossing' /\ Others(r)
         => Passing(r)' /\ Calm(r)' /\ Fresh(r)' /\ (Members = {} /\ Settled => Outside(r))'
  PROVE  RoomsInv'
<1>1. /\ Others(r) /\ UNCHANGED <<room, active, gone>>
      /\ visit' \in [Visits -> {"idle", "room", "membership", "list", "write", "heir", "close"}]
      /\ wish' \in [Visits -> Wishes \cup {NoWish}]
      /\ seen' \in [Visits -> Seeings]
      /\ \/ visit'[r] = "idle"
         \/ allowed /\ visit'[r] = label /\ wish'[r] = wish[r] /\ seen'[r] = found
  BY DecideFacts DEF RoomsInv
<1>2. wish[r] \in Wishes /\ created /\ wish[r].do # "create"
  BY DEF RoomsInv, Visiting, Founding
<1>3. RoomSame
  BY <1>1, RoomStays
<1>4. created /\ ~crossed' => Course'
  <2> SUFFICES ASSUME ~crossed' PROVE Course'
    OBVIOUS
  <2>1. Course /\ ~Crossing'
    BY <1>2, MarkedFacts DEF RoomsInv
  <2>2. Passing(r)' /\ Calm(r)' /\ Fresh(r)' /\ (Members = {} /\ Settled => Outside(r))'
    <3>1. CASE visit'[r] = "idle"
      BY <3>1 DEF Passing, Calm, Fresh, Outside, Waiting, Handing
    <3>2. CASE allowed /\ visit'[r] = label /\ wish'[r] = wish[r] /\ seen'[r] = found
      BY <1>1, <1>3, <2>1, <3>2
    <3> QED BY <1>1, <3>1, <3>2
  <2>3. ~Handing(r)
    BY DEF Handing
  <2> QED BY <1>1, <2>1, <2>2, <2>3, ReadingCourse
<1>5. active' \subseteq People /\ gone' \in 0..MaxGone
  BY <1>1 DEF RoomsInv, RoomsTypeOK
<1>6. visit'[r] # "idle" => visit'[r] = label /\ wish'[r] = wish[r]
  BY <1>1
<1> QED BY <1>1, <1>2, <1>4, <1>5, <1>6, RoomReadingKeeps

LEMMA ReadRoomKeeps ==
  ASSUME RoomsInv, Marked, NEW r \in Visits, ReadRoom(r) PROVE RoomsInv'
<1> DEFINE found == [seen[r] EXCEPT !.archived = archived]
<1>1. found \in Seeings /\ found.archived = archived
  BY DEF RoomsInv, RoomsTypeOK, Seeings
<1>2. visit[r] = "room" /\ Decide(r, TRUE, "membership", found)
  BY DEF ReadRoom
<1> HIDE DEF found
<1>3. ASSUME visit'[r] = "membership", seen'[r] = found, Course, RoomSame, Others(r)
      PROVE  Passing(r)' /\ Calm(r)' /\ Fresh(r)' /\ (Members = {} /\ Settled => Outside(r))'
  <2>1. Passing(r)' /\ Calm(r)' /\ Fresh(r)' /\ ~Handing(r)' /\ ~Handing(r)
    BY <1>1, <1>2, <1>3 DEF Passing, Calm, Fresh, Handing, RoomSame
  <2>2. Settled' => Settled
    BY <1>3, <2>1 DEF Settled, Handing, Leaving, Others
  <2>3. Members' = {} /\ Settled' => archived
    BY <1>3, <2>2 DEF Course, Owned, RoomSame, Owners, Members, In
  <2> QED BY <1>1, <1>3, <2>1, <2>3 DEF Outside
<1> QED BY <1>1, <1>2, <1>3, DecideKeeps

LEMMA ReadMembershipKeeps ==
  ASSUME RoomsInv, Marked, NEW r \in Visits, ReadMembership(r) PROVE RoomsInv'
<1> DEFINE w == wish[r]
           changes == w.do \notin {"archive", "restore"} \/ seen[r].archived # (w.do = "archive")
           allowed == Admitted(w, role[w.by], seen[r].archived) /\ changes
           label == IF w.do \in {"archive", "restore"} THEN "write" ELSE "list"
           found == [seen[r] EXCEPT !.mine = role[w.by]]
<1>1. w \in Wishes /\ visit[r] = "membership"
  BY DEF RoomsInv, Visiting, ReadMembership
<1>2. found \in Seeings /\ found.archived = seen[r].archived
  BY <1>1, WishFacts DEF RoomsInv, RoomsTypeOK, Seeings
<1>3. Decide(r, allowed, label, found)
  BY DEF ReadMembership
<1>4. label \in {"list", "write"} /\ (label = "write" <=> w.do \in {"archive", "restore"})
  OBVIOUS
<1>5. ASSUME allowed, visit'[r] = label, wish'[r] = wish[r], seen'[r] = found, Course, RoomSame, Others(r)
      PROVE  Passing(r)' /\ Calm(r)' /\ Fresh(r)' /\ (Members = {} /\ Settled => Outside(r))'
  <2>0. Admitted(w, role[w.by], seen[r].archived)
    BY <1>5
  <2> HIDE DEF allowed, label, found
  <2>1. Passing(r)' /\ Calm(r)' /\ ~Handing(r)' /\ ~Handing(r)
    BY <1>1, <1>4, <1>5 DEF Passing, Calm, Handing, Leaving
  <2>2. Fresh(r)'
    BY <1>1, <1>2, <1>5 DEF Course, Fresh, Leaving, RoomSame
  <2>3. Settled' => Settled
    BY <1>5, <2>1 DEF Settled, Handing, Leaving, Others
  <2>4. Members = {} /\ Settled => FALSE
    <3> SUFFICES ASSUME Members = {}, Settled PROVE FALSE
      OBVIOUS
    <3>1. seen[r].archived
      BY <1>1, <1>5 DEF Course, Outside, Waiting
    <3>2. role[w.by] = "none"
      BY <1>1, WishFacts DEF Members, In
    <3> QED BY <2>0, <3>1, <3>2 DEF Admitted
  <2> QED BY <1>5, <2>1, <2>2, <2>3, <2>4 DEF RoomSame
<1> HIDE DEF allowed, label, found
<1> QED BY <1>1, <1>2, <1>3, <1>4, <1>5, DecideKeeps

LEMMA ListKeeps ==
  ASSUME RoomsInv, Marked, NEW r \in Visits, ListMembers(r) PROVE RoomsInv'
<1> DEFINE w == wish[r]
           others == Members \ {w.whom}
           hands == Leaving(r) /\ role[w.whom] = "owner"
           found == IF w.do # "remove" THEN seen[r]
                    ELSE [seen[r] EXCEPT !.target = role[w.whom], !.empty = (others = {}),
                            !.heir = IF hands THEN Heir(others) ELSE "nobody"]
           allowed == ListAllows(r, w)
<1>1. w \in Wishes /\ visit[r] = "list" /\ Decide(r, allowed, "write", found)
  BY DEF RoomsInv, Visiting, ListMembers
<1>2. before \in Orders(Members) /\ active \subseteq People
  BY DEF RoomsInv, RoomsTypeOK
<1>3. IF others = {} THEN Heir(others) = "nobody" ELSE Heir(others) \in others
  BY <1>2, HeirIn
<1>4. w.do = "remove" => role[w.whom] \in Roles \cup {"none"}
  BY <1>1, WishFacts DEF RoomsInv, RoomsTypeOK
<1>5. /\ found \in Seeings
      /\ w.do = "remove" => /\ found.target = role[w.whom] /\ found.empty = (others = {})
                            /\ found.heir = (IF hands THEN Heir(others) ELSE "nobody")
                            /\ found.archived = seen[r].archived
  <2>1. Heir(others) \in People \cup {"nobody"}
    BY <1>3 DEF Members
  <2>2. seen[r] \in Seeings
    BY DEF RoomsInv, RoomsTypeOK, Seeings
  <2> HIDE DEF others, hands
  <2>3. CASE w.do # "remove"
    BY <2>2, <2>3
  <2>4. CASE w.do = "remove"
    BY <1>4, <2>1, <2>2, <2>4 DEF Seeings
  <2> QED BY <2>3, <2>4
<1>6. ASSUME allowed, visit'[r] = "write", wish'[r] = wish[r], seen'[r] = found, Course, RoomSame,
             ~Crossing', Others(r)
      PROVE  Passing(r)' /\ Calm(r)' /\ Fresh(r)' /\ (Members = {} /\ Settled => Outside(r))'
  <2>1. Fresh(r)'
    BY <1>6 DEF Fresh
  <2>2. Settled
    <3> SUFFICES ASSUME NEW q \in Visits, Handing(q) PROVE FALSE
      BY DEF Settled
    <3>1. q # r
      BY <1>1 DEF Handing
    <3>2. Handing(q)'
      BY <1>6, <3>1 DEF Handing, Leaving, Others
    <3> QED BY <1>6, <3>1, <3>2 DEF Crossing
  <2>3. Members # {}
    BY <1>1, <1>6, <2>2 DEF Course, Outside, Waiting
  <2>4. PICK p \in People : Owners = {p}
    BY <1>6, <2>2, <2>3 DEF Course, Owned
  <2>5. \A q \in People : role[q] = "owner" <=> q = p
    BY <2>4 DEF Owners
  <2>6. p \in Members
    BY <2>5 DEF Members, In
  <2>7. w.do \in {"remove", "appoint"} /\ ~Leaving(r) => role[w.whom] \in {"admin", "member"} /\ w.whom # p
    <3> HIDE DEF w
    <3>1. ASSUME w.do \in {"remove", "appoint"}, ~Leaving(r) PROVE role[w.whom] \in {"admin", "member"}
      BY <1>6, <3>1 DEF ListAllows
    <3> QED BY <1>1, <3>1, <2>5, WishFacts
  <2>8. Calm(r)'
    <3> SUFFICES ASSUME ~Handing(r)', w.do \in {"remove", "appoint"}
        PROVE  role[w.whom] # "owner" /\ (w.do = "remove" => ~found.empty /\ found.heir = "nobody")
      BY <1>6, <1>1 DEF Calm, RoomSame
    <3>1. w.do = "remove" => ~hands
      BY <1>5, <1>6 DEF Handing, Leaving
    <3>2. role[w.whom] # "owner"
      BY <2>7, <3>1 DEF Leaving
    <3>3. w.whom # p
      BY <2>5, <3>2
    <3>4. p \in others
      BY <2>6, <3>3
    <3> QED BY <1>5, <3>1, <3>2, <3>4
  <2>9. Passing(r)'
    <3> SUFFICES ASSUME Handing(r)' PROVE Passing(r)'
      BY DEF Passing
    <3>1. w.do = "remove" /\ w.by = w.whom /\ hands
      BY <1>5, <1>6 DEF Handing, Leaving
    <3>2. w.by = p
      BY <1>1, <2>5, <3>1, WishFacts
    <3>3. \A q \in Visits \ {r} : Waiting(q)'
      BY <1>6 DEF Crossing, Waiting
    <3>4. seen[r].archived = archived
      BY <1>1, <1>6, <3>1 DEF Course, Fresh
    <3>5. found.empty <=> Members = {p}
      BY <1>5, <2>6, <3>1, <3>2
    <3>6. IF found.empty THEN found.heir = "nobody" ELSE found.heir \in Members \ {p}
      BY <1>3, <1>5, <3>1, <3>2
    <3> HIDE DEF found, w
    <3> QED BY <1>5, <1>6, <2>4, <3>1, <3>2, <3>3, <3>4, <3>5, <3>6 DEF Passing, Owned, RoomSame, w
  <2> QED BY <1>6, <2>1, <2>3, <2>8, <2>9 DEF RoomSame
<1> HIDE DEF found, allowed
<1> QED BY <1>1, <1>5, <1>6, DecideKeeps

LEMMA LoseKeeps ==
  ASSUME RoomsInv, Marked, NEW r \in Visits, Lose(r) PROVE RoomsInv'
<1>1. /\ visit[r] # "idle" /\ gone < MaxGone /\ gone' = gone + 1
      /\ Answer(r) /\ UNCHANGED <<room, active>>
  BY DEF Lose
<1>2. /\ visit'[r] = "idle" /\ Others(r)
      /\ visit' \in [Visits -> {"idle", "room", "membership", "list", "write", "heir", "close"}]
      /\ wish' \in [Visits -> Wishes \cup {NoWish}] /\ seen' \in [Visits -> Seeings]
  BY <1>1, AnswerFacts DEF RoomsInv
<1>3. gone' \in 0..MaxGone /\ gone' # gone /\ active' \subseteq People
  BY <1>1, RoomBounds DEF RoomsInv, RoomsTypeOK
<1>4. created /\ ~crossed' => Course'
  <2> SUFFICES ASSUME created, ~crossed' PROVE Course'
    OBVIOUS
  <2>1. Course /\ ~Crossing' /\ ~LostHanding
    BY MarkedFacts DEF RoomsInv
  <2>2. ~Handing(r)
    BY <1>2, <1>3, <2>1 DEF LostHanding
  <2>3. Passing(r)' /\ Calm(r)' /\ Fresh(r)' /\ Outside(r)'
    BY <1>2 DEF Passing, Calm, Fresh, Outside, Waiting, Handing
  <2> QED BY <1>1, <1>2, <2>1, <2>2, <2>3, ReadingCourse
<1> QED BY <1>1, <1>2, <1>3, <1>4, RoomReadingKeeps

LEMMA SuspendKeeps ==
  ASSUME RoomsInv, Marked, NEW p \in People, Suspend(p) \/ Reinstate(p) PROVE RoomsInv'
<1>1. UNCHANGED <<room, visits, gone>> /\ active' \subseteq People
  BY DEF Suspend, Reinstate, RoomsInv, RoomsTypeOK
<1>2. RoomSame
  BY <1>1, RoomStays
<1>3. RoomsTypeOK'
  BY <1>1, <1>2, MarkedFacts DEF RoomsInv, RoomsTypeOK, RoomSame, visits
<1>4. Visiting' /\ Founding'
  BY <1>1, <1>2 DEF RoomsInv, Visiting, Founding, RoomSame, visits
<1>5. created /\ ~crossed => Course'
  BY <1>1, <1>2 DEF RoomsInv, Course, Passing, Calm, Fresh, Outside, Waiting, Settled, Owned,
                    Handing, Leaving, RoomSame, visits
<1> QED BY <1>2, <1>3, <1>4, <1>5, MarkedFacts DEF RoomsInv, RoomSame

\* Something of the room is written: the parts that are not Course.
LEMMA WrittenKeeps ==
  ASSUME RoomsInv, Marked, created' = TRUE, archived' \in BOOLEAN, UNCHANGED <<active, gone>>,
         role' \in [People -> Roles \cup {"none"}], before' \in Orders(Members)',
         NEW r \in Visits, Others(r), visit'[r] \in {"idle", "heir", "close"},
         visit'[r] # "idle" => wish'[r] \in Wishes /\ wish'[r].do # "create",
         visit'[r] = "heir" => seen'[r].heir \in People,
         visit' \in [Visits -> {"idle", "room", "membership", "list", "write", "heir", "close"}],
         wish' \in [Visits -> Wishes \cup {NoWish}], seen' \in [Visits -> Seeings],
         \/ created
         \/ \A q \in Visits \ {r} : visit[q] = "idle",
         ~crossed' => Course'
  PROVE  RoomsInv'
<1>1. RoomsTypeOK'
  BY MarkedFacts DEF RoomsInv, RoomsTypeOK, Seeings
<1>2. Visiting'
  BY DEF RoomsInv, Visiting, Others
<1> QED BY <1>1, <1>2 DEF RoomsInv, Founding

LEMMA MembersOf ==
  ASSUME RoomsInv
  PROVE  /\ \A p \in People : In(p) <=> p \in Members
         /\ \A p \in Owners : p \in Members
         /\ Members \subseteq People /\ Owners \subseteq Members
BY DEF Members, Owners, In

LEMMA CreateKeeps ==
  ASSUME RoomsInv, Marked, NEW r \in Visits, visit[r] = "write", Create(r), UNCHANGED <<active, gone>>
  PROVE  RoomsInv'
<1> DEFINE by == wish[r].by
           with == wish[r].with
<1>1. /\ wish[r].do = "create" /\ created' = TRUE /\ archived' = archived
      /\ role' = [p \in People |-> IF p = by THEN "owner" ELSE IF p \in with THEN "member" ELSE "none"]
      /\ \E o \in Orders(with) : before' = o \cup ({by} \X with)
      /\ Answer(r)
  BY DEF Create
<1>2. wish[r] \in Wishes /\ ~created /\ by \notin with /\ by \in People /\ with \subseteq People
  BY <1>1, WishFacts DEF RoomsInv, Visiting
<1>3. \A q \in Visits \ {r} : visit[q] = "idle"
  BY <1>2 DEF RoomsInv, Founding
<1>4. /\ visit'[r] = "idle" /\ Others(r)
      /\ visit' \in [Visits -> {"idle", "room", "membership", "list", "write", "heir", "close"}]
      /\ wish' \in [Visits -> Wishes \cup {NoWish}] /\ seen' \in [Visits -> Seeings]
  BY <1>1, AnswerFacts DEF RoomsInv
<1>5. Members' = with \cup {by} /\ Owners' = {by}
  BY <1>1, <1>2 DEF Members, Owners, In
<1>6. before' \in Orders(Members)'
  <2>1. PICK o \in Orders(with) : before' = o \cup ({by} \X with)
    BY <1>1
  <2>2. o \cup ({by} \X with) \in Orders(with \cup {by})
    BY <1>2, OrderGrows
  <2>3. before' \in Orders(Members')
    BY <1>5, <2>1, <2>2
  <2> QED BY <2>3 DEF Orders
<1>7. role' \in [People -> Roles \cup {"none"}] /\ archived' \in BOOLEAN
  BY <1>1 DEF Roles, RoomsInv, RoomsTypeOK
<1>8. Course'
  <2>1. \A q \in Visits \ {r} : ~Handing(q) /\ Calm(q)' /\ Fresh(q)'
    BY <1>3, <1>4 DEF Handing, Calm, Fresh, Others
  <2>2. (\E p \in People : Owned(p))' /\ Members' # {}
    BY <1>2, <1>5 DEF Owned
  <2> QED BY <1>4, <2>1, <2>2, WritingCourse
<1> QED BY <1>1, <1>3, <1>4, <1>6, <1>7, <1>8, WrittenKeeps

\* A write other than an owner's departure, in a room that goes on: the owner is who it was.
LEMMA OrdinaryCourse ==
  ASSUME RoomsInv, Course, ~Crossing', NEW r \in Visits, visit[r] = "write", ~Handing(r),
         Others(r), visit'[r] = "idle",
         UNCHANGED Owners, Owners \subseteq Members',
         \A p \in People : role'[p] = "owner" <=> role[p] = "owner",
         \A q \in Visits \ {r} : Fresh(q)'
  PROVE  Course'
<1>1. \A q \in Visits \ {r} : ~Handing(q)
  BY DEF Course, Passing, Waiting
<1>2. Settled
  BY <1>1 DEF Settled
<1>3. Members # {}
  BY <1>2 DEF Course, Outside, Waiting
<1>4. PICK p \in People : Owners = {p}
  BY <1>2, <1>3 DEF Course, Owned
<1>5. (\E q \in People : Owned(q))' /\ Members' # {}
  BY <1>4 DEF Owned
<1>6. \A q \in Visits \ {r} : Calm(q)'
  <2> SUFFICES ASSUME NEW q \in Visits \ {r} PROVE Calm(q)'
    OBVIOUS
  <2>1. Calm(q)
    BY DEF Course
  <2>2. visit[q] # "idle" => wish[q] \in Wishes
    BY DEF RoomsInv, Visiting
  <2> QED BY <1>1, <2>1, <2>2, WishFacts DEF Calm, Others, Handing
<1> QED BY <1>1, <1>5, <1>6, WritingCourse

LEMMA AddKeeps ==
  ASSUME RoomsInv, Marked, NEW r \in Visits, visit[r] = "write", wish[r].do \in {"join", "add"},
         NEW p \in People, Add(r, p), UNCHANGED <<active, gone>>
  PROVE  RoomsInv'
<1>1. /\ IF In(p) THEN UNCHANGED <<role, before>>
         ELSE role' = [role EXCEPT ![p] = "member"] /\ before' = before \cup (Members \X {p})
      /\ Answer(r) /\ UNCHANGED <<created, archived>>
  BY DEF Add
<1>2. created /\ ~Handing(r)
  BY DEF RoomsInv, Founding, Handing, Leaving
<1>3. /\ visit'[r] = "idle" /\ Others(r)
      /\ visit' \in [Visits -> {"idle", "room", "membership", "list", "write", "heir", "close"}]
      /\ wish' \in [Visits -> Wishes \cup {NoWish}] /\ seen' \in [Visits -> Seeings]
  BY <1>1, AnswerFacts DEF RoomsInv
<1>4. /\ role' \in [People -> Roles \cup {"none"}] /\ archived' \in BOOLEAN /\ created' = TRUE
      /\ \A q \in People : role'[q] = "owner" <=> role[q] = "owner"
      /\ \A q \in People : In(q) => In(q)'
  BY <1>1, <1>2 DEF RoomsInv, RoomsTypeOK, In, Roles
<1>5. Members' = Members \cup {p} /\ Owners' = Owners /\ Owners \subseteq Members
  BY <1>1, <1>4 DEF Members, Owners, In, RoomsInv, RoomsTypeOK
<1>6. before' \in Orders(Members)'
  <2>0. before \in Orders(Members) /\ (In(p) <=> p \in Members)
    BY MembersOf DEF RoomsInv, RoomsTypeOK
  <2>1. before' \in Orders(Members')
    <3>1. CASE In(p)
      BY <1>1, <1>5, <2>0, <3>1
    <3>2. CASE ~In(p)
      <4>1. before \cup (Members \X {p}) \in Orders(Members \cup {p})
        BY <2>0, <3>2, OrderGrows
      <4> QED BY <1>1, <1>5, <3>2, <4>1
    <3> QED BY <3>1, <3>2
  <2> QED BY <2>1 DEF Orders
<1>7. ASSUME ~crossed' PROVE Course'
  <2>1. Course /\ ~Crossing'
    BY <1>2, <1>7, MarkedFacts DEF RoomsInv
  <2>2. \A q \in Visits \ {r} : Fresh(q)'
    <3> SUFFICES ASSUME NEW q \in Visits \ {r} PROVE Fresh(q)'
      OBVIOUS
    <3>1. visit[q] # "idle" => wish[q] \in Wishes
      BY DEF RoomsInv, Visiting
    <3> QED BY <1>1, <1>3, <1>4, <2>1, <3>1, WishFacts DEF Course, Fresh, Leaving, Others
  <2> QED BY <1>2, <1>3, <1>4, <1>5, <2>1, <2>2, OrdinaryCourse
<1> QED BY <1>1, <1>2, <1>3, <1>4, <1>6, <1>7, WrittenKeeps

LEMMA AppointKeeps ==
  ASSUME RoomsInv, Marked, NEW r \in Visits, visit[r] = "write", wish[r].do = "appoint",
         Named(wish[r].whom, wish[r].as), Answer(r),
         UNCHANGED <<created, archived, before, active, gone>>
  PROVE  RoomsInv'
<1> DEFINE p == wish[r].whom
<1>1. wish[r] \in Wishes /\ p \in People /\ wish[r].as \in {"admin", "member"}
  BY WishFacts DEF RoomsInv, Visiting
<1>2. created /\ ~Handing(r)
  BY DEF RoomsInv, Founding, Handing, Leaving
<1>3. /\ visit'[r] = "idle" /\ Others(r)
      /\ visit' \in [Visits -> {"idle", "room", "membership", "list", "write", "heir", "close"}]
      /\ wish' \in [Visits -> Wishes \cup {NoWish}] /\ seen' \in [Visits -> Seeings]
  BY AnswerFacts DEF RoomsInv
<1>4. role' \in [People -> Roles \cup {"none"}] /\ \A q \in People : In(q)' <=> In(q)
  BY <1>1 DEF Named, RoomsInv, RoomsTypeOK, In, Roles
<1>5. Members' = Members
  BY <1>4 DEF Members
<1>6. before' \in Orders(Members)'
  BY <1>5 DEF RoomsInv, RoomsTypeOK, Orders
<1>7. ASSUME ~crossed' PROVE Course'
  <2>1. Course /\ ~Crossing'
    BY <1>2, <1>7, MarkedFacts DEF RoomsInv
  <2>2. role[p] # "owner"
    BY <1>2, <2>1 DEF Course, Calm
  <2>3. \A q \in People : role'[q] = "owner" <=> role[q] = "owner"
    BY <1>1, <2>2 DEF Named, RoomsInv, RoomsTypeOK, In
  <2>4. Owners' = Owners /\ Owners \subseteq Members'
    BY <1>5, <2>3 DEF Owners, Members, In
  <2>5. \A q \in Visits \ {r} : Fresh(q)'
    <3> SUFFICES ASSUME NEW q \in Visits \ {r} PROVE Fresh(q)'
      OBVIOUS
    <3>1. visit[q] # "idle" => wish[q] \in Wishes
      BY DEF RoomsInv, Visiting
    <3> QED BY <1>3, <2>1, <2>3, <3>1, WishFacts DEF Course, Fresh, Leaving, Others
  <2> QED BY <1>2, <1>3, <2>1, <2>3, <2>4, <2>5, OrdinaryCourse
<1> QED BY <1>2, <1>3, <1>4, <1>6, <1>7, WrittenKeeps DEF RoomsInv, RoomsTypeOK

LEMMA ArchiveKeeps ==
  ASSUME RoomsInv, Marked, NEW r \in Visits, visit[r] = "write", wish[r].do \in {"archive", "restore"},
         archived' = (wish[r].do = "archive"), Answer(r),
         UNCHANGED <<created, role, before, active, gone>>
  PROVE  RoomsInv'
<1>1. created /\ ~Handing(r)
  BY DEF RoomsInv, Founding, Handing, Leaving
<1>2. /\ visit'[r] = "idle" /\ Others(r)
      /\ visit' \in [Visits -> {"idle", "room", "membership", "list", "write", "heir", "close"}]
      /\ wish' \in [Visits -> Wishes \cup {NoWish}] /\ seen' \in [Visits -> Seeings]
  BY AnswerFacts DEF RoomsInv
<1>3. Members' = Members /\ Owners' = Owners /\ Owners \subseteq Members'
  BY DEF Members, Owners, In
<1>4. before' \in Orders(Members)' /\ role' \in [People -> Roles \cup {"none"}]
  BY <1>3 DEF RoomsInv, RoomsTypeOK, Orders
<1>5. ASSUME ~crossed' PROVE Course'
  <2>1. Course /\ ~Crossing' /\ ~Reopened
    BY <1>1, <1>5, MarkedFacts DEF RoomsInv
  <2>2. \A q \in Visits \ {r} : Fresh(q)'
    BY <1>2, <2>1 DEF Course, Fresh, Leaving, Others, Reopened
  <2> QED BY <1>1, <1>2, <1>3, <2>1, <2>2, OrdinaryCourse
<1> QED BY <1>1, <1>2, <1>4, <1>5, WrittenKeeps

LEMMA RemoveKeeps ==
  ASSUME RoomsInv, Marked, NEW r \in Visits, visit[r] = "write", wish[r].do = "remove",
         Remove(r, wish[r].whom), UNCHANGED <<active, gone>>
  PROVE  RoomsInv'
<1> DEFINE p == wish[r].whom
           closes == seen[r].empty /\ ~seen[r].archived
           inherits == seen[r].heir # "nobody"
<1>1. /\ role' = [role EXCEPT ![p] = "none"]
      /\ before' = {e \in before : p \notin {e[1], e[2]}}
      /\ CASE closes   -> Await(r, "close") /\ UNCHANGED seen
           [] inherits -> Await(r, "heir") /\ UNCHANGED seen
           [] OTHER -> Answer(r)
      /\ UNCHANGED <<created, archived>>
  BY DEF Remove
<1>2. wish[r] \in Wishes /\ p \in People /\ created
  BY WishFacts DEF RoomsInv, Visiting, Founding
<1>3. role' \in [People -> Roles \cup {"none"}] /\ Members' = Members \ {p} /\ Owners' = Owners \ {p}
      /\ \A q \in People : q # p => role'[q] = role[q]
  BY <1>1, <1>2 DEF RoomsInv, RoomsTypeOK, Members, Owners, In
<1>4. before' \in Orders(Members)'
  <2>1. before \in Orders(Members)
    BY DEF RoomsInv, RoomsTypeOK
  <2>2. before' \in Orders(Members')
    BY <1>1, <1>3, <2>1, OrderShrinks
  <2> QED BY <2>2 DEF Orders
<1> HIDE DEF closes, inherits
<1>5. \/ closes /\ Await(r, "close") /\ UNCHANGED seen
      \/ inherits /\ Await(r, "heir") /\ UNCHANGED seen
      \/ ~closes /\ ~inherits /\ Answer(r)
  BY <1>1
<1>6. /\ visit'[r] \in {"idle", "heir", "close"} /\ Others(r)
      /\ visit' \in [Visits -> {"idle", "room", "membership", "list", "write", "heir", "close"}]
      /\ wish' \in [Visits -> Wishes \cup {NoWish}] /\ seen' \in [Visits -> Seeings]
      /\ visit'[r] # "idle" => wish'[r] = wish[r] /\ seen'[r] = seen[r]
      /\ visit'[r] = "heir" => seen[r].heir \in People
      /\ visit'[r] = (IF closes \/ inherits THEN visit'[r] ELSE "idle")
      /\ closes /\ ~inherits => visit'[r] = "close"
      /\ inherits /\ ~closes => visit'[r] = "heir"
  <2>1. CASE Await(r, "close") /\ UNCHANGED seen /\ closes
    BY <2>1 DEF Await, RoomsInv, RoomsTypeOK, Others, Seeings
  <2>2. CASE Await(r, "heir") /\ UNCHANGED seen /\ inherits
    <3>1. seen[r].heir \in People
      BY <2>2 DEF inherits, RoomsInv, RoomsTypeOK
    <3> QED BY <2>2, <3>1 DEF Await, RoomsInv, RoomsTypeOK, Others, Seeings
  <2>3. CASE ~closes /\ ~inherits /\ Answer(r)
    BY <2>3, AnswerFacts DEF RoomsInv
  <2> QED BY <1>5, <2>1, <2>2, <2>3
<1>7. ASSUME ~crossed' PROVE Course'
  <2>1. Course /\ ~Crossing'
    BY <1>2, <1>7, MarkedFacts DEF RoomsInv
  <2>2. CASE ~Handing(r)
    <3>1. role[p] # "owner" /\ ~seen[r].empty /\ seen[r].heir = "nobody"
      BY <2>1, <2>2 DEF Course, Calm
    <3>2. visit'[r] = "idle"
      BY <1>6, <3>1 DEF closes, inherits
    <3>3. /\ Owners' = Owners /\ Owners \subseteq Members'
          /\ \A q \in People : role'[q] = "owner" <=> role[q] = "owner"
      BY <1>1, <1>2, <1>3, <3>1 DEF Owners, Members, In, RoomsInv, RoomsTypeOK
    <3>4. \A q \in Visits \ {r} : Fresh(q)'
      <4> SUFFICES ASSUME NEW q \in Visits \ {r} PROVE Fresh(q)'
        OBVIOUS
      <4>1. visit[q] # "idle" => wish[q] \in Wishes
        BY DEF RoomsInv, Visiting
      <4> QED BY <1>1, <1>6, <2>1, <3>3, <4>1, WishFacts DEF Course, Fresh, Leaving, Others
    <3> QED BY <1>6, <2>1, <2>2, <3>2, <3>3, <3>4, OrdinaryCourse
  <2>3. CASE Handing(r)
    <3>1. /\ wish[r].by = p /\ \A q \in Visits \ {r} : Waiting(q)
          /\ Owners = {p} /\ seen[r].archived = archived /\ (seen[r].empty <=> Members = {p})
          /\ IF seen[r].empty THEN seen[r].heir = "nobody" ELSE seen[r].heir \in Members \ {p}
      BY <2>1, <2>3 DEF Course, Passing, Owned, Handing, Leaving
    <3>2. \A q \in Visits \ {r} : ~Handing(q) /\ Calm(q)' /\ Fresh(q)' /\ Waiting(q)'
      BY <1>6, <3>1 DEF Handing, Calm, Fresh, Others, Waiting
    <3>3. \A q \in Visits \ {r} : ~Handing(q)'
      BY <3>2 DEF Handing, Waiting
    <3>4. CASE ~closes /\ ~inherits
      <4>1. seen[r].empty
        BY <3>1, <3>4, RoomPeople DEF inherits, Members
      <4>2. Members' = {} /\ archived' /\ visit'[r] = "idle"
        BY <1>1, <1>3, <1>6, <3>1, <3>4, <4>1 DEF closes
      <4> QED BY <1>6, <3>1, <3>2, <4>2, WritingCourse
    <3>5. CASE closes
      <4>1. visit'[r] = "close" /\ Members' = {}
        BY <1>3, <1>6, <3>1, <3>5 DEF closes, inherits
      <4>2. Handing(r)'
        BY <1>6, <2>3, <4>1 DEF Handing, Leaving
      <4>3. Passing(r)' /\ Calm(r)' /\ Fresh(r)' /\ ~Settled'
        BY <3>2, <4>1, <4>2 DEF Passing, Calm, Fresh, Settled
      <4> QED BY <3>2, <3>3, <4>3 DEF Course, Passing
    <3>6. CASE inherits
      <4>1. visit'[r] = "heir" /\ Owners' = {} /\ seen[r].heir \in Members'
        BY <1>3, <1>6, <3>1, <3>6 DEF closes, inherits
      <4>2. Handing(r)' /\ seen'[r].heir \in Members'
        BY <1>6, <2>3, <4>1 DEF Handing, Leaving
      <4>3. Passing(r)' /\ Calm(r)' /\ Fresh(r)' /\ ~Settled'
        BY <3>2, <4>1, <4>2 DEF Passing, Calm, Fresh, Settled
      <4> QED BY <3>2, <3>3, <4>3 DEF Course, Passing
    <3> QED BY <3>4, <3>5, <3>6
  <2> QED BY <2>2, <2>3
<1>8. archived' \in BOOLEAN /\ created' = TRUE
  BY <1>1, <1>2 DEF RoomsInv, RoomsTypeOK
<1> QED BY <1>2, <1>3, <1>4, <1>6, <1>7, <1>8, WrittenKeeps

LEMMA FulfilKeeps ==
  ASSUME RoomsInv, Marked, NEW r \in Visits, Fulfil(r) PROVE RoomsInv'
<1>1. visit[r] = "write" /\ UNCHANGED <<active, gone>> /\ wish[r] \in Wishes
  BY DEF Fulfil, RoomsInv, Visiting
<1>2. CASE Create(r)
  BY <1>1, <1>2, CreateKeeps
<1>3. CASE wish[r].do = "join" /\ Add(r, wish[r].by)
  BY <1>1, <1>3, AddKeeps, WishFacts
<1>4. CASE wish[r].do = "add" /\ Add(r, wish[r].whom)
  BY <1>1, <1>4, AddKeeps, WishFacts
<1>5. CASE /\ wish[r].do = "appoint" /\ Named(wish[r].whom, wish[r].as)
           /\ Answer(r) /\ UNCHANGED <<created, archived, before>>
  BY <1>1, <1>5, AppointKeeps
<1>6. CASE wish[r].do = "remove" /\ Remove(r, wish[r].whom)
  BY <1>1, <1>6, RemoveKeeps
<1>7. CASE /\ wish[r].do \in {"archive", "restore"} /\ archived' = (wish[r].do = "archive")
           /\ Answer(r) /\ UNCHANGED <<created, role, before>>
  BY <1>1, <1>7, ArchiveKeeps
<1> QED BY <1>2, <1>3, <1>4, <1>5, <1>6, <1>7 DEF Fulfil

LEMMA HandOverKeeps ==
  ASSUME RoomsInv, Marked, NEW r \in Visits, HandOver(r) PROVE RoomsInv'
<1> DEFINE h == seen[r].heir
<1>1. /\ visit[r] = "heir" /\ Named(h, "owner") /\ Answer(r)
      /\ UNCHANGED <<created, archived, before, active, gone>>
  BY DEF HandOver
<1>2. h \in People /\ created
  BY <1>1 DEF RoomsInv, Visiting, Founding
<1>3. /\ visit'[r] = "idle" /\ Others(r)
      /\ visit' \in [Visits -> {"idle", "room", "membership", "list", "write", "heir", "close"}]
      /\ wish' \in [Visits -> Wishes \cup {NoWish}] /\ seen' \in [Visits -> Seeings]
  BY <1>1, AnswerFacts DEF RoomsInv
<1>4. role' \in [People -> Roles \cup {"none"}] /\ \A q \in People : In(q)' <=> In(q)
  BY <1>1, <1>2 DEF Named, RoomsInv, RoomsTypeOK, In, Roles
<1>5. Members' = Members
  BY <1>4 DEF Members
<1>6. before' \in Orders(Members)'
  BY <1>1, <1>5 DEF RoomsInv, RoomsTypeOK, Orders
<1>7. ASSUME ~crossed' PROVE Course'
  <2>1. Course
    BY <1>2, <1>7, MarkedFacts DEF RoomsInv
  <2>2. Handing(r)
    BY <1>1, <2>1 DEF Course, Calm
  <2>3. Owners = {} /\ h \in Members /\ \A q \in Visits \ {r} : Waiting(q)
    BY <1>1, <2>1, <2>2 DEF Course, Passing
  <2>4. Owners' = {h}
    BY <1>1, <1>2, <2>3 DEF Named, Owners, Members, In, RoomsInv, RoomsTypeOK
  <2>5. (\E q \in People : Owned(q))' /\ Members' # {}
    BY <1>2, <1>5, <2>3, <2>4 DEF Owned
  <2>6. \A q \in Visits \ {r} : ~Handing(q) /\ Calm(q)' /\ Fresh(q)'
    BY <1>3, <2>3 DEF Handing, Calm, Fresh, Others, Waiting
  <2> QED BY <1>3, <2>5, <2>6, WritingCourse
<1>8. created' = TRUE /\ archived' \in BOOLEAN
  BY <1>1, <1>2 DEF RoomsInv, RoomsTypeOK
<1> QED BY <1>1, <1>2, <1>3, <1>4, <1>6, <1>7, <1>8, WrittenKeeps

LEMMA CloseRoomKeeps ==
  ASSUME RoomsInv, Marked, NEW r \in Visits, CloseRoom(r) PROVE RoomsInv'
<1>1. /\ visit[r] = "close" /\ archived' = TRUE /\ Answer(r)
      /\ UNCHANGED <<created, role, before, active, gone>>
  BY DEF CloseRoom
<1>2. created
  BY <1>1 DEF RoomsInv, Visiting, Founding
<1>3. /\ visit'[r] = "idle" /\ Others(r)
      /\ visit' \in [Visits -> {"idle", "room", "membership", "list", "write", "heir", "close"}]
      /\ wish' \in [Visits -> Wishes \cup {NoWish}] /\ seen' \in [Visits -> Seeings]
  BY <1>1, AnswerFacts DEF RoomsInv
<1>4. Members' = Members
  BY <1>1 DEF Members, In
<1>5. before' \in Orders(Members)' /\ role' \in [People -> Roles \cup {"none"}]
  BY <1>1, <1>4 DEF RoomsInv, RoomsTypeOK, Orders
<1>6. ASSUME ~crossed' PROVE Course'
  <2>1. Course
    BY <1>2, <1>6, MarkedFacts DEF RoomsInv
  <2>2. Handing(r)
    BY <1>1, <2>1 DEF Course, Calm
  <2>3. Members = {} /\ \A q \in Visits \ {r} : Waiting(q)
    BY <1>1, <2>1, <2>2 DEF Course, Passing
  <2>4. \A q \in Visits \ {r} : ~Handing(q) /\ Calm(q)' /\ Fresh(q)'
    BY <1>3, <2>3 DEF Handing, Calm, Fresh, Others, Waiting
  <2> QED BY <1>1, <1>3, <1>4, <2>3, <2>4, WritingCourse
<1> QED BY <1>1, <1>2, <1>3, <1>5, <1>6, WrittenKeeps

LEMMA RoomsStep == RoomsInv /\ [RoomsNext]_roomVars => RoomsInv'
<1> SUFFICES ASSUME RoomsInv, [RoomsNext]_roomVars PROVE RoomsInv'
  OBVIOUS
<1>1. CASE UNCHANGED roomVars
  <2>1. UNCHANGED <<created, archived, role, before, active, visit, wish, seen, gone, crossed,
                  Members, Owners>>
    BY <1>1 DEF roomVars, room, visits, Members, Owners, In
  <2>2. RoomsTypeOK' /\ Visiting' /\ Founding'
    BY <2>1 DEF RoomsInv, RoomsTypeOK, Visiting, Founding
  <2>3. Course => Course'
    BY <2>1 DEF Course, Passing, Calm, Fresh, Outside, Waiting, Settled, Owned, Handing, Leaving
  <2> QED BY <2>1, <2>2, <2>3 DEF RoomsInv
<1>2. CASE RoomsNext
  <2>1. Marked
    BY <1>2 DEF RoomsNext, Marked
  <2> QED BY <1>2, <2>1, VisitKeeps, ReadRoomKeeps, ReadMembershipKeeps, ListKeeps, FulfilKeeps,
             HandOverKeeps, CloseRoomKeeps, LoseKeeps, SuspendKeeps DEF RoomsNext
<1> QED BY <1>1, <1>2

\* The room, its people and the requests about them keep their types, and the order in
\* which people joined stays a total order of the members.
THEOREM RoomsTypes == RoomsSpec => []RoomsTypeOK
<1>1. RoomsInv => RoomsTypeOK
  BY DEF RoomsInv
<1> QED BY RoomsInitInv, RoomsStep, <1>1, PTL DEF RoomsSpec

\* A room with people has exactly one owner and an empty one is archived, whatever the
\* requests and however many (RoomKeepsAnOwner).
THEOREM RoomOwned == RoomsSpec => []RoomKeepsAnOwner
<1>1. RoomsInv => RoomKeepsAnOwner
  <2> SUFFICES ASSUME RoomsInv, created, ~crossed, Settled
               PROVE  IF Members = {} THEN archived ELSE Cardinality(Owners) = 1
    BY DEF RoomKeepsAnOwner, Settled
  <2>1. (Members = {} /\ archived) \/ \E p \in People : Owners = {p}
    BY DEF RoomsInv, Course, Owned
  <2>2. (\E p \in People : Owners = {p}) => Members # {} /\ Cardinality(Owners) = 1
    BY MembersOf, FS_Singleton
  <2> QED BY <2>1, <2>2
<1> QED BY RoomsInitInv, RoomsStep, <1>1, PTL DEF RoomsSpec

-----------------------------------------------------------------------------
\* The four components of a conversation share nothing, so that what each keeps of its
\* own rows, requests and entries holds of them all at once.
THEOREM CollabTypes == CollabSpec => []CollabTypeOK
<1>1. MeetingsTypeOK /\ RoomsTypeOK /\ MessagesTypeOK /\ PresenceTypeOK => CollabTypeOK
  BY DEF CollabTypeOK
<1> QED BY MeetingsTypes, RoomsTypes, MessagesTypes, PresenceTypes, <1>1, PTL DEF CollabSpec
=============================================================================
