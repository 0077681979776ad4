------------------------------ MODULE Messaging ------------------------------
(***************************************************************************)
(* Staff messaging (core/messaging.ts behind review-ui/messaging-          *)
(* service.ts): direct conversations created lazily, one per pair, groups  *)
(* with members that come and go, and the announcements everyone reads and *)
(* posts to.  Numbers of conversations and messages are given out by       *)
(* counters that are not saved: a restarted server, which may have lost    *)
(* what happened since the last save, works them out again from the        *)
(* conversations and messages it finds.                                    *)
(*                                                                         *)
(* Bodies, names and display names are left out.  Of a message its place   *)
(* is kept, and as history the pair or the founder it was written under.   *)
(***************************************************************************)
EXTENDS Naturals, Sequences, FiniteSets

CONSTANTS
    Colleagues,         \* everyone but clients and the system credential
    MaxConversations,   \* bounds
    MaxMessages

VARIABLES
    conversations,      \* conversations[n]: the conversation numbered n
    directByKey,        \* directByKey[pair]: the number of a pair's conversation
    nextConversation,
    messages,           \* in the order they were posted
    nextMessage,
    savedMessaging      \* the snapshot a restart finds

messagingVars == <<conversations, directByKey, nextConversation, messages,
                   nextMessage, savedMessaging>>

Pairs == {{a, b} : a, b \in Colleagues} \ {{a} : a \in Colleagues}
Announcements == 0      \* well-known, always there, without members
Direct(pair) == [kind |-> "direct", members |-> pair, founder |-> pair]
Group(a, others) == [kind |-> "group", members |-> {a} \cup others, founder |-> {a}]
NoFounder == {}

Largest(S) == IF S = {} THEN 0 ELSE CHOOSE n \in S : \A k \in S : k <= n
Founder(n) == IF n = Announcements THEN NoFounder ELSE conversations[n].founder

Keep(n, c) == [k \in DOMAIN conversations \cup {n} |->
                  IF k = n THEN c ELSE conversations[k]]

\* getOrCreateDirectConversation: the one there is, or a new one.
StartDirect(a, b) ==
    /\ a # b
    /\ {a, b} \notin DOMAIN directByKey
    /\ nextConversation <= MaxConversations
    /\ conversations' = Keep(nextConversation, Direct({a, b}))
    /\ directByKey' = [p \in DOMAIN directByKey \cup {{a, b}} |->
                          IF p = {a, b} THEN nextConversation ELSE directByKey[p]]
    /\ nextConversation' = nextConversation + 1
    /\ UNCHANGED <<messages, nextMessage, savedMessaging>>

CreateGroup(a, others) ==
    /\ nextConversation <= MaxConversations
    /\ conversations' = Keep(nextConversation, Group(a, others))
    /\ nextConversation' = nextConversation + 1
    /\ UNCHANGED <<directByKey, messages, nextMessage, savedMessaging>>

IsGroupOf(n, a) ==
    /\ n \in DOMAIN conversations
    /\ conversations[n].kind = "group"
    /\ a \in conversations[n].members

\* Any member adds anyone.
AddMember(a, n, b) ==
    /\ IsGroupOf(n, a)
    /\ conversations' = [conversations EXCEPT ![n].members = @ \cup {b}]
    /\ UNCHANGED <<directByKey, nextConversation, messages, nextMessage, savedMessaging>>

\* A member leaves; another one is removed by the founder, while a member.
RemoveMember(a, n, b) ==
    /\ IsGroupOf(n, a)
    /\ b = a \/ conversations[n].founder = {a}
    /\ conversations' = [conversations EXCEPT ![n].members = @ \ {b}]
    /\ UNCHANGED <<directByKey, nextConversation, messages, nextMessage, savedMessaging>>

\* postMessage and postAnnouncement
Post(a, n) ==
    /\ n # Announcements => n \in DOMAIN conversations /\ a \in conversations[n].members
    /\ Len(messages) < MaxMessages
    /\ messages' = Append(messages, [id |-> nextMessage, in |-> n, by |-> a,
                                     under |-> Founder(n)])
    /\ nextMessage' = nextMessage + 1
    /\ UNCHANGED <<conversations, directByKey, nextConversation, savedMessaging>>

SaveMessaging ==
    /\ savedMessaging' = [conversations |-> conversations, messages |-> messages]
    /\ UNCHANGED <<conversations, directByKey, nextConversation, messages, nextMessage>>

\* Mutant: the counters start over with the process.
RestoreCountingFromOne(saved) ==
    LET directs == {n \in DOMAIN saved.conversations :
                       saved.conversations[n].kind = "direct"}
    IN  /\ conversations' = saved.conversations
        /\ directByKey' = [p \in {saved.conversations[n].members : n \in directs} |->
                              Largest({n \in directs : saved.conversations[n].members = p})]
        /\ nextConversation' = 1
        /\ messages' = saved.messages
        /\ nextMessage' = 1

\* Mutant: the index of direct conversations is filled by their creation only.
RestoreWithoutIndex(saved) ==
    /\ conversations' = saved.conversations
    /\ directByKey' = [p \in {} |-> 0]
    /\ nextConversation' = Largest(DOMAIN saved.conversations) + 1
    /\ messages' = saved.messages
    /\ nextMessage' = Largest({saved.messages[i].id : i \in DOMAIN saved.messages}) + 1

\* MessagingStore.fromSnapshot: a later conversation of a pair would win.
RestoreMessaging(saved) ==
    LET directs == {n \in DOMAIN saved.conversations :
                       saved.conversations[n].kind = "direct"}
    IN  /\ conversations' = saved.conversations
        /\ directByKey' = [p \in {saved.conversations[n].members : n \in directs} |->
                              Largest({n \in directs : saved.conversations[n].members = p})]
        /\ nextConversation' = Largest(DOMAIN saved.conversations) + 1
        /\ messages' = saved.messages
        /\ nextMessage' = Largest({saved.messages[i].id : i \in DOMAIN saved.messages}) + 1

RestartMessaging ==
    /\ RestoreMessaging(savedMessaging)
    /\ UNCHANGED savedMessaging

----------------------------------------------------------------------------
MessagingInit ==
    /\ conversations = [n \in {} |-> Direct({})]
    /\ directByKey = [p \in {} |-> 0]
    /\ nextConversation = 1
    /\ messages = <<>>
    /\ nextMessage = 1
    /\ savedMessaging = [conversations |-> conversations, messages |-> messages]

MessagingNext ==
    \/ \E a, b \in Colleagues : StartDirect(a, b)
    \/ \E a \in Colleagues, others \in SUBSET Colleagues : CreateGroup(a, others)
    \/ \E a, b \in Colleagues, n \in DOMAIN conversations :
            AddMember(a, n, b) \/ RemoveMember(a, n, b)
    \/ \E a \in Colleagues, n \in {Announcements} \cup DOMAIN conversations : Post(a, n)
    \/ SaveMessaging
    \/ RestartMessaging

MessagingSpec == MessagingInit /\ [][MessagingNext]_messagingVars

----------------------------------------------------------------------------
(* Two people share one direct conversation, the one that starting one     *)
(* again finds, however often the server restarts and loses what it had    *)
(* not saved: nothing said between them is out of sight in a second one.   *)
OneDirectPerPair ==
    /\ \A n, k \in DOMAIN conversations :
          conversations[n].kind = "direct" /\ conversations[k] = conversations[n] => k = n
    /\ \A pair \in Pairs : pair \in DOMAIN directByKey <=>
          \E n \in DOMAIN conversations : conversations[n] = Direct(pair)
    /\ \A pair \in DOMAIN directByKey : conversations[directByKey[pair]] = Direct(pair)

(* A message stays in the conversation it was written in: its number finds *)
(* the same pair or the same founder's group, never one that took the      *)
(* number over after a restart, and no two messages have one number.       *)
MessagesStayWhereWritten ==
    /\ \A i \in DOMAIN messages :
          /\ messages[i].in \in {Announcements} \cup DOMAIN conversations
          /\ messages[i].under = Founder(messages[i].in)
          /\ messages[i].under \in Pairs => messages[i].by \in messages[i].under
    /\ \A i, j \in DOMAIN messages : messages[i].id = messages[j].id => i = j
=============================================================================
