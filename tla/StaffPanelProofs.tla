--------------------------- MODULE StaffPanelProofs ---------------------------
(***************************************************************************)
(* Proofs about five panels of the dashboard, each on its own: the         *)
(* calendar connections, staff messaging, the documents of a matter, the   *)
(* time clock with the payroll it posts to, and the deadlines coming due   *)
(* with the job that mails them, for any people, matters, shifts,          *)
(* corrections, rates, dates and bounds.                                   *)
(***************************************************************************)
EXTENDS CalendarConnections, Messaging, ClientFile, TimeClock, DeadlineAlerts, CollectionProofs

----------------------------------------------------------------------------
(* Calendar connections.                                                   *)

ConnectionTypeOK ==
    /\ owner \in [Requests -> Owners \cup {Nobody}]
    /\ pending \subseteq Requests
    /\ exchanging \in [Callbacks -> Requests \cup {NoRequest}]
    /\ connections \in [Owners -> Requests \cup {NoRequest}]
    /\ savedConnections \in [Owners -> Requests \cup {NoRequest}]
    /\ completed \in [Requests -> Nat]

(* Whoever can still complete a request is alone: the state is pending, or *)
(* one callback has it, and no connection was made of it yet.              *)
RequestsAreSpentOnce ==
    /\ \A r \in pending : completed[r] = 0 /\ \A k \in Callbacks : exchanging[k] # r
    /\ \A k \in Callbacks : exchanging[k] # NoRequest =>
          /\ completed[exchanging[k]] = 0 /\ owner[exchanging[k]] # Nobody
          /\ \A l \in Callbacks : exchanging[l] = exchanging[k] => l = k
    /\ \A r \in Requests : owner[r] = Nobody =>
          /\ completed[r] = 0 /\ r \notin pending

ConnectionInv == ConnectionTypeOK /\ RequestsAreSpentOnce /\ ConnectedByItsOwner

LEMMA ConnectionInitHolds == ConnectionInit => ConnectionInv
BY ConnectionAssumption
   DEF ConnectionInit, ConnectionInv, ConnectionTypeOK, RequestsAreSpentOnce,
       ConnectedByItsOwner

(* The step that matters: the exchange of a spent state ends in the one    *)
(* connection it is good for, of the person who began it.                  *)
LEMMA ConnectedStep ==
    ASSUME ConnectionInv, NEW k \in Callbacks, Connected(k)
    PROVE  ConnectionInv'
<1> DEFINE r == exchanging[k]
<1>1. /\ r \in Requests /\ owner[r] \in Owners /\ completed[r] = 0
      /\ connections' = [connections EXCEPT ![owner[r]] = r]
      /\ completed' = [completed EXCEPT ![r] = @ + 1]
      /\ exchanging' = [exchanging EXCEPT ![k] = NoRequest]
      /\ UNCHANGED <<owner, pending, stale, savedConnections>>
  BY DEF Connected, ConnectionInv, ConnectionTypeOK, RequestsAreSpentOnce
<1> HIDE DEF r
<1>2. completed'[r] = 1 /\ \A q \in Requests \ {r} : completed'[q] = completed[q]
  BY <1>1 DEF ConnectionInv, ConnectionTypeOK
<1>3. ConnectionTypeOK'
  BY <1>1 DEF ConnectionInv, ConnectionTypeOK
<1>4. RequestsAreSpentOnce'
  BY <1>1, <1>2, ConnectionAssumption
     DEF ConnectionInv, ConnectionTypeOK, RequestsAreSpentOnce, r
<1>5. ConnectedByItsOwner'
  BY <1>1, <1>2 DEF ConnectionInv, ConnectionTypeOK, ConnectedByItsOwner
<1> QED BY <1>3, <1>4, <1>5 DEF ConnectionInv

LEMMA ConnectionStep == ConnectionInv /\ [ConnectionNext]_connectionVars => ConnectionInv'
<1> SUFFICES ASSUME ConnectionInv, [ConnectionNext]_connectionVars
             PROVE  ConnectionInv'
  OBVIOUS
<1> USE ConnectionAssumption
    DEF ConnectionInv, ConnectionTypeOK, RequestsAreSpentOnce, ConnectedByItsOwner
<1>1. ASSUME NEW a \in Owners, Disconnect(a)
      PROVE  ConnectionInv'
  BY <1>1 DEF Disconnect
<1>2. ASSUME NEW a \in Owners, NEW r \in Requests, BeginConnect(a, r)
      PROVE  ConnectionInv'
  BY <1>2 DEF BeginConnect
<1>3. ASSUME NEW k \in Callbacks, Connected(k)
      PROVE  ConnectionInv'
  BY <1>3, ConnectedStep
<1>4. ASSUME NEW k \in Callbacks, ExchangeFails(k)
      PROVE  ConnectionInv'
  BY <1>4 DEF ExchangeFails
<1>5. ASSUME NEW k \in Callbacks, NEW r \in Requests, Callback(k, r)
      PROVE  ConnectionInv'
  BY <1>5 DEF Callback
<1>6. CASE TenMinutesPass
  BY <1>6 DEF TenMinutesPass
<1>7. CASE SaveConnections
  BY <1>7 DEF SaveConnections
<1>8. CASE RestartConnections
  BY <1>8 DEF RestartConnections
<1>9. CASE UNCHANGED connectionVars
  BY <1>9 DEF connectionVars
<1> QED
  BY <1>1, <1>2, <1>3, <1>4, <1>5, <1>6, <1>7, <1>8, <1>9 DEF ConnectionNext

(* A state is good for one connection, and to whoever began it, with any   *)
(* callbacks at once, disconnects and restarts in between                  *)
(* (review-ui/calendar-connection-service.ts).                             *)
THEOREM OneConnectionPerState == ConnectionSpec => []ConnectedByItsOwner
<1>1. ConnectionSpec => []ConnectionInv
  BY ConnectionInitHolds, ConnectionStep, PTL DEF ConnectionSpec
<1> QED BY <1>1, PTL DEF ConnectionInv
----------------------------------------------------------------------------
(* Staff messaging.                                                        *)

(* A set of numbers below a bound has a largest one.                       *)
LEMMA LargestIsIn ==
    ASSUME NEW S \in SUBSET Nat, NEW k \in Nat, \A n \in S : n < k
    PROVE  /\ Largest(S) \in Nat
           /\ \A n \in S : n <= Largest(S)
           /\ S # {} => Largest(S) \in S
<1>1. CASE S = {}
  BY <1>1 DEF Largest
<1>2. CASE S # {}
  <2> DEFINE T == {k - n : n \in S}
  <2>1. \A n \in S : n \in Nat /\ k - n \in Nat
    OBVIOUS
  <2>2. T \in SUBSET Nat /\ T # {}
    BY <1>2, <2>1
  <2>3. PICK t \in T : \A y \in T : t <= y
    <3> HIDE DEF T
    <3> QED BY <2>2, SomeIsLeast
  <2>4. PICK m \in S : t = k - m
    BY <2>3
  <2>5. ASSUME NEW n \in S PROVE n <= m
    <3>1. k - n \in T
      OBVIOUS
    <3>2. t <= k - n
      BY <2>3, <3>1
    <3> QED BY <2>1, <2>4, <3>2
  <2>6. m \in S /\ \A n \in S : n <= m
    BY <2>5
  <2>7. Largest(S) \in S /\ \A n \in S : n <= Largest(S)
    BY <1>2, <2>6 DEF Largest
  <2> QED BY <2>7
<1> QED BY <1>1, <1>2

Conversation == [kind : {"direct", "group"}, members : SUBSET Colleagues,
                 founder : SUBSET Colleagues]
Message == [id : Nat, in : Nat, by : Colleagues, under : SUBSET Colleagues]

(* What is true of the conversations alone, kept or live.                  *)
SoundConversations(cs) ==
    /\ DOMAIN cs \subseteq Nat \ {0}
    /\ cs \in [DOMAIN cs -> Conversation]
    /\ \A n \in DOMAIN cs :
          /\ cs[n].kind = "direct" => cs[n].founder = cs[n].members /\ cs[n].members \in Pairs
          /\ cs[n].kind = "group" => cs[n].founder \notin Pairs
    /\ \A n, k \in DOMAIN cs :
          cs[n].kind = "direct" /\ cs[k].kind = "direct" /\ cs[n].members = cs[k].members
             => k = n

(* What is true of the messages in them.                                   *)
SoundMessages(cs, ms) ==
    /\ ms \in Seq(Message)
    /\ \A i \in DOMAIN ms :
          /\ \/ ms[i].in = 0 /\ ms[i].under = {}
             \/ ms[i].in \in DOMAIN cs /\ ms[i].under = cs[ms[i].in].founder
          /\ ms[i].under \in Pairs => ms[i].by \in ms[i].under
    /\ \A i, j \in DOMAIN ms : ms[i].id = ms[j].id => i = j

Numbered(cs, ms, n, m) ==
    /\ n \in Nat \ {0} /\ m \in Nat \ {0}
    /\ \A k \in DOMAIN cs : k < n
    /\ \A i \in DOMAIN ms : ms[i].id < m

(* The index holds the direct conversations there are, each by its pair.   *)
IndexInv ==
    /\ directByKey \in [DOMAIN directByKey -> Nat]
    /\ DOMAIN directByKey = {conversations[n].members :
                               n \in {k \in DOMAIN conversations :
                                         conversations[k].kind = "direct"}}
    /\ \A pair \in DOMAIN directByKey :
          /\ directByKey[pair] \in DOMAIN conversations
          /\ conversations[directByKey[pair]].kind = "direct"
          /\ conversations[directByKey[pair]].members = pair

SavedInv ==
    /\ SoundConversations(savedMessaging.conversations)
    /\ SoundMessages(savedMessaging.conversations, savedMessaging.messages)
    /\ \E n, m \in Nat : Numbered(savedMessaging.conversations, savedMessaging.messages, n, m)

MessagingInv ==
    /\ SoundConversations(conversations)
    /\ SoundMessages(conversations, messages)
    /\ Numbered(conversations, messages, nextConversation, nextMessage)
    /\ IndexInv
    /\ SavedInv

LEMMA MessagingInitHolds == MessagingInit => MessagingInv
<1> SUFFICES ASSUME MessagingInit PROVE MessagingInv
  OBVIOUS
<1>1. /\ DOMAIN conversations = {} /\ conversations \in [DOMAIN conversations -> Conversation]
      /\ DOMAIN directByKey = {} /\ directByKey \in [DOMAIN directByKey -> Nat]
      /\ messages = <<>> /\ nextConversation = 1 /\ nextMessage = 1
      /\ savedMessaging.conversations = conversations
      /\ savedMessaging.messages = messages
  BY DEF MessagingInit
<1>2. /\ SoundConversations(conversations)
      /\ SoundMessages(conversations, messages)
      /\ Numbered(conversations, messages, 1, 1)
  BY <1>1 DEF SoundConversations, SoundMessages, Numbered
<1>3. IndexInv
  BY <1>1 DEF IndexInv
<1> QED BY <1>1, <1>2, <1>3 DEF MessagingInv, SavedInv

(* A new conversation takes a number above every one in use.               *)
LEMMA NewConversation ==
    ASSUME MessagingInv, NEW c \in Conversation,
           conversations' = Keep(nextConversation, c),
           nextConversation' = nextConversation + 1,
           UNCHANGED <<messages, nextMessage, savedMessaging>>,
           c.kind = "direct" => /\ c.founder = c.members /\ c.members \in Pairs
                                /\ c.members \notin DOMAIN directByKey,
           c.kind = "group" => c.founder \notin Pairs
    PROVE  /\ SoundConversations(conversations)'
           /\ SoundMessages(conversations, messages)'
           /\ Numbered(conversations, messages, nextConversation, nextMessage)'
           /\ SavedInv'
<1> DEFINE n == nextConversation
<1>1. /\ n \in Nat \ {0} /\ n \notin DOMAIN conversations
      /\ DOMAIN conversations' = DOMAIN conversations \cup {n}
      /\ conversations'[n] = c
      /\ \A k \in DOMAIN conversations : conversations'[k] = conversations[k]
      /\ conversations' \in [DOMAIN conversations' -> Conversation]
  BY DEF MessagingInv, Numbered, SoundConversations, Keep
<1>2. \A k \in DOMAIN conversations :
          conversations[k].kind = "direct" => conversations[k].members \in DOMAIN directByKey
  BY DEF MessagingInv, IndexInv
<1>3. SoundConversations(conversations)'
  BY <1>1, <1>2 DEF MessagingInv, SoundConversations
<1>4. SoundMessages(conversations, messages)'
  <2>1. messages' = messages
    OBVIOUS
  <2> QED BY <1>1, <2>1 DEF MessagingInv, SoundMessages
<1>5. Numbered(conversations, messages, nextConversation, nextMessage)'
  <2>1. messages' = messages /\ nextMessage' = nextMessage /\ nextConversation' = n + 1
    OBVIOUS
  <2>2. \A k \in DOMAIN conversations : k \in Nat /\ k < n
    BY DEF MessagingInv, Numbered, SoundConversations
  <2> QED BY <1>1, <2>1, <2>2 DEF MessagingInv, Numbered
<1>6. SavedInv'
  BY DEF MessagingInv, SavedInv
<1> QED BY <1>3, <1>4, <1>5, <1>6

LEMMA StartDirectStep ==
    ASSUME MessagingInv, NEW a \in Colleagues, NEW b \in Colleagues, StartDirect(a, b)
    PROVE  MessagingInv'
<1> DEFINE pair == {a, b}
           n == nextConversation
<1>1. /\ pair \in Pairs /\ pair \subseteq Colleagues /\ pair \notin DOMAIN directByKey
      /\ Direct(pair) \in Conversation
  BY DEF StartDirect, Pairs, Direct, Conversation
<1>2. /\ SoundConversations(conversations)'
      /\ SoundMessages(conversations, messages)'
      /\ Numbered(conversations, messages, nextConversation, nextMessage)'
      /\ SavedInv'
  BY <1>1, NewConversation DEF StartDirect, Direct
<1>3. /\ n \in Nat /\ n \notin DOMAIN conversations
      /\ DOMAIN conversations' = DOMAIN conversations \cup {n}
      /\ conversations'[n].kind = "direct" /\ conversations'[n].members = pair
      /\ \A k \in DOMAIN conversations : conversations'[k] = conversations[k]
  BY DEF MessagingInv, Numbered, SoundConversations, StartDirect, Keep, Direct
<1>4. /\ DOMAIN directByKey' = DOMAIN directByKey \cup {pair}
      /\ directByKey'[pair] = n
      /\ \A p \in DOMAIN directByKey : directByKey'[p] = directByKey[p]
      /\ directByKey' \in [DOMAIN directByKey' -> Nat]
  BY <1>1, <1>3 DEF MessagingInv, IndexInv, StartDirect
<1> HIDE DEF pair, n
<1>5. IndexInv'
  BY <1>1, <1>3, <1>4 DEF MessagingInv, IndexInv
<1> QED BY <1>2, <1>5 DEF MessagingInv

LEMMA CreateGroupStep ==
    ASSUME MessagingInv, NEW a \in Colleagues, NEW others \in SUBSET Colleagues,
           CreateGroup(a, others)
    PROVE  MessagingInv'
<1>1. /\ Group(a, others) \in Conversation /\ {a} \notin Pairs
      /\ Group(a, others).kind = "group" /\ Group(a, others).founder = {a}
  BY DEF Group, Conversation, Pairs
<1>2. /\ SoundConversations(conversations)'
      /\ SoundMessages(conversations, messages)'
      /\ Numbered(conversations, messages, nextConversation, nextMessage)'
      /\ SavedInv'
  BY <1>1, NewConversation DEF CreateGroup
<1>3. /\ DOMAIN conversations' = DOMAIN conversations \cup {nextConversation}
      /\ nextConversation \notin DOMAIN conversations
      /\ conversations'[nextConversation].kind # "direct"
      /\ \A k \in DOMAIN conversations : conversations'[k] = conversations[k]
      /\ directByKey' = directByKey
  BY DEF MessagingInv, Numbered, CreateGroup, Keep, Group
<1>4. IndexInv'
  BY <1>3 DEF MessagingInv, IndexInv
<1> QED BY <1>2, <1>4 DEF MessagingInv

(* Members of a group come and go; its number and founder stay.            *)
LEMMA MembersStep ==
    ASSUME MessagingInv, NEW n \in DOMAIN conversations, NEW S \in SUBSET Colleagues,
           conversations[n].kind = "group",
           conversations' = [conversations EXCEPT ![n].members = S],
           UNCHANGED <<directByKey, nextConversation, messages, nextMessage, savedMessaging>>
    PROVE  MessagingInv'
<1>1. /\ DOMAIN conversations' = DOMAIN conversations
      /\ conversations' \in [DOMAIN conversations -> Conversation]
      /\ \A k \in DOMAIN conversations :
            /\ conversations'[k].kind = conversations[k].kind
            /\ conversations'[k].founder = conversations[k].founder
            /\ conversations[k].kind # "group" => conversations'[k] = conversations[k]
  BY DEF MessagingInv, SoundConversations, Conversation
<1>2. SoundConversations(conversations)'
  BY <1>1 DEF MessagingInv, SoundConversations
<1>3. SoundMessages(conversations, messages)'
  <2>1. messages' = messages
    OBVIOUS
  <2> QED BY <1>1, <2>1 DEF MessagingInv, SoundMessages
<1>4. Numbered(conversations, messages, nextConversation, nextMessage)' /\ SavedInv'
  BY <1>1 DEF MessagingInv, Numbered, SavedInv
<1>5. IndexInv'
  BY <1>1 DEF MessagingInv, IndexInv
<1> QED BY <1>2, <1>3, <1>4, <1>5 DEF MessagingInv

LEMMA PostStep ==
    ASSUME MessagingInv, NEW a \in Colleagues,
           NEW n \in {Announcements} \cup DOMAIN conversations, Post(a, n)
    PROVE  MessagingInv'
<1> DEFINE m == [id |-> nextMessage, in |-> n, by |-> a, under |-> Founder(n)]
<1>1. /\ m \in Message
      /\ \/ n = 0 /\ m.under = {}
         \/ n \in DOMAIN conversations /\ m.under = conversations[n].founder
      /\ m.under \in Pairs => a \in m.under
  <2>1. CASE n = Announcements
    BY <2>1 DEF MessagingInv, Numbered, Founder, NoFounder, Announcements, Message, Pairs
  <2>2. CASE n # Announcements
    BY <2>2 DEF MessagingInv, Numbered, SoundConversations, Founder, Message, Conversation, Post
  <2> QED BY <2>1, <2>2
<1>2. /\ m.id = nextMessage /\ m.in = n
      /\ messages' = Append(messages, m) /\ nextMessage' = nextMessage + 1
      /\ UNCHANGED <<conversations, directByKey, nextConversation, savedMessaging>>
  BY DEF Post
<1> HIDE DEF m
<1>3. messages \in Seq(Message)
  BY DEF MessagingInv, SoundMessages
<1>4. /\ messages' \in Seq(Message)
      /\ DOMAIN messages' = DOMAIN messages \cup {Len(messages) + 1}
      /\ Len(messages) + 1 \notin DOMAIN messages
      /\ messages'[Len(messages) + 1] = m
      /\ \A i \in DOMAIN messages : messages'[i] = messages[i]
  BY <1>1, <1>2, <1>3
<1>5. \A i \in DOMAIN messages : messages[i].id \in Nat /\ messages[i].id < nextMessage
  <2>1. ASSUME NEW i \in DOMAIN messages PROVE messages[i] \in Message
    BY <1>3
  <2> QED BY <2>1 DEF MessagingInv, Numbered, Message
<1>6. SoundMessages(conversations, messages)'
  <2> DEFINE l == Len(messages) + 1
  <2>1. /\ DOMAIN messages' = DOMAIN messages \cup {l} /\ messages'[l] = m
        /\ conversations' = conversations
    BY <1>2, <1>4
  <2> HIDE DEF l
  <2>2. \A i, j \in DOMAIN messages' : messages'[i].id = messages'[j].id => i = j
    BY <1>2, <1>4, <1>5, <2>1 DEF MessagingInv, SoundMessages
  <2>3. \A i \in DOMAIN messages' :
           /\ \/ messages'[i].in = 0 /\ messages'[i].under = {}
              \/ /\ messages'[i].in \in DOMAIN conversations
                 /\ messages'[i].under = conversations[messages'[i].in].founder
           /\ messages'[i].under \in Pairs => messages'[i].by \in messages'[i].under
    <3>1. m.by = a
      BY DEF m
    <3> QED BY <1>1, <1>2, <1>4, <2>1, <3>1 DEF MessagingInv, SoundMessages
  <2> QED BY <1>4, <2>1, <2>2, <2>3 DEF SoundMessages
<1>7. Numbered(conversations, messages, nextConversation, nextMessage)'
  BY <1>2, <1>4, <1>5 DEF MessagingInv, Numbered
<1>8. SoundConversations(conversations)' /\ IndexInv' /\ SavedInv'
  BY <1>2 DEF MessagingInv, IndexInv, SavedInv
<1> QED BY <1>6, <1>7, <1>8 DEF MessagingInv

(* A restart works the index and the numbers out of what was saved.        *)
LEMMA RestartStep ==
    ASSUME MessagingInv, RestartMessaging
    PROVE  MessagingInv'
<1> DEFINE cs == savedMessaging.conversations
           ms == savedMessaging.messages
           directs == {n \in DOMAIN cs : cs[n].kind = "direct"}
           Of(p) == {n \in directs : cs[n].members = p}
           ids == {ms[i].id : i \in DOMAIN ms}
<1>1. /\ conversations' = cs /\ messages' = ms /\ savedMessaging' = savedMessaging
      /\ nextConversation' = Largest(DOMAIN cs) + 1
      /\ nextMessage' = Largest(ids) + 1
      /\ directByKey' = [p \in {cs[n].members : n \in directs} |-> Largest(Of(p))]
  BY DEF RestartMessaging, RestoreMessaging
<1>2. SoundConversations(cs) /\ SoundMessages(cs, ms) /\ SavedInv
  BY DEF MessagingInv, SavedInv
<1>3. PICK n \in Nat, m \in Nat : Numbered(cs, ms, n, m)
  BY DEF MessagingInv, SavedInv
<1>4. \A k \in DOMAIN cs : k \in Nat /\ k < n
  BY <1>2, <1>3 DEF SoundConversations, Numbered
<1>5. \A i \in DOMAIN ms : ms[i].id \in Nat /\ ms[i].id < m
  <2>1. ASSUME NEW i \in DOMAIN ms PROVE ms[i] \in Message
    BY <1>2 DEF SoundMessages
  <2> QED BY <1>3, <2>1 DEF Numbered, Message
<1> HIDE DEF cs, ms
<1>6. /\ nextConversation' \in Nat \ {0}
      /\ \A k \in DOMAIN cs : k < nextConversation'
  <2>1. /\ Largest(DOMAIN cs) \in Nat
        /\ \A k \in DOMAIN cs : k <= Largest(DOMAIN cs)
    BY <1>4, LargestIsIn
  <2> QED BY <1>1, <1>4, <2>1
<1>7. /\ nextMessage' \in Nat \ {0}
      /\ \A i \in DOMAIN ms : ms[i].id < nextMessage'
  <2>1. ids \in SUBSET Nat /\ \A k \in ids : k < m
    BY <1>5
  <2>2. /\ Largest(ids) \in Nat
        /\ \A k \in ids : k <= Largest(ids)
    <3> HIDE DEF ids
    <3> QED BY <2>1, LargestIsIn
  <2>3. \A i \in DOMAIN ms : ms[i].id \in ids
    OBVIOUS
  <2>4. ASSUME NEW i \in DOMAIN ms PROVE ms[i].id < Largest(ids) + 1
    <3> HIDE DEF ids
    <3>1. ms[i].id \in Nat /\ ms[i].id <= Largest(ids)
      BY <1>5, <2>2, <2>3
    <3> QED BY <2>2, <3>1
  <2>5. Largest(ids) + 1 \in Nat \ {0}
    <3> HIDE DEF ids
    <3> QED BY <2>2
  <2> QED BY <1>1, <2>4, <2>5, Zenon
<1>8. \A p \in {cs[k].members : k \in directs} : Largest(Of(p)) \in Nat /\ Largest(Of(p)) \in Of(p)
  <2> TAKE p \in {cs[k].members : k \in directs}
  <2>1. Of(p) \in SUBSET Nat /\ Of(p) # {} /\ \A k \in Of(p) : k < n
    BY <1>4
  <2> HIDE DEF Of
  <2> QED BY <2>1, LargestIsIn
<1>9. IndexInv'
  <2>1. /\ DOMAIN directByKey' = {cs[k].members : k \in directs}
        /\ directByKey' \in [DOMAIN directByKey' -> Nat]
        /\ \A p \in DOMAIN directByKey' : directByKey'[p] \in Of(p)
    BY <1>1, <1>8
  <2>2. \A p \in DOMAIN directByKey' :
           /\ directByKey'[p] \in DOMAIN cs
           /\ cs[directByKey'[p]].kind = "direct" /\ cs[directByKey'[p]].members = p
    BY <2>1
  <2>3. conversations' = cs
    BY <1>1
  <2>4. {conversations'[k].members :
            k \in {j \in DOMAIN conversations' : conversations'[j].kind = "direct"}}
           = {cs[k].members : k \in directs}
    BY <2>3
  <2> QED BY <2>1, <2>2, <2>3, <2>4 DEF IndexInv
<1>10. Numbered(conversations, messages, nextConversation, nextMessage)'
  BY <1>1, <1>6, <1>7 DEF Numbered
<1>11. SavedInv'
  BY <1>1, <1>2 DEF SavedInv
<1> QED BY <1>1, <1>2, <1>9, <1>10, <1>11 DEF MessagingInv

LEMMA MessagingStep == MessagingInv /\ [MessagingNext]_messagingVars => MessagingInv'
<1> SUFFICES ASSUME MessagingInv, [MessagingNext]_messagingVars
             PROVE  MessagingInv'
  OBVIOUS
<1>0. \A n \in DOMAIN conversations : conversations[n].members \in SUBSET Colleagues
  BY DEF MessagingInv, SoundConversations, Conversation
<1>1. ASSUME NEW a \in Colleagues, NEW b \in Colleagues, StartDirect(a, b)
      PROVE  MessagingInv'
  BY <1>1, StartDirectStep
<1>2. ASSUME NEW a \in Colleagues, NEW others \in SUBSET Colleagues, CreateGroup(a, others)
      PROVE  MessagingInv'
  BY <1>2, CreateGroupStep
<1>3. ASSUME NEW a \in Colleagues, NEW b \in Colleagues, NEW n \in DOMAIN conversations,
             AddMember(a, n, b)
      PROVE  MessagingInv'
  <2> DEFINE S == conversations[n].members \cup {b}
  <2>1. S \in SUBSET Colleagues
    BY <1>0
  <2>2. /\ conversations[n].kind = "group"
        /\ conversations' = [conversations EXCEPT ![n].members = S]
        /\ UNCHANGED <<directByKey, nextConversation, messages, nextMessage, savedMessaging>>
    BY <1>3 DEF AddMember, IsGroupOf
  <2> QED BY <2>1, <2>2, MembersStep
<1>4. ASSUME NEW a \in Colleagues, NEW b \in Colleagues, NEW n \in DOMAIN conversations,
             RemoveMember(a, n, b)
      PROVE  MessagingInv'
  <2> DEFINE S == conversations[n].members \ {b}
  <2>1. S \in SUBSET Colleagues
    BY <1>0
  <2>2. /\ conversations[n].kind = "group"
        /\ conversations' = [conversations EXCEPT ![n].members = S]
        /\ UNCHANGED <<directByKey, nextConversation, messages, nextMessage, savedMessaging>>
    BY <1>4 DEF RemoveMember, IsGroupOf
  <2> QED BY <2>1, <2>2, MembersStep
<1>5. ASSUME NEW a \in Colleagues, NEW n \in {Announcements} \cup DOMAIN conversations,
             Post(a, n)
      PROVE  MessagingInv'
  BY <1>5, PostStep
<1>6. CASE SaveMessaging
  <2>1. /\ UNCHANGED <<conversations, directByKey, nextConversation, messages, nextMessage>>
        /\ savedMessaging'.conversations = conversations
        /\ savedMessaging'.messages = messages
    BY <1>6 DEF SaveMessaging
  <2>2. SavedInv'
    BY <2>1 DEF MessagingInv, SavedInv, Numbered
  <2> QED BY <2>1, <2>2 DEF MessagingInv, IndexInv
<1>7. CASE RestartMessaging
  BY <1>7, RestartStep
<1>8. CASE UNCHANGED messagingVars
  BY <1>8 DEF messagingVars, MessagingInv, IndexInv, SavedInv
<1> QED
  BY <1>1, <1>2, <1>3, <1>4, <1>5, <1>6, <1>7, <1>8 DEF MessagingNext

LEMMA InvGivesOneDirect == MessagingInv => OneDirectPerPair
<1> SUFFICES ASSUME MessagingInv PROVE OneDirectPerPair
  OBVIOUS
<1>1. /\ \A n \in DOMAIN conversations : conversations[n] \in Conversation
      /\ \A n \in DOMAIN conversations : conversations[n].kind = "direct" =>
            /\ conversations[n].members \in Pairs
            /\ conversations[n] = Direct(conversations[n].members)
  BY DEF MessagingInv, SoundConversations, Conversation, Direct
<1>2. \A n, k \in DOMAIN conversations :
         conversations[n].kind = "direct" /\ conversations[k] = conversations[n] => k = n
  BY DEF MessagingInv, SoundConversations
<1>3. \A pair : Direct(pair).kind = "direct" /\ Direct(pair).members = pair
  BY DEF Direct
<1>4. \A pair \in DOMAIN directByKey :
         /\ directByKey[pair] \in DOMAIN conversations
         /\ conversations[directByKey[pair]] = Direct(pair)
  BY <1>1 DEF MessagingInv, IndexInv
<1>5. ASSUME NEW pair \in Pairs
      PROVE  pair \in DOMAIN directByKey <=>
                \E n \in DOMAIN conversations : conversations[n] = Direct(pair)
  BY <1>3, <1>4 DEF MessagingInv, IndexInv
<1> QED BY <1>2, <1>4, <1>5 DEF OneDirectPerPair

(* Two people have one direct conversation and starting one finds it, over *)
(* any number of restarts that lose what was not saved, which rebuild the  *)
(* index and the numbers from what they find (core/messaging.ts).          *)
THEOREM OneDirectConversation == MessagingSpec => []OneDirectPerPair
<1>1. MessagingSpec => []MessagingInv
  BY MessagingInitHolds, MessagingStep, PTL DEF MessagingSpec
<1> QED BY <1>1, InvGivesOneDirect, PTL

(* A message is found where it was written, under the pair or the founder  *)
(* it was written under, although numbers are given out again after a      *)
(* restart: only those nothing that was kept refers to.                    *)
THEOREM MessagesStay == MessagingSpec => []MessagesStayWhereWritten
<1>1. MessagingSpec => []MessagingInv
  BY MessagingInitHolds, MessagingStep, PTL DEF MessagingSpec
<1>2. MessagingInv => MessagesStayWhereWritten
  BY DEF MessagingInv, SoundConversations, SoundMessages, MessagesStayWhereWritten,
         Founder, NoFounder, Announcements
<1> QED BY <1>1, <1>2, PTL

----------------------------------------------------------------------------
(* The documents of a matter.                                              *)

Chosen == {"none", "this document", "one of before a restart", "another document"}
Document == [matter : Matters, byClient : BOOLEAN, visible : BOOLEAN, upload : Nat,
             chosen : Chosen]

\* Documents below a number, each one shared by choice.
SoundDocuments(docs, below) ==
    /\ docs \in [DOMAIN docs -> Document]
    /\ \A id \in DOMAIN docs :
          /\ id \in Nat /\ id < below
          /\ docs[id].visible =>
                \/ docs[id].byClient
                \/ docs[id].chosen \in {"this document", "one of before a restart"}

\* A page of this life of the server names documents that are, or were.
PagesAreOf(docs, below) ==
    \A a \in LegalStaff :
        /\ pages[a].since \in Nat /\ pages[a].since <= restarts
        /\ \A line \in pages[a].shows :
              pages[a].since = restarts =>
                /\ line.id \in Nat /\ line.id < below
                /\ line.id \in DOMAIN docs => docs[line.id].upload = line.upload

FileInv ==
    /\ restarts \in Nat /\ uploads \in Nat /\ nextDocument \in Nat
    /\ SoundDocuments(documents, nextDocument)
    /\ \E k \in Nat : SoundDocuments(savedFile, k)
    /\ DOMAIN pages = LegalStaff
    /\ PagesAreOf(documents, nextDocument)

LEMMA FileInitHolds == FileInit => FileInv
<1> SUFFICES ASSUME FileInit PROVE FileInv
  OBVIOUS
<1>1. documents = <<>> /\ savedFile = <<>> /\ nextDocument = 1 /\ restarts = 0 /\ uploads = 0
      /\ pages = [a \in LegalStaff |-> NoPage]
  BY DEF FileInit
<1>2. SoundDocuments(documents, 1) /\ SoundDocuments(savedFile, 1)
  BY <1>1 DEF SoundDocuments
<1>3. PagesAreOf(documents, 1)
  BY <1>1 DEF PagesAreOf, NoPage
<1> QED BY <1>1, <1>2, <1>3 DEF FileInv

LEMMA StoreUploadStep ==
    ASSUME FileInv, NEW m \in Matters, NEW byClient \in BOOLEAN, StoreUpload(m, byClient)
    PROVE  FileInv'
<1> DEFINE n == nextDocument
           d == Filed(m, byClient)
<1>1. d \in Document /\ (d.visible => d.byClient)
  BY DEF FileInv, Filed, Document, Chosen
<1>2. /\ n \in Nat /\ n \notin DOMAIN documents
      /\ \A id \in DOMAIN documents : id \in Nat /\ id < n
      /\ DOMAIN documents' = DOMAIN documents \cup {n}
      /\ documents'[n] = d
      /\ \A id \in DOMAIN documents : documents'[id] = documents[id]
      /\ nextDocument' = n + 1 /\ uploads' = uploads + 1
      /\ UNCHANGED <<pages, savedFile, restarts>>
  <2>1. n \in Nat /\ \A id \in DOMAIN documents : id \in Nat /\ id < n
    BY DEF FileInv, SoundDocuments
  <2>2. n \notin DOMAIN documents
    BY <2>1
  <2>3. /\ documents' = [id \in DOMAIN documents \cup {n} |->
                          IF id = n THEN d ELSE documents[id]]
        /\ nextDocument' = n + 1 /\ uploads' = uploads + 1
        /\ UNCHANGED <<pages, savedFile, restarts>>
    BY DEF StoreUpload
  <2> HIDE DEF d
  <2> QED BY <2>1, <2>2, <2>3
<1>3. documents' \in [DOMAIN documents' -> Document]
  BY <1>1 DEF StoreUpload, FileInv, SoundDocuments
<1> HIDE DEF n, d
<1>4. SoundDocuments(documents, nextDocument)'
  <2>1. ASSUME NEW id \in DOMAIN documents'
        PROVE  id \in Nat /\ id < n + 1
    BY <1>2
  <2>2. ASSUME NEW id \in DOMAIN documents', documents'[id].visible
        PROVE  \/ documents'[id].byClient
               \/ documents'[id].chosen \in {"this document", "one of before a restart"}
    <3>1. CASE id = n
      BY <1>1, <1>2, <2>2, <3>1
    <3>2. CASE id # n
      <4>1. id \in DOMAIN documents /\ documents'[id] = documents[id]
        BY <1>2, <3>2
      <4> QED BY <2>2, <4>1 DEF FileInv, SoundDocuments
    <3> QED BY <3>1, <3>2
  <2> QED BY <1>2, <1>3, <2>1, <2>2 DEF SoundDocuments
<1>5. PagesAreOf(documents, nextDocument)'
  BY <1>2 DEF FileInv, PagesAreOf, n
<1>6. /\ restarts' \in Nat /\ uploads' \in Nat /\ nextDocument' \in Nat
      /\ DOMAIN pages' = LegalStaff
      /\ \E k \in Nat : SoundDocuments(savedFile', k)
  <2>1. savedFile' = savedFile /\ pages' = pages /\ restarts' = restarts
    BY <1>2
  <2> QED BY <1>2, <2>1 DEF FileInv
<1> QED BY <1>4, <1>5, <1>6 DEF FileInv

LEMMA ListStep ==
    ASSUME FileInv, NEW actor \in LegalStaff, NEW m \in Matters,
           ListMatterDocuments(actor, m)
    PROVE  FileInv'
<1>1. /\ UNCHANGED <<documents, nextDocument, savedFile, uploads, restarts>>
      /\ DOMAIN pages' = LegalStaff
      /\ pages'[actor].since = restarts
      /\ pages'[actor].shows =
            {[id |-> id, upload |-> documents[id].upload] : id \in OnMatter(m)}
      /\ \A a \in LegalStaff \ {actor} : pages'[a] = pages[a]
  BY DEF ListMatterDocuments, FileInv
<1>2. \A line \in pages'[actor].shows :
         /\ line.id \in DOMAIN documents
         /\ documents[line.id].upload = line.upload
  BY <1>1 DEF OnMatter
<1>3. \A id \in DOMAIN documents : id \in Nat /\ id < nextDocument
  BY DEF FileInv, SoundDocuments
<1>4. PagesAreOf(documents, nextDocument)'
  <2>1. ASSUME NEW a \in LegalStaff, a # actor
        PROVE  pages'[a] = pages[a]
    BY <1>1, <2>1
  <2>2. restarts \in Nat
    BY DEF FileInv
  <2> QED BY <1>1, <1>2, <1>3, <2>1, <2>2 DEF FileInv, PagesAreOf
<1> QED BY <1>1, <1>4 DEF FileInv, SoundDocuments

(* The share of a line of this life's page falls on the document the line  *)
(* is about.                                                               *)
LEMMA VisibilityStep ==
    ASSUME FileInv, NEW actor \in LegalStaff, NEW line \in pages[actor].shows,
           NEW visible \in BOOLEAN, SetClientVisibility(actor, line, visible)
    PROVE  FileInv'
<1> DEFINE id == line.id
           c == Choice(actor, line, visible)
<1>1. /\ id \in DOMAIN documents
      /\ documents' = [documents EXCEPT ![id].visible = visible, ![id].chosen = c]
      /\ UNCHANGED <<nextDocument, pages, savedFile, uploads, restarts>>
  BY DEF SetClientVisibility, OnMatter
<1>2. /\ c \in Chosen
      /\ visible => c \in {"this document", "one of before a restart"}
  BY <1>1 DEF Choice, Chosen, FileInv, PagesAreOf
<1> HIDE DEF id, c
<1>3. /\ DOMAIN documents' = DOMAIN documents
      /\ documents' \in [DOMAIN documents -> Document]
      /\ documents'[id].visible = visible /\ documents'[id].chosen = c
      /\ \A k \in DOMAIN documents : documents'[k].upload = documents[k].upload
      /\ \A k \in DOMAIN documents \ {id} : documents'[k] = documents[k]
  BY <1>1, <1>2 DEF FileInv, SoundDocuments, Document
<1>4. SoundDocuments(documents, nextDocument)'
  BY <1>1, <1>2, <1>3 DEF FileInv, SoundDocuments
<1>5. PagesAreOf(documents, nextDocument)'
  BY <1>1, <1>3 DEF FileInv, PagesAreOf
<1> QED BY <1>1, <1>4, <1>5 DEF FileInv, SoundDocuments

LEMMA DeleteStep ==
    ASSUME FileInv, NEW actor \in LegalStaff, NEW line \in pages[actor].shows,
           DeleteDocument(actor, line)
    PROVE  FileInv'
<1>1. /\ DOMAIN documents' \subseteq DOMAIN documents
      /\ documents' \in [DOMAIN documents' -> Document]
      /\ \A k \in DOMAIN documents' : documents'[k] = documents[k]
      /\ UNCHANGED <<nextDocument, pages, savedFile, uploads, restarts>>
  BY DEF DeleteDocument, Without, FileInv, SoundDocuments
<1>2. SoundDocuments(documents, nextDocument)'
  BY <1>1 DEF FileInv, SoundDocuments
<1>3. PagesAreOf(documents, nextDocument)'
  BY <1>1 DEF FileInv, PagesAreOf
<1> QED BY <1>1, <1>2, <1>3 DEF FileInv, SoundDocuments

\* Largest and Max choose by the same property.
LEMMA MaxBounds ==
    ASSUME NEW S \in SUBSET Nat, NEW k \in Nat, \A n \in S : n < k, S # {}
    PROVE  Max(S) \in Nat /\ \A n \in S : n < Max(S) + 1
<1>1. PICK m \in S : \A n \in S : n <= m
  BY LargestIsIn
<1> DEFINE x == Max(S)
<1>2. x \in S /\ \A n \in S : x >= n
  BY <1>1 DEF Max
<1> HIDE DEF x
<1>3. \A n \in S : n \in Nat /\ n < x + 1
  BY <1>2
<1>4. x \in Nat /\ \A n \in S : n < x + 1
  BY <1>2, <1>3
<1> QED BY <1>4 DEF x

(* Pages of before are of an earlier life of the server from here on.      *)
LEMMA RestartFileStep ==
    ASSUME FileInv, RestartFile
    PROVE  FileInv'
<1>1. /\ documents' = savedFile /\ restarts' = restarts + 1
      /\ nextDocument' = IF DOMAIN savedFile = {} THEN 1 ELSE Max(DOMAIN savedFile) + 1
      /\ UNCHANGED <<pages, savedFile, uploads>>
  BY DEF RestartFile
<1>2. PICK k \in Nat : SoundDocuments(savedFile, k)
  BY DEF FileInv
<1>3. nextDocument' \in Nat /\ \A id \in DOMAIN savedFile : id < nextDocument'
  <2>1. DOMAIN savedFile \in SUBSET Nat /\ \A id \in DOMAIN savedFile : id < k
    BY <1>2 DEF SoundDocuments
  <2>2. CASE DOMAIN savedFile = {}
    BY <1>1, <2>2
  <2>3. CASE DOMAIN savedFile # {}
    <3> DEFINE D == DOMAIN savedFile
    <3> HIDE DEF D
    <3>1. Max(D) \in Nat /\ \A id \in D : id < Max(D) + 1
      BY <2>1, <2>3, MaxBounds DEF D
    <3>2. nextDocument' = Max(D) + 1
      BY <1>1, <2>3 DEF D
    <3> QED BY <3>1, <3>2 DEF D
  <2> QED BY <2>2, <2>3
<1>4. SoundDocuments(documents, nextDocument)'
  BY <1>1, <1>2, <1>3 DEF SoundDocuments
<1>5. PagesAreOf(documents, nextDocument)'
  <2>1. restarts \in Nat /\ \A a \in LegalStaff : pages[a].since \in Nat /\ pages[a].since <= restarts
    BY DEF FileInv, PagesAreOf
  <2>2. pages' = pages /\ restarts' = restarts + 1
    BY <1>1
  <2>3. \A a \in LegalStaff : /\ pages'[a].since \in Nat /\ pages'[a].since <= restarts'
                              /\ pages'[a].since # restarts'
    BY <2>1, <2>2
  <2> QED BY <2>3 DEF PagesAreOf
<1>6. restarts' \in Nat /\ uploads' \in Nat /\ DOMAIN pages' = LegalStaff
  BY <1>1 DEF FileInv
<1>7. \E j \in Nat : SoundDocuments(savedFile', j)
  BY <1>1, <1>2
<1> QED BY <1>3, <1>4, <1>5, <1>6, <1>7 DEF FileInv

LEMMA FileStep == FileInv /\ [FileNext]_fileVars => FileInv'
<1> SUFFICES ASSUME FileInv, [FileNext]_fileVars
             PROVE  FileInv'
  OBVIOUS
<1>1. ASSUME NEW actor \in LegalStaff, NEW m \in Matters,
             Upload(actor, m) \/ ListMatterDocuments(actor, m)
      PROVE  FileInv'
  <2>1. FALSE \in BOOLEAN
    OBVIOUS
  <2> QED BY <1>1, <2>1, StoreUploadStep, ListStep DEF Upload
<1>2. ASSUME NEW actor \in LegalStaff, NEW line \in pages[actor].shows,
             NEW visible \in BOOLEAN, SetClientVisibility(actor, line, visible)
      PROVE  FileInv'
  BY <1>2, VisibilityStep
<1>3. ASSUME NEW actor \in LegalStaff, NEW line \in pages[actor].shows,
             DeleteDocument(actor, line)
      PROVE  FileInv'
  BY <1>3, DeleteStep
<1>4. ASSUME NEW client \in Clients, NEW m \in Matters, UploadDocument(client, m)
      PROVE  FileInv'
  <2>1. TRUE \in BOOLEAN
    OBVIOUS
  <2> QED BY <1>4, <2>1, StoreUploadStep DEF UploadDocument
<1>5. CASE UNCHANGED <<documents, nextDocument, pages, savedFile, uploads, restarts>>
  BY <1>5 DEF FileInv, SoundDocuments, PagesAreOf
<1>6. CASE SaveFile
  <2>1. /\ savedFile' = documents
        /\ UNCHANGED <<documents, nextDocument, pages, uploads, restarts>>
    BY <1>6 DEF SaveFile
  <2>2. \E k \in Nat : SoundDocuments(savedFile', k)
    BY <2>1 DEF FileInv
  <2> QED BY <2>1, <2>2 DEF FileInv, SoundDocuments, PagesAreOf
<1>7. CASE RestartFile
  BY <1>7, RestartFileStep
<1>8. CASE UNCHANGED fileVars
  BY <1>5, <1>8 DEF fileVars
<1> QED
  BY <1>1, <1>2, <1>3, <1>4, <1>5, <1>6, <1>7, <1>8 DEF FileNext

(* What clients see of the staff's documents was chosen to be shown to     *)
(* them, by somebody who had the document itself before them, but for      *)
(* pages of before a restart (core/document-store.ts, review-ui/documents- *)
(* service.ts).                                                            *)
THEOREM ClientsSeeWhatWasShared == FileSpec => []SharedByChoice
<1>1. FileSpec => []FileInv
  BY FileInitHolds, FileStep, PTL DEF FileSpec
<1>2. FileInv => SharedByChoice
  BY DEF FileInv, SoundDocuments, SharedByChoice, PortalDocuments
<1> QED BY <1>1, <1>2, PTL

----------------------------------------------------------------------------
(* Time clock and payroll.  Choosing the least and the largest number.     *)

LEMMA MinIsIn ==
    ASSUME NEW S \in SUBSET Nat, S # {}
    PROVE  Min(S) \in S /\ \A n \in S : Min(S) <= n
<1>1. PICK t \in S : \A n \in S : t <= n
  BY SomeIsLeast
<1> QED BY <1>1 DEF Min

LEMMA MaxIsIn ==
    ASSUME NEW S \in SUBSET Nat, NEW k \in Nat, \A n \in S : n <= k, S # {}
    PROVE  Max(S) \in S
<1> DEFINE T == {k - n : n \in S}
<1>1. \A n \in S : n \in Nat /\ k - n \in Nat
  OBVIOUS
<1>2. T \in SUBSET Nat /\ T # {}
  BY <1>1
<1>3. PICK t \in T : \A y \in T : t <= y
  <2> HIDE DEF T
  <2> QED BY <1>2, SomeIsLeast
<1>4. PICK m \in S : t = k - m
  BY <1>3
<1>5. ASSUME NEW n \in S PROVE m >= n
  <2>1. k - n \in T
    OBVIOUS
  <2>2. t <= k - n
    BY <1>3, <2>1
  <2> QED BY <1>1, <1>4, <2>2
<1>6. m \in S /\ \A n \in S : m >= n
  BY <1>5
<1> QED BY <1>6 DEF Max

----------------------------------------------------------------------------
(* The rate in force.                                                      *)

Known(set, p, date) == {i \in DOMAIN set : set[i].actor = p /\ set[i].from <= date}
Top(set, known) == {i \in known : \A j \in known : set[j].from <= set[i].from}

LEMMA RateOnIsMax ==
    ASSUME NEW set, NEW p, NEW date
    PROVE  RateOn(set, p, date) = IF Known(set, p, date) = {} THEN 0
                                  ELSE Max(Top(set, Known(set, p, date)))
BY Zenon DEF RateOn, Known, Top

(* A day with a rate known on it has one in force, of that person.         *)
LEMMA RateIsThere ==
    ASSUME NEW set \in Seq(Rate), NEW p, NEW date, Known(set, p, date) # {}
    PROVE  RateOn(set, p, date) \in Known(set, p, date)
<1> DEFINE known == Known(set, p, date)
<1>1. PICK last \in WorkDays : \A d \in WorkDays : d <= last
  BY PayrollAssumption
<1>2. /\ known \subseteq 1 .. Len(set) /\ Len(set) \in Nat
      /\ \A i \in known : set[i].from \in WorkDays
  <2>1. /\ DOMAIN set = 1 .. Len(set) /\ Len(set) \in Nat
        /\ \A i \in DOMAIN set : set[i] \in Rate
    OBVIOUS
  <2> QED BY <2>1 DEF Known, Rate
<1> HIDE DEF known
<1> DEFINE T == {last - set[i].from : i \in known}
<1>3. \A i \in known : set[i].from \in Int /\ last \in Int /\ last - set[i].from \in Nat
  <2>1. \A d \in WorkDays : d \in Int
    BY PayrollAssumption, Zenon
  <2>2. \A i \in known : set[i].from \in WorkDays /\ set[i].from <= last
    BY <1>1, <1>2
  <2> QED BY <1>1, <2>1, <2>2
<1>4. T \in SUBSET Nat /\ T # {}
  BY <1>3 DEF known
<1>5. PICK t \in T : \A y \in T : t <= y
  <2> HIDE DEF T
  <2> QED BY <1>4, SomeIsLeast
<1>6. PICK m \in known : t = last - set[m].from
  BY <1>5
<1>7. ASSUME NEW j \in known PROVE set[j].from <= set[m].from
  <2>1. last - set[j].from \in T
    OBVIOUS
  <2>2. t <= last - set[j].from
    BY <1>5, <2>1
  <2> QED BY <1>3, <1>6, <2>2
<1>8. m \in Top(set, known)
  BY <1>7 DEF Top
<1>9. /\ Top(set, known) \in SUBSET Nat /\ Top(set, known) # {}
      /\ \A n \in Top(set, known) : n <= Len(set)
  <2>1. Top(set, known) \subseteq known
    BY DEF Top
  <2>2. \A n \in Top(set, known) : n \in Nat /\ n <= Len(set)
    <3>1. \A n \in 1 .. Len(set) : n \in Nat /\ n <= Len(set)
      BY <1>2
    <3>2. \A n \in Top(set, known) : n \in 1 .. Len(set)
      BY <1>2, <2>1, Zenon
    <3> QED BY <3>1, <3>2
  <2>3. Top(set, known) # {}
    BY <1>8
  <2> QED BY <2>2, <2>3
<1>10. Max(Top(set, known)) \in Top(set, known)
  BY <1>2, <1>9, MaxIsIn
<1>11. RateOn(set, p, date) = Max(Top(set, known))
  BY RateOnIsMax DEF known
<1> QED BY <1>10, <1>11 DEF Top, known

(* A rate set later changes no pay unless it is that person's, in force on *)
(* that day, and no rate in force starts later than it.                    *)
LEMMA PayStays ==
    ASSUME NEW set \in Seq(Rate), NEW r \in Rate, NEW e,
           \/ r.actor # e.actor
           \/ ~(r.from <= e.date)
           \/ \E i \in DOMAIN set : /\ set[i].actor = e.actor /\ set[i].from <= e.date
                                    /\ ~(set[i].from <= r.from)
    PROVE  Pay(Append(set, r), e) = Pay(set, e)
<1> DEFINE new   == Append(set, r)
           known == Known(set, e.actor, e.date)
           next  == Known(new, e.actor, e.date)
           last  == Len(set) + 1
<1>1. /\ DOMAIN set = 1 .. Len(set) /\ Len(set) \in Nat
      /\ DOMAIN new = 1 .. last /\ new[last] = r
      /\ \A i \in DOMAIN set : new[i] = set[i]
  OBVIOUS
<1>2. \A i \in DOMAIN set : set[i].from \in Int
  <2>1. \A i \in DOMAIN set : set[i] \in Rate
    OBVIOUS
  <2> QED BY <2>1, PayrollAssumption DEF Rate
<1>3. r.from \in Int
  BY PayrollAssumption DEF Rate
<1> HIDE DEF new
<1>4. known \subseteq DOMAIN set /\ last \notin known
  BY <1>1 DEF Known
<1>5. next = known \/ next = known \cup {last}
  BY <1>1 DEF Known
<1>6. CASE last \notin next
  <2>1. next = known
    BY <1>4, <1>5, <1>6
  <2>2. Top(new, next) = Top(set, known)
    BY <1>1, <1>4, <2>1 DEF Top
  <2>3. RateOn(new, e.actor, e.date) = RateOn(set, e.actor, e.date)
    BY <2>1, <2>2, RateOnIsMax
  <2>4. RateOn(set, e.actor, e.date) = 0 \/ RateOn(set, e.actor, e.date) \in DOMAIN set
    BY <1>4, RateIsThere, RateOnIsMax
  <2>5. RateOn(set, e.actor, e.date) # 0 =>
           new[RateOn(set, e.actor, e.date)] = set[RateOn(set, e.actor, e.date)]
    BY <1>1, <2>4
  <2> QED BY <2>3, <2>5 DEF Pay, new
<1>7. CASE last \in next
  <2>1. r.actor = e.actor /\ r.from <= e.date
    BY <1>1, <1>7 DEF Known
  <2>2. PICK i \in known : ~(set[i].from <= r.from)
    BY <2>1 DEF Known
  <2>3. Top(new, next) = Top(set, known)
    <3>1. next = known \cup {last}
      BY <1>5, <1>7
    <3>2. \A k \in next : ~(k = last /\ k \in Top(new, next))
      BY <1>1, <1>4, <2>2, <3>1 DEF Top
    <3>3. \A k \in known : set[i].from <= set[k].from => r.from <= set[k].from
      BY <1>2, <1>3, <1>4, <2>2
    <3> QED BY <1>1, <1>4, <2>2, <3>1, <3>2, <3>3 DEF Top
  <2>4. RateOn(new, e.actor, e.date) = RateOn(set, e.actor, e.date)
    BY <1>7, <2>2, <2>3, RateOnIsMax
  <2>5. RateOn(set, e.actor, e.date) \in DOMAIN set
    BY <1>4, <2>2, RateIsThere
  <2>6. new[RateOn(set, e.actor, e.date)] = set[RateOn(set, e.actor, e.date)]
    BY <1>1, <2>5
  <2> QED BY <2>4, <2>6 DEF Pay, new
<1> QED BY <1>6, <1>7

----------------------------------------------------------------------------
(* The shifts.                                                             *)

(* Punched times are in the past, and a posted shift is closed and the     *)
(* only one of its entry.                                                  *)
ShiftsSound ==
    /\ \A i \in DOMAIN shifts :
          /\ ~shifts[i].corrected =>
                shifts[i].in <= now /\ (IsOpen(shifts[i]) \/ shifts[i].out <= now)
          /\ shifts[i].posted # NoEntry =>
                ~IsOpen(shifts[i]) /\ shifts[i].posted < nextPayId
    /\ \A i, j \in DOMAIN shifts :
          shifts[i].posted = shifts[j].posted /\ shifts[i].posted # NoEntry => i = j

TimeInv == TimeTypeOK /\ ShiftsSound /\ OneOpenShift /\ PunchesDontOverlap /\ PaidOnceAsWorked

LEMMA ShiftFields ==
    ASSUME TimeTypeOK
    PROVE  /\ DOMAIN shifts = 1 .. Len(shifts) /\ Len(shifts) \in Nat
           /\ \A i \in DOMAIN shifts :
                 /\ shifts[i] \in Shift
                 /\ shifts[i].actor \in People /\ shifts[i].in \in Times
                 /\ shifts[i].out \in Times \cup {NoTime}
                 /\ shifts[i].posted \in 0 .. MaxIds /\ shifts[i].corrected \in BOOLEAN
<1>1. /\ DOMAIN shifts = 1 .. Len(shifts) /\ Len(shifts) \in Nat
      /\ \A i \in DOMAIN shifts : shifts[i] \in Shift
  BY DEF TimeTypeOK
<1> QED BY <1>1 DEF Shift

LEMMA TimesAreNumbers ==
    /\ Times \subseteq Nat /\ MaxTime \in Nat /\ NoTime \in Nat /\ NoTime \notin Times
    /\ \A t \in Times : t <= MaxTime
BY TimeClockAssumption DEF Times, NoTime

LEMMA TimeInitHolds == TimeInit => TimeInv
<1> SUFFICES ASSUME TimeInit PROVE TimeInv
  OBVIOUS
<1>1. /\ rates = <<>> /\ worked = <<>> /\ nextPayId = 1 /\ now = 0 /\ shifts = <<>>
  BY DEF TimeInit, PayrollInit
<1>2. TimeTypeOK
  BY <1>1, PayrollAssumption, TimeClockAssumption DEF TimeTypeOK, PayrollTypeOK, Times
<1>3. DOMAIN shifts = {} /\ DOMAIN worked = {}
  BY <1>1
<1> QED
  BY <1>2, <1>3 DEF TimeInv, ShiftsSound, OneOpenShift, PunchesDontOverlap, PaidOnceAsWorked

(* Hours are recorded under an id no entry and no shift has.               *)
LEMMA StoreHoursTypes ==
    ASSUME PayrollTypeOK, NEW p \in People, NEW date \in WorkDays, NEW milli \in Int,
           NEW clocked \in BOOLEAN, StoreHours(p, date, milli, clocked)
    PROVE  /\ PayrollTypeOK' /\ rates' = rates
           /\ nextPayId \in 1 .. MaxIds /\ nextPayId' = nextPayId + 1
           /\ nextPayId \notin DOMAIN worked
           /\ DOMAIN worked' = DOMAIN worked \cup {nextPayId}
           /\ worked'[nextPayId] = [actor |-> p, date |-> date, milli |-> milli,
                                    clocked |-> clocked]
           /\ \A id \in DOMAIN worked : worked'[id] = worked[id]
<1>1. /\ nextPayId \in 1 .. MaxIds /\ nextPayId' = nextPayId + 1 /\ rates' = rates
      /\ nextPayId \notin DOMAIN worked /\ milli > 0
      /\ DOMAIN worked' = DOMAIN worked \cup {nextPayId}
      /\ worked'[nextPayId] = [actor |-> p, date |-> date, milli |-> milli,
                               clocked |-> clocked]
      /\ \A id \in DOMAIN worked : worked'[id] = worked[id]
  BY PayrollAssumption DEF PayrollTypeOK, StoreHours
<1>2. PayrollTypeOK'
  BY <1>1, PayrollAssumption DEF PayrollTypeOK, Worked
<1> QED BY <1>1, <1>2

LEMMA PayrollStep ==
    ASSUME PayrollTypeOK, PayrollNext
    PROVE  /\ PayrollTypeOK' /\ nextPayId <= nextPayId' /\ nextPayId \in Nat
           /\ \A id \in DOMAIN worked' :
                 \/ id \in DOMAIN worked /\ worked'[id] = worked[id]
                 \/ ~worked'[id].clocked
<1>1. PICK actor \in Users, p \in Payees :
         \/ \E cents \in RateCents, from \in WorkDays : SetRate(actor, p, cents, from)
         \/ \E date \in WorkDays, milli \in HandHours : RecordHours(actor, p, date, milli)
         \/ \E id \in DOMAIN worked : DeleteHours(actor, p, id)
  BY DEF PayrollNext
<1>2. p \in People /\ nextPayId \in Nat
  BY PayrollAssumption DEF PayrollTypeOK
<1>3. ASSUME NEW cents \in RateCents, NEW from \in WorkDays, SetRate(actor, p, cents, from)
      PROVE  PayrollTypeOK' /\ nextPayId <= nextPayId' /\ worked' = worked
  BY <1>2, <1>3, PayrollAssumption DEF PayrollTypeOK, SetRate, Rate
<1>4. ASSUME NEW date \in WorkDays, NEW milli \in HandHours, RecordHours(actor, p, date, milli)
      PROVE  /\ PayrollTypeOK' /\ nextPayId <= nextPayId'
             /\ \A id \in DOMAIN worked' :
                   \/ id \in DOMAIN worked /\ worked'[id] = worked[id]
                   \/ ~worked'[id].clocked
  <2>1. StoreHours(p, date, milli, FALSE) /\ milli \in Int
    BY <1>4, PayrollAssumption DEF RecordHours
  <2>2. /\ PayrollTypeOK' /\ nextPayId' = nextPayId + 1
        /\ DOMAIN worked' = DOMAIN worked \cup {nextPayId}
        /\ worked'[nextPayId] = [actor |-> p, date |-> date, milli |-> milli,
                                 clocked |-> FALSE]
        /\ \A id \in DOMAIN worked : worked'[id] = worked[id]
    BY <1>2, <2>1, StoreHoursTypes
  <2> QED BY <1>2, <2>2
<1>5. ASSUME NEW id \in DOMAIN worked, DeleteHours(actor, p, id)
      PROVE  /\ PayrollTypeOK' /\ nextPayId = nextPayId'
             /\ \A x \in DOMAIN worked' : x \in DOMAIN worked /\ worked'[x] = worked[x]
  BY <1>5 DEF PayrollTypeOK, DeleteHours
<1> QED BY <1>1, <1>2, <1>3, <1>4, <1>5

(* What a step of payroll leaves of the shifts' entries is theirs still.   *)
LEMMA PayrollAloneStep ==
    ASSUME TimeInv, PayrollNext, UNCHANGED <<now, shifts>>
    PROVE  TimeInv'
<1>1. /\ PayrollTypeOK' /\ nextPayId <= nextPayId' /\ nextPayId \in Nat /\ nextPayId' \in Nat
      /\ \A id \in DOMAIN worked' :
            \/ id \in DOMAIN worked /\ worked'[id] = worked[id]
            \/ ~worked'[id].clocked
  BY PayrollStep, PayrollAssumption DEF TimeInv, TimeTypeOK, PayrollTypeOK
<1>2. /\ shifts' = shifts /\ now' = now
      /\ \A i \in DOMAIN shifts : shifts[i].posted \in Nat
  BY ShiftFields, PayrollAssumption DEF TimeInv
<1>3. TimeTypeOK'
  BY <1>1, <1>2 DEF TimeInv, TimeTypeOK
<1>4. ShiftsSound'
  BY <1>1, <1>2 DEF TimeInv, ShiftsSound
<1>5. OneOpenShift' /\ PunchesDontOverlap'
  BY <1>2 DEF TimeInv, OneOpenShift, PunchesDontOverlap
<1>6. PaidOnceAsWorked'
  BY <1>1, <1>2 DEF TimeInv, PaidOnceAsWorked
<1> QED BY <1>3, <1>4, <1>5, <1>6 DEF TimeInv

(* A shift that is not posted may change; the entries do not know of it.   *)
LEMMA EntriesStay ==
    ASSUME TimeInv, UNCHANGED payrollVars, DOMAIN shifts \subseteq DOMAIN shifts',
           \A j \in DOMAIN shifts : shifts[j].posted # NoEntry => shifts'[j] = shifts[j],
           \A j \in DOMAIN shifts : shifts[j].posted = NoEntry => shifts'[j].posted = NoEntry,
           \A j \in DOMAIN shifts' \ DOMAIN shifts : shifts'[j].posted = NoEntry
    PROVE  PaidOnceAsWorked'
<1> SUFFICES ASSUME NEW id \in DOMAIN worked, worked[id].clocked
             PROVE  \E i \in DOMAIN shifts' :
                       /\ {j \in DOMAIN shifts' : shifts'[j].posted = id} = {i}
                       /\ worked[id] = [actor |-> shifts'[i].actor, date |-> Day(shifts'[i].in),
                                        milli |-> HoursMilli(shifts'[i]), clocked |-> TRUE]
  BY DEF PaidOnceAsWorked, payrollVars
<1>1. PICK i \in DOMAIN shifts :
         /\ {j \in DOMAIN shifts : shifts[j].posted = id} = {i}
         /\ worked[id] = [actor |-> shifts[i].actor, date |-> Day(shifts[i].in),
                          milli |-> HoursMilli(shifts[i]), clocked |-> TRUE]
  BY DEF TimeInv, PaidOnceAsWorked
<1>2. id # NoEntry
  BY DEF TimeInv, TimeTypeOK, PayrollTypeOK, NoEntry
<1>3. shifts[i].posted = id /\ shifts'[i] = shifts[i]
  BY <1>1, <1>2
<1>4. {j \in DOMAIN shifts' : shifts'[j].posted = id} = {i}
  BY <1>1, <1>2, <1>3
<1> QED BY <1>1, <1>3, <1>4

LEMMA ClockInStep ==
    ASSUME TimeInv, NEW p \in People, ClockIn(p)
    PROVE  TimeInv'
<1> DEFINE s == [actor |-> p, in |-> now, out |-> NoTime, posted |-> NoEntry,
                 corrected |-> FALSE]
           n == Len(shifts) + 1
<1>1. /\ TimeTypeOK /\ ShiftsSound /\ OneOpenShift /\ PunchesDontOverlap /\ PaidOnceAsWorked
      /\ shifts' = Append(shifts, s) /\ OpenShift(p) = {}
      /\ now' = now /\ rates' = rates /\ worked' = worked /\ nextPayId' = nextPayId
  BY DEF TimeInv, ClockIn, payrollVars
<1>2. s \in Shift
  BY <1>1, PayrollAssumption DEF TimeTypeOK, Shift, NoEntry
<1> HIDE DEF s
<1>3. /\ DOMAIN shifts = 1 .. Len(shifts) /\ DOMAIN shifts' = 1 .. n /\ Len(shifts) \in Nat
      /\ shifts' \in Seq(Shift) /\ shifts'[n] = s
      /\ \A i \in DOMAIN shifts : shifts'[i] = shifts[i]
  BY <1>1, <1>2 DEF TimeTypeOK
<1>4. /\ s.actor = p /\ s.in = now /\ s.out = NoTime /\ s.posted = NoEntry /\ IsOpen(s)
  BY DEF s, IsOpen
<1>5. \A i \in DOMAIN shifts : shifts[i].actor = p => ~IsOpen(shifts[i])
  BY <1>1 DEF OpenShift
<1> HIDE DEF n
<1>6. DOMAIN shifts' = DOMAIN shifts \cup {n} /\ n \notin DOMAIN shifts
      /\ \A i \in DOMAIN shifts : i < n
  BY <1>3 DEF n
<1>7. TimeTypeOK'
  BY <1>1, <1>3 DEF TimeTypeOK, PayrollTypeOK
<1>8. ShiftsSound'
  <2>1. now \in Nat
    BY <1>1, TimesAreNumbers DEF TimeTypeOK
  <2> QED BY <1>1, <1>3, <1>4, <1>6, <2>1 DEF ShiftsSound
<1>9. OneOpenShift'
  BY <1>1, <1>3, <1>4, <1>5, <1>6 DEF OneOpenShift
<1>10. PunchesDontOverlap'
  <2>1. \A i \in DOMAIN shifts :
           shifts[i].actor = p /\ ~shifts[i].corrected => shifts[i].out <= now
    BY <1>1, <1>5 DEF ShiftsSound
  <2>2. \A i, j \in DOMAIN shifts' : i < j => i \in DOMAIN shifts
    BY <1>3, <1>6 DEF n
  <2> QED BY <1>1, <1>3, <1>4, <1>6, <2>1, <2>2 DEF PunchesDontOverlap
<1>11. PaidOnceAsWorked'
  BY <1>1, <1>3, <1>4, <1>6, EntriesStay DEF payrollVars, TimeInv
<1> QED BY <1>7, <1>8, <1>9, <1>10, <1>11 DEF TimeInv

(* One shift changes its times, and what it is paid for does not.          *)
LEMMA ShiftChanges ==
    ASSUME TimeInv, UNCHANGED <<payrollVars, now>>, NEW k \in DOMAIN shifts, NEW t \in Shift,
           shifts' = [shifts EXCEPT ![k] = t], shifts[k].posted = NoEntry, t.posted = NoEntry,
           t.actor = shifts[k].actor, IsOpen(t) => IsOpen(shifts[k]),
           t.corrected \/ /\ ~shifts[k].corrected /\ IsOpen(shifts[k]) /\ t.in = shifts[k].in
                          /\ t.out = now
    PROVE  TimeInv'
<1>1. /\ TimeTypeOK /\ ShiftsSound /\ OneOpenShift /\ PunchesDontOverlap
      /\ now' = now /\ rates' = rates /\ worked' = worked /\ nextPayId' = nextPayId
  BY DEF TimeInv, payrollVars
<1>2. /\ DOMAIN shifts' = DOMAIN shifts /\ shifts' \in Seq(Shift) /\ shifts'[k] = t
      /\ \A i \in DOMAIN shifts \ {k} : shifts'[i] = shifts[i]
  BY <1>1 DEF TimeTypeOK
<1>3. TimeTypeOK'
  BY <1>1, <1>2 DEF TimeTypeOK, PayrollTypeOK
<1>4. ShiftsSound'
  <2>1. now \in Nat
    BY <1>1, TimesAreNumbers DEF TimeTypeOK
  <2> QED BY <1>1, <1>2, <2>1 DEF ShiftsSound
<1>5. OneOpenShift'
  BY <1>1, <1>2 DEF OneOpenShift
<1>6. PunchesDontOverlap'
  <2> SUFFICES ASSUME NEW i \in DOMAIN shifts, NEW j \in DOMAIN shifts,
                      i < j, shifts'[i].actor = shifts'[j].actor,
                      ~shifts'[i].corrected, ~shifts'[j].corrected
               PROVE  shifts'[i].out <= shifts'[j].in
    BY <1>2 DEF PunchesDontOverlap
  <2>1. CASE i # k /\ j # k
    BY <1>1, <1>2, <2>1 DEF PunchesDontOverlap
  <2>2. CASE j = k
    BY <1>1, <1>2, <2>2, ShiftFields DEF PunchesDontOverlap
  <2>3. CASE i = k
    <3>1. shifts[k].out = NoTime /\ shifts[k].out <= shifts[j].in
      <4>1. j # k
        BY <1>1, <2>3, ShiftFields
      <4> QED BY <1>1, <1>2, <2>3, <4>1 DEF PunchesDontOverlap, IsOpen
    <3>2. shifts[j].in \in Times
      BY <1>1, ShiftFields
    <3> QED BY <3>1, <3>2, TimesAreNumbers DEF NoTime
  <2> QED BY <2>1, <2>2, <2>3
<1>7. PaidOnceAsWorked'
  BY <1>2, EntriesStay
<1> QED BY <1>3, <1>4, <1>5, <1>6, <1>7 DEF TimeInv

LEMMA ClockOutStep ==
    ASSUME TimeInv, NEW p \in People, ClockOut(p)
    PROVE  TimeInv'
<1> DEFINE k == Min(OpenShift(p))
           t == [shifts[k] EXCEPT !.out = now]
<1>1. k \in DOMAIN shifts /\ IsOpen(shifts[k])
  <2>1. OpenShift(p) \in SUBSET Nat /\ OpenShift(p) # {}
    BY ShiftFields DEF OpenShift, ClockOut, TimeInv
  <2>2. k \in OpenShift(p)
    BY <2>1, MinIsIn
  <2> QED BY <2>2 DEF OpenShift
<1>2. /\ shifts' = [shifts EXCEPT ![k] = t] /\ UNCHANGED <<payrollVars, now>>
  BY DEF ClockOut
<1> HIDE DEF k
<1>3. shifts[k] \in Shift /\ now \in Times /\ shifts[k].corrected \in BOOLEAN
  BY <1>1, ShiftFields DEF TimeInv, TimeTypeOK
<1>4. /\ t \in Shift /\ t.actor = shifts[k].actor /\ t.in = shifts[k].in /\ t.out = now
      /\ t.posted = shifts[k].posted /\ t.corrected = shifts[k].corrected
  BY <1>3 DEF Shift
<1>5. shifts[k].posted = NoEntry
  BY <1>1 DEF TimeInv, ShiftsSound
<1> HIDE DEF t
<1> QED BY <1>1, <1>2, <1>3, <1>4, <1>5, ShiftChanges

LEMMA AdjustStep ==
    ASSUME TimeInv, NEW actor \in Users, NEW i \in DOMAIN shifts,
           NEW in \in TypedTimes \cup {Unsent}, NEW out \in TypedTimes \cup {Unsent},
           Adjust(actor, i, in, out)
    PROVE  TimeInv'
<1> DEFINE s == shifts[i]
           t == [s EXCEPT !.in = NextIn(s, in), !.out = NextOut(s, out), !.corrected = TRUE]
<1>1. /\ s \in Shift /\ s.in \in Times /\ s.out \in Times \cup {NoTime}
  BY ShiftFields DEF TimeInv
<1>2. /\ NextIn(s, in) \in Times /\ NextOut(s, out) \in Times \cup {NoTime}
      /\ NextOut(s, out) = NoTime => s.out = NoTime
  <2> HIDE DEF s
  <2> QED BY <1>1, TimeClockAssumption, TimesAreNumbers DEF NextIn, NextOut
<1>3. /\ s.posted = NoEntry /\ shifts' = [shifts EXCEPT ![i] = t]
      /\ UNCHANGED <<payrollVars, now>>
  BY ShiftFields DEF Adjust, TimeInv
<1> HIDE DEF s
<1>4. /\ t \in Shift /\ t.actor = s.actor /\ t.posted = s.posted /\ t.corrected
      /\ t.out = NextOut(s, out)
  BY <1>1, <1>2 DEF Shift
<1>5. IsOpen(t) => IsOpen(s)
  BY <1>2, <1>4 DEF IsOpen
<1> HIDE DEF t
<1> QED BY <1>3, <1>4, <1>5, ShiftChanges DEF s

(* The hours of a shift go on record as they are worked out, and the shift *)
(* is marked with the entry nothing had before.                            *)
LEMMA PostShiftStep ==
    ASSUME TimeInv, NEW actor \in Users, NEW i \in DOMAIN shifts, PostToPayroll(actor, i)
    PROVE  TimeInv'
<1> DEFINE s == shifts[i]
           id == nextPayId
           t == [s EXCEPT !.posted = id]
<1>1. /\ TimeTypeOK /\ ShiftsSound /\ OneOpenShift /\ PunchesDontOverlap /\ PaidOnceAsWorked
      /\ s \in Shift /\ s.actor \in People /\ s.in \in Times /\ s.out \in Times
      /\ s.posted = NoEntry /\ ~IsOpen(s) /\ now' = now
      /\ shifts' = [shifts EXCEPT ![i] = t]
      /\ StoreHours(s.actor, Day(s.in), HoursMilli(s), TRUE)
  BY ShiftFields DEF TimeInv, PostToPayroll, MayPost, IsOpen
<1>2. Day(s.in) \in WorkDays /\ HoursMilli(s) \in Int
  <2>1. s.out - s.in \in Int /\ TicksPerMilli \in Nat \ {0}
    BY <1>1, TimesAreNumbers, TimeClockAssumption
  <2> QED BY <1>1, <2>1, TimeClockAssumption DEF HoursMilli, Rounded
<1>3. PayrollTypeOK
  BY <1>1 DEF TimeTypeOK
<1> HIDE DEF s
<1>4. /\ PayrollTypeOK' /\ id \in 1 .. MaxIds /\ nextPayId' = id + 1 /\ id \notin DOMAIN worked
      /\ DOMAIN worked' = DOMAIN worked \cup {id}
      /\ worked'[id] = [actor |-> s.actor, date |-> Day(s.in), milli |-> HoursMilli(s),
                        clocked |-> TRUE]
      /\ \A x \in DOMAIN worked : worked'[x] = worked[x]
  BY <1>1, <1>2, <1>3, StoreHoursTypes
<1>5. /\ t \in Shift /\ t.actor = s.actor /\ t.in = s.in /\ t.out = s.out
      /\ t.posted = id /\ t.corrected = s.corrected
  BY <1>1, <1>4 DEF Shift
<1>6. HoursMilli(t) = HoursMilli(s) /\ ~IsOpen(t)
  BY <1>1, <1>5 DEF HoursMilli, IsOpen
<1> HIDE DEF t
<1>7. /\ DOMAIN shifts' = DOMAIN shifts /\ shifts' \in Seq(Shift) /\ shifts'[i] = t
      /\ \A j \in DOMAIN shifts \ {i} : shifts'[j] = shifts[j]
  BY <1>1, <1>5 DEF TimeTypeOK
<1>8. \A j \in DOMAIN shifts :
         /\ shifts[j].posted # id
         /\ shifts[j].posted # NoEntry => shifts[j].posted < id
  <2>1. \A j \in DOMAIN shifts : shifts[j].posted # NoEntry => shifts[j].posted < id
    BY <1>1 DEF ShiftsSound
  <2>2. \A j \in DOMAIN shifts : shifts[j].posted \in Nat
    BY <1>1, ShiftFields, PayrollAssumption
  <2> QED BY <1>4, <2>1, <2>2 DEF NoEntry
<1>9. /\ shifts'[i].posted = id
       /\ \A j \in DOMAIN shifts \ {i} :
             shifts'[j].posted = shifts[j].posted /\ shifts'[j].posted # id
  BY <1>5, <1>7, <1>8
<1>10. TimeTypeOK'
  BY <1>1, <1>4, <1>7 DEF TimeTypeOK
<1>11. ShiftsSound'
  <2>1. \A j \in DOMAIN shifts : shifts[j].posted # NoEntry => shifts[j].posted < id + 1
    <3>1. \A j \in DOMAIN shifts : shifts[j].posted \in Nat
      BY <1>1, ShiftFields, PayrollAssumption
    <3> QED BY <1>4, <1>8, <3>1
  <2>2. id < id + 1 /\ id # NoEntry
    BY <1>4 DEF NoEntry
  <2>3. ~s.corrected => s.in <= now /\ s.out <= now
    BY <1>1 DEF ShiftsSound, s
  <2>4. \A j \in DOMAIN shifts : ~shifts[j].corrected =>
           shifts[j].in <= now /\ (IsOpen(shifts[j]) \/ shifts[j].out <= now)
    BY <1>1 DEF ShiftsSound
  <2>5. \A j \in DOMAIN shifts : shifts[j].posted # NoEntry => ~IsOpen(shifts[j])
    BY <1>1 DEF ShiftsSound
  <2>6. \A j, k \in DOMAIN shifts :
           shifts[j].posted = shifts[k].posted /\ shifts[j].posted # NoEntry => j = k
    BY <1>1 DEF ShiftsSound
  <2>7. \A j, k \in DOMAIN shifts :
           shifts'[j].posted = shifts'[k].posted /\ shifts'[j].posted # NoEntry => j = k
    <3> HIDE DEF id
    <3> QED BY <1>9, <2>6
  <2>8. \A j \in DOMAIN shifts :
          /\ ~shifts'[j].corrected =>
                shifts'[j].in <= now /\ (IsOpen(shifts'[j]) \/ shifts'[j].out <= now)
          /\ shifts'[j].posted # NoEntry =>
                ~IsOpen(shifts'[j]) /\ shifts'[j].posted < id + 1
    BY <1>5, <1>6, <1>7, <2>1, <2>2, <2>3, <2>4, <2>5
  <2> QED BY <1>1, <1>4, <1>7, <2>7, <2>8 DEF ShiftsSound
<1>12. OneOpenShift'
  BY <1>1, <1>6, <1>7 DEF OneOpenShift
<1>13. PunchesDontOverlap'
  <2>1. \A j \in DOMAIN shifts :
           /\ shifts'[j].actor = shifts[j].actor /\ shifts'[j].corrected = shifts[j].corrected
           /\ shifts'[j].in = shifts[j].in /\ shifts'[j].out = shifts[j].out
    BY <1>5, <1>7 DEF s
  <2> QED BY <1>1, <1>7, <2>1 DEF PunchesDontOverlap
<1>14. PaidOnceAsWorked'
  <2> SUFFICES ASSUME NEW x \in DOMAIN worked', worked'[x].clocked
               PROVE  \E k \in DOMAIN shifts' :
                         /\ {j \in DOMAIN shifts' : shifts'[j].posted = x} = {k}
                         /\ worked'[x] = [actor |-> shifts'[k].actor,
                                          date |-> Day(shifts'[k].in),
                                          milli |-> HoursMilli(shifts'[k]), clocked |-> TRUE]
    BY DEF PaidOnceAsWorked
  <2>1. CASE x = id
    <3>1. {j \in DOMAIN shifts' : shifts'[j].posted = id} = {i}
      BY <1>7, <1>9
    <3> QED BY <1>4, <1>5, <1>6, <1>7, <2>1, <3>1
  <2>2. CASE x # id
    <3>1. x \in DOMAIN worked /\ worked'[x] = worked[x] /\ x # NoEntry
      BY <1>3, <1>4, <2>2 DEF PayrollTypeOK, NoEntry
    <3>2. PICK k \in DOMAIN shifts :
             /\ {j \in DOMAIN shifts : shifts[j].posted = x} = {k}
             /\ worked[x] = [actor |-> shifts[k].actor, date |-> Day(shifts[k].in),
                             milli |-> HoursMilli(shifts[k]), clocked |-> TRUE]
      BY <1>1, <3>1 DEF PaidOnceAsWorked
    <3>3. k # i /\ shifts[k].posted = x
      BY <1>1, <3>1, <3>2 DEF s
    <3>4. {j \in DOMAIN shifts' : shifts'[j].posted = x} = {k}
      BY <1>5, <1>7, <2>2, <3>2, <3>3
    <3> QED BY <1>7, <3>1, <3>2, <3>3, <3>4
  <2> QED BY <2>1, <2>2
<1> QED BY <1>10, <1>11, <1>12, <1>13, <1>14 DEF TimeInv

LEMMA TickStep == TimeInv /\ Tick => TimeInv'
<1> SUFFICES ASSUME TimeInv, Tick PROVE TimeInv'
  OBVIOUS
<1>1. /\ now \in Nat /\ now' = now + 1 /\ now' \in Times /\ shifts' = shifts
      /\ rates' = rates /\ worked' = worked /\ nextPayId' = nextPayId
  BY TimeClockAssumption DEF TimeInv, TimeTypeOK, Tick, Times, payrollVars
<1>2. TimeTypeOK'
  BY <1>1 DEF TimeInv, TimeTypeOK, PayrollTypeOK
<1>3. ShiftsSound'
  <2>1. \A i \in DOMAIN shifts : shifts[i].in \in Nat /\ shifts[i].out \in Nat
    BY ShiftFields, TimesAreNumbers DEF TimeInv
  <2> QED BY <1>1, <2>1 DEF TimeInv, ShiftsSound
<1>4. OneOpenShift' /\ PunchesDontOverlap' /\ PaidOnceAsWorked'
  BY <1>1 DEF TimeInv, OneOpenShift, PunchesDontOverlap, PaidOnceAsWorked
<1> QED BY <1>2, <1>3, <1>4 DEF TimeInv

LEMMA TimeStep == TimeInv /\ [TimeNext]_timeVars => TimeInv'
<1> SUFFICES ASSUME TimeInv, [TimeNext]_timeVars PROVE TimeInv'
  OBVIOUS
<1>1. CASE UNCHANGED timeVars
  <2>1. UNCHANGED <<rates, worked, nextPayId, now, shifts>>
    BY <1>1 DEF timeVars, payrollVars
  <2> QED BY <2>1 DEF TimeInv, TimeTypeOK, PayrollTypeOK, ShiftsSound, OneOpenShift,
                      PunchesDontOverlap, PaidOnceAsWorked
<1>2. CASE PayrollNext /\ UNCHANGED <<now, shifts>>
  BY <1>2, PayrollAloneStep
<1> QED BY <1>1, <1>2, ClockInStep, ClockOutStep, AdjustStep, PostShiftStep, TickStep DEF TimeNext

LEMMA TimeInvHolds == TimeSpec => []TimeInv
BY TimeInitHolds, TimeStep, PTL DEF TimeSpec

----------------------------------------------------------------------------
(* Every rate, entry and shift is what the code takes it for, and ids stay *)
(* below the counter, through any requests (core/time-clock.ts,            *)
(* core/payroll.ts).                                                       *)
THEOREM TimeClockTypes == TimeSpec => []TimeTypeOK
BY TimeInvHolds, PTL DEF TimeInv

(* Nobody is on the clock twice, whatever is punched and corrected, by     *)
(* whom and in whatever order (core/time-clock.ts clockIn, adjust).        *)
THEOREM OnTheClockOnce == TimeSpec => []OneOpenShift
BY TimeInvHolds, PTL DEF TimeInv

(* Shifts as they were punched never overlap: clocking in waits for the    *)
(* person's last shift to be closed, and no clock runs backwards.          *)
THEOREM PunchesApart == TimeSpec => []PunchesDontOverlap
BY TimeInvHolds, PTL DEF TimeInv

(* An entry that came from the clock is of one shift, and says of it what  *)
(* the shift says, whatever is posted, corrected and deleted meanwhile.    *)
THEOREM PaidAsWorked == TimeSpec => []PaidOnceAsWorked
BY TimeInvHolds, PTL DEF TimeInv

(* What an entry earns changes only when its person is set a rate in force *)
(* by its day, and not under a rate that took effect later.                *)
LEMMA RaiseStep ==
    ASSUME TimeInv, [TimeNext]_timeVars, NEW id \in DOMAIN worked \cap DOMAIN worked',
           Pay(rates', worked'[id]) # Pay(rates, worked[id])
    PROVE  /\ Len(rates') = Len(rates) + 1
           /\ Last(rates').actor = worked[id].actor
           /\ Last(rates').from <= worked[id].date
           /\ \A i \in DOMAIN rates :
                 rates[i].actor = worked[id].actor /\ rates[i].from <= worked[id].date
                    => rates[i].from <= Last(rates').from
<1>1. PayrollTypeOK
  BY DEF TimeInv, TimeTypeOK
<1>2. ASSUME NEW p, NEW date, NEW milli, NEW clocked, StoreHours(p, date, milli, clocked)
      PROVE  rates' = rates /\ worked'[id] = worked[id]
  BY <1>1, <1>2, PayrollAssumption DEF StoreHours, PayrollTypeOK
<1>3. ASSUME NEW actor, NEW p, NEW x, DeleteHours(actor, p, x)
      PROVE  rates' = rates /\ worked'[id] = worked[id]
  BY <1>3 DEF DeleteHours
<1>4. PICK actor \in Users, p \in Payees, cents \in RateCents, from \in WorkDays :
         SetRate(actor, p, cents, from)
  <2>1. ~(rates' = rates /\ worked'[id] = worked[id])
    OBVIOUS
  <2>2. ~UNCHANGED payrollVars
    BY <2>1 DEF payrollVars
  <2>3. \A q \in Users, i \in DOMAIN shifts : ~PostToPayroll(q, i)
    BY <1>2, <2>1 DEF PostToPayroll
  <2>4. PayrollNext
    BY <2>2, <2>3 DEF TimeNext, timeVars, ClockIn, ClockOut, Adjust, Tick
  <2> QED BY <1>2, <1>3, <2>1, <2>4 DEF PayrollNext, RecordHours
<1> DEFINE r == [actor |-> p, cents |-> cents, from |-> from]
<1>5. r \in Rate /\ rates \in Seq(Rate)
  BY <1>1, PayrollAssumption DEF Rate, PayrollTypeOK
<1>6. rates' = Append(rates, r) /\ worked' = worked
  BY <1>4 DEF SetRate
<1> HIDE DEF r
<1>7. Len(rates') = Len(rates) + 1 /\ Last(rates') = r
  BY <1>5, <1>6 DEF Last
<1>8. Pay(Append(rates, r), worked[id]) # Pay(rates, worked[id])
  BY <1>6
<1>9. /\ r.actor = worked[id].actor /\ r.from <= worked[id].date
      /\ \A i \in DOMAIN rates :
            rates[i].actor = worked[id].actor /\ rates[i].from <= worked[id].date
               => rates[i].from <= r.from
  BY <1>5, <1>8, PayStays
<1> QED BY <1>7, <1>9

(* A rate changes what work of its own days earns, those no later rate has *)
(* taken over, for any rates set in any order; dated back, it changes past *)
(* pay (core/payroll.ts setRate, rateOn).                                  *)
THEOREM RatesApplyFromTheirDate == TimeSpec => RateAppliesFromItsDate
<1>1. TimeInv /\ [TimeNext]_timeVars =>
         [\A id \in DOMAIN worked \cap DOMAIN worked' :
            Pay(rates', worked'[id]) # Pay(rates, worked[id]) =>
               /\ Len(rates') = Len(rates) + 1
               /\ Last(rates').actor = worked[id].actor
               /\ Last(rates').from <= worked[id].date
               /\ \A i \in DOMAIN rates :
                     rates[i].actor = worked[id].actor /\ rates[i].from <= worked[id].date
                        => rates[i].from <= Last(rates').from]_timeVars
  BY RaiseStep
<1> QED BY <1>1, TimeInvHolds, PTL DEF TimeSpec, RateAppliesFromItsDate

----------------------------------------------------------------------------
(* The digests of deadlines.                                               *)

Digest == [to : Addresses, deadlines : SUBSET Deadline]

AlertsTypeOK ==
    /\ calculations \subseteq Calculation /\ IsFiniteSet(calculations)
    /\ today \in 0 .. MaxDay
    /\ responsible \in [DeadlineMatters -> Partners \cup {Unassigned}]
    /\ address \in [Partners -> Addresses \cup {NoAddress}]
    /\ job \in [at : {"idle", "sending", "failed", "done"}, queue : Seq(Digest),
                told : SUBSET Deadline, skipped : SUBSET Deadline]
    /\ listed \subseteq Deadline

(* What was ever listed is on the list now: dates are only added, so the   *)
(* soonest one only comes nearer, as does the day.                         *)
StillListed == listed \subseteq Upcoming

(* A run that has not failed has told of what was listed when it began,    *)
(* skipped it, or has it in a digest it has still to send.                 *)
Queued(queue) == UNION {queue[i].deadlines : i \in DOMAIN queue}

Accounted ==
    /\ job.at \in {"sending", "done"} =>
          listed \subseteq job.told \cup job.skipped \cup Queued(job.queue)
    /\ job.at = "done" => job.queue = <<>>

AlertsInv == AlertsTypeOK /\ StillListed /\ Accounted

LEMMA InitAlertsInv == AlertsInit => AlertsInv
<1> SUFFICES ASSUME AlertsInit PROVE AlertsInv
  OBVIOUS
<1>1. Idle \in [at : {"idle", "sending", "failed", "done"}, queue : Seq(Digest),
                told : SUBSET Deadline, skipped : SUBSET Deadline] /\ Idle.at = "idle"
  BY DEF Idle
<1>2. AlertsTypeOK
  BY <1>1, FS_EmptySet, AlertsAssumption DEF AlertsInit, AlertsTypeOK
<1> QED BY <1>1, <1>2 DEF AlertsInit, AlertsInv, StillListed, Accounted

(* Something is coming due for finitely many deadlines.                    *)
LEMMA UpcomingIsFinite ==
    ASSUME AlertsTypeOK
    PROVE  IsFiniteSet(Upcoming)
<1> DEFINE g == [c \in calculations |-> <<c.matter, c.type>>]
           G == {<<c.matter, c.type>> : c \in calculations}
<1>1. g \in Surjection(calculations, G)
  BY DEF Surjection
<1>2. IsFiniteSet(G)
  <2> HIDE DEF g, G
  <2> QED BY <1>1, FS_Surjection DEF AlertsTypeOK
<1>3. Upcoming \in SUBSET G
  <2> SUFFICES ASSUME NEW d \in Upcoming PROVE d \in G
    OBVIOUS
  <2>1. d \in Deadline /\ DatesOf(d) # {}
    BY DEF Upcoming
  <2>2. PICK c \in CalculationsOf(d[1], d[2]) : TRUE
    BY <2>1 DEF DatesOf
  <2>3. c \in calculations /\ c.matter = d[1] /\ c.type = d[2]
    BY DEF CalculationsOf
  <2>4. d = <<d[1], d[2]>>
    BY <2>1 DEF Deadline
  <2> QED BY <2>3, <2>4
<1> HIDE DEF G
<1> QED BY <1>2, <1>3, FS_Subset

LEMMA SoonestIsIn ==
    ASSUME AlertsTypeOK, NEW d \in Deadline, DatesOf(d) # {}
    PROVE  DatesOf(d) \in SUBSET Nat /\ Soonest(d) \in DatesOf(d)
           /\ \A n \in DatesOf(d) : Soonest(d) <= n
<1>1. DatesOf(d) \in SUBSET Nat
  BY AlertsAssumption DEF AlertsTypeOK, Calculation, DatesOf, CalculationsOf
<1> QED BY <1>1, MinIsIn DEF Soonest

(* What is coming due is still so when dates were added and days passed.   *)
LEMMA StillUpcoming ==
    ASSUME AlertsTypeOK, AlertsTypeOK', calculations \subseteq calculations', today <= today',
           NEW d \in Upcoming
    PROVE  d \in Upcoming'
<1>1. d \in Deadline /\ DatesOf(d) # {} /\ Soonest(d) <= today + WithinDays
  BY DEF Upcoming
<1>2. DatesOf(d) \subseteq DatesOf(d)'
  BY DEF DatesOf, CalculationsOf
<1>3. Soonest(d) \in DatesOf(d) /\ DatesOf(d) \in SUBSET Nat
  BY <1>1, SoonestIsIn
<1>4. DatesOf(d)' # {} /\ DatesOf(d)' \in SUBSET Nat
  <2>1. calculations' \subseteq Calculation
    BY DEF AlertsTypeOK
  <2>2. \A c \in calculations' : c.date \in Nat
    BY <2>1, AlertsAssumption DEF Calculation
  <2>3. DatesOf(d)' \in SUBSET Nat
    BY <2>2 DEF DatesOf, CalculationsOf
  <2> QED BY <1>1, <1>2, <2>3
<1>5. Soonest(d)' \in Nat /\ Soonest(d)' <= Soonest(d)
  BY <1>2, <1>3, <1>4, MinIsIn DEF Soonest
<1>6. today \in Nat /\ today' \in Nat /\ WithinDays \in Nat /\ Soonest(d) \in Nat
  BY <1>3, AlertsAssumption DEF AlertsTypeOK
<1>7. Soonest(d)' <= today' + WithinDays
  BY <1>1, <1>5, <1>6
<1> QED BY <1>1, <1>4, <1>7 DEF Upcoming

(* A sequence of all the elements of a set has them all.                   *)
LEMMA OrderHasAll ==
    ASSUME NEW S, IsFiniteSet(S), NEW order \in SetToSeqs(S)
    PROVE  order \in Seq(S) /\ \A x \in S : \E i \in DOMAIN order : order[i] = x
<1> DEFINE n == Cardinality(S)
<1>1. n \in Nat
  BY FS_CardinalityType
<1>2. order \in [1 .. n -> S] /\ \A i, j \in 1 .. n : i # j => order[i] # order[j]
  BY DEF SetToSeqs
<1> HIDE DEF n
<1>3. order \in Injection(1 .. n, S)
  BY <1>2 DEF Injection, IsInjective
<1>4. Cardinality(1 .. n) = n
  BY <1>1, UpToIsFinite
<1>5. order \in Surjection(1 .. n, S)
  BY <1>3, <1>4, FS_Injection DEF n
<1>6. \A x \in S : \E i \in 1 .. n : order[i] = x
  BY <1>5 DEF Surjection
<1> QED BY <1>1, <1>2, <1>6

(* A run begins: whoever is responsible, each deadline coming due is in    *)
(* the digest of its recipient, or is skipped for want of one.             *)
LEMMA FetchInv ==
    ASSUME AlertsInv, NEW catchAll \in CatchAlls, FetchUpcoming(catchAll)
    PROVE  AlertsInv'
<1> DEFINE to == [d \in Upcoming |-> Recipient(d, catchAll)]
           image == {Recipient(d, catchAll) : d \in Upcoming}
           recipients == image \ {NoAddress}
<1>1. PICK order \in SetToSeqs(recipients) :
         job' = [at |-> "sending", told |-> {}, skipped |-> DigestFor(NoAddress, catchAll),
                 queue |-> [i \in DOMAIN order |->
                              [to |-> order[i], deadlines |-> DigestFor(order[i], catchAll)]]]
  BY DEF FetchUpcoming
<1>2. listed' = listed \cup Upcoming /\ UNCHANGED <<calculations, today, responsible, address>>
  BY DEF FetchUpcoming
<1>3. AlertsTypeOK /\ StillListed
  BY DEF AlertsInv
<1>4. \A d \in Deadline : Recipient(d, catchAll) \in Addresses \cup {NoAddress}
  BY <1>3, AlertsAssumption DEF AlertsTypeOK, Recipient, Deadline
<1>5. Upcoming \subseteq Deadline
  BY DEF Upcoming
<1>6. IsFiniteSet(recipients)
  <2>1. to \in Surjection(Upcoming, image)
    BY DEF Surjection
  <2>2. IsFiniteSet(Upcoming)
    BY <1>3, UpcomingIsFinite
  <2> HIDE DEF to, image
  <2>3. IsFiniteSet(image)
    BY <2>1, <2>2, FS_Surjection
  <2> QED BY <2>3, FS_RemoveElement
<1>7. recipients \subseteq Addresses
  BY <1>4, <1>5
<1>8. \A d \in Upcoming : Recipient(d, catchAll) = NoAddress \/ Recipient(d, catchAll) \in recipients
  OBVIOUS
<1> HIDE DEF to, recipients
<1>9. order \in Seq(recipients) /\ \A x \in recipients : \E i \in DOMAIN order : order[i] = x
  BY <1>6, OrderHasAll
<1> DEFINE queue == [i \in DOMAIN order |->
                        [to |-> order[i], deadlines |-> DigestFor(order[i], catchAll)]]
<1>10. \A a : DigestFor(a, catchAll) \in SUBSET Deadline
  BY <1>5 DEF DigestFor
<1>11. queue \in Seq(Digest)
  <2>1. \A i \in DOMAIN order : order[i] \in Addresses
    BY <1>7, <1>9
  <2>2. \A i \in DOMAIN order : queue[i] \in Digest
    BY <1>10, <2>1 DEF Digest
  <2>3. DOMAIN order = 1 .. Len(order) /\ Len(order) \in Nat
    BY <1>9
  <2>4. queue = [i \in 1 .. Len(order) |-> queue[i]]
    BY <2>3
  <2> HIDE DEF queue
  <2> QED BY <2>2, <2>3, <2>4
<1>12. AlertsTypeOK'
  <2>1. job' \in [at : {"idle", "sending", "failed", "done"}, queue : Seq(Digest),
                  told : SUBSET Deadline, skipped : SUBSET Deadline]
    BY <1>1, <1>10, <1>11
  <2> QED BY <1>2, <1>3, <1>5, <2>1 DEF AlertsTypeOK
<1>13. Upcoming' = Upcoming
  BY <1>2 DEF Upcoming, Soonest, DatesOf, CalculationsOf
<1>14. StillListed'
  BY <1>2, <1>3, <1>13 DEF StillListed
<1>15. Accounted'
  <2>1. job'.at = "sending" /\ job'.queue = queue /\ job'.skipped = DigestFor(NoAddress, catchAll)
    BY <1>1
  <2>2. ASSUME NEW d \in Upcoming
        PROVE  d \in job'.skipped \cup Queued(queue)
    <3>1. CASE Recipient(d, catchAll) = NoAddress
      BY <2>1, <3>1 DEF DigestFor
    <3>2. CASE Recipient(d, catchAll) \in recipients
      <4>1. PICK i \in DOMAIN order : order[i] = Recipient(d, catchAll)
        BY <1>9, <3>2
      <4>2. d \in queue[i].deadlines /\ i \in DOMAIN queue
        BY <4>1 DEF DigestFor
      <4> QED BY <4>2 DEF Queued
    <3> QED BY <1>8, <3>1, <3>2
  <2>3. listed' \subseteq Upcoming
    BY <1>2, <1>3 DEF StillListed
  <2> HIDE DEF queue
  <2> QED BY <2>1, <2>2, <2>3 DEF Accounted
<1> QED BY <1>12, <1>14, <1>15 DEF AlertsInv

(* The first digest is sent: what it had is told now.                      *)
LEMMA SendInv ==
    ASSUME AlertsInv, SendDigest
    PROVE  AlertsInv'
<1> DEFINE q == job.queue
<1>1. /\ AlertsTypeOK /\ StillListed /\ Accounted
      /\ job.at = "sending" /\ q # <<>>
      /\ job' = [job EXCEPT !.queue = Tail(@), !.told = @ \cup Head(q).deadlines]
      /\ UNCHANGED <<calculations, today, responsible, address, listed>>
  BY DEF AlertsInv, SendDigest
<1>2. /\ q \in Seq(Digest) /\ job.told \subseteq Deadline /\ job.skipped \subseteq Deadline
      /\ listed \subseteq job.told \cup job.skipped \cup Queued(q)
  BY <1>1 DEF AlertsTypeOK, Accounted
<1>3. /\ job'.at = "sending" /\ job'.queue = Tail(q) /\ job'.skipped = job.skipped
      /\ job'.told = job.told \cup Head(q).deadlines
  BY <1>1 DEF AlertsTypeOK
<1> HIDE DEF q
<1>4. Head(q) = q[1] /\ Head(q) \in Digest /\ Tail(q) \in Seq(Digest)
      /\ \A i \in DOMAIN q : i = 1 \/ (i - 1 \in DOMAIN Tail(q) /\ Tail(q)[i - 1] = q[i])
  BY <1>1, <1>2
<1>5. Queued(q) \subseteq Head(q).deadlines \cup Queued(Tail(q))
  BY <1>4 DEF Queued
<1>6. job' \in [at : {"idle", "sending", "failed", "done"}, queue : Seq(Digest),
                told : SUBSET Deadline, skipped : SUBSET Deadline]
  <2>1. Head(q).deadlines \subseteq Deadline
    BY <1>4 DEF Digest
  <2>2. job.told \cup Head(q).deadlines \in SUBSET Deadline
    BY <1>2, <2>1
  <2>3. job' = [at |-> "sending", queue |-> Tail(q), told |-> job.told \cup Head(q).deadlines,
                skipped |-> job.skipped]
    BY <1>1, <1>3 DEF AlertsTypeOK
  <2>4. job.skipped \in SUBSET Deadline
    BY <1>2
  <2> QED BY <1>4, <2>2, <2>3, <2>4
<1>7. AlertsTypeOK' /\ StillListed'
  BY <1>1, <1>6
     DEF AlertsTypeOK, StillListed, Upcoming, Soonest, DatesOf, CalculationsOf
<1>8. Accounted'
  BY <1>1, <1>2, <1>3, <1>5 DEF Accounted
<1> QED BY <1>7, <1>8 DEF AlertsInv

(* Dates are recorded, days pass, matters and addresses change: the run    *)
(* that is under way goes on with the list it read.                        *)
LEMMA OfficeInv ==
    ASSUME AlertsInv, AlertsTypeOK', calculations \subseteq calculations', today <= today',
           UNCHANGED <<job, listed>>
    PROVE  AlertsInv'
<1>1. AlertsTypeOK /\ StillListed /\ Accounted
  BY DEF AlertsInv
<1>2. StillListed'
  BY <1>1, StillUpcoming DEF StillListed
<1>3. Accounted'
  BY <1>1 DEF Accounted
<1> QED BY <1>2, <1>3 DEF AlertsInv

LEMMA NextAlertsInv ==
    ASSUME AlertsInv, [AlertsNext]_alertVars
    PROVE  AlertsInv'
<1>1. AlertsTypeOK /\ StillListed /\ Accounted /\ today \in Nat /\ today <= today
  BY AlertsAssumption DEF AlertsInv, AlertsTypeOK
<1>2. CASE UNCHANGED alertVars
  <2>1. AlertsTypeOK'
    BY <1>1, <1>2 DEF AlertsTypeOK, alertVars
  <2> QED BY <1>1, <1>2, <2>1, OfficeInv DEF alertVars
<1>3. ASSUME NEW catchAll \in CatchAlls, FetchUpcoming(catchAll) PROVE AlertsInv'
  BY <1>3, FetchInv
<1>4. CASE SendDigest
  BY <1>4, SendInv
<1>5. CASE SendFails \/ RunEnds
  <2>1. /\ UNCHANGED <<calculations, today, responsible, address, listed>>
        /\ \/ job' = [job EXCEPT !.at = "failed", !.queue = <<>>]
           \/ job.at = "sending" /\ job.queue = <<>> /\ job' = [job EXCEPT !.at = "done"]
    BY <1>5 DEF SendFails, RunEnds
  <2>2. AlertsTypeOK' /\ StillListed'
    <3>1. <<>> \in Seq(Digest)
      OBVIOUS
    <3>2. AlertsTypeOK'
      BY <1>1, <2>1, <3>1 DEF AlertsTypeOK
    <3>3. StillListed'
      BY <1>1, <2>1 DEF StillListed, Upcoming, Soonest, DatesOf, CalculationsOf
    <3> QED BY <3>2, <3>3
  <2>3. Accounted'
    BY <1>1, <2>1 DEF AlertsTypeOK, Accounted
  <2> QED BY <2>2, <2>3 DEF AlertsInv
<1>6. ASSUME NEW d \in Deadline, NEW date \in Dates, NEW source \in Sources,
             DateRecorded(d, date, source)
      PROVE  AlertsInv'
  <2> DEFINE c == [matter |-> d[1], type |-> d[2], date |-> date, source |-> source]
  <2>1. calculations' = calculations \cup {c} /\ UNCHANGED <<today, responsible, address, job, listed>>
    BY <1>6 DEF DateRecorded, RecordDeadline
  <2>2. c \in Calculation
    BY DEF Calculation, Deadline
  <2> HIDE DEF c
  <2>3. IsFiniteSet(calculations')
    BY <1>1, <2>1, FS_AddElement DEF AlertsTypeOK
  <2>4. AlertsTypeOK'
    BY <1>1, <2>1, <2>2, <2>3 DEF AlertsTypeOK
  <2> QED BY <1>1, <2>1, <2>4, OfficeInv
<1>7. CASE DayPasses
  <2>1. today' \in 0 .. MaxDay /\ today <= today'
    BY <1>1, <1>7, AlertsAssumption DEF DayPasses, AlertsTypeOK
  <2>2. AlertsTypeOK'
    BY <1>1, <1>7, <2>1 DEF DayPasses, AlertsTypeOK
  <2> QED BY <1>7, <2>1, <2>2, OfficeInv DEF DayPasses
<1>8. ASSUME NEW m \in DeadlineMatters, NEW p \in Partners \cup {Unassigned},
             AssignResponsible(m, p)
      PROVE  AlertsInv'
  <2>1. AlertsTypeOK'
    BY <1>1, <1>8 DEF AssignResponsible, AlertsTypeOK
  <2> QED BY <1>1, <1>8, <2>1, OfficeInv DEF AssignResponsible
<1>9. ASSUME NEW p \in Partners, NEW a \in Addresses \cup {NoAddress}, SetAddress(p, a)
      PROVE  AlertsInv'
  <2>1. AlertsTypeOK'
    BY <1>1, <1>9 DEF SetAddress, AlertsTypeOK
  <2> QED BY <1>1, <1>9, <2>1, OfficeInv DEF SetAddress
<1> QED BY <1>2, <1>3, <1>4, <1>5, <1>6, <1>7, <1>8, <1>9 DEF AlertsNext

(* The list only grows: what was once coming due stays on it, past due,    *)
(* with sources in conflict and whoever answers for the matter; and a run  *)
(* that goes on has what was listed in hand.                               *)
THEOREM ListedStaysListed == AlertsSpec => [](AlertsTypeOK /\ StillListed /\ Accounted)
BY InitAlertsInv, NextAlertsInv, PTL DEF AlertsSpec, AlertsInv

(* A run that ended well has told of, or counted as skipped, whatever any  *)
(* run before it found coming due.                                         *)
THEOREM DigestsDropNothing == AlertsSpec => []NothingDropsOff
<1>1. AlertsInv => NothingDropsOff
  <2> SUFFICES ASSUME AlertsInv, job.at = "done"
               PROVE  listed \subseteq job.told \cup job.skipped
    BY DEF NothingDropsOff
  <2>1. job.queue = <<>> /\ listed \subseteq job.told \cup job.skipped \cup Queued(job.queue)
    BY DEF AlertsInv, Accounted
  <2>2. Queued(<<>>) = {}
    BY DEF Queued
  <2> QED BY <2>1, <2>2
<1> QED BY <1>1, InitAlertsInv, NextAlertsInv, PTL DEF AlertsSpec
=============================================================================
