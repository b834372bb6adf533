--------------------------- MODULE FrontEndProofs ---------------------------
(***************************************************************************)
(* Proofs about the two front-ends: no answer gets under another question, *)
(* for any set of texts, any number of questions, mounts and reloads; the  *)
(* dashboard runs the chat page as ChatPage specifies it, whatever the     *)
(* other pages and the node do, so that this holds in the app; a node      *)
(* keeps its identity and its settings; messages that should fade have a   *)
(* timer; what is typed stays; pulses follow the edges of the mesh they    *)
(* are drawn on; and everything is of its type.                            *)
(*                                                                         *)
(* The two properties of ChatPage hold each other up.  That an answer      *)
(* lands in the list it was asked for needs AskingIsShown, and a question  *)
(* is asked on a list of pairs only if the answers before it kept them so. *)
(* ChatInv adds to them the types, that the list of a question ends with   *)
(* its placeholder, and that only a mounted page waits.                    *)
(***************************************************************************)
EXTENDS FrontEnds, FiniteSetTheorems, TLAPS

-----------------------------------------------------------------------------
(* The chat page: types and invariant *)

Requests == [page : Nat, list : Seq(Message)]

ChatTypes ==
    /\ chatPage \in Nat
    /\ chatShown \in BOOLEAN
    /\ sending \in BOOLEAN
    /\ chat \in Seq(Message)
    /\ stored \in Seq(Message)
    /\ asked \subseteq Requests

\* A list that a question was just put on.
Asking(list) == Len(list) > 0 /\ list[Len(list)] = Placeholder

ChatInv ==
    /\ ChatTypes
    /\ AnswersUnderTheirQuestion
    /\ AskingIsShown
    /\ \A r \in asked : Asking(r.list)
    /\ sending => chatShown

-----------------------------------------------------------------------------
(* Lists *)

LEMMA MessageParts ==
    /\ \A t \in Texts : Question(t) \in Message /\ Question(t).content = t
    /\ \A a \in Texts \union {NoTokens, Unreachable} : Answer(a) \in Message
    /\ Placeholder \in Message
BY DEF Message, Question, Answer, Placeholder

\* What a conversation says of its message i; it follows from that message and
\* the one before.
Fits(list, i) ==
    IF i % 2 = 1 THEN \E t \in Texts : list[i] = Question(t)
    ELSE \/ list[i] = Placeholder
         \/ \E a \in {list[i - 1].content, NoTokens, Unreachable} : list[i] = Answer(a)

LEMMA PairsFit ==
    ASSUME NEW list
    PROVE  Paired(list) <=> Len(list) % 2 = 0 /\ \A i \in DOMAIN list : Fits(list, i)
BY DEF Paired, Fits

LEMMA FitsAlike ==
    ASSUME NEW list, NEW other, NEW i, Fits(list, i), other[i] = list[i],
           i % 2 # 1 => other[i - 1] = list[i - 1]
    PROVE  Fits(other, i)
<1>1. CASE i % 2 = 1
  BY <1>1 DEF Fits
<1>2. CASE i % 2 # 1
  BY <1>2 DEF Fits
<1> QED BY <1>1, <1>2

\* Putting a question on a conversation makes one, with its placeholder last.
LEMMA AskedOnPairs ==
    ASSUME NEW list \in Seq(Message), Paired(list), NEW t \in Texts
    PROVE  LET longer == list \o <<Question(t), Placeholder>>
           IN  /\ longer \in Seq(Message)
               /\ Paired(longer)
               /\ Asking(longer)
<1> DEFINE longer == list \o <<Question(t), Placeholder>>
           n == Len(list)
<1>1. n \in Nat /\ n % 2 = 0
  BY DEF Paired
<1>2. longer \in Seq(Message) /\ Len(longer) = n + 2
  BY MessageParts
<1>3. /\ \A i \in 1..n : longer[i] = list[i]
      /\ longer[n + 1] = Question(t)
      /\ longer[n + 2] = Placeholder
  BY MessageParts
<1>4. ASSUME NEW i \in 1..(n + 2) PROVE Fits(longer, i)
  <2>1. CASE i \in 1..n
    <3>1. longer[i] = list[i]
      BY <1>3, <2>1
    <3>2. i % 2 # 1 => i - 1 \in 1..n
      BY <1>1, <2>1
    <3>3. i % 2 # 1 => longer[i - 1] = list[i - 1]
      BY <1>3, <3>2
    <3>4. Fits(list, i)
      BY <2>1, PairsFit
    <3> QED BY <3>1, <3>3, <3>4, FitsAlike
  <2>2. CASE i = n + 1
    <3>1. i % 2 = 1
      BY <1>1, <2>2
    <3> QED BY <1>3, <2>2, <3>1 DEF Fits
  <2>3. CASE i = n + 2
    <3>1. i % 2 # 1
      BY <1>1, <2>3
    <3> QED BY <1>3, <2>3, <3>1 DEF Fits
  <2> QED BY <1>1, <2>1, <2>2, <2>3
<1>5. Paired(longer)
  <2>1. DOMAIN longer = 1..(n + 2) /\ Len(longer) % 2 = 0
    BY <1>1, <1>2
  <2> QED BY <1>4, <2>1, PairsFit
<1> QED BY <1>1, <1>2, <1>3, <1>5 DEF Asking

\* The placeholder of the last question gives way; the pairs stay.
LEMMA SettledPairs ==
    ASSUME NEW list \in Seq(Message), Paired(list), Asking(list),
           NEW a \in {list[Len(list) - 1].content, NoTokens, Unreachable}
    PROVE  Settled(list, a) \in Seq(Message) /\ Paired(Settled(list, a))
<1> DEFINE n == Len(list)
           ended == [list EXCEPT ![n] = Answer(a)]
<1>1. n \in Nat /\ n % 2 = 0 /\ n >= 2 /\ DOMAIN list = 1..n
  BY DEF Paired, Asking
<1>2. n - 1 \in 1..n /\ (n - 1) % 2 = 1
  BY <1>1
<1>3. PICK t \in Texts : list[n - 1] = Question(t)
  BY <1>1, <1>2 DEF Paired
<1>4. Answer(a) \in Message
  BY <1>3, MessageParts
<1>5. Settled(list, a) = ended
  <2>1. n \in PendingIn(list)
    <3>1. Placeholder.pending = TRUE
      BY DEF Placeholder
    <3>2. list[n].pending = TRUE
      BY <3>1 DEF Asking
    <3>3. n \in DOMAIN list
      BY <1>1
    <3> QED BY <3>2, <3>3, Zenon DEF PendingIn
  <2>2. \A j \in PendingIn(list) : j \in 1..n
    BY <1>1 DEF PendingIn
  <2>3. ASSUME NEW i \in 1..n
        PROVE  (i \in PendingIn(list) /\ \A j \in PendingIn(list) : j <= i) <=> i = n
    <3>1. i = n => \A j \in PendingIn(list) : j <= i
      BY <1>1, <2>2
    <3>2. ASSUME \A j \in PendingIn(list) : j <= i PROVE i = n
      <4>1. n <= i
        BY <2>1, <3>2, Zenon
      <4>2. i \in Nat /\ n \in Nat /\ i <= n
        BY <1>1
      <4> HIDE DEF n
      <4> QED BY <4>1, <4>2
    <3> QED BY <2>1, <3>1, <3>2
  <2> QED BY <1>1, <2>3 DEF Settled
<1>6. ended \in Seq(Message) /\ Len(ended) = n /\ DOMAIN ended = 1..n
  BY <1>1, <1>4
<1>7. ASSUME NEW i \in 1..n PROVE Fits(ended, i)
  <2>1. i # n => ended[i] = list[i]
    BY <1>1
  <2>2. i % 2 # 1 => i - 1 \in 1..n /\ i - 1 # n
    BY <1>1
  <2>3. i % 2 # 1 => ended[i - 1] = list[i - 1]
    BY <1>1, <2>2
  <2>4. CASE i = n
    <3>1. ended[i] = Answer(a)
      BY <1>1, <2>4
    <3>2. i % 2 # 1
      BY <1>1, <2>4
    <3>3. a \in {ended[i - 1].content, NoTokens, Unreachable}
      BY <2>3, <2>4, <3>2
    <3> QED BY <3>1, <3>2, <3>3 DEF Fits
  <2>5. CASE i # n
    <3>1. Fits(list, i)
      BY <1>1, PairsFit
    <3> QED BY <2>1, <2>3, <2>5, <3>1, FitsAlike
  <2> QED BY <2>4, <2>5
<1>8. Paired(ended)
  BY <1>1, <1>6, <1>7, PairsFit
<1> QED BY <1>5, <1>6, <1>8

LEMMA NothingIsPaired == <<>> \in Seq(Message) /\ Paired(<<>>)
BY DEF Paired

-----------------------------------------------------------------------------
(* The page *)

LEMMA ChatStarts == ChatInit => ChatInv
<1> SUFFICES ASSUME ChatInit PROVE ChatInv
  OBVIOUS
<1>1. ChatTypes
  BY NothingIsPaired DEF ChatInit, ChatTypes
<1>2. AnswersUnderTheirQuestion
  BY NothingIsPaired DEF ChatInit, AnswersUnderTheirQuestion
<1>3. AskingIsShown
  BY DEF ChatInit, AskingIsShown
<1> QED BY <1>1, <1>2, <1>3 DEF ChatInit, ChatInv

LEMMA MountKeeps == ChatInv /\ MountChat => ChatInv'
<1> SUFFICES ASSUME ChatInv, MountChat PROVE ChatInv'
  OBVIOUS
<1>1. ChatTypes'
  BY DEF ChatInv, ChatTypes, MountChat
<1>2. AnswersUnderTheirQuestion'
  BY DEF ChatInv, MountChat, AnswersUnderTheirQuestion
<1>3. ~sending
  BY DEF ChatInv, MountChat
<1>4. AskingIsShown'
  BY <1>3 DEF ChatInv, ChatTypes, Requests, MountChat, AskingIsShown
<1> QED BY <1>1, <1>2, <1>3, <1>4 DEF ChatInv, MountChat

LEMMA UnmountKeeps == ChatInv /\ UnmountChat => ChatInv'
<1> SUFFICES ASSUME ChatInv, UnmountChat PROVE ChatInv'
  OBVIOUS
<1>1. ChatTypes'
  BY NothingIsPaired DEF ChatInv, ChatTypes, UnmountChat
<1>2. AnswersUnderTheirQuestion'
  BY NothingIsPaired DEF ChatInv, UnmountChat, AnswersUnderTheirQuestion
<1>3. AskingIsShown'
  BY DEF ChatInv, UnmountChat, AskingIsShown
<1> QED BY <1>1, <1>2, <1>3 DEF ChatInv, UnmountChat

LEMMA SendKeeps == ASSUME ChatInv, NEW t \in Texts, Send(t) PROVE ChatInv'
<1>1. /\ chat' = chat \o <<Question(t), Placeholder>>
      /\ stored' = chat'
      /\ chatShown /\ ~sending /\ sending' = TRUE
      /\ chatPage' = chatPage /\ chatShown' = chatShown
  BY DEF Send
<1>2. chat' \in Seq(Message) /\ Paired(chat') /\ Asking(chat')
  BY <1>1, AskedOnPairs DEF ChatInv, ChatTypes, AnswersUnderTheirQuestion
<1>3. PICK new \in Requests :
        new.page = chatPage /\ new.list = chat' /\ asked' = asked \union {new}
  BY <1>2 DEF Send, ChatInv, ChatTypes, Requests
<1>4. ChatTypes'
  BY <1>1, <1>2, <1>3 DEF ChatInv, ChatTypes
<1>5. AnswersUnderTheirQuestion'
  BY <1>1, <1>2, <1>3 DEF ChatInv, AnswersUnderTheirQuestion
<1>6. \A r \in asked : r.page <= chatPage /\ r.page # chatPage
  BY <1>1 DEF ChatInv, AskingIsShown
<1>7. AskingIsShown'
  <2>1. ASSUME NEW r \in asked'
        PROVE  /\ r.page <= chatPage'
               /\ chatShown' /\ r.page = chatPage' => sending' /\ chat' = r.list
    <3>1. CASE r = new
      <4>1. chatPage <= chatPage
        BY DEF ChatInv, ChatTypes
      <4> QED BY <1>1, <1>3, <3>1, <4>1, Zenon
    <3>2. CASE r # new
      BY <1>1, <1>3, <1>6, <3>2
    <3> QED BY <3>1, <3>2
  <2>2. ASSUME NEW r \in asked', NEW q \in asked', q.page = r.page PROVE q = r
    BY <1>3, <1>6, <2>2 DEF ChatInv, AskingIsShown
  <2>3. \E r \in asked' : r.page = chatPage'
    BY <1>1, <1>3
  <2> QED BY <2>1, <2>2, <2>3 DEF AskingIsShown
<1>8. \A r \in asked' : Asking(r.list)
  BY <1>2, <1>3 DEF ChatInv
<1> QED BY <1>1, <1>4, <1>5, <1>7, <1>8 DEF ChatInv

LEMMA ReceiveKeeps ==
    ASSUME ChatInv, NEW r \in asked, NEW a \in Replies(r), Receive(r, a) PROVE ChatInv'
<1>1. /\ chatShown /\ r.page = chatPage
      /\ asked' = asked \ {r}
      /\ chat' = Settled(chat, a) /\ stored' = chat'
      /\ sending' = FALSE
      /\ UNCHANGED <<chatPage, chatShown>>
  BY DEF Receive
<1>2. chat = r.list
  BY <1>1 DEF ChatInv, AskingIsShown
<1>3. Asking(chat) /\ Paired(chat) /\ chat \in Seq(Message)
  BY <1>2 DEF ChatInv, ChatTypes, AnswersUnderTheirQuestion
<1>4. chat' \in Seq(Message) /\ Paired(chat')
  BY <1>1, <1>2, <1>3, SettledPairs DEF Replies
<1>5. ChatTypes'
  BY <1>1, <1>4 DEF ChatInv, ChatTypes
<1>6. AnswersUnderTheirQuestion'
  BY <1>1, <1>4 DEF ChatInv, AnswersUnderTheirQuestion
<1>7. \A q \in asked \ {r} : q.page # chatPage
  BY <1>1 DEF ChatInv, AskingIsShown
<1>8. AskingIsShown'
  BY <1>1, <1>7 DEF ChatInv, AskingIsShown
<1> QED BY <1>1, <1>5, <1>6, <1>8 DEF ChatInv

LEMMA ReceiveLateKeeps ==
    ASSUME ChatInv, NEW r \in asked, NEW a \in Replies(r), ReceiveLate(r, a) PROVE ChatInv'
<1>1. /\ ~(chatShown /\ r.page = chatPage)
      /\ asked' = asked \ {r}
      /\ stored' \in {stored, Settled(r.list, a)}
      /\ UNCHANGED <<chatPage, chatShown, chat, sending>>
  BY DEF ReceiveLate
<1>2. r.list \in Seq(Message) /\ Paired(r.list) /\ Asking(r.list)
  BY DEF ChatInv, ChatTypes, Requests, AnswersUnderTheirQuestion
<1>3. Settled(r.list, a) \in Seq(Message) /\ Paired(Settled(r.list, a))
  BY <1>2, SettledPairs DEF Replies
<1>4. ChatTypes'
  BY <1>1, <1>3 DEF ChatInv, ChatTypes
<1>5. AnswersUnderTheirQuestion'
  BY <1>1, <1>3 DEF ChatInv, AnswersUnderTheirQuestion
<1>6. sending => \E q \in asked \ {r} : q.page = chatPage
  BY <1>1 DEF ChatInv, AskingIsShown
<1>7. AskingIsShown'
  BY <1>1, <1>6 DEF ChatInv, AskingIsShown
<1> QED BY <1>1, <1>4, <1>5, <1>7 DEF ChatInv

LEMMA NewChatKeeps == ChatInv /\ NewChat => ChatInv'
<1> SUFFICES ASSUME ChatInv, NewChat PROVE ChatInv'
  OBVIOUS
<1>1. ChatTypes'
  BY NothingIsPaired DEF ChatInv, ChatTypes, NewChat
<1>2. AnswersUnderTheirQuestion'
  BY NothingIsPaired DEF ChatInv, NewChat, AnswersUnderTheirQuestion
<1>3. AskingIsShown'
  BY DEF ChatInv, NewChat, AskingIsShown
<1> QED BY <1>1, <1>2, <1>3 DEF ChatInv, NewChat

LEMMA ForgetKeeps == ChatInv /\ ForgetChat => ChatInv'
BY NothingIsPaired
   DEF ChatInv, ForgetChat, ChatTypes, AnswersUnderTheirQuestion, AskingIsShown

LEMMA ChatStepKeeps == ChatInv /\ [ChatNext]_chatVars => ChatInv'
<1> SUFFICES ASSUME ChatInv, [ChatNext]_chatVars PROVE ChatInv'
  OBVIOUS
<1>1. CASE MountChat
  BY <1>1, MountKeeps
<1>2. CASE UnmountChat
  BY <1>2, UnmountKeeps
<1>3. CASE NewChat
  BY <1>3, NewChatKeeps
<1>4. CASE ForgetChat
  BY <1>4, ForgetKeeps
<1>5. CASE \E t \in Texts : Send(t)
  BY <1>5, SendKeeps
<1>6. CASE \E r \in asked : \E a \in Replies(r) : Receive(r, a) \/ ReceiveLate(r, a)
  BY <1>6, ReceiveKeeps, ReceiveLateKeeps
<1>7. CASE UNCHANGED chatVars
  BY <1>7 DEF chatVars, ChatInv, ChatTypes, AnswersUnderTheirQuestion, AskingIsShown
<1> QED BY <1>1, <1>2, <1>3, <1>4, <1>5, <1>6, <1>7 DEF ChatNext

THEOREM ChatInvariant == ChatSpec => []ChatInv
<1>1. ChatInit => ChatInv
  BY ChatStarts
<1>2. ChatInv /\ [ChatNext]_chatVars => ChatInv'
  BY ChatStepKeeps
<1> QED BY <1>1, <1>2, PTL DEF ChatSpec

-----------------------------------------------------------------------------
(* The chat page in the app *)

LEMMA AppRunsChat == AppStep => [ChatNext]_chatVars
<1> SUFFICES ASSUME AppStep PROVE [ChatNext]_chatVars
  OBVIOUS
<1>1. CASE ShowView
  BY <1>1 DEF ShowView, ShowNetwork, ShowChat, ShowSettings, ChatNext
<1>2. CASE ToggleSidebar
  BY <1>2 DEF ToggleSidebar
<1>3. CASE Poll
  BY <1>3 DEF Poll
<1>4. CASE Reload
  BY <1>4 DEF Reload, ChatNext
<1>5. CASE \E chosen \in [theme : Themes, accent : Accents], written \in BOOLEAN :
             ChoosePrefs(chosen, written)
  BY <1>5 DEF ChoosePrefs
<1>6. CASE \E i \in DOMAIN polls :
             NodeAnswers(i, TRUE) \/ NodeAnswers(i, FALSE) \/ PollArrives(i) \/ PollFails(i)
  BY <1>6 DEF NodeAnswers, PollArrives, PollFails
<1> QED BY <1>1, <1>2, <1>3, <1>4, <1>5, <1>6 DEF AppStep

\* Every step of the two front-ends is one of the chat page or leaves it alone.
LEMMA FrontEndsRunChat == [FrontEndsNext]_feVars => [ChatNext]_chatVars
<1>1. CASE AppStep
  BY <1>1, AppRunsChat
<1>2. NetworkStep => [ChatNext]_chatVars
  BY DEF NetworkStep, OutsideNetwork
<1>3. ChatStep => [ChatNext]_chatVars
  BY DEF ChatStep, ChatNext
<1>4. SettingsStep => [ChatNext]_chatVars
  BY DEF SettingsStep
<1>5. World => [ChatNext]_chatVars
  BY DEF World
<1>6. UNCHANGED vars => [ChatNext]_chatVars
  BY DEF vars
<1> QED BY <1>2, <1>3, <1>4, <1>5, <1>6, AppRunsChat DEF FrontEndsNext, Next, feVars

\* The app with all its pages implements the chat page alone.
THEOREM FrontEndsImplementChat == FrontEndsSpec => ChatSpec
<1>1. FrontEndsInit => ChatInit
  BY DEF FrontEndsInit, Init
<1> QED BY <1>1, FrontEndsRunChat, PTL DEF FrontEndsSpec, ChatSpec

\* In the app as in the page, no answer gets under another question, shown,
\* stored or about to be stored (ChatPage.jsx:66-129).
THEOREM AnswersStayPaired == FrontEndsSpec => []AnswersUnderTheirQuestion
<1>1. ChatInv => AnswersUnderTheirQuestion
  BY DEF ChatInv
<1> QED BY <1>1, FrontEndsImplementChat, ChatInvariant, PTL

\* And a page waits for the one question whose list it shows.
THEOREM OneQuestionAtATime == FrontEndsSpec => []AskingIsShown
<1>1. ChatInv => AskingIsShown
  BY DEF ChatInv
<1> QED BY <1>1, FrontEndsImplementChat, ChatInvariant, PTL

-----------------------------------------------------------------------------
(* The identity and the settings *)

\* What keeps an identity apart from settings that are replaced under it.
KeptInv ==
    /\ "peerId" \in DOMAIN config
    /\ file # Unreadable => "peerId" \in DOMAIN file
    /\ SettingsAreKept

\* What a step of the environment does to the history.
LEMMA FailuresAreKept ==
    ASSUME NEW ok \in BOOLEAN, MayFail(ok) \/ Click \/ Turn \/ NoCost
    PROVE  failed' = failed \/ failed' = TRUE
BY DEF MayFail, Click, Turn, NoCost

LEMMA KeptElsewhere ==
    ASSUME KeptInv, UNCHANGED <<config, file, prefs, storedPrefs>>,
           failed' = failed \/ failed' = TRUE
    PROVE  KeptInv' /\ config'.peerId = config.peerId
BY DEF KeptInv, SettingsAreKept

LEMMA AppKeeps == ASSUME KeptInv, AppStep PROVE KeptInv' /\ config'.peerId = config.peerId
<1>1. CASE ShowView
  BY <1>1, KeptElsewhere DEF ShowView, Click, appVars, configVars
<1>2. CASE ToggleSidebar
  BY <1>2, KeptElsewhere DEF ToggleSidebar, Click, settingsVars, configVars
<1>3. CASE Poll
  BY <1>3, KeptElsewhere DEF Poll, settingsVars, configVars
<1>4. CASE Reload
  <2>1. UNCHANGED <<config, file, storedPrefs, failed>> /\ prefs' = storedPrefs
    BY <1>4 DEF Reload, Click, configVars
  <2> QED BY <2>1 DEF KeptInv, SettingsAreKept
<1>5. ASSUME NEW chosen, NEW written \in BOOLEAN, ChoosePrefs(chosen, written)
      PROVE  KeptInv' /\ config'.peerId = config.peerId
  <2>1. UNCHANGED <<config, file>> /\ failed' = (failed \/ ~written)
    BY <1>5 DEF ChoosePrefs, settingsVars, configVars
  <2>2. written => prefs' = chosen /\ storedPrefs' = chosen
    BY <1>5 DEF ChoosePrefs, Chosen
  <2> QED BY <2>1, <2>2 DEF KeptInv, SettingsAreKept
<1>6. ASSUME NEW i \in DOMAIN polls,
             NodeAnswers(i, TRUE) \/ NodeAnswers(i, FALSE) \/ PollArrives(i) \/ PollFails(i)
      PROVE  KeptInv' /\ config'.peerId = config.peerId
  <2>1. failed' = failed \/ failed' = TRUE
    BY <1>6 DEF NodeAnswers, PollArrives, PollFails, MayFail, NoCost
  <2>2. UNCHANGED <<config, file, prefs, storedPrefs>>
    BY <1>6 DEF NodeAnswers, PollArrives, PollFails, settingsVars, configVars
  <2> QED BY <2>1, <2>2, KeptElsewhere
<1> QED BY <1>1, <1>2, <1>3, <1>4, <1>5, <1>6 DEF AppStep

LEMMA NetworkKeeps ==
    ASSUME KeptInv, NetworkStep PROVE KeptInv' /\ config'.peerId = config.peerId
<1>1. UNCHANGED <<config, file, prefs, storedPrefs>>
  BY DEF NetworkStep, OutsideNetwork, appVars, settingsVars, configVars
<1>2. failed' = failed \/ failed' = TRUE
  BY DEF NetworkStep, NoCost, Click, MayFail
<1> QED BY <1>1, <1>2, KeptElsewhere

LEMMA ChatKeeps ==
    ASSUME KeptInv, ChatStep PROVE KeptInv' /\ config'.peerId = config.peerId
<1>1. UNCHANGED <<config, file, prefs, storedPrefs, failed>>
  BY DEF ChatStep, appVars, settingsVars, configVars, NoCost, Click
<1> QED BY <1>1, KeptElsewhere

\* A PUT leaves the identity alone, and is on disk unless the write failed.
LEMMA SavingKeeps ==
    ASSUME KeptInv, NEW p, NEW written \in BOOLEAN, NodeSaves(p, written), MayFail(written),
           UNCHANGED <<prefs, storedPrefs>>
    PROVE  KeptInv' /\ config'.peerId = config.peerId
<1>1. config' = [config EXCEPT !.settings = Updated(config.settings, p.body.settings)]
  BY DEF NodeSaves, Put
<1>2. "peerId" \in DOMAIN config' /\ config'.peerId = config.peerId
  BY <1>1 DEF KeptInv
<1>3. CASE written
  <2>1. file' = config' /\ failed' = failed
    BY <1>3 DEF NodeSaves, Put, Save, MayFail, NoCost
  <2> QED BY <1>2, <2>1 DEF KeptInv, SettingsAreKept
<1>4. CASE ~written
  <2>1. file' = file /\ failed' = TRUE
    BY <1>4 DEF NodeSaves, Put, Save, MayFail
  <2> QED BY <1>2, <2>1 DEF KeptInv, SettingsAreKept
<1> QED BY <1>3, <1>4

LEMMA SettingsKeep ==
    ASSUME KeptInv, SettingsStep PROVE KeptInv' /\ config'.peerId = config.peerId
<1>1. UNCHANGED <<prefs, storedPrefs>>
  BY DEF SettingsStep, appVars
<1>2. CASE \E p \in puts, written \in BOOLEAN : NodeSaves(p, written) /\ MayFail(written)
  BY <1>1, <1>2, SavingKeeps
<1>3. CASE ~ \E p \in puts, written \in BOOLEAN : NodeSaves(p, written) /\ MayFail(written)
  <2>1. UNCHANGED configVars
    BY <1>3 DEF SettingsStep, NodeReads, ReadArrives, ReadFails, SaveReturns
  <2>2. failed' = failed \/ failed' = TRUE
    BY <1>3 DEF SettingsStep, NoCost, Click, MayFail
  <2> QED BY <1>1, <2>1, <2>2, KeptElsewhere DEF configVars
<1> QED BY <1>2, <1>3

\* A node takes a new identity only when it finds none in its file.
LEMMA BootKeeps ==
    ASSUME KeptInv, NEW written \in BOOLEAN, Boot(written), MayFail(written),
           UNCHANGED <<prefs, storedPrefs>>
    PROVE  KeptInv' /\ (config'.peerId # config.peerId => file = Unreadable)
<1>1. failed' = failed \/ failed' = TRUE
  BY DEF MayFail, NoCost
<1>2. CASE file # Unreadable
  <2>1. config' = file /\ file' = file
    BY <1>2 DEF Boot
  <2> QED BY <1>1, <1>2, <2>1 DEF KeptInv, SettingsAreKept
<1>3. CASE file = Unreadable
  <2>1. "peerId" \in DOMAIN config'
    BY <1>3 DEF Boot
  <2>2. CASE written
    <3>1. file' = config' /\ failed' = failed
      BY <1>3, <2>2 DEF Boot, Save, MayFail, NoCost
    <3> QED BY <1>3, <2>1, <3>1 DEF KeptInv, SettingsAreKept
  <2>3. CASE ~written
    <3>1. file' = file /\ failed' = TRUE
      BY <1>3, <2>3 DEF Boot, Save, MayFail
    <3> QED BY <1>3, <2>1, <3>1 DEF KeptInv, SettingsAreKept
  <2> QED BY <2>2, <2>3
<1> QED BY <1>2, <1>3

LEMMA WorldKeeps ==
    ASSUME KeptInv, World
    PROVE  KeptInv' /\ (config'.peerId # config.peerId => file = Unreadable)
<1>1. UNCHANGED <<prefs, storedPrefs>>
  BY DEF World, appVars
<1>2. CASE \E written \in BOOLEAN : Boot(written) /\ MayFail(written)
  BY <1>1, <1>2, BootKeeps
<1>3. CASE Damage /\ MayFail(FALSE)
  <2>1. config' = config /\ file' = Unreadable /\ failed' = TRUE
    BY <1>3 DEF Damage, MayFail
  <2> QED BY <2>1 DEF KeptInv, SettingsAreKept
<1>4. CASE Stop /\ Turn
  BY <1>1, <1>4, KeptElsewhere DEF Stop, Turn
<1>5. CASE (Turn \/ NoCost) /\ UNCHANGED settingsVars
  BY <1>1, <1>5, KeptElsewhere DEF Turn, NoCost, settingsVars, configVars
<1> QED BY <1>2, <1>3, <1>4, <1>5 DEF World

LEMMA StepKeeps ==
    ASSUME KeptInv, [FrontEndsNext]_feVars
    PROVE  KeptInv' /\ (config'.peerId # config.peerId => file = Unreadable)
<1>1. CASE UNCHANGED vars
  BY <1>1, KeptElsewhere DEF vars, appVars, settingsVars, configVars
<1>2. CASE Next
  BY <1>2, AppKeeps, NetworkKeeps, ChatKeeps, SettingsKeep, WorldKeeps DEF Next
<1> QED BY <1>1, <1>2 DEF FrontEndsNext, feVars

LEMMA KeptInvariant == FrontEndsSpec => []KeptInv
<1>1. FrontEndsInit => KeptInv
  BY DEF FrontEndsInit, Init, SettingsInit, ConfigInit, KeptInv, SettingsAreKept
<1>2. KeptInv /\ [FrontEndsNext]_feVars => KeptInv'
  BY StepKeeps
<1> QED BY <1>1, <1>2, PTL DEF FrontEndsSpec

\* Without a failure, the file holds what the node goes by and localStorage
\* the theme that is shown; and never another identity than the node's
\* (nodeconfig.py:47-67, theme.js:56).
THEOREM SettingsStayKept == FrontEndsSpec => []SettingsAreKept
<1>1. KeptInv => SettingsAreKept
  BY DEF KeptInv
<1> QED BY <1>1, KeptInvariant, PTL

\* A node whose file can be read keeps its identity (nodeconfig.py:36, 49).
THEOREM IdentityStaysKept == FrontEndsSpec => IdentityKept
<1>1. KeptInv /\ [FrontEndsNext]_feVars
        => [config'.peerId # config.peerId => file = Unreadable]_vars
  BY StepKeeps
<1> QED BY <1>1, KeptInvariant, PTL DEF FrontEndsSpec, IdentityKept

-----------------------------------------------------------------------------
(* Messages that fade: those of the network page, of the settings page and *)
(* of the landing page, each with its own timers.                          *)

NetworkFlash == msgTimers \in Nat /\ (restartMsg # NoMsg => msgTimers > 0)

SettingsFlash ==
    /\ savedTimers \in Nat /\ (saved => savedTimers > 0)
    /\ copyTimers \in Nat /\ (copied => copyTimers > 0)

SiteFlash == justCopied => timer

FlashInv == NetworkFlash /\ SettingsFlash /\ SiteFlash

LEMMA NetworkFlashKept == NetworkFlash /\ Next => NetworkFlash'
<1> SUFFICES ASSUME NetworkFlash, Next PROVE NetworkFlash'
  OBVIOUS
<1>1. UNCHANGED networkVars => NetworkFlash'
  BY DEF networkVars, NetworkFlash
<1>2. UnmountNetwork => NetworkFlash'
  BY DEF UnmountNetwork, NetworkBlank, NetworkFlash
<1>3. CASE AppStep
  <2>1. ASSUME NEW count, MountNetwork(count) PROVE NetworkFlash'
    BY <2>1 DEF MountNetwork, NetworkFlash
  <2>2. CASE ShowView
    <3>1. MountNetwork(SwarmCount(metrics)) \/ UnmountNetwork \/ UNCHANGED networkVars
      BY <2>2 DEF ShowView, ShowNetwork, ShowChat, ShowSettings
    <3> QED BY <1>1, <1>2, <2>1, <3>1
  <2>3. CASE ToggleSidebar \/ Poll
    BY <1>1, <2>3 DEF ToggleSidebar, Poll
  <2>4. CASE Reload
    BY <2>1, <2>4 DEF Reload
  <2>5. CASE \E chosen \in [theme : Themes, accent : Accents], written \in BOOLEAN :
                ChoosePrefs(chosen, written)
    BY <1>1, <2>5 DEF ChoosePrefs
  <2>6. CASE \E i \in DOMAIN polls :
                NodeAnswers(i, TRUE) \/ NodeAnswers(i, FALSE) \/ PollArrives(i) \/ PollFails(i)
    <3>1. ASSUME NEW i, PollArrives(i) PROVE NetworkFlash'
      BY <3>1 DEF PollArrives, NetworkFlash
    <3>2. ASSUME NEW i, NodeAnswers(i, TRUE) \/ NodeAnswers(i, FALSE) \/ PollFails(i)
          PROVE  UNCHANGED networkVars
      BY <3>2 DEF NodeAnswers, PollFails
    <3> QED BY <1>1, <2>6, <3>1, <3>2
  <2> QED BY <1>3, <2>2, <2>3, <2>4, <2>5, <2>6 DEF AppStep
<1>4. CASE NetworkStep
  <2>1. ASSUME NEW ok \in BOOLEAN, RestartReturns(ok) PROVE NetworkFlash'
    <3>1. msgTimers' = msgTimers + 1
      BY <2>1 DEF RestartReturns
    <3>2. msgTimers \in Nat
      BY DEF NetworkFlash
    <3>3. msgTimers' \in Nat /\ msgTimers' > 0
      BY <3>1, <3>2
    <3> QED BY <3>3, Zenon DEF NetworkFlash
  <2>2. CASE MsgFades
    BY <2>2 DEF MsgFades, NetworkFlash
  <2>3. CASE UNCHANGED <<msgTimers, restartMsg>>
    BY <2>3 DEF NetworkFlash
  <2>4. \/ RestartReturns(TRUE) \/ RestartReturns(FALSE) \/ MsgFades
        \/ UNCHANGED <<msgTimers, restartMsg>>
    BY <1>4 DEF NetworkStep, PollPeers, NodeLists, PeersArrive, PeersFail, ClickRestart,
              CanvasFrame
  <2> QED BY <2>1, <2>2, <2>3, <2>4
<1>5. CASE ChatStep \/ SettingsStep \/ World
  BY <1>1, <1>5 DEF ChatStep, SettingsStep, World
<1> QED BY <1>3, <1>4, <1>5 DEF Next

LEMMA SettingsFlashKept == SettingsFlash /\ Next => SettingsFlash'
<1> SUFFICES ASSUME SettingsFlash, Next PROVE SettingsFlash'
  OBVIOUS
<1>1. UNCHANGED <<saved, savedTimers, copied, copyTimers>> => SettingsFlash'
  BY DEF SettingsFlash
<1>2. MountSettings \/ UnmountSettings \/ ForgetSettings => SettingsFlash'
  BY DEF MountSettings, UnmountSettings, ForgetSettings, SettingsFlash
<1>3. CASE AppStep
  <2>1. CASE ShowView
    BY <1>1, <1>2, <2>1 DEF ShowView, ShowNetwork, ShowChat, ShowSettings, pageVars
  <2>2. CASE Reload
    BY <1>2, <2>2 DEF Reload
  <2>3. CASE ~ShowView /\ ~Reload
    <3>1. UNCHANGED settingsVars
      BY <1>3, <2>3 DEF AppStep, ToggleSidebar, Poll, ChoosePrefs, NodeAnswers, PollArrives,
                PollFails
    <3> QED BY <1>1, <3>1 DEF settingsVars, pageVars
  <2> QED BY <2>1, <2>2, <2>3
<1>4. CASE SettingsStep
  <2>1. CASE \E p \in puts : SaveReturns(p)
    BY <2>1 DEF SaveReturns, SettingsFlash
  <2>2. CASE ClickCopy
    BY <2>2 DEF ClickCopy, SettingsFlash
  <2>3. CASE SavedFades
    BY <2>3 DEF SavedFades, SettingsFlash
  <2>4. CASE CopiedFades
    BY <2>4 DEF CopiedFades, SettingsFlash
  <2>5. \/ \E p \in puts : SaveReturns(p)
        \/ ClickCopy \/ SavedFades \/ CopiedFades
        \/ UNCHANGED <<saved, savedTimers, copied, copyTimers>>
    BY <1>4 DEF SettingsStep, Edit, ClickSave, NodeReads, ReadArrives, ReadFails, NodeSaves
  <2> QED BY <1>1, <2>1, <2>2, <2>3, <2>4, <2>5
<1>5. CASE NetworkStep \/ ChatStep \/ World
  <2>1. UNCHANGED pageVars
    BY <1>5 DEF NetworkStep, OutsideNetwork, ChatStep, World, settingsVars
  <2> QED BY <1>1, <2>1 DEF pageVars
<1> QED BY <1>3, <1>4, <1>5 DEF Next

LEMMA SiteFlashKept == SiteFlash /\ SiteNext => SiteFlash'
BY DEF SiteFlash, SiteNext, SelectOs, Copy, CopyFades, Follow, Visit, ResizeWindow, HeroFrame

LEMMA FlashStarts == FrontEndsInit => FlashInv
BY DEF FrontEndsInit, Init, SettingsInit, SiteInit, FlashInv, NetworkFlash, SettingsFlash,
       SiteFlash

LEMMA FlashKept == FlashInv /\ [FrontEndsNext]_feVars => FlashInv'
<1> SUFFICES ASSUME FlashInv, [FrontEndsNext]_feVars PROVE FlashInv'
  OBVIOUS
<1>1. UNCHANGED vars => NetworkFlash' /\ SettingsFlash'
  BY DEF vars, networkVars, settingsVars, pageVars, FlashInv, NetworkFlash, SettingsFlash
<1>2. UNCHANGED siteVars => SiteFlash'
  BY DEF siteVars, FlashInv, SiteFlash
<1>3. Next => NetworkFlash' /\ SettingsFlash'
  BY NetworkFlashKept, SettingsFlashKept DEF FlashInv
<1>4. SiteNext => SiteFlash'
  BY SiteFlashKept DEF FlashInv
<1> QED BY <1>1, <1>2, <1>3, <1>4 DEF FrontEndsNext, feVars, FlashInv

\* A message that should fade has a timer that will make it
\* (NetworkPage.jsx:95-104, SettingsPage.jsx:220-236, RunNode.jsx:96-98).
THEOREM FlashesFade == FrontEndsSpec => []FlashesHaveTimers
<1>1. FlashInv => FlashesHaveTimers
  BY DEF FlashInv, NetworkFlash, SettingsFlash, SiteFlash, FlashesHaveTimers
<1> QED BY <1>1, FlashStarts, FlashKept, PTL DEF FrontEndsSpec

-----------------------------------------------------------------------------
(* The node's configuration and the form that shows it *)

\* What the field of a form may hold; a name and a port are whatever was typed.
Allowed(f) == Control(f) \union {NodeDefaults[f], BrowserDefaults[f]}

IsSettings(s) ==
    /\ DOMAIN s = Setting
    /\ \A f \in Setting \ {"name", "port"} : s[f] \in Allowed(f)

\* A configuration of an identity made so far; 0 before one is loaded.
IsConfig(c, least, made) ==
    /\ c = [peerId |-> c.peerId, settings |-> c.settings]
    /\ c.peerId \in least..made
    /\ IsSettings(c.settings)

NodeTypes ==
    /\ up \in BOOLEAN /\ identities \in Nat
    /\ IsConfig(config, 1, identities)
    /\ file = Unreadable \/ IsConfig(file, 1, identities)

IsRead(r, pages, made) ==
    /\ r = [page |-> r.page, got |-> r.got]
    /\ r.page \in 0..pages
    /\ r.got = Unanswered \/ IsConfig(r.got, 1, made)

IsPut(p, pages, made) ==
    /\ DOMAIN p = {"page", "body", "done"}
    /\ p.page \in 0..pages
    /\ IsConfig(p.body, 0, made)
    /\ p.done \in BOOLEAN

\* The page that is shown waits for the settings as long as it has asked for them
\* and nothing came of it; it asked once.
ReadsAreAwaited ==
    \A r \in reads :
        /\ Current(r) => loading
        /\ \A q \in reads : q.page = r.page => q = r

FormTypes ==
    /\ settingsPage \in Nat
    /\ settingsShown \in BOOLEAN
    /\ loading \in BOOLEAN /\ saving \in BOOLEAN /\ saved \in BOOLEAN /\ copied \in BOOLEAN
    /\ savedTimers \in Nat /\ copyTimers \in Nat
    /\ IsConfig(form, 0, identities)
    /\ \A r \in reads : IsRead(r, settingsPage, identities)
    /\ \A p \in puts : IsPut(p, settingsPage, identities)
    /\ ReadsAreAwaited

LEMMA DefaultsAreSettings == IsSettings(NodeDefaults) /\ IsSettings(BrowserDefaults)
<1> DEFINE Fields == {"name", "model", "layerMode", "maxLayers", "maxRam", "port", "region",
                      "bandwidth", "autojoin", "contribute", "inbound", "telemetry"}
<1>1. DOMAIN NodeDefaults = Fields
  BY DEF NodeDefaults
<1>2. DOMAIN BrowserDefaults = Fields
  BY DEF BrowserDefaults
<1> QED
  BY <1>1, <1>2 DEF IsSettings, Allowed, Setting

LEMMA UpdatedIsSettings ==
    ASSUME NEW s, IsSettings(s), NEW body, IsSettings(body)
    PROVE  IsSettings(Updated(s, body))
  BY DEF IsSettings, Updated

LEMMA EditedIsSettings ==
    ASSUME NEW s, IsSettings(s), NEW f, NEW v \in Control(f)
    PROVE  IsSettings([s EXCEPT ![f] = v])
  BY DEF IsSettings, Allowed

LEMMA ConfigGrows ==
    ASSUME NEW made \in Nat, NEW more \in Nat, made <= more,
           NEW least \in {0, 1}, NEW c, IsConfig(c, least, made)
    PROVE  IsConfig(c, least, more) /\ IsConfig(c, 0, more)
  BY DEF IsConfig

LEMMA BlankIsConfig == ASSUME NEW made \in Nat PROVE IsConfig(Blank, 0, made)
  BY DefaultsAreSettings DEF IsConfig, Blank

LEMMA ReadGrows ==
    ASSUME NEW made \in Nat, NEW more \in Nat, made <= more,
           NEW pages \in Nat, NEW later \in Nat, pages <= later, NEW r, IsRead(r, pages, made)
    PROVE  IsRead(r, later, more)
  BY ConfigGrows DEF IsRead

LEMMA PutGrows ==
    ASSUME NEW made \in Nat, NEW more \in Nat, made <= more,
           NEW pages \in Nat, NEW later \in Nat, pages <= later, NEW p, IsPut(p, pages, made)
    PROVE  IsPut(p, later, more)
  BY ConfigGrows DEF IsPut

-----------------------------------------------------------------------------
LEMMA NodeTypesKept ==
    ASSUME NodeTypes,
           \/ \E written \in BOOLEAN : Boot(written)
           \/ \E body : \E written \in BOOLEAN : IsSettings(body.settings) /\ Put(body, written)
           \/ Stop \/ Damage \/ UNCHANGED configVars
    PROVE  NodeTypes' /\ identities' \in Nat /\ identities <= identities'
<1>1. /\ identities \in Nat /\ IsConfig(config, 1, identities)
      /\ file = Unreadable \/ IsConfig(file, 1, identities)
  BY DEF NodeTypes
<1>2. ASSUME NEW written \in BOOLEAN, Boot(written) PROVE NodeTypes' /\ identities' \in Nat /\ identities <= identities'
  <2>1. CASE file # Unreadable
    BY <1>1, <1>2, <2>1 DEF Boot, NodeTypes
  <2>2. CASE file = Unreadable
    <3>1. /\ up' = TRUE /\ identities' = identities + 1
          /\ config' = [peerId |-> identities', settings |-> NodeDefaults]
          /\ file' = config' \/ file' = file
      BY <1>2, <2>2 DEF Boot, Save
    <3>2. IsConfig([peerId |-> identities', settings |-> NodeDefaults], 1, identities')
      BY <1>1, <3>1, DefaultsAreSettings DEF IsConfig
    <3> QED
      BY <1>1, <2>2, <3>1, <3>2 DEF NodeTypes
  <2> QED
    BY <2>1, <2>2
<1>3. ASSUME NEW body, NEW written \in BOOLEAN, IsSettings(body.settings), Put(body, written)
      PROVE  NodeTypes' /\ identities' \in Nat /\ identities <= identities'
  <2>1. /\ up' = up /\ identities' = identities
        /\ config' = [config EXCEPT !.settings = Updated(@, body.settings)]
        /\ file' = config' \/ file' = file
    BY <1>3 DEF Put, Save
  <2>2. IsSettings(Updated(config.settings, body.settings))
    BY <1>1, <1>3, UpdatedIsSettings DEF IsConfig
  <2>3. config' = [peerId |-> config.peerId, settings |-> Updated(config.settings, body.settings)]
    BY <1>1, <2>1 DEF IsConfig
  <2>4. IsConfig(config', 1, identities)
    BY <1>1, <2>2, <2>3 DEF IsConfig
  <2> QED
    BY <1>1, <2>1, <2>4 DEF NodeTypes
<1>4. CASE Stop \/ Damage \/ UNCHANGED configVars
  <2>1. /\ identities' = identities /\ config' = config
        /\ file' = file \/ file' = Unreadable
        /\ up' \in BOOLEAN
    BY <1>4 DEF Stop, Damage, configVars, NodeTypes
  <2> QED
    BY <1>1, <2>1 DEF NodeTypes
<1> QED
  BY <1>2, <1>3, <1>4

LEMMA FormKept ==
    ASSUME NodeTypes, FormTypes, UNCHANGED pageVars, identities' \in Nat, identities <= identities'
    PROVE  FormTypes'
<1>1. identities \in Nat /\ settingsPage \in Nat /\ settingsPage <= settingsPage
  BY DEF NodeTypes, FormTypes
<1>2. UNCHANGED <<settingsPage, settingsShown, form, loading, saving, saved, copied, savedTimers,
                  copyTimers, reads, puts>>
  BY DEF pageVars
<1>3. IsConfig(form', 0, identities')
  BY <1>1, <1>2, ConfigGrows DEF FormTypes
<1>4. \A r \in reads' : IsRead(r, settingsPage', identities')
  BY <1>1, <1>2, ReadGrows DEF FormTypes
<1>5. \A p \in puts' : IsPut(p, settingsPage', identities')
  BY <1>1, <1>2, PutGrows DEF FormTypes
<1>6. ReadsAreAwaited'
  BY <1>2 DEF FormTypes, ReadsAreAwaited, Current
<1> QED
  BY <1>2, <1>3, <1>4, <1>5, <1>6 DEF FormTypes

\* The page comes, goes, or is forgotten with the tab.
LEMMA MountKeepsForm ==
    ASSUME NodeTypes, FormTypes, MountSettings \/ UnmountSettings \/ ForgetSettings,
           identities' = identities
    PROVE  FormTypes'
<1>1. /\ identities \in Nat /\ settingsPage \in Nat
      /\ \A r \in reads : IsRead(r, settingsPage, identities)
      /\ \A p \in puts : IsPut(p, settingsPage, identities)
      /\ ReadsAreAwaited
  BY DEF NodeTypes, FormTypes
<1>2. CASE MountSettings
  <2>1. /\ settingsPage' = settingsPage + 1
        /\ settingsShown' = TRUE /\ loading' = TRUE /\ saving' = FALSE /\ saved' = FALSE
        /\ copied' = FALSE /\ savedTimers' = 0 /\ copyTimers' = 0
        /\ form' = Blank /\ puts' = puts
        /\ reads' = reads \union {[page |-> settingsPage + 1, got |-> Unanswered]}
    BY <1>2 DEF MountSettings
  <2>2. settingsPage' \in Nat /\ settingsPage <= settingsPage'
    BY <1>1, <2>1
  <2>3. IsConfig(form', 0, identities')
    BY <1>1, <2>1, BlankIsConfig
  <2>4. \A r \in reads : IsRead(r, settingsPage', identities) /\ r.page # settingsPage'
    BY <1>1, <2>1, <2>2, ReadGrows DEF IsRead
  <2>5. IsRead([page |-> settingsPage + 1, got |-> Unanswered], settingsPage', identities)
    BY <1>1, <2>1 DEF IsRead
  <2>6. \A p \in puts' : IsPut(p, settingsPage', identities)
    BY <1>1, <2>1, <2>2, PutGrows
  <2>7. ReadsAreAwaited'
    BY <1>1, <2>1, <2>4 DEF ReadsAreAwaited, Current
  <2>8. \A r \in reads' : IsRead(r, settingsPage', identities')
    BY <2>1, <2>4, <2>5
  <2> QED
    BY <2>1, <2>2, <2>3, <2>6, <2>7, <2>8 DEF FormTypes
<1>3. CASE UnmountSettings \/ ForgetSettings
  <2>1. /\ settingsPage' = settingsPage
        /\ settingsShown' = FALSE /\ loading' = FALSE /\ saving' = FALSE /\ saved' = FALSE
        /\ copied' = FALSE /\ savedTimers' = 0 /\ copyTimers' = 0
        /\ form' = Blank
        /\ reads' \subseteq reads /\ puts' \subseteq puts
    BY <1>3 DEF UnmountSettings, ForgetSettings
  <2>2. ReadsAreAwaited'
    BY <1>1, <2>1 DEF ReadsAreAwaited, Current
  <2>3. IsConfig(form', 0, identities')
    BY <1>1, <2>1, BlankIsConfig
  <2> QED
    BY <1>1, <2>1, <2>2, <2>3 DEF FormTypes
<1> QED
  BY <1>2, <1>3

\* What the user does to the form.
LEMMA HandKeepsForm ==
    ASSUME NodeTypes, FormTypes, identities' = identities,
           (\E f, v : Edit(f, v)) \/ ClickSave \/ ClickCopy \/ SavedFades \/ CopiedFades
    PROVE  FormTypes'
<1>1. /\ identities \in Nat /\ settingsPage \in Nat
      /\ IsConfig(form, 0, identities)
      /\ savedTimers \in Nat /\ copyTimers \in Nat
      /\ \A r \in reads : IsRead(r, settingsPage, identities)
      /\ \A p \in puts : IsPut(p, settingsPage, identities)
      /\ ReadsAreAwaited
  BY DEF NodeTypes, FormTypes
<1>2. ASSUME NEW f, NEW v, Edit(f, v) PROVE FormTypes'
  <2>1. /\ v \in Control(f)
        /\ form' = [form EXCEPT !.settings[f] = v]
        /\ UNCHANGED <<settingsPage, settingsShown, loading, saving, saved, copied,
                       savedTimers, copyTimers, reads, puts>>
    BY <1>2 DEF Edit
  <2>2. form' = [peerId |-> form.peerId, settings |-> [form.settings EXCEPT ![f] = v]]
    BY <1>1, <2>1 DEF IsConfig
  <2>3. IsConfig(form', 0, identities')
    <3>1. IsSettings([form.settings EXCEPT ![f] = v])
      BY <1>1, <2>1, EditedIsSettings DEF IsConfig
    <3> QED
      BY <1>1, <2>2, <3>1 DEF IsConfig
  <2>4. ReadsAreAwaited'
    BY <1>1, <2>1 DEF ReadsAreAwaited, Current
  <2> QED
    BY <2>1, <2>3, <2>4 DEF FormTypes
<1>3. CASE ClickSave
  <2>1. /\ saving' = TRUE
        /\ puts' = puts \union {[page |-> settingsPage, body |-> form, done |-> FALSE]}
        /\ UNCHANGED <<settingsPage, settingsShown, form, loading, saved, copied,
                       savedTimers, copyTimers, reads>>
    BY <1>3 DEF ClickSave
  <2>2. IsPut([page |-> settingsPage, body |-> form, done |-> FALSE], settingsPage, identities)
    BY <1>1 DEF IsPut
  <2>3. \A p \in puts' : IsPut(p, settingsPage', identities')
    BY <1>1, <2>1, <2>2
  <2>4. ReadsAreAwaited'
    BY <1>1, <2>1 DEF ReadsAreAwaited, Current
  <2> QED
    BY <2>1, <2>3, <2>4 DEF FormTypes
<1>4. CASE ClickCopy \/ SavedFades \/ CopiedFades
  <2>1. /\ UNCHANGED <<settingsPage, settingsShown, form, loading, saving, reads, puts>>
        /\ saved' = saved \/ saved' = FALSE
        /\ copied' = copied \/ copied' = TRUE \/ copied' = FALSE
    BY <1>4 DEF ClickCopy, SavedFades, CopiedFades
  <2>2. savedTimers' \in Nat /\ copyTimers' \in Nat
    BY <1>1, <1>4 DEF ClickCopy, SavedFades, CopiedFades
  <2>3. ReadsAreAwaited'
    BY <1>1, <2>1 DEF ReadsAreAwaited, Current
  <2>4. saved' \in BOOLEAN /\ copied' \in BOOLEAN
    BY <2>1, Zenon DEF FormTypes
  <2> QED
    BY <1>1, <2>1, <2>2, <2>3, <2>4 DEF FormTypes
<1> QED
  BY <1>2, <1>3, <1>4

\* What becomes of the calls of the page.
LEMMA ReadKeepsForm ==
    ASSUME NodeTypes, FormTypes, identities' = identities,
           NEW r \in reads, NodeReads(r) \/ ReadArrives(r) \/ ReadFails(r)
    PROVE  FormTypes'
<1>1. /\ identities \in Nat /\ settingsPage \in Nat
      /\ IsConfig(config, 1, identities) /\ IsConfig(form, 0, identities)
      /\ \A q \in reads : IsRead(q, settingsPage, identities)
      /\ \A p \in puts : IsPut(p, settingsPage, identities)
      /\ ReadsAreAwaited
  BY DEF NodeTypes, FormTypes
<1>2. r = [page |-> r.page, got |-> r.got] /\ IsRead(r, settingsPage, identities)
  BY <1>1 DEF IsRead
<1>3. CASE NodeReads(r)
  <2>1. /\ UNCHANGED <<settingsPage, settingsShown, form, loading, saving, saved, copied,
                       savedTimers, copyTimers, puts>>
        /\ reads' = (reads \ {r}) \union {[r EXCEPT !.got = config]}
    BY <1>3 DEF NodeReads
  <2>2. [r EXCEPT !.got = config] = [page |-> r.page, got |-> config]
    BY <1>2
  <2>3. reads' = (reads \ {r}) \union {[page |-> r.page, got |-> config]}
    BY <2>1, <2>2
  <2>4. IsRead([page |-> r.page, got |-> config], settingsPage, identities)
    BY <1>1, <1>2 DEF IsRead
  <2>5. \A q \in reads' : IsRead(q, settingsPage', identities')
    BY <1>1, <2>1, <2>3, <2>4
  <2>6. ReadsAreAwaited'
    BY <1>1, <2>1, <2>3 DEF ReadsAreAwaited, Current
  <2> QED
    BY <2>1, <2>5, <2>6 DEF FormTypes
<1>4. CASE ReadArrives(r) \/ ReadFails(r)
  <2>1. /\ UNCHANGED <<settingsPage, settingsShown, saving, saved, copied, savedTimers,
                       copyTimers, puts>>
        /\ reads' = reads \ {r}
    BY <1>4 DEF ReadArrives, ReadFails
  <2>2. IF Current(r) THEN loading' = FALSE ELSE loading' = loading
    BY <1>4 DEF ReadArrives, ReadFails
  <2>3. \/ form' = form
        \/ r.got # Unanswered /\ form' = r.got
    BY <1>4 DEF ReadArrives, ReadFails, Loaded
  <2>4. IsConfig(form', 0, identities')
    <3>1. CASE form' = form
      BY <1>1, <3>1
    <3>2. CASE r.got # Unanswered /\ form' = r.got
      BY <1>1, <1>2, <3>2, ConfigGrows DEF IsRead
    <3> QED
      BY <2>3, <3>1, <3>2
  <2>5. ReadsAreAwaited'
    BY <1>1, <2>1, <2>2 DEF ReadsAreAwaited, Current
  <2>6. loading' \in BOOLEAN
    BY <2>2, Zenon DEF FormTypes
  <2> QED
    BY <1>1, <2>1, <2>4, <2>5, <2>6 DEF FormTypes
<1> QED
  BY <1>3, <1>4

LEMMA SaveKeepsForm ==
    ASSUME NodeTypes, FormTypes, identities' = identities,
           NEW p \in puts, (\E written \in BOOLEAN : NodeSaves(p, written)) \/ SaveReturns(p)
    PROVE  FormTypes'
<1>1. /\ identities \in Nat /\ settingsPage \in Nat /\ savedTimers \in Nat
      /\ \A q \in puts : IsPut(q, settingsPage, identities)
      /\ ReadsAreAwaited
  BY DEF NodeTypes, FormTypes
<1>2. CASE \E written \in BOOLEAN : NodeSaves(p, written)
  <2>1. /\ UNCHANGED <<settingsPage, settingsShown, form, loading, saving, saved, copied,
                       savedTimers, copyTimers, reads>>
        /\ puts' = (puts \ {p}) \union {[p EXCEPT !.done = TRUE]}
    BY <1>2 DEF NodeSaves
  <2>2. IsPut([p EXCEPT !.done = TRUE], settingsPage, identities)
    BY <1>1 DEF IsPut
  <2>3. \A q \in puts' : IsPut(q, settingsPage', identities')
    BY <1>1, <2>1, <2>2
  <2>4. ReadsAreAwaited'
    BY <1>1, <2>1 DEF ReadsAreAwaited, Current
  <2> QED
    BY <2>1, <2>3, <2>4 DEF FormTypes
<1>3. CASE SaveReturns(p)
  <2>1. /\ UNCHANGED <<settingsPage, settingsShown, form, loading, copied, copyTimers, reads>>
        /\ puts' = puts \ {p}
        /\ saving' = FALSE \/ saving' = saving
        /\ saved' = TRUE \/ saved' = saved
        /\ savedTimers' = savedTimers + 1 \/ savedTimers' = savedTimers
    BY <1>3 DEF SaveReturns
  <2>2. saving' \in BOOLEAN /\ saved' \in BOOLEAN
    BY <2>1, Zenon DEF FormTypes
  <2>3. savedTimers' \in Nat
    BY <1>1, <2>1
  <2>4. ReadsAreAwaited'
    BY <1>1, <2>1 DEF ReadsAreAwaited, Current
  <2> QED
    BY <1>1, <2>1, <2>2, <2>3, <2>4 DEF FormTypes
<1> QED
  BY <1>2, <1>3

LEMMA SettingsStepTyped == ASSUME NodeTypes, FormTypes, SettingsStep PROVE NodeTypes' /\ FormTypes'
<1>1. ASSUME UNCHANGED configVars PROVE NodeTypes' /\ identities' = identities
  BY <1>1, NodeTypesKept DEF configVars
<1>2. CASE \E e \in Typed : Edit(e.field, e.value) /\ Click /\ UNCHANGED configVars
  BY <1>1, <1>2, HandKeepsForm
<1>3. CASE (ClickSave \/ ClickCopy) /\ Click /\ UNCHANGED configVars
  BY <1>1, <1>3, HandKeepsForm
<1>4. CASE (SavedFades \/ CopiedFades) /\ NoCost /\ UNCHANGED configVars
  BY <1>1, <1>4, HandKeepsForm
<1>5. ASSUME NEW r \in reads, NodeReads(r) \/ ReadArrives(r) \/ ReadFails(r)
      PROVE  NodeTypes' /\ FormTypes'
  <2>1. UNCHANGED configVars
    BY <1>5 DEF NodeReads, ReadArrives, ReadFails
  <2> QED
    BY <1>1, <1>5, <2>1, ReadKeepsForm
<1>6. ASSUME NEW p \in puts, NEW written \in BOOLEAN, NodeSaves(p, written)
      PROVE  NodeTypes' /\ FormTypes'
  <2>1. Put(p.body, written) /\ identities' = identities
    BY <1>6 DEF NodeSaves, Put
  <2>2. IsSettings(p.body.settings)
    BY DEF FormTypes, IsPut, IsConfig
  <2>3. NodeTypes'
    BY <2>1, <2>2, NodeTypesKept
  <2> QED
    BY <1>6, <2>1, <2>3, SaveKeepsForm
<1>7. ASSUME NEW p \in puts, SaveReturns(p) PROVE NodeTypes' /\ FormTypes'
  <2>1. UNCHANGED configVars
    BY <1>7 DEF SaveReturns
  <2> QED
    BY <1>1, <1>7, <2>1, SaveKeepsForm
<1> QED
  BY <1>2, <1>3, <1>4, <1>5, <1>6, <1>7 DEF SettingsStep

\* Every step of the two front-ends leaves the node's configuration and the
\* settings page typed, and the page waiting for what it asked.
LEMMA SettingsStayTyped ==
    ASSUME NodeTypes, FormTypes, [FrontEndsNext]_feVars
    PROVE  NodeTypes' /\ FormTypes'
<1>1. ASSUME UNCHANGED configVars PROVE NodeTypes' /\ identities' = identities
  BY <1>1, NodeTypesKept DEF configVars
<1>2. identities \in Nat
  BY DEF NodeTypes
<1>3. ASSUME UNCHANGED settingsVars PROVE NodeTypes' /\ FormTypes'
  <2>1. UNCHANGED configVars /\ UNCHANGED pageVars
    BY <1>3 DEF settingsVars
  <2> QED
    BY <1>1, <1>2, <2>1, FormKept
<1>4. CASE AppStep
  <2>1. CASE ShowView
    <3>1. /\ UNCHANGED configVars
          /\ MountSettings \/ UnmountSettings \/ UNCHANGED pageVars
      BY <2>1 DEF ShowView, ShowNetwork, ShowChat, ShowSettings
    <3> QED
      BY <1>1, <1>2, <3>1, MountKeepsForm, FormKept
  <2>2. CASE Reload
    <3>1. UNCHANGED configVars /\ ForgetSettings
      BY <2>2 DEF Reload
    <3> QED
      BY <1>1, <3>1, MountKeepsForm
  <2>3. CASE ~ShowView /\ ~Reload
    <3>1. UNCHANGED settingsVars
      BY <1>4, <2>3 DEF AppStep, ToggleSidebar, Poll, ChoosePrefs, NodeAnswers, PollArrives,
                PollFails
    <3> QED
      BY <1>3, <3>1
  <2> QED
    BY <2>1, <2>2, <2>3
<1>5. CASE NetworkStep \/ ChatStep
  <2>1. UNCHANGED settingsVars
    BY <1>5 DEF NetworkStep, OutsideNetwork, ChatStep
  <2> QED
    BY <1>3, <2>1
<1>6. CASE World
  <2>1. \/ UNCHANGED settingsVars
        \/ /\ UNCHANGED pageVars
           /\ Stop \/ Damage \/ \E written \in BOOLEAN : Boot(written)
    BY <1>6 DEF World
  <2> QED
    BY <1>3, <2>1, NodeTypesKept, FormKept
<1>7. CASE UNCHANGED vars
  BY <1>3, <1>7 DEF vars
<1> QED
  BY <1>4, <1>5, <1>6, <1>7, SettingsStepTyped DEF FrontEndsNext, Next, feVars

LEMMA SettingsStart == FrontEndsInit => NodeTypes /\ FormTypes
<1> SUFFICES ASSUME FrontEndsInit PROVE NodeTypes /\ FormTypes
  OBVIOUS
<1>1. /\ up = TRUE /\ identities = 1 /\ file = config
      /\ config = [peerId |-> 1, settings |-> NodeDefaults]
      /\ settingsPage = 0 /\ settingsShown = FALSE /\ form = Blank
      /\ loading = FALSE /\ saving = FALSE /\ saved = FALSE /\ copied = FALSE
      /\ savedTimers = 0 /\ copyTimers = 0 /\ reads = {} /\ puts = {}
  BY DEF FrontEndsInit, Init, SettingsInit, ConfigInit
<1>2. IsConfig(config, 1, identities)
  BY <1>1, DefaultsAreSettings DEF IsConfig
<1>3. IsConfig(form, 0, identities)
  BY <1>1, BlankIsConfig
<1> QED
  BY <1>1, <1>2, <1>3 DEF NodeTypes, FormTypes, ReadsAreAwaited

-----------------------------------------------------------------------------
(* What is left of a session *)

SessionSet ==
    [views : SUBSET {"network", "chat", "settings"}, present : SUBSET Peers,
     moving : SUBSET Peers, polls : Nat, lists : Nat, clicks : Nat, faults : Nat, turns : Nat]

LEMMA SpendingStaysNat ==
    ASSUME left \in SessionSet, NEW what \in {"clicks", "faults", "turns"}, Spend(what)
    PROVE  left' \in SessionSet
<1>1. left[what] > 0 /\ left' = [left EXCEPT ![what] = @ - 1]
  BY DEF Spend
<1>2. left[what] \in Nat
  BY DEF SessionSet
<1>3. left[what] - 1 \in Nat
  BY <1>1, <1>2
<1> QED
  BY <1>1, <1>3 DEF SessionSet

LEMMA SessionStays ==
    ASSUME left \in SessionSet, [FrontEndsNext]_feVars PROVE left' \in SessionSet
<1>1. ASSUME Click \/ Turn \/ NoCost PROVE left' \in SessionSet
  BY <1>1, SpendingStaysNat DEF Click, Turn, NoCost
<1>2. ASSUME NEW ok, MayFail(ok) PROVE left' \in SessionSet
  BY <1>1, <1>2, SpendingStaysNat DEF MayFail
<1>3. CASE AppStep
  <2>1. ASSUME NEW chosen, NEW written, ChoosePrefs(chosen, written) PROVE left' \in SessionSet
    <3>1. /\ left.clicks > 0
          /\ written \/ left.faults > 0
          /\ left' = [left EXCEPT !.clicks = @ - 1, !.faults = IF written THEN @ ELSE @ - 1]
      BY <2>1 DEF ChoosePrefs
    <3>2. left.clicks \in Nat /\ left.faults \in Nat
      BY DEF SessionSet
    <3>3. /\ left.clicks - 1 \in Nat
          /\ (IF written THEN left.faults ELSE left.faults - 1) \in Nat
      BY <3>1, <3>2
    <3> QED
      BY <3>1, <3>3 DEF SessionSet
  <2>2. CASE ShowView \/ ToggleSidebar \/ Reload
    BY <1>1, <2>2 DEF ShowView, ToggleSidebar, Reload
  <2>3. CASE Poll \/ \E i \in DOMAIN polls : PollArrives(i)
    BY <2>3 DEF Poll, PollArrives
  <2>4. ASSUME NEW i, NodeAnswers(i, TRUE) \/ NodeAnswers(i, FALSE) \/ PollFails(i)
        PROVE  left' \in SessionSet
    BY <1>2, <2>4 DEF NodeAnswers, PollFails
  <2> QED
    BY <1>3, <2>1, <2>2, <2>3, <2>4 DEF AppStep
<1>4. CASE NetworkStep
  BY <1>1, <1>2, <1>4 DEF NetworkStep
<1>5. CASE ChatStep
  BY <1>1, <1>5 DEF ChatStep
<1>6. CASE SettingsStep
  BY <1>1, <1>2, <1>6 DEF SettingsStep
<1>7. CASE World
  BY <1>1, <1>2, <1>7 DEF World
<1>8. CASE UNCHANGED vars
  BY <1>8 DEF vars
<1> QED
  BY <1>3, <1>4, <1>5, <1>6, <1>7, <1>8 DEF FrontEndsNext, Next, feVars

-----------------------------------------------------------------------------
(* The form that is shown *)

LEMMA FormInvariant == FrontEndsSpec => [](NodeTypes /\ FormTypes /\ left \in SessionSet)
<1>1. FrontEndsInit => NodeTypes /\ FormTypes /\ left \in SessionSet
  BY SettingsStart, SessionsAreBounded DEF FrontEndsInit, Init, SessionSet
<1>2. NodeTypes /\ FormTypes /\ left \in SessionSet /\ [FrontEndsNext]_feVars
        => (NodeTypes /\ FormTypes /\ left \in SessionSet)'
  BY SettingsStayTyped, SessionStays
<1> QED
  BY <1>1, <1>2, PTL DEF FrontEndsSpec

\* A form changes as another instance is mounted or the page goes, when its
\* user edits it, and when the one answer it waits for arrives.
LEMMA FormChanges ==
    ASSUME FormTypes, left \in SessionSet, FrontEndsNext, form' # form,
           settingsShown, settingsShown', settingsPage' = settingsPage, ~loading
    PROVE  left'.clicks < left.clicks
<1>1. settingsPage \in Nat /\ left.clicks \in Nat
  BY DEF FormTypes, SessionSet
<1>2. ~MountSettings /\ ~UnmountSettings /\ ~ForgetSettings
  BY DEF MountSettings, UnmountSettings, ForgetSettings
<1>3. ~UNCHANGED pageVars
  BY DEF pageVars
<1>4. Next
  BY <1>3 DEF FrontEndsNext, vars, settingsVars
<1>5. ~AppStep
  BY <1>2, <1>3 DEF AppStep, ShowView, ShowNetwork, ShowChat, ShowSettings, ToggleSidebar, Poll,
     Reload, ChoosePrefs, NodeAnswers, PollArrives, PollFails, settingsVars
<1>6. ~NetworkStep /\ ~ChatStep /\ ~World
  BY <1>3 DEF NetworkStep, OutsideNetwork, ChatStep, World, settingsVars
<1>7. ASSUME NEW r \in reads, ReadArrives(r) PROVE FALSE
  BY <1>7 DEF ReadArrives, FormTypes, ReadsAreAwaited
<1>8. \E e \in Typed : Edit(e.field, e.value) /\ Click
  BY <1>4, <1>5, <1>6, <1>7 DEF Next, SettingsStep, ClickSave, ClickCopy, SavedFades, CopiedFades,
     NodeReads, ReadFails, NodeSaves, SaveReturns
<1>9. left' = [left EXCEPT !["clicks"] = @ - 1]
  BY <1>8 DEF Click, Spend
<1>10. left'.clicks = left.clicks - 1
  BY <1>9 DEF SessionSet
<1> QED
  BY <1>1, <1>10

\* A form that was loaded changes under its user's hand only: no call of this
\* page or of an earlier one overwrites what was typed or saved, since a page
\* waits for the only answer that may fill it (SettingsPage.jsx:176-237).
THEOREM EditsStay == FrontEndsSpec => TypedEditsStay
<1>1. NodeTypes /\ FormTypes /\ left \in SessionSet /\ [FrontEndsNext]_feVars
        => [ settingsShown /\ settingsShown' /\ settingsPage' = settingsPage
               /\ ~loading /\ form' # form
             => left'.clicks < left.clicks ]_vars
  <2> SUFFICES ASSUME FormTypes, left \in SessionSet, [FrontEndsNext]_feVars,
                      settingsShown, settingsShown', settingsPage' = settingsPage,
                      ~loading, form' # form
               PROVE  left'.clicks < left.clicks
    OBVIOUS
  <2>1. FrontEndsNext
    BY DEF feVars, vars, settingsVars, pageVars
  <2> QED
    BY <2>1, FormChanges
<1> QED
  BY <1>1, FormInvariant, PTL DEF FrontEndsSpec, TypedEditsStay

-----------------------------------------------------------------------------
(* The canvases *)

\* A canvas that is animated counts least to most peers; its pulse is on an edge.
CanvasTypes(c, least, most) ==
    /\ DOMAIN c = {"frame", "count", "drawn", "mesh", "pulse"}
    /\ DOMAIN c.drawn = {"width", "n"}
    /\ c.drawn.n \in Nat
    /\ c.frame => c.count \in least..most
    /\ OnItsEdges(c)

\* The edges between n peers are among them.
LEMMA MeshesFit ==
    ASSUME NEW n \in Nat, n >= 2, \A at \in Places : n <= Len(at),
           NEW mesh \in Meshes[n]
    PROVE  mesh \subseteq (1..n) \X (1..n)
<1>1. \A at \in Places : n \in 2..Len(at)
  <2> SUFFICES ASSUME NEW at \in Places PROVE n \in 2..Len(at)
    OBVIOUS
  <2>1. at \in Seq(Int \X Int)
    BY PlacesAssumption
  <2>2. Len(at) \in Nat /\ n <= Len(at)
    BY <2>1
  <2> QED
    BY <2>2
<1>2. n \in 2..Len(CHOOSE at \in Places : TRUE)
  <2>1. (CHOOSE at \in Places : TRUE) \in Places
    BY PlacesAssumption
  <2> QED
    BY <1>1, <2>1
<1>3. PICK at \in Places : mesh = Mesh(SubSeq(at, 1, n))
  BY <1>2 DEF Meshes
<1>4. at \in Seq(Int \X Int)
  BY PlacesAssumption
<1>5. n <= Len(at)
  OBVIOUS
<1> DEFINE some == SubSeq(at, 1, n)
<1>6. DOMAIN some = 1..n
  BY <1>4, <1>5
<1>7. mesh \subseteq (DOMAIN some) \X (DOMAIN some)
  <2> HIDE DEF some
  <2>1. mesh = Mesh(some)
    BY <1>3 DEF some
  <2> QED
    BY <2>1 DEF Mesh
<1> HIDE DEF some
<1> QED
  BY <1>6, <1>7

LEMMA MountedCanvas ==
    ASSUME NEW least \in Nat, NEW most \in Nat, NEW count \in least..most
    PROVE  CanvasTypes(Mounted(count), least, most)
<1>1. /\ DOMAIN Mounted(count) = {"frame", "count", "drawn", "mesh", "pulse"}
      /\ Mounted(count).count = count /\ Mounted(count).drawn = Undrawn
  BY DEF Mounted, NoCanvas
<1>2. DOMAIN Undrawn = {"width", "n"} /\ Undrawn.n = 0
  BY DEF Undrawn
<1> QED
  BY <1>1, <1>2 DEF CanvasTypes, OnItsEdges

LEMMA NoCanvasTyped ==
    ASSUME NEW least \in Nat, NEW most \in Nat PROVE CanvasTypes(NoCanvas, least, most)
  BY DEF CanvasTypes, OnItsEdges, NoCanvas, Undrawn

LEMMA CountedCanvas ==
    ASSUME NEW least \in Nat, NEW most \in Nat, NEW count \in least..most,
           NEW c, CanvasTypes(c, least, most)
    PROVE  CanvasTypes(Counted(c, count), least, most)
<1>1. CASE count = c.count
  BY <1>1 DEF Counted
<1>2. CASE count # c.count
  <2> DEFINE d == [c EXCEPT !.count = count, !.drawn.n = 0]
  <2>1. Counted(c, count) = d
    BY <1>2 DEF Counted
  <2>2. DOMAIN d = {"frame", "count", "drawn", "mesh", "pulse"} /\ d.count = count
    BY DEF CanvasTypes
  <2>3. d.drawn = [c.drawn EXCEPT !.n = 0]
    BY DEF CanvasTypes
  <2>4. DOMAIN d.drawn = {"width", "n"} /\ d.drawn.n = 0
    BY <2>3 DEF CanvasTypes
  <2> QED
    BY <2>1, <2>2, <2>4 DEF CanvasTypes, OnItsEdges
<1> QED
  BY <1>1, <1>2

\* What a frame does to a canvas, for which there is room.
LEMMA FrameKeepsCanvas ==
    ASSUME NEW least \in Nat, NEW most \in Nat, NEW floor \in Nat, floor > 0,
           \A k \in least..most :
             /\ Least(floor, k) \in Nat \ {0}
             /\ \A at \in Places : Least(floor, k) <= Len(at),
           NEW c, CanvasTypes(c, least, most), NEW width \in Nat,
           NEW d \in Frames(c, floor, width)
    PROVE  CanvasTypes(d, least, most)
<1> DEFINE drawn == [width |-> width, n |-> Least(floor, c.count)]
<1>1. c.frame
  BY DEF Frames
<1>2. drawn.n \in Nat /\ drawn.n > 0
  BY <1>1 DEF CanvasTypes
<1>3. \A at \in Places : drawn.n <= Len(at)
  BY <1>1 DEF CanvasTypes
<1>4. DOMAIN drawn = {"width", "n"}
  OBVIOUS
<1> HIDE DEF drawn
<1>5. drawn.n \in Nat
  BY <1>2
<1>6. drawn.n >= 2 \/ drawn.n = 1
  BY <1>2
<1>7. CASE d = c
  BY <1>7
<1>8. CASE d \in Glides(c)
  <2>1. CASE d # c
    <3>1. PICK e \in c.mesh : d = [c EXCEPT !.pulse = e]
      BY <1>8, <2>1 DEF Glides
    <3>2. /\ DOMAIN d = DOMAIN c
          /\ d.frame = c.frame /\ d.count = c.count /\ d.drawn = c.drawn /\ d.mesh = c.mesh
          /\ d.pulse \in c.mesh
      BY <3>1 DEF CanvasTypes
    <3> QED
      BY <3>2 DEF CanvasTypes, OnItsEdges
  <2> QED
    BY <1>7, <2>1
<1>9. CASE drawn.n >= 2 /\ d \in Placed(c, drawn)
  <2>1. PICK m \in Meshes[drawn.n] :
               \E e \in m : d = [c EXCEPT !.drawn = drawn, !.mesh = m, !.pulse = e]
    BY <1>9 DEF Placed
  <2>2. m \subseteq (1..drawn.n) \X (1..drawn.n)
    BY <1>3, <1>5, <1>9, MeshesFit
  <2>3. /\ DOMAIN d = DOMAIN c
        /\ d.frame = c.frame /\ d.count = c.count /\ d.drawn = drawn /\ d.mesh = m
        /\ d.pulse \in m
    BY <2>1 DEF CanvasTypes
  <2> QED
    BY <1>5, <1>4, <2>2, <2>3 DEF CanvasTypes, OnItsEdges
<1>10. CASE d = [c EXCEPT !.frame = FALSE, !.drawn = drawn]
  <2>1. DOMAIN d = DOMAIN c /\ ~d.frame /\ d.drawn = drawn
    BY <1>10 DEF CanvasTypes
  <2> QED
    BY <1>5, <1>4, <2>1 DEF CanvasTypes, OnItsEdges
<1>11. \/ d = c
       \/ d \in Glides(c)
       \/ drawn.n >= 2 /\ d \in Placed(c, drawn)
       \/ d = [c EXCEPT !.frame = FALSE, !.drawn = drawn]
  <2>1. CASE width < 2
    BY <1>1, <2>1 DEF Frames
  <2>2. CASE width >= 2 /\ drawn = c.drawn
    BY <1>1, <2>2 DEF Frames, drawn
  <2>3. CASE width >= 2 /\ drawn # c.drawn /\ drawn.n >= 2
    BY <1>1, <2>3 DEF Frames, drawn
  <2>4. CASE width >= 2 /\ drawn # c.drawn /\ drawn.n = 1
    BY <1>1, <2>4 DEF Frames, drawn
  <2>5. drawn.n >= 2 \/ drawn.n = 1
    BY <1>6
  <2> QED
    BY <2>1, <2>2, <2>3, <2>4, <2>5
<1> QED
  BY <1>7, <1>8, <1>9, <1>10, <1>11

-----------------------------------------------------------------------------
(* What the app polls *)

Counts == 0..Cardinality(Peers)

Answers == [node : {Unanswered} \union [status : {"serving", "none"}, peerId : Nat],
            metrics : {Unanswered} \union Counts]

AllPrefs == [theme : Themes, accent : Accents]

AppTypes ==
    /\ collapsed \in BOOLEAN
    /\ prefs \in AllPrefs /\ storedPrefs \in AllPrefs
    /\ metrics \in {Unanswered} \union Counts
    /\ polls \in Seq(Answers)

LEMMA PeersAreCounted ==
    /\ Cardinality(Peers) \in Nat
    /\ \A S \in SUBSET Peers : Cardinality(S) \in Counts
<1>1. Cardinality(Peers) \in Nat
  BY PeersAssumption, FS_CardinalityType
<1>2. ASSUME NEW S \in SUBSET Peers PROVE Cardinality(S) \in Counts
  <2>1. IsFiniteSet(S) /\ Cardinality(S) <= Cardinality(Peers)
    BY PeersAssumption, FS_Subset
  <2>2. Cardinality(S) \in Nat
    BY <2>1, FS_CardinalityType
  <2> QED
    BY <1>1, <2>1, <2>2 DEF Counts
<1> QED
  BY <1>1, <1>2

\* The own entry or another one is taken off the count: at most the peers remain.
LEMMA ConnectedAreCounted == ConnectedCount \in Counts
<1>1. Cardinality(Peers) \in Nat /\ Cardinality(Listed) \in Counts
  BY PeersAreCounted DEF Listed
<1>2. Cardinality(Listed) \in Nat /\ Cardinality(Listed) <= Cardinality(Peers)
  BY <1>1 DEF Counts
<1> QED
  BY <1>1, <1>2 DEF ConnectedCount, Counts

LEMMA WithoutStays ==
    ASSUME NEW S, NEW seq \in Seq(S), NEW i \in DOMAIN seq PROVE Without(seq, i) \in Seq(S)
  BY DEF Without

LEMMA WithoutMembers ==
    ASSUME NEW S, NEW seq \in Seq(S), NEW i \in DOMAIN seq
    PROVE  \A j \in DOMAIN Without(seq, i) : \E k \in DOMAIN seq : Without(seq, i)[j] = seq[k]
<1> DEFINE before == SubSeq(seq, 1, i - 1)
           after == SubSeq(seq, i + 1, Len(seq))
<1>1. Len(seq) \in Nat /\ i \in 1..Len(seq)
  OBVIOUS
<1>2. /\ before \in Seq(S) /\ Len(before) = i - 1
      /\ \A j \in 1..(i - 1) : before[j] = seq[j]
  BY <1>1
<1>3. /\ after \in Seq(S) /\ Len(after) = Len(seq) - i
      /\ \A j \in 1..(Len(seq) - i) : after[j] = seq[i + j]
  BY <1>1
<1>4. Without(seq, i) = before \o after
  BY DEF Without
<1> HIDE DEF before, after
<1>5. SUFFICES ASSUME NEW j \in DOMAIN (before \o after)
               PROVE  \E k \in DOMAIN seq : (before \o after)[j] = seq[k]
  BY <1>4
<1>6. j \in 1..(Len(seq) - 1)
  BY <1>1, <1>2, <1>3
<1>7. CASE j <= i - 1
  <2>1. (before \o after)[j] = seq[j] /\ j \in DOMAIN seq
    BY <1>1, <1>2, <1>3, <1>6, <1>7
  <2> QED
    BY <2>1
<1>8. CASE j > i - 1
  <2>1. j - (i - 1) \in 1..(Len(seq) - i)
    BY <1>1, <1>6, <1>8
  <2>2. (before \o after)[j] = after[j - (i - 1)]
    BY <1>1, <1>2, <1>3, <1>6, <1>8
  <2>3. after[j - (i - 1)] = seq[j + 1] /\ j + 1 \in DOMAIN seq
    BY <1>1, <1>3, <1>6, <2>1
  <2> QED
    BY <2>2, <2>3
<1> QED
  BY <1>1, <1>6, <1>7, <1>8

LEMMA UnansweredPoll == [node |-> Unanswered, metrics |-> Unanswered] \in Answers
  BY DEF Answers

LEMMA PollKept ==
    ASSUME NodeTypes, AppTypes, NEW i \in DOMAIN polls, NEW ok \in BOOLEAN,
           NodeAnswers(i, ok) \/ PollFails(i) \/ PollArrives(i)
    PROVE  AppTypes'
<1>1. polls \in Seq(Answers) /\ polls[i] \in Answers
  BY DEF AppTypes
<1>2. CASE NodeAnswers(i, ok)
  <2>1. UNCHANGED <<collapsed, prefs, storedPrefs, metrics>>
    BY <1>2 DEF NodeAnswers
  <2>2. CASE polls' = [polls EXCEPT ![i].node = NodeInfo(IF ok THEN "serving" ELSE "none")]
    <3>1. config.peerId \in Nat
      BY DEF NodeTypes, IsConfig
    <3>2. NodeInfo(IF ok THEN "serving" ELSE "none")
            \in [status : {"serving", "none"}, peerId : Nat]
      BY <3>1 DEF NodeInfo
    <3>3. [polls[i] EXCEPT !.node = NodeInfo(IF ok THEN "serving" ELSE "none")] \in Answers
      BY <1>1, <3>2 DEF Answers
    <3>4. polls' \in Seq(Answers)
      BY <1>1, <2>2, <3>3
    <3> QED
      BY <2>1, <3>4 DEF AppTypes
  <2>3. CASE polls' = [polls EXCEPT ![i].metrics = IF ok THEN ConnectedCount ELSE 0]
    <3>1. (IF ok THEN ConnectedCount ELSE 0) \in Counts
      BY PeersAreCounted, ConnectedAreCounted DEF Counts
    <3>2. [polls[i] EXCEPT !.metrics = IF ok THEN ConnectedCount ELSE 0] \in Answers
      BY <1>1, <3>1 DEF Answers
    <3>3. polls' \in Seq(Answers)
      BY <1>1, <2>3, <3>2
    <3> QED
      BY <2>1, <3>3 DEF AppTypes
  <2> QED
    BY <1>2, <2>2, <2>3 DEF NodeAnswers
<1>3. CASE PollFails(i) \/ PollArrives(i)
  <2>1. /\ UNCHANGED <<collapsed, prefs, storedPrefs>>
        /\ metrics' = metrics \/ metrics' = polls[i].metrics
        /\ polls' = Without(polls, i)
    BY <1>3 DEF PollFails, PollArrives
  <2>2. polls' \in Seq(Answers)
    BY <1>1, <2>1, WithoutStays
  <2>3. polls[i].metrics \in {Unanswered} \union Counts
    BY <1>1 DEF Answers
  <2> QED
    BY <2>1, <2>2, <2>3 DEF AppTypes
<1> QED
  BY <1>2, <1>3

LEMMA AppStaysTyped ==
    ASSUME NodeTypes, AppTypes, [FrontEndsNext]_feVars PROVE AppTypes'
<1>1. ASSUME UNCHANGED appVars PROVE AppTypes'
  BY <1>1 DEF appVars, AppTypes
<1>2. CASE AppStep
  <2>1. CASE ShowView
    BY <1>1, <2>1 DEF ShowView
  <2>2. CASE ToggleSidebar
    BY <2>2 DEF ToggleSidebar, AppTypes
  <2>3. CASE Poll
    <3>1. polls' = Append(polls, [node |-> Unanswered, metrics |-> Unanswered])
      BY <2>3 DEF Poll
    <3>2. polls' \in Seq(Answers)
      BY <3>1, UnansweredPoll DEF AppTypes
    <3> QED
      BY <2>3, <3>2 DEF Poll, AppTypes
  <2>4. CASE Reload
    <3>1. <<[node |-> Unanswered, metrics |-> Unanswered]>> \in Seq(Answers)
      BY UnansweredPoll
    <3> QED
      BY <2>4, <3>1 DEF Reload, AppTypes
  <2>5. ASSUME NEW chosen \in [theme : Themes, accent : Accents], NEW written \in BOOLEAN,
               ChoosePrefs(chosen, written)
        PROVE  AppTypes'
    BY <2>5 DEF ChoosePrefs, Chosen, AppTypes, AllPrefs
  <2>6. ASSUME NEW i \in DOMAIN polls,
               NodeAnswers(i, TRUE) \/ NodeAnswers(i, FALSE) \/ PollArrives(i) \/ PollFails(i)
        PROVE  AppTypes'
    BY <2>6, PollKept
  <2> QED
    BY <1>2, <2>1, <2>2, <2>3, <2>4, <2>5, <2>6 DEF AppStep
<1>3. CASE NetworkStep \/ ChatStep \/ SettingsStep \/ World \/ UNCHANGED vars
  BY <1>1, <1>3 DEF NetworkStep, OutsideNetwork, ChatStep, SettingsStep, World, vars
<1> QED
  BY <1>2, <1>3 DEF FrontEndsNext, Next, feVars

-----------------------------------------------------------------------------
(* The network page *)

Row == [peer : Peers, status : Statuses]

RowSets == {Unanswered} \union Seq(Row)

NetworkTypes ==
    /\ swarm \in [Peers -> Statuses \union {"gone"}]
    /\ ownListed \in BOOLEAN
    /\ networkShown \in BOOLEAN
    /\ leftOver \subseteq Peers
    /\ peers \in RowSets /\ peerPolls \in Seq(RowSets)
    /\ restartMsg \in {NoMsg, "Restarting", "Restart failed"}

LEMMA RowsAreRows == ASSUME NetworkTypes, NEW rows \in Rows PROVE rows \in RowSets
<1>1. PICK order \in Orders(Listed) :
        rows = [i \in DOMAIN order |-> [peer |-> order[i], status |-> swarm[order[i]]]]
  BY DEF Rows
<1>2. Cardinality(Listed) \in Nat
  BY PeersAreCounted DEF Listed, Counts
<1>3. order \in [1..Cardinality(Listed) -> Listed]
  BY DEF Orders
<1>4. \A p \in Listed : [peer |-> p, status |-> swarm[p]] \in Row
  BY DEF NetworkTypes, Listed, Row
<1>5. rows \in [1..Cardinality(Listed) -> Row]
  BY <1>1, <1>3, <1>4
<1>6. rows \in Seq(Row)
  BY <1>2, <1>5
<1> QED
  BY <1>6 DEF RowSets

\* What is left behind was a row.
LEMMA LeftBehindArePeers ==
    ASSUME NEW old \in Seq(Row), NEW new PROVE LeftBehind(old, new) \subseteq Peers
<1>1. ASSUME NEW i \in DOMAIN old PROVE old[i].peer \in Peers
  <2>1. old[i] \in Row
    OBVIOUS
  <2> QED
    BY <2>1 DEF Row
<1> QED
  BY <1>1 DEF LeftBehind

LEMMA NetworkBlankTyped ==
    ASSUME NetworkTypes, UNCHANGED registryVars, UnmountNetwork \/ \E count : MountNetwork(count)
    PROVE  NetworkTypes'
<1>1. <<Unanswered>> \in Seq(RowSets) /\ <<>> \in Seq(RowSets) /\ Unanswered \in RowSets
  BY DEF RowSets
<1> QED
  BY <1>1 DEF NetworkTypes, registryVars, UnmountNetwork, MountNetwork, NetworkBlank, NoMsg

LEMMA PeerPollTyped ==
    ASSUME NetworkTypes, UNCHANGED registryVars, NEW i,
           \/ PollPeers
           \/ \E rows \in Rows \union {<<>>} : NodeLists(i, rows)
           \/ PeersArrive(i) \/ PeersFail(i)
    PROVE  NetworkTypes'
<1>1. peerPolls \in Seq(RowSets) /\ Unanswered \in RowSets /\ <<>> \in RowSets
  <2>1. <<>> \in Seq(Row)
    OBVIOUS
  <2> QED
    BY <2>1 DEF NetworkTypes, RowSets
<1>2. UNCHANGED <<swarm, ownListed>>
  BY DEF registryVars
<1>3. CASE PollPeers
  <2>1. peerPolls' \in Seq(RowSets)
    BY <1>1, <1>3 DEF PollPeers
  <2> QED
    BY <1>2, <1>3, <2>1 DEF PollPeers, tableVars, NetworkTypes
<1>4. ASSUME NEW rows \in RowSets, NodeLists(i, rows) PROVE NetworkTypes'
  <2>1. peerPolls' \in Seq(RowSets)
    BY <1>1, <1>4 DEF NodeLists
  <2> QED
    BY <1>2, <1>4, <2>1 DEF NodeLists, tableVars, NetworkTypes
<1>5. CASE PeersArrive(i) \/ PeersFail(i)
  <2>1. /\ UNCHANGED <<networkShown, restartMsg>>
        /\ i \in DOMAIN peerPolls /\ peerPolls' = Without(peerPolls, i)
        /\ peers' = peers \/ peers' = peerPolls[i]
    BY <1>5 DEF PeersArrive, PeersFail, tableVars
  <2>2. peerPolls' \in Seq(RowSets)
    BY <1>1, <2>1, WithoutStays
  <2>3. peerPolls[i] \in RowSets
    BY <1>1, <2>1
  <2>4. leftOver' \subseteq Peers
    <3>1. peers = Unanswered \/ peers \in Seq(Row)
      BY DEF NetworkTypes, RowSets
    <3>2. peers # Unanswered => LeftBehind(peers, peers') \subseteq Peers
      BY <3>1, LeftBehindArePeers
    <3> QED
      BY <1>5, <3>2 DEF PeersArrive, PeersFail, tableVars, NetworkTypes
  <2> QED
    BY <1>2, <2>1, <2>2, <2>3, <2>4 DEF NetworkTypes
<1> QED
  BY <1>1, <1>3, <1>4, <1>5, RowsAreRows

LEMMA NetworkStaysTyped ==
    ASSUME NetworkTypes, left \in SessionSet, [FrontEndsNext]_feVars PROVE NetworkTypes'
<1>1. ASSUME UNCHANGED <<networkVars, registryVars>> PROVE NetworkTypes'
  BY <1>1 DEF networkVars, tableVars, registryVars, NetworkTypes
<1>2. CASE AppStep
  <2>1. CASE ShowView
    <3>1. /\ UNCHANGED registryVars
          /\ UnmountNetwork \/ MountNetwork(SwarmCount(metrics)) \/ UNCHANGED networkVars
      BY <2>1 DEF ShowView, ShowNetwork, ShowChat, ShowSettings
    <3> QED
      BY <1>1, <3>1, NetworkBlankTyped
  <2>2. CASE Reload
    <3>1. UNCHANGED registryVars /\ MountNetwork(1)
      BY <2>2 DEF Reload
    <3> QED
      BY <3>1, NetworkBlankTyped
  <2>3. CASE ~ShowView /\ ~Reload
    <3>1. UNCHANGED <<swarm, ownListed, networkShown, peers, leftOver, restartMsg, peerPolls>>
      BY <1>2, <2>3 DEF AppStep, ToggleSidebar, Poll, ChoosePrefs, NodeAnswers, PollArrives,
                PollFails, networkVars, tableVars, registryVars
    <3> QED
      BY <3>1 DEF NetworkTypes
  <2> QED
    BY <2>1, <2>2, <2>3
<1>3. CASE NetworkStep
  <2>1. UNCHANGED registryVars
    BY <1>3 DEF NetworkStep, OutsideNetwork
  <2>2. CASE PollPeers \/ \E i \in DOMAIN peerPolls :
               \/ \E rows \in Rows \union {<<>>} : NodeLists(i, rows)
               \/ PeersArrive(i) \/ PeersFail(i)
    BY <2>1, <2>2, PeerPollTyped
  <2>3. CASE ClickRestart \/ MsgFades \/ CanvasFrame(CanvasWidth)
               \/ \E ok \in BOOLEAN : RestartReturns(ok)
    BY <2>1, <2>3 DEF ClickRestart, MsgFades, CanvasFrame, RestartReturns, NetworkTypes,
              tableVars, registryVars, NoMsg
  <2> QED
    BY <1>3, <2>2, <2>3 DEF NetworkStep
<1>4. CASE ChatStep \/ SettingsStep \/ UNCHANGED vars
  BY <1>1, <1>4 DEF ChatStep, SettingsStep, vars
<1>5. CASE World
  <2>1. ASSUME NEW p \in Peers, NEW status \in Statuses \union {"gone"}, PeerBecomes(p, status),
               UNCHANGED networkVars
        PROVE  NetworkTypes'
    <3>1. swarm' \in [Peers -> Statuses \union {"gone"}]
      BY <2>1 DEF PeerBecomes, NetworkTypes
    <3> QED
      BY <2>1, <3>1 DEF PeerBecomes, networkVars, tableVars, NetworkTypes
  <2>2. ASSUME OwnEntryLapses \/ OwnEntryReturns \/ RegistryBlank, UNCHANGED networkVars
        PROVE  NetworkTypes'
    BY <2>2 DEF OwnEntryLapses, OwnEntryReturns, RegistryBlank, networkVars, tableVars,
              NetworkTypes
  <2>3. ASSUME NEW p \in left.moving, NEW status \in Statuses \union {"gone"},
               PeerBecomes(p, status), UNCHANGED networkVars
        PROVE  NetworkTypes'
    <3>1. p \in Peers
      BY <2>3, left \in SessionSet DEF SessionSet
    <3> QED
      BY <2>1, <2>3, <3>1
  <2> QED
    BY <1>1, <1>5, <2>2, <2>3 DEF World
<1> QED
  BY <1>2, <1>3, <1>4, <1>5 DEF FrontEndsNext, Next, feVars

-----------------------------------------------------------------------------
(* The landing page *)

SiteTypes ==
    /\ section \in Sections \union {"docs"}
    /\ osId \in DOMAIN OSES
    /\ clipboard \in DOMAIN OSES \union {"none"}
    /\ pageWidth \in PageWidths

LEMMA SiteStaysTyped == ASSUME SiteTypes, [FrontEndsNext]_feVars PROVE SiteTypes'
<1>1. ASSUME UNCHANGED siteVars PROVE SiteTypes'
  BY <1>1 DEF siteVars, SiteTypes
<1>2. ASSUME NEW id \in DOMAIN OSES, SelectOs(id) PROVE SiteTypes'
  BY <1>2 DEF SelectOs, SiteTypes
<1>3. ASSUME NEW allowed \in BOOLEAN, Copy(allowed) PROVE SiteTypes'
  BY <1>3 DEF Copy, SiteTypes
<1>4. CASE CopyFades \/ HeroFrame
  BY <1>4 DEF CopyFades, HeroFrame, SiteTypes
<1>5. ASSUME NEW link \in Links, Follow(link) PROVE SiteTypes'
  BY <1>5 DEF Follow, SiteTypes, Links, NavLinks, HeroLinks, CallLinks, FooterLinks, Sections
<1>6. ASSUME NEW agent \in Agents, Visit(agent) PROVE SiteTypes'
  <2>1. DetectOs(agent) \in {"macOS", "Windows", "Linux"}
    BY DEF DetectOs
  <2>2. DOMAIN OSES = {"macOS", "Windows", "Linux"}
    BY DEF OSES
  <2> QED
    BY <1>6, <2>1, <2>2 DEF Visit, SiteTypes, Sections
<1>7. ASSUME NEW w \in PageWidths, ResizeWindow(w) PROVE SiteTypes'
  BY <1>7 DEF ResizeWindow, SiteTypes
<1> QED
  BY <1>1, <1>2, <1>3, <1>4, <1>5, <1>6, <1>7 DEF FrontEndsNext, SiteNext, feVars

-----------------------------------------------------------------------------
(* The pulses *)

CanvasInv ==
    /\ CanvasTypes(canvas, 1, Cardinality(Peers) + 1)
    /\ CanvasTypes(heroCanvas, HeroPeers, HeroPeers)

\* Every swarm that is counted, and the one of the landing page, has room.
LEMMA PeersHaveRoom ==
    \A k \in 1..(Cardinality(Peers) + 1) :
        /\ Least(1, k) \in Nat \ {0}
        /\ \A at \in Places : Least(1, k) <= Len(at)
<1> SUFFICES ASSUME NEW k \in 1..(Cardinality(Peers) + 1)
             PROVE  /\ Least(1, k) \in Nat \ {0}
                    /\ \A at \in Places : Least(1, k) <= Len(at)
  OBVIOUS
<1>1. Cardinality(Peers) \in Nat
  BY PeersAreCounted
<1>2. Least(1, k) = k
  BY <1>1 DEF Least
<1>3. k \in Nat /\ k > 0
  BY <1>1
<1>4. ASSUME NEW at \in Places PROVE k <= Len(at)
  <2>1. Cardinality(Peers) < Len(at)
    BY PeersAssumption
  <2>2. at \in Seq(Int \X Int)
    BY PlacesAssumption
  <2>3. Len(at) \in Nat
    BY <2>2
  <2> QED
    BY <1>1, <2>1, <2>3
<1> QED
  BY <1>2, <1>3, <1>4

LEMMA HeroHasRoom ==
    \A k \in HeroPeers..HeroPeers :
        /\ Least(6, k) \in Nat \ {0}
        /\ \A at \in Places : Least(6, k) <= Len(at)
<1>1. HeroPeers \in Nat
  BY SiteAssumption
<1>2. Least(6, HeroPeers) \in Nat \ {0}
  BY <1>1 DEF Least
<1>3. \A k \in HeroPeers..HeroPeers : k = HeroPeers
  BY <1>1
<1>4. \A at \in Places : Least(6, HeroPeers) <= Len(at)
  BY SiteAssumption
<1> QED
  BY <1>2, <1>3, <1>4

LEMMA SwarmCountFits ==
    ASSUME NEW m \in {Unanswered} \union Counts
    PROVE  SwarmCount(m) \in 1..(Cardinality(Peers) + 1)
  BY PeersAreCounted DEF SwarmCount, Counts

LEMMA CanvasStaysTyped ==
    ASSUME AppTypes, AppTypes', CanvasInv, Next
    PROVE  CanvasTypes(canvas', 1, Cardinality(Peers) + 1)
<1> DEFINE most == Cardinality(Peers) + 1
<1>1. most \in Nat /\ 1 \in 1..most
  BY PeersAreCounted
<1>2. CanvasTypes(canvas, 1, most)
  BY DEF CanvasInv
<1> SUFFICES CanvasTypes(canvas', 1, most)
  OBVIOUS
<1> HIDE DEF most
<1>3. ASSUME NEW count \in 1..most, MountNetwork(count) PROVE CanvasTypes(canvas', 1, most)
  <2>1. canvas' = Mounted(count)
    BY <1>3 DEF MountNetwork
  <2> QED
    BY <1>1, <2>1, MountedCanvas
<1>4. CASE AppStep
  <2>1. CASE ShowView
    <3>1. \/ MountNetwork(SwarmCount(metrics))
          \/ UnmountNetwork
          \/ UNCHANGED networkVars
      BY <2>1 DEF ShowView, ShowNetwork, ShowChat, ShowSettings
    <3>2. SwarmCount(metrics) \in 1..most
      BY SwarmCountFits DEF AppTypes, most
    <3>3. ASSUME UnmountNetwork PROVE CanvasTypes(canvas', 1, most)
      <4>1. canvas' = NoCanvas
        BY <3>3 DEF UnmountNetwork
      <4> QED
        BY <1>1, <4>1, NoCanvasTyped
    <3> QED
      BY <1>2, <1>3, <3>1, <3>2, <3>3 DEF networkVars
  <2>2. CASE Reload
    BY <1>1, <1>3, <2>2 DEF Reload
  <2>3. ASSUME NEW i \in DOMAIN polls, PollArrives(i) PROVE CanvasTypes(canvas', 1, most)
    <3>1. \/ canvas' = Counted(canvas, SwarmCount(metrics'))
          \/ canvas' = canvas
      BY <2>3 DEF PollArrives
    <3>2. SwarmCount(metrics') \in 1..most
      BY SwarmCountFits DEF AppTypes, most
    <3>3. CanvasTypes(Counted(canvas, SwarmCount(metrics')), 1, most)
      BY <1>1, <1>2, <3>2, CountedCanvas
    <3> QED
      BY <1>2, <3>1, <3>3
  <2>4. CASE ~ShowView /\ ~Reload /\ ~(\E i \in DOMAIN polls : PollArrives(i))
    <3>1. UNCHANGED canvas
      BY <1>4, <2>4 DEF AppStep, ToggleSidebar, Poll, ChoosePrefs, NodeAnswers, PollFails,
                networkVars
    <3> QED
      BY <1>2, <3>1
  <2> QED
    BY <2>1, <2>2, <2>3, <2>4
<1>5. CASE NetworkStep
  <2>1. canvas' \in Frames(canvas, 1, CanvasWidth) \/ canvas' = canvas
    BY <1>5 DEF NetworkStep, PollPeers, NodeLists, PeersArrive, PeersFail, ClickRestart,
              RestartReturns, MsgFades, CanvasFrame
  <2>2. CanvasWidth \in Nat
    BY DEF CanvasWidth
  <2>3. \A k \in 1..most :
          /\ Least(1, k) \in Nat \ {0}
          /\ \A at \in Places : Least(1, k) <= Len(at)
    BY PeersHaveRoom DEF most
  <2>4. ASSUME canvas' \in Frames(canvas, 1, CanvasWidth) PROVE CanvasTypes(canvas', 1, most)
    <3>1. 1 \in Nat /\ 1 > 0 /\ most \in Nat
      BY <1>1
    <3> QED
      BY <1>2, <2>2, <2>3, <2>4, <3>1, FrameKeepsCanvas, Zenon
  <2> QED
    BY <1>2, <2>1, <2>4
<1>6. CASE ChatStep \/ SettingsStep \/ World
  BY <1>2, <1>6 DEF ChatStep, SettingsStep, World, networkVars
<1> QED
  BY <1>4, <1>5, <1>6 DEF Next

LEMMA HeroStaysTyped ==
    ASSUME SiteTypes, CanvasInv, SiteNext
    PROVE  CanvasTypes(heroCanvas', HeroPeers, HeroPeers)
<1>1. CanvasTypes(heroCanvas, HeroPeers, HeroPeers)
  BY DEF CanvasInv
<1>2. HeroPeers \in Nat /\ HeroPeers \in HeroPeers..HeroPeers
  BY SiteAssumption
<1>3. pageWidth \in Nat
  BY SiteAssumption DEF SiteTypes
<1>4. \/ heroCanvas' = heroCanvas
      \/ heroCanvas' = NoCanvas
      \/ heroCanvas' = Mounted(HeroPeers)
      \/ heroCanvas' \in Frames(heroCanvas, 6, pageWidth)
  BY DEF SiteNext, SelectOs, Copy, CopyFades, Follow, Visit, ResizeWindow, HeroFrame
<1>5. CanvasTypes(NoCanvas, HeroPeers, HeroPeers)
  BY <1>2, NoCanvasTyped
<1>6. CanvasTypes(Mounted(HeroPeers), HeroPeers, HeroPeers)
  BY <1>2, MountedCanvas
<1>7. ASSUME heroCanvas' \in Frames(heroCanvas, 6, pageWidth)
      PROVE  CanvasTypes(heroCanvas', HeroPeers, HeroPeers)
  BY <1>1, <1>2, <1>3, <1>7, HeroHasRoom, FrameKeepsCanvas
<1> QED
  BY <1>1, <1>4, <1>5, <1>6, <1>7

\* What holds of the app and of the landing page while they are drawn.
DrawnInv ==
    /\ left \in SessionSet
    /\ NodeTypes /\ FormTypes /\ AppTypes /\ NetworkTypes /\ SiteTypes /\ CanvasInv

LEMMA DrawnStarts == FrontEndsInit => DrawnInv
<1> SUFFICES ASSUME FrontEndsInit PROVE DrawnInv
  OBVIOUS
<1>1. NodeTypes /\ FormTypes
  BY SettingsStart
<1>2. AppTypes
  <2>1. <<[node |-> Unanswered, metrics |-> Unanswered]>> \in Seq(Answers)
    BY UnansweredPoll
  <2> QED
    BY <2>1 DEF FrontEndsInit, Init, AppTypes, AllPrefs, DefaultPrefs, Themes, Accents
<1>3. NetworkTypes
  <2>1. <<Unanswered>> \in Seq(RowSets) /\ Unanswered \in RowSets
    BY DEF RowSets
  <2>2. swarm \in [Peers -> Statuses \union {"gone"}]
    BY DEF FrontEndsInit, Init, Statuses
  <2> QED
    BY <2>1, <2>2 DEF FrontEndsInit, Init, NetworkTypes, NoMsg, registryVars, tableVars
<1>4. SiteTypes
  <2>1. pageWidth \in PageWidths
    BY SiteAssumption DEF FrontEndsInit, SiteInit
  <2>2. "macOS" \in DOMAIN OSES
    BY DEF OSES
  <2> QED
    BY <2>1, <2>2 DEF FrontEndsInit, SiteInit, SiteTypes
<1>5. CanvasInv
  <2>1. canvas = Mounted(1) /\ heroCanvas = NoCanvas
    BY DEF FrontEndsInit, Init, SiteInit
  <2>2. CanvasTypes(Mounted(1), 1, Cardinality(Peers) + 1)
    <3>1. 1 \in Nat /\ Cardinality(Peers) + 1 \in Nat /\ 1 \in 1..(Cardinality(Peers) + 1)
      BY PeersAreCounted
    <3> QED
      BY <3>1, MountedCanvas
  <2>3. HeroPeers \in Nat
    BY SiteAssumption
  <2>4. CanvasTypes(NoCanvas, HeroPeers, HeroPeers)
    BY <2>3, NoCanvasTyped
  <2> QED
    BY <2>1, <2>2, <2>4 DEF CanvasInv
<1>6. left \in SessionSet
  BY SessionsAreBounded DEF FrontEndsInit, Init, SessionSet
<1> QED
  BY <1>1, <1>2, <1>3, <1>4, <1>5, <1>6 DEF DrawnInv

LEMMA DrawnKept == ASSUME DrawnInv, [FrontEndsNext]_feVars PROVE DrawnInv'
<1>1. NodeTypes' /\ FormTypes'
  BY SettingsStayTyped DEF DrawnInv
<1>2. AppTypes'
  BY AppStaysTyped DEF DrawnInv
<1>3. NetworkTypes' /\ SiteTypes'
  BY NetworkStaysTyped, SiteStaysTyped DEF DrawnInv
<1>4. CanvasInv'
  <2>1. ASSUME UNCHANGED canvas PROVE CanvasTypes(canvas', 1, Cardinality(Peers) + 1)
    BY <2>1 DEF DrawnInv, CanvasInv
  <2>2. ASSUME UNCHANGED heroCanvas PROVE CanvasTypes(heroCanvas', HeroPeers, HeroPeers)
    BY <2>2 DEF DrawnInv, CanvasInv
  <2>3. CASE Next /\ UNCHANGED siteVars
    <3>1. CanvasTypes(canvas', 1, Cardinality(Peers) + 1)
      BY <1>2, <2>3, CanvasStaysTyped DEF DrawnInv
    <3> QED
      BY <2>2, <2>3, <3>1 DEF CanvasInv, siteVars
  <2>4. CASE SiteNext /\ UNCHANGED vars
    <3>1. CanvasTypes(heroCanvas', HeroPeers, HeroPeers)
      BY <2>4, HeroStaysTyped DEF DrawnInv
    <3> QED
      BY <2>1, <2>4, <3>1 DEF CanvasInv, vars, networkVars
  <2>5. CASE UNCHANGED feVars
    BY <2>1, <2>2, <2>5 DEF CanvasInv, feVars, vars, networkVars, siteVars
  <2> QED
    BY <2>3, <2>4, <2>5 DEF FrontEndsNext
<1>5. left' \in SessionSet
  BY SessionStays DEF DrawnInv
<1> QED
  BY <1>1, <1>2, <1>3, <1>4, <1>5 DEF DrawnInv

LEMMA DrawnInvariant == FrontEndsSpec => []DrawnInv
  BY DrawnStarts, DrawnKept, PTL DEF FrontEndsSpec

\* The pulses that are drawn run along edges between peers that are drawn, in
\* the dashboard and on the landing page, for every number of peers and every
\* placement: a count that changes, a width that changes and a page that is
\* left make no frame draw a pulse of another mesh (SwarmCanvas.jsx:16-57,
\* 111-132).
THEOREM PulsesStayOnEdges == FrontEndsSpec => []PulsesFollowEdges
<1>1. DrawnInv => PulsesFollowEdges
  BY DEF DrawnInv, CanvasInv, CanvasTypes, PulsesFollowEdges
<1> QED
  BY <1>1, DrawnInvariant, PTL

-----------------------------------------------------------------------------
(* Rows that are left behind *)

\* Peers whose name another one announces, too.
Namesakes == {p \in Peers : \E q \in Peers \ {p} : PeerName[q] = PeerName[p]}

\* An answer to the poll of the peers, of which each has one row.
OneRowEach(rows) ==
    rows # Unanswered =>
        \A i, j \in DOMAIN rows : rows[i].peer = rows[j].peer => i = j

TableInv ==
    /\ OneRowEach(peers)
    /\ \A i \in DOMAIN peerPolls : OneRowEach(peerPolls[i])
    /\ leftOver \subseteq Namesakes

LEMMA ListedOnce == ASSUME NEW rows \in Rows \union {<<>>} PROVE OneRowEach(rows)
<1>1. CASE rows \in Rows
  <2>1. PICK order \in Orders(Listed) :
          rows = [i \in DOMAIN order |-> [peer |-> order[i], status |-> swarm[order[i]]]]
    BY <1>1 DEF Rows
  <2>2. \A i, j \in DOMAIN order : order[i] = order[j] => i = j
    BY DEF Orders
  <2> QED
    BY <2>1, <2>2 DEF OneRowEach
<1>2. CASE rows = <<>>
  BY <1>2 DEF OneRowEach
<1> QED
  BY <1>1, <1>2

LEMMA LeftBehindShareNames ==
    ASSUME NEW old \in Seq(Row), OneRowEach(old), old # Unanswered, NEW new
    PROVE  LeftBehind(old, new) \subseteq Namesakes
<1>1. ASSUME NEW i \in DOMAIN old, NEW k \in (i + 1)..Len(old),
             PeerName[old[k].peer] = PeerName[old[i].peer]
      PROVE  old[i].peer \in Namesakes
  <2>1. i \in 1..Len(old) /\ Len(old) \in Nat
    OBVIOUS
  <2>2. k \in DOMAIN old /\ k # i
    BY <2>1
  <2>3. old[i] \in Row /\ old[k] \in Row
    BY <2>2
  <2>4. old[k].peer # old[i].peer
    BY <2>2 DEF OneRowEach
  <2> QED
    BY <1>1, <2>3, <2>4 DEF Row, Namesakes
<1> QED
  BY <1>1 DEF LeftBehind

LEMMA TableKept == ASSUME NetworkTypes, TableInv, [FrontEndsNext]_feVars PROVE TableInv'
<1>1. ASSUME UNCHANGED <<peers, leftOver, peerPolls>> PROVE TableInv'
  BY <1>1 DEF TableInv, OneRowEach
<1>2. ASSUME UnmountNetwork \/ \E count : MountNetwork(count) PROVE TableInv'
  <2>1. /\ peers' = Unanswered /\ leftOver' = {}
        /\ peerPolls' = <<>> \/ peerPolls' = <<Unanswered>>
    BY <1>2 DEF UnmountNetwork, MountNetwork, NetworkBlank
  <2>2. \A i \in DOMAIN peerPolls' : peerPolls'[i] = Unanswered
    BY <2>1
  <2> QED
    BY <2>1, <2>2 DEF TableInv, OneRowEach
<1>3. peerPolls \in Seq(RowSets) /\ (peers = Unanswered \/ peers \in Seq(Row))
  BY DEF NetworkTypes, RowSets
<1>4. CASE PollPeers
  <2>1. \A i \in DOMAIN peerPolls' :
          peerPolls'[i] = Unanswered \/ (i \in DOMAIN peerPolls /\ peerPolls'[i] = peerPolls[i])
    BY <1>3, <1>4 DEF PollPeers
  <2> QED
    BY <1>4, <2>1 DEF PollPeers, tableVars, TableInv, OneRowEach
<1>5. ASSUME NEW rows \in Rows \union {<<>>}, NEW i \in DOMAIN peerPolls, NodeLists(i, rows)
      PROVE  TableInv'
  <2>1. \A j \in DOMAIN peerPolls' :
          peerPolls'[j] = rows \/ (j \in DOMAIN peerPolls /\ peerPolls'[j] = peerPolls[j])
    BY <1>3, <1>5 DEF NodeLists
  <2> QED
    BY <1>5, <2>1, ListedOnce DEF NodeLists, tableVars, TableInv, OneRowEach
<1>6. ASSUME NEW i \in DOMAIN peerPolls, PeersArrive(i) \/ PeersFail(i) PROVE TableInv'
  <2>1. /\ peerPolls' = Without(peerPolls, i)
        /\ peers' = peers \/ peers' = peerPolls[i]
        /\ \/ leftOver' = leftOver \/ leftOver' = {}
           \/ peers # Unanswered /\ leftOver' = leftOver \union LeftBehind(peers, peers')
    BY <1>6 DEF PeersArrive, PeersFail, tableVars
  <2>2. \A j \in DOMAIN peerPolls' : \E k \in DOMAIN peerPolls : peerPolls'[j] = peerPolls[k]
    BY <1>3, <2>1, WithoutMembers
  <2>3. leftOver' \subseteq Namesakes
    BY <1>3, <2>1, LeftBehindShareNames DEF TableInv
  <2> QED
    BY <2>1, <2>2, <2>3 DEF TableInv, OneRowEach
<1>7. CASE AppStep
  <2>1. CASE ShowView
    <3>1. UnmountNetwork \/ MountNetwork(SwarmCount(metrics)) \/ UNCHANGED networkVars
      BY <2>1 DEF ShowView, ShowNetwork, ShowChat, ShowSettings
    <3> QED
      BY <1>1, <1>2, <3>1 DEF networkVars, tableVars
  <2>2. CASE Reload
    BY <1>2, <2>2 DEF Reload
  <2>3. CASE ~ShowView /\ ~Reload
    <3>1. UNCHANGED <<peers, leftOver, peerPolls>>
      BY <1>7, <2>3 DEF AppStep, ToggleSidebar, Poll, ChoosePrefs, NodeAnswers, PollArrives,
                PollFails, networkVars, tableVars
    <3> QED
      BY <1>1, <3>1
  <2> QED
    BY <2>1, <2>2, <2>3
<1>8. CASE NetworkStep
  <2>1. CASE \/ PollPeers
             \/ \E i \in DOMAIN peerPolls :
                    \/ \E rows \in Rows \union {<<>>} : NodeLists(i, rows)
                    \/ PeersArrive(i) \/ PeersFail(i)
    BY <1>4, <1>5, <1>6, <2>1
  <2>2. CASE ClickRestart \/ MsgFades \/ CanvasFrame(CanvasWidth)
               \/ \E ok \in BOOLEAN : RestartReturns(ok)
    BY <1>1, <2>2 DEF ClickRestart, MsgFades, CanvasFrame, RestartReturns, tableVars
  <2> QED
    BY <1>8, <2>1, <2>2 DEF NetworkStep
<1>9. CASE ChatStep \/ SettingsStep \/ World \/ UNCHANGED vars
  <2>1. UNCHANGED networkVars
    BY <1>9 DEF ChatStep, SettingsStep, World, vars
  <2> QED
    BY <1>1, <2>1 DEF networkVars, tableVars
<1> QED
  BY <1>7, <1>8, <1>9 DEF FrontEndsNext, Next, feVars

\* The only rows that the table keeps although React should have removed them
\* are of peers whose name another one announces: a swarm whose nodes have
\* names of their own shows exactly the rows of the last answer
\* (NetworkPage.jsx:285, server.py:261, nodeconfig.py:10).
THEOREM LeftOversAreNamesakes == FrontEndsSpec => [](leftOver \subseteq Namesakes)
<1>1. FrontEndsInit => TableInv
  <2> SUFFICES ASSUME FrontEndsInit PROVE TableInv
    OBVIOUS
  <2>1. peers = Unanswered /\ leftOver = {} /\ peerPolls = <<Unanswered>>
    BY DEF FrontEndsInit, Init
  <2>2. \A i \in DOMAIN peerPolls : peerPolls[i] = Unanswered
    BY <2>1
  <2> QED
    BY <2>1, <2>2 DEF TableInv, OneRowEach
<1>2. DrawnInv /\ TableInv /\ [FrontEndsNext]_feVars => TableInv'
  BY TableKept DEF DrawnInv
<1>3. TableInv => leftOver \subseteq Namesakes
  BY DEF TableInv
<1> QED
  BY <1>1, <1>2, <1>3, DrawnInvariant, PTL DEF FrontEndsSpec

-----------------------------------------------------------------------------
(* What the variables range over *)

\* The app shows one page at a time.
OnePageShown ==
    /\ networkShown \in BOOLEAN /\ chatShown \in BOOLEAN /\ settingsShown \in BOOLEAN
    /\ networkShown => ~chatShown /\ ~settingsShown
    /\ chatShown => ~settingsShown
    /\ networkShown \/ chatShown \/ settingsShown

LEMMA OnePageStays == ASSUME OnePageShown, [FrontEndsNext]_feVars PROVE OnePageShown'
<1>1. ASSUME UNCHANGED <<networkShown, chatShown, settingsShown>> PROVE OnePageShown'
  BY <1>1 DEF OnePageShown
<1>2. ASSUME UNCHANGED <<networkVars, chatVars, settingsVars>> PROVE OnePageShown'
  BY <1>1, <1>2 DEF networkVars, chatVars, settingsVars, pageVars
<1>3. CASE ShowView
  <2>1. CASE ShowNetwork
    <3>1. /\ networkShown' = TRUE
          /\ \/ chatShown /\ chatShown' = FALSE /\ settingsShown' = settingsShown
             \/ settingsShown /\ settingsShown' = FALSE /\ chatShown' = chatShown
      BY <2>1 DEF ShowNetwork, MountNetwork, UnmountChat, UnmountSettings, chatVars, pageVars
    <3>2. networkShown' /\ ~chatShown' /\ ~settingsShown'
      BY <3>1 DEF OnePageShown
    <3>3. /\ networkShown' \in BOOLEAN /\ chatShown' \in BOOLEAN
          /\ settingsShown' \in BOOLEAN
      BY <3>1 DEF OnePageShown
    <3> QED
      BY <3>2, <3>3 DEF OnePageShown
  <2>2. CASE ShowChat
    <3>1. /\ chatShown' = TRUE
          /\ \/ networkShown /\ networkShown' = FALSE /\ settingsShown' = settingsShown
             \/ settingsShown /\ settingsShown' = FALSE /\ networkShown' = networkShown
      BY <2>2 DEF ShowChat, MountChat, UnmountNetwork, UnmountSettings, networkVars, pageVars
    <3>2. chatShown' /\ ~networkShown' /\ ~settingsShown'
      BY <3>1 DEF OnePageShown
    <3>3. /\ chatShown' \in BOOLEAN /\ networkShown' \in BOOLEAN
          /\ settingsShown' \in BOOLEAN
      BY <3>1 DEF OnePageShown
    <3> QED
      BY <3>2, <3>3 DEF OnePageShown
  <2>3. CASE ShowSettings
    <3>1. /\ settingsShown' = TRUE
          /\ \/ networkShown /\ networkShown' = FALSE /\ chatShown' = chatShown
             \/ chatShown /\ chatShown' = FALSE /\ networkShown' = networkShown
      BY <2>3 DEF ShowSettings, MountSettings, UnmountNetwork, UnmountChat, networkVars, chatVars
    <3>2. settingsShown' /\ ~networkShown' /\ ~chatShown'
      BY <3>1 DEF OnePageShown
    <3>3. /\ settingsShown' \in BOOLEAN /\ networkShown' \in BOOLEAN
          /\ chatShown' \in BOOLEAN
      BY <3>1 DEF OnePageShown
    <3> QED
      BY <3>2, <3>3 DEF OnePageShown
  <2> QED
    BY <1>3, <2>1, <2>2, <2>3 DEF ShowView
<1>4. CASE Reload
  BY <1>4 DEF Reload, ForgetChat, ForgetSettings, MountNetwork, OnePageShown
<1>5. CASE AppStep /\ ~ShowView /\ ~Reload
  <2>1. UNCHANGED <<networkShown, chatVars, settingsVars>>
    BY <1>5 DEF AppStep, ToggleSidebar, Poll, ChoosePrefs, NodeAnswers, PollArrives, PollFails,
              networkVars
  <2> QED
    BY <1>1, <2>1 DEF chatVars, settingsVars, pageVars
<1>6. CASE NetworkStep
  <2>1. UNCHANGED <<networkShown, chatVars, settingsVars>>
    BY <1>6 DEF NetworkStep, OutsideNetwork, PollPeers, NodeLists, PeersArrive, PeersFail,
              ClickRestart, RestartReturns, MsgFades, CanvasFrame
  <2> QED
    BY <1>1, <2>1 DEF chatVars, settingsVars, pageVars
<1>7. CASE ChatStep
  <2>1. UNCHANGED <<networkVars, chatShown, settingsVars>>
    BY <1>7 DEF ChatStep, Send, NewChat, Receive, ReceiveLate
  <2> QED
    BY <1>1, <2>1 DEF networkVars, settingsVars, pageVars
<1>8. CASE SettingsStep
  <2>1. UNCHANGED <<networkVars, chatVars, settingsShown>>
    BY <1>8 DEF SettingsStep, Edit, ClickSave, ClickCopy, SavedFades, CopiedFades, NodeReads,
              ReadArrives, ReadFails, NodeSaves, SaveReturns
  <2> QED
    BY <1>1, <2>1 DEF networkVars, chatVars
<1>9. CASE World \/ UNCHANGED vars
  <2>1. UNCHANGED <<networkVars, chatVars, pageVars>>
    BY <1>9 DEF World, vars, settingsVars
  <2> QED
    BY <1>1, <2>1 DEF networkVars, chatVars, pageVars
<1> QED
  BY <1>3, <1>4, <1>5, <1>6, <1>7, <1>8, <1>9 DEF FrontEndsNext, Next, AppStep, feVars

\* The sidebar's three pages, of which one is shown.
LEMMA OnePageIsOne ==
    ASSUME OnePageShown
    PROVE  Cardinality({v \in {"network", "chat", "settings"} :
                          \/ v = "network" /\ networkShown
                          \/ v = "chat" /\ chatShown
                          \/ v = "settings" /\ settingsShown}) = 1
<1> DEFINE shown == {v \in {"network", "chat", "settings"} :
                       \/ v = "network" /\ networkShown
                       \/ v = "chat" /\ chatShown
                       \/ v = "settings" /\ settingsShown}
<1>1. shown = {"network"} \/ shown = {"chat"} \/ shown = {"settings"}
  BY DEF OnePageShown
<1> HIDE DEF shown
<1>2. Cardinality(shown) = 1
  BY <1>1, FS_Singleton
<1> QED
  BY <1>2 DEF shown

LEMMA TypesFollow ==
    ASSUME DrawnInv, OnePageShown, ChatInv PROVE TypeOK
<1>1. NodeTypes /\ FormTypes /\ AppTypes /\ NetworkTypes /\ SiteTypes
  BY DEF DrawnInv
<1>2. /\ up \in BOOLEAN /\ identities \in Nat
      /\ config.peerId \in 1..identities /\ DOMAIN config.settings = Setting
      /\ file = Unreadable \/ DOMAIN file = {"peerId", "settings"}
  BY <1>1 DEF NodeTypes, IsConfig, IsSettings
<1>3. /\ settingsPage \in Nat /\ form.peerId \in 0..identities
      /\ savedTimers \in Nat /\ copyTimers \in Nat
  BY <1>1 DEF FormTypes, IsConfig
<1>4. \A f \in Setting \ {"name", "port"} :
        form.settings[f] \in Control(f) \union {NodeDefaults[f], BrowserDefaults[f]}
  BY <1>1 DEF FormTypes, IsConfig, IsSettings, Allowed
<1>5. {loading, saving, saved, copied} \subseteq BOOLEAN
  BY <1>1, Zenon DEF FormTypes
<1>6. /\ \A r \in reads : r.page <= settingsPage
      /\ \A p \in puts : p.page <= settingsPage
  BY <1>1 DEF FormTypes, IsRead, IsPut
<1>7. /\ swarm \in [Peers -> Statuses \union {"gone"}]
      /\ ownListed \in BOOLEAN
      /\ peers = Unanswered \/ peers \in Seq([peer : Peers, status : Statuses])
      /\ leftOver \subseteq Peers
      /\ restartMsg \in {NoMsg, "Restarting", "Restart failed"}
  BY <1>1 DEF NetworkTypes, RowSets, Row
<1>8. chat \in Seq(Message) /\ stored \in Seq(Message)
  BY DEF ChatInv, ChatTypes
<1>9. /\ prefs \in [theme : Themes, accent : Accents]
      /\ storedPrefs \in [theme : Themes, accent : Accents]
  BY <1>1 DEF AppTypes, AllPrefs
<1>10. /\ section \in Sections \union {"docs"}
       /\ {osId, clipboard} \subseteq (DOMAIN OSES) \union {"none"}
  BY <1>1 DEF SiteTypes
<1> QED
  BY <1>2, <1>3, <1>4, <1>5, <1>6, <1>7, <1>8, <1>9, <1>10, OnePageIsOne DEF TypeOK

\* The dashboard and the landing page are typed whatever their users, the node
\* and the network do: the settings the form holds are ones its controls can
\* show or defaults, the identity in it is one the node has had, and exactly
\* one page is mounted (App.jsx:82-90, SettingsPage.jsx:176-237).
THEOREM FrontEndTypes == FrontEndsSpec => []TypeOK
<1>1. FrontEndsInit => OnePageShown
  BY DEF FrontEndsInit, Init, ChatInit, SettingsInit, OnePageShown
<1>2. OnePageShown /\ [FrontEndsNext]_feVars => OnePageShown'
  BY OnePageStays
<1>3. DrawnInv /\ OnePageShown /\ ChatInv => TypeOK
  BY TypesFollow
<1> QED
  BY <1>1, <1>2, <1>3, DrawnInvariant, FrontEndsImplementChat, ChatInvariant, PTL DEF FrontEndsSpec

=============================================================================
