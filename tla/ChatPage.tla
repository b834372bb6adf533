------------------------------ MODULE ChatPage ------------------------------
(***************************************************************************)
(* The chat page of the node's dashboard (app/src/ChatPage.jsx).  The app  *)
(* mounts the page when the user chooses it and unmounts it when he goes   *)
(* elsewhere; the conversation lives in the state of the mounted instance  *)
(* and, as a copy, in localStorage.  A question that was sent goes on      *)
(* without the instance that sent it.                                      *)
(*                                                                         *)
(* A text is opaque.  An answer is named by the question it answers, or is *)
(* one of the two fixed texts of the page: no tokens, or no swarm.  What   *)
(* is being typed, the routing footer and localStorage errors are left out. *)
(***************************************************************************)
EXTENDS Naturals, Sequences, FiniteSets

CONSTANTS Texts,       \* what users ask
          NoTokens,    \* "(no tokens returned)"
          Unreachable  \* "Couldn't reach the swarm right now..."

ASSUME FixedTexts == /\ NoTokens \notin Texts
                     /\ Unreachable \notin Texts

VARIABLES
    chatPage,   \* instances of the page mounted so far; the last is the one below
    chatShown,  \* it is mounted
    chat,       \* the messages it shows
    sending,    \* it waits for an answer
    stored,     \* localStorage.eujeno_chat
    asked       \* questions on their way: [page, list], list being what the page showed

chatVars == <<chatPage, chatShown, chat, sending, stored, asked>>

-----------------------------------------------------------------------------
(* Messages *)

Question(t) == [role |-> "user", content |-> t, pending |-> FALSE]
Answer(a) == [role |-> "assistant", content |-> a, pending |-> FALSE]
Placeholder == [role |-> "assistant", content |-> "", pending |-> TRUE]

Message ==
    {Question(t) : t \in Texts} \union
    {Answer(a) : a \in Texts \union {NoTokens, Unreachable}} \union {Placeholder}

\* The call ends with the question of the list it was made for; the model
\* answers that one, well or with no tokens, and the call fails when the node
\* or its swarm does.  The turns before it, placeholders left out, are sent as
\* well and change nothing here.
Replies(r) == {r.list[Len(r.list) - 1].content, NoTokens, Unreachable}

PendingIn(list) == {i \in DOMAIN list : list[i].pending}

\* A slip: the first placeholder gives way.
SettledFirst(list, a) ==
    [i \in DOMAIN list |->
        IF i \in PendingIn(list) /\ \A j \in PendingIn(list) : i <= j
        THEN Answer(a) ELSE list[i]]

\* The last placeholder gives way to the answer; a list without one stays.
Settled(list, a) ==
    [i \in DOMAIN list |->
        IF i \in PendingIn(list) /\ \A j \in PendingIn(list) : j <= i
        THEN Answer(a) ELSE list[i]]

-----------------------------------------------------------------------------
(* The page *)

\* useState(() => loadChat()): placeholders that were stored are loaded too.
MountChat ==
    /\ ~chatShown
    /\ chatPage' = chatPage + 1
    /\ chatShown' = TRUE
    /\ chat' = stored
    /\ UNCHANGED <<sending, stored, asked>>

UnmountChat ==
    /\ chatShown
    /\ chatShown' = FALSE
    /\ chat' = <<>>
    /\ sending' = FALSE
    /\ UNCHANGED <<chatPage, stored, asked>>

\* sendText up to its await: the question and a placeholder, shown and stored.
Send(t) ==
    /\ chatShown
    /\ ~sending
    /\ chat' = chat \o <<Question(t), Placeholder>>
    /\ stored' = chat'
    /\ sending' = TRUE
    /\ asked' = asked \union {[page |-> chatPage, list |-> chat']}
    /\ UNCHANGED <<chatPage, chatShown>>

\* sendText after its await, on the instance that asked.
Receive(r, a) ==
    /\ r \in asked
    /\ chatShown /\ r.page = chatPage
    /\ asked' = asked \ {r}
    /\ chat' = Settled(chat, a)
    /\ stored' = chat'
    /\ sending' = FALSE
    /\ UNCHANGED <<chatPage, chatShown>>

\* The same after that instance is gone.  React drops the update of its
\* state, but may already have run the function that computes it, and that
\* function stores its result: whether it does depends on what React had
\* left to render when the page went away.
ReceiveLate(r, a) ==
    /\ r \in asked
    /\ ~(chatShown /\ r.page = chatPage)
    /\ asked' = asked \ {r}
    /\ stored' \in {stored, Settled(r.list, a)}
    /\ UNCHANGED <<chatPage, chatShown, chat, sending>>

\* A slip: a chat can be cleared while its answer is awaited.
NewChatAnytime ==
    /\ chatShown
    /\ chat # <<>>
    /\ chat' = <<>>
    /\ stored' = <<>>
    /\ UNCHANGED <<chatPage, chatShown, sending, asked>>

\* newChat, whose button is disabled while an answer is awaited, and on an
\* empty chat.
NewChat ==
    /\ chatShown
    /\ ~sending
    /\ chat # <<>>
    /\ chat' = <<>>
    /\ stored' = <<>>
    /\ UNCHANGED <<chatPage, chatShown, sending, asked>>

\* The tab is reloaded: nobody waits for the answers any more.
ForgetChat ==
    /\ chatShown' = FALSE
    /\ chat' = <<>>
    /\ sending' = FALSE
    /\ asked' = {}
    /\ UNCHANGED <<chatPage, stored>>

ChatInit ==
    /\ chatPage = 0
    /\ chatShown = FALSE
    /\ chat = <<>>
    /\ sending = FALSE
    /\ stored = <<>>
    /\ asked = {}

ChatNext ==
    \/ MountChat \/ UnmountChat \/ NewChat \/ ForgetChat
    \/ \E t \in Texts : Send(t)
    \/ \E r \in asked : \E a \in Replies(r) : Receive(r, a) \/ ReceiveLate(r, a)

ChatSpec == ChatInit /\ [][ChatNext]_chatVars

-----------------------------------------------------------------------------
(* What is displayed *)

\* A bubble: a placeholder shows dots, and sits on the side of the model.
Bubble(m) == [side |-> m.role, text |-> IF m.pending THEN "dots" ELSE m.content]

Bubbles == [i \in DOMAIN chat |-> Bubble(chat[i])]

CanAsk == chatShown /\ ~sending
CanStartOver == chatShown /\ ~sending /\ chat # <<>>

-----------------------------------------------------------------------------
(* Properties *)

\* A conversation: questions, each with its answer, one of the fixed texts, or
\* a placeholder under it.
Paired(list) ==
    /\ Len(list) % 2 = 0
    /\ \A i \in DOMAIN list :
        IF i % 2 = 1 THEN \E t \in Texts : list[i] = Question(t)
        ELSE \/ list[i] = Placeholder
             \/ \E a \in {list[i - 1].content, NoTokens, Unreachable} : list[i] = Answer(a)

\* No answer is ever under a question other than its own, in what is shown,
\* in what is stored and in what a call in flight would store, although calls
\* outlive the page that made them, placeholders stay behind, and a later page
\* asks on top of them (ChatPage.jsx:66-129).
AnswersUnderTheirQuestion ==
    \A list \in {chat, stored} \union {r.list : r \in asked} : Paired(list)

\* A page waits exactly for the one question it asked, and shows the list that
\* question is the end of: nothing is sent, cleared or settled in between
\* (ChatPage.jsx:68, 139).
AskingIsShown ==
    /\ sending => \E r \in asked : r.page = chatPage
    /\ \A r \in asked :
        /\ r.page <= chatPage
        /\ chatShown /\ r.page = chatPage => sending /\ chat = r.list
        /\ \A q \in asked : q.page = r.page => q = r

=============================================================================
