------------------------------ MODULE NodeApp ------------------------------
(***************************************************************************)
(* The dashboard of a node (app/src): App.jsx, which polls the node, keeps *)
(* the theme and mounts one page at a time, its sidebar, and the pages,    *)
(* over a node that stops, starts and keeps its configuration in a file.   *)
(*                                                                         *)
(* One tab is open.  A session says where its user goes and how much       *)
(* happens: TLC explores one session after the other, so that the pages    *)
(* are not multiplied with each other.                                     *)
(***************************************************************************)
EXTENDS SettingsPage, NetworkPage, ChatPage

CONSTANTS
    Sessions,  \* [views, present, moving, polls, lists, clicks, faults, turns]: the
               \* pages the user may go to, the peers that are there from the start
               \* and those that come, go and change (with none, the registry rests),
               \* how many polls of the node and of its peers may be under way at a
               \* time, and how many clicks, failed steps and changes of the swarm or
               \* of the node's process there may be
    Typed      \* [field, value] that the user may enter in the settings

ASSUME SessionsAreBounded ==
    Sessions \subseteq [views : SUBSET {"network", "chat", "settings"}, present : SUBSET Peers,
                        moving : SUBSET Peers, polls : Nat, lists : Nat, clicks : Nat, faults : Nat, turns : Nat]

VARIABLES
    collapsed,    \* the sidebar
    prefs,        \* theme and accent
    storedPrefs,  \* localStorage.eujeno_theme
    node,         \* what the last poll to arrive said of /api/node
    metrics,      \* and of /api/metrics: the connected peers
    polls,        \* [node, metrics] under way, in the order they began
    left,         \* the session, with what is left of it
    failed        \* history: some step failed

appVars == <<collapsed, prefs, storedPrefs, node, metrics, polls>>
vars == <<appVars, settingsVars, networkVars, chatVars, registryVars, left, failed>>

Themes == {"light", "dark"}
Accents == {"indigo", "teal"}

DefaultPrefs == [theme |-> "light", accent |-> "indigo"]

-----------------------------------------------------------------------------
(* Bounds *)

Spend(what) == left[what] > 0 /\ left' = [left EXCEPT ![what] = @ - 1]

NoCost == UNCHANGED <<left, failed>>
Click == Spend("clicks") /\ UNCHANGED failed
Turn == Spend("turns") /\ UNCHANGED failed

\* A step of the environment that may go wrong, as often as the session says.
MayFail(ok) == IF ok THEN NoCost ELSE Spend("faults") /\ failed' = TRUE

-----------------------------------------------------------------------------
(* The view and the theme *)

View ==
    CASE networkShown -> "network"
      [] chatShown -> "chat"
      [] settingsShown -> "settings"

\* The sidebar lights the page that is shown; its card says "Connected" of
\* whatever node it knows or does not know.
Sidebar ==
    [labels |-> ~collapsed,
     lit |-> View,
     status |-> "Connected",
     peerId |-> IF node = Unanswered THEN "none" ELSE node.peerId,
     peers |-> IF metrics = Unanswered THEN 0 ELSE metrics]

\* setView: one page is unmounted, another one mounted.
ShowNetwork ==
    /\ "network" \in left.views
    /\ ~networkShown
    /\ MountNetwork(SwarmCount(metrics))
    /\ \/ UnmountChat /\ UNCHANGED pageVars
       \/ UnmountSettings /\ UNCHANGED chatVars

ShowChat ==
    /\ "chat" \in left.views
    /\ MountChat
    /\ \/ UnmountNetwork /\ UNCHANGED pageVars
       \/ UnmountSettings /\ UNCHANGED networkVars

ShowSettings ==
    /\ "settings" \in left.views
    /\ MountSettings
    /\ \/ UnmountNetwork /\ UNCHANGED chatVars
       \/ UnmountChat /\ UNCHANGED networkVars

ShowView ==
    /\ ShowNetwork \/ ShowChat \/ ShowSettings
    /\ Click
    /\ UNCHANGED <<appVars, configVars, registryVars>>

ToggleSidebar ==
    /\ Click
    /\ collapsed' = ~collapsed
    /\ UNCHANGED <<prefs, storedPrefs, node, metrics, polls, settingsVars, networkVars, chatVars, registryVars>>

\* A slip: the theme is stored as it was.
ChosenStale(was, chosen) == was

\* What setTheme and setAccent store.
Chosen(was, chosen) == chosen

ChoosePrefs(chosen, written) ==
    /\ settingsShown
    /\ chosen # prefs
    /\ chosen.theme = prefs.theme \/ chosen.accent = prefs.accent
    /\ prefs' = chosen
    /\ storedPrefs' = IF written THEN Chosen(prefs, chosen) ELSE storedPrefs
    /\ left.clicks > 0
    /\ written \/ left.faults > 0
    /\ left' = [left EXCEPT !.clicks = @ - 1, !.faults = IF written THEN @ ELSE @ - 1]
    /\ failed' = (failed \/ ~written)
    /\ UNCHANGED <<collapsed, node, metrics, polls, settingsVars, networkVars, chatVars, registryVars>>

-----------------------------------------------------------------------------
(* The poll of the node, every 2.5 seconds *)

NodeInfo(status) == [status |-> status, peerId |-> config.peerId]

\* A slip: the node is asked on mount only.
PollOnce ==
    /\ Len(polls) < left.polls
    /\ node = Unanswered
    /\ polls' = Append(polls, [node |-> Unanswered, metrics |-> Unanswered])
    /\ UNCHANGED <<collapsed, prefs, storedPrefs, node, metrics, settingsVars, networkVars,
                   chatVars, registryVars, left, failed>>

Poll ==
    /\ Len(polls) < left.polls
    /\ polls' = Append(polls, [node |-> Unanswered, metrics |-> Unanswered])
    /\ UNCHANGED <<collapsed, prefs, storedPrefs, node, metrics, settingsVars, networkVars,
                   chatVars, registryVars, left, failed>>

\* api_node and api_metrics: an exception makes the one an answer without a
\* status, the other a count of 0.
NodeAnswers(i, ok) ==
    /\ up
    /\ left.polls > 0
    /\ i \in DOMAIN polls
    /\ \/ /\ polls[i].node = Unanswered
          /\ polls' = [polls EXCEPT ![i].node = NodeInfo(IF ok THEN "serving" ELSE "none")]
       \/ /\ polls[i].metrics = Unanswered
          /\ polls' = [polls EXCEPT ![i].metrics = IF ok THEN ConnectedCount ELSE 0]
    /\ MayFail(ok)
    /\ UNCHANGED <<collapsed, prefs, storedPrefs, node, metrics, settingsVars, networkVars,
                   chatVars, registryVars>>

\* Promise.all has both answers.  Whichever poll they are of, they replace
\* what is shown, and a new count starts the canvas over.
PollArrives(i) ==
    /\ i \in DOMAIN polls
    /\ polls[i].node # Unanswered /\ polls[i].metrics # Unanswered
    /\ node' = polls[i].node
    /\ metrics' = polls[i].metrics
    /\ polls' = Without(polls, i)
    /\ canvas' = IF networkShown THEN Counted(canvas, SwarmCount(metrics')) ELSE canvas
    /\ UNCHANGED <<collapsed, prefs, storedPrefs, settingsVars, networkShown, tableVars, restartMsg,
                   msgTimers, restarts, peerPolls, chatVars, registryVars, left, failed>>

\* One of the two failed: what is shown stays.
PollFails(i) ==
    /\ i \in DOMAIN polls
    /\ polls' = Without(polls, i)
    /\ MayFail(~up)
    /\ UNCHANGED <<collapsed, prefs, storedPrefs, node, metrics, settingsVars, networkVars,
                   chatVars, registryVars>>

-----------------------------------------------------------------------------
(* The tab is reloaded: the network page is mounted, and of what the app   *)
(* knew only localStorage is left.  It is the node that serves the app.    *)

Reload ==
    /\ up
    /\ Click
    /\ collapsed' = FALSE
    /\ prefs' = storedPrefs
    /\ node' = Unanswered
    /\ metrics' = Unanswered
    /\ polls' = <<[node |-> Unanswered, metrics |-> Unanswered]>>
    /\ ForgetChat
    /\ ForgetSettings
    /\ MountNetwork(1)
    /\ UNCHANGED <<storedPrefs, configVars, registryVars>>

-----------------------------------------------------------------------------
(* The pages, and what goes on around them *)

\* In a window of 1100 pixels: the sidebar takes 248 of them or 70, the
\* margins and the panel of the node 388.
CanvasWidth == IF collapsed THEN 642 ELSE 464

OutsideNetwork == UNCHANGED <<appVars, settingsVars, chatVars, registryVars>>

NetworkStep ==
    /\ \/ Len(peerPolls) < left.lists /\ PollPeers /\ NoCost
       \/ \E i \in DOMAIN peerPolls :
            \/ left.lists > 0 /\ (\E rows \in Rows : NodeLists(i, rows)) /\ NoCost
            \/ NodeLists(i, <<>>) /\ MayFail(FALSE)
            \/ PeersArrive(i) /\ NoCost
            \/ PeersFail(i) /\ MayFail(~up)
       \/ ClickRestart /\ Click
       \/ RestartReturns(TRUE) /\ up /\ NoCost
       \/ RestartReturns(FALSE) /\ MayFail(~up)
       \/ MsgFades /\ NoCost
       \/ CanvasFrame(CanvasWidth) /\ NoCost
    /\ OutsideNetwork

ChatStep ==
    /\ \/ \E t \in Texts : Send(t) /\ Click
       \/ NewChat /\ Click
       \/ \E r \in asked : \E a \in Replies(r) :
            (Receive(r, a) \/ ReceiveLate(r, a)) /\ NoCost
    /\ UNCHANGED <<appVars, settingsVars, networkVars, registryVars>>

SettingsStep ==
    /\ \/ \E e \in Typed : Edit(e.field, e.value) /\ Click /\ UNCHANGED configVars
       \/ (ClickSave \/ ClickCopy) /\ Click /\ UNCHANGED configVars
       \/ (SavedFades \/ CopiedFades) /\ NoCost /\ UNCHANGED configVars
       \/ \E r \in reads : (NodeReads(r) \/ ReadArrives(r)) /\ NoCost
       \/ \E r \in reads : ReadFails(r) /\ MayFail(~up)
       \/ \E p \in puts, written \in BOOLEAN : NodeSaves(p, written) /\ MayFail(written)
       \/ \E p \in puts : SaveReturns(p) /\ MayFail(p.done \/ ~up)
    /\ UNCHANGED <<appVars, networkVars, chatVars, registryVars>>

World ==
    \/ /\ \/ /\ \/ \E p \in left.moving, status \in Statuses \union {"gone"} : PeerBecomes(p, status)
                \/ left.moving # {} /\ OwnEntryLapses
             /\ Turn
          \/ OwnEntryReturns /\ NoCost
       /\ UNCHANGED <<appVars, settingsVars, networkVars, chatVars>>
    \/ /\ \/ Stop /\ Turn /\ UNCHANGED registryVars
          \/ \E written \in BOOLEAN : Boot(written) /\ MayFail(written) /\ RegistryBlank
          \/ Damage /\ MayFail(FALSE) /\ UNCHANGED registryVars
       /\ UNCHANGED <<appVars, pageVars, networkVars, chatVars>>

Init ==
    /\ left \in Sessions
    /\ failed = FALSE
    /\ SettingsInit
    /\ ChatInit
    /\ swarm = [p \in Peers |-> IF p \in left.present THEN "online" ELSE "gone"]
    /\ ownListed = TRUE
    /\ collapsed = FALSE
    /\ prefs = DefaultPrefs /\ storedPrefs = DefaultPrefs
    /\ node = Unanswered /\ metrics = Unanswered
    /\ polls = <<[node |-> Unanswered, metrics |-> Unanswered]>>
    /\ networkShown = TRUE
    /\ peers = Unanswered /\ leftOver = {}
    /\ restartMsg = NoMsg /\ msgTimers = 0 /\ restarts = 0
    /\ peerPolls = <<Unanswered>>
    /\ canvas = Mounted(1)

AppStep ==
    \/ ShowView \/ ToggleSidebar \/ Poll \/ Reload
    \/ \E chosen \in [theme : Themes, accent : Accents], written \in BOOLEAN :
            ChoosePrefs(chosen, written)
    \/ \E i \in DOMAIN polls :
            NodeAnswers(i, TRUE) \/ NodeAnswers(i, FALSE) \/ PollArrives(i) \/ PollFails(i)

Next == AppStep \/ NetworkStep \/ ChatStep \/ SettingsStep \/ World

-----------------------------------------------------------------------------
(* Fairness: browsers fire intervals, and a node that runs answers.  A call *)
(* to one that does not is refused.                                        *)

PollsGoOn ==
    \/ Poll
    \/ \E i \in DOMAIN polls : NodeAnswers(i, TRUE) \/ PollArrives(i)

PeerPollsGoOn ==
    /\ \/ Len(peerPolls) < left.lists /\ PollPeers
       \/ \E i \in DOMAIN peerPolls : (left.lists > 0 /\ \E rows \in Rows : NodeLists(i, rows)) \/ PeersArrive(i)
    /\ OutsideNetwork
    /\ NoCost

QuestionsEnd ==
    /\ \E r \in asked : \E a \in Replies(r) : Receive(r, a) \/ ReceiveLate(r, a)
    /\ UNCHANGED <<appVars, settingsVars, networkVars, registryVars, left, failed>>

ReadsEnd ==
    /\ \E r \in reads : NodeReads(r) \/ ReadArrives(r) \/ (~up /\ ReadFails(r))
    /\ UNCHANGED <<appVars, networkVars, chatVars, registryVars, left, failed>>

SavesEnd ==
    /\ \E p \in puts : NodeSaves(p, TRUE) \/ ((p.done \/ ~up) /\ SaveReturns(p))
    /\ UNCHANGED <<appVars, networkVars, chatVars, registryVars, left, failed>>

FramesGoOn ==
    /\ CanvasFrame(CanvasWidth)
    /\ OutsideNetwork
    /\ NoCost

RoundsGoOn ==
    /\ OwnEntryReturns
    /\ UNCHANGED <<appVars, settingsVars, networkVars, chatVars>>
    /\ NoCost

MessagesFade ==
    /\ MsgFades
    /\ OutsideNetwork
    /\ NoCost

Fairness ==
    /\ WF_vars(PollsGoOn)
    /\ WF_vars(PeerPollsGoOn)
    /\ WF_vars(QuestionsEnd)
    /\ WF_vars(ReadsEnd)
    /\ WF_vars(SavesEnd)
    /\ WF_vars(FramesGoOn)
    /\ WF_vars(MessagesFade)
    /\ WF_vars(RoundsGoOn)

-----------------------------------------------------------------------------
(* Properties *)

\* What was typed and what was saved stay: a form that was loaded changes
\* under its user's hand only, whatever calls of this page or of earlier ones
\* end in the meantime (SettingsPage.jsx:176-237).
TypedEditsStay ==
    [][ settingsShown /\ settingsShown' /\ settingsPage' = settingsPage
          /\ ~loading /\ form' # form
        => left'.clicks < left.clicks ]_vars

\* As long as the file can be read, the node keeps its identity, over stops,
\* lost writes and whatever identity a page sends with its settings
\* (nodeconfig.py:36, 49).
IdentityKept ==
    [][ config'.peerId # config.peerId => file = Unreadable ]_vars

\* Nothing is lost without a failure: the file holds what the node goes by,
\* and localStorage the theme that is shown.  A file that can be read never
\* holds another identity than the node's (nodeconfig.py:47-67, theme.js:56).
SettingsAreKept ==
    /\ file # Unreadable => file.peerId = config.peerId
    /\ ~failed => file = config /\ storedPrefs = prefs

\* Every wait ends, for an answer, for the settings, for a save, whatever
\* fails and whether or not the node is there (ChatPage.jsx:97-128,
\* SettingsPage.jsx:178-187, 227-236); and so does what the restart button says,
\* whichever click its timer is of (NetworkPage.jsx:95-104).
RequestsEnd ==
    /\ sending ~> ~sending
    /\ loading ~> ~loading
    /\ saving ~> ~saving
    /\ restartMsg # NoMsg ~> restartMsg = NoMsg

NodeIsShown ==
    IF node = Unanswered THEN FALSE
    ELSE Badge(node) = "Online" /\ node.peerId = config.peerId

\* Every peer has one row.  What is left behind is of a peer that shares its name
\* with another one: it stays until the page is left (NetworkPage.jsx:285).
PeersAreShown ==
    /\ PeersTable.note # "Loading peers"
    /\ Len(PeersTable.rows) = Cardinality(Listed)
    /\ {PeersTable.rows[i] : i \in DOMAIN PeersTable.rows} =
            {[peer |-> p, status |-> StatusLabel(swarm[p])] : p \in Listed}
    /\ \A p \in PeersTable.leftOver : \E q \in Peers \ {p} : PeerName[q] = PeerName[p]

Accurate ==
    /\ left.polls > 0 => NodeIsShown /\ ConnectedPeers(metrics) = Cardinality(Listed)
    /\ networkShown /\ left.lists > 0 => PeersAreShown

\* Every count that the page gives its canvas is drawn in the end: "force
\* re-init on next frame" (SwarmCanvas.jsx:151).
CountsAreDrawn == []<>(networkShown => canvas.drawn.n = canvas.count)

\* When the swarm and the node have come to rest, so does the dashboard, on
\* what is the case, in spite of polls that overlap, fail, or arrive in
\* another order than they began (App.jsx:28-41, NetworkPage.jsx:82-93).
DashboardConverges == <>[](up => Accurate)

=============================================================================
