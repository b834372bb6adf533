----------------------------- MODULE FrontEnds -----------------------------
(***************************************************************************)
(* Both front-ends side by side: the dashboard of a node and the landing   *)
(* page.  They share nothing but the canvas they draw; a session is one of *)
(* the two, and the other one rests.                                       *)
(***************************************************************************)
EXTENDS NodeApp, Site

feVars == <<vars, siteVars>>

AtSite == left.views = {}

FrontEndsInit == Init /\ SiteInit

FrontEndsNext ==
    \/ ~AtSite /\ Next /\ UNCHANGED siteVars
    \/ AtSite /\ SiteNext /\ UNCHANGED vars

FrontEndsSpec == FrontEndsInit /\ [][FrontEndsNext]_feVars /\ Fairness

-----------------------------------------------------------------------------
(* Properties *)

\* What the variables of both range over.
TypeOK ==
    /\ up \in BOOLEAN /\ identities \in Nat
    /\ config.peerId \in 1..identities /\ DOMAIN config.settings = Setting
    /\ file = Unreadable \/ DOMAIN file = {"peerId", "settings"}
    /\ settingsPage \in Nat /\ form.peerId \in 0..identities
    /\ \A f \in Setting \ {"name", "port"} :
        form.settings[f] \in Control(f) \union {NodeDefaults[f], BrowserDefaults[f]}
    /\ savedTimers \in Nat /\ copyTimers \in Nat
    /\ {loading, saving, saved, copied} \subseteq BOOLEAN
    /\ \A r \in reads : r.page <= settingsPage
    /\ \A p \in puts : p.page <= settingsPage
    /\ swarm \in [Peers -> Statuses \union {"gone"}]
    /\ ownListed \in BOOLEAN
    /\ peers = Unanswered \/ peers \in Seq([peer : Peers, status : Statuses])
    /\ leftOver \subseteq Peers
    /\ restartMsg \in {NoMsg, "Restarting", "Restart failed"}
    /\ chat \in Seq(Message) /\ stored \in Seq(Message)
    /\ prefs \in [theme : Themes, accent : Accents]
    /\ storedPrefs \in [theme : Themes, accent : Accents]
    /\ Cardinality({v \in {"network", "chat", "settings"} :
                      \/ v = "network" /\ networkShown
                      \/ v = "chat" /\ chatShown
                      \/ v = "settings" /\ settingsShown}) = 1
    /\ section \in Sections \union {"docs"}
    /\ {osId, clipboard} \subseteq (DOMAIN OSES) \union {"none"}

\* What lasts a few seconds, the messages of the buttons, has a timer that
\* ends it, however clicks, answers and fading timers follow each other
\* (NetworkPage.jsx:95-104, SettingsPage.jsx:220-236, RunNode.jsx:96-98).
FlashesHaveTimers ==
    /\ restartMsg # NoMsg => msgTimers > 0
    /\ saved => savedTimers > 0
    /\ copied => copyTimers > 0
    /\ justCopied => timer

\* The pulses that are drawn run along edges that are, whatever re-mounts,
\* counts and widths a canvas has seen (SwarmCanvas.jsx:16-57, 111-132).
PulsesFollowEdges == OnItsEdges(canvas) /\ OnItsEdges(heroCanvas)

=============================================================================
