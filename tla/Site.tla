-------------------------------- MODULE Site --------------------------------
(***************************************************************************)
(* The landing page (web/src): the links between its sections, the canvas  *)
(* of its head, and RunNode.jsx, where a visitor picks an operating system *)
(* and copies the commands that install and start a node on it.            *)
(*                                                                         *)
(* A command is named by what it does; what an operating system changes in *)
(* it is kept: the prompt, the binary, the continuation, the installer.    *)
(***************************************************************************)
EXTENDS SwarmCanvas

CONSTANTS Agents,     \* user agents: sets of the words detectOs looks for
          PageWidths, \* widths of the canvas that are tried
          HeroPeers   \* peers it is to show; 32 in the code

ASSUME SiteAssumption ==
    /\ PageWidths \subseteq Nat /\ PageWidths # {}
    /\ HeroPeers \in Nat
    /\ \A at \in Places : Least(6, HeroPeers) <= Len(at)

VARIABLES
    section,    \* the section the visitor went to, or "docs"
    osId,       \* the tile that is selected
    justCopied, \* the button says "copied"
    timer,      \* the timeout in timer.current is to fire
    clipboard,  \* what was put there last, of what system; "none"
    heroCanvas,
    pageWidth

siteVars == <<section, osId, justCopied, timer, clipboard, heroCanvas, pageWidth>>

-----------------------------------------------------------------------------
(* The sections and the links *)

Sections == {"top", "how", "why", "run", "cases"}

NavLinks == {"top", "how", "why", "cases", "docs", "run"}
HeroLinks == {"run", "how"}
CallLinks == {"run", "how"}
FooterLinks == {"docs", "run", "why"}

Links == NavLinks \union HeroLinks \union CallLinks \union FooterLinks

-----------------------------------------------------------------------------
(* The commands *)

OS(prompt, bin, cont, install, torch) ==
    [prompt |-> prompt, bin |-> bin, cont |-> cont, install |-> install, torch |-> torch]

OSES ==
    [macOS   |-> OS("dollar", "eujeno", "backslash", "curl", "mps/cpu"),
     Windows |-> OS("greater", "eujeno.exe", "backtick", "irm", "cuda/cpu"),
     Linux   |-> OS("dollar", "eujeno", "backslash", "curl", "cuda/cpu")]

DetectOs(agent) ==
    CASE "windows" \in agent -> "Windows"
      [] "windows" \notin agent /\ "linux" \in agent /\ "android" \notin agent -> "Linux"
      [] OTHER -> "macOS"

\* What the copy button takes: install, join a network, or create one.
CopyText(id) ==
    LET os == OSES[id]
    IN  <<os.install, <<os.bin, "serve", os.cont>>, <<os.bin, "up">> >>

\* What the card shows, each command behind the system's prompt.
CodeCard(id) ==
    [title |-> id,
     lines |-> [i \in 1..3 |-> <<OSES[id].prompt, CopyText(id)[i]>>],
     torch |-> OSES[id].torch,
     button |-> IF justCopied THEN "copied" ELSE "copy"]

\* The tiles, one of which is lit.
Tiles == [id \in DOMAIN OSES |-> id = osId]

-----------------------------------------------------------------------------
(* The visitor *)

SelectOs(id) ==
    /\ section # "docs"
    /\ osId # id
    /\ osId' = id
    /\ UNCHANGED <<section, justCopied, timer, clipboard, heroCanvas, pageWidth>>

\* The button says "copied" whether or not the browser let it; a click on it
\* takes the place of the one before.
Copy(allowed) ==
    /\ section # "docs"
    /\ clipboard' = IF allowed THEN osId ELSE clipboard
    /\ justCopied' = TRUE
    /\ timer' = TRUE
    /\ UNCHANGED <<section, osId, heroCanvas, pageWidth>>

CopyFades ==
    /\ timer
    /\ timer' = FALSE
    /\ justCopied' = FALSE
    /\ UNCHANGED <<section, osId, clipboard, heroCanvas, pageWidth>>

\* The documentation is another site: the page is unmounted, its timer and
\* its animation with it.
Follow(link) ==
    /\ section # "docs"
    /\ section # link
    /\ section' = link
    /\ IF link = "docs"
         THEN /\ justCopied' = FALSE /\ timer' = FALSE
              /\ heroCanvas' = NoCanvas
         ELSE UNCHANGED <<justCopied, timer, heroCanvas>>
    /\ UNCHANGED <<osId, clipboard, pageWidth>>

\* The page as it is first shown, and the visitor's system selected by an
\* effect of its mount.
Visit(agent) ==
    /\ section = "docs"
    /\ section' = "top"
    /\ osId' = DetectOs(agent)
    /\ heroCanvas' = Mounted(HeroPeers)
    /\ UNCHANGED <<justCopied, timer, clipboard, pageWidth>>

ResizeWindow(w) ==
    /\ w # pageWidth
    /\ pageWidth' = w
    /\ UNCHANGED <<section, osId, justCopied, timer, clipboard, heroCanvas>>

\* However few peers it is to show, it draws six.
HeroFrame ==
    /\ heroCanvas' \in Frames(heroCanvas, 6, pageWidth)
    /\ UNCHANGED <<section, osId, justCopied, timer, clipboard, pageWidth>>

\* Nobody has come yet.
SiteInit ==
    /\ section = "docs"
    /\ osId = "macOS"
    /\ justCopied = FALSE
    /\ timer = FALSE
    /\ clipboard = "none"
    /\ heroCanvas = NoCanvas
    /\ pageWidth = CHOOSE w \in PageWidths : TRUE

SiteNext ==
    \/ \E id \in DOMAIN OSES : SelectOs(id)
    \/ \E allowed \in BOOLEAN : Copy(allowed)
    \/ CopyFades
    \/ \E link \in Links : Follow(link)
    \/ \E agent \in Agents : Visit(agent)
    \/ \E w \in PageWidths : ResizeWindow(w)
    \/ HeroFrame

=============================================================================
