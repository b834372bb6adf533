---------------------------- MODULE SettingsPage ----------------------------
(***************************************************************************)
(* The settings page of the node's dashboard (app/src/SettingsPage.jsx)    *)
(* over the node's configuration: one component instance at a time, its    *)
(* form, its timers, and the calls it has started, each of which outlives  *)
(* the page when the user goes elsewhere.                                  *)
(*                                                                         *)
(* A call is a step at the node and a step at the page, in any order with  *)
(* those of other calls; it may fail at any time before its answer is in.  *)
(* The model that the same effect reads from /api/node is only displayed,  *)
(* and is left out.                                                        *)
(***************************************************************************)
EXTENDS NodeConfig, FiniteSets

VARIABLES
    settingsPage,   \* instances of the page mounted so far; the last is the one below
    settingsShown,  \* it is mounted
    form,           \* s: the identity and the settings it shows
    loading, saving, saved, copied,
    savedTimers,    \* timeouts of this instance that will hide "Saved"
    copyTimers,     \* and those that will turn "Copied" back into "Copy"
    reads,          \* GET /api/settings: [page, got]
    puts            \* PUT /api/settings: [page, body, done]

pageVars == <<settingsPage, settingsShown, form, loading, saving, saved,
              copied, savedTimers, copyTimers, reads, puts>>

settingsVars == <<pageVars, configVars>>

-----------------------------------------------------------------------------
(* The form *)

\* DEFAULT_SETTINGS; the identity is blank until it is loaded.
BrowserDefaults ==
    [name |-> "", model |-> "", layerMode |-> "auto", maxLayers |-> 8,
     maxRam |-> 16, port |-> 9000, region |-> "eu-west", bandwidth |-> 200,
     autojoin |-> TRUE, contribute |-> TRUE, inbound |-> TRUE,
     telemetry |-> FALSE]

Blank == [peerId |-> 0, settings |-> BrowserDefaults]

\* The sliders of the page: first, last, step.
Slider(lo, hi, step) == {v \in lo..hi : (v - lo) % step = 0}

Regions == {"eu-west", "eu-north", "us-east", "us-west", "ap-south", "sa-east"}

Switches == {"autojoin", "contribute", "inbound", "telemetry"}

\* What a user can put into a field.  The model has no control, and a port
\* field that is emptied reads as 0.
Control(f) ==
    CASE f = "name" -> STRING
      [] f = "model" -> {}
      [] f = "layerMode" -> {"auto", "manual"}
      [] f = "maxLayers" -> Slider(2, 20, 1)
      [] f = "maxRam" -> Slider(4, 48, 2)
      [] f = "port" -> Nat
      [] f = "region" -> Regions
      [] f = "bandwidth" -> Slider(50, 1000, 50)
      [] f \in Switches -> BOOLEAN

-----------------------------------------------------------------------------
(* The page *)

\* A new instance shows the defaults and asks the node.
MountSettings ==
    /\ ~settingsShown
    /\ settingsPage' = settingsPage + 1
    /\ settingsShown' = TRUE
    /\ form' = Blank
    /\ loading' = TRUE
    /\ saving' = FALSE /\ saved' = FALSE /\ copied' = FALSE
    /\ savedTimers' = 0 /\ copyTimers' = 0
    /\ reads' = reads \union {[page |-> settingsPage', got |-> Unanswered]}
    /\ UNCHANGED puts

\* The calls of an instance go on without it; its state and its timers are
\* of no consequence.
UnmountSettings ==
    /\ settingsShown
    /\ settingsShown' = FALSE
    /\ form' = Blank
    /\ loading' = FALSE /\ saving' = FALSE /\ saved' = FALSE /\ copied' = FALSE
    /\ savedTimers' = 0 /\ copyTimers' = 0
    /\ UNCHANGED <<settingsPage, reads, puts>>

Edit(f, v) ==
    /\ settingsShown
    /\ v \in Control(f)
    /\ f \in Switches => v = ~form.settings[f]
    /\ form' = [form EXCEPT !.settings[f] = v]
    /\ UNCHANGED <<settingsPage, settingsShown, loading, saving, saved, copied,
                   savedTimers, copyTimers, reads, puts>>

\* handleSave up to its await: the whole form is sent, loaded or not.
ClickSave ==
    /\ settingsShown
    /\ ~saving
    /\ saving' = TRUE
    /\ puts' = puts \union {[page |-> settingsPage, body |-> form, done |-> FALSE]}
    /\ UNCHANGED <<settingsPage, settingsShown, form, loading, saved, copied,
                   savedTimers, copyTimers, reads>>

ClickCopy ==
    /\ settingsShown
    /\ copied' = TRUE
    /\ copyTimers' = copyTimers + 1
    /\ UNCHANGED <<settingsPage, settingsShown, form, loading, saving, saved,
                   savedTimers, reads, puts>>

\* A timeout fires, whichever click started it.
SavedFades ==
    /\ savedTimers > 0
    /\ savedTimers' = savedTimers - 1
    /\ saved' = FALSE
    /\ UNCHANGED <<settingsPage, settingsShown, form, loading, saving, copied,
                   copyTimers, reads, puts>>

CopiedFades ==
    /\ copyTimers > 0
    /\ copyTimers' = copyTimers - 1
    /\ copied' = FALSE
    /\ UNCHANGED <<settingsPage, settingsShown, form, loading, saving, saved,
                   savedTimers, reads, puts>>

-----------------------------------------------------------------------------
(* The calls *)

Current(call) == settingsShown /\ call.page = settingsPage

NodeReads(r) ==
    /\ up
    /\ r \in reads
    /\ r.got = Unanswered
    /\ reads' = (reads \ {r}) \union {[r EXCEPT !.got = config]}
    /\ UNCHANGED <<settingsPage, settingsShown, form, loading, saving, saved,
                   copied, savedTimers, copyTimers, puts, configVars>>

\* {...prev, ...data}: the answer has every field and replaces all that was
\* typed before it came.
Loaded(prev, data) == data

\* An answer for an instance that is gone is dropped (cancelled).
ReadArrives(r) ==
    /\ r \in reads
    /\ r.got # Unanswered
    /\ reads' = reads \ {r}
    /\ IF Current(r) THEN form' = Loaded(form, r.got) /\ loading' = FALSE
                     ELSE UNCHANGED <<form, loading>>
    /\ UNCHANGED <<settingsPage, settingsShown, saving, saved, copied,
                   savedTimers, copyTimers, puts, configVars>>

ReadFails(r) ==
    /\ r \in reads
    /\ reads' = reads \ {r}
    /\ loading' = IF Current(r) THEN FALSE ELSE loading
    /\ UNCHANGED <<settingsPage, settingsShown, form, saving, saved, copied,
                   savedTimers, copyTimers, puts, configVars>>

NodeSaves(p, written) ==
    /\ p \in puts
    /\ ~p.done
    /\ Put(p.body, written)
    /\ puts' = (puts \ {p}) \union {[p EXCEPT !.done = TRUE]}
    /\ UNCHANGED <<settingsPage, settingsShown, form, loading, saving, saved,
                   copied, savedTimers, copyTimers, reads>>

\* A slip: the answer of a PUT is shown, like that of a GET.
SaveReturnsForm(p) ==
    /\ p \in puts
    /\ puts' = puts \ {p}
    /\ IF Current(p)
         THEN /\ saving' = FALSE
              /\ saved' = TRUE
              /\ savedTimers' = savedTimers + 1
              /\ form' = p.body
         ELSE UNCHANGED <<saving, saved, savedTimers, form>>
    /\ UNCHANGED <<settingsPage, settingsShown, loading, copied, copyTimers, reads, configVars>>

\* A slip: a PUT that failed leaves the page saving.
SaveReturnsAnswered(p) ==
    /\ p \in puts
    /\ puts' = puts \ {p}
    /\ IF Current(p) /\ p.done
         THEN /\ saving' = FALSE
              /\ saved' = TRUE
              /\ savedTimers' = savedTimers + 1
         ELSE UNCHANGED <<saving, saved, savedTimers>>
    /\ UNCHANGED <<settingsPage, settingsShown, form, loading, copied,
                   copyTimers, reads, configVars>>

\* catch and finally: the page says "Saved" for 2 seconds, whether the PUT
\* was answered or failed.
SaveReturns(p) ==
    /\ p \in puts
    /\ puts' = puts \ {p}
    /\ IF Current(p)
         THEN /\ saving' = FALSE
              /\ saved' = TRUE
              /\ savedTimers' = savedTimers + 1
         ELSE UNCHANGED <<saving, saved, savedTimers>>
    /\ UNCHANGED <<settingsPage, settingsShown, form, loading, copied,
                   copyTimers, reads, configVars>>

\* The tab is reloaded: nobody waits for the calls any more.  What was not
\* handled yet may still reach the node, as a call of an instance that is gone.
ForgetSettings ==
    /\ settingsShown' = FALSE
    /\ form' = Blank
    /\ loading' = FALSE /\ saving' = FALSE /\ saved' = FALSE /\ copied' = FALSE
    /\ savedTimers' = 0 /\ copyTimers' = 0
    /\ reads' = {}
    /\ puts' = {p \in puts : ~p.done}
    /\ UNCHANGED settingsPage

SettingsInit ==
    /\ ConfigInit
    /\ settingsPage = 0
    /\ settingsShown = FALSE
    /\ form = Blank
    /\ loading = FALSE /\ saving = FALSE /\ saved = FALSE /\ copied = FALSE
    /\ savedTimers = 0 /\ copyTimers = 0
    /\ reads = {}
    /\ puts = {}

-----------------------------------------------------------------------------
(* What is displayed *)

\* The identity box, and the save button with the flash beside it.
ShownIdentity == IF loading \/ form.peerId = 0 THEN "none" ELSE form.peerId
CanSave == settingsShown /\ ~saving
Flash == IF saved THEN "Saved" ELSE ""
CopyLabel == IF copied THEN "Copied" ELSE "Copy"

=============================================================================
