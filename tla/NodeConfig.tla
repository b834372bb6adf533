----------------------------- MODULE NodeConfig -----------------------------
(***************************************************************************)
(* The settings and the identity a node keeps in one JSON file             *)
(* (eujeno/net/nodeconfig.py), as the dashboard's PUT and GET use them.    *)
(* An identity is a number: uuid4 makes one that was never used before.    *)
(* The file is replaced in one step (mkstemp and os.replace), so a failed  *)
(* write leaves the old one; what can be read is whole.                    *)
(***************************************************************************)
EXTENDS Naturals

CONSTANTS Unreadable,  \* what stands for no file, or one that does not parse
          Unanswered   \* what a call to the node holds before it was handled

VARIABLES
    up,          \* the node's process runs
    config,      \* _data, of a running node: its identity and its settings
    file,        \* what is on disk
    identities   \* identities made so far

configVars == <<up, config, file, identities>>

\* DEFAULTS; the identity is no setting.
NodeDefaults ==
    [name |-> "eujeno-node", model |-> "none", layerMode |-> "manual",
     maxLayers |-> 8, maxRam |-> 16, port |-> 8001, region |-> "eu-west",
     bandwidth |-> 200, autojoin |-> TRUE, contribute |-> TRUE,
     inbound |-> TRUE, telemetry |-> FALSE]

Setting == DOMAIN NodeDefaults

\* update(): a key that is no setting is ignored, and the identity always.
Updated(settings, body) ==
    [f \in Setting |-> IF f \in DOMAIN body THEN body[f] ELSE settings[f]]

\* _save(): the whole of _data, or nothing when any step of it fails.
Save(data, written) == file' = IF written THEN data ELSE file

\* A slip: the identity in the file is not looked at.
BootAnew(written) ==
    /\ ~up
    /\ up' = TRUE
    /\ identities' = identities + 1
    /\ config' = [peerId |-> identities',
                  settings |-> IF file # Unreadable THEN file.settings ELSE NodeDefaults]
    /\ Save(config', written)

\* NodeConfig(path): what the file says, over the defaults; a node that finds
\* no identity there makes one and saves it, with the settings it has.
Boot(written) ==
    /\ ~up
    /\ up' = TRUE
    /\ IF file # Unreadable
         THEN /\ config' = file
              /\ UNCHANGED <<file, identities>>
         ELSE /\ identities' = identities + 1
              /\ config' = [peerId |-> identities', settings |-> NodeDefaults]
              /\ Save(config', written)

\* The process ends; what was not on disk is lost.
Stop ==
    /\ up
    /\ up' = FALSE
    /\ UNCHANGED <<config, file, identities>>

\* The file is damaged, or cannot be opened, while the node is down.
Damage ==
    /\ ~up
    /\ file # Unreadable
    /\ file' = Unreadable
    /\ UNCHANGED <<up, config, identities>>

\* A slip: the identity is taken from the page like a setting.
PutAll(body, written) ==
    /\ up
    /\ config' = body
    /\ Save(config', written)
    /\ UNCHANGED <<up, identities>>

\* PUT /api/settings, with everything that the page holds.
Put(body, written) ==
    /\ up
    /\ config' = [config EXCEPT !.settings = Updated(@, body.settings)]
    /\ Save(config', written)
    /\ UNCHANGED <<up, identities>>

\* A node that was started once with a directory it can write to.
ConfigInit ==
    /\ up = TRUE
    /\ identities = 1
    /\ config = [peerId |-> 1, settings |-> NodeDefaults]
    /\ file = config

=============================================================================
