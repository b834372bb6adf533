------------------------------ MODULE Launcher ------------------------------
(***************************************************************************)
(* The native launcher of launcher/main.go: it provisions a private Python *)
(* runtime on the first command of each release, runs the real CLI out of  *)
(* it, and replaces itself on `eujeno update`.  Nothing is locked: commands *)
(* run side by side, and each may fail or be interrupted between any two   *)
(* steps, or half way through one.                                         *)
(*                                                                         *)
(* A release stands for its version and its wheel, which is what installID *)
(* says.  Commands that change nothing (--version, --help before the setup)*)
(* and EUJENO_WHEEL are left out.                                          *)
(***************************************************************************)
EXTENDS Naturals, FiniteSets, Sequences

CONSTANTS
    Command,     \* commands that run at a time; at most one of them is an update
    MaxRelease,  \* bound: releases that are published
    MaxCuts,     \* bound: steps that fail and commands that are interrupted
    None, Partial, Whole, Bare  \* no file, one written in part, uv, an empty virtualenv

ASSUME CommandAssumption == IsFiniteSet(Command)

ASSUME BoundAssumption == MaxRelease \in Nat \ {0} /\ MaxCuts \in Nat

\* What is no release, and Bare and Partial are told apart by what uv makes of them.
ASSUME FileAssumption ==
    /\ {None, Partial, Whole, Bare} \cap Nat = {}
    /\ Bare # Partial

Release == 1 .. MaxRelease

\* Operators named as a slip of another one (CopyExe for ReplaceExe, ...) are
\* used by no action: they show that the properties notice the slip.

VARIABLES
    os,      \* "unix" or "windows"
    latest,  \* the newest published release
    \* the files: the launcher, its .new and .old; uv, the virtualenv, the stamp
    bin, new, old, uv, venv, stamp,
    \* the commands: where each is, its release, EUJENO_FORCE_BOOTSTRAP
    pc, rel, forced,
    \* history: a bootstrap was cut while a stamp that is still trusted was there
    \* (see Spoils), and nothing was stamped since; two bootstraps, or one and a command
    \* about to run what it removes, were under way at a time
    spoiled, overlapped,
    cuts     \* bound

exes == <<bin, new, old>>
runtime == <<uv, venv, stamp>>
command == <<pc, rel, forced>>
history == <<spoiled, overlapped, cuts>>
vars == <<os, latest, exes, runtime, command, history>>

\* Where a command is: about to read the stamp (start), to run the CLI (exec);
\* about to look for uv, write it (extract), remove the virtualenv (wipe), make
\* it (venv), install the wheel (pip), write the stamp (stamp); about to create
\* .new (get), downloading into it (got), about to replace the launcher with
\* it (replace), after the running one was set aside (swap).
Bootstrapping == {"uv", "extract", "wipe", "venv", "pip", "stamp"}
Updating == {"get", "got", "replace", "swap"}
PC == {"idle", "start", "exec"} \cup Bootstrapping \cup Updating

Goto(c, place) == pc' = [pc EXCEPT ![c] = place]

StampFirstOrder == <<"uv", "stamp", "wipe", "venv", "pip", "exec">>
BootstrapOrder == <<"uv", "wipe", "venv", "pip", "stamp", "exec">>

GotoNextOf(c, place) ==
    Goto(c, BootstrapOrder[1 + CHOOSE i \in 1 .. 5 : BootstrapOrder[i] = place])

-----------------------------------------------------------------------------
(* What the launcher asks, and says, of the files *)

LatestID(c) == latest + 1
InstallID(c) == rel[c]

StampExists(c) == ~forced[c] /\ stamp # None
UpToDate(c) == ~forced[c] /\ stamp = InstallID(c)

\* os.Stat: it is there, whatever it holds.
Assumed(file) == TRUE
FileExists(file) == file # None

\* A launcher that is installed or running takes the stamp at its word.
Trusted ==
    stamp \in Release /\ stamp \in {bin} \cup {rel[d] : d \in {d \in Command : pc[d] # "idle"}}

\* A bootstrap that is cut beside such a stamp was forced or an old launcher's.
Spoils(c) ==
    spoiled' = (spoiled \/ /\ pc[c] \in {"wipe", "venv", "pip", "stamp"}
                           /\ forced[c] \/ stamp # rel[c]
                           /\ Trusted)

Cutting == cuts < MaxCuts /\ cuts' = cuts + 1

-----------------------------------------------------------------------------
(* The command *)

Init ==
    /\ os \in {"unix", "windows"}
    /\ latest = 1
    /\ bin = 1 /\ new = None /\ old = None
    /\ uv = None /\ venv = None /\ stamp = None
    /\ pc = [c \in Command |-> "idle"]
    /\ rel = [c \in Command |-> 1]
    /\ forced = [c \in Command |-> FALSE]
    /\ spoiled = FALSE /\ overlapped = FALSE
    /\ cuts = 0

Publish ==
    /\ latest < MaxRelease
    /\ latest' = latest + 1
    /\ UNCHANGED <<os, exes, runtime, command, history>>

\* A command runs the launcher that is installed; `update` is one of its own.
Start(c) ==
    /\ pc[c] = "idle"
    /\ bin \in Release
    /\ rel' = [rel EXCEPT ![c] = bin]
    /\ \/ /\ Goto(c, "start")
          /\ \E f \in BOOLEAN : forced' = [forced EXCEPT ![c] = f]
       \/ /\ \A d \in Command : pc[d] \notin Updating
          /\ Goto(c, "get")
          /\ forced' = [forced EXCEPT ![c] = FALSE]
    /\ UNCHANGED <<os, latest, exes, runtime, history>>

\* run: the runtime is provisioned for this release, or it is bootstrapped.
Decide(c) ==
    /\ pc[c] = "start"
    /\ Goto(c, IF UpToDate(c) THEN "exec" ELSE "uv")
    /\ overlapped' =
         (overlapped \/ \E d \in Command \ {c} :
             pc[d] \in Bootstrapping \cup (IF UpToDate(c) THEN {} ELSE {"exec"}))
    /\ UNCHANGED <<os, latest, exes, runtime, rel, forced, spoiled, cuts>>

\* execEujeno: the virtualenv's eujeno takes over, or is not found.
Exec(c) ==
    /\ pc[c] = "exec"
    /\ Goto(c, "idle")
    /\ UNCHANGED <<os, latest, exes, runtime, rel, forced, history>>

-----------------------------------------------------------------------------
(* bootstrap, and the stamp that run writes after it *)

FindUV(c) ==
    /\ pc[c] = "uv"
    /\ IF FileExists(uv) THEN GotoNextOf(c, "uv") ELSE Goto(c, "extract")
    /\ UNCHANGED <<os, latest, exes, runtime, rel, forced, history>>

\* fetchUV: the archive is there, its uv is written over what is there.
ExtractUV(c) ==
    /\ pc[c] = "extract"
    /\ uv' = Whole
    /\ GotoNextOf(c, "uv")
    /\ UNCHANGED <<os, latest, exes, venv, stamp, rel, forced, history>>

Wipe(c) ==
    /\ pc[c] = "wipe"
    /\ venv' = None
    /\ GotoNextOf(c, "wipe")
    /\ UNCHANGED <<os, latest, exes, uv, stamp, rel, forced, history>>

\* uv makes the virtualenv, ...
MakeVenv(c) ==
    /\ pc[c] = "venv"
    /\ uv = Whole
    /\ venv' = Bare
    /\ GotoNextOf(c, "venv")
    /\ UNCHANGED <<os, latest, exes, uv, stamp, rel, forced, history>>

\* ... and installs the wheel; over something half made, perhaps in vain.
Install(c) ==
    /\ pc[c] = "pip"
    /\ uv = Whole /\ venv # None
    /\ venv' \in {rel[c]} \cup (IF venv = Partial THEN {Partial} ELSE {})
    /\ GotoNextOf(c, "pip")
    /\ UNCHANGED <<os, latest, exes, uv, stamp, rel, forced, history>>

\* uv does not run, or its virtualenv is gone.
UVFails(c) ==
    /\ pc[c] \in {"venv", "pip"}
    /\ uv # Whole \/ (pc[c] = "pip" /\ venv = None)
    /\ Goto(c, "idle")
    /\ Spoils(c)
    /\ UNCHANGED <<os, latest, exes, runtime, rel, forced, overlapped, cuts>>

WriteStamp(c) ==
    /\ pc[c] = "stamp"
    /\ stamp' = InstallID(c)
    /\ spoiled' = FALSE
    /\ GotoNextOf(c, "stamp")
    /\ UNCHANGED <<os, latest, exes, uv, venv, rel, forced, overlapped, cuts>>

\* A bootstrap fails or is interrupted, half way through what it was doing: uv
\* written in part, the virtualenv removed, made or filled in part, the
\* stamp truncated.
CutBootstrap(c) ==
    /\ pc[c] \in {"start", "exec"} \cup Bootstrapping
    /\ Cutting
    /\ Goto(c, "idle")
    /\ Spoils(c)
    /\ uv' \in {uv} \cup (IF pc[c] = "extract" THEN {Partial} ELSE {})
    /\ venv' \in {venv} \cup (IF pc[c] = "wipe" /\ venv # None THEN {None, Partial}
                              ELSE IF pc[c] \in {"venv", "pip"} THEN {Partial} ELSE {})
    /\ stamp' \in {stamp} \cup (IF pc[c] = "stamp" THEN {Partial} ELSE {})
    /\ UNCHANGED <<os, latest, exes, rel, forced, overlapped>>

-----------------------------------------------------------------------------
(* selfUpdate *)

Get(c) ==
    /\ pc[c] = "get"
    /\ new' = Partial
    /\ Goto(c, "got")
    /\ UNCHANGED <<os, latest, bin, old, runtime, rel, forced, history>>

Downloaded(c) ==
    /\ pc[c] = "got"
    /\ new' = latest
    /\ Goto(c, "replace")
    /\ UNCHANGED <<os, latest, bin, old, runtime, rel, forced, history>>

\* binVersion says it is the release that runs; when it says nothing, the
\* launcher is replaced all the same.
AlreadyCurrent(c) ==
    /\ pc[c] = "replace"
    /\ new = rel[c]
    /\ new' = None
    /\ Goto(c, "idle")
    /\ UNCHANGED <<os, latest, bin, old, runtime, rel, forced, history>>

Replaceable(c) == Cutting \/ (new # rel[c] /\ UNCHANGED cuts)

\* replaceExe renames over the launcher, on Windows after it was set aside.
CopyExe(c) ==
    /\ pc[c] = "replace"
    /\ Replaceable(c)
    /\ bin' = Partial /\ Goto(c, "swap") /\ UNCHANGED <<new, old>>
    /\ UNCHANGED <<os, latest, runtime, rel, forced, spoiled, overlapped>>

ReplaceExe(c) ==
    /\ pc[c] = "replace"
    /\ Replaceable(c)
    /\ \/ /\ os = "unix"
          /\ bin' = new /\ new' = None /\ Goto(c, "idle")
          /\ UNCHANGED old
       \/ /\ os = "windows"
          /\ old' = bin /\ bin' = None /\ Goto(c, "swap")
          /\ UNCHANGED new
    /\ UNCHANGED <<os, latest, runtime, rel, forced, spoiled, overlapped>>

\* The new launcher is moved into place and the old one removed, unless it is
\* locked; or, when that fails, moved back and the new one removed.
Swap(c) ==
    /\ pc[c] = "swap"
    /\ Goto(c, "idle")
    /\ new' = None
    /\ \/ bin' = new /\ old' \in {None, old} /\ UNCHANGED cuts
       \/ bin' = old /\ old' = None /\ Cutting
    /\ UNCHANGED <<os, latest, runtime, rel, forced, spoiled, overlapped>>

\* An update fails, and removes what it downloaded when that was complete, or is
\* interrupted.
CutUpdate(c) ==
    /\ pc[c] \in Updating
    /\ Cutting
    /\ Goto(c, "idle")
    /\ new' \in {new} \cup (IF pc[c] = "replace" THEN {None} ELSE {})
    /\ old' \in {old} \cup (IF pc[c] = "replace" THEN {None} ELSE {})
    /\ UNCHANGED <<os, latest, bin, runtime, rel, forced, spoiled, overlapped>>

Step(c) ==
    \/ Decide(c) \/ Exec(c)
    \/ FindUV(c) \/ ExtractUV(c) \/ Wipe(c) \/ MakeVenv(c) \/ Install(c) \/ UVFails(c)
    \/ WriteStamp(c)
    \/ Get(c) \/ Downloaded(c) \/ AlreadyCurrent(c) \/ ReplaceExe(c) \/ Swap(c)

\* The launcher is gone: nothing starts any more.
Bricked ==
    /\ bin \notin Release
    /\ \A c \in Command : pc[c] = "idle"
    /\ UNCHANGED vars

Next ==
    \/ Publish
    \/ \E c \in Command : Start(c) \/ Step(c) \/ CutBootstrap(c) \/ CutUpdate(c)
    \/ Bricked

\* A command that runs goes on.
Fairness == \A c \in Command : WF_vars(Step(c))

Spec == Init /\ [][Next]_vars

FairSpec == Spec /\ Fairness

-----------------------------------------------------------------------------
(* Properties *)

\* Every variable holds what its comment says; nothing is stamped or installed
\* before it is published, and no bound is exceeded.
TypeOK ==
    LET Published == 1 .. latest IN
    /\ os \in {"unix", "windows"}
    /\ latest \in Release
    /\ {bin, new, old} \subseteq {None, Partial} \cup Published
    /\ uv \in {None, Partial, Whole}
    /\ venv \in {None, Bare, Partial} \cup Published
    /\ stamp \in {None, Partial} \cup Published
    /\ pc \in [Command -> PC]
    /\ rel \in [Command -> Published]
    /\ forced \in [Command -> BOOLEAN]
    /\ spoiled \in BOOLEAN /\ overlapped \in BOOLEAN
    /\ cuts \in 0 .. MaxCuts

\* The launcher is whole at every moment, whenever an update is cut or fails;
\* on Windows it may be missing, and is then whole as .old.
LauncherStays ==
    \/ bin \in Release
    \/ os = "windows" /\ bin = None /\ old \in Release

\* The stamp "identifies the currently-provisioned runtime" (main.go:246), at
\* least when the installed launcher believes it and no bootstrap is under way;
\* except after a bootstrap that was cut beside such a stamp, because it
\* was forced or an old launcher's, and after two commands overlapped.
StampNamesRuntime ==
    /\ ~spoiled /\ ~overlapped
    /\ stamp = bin /\ bin \in Release
    /\ \A c \in Command : pc[c] \notin Bootstrapping
    => venv = stamp

\* What a command runs is the runtime of its own release, in one piece; with
\* the same exceptions.
CommandsRunTheirRelease ==
    \A c \in Command : pc[c] = "exec" /\ ~spoiled /\ ~overlapped => venv = rel[c]

\* Once nothing is cut any more, a command installs its release, whatever was
\* left behind; but for a uv that was written in part, which is taken for a
\* whole one ever after, and the exceptions above.
RetriesHeal ==
    \A c \in Command :
        pc[c] = "start" /\ cuts = MaxCuts ~>
            venv = rel[c] \/ uv = Partial \/ spoiled \/ overlapped

=============================================================================
