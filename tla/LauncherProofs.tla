--------------------------- MODULE LauncherProofs ---------------------------
(***************************************************************************)
(* Proofs about Launcher, for any number of commands and releases and any  *)
(* number of failures and interruptions.                                   *)
(***************************************************************************)
EXTENDS Launcher, TLAPS

-----------------------------------------------------------------------------
(* Where a command goes *)

\* What the code says by the order of its statements.
LEMMA NextOf ==
    ASSUME NEW c \in Command, NEW place \in {"uv", "wipe", "venv", "pip", "stamp"},
           GotoNextOf(c, place)
    PROVE  pc' = [pc EXCEPT ![c] = IF place = "uv" THEN "wipe"
                                   ELSE IF place = "wipe" THEN "venv"
                                   ELSE IF place = "venv" THEN "pip"
                                   ELSE IF place = "pip" THEN "stamp"
                                   ELSE "exec"]
<1> DEFINE i == CHOOSE i \in 1 .. 5 : BootstrapOrder[i] = place
<1>1. pc' = [pc EXCEPT ![c] = BootstrapOrder[1 + i]]
  BY DEF GotoNextOf, Goto
<1>2. /\ BootstrapOrder[1] = "uv" /\ BootstrapOrder[2] = "wipe" /\ BootstrapOrder[3] = "venv"
      /\ BootstrapOrder[4] = "pip" /\ BootstrapOrder[5] = "stamp" /\ BootstrapOrder[6] = "exec"
  BY DEF BootstrapOrder
<1>3. \E k \in 1 .. 5 : BootstrapOrder[k] = place
  <2>1. 1 \in 1 .. 5 /\ 2 \in 1 .. 5 /\ 3 \in 1 .. 5 /\ 4 \in 1 .. 5 /\ 5 \in 1 .. 5
    OBVIOUS
  <2> QED
    BY <1>2, <2>1
<1>4. i \in 1 .. 5 /\ BootstrapOrder[i] = place
  BY <1>3
<1> HIDE DEF i
<1>5. BootstrapOrder[1 + i] = IF place = "uv" THEN "wipe"
                              ELSE IF place = "wipe" THEN "venv"
                              ELSE IF place = "venv" THEN "pip"
                              ELSE IF place = "pip" THEN "stamp"
                              ELSE "exec"
  <2>1. i = 1 \/ i = 2 \/ i = 3 \/ i = 4 \/ i = 5
    BY <1>4
  <2> QED
    BY <1>2, <1>4, <2>1
<1> QED
  BY <1>1, <1>5

\* The steps of a command in run and bootstrap: the launchers are not touched.
Provision(c) ==
    \/ Decide(c) \/ Exec(c) \/ CutBootstrap(c)
    \/ FindUV(c) \/ ExtractUV(c) \/ Wipe(c) \/ MakeVenv(c) \/ Install(c) \/ UVFails(c)
    \/ WriteStamp(c)

\* Those of selfUpdate: the runtime is not touched.
Update(c) ==
    \/ Get(c) \/ Downloaded(c) \/ AlreadyCurrent(c) \/ ReplaceExe(c) \/ Swap(c) \/ CutUpdate(c)

LEMMA Steps ==
    [Next]_vars => \/ Publish
                   \/ \E c \in Command : Start(c) \/ Provision(c) \/ Update(c)
                   \/ UNCHANGED vars
BY DEF Next, Step, Provision, Update, Bricked

LEMMA ProvisionMoves ==
    ASSUME TypeOK, NEW c \in Command, Provision(c)
    PROVE  /\ UNCHANGED <<os, latest, exes, rel, forced>>
           /\ pc[c] \in {"start", "exec"} \cup Bootstrapping
           /\ pc'[c] \in {"idle", "exec"} \cup Bootstrapping
           /\ \A d \in Command : d # c => pc'[d] = pc[d]
           /\ pc' \in [Command -> PC]
<1>1. UNCHANGED <<os, latest, exes, rel, forced>>
  BY DEF Provision, Decide, Exec, CutBootstrap, FindUV, ExtractUV, Wipe, MakeVenv, Install, UVFails,
         WriteStamp, exes
<1>2. pc[c] \in {"start", "exec"} \cup Bootstrapping
  BY DEF Provision, Decide, Exec, CutBootstrap, FindUV, ExtractUV, Wipe, MakeVenv, Install, UVFails,
         WriteStamp, Bootstrapping
<1>3. \E place \in {"idle", "exec"} \cup Bootstrapping : pc' = [pc EXCEPT ![c] = place]
  <2>1. CASE Decide(c)
    BY <2>1 DEF Decide, Goto, Bootstrapping
  <2>2. CASE Exec(c) \/ CutBootstrap(c) \/ UVFails(c)
    BY <2>2 DEF Exec, CutBootstrap, UVFails, Goto
  <2>3. CASE \E place \in {"uv", "wipe", "venv", "pip", "stamp"} : GotoNextOf(c, place)
    BY <2>3, NextOf DEF Bootstrapping
  <2>4. CASE FindUV(c) /\ Goto(c, "extract")
    BY <2>4 DEF Goto, Bootstrapping
  <2> QED
    BY <2>1, <2>2, <2>3, <2>4 DEF Provision, FindUV, ExtractUV, Wipe, MakeVenv, Install, WriteStamp
<1>4. pc \in [Command -> PC]
  BY DEF TypeOK
<1> QED
  BY <1>1, <1>2, <1>3, <1>4 DEF PC, Bootstrapping

LEMMA UpdateMoves ==
    ASSUME TypeOK, NEW c \in Command, Update(c)
    PROVE  /\ UNCHANGED <<os, latest, runtime, rel, forced, spoiled, overlapped>>
           /\ pc[c] \in Updating
           /\ pc'[c] \in {"idle"} \cup Updating
           /\ \A d \in Command : d # c => pc'[d] = pc[d]
           /\ pc' \in [Command -> PC]
<1>1. UNCHANGED <<os, latest, runtime, rel, forced, spoiled, overlapped>>
  BY DEF Update, Get, Downloaded, AlreadyCurrent, ReplaceExe, Swap, CutUpdate, history
<1>2. pc[c] \in Updating
  BY DEF Update, Get, Downloaded, AlreadyCurrent, ReplaceExe, Swap, CutUpdate, Updating
<1>3. \E place \in {"idle"} \cup Updating : pc' = [pc EXCEPT ![c] = place]
  BY DEF Update, Get, Downloaded, AlreadyCurrent, ReplaceExe, Swap, CutUpdate, Updating, Goto
<1>4. pc \in [Command -> PC]
  BY DEF TypeOK
<1> QED
  BY <1>1, <1>2, <1>3, <1>4 DEF PC, Updating

-----------------------------------------------------------------------------
(* Type correctness *)

\* Nothing is taken back: releases are published one after the other.
LEMMA PublishedGrow ==
    ASSUME TypeOK, [Next]_vars
    PROVE  latest' \in Release /\ 1 .. latest \subseteq 1 .. latest'
<1>1. latest' = latest \/ (latest < MaxRelease /\ latest' = latest + 1)
  <2>1. CASE Publish
    BY <2>1 DEF Publish
  <2>2. ASSUME NEW c \in Command, Start(c) PROVE latest' = latest
    BY <2>2 DEF Start
  <2>3. ASSUME NEW c \in Command, Provision(c) \/ Update(c) PROVE latest' = latest
    BY <2>3, ProvisionMoves, UpdateMoves
  <2> QED
    BY <2>1, <2>2, <2>3, Steps DEF vars
<1> QED
  BY <1>1, BoundAssumption DEF TypeOK, Release

LEMMA TypeInit == Init => TypeOK
<1> SUFFICES ASSUME Init PROVE TypeOK
  OBVIOUS
<1>1. latest = 1 /\ 1 \in 1 .. latest /\ latest \in Release
  BY BoundAssumption DEF Init, Release
<1>2. pc \in [Command -> PC] /\ rel \in [Command -> 1 .. latest] /\ forced \in [Command -> BOOLEAN]
  BY <1>1 DEF Init, PC
<1>3. /\ {bin, new, old} \subseteq {None, Partial} \cup 1 .. latest
      /\ uv \in {None, Partial, Whole}
      /\ venv \in {None, Bare, Partial} \cup 1 .. latest
      /\ stamp \in {None, Partial} \cup 1 .. latest
  BY <1>1 DEF Init
<1>4. os \in {"unix", "windows"} /\ spoiled \in BOOLEAN /\ overlapped \in BOOLEAN
  BY Zenon DEF Init
<1>5. cuts \in 0 .. MaxCuts
  BY BoundAssumption DEF Init
<1> QED
  BY <1>1, <1>2, <1>3, <1>4, <1>5 DEF TypeOK

LEMMA CutsBounded ==
    ASSUME cuts \in 0 .. MaxCuts, Cutting
    PROVE  cuts' \in 0 .. MaxCuts
BY BoundAssumption DEF Cutting

LEMMA TypeProvision ==
    ASSUME TypeOK, NEW c \in Command, Provision(c)
    PROVE  TypeOK'
<1>1. /\ UNCHANGED <<os, latest, exes, rel, forced>> /\ pc' \in [Command -> PC]
  BY ProvisionMoves
<1>2. /\ uv' \in {None, Partial, Whole}
      /\ venv' \in {None, Bare, Partial} \cup 1 .. latest
      /\ stamp' \in {None, Partial} \cup 1 .. latest
  BY DEF Provision, Decide, Exec, CutBootstrap, FindUV, ExtractUV, Wipe, MakeVenv, Install, UVFails,
         WriteStamp, runtime, InstallID, TypeOK
<1>3. spoiled' \in BOOLEAN
  <2>1. UNCHANGED spoiled \/ spoiled' = FALSE \/ Spoils(c)
    BY DEF Provision, Decide, Exec, CutBootstrap, FindUV, ExtractUV, Wipe, MakeVenv, Install, UVFails,
           WriteStamp, history
  <2> QED
    BY <2>1 DEF TypeOK, Spoils
<1>4. overlapped' \in BOOLEAN
  <2>1. CASE Decide(c)
    BY <2>1 DEF Decide, TypeOK
  <2>2. CASE ~Decide(c)
    BY <2>2 DEF Provision, Exec, CutBootstrap, FindUV, ExtractUV, Wipe, MakeVenv, Install, UVFails,
           WriteStamp, history, TypeOK
  <2> QED
    BY <2>1, <2>2
<1>5. cuts' \in 0 .. MaxCuts
  <2>1. UNCHANGED cuts \/ Cutting
    BY DEF Provision, Decide, Exec, CutBootstrap, FindUV, ExtractUV, Wipe, MakeVenv, Install, UVFails,
           WriteStamp, history
  <2> QED
    BY <2>1, CutsBounded DEF TypeOK
<1> QED
  BY <1>1, <1>2, <1>3, <1>4, <1>5 DEF TypeOK, exes

LEMMA TypeUpdate ==
    ASSUME TypeOK, NEW c \in Command, Update(c)
    PROVE  TypeOK'
<1>1. /\ UNCHANGED <<os, latest, runtime, rel, forced, spoiled, overlapped>>
      /\ pc' \in [Command -> PC]
  BY UpdateMoves
<1>2. {bin', new', old'} \subseteq {None, Partial, bin, new, old, latest}
  BY DEF Update, Get, Downloaded, AlreadyCurrent, ReplaceExe, Swap, CutUpdate
<1>3. cuts' \in 0 .. MaxCuts
  <2>1. UNCHANGED cuts \/ Cutting
    BY DEF Update, Get, Downloaded, AlreadyCurrent, ReplaceExe, Replaceable, Swap, CutUpdate, history
  <2> QED
    BY <2>1, CutsBounded DEF TypeOK
<1>4. latest \in 1 .. latest
  BY DEF TypeOK, Release
<1> QED
  BY <1>1, <1>2, <1>3, <1>4 DEF TypeOK, runtime

\* A release that is installed is one that was published.
LEMMA InstalledPublished ==
    ASSUME TypeOK
    PROVE  /\ bin \in Release => bin \in 1 .. latest
           /\ old \in Release => old \in 1 .. latest
           /\ new \in Release => new \in 1 .. latest
           /\ stamp \in Release => stamp \in 1 .. latest
           /\ None \notin Release /\ Partial \notin Release
BY FileAssumption DEF TypeOK, Release

LEMMA CommandTypes ==
    ASSUME TypeOK, NEW c \in Command
    PROVE  pc \in [Command -> PC] /\ rel[c] \in Release
<1>1. pc \in [Command -> PC] /\ rel[c] \in 1 .. latest /\ latest \in Release
  BY DEF TypeOK
<1> QED
  BY <1>1, BoundAssumption DEF Release

LEMMA TypeStart ==
    ASSUME TypeOK, NEW c \in Command, Start(c)
    PROVE  TypeOK'
<1>1. bin \in 1 .. latest
  BY InstalledPublished DEF Start
<1>2. /\ UNCHANGED <<os, latest, exes, runtime, history>>
      /\ rel' = [rel EXCEPT ![c] = bin]
      /\ \E f \in BOOLEAN : forced' = [forced EXCEPT ![c] = f]
      /\ \E place \in {"start", "get"} : pc' = [pc EXCEPT ![c] = place]
  BY DEF Start, Goto
<1>3. rel' \in [Command -> 1 .. latest] /\ forced' \in [Command -> BOOLEAN]
  BY <1>1, <1>2 DEF TypeOK
<1>4. pc' \in [Command -> PC]
  BY <1>2 DEF TypeOK, PC, Updating
<1> QED
  BY <1>2, <1>3, <1>4 DEF TypeOK, exes, runtime, history

LEMMA TypeNext == TypeOK /\ [Next]_vars => TypeOK'
<1> SUFFICES ASSUME TypeOK, [Next]_vars PROVE TypeOK'
  OBVIOUS
<1>1. CASE Publish
  <2>1. latest' \in Release /\ 1 .. latest \subseteq 1 .. latest'
    BY PublishedGrow
  <2>2. UNCHANGED <<os, exes, runtime, command, history>>
    BY <1>1 DEF Publish
  <2>3. rel' \in [Command -> 1 .. latest']
    BY <2>1, <2>2 DEF TypeOK, command
  <2> QED
    BY <2>1, <2>2, <2>3 DEF TypeOK, exes, runtime, command, history
<1>2. CASE UNCHANGED vars
  BY <1>2 DEF TypeOK, vars, exes, runtime, command, history
<1> QED
  BY <1>1, <1>2, Steps, TypeStart, TypeProvision, TypeUpdate

\* Every variable of the launcher's model holds what its comment says, and
\* nothing is stamped, installed or put aside that was not published.
THEOREM LauncherTypes == Spec => []TypeOK
BY TypeInit, TypeNext, PTL DEF Spec

-----------------------------------------------------------------------------
(* The launcher *)

\* The release that is installed, also while it is set aside.
Current == IF bin \in Release THEN bin ELSE old

\* There is one update at a time, and it only takes the launcher away when it
\* has a whole one to put in its place.
OneUpdate == \A c, d \in Command : pc[c] \in Updating /\ pc[d] \in Updating => c = d

UpdateReady(c) ==
    /\ pc[c] \in {"get", "got", "replace"} => bin \in Release
    /\ pc[c] \in {"replace", "swap"} => new \in Release /\ new >= Current
    /\ pc[c] = "swap" => os = "windows" /\ bin = None /\ old \in Release
    /\ pc[c] \in Updating => rel[c] = Current

\* No release is taken back: what runs and what is stamped is not newer than
\* what is installed.
NeverOlder ==
    /\ \A c \in Command : rel[c] <= Current
    /\ latest >= Current
    /\ stamp \in Release => stamp <= Current

Installed ==
    /\ TypeOK
    /\ LauncherStays
    /\ OneUpdate
    /\ \A c \in Command : UpdateReady(c)
    /\ NeverOlder

LEMMA InstalledInit == Init => Installed
<1> SUFFICES ASSUME Init PROVE Installed
  OBVIOUS
<1>1. TypeOK
  BY TypeInit
<1>2. bin = 1 /\ bin \in Release /\ Current = 1 /\ latest = 1 /\ stamp \notin Release
  BY <1>1, InstalledPublished, BoundAssumption DEF Init, Release, Current
<1>3. \A c \in Command : pc[c] = "idle" /\ rel[c] = 1
  BY DEF Init
<1> QED
  BY <1>1, <1>2, <1>3 DEF Installed, LauncherStays, OneUpdate, UpdateReady, NeverOlder, Updating

LEMMA CurrentRelease ==
    ASSUME Installed
    PROVE  Current \in Release /\ Current \in Nat /\ (bin \in Release => Current = bin)
BY DEF Installed, LauncherStays, Current, Release

LEMMA InstalledStart ==
    ASSUME Installed, NEW c \in Command, Start(c)
    PROVE  Installed'
<1>1. TypeOK'
  BY TypeStart DEF Installed
<1>2. /\ pc[c] = "idle" /\ bin \in Release /\ UNCHANGED <<os, latest, exes, runtime, history>>
      /\ rel' = [rel EXCEPT ![c] = bin]
      /\ \/ pc' = [pc EXCEPT ![c] = "start"]
         \/ /\ pc' = [pc EXCEPT ![c] = "get"]
            /\ \A d \in Command : pc[d] \notin Updating
  BY DEF Start, Goto
<1>3. pc \in [Command -> PC] /\ rel \in [Command -> 1 .. latest]
  BY DEF Installed, TypeOK
<1>4. Current = bin /\ Current' = Current /\ Current \in Nat
  BY <1>2, CurrentRelease DEF Current, exes
<1>5. OneUpdate'
  BY <1>2, <1>3 DEF Installed, OneUpdate, Updating
<1>6. ASSUME NEW d \in Command PROVE UpdateReady(d)'
  <2>1. CASE d = c
    BY <1>2, <1>3, <1>4, <2>1 DEF UpdateReady, exes, Updating
  <2>2. CASE d # c
    BY <1>2, <1>3, <1>4, <2>2 DEF Installed, UpdateReady, exes
  <2> QED
    BY <2>1, <2>2
<1>7. NeverOlder'
  BY <1>2, <1>3, <1>4 DEF Installed, NeverOlder, runtime
<1>8. LauncherStays'
  BY <1>2 DEF LauncherStays, exes
<1> QED
  BY <1>1, <1>5, <1>6, <1>7, <1>8 DEF Installed

\* A command stamps its own release, which is not newer than what is installed.
LEMMA InstalledProvision ==
    ASSUME Installed, NEW c \in Command, Provision(c)
    PROVE  Installed'
<1>1. /\ UNCHANGED <<os, latest, exes, rel>>
      /\ pc[c] \notin Updating /\ pc'[c] \notin Updating
      /\ \A d \in Command : d # c => pc'[d] = pc[d]
  BY ProvisionMoves DEF Installed, Bootstrapping, Updating
<1>2. TypeOK'
  BY TypeProvision DEF Installed
<1>3. Current' = Current
  BY <1>1 DEF Current, exes
<1>4. stamp' \in {stamp, Partial, rel[c]}
  BY DEF Provision, Decide, Exec, CutBootstrap, FindUV, ExtractUV, Wipe, MakeVenv, Install, UVFails,
         WriteStamp, runtime, InstallID
<1>5. NeverOlder'
  <2>1. Partial \notin Release
    BY InstalledPublished DEF Installed
  <2> QED
    BY <1>1, <1>3, <1>4, <2>1 DEF Installed, NeverOlder
<1>6. OneUpdate'
  BY <1>1 DEF Installed, OneUpdate
<1>7. ASSUME NEW d \in Command PROVE UpdateReady(d)'
  BY <1>1, <1>3 DEF Installed, UpdateReady, exes, Updating
<1> QED
  BY <1>1, <1>2, <1>5, <1>6, <1>7 DEF Installed, LauncherStays, exes

\* An update moves the launcher forward, or leaves it as it is.
LEMMA InstalledUpdate ==
    ASSUME Installed, NEW c \in Command, Update(c)
    PROVE  Installed'
<1>1. /\ UNCHANGED <<os, latest, runtime, rel>>
      /\ pc[c] \in Updating /\ pc'[c] \in {"idle"} \cup Updating
      /\ \A d \in Command : d # c => pc'[d] = pc[d]
  BY UpdateMoves DEF Installed
<1>2. \A d \in Command : d # c => pc[d] \notin Updating
  BY <1>1 DEF Installed, OneUpdate
<1>3. TypeOK /\ TypeOK' /\ UpdateReady(c) /\ LauncherStays /\ NeverOlder
  BY TypeUpdate DEF Installed
<1>4. /\ Current \in Release /\ Current \in Nat /\ (bin \in Release => Current = bin)
      /\ None \notin Release /\ latest \in Release /\ pc \in [Command -> PC]
  BY <1>3, CurrentRelease, InstalledPublished DEF TypeOK
<1>5. OneUpdate'
  BY <1>1, <1>2 DEF OneUpdate
<1>6. ASSUME NEW d \in Command, d # c PROVE UpdateReady(d)'
  BY <1>1, <1>2, <1>6 DEF UpdateReady, Updating
<1>7. LauncherStays' /\ UpdateReady(c)' /\ Current' >= Current /\ Current' \in Nat
      /\ latest >= Current'
  <2>1. CASE Get(c) \/ Downloaded(c) \/ AlreadyCurrent(c)
    <3>1. UNCHANGED <<bin, old>> /\ pc[c] \in {"get", "got", "replace"}
      BY <2>1 DEF Get, Downloaded, AlreadyCurrent
    <3>2. pc'[c] \in {"got", "idle"} \/ (pc'[c] = "replace" /\ new' = latest)
      BY <1>4, <2>1 DEF Get, Downloaded, AlreadyCurrent, Goto
    <3>3. Current' = Current /\ bin \in Release /\ latest >= Current
      BY <1>3, <3>1 DEF Current, UpdateReady, NeverOlder
    <3>4. LauncherStays'
      BY <3>1, <3>3 DEF LauncherStays
    <3>5. UpdateReady(c)'
      BY <1>1, <1>3, <1>4, <3>1, <3>2, <3>3 DEF UpdateReady, Updating
    <3> QED
      BY <1>4, <3>3, <3>4, <3>5
  <2>2. CASE ReplaceExe(c)
    <3>1. /\ bin \in Release /\ new \in Release /\ new >= Current /\ rel[c] = Current
      BY <1>3, <2>2 DEF ReplaceExe, UpdateReady, Updating
    <3>2. new \in 1 .. latest /\ bin \in 1 .. latest
      BY <1>3, <3>1, InstalledPublished
    <3>3. CASE bin' = new /\ new' = None /\ pc' = [pc EXCEPT ![c] = "idle"] /\ UNCHANGED old
      <4>1. Current' = new /\ bin' \in Release
        BY <3>1, <3>3 DEF Current
      <4>2. pc'[c] = "idle"
        BY <1>4, <3>3
      <4>3. UpdateReady(c)'
        BY <4>2 DEF UpdateReady, Updating
      <4>4. latest >= Current' /\ Current' \in Nat
        BY <1>4, <3>2, <4>1 DEF Release
      <4> QED
        BY <3>1, <4>1, <4>3, <4>4 DEF LauncherStays
    <3>4. CASE /\ os = "windows" /\ old' = bin /\ bin' = None /\ UNCHANGED new
               /\ pc' = [pc EXCEPT ![c] = "swap"]
      <4>1. Current' = Current
        BY <1>4, <3>1, <3>4 DEF Current
      <4>2. pc'[c] = "swap" /\ rel' = rel /\ os' = os
        BY <1>1, <1>4, <3>4
      <4>3. UpdateReady(c)'
        BY <3>1, <3>4, <4>1, <4>2 DEF UpdateReady, Updating
      <4> QED
        BY <1>3, <1>4, <3>1, <3>4, <4>1, <4>2, <4>3 DEF LauncherStays, NeverOlder
    <3> QED
      BY <2>2, <3>3, <3>4 DEF ReplaceExe, Goto
  <2>3. CASE Swap(c)
    <3>1. /\ new \in Release /\ new >= Current /\ bin = None /\ old \in Release /\ Current = old
      BY <1>3, <1>4, <2>3 DEF Swap, UpdateReady, Current
    <3>2. new \in 1 .. latest /\ old \in 1 .. latest
      BY <1>3, <3>1, InstalledPublished
    <3>3. pc'[c] = "idle" /\ (bin' = new \/ bin' = old)
      BY <1>4, <2>3 DEF Swap, Goto
    <3>4. bin' \in Release /\ Current' = bin'
      BY <3>1, <3>3 DEF Current
    <3>5. UpdateReady(c)'
      BY <3>3 DEF UpdateReady, Updating
    <3>6. Current' >= Current /\ Current' \in Nat /\ latest >= Current'
      BY <1>4, <3>1, <3>2, <3>3, <3>4 DEF Release
    <3> QED
      BY <3>4, <3>5, <3>6 DEF LauncherStays
  <2>4. CASE CutUpdate(c)
    <3>1. pc'[c] = "idle" /\ bin' = bin /\ (old' = old \/ pc[c] = "replace")
      BY <1>4, <2>4 DEF CutUpdate, Goto
    <3>2. bin \in Release \/ old' = old
      BY <1>3, <3>1 DEF UpdateReady
    <3>3. Current' = Current
      BY <3>1, <3>2 DEF Current
    <3>4. UpdateReady(c)'
      BY <3>1 DEF UpdateReady, Updating
    <3> QED
      BY <1>1, <1>3, <1>4, <3>1, <3>2, <3>3, <3>4 DEF LauncherStays, NeverOlder
  <2> QED
    BY <2>1, <2>2, <2>3, <2>4 DEF Update
<1>8. NeverOlder'
  <2>1. \A d \in Command : rel[d] \in Nat
    BY <1>3 DEF TypeOK, Release
  <2>2. stamp \in Release => stamp \in Nat
    BY DEF Release
  <2>3. rel' = rel /\ stamp' = stamp /\ latest' = latest
    BY <1>1 DEF runtime
  <2> QED
    BY <1>3, <1>4, <1>7, <2>1, <2>2, <2>3 DEF NeverOlder
<1> QED
  BY <1>3, <1>5, <1>6, <1>7, <1>8 DEF Installed

LEMMA InstalledNext == Installed /\ [Next]_vars => Installed'
<1> SUFFICES ASSUME Installed, [Next]_vars PROVE Installed'
  OBVIOUS
<1>0. TypeOK'
  BY TypeNext DEF Installed
<1>1. CASE Publish
  <2>1. UNCHANGED <<os, exes, runtime, command>> /\ latest' = latest + 1
    BY <1>1 DEF Publish
  <2>2. Current' = Current /\ Current \in Nat /\ latest \in Nat
    BY <2>1, CurrentRelease DEF Current, exes, Installed, TypeOK, Release
  <2>3. NeverOlder'
    BY <2>1, <2>2 DEF Installed, NeverOlder, command, runtime
  <2>4. OneUpdate' /\ LauncherStays' /\ \A c \in Command : UpdateReady(c)'
    BY <2>1, <2>2 DEF Installed, OneUpdate, LauncherStays, UpdateReady, command, exes
  <2> QED
    BY <1>0, <2>3, <2>4 DEF Installed
<1>2. CASE UNCHANGED vars
  <2>1. Current' = Current
    BY <1>2 DEF Current, vars, exes
  <2> QED
    BY <1>0, <1>2, <2>1 DEF Installed, OneUpdate, LauncherStays, UpdateReady, NeverOlder, vars,
       command, exes, runtime
<1> QED
  BY <1>1, <1>2, Steps, InstalledStart, InstalledProvision, InstalledUpdate

\* LauncherStays: wherever an update is cut or fails, a whole launcher is in
\* place, or set aside on Windows; no command that runs, and no stamp, is of a
\* newer release than that one.
THEOREM LauncherSurvives == Spec => [](LauncherStays /\ NeverOlder)
<1>1. Installed => LauncherStays /\ NeverOlder
  BY DEF Installed
<1> QED
  BY <1>1, InstalledInit, InstalledNext, PTL DEF Spec

-----------------------------------------------------------------------------
(* The runtime *)

\* A bootstrap that overlaps with nothing: it is there because the stamp is not
\* its own, or because it was forced, and finds what it left.
BootstrapAlone(c) ==
    pc[c] \in Bootstrapping =>
        /\ \A d \in Command : d # c => pc[d] \notin Bootstrapping \cup {"exec"}
        /\ forced[c] \/ stamp # rel[c]
        /\ pc[c] = "venv" => venv = None
        /\ pc[c] = "pip" => venv = Bare
        /\ pc[c] = "stamp" => venv = rel[c]

\* Nobody is between the removal of the virtualenv and the stamp of the next.
NobodyInstalls == \A c \in Command : pc[c] \notin {"venv", "pip", "stamp"}

StampHolds == Trusted /\ NobodyInstalls => venv = stamp

RunsItsOwn == \A c \in Command : pc[c] = "exec" => venv = rel[c]

RuntimeRight ==
    /\ ~overlapped => \A c \in Command : BootstrapAlone(c)
    /\ ~overlapped /\ ~spoiled => StampHolds /\ RunsItsOwn

Provisioned == Installed /\ RuntimeRight

LEMMA ProvisionedInit == Init => Provisioned
<1> SUFFICES ASSUME Init PROVE RuntimeRight
  BY InstalledInit DEF Provisioned
<1>1. stamp \notin Release
  BY InstalledPublished, TypeInit DEF Init
<1> QED
  BY <1>1 DEF Init, RuntimeRight, BootstrapAlone, StampHolds, Trusted, RunsItsOwn, Bootstrapping

\* Decide sees who is under way.
LEMMA DecideRight ==
    ASSUME Provisioned, NEW c \in Command, Decide(c)
    PROVE  RuntimeRight'
<1>0. /\ pc \in [Command -> PC] /\ rel[c] \in Release
  BY CommandTypes DEF Provisioned, Installed
<1>1. /\ pc[c] = "start" /\ UNCHANGED <<os, latest, exes, runtime, rel, forced, spoiled, cuts>>
      /\ pc' = [pc EXCEPT ![c] = IF UpToDate(c) THEN "exec" ELSE "uv"]
      /\ ~overlapped' => ~overlapped /\ \A d \in Command \ {c} :
            pc[d] \notin Bootstrapping \cup (IF UpToDate(c) THEN {} ELSE {"exec"})
  BY DEF Decide, Goto
<1> SUFFICES ASSUME ~overlapped' PROVE RuntimeRight'
  BY DEF RuntimeRight
<1>2. UpToDate(c) => stamp = rel[c]
  BY DEF UpToDate, InstallID
<1>3. ~UpToDate(c) => forced[c] \/ stamp # rel[c]
  BY DEF UpToDate, InstallID
<1>4. ~overlapped /\ \A d \in Command : BootstrapAlone(d)
  BY <1>1 DEF Provisioned, RuntimeRight
<1>5. ASSUME NEW d \in Command PROVE BootstrapAlone(d)'
  <2>1. CASE d = c
    BY <1>0, <1>1, <1>3, <2>1 DEF BootstrapAlone, Bootstrapping, runtime
  <2>2. CASE d # c
    BY <1>0, <1>1, <1>4, <2>2 DEF BootstrapAlone, Bootstrapping, runtime
  <2> QED
    BY <2>1, <2>2
<1>6. ASSUME ~spoiled' PROVE StampHolds' /\ RunsItsOwn'
  <2>1. StampHolds /\ RunsItsOwn /\ ~spoiled
    BY <1>1, <1>4, <1>6 DEF Provisioned, RuntimeRight
  <2>2. Trusted' <=> Trusted
    BY <1>0, <1>1 DEF Trusted, exes, runtime
  <2>3. NobodyInstalls' <=> NobodyInstalls
    BY <1>0, <1>1 DEF NobodyInstalls
  <2>4. UpToDate(c) => venv = rel[c]
    <3> SUFFICES ASSUME UpToDate(c) PROVE venv = rel[c]
      OBVIOUS
    <3>1. Trusted
      BY <1>0, <1>1, <1>2 DEF Trusted
    <3>2. NobodyInstalls
      BY <1>1 DEF NobodyInstalls, Bootstrapping
    <3> QED
      BY <1>2, <2>1, <3>1, <3>2 DEF StampHolds
  <2> QED
    BY <1>0, <1>1, <2>1, <2>2, <2>3, <2>4 DEF StampHolds, RunsItsOwn, runtime
<1> QED
  BY <1>5, <1>6 DEF RuntimeRight

\* A step of a bootstrap, when nothing overlaps: nobody else installs or runs.
LEMMA BootstrapRight ==
    ASSUME Provisioned, NEW c \in Command, pc[c] \in Bootstrapping, Provision(c)
    PROVE  RuntimeRight'
<1>0. /\ pc \in [Command -> PC] /\ rel[c] \in Release /\ Partial \notin Release
      /\ Bare # Partial
  BY CommandTypes, InstalledPublished, FileAssumption DEF Provisioned, Installed
<1>1. /\ UNCHANGED <<exes, rel, forced>> /\ \A d \in Command : d # c => pc'[d] = pc[d]
      /\ pc'[c] \in {"idle", "exec"} \cup Bootstrapping
  BY ProvisionMoves DEF Provisioned, Installed
<1>2. overlapped' = overlapped
  BY DEF Provision, Decide, Exec, CutBootstrap, FindUV, ExtractUV, Wipe, MakeVenv, Install, UVFails,
         WriteStamp, history, Bootstrapping
<1> SUFFICES ASSUME ~overlapped PROVE RuntimeRight'
  BY <1>2 DEF RuntimeRight
<1>3. /\ \A d \in Command : d # c => pc[d] \notin Bootstrapping \cup {"exec"}
      /\ forced[c] \/ stamp # rel[c]
      /\ pc[c] = "venv" => venv = None
      /\ pc[c] = "pip" => venv = Bare
      /\ pc[c] = "stamp" => venv = rel[c]
  BY DEF Provisioned, RuntimeRight, BootstrapAlone
<1>4. \A d \in Command : d # c => BootstrapAlone(d)' /\ pc'[d] # "exec"
                                  /\ pc'[d] \notin {"venv", "pip", "stamp"}
  BY <1>1, <1>3 DEF BootstrapAlone, Bootstrapping
<1>5. ~spoiled => StampHolds
  BY DEF Provisioned, RuntimeRight
\* Where it goes.
<1>6. /\ FindUV(c) => pc'[c] \in {"wipe", "extract"}
      /\ ExtractUV(c) => pc'[c] = "wipe"
      /\ Wipe(c) => pc'[c] = "venv"
      /\ MakeVenv(c) => pc'[c] = "pip"
      /\ Install(c) => pc'[c] = "stamp"
      /\ WriteStamp(c) => pc'[c] = "exec"
      /\ CutBootstrap(c) \/ UVFails(c) => pc'[c] = "idle"
  <2>1. /\ ExtractUV(c) => GotoNextOf(c, "uv")
        /\ FindUV(c) => GotoNextOf(c, "uv") \/ Goto(c, "extract")
        /\ Wipe(c) => GotoNextOf(c, "wipe")
        /\ MakeVenv(c) => GotoNextOf(c, "venv")
        /\ Install(c) => GotoNextOf(c, "pip")
        /\ WriteStamp(c) => GotoNextOf(c, "stamp")
        /\ CutBootstrap(c) \/ UVFails(c) => Goto(c, "idle")
    BY DEF FindUV, ExtractUV, Wipe, MakeVenv, Install, WriteStamp, CutBootstrap, UVFails
  <2>2. /\ GotoNextOf(c, "uv") => pc'[c] = "wipe"
        /\ GotoNextOf(c, "wipe") => pc'[c] = "venv"
        /\ GotoNextOf(c, "venv") => pc'[c] = "pip"
        /\ GotoNextOf(c, "pip") => pc'[c] = "stamp"
        /\ GotoNextOf(c, "stamp") => pc'[c] = "exec"
    BY <1>0, NextOf
  <2>3. \A place : Goto(c, place) => pc'[c] = place
    BY <1>0 DEF Goto
  <2> QED
    BY <2>1, <2>2, <2>3
<1>7. Trusted' /\ stamp' = stamp => Trusted
  BY <1>1 DEF Trusted, exes, Bootstrapping
<1>8. CASE FindUV(c) \/ ExtractUV(c)
  <2>1. /\ pc[c] \in {"uv", "extract"} /\ pc'[c] \in {"wipe", "extract"}
        /\ UNCHANGED <<venv, stamp, spoiled>>
    BY <1>6, <1>8 DEF FindUV, ExtractUV, runtime, history
  <2>2. BootstrapAlone(c)'
    BY <1>1, <1>3, <2>1 DEF BootstrapAlone
  <2>3. NobodyInstalls
    BY <1>3, <2>1 DEF NobodyInstalls, Bootstrapping
  <2> QED
    BY <1>4, <1>5, <1>7, <2>1, <2>2, <2>3 DEF RuntimeRight, StampHolds, RunsItsOwn
<1>9. CASE Wipe(c) \/ MakeVenv(c) \/ Install(c)
  <2>1. /\ pc'[c] \in {"venv", "pip", "stamp"}
        /\ pc'[c] = "venv" => venv' = None
        /\ pc'[c] = "pip" => venv' = Bare
        /\ pc'[c] = "stamp" => venv' = rel[c]
        /\ UNCHANGED stamp
    BY <1>0, <1>3, <1>6, <1>9 DEF Wipe, MakeVenv, Install
  <2>2. BootstrapAlone(c)'
    BY <1>1, <1>3, <2>1 DEF BootstrapAlone
  <2>3. ~NobodyInstalls'
    BY <2>1 DEF NobodyInstalls
  <2> QED
    BY <1>4, <2>1, <2>2, <2>3 DEF RuntimeRight, StampHolds, RunsItsOwn
<1>10. CASE WriteStamp(c)
  <2>1. stamp' = rel[c] /\ venv' = rel[c] /\ pc'[c] = "exec"
    BY <1>3, <1>6, <1>10 DEF WriteStamp, InstallID
  <2>2. BootstrapAlone(c)'
    BY <2>1 DEF BootstrapAlone, Bootstrapping
  <2> QED
    BY <1>1, <1>4, <2>1, <2>2 DEF RuntimeRight, StampHolds, RunsItsOwn
<1>11. CASE CutBootstrap(c) \/ UVFails(c)
  <2>1. /\ pc'[c] = "idle" /\ stamp' \in {stamp, Partial}
        /\ pc[c] \in {"uv", "extract"} => venv' = venv
        /\ Spoils(c)
    BY <1>6, <1>11 DEF CutBootstrap, UVFails, runtime
  <2>2. BootstrapAlone(c)'
    BY <2>1 DEF BootstrapAlone, Bootstrapping
  <2>3. RunsItsOwn'
    BY <1>4, <2>1 DEF RunsItsOwn
  <2>4. ASSUME ~spoiled', Trusted', NobodyInstalls' PROVE venv' = stamp'
    <3>1. stamp' = stamp /\ Trusted
      BY <1>0, <1>7, <2>1, <2>4 DEF Trusted
    <3>2. ~spoiled /\ pc[c] \notin {"wipe", "venv", "pip", "stamp"}
      BY <1>3, <2>1, <2>4, <3>1 DEF Spoils
    <3>3. pc[c] \in {"uv", "extract"}
      BY <3>2 DEF Bootstrapping
    <3>4. NobodyInstalls
      BY <1>3, <3>3 DEF NobodyInstalls, Bootstrapping
    <3> QED
      BY <1>5, <2>1, <3>1, <3>2, <3>3, <3>4 DEF StampHolds
  <2> QED
    BY <1>4, <2>2, <2>3, <2>4 DEF RuntimeRight, StampHolds
<1>12. ~Decide(c) /\ ~Exec(c)
  BY DEF Decide, Exec, Bootstrapping
<1> QED
  BY <1>8, <1>9, <1>10, <1>11, <1>12 DEF Provision

\* A command that runs the CLI, or is cut before it does anything.
LEMMA ExecRight ==
    ASSUME Provisioned, NEW c \in Command, pc[c] \in {"start", "exec"}, Exec(c) \/ CutBootstrap(c)
    PROVE  RuntimeRight'
<1>1. /\ UNCHANGED <<exes, rel, forced>> /\ \A d \in Command : d # c => pc'[d] = pc[d]
  BY ProvisionMoves DEF Provisioned, Installed, Provision
<1>2. /\ pc'[c] = "idle" /\ UNCHANGED <<venv, stamp, overlapped>> /\ (spoiled => spoiled')
  BY DEF Exec, CutBootstrap, Goto, Spoils, runtime, history, Provisioned, Installed, TypeOK
<1>3. Trusted' => Trusted
  BY <1>1, <1>2 DEF Trusted, exes
<1>4. NobodyInstalls' => NobodyInstalls
  BY <1>1 DEF NobodyInstalls
<1>5. \A d \in Command : BootstrapAlone(d) => BootstrapAlone(d)'
  BY <1>1, <1>2 DEF BootstrapAlone, Bootstrapping
<1> QED
  BY <1>1, <1>2, <1>3, <1>4, <1>5 DEF Provisioned, RuntimeRight, StampHolds, RunsItsOwn

\* An update brings no release back: what was not trusted before is not after.
LEMMA UpdateRight ==
    ASSUME Provisioned, NEW c \in Command, Update(c)
    PROVE  RuntimeRight'
<1>1. /\ UNCHANGED <<runtime, rel, forced, spoiled, overlapped>>
      /\ pc[c] \in Updating /\ pc'[c] \in {"idle"} \cup Updating
      /\ \A d \in Command : d # c => pc'[d] = pc[d]
  BY UpdateMoves DEF Provisioned, Installed
<1>2. Trusted' => Trusted
  <2> SUFFICES ASSUME Trusted' PROVE Trusted
    OBVIOUS
  <2>1. stamp \in Release /\ stamp <= Current /\ Current \in Nat
    BY <1>1, CurrentRelease DEF Trusted, runtime, Provisioned, Installed, NeverOlder
  <2>2. rel[c] = Current /\ pc[c] # "idle"
    BY <1>1 DEF Provisioned, Installed, UpdateReady, Updating
  <2>3. CASE bin' # stamp
    <3>1. \E d \in Command : pc'[d] # "idle" /\ stamp = rel[d]
      BY <1>1, <2>3 DEF Trusted, runtime
    <3>2. \E d \in Command : pc[d] # "idle" /\ stamp = rel[d]
      BY <1>1, <2>2, <3>1
    <3> QED
      BY <2>1, <3>2 DEF Trusted
  <2>4. CASE bin' = stamp
    <3>1. bin' \in {bin, new, old, None}
      BY DEF Update, Get, Downloaded, AlreadyCurrent, ReplaceExe, Swap, CutUpdate
    <3>2. stamp # None
      BY <2>1, InstalledPublished DEF Provisioned, Installed
    <3>3. CASE bin' = bin
      BY <2>1, <2>4, <3>3 DEF Trusted
    <3>4. CASE bin' # bin
      <4>1. (ReplaceExe(c) /\ bin' = new) \/ Swap(c)
        BY <2>4, <3>2, <3>4 DEF Update, Get, Downloaded, AlreadyCurrent, ReplaceExe, Swap, CutUpdate
      <4>2. new \in Release /\ new >= Current
        BY <4>1 DEF ReplaceExe, Swap, Provisioned, Installed, UpdateReady
      <4>3. stamp = new \/ (Swap(c) /\ stamp = old)
        BY <2>4, <4>1 DEF Swap
      <4>4. Swap(c) => Current = old
        <5>1. Swap(c) => bin = None
          BY DEF Swap, Provisioned, Installed, UpdateReady
        <5>2. None \notin Release
          BY InstalledPublished DEF Provisioned, Installed
        <5> QED
          BY <5>1, <5>2 DEF Current
      <4>5. stamp = Current
        BY <2>1, <4>2, <4>3, <4>4 DEF Release
      <4> QED
        BY <2>1, <2>2, <4>5 DEF Trusted
    <3> QED
      BY <3>3, <3>4
  <2> QED
    BY <2>3, <2>4
<1>3. NobodyInstalls' => NobodyInstalls
  BY <1>1 DEF NobodyInstalls, Updating
<1>4. \A d \in Command : BootstrapAlone(d) => BootstrapAlone(d)'
  BY <1>1 DEF BootstrapAlone, Bootstrapping, Updating, runtime
<1>5. RunsItsOwn => RunsItsOwn'
  BY <1>1 DEF RunsItsOwn, Updating, runtime
<1> QED
  BY <1>1, <1>2, <1>3, <1>4, <1>5 DEF Provisioned, RuntimeRight, StampHolds, runtime

LEMMA StartRight ==
    ASSUME Provisioned, NEW c \in Command, Start(c)
    PROVE  RuntimeRight'
<1>0. pc \in [Command -> PC] /\ rel \in [Command -> 1 .. latest] /\ forced \in [Command -> BOOLEAN]
  BY DEF Provisioned, Installed, TypeOK
<1>1. /\ pc[c] = "idle" /\ bin \in Release /\ UNCHANGED <<exes, runtime, history>>
      /\ pc'[c] \in {"start", "get"} /\ rel'[c] = bin
      /\ \A d \in Command : d # c => pc'[d] = pc[d] /\ rel'[d] = rel[d] /\ forced'[d] = forced[d]
  BY <1>0 DEF Start, Goto
<1>2. Trusted' => Trusted
  BY <1>1 DEF Trusted, exes, runtime
<1>3. NobodyInstalls' => NobodyInstalls
  BY <1>1 DEF NobodyInstalls
<1>4. \A d \in Command : BootstrapAlone(d) => BootstrapAlone(d)'
  BY <1>1 DEF BootstrapAlone, Bootstrapping, runtime
<1>5. RunsItsOwn => RunsItsOwn'
  BY <1>1 DEF RunsItsOwn, runtime
<1> QED
  BY <1>1, <1>2, <1>3, <1>4, <1>5 DEF Provisioned, RuntimeRight, StampHolds, runtime, history

LEMMA ProvisionedNext == Provisioned /\ [Next]_vars => Provisioned'
<1> SUFFICES ASSUME Provisioned, [Next]_vars PROVE RuntimeRight'
  BY InstalledNext DEF Provisioned
<1>1. ASSUME NEW c \in Command, Provision(c) PROVE RuntimeRight'
  <2>1. pc[c] \in {"start", "exec"} \cup Bootstrapping
    BY <1>1, ProvisionMoves DEF Provisioned, Installed
  <2>2. pc[c] \in {"start", "exec"} => Decide(c) \/ Exec(c) \/ CutBootstrap(c)
    BY <1>1 DEF Provision, FindUV, ExtractUV, Wipe, MakeVenv, Install, UVFails, WriteStamp
  <2> QED
    BY <1>1, <2>1, <2>2, DecideRight, ExecRight, BootstrapRight
<1>2. CASE Publish \/ UNCHANGED vars
  <2>1. UNCHANGED <<exes, runtime, command, spoiled, overlapped>>
    BY <1>2 DEF Publish, vars, history
  <2>2. (Trusted' <=> Trusted) /\ (NobodyInstalls' <=> NobodyInstalls)
    BY <2>1 DEF Trusted, NobodyInstalls, exes, runtime, command
  <2> QED
    BY <2>1, <2>2 DEF Provisioned, RuntimeRight, BootstrapAlone, StampHolds, RunsItsOwn, runtime,
       command
<1> QED
  BY <1>1, <1>2, Steps, StartRight, UpdateRight

\* StampNamesRuntime: as long as no bootstrap overlapped with another command, and
\* none was cut beside a stamp that is still believed, the stamp tells the truth
\* (main.go:263-296).
THEOREM StampsAreTrue == Spec => []StampNamesRuntime
<1>1. Provisioned => StampNamesRuntime
  <2> SUFFICES ASSUME Provisioned, ~spoiled, ~overlapped, stamp = bin, bin \in Release,
                      \A c \in Command : pc[c] \notin Bootstrapping
               PROVE  venv = stamp
    BY DEF StampNamesRuntime
  <2> QED
    BY DEF Provisioned, RuntimeRight, StampHolds, Trusted, NobodyInstalls, Bootstrapping
<1> QED
  BY <1>1, ProvisionedInit, ProvisionedNext, PTL DEF Spec

\* CommandsRunTheirRelease: under the same conditions a command runs the release
\* of the launcher that started it, whatever an update beside it does.
THEOREM CommandsRunTheirs == Spec => []CommandsRunTheirRelease
<1>1. Provisioned => CommandsRunTheirRelease
  <2> SUFFICES ASSUME Provisioned, ~spoiled, ~overlapped, NEW c \in Command, pc[c] = "exec"
               PROVE  venv = rel[c]
    BY DEF CommandsRunTheirRelease
  <2> QED
    BY DEF Provisioned, RuntimeRight, RunsItsOwn
<1> QED
  BY <1>1, ProvisionedInit, ProvisionedNext, PTL DEF Spec

=============================================================================
