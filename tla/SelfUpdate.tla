----------------------------- MODULE SelfUpdate -----------------------------
(***************************************************************************)
(* Self-update: the update goroutine (runSelfUpdateLoop, cmd/agent/main.go)*)
(* checks for a release, downloads and verifies it (internal/update) and   *)
(* hands it to main over a channel of capacity one; main stops the agent,  *)
(* promotes the staged file to <executable>.new and exits with 57. The     *)
(* service manager swaps the file in before it starts the agent again.     *)
(* Signals, crashes and new releases come at any moment. Stopping the      *)
(* collectors and flushing the queue (HubQueue) is one step here.          *)
(*                                                                         *)
(* Versions are strings in the order of VersionOrder. An executable file is*)
(* a version and two flags: its bytes are those that were released, and    *)
(* all of them have been written.                                          *)
(***************************************************************************)
EXTENDS VersionOrder

CONSTANTS
    Versions,            \* the versions released, as VersionOrder has them
    MaxSignals,          \* bound: shutdown signals in a behaviour
    MaxCrashes,          \* bound: crashes in a behaviour
    NoVersion,           \* stands for the version of no release
    NoFile               \* stands for an absent file

File == [ver : Versions, intact : BOOLEAN, whole : BOOLEAN]

ASSUME SelfUpdateAssumption ==
    /\ \A v \in Versions : v.segments \in Seq(Int)
    /\ NoVersion \notin Versions
    /\ MaxSignals \in Nat
    /\ MaxCrashes \in Nat
    /\ NoFile \notin File

\* An update.Release: its version, which the digest binds, and the temporary
\* file at StagedPath.
Release == [ver : Versions \cup {NoVersion}, file : File \cup {NoFile}]
NoRelease == [ver |-> NoVersion, file |-> NoFile]

VARIABLES
    offered,         \* the version the gateway announces and serves
    binary,          \* the installed executable
    newFile,         \* <executable>.new
    main,            \* where main is, or how the process ended
    upd,             \* where the update goroutine is
    release,         \* the release the update goroutine works on
    ready,           \* updateReadyCh
    restartRelease,  \* main's variable of that name
    passedOver,      \* staged files of releases that main took and dropped
    signalCh,        \* a signal is buffered for main
    external,        \* externalShutdown
    cancelled,       \* the agent's context is done
    told,            \* history: a signal was sent to this process
    signals,         \* signals so far
    crashes          \* crashes so far

disk == <<binary, newFile, passedOver>>
history == <<told, signals, crashes>>
vars == <<offered, binary, newFile, main, upd, release, ready, restartRelease,
          passedOver, signalCh, external, cancelled, told, signals, crashes>>

Ended == {"exit 0", "exit 57", "crashed"}

Init ==
    /\ offered \in Versions
    /\ binary \in [ver : Versions, intact : {TRUE}, whole : {TRUE}]
    /\ newFile = NoFile
    /\ main = "select"
    /\ upd = "idle"
    /\ release = NoRelease
    /\ ready = <<>>
    /\ restartRelease = NoRelease
    /\ passedOver = 0
    /\ signalCh = FALSE
    /\ external = FALSE
    /\ cancelled = FALSE
    /\ told = FALSE
    /\ signals = 0
    /\ crashes = 0

-----------------------------------------------------------------------------
(* The update goroutine                                                     *)

Running == main \notin Ended

UpdGoto(from, to) ==
    /\ Running
    /\ upd = from
    /\ upd' = to

\* Slip: any other version is an update.
CheckAnyOther ==
    /\ ~cancelled
    /\ offered # binary.ver
    /\ UpdGoto("idle", "download")
    /\ release' = [ver |-> offered, file |-> NoFile]
    /\ UNCHANGED <<offered, disk, main, ready, restartRelease, signalCh, external,
                   cancelled, history>>

\* Check announces a higher version than the one that runs; every other answer,
\* an error and a done context leave the loop where it is.
Check ==
    /\ ~cancelled
    /\ IsHigherVersion(offered, binary.ver)
    /\ UpdGoto("idle", "download")
    /\ release' = [ver |-> offered, file |-> NoFile]
    /\ UNCHANGED <<offered, disk, main, ready, restartRelease, signalCh, external,
                   cancelled, history>>

\* DownloadRelease writes what the gateway serves by now to a temporary file;
\* bytes may be damaged. It does not watch the agent's context.
Download ==
    /\ UpdGoto("download", "verify")
    /\ \E ok \in BOOLEAN :
           release' = [release EXCEPT !.file =
                           [ver |-> offered, intact |-> ok, whole |-> TRUE]]
    /\ UNCHANGED <<offered, disk, main, ready, restartRelease, signalCh, external,
                   cancelled, history>>

\* A request fails, is answered with an error, or the file cannot be written;
\* a temporary file that was begun is removed.
DownloadFailed ==
    /\ UpdGoto("download", "idle")
    /\ release' = NoRelease
    /\ UNCHANGED <<offered, disk, main, ready, restartRelease, signalCh, external,
                   cancelled, history>>

\* Slip: the digest is not compared.
VerifiedUnseen ==
    /\ UpdGoto("verify", "staged")
    /\ UNCHANGED <<offered, disk, main, release, ready, restartRelease, signalCh,
                   external, cancelled, history>>

\* verifyDigest accepts the announced bytes only; the smoke test runs them.
Verified ==
    /\ UpdGoto("verify", "staged")
    /\ release.file.ver = release.ver /\ release.file.intact
    /\ UNCHANGED <<offered, disk, main, release, ready, restartRelease, signalCh,
                   external, cancelled, history>>

\* Slip: a release that is rejected ends the update loop.
RejectedForGood ==
    /\ UpdGoto("verify", "exited")
    /\ release' = NoRelease
    /\ UNCHANGED <<offered, disk, main, ready, restartRelease, signalCh, external,
                   cancelled, history>>

\* The digest does not match, or the smoke test fails or times out.
Rejected ==
    /\ UpdGoto("verify", "idle")
    /\ release' = NoRelease
    /\ UNCHANGED <<offered, disk, main, ready, restartRelease, signalCh, external,
                   cancelled, history>>

\* With the context done meanwhile, the staged file is removed.
StagedTooLate ==
    /\ cancelled
    /\ UpdGoto("staged", "idle")
    /\ release' = NoRelease
    /\ UNCHANGED <<offered, disk, main, ready, restartRelease, signalCh, external,
                   cancelled, history>>

StagedInTime ==
    /\ ~cancelled
    /\ UpdGoto("staged", "send")
    /\ UNCHANGED <<offered, disk, main, release, ready, restartRelease, signalCh,
                   external, cancelled, history>>

\* Slip: without room the staged file is forgotten.
SendForgetful ==
    /\ UpdGoto("send", "idle")
    /\ ready' = IF ready = <<>> THEN <<release>> ELSE ready
    /\ passedOver' = IF ready = <<>> THEN passedOver ELSE passedOver + 1
    /\ release' = NoRelease
    /\ UNCHANGED <<offered, binary, newFile, main, restartRelease, signalCh, external,
                   cancelled, history>>

\* updateReadyCh takes one release; without room the staged file is removed.
Send ==
    /\ UpdGoto("send", "idle")
    /\ ready' = IF ready = <<>> THEN <<release>> ELSE ready
    /\ release' = NoRelease
    /\ UNCHANGED <<offered, disk, main, restartRelease, signalCh, external,
                   cancelled, history>>

UpdExit ==
    /\ cancelled
    /\ UpdGoto("idle", "exited")
    /\ UNCHANGED <<offered, disk, main, release, ready, restartRelease, signalCh,
                   external, cancelled, history>>

UpdateStep ==
    \/ Check
    \/ Download \/ DownloadFailed
    \/ Verified \/ Rejected
    \/ StagedTooLate \/ StagedInTime \/ Send
    \/ UpdExit

-----------------------------------------------------------------------------
(* main                                                                     *)

MainGoto(from, to) ==
    /\ main = from
    /\ main' = to

updating == <<upd, release>>

\* Slip: the agent shuts down and forgets why.
MainSignalForgotten ==
    /\ MainGoto("select", "select")
    /\ signalCh
    /\ signalCh' = FALSE
    /\ cancelled' = TRUE
    /\ UNCHANGED <<offered, disk, updating, ready, restartRelease, external, history>>

\* A signal taken by the select: shut down, and remember why.
MainSignal ==
    /\ MainGoto("select", "select")
    /\ signalCh
    /\ signalCh' = FALSE
    /\ external' = TRUE
    /\ cancelled' = TRUE
    /\ UNCHANGED <<offered, disk, updating, ready, restartRelease, history>>

\* A release taken by the select; a second one is passed over, its file is left
\* where it is.
MainRelease ==
    /\ main = "select"
    /\ ready # <<>>
    /\ ready' = <<>>
    /\ IF restartRelease = NoRelease
       THEN /\ restartRelease' = Head(ready)
            /\ main' = "cancel"
            /\ UNCHANGED passedOver
       ELSE /\ passedOver' = passedOver + 1
            /\ UNCHANGED <<restartRelease, main>>
    /\ UNCHANGED <<offered, binary, newFile, updating, signalCh, external, cancelled,
                   history>>

\* The release is to be installed: cancel the agent's context.
MainCancel ==
    /\ MainGoto("cancel", "select")
    /\ cancelled' = TRUE
    /\ UNCHANGED <<offered, disk, updating, ready, restartRelease, signalCh, external,
                   history>>

\* The manager has returned; join the submit loop and flush the queue.
MainStopped ==
    /\ cancelled
    /\ MainGoto("select", "decide")
    /\ UNCHANGED <<offered, disk, updating, ready, restartRelease, signalCh, external,
                   cancelled, history>>

\* A last look for a signal, then the fate of the release.
Decide ==
    /\ external' = (external \/ signalCh)
    /\ signalCh' = FALSE
    /\ MainGoto("decide", IF restartRelease = NoRelease THEN "exit 0"
                          ELSE IF external' THEN "discard" ELSE "promote")
    /\ UNCHANGED <<offered, disk, updating, ready, restartRelease, cancelled, history>>

\* os.Remove(restartRelease.StagedPath), then return.
Discard ==
    /\ MainGoto("discard", "exit 0")
    /\ restartRelease' = [restartRelease EXCEPT !.file = NoFile]
    /\ UNCHANGED <<offered, disk, updating, ready, signalCh, external, cancelled,
                   history>>

\* PromoteRelease: the rename puts the whole file in place at once.
Rename ==
    /\ MainGoto("promote", "promoted")
    /\ newFile' = restartRelease.file
    /\ restartRelease' = [restartRelease EXCEPT !.file = NoFile]
    /\ UNCHANGED <<offered, binary, passedOver, updating, ready, signalCh, external,
                   cancelled, history>>

\* EXDEV: os.Create truncates what is there, and copying begins.
CopyStart ==
    /\ MainGoto("promote", "copy")
    /\ newFile' = [restartRelease.file EXCEPT !.whole = FALSE]
    /\ UNCHANGED <<offered, binary, passedOver, updating, ready, restartRelease, signalCh,
                   external, cancelled, history>>

\* Slip: a failed copy is taken for a finished one.
CopyUnchecked ==
    /\ MainGoto("copy", "promoted")
    /\ restartRelease' = [restartRelease EXCEPT !.file = NoFile]
    /\ UNCHANGED <<offered, disk, updating, ready, signalCh, external, cancelled,
                   history>>

\* All bytes are written, synced and executable; the original is removed.
CopyDone ==
    /\ MainGoto("copy", "promoted")
    /\ newFile' = restartRelease.file
    /\ restartRelease' = [restartRelease EXCEPT !.file = NoFile]
    /\ UNCHANGED <<offered, binary, passedOver, updating, ready, signalCh, external,
                   cancelled, history>>

\* A failed copy removes what it has written.
CopyFailed ==
    /\ MainGoto("copy", "discard")
    /\ newFile' = NoFile
    /\ UNCHANGED <<offered, binary, passedOver, updating, ready, restartRelease, signalCh,
                   external, cancelled, history>>

\* Any other error of the rename, or the files cannot be opened.
PromoteFailed ==
    /\ MainGoto("promote", "discard")
    /\ UNCHANGED <<offered, disk, updating, ready, restartRelease, signalCh, external,
                   cancelled, history>>

\* os.Exit(57): "systemd should restart to apply the staged binary swap".
ExitForRestart ==
    /\ MainGoto("promoted", "exit 57")
    /\ UNCHANGED <<offered, disk, updating, ready, restartRelease, signalCh, external,
                   cancelled, history>>

MainStep ==
    \/ MainSignal \/ MainRelease \/ MainCancel \/ MainStopped
    \/ Decide \/ Discard
    \/ Rename \/ CopyStart \/ CopyDone \/ CopyFailed \/ PromoteFailed
    \/ ExitForRestart

-----------------------------------------------------------------------------
(* The world                                                                *)

\* The gateway announces another version, possibly an older one.
Publish ==
    /\ offered' \in Versions \ {offered}
    /\ UNCHANGED <<disk, main, updating, ready, restartRelease, signalCh, external,
                   cancelled, history>>

\* SIGTERM or an interrupt; signalCh holds one.
Signal ==
    /\ Running
    /\ signals < MaxSignals
    /\ signals' = signals + 1
    /\ signalCh' = TRUE
    /\ told' = TRUE
    /\ UNCHANGED <<offered, disk, main, updating, ready, restartRelease, external,
                   cancelled, crashes>>

Crash ==
    /\ Running
    /\ crashes < MaxCrashes
    /\ crashes' = crashes + 1
    /\ main' = "crashed"
    /\ UNCHANGED <<offered, disk, updating, ready, restartRelease, signalCh, external,
                   cancelled, told, signals>>

\* The service manager starts the agent: ExecStartPre verifies <executable>.new
\* and swaps it in, or keeps the old executable. Of the process that ended,
\* nothing but the files is left.
Start ==
    /\ ~Running
    /\ binary' = IF newFile # NoFile /\ newFile.whole THEN newFile ELSE binary
    /\ newFile' = NoFile
    /\ main' = "select"
    /\ upd' = "idle"
    /\ release' = NoRelease
    /\ ready' = <<>>
    /\ restartRelease' = NoRelease
    /\ passedOver' = 0
    /\ signalCh' = FALSE
    /\ external' = FALSE
    /\ cancelled' = FALSE
    /\ told' = FALSE
    /\ UNCHANGED <<offered, signals, crashes>>

Next == UpdateStep \/ MainStep \/ Publish \/ Signal \/ Crash \/ Start

Spec == Init /\ [][Next]_vars

\* The goroutines are scheduled, the ticker fires and the service manager
\* restarts the agent. What is tried again and again works in the end: a check,
\* a download and its smoke test, and the promotion, provided that the agent
\* may write to the directory of its executable.
Fairness ==
    /\ WF_vars(UpdateStep)
    /\ WF_vars(MainStep)
    /\ WF_vars(Start)
    /\ SF_vars(Check)
    /\ SF_vars(Download /\ release'.file.intact)
    /\ SF_vars(Verified)
    /\ SF_vars(Rename \/ CopyDone)

FairSpec == Spec /\ Fairness

-----------------------------------------------------------------------------
(* Properties                                                               *)

\* Every variable has its type; at most one release waits for main
\* (main.go:220, 431-435).
TypeOK ==
    /\ offered \in Versions
    /\ binary \in File
    /\ newFile \in File \cup {NoFile}
    /\ main \in {"select", "cancel", "decide", "discard", "promote", "copy",
                 "promoted"} \cup Ended
    /\ upd \in {"idle", "download", "verify", "staged", "send", "exited"}
    /\ release \in Release
    /\ ready \in {<<>>} \cup {<<r>> : r \in Release}
    /\ restartRelease \in Release
    /\ passedOver \in Nat
    /\ signalCh \in BOOLEAN
    /\ external \in BOOLEAN
    /\ cancelled \in BOOLEAN
    /\ told \in BOOLEAN
    /\ signals \in 0 .. MaxSignals
    /\ crashes \in 0 .. MaxCrashes

\* What ends up installed has passed the digest: it is intact and whole, also
\* when the gateway moved on between the announcement and the download, and
\* when the agent crashed at any point of staging and promotion
\* (manager.go:191-199, 216-264).
OnlyVerifiedInstalled == binary.intact /\ binary.whole

\* An agent never replaces itself by an older version, whatever the gateway
\* announces between check, download and restart (manager.go:79-85).
NeverDowngraded ==
    [][binary'.ver = binary.ver \/ IsHigherVersion(binary'.ver, binary.ver)]_vars

\* Exit code 57 promises a complete new executable (main.go:267-274).
RestartHasNewBinary ==
    main = "exit 57" =>
        /\ newFile # NoFile /\ newFile.whole
        /\ IsHigherVersion(newFile.ver, binary.ver)

\* Where a promotion is under way or done.
Promoting == {"promote", "copy", "promoted", "exit 57"}

\* A shutdown request wins over the update: no promotion begins in a process that
\* was sent a signal, be it waiting in signalCh since the flush or taken by the
\* select long before a release was (main.go:237-240, 258-266).
ShutdownWins == [][main \notin Promoting /\ main' \in Promoting => ~told]_vars

\* A temporary file of the update loop's own may exist.
Working == {"download", "verify", "staged", "send"}

\* Staged files do not pile up in the temporary directory: however main ends, the
\* file of the release it took is gone, and of all others a process has
\* downloaded, at most two outlive it (one passed over or in the channel, one of
\* a download in progress), however often the update loop went round before main
\* stopped (main.go:267-277, 284-286, 427-435, manager.go:259).
FewFilesLeft ==
    main \in {"exit 0", "exit 57"} =>
        /\ restartRelease.file = NoFile
        /\ passedOver + Len(ready) + (IF upd \in Working THEN 1 ELSE 0) <= 2

\* A version that the gateway keeps announcing is installed in the end
\* (main.go:397-449, 266-274).
UpdateArrives ==
    \A v \in Versions :
        offered = v ~> (~IsHigherVersion(v, binary.ver) \/ offered # v)
=============================================================================
