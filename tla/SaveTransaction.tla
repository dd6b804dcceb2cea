--------------------------- MODULE SaveTransaction ---------------------------
(* One save slot on disk: the background writer that commits a group of      *)
(* files (.scop main, .scoc custom, .scov sidecar), its I/O helper, the      *)
(* destructive legacy Lua capture, and the recovery of an interrupted        *)
(* transaction.  Sources: src/xrGame/alife_storage_manager.cpp and           *)
(* saved_game_wrapper.cpp.                                                   *)
(*                                                                           *)
(* A file holds the generation whose bytes it has, Absent, or Torn.  Rename  *)
(* and delete are atomic; a copy or a write is not, and what was not flushed *)
(* is dirty: a crash may tear any dirty file and the one being written.      *)
EXTENDS Naturals

CONSTANTS MaxSaves,     \* saves begun in a behaviour
          MaxFaults,    \* failing file operations in a behaviour
          MaxCrashes,   \* crashes in a behaviour
          FirstGroups,  \* component sets the slot may hold at the start
          Crashes,      \* what may happen: "kill", "power"
          Captures,     \* which capture paths scripts use: "memory", "legacy"
          Absent, Torn, \* file contents that are no generation
          None          \* no visible save

Comp == {"scop", "scoc", "scov"}
Gen == 0..MaxSaves

ASSUME SaveTransactionAssumption ==
    /\ MaxSaves \in Nat /\ MaxFaults \in Nat /\ MaxCrashes \in Nat
    /\ FirstGroups \subseteq SUBSET Comp
    /\ Crashes \subseteq {"kill", "power"}
    /\ Captures \subseteq {"memory", "legacy"}
    /\ Absent \notin Nat /\ Torn \notin Nat /\ None \notin Nat /\ Absent # Torn

Content == Gen \cup {Absent, Torn}

Final(c)   == <<"final", c, 0>>
Bak(c)     == <<"bak", c, 0>>
Staged(c)  == <<"recover", c, 0>>
Temp(g, c) == <<"temp", c, g>>
Preserved(g) == <<"preserved", "scoc", g>>
CallbackTmp  == <<"callback", "scoc", 0>>
MarkerFile   == <<"marker", "scop", 0>>

File == {Final(c) : c \in Comp} \cup {Bak(c) : c \in Comp}
            \cup {Staged(c) : c \in Comp} \cup {Temp(g, c) : g \in Gen, c \in Comp}
            \cup {Preserved(g) : g \in Gen} \cup {CallbackTmp}

NoGroup == [c \in Comp |-> Absent]

\* SaveTransactionMarker::State as ReadResult shows it.
Marker == [state : {"missing", "invalid", "valid"}, id : Gen, custom : BOOLEAN,
           prev : SUBSET Comp, legacy : BOOLEAN]
Unmarked(s) == [state |-> s, id |-> 0, custom |-> FALSE, prev |-> {}, legacy |-> FALSE]

Job == [id : Gen, custom : BOOLEAN, staged : BOOLEAN, ready : BOOLEAN,
        backups : BOOLEAN, durable : SUBSET Comp, had : SUBSET Comp,
        caller : {"player", "commit"}, source : {"bak", "new"}, expect : SUBSET Comp]
NoJob == [id |-> 0, custom |-> FALSE, staged |-> FALSE, ready |-> TRUE,
          backups |-> FALSE, durable |-> {}, had |-> {},
          caller |-> "player", source |-> "bak", expect |-> {}]

VARIABLES disk,    \* what every file of the slot holds
          dirty,   \* the files whose contents are not flushed
          marker,  \* the .scop.txn file
          pc, at,  \* the step in progress and the component it is at
          job,     \* the locals of the save or the recovery in progress
          group,   \* history: the group each generation stands for
          saves, faults, crashes

vars == <<disk, dirty, marker, pc, at, job, group, saves, faults, crashes>>

\* Broken variant: the commit installs the main file first.
MainFirstInstall == {"restore", "rec_install"}

CompanionsFirst == {"install", "restore", "rec_install"}
Label == {"install", "restore", "rec_install", "idle", "start", "early_custom", "early_backup", "early_main",
          "encode", "temps", "check", "preflight", "backup", "marker", "drop_main",
          "done", "unmark", "cleanup",
          "legacy_marker", "legacy_preserve", "legacy_abort", "legacy_quit",
          "legacy_callback", "legacy_collect", "legacy_restore", "legacy_unmark",
          "legacy_discard",
          "recover", "rec_legacy", "rec_purge", "rec_stage", "rec_clean", "rec_unmark"}

\* TypeOK: every file, the marker and the locals of the step in progress hold
\* values the code can give them; the component loops never run past the group.
TypeOK == /\ disk \in [File -> Content]
          /\ dirty \subseteq File \cup {MarkerFile}
          /\ marker \in Marker
          /\ pc \in Label /\ at \in Comp
          /\ job \in Job
          /\ group \in [Gen -> [Comp -> Content]]
          /\ saves \in 0..MaxSaves
          /\ faults \in 0..MaxFaults /\ crashes \in 0..MaxCrashes

Init == \E first \in FirstGroups :
          /\ group = [g \in Gen |-> IF g = 0 THEN [c \in Comp |->
                         IF c \in first THEN 0 ELSE Absent] ELSE NoGroup]
          /\ disk = [f \in File |-> IF \E c \in first : f = Final(c) THEN 0 ELSE Absent]
          /\ dirty = {} /\ marker = Unmarked("missing")
          /\ pc = "idle" /\ at = "scop" /\ job = NoJob
          /\ saves = 0 /\ faults = 0 /\ crashes = 0
-----------------------------------------------------------------------------
(* File operations and control flow.                                         *)

Exists(f) == disk[f] # Absent
Valid(f)  == disk[f] \in Gen        \* valid_saved_game_file of a main file

Put(f, v)     == disk' = [disk EXCEPT ![f] = v] /\ dirty' = dirty \ {f}
PutLazy(f, v) == disk' = [disk EXCEPT ![f] = v] /\ dirty' = dirty \cup {f}
Delete(f)     == Put(f, Absent)
Move(s, d)    == /\ disk' = [disk EXCEPT ![d] = disk[s], ![s] = Absent]
                 /\ dirty' = IF s \in dirty THEN (dirty \ {s}) \cup {d} ELSE dirty \ {d}
Flush(f)      == dirty' = dirty \ {f} /\ UNCHANGED disk
KeepFiles     == UNCHANGED <<disk, dirty>>

Works == UNCHANGED faults
Fails == faults < MaxFaults /\ faults' = faults + 1

\* A failing copy or write leaves the old file, none, a part, or unflushed data.
Botch(f, v) == Fails /\ \E left \in {disk[f], Absent, Torn, v} : PutLazy(f, left)

Goto(p) == pc' = p /\ at' = IF p \in CompanionsFirst THEN "scoc" ELSE "scop"

Succ == [scop |-> "scoc", scoc |-> "scov", scov |-> "scop"]
Last(p) == IF p \in CompanionsFirst THEN "scop" ELSE "scov"
\* The next component of the loop in progress, or what follows the loop.
Advance(p) == IF at = Last(pc) THEN Goto(p) ELSE pc' = pc /\ at' = Succ[at]

Rest == UNCHANGED <<group, saves, crashes>>
-----------------------------------------------------------------------------
(* The save: capture, I/O preparation, temporary files.                      *)

BeginSave(custom) ==
    /\ pc = "idle" /\ "memory" \in Captures /\ saves < MaxSaves
    /\ saves' = saves + 1
    /\ group' = [group EXCEPT ![saves + 1] =
           [c \in Comp |-> IF c = "scoc" /\ ~custom THEN Absent ELSE saves + 1]]
    /\ job' = [NoJob EXCEPT !.id = saves + 1, !.custom = custom]
    /\ Goto("start")
    /\ UNCHANGED <<disk, dirty, marker, faults, crashes>>

\* The I/O helper runs only with no marker and with all three finals leased; a
\* sharing violation or a build without leases takes the slow path.
StartJob ==
    /\ pc = "start"
    /\ \/ /\ marker.state = "missing" /\ \A c \in Comp : Exists(Final(c))
          /\ Goto(IF job.custom THEN "early_custom" ELSE "early_backup")
       \/ Goto("encode")
    /\ Works /\ KeepFiles /\ Rest /\ UNCHANGED <<marker, job>>

EarlyCustom ==
    LET f == Temp(job.id, "scoc") IN
    /\ pc = "early_custom"
    /\ \/ /\ IF job.staged THEN Flush(f) ELSE Put(f, group[job.id]["scoc"])
          /\ Works /\ Goto("early_backup")
          /\ job' = [job EXCEPT !.durable = {"scoc"}]
       \/ /\ IF job.staged THEN Fails /\ KeepFiles ELSE Botch(f, group[job.id]["scoc"])
          /\ Goto("encode") /\ UNCHANGED job
    /\ Rest /\ UNCHANGED marker

EarlyBackup ==
    /\ pc = "early_backup"
    /\ \/ Put(Bak(at), disk[Final(at)]) /\ Works /\ Advance("early_main") /\ UNCHANGED job
       \/ /\ Botch(Bak(at), disk[Final(at)]) /\ Goto("encode")
          /\ job' = [job EXCEPT !.durable = {}]
    /\ Rest /\ UNCHANGED marker

EarlyMain ==
    LET f == Temp(job.id, "scop") IN
    /\ pc = "early_main"
    /\ \/ /\ Put(f, job.id) /\ Works
          /\ job' = [job EXCEPT !.backups = TRUE, !.durable = @ \cup {"scop"}]
       \/ Botch(f, job.id) /\ job' = [job EXCEPT !.durable = {}]
    /\ Goto("encode") /\ Rest /\ UNCHANGED marker

\* Compression check, extension merge, custom signature, sidecar encoding.
Encode ==
    /\ pc = "encode"
    /\ \/ /\ IF job.custom /\ job.staged THEN Flush(Temp(job.id, "scoc")) ELSE KeepFiles
          /\ Works /\ Goto("temps")
       \/ Fails /\ KeepFiles /\ Goto("cleanup")
    /\ Rest /\ UNCHANGED <<marker, job>>

\* Does this job write the temporary file of c itself, and late?
Due(c) == c \notin job.durable /\ (c = "scoc" => job.custom /\ ~job.staged)

WriteTemp ==
    LET f == Temp(job.id, at) IN
    /\ pc = "temps"
    /\ \/ /\ IF Due(at) THEN PutLazy(f, job.id) ELSE KeepFiles
          /\ Works /\ Advance("check")
       \/ Due(at) /\ Botch(f, job.id) /\ Goto("cleanup")
    /\ Rest /\ UNCHANGED <<marker, job>>
-----------------------------------------------------------------------------
(* commit_save_set.                                                          *)

Installs(c) == c = "scoc" => job.custom

CheckMarker ==
    /\ pc = "check"
    /\ job' = [job EXCEPT !.backups = @ /\ marker.state = "missing", !.caller = "commit"]
    /\ Goto(IF marker.state = "missing" THEN "preflight" ELSE "recover")
    /\ Works /\ KeepFiles /\ Rest /\ UNCHANGED marker

\* The temporary file of c made durable before anything else is touched.
NoFlush(c) == {}                        \* broken variant: trusts the write
Flushed(c) == IF Installs(c) THEN {Temp(job.id, c)} ELSE {}

HadFinal(c) == job.backups \/ Exists(Final(c))

\* A component that was not there leaves no backup behind.
NoStale(c) == {}                        \* broken variant: old backups stay
Stale(c) == IF HadFinal(c) THEN {} ELSE {Bak(c)}

Preflight ==
    /\ pc = "preflight"
    /\ \/ /\ Installs(at) => Exists(Temp(job.id, at))
          /\ disk' = [f \in File |-> IF f \in Stale(at) THEN Absent ELSE disk[f]]
          /\ dirty' = dirty \ (Stale(at) \cup Flushed(at))
          /\ job' = [job EXCEPT !.had = IF HadFinal(at) THEN @ \cup {at} ELSE @]
          /\ Works /\ Advance(IF job.backups THEN "marker" ELSE "backup")
       \/ /\ Fails \/ (Installs(at) /\ ~Exists(Temp(job.id, at)) /\ Works)
          /\ KeepFiles /\ UNCHANGED job /\ Goto("cleanup")
    /\ Rest /\ UNCHANGED marker

BackUp ==
    /\ pc = "backup"
    /\ \/ /\ IF at \in job.had THEN Put(Bak(at), disk[Final(at)]) ELSE KeepFiles
          /\ Works /\ Advance("marker")
       \/ at \in job.had /\ Botch(Bak(at), disk[Final(at)]) /\ Goto("cleanup")
    /\ Rest /\ UNCHANGED <<marker, job>>

\* A durable write of the marker; one that fails leaves anything behind.
PutMarker(m) == /\ marker' = m /\ Works
                /\ dirty' = dirty \ {MarkerFile} /\ UNCHANGED disk
BotchMarker(m) == /\ Fails /\ marker' \in {marker, Unmarked("invalid"), m}
                  /\ dirty' = dirty \cup {MarkerFile} /\ UNCHANGED disk
DropMarker == PutMarker(Unmarked("missing"))
KeepMarker == Fails /\ KeepFiles /\ UNCHANGED marker

NewMarker == [state |-> "valid", id |-> job.id, custom |-> job.custom,
              prev |-> job.had, legacy |-> pc = "legacy_marker"]

WriteMarker ==
    /\ pc = "marker"
    /\ \/ PutMarker(NewMarker) /\ Goto("drop_main")
       \/ BotchMarker(NewMarker) /\ Goto("unmark")
    /\ Rest /\ UNCHANGED job

DropMain ==
    /\ pc = "drop_main"
    /\ \/ Delete(Final("scop")) /\ Works /\ Goto("install")
       \/ Fails /\ KeepFiles /\ Goto("unmark")
    /\ Rest /\ UNCHANGED <<marker, job>>

\* .scoc, .scov, and .scop last.
Install ==
    /\ pc = "install"
    /\ \/ /\ IF Installs(at) THEN Move(Temp(job.id, at), Final(at)) ELSE Delete(Final(at))
          /\ Works /\ Advance("done")
       \/ Fails /\ KeepFiles /\ Goto("restore")
    /\ Rest /\ UNCHANGED <<marker, job>>

\* Broken variant: a marker that cannot be removed fails the finished save.
SucceedOrFail ==
    /\ pc = "done"
    /\ \/ DropMarker /\ Goto("idle") /\ job' = NoJob
       \/ KeepMarker /\ Goto("cleanup") /\ UNCHANGED job
    /\ Rest

Succeed ==
    /\ pc = "done"
    /\ DropMarker \/ KeepMarker
    /\ Goto("idle") /\ job' = NoJob /\ Rest

\* Broken variant: the marker is dropped even after an incomplete rollback.
RestoreOrGiveUp ==
    /\ pc = "restore"
    /\ \/ /\ IF at \in job.had THEN Put(Final(at), disk[Bak(at)]) ELSE Delete(Final(at))
          /\ Works /\ Advance("unmark")
       \/ Fails /\ KeepFiles /\ Goto("unmark")
    /\ Rest /\ UNCHANGED <<marker, job>>

RestorePrevious ==
    /\ pc = "restore"
    /\ \/ /\ IF at \in job.had THEN Put(Final(at), disk[Bak(at)]) ELSE Delete(Final(at))
          /\ Works /\ Advance("unmark")
       \/ /\ IF at \in job.had THEN Botch(Final(at), disk[Bak(at)]) ELSE Fails /\ KeepFiles
          /\ Goto("cleanup")
    /\ Rest /\ UNCHANGED <<marker, job>>

Unmark ==
    /\ pc = "unmark"
    /\ DropMarker \/ KeepMarker
    /\ Goto("cleanup") /\ Rest /\ UNCHANGED job

\* The failed job removes its temporary files and reports the failure.
CleanUp ==
    /\ pc = "cleanup"
    /\ \/ /\ IF Installs(at) THEN Delete(Temp(job.id, at)) ELSE KeepFiles
          /\ Works
       \/ Installs(at) /\ Fails /\ KeepFiles
    /\ Advance("idle") /\ job' = IF at = "scov" THEN NoJob ELSE job
    /\ Rest /\ UNCHANGED marker
-----------------------------------------------------------------------------
(* The legacy Lua capture, on the main thread with the writer idle.  Its     *)
(* callback may write either temporary name, rewrite or delete the final     *)
(* .scoc, or leave it alone.                                                 *)

BeginLegacy ==
    /\ pc = "idle" /\ "legacy" \in Captures /\ saves < MaxSaves
    /\ saves' = saves + 1
    /\ job' = [NoJob EXCEPT !.id = saves + 1,
                            !.had = {c \in {"scop", "scoc"} : Exists(Final(c))}]
    /\ Goto("legacy_marker")
    /\ UNCHANGED <<disk, dirty, marker, group, faults, crashes>>

LegacyMarker ==
    /\ pc = "legacy_marker"
    /\ \/ /\ PutMarker(NewMarker)
          /\ Goto(IF "scoc" \in job.had THEN "legacy_preserve" ELSE "legacy_callback")
       \/ BotchMarker(NewMarker) /\ Goto("legacy_abort")
    /\ Rest /\ UNCHANGED job

LegacyPreserve ==
    LET f == Preserved(job.id) IN
    /\ pc = "legacy_preserve"
    /\ \/ Put(f, disk[Final("scoc")]) /\ Works /\ Goto("legacy_callback")
       \/ Botch(f, disk[Final("scoc")]) /\ Goto("legacy_abort")
    /\ Rest /\ UNCHANGED <<marker, job>>

LegacyAbort ==
    /\ pc = "legacy_abort"
    /\ \/ /\ IF Exists(Preserved(job.id)) THEN Move(Preserved(job.id), Final("scoc"))
                                          ELSE KeepFiles
          /\ Works
       \/ Exists(Preserved(job.id)) /\ Fails /\ KeepFiles
    /\ Goto("legacy_quit") /\ Rest /\ UNCHANGED <<marker, job>>

LegacyQuit ==
    /\ pc = "legacy_quit"
    /\ DropMarker \/ KeepMarker
    /\ Goto("idle") /\ job' = NoJob /\ Rest

CallbackFiles(g) == {Temp(g, "scoc"), CallbackTmp, Final("scoc")}

LegacyCallback ==
    /\ pc = "legacy_callback"
    /\ \/ \E f \in CallbackFiles(job.id) : PutLazy(f, job.id)
       \/ Delete(Final("scoc"))
       \/ KeepFiles
    /\ Works /\ Goto("legacy_collect") /\ Rest /\ UNCHANGED <<marker, job>>

\* Where the callback left the custom data, if it did.
Collected == IF Exists(Temp(job.id, "scoc")) THEN Temp(job.id, "scoc")
             ELSE IF Exists(CallbackTmp) THEN CallbackTmp ELSE Final("scoc")

LegacyCollect ==
    LET temp == Temp(job.id, "scoc")
        source == Collected
        moves == source = CallbackTmp
        copies == source = Final("scoc") /\ Exists(source) IN
    /\ pc = "legacy_collect"
    /\ \/ /\ IF moves THEN Move(source, temp)
             ELSE IF copies THEN Put(temp, disk[source]) ELSE KeepFiles
          /\ Works /\ job' = [job EXCEPT !.custom = Exists(source)]
       \/ /\ IF moves THEN Fails /\ KeepFiles ELSE copies /\ Botch(temp, disk[source])
          /\ job' = [job EXCEPT !.custom = TRUE, !.ready = FALSE]
    /\ group' = [group EXCEPT ![job.id] =
           [c \in Comp |-> IF c = "scoc" THEN disk[source] ELSE job.id]]
    /\ Goto("legacy_restore") /\ UNCHANGED <<marker, saves, crashes>>

\* Broken variant: custom data the callback created is left in the final.
RestoreOnlyOld ==
    /\ pc = "legacy_restore"
    /\ \/ /\ IF "scoc" \in job.had THEN Move(Preserved(job.id), Final("scoc")) ELSE KeepFiles
          /\ Works /\ Goto("legacy_unmark")
       \/ Fails /\ KeepFiles /\ Goto("legacy_discard")
    /\ Rest /\ UNCHANGED <<marker, job>>

LegacyRestore ==
    /\ pc = "legacy_restore"
    /\ \/ /\ IF "scoc" \in job.had THEN Move(Preserved(job.id), Final("scoc"))
                                   ELSE Delete(Final("scoc"))
          /\ Works /\ Goto("legacy_unmark")
       \/ Fails /\ KeepFiles /\ Goto("legacy_discard")
    /\ Rest /\ UNCHANGED <<marker, job>>

LegacyUnmark ==
    /\ pc = "legacy_unmark"
    /\ \/ /\ DropMarker /\ Goto(IF job.ready THEN "start" ELSE "legacy_discard")
          /\ job' = [job EXCEPT !.staged = job.custom, !.had = {}]
       \/ /\ KeepMarker \/ (Fails /\ marker' = Unmarked("missing")
                            /\ dirty' = dirty \ {MarkerFile} /\ UNCHANGED disk)
          /\ Goto("legacy_discard") /\ UNCHANGED job
    /\ Rest

LegacyDiscard ==
    /\ pc = "legacy_discard"
    /\ (Delete(Temp(job.id, "scoc")) /\ Works) \/ (Fails /\ KeepFiles)
    /\ Goto("idle") /\ job' = NoJob /\ Rest /\ UNCHANGED marker
-----------------------------------------------------------------------------
(* recover_interrupted_transaction: asked for by the save list and by the    *)
(* load paths with the writer idle, or by the commit that meets a marker.    *)

RequestRecovery ==
    /\ pc = "idle" /\ marker.state # "missing"
    /\ Goto("recover") /\ Works /\ KeepFiles /\ Rest /\ UNCHANGED <<marker, job>>

Return(recovered) ==
    IF job.caller = "commit"
      THEN Goto(IF recovered THEN "preflight" ELSE "cleanup") /\ UNCHANGED job
      ELSE Goto("idle") /\ job' = NoJob

\* restore_marked_backup_set: the backups present are the ones on record.
Restorable == /\ "scop" \in marker.prev
              /\ \A c \in Comp : Exists(Bak(c)) <=> c \in marker.prev
              /\ Valid(Bak("scop"))

\* finish_new_save_set: every component of the new group, signatures matching.
NewSource(c) == IF c = "scop" \/ Exists(Temp(marker.id, c)) THEN Temp(marker.id, c)
                                                            ELSE Final(c)
NewComps == IF marker.custom THEN Comp ELSE Comp \ {"scoc"}
Finishable == /\ "scop" \notin marker.prev /\ ~marker.legacy
              /\ \A c \in NewComps : disk[NewSource(c)] = marker.id

\* The backups if a previous main is on record, else the files of a first save.
Rebuild ==
    \/ /\ Restorable /\ Goto("rec_stage")
       /\ job' = [job EXCEPT !.source = "bak", !.expect = marker.prev]
    \/ /\ Finishable /\ Goto("rec_stage")
       /\ job' = [job EXCEPT !.source = "new", !.expect = NewComps]
    \/ ~Restorable /\ ~Finishable /\ Return(FALSE)

\* The main file is installed last, so a valid one means a finished group.
NeverComplete == FALSE                  \* broken variant: always rebuilds
Complete == Valid(Final("scop"))

Recover ==
    /\ pc = "recover"
    /\ \/ /\ marker.state = "invalid" /\ Works
          /\ IF Complete THEN Goto("rec_unmark") /\ UNCHANGED job ELSE Return(FALSE)
       \/ /\ marker.state = "valid" /\ Works
          /\ IF marker.legacy THEN Goto("rec_legacy") /\ UNCHANGED job
             ELSE IF Complete THEN Goto("rec_clean") /\ UNCHANGED job
             ELSE Rebuild
       \/ Fails /\ Return(FALSE)
    /\ KeepFiles /\ Rest /\ UNCHANGED marker

RecoverLegacy ==
    LET preserved == Preserved(marker.id) IN
    /\ pc = "rec_legacy"
    /\ \/ /\ IF "scoc" \notin marker.prev THEN Delete(Final("scoc"))
             ELSE IF Exists(preserved) THEN Move(preserved, Final("scoc"))
             ELSE Exists(Final("scoc")) /\ KeepFiles
          /\ Works /\ Goto("rec_purge") /\ UNCHANGED job
       \/ /\ Fails \/ (Works /\ "scoc" \in marker.prev /\ ~Exists(preserved)
                       /\ ~Exists(Final("scoc")))
          /\ KeepFiles /\ Rebuild
    /\ Rest /\ UNCHANGED marker

PurgeLegacy ==
    /\ pc = "rec_purge"
    /\ \E kept \in SUBSET {CallbackTmp, Preserved(marker.id)} :
         LET gone == {CallbackTmp, Preserved(marker.id)} \ kept IN
         /\ disk' = [f \in File |-> IF f \in gone THEN Absent ELSE disk[f]]
         /\ dirty' = dirty \ gone
         /\ IF kept = {} THEN Works ELSE Fails
    /\ Goto("rec_clean") /\ Rest /\ UNCHANGED <<marker, job>>

\* Copies under .recover names, each flushed, before any final is touched.
RecoverySource(c) == IF job.source = "bak" THEN Bak(c) ELSE NewSource(c)

StageRecovery ==
    /\ pc = "rec_stage"
    /\ \/ /\ IF at \in job.expect THEN Put(Staged(at), disk[RecoverySource(at)])
                                   ELSE Delete(Staged(at))
          /\ Works /\ Advance("rec_install") /\ UNCHANGED job
       \/ /\ IF at \in job.expect THEN Botch(Staged(at), disk[RecoverySource(at)])
                                   ELSE Fails /\ KeepFiles
          /\ Return(FALSE)
    /\ Rest /\ UNCHANGED marker

InstallRecovery ==
    /\ pc = "rec_install"
    /\ \/ /\ IF at \in job.expect THEN Move(Staged(at), Final(at)) ELSE Delete(Final(at))
          /\ Works /\ Advance("rec_clean") /\ UNCHANGED job
       \/ Fails /\ KeepFiles /\ Return(FALSE)
    /\ Rest /\ UNCHANGED marker

CleanRecovered ==
    /\ pc = "rec_clean"
    /\ (Delete(Temp(marker.id, at)) /\ Works) \/ (Fails /\ KeepFiles)
    /\ Advance("rec_unmark") /\ Rest /\ UNCHANGED <<marker, job>>

UnmarkRecovered ==
    /\ pc = "rec_unmark"
    /\ DropMarker \/ KeepMarker
    /\ Return(TRUE) /\ Rest
-----------------------------------------------------------------------------
(* A crash forgets the memory.  A killed process leaves the file it was      *)
(* writing old, partial, or whole but not flushed; a power loss tears what   *)
(* was not flushed as well.                                                  *)

\* The files being written, each with the contents on their way.
InFlight ==
    CASE pc = "early_custom" /\ ~job.staged -> {<<Temp(job.id, "scoc"), group[job.id]["scoc"]>>}
      [] pc = "early_main" -> {<<Temp(job.id, "scop"), job.id>>}
      [] pc = "temps" /\ Due(at) -> {<<Temp(job.id, at), job.id>>}
      [] pc = "early_backup" \/ (pc = "backup" /\ at \in job.had) ->
             {<<Bak(at), disk[Final(at)]>>}
      [] pc = "restore" /\ at \in job.had -> {<<Final(at), disk[Bak(at)]>>}
      [] pc = "rec_stage" /\ at \in job.expect -> {<<Staged(at), disk[RecoverySource(at)]>>}
      [] pc = "legacy_preserve" -> {<<Preserved(job.id), disk[Final("scoc")]>>}
      [] pc = "legacy_callback" -> {<<f, job.id>> : f \in CallbackFiles(job.id)}
      [] pc = "legacy_collect" -> {<<Temp(job.id, "scoc"), disk[Collected]>>}
      [] OTHER -> {}

MarkerInFlight == pc \in {"marker", "legacy_marker"}

\* Any part of the writes in flight lands: old, partial or whole.
Landed(torn, whole) ==
    [f \in File |-> IF f \in torn THEN Torn
                    ELSE IF \E w \in whole : w[1] = f
                           THEN (CHOOSE w \in whole : w[1] = f)[2] ELSE disk[f]]

Forget == /\ crashes < MaxCrashes /\ crashes' = crashes + 1
          /\ job' = NoJob /\ Goto("idle") /\ UNCHANGED <<group, saves, faults>>

Kill ==
    /\ "kill" \in Crashes
    /\ \E whole, partial \in SUBSET InFlight :
         /\ disk' = Landed({w[1] : w \in partial}, whole)
         /\ dirty' = dirty \cup {w[1] : w \in InFlight}
                           \cup IF MarkerInFlight THEN {MarkerFile} ELSE {}
    /\ marker' \in IF MarkerInFlight THEN {marker, Unmarked("invalid"), NewMarker}
                                     ELSE {marker}
    /\ Forget

LosePower ==
    LET unsafe == {w[1] : w \in InFlight} \cup {f \in dirty \ {MarkerFile} : Exists(f)}
        unsafeMarker == MarkerInFlight \/ (MarkerFile \in dirty /\ marker.state # "missing") IN
    /\ "power" \in Crashes
    /\ \E torn \in SUBSET unsafe : disk' = Landed(torn, {})
    /\ marker' \in {marker} \cup IF unsafeMarker THEN {Unmarked("invalid")} ELSE {}
    /\ dirty' = {} /\ Forget

WriterStep == \/ StartJob \/ EarlyCustom \/ EarlyBackup \/ EarlyMain \/ Encode \/ WriteTemp
              \/ CheckMarker \/ Preflight \/ BackUp \/ WriteMarker \/ DropMain \/ Install
              \/ Succeed \/ RestorePrevious \/ Unmark \/ CleanUp
LegacyStep == \/ LegacyMarker \/ LegacyPreserve \/ LegacyAbort \/ LegacyQuit
              \/ LegacyCallback \/ LegacyCollect \/ LegacyRestore \/ LegacyUnmark
              \/ LegacyDiscard
RecoveryStep == \/ Recover \/ RecoverLegacy \/ PurgeLegacy \/ StageRecovery
                \/ InstallRecovery \/ CleanRecovered \/ UnmarkRecovered

\* No save is left to begin: the only state in which nothing more need happen.
Quiet == pc = "idle" /\ saves = MaxSaves /\ UNCHANGED vars

Next == \/ \E custom \in BOOLEAN : BeginSave(custom)
        \/ BeginLegacy \/ RequestRecovery
        \/ WriterStep \/ LegacyStep \/ RecoveryStep \/ Kill \/ LosePower \/ Quiet

Spec == Init /\ [][Next]_vars
-----------------------------------------------------------------------------
(* What the files mean: the save a load would find after recovery.           *)

\* The group on record as the slot's contents, component by component.
Shown ==
    LET tracked == marker.state = "valid"
        captured == tracked /\ marker.legacy
        custom == IF ~captured THEN disk[Final("scoc")]
                  ELSE IF "scoc" \notin marker.prev THEN Absent
                  ELSE IF Exists(Preserved(marker.id)) THEN disk[Preserved(marker.id)]
                  ELSE disk[Final("scoc")] IN
    IF Valid(Final("scop"))
      THEN [c \in Comp |-> IF c = "scoc" THEN custom ELSE disk[Final(c)]]
    ELSE IF tracked /\ "scop" \in marker.prev
      THEN [c \in Comp |-> IF c \in marker.prev THEN disk[Bak(c)] ELSE Absent]
    ELSE NoGroup

Mixed == MaxSaves + 1     \* a group that is no whole save

Slot == IF Shown["scop"] = Absent THEN None
        ELSE IF Shown["scop"] \in Gen /\ group[Shown["scop"]] = Shown THEN Shown["scop"]
        ELSE Mixed

Attempt == IF marker.state = "valid" /\ ~marker.legacy THEN marker.id ELSE None

Atomic == INSTANCE AtomicSlot WITH Generations <- Gen, None <- None,
                                   slot <- Slot, attempt <- Attempt

\* AtomicSlotHolds: through every crash and failure the slot shows one whole
\* save; only the transaction on record can change what it shows, to its own
\* whole group; recovery, rollback and clean-up never do
\* (commit_save_set, recover_interrupted_transaction).
AtomicSlotHolds == Atomic!Spec

\* WholeOnDisk: whenever no marker is left to explain them, the three files are
\* together one generation, or there are none: rollback, recovery and the legacy
\* capture leave no mixture and no torn file behind.
WholeOnDisk ==
    marker.state = "missing" =>
        \/ \A c \in Comp : ~Exists(Final(c))
        \/ \E g \in 0..saves : \A c \in Comp : disk[Final(c)] = group[g][c]

\* WholeWithoutCustom: what is left of WholeOnDisk under the legacy capture: over
\* a slot that had no custom file, the callback's writes never leak into the slot
\* (the restore of save(), recover_legacy_custom_capture).
WholeWithoutCustom == saves <= 1 /\ group[0]["scoc"] = Absent => WholeOnDisk

\* Recoverable: the marker of an overwrite never blocks the slot for good: the
\* main file is valid, or the backups or the new files suffice to rebuild a
\* whole group (recover_interrupted_transaction, restore_marked_backup_set).
Recoverable ==
    /\ marker.state = "invalid" => Valid(Final("scop")) \/ ~Exists(Bak("scop"))
    /\ marker.state = "valid" /\ ~marker.legacy /\ "scop" \in marker.prev =>
           Valid(Final("scop")) \/ Restorable \/ Finishable

\* SuccessIsDurable: a save reported as done is the one the slot shows, and none
\* of its files is waiting to be flushed (execute_save_job's completion).
SuccessIsDurable ==
    pc = "done" => Slot = job.id /\ \A c \in Comp : Final(c) \notin dirty

\* RecoveryKeepsMain: recovery never replaces a main file that is valid: it would
\* put an older generation over a finished save (recover_interrupted_transaction).
RecoveryKeepsMain ==
    [][RecoveryStep /\ Valid(Final("scop")) => disk'[Final("scop")] = disk[Final("scop")]]_vars

\* MarkerGuardsDamage: while the main file of a recorded overwrite is missing or
\* torn, nothing removes or replaces the marker that leads to its backups.
MarkerGuardsDamage ==
    [][marker.state = "valid" /\ "scop" \in marker.prev /\ ~Valid(Final("scop"))
         => marker' = marker]_vars
=============================================================================
