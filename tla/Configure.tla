------------------------------ MODULE Configure ------------------------------
(***************************************************************************)
(* The preparation of a configuration, and the record of a run.            *)
(*                                                                         *)
(* do_boot starts a thread that prepares the FHiCL documents while the     *)
(* processes come up.  do_config joins it; if the thread was well its      *)
(* documents are sent with Init, otherwise do_config prepares them itself. *)
(* A second thread saves the run record while Init is sent; do_config      *)
(* joins it before the state becomes "ready".  do_start_running copies the *)
(* record into the run's directory.  Both threads belong to the boot or    *)
(* the config that started them and go on when that fails or is undone.    *)
(*                                                                         *)
(* The threads reach the processes by index into self.procinfos, which the *)
(* runner shortens when it loses a process, empties when it kills them and *)
(* fills when it boots.  The transitions of the processes themselves, and  *)
(* alert_and_recover, are one step each here: RunControl, DoCommand and    *)
(* ProcessLife have them in detail.                                        *)
(*                                                                         *)
(* The operator boots when the threads of the last boot have ended, which  *)
(* takes them seconds; so there is one thread of either kind at a time.    *)
(***************************************************************************)
EXTENDS Integers, Sequences, SequencesExt

CONSTANTS
    Labels,    \* the processes of the boot file, in the order of procinfos
    Configs,   \* the configurations a config request may name
    Default,   \* FAKE_CONFIG_NAME, the configuration prepared before any is named
    Runs,      \* run numbers
    MaxBoots,  \* how often the operator boots
    Faults     \* what may go wrong

VARIABLES
    state,       \* Component.__state
    phase,       \* where the runner is in a transition
    procinfos,   \* the labels of self.procinfos
    doc,         \* procinfo.fhicl_used
    subconfigs,  \* self.subconfigs_for_run, or "unset"
    prepThread,  \* self._config_prep_thread is not None
    prepared,    \* self._config_prepared
    prep,        \* the preparation thread
    save,        \* the thread that saves the run record
    tmp,         \* self.tmp_run_record
    records,     \* self.record_directory
    requested,   \* the configuration the last config request named
    sent,        \* what Init has sent to each process
    taken,       \* the runs that have taken data, and what their processes were sent
    boots

runner  == <<state, phase>>
threads == <<prepThread, prepared, prep, save>>
files   == <<tmp, records>>
history == <<requested, sent, taken, boots>>
vars == <<runner, procinfos, doc, subconfigs, threads, files, history>>

FaultKinds == {"boot", "prepare", "bookkeep", "check", "init", "save", "files", "start", "lost"}

ASSUME ConfigureAssumption ==
    /\ Labels \in Seq(STRING) /\ Labels # <<>> /\ IsInjective(Labels)
    /\ Default \in Configs /\ "none" \notin Configs /\ "unset" \notin Configs
    /\ Runs \subseteq Nat \ {0}
    /\ MaxBoots \in Nat
    /\ Faults \subseteq FaultKinds

All == ToSet(Labels)
Listed == ToSet(procinfos)

\* A document: whose file it was read from, in which configuration, how far it has
\* come, and the processes that bookkeeping has written it for.
Blank == [of |-> "none", conf |-> "none", stage |-> "none", whom |-> {}]
Raw(p, c) == [of |-> p, conf |-> c, stage |-> "raw", whom |-> {}]
Booked(p, c, ps) == [of |-> p, conf |-> c, stage |-> "booked", whom |-> ps]
Docs == [of : All \union {"none"}, conf : Configs \union {"none"},
         stage : {"none", "raw", "plain", "booked"}, whom : SUBSET All]
NoDocs == [p \in All |-> Blank]

\* The directory of a run record: its documents, boot.txt, and metadata.txt, which is
\* opened early and closed late.
NoRecord == [there |-> FALSE, docs |-> NoDocs, boot |-> FALSE, meta |-> "none"]
Records == [there : BOOLEAN, docs : [All -> Docs], boot : BOOLEAN,
            meta : {"none", "open", "torn", "whole"}]

\* The local variables of _do_config_prepare: i_proc, the bound of its range, the label
\* and the configuration it reads, the reformatted documents, the processes counted.
PrepOff == [pc |-> "off", i |-> 1, n |-> 0, label |-> "none", conf |-> "none",
            held |-> <<>>, whom |-> {}]

Init ==
    /\ state = "stopped" /\ phase = "idle"
    /\ procinfos = <<>> /\ doc = NoDocs
    /\ subconfigs = "unset"
    /\ prepThread = FALSE /\ prepared = FALSE /\ prep = PrepOff /\ save = "off"
    /\ tmp = NoRecord /\ records = [r \in Runs |-> NoRecord]
    /\ requested = "none" /\ sent = NoDocs /\ taken = [r \in Runs |-> NoDocs] /\ boots = 0

-----------------------------------------------------------------------------
(* Boot, and the ways back to stopped *)

\* New Procinfos, and the preparation thread, while the processes come up.
Boot ==
    /\ state = "stopped" /\ phase = "idle" /\ boots < MaxBoots
    /\ prep.pc = "off" /\ save = "off"
    /\ state' = "booting" /\ phase' = "wait"
    /\ procinfos' = Labels /\ doc' = NoDocs /\ sent' = NoDocs
    /\ prepThread' = TRUE /\ prepared' = FALSE /\ prep' = [PrepOff EXCEPT !.pc = "obtain"]
    /\ boots' = boots + 1
    /\ UNCHANGED <<subconfigs, save, files, requested, taken>>

BootDone ==
    /\ phase = "wait"
    /\ state' = "booted" /\ phase' = "idle"
    /\ UNCHANGED <<procinfos, doc, subconfigs, threads, files, history>>

\* alert_and_recover in the runner: the processes are killed and the list is emptied;
\* no thread is told, and the record stays where it is.
Recover == state' = "stopped" /\ phase' = "idle" /\ procinfos' = <<>>

BootFails ==
    /\ phase = "wait" /\ "boot" \in Faults
    /\ Recover
    /\ UNCHANGED <<doc, subconfigs, threads, files, history>>

\* The terminate request, which running does not admit, the recover request, or the
\* loss of a process that the run cannot do without.
Terminate ==
    /\ state \in {"booted", "ready", "running"} /\ phase = "idle"
    /\ Recover
    /\ UNCHANGED <<doc, subconfigs, threads, files, history>>

\* check_proc_exceptions and check_proc_heartbeats take a lost process off the list.
Lose(i) ==
    /\ phase = "idle" /\ state \in {"booted", "ready", "running"} /\ "lost" \in Faults
    /\ Len(procinfos) > 1
    /\ procinfos' = RemoveAt(procinfos, i)
    /\ UNCHANGED <<runner, doc, subconfigs, threads, files, history>>

-----------------------------------------------------------------------------
(* _do_config_prepare, in its thread *)

Beyond == prep.i > Len(procinfos)          \* an IndexError
ThisProc == procinfos[prep.i]

PrepStep(new) ==
    /\ prep' = new
    /\ UNCHANGED <<runner, procinfos, prepThread, save, files, history>>

\* Any exception ends the thread.
PrepFails ==
    /\ PrepStep(PrepOff)
    /\ prepared' = FALSE
    /\ UNCHANGED <<doc, subconfigs>>

\* Mutant: no configuration is put where none was named.
MutantPrepObtain ==
    /\ prep.pc = "obtain"
    /\ PrepStep([prep EXCEPT !.pc = "read", !.conf = subconfigs, !.n = Len(procinfos)])
    /\ UNCHANGED <<doc, subconfigs, prepared>>

\* subconfigs_for_run is what the last config left there.
PrepObtain ==
    /\ prep.pc = "obtain"
    /\ LET c == IF subconfigs = "unset" THEN Default ELSE subconfigs IN
       /\ subconfigs' = c
       /\ PrepStep([prep EXCEPT !.pc = "read", !.conf = c, !.n = Len(procinfos)])
    /\ UNCHANGED <<doc, prepared>>

\* get_config_info, the search for a document, fhicl-dump and bookkeeping raise.
PrepBreaks ==
    /\ prep.pc \in {"read", "reformat", "count"} /\ "prepare" \in Faults
    /\ PrepFails

\* The label is taken from the list, the tree of files is searched, and what is
\* found is put at the same index.
PrepRead ==
    /\ prep.pc = "read" /\ prep.i <= prep.n
    /\ IF Beyond THEN PrepFails
       ELSE /\ PrepStep([prep EXCEPT !.pc = "write", !.label = ThisProc])
            /\ UNCHANGED <<doc, subconfigs, prepared>>

PrepWrite ==
    /\ prep.pc = "write"
    /\ IF Beyond THEN PrepFails
       ELSE /\ doc' = [doc EXCEPT ![ThisProc] = Raw(prep.label, prep.conf)]
            /\ PrepStep([prep EXCEPT !.pc = "read", !.i = @ + 1])
            /\ UNCHANGED <<subconfigs, prepared>>

PrepAllRead ==
    /\ prep.pc = "read" /\ prep.i > prep.n
    /\ PrepStep([prep EXCEPT !.pc = "reformat"])
    /\ UNCHANGED <<doc, subconfigs, prepared>>

\* reformat_fhicl_documents returns one text per process.
Plain(d) == [d EXCEPT !.stage = "plain"]

PrepReformat ==
    /\ prep.pc = "reformat"
    /\ PrepStep([prep EXCEPT !.pc = "back", !.i = 1,
                    !.held = [i \in DOMAIN procinfos |-> Plain(doc[procinfos[i]])]])
    /\ UNCHANGED <<doc, subconfigs, prepared>>

PrepWriteBack ==
    /\ prep.pc = "back" /\ prep.i <= Len(prep.held)
    /\ IF Beyond THEN PrepFails
       ELSE /\ doc' = [doc EXCEPT ![ThisProc] = prep.held[prep.i]]
            /\ PrepStep([prep EXCEPT !.i = @ + 1])
            /\ UNCHANGED <<subconfigs, prepared>>

PrepAllBack ==
    /\ prep.pc = "back" /\ prep.i > Len(prep.held)
    /\ PrepStep([prep EXCEPT !.pc = "count"])
    /\ UNCHANGED <<doc, subconfigs, prepared>>

\* bookkeeping_for_fhicl_documents first counts the processes and their fragments.
PrepCount ==
    /\ prep.pc = "count"
    /\ PrepStep([prep EXCEPT !.pc = "book", !.whom = Listed])
    /\ UNCHANGED <<doc, subconfigs, prepared>>

BookAll(ps) ==
    doc' = [p \in All |->
        IF p \in Listed THEN [doc[p] EXCEPT !.stage = "booked", !.whom = ps] ELSE doc[p]]

\* Bookkeeping writes the documents it finds for the processes it has counted.
PrepBook ==
    /\ prep.pc = "book"
    /\ BookAll(prep.whom)
    /\ prepared' = TRUE
    /\ PrepStep(PrepOff)
    /\ UNCHANGED subconfigs

\* A loop over the indexes of a list that has become shorter meanwhile.
PrepBookBreaks ==
    /\ prep.pc = "book" /\ prep.whom # Listed
    /\ PrepFails

Prepare ==
    \/ PrepObtain \/ PrepBreaks \/ PrepRead \/ PrepWrite \/ PrepAllRead \/ PrepReformat
    \/ PrepWriteBack \/ PrepAllBack \/ PrepCount \/ PrepBook \/ PrepBookBreaks

-----------------------------------------------------------------------------
(* save_run_record, in its thread *)

SaveStep(pc) ==
    /\ save' = pc
    /\ UNCHANGED <<doc, subconfigs, prepThread, prepared, prep, records, history>>

\* os.makedirs raises on a directory that is there, and the thread ends with a warning.
SaveMake ==
    /\ save = "make"
    /\ IF tmp.there THEN SaveStep("off") /\ UNCHANGED tmp
       ELSE SaveStep("docs") /\ tmp' = [tmp EXCEPT !.there = TRUE]
    /\ UNCHANGED <<runner, procinfos>>

SaveDocs ==
    /\ save = "docs"
    /\ SaveStep("boot")
    /\ tmp' = [tmp EXCEPT !.docs = [p \in All |-> IF p \in Listed THEN doc[p] ELSE @[p]]]
    /\ UNCHANGED <<runner, procinfos>>

SaveBoot ==
    /\ save = "boot"
    /\ SaveStep("open")
    /\ tmp' = [tmp EXCEPT !.boot = TRUE]
    /\ UNCHANGED <<runner, procinfos>>

SaveOpen ==
    /\ save = "open"
    /\ SaveStep("write")
    /\ tmp' = [tmp EXCEPT !.meta = "open"]
    /\ UNCHANGED <<runner, procinfos>>

SaveDone ==
    /\ save = "write"
    /\ SaveStep("off")
    /\ tmp' = [tmp EXCEPT !.meta = "whole"]
    /\ UNCHANGED <<runner, procinfos>>

\* What has been opened is closed when the thread gives up.
Torn == tmp' = [tmp EXCEPT !.meta = IF @ = "open" THEN "torn" ELSE @]

\* Any exception ends the thread with a warning.
SaveBreaks ==
    /\ save # "off" /\ "save" \in Faults
    /\ SaveStep("off") /\ Torn
    /\ UNCHANGED <<runner, procinfos>>

\* setup.txt or settings.txt cannot be copied: the thread calls alert_and_recover
\* itself, and goes on.  Or get_commit_info raises: it calls it, and ends.  The runner
\* is in do_config all the while and does not hear of it.
SaveRecovers ==
    /\ save \in {"open", "write"} /\ "files" \in Faults
    /\ state' = "stopped" /\ procinfos' = <<>>
    /\ IF save = "open" THEN SaveStep("open") /\ UNCHANGED tmp ELSE SaveStep("off") /\ Torn
    /\ UNCHANGED phase

SaveRecord ==
    \/ SaveMake \/ SaveDocs \/ SaveBoot \/ SaveOpen \/ SaveDone
    \/ SaveBreaks \/ SaveRecovers

-----------------------------------------------------------------------------
(* do_config *)

Config(c) ==
    /\ state = "booted" /\ phase = "idle"
    /\ state' = "configuring" /\ phase' = "join"
    /\ subconfigs' = c /\ requested' = c
    /\ UNCHANGED <<procinfos, doc, threads, files, sent, taken, boots>>

\* Mutant: the runner waits for the thread to have been well.
MutantJoin ==
    /\ phase = "join"
    /\ prepThread => prepared
    /\ prepThread' = FALSE
    /\ phase' = IF prepThread /\ prepared THEN "record" ELSE "prepare"
    /\ UNCHANGED <<state, procinfos, doc, subconfigs, prepared, prep, save, files, history>>

\* Mutant: the runner looks at the flag and not at the thread.
MutantNoJoin ==
    /\ phase = "join"
    /\ prepThread' = FALSE
    /\ phase' = IF prepThread /\ prepared THEN "record" ELSE "prepare"
    /\ UNCHANGED <<state, procinfos, doc, subconfigs, prepared, prep, save, files, history>>

\* The thread is awaited, and if it was well the preparation is over.  It is not
\* asked which configuration it has prepared.
Join ==
    /\ phase = "join"
    /\ prepThread => prep.pc = "off"
    /\ prepThread' = FALSE
    /\ phase' = IF prepThread /\ prepared THEN "record" ELSE "prepare"
    /\ UNCHANGED <<state, procinfos, doc, subconfigs, prepared, prep, save, files, history>>

\* revert_failed_transition: the state is again what it was.
Revert == state' = "booted" /\ phase' = "idle" /\ UNCHANGED procinfos

\* The documents of the requested configuration, through all the steps.
Sequential ==
    doc' = [p \in All |-> IF p \in Listed THEN Booked(p, subconfigs, Listed) ELSE doc[p]]

PrepareAll ==
    /\ phase = "prepare"
    /\ Sequential
    /\ phase' = "record"
    /\ UNCHANGED <<state, procinfos, subconfigs, threads, files, history>>

\* get_config_info raises, or a process has no document.  Some have been read: no one
\* looks at them before the next config has read them all again.
PrepareReverts ==
    /\ phase = "prepare" /\ "prepare" \in Faults
    /\ Revert
    /\ UNCHANGED <<doc, subconfigs, threads, files, history>>

\* update_fhicl, a file found twice, fhicl-dump, or bookkeeping.
PrepareRecovers ==
    /\ phase = "prepare" /\ "bookkeep" \in Faults
    /\ Recover
    /\ UNCHANGED <<doc, subconfigs, threads, files, history>>

\* check_config, when all is prepared and the last record has been removed.
CheckReverts ==
    /\ phase = "prepare" /\ "check" \in Faults
    /\ Sequential
    /\ Revert
    /\ tmp' = NoRecord
    /\ UNCHANGED <<subconfigs, threads, records, history>>

\* Mutant: it is left there.
MutantStartSave ==
    /\ phase = "record"
    /\ phase' = "init"
    /\ tmp' = tmp /\ save' = "make"
    /\ UNCHANGED <<state, procinfos, doc, subconfigs, prepThread, prepared, prep, records, history>>

\* The record of the last attempt is removed before a new one is begun.
StartSave ==
    /\ phase = "record"
    /\ phase' = "init"
    /\ tmp' = NoRecord /\ save' = "make"
    /\ UNCHANGED <<state, procinfos, doc, subconfigs, prepThread, prepared, prep, records, history>>

\* do_command("Init") gives every process its document.
InitCommand ==
    /\ phase = "init"
    /\ sent' = [p \in All |-> IF p \in Listed THEN doc[p] ELSE sent[p]]
    /\ phase' = "archive"
    /\ UNCHANGED <<state, procinfos, doc, subconfigs, threads, files, requested, taken, boots>>

\* The record is left to its thread.
InitFails ==
    /\ phase = "init" /\ "init" \in Faults
    /\ Recover
    /\ UNCHANGED <<doc, subconfigs, threads, files, history>>

\* metadata.txt and boot.txt are read for the archive, whatever their thread has
\* written of them; open raises when there is none.
Archive ==
    /\ phase = "archive"
    /\ IF tmp.meta = "none" \/ ~tmp.boot THEN Recover
       ELSE phase' = "saved" /\ UNCHANGED <<state, procinfos>>
    /\ UNCHANGED <<doc, subconfigs, threads, files, history>>

\* Mutant: the thread is not awaited.
MutantJoinRecord ==
    /\ phase = "saved"
    /\ state' = "ready" /\ phase' = "idle"
    /\ UNCHANGED <<procinfos, doc, subconfigs, threads, files, history>>

\* The thread is awaited, and the state is ready whatever it was.
JoinRecord ==
    /\ phase = "saved"
    /\ save = "off"
    /\ state' = "ready" /\ phase' = "idle"
    /\ UNCHANGED <<procinfos, doc, subconfigs, threads, files, history>>

-----------------------------------------------------------------------------
(* do_start_running and do_stop_running *)

\* Mutant: a run number may come again, and its record is written over.
MutantStartRun(r) ==
    /\ state = "ready" /\ phase = "idle"
    /\ records' = [records EXCEPT ![r] = tmp]
    /\ taken' = [taken EXCEPT ![r] = [p \in All |-> IF p \in Listed THEN sent[p] ELSE Blank]]
    /\ state' = "running"
    /\ UNCHANGED <<phase, procinfos, doc, subconfigs, threads, tmp, requested, sent, boots>>

\* The record is copied to the run's directory, and start is sent.  A directory that is
\* there already is refused; so is a record that is not.
StartRun(r) ==
    /\ state = "ready" /\ phase = "idle"
    /\ IF records[r].there \/ ~tmp.there
       THEN Recover /\ UNCHANGED <<records, taken>>
       ELSE /\ records' = [records EXCEPT ![r] = tmp]
            /\ taken' = [taken EXCEPT ![r] = [p \in All |-> IF p \in Listed THEN sent[p] ELSE Blank]]
            /\ state' = "running" /\ UNCHANGED <<phase, procinfos>>
    /\ UNCHANGED <<doc, subconfigs, threads, tmp, requested, sent, boots>>

\* put_config_info raises, or start fails, with the copy made.
StartFails(r) ==
    /\ state = "ready" /\ phase = "idle" /\ "start" \in Faults
    /\ ~records[r].there /\ tmp.there
    /\ records' = [records EXCEPT ![r] = tmp]
    /\ Recover
    /\ UNCHANGED <<doc, subconfigs, threads, tmp, history>>

StopRun ==
    /\ state = "running" /\ phase = "idle"
    /\ state' = "ready"
    /\ UNCHANGED <<phase, procinfos, doc, subconfigs, threads, files, history>>

-----------------------------------------------------------------------------
Transition ==
    \/ BootDone \/ BootFails
    \/ Join \/ PrepareAll \/ PrepareReverts \/ PrepareRecovers \/ CheckReverts
    \/ StartSave \/ InitCommand \/ InitFails \/ Archive \/ JoinRecord

Next ==
    \/ Boot \/ Terminate \/ StopRun
    \/ \E c \in Configs : Config(c)
    \/ \E r \in Runs : StartRun(r) \/ StartFails(r)
    \/ \E i \in 1..Len(procinfos) : Lose(i)
    \/ Transition \/ Prepare \/ SaveRecord

Spec == Init /\ [][Next]_vars

\* The runner, within a transition, and both threads are run.
Fairness == WF_vars(Transition) /\ WF_vars(Prepare) /\ WF_vars(SaveRecord)

FairSpec == Spec /\ Fairness

-----------------------------------------------------------------------------
(* Properties *)

\* Every variable is of its type, the indexes of the preparation thread included.
TypeOK ==
    /\ state \in {"stopped", "booting", "booted", "configuring", "ready", "running"}
    /\ phase \in {"idle", "wait", "join", "prepare", "record", "init", "archive", "saved"}
    /\ procinfos \in Seq(All) /\ IsInjective(procinfos)
    /\ doc \in [All -> Docs] /\ sent \in [All -> Docs]
    /\ subconfigs \in Configs \union {"unset"} /\ requested \in Configs \union {"none"}
    /\ prepThread \in BOOLEAN /\ prepared \in BOOLEAN
    /\ prep.pc \in {"off", "obtain", "read", "write", "reformat", "back", "count", "book"}
    /\ prep.i \in 1..(Len(Labels) + 1) /\ prep.n \in 0..Len(Labels)
    /\ prep.held \in Seq(Docs) /\ prep.whom \subseteq All
    /\ save \in {"off", "make", "docs", "boot", "open", "write"}
    /\ tmp \in Records /\ records \in [Runs -> Records]
    /\ taken \in [Runs -> [All -> Docs]] /\ boots \in 0..MaxBoots

Configured == state \in {"ready", "running"} /\ phase = "idle"

\* Whatever was lost while the documents were prepared by index, and whichever thread
\* prepared them, once configured every process has been sent a document that was made
\* of its own file, has come through bookkeeping, is of the configuration of all the
\* others, and counts every process that is still there.
OwnDocuments ==
    Configured => \A p \in Listed :
        /\ sent[p].of = p /\ sent[p].stage = "booked"
        /\ Listed \subseteq sent[p].whom
        /\ \A q \in Listed : sent[q].conf = sent[p].conf

\* The record of a run that has taken data holds for each of its processes the document
\* it was sent, although the record is saved while the documents are sent, by a thread
\* that may break, into a directory that an earlier attempt has used.
RecordMatches ==
    \A r \in Runs : taken[r] # NoDocs =>
        /\ records[r].there
        /\ \A p \in All : taken[r][p] # Blank => records[r].docs[p] = taken[r][p]

\* No record is copied for a run while its thread still writes it.
RecordIsFinished ==
    /\ Configured => save = "off"
    /\ \A r \in Runs : records[r].meta # "open"

\* The record of a run is never written over, also not by a start that fails.
RecordsKept ==
    [][\A r \in Runs : records[r].there => records'[r] = records[r]]_vars

\* A config ends, whatever its threads come to: in ready, in booted or in stopped.
ConfigEnds == (phase = "join") ~> (phase = "idle")

\* do_config sends the documents that _do_config_prepare has made in its place, of
\* the configuration that was requested.
SentAsRequested ==
    Configured => \A p \in Listed : sent[p].conf = requested

=============================================================================
