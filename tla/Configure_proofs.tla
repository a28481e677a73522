-------------------------- MODULE Configure_proofs --------------------------
(***************************************************************************)
(* Theorems about Configure, for every list of processes, every set of     *)
(* configurations and runs, any number of boots and every set of faults.   *)
(***************************************************************************)
EXTENDS Configure, SequenceTheorems, TLAPS

-----------------------------------------------------------------------------
(* A list that loses one of its elements *)

\* The list without its i-th element: one shorter, and what came after has moved up.
LEMMA RemovalMovesUp ==
    ASSUME NEW S, NEW s \in Seq(S), NEW i \in 1..Len(s)
    PROVE  /\ RemoveAt(s, i) \in Seq(S)
           /\ Len(RemoveAt(s, i)) = Len(s) - 1
           /\ \A j \in 1..(Len(s) - 1) :
                 RemoveAt(s, i)[j] = IF j < i THEN s[j] ELSE s[j + 1]
<1> DEFINE front == SubSeq(s, 1, i - 1)
           back  == SubSeq(s, i + 1, Len(s))
<1>1. Len(s) \in Nat /\ \A j \in 1..Len(s) : s[j] \in S
  BY LenProperties, ElementOfSeq
<1>2. \A j \in 1..(i - 1) : s[j] \in S
  BY <1>1
<1>3. \A j \in (i + 1)..Len(s) : s[j] \in S
  BY <1>1
<1>4. /\ front \in Seq(S) /\ Len(front) = i - 1
      /\ \A j \in 1..(i - 1) : front[j] = s[j]
  <2>1. 1 \in Int /\ i - 1 \in Int
    OBVIOUS
  <2>2. /\ SubSeq(s, 1, i - 1) \in Seq(S)
        /\ Len(SubSeq(s, 1, i - 1)) = IF 1 <= i - 1 THEN i - 1 - 1 + 1 ELSE 0
        /\ \A j \in 1..(i - 1 - 1 + 1) : SubSeq(s, 1, i - 1)[j] = s[1 + j - 1]
    BY <1>2, <2>1, SubSeqProperties
  <2> QED
    BY <2>2
<1>5. /\ back \in Seq(S) /\ Len(back) = Len(s) - i
      /\ \A j \in 1..(Len(s) - i) : back[j] = s[i + j]
  <2>1. i + 1 \in Int /\ Len(s) \in Int
    BY <1>1
  <2>2. /\ SubSeq(s, i + 1, Len(s)) \in Seq(S)
        /\ Len(SubSeq(s, i + 1, Len(s))) = IF i + 1 <= Len(s) THEN Len(s) - (i + 1) + 1 ELSE 0
        /\ \A j \in 1..(Len(s) - (i + 1) + 1) :
              SubSeq(s, i + 1, Len(s))[j] = s[i + 1 + j - 1]
    BY <1>3, <2>1, SubSeqProperties
  <2> QED
    BY <1>1, <2>2
<1> HIDE DEF front, back
<1>6. /\ front \o back \in Seq(S)
      /\ Len(front \o back) = Len(front) + Len(back)
      /\ \A j \in 1..(Len(front) + Len(back)) :
            (front \o back)[j] = IF j <= Len(front) THEN front[j] ELSE back[j - Len(front)]
  BY <1>4, <1>5, ConcatProperties
<1>7. RemoveAt(s, i) = front \o back
  BY DEF RemoveAt, front, back
<1>8. Len(front) + Len(back) = Len(s) - 1
  BY <1>1, <1>4, <1>5
<1>9. ASSUME NEW j \in 1..(Len(s) - 1)
      PROVE  (front \o back)[j] = IF j < i THEN s[j] ELSE s[j + 1]
  <2>1. CASE j < i
    <3>1. j \in 1..(i - 1) /\ j <= Len(front) /\ j \in 1..(Len(front) + Len(back))
      BY <1>1, <1>4, <1>8, <2>1
    <3> QED
      BY <1>4, <1>6, <2>1, <3>1
  <2>2. CASE ~(j < i)
    <3>1. /\ j - (i - 1) \in 1..(Len(s) - i) /\ ~(j <= Len(front))
          /\ j \in 1..(Len(front) + Len(back)) /\ i + (j - (i - 1)) = j + 1
      BY <1>1, <1>4, <1>8, <2>2
    <3>2. (front \o back)[j] = back[j - (i - 1)]
      BY <1>4, <1>6, <3>1
    <3> QED
      BY <1>5, <2>2, <3>1, <3>2
  <2> QED
    BY <2>1, <2>2
<1> QED
  BY <1>6, <1>7, <1>8, <1>9

\* No process is listed twice after a loss, and none that was not listed before.
LEMMA LossKeepsApart ==
    ASSUME NEW S, NEW s \in Seq(S), NEW i \in 1..Len(s), IsInjective(s)
    PROVE  /\ RemoveAt(s, i) \in Seq(S) /\ Len(RemoveAt(s, i)) = Len(s) - 1
           /\ IsInjective(RemoveAt(s, i))
           /\ ToSet(RemoveAt(s, i)) \subseteq ToSet(s)
<1> DEFINE t == RemoveAt(s, i)
<1>1. /\ t \in Seq(S) /\ Len(t) = Len(s) - 1
      /\ \A j \in 1..(Len(s) - 1) : t[j] = IF j < i THEN s[j] ELSE s[j + 1]
  BY RemovalMovesUp
<1>2. Len(s) \in Nat /\ DOMAIN s = 1..Len(s) /\ DOMAIN t = 1..(Len(s) - 1)
  BY <1>1, LenProperties
<1> HIDE DEF t
<1>3. \A a, b \in 1..Len(s) : s[a] = s[b] => a = b
  BY <1>2 DEF IsInjective
<1>4. IsInjective(t)
  <2> SUFFICES ASSUME NEW a \in 1..(Len(s) - 1), NEW b \in 1..(Len(s) - 1), t[a] = t[b]
               PROVE  a = b
    BY <1>2 DEF IsInjective
  <2>1. \A j \in 1..(Len(s) - 1) : j \in 1..Len(s) /\ j + 1 \in 1..Len(s)
    BY <1>2
  <2>2. (IF a < i THEN s[a] ELSE s[a + 1]) = (IF b < i THEN s[b] ELSE s[b + 1])
    BY <1>1
  <2> QED
    BY <1>3, <2>1, <2>2
<1>5. ToSet(t) \subseteq ToSet(s)
  <2> SUFFICES ASSUME NEW j \in 1..(Len(s) - 1) PROVE t[j] \in {s[k] : k \in 1..Len(s)}
    BY <1>2 DEF ToSet
  <2>1. j \in 1..Len(s) /\ j + 1 \in 1..Len(s)
    BY <1>2
  <2> QED
    BY <1>1, <2>1
<1> QED
  BY <1>1, <1>4, <1>5 DEF t

-----------------------------------------------------------------------------
(* The inductive invariant *)

Threads == [pc : {"off", "obtain", "read", "write", "reformat", "back", "count", "book"},
            i : Nat, n : Nat, label : All \union {"none"}, conf : Configs \union {"none"},
            held : Seq(Docs), whom : SUBSET All]

\* The preparation thread has its configuration, and its indexes are within its lists.
PrepTyped ==
    /\ prep \in Threads
    /\ prep.pc \notin {"off", "obtain"} => prep.conf \in Configs
    /\ prep.pc = "obtain" => prep.i = 1
    /\ prep.pc \in {"read", "write"} => prep.i <= prep.n + 1
    /\ prep.pc = "write" => prep.i <= prep.n /\ prep.label \in All
    /\ Len(prep.held) <= Len(Labels)
    /\ prep.pc = "back" => prep.i <= Len(prep.held) + 1

\* do_config has a configuration to prepare.
ConfigKnown == phase \notin {"idle", "wait"} => subconfigs \in Configs

Typed == TypeOK /\ Len(procinfos) <= Len(Labels) /\ PrepTyped /\ ConfigKnown

\* Which thread may run when: the preparation thread until it is joined, the saving
\* thread from the record to its join, and either after a recovery.
ThreadShape ==
    /\ prep.pc # "off" => prepThread /\ ~prepared
    /\ prepThread => \/ phase \in {"wait", "join"}
                     \/ phase = "idle" /\ state \in {"stopped", "booted"}
    /\ save # "off" => \/ phase \in {"init", "archive", "saved"}
                       \/ phase = "idle" /\ state = "stopped"

\* What the preparation thread has done so far.  Its indexes mean the same processes as
\* long as none is lost; a list that has lost one ends before the index does.
PrepShape ==
    /\ prep.pc \in {"read", "write"} =>
          /\ Len(procinfos) <= prep.n
          /\ Len(procinfos) = prep.n =>
                \A j \in 1..(prep.i - 1) : doc[procinfos[j]] = Raw(procinfos[j], prep.conf)
    /\ prep.pc = "write" /\ Len(procinfos) = prep.n => prep.label = ThisProc
    /\ prep.pc = "reformat" \/ (prep.pc = "read" /\ prep.i > prep.n) =>
          \A p \in Listed : doc[p] = Raw(p, prep.conf)
    /\ prep.pc = "back" =>
          /\ Len(procinfos) <= Len(prep.held)
          /\ Len(procinfos) = Len(prep.held) =>
                /\ \A j \in 1..Len(prep.held) :
                      prep.held[j] = Plain(Raw(procinfos[j], prep.conf))
                /\ \A j \in 1..(prep.i - 1) : doc[procinfos[j]] = prep.held[j]
    /\ prep.pc \in {"count", "book"} \/ (prep.pc = "back" /\ prep.i > Len(prep.held)) =>
          \A p \in Listed : doc[p] = Plain(Raw(p, prep.conf))
    /\ prep.pc = "book" => Listed \subseteq prep.whom

\* Each process has its own document, made for all of them, of one configuration.
Owned(d) ==
    \A p \in Listed :
        /\ d[p].of = p /\ d[p].stage = "booked"
        /\ Listed \subseteq d[p].whom
        /\ \A q \in Listed : d[q].conf = d[p].conf

\* From the preparation to Init the documents are good; from Init on what was sent is.
DocShape ==
    /\ prepared \/ phase \in {"record", "init"} => Owned(doc)
    /\ phase \in {"archive", "saved"} \/ Configured =>
          Owned(sent) /\ \A p \in Listed : sent[p] = doc[p]

\* The record holds the documents from the moment they are saved.
RecordShape ==
    /\ /\ phase \in {"init", "archive", "saved"} \/ Configured
       /\ save \in {"boot", "open", "write"} \/ tmp.boot
       => \A p \in Listed : tmp.docs[p] = doc[p]
    /\ phase = "saved" \/ Configured => tmp.boot
    /\ tmp.meta = "open" => save \in {"open", "write"}
    /\ \A r \in Runs : records[r].meta # "open"

Inv == Typed /\ ThreadShape /\ PrepShape /\ DocShape /\ RecordShape /\ RecordMatches

-----------------------------------------------------------------------------
(* Types *)

\* What the operators on documents return.
LEMMA DocumentsTyped ==
    ASSUME NEW ps \in SUBSET All
    PROVE  /\ Blank \in Docs /\ NoDocs \in [All -> Docs]
           /\ \A p \in All, c \in Configs : Raw(p, c) \in Docs /\ Booked(p, c, ps) \in Docs
           /\ \A d \in Docs : /\ Plain(d) \in Docs
                             /\ [d EXCEPT !.stage = "booked", !.whom = ps] \in Docs
<1>1. Blank \in Docs
  BY DEF Blank, Docs
<1> QED
  BY <1>1 DEF NoDocs, Raw, Booked, Plain, Docs

\* The processes of the boot file are a list of themselves.
LEMMA LabelsTyped ==
    ASSUME ConfigureAssumption
    PROVE  Labels \in Seq(All) /\ Len(Labels) \in Nat /\ IsInjective(Labels)
<1>1. /\ Labels \in Seq(STRING) /\ Len(Labels) \in Nat
      /\ DOMAIN Labels = 1..Len(Labels) /\ Labels \in [1..Len(Labels) -> STRING]
  BY LenProperties DEF ConfigureAssumption
<1>2. \A j \in 1..Len(Labels) : Labels[j] \in All
  BY <1>1 DEF All, ToSet
<1> QED
  BY <1>1, <1>2 DEF ConfigureAssumption

\* A list that has been emptied.
LEMMA EmptiedTyped ==
    ASSUME procinfos' = <<>>
    PROVE  /\ procinfos' \in Seq(All) /\ IsInjective(procinfos')
           /\ Len(procinfos') = 0 /\ Listed' = {}
<1>1. procinfos' \in Seq(All) /\ Len(procinfos') = 0
  BY EmptySeq
<1>2. DOMAIN procinfos' = 1..0
  BY <1>1, LenProperties
<1>3. 1..0 = {}
  OBVIOUS
<1> QED
  BY <1>1, <1>2, <1>3 DEF IsInjective, Listed, ToSet

\* What an index into the list gives.
LEMMA ListTyped ==
    ASSUME Typed
    PROVE  /\ Len(procinfos) \in Nat /\ DOMAIN procinfos = 1..Len(procinfos)
           /\ \A j \in 1..Len(procinfos) : procinfos[j] \in All /\ procinfos[j] \in Listed
           /\ \A p \in Listed : \E j \in 1..Len(procinfos) : p = procinfos[j]
           /\ Listed \in SUBSET All
           /\ \A i, j \in 1..Len(procinfos) : procinfos[i] = procinfos[j] => i = j
<1>1. procinfos \in Seq(All) /\ IsInjective(procinfos)
  BY DEF Typed, TypeOK
<1>2. /\ Len(procinfos) \in Nat /\ DOMAIN procinfos = 1..Len(procinfos)
      /\ \A j \in 1..Len(procinfos) : procinfos[j] \in All
  BY <1>1, LenProperties, ElementOfSeq
<1> QED
  BY <1>1, <1>2 DEF Listed, ToSet, IsInjective

\* The steps that leave the threads' variables and the documents alone, or reset them.
LEMMA RunnerTyped ==
    ASSUME ConfigureAssumption, Typed,
           \/ Boot \/ BootDone \/ BootFails \/ Terminate \/ StopRun
           \/ \E c \in Configs : Config(c)
           \/ Join \/ PrepareReverts \/ PrepareRecovers \/ InitFails \/ Archive \/ JoinRecord
    PROVE  Typed'
<1> USE DEF Typed, TypeOK, PrepTyped, ConfigKnown, runner, threads, files, history
<1>1. /\ Labels \in Seq(All) /\ IsInjective(Labels) /\ Len(Labels) \in Nat
      /\ NoDocs \in [All -> Docs]
  BY LabelsTyped, DocumentsTyped
<1>2. CASE Boot
  <2>1. PrepOff \in Threads /\ Len(PrepOff.held) = 0
    BY EmptySeq DEF PrepOff, Threads
  <2>2. prep' \in Threads /\ prep'.pc = "obtain" /\ Len(prep'.held) = 0
        /\ prep'.i = 1 /\ prep'.n = 0 /\ prep'.whom = {} /\ prep'.held \in Seq(Docs)
    BY <1>2, <2>1 DEF Boot, PrepOff, Threads
  <2>3. /\ state' = "booting" /\ phase' = "wait" /\ procinfos' = Labels
        /\ doc' \in [All -> Docs] /\ sent' \in [All -> Docs]
        /\ prepThread' = TRUE /\ prepared' = FALSE /\ boots' \in 0..MaxBoots
        /\ UNCHANGED <<subconfigs, save, tmp, records, requested, taken>>
    BY <1>1, <1>2 DEF Boot, ConfigureAssumption
  <2>4. TypeOK'
    <3>1. procinfos' \in Seq(All) /\ IsInjective(procinfos')
      BY <1>1, <2>3
    <3>2. prep'.i \in 1..(Len(Labels) + 1) /\ prep'.n \in 0..Len(Labels)
      BY <1>1, <2>2
    <3> QED
      BY <2>2, <2>3, <3>1, <3>2
  <2>5. PrepTyped' /\ ConfigKnown'
    BY <1>1, <2>2, <2>3
  <2>6. Len(procinfos') <= Len(Labels)
    BY <1>1, <2>3
  <2> HIDE DEF TypeOK, PrepTyped, ConfigKnown
  <2> QED
    BY <2>4, <2>5, <2>6
<1>3. CASE BootDone
  BY <1>3 DEF BootDone
<1>4. CASE BootFails \/ Terminate
  <2>1. /\ procinfos' \in Seq(All) /\ IsInjective(procinfos') /\ Len(procinfos') = 0
        /\ state' = "stopped" /\ phase' = "idle"
        /\ UNCHANGED <<doc, subconfigs, threads, files, history>>
    BY <1>4, EmptiedTyped DEF BootFails, Terminate, Recover
  <2> QED
    BY <1>1, <2>1
<1>5. CASE StopRun
  BY <1>5 DEF StopRun
<1>6. ASSUME NEW c \in Configs, Config(c)
      PROVE  Typed'
  BY <1>6 DEF Config
<1>7. CASE Join
  <2>1. /\ phase = "join" /\ phase' \in {"record", "prepare"} /\ prepThread' \in BOOLEAN
        /\ UNCHANGED <<state, procinfos, doc, subconfigs, prepared, prep, save, files, history>>
    BY <1>7 DEF Join
  <2>2. TypeOK' /\ Len(procinfos') <= Len(Labels)
    BY <2>1
  <2>3. PrepTyped' /\ ConfigKnown'
    BY <2>1
  <2> QED
    BY <2>2, <2>3
<1>8. CASE PrepareReverts
  BY <1>8 DEF PrepareReverts, Revert
<1>9. CASE PrepareRecovers \/ InitFails
  <2>1. /\ procinfos' \in Seq(All) /\ IsInjective(procinfos') /\ Len(procinfos') = 0
        /\ state' = "stopped" /\ phase' = "idle"
    BY <1>9, EmptiedTyped DEF PrepareRecovers, InitFails, Recover
  <2>2. CASE PrepareRecovers
    BY <1>1, <2>1, <2>2 DEF PrepareRecovers
  <2>3. CASE InitFails
    BY <1>1, <2>1, <2>3 DEF InitFails
  <2> QED
    BY <1>9, <2>2, <2>3
<1>10. CASE Archive
  <2>1. /\ procinfos' \in Seq(All) /\ IsInjective(procinfos')
        /\ procinfos' = procinfos \/ Len(procinfos') = 0
    BY <1>10, EmptiedTyped DEF Archive, Recover
  <2>2. /\ state' \in {state, "stopped"} /\ phase' \in {"idle", "saved"} /\ phase = "archive"
        /\ UNCHANGED <<doc, subconfigs, threads, files, history>>
    BY <1>10 DEF Archive, Recover
  <2>3. TypeOK'
    BY <2>1, <2>2
  <2>4. Len(procinfos') <= Len(Labels)
    BY <1>1, <2>1
  <2>5. PrepTyped' /\ ConfigKnown'
    BY <2>2
  <2> QED
    BY <2>3, <2>4, <2>5
<1>11. CASE JoinRecord
  BY <1>11 DEF JoinRecord
<1> QED
  BY <1>2, <1>3, <1>4, <1>5, <1>6, <1>7, <1>8, <1>9, <1>10, <1>11

\* Any exception ends the preparation thread.
LEMMA FailureTyped == ASSUME ConfigureAssumption, Typed, PrepFails PROVE Typed'
<1>1. PrepOff \in Threads /\ PrepOff.pc = "off" /\ Len(PrepOff.held) = 0
      /\ PrepOff.i = 1 /\ PrepOff.n = 0 /\ PrepOff.whom = {} /\ PrepOff.held \in Seq(Docs)
  BY EmptySeq DEF PrepOff, Threads
<1>2. Len(Labels) \in Nat
  BY LabelsTyped
<1>3. prep' = PrepOff /\ prepared' = FALSE
      /\ UNCHANGED <<runner, procinfos, prepThread, save, files, history, doc, subconfigs>>
  BY DEF PrepFails, PrepStep
<1>4. PrepTyped'
  BY <1>1, <1>2, <1>3 DEF PrepTyped
<1>5. prep'.i \in 1..(Len(Labels) + 1) /\ prep'.n \in 0..Len(Labels)
  BY <1>1, <1>2, <1>3
<1>6. TypeOK'
  <2>1. /\ prep'.held \in Seq(Docs) /\ prep'.whom \subseteq All
        /\ prep'.pc \in {"off", "obtain", "read", "write", "reformat", "back", "count", "book"}
    BY <1>1, <1>3
  <2>2. TypeOK /\ prepared' \in BOOLEAN
    BY <1>3 DEF Typed
  <2>3. UNCHANGED <<runner, procinfos, prepThread, save, files, history, doc, subconfigs>>
    BY <1>3
  <2> QED
    BY <1>5, <2>1, <2>2, <2>3 DEF TypeOK, runner, files, history
<1> QED
  BY <1>3, <1>4, <1>6 DEF Typed, ConfigKnown, runner

\* The steps of the preparation thread.
LEMMA PrepareTyped == ASSUME ConfigureAssumption, Typed, Prepare PROVE Typed'
<1>1. /\ TypeOK /\ PrepTyped /\ ConfigKnown /\ prep \in Threads
      /\ Len(procinfos) <= Len(Labels) /\ doc \in [All -> Docs]
  BY DEF Typed, PrepTyped, TypeOK
<1>2. /\ Len(procinfos) \in Nat /\ DOMAIN procinfos = 1..Len(procinfos)
      /\ \A j \in 1..Len(procinfos) : procinfos[j] \in All
      /\ Listed \in SUBSET All /\ Len(Labels) \in Nat
  BY ListTyped, LabelsTyped
<1>3. Len(prep.held) \in Nat /\ \A j \in 1..Len(prep.held) : prep.held[j] \in Docs
  BY <1>1, LenProperties, ElementOfSeq DEF Threads
\* What remains to be shown when a step goes on.
<1>4. ASSUME UNCHANGED <<runner, procinfos, prepThread, save, files, history>>,
             prep' \in Threads, prep'.i \in 1..(Len(Labels) + 1), prep'.n \in 0..Len(Labels),
             doc' \in [All -> Docs], subconfigs' \in Configs \union {"unset"},
             subconfigs' = subconfigs \/ subconfigs' \in Configs,
             prepared' \in BOOLEAN, PrepTyped'
      PROVE  Typed'
  <2>1. prep'.held \in Seq(Docs) /\ prep'.whom \subseteq All
        /\ prep'.pc \in {"off", "obtain", "read", "write", "reformat", "back", "count", "book"}
    BY <1>4 DEF Threads
  <2>2. TypeOK'
    BY <1>1, <1>4, <2>1 DEF TypeOK, runner, files, history
  <2>3. ConfigKnown'
    BY <1>1, <1>4 DEF ConfigKnown, runner
  <2> QED
    BY <1>1, <1>4, <2>2, <2>3 DEF Typed
<1>5. CASE PrepObtain
  <2>1. PICK c \in Configs : subconfigs' = c /\ doc' = doc /\ prepared' = prepared
           /\ PrepStep([prep EXCEPT !.pc = "read", !.conf = c, !.n = Len(procinfos)])
           /\ prep.pc = "obtain"
    BY <1>1, <1>5 DEF PrepObtain, TypeOK, ConfigureAssumption
  <2>2. /\ prep' \in Threads /\ prep'.pc = "read" /\ prep'.conf = c /\ prep'.i = prep.i
        /\ prep'.n = Len(procinfos) /\ prep'.held = prep.held
        /\ UNCHANGED <<runner, procinfos, prepThread, save, files, history>>
    BY <1>1, <1>2, <2>1 DEF PrepStep, Threads
  <2> QED
    BY <1>1, <1>2, <1>4, <2>1, <2>2 DEF PrepTyped, TypeOK
<1>6. CASE PrepBreaks \/ PrepBookBreaks
  BY <1>6, FailureTyped DEF PrepBreaks, PrepBookBreaks
<1>7. CASE PrepRead
  <2>1. CASE Beyond
    BY <1>7, <2>1, FailureTyped DEF PrepRead
  <2>2. CASE ~Beyond
    <3>1. /\ prep.pc = "read" /\ prep.i <= prep.n /\ ThisProc \in All
          /\ doc' = doc /\ subconfigs' = subconfigs /\ prepared' = prepared
          /\ PrepStep([prep EXCEPT !.pc = "write", !.label = ThisProc])
      BY <1>1, <1>2, <1>7, <2>2 DEF PrepRead, Beyond, ThisProc, TypeOK
    <3>2. /\ prep' \in Threads /\ prep'.pc = "write" /\ prep'.label = ThisProc
          /\ prep'.i = prep.i /\ prep'.n = prep.n /\ prep'.conf = prep.conf
          /\ prep'.held = prep.held
          /\ UNCHANGED <<runner, procinfos, prepThread, save, files, history>>
      BY <1>1, <3>1 DEF PrepStep, Threads
    <3> QED
      BY <1>1, <1>2, <1>4, <3>1, <3>2 DEF PrepTyped, TypeOK
  <2> QED
    BY <2>1, <2>2
<1>8. CASE PrepWrite
  <2>1. CASE Beyond
    BY <1>8, <2>1, FailureTyped DEF PrepWrite
  <2>2. CASE ~Beyond
    <3>1. /\ prep.pc = "write" /\ prep.i <= prep.n /\ ThisProc \in All
          /\ doc' = [doc EXCEPT ![ThisProc] = Raw(prep.label, prep.conf)]
          /\ subconfigs' = subconfigs /\ prepared' = prepared
          /\ prep' = [prep EXCEPT !.pc = "read", !.i = prep.i + 1] /\ prep.i + 1 \in Nat
          /\ UNCHANGED <<runner, procinfos, prepThread, save, files, history>>
      BY <1>1, <1>2, <1>8, <2>2 DEF PrepWrite, PrepStep, Beyond, ThisProc, TypeOK, PrepTyped
    <3>2. /\ prep' \in Threads /\ prep'.pc = "read" /\ prep'.conf = prep.conf
          /\ prep'.i = prep.i + 1 /\ prep'.n = prep.n /\ prep'.held = prep.held
          /\ UNCHANGED <<runner, procinfos, prepThread, save, files, history>>
      BY <1>1, <3>1 DEF Threads
    <3>3. doc' \in [All -> Docs]
      BY <1>1, <1>2, <3>1, DocumentsTyped DEF PrepTyped
    <3>4. prep'.i \in 1..(Len(Labels) + 1)
      BY <1>1, <1>2, <3>1, <3>2 DEF TypeOK
    <3> QED
      BY <1>1, <1>2, <1>4, <3>1, <3>2, <3>3, <3>4 DEF PrepTyped, TypeOK
  <2> QED
    BY <2>1, <2>2
<1>9. CASE PrepAllRead
  <2>1. /\ prep.pc = "read" /\ doc' = doc /\ subconfigs' = subconfigs /\ prepared' = prepared
        /\ PrepStep([prep EXCEPT !.pc = "reformat"])
    BY <1>9 DEF PrepAllRead
  <2>2. /\ prep' \in Threads /\ prep'.pc = "reformat" /\ prep'.conf = prep.conf
        /\ prep'.i = prep.i /\ prep'.n = prep.n /\ prep'.held = prep.held
        /\ UNCHANGED <<runner, procinfos, prepThread, save, files, history>>
    BY <1>1, <2>1 DEF PrepStep, Threads
  <2> QED
    BY <1>1, <1>2, <1>4, <2>1, <2>2 DEF PrepTyped, TypeOK
<1>10. CASE PrepReformat
  <2> DEFINE new == [i \in DOMAIN procinfos |-> Plain(doc[procinfos[i]])]
  <2>1. /\ prep.pc = "reformat" /\ doc' = doc /\ subconfigs' = subconfigs
        /\ prepared' = prepared
        /\ PrepStep([prep EXCEPT !.pc = "back", !.i = 1, !.held = new])
    BY <1>10 DEF PrepReformat
  <2>2. new \in Seq(Docs) /\ Len(new) = Len(procinfos)
    <3>1. \A i \in 1..Len(procinfos) : Plain(doc[procinfos[i]]) \in Docs
      BY <1>1, <1>2, DocumentsTyped
    <3> QED
      BY <1>2, <3>1
  <2> HIDE DEF new
  <2>3. /\ prep' \in Threads /\ prep'.pc = "back" /\ prep'.conf = prep.conf
        /\ prep'.i = 1 /\ prep'.n = prep.n /\ prep'.held = new
        /\ UNCHANGED <<runner, procinfos, prepThread, save, files, history>>
    BY <1>1, <2>1, <2>2 DEF PrepStep, Threads
  <2> QED
    BY <1>1, <1>2, <1>4, <2>1, <2>2, <2>3 DEF PrepTyped, TypeOK
<1>11. CASE PrepWriteBack
  <2>1. CASE Beyond
    BY <1>11, <2>1, FailureTyped DEF PrepWriteBack
  <2>2. CASE ~Beyond
    <3>1. /\ prep.pc = "back" /\ prep.i <= Len(prep.held) /\ prep.i \in 1..Len(prep.held)
          /\ doc' = [doc EXCEPT ![ThisProc] = prep.held[prep.i]]
          /\ subconfigs' = subconfigs /\ prepared' = prepared
          /\ prep' = [prep EXCEPT !.i = prep.i + 1] /\ prep.i + 1 \in Nat
          /\ UNCHANGED <<runner, procinfos, prepThread, save, files, history>>
      BY <1>1, <1>3, <1>11, <2>2 DEF PrepWriteBack, PrepStep, TypeOK
    <3>2. /\ prep' \in Threads /\ prep'.pc = "back" /\ prep'.conf = prep.conf
          /\ prep'.i = prep.i + 1 /\ prep'.n = prep.n /\ prep'.held = prep.held
          /\ UNCHANGED <<runner, procinfos, prepThread, save, files, history>>
      BY <1>1, <3>1 DEF Threads
    <3>3. doc' \in [All -> Docs]
      BY <1>1, <1>3, <3>1
    <3>4. prep'.i \in 1..(Len(Labels) + 1) /\ prep'.i <= Len(prep'.held) + 1
      BY <1>1, <1>2, <1>3, <3>1, <3>2 DEF PrepTyped
    <3> QED
      BY <1>1, <1>2, <1>4, <3>1, <3>2, <3>3, <3>4 DEF PrepTyped, TypeOK
  <2> QED
    BY <2>1, <2>2
<1>12. CASE PrepAllBack \/ PrepCount
  <2>1. /\ prep.pc \in {"back", "count"}
        /\ doc' = doc /\ subconfigs' = subconfigs /\ prepared' = prepared
        /\ \/ PrepStep([prep EXCEPT !.pc = "count"])
           \/ PrepStep([prep EXCEPT !.pc = "book", !.whom = Listed])
    BY <1>12 DEF PrepAllBack, PrepCount
  <2>2. /\ prep' \in Threads /\ prep'.pc \in {"count", "book"} /\ prep'.conf = prep.conf
        /\ prep'.i = prep.i /\ prep'.n = prep.n /\ prep'.held = prep.held
        /\ UNCHANGED <<runner, procinfos, prepThread, save, files, history>>
    BY <1>1, <1>2, <2>1 DEF PrepStep, Threads
  <2> QED
    BY <1>1, <1>2, <1>4, <2>1, <2>2 DEF PrepTyped, TypeOK
<1>13. CASE PrepBook
  <2>1. /\ doc' = [p \in All |-> IF p \in Listed
                                 THEN [doc[p] EXCEPT !.stage = "booked", !.whom = prep.whom]
                                 ELSE doc[p]]
        /\ subconfigs' = subconfigs /\ prepared' = TRUE /\ prep' = PrepOff
        /\ UNCHANGED <<runner, procinfos, prepThread, save, files, history>>
    BY <1>13 DEF PrepBook, BookAll, PrepStep
  <2>2. doc' \in [All -> Docs]
    <3>1. prep.whom \in SUBSET All
      BY <1>1 DEF TypeOK
    <3>2. \A p \in All : doc[p] \in Docs
                      /\ [doc[p] EXCEPT !.stage = "booked", !.whom = prep.whom] \in Docs
      BY <1>1, <3>1, DocumentsTyped
    <3> QED
      BY <2>1, <3>2
  <2>3. PrepOff \in Threads /\ PrepOff.pc = "off" /\ Len(PrepOff.held) = 0
        /\ PrepOff.i = 1 /\ PrepOff.n = 0 /\ PrepOff.held \in Seq(Docs)
    BY EmptySeq DEF PrepOff, Threads
  <2>4. /\ prep' \in Threads /\ prep'.pc = "off" /\ Len(prep'.held) = 0
        /\ prep'.i = 1 /\ prep'.n = 0
    BY <1>13, <2>3 DEF PrepBook, PrepStep
  <2>5. PrepTyped' /\ prep'.i \in 1..(Len(Labels) + 1) /\ prep'.n \in 0..Len(Labels)
    BY <1>2, <2>4 DEF PrepTyped
  <2>6. subconfigs' \in Configs \union {"unset"} /\ prepared' \in BOOLEAN /\ prep' \in Threads
    BY <1>1, <2>1, <2>3 DEF TypeOK
  <2> QED
    BY <1>4, <2>1, <2>2, <2>4, <2>5, <2>6
<1> QED
  BY <1>5, <1>6, <1>7, <1>8, <1>9, <1>10, <1>11, <1>12, <1>13 DEF Prepare

\* The steps of the thread that saves the record.
LEMMA SaveTyped == ASSUME ConfigureAssumption, Typed, SaveRecord PROVE Typed'
<1>1. /\ TypeOK /\ PrepTyped /\ ConfigKnown /\ Len(procinfos) <= Len(Labels)
      /\ tmp \in Records /\ doc \in [All -> Docs] /\ Len(Labels) \in Nat
  BY LabelsTyped DEF Typed, TypeOK
<1>2. /\ UNCHANGED <<phase, doc, subconfigs, prepThread, prepared, prep, records, history>>
      /\ save' \in {"off", "make", "docs", "boot", "open", "write"}
  BY <1>1 DEF SaveRecord, SaveMake, SaveDocs, SaveBoot, SaveOpen, SaveDone, SaveBreaks, SaveRecovers,
              SaveStep, runner, TypeOK
<1>3. tmp' \in Records
  <2>1. CASE SaveDocs
    <3>1. [p \in All |-> IF p \in Listed THEN doc[p] ELSE tmp.docs[p]] \in [All -> Docs]
      BY <1>1 DEF Records
    <3>2. tmp' = [tmp EXCEPT !.docs = [p \in All |-> IF p \in Listed THEN doc[p] ELSE tmp.docs[p]]]
      BY <2>1 DEF SaveDocs
    <3> QED
      BY <1>1, <3>1, <3>2 DEF Records
  <2>2. CASE SaveMake
    BY <1>1, <2>2 DEF SaveMake, Records
  <2>3. CASE SaveBoot
    BY <1>1, <2>3 DEF SaveBoot, Records
  <2>4. CASE SaveOpen
    BY <1>1, <2>4 DEF SaveOpen, Records
  <2>5. CASE SaveDone
    BY <1>1, <2>5 DEF SaveDone, Records
  <2>6. CASE SaveBreaks \/ SaveRecovers
    BY <1>1, <2>6 DEF SaveBreaks, SaveRecovers, Torn, Records
  <2> QED
    BY <2>1, <2>2, <2>3, <2>4, <2>5, <2>6 DEF SaveRecord
<1>4. /\ procinfos' \in Seq(All) /\ IsInjective(procinfos') /\ Len(procinfos') <= Len(Labels)
      /\ state' \in {state, "stopped"}
  <2>1. CASE SaveRecovers
    BY <1>1, <2>1, EmptiedTyped DEF SaveRecovers
  <2>2. CASE ~SaveRecovers
    <3>1. procinfos' = procinfos /\ state' = state
      BY <2>2 DEF SaveRecord, SaveMake, SaveDocs, SaveBoot, SaveOpen, SaveDone, SaveBreaks, runner
    <3> QED
      BY <1>1, <3>1 DEF TypeOK
  <2> QED
    BY <2>1, <2>2
<1>5. TypeOK'
  BY <1>1, <1>2, <1>3, <1>4 DEF TypeOK, history
<1>6. PrepTyped' /\ ConfigKnown'
  BY <1>1, <1>2 DEF PrepTyped, ConfigKnown
<1> QED
  BY <1>4, <1>5, <1>6 DEF Typed

\* The steps that write the documents, the list or the records in one go.
LEMMA OthersTyped ==
    ASSUME ConfigureAssumption, Typed,
           \/ PrepareAll \/ CheckReverts \/ StartSave \/ InitCommand
           \/ \E r \in Runs : StartRun(r) \/ StartFails(r)
           \/ \E i \in 1..Len(procinfos) : Lose(i)
    PROVE  Typed'
<1>1. /\ TypeOK /\ PrepTyped /\ ConfigKnown /\ Len(procinfos) <= Len(Labels)
      /\ doc \in [All -> Docs] /\ sent \in [All -> Docs] /\ tmp \in Records
      /\ records \in [Runs -> Records] /\ taken \in [Runs -> [All -> Docs]]
      /\ Len(Labels) \in Nat /\ Len(procinfos) \in Nat /\ Listed \in SUBSET All
      /\ NoRecord \in Records
  BY LabelsTyped, ListTyped, DocumentsTyped DEF Typed, TypeOK, NoRecord, Records
<1>2. CASE PrepareAll \/ CheckReverts
  <2>1. doc' \in [All -> Docs]
    <3>1. subconfigs \in Configs
      BY <1>1, <1>2 DEF PrepareAll, CheckReverts, ConfigKnown
    <3>2. \A p \in All : Booked(p, subconfigs, Listed) \in Docs
      BY <1>1, <3>1, DocumentsTyped
    <3> QED
      BY <1>1, <1>2, <3>2 DEF PrepareAll, CheckReverts, Sequential
  <2>2. CASE PrepareAll
    BY <1>1, <2>1, <2>2 DEF PrepareAll, Typed, TypeOK, PrepTyped, ConfigKnown, threads, files, history
  <2>3. CASE CheckReverts
    BY <1>1, <2>1, <2>3 DEF CheckReverts, Revert, Typed, TypeOK, PrepTyped, ConfigKnown, threads,
                            history
  <2> QED
    BY <1>2, <2>2, <2>3
<1>3. CASE StartSave
  BY <1>1, <1>3 DEF StartSave, Typed, TypeOK, PrepTyped, ConfigKnown, history
<1>4. CASE InitCommand
  <2>1. sent' \in [All -> Docs]
    BY <1>1, <1>4 DEF InitCommand
  <2> QED
    BY <1>1, <1>4, <2>1 DEF InitCommand, Typed, TypeOK, PrepTyped, ConfigKnown, threads, files
<1>5. ASSUME NEW r \in Runs, StartRun(r) \/ StartFails(r)
      PROVE  Typed'
  <2>1. records' \in [Runs -> Records]
    BY <1>1, <1>5 DEF StartRun, StartFails
  <2>2. taken' \in [Runs -> [All -> Docs]]
    <3>1. [p \in All |-> IF p \in Listed THEN sent[p] ELSE Blank] \in [All -> Docs]
      BY <1>1, DocumentsTyped
    <3> QED
      BY <1>1, <1>5, <3>1 DEF StartRun, StartFails, history
  <2>3. /\ procinfos' \in Seq(All) /\ IsInjective(procinfos') /\ Len(procinfos') <= Len(Labels)
        /\ state' \in {"running", "stopped"} /\ phase' = "idle"
    <3>1. CASE procinfos' = <<>>
      BY <1>1, <1>5, <3>1, EmptiedTyped DEF StartRun, StartFails, Recover
    <3>2. CASE procinfos' # <<>>
      BY <1>1, <1>5, <3>2 DEF StartRun, StartFails, Recover, TypeOK
    <3> QED
      BY <3>1, <3>2
  <2>4. UNCHANGED <<doc, subconfigs, prepThread, prepared, prep, save, tmp, requested, sent, boots>>
    BY <1>5 DEF StartRun, StartFails, threads, history
  <2>5. TypeOK'
    BY <1>1, <2>1, <2>2, <2>3, <2>4 DEF TypeOK
  <2> QED
    BY <1>1, <2>3, <2>4, <2>5 DEF Typed, PrepTyped, ConfigKnown
<1>6. ASSUME NEW i \in 1..Len(procinfos), Lose(i)
      PROVE  Typed'
  <2>1. /\ procinfos' \in Seq(All) /\ IsInjective(procinfos') /\ Len(procinfos') <= Len(Labels)
    BY <1>1, <1>6, LossKeepsApart DEF Lose, TypeOK
  <2> QED
    BY <1>1, <1>6, <2>1 DEF Lose, Typed, TypeOK, PrepTyped, ConfigKnown, runner, threads, files,
                            history
<1> QED
  BY <1>2, <1>3, <1>4, <1>5, <1>6

LEMMA TypedStep == ASSUME ConfigureAssumption, Typed, [Next]_vars PROVE Typed'
<1>1. CASE Next
  BY <1>1, RunnerTyped, PrepareTyped, SaveTyped, OthersTyped DEF Next, Transition
<1>2. CASE UNCHANGED vars
  BY <1>2 DEF vars, runner, threads, files, history, Typed, TypeOK, PrepTyped, ConfigKnown
<1> QED
  BY <1>1, <1>2

LEMMA TypedInit == ASSUME ConfigureAssumption, Init PROVE Typed
<1>1. /\ procinfos \in Seq(All) /\ Len(procinfos) = 0 /\ IsInjective(procinfos)
  <2>1. procinfos \in Seq(All) /\ Len(procinfos) = 0
    BY EmptySeq DEF Init
  <2>2. DOMAIN procinfos = 1..0
    BY <2>1, LenProperties
  <2>3. 1..0 = {}
    OBVIOUS
  <2> QED
    BY <2>1, <2>2, <2>3 DEF IsInjective
<1>2. /\ NoDocs \in [All -> Docs] /\ NoRecord \in Records /\ Len(Labels) \in Nat
  BY DocumentsTyped, LabelsTyped DEF NoRecord, Records
<1>3. /\ prep \in Threads /\ prep.pc = "off" /\ Len(prep.held) = 0 /\ prep.i = 1 /\ prep.n = 0
      /\ prep.held \in Seq(Docs) /\ prep.whom = {}
  BY EmptySeq DEF Init, PrepOff, Threads
<1>4. prep.i \in 1..(Len(Labels) + 1) /\ prep.n \in 0..Len(Labels) /\ 0 \in 0..MaxBoots
  BY <1>2, <1>3 DEF ConfigureAssumption
<1>5. TypeOK
  BY <1>1, <1>2, <1>3, <1>4 DEF Init, TypeOK
<1>6. PrepTyped /\ ConfigKnown
  BY <1>2, <1>3 DEF Init, PrepTyped, ConfigKnown
<1> QED
  BY <1>1, <1>2, <1>5, <1>6 DEF Typed

-----------------------------------------------------------------------------
(* The threads *)

\* What any step of the preparation thread does and leaves alone.
LEMMA PrepareFrame ==
    ASSUME Prepare
    PROVE  /\ prep.pc # "off"
           /\ UNCHANGED <<state, phase, procinfos, prepThread, save, tmp, records, requested, sent,
                          taken, boots>>
           /\ prep' = PrepOff \/ prepared' = prepared
<1> USE DEF PrepStep, PrepFails, runner, files, history
<1>1. CASE PrepObtain \/ PrepBreaks \/ PrepRead \/ PrepWrite
  BY <1>1 DEF PrepObtain, PrepBreaks, PrepRead, PrepWrite
<1>2. CASE PrepAllRead \/ PrepReformat \/ PrepWriteBack \/ PrepAllBack
  BY <1>2 DEF PrepAllRead, PrepReformat, PrepWriteBack, PrepAllBack
<1>3. CASE PrepCount \/ PrepBook \/ PrepBookBreaks
  BY <1>3 DEF PrepCount, PrepBook, PrepBookBreaks
<1> QED
  BY <1>1, <1>2, <1>3 DEF Prepare

\* The preparation thread runs until it is joined, the saving thread from StartSave to
\* JoinRecord, and after a recovery both until the next boot.
LEMMA ThreadsStep == ASSUME ThreadShape, [Next]_vars PROVE ThreadShape'
<1> USE DEF ThreadShape, runner, threads, files, history
<1>1. CASE Boot \/ BootDone \/ BootFails \/ Terminate \/ StopRun
  BY <1>1 DEF Boot, BootDone, BootFails, Terminate, StopRun, Recover
<1>2. CASE \/ \E c \in Configs : Config(c)
           \/ \E r \in Runs : StartRun(r) \/ StartFails(r)
           \/ \E i \in 1..Len(procinfos) : Lose(i)
  BY <1>2 DEF Config, StartRun, StartFails, Lose, Recover
<1>3. CASE Join \/ PrepareAll \/ PrepareReverts \/ PrepareRecovers \/ CheckReverts
  BY <1>3 DEF Join, PrepareAll, PrepareReverts, PrepareRecovers, CheckReverts, Recover, Revert
<1>4. CASE StartSave \/ InitCommand \/ InitFails \/ Archive \/ JoinRecord
  BY <1>4 DEF StartSave, InitCommand, InitFails, Archive, JoinRecord, Recover
<1>5. CASE Prepare
  BY <1>5, PrepareFrame DEF PrepOff
<1>6. CASE SaveRecord
  BY <1>6 DEF SaveRecord, SaveMake, SaveDocs, SaveBoot, SaveOpen, SaveDone, SaveBreaks, SaveRecovers,
              SaveStep
<1>7. CASE UNCHANGED vars
  BY <1>7 DEF vars
<1> QED
  BY <1>1, <1>2, <1>3, <1>4, <1>5, <1>6, <1>7 DEF Next, Transition

\* Outside of its own steps and of Boot the preparation thread stays where it is, and the
\* list at most becomes shorter; while it runs, no one else writes the documents.
LEMMA OutsidePrepare ==
    ASSUME ConfigureAssumption, Typed, ThreadShape, [Next]_vars, ~Prepare, ~Boot
    PROVE  /\ prep' = prep /\ prepared' = prepared
           /\ prep.pc # "off" => doc' = doc
           /\ \/ procinfos' = procinfos
              \/ procinfos' = <<>>
              \/ /\ Len(procinfos') = Len(procinfos) - 1
                 /\ Listed' \subseteq Listed
<1> USE DEF ThreadShape, runner, threads, files, history
<1>1. CASE BootDone \/ BootFails \/ Terminate \/ StopRun \/ \E c \in Configs : Config(c)
  BY <1>1 DEF BootDone, BootFails, Terminate, StopRun, Recover, Config
<1>2. CASE \E r \in Runs : StartRun(r) \/ StartFails(r)
  BY <1>2 DEF StartRun, StartFails, Recover
<1>3. CASE \E i \in 1..Len(procinfos) : Lose(i)
  <2>1. PICK i \in 1..Len(procinfos) : Lose(i)
    BY <1>3
  <2>2. /\ Len(RemoveAt(procinfos, i)) = Len(procinfos) - 1
        /\ ToSet(RemoveAt(procinfos, i)) \subseteq ToSet(procinfos)
    BY <2>1, LossKeepsApart DEF Typed, TypeOK
  <2> QED
    BY <2>1, <2>2 DEF Lose, Listed
<1>4. CASE Join \/ PrepareAll \/ PrepareReverts \/ PrepareRecovers \/ CheckReverts
  BY <1>4 DEF Join, PrepareAll, PrepareReverts, PrepareRecovers, CheckReverts, Recover, Revert
<1>5. CASE StartSave \/ InitCommand \/ InitFails \/ Archive \/ JoinRecord
  BY <1>5 DEF StartSave, InitCommand, InitFails, Archive, JoinRecord, Recover
<1>6. CASE SaveRecord
  BY <1>6 DEF SaveRecord, SaveMake, SaveDocs, SaveBoot, SaveOpen, SaveDone, SaveBreaks, SaveRecovers,
              SaveStep
<1>7. CASE UNCHANGED vars
  BY <1>7 DEF vars
<1> QED
  BY <1>1, <1>2, <1>3, <1>4, <1>5, <1>6, <1>7 DEF Next, Transition

-----------------------------------------------------------------------------
(* The documents *)

\* A process that is lost makes the list too short for the index, whatever the indexes
\* have come to mean.
LEMMA LossWhilePreparing ==
    ASSUME ConfigureAssumption, Typed, ThreadShape, PrepShape, [Next]_vars, ~Prepare, ~Boot
    PROVE  PrepShape'
<1>1. /\ prep' = prep /\ (prep.pc # "off" => doc' = doc)
      /\ prep.i \in Nat /\ prep.i >= 1 /\ prep.n \in Nat /\ Len(procinfos) \in Nat
      /\ Len(prep.held) \in Nat /\ PrepTyped
  BY OutsidePrepare, ListTyped, LenProperties, LabelsTyped DEF Typed, TypeOK, Threads, PrepTyped
<1>2. CASE prep.pc = "off"
  BY <1>1, <1>2 DEF PrepShape
<1>3. CASE prep.pc # "off" /\ procinfos' = procinfos
  BY <1>1, <1>3 DEF PrepShape, Listed, ThisProc
<1>4. CASE prep.pc # "off" /\ procinfos' = <<>>
  <2>1. Len(procinfos') = 0 /\ Listed' = {}
    BY <1>4, EmptiedTyped
  <2> QED
    BY <1>1, <1>4, <2>1 DEF PrepShape, PrepTyped
<1>5. CASE prep.pc # "off" /\ Len(procinfos') = Len(procinfos) - 1 /\ Listed' \subseteq Listed
  BY <1>1, <1>5 DEF PrepShape
<1> QED
  BY <1>2, <1>3, <1>4, <1>5, OutsidePrepare

\* The steps of the preparation thread itself.
LEMMA Preparing ==
    ASSUME ConfigureAssumption, Typed, PrepShape, Prepare
    PROVE  PrepShape'
<1>1. /\ PrepTyped /\ doc \in [All -> Docs] /\ prep \in Threads
      /\ prep.i \in Nat /\ prep.i >= 1 /\ prep.n \in Nat /\ Len(procinfos) \in Nat
      /\ Len(prep.held) \in Nat
      /\ procinfos' = procinfos /\ Listed' = Listed
  BY PrepareFrame, ListTyped, LenProperties, LabelsTyped
     DEF Typed, TypeOK, Threads, PrepTyped, Listed
<1>2. /\ DOMAIN procinfos = 1..Len(procinfos)
      /\ \A j \in 1..Len(procinfos) : procinfos[j] \in All /\ procinfos[j] \in Listed
      /\ \A p \in Listed : \E j \in 1..Len(procinfos) : p = procinfos[j]
      /\ \A i, j \in 1..Len(procinfos) : procinfos[i] = procinfos[j] => i = j
  BY ListTyped
<1>3. CASE prep' = PrepOff
  BY <1>3 DEF PrepShape, PrepOff
<1>4. CASE PrepObtain
  <2>1. /\ prep'.pc = "read" /\ prep'.n = Len(procinfos) /\ prep'.i = 1
    BY <1>1, <1>4 DEF PrepObtain, PrepStep, Threads, PrepTyped
  <2>2. prep'.i > prep'.n => Listed = {}
    BY <1>1, <1>2, <2>1
  <2> QED
    BY <1>1, <2>1, <2>2 DEF PrepShape
<1>5. CASE PrepRead /\ ~Beyond
  <2>1. /\ prep'.pc = "write" /\ prep'.n = prep.n /\ prep'.i = prep.i /\ prep'.label = ThisProc
        /\ prep'.conf = prep.conf /\ doc' = doc /\ prep.pc = "read"
    BY <1>1, <1>5 DEF PrepRead, PrepStep, Threads
  <2> QED
    BY <1>1, <2>1 DEF PrepShape, ThisProc
<1>6. CASE PrepWrite /\ ~Beyond
  <2>1. /\ prep.pc = "write" /\ prep.i \in 1..Len(procinfos) /\ prep.i <= prep.n
        /\ prep'.pc = "read" /\ prep'.n = prep.n /\ prep'.i = prep.i + 1
        /\ prep'.conf = prep.conf
        /\ doc' = [doc EXCEPT ![procinfos[prep.i]] = Raw(prep.label, prep.conf)]
    <3>1. /\ prep.pc = "write" /\ prep.i <= Len(procinfos)
          /\ prep' = [prep EXCEPT !.pc = "read", !.i = prep.i + 1]
          /\ doc' = [doc EXCEPT ![procinfos[prep.i]] = Raw(prep.label, prep.conf)]
      BY <1>1, <1>6 DEF PrepWrite, PrepStep, Beyond, ThisProc
    <3>2. prep.i <= prep.n /\ prep.i \in 1..Len(procinfos)
      BY <1>1, <3>1 DEF PrepTyped
    <3> QED
      BY <1>1, <3>1, <3>2 DEF Threads
  <2>2. Len(procinfos) <= prep.n
    BY <2>1 DEF PrepShape
  <2>3. ASSUME Len(procinfos) = prep.n, NEW j \in 1..prep.i
        PROVE  doc'[procinfos[j]] = Raw(procinfos[j], prep.conf)
    <3>1. prep.label = procinfos[prep.i] /\ j \in 1..Len(procinfos)
      BY <1>1, <2>1, <2>3 DEF PrepShape, ThisProc
    <3>2. CASE j = prep.i
      BY <1>1, <1>2, <2>1, <3>1, <3>2
    <3>3. CASE j # prep.i
      <4>1. j \in 1..(prep.i - 1) /\ procinfos[j] # procinfos[prep.i]
        BY <1>1, <1>2, <2>1, <3>1, <3>3
      <4>2. doc[procinfos[j]] = Raw(procinfos[j], prep.conf)
        BY <2>1, <2>3, <4>1 DEF PrepShape
      <4> QED
        BY <1>1, <1>2, <2>1, <3>1, <4>1, <4>2
    <3> QED
      BY <3>2, <3>3
  <2>4. prep'.i > prep.n => \A p \in Listed : doc'[p] = Raw(p, prep.conf)
    <3> SUFFICES ASSUME prep'.i > prep.n, NEW p \in Listed
                 PROVE  doc'[p] = Raw(p, prep.conf)
      OBVIOUS
    <3>1. PICK j \in 1..Len(procinfos) : p = procinfos[j]
      BY <1>2
    <3>2. Len(procinfos) = prep.n /\ j \in 1..prep.i
      BY <1>1, <2>1, <2>2
    <3> QED
      BY <2>3, <3>1, <3>2
  <2>5. 1..(prep'.i - 1) = 1..prep.i
    BY <1>1, <2>1
  <2> QED
    BY <1>1, <2>1, <2>2, <2>3, <2>4, <2>5 DEF PrepShape
<1>7. CASE PrepAllRead
  <2>1. /\ prep'.pc = "reformat" /\ prep'.conf = prep.conf /\ doc' = doc
        /\ prep.pc = "read" /\ prep.i > prep.n
    BY <1>1, <1>7 DEF PrepAllRead, PrepStep, Threads
  <2> QED
    BY <1>1, <2>1 DEF PrepShape
<1>8. CASE PrepReformat
  <2> DEFINE new == [i \in DOMAIN procinfos |-> Plain(doc[procinfos[i]])]
  <2>1. Len(new) = Len(procinfos)
    BY <1>1, <1>2
  <2>2. \A j \in 1..Len(procinfos) : new[j] = Plain(doc[procinfos[j]])
    BY <1>2
  <2> HIDE DEF new
  <2>3. /\ prep'.pc = "back" /\ prep'.conf = prep.conf /\ doc' = doc /\ prep'.i = 1
        /\ prep'.held = new /\ prep.pc = "reformat"
    BY <1>1, <1>8 DEF PrepReformat, PrepStep, Threads, new
  <2>4. \A j \in 1..Len(procinfos) : new[j] = Plain(Raw(procinfos[j], prep.conf))
    BY <1>2, <2>2, <2>3 DEF PrepShape
  <2>5. prep'.i > Len(new) => Listed = {}
    BY <1>1, <1>2, <2>1, <2>3
  <2> QED
    BY <1>1, <2>1, <2>3, <2>4, <2>5 DEF PrepShape
<1>9. CASE PrepWriteBack /\ ~Beyond
  <2>1. /\ prep.pc = "back" /\ prep.i \in 1..Len(procinfos) /\ prep.i <= Len(prep.held)
        /\ prep'.pc = "back" /\ prep'.held = prep.held /\ prep'.i = prep.i + 1
        /\ prep'.conf = prep.conf
        /\ doc' = [doc EXCEPT ![procinfos[prep.i]] = prep.held[prep.i]]
    BY <1>1, <1>9 DEF PrepWriteBack, PrepStep, Beyond, ThisProc, Threads, PrepTyped
  <2>2. Len(procinfos) <= Len(prep.held)
    BY <2>1 DEF PrepShape
  <2>3. ASSUME Len(procinfos) = Len(prep.held), NEW j \in 1..prep.i
        PROVE  doc'[procinfos[j]] = prep.held[j]
    <3>1. j \in 1..Len(procinfos)
      BY <1>1, <2>1, <2>3
    <3>2. CASE j = prep.i
      BY <1>1, <1>2, <2>1, <3>1, <3>2
    <3>3. CASE j # prep.i
      <4>1. j \in 1..(prep.i - 1) /\ procinfos[j] # procinfos[prep.i]
        BY <1>1, <1>2, <2>1, <3>1, <3>3
      <4>2. doc[procinfos[j]] = prep.held[j]
        BY <2>1, <2>3, <4>1 DEF PrepShape
      <4> QED
        BY <1>1, <1>2, <2>1, <3>1, <4>1, <4>2
    <3> QED
      BY <3>2, <3>3
  <2>4. prep'.i > Len(prep.held) => \A p \in Listed : doc'[p] = Plain(Raw(p, prep.conf))
    <3> SUFFICES ASSUME prep'.i > Len(prep.held), NEW p \in Listed
                 PROVE  doc'[p] = Plain(Raw(p, prep.conf))
      OBVIOUS
    <3>1. PICK j \in 1..Len(procinfos) : p = procinfos[j]
      BY <1>2
    <3>2. Len(procinfos) = Len(prep.held) /\ j \in 1..prep.i
      BY <1>1, <2>1, <2>2
    <3>3. prep.held[j] = Plain(Raw(procinfos[j], prep.conf))
      BY <2>1, <3>1, <3>2 DEF PrepShape
    <3> QED
      BY <2>3, <3>1, <3>2, <3>3
  <2>5. 1..(prep'.i - 1) = 1..prep.i
    BY <1>1, <2>1
  <2>6. Len(procinfos) = Len(prep.held) =>
          \A j \in 1..Len(prep.held) : prep.held[j] = Plain(Raw(procinfos[j], prep.conf))
    BY <2>1 DEF PrepShape
  <2> QED
    BY <1>1, <2>1, <2>2, <2>3, <2>4, <2>5, <2>6 DEF PrepShape
<1>10. CASE PrepAllBack \/ PrepCount
  <2>1. /\ doc' = doc /\ prep'.conf = prep.conf
        /\ \/ /\ prep.pc = "back" /\ prep.i > Len(prep.held) /\ prep'.pc = "count"
           \/ prep.pc = "count" /\ prep'.pc = "book" /\ prep'.whom = Listed
    BY <1>1, <1>10 DEF PrepAllBack, PrepCount, PrepStep, Threads
  <2> QED
    BY <1>1, <2>1 DEF PrepShape
<1> QED
  <2>1. PrepBreaks \/ PrepBook \/ PrepBookBreaks => prep' = PrepOff
    BY DEF PrepBreaks, PrepBook, PrepBookBreaks, PrepFails, PrepStep
  <2>2. Beyond /\ (PrepRead \/ PrepWrite \/ PrepWriteBack) => prep' = PrepOff
    BY DEF PrepRead, PrepWrite, PrepWriteBack, PrepFails, PrepStep
  <2> QED
    BY <1>3, <1>4, <1>5, <1>6, <1>7, <1>8, <1>9, <1>10, <2>1, <2>2 DEF Prepare

\* What has been made or sent is as good for those that are left.
LEMMA OwnedKept ==
    ASSUME Listed' \subseteq Listed
    PROVE  /\ Owned(doc) /\ doc' = doc => Owned(doc)'
           /\ Owned(sent) /\ sent' = sent => Owned(sent)'
BY DEF Owned

\* The steps that write no document and send none.
LEMMA DocumentsKept ==
    ASSUME DocShape, Listed' \subseteq Listed, doc' = doc, sent' = sent, prepared' => prepared,
           phase' \in {"record", "init"} => phase \in {"record", "init"} \/ prepared,
           phase' \in {"archive", "saved"} \/ Configured' =>
               phase \in {"archive", "saved"} \/ Configured
    PROVE  DocShape'
BY OwnedKept DEF DocShape

\* Preparing all of them at once.
LEMMA SequentialOwns ==
    ASSUME Listed \in SUBSET All, Sequential, Listed' = Listed
    PROVE  Owned(doc)'
<1>1. \A p \in Listed : doc'[p] = Booked(p, subconfigs, Listed)
  BY DEF Sequential
<1>2. ASSUME NEW p \in Listed
      PROVE  /\ doc'[p].of = p /\ doc'[p].stage = "booked"
             /\ doc'[p].whom = Listed /\ doc'[p].conf = subconfigs
  <2> DEFINE d == Booked(p, subconfigs, Listed)
  <2>1. d.of = p /\ d.stage = "booked" /\ d.whom = Listed /\ d.conf = subconfigs
    BY DEF Booked
  <2>2. doc'[p] = d
    BY <1>1
  <2> HIDE DEF d
  <2> QED
    BY <2>1, <2>2
<1> QED
  BY <1>2 DEF Owned

\* The last step of the preparation thread.
LEMMA BookOwns ==
    ASSUME ConfigureAssumption, Typed, PrepShape, PrepBook
    PROVE  Owned(doc)'
<1>1. /\ prep.pc = "book" /\ Listed' = Listed
      /\ doc' = [p \in All |-> IF p \in Listed
                               THEN [doc[p] EXCEPT !.stage = "booked", !.whom = prep.whom]
                               ELSE doc[p]]
  BY DEF PrepBook, BookAll, PrepStep, Listed
<1>2. Listed \in SUBSET All /\ Listed \subseteq prep.whom
  BY <1>1, ListTyped DEF PrepShape
<1>3. ASSUME NEW p \in Listed
      PROVE  /\ doc'[p].of = p /\ doc'[p].stage = "booked"
             /\ doc'[p].whom = prep.whom /\ doc'[p].conf = prep.conf
  <2> DEFINE d == Plain(Raw(p, prep.conf))
             e == [d EXCEPT !.stage = "booked", !.whom = prep.whom]
  <2>1. doc[p] = d
    BY <1>1 DEF PrepShape
  <2>2. e.of = p /\ e.stage = "booked" /\ e.whom = prep.whom /\ e.conf = prep.conf
    BY DEF Plain, Raw
  <2>3. doc'[p] = e
    BY <1>1, <1>2, <2>1
  <2> HIDE DEF e
  <2> QED
    BY <2>2, <2>3
<1> QED
  <2>1. Listed' = Listed
    BY <1>1
  <2> QED
    BY <1>2, <1>3, <2>1 DEF Owned

\* Until Init each process has its own document, and then has been sent it.
LEMMA DocumentsStep ==
    ASSUME ConfigureAssumption, Typed, ThreadShape, PrepShape, DocShape, [Next]_vars
    PROVE  DocShape'
<1>1. Listed \in SUBSET All /\ sent \in [All -> Docs]
  BY ListTyped DEF Typed, TypeOK
<1>2. CASE Boot
  BY <1>2 DEF Boot, DocShape, Configured
<1>3. CASE Prepare
  <2>1. ~(phase' \in {"record", "init", "archive", "saved"}) /\ ~Configured'
    BY <1>3, PrepareFrame DEF ThreadShape, Configured
  <2>2. prepared' => Owned(doc)'
    <3>1. CASE PrepBook
      BY <3>1, BookOwns
    <3>2. CASE ~PrepBook
      BY <1>3, <3>2 DEF Prepare, PrepObtain, PrepBreaks, PrepRead, PrepWrite, PrepAllRead,
                        PrepReformat, PrepWriteBack, PrepAllBack, PrepCount, PrepBookBreaks,
                        PrepFails, PrepStep, ThreadShape
    <3> QED
      BY <3>1, <3>2
  <2> QED
    BY <2>1, <2>2 DEF DocShape
<1>4. CASE ~Boot /\ ~Prepare
  <2>1. prepared' = prepared /\ Listed' \subseteq Listed
    <3>1. procinfos' = <<>> => Listed' = {}
      BY EmptiedTyped
    <3> QED
      BY <1>4, <3>1, OutsidePrepare DEF Listed
  <2>2. CASE PrepareAll \/ CheckReverts
    <3>1. Owned(doc)'
      BY <1>1, <2>2, SequentialOwns DEF PrepareAll, CheckReverts, Revert, Listed
    <3> QED
      BY <2>1, <2>2, <3>1 DEF PrepareAll, CheckReverts, Revert, DocShape, Configured
  <2>3. CASE InitCommand
    <3>1. /\ doc' = doc /\ Listed' = Listed /\ phase = "init" /\ phase' = "archive"
          /\ \A p \in Listed : sent'[p] = doc[p]
      BY <1>1, <2>3 DEF InitCommand, Listed
    <3>2. Owned(doc) /\ Owned(doc)'
      BY <3>1, OwnedKept DEF DocShape
    <3>3. Owned(sent)'
      BY <3>1, <3>2 DEF Owned
    <3> QED
      BY <3>1, <3>2, <3>3 DEF DocShape
  <2>4. CASE Join
    BY <2>1, <2>4, DocumentsKept DEF Join, Configured, history
  <2>5. CASE BootDone \/ BootFails \/ Terminate \/ StopRun \/ \E c \in Configs : Config(c)
    BY <2>1, <2>5, DocumentsKept DEF BootDone, BootFails, Terminate, StopRun, Config, Recover,
                                     Configured, history
  <2>6. CASE \/ \E r \in Runs : StartRun(r) \/ StartFails(r)
             \/ \E i \in 1..Len(procinfos) : Lose(i)
    BY <2>1, <2>6, DocumentsKept DEF StartRun, StartFails, Lose, Recover, Configured, history, runner
  <2>7. CASE PrepareReverts \/ PrepareRecovers \/ InitFails \/ StartSave
    BY <2>1, <2>7, DocumentsKept DEF PrepareReverts, PrepareRecovers, InitFails, StartSave, Recover,
                                     Revert, Configured, history
  <2>8. CASE Archive \/ JoinRecord
    BY <2>1, <2>8, DocumentsKept DEF Archive, JoinRecord, Recover, Configured, history
  <2>9. CASE SaveRecord
    <3>1. UNCHANGED <<doc, sent, phase>> /\ state' \in {state, "stopped"}
      BY <2>9 DEF SaveRecord, SaveMake, SaveDocs, SaveBoot, SaveOpen, SaveDone, SaveBreaks,
                  SaveRecovers, SaveStep, runner, history
    <3> QED
      BY <2>1, <3>1, DocumentsKept DEF Configured
  <2>10. CASE UNCHANGED vars
    BY <2>1, <2>10, DocumentsKept DEF vars, runner, history, Configured
  <2> QED
    BY <1>4, <2>2, <2>3, <2>4, <2>5, <2>6, <2>7, <2>8, <2>9, <2>10 DEF Next, Transition
<1> QED
  BY <1>2, <1>3, <1>4

-----------------------------------------------------------------------------
(* The records *)

\* The steps that write no document and no record.
LEMMA RecordKept ==
    ASSUME RecordShape, Listed' \subseteq Listed, doc' = doc,
           tmp' = tmp, save' = save, records' = records,
           phase' \in {"init", "archive", "saved"} \/ Configured' =>
               phase \in {"init", "archive", "saved"} \/ Configured,
           phase' = "saved" \/ Configured' => phase = "saved" \/ Configured \/ tmp.boot
    PROVE  RecordShape'
BY DEF RecordShape

\* The record in the temporary directory is what the processes are sent, and is not
\* copied half done.
LEMMA RecordStep ==
    ASSUME ConfigureAssumption, Typed, ThreadShape, DocShape, RecordShape, [Next]_vars
    PROVE  RecordShape'
<1>1. /\ Listed \in SUBSET All /\ tmp \in Records /\ records \in [Runs -> Records]
      /\ doc \in [All -> Docs]
  BY ListTyped DEF Typed, TypeOK
<1>2. CASE Boot
  BY <1>2 DEF Boot, RecordShape, Configured, files
<1>3. CASE Prepare
  BY <1>3, PrepareFrame DEF ThreadShape, RecordShape, Configured
<1>4. CASE ~Boot /\ ~Prepare
  <2>1. Listed' \subseteq Listed
    <3>1. procinfos' = <<>> => Listed' = {}
      BY EmptiedTyped
    <3> QED
      BY <1>4, <3>1, OutsidePrepare DEF Listed
  <2>2. CASE PrepareAll \/ CheckReverts
    BY <2>2 DEF PrepareAll, CheckReverts, Revert, RecordShape, Configured, NoRecord, threads, files
  <2>3. CASE StartSave
    BY <2>3 DEF StartSave, RecordShape, Configured, NoRecord
  <2>4. CASE SaveRecord
    <3>1. UNCHANGED <<doc, records, phase>> /\ state' \in {state, "stopped"}
      BY <2>4 DEF SaveRecord, SaveMake, SaveDocs, SaveBoot, SaveOpen, SaveDone, SaveBreaks,
                  SaveRecovers, SaveStep, runner, history
    <3>2. CASE SaveMake
      BY <1>1, <2>1, <3>1, <3>2 DEF SaveMake, SaveStep, RecordShape, Records, Configured
    <3>3. CASE SaveDocs
      <4>1. /\ save' = "boot" /\ \A p \in Listed : tmp'.docs[p] = doc[p]
            /\ tmp'.meta = tmp.meta /\ tmp'.boot = tmp.boot /\ save = "docs"
        BY <1>1, <3>3 DEF SaveDocs, SaveStep, Records
      <4> QED
        BY <2>1, <3>1, <4>1 DEF RecordShape, Configured
    <3>4. CASE SaveBoot
      BY <1>1, <2>1, <3>1, <3>4 DEF SaveBoot, SaveStep, RecordShape, Records, Configured
    <3>5. CASE SaveOpen
      BY <1>1, <2>1, <3>1, <3>5 DEF SaveOpen, SaveStep, RecordShape, Records, Configured
    <3>6. CASE SaveDone
      BY <1>1, <2>1, <3>1, <3>6 DEF SaveDone, SaveStep, RecordShape, Records, Configured
    <3>7. CASE SaveBreaks
      BY <1>1, <2>1, <3>1, <3>7 DEF SaveBreaks, SaveStep, Torn, RecordShape, Records, Configured
    <3>8. CASE SaveRecovers
      BY <1>1, <2>1, <3>1, <3>8 DEF SaveRecovers, SaveStep, Torn, RecordShape, Records, Configured
    <3> QED
      BY <2>4, <3>2, <3>3, <3>4, <3>5, <3>6, <3>7, <3>8 DEF SaveRecord
  <2>5. CASE \E r \in Runs : StartRun(r) \/ StartFails(r)
    <3>1. PICK r \in Runs : StartRun(r) \/ StartFails(r)
      BY <2>5
    <3>2. Configured /\ tmp.meta # "open" /\ tmp.boot
      BY <3>1 DEF StartRun, StartFails, Configured, ThreadShape, RecordShape
    <3>3. records' = records \/ records' = [records EXCEPT ![r] = tmp]
      BY <3>1 DEF StartRun, StartFails
    <3>4. \A q \in Runs : records'[q].meta # "open"
      BY <1>1, <3>2, <3>3 DEF RecordShape
    <3>5. UNCHANGED <<doc, tmp, save>>
      BY <3>1 DEF StartRun, StartFails, threads
    <3> QED
      BY <2>1, <3>1, <3>2, <3>4, <3>5 DEF StartRun, StartFails, Recover, RecordShape, Configured
  <2>6. CASE Join \/ InitCommand \/ Archive \/ JoinRecord
    BY <2>1, <2>6, RecordKept DEF Join, InitCommand, Archive, JoinRecord, Recover, Configured,
                                  threads, files
  <2>7. CASE BootDone \/ BootFails \/ Terminate \/ StopRun \/ \E c \in Configs : Config(c)
    BY <2>1, <2>7, RecordKept DEF BootDone, BootFails, Terminate, StopRun, Config, Recover,
                                  Configured, threads, files
  <2>8. CASE \/ PrepareReverts \/ PrepareRecovers \/ InitFails
             \/ \E i \in 1..Len(procinfos) : Lose(i)
    BY <2>1, <2>8, RecordKept DEF PrepareReverts, PrepareRecovers, InitFails, Lose, Recover, Revert,
                                  Configured, threads, files, runner
  <2>9. CASE UNCHANGED vars
    BY <2>1, <2>9, RecordKept DEF vars, runner, threads, files, Configured
  <2> QED
    BY <1>4, <2>2, <2>3, <2>4, <2>5, <2>6, <2>7, <2>8, <2>9 DEF Next, Transition
<1> QED
  BY <1>2, <1>3, <1>4

\* Only a start writes a record or takes data.
LEMMA OtherSteps ==
    ASSUME [Next]_vars, ~\E r \in Runs : StartRun(r) \/ StartFails(r)
    PROVE  UNCHANGED <<records, taken>>
<1> USE DEF files, history
<1>1. CASE Boot \/ BootDone \/ BootFails \/ Terminate \/ StopRun \/ \E c \in Configs : Config(c)
  BY <1>1 DEF Boot, BootDone, BootFails, Terminate, StopRun, Config
<1>2. CASE \E i \in 1..Len(procinfos) : Lose(i)
  BY <1>2 DEF Lose
<1>3. CASE Transition
  BY <1>3 DEF Transition, BootDone, BootFails, Join, PrepareAll, PrepareReverts, PrepareRecovers,
              CheckReverts, StartSave, InitCommand, InitFails, Archive, JoinRecord
<1>4. CASE Prepare
  BY <1>4, PrepareFrame
<1>5. CASE SaveRecord
  BY <1>5 DEF SaveRecord, SaveMake, SaveDocs, SaveBoot, SaveOpen, SaveDone, SaveBreaks,
              SaveRecovers, SaveStep
<1>6. CASE UNCHANGED vars
  BY <1>6 DEF vars
<1> QED
  BY <1>1, <1>2, <1>3, <1>4, <1>5, <1>6 DEF Next

\* A run is started with what its record holds, under a number that has no record.
LEMMA MatchesStep ==
    ASSUME ConfigureAssumption, Typed, ThreadShape, DocShape, RecordShape, RecordMatches,
           [Next]_vars
    PROVE  RecordMatches'
<1>1. /\ Listed \in SUBSET All /\ records \in [Runs -> Records]
      /\ taken \in [Runs -> [All -> Docs]] /\ sent \in [All -> Docs]
  BY ListTyped DEF Typed, TypeOK
<1>2. ASSUME NEW r \in Runs, StartRun(r)
      PROVE  RecordMatches'
  <2>1. CASE records[r].there \/ ~tmp.there
    BY <1>2, <2>1 DEF StartRun, RecordMatches
  <2>2. CASE ~(records[r].there \/ ~tmp.there)
    <3>1. /\ records' = [records EXCEPT ![r] = tmp] /\ Configured
          /\ taken' = [taken EXCEPT ![r] = [p \in All |-> IF p \in Listed THEN sent[p] ELSE Blank]]
      BY <1>2, <2>2 DEF StartRun, Configured
    <3>2. \A p \in Listed : sent[p] = doc[p] /\ tmp.docs[p] = doc[p]
      BY <3>1 DEF DocShape, RecordShape
    <3>3. /\ records'[r] = tmp /\ tmp.there
          /\ \A p \in All : taken'[r][p] # Blank => p \in Listed /\ taken'[r][p] = sent[p]
      BY <1>1, <2>2, <3>1
    <3>4. \A q \in Runs \ {r} : records'[q] = records[q] /\ taken'[q] = taken[q]
      BY <1>1, <3>1
    <3> QED
      BY <3>2, <3>3, <3>4 DEF RecordMatches
  <2> QED
    BY <2>1, <2>2
<1>3. ASSUME NEW r \in Runs, StartFails(r)
      PROVE  RecordMatches'
  <2>1. /\ records' = [records EXCEPT ![r] = tmp] /\ taken' = taken /\ taken[r] = NoDocs
    BY <1>3 DEF StartFails, RecordMatches, history
  <2>2. \A q \in Runs \ {r} : records'[q] = records[q]
    BY <1>1, <2>1
  <2> QED
    BY <2>1, <2>2 DEF RecordMatches
<1>4. CASE ~\E r \in Runs : StartRun(r) \/ StartFails(r)
  BY <1>4, OtherSteps DEF RecordMatches
<1> QED
  BY <1>2, <1>3, <1>4

-----------------------------------------------------------------------------
(* The theorems *)

LEMMA InvInit == ASSUME ConfigureAssumption, Init PROVE Inv
<1>1. Typed
  BY TypedInit
<1>2. ThreadShape /\ PrepShape
  BY DEF Init, PrepOff, ThreadShape, PrepShape
<1>3. DocShape
  BY DEF Init, DocShape, Configured
<1>4. RecordShape
  BY DEF Init, RecordShape, Configured, NoRecord
<1>5. RecordMatches
  BY DEF Init, RecordMatches
<1> QED
  BY <1>1, <1>2, <1>3, <1>4, <1>5 DEF Inv

LEMMA InvStep == ASSUME ConfigureAssumption, Inv, [Next]_vars PROVE Inv'
<1> USE DEF Inv
<1>1. Typed'
  BY TypedStep
<1>2. ThreadShape'
  BY ThreadsStep
<1>3. PrepShape'
  <2>1. CASE Boot
    BY <2>1 DEF Boot, PrepOff, PrepShape
  <2>2. CASE Prepare
    BY <2>2, Preparing
  <2> QED
    BY <2>1, <2>2, LossWhilePreparing
<1>4. DocShape'
  BY DocumentsStep
<1>5. RecordShape' /\ RecordMatches'
  BY RecordStep, MatchesStep
<1> QED
  BY <1>1, <1>2, <1>3, <1>4, <1>5

\* The inductive invariant: the threads, the indexes, the documents and the record.
THEOREM ConfigureInvariant == Spec => []Inv
<1> USE ConfigureAssumption
<1>1. Init => Inv
  BY InvInit
<1>2. Inv /\ [Next]_vars => Inv'
  BY InvStep
<1> QED
  BY <1>1, <1>2, PTL DEF Spec

\* Every variable keeps its type; above all, the indexes of _do_config_prepare are never
\* more than one beyond what the boot file lists.
THEOREM ConfigureTypeCorrect == Spec => []TypeOK
<1>1. Inv => TypeOK
  BY DEF Inv, Typed
<1> QED
  BY <1>1, ConfigureInvariant, PTL

\* Once configured, every process has been sent a document made of its own file, by
\* whichever thread, and whatever has been lost while it was made.
THEOREM EachItsOwn == Spec => []OwnDocuments
<1>1. Inv => OwnDocuments
  BY DEF Inv, DocShape, Owned, OwnDocuments
<1> QED
  BY <1>1, ConfigureInvariant, PTL

\* What was saved for a run that has taken data is what its processes were sent.
THEOREM RecordTrue == Spec => []RecordMatches
<1>1. Inv => RecordMatches
  BY DEF Inv
<1> QED
  BY <1>1, ConfigureInvariant, PTL

\* No record is copied for a run while save_run_record is still writing it.
THEOREM RecordFinished == Spec => []RecordIsFinished
<1>1. Inv => RecordIsFinished
  <2>1. ThreadShape /\ Configured => save = "off"
    BY DEF ThreadShape, Configured
  <2> QED
    BY <2>1 DEF Inv, RecordShape, RecordIsFinished
<1> QED
  BY <1>1, ConfigureInvariant, PTL

\* No step changes the record of a run, also not the start that fails after the copy.
THEOREM NeverOverwritten == Spec => RecordsKept
<1>1. Typed /\ [Next]_vars => [\A r \in Runs : records[r].there => records'[r] = records[r]]_vars
  <2> SUFFICES ASSUME Typed, Next, NEW q \in Runs, records[q].there
               PROVE  records'[q] = records[q]
    OBVIOUS
  <2>1. records \in [Runs -> Records]
    BY DEF Typed, TypeOK
  <2>2. CASE \E r \in Runs : StartRun(r) \/ StartFails(r)
    BY <2>1, <2>2 DEF StartRun, StartFails
  <2>3. CASE ~\E r \in Runs : StartRun(r) \/ StartFails(r)
    BY <2>3, OtherSteps
  <2> QED
    BY <2>2, <2>3
<1>2. Inv => Typed
  BY DEF Inv
<1> QED
  BY <1>1, <1>2, ConfigureInvariant, PTL DEF Spec, RecordsKept

-----------------------------------------------------------------------------
(* Every thread comes to its end *)

\* How far do_config, _do_config_prepare and save_run_record have come.
PhaseOf == [wait |-> 1, join |-> 1, prepare |-> 2, record |-> 3, init |-> 4, archive |-> 5,
            saved |-> 6, idle |-> 7]
PrepOf == [obtain |-> 1, read |-> 2, write |-> 2, reformat |-> 3, back |-> 4, count |-> 5,
           book |-> 6, off |-> 7]
SaveOf == [make |-> 1, docs |-> 2, boot |-> 3, open |-> 4, write |-> 5, off |-> 6]

\* What the loops of _do_config_prepare have still to do: to read and to write back.
IndexesLeft == 2 * (Len(Labels) + 1 - prep.i) + (IF prep.pc = "read" THEN 1 ELSE 0)

Emptied == state = "stopped" /\ procinfos = <<>>

RunnerOn == PhaseOf[phase'] > PhaseOf[phase]
PrepOn ==
    \/ PrepOf[prep'.pc] > PrepOf[prep.pc]
    \/ /\ PrepOf[prep'.pc] = PrepOf[prep.pc]
       /\ IndexesLeft \in Nat /\ IndexesLeft' \in Nat /\ IndexesLeft' < IndexesLeft
SaveOn ==
    \/ SaveOf[save'] > SaveOf[save]
    \/ save' = save /\ ~Emptied /\ Emptied'

\* Each of the three goes on by its own steps, and no other sets it back.
ThreadsGetOn ==
    /\ Transition => RunnerOn
    /\ Prepare => PrepOn
    /\ SaveRecord => SaveOn
    /\ phase # "idle" /\ ~Transition => phase' = phase
    /\ prep.pc # "off" /\ ~Prepare => prep' = prep
    /\ save # "off" /\ ~SaveRecord => save' = save /\ (Emptied => Emptied')

\* The runner, within a transition.
LEMMA TransitionGoesOn ==
    ASSUME Transition
    PROVE  RunnerOn
<1> USE DEF Recover, Revert
<1>1. \/ phase # "idle" /\ phase' = "idle" /\ phase \in DOMAIN PhaseOf
      \/ phase = "join" /\ phase' \in {"prepare", "record"}
      \/ phase = "prepare" /\ phase' = "record"
      \/ phase = "record" /\ phase' = "init"
      \/ phase = "init" /\ phase' = "archive"
      \/ phase = "archive" /\ phase' = "saved"
  BY DEF Transition, BootDone, BootFails, Join, PrepareAll, PrepareReverts, PrepareRecovers,
         CheckReverts, StartSave, InitCommand, InitFails, Archive, JoinRecord, PhaseOf
<1> QED
  BY <1>1 DEF RunnerOn, PhaseOf

\* The thread that prepares: its loops go from one index to the next, also while the list
\* becomes shorter, and an exception ends it.
LEMMA PreparationGoesOn ==
    ASSUME ConfigureAssumption, Typed, Typed', Prepare
    PROVE  PrepOn
<1>1. /\ prep \in Threads /\ Len(Labels) \in Nat
      /\ prep.i \in 1..(Len(Labels) + 1) /\ prep'.i \in 1..(Len(Labels) + 1)
  BY LabelsTyped DEF Typed, TypeOK, PrepTyped
<1>2. IndexesLeft \in Nat /\ IndexesLeft' \in Nat
  BY <1>1 DEF IndexesLeft
<1>3. ASSUME prep' = PrepOff PROVE prep'.pc = "off"
  BY <1>3 DEF PrepOff
<1>4. CASE PrepObtain \/ PrepAllRead \/ PrepReformat \/ PrepAllBack \/ PrepCount
  <2>1. \/ prep.pc = "obtain" /\ prep'.pc = "read"
        \/ prep.pc = "read" /\ prep'.pc = "reformat"
        \/ prep.pc = "reformat" /\ prep'.pc = "back"
        \/ prep.pc = "back" /\ prep'.pc = "count"
        \/ prep.pc = "count" /\ prep'.pc = "book"
    BY <1>1, <1>4 DEF PrepObtain, PrepAllRead, PrepReformat, PrepAllBack, PrepCount, PrepStep,
                      Threads
  <2> QED
    BY <2>1 DEF PrepOn, PrepOf
<1>5. ASSUME prep' = PrepOff, prep.pc \in {"read", "write", "reformat", "back", "count", "book"}
      PROVE  PrepOn
  BY <1>3, <1>5 DEF PrepOn, PrepOf
<1>6. CASE PrepBreaks \/ PrepBookBreaks \/ PrepBook
  BY <1>5, <1>6 DEF PrepBreaks, PrepBookBreaks, PrepBook, PrepFails, PrepStep
<1>7. CASE PrepRead
  <2>1. CASE Beyond
    BY <1>5, <1>7, <2>1 DEF PrepRead, PrepFails, PrepStep
  <2>2. CASE ~Beyond
    <3>1. prep.pc = "read" /\ prep'.pc = "write" /\ prep'.i = prep.i
      BY <1>1, <1>7, <2>2 DEF PrepRead, PrepStep, Threads
    <3>2. IndexesLeft' < IndexesLeft
      BY <1>1, <3>1 DEF IndexesLeft
    <3> QED
      BY <1>2, <3>1, <3>2 DEF PrepOn, PrepOf
  <2> QED
    BY <2>1, <2>2
<1>8. CASE PrepWrite
  <2>1. CASE Beyond
    BY <1>5, <1>8, <2>1 DEF PrepWrite, PrepFails, PrepStep
  <2>2. CASE ~Beyond
    <3>1. prep.pc = "write" /\ prep'.pc = "read" /\ prep'.i = prep.i + 1
      BY <1>1, <1>8, <2>2 DEF PrepWrite, PrepStep, Threads
    <3>2. IndexesLeft' < IndexesLeft
      BY <1>1, <3>1 DEF IndexesLeft
    <3> QED
      BY <1>2, <3>1, <3>2 DEF PrepOn, PrepOf
  <2> QED
    BY <2>1, <2>2
<1>9. CASE PrepWriteBack
  <2>1. CASE Beyond
    BY <1>5, <1>9, <2>1 DEF PrepWriteBack, PrepFails, PrepStep
  <2>2. CASE ~Beyond
    <3>1. prep.pc = "back" /\ prep'.pc = "back" /\ prep'.i = prep.i + 1
      BY <1>1, <1>9, <2>2 DEF PrepWriteBack, PrepStep, Threads
    <3>2. IndexesLeft' < IndexesLeft
      BY <1>1, <3>1 DEF IndexesLeft
    <3> QED
      BY <1>2, <3>1, <3>2 DEF PrepOn, PrepOf
  <2> QED
    BY <2>1, <2>2
<1> QED
  BY <1>4, <1>6, <1>7, <1>8, <1>9 DEF Prepare

\* The thread that saves.  Where a file cannot be copied it empties the list and goes on,
\* which it does to any effect only once.
LEMMA SavingGoesOn ==
    ASSUME Typed, SaveRecord, vars' # vars
    PROVE  SaveOn
<1>1. save \in {"off", "make", "docs", "boot", "open", "write"}
  BY DEF Typed, TypeOK
<1>2. CASE \/ save = "make" /\ save' \in {"docs", "off"}
           \/ save = "docs" /\ save' = "boot"
           \/ save = "boot" /\ save' = "open"
           \/ save = "open" /\ save' = "write"
           \/ save # "off" /\ save' = "off"
  BY <1>1, <1>2 DEF SaveOn, SaveOf
<1>3. CASE SaveMake \/ SaveDocs \/ SaveBoot \/ SaveOpen \/ SaveDone \/ SaveBreaks
  BY <1>2, <1>3 DEF SaveMake, SaveDocs, SaveBoot, SaveOpen, SaveDone, SaveBreaks, SaveStep
<1>4. CASE SaveRecovers
  <2>1. CASE save = "open"
    <3>1. save' = save /\ Emptied'
      BY <1>4, <2>1 DEF SaveRecovers, SaveStep, Emptied
    <3>2. ~Emptied
      BY <1>4, <2>1, <3>1 DEF SaveRecovers, SaveStep, Emptied, vars, runner, threads, files, history
    <3> QED
      BY <3>1, <3>2 DEF SaveOn
  <2>2. CASE save # "open"
    BY <1>2, <1>4, <2>2 DEF SaveRecovers, SaveStep
  <2> QED
    BY <2>1, <2>2
<1> QED
  BY <1>3, <1>4 DEF SaveRecord

\* Outside of its own steps the thread that saves stays where it is, and a list that it
\* has emptied stays empty.
LEMMA OutsideSaving ==
    ASSUME ThreadShape, Next, ~SaveRecord, save # "off"
    PROVE  save' = save /\ (Emptied => Emptied')
<1> USE DEF ThreadShape, Emptied, threads, files, history
<1>1. CASE Boot \/ Terminate \/ StopRun
  BY <1>1 DEF Boot, Terminate, StopRun, Recover
<1>2. CASE \/ \E c \in Configs : Config(c)
           \/ \E r \in Runs : StartRun(r) \/ StartFails(r)
           \/ \E i \in 1..Len(procinfos) : Lose(i)
  BY <1>2 DEF Config, StartRun, StartFails, Lose, Recover, runner
<1>3. CASE BootDone \/ BootFails \/ Join \/ PrepareAll \/ PrepareReverts \/ PrepareRecovers
           \/ CheckReverts \/ StartSave
  BY <1>3 DEF BootDone, BootFails, Join, PrepareAll, PrepareReverts, PrepareRecovers,
              CheckReverts, StartSave
<1>4. CASE InitCommand \/ InitFails \/ Archive \/ JoinRecord
  BY <1>4 DEF InitCommand, InitFails, Archive, JoinRecord, Recover
<1>5. CASE Prepare
  BY <1>5, PrepareFrame
<1> QED
  BY <1>1, <1>2, <1>3, <1>4, <1>5 DEF Next, Transition

\* Outside of its own steps a transition that the runner has begun stays where it is.
LEMMA OutsideTransition ==
    ASSUME Next, ~Transition, phase # "idle"
    PROVE  phase' = phase
<1>1. CASE \/ Boot \/ Terminate \/ StopRun \/ \E c \in Configs : Config(c)
           \/ \E r \in Runs : StartRun(r) \/ StartFails(r)
           \/ \E i \in 1..Len(procinfos) : Lose(i)
  BY <1>1 DEF Boot, Terminate, StopRun, Config, StartRun, StartFails, Lose
<1>2. CASE Prepare
  BY <1>2, PrepareFrame
<1>3. CASE SaveRecord
  BY <1>3 DEF SaveRecord, SaveMake, SaveDocs, SaveBoot, SaveOpen, SaveDone, SaveBreaks,
              SaveRecovers, runner
<1> QED
  BY <1>1, <1>2, <1>3 DEF Next

\* A transition, a preparation and a saving of the record that have begun take boundedly
\* many steps each, for every list of processes, although they share it: the loops of the
\* preparation go by an index, and whoever shortens the list under it sets no index back.
THEOREM EachThreadEnds == Spec => [][ThreadsGetOn]_vars
<1>1. ASSUME Inv, Inv', Next, vars' # vars PROVE ThreadsGetOn
  <2>1. ConfigureAssumption /\ Typed /\ Typed' /\ ThreadShape
    BY <1>1, ConfigureAssumption DEF Inv
  <2>2. Transition => RunnerOn
    BY TransitionGoesOn
  <2>3. Prepare => PrepOn
    BY <2>1, PreparationGoesOn
  <2>4. SaveRecord => SaveOn
    BY <1>1, <2>1, SavingGoesOn
  <2>5. phase # "idle" /\ ~Transition => phase' = phase
    BY <1>1, OutsideTransition
  <2>6. prep.pc # "off" /\ ~Prepare => prep' = prep
    BY <1>1, <2>1, OutsidePrepare DEF Boot
  <2>7. save # "off" /\ ~SaveRecord => save' = save /\ (Emptied => Emptied')
    BY <1>1, <2>1, OutsideSaving
  <2> QED
    BY <2>2, <2>3, <2>4, <2>5, <2>6, <2>7 DEF ThreadsGetOn
<1>2. Inv /\ Inv' /\ [Next]_vars => [ThreadsGetOn]_vars
  BY <1>1
<1> QED
  BY <1>2, ConfigureInvariant, PTL DEF Spec

=============================================================================
