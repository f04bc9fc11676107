---------------------------- MODULE CronSchedule ----------------------------
(***************************************************************************)
(* The periodic schedule of rfcMgr in the RDKB build: at the end of a run  *)
(* getCronFromDCMSettings reads the schedule DCM published (and keeps a    *)
(* copy that survives a reboot), and manageCronJob moves it back by three  *)
(* minutes and replaces rfcMgr's line in the crontab of the device, which  *)
(* other services edit too.                                                *)
(***************************************************************************)
EXTENDS Integers, Sequences

CONSTANTS
  Procs,      \* rfcMgr processes
  Schedules,  \* five-field schedules DCM may publish
  Entries,    \* crontab lines of other services
  Complaint,  \* what "crontab -l" prints, on stderr, when there is no crontab
  NoFile,     \* the file does not exist
  NoLine,     \* the file has no line CheckSchedule:cron
  NoValue,    \* the line ends after "="
  TooShort,   \* the line has a value of fewer than five fields
  MaxEvents   \* bound on publications, edits, overlaps, failures, deaths, boots

Lines == Schedules \cup {TooShort, NoValue}

(***************************************************************************)
(* A field of a schedule is "*" or a text.  num is the number std::stoi    *)
(* finds at its start, if ok; only: the text is nothing but that number    *)
(* (5 and not 5,35 or 1-5).  day stands for the three day fields, which    *)
(* manageCronJob treats alike.                                             *)
(***************************************************************************)

Field == [any : BOOLEAN, ok : BOOLEAN, only : BOOLEAN, num : Nat]

Schedule == [minute : Field, hour : Field, day : Field]

ASSUME ScheduleAssumption ==
  /\ Schedules \subseteq Schedule
  /\ NoFile \notin Lines /\ NoLine \notin Lines /\ NoFile # NoLine
  /\ NoValue \notin Schedules /\ TooShort \notin Schedules
  /\ NoValue # TooShort
  /\ Complaint \notin Entries
  /\ MaxEvents \in Nat

Number(n) == [any |-> FALSE, ok |-> TRUE, only |-> TRUE, num |-> n]

\* std::stoi throws on one of the fields: all values go back to the defaults.
Invalid(s) == \E f \in {"minute", "hour", "day"} : ~s[f].any /\ ~s[f].ok

\* cronValues: the defaults of minute, hour and day of the week are 0.
Value(s, f) == IF s[f].any \/ Invalid(s) THEN 0 ELSE s[f].num

\* The minute lies in the hour before.
Borrows(s) == Value(s, "minute") <= 2

\* Variant of AdjustedMinute: a minute of 3 borrows from the hour too.
AdjustedMinuteLate(s) ==
  IF Value(s, "minute") <= 3 THEN Value(s, "minute") + 57
                             ELSE Value(s, "minute") - 3

\* Variant of AdjustedMinute: nothing is borrowed from the hour.
AdjustedMinuteNegative(s) == Value(s, "minute") - 3

AdjustedMinute(s) ==
  IF Borrows(s) THEN Value(s, "minute") + 57 ELSE Value(s, "minute") - 3

AdjustedHour(s) ==
  IF ~Borrows(s) THEN Value(s, "hour")
  ELSE IF Value(s, "hour") = 0 THEN 23 ELSE Value(s, "hour") - 1

\* The text of the new entry: "*" stays, everything else becomes a number.
Adjusted(s) ==
  [minute |-> IF s.minute.any THEN s.minute ELSE Number(AdjustedMinute(s)),
   hour   |-> IF s.hour.any THEN s.hour ELSE Number(AdjustedHour(s)),
   day    |-> IF s.day.any THEN s.day ELSE Number(Value(s, "day"))]

(***************************************************************************)
(* State.  A crontab holds the rfcMgr (or RFCbase.sh) lines and the lines  *)
(* of others.                                                              *)
(***************************************************************************)

Tab == [rfc : Seq(Schedule), others : SUBSET (Entries \cup {Complaint})]

ASSUME NoFileAssumption == NoFile \notin Tab

Empty == [rfc |-> <<>>, others |-> {}]

VARIABLES
  dcm,       \* /tmp/DCMSettings.conf
  copy,      \* /nvram/tmpDCMSettings.conf
  crontab,   \* /var/spool/cron/crontabs
  tmp,       \* /tmp/cron_tab_tmp_file
  pc, cron,  \* next step of each process, and cronConfig
  events,
  latest,    \* history: the schedule a run last found in DCM's file
  saved,     \* history: the last one of these whose copy could be opened
  wanted,    \* history: the lines the other services have in the crontab
  clean,     \* history: processes that ran alone, with no failing crontab call
  disturbed  \* history: two runs, a failure or an edit got in the way

vars == <<dcm, copy, crontab, tmp, pc, cron, events, latest, saved, wanted,
          clean, disturbed>>

Steps == {"off", "read", "save", "export", "sed", "append", "apply", "unlink"}

Init ==
  /\ dcm \in {NoFile, NoLine} \cup Lines
  /\ copy = NoFile
  /\ crontab \in {NoFile, Empty}
  /\ tmp = NoFile
  /\ pc = [p \in Procs |-> "off"]
  /\ cron = [p \in Procs |-> NoValue]
  /\ events = 0
  /\ latest = NoValue
  /\ saved = NoValue
  /\ wanted = {}
  /\ clean = {}
  /\ disturbed = FALSE

Running == {p \in Procs : pc[p] # "off"}

\* The crontab was exported and not yet replaced.
Replacing == {p \in Procs : pc[p] \in {"sed", "append", "apply"}}

Goto(p, step) == pc' = [pc EXCEPT ![p] = step]

\* What gets in the way of the runs in progress.
Disturb(procs) ==
  /\ clean' = clean \ procs
  /\ disturbed' = (disturbed \/ procs # {})

Event ==
  /\ events < MaxEvents
  /\ events' = events + 1

(***************************************************************************)
(* getCronFromDCMSettings                                                  *)
(***************************************************************************)

\* The request is over; the process turns to the schedule.
Start(p) ==
  /\ Running = {}
  /\ Goto(p, "read")
  /\ clean' = clean \cup {p}
  /\ UNCHANGED <<dcm, copy, crontab, tmp, cron, events, latest, saved, wanted,
                 disturbed>>

\* The same beside another process that runs (see RfcService).
StartBeside(p) ==
  /\ pc[p] = "off"
  /\ Running # {}
  /\ Event
  /\ Goto(p, "read")
  /\ Disturb(Running \cup {p})
  /\ UNCHANGED <<dcm, copy, crontab, tmp, cron, latest, saved, wanted>>

\* manageCronJob refuses everything with fewer than five fields.
Accepts(v) == v \in Schedules

\* Variant of FoundInDcm: an existing copy is kept.
FoundInDcmOnce(p) ==
  /\ pc[p] = "read"
  /\ dcm \in Lines
  /\ cron' = [cron EXCEPT ![p] = dcm]
  /\ latest' = IF dcm \in Schedules THEN dcm ELSE latest
  /\ saved' = latest'
  /\ copy' = IF copy = NoFile THEN NoLine ELSE copy
  /\ Goto(p, IF copy = NoFile THEN "save"
             ELSE IF Accepts(dcm) THEN "export" ELSE "off")
  /\ UNCHANGED <<dcm, crontab, tmp, events, wanted, clean, disturbed>>

\* A line of DCM's file, with or without a value, is copied to /nvram: the
\* copy is truncated when it is opened.
FoundInDcm(p) ==
  /\ pc[p] = "read"
  /\ dcm \in Lines
  /\ cron' = [cron EXCEPT ![p] = dcm]
  /\ latest' = IF dcm \in Schedules THEN dcm ELSE latest
  /\ saved' = latest'
  /\ copy' = NoLine
  /\ Goto(p, "save")
  /\ UNCHANGED <<dcm, crontab, tmp, events, wanted, clean, disturbed>>

SaveCopy(p) ==
  /\ pc[p] = "save"
  /\ copy' = cron[p]
  /\ Goto(p, IF Accepts(cron[p]) THEN "export" ELSE "off")
  /\ UNCHANGED <<dcm, crontab, tmp, cron, events, latest, saved, wanted, clean,
                 disturbed>>

\* The copy cannot be opened, which is not logged: the older one stays.
CopyUnopened(p) ==
  /\ pc[p] = "read"
  /\ dcm \in Lines
  /\ Event
  /\ cron' = [cron EXCEPT ![p] = dcm]
  /\ latest' = IF dcm \in Schedules THEN dcm ELSE latest
  /\ Goto(p, IF Accepts(dcm) THEN "export" ELSE "off")
  /\ UNCHANGED <<dcm, copy, crontab, tmp, saved, wanted, clean, disturbed>>

\* The line cannot be written: the copy stays empty.
SaveFails(p) ==
  /\ pc[p] = "save"
  /\ Event
  /\ Goto(p, IF Accepts(cron[p]) THEN "export" ELSE "off")
  /\ UNCHANGED <<dcm, copy, crontab, tmp, cron, latest, saved, wanted, clean,
                 disturbed>>

\* DCM's file is there and has no such line: the copy is not consulted.
NotInDcm(p) ==
  /\ pc[p] = "read"
  /\ dcm = NoLine
  /\ cron' = [cron EXCEPT ![p] = NoValue]
  /\ Goto(p, "off")
  /\ UNCHANGED <<dcm, copy, crontab, tmp, events, latest, saved, wanted, clean,
                 disturbed>>

\* DCM has not written its file since the boot: the copy is used.
FoundInCopy(p) ==
  /\ pc[p] = "read"
  /\ dcm = NoFile
  /\ cron' = [cron EXCEPT ![p] = IF copy \in Lines THEN copy ELSE NoValue]
  /\ Goto(p, IF Accepts(copy) THEN "export" ELSE "off")
  /\ UNCHANGED <<dcm, copy, crontab, tmp, events, latest, saved, wanted, clean,
                 disturbed>>

(***************************************************************************)
(* manageCronJob                                                           *)
(***************************************************************************)

\* "crontab -l 2>&1" into the temporary file; without a crontab its message
\* goes there.
Export(p) ==
  /\ pc[p] = "export"
  /\ tmp' = IF crontab = NoFile THEN [Empty EXCEPT !.others = {Complaint}]
                                ELSE crontab
  /\ Goto(p, "sed")
  /\ UNCHANGED <<dcm, copy, crontab, cron, events, latest, saved, wanted, clean,
                 disturbed>>

\* popen fails: the run goes on with an empty file, or, when that cannot be
\* created either, returns.
ExportFails(p) ==
  /\ pc[p] = "export"
  /\ Event
  /\ \/ tmp' = Empty /\ Goto(p, "sed")
     \/ UNCHANGED tmp /\ Goto(p, "off")
  /\ Disturb({p})
  /\ UNCHANGED <<dcm, copy, crontab, cron, latest, saved, wanted>>

\* Variant of DeleteEntry: nothing is deleted.
DeleteEntryNot(p) ==
  /\ pc[p] = "sed"
  /\ UNCHANGED tmp
  /\ Goto(p, "append")
  /\ UNCHANGED <<dcm, copy, crontab, cron, events, latest, saved, wanted, clean,
                 disturbed>>

\* sed deletes the lines of rfcMgr and RFCbase.sh.
DeleteEntry(p) ==
  /\ pc[p] = "sed"
  /\ tmp' = IF tmp = NoFile THEN tmp ELSE [tmp EXCEPT !.rfc = <<>>]
  /\ Goto(p, "append")
  /\ UNCHANGED <<dcm, copy, crontab, cron, events, latest, saved, wanted, clean,
                 disturbed>>

\* sed cannot rewrite the file, which is logged as "no existing crontab".
DeleteFails(p) ==
  /\ pc[p] = "sed"
  /\ Event
  /\ Goto(p, "append")
  /\ Disturb({p})
  /\ UNCHANGED <<dcm, copy, crontab, tmp, cron, latest, saved, wanted>>

\* Opened for appending, and created if somebody removed it.
AppendEntry(p) ==
  /\ pc[p] = "append"
  /\ tmp' = LET t == IF tmp = NoFile THEN Empty ELSE tmp
            IN  [t EXCEPT !.rfc = Append(@, Adjusted(cron[p]))]
  /\ Goto(p, "apply")
  /\ UNCHANGED <<dcm, copy, crontab, cron, events, latest, saved, wanted, clean,
                 disturbed>>

AppendFails(p) ==
  /\ pc[p] = "append"
  /\ Event
  /\ Goto(p, "unlink")
  /\ Disturb({p})
  /\ UNCHANGED <<dcm, copy, crontab, tmp, cron, latest, saved, wanted>>

\* Variant of Apply: the new entry alone replaces the crontab.
ApplyAlone(p) ==
  /\ pc[p] = "apply"
  /\ crontab' = IF tmp = NoFile THEN crontab ELSE [tmp EXCEPT !.others = {}]
  /\ Goto(p, "unlink")
  /\ UNCHANGED <<dcm, copy, tmp, cron, events, latest, saved, wanted, clean,
                 disturbed>>

\* "crontab file" replaces the whole crontab.
Apply(p) ==
  /\ pc[p] = "apply"
  /\ crontab' = IF tmp = NoFile THEN crontab ELSE tmp
  /\ Goto(p, "unlink")
  /\ UNCHANGED <<dcm, copy, tmp, cron, events, latest, saved, wanted, clean,
                 disturbed>>

ApplyFails(p) ==
  /\ pc[p] = "apply"
  /\ Event
  /\ Goto(p, "unlink")
  /\ Disturb({p})
  /\ UNCHANGED <<dcm, copy, crontab, tmp, cron, latest, saved, wanted>>

Unlink(p) ==
  /\ pc[p] = "unlink"
  /\ tmp' = NoFile
  /\ Goto(p, "off")
  /\ UNCHANGED <<dcm, copy, crontab, cron, events, latest, saved, wanted, clean,
                 disturbed>>

(***************************************************************************)
(* Environment                                                             *)
(***************************************************************************)

\* DCM writes its file.
Publish(v) ==
  /\ Event
  /\ dcm' = v
  /\ UNCHANGED <<copy, crontab, tmp, pc, cron, latest, saved, wanted, clean,
                 disturbed>>

\* Another service adds a line or removes its own.
Edit(lines) ==
  /\ Event
  /\ crontab' = IF crontab = NoFile THEN [Empty EXCEPT !.others = lines]
                ELSE [crontab EXCEPT !.others = (@ \cap {Complaint}) \cup lines]
  /\ wanted' = lines
  /\ Disturb(Replacing)
  /\ UNCHANGED <<dcm, copy, tmp, pc, cron, latest, saved>>

\* A signal ends the process; the temporary file stays.
Die(p) ==
  /\ pc[p] # "off"
  /\ Event
  /\ Goto(p, "off")
  /\ UNCHANGED <<dcm, copy, crontab, tmp, cron, latest, saved, wanted, clean,
                 disturbed>>

\* /tmp is lost.  The crontab is kept, or built anew without rfcMgr's line.
Reboot ==
  /\ Event
  /\ dcm' = NoFile
  /\ tmp' = NoFile
  /\ pc' = [p \in Procs |-> "off"]
  /\ \/ UNCHANGED <<crontab, wanted>>
     \/ crontab' = NoFile /\ wanted' = {}
  /\ UNCHANGED <<copy, cron, latest, saved, clean, disturbed>>

GetCronFromDCMSettings(p) ==
  \/ FoundInDcm(p) \/ CopyUnopened(p)
  \/ SaveCopy(p) \/ SaveFails(p)
  \/ NotInDcm(p) \/ FoundInCopy(p)

ManageCronJob(p) ==
  \/ Export(p) \/ ExportFails(p)
  \/ DeleteEntry(p) \/ DeleteFails(p)
  \/ AppendEntry(p) \/ AppendFails(p)
  \/ Apply(p) \/ ApplyFails(p)
  \/ Unlink(p)

Next ==
  \/ \E p \in Procs :
       \/ Start(p) \/ StartBeside(p)
       \/ GetCronFromDCMSettings(p) \/ ManageCronJob(p) \/ Die(p)
  \/ \E v \in {NoLine} \cup Lines : Publish(v)
  \/ \E lines \in SUBSET Entries : Edit(lines)
  \/ Reboot

Spec == Init /\ [][Next]_vars

(***************************************************************************)
(* Properties.                                                             *)
(***************************************************************************)

\* Every variable keeps its type.
TypeOK ==
  /\ dcm \in {NoFile, NoLine} \cup Lines
  /\ copy \in {NoFile, NoLine} \cup Lines
  /\ crontab \in Tab \cup {NoFile}
  /\ tmp \in Tab \cup {NoFile}
  /\ pc \in [Procs -> Steps]
  /\ cron \in [Procs -> Lines]
  /\ events \in Nat
  /\ latest \in Schedules \cup {NoValue}
  /\ saved \in Schedules \cup {NoValue}
  /\ wanted \subseteq Entries
  /\ clean \subseteq Procs
  /\ disturbed \in BOOLEAN

\* Times of a week, in minutes.
Week == 0 .. 7 * 1440 - 1

\* cron starts the entry at time t.
Fires(s, t) ==
  /\ s.minute.any \/ s.minute.num = t % 60
  /\ s.hour.any \/ s.hour.num = (t \div 60) % 24
  /\ s.day.any \/ s.day.num = t \div 1440

\* Three minutes before t, in the week before when need be.
Earlier(t) == (t + 7 * 1440 - 3) % (7 * 1440)

\* a fires exactly three minutes before each time of s.
MovedBack(a, s) == \A t \in Week : Fires(s, t) <=> Fires(a, Earlier(t))

\* Evaluated once: what becomes of each schedule.
MovesBack == [s \in Schedules |-> MovedBack(Adjusted(s), s)]

\* Every field is "*" or a number in the range of the field.
Plain(s) ==
  /\ s.minute.any \/ (s.minute.ok /\ s.minute.only /\ s.minute.num < 60)
  /\ s.hour.any \/ (s.hour.ok /\ s.hour.only /\ s.hour.num < 24)
  /\ s.day.any \/ (s.day.ok /\ s.day.only /\ s.day.num < 7)

\* Three minutes earlier is the same pattern with another minute and hour: a
\* "*" minute stands beside no restriction, and a start in the first three
\* minutes of an hour neither needs the day before nor every hour of a day.
Movable(s) ==
  /\ s.minute.any => s.hour.any /\ s.day.any
  /\ ~s.minute.any /\ s.minute.num < 3 => s.day.any \/ (~s.hour.any /\ s.hour.num > 0)

\* What manageCronJob writes for a movable schedule fires exactly three
\* minutes before the published one, across the hour, midnight and the end of
\* the week.  Nothing is claimed of the other schedules, which contradict its
\* comment, "adjusts the schedule back by three minutes" (rfc_manager.cpp:597).
ThreeMinutesEarlier ==
  \A p \in Procs :
    pc[p] = "unlink" /\ Plain(cron[p]) /\ Movable(cron[p]) => MovesBack[cron[p]]

\* A run that was alone, saw no failure and no edit between its export and
\* its import leaves exactly one rfcMgr line, that of its own schedule,
\* whatever duplicates, partial temporary files or older entries it found.
EntryReplaced ==
  \A p \in Procs : pc[p] = "unlink" /\ p \in clean =>
    /\ crontab # NoFile
    /\ crontab.rfc = <<Adjusted(cron[p])>>

\* As long as no two runs meet, a run works with the last schedule that any
\* run read from DCM, also when a reboot took DCM's file away or a death or a
\* failing write cut the copy short.  Only after a copy could not be opened may
\* a run without DCM's file go back, to the last schedule that was saved.
FollowsDcm ==
  ~disturbed =>
    \A p \in Procs : pc[p] \in {"export", "unlink"} => cron[p] \in {latest, saved}

\* Replacing the whole crontab loses or revives no line of another service
\* as long as the runs are alone, the export works and nobody edits the
\* crontab between export and import.
OthersKept ==
  ~disturbed =>
    wanted = IF crontab = NoFile THEN {} ELSE crontab.others \ {Complaint}

(***************************************************************************)
(* The inductive invariant.                                                *)
(***************************************************************************)

\* manageCronJob has accepted the schedule.
Accepted == {"export", "sed", "append", "apply", "unlink"}

AcceptedInv == \A p \in Procs : pc[p] \in Accepted => cron[p] \in Schedules

\* A clean process runs alone, and what it needs is in the temporary file.
CleanInv ==
  \A p \in clean : pc[p] # "off" =>
    /\ \A q \in Procs \ {p} : pc[q] = "off"
    /\ pc[p] = "append" /\ tmp # NoFile => tmp.rfc = <<>>
    /\ pc[p] = "apply" => tmp # NoFile /\ tmp.rfc = <<Adjusted(cron[p])>>
    /\ pc[p] = "unlink" => crontab # NoFile /\ crontab.rfc = <<Adjusted(cron[p])>>

OneRuns == \A p, q \in Running : p = q

\* Nobody has disturbed a run: there is one at a time, the temporary file has
\* everybody's lines, and no older schedule is left anywhere.
ExportInv == \A p \in Replacing : tmp # NoFile /\ tmp.others \ {Complaint} = wanted

LatestInv ==
  /\ copy \in Schedules => copy = saved
  /\ \A p \in Procs : cron[p] \in Schedules =>
       /\ pc[p] = "save" => cron[p] = saved
       /\ pc[p] \in Accepted => cron[p] \in {latest, saved}

CronInv ==
  /\ TypeOK
  /\ AcceptedInv
  /\ CleanInv
  /\ ~disturbed => OneRuns /\ ExportInv /\ LatestInv
  /\ OthersKept
=============================================================================
